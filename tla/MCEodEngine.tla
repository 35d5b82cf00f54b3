------------------------------ MODULE MCEodEngine ------------------------------
(* Model-checking instances of EodEngine: a trap and a signal that is none. *)
EXTENDS EodEngine

CONSTANTS s1, s2

MCTrapType == [s \in {s1, s2} |-> IF s = s1 THEN "BULL_TRAP" ELSE "NONE"]

\* One signal's records before the other's, the old or the new ones first.
Rank(first, newest) ==
  [p \in AllPlaces |-> (IF p[1] = first THEN 0 ELSE 3) + (IF newest THEN 3 - p[2] ELSE p[2])]

MCQueries ==
  {[rank |-> Rank(first, newest), week |-> week] :
     first \in Signals, newest \in BOOLEAN, week \in {Signals, {s2}}}
=============================================================================
