---------------------------- MODULE TickValidator ----------------------------
(***************************************************************************)
(* core/tick_validator.py.  Every comparison the validator makes is of two *)
(* timestamps or of a timestamp and the clock, so a timestamp is kept as   *)
(* its age, which the clock advances and which no test tells apart from    *)
(* Horizon once it gets there.  What is not a timestamp in a signature     *)
(* (price, volume, oi) is one value.                                       *)
(***************************************************************************)
EXTENDS Integers

CONSTANTS Keys,     \* (type, symbol, strike, option_type)
          Values,   \* what a tick of a key says
          None,     \* dict.get of an absent key
          MaxAge,   \* MaxAge[k]: MAX_TICK_AGE_SECONDS, or OI_MAX_TICK_AGE_SECONDS
          Skew,     \* Skew[k]: TICK_SKEW_TOLERANCE_SECONDS, or OI_TICK_SKEW_...
          Horizon   \* bound on ages

ASSUME ValidatorAssumption ==
  /\ MaxAge \in [Keys -> Nat] /\ Skew \in [Keys -> Nat] /\ Horizon \in Nat
  /\ \A k \in Keys : MaxAge[k] + Skew[k] < Horizon

Ages == 0 .. Horizon

\* The age a second later.
Older(age) == IF age < Horizon THEN age + 1 ELSE age

Ticks == [key : Keys, age : Ages, val : Values]

ASSUME NoTickAssumption == None \notin Ticks

VARIABLE prev  \* _last_by_key: the last tick accepted for each key

ValidatorTypeOK ==
  /\ prev \in [Keys -> Ticks \cup {None}]
  /\ \A k \in Keys : prev[k] # None => prev[k].key = k

ValidatorInit == prev = [k \in Keys |-> None]

IsStale(t) == t.age > MaxAge[t.key]

\* Only a jump forward counts: a tick older than the previous one passes.
IsOutOfOrder(t) == prev[t.key] # None /\ prev[t.key].age - t.age > Skew[t.key]

IsDuplicate(t) == prev[t.key] # None /\ prev[t.key].val = t.val

Accepts(t) == ~IsStale(t) /\ ~IsOutOfOrder(t) /\ ~IsDuplicate(t)

\* validate(): nothing but an accepted tick is remembered.
KeepFresh(t) == prev' = IF IsStale(t) THEN prev ELSE [prev EXCEPT ![t.key] = t]  \* mutant
Validate(t)  == prev' = IF Accepts(t) THEN [prev EXCEPT ![t.key] = t] ELSE prev

PrevAges ==
  prev' = [k \in Keys |-> IF prev[k] = None THEN None ELSE [prev[k] EXCEPT !.age = Older(@)]]

\* No tick of k can be accepted any more: what is fresh enough for is_stale
\* has jumped too far for is_out_of_order.
Wedged(k) == prev[k] # None /\ prev[k].age > MaxAge[k] + Skew[k]
=============================================================================
