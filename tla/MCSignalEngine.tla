---------------------------- MODULE MCSignalEngine ----------------------------
(* Model-checking instances of SignalEngine. *)
EXTENDS SignalEngine, TLC

Interchangeable ==
  Permutations(Signals) \cup Permutations(Strikes) \cup Permutations(Workers)

LossOrWin == {-2, 1}
OneLoss == {-2}
=============================================================================
