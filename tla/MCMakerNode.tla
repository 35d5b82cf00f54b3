------------------------------ MODULE MCMakerNode ------------------------------
(* Model-checking instances of MakerNode. *)
EXTENDS MakerNode, TLC

Interchangeable == Permutations(Workers) \cup Permutations(Markets)

OneOrTwo == {1, 2}
Two == {2}
=============================================================================
