----------------------------- MODULE MCMarketStore -----------------------------
(* Model-checking instances of MarketStore: an expiry on each of two days, *)
(* of the same strike, so that a rollover finds a window of the old chain. *)
EXTENDS MarketStore

MCChain == [e \in 1 .. 2 |-> {100}]
=============================================================================
