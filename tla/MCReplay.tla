------------------------------- MODULE MCReplay -------------------------------
(* Model-checking instances of Replay.  Prices are near 100, round levels  *)
(* every 10; two chains differ in one call.  A tape moves the price, or    *)
(* the chain, or both over fewer values.                                   *)
EXTENDS Replay

MCStrikes == {95, 98, 102, 105}
Oi(heavy) == [s \in MCStrikes |-> IF s = heavy THEN 4 ELSE 1]
Light == [call |-> Oi(102), put |-> Oi(98)]
Heavy == [call |-> [Oi(102) EXCEPT ![105] = 5], put |-> Oi(98)]
Thin == [call |-> [Oi(102) EXCEPT ![102] = 1], put |-> Oi(95)]

Quotes(prices, chains) == [price : prices, chain : chains]

MCMarkets ==
  {Quotes({96, 99, 100, 101, 104}, {Light}),
   Quotes({100}, {Light, Heavy, Thin}),
   Quotes({97, 100}, {Light, Heavy}), Quotes({100, 103}, {Light, Thin})}
=============================================================================
