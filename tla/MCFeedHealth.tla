----------------------------- MODULE MCFeedHealth -----------------------------
(* A model-checking instance of the watched feed: seconds are scaled so that *)
(* the tolerances of the spot end by the idle time of the websocket's        *)
(* watchdog, which ends before that of the operator.                         *)
EXTENDS FeedHealth

SpotOnly == {"spot"}
SpotMaxAge == [k \in SpotOnly |-> 1]
SpotSkew == [k \in SpotOnly |-> 1]
=============================================================================
