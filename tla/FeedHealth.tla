------------------------------- MODULE FeedHealth -------------------------------
(***************************************************************************)
(* What core/health.py knows of the feed of WsFeed: the time of the last   *)
(* tick that the pipeline accepted, from which the operator's watchdog     *)
(* tells of silence.  The registry outlives the pipelines it watches.      *)
(***************************************************************************)
EXTENDS WsFeed

CONSTANT OpsIdle   \* WATCHDOG_IDLE_SECONDS

ASSUME HealthAssumption == OpsIdle \in Nat /\ OpsIdle < Horizon /\ None \notin Int

VARIABLE lastTickAge   \* age of last_tick_ts, None while it is 0.0

allVars == <<vars, lastTickAge>>

HealthInit == Init /\ lastTickAge = None

-----------------------------------------------------------------------------
(* Each step of the feed, with what it tells the registry.                 *)

Counts(accepted) == lastTickAge' = IF accepted THEN 0 ELSE lastTickAge

ProcessCountsAll == Process /\ Counts(TRUE)      \* mutant: record_tick before validate

\* process: record_tick once the validator has let the tick through.
ProcessCounts == Process /\ Counts(Accepts(tick))

\* The last thread of a cancelled task goes on and may still count.
RestartCounts ==
  /\ Restart
  /\ \E accepted \in {FALSE, stage = "received" /\ Accepts(tick)} : Counts(accepted)

HealthClock ==
  /\ Clock
  /\ lastTickAge' = IF lastTickAge = None THEN None ELSE Older(lastTickAge)

Uncounted ==
  /\ \/ Connect \/ BackfillDone \/ WatchdogCloses \/ Wait \/ Timeout \/ Receive
     \/ ProcessReturns \/ ProcessRaises \/ MarketOpensOrCloses \/ \E k \in Keys : Push(k)
  /\ UNCHANGED lastTickAge

HealthNext == ProcessCounts \/ RestartCounts \/ HealthClock \/ Uncounted

HealthSpec == HealthInit /\ [][HealthNext]_allVars

\* The loop and its thread run on, and so does the clock.
FairHealthSpec == HealthSpec /\ WF_vars(LoopStep) /\ WF_allVars(HealthClock)

\* HealthRegistry.watchdog_expired, which /ops/watchdog asks: without a tick the
\* answer is ticks_processed > 0, and record_tick sets both.
OpsExpired == open /\ lastTickAge # None /\ lastTickAge > OpsIdle

-----------------------------------------------------------------------------
(* Properties.                                                             *)

\* Every variable keeps its type, the registry's age the horizon of the feed.
HealthTypeOK == TypeOK /\ lastTickAge \in Ages \cup {None}

\* An alarm means that the feed is beyond recovery: every key whose tolerances end by
\* the operator's idle time is wedged, whatever the reconnects in between have tried.
AlarmNeedsRestart ==
  OpsExpired => \A k \in Keys : MaxAge[k] + Skew[k] <= OpsIdle => prev[k] = None \/ Wedged(k)

\* A feed whose every key is wedged is reported if the market stays open, however many
\* ticks it brings: the ticks that the validator drops do not count (record_tick).
WedgedIsReported ==
  (\A k \in Keys : Wedged(k)) ~> (OpsExpired \/ ~open \/ \E k \in Keys : prev[k] = None)
=============================================================================
