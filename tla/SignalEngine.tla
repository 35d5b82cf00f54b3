----------------------------- MODULE SignalEngine -----------------------------
(***************************************************************************)
(* modules/signal_engine.py with the objects one engine shares between the *)
(* threads that call pipeline.process: the Checker, the paper trader, the  *)
(* signal log (core/signal_store.py) and the trap memory.  No lock guards  *)
(* any of them, so a worker's handling of a tick is one action per read or *)
(* write of shared state.  Workers are the thread the websocket loop hands *)
(* its ticks to, a request of /ops/ingest-tick, and the thread a cancelled *)
(* pipeline left running.                                                  *)
(***************************************************************************)
EXTENDS CheckerNode, PaperTrader, FiniteSetsExt

CONSTANTS Workers,          \* threads that may handle a tick at the same time
          FeatureThrottle,  \* FEATURE_THROTTLE_SECONDS
          MemoryMayFail,    \* whether index_records can raise (Qdrant down)
          MaxNow,           \* bound on the clock
          LastEntry,        \* bound: no trigger fires after this time
          MaxCrashes        \* bound on process restarts

ASSUME EngineAssumption ==
  /\ IsFiniteSet(Workers)
  /\ FeatureThrottle \in Nat
  /\ MemoryMayFail \in BOOLEAN
  /\ MaxNow \in Nat /\ LastEntry \in Nat /\ MaxCrashes \in Nat

VARIABLES pc,           \* pc[w]: where worker w is in on_tick, "idle" between ticks
          loc,          \* loc[w]: the local variables of its calls
          lastFeature,  \* _last_feature_ts; None is its initial 0.0, long ago
          lastSignal,   \* _last_signal_by_strike
          row, outcome, memory,  \* signal_log and the trap memory, see SignalLifecycle
          crashes       \* process restarts so far

worldVars  == <<now, crashes>>
engineVars == <<lastFeature, lastSignal>>
storeVars  == <<row, outcome, memory>>
vars == <<worldVars, checkerVars, traderVars, engineVars, storeVars, pc, loc>>

Lifecycle == INSTANCE SignalLifecycle WITH
  Signals <- Signals, Pnls <- Pnls, None <- None, row <- row, outcome <- outcome, memory <- memory

Directions == {"BULLISH", "BEARISH", "NEUTRAL"}

\* The local variables of on_tick and what it calls.
Locals ==
  [at        : Nat,                       \* the time.time() on_tick read
   strike    : Strikes \cup {None},       \* features["strike"] of the trigger
   direction : Directions \cup {None},    \* what the Maker answered
   sig       : Signals \cup {None},       \* the signal or position at hand
   amount    : Int,                       \* the pnl _close_position read
   toScan    : SUBSET Signals,            \* positions update_price has yet to visit
   toExit    : SUBSET Signals]            \* positions it closed, yet to be booked

\* No call is active.
NoLocals == [at |-> 0, strike |-> None, direction |-> None, sig |-> None, amount |-> 0,
             toScan |-> {}, toExit |-> {}]

Init ==
  /\ now = 0 /\ crashes = 0
  /\ CheckerInit /\ TraderInit /\ Lifecycle!LifecycleInit
  /\ pc = [w \in Workers |-> "idle"]
  /\ loc = [w \in Workers |-> NoLocals]
  /\ lastFeature = None
  /\ lastSignal = [k \in Strikes |-> None]

At(w, l) == pc[w] = l
Goto(w, l) == pc' = [pc EXCEPT ![w] = l]

\* on_tick returns.
Return(w) == Goto(w, "idle") /\ loc' = [loc EXCEPT ![w] = NoLocals]

\* Mutant: what ends one position's bookkeeping abandons the others.
LeaveLoop(w) ==
  Goto(w, "tick") /\ loc' = [loc EXCEPT ![w].sig = None, ![w].amount = 0, ![w].toExit = {}]

\* _close_position returns to the loop of _handle_spot.
ReturnToLoop(w) ==
  Goto(w, "tick") /\ loc' = [loc EXCEPT ![w].sig = None, ![w].amount = 0]

-----------------------------------------------------------------------------
(* on_tick: a spot tick first drives the open positions, an oi tick only   *)
(* evaluates the triggers (update_premium touches no state modelled here). *)
(* The tick's own timestamp, seconds from the clock, is taken to be at.    *)

SpotTick(w) ==
  /\ At(w, "idle") /\ Goto(w, "tick")
  /\ loc' = [loc EXCEPT ![w].at = now, ![w].toScan = OpenPositions]
  /\ UNCHANGED <<worldVars, checkerVars, traderVars, engineVars, storeVars>>

OiTick(w) ==
  /\ At(w, "idle") /\ Goto(w, "tick")
  /\ loc' = [loc EXCEPT ![w].at = now]
  /\ UNCHANGED <<worldVars, checkerVars, traderVars, engineVars, storeVars>>

-----------------------------------------------------------------------------
(* update_price: visit the snapshot of the positions; the status is read   *)
(* in one step and overwritten by _close in a later one.                   *)

PassOver(w) ==
  /\ At(w, "tick")
  /\ \E s \in loc[w].toScan :
       /\ position[s] # "OPEN" \/ MayHold(s, loc[w].at)
       /\ loc' = [loc EXCEPT ![w].toScan = @ \ {s}]
  /\ UNCHANGED <<worldVars, checkerVars, traderVars, engineVars, storeVars, pc>>

ResolveExit(w) ==
  /\ At(w, "tick") /\ Goto(w, "close")
  /\ \E s \in loc[w].toScan :
       /\ position[s] = "OPEN"
       /\ loc' = [loc EXCEPT ![w].toScan = @ \ {s}, ![w].sig = s]
  /\ UNCHANGED <<worldVars, checkerVars, traderVars, engineVars, storeVars>>

Close(w) ==
  /\ At(w, "close") /\ Goto(w, "tick")
  /\ ClosePosition(loc[w].sig)
  /\ loc' = [loc EXCEPT ![w].toExit = @ \cup {loc[w].sig}, ![w].sig = None]
  /\ UNCHANGED <<worldVars, checkerVars, engineVars, storeVars>>

-----------------------------------------------------------------------------
(* _close_position for each position just closed.  Whatever raises inside  *)
(* it is logged and the rest of that position's bookkeeping is skipped.    *)

NextExit(w) ==
  /\ At(w, "tick") /\ loc[w].toScan = {} /\ Goto(w, "exit_read")
  /\ \E s \in loc[w].toExit :
       loc' = [loc EXCEPT ![w].toExit = @ \ {s}, ![w].sig = s, ![w].amount = pnl[s]]
  /\ UNCHANGED <<worldVars, checkerVars, traderVars, engineVars, storeVars>>

\* SignalLogStore.transition, first half: read the row, reject an illegal move.
TransitionRead(w, from, write) ==
  /\ \/ row[loc[w].sig] = from /\ Goto(w, write) /\ UNCHANGED loc
     \/ row[loc[w].sig] # from /\ ReturnToLoop(w)
  /\ UNCHANGED <<worldVars, checkerVars, traderVars, engineVars, storeVars>>

\* SignalLogStore.transition, second half: UPDATE signal_log SET status.
TransitionWrite(w, status) ==
  /\ row' = [row EXCEPT ![loc[w].sig] = status]
  /\ UNCHANGED <<worldVars, checkerVars, traderVars, engineVars, outcome, memory>>

Then(w, l) == Goto(w, l) /\ UNCHANGED loc

ExitRead(w)     == At(w, "exit_read") /\ TransitionRead(w, "MONITORING", "exit_write")
ExitWrite(w)    == At(w, "exit_write") /\ TransitionWrite(w, "EXITED") /\ Then(w, "analyze_read")
AnalyzeRead(w)  == At(w, "analyze_read") /\ TransitionRead(w, "EXITED", "analyze_write")
AnalyzeOnly(w) ==   \* mutant of AnalyzeWrite: the outcome is not recorded
  At(w, "analyze_write") /\ TransitionWrite(w, "ANALYZED") /\ Then(w, "writeback")
AnalyzeWrite(w) == At(w, "analyze_write") /\ TransitionWrite(w, "ANALYZED") /\ Then(w, "outcome")

\* The last statement of mark_exited.
WriteOutcome(w) ==
  /\ At(w, "outcome") /\ Then(w, "writeback")
  /\ outcome' = [outcome EXCEPT ![loc[w].sig] = loc[w].amount]
  /\ UNCHANGED <<worldVars, checkerVars, traderVars, engineVars, row, memory>>

\* close_and_write_back skips a row that is not ANALYZED and returns normally.
WriteBackRead(w) ==
  /\ At(w, "writeback")
  /\ Then(w, IF row[loc[w].sig] = "ANALYZED" THEN "index" ELSE "account")
  /\ UNCHANGED <<worldVars, checkerVars, traderVars, engineVars, storeVars>>

Index(w) ==
  /\ At(w, "index") /\ Then(w, "closed_read")
  /\ memory' = [memory EXCEPT ![loc[w].sig] = @ + 1]
  /\ UNCHANGED <<worldVars, checkerVars, traderVars, engineVars, row, outcome>>

IndexFails(w) ==
  /\ At(w, "index") /\ MemoryMayFail /\ ReturnToLoop(w)
  /\ UNCHANGED <<worldVars, checkerVars, traderVars, engineVars, storeVars>>

ClosedRead(w)  == At(w, "closed_read") /\ TransitionRead(w, "ANALYZED", "closed_write")
ClosedWrite(w) == At(w, "closed_write") /\ TransitionWrite(w, "CLOSED") /\ Then(w, "account")

\* The Rule-D feed, the last thing _close_position does.
Account(w) ==
  /\ At(w, "account") /\ ReturnToLoop(w)
  /\ RecordExitPnl(loc[w].amount)
  /\ UNCHANGED <<worldVars, traderVars, engineVars, storeVars>>

-----------------------------------------------------------------------------
(* _maybe_evaluate and _produce_signal, once _handle_spot has returned.    *)

PositionsHandled(w) == At(w, "tick") /\ loc[w].toScan = {} /\ loc[w].toExit = {}

\* Throttled, or the market is not open.
SkipEvaluation(w) ==
  /\ PositionsHandled(w) /\ Return(w)
  /\ UNCHANGED <<worldVars, checkerVars, traderVars, engineVars, storeVars>>

\* The features are rebuilt; a trigger fires at some strike or none does.
Evaluate(w) ==
  /\ PositionsHandled(w)
  /\ ~CoolingDown(lastFeature, loc[w].at, FeatureThrottle)
  /\ lastFeature' = loc[w].at
  /\ \/ Return(w)
     \/ /\ loc[w].at <= LastEntry /\ Goto(w, "gate")
        /\ \E k \in Strikes : loc' = [loc EXCEPT ![w].strike = k]
  /\ UNCHANGED <<worldVars, checkerVars, traderVars, lastSignal, storeVars>>

\* _last_signal_by_strike: a strike just signalled never reaches the Maker.
Gate(w) ==
  /\ At(w, "gate")
  /\ IF CoolingDown(lastSignal[loc[w].strike], loc[w].at, DuplicateCooldown)
       THEN Return(w) ELSE Then(w, "maker")
  /\ UNCHANGED <<worldVars, checkerVars, traderVars, engineVars, storeVars>>

\* Ids uuid4 has not handed out.  Bound: the model has finitely many, and a
\* signal stored nowhere gives its id back.
FreshSignals ==
  {s \in Signals : /\ row[s] = "NONE"
                   /\ \A v \in Workers : pc[v] \in {"approve", "register"} => loc[v].sig # s}

\* The Maker has answered, from the LLM or its rules, and the Checker's rules
\* read its state as it is by then.
CheckApproves(w) ==
  /\ At(w, "maker") /\ Goto(w, "approve")
  /\ ChecksPass(loc[w].strike, TRUE)
  /\ \E s \in FreshSignals, d \in Directions :
       loc' = [loc EXCEPT ![w].sig = s, ![w].direction = d]
  /\ UNCHANGED <<worldVars, checkerVars, traderVars, engineVars, storeVars>>

\* A rule of the signal itself (A, B, F, G) may always fail.
CheckRejects(w) ==
  /\ At(w, "maker") /\ Return(w)
  /\ \E signalRules \in BOOLEAN : ~ChecksPass(loc[w].strike, signalRules)
  /\ UNCHANGED <<worldVars, checkerVars, traderVars, engineVars, storeVars>>

Approve(w) ==
  /\ At(w, "approve") /\ Then(w, "register")
  /\ RecordApproval(loc[w].strike)
  /\ UNCHANGED <<worldVars, traderVars, engineVars, storeVars>>

\* Mutant: the trade is opened before the signal is marked approved.
RegisterAndSubmit(w) ==
  /\ At(w, "register") /\ Then(w, "submit")
  /\ lastSignal' = [lastSignal EXCEPT ![loc[w].strike] = loc[w].at]
  /\ row' = [row EXCEPT ![loc[w].sig] = "SIGNAL_GENERATED"]
  /\ UNCHANGED <<worldVars, checkerVars, traderVars, lastFeature, outcome, memory>>

Register(w) ==
  /\ At(w, "register") /\ Then(w, "mark")
  /\ lastSignal' = [lastSignal EXCEPT ![loc[w].strike] = loc[w].at]
  /\ row' = [row EXCEPT ![loc[w].sig] = "SIGNAL_GENERATED"]
  /\ UNCHANGED <<worldVars, checkerVars, traderVars, lastFeature, outcome, memory>>

\* mark_approved.  No other thread writes a row before MONITORING, so the two
\* halves of this transition and of Monitor's are one step.
MarkApproved(w) ==
  /\ At(w, "mark") /\ row[loc[w].sig] = "SIGNAL_GENERATED"
  /\ TransitionWrite(w, "APPROVED") /\ Then(w, "submit")

Submit(w) ==
  /\ At(w, "submit") /\ HasSide(loc[w].direction) /\ Then(w, "monitor")
  /\ OpenPosition(loc[w].sig, loc[w].at)
  /\ UNCHANGED <<worldVars, checkerVars, engineVars, storeVars>>

\* A NEUTRAL signal: submit_signal raises, the pipeline logs it.
SubmitRaises(w) ==
  /\ At(w, "submit") /\ ~HasSide(loc[w].direction) /\ Return(w)
  /\ UNCHANGED <<worldVars, checkerVars, traderVars, engineVars, storeVars>>

Monitor(w) ==
  /\ At(w, "monitor") /\ row[loc[w].sig] = "APPROVED"
  /\ TransitionWrite(w, "MONITORING") /\ Return(w)

-----------------------------------------------------------------------------
(* The clock and the process.                                              *)

Clock ==
  /\ now < MaxNow /\ now' = now + 1
  /\ UNCHANGED <<crashes, checkerVars, traderVars, engineVars, storeVars, pc, loc>>

\* The process restarts: the signal log and the memory persist, the rest of
\* the state is built anew.
Crash ==
  /\ crashes < MaxCrashes /\ crashes' = crashes + 1
  /\ pnlDay' = 0 /\ halted' = FALSE
  /\ alertTimes' = <<>> /\ lastAlert' = [k \in Strikes |-> None]
  /\ position' = [s \in Signals |-> "NONE"] /\ openedAt' = [s \in Signals |-> 0]
  /\ pnl' = [s \in Signals |-> 0] /\ booked' = [s \in Signals |-> 0]
  /\ lastFeature' = None /\ lastSignal' = [k \in Strikes |-> None]
  /\ pc' = [w \in Workers |-> "idle"] /\ loc' = [w \in Workers |-> NoLocals]
  /\ UNCHANGED <<now, storeVars>>

ExitStep(w) ==
  \/ PassOver(w) \/ ResolveExit(w) \/ Close(w) \/ NextExit(w)
  \/ ExitRead(w) \/ ExitWrite(w) \/ AnalyzeRead(w) \/ AnalyzeWrite(w) \/ WriteOutcome(w)
  \/ WriteBackRead(w) \/ Index(w) \/ IndexFails(w) \/ ClosedRead(w) \/ ClosedWrite(w)
  \/ Account(w)

SignalStep(w) ==
  \/ SkipEvaluation(w) \/ Evaluate(w) \/ Gate(w) \/ CheckApproves(w) \/ CheckRejects(w)
  \/ Approve(w) \/ Register(w) \/ MarkApproved(w) \/ Submit(w) \/ SubmitRaises(w)
  \/ Monitor(w)

Next ==
  \/ \E w \in Workers : SpotTick(w) \/ OiTick(w) \/ ExitStep(w) \/ SignalStep(w)
  \/ Clock \/ Crash

Spec == Init /\ [][Next]_vars

\* A thread runs on, the clock runs on, and while the market is open the
\* exchange keeps sending spot ticks to every worker.
Fairness ==
  /\ \A w \in Workers : WF_vars(ExitStep(w)) /\ WF_vars(SignalStep(w)) /\ SF_vars(SpotTick(w))
  /\ WF_vars(Clock)

FairSpec == Spec /\ Fairness
-----------------------------------------------------------------------------
(* Properties.                                                             *)

\* The steps of _handle_spot, from the first position visited to the last
\* one booked.
ExitLabels == {"tick", "close", "exit_read", "exit_write", "analyze_read", "analyze_write",
               "outcome", "writeback", "index", "closed_read", "closed_write", "account"}

SignalLabels == {"gate", "maker", "approve", "register", "mark", "submit", "monitor"}

Labels == {"idle"} \cup ExitLabels \cup SignalLabels

\* A worker holds a signal or position wherever it works on one.
HoldsSig == Labels \ {"idle", "tick", "gate", "maker"}

WorkerTypeOK ==
  /\ pc \in [Workers -> Labels]
  /\ loc \in [Workers -> Locals]
  /\ \A w \in Workers : pc[w] \in HoldsSig => loc[w].sig \in Signals

EngineTypeOK ==
  /\ lastFeature \in Nat \cup {None}
  /\ lastSignal \in [Strikes -> Nat \cup {None}]

StoreTypeOK ==
  /\ row \in [Signals -> Lifecycle!Statuses]
  /\ outcome \in [Signals -> Int \cup {None}]
  /\ memory \in [Signals -> Nat]

\* Every variable keeps the type its class declares.
TypeOK ==
  /\ CheckerTypeOK /\ TraderTypeOK
  /\ WorkerTypeOK /\ EngineTypeOK /\ StoreTypeOK
  /\ crashes \in Nat

\* Approvals in any RateWindow stay within Rule E's cap plus one per worker
\* beyond the first: check() reads _signal_timestamps before it appends to
\* it, so each other worker may slip one approval past the cap.
RateBound ==
  \A i \in DOMAIN alertTimes :
    Cardinality({j \in DOMAIN alertTimes :
                   /\ alertTimes[i] <= alertTimes[j]
                   /\ alertTimes[j] <= alertTimes[i] + RateWindow})
      <= MaxSignalsPerHour + Cardinality(Workers) - 1

\* Two approvals of one strike are a StrikeCooldown apart (Rule E.2), the
\* time the Checker and the LLM take between reading and writing included.
StrikeSpacing ==
  [][\A k \in Strikes :
       lastAlert'[k] \notin {None, lastAlert[k]}
         => ~CoolingDown(lastAlert[k], now, StrikeCooldown)]_vars

\* What the trader's closed positions have won or lost.
ClosedPnl == SumFunctionOnSet(pnl, {s \in Signals : position[s] = "CLOSED"})

\* Once the exits of a tick are booked, the Rule-D circuit has counted
\* every closed position, each once.
LossAccounted ==
  (\A w \in Workers : pc[w] \notin ExitLabels) => pnlDay = ClosedPnl

\* No signal passes the Checker after the closed positions lost the daily
\* maximum (Rule D reads the feed of earlier exits, not the positions).
EntryRespectsCircuit ==
  [][\A w \in Workers :
       pc[w] = "maker" /\ pc'[w] = "approve" => ClosedPnl > -MaxDailyLoss]_vars

\* A row follows its trade across restarts and threads: while a position is
\* open its row has not moved past MONITORING, and a position that was closed
\* had an approved signal.
RowFollowsTrade ==
  \A s \in Signals :
    /\ position[s] = "OPEN" => row[s] \in {"APPROVED", "MONITORING"}
    /\ position[s] = "CLOSED" => row[s] \notin {"NONE", "SIGNAL_GENERATED"}

\* The trap memory never learns from a signal whose outcome is not recorded,
\* though two threads may drive the same row.
OutcomeBeforeMemory ==
  \A s \in Signals : memory[s] > 0 => outcome[s] # None

\* However the workers interleave, no position is closed or written to memory
\* more often than there are workers (once, when there is one).
ClosedOncePerWorker ==
  \A s \in Signals :
    /\ booked[s] <= Cardinality(Workers)
    /\ memory[s] <= Cardinality(Workers)

\* Worker w is closing position s or booking its exit.
Exiting(w, s) == pc[w] \in ExitLabels /\ (loc[w].sig = s \/ s \in loc[w].toExit)

\* A MONITORING row has an open position or a worker about to book its exit:
\* no signal is left behind as monitored.
MonitoredIsLive ==
  \A s \in Signals :
    row[s] = "MONITORING" => position[s] = "OPEN" \/ \E w \in Workers : Exiting(w, s)

\* The store enforces the lifecycle, and the outcome and the write-back happen
\* once and in order: the engine implements SignalLifecycle.
ImplementsLifecycle == Lifecycle!LifecycleSpec

\* A monitored signal is eventually closed, whatever the price does.
MonitoredCloses == \A s \in Signals : row[s] = "MONITORING" ~> row[s] = "CLOSED"
=============================================================================
