-------------------------- MODULE SignalEngineProofs --------------------------
(* Theorems about SignalEngine, for any workers, signals, strikes and bounds: the
   signal log and its lifecycle first, then what relates a signal's row, its
   position and the threads that work on it, then the daily loss. *)
EXTENDS SignalEngine, SetLemmas, TLAPS

-----------------------------------------------------------------------------
(* Names and frames.                                                       *)

LEMMA StatusNames ==
  Lifecycle!Statuses = {"NONE", "SIGNAL_GENERATED", "APPROVED", "MONITORING", "EXITED",
                        "ANALYZED", "CLOSED"}
BY DEF Lifecycle!Statuses, Lifecycle!NextStatus

LEMMA LabelNames ==
  /\ HoldsSig = {"close", "exit_read", "exit_write", "analyze_read", "analyze_write", "outcome",
                 "writeback", "index", "closed_read", "closed_write", "account",
                 "approve", "register", "mark", "submit", "monitor"}
  /\ Labels = HoldsSig \cup {"idle", "tick", "gate", "maker"}
BY DEF HoldsSig, Labels, ExitLabels, SignalLabels

\* What a step leaves alone keeps its type.
LEMMA Frames ==
  ASSUME TypeOK
  PROVE  /\ UNCHANGED <<worldVars, checkerVars>> => CheckerTypeOK' /\ crashes' \in Nat
         /\ UNCHANGED traderVars => TraderTypeOK'
         /\ UNCHANGED engineVars => EngineTypeOK'
         /\ UNCHANGED storeVars => StoreTypeOK'
<1>1. UNCHANGED <<worldVars, checkerVars>> => CheckerTypeOK' /\ crashes' \in Nat
  <2>1. UNCHANGED <<worldVars, checkerVars>> => halted' \in BOOLEAN
    BY Zenon DEF TypeOK, CheckerTypeOK, checkerVars
  <2>2. QED
    BY <2>1 DEF TypeOK, CheckerTypeOK, worldVars, checkerVars
<1>2. UNCHANGED traderVars => TraderTypeOK'
  BY DEF TypeOK, TraderTypeOK, traderVars
<1>3. UNCHANGED engineVars => EngineTypeOK'
  BY DEF TypeOK, EngineTypeOK, engineVars
<1>4. UNCHANGED storeVars => StoreTypeOK'
  BY DEF TypeOK, StoreTypeOK, storeVars
<1>5. QED
  BY <1>1, <1>2, <1>3, <1>4

\* A step of worker w that touches only its own label and locals.
LEMMA WorkerTyped ==
  ASSUME WorkerTypeOK, NEW w \in Workers,
         pc' = [pc EXCEPT ![w] = pc'[w]], loc' = [loc EXCEPT ![w] = loc'[w]],
         pc'[w] \in Labels, loc'[w] \in Locals,
         pc'[w] \in HoldsSig => loc'[w].sig \in Signals
  PROVE  WorkerTypeOK'
BY DEF WorkerTypeOK

LEMMA ThenTyped ==
  ASSUME WorkerTypeOK, NEW w \in Workers, NEW l \in Labels, Then(w, l),
         l \in HoldsSig => pc[w] \in HoldsSig
  PROVE  WorkerTypeOK'
BY WorkerTyped DEF WorkerTypeOK, Then, Goto

LEMMA ReturnTyped ==
  ASSUME WorkerTypeOK, NEW w \in Workers, Return(w) \/ ReturnToLoop(w)
  PROVE  WorkerTypeOK'
<1>1. pc' = [pc EXCEPT ![w] = pc'[w]] /\ pc'[w] \in Labels \ HoldsSig
  BY LabelNames DEF WorkerTypeOK, Return, ReturnToLoop, Goto
<1>2. loc' = [loc EXCEPT ![w] = loc'[w]] /\ loc'[w] \in Locals
  BY DEF WorkerTypeOK, Return, ReturnToLoop, NoLocals, Locals
<1>3. QED
  BY <1>1, <1>2, WorkerTyped

-----------------------------------------------------------------------------
(* Type correctness.                                                       *)

LEMMA InitTyped == Init => TypeOK
<1> SUFFICES ASSUME Init PROVE TypeOK
  OBVIOUS
<1>1. CheckerTypeOK
  <2>1. alertTimes \in Seq(Nat)
    BY DEF Init, CheckerInit
  <2>2. lastAlert \in [Strikes -> Nat \cup {None}]
    BY DEF Init, CheckerInit
  <2>3. halted \in BOOLEAN
    BY Zenon DEF Init, CheckerInit
  <2>4. QED
    BY <2>1, <2>2, <2>3 DEF Init, CheckerInit, CheckerTypeOK
<1>2. TraderTypeOK
  BY DEF Init, TraderInit, TraderTypeOK
<1>3. WorkerTypeOK
  BY LabelNames DEF Init, NoLocals, Locals, WorkerTypeOK
<1>4. EngineTypeOK
  BY DEF Init, EngineTypeOK
<1>5. StoreTypeOK
  BY StatusNames DEF Init, Lifecycle!LifecycleInit, StoreTypeOK
<1>6. QED
  BY <1>1, <1>2, <1>3, <1>4, <1>5 DEF Init, TypeOK

LEMMA TickTyped ==
  ASSUME TypeOK, NEW w \in Workers, SpotTick(w) \/ OiTick(w)
  PROVE  TypeOK'
<1>1. pc' = [pc EXCEPT ![w] = "tick"]
  BY DEF SpotTick, OiTick, Goto
<1>2. loc' = [loc EXCEPT ![w] = loc'[w]] /\ loc'[w] \in Locals
  <2>1. CASE SpotTick(w)
    BY <2>1 DEF SpotTick, OpenPositions, TypeOK, WorkerTypeOK, CheckerTypeOK, Locals
  <2>2. CASE OiTick(w)
    BY <2>2 DEF OiTick, TypeOK, WorkerTypeOK, CheckerTypeOK, Locals
  <2>3. QED
    BY <2>1, <2>2
<1>3. WorkerTypeOK'
  BY <1>1, <1>2, LabelNames, WorkerTyped DEF TypeOK, WorkerTypeOK
<1>4. QED
  BY <1>3, Frames DEF TypeOK, SpotTick, OiTick

LEMMA ScanTyped ==
  ASSUME TypeOK, NEW w \in Workers,
         PassOver(w) \/ ResolveExit(w) \/ Close(w) \/ NextExit(w)
  PROVE  TypeOK'
<1>1. CASE PassOver(w)
  <2>1. PICK s \in loc[w].toScan : loc' = [loc EXCEPT ![w].toScan = @ \ {s}]
    BY <1>1 DEF PassOver
  <2>2. loc' = [loc EXCEPT ![w] = loc'[w]] /\ loc'[w] \in Locals
    BY <2>1 DEF TypeOK, WorkerTypeOK, Locals
  <2>3. pc' = [pc EXCEPT ![w] = "tick"]
    BY <1>1 DEF PassOver, At, TypeOK, WorkerTypeOK
  <2>4. WorkerTypeOK'
    BY <2>2, <2>3, LabelNames, WorkerTyped DEF TypeOK, WorkerTypeOK
  <2>5. QED
    BY <1>1, <2>4, Frames DEF TypeOK, PassOver
<1>2. CASE ResolveExit(w)
  <2>1. PICK s \in loc[w].toScan : loc' = [loc EXCEPT ![w].toScan = @ \ {s}, ![w].sig = s]
    BY <1>2 DEF ResolveExit
  <2>2. s \in Signals
    BY DEF TypeOK, WorkerTypeOK, Locals
  <2>3. loc' = [loc EXCEPT ![w] = loc'[w]] /\ loc'[w] \in Locals /\ loc'[w].sig = s
    BY <2>1, <2>2 DEF TypeOK, WorkerTypeOK, Locals
  <2>4. pc' = [pc EXCEPT ![w] = "close"]
    BY <1>2 DEF ResolveExit, Goto
  <2>5. WorkerTypeOK'
    BY <2>2, <2>3, <2>4, LabelNames, WorkerTyped DEF TypeOK, WorkerTypeOK
  <2>6. QED
    BY <1>2, <2>5, Frames DEF TypeOK, ResolveExit
<1>3. CASE Close(w)
  <2>1. loc[w].sig \in Signals
    BY <1>3, LabelNames DEF Close, At, TypeOK, WorkerTypeOK
  <2>2. loc' = [loc EXCEPT ![w] = loc'[w]] /\ loc'[w] \in Locals
    BY <1>3, <2>1 DEF Close, TypeOK, WorkerTypeOK, Locals
  <2>3. pc' = [pc EXCEPT ![w] = "tick"]
    BY <1>3 DEF Close, Goto
  <2>4. WorkerTypeOK'
    BY <2>2, <2>3, LabelNames, WorkerTyped DEF TypeOK, WorkerTypeOK
  <2>5. TraderTypeOK'
    <3>1. PICK p \in Pnls : pnl' = [pnl EXCEPT ![loc[w].sig] = p]
      BY <1>3 DEF Close, ClosePosition
    <3>2. p \in Int
      BY TraderAssumption DEF TraderAssumption
    <3>3. QED
      BY <1>3, <2>1, <3>1, <3>2 DEF Close, ClosePosition, TypeOK, TraderTypeOK
  <2>6. QED
    BY <1>3, <2>4, <2>5, Frames DEF TypeOK, Close
<1>4. CASE NextExit(w)
  <2>1. PICK s \in loc[w].toExit :
          loc' = [loc EXCEPT ![w].toExit = @ \ {s}, ![w].sig = s, ![w].amount = pnl[s]]
    BY <1>4 DEF NextExit
  <2>2. s \in Signals /\ pnl[s] \in Int
    BY DEF TypeOK, WorkerTypeOK, Locals, TraderTypeOK
  <2>3. loc' = [loc EXCEPT ![w] = loc'[w]] /\ loc'[w] \in Locals /\ loc'[w].sig = s
    BY <2>1, <2>2 DEF TypeOK, WorkerTypeOK, Locals
  <2>4. pc' = [pc EXCEPT ![w] = "exit_read"]
    BY <1>4 DEF NextExit, Goto
  <2>5. WorkerTypeOK'
    BY <2>2, <2>3, <2>4, LabelNames, WorkerTyped DEF TypeOK, WorkerTypeOK
  <2>6. QED
    BY <1>4, <2>5, Frames DEF TypeOK, NextExit
<1>5. QED
  BY <1>1, <1>2, <1>3, <1>4

LEMMA TransitionReadTyped ==
  ASSUME TypeOK, NEW w \in Workers, pc[w] \in HoldsSig,
         NEW from, NEW write \in HoldsSig, TransitionRead(w, from, write)
  PROVE  TypeOK'
<1>1. CASE Then(w, write)
  <2>1. WorkerTypeOK'
    BY <1>1, ThenTyped, LabelNames DEF TypeOK
  <2>2. QED
    BY <2>1, Frames DEF TypeOK, TransitionRead
<1>2. CASE ReturnToLoop(w)
  <2>1. WorkerTypeOK'
    BY <1>2, ReturnTyped DEF TypeOK
  <2>2. QED
    BY <2>1, Frames DEF TypeOK, TransitionRead
<1>3. QED
  BY <1>1, <1>2 DEF TransitionRead, Then

LEMMA TransitionWriteTyped ==
  ASSUME TypeOK, NEW w \in Workers, pc[w] \in HoldsSig,
         NEW status \in Lifecycle!Statuses, NEW l \in Labels,
         TransitionWrite(w, status), Then(w, l) \/ Return(w)
  PROVE  TypeOK'
<1>1. WorkerTypeOK'
  BY ThenTyped, ReturnTyped DEF TypeOK
<1>2. StoreTypeOK'
  BY DEF TypeOK, StoreTypeOK, TransitionWrite
<1>3. QED
  BY <1>1, <1>2, Frames DEF TypeOK, TransitionWrite

LEMMA BookingTyped ==
  ASSUME TypeOK, NEW w \in Workers,
         \/ ExitRead(w) \/ ExitWrite(w) \/ AnalyzeRead(w) \/ AnalyzeWrite(w)
         \/ WriteOutcome(w) \/ WriteBackRead(w) \/ Index(w) \/ IndexFails(w)
         \/ ClosedRead(w) \/ ClosedWrite(w) \/ Account(w)
  PROVE  TypeOK'
<1>1. CASE ExitRead(w) \/ AnalyzeRead(w) \/ ClosedRead(w)
  BY <1>1, TransitionReadTyped, LabelNames DEF ExitRead, AnalyzeRead, ClosedRead, At
<1>2. CASE ExitWrite(w) \/ AnalyzeWrite(w) \/ ClosedWrite(w)
  BY <1>2, TransitionWriteTyped, LabelNames, StatusNames
     DEF ExitWrite, AnalyzeWrite, ClosedWrite, At
<1>3. CASE WriteOutcome(w)
  <2>1. WorkerTypeOK'
    BY <1>3, ThenTyped, LabelNames DEF TypeOK, WriteOutcome, At
  <2>2. StoreTypeOK'
    <3>1. loc[w].amount \in Int
      BY DEF TypeOK, WorkerTypeOK, Locals
    <3>2. QED
      BY <1>3, <3>1 DEF TypeOK, StoreTypeOK, WriteOutcome
  <2>3. QED
    BY <1>3, <2>1, <2>2, Frames DEF TypeOK, WriteOutcome
<1>4. CASE WriteBackRead(w)
  <2>1. WorkerTypeOK'
    BY <1>4, ThenTyped, LabelNames DEF TypeOK, WriteBackRead, At
  <2>2. QED
    BY <1>4, <2>1, Frames DEF TypeOK, WriteBackRead
<1>5. CASE Index(w)
  <2>1. WorkerTypeOK'
    BY <1>5, ThenTyped, LabelNames DEF TypeOK, Index, At
  <2>2. StoreTypeOK'
    <3>1. loc[w].sig \in Signals
      BY <1>5, LabelNames DEF TypeOK, WorkerTypeOK, Index, At
    <3>2. memory' \in [Signals -> Nat]
      BY <1>5, <3>1 DEF TypeOK, StoreTypeOK, Index
    <3>3. QED
      BY <1>5, <3>2 DEF TypeOK, StoreTypeOK, Index
  <2>3. QED
    BY <1>5, <2>1, <2>2, Frames DEF TypeOK, Index
<1>6. CASE IndexFails(w)
  BY <1>6, ReturnTyped, Frames DEF TypeOK, IndexFails
<1>7. CASE Account(w)
  <2>1. WorkerTypeOK'
    BY <1>7, ReturnTyped DEF TypeOK, Account
  <2>2. CheckerTypeOK' /\ crashes' \in Nat
    <3>1. loc[w].amount \in Int
      BY DEF TypeOK, WorkerTypeOK, Locals
    <3>2. halted' \in BOOLEAN
      BY <1>7, Zenon DEF Account, RecordExitPnl
    <3>3. QED
      BY <1>7, <3>1, <3>2 DEF TypeOK, CheckerTypeOK, Account, RecordExitPnl, worldVars
  <2>3. QED
    BY <1>7, <2>1, <2>2, Frames DEF TypeOK, Account
<1>8. QED
  BY <1>1, <1>2, <1>3, <1>4, <1>5, <1>6, <1>7
LEMMA EvaluateTyped ==
  ASSUME TypeOK, NEW w \in Workers,
         \/ SkipEvaluation(w) \/ Evaluate(w) \/ Gate(w) \/ CheckApproves(w) \/ CheckRejects(w)
  PROVE  TypeOK'
<1>1. CASE SkipEvaluation(w) \/ CheckRejects(w)
  <2>1. WorkerTypeOK'
    BY <1>1, ReturnTyped DEF TypeOK, SkipEvaluation, CheckRejects
  <2>2. QED
    BY <1>1, <2>1, Frames DEF TypeOK, SkipEvaluation, CheckRejects
<1>2. CASE Evaluate(w)
  <2>1. EngineTypeOK'
    BY <1>2 DEF Evaluate, TypeOK, EngineTypeOK, WorkerTypeOK, Locals
  <2>2. CASE Return(w)
    <3>1. WorkerTypeOK'
      BY <2>2, ReturnTyped DEF TypeOK
    <3>2. QED
      BY <1>2, <2>1, <3>1, Frames DEF TypeOK, Evaluate
  <2>3. CASE Goto(w, "gate") /\ \E k \in Strikes : loc' = [loc EXCEPT ![w].strike = k]
    <3>1. PICK k \in Strikes : loc' = [loc EXCEPT ![w].strike = k]
      BY <2>3
    <3>2. loc' = [loc EXCEPT ![w] = loc'[w]] /\ loc'[w] \in Locals
      BY <3>1 DEF TypeOK, WorkerTypeOK, Locals
    <3>3. pc' = [pc EXCEPT ![w] = "gate"]
      BY <2>3 DEF Goto
    <3>4. WorkerTypeOK'
      BY <3>2, <3>3, LabelNames, WorkerTyped DEF TypeOK, WorkerTypeOK
    <3>5. QED
      BY <1>2, <2>1, <3>4, Frames DEF TypeOK, Evaluate
  <2>4. QED
    BY <1>2, <2>2, <2>3 DEF Evaluate
<1>3. CASE Gate(w)
  <2>1. WorkerTypeOK'
    BY <1>3, ReturnTyped, ThenTyped, LabelNames DEF TypeOK, Gate
  <2>2. QED
    BY <1>3, <2>1, Frames DEF TypeOK, Gate
<1>4. CASE CheckApproves(w)
  <2>1. PICK s \in FreshSignals, d \in Directions :
          loc' = [loc EXCEPT ![w].sig = s, ![w].direction = d]
    BY <1>4 DEF CheckApproves
  <2>2. s \in Signals
    BY DEF FreshSignals
  <2>3. loc' = [loc EXCEPT ![w] = loc'[w]] /\ loc'[w] \in Locals /\ loc'[w].sig = s
    BY <2>1, <2>2 DEF TypeOK, WorkerTypeOK, Locals
  <2>4. pc' = [pc EXCEPT ![w] = "approve"]
    BY <1>4 DEF CheckApproves, Goto
  <2>5. WorkerTypeOK'
    BY <2>2, <2>3, <2>4, LabelNames, WorkerTyped DEF TypeOK, WorkerTypeOK
  <2>6. QED
    BY <1>4, <2>5, Frames DEF TypeOK, CheckApproves
<1>5. QED
  BY <1>1, <1>2, <1>3, <1>4

LEMMA SignalTyped ==
  ASSUME TypeOK, NEW w \in Workers,
         \/ Approve(w) \/ Register(w) \/ MarkApproved(w) \/ Submit(w) \/ SubmitRaises(w)
         \/ Monitor(w)
  PROVE  TypeOK'
<1>1. CASE Approve(w)
  <2>1. WorkerTypeOK'
    BY <1>1, ThenTyped, LabelNames DEF TypeOK, Approve, At
  <2>2. CheckerTypeOK' /\ crashes' \in Nat
    <3>1. now \in Nat /\ now' = now /\ crashes' = crashes
      BY <1>1 DEF TypeOK, CheckerTypeOK, Approve, worldVars
    <3>2. halted' \in BOOLEAN
      BY <1>1, Zenon DEF TypeOK, CheckerTypeOK, Approve, RecordApproval
    <3>3. alertTimes' \in Seq(Nat)
      BY <1>1, <3>1 DEF TypeOK, CheckerTypeOK, Approve, RecordApproval
    <3>4. lastAlert' \in [Strikes -> Nat \cup {None}]
      BY <1>1, <3>1 DEF TypeOK, CheckerTypeOK, Approve, RecordApproval
    <3>5. QED
      BY <1>1, <3>1, <3>2, <3>3, <3>4 DEF TypeOK, CheckerTypeOK, Approve, RecordApproval
  <2>3. QED
    BY <1>1, <2>1, <2>2, Frames DEF TypeOK, Approve
<1>2. CASE Register(w)
  <2>1. WorkerTypeOK'
    BY <1>2, ThenTyped, LabelNames DEF TypeOK, Register, At
  <2>2. EngineTypeOK'
    BY <1>2 DEF Register, TypeOK, EngineTypeOK, WorkerTypeOK, Locals
  <2>3. StoreTypeOK'
    BY <1>2, StatusNames DEF Register, TypeOK, StoreTypeOK
  <2>4. QED
    BY <1>2, <2>1, <2>2, <2>3, Frames DEF TypeOK, Register
<1>3. CASE MarkApproved(w) \/ Monitor(w)
  BY <1>3, TransitionWriteTyped, LabelNames, StatusNames DEF MarkApproved, Monitor, At
<1>4. CASE Submit(w)
  <2>1. WorkerTypeOK'
    BY <1>4, ThenTyped, LabelNames DEF TypeOK, Submit, At
  <2>2. TraderTypeOK'
    BY <1>4 DEF Submit, OpenPosition, TypeOK, TraderTypeOK, WorkerTypeOK, Locals
  <2>3. QED
    BY <1>4, <2>1, <2>2, Frames DEF TypeOK, Submit
<1>5. CASE SubmitRaises(w)
  BY <1>5, ReturnTyped, Frames DEF TypeOK, SubmitRaises
<1>6. QED
  BY <1>1, <1>2, <1>3, <1>4, <1>5

LEMMA ClockTyped ==
  ASSUME TypeOK, Clock
  PROVE  TypeOK'
<1>1. CheckerTypeOK'
  <2>1. halted' \in BOOLEAN
    BY Zenon DEF TypeOK, CheckerTypeOK, Clock, checkerVars
  <2>2. QED
    BY <2>1 DEF TypeOK, CheckerTypeOK, Clock, checkerVars
<1>2. WorkerTypeOK' /\ crashes' \in Nat
  BY DEF TypeOK, WorkerTypeOK, Clock
<1>3. QED
  BY <1>1, <1>2, Frames DEF TypeOK, Clock

LEMMA CrashTyped ==
  ASSUME TypeOK, Crash
  PROVE  TypeOK'
<1>1. CheckerTypeOK' /\ crashes' \in Nat
  <2>1. halted' \in BOOLEAN
    BY Zenon DEF Crash
  <2>2. lastAlert' \in [Strikes -> Nat \cup {None}]
    BY DEF Crash
  <2>3. alertTimes' \in Seq(Nat)
    BY DEF Crash
  <2>4. QED
    BY <2>1, <2>2, <2>3 DEF TypeOK, CheckerTypeOK, Crash
<1>2. TraderTypeOK'
  BY DEF TypeOK, TraderTypeOK, Crash
<1>3. WorkerTypeOK'
  BY LabelNames DEF Crash, NoLocals, Locals, WorkerTypeOK
<1>4. EngineTypeOK'
  BY DEF Crash, EngineTypeOK
<1>5. QED
  BY <1>1, <1>2, <1>3, <1>4, Frames DEF TypeOK, Crash

LEMMA NextTyped == TypeOK /\ [Next]_vars => TypeOK'
<1> SUFFICES ASSUME TypeOK, [Next]_vars PROVE TypeOK'
  OBVIOUS
<1>1. ASSUME NEW w \in Workers, SpotTick(w) \/ OiTick(w) \/ ExitStep(w) \/ SignalStep(w)
      PROVE  TypeOK'
  BY <1>1, TickTyped, ScanTyped, BookingTyped, EvaluateTyped, SignalTyped
     DEF ExitStep, SignalStep
<1>2. CASE UNCHANGED vars
  <2>1. WorkerTypeOK'
    BY <1>2 DEF TypeOK, WorkerTypeOK, vars
  <2>2. QED
    BY <1>2, <2>1, Frames DEF TypeOK, vars
<1>3. QED
  BY <1>1, <1>2, ClockTyped, CrashTyped DEF Next

\* Every class of the engine keeps its variables within their types, and a
\* thread that works on a signal holds one, however the threads interleave.
THEOREM TypeCorrect == Spec => []TypeOK
BY InitTyped, NextTyped, PTL DEF Spec

-----------------------------------------------------------------------------
(* The rate bound.  RateBound alone is not inductive: a worker between the *)
(* Checker's read and its append has an approval still to come.  Counting  *)
(* those workers with the approvals of the last window makes it so.        *)

Pending == {w \in Workers : pc[w] = "approve"}

RateInv ==
  Cardinality(ApprovalsSince(now - RateWindow)) + Cardinality(Pending)
    <= MaxSignalsPerHour + Cardinality(Workers) - 1

Window(i) ==
  {j \in DOMAIN alertTimes : /\ alertTimes[i] <= alertTimes[j]
                             /\ alertTimes[j] <= alertTimes[i] + RateWindow}

LEMMA RateFinite ==
  ASSUME TypeOK
  PROVE  /\ \A t \in Int : /\ IsFiniteSet(ApprovalsSince(t))
                           /\ Cardinality(ApprovalsSince(t)) \in Nat
         /\ IsFiniteSet(Pending) /\ Cardinality(Pending) \in Nat
         /\ IsFiniteSet(Workers) /\ Cardinality(Workers) \in Nat
         /\ Cardinality(Pending) <= Cardinality(Workers)
<1>1. IsFiniteSet(DOMAIN alertTimes)
  <2>1. DOMAIN alertTimes = 1..Len(alertTimes) /\ Len(alertTimes) \in Int
    BY DEF TypeOK, CheckerTypeOK
  <2>2. QED
    BY <2>1, FS_Interval
<1>2. \A t \in Int : ApprovalsSince(t) \in SUBSET DOMAIN alertTimes
  BY DEF ApprovalsSince
<1>3. Pending \in SUBSET Workers /\ IsFiniteSet(Workers)
  BY EngineAssumption DEF Pending, EngineAssumption
<1>4. QED
  BY <1>1, <1>2, <1>3, FS_Subset, FS_CardinalityType

LEMMA RateInit == Init => RateInv /\ RateBound
<1> SUFFICES ASSUME Init PROVE RateInv /\ RateBound
  OBVIOUS
<1>1. ApprovalsSince(now - RateWindow) = {} /\ Pending = {} /\ DOMAIN alertTimes = {}
  BY DEF Init, CheckerInit, ApprovalsSince, Pending
<1>2. Cardinality(Workers) \in Nat
  BY InitTyped, RateFinite
<1>3. Cardinality(ApprovalsSince(now - RateWindow)) = 0 /\ Cardinality(Pending) = 0
  BY <1>1, FS_EmptySet
<1>4. RateInv
  BY <1>2, <1>3, CheckerAssumption DEF RateInv, CheckerAssumption
<1>5. RateBound
  BY <1>1 DEF RateBound
<1>6. QED
  BY <1>4, <1>5

\* A step that starts no approval and records none.
LEMMA RateQuiet ==
  ASSUME TypeOK, RateInv, RateBound,
         UNCHANGED <<now, alertTimes>>, Pending' \subseteq Pending
  PROVE  RateInv' /\ RateBound'
<1>1. Cardinality(Pending') <= Cardinality(Pending) /\ Cardinality(Pending') \in Nat
  BY RateFinite, FS_Subset, FS_CardinalityType
<1>2. now - RateWindow \in Int
  BY CheckerAssumption DEF TypeOK, CheckerTypeOK, CheckerAssumption
<1>3. ApprovalsSince(now - RateWindow)' = ApprovalsSince(now - RateWindow)
  BY DEF ApprovalsSince
<1>4. RateInv'
  BY <1>1, <1>2, <1>3, RateFinite, CheckerAssumption DEF RateInv, CheckerAssumption
<1>5. RateBound'
  BY DEF RateBound
<1>6. QED
  BY <1>4, <1>5

\* A worker other than the one that moves keeps its label.
LEMMA PendingShrinks ==
  ASSUME TypeOK, NEW w \in Workers, NEW l, l # "approve",
         Goto(w, l) \/ UNCHANGED pc
  PROVE  Pending' \subseteq Pending
BY DEF TypeOK, WorkerTypeOK, Pending, Goto

LEMMA RateExit ==
  ASSUME TypeOK, RateInv, RateBound, NEW w \in Workers,
         SpotTick(w) \/ OiTick(w) \/ ExitStep(w)
  PROVE  RateInv' /\ RateBound'
<1>1. UNCHANGED <<now, alertTimes>>
  BY DEF SpotTick, OiTick, ExitStep, PassOver, ResolveExit, Close, NextExit, ExitRead, ExitWrite,
         AnalyzeRead, AnalyzeWrite, WriteOutcome, WriteBackRead, Index, IndexFails, ClosedRead,
         ClosedWrite, Account, TransitionRead, TransitionWrite, RecordExitPnl, worldVars,
         checkerVars
<1>2. Pending' \subseteq Pending
  <2>1. CASE SpotTick(w) \/ OiTick(w)
    BY <2>1, PendingShrinks DEF SpotTick, OiTick
  <2>2. CASE PassOver(w) \/ ResolveExit(w) \/ Close(w) \/ NextExit(w)
    <3>1. CASE PassOver(w)
      BY <3>1 DEF PassOver, Pending
    <3>2. CASE ResolveExit(w) \/ Close(w) \/ NextExit(w)
      BY <3>2, PendingShrinks DEF ResolveExit, Close, NextExit
    <3>3. QED
      BY <2>2, <3>1, <3>2
  <2>3. CASE ExitRead(w) \/ AnalyzeRead(w) \/ ClosedRead(w)
    BY <2>3, PendingShrinks DEF ExitRead, AnalyzeRead, ClosedRead, TransitionRead, ReturnToLoop
  <2>4. CASE ExitWrite(w) \/ AnalyzeWrite(w) \/ ClosedWrite(w) \/ WriteOutcome(w)
    BY <2>4, PendingShrinks DEF ExitWrite, AnalyzeWrite, ClosedWrite, WriteOutcome, Then
  <2>5. CASE WriteBackRead(w) \/ Index(w) \/ IndexFails(w) \/ Account(w)
    BY <2>5, PendingShrinks DEF WriteBackRead, Index, IndexFails, Account, Then, ReturnToLoop
  <2>6. QED
    BY <2>1, <2>2, <2>3, <2>4, <2>5 DEF ExitStep
<1>3. QED
  BY <1>1, <1>2, RateQuiet

\* The Checker passes only below the cap, so one worker more may be pending.
LEMMA RateCheck ==
  ASSUME TypeOK, RateInv, RateBound, NEW w \in Workers, CheckApproves(w)
  PROVE  RateInv' /\ RateBound'
<1>1. UNCHANGED <<now, alertTimes>>
  BY DEF CheckApproves, worldVars, checkerVars
<1>2. Cardinality(ApprovalsSince(now - RateWindow)) < MaxSignalsPerHour
  BY DEF CheckApproves, ChecksPass, RuleE
<1>3. Pending' \subseteq Workers
  BY DEF Pending
<1>4. Cardinality(Pending') \in Nat /\ Cardinality(Pending') <= Cardinality(Workers)
  BY <1>3, RateFinite, FS_Subset, FS_CardinalityType
<1>5. now - RateWindow \in Int
  BY CheckerAssumption DEF TypeOK, CheckerTypeOK, CheckerAssumption
<1>6. ApprovalsSince(now - RateWindow)' = ApprovalsSince(now - RateWindow)
  BY <1>1 DEF ApprovalsSince
<1>7. RateInv'
  BY <1>2, <1>4, <1>5, <1>6, RateFinite, CheckerAssumption DEF RateInv, CheckerAssumption
<1>8. RateBound'
  BY <1>1 DEF RateBound
<1>9. QED
  BY <1>7, <1>8

\* Recording an approval turns a pending worker into an approval of the window.
LEMMA RateApprove ==
  ASSUME TypeOK, RateInv, RateBound, NEW w \in Workers, Approve(w)
  PROVE  RateInv' /\ RateBound'
<1> DEFINE recent == ApprovalsSince(now - RateWindow)
           new    == Len(alertTimes) + 1
<1>1. /\ now \in Nat /\ RateWindow \in Nat /\ MaxSignalsPerHour \in Nat
      /\ alertTimes \in Seq(Nat) /\ Len(alertTimes) \in Nat
  BY CheckerAssumption DEF TypeOK, CheckerTypeOK, CheckerAssumption
<1>2. now' = now /\ alertTimes' = Append(alertTimes, now)
  BY DEF Approve, RecordApproval, worldVars
<1>3. /\ DOMAIN alertTimes' = DOMAIN alertTimes \cup {new} /\ new \notin DOMAIN alertTimes
      /\ alertTimes'[new] = now
      /\ \A i \in DOMAIN alertTimes : alertTimes'[i] = alertTimes[i] /\ alertTimes[i] \in Nat
  BY <1>1, <1>2
<1>4. recent' = recent \cup {new} /\ new \notin recent
  BY <1>1, <1>2, <1>3 DEF ApprovalsSince
<1>5. Pending' = Pending \ {w} /\ w \in Pending
  BY DEF Approve, At, Then, Goto, Pending, TypeOK, WorkerTypeOK
<1>6. IsFiniteSet(recent) /\ Cardinality(recent) \in Nat
  BY <1>1, RateFinite
<1>7. IsFiniteSet(recent') /\ Cardinality(recent') = Cardinality(recent) + 1
  BY <1>4, <1>6, FS_AddElement
<1>8. Cardinality(Pending') = Cardinality(Pending) - 1 /\ Cardinality(Pending) \in Nat
  BY <1>5, RateFinite, FS_RemoveElement
<1>9. Cardinality(Workers) \in Nat
  BY RateFinite
<1>10. Cardinality(recent') + Cardinality(Pending') <= MaxSignalsPerHour + Cardinality(Workers) - 1
  BY <1>1, <1>6, <1>7, <1>8, <1>9 DEF RateInv
<1>11. ASSUME NEW i \in DOMAIN alertTimes'
       PROVE  Cardinality(Window(i)') <= MaxSignalsPerHour + Cardinality(Workers) - 1
  <2>1. CASE Window(i)' \subseteq recent'
    <3>1. Cardinality(Window(i)') <= Cardinality(recent') /\ Cardinality(Window(i)') \in Nat
      BY <1>7, <2>1, FS_Subset, FS_CardinalityType
    <3>2. Cardinality(Pending') \in Nat
      BY <1>5, <1>8, RateFinite, FS_Subset, FS_CardinalityType
    <3>3. QED
      BY <1>1, <1>6, <1>7, <1>9, <1>10, <3>1, <3>2
  <2>2. CASE ~(Window(i)' \subseteq recent')
    <3>1. i \in DOMAIN alertTimes /\ alertTimes[i] + RateWindow < now
      BY <1>1, <1>2, <1>3, <2>2 DEF Window, ApprovalsSince
    <3>2. Window(i)' = Window(i)
      BY <1>1, <1>2, <1>3, <3>1 DEF Window
    <3>3. QED
      BY <3>1, <3>2 DEF RateBound, Window
  <2>3. QED
    BY <2>1, <2>2
<1>12. RateInv'
  BY <1>10 DEF RateInv
<1>13. RateBound'
  BY <1>11 DEF RateBound, Window
<1>14. QED
  BY <1>12, <1>13

LEMMA RateSignal ==
  ASSUME TypeOK, RateInv, RateBound, NEW w \in Workers, SignalStep(w)
  PROVE  RateInv' /\ RateBound'
<1>1. CASE CheckApproves(w) \/ Approve(w)
  BY <1>1, RateCheck, RateApprove
<1>2. CASE ~CheckApproves(w) /\ ~Approve(w)
  <2>1. UNCHANGED <<now, alertTimes>>
    BY <1>2 DEF SignalStep, SkipEvaluation, Evaluate, Gate, CheckRejects, Register, MarkApproved,
         Submit, SubmitRaises, Monitor, TransitionWrite, worldVars, checkerVars
  <2>2. Pending' \subseteq Pending
    BY <1>2, PendingShrinks
       DEF SignalStep, SkipEvaluation, Evaluate, Gate, CheckRejects, Register, MarkApproved,
           Submit, SubmitRaises, Monitor, Return, Then
  <2>3. QED
    BY <2>1, <2>2, RateQuiet
<1>3. QED
  BY <1>1, <1>2

LEMMA RateClock ==
  ASSUME TypeOK, RateInv, RateBound, Clock
  PROVE  RateInv' /\ RateBound'
<1>1. now \in Nat /\ RateWindow \in Nat /\ MaxSignalsPerHour \in Nat /\ now' = now + 1
      /\ alertTimes' = alertTimes /\ alertTimes \in Seq(Nat)
  BY CheckerAssumption DEF TypeOK, CheckerTypeOK, CheckerAssumption, Clock, checkerVars
<1>2. ApprovalsSince(now - RateWindow)' \in SUBSET ApprovalsSince(now - RateWindow)
  BY <1>1 DEF ApprovalsSince
<1>3. IsFiniteSet(ApprovalsSince(now - RateWindow))
      /\ Cardinality(ApprovalsSince(now - RateWindow)) \in Nat
  <2>1. now - RateWindow \in Int
    BY <1>1
  <2>2. QED
    BY <2>1, RateFinite
<1>4. Cardinality(ApprovalsSince(now - RateWindow)') <= Cardinality(ApprovalsSince(now - RateWindow))
      /\ Cardinality(ApprovalsSince(now - RateWindow)') \in Nat
  BY <1>2, <1>3, FS_Subset, FS_CardinalityType
<1>5. Pending' = Pending
  BY DEF Clock, Pending
<1>6. RateInv'
  BY <1>1, <1>3, <1>4, <1>5, RateFinite DEF RateInv
<1>7. RateBound'
  BY <1>1 DEF RateBound
<1>8. QED
  BY <1>6, <1>7

LEMMA RateCrash ==
  ASSUME TypeOK, Crash
  PROVE  RateInv' /\ RateBound'
<1>1. ApprovalsSince(now - RateWindow)' = {} /\ Pending' = {} /\ DOMAIN alertTimes' = {}
  BY DEF Crash, ApprovalsSince, Pending
<1>2. Cardinality(ApprovalsSince(now - RateWindow)') = 0 /\ Cardinality(Pending') = 0
  BY <1>1, FS_EmptySet
<1>3. RateInv'
  BY <1>2, RateFinite, CheckerAssumption DEF RateInv, CheckerAssumption
<1>4. RateBound'
  BY <1>1 DEF RateBound
<1>5. QED
  BY <1>3, <1>4

LEMMA RateNext ==
  TypeOK /\ RateInv /\ RateBound /\ [Next]_vars => RateInv' /\ RateBound'
<1> SUFFICES ASSUME TypeOK, RateInv, RateBound, [Next]_vars
             PROVE  RateInv' /\ RateBound'
  OBVIOUS
<1>1. CASE UNCHANGED vars
  <2>1. UNCHANGED <<now, alertTimes>> /\ Pending' \subseteq Pending
    BY <1>1 DEF vars, worldVars, checkerVars, Pending
  <2>2. QED
    BY <2>1, RateQuiet
<1>2. QED
  BY <1>1, RateExit, RateSignal, RateClock, RateCrash DEF Next

\* However many threads run the Checker at once, the approvals of any
\* RateWindow stay within Rule E's cap plus one per thread beyond the first.
THEOREM RateBounded == Spec => []RateBound
BY TypeCorrect, RateInit, RateNext, PTL DEF Spec

-----------------------------------------------------------------------------
(* Outcome before memory.  What a worker relies on between mark_exited and *)
(* index_records is the outcome it wrote itself, whoever else moves the    *)
(* row, so the invariant says that of every worker on its way there.       *)

Recorded == {"writeback", "index"}

OutcomeInv ==
  /\ OutcomeBeforeMemory
  /\ \A w \in Workers : pc[w] \in Recorded => outcome[loc[w].sig] # None

\* A step after which no worker is newly on its way to the memory.
LEMMA OutcomeQuiet ==
  ASSUME OutcomeInv, UNCHANGED <<outcome, memory>>,
         \A v \in Workers : pc'[v] \in Recorded => pc[v] \in Recorded /\ loc'[v] = loc[v]
  PROVE  OutcomeInv'
BY DEF OutcomeInv, OutcomeBeforeMemory

LEMMA OutcomeScan ==
  ASSUME TypeOK, OutcomeInv, NEW w \in Workers,
         SpotTick(w) \/ OiTick(w) \/ PassOver(w) \/ ResolveExit(w) \/ Close(w) \/ NextExit(w)
  PROVE  OutcomeInv'
<1>1. UNCHANGED <<outcome, memory>>
  BY DEF SpotTick, OiTick, PassOver, ResolveExit, Close, NextExit, storeVars
<1>2. ASSUME NEW v \in Workers, pc'[v] \in Recorded
      PROVE  pc[v] \in Recorded /\ loc'[v] = loc[v]
  <2>1. CASE PassOver(w)
    BY <1>2, <2>1 DEF PassOver, At, Recorded, TypeOK, WorkerTypeOK
  <2>2. CASE SpotTick(w) \/ OiTick(w) \/ ResolveExit(w) \/ Close(w) \/ NextExit(w)
    BY <1>2, <2>2 DEF SpotTick, OiTick, ResolveExit, Close, NextExit, Goto, Recorded, TypeOK,
                      WorkerTypeOK
  <2>3. QED
    BY <2>1, <2>2
<1>3. QED
  BY <1>1, <1>2, OutcomeQuiet

LEMMA OutcomeBooking ==
  ASSUME TypeOK, OutcomeInv, NEW w \in Workers,
         \/ ExitRead(w) \/ ExitWrite(w) \/ AnalyzeRead(w) \/ AnalyzeWrite(w)
         \/ WriteOutcome(w) \/ WriteBackRead(w) \/ Index(w) \/ IndexFails(w)
         \/ ClosedRead(w) \/ ClosedWrite(w) \/ Account(w)
  PROVE  OutcomeInv'
<1>1. CASE WriteOutcome(w)
  <2>1. /\ loc[w].sig \in Signals /\ loc[w].amount # None
        /\ outcome' = [outcome EXCEPT ![loc[w].sig] = loc[w].amount]
        /\ UNCHANGED <<memory, loc>> /\ outcome \in [Signals -> Int \cup {None}]
    BY <1>1, LabelNames, NoneAssumption
       DEF WriteOutcome, At, Then, TypeOK, WorkerTypeOK, StoreTypeOK, Locals, NoneAssumption
  <2>2. \A v \in Workers : pc'[v] \in Recorded => v = w \/ pc[v] \in Recorded
    BY <1>1 DEF WriteOutcome, Then, Goto, TypeOK, WorkerTypeOK
  <2>3. \A s \in Signals : outcome[s] # None => outcome'[s] # None
    BY <2>1
  <2>4. \A v \in Workers : pc'[v] \in Recorded => outcome'[loc'[v].sig] # None
    BY <2>1, <2>2 DEF OutcomeInv
  <2>5. QED
    BY <2>1, <2>3, <2>4 DEF OutcomeInv, OutcomeBeforeMemory
<1>2. CASE WriteBackRead(w)
  <2>1. \A v \in Workers : pc'[v] \in Recorded => pc[v] \in Recorded /\ loc'[v] = loc[v]
    BY <1>2 DEF WriteBackRead, At, Then, Goto, Recorded, TypeOK, WorkerTypeOK
  <2>2. QED
    BY <1>2, <2>1, OutcomeQuiet DEF WriteBackRead, storeVars
<1>3. CASE Index(w)
  <2>1. /\ outcome[loc[w].sig] # None /\ loc' = loc /\ outcome' = outcome
        /\ \A s \in Signals : s # loc[w].sig => memory'[s] = memory[s]
    BY <1>3 DEF Index, At, Then, OutcomeInv, Recorded, TypeOK, StoreTypeOK
  <2>2. \A v \in Workers : pc'[v] \in Recorded => pc[v] \in Recorded
    BY <1>3 DEF Index, Then, Goto, Recorded, TypeOK, WorkerTypeOK
  <2>3. QED
    BY <2>1, <2>2 DEF OutcomeInv, OutcomeBeforeMemory
<1>4. CASE ExitRead(w) \/ AnalyzeRead(w) \/ ClosedRead(w) \/ IndexFails(w) \/ Account(w)
  <2>1. UNCHANGED <<outcome, memory>>
    BY <1>4 DEF ExitRead, AnalyzeRead, ClosedRead, IndexFails, Account, TransitionRead, storeVars
  <2>2. \A v \in Workers : pc'[v] \in Recorded => pc[v] \in Recorded /\ loc'[v] = loc[v]
    <3>1. CASE Account(w) \/ IndexFails(w)
      BY <3>1 DEF Account, IndexFails, ReturnToLoop, Goto, Recorded, TypeOK, WorkerTypeOK
    <3>2. CASE ExitRead(w) \/ AnalyzeRead(w) \/ ClosedRead(w)
      BY <3>2 DEF ExitRead, AnalyzeRead, ClosedRead, TransitionRead, ReturnToLoop, Goto,
                  Recorded, TypeOK, WorkerTypeOK
    <3>3. QED
      BY <1>4, <3>1, <3>2
  <2>3. QED
    BY <2>1, <2>2, OutcomeQuiet
<1>5. CASE ExitWrite(w) \/ AnalyzeWrite(w) \/ ClosedWrite(w)
  <2>1. UNCHANGED <<outcome, memory>>
    BY <1>5 DEF ExitWrite, AnalyzeWrite, ClosedWrite, TransitionWrite
  <2>2. \A v \in Workers : pc'[v] \in Recorded => pc[v] \in Recorded /\ loc'[v] = loc[v]
    BY <1>5 DEF ExitWrite, AnalyzeWrite, ClosedWrite, Then, Goto, Recorded, TypeOK, WorkerTypeOK
  <2>3. QED
    BY <2>1, <2>2, OutcomeQuiet
<1>6. QED
  BY <1>1, <1>2, <1>3, <1>4, <1>5

LEMMA OutcomeSignal ==
  ASSUME TypeOK, OutcomeInv, NEW w \in Workers, SignalStep(w)
  PROVE  OutcomeInv'
<1>1. UNCHANGED <<outcome, memory>>
  BY DEF SignalStep, SkipEvaluation, Evaluate, Gate, CheckApproves, CheckRejects, Approve,
         Register, MarkApproved, Submit, SubmitRaises, Monitor, TransitionWrite, storeVars
<1>2. ASSUME NEW v \in Workers, pc'[v] \in Recorded
      PROVE  pc[v] \in Recorded /\ loc'[v] = loc[v]
  <2>1. CASE SkipEvaluation(w) \/ Evaluate(w) \/ Gate(w) \/ CheckApproves(w) \/ CheckRejects(w)
    BY <1>2, <2>1 DEF SkipEvaluation, Evaluate, Gate, CheckApproves, CheckRejects, Return, Then,
                      Goto, Recorded, TypeOK, WorkerTypeOK
  <2>2. CASE \/ Approve(w) \/ Register(w) \/ MarkApproved(w) \/ Submit(w) \/ SubmitRaises(w)
             \/ Monitor(w)
    BY <1>2, <2>2 DEF Approve, Register, MarkApproved, Submit, SubmitRaises, Monitor, Return,
                      Then, Goto, Recorded, TypeOK, WorkerTypeOK
  <2>3. QED
    BY <2>1, <2>2 DEF SignalStep
<1>3. QED
  BY <1>1, <1>2, OutcomeQuiet

LEMMA OutcomeNext == TypeOK /\ OutcomeInv /\ [Next]_vars => OutcomeInv'
<1> SUFFICES ASSUME TypeOK, OutcomeInv, [Next]_vars PROVE OutcomeInv'
  OBVIOUS
<1>1. CASE UNCHANGED vars
  BY <1>1, OutcomeQuiet DEF vars, storeVars
<1>2. CASE Clock
  BY <1>2, OutcomeQuiet DEF Clock, storeVars
<1>3. CASE Crash
  BY <1>3, OutcomeQuiet DEF Crash, storeVars, Recorded
<1>4. QED
  BY <1>1, <1>2, <1>3, OutcomeScan, OutcomeBooking, OutcomeSignal DEF Next, ExitStep

\* Whatever the threads and the restarts do, the trap memory only ever learns
\* from a signal whose outcome the log holds.
THEOREM OutcomePrecedesMemory == Spec => []OutcomeBeforeMemory
<1>1. Init => OutcomeInv
  BY DEF Init, Lifecycle!LifecycleInit, OutcomeInv, OutcomeBeforeMemory, Recorded
<1>2. OutcomeInv => OutcomeBeforeMemory
  BY DEF OutcomeInv
<1>3. QED
  BY <1>1, <1>2, TypeCorrect, OutcomeNext, PTL DEF Spec

-----------------------------------------------------------------------------
(* The inductive invariant, for any number of workers.                     *)

\* A row that has been monitored is never again what it was before.
Late == {"MONITORING", "EXITED", "ANALYZED", "CLOSED"}

\* The labels of a signal on its way to MONITORING, and of an exit being booked.
Entering == {"approve", "register", "mark", "submit", "monitor"}
Booking == {"exit_read", "exit_write", "analyze_read", "analyze_write", "outcome", "writeback",
            "index", "closed_read", "closed_write", "account"}

\* What a label of worker w says of the row and the position of its signal.
EntryInv(w) ==
  LET s == loc[w].sig IN
    /\ pc[w] \in {"approve", "register"} => row[s] = "NONE"
    /\ pc[w] = "mark" => row[s] = "SIGNAL_GENERATED"
    /\ pc[w] = "submit" => row[s] = "APPROVED" /\ position[s] = "NONE"
    /\ pc[w] = "monitor" => row[s] = "APPROVED"

ExitInv(w) ==
  LET s == loc[w].sig IN
    /\ pc[w] = "close" => position[s] # "NONE"
    /\ pc[w] \in Booking => position[s] = "CLOSED" /\ s \notin loc[w].toExit
    /\ pc[w] \in Booking \ {"exit_read"} => row[s] \in Late
    /\ \A x \in loc[w].toExit : position[x] = "CLOSED"

\* A signal enters through one worker only.
Apart(v, w) ==
  pc[v] \in Entering /\ pc[w] \in Entering /\ loc[v].sig = loc[w].sig => v = w

\* What is true of a signal whoever works on it.
SignalInv(s) ==
  /\ position[s] = "OPEN" => row[s] \in {"APPROVED", "MONITORING"} /\ memory[s] = 0
  /\ position[s] = "CLOSED" => row[s] \notin {"NONE", "SIGNAL_GENERATED"}
  /\ position[s] # "CLOSED" => booked[s] = 0
  /\ memory[s] > 0 => row[s] \in Late

TradeInv ==
  /\ \A w \in Workers : EntryInv(w) /\ ExitInv(w)
  /\ \A v, w \in Workers : Apart(v, w)
  /\ \A s \in Signals : SignalInv(s)

\* A worker that does not move keeps what its label says, if its signal's position
\* only closes and its row only changes while it is late or is none of its own.
LEMMA OthersKeep ==
  ASSUME TypeOK, NEW v \in Workers, EntryInv(v), ExitInv(v),
         pc'[v] = pc[v], loc'[v] = loc[v],
         \A s \in Signals : \/ position'[s] = position[s]
                            \/ position[s] # "NONE" /\ position'[s] = "CLOSED"
                            \/ position[s] = "NONE" /\ ~(pc[v] = "submit" /\ loc[v].sig = s),
         \A s \in Signals : \/ row'[s] = row[s]
                            \/ row[s] \in Late /\ row'[s] \in Late
                            \/ row[s] \notin Late /\ ~(pc[v] \in Entering /\ loc[v].sig = s)
  PROVE  EntryInv(v)' /\ ExitInv(v)'
<1>1. pc[v] \in HoldsSig => loc[v].sig \in Signals
  BY DEF TypeOK, WorkerTypeOK
<1>2. loc[v].toExit \subseteq Signals
  BY DEF TypeOK, WorkerTypeOK, Locals
<1>3. EntryInv(v)'
  BY <1>1, LabelNames DEF EntryInv, Entering, Late
<1>4. ExitInv(v)'
  BY <1>1, <1>2, LabelNames DEF ExitInv, Booking, Late
<1>5. QED
  BY <1>3, <1>4

LEMMA TradeInit == Init => TradeInv
BY DEF Init, TraderInit, Lifecycle!LifecycleInit, NoLocals, TradeInv, EntryInv, ExitInv, Apart, SignalInv,
       Entering, Booking

\* A step of w that leaves row, position, booked and memory alone.
LEMMA QuietKeeps ==
  ASSUME TypeOK, TradeInv, NEW w \in Workers,
         \A v \in Workers \ {w} : pc'[v] = pc[v] /\ loc'[v] = loc[v],
         UNCHANGED <<row, position, booked, memory>>,
         EntryInv(w)', ExitInv(w)',
         \A v \in Workers \ {w} : Apart(v, w)'
  PROVE  TradeInv'
<1>1. \A v \in Workers : EntryInv(v)' /\ ExitInv(v)'
  BY OthersKeep DEF TradeInv
<1>2. \A u, v \in Workers : Apart(u, v)'
  <2>1. ASSUME NEW u \in Workers, NEW v \in Workers PROVE Apart(u, v)'
    <3>1. CASE u = w \/ v = w
      BY <3>1 DEF Apart
    <3>2. CASE u # w /\ v # w
      BY <3>2 DEF TradeInv, Apart
    <3>3. QED
      BY <3>1, <3>2
  <2>2. QED
    BY <2>1
<1>3. \A s \in Signals : SignalInv(s)'
  BY DEF TradeInv, SignalInv
<1>4. QED
  BY <1>1, <1>2, <1>3 DEF TradeInv

\* A worker that is entering no signal is apart from every other.
LEMMA ApartOutside ==
  ASSUME NEW w \in Workers, pc'[w] \notin Entering
  PROVE  \A v \in Workers \ {w} : Apart(v, w)'
BY DEF Apart

\* A step changes the label and the locals of its worker alone.
LEMMA OthersStay ==
  ASSUME TypeOK, NEW w \in Workers, SpotTick(w) \/ OiTick(w) \/ ExitStep(w) \/ SignalStep(w)
  PROVE  \A v \in Workers \ {w} : pc'[v] = pc[v] /\ loc'[v] = loc[v]
<1>1. CASE SpotTick(w) \/ OiTick(w) \/ PassOver(w) \/ ResolveExit(w) \/ Close(w) \/ NextExit(w)
  BY <1>1 DEF TypeOK, WorkerTypeOK, SpotTick, OiTick, PassOver, ResolveExit, Close, NextExit, Goto
<1>2. CASE \/ ExitRead(w) \/ ExitWrite(w) \/ AnalyzeRead(w) \/ AnalyzeWrite(w) \/ WriteOutcome(w)
           \/ WriteBackRead(w) \/ Index(w) \/ IndexFails(w) \/ ClosedRead(w) \/ ClosedWrite(w) \/ Account(w)
  BY <1>2 DEF TypeOK, WorkerTypeOK, ExitRead, ExitWrite, AnalyzeRead, AnalyzeWrite, WriteOutcome,
       WriteBackRead, Index, IndexFails, ClosedRead, ClosedWrite, Account, TransitionRead, ReturnToLoop,
       Then, Goto
<1>3. CASE SkipEvaluation(w) \/ Evaluate(w) \/ Gate(w) \/ CheckApproves(w) \/ CheckRejects(w)
  BY <1>3 DEF TypeOK, WorkerTypeOK, SkipEvaluation, Evaluate, Gate, CheckApproves, CheckRejects, Return,
       Then, Goto
<1>4. CASE Approve(w) \/ Register(w) \/ MarkApproved(w) \/ Submit(w) \/ SubmitRaises(w) \/ Monitor(w)
  BY <1>4 DEF TypeOK, WorkerTypeOK, Approve, Register, MarkApproved, Submit, SubmitRaises, Monitor, Return,
       Then, Goto
<1>5. QED
  BY <1>1, <1>2, <1>3, <1>4 DEF ExitStep, SignalStep

-----------------------------------------------------------------------------
(* Each action keeps the invariant.                                        *)

\* A worker that returns holds no exit and enters no signal.
LEMMA ReturnKeeps ==
  ASSUME TypeOK, TradeInv, NEW w \in Workers, Return(w) \/ ReturnToLoop(w),
         UNCHANGED <<position, row>>
  PROVE  /\ EntryInv(w)' /\ ExitInv(w)'
         /\ \A v \in Workers \ {w} : Apart(v, w)'
<1>1. pc'[w] \notin Entering \cup Booking \cup {"close"}
  BY DEF TypeOK, WorkerTypeOK, Return, ReturnToLoop, Goto, Entering, Booking
<1>2. loc'[w].toExit \subseteq loc[w].toExit
  BY DEF TypeOK, WorkerTypeOK, Locals, Return, ReturnToLoop, NoLocals
<1>3. EntryInv(w)'
  BY <1>1 DEF EntryInv, Entering
<1>4. ExitInv(w)'
  BY <1>1, <1>2 DEF ExitInv, TradeInv
<1>5. QED
  BY <1>1, <1>3, <1>4, ApartOutside

LEMMA ScanKeeps ==
  ASSUME TypeOK, TradeInv, NEW w \in Workers,
         SpotTick(w) \/ OiTick(w) \/ PassOver(w) \/ ResolveExit(w) \/ NextExit(w)
  PROVE  TradeInv'
<1>1. UNCHANGED <<row, position, booked, memory>>
  BY DEF SpotTick, OiTick, PassOver, ResolveExit, NextExit, storeVars, traderVars
<1>2. CASE SpotTick(w) \/ OiTick(w) \/ PassOver(w)
  <2>1. pc'[w] = "tick" /\ loc'[w].toExit = loc[w].toExit
    <3>1. CASE SpotTick(w) \/ OiTick(w)
      BY <3>1 DEF TypeOK, WorkerTypeOK, Locals, SpotTick, OiTick, Goto
    <3>2. CASE PassOver(w)
      BY <3>2 DEF TypeOK, WorkerTypeOK, Locals, PassOver, At
    <3>3. QED
      BY <1>2, <3>1, <3>2
  <2>2. EntryInv(w)' /\ ExitInv(w)' /\ pc'[w] \notin Entering
    BY <1>1, <2>1 DEF TradeInv, EntryInv, ExitInv, Entering, Booking
  <2>3. \A v \in Workers \ {w} : pc'[v] = pc[v] /\ loc'[v] = loc[v]
    BY <1>2, OthersStay DEF ExitStep
  <2>4. QED
    BY <1>1, <2>2, <2>3, ApartOutside, QuietKeeps
<1>3. CASE ResolveExit(w)
  <2>1. PICK s \in loc[w].toScan : /\ position[s] = "OPEN"
                                   /\ loc' = [loc EXCEPT ![w].toScan = @ \ {s}, ![w].sig = s]
    BY <1>3 DEF ResolveExit
  <2>2. /\ pc'[w] = "close"
        /\ loc'[w].sig = s /\ loc'[w].toExit = loc[w].toExit
    <3>1. pc'[w] = "close"
      BY <1>3 DEF TypeOK, WorkerTypeOK, ResolveExit, Goto
    <3>2. loc'[w] = [loc[w] EXCEPT !.toScan = @ \ {s}, !.sig = s]
      BY <2>1, Zenon DEF TypeOK, WorkerTypeOK
    <3>3. QED
      BY <3>1, <3>2 DEF TypeOK, WorkerTypeOK, Locals
  <2>3. EntryInv(w)' /\ ExitInv(w)' /\ pc'[w] \notin Entering
    BY <1>1, <2>1, <2>2 DEF TradeInv, EntryInv, ExitInv, Entering, Booking
  <2>4. QED
    BY <1>1, <1>3, <2>3, ApartOutside, OthersStay, QuietKeeps DEF ExitStep
<1>4. CASE NextExit(w)
  <2>1. PICK s \in loc[w].toExit :
          loc' = [loc EXCEPT ![w].toExit = @ \ {s}, ![w].sig = s, ![w].amount = pnl[s]]
    BY <1>4 DEF NextExit
  <2>2. /\ pc'[w] = "exit_read"
        /\ loc'[w].sig = s /\ loc'[w].toExit = loc[w].toExit \ {s}
    <3>1. pc'[w] = "exit_read"
      BY <1>4 DEF TypeOK, WorkerTypeOK, NextExit, Goto
    <3>2. loc'[w] = [loc[w] EXCEPT !.toExit = @ \ {s}, !.sig = s, !.amount = pnl[s]]
      BY <2>1, Zenon DEF TypeOK, WorkerTypeOK
    <3>3. QED
      BY <3>1, <3>2 DEF TypeOK, WorkerTypeOK, Locals
  <2>3. EntryInv(w)' /\ ExitInv(w)' /\ pc'[w] \notin Entering
    BY <1>1, <2>1, <2>2 DEF TradeInv, EntryInv, ExitInv, Entering, Booking
  <2>4. QED
    BY <1>1, <1>4, <2>3, ApartOutside, OthersStay, QuietKeeps DEF ExitStep
<1>5. QED
  BY <1>2, <1>3, <1>4

\* A worker that goes from one label of the booking to the next.
LEMMA BookingGoesOn ==
  ASSUME TypeOK, TradeInv, NEW w \in Workers, NEW l \in Booking \ {"exit_read"}, Then(w, l),
         pc[w] \in Booking, position' = position, row'[loc[w].sig] \in Late
  PROVE  /\ EntryInv(w)' /\ ExitInv(w)'
         /\ \A v \in Workers \ {w} : Apart(v, w)'
<1>1. pc'[w] = l /\ loc' = loc
  BY DEF TypeOK, WorkerTypeOK, Then, Goto
<1>2. EntryInv(w)' /\ pc'[w] \notin Entering
  BY <1>1 DEF EntryInv, Entering, Booking
<1>3. ExitInv(w)'
  BY <1>1 DEF ExitInv, TradeInv, Booking
<1>4. QED
  BY <1>2, <1>3, ApartOutside

LEMMA BookingReadsKeep ==
  ASSUME TypeOK, TradeInv, NEW w \in Workers,
         \/ ExitRead(w) \/ AnalyzeRead(w) \/ WriteOutcome(w) \/ WriteBackRead(w) \/ IndexFails(w)
         \/ ClosedRead(w) \/ Account(w)
  PROVE  TradeInv'
<1>1. UNCHANGED <<row, position, booked, memory>>
  BY DEF ExitRead, AnalyzeRead, WriteOutcome, WriteBackRead, IndexFails, ClosedRead, Account,
         TransitionRead, storeVars, traderVars
<1>2. \A v \in Workers \ {w} : pc'[v] = pc[v] /\ loc'[v] = loc[v]
  BY OthersStay DEF ExitStep
<1>3. pc[w] \in Booking
  BY DEF ExitRead, AnalyzeRead, WriteOutcome, WriteBackRead, IndexFails, ClosedRead, Account, At, Booking
<1>4. CASE ReturnToLoop(w)
  BY <1>1, <1>2, <1>4, ReturnKeeps, QuietKeeps
<1>5. CASE \E l \in Booking \ {"exit_read"} : Then(w, l) /\ row[loc[w].sig] \in Late
  BY <1>1, <1>2, <1>3, <1>5, BookingGoesOn, QuietKeeps
<1>6. pc[w] # "exit_read" => row[loc[w].sig] \in Late
  BY <1>3 DEF TradeInv, ExitInv
<1>7. CASE ExitRead(w)
  BY <1>4, <1>5, <1>7 DEF ExitRead, TransitionRead, Then, Late, Booking
<1>8. CASE AnalyzeRead(w) \/ ClosedRead(w)
  BY <1>4, <1>5, <1>6, <1>8 DEF AnalyzeRead, ClosedRead, At, TransitionRead, Then, Booking
<1>9. CASE WriteOutcome(w) \/ WriteBackRead(w)
  BY <1>5, <1>6, <1>9 DEF WriteOutcome, WriteBackRead, At, Booking
<1>10. CASE IndexFails(w) \/ Account(w)
  BY <1>4, <1>10 DEF IndexFails, Account
<1>11. QED
  BY <1>7, <1>8, <1>9, <1>10

\* ExitWrite, AnalyzeWrite and ClosedWrite move a late row, maybe backwards.
LEMMA BookingWritesKeep ==
  ASSUME TypeOK, TradeInv, NEW w \in Workers, ExitWrite(w) \/ AnalyzeWrite(w) \/ ClosedWrite(w)
  PROVE  TradeInv'
<1>0. PICK s \in Signals : s = loc[w].sig
  BY LabelNames DEF ExitWrite, AnalyzeWrite, ClosedWrite, At, TypeOK, WorkerTypeOK
<1>1. PICK status \in Late \ {"MONITORING"}, l \in Booking \ {"exit_read"} :
        row' = [row EXCEPT ![s] = status] /\ Then(w, l)
  BY <1>0 DEF ExitWrite, AnalyzeWrite, ClosedWrite, TransitionWrite, Late, Booking
<1>2. UNCHANGED <<position, booked, memory>>
  BY DEF ExitWrite, AnalyzeWrite, ClosedWrite, TransitionWrite, traderVars
<1>3. pc[w] \in Booking \ {"exit_read"}
  BY DEF ExitWrite, AnalyzeWrite, ClosedWrite, At, Booking
<1>4. row[s] \in Late /\ position[s] = "CLOSED" /\ row'[s] \in Late
  BY <1>0, <1>1, <1>3 DEF TradeInv, ExitInv, TypeOK, StoreTypeOK
<1>5. \A x \in Signals \ {s} : row'[x] = row[x]
  BY <1>1 DEF TypeOK, StoreTypeOK
<1>6. \A v \in Workers \ {w} : pc'[v] = pc[v] /\ loc'[v] = loc[v]
  BY OthersStay DEF ExitStep
<1>7. \A v \in Workers \ {w} : EntryInv(v)' /\ ExitInv(v)'
  BY <1>2, <1>4, <1>5, <1>6, OthersKeep DEF TradeInv
<1>8. EntryInv(w)' /\ ExitInv(w)'
  BY <1>0, <1>1, <1>2, <1>3, <1>4, BookingGoesOn
<1>9. pc'[w] \notin Entering
  BY <1>1 DEF TypeOK, WorkerTypeOK, Then, Goto, Entering, Booking
<1>10. \A u, v \in Workers : Apart(u, v)'
  BY <1>6, <1>9 DEF TradeInv, Apart
<1>11. \A x \in Signals : SignalInv(x)'
  <2>1. SignalInv(s)'
    BY <1>2, <1>3, <1>4 DEF TradeInv, SignalInv, Late
  <2>2. ASSUME NEW x \in Signals \ {s} PROVE SignalInv(x)'
    BY <1>2, <1>5, <2>2 DEF TradeInv, SignalInv
  <2>3. QED
    BY <2>1, <2>2
<1>12. QED
  BY <1>7, <1>8, <1>10, <1>11 DEF TradeInv

LEMMA IndexKeeps ==
  ASSUME TypeOK, TradeInv, NEW w \in Workers, Index(w)
  PROVE  TradeInv'
<1>0. PICK s \in Signals : s = loc[w].sig
  BY LabelNames DEF Index, At, TypeOK, WorkerTypeOK
<1>1. Then(w, "closed_read") /\ UNCHANGED <<row, position, booked>>
  BY DEF Index, traderVars
<1>2. pc[w] \in Booking \ {"exit_read"}
  BY DEF Index, At, Booking
<1>3. row[s] \in Late /\ position[s] = "CLOSED"
  BY <1>0, <1>2 DEF TradeInv, ExitInv
<1>4. \A x \in Signals \ {s} : memory'[x] = memory[x]
  BY <1>0 DEF Index, TypeOK, StoreTypeOK
<1>5. \A v \in Workers \ {w} : pc'[v] = pc[v] /\ loc'[v] = loc[v]
  BY OthersStay DEF ExitStep
<1>6. \A v \in Workers \ {w} : EntryInv(v)' /\ ExitInv(v)'
  BY <1>1, <1>5, OthersKeep DEF TradeInv
<1>7. EntryInv(w)' /\ ExitInv(w)'
  BY <1>0, <1>1, <1>2, <1>3, BookingGoesOn DEF Booking
<1>8. pc'[w] \notin Entering
  BY <1>1 DEF TypeOK, WorkerTypeOK, Then, Goto, Entering
<1>9. \A u, v \in Workers : Apart(u, v)'
  BY <1>5, <1>8 DEF TradeInv, Apart
<1>10. \A x \in Signals : SignalInv(x)'
  <2>1. SignalInv(s)'
    BY <1>1, <1>2, <1>3 DEF TradeInv, SignalInv
  <2>2. ASSUME NEW x \in Signals \ {s} PROVE SignalInv(x)'
    BY <1>1, <1>4, <2>2 DEF TradeInv, SignalInv
  <2>3. QED
    BY <2>1, <2>2
<1>11. QED
  BY <1>6, <1>7, <1>9, <1>10 DEF TradeInv

LEMMA CloseKeeps ==
  ASSUME TypeOK, TradeInv, NEW w \in Workers, Close(w)
  PROVE  TradeInv'
<1>0. PICK s \in Signals : s = loc[w].sig
  BY LabelNames DEF Close, At, TypeOK, WorkerTypeOK
<1>1. UNCHANGED <<row, memory>>
  BY DEF Close, storeVars
<1>2. pc[w] = "close" /\ position[s] # "NONE"
  BY <1>0 DEF Close, At, TradeInv, ExitInv
<1>3. position'[s] = "CLOSED"
  BY <1>0, <1>2 DEF Close, ClosePosition, TypeOK, TraderTypeOK
<1>4. \A x \in Signals \ {s} : position'[x] = position[x] /\ booked'[x] = booked[x]
  BY <1>0 DEF Close, ClosePosition, TypeOK, TraderTypeOK
<1>5. \A v \in Workers \ {w} : pc'[v] = pc[v] /\ loc'[v] = loc[v]
  BY OthersStay DEF ExitStep
<1>6. \A v \in Workers \ {w} : EntryInv(v)' /\ ExitInv(v)'
  BY <1>1, <1>2, <1>3, <1>4, <1>5, OthersKeep DEF TradeInv
<1>7. pc'[w] = "tick" /\ loc'[w].toExit = loc[w].toExit \cup {s}
  BY <1>0 DEF Close, Goto, TypeOK, WorkerTypeOK, Locals
<1>8. loc[w].toExit \subseteq Signals
  BY DEF TypeOK, WorkerTypeOK, Locals
<1>9. EntryInv(w)' /\ ExitInv(w)'
  <2>1. EntryInv(w)'
    BY <1>7 DEF EntryInv
  <2>2. \A x \in loc[w].toExit : position'[x] = "CLOSED"
    BY <1>3, <1>4, <1>8 DEF TradeInv, ExitInv
  <2>3. QED
    BY <1>3, <1>7, <2>1, <2>2 DEF ExitInv, Booking
<1>10. \A u, v \in Workers : Apart(u, v)'
  BY <1>5, <1>7 DEF TradeInv, Apart, Entering
<1>11. \A x \in Signals : SignalInv(x)'
  <2>1. SignalInv(s)'
    BY <1>1, <1>2, <1>3 DEF TradeInv, SignalInv, TypeOK, TraderTypeOK
  <2>2. ASSUME NEW x \in Signals \ {s} PROVE SignalInv(x)'
    BY <1>1, <1>4, <2>2 DEF TradeInv, SignalInv
  <2>3. QED
    BY <2>1, <2>2
<1>12. QED
  BY <1>6, <1>9, <1>10, <1>11 DEF TradeInv

LEMMA EvaluationKeeps ==
  ASSUME TypeOK, TradeInv, NEW w \in Workers,
         \/ SkipEvaluation(w) \/ Evaluate(w) \/ Gate(w) \/ CheckRejects(w) \/ SubmitRaises(w)
  PROVE  TradeInv'
<1>1. UNCHANGED <<row, position, booked, memory>>
  BY DEF SkipEvaluation, Evaluate, Gate, CheckRejects, SubmitRaises, storeVars, traderVars
<1>2. \A v \in Workers \ {w} : pc'[v] = pc[v] /\ loc'[v] = loc[v]
  BY OthersStay DEF SignalStep
<1>3. CASE Return(w)
  BY <1>1, <1>2, <1>3, ReturnKeeps, QuietKeeps
<1>4. CASE pc'[w] \in {"gate", "maker"} /\ loc'[w].toExit = loc[w].toExit
  <2>1. EntryInv(w)' /\ ExitInv(w)' /\ pc'[w] \notin Entering
    BY <1>1, <1>4 DEF TradeInv, EntryInv, ExitInv, Entering, Booking
  <2>2. QED
    BY <1>1, <1>2, <2>1, ApartOutside, QuietKeeps
<1>5. Return(w) \/ (pc'[w] \in {"gate", "maker"} /\ loc'[w].toExit = loc[w].toExit)
  <2>1. CASE Evaluate(w) /\ ~Return(w)
    <3>1. PICK k \in Strikes : loc' = [loc EXCEPT ![w].strike = k]
      BY <2>1 DEF Evaluate
    <3>2. pc'[w] = "gate"
      BY <2>1 DEF Evaluate, Goto, TypeOK, WorkerTypeOK
    <3>3. QED
      BY <3>1, <3>2 DEF TypeOK, WorkerTypeOK, Locals
  <2>2. CASE Gate(w) /\ ~Return(w)
    BY <2>2 DEF Gate, Then, Goto, TypeOK, WorkerTypeOK
  <2>3. QED
    BY <2>1, <2>2 DEF SkipEvaluation, CheckRejects, SubmitRaises
<1>6. QED
  BY <1>3, <1>4, <1>5

\* A fresh signal belongs to no other worker.
LEMMA ApprovalKeeps ==
  ASSUME TypeOK, TradeInv, NEW w \in Workers, CheckApproves(w)
  PROVE  TradeInv'
<1>1. PICK s \in FreshSignals, d \in Directions :
        loc' = [loc EXCEPT ![w].sig = s, ![w].direction = d]
  BY DEF CheckApproves
<1>2. UNCHANGED <<row, position, booked, memory>>
  BY DEF CheckApproves, storeVars, traderVars
<1>3. \A v \in Workers \ {w} : pc'[v] = pc[v] /\ loc'[v] = loc[v]
  BY OthersStay DEF SignalStep
<1>4. pc'[w] = "approve"
  BY DEF CheckApproves, Goto, TypeOK, WorkerTypeOK
<1>5. loc'[w].sig = s /\ loc'[w].toExit = loc[w].toExit
  <2>1. loc'[w] = [loc[w] EXCEPT !.sig = s, !.direction = d]
    BY <1>1, Zenon DEF TypeOK, WorkerTypeOK
  <2>2. QED
    BY <2>1 DEF TypeOK, WorkerTypeOK, Locals
<1>6. row[s] = "NONE" /\ \A v \in Workers : pc[v] \in {"approve", "register"} => loc[v].sig # s
  BY DEF FreshSignals
<1>7. EntryInv(w)'
  BY <1>2, <1>4, <1>5, <1>6 DEF EntryInv
<1>8. ExitInv(w)'
  BY <1>2, <1>4, <1>5 DEF ExitInv, TradeInv, Booking
<1>9. ASSUME NEW v \in Workers \ {w} PROVE Apart(v, w)'
  <2>1. pc[v] \in Entering => loc[v].sig # s
    BY <1>6 DEF TradeInv, EntryInv, Entering
  <2>2. QED
    BY <1>3, <1>5, <2>1 DEF Apart
<1>10. QED
  BY <1>2, <1>3, <1>7, <1>8, <1>9, QuietKeeps

\* The worker that enters signal s moves its row or opens its position.
LEMMA EnteringKeeps ==
  ASSUME TypeOK, TradeInv, NEW w \in Workers, NEW s \in Signals,
         s = loc[w].sig, pc[w] \in Entering, row[s] \notin Late,
         \A v \in Workers \ {w} : pc'[v] = pc[v] /\ loc'[v] = loc[v],
         UNCHANGED <<booked, memory>>,
         \A x \in Signals \ {s} : row'[x] = row[x] /\ position'[x] = position[x],
         position'[s] = position[s] \/ position[s] = "NONE",
         EntryInv(w)', ExitInv(w)', SignalInv(s)',
         pc'[w] \in Entering => loc'[w].sig = s
  PROVE  TradeInv'
<1>1. \A v \in Workers \ {w} : ~(pc[v] \in Entering /\ loc[v].sig = s)
  BY DEF TradeInv, Apart
<1>2. \A v \in Workers \ {w} : EntryInv(v)' /\ ExitInv(v)'
  <2>1. ASSUME NEW v \in Workers \ {w} PROVE EntryInv(v)' /\ ExitInv(v)'
    <3>1. \A x \in Signals : \/ position'[x] = position[x]
                             \/ position[x] = "NONE" /\ ~(pc[v] = "submit" /\ loc[v].sig = x)
      BY <1>1 DEF Entering
    <3>2. \A x \in Signals : \/ row'[x] = row[x]
                             \/ row[x] \notin Late /\ ~(pc[v] \in Entering /\ loc[v].sig = x)
      BY <1>1
    <3>3. QED
      BY <3>1, <3>2, OthersKeep DEF TradeInv
  <2>2. QED
    BY <2>1
<1>3. \A u, v \in Workers : Apart(u, v)'
  BY <1>1 DEF TradeInv, Apart
<1>4. \A x \in Signals \ {s} : SignalInv(x)'
  BY DEF TradeInv, SignalInv
<1>5. QED
  BY <1>2, <1>3, <1>4 DEF TradeInv

LEMMA EntryKeeps ==
  ASSUME TypeOK, TradeInv, NEW w \in Workers,
         Approve(w) \/ Register(w) \/ MarkApproved(w) \/ Submit(w) \/ Monitor(w)
  PROVE  TradeInv'
<1>1. PICK s \in Signals : s = loc[w].sig
  BY LabelNames DEF Approve, Register, MarkApproved, Submit, Monitor, At, TypeOK, WorkerTypeOK
<1>2. \A v \in Workers \ {w} : pc'[v] = pc[v] /\ loc'[v] = loc[v]
  BY OthersStay DEF SignalStep
<1>3. EntryInv(w) /\ ExitInv(w) /\ SignalInv(s) /\ position[s] \in {"NONE", "OPEN", "CLOSED"}
  BY DEF TradeInv, TypeOK, TraderTypeOK
<1>4. CASE Approve(w)
  <2>1. pc[w] = "approve" /\ pc'[w] = "register" /\ loc' = loc
    BY <1>4 DEF Approve, At, Then, Goto, TypeOK, WorkerTypeOK
  <2>2. UNCHANGED <<row, position, booked, memory>>
    BY <1>4 DEF Approve, storeVars, traderVars
  <2>3. EntryInv(w)' /\ ExitInv(w)' /\ SignalInv(s)'
    BY <1>3, <2>1, <2>2 DEF EntryInv, ExitInv, SignalInv, Booking
  <2>4. row[s] \notin Late
    BY <1>1, <1>3, <2>1 DEF EntryInv, Late
  <2>5. QED
    BY <1>1, <1>2, <2>1, <2>2, <2>3, <2>4, EnteringKeeps DEF Entering
<1>5. CASE Register(w)
  <2>1. pc[w] = "register" /\ pc'[w] = "mark" /\ loc' = loc
    BY <1>5 DEF Register, At, Then, Goto, TypeOK, WorkerTypeOK
  <2>2. row' = [row EXCEPT ![s] = "SIGNAL_GENERATED"] /\ UNCHANGED <<position, booked, memory>>
    BY <1>1, <1>5 DEF Register, traderVars
  <2>3. row'[s] = "SIGNAL_GENERATED" /\ \A x \in Signals \ {s} : row'[x] = row[x]
    BY <2>2 DEF TypeOK, StoreTypeOK
  <2>4. row[s] = "NONE" /\ memory[s] \in Nat
    BY <1>1, <1>3, <2>1 DEF EntryInv, TypeOK, StoreTypeOK
  <2>5. EntryInv(w)' /\ ExitInv(w)'
    BY <1>1, <1>3, <2>1, <2>2, <2>3 DEF EntryInv, ExitInv, Booking
  <2>6. SignalInv(s)'
    BY <1>3, <2>2, <2>3, <2>4 DEF SignalInv, Late
  <2>7. QED
    BY <1>1, <1>2, <2>1, <2>2, <2>3, <2>4, <2>5, <2>6, EnteringKeeps DEF Entering, Late
<1>6. CASE MarkApproved(w)
  <2>1. pc[w] = "mark" /\ pc'[w] = "submit" /\ loc' = loc
    BY <1>6 DEF MarkApproved, At, Then, Goto, TypeOK, WorkerTypeOK
  <2>2. row' = [row EXCEPT ![s] = "APPROVED"] /\ UNCHANGED <<position, booked, memory>>
    BY <1>1, <1>6 DEF MarkApproved, TransitionWrite, traderVars
  <2>3. row'[s] = "APPROVED" /\ \A x \in Signals \ {s} : row'[x] = row[x]
    BY <2>2 DEF TypeOK, StoreTypeOK
  <2>4. row[s] = "SIGNAL_GENERATED" /\ memory[s] \in Nat /\ position[s] = "NONE"
    BY <1>1, <1>3, <2>1 DEF EntryInv, SignalInv, TypeOK, StoreTypeOK
  <2>5. EntryInv(w)' /\ ExitInv(w)'
    BY <1>1, <1>3, <2>1, <2>2, <2>3, <2>4 DEF EntryInv, ExitInv, Booking
  <2>6. SignalInv(s)'
    BY <1>3, <2>2, <2>3, <2>4 DEF SignalInv, Late
  <2>7. QED
    BY <1>1, <1>2, <2>1, <2>2, <2>3, <2>4, <2>5, <2>6, EnteringKeeps DEF Entering, Late
<1>7. CASE Submit(w)
  <2>1. pc[w] = "submit" /\ pc'[w] = "monitor" /\ loc' = loc
    BY <1>7 DEF Submit, At, Then, Goto, TypeOK, WorkerTypeOK
  <2>2. position' = [position EXCEPT ![s] = "OPEN"] /\ UNCHANGED <<row, booked, memory>>
    BY <1>1, <1>7 DEF Submit, OpenPosition, storeVars
  <2>3. position'[s] = "OPEN" /\ \A x \in Signals \ {s} : position'[x] = position[x]
    BY <2>2 DEF TypeOK, TraderTypeOK
  <2>4. row[s] = "APPROVED" /\ position[s] = "NONE" /\ memory[s] \in Nat
    BY <1>1, <1>3, <2>1 DEF EntryInv, TypeOK, StoreTypeOK
  <2>5. EntryInv(w)'
    BY <1>1, <2>1, <2>2, <2>4 DEF EntryInv
  <2>6. ExitInv(w)'
    <3>1. \A x \in loc[w].toExit : x # s /\ x \in Signals /\ position[x] = "CLOSED"
      BY <1>3, <2>4 DEF ExitInv, TypeOK, WorkerTypeOK, Locals
    <3>2. QED
      BY <2>1, <2>3, <3>1 DEF ExitInv, Booking
  <2>7. SignalInv(s)'
    BY <1>3, <2>2, <2>3, <2>4 DEF SignalInv, Late
  <2>8. QED
    BY <1>1, <1>2, <2>1, <2>2, <2>3, <2>4, <2>5, <2>6, <2>7, EnteringKeeps DEF Entering, Late
<1>8. CASE Monitor(w)
  <2>1. pc[w] = "monitor" /\ pc'[w] = "idle" /\ row[s] = "APPROVED"
    BY <1>1, <1>8 DEF Monitor, At, Return, Goto, TypeOK, WorkerTypeOK
  <2>2. row' = [row EXCEPT ![s] = "MONITORING"] /\ UNCHANGED <<position, booked, memory>>
    BY <1>1, <1>8 DEF Monitor, TransitionWrite, traderVars
  <2>3. row'[s] = "MONITORING" /\ \A x \in Signals \ {s} : row'[x] = row[x]
    BY <2>2 DEF TypeOK, StoreTypeOK
  <2>4. loc'[w].toExit = {}
    BY <1>8 DEF Monitor, Return, NoLocals, TypeOK, WorkerTypeOK
  <2>5. EntryInv(w)' /\ ExitInv(w)'
    BY <2>1, <2>4 DEF EntryInv, ExitInv, Booking
  <2>6. SignalInv(s)'
    BY <1>3, <2>2, <2>3 DEF SignalInv, Late
  <2>7. QED
    BY <1>1, <1>2, <2>1, <2>2, <2>3, <2>5, <2>6, EnteringKeeps DEF Entering, Late
<1>9. QED
  BY <1>4, <1>5, <1>6, <1>7, <1>8

LEMMA CrashKeeps ==
  ASSUME TypeOK, TradeInv, Crash
  PROVE  TradeInv'
<1>1. \A w \in Workers : pc'[w] = "idle" /\ loc'[w].toExit = {}
  BY DEF Crash, NoLocals
<1>2. \A w \in Workers : EntryInv(w)' /\ ExitInv(w)'
  BY <1>1 DEF EntryInv, ExitInv, Booking
<1>3. \A v, w \in Workers : Apart(v, w)'
  BY <1>1 DEF Apart, Entering
<1>4. \A s \in Signals : SignalInv(s)'
  BY DEF Crash, TradeInv, SignalInv, storeVars
<1>5. QED
  BY <1>2, <1>3, <1>4 DEF TradeInv

LEMMA StutterKeeps ==
  ASSUME TypeOK, TradeInv, Clock \/ UNCHANGED vars
  PROVE  TradeInv'
<1>1. UNCHANGED <<row, position, booked, memory, pc, loc>>
  BY DEF Clock, vars, storeVars, traderVars
<1>2. QED
  BY <1>1 DEF TradeInv, EntryInv, ExitInv, Apart, SignalInv

LEMMA TradeNext == TypeOK /\ TradeInv /\ [Next]_vars => TradeInv'
<1> SUFFICES ASSUME TypeOK, TradeInv, [Next]_vars PROVE TradeInv'
  OBVIOUS
<1>1. ASSUME NEW w \in Workers, SpotTick(w) \/ OiTick(w) \/ ExitStep(w) PROVE TradeInv'
  BY <1>1, ScanKeeps, CloseKeeps, BookingReadsKeep, BookingWritesKeep, IndexKeeps DEF ExitStep
<1>2. ASSUME NEW w \in Workers, SignalStep(w) PROVE TradeInv'
  BY <1>2, EvaluationKeeps, ApprovalKeeps, EntryKeeps DEF SignalStep
<1>3. QED
  BY <1>1, <1>2, CrashKeeps, StutterKeeps DEF Next

LEMMA TradeAlways == Spec => [](TypeOK /\ TradeInv)
<1>1. Spec => []TypeOK
  BY TypeCorrect
<1>2. QED
  BY <1>1, TradeInit, TradeNext, PTL DEF Spec

\* For any number of threads and across restarts, an open position's row has not
\* moved past MONITORING, and what was closed had been approved.
THEOREM RowFollows == Spec => []RowFollowsTrade
<1>1. TradeInv => RowFollowsTrade
  BY DEF TradeInv, SignalInv, RowFollowsTrade
<1>2. QED
  BY <1>1, TradeAlways, PTL

-----------------------------------------------------------------------------
(* ClosedOncePerWorker.  A worker counts from the moment it resolves the    *)
(* exit: until it has closed the position, and until it has taught the      *)
(* memory.  Only an open position is resolved, and what is open has neither *)
(* been booked nor learned.                                                 *)

Learning == {"close", "exit_read", "exit_write", "analyze_read", "analyze_write", "outcome", "writeback",
             "index"}

WillClose(w, s) == pc[w] = "close" /\ loc[w].sig = s
WillLearn(w, s) == s \in loc[w].toExit \/ (pc[w] \in Learning /\ loc[w].sig = s)

Closers(s) == {w \in Workers : WillClose(w, s)}
Learners(s) == {w \in Workers : WillLearn(w, s)}

CountInv ==
  \A s \in Signals :
    /\ booked[s] + Cardinality(Closers(s)) <= Cardinality(Workers)
    /\ memory[s] + Cardinality(Learners(s)) <= Cardinality(Workers)

LEMMA WorkerSets ==
  ASSUME NEW S, S \subseteq Workers
  PROVE  IsFiniteSet(S) /\ Cardinality(S) \in Nat /\ Cardinality(Workers) \in Nat
         /\ Cardinality(S) <= Cardinality(Workers)
<1>1. IsFiniteSet(Workers)
  BY EngineAssumption DEF EngineAssumption
<1>2. QED
  BY <1>1, FS_Subset, FS_CardinalityType

LEMMA Fewer ==
  ASSUME NEW S, NEW T, S \subseteq T, T \subseteq Workers
  PROVE  Cardinality(S) <= Cardinality(T) /\ Cardinality(S) \in Nat /\ Cardinality(T) \in Nat
<1>1. IsFiniteSet(T)
  BY WorkerSets
<1>2. QED
  BY <1>1, WorkerSets, FS_Subset

\* A step that counts nothing for s and lets no worker begin with it.
LEMMA CountStays ==
  ASSUME TypeOK, CountInv, NEW s \in Signals, booked'[s] = booked[s], memory'[s] = memory[s],
         \A v \in Workers : /\ WillClose(v, s)' => WillClose(v, s)
                            /\ WillLearn(v, s)' => WillLearn(v, s)
  PROVE  /\ booked'[s] + Cardinality(Closers(s)') <= Cardinality(Workers)
         /\ memory'[s] + Cardinality(Learners(s)') <= Cardinality(Workers)
<1>1. Closers(s)' \subseteq Closers(s) /\ Closers(s) \subseteq Workers
  BY DEF Closers
<1>2. Learners(s)' \subseteq Learners(s) /\ Learners(s) \subseteq Workers
  BY DEF Learners
<1>3. booked[s] \in Nat /\ memory[s] \in Nat
  BY DEF TypeOK, TraderTypeOK, StoreTypeOK
<1>4. /\ booked[s] + Cardinality(Closers(s)) <= Cardinality(Workers)
      /\ memory[s] + Cardinality(Learners(s)) <= Cardinality(Workers)
  BY DEF CountInv
<1>5. /\ Cardinality(Closers(s)') <= Cardinality(Closers(s))
      /\ Cardinality(Closers(s)') \in Nat /\ Cardinality(Closers(s)) \in Nat
  BY <1>1, Fewer
<1>6. /\ Cardinality(Learners(s)') <= Cardinality(Learners(s))
      /\ Cardinality(Learners(s)') \in Nat /\ Cardinality(Learners(s)) \in Nat
  BY <1>2, Fewer
<1>7. Cardinality(Workers) \in Nat
  BY WorkerSets
<1>8. QED
  BY <1>3, <1>4, <1>5, <1>6, <1>7

\* The steps of w but three begin with no signal and count none.
LEMMA CountStep ==
  ASSUME TypeOK, NEW w \in Workers,
         SpotTick(w) \/ OiTick(w) \/ ExitStep(w) \/ SignalStep(w),
         ~ResolveExit(w), ~Close(w), ~Index(w)
  PROVE  /\ UNCHANGED <<booked, memory>>
         /\ \A s \in Signals : /\ WillClose(w, s)' => WillClose(w, s)
                               /\ WillLearn(w, s)' => WillLearn(w, s)
<1> USE DEF TypeOK, WorkerTypeOK, Locals, WillClose, WillLearn, Learning, Goto, At
<1>1. CASE SpotTick(w) \/ OiTick(w) \/ PassOver(w)
  BY <1>1 DEF SpotTick, OiTick, PassOver, traderVars, storeVars
<1>2. CASE NextExit(w)
  <2>1. PICK x \in loc[w].toExit :
          loc' = [loc EXCEPT ![w].toExit = @ \ {x}, ![w].sig = x, ![w].amount = pnl[x]]
    BY <1>2 DEF NextExit
  <2>2. loc'[w] = [loc[w] EXCEPT !.toExit = @ \ {x}, !.sig = x, !.amount = pnl[x]]
    BY <2>1, Zenon
  <2>3. loc'[w].sig = x /\ loc'[w].toExit = loc[w].toExit \ {x}
    BY <2>2
  <2>4. QED
    BY <1>2, <2>3 DEF NextExit, traderVars, storeVars
<1>3. CASE Return(w) \/ ReturnToLoop(w)
  <2>1. /\ \A s \in Signals : ~WillClose(w, s)'
        /\ loc'[w].toExit \subseteq loc[w].toExit /\ pc'[w] \notin Learning
    BY <1>3 DEF Return, ReturnToLoop, NoLocals
  <2>2. UNCHANGED <<booked, memory>>
    BY DEF SpotTick, OiTick, ExitStep, SignalStep, PassOver, NextExit, ExitRead, ExitWrite,
         AnalyzeRead, AnalyzeWrite, WriteOutcome, WriteBackRead, IndexFails, ClosedRead, ClosedWrite,
         Account, TransitionRead, TransitionWrite, SkipEvaluation, Evaluate, Gate, CheckApproves,
         CheckRejects, Approve, Register, MarkApproved, Submit, SubmitRaises, Monitor, OpenPosition,
         traderVars, storeVars
  <2>3. QED
    BY <2>1, <2>2
<1>4. CASE /\ ~Return(w) /\ ~ReturnToLoop(w)
           /\ \/ ExitRead(w) \/ ExitWrite(w) \/ AnalyzeRead(w) \/ AnalyzeWrite(w) \/ WriteOutcome(w)
              \/ WriteBackRead(w) \/ IndexFails(w) \/ ClosedRead(w) \/ ClosedWrite(w) \/ Account(w)
  <2>1. UNCHANGED <<booked, memory, loc>> /\ (pc'[w] \in Learning => pc[w] \in Learning) /\ pc'[w] # "close"
    BY <1>4 DEF ExitRead, ExitWrite, AnalyzeRead, AnalyzeWrite, WriteOutcome, WriteBackRead, IndexFails,
         ClosedRead, ClosedWrite, Account, TransitionRead, TransitionWrite, Then, traderVars, storeVars
  <2>2. QED
    BY <2>1
<1>5. CASE /\ ~Return(w)
           /\ SkipEvaluation(w) \/ Evaluate(w) \/ Gate(w) \/ CheckApproves(w) \/ CheckRejects(w)
  <2>1. pc'[w] \in {"gate", "maker", "approve"} /\ loc'[w].toExit = loc[w].toExit
    <3>1. CASE Evaluate(w)
      <4>1. PICK k \in Strikes : loc' = [loc EXCEPT ![w].strike = k]
        BY <1>5, <3>1 DEF Evaluate
      <4>2. QED
        BY <1>5, <3>1, <4>1 DEF Evaluate
    <3>2. CASE CheckApproves(w)
      <4>1. PICK x \in FreshSignals, d \in Directions :
              loc' = [loc EXCEPT ![w].sig = x, ![w].direction = d]
        BY <3>2 DEF CheckApproves
      <4>2. loc'[w] = [loc[w] EXCEPT !.sig = x, !.direction = d]
        BY <4>1, Zenon
      <4>3. QED
        BY <3>2, <4>2 DEF CheckApproves
    <3>3. CASE Gate(w)
      BY <1>5, <3>3 DEF Gate, Then
    <3>4. QED
      BY <1>5, <3>1, <3>2, <3>3 DEF SkipEvaluation, CheckRejects
  <2>2. UNCHANGED <<booked, memory>>
    BY <1>5 DEF SkipEvaluation, Evaluate, Gate, CheckApproves, CheckRejects, traderVars, storeVars
  <2>3. QED
    BY <2>1, <2>2
<1>6. CASE /\ ~Return(w)
           /\ Approve(w) \/ Register(w) \/ MarkApproved(w) \/ Submit(w) \/ SubmitRaises(w) \/ Monitor(w)
  <2>1. /\ UNCHANGED <<booked, memory, loc>>
        /\ pc'[w] \in {"register", "mark", "submit", "monitor"}
    BY <1>6 DEF Approve, Register, MarkApproved, Submit, SubmitRaises, Monitor, TransitionWrite,
         OpenPosition, Then, traderVars, storeVars
  <2>2. QED
    BY <2>1
<1>7. QED
  BY <1>1, <1>2, <1>3, <1>4, <1>5, <1>6 DEF ExitStep, SignalStep

\* Who resolves the exit of s finds it open, and nothing of it is counted yet.
LEMMA CountResolve ==
  ASSUME TypeOK, TradeInv, CountInv, NEW w \in Workers, ResolveExit(w)
  PROVE  CountInv'
<1>1. PICK s \in loc[w].toScan : /\ position[s] = "OPEN"
                                 /\ loc' = [loc EXCEPT ![w].toScan = @ \ {s}, ![w].sig = s]
  BY DEF ResolveExit
<1>2. s \in Signals
  BY DEF TypeOK, WorkerTypeOK, Locals
<1>3. UNCHANGED <<booked, memory>>
  BY DEF ResolveExit, traderVars, storeVars
<1>4. booked[s] = 0 /\ memory[s] = 0
  BY <1>1, <1>2 DEF TradeInv, SignalInv
<1>5. /\ booked'[s] + Cardinality(Closers(s)') <= Cardinality(Workers)
      /\ memory'[s] + Cardinality(Learners(s)') <= Cardinality(Workers)
  <2>1. Closers(s)' \subseteq Workers /\ Learners(s)' \subseteq Workers
    BY DEF Closers, Learners
  <2>2. QED
    BY <1>3, <1>4, <2>1, WorkerSets
<1>6. ASSUME NEW x \in Signals \ {s}
      PROVE  /\ booked'[x] + Cardinality(Closers(x)') <= Cardinality(Workers)
             /\ memory'[x] + Cardinality(Learners(x)') <= Cardinality(Workers)
  <2>1. loc'[w] = [loc[w] EXCEPT !.toScan = @ \ {s}, !.sig = s]
    BY <1>1, Zenon DEF TypeOK, WorkerTypeOK
  <2>2. loc'[w].sig = s /\ loc'[w].toExit = loc[w].toExit
    BY <2>1 DEF TypeOK, WorkerTypeOK, Locals
  <2>3. \A v \in Workers \ {w} : pc'[v] = pc[v] /\ loc'[v] = loc[v]
    BY OthersStay DEF ExitStep
  <2>4. \A v \in Workers : /\ WillClose(v, x)' => WillClose(v, x)
                           /\ WillLearn(v, x)' => WillLearn(v, x)
    BY <1>6, <2>2, <2>3 DEF WillClose, WillLearn
  <2>5. QED
    BY <1>3, <2>4, CountStays
<1>7. QED
  BY <1>5, <1>6 DEF CountInv

\* A worker that closes s counts as booked what it counted as closing.
LEMMA CountClose ==
  ASSUME TypeOK, TradeInv, CountInv, NEW w \in Workers, Close(w)
  PROVE  CountInv'
<1>1. PICK s \in Signals : s = loc[w].sig
  BY LabelNames DEF Close, At, TypeOK, WorkerTypeOK
<1>2. /\ booked'[s] = booked[s] + 1 /\ memory' = memory
      /\ \A x \in Signals \ {s} : booked'[x] = booked[x]
  BY <1>1 DEF Close, ClosePosition, TypeOK, TraderTypeOK, storeVars
<1>3. pc[w] = "close" /\ pc'[w] = "tick" /\ loc'[w].toExit = loc[w].toExit \cup {s}
  BY <1>1 DEF Close, At, Goto, TypeOK, WorkerTypeOK, Locals
<1>4. \A v \in Workers \ {w} : pc'[v] = pc[v] /\ loc'[v] = loc[v]
  BY OthersStay DEF ExitStep
<1>5. \A v \in Workers, x \in Signals : /\ WillClose(v, x)' => WillClose(v, x)
                                        /\ WillLearn(v, x)' => WillLearn(v, x)
  BY <1>1, <1>3, <1>4 DEF WillClose, WillLearn, Learning
<1>6. Closers(s)' \subseteq Closers(s) \ {w} /\ w \in Closers(s) /\ Closers(s) \subseteq Workers
  BY <1>1, <1>3, <1>5 DEF Closers, WillClose
<1>7. /\ booked'[s] + Cardinality(Closers(s)') <= Cardinality(Workers)
      /\ memory'[s] + Cardinality(Learners(s)') <= Cardinality(Workers)
  <2>1. IsFiniteSet(Closers(s)) /\ Cardinality(Closers(s)) \in Nat /\ Cardinality(Workers) \in Nat
    BY <1>6, WorkerSets
  <2>2. Cardinality(Closers(s) \ {w}) = Cardinality(Closers(s)) - 1
    BY <1>6, <2>1, FS_RemoveElement
  <2>3. Closers(s) \ {w} \subseteq Workers
    BY <1>6
  <2>4. Cardinality(Closers(s)') <= Cardinality(Closers(s)) - 1 /\ Cardinality(Closers(s)') \in Nat
    BY <1>6, <2>2, <2>3, Fewer
  <2>5. Learners(s)' \subseteq Learners(s) /\ Learners(s) \subseteq Workers
    BY <1>5 DEF Learners
  <2>6. /\ Cardinality(Learners(s)') <= Cardinality(Learners(s))
        /\ Cardinality(Learners(s)') \in Nat /\ Cardinality(Learners(s)) \in Nat
    BY <2>5, Fewer
  <2>7. booked[s] \in Nat /\ memory[s] \in Nat
    BY DEF TypeOK, TraderTypeOK, StoreTypeOK
  <2>8. /\ booked[s] + Cardinality(Closers(s)) <= Cardinality(Workers)
        /\ memory[s] + Cardinality(Learners(s)) <= Cardinality(Workers)
    BY DEF CountInv
  <2>9. QED
    BY <1>2, <2>1, <2>4, <2>6, <2>7, <2>8
<1>8. ASSUME NEW x \in Signals \ {s}
      PROVE  /\ booked'[x] + Cardinality(Closers(x)') <= Cardinality(Workers)
             /\ memory'[x] + Cardinality(Learners(x)') <= Cardinality(Workers)
  BY <1>2, <1>5, CountStays
<1>9. QED
  BY <1>7, <1>8 DEF CountInv

\* A worker that indexes s is no longer to learn it: s is not among its other exits.
LEMMA CountIndex ==
  ASSUME TypeOK, TradeInv, CountInv, NEW w \in Workers, Index(w)
  PROVE  CountInv'
<1>1. PICK s \in Signals : s = loc[w].sig
  BY LabelNames DEF Index, At, TypeOK, WorkerTypeOK
<1>2. /\ memory'[s] = memory[s] + 1 /\ booked' = booked
      /\ \A x \in Signals \ {s} : memory'[x] = memory[x]
  BY <1>1 DEF Index, TypeOK, StoreTypeOK, traderVars
<1>3. pc[w] = "index" /\ pc'[w] = "closed_read" /\ loc' = loc
  BY DEF Index, At, Then, Goto, TypeOK, WorkerTypeOK
<1>4. s \notin loc[w].toExit
  BY <1>1, <1>3 DEF TradeInv, ExitInv, Booking
<1>5. \A v \in Workers \ {w} : pc'[v] = pc[v] /\ loc'[v] = loc[v]
  BY OthersStay DEF ExitStep
<1>6. \A v \in Workers, x \in Signals : /\ WillClose(v, x)' => WillClose(v, x)
                                        /\ WillLearn(v, x)' => WillLearn(v, x)
  BY <1>3, <1>5 DEF WillClose, WillLearn, Learning
<1>7. Learners(s)' \subseteq Learners(s) \ {w} /\ w \in Learners(s) /\ Learners(s) \subseteq Workers
  BY <1>1, <1>3, <1>4, <1>6 DEF Learners, WillLearn, Learning
<1>8. /\ booked'[s] + Cardinality(Closers(s)') <= Cardinality(Workers)
      /\ memory'[s] + Cardinality(Learners(s)') <= Cardinality(Workers)
  <2>1. IsFiniteSet(Learners(s)) /\ Cardinality(Learners(s)) \in Nat /\ Cardinality(Workers) \in Nat
    BY <1>7, WorkerSets
  <2>2. Cardinality(Learners(s) \ {w}) = Cardinality(Learners(s)) - 1
    BY <1>7, <2>1, FS_RemoveElement
  <2>3. Learners(s) \ {w} \subseteq Workers
    BY <1>7
  <2>4. Cardinality(Learners(s)') <= Cardinality(Learners(s)) - 1 /\ Cardinality(Learners(s)') \in Nat
    BY <1>7, <2>2, <2>3, Fewer
  <2>5. Closers(s)' \subseteq Closers(s) /\ Closers(s) \subseteq Workers
    BY <1>6 DEF Closers
  <2>6. /\ Cardinality(Closers(s)') <= Cardinality(Closers(s))
        /\ Cardinality(Closers(s)') \in Nat /\ Cardinality(Closers(s)) \in Nat
    BY <2>5, Fewer
  <2>7. booked[s] \in Nat /\ memory[s] \in Nat
    BY DEF TypeOK, TraderTypeOK, StoreTypeOK
  <2>8. /\ booked[s] + Cardinality(Closers(s)) <= Cardinality(Workers)
        /\ memory[s] + Cardinality(Learners(s)) <= Cardinality(Workers)
    BY DEF CountInv
  <2>9. QED
    BY <1>2, <2>1, <2>4, <2>6, <2>7, <2>8
<1>9. ASSUME NEW x \in Signals \ {s}
      PROVE  /\ booked'[x] + Cardinality(Closers(x)') <= Cardinality(Workers)
             /\ memory'[x] + Cardinality(Learners(x)') <= Cardinality(Workers)
  BY <1>2, <1>6, CountStays
<1>10. QED
  BY <1>8, <1>9 DEF CountInv

LEMMA CountCrash ==
  ASSUME TypeOK, CountInv, Crash
  PROVE  CountInv'
<1>1. \A w \in Workers, s \in Signals : ~WillClose(w, s)' /\ ~WillLearn(w, s)'
  BY DEF Crash, NoLocals, WillClose, WillLearn, Learning
<1>2. ASSUME NEW s \in Signals
      PROVE  /\ booked'[s] + Cardinality(Closers(s)') <= Cardinality(Workers)
             /\ memory'[s] + Cardinality(Learners(s)') <= Cardinality(Workers)
  <2>1. Closers(s)' = {} /\ Learners(s)' = {}
    BY <1>1 DEF Closers, Learners
  <2>2. Cardinality(Closers(s)') = 0 /\ Cardinality(Learners(s)') = 0
    BY <2>1, FS_EmptySet
  <2>3. booked'[s] = 0 /\ memory'[s] = memory[s] /\ memory[s] \in Nat
    BY DEF Crash, storeVars, TypeOK, StoreTypeOK
  <2>4. Learners(s) \subseteq Workers
    BY DEF Learners
  <2>5. Cardinality(Learners(s)) \in Nat /\ Cardinality(Workers) \in Nat
    BY <2>4, WorkerSets
  <2>6. memory[s] + Cardinality(Learners(s)) <= Cardinality(Workers)
    BY DEF CountInv
  <2>7. QED
    BY <2>2, <2>3, <2>5, <2>6
<1>3. QED
  BY <1>2 DEF CountInv

LEMMA CountInit == Init => CountInv
<1> SUFFICES ASSUME Init, NEW s \in Signals
             PROVE  /\ booked[s] + Cardinality(Closers(s)) <= Cardinality(Workers)
                    /\ memory[s] + Cardinality(Learners(s)) <= Cardinality(Workers)
  BY DEF CountInv
<1>1. Closers(s) = {} /\ Learners(s) = {}
  BY DEF Init, NoLocals, Closers, Learners, WillClose, WillLearn, Learning
<1>2. Cardinality(Closers(s)) = 0 /\ Cardinality(Learners(s)) = 0 /\ Cardinality(Workers) \in Nat
  BY <1>1, FS_EmptySet, WorkerSets
<1>3. booked[s] = 0 /\ memory[s] = 0
  BY DEF Init, TraderInit, Lifecycle!LifecycleInit
<1>4. QED
  BY <1>2, <1>3

LEMMA CountNext == TypeOK /\ TradeInv /\ CountInv /\ [Next]_vars => CountInv'
<1> SUFFICES ASSUME TypeOK, TradeInv, CountInv, [Next]_vars PROVE CountInv'
  OBVIOUS
<1>1. ASSUME NEW w \in Workers, SpotTick(w) \/ OiTick(w) \/ ExitStep(w) \/ SignalStep(w),
             ~ResolveExit(w), ~Close(w), ~Index(w)
      PROVE  CountInv'
  <2>1. UNCHANGED <<booked, memory>>
    BY <1>1, CountStep
  <2>2. \A s \in Signals : /\ WillClose(w, s)' => WillClose(w, s)
                           /\ WillLearn(w, s)' => WillLearn(w, s)
    BY <1>1, CountStep
  <2>3. \A v \in Workers \ {w} : pc'[v] = pc[v] /\ loc'[v] = loc[v]
    BY <1>1, OthersStay
  <2>4. \A s \in Signals, v \in Workers : /\ WillClose(v, s)' => WillClose(v, s)
                                          /\ WillLearn(v, s)' => WillLearn(v, s)
    BY <2>2, <2>3 DEF WillClose, WillLearn
  <2>5. QED
    BY <2>1, <2>4, CountStays DEF CountInv
<1>2. CASE Clock \/ UNCHANGED vars
  <2>1. UNCHANGED <<booked, memory, pc, loc>>
    BY <1>2 DEF Clock, vars, traderVars, storeVars
  <2>2. \A s \in Signals, v \in Workers : /\ WillClose(v, s)' => WillClose(v, s)
                                          /\ WillLearn(v, s)' => WillLearn(v, s)
    BY <2>1 DEF WillClose, WillLearn
  <2>3. QED
    BY <2>1, <2>2, CountStays DEF CountInv
<1>3. QED
  BY <1>1, <1>2, CountResolve, CountClose, CountIndex, CountCrash DEF Next

\* For any number of threads and across restarts, no position is closed and no signal
\* is learned more often than there are threads.
THEOREM ClosedPerWorker == Spec => []ClosedOncePerWorker
<1>1. TypeOK /\ CountInv => ClosedOncePerWorker
  <2> SUFFICES ASSUME TypeOK, CountInv, NEW s \in Signals
               PROVE  booked[s] <= Cardinality(Workers) /\ memory[s] <= Cardinality(Workers)
    BY DEF ClosedOncePerWorker
  <2>1. Closers(s) \subseteq Workers /\ Learners(s) \subseteq Workers
    BY DEF Closers, Learners
  <2>2. Cardinality(Closers(s)) \in Nat /\ Cardinality(Learners(s)) \in Nat /\ Cardinality(Workers) \in Nat
    BY <2>1, WorkerSets
  <2>3. booked[s] \in Nat /\ memory[s] \in Nat
    BY DEF TypeOK, TraderTypeOK, StoreTypeOK
  <2>4. QED
    BY <2>2, <2>3 DEF CountInv
<1>2. QED
  BY <1>1, TradeAlways, CountInit, CountNext, PTL DEF Spec

-----------------------------------------------------------------------------
(* One thread: the spacing of strikes.  What the Checker read of its strike *)
(* still holds when the same thread records the approval.                   *)

SpacingInv(w) ==
  \A k \in Strikes :
    pc[w] = "approve" /\ loc[w].strike = k => ~CoolingDown(lastAlert[k], now, StrikeCooldown)

LEMMA SpacingStep ==
  ASSUME NEW w, Workers = {w}, TypeOK, SpacingInv(w), [Next]_vars
  PROVE  /\ SpacingInv(w)'
         /\ \A k \in Strikes : lastAlert'[k] \notin {None, lastAlert[k]}
                                 => ~CoolingDown(lastAlert[k], now, StrikeCooldown)
<1>1. CASE CheckApproves(w)
  <2>1. PICK s \in FreshSignals, d \in Directions :
          loc' = [loc EXCEPT ![w].sig = s, ![w].direction = d]
    BY <1>1 DEF CheckApproves
  <2>2. loc'[w] = [loc[w] EXCEPT !.sig = s, !.direction = d]
    BY <2>1, Zenon DEF TypeOK, WorkerTypeOK
  <2>3. loc'[w].strike = loc[w].strike
    BY <2>2 DEF TypeOK, WorkerTypeOK, Locals
  <2>4. lastAlert' = lastAlert /\ now' = now
    BY <1>1 DEF CheckApproves, checkerVars, worldVars
  <2>5. ~CoolingDown(lastAlert[loc[w].strike], now, StrikeCooldown)
    BY <1>1 DEF CheckApproves, ChecksPass, RuleE
  <2>6. QED
    BY <2>3, <2>4, <2>5 DEF SpacingInv
<1>2. CASE Approve(w)
  <2>1. pc'[w] = "register" /\ pc[w] = "approve" /\ lastAlert' = [lastAlert EXCEPT ![loc[w].strike] = now]
    BY <1>2 DEF Approve, At, Then, Goto, RecordApproval, TypeOK, WorkerTypeOK
  <2>2. QED
    BY <2>1 DEF SpacingInv, TypeOK, CheckerTypeOK
<1>3. CASE Clock
  <2>1. now' = now + 1 /\ UNCHANGED <<pc, loc, lastAlert>>
    BY <1>3 DEF Clock, checkerVars
  <2>2. ASSUME NEW k \in Strikes, ~CoolingDown(lastAlert[k], now, StrikeCooldown)
        PROVE  ~CoolingDown(lastAlert[k], now + 1, StrikeCooldown)
    <3>1. lastAlert[k] \in Nat \cup {None} /\ now \in Nat /\ StrikeCooldown \in Nat
      BY CheckerAssumption DEF CheckerAssumption, TypeOK, CheckerTypeOK
    <3>2. QED
      BY <2>2, <3>1, NoneAssumption DEF CoolingDown
  <2>3. QED
    BY <2>1, <2>2 DEF SpacingInv
<1>4. CASE Crash
  BY <1>4 DEF Crash, SpacingInv
<1>5. CASE \/ SpotTick(w) \/ OiTick(w) \/ ExitStep(w) \/ UNCHANGED vars
           \/ SignalStep(w) /\ ~CheckApproves(w) /\ ~Approve(w)
  <2>1. UNCHANGED <<lastAlert, now>> /\ (pc'[w] # "approve" \/ UNCHANGED <<pc, loc>>)
    <3>1. CASE SpotTick(w) \/ OiTick(w) \/ UNCHANGED vars
      BY <3>1 DEF SpotTick, OiTick, vars, checkerVars, worldVars, Goto, TypeOK, WorkerTypeOK
    <3>2. CASE ExitStep(w)
      BY <3>2 DEF ExitStep, PassOver, ResolveExit, Close, NextExit, ExitRead, ExitWrite, AnalyzeRead,
           AnalyzeWrite, WriteOutcome, WriteBackRead, Index, IndexFails, ClosedRead, ClosedWrite, Account,
           TransitionRead, TransitionWrite, RecordExitPnl, ReturnToLoop, Then, Goto, At, checkerVars,
           worldVars, TypeOK, WorkerTypeOK
    <3>3. CASE SignalStep(w) /\ ~CheckApproves(w) /\ ~Approve(w)
      BY <3>3 DEF SignalStep, SkipEvaluation, Evaluate, Gate, CheckRejects, Register, MarkApproved, Submit,
           SubmitRaises, Monitor, TransitionWrite, Return, Then, Goto, checkerVars, worldVars,
           TypeOK, WorkerTypeOK
    <3>4. QED
      BY <1>5, <3>1, <3>2, <3>3
  <2>2. QED
    BY <2>1 DEF SpacingInv
<1>6. QED
  BY <1>1, <1>2, <1>3, <1>4, <1>5 DEF Next

\* With one thread, two approvals of one strike are a StrikeCooldown apart.
THEOREM StrikesSpaced ==
  ASSUME NEW w, Workers = {w}
  PROVE  Spec => StrikeSpacing
<1>1. Init => SpacingInv(w)
  BY DEF Init, SpacingInv
<1>2. Spec => []TypeOK
  BY TypeCorrect
<1>3. TypeOK /\ SpacingInv(w) /\ [Next]_vars => SpacingInv(w)'
  BY SpacingStep
<1>4. TypeOK /\ SpacingInv(w) /\ [Next]_vars =>
        [\A k \in Strikes : lastAlert'[k] \notin {None, lastAlert[k]}
                              => ~CoolingDown(lastAlert[k], now, StrikeCooldown)]_vars
  BY SpacingStep
<1>5. QED
  BY <1>1, <1>2, <1>3, <1>4, PTL DEF Spec, StrikeSpacing

-----------------------------------------------------------------------------
(* One thread: the refinement.  The label of the worker says which step of  *)
(* the lifecycle its signal has reached, and a row that has not been        *)
(* analysed has neither an outcome nor a record.                            *)

BookInv(w) ==
  LET s == loc[w].sig IN
    /\ pc[w] = "exit_write" => row[s] = "MONITORING"
    /\ pc[w] \in {"analyze_read", "analyze_write"} => row[s] = "EXITED"
    /\ pc[w] = "outcome" => row[s] = "ANALYZED" /\ outcome[s] = None /\ memory[s] = 0
    /\ pc[w] \in {"writeback", "index"} => row[s] = "ANALYZED" /\ outcome[s] # None /\ memory[s] = 0
    /\ pc[w] \in {"closed_read", "closed_write"} => row[s] = "ANALYZED" /\ memory[s] = 1
    /\ pc[w] \in Booking => loc[w].amount \in Pnls

YoungInv ==
  \A s \in Signals :
    row[s] \notin {"ANALYZED", "CLOSED"} => outcome[s] = None /\ memory[s] = 0

PnlInv == \A s \in Signals : position[s] = "CLOSED" => pnl[s] \in Pnls

LifeInv(w) == BookInv(w) /\ YoungInv /\ PnlInv

LifeStep == [Lifecycle!LifecycleNext]_(Lifecycle!lifecycleVars)

LEMMA LifeInit ==
  ASSUME NEW w \in Workers, Init
  PROVE  LifeInv(w) /\ Lifecycle!LifecycleInit
BY DEF Init, TraderInit, Lifecycle!LifecycleInit, LifeInv, BookInv, YoungInv, PnlInv, Booking

\* A step that leaves the signal log, the memory and the positions alone.
LEMMA LifeQuiet ==
  ASSUME NEW w, LifeInv(w), UNCHANGED <<row, outcome, memory, position, pnl>>, BookInv(w)'
  PROVE  LifeInv(w)' /\ LifeStep
BY DEF LifeInv, YoungInv, PnlInv, LifeStep, Lifecycle!lifecycleVars

\* Outside the booking of an exit there is nothing to say.
LEMMA BookOutside ==
  ASSUME NEW w, pc'[w] \notin Booking
  PROVE  BookInv(w)'
BY DEF BookInv, Booking

LEMMA LifeScan ==
  ASSUME NEW w \in Workers, TypeOK, TradeInv, LifeInv(w),
         SpotTick(w) \/ OiTick(w) \/ PassOver(w) \/ ResolveExit(w) \/ Close(w) \/ NextExit(w)
  PROVE  LifeInv(w)' /\ LifeStep
<1>1. CASE SpotTick(w) \/ OiTick(w) \/ PassOver(w) \/ ResolveExit(w)
  <2>1. pc'[w] \notin Booking
    BY <1>1 DEF SpotTick, OiTick, PassOver, ResolveExit, At, Goto, Booking, TypeOK, WorkerTypeOK
  <2>2. UNCHANGED <<row, outcome, memory, position, pnl>>
    BY <1>1 DEF SpotTick, OiTick, PassOver, ResolveExit, storeVars, traderVars
  <2>3. QED
    BY <2>1, <2>2, LifeQuiet, BookOutside
<1>2. CASE Close(w)
  <2>1. pc'[w] \notin Booking
    BY <1>2 DEF Close, Goto, Booking, TypeOK, WorkerTypeOK
  <2>2. BookInv(w)'
    BY <2>1, BookOutside
  <2>3. UNCHANGED <<row, outcome, memory>>
    BY <1>2 DEF Close, storeVars
  <2>4. PICK p \in Pnls : /\ pnl' = [pnl EXCEPT ![loc[w].sig] = p]
                          /\ position' = [position EXCEPT ![loc[w].sig] = "CLOSED"]
    BY <1>2 DEF Close, ClosePosition
  <2>5. PnlInv'
    BY <2>4 DEF LifeInv, PnlInv, TypeOK, TraderTypeOK
  <2>6. QED
    BY <2>2, <2>3, <2>5 DEF LifeInv, YoungInv, LifeStep, Lifecycle!lifecycleVars
<1>3. CASE NextExit(w)
  <2>1. PICK s \in loc[w].toExit :
          loc' = [loc EXCEPT ![w].toExit = @ \ {s}, ![w].sig = s, ![w].amount = pnl[s]]
    BY <1>3 DEF NextExit
  <2>2. s \in Signals /\ position[s] = "CLOSED"
    BY <2>1 DEF TradeInv, ExitInv, TypeOK, WorkerTypeOK, Locals
  <2>3. loc'[w] = [loc[w] EXCEPT !.toExit = @ \ {s}, !.sig = s, !.amount = pnl[s]]
    BY <2>1, Zenon DEF TypeOK, WorkerTypeOK
  <2>4. loc'[w].amount \in Pnls
    BY <2>2, <2>3 DEF LifeInv, PnlInv, TypeOK, WorkerTypeOK, Locals
  <2>5. pc'[w] = "exit_read"
    BY <1>3 DEF NextExit, Goto, TypeOK, WorkerTypeOK
  <2>6. BookInv(w)'
    BY <2>4, <2>5 DEF BookInv
  <2>7. UNCHANGED <<row, outcome, memory, position, pnl>>
    BY <1>3 DEF NextExit, storeVars, traderVars
  <2>8. QED
    BY <2>6, <2>7, LifeQuiet
<1>4. QED
  BY <1>1, <1>2, <1>3

LEMMA LifeReads ==
  ASSUME NEW w \in Workers, TypeOK, LifeInv(w),
         \/ ExitRead(w) \/ AnalyzeRead(w) \/ WriteBackRead(w) \/ IndexFails(w) \/ ClosedRead(w)
         \/ Account(w)
  PROVE  LifeInv(w)' /\ LifeStep
<1>1. UNCHANGED <<row, outcome, memory, position, pnl>>
  BY DEF ExitRead, AnalyzeRead, WriteBackRead, IndexFails, ClosedRead, Account, TransitionRead, storeVars,
         traderVars
<1>2. CASE ReturnToLoop(w)
  <2>1. pc'[w] \notin Booking
    BY <1>2 DEF ReturnToLoop, Goto, Booking, TypeOK, WorkerTypeOK
  <2>2. QED
    BY <1>1, <2>1, LifeQuiet, BookOutside
<1>3. CASE ~ReturnToLoop(w)
  <2>1. pc[w] \in Booking /\ loc' = loc
    BY <1>3 DEF ExitRead, AnalyzeRead, WriteBackRead, IndexFails, ClosedRead, Account, TransitionRead, At,
         Then, Booking
  <2>2. BookInv(w)'
    <3>1. CASE ExitRead(w)
      <4>1. pc'[w] = "exit_write" /\ row[loc[w].sig] = "MONITORING"
        BY <1>3, <3>1 DEF ExitRead, TransitionRead, Goto, TypeOK, WorkerTypeOK
      <4>2. QED
        BY <1>1, <2>1, <4>1 DEF LifeInv, BookInv
    <3>2. CASE AnalyzeRead(w)
      <4>1. pc[w] = "analyze_read" /\ pc'[w] = "analyze_write"
        BY <1>3, <3>2 DEF AnalyzeRead, At, TransitionRead, Goto, TypeOK, WorkerTypeOK
      <4>2. QED
        BY <1>1, <2>1, <4>1 DEF LifeInv, BookInv
    <3>3. CASE WriteBackRead(w)
      <4>1. pc[w] = "writeback" /\ row[loc[w].sig] = "ANALYZED"
        BY <3>3 DEF WriteBackRead, At, LifeInv, BookInv
      <4>2. pc'[w] = "index"
        BY <3>3, <4>1 DEF WriteBackRead, Then, Goto, TypeOK, WorkerTypeOK
      <4>3. QED
        BY <1>1, <2>1, <4>1, <4>2 DEF LifeInv, BookInv
    <3>4. CASE ClosedRead(w)
      <4>1. pc[w] = "closed_read" /\ pc'[w] = "closed_write"
        BY <1>3, <3>4 DEF ClosedRead, At, TransitionRead, Goto, TypeOK, WorkerTypeOK
      <4>2. QED
        BY <1>1, <2>1, <4>1 DEF LifeInv, BookInv
    <3>5. QED
      BY <1>3, <3>1, <3>2, <3>3, <3>4 DEF IndexFails, Account
  <2>3. QED
    BY <1>1, <2>2, LifeQuiet
<1>4. QED
  BY <1>2, <1>3

\* A legal write of the status is a step of the lifecycle.
LEMMA NextStatusOf ==
  /\ Lifecycle!NextStatus["SIGNAL_GENERATED"] = "APPROVED"
  /\ Lifecycle!NextStatus["APPROVED"] = "MONITORING"
  /\ Lifecycle!NextStatus["MONITORING"] = "EXITED"
  /\ Lifecycle!NextStatus["EXITED"] = "ANALYZED"
  /\ Lifecycle!NextStatus["ANALYZED"] = "CLOSED"
  /\ DOMAIN Lifecycle!NextStatus = {"SIGNAL_GENERATED", "APPROVED", "MONITORING", "EXITED", "ANALYZED"}
BY DEF Lifecycle!NextStatus

LEMMA StatusAdvances ==
  ASSUME NEW s \in Signals, row[s] \in DOMAIN Lifecycle!NextStatus, row[s] = "ANALYZED" => memory[s] = 1,
         row' = [row EXCEPT ![s] = Lifecycle!NextStatus[row[s]]], UNCHANGED <<outcome, memory>>
  PROVE  LifeStep
BY DEF LifeStep, Lifecycle!LifecycleNext, Lifecycle!Advance

LEMMA LifeWrites ==
  ASSUME NEW w \in Workers, TypeOK, TradeInv, LifeInv(w),
         ExitWrite(w) \/ AnalyzeWrite(w) \/ WriteOutcome(w) \/ Index(w) \/ ClosedWrite(w)
  PROVE  LifeInv(w)' /\ LifeStep
<1>1. PICK s \in Signals : s = loc[w].sig
  BY LabelNames DEF ExitWrite, AnalyzeWrite, WriteOutcome, Index, ClosedWrite, At, TypeOK, WorkerTypeOK
<1>2. loc' = loc /\ UNCHANGED <<position, pnl>>
  BY DEF ExitWrite, AnalyzeWrite, WriteOutcome, Index, ClosedWrite, TransitionWrite, Then, traderVars
<1>3. PnlInv'
  BY <1>2 DEF LifeInv, PnlInv
<1>4. loc[w].amount \in Pnls
  BY DEF ExitWrite, AnalyzeWrite, WriteOutcome, Index, ClosedWrite, At, LifeInv, BookInv, Booking
<1>5. CASE ExitWrite(w)
  <2>1. pc[w] = "exit_write" /\ pc'[w] = "analyze_read"
    BY <1>5 DEF ExitWrite, At, Then, Goto, TypeOK, WorkerTypeOK
  <2>2. row[s] = "MONITORING" /\ row' = [row EXCEPT ![s] = "EXITED"] /\ UNCHANGED <<outcome, memory>>
    BY <1>1, <1>5, <2>1 DEF ExitWrite, TransitionWrite, LifeInv, BookInv
  <2>3. BookInv(w)'
    BY <1>1, <1>2, <1>4, <2>1, <2>2 DEF BookInv, TypeOK, StoreTypeOK
  <2>4. YoungInv'
    BY <2>2 DEF LifeInv, YoungInv, TypeOK, StoreTypeOK
  <2>5. QED
    BY <1>3, <2>2, <2>3, <2>4, NextStatusOf, StatusAdvances DEF LifeInv
<1>6. CASE AnalyzeWrite(w)
  <2>1. pc[w] = "analyze_write" /\ pc'[w] = "outcome"
    BY <1>6 DEF AnalyzeWrite, At, Then, Goto, TypeOK, WorkerTypeOK
  <2>2. row[s] = "EXITED" /\ row' = [row EXCEPT ![s] = "ANALYZED"] /\ UNCHANGED <<outcome, memory>>
    BY <1>1, <1>6, <2>1 DEF AnalyzeWrite, TransitionWrite, LifeInv, BookInv
  <2>3. outcome[s] = None /\ memory[s] = 0
    BY <2>2 DEF LifeInv, YoungInv
  <2>4. BookInv(w)'
    BY <1>1, <1>2, <1>4, <2>1, <2>2, <2>3 DEF BookInv, TypeOK, StoreTypeOK
  <2>5. YoungInv'
    BY <2>2 DEF LifeInv, YoungInv, TypeOK, StoreTypeOK
  <2>6. QED
    BY <1>3, <2>2, <2>4, <2>5, NextStatusOf, StatusAdvances DEF LifeInv
<1>7. CASE WriteOutcome(w)
  <2>1. pc[w] = "outcome" /\ pc'[w] = "writeback"
    BY <1>7 DEF WriteOutcome, At, Then, Goto, TypeOK, WorkerTypeOK
  <2>2. row[s] = "ANALYZED" /\ outcome[s] = None /\ memory[s] = 0
    BY <1>1, <2>1 DEF LifeInv, BookInv
  <2>3. outcome' = [outcome EXCEPT ![s] = loc[w].amount] /\ UNCHANGED <<row, memory>>
    BY <1>1, <1>7 DEF WriteOutcome
  <2>4. loc[w].amount # None
    BY NoneAssumption DEF TypeOK, WorkerTypeOK, Locals
  <2>5. BookInv(w)'
    BY <1>1, <1>2, <1>4, <2>1, <2>2, <2>3, <2>4 DEF BookInv, TypeOK, StoreTypeOK
  <2>6. YoungInv'
    BY <2>2, <2>3 DEF LifeInv, YoungInv, TypeOK, StoreTypeOK
  <2>7. LifeStep
    BY <1>4, <2>2, <2>3 DEF LifeStep, Lifecycle!LifecycleNext, Lifecycle!RecordOutcome
  <2>8. QED
    BY <1>3, <2>5, <2>6, <2>7 DEF LifeInv
<1>8. CASE Index(w)
  <2>1. pc[w] = "index" /\ pc'[w] = "closed_read"
    BY <1>8 DEF Index, At, Then, Goto, TypeOK, WorkerTypeOK
  <2>2. row[s] = "ANALYZED" /\ outcome[s] # None /\ memory[s] = 0
    BY <1>1, <2>1 DEF LifeInv, BookInv
  <2>3. memory' = [memory EXCEPT ![s] = 1] /\ UNCHANGED <<row, outcome>>
    BY <1>1, <1>8, <2>2 DEF Index, TypeOK, StoreTypeOK
  <2>4. BookInv(w)'
    BY <1>1, <1>2, <1>4, <2>1, <2>2, <2>3 DEF BookInv, TypeOK, StoreTypeOK
  <2>5. YoungInv'
    BY <2>2, <2>3 DEF LifeInv, YoungInv, TypeOK, StoreTypeOK
  <2>6. LifeStep
    BY <2>2, <2>3 DEF LifeStep, Lifecycle!LifecycleNext, Lifecycle!Remember
  <2>7. QED
    BY <1>3, <2>4, <2>5, <2>6 DEF LifeInv
<1>9. CASE ClosedWrite(w)
  <2>1. pc[w] = "closed_write" /\ pc'[w] = "account"
    BY <1>9 DEF ClosedWrite, At, Then, Goto, TypeOK, WorkerTypeOK
  <2>2. row[s] = "ANALYZED" /\ memory[s] = 1
    BY <1>1, <2>1 DEF LifeInv, BookInv
  <2>3. row' = [row EXCEPT ![s] = "CLOSED"] /\ UNCHANGED <<outcome, memory>>
    BY <1>1, <1>9 DEF ClosedWrite, TransitionWrite
  <2>4. BookInv(w)'
    BY <1>2, <1>4, <2>1 DEF BookInv
  <2>5. YoungInv'
    BY <2>3 DEF LifeInv, YoungInv, TypeOK, StoreTypeOK
  <2>6. QED
    BY <1>3, <2>2, <2>3, <2>4, <2>5, NextStatusOf, StatusAdvances DEF LifeInv
<1>10. QED
  BY <1>5, <1>6, <1>7, <1>8, <1>9

LEMMA LifeSignal ==
  ASSUME NEW w \in Workers, TypeOK, TradeInv, LifeInv(w), SignalStep(w)
  PROVE  LifeInv(w)' /\ LifeStep
<1>1. pc'[w] \notin Booking
  BY DEF SignalStep, SkipEvaluation, Evaluate, Gate, CheckApproves, CheckRejects, Approve, Register,
         MarkApproved, Submit, SubmitRaises, Monitor, Return, Then, Goto, Booking, TypeOK, WorkerTypeOK
<1>2. BookInv(w)'
  BY <1>1, BookOutside
<1>3. CASE Register(w)
  <2>1. PICK s \in Signals : s = loc[w].sig
    BY <1>3, LabelNames DEF Register, At, TypeOK, WorkerTypeOK
  <2>2. row[s] = "NONE"
    BY <1>3, <2>1 DEF Register, At, TradeInv, EntryInv
  <2>3. /\ row' = [row EXCEPT ![s] = "SIGNAL_GENERATED"]
        /\ UNCHANGED <<outcome, memory, position, pnl>>
    BY <1>3, <2>1 DEF Register, traderVars
  <2>4. YoungInv' /\ PnlInv'
    BY <2>2, <2>3 DEF LifeInv, YoungInv, PnlInv, TypeOK, StoreTypeOK
  <2>5. LifeStep
    BY <2>2, <2>3 DEF LifeStep, Lifecycle!LifecycleNext, Lifecycle!Generate
  <2>6. QED
    BY <1>2, <2>4, <2>5 DEF LifeInv
<1>4. CASE MarkApproved(w) \/ Monitor(w)
  <2>1. PICK s \in Signals : s = loc[w].sig
    BY <1>4, LabelNames DEF MarkApproved, Monitor, At, TypeOK, WorkerTypeOK
  <2>2. /\ row[s] \in {"SIGNAL_GENERATED", "APPROVED"}
        /\ row' = [row EXCEPT ![s] = Lifecycle!NextStatus[row[s]]]
        /\ UNCHANGED <<outcome, memory, position, pnl>>
    BY <1>4, <2>1, NextStatusOf DEF MarkApproved, Monitor, TransitionWrite, traderVars
  <2>3. YoungInv' /\ PnlInv'
    BY <2>2 DEF LifeInv, YoungInv, PnlInv, TypeOK, StoreTypeOK
  <2>4. LifeStep
    BY <2>2, NextStatusOf, StatusAdvances
  <2>5. QED
    BY <1>2, <2>3, <2>4 DEF LifeInv
<1>5. CASE Submit(w)
  <2>1. /\ position' = [position EXCEPT ![loc[w].sig] = "OPEN"]
        /\ UNCHANGED <<row, outcome, memory, pnl>>
    BY <1>5 DEF Submit, OpenPosition, storeVars
  <2>2. YoungInv' /\ PnlInv'
    BY <2>1 DEF LifeInv, YoungInv, PnlInv, TypeOK, TraderTypeOK
  <2>3. QED
    BY <1>2, <2>1, <2>2 DEF LifeInv, LifeStep, Lifecycle!lifecycleVars
<1>6. CASE UNCHANGED <<row, outcome, memory, position, pnl>>
  BY <1>2, <1>6, LifeQuiet
<1>7. QED
  BY <1>3, <1>4, <1>5, <1>6
     DEF SignalStep, SkipEvaluation, Evaluate, Gate, CheckApproves, CheckRejects, Approve, SubmitRaises,
         storeVars, traderVars

LEMMA LifeNext ==
  ASSUME NEW w, Workers = {w}, TypeOK, TradeInv, LifeInv(w), [Next]_vars
  PROVE  LifeInv(w)' /\ LifeStep
<1>1. CASE SpotTick(w) \/ OiTick(w) \/ ExitStep(w) \/ SignalStep(w)
  BY <1>1, LifeScan, LifeReads, LifeWrites, LifeSignal DEF ExitStep
<1>2. CASE Crash
  <2>1. pc'[w] = "idle" /\ \A s \in Signals : position'[s] = "NONE"
    BY <1>2 DEF Crash
  <2>2. UNCHANGED <<row, outcome, memory>>
    BY <1>2 DEF Crash, storeVars
  <2>3. QED
    BY <2>1, <2>2 DEF LifeInv, BookInv, Booking, YoungInv, PnlInv, LifeStep, Lifecycle!lifecycleVars
<1>3. CASE Clock \/ UNCHANGED vars
  <2>1. UNCHANGED <<row, outcome, memory, position, pnl, pc, loc>>
    BY <1>3 DEF Clock, vars, storeVars, traderVars
  <2>2. BookInv(w)'
    BY <2>1 DEF LifeInv, BookInv
  <2>3. QED
    BY <2>1, <2>2, LifeQuiet
<1>4. QED
  BY <1>1, <1>2, <1>3 DEF Next

\* With one thread, across restarts and failures of the memory, the engine walks
\* every signal through the lifecycle that the signal log promises.
THEOREM LifecycleImplemented ==
  ASSUME NEW w, Workers = {w}
  PROVE  Spec => ImplementsLifecycle
<1>1. Init => LifeInv(w) /\ Lifecycle!LifecycleInit
  BY LifeInit
<1>2. Spec => [](TypeOK /\ TradeInv)
  BY TradeAlways
<1>3. TypeOK /\ TradeInv /\ LifeInv(w) /\ [Next]_vars => LifeInv(w)' /\ LifeStep
  BY LifeNext
<1>4. QED
  BY <1>1, <1>2, <1>3, PTL DEF Spec, ImplementsLifecycle, Lifecycle!LifecycleSpec, LifeStep

-----------------------------------------------------------------------------
(* One thread, no restart: what is monitored is live.                       *)

\* The worker has closed s, or has yet to find its row MONITORING and change it.
WillExit(w, s) ==
  \/ pc[w] \in ExitLabels /\ s \in loc[w].toExit
  \/ pc[w] \in {"close", "exit_read", "exit_write"} /\ loc[w].sig = s

LiveInv(w) ==
  /\ pc[w] = "monitor" => position[loc[w].sig] = "OPEN"
  /\ \A s \in Signals : row[s] = "MONITORING" => position[s] = "OPEN" \/ WillExit(w, s)

LEMMA LiveScan ==
  ASSUME NEW w \in Workers, TypeOK, LiveInv(w),
         SpotTick(w) \/ OiTick(w) \/ PassOver(w) \/ ResolveExit(w) \/ Close(w) \/ NextExit(w)
  PROVE  LiveInv(w)'
<1>1. row' = row /\ pc'[w] # "monitor"
  BY DEF SpotTick, OiTick, PassOver, ResolveExit, Close, NextExit, At, Goto, storeVars, TypeOK, WorkerTypeOK
<1>2. CASE SpotTick(w) \/ OiTick(w) \/ PassOver(w)
  <2>1. pc'[w] = "tick" /\ position' = position /\ loc'[w].toExit = loc[w].toExit
    <3>1. CASE SpotTick(w) \/ OiTick(w)
      BY <3>1 DEF SpotTick, OiTick, Goto, traderVars, TypeOK, WorkerTypeOK, Locals
    <3>2. CASE PassOver(w)
      BY <3>2 DEF PassOver, At, traderVars, TypeOK, WorkerTypeOK, Locals
    <3>3. QED
      BY <1>2, <3>1, <3>2
  <2>2. pc[w] \notin {"close", "exit_read", "exit_write"}
    BY <1>2 DEF SpotTick, OiTick, PassOver, At
  <2>3. QED
    BY <1>1, <2>1, <2>2 DEF LiveInv, WillExit, ExitLabels
<1>3. CASE ResolveExit(w)
  <2>1. PICK s \in loc[w].toScan : loc' = [loc EXCEPT ![w].toScan = @ \ {s}, ![w].sig = s]
    BY <1>3 DEF ResolveExit
  <2>2. loc'[w] = [loc[w] EXCEPT !.toScan = @ \ {s}, !.sig = s]
    BY <2>1, Zenon DEF TypeOK, WorkerTypeOK
  <2>3. loc'[w].toExit = loc[w].toExit
    BY <2>2 DEF TypeOK, WorkerTypeOK, Locals
  <2>4. pc[w] = "tick" /\ pc'[w] = "close" /\ position' = position
    BY <1>3 DEF ResolveExit, At, Goto, traderVars, TypeOK, WorkerTypeOK
  <2>5. QED
    BY <1>1, <2>3, <2>4 DEF LiveInv, WillExit, ExitLabels
<1>4. CASE Close(w)
  <2>1. PICK s \in Signals : s = loc[w].sig
    BY <1>4, LabelNames DEF Close, At, TypeOK, WorkerTypeOK
  <2>2. \A x \in Signals \ {s} : position'[x] = position[x]
    BY <1>4, <2>1 DEF Close, ClosePosition, TypeOK, TraderTypeOK
  <2>3. pc[w] = "close" /\ pc'[w] = "tick" /\ loc'[w].toExit = loc[w].toExit \cup {s}
    BY <1>4, <2>1 DEF Close, At, Goto, TypeOK, WorkerTypeOK, Locals
  <2>4. QED
    BY <1>1, <2>1, <2>2, <2>3 DEF LiveInv, WillExit, ExitLabels
<1>5. CASE NextExit(w)
  <2>1. PICK s \in loc[w].toExit :
          loc' = [loc EXCEPT ![w].toExit = @ \ {s}, ![w].sig = s, ![w].amount = pnl[s]]
    BY <1>5 DEF NextExit
  <2>2. loc'[w] = [loc[w] EXCEPT !.toExit = @ \ {s}, !.sig = s, !.amount = pnl[s]]
    BY <2>1, Zenon DEF TypeOK, WorkerTypeOK
  <2>3. loc'[w].sig = s /\ loc'[w].toExit = loc[w].toExit \ {s}
    BY <2>2 DEF TypeOK, WorkerTypeOK, Locals
  <2>4. pc[w] = "tick" /\ pc'[w] = "exit_read" /\ position' = position
    BY <1>5 DEF NextExit, At, Goto, traderVars, TypeOK, WorkerTypeOK
  <2>5. QED
    BY <1>1, <2>3, <2>4 DEF LiveInv, WillExit, ExitLabels
<1>6. QED
  BY <1>2, <1>3, <1>4, <1>5

\* Only a row that is not MONITORING is left without its exit.
LEMMA LiveBooking ==
  ASSUME NEW w \in Workers, TypeOK, LiveInv(w),
         \/ ExitRead(w) \/ ExitWrite(w) \/ AnalyzeRead(w) \/ AnalyzeWrite(w) \/ WriteOutcome(w)
         \/ WriteBackRead(w) \/ Index(w) \/ IndexFails(w) \/ ClosedRead(w) \/ ClosedWrite(w) \/ Account(w)
  PROVE  LiveInv(w)'
<1>1. PICK s \in Signals : s = loc[w].sig
  BY LabelNames DEF ExitRead, ExitWrite, AnalyzeRead, AnalyzeWrite, WriteOutcome, WriteBackRead, Index,
       IndexFails, ClosedRead, ClosedWrite, Account, At, TypeOK, WorkerTypeOK
<1>2. position' = position /\ loc'[w].toExit = loc[w].toExit
  BY DEF ExitRead, ExitWrite, AnalyzeRead, AnalyzeWrite, WriteOutcome, WriteBackRead, Index, IndexFails,
       ClosedRead, ClosedWrite, Account, TransitionRead, TransitionWrite, ReturnToLoop, Then, traderVars,
       TypeOK, WorkerTypeOK, Locals
<1>3. pc[w] \in ExitLabels /\ pc'[w] \in ExitLabels /\ pc'[w] # "monitor"
  BY DEF ExitRead, ExitWrite, AnalyzeRead, AnalyzeWrite, WriteOutcome, WriteBackRead, Index, IndexFails,
       ClosedRead, ClosedWrite, Account, TransitionRead, ReturnToLoop, At, Then, Goto, ExitLabels,
       TypeOK, WorkerTypeOK
<1>4. \A x \in Signals : row'[x] = "MONITORING" => row[x] = "MONITORING"
  BY DEF ExitRead, ExitWrite, AnalyzeRead, AnalyzeWrite, WriteOutcome, WriteBackRead, Index, IndexFails,
       ClosedRead, ClosedWrite, Account, TransitionRead, TransitionWrite, storeVars, TypeOK, StoreTypeOK
<1>5. \/ pc[w] \notin {"close", "exit_read", "exit_write"}
      \/ row'[s] # "MONITORING"
      \/ pc'[w] = "exit_write" /\ loc' = loc
  <2>1. CASE ExitRead(w)
    BY <1>1, <2>1 DEF ExitRead, TransitionRead, Goto, storeVars, TypeOK, WorkerTypeOK
  <2>2. CASE ExitWrite(w)
    BY <1>1, <2>2 DEF ExitWrite, TransitionWrite, TypeOK, StoreTypeOK
  <2>3. QED
    BY <2>1, <2>2 DEF AnalyzeRead, AnalyzeWrite, WriteOutcome, WriteBackRead, Index, IndexFails, ClosedRead,
         ClosedWrite, Account, At
<1>6. QED
  BY <1>1, <1>2, <1>3, <1>4, <1>5 DEF LiveInv, WillExit

LEMMA LiveSignal ==
  ASSUME NEW w \in Workers, TypeOK, TradeInv, LiveInv(w), SignalStep(w)
  PROVE  LiveInv(w)'
<1>1. ASSUME NEW s \in Signals PROVE ~WillExit(w, s)
  BY DEF SignalStep, SkipEvaluation, Evaluate, Gate, CheckApproves, CheckRejects, Approve, Register,
       MarkApproved, Submit, SubmitRaises, Monitor, PositionsHandled, At, WillExit, ExitLabels
<1>2. CASE Submit(w)
  <2>1. PICK s \in Signals : s = loc[w].sig
    BY <1>2, LabelNames DEF Submit, At, TypeOK, WorkerTypeOK
  <2>2. position' = [position EXCEPT ![s] = "OPEN"] /\ loc' = loc /\ row' = row
    BY <1>2, <2>1 DEF Submit, OpenPosition, Then, storeVars
  <2>3. QED
    BY <1>1, <2>1, <2>2 DEF LiveInv, TypeOK, TraderTypeOK
<1>3. CASE Monitor(w)
  <2>1. PICK s \in Signals : s = loc[w].sig
    BY <1>3, LabelNames DEF Monitor, At, TypeOK, WorkerTypeOK
  <2>2. row' = [row EXCEPT ![s] = "MONITORING"] /\ position' = position /\ pc'[w] = "idle"
    BY <1>3, <2>1 DEF Monitor, TransitionWrite, Return, Goto, traderVars, TypeOK, WorkerTypeOK
  <2>3. position[s] = "OPEN"
    BY <1>3, <2>1 DEF Monitor, At, LiveInv
  <2>4. QED
    BY <1>1, <2>2, <2>3 DEF LiveInv, TypeOK, StoreTypeOK
<1>4. CASE ~Submit(w) /\ ~Monitor(w)
  <2>1. position' = position /\ pc'[w] # "monitor"
    BY <1>4 DEF SignalStep, SkipEvaluation, Evaluate, Gate, CheckApproves, CheckRejects, Approve, Register,
         MarkApproved, SubmitRaises, TransitionWrite, Return, Then, Goto, traderVars, TypeOK, WorkerTypeOK
  <2>2. \A s \in Signals : row'[s] = "MONITORING" => row[s] = "MONITORING"
    BY <1>4 DEF SignalStep, SkipEvaluation, Evaluate, Gate, CheckApproves, CheckRejects, Approve, Register,
         MarkApproved, SubmitRaises, TransitionWrite, storeVars, TypeOK, StoreTypeOK
  <2>3. QED
    BY <1>1, <2>1, <2>2 DEF LiveInv
<1>5. QED
  BY <1>2, <1>3, <1>4

LEMMA LiveNext ==
  ASSUME NEW w, Workers = {w}, MaxCrashes = 0, TypeOK, TradeInv, LiveInv(w), [Next]_vars
  PROVE  LiveInv(w)'
<1>1. CASE SpotTick(w) \/ OiTick(w) \/ ExitStep(w) \/ SignalStep(w)
  BY <1>1, LiveScan, LiveBooking, LiveSignal DEF ExitStep
<1>2. ~Crash
  BY DEF Crash, TypeOK
<1>3. CASE Clock \/ UNCHANGED vars
  <2>1. UNCHANGED <<row, position, pc, loc>>
    BY <1>3 DEF Clock, vars, storeVars, traderVars
  <2>2. QED
    BY <2>1 DEF LiveInv, WillExit
<1>4. QED
  BY <1>1, <1>2, <1>3 DEF Next

\* With one thread and no restart, a row that says MONITORING has an open position,
\* or the thread is about to book its exit.
THEOREM MonitoredLive ==
  ASSUME NEW w, Workers = {w}, MaxCrashes = 0
  PROVE  Spec => []MonitoredIsLive
<1>1. Init => LiveInv(w)
  BY DEF Init, Lifecycle!LifecycleInit, LiveInv
<1>2. TypeOK /\ TradeInv /\ LiveInv(w) /\ [Next]_vars => LiveInv(w)'
  BY LiveNext
<1>3. LiveInv(w) => MonitoredIsLive
  BY DEF LiveInv, WillExit, MonitoredIsLive, Exiting, ExitLabels
<1>4. QED
  BY <1>1, <1>2, <1>3, TradeAlways, PTL DEF Spec

-----------------------------------------------------------------------------
(* One thread whose memory never fails: the daily loss.  What the circuit   *)
(* has counted is the sum over the closed positions it has yet to book none *)
(* of; that each is booked needs that no transition of its row is refused.  *)

ClosedSet == {s \in Signals : position[s] = "CLOSED"}

\* The closed positions w has yet to count.
Unbooked(w) == loc[w].toExit \cup {s \in Signals : pc[w] \in Booking /\ loc[w].sig = s}

Ledger(w) ==
  /\ IsFiniteSet(ClosedSet)
  /\ pnlDay = SumFunctionOnSet(pnl, ClosedSet \ Unbooked(w))
  /\ pc[w] \in Booking => loc[w].amount = pnl[loc[w].sig]

\* What is closed and not counted is MONITORING until its own exit is booked.
Ready(w) ==
  /\ pc[w] = "close" => position[loc[w].sig] = "OPEN"
  /\ pc[w] = "exit_read" => row[loc[w].sig] = "MONITORING"
  /\ pc[w] \notin ExitLabels => loc[w].toExit = {}
  /\ \A s \in loc[w].toExit : row[s] = "MONITORING"
  /\ \A s \in Signals :
       position[s] = "OPEN" => row[s] = "MONITORING" \/ (pc[w] = "monitor" /\ loc[w].sig = s)

LEMMA LedgerInit ==
  ASSUME NEW w \in Workers, Init
  PROVE  Ledger(w) /\ Ready(w)
<1>1. ClosedSet = {} /\ pc[w] = "idle" /\ pnlDay = 0
  BY DEF Init, TraderInit, CheckerInit, ClosedSet
<1>2. SumFunctionOnSet(pnl, ClosedSet \ Unbooked(w)) = 0
  BY <1>1, SumOfNone
<1>3. Ledger(w)
  BY <1>1, <1>2, FS_EmptySet DEF Ledger, Booking
<1>4. Ready(w)
  BY <1>1 DEF Init, TraderInit, NoLocals, Ready
<1>5. QED
  BY <1>3, <1>4

\* A step that books nothing and closes nothing.
LEMMA LedgerQuiet ==
  ASSUME NEW w \in Workers, Ledger(w), UNCHANGED <<position, pnl, pnlDay>>,
         Unbooked(w)' = Unbooked(w), pc'[w] \in Booking => loc'[w].amount = pnl[loc'[w].sig]
  PROVE  Ledger(w)'
BY DEF Ledger, ClosedSet

LEMMA LedgerScan ==
  ASSUME NEW w \in Workers, TypeOK, TradeInv, Ledger(w), Ready(w),
         SpotTick(w) \/ OiTick(w) \/ PassOver(w) \/ ResolveExit(w) \/ NextExit(w)
  PROVE  Ledger(w)' /\ Ready(w)'
<1>1. UNCHANGED <<position, pnl, pnlDay, row>>
  BY DEF SpotTick, OiTick, PassOver, ResolveExit, NextExit, storeVars, traderVars, checkerVars
<1>2. CASE SpotTick(w) \/ OiTick(w) \/ PassOver(w)
  <2>1. pc[w] \in {"idle", "tick"} /\ pc'[w] = "tick" /\ loc'[w].toExit = loc[w].toExit
    <3>1. CASE SpotTick(w) \/ OiTick(w)
      BY <3>1 DEF TypeOK, WorkerTypeOK, Locals, SpotTick, OiTick, At, Goto
    <3>2. CASE PassOver(w)
      BY <3>2 DEF TypeOK, WorkerTypeOK, Locals, PassOver, At
    <3>3. QED
      BY <1>2, <3>1, <3>2
  <2>2. Unbooked(w)' = Unbooked(w) /\ pc'[w] \notin Booking
    BY <2>1 DEF Unbooked, Booking
  <2>3. Ready(w)'
    BY <1>1, <2>1 DEF Ready, ExitLabels
  <2>4. QED
    BY <1>1, <2>2, <2>3, LedgerQuiet
<1>3. CASE ResolveExit(w)
  <2>1. PICK s \in loc[w].toScan : /\ position[s] = "OPEN"
                                   /\ loc' = [loc EXCEPT ![w].toScan = @ \ {s}, ![w].sig = s]
    BY <1>3 DEF ResolveExit
  <2>2. pc[w] = "tick" /\ pc'[w] = "close"
    BY <1>3 DEF TypeOK, WorkerTypeOK, ResolveExit, At, Goto
  <2>3. loc'[w].sig = s /\ loc'[w].toExit = loc[w].toExit
    <3>1. loc'[w] = [loc[w] EXCEPT !.toScan = @ \ {s}, !.sig = s]
      BY <2>1, Zenon DEF TypeOK, WorkerTypeOK
    <3>2. QED
      BY <3>1 DEF TypeOK, WorkerTypeOK, Locals
  <2>4. Unbooked(w)' = Unbooked(w) /\ pc'[w] \notin Booking
    BY <2>2, <2>3 DEF Unbooked, Booking
  <2>5. Ready(w)'
    BY <1>1, <2>1, <2>2, <2>3 DEF Ready, ExitLabels
  <2>6. QED
    BY <1>1, <2>4, <2>5, LedgerQuiet
<1>4. CASE NextExit(w)
  <2>1. PICK s \in loc[w].toExit :
          loc' = [loc EXCEPT ![w].toExit = @ \ {s}, ![w].sig = s, ![w].amount = pnl[s]]
    BY <1>4 DEF NextExit
  <2>2. pc[w] = "tick" /\ pc'[w] = "exit_read"
    BY <1>4 DEF TypeOK, WorkerTypeOK, NextExit, At, Goto
  <2>3. loc'[w].sig = s /\ loc'[w].amount = pnl[s] /\ loc'[w].toExit = loc[w].toExit \ {s}
    <3>1. loc'[w] = [loc[w] EXCEPT !.toExit = @ \ {s}, !.sig = s, !.amount = pnl[s]]
      BY <2>1, Zenon DEF TypeOK, WorkerTypeOK
    <3>2. QED
      BY <3>1 DEF TypeOK, WorkerTypeOK, Locals
  <2>4. Unbooked(w)' = Unbooked(w)
    <3>1. s \in Signals
      BY <2>1 DEF TypeOK, WorkerTypeOK, Locals
    <3>2. QED
      BY <2>1, <2>2, <2>3, <3>1 DEF Unbooked, Booking
  <2>5. Ready(w)'
    BY <1>1, <2>1, <2>2, <2>3 DEF Ready, ExitLabels
  <2>6. QED
    BY <1>1, <2>3, <2>4, <2>5, LedgerQuiet
<1>5. QED
  BY <1>2, <1>3, <1>4

\* The closed position joins the ones to book: what is counted stays.
LEMMA LedgerClose ==
  ASSUME NEW w \in Workers, TypeOK, TradeInv, Ledger(w), Ready(w), Close(w)
  PROVE  Ledger(w)' /\ Ready(w)'
<1>1. PICK s \in Signals : s = loc[w].sig
  BY LabelNames DEF Close, At, TypeOK, WorkerTypeOK
<1>2. PICK p \in Pnls : /\ pnl' = [pnl EXCEPT ![s] = p]
                        /\ position' = [position EXCEPT ![s] = "CLOSED"]
  BY <1>1 DEF Close, ClosePosition
<1>3. pc[w] = "close" /\ pc'[w] = "tick" /\ loc'[w].toExit = loc[w].toExit \cup {s}
  BY <1>1 DEF Close, At, Goto, TypeOK, WorkerTypeOK, Locals
<1>4. UNCHANGED <<pnlDay, row>>
  BY DEF Close, checkerVars, storeVars
<1>5. position[s] = "OPEN" /\ row[s] = "MONITORING"
  BY <1>1, <1>3 DEF Ready
<1>6. ClosedSet' = ClosedSet \cup {s} /\ s \notin ClosedSet
  BY <1>2, <1>5 DEF ClosedSet, TypeOK, TraderTypeOK
<1>7. Unbooked(w)' = Unbooked(w) \cup {s}
  BY <1>3 DEF Unbooked, Booking
<1>8. ClosedSet' \ Unbooked(w)' = ClosedSet \ Unbooked(w)
  BY <1>6, <1>7
<1>9. IsFiniteSet(ClosedSet') /\ IsFiniteSet(ClosedSet \ Unbooked(w))
  <2>1. IsFiniteSet(ClosedSet)
    BY DEF Ledger
  <2>2. QED
    BY <1>6, <2>1, FS_AddElement, FS_Subset
<1>10. \A x \in ClosedSet \ Unbooked(w) : pnl[x] \in Int /\ pnl'[x] = pnl[x]
  BY <1>2, <1>6 DEF ClosedSet, TypeOK, TraderTypeOK
<1>11. SumFunctionOnSet(pnl', ClosedSet \ Unbooked(w)) = SumFunctionOnSet(pnl, ClosedSet \ Unbooked(w))
  BY <1>9, <1>10, SumAgrees
<1>12. Ledger(w)'
  BY <1>3, <1>4, <1>8, <1>9, <1>11 DEF Ledger, Booking
<1>13. Ready(w)'
  BY <1>2, <1>3, <1>4, <1>5 DEF Ready, ExitLabels, TypeOK, TraderTypeOK
<1>14. QED
  BY <1>12, <1>13

\* A thread that finds each row as it left it goes through the whole booking.
LEMMA LedgerBooking ==
  ASSUME NEW w \in Workers, TypeOK, TradeInv, LifeInv(w), Ledger(w), Ready(w),
         \/ ExitRead(w) \/ ExitWrite(w) \/ AnalyzeRead(w) \/ AnalyzeWrite(w) \/ WriteOutcome(w)
         \/ WriteBackRead(w) \/ Index(w) \/ ClosedRead(w) \/ ClosedWrite(w)
  PROVE  Ledger(w)' /\ Ready(w)'
<1>1. PICK s \in Signals : s = loc[w].sig
  BY LabelNames DEF ExitRead, ExitWrite, AnalyzeRead, AnalyzeWrite, WriteOutcome, WriteBackRead, Index,
       ClosedRead, ClosedWrite, At, TypeOK, WorkerTypeOK
<1>2. UNCHANGED <<position, pnl, pnlDay>>
  BY DEF ExitRead, ExitWrite, AnalyzeRead, AnalyzeWrite, WriteOutcome, WriteBackRead, Index,
       ClosedRead, ClosedWrite, TransitionRead, TransitionWrite, traderVars, checkerVars
<1>3. /\ pc[w] \in Booking /\ pc'[w] \in Booking \ {"exit_read"}
      /\ loc' = loc
  <2>1. CASE ExitRead(w)
    <3>1. pc[w] = "exit_read" /\ row[loc[w].sig] = "MONITORING"
      BY <2>1 DEF ExitRead, At, Ready
    <3>2. QED
      BY <2>1, <3>1 DEF ExitRead, TransitionRead, Goto, Booking, TypeOK, WorkerTypeOK
  <2>2. CASE AnalyzeRead(w)
    <3>1. pc[w] = "analyze_read" /\ row[loc[w].sig] = "EXITED"
      BY <2>2 DEF AnalyzeRead, At, LifeInv, BookInv
    <3>2. QED
      BY <2>2, <3>1 DEF AnalyzeRead, TransitionRead, Goto, Booking, TypeOK, WorkerTypeOK
  <2>3. CASE ClosedRead(w)
    <3>1. pc[w] = "closed_read" /\ row[loc[w].sig] = "ANALYZED"
      BY <2>3 DEF ClosedRead, At, LifeInv, BookInv
    <3>2. QED
      BY <2>3, <3>1 DEF ClosedRead, TransitionRead, Goto, Booking, TypeOK, WorkerTypeOK
  <2>4. CASE \/ ExitWrite(w) \/ AnalyzeWrite(w) \/ WriteOutcome(w) \/ WriteBackRead(w) \/ Index(w)
             \/ ClosedWrite(w)
    BY <2>4 DEF ExitWrite, AnalyzeWrite, WriteOutcome, WriteBackRead, Index, ClosedWrite, At, Then, Goto,
         Booking, TypeOK, WorkerTypeOK
  <2>5. QED
    BY <2>1, <2>2, <2>3, <2>4
<1>4. Ledger(w)'
  <2>1. Unbooked(w)' = Unbooked(w)
    BY <1>3 DEF Unbooked
  <2>2. QED
    BY <1>2, <1>3, <2>1, LedgerQuiet DEF Ledger
<1>5. position[s] = "CLOSED" /\ s \notin loc[w].toExit
  BY <1>1, <1>3 DEF TradeInv, ExitInv
<1>6. \A x \in Signals \ {s} : row'[x] = row[x]
  BY <1>1 DEF ExitRead, ExitWrite, AnalyzeRead, AnalyzeWrite, WriteOutcome, WriteBackRead, Index,
       ClosedRead, ClosedWrite, TransitionRead, TransitionWrite, storeVars, TypeOK, StoreTypeOK
<1>7. pc[w] \in ExitLabels /\ pc'[w] \in ExitLabels \ {"close", "exit_read"}
  BY <1>3 DEF Booking, ExitLabels
<1>8. loc[w].toExit \subseteq Signals /\ pc[w] # "monitor"
  BY <1>3 DEF Booking, TypeOK, WorkerTypeOK, Locals
<1>9. Ready(w)'
  BY <1>2, <1>3, <1>5, <1>6, <1>7, <1>8 DEF Ready
<1>10. QED
  BY <1>4, <1>9

LEMMA LedgerAccount ==
  ASSUME NEW w \in Workers, TypeOK, TradeInv, Ledger(w), Ready(w), Account(w)
  PROVE  Ledger(w)' /\ Ready(w)'
<1>1. PICK s \in Signals : s = loc[w].sig
  BY LabelNames DEF Account, At, TypeOK, WorkerTypeOK
<1>2. UNCHANGED <<position, pnl, row>> /\ pnlDay' = pnlDay + loc[w].amount
  BY DEF Account, RecordExitPnl, traderVars, storeVars
<1>3. pc[w] = "account" /\ pc'[w] = "tick" /\ loc'[w].toExit = loc[w].toExit
  BY DEF Account, At, ReturnToLoop, Goto, TypeOK, WorkerTypeOK, Locals
<1>4. position[s] = "CLOSED" /\ s \notin loc[w].toExit /\ loc[w].amount = pnl[s]
  BY <1>1, <1>3 DEF TradeInv, ExitInv, Ledger, Booking
<1>5. ClosedSet' = ClosedSet /\ s \in ClosedSet
  BY <1>2, <1>4 DEF ClosedSet
<1>6. Unbooked(w) = loc[w].toExit \cup {s} /\ Unbooked(w)' = loc[w].toExit
  BY <1>1, <1>3 DEF Unbooked, Booking
<1>7. ClosedSet' \ Unbooked(w)' = (ClosedSet \ Unbooked(w)) \cup {s} /\ s \notin ClosedSet \ Unbooked(w)
  BY <1>4, <1>5, <1>6
<1>8. IsFiniteSet(ClosedSet) /\ IsFiniteSet(ClosedSet \ Unbooked(w))
  <2>1. IsFiniteSet(ClosedSet)
    BY DEF Ledger
  <2>2. QED
    BY <2>1, FS_Subset
<1>9. \A x \in (ClosedSet \ Unbooked(w)) \cup {s} : pnl[x] \in Int
  BY DEF ClosedSet, TypeOK, TraderTypeOK
<1>10. SumFunctionOnSet(pnl, (ClosedSet \ Unbooked(w)) \cup {s})
         = pnl[s] + SumFunctionOnSet(pnl, ClosedSet \ Unbooked(w))
  BY <1>7, <1>8, <1>9, SumAdds
<1>11. pnlDay' = SumFunctionOnSet(pnl', ClosedSet' \ Unbooked(w)')
  <2>1. pnlDay = SumFunctionOnSet(pnl, ClosedSet \ Unbooked(w))
    BY DEF Ledger
  <2>2. pnlDay \in Int /\ pnl[s] \in Int
    BY <1>9 DEF TypeOK, CheckerTypeOK
  <2>3. pnlDay' = pnl[s] + pnlDay
    BY <1>2, <1>4, <2>2
  <2>4. QED
    BY <1>2, <1>7, <1>10, <2>1, <2>3
<1>12. Ledger(w)'
  BY <1>3, <1>5, <1>8, <1>11 DEF Ledger, Booking
<1>13. Ready(w)'
  BY <1>2, <1>3 DEF Ready, ExitLabels
<1>14. QED
  BY <1>12, <1>13

\* Between the exits of one tick and the next, nothing is left to book.
LEMMA LedgerSignal ==
  ASSUME NEW w \in Workers, TypeOK, TradeInv, Ledger(w), Ready(w), SignalStep(w)
  PROVE  Ledger(w)' /\ Ready(w)'
<1>1. loc[w].toExit = {} /\ pc[w] \notin Booking /\ pc[w] # "close"
  BY DEF SignalStep, SkipEvaluation, Evaluate, Gate, CheckApproves, CheckRejects, Approve, Register,
       MarkApproved, Submit, SubmitRaises, Monitor, PositionsHandled, At, Ready, Booking, ExitLabels
<1>2. /\ pc'[w] \notin Booking \cup {"close", "exit_read"}
      /\ loc'[w].toExit = {}
  <2>1. CASE SkipEvaluation(w) \/ CheckRejects(w) \/ SubmitRaises(w) \/ Monitor(w)
    BY <2>1 DEF SkipEvaluation, CheckRejects, SubmitRaises, Monitor, Return, Goto, NoLocals, Booking,
         TypeOK, WorkerTypeOK
  <2>2. CASE Evaluate(w)
    BY <1>1, <2>2 DEF Evaluate, Return, Goto, NoLocals, Booking, TypeOK, WorkerTypeOK, Locals
  <2>3. CASE Gate(w) \/ Approve(w) \/ Register(w) \/ MarkApproved(w) \/ Submit(w)
    BY <1>1, <2>3 DEF Gate, Approve, Register, MarkApproved, Submit, Return, Then, Goto, NoLocals, Booking,
         TypeOK, WorkerTypeOK
  <2>4. CASE CheckApproves(w)
    <3>1. PICK s \in FreshSignals, d \in Directions :
            loc' = [loc EXCEPT ![w].sig = s, ![w].direction = d]
      BY <2>4 DEF CheckApproves
    <3>2. loc'[w] = [loc[w] EXCEPT !.sig = s, !.direction = d]
      BY <3>1, Zenon DEF TypeOK, WorkerTypeOK
    <3>3. loc'[w].toExit = loc[w].toExit
      BY <3>2 DEF TypeOK, WorkerTypeOK, Locals
    <3>4. pc'[w] = "approve"
      BY <2>4 DEF CheckApproves, Goto, TypeOK, WorkerTypeOK
    <3>5. QED
      BY <1>1, <3>3, <3>4 DEF Booking
  <2>5. QED
    BY <2>1, <2>2, <2>3, <2>4 DEF SignalStep
<1>3. Unbooked(w) = {} /\ Unbooked(w)' = {}
  BY <1>1, <1>2 DEF Unbooked
<1>4. UNCHANGED <<pnl, pnlDay>>
  BY DEF SignalStep, SkipEvaluation, Evaluate, Gate, CheckApproves, CheckRejects, Approve, Register,
       MarkApproved, Submit, SubmitRaises, Monitor, OpenPosition, RecordApproval, TransitionWrite,
       traderVars, checkerVars
<1>5. CASE Submit(w)
  <2>1. PICK s \in Signals : s = loc[w].sig
    BY <1>5, LabelNames DEF Submit, At, TypeOK, WorkerTypeOK
  <2>2. position[s] = "NONE" /\ position' = [position EXCEPT ![s] = "OPEN"] /\ row' = row
    BY <1>5, <2>1 DEF Submit, At, OpenPosition, storeVars, TradeInv, EntryInv
  <2>3. pc[w] = "submit" /\ pc'[w] = "monitor" /\ loc' = loc
    BY <1>5 DEF Submit, At, Then, Goto, TypeOK, WorkerTypeOK
  <2>4. ClosedSet' = ClosedSet
    BY <2>2 DEF ClosedSet, TypeOK, TraderTypeOK
  <2>5. Ledger(w)'
    BY <1>2, <1>3, <1>4, <2>4 DEF Ledger
  <2>6. Ready(w)'
    BY <1>2, <2>1, <2>2, <2>3 DEF Ready, TypeOK, TraderTypeOK
  <2>7. QED
    BY <2>5, <2>6
<1>6. CASE Monitor(w)
  <2>1. PICK s \in Signals : s = loc[w].sig
    BY <1>6, LabelNames DEF Monitor, At, TypeOK, WorkerTypeOK
  <2>2. row' = [row EXCEPT ![s] = "MONITORING"] /\ position' = position
    BY <1>6, <2>1 DEF Monitor, TransitionWrite, traderVars
  <2>3. Ledger(w)'
    BY <1>2, <1>3, <1>4, <2>2, LedgerQuiet
  <2>4. Ready(w)'
    BY <1>2, <2>1, <2>2 DEF Ready, TypeOK, StoreTypeOK
  <2>5. QED
    BY <2>3, <2>4
<1>7. CASE ~Submit(w) /\ ~Monitor(w)
  <2>1. position' = position /\ pc[w] # "monitor"
    BY <1>7 DEF SignalStep, SkipEvaluation, Evaluate, Gate, CheckApproves, CheckRejects, Approve, Register,
         MarkApproved, SubmitRaises, PositionsHandled, At, TransitionWrite, traderVars
  <2>2. \A s \in Signals : row[s] = "MONITORING" => row'[s] = "MONITORING"
    <3>1. CASE Register(w) \/ MarkApproved(w)
      <4>1. PICK s \in Signals : s = loc[w].sig
        BY <3>1, LabelNames DEF Register, MarkApproved, At, TypeOK, WorkerTypeOK
      <4>2. row[s] \in {"NONE", "SIGNAL_GENERATED"} /\ \A x \in Signals \ {s} : row'[x] = row[x]
        BY <3>1, <4>1 DEF Register, MarkApproved, At, TransitionWrite, TradeInv, EntryInv, TypeOK, StoreTypeOK
      <4>3. QED
        BY <4>2
    <3>2. CASE ~Register(w) /\ ~MarkApproved(w)
      BY <1>7, <3>2 DEF SignalStep, SkipEvaluation, Evaluate, Gate, CheckApproves, CheckRejects, Approve,
           SubmitRaises, storeVars
    <3>3. QED
      BY <3>1, <3>2
  <2>3. Ledger(w)'
    BY <1>2, <1>3, <1>4, <2>1, LedgerQuiet
  <2>4. Ready(w)'
    BY <1>2, <2>1, <2>2 DEF Ready
  <2>5. QED
    BY <2>3, <2>4
<1>8. QED
  BY <1>5, <1>6, <1>7

LEMMA LedgerNext ==
  ASSUME NEW w, Workers = {w}, ~MemoryMayFail,
         TypeOK, TradeInv, LifeInv(w), Ledger(w), Ready(w), [Next]_vars
  PROVE  Ledger(w)' /\ Ready(w)'
<1>1. CASE SpotTick(w) \/ OiTick(w) \/ ExitStep(w) \/ SignalStep(w)
  BY <1>1, LedgerScan, LedgerClose, LedgerBooking, LedgerAccount, LedgerSignal DEF ExitStep, IndexFails
<1>2. CASE Crash
  <2>1. /\ pc'[w] = "idle" /\ loc'[w] = NoLocals /\ pnlDay' = 0
        /\ \A s \in Signals : position'[s] = "NONE"
    BY <1>2 DEF Crash
  <2>2. ClosedSet' = {}
    BY <2>1 DEF ClosedSet
  <2>3. SumFunctionOnSet(pnl', ClosedSet' \ Unbooked(w)') = 0
    BY <2>2, SumOfNone
  <2>4. Ledger(w)'
    BY <2>1, <2>2, <2>3, FS_EmptySet DEF Ledger, Booking
  <2>5. Ready(w)'
    BY <2>1 DEF Ready, NoLocals
  <2>6. QED
    BY <2>4, <2>5
<1>3. CASE Clock \/ UNCHANGED vars
  <2>1. UNCHANGED <<row, position, pnl, pnlDay, pc, loc>>
    BY <1>3 DEF Clock, vars, storeVars, traderVars, checkerVars
  <2>2. QED
    BY <2>1 DEF Ledger, Ready, ClosedSet, Unbooked
<1>4. QED
  BY <1>1, <1>2, <1>3 DEF Next

\* With nothing left to book, the circuit's sum is that of the closed positions.
LEMMA LedgerSettled ==
  ASSUME NEW w \in Workers, Ledger(w), Ready(w), pc[w] \notin ExitLabels
  PROVE  pnlDay = ClosedPnl
<1>1. Unbooked(w) = {}
  BY DEF Unbooked, Ready, Booking, ExitLabels
<1>2. ClosedSet \ Unbooked(w) = ClosedSet
  BY <1>1
<1>3. QED
  BY <1>2 DEF Ledger, ClosedPnl, ClosedSet

\* With one thread and a memory that does not fail, across restarts, the Rule-D
\* circuit has counted every closed position once when the exits are booked.
THEOREM EveryLossCounted ==
  ASSUME NEW w, Workers = {w}, ~MemoryMayFail
  PROVE  Spec => []LossAccounted
<1>1. Init => LifeInv(w) /\ Ledger(w) /\ Ready(w)
  BY LifeInit, LedgerInit
<1>2. TypeOK /\ TradeInv /\ LifeInv(w) /\ Ledger(w) /\ Ready(w) /\ [Next]_vars
        => LifeInv(w)' /\ Ledger(w)' /\ Ready(w)'
  BY LifeNext, LedgerNext
<1>3. Ledger(w) /\ Ready(w) => LossAccounted
  BY LedgerSettled DEF LossAccounted
<1>4. QED
  BY <1>1, <1>2, <1>3, TradeAlways, PTL DEF Spec

\* With one thread and a memory that does not fail, across restarts, the Checker
\* approves no signal once the closed positions have lost the daily maximum.
THEOREM CircuitRespected ==
  ASSUME NEW u, Workers = {u}, ~MemoryMayFail
  PROVE  Spec => EntryRespectsCircuit
<1>1. TypeOK /\ LossAccounted /\ [Next]_vars
        => [\A w \in Workers :
              pc[w] = "maker" /\ pc'[w] = "approve" => ClosedPnl > -MaxDailyLoss]_vars
  <2>1. SUFFICES ASSUME TypeOK, LossAccounted, Next, pc[u] = "maker", pc'[u] = "approve"
                 PROVE  ClosedPnl > -MaxDailyLoss
    OBVIOUS
  <2>2. CheckApproves(u)
    BY <2>1 DEF Next, SpotTick, OiTick, ExitStep, PassOver, ResolveExit, Close, NextExit, ExitRead, ExitWrite,
         AnalyzeRead, AnalyzeWrite, WriteOutcome, WriteBackRead, Index, IndexFails, ClosedRead, ClosedWrite,
         Account, SignalStep, SkipEvaluation, Evaluate, Gate, CheckRejects, Approve, Register, MarkApproved,
         Submit, SubmitRaises, Monitor, Clock, Crash, At, Return, Goto, TypeOK, WorkerTypeOK
  <2>3. pnlDay > -MaxDailyLoss
    BY <2>2 DEF CheckApproves, ChecksPass, RuleD
  <2>4. pnlDay = ClosedPnl
    BY <2>1 DEF LossAccounted, ExitLabels
  <2>5. QED
    BY <2>3, <2>4
<1>2. Spec => []LossAccounted
  BY EveryLossCounted
<1>3. QED
  BY <1>1, <1>2, TypeCorrect, PTL DEF Spec, EntryRespectsCircuit

===============================================================================
