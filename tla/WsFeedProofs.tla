----------------------------- MODULE WsFeedProofs -----------------------------
(* Theorems about WsFeed and FeedHealth, for any keys, tolerances, idle times *)
(* and queue.                                                                *)
EXTENDS FeedHealth, TLAPS

\* A key that is wedged takes no tick, whatever its age and value.
LEMMA WedgedRejects ==
  ASSUME ValidatorTypeOK, NEW t \in Ticks, t.key \in Keys, Wedged(t.key)
  PROVE  ~Accepts(t)
BY ValidatorAssumption
   DEF ValidatorAssumption, ValidatorTypeOK, Ticks, Ages, Wedged, Accepts, IsStale, IsOutOfOrder

LEMMA OlderAges ==
  /\ \A a \in Ages : Older(a) \in Ages /\ Older(a) >= a
  /\ \A a, b \in Ages : a >= b => Older(a) >= Older(b)
BY ValidatorAssumption DEF ValidatorAssumption, Ages, Older

-----------------------------------------------------------------------------
(* Type correctness.  That a received item is a tick rests on the queue of *)
(* a live connection holding no sentinel, so the two are proved together.  *)

QueueTypeOK == queue \in Seq(Ticks \cup {Closed})

LEMMA PushTyped ==
  ASSUME TypeOK, NEW k \in Keys, Push(k)
  PROVE  TypeOK'
<1>1. PICK age \in 0 .. tradeAge[k], v \in Values :
        /\ queue' = Append(queue, [key |-> k, age |-> age, val |-> v])
        /\ tradeAge' = [tradeAge EXCEPT ![k] = age]
  BY DEF Push
<1>2. age \in Ages
  BY ValidatorAssumption DEF ValidatorAssumption, TypeOK, Ages
<1>3. [key |-> k, age |-> age, val |-> v] \in Ticks
  BY <1>2 DEF Ticks
<1>4. QueueTypeOK'
  BY <1>1, <1>3 DEF TypeOK, QueueTypeOK
<1>5. tradeAge' \in [Keys -> Ages]
  BY <1>1, <1>2 DEF TypeOK
<1>6. QED
  BY <1>4, <1>5 DEF TypeOK, QueueTypeOK, ValidatorTypeOK, Push, feedVars

LEMMA ProcessTyped ==
  ASSUME TypeOK, Process
  PROVE  TypeOK'
<1>1. tick \in Ticks
  BY DEF TypeOK, Process
<1>2. ValidatorTypeOK'
  BY <1>1, NoTickAssumption
     DEF NoTickAssumption, TypeOK, ValidatorTypeOK, Process, Validate, Ticks
<1>3. stage' \in Stages /\ tick' \in Ticks \cup {None}
      /\ (stage' \in {"received", "handling"} => tick' # None)
  BY <1>1, NoTickAssumption DEF NoTickAssumption, Process, Stages
<1>4. QED
  BY <1>2, <1>3 DEF TypeOK, Process, transportVars, worldVars

LEMMA LoopTyped ==
  ASSUME TypeOK, NoStaleSentinel, LoopStep
  PROVE  TypeOK'
<1>1. CASE Connect \/ BackfillDone \/ Wait \/ Timeout
  <2>1. QueueTypeOK'
    <3>1. CASE Connect
      BY <3>1 DEF QueueTypeOK, Connect
    <3>2. CASE BackfillDone \/ Wait \/ Timeout
      BY <3>2 DEF TypeOK, QueueTypeOK, BackfillDone, Wait, Timeout, transportVars
    <3>3. QED
      BY <1>1, <3>1, <3>2
  <2>2. markAge' \in Ages /\ waitAge' \in Ages
    BY <1>1, ValidatorAssumption
       DEF ValidatorAssumption, Ages, TypeOK, Connect, BackfillDone, Wait, Timeout
  <2>3. closed' \in BOOLEAN
    BY <1>1, Zenon DEF TypeOK, Connect, BackfillDone, Wait, Timeout, transportVars
  <2>4. stage' \in Stages \ {"received", "handling"}
    BY <1>1 DEF Connect, BackfillDone, Wait, Timeout, Enter, Stages
  <2>5. ValidatorTypeOK' /\ tick' \in Ticks \cup {None} /\ tradeAge' \in [Keys -> Ages]
    BY <1>1 DEF TypeOK, ValidatorTypeOK, Connect, BackfillDone, Wait, Timeout, worldVars
  <2>6. open' \in BOOLEAN
    BY <1>1, Zenon DEF TypeOK, Connect, BackfillDone, Wait, Timeout, worldVars
  <2>7. QED
    BY <2>1, <2>2, <2>3, <2>4, <2>5, <2>6 DEF TypeOK, QueueTypeOK
<1>2. CASE WatchdogCloses
  <2>1. QueueTypeOK'
    BY <1>2 DEF TypeOK, QueueTypeOK, WatchdogCloses
  <2>2. QED
    BY <1>2, <2>1 DEF TypeOK, QueueTypeOK, ValidatorTypeOK, WatchdogCloses, Enter, Stages,
                      worldVars
<1>3. CASE Receive
  <2>1. QueueTypeOK' /\ Head(queue) = queue[1] /\ 1 \in DOMAIN queue
        /\ queue[1] \in Ticks \cup {Closed}
    BY <1>3 DEF TypeOK, QueueTypeOK, Receive
  <2>2. tick' \in Ticks
    BY <1>3, <2>1 DEF NoStaleSentinel, Receive, Enter
  <2>3. markAge' \in Ages
    BY <1>3, ValidatorAssumption DEF ValidatorAssumption, Ages, Receive
  <2>4. QED
    BY <1>3, <2>1, <2>2, <2>3, NoTickAssumption
       DEF NoTickAssumption, TypeOK, QueueTypeOK, ValidatorTypeOK, Receive, Enter, Stages,
           worldVars
<1>4. CASE Process
  BY <1>4, ProcessTyped
<1>5. CASE ProcessReturns \/ ProcessRaises
  BY <1>5 DEF TypeOK, ValidatorTypeOK, ProcessReturns, ProcessRaises, Enter, Stages,
              transportVars, worldVars
<1>6. QED
  BY <1>1, <1>2, <1>3, <1>4, <1>5 DEF LoopStep
LEMMA AgedItems ==
  /\ \A t \in Ticks : /\ Aged(t) \in Ticks
                      /\ Aged(t).key = t.key /\ Aged(t).age = Older(t.age)
  /\ Aged(Closed) = Closed /\ \A t \in Ticks : Aged(t) # Closed
BY OlderAges, FeedAssumption DEF FeedAssumption, Aged, Ticks

LEMMA ClockTyped ==
  ASSUME TypeOK, Clock
  PROVE  TypeOK'
<1>1. ValidatorTypeOK'
  <2>1. ASSUME NEW k \in Keys, prev[k] # None
        PROVE  prev'[k] \in Ticks /\ prev'[k].key = k
    BY <2>1, OlderAges DEF TypeOK, ValidatorTypeOK, Clock, PrevAges, Ticks
  <2>2. QED
    BY <2>1 DEF Clock, PrevAges, ValidatorTypeOK
<1>2. QueueTypeOK'
  <2>1. \A i \in 1 .. Len(queue) : queue[i] \in Ticks \cup {Closed}
    BY DEF TypeOK
  <2>2. \A i \in 1 .. Len(queue) : Aged(queue[i]) \in Ticks \cup {Closed}
    BY <2>1, AgedItems
  <2>3. queue' = [i \in 1 .. Len(queue) |-> Aged(queue[i])] /\ Len(queue) \in Nat
    BY DEF TypeOK, Clock
  <2>4. QED
    BY <2>2, <2>3 DEF QueueTypeOK
<1>3. tick' \in Ticks \cup {None} /\ (tick # None => tick' # None)
  BY AgedItems, NoTickAssumption DEF NoTickAssumption, TypeOK, Clock
<1>4. markAge' \in Ages /\ waitAge' \in Ages /\ tradeAge' \in [Keys -> Ages]
  BY OlderAges DEF TypeOK, Clock
<1>5. QED
  BY <1>1, <1>2, <1>3, <1>4 DEF TypeOK, QueueTypeOK, Clock

LEMMA EnvironmentTyped ==
  ASSUME TypeOK, Restart \/ MarketOpensOrCloses \/ UNCHANGED vars
  PROVE  TypeOK'
<1>1. CASE Restart
  <2>1. QueueTypeOK'
    BY <1>1 DEF Restart, QueueTypeOK
  <2>2. markAge' \in Ages /\ waitAge' \in Ages
    BY <1>1, ValidatorAssumption DEF ValidatorAssumption, Ages, Restart
  <2>3. ValidatorTypeOK'
    BY <1>1 DEF Restart, ValidatorTypeOK
  <2>4. QED
    BY <1>1, <2>1, <2>2, <2>3 DEF TypeOK, QueueTypeOK, Restart, Stages, worldVars
<1>2. CASE MarketOpensOrCloses
  <2>1. open' \in BOOLEAN
    BY <1>2, Zenon DEF MarketOpensOrCloses
  <2>2. QED
    BY <1>2, <2>1 DEF TypeOK, ValidatorTypeOK, MarketOpensOrCloses, feedVars, transportVars
<1>3. CASE UNCHANGED vars
  BY <1>3 DEF TypeOK, ValidatorTypeOK, vars, feedVars, transportVars, worldVars
<1>4. QED
  BY <1>1, <1>2, <1>3

LEMMA SentinelNext ==
  ASSUME TypeOK, NoStaleSentinel, [Next]_vars
  PROVE  NoStaleSentinel'
<1>1. CASE \E k \in Keys : Push(k)
  <2>1. PICK k \in Keys : Push(k)
    BY <1>1
  <2>2. PICK age \in 0 .. tradeAge[k], v \in Values :
          queue' = Append(queue, [key |-> k, age |-> age, val |-> v])
    BY <2>1 DEF Push
  <2>3. [key |-> k, age |-> age, val |-> v] # Closed
    <3>1. age \in Ages
      BY ValidatorAssumption DEF ValidatorAssumption, TypeOK, Ages
    <3>2. QED
      BY <3>1, FeedAssumption DEF FeedAssumption, Ticks
  <2>4. stage' = stage /\ stage # "down"
    BY <2>1 DEF Push, feedVars
  <2>5. QED
    BY <2>2, <2>3, <2>4 DEF NoStaleSentinel, TypeOK
<1>2. CASE LoopStep
  <2>1. CASE Connect
    BY <2>1 DEF NoStaleSentinel, Connect
  <2>2. CASE WatchdogCloses \/ ProcessRaises
    BY <2>2 DEF NoStaleSentinel, WatchdogCloses, ProcessRaises, Enter
  <2>3. CASE Receive
    BY <2>3 DEF NoStaleSentinel, Receive, Enter, TypeOK
  <2>4. CASE BackfillDone \/ Wait \/ Timeout \/ Process \/ ProcessReturns
    BY <2>4 DEF NoStaleSentinel, BackfillDone, Wait, Timeout, Process, ProcessReturns, Enter,
                transportVars
  <2>5. QED
    BY <1>2, <2>1, <2>2, <2>3, <2>4 DEF LoopStep
<1>3. CASE Restart
  BY <1>3 DEF NoStaleSentinel, Restart
<1>4. CASE MarketOpensOrCloses \/ UNCHANGED vars
  BY <1>4 DEF NoStaleSentinel, MarketOpensOrCloses, vars, feedVars, transportVars
<1>5. CASE Clock
  <2>1. \A i \in DOMAIN queue : queue[i] \in Ticks \cup {Closed}
    BY DEF TypeOK
  <2>2. QED
    BY <1>5, <2>1, AgedItems DEF NoStaleSentinel, Clock
<1>6. QED
  BY <1>1, <1>2, <1>3, <1>4, <1>5 DEF Next

LEMMA FeedNext == TypeOK /\ NoStaleSentinel /\ [Next]_vars => TypeOK' /\ NoStaleSentinel'
BY PushTyped, LoopTyped, ClockTyped, EnvironmentTyped, SentinelNext DEF Next

LEMMA FeedInit == Init => TypeOK /\ NoStaleSentinel
<1> SUFFICES ASSUME Init PROVE TypeOK /\ NoStaleSentinel
  OBVIOUS
<1>1. QueueTypeOK
  BY DEF Init, QueueTypeOK
<1>2. Horizon \in Ages /\ 0 \in Ages
  BY ValidatorAssumption DEF ValidatorAssumption, Ages
<1>3. QED
  BY <1>1, <1>2 DEF Init, ValidatorInit, TypeOK, QueueTypeOK, ValidatorTypeOK, Stages,
                    NoStaleSentinel

\* Every variable keeps its type, and what the loop receives is a tick.
THEOREM TypeCorrect == Spec => []TypeOK
BY FeedInit, FeedNext, PTL DEF Spec

\* A reconnect never meets the sentinel of the close() before it, so close()
\* ends one connection only.
THEOREM SentinelFresh == Spec => []NoStaleSentinel
BY FeedInit, FeedNext, PTL DEF Spec
-----------------------------------------------------------------------------
(* Wedged keys.                                                            *)

\* Nothing but a restart or an accepted tick makes the last tick of a key
\* younger, and a wedged key accepts none.
LEMMA WedgedStep ==
  ASSUME TypeOK, NEW k \in Keys, Wedged(k), [Next]_vars
  PROVE  Wedged(k)' \/ prev'[k] = None
<1>1. prev[k] \in Ticks /\ prev[k].age > MaxAge[k] + Skew[k] /\ prev[k] # None
  BY DEF TypeOK, ValidatorTypeOK, Wedged
<1>2. CASE prev' = prev
  BY <1>1, <1>2 DEF Wedged
<1>3. CASE Process
  <2>1. tick \in Ticks
    BY <1>3 DEF TypeOK, Process
  <2>2. CASE tick.key = k
    <3>1. ~Accepts(tick)
      BY <2>1, <2>2, WedgedRejects DEF TypeOK
    <3>2. QED
      BY <1>2, <1>3, <3>1 DEF Process, Validate
  <2>3. CASE tick.key # k
    <3>1. prev'[k] = prev[k]
      BY <1>3, <2>1, <2>3 DEF Process, Validate, TypeOK, ValidatorTypeOK, Ticks
    <3>2. QED
      BY <1>1, <3>1 DEF Wedged
  <2>4. QED
    BY <2>2, <2>3
<1>4. CASE Restart
  BY <1>4 DEF Restart
<1>5. CASE Clock
  <2>1. prev'[k] = [prev[k] EXCEPT !.age = Older(@)]
    BY <1>1, <1>5 DEF Clock, PrevAges
  <2>2. prev'[k].age = Older(prev[k].age) /\ prev'[k] \in Ticks
    BY <1>1, <2>1, OlderAges DEF Ticks
  <2>3. Older(prev[k].age) >= prev[k].age /\ prev[k].age \in Nat /\ Older(prev[k].age) \in Nat
    BY <1>1, OlderAges DEF Ticks, Ages
  <2>4. MaxAge[k] \in Nat /\ Skew[k] \in Nat
    BY ValidatorAssumption DEF ValidatorAssumption
  <2>5. QED
    BY <1>1, <2>2, <2>3, <2>4, NoTickAssumption DEF NoTickAssumption, Wedged
<1>6. QED
  <2>1. CASE (\E j \in Keys : Push(j)) \/ MarketOpensOrCloses \/ UNCHANGED vars
    BY <1>2, <2>1 DEF Push, MarketOpensOrCloses, vars
  <2>2. CASE LoopStep /\ ~Process
    BY <1>2, <2>2 DEF LoopStep, Connect, BackfillDone, WatchdogCloses, Wait, Timeout, Receive,
                      ProcessReturns, ProcessRaises
  <2>3. QED
    BY <1>3, <1>4, <1>5, <2>1, <2>2 DEF Next

\* A key whose last accepted tick is older than both tolerances together is
\* dead until the pipeline is restarted: no reconnect brings it back.
THEOREM WedgedStays == Spec => WedgedUntilRestart
<1>1. TypeOK /\ [Next]_vars => [\A k \in Keys : Wedged(k) => Wedged(k)' \/ prev'[k] = None]_vars
  BY WedgedStep
<1>2. QED
  BY <1>1, TypeCorrect, PTL DEF Spec, WedgedUntilRestart

\* Whatever the validator accepted was received before the watchdog's mark, so
\* its age is at least the mark's.
MarkInv ==
  /\ \A k \in Keys : prev[k] # None => prev[k].age >= markAge
  /\ stage = "received" => tick.age >= markAge

LEMMA MarkNext ==
  ASSUME TypeOK, NoStaleSentinel, MarkInv, [Next]_vars
  PROVE  MarkInv'
<1>1. CASE UNCHANGED <<prev, markAge, tick>> /\ (stage' = "received" => stage = "received")
  BY <1>1 DEF MarkInv
<1>2. CASE Connect \/ Receive
  <2>1. prev' = prev /\ markAge' = 0
    BY <1>2 DEF Connect, Receive
  <2>2. \A k \in Keys : prev[k] # None => prev[k].age >= 0
    BY DEF TypeOK, ValidatorTypeOK, Ticks, Ages
  <2>3. stage' = "received" => tick' \in Ticks
    <3>1. TypeOK'
      BY <1>2, LoopTyped DEF LoopStep
    <3>2. QED
      BY <3>1 DEF TypeOK
  <2>4. QED
    BY <2>1, <2>2, <2>3 DEF MarkInv, Ticks, Ages
<1>3. CASE Process
  <2>1. tick \in Ticks /\ tick.age >= markAge
    BY <1>3 DEF TypeOK, MarkInv, Process
  <2>2. markAge' = markAge /\ stage' # "received"
    BY <1>3 DEF Process
  <2>3. ASSUME NEW k \in Keys, prev'[k] # None
        PROVE  prev'[k].age >= markAge
    <3>1. prev'[k] = prev[k] \/ prev'[k] = tick
      BY <1>3 DEF Process, Validate, TypeOK, ValidatorTypeOK
    <3>2. QED
      BY <2>1, <2>3, <3>1 DEF MarkInv
  <2>4. QED
    BY <2>2, <2>3 DEF MarkInv
<1>4. CASE Restart
  BY <1>4 DEF Restart, MarkInv
<1>5. CASE Clock
  <2>1. markAge \in Ages /\ markAge' = Older(markAge) /\ stage' = stage
    BY <1>5 DEF TypeOK, Clock
  <2>2. ASSUME NEW k \in Keys, prev'[k] # None
        PROVE  prev'[k].age >= markAge'
    <3>1. prev[k] # None /\ prev[k] \in Ticks /\ prev'[k] = [prev[k] EXCEPT !.age = Older(@)]
      BY <1>5, <2>2 DEF TypeOK, ValidatorTypeOK, Clock, PrevAges
    <3>2. prev[k].age \in Ages /\ prev'[k].age = Older(prev[k].age) /\ prev[k].age >= markAge
      BY <3>1 DEF Ticks, MarkInv
    <3>3. QED
      BY <2>1, <3>2, OlderAges
  <2>3. stage' = "received" => tick'.age >= markAge'
    <3>1. stage' = "received" => tick \in Ticks /\ tick # None /\ tick.age >= markAge
      BY <2>1 DEF TypeOK, MarkInv
    <3>2. stage' = "received" => tick'.age = Older(tick.age) /\ tick.age \in Ages
      BY <1>5, <3>1, AgedItems DEF Clock, Ticks
    <3>3. QED
      BY <2>1, <3>1, <3>2, OlderAges
  <2>4. QED
    BY <2>2, <2>3 DEF MarkInv
<1>6. QED
  <2>1. CASE (\E j \in Keys : Push(j)) \/ MarketOpensOrCloses \/ UNCHANGED vars
    BY <1>1, <2>1 DEF Push, MarketOpensOrCloses, vars, feedVars
  <2>2. CASE BackfillDone \/ WatchdogCloses \/ Wait \/ Timeout
    BY <1>1, <2>2 DEF BackfillDone, WatchdogCloses, Wait, Timeout, Enter
  <2>3. CASE ProcessReturns \/ ProcessRaises
    BY <2>3 DEF ProcessReturns, ProcessRaises, Enter, MarkInv
  <2>4. QED
    BY <1>2, <1>3, <1>4, <1>5, <2>1, <2>2, <2>3 DEF Next, LoopStep

\* The watchdog reconnects only when the last tick of every key is older than
\* its idle time; with tolerances that end by then each of those keys is wedged.
THEOREM ReconnectIsTooLate == Spec => ReconnectTooLate
<1>1. Init => MarkInv
  BY DEF Init, ValidatorInit, MarkInv
<1>2. TypeOK /\ MarkInv /\ [Next]_vars =>
        [\A k \in Keys :
           WatchdogCloses /\ MaxAge[k] + Skew[k] <= Idle => prev[k] = None \/ Wedged(k)]_vars
  <2>1. SUFFICES ASSUME TypeOK, MarkInv, WatchdogCloses, NEW k \in Keys,
                        MaxAge[k] + Skew[k] <= Idle, prev[k] # None
                 PROVE  Wedged(k)
    OBVIOUS
  <2>2. markAge > Idle /\ prev[k].age >= markAge
    BY <2>1 DEF WatchdogCloses, WatchdogExpired, MarkInv
  <2>3. prev[k].age \in Int /\ markAge \in Int /\ Idle \in Int
        /\ MaxAge[k] \in Int /\ Skew[k] \in Int
    BY <2>1, ValidatorAssumption, FeedAssumption
       DEF ValidatorAssumption, FeedAssumption, TypeOK, ValidatorTypeOK, Ticks, Ages
  <2>4. QED
    BY <2>1, <2>2, <2>3 DEF Wedged
<1>3. QED
  BY <1>1, <1>2, FeedInit, FeedNext, MarkNext, PTL DEF Spec, ReconnectTooLate

-----------------------------------------------------------------------------
(* What the registry knows.                                                *)

LEMMA HealthStep == [HealthNext]_allVars => [Next]_vars
BY DEF HealthNext, ProcessCounts, RestartCounts, HealthClock, Uncounted, allVars, Next, LoopStep

\* Watching changes nothing: every theorem about the feed holds of the watched one.
THEOREM HealthOnlyWatches == HealthSpec => Spec
BY HealthStep, PTL DEF HealthSpec, HealthInit, Spec

\* What was accepted last of a key was counted, and was no younger then.
CountInv ==
  /\ lastTickAge \in Ages \cup {None}
  /\ \A k \in Keys : prev[k] # None => lastTickAge # None /\ prev[k].age >= lastTickAge

LEMMA CountNext == TypeOK /\ CountInv /\ [HealthNext]_allVars => CountInv'
<1> SUFFICES ASSUME TypeOK, CountInv, [HealthNext]_allVars PROVE CountInv'
  OBVIOUS
<1>1. 0 \in Ages /\ Ages \subseteq Nat /\ None \notin Ages
  BY ValidatorAssumption, HealthAssumption DEF ValidatorAssumption, HealthAssumption, Ages
<1>2. ASSUME UNCHANGED <<prev, lastTickAge>> PROVE CountInv'
  BY <1>2 DEF CountInv
<1>3. CASE ProcessCounts
  <2>1. tick \in Ticks /\ tick.key \in Keys /\ tick.age \in Nat
    BY <1>1, <1>3 DEF ProcessCounts, Process, TypeOK, Ticks
  <2>2. CASE Accepts(tick)
    <3>1. prev' = [prev EXCEPT ![tick.key] = tick] /\ lastTickAge' = 0
      BY <1>3, <2>2 DEF ProcessCounts, Process, Validate, Counts
    <3>2. ASSUME NEW k \in Keys, prev'[k] # None PROVE prev'[k].age \in Nat
      BY <1>1, <2>1, <3>1, <3>2 DEF TypeOK, ValidatorTypeOK, Ticks
    <3>3. QED
      BY <1>1, <3>1, <3>2 DEF CountInv
  <2>3. CASE ~Accepts(tick)
    BY <1>2, <1>3, <2>3 DEF ProcessCounts, Process, Validate, Counts
  <2>4. QED
    BY <2>2, <2>3
<1>4. CASE RestartCounts
  <2>1. lastTickAge' \in {0, lastTickAge} /\ \A k \in Keys : prev'[k] = None
    BY <1>4 DEF RestartCounts, Restart, Counts
  <2>2. QED
    BY <1>1, <2>1 DEF CountInv
<1>5. CASE HealthClock
  <2>1. /\ prev' = [k \in Keys |-> IF prev[k] = None THEN None ELSE [prev[k] EXCEPT !.age = Older(prev[k].age)]]
        /\ lastTickAge' = IF lastTickAge = None THEN None ELSE Older(lastTickAge)
    BY <1>5 DEF HealthClock, Clock, PrevAges
  <2>2. lastTickAge' \in Ages \cup {None}
    BY <2>1, OlderAges DEF CountInv
  <2>3. ASSUME NEW k \in Keys, prev'[k] # None
        PROVE  lastTickAge' # None /\ prev'[k].age >= lastTickAge'
    <3>1. prev[k] # None /\ prev'[k] = [prev[k] EXCEPT !.age = Older(prev[k].age)]
      BY <2>1, <2>3
    <3>2. prev[k] \in Ticks /\ lastTickAge \in Ages /\ lastTickAge # None /\ prev[k].age >= lastTickAge
      BY <3>1 DEF TypeOK, ValidatorTypeOK, CountInv
    <3>3. prev[k].age \in Ages /\ prev'[k].age = Older(prev[k].age) /\ lastTickAge' = Older(lastTickAge)
      BY <2>1, <3>1, <3>2 DEF Ticks
    <3>4. QED
      BY <1>1, <3>2, <3>3, OlderAges
  <2>4. QED
    BY <2>2, <2>3 DEF CountInv
<1>6. \/ ProcessCounts \/ RestartCounts \/ HealthClock
      \/ UNCHANGED <<prev, lastTickAge>>
  BY DEF HealthNext, Uncounted, Connect, WatchdogCloses, ProcessRaises, MarketOpensOrCloses, BackfillDone, Wait,
         Timeout, Receive, ProcessReturns, Push, vars, allVars
<1>7. QED
  BY <1>2, <1>3, <1>4, <1>5, <1>6

\* Every variable of the watched feed keeps its type, and so does the age of the last tick.
THEOREM HealthTypeCorrect == HealthSpec => []HealthTypeOK
<1>1. HealthInit => TypeOK /\ NoStaleSentinel /\ CountInv
  BY FeedInit DEF HealthInit, Init, ValidatorInit, CountInv
<1>2. TypeOK /\ NoStaleSentinel /\ [HealthNext]_allVars => TypeOK' /\ NoStaleSentinel'
  BY HealthStep, FeedNext
<1>3. TypeOK /\ CountInv => HealthTypeOK
  BY DEF CountInv, HealthTypeOK
<1>4. QED
  BY <1>1, <1>2, <1>3, CountNext, PTL DEF HealthSpec

\* Who is alarmed must restart the pipeline: no key can take a tick any more.
THEOREM AlarmIsFinal == HealthSpec => []AlarmNeedsRestart
<1>1. HealthInit => TypeOK /\ NoStaleSentinel /\ CountInv
  BY FeedInit DEF HealthInit, Init, ValidatorInit, CountInv
<1>2. TypeOK /\ NoStaleSentinel /\ [HealthNext]_allVars => TypeOK' /\ NoStaleSentinel'
  BY HealthStep, FeedNext
<1>3. TypeOK /\ CountInv => AlarmNeedsRestart
  <2> SUFFICES ASSUME TypeOK, CountInv, OpsExpired, NEW k \in Keys,
                      MaxAge[k] + Skew[k] <= OpsIdle, prev[k] # None
               PROVE  prev[k].age > MaxAge[k] + Skew[k]
    BY DEF AlarmNeedsRestart, Wedged
  <2>1. prev[k].age \in Int /\ lastTickAge \in Int /\ OpsIdle \in Int /\ MaxAge[k] \in Int /\ Skew[k] \in Int
    BY ValidatorAssumption, HealthAssumption
       DEF ValidatorAssumption, HealthAssumption, TypeOK, ValidatorTypeOK, Ticks, Ages, CountInv, OpsExpired
  <2>2. QED
    BY <2>1 DEF CountInv, OpsExpired
<1>4. QED
  BY <1>1, <1>2, <1>3, CountNext, PTL DEF HealthSpec
=============================================================================
