-------------------------------- MODULE WsFeed --------------------------------
(***************************************************************************)
(* The websocket feed: the loop of core/websocket_client.py over the queue *)
(* of core/breeze_transport.py, handing each tick to core/tick_pipeline.py *)
(* in a thread it waits for.  The socket's own thread fills the queue, the *)
(* exchange and the market hours are the environment.                      *)
(***************************************************************************)
EXTENDS TickValidator, Sequences

CONSTANTS Idle,     \* TICK_WATCHDOG_IDLE_SECONDS
          Closed,   \* the None that close() queues
          MaxQueue  \* bound on the queue, which has none in the code

ASSUME FeedAssumption ==
  /\ Idle \in Nat /\ Idle < Horizon /\ MaxQueue \in Nat
  /\ Closed \notin Ticks /\ Closed # None

VARIABLES stage,     \* where run() is, see Stages
          tick,      \* the tick the handler thread has, or None
          markAge,   \* age of _last_tick_time
          waitAge,   \* age of the wait_for in _receive_loop
          queue,     \* the transport's queue
          closed,    \* the transport's _closed
          tradeAge,  \* tradeAge[k]: age of the last trade the exchange told of
          open       \* market_status() = "OPEN"

feedVars == <<stage, tick, markAge, waitAge>>
transportVars == <<queue, closed>>
worldVars == <<tradeAge, open>>
vars == <<prev, feedVars, transportVars, worldVars>>

\* down: before a (re)connect, backfill: connected, its callback running,
\* loop: at the top of _receive_loop, receive: in wait_for, received: the
\* handler thread is to start, handling: it has validated the tick.
Stages == {"down", "backfill", "loop", "receive", "received", "handling"}

Init ==
  /\ ValidatorInit
  /\ stage = "down" /\ tick = None
  /\ markAge = Horizon /\ waitAge = 0
  /\ queue = <<>> /\ closed = FALSE
  /\ tradeAge = [k \in Keys |-> Horizon] /\ open = FALSE

Enter(from, to) == stage = from /\ stage' = to

-----------------------------------------------------------------------------
(* The socket's thread: _on_ticks queues a quote of a subscribed key, with *)
(* the time of its last trade, as long as the transport is not closed.     *)
(* What it queues before connect() drains the queue is left out.           *)

Push(k) ==
  /\ stage # "down" /\ ~closed /\ Len(queue) < MaxQueue
  /\ \E age \in 0 .. tradeAge[k], v \in Values :
       /\ queue' = Append(queue, [key |-> k, age |-> age, val |-> v])
       /\ tradeAge' = [tradeAge EXCEPT ![k] = age]
  /\ UNCHANGED <<prev, feedVars, closed, open>>

-----------------------------------------------------------------------------
(* run() and _receive_loop.                                                *)

\* Mutants of Connect: the queue is not drained, _closed is not reset.
ConnectKeepsQueue ==
  /\ Enter("down", "backfill")
  /\ closed' = FALSE /\ markAge' = 0
  /\ UNCHANGED <<prev, tick, waitAge, queue, worldVars>>

ConnectStaysClosed ==
  /\ Enter("down", "backfill")
  /\ queue' = <<>> /\ markAge' = 0
  /\ UNCHANGED <<prev, tick, waitAge, closed, worldVars>>

\* _connect_and_subscribe; a connect that fails is retried after a delay and
\* changes nothing kept here.
Connect ==
  /\ Enter("down", "backfill")
  /\ closed' = FALSE /\ queue' = <<>> /\ markAge' = 0
  /\ UNCHANGED <<prev, tick, waitAge, worldVars>>

\* The backfill callback returns or raises; either is the same to run().
BackfillDone ==
  /\ Enter("backfill", "loop")
  /\ UNCHANGED <<prev, tick, markAge, waitAge, transportVars, worldVars>>

WatchdogExpired == open /\ markAge > Idle

\* close() queues its sentinel; the loop returns and run() goes to its retry.
WatchdogCloses ==
  /\ Enter("loop", "down") /\ WatchdogExpired
  /\ closed' = TRUE /\ queue' = Append(queue, Closed)
  /\ UNCHANGED <<prev, tick, markAge, waitAge, worldVars>>

Wait ==
  /\ Enter("loop", "receive") /\ ~WatchdogExpired
  /\ waitAge' = 0
  /\ UNCHANGED <<prev, tick, markAge, transportVars, worldVars>>

\* wait_for gives up, which is not a tick; the watchdog is asked again.
Timeout ==
  /\ Enter("receive", "loop") /\ queue = <<>> /\ waitAge >= Idle
  /\ UNCHANGED <<prev, tick, markAge, waitAge, transportVars, worldVars>>

\* Mutant of Receive: the tick is not marked.
ReceiveUnmarked ==
  /\ Enter("receive", "received") /\ queue # <<>>
  /\ tick' = Head(queue) /\ queue' = Tail(queue)
  /\ UNCHANGED <<prev, markAge, waitAge, closed, worldVars>>

\* A tick is marked on receipt and handed to the thread.  (The branch for a
\* None is never taken: NoStaleSentinel.)
Receive ==
  /\ Enter("receive", "received") /\ queue # <<>>
  /\ tick' = Head(queue) /\ queue' = Tail(queue) /\ markAge' = 0
  /\ UNCHANGED <<prev, waitAge, closed, worldVars>>

\* pipeline.process: a tick the validator drops ends the call, an accepted one
\* goes on to Redis and the signal engine.
Process ==
  /\ stage = "received"
  /\ Validate(tick)
  /\ \/ ~Accepts(tick) /\ stage' = "loop" /\ tick' = None
     \/ Accepts(tick) /\ stage' = "handling" /\ UNCHANGED tick
  /\ UNCHANGED <<markAge, waitAge, transportVars, worldVars>>

ProcessReturns ==
  /\ Enter("handling", "loop") /\ tick' = None
  /\ UNCHANGED <<prev, markAge, waitAge, transportVars, worldVars>>

\* A Redis error is not caught before run(), which reconnects: the transport
\* is not closed.
ProcessRaises ==
  /\ Enter("handling", "down") /\ tick' = None
  /\ UNCHANGED <<prev, markAge, waitAge, transportVars, worldVars>>

-----------------------------------------------------------------------------
\* _restart_pipeline: the task is cancelled wherever it is, a new one starts
\* with a validator, a transport and a client of its own.
Restart ==
  /\ prev' = [k \in Keys |-> None]
  /\ stage' = "down" /\ tick' = None /\ markAge' = Horizon /\ waitAge' = 0
  /\ queue' = <<>> /\ closed' = FALSE
  /\ UNCHANGED worldVars

MarketOpensOrCloses ==
  /\ open' = ~open
  /\ UNCHANGED <<prev, feedVars, transportVars, tradeAge>>

\* The age of a queue item; the sentinel has none.
Aged(item) == IF item = Closed THEN Closed ELSE [item EXCEPT !.age = Older(@)]

Clock ==
  /\ PrevAges
  /\ tick' = IF tick = None THEN None ELSE Aged(tick)
  /\ markAge' = Older(markAge) /\ waitAge' = Older(waitAge)
  /\ queue' = [i \in DOMAIN queue |-> Aged(queue[i])]
  /\ tradeAge' = [k \in Keys |-> Older(tradeAge[k])]
  /\ UNCHANGED <<stage, closed, open>>

LoopStep ==
  \/ Connect \/ BackfillDone \/ WatchdogCloses \/ Wait \/ Timeout \/ Receive
  \/ Process \/ ProcessReturns \/ ProcessRaises

Next ==
  \/ \E k \in Keys : Push(k)
  \/ LoopStep
  \/ Restart \/ MarketOpensOrCloses \/ Clock

Spec == Init /\ [][Next]_vars
-----------------------------------------------------------------------------
(* Properties.                                                             *)

\* Every variable keeps its type; a handler thread has a tick.
TypeOK ==
  /\ ValidatorTypeOK
  /\ stage \in Stages
  /\ tick \in Ticks \cup {None}
  /\ stage \in {"received", "handling"} => tick # None
  /\ markAge \in Ages /\ waitAge \in Ages
  /\ queue \in Seq(Ticks \cup {Closed}) /\ closed \in BOOLEAN
  /\ tradeAge \in [Keys -> Ages] /\ open \in BOOLEAN

\* A sentinel in the queue of a live connection is that connection's own: no
\* reconnect is ended by the close() before it.
NoStaleSentinel ==
  stage # "down" => \A i \in DOMAIN queue : queue[i] # Closed

\* Once a key is wedged it stays so, through every reconnect, until the
\* pipeline is restarted.
WedgedUntilRestart ==
  [][\A k \in Keys : Wedged(k) => Wedged(k)' \/ prev'[k] = None]_vars

\* When the watchdog reconnects, every key whose tolerances end before its
\* idle time (spot: 5 s + 2 s < 10 s) is wedged or has never had a tick: the
\* reconnect comes too late to bring such a key back.
ReconnectTooLate ==
  [][\A k \in Keys :
       WatchdogCloses /\ MaxAge[k] + Skew[k] <= Idle => prev[k] = None \/ Wedged(k)]_vars

\* The watchdog notices, and what it starts helps: while the market is open a feed
\* without a tick is connected anew, by a transport that takes quotes, again and again.
SilenceReconnects == []<>(~open \/ tick # None \/ (stage = "backfill" /\ ~closed))
=============================================================================
