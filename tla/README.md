# A TLA+ model of the market bias agent

The agent (`src/market_bias_agent/`) reads live Nifty ticks, builds option-chain
features, asks an LLM ("Maker") for a trade, filters it with rules ("Checker"),
trades it on paper, and teaches the outcome to a vector memory. One process runs
all of it: an asyncio loop, worker threads, cron jobs and an HTTP API that share
objects without a lock. The modules here are about what that sharing, the clocks
and the partial failures do to the promises of the code.

Paths below are relative to `src/market_bias_agent/`.

## 1. The system

| component | state | operations | partners |
|---|---|---|---|
| `core/websocket_client.py` + `core/breeze_transport.py` | receive loop, `_last_tick_time`, queue, `_closed` | connect, receive, watchdog, close, reconnect | the SDK's socket thread fills the queue; `main.py` cancels and restarts |
| `core/tick_validator.py`, `core/tick_pipeline.py` | `_last_by_key` | validate, process | called from the loop's thread and `/ops/ingest-tick` |
| `modules/signal_engine.py` | throttle, per-strike cooldown, OI history | `on_tick`, `_produce_signal`, `_close_position` | everything below, from several threads |
| `modules/checker_node.py` | approvals, cooldowns, daily PnL, halt | `check`, `record_exit_pnl` | engine, `/test-signal` |
| `modules/paper_trader.py` | positions | `submit_signal`, `update_price`, `_close` | engine |
| `core/signal_store.py`, `modules/post_analysis.py` | `signal_log` rows (SQLite) | register, transitions, write-back | engine, end-of-day run |
| `modules/maker_node.py`, `core/llm_guardrails.py`, `core/llm_cache.py` | tokens spent, LRU dict | `generate`, `consume`, `get`, `put` | workflow, `/test-signal` |
| `graph/workflow.py` | none | Maker, then Checker | engine |
| `core/breeze_session.py`, `utils/telegram_listener.py` | client, token (process, Redis, `.env`), offset | login, refresh, `/session` | cron, Telegram threads, pipeline start |
| `core/strikes_manager.py`, `core/redis_manager.py` | expiry, strikes, OI windows (Redis) | sync, rollover, push | pipeline, backfill |
| `modules/eod_engine.py`, `memory/` | structural bias (Redis), trap vectors | read the report, collect, index | cron; races the engine's write-back |
| `modules/premarket_engine.py` | levels (Redis) | compute, refresh | cron |
| `core/premarket_levels.py`, `core/candle_engine.py`, `core/features.py`, `core/math_engine.py` | none | pure arithmetic | engine, replay, premarket |
| `core/health.py`, `modules/monitoring.py` | connection flag, last tick, counters | report, watchdog | the feed reports, `/ops/watchdog` asks |
| Telegram bot, charts | none | send | operator |
| `modules/replay_engine.py`, `modules/backtest_engine.py`, `core/cost_model.py`, ingestion, metrics | files | offline | operator |

What is hard, and what correctness means there:

* **Threads without locks.** `WebSocket` ticks run in `asyncio.to_thread`,
  `/ops/ingest-tick` calls `pipeline.process` from a request, `/test-signal` runs
  the workflow, and a cancelled pipeline leaves its last thread running. Each
  read-then-write of the engine, the Checker, the store, the cache and the budget
  can be interleaved.
* **Partial failure.** The steps of a closed position (row, outcome, memory,
  Rule-D feed) share one `try`; whatever raises skips the rest. A rollover, an OI
  push and a write of the levels are several Redis commands.
* **Restart.** The signal log survives, positions and Checker do not. A token has
  four homes, and a restart chooses among them.
* **Time.** Throttles, cooldowns, maximum hold, the 10 s watchdog against the
  5 s + 2 s tolerances of a spot tick, the TTLs of cache, windows, levels and bias.
* **Two readings of one market.** The replay judges bars, the live engine ticks;
  the backtest must not be better than the trade.
* **Liveness.** A silent connection is noticed, a closed transport reopened, a
  monitored signal closed.

`PROJECT.json` lists every hazard at its line with the property that covers it.

## 2. Modules

| module | models | role |
|---|---|---|
| `SignalLifecycle` | `signal_store.py`'s `_VALID_NEXT`, `mark_exited`, `close_and_write_back` | abstract: what the log promises of one signal |
| `CheckerNode` | rules C, D, E | state and steps of the Checker |
| `PaperTrader` | positions | state and steps of the trader |
| `SignalEngine` | `signal_engine.py` and the order of its calls | composes the three with threads, clock and crash; refines `SignalLifecycle` |
| `TickValidator` | `tick_validator.py` | ages of ticks, what is accepted and remembered |
| `WsFeed` | `websocket_client.py`, `breeze_transport.py`, `tick_pipeline.py`, `_restart_pipeline` | composes the validator with loop, queue and watchdog |
| `FeedHealth` | `health.py`: `record_tick`, `watchdog_expired` | the feed with the registry that watches it; implements `WsFeed` |
| `MakerNode` | `maker_node.py`, `llm_guardrails.py`, `llm_cache.py` | threads over one budget and one dict |
| `BreezeSession` | `breeze_session.py`, `telegram_listener.py`, the refresh job | the token's homes under commands, job, faults and restarts |
| `MarketStore` | `strikes_manager.py`, `redis_manager.py`, `backfill.py`, `premarket_engine.py` | Redis command by command, with TTLs, faults and restarts |
| `EodEngine` | `eod_engine.py`, `post_analysis.py`, `memory_service.py`, `vector_store.py`, `_structural_bias` | the nightly job beside the write-back |
| `PremarketLevels` | `premarket_levels.py`, level helpers of `math_engine.py` | operators: pivots, walls, max pain, which levels are near |
| `Triggers` | `candle_engine.py`, `features.py`, trigger matrix of `math_engine.py` | operators: candles, ATR, regime, divergence, triggers |
| `Replay` | OI history of `signal_engine.py`, `paper_trader.py` with prices; `replay_engine.py`, `backtest_engine.py`, `cost_model.py` | one tape read live and as bars |
| `MC…` | – | small instances for TLC |
| `…Proofs`, `SetLemmas` | – | theorems |

Definitions whose comment says "mutant" are the bugs each property is known to
catch; no specification uses them.

**SignalEngine.** A worker is a thread inside `on_tick`; `pc[w]` is the place in
the code and `loc[w]` its local variables. An action is one read or write of
shared state, so two workers interleave wherever two threads may. `transition`
is two actions (read the status, update it); the six exit actions after it follow
`record_exit`, `close_and_write_back`, `record_exit_pnl` in the code's order, and
`IndexFails` returns to the loop the way the `except` does. `CheckApproves` and
`Approve` are the two halves of `check`. Rules A, B, F and G are a Boolean, the
Maker's answer any direction, a trigger any strike, an exit any PnL of `Pnls`.
`Crash` keeps `row`, `outcome` and `memory` (SQLite, Qdrant) and rebuilds the
rest. Ticks are taken to carry the reading of the clock that `on_tick` makes. The
new day is absent because `reset_daily` has no caller (neither the Checker's nor
the budget's): the "daily" loss and budget accumulate for the life of the process.

**TickValidator, WsFeed, FeedHealth.** All tests compare timestamps with the clock
or each other, so a timestamp is kept as its age, which `Clock` advances and which
stays at `Horizon` once no test tells it apart. `LoopStep` is the loop, `Push` the
socket's thread, `Restart` and `MarketOpensOrCloses` the environment. A tick that
`/ops/ingest-tick` feeds to the same validator is left out. `FeedHealth` extends
each action with what it tells the registry; `RestartCounts` lets the thread of
the cancelled pipeline still count its tick.

**MakerNode.** `get` is `Lookup`, `CheckAge`, `Expire` or `PopHit` and `ReAdd`;
`put` is `Put`, `Evict`, `NextVictim`, `PopVictim`. A `KeyError` or `RuntimeError`
that another thread causes returns through `generate`'s `except` to the rules.
`billed`, `late` and an entry's `made` are history variables.

**BreezeSession.** A token is its rank in the order ICICI issued them, and lives in
the client, the process, Redis (with the time of the `SET`) and `.env` (with
whether the file's other lines are there). A worker is a thread inside a call of
the manager; `_build_client` and `_persist_token` are seven actions from
`GenerateSession` to `WriteEnv`, each one access, with `SkipEnv` for a file that
cannot be opened; `LoadToken` may find nothing because the `GET` failed. `Poll` is one `getUpdates`: it confirms what is before the
offset, delivers the rest and moves the offset, and each update waits in `handed`
for a thread. `Faults` names what may fail. `Crash` sets the offset to 0 and takes
the token from `.env`, as a new process does. `runs` is a history variable.

**MarketStore.** The clock counts thirds of a day (before the open, the session,
the evening), which is what TTLs of 10 and 12 hours tell apart. A sample in an OI
window is kept as the expiry of its contract, a key stands for the call and the put
key of a strike. The sync of a pipeline is `Fetch`, `Reset` once per strike,
`SetExpiry`, `SetStrikes`; an OI push is `OiTick` and the four commands `CheckLength`
(`LLEN`), `PushSample` (`RPUSH`), `TrimWindow` (`LTRIM`) and `ExpireWindow`, no
transaction, by the tick thread, a thread left of an older pipeline, and the backfill on
the loop. A writer of the
levels is the scheduler or Telegram's thread: `Run` or `Refresh` computes,
`SetLevels` and `ExpireLevels` store. `Fault` lets any command raise, `Crash` ends
all of them, and keys go away by `WindowExpires` and `LevelsExpire`. `rolled`, `cut`,
`untrimmed` and `levelsCut` are history variables.

**EodEngine.** The clock counts half days. The tick thread takes a signal from
MONITORING through the three updates of `mark_exited`, the write-back and the close,
and the 18:00 job runs beside it: `Report`, the two commands of the bias, the two
queries of the day, and the ingestion. A record keeps its label, whether its row was
read before its outcome (`early`) and whether it is in Qdrant (`kept`); the store of
the process is lost on `Restart`. A query has a ranking of the records and the signals
of its expiry week: `Hits` are the `Limit` nearest of the store in use that pass the
filter, and the win rate is theirs. Rankings are any (the embedding is not modelled);
the boost of the regime only orders the hits, so it is left out. `due` and `finished`
are history variables.

**PremarketLevels, Triggers, Replay.** The first two hold operators only. Prices are
integers and levels thirds of a point, so the pivot is exact. `Replay` has one tape:
each `OnTick` updates the tick buffer, the OI history and the open trade as the live
engine does, and the candles of the whole tape, which are what a replay gets; the live
regime is of the candles of the buffer (`LiveCandles`), that of a replayed bar of the
bars before it (`RegimeWindow`); what the replay makes of the same tape (`BarVelocities`, `Signals`,
`Simulated`) are operators on the candles, and the properties compare the two.
`Signals` is the set of the replay's signals; each has the time of its bar, so their
order is that of their times. The tape reaches the alert, its prices are integers, and
open interest is not negative (`ReplayAssumption`). A read of the buffer that fails,
where the engine keeps the regime it had, is left out. The
trade is alerted at the last instant of bar 0, where a replayed bar would signal it;
the live levels are those a premarket run would store at that tick; the ingested OI
series has the totals of the end of each bar (the ingestion is outside).

## 3. Runs

| run | result | shows |
|---|---|---|
| `engine_serial` | passes | one thread, memory up: `LossAccounted`, `MonitoredIsLive`, `StrikeSpacing`, `EntryRespectsCircuit`, the refinement `ImplementsLifecycle` and `MonitoredCloses` |
| `engine_concurrent` | passes | two threads, a restart, memory that may fail: `RateBound`, `RowFollowsTrade`, `OutcomeBeforeMemory`, `ClosedOncePerWorker` |
| `engine_writeback_fails` | violation | `LossAccounted`: a failed write-back hides a loss from Rule D |
| `feed` | passes | the watched feed: `NoStaleSentinel`, `WedgedUntilRestart`, `ReconnectTooLate`, `SilenceReconnects`, `AlarmNeedsRestart`, `WedgedIsReported` |
| `maker` | passes | two threads, three markets: `FewLateCalls`, `ServedFresh` |
| `maker_overspends` | violation | `NoCallBeyondCap`: calls go on when the cap is billed |
| `session` | passes | one thread at a time, two restarts: `RestartFindsToken`, `HandledOncePerLife`, `UpdateHandled` |
| `store` | passes | a tick thread beside the backfill, a writer of the levels, two expiries over two sessions: `RolloverDropsOldChain`, `TtlUnlessCut`, `TrimmedUnlessCut`, `PivotsOfTheDay`, `LevelsAppear` |
| `eod` | passes | two evenings, two faults: `EodRecovers`, `AtMostThreeRecords`, `RateFollowsOutcome` |
| `eod_bias` | violation | `BiasReachesNextSession`: the bias of 18:00 applies to no session |
| `tape` | passes | every tape of seven instants: `ReplayedAsLive`, `SameRegimeWhileBuffered`, `BacktestAgrees`, `NoLookAhead` |
| `replay_regime` | violation | `BacktestEqualsLive`: with another regime the replay triggers where the live engine did not |

Each passing run also checks its module's type invariant, except
`engine_concurrent`, whose module `engine_serial` covers.

What the serial properties say is false of two threads: `MonitoredIsLive`,
`ImplementsLifecycle` and `LossAccounted` fail when two workers exit one position
(the store's check and update are two statements). The concurrent run states what
is left, with the number of workers in the bound. `session` is serial for the same
reason: with two threads the older token may be left in Redis and the client may be
of another token than the process. It also leaves a failing Redis `SET` out, which
alone makes the older token win a restart (section 5). `PivotsOfTheDay` is about one writer,
and not about levels that a crash or an error left without their TTL (`levelsCut`); a
refresh that overwrites what another writer stored meanwhile is not covered.
`ReplayedAsLive` has two halves: the velocities are equal while the history remembers,
and what the replay triggers the live engine triggers too, unless its buffer shows the
calmer regime; `replay_regime` is the case that the second half excepts, and
`SameRegimeWhileBuffered` says when it cannot arise.

**Bounds.** `MaxNow`, `LastEntry`, `MaxCrashes`, `MaxQueue`, `Horizon`,
`MaxBilled`, `MaxTokens`, `MaxPhase`, `MaxFaults`, `MaxGap` and the finite sets. Two
signals and two strikes let one exit be fed while another is pending and one strike
cool down while the other fires; three signals in the concurrent run let each worker
exit or approve one beside a third. Clock constants are scaled so that each window
ends inside the run, is not a multiple of another by accident, and the throttle, the
cooldown and the maximum hold each pass and fail. `LastEntry` leaves time after the
last entry for its exit. `WsFeed` keeps the order 5 s + 2 s ≤ 10 s of the spot
tolerances and the watchdog, and `FeedHealth` that of the watchdog and the
operator's 300 s. A queue of two holds a tick and a sentinel or two ticks. In `MakerNode` three markets and a cache of one make two threads
evict different victims; a cost of one or two against a budget of three meets the
cap exactly and jumps over it. `session` issues two tokens over four hours with a job
every three, so that a token is refreshed, skipped, expired and replaced and the
cache runs out; two restarts let the second meet what the first left behind.
`store` starts in a session, sees the next one, in which the second chain replaces
the first at the same strike, and ends before a third; the thread of an older pipeline
and the backfill push to a window of two, and two faults cut a call short or end them
all. That one strike of several is reset and the next is not, and that there are more
threads, is left to the proofs. `eod` has two sessions and two
evenings; its two faults let a write-back fail and the process restart; two of at most
six records are hits, ranked in four ways with and without a filter that drops one
signal, so a record displaces another. `tape` has three and a half bars of two
instants: look-backs of one and two bars, a hold of two bars, and gaps that leave a
bar empty; a buffer of three ticks, which forgets the first bar; its four markets move
the price alone, the chain alone, or both.
Symmetry is used only in runs of invariants.

Deadlock is not checked where the system of the model may stop: `MakerNode` where the
budget is exhausted and nobody is inside a call, or a bound is reached, `EodEngine`
at the end of its last night, and `Replay` at the end of its tape.

**Fairness.** `SignalEngine`: a thread runs on (`WF` on `ExitStep` and
`SignalStep`), the clock runs on, and while the market is open ticks keep coming
to every worker (`SF` on `SpotTick`, since a worker is not always idle).
`MonitoredCloses` needs the last: the agent has no timer of its own, only a tick
closes a position. It is checked without crashes: after one the row stays
MONITORING for ever. `FeedHealth`: the loop and its thread run on (`WF` on
`LoopStep`), which takes a connect to succeed eventually, and a handler to return;
and the clock (`WF` on `HealthClock`). `BreezeSession`: the listener polls on
(`WF` on `Poll`, its loop survives every error), a call that began ends (`WF` on
`Call`), and an update gets a thread of the pool in the end although other callers
may come first (`SF` on `HandleSession`). `MarketStore`: the refresh job runs every
few minutes of a session (`WF` on `Refresh`), and a writer goes on (`WF` on
`SetLevels` or `ExpireLevels`).

## 4. Proofs

TLAPS proves these for every value of the constants that satisfies the modules'
named assumptions and the assumptions in the table.

| module | theorem | property | argument |
|---|---|---|---|
| `SignalEngineProofs` | `TypeCorrect` | `TypeOK` | inductive with the worker's signal held at every label that uses it |
| | `RateBounded` | `RateBound` | approvals are in time order; the window ending now holds the cap plus the workers that have passed the check and not appended, and those are all but the one that appends |
| | `OutcomePrecedesMemory` | `OutcomeBeforeMemory` | a row is CLOSED or a worker past `outcome` only with an outcome recorded, across restarts |
| | `RowFollows` | `RowFollowsTrade` | what each label says of the row and the position of its signal, and that a signal enters through one worker |
| | `ClosedPerWorker` | `ClosedOncePerWorker` | times booked plus the workers about to book stay within the workers; the same of the memory |
| | `StrikesSpaced` | `StrikeSpacing` | one worker: nobody moves `lastAlert` between the check and the approval, and the clock stands |
| | `LifecycleImplemented` | `ImplementsLifecycle` | one worker, any restarts and failures: what the row is at each label makes each update a step of the lifecycle |
| | `MonitoredLive` | `MonitoredIsLive` | one worker, no restart: a monitored row whose position is closed is in the exits of the worker |
| | `EveryLossCounted` | `LossAccounted` | one worker, a memory that does not fail, any restarts: the daily PnL is the sum over the closed positions but those the worker has yet to book, and such a row is MONITORING, so no transition of its exit is refused |
| | `CircuitRespected` | `EntryRespectsCircuit` | same assumptions: the check reads the daily PnL when no exit is being booked |
| `WsFeedProofs` | `HealthTypeCorrect` | `HealthTypeOK` | inductive; `TypeCorrect` is the part of the feed |
| | `SentinelFresh` | `NoStaleSentinel` | a queue holds a sentinel only while the transport is closed, and `Connect` drains it |
| | `WedgedStays` | `WedgedUntilRestart` | a wedged key accepts nothing: fresh means a jump beyond the skew |
| | `ReconnectIsTooLate` | `ReconnectTooLate` | what was accepted last was received no later than the last mark |
| | `HealthOnlyWatches` | `HealthSpec => Spec` | each step of the watched feed is one of the feed |
| | `AlarmIsFinal` | `AlarmNeedsRestart` | a remembered tick was counted, and is no younger than the count |
| `MakerNodeProofs` | `TypeCorrect` | `TypeOK` | assignment and pop keep the keys of the dict unique |
| | `WithinCap` | first half of `SpentWithinBudget` | `consume` refuses what would pass the cap |
| | `SpentIsBilled` | `SpentWithinBudget` | what is billed covers what is counted plus the sum of what the workers between bill and charge have yet to charge |
| | `LateCallsBounded` | `FewLateCalls` | late calls plus workers still past `should_use_llm` stay below the number of workers |
| | `HitsAreFresh` | `ServedFresh` | popping and re-adding keeps an entry's time |
| `BreezeSessionProofs` | `TypeCorrect` | `TypeOK` | inductive with the token a thread holds issued |
| | `HandledOnce` | `HandledOncePerLife` | an update before the offset is handled or handed out, and once in either |
| | `RestartFinds` | `RestartFindsToken` | one worker, no failing `SET`, `Life < Ttl`: client and token differ only between the two assignments, and a token in the client is in Redis, with a TTL that outlasts it, or about to be put there |
| `MarketStoreProofs` | `TypeCorrect` | `TypeOK` | inductive |
| | `RolloverIsClean` | `RolloverDropsOldChain` | expiries only grow; a strike not left to reset holds nothing of the old chain, and a sample is of the active expiry when it is pushed |
| | `TtlsAreSet` | `TtlUnlessCut` | a push that saw a window found it, or the window is in `cut` |
| | `WindowsAreTrimmed` | `TrimmedUnlessCut` | what makes a window longer is an `RPUSH`, and its thread stands before its `LTRIM` until that has cut the window, or is caught in `untrimmed` |
| | `PivotsAreOfTheDay` | `PivotsOfTheDay` | one writer: levels with a TTL were computed in the third it was set in, or renewed in a session from pivots of that day |
| `EodEngineProofs` | `TypeCorrect` | `TypeOK` | inductive |
| | `LearnsRight` | `LearnsTheOutcome` | what is learned or collected has the label of the row's outcome, and an outcome is written once |
| | `JobRecovers` | `EodRecovers` | a due signal is collected or learned from each query on: it can leave ANALYZED only for CLOSED, which has been learned |
| | `FewLearned` | `AtMostThreeRecords` | the collected batch has two of a signal only if it was written back between the queries; a day's job runs once |
| | `RatesFollow` | `RateFollowsOutcome` | a new record leaves the others where they are; if it enters the hits it displaces at most one, so the count of its own label does not fall and that of the other does not rise |
| `ReplayProofs` | `TypeCorrect` | `TypeOK` | the invariant below |
| | `BacktestIsLive` | `ReplayedAsLive` | the candle and the history entry that a look-back finds show the same change of the totals; the last candle closes at the last tick, so both sides judge one price, and thresholds of a regime that scales less are lower |
| | `BacktestMatchesPaper` | `BacktestAgrees` | no bar before the closing one touches a level, and the closing one spans the price the trade was closed at |
| | `ReplayNeverLooksAhead` | `NoLookAhead` | a tick changes no complete bar, and the signal of a bar is made of the bars up to it |
| | `PivotsInOrder` | | the pivot fan of any high, low and close is in order |
| | `PsychLevelsBracket` | | rounding goes to a multiple at most half a base away |
| | `RoundLevelsComplete` | | with a tolerance below one and a half bases (the code has 12 points and 100) no round level but the three candidates is near |
| | `FewWalls` | | all walls but the last are ahead of the last; nothing is ahead of the heaviest |
| | `CalmerTriggersLess` | | a calmer regime scales the thresholds up |

Each `…Proofs` module extends the module it is about (`WsFeedProofs` extends
`FeedHealth`), with one lemma per action and part of the inductive invariant.
`SetLemmas` has what several of them need: what `Max` and `Min` of a finite set of
integers are, and what the sum of a function over a finite set does when an element
joins or leaves it. Other lemmas say what the operators of a module do on sequences:
`AssignedDict` and `PoppedDict` of the cache, `CandleStep`, `RecordedIs`, `ShowsStep`,
`WalkEnds` of the replay.

Induction over data is avoided by a counterexample that is minimal in a well-founded
order (of finite sets, or of the naturals), which has to be smaller still. The sum is
defined by a recursive function; `TableExists` shows that such a function exists, and
`SumUnfolds` is the equation the other lemmas use.

**The invariant of `Replay`.** `ReplayedAsLive` and `BacktestAgrees` speak of
one moment; what makes them true is the past, and the history variable `changes` is
that past. The totals in force at a time are those of the last change until then.
`ShownInv`: a candle has the totals in force at its end, and every change falls in a
bar that has a candle, so the series shows at the start of a bar what was in force at
its end. `HistoryInv`: an entry of the OI history was in force when it was written, and
every change of the last `Keep` seconds has an entry, so a look-back that is remembered
finds the same change. `TradeInv`: while the trade is open no bar after the alert's
touches a level, since each price of it was judged by `update_price`; once it is closed
that is so of the bars before the closing one, which spans the closing price. `BarInv`
(bars are aligned, rise, and end with the current one) carries the arithmetic, and
`CurrentInv` says that the buffer ends with the last tick and the last bar closes at its
price. What
regime a series of bars has does not matter to any of them: `ReplayedAsLive` compares
the scalings of the two regimes, and the proof uses only how a trigger depends on them.

Only model-checked:

* liveness (`MonitoredCloses`, `SilenceReconnects`, `WedgedIsReported`,
  `UpdateHandled`, `LevelsAppear`) and anything with `ENABLED`: out of the prover's
  reach;
* `SameRegimeWhileBuffered`: the candles of the buffer are a recursive function of its
  ticks, and that it gives the candles of the tape is an induction over data;
* the violations.

## 5. What the models show beside their properties

Facts of the code that came up while modelling. The first five are against a comment or
a docstring; no document denies the others.

* The exit of a trade is filled with the direction of the position
  (`modules/backtest_engine.py:186`, `modules/paper_trader.py:154`), so slippage makes it
  better, against `core/cost_model.py:3-4` ("worsened by slippage in the adverse
  direction"): a round trip earns the move of the price less the fixed cost.
* `core/breeze_session.py:10-12` promises that "a restart reuses the newest token". A
  `SET` that fails is only logged (line 296), and the older token of Redis wins over the
  newer one of `.env`. Two `/session` commands in two threads share no lock over lines
  318-321: the older token's `SET` may land last.
* `core/websocket_client.py:142-143` says that a slow step "never trips the 10s stale
  watchdog". The tick is marked before the handler is awaited and the watchdog asked
  after it: a handler of more than 10 s ends with the watchdog expired, and the ticks
  that wait in the queue are drained by the reconnect.
* An older `/session` command that Telegram delivers again after a restart may leave
  the older token in Redis when building the client of the newer one fails.
* A feed that never delivered a tick is not reported: without a tick
  `watchdog_expired` answers `ticks_processed > 0` ("started but never got a tick",
  `core/health.py:116`), and `record_tick` sets the count and the time together, so
  that branch is always False.
* The refresh job of 8:00 skips a token younger than 23 hours, which then expires
  before the next run. `/backtest` creates a task of the loop from a worker thread,
  which asyncio does not allow (`/session` hops to the loop with
  `call_soon_threadsafe`).
* An OI tick is judged by the time of its last trade: a strike without a trade for five
  minutes is dropped for good. Silence before the market opens counts: at 9:15 the websocket's watchdog
  tears down a connection that was quiet before.
* One key that still ticks keeps the operator's watchdog quiet although the spot is
  wedged, and no job asks that watchdog, only `/ops/watchdog` does.
* Totals that do not change for longer than the history is kept leave no baseline, and
  the velocity is the whole open interest. A replay's first bars have baseline 0.
* The volume half of the scalp trigger is never taken: no caller passes a volume.
  `compute_pcr` raises without call OI. `_checker_approves` of the backtest uses the
  ATR of the whole series.
* The ingestion drops strikes without a row, and missing bars make a simulated trade
  be held longer than its limit of time.
* A signal that exits on a later day than it was born is collected by no nightly run;
  one whose row is read before its outcome is learned as a loss. Records of the
  process's own store are lost with it.
* A trap's loss counts neither as a win nor as a loss, and may displace an `SL_HIT` from
  the hits: writing it back can raise the win rate.
* A restart forgets open positions, the halt and the rate window; their rows stay
  MONITORING.
* `reset_daily`, `weekly_compact`, `compact_stale`, `invalidate` and `clear` have no
  caller. The strikes are synced only when a pipeline starts, so the interval of
  `is_due` never matters. Back-filled bars may be stored after live ticks.

## 6. Plan

Done: the engine with Checker and trader, the feed and its registry, the Maker, the
session, the store of the market, the end of the day, levels, triggers and replay,
and the theorems above. Left, in this order:

1. `/ops/ingest-tick` as a second caller of the pipeline in `WsFeed`.
2. The confluence and reversal scores and the candlestick patterns, as operators
   beside those of `Triggers`.
3. `walk_forward` over `Replay`'s signals: that no window trains on its own test.
4. Of the operators of `PremarketLevels`, `MaxPain` has no theorem yet: that it is a
   strike of the most combined OI.

## 7. Not modelled

* Telegram bot and charts, the texts of the reports, logging, prompts and parsing:
  output, or a Boolean or any direction where a module needs their result.
* The weekly report, the bias suggestions, the connection flag and the health counters: they only read or
  count, and nothing in the trading path reads them.
* The arithmetic of the participant bias: a formula of one file of the day; the module
  has its date and its life.
* Metrics, `walk_forward`, the command lines and the parquet files: single-threaded
  statistics over finished trades.
* Candlestick patterns, PCR, confluence and reversal scores: features of the prompt and
  of rules A, B, F and G, which are a Boolean.
* Settings, logging and the clock: values and formatting; the constants are CONSTANTS.
* Embeddings, Qdrant, SQLite, Redis internals and the Breeze SDK: external, modelled
  by what the code sees of them.
