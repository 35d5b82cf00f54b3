------------------------------ MODULE MarketStore ------------------------------
(***************************************************************************)
(* What the process keeps in Redis about the market: the active expiry and *)
(* its strikes (core/strikes_manager.py, synced when a pipeline starts),   *)
(* the open-interest window of every strike (core/redis_manager.py, pushed *)
(* by the tick thread and by core/backfill.py) and the premarket levels    *)
(* (modules/premarket_engine.py, written by jobs and Telegram threads).    *)
(*                                                                         *)
(* A key stands for the call and the put key of its strike, a sample for   *)
(* the expiry of its contract, an expiry for its date, numbered as the     *)
(* days are.  The clock counts thirds of a day:                            *)
(* until the open at 9:15, the session until 15:30, the evening.  A key    *)
(* given 10 h (a window) or 12 h (the levels) in one third goes away in    *)
(* the next or in the one after it.                                        *)
(***************************************************************************)
EXTENDS Integers, Sequences, FiniteSets, FiniteSetsExt

CONSTANTS Threads,      \* tick threads: the pipeline's, and one a restart left behind
          Writers,      \* threads that compute levels: the scheduler's, Telegram's
          Chain,        \* Chain[e]: the strikes the scrip table lists for expiry e
          Window,       \* OI_WINDOW_INTERVALS
          NoKey,        \* what Redis returns for a missing key
          FirstPhase,   \* the third the process first starts in
          MaxPhase,     \* bound on the clock
          MaxFaults     \* bound on the calls that fail and the crashes

Expiries == DOMAIN Chain
Strikes == UNION {Chain[e] : e \in Expiries}

ASSUME StoreAssumption ==
  /\ {FirstPhase, MaxPhase, MaxFaults} \subseteq Nat /\ FirstPhase <= MaxPhase /\ Window \in Nat \ {0}
  /\ Expiries \subseteq Nat \ {0} /\ IsFiniteSet(Expiries) /\ Expiries # {}
  /\ \A e \in Expiries : Chain[e] \in SUBSET Int /\ IsFiniteSet(Chain[e])
  /\ NoKey \notin Int /\ "loop" \notin Threads

VARIABLES phase, faults,
          pipeline,   \* where the pipeline is, and the locals of its sync
          expiry,     \* EXPIRY_ROLLOVER_KEY: 0 for "" and for the stub's 2000-01-01
          strikes,    \* KEY_STRIKES
          window,     \* the OI windows
          windowTtl,  \* the third their TTL was set in, NoKey when they have none
          push,       \* the _push_oi in progress of every thread and of the loop
          spot,       \* whether KEY_SPOT_TICKS holds ticks
          levels,     \* KEY_PRE_MARKET_LEVELS: the third its pivots are from, its TTL
          write,      \* the set_pre_market_levels in progress of every writer
          rolled,     \* history: the strikes listed by the last rollover
          cut,        \* history: the windows that a crash, an error or a deletion
                      \* caught between the commands that write them
          untrimmed,  \* history: the windows that a crash or an error left before their
                      \* LTRIM, until the next one
          levelsCut   \* history: whether SET without EXPIRE was left of the levels, until
                      \* their pivots are computed again

marketVars == <<pipeline, expiry, strikes, rolled>>
windowVars == <<window, windowTtl, push, spot>>
levelVars == <<levels, write, levelsCut>>
clockVars == <<phase, faults>>
cutVars == <<cut, untrimmed>>
vars == <<clockVars, marketVars, windowVars, levelVars, cutVars>>

Day == phase \div 3
Open == phase % 3 = 1

\* _active_expiry: the nearest expiry that has not passed, or the last one.
ActiveExpiry(today) ==
  LET ahead == {e \in Expiries : e >= today} IN
    IF ahead # {} THEN Min(ahead) ELSE Max(Expiries)

Active == ActiveExpiry(Day)
Pushers == Threads \cup {"loop"}
Up == pipeline.at # "down"

Resting == [at |-> "idle", strike |-> 0, empty |-> FALSE]
Unwritten == [at |-> "idle", pivots |-> 0]
Halted(l) == [at |-> l, expiry |-> 0, left |-> {}]

Init ==
  /\ phase = FirstPhase /\ faults = 0
  /\ pipeline = Halted("down") /\ expiry = NoKey /\ strikes = {}
  /\ window = [s \in Strikes |-> <<>>] /\ windowTtl = [s \in Strikes |-> NoKey]
  /\ push = [p \in Pushers |-> Resting] /\ spot = FALSE
  /\ levels = NoKey /\ write = [w \in Writers |-> Unwritten]
  /\ rolled = {} /\ cut = {} /\ untrimmed = {} /\ levelsCut = FALSE

Fault == faults < MaxFaults /\ faults' = faults + 1

-----------------------------------------------------------------------------
(* StrikesManager.sync, at the start of a pipeline.                        *)

\* The process starts, or /session restarts the pipeline: a tick thread of the
\* old one may still be pushing, a backfill runs on the loop and may not.
StartPipeline ==
  /\ pipeline.at \in {"down", "running"} /\ push["loop"].at = "idle"
  /\ pipeline' = Halted("fetch")
  /\ UNCHANGED <<clockVars, expiry, strikes, rolled, windowVars, levelVars, cutVars>>

\* fetch_expiry_and_strikes, of the stub too: 0 when the table has no contract.
Listed(e) == IF e = 0 THEN {} ELSE Chain[e]

SyncTo(l, e, left) == pipeline' = [at |-> l, expiry |-> e, left |-> left]

FetchSetsFirst ==                                \* mutant: the expiry before the windows
  /\ pipeline.at = "fetch"
  /\ \E e \in {0, Active} :
       /\ expiry' = e
       /\ IF expiry \notin {NoKey, e}
          THEN SyncTo("reset", e, Listed(e)) /\ rolled' = Listed(e)
          ELSE SyncTo("expiry", e, {}) /\ UNCHANGED rolled
  /\ UNCHANGED <<clockVars, strikes, windowVars, levelVars, cutVars>>

\* The chain comes back, or no contract of the symbol does; a different expiry
\* in Redis is a rollover.
Fetch ==
  /\ pipeline.at = "fetch"
  /\ \E e \in {0, Active} :
       IF expiry \notin {NoKey, e} THEN SyncTo("reset", e, Listed(e)) ELSE SyncTo("expiry", e, {})
  /\ UNCHANGED <<clockVars, expiry, strikes, rolled, windowVars, levelVars, cutVars>>

\* A window disappears; a push that found it there will write one without TTL.
Drop(s) ==
  /\ window' = [window EXCEPT ![s] = <<>>] /\ windowTtl' = [windowTtl EXCEPT ![s] = NoKey]
  /\ cut' = IF \E p \in Pushers : push[p] = [at |-> "push", strike |-> s, empty |-> FALSE]
            THEN cut \cup {s} ELSE cut
  /\ untrimmed' = untrimmed \ {s}

\* _reset_oi_windows, one strike at a time.
Reset ==
  /\ pipeline.at = "reset"
  /\ IF pipeline.left = {}
     THEN SyncTo("expiry", pipeline.expiry, {}) /\ UNCHANGED <<window, windowTtl, cutVars>>
     ELSE \E s \in pipeline.left : SyncTo("reset", pipeline.expiry, pipeline.left \ {s}) /\ Drop(s)
  /\ UNCHANGED <<clockVars, expiry, strikes, rolled, push, spot, levelVars>>

SetExpiry ==
  /\ pipeline.at = "expiry"
  /\ rolled' = IF expiry \notin {NoKey, pipeline.expiry} THEN Listed(pipeline.expiry) ELSE rolled
  /\ expiry' = pipeline.expiry /\ SyncTo("strikes", pipeline.expiry, {})
  /\ UNCHANGED <<clockVars, strikes, windowVars, levelVars, cutVars>>

\* set_strikes: DEL and ZADD in one transaction.
SetStrikes ==
  /\ pipeline.at = "strikes"
  /\ strikes' = Listed(pipeline.expiry) /\ pipeline' = Halted("running")
  /\ UNCHANGED <<clockVars, expiry, rolled, windowVars, levelVars, cutVars>>

\* The fetch or a Redis command raises: the pipeline goes on with what it finds.
SyncFails ==
  /\ pipeline.at \notin {"down", "running"} /\ Fault
  /\ pipeline' = Halted("running")
  /\ UNCHANGED <<phase, expiry, strikes, rolled, windowVars, levelVars, cutVars>>

-----------------------------------------------------------------------------
(* RedisManager._push_oi: LLEN, RPUSH and LTRIM, and EXPIRE when the window *)
(* was empty: commands of their own.                                        *)

\* _subscribe: Redis's strikes, of the chain the transport finds when it connects.
Subscribed == strikes \cap Chain[Active]

\* fetch_recent_snapshot: Redis's strikes, of the chain the provider finds now.
Sampled == strikes \cap Chain[Active]

\* A contract that was subscribed and still trades ticks.
OiTick(p) ==
  /\ Open /\ pipeline.at = "running" /\ push["loop"].at = "idle" /\ push[p].at = "idle"
  /\ \E s \in Subscribed :
       push' = [push EXCEPT ![p] = [at |-> "called", strike |-> s, empty |-> FALSE]]
  /\ UNCHANGED <<clockVars, marketVars, window, windowTtl, spot, levelVars, cutVars>>

Counted(p, s) == push' = [push EXCEPT ![p] = [at |-> "push", strike |-> s, empty |-> window[s] = <<>>]]

\* A thread whose pipeline was cancelled gets here as well.
CheckLength(p) ==
  /\ push[p].at = "called" /\ Counted(p, push[p].strike)
  /\ UNCHANGED <<clockVars, marketVars, window, windowTtl, spot, levelVars, cutVars>>

\* One sample of BackfillService.run, after the bars of the index.
BackfillOi ==
  /\ pipeline.at = "running" /\ push["loop"].at = "idle" /\ spot' = TRUE
  /\ \E s \in Sampled : Counted("loop", s)
  /\ UNCHANGED <<clockVars, marketVars, window, windowTtl, levelVars, cutVars>>

SpotTick ==
  /\ Open /\ pipeline.at = "running" /\ ~spot /\ spot' = TRUE
  /\ UNCHANGED <<clockVars, marketVars, window, windowTtl, push, levelVars, cutVars>>

TrimmedLate(q) ==                                \* mutant: LTRIM keeps one more
  SubSeq(q, Max({1, Len(q) - Window}), Len(q))

\* LTRIM: the newest samples.
Trimmed(q) == SubSeq(q, Max({1, Len(q) - Window + 1}), Len(q))

Pushed(s) == window' = [window EXCEPT ![s] = Append(@, Active)]

PushCountsItself(p) ==                           \* mutant: LLEN after RPUSH
  /\ push[p].at = "push" /\ Pushed(push[p].strike)
  /\ push' = [push EXCEPT ![p].at = "trim", ![p].empty = FALSE]
  /\ UNCHANGED <<clockVars, marketVars, windowTtl, spot, levelVars, cutVars>>

\* RPUSH.
PushSample(p) ==
  /\ push[p].at = "push" /\ Pushed(push[p].strike)
  /\ push' = [push EXCEPT ![p].at = "trim"]
  /\ UNCHANGED <<clockVars, marketVars, windowTtl, spot, levelVars, cutVars>>

TrimWindow(p) ==
  /\ push[p].at = "trim"
  /\ LET s == push[p].strike IN
       window' = [window EXCEPT ![s] = Trimmed(@)] /\ untrimmed' = untrimmed \ {s}
  /\ push' = [push EXCEPT ![p] = IF @.empty THEN [@ EXCEPT !.at = "expire"] ELSE Resting]
  /\ UNCHANGED <<clockVars, marketVars, windowTtl, spot, levelVars, cut>>

ExpireWindowLate(p) ==                           \* mutant: a TTL two thirds longer
  /\ push[p].at = "expire"
  /\ LET s == push[p].strike IN
       windowTtl' = [windowTtl EXCEPT ![s] = IF window[s] = <<>> THEN NoKey ELSE phase + 2]
  /\ push' = [push EXCEPT ![p] = Resting]
  /\ UNCHANGED <<clockVars, marketVars, window, spot, levelVars, cutVars>>

ExpireWindow(p) ==
  /\ push[p].at = "expire"
  /\ LET s == push[p].strike IN
       windowTtl' = [windowTtl EXCEPT ![s] = IF window[s] = <<>> THEN NoKey ELSE phase]
  /\ push' = [push EXCEPT ![p] = Resting]
  /\ UNCHANGED <<clockVars, marketVars, window, spot, levelVars, cutVars>>

Trimming(p) == push[p].at = "trim"
Expiring(p) == push[p].at = "expire" \/ (Trimming(p) /\ push[p].empty)

\* Pushes of ps end here: what they leave without the TTL or the LTRIM to come.
CutOff(ps) ==
  /\ cut' = cut \cup {push[p].strike : p \in {q \in ps : Expiring(q)}}
  /\ untrimmed' = untrimmed \cup {push[p].strike : p \in {q \in ps : Trimming(q)}}

PushFails(p) ==
  /\ push[p].at # "idle" /\ Fault
  /\ push' = [push EXCEPT ![p] = Resting] /\ CutOff({p})
  /\ UNCHANGED <<phase, marketVars, window, windowTtl, spot, levelVars>>

-----------------------------------------------------------------------------
(* PreMarketEngine: run (the 8:30 job, /premarket) and refresh_intraday    *)
(* (a job of the session), then set_pre_market_levels: SET, EXPIRE.        *)

Compute(w, pivots) ==
  /\ spot /\ write[w].at = "idle"
  /\ write' = [write EXCEPT ![w] = [at |-> "set", pivots |-> pivots]]

Run(w) ==
  /\ Up /\ Compute(w, phase)
  /\ UNCHANGED <<clockVars, marketVars, windowVars, levels, levelsCut, cutVars>>

RefreshClosed(w) ==                              \* mutant: no market_status guard
  /\ Up
  /\ \/ levels # NoKey /\ Compute(w, levels.pivots)
     \/ levels = NoKey /\ Compute(w, phase)
  /\ UNCHANGED <<clockVars, marketVars, windowVars, levels, levelsCut, cutVars>>

RefreshOnly(w) ==                                \* mutant: no run when there are none
  /\ Up /\ Open
  /\ levels # NoKey /\ Compute(w, levels.pivots)
  /\ UNCHANGED <<clockVars, marketVars, windowVars, levels, levelsCut, cutVars>>

\* Levels that are there keep their pivots, and are written back whole; with
\* none, or when reading them fails, all is computed again.
Refresh(w) ==
  /\ Up /\ Open
  /\ \/ levels # NoKey /\ Compute(w, levels.pivots) /\ UNCHANGED faults
     \/ levels = NoKey /\ Compute(w, phase) /\ UNCHANGED faults
     \/ levels # NoKey /\ Fault /\ Compute(w, phase)
  /\ UNCHANGED <<phase, marketVars, windowVars, levels, levelsCut, cutVars>>

SetLevels(w) ==
  /\ write[w].at = "set"
  /\ levels' = [pivots |-> write[w].pivots, ttl |-> NoKey]
  /\ write' = [write EXCEPT ![w] = [Unwritten EXCEPT !.at = "expire"]]
  /\ UNCHANGED <<clockVars, marketVars, windowVars, levelsCut, cutVars>>

ExpireLevels(w) ==
  /\ write[w].at = "expire"
  /\ levels' = IF levels = NoKey THEN NoKey ELSE [levels EXCEPT !.ttl = phase]
  /\ write' = [write EXCEPT ![w] = Unwritten]
  /\ levelsCut' = (levelsCut /\ levels # NoKey /\ levels.pivots # phase)
  /\ UNCHANGED <<clockVars, marketVars, windowVars, cutVars>>

HalfWritten(ws) == levelsCut \/ \E w \in ws : write[w].at = "expire"

WriteFails(w) ==
  /\ write[w].at # "idle" /\ Fault
  /\ write' = [write EXCEPT ![w] = Unwritten] /\ levelsCut' = HalfWritten({w})
  /\ UNCHANGED <<phase, marketVars, windowVars, levels, cutVars>>

-----------------------------------------------------------------------------
(* Redis and the clock.                                                    *)

WindowExpires ==
  /\ \E s \in Strikes : windowTtl[s] # NoKey /\ windowTtl[s] < phase /\ Drop(s)
  /\ UNCHANGED <<clockVars, marketVars, push, spot, levelVars>>

LevelsExpire ==
  /\ levels # NoKey /\ levels.ttl # NoKey /\ levels.ttl < phase /\ levels' = NoKey
  /\ UNCHANGED <<clockVars, marketVars, windowVars, write, levelsCut, cutVars>>

OutlivesPhase(ttl) == ttl # NoKey => ttl + 2 > phase

\* Calls take seconds, so none is in progress when a third ends.
Advance ==
  /\ phase < MaxPhase /\ pipeline.at \in {"down", "running"}
  /\ \A p \in Pushers : push[p].at = "idle"
  /\ \A w \in Writers : write[w].at = "idle"
  /\ \A s \in Strikes : OutlivesPhase(windowTtl[s])
  /\ levels # NoKey => OutlivesPhase(levels.ttl)
  /\ phase' = phase + 1
  /\ UNCHANGED <<faults, marketVars, windowVars, levelVars, cutVars>>

Crash ==
  /\ Up /\ Fault
  /\ CutOff(Pushers) /\ levelsCut' = HalfWritten(Writers)
  /\ pipeline' = Halted("down")
  /\ push' = [p \in Pushers |-> Resting] /\ write' = [w \in Writers |-> Unwritten]
  /\ UNCHANGED <<phase, expiry, strikes, rolled, window, windowTtl, spot, levels>>

Next ==
  \/ StartPipeline \/ Fetch \/ Reset \/ SetExpiry \/ SetStrikes \/ SyncFails
  \/ \E t \in Threads : OiTick(t) \/ CheckLength(t)
  \/ BackfillOi \/ SpotTick
  \/ \E p \in Pushers : PushSample(p) \/ TrimWindow(p) \/ ExpireWindow(p) \/ PushFails(p)
  \/ \E w \in Writers : Run(w) \/ Refresh(w) \/ SetLevels(w) \/ ExpireLevels(w) \/ WriteFails(w)
  \/ WindowExpires \/ LevelsExpire \/ Advance \/ Crash

Spec == Init /\ [][Next]_vars

\* The job runs every few minutes of the session, and a writer goes on.
FairSpec ==
  Spec /\ \A w \in Writers : WF_vars(Refresh(w)) /\ WF_vars(SetLevels(w) \/ ExpireLevels(w))

-----------------------------------------------------------------------------
(* Properties.                                                             *)

Phases == 0 .. MaxPhase
Ttls == Phases \cup {NoKey}

\* Every variable has its type, and the label of a push or a write is one of the code.
TypeOK ==
  /\ phase \in Phases /\ faults \in 0 .. MaxFaults
  /\ pipeline \in [at : {"down", "fetch", "reset", "expiry", "strikes", "running"},
                   expiry : Expiries \cup {0}, left : SUBSET Strikes]
  /\ expiry \in Expiries \cup {0, NoKey}
  /\ strikes \subseteq Strikes /\ rolled \subseteq Strikes
  /\ window \in [Strikes -> Seq(Expiries)]
  /\ windowTtl \in [Strikes -> Ttls]
  /\ push \in [Pushers -> [at : {"idle", "called", "push", "trim", "expire"}, strike : Strikes \cup {0}, empty : BOOLEAN]]
  /\ spot \in BOOLEAN /\ levels \in [pivots : Phases, ttl : Ttls] \cup {NoKey}
  /\ write \in [Writers -> [at : {"idle", "set", "expire"}, pivots : Phases]]
  /\ cut \subseteq Strikes /\ untrimmed \subseteq Strikes /\ levelsCut \in BOOLEAN

\* After a rollover to an expiry no window of the chain it listed holds a sample
\* of an older contract: a crash or an error in the middle of the reset leaves the
\* old expiry stored, and the next sync resets again (StrikesManager.sync).
RolloverDropsOldChain ==
  expiry # NoKey =>
    \A s \in rolled : \A i \in DOMAIN window[s] : window[s][i] >= expiry

\* A window or the levels lack a TTL only while they are being written or because
\* a crash, a failed call or a deletion came between the commands that write them.
TtlUnlessCut ==
  /\ \A s \in Strikes :
       \/ window[s] = <<>> \/ windowTtl[s] # NoKey \/ s \in cut
       \/ \E p \in Pushers : Expiring(p) /\ push[p].strike = s
  /\ \/ levels = NoKey \/ levels.ttl # NoKey \/ levelsCut
     \/ \E w \in Writers : write[w].at = "expire"

\* However many threads push to a window, it is longer than OI_WINDOW_INTERVALS only
\* while one of them has yet to trim it, or since a crash or a failed call kept the last
\* one from that: RPUSH and LTRIM are no transaction (_push_oi).
TrimmedUnlessCut ==
  \A s \in Strikes :
    \/ Len(window[s]) <= Window \/ s \in untrimmed
    \/ \E p \in Pushers : Trimming(p) /\ push[p].strike = s

\* The pivots a session trades on were computed after the session before it
\* closed, however often one writer of refresh_intraday writes them back and renews their
\* TTL, unless a crash or an error has left them without one.
PivotsOfTheDay ==
  Open /\ levels # NoKey /\ ~levelsCut => phase - levels.pivots <= 2

\* In a session with ticks the levels appear whatever became of the 8:30 job.
LevelsAppear ==
  (Open /\ Up /\ spot /\ levels = NoKey) ~> (levels # NoKey \/ ~Open \/ ~Up)
=============================================================================
