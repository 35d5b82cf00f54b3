------------------------------- MODULE EodEngine -------------------------------
(***************************************************************************)
(* The 18:00 job of modules/eod_engine.py beside the exits that ticks      *)
(* bring: the job persists the structural bias of the next day and learns  *)
(* the day's signals from signal_log, a tick thread records each exit and  *)
(* writes it back (core/signal_store.py, modules/post_analysis.py), both   *)
(* into the trap memory of memory/memory_service.py: Qdrant, or a store of *)
(* the process when Qdrant did not answer at start.                        *)
(*                                                                         *)
(* The clock counts half days: a session, then the evening and night.      *)
(***************************************************************************)
EXTENDS Integers, Sequences, FiniteSets, Functions

CONSTANTS Signals,    \* signals that reach MONITORING
          TrapType,   \* TrapType[s]: the trap_type of the row of s
          None,       \* no outcome yet, no key, no date
          Limit,      \* QDRANT_SIMILAR_LIMIT
          Queries,    \* query_similar: how near it finds each record, and the signals
                      \* of the expiry week it asks for
          MaxPhase,   \* bound on the clock
          MaxFaults   \* bound on failed calls and restarts

TrapTypes == {"NONE", "BULL_TRAP", "BEAR_TRAP"}
Outcomes == {"WIN", "LOSS", "BE"}

\* A record is known by its signal and its place among the records of it.
AllPlaces == Signals \X (1 .. 3)

ASSUME EodAssumption ==
  /\ IsFiniteSet(Signals) /\ TrapType \in [Signals -> TrapTypes]
  /\ None \notin Int \cup Signals \cup Outcomes
  /\ MaxPhase \in Nat /\ MaxFaults \in Nat /\ Limit \in Nat \ {0}
  /\ \A q \in Queries : q.rank \in [AllPlaces -> Nat] /\ IsInjective(q.rank) /\ q.week \subseteq Signals

VARIABLES phase, faults,
          row, outcome, born,  \* signal_log: status, outcome and the day of generated_at
          worker,     \* the tick thread: where it is, and with which signal
          store,      \* the store chosen at start: "qdrant" or "local"
          learned,    \* learned[s]: the records of s in the stores, oldest first
          eodDue,     \* the job is to run this evening
          eod,        \* the job: where it is, the date of its report, what it collected
          bias,       \* KEY_EOD_STRUCTURAL_BIAS: its session_date, age and TTL
          due,        \* history: the day's signals that the last run found analysed
          finished    \* history: whether the last run got to its end

rowVars == <<row, outcome, born, worker>>
jobVars == <<eodDue, eod, due, finished>>
vars == <<phase, faults, rowVars, store, learned, jobVars, bias>>

Day == phase \div 2
Session == phase % 2 = 0

IdleWorker == [at |-> "idle", signal |-> None]
IdleJob == [at |-> "idle", date |-> None, events |-> <<>>]

Init ==
  /\ phase = 0 /\ faults = 0
  /\ row = [s \in Signals |-> "NONE"] /\ outcome = [s \in Signals |-> None]
  /\ born = [s \in Signals |-> 0] /\ worker = IdleWorker
  /\ store \in {"qdrant", "local"} /\ learned = [s \in Signals |-> <<>>]
  /\ eodDue = FALSE /\ eod = IdleJob /\ bias = None
  /\ due = {} /\ finished = FALSE

Fault == faults < MaxFaults /\ faults' = faults + 1

-----------------------------------------------------------------------------
(* What a row teaches: _event_from_row and _trap_record_from_row.          *)

LabelIsOutcome(s, result) == result              \* mutant: no label is made of it

\* A row without an outcome counts as "BE", which is learned as a loss.
Label(s, result) ==
  IF result = "WIN" THEN "TARGET_HIT"
  ELSE IF result = "LOSS" /\ TrapType[s] = "BULL_TRAP" THEN "BULL_TRAP_REJECTION"
  ELSE IF result = "LOSS" /\ TrapType[s] = "BEAR_TRAP" THEN "BEAR_TRAP_REJECTION"
  ELSE "SL_HIT"

\* What upsert makes of records: each has an id of its own and is new to the store.
Upserted(s, records) == learned[s] \o records

\* What a process finds of it after a restart: MemoryVectorStore is gone.  Its records
\* come after those of Qdrant, since each process begins without any.
Persistent(records) == SubSeq(records, 1, Cardinality({i \in DOMAIN records : records[i].kept}))

\* early: the row was read before its outcome was written.
Record(s) == [label |-> Label(s, outcome[s]), early |-> outcome[s] = None, kept |-> store = "qdrant"]

Places(records) == {p \in AllPlaces : p[2] \in DOMAIN records[p[1]]}

\* The records of the store that this process searches.
Stored(records) == {p \in Places(records) : records[p[1]][p[2]].kept = (store = "qdrant")}

\* The nearest of them, as many as the limit.
Nearest(found, rank) == {p \in found : Cardinality({o \in found : rank[o] < rank[p]}) < Limit}

HitsFilteredLate(records, q) ==                  \* mutant: the limit before the filter
  {p \in Nearest(Stored(records), q.rank) : p[1] \in q.week}

\* query_similar: the filter of the expiry week before the limit.  The boost that
\* comes after it only orders the hits.
Hits(records, q) == Nearest({p \in Stored(records) : p[1] \in q.week}, q.rank)

Count(records, q, label) == Cardinality({p \in Hits(records, q) : records[p[1]][p[2]].label = label})

\* _summarize: a win is TARGET_HIT, a loss is SL_HIT, a rejected trap is neither.
Wins(records, q) == Count(records, q, "TARGET_HIT")
Losses(records, q) == Count(records, q, "SL_HIT")

Decided(records, q) == Wins(records, q) + Losses(records, q)

\* win_rate, 0 when nothing is decided, compared without the division.
RateAtMost(these, those, q) ==
  \/ Wins(these, q) = 0
  \/ Wins(these, q) * Decided(those, q) <= Wins(those, q) * Decided(these, q) /\ Decided(those, q) > 0

-----------------------------------------------------------------------------
(* The tick thread: a signal is monitored, exits and is written back.      *)

Monitor(s) ==
  /\ Session /\ row[s] = "NONE"
  /\ row' = [row EXCEPT ![s] = "MONITORING"] /\ born' = [born EXCEPT ![s] = Day]
  /\ UNCHANGED <<phase, faults, outcome, worker, store, learned, jobVars, bias>>

At(l) == worker.at = l
Then(l) == worker' = [worker EXCEPT !.at = l]

\* mark_exited: three updates of the row.
Exit(s) ==
  /\ At("idle") /\ row[s] = "MONITORING"
  /\ row' = [row EXCEPT ![s] = "EXITED"] /\ worker' = [at |-> "exited", signal |-> s]
  /\ UNCHANGED <<phase, faults, outcome, born, store, learned, jobVars, bias>>

Analyze ==
  /\ At("exited") /\ Then("analyzed") /\ row' = [row EXCEPT ![worker.signal] = "ANALYZED"]
  /\ UNCHANGED <<phase, faults, outcome, born, store, learned, jobVars, bias>>

RecordOutcome ==
  /\ At("analyzed") /\ Then("recorded")
  /\ \E result \in Outcomes : outcome' = [outcome EXCEPT ![worker.signal] = result]
  /\ UNCHANGED <<phase, faults, row, born, store, learned, jobVars, bias>>

\* close_and_write_back: index the record, then close the row.
WriteBack ==
  /\ At("recorded") /\ Then("indexed")
  /\ learned' = [learned EXCEPT ![worker.signal] = Upserted(worker.signal, <<Record(worker.signal)>>)]
  /\ UNCHANGED <<phase, faults, row, outcome, born, store, jobVars, bias>>

\* Qdrant raises: the row stays ANALYZED.
WriteBackFails ==
  /\ At("recorded") /\ store = "qdrant" /\ Fault /\ worker' = IdleWorker
  /\ UNCHANGED <<phase, row, outcome, born, store, learned, jobVars, bias>>

Close ==
  /\ At("indexed") /\ worker' = IdleWorker /\ row' = [row EXCEPT ![worker.signal] = "CLOSED"]
  /\ UNCHANGED <<phase, faults, outcome, born, store, learned, jobVars, bias>>

-----------------------------------------------------------------------------
(* EODEngine.run.                                                          *)

JobAt(l) == eod.at = l
JobThen(l) == eod' = [eod EXCEPT !.at = l]

OfAnyDay(status) == {s \in Signals : row[s] = status}                \* mutant: no date filter

\* The rows of today, by generated_at, in the state that a query asks for.
OfToday(status) == {s \in Signals : row[s] = status /\ born[s] = Day}

\* The date of what fetch_latest finds, perhaps only the day before, or none.
ReportDates == {Day, Day - 1, None}

ReportOrQuit ==                                  \* mutant: no report, no ingestion
  /\ JobAt("idle") /\ eodDue /\ eodDue' = FALSE
  /\ due' = {s \in OfToday("ANALYZED") \cup OfToday("CLOSED") : outcome[s] # None}
  /\ \/ \E date \in ReportDates : eod' = [IdleJob EXCEPT !.at = "set", !.date = date] /\ finished' = FALSE
     \/ eod' = IdleJob /\ finished' = TRUE
  /\ UNCHANGED <<phase, faults, rowVars, store, learned, bias>>

\* EODEngine.run begins: the bias of the report, or no report, and the signals.
Report ==
  /\ JobAt("idle") /\ eodDue /\ eodDue' = FALSE /\ finished' = FALSE
  /\ due' = {s \in OfToday("ANALYZED") \cup OfToday("CLOSED") : outcome[s] # None}
  /\ \/ \E date \in ReportDates : eod' = [IdleJob EXCEPT !.at = "set", !.date = date]
     \/ eod' = [IdleJob EXCEPT !.at = "analysed"]
  /\ UNCHANGED <<phase, faults, rowVars, store, learned, bias>>

\* set_eod_bias: SET, which drops the TTL there was, and EXPIRE.
SetBias ==
  /\ JobAt("set") /\ JobThen("expire") /\ bias' = [date |-> eod.date, at |-> phase, ttl |-> None]
  /\ UNCHANGED <<phase, faults, rowVars, store, learned, eodDue, due, finished>>

ExpireBias ==
  /\ JobAt("expire") /\ JobThen("analysed")
  /\ bias' = IF bias = None THEN None ELSE [bias EXCEPT !.ttl = phase]
  /\ UNCHANGED <<phase, faults, rowVars, store, learned, eodDue, due, finished>>

\* A failure of Redis is caught.
PersistFails ==
  /\ eod.at \in {"set", "expire"} /\ Fault /\ JobThen("analysed")
  /\ UNCHANGED <<phase, rowVars, store, learned, eodDue, bias, due, finished>>

\* The two queries of _collect_day_events, and what is made of their rows.
Collect(status) == [s \in Signals |-> IF s \in OfToday(status) THEN <<Record(s)>> ELSE <<>>]

ReadAnalysed ==
  /\ JobAt("analysed") /\ eod' = [eod EXCEPT !.at = "closed", !.events = Collect("ANALYZED")]
  /\ UNCHANGED <<phase, faults, rowVars, store, learned, eodDue, bias, due, finished>>

ReadClosed ==
  /\ JobAt("closed")
  /\ LET closed == Collect("CLOSED") IN
       eod' = [eod EXCEPT !.at = "index", !.events = [s \in Signals |-> @[s] \o closed[s]]]
  /\ UNCHANGED <<phase, faults, rowVars, store, learned, eodDue, bias, due, finished>>

\* index_day_traps.
Ingest ==
  /\ JobAt("index") /\ eod' = IdleJob /\ finished' = TRUE
  /\ learned' = [s \in Signals |-> Upserted(s, eod.events[s])]
  /\ UNCHANGED <<phase, faults, rowVars, store, eodDue, bias, due>>

IngestFails ==
  /\ JobAt("index") /\ store = "qdrant" /\ Fault /\ eod' = IdleJob
  /\ UNCHANGED <<phase, rowVars, store, learned, eodDue, bias, due, finished>>

-----------------------------------------------------------------------------
(* SignalEngine._structural_bias, the clock, Redis and restarts.           *)

\* A dated bias is for its date alone, an undated one for BIAS_MAX_AGE_SECONDS.
Stale == (bias.date # None /\ bias.date # Day) \/ phase - bias.at > 1

BiasApplies == bias # None /\ ~Stale

\* EOD_STRUCTURAL_BIAS_TTL_SECONDS: gone after the next session, before the one after it.
BiasExpires ==
  /\ bias # None /\ bias.ttl # None /\ bias.ttl + 1 < phase /\ bias' = None
  /\ UNCHANGED <<phase, faults, rowVars, store, learned, jobVars>>

Advance ==
  /\ phase < MaxPhase /\ At("idle") /\ JobAt("idle") /\ ~eodDue
  /\ (bias # None /\ bias.ttl # None) => bias.ttl + 2 > phase
  /\ phase' = phase + 1 /\ eodDue' = Session
  /\ UNCHANGED <<faults, rowVars, store, learned, eod, bias, due, finished>>

\* A restart: the job is missed if it falls into it, the process's own store is lost.
Restart ==
  /\ Fault /\ store' \in {"qdrant", "local"} /\ worker' = IdleWorker
  /\ eod' = IdleJob /\ eodDue' \in {eodDue, FALSE}
  /\ learned' = [s \in Signals |-> Persistent(learned[s])]
  /\ finished' = (finished /\ store = "qdrant")
  /\ UNCHANGED <<phase, row, outcome, born, bias, due>>

Next ==
  \/ \E s \in Signals : Monitor(s) \/ Exit(s)
  \/ Analyze \/ RecordOutcome \/ WriteBack \/ WriteBackFails \/ Close
  \/ Report \/ SetBias \/ ExpireBias \/ PersistFails
  \/ ReadAnalysed \/ ReadClosed \/ Ingest \/ IngestFails
  \/ BiasExpires \/ Advance \/ Restart

Spec == Init /\ [][Next]_vars

-----------------------------------------------------------------------------
(* Properties.                                                             *)

Labels == {"TARGET_HIT", "SL_HIT", "BULL_TRAP_REJECTION", "BEAR_TRAP_REJECTION"}
Records == Seq([label : Labels, early : BOOLEAN, kept : BOOLEAN])
Phases == 0 .. MaxPhase

\* Every variable keeps its type, and a label of the memory is one of the four.
TypeOK ==
  /\ phase \in Phases /\ faults \in 0 .. MaxFaults
  /\ row \in [Signals -> {"NONE", "MONITORING", "EXITED", "ANALYZED", "CLOSED"}]
  /\ outcome \in [Signals -> Outcomes \cup {None}] /\ born \in [Signals -> Nat]
  /\ worker \in [at : {"exited", "analyzed", "recorded", "indexed"}, signal : Signals] \cup {IdleWorker}
  /\ store \in {"qdrant", "local"} /\ learned \in [Signals -> Records]
  /\ eod.at \in {"idle", "set", "expire", "analysed", "closed", "index"}
  /\ eod.at \in {"closed", "index"} => eod.events \in [Signals -> Records]
  /\ bias \in [date : Int \cup {None}, at : Phases, ttl : Phases \cup {None}] \cup {None}
  /\ eodDue \in BOOLEAN /\ finished \in BOOLEAN /\ due \subseteq Signals

\* When a run ends, every signal of its day that was analysed when it began is in
\* the trap memory: one whose write-back failed is learned by the job, and a report
\* or a bias that fails does not keep it from that (EODEngine.run).
EodRecovers == finished => \A s \in due : learned[s] # <<>>

\* A signal is in the memory at most three times: its write-back, and twice by the
\* job of its day when its row closes between the two queries (_collect_day_events).
AtMostThreeRecords == \A s \in Signals : Len(learned[s]) <= 3

\* What is learned of a signal is what its row ends up saying, unless the job read
\* the row between its status and its outcome (mark_exited).
LearnsTheOutcome ==
  \A s \in Signals : \A i \in DOMAIN learned[s] :
    LET r == learned[s][i] IN
      \/ r.early
      \/ /\ outcome[s] = "WIN" <=> r.label = "TARGET_HIT"
         /\ r.label = "SL_HIT" <=> outcome[s] = "BE" \/ (outcome[s] = "LOSS" /\ TrapType[s] = "NONE")

\* Whatever is asked of the memory, writing back a win does not lower the win rate it
\* reports, and writing back a loss, or what counts as one, does not raise it, although
\* the record may take the place of another among the hits.  The loss of a trap counts
\* as neither: it may do both (query_similar, _summarize).
RateFollowsOutcome ==
  [][WriteBack =>
       LET s == worker.signal IN \A q \in Queries :
         /\ outcome[s] = "WIN" => RateAtMost(learned, learned', q)
         /\ outcome[s] = "BE" \/ (outcome[s] = "LOSS" /\ TrapType[s] = "NONE") =>
              RateAtMost(learned', learned, q)]_vars

\* "Institutional bias computed at 18:00 IST is valid for the next trading day."
BiasReachesNextSession ==
  Session /\ bias # None /\ bias.at = phase - 1 => BiasApplies
=============================================================================
