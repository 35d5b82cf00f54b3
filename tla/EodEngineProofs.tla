---------------------------- MODULE EodEngineProofs ----------------------------
(* Theorems about EodEngine, for any signals, traps, clock and number of faults. *)
EXTENDS EodEngine, FiniteSetTheorems, SequenceTheorems, TLAPS

-----------------------------------------------------------------------------
(* The parts of the inductive invariant.                                   *)

Closing == {"set", "expire", "analysed", "closed", "index"}

\* The job has all its fields at every step, and nothing collected before its queries.
JobTyped ==
  /\ eod \in [at : {"idle"} \cup Closing, date : Int \cup {None},
              events : {<<>>} \cup [Signals -> Records]]
  /\ eod.at \notin {"closed", "index"} => eod.events = <<>>

\* The tick thread and the row of its signal go together.
WorkerRow ==
  /\ worker.at = "exited" => row[worker.signal] = "EXITED"
  /\ worker.at \in {"analyzed", "recorded", "indexed"} => row[worker.signal] = "ANALYZED"

\* No outcome before RecordOutcome.
Undecided(s) == row[s] \in {"NONE", "MONITORING"} \/ (worker.signal = s /\ worker.at \in {"exited", "analyzed"})

OutcomeLate == \A s \in Signals : Undecided(s) => outcome[s] = None

\* The job runs in the evening, and its signals are those of its day.
EveningJob == eodDue \/ eod.at # "idle" => ~Session

DayRow(s) == born[s] = Day /\ row[s] \in {"ANALYZED", "CLOSED"}

DueRows ==
  eod.at # "idle" => /\ ~finished
                     /\ ~eodDue
                     /\ \A s \in due : DayRow(s) /\ outcome[s] # None

EventRows ==
  eod.at \in {"closed", "index"} => \A s \in Signals : eod.events[s] # <<>> => DayRow(s)

\* A record says what the row says, or was made of a row without an outcome.
Says(s, r) == r.early \/ (outcome[s] # None /\ r.label = Label(s, outcome[s]))

RecordsSay ==
  /\ \A s \in Signals : \A i \in DOMAIN learned[s] : Says(s, learned[s][i])
  /\ eod.at \in {"closed", "index"} =>
       \A s \in Signals : \A i \in DOMAIN eod.events[s] : Says(s, eod.events[s][i])

\* Whether the write-back of s, and the job of its day, are past.
Written(s) ==
  IF row[s] \in {"NONE", "MONITORING", "EXITED"}
     \/ (worker.signal = s /\ worker.at \in {"exited", "analyzed", "recorded"}) THEN 0 ELSE 1

Awaited == eodDue \/ eod.at # "idle"

Taught(s) ==
  IF row[s] # "NONE" /\ phase > 2 * born[s] /\ ~(phase = 2 * born[s] + 1 /\ Awaited) THEN 1 ELSE 0

FewRecords ==
  /\ \A s \in Signals : Len(learned[s]) <= Written(s) + 2 * Taught(s)
  /\ eod.at = "closed" => \A s \in Signals : Len(eod.events[s]) <= 1
  /\ eod.at = "index" => \A s \in Signals : Len(eod.events[s]) <= 2

\* Qdrant's records come first, and a process of Qdrant makes and finds no others.
KeptFirst ==
  /\ \A s \in Signals : \A i, j \in DOMAIN learned[s] :
       i <= j /\ learned[s][j].kept => learned[s][i].kept
  /\ store = "qdrant" => \A s \in Signals : \A i \in DOMAIN learned[s] : learned[s][i].kept
  /\ eod.at \in {"closed", "index"} =>
       \A s \in Signals : \A i \in DOMAIN eod.events[s] : eod.events[s][i].kept = (store = "qdrant")

\* What the job has read so far covers the signals it is to learn.
Covered ==
  /\ eod.at = "closed" => \A s \in due : eod.events[s] # <<>> \/ row[s] = "CLOSED"
  /\ eod.at = "index" => \A s \in due : eod.events[s] # <<>>

-----------------------------------------------------------------------------
(* The operators.                                                          *)

Entry == [label : Labels, early : BOOLEAN, kept : BOOLEAN]

LEMMA LabelTyped ==
  ASSUME NEW s \in Signals, NEW result
  PROVE  Label(s, result) \in Labels
BY DEF Label, Labels

LEMMA RecordTyped ==
  ASSUME NEW s \in Signals
  PROVE  /\ Record(s) \in Entry
         /\ Record(s).label = Label(s, outcome[s])
         /\ Record(s).early = (outcome[s] = None)
         /\ Record(s).kept = (store = "qdrant")
<1>1. (outcome[s] = None) \in BOOLEAN /\ (store = "qdrant") \in BOOLEAN
  OBVIOUS
<1>2. \A l \in Labels, a, b \in BOOLEAN : LET r == [label |-> l, early |-> a, kept |-> b] IN
        r \in Entry /\ r.label = l /\ r.early = a /\ r.kept = b
  BY DEF Entry
<1>3. Label(s, outcome[s]) \in Labels
  BY LabelTyped
<1>4. QED
  BY <1>1, <1>2, <1>3, Zenon DEF Record

\* A store gets what is written, after what it had.
LEMMA UpsertAppends ==
  ASSUME learned \in [Signals -> Records], NEW s \in Signals, NEW records \in Records
  PROVE  LET after == Upserted(s, records) IN
           /\ after \in Records /\ Len(after) = Len(learned[s]) + Len(records)
           /\ \A i \in DOMAIN learned[s] : i \in DOMAIN after /\ after[i] = learned[s][i]
           /\ \A i \in DOMAIN after : i \notin DOMAIN learned[s] =>
                /\ i - Len(learned[s]) \in DOMAIN records
                /\ after[i] = records[i - Len(learned[s])]
<1>1. learned[s] \in Seq(Entry) /\ records \in Seq(Entry) /\ Records = Seq(Entry)
  BY DEF Records, Entry
<1> DEFINE a == learned[s]
<1> HIDE DEF a
<1>2. a \in Seq(Entry) /\ Upserted(s, records) = a \o records /\ a = learned[s]
  BY <1>1 DEF Upserted, a
<1>3. a \o records \in Seq(Entry) /\ Len(a \o records) = Len(a) + Len(records)
      /\ \A i \in 1 .. Len(a) + Len(records) :
           (a \o records)[i] = IF i <= Len(a) THEN a[i] ELSE records[i - Len(a)]
  BY <1>1, <1>2
<1>4. Len(a) \in Nat /\ Len(records) \in Nat /\ DOMAIN a = 1 .. Len(a)
      /\ DOMAIN records = 1 .. Len(records) /\ DOMAIN (a \o records) = 1 .. Len(a) + Len(records)
  BY <1>1, <1>2, <1>3
<1>5. \A i \in DOMAIN a : i \in DOMAIN (a \o records) /\ (a \o records)[i] = a[i]
  BY <1>3, <1>4
<1>6. \A i \in DOMAIN (a \o records) : i \notin DOMAIN a =>
        i - Len(a) \in DOMAIN records /\ (a \o records)[i] = records[i - Len(a)]
  BY <1>3, <1>4
<1>7. QED
  BY <1>1, <1>2, <1>3, <1>5, <1>6

\* The elements of two sequences put together.
LEMMA ConcatElements ==
  ASSUME NEW a \in Seq(Entry), NEW b \in Seq(Entry)
  PROVE  /\ a \o b \in Seq(Entry) /\ Len(a \o b) = Len(a) + Len(b)
         /\ \A i \in DOMAIN (a \o b) : \/ \E j \in DOMAIN a : (a \o b)[i] = a[j]
                                     \/ \E j \in DOMAIN b : (a \o b)[i] = b[j]
<1>1. a \o b \in Seq(Entry) /\ Len(a \o b) = Len(a) + Len(b)
      /\ \A i \in 1 .. Len(a) + Len(b) : (a \o b)[i] = IF i <= Len(a) THEN a[i] ELSE b[i - Len(a)]
  OBVIOUS
<1>2. Len(a) \in Nat /\ Len(b) \in Nat /\ DOMAIN a = 1 .. Len(a) /\ DOMAIN b = 1 .. Len(b)
      /\ DOMAIN (a \o b) = 1 .. Len(a) + Len(b)
  BY <1>1
<1>3. ASSUME NEW i \in DOMAIN (a \o b)
      PROVE  (\E j \in DOMAIN a : (a \o b)[i] = a[j]) \/ (\E j \in DOMAIN b : (a \o b)[i] = b[j])
  <2>1. CASE i <= Len(a)
    BY <1>1, <1>2, <2>1
  <2>2. CASE ~(i <= Len(a))
    <3>1. i - Len(a) \in DOMAIN b /\ (a \o b)[i] = b[i - Len(a)]
      BY <1>1, <1>2, <2>2
    <3>2. QED
      BY <3>1
  <2>3. QED
    BY <2>1, <2>2
<1>4. QED
  BY <1>1, <1>3

\* What a restart leaves of a store is a beginning of it.
LEMMA PersistentTyped ==
  ASSUME NEW records \in Records
  PROVE  LET n == Cardinality({i \in DOMAIN records : records[i].kept}) IN
           /\ n \in Nat /\ n <= Len(records)
           /\ Persistent(records) \in Records /\ Len(Persistent(records)) = n
           /\ \A i \in 1 .. n : Persistent(records)[i] = records[i]
<1> DEFINE kept == {i \in DOMAIN records : records[i].kept}
           n == Cardinality(kept)
<1>1. records \in Seq(Entry) /\ Len(records) \in Nat /\ DOMAIN records = 1 .. Len(records)
  BY DEF Records, Entry
<1>2. IsFiniteSet(1 .. Len(records)) /\ Cardinality(1 .. Len(records)) = Len(records)
  BY <1>1, FS_Interval
<1>3. IsFiniteSet(kept) /\ n \in Nat /\ n <= Len(records)
  BY <1>1, <1>2, FS_Subset, FS_CardinalityType
<1>4. SubSeq(records, 1, n) \in Seq(Entry) /\ Len(SubSeq(records, 1, n)) = n
      /\ \A i \in 1 .. n : SubSeq(records, 1, n)[i] = records[i]
  <2> HIDE DEF n
  <2>1. QED
    BY <1>1, <1>3
<1>5. QED
  BY <1>3, <1>4 DEF Persistent, Records, Entry

\* A restart leaves a beginning of a store; when Qdrant's records come first it is
\* made of them, and it is all of the store when they are all.
LEMMA PersistentIsPrefix ==
  ASSUME NEW records \in Records,
         \A i, j \in DOMAIN records : i <= j /\ records[j].kept => records[i].kept
  PROVE  LET after == Persistent(records) IN
           /\ after \in Records /\ Len(after) <= Len(records)
           /\ \A i \in DOMAIN after : i \in DOMAIN records /\ after[i] = records[i] /\ after[i].kept
           /\ (\A i \in DOMAIN records : records[i].kept) => after = records
<1> DEFINE kept == {i \in DOMAIN records : records[i].kept}
           n == Cardinality(kept)
           after == Persistent(records)
<1>1. records \in Seq(Entry) /\ Len(records) \in Nat /\ DOMAIN records = 1 .. Len(records)
  BY DEF Records, Entry
<1>2. /\ n \in Nat /\ n <= Len(records) /\ after \in Records /\ Len(after) = n
      /\ \A i \in 1 .. n : after[i] = records[i]
  BY PersistentTyped
<1>3. ASSUME NEW i \in 1 .. n PROVE records[i].kept
  <2>1. SUFFICES ASSUME ~records[i].kept PROVE FALSE
    OBVIOUS
  <2>2. i \in DOMAIN records /\ i \in Nat /\ i <= n /\ i >= 1
    BY <1>1, <1>2
  <2>3. kept \subseteq 1 .. i - 1
    BY <1>1, <2>1, <2>2
  <2>4. PICK k \in Int : k = i - 1 /\ k >= 0
    BY <2>2
  <2>5. IsFiniteSet(1 .. k) /\ Cardinality(1 .. k) = k /\ kept \subseteq 1 .. k
    BY <2>3, <2>4, FS_Interval
  <2>6. n <= k
    BY <2>5, FS_Subset
  <2>7. QED
    BY <1>2, <2>2, <2>4, <2>6
<1>4. ASSUME \A i \in DOMAIN records : records[i].kept PROVE after = records
  <2>1. kept = 1 .. Len(records)
    BY <1>1, <1>4
  <2>2. Cardinality(1 .. Len(records)) = Len(records)
    BY <1>1, FS_Interval
  <2>3. n = Len(records)
    BY <2>1, <2>2
  <2>4. after = SubSeq(records, 1, n)
    BY DEF Persistent
  <2>5. QED
    BY <1>1, <2>3, <2>4, SubSeqFull
<1> HIDE DEF n, after
<1>5. DOMAIN after = 1 .. n
  BY <1>2 DEF Records
<1>6. \A i \in DOMAIN after : i \in DOMAIN records /\ after[i] = records[i] /\ after[i].kept
  BY <1>1, <1>2, <1>3, <1>5
<1>7. QED
  BY <1>2, <1>4, <1>6 DEF after, n

\* What a query finds: at most one record of a signal, none of another day's.
LEMMA CollectOne ==
  ASSUME NEW status
  PROVE  /\ Collect(status) \in [Signals -> Records]
         /\ \A s \in Signals :
              \/ s \in OfToday(status) /\ Collect(status)[s] = <<Record(s)>>
              \/ s \notin OfToday(status) /\ Collect(status)[s] = <<>>
<1>1. \A s \in Signals : <<Record(s)>> \in Records /\ <<>> \in Records
  BY RecordTyped DEF Records, Entry
<1>2. QED
  BY <1>1 DEF Collect

-----------------------------------------------------------------------------
(* Types.                                                                  *)

Rows == {"NONE", "MONITORING", "EXITED", "ANALYZED", "CLOSED"}
Workers == [at : {"exited", "analyzed", "recorded", "indexed"}, signal : Signals] \cup {IdleWorker}
Jobs == [at : {"idle"} \cup Closing, date : Int \cup {None}, events : {<<>>} \cup [Signals -> Records]]
Biases == [date : Int \cup {None}, at : Phases, ttl : Phases \cup {None}] \cup {None}

\* What the signals' rows and the tick thread are made of, and what the job is.
RowsTyped ==
  /\ row \in [Signals -> Rows] /\ outcome \in [Signals -> Outcomes \cup {None}]
  /\ born \in [Signals -> Nat] /\ worker \in Workers

JobStateTyped == eod \in Jobs /\ eodDue \in BOOLEAN /\ finished \in BOOLEAN /\ due \subseteq Signals
JobEvents == /\ eod.at \in {"closed", "index"} => eod.events \in [Signals -> Records]
             /\ eod.at \notin {"closed", "index"} => eod.events = <<>>
ClockTyped == phase \in Phases /\ faults \in 0 .. MaxFaults
StoresTyped == store \in {"qdrant", "local"} /\ learned \in [Signals -> Records]
BiasTyped == bias \in Biases
Typed == ClockTyped /\ RowsTyped /\ JobStateTyped /\ JobEvents /\ StoresTyped /\ BiasTyped

LEMMA TypedIsTypeOK == Typed => TypeOK /\ JobTyped
<1> SUFFICES ASSUME Typed PROVE TypeOK /\ JobTyped
  OBVIOUS
<1>1. eod.at \in {"idle", "set", "expire", "analysed", "closed", "index"}
  BY DEF Typed, JobStateTyped, Jobs, Closing
<1>2. JobTyped
  BY DEF Typed, JobStateTyped, JobEvents, Jobs, JobTyped
<1>3. QED
  BY <1>1, <1>2 DEF Typed, ClockTyped, RowsTyped, JobStateTyped, JobEvents, StoresTyped, BiasTyped,
                    TypeOK, Rows, Workers, Biases

LEMMA TypedInit == Init => Typed
<1> SUFFICES ASSUME Init PROVE Typed
  OBVIOUS
<1>1. ClockTyped
  BY EodAssumption DEF EodAssumption, Init, ClockTyped, Phases
<1>2. RowsTyped
  BY DEF Init, RowsTyped, Rows, Workers
<1>3. JobStateTyped /\ JobEvents
  BY DEF Init, JobStateTyped, JobEvents, Jobs, IdleJob
<1>4. StoresTyped /\ BiasTyped
  BY DEF Init, StoresTyped, BiasTyped, Biases, Records
<1>5. QED
  BY <1>1, <1>2, <1>3, <1>4 DEF Typed

LEMMA TypedStep == Typed /\ [Next]_vars => Typed'
<1> SUFFICES ASSUME Typed, [Next]_vars PROVE Typed'
  OBVIOUS
<1> USE DEF Typed
<1>1. /\ MaxFaults \in Nat /\ MaxPhase \in Nat /\ Phases = 0 .. MaxPhase
  BY EodAssumption DEF EodAssumption, Phases
<1>2. Day \in Nat
  BY <1>1 DEF ClockTyped, Day
<1>3. \A s \in Signals : <<Record(s)>> \in Records
  BY RecordTyped DEF Records, Entry
<1>4. worker.at # "idle" => worker.signal \in Signals
  BY DEF RowsTyped, Workers, IdleWorker
<1>5. ClockTyped'
  <2>1. Fault => faults' \in 0 .. MaxFaults
    BY <1>1 DEF Fault, ClockTyped
  <2>2. CASE WriteBackFails \/ PersistFails \/ IngestFails \/ Restart
    BY <2>1, <2>2 DEF WriteBackFails, PersistFails, IngestFails, Restart, ClockTyped
  <2>3. CASE Advance
    BY <1>1, <2>3 DEF Advance, ClockTyped
  <2>4. CASE UNCHANGED <<phase, faults>>
    BY <2>4 DEF ClockTyped
  <2>5. QED
    BY <2>2, <2>3, <2>4 DEF Next, vars, Monitor, Exit, Analyze, RecordOutcome, WriteBack, Close, Report,
       SetBias, ExpireBias, ReadAnalysed, ReadClosed, Ingest, BiasExpires
<1>6. RowsTyped'
  <2>1. ASSUME NEW s \in Signals, Monitor(s) PROVE RowsTyped'
    BY <2>1, <1>2 DEF Monitor, RowsTyped, Rows
  <2>2. ASSUME NEW s \in Signals, Exit(s) PROVE RowsTyped'
    BY <2>2 DEF Exit, RowsTyped, Rows, Workers, At
  <2>3. CASE Analyze
    BY <2>3, <1>4 DEF Analyze, RowsTyped, Rows, Workers, At, Then, IdleWorker
  <2>4. CASE RecordOutcome
    BY <2>4, <1>4 DEF RecordOutcome, RowsTyped, Workers, At, Then, IdleWorker
  <2>5. CASE WriteBack
    BY <2>5, <1>4 DEF WriteBack, RowsTyped, Workers, At, Then, IdleWorker
  <2>6. CASE WriteBackFails \/ Restart
    BY <2>6 DEF WriteBackFails, Restart, RowsTyped, Workers
  <2>7. CASE Close
    BY <2>7, <1>4 DEF Close, RowsTyped, Rows, Workers, At, IdleWorker
  <2>8. CASE UNCHANGED <<row, outcome, born, worker>>
    BY <2>8 DEF RowsTyped
  <2>9. QED
    BY <2>1, <2>2, <2>3, <2>4, <2>5, <2>6, <2>7, <2>8
       DEF Next, vars, rowVars, Report, SetBias, ExpireBias, PersistFails, ReadAnalysed, ReadClosed,
           Ingest, IngestFails, BiasExpires, Advance
<1>7. JobStateTyped' /\ JobEvents'
  <2>1. CASE Report
    <3>1. ReportDates \subseteq Int \cup {None}
      BY <1>2 DEF ReportDates
    <3>2. QED
      BY <2>1, <3>1 DEF Report, JobStateTyped, JobEvents, Jobs, IdleJob, Closing, JobAt, OfToday
  <2>2. CASE SetBias \/ ExpireBias \/ PersistFails
    BY <2>2 DEF SetBias, ExpireBias, PersistFails, JobStateTyped, JobEvents, Jobs, Closing, JobAt, JobThen
  <2>3. CASE ReadAnalysed
    BY <2>3, CollectOne DEF ReadAnalysed, JobStateTyped, JobEvents, Jobs, Closing, JobAt
  <2>4. CASE ReadClosed
    <3> DEFINE events == [s \in Signals |-> eod.events[s] \o Collect("CLOSED")[s]]
    <3>1. events \in [Signals -> Records]
      <4>1. Records = Seq(Entry)
        BY DEF Records, Entry
      <4>2. eod.events \in [Signals -> Seq(Entry)] /\ Collect("CLOSED") \in [Signals -> Seq(Entry)]
        BY <2>4, <4>1, CollectOne DEF ReadClosed, JobEvents, JobAt
      <4>3. \A s \in Signals : eod.events[s] \o Collect("CLOSED")[s] \in Seq(Entry)
        BY <4>2
      <4>4. QED
        BY <4>1, <4>3
    <3>2. eod' = [eod EXCEPT !.at = "index", !.events = events]
      BY <2>4 DEF ReadClosed
    <3> HIDE DEF events
    <3>3. QED
      BY <2>4, <3>1, <3>2 DEF ReadClosed, JobStateTyped, JobEvents, Jobs, Closing
  <2>5. CASE Ingest \/ IngestFails \/ Restart
    <3>1. eod' = IdleJob /\ due' = due
      BY <2>5 DEF Ingest, IngestFails, Restart
    <3>2. eodDue' \in BOOLEAN
      BY <2>5 DEF Ingest, IngestFails, Restart, JobStateTyped
    <3>3. (finished /\ store = "qdrant") \in BOOLEAN
      OBVIOUS
    <3>4. finished' \in BOOLEAN
      BY <2>5, <3>3, Zenon DEF Ingest, IngestFails, Restart, JobStateTyped
    <3>5. QED
      BY <3>1, <3>2, <3>4 DEF JobStateTyped, JobEvents, Jobs, IdleJob
  <2>6. CASE Advance
    BY <2>6 DEF Advance, JobStateTyped, JobEvents, Session
  <2>7. CASE UNCHANGED jobVars
    BY <2>7 DEF jobVars, JobStateTyped, JobEvents
  <2>8. QED
    BY <2>1, <2>2, <2>3, <2>4, <2>5, <2>6, <2>7
       DEF Next, vars, Monitor, Exit, Analyze, RecordOutcome, WriteBack, WriteBackFails, Close, BiasExpires
<1>8. StoresTyped'
  <2>1. CASE WriteBack
    <3>1. worker.signal \in Signals
      BY <2>1, <1>4 DEF WriteBack, At
    <3>2. Upserted(worker.signal, <<Record(worker.signal)>>) \in Records
      BY <3>1, <1>3, UpsertAppends DEF StoresTyped
    <3>3. QED
      BY <2>1, <3>2 DEF WriteBack, StoresTyped
  <2>2. CASE Ingest
    <3>1. \A s \in Signals : Upserted(s, eod.events[s]) \in Records
      BY <2>2, UpsertAppends DEF Ingest, JobAt, JobEvents, StoresTyped
    <3>2. QED
      BY <2>2, <3>1 DEF Ingest, StoresTyped
  <2>3. CASE Restart
    <3>1. \A s \in Signals : Persistent(learned[s]) \in Records
      <4>1. ASSUME NEW s \in Signals PROVE Persistent(learned[s]) \in Records
        BY PersistentTyped DEF StoresTyped
      <4>2. QED
        BY <4>1
    <3>2. QED
      BY <2>3, <3>1 DEF Restart, StoresTyped
  <2>4. CASE UNCHANGED <<store, learned>>
    BY <2>4 DEF StoresTyped
  <2>5. QED
    BY <2>1, <2>2, <2>3, <2>4
       DEF Next, vars, Monitor, Exit, Analyze, RecordOutcome, WriteBackFails, Close, Report, SetBias,
           ExpireBias, PersistFails, ReadAnalysed, ReadClosed, IngestFails, BiasExpires, Advance
<1>9. BiasTyped'
  <2>1. CASE SetBias
    <3>1. eod.date \in Int \cup {None} /\ phase \in Phases
      BY DEF JobStateTyped, Jobs, ClockTyped
    <3>2. QED
      BY <2>1, <3>1 DEF SetBias, BiasTyped, Biases
  <2>2. CASE ExpireBias
    <3>1. phase \in Phases
      BY DEF ClockTyped
    <3>2. QED
      BY <2>2, <3>1 DEF ExpireBias, BiasTyped, Biases
  <2>3. CASE BiasExpires \/ UNCHANGED bias
    BY <2>3 DEF BiasExpires, BiasTyped, Biases
  <2>4. QED
    BY <2>1, <2>2, <2>3
       DEF Next, vars, Monitor, Exit, Analyze, RecordOutcome, WriteBack, WriteBackFails, Close, Report,
           PersistFails, ReadAnalysed, ReadClosed, Ingest, IngestFails, Advance, Restart
<1>10. QED
  BY <1>5, <1>6, <1>7, <1>8, <1>9

\* The values of all variables stay those that the code gives them.
THEOREM TypeCorrect == Spec => []TypeOK
<1>1. Init => Typed
  BY TypedInit
<1>2. Typed /\ [Next]_vars => Typed'
  BY TypedStep
<1>3. Typed => TypeOK
  BY TypedIsTypeOK
<1>4. QED
  BY <1>1, <1>2, <1>3, PTL DEF Spec

-----------------------------------------------------------------------------
(* The rows beside the tick thread and the job.                            *)

Structure == Typed /\ WorkerRow /\ OutcomeLate /\ EveningJob /\ DueRows /\ EventRows

LEMMA StructureInit == Init => Structure
BY TypedInit DEF Init, Structure, WorkerRow, OutcomeLate, Undecided, EveningJob, DueRows, EventRows,
                 IdleWorker, IdleJob

\* What a step of the tick thread does to the rows and the thread.
LEMMA WorkerSteps ==
  ASSUME Typed, WorkerRow
  PROVE  /\ \A s \in Signals : Exit(s) => /\ row[s] = "MONITORING" /\ row'[s] = "EXITED"
                                         /\ worker'.at = "exited" /\ worker'.signal = s
                                         /\ \A o \in Signals \ {s} : row'[o] = row[o]
         /\ worker.at # "idle" => worker.signal \in Signals
         /\ Analyze => /\ row[worker.signal] = "EXITED" /\ row'[worker.signal] = "ANALYZED"
                       /\ worker.at = "exited" /\ worker'.at = "analyzed" /\ worker'.signal = worker.signal
                       /\ \A o \in Signals \ {worker.signal} : row'[o] = row[o]
         /\ Close => /\ row[worker.signal] = "ANALYZED" /\ row'[worker.signal] = "CLOSED"
                     /\ worker.at = "indexed" /\ worker'.at = "idle" /\ worker'.signal = None
                     /\ \A o \in Signals \ {worker.signal} : row'[o] = row[o]
         /\ RecordOutcome => /\ worker.at = "analyzed" /\ worker'.at = "recorded"
                             /\ worker'.signal = worker.signal /\ outcome'[worker.signal] # None
                             /\ \A o \in Signals \ {worker.signal} : outcome'[o] = outcome[o]
         /\ WriteBack => /\ row[worker.signal] = "ANALYZED" /\ worker.at = "recorded"
                         /\ worker'.at = "indexed" /\ worker'.signal = worker.signal
         /\ WriteBackFails \/ Restart => worker'.at = "idle" /\ worker'.signal = None
<1>1. worker.at # "idle" => worker.signal \in Signals /\ worker \in [at : {"exited", "analyzed", "recorded", "indexed"}, signal : Signals]
  BY DEF Typed, RowsTyped, Workers, IdleWorker
<1>2. row \in [Signals -> Rows] /\ outcome \in [Signals -> Outcomes \cup {None}]
  BY DEF Typed, RowsTyped
<1>3. None \notin Outcomes
  BY EodAssumption DEF EodAssumption
<1>4. ASSUME NEW s \in Signals, Exit(s)
      PROVE  /\ row[s] = "MONITORING" /\ row'[s] = "EXITED" /\ worker'.at = "exited" /\ worker'.signal = s
             /\ \A o \in Signals \ {s} : row'[o] = row[o]
  BY <1>2, <1>4 DEF Exit
<1>5. ASSUME Analyze
      PROVE  /\ row[worker.signal] = "EXITED" /\ row'[worker.signal] = "ANALYZED"
             /\ worker.at = "exited" /\ worker'.at = "analyzed" /\ worker'.signal = worker.signal
             /\ \A o \in Signals \ {worker.signal} : row'[o] = row[o]
  BY <1>1, <1>2, <1>5 DEF Analyze, At, Then, WorkerRow
<1>6. ASSUME Close
      PROVE  /\ row[worker.signal] = "ANALYZED" /\ row'[worker.signal] = "CLOSED"
             /\ worker.at = "indexed" /\ worker'.at = "idle" /\ worker'.signal = None
             /\ \A o \in Signals \ {worker.signal} : row'[o] = row[o]
  BY <1>1, <1>2, <1>6 DEF Close, At, WorkerRow, IdleWorker
<1>7. ASSUME RecordOutcome
      PROVE  /\ worker.at = "analyzed" /\ worker'.at = "recorded"
             /\ worker'.signal = worker.signal /\ outcome'[worker.signal] # None
             /\ \A o \in Signals \ {worker.signal} : outcome'[o] = outcome[o]
  <2>1. PICK result \in Outcomes : outcome' = [outcome EXCEPT ![worker.signal] = result]
    BY <1>7 DEF RecordOutcome
  <2>2. QED
    BY <1>1, <1>2, <1>3, <1>7, <2>1 DEF RecordOutcome, At, Then
<1>8. ASSUME WriteBack
      PROVE  /\ row[worker.signal] = "ANALYZED" /\ worker.at = "recorded"
             /\ worker'.at = "indexed" /\ worker'.signal = worker.signal
  BY <1>1, <1>8 DEF WriteBack, At, Then, WorkerRow
<1>9. WriteBackFails \/ Restart => worker'.at = "idle" /\ worker'.signal = None
  <2>1. WriteBackFails \/ Restart => worker' = IdleWorker
    BY Zenon DEF WriteBackFails, Restart
  <2>2. QED
    BY <2>1 DEF IdleWorker
<1>10. QED
  BY <1>1, <1>4, <1>5, <1>6, <1>7, <1>8, <1>9

\* The steps that change no row, no outcome and no birthday.
RowsStay == row' = row /\ outcome' = outcome /\ born' = born

LEMMA JobSteps ==
  ASSUME Report \/ SetBias \/ ExpireBias \/ PersistFails \/ ReadAnalysed \/ ReadClosed \/ Ingest
         \/ IngestFails \/ BiasExpires \/ Advance \/ UNCHANGED vars
  PROVE  RowsStay /\ worker' = worker
BY DEF RowsStay, Report, SetBias, ExpireBias, PersistFails, ReadAnalysed, ReadClosed, Ingest,
       IngestFails, BiasExpires, Advance, vars, rowVars

LEMMA StructureStep == Structure /\ [Next]_vars => Structure'
<1> SUFFICES ASSUME Structure, [Next]_vars PROVE Structure'
  OBVIOUS
<1>1. Typed /\ Typed'
  BY TypedStep DEF Structure
<1>2. WorkerRow /\ OutcomeLate /\ EveningJob /\ DueRows /\ EventRows
  BY DEF Structure
<1>3. worker.at # "idle" => worker.signal \in Signals
  BY <1>1, <1>2, WorkerSteps
<1>4. row \in [Signals -> Rows] /\ outcome \in [Signals -> Outcomes \cup {None}] /\ born \in [Signals -> Nat]
      /\ None \notin Signals /\ phase \in Nat
  BY <1>1, EodAssumption DEF EodAssumption, Typed, RowsTyped, ClockTyped, Phases
<1>5. ASSUME NEW s \in Signals, Monitor(s)
      PROVE  /\ row[s] = "NONE" /\ row'[s] = "MONITORING" /\ born'[s] = Day /\ Session
             /\ worker' = worker /\ outcome' = outcome /\ eod' = eod /\ eodDue' = eodDue /\ phase' = phase
             /\ due' = due
             /\ \A o \in Signals \ {s} : row'[o] = row[o] /\ born'[o] = born[o]
  BY <1>4, <1>5 DEF Monitor, rowVars, jobVars
<1>6. WorkerRow'
  <2>1. ASSUME NEW s \in Signals, Monitor(s) PROVE WorkerRow'
    BY <1>2, <1>3, <1>5, <2>1 DEF WorkerRow
  <2>2. ASSUME NEW s \in Signals, Exit(s) PROVE WorkerRow'
    BY <1>1, <1>2, <2>2, WorkerSteps DEF WorkerRow
  <2>3. CASE Analyze \/ Close
    BY <1>1, <1>2, <2>3, WorkerSteps DEF WorkerRow
  <2>4. CASE RecordOutcome \/ WriteBack \/ WriteBackFails \/ Restart
    <3>1. row' = row
      BY <2>4 DEF RecordOutcome, WriteBack, WriteBackFails, Restart
    <3>2. QED
      BY <1>1, <1>2, <2>4, <3>1, WorkerSteps DEF WorkerRow
  <2>5. CASE RowsStay /\ worker' = worker
    BY <1>2, <2>5 DEF WorkerRow, RowsStay
  <2>6. QED
    BY <2>1, <2>2, <2>3, <2>4, <2>5, JobSteps DEF Next
<1>7. OutcomeLate'
  <2>1. ASSUME NEW s \in Signals, Monitor(s) PROVE OutcomeLate'
    BY <1>2, <1>3, <1>4, <1>5, <2>1 DEF OutcomeLate, Undecided
  <2>2. ASSUME NEW s \in Signals, Exit(s) PROVE OutcomeLate'
    <3>1. outcome' = outcome
      BY <2>2 DEF Exit
    <3>2. QED
      BY <1>1, <1>2, <2>2, <3>1, WorkerSteps DEF OutcomeLate, Undecided
  <2>3. CASE Analyze \/ Close
    <3>1. outcome' = outcome
      BY <2>3 DEF Analyze, Close
    <3>2. QED
      BY <1>1, <1>2, <1>4, <2>3, <3>1, WorkerSteps DEF OutcomeLate, Undecided
  <2>4. CASE RecordOutcome
    <3>1. row' = row
      BY <2>4 DEF RecordOutcome
    <3>2. row[worker.signal] = "ANALYZED"
      BY <1>1, <1>2, <2>4, WorkerSteps DEF WorkerRow
    <3>3. QED
      BY <1>1, <1>2, <1>4, <2>4, <3>1, <3>2, WorkerSteps DEF OutcomeLate, Undecided
  <2>5. CASE WriteBack \/ WriteBackFails \/ Restart
    <3>1. row' = row /\ outcome' = outcome
      BY <2>5 DEF WriteBack, WriteBackFails, Restart
    <3>2. QED
      BY <1>1, <1>2, <2>5, <3>1, WorkerSteps DEF OutcomeLate, Undecided
  <2>6. CASE RowsStay /\ worker' = worker
    BY <1>2, <2>6 DEF OutcomeLate, Undecided, RowsStay
  <2>7. QED
    BY <2>1, <2>2, <2>3, <2>4, <2>5, <2>6, JobSteps DEF Next
<1>8. EveningJob'
  <2>1. CASE Advance
    <3>1. eod' = eod /\ eod.at = "idle" /\ phase' = phase + 1 /\ eodDue' = Session
      BY <2>1 DEF Advance, JobAt
    <3>2. Session => (phase + 1) % 2 # 0
      BY <1>4 DEF Session
    <3>3. Session' = ((phase + 1) % 2 = 0)
      BY <3>1 DEF Session
    <3>4. QED
      BY <3>1, <3>2, <3>3 DEF EveningJob
  <2>2. CASE Report \/ SetBias \/ ExpireBias \/ PersistFails \/ ReadAnalysed \/ ReadClosed \/ Ingest \/ IngestFails
    <3>1. (eodDue \/ eod.at # "idle") /\ phase' = phase
      BY <2>2 DEF Report, SetBias, ExpireBias, PersistFails, ReadAnalysed, ReadClosed, Ingest, IngestFails, JobAt
    <3>2. QED
      BY <1>2, <3>1 DEF EveningJob, Session
  <2>3. CASE Restart
    <3>1. phase' = phase /\ eod'.at = "idle" /\ (eodDue' = eodDue \/ eodDue' = FALSE)
      BY <2>3 DEF Restart, IdleJob
    <3>2. QED
      BY <1>2, <3>1 DEF EveningJob, Session
  <2>4. CASE phase' = phase /\ eod' = eod /\ eodDue' = eodDue
    BY <1>2, <2>4 DEF EveningJob, Session
  <2>5. QED
    BY <2>1, <2>2, <2>3, <2>4 DEF Next, vars, jobVars, Monitor, Exit, Analyze, RecordOutcome, WriteBack,
       WriteBackFails, Close, BiasExpires
<1>9. ASSUME NEW s \in Signals, DayRow(s), phase' = phase,
             \/ (\E o \in Signals : Exit(o)) \/ Analyze \/ RecordOutcome \/ WriteBack \/ WriteBackFails
             \/ Close \/ BiasExpires \/ UNCHANGED vars
      PROVE  DayRow(s)'
  <2>1. Day' = Day
    BY <1>9 DEF Day
  <2>2. born' = born
    BY <1>9 DEF Exit, Analyze, RecordOutcome, WriteBack, WriteBackFails, Close, BiasExpires, vars, rowVars
  <2>3. row'[s] \in {"ANALYZED", "CLOSED"}
    BY <1>1, <1>2, <1>9, WorkerSteps
       DEF DayRow, Exit, Analyze, RecordOutcome, WriteBack, WriteBackFails, Close, BiasExpires, vars, rowVars
  <2>4. QED
    BY <1>9, <2>1, <2>2, <2>3 DEF DayRow
<1>10. DueRows'
  <2>1. due \subseteq Signals
    BY <1>1 DEF Typed, JobStateTyped
  <2>2. CASE Report
    <3>1. ~finished' /\ ~eodDue' /\ due' = {s \in OfToday("ANALYZED") \cup OfToday("CLOSED") : outcome[s] # None}
          /\ phase' = phase /\ RowsStay
      BY <2>2, JobSteps DEF Report
    <3>2. Day' = Day
      BY <3>1 DEF Day
    <3>3. QED
      BY <3>1, <3>2 DEF DueRows, DayRow, OfToday, RowsStay
  <2>3. CASE SetBias \/ ExpireBias \/ PersistFails \/ ReadAnalysed \/ ReadClosed
    <3>1. eod.at # "idle" /\ finished' = finished /\ eodDue' = eodDue /\ due' = due /\ phase' = phase /\ RowsStay
      BY <2>3, JobSteps DEF SetBias, ExpireBias, PersistFails, ReadAnalysed, ReadClosed, JobAt
    <3>2. Day' = Day
      BY <3>1 DEF Day
    <3>3. QED
      BY <1>2, <3>1, <3>2 DEF DueRows, DayRow, RowsStay
  <2>4. CASE Ingest \/ IngestFails \/ Restart
    <3>1. eod' = IdleJob
      BY <2>4, Zenon DEF Ingest, IngestFails, Restart
    <3>2. QED
      BY <3>1 DEF DueRows, IdleJob
  <2>5. CASE Advance
    <3>1. eod'.at = "idle"
      BY <2>5 DEF Advance, JobAt
    <3>2. QED
      BY <3>1 DEF DueRows
  <2>6. ASSUME NEW s \in Signals, Monitor(s) PROVE DueRows'
    <3>1. eod'.at = "idle"
      BY <1>2, <1>5, <2>6 DEF EveningJob
    <3>2. QED
      BY <3>1 DEF DueRows
  <2>7. CASE \/ (\E s \in Signals : Exit(s)) \/ Analyze \/ RecordOutcome \/ WriteBack \/ WriteBackFails
             \/ Close \/ BiasExpires \/ UNCHANGED vars
    <3>1. eod' = eod /\ finished' = finished /\ eodDue' = eodDue /\ due' = due /\ phase' = phase
      BY <2>7 DEF Exit, Analyze, RecordOutcome, WriteBack, WriteBackFails, Close, BiasExpires, vars,
                  rowVars, jobVars
    <3>2. ASSUME NEW s \in Signals, DayRow(s) PROVE DayRow(s)'
      BY <2>7, <3>1, <3>2, <1>9
    <3>3. ASSUME NEW s \in Signals, outcome[s] # None PROVE outcome'[s] # None
      BY <1>1, <1>2, <2>7, <3>3, WorkerSteps
         DEF Exit, Analyze, WriteBack, WriteBackFails, Close, BiasExpires, vars, rowVars
    <3>4. QED
      BY <1>2, <2>1, <3>1, <3>2, <3>3 DEF DueRows
  <2>8. QED
    BY <2>2, <2>3, <2>4, <2>5, <2>6, <2>7 DEF Next
<1>11. EventRows'
  <2>1. CASE ReadAnalysed
    <3>1. /\ eod'.events = Collect("ANALYZED") /\ phase' = phase /\ RowsStay
      BY <1>1, <2>1, JobSteps DEF ReadAnalysed, Typed, JobStateTyped, Jobs
    <3>2. Day' = Day
      BY <3>1 DEF Day
    <3>3. QED
      BY <3>1, <3>2, CollectOne DEF EventRows, DayRow, RowsStay, OfToday
  <2>2. CASE ReadClosed
    <3>1. /\ \A s \in Signals : eod'.events[s] = eod.events[s] \o Collect("CLOSED")[s]
          /\ phase' = phase /\ RowsStay /\ eod.at = "closed"
      BY <1>1, <2>2, JobSteps DEF ReadClosed, Typed, JobStateTyped, Jobs, JobAt
    <3>2. Day' = Day
      BY <3>1 DEF Day
    <3>3. ASSUME NEW s \in Signals, eod'.events[s] # <<>> PROVE DayRow(s)
      <4>1. CASE eod.events[s] # <<>>
        BY <1>2, <3>1, <4>1 DEF EventRows
      <4>2. CASE Collect("CLOSED")[s] # <<>>
        BY <4>2, CollectOne DEF OfToday, DayRow
      <4>3. CASE eod.events[s] = <<>> /\ Collect("CLOSED")[s] = <<>>
        <5>1. <<>> \o <<>> = <<>>
          OBVIOUS
        <5>2. eod'.events[s] = <<>>
          BY <3>1, <4>3, <5>1
        <5>3. QED
          BY <3>3, <5>2
      <4>4. QED
        BY <4>1, <4>2, <4>3
    <3>4. QED
      BY <3>1, <3>2, <3>3 DEF EventRows, DayRow, RowsStay
  <2>3. CASE Report \/ SetBias \/ ExpireBias \/ PersistFails \/ Ingest \/ IngestFails \/ Restart \/ Advance
    <3>1. CASE Report \/ SetBias \/ ExpireBias \/ PersistFails \/ Advance
      BY <1>1, <3>1 DEF EventRows, Report, SetBias, ExpireBias, PersistFails, Advance, JobAt, JobThen, IdleJob,
         Typed, JobStateTyped, Jobs
    <3>2. CASE Ingest \/ IngestFails \/ Restart
      <4>1. eod' = IdleJob
        BY <3>2, Zenon DEF Ingest, IngestFails, Restart
      <4>2. QED
        BY <4>1 DEF EventRows, IdleJob
    <3>3. QED
      BY <2>3, <3>1, <3>2
  <2>4. ASSUME NEW s \in Signals, Monitor(s) PROVE EventRows'
    <3>1. eod'.at = "idle"
      BY <1>2, <1>5, <2>4 DEF EveningJob
    <3>2. QED
      BY <3>1 DEF EventRows
  <2>5. CASE \/ (\E s \in Signals : Exit(s)) \/ Analyze \/ RecordOutcome \/ WriteBack \/ WriteBackFails
             \/ Close \/ BiasExpires \/ UNCHANGED vars
    <3>1. eod' = eod /\ phase' = phase
      BY <2>5 DEF Exit, Analyze, RecordOutcome, WriteBack, WriteBackFails, Close, BiasExpires, vars,
                  rowVars, jobVars
    <3>2. ASSUME NEW s \in Signals, DayRow(s) PROVE DayRow(s)'
      BY <2>5, <3>1, <3>2, <1>9
    <3>3. QED
      BY <1>2, <3>1, <3>2 DEF EventRows
  <2>6. QED
    BY <2>1, <2>2, <2>3, <2>4, <2>5 DEF Next
<1>12. QED
  BY <1>1, <1>6, <1>7, <1>8, <1>10, <1>11 DEF Structure

-----------------------------------------------------------------------------
(* What the stores and the job's events hold.                              *)

\* The steps that leave the stores alone, and those that leave the events alone.
LEMMA StoresStay ==
  ASSUME [Next]_vars, ~WriteBack, ~Ingest, ~Restart
  PROVE  learned' = learned /\ store' = store
BY DEF Next, vars, Monitor, Exit, Analyze, RecordOutcome, WriteBackFails, Close, Report, SetBias,
       ExpireBias, PersistFails, ReadAnalysed, ReadClosed, IngestFails, BiasExpires, Advance

LEMMA EventsStay ==
  ASSUME Typed, [Next]_vars, ~ReadAnalysed, ~ReadClosed, eod'.at \in {"closed", "index"}
  PROVE  eod' = eod /\ due' = due /\ store' = store
<1>1. CASE Report \/ SetBias \/ ExpireBias \/ PersistFails
  BY <1>1 DEF Report, SetBias, ExpireBias, PersistFails, JobAt, JobThen, IdleJob, Typed, JobStateTyped, Jobs
<1>2. CASE Ingest \/ IngestFails \/ Restart
  <2>1. eod' = IdleJob
    BY <1>2, Zenon DEF Ingest, IngestFails, Restart
  <2>2. QED
    BY <2>1 DEF IdleJob
<1>3. CASE Advance \/ BiasExpires \/ UNCHANGED vars
  BY <1>3 DEF Advance, BiasExpires, vars, jobVars
<1>4. CASE \/ (\E s \in Signals : Monitor(s) \/ Exit(s))
           \/ Analyze \/ RecordOutcome \/ WriteBack \/ WriteBackFails \/ Close
  BY <1>4 DEF Monitor, Exit, Analyze, RecordOutcome, WriteBack, WriteBackFails, Close, jobVars
<1>5. QED
  BY <1>1, <1>2, <1>3, <1>4 DEF Next

\* What the two queries leave in the events.
LEMMA EventsRead ==
  ASSUME Structure, ReadAnalysed \/ ReadClosed, NEW s \in Signals
  PROVE  /\ RowsStay /\ due' = due /\ store' = store
         /\ ReadAnalysed => eod'.at = "closed" /\ eod'.events[s] = Collect("ANALYZED")[s]
         /\ ReadClosed => /\ eod.at = "closed" /\ eod'.at = "index" /\ eod.events[s] \in Seq(Entry)
                          /\ eod'.events[s] = eod.events[s] \o Collect("CLOSED")[s]
<1>1. RowsStay /\ due' = due /\ store' = store
  BY JobSteps DEF ReadAnalysed, ReadClosed
<1>2. ReadAnalysed => eod'.at = "closed" /\ eod'.events[s] = Collect("ANALYZED")[s]
  BY DEF Structure, ReadAnalysed, Typed, JobStateTyped, Jobs
<1>3. ReadClosed => /\ eod.at = "closed" /\ eod'.at = "index"
                    /\ eod'.events[s] = eod.events[s] \o Collect("CLOSED")[s]
  <2> DEFINE events == [o \in Signals |-> eod.events[o] \o Collect("CLOSED")[o]]
  <2>1. events[s] = eod.events[s] \o Collect("CLOSED")[s]
    OBVIOUS
  <2>2. ReadClosed => eod.at = "closed" /\ eod' = [eod EXCEPT !.at = "index", !.events = events]
    BY DEF ReadClosed, JobAt
  <2> HIDE DEF events
  <2>3. ReadClosed => eod'.at = "index" /\ eod'.events = events
    BY <2>2 DEF Structure, Typed, JobStateTyped, Jobs
  <2>4. QED
    BY <2>1, <2>2, <2>3
<1>4. eod.at = "closed" => eod.events[s] \in Seq(Entry)
  BY DEF Structure, Typed, JobEvents, Records, Entry
<1>5. QED
  BY <1>1, <1>2, <1>3, <1>4

\* An outcome that was written does not change.
LEMMA OutcomeStays ==
  ASSUME Structure, [Next]_vars, NEW s \in Signals, outcome[s] # None
  PROVE  outcome'[s] = outcome[s]
<1>1. CASE RecordOutcome
  <2>1. worker.at = "analyzed" /\ \A o \in Signals \ {worker.signal} : outcome'[o] = outcome[o]
    BY <1>1, WorkerSteps DEF Structure
  <2>2. s # worker.signal
    BY <2>1 DEF Structure, OutcomeLate, Undecided
  <2>3. QED
    BY <2>1, <2>2
<1>2. CASE ~RecordOutcome
  <2>1. outcome' = outcome
    BY <1>2, JobSteps DEF RowsStay, Next, Monitor, Exit, Analyze, WriteBack, WriteBackFails, Close, Restart
  <2>2. QED
    BY <2>1
<1>3. QED
  BY <1>1, <1>2

LEMMA SaysStays ==
  ASSUME Structure, [Next]_vars, NEW s \in Signals, NEW r, Says(s, r)
  PROVE  Says(s, r)'
<1>1. CASE r.early
  BY <1>1 DEF Says
<1>2. CASE ~r.early
  <2>1. outcome'[s] = outcome[s]
    BY <1>2, OutcomeStays DEF Says
  <2>2. QED
    BY <1>2, <2>1 DEF Says, Label
<1>3. QED
  BY <1>1, <1>2

LEMMA RecordSays == ASSUME NEW s \in Signals PROVE Says(s, Record(s))
BY RecordTyped DEF Says

\* The record of a row in a store or among the events.
LEMMA RecordsSayInit == Init => RecordsSay
BY DEF Init, RecordsSay, IdleJob

LEMMA RecordsSayStep ==
  ASSUME Structure, RecordsSay, KeptFirst, [Next]_vars
  PROVE  RecordsSay'
<1>1. Typed /\ learned \in [Signals -> Records]
  BY DEF Structure, Typed, StoresTyped
<1>2. ASSUME NEW s \in Signals PROVE \A i \in DOMAIN learned'[s] : Says(s, learned'[s][i])
  <2>1. CASE WriteBack
    <3>1. worker.signal \in Signals /\ learned' = [learned EXCEPT ![worker.signal] = Upserted(worker.signal, <<Record(worker.signal)>>)]
      BY <2>1, <1>1, WorkerSteps DEF WriteBack, At, Structure
    <3>2. CASE s = worker.signal
      <4>1. <<Record(s)>> \in Records /\ DOMAIN <<Record(s)>> = {1} /\ <<Record(s)>>[1] = Record(s)
        BY RecordTyped DEF Records, Entry
      <4>2. learned'[s] = Upserted(s, <<Record(s)>>)
        BY <1>1, <3>1, <3>2
      <4>3. \A i \in DOMAIN learned'[s] :
              \/ i \in DOMAIN learned[s] /\ learned'[s][i] = learned[s][i]
              \/ learned'[s][i] = Record(s)
        BY <1>1, <4>1, <4>2, UpsertAppends
      <4>4. QED
        BY <4>3, RecordSays DEF RecordsSay
    <3>3. CASE s # worker.signal
      BY <1>1, <3>1, <3>3 DEF RecordsSay
    <3>4. QED
      BY <3>2, <3>3
  <2>2. CASE Ingest
    <3>1. learned'[s] = Upserted(s, eod.events[s]) /\ eod.events[s] \in Records /\ eod.at = "index"
      BY <1>1, <2>2 DEF Ingest, JobAt, Typed, JobEvents
    <3>2. \A i \in DOMAIN learned'[s] :
              \/ i \in DOMAIN learned[s] /\ learned'[s][i] = learned[s][i]
              \/ \E j \in DOMAIN eod.events[s] : learned'[s][i] = eod.events[s][j]
      BY <1>1, <3>1, UpsertAppends
    <3>3. QED
      BY <3>1, <3>2 DEF RecordsSay
  <2>3. CASE Restart
    <3>1. learned'[s] = Persistent(learned[s])
      BY <2>3 DEF Restart
    <3>2. \A i \in DOMAIN learned'[s] : i \in DOMAIN learned[s] /\ learned'[s][i] = learned[s][i]
      BY <1>1, <3>1, PersistentIsPrefix DEF KeptFirst
    <3>3. QED
      BY <3>2 DEF RecordsSay
  <2>4. CASE ~WriteBack /\ ~Ingest /\ ~Restart
    BY <2>4, StoresStay DEF RecordsSay
  <2>5. QED
    BY <2>1, <2>2, <2>3, <2>4
<1>3. ASSUME eod'.at \in {"closed", "index"}, NEW s \in Signals
      PROVE  \A i \in DOMAIN eod'.events[s] : Says(s, eod'.events[s][i])
  <2>1. \A status : \A i \in DOMAIN Collect(status)[s] : Says(s, Collect(status)[s][i])
    <3>1. DOMAIN <<Record(s)>> = {1} /\ <<Record(s)>>[1] = Record(s) /\ DOMAIN <<>> = {}
      OBVIOUS
    <3>2. QED
      BY <3>1, CollectOne, RecordSays
  <2>2. CASE ReadAnalysed
    BY <2>1, <2>2, EventsRead
  <2>3. CASE ReadClosed
    <3> DEFINE a == eod.events[s]
               b == Collect("CLOSED")[s]
    <3>1. a \in Seq(Entry) /\ b \in Seq(Entry) /\ eod'.events[s] = a \o b /\ eod.at = "closed"
      BY <2>3, EventsRead, CollectOne DEF Records, Entry
    <3>2. \A i \in DOMAIN a : Says(s, a[i])
      BY <3>1 DEF RecordsSay
    <3>3. \A i \in DOMAIN b : Says(s, b[i])
      BY <2>1
    <3> HIDE DEF a, b
    <3>4. \A i \in DOMAIN (a \o b) : (\E j \in DOMAIN a : (a \o b)[i] = a[j]) \/ (\E j \in DOMAIN b : (a \o b)[i] = b[j])
      BY <3>1, ConcatElements
    <3>5. QED
      BY <3>1, <3>2, <3>3, <3>4
  <2>4. CASE ~ReadAnalysed /\ ~ReadClosed
    BY <1>1, <1>3, <2>4, EventsStay DEF RecordsSay
  <2>5. QED
    BY <2>2, <2>3, <2>4
<1>4. \A s \in Signals : \A r : Says(s, r) => Says(s, r)'
  <2>1. ASSUME NEW s \in Signals, NEW r, Says(s, r) PROVE Says(s, r)'
    BY <2>1, SaysStays
  <2>2. QED
    BY <2>1
<1>5. QED
  BY <1>2, <1>3, <1>4 DEF RecordsSay

\* Stores in order stay in order when a process adds records of its own kind.
Ordered(records) == \A i, j \in DOMAIN records : i <= j /\ records[j].kept => records[i].kept
AllKept(records) == \A i \in DOMAIN records : records[i].kept

LEMMA KeptAppended ==
  ASSUME learned \in [Signals -> Records], NEW s \in Signals, NEW records \in Records,
         Ordered(learned[s]), store = "qdrant" => AllKept(learned[s]),
         \A i \in DOMAIN records : records[i].kept = (store = "qdrant")
  PROVE  LET after == Upserted(s, records) IN
           Ordered(after) /\ (store = "qdrant" => AllKept(after))
<1> DEFINE a == learned[s]
           after == Upserted(s, records)
<1>1. /\ after \in Records /\ Len(after) = Len(a) + Len(records)
      /\ \A i \in DOMAIN a : i \in DOMAIN after /\ after[i] = a[i]
      /\ \A i \in DOMAIN after : i \notin DOMAIN a =>
           i - Len(a) \in DOMAIN records /\ after[i] = records[i - Len(a)]
  BY UpsertAppends
<1>2. DOMAIN a = 1 .. Len(a) /\ DOMAIN after = 1 .. Len(after) /\ Len(a) \in Nat /\ Len(after) \in Nat
  BY <1>1 DEF Records
<1> HIDE DEF a, after
<1>3. Ordered(a) /\ (store = "qdrant" => AllKept(a))
  BY DEF a
<1>4. ASSUME NEW i \in DOMAIN after, i \notin DOMAIN a PROVE after[i].kept = (store = "qdrant")
  BY <1>1, <1>4
<1>5. CASE store = "qdrant"
  <2>1. \A i \in DOMAIN after : after[i].kept
    BY <1>1, <1>3, <1>4, <1>5 DEF AllKept
  <2>2. QED
    BY <2>1 DEF Ordered, AllKept, after
<1>6. CASE store # "qdrant"
  <2>1. ASSUME NEW i \in DOMAIN after, NEW j \in DOMAIN after, i <= j, after[j].kept PROVE after[i].kept
    <3>1. j \in DOMAIN a
      BY <1>4, <1>6, <2>1
    <3>2. i \in DOMAIN a
      BY <1>2, <2>1, <3>1
    <3>3. QED
      BY <1>1, <1>3, <2>1, <3>1, <3>2 DEF Ordered
  <2>2. QED
    BY <1>6, <2>1 DEF Ordered, after
<1>7. QED
  BY <1>5, <1>6

LEMMA KeptFirstInit == Init => KeptFirst
BY DEF Init, KeptFirst, IdleJob

LEMMA KeptFirstStep ==
  ASSUME Structure, KeptFirst, [Next]_vars
  PROVE  KeptFirst'
<1>1. Typed /\ learned \in [Signals -> Records]
  BY DEF Structure, Typed, StoresTyped
<1>2. \A s \in Signals : Ordered(learned[s]) /\ (store = "qdrant" => AllKept(learned[s]))
  BY DEF KeptFirst, Ordered, AllKept
<1>3. ASSUME NEW s \in Signals PROVE Ordered(learned'[s]) /\ (store' = "qdrant" => AllKept(learned'[s]))
  <2>1. CASE WriteBack
    <3>1. worker.signal \in Signals /\ learned' = [learned EXCEPT ![worker.signal] = Upserted(worker.signal, <<Record(worker.signal)>>)]
      BY <2>1, <1>1, WorkerSteps DEF WriteBack, At, Structure
    <3>2. store' = store
      BY <2>1 DEF WriteBack
    <3>3. CASE s = worker.signal
      <4>1. <<Record(s)>> \in Records /\ \A i \in DOMAIN <<Record(s)>> : <<Record(s)>>[i].kept = (store = "qdrant")
        BY RecordTyped DEF Records, Entry
      <4>2. learned'[s] = Upserted(s, <<Record(s)>>)
        BY <1>1, <3>1, <3>3
      <4>3. QED
        BY <1>1, <1>2, <3>2, <4>1, <4>2, KeptAppended
    <3>4. CASE s # worker.signal
      BY <1>1, <1>2, <3>1, <3>2, <3>4
    <3>5. QED
      BY <3>3, <3>4
  <2>2. CASE Ingest
    <3>1. learned'[s] = Upserted(s, eod.events[s]) /\ eod.events[s] \in Records /\ eod.at = "index" /\ store' = store
      BY <1>1, <2>2 DEF Ingest, JobAt, Typed, JobEvents
    <3>2. \A i \in DOMAIN eod.events[s] : eod.events[s][i].kept = (store = "qdrant")
      BY <3>1 DEF KeptFirst
    <3>3. QED
      BY <1>1, <1>2, <3>1, <3>2, KeptAppended
  <2>3. CASE Restart
    <3>1. learned'[s] = Persistent(learned[s])
      BY <2>3 DEF Restart
    <3>2. AllKept(learned'[s])
      BY <1>1, <1>2, <3>1, PersistentIsPrefix DEF Ordered, AllKept
    <3>3. QED
      BY <3>2 DEF AllKept, Ordered
  <2>4. CASE ~WriteBack /\ ~Ingest /\ ~Restart
    BY <1>2, <2>4, StoresStay
  <2>5. QED
    BY <2>1, <2>2, <2>3, <2>4
<1>4. ASSUME eod'.at \in {"closed", "index"}, NEW s \in Signals
      PROVE  \A i \in DOMAIN eod'.events[s] : eod'.events[s][i].kept = (store' = "qdrant")
  <2>1. \A status : \A i \in DOMAIN Collect(status)[s] : Collect(status)[s][i].kept = (store = "qdrant")
    <3>1. DOMAIN <<Record(s)>> = {1} /\ <<Record(s)>>[1] = Record(s) /\ DOMAIN <<>> = {}
      OBVIOUS
    <3>2. QED
      BY <3>1, CollectOne, RecordTyped
  <2>2. CASE ReadAnalysed
    BY <2>1, <2>2, EventsRead
  <2>3. CASE ReadClosed
    <3> DEFINE a == eod.events[s]
               b == Collect("CLOSED")[s]
    <3>1. a \in Seq(Entry) /\ b \in Seq(Entry) /\ eod'.events[s] = a \o b /\ eod.at = "closed" /\ store' = store
      BY <2>3, EventsRead, CollectOne DEF Records, Entry
    <3>2. \A i \in DOMAIN a : a[i].kept = (store = "qdrant")
      BY <3>1 DEF KeptFirst
    <3>3. \A i \in DOMAIN b : b[i].kept = (store = "qdrant")
      BY <2>1
    <3> HIDE DEF a, b
    <3>4. \A i \in DOMAIN (a \o b) : (\E j \in DOMAIN a : (a \o b)[i] = a[j]) \/ (\E j \in DOMAIN b : (a \o b)[i] = b[j])
      BY <3>1, ConcatElements
    <3>5. QED
      BY <3>1, <3>2, <3>3, <3>4
  <2>4. CASE ~ReadAnalysed /\ ~ReadClosed
    BY <1>1, <1>4, <2>4, EventsStay DEF KeptFirst
  <2>5. QED
    BY <2>2, <2>3, <2>4
<1>5. QED
  BY <1>3, <1>4 DEF KeptFirst, Ordered, AllKept

-----------------------------------------------------------------------------
(* What is learned, and that the job learns it.                            *)

LearnInv == Structure /\ KeptFirst /\ RecordsSay

LEMMA LearnInvInductive == (Init => LearnInv) /\ (LearnInv /\ [Next]_vars => LearnInv')
BY StructureInit, StructureStep, KeptFirstInit, KeptFirstStep, RecordsSayInit, RecordsSayStep DEF LearnInv

LEMMA LearnInvSays == LearnInv => LearnsTheOutcome
<1> SUFFICES ASSUME LearnInv, NEW s \in Signals, NEW i \in DOMAIN learned[s], ~learned[s][i].early
             PROVE  /\ outcome[s] = "WIN" <=> learned[s][i].label = "TARGET_HIT"
                    /\ learned[s][i].label = "SL_HIT"
                         <=> outcome[s] = "BE" \/ (outcome[s] = "LOSS" /\ TrapType[s] = "NONE")
  BY DEF LearnsTheOutcome
<1>1. outcome[s] # None /\ learned[s][i].label = Label(s, outcome[s])
  BY DEF LearnInv, RecordsSay, Says
<1>2. outcome[s] \in Outcomes
  BY <1>1 DEF LearnInv, Structure, Typed, RowsTyped
<1>3. TrapType[s] \in TrapTypes
  BY EodAssumption DEF EodAssumption
<1>4. QED
  BY <1>1, <1>2, <1>3 DEF Label, Outcomes, TrapTypes

\* What the trap memory holds of a signal agrees with its row, unless the row was
\* read before its outcome was written.
THEOREM LearnsRight == Spec => []LearnsTheOutcome
BY LearnInvInductive, LearnInvSays, PTL DEF Spec

\* Closed rows stay closed.
LEMMA ClosedStays ==
  ASSUME Structure, [Next]_vars, NEW s \in Signals, row[s] = "CLOSED"
  PROVE  row'[s] = "CLOSED"
<1>1. CASE \E o \in Signals : Monitor(o)
  BY <1>1 DEF Monitor, Structure, Typed, RowsTyped
<1>2. CASE (\E o \in Signals : Exit(o)) \/ Analyze \/ Close
  BY <1>2, WorkerSteps DEF Structure
<1>3. CASE RecordOutcome \/ WriteBack \/ WriteBackFails \/ Restart
  <2>1. row' = row
    BY <1>3, Zenon DEF RecordOutcome, WriteBack, WriteBackFails, Restart
  <2>2. QED
    BY <2>1
<1>4. CASE RowsStay
  BY <1>4 DEF RowsStay
<1>5. QED
  BY <1>1, <1>2, <1>3, <1>4, JobSteps DEF Next

LEMMA CoveredStep ==
  ASSUME Structure, Covered, [Next]_vars
  PROVE  Covered'
<1>1. due \subseteq Signals /\ Typed
  BY DEF Structure, Typed, JobStateTyped
<1>2. \A s \in Signals : <<Record(s)>> # <<>>
  OBVIOUS
<1>3. CASE ReadAnalysed
  <2>1. eod.at # "idle"
    BY <1>3 DEF ReadAnalysed, JobAt
  <2>2. ASSUME NEW s \in due PROVE eod'.events[s] # <<>> \/ row'[s] = "CLOSED"
    <3>1. DayRow(s)
      BY <2>1 DEF Structure, DueRows
    <3>2. row[s] = "ANALYZED" => s \in OfToday("ANALYZED")
      BY <1>1, <3>1 DEF DayRow, OfToday
    <3>3. eod'.events[s] = Collect("ANALYZED")[s] /\ row' = row
      BY <1>1, <1>3, EventsRead DEF RowsStay
    <3>4. QED
      BY <1>1, <1>2, <3>1, <3>2, <3>3, CollectOne DEF DayRow
  <2>3. eod'.at = "closed" /\ due' = due
    <3>1. CASE Signals = {}
      BY <1>3 DEF ReadAnalysed, Structure, Typed, JobStateTyped, Jobs
    <3>2. CASE Signals # {}
      BY <1>3, <3>2, EventsRead
    <3>3. QED
      BY <3>1, <3>2
  <2>4. QED
    BY <2>2, <2>3 DEF Covered
<1>4. CASE ReadClosed
  <2>1. ASSUME NEW s \in due PROVE eod'.events[s] # <<>>
    <3> DEFINE a == eod.events[s]
               b == Collect("CLOSED")[s]
    <3>1. a \in Seq(Entry) /\ b \in Seq(Entry) /\ eod'.events[s] = a \o b /\ eod.at = "closed" /\ s \in Signals
      BY <1>1, <1>4, EventsRead, CollectOne DEF Records, Entry
    <3>2. DayRow(s)
      BY <3>1 DEF Structure, DueRows
    <3>3. row[s] = "CLOSED" => s \in OfToday("CLOSED")
      BY <3>1, <3>2 DEF DayRow, OfToday
    <3>4. a # <<>> \/ b # <<>>
      BY <1>2, <3>1, <3>3, CollectOne DEF Covered
    <3> HIDE DEF a, b
    <3>5. QED
      BY <3>1, <3>4, ConcatEqualIffEmpty, ConcatElements
  <2>2. eod'.at = "index" /\ due' = due
    <3>1. CASE due = {}
      BY <1>1, <1>4, <3>1 DEF ReadClosed, Typed, JobStateTyped, Jobs
    <3>2. CASE due # {}
      BY <1>1, <1>4, <3>2, EventsRead
    <3>3. QED
      BY <3>1, <3>2
  <2>3. QED
    BY <2>1, <2>2 DEF Covered
<1>5. CASE ~ReadAnalysed /\ ~ReadClosed
  <2>1. SUFFICES ASSUME eod'.at \in {"closed", "index"} PROVE Covered'
    BY DEF Covered
  <2>2. eod' = eod /\ due' = due
    BY <1>1, <1>5, <2>1, EventsStay
  <2>3. \A s \in due : row[s] = "CLOSED" => row'[s] = "CLOSED"
    BY <1>1, ClosedStays
  <2>4. QED
    BY <2>2, <2>3 DEF Covered
<1>6. QED
  BY <1>3, <1>4, <1>5

LEMMA RecoversStep ==
  ASSUME LearnInv, Covered, EodRecovers, [Next]_vars
  PROVE  EodRecovers'
<1>1. /\ due \subseteq Signals /\ Typed /\ learned \in [Signals -> Records]
      /\ \A s \in Signals : learned[s] \in Seq(Entry)
  BY DEF LearnInv, Structure, Typed, JobStateTyped, StoresTyped, Records, Entry
<1>2. CASE Report
  BY <1>2 DEF Report, EodRecovers
<1>3. CASE Ingest
  <2>1. ASSUME NEW s \in due PROVE learned'[s] # <<>>
    <3> DEFINE a == learned[s]
               b == eod.events[s]
    <3>1. learned'[s] = a \o b /\ b \in Seq(Entry) /\ a \in Seq(Entry) /\ eod.at = "index"
      BY <1>1, <1>3 DEF Ingest, JobAt, Typed, JobEvents, Upserted, Records, Entry
    <3>2. b # <<>>
      BY <3>1 DEF Covered
    <3> HIDE DEF a, b
    <3>3. Len(a \o b) = Len(a) + Len(b) /\ Len(a) >= 0 /\ Len(b) > 0
      BY <3>1, <3>2
    <3>4. QED
      BY <3>1, <3>3
  <2>2. due' = due
    BY <1>3 DEF Ingest
  <2>3. QED
    BY <2>1, <2>2 DEF EodRecovers
<1>4. CASE Restart
  <2>1. due' = due /\ (finished' => finished /\ store = "qdrant")
        /\ \A s \in Signals : learned'[s] = Persistent(learned[s])
    BY <1>4, Zenon DEF Restart
  <2>2. store = "qdrant" => \A s \in Signals : learned'[s] = learned[s]
    <3>1. SUFFICES ASSUME store = "qdrant", NEW s \in Signals PROVE learned'[s] = learned[s]
      OBVIOUS
    <3>2. \A i \in DOMAIN learned[s] : learned[s][i].kept
      BY <3>1 DEF LearnInv, KeptFirst
    <3>3. Persistent(learned[s]) = learned[s]
      BY <1>1, <3>2, PersistentIsPrefix
    <3>4. QED
      BY <2>1, <3>3
  <2>3. QED
    BY <1>1, <2>1, <2>2 DEF EodRecovers
<1>5. CASE WriteBack
  <2>1. due' = due /\ finished' = finished /\ worker.signal \in Signals
        /\ learned' = [learned EXCEPT ![worker.signal] = Upserted(worker.signal, <<Record(worker.signal)>>)]
    BY <1>1, <1>5, WorkerSteps DEF WriteBack, jobVars, At, LearnInv, Structure
  <2>2. Upserted(worker.signal, <<Record(worker.signal)>>) # <<>>
    <3>1. <<Record(worker.signal)>> \in Records /\ Len(<<Record(worker.signal)>>) = 1
      BY <2>1, RecordTyped DEF Records, Entry
    <3>2. Len(Upserted(worker.signal, <<Record(worker.signal)>>)) = Len(learned[worker.signal]) + 1
      BY <1>1, <2>1, <3>1, UpsertAppends
    <3>3. Len(learned[worker.signal]) \in Nat
      BY <1>1, <2>1
    <3>4. QED
      BY <3>2, <3>3
  <2>3. \A s \in Signals : learned[s] # <<>> => learned'[s] # <<>>
    BY <1>1, <2>1, <2>2
  <2>4. QED
    BY <1>1, <2>1, <2>3 DEF EodRecovers
<1>6. CASE ~Report /\ ~Ingest /\ ~Restart /\ ~WriteBack
  <2>1. finished' = finished /\ due' = due
    BY <1>6 DEF Next, vars, jobVars, Monitor, Exit, Analyze, RecordOutcome, WriteBackFails, Close, SetBias,
       ExpireBias, PersistFails, ReadAnalysed, ReadClosed, IngestFails, BiasExpires, Advance
  <2>2. QED
    BY <1>6, <2>1, StoresStay DEF EodRecovers
<1>7. QED
  BY <1>2, <1>3, <1>4, <1>5, <1>6

\* A run that ends has taught the memory every signal that was analysed when it began.
THEOREM JobRecovers == Spec => []EodRecovers
<1> DEFINE Inv == LearnInv /\ Covered /\ EodRecovers
<1>1. Init => Inv
  BY LearnInvInductive DEF Init, Covered, EodRecovers, IdleJob
<1>2. Inv /\ [Next]_vars => Inv'
  BY LearnInvInductive, CoveredStep, RecoversStep DEF LearnInv
<1>3. Inv => EodRecovers
  OBVIOUS
<1>4. QED
  BY <1>1, <1>2, <1>3, PTL DEF Spec

-----------------------------------------------------------------------------
(* How often a signal is learned.                                          *)

\* What is past stays past.
LEMMA PastStays ==
  ASSUME Structure, [Next]_vars, NEW s \in Signals
  PROVE  Written(s) <= Written(s)' /\ Taught(s) <= Taught(s)'
<1>1. /\ phase \in Nat /\ born \in [Signals -> Nat] /\ row \in [Signals -> Rows] /\ Typed /\ WorkerRow
      /\ worker.at \in {"idle", "exited", "analyzed", "recorded", "indexed"} /\ None \notin Signals
  BY EodAssumption DEF EodAssumption, Structure, Typed, ClockTyped, Phases, RowsTyped, Workers, IdleWorker
<1>2. Written(s) <= Written(s)'
  <2>1. SUFFICES ASSUME row[s] \in {"ANALYZED", "CLOSED"},
                        ~(worker.signal = s /\ worker.at \in {"exited", "analyzed", "recorded"})
                 PROVE  /\ row'[s] \in {"ANALYZED", "CLOSED"}
                        /\ ~(worker'.signal = s /\ worker'.at \in {"exited", "analyzed", "recorded"})
    BY <1>1 DEF Written, Rows
  <2>2. CASE \E o \in Signals : Monitor(o)
    BY <1>1, <2>1, <2>2 DEF Monitor
  <2>3. CASE (\E o \in Signals : Exit(o)) \/ Analyze \/ Close
    BY <1>1, <2>1, <2>3, WorkerSteps
  <2>4. CASE RecordOutcome \/ WriteBack \/ WriteBackFails \/ Restart
    <3>1. row' = row
      BY <2>4, Zenon DEF RecordOutcome, WriteBack, WriteBackFails, Restart
    <3>2. QED
      BY <1>1, <2>1, <2>4, <3>1, WorkerSteps
  <2>5. CASE RowsStay /\ worker' = worker
    BY <2>1, <2>5 DEF RowsStay
  <2>6. QED
    BY <2>2, <2>3, <2>4, <2>5, JobSteps DEF Next
<1>3. Taught(s) <= Taught(s)'
  <2>1. SUFFICES ASSUME row[s] # "NONE", phase > 2 * born[s], ~(phase = 2 * born[s] + 1 /\ Awaited)
                 PROVE  /\ row'[s] # "NONE" /\ phase' > 2 * born'[s]
                        /\ ~(phase' = 2 * born'[s] + 1 /\ Awaited')
    BY DEF Taught
  <2>2. row'[s] # "NONE" /\ born'[s] = born[s]
    <3>1. CASE \E o \in Signals : Monitor(o)
      BY <1>1, <2>1, <3>1 DEF Monitor
    <3>2. CASE (\E o \in Signals : Exit(o)) \/ Analyze \/ Close
      <4>1. born' = born
        BY <3>2 DEF Exit, Analyze, Close
      <4>2. QED
        BY <1>1, <2>1, <3>2, <4>1, WorkerSteps
    <3>3. CASE RecordOutcome \/ WriteBack \/ WriteBackFails \/ Restart
      <4>1. row' = row /\ born' = born
        BY <3>3, Zenon DEF RecordOutcome, WriteBack, WriteBackFails, Restart
      <4>2. QED
        BY <2>1, <4>1
    <3>4. CASE RowsStay
      BY <2>1, <3>4 DEF RowsStay
    <3>5. QED
      BY <3>1, <3>2, <3>3, <3>4, JobSteps DEF Next
  <2>3. CASE Advance
    <3>1. phase' = phase + 1
      BY <2>3 DEF Advance
    <3>2. QED
      BY <1>1, <2>1, <2>2, <3>1
  <2>4. CASE ~Advance
    <3>1. phase' = phase
      BY <2>4 DEF Next, vars, Monitor, Exit, Analyze, RecordOutcome, WriteBack, WriteBackFails, Close, Report, SetBias,
         ExpireBias, PersistFails, ReadAnalysed, ReadClosed, Ingest, IngestFails, BiasExpires, Restart
    <3>2. Awaited' => Awaited
      <4>1. CASE Report \/ SetBias \/ ExpireBias \/ PersistFails \/ ReadAnalysed \/ ReadClosed \/ Ingest \/ IngestFails
        BY <4>1 DEF Awaited, Report, SetBias, ExpireBias, PersistFails, ReadAnalysed, ReadClosed, Ingest, IngestFails, JobAt
      <4>2. CASE Restart
        <5>1. eod' = IdleJob /\ (eodDue' = eodDue \/ eodDue' = FALSE)
          BY <4>2 DEF Restart
        <5>2. QED
          BY <5>1 DEF Awaited, IdleJob
      <4>3. CASE eod' = eod /\ eodDue' = eodDue
        BY <4>3 DEF Awaited
      <4>4. QED
        BY <2>4, <4>1, <4>2, <4>3 DEF Next, vars, jobVars, Monitor, Exit, Analyze, RecordOutcome, WriteBack,
           WriteBackFails, Close, BiasExpires
    <3>3. QED
      BY <2>1, <2>2, <3>1, <3>2
  <2>5. QED
    BY <2>3, <2>4
<1>4. QED
  BY <1>2, <1>3

LEMMA PastTyped ==
  ASSUME NEW s \in Signals
  PROVE  Written(s) \in 0 .. 1 /\ Taught(s) \in 0 .. 1
BY DEF Written, Taught

LEMMA FewRecordsStep ==
  ASSUME Structure, KeptFirst, FewRecords, [Next]_vars
  PROVE  FewRecords'
<1>1. /\ Typed /\ learned \in [Signals -> Records] /\ Structure'
      /\ \A s \in Signals : learned[s] \in Seq(Entry) /\ learned'[s] \in Seq(Entry)
  BY StructureStep DEF Structure, Typed, StoresTyped, Records, Entry
<1>2. ASSUME NEW s \in Signals PROVE Len(learned'[s]) <= Written(s)' + 2 * Taught(s)'
  <2> DEFINE n == Len(learned[s])
             w == Written(s)
             t == Taught(s)
             w2 == Written(s)'
             t2 == Taught(s)'
  <2>1. n \in Nat /\ n <= w + 2 * t /\ w <= w2 /\ t <= t2 /\ w \in 0 .. 1 /\ t \in 0 .. 1
    BY <1>1, PastStays, PastTyped DEF FewRecords
  <2>2. w2 \in 0 .. 1 /\ t2 \in 0 .. 1
    BY DEF Written, Taught
  <2>3. CASE WriteBack
    <3>1. /\ worker.signal \in Signals /\ worker.at = "recorded" /\ row[worker.signal] = "ANALYZED"
          /\ learned' = [learned EXCEPT ![worker.signal] = Upserted(worker.signal, <<Record(worker.signal)>>)]
          /\ row' = row /\ worker'.at = "indexed"
      BY <1>1, <2>3, WorkerSteps DEF WriteBack, Structure
    <3>2. CASE s = worker.signal
      <4>1. <<Record(s)>> \in Records /\ Len(<<Record(s)>>) = 1
        BY RecordTyped DEF Records, Entry
      <4>2. Len(learned'[s]) = n + 1
        <5>1. learned'[s] = Upserted(s, <<Record(s)>>)
          BY <1>1, <3>1, <3>2
        <5>2. Len(Upserted(s, <<Record(s)>>)) = Len(learned[s]) + Len(<<Record(s)>>)
          BY <1>1, <4>1, UpsertAppends
        <5>3. QED
          BY <4>1, <5>1, <5>2
      <4>3. w = 0 /\ w2 = 1
        BY <3>1, <3>2 DEF Written
      <4> HIDE DEF n, w, t, w2, t2
      <4>4. n + 1 <= w2 + 2 * t2
        BY <2>1, <2>2, <4>3
      <4>5. QED
        BY <4>2, <4>4 DEF w2, t2
    <3>3. CASE s # worker.signal
      <4>1. learned'[s] = learned[s]
        BY <1>1, <3>1, <3>3
      <4> HIDE DEF n, w, t, w2, t2
      <4>2. n <= w2 + 2 * t2
        BY <2>1, <2>2
      <4>3. QED
        BY <4>1, <4>2 DEF n, w2, t2
    <3>4. QED
      BY <3>2, <3>3
  <2>4. CASE Ingest
    <3>1. /\ learned'[s] = Upserted(s, eod.events[s]) /\ eod.events[s] \in Records /\ eod.at = "index"
          /\ eod.events[s] \in Seq(Entry) /\ Len(eod.events[s]) <= 2
      BY <1>1, <2>4 DEF Ingest, JobAt, Typed, JobEvents, Records, Entry, FewRecords
    <3>2. Len(learned'[s]) = n + Len(eod.events[s]) /\ Len(eod.events[s]) \in Nat
      BY <1>1, <3>1, UpsertAppends
    <3>3. CASE eod.events[s] = <<>>
      <4>1. Len(learned'[s]) = n
        BY <2>1, <3>2, <3>3
      <4> HIDE DEF n, w, t, w2, t2
      <4>2. n <= w2 + 2 * t2
        BY <2>1, <2>2
      <4>3. QED
        BY <4>1, <4>2 DEF w2, t2
    <3>4. CASE eod.events[s] # <<>>
      <4>1. DayRow(s) /\ ~Session /\ ~eodDue
        BY <3>1, <3>4 DEF Structure, EventRows, EveningJob, DueRows
      <4>2. phase \in Nat /\ born[s] \in Nat
        BY EodAssumption DEF EodAssumption, Structure, Typed, ClockTyped, Phases, RowsTyped
      <4>3. phase = 2 * born[s] + 1
        BY <4>1, <4>2 DEF DayRow, Day, Session
      <4>4. t = 0
        BY <3>1, <4>3 DEF Taught, Awaited
      <4>5. phase' = phase /\ row' = row /\ born' = born /\ eodDue' = eodDue /\ eod' = IdleJob
        BY <2>4, JobSteps DEF Ingest, RowsStay
      <4>6. t2 = 1
        BY <4>1, <4>2, <4>3, <4>5 DEF Taught, Awaited, DayRow, IdleJob
      <4> DEFINE e == Len(eod.events[s])
      <4>7. e \in Nat /\ e <= 2 /\ Len(learned'[s]) = n + e
        BY <3>1, <3>2
      <4> HIDE DEF n, w, t, w2, t2, e
      <4>8. n + e <= w2 + 2 * t2
        BY <2>1, <2>2, <4>4, <4>6, <4>7
      <4>9. QED
        BY <4>7, <4>8 DEF w2, t2
    <3>5. QED
      BY <3>3, <3>4
  <2>5. CASE Restart
    <3>1. learned'[s] = Persistent(learned[s])
      BY <2>5 DEF Restart
    <3>2. Len(learned'[s]) <= n /\ Len(learned'[s]) \in Nat
      BY <1>1, <3>1, PersistentTyped
    <3> DEFINE k == Len(learned'[s])
    <3> HIDE DEF n, w, t, w2, t2, k
    <3>3. k \in Nat /\ k <= n
      BY <3>2 DEF k, n
    <3>4. k <= w2 + 2 * t2
      BY <2>1, <2>2, <3>3
    <3>5. QED
      BY <3>4 DEF k, w2, t2
  <2>6. CASE ~WriteBack /\ ~Ingest /\ ~Restart
    <3>1. learned'[s] = learned[s]
      BY <2>6, StoresStay
    <3> HIDE DEF n, w, t, w2, t2
    <3>2. n <= w2 + 2 * t2
      BY <2>1, <2>2
    <3>3. QED
      BY <3>1, <3>2 DEF n, w2, t2
  <2>7. QED
    BY <2>3, <2>4, <2>5, <2>6
<1>3. ASSUME NEW s \in Signals
      PROVE  /\ eod'.at = "closed" => Len(eod'.events[s]) <= 1
             /\ eod'.at = "index" => Len(eod'.events[s]) <= 2
  <2>1. \A status : Collect(status)[s] \in Seq(Entry) /\ Len(Collect(status)[s]) <= 1
    <3>1. Len(<<Record(s)>>) = 1 /\ Len(<<>>) = 0
      OBVIOUS
    <3>2. ASSUME NEW status PROVE Collect(status)[s] \in Seq(Entry) /\ Len(Collect(status)[s]) <= 1
      <4>1. Collect(status)[s] \in Seq(Entry)
        BY CollectOne DEF Records, Entry
      <4>2. Collect(status)[s] = <<Record(s)>> \/ Collect(status)[s] = <<>>
        BY CollectOne
      <4>3. CASE Collect(status)[s] = <<>>
        <5>1. Len(Collect(status)[s]) = 0
          BY <4>3
        <5>2. QED
          BY <4>1, <5>1
      <4>4. CASE Collect(status)[s] = <<Record(s)>>
        <5>1. Len(Collect(status)[s]) = 1
          BY <4>4
        <5>2. QED
          BY <4>1, <5>1
      <4>5. QED
        BY <4>2, <4>3, <4>4
    <3>3. QED
      BY <3>2
  <2>2. CASE ReadAnalysed
    BY <2>1, <2>2, EventsRead
  <2>3. CASE ReadClosed
    <3> DEFINE a == eod.events[s]
               b == Collect("CLOSED")[s]
    <3>1. a \in Seq(Entry) /\ b \in Seq(Entry) /\ eod'.events[s] = a \o b /\ eod.at = "closed" /\ eod'.at = "index"
      BY <2>1, <2>3, EventsRead
    <3>2. Len(a) <= 1 /\ Len(b) <= 1
      BY <2>1, <3>1 DEF FewRecords
    <3> HIDE DEF a, b
    <3>3. Len(a \o b) = Len(a) + Len(b) /\ Len(a) \in Nat /\ Len(b) \in Nat
      BY <3>1
    <3>4. QED
      BY <3>1, <3>2, <3>3
  <2>4. CASE ~ReadAnalysed /\ ~ReadClosed
    BY <1>1, <2>4, EventsStay DEF FewRecords
  <2>5. QED
    BY <2>2, <2>3, <2>4
<1>4. QED
  BY <1>2, <1>3 DEF FewRecords

\* No signal is in the trap memory more than three times.
THEOREM FewLearned == Spec => []AtMostThreeRecords
<1> DEFINE Inv == LearnInv /\ FewRecords
<1>1. Init => Inv
  <2>1. Init => FewRecords
    <3> SUFFICES ASSUME Init PROVE FewRecords
      OBVIOUS
    <3>1. \A s \in Signals : learned[s] = <<>> /\ Len(<<>>) = 0 /\ Written(s) \in 0 .. 1 /\ Taught(s) \in 0 .. 1
      BY PastTyped DEF Init
    <3>2. QED
      BY <3>1 DEF FewRecords, Init, IdleJob
  <2>2. QED
    BY <2>1, LearnInvInductive
<1>2. Inv /\ [Next]_vars => Inv'
  BY LearnInvInductive, FewRecordsStep DEF LearnInv
<1>3. Inv => AtMostThreeRecords
  <2> SUFFICES ASSUME Inv, NEW s \in Signals PROVE Len(learned[s]) <= 3
    BY DEF AtMostThreeRecords
  <2>1. Len(learned[s]) \in Nat
    BY DEF LearnInv, Structure, Typed, StoresTyped, Records
  <2>2. QED
    BY <2>1, PastTyped DEF FewRecords
<1>4. QED
  BY <1>1, <1>2, <1>3, PTL DEF Spec

-----------------------------------------------------------------------------
(* The win rate.                                                           *)

\* A record that is new among those a search finds takes its place among the hits, or is
\* none of them, and drives at most one other from them.
LEMMA OneMoreFound ==
  ASSUME NEW U, IsFiniteSet(U), NEW rank \in [U -> Nat], IsInjective(rank),
         NEW found \in SUBSET U, NEW x \in U \ found
  PROVE  LET more == found \cup {x} IN
           /\ Nearest(more, rank) \ {x} \subseteq Nearest(found, rank)
           /\ x \notin Nearest(more, rank) => Nearest(found, rank) \subseteq Nearest(more, rank)
           /\ \E y : Nearest(found, rank) \ {y} \subseteq Nearest(more, rank)
<1> DEFINE more == found \cup {x}
           Below(F, p) == {o \in F : rank[o] < rank[p]}
<1>1. ASSUME NEW F \in SUBSET U, NEW p \in U
      PROVE  IsFiniteSet(Below(F, p)) /\ Cardinality(Below(F, p)) \in Nat
  <2>1. Below(F, p) \subseteq U
    OBVIOUS
  <2>2. QED
    BY <2>1, FS_Subset, FS_CardinalityType
<1>2. \A F \in SUBSET U, p \in U : p \in Nearest(F, rank) <=> p \in F /\ Cardinality(Below(F, p)) < Limit
  BY DEF Nearest
<1>3. Limit \in Nat /\ more \in SUBSET U
  BY EodAssumption DEF EodAssumption
<1>4. ASSUME NEW F \in SUBSET U, NEW G \in SUBSET U, NEW p \in U, NEW q \in U, Below(F, p) \subseteq Below(G, q)
      PROVE  Cardinality(Below(F, p)) <= Cardinality(Below(G, q))
  BY <1>1, <1>4, FS_Subset
<1>5. Nearest(more, rank) \ {x} \subseteq Nearest(found, rank)
  <2> SUFFICES ASSUME NEW p \in Nearest(more, rank), p # x PROVE p \in Nearest(found, rank)
    OBVIOUS
  <2>1. p \in U /\ p \in found /\ Cardinality(Below(more, p)) < Limit
    BY <1>2, <1>3 DEF Nearest
  <2>2. Below(found, p) \subseteq Below(more, p)
    OBVIOUS
  <2>3. Cardinality(Below(found, p)) <= Cardinality(Below(more, p))
    BY <1>3, <1>4, <2>1, <2>2
  <2> HIDE DEF Below, more
  <2>4. Cardinality(Below(found, p)) \in Nat /\ Cardinality(Below(more, p)) \in Nat
    BY <1>1, <1>3, <2>1
  <2>5. QED
    BY <1>2, <1>3, <2>1, <2>3, <2>4
<1>6. ASSUME x \notin Nearest(more, rank) PROVE Nearest(found, rank) \subseteq Nearest(more, rank)
  <2> SUFFICES ASSUME NEW p \in Nearest(found, rank) PROVE p \in Nearest(more, rank)
    OBVIOUS
  <2>1. p \in U /\ p \in found /\ p \in more /\ Cardinality(Below(found, p)) < Limit
    BY <1>2, <1>3 DEF Nearest
  <2>2. ~(Cardinality(Below(more, x)) < Limit) /\ Below(more, x) = Below(found, x)
    BY <1>2, <1>3, <1>6
  <2>3. CASE rank[x] < rank[p]
    <3>1. Below(found, x) \subseteq Below(found, p)
      BY <2>1, <2>3
    <3>2. Cardinality(Below(found, x)) <= Cardinality(Below(found, p))
      BY <1>3, <1>4, <2>1, <3>1
    <3> HIDE DEF Below, more
    <3>3. Cardinality(Below(found, p)) \in Nat /\ Cardinality(Below(found, x)) \in Nat
      BY <1>1, <2>1
    <3>4. QED
      BY <1>3, <2>1, <2>2, <3>2, <3>3
  <2>4. CASE ~(rank[x] < rank[p])
    <3>1. Below(more, p) = Below(found, p)
      BY <2>4
    <3>2. QED
      BY <1>2, <1>3, <2>1, <3>1
  <2>5. QED
    BY <2>3, <2>4
<1>7. \E y : Nearest(found, rank) \ {y} \subseteq Nearest(more, rank)
  <2> SUFFICES ASSUME ~(Nearest(found, rank) \subseteq Nearest(more, rank))
               PROVE  \E y : Nearest(found, rank) \ {y} \subseteq Nearest(more, rank)
    OBVIOUS
  <2>1. PICK y : y \in Nearest(found, rank) /\ y \notin Nearest(more, rank)
    OBVIOUS
  <2>2. ASSUME NEW z, z \in Nearest(found, rank), z \notin Nearest(more, rank)
        PROVE  /\ z \in U /\ z \in found /\ Cardinality(Below(found, z)) < Limit
               /\ Cardinality(Below(found, z)) + 1 >= Limit
    <3>1. z \in U /\ z \in found /\ z \in more /\ Cardinality(Below(found, z)) < Limit
          /\ ~(Cardinality(Below(more, z)) < Limit)
      BY <1>2, <1>3, <2>2 DEF Nearest
    <3>2. Below(more, z) \subseteq Below(found, z) \cup {x} /\ x \notin Below(found, z)
      OBVIOUS
    <3> HIDE DEF Below, more
    <3>3. IsFiniteSet(Below(found, z)) /\ Cardinality(Below(found, z)) \in Nat /\ Cardinality(Below(more, z)) \in Nat
      BY <1>1, <1>3, <3>1
    <3>4. IsFiniteSet(Below(found, z) \cup {x}) /\ Cardinality(Below(found, z) \cup {x}) = Cardinality(Below(found, z)) + 1
      BY <3>2, <3>3, FS_AddElement
    <3>5. Cardinality(Below(more, z)) <= Cardinality(Below(found, z)) + 1
      BY <3>2, <3>4, FS_Subset
    <3>6. QED
      BY <1>3, <3>1, <3>3, <3>5
  <2>3. ASSUME NEW a \in U, NEW b \in U, a \in found, rank[a] < rank[b],
               Cardinality(Below(found, a)) + 1 >= Limit
        PROVE  ~(Cardinality(Below(found, b)) < Limit)
    <3>1. Below(found, a) \cup {a} \subseteq Below(found, b) /\ a \notin Below(found, a)
      BY <2>3
    <3> HIDE DEF Below
    <3>2. IsFiniteSet(Below(found, a)) /\ Cardinality(Below(found, a)) \in Nat
          /\ IsFiniteSet(Below(found, b)) /\ Cardinality(Below(found, b)) \in Nat
      BY <1>1
    <3>3. Cardinality(Below(found, a) \cup {a}) = Cardinality(Below(found, a)) + 1
      BY <3>1, <3>2, FS_AddElement
    <3>4. Cardinality(Below(found, a)) + 1 <= Cardinality(Below(found, b))
      BY <3>1, <3>2, <3>3, FS_Subset
    <3>5. QED
      BY <1>3, <2>3, <3>2, <3>4
  <2>4. ASSUME NEW z, z \in Nearest(found, rank), z \notin Nearest(more, rank) PROVE z = y
    <3> HIDE DEF Below, more
    <3>1. y \in U /\ z \in U /\ ~(rank[y] < rank[z]) /\ ~(rank[z] < rank[y])
      BY <2>1, <2>2, <2>3, <2>4
    <3>2. rank[y] = rank[z]
      BY <3>1
    <3>3. QED
      BY <3>1, <3>2 DEF IsInjective
  <2>5. QED
    BY <2>4
<1>8. QED
  BY <1>5, <1>6, <1>7

\* What a write-back does to the records that searches find: one more, or none.
LEMMA WriteBackFound ==
  ASSUME LearnInv, WriteBack, NEW q \in Queries
  PROVE  LET s == worker.signal
             found == {p \in Stored(learned) : p[1] \in q.week}
             after == {p \in Stored(learned') : p[1] \in q.week}
         IN  /\ s \in Signals /\ found \subseteq AllPlaces /\ after \subseteq AllPlaces
             /\ \A p \in found : learned'[p[1]][p[2]] = learned[p[1]][p[2]]
             /\ \/ after = found
                \/ \E x \in AllPlaces \ found :
                     after = found \cup {x} /\ learned'[x[1]][x[2]] = Record(s)
<1> DEFINE s == worker.signal
           found == {p \in Stored(learned) : p[1] \in q.week}
           after == {p \in Stored(learned') : p[1] \in q.week}
           x == <<s, Len(learned[s]) + 1>>
<1>1. /\ learned \in [Signals -> Records] /\ s \in Signals
      /\ learned' = [learned EXCEPT ![s] = Upserted(s, <<Record(s)>>)]
  BY WorkerSteps DEF LearnInv, Structure, Typed, StoresTyped, WriteBack, At
<1>2. <<Record(s)>> \in Records /\ DOMAIN <<Record(s)>> = {1} /\ <<Record(s)>>[1] = Record(s) /\ Len(<<Record(s)>>) = 1
  BY <1>1, RecordTyped DEF Records, Entry
<1>3. learned'[s] = Upserted(s, <<Record(s)>>) /\ \A o \in Signals \ {s} : learned'[o] = learned[o]
  BY <1>1
<1>4. /\ learned'[s] \in Records /\ Len(learned'[s]) = Len(learned[s]) + 1
      /\ \A i \in DOMAIN learned[s] : i \in DOMAIN learned'[s] /\ learned'[s][i] = learned[s][i]
      /\ \A i \in DOMAIN learned'[s] : i \notin DOMAIN learned[s] => learned'[s][i] = Record(s)
  <2> DEFINE new == <<Record(s)>>
  <2>1. new \in Records /\ Len(new) = 1 /\ \A i \in DOMAIN new : new[i] = Record(s)
    BY <1>2
  <2> HIDE DEF new
  <2>2. /\ Upserted(s, new) \in Records /\ Len(Upserted(s, new)) = Len(learned[s]) + Len(new)
        /\ \A i \in DOMAIN learned[s] : i \in DOMAIN Upserted(s, new) /\ Upserted(s, new)[i] = learned[s][i]
        /\ \A i \in DOMAIN Upserted(s, new) : i \notin DOMAIN learned[s] =>
             i - Len(learned[s]) \in DOMAIN new /\ Upserted(s, new)[i] = new[i - Len(learned[s])]
    BY <1>1, <2>1, UpsertAppends
  <2>3. learned'[s] = Upserted(s, new)
    BY <1>3 DEF new
  <2>4. QED
    BY <2>1, <2>2, <2>3
<1>5. /\ Len(learned[s]) \in Nat /\ DOMAIN learned[s] = 1 .. Len(learned[s])
      /\ DOMAIN learned'[s] = 1 .. Len(learned[s]) + 1
  BY <1>1, <1>4 DEF Records
<1>6. ASSUME NEW p \in AllPlaces, p # x
      PROVE  /\ p \in Places(learned') <=> p \in Places(learned)
             /\ p \in Places(learned) => learned'[p[1]][p[2]] = learned[p[1]][p[2]]
  <2>1. p = <<p[1], p[2]>> /\ p[1] \in Signals /\ p[2] \in 1 .. 3
    BY DEF AllPlaces
  <2>2. p[2] \in DOMAIN learned'[p[1]] <=> p[2] \in DOMAIN learned[p[1]]
    <3>1. CASE p[1] = s
      <4>1. p[2] # Len(learned[s]) + 1
        BY <1>6, <2>1, <3>1
      <4>2. QED
        BY <1>5, <2>1, <3>1, <4>1
    <3>2. CASE p[1] # s
      BY <1>3, <2>1, <3>2
    <3>3. QED
      BY <3>1, <3>2
  <2>3. p[2] \in DOMAIN learned[p[1]] => learned'[p[1]][p[2]] = learned[p[1]][p[2]]
    BY <1>3, <1>4, <2>1
  <2>4. QED
    BY <2>2, <2>3 DEF Places
<1>7. x \notin Places(learned)
  BY <1>5 DEF Places
<1>8. x \in Places(learned') => x \in AllPlaces /\ learned'[x[1]][x[2]] = Record(s)
  BY <1>4, <1>5 DEF Places
<1> HIDE DEF x
<1>9. \A p \in AllPlaces : p # x => (p \in Stored(learned') <=> p \in Stored(learned))
  BY <1>1, <1>6 DEF Stored
<1>10. Stored(learned) \subseteq Places(learned) /\ Stored(learned') \subseteq Places(learned')
       /\ Places(learned) \subseteq AllPlaces /\ Places(learned') \subseteq AllPlaces
  BY DEF Stored, Places
<1>11. found \subseteq AllPlaces /\ after \subseteq AllPlaces /\ x \notin found
       /\ \A p \in found : learned'[p[1]][p[2]] = learned[p[1]][p[2]]
  BY <1>6, <1>7, <1>10
<1>12. \A p \in AllPlaces : p # x => (p \in after <=> p \in found)
  BY <1>9
<1>13. CASE x \in after
  <2>1. x \in AllPlaces \ found /\ learned'[x[1]][x[2]] = Record(s)
    BY <1>8, <1>10, <1>11, <1>13
  <2>2. after = found \cup {x}
    <3> HIDE DEF found, after
    <3>1. QED
      BY <1>11, <1>12, <1>13
  <2>3. QED
    BY <1>1, <1>11, <2>1, <2>2
<1>14. CASE x \notin after
  <2>1. after = found
    <3> HIDE DEF found, after
    <3>1. QED
      BY <1>11, <1>12, <1>14
  <2>2. QED
    BY <1>1, <1>11, <2>1
<1>15. QED
  BY <1>13, <1>14

LEMMA HitsFinite ==
  ASSUME NEW S \in SUBSET AllPlaces
  PROVE  IsFiniteSet(S) /\ Cardinality(S) \in Nat
<1>1. IsFiniteSet(Signals) /\ IsFiniteSet(1 .. 3)
  <2>1. IsFiniteSet(Signals)
    BY EodAssumption DEF EodAssumption
  <2>2. 1 \in Int /\ 3 \in Int
    OBVIOUS
  <2>3. IsFiniteSet(1 .. 3)
    BY <2>2, FS_Interval
  <2>4. QED
    BY <2>1, <2>3
<1>2. IsFiniteSet(AllPlaces)
  BY <1>1, FS_Product DEF AllPlaces
<1>3. QED
  BY <1>2, FS_Subset, FS_CardinalityType

\* Of the label that is written back the hits do not become fewer, of another not more.
LEMMA HitsMove ==
  ASSUME LearnInv, WriteBack, NEW q \in Queries, NEW mine, NEW other, mine # other,
         Record(worker.signal).label = mine
  PROVE  /\ Count(learned, q, mine) \in Nat /\ Count(learned', q, mine) \in Nat
         /\ Count(learned, q, other) \in Nat /\ Count(learned', q, other) \in Nat
         /\ Count(learned, q, mine) <= Count(learned', q, mine)
         /\ Count(learned', q, other) <= Count(learned, q, other)
<1> DEFINE s == worker.signal
           found == {p \in Stored(learned) : p[1] \in q.week}
           after == {p \in Stored(learned') : p[1] \in q.week}
           Of(records, label) == {p \in Hits(records, q) : records[p[1]][p[2]].label = label}
<1>1. /\ found \subseteq AllPlaces /\ after \subseteq AllPlaces
      /\ \A p \in found : learned'[p[1]][p[2]] = learned[p[1]][p[2]]
      /\ \/ after = found
         \/ \E x \in AllPlaces \ found : after = found \cup {x} /\ learned'[x[1]][x[2]] = Record(s)
  BY WriteBackFound
<1>2. Hits(learned, q) = Nearest(found, q.rank) /\ Hits(learned', q) = Nearest(after, q.rank)
  BY DEF Hits
<1>3. \A label : Count(learned, q, label) = Cardinality(Of(learned, label))
                 /\ Count(learned', q, label) = Cardinality(Of(learned', label))
  BY DEF Count
<1> HIDE DEF found, after
<1>4. Hits(learned, q) \subseteq found /\ Hits(learned', q) \subseteq after
  BY <1>2 DEF Nearest
<1>5. \A label : Of(learned, label) \subseteq AllPlaces /\ Of(learned', label) \subseteq AllPlaces
  BY <1>1, <1>4
<1>6. \A label : /\ IsFiniteSet(Of(learned, label)) /\ Cardinality(Of(learned, label)) \in Nat
                 /\ IsFiniteSet(Of(learned', label)) /\ Cardinality(Of(learned', label)) \in Nat
  BY <1>5, HitsFinite
<1>7. CASE after = found
  <2>1. \A label : Of(learned', label) = Of(learned, label)
    BY <1>1, <1>2, <1>4, <1>7
  <2>2. \A label : Count(learned', q, label) = Count(learned, q, label) /\ Count(learned, q, label) \in Nat
    <3> HIDE DEF Of
    <3>1. QED
      BY <1>3, <1>6, <2>1
  <2>3. QED
    BY <2>2
<1>8. ASSUME NEW x \in AllPlaces \ found, after = found \cup {x}, learned'[x[1]][x[2]] = Record(s)
      PROVE  /\ Cardinality(Of(learned, mine)) <= Cardinality(Of(learned', mine))
             /\ Cardinality(Of(learned', other)) <= Cardinality(Of(learned, other))
  <2>1. q.rank \in [AllPlaces -> Nat] /\ IsInjective(q.rank) /\ IsFiniteSet(AllPlaces)
    BY EodAssumption, HitsFinite DEF EodAssumption
  <2>2. /\ Hits(learned', q) \ {x} \subseteq Hits(learned, q)
        /\ x \notin Hits(learned', q) => Hits(learned, q) \subseteq Hits(learned', q)
        /\ \E y : Hits(learned, q) \ {y} \subseteq Hits(learned', q)
    <3>1. found \in SUBSET AllPlaces /\ x \in AllPlaces \ found
      BY <1>1
    <3>2. /\ Nearest(found \cup {x}, q.rank) \ {x} \subseteq Nearest(found, q.rank)
          /\ x \notin Nearest(found \cup {x}, q.rank) =>
               Nearest(found, q.rank) \subseteq Nearest(found \cup {x}, q.rank)
          /\ \E y : Nearest(found, q.rank) \ {y} \subseteq Nearest(found \cup {x}, q.rank)
      BY <2>1, <3>1, OneMoreFound
    <3>3. QED
      BY <1>2, <1>8, <3>2
  <2>3. x \notin Hits(learned, q) /\ learned'[x[1]][x[2]].label = mine
    BY <1>4, <1>8
  <2>4. \A p \in Hits(learned, q) : learned'[p[1]][p[2]] = learned[p[1]][p[2]]
    BY <1>1, <1>4
  <2>5. Of(learned', other) \subseteq Of(learned, other)
    BY <2>2, <2>3, <2>4
  <2>6. CASE x \notin Hits(learned', q)
    <3>1. Of(learned, mine) \subseteq Of(learned', mine)
      BY <2>2, <2>4, <2>6
    <3> HIDE DEF Of
    <3>2. QED
      BY <1>6, <2>5, <3>1, FS_Subset
  <2>7. CASE x \in Hits(learned', q)
    <3>1. PICK y : Hits(learned, q) \ {y} \subseteq Hits(learned', q)
      BY <2>2
    <3> DEFINE rest == Of(learned', mine) \ {x}
    <3>2. x \in Of(learned', mine) /\ Of(learned, mine) \subseteq rest \cup {y}
      BY <2>3, <2>4, <2>7, <3>1
    <3> HIDE DEF Of
    <3>3. IsFiniteSet(rest) /\ Cardinality(rest) = Cardinality(Of(learned', mine)) - 1 /\ Cardinality(rest) \in Nat
      BY <1>6, <3>2, FS_RemoveElement, FS_CardinalityType
    <3> HIDE DEF rest
    <3>4. IsFiniteSet(rest \cup {y}) /\ Cardinality(rest \cup {y}) <= Cardinality(rest) + 1
      <4>1. CASE y \in rest
        <5>1. rest \cup {y} = rest
          BY <4>1
        <5>2. Cardinality(rest) <= Cardinality(rest) + 1
          BY <3>3
        <5>3. QED
          BY <3>3, <5>1, <5>2, Zenon
      <4>2. CASE y \notin rest
        <5>1. IsFiniteSet(rest \cup {y}) /\ Cardinality(rest \cup {y}) = Cardinality(rest) + 1
          BY <3>3, <4>2, FS_AddElement
        <5>2. Cardinality(rest) + 1 <= Cardinality(rest) + 1
          BY <3>3
        <5>3. QED
          BY <5>1, <5>2, Zenon
      <4>3. QED
        BY <4>1, <4>2
    <3>5. Cardinality(Of(learned, mine)) <= Cardinality(rest \cup {y})
      BY <3>2, <3>4, FS_Subset
    <3>6. Cardinality(Of(learned, mine)) <= Cardinality(Of(learned', mine))
      BY <1>6, <3>3, <3>4, <3>5, FS_CardinalityType
    <3>7. QED
      BY <1>6, <2>5, <3>6, FS_Subset
  <2>8. QED
    BY <2>6, <2>7
<1>9. QED
  <2> HIDE DEF Of
  <2>1. QED
    BY <1>1, <1>3, <1>6, <1>7, <1>8

\* The share of w in w + l, when there are more wins and fewer losses.
LEMMA GreaterShare ==
  ASSUME NEW w \in Nat, NEW l \in Nat, NEW v \in Nat, NEW m \in Nat, w <= v, m <= l
  PROVE  w * (v + m) <= v * (w + l)
<1>1. PICK d \in Nat, e \in Nat : v = w + d /\ l = m + e
  <2>1. v - w \in Nat /\ l - m \in Nat /\ v = w + (v - w) /\ l = m + (l - m)
    OBVIOUS
  <2>2. QED
    BY <2>1
<1>2. w * m <= v * m
  <2>1. v * m = w * m + d * m /\ d * m \in Nat /\ w * m \in Nat
    BY <1>1
  <2>2. QED
    BY <2>1
<1>3. v * m <= v * l
  <2>1. v * l = v * m + v * e /\ v * e \in Nat /\ v * m \in Nat
    BY <1>1
  <2>2. QED
    BY <2>1
<1>4. w * (v + m) = w * v + w * m /\ v * (w + l) = w * v + v * l
  OBVIOUS
<1>5. w * v \in Nat /\ w * m \in Nat /\ v * m \in Nat /\ v * l \in Nat
  OBVIOUS
<1>6. QED
  BY <1>2, <1>3, <1>4, <1>5

\* A share that is not greater, in the terms of the memory.
LEMMA RatesCompare ==
  ASSUME NEW these, NEW those, NEW q,
         Wins(these, q) \in Nat, Losses(these, q) \in Nat, Wins(those, q) \in Nat, Losses(those, q) \in Nat,
         Wins(these, q) <= Wins(those, q), Losses(those, q) <= Losses(these, q)
  PROVE  RateAtMost(these, those, q)
<1> DEFINE w == Wins(these, q)
           l == Losses(these, q)
           v == Wins(those, q)
           m == Losses(those, q)
<1>1. Decided(these, q) = w + l /\ Decided(those, q) = v + m
  BY DEF Decided
<1>2. w * (v + m) <= v * (w + l)
  <2> HIDE DEF w, l, v, m
  <2>1. w \in Nat /\ l \in Nat /\ v \in Nat /\ m \in Nat /\ w <= v /\ m <= l
    BY DEF w, l, v, m
  <2>2. QED
    BY <2>1, GreaterShare
<1>3. w = 0 \/ v + m > 0
  OBVIOUS
<1>4. QED
  BY <1>1, <1>2, <1>3 DEF RateAtMost

\* For every search that can be asked, any limit and any signals, a win that is written
\* back does not lower the win rate it reports and a loss that counts does not raise it.
THEOREM RatesFollow == Spec => RateFollowsOutcome
<1>1. ASSUME LearnInv, WriteBack, NEW q \in Queries, outcome[worker.signal] = "WIN"
      PROVE  RateAtMost(learned, learned', q)
  <2>1. worker.signal \in Signals
    BY <1>1, WriteBackFound
  <2>2. Record(worker.signal).label = "TARGET_HIT"
    BY <1>1, <2>1, RecordTyped DEF Label
  <2>3. QED
    BY <1>1, <2>2, HitsMove, RatesCompare DEF Wins, Losses
<1>2. ASSUME LearnInv, WriteBack, NEW q \in Queries,
             \/ outcome[worker.signal] = "BE"
             \/ outcome[worker.signal] = "LOSS" /\ TrapType[worker.signal] = "NONE"
      PROVE  RateAtMost(learned', learned, q)
  <2>1. worker.signal \in Signals
    BY <1>2, WriteBackFound
  <2>2. Record(worker.signal).label = "SL_HIT"
    BY <1>2, <2>1, RecordTyped DEF Label
  <2>3. QED
    BY <1>2, <2>2, HitsMove, RatesCompare DEF Wins, Losses
<1> DEFINE Follows ==
      WriteBack =>
        LET s == worker.signal IN \A q \in Queries :
          /\ outcome[s] = "WIN" => RateAtMost(learned, learned', q)
          /\ outcome[s] = "BE" \/ (outcome[s] = "LOSS" /\ TrapType[s] = "NONE") =>
               RateAtMost(learned', learned, q)
<1>3. LearnInv => Follows
  BY <1>1, <1>2
<1>4. LearnInv /\ [Next]_vars => [Follows]_vars
  BY <1>3
<1>5. QED
  BY <1>4, LearnInvInductive, PTL DEF Spec, RateFollowsOutcome
=============================================================================
