--------------------------- MODULE SignalLifecycle ---------------------------
(***************************************************************************)
(* What the signal log promises about one signal, whatever threads work on *)
(* it: its row walks SIGNAL_GENERATED -> APPROVED -> MONITORING -> EXITED  *)
(* -> ANALYZED -> CLOSED one step at a time, its outcome is recorded once, *)
(* and it is written back to the trap memory once, after its outcome.      *)
(* SignalEngine implements this module when one thread handles the ticks.  *)
(***************************************************************************)
CONSTANTS Signals,  \* signal ids
          Pnls,     \* the PnL an exit can book
          None      \* no outcome yet

VARIABLES row,      \* row[s]: the status column of signal_log, "NONE" before the insert
          outcome,  \* outcome[s]: the PnL the row records, or None
          memory    \* memory[s]: trap records indexed for s by the write-back

lifecycleVars == <<row, outcome, memory>>

\* _VALID_NEXT: the only status a row may move to.
NextStatus ==
  [x \in {"SIGNAL_GENERATED", "APPROVED", "MONITORING", "EXITED", "ANALYZED"} |->
     CASE x = "SIGNAL_GENERATED" -> "APPROVED"
       [] x = "APPROVED"         -> "MONITORING"
       [] x = "MONITORING"       -> "EXITED"
       [] x = "EXITED"           -> "ANALYZED"
       [] x = "ANALYZED"         -> "CLOSED"]

Statuses == {"NONE", "CLOSED"} \cup DOMAIN NextStatus

LifecycleInit ==
  /\ row = [s \in Signals |-> "NONE"]
  /\ outcome = [s \in Signals |-> None]
  /\ memory = [s \in Signals |-> 0]

Generate(s) ==
  /\ row[s] = "NONE"
  /\ row' = [row EXCEPT ![s] = "SIGNAL_GENERATED"]
  /\ UNCHANGED <<outcome, memory>>

\* Every status but CLOSED is reached freely; CLOSED only once remembered.
Advance(s) ==
  /\ row[s] \in DOMAIN NextStatus
  /\ row[s] = "ANALYZED" => memory[s] = 1
  /\ row' = [row EXCEPT ![s] = NextStatus[row[s]]]
  /\ UNCHANGED <<outcome, memory>>

RecordOutcome(s) ==
  /\ row[s] = "ANALYZED" /\ outcome[s] = None
  /\ \E pnl \in Pnls : outcome' = [outcome EXCEPT ![s] = pnl]
  /\ UNCHANGED <<row, memory>>

Remember(s) ==
  /\ row[s] = "ANALYZED" /\ outcome[s] # None /\ memory[s] = 0
  /\ memory' = [memory EXCEPT ![s] = 1]
  /\ UNCHANGED <<row, outcome>>

LifecycleNext ==
  \E s \in Signals : Generate(s) \/ Advance(s) \/ RecordOutcome(s) \/ Remember(s)

LifecycleSpec == LifecycleInit /\ [][LifecycleNext]_lifecycleVars
=============================================================================
