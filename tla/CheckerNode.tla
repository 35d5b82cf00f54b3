----------------------------- MODULE CheckerNode -----------------------------
(***************************************************************************)
(* modules/checker_node.py: the stateful guardrails C, D and E.  Rules A,  *)
(* B, F and G read only the signal and the quotes; the engine passes their *)
(* joint verdict in.  Nothing in the code calls reset_daily.               *)
(***************************************************************************)
EXTENDS Integers, Sequences, FiniteSets

CONSTANTS Strikes,            \* option strikes a signal can name
          None,               \* dict.get of an absent key
          DuplicateCooldown,  \* Rule C, DUPLICATE_ALERT_COOLDOWN_SECONDS
          StrikeCooldown,     \* Rule E.2, STRIKE_COOLDOWN_SECONDS
          RateWindow,         \* Rule E.1, SIGNAL_RATE_WINDOW_SECONDS
          MaxSignalsPerHour,  \* Rule E.1, MAX_SIGNALS_PER_HOUR
          MaxDailyLoss        \* Rule D, MAX_DAILY_LOSS_POINTS

ASSUME NoneAssumption == None \notin Int
ASSUME CheckerAssumption ==
  /\ DuplicateCooldown \in Nat /\ StrikeCooldown \in Nat
  /\ RateWindow \in Nat
  /\ MaxSignalsPerHour \in Nat \ {0}
  /\ MaxDailyLoss \in Nat \ {0}

VARIABLES now,         \* time.time(), in the unit of the cooldowns
          pnlDay,      \* _daily_pnl_points
          halted,      \* _daily_loss_halted
          alertTimes,  \* _signal_timestamps, never pruned
          lastAlert    \* _last_alert_by_strike

checkerVars == <<pnlDay, halted, alertTimes, lastAlert>>

CheckerTypeOK ==
  /\ now \in Nat
  /\ pnlDay \in Int /\ halted \in BOOLEAN
  /\ alertTimes \in Seq(Nat)
  /\ lastAlert \in [Strikes -> Nat \cup {None}]

CheckerInit ==
  /\ pnlDay = 0
  /\ halted = FALSE
  /\ alertTimes = <<>>
  /\ lastAlert = [k \in Strikes |-> None]

CoolingDown(last, t, cooldown) == last # None /\ t - last < cooldown

RuleC(k) == ~CoolingDown(lastAlert[k], now, DuplicateCooldown)

RuleDAtLimit == pnlDay >= -MaxDailyLoss   \* mutant: halts only beyond the limit

RuleD == ~halted /\ pnlDay > -MaxDailyLoss

\* The approvals with a timestamp no older than t.
ApprovalsSince(t) == {i \in DOMAIN alertTimes : alertTimes[i] >= t}

\* Mutants of RuleE: one approval too many, and no spacing per strike.
RuleEAtCap(k) ==
  /\ Cardinality(ApprovalsSince(now - RateWindow)) <= MaxSignalsPerHour
  /\ ~CoolingDown(lastAlert[k], now, StrikeCooldown)
RuleERateOnly(k) == Cardinality(ApprovalsSince(now - RateWindow)) < MaxSignalsPerHour

RuleE(k) ==
  /\ Cardinality(ApprovalsSince(now - RateWindow)) < MaxSignalsPerHour
  /\ ~CoolingDown(lastAlert[k], now, StrikeCooldown)

\* check(): APPROVED iff every rule passes.  The clock is read again and the
\* approval recorded by RecordApproval, a later step of the same thread.
ChecksPass(k, signalRules) == signalRules /\ RuleC(k) /\ RuleD /\ RuleE(k)

RecordApproval(k) ==
  /\ alertTimes' = Append(alertTimes, now)
  /\ lastAlert' = [lastAlert EXCEPT ![k] = now]
  /\ UNCHANGED <<pnlDay, halted>>

\* Mutant: only losses are fed.
RecordLosses(pnl) ==
  /\ pnlDay' = IF pnl < 0 THEN pnlDay + pnl ELSE pnlDay
  /\ halted' = (halted \/ pnlDay' <= -MaxDailyLoss)
  /\ UNCHANGED <<alertTimes, lastAlert>>

RecordExitPnl(pnl) ==
  /\ pnlDay' = pnlDay + pnl
  /\ halted' = (halted \/ pnlDay' <= -MaxDailyLoss)
  /\ UNCHANGED <<alertTimes, lastAlert>>
=============================================================================
