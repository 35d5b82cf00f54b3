----------------------------- MODULE PaperTrader -----------------------------
(***************************************************************************)
(* modules/paper_trader.py: the shadow positions.  Prices, fills and costs *)
(* are abstracted to which exit a tick resolves and the PnL it books; the  *)
(* premium PnL the code prefers is independent of the index exit, so any   *)
(* PnL of Pnls can come with any exit.                                     *)
(***************************************************************************)
EXTENDS Integers

CONSTANTS Signals,  \* signal ids
          Pnls,     \* the PnL an exit can book, in points
          MaxHold   \* DEFAULT_MAX_HOLD_SECONDS

ASSUME TraderAssumption == Pnls \subseteq Int /\ MaxHold \in Nat

VARIABLES position,  \* "NONE" | "OPEN" | "CLOSED"
          openedAt,  \* opened_at, the signal's ts_epoch
          pnl,       \* the PnL of the last _close of the position
          booked     \* how often _closed holds the position

traderVars == <<position, openedAt, pnl, booked>>

TraderTypeOK ==
  /\ position \in [Signals -> {"NONE", "OPEN", "CLOSED"}]
  /\ openedAt \in [Signals -> Nat]
  /\ pnl \in [Signals -> Int]
  /\ booked \in [Signals -> Nat]

TraderInit ==
  /\ position = [s \in Signals |-> "NONE"]
  /\ openedAt = [s \in Signals |-> 0]
  /\ pnl = [s \in Signals |-> 0]
  /\ booked = [s \in Signals |-> 0]

OpenPositions == {s \in Signals : position[s] = "OPEN"}

\* submit_signal raises ValueError for a side that is neither long nor short.
HasSide(direction) == direction \in {"BULLISH", "BEARISH"}

OpenPosition(s, ts) ==
  /\ position' = [position EXCEPT ![s] = "OPEN"]
  /\ openedAt' = [openedAt EXCEPT ![s] = ts]
  /\ UNCHANGED <<pnl, booked>>

\* A price between stop and target keeps the position, up to MaxHold.
HoldsForever(s, ts) == TRUE   \* mutant: no time exit

MayHold(s, ts) == ts - openedAt[s] <= MaxHold

\* Mutants: the status is not set, or is set to the result.
CloseKeepsStatus(s) ==
  /\ \E p \in Pnls : pnl' = [pnl EXCEPT ![s] = p]
  /\ booked' = [booked EXCEPT ![s] = @ + 1]
  /\ UNCHANGED <<position, openedAt>>
CloseSetsResult(s) ==
  /\ position' = [position EXCEPT ![s] = "LOSS"]
  /\ \E p \in Pnls : pnl' = [pnl EXCEPT ![s] = p]
  /\ booked' = [booked EXCEPT ![s] = @ + 1]
  /\ UNCHANGED openedAt

\* _close: no test of the status, the caller made it.
ClosePosition(s) ==
  /\ position' = [position EXCEPT ![s] = "CLOSED"]
  /\ \E p \in Pnls : pnl' = [pnl EXCEPT ![s] = p]
  /\ booked' = [booked EXCEPT ![s] = @ + 1]
  /\ UNCHANGED openedAt
=============================================================================
