-------------------------------- MODULE Replay --------------------------------
(***************************************************************************)
(* One tape of ticks, seen twice: live, tick by tick, by                   *)
(* modules/signal_engine.py (the history its OI velocities come from) and  *)
(* modules/paper_trader.py (the exit of a trade), and afterwards, bar by   *)
(* bar, by modules/replay_engine.py and modules/backtest_engine.py.        *)
(*                                                                         *)
(* A tick carries the price of the index and the chain's open interest at  *)
(* that instant.  The trade is alerted at the last instant of bar 0, where *)
(* the replay would signal it too.  Slippage and cost are whole points.    *)
(***************************************************************************)
EXTENDS Triggers, Functions

CONSTANTS Markets,       \* what a tape may show: sets of quotes, [price, chain]
          Window1, Window5,   \* the look-backs of the velocities, 60 and 300 s
          Keep,          \* MAX_OI_HISTORY_SECONDS
          TickBuffer,    \* SPOT_TICK_BUFFER_SIZE
          RegimeBars,    \* the bars before its own a replayed bar's regime is from
          StopLoss, Target,   \* points of every signal
          Slippage, Cost,     \* of CostModel
          MaxHoldBars,   \* DEFAULT_MAX_HOLD_BARS; MaxHold is as many bars
          MaxGap,        \* bound on the time between two ticks
          MaxNow         \* bound on the tape

ASSUME ReplayAssumption ==
  /\ {Window1, Window5, Keep, RegimeBars, StopLoss, Target, Slippage, Cost, MaxHoldBars, MaxNow} \subseteq Nat
  /\ MaxGap \in Nat \ {0} /\ TickBuffer \in Nat \ {0}
  /\ Window1 <= Window5 /\ Window5 <= Keep /\ Window1 % Bar = 0 /\ Window5 % Bar = 0
  /\ Bar - 1 <= MaxNow   \* the tape reaches the alert
  /\ \A quotes \in Markets : \A q \in quotes :
       q.price \in Int /\ {q.chain.call, q.chain.put} \subseteq [Strikes -> Nat]

VARIABLES market,     \* the quotes of this tape
          now, quote, \* its last tick
          ticks,      \* KEY_SPOT_TICKS, what get_spot_ticks reads of it
          candles,    \* the tape so far, as ingested for a replay
          oiHistory,  \* _oi_history
          trade,      \* the paper position; its reason is "" while it is open
          changes     \* history: every change of the totals on the tape

vars == <<market, now, quote, ticks, candles, oiHistory, trade, changes>>

\* _total_oi: the sum over the strikes of the last samples of their windows.
Totals(chain) == [call |-> SumFunction(chain.call), put |-> SumFunction(chain.put)]

-----------------------------------------------------------------------------
(* The OI history of the live engine.                                      *)

RecordedUnpruned(history, t, totals) ==          \* mutant: nothing is pruned
  IF history # <<>> /\ Last(history).totals = totals THEN history
  ELSE Append(history, [t |-> t, totals |-> totals])

\* _record_oi_snapshot: append what changed, then prune from the left.
Recorded(history, t, totals) ==
  LET same == history # <<>> /\ Last(history).totals = totals
      longer == IF same THEN history ELSE Append(history, [t |-> t, totals |-> totals])
      old == {i \in DOMAIN longer : \A j \in 1 .. i : longer[j].t < t - Keep}
  IN  SubSeq(longer, Cardinality(old) + 1, Len(longer))

None == [call |-> 0, put |-> 0]

LookupStrictly(history, target) ==               \* mutant: < for <=
  LET before == {i \in DOMAIN history : history[i].t < target} IN
    IF history = <<>> THEN None
    ELSE IF before = {} THEN history[1].totals ELSE history[Max(before)].totals

\* _oi_lookup: the latest entry that old, or the oldest, or nothing.
Lookup(history, target) ==
  LET before == {i \in DOMAIN history : history[i].t <= target} IN
    IF history = <<>> THEN None
    ELSE IF before = {} THEN history[1].totals ELSE history[Max(before)].totals

\* The velocities of _build_features.
LiveVelocities ==
  Velocities(Totals(quote.chain), Lookup(oiHistory, now - Window1), Lookup(oiHistory, now - Window5))

\* push_spot_tick, read back: the last TickBuffer ticks, whether or not the LTRIM
\* that follows the RPUSH has cut the list yet.
Buffered(items, t, price) ==
  LET longer == Append(items, [t |-> t, price |-> price]) IN
    SubSeq(longer, Max({1, Len(longer) - TickBuffer + 1}), Len(longer))

\* build_candles_from_ticks of the buffer; a spot tick carries no totals.
LiveCandles ==
  LET bars[i \in 0 .. Len(ticks)] ==
        IF i = 0 THEN <<>> ELSE Aggregated(bars[i - 1], ticks[i].t, ticks[i].price, None)
  IN  bars[Len(ticks)]

\* The regime of _build_features: of the ticks in the buffer, not of the session.
LiveRegime == Regime(LiveCandles)

\* _maybe_evaluate, with the levels a premarket run on these ticks stores.
LiveTriggers ==
  Triggered(LiveVelocities, quote.price, LiveRegime,
            LevelList(SessionBounds(LiveCandles), quote.chain))

-----------------------------------------------------------------------------
(* The replay.                                                             *)

\* HistoricalOIProvider._at_or_before, in the series ingested with the candles.
AtOrBefore(bars, target) ==
  LET before == {i \in DOMAIN bars : bars[i].t <= target} IN
    IF before = {} THEN None ELSE bars[Max(before)].totals

\* oi_metrics_for_bar.
BarVelocities(bars, t) ==
  Velocities(AtOrBefore(bars, t), AtOrBefore(bars, t - Window1), AtOrBefore(bars, t - Window5))

WholeSeries(bars, i) == bars                     \* mutant: the bars after it too

RegimeWindowShort(bars, i) ==                    \* mutant: one bar short
  SubSeq(bars, Max({1, i - RegimeBars + 1}), i)

\* The bars a replayed bar's regime is from.
RegimeWindow(bars, i) == SubSeq(bars, Max({1, i - RegimeBars}), i)

\* ReplayEngine.run, one bar of it: what it triggers and in which direction.
BarSignal(bars, i) ==
  LET c == bars[i]
      v == BarVelocities(bars, c.t)
  IN  [t |-> c.t, entry |-> c.close,
       triggers |-> Triggered(v, c.close, Regime(RegimeWindow(bars, i)), {}),
       side |-> Direction(Divergence(c.close - c.open, v.call1))]

\* ReplayEngine.run: one signal per bar that triggers with a direction, in the
\* order of the bars.
Signals(bars) ==
  {s \in {BarSignal(bars, i) : i \in DOMAIN bars} : s.triggers # {} /\ s.side # ""}

-----------------------------------------------------------------------------
(* Fills, the paper trade and the simulated one.                           *)

Sign(side) == IF side = "LONG" THEN 1 ELSE -1

\* CostModel.fill_price and net_pnl_points.
Fill(price, side) == price + Sign(side) * Slippage
NetPnl(entry, exit, side) == (exit - entry) * Sign(side) - Cost

TargetPrice(side, entry) == entry + Sign(side) * Target
StopPrice(side, entry) == entry - Sign(side) * StopLoss

\* Whether a price is as good as the target, as bad as the stop.
AtTarget(side, entry, price) == (price - TargetPrice(side, entry)) * Sign(side) >= 0
AtStop(side, entry, price) == (price - StopPrice(side, entry)) * Sign(side) <= 0

\* PaperTrader.update_price: the exit a price resolves, "" for none.
ExitReason(p, price, t) ==
  IF AtTarget(p.side, p.entry, price) THEN "TARGET_HIT"
  ELSE IF AtStop(p.side, p.entry, price) THEN "SL_HIT"
  ELSE IF t - p.opened > MaxHoldBars * Bar THEN "TIME_EXIT" ELSE ""

\* PaperTrader._close.
Closed(p, reason, price, t) ==
  LET exit == Fill(price, p.side) IN
    [p EXCEPT !.reason = reason, !.closed = t, !.raw = price, !.pnl = NetPnl(p.entry, exit, p.side)]

Updated(p, price, t) ==
  LET reason == ExitReason(p, price, t) IN
    IF p.reason # "" \/ reason = "" THEN p ELSE Closed(p, reason, price, t)

Best(bar, side) == IF side = "LONG" THEN bar.high ELSE bar.low
Worst(bar, side) == IF side = "LONG" THEN bar.low ELSE bar.high

BarExitStopFirst(bar, side, entry) ==            \* mutant: the stop before the target
  IF AtStop(side, entry, Worst(bar, side)) THEN "SL_HIT"
  ELSE IF AtTarget(side, entry, Best(bar, side)) THEN "TARGET_HIT" ELSE ""

BarExit(bar, side, entry) ==
  IF AtTarget(side, entry, Best(bar, side)) THEN "TARGET_HIT"
  ELSE IF AtStop(side, entry, Worst(bar, side)) THEN "SL_HIT" ELSE ""

\* BacktestEngine._simulate_trade: walk the bars after the first one, close at
\* the level a bar touches, or at the close of the last bar held.
Simulated(bars, side, alert) ==
  LET entry == Fill(alert, side)
      hits == {i \in 2 .. MaxHoldBars + 1 : i <= Len(bars) /\ BarExit(bars[i], side, entry) # ""}
      heldTo == Min({MaxHoldBars + 1, Len(bars)})
      reason == IF hits = {} THEN "TIME_EXIT" ELSE BarExit(bars[Min(hits)], side, entry)
      exit == CASE reason = "TARGET_HIT" -> TargetPrice(side, entry)
                [] reason = "SL_HIT" -> StopPrice(side, entry)
                [] reason = "TIME_EXIT" -> bars[heldTo].close
  IN  [reason |-> reason, pnl |-> NetPnl(entry, Fill(exit, side), side)]

-----------------------------------------------------------------------------

\* PaperTrader.submit_signal at the alert.
Submitted(side, t, alert) ==
  [side |-> side, opened |-> t, alert |-> alert, entry |-> Fill(alert, side),
   reason |-> "", closed |-> 0, raw |-> 0, pnl |-> 0]

Init ==
  \E side \in {"LONG", "SHORT"}, quotes \in Markets : \E first \in quotes :
    LET totals == Totals(first.chain) IN
      /\ market = quotes /\ now = Bar - 1 /\ quote = first
      /\ ticks = <<[t |-> now, price |-> first.price]>>
      /\ candles = Aggregated(<<>>, now, first.price, totals)
      /\ oiHistory = <<[t |-> now, totals |-> totals]>> /\ changes = oiHistory
      /\ trade = Submitted(side, now, first.price)

\* The tick enters the buffer; then SignalEngine.on_tick: _handle_spot and the
\* snapshot of _build_features.
OnTick ==
  \E gap \in 1 .. MaxGap, next \in market :
    LET totals == Totals(next.chain) IN
      /\ now' = now + gap /\ now' <= MaxNow /\ quote' = next
      /\ ticks' = Buffered(ticks, now', next.price)
      /\ candles' = Aggregated(candles, now', next.price, totals)
      /\ trade' = Updated(trade, next.price, now')
      /\ oiHistory' = Recorded(oiHistory, now', totals)
      /\ changes' = IF totals = Totals(quote.chain) THEN changes
                    ELSE Append(changes, [t |-> now', totals |-> totals])
      /\ UNCHANGED market

Next == OnTick

Spec == Init /\ [][Next]_vars

-----------------------------------------------------------------------------
(* Properties.                                                             *)

Reasons == {"TARGET_HIT", "SL_HIT", "TIME_EXIT"}

\* Every variable has its type; what the code keeps of the tape rises and is in bounds.
TypeOK ==
  /\ market \in Markets /\ now \in 0 .. MaxNow /\ quote \in market
  /\ Len(ticks) \in 1 .. TickBuffer /\ ticks[Len(ticks)] = [t |-> now, price |-> quote.price]
  /\ \A i \in DOMAIN candles : candles[i].low <= candles[i].close /\ candles[i].close <= candles[i].high
  /\ \A i \in DOMAIN candles : i > 1 => candles[i].t > candles[i - 1].t
  /\ \A i \in DOMAIN oiHistory :
       /\ oiHistory[i].t >= now - Keep
       /\ i > 1 => oiHistory[i].t > oiHistory[i - 1].t /\ oiHistory[i].totals # oiHistory[i - 1].totals
  /\ trade.side \in {"LONG", "SHORT"} /\ trade.reason \in Reasons \cup {""} /\ trade.pnl \in Int

\* The last change that a look-back should see is one the history still keeps.
Remembered(window) ==
  LET before == {i \in DOMAIN changes : changes[i].t <= now - window} IN
    before # {} /\ changes[Max(before)].t >= now - Keep

\* At the end of a bar whose look-backs the history remembers.
LooksBack == now % Bar = Bar - 1 /\ Remembered(Window1) /\ Remembered(Window5)

\* What ReplayEngine.run makes of the bar that has just ended.
Replayed == BarSignal(candles, Len(candles))
ReplayedRegime == Regime(RegimeWindow(candles, Len(candles)))

\* At the end of a bar the live engine and a replay of the tape compute the same
\* velocities while the history remembers; and what the replay then triggers on the
\* bar, from its own 41 bars and its own closing price, the live engine triggers on
\* the tick, unless its buffer shows it a calmer regime (ReplayEngine.run,
\* _maybe_evaluate).
ReplayedAsLive ==
  LooksBack =>
    /\ LiveVelocities = BarVelocities(candles, Bucket(now) * Bar)
    /\ Scaling(LiveRegime) <= Scaling(ReplayedRegime) => Replayed.triggers \subseteq LiveTriggers

\* As long as the buffer still holds the tape from its first tick on, and the window
\* of the replayed bar all of its bars, the two regimes are the same, in the middle
\* of a bar as well (get_spot_ticks, ReplayEngine.run).
SameRegimeWhileBuffered ==
  (ticks[1].t = Bar - 1 /\ Len(candles) <= RegimeBars + 1) => LiveRegime = ReplayedRegime

\* "Replays minute candles through the exact same feature functions used live ... so
\* backtest == live": what the replay triggers on a bar the live engine did too.
BacktestEqualsLive == LooksBack => Replayed.triggers \subseteq LiveTriggers

\* The tape has a tick in every bar up to the one of time t.
NoBarMissing(t) == candles[Bucket(t) + 1].t = Bucket(t) * Bar

\* The backtest ends a trade as the paper trader did, at the same or a less extreme
\* price, unless one bar touched both levels, when it takes the target, or the
\* trader only saw the level after the longest hold (_simulate_trade, update_price).
BacktestAgrees ==
  LET b == Simulated(candles, trade.side, trade.alert)
      TouchesBoth(bar) ==
        AtStop(trade.side, trade.entry, Worst(bar, trade.side))
          /\ AtTarget(trade.side, trade.entry, Best(bar, trade.side))
  IN  (trade.reason # "" /\ Bucket(trade.closed) < Len(candles) /\ NoBarMissing(trade.closed)) =>
        \/ /\ b.reason = trade.reason
           /\ trade.reason = "TARGET_HIT" => b.pnl <= trade.pnl
           /\ trade.reason = "SL_HIT" => b.pnl >= trade.pnl
        \/ /\ trade.reason = "SL_HIT" /\ b.reason = "TARGET_HIT"
           /\ TouchesBoth(candles[Bucket(trade.closed) + 1])
        \/ b.reason = "TIME_EXIT" /\ trade.closed - trade.opened > MaxHoldBars * Bar

\* The bars that are over at time t: the first ones.
Over(bars, t) == [i \in {j \in DOMAIN bars : bars[j].t + Bar <= t + 1} |-> bars[i]]

\* A replay does not look ahead: what it signals on the bars that are complete, and
\* on which of them, stays what it signals as the tape grows (ReplayEngine.run).
NoLookAhead ==
  [][Signals(Over(candles, now)) = {s \in Signals(candles') : s.t + Bar <= now + 1}]_vars
=============================================================================
