------------------------------- MODULE Triggers -------------------------------
(***************************************************************************)
(* The arithmetic between the ticks and a trigger, the same for the live   *)
(* engine and for the replay: candles, ATR and the volatility regime       *)
(* (core/candle_engine.py), the divergence of price and OI                 *)
(* (core/features.py) and the trigger matrix (core/math_engine.py).        *)
(*                                                                         *)
(* Volume is left out: no caller of evaluate_triggers_with_regime passes   *)
(* any, so the volume half of the scalp trigger is never taken.            *)
(***************************************************************************)
EXTENDS PremarketLevels, SequencesExt

CONSTANTS Bar,             \* seconds of a candle
          AtrPeriod,       \* ATR_PERIOD
          CalmPct,         \* REGIME_CALM_ATR_PCT, in hundredths of a percent
          HighVolPct,      \* REGIME_HIGH_VOL_ATR_PCT, likewise
          PriceTolerance, OiTolerance,   \* of classify_oi_price_divergence
          ScalpMin,        \* SCALP_VELOCITY_1M_MIN of the profile
          IntradayMin      \* INTRADAY_VELOCITY_5M_MIN of the profile

ASSUME TriggerAssumption ==
  /\ Bar \in Nat \ {0} /\ AtrPeriod \in Nat \ {0}
  /\ {CalmPct, HighVolPct, PriceTolerance, OiTolerance, ScalpMin, IntradayMin} \subseteq Nat

-----------------------------------------------------------------------------
(* Candles.                                                                *)

Bucket(t) == t \div Bar

\* build_candles_from_ticks, one tick of its loop: a bar without a tick has no
\* candle.  The totals are what the ingested OI series has for the bar.
Aggregated(candles, t, price, totals) ==
  LET n == Len(candles)  start == Bucket(t) * Bar IN
    IF n > 0 /\ candles[n].t = start
    THEN [candles EXCEPT ![n] =
            [candles[n] EXCEPT !.high = Max({candles[n].high, price}), !.low = Min({candles[n].low, price}),
                               !.close = price, !.totals = totals]]
    ELSE Append(candles, [t |-> start, open |-> price, high |-> price, low |-> price,
                          close |-> price, totals |-> totals])

\* true_ranges, of the i-th candle.
TrueRange(candles, i) ==
  LET c == candles[i]
      before == IF i = 1 THEN c.open ELSE candles[i - 1].close
  IN  Max({c.high - c.low, Distance(c.high, before), Distance(c.low, before)})

\* atr_series: Wilder's smoothing, as a fraction; 0 without enough candles.
Atr(candles) ==
  LET n == Len(candles)
      smoothed[i \in AtrPeriod .. n] ==
        IF i = AtrPeriod
        THEN [num |-> MapThenSumSet(LAMBDA j : TrueRange(candles, j), 1 .. i), den |-> i]
        ELSE [num |-> smoothed[i - 1].num * (AtrPeriod - 1) + TrueRange(candles, i) * smoothed[i - 1].den,
              den |-> smoothed[i - 1].den * AtrPeriod]
  IN  IF n < AtrPeriod THEN [num |-> 0, den |-> 1] ELSE smoothed[n]

\* classify_volatility_regime, of the ATR as a percentage of the last close.
Regime(candles) ==
  LET atr == Atr(candles)
      close == candles[Len(candles)].close
  IN  IF atr.num = 0 THEN "ACTIVE"
      ELSE IF 10000 * atr.num < CalmPct * atr.den * close THEN "CALM"
      ELSE IF 10000 * atr.num > HighVolPct * atr.den * close THEN "HIGH_VOL"
      ELSE "ACTIVE"

-----------------------------------------------------------------------------
(* Divergence.                                                             *)

\* classify_oi_price_divergence.
Divergence(priceChange, oiChange) ==
  LET oiUp == oiChange > OiTolerance  oiDown == oiChange < -OiTolerance IN
    IF priceChange > PriceTolerance /\ oiUp THEN "LONG_BUILD"
    ELSE IF priceChange > PriceTolerance /\ oiDown THEN "SHORT_COVER"
    ELSE IF priceChange < -PriceTolerance /\ oiUp THEN "SHORT_BUILD"
    ELSE IF priceChange < -PriceTolerance /\ oiDown THEN "LONG_UNWIND"
    ELSE "NEUTRAL"

\* direction_from_divergence: "" is no edge.
Direction(label) ==
  IF label \in {"LONG_BUILD", "SHORT_COVER"} THEN "LONG"
  ELSE IF label \in {"SHORT_BUILD", "LONG_UNWIND"} THEN "SHORT" ELSE ""

-----------------------------------------------------------------------------
(* The trigger matrix.                                                     *)

\* oi_velocity of both sides over both windows: the totals now and then.
Velocities(current, past1, past5) ==
  [call1 |-> current.call - past1.call, put1 |-> current.put - past1.put,
   call5 |-> current.call - past5.call, put5 |-> current.put - past5.put]

\* scale_thresholds_by_regime, in tenths.
Scaling(regime) == CASE regime = "CALM" -> 13 [] regime = "ACTIVE" -> 10 [] regime = "HIGH_VOL" -> 8

\* _scalp_trigger and _intraday_trigger: the faster side reaches the threshold.
Fast(v, w, threshold, regime) ==
  10 * Max({Distance(v, 0), Distance(w, 0)}) >= Scaling(regime) * threshold

\* evaluate_triggers_with_regime, as the set of triggers that fire.
Triggered(v, spot, regime, extra) ==
  (IF Fast(v.call1, v.put1, ScalpMin, regime) THEN {"SCALP"} ELSE {}) \cup
  (IF LevelsInRange(spot, extra) # {} /\ Fast(v.call5, v.put5, IntradayMin, regime)
   THEN {"INTRADAY"} ELSE {})
=============================================================================
