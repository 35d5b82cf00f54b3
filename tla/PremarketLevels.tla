--------------------------- MODULE PremarketLevels ---------------------------
(***************************************************************************)
(* core/premarket_levels.py and the level helpers of core/math_engine.py:  *)
(* the pivot fan of a session, the OI walls and the max-pain strike of a   *)
(* chain, and which levels the spot is at.                                 *)
(*                                                                         *)
(* A price and a strike are integers.  A level is kept in thirds of a      *)
(* point, which makes the pivot (H + L + C) / 3 an integer; the rounding   *)
(* of stored levels to two decimals is left out.                           *)
(***************************************************************************)
EXTENDS Integers, Sequences, FiniteSets, FiniteSetsExt

CONSTANTS RoundBase,      \* S_R_LEVEL_ROUND_BASE, and base of nearest_round_level
          Tolerance,      \* LEVEL_DISTANCE_TOLERANCE
          WallsPerSide,   \* OI_WALLS_PER_SIDE
          MinStrikes,     \* OI_LEVEL_MIN_STRIKES
          Strikes         \* the strikes Redis lists

ASSUME LevelsAssumption ==
  /\ RoundBase \in Nat \ {0} /\ Tolerance \in Nat /\ WallsPerSide \in Nat /\ MinStrikes \in Nat
  /\ Strikes \in SUBSET Int /\ IsFiniteSet(Strikes)

Thirds(x) == 3 * x
Distance(a, b) == IF a >= b THEN a - b ELSE b - a

\* round(x / base) * base: halves go to the even multiple.
NearestRound(x, base) ==
  LET k == x \div base  r == x % base IN
    IF 2 * r < base \/ (2 * r = base /\ k % 2 = 0) THEN k * base ELSE (k + 1) * base

\* session_bounds_from_ticks, of the ticks that these candles sum up.
SessionBounds(candles) ==
  [high |-> Max({candles[i].high : i \in DOMAIN candles}),
   low |-> Min({candles[i].low : i \in DOMAIN candles}),
   close |-> candles[Len(candles)].close]

\* compute_pivot_sr, in thirds.
PivotFan(high, low, close) ==
  LET pivot == high + low + close IN
    [pivot |-> pivot,
     r1 |-> 2 * pivot - Thirds(low), r2 |-> pivot + Thirds(high - low),
     s1 |-> 2 * pivot - Thirds(high), s2 |-> pivot - Thirds(high - low)]

\* _round_level of compute_pivot_sr, above and below a price.
PsychResistance(price) ==
  LET rounded == NearestRound(price, Thirds(RoundBase)) IN
    IF rounded <= price THEN rounded + Thirds(RoundBase) ELSE rounded

PsychSupport(price) ==
  LET rounded == NearestRound(price, Thirds(RoundBase)) IN
    IF rounded >= price THEN rounded - Thirds(RoundBase) ELSE rounded

-----------------------------------------------------------------------------
(* The OI profile: chain.call[s] and chain.put[s] for every strike.        *)

Combined(chain, s) == chain.call[s] + chain.put[s]

Carrying(chain) == {s \in Strikes : Combined(chain, s) > 0}

\* find_max_pain_strike; among equals Python's dictionary decides.
MaxPain(chain) ==
  {CHOOSE s \in carrying : \A o \in carrying : Combined(chain, o) <= Combined(chain, s) :
     carrying \in {Carrying(chain)} \ {{}}}

\* _top_walls: of the strikes on one side of the spot, those with half of the
\* heaviest one's OI, and of them the heaviest, the lower strike first.
TopWalls(oi, side) ==
  LET strong == {s \in side : oi[s] > 0 /\ \A o \in side : 2 * oi[s] >= oi[o]}
      Ahead(s) == {o \in strong : oi[o] > oi[s] \/ (oi[o] = oi[s] /\ o < s)}
  IN  {s \in strong : Cardinality(Ahead(s)) < WallsPerSide}

\* oi_wall_levels: none before enough strikes carry OI.
Profiled(chain) == Cardinality(Carrying(chain)) >= MinStrikes

Resistance(chain, spot) ==
  IF Profiled(chain) THEN TopWalls(chain.call, {s \in Strikes : s > spot}) ELSE {}

Support(chain, spot) ==
  IF Profiled(chain) THEN TopWalls(chain.put, {s \in Strikes : s < spot}) ELSE {}

\* What PreMarketEngine.run stores and _premarket_level_list reads back.
LevelList(bounds, chain) ==
  LET fan == PivotFan(bounds.high, bounds.low, bounds.close)
      walls == Resistance(chain, bounds.close) \cup Support(chain, bounds.close)
  IN  {fan.pivot, fan.r1, fan.r2, fan.s1, fan.s2}
      \cup {Thirds(s) : s \in walls \cup MaxPain(chain)}

-----------------------------------------------------------------------------
(* The Level Condition of core/math_engine.py.                             *)

\* is_at_level.
AtLevel(spot, level) == Distance(Thirds(spot), level) <= Thirds(Tolerance)

\* round_levels_in_range.
RoundLevels(spot) ==
  LET center == NearestRound(spot, RoundBase) IN
    {level \in {Thirds(center + d * RoundBase) : d \in -1 .. 1} : AtLevel(spot, level)}

\* levels_in_range.
LevelsInRange(spot, extra) == RoundLevels(spot) \cup {level \in extra : AtLevel(spot, level)}
=============================================================================
