----------------------------- MODULE ReplayProofs -----------------------------
(* Theorems about Replay, for any tape, windows, levels and costs, and about *)
(* the levels and triggers it shares with the live engine, for any prices.   *)
EXTENDS Replay, SetLemmas, SequenceTheorems, TLAPS

-----------------------------------------------------------------------------
(* The inductive invariant.                                                *)

Sums == {Totals(q.chain) : q \in UNION Markets}
Candles == [t : Nat, open : Int, high : Int, low : Int, close : Int, totals : Sums]
Stamps == [t : Nat, totals : Sums]
Trades == [side : {"LONG", "SHORT"}, opened : Nat, alert : Int, entry : Int,
           reason : Reasons \cup {""}, closed : Nat, raw : Int, pnl : Int]

Typed ==
  /\ market \in Markets /\ quote \in market
  /\ now \in Nat /\ Bar - 1 <= now /\ now <= MaxNow
  /\ candles \in Seq(Candles) /\ oiHistory \in Seq(Stamps) /\ changes \in Seq(Stamps)
  /\ trade \in Trades

Rising(items) == \A i, j \in DOMAIN items : i < j => items[i].t < items[j].t

Ordered(bar) == bar.low <= bar.close /\ bar.close <= bar.high
Aligned(bar) == bar.t = Bucket(bar.t) * Bar

\* The candles begin with bar 0, are bars of the tape, and end with the current one.
BarInv ==
  /\ Len(candles) > 0 /\ candles[1].t = 0 /\ candles[Len(candles)].t = Bucket(now) * Bar
  /\ Rising(candles)
  /\ \A i \in DOMAIN candles : Ordered(candles[i]) /\ Aligned(candles[i])

\* The entry in force at time t is the last one until then.
InForce(items, c, t) ==
  /\ c \in DOMAIN items /\ items[c].t <= t
  /\ \A d \in DOMAIN items : items[d].t <= t => d <= c
Shows(items, totals, t) == \E c \in DOMAIN items : InForce(items, c, t) /\ items[c].totals = totals

ChangeInv ==
  /\ Len(changes) > 0 /\ changes[Len(changes)].totals = Totals(quote.chain)
  /\ Rising(changes)
  /\ \A c \in DOMAIN changes : changes[c].t <= now

\* The history holds what was in force whenever it was written, every change of
\* the last Keep seconds, and nothing older.
HistoryInv ==
  /\ Rising(oiHistory)
  /\ Len(oiHistory) > 0 => oiHistory[Len(oiHistory)].totals = Totals(quote.chain)
  /\ \A i \in DOMAIN oiHistory :
       /\ now - Keep <= oiHistory[i].t /\ oiHistory[i].t <= now
       /\ i > 1 => oiHistory[i].totals # oiHistory[i - 1].totals
       /\ Shows(changes, oiHistory[i].totals, oiHistory[i].t)
  /\ \A c \in DOMAIN changes :
       changes[c].t >= now - Keep => \E i \in DOMAIN oiHistory : oiHistory[i].t = changes[c].t

\* A candle has the totals in force at its end, and a bar with a change a candle.
ShownInv ==
  /\ \A i \in DOMAIN candles : Shows(changes, candles[i].totals, candles[i].t + Bar - 1)
  /\ \A c \in DOMAIN changes : \E i \in DOMAIN candles : candles[i].t = Bucket(changes[c].t) * Bar

\* No bar after the alert's has touched a level before the one the trade was
\* closed in, and that one spans the price it was closed at.
TradeInv ==
  /\ trade.opened = Bar - 1 /\ trade.entry = Fill(trade.alert, trade.side)
  /\ \A i \in DOMAIN candles :
       i > 1 /\ (trade.reason = "" \/ candles[i].t < Bucket(trade.closed) * Bar)
         => BarExit(candles[i], trade.side, trade.entry) = ""
  /\ trade.reason # "" =>
       /\ Bar <= trade.closed /\ trade.closed <= now
       /\ trade.reason = ExitReason(trade, trade.raw, trade.closed)
       /\ trade.pnl = NetPnl(trade.entry, Fill(trade.raw, trade.side), trade.side)
       /\ \E i \in DOMAIN candles :
            /\ candles[i].t = Bucket(trade.closed) * Bar
            /\ candles[i].low <= trade.raw /\ trade.raw <= candles[i].high

\* The buffer and the last candle end with the current tick.
CurrentInv ==
  /\ ticks \in Seq([t : Nat, price : Int]) /\ Len(ticks) \in 1 .. TickBuffer
  /\ ticks[Len(ticks)] = [t |-> now, price |-> quote.price]
  /\ candles[Len(candles)].close = quote.price

ReplayInv == CurrentInv /\ Typed /\ BarInv /\ ChangeInv /\ HistoryInv /\ ShownInv /\ TradeInv

-----------------------------------------------------------------------------
(* Bars, and the extremes of finite sets.                                  *)

LEMMA BucketBounds ==
  ASSUME NEW t \in Nat
  PROVE  /\ Bucket(t) \in Nat /\ Bucket(t) * Bar \in Nat
         /\ Bucket(t) * Bar <= t /\ t <= Bucket(t) * Bar + Bar - 1
         /\ t % Bar = t - Bucket(t) * Bar
BY TriggerAssumption DEF Bucket

LEMMA MultipleOrder ==
  ASSUME NEW a \in Nat, NEW b \in Nat, a < b
  PROVE  a * Bar + Bar <= b * Bar
<1>1. Bar \in Nat \ {0}
  BY TriggerAssumption
<1>2. QED
  BY <1>1

\* A later bar begins after an earlier one is over.
LEMMA AlignedOrder ==
  ASSUME NEW a, NEW b, a.t \in Nat, b.t \in Nat, Aligned(a), Aligned(b), a.t < b.t
  PROVE  a.t + Bar <= b.t
<1>1. Bar \in Nat \ {0} /\ Bucket(a.t) \in Nat /\ Bucket(b.t) \in Nat
  BY TriggerAssumption, BucketBounds
<1>2. CASE Bucket(a.t) < Bucket(b.t)
  <2>1. Bucket(a.t) * Bar + Bar <= Bucket(b.t) * Bar
    BY <1>1, <1>2, MultipleOrder
  <2>2. QED
    BY <2>1 DEF Aligned
<1>3. CASE Bucket(a.t) = Bucket(b.t)
  BY <1>3 DEF Aligned
<1>4. CASE Bucket(b.t) < Bucket(a.t)
  <2>1. Bucket(b.t) * Bar + Bar <= Bucket(a.t) * Bar
    BY <1>1, <1>4, MultipleOrder
  <2>2. b.t + Bar <= a.t
    BY <2>1 DEF Aligned
  <2>3. QED
    BY <1>1, <2>2
<1>5. QED
  BY <1>1, <1>2, <1>3, <1>4

LEMMA BucketMonotone ==
  ASSUME NEW s \in Nat, NEW t \in Nat, s <= t
  PROVE  Bucket(s) <= Bucket(t) /\ Bucket(s) * Bar <= Bucket(t) * Bar
<1>1. Bar \in Nat \ {0}
  BY TriggerAssumption
<1>2. CASE Bucket(t) < Bucket(s)
  <2>1. Bucket(t) * Bar + Bar <= Bucket(s) * Bar
    BY <1>2, BucketBounds, MultipleOrder
  <2>2. QED
    BY <1>1, <2>1, BucketBounds
<1> DEFINE a == Bucket(s)
           b == Bucket(t)
<1>3. a \in Nat /\ b \in Nat /\ a * Bar \in Nat /\ b * Bar \in Nat
  BY BucketBounds
<1>4. CASE a < b
  <2>1. a * Bar + Bar <= b * Bar
    BY <1>3, <1>4, MultipleOrder
  <2> HIDE DEF a, b
  <2>2. QED
    BY <1>1, <1>3, <1>4, <2>1 DEF a, b
<1>5. CASE a = b
  BY <1>3, <1>5
<1>6. QED
  BY <1>2, <1>3, <1>4, <1>5

LEMMA BucketOfMultiple ==
  ASSUME NEW k \in Nat
  PROVE  k * Bar \in Nat /\ Bucket(k * Bar) = k
<1>1. Bar \in Nat \ {0} /\ k * Bar \in Nat
  BY TriggerAssumption
<1> DEFINE b == Bucket(k * Bar)
<1>2. b \in Nat /\ b * Bar <= k * Bar /\ k * Bar <= b * Bar + Bar - 1
  BY <1>1, BucketBounds
<1> HIDE DEF b
<1>3. ~(b < k)
  BY <1>1, <1>2, MultipleOrder
<1>4. ~(k < b)
  BY <1>1, <1>2, MultipleOrder
<1>5. QED
  BY <1>1, <1>2, <1>3, <1>4 DEF b

\* The last index that satisfies a condition.
LEMMA LastIndex ==
  ASSUME NEW n \in Nat, NEW S \in SUBSET (1 .. n), S # {}
  PROVE  /\ Max(S) \in S /\ \A i \in S : i <= Max(S)
         /\ Min(S) \in S /\ \A i \in S : Min(S) <= i
         /\ Max(S) \in 1 .. n /\ Min(S) \in 1 .. n
<1>1. IsFiniteSet(1 .. n)
  BY FS_Interval
<1>2. IsFiniteSet(S)
  BY <1>1, FS_Subset
<1>3. S \in SUBSET Int
  OBVIOUS
<1>4. QED
  BY <1>2, <1>3, MaxProperties, MinProperties

LEMMA PairExtremes ==
  ASSUME NEW a \in Int, NEW b \in Int
  PROVE  /\ Max({a, b}) \in {a, b} /\ a <= Max({a, b}) /\ b <= Max({a, b})
         /\ Min({a, b}) \in {a, b} /\ Min({a, b}) <= a /\ Min({a, b}) <= b
<1>1. {a, b} \in SUBSET Int /\ {a, b} # {} /\ IsFiniteSet({a, b})
  <2>1. IsFiniteSet({a} \cup {b}) /\ {a, b} = {a} \cup {b}
    BY FS_AddElement, FS_Singleton
  <2>2. QED
    BY <2>1
<1>2. QED
  BY <1>1, MaxProperties, MinProperties

-----------------------------------------------------------------------------
(* One tick more.                                                          *)

LEMMA QuoteTyped ==
  ASSUME market \in Markets, NEW q \in market
  PROVE  q.price \in Int /\ Totals(q.chain) \in Sums
BY ReplayAssumption DEF Sums

\* The candles before the last one stay, and are over; the last one spans the tick.
LEMMA CandleStep ==
  ASSUME Typed, BarInv, NEW price \in Int, NEW totals \in Sums, now' \in Nat, now < now',
         candles' = Aggregated(candles, now', price, totals)
  PROVE  LET n == Len(candles)  m == Len(candles') IN
         /\ candles' \in Seq(Candles) /\ n \in Nat \ {0} /\ m \in {n, n + 1}
         /\ \A i \in 1 .. m - 1 : i \in 1 .. n /\ candles'[i] = candles[i] /\ candles'[i].t + Bar <= now'
         /\ candles'[m].t = Bucket(now') * Bar /\ candles'[m].totals = totals
         /\ candles'[m].close = price /\ candles'[m].low <= price /\ price <= candles'[m].high
         /\ \/ m = n + 1 /\ candles'[m].low = price /\ candles'[m].high = price
            \/ /\ m = n /\ candles'[n].t = candles[n].t
               /\ candles'[n].high \in {candles[n].high, price} /\ candles[n].high <= candles'[n].high
               /\ candles'[n].low \in {candles[n].low, price} /\ candles'[n].low <= candles[n].low
         /\ candles[n].t + Bar <= now' => m = n + 1
<1> DEFINE n == Len(candles)
           m == Len(candles')
           start == Bucket(now') * Bar
           last == candles[n]
<1>1. n \in Nat \ {0} /\ n \in 1 .. n /\ last \in Candles
  BY DEF Typed, BarInv
<1>2. start \in Nat /\ start <= now' /\ now' <= start + Bar - 1
  BY BucketBounds
<1>3. Bar \in Nat \ {0}
  BY TriggerAssumption
<1>4. last.t = Bucket(now) * Bar /\ Aligned(last)
  BY <1>1 DEF BarInv, Typed
<1>5. last.t <= start
  BY <1>4, BucketMonotone DEF Typed
<1>6. \A i \in 1 .. n : /\ candles[i] \in Candles /\ Aligned(candles[i])
                        /\ i < n => candles[i].t < last.t
  BY <1>1 DEF Typed, BarInv, Rising
<1>7. ASSUME NEW i \in 1 .. n - 1 PROVE candles[i].t + Bar <= last.t
  <2>1. candles[i] \in Candles /\ Aligned(candles[i]) /\ candles[i].t < last.t
    BY <1>1, <1>6
  <2>2. candles[i].t \in Nat /\ last.t \in Nat
    BY <1>1, <2>1 DEF Candles
  <2>3. QED
    BY <1>4, <2>1, <2>2, AlignedOrder
<1>8. CASE last.t = start
  <2> DEFINE bar == [last EXCEPT !.high = Max({last.high, price}), !.low = Min({last.low, price}),
                                 !.close = price, !.totals = totals]
  <2>1. candles' = [candles EXCEPT ![n] = bar]
    <3>1. n > 0 /\ candles[n].t = start
      BY <1>1, <1>8
    <3>2. QED
      BY <3>1, Zenon DEF Aggregated
  <2>2. /\ last.high \in Int /\ last.low \in Int /\ last.t \in Nat
        /\ Max({last.high, price}) \in Int /\ Min({last.low, price}) \in Int
    BY <1>1, PairExtremes DEF Candles
  <2>3. /\ bar \in Candles /\ bar.t = last.t /\ bar.totals = totals /\ bar.close = price
        /\ bar.high = Max({last.high, price}) /\ bar.low = Min({last.low, price})
    BY <1>1, <2>2 DEF Candles
  <2> HIDE DEF bar
  <2>4. candles' \in Seq(Candles) /\ m = n /\ candles'[n] = bar /\ \A i \in 1 .. n - 1 : candles'[i] = candles[i]
    BY <1>1, <2>1, <2>3 DEF Typed
  <2>5. /\ bar.high \in {last.high, price} /\ last.high <= bar.high /\ price <= bar.high
        /\ bar.low \in {last.low, price} /\ bar.low <= last.low /\ bar.low <= price
    <3>1. /\ Max({last.high, price}) \in {last.high, price}
          /\ last.high <= Max({last.high, price}) /\ price <= Max({last.high, price})
      BY <2>2, PairExtremes
    <3>2. /\ Min({last.low, price}) \in {last.low, price}
          /\ Min({last.low, price}) <= last.low /\ Min({last.low, price}) <= price
      BY <2>2, PairExtremes
    <3>3. QED
      BY <2>3, <3>1, <3>2
  <2>6. \A i \in 1 .. n - 1 : i \in 1 .. n /\ candles'[i].t + Bar <= now'
    <3> TAKE i \in 1 .. n - 1
    <3>1. candles[i].t + Bar <= last.t /\ candles[i].t \in Nat /\ i \in 1 .. n
      BY <1>1, <1>6, <1>7 DEF Candles
    <3>2. QED
      BY <1>2, <1>3, <1>8, <2>4, <3>1
  <2>7. ~(last.t + Bar <= now')
    BY <1>2, <1>3, <1>8
  <2> HIDE DEF n, m, last, start
  <2>8. QED
    BY <1>1, <1>8, <2>3, <2>4, <2>5, <2>6, <2>7 DEF n, m, last, start
<1>9. CASE last.t # start
  <2> DEFINE bar == [t |-> start, open |-> price, high |-> price, low |-> price, close |-> price,
                     totals |-> totals]
  <2>1. candles' = Append(candles, bar)
    BY <1>1, <1>9 DEF Aggregated
  <2>2. bar \in Candles
    BY <1>2 DEF Candles
  <2>3. /\ candles' \in Seq(Candles) /\ m = n + 1 /\ candles'[n + 1] = bar
        /\ \A i \in 1 .. n : candles'[i] = candles[i]
    BY <1>1, <2>1, <2>2 DEF Typed
  <2>4. last.t + Bar <= start
    <3>1. Bucket(now) < Bucket(now')
      <4>1. Bucket(now) <= Bucket(now') /\ Bucket(now) # Bucket(now')
        BY <1>4, <1>9, BucketMonotone DEF Typed
      <4>2. QED
        BY <4>1, BucketBounds DEF Typed
    <3>2. QED
      BY <1>4, <3>1, BucketBounds, MultipleOrder DEF Typed
  <2>5. \A i \in 1 .. n : candles'[i].t + Bar <= now'
    <3> TAKE i \in 1 .. n
    <3>1. candles[i].t \in Nat /\ last.t \in Nat /\ (i < n => candles[i].t + Bar <= last.t)
      BY <1>1, <1>6, <1>7 DEF Candles
    <3>2. candles[i].t + Bar <= start
      <4>1. CASE i = n
        BY <2>4, <4>1
      <4>2. CASE i # n
        BY <1>1, <1>2, <1>3, <2>4, <3>1, <4>2
      <4>3. QED
        BY <4>1, <4>2
    <3>3. QED
      BY <1>2, <1>3, <2>3, <3>1, <3>2
  <2>6. bar.t = start /\ bar.totals = totals /\ bar.close = price /\ bar.low = price /\ bar.high = price
    OBVIOUS
  <2> HIDE DEF n, m, last, start, bar
  <2>7. QED
    BY <1>1, <2>3, <2>5, <2>6 DEF n, m, last, start
<1>10. QED
  BY <1>8, <1>9

LEMMA StampIs ==
  ASSUME NEW items \in Seq(Stamps)
  PROVE  /\ Len(items) \in Nat /\ DOMAIN items = 1 .. Len(items)
         /\ \A i \in 1 .. Len(items) : items[i] \in Stamps /\ items[i].t \in Nat /\ items[i].totals \in Sums
<1>1. \A i \in 1 .. Len(items) : items[i] \in Stamps
  OBVIOUS
<1>2. \A e \in Stamps : e.t \in Nat /\ e.totals \in Sums
  BY DEF Stamps
<1>3. QED
  BY <1>1, <1>2

\* What was in force before a tick stays so; from the tick on its totals are.
LEMMA ShowsStep ==
  ASSUME NEW cs \in Seq(Stamps), NEW ds, NEW t \in Nat, NEW totals \in Sums, Rising(cs), Len(cs) > 0,
         \A c \in DOMAIN cs : cs[c].t < t,
         \/ ds = cs /\ cs[Len(cs)].totals = totals
         \/ ds = Append(cs, [t |-> t, totals |-> totals])
  PROVE  /\ ds \in Seq(Stamps) /\ Rising(ds) /\ Len(ds) > 0 /\ ds[Len(ds)].totals = totals
         /\ \A c \in DOMAIN ds : ds[c].t <= t
         /\ \A c \in DOMAIN cs : c \in DOMAIN ds /\ ds[c] = cs[c]
         /\ \A s \in Int, x \in Sums : s < t /\ Shows(cs, x, s) => Shows(ds, x, s)
         /\ \A s \in Int : s >= t => Shows(ds, totals, s)
<1> DEFINE n == Len(cs)
<1>1. n \in Nat \ {0} /\ DOMAIN cs = 1 .. n /\ \A c \in 1 .. n : cs[c].t \in Nat /\ cs[c] \in Stamps
  BY StampIs
<1>2. CASE ds = cs /\ cs[Len(cs)].totals = totals
  <2>1. \A s \in Int : s >= t => InForce(ds, n, s)
    BY <1>1, <1>2 DEF InForce
  <2>2. \A s \in Int : s >= t => Shows(ds, totals, s)
    BY <1>1, <1>2, <2>1 DEF Shows
  <2>3. QED
    BY <1>1, <1>2, <2>2
<1>3. CASE ds = Append(cs, [t |-> t, totals |-> totals])
  <2> DEFINE e == [t |-> t, totals |-> totals]
  <2>1. e \in Stamps /\ e.t = t /\ e.totals = totals
    BY DEF Stamps
  <2> HIDE DEF e
  <2>2. /\ ds \in Seq(Stamps) /\ Len(ds) = n + 1 /\ DOMAIN ds = 1 .. n + 1 /\ ds[n + 1] = e
        /\ \A c \in 1 .. n : ds[c] = cs[c]
    BY <1>1, <1>3, <2>1 DEF e
  <2>3. \A c \in 1 .. n + 1 : /\ ds[c].t \in Nat /\ ds[c].t <= t /\ (c < n + 1 => ds[c].t < t)
                              /\ (c = n + 1 => ds[c].t = t)
    <3> TAKE c \in 1 .. n + 1
    <3>1. CASE c = n + 1
      BY <2>1, <2>2, <3>1
    <3>2. CASE c # n + 1
      <4>1. c \in 1 .. n
        BY <1>1, <3>2
      <4>2. QED
        BY <1>1, <2>2, <4>1
    <3>3. QED
      BY <3>1, <3>2
  <2>4. Rising(ds)
    <3>1. SUFFICES ASSUME NEW i \in 1 .. n + 1, NEW j \in 1 .. n + 1, i < j PROVE ds[i].t < ds[j].t
      BY <2>2 DEF Rising
    <3>2. CASE j = n + 1
      BY <1>1, <2>3, <3>1, <3>2
    <3>3. CASE j # n + 1
      <4>1. i \in 1 .. n /\ j \in 1 .. n
        BY <1>1, <3>1, <3>3
      <4>2. cs[i].t < cs[j].t
        BY <1>1, <3>1, <4>1 DEF Rising
      <4>3. QED
        BY <2>2, <4>1, <4>2
    <3>4. QED
      BY <3>2, <3>3
  <2>5. ASSUME NEW s \in Int, NEW x \in Sums, s < t, Shows(cs, x, s) PROVE Shows(ds, x, s)
    <3>1. PICK c \in 1 .. n : InForce(cs, c, s) /\ cs[c].totals = x
      BY <1>1, <2>5 DEF Shows
    <3>2. c \in 1 .. n + 1 /\ ds[c].t <= s /\ ds[c].totals = x
      BY <1>1, <2>2, <3>1 DEF InForce
    <3>3. ASSUME NEW d \in 1 .. n + 1, ds[d].t <= s PROVE d <= c
      <4>1. d # n + 1
        BY <2>3, <2>5, <3>3
      <4>2. d \in 1 .. n
        BY <1>1, <4>1
      <4>3. QED
        BY <1>1, <2>2, <3>1, <3>3, <4>2 DEF InForce
    <3>4. QED
      BY <2>2, <3>2, <3>3 DEF Shows, InForce
  <2>6. ASSUME NEW s \in Int, s >= t PROVE Shows(ds, totals, s)
    <3>1. InForce(ds, n + 1, s)
      BY <1>1, <2>2, <2>3, <2>6 DEF InForce
    <3>2. QED
      BY <1>1, <2>1, <2>2, <3>1 DEF Shows
  <2>7. \A c \in DOMAIN cs : c \in DOMAIN ds /\ ds[c] = cs[c]
    BY <1>1, <2>2
  <2>8. QED
    BY <1>1, <2>1, <2>2, <2>3, <2>4, <2>5, <2>6, <2>7
<1>4. QED
  BY <1>2, <1>3

\* What a snapshot leaves of the history: the entries of the last Keep seconds.
LEMMA RecordedIs ==
  ASSUME NEW l \in Seq(Stamps), Rising(l), NEW t \in Nat
  PROVE  LET old == {i \in DOMAIN l : \A j \in 1 .. i : l[j].t < t - Keep}
             k == Cardinality(old)
         IN  /\ k \in 0 .. Len(l)
             /\ \A i \in 1 .. k : l[i].t < t - Keep
             /\ \A i \in k + 1 .. Len(l) : l[i].t >= t - Keep
<1> DEFINE old == {i \in DOMAIN l : \A j \in 1 .. i : l[j].t < t - Keep}
           n == Len(l)
           k == Cardinality(old)
<1>1. n \in Nat /\ DOMAIN l = 1 .. n /\ Keep \in Nat /\ \A i \in 1 .. n : l[i].t \in Nat
  BY StampIs, ReplayAssumption
<1>2. PICK p \in 0 .. n : old = 1 .. p
  <2>1. CASE old = {}
    <3>1. 0 \in 0 .. n /\ old = 1 .. 0
      BY <1>1, <2>1
    <3>2. QED
      BY <3>1
  <2>2. CASE old # {}
    <3>1. old \in SUBSET (1 .. n)
      BY <1>1
    <3>2. Max(old) \in old /\ \A i \in old : i <= Max(old)
      BY <1>1, <2>2, <3>1, LastIndex
    <3>3. \A i \in 1 .. Max(old) : i \in old
      BY <1>1, <3>2
    <3>4. old = 1 .. Max(old) /\ Max(old) \in 0 .. n
      BY <1>1, <3>1, <3>2, <3>3
    <3>5. QED
      BY <3>4
  <2>3. QED
    BY <2>1, <2>2
<1>3. k = p
  <2>1. 1 \in Int /\ p \in Int /\ (1 > p => p = 0)
    BY <1>1
  <2>2. Cardinality(1 .. p) = IF 1 > p THEN 0 ELSE p - 1 + 1
    BY <2>1, FS_Interval
  <2>3. Cardinality(1 .. p) = p
    BY <2>1, <2>2
  <2> HIDE DEF old
  <2>4. QED
    BY <1>2, <2>3
<1>4. \A i \in 1 .. p : l[i].t < t - Keep
  BY <1>1, <1>2
<1>5. ASSUME NEW i \in p + 1 .. n PROVE l[i].t >= t - Keep
  <2>1. p + 1 \in 1 .. n /\ p + 1 \notin old
    <3>1. n \in Nat /\ p \in Int /\ i \in Int /\ p + 1 <= i /\ i <= n /\ 1 <= p + 1
      BY <1>1
    <3> HIDE DEF old
    <3>2. p + 1 \in 1 .. n /\ p + 1 \notin 1 .. p
      BY <3>1
    <3>3. QED
      BY <1>2, <3>2
  <2>2. PICK j \in 1 .. p + 1 : ~(l[j].t < t - Keep)
    BY <1>1, <2>1
  <2>3. j = p + 1
    BY <1>1, <1>4, <2>2
  <2>4. l[p + 1].t >= t - Keep
    BY <1>1, <2>1, <2>2, <2>3
  <2>5. i = p + 1 \/ l[p + 1].t < l[i].t
    BY <1>1, <1>5, <2>1 DEF Rising
  <2>6. i \in 1 .. n
    BY <1>1
  <2>7. QED
    BY <1>1, <2>1, <2>4, <2>5, <2>6
<1> HIDE DEF old
<1>6. QED
  BY <1>1, <1>3, <1>4, <1>5 DEF old

\* What OnTick does with the quote it takes.
Ticked(next) ==
  LET totals == Totals(next.chain) IN
    /\ now' \in Nat /\ now < now' /\ now' <= MaxNow /\ quote' = next
    /\ ticks' = Buffered(ticks, now', next.price)
    /\ candles' = Aggregated(candles, now', next.price, totals)
    /\ trade' = Updated(trade, next.price, now')
    /\ oiHistory' = Recorded(oiHistory, now', totals)
    /\ changes' = IF totals = Totals(quote.chain) THEN changes
                  ELSE Append(changes, [t |-> now', totals |-> totals])
    /\ market' = market

LEMMA TickIs ==
  ASSUME Typed, OnTick
  PROVE  \E next \in market : Ticked(next)
<1>1. PICK gap \in 1 .. MaxGap, next \in market :
        LET totals == Totals(next.chain) IN
          /\ now' = now + gap /\ now' <= MaxNow /\ quote' = next
          /\ ticks' = Buffered(ticks, now', next.price)
          /\ candles' = Aggregated(candles, now', next.price, totals)
          /\ trade' = Updated(trade, next.price, now')
          /\ oiHistory' = Recorded(oiHistory, now', totals)
          /\ changes' = IF totals = Totals(quote.chain) THEN changes
                        ELSE Append(changes, [t |-> now', totals |-> totals])
          /\ UNCHANGED market
  BY Zenon DEF OnTick
<1>2. now' \in Nat /\ now < now'
  BY <1>1, ReplayAssumption DEF Typed
<1>3. QED
  BY <1>1, <1>2, Zenon DEF Ticked

LEMMA ChangeStep ==
  ASSUME Typed, ChangeInv, NEW next \in market, Ticked(next)
  PROVE  LET totals == Totals(next.chain) IN
         /\ totals \in Sums /\ next.price \in Int
         /\ changes' \in Seq(Stamps) /\ ChangeInv'
         /\ \A c \in DOMAIN changes : c \in DOMAIN changes' /\ changes'[c] = changes[c]
         /\ \A s \in Int, x \in Sums : s < now' /\ Shows(changes, x, s) => Shows(changes', x, s)
         /\ \A s \in Int : s >= now' => Shows(changes', totals, s)
         /\ \A c \in DOMAIN changes' :
              \/ c \in DOMAIN changes /\ changes'[c] = changes[c]
              \/ changes'[c].t = now' /\ totals # Totals(quote.chain)
<1> DEFINE totals == Totals(next.chain)
           e == [t |-> now', totals |-> totals]
<1>1. totals \in Sums /\ next.price \in Int
  BY QuoteTyped DEF Typed
<1>2. now' \in Nat /\ now < now' /\ now \in Nat /\ quote' = next
  BY DEF Ticked, Typed
<1>3. changes \in Seq(Stamps) /\ Rising(changes) /\ Len(changes) > 0
  BY DEF Typed, ChangeInv
<1>4. \A c \in DOMAIN changes : changes[c].t < now'
  <2>1. \A c \in DOMAIN changes : changes[c].t <= now /\ changes[c].t \in Nat
    BY <1>3, StampIs DEF ChangeInv
  <2>2. QED
    BY <1>2, <2>1
<1>5. \/ changes' = changes /\ changes[Len(changes)].totals = totals
      \/ changes' = Append(changes, e) /\ totals # Totals(quote.chain)
  BY DEF Ticked, ChangeInv
<1> HIDE DEF totals
<1>6. /\ changes' \in Seq(Stamps) /\ Rising(changes') /\ Len(changes') > 0
      /\ changes'[Len(changes')].totals = totals
      /\ \A c \in DOMAIN changes' : changes'[c].t <= now'
      /\ \A c \in DOMAIN changes : c \in DOMAIN changes' /\ changes'[c] = changes[c]
      /\ \A s \in Int, x \in Sums : s < now' /\ Shows(changes, x, s) => Shows(changes', x, s)
      /\ \A s \in Int : s >= now' => Shows(changes', totals, s)
  BY <1>1, <1>2, <1>3, <1>4, <1>5, ShowsStep
<1>7. ChangeInv'
  BY <1>2, <1>6 DEF ChangeInv, totals, Rising
<1>8. \A c \in DOMAIN changes' : \/ c \in DOMAIN changes /\ changes'[c] = changes[c]
                                 \/ changes'[c].t = now' /\ totals # Totals(quote.chain)
  <2> SUFFICES ASSUME NEW c \in DOMAIN changes'
               PROVE  \/ c \in DOMAIN changes /\ changes'[c] = changes[c]
                      \/ changes'[c].t = now' /\ totals # Totals(quote.chain)
    OBVIOUS
  <2>1. CASE changes' = changes
    BY <2>1
  <2>2. CASE changes' = Append(changes, e) /\ totals # Totals(quote.chain)
    <3>1. e.t = now'
      OBVIOUS
    <3> HIDE DEF e
    <3>2. QED
      BY <1>3, <2>2, <3>1
  <2>3. QED
    BY <1>5, <2>1, <2>2
<1>9. QED
  BY <1>1, <1>6, <1>7, <1>8 DEF totals

\* The history after a tick: the old one, with the totals if they changed, without
\* its oldest entries.
LEMMA HistoryStep ==
  ASSUME Typed, ChangeInv, HistoryInv, NEW next \in market, Ticked(next)
  PROVE  oiHistory' \in Seq(Stamps) /\ HistoryInv'
<1> DEFINE totals == Totals(next.chain)
           e == [t |-> now', totals |-> totals]
           h == oiHistory
           same == h # <<>> /\ Last(h).totals = totals
           l == IF same THEN h ELSE Append(h, e)
           old == {i \in DOMAIN l : \A j \in 1 .. i : l[j].t < now' - Keep}
           k == Cardinality(old)
           n == Len(l)
<1>1. /\ totals \in Sums /\ now' \in Nat /\ now < now' /\ now \in Nat /\ quote' = next /\ Keep \in Nat
      /\ h \in Seq(Stamps) /\ Rising(h)
  BY ChangeStep, ReplayAssumption DEF Ticked, Typed, HistoryInv
<1>2. h' = SubSeq(l, k + 1, n)
  BY DEF Ticked, Recorded
<1>3. e \in Stamps /\ e.t = now' /\ e.totals = totals
  BY <1>1 DEF Stamps
<1>4. /\ \A i \in DOMAIN h : /\ h[i].t <= now /\ h[i].t \in Nat /\ h[i].totals \in Sums /\ h[i] \in Stamps
                             /\ i > 1 => h[i].totals # h[i - 1].totals
                             /\ Shows(changes, h[i].totals, h[i].t)
      /\ Len(h) \in Nat /\ DOMAIN h = 1 .. Len(h)
  BY <1>1, StampIs DEF HistoryInv
<1> HIDE DEF e
<1>5. /\ \A s \in Int, x \in Sums : s < now' /\ Shows(changes, x, s) => Shows(changes', x, s)
      /\ Shows(changes', totals, now')
  <2>1. \A s \in Int, x \in Sums : s < now' /\ Shows(changes, x, s) => Shows(changes', x, s)
    BY ChangeStep
  <2>2. \A s \in Int : s >= now' => Shows(changes', totals, s)
    BY ChangeStep
  <2>3. now' \in Int /\ now' >= now'
    BY <1>1
  <2> HIDE DEF totals
  <2>4. Shows(changes', totals, now')
    BY <2>2, <2>3
  <2>5. QED
    BY <2>1, <2>4
<1>6. /\ l \in Seq(Stamps) /\ n > 0 /\ l[n].totals = totals /\ Rising(l)
      /\ \A i \in DOMAIN h : i \in DOMAIN l /\ l[i] = h[i]
      /\ \A i \in DOMAIN l : /\ l[i].t <= now'
                             /\ i > 1 => l[i].totals # l[i - 1].totals
                             /\ Shows(changes', l[i].totals, l[i].t)
      /\ totals # Totals(quote.chain) => l[n].t = now'
  <2>1. CASE same
    <3>1. l = h /\ n > 0 /\ l[n].totals = totals
      BY <1>1, <2>1 DEF Last
    <3>2. totals = Totals(quote.chain)
      BY <1>1, <3>1 DEF HistoryInv
    <3>3. \A i \in DOMAIN h : h[i].t < now' /\ h[i].t \in Int /\ h[i].t <= now'
      BY <1>1, <1>4
    <3> HIDE DEF l, n
    <3>4. QED
      BY <1>1, <1>4, <1>5, <3>1, <3>2, <3>3
  <2>2. CASE ~same
    <3> DEFINE m == Len(h)
    <3> DEFINE longer == Append(h, e)
    <3>0. l = longer
      BY <2>2
    <3>1. /\ l \in Seq(Stamps) /\ n = m + 1 /\ DOMAIN l = 1 .. m + 1 /\ l[m + 1] = e
          /\ \A i \in 1 .. m : l[i] = h[i]
      <4>1. /\ longer \in Seq(Stamps) /\ Len(longer) = m + 1 /\ longer[m + 1] = e
            /\ \A i \in 1 .. m : longer[i] = h[i]
        BY <1>1, <1>3, <1>4
      <4> HIDE DEF longer, l
      <4>2. QED
        BY <1>4, <3>0, <4>1
    <3>2. m > 0 => h[m].totals # totals
      BY <1>1, <1>4, <2>2 DEF Last
    <3> HIDE DEF same, l, n, longer
    <3>3. ASSUME NEW i \in 1 .. m + 1
          PROVE  /\ l[i].t <= now' /\ Shows(changes', l[i].totals, l[i].t)
                 /\ i > 1 => l[i].totals # l[i - 1].totals
                 /\ i < m + 1 => l[i].t < now'
      <4>1. CASE i = m + 1
        <5>1. i - 1 = m /\ (i > 1 => m \in 1 .. m /\ m > 0)
          BY <1>4, <4>1
        <5>2. i > 1 => l[i - 1] = h[m]
          BY <3>1, <5>1
        <5>3. l[i] = e
          BY <3>1, <4>1
        <5>4. i > 1 => l[i].totals # l[i - 1].totals
          BY <1>3, <3>2, <5>1, <5>2, <5>3
        <5>5. QED
          BY <1>1, <1>3, <1>5, <4>1, <5>3, <5>4
      <4>2. CASE i # m + 1
        <5>1. i \in 1 .. m /\ i - 1 \in 0 .. m /\ (i > 1 => i - 1 \in 1 .. m)
          BY <1>4, <4>2
        <5>2. l[i] = h[i] /\ (i > 1 => l[i - 1] = h[i - 1])
          BY <3>1, <5>1
        <5>3. h[i].t < now' /\ h[i].t \in Int /\ h[i].t <= now'
          BY <1>1, <1>4, <5>1
        <5>4. QED
          BY <1>4, <1>5, <5>1, <5>2, <5>3
      <4>3. QED
        BY <4>1, <4>2
    <3>4. Rising(l)
      <4>1. SUFFICES ASSUME NEW i \in 1 .. m + 1, NEW j \in 1 .. m + 1, i < j PROVE l[i].t < l[j].t
        BY <3>1 DEF Rising
      <4>2. CASE j = m + 1
        BY <1>3, <1>4, <3>1, <3>3, <4>1, <4>2
      <4>3. CASE j # m + 1
        <5>1. i \in 1 .. m /\ j \in 1 .. m
          BY <1>4, <4>1, <4>3
        <5>2. QED
          BY <1>1, <1>4, <3>1, <4>1, <5>1 DEF Rising
      <4>4. QED
        BY <4>2, <4>3
    <3>5. \A i \in DOMAIN h : i \in DOMAIN l /\ l[i] = h[i]
      BY <1>4, <3>1
    <3> HIDE DEF h
    <3>6. QED
      BY <1>3, <1>4, <3>1, <3>3, <3>4, <3>5
  <2>3. QED
    BY <2>1, <2>2
<1>7. /\ k \in 0 .. n
      /\ \A i \in 1 .. k : l[i].t < now' - Keep
      /\ \A i \in k + 1 .. n : l[i].t >= now' - Keep
  BY <1>1, <1>6, RecordedIs
<1> HIDE DEF l, n, k, totals
<1>8. /\ h' \in Seq(Stamps) /\ Len(h') = n - k /\ n \in Nat /\ DOMAIN h' = 1 .. n - k
      /\ \A i \in 1 .. n - k : h'[i] = l[k + i] /\ k + i \in 1 .. n /\ k + i \in k + 1 .. n
  <2>1. n \in Nat /\ n = Len(l)
    BY <1>6 DEF n
  <2>2. QED
    BY <1>2, <1>6, <1>7, <2>1
<1>9. DOMAIN l = 1 .. n /\ \A i \in 1 .. n : l[i].t \in Nat
  BY <1>6, StampIs DEF n
<1>10. Rising(h')
  <2>1. SUFFICES ASSUME NEW i \in 1 .. n - k, NEW j \in 1 .. n - k, i < j PROVE h'[i].t < h'[j].t
    BY <1>8 DEF Rising
  <2>2. k + i \in 1 .. n /\ k + j \in 1 .. n /\ k + i < k + j
    BY <1>7, <1>8, <2>1
  <2>3. QED
    BY <1>6, <1>8, <1>9, <2>2 DEF Rising
<1>11. Len(h') > 0 => h'[Len(h')].totals = Totals(quote'.chain)
  <2>1. n - k > 0 => n - k \in 1 .. n - k /\ k + (n - k) = n
    BY <1>7, <1>8
  <2>2. QED
    BY <1>1, <1>6, <1>8, <2>1 DEF totals
<1>12. ASSUME NEW i \in DOMAIN h'
       PROVE  /\ now' - Keep <= h'[i].t /\ h'[i].t <= now'
              /\ i > 1 => h'[i].totals # h'[i - 1].totals
              /\ Shows(changes', h'[i].totals, h'[i].t)
  <2>1. i \in 1 .. n - k /\ h'[i] = l[k + i] /\ k + i \in 1 .. n /\ k + i \in k + 1 .. n
    BY <1>8, <1>12
  <2>2. i > 1 => k + i > 1 /\ h'[i - 1] = l[(k + i) - 1]
    <3>1. i > 1 => i - 1 \in 1 .. n - k /\ k + (i - 1) = (k + i) - 1 /\ k + i > 1
      BY <1>7, <1>8, <2>1
    <3>2. QED
      BY <1>8, <3>1
  <2>3. l[k + i].t >= now' - Keep
    BY <1>7, <2>1
  <2>4. QED
    BY <1>1, <1>6, <1>9, <2>1, <2>2, <2>3
<1>13. ASSUME NEW c \in DOMAIN changes', changes'[c].t >= now' - Keep
       PROVE  \E i \in DOMAIN h' : h'[i].t = changes'[c].t
  <2>1. ASSUME NEW i \in DOMAIN l, l[i].t = changes'[c].t PROVE \E j \in DOMAIN h' : h'[j].t = changes'[c].t
    <3>1. ~(i \in 1 .. k)
      BY <1>1, <1>7, <1>9, <1>13, <2>1
    <3>2. i - k \in 1 .. n - k /\ k + (i - k) = i
      BY <1>7, <1>8, <1>9, <2>1, <3>1
    <3>3. QED
      BY <1>8, <2>1, <3>2
  <2>2. CASE c \in DOMAIN changes /\ changes'[c] = changes[c]
    <3>1. changes[c].t \in Nat
      BY <2>2, StampIs DEF Typed
    <3>2. changes[c].t >= now - Keep
      BY <1>1, <1>13, <2>2, <3>1
    <3>3. PICK i \in DOMAIN h : h[i].t = changes[c].t
      BY <2>2, <3>2 DEF HistoryInv
    <3>4. QED
      BY <1>6, <2>1, <2>2, <3>3
  <2>3. CASE changes'[c].t = now' /\ totals # Totals(quote.chain)
    <3>1. n \in DOMAIN l /\ l[n].t = now'
      BY <1>6, <1>8, <1>9, <2>3
    <3>2. QED
      BY <2>1, <2>3, <3>1
  <2>4. QED
    BY <2>2, <2>3, ChangeStep DEF totals
<1>14. QED
  BY <1>8, <1>10, <1>11, <1>12, <1>13 DEF HistoryInv, Rising

LEMMA CandleIs ==
  ASSUME NEW bars \in Seq(Candles)
  PROVE  /\ Len(bars) \in Nat /\ DOMAIN bars = 1 .. Len(bars)
         /\ \A i \in 1 .. Len(bars) :
              /\ bars[i] \in Candles /\ bars[i].t \in Nat /\ bars[i].totals \in Sums
              /\ bars[i].open \in Int /\ bars[i].high \in Int /\ bars[i].low \in Int /\ bars[i].close \in Int
<1>1. \A i \in 1 .. Len(bars) : bars[i] \in Candles
  OBVIOUS
<1>2. \A b \in Candles : /\ b.t \in Nat /\ b.totals \in Sums
                         /\ b.open \in Int /\ b.high \in Int /\ b.low \in Int /\ b.close \in Int
  BY DEF Candles
<1>3. QED
  BY <1>1, <1>2

\* CandleStep, of a tick.
LEMMA BarStep ==
  ASSUME Typed, BarInv, ChangeInv, NEW next \in market, Ticked(next)
  PROVE  LET n == Len(candles)  m == Len(candles') IN
         /\ candles' \in Seq(Candles) /\ n \in Nat \ {0} /\ m \in {n, n + 1}
         /\ DOMAIN candles = 1 .. n /\ DOMAIN candles' = 1 .. m
         /\ \A i \in 1 .. m - 1 : i \in 1 .. n /\ candles'[i] = candles[i] /\ candles'[i].t + Bar <= now'
         /\ candles'[m].t = Bucket(now') * Bar /\ candles'[m].totals = Totals(next.chain)
         /\ candles'[m].close = next.price
         /\ candles'[m].low <= next.price /\ next.price <= candles'[m].high
         /\ \/ m = n + 1 /\ candles'[m].low = next.price /\ candles'[m].high = next.price
            \/ /\ m = n /\ candles'[n].t = candles[n].t
               /\ candles'[n].high \in {candles[n].high, next.price} /\ candles[n].high <= candles'[n].high
               /\ candles'[n].low \in {candles[n].low, next.price} /\ candles'[n].low <= candles[n].low
         /\ candles[n].t + Bar <= now' => m = n + 1
<1>1. /\ Totals(next.chain) \in Sums /\ next.price \in Int /\ now' \in Nat /\ now < now'
      /\ candles' = Aggregated(candles, now', next.price, Totals(next.chain))
  BY ChangeStep DEF Ticked
<1> DEFINE totals == Totals(next.chain)
           price == next.price
<1>2. /\ totals \in Sums /\ price \in Int /\ now' \in Nat /\ now < now'
      /\ candles' = Aggregated(candles, now', price, totals)
  BY <1>1
<1> HIDE DEF totals, price
<1>3. LET n == Len(candles)  m == Len(candles') IN
         /\ candles' \in Seq(Candles) /\ n \in Nat \ {0} /\ m \in {n, n + 1}
         /\ \A i \in 1 .. m - 1 : i \in 1 .. n /\ candles'[i] = candles[i] /\ candles'[i].t + Bar <= now'
         /\ candles'[m].t = Bucket(now') * Bar /\ candles'[m].totals = totals
         /\ candles'[m].close = price /\ candles'[m].low <= price /\ price <= candles'[m].high
         /\ \/ m = n + 1 /\ candles'[m].low = price /\ candles'[m].high = price
            \/ /\ m = n /\ candles'[n].t = candles[n].t
               /\ candles'[n].high \in {candles[n].high, price} /\ candles[n].high <= candles'[n].high
               /\ candles'[n].low \in {candles[n].low, price} /\ candles'[n].low <= candles[n].low
         /\ candles[n].t + Bar <= now' => m = n + 1
  BY <1>2, CandleStep
<1>4. DOMAIN candles = 1 .. Len(candles) /\ DOMAIN candles' = 1 .. Len(candles')
  BY <1>3, CandleIs DEF Typed
<1>5. QED
  BY <1>3, <1>4 DEF totals, price

LEMMA BarKept ==
  ASSUME Typed, BarInv, ChangeInv, NEW next \in market, Ticked(next)
  PROVE  BarInv'
<1> DEFINE n == Len(candles)
           m == Len(candles')
<1>1. /\ candles' \in Seq(Candles) /\ n \in Nat \ {0} /\ m \in {n, n + 1}
      /\ DOMAIN candles = 1 .. n /\ DOMAIN candles' = 1 .. m
      /\ \A i \in 1 .. m - 1 : i \in 1 .. n /\ candles'[i] = candles[i] /\ candles'[i].t + Bar <= now'
      /\ candles'[m].t = Bucket(now') * Bar /\ candles'[m].close = next.price
      /\ candles'[m].low <= next.price /\ next.price <= candles'[m].high
      /\ m = n => candles'[n].t = candles[n].t
  BY BarStep
<1>2. Bar \in Nat \ {0} /\ now' \in Nat /\ Bucket(now') \in Nat
  BY TriggerAssumption, BucketBounds DEF Ticked
<1>3. /\ candles \in Seq(Candles) /\ candles[1].t = 0 /\ Rising(candles)
      /\ \A i \in 1 .. n : Ordered(candles[i]) /\ Aligned(candles[i]) /\ candles[i].t \in Nat
  BY <1>1, CandleIs DEF Typed, BarInv
<1>4. Ordered(candles'[m]) /\ Aligned(candles'[m])
  <2>1. Ordered(candles'[m])
    BY <1>1 DEF Ordered
  <2>2. Bucket(Bucket(now') * Bar) = Bucket(now')
    BY <1>2, BucketOfMultiple
  <2>3. Aligned(candles'[m])
    BY <1>1, <2>2 DEF Aligned
  <2>4. QED
    BY <2>1, <2>3
<1> HIDE DEF n, m
<1>5. candles'[1].t = 0
  <2>1. CASE m = 1
    BY <1>1, <1>3, <2>1
  <2>2. CASE m # 1
    BY <1>1, <1>3, <2>2
  <2>3. QED
    BY <2>1, <2>2
<1>6. \A i \in 1 .. m : Ordered(candles'[i]) /\ Aligned(candles'[i])
  <2> TAKE i \in 1 .. m
  <2>1. CASE i = m
    BY <1>4, <2>1
  <2>2. CASE i # m
    <3>1. i \in 1 .. m - 1
      BY <1>1, <2>2
    <3>2. QED
      BY <1>1, <1>3, <3>1
  <2>3. QED
    BY <2>1, <2>2
<1>7. \A i, j \in 1 .. m : i < j => candles'[i].t < candles'[j].t
  <2> SUFFICES ASSUME NEW i \in 1 .. m, NEW j \in 1 .. m, i < j PROVE candles'[i].t < candles'[j].t
    OBVIOUS
  <2>1. i \in 1 .. m - 1 /\ i \in 1 .. n /\ candles'[i] = candles[i]
    BY <1>1
  <2>2. CASE j # m
    <3>1. j \in 1 .. m - 1 /\ j \in 1 .. n /\ candles'[j] = candles[j]
      BY <1>1, <2>2
    <3>2. QED
      BY <1>1, <1>3, <2>1, <3>1 DEF Rising
  <2>3. CASE j = m
    <3>1. CASE m = n
      <4>1. candles'[m].t = candles[n].t /\ n \in 1 .. n /\ i < n
        BY <1>1, <2>3, <3>1
      <4>2. candles[i].t < candles[n].t
        BY <1>1, <1>3, <2>1, <4>1 DEF Rising
      <4>3. QED
        BY <2>1, <2>3, <4>1, <4>2
    <3>2. CASE m = n + 1
      <4> DEFINE start == Bucket(now') * Bar
                 ti == candles[i].t
      <4>1. candles[i].t + Bar <= now' /\ candles[i].t \in Nat /\ Aligned(candles[i])
        BY <1>1, <1>3, <2>1
      <4>2. ti = Bucket(ti) * Bar /\ Bucket(ti) \in Nat
        BY <4>1, BucketBounds DEF Aligned
      <4>3. start \in Nat /\ now' <= start + Bar - 1
        BY <1>2, BucketBounds
      <4> HIDE DEF start
      <4>4. ti < start
        BY <1>2, <4>1, <4>3
      <4>5. QED
        BY <1>1, <2>1, <2>3, <4>4 DEF start
    <3>3. QED
      BY <1>1, <3>1, <3>2
  <2>4. QED
    BY <2>2, <2>3
<1>8. Rising(candles')
  BY <1>1, <1>7 DEF Rising
<1>9. m > 0 /\ candles'[m].t = Bucket(now') * Bar
  BY <1>1
<1>10. QED
  BY <1>1, <1>5, <1>6, <1>8, <1>9 DEF BarInv, Rising, m

\* A bar's totals are what was in force at its end.
LEMMA ShownKept ==
  ASSUME Typed, BarInv, ChangeInv, ShownInv, NEW next \in market, Ticked(next)
  PROVE  ShownInv'
<1> DEFINE n == Len(candles)
           m == Len(candles')
           totals == Totals(next.chain)
<1>1. /\ candles' \in Seq(Candles) /\ n \in Nat \ {0} /\ m \in {n, n + 1}
      /\ DOMAIN candles = 1 .. n /\ DOMAIN candles' = 1 .. m
      /\ \A i \in 1 .. m - 1 : i \in 1 .. n /\ candles'[i] = candles[i] /\ candles'[i].t + Bar <= now'
      /\ candles'[m].t = Bucket(now') * Bar /\ candles'[m].totals = totals
      /\ m = n => candles'[n].t = candles[n].t
  BY BarStep
<1>2. /\ \A s \in Int, x \in Sums : s < now' /\ Shows(changes, x, s) => Shows(changes', x, s)
      /\ \A s \in Int : s >= now' => Shows(changes', totals, s)
      /\ \A c \in DOMAIN changes' :
              \/ c \in DOMAIN changes /\ changes'[c] = changes[c]
              \/ changes'[c].t = now'
  BY ChangeStep
<1>3. Bar \in Nat \ {0} /\ now' \in Nat /\ Bucket(now') * Bar \in Nat /\ now' <= Bucket(now') * Bar + Bar - 1
  BY TriggerAssumption, BucketBounds DEF Ticked
<1>4. \A i \in 1 .. n : candles[i].t \in Nat /\ candles[i].totals \in Sums
  BY CandleIs DEF Typed
<1> HIDE DEF n, m, totals
<1>5. ASSUME NEW i \in 1 .. m PROVE Shows(changes', candles'[i].totals, candles'[i].t + Bar - 1)
  <2>1. CASE i = m
    <3> DEFINE end == Bucket(now') * Bar + Bar - 1
    <3>1. end \in Int /\ end >= now'
      BY <1>3
    <3> HIDE DEF end
    <3>2. Shows(changes', totals, end)
      BY <1>2, <3>1
    <3>3. QED
      BY <1>1, <2>1, <3>2 DEF end
  <2>2. CASE i # m
    <3>1. /\ i \in 1 .. m - 1 /\ i \in 1 .. n /\ candles'[i] = candles[i] /\ candles'[i].t + Bar <= now'
      BY <1>1, <2>2
    <3> DEFINE end == candles[i].t + Bar - 1
    <3>2. end \in Int /\ end < now'
      BY <1>3, <1>4, <3>1
    <3>3. Shows(changes, candles[i].totals, end)
      BY <1>1, <3>1 DEF ShownInv
    <3> HIDE DEF end
    <3>4. Shows(changes', candles[i].totals, end)
      BY <1>2, <1>4, <3>1, <3>2, <3>3
    <3>5. QED
      BY <3>1, <3>4 DEF end
  <2>3. QED
    BY <2>1, <2>2
<1>6. ASSUME NEW c \in DOMAIN changes' PROVE \E i \in 1 .. m : candles'[i].t = Bucket(changes'[c].t) * Bar
  <2>1. CASE changes'[c].t = now'
    <3>1. m \in 1 .. m
      BY <1>1
    <3>2. QED
      BY <1>1, <2>1, <3>1
  <2>2. CASE c \in DOMAIN changes /\ changes'[c] = changes[c]
    <3>1. PICK i \in 1 .. n : candles[i].t = Bucket(changes[c].t) * Bar
      BY <1>1, <2>2 DEF ShownInv
    <3>2. i \in 1 .. m /\ candles'[i].t = candles[i].t
      <4>1. CASE i \in 1 .. m - 1
        BY <1>1, <4>1
      <4>2. CASE i \notin 1 .. m - 1
        <5>1. i = n /\ m = n
          BY <1>1, <4>2
        <5>2. QED
          BY <1>1, <5>1
      <4>3. QED
        BY <4>1, <4>2
    <3>3. QED
      BY <2>2, <3>1, <3>2
  <2>3. QED
    BY <1>2, <2>1, <2>2
<1>7. QED
  BY <1>1, <1>5, <1>6 DEF ShownInv

LEMMA TradeIs ==
  ASSUME Typed
  PROVE  /\ trade.side \in {"LONG", "SHORT"} /\ trade.opened \in Nat /\ trade.closed \in Nat
         /\ trade.alert \in Int /\ trade.entry \in Int /\ trade.raw \in Int /\ trade.pnl \in Int
         /\ trade.reason \in Reasons \cup {""}
BY DEF Typed, Trades

LEMMA Untouched ==
  ASSUME NEW bar, NEW side, NEW entry
  PROVE  BarExit(bar, side, entry) = ""
           <=> ~AtTarget(side, entry, Best(bar, side)) /\ ~AtStop(side, entry, Worst(bar, side))
BY DEF BarExit

\* A price at no level leaves the bar it joins untouched.
LEMMA UntouchedStep ==
  ASSUME NEW bar, NEW bar2, NEW side, NEW entry, NEW price,
         ~AtTarget(side, entry, price), ~AtStop(side, entry, price),
         \/ bar2.low = price /\ bar2.high = price
         \/ /\ BarExit(bar, side, entry) = ""
            /\ bar2.high \in {bar.high, price} /\ bar2.low \in {bar.low, price}
  PROVE  BarExit(bar2, side, entry) = ""
<1>1. \/ Best(bar2, side) = price \/ ~AtTarget(side, entry, Best(bar2, side))
  BY Untouched DEF Best
<1>2. \/ Worst(bar2, side) = price \/ ~AtStop(side, entry, Worst(bar2, side))
  BY Untouched DEF Worst
<1>3. QED
  BY <1>1, <1>2, Untouched

\* What an update does to the trade.
LEMMA UpdateIs ==
  ASSUME Typed, NEW price \in Int, NEW t \in Nat, trade' = Updated(trade, price, t)
  PROVE  \/ trade.reason # "" /\ trade' = trade
         \/ trade.reason = "" /\ trade' = trade /\ ExitReason(trade, price, t) = ""
         \/ /\ trade.reason = "" /\ ExitReason(trade, price, t) # ""
            /\ trade' \in Trades /\ trade'.side = trade.side /\ trade'.opened = trade.opened
            /\ trade'.alert = trade.alert /\ trade'.entry = trade.entry
            /\ trade'.reason = ExitReason(trade, price, t)
            /\ trade'.closed = t /\ trade'.raw = price
            /\ trade'.pnl = NetPnl(trade.entry, Fill(price, trade.side), trade.side)
<1> DEFINE reason == ExitReason(trade, price, t)
           pnl == NetPnl(trade.entry, Fill(price, trade.side), trade.side)
<1>1. CASE trade.reason # "" \/ reason = ""
  BY <1>1 DEF Updated
<1>2. CASE trade.reason = "" /\ reason # ""
  <2>1. trade' = [trade EXCEPT !.reason = reason, !.closed = t, !.raw = price, !.pnl = pnl]
    BY <1>2, Zenon DEF Updated, Closed
  <2>2. reason \in Reasons
    BY <1>2 DEF ExitReason, Reasons
  <2>3. pnl \in Int
    <3>1. Sign(trade.side) \in Int
      BY DEF Sign
    <3>2. Slippage \in Int /\ Cost \in Int
      BY ReplayAssumption
    <3>3. trade.entry \in Int
      BY TradeIs
    <3>4. QED
      BY <3>1, <3>2, <3>3 DEF NetPnl, Fill
  <2> HIDE DEF reason, pnl
  <2>4. trade' \in Trades
    BY <2>1, <2>2, <2>3 DEF Typed, Trades
  <2>5. /\ trade'.side = trade.side /\ trade'.opened = trade.opened
        /\ trade'.alert = trade.alert /\ trade'.entry = trade.entry
        /\ trade'.reason = reason /\ trade'.closed = t /\ trade'.raw = price /\ trade'.pnl = pnl
    BY <2>1 DEF Typed, Trades
  <2>6. QED
    BY <1>2, <2>4, <2>5 DEF reason, pnl
<1>3. QED
  BY <1>1, <1>2

LEMMA TypedKept ==
  ASSUME Typed, BarInv, ChangeInv, HistoryInv, NEW next \in market, Ticked(next)
  PROVE  Typed'
<1>1. candles' \in Seq(Candles) /\ oiHistory' \in Seq(Stamps) /\ changes' \in Seq(Stamps)
  <2>1. candles' \in Seq(Candles)
    BY BarStep
  <2>2. QED
    BY <2>1, HistoryStep, ChangeStep
<1>2. /\ market' = market /\ now' \in Nat /\ now < now' /\ now' <= MaxNow /\ quote' = next
      /\ trade' = Updated(trade, next.price, now') /\ next.price \in Int
  BY ChangeStep DEF Ticked
<1>3. trade' \in Trades
  BY <1>2, UpdateIs DEF Typed
<1>4. Bar - 1 <= now'
  BY <1>2, TriggerAssumption DEF Typed
<1>5. QED
  BY <1>1, <1>2, <1>3, <1>4 DEF Typed

LEMMA TradeKept ==
  ASSUME Typed, BarInv, ChangeInv, TradeInv, NEW next \in market, Ticked(next)
  PROVE  TradeInv'
<1> DEFINE n == Len(candles)
           m == Len(candles')
           price == next.price
           Clear(bars, i) == BarExit(bars[i], trade.side, trade.entry) = ""
<1>1. /\ candles' \in Seq(Candles) /\ n \in Nat \ {0} /\ m \in {n, n + 1}
      /\ DOMAIN candles = 1 .. n /\ DOMAIN candles' = 1 .. m
      /\ \A i \in 1 .. m - 1 : i \in 1 .. n /\ candles'[i] = candles[i] /\ candles'[i].t + Bar <= now'
      /\ candles'[m].t = Bucket(now') * Bar
      /\ candles'[m].low <= price /\ price <= candles'[m].high
      /\ \/ m = n + 1 /\ candles'[m].low = price /\ candles'[m].high = price
         \/ /\ m = n /\ candles'[n].t = candles[n].t
            /\ candles'[n].high \in {candles[n].high, price} /\ candles[n].high <= candles'[n].high
            /\ candles'[n].low \in {candles[n].low, price} /\ candles'[n].low <= candles[n].low
  BY BarStep
<1>2. /\ now' \in Nat /\ now < now' /\ now \in Nat /\ Bar - 1 <= now /\ Bar \in Nat \ {0}
      /\ trade' = Updated(trade, price, now') /\ price \in Int
  BY ChangeStep, TriggerAssumption DEF Ticked, Typed
<1>3. /\ trade.opened = Bar - 1 /\ trade.entry = Fill(trade.alert, trade.side)
      /\ \A i \in 1 .. n :
           i > 1 /\ (trade.reason = "" \/ candles[i].t < Bucket(trade.closed) * Bar) => Clear(candles, i)
  BY <1>1 DEF TradeInv
<1> HIDE DEF Clear, n, m, price
<1>4. CASE trade.reason # "" /\ trade' = trade
  <2>1. /\ Bar <= trade.closed /\ trade.closed <= now /\ trade.closed \in Nat
        /\ trade.reason = ExitReason(trade, trade.raw, trade.closed)
        /\ trade.pnl = NetPnl(trade.entry, Fill(trade.raw, trade.side), trade.side)
    BY <1>4, TradeIs DEF TradeInv
  <2>2. PICK i \in 1 .. n : /\ candles[i].t = Bucket(trade.closed) * Bar
                            /\ candles[i].low <= trade.raw /\ trade.raw <= candles[i].high
    BY <1>1, <1>4 DEF TradeInv
  <2>3. \E j \in 1 .. m : /\ candles'[j].t = Bucket(trade.closed) * Bar
                          /\ candles'[j].low <= trade.raw /\ trade.raw <= candles'[j].high
    <3>1. CASE i \in 1 .. m - 1
      <4>1. i \in 1 .. m
        BY <1>1, <3>1
      <4>2. QED
        BY <1>1, <2>2, <3>1, <4>1
    <3>2. CASE i \notin 1 .. m - 1
      <4>1. i = n /\ m = n /\ m \in 1 .. m
        BY <1>1, <3>2
      <4>2. /\ candles[n].high \in Int /\ candles[n].low \in Int /\ candles'[n].high \in Int
            /\ candles'[n].low \in Int /\ trade.raw \in Int
        BY <1>1, <4>1, CandleIs, TradeIs DEF Typed, n, m
      <4>3. candles'[m].t = Bucket(trade.closed) * Bar
        BY <1>1, <2>2, <4>1
      <4>4. candles'[m].low <= trade.raw /\ trade.raw <= candles'[m].high
        BY <1>1, <2>2, <4>1, <4>2
      <4>5. QED
        BY <4>1, <4>3, <4>4
    <3>3. QED
      BY <3>1, <3>2
  <2>4. ASSUME NEW j \in 1 .. m, j > 1, candles'[j].t < Bucket(trade.closed) * Bar PROVE Clear(candles', j)
    <3>1. CASE j \in 1 .. m - 1
      BY <1>1, <1>3, <2>4, <3>1 DEF Clear
    <3>2. CASE j = m
      <4> DEFINE a == Bucket(trade.closed) * Bar
                 b == Bucket(now') * Bar
      <4>1. a <= b /\ a \in Nat /\ b \in Nat
        <5>1. trade.closed <= now'
          BY <1>2, <2>1
        <5>2. QED
          BY <1>2, <2>1, <5>1, BucketMonotone, BucketBounds
      <4>2. candles'[j].t = b /\ candles'[j].t < a
        BY <1>1, <2>4, <3>2
      <4> HIDE DEF a, b
      <4>3. QED
        BY <4>1, <4>2
    <3>3. QED
      BY <1>1, <3>1, <3>2
  <2>5. trade.closed <= now'
    BY <1>2, <2>1
  <2>6. QED
    BY <1>1, <1>3, <1>4, <2>1, <2>3, <2>4, <2>5 DEF TradeInv, Clear, m
<1>5. CASE trade.reason = "" /\ trade' = trade /\ ExitReason(trade, price, now') = ""
  <2>1. ~AtTarget(trade.side, trade.entry, price) /\ ~AtStop(trade.side, trade.entry, price)
    BY <1>5 DEF ExitReason
  <2>2. ASSUME NEW j \in 1 .. m, j > 1 PROVE Clear(candles', j)
    <3>1. CASE j \in 1 .. m - 1
      BY <1>1, <1>3, <1>5, <2>2, <3>1 DEF Clear
    <3>2. CASE j = m /\ m = n + 1 /\ candles'[m].low = price /\ candles'[m].high = price
      BY <2>1, <3>2, UntouchedStep DEF Clear
    <3>3. CASE /\ j = m /\ m = n
               /\ candles'[n].high \in {candles[n].high, price} /\ candles'[n].low \in {candles[n].low, price}
      <4>1. Clear(candles, n)
        BY <1>1, <1>3, <1>5, <2>2, <3>3
      <4> DEFINE bar == candles[n]
                 bar2 == candles'[n]
      <4>2. /\ BarExit(bar, trade.side, trade.entry) = ""
            /\ bar2.high \in {bar.high, price} /\ bar2.low \in {bar.low, price}
        BY <3>3, <4>1 DEF Clear
      <4> HIDE DEF bar, bar2
      <4>3. BarExit(bar2, trade.side, trade.entry) = ""
        BY <2>1, <4>2, UntouchedStep
      <4>4. QED
        BY <3>3, <4>3 DEF Clear, bar2
    <3>4. QED
      BY <1>1, <3>1, <3>2, <3>3
  <2>3. QED
    BY <1>1, <1>3, <1>5, <2>2 DEF TradeInv, Clear, m
<1>6. CASE /\ trade.reason = "" /\ ExitReason(trade, price, now') # ""
           /\ trade' \in Trades /\ trade'.side = trade.side /\ trade'.opened = trade.opened
           /\ trade'.alert = trade.alert /\ trade'.entry = trade.entry
           /\ trade'.reason = ExitReason(trade, price, now')
           /\ trade'.closed = now' /\ trade'.raw = price
           /\ trade'.pnl = NetPnl(trade.entry, Fill(price, trade.side), trade.side)
  <2>1. ExitReason(trade', price, now') = ExitReason(trade, price, now')
    BY <1>6 DEF ExitReason
  <2>2. ASSUME NEW j \in 1 .. m, j > 1, candles'[j].t < Bucket(now') * Bar PROVE Clear(candles', j)
    <3>1. j # m
      <4>1. Bucket(now') * Bar \in Nat
        BY <1>2, BucketBounds
      <4>2. QED
        BY <1>1, <2>2, <4>1
    <3>2. j \in 1 .. m - 1
      BY <1>1, <3>1
    <3>3. QED
      BY <1>1, <1>3, <1>6, <2>2, <3>2 DEF Clear
  <2>3. m \in 1 .. m /\ Bar <= now'
    BY <1>1, <1>2
  <2>4. /\ trade'.opened = Bar - 1 /\ trade'.entry = Fill(trade'.alert, trade'.side)
        /\ Bar <= trade'.closed /\ trade'.closed <= now'
        /\ trade'.reason = ExitReason(trade', trade'.raw, trade'.closed)
        /\ trade'.pnl = NetPnl(trade'.entry, Fill(trade'.raw, trade'.side), trade'.side)
    <3>0. trade'.closed = now'
      BY <1>6
    <3>1. trade'.closed <= now' /\ Bar <= trade'.closed
      BY <1>2, <2>3, <3>0
    <3>2. trade'.opened = Bar - 1 /\ trade'.entry = Fill(trade'.alert, trade'.side)
      BY <1>3, <1>6
    <3>3. trade'.reason = ExitReason(trade', trade'.raw, trade'.closed)
      BY <1>6, <2>1
    <3>4. trade'.pnl = NetPnl(trade'.entry, Fill(trade'.raw, trade'.side), trade'.side)
      BY <1>6
    <3>5. QED
      BY <3>1, <3>2, <3>3, <3>4
  <2>5. \E i \in 1 .. m :
            /\ candles'[i].t = Bucket(trade'.closed) * Bar
            /\ candles'[i].low <= trade'.raw /\ trade'.raw <= candles'[i].high
    BY <1>1, <1>6, <2>3
  <2>6. \A j \in 1 .. m : j > 1 /\ candles'[j].t < Bucket(trade'.closed) * Bar
          => BarExit(candles'[j], trade'.side, trade'.entry) = ""
    BY <1>6, <2>2 DEF Clear
  <2>7. trade'.reason # ""
    BY <1>6
  <2>8. QED
    BY <1>1, <2>4, <2>5, <2>6, <2>7 DEF TradeInv, m
<1>7. QED
  BY <1>2, <1>4, <1>5, <1>6, UpdateIs

-----------------------------------------------------------------------------
(* The invariant.                                                          *)

\* The buffer stays within its size and takes the tick at its end.
LEMMA BufferedIs ==
  ASSUME NEW items \in Seq([t : Nat, price : Int]), NEW t \in Nat, NEW price \in Int
  PROVE  LET kept == Buffered(items, t, price) IN
         /\ kept \in Seq([t : Nat, price : Int]) /\ Len(kept) \in 1 .. TickBuffer
         /\ kept[Len(kept)] = [t |-> t, price |-> price]
<1> DEFINE e == [t |-> t, price |-> price]
           longer == Append(items, e)
           n == Len(longer)
           m == Max({1, n - TickBuffer + 1})
           kept == SubSeq(longer, m, n)
<1>1. TickBuffer \in Nat \ {0}
  BY ReplayAssumption
<1>2. longer \in Seq([t : Nat, price : Int]) /\ n \in Nat \ {0} /\ longer[n] = e
  OBVIOUS
<1>3. Buffered(items, t, price) = kept
  BY DEF Buffered
<1> HIDE DEF e, longer
<1>4. m = IF 1 >= n - TickBuffer + 1 THEN 1 ELSE n - TickBuffer + 1
  BY <1>1, <1>2, MaxOfTwo
<1>5. m \in Int /\ m >= 1 /\ m <= n /\ n - m + 1 <= TickBuffer
  BY <1>1, <1>2, <1>4
<1> HIDE DEF m
<1>6. \A i \in m .. n : longer[i] \in [t : Nat, price : Int]
  <2> DEFINE S == [t : Nat, price : Int]
  <2>1. longer \in Seq(S)
    BY <1>2
  <2> HIDE DEF S
  <2>2. \A i \in 1 .. n : longer[i] \in S
    BY <2>1
  <2>3. QED
    BY <1>2, <1>5, <2>2 DEF S
<1> HIDE DEF n
<1>7. /\ kept \in Seq([t : Nat, price : Int]) /\ Len(kept) = n - m + 1
      /\ \A i \in 1 .. n - m + 1 : kept[i] = longer[m + i - 1]
  BY <1>2, <1>5, <1>6, SubSeqProperties
<1> HIDE DEF kept
<1>8. n - m + 1 \in 1 .. n - m + 1 /\ m + (n - m + 1) - 1 = n /\ n - m + 1 \in 1 .. TickBuffer
  BY <1>1, <1>2, <1>5
<1>9. kept[Len(kept)] = e
  BY <1>2, <1>7, <1>8
<1>10. QED
  BY <1>3, <1>7, <1>8, <1>9 DEF e

LEMMA CurrentKept ==
  ASSUME CurrentInv, Typed, BarInv, ChangeInv, NEW next \in market, Ticked(next)
  PROVE  CurrentInv'
<1>1. /\ now' \in Nat /\ next.price \in Int /\ quote' = next
      /\ ticks \in Seq([t : Nat, price : Int]) /\ ticks' = Buffered(ticks, now', next.price)
  BY ChangeStep DEF Ticked, CurrentInv
<1>2. /\ ticks' \in Seq([t : Nat, price : Int]) /\ Len(ticks') \in 1 .. TickBuffer
      /\ ticks'[Len(ticks')] = [t |-> now', price |-> next.price]
  BY <1>1, BufferedIs
<1>3. candles'[Len(candles')].close = next.price
  BY BarStep
<1>4. QED
  BY <1>1, <1>2, <1>3 DEF CurrentInv

LEMMA InitHolds ==
  ASSUME Init
  PROVE  ReplayInv
<1>1. PICK side \in {"LONG", "SHORT"}, quotes \in Markets : \E first \in quotes :
        LET totals == Totals(first.chain) IN
          /\ market = quotes /\ now = Bar - 1 /\ quote = first
          /\ ticks = <<[t |-> now, price |-> first.price]>>
          /\ candles = Aggregated(<<>>, now, first.price, totals)
          /\ oiHistory = <<[t |-> now, totals |-> totals]>> /\ changes = oiHistory
          /\ trade = Submitted(side, now, first.price)
  BY Zenon DEF Init
<1>2. PICK first \in quotes :
        LET totals == Totals(first.chain) IN
          /\ market = quotes /\ now = Bar - 1 /\ quote = first
          /\ ticks = <<[t |-> now, price |-> first.price]>>
          /\ candles = Aggregated(<<>>, now, first.price, totals)
          /\ oiHistory = <<[t |-> now, totals |-> totals]>> /\ changes = oiHistory
          /\ trade = Submitted(side, now, first.price)
  BY <1>1
<1> DEFINE totals == Totals(first.chain)
           price == first.price
           bar == [t |-> 0, open |-> price, high |-> price, low |-> price,
                   close |-> price, totals |-> totals]
           e == [t |-> now, totals |-> totals]
<1>3. totals \in Sums /\ price \in Int
  BY <1>2, QuoteTyped
<1>4. Bar \in Nat \ {0} /\ now = Bar - 1 /\ now \in Nat /\ now <= MaxNow /\ Keep \in Nat
  BY <1>2, TriggerAssumption, ReplayAssumption
<1>5. Bucket(now) = 0 /\ Bucket(now) * Bar = 0 /\ Bucket(0) = 0
  <2>1. Bucket(now) \in Nat /\ Bucket(now) * Bar <= now
    BY <1>4, BucketBounds
  <2>2. ~(0 < Bucket(now))
    BY <1>4, <2>1, MultipleOrder
  <2>3. Bucket(now) = 0
    BY <2>1, <2>2
  <2>4. Bucket(0 * Bar) = 0 /\ 0 * Bar = 0
    BY <1>4, BucketOfMultiple
  <2>5. QED
    BY <1>4, <2>3, <2>4
<1>6. candles = <<bar>>
  <2>1. Aggregated(<<>>, now, price, totals)
          = Append(<<>>, [t |-> Bucket(now) * Bar, open |-> price, high |-> price, low |-> price,
                          close |-> price, totals |-> totals])
    BY DEF Aggregated
  <2>2. QED
    BY <1>2, <1>5, <2>1
<1>7. changes = <<e>> /\ oiHistory = <<e>> /\ totals = Totals(quote.chain)
  BY <1>2
<1>8. trade = Submitted(side, now, price)
  BY <1>2
<1>9. bar \in Candles /\ e \in Stamps
  BY <1>3, <1>4 DEF Candles, Stamps
<1>10. /\ bar.t = 0 /\ bar.low = price /\ bar.high = price /\ bar.close = price /\ bar.totals = totals
       /\ e.t = now /\ e.totals = totals
  OBVIOUS
<1>11. trade \in Trades /\ trade.opened = Bar - 1 /\ trade.entry = Fill(trade.alert, trade.side) /\ trade.reason = ""
  <2>1. Fill(price, side) \in Int
    <3>1. Sign(side) \in Int
      BY DEF Sign
    <3>2. Slippage \in Int
      BY ReplayAssumption
    <3>3. QED
      BY <1>3, <3>1, <3>2 DEF Fill
  <2> HIDE DEF price
  <2>2. /\ trade = [side |-> side, opened |-> now, alert |-> price, entry |-> Fill(price, side),
                    reason |-> "", closed |-> 0, raw |-> 0, pnl |-> 0]
        /\ side \in {"LONG", "SHORT"} /\ "" \in Reasons \cup {""}
    BY <1>1, <1>8 DEF Submitted
  <2>3. trade \in Trades
    <3> DEFINE fill == Fill(price, side)
    <3>1. fill \in Int /\ 0 \in Nat /\ 0 \in Int /\ now \in Nat /\ price \in Int
      BY <1>3, <1>4, <2>1
    <3> HIDE DEF fill
    <3>2. [side |-> side, opened |-> now, alert |-> price, entry |-> fill, reason |-> "", closed |-> 0,
           raw |-> 0, pnl |-> 0] \in Trades
      BY <2>2, <3>1 DEF Trades
    <3>3. QED
      BY <2>2, <3>2 DEF fill
  <2>4. QED
    BY <1>4, <2>2, <2>3
<1>12. market \in Markets /\ quote \in market
  BY <1>1, <1>2
<1> HIDE DEF bar, e, totals, price
<1>13. /\ Len(candles) = 1 /\ DOMAIN candles = {1} /\ candles[1] = bar /\ candles \in Seq(Candles)
       /\ Len(changes) = 1 /\ DOMAIN changes = {1} /\ changes[1] = e /\ changes \in Seq(Stamps)
       /\ oiHistory = changes
  BY <1>6, <1>7, <1>9
<1>14. Typed
  <2>1. candles \in Seq(Candles) /\ oiHistory \in Seq(Stamps) /\ changes \in Seq(Stamps)
    BY <1>13
  <2>2. Bar - 1 <= now
    BY <1>4
  <2>3. QED
    BY <1>4, <1>11, <1>12, <2>1, <2>2 DEF Typed
<1>15. BarInv
  <2>1. Ordered(bar) /\ Aligned(bar)
    BY <1>3, <1>5, <1>10, <1>4 DEF Ordered, Aligned
  <2>2. QED
    BY <1>5, <1>10, <1>13, <2>1 DEF BarInv, Rising
<1>16. ChangeInv
  BY <1>4, <1>7, <1>10, <1>13 DEF ChangeInv, Rising
<1>17. \A s \in Int : s >= now => Shows(changes, totals, s)
  BY <1>4, <1>10, <1>13 DEF Shows, InForce
<1>18. HistoryInv
  <2>1. now - Keep <= now /\ now \in Int /\ Shows(changes, totals, now)
    BY <1>4, <1>17
  <2>2. QED
    BY <1>4, <1>7, <1>10, <1>13, <2>1 DEF HistoryInv, Rising
<1>19. ShownInv
  <2>1. 0 + Bar - 1 \in Int /\ 0 + Bar - 1 >= now
    BY <1>4
  <2>2. Shows(changes, totals, 0 + Bar - 1)
    BY <1>17, <2>1
  <2>3. QED
    BY <1>5, <1>10, <1>13, <2>2 DEF ShownInv
<1>20. TradeInv
  <2>1. \A i \in DOMAIN candles : ~(i > 1)
    BY <1>13
  <2>2. QED
    BY <1>11, <2>1 DEF TradeInv
<1>21. CurrentInv
  <2>1. ticks = <<[t |-> now, price |-> price]>> /\ quote.price = price
    BY <1>2 DEF price
  <2>2. TickBuffer \in Nat \ {0} /\ now \in Nat /\ price \in Int
    BY <1>3, <1>4, ReplayAssumption
  <2>3. candles[Len(candles)].close = price
    BY <1>10, <1>13
  <2>4. QED
    BY <2>1, <2>2, <2>3 DEF CurrentInv
<1>22. QED
  BY <1>14, <1>15, <1>16, <1>18, <1>19, <1>20, <1>21 DEF ReplayInv

\* Every step keeps it.
LEMMA NextKeeps ==
  ASSUME ReplayInv, [Next]_vars
  PROVE  ReplayInv'
<1>1. CASE OnTick
  <2>1. PICK next \in market : Ticked(next)
    BY <1>1, TickIs DEF ReplayInv
  <2>2. CurrentInv' /\ Typed' /\ BarInv' /\ ChangeInv' /\ HistoryInv' /\ ShownInv' /\ TradeInv'
    <3>1. CurrentInv /\ Typed /\ BarInv /\ ChangeInv /\ HistoryInv /\ ShownInv /\ TradeInv
      BY DEF ReplayInv
    <3>2. Typed'
      BY <2>1, <3>1, TypedKept
    <3>3. BarInv'
      BY <2>1, <3>1, BarKept
    <3>4. ChangeInv'
      BY <2>1, <3>1, ChangeStep
    <3>5. HistoryInv'
      BY <2>1, <3>1, HistoryStep
    <3>6. ShownInv'
      BY <2>1, <3>1, ShownKept
    <3>7. TradeInv'
      BY <2>1, <3>1, TradeKept
    <3>8. CurrentInv'
      BY <2>1, <3>1, CurrentKept
    <3>9. QED
      BY <3>2, <3>3, <3>4, <3>5, <3>6, <3>7, <3>8
  <2>3. QED
    BY <2>2 DEF ReplayInv
<1>2. CASE UNCHANGED vars
  BY <1>2 DEF vars, ReplayInv, CurrentInv, Typed, BarInv, ChangeInv, HistoryInv, ShownInv, TradeInv
<1>3. QED
  BY <1>1, <1>2 DEF Next

LEMMA ReplayInvariance == Spec => []ReplayInv
<1>1. Init => ReplayInv
  BY InitHolds
<1>2. ReplayInv /\ [Next]_vars => ReplayInv'
  BY NextKeeps
<1>3. QED
  BY <1>1, <1>2, PTL DEF Spec

\* The candles, the history and the trade are well formed: bars rise and are ordered
\* within, the history rises, keeps its horizon and repeats no totals, and the buffer
\* is within its size and ends with the current tick.
THEOREM TypeCorrect == Spec => []TypeOK
<1>1. ASSUME ReplayInv PROVE TypeOK
  <2>1. /\ candles \in Seq(Candles) /\ oiHistory \in Seq(Stamps) /\ trade \in Trades
        /\ market \in Markets /\ quote \in market /\ now \in Nat /\ now <= MaxNow
    BY <1>1 DEF ReplayInv, Typed
  <2>2. \A i \in DOMAIN candles :
          /\ candles[i].low <= candles[i].close /\ candles[i].close <= candles[i].high
          /\ i > 1 => candles[i].t > candles[i - 1].t
    <3> TAKE i \in DOMAIN candles
    <3>1. Ordered(candles[i])
      BY <1>1 DEF ReplayInv, BarInv
    <3>2. i > 1 => i - 1 \in DOMAIN candles /\ i - 1 < i
      BY <2>1
    <3>3. i > 1 => candles[i - 1].t < candles[i].t
      BY <1>1, <3>2 DEF ReplayInv, BarInv, Rising
    <3>4. i > 1 => candles[i].t \in Nat /\ candles[i - 1].t \in Nat
      BY <2>1, <3>2, CandleIs
    <3>5. QED
      BY <3>1, <3>3, <3>4 DEF Ordered
  <2>3. \A i \in DOMAIN oiHistory :
          /\ oiHistory[i].t >= now - Keep
          /\ i > 1 => oiHistory[i].t > oiHistory[i - 1].t /\ oiHistory[i].totals # oiHistory[i - 1].totals
    <3> TAKE i \in DOMAIN oiHistory
    <3>1. /\ now - Keep <= oiHistory[i].t
          /\ i > 1 => oiHistory[i].totals # oiHistory[i - 1].totals
      BY <1>1 DEF ReplayInv, HistoryInv
    <3>2. i > 1 => i - 1 \in DOMAIN oiHistory /\ i - 1 < i
      BY <2>1
    <3>3. i > 1 => oiHistory[i - 1].t < oiHistory[i].t
      BY <1>1, <3>2 DEF ReplayInv, HistoryInv, Rising
    <3>4. oiHistory[i].t \in Nat /\ (i > 1 => oiHistory[i - 1].t \in Nat)
      BY <2>1, <3>2, StampIs
    <3>5. now - Keep \in Int
      BY <2>1, ReplayAssumption
    <3>6. QED
      BY <3>1, <3>3, <3>4, <3>5
  <2>4. trade.side \in {"LONG", "SHORT"} /\ trade.reason \in Reasons \cup {""} /\ trade.pnl \in Int
    BY <2>1 DEF Trades
  <2>5. now \in 0 .. MaxNow
    BY <2>1, ReplayAssumption
  <2>6. Len(ticks) \in 1 .. TickBuffer /\ ticks[Len(ticks)] = [t |-> now, price |-> quote.price]
    BY <1>1 DEF ReplayInv, CurrentInv
  <2>7. QED
    BY <2>1, <2>2, <2>3, <2>4, <2>5, <2>6 DEF TypeOK
<1>2. QED
  BY <1>1, ReplayInvariance, PTL

-----------------------------------------------------------------------------
(* Backtest and live see the same open interest.                           *)

\* The ingested series shows at the start of a bar what was in force at its end.
LEMMA SeriesShows ==
  ASSUME ReplayInv, NEW k \in Int, NEW c, InForce(changes, c, k * Bar + Bar - 1)
  PROVE  AtOrBefore(candles, k * Bar) = changes[c].totals
<1> DEFINE target == k * Bar
           before == {i \in DOMAIN candles : candles[i].t <= target}
           n == Len(candles)
           at == changes[c].t
           start == Bucket(at) * Bar
<1>1. Bar \in Nat \ {0} /\ target \in Int
  BY TriggerAssumption
<1>2. /\ n \in Nat /\ DOMAIN candles = 1 .. n /\ Rising(candles)
      /\ \A i \in 1 .. n : candles[i].t \in Nat /\ Aligned(candles[i])
      /\ \A i \in 1 .. n : Shows(changes, candles[i].totals, candles[i].t + Bar - 1)
  BY CandleIs DEF ReplayInv, Typed, BarInv, ShownInv
<1>3. \A d \in DOMAIN changes : changes[d].t \in Nat /\ d \in Nat
  BY StampIs DEF ReplayInv, Typed
<1>4. c \in DOMAIN changes /\ at <= target + Bar - 1 /\ at \in Nat
  BY <1>3 DEF InForce
<1>5. start \in Nat /\ start <= at /\ at <= start + Bar - 1 /\ Bucket(at) \in Nat
  BY <1>4, BucketBounds
<1>6. start <= target
  <2>1. CASE k < Bucket(at)
    <3>1. k + 1 <= Bucket(at)
      BY <1>5, <2>1
    <3>2. k \in Nat
      <4>1. ~(k <= -1)
        <5>1. k <= -1 => k * Bar <= (-1) * Bar
          BY <1>1
        <5>2. QED
          BY <1>1, <1>4, <5>1
      <4>2. QED
        BY <4>1
    <3>3. k * Bar + Bar <= Bucket(at) * Bar
      BY <1>5, <2>1, <3>2, MultipleOrder
    <3>4. QED
      BY <1>1, <1>4, <1>5, <3>3
  <2>2. CASE k = Bucket(at)
    BY <1>5, <2>2
  <2>3. CASE Bucket(at) < k
    <3>1. Bucket(at) * Bar + Bar <= k * Bar
      BY <1>5, <2>3, MultipleOrder
    <3>2. QED
      BY <1>1, <1>5, <3>1
  <2>4. QED
    BY <1>5, <2>1, <2>2, <2>3
<1>7. PICK i \in 1 .. n : candles[i].t = start
  BY <1>2, <1>4 DEF ReplayInv, ShownInv
<1> HIDE DEF target, start, at
<1>8. before # {} /\ before \in SUBSET (1 .. n) /\ i \in before
  BY <1>2, <1>6, <1>7
<1> DEFINE p == Max(before)
<1>9. p \in before /\ p \in 1 .. n /\ i <= p
  BY <1>2, <1>8, LastIndex
<1> HIDE DEF p
<1>10. candles[p].t <= target /\ candles[p].t \in Nat /\ start <= candles[p].t
  <2>1. p = i \/ candles[i].t < candles[p].t
    BY <1>2, <1>9 DEF Rising
  <2>2. QED
    BY <1>2, <1>5, <1>7, <1>9, <2>1
<1>11. PICK d \in DOMAIN changes : /\ InForce(changes, d, candles[p].t + Bar - 1)
                                   /\ changes[d].totals = candles[p].totals
  BY <1>2, <1>9 DEF Shows, InForce
<1>12. d <= c
  <2>1. changes[d].t <= target + Bar - 1
    BY <1>1, <1>3, <1>10, <1>11 DEF InForce
  <2>2. QED
    BY <2>1 DEF InForce, target
<1>13. c <= d
  <2>1. at <= candles[p].t + Bar - 1
    BY <1>1, <1>4, <1>5, <1>10
  <2>2. QED
    BY <1>4, <1>11, <2>1 DEF InForce, at
<1>14. c = d
  BY <1>3, <1>4, <1>12, <1>13
<1>15. AtOrBefore(candles, target) = candles[p].totals
  BY <1>8 DEF AtOrBefore, p
<1>16. QED
  BY <1>11, <1>14, <1>15 DEF target

\* The live history has what was in force, if it has not been pruned.
LEMMA HistoryShows ==
  ASSUME ReplayInv, NEW target \in Int, NEW c, InForce(changes, c, target), changes[c].t >= now - Keep
  PROVE  Lookup(oiHistory, target) = changes[c].totals
<1> DEFINE before == {i \in DOMAIN oiHistory : oiHistory[i].t <= target}
           n == Len(oiHistory)
<1>1. /\ n \in Nat /\ DOMAIN oiHistory = 1 .. n /\ Rising(oiHistory)
      /\ \A i \in 1 .. n : oiHistory[i].t \in Nat
      /\ \A i \in 1 .. n : Shows(changes, oiHistory[i].totals, oiHistory[i].t)
  BY StampIs DEF ReplayInv, Typed, HistoryInv
<1>2. \A d \in DOMAIN changes : changes[d].t \in Nat /\ d \in Nat
  BY StampIs DEF ReplayInv, Typed
<1>3. c \in DOMAIN changes /\ changes[c].t <= target
  BY DEF InForce
<1>4. PICK i \in 1 .. n : oiHistory[i].t = changes[c].t
  BY <1>1, <1>3 DEF ReplayInv, HistoryInv
<1>5. before # {} /\ before \in SUBSET (1 .. n) /\ i \in before
  BY <1>1, <1>3, <1>4
<1> DEFINE p == Max(before)
<1>6. p \in before /\ p \in 1 .. n /\ i <= p
  BY <1>1, <1>5, LastIndex
<1> HIDE DEF p
<1>7. oiHistory[p].t <= target /\ oiHistory[p].t \in Nat /\ changes[c].t <= oiHistory[p].t
  <2>1. p = i \/ oiHistory[i].t < oiHistory[p].t
    BY <1>1, <1>6 DEF Rising
  <2>2. QED
    BY <1>1, <1>2, <1>3, <1>4, <1>6, <2>1
<1>8. PICK d \in DOMAIN changes : /\ InForce(changes, d, oiHistory[p].t)
                                  /\ changes[d].totals = oiHistory[p].totals
  BY <1>1, <1>6 DEF Shows, InForce
<1>9. d <= c
  <2>1. changes[d].t <= target
    BY <1>2, <1>7, <1>8 DEF InForce
  <2>2. QED
    BY <2>1 DEF InForce
<1>10. c <= d
  BY <1>3, <1>7, <1>8 DEF InForce
<1>11. c = d
  BY <1>2, <1>3, <1>9, <1>10
<1>12. Lookup(oiHistory, target) = oiHistory[p].totals
  <2>1. oiHistory # <<>>
    BY <1>1, <1>4
  <2>2. QED
    BY <1>5, <2>1 DEF Lookup, p
<1>13. QED
  BY <1>8, <1>11, <1>12

LEMMA Distributes ==
  ASSUME NEW a \in Int, NEW b \in Int, NEW c \in Int
  PROVE  (a - b) * c = a * c - b * c
OBVIOUS

\* A look-back that the history remembers is the one the series has.
LEMMA SameLookBack ==
  ASSUME ReplayInv, NEW window \in Nat, window % Bar = 0, Remembered(window),
         now % Bar = Bar - 1
  PROVE  Lookup(oiHistory, now - window) = AtOrBefore(candles, Bucket(now) * Bar - window)
<1> DEFINE before == {i \in DOMAIN changes : changes[i].t <= now - window}
           c == Max(before)
           w == window \div Bar
           k == Bucket(now) - w
<1>1. Bar \in Nat \ {0} /\ now \in Nat /\ Keep \in Nat
  BY TriggerAssumption, ReplayAssumption DEF ReplayInv, Typed
<1>2. w \in Nat /\ window = w * Bar
  BY <1>1
<1>3. Bucket(now) \in Nat /\ now = Bucket(now) * Bar + Bar - 1
  <2>1. now % Bar = now - Bucket(now) * Bar /\ Bucket(now) \in Nat /\ Bucket(now) * Bar \in Nat
    BY <1>1, BucketBounds
  <2>2. QED
    BY <1>1, <2>1
<1>4. k \in Int /\ k * Bar = Bucket(now) * Bar - window
  <2>1. Bucket(now) \in Int /\ w \in Int /\ Bar \in Int
    BY <1>1, <1>2, <1>3
  <2> HIDE DEF w
  <2>2. k * Bar = Bucket(now) * Bar - w * Bar
    BY <2>1, Distributes
  <2>3. QED
    BY <1>2, <2>1, <2>2
<1>5. before # {} /\ changes[c].t >= now - Keep
  BY DEF Remembered
<1>6. before \in SUBSET (1 .. Len(changes)) /\ Len(changes) \in Nat /\ DOMAIN changes = 1 .. Len(changes)
  BY StampIs DEF ReplayInv, Typed
<1>7. c \in before /\ \A i \in before : i <= c
  BY <1>5, <1>6, LastIndex
<1> HIDE DEF c, k
<1>8. InForce(changes, c, now - window)
  BY <1>7 DEF InForce
<1>9. Lookup(oiHistory, now - window) = changes[c].totals
  BY <1>1, <1>5, <1>8, HistoryShows
<1>10. AtOrBefore(candles, k * Bar) = changes[c].totals
  <2>1. now - window = k * Bar + Bar - 1
    BY <1>1, <1>3, <1>4
  <2>2. InForce(changes, c, k * Bar + Bar - 1)
    BY <1>8, <2>1
  <2>3. QED
    BY <1>4, <2>2, SeriesShows
<1>11. QED
  BY <1>4, <1>9, <1>10

\* More levels trigger no less.
LEMMA MoreLevels ==
  ASSUME NEW v, NEW spot, NEW regime, NEW extra
  PROVE  Triggered(v, spot, regime, {}) \subseteq Triggered(v, spot, regime, extra)
<1>1. LevelsInRange(spot, {}) \subseteq LevelsInRange(spot, extra)
  BY DEF LevelsInRange
<1>2. QED
  BY <1>1 DEF Triggered

\* The sums of the open interest, and what a look-back finds, are numbers.
LEMMA SumsAreNumbers ==
  ASSUME NEW totals \in Sums
  PROVE  totals.call \in Int /\ totals.put \in Int
<1>1. PICK q \in UNION Markets : totals = Totals(q.chain)
  BY DEF Sums
<1>2. \A oi \in [Strikes -> Nat] : SumFunction(oi) \in Int
  <2> TAKE oi \in [Strikes -> Nat]
  <2>1. IsFiniteSet(Strikes) /\ DOMAIN oi = Strikes /\ \A x \in Strikes : oi[x] \in Int
    BY LevelsAssumption
  <2>2. SumFunctionOnSet(oi, Strikes) \in Int
    BY <2>1, SumType
  <2>3. QED
    BY <2>1, <2>2 DEF SumFunction
<1>3. q.chain.call \in [Strikes -> Nat] /\ q.chain.put \in [Strikes -> Nat]
  BY ReplayAssumption
<1>4. QED
  BY <1>1, <1>2, <1>3 DEF Totals

LEMMA LookBackIsNumber ==
  ASSUME NEW bars \in Seq(Candles), NEW target \in Int
  PROVE  AtOrBefore(bars, target).call \in Int /\ AtOrBefore(bars, target).put \in Int
<1> DEFINE before == {i \in DOMAIN bars : bars[i].t <= target}
<1>1. Len(bars) \in Nat /\ before \in SUBSET (1 .. Len(bars))
  BY CandleIs
<1>2. CASE before = {}
  BY <1>2 DEF AtOrBefore, None
<1>3. CASE before # {}
  <2>1. Max(before) \in 1 .. Len(bars)
    BY <1>1, <1>3, LastIndex
  <2>2. bars[Max(before)].totals \in Sums
    BY <2>1, CandleIs
  <2>3. AtOrBefore(bars, target) = bars[Max(before)].totals
    BY <1>3 DEF AtOrBefore
  <2>4. QED
    BY <2>2, <2>3, SumsAreNumbers
<1>4. QED
  BY <1>2, <1>3

\* A lower scaling triggers no less, and every regime has one.
LEMMA ScalingOrders ==
  ASSUME NEW v, v.call1 \in Int, v.put1 \in Int, v.call5 \in Int, v.put5 \in Int,
         NEW spot, NEW extra, NEW calm, NEW wild,
         Scaling(calm) \in Int, Scaling(wild) \in Int, Scaling(wild) <= Scaling(calm)
  PROVE  Triggered(v, spot, calm, extra) \subseteq Triggered(v, spot, wild, extra)
<1>1. ASSUME NEW a \in Int, NEW b \in Int, NEW threshold \in Nat, Fast(a, b, threshold, calm)
      PROVE  Fast(a, b, threshold, wild)
  <2> DEFINE m == Max({Distance(a, 0), Distance(b, 0)})
             high == Scaling(calm)
             low == Scaling(wild)
  <2>1. Distance(a, 0) \in Int /\ Distance(b, 0) \in Int
    BY DEF Distance
  <2>2. m \in Int
    BY <2>1, PairExtremes
  <2>3. 10 * m >= high * threshold
    BY <1>1 DEF Fast
  <2>4. high \in Int /\ low \in Int /\ low <= high
    OBVIOUS
  <2> HIDE DEF m, high, low
  <2>5. low * threshold <= high * threshold
    <3>1. (high - low) * threshold = high * threshold - low * threshold
      BY <2>4, Distributes
    <3>2. high - low \in Nat
      BY <2>4
    <3>3. \A x, y \in Nat : x * y \in Nat
      OBVIOUS
    <3>4. (high - low) * threshold \in Nat
      BY <3>2, <3>3
    <3>5. high * threshold \in Int /\ low * threshold \in Int
      BY <2>4
    <3>6. QED
      BY <3>1, <3>4, <3>5
  <2>6. high * threshold \in Int /\ low * threshold \in Int
    BY <2>4
  <2>7. 10 * m >= low * threshold
    BY <2>2, <2>3, <2>5, <2>6
  <2>8. QED
    BY <2>7 DEF Fast, m, low
<1>2. ScalpMin \in Nat /\ IntradayMin \in Nat
  BY TriggerAssumption
<1>3. Fast(v.call1, v.put1, ScalpMin, calm) => Fast(v.call1, v.put1, ScalpMin, wild)
  BY <1>1, <1>2
<1>4. Fast(v.call5, v.put5, IntradayMin, calm) => Fast(v.call5, v.put5, IntradayMin, wild)
  BY <1>1, <1>2
<1>5. QED
  BY <1>3, <1>4 DEF Triggered

LEMMA RegimeScales ==
  ASSUME NEW bars
  PROVE  Scaling(Regime(bars)) \in Int
<1>1. Regime(bars) \in {"CALM", "ACTIVE", "HIGH_VOL"}
  BY DEF Regime
<1>2. QED
  BY <1>1 DEF Scaling

\* At the end of a bar live and replay compute the same velocities as long as the
\* history remembers, and the live engine, unless its buffer shows a calmer regime
\* than the replay's bars, triggers all that ReplayEngine.run triggers on the bar.
THEOREM BacktestIsLive == Spec => []ReplayedAsLive
<1>1. ASSUME ReplayInv PROVE ReplayedAsLive
  <2> DEFINE start == Bucket(now) * Bar
             v == BarVelocities(candles, start)
  <2> SUFFICES ASSUME now % Bar = Bar - 1, Remembered(Window1), Remembered(Window5)
               PROVE  /\ LiveVelocities = v
                      /\ Scaling(LiveRegime) <= Scaling(ReplayedRegime)
                           => Replayed.triggers \subseteq LiveTriggers
    BY DEF ReplayedAsLive, LooksBack
  <2>1. Window1 \in Nat /\ Window5 \in Nat /\ Window1 % Bar = 0 /\ Window5 % Bar = 0
    BY ReplayAssumption
  <2>2. Lookup(oiHistory, now - Window1) = AtOrBefore(candles, start - Window1)
    BY <1>1, <2>1, SameLookBack
  <2>3. Lookup(oiHistory, now - Window5) = AtOrBefore(candles, start - Window5)
    BY <1>1, <2>1, SameLookBack
  <2>4. Totals(quote.chain) = AtOrBefore(candles, start)
    <3> DEFINE c == Len(changes)
               k == Bucket(now)
    <3>1. now \in Nat /\ k \in Nat /\ Bar \in Nat \ {0} /\ now <= k * Bar + Bar - 1 /\ k * Bar \in Nat
      BY <1>1, TriggerAssumption, BucketBounds DEF ReplayInv, Typed
    <3>2. /\ c \in Nat /\ c > 0 /\ DOMAIN changes = 1 .. c /\ changes[c].totals = Totals(quote.chain)
          /\ \A d \in 1 .. c : changes[d].t <= now /\ changes[d].t \in Nat
      BY <1>1, StampIs DEF ReplayInv, Typed, ChangeInv
    <3> HIDE DEF c, k
    <3>3. InForce(changes, c, k * Bar + Bar - 1)
      BY <3>1, <3>2 DEF InForce
    <3>4. AtOrBefore(candles, k * Bar) = changes[c].totals
      <4>1. k \in Int
        BY <3>1
      <4>2. QED
        BY <1>1, <3>3, <4>1, SeriesShows
    <3>5. QED
      BY <3>2, <3>4 DEF k
  <2>5. LiveVelocities = v
    BY <2>2, <2>3, <2>4 DEF LiveVelocities, BarVelocities
  <2>6. Replayed.triggers = Triggered(v, quote.price, ReplayedRegime, {})
    <3>1. candles[Len(candles)].t = start /\ candles[Len(candles)].close = quote.price
      BY <1>1 DEF ReplayInv, BarInv, CurrentInv
    <3>2. QED
      BY <3>1 DEF Replayed, ReplayedRegime, BarSignal
  <2>7. v.call1 \in Int /\ v.put1 \in Int /\ v.call5 \in Int /\ v.put5 \in Int
    <3>1. candles \in Seq(Candles) /\ now \in Nat
      BY <1>1 DEF ReplayInv, Typed
    <3>2. start \in Int /\ start - Window1 \in Int /\ start - Window5 \in Int
      <4>1. Bucket(now) \in Nat /\ Bar \in Nat
        BY <3>1, BucketBounds, TriggerAssumption
      <4>2. QED
        BY <2>1, <4>1
    <3> HIDE DEF start
    <3>3. QED
      BY <3>1, <3>2, LookBackIsNumber DEF BarVelocities, Velocities
  <2> HIDE DEF v, start
  <2>8. ASSUME Scaling(LiveRegime) <= Scaling(ReplayedRegime)
        PROVE  Replayed.triggers \subseteq LiveTriggers
    <3> DEFINE levels == LevelList(SessionBounds(LiveCandles), quote.chain)
    <3>1. Scaling(LiveRegime) \in Int /\ Scaling(ReplayedRegime) \in Int
      BY RegimeScales DEF LiveRegime, ReplayedRegime
    <3>2. Triggered(v, quote.price, ReplayedRegime, {}) \subseteq Triggered(v, quote.price, LiveRegime, {})
      BY <2>7, <2>8, <3>1, ScalingOrders
    <3>3. Triggered(v, quote.price, LiveRegime, {}) \subseteq Triggered(v, quote.price, LiveRegime, levels)
      BY MoreLevels
    <3>4. LiveTriggers = Triggered(v, quote.price, LiveRegime, levels)
      BY <2>5 DEF LiveTriggers
    <3>5. QED
      BY <2>6, <3>2, <3>3, <3>4
  <2>9. QED
    BY <2>5, <2>8
<1>2. QED
  BY <1>1, ReplayInvariance, PTL

-----------------------------------------------------------------------------
(* The backtest of the trade.                                              *)

LEMMA LevelMonotone ==
  ASSUME NEW side \in {"LONG", "SHORT"}, NEW entry \in Int, NEW raw \in Int,
         NEW bar, bar.low \in Int, bar.high \in Int, bar.low <= raw, raw <= bar.high
  PROVE  /\ AtTarget(side, entry, raw) => AtTarget(side, entry, Best(bar, side))
         /\ AtStop(side, entry, raw) => AtStop(side, entry, Worst(bar, side))
<1>1. Target \in Int /\ StopLoss \in Int
  BY ReplayAssumption
<1>2. CASE side = "LONG"
  BY <1>1, <1>2 DEF AtTarget, AtStop, TargetPrice, StopPrice, Sign, Best, Worst
<1>3. CASE side = "SHORT"
  BY <1>1, <1>3 DEF AtTarget, AtStop, TargetPrice, StopPrice, Sign, Best, Worst
<1>4. QED
  BY <1>2, <1>3

LEMMA PnlOrder ==
  ASSUME NEW side \in {"LONG", "SHORT"}, NEW entry \in Int, NEW raw \in Int
  PROVE  /\ AtTarget(side, entry, raw) =>
              NetPnl(entry, Fill(TargetPrice(side, entry), side), side) <= NetPnl(entry, Fill(raw, side), side)
         /\ AtStop(side, entry, raw) =>
              NetPnl(entry, Fill(StopPrice(side, entry), side), side) >= NetPnl(entry, Fill(raw, side), side)
<1>1. Target \in Int /\ StopLoss \in Int /\ Slippage \in Int /\ Cost \in Int
  BY ReplayAssumption
<1>2. CASE side = "LONG"
  BY <1>1, <1>2 DEF AtTarget, AtStop, TargetPrice, StopPrice, Sign, NetPnl, Fill
<1>3. CASE side = "SHORT"
  BY <1>1, <1>3 DEF AtTarget, AtStop, TargetPrice, StopPrice, Sign, NetPnl, Fill
<1>4. QED
  BY <1>2, <1>3

Touches(bars, i, side, entry) == BarExit(bars[i], side, entry) # ""

\* A walk ends at the first bar that touches a level.
LEMMA WalkEnds ==
  ASSUME NEW bars, NEW n \in Nat, n = Len(bars), NEW side, NEW alert,
         NEW m \in 2 .. MaxHoldBars + 1, m <= n,
         Touches(bars, m, side, Fill(alert, side)),
         \A i \in 2 .. m - 1 : ~Touches(bars, i, side, Fill(alert, side))
  PROVE  LET entry == Fill(alert, side)  b == Simulated(bars, side, alert) IN
         /\ b.reason = BarExit(bars[m], side, entry)
         /\ b.reason = "TARGET_HIT" => b.pnl = NetPnl(entry, Fill(TargetPrice(side, entry), side), side)
         /\ b.reason = "SL_HIT" => b.pnl = NetPnl(entry, Fill(StopPrice(side, entry), side), side)
<1> DEFINE entry == Fill(alert, side)
           hits == {i \in 2 .. MaxHoldBars + 1 : i <= Len(bars) /\ BarExit(bars[i], side, entry) # ""}
           touched == {i \in 2 .. MaxHoldBars + 1 : i <= n /\ Touches(bars, i, side, entry)}
           b == Simulated(bars, side, alert)
<1>1. hits = touched
  BY Zenon DEF Touches
<1> HIDE DEF entry, b, hits
<1>2. MaxHoldBars \in Nat /\ MaxHoldBars + 1 \in Nat /\ m \in Nat
  BY ReplayAssumption
<1>3. m \in touched /\ touched # {} /\ touched \in SUBSET (1 .. MaxHoldBars + 1)
  BY <1>2 DEF entry
<1>4. Min(touched) = m
  <2>1. Min(touched) \in touched /\ Min(touched) <= m
    <3> HIDE DEF touched
    <3>1. QED
      BY <1>2, <1>3, LastIndex
  <2>2. Min(touched) \in 2 .. MaxHoldBars + 1 /\ Min(touched) \notin 2 .. m - 1
    BY <2>1 DEF entry
  <2> HIDE DEF touched
  <2>3. QED
    BY <1>2, <2>1, <2>2
<1> HIDE DEF touched
<1>5. hits # {} /\ Min(hits) = m
  BY <1>1, <1>3, <1>4
<1>6. b.reason = BarExit(bars[m], side, entry)
  BY <1>5 DEF Simulated, entry, b, hits
<1>7. b.pnl = NetPnl(entry, Fill(CASE b.reason = "TARGET_HIT" -> TargetPrice(side, entry)
                                   [] b.reason = "SL_HIT" -> StopPrice(side, entry)
                                   [] b.reason = "TIME_EXIT" -> bars[Min({MaxHoldBars + 1, Len(bars)})].close,
                                 side), side)
  BY DEF Simulated, entry, b
<1>8. /\ b.reason = "TARGET_HIT" => b.pnl = NetPnl(entry, Fill(TargetPrice(side, entry), side), side)
      /\ b.reason = "SL_HIT" => b.pnl = NetPnl(entry, Fill(StopPrice(side, entry), side), side)
  BY <1>7
<1>9. QED
  BY <1>6, <1>8 DEF entry, b

\* A walk that meets no such bar ends at its last bar.
LEMMA WalkTimesOut ==
  ASSUME NEW bars, NEW side, NEW alert,
         \A i \in 2 .. MaxHoldBars + 1 : ~Touches(bars, i, side, Fill(alert, side))
  PROVE  Simulated(bars, side, alert).reason = "TIME_EXIT"
BY DEF Simulated, Touches

\* The backtest agrees with the paper trader on every closed trade.
THEOREM BacktestMatchesPaper == Spec => []BacktestAgrees
<1>1. ASSUME ReplayInv PROVE BacktestAgrees
  <2> DEFINE side == trade.side
             entry == trade.entry
             raw == trade.raw
             closed == trade.closed
             q == Bucket(closed)
             b == Simulated(candles, side, trade.alert)
             TouchesBoth(bar) == AtStop(side, entry, Worst(bar, side)) /\ AtTarget(side, entry, Best(bar, side))
  <2>0. SUFFICES ASSUME trade.reason # "", q < Len(candles), NoBarMissing(closed)
               PROVE  \/ /\ b.reason = trade.reason
                         /\ trade.reason = "TARGET_HIT" => b.pnl <= trade.pnl
                         /\ trade.reason = "SL_HIT" => b.pnl >= trade.pnl
                      \/ /\ trade.reason = "SL_HIT" /\ b.reason = "TARGET_HIT"
                         /\ TouchesBoth(candles[q + 1])
                      \/ b.reason = "TIME_EXIT" /\ closed - trade.opened > MaxHoldBars * Bar
    BY DEF BacktestAgrees
  <2>a. /\ side \in {"LONG", "SHORT"} /\ entry \in Int /\ raw \in Int
        /\ entry = Fill(trade.alert, side)
        /\ trade.reason = ExitReason(trade, raw, closed)
        /\ trade.pnl = NetPnl(entry, Fill(raw, side), side)
    BY <1>1, <2>0, TradeIs DEF ReplayInv, TradeInv
  <2>1. closed \in Nat /\ trade.opened = Bar - 1 /\ Bar <= closed
    BY <1>1, <2>0, TradeIs DEF ReplayInv, TradeInv
  <2>2. /\ Bar \in Nat \ {0} /\ MaxHoldBars \in Nat /\ q \in Nat /\ q * Bar \in Nat
        /\ q * Bar <= closed /\ closed <= q * Bar + Bar - 1
    <3>1. Bar \in Nat \ {0} /\ MaxHoldBars \in Nat
      BY TriggerAssumption, ReplayAssumption
    <3>2. QED
      BY <2>1, <3>1, BucketBounds
  <2>3. /\ Len(candles) \in Nat /\ DOMAIN candles = 1 .. Len(candles) /\ Rising(candles)
        /\ \A i \in 1 .. Len(candles) : /\ candles[i].t \in Nat
                                        /\ candles[i].low \in Int /\ candles[i].high \in Int
    BY <1>1, CandleIs DEF ReplayInv, Typed, BarInv
  <2>4. candles[q + 1].t = q * Bar /\ q < Len(candles)
    BY <2>0 DEF NoBarMissing
  <2>5. /\ \A i \in 1 .. Len(candles) : i > 1 /\ candles[i].t < q * Bar => ~Touches(candles, i, side, entry)
        /\ \E i \in 1 .. Len(candles) :
             candles[i].t = q * Bar /\ candles[i].low <= raw /\ raw <= candles[i].high
    BY <1>1, <2>0, <2>3 DEF ReplayInv, TradeInv, Touches
  <2> DEFINE m == q + 1
  <2> HIDE DEF side, entry, raw, closed, q, b
  <2>6. m \in 1 .. Len(candles) /\ candles[m].t = q * Bar /\ 1 < m /\ m - 1 = q
    <3>1. q # 0
      BY <2>1, <2>2
    <3>2. QED
      BY <2>2, <2>3, <2>4, <3>1
  <2> HIDE DEF m
  <2>7. candles[m].low <= raw /\ raw <= candles[m].high
    <3>1. PICK i \in 1 .. Len(candles) :
             candles[i].t = q * Bar /\ candles[i].low <= raw /\ raw <= candles[i].high
      BY <2>5
    <3>2. ~(i < m)
      BY <2>2, <2>3, <2>6, <3>1 DEF Rising
    <3>3. ~(m < i)
      <4>1. m < i => candles[m].t < candles[i].t
        BY <2>3, <2>6 DEF Rising
      <4>2. QED
        BY <2>2, <2>6, <3>1, <4>1
    <3>4. i = m
      BY <2>3, <2>6, <3>2, <3>3
    <3>5. QED
      BY <3>1, <3>4
  <2>8. \A i \in 2 .. m - 1 : ~Touches(candles, i, side, entry)
    <3> TAKE i \in 2 .. m - 1
    <3>1. i \in 1 .. Len(candles) /\ i < m /\ i > 1
      BY <2>3, <2>6
    <3>2. candles[i].t < candles[m].t
      BY <2>3, <2>6, <3>1 DEF Rising
    <3>3. QED
      BY <2>5, <2>6, <3>1, <3>2
  <2>9. CASE closed - trade.opened > MaxHoldBars * Bar
    <3> DEFINE held == MaxHoldBars * Bar
    <3>1. held \in Nat /\ closed > held + Bar - 1
      BY <2>1, <2>2, <2>9
    <3>2. q < MaxHoldBars => q * Bar + Bar <= held
      BY <2>2, MultipleOrder
    <3>3. q = MaxHoldBars => q * Bar = held
      OBVIOUS
    <3> HIDE DEF held
    <3>4. MaxHoldBars < q
      BY <2>1, <2>2, <3>1, <3>2, <3>3
    <3>5. \A i \in 2 .. MaxHoldBars + 1 : i \in 2 .. m - 1
      BY <2>2, <2>6, <3>4
    <3>6. b.reason = "TIME_EXIT"
      BY <2>a, <2>8, <3>5, WalkTimesOut DEF b
    <3>7. QED
      BY <2>9, <3>6
  <2>10. CASE ~(closed - trade.opened > MaxHoldBars * Bar)
    <3>1. m \in 2 .. MaxHoldBars + 1 /\ m <= Len(candles)
      <4> DEFINE held == MaxHoldBars * Bar
      <4>1. held \in Nat /\ closed <= held + Bar - 1
        BY <2>1, <2>2, <2>10
      <4>2. MaxHoldBars < q => held + Bar <= q * Bar
        BY <2>2, MultipleOrder
      <4> HIDE DEF held
      <4>3. q <= MaxHoldBars
        BY <2>1, <2>2, <4>1, <4>2
      <4>4. QED
        BY <2>2, <2>3, <2>6, <4>3
    <3>2. \/ trade.reason = "TARGET_HIT" /\ AtTarget(side, entry, raw)
          \/ trade.reason = "SL_HIT" /\ AtStop(side, entry, raw)
      BY <2>0, <2>a, <2>10 DEF ExitReason, side, entry
    <3>3. /\ AtTarget(side, entry, raw) => AtTarget(side, entry, Best(candles[m], side))
          /\ AtStop(side, entry, raw) => AtStop(side, entry, Worst(candles[m], side))
      BY <2>a, <2>3, <2>6, <2>7, LevelMonotone
    <3>4. /\ AtTarget(side, entry, raw) =>
               NetPnl(entry, Fill(TargetPrice(side, entry), side), side) <= trade.pnl
          /\ AtStop(side, entry, raw) =>
               NetPnl(entry, Fill(StopPrice(side, entry), side), side) >= trade.pnl
      BY <2>a, PnlOrder
    <3>5. Touches(candles, m, side, entry)
      BY <3>2, <3>3 DEF BarExit, Touches
    <3>6. /\ b.reason = BarExit(candles[m], side, entry)
          /\ b.reason = "TARGET_HIT" => b.pnl = NetPnl(entry, Fill(TargetPrice(side, entry), side), side)
          /\ b.reason = "SL_HIT" => b.pnl = NetPnl(entry, Fill(StopPrice(side, entry), side), side)
      <4>1. Fill(trade.alert, side) = entry
        BY <2>a
      <4>2. LET fill == Fill(trade.alert, side)  walk == Simulated(candles, side, trade.alert) IN
            /\ walk.reason = BarExit(candles[m], side, fill)
            /\ walk.reason = "TARGET_HIT" => walk.pnl = NetPnl(fill, Fill(TargetPrice(side, fill), side), side)
            /\ walk.reason = "SL_HIT" => walk.pnl = NetPnl(fill, Fill(StopPrice(side, fill), side), side)
        BY <2>3, <2>8, <3>1, <3>5, <4>1, WalkEnds
      <4>3. QED
        BY <4>1, <4>2 DEF b
    <3>7. CASE trade.reason = "TARGET_HIT" /\ AtTarget(side, entry, raw)
      <4>1. b.reason = "TARGET_HIT"
        BY <3>3, <3>6, <3>7 DEF BarExit
      <4>2. QED
        BY <3>4, <3>6, <3>7, <4>1
    <3>8. CASE trade.reason = "SL_HIT" /\ AtStop(side, entry, raw)
      <4>1. CASE AtTarget(side, entry, Best(candles[m], side))
        BY <3>3, <3>6, <3>8, <4>1 DEF BarExit, m
      <4>2. CASE ~AtTarget(side, entry, Best(candles[m], side))
        <5>1. b.reason = "SL_HIT"
          BY <3>3, <3>6, <3>8, <4>2 DEF BarExit
        <5>2. QED
          BY <3>4, <3>6, <3>8, <5>1
      <4>3. QED
        BY <4>1, <4>2
    <3>9. QED
      BY <3>2, <3>7, <3>8
  <2>11. QED
    BY <2>9, <2>10
<1>2. QED
  BY <1>1, ReplayInvariance, PTL

-----------------------------------------------------------------------------
(* The replay does not look ahead.                                         *)

\* The signal of a bar is made of the bars up to it.
LEMMA SamePast ==
  ASSUME NEW a \in Seq(Candles), NEW b \in Seq(Candles), Rising(a), Rising(b),
         NEW i \in Nat, 1 <= i, i <= Len(a), i <= Len(b), \A j \in 1 .. i : a[j] = b[j]
  PROVE  BarSignal(a, i) = BarSignal(b, i)
<1>1. /\ DOMAIN a = 1 .. Len(a) /\ Len(a) \in Nat /\ DOMAIN b = 1 .. Len(b) /\ Len(b) \in Nat
      /\ \A j \in 1 .. Len(a) : a[j].t \in Nat
      /\ \A j \in 1 .. Len(b) : b[j].t \in Nat
  BY CandleIs
<1>2. a[i] = b[i]
  OBVIOUS
<1>3. ASSUME NEW t \in Int, t <= a[i].t
      PROVE  AtOrBefore(a, t) = AtOrBefore(b, t)
  <2> DEFINE p == {j \in DOMAIN a : a[j].t <= t}
             q == {j \in DOMAIN b : b[j].t <= t}
  <2>1. \A j \in p : j \in 1 .. i
    <3> SUFFICES ASSUME NEW j \in p, j > i PROVE FALSE
      BY <1>1
    <3>1. a[i].t < a[j].t /\ a[j].t <= t /\ a[j].t \in Nat /\ a[i].t \in Nat
      BY <1>1 DEF Rising
    <3>2. QED
      BY <1>3, <3>1
  <2>2. \A j \in q : j \in 1 .. i
    <3> SUFFICES ASSUME NEW j \in q, j > i PROVE FALSE
      BY <1>1
    <3>1. i \in 1 .. Len(b) /\ j \in 1 .. Len(b) /\ i < j /\ b[j].t <= t
      BY <1>1
    <3> HIDE DEF q
    <3>2. b[i].t < b[j].t
      BY <1>1, <3>1 DEF Rising
    <3>3. b[i].t \in Nat /\ b[j].t \in Nat
      BY <1>1, <3>1
    <3>4. QED
      BY <1>2, <1>3, <3>1, <3>2, <3>3
  <2>3. p = q
    <3>1. \A j \in 1 .. i : j \in p <=> j \in q
      BY <1>1
    <3> HIDE DEF p, q
    <3>2. QED
      BY <2>1, <2>2, <3>1
  <2>4. p # {} => a[Max(p)] = b[Max(q)]
    <3>1. p \in SUBSET (1 .. i)
      BY <2>1
    <3> HIDE DEF p, q
    <3>2. p # {} => Max(p) \in 1 .. i
      BY <3>1, LastIndex
    <3>3. QED
      BY <2>3, <3>2
  <2>5. QED
    BY <2>3, <2>4, Zenon DEF AtOrBefore
<1>4. BarVelocities(a, a[i].t) = BarVelocities(b, b[i].t)
  <2>1. Window1 \in Nat /\ Window5 \in Nat /\ a[i].t \in Nat
    BY <1>1, ReplayAssumption
  <2>2. /\ AtOrBefore(a, a[i].t) = AtOrBefore(b, a[i].t)
        /\ AtOrBefore(a, a[i].t - Window1) = AtOrBefore(b, a[i].t - Window1)
        /\ AtOrBefore(a, a[i].t - Window5) = AtOrBefore(b, a[i].t - Window5)
    BY <1>3, <2>1
  <2>3. QED
    BY <1>2, <2>2, Zenon DEF BarVelocities
<1>5. RegimeWindow(a, i) = RegimeWindow(b, i)
  <2> DEFINE lo == Max({1, i - RegimeBars})
  <2>1. lo \in Nat /\ 1 <= lo
    <3>1. RegimeBars \in Nat
      BY ReplayAssumption
    <3>2. i - RegimeBars \in Int /\ 1 \in Int
      BY <3>1
    <3>3. Max({1, i - RegimeBars}) \in {1, i - RegimeBars} /\ 1 <= Max({1, i - RegimeBars})
      BY <3>2, PairExtremes
    <3>4. QED
      BY <3>2, <3>3
  <2> HIDE DEF lo
  <2>2. /\ \A j \in lo .. i : a[j] \in Candles /\ b[j] \in Candles /\ a[j] = b[j]
        /\ \A j \in 1 .. i - lo + 1 : lo + j - 1 \in lo .. i
    <3>1. \A j \in lo .. i : j \in 1 .. i /\ j \in 1 .. Len(a) /\ j \in 1 .. Len(b)
      BY <1>1, <2>1
    <3>2. \A j \in 1 .. i - lo + 1 : lo + j - 1 \in lo .. i
      BY <2>1
    <3>3. \A j \in 1 .. Len(a) : a[j] \in Candles
      BY CandleIs
    <3>4. \A j \in 1 .. Len(b) : b[j] \in Candles
      BY CandleIs
    <3>5. QED
      BY <3>1, <3>2, <3>3, <3>4
  <2>3. lo \in Int /\ i \in Int
    BY <2>1
  <2> DEFINE s == SubSeq(a, lo, i)
             u == SubSeq(b, lo, i)
             len == IF lo <= i THEN i - lo + 1 ELSE 0
  <2>4. /\ s \in Seq(Candles) /\ Len(s) = len /\ \A j \in 1 .. i - lo + 1 : s[j] = a[lo + j - 1]
        /\ u \in Seq(Candles) /\ Len(u) = len /\ \A j \in 1 .. i - lo + 1 : u[j] = b[lo + j - 1]
    BY <2>2, <2>3, SubSeqProperties
  <2>5. \A j \in 1 .. len : j \in 1 .. i - lo + 1
    BY <2>3
  <2> HIDE DEF s, u, len
  <2>6. \A j \in 1 .. Len(s) : s[j] = u[j]
    BY <2>2, <2>4, <2>5
  <2>7. s = u
    BY <2>4, <2>6, SeqEqual
  <2>8. QED
    BY <2>7 DEF RegimeWindow, lo, s, u
<1>6. QED
  BY <1>2, <1>4, <1>5, Zenon DEF BarSignal

LEMMA SignalTime ==
  ASSUME NEW bars, NEW i
  PROVE  BarSignal(bars, i).t = bars[i].t
BY DEF BarSignal

\* The bars that are over are the first ones, and stay so.
LEMMA OverIs ==
  ASSUME ReplayInv, NEW next \in market, Ticked(next)
  PROVE  \E k \in Nat :
           /\ k <= Len(candles') /\ k <= Len(candles)
           /\ DOMAIN Over(candles, now) = 1 .. k
           /\ \A i \in 1 .. k : Over(candles, now)[i] = candles'[i] /\ candles'[i].t + Bar <= now + 1
           /\ \A i \in 1 .. Len(candles') : candles'[i].t + Bar <= now + 1 => i \in 1 .. k
           /\ Over(candles, now) \in Seq(Candles)
<1> DEFINE n == Len(candles)
           m == Len(candles')
           D == {j \in DOMAIN candles : candles[j].t + Bar <= now + 1}
           k == IF candles[n].t + Bar <= now + 1 THEN n ELSE n - 1
           over == Over(candles, now)
<1>1. /\ n \in Nat \ {0} /\ m \in {n, n + 1}
      /\ DOMAIN candles = 1 .. n /\ DOMAIN candles' = 1 .. m
      /\ \A i \in 1 .. m - 1 : i \in 1 .. n /\ candles'[i] = candles[i] /\ candles'[i].t + Bar <= now'
      /\ candles'[m].t = Bucket(now') * Bar
      /\ candles[n].t + Bar <= now' => m = n + 1
  BY BarStep DEF ReplayInv
<1>2. /\ Bar \in Nat \ {0} /\ now \in Nat /\ now' \in Nat /\ now < now'
      /\ Bucket(now') * Bar \in Nat /\ now' <= Bucket(now') * Bar + Bar - 1
      /\ candles[n].t = Bucket(now) * Bar /\ Bucket(now) * Bar <= now
  BY TriggerAssumption, BucketBounds DEF ReplayInv, Typed, Ticked, BarInv
<1>3. /\ \A i \in 1 .. n : candles[i].t \in Nat /\ candles[i] \in Candles /\ Aligned(candles[i])
      /\ Rising(candles)
  BY <1>1, CandleIs DEF ReplayInv, Typed, BarInv
<1>4. over = [i \in D |-> candles[i]]
  BY DEF Over
<1> HIDE DEF n, m, over
<1>5. \A i \in 1 .. n - 1 : i \in 1 .. n /\ candles[i].t + Bar <= now + 1
  <2> TAKE i \in 1 .. n - 1
  <2>1. i \in 1 .. n /\ n \in 1 .. n /\ i < n
    BY <1>1
  <2>2. candles[i].t < candles[n].t
    BY <1>1, <1>3, <2>1 DEF Rising
  <2>3. candles[i].t + Bar <= candles[n].t /\ candles[i].t \in Nat /\ candles[n].t \in Nat
    BY <1>3, <2>1, <2>2, AlignedOrder
  <2>4. QED
    BY <1>2, <2>1, <2>3
<1>6. D = 1 .. k /\ k \in Nat /\ k <= n /\ (k = n => candles[n].t + Bar <= now + 1)
  BY <1>1, <1>5
<1>7. D \subseteq 1 .. n
  BY <1>1
<1>8. \A i \in D : candles[i].t + Bar <= now + 1
  OBVIOUS
<1> HIDE DEF k, D
<1>9. \A i \in 1 .. k : i \in 1 .. m - 1 /\ candles'[i] = candles[i] /\ candles'[i].t + Bar <= now + 1
  <2> TAKE i \in 1 .. k
  <2>1. i \in 1 .. m - 1
    <3>1. CASE k = n
      <4>1. candles[n].t + Bar <= now'
        BY <1>1, <1>2, <1>3, <1>6, <3>1
      <4>2. QED
        BY <1>1, <1>6, <3>1, <4>1
    <3>2. CASE k # n
      BY <1>1, <1>6, <3>2
    <3>3. QED
      BY <3>1, <3>2
  <2>2. QED
    BY <1>1, <1>6, <1>8, <2>1
<1>10. \A i \in 1 .. m : candles'[i].t + Bar <= now + 1 => i \in 1 .. k
  <2> SUFFICES ASSUME NEW i \in 1 .. m, candles'[i].t + Bar <= now + 1 PROVE i \in D
    BY <1>6
  <2>1. CASE i = m
    BY <1>1, <1>2, <2>1
  <2>2. CASE i # m
    <3>1. i \in 1 .. m - 1
      BY <1>1, <2>2
    <3>2. QED
      BY <1>1, <3>1 DEF D
  <2>3. QED
    BY <2>1, <2>2
<1>11. k <= m
  BY <1>1, <1>6
<1>12. over \in Seq(Candles) /\ DOMAIN over = 1 .. k /\ \A i \in 1 .. k : over[i] = candles[i]
  <2>1. over = [i \in 1 .. k |-> candles[i]]
    BY <1>4, <1>6, Zenon
  <2>2. \A i \in 1 .. k : candles[i] \in Candles
    BY <1>3, <1>6, <1>7
  <2>3. QED
    BY <1>6, <2>1, <2>2
<1>13. QED
  BY <1>6, <1>9, <1>10, <1>11, <1>12 DEF n, m, over

\* A replay of the complete bars is the complete part of every later replay: on the
\* same bars, the same signals.
THEOREM ReplayNeverLooksAhead == Spec => NoLookAhead
<1> DEFINE Same == Signals(Over(candles, now)) = {s \in Signals(candles') : s.t + Bar <= now + 1}
<1>1. ASSUME ReplayInv, ReplayInv', [Next]_vars PROVE [Same]_vars
  <2> SUFFICES ASSUME OnTick PROVE Same
    BY <1>1 DEF Next
  <2>1. PICK next \in market : Ticked(next)
    BY <1>1, TickIs DEF ReplayInv
  <2> DEFINE over == Over(candles, now)
             m == Len(candles')
  <2>2. PICK k \in Nat :
           /\ k <= m /\ DOMAIN over = 1 .. k
           /\ \A i \in 1 .. k : over[i] = candles'[i] /\ candles'[i].t + Bar <= now + 1
           /\ \A i \in 1 .. m : candles'[i].t + Bar <= now + 1 => i \in 1 .. k
           /\ over \in Seq(Candles)
    BY <1>1, <2>1, OverIs
  <2>3. candles' \in Seq(Candles) /\ Rising(candles') /\ DOMAIN candles' = 1 .. m /\ m \in Nat
    <3>1. candles' \in Seq(Candles) /\ Rising(candles')
      BY <1>1 DEF ReplayInv, Typed, BarInv, Rising
    <3>2. QED
      BY <3>1, CandleIs
  <2> HIDE DEF over, m
  <2>4. \A i \in 1 .. k : i \in 1 .. m
    BY <2>2, <2>3
  <2>5. Rising(over)
    BY <2>2, <2>3, <2>4 DEF Rising
  <2>6. Len(over) = k
    BY <2>2
  <2>7. \A i \in 1 .. k : BarSignal(over, i) = BarSignal(candles', i)
    <3> TAKE i \in 1 .. k
    <3>1. /\ i \in Nat /\ 1 <= i /\ i <= Len(over) /\ i <= Len(candles')
          /\ \A j \in 1 .. i : over[j] = candles'[j]
      BY <2>2, <2>3, <2>6 DEF m
    <3>2. QED
      BY <2>2, <2>3, <2>5, <3>1, SamePast
  <2>8. \A i \in 1 .. m : BarSignal(candles', i).t = candles'[i].t
    BY SignalTime
  <2>9. {BarSignal(over, i) : i \in DOMAIN over}
          = {s \in {BarSignal(candles', i) : i \in DOMAIN candles'} : s.t + Bar <= now + 1}
    <3>1. ASSUME NEW i \in 1 .. k
          PROVE  /\ BarSignal(over, i) \in {BarSignal(candles', j) : j \in DOMAIN candles'}
                 /\ BarSignal(over, i).t + Bar <= now + 1
      BY <2>2, <2>3, <2>4, <2>7, <2>8, Zenon
    <3>2. ASSUME NEW i \in 1 .. m, BarSignal(candles', i).t + Bar <= now + 1
          PROVE  BarSignal(candles', i) \in {BarSignal(over, j) : j \in DOMAIN over}
      <4>1. i \in 1 .. k
        BY <2>2, <2>8, <3>2, Zenon
      <4>2. QED
        BY <2>2, <2>7, <4>1, Zenon
    <3>3. QED
      BY <2>2, <2>3, <3>1, <3>2, Zenon
  <2>10. QED
    BY <2>9, Zenon DEF Signals, over
<1>2. QED
  <2>1. Spec => []ReplayInv /\ [][Next]_vars
    BY ReplayInvariance, PTL DEF Spec
  <2>2. ReplayInv /\ ReplayInv' /\ [Next]_vars => [Same]_vars
    BY <1>1
  <2>3. QED
    BY <2>1, <2>2, PTL DEF NoLookAhead

-----------------------------------------------------------------------------
(* The levels and the thresholds, for any prices.                          *)

\* The levels of a session's pivot fan are in order.
THEOREM PivotsInOrder ==
  ASSUME NEW high \in Int, NEW low \in Int, NEW close \in Int, low <= close, close <= high
  PROVE  LET fan == PivotFan(high, low, close) IN
         fan.s2 <= fan.s1 /\ fan.s1 <= fan.pivot /\ fan.pivot <= fan.r1 /\ fan.r1 <= fan.r2
BY DEF PivotFan, Thirds

\* Rounding goes to a multiple of the base that is at most half of it away.
LEMMA NearestIs ==
  ASSUME NEW x \in Int, NEW base \in Nat \ {0}
  PROVE  \E k \in Int : /\ NearestRound(x, base) = k * base /\ k * base \in Int
                        /\ 2 * (k * base) <= 2 * x + base /\ 2 * x <= 2 * (k * base) + base
<1> DEFINE k == x \div base
           r == x % base
           p == k * base
<1>1. k \in Int /\ r \in Nat /\ r < base /\ p \in Int /\ x = p + r
  BY SMTT(30)
<1>2. (k + 1) * base = p + base /\ k + 1 \in Int
  BY <1>1
<1>3. NearestRound(x, base) = IF 2 * r < base \/ (2 * r = base /\ k % 2 = 0) THEN p ELSE (k + 1) * base
  BY DEF NearestRound
<1>4. CASE 2 * r < base \/ (2 * r = base /\ k % 2 = 0)
  <2>1. NearestRound(x, base) = p /\ 2 * r <= base
    BY <1>1, <1>3, <1>4
  <2>2. 2 * p <= 2 * x + base /\ 2 * x <= 2 * p + base
    <3> HIDE DEF k, r, p
    <3>1. QED
      BY <1>1, <2>1
  <2>3. QED
    BY <1>1, <2>1, <2>2
<1>5. CASE ~(2 * r < base \/ (2 * r = base /\ k % 2 = 0))
  <2>1. NearestRound(x, base) = (k + 1) * base /\ 2 * r >= base
    BY <1>1, <1>3, <1>5
  <2> DEFINE q == (k + 1) * base
  <2>2. q \in Int /\ 2 * q <= 2 * x + base /\ 2 * x <= 2 * q + base
    <3>1. q = p + base
      BY <1>2
    <3> HIDE DEF k, r, p, q
    <3>2. QED
      BY <1>1, <2>1, <3>1
  <2>3. QED
    BY <1>2, <2>1, <2>2
<1>6. QED
  BY <1>4, <1>5

\* The psychological levels lie on either side of the price, at most a base and a
\* half away (_round_level of compute_pivot_sr).
THEOREM PsychLevelsBracket ==
  ASSUME NEW price \in Int
  PROVE  /\ PsychSupport(price) < price /\ price < PsychResistance(price)
         /\ 2 * (price - PsychSupport(price)) <= 3 * Thirds(RoundBase)
         /\ 2 * (PsychResistance(price) - price) <= 3 * Thirds(RoundBase)
<1> DEFINE base == Thirds(RoundBase)
           near == NearestRound(price, base)
<1>1. base \in Nat \ {0}
  BY LevelsAssumption DEF Thirds
<1>2. near \in Int /\ 2 * near <= 2 * price + base /\ 2 * price <= 2 * near + base
  <2> HIDE DEF base
  <2>1. QED
    BY <1>1, NearestIs
<1>3. /\ PsychResistance(price) = IF near <= price THEN near + base ELSE near
      /\ PsychSupport(price) = IF near >= price THEN near - base ELSE near
  BY DEF PsychResistance, PsychSupport
<1> HIDE DEF base, near
<1>4. QED
  BY <1>1, <1>2, <1>3 DEF base

LEMMA FarMultiple ==
  ASSUME NEW a \in Int, NEW b \in Int, NEW base \in Nat \ {0}, a + 2 <= b
  PROVE  a * base + 2 * base <= b * base /\ a * base \in Int /\ b * base \in Int
<1>1. PICK d \in Nat : b = a + 2 + d
  <2>1. b - a - 2 \in Nat /\ b = a + 2 + (b - a - 2)
    OBVIOUS
  <2>2. QED
    BY <2>1
<1>2. b * base = a * base + 2 * base + d * base /\ d * base >= 0 /\ a * base \in Int
  BY <1>1
<1>3. QED
  BY <1>2

\* "All round levels within tolerance": the three candidates of round_levels_in_range
\* are enough while the tolerance is below one and a half bases (12 and 100).
THEOREM RoundLevelsComplete ==
  ASSUME NEW spot \in Int, 2 * Tolerance < 3 * RoundBase
  PROVE  RoundLevels(spot) = {level \in {Thirds(k * RoundBase) : k \in Int} : AtLevel(spot, level)}
<1> DEFINE center == NearestRound(spot, RoundBase)
           Near == {Thirds(center + d * RoundBase) : d \in -1 .. 1}
           All == {Thirds(k * RoundBase) : k \in Int}
<1>1. RoundBase \in Nat \ {0} /\ Tolerance \in Nat
  BY LevelsAssumption
<1>2. PICK c \in Int : /\ center = c * RoundBase /\ c * RoundBase \in Int
                       /\ 2 * (c * RoundBase) <= 2 * spot + RoundBase
                       /\ 2 * spot <= 2 * (c * RoundBase) + RoundBase
  BY <1>1, NearestIs
<1>3. RoundLevels(spot) = {level \in Near : AtLevel(spot, level)}
  BY DEF RoundLevels
<1> HIDE DEF center
<1>4. ASSUME NEW d \in -1 .. 1 PROVE Thirds(center + d * RoundBase) \in All
  <2>1. center + d * RoundBase = (c + d) * RoundBase /\ c + d \in Int
    BY <1>1, <1>2
  <2>2. QED
    BY <2>1
<1>5. ASSUME NEW k \in Int, AtLevel(spot, Thirds(k * RoundBase)) PROVE Thirds(k * RoundBase) \in Near
  <2> DEFINE p == c * RoundBase
             q == k * RoundBase
  <2>1. p \in Int /\ q \in Int /\ 2 * p <= 2 * spot + RoundBase /\ 2 * spot <= 2 * p + RoundBase
    BY <1>1, <1>2
  <2>2. q - spot <= Tolerance /\ spot - q <= Tolerance
    <3>1. Distance(Thirds(spot), Thirds(q)) <= Thirds(Tolerance)
      BY <1>5 DEF AtLevel
    <3> HIDE DEF q, p
    <3>2. QED
      BY <1>1, <2>1, <3>1 DEF Distance, Thirds
  <2>3. ~(c + 2 <= k)
    <3>1. c + 2 <= k => p + 2 * RoundBase <= q
      BY <1>1, FarMultiple
    <3> HIDE DEF p, q
    <3>2. QED
      BY <1>1, <2>1, <2>2, <3>1
  <2>4. ~(k + 2 <= c)
    <3>1. k + 2 <= c => q + 2 * RoundBase <= p
      BY <1>1, FarMultiple
    <3> HIDE DEF p, q
    <3>2. QED
      BY <1>1, <2>1, <2>2, <3>1
  <2>5. k - c \in -1 .. 1
    BY <2>3, <2>4
  <2>6. (k - c) * RoundBase = q - p
    BY <1>1, Distributes
  <2>7. center + (k - c) * RoundBase = q
    BY <1>2, <2>1, <2>6
  <2>8. QED
    BY <2>5, <2>7
<1>6. QED
  BY <1>3, <1>4, <1>5

\* The calmer the regime, the fewer triggers (scale_thresholds_by_regime).
THEOREM CalmerTriggersLess ==
  ASSUME NEW v \in [call1 : Int, put1 : Int, call5 : Int, put5 : Int], NEW spot, NEW extra
  PROVE  /\ Triggered(v, spot, "CALM", extra) \subseteq Triggered(v, spot, "ACTIVE", extra)
         /\ Triggered(v, spot, "ACTIVE", extra) \subseteq Triggered(v, spot, "HIGH_VOL", extra)
<1>1. v.call1 \in Int /\ v.put1 \in Int /\ v.call5 \in Int /\ v.put5 \in Int
  OBVIOUS
<1>2. Scaling("CALM") = 13 /\ Scaling("ACTIVE") = 10 /\ Scaling("HIGH_VOL") = 8
  BY DEF Scaling
<1>3. QED
  BY <1>1, <1>2, ScalingOrders

\* The first of a set of strikes and the last: by most OI, the lower strike first.
LEMMA FirstAndLast ==
  ASSUME NEW T \in SUBSET Int, IsFiniteSet(T), T # {}, NEW oi, \A s \in T : oi[s] \in Int
  PROVE  /\ \E first \in T : \A o \in T : ~(oi[o] > oi[first] \/ (oi[o] = oi[first] /\ o < first))
         /\ \E last \in T : \A o \in T \ {last} : oi[o] > oi[last] \/ (oi[o] = oi[last] /\ o < last)
<1> DEFINE Weights == {oi[s] : s \in T}
<1>1. Weights \in SUBSET Int /\ Weights # {}
  OBVIOUS
<1> DEFINE W == [s \in T |-> oi[s]]
<1>2. IsFiniteSet(Weights)
  <2>1. W \in Surjection(T, Weights)
    BY DEF Surjection
  <2>2. QED
    BY <2>1, FS_Surjection
<1>3. \E first \in T : \A o \in T : ~(oi[o] > oi[first] \/ (oi[o] = oi[first] /\ o < first))
  <2>1. PICK w \in Weights : \A y \in Weights : w >= y
    <3> HIDE DEF Weights
    <3>1. QED
      BY <1>1, <1>2, GreatestExists
  <2> DEFINE H == {s \in T : oi[s] = w}
  <2>2. H \in SUBSET Int /\ H # {} /\ IsFiniteSet(H)
    BY FS_Subset
  <2>3. PICK first \in H : \A y \in H : first <= y
    <3> HIDE DEF H
    <3>1. QED
      BY <2>2, LeastExists
  <2>4. oi[first] = w /\ first \in T /\ \A o \in T : w >= oi[o]
    BY <2>1
  <2>5. \A o \in T : oi[o] = w => first <= o
    BY <2>3
  <2>6. \A o \in T : ~(oi[o] > oi[first] \/ (oi[o] = oi[first] /\ o < first))
    BY <2>4, <2>5
  <2>7. QED
    BY <2>4, <2>6
<1>4. \E last \in T : \A o \in T \ {last} : oi[o] > oi[last] \/ (oi[o] = oi[last] /\ o < last)
  <2>1. PICK w \in Weights : \A y \in Weights : w <= y
    <3> HIDE DEF Weights
    <3>1. QED
      BY <1>1, <1>2, LeastExists
  <2> DEFINE L == {s \in T : oi[s] = w}
  <2>2. L \in SUBSET Int /\ L # {} /\ IsFiniteSet(L)
    BY FS_Subset
  <2>3. PICK last \in L : \A y \in L : last >= y
    <3> HIDE DEF L
    <3>1. QED
      BY <2>2, GreatestExists
  <2>4. oi[last] = w /\ last \in T /\ \A o \in T : w <= oi[o]
    BY <2>1
  <2>5. \A o \in T : oi[o] = w => last >= o
    BY <2>3
  <2>6. \A o \in T \ {last} : oi[o] > oi[last] \/ (oi[o] = oi[last] /\ o < last)
    BY <2>4, <2>5
  <2>7. QED
    BY <2>4, <2>6
<1>5. QED
  BY <1>3, <1>4

\* A side has at most OI_WALLS_PER_SIDE walls, and none only if no strike of it
\* carries OI: the heaviest is always a wall (_top_walls).
THEOREM FewWalls ==
  ASSUME NEW side \in SUBSET Int, IsFiniteSet(side), NEW oi, \A s \in side : oi[s] \in Int
  PROVE  /\ Cardinality(TopWalls(oi, side)) <= WallsPerSide
         /\ (WallsPerSide > 0 /\ \E s \in side : oi[s] > 0)
              => \E s \in TopWalls(oi, side) : \A o \in side : oi[s] >= oi[o]
<1> DEFINE strong == {s \in side : oi[s] > 0 /\ \A o \in side : 2 * oi[s] >= oi[o]}
           Ahead(s) == {o \in strong : oi[o] > oi[s] \/ (oi[o] = oi[s] /\ o < s)}
           walls == TopWalls(oi, side)
<1>1. walls = {s \in strong : Cardinality(Ahead(s)) < WallsPerSide}
  BY DEF TopWalls
<1>2. IsFiniteSet(strong) /\ strong \in SUBSET Int /\ strong \subseteq side
  BY FS_Subset
<1>3. IsFiniteSet(walls) /\ walls \subseteq strong
  BY <1>1, <1>2, FS_Subset
<1>4. WallsPerSide \in Nat
  BY LevelsAssumption
<1>5. Cardinality(walls) <= WallsPerSide
  <2>1. CASE walls = {}
    BY <1>4, <2>1, FS_EmptySet
  <2>2. CASE walls # {}
    <3>1. walls \in SUBSET Int /\ \A s \in walls : oi[s] \in Int
      BY <1>2, <1>3
    <3>2. PICK z \in walls : \A o \in walls \ {z} : oi[o] > oi[z] \/ (oi[o] = oi[z] /\ o < z)
      <4> HIDE DEF walls
      <4>1. QED
        BY <1>3, <2>2, <3>1, FirstAndLast
    <3>3. walls \ {z} \subseteq Ahead(z)
      BY <1>3, <3>2
    <3>4. IsFiniteSet(Ahead(z))
      BY <1>2, FS_Subset
    <3>5. Cardinality(walls \ {z}) <= Cardinality(Ahead(z))
      BY <3>3, <3>4, FS_Subset
    <3>6. Cardinality(walls \ {z}) = Cardinality(walls) - 1
      BY <1>3, FS_RemoveElement
    <3>7. Cardinality(Ahead(z)) < WallsPerSide
      BY <1>1
    <3>8. Cardinality(walls) \in Nat /\ Cardinality(Ahead(z)) \in Nat
      BY <1>3, <3>4, FS_CardinalityType
    <3> HIDE DEF walls, Ahead
    <3>9. QED
      BY <1>4, <3>5, <3>6, <3>7, <3>8
  <2>3. QED
    BY <2>1, <2>2
<1>6. ASSUME WallsPerSide > 0, NEW p \in side, oi[p] > 0
      PROVE  \E s \in walls : \A o \in side : oi[s] >= oi[o]
  <2>1. PICK s \in side : \A o \in side : ~(oi[o] > oi[s] \/ (oi[o] = oi[s] /\ o < s))
    BY FirstAndLast
  <2>2. \A o \in side : oi[s] >= oi[o]
    BY <2>1
  <2>3. s \in strong
    BY <1>6, <2>2
  <2>4. Ahead(s) = {}
    BY <1>2, <2>1
  <2>5. Cardinality(Ahead(s)) = 0
    BY <2>4, FS_EmptySet
  <2>6. s \in walls
    BY <1>1, <1>6, <2>3, <2>5
  <2>7. QED
    BY <2>2, <2>6
<1>7. QED
  BY <1>5, <1>6
=============================================================================
