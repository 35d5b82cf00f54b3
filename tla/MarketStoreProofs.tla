--------------------------- MODULE MarketStoreProofs ---------------------------
(* Theorems about MarketStore, for any chains, threads, writers and bounds. *)
EXTENDS MarketStore, SetLemmas, SequenceTheorems

-----------------------------------------------------------------------------
(* The operators.                                                          *)

\* The active expiry is one that is listed, and never moves back.
LEMMA ActiveListed ==
  ASSUME NEW today \in Int
  PROVE  ActiveExpiry(today) \in Expiries /\ ActiveExpiry(today) >= 1
<1> DEFINE ahead == {e \in Expiries : e >= today}
<1>1. Expiries \in SUBSET Int /\ IsFiniteSet(Expiries) /\ Expiries # {} /\ \A e \in Expiries : e >= 1
  BY StoreAssumption DEF StoreAssumption
<1>2. Max(Expiries) \in Expiries
  BY <1>1, MaxProperties
<1>3. ahead \in SUBSET Int /\ IsFiniteSet(ahead)
  BY <1>1, FS_Subset
<1>4. ahead # {} => Min(ahead) \in ahead
  BY <1>3, MinProperties
<1>5. QED
  BY <1>1, <1>2, <1>4 DEF ActiveExpiry

LEMMA ActiveAdvances ==
  ASSUME NEW today \in Int, NEW later \in Int, today <= later
  PROVE  ActiveExpiry(today) <= ActiveExpiry(later)
<1> DEFINE ahead(d) == {e \in Expiries : e >= d}
<1>1. Expiries \in SUBSET Int /\ IsFiniteSet(Expiries) /\ Expiries # {}
  BY StoreAssumption DEF StoreAssumption
<1>2. ActiveExpiry(today) \in Expiries /\ ActiveExpiry(later) \in Expiries
  BY ActiveListed
<1>3. CASE ahead(later) = {}
  <2>1. ActiveExpiry(later) = Max(Expiries)
    BY <1>3 DEF ActiveExpiry
  <2>2. QED
    BY <1>1, <1>2, <2>1, MaxProperties
<1>4. CASE ahead(later) # {}
  <2>1. ahead(today) \in SUBSET Int /\ IsFiniteSet(ahead(today))
        /\ ahead(later) \in SUBSET Int /\ IsFiniteSet(ahead(later))
    BY <1>1, FS_Subset
  <2>2. \A e \in ahead(later) : e \in ahead(today)
    BY <1>1
  <2>3. ActiveExpiry(today) = Min(ahead(today)) /\ ActiveExpiry(later) = Min(ahead(later))
    BY <1>4, <2>2 DEF ActiveExpiry
  <2>4. Min(ahead(later)) \in ahead(later)
    BY <1>4, <2>1, MinProperties
  <2>5. \A e \in ahead(today) : Min(ahead(today)) <= e
    BY <1>4, <2>1, <2>2, MinProperties
  <2>6. QED
    BY <2>2, <2>3, <2>4, <2>5
<1>5. QED
  BY <1>3, <1>4

LEMMA ChainTyped ==
  ASSUME NEW e \in Expiries \cup {0}
  PROVE  Listed(e) \subseteq Strikes /\ (e # 0 => Chain[e] \subseteq Strikes)
BY StoreAssumption DEF StoreAssumption, Listed, Strikes, Expiries

\* A window after LTRIM: no longer than it may be, of samples that were in it, and empty
\* only when it was.
LEMMA TrimmedWindow ==
  ASSUME NEW q \in Seq(Expiries)
  PROVE  LET r == Trimmed(q) IN
           /\ r \in Seq(Expiries) /\ Len(r) <= Window /\ (r = <<>> <=> q = <<>>)
           /\ \A i \in DOMAIN r : \E j \in DOMAIN q : r[i] = q[j]
<1> DEFINE n == Len(q)
           m == Max({1, n - Window + 1})
           r == SubSeq(q, m, n)
<1>1. n \in Nat /\ Window \in Nat /\ Window >= 1
  BY StoreAssumption DEF StoreAssumption
<1>2. m = IF 1 >= n - Window + 1 THEN 1 ELSE n - Window + 1
  BY <1>1, MaxOfTwo
<1>3. m \in Int /\ m >= 1 /\ m <= n + 1 /\ n - m + 1 <= Window /\ (n - m + 1 = 0 <=> n = 0)
  BY <1>1, <1>2
<1>4. \A i \in m .. n : q[i] \in Expiries
  BY <1>1, <1>3
<1> HIDE DEF n, m
<1>5. r \in Seq(Expiries) /\ Len(r) = n - m + 1 /\ \A i \in 1 .. n - m + 1 : r[i] = q[m + i - 1]
  BY <1>1, <1>3, <1>4, SubSeqProperties
<1> HIDE DEF r
<1>6. Len(r) <= Window /\ (r = <<>> <=> q = <<>>)
  <2>1. (r = <<>> <=> Len(r) = 0) /\ (q = <<>> <=> n = 0)
    BY <1>5 DEF n
  <2>2. QED
    BY <1>1, <1>3, <1>5, <2>1
<1>7. \A i \in DOMAIN r : \E j \in DOMAIN q : r[i] = q[j]
  <2> TAKE i \in DOMAIN r
  <2>1. i \in 1 .. n - m + 1 /\ m + i - 1 \in 1 .. n
    BY <1>1, <1>3, <1>5
  <2>2. r[i] = q[m + i - 1]
    BY <1>5, <2>1
  <2>3. QED
    BY <2>1, <2>2 DEF n
<1>8. Trimmed(q) = r
  BY DEF Trimmed, n, m, r
<1>9. QED
  BY <1>5, <1>6, <1>7, <1>8

-----------------------------------------------------------------------------
(* Type correctness.                                                       *)

\* A push in progress has a strike.
TypeInv == TypeOK /\ \A p \in Pushers : push[p].at # "idle" => push[p].strike \in Strikes

LEMMA DayTyped ==
  ASSUME phase \in Nat
  PROVE  Day \in Nat /\ Active \in Expiries /\ Active >= 1
<1>1. phase \div 3 \in Nat
  OBVIOUS
<1>2. QED
  BY <1>1, ActiveListed DEF Day, Active

LEMMA InitTyped == Init => TypeInv
<1> SUFFICES ASSUME Init PROVE TypeInv
  OBVIOUS
<1> USE StoreAssumption DEF StoreAssumption, Init, Phases, Ttls
<1>1. <<>> \in Seq(Expiries)
  OBVIOUS
<1>2. window \in [Strikes -> Seq(Expiries)]
  BY <1>1
<1>3. push \in [Pushers -> [at : {"idle", "called", "push", "trim", "expire"}, strike : Strikes \cup {0}, empty : BOOLEAN]]
      /\ \A p \in Pushers : push[p].at = "idle"
  BY DEF Resting
<1>4. pipeline.at = "down" /\ pipeline \in [at : {"down", "fetch", "reset", "expiry", "strikes", "running"},
        expiry : Expiries \cup {0}, left : SUBSET Strikes]
  BY DEF Halted
<1>5. write \in [Writers -> [at : {"idle", "set", "expire"}, pivots : Phases]]
  BY DEF Unwritten
<1>6. phase \in 0 .. MaxPhase /\ faults \in 0 .. MaxFaults
  OBVIOUS
<1>7. QED
  BY <1>2, <1>3, <1>4, <1>5, <1>6 DEF TypeInv, TypeOK

LEMMA SyncTyped ==
  ASSUME TypeInv, StartPipeline \/ Fetch \/ Reset \/ SetExpiry \/ SetStrikes \/ SyncFails
  PROVE  TypeInv'
<1> USE DEF TypeInv, TypeOK, windowVars, levelVars, marketVars, clockVars, cutVars
<1>1. Active \in Expiries
  BY StoreAssumption, DayTyped DEF StoreAssumption, Phases
<1>2. CASE StartPipeline
  BY <1>2 DEF StartPipeline, Halted
<1>3. CASE Fetch
  <2>1. PICK e \in {0, Active} :
          IF expiry \notin {NoKey, e} THEN SyncTo("reset", e, Listed(e)) ELSE SyncTo("expiry", e, {})
    BY <1>3 DEF Fetch
  <2>2. pipeline'.at \in {"reset", "expiry"} /\ pipeline'.expiry = e /\ pipeline'.left \subseteq Strikes
        /\ pipeline' = [at |-> pipeline'.at, expiry |-> pipeline'.expiry, left |-> pipeline'.left]
    BY <1>1, <2>1, ChainTyped DEF SyncTo
  <2>3. pipeline' \in [at : {"down", "fetch", "reset", "expiry", "strikes", "running"},
                       expiry : Expiries \cup {0}, left : SUBSET Strikes]
    BY <1>1, <2>2
  <2>4. QED
    BY <1>3, <2>3 DEF Fetch
<1>4. CASE Reset
  <2>1. CASE pipeline.left = {}
    BY <1>4, <2>1 DEF Reset, SyncTo
  <2>2. CASE pipeline.left # {}
    <3>1. PICK s \in pipeline.left : SyncTo("reset", pipeline.expiry, pipeline.left \ {s}) /\ Drop(s)
      BY <1>4, <2>2 DEF Reset
    <3>2. s \in Strikes
      BY <3>1
    <3>3. window' \in [Strikes -> Seq(Expiries)] /\ windowTtl' \in [Strikes -> Ttls]
          /\ cut' \subseteq Strikes /\ untrimmed' \subseteq Strikes
      BY <3>1, <3>2, StoreAssumption DEF Drop, StoreAssumption, Ttls
    <3>4. QED
      BY <1>4, <3>1, <3>3 DEF Reset, SyncTo
  <2>3. QED
    BY <2>1, <2>2
<1>5. CASE SetExpiry
  BY <1>5, ChainTyped DEF SetExpiry, SyncTo
<1>6. CASE SetStrikes
  BY <1>6, ChainTyped DEF SetStrikes, Halted
<1>7. CASE SyncFails
  BY <1>7, StoreAssumption DEF SyncFails, Fault, Halted, StoreAssumption
<1>8. QED
  BY <1>2, <1>3, <1>4, <1>5, <1>6, <1>7

LEMMA PushTyped ==
  ASSUME TypeInv, NEW p \in Pushers,
         OiTick(p) \/ CheckLength(p) \/ (p = "loop" /\ BackfillOi) \/ PushSample(p)
           \/ TrimWindow(p) \/ ExpireWindow(p) \/ PushFails(p)
  PROVE  TypeInv'
<1> USE DEF TypeInv, TypeOK, windowVars, levelVars, marketVars, clockVars, cutVars
<1>1. CASE OiTick(p)
  BY <1>1 DEF OiTick, Subscribed
<1>2. CASE CheckLength(p)
  BY <1>2 DEF CheckLength, Counted
<1>3. CASE p = "loop" /\ BackfillOi
  BY <1>3 DEF BackfillOi, Counted, Sampled
<1>4. CASE PushSample(p)
  <2> DEFINE s == push[p].strike
  <2>1. s \in Strikes /\ window[s] \in Seq(Expiries)
    BY <1>4 DEF PushSample
  <2>2. Active \in Expiries
    BY StoreAssumption, DayTyped DEF StoreAssumption, Phases
  <2>3. window' = [window EXCEPT ![s] = Append(window[s], Active)]
    BY <1>4 DEF PushSample, Pushed
  <2>4. window' \in [Strikes -> Seq(Expiries)]
    BY <2>1, <2>2, <2>3
  <2>5. push' \in [Pushers -> [at : {"idle", "called", "push", "trim", "expire"}, strike : Strikes \cup {0}, empty : BOOLEAN]]
        /\ \A q \in Pushers : push'[q].at # "idle" => push'[q].strike \in Strikes
    BY <1>4 DEF PushSample
  <2>6. QED
    BY <1>4, <2>4, <2>5 DEF PushSample
<1>5. CASE TrimWindow(p)
  <2> DEFINE s == push[p].strike
  <2>1. s \in Strikes /\ window[s] \in Seq(Expiries)
    BY <1>5 DEF TrimWindow
  <2>2. Trimmed(window[s]) \in Seq(Expiries)
    BY <2>1, TrimmedWindow
  <2>3. window' = [window EXCEPT ![s] = Trimmed(window[s])] /\ untrimmed' = untrimmed \ {s}
    BY <1>5 DEF TrimWindow
  <2>4. window' \in [Strikes -> Seq(Expiries)]
    BY <2>1, <2>2, <2>3
  <2>5. push' \in [Pushers -> [at : {"idle", "called", "push", "trim", "expire"}, strike : Strikes \cup {0}, empty : BOOLEAN]]
        /\ \A q \in Pushers : push'[q].at # "idle" => push'[q].strike \in Strikes
    <3>1. push' = [push EXCEPT ![p] = IF push[p].empty THEN [push[p] EXCEPT !.at = "expire"] ELSE Resting]
      BY <1>5 DEF TrimWindow
    <3>2. [push[p] EXCEPT !.at = "expire"] \in
            [at : {"idle", "called", "push", "trim", "expire"}, strike : Strikes \cup {0}, empty : BOOLEAN]
          /\ [push[p] EXCEPT !.at = "expire"].strike = s
      OBVIOUS
    <3>3. Resting \in [at : {"idle", "called", "push", "trim", "expire"}, strike : Strikes \cup {0}, empty : BOOLEAN]
          /\ Resting.at = "idle"
      BY DEF Resting
    <3>4. QED
      BY <2>1, <3>1, <3>2, <3>3
  <2>6. QED
    BY <1>5, <2>3, <2>4, <2>5 DEF TrimWindow
<1>6. CASE ExpireWindow(p)
  BY <1>6 DEF ExpireWindow, Resting, Ttls
<1>7. CASE PushFails(p)
  BY <1>7, StoreAssumption DEF PushFails, Fault, Resting, CutOff, Trimming, Expiring, StoreAssumption
<1>8. QED
  BY <1>1, <1>2, <1>3, <1>4, <1>6, <1>7, <1>5

LEMMA LevelsTyped ==
  ASSUME TypeInv, NEW w \in Writers,
         Run(w) \/ Refresh(w) \/ SetLevels(w) \/ ExpireLevels(w) \/ WriteFails(w)
  PROVE  TypeInv'
<1> USE StoreAssumption DEF StoreAssumption, TypeInv, TypeOK, windowVars, levelVars, marketVars, clockVars, cutVars
<1>1. CASE Run(w)
  BY <1>1 DEF Run, Compute
<1>2. CASE Refresh(w)
  <2>1. levels # NoKey => levels.pivots \in Phases
    OBVIOUS
  <2>2. PICK pivots \in Phases : Compute(w, pivots)
    BY <1>2, <2>1 DEF Refresh
  <2>3. faults' \in 0 .. MaxFaults
    BY <1>2 DEF Refresh, Fault
  <2>4. QED
    BY <1>2, <2>2, <2>3 DEF Refresh, Compute
<1>3. CASE SetLevels(w)
  BY <1>3 DEF SetLevels, Unwritten, Ttls, Phases
<1>4. CASE ExpireLevels(w)
  <2>1. levels # NoKey => [levels EXCEPT !.ttl = phase] \in [pivots : Phases, ttl : Ttls]
    BY DEF Ttls
  <2>2. QED
    BY <1>4, <2>1 DEF ExpireLevels, Unwritten, Phases
<1>5. CASE WriteFails(w)
  BY <1>5 DEF WriteFails, Fault, Unwritten, HalfWritten, Phases
<1>6. QED
  BY <1>1, <1>2, <1>3, <1>4, <1>5

LEMMA WorldTyped ==
  ASSUME TypeInv, SpotTick \/ WindowExpires \/ LevelsExpire \/ Advance \/ Crash
  PROVE  TypeInv'
<1> USE StoreAssumption DEF StoreAssumption, TypeInv, TypeOK, windowVars, levelVars, marketVars, clockVars, cutVars
<1>1. CASE SpotTick
  BY <1>1 DEF SpotTick
<1>2. CASE WindowExpires
  BY <1>2 DEF WindowExpires, Drop, Ttls
<1>3. CASE LevelsExpire
  BY <1>3 DEF LevelsExpire
<1>4. CASE Advance
  BY <1>4 DEF Advance, Phases
<1>5. CASE Crash
  BY <1>5 DEF Crash, Fault, Halted, Resting, Unwritten, HalfWritten, CutOff, Trimming, Expiring, Phases
<1>6. QED
  BY <1>1, <1>2, <1>3, <1>4, <1>5

LEMMA NextTyped == TypeInv /\ [Next]_vars => TypeInv'
<1> SUFFICES ASSUME TypeInv, [Next]_vars PROVE TypeInv'
  OBVIOUS
<1>1. CASE Next
  <2>1. ASSUME NEW t \in Threads, OiTick(t) \/ CheckLength(t) PROVE TypeInv'
    BY <2>1, PushTyped DEF Pushers
  <2>2. CASE BackfillOi
    BY <2>2, PushTyped DEF Pushers
  <2>3. QED
    BY <1>1, <2>1, <2>2, SyncTyped, PushTyped, LevelsTyped, WorldTyped DEF Next
<1>2. CASE UNCHANGED vars
  BY <1>2 DEF vars, clockVars, marketVars, windowVars, levelVars, cutVars, TypeInv, TypeOK
<1>3. QED
  BY <1>1, <1>2

\* Every variable of the store and of the threads that write it keeps its type.
THEOREM TypeCorrect == Spec => []TypeOK
<1>1. TypeInv => TypeOK
  BY DEF TypeInv
<1>2. QED
  BY InitTyped, NextTyped, <1>1, PTL DEF Spec

-----------------------------------------------------------------------------
(* Rollover.                                                               *)

\* The windows of S hold no sample of a contract before e.
Fresh(S, e) == \A s \in S : \A i \in DOMAIN window[s] : window[s][i] >= e

\* A sync is of the active expiry, the expiry in Redis is not ahead of it, and what a
\* rollover has reset so far is fresh.
RolloverInv ==
  /\ pipeline.at \in {"reset", "expiry", "strikes"} => pipeline.expiry \in {0, Active}
  /\ expiry # NoKey => expiry <= Active
  /\ expiry = NoKey => rolled = {}
  /\ expiry # NoKey => Fresh(rolled, expiry)
  /\ pipeline.at = "reset" =>
       /\ expiry \notin {NoKey, pipeline.expiry}
       /\ Fresh(Listed(pipeline.expiry) \ pipeline.left, pipeline.expiry)
  /\ pipeline.at = "expiry" /\ expiry \notin {NoKey, pipeline.expiry} =>
       Fresh(Listed(pipeline.expiry), pipeline.expiry)

ChainInv == TypeInv /\ RolloverInv

LEMMA ActiveTyped ==
  ASSUME TypeInv
  PROVE  Active \in Expiries /\ Active \in Nat /\ Active >= 1 /\ phase \in Nat
<1>1. phase \in Nat
  BY StoreAssumption DEF StoreAssumption, TypeInv, TypeOK, Phases
<1>2. Active \in Expiries /\ Active >= 1
  BY <1>1, DayTyped
<1>3. Active \in Nat
  BY <1>2, StoreAssumption DEF StoreAssumption
<1>4. QED
  BY <1>1, <1>2, <1>3

\* What a step leaves in a window was there or is of the active contract.
LEMMA WindowSteps ==
  ASSUME TypeInv, Next
  PROVE  \A s \in Strikes : \A i \in DOMAIN window'[s] :
           window'[s][i] = Active \/ \E j \in DOMAIN window[s] : window'[s][i] = window[s][j]
<1> DEFINE Kept == \A s \in Strikes : \A i \in DOMAIN window'[s] :
                     window'[s][i] = Active \/ \E j \in DOMAIN window[s] : window'[s][i] = window[s][j]
<1>1. CASE UNCHANGED window
  BY <1>1
<1>2. ASSUME NEW s \in Strikes, Drop(s) PROVE Kept
  BY <1>2 DEF Drop, TypeInv, TypeOK
<1>3. ASSUME NEW p \in Pushers, PushSample(p) PROVE Kept
  <2> DEFINE s == push[p].strike
  <2>1. s \in Strikes /\ window[s] \in Seq(Expiries)
    BY <1>3 DEF PushSample, TypeInv, TypeOK
  <2>2. window' = [window EXCEPT ![s] = Append(window[s], Active)]
    BY <1>3 DEF PushSample, Pushed
  <2>3. LET r == Append(window[s], Active) IN
          \A i \in DOMAIN r : r[i] = Active \/ \E j \in DOMAIN window[s] : r[i] = window[s][j]
    BY <2>1, ActiveTyped
  <2>4. window \in [Strikes -> Seq(Expiries)]
    BY DEF TypeInv, TypeOK
  <2> HIDE DEF s
  <2>5. QED
    BY <2>1, <2>2, <2>3, <2>4
<1>4. ASSUME NEW p \in Pushers, TrimWindow(p) PROVE Kept
  <2> DEFINE s == push[p].strike
  <2>1. s \in Strikes /\ window[s] \in Seq(Expiries)
    BY <1>4 DEF TrimWindow, TypeInv, TypeOK
  <2>2. window' = [window EXCEPT ![s] = Trimmed(window[s])]
    BY <1>4 DEF TrimWindow
  <2>3. LET r == Trimmed(window[s]) IN \A i \in DOMAIN r : \E j \in DOMAIN window[s] : r[i] = window[s][j]
    BY <2>1, TrimmedWindow
  <2>4. window \in [Strikes -> Seq(Expiries)]
    BY DEF TypeInv, TypeOK
  <2> HIDE DEF s
  <2>5. QED
    BY <2>1, <2>2, <2>3, <2>4
<1>5. Reset => UNCHANGED window \/ \E s \in Strikes : Drop(s)
  BY DEF Reset, TypeInv, TypeOK
<1>6. WindowExpires => \E s \in Strikes : Drop(s)
  BY DEF WindowExpires
<1>7. UNCHANGED window \/ Reset \/ WindowExpires \/ \E p \in Pushers : PushSample(p) \/ TrimWindow(p)
  BY DEF Next, StartPipeline, Fetch, SetExpiry, SetStrikes, SyncFails, OiTick, CheckLength, BackfillOi,
         SpotTick, ExpireWindow, PushFails, Run, Refresh, SetLevels, ExpireLevels, WriteFails,
         LevelsExpire, Advance, Crash, windowVars
<1>8. QED
  BY <1>1, <1>2, <1>3, <1>5, <1>6, <1>7, <1>4

LEMMA FreshStays ==
  ASSUME TypeInv, Next, NEW S \in SUBSET Strikes, NEW e \in Int, e <= Active, Fresh(S, e)
  PROVE  \A s \in S : \A i \in DOMAIN window'[s] : window'[s][i] >= e
<1> TAKE s \in S
<1> TAKE i \in DOMAIN window'[s]
<1>1. window'[s][i] = Active \/ \E j \in DOMAIN window[s] : window'[s][i] = window[s][j]
  BY WindowSteps
<1>2. QED
  BY <1>1, ActiveTyped DEF Fresh

LEMMA SyncKeepsChains ==
  ASSUME ChainInv, Next, StartPipeline \/ Fetch \/ Reset \/ SetExpiry \/ SetStrikes \/ SyncFails
  PROVE  RolloverInv'
<1>1. TypeInv /\ Active \in Nat /\ Active >= 1 /\ NoKey \notin Int /\ phase' = phase
  BY ActiveTyped, StoreAssumption
     DEF ChainInv, StoreAssumption, StartPipeline, Fetch, Reset, SetExpiry, SetStrikes, SyncFails, clockVars
<1>2. Active' = Active
  BY <1>1 DEF Active, Day
<1>3. expiry \in Expiries \cup {0, NoKey} /\ Expiries \subseteq Nat /\ rolled \subseteq Strikes
      /\ pipeline.expiry \in Nat /\ Listed(pipeline.expiry) \subseteq Strikes
  <2>1. expiry \in Expiries \cup {0, NoKey} /\ rolled \subseteq Strikes /\ pipeline.expiry \in Expiries \cup {0}
    BY <1>1 DEF TypeInv, TypeOK
  <2>2. Expiries \subseteq Nat
    BY StoreAssumption DEF StoreAssumption
  <2>3. Listed(pipeline.expiry) \subseteq Strikes
    BY <2>1, ChainTyped
  <2>4. pipeline.expiry \in Nat
    <3>1. \A e \in Expiries \cup {0} : e \in Nat
      BY <2>2
    <3>2. QED
      BY <2>1, <3>1
  <2>5. QED
    BY <2>1, <2>2, <2>3, <2>4
<1>4. ASSUME expiry # NoKey
      PROVE  \A s \in rolled : \A i \in DOMAIN window'[s] : window'[s][i] >= expiry
  <2>1. expiry \in Int /\ expiry <= Active /\ Fresh(rolled, expiry)
    <3>1. expiry \in Int
      BY <1>3, <1>4
    <3>2. QED
      BY <1>4, <3>1 DEF ChainInv, RolloverInv
  <2>2. QED
    BY <1>1, <1>3, <2>1, FreshStays
<1>5. CASE StartPipeline
  BY <1>2, <1>4, <1>5 DEF ChainInv, RolloverInv, StartPipeline, Halted, Fresh
<1>6. CASE Fetch
  <2>1. PICK e \in {0, Active} :
          IF expiry \notin {NoKey, e} THEN SyncTo("reset", e, Listed(e)) ELSE SyncTo("expiry", e, {})
    BY <1>6 DEF Fetch
  <2>2. QED
    BY <1>2, <1>4, <1>6, <2>1 DEF ChainInv, RolloverInv, Fetch, SyncTo, Fresh
<1>7. CASE Reset
  <2>1. pipeline.expiry \in {0, Active} /\ pipeline.at = "reset" /\ pipeline.expiry <= Active
    BY <1>1, <1>7 DEF ChainInv, RolloverInv, Reset
  <2>2. \A s \in Listed(pipeline.expiry) \ pipeline.left :
          \A i \in DOMAIN window'[s] : window'[s][i] >= pipeline.expiry
    <3>1. Fresh(Listed(pipeline.expiry) \ pipeline.left, pipeline.expiry)
      BY <2>1 DEF ChainInv, RolloverInv
    <3>2. Listed(pipeline.expiry) \ pipeline.left \in SUBSET Strikes /\ pipeline.expiry \in Int
      BY <1>3
    <3>3. QED
      BY <1>1, <2>1, <3>1, <3>2, FreshStays
  <2>3. CASE pipeline.left = {}
    BY <1>2, <1>4, <1>7, <2>1, <2>2, <2>3 DEF ChainInv, RolloverInv, Reset, SyncTo, Fresh
  <2>4. CASE pipeline.left # {}
    <3>1. PICK s \in pipeline.left : SyncTo("reset", pipeline.expiry, pipeline.left \ {s}) /\ Drop(s)
      BY <1>7, <2>4 DEF Reset
    <3>2. window'[s] = <<>>
      BY <3>1, <1>1 DEF Drop, TypeInv, TypeOK
    <3>3. pipeline' = [at |-> "reset", expiry |-> pipeline.expiry, left |-> pipeline.left \ {s}]
      BY <3>1 DEF SyncTo
    <3>4. \A t \in Listed(pipeline.expiry) \ (pipeline.left \ {s}) :
            \A i \in DOMAIN window'[t] : window'[t][i] >= pipeline.expiry
      BY <2>2, <3>2
    <3>5. pipeline'.at = "reset" /\ pipeline'.expiry = pipeline.expiry /\ pipeline'.left = pipeline.left \ {s}
          /\ expiry' = expiry /\ rolled' = rolled
      BY <1>7, <3>3 DEF Reset
    <3>6. Listed(pipeline.expiry)' = Listed(pipeline.expiry)
      BY <3>5 DEF Listed
    <3>7. QED
      BY <1>2, <1>4, <2>1, <3>4, <3>5, <3>6 DEF ChainInv, RolloverInv, Fresh
  <2>5. QED
    BY <2>3, <2>4
<1>8. CASE SetExpiry
  <2>1. pipeline.expiry \in {0, Active} /\ expiry' = pipeline.expiry /\ pipeline.expiry <= Active
        /\ pipeline' = [at |-> "strikes", expiry |-> pipeline.expiry, left |-> {}] /\ window' = window
    BY <1>1, <1>8 DEF ChainInv, RolloverInv, SetExpiry, SyncTo, windowVars
  <2>2. CASE expiry \notin {NoKey, pipeline.expiry}
    BY <1>1, <1>2, <1>3, <1>8, <2>1, <2>2 DEF ChainInv, RolloverInv, SetExpiry, Fresh
  <2>3. CASE expiry = NoKey
    BY <1>1, <1>2, <1>3, <1>8, <2>1, <2>3 DEF ChainInv, RolloverInv, SetExpiry, Fresh
  <2>4. CASE expiry = pipeline.expiry
    BY <1>1, <1>2, <1>3, <1>8, <2>1, <2>4 DEF ChainInv, RolloverInv, SetExpiry, Fresh
  <2>5. QED
    BY <2>2, <2>3, <2>4
<1>9. CASE SetStrikes
  BY <1>2, <1>4, <1>9 DEF ChainInv, RolloverInv, SetStrikes, Halted, Fresh
<1>10. CASE SyncFails
  BY <1>2, <1>4, <1>10 DEF ChainInv, RolloverInv, SyncFails, Halted, Fresh
<1>11. QED
  BY <1>5, <1>6, <1>7, <1>8, <1>9, <1>10

\* A step that leaves the sync alone keeps what the rollover has reset fresh.
LEMMA OthersKeepChains ==
  ASSUME ChainInv, Next, UNCHANGED <<phase, pipeline, expiry, rolled>>
  PROVE  RolloverInv'
<1>1. TypeInv /\ RolloverInv
  BY DEF ChainInv
<1>2. Active' = Active
  BY DEF Active, Day
<1>3. Active \in Nat /\ rolled \subseteq Strikes /\ Expiries \subseteq Nat
      /\ pipeline.expiry \in Expiries \cup {0} /\ expiry \in Expiries \cup {0, NoKey}
  BY <1>1, ActiveTyped, StoreAssumption DEF StoreAssumption, TypeInv, TypeOK
<1>4. \A e \in Expiries \cup {0} : e \in Int
  BY <1>3
<1>5. Listed(pipeline.expiry) \in SUBSET Strikes /\ Listed(pipeline.expiry) \ pipeline.left \in SUBSET Strikes
  BY <1>3, ChainTyped
<1>6. ASSUME expiry # NoKey
      PROVE  Fresh(rolled, expiry)'
  <2>1. expiry \in Int /\ expiry <= Active /\ Fresh(rolled, expiry)
    BY <1>1, <1>3, <1>4, <1>6 DEF RolloverInv
  <2>2. \A s \in rolled : \A i \in DOMAIN window'[s] : window'[s][i] >= expiry
    BY <1>1, <1>3, <2>1, FreshStays
  <2>3. QED
    BY <2>2 DEF Fresh
<1>7. ASSUME pipeline.at \in {"reset", "expiry"}
      PROVE  pipeline.expiry \in Int /\ pipeline.expiry <= Active
  BY <1>1, <1>3, <1>4, <1>7, ActiveTyped DEF RolloverInv
<1>8. ASSUME pipeline.at = "reset"
      PROVE  Fresh(Listed(pipeline.expiry) \ pipeline.left, pipeline.expiry)'
  <2>1. Fresh(Listed(pipeline.expiry) \ pipeline.left, pipeline.expiry)
    BY <1>1, <1>8 DEF RolloverInv
  <2>2. \A s \in Listed(pipeline.expiry) \ pipeline.left :
          \A i \in DOMAIN window'[s] : window'[s][i] >= pipeline.expiry
    BY <1>1, <1>5, <1>7, <1>8, <2>1, FreshStays
  <2>3. QED
    BY <2>2 DEF Fresh, Listed
<1>9. ASSUME pipeline.at = "expiry", expiry \notin {NoKey, pipeline.expiry}
      PROVE  Fresh(Listed(pipeline.expiry), pipeline.expiry)'
  <2>1. Fresh(Listed(pipeline.expiry), pipeline.expiry)
    BY <1>1, <1>9 DEF RolloverInv
  <2>2. \A s \in Listed(pipeline.expiry) : \A i \in DOMAIN window'[s] : window'[s][i] >= pipeline.expiry
    BY <1>1, <1>5, <1>7, <1>9, <2>1, FreshStays
  <2>3. QED
    BY <2>2 DEF Fresh, Listed
<1>10. QED
  BY <1>1, <1>2, <1>6, <1>8, <1>9 DEF RolloverInv

LEMMA ClockKeepsChains ==
  ASSUME ChainInv, Advance \/ Crash
  PROVE  RolloverInv'
<1>1. TypeInv /\ RolloverInv /\ phase \in Nat
  BY ActiveTyped DEF ChainInv
<1>2. pipeline'.at \in {"down", "running"} /\ UNCHANGED <<expiry, rolled, window>>
  BY DEF Advance, Crash, Halted, marketVars, windowVars
<1>3. Active <= Active' /\ Active \in Nat /\ Active' \in Nat
  <2>1. phase' \in Nat /\ phase <= phase'
    BY <1>1 DEF Advance, Crash
  <2>2. Day \in Int /\ Day' \in Int /\ Day <= Day'
    <3>1. \A a, b \in Nat : a <= b => a \div 3 \in Int /\ b \div 3 \in Int /\ a \div 3 <= b \div 3
      OBVIOUS
    <3>2. QED
      BY <1>1, <2>1, <3>1 DEF Day
  <2>3. Active <= Active' /\ Active \in Expiries /\ Active' \in Expiries
    BY <2>2, ActiveListed, ActiveAdvances DEF Active
  <2>4. QED
    BY <2>3, StoreAssumption DEF StoreAssumption
<1>4. expiry # NoKey => expiry \in Nat
  BY <1>1, StoreAssumption DEF StoreAssumption, TypeInv, TypeOK
<1>5. expiry # NoKey => expiry <= Active'
  BY <1>1, <1>3, <1>4 DEF RolloverInv
<1>6. QED
  BY <1>1, <1>2, <1>5 DEF RolloverInv, Fresh

LEMMA ChainNext == ChainInv /\ [Next]_vars => ChainInv'
<1> SUFFICES ASSUME ChainInv, [Next]_vars PROVE ChainInv'
  OBVIOUS
<1>1. TypeInv'
  BY NextTyped DEF ChainInv
<1>2. CASE Next
  <2>1. \/ StartPipeline \/ Fetch \/ Reset \/ SetExpiry \/ SetStrikes \/ SyncFails
        \/ Advance \/ Crash \/ UNCHANGED <<phase, pipeline, expiry, rolled>>
    BY <1>2 DEF Next, OiTick, CheckLength, BackfillOi, SpotTick, PushSample, TrimWindow, ExpireWindow, PushFails,
                Run, Refresh, SetLevels, ExpireLevels, WriteFails, WindowExpires, LevelsExpire,
                clockVars, marketVars
  <2>2. RolloverInv'
    BY <1>2, <2>1, SyncKeepsChains, ClockKeepsChains, OthersKeepChains
  <2>3. QED
    BY <1>1, <2>2 DEF ChainInv
<1>3. CASE UNCHANGED vars
  <2>1. UNCHANGED <<phase, pipeline, expiry, rolled, window>>
    BY <1>3 DEF vars, clockVars, marketVars, windowVars
  <2>2. QED
    BY <1>1, <2>1 DEF ChainInv, RolloverInv, Fresh, Listed, Active, Day
<1>4. QED
  BY <1>2, <1>3

\* For any chains and whatever fails or restarts, a rollover leaves no sample of an
\* older contract in the windows of the chain it listed.
THEOREM RolloverIsClean == Spec => []RolloverDropsOldChain
<1>1. Init => ChainInv
  BY InitTyped DEF Init, ChainInv, RolloverInv, Halted
<1>2. ChainInv => RolloverDropsOldChain
  BY DEF ChainInv, RolloverInv, Fresh, RolloverDropsOldChain
<1>3. QED
  BY <1>1, ChainNext, <1>2, PTL DEF Spec

-----------------------------------------------------------------------------
(* The TTLs.                                                               *)

\* A push that found its window there still does, or the window was cut.
Found ==
  \A p \in Pushers : push[p].at = "push" /\ ~push[p].empty =>
    window[push[p].strike] # <<>> \/ push[p].strike \in cut

WindowsExpire ==
  \A s \in Strikes :
    \/ window[s] = <<>> \/ windowTtl[s] # NoKey \/ s \in cut
    \/ \E p \in Pushers : Expiring(p) /\ push[p].strike = s

TheLevelsExpire ==
  \/ levels = NoKey \/ levels.ttl # NoKey \/ levelsCut
  \/ \E w \in Writers : write[w].at = "expire"

TtlInv == TypeInv /\ Found /\ WindowsExpire

LEMMA DropKeepsTtls ==
  ASSUME TtlInv, NEW s \in Strikes, Drop(s), push' = push
  PROVE  Found' /\ WindowsExpire'
<1>1. TypeInv /\ Found /\ WindowsExpire
  BY DEF TtlInv
<1>2. /\ window' = [window EXCEPT ![s] = <<>>] /\ windowTtl' = [windowTtl EXCEPT ![s] = NoKey]
      /\ cut \subseteq cut'
  BY DEF Drop
<1>3. WindowsExpire'
  BY <1>1, <1>2 DEF WindowsExpire, Expiring, Trimming, TypeInv, TypeOK
<1>4. ASSUME NEW p \in Pushers, push[p].at = "push", ~push[p].empty, push[p].strike = s
      PROVE  s \in cut'
  <2>1. push[p] = [at |-> "push", strike |-> s, empty |-> FALSE]
    BY <1>1, <1>4 DEF TypeInv, TypeOK
  <2>2. QED
    BY <2>1 DEF Drop
<1>5. Found'
  BY <1>1, <1>2, <1>4 DEF Found, TypeInv, TypeOK
<1>6. QED
  BY <1>3, <1>5

LEMMA PushKeepsTtls ==
  ASSUME TtlInv, NEW p \in Pushers,
         OiTick(p) \/ CheckLength(p) \/ (p = "loop" /\ BackfillOi) \/ PushSample(p)
           \/ TrimWindow(p) \/ ExpireWindow(p) \/ PushFails(p)
  PROVE  Found' /\ WindowsExpire'
<1>1. TypeInv /\ Found /\ WindowsExpire
  BY DEF TtlInv
<1> USE DEF Found, WindowsExpire, TypeInv, TypeOK
<1>2. CASE OiTick(p)
  BY <1>1, <1>2 DEF OiTick, Expiring, Trimming, cutVars
<1>3. CASE CheckLength(p)
  BY <1>1, <1>3 DEF CheckLength, Counted, Expiring, Trimming, cutVars
<1>4. CASE p = "loop" /\ BackfillOi
  <2>1. PICK s \in Sampled : Counted(p, s)
    BY <1>4 DEF BackfillOi
  <2>2. push[p].at = "idle" /\ UNCHANGED <<window, windowTtl, cut>>
    BY <1>4 DEF BackfillOi, cutVars
  <2>3. push'[p] = [at |-> "push", strike |-> s, empty |-> window[s] = <<>>]
        /\ \A q \in Pushers : q # p => push'[q] = push[q]
    BY <1>1, <2>1 DEF Counted
  <2>4. push'[p].strike = s /\ (~push'[p].empty => window[s] # <<>>)
    <3>1. \A b \in BOOLEAN : LET r == [at |-> "push", strike |-> s, empty |-> b] IN r.strike = s /\ r.empty = b
      OBVIOUS
    <3>2. (window[s] = <<>>) \in BOOLEAN
      OBVIOUS
    <3>3. QED
      BY <2>3, <3>1, <3>2, Zenon
  <2>5. WindowsExpire'
    <3>1. \A q \in Pushers : Expiring(q) => Expiring(q)' /\ push'[q].strike = push[q].strike
      BY <2>2, <2>3 DEF Expiring, Trimming
    <3>2. QED
      BY <1>1, <2>2, <3>1
  <2>6. Found'
    <3>1. \A q \in Pushers : q # p => push'[q] = push[q]
      BY <2>3
    <3>2. QED
      BY <1>1, <2>2, <2>4, <3>1
  <2>7. QED
    BY <2>5, <2>6
<1>5. CASE PushSample(p)
  <2> DEFINE s == push[p].strike
             full == Append(window[s], Active)
  <2>1. s \in Strikes /\ window[s] \in Seq(Expiries) /\ full # <<>>
    <3>1. s \in Strikes /\ window[s] \in Seq(Expiries) /\ Active \in Expiries
      BY <1>1, <1>5, ActiveTyped DEF PushSample
    <3>2. Len(full) = Len(window[s]) + 1 /\ Len(window[s]) \in Nat
      BY <3>1
    <3>3. QED
      BY <3>1, <3>2
  <2>2. /\ window' = [window EXCEPT ![s] = full] /\ windowTtl' = windowTtl /\ cut' = cut
        /\ push' = [push EXCEPT ![p].at = "trim"]
    BY <1>5 DEF PushSample, Pushed, cutVars
  <2>3. /\ push'[p].at = "trim" /\ push'[p].strike = s /\ push'[p].empty = push[p].empty
        /\ \A q \in Pushers : q # p => push'[q] = push[q]
    BY <1>1, <2>2
  <2>4. ~push[p].empty => window[s] # <<>> \/ s \in cut
    BY <1>1, <1>5 DEF PushSample
  <2>5. \A t \in Strikes : window'[t] = IF t = s THEN full ELSE window[t]
    BY <1>1, <2>1, <2>2
  <2>6. ~Expiring(p) /\ (push[p].empty => Expiring(p)')
    BY <1>5, <2>3 DEF PushSample, Expiring, Trimming
  <2>7. \A q \in Pushers : q # p => (Expiring(q)' <=> Expiring(q))
    BY <2>3 DEF Expiring, Trimming
  <2> HIDE DEF s, full
  <2>8. WindowsExpire'
    <3> SUFFICES ASSUME NEW t \in Strikes
                 PROVE  \/ window'[t] = <<>> \/ windowTtl'[t] # NoKey \/ t \in cut'
                        \/ \E q \in Pushers : Expiring(q)' /\ push'[q].strike = t
      BY DEF WindowsExpire
    <3>1. CASE t = s /\ push[p].empty
      BY <2>3, <2>6, <3>1
    <3>2. CASE ~(t = s /\ push[p].empty)
      <4>1. window[t] = <<>> => window'[t] = <<>> \/ t \in cut
        BY <2>4, <2>5, <3>2
      <4>2. \A q \in Pushers : Expiring(q) => q # p /\ Expiring(q)' /\ push'[q] = push[q]
        BY <2>3, <2>6, <2>7
      <4>3. QED
        BY <1>1, <2>2, <4>1, <4>2
    <3>3. QED
      BY <3>1, <3>2
  <2>9. Found'
    <3> SUFFICES ASSUME NEW q \in Pushers, push'[q].at = "push", ~push'[q].empty
                 PROVE  window'[push'[q].strike] # <<>> \/ push'[q].strike \in cut'
      BY DEF Found
    <3>1. q # p /\ push'[q] = push[q] /\ push[q].strike \in Strikes
      BY <1>1, <2>3
    <3>2. QED
      BY <1>1, <2>1, <2>2, <2>5, <3>1
  <2>10. QED
    BY <2>8, <2>9
<1>6. CASE TrimWindow(p)
  <2> DEFINE s == push[p].strike
  <2>1. s \in Strikes /\ window[s] \in Seq(Expiries) /\ (Trimmed(window[s]) = <<>> <=> window[s] = <<>>)
    BY <1>1, <1>6, TrimmedWindow DEF TrimWindow
  <2>2. /\ window' = [window EXCEPT ![s] = Trimmed(window[s])] /\ windowTtl' = windowTtl /\ cut' = cut
        /\ push' = [push EXCEPT ![p] = IF @.empty THEN [@ EXCEPT !.at = "expire"] ELSE Resting]
    BY <1>6 DEF TrimWindow
  <2>3. \A t \in Strikes : window'[t] = <<>> <=> window[t] = <<>>
    BY <1>1, <2>1, <2>2
  <2>4. \A q \in Pushers : q # p => push'[q] = push[q] /\ (Expiring(q)' <=> Expiring(q))
    BY <1>1, <2>2 DEF Expiring, Trimming
  <2>5. push'[p].at # "push" /\ (Expiring(p) => Expiring(p)' /\ push'[p].strike = push[p].strike)
    BY <1>1, <1>6, <2>2 DEF TrimWindow, Expiring, Trimming, Resting
  <2>6. WindowsExpire'
    <3>1. \A q \in Pushers : Expiring(q) => Expiring(q)' /\ push'[q].strike = push[q].strike
      BY <2>4, <2>5
    <3>2. QED
      BY <1>1, <2>2, <2>3, <3>1
  <2>7. Found'
    BY <1>1, <2>2, <2>3, <2>4, <2>5
  <2>8. QED
    BY <2>6, <2>7
<1>7. CASE ExpireWindow(p)
  BY <1>1, <1>7, StoreAssumption DEF ExpireWindow, Expiring, Trimming, Resting, StoreAssumption, Phases, cutVars
<1>8. CASE PushFails(p)
  BY <1>1, <1>8 DEF PushFails, CutOff, Expiring, Trimming, Resting, windowVars
<1>9. QED
  BY <1>2, <1>3, <1>4, <1>5, <1>6, <1>7, <1>8

LEMMA TtlNext == TtlInv /\ [Next]_vars => TtlInv'
<1> SUFFICES ASSUME TtlInv, [Next]_vars PROVE TtlInv'
  OBVIOUS
<1>1. TypeInv /\ Found /\ WindowsExpire /\ TypeInv'
  BY NextTyped DEF TtlInv
<1>2. ASSUME UNCHANGED <<window, windowTtl, push, cut>> PROVE Found' /\ WindowsExpire'
  BY <1>1, <1>2 DEF Found, WindowsExpire, Expiring, Trimming
<1>3. CASE Crash
  <2>1. UNCHANGED <<window, windowTtl>> /\ CutOff(Pushers) /\ push' = [p \in Pushers |-> Resting]
    BY <1>3 DEF Crash
  <2>2. cut \subseteq cut' /\ \A p \in Pushers : Expiring(p) => push[p].strike \in cut'
    BY <2>1 DEF CutOff
  <2>3. QED
    BY <1>1, <2>1, <2>2 DEF TtlInv, Found, WindowsExpire, Resting
<1>4. CASE Reset \/ WindowExpires
  <2>1. UNCHANGED <<window, windowTtl, push, cut>> \/ \E s \in Strikes : Drop(s) /\ push' = push
    BY <1>1, <1>4 DEF Reset, WindowExpires, TypeInv, TypeOK, cutVars
  <2>2. QED
    BY <1>1, <1>2, <2>1, DropKeepsTtls DEF TtlInv
<1>5. CASE \/ \E t \in Threads : OiTick(t) \/ CheckLength(t)
           \/ BackfillOi
           \/ \E p \in Pushers : PushSample(p) \/ TrimWindow(p) \/ ExpireWindow(p) \/ PushFails(p)
  BY <1>1, <1>5, PushKeepsTtls DEF Pushers, TtlInv
<1>6. \/ UNCHANGED <<window, windowTtl, push, cut>> \/ Crash \/ Reset \/ WindowExpires
      \/ \E t \in Threads : OiTick(t) \/ CheckLength(t)
      \/ BackfillOi
      \/ \E p \in Pushers : PushSample(p) \/ TrimWindow(p) \/ ExpireWindow(p) \/ PushFails(p)
  BY DEF Next, StartPipeline, Fetch, SetExpiry, SetStrikes, SyncFails, SpotTick, Run, Refresh, SetLevels,
         ExpireLevels, WriteFails, LevelsExpire, Advance, windowVars, cutVars, vars
<1>7. QED
  BY <1>1, <1>2, <1>3, <1>4, <1>5, <1>6 DEF TtlInv

LEMMA LevelsTtlNext == TypeInv /\ TheLevelsExpire /\ [Next]_vars => TheLevelsExpire'
<1> SUFFICES ASSUME TypeInv, TheLevelsExpire, [Next]_vars PROVE TheLevelsExpire'
  OBVIOUS
<1> USE DEF TypeInv, TypeOK
<1>1. ASSUME UNCHANGED <<levels, write, levelsCut>> PROVE TheLevelsExpire'
  BY <1>1 DEF TheLevelsExpire
<1>2. ASSUME NEW w \in Writers, Run(w) \/ Refresh(w) PROVE TheLevelsExpire'
  BY <1>2 DEF Run, Refresh, Compute, TheLevelsExpire
<1>3. ASSUME NEW w \in Writers, SetLevels(w) PROVE TheLevelsExpire'
  BY <1>3 DEF SetLevels, Unwritten, TheLevelsExpire
<1>4. ASSUME NEW w \in Writers, ExpireLevels(w) PROVE TheLevelsExpire'
  <2>1. phase \in Int /\ NoKey \notin Int
    BY StoreAssumption DEF StoreAssumption, Phases
  <2>2. QED
    BY <1>4, <2>1 DEF ExpireLevels, TheLevelsExpire
<1>5. ASSUME NEW w \in Writers, WriteFails(w) PROVE TheLevelsExpire'
  BY <1>5 DEF WriteFails, HalfWritten, Unwritten, TheLevelsExpire
<1>6. CASE LevelsExpire
  BY <1>6 DEF LevelsExpire, TheLevelsExpire
<1>7. CASE Crash
  BY <1>7 DEF Crash, HalfWritten, TheLevelsExpire
<1>8. \/ UNCHANGED <<levels, write, levelsCut>> \/ LevelsExpire \/ Crash
      \/ \E w \in Writers : Run(w) \/ Refresh(w) \/ SetLevels(w) \/ ExpireLevels(w) \/ WriteFails(w)
  BY DEF Next, StartPipeline, Fetch, Reset, SetExpiry, SetStrikes, SyncFails, OiTick, CheckLength, BackfillOi,
         SpotTick, PushSample, TrimWindow, ExpireWindow, PushFails, WindowExpires, Advance, levelVars, vars
<1>9. QED
  BY <1>1, <1>2, <1>3, <1>4, <1>5, <1>6, <1>7, <1>8

\* For any threads and writers, a window or the levels are left without a TTL only by
\* a crash, a failed call or a deletion between the commands that write them.
THEOREM TtlsAreSet == Spec => []TtlUnlessCut
<1>1. Init => TtlInv /\ TheLevelsExpire
  BY InitTyped DEF Init, TtlInv, Found, WindowsExpire, TheLevelsExpire, Resting, Expiring, Trimming
<1>2. TtlInv /\ TheLevelsExpire /\ [Next]_vars => TtlInv' /\ TheLevelsExpire'
  BY TtlNext, LevelsTtlNext DEF TtlInv
<1>3. TtlInv /\ TheLevelsExpire => TtlUnlessCut
  BY DEF TtlInv, WindowsExpire, TheLevelsExpire, TtlUnlessCut
<1>4. QED
  BY <1>1, <1>2, <1>3, PTL DEF Spec

-----------------------------------------------------------------------------
(* The length of the windows.                                              *)

TrimInv == TypeInv /\ TrimmedUnlessCut

LEMMA TrimNext == TrimInv /\ [Next]_vars => TrimInv'
<1> SUFFICES ASSUME TrimInv, [Next]_vars PROVE TrimInv'
  OBVIOUS
<1>1. TypeInv /\ TypeInv' /\ TrimmedUnlessCut
  BY NextTyped DEF TrimInv
<1> DEFINE Short(s) == \/ Len(window[s]) <= Window \/ s \in untrimmed
                       \/ \E p \in Pushers : Trimming(p) /\ push[p].strike = s
<1>2. \A s \in Strikes : Short(s)
  BY <1>1 DEF TrimmedUnlessCut
<1>3. SUFFICES \A s \in Strikes : Short(s)'
  BY <1>1 DEF TrimInv, TrimmedUnlessCut
<1> USE DEF TypeInv, TypeOK
<1>4. ASSUME UNCHANGED <<window, untrimmed>>,
             \A p \in Pushers : Trimming(p) => Trimming(p)' /\ push'[p].strike = push[p].strike
      PROVE  \A s \in Strikes : Short(s)'
  BY <1>2, <1>4
<1>5. ASSUME NEW s \in Strikes, Drop(s), push' = push
      PROVE  \A t \in Strikes : Short(t)'
  <2>1. window' = [window EXCEPT ![s] = <<>>] /\ untrimmed' = untrimmed \ {s}
    BY <1>5 DEF Drop
  <2>2. Len(window'[s]) <= Window
    BY <1>1, <2>1, StoreAssumption DEF StoreAssumption
  <2>3. \A t \in Strikes \ {s} : window'[t] = window[t] /\ (t \in untrimmed => t \in untrimmed')
    BY <1>1, <2>1
  <2>4. QED
    BY <1>2, <1>5, <2>2, <2>3 DEF Trimming
<1>6. ASSUME NEW p \in Pushers, PushSample(p)
      PROVE  \A t \in Strikes : Short(t)'
  <2> DEFINE s == push[p].strike
  <2>1. Trimming(p)' /\ push'[p].strike = s /\ \A q \in Pushers : q # p => push'[q] = push[q]
    BY <1>1, <1>6 DEF PushSample, Trimming
  <2>2. \A t \in Strikes \ {s} : window'[t] = window[t]
    BY <1>1, <1>6 DEF PushSample, Pushed
  <2>3. ~Trimming(p) /\ untrimmed' = untrimmed
    BY <1>6 DEF PushSample, Trimming, cutVars
  <2>4. \A q \in Pushers : Trimming(q) => Trimming(q)' /\ push'[q].strike = push[q].strike
    BY <2>1, <2>3 DEF Trimming
  <2>5. QED
    BY <1>2, <2>1, <2>2, <2>3, <2>4
<1>7. ASSUME NEW p \in Pushers, TrimWindow(p)
      PROVE  \A t \in Strikes : Short(t)'
  <2> DEFINE s == push[p].strike
  <2>1. s \in Strikes /\ window[s] \in Seq(Expiries)
    BY <1>1, <1>7 DEF TrimWindow
  <2>2. window' = [window EXCEPT ![s] = Trimmed(window[s])] /\ untrimmed' = untrimmed \ {s}
    BY <1>7 DEF TrimWindow
  <2>3. Len(window'[s]) <= Window
    BY <1>1, <2>1, <2>2, TrimmedWindow
  <2>4. \A t \in Strikes \ {s} : window'[t] = window[t] /\ (t \in untrimmed => t \in untrimmed')
    BY <1>1, <2>2
  <2>5. \A q \in Pushers : Trimming(q) => push[q].strike = s \/ (Trimming(q)' /\ push'[q].strike = push[q].strike)
    BY <1>1, <1>7 DEF TrimWindow, Trimming
  <2> HIDE DEF s
  <2>6. QED
    BY <1>2, <2>3, <2>4, <2>5
<1>8. ASSUME NEW ps \in SUBSET Pushers, CutOff(ps), window' = window,
             \A p \in Pushers \ ps : push'[p] = push[p]
      PROVE  \A t \in Strikes : Short(t)'
  <2>1. untrimmed \subseteq untrimmed' /\ \A p \in ps : Trimming(p) => push[p].strike \in untrimmed'
    BY <1>8 DEF CutOff
  <2>2. \A p \in Pushers \ ps : Trimming(p) => Trimming(p)' /\ push'[p].strike = push[p].strike
    BY <1>8 DEF Trimming
  <2>3. QED
    BY <1>2, <1>8, <2>1, <2>2
<1>9. ASSUME NEW p \in Pushers,
             OiTick(p) \/ CheckLength(p) \/ (p = "loop" /\ BackfillOi) \/ ExpireWindow(p)
      PROVE  \A t \in Strikes : Short(t)'
  <2>1. UNCHANGED <<window, untrimmed>> /\ ~Trimming(p) /\ \A q \in Pushers : q # p => push'[q] = push[q]
    BY <1>1, <1>9 DEF OiTick, CheckLength, BackfillOi, Counted, ExpireWindow, Trimming, cutVars
  <2>2. QED
    BY <1>4, <2>1 DEF Trimming
<1>10. ASSUME NEW p \in Pushers, PushFails(p)
       PROVE  \A t \in Strikes : Short(t)'
  BY <1>1, <1>8, <1>10 DEF PushFails
<1>11. Crash => \A t \in Strikes : Short(t)'
  BY <1>8 DEF Crash
<1>12. Reset \/ WindowExpires =>
         UNCHANGED <<window, push, untrimmed>> \/ \E s \in Strikes : Drop(s) /\ push' = push
  BY <1>1 DEF Reset, WindowExpires, cutVars
<1>13. \/ UNCHANGED <<window, push, untrimmed>> \/ Crash \/ Reset \/ WindowExpires
       \/ \E t \in Threads : OiTick(t) \/ CheckLength(t)
       \/ BackfillOi
       \/ \E p \in Pushers : PushSample(p) \/ TrimWindow(p) \/ ExpireWindow(p) \/ PushFails(p)
  BY DEF Next, StartPipeline, Fetch, SetExpiry, SetStrikes, SyncFails, SpotTick, Run, Refresh, SetLevels,
         ExpireLevels, WriteFails, LevelsExpire, Advance, windowVars, cutVars, vars
<1>14. UNCHANGED <<window, push, untrimmed>> => \A s \in Strikes : Short(s)'
  BY <1>4 DEF Trimming
<1>15. Threads \subseteq Pushers /\ "loop" \in Pushers
  BY DEF Pushers
<1> HIDE DEF Short
<1>16. QED
  BY <1>5, <1>6, <1>7, <1>9, <1>10, <1>11, <1>12, <1>13, <1>14, <1>15

\* For any number of pushers, a window outgrows OI_WINDOW_INTERVALS only while a push of
\* it has yet to trim or since one was kept from that.
THEOREM WindowsAreTrimmed == Spec => []TrimmedUnlessCut
<1>1. Init => TrimInv
  BY InitTyped, StoreAssumption DEF Init, TrimInv, TrimmedUnlessCut, StoreAssumption
<1>2. TrimInv => TrimmedUnlessCut
  BY DEF TrimInv
<1>3. QED
  BY <1>1, TrimNext, <1>2, PTL DEF Spec

-----------------------------------------------------------------------------
(* The pivots, for one writer.  Levels are renewed in a session only, from  *)
(* one that still knew its day: a third that is open and within two of an   *)
(* open third is that third.                                                *)

\* Pivots a writer may store: its own of now, or those of this session.
OfToday(pivots) == pivots = phase \/ (Open /\ phase - pivots <= 2)

\* Levels that keep their TTL: of a run, or renewed in a session.
Renewed(l) ==
  /\ l.ttl # NoKey /\ l.ttl <= phase /\ phase - l.ttl <= 2
  /\ l.ttl = l.pivots \/ (l.ttl % 3 = 1 /\ l.ttl - l.pivots <= 2)

\* Unless an interruption came between, the levels are of their day while a writer
\* is about to give them a TTL and stay so with it.
PivotsInv ==
  /\ TypeInv
  /\ \A w \in Writers :
       /\ write[w].at = "set" => levelsCut \/ OfToday(write[w].pivots)
       /\ write[w].at = "expire" =>
            levelsCut \/ levels = NoKey \/ OfToday(levels.pivots)
       /\ write[w].at # "expire" => levelsCut \/ levels = NoKey \/ Renewed(levels)

\* Whatever has its TTL may be written back in a session.
LEMMA RenewedOfToday ==
  ASSUME NEW t \in Nat, NEW p \in Nat, NEW n \in Nat,
         t <= n, n - t <= 2, t = p \/ (t % 3 = 1 /\ t - p <= 2), n % 3 = 1
  PROVE  n - p <= 2
<1>1. n = t \/ n = t + 1 \/ n = t + 2
  OBVIOUS
<1>2. CASE t % 3 = 1
  <2>1. (t + 1) % 3 # 1 /\ (t + 2) % 3 # 1
    BY <1>2
  <2>2. QED
    BY <1>1, <2>1
<1>3. QED
  BY <1>2

LEMMA PivotsNext ==
  ASSUME NEW w, Writers = {w}, PivotsInv, [Next]_vars
  PROVE  PivotsInv'
<1>1. TypeInv /\ TypeInv'
  BY NextTyped DEF PivotsInv
<1>2. /\ phase \in Nat /\ NoKey \notin Int /\ levelsCut \in BOOLEAN
      /\ levels = NoKey \/ (levels.pivots \in Nat /\ levels.ttl \in Nat \cup {NoKey})
      /\ write[w].pivots \in Nat /\ write \in [Writers -> [at : {"idle", "set", "expire"}, pivots : Phases]]
  <2>1. Phases \subseteq Nat /\ NoKey \notin Int
    BY StoreAssumption DEF StoreAssumption, Phases
  <2>2. /\ phase \in Phases /\ levelsCut \in BOOLEAN
        /\ levels \in [pivots : Phases, ttl : Phases \cup {NoKey}] \cup {NoKey}
        /\ write \in [Writers -> [at : {"idle", "set", "expire"}, pivots : Phases]]
    BY <1>1 DEF TypeInv, TypeOK, Ttls
  <2>3. write[w].pivots \in Phases
    BY <2>2
  <2>4. levels # NoKey => levels.pivots \in Phases /\ levels.ttl \in Phases \cup {NoKey}
    BY <2>2
  <2>5. QED
    BY <2>1, <2>2, <2>3, <2>4
<1>3. ASSUME UNCHANGED <<phase, levels, write, levelsCut>> PROVE PivotsInv'
  BY <1>1, <1>3 DEF PivotsInv, OfToday, Renewed, Open
<1>4. ASSUME Run(w) \/ Refresh(w) PROVE PivotsInv'
  <2>1. UNCHANGED <<phase, levels, levelsCut>> /\ write[w].at = "idle"
        /\ \/ Compute(w, phase)
           \/ Open /\ levels # NoKey /\ Compute(w, levels.pivots)
    BY <1>4 DEF Run, Refresh, Compute, clockVars
  <2>2. levelsCut \/ levels = NoKey \/ Renewed(levels)
    BY <2>1 DEF PivotsInv
  <2>3. Open /\ levels # NoKey => levelsCut \/ OfToday(levels.pivots)
    BY <1>2, <2>2, RenewedOfToday DEF Renewed, OfToday, Open
  <2>4. write'[w].at = "set" /\ (levelsCut \/ OfToday(write'[w].pivots))
    BY <1>2, <2>1, <2>3 DEF Compute, OfToday
  <2>5. OfToday(write[w].pivots)' <=> OfToday(write'[w].pivots)
    BY <2>1 DEF OfToday, Open
  <2>6. (levels = NoKey \/ Renewed(levels))' <=> (levels = NoKey \/ Renewed(levels))
    BY <2>1 DEF Renewed
  <2>7. QED
    BY <1>1, <2>1, <2>2, <2>4, <2>5, <2>6 DEF PivotsInv
<1>5. ASSUME SetLevels(w) PROVE PivotsInv'
  <2>1. UNCHANGED <<phase, levelsCut>> /\ write'[w].at = "expire" /\ levels'.pivots = write[w].pivots
    BY <1>2, <1>5 DEF SetLevels, Unwritten, clockVars
  <2>2. levelsCut \/ OfToday(write[w].pivots)
    BY <1>5 DEF SetLevels, PivotsInv
  <2>3. levelsCut' \/ OfToday(levels.pivots)'
    BY <2>1, <2>2 DEF OfToday, Open
  <2>4. QED
    BY <1>1, <2>1, <2>3 DEF PivotsInv
<1>6. ASSUME ExpireLevels(w) PROVE PivotsInv'
  <2>1. phase' = phase /\ write'[w].at = "idle"
    BY <1>2, <1>6 DEF ExpireLevels, Unwritten, clockVars
  <2>2. levelsCut \/ levels = NoKey \/ OfToday(levels.pivots)
    BY <1>6 DEF ExpireLevels, PivotsInv
  <2>3. levels = NoKey => levels' = NoKey
    BY <1>6 DEF ExpireLevels
  <2>4. levels # NoKey => levels'.pivots = levels.pivots /\ levels'.ttl = phase
    <3>1. levels # NoKey => levels \in [pivots : Phases, ttl : Ttls]
      BY <1>1 DEF TypeInv, TypeOK
    <3>2. QED
      BY <1>6, <3>1 DEF ExpireLevels
  <2>5. levels # NoKey => levelsCut' \/ OfToday(levels.pivots)
    <3>1. levelsCut' <=> levelsCut /\ levels # NoKey /\ levels.pivots # phase
      BY <1>6, Zenon DEF ExpireLevels
    <3>2. QED
      BY <2>2, <3>1 DEF OfToday
  <2>6. levels # NoKey /\ OfToday(levels.pivots) => Renewed(levels)'
    BY <1>2, <2>1, <2>4 DEF OfToday, Renewed, Open
  <2>7. QED
    BY <1>1, <2>1, <2>3, <2>5, <2>6 DEF PivotsInv
<1>7. ASSUME WriteFails(w) \/ Crash PROVE PivotsInv'
  <2>1. UNCHANGED <<phase, levels>> /\ write'[w].at = "idle"
    BY <1>2, <1>7 DEF WriteFails, Crash, Unwritten
  <2>2. levelsCut' = (levelsCut \/ write[w].at = "expire")
    BY <1>7 DEF WriteFails, Crash, HalfWritten
  <2>3. levelsCut' \/ levels = NoKey \/ Renewed(levels)
    BY <2>2 DEF PivotsInv
  <2>4. Renewed(levels)' <=> Renewed(levels)
    BY <2>1 DEF Renewed
  <2>5. QED
    BY <1>1, <2>1, <2>3, <2>4 DEF PivotsInv
<1>8. CASE LevelsExpire
  <2>1. UNCHANGED <<phase, write, levelsCut>> /\ levels' = NoKey
    BY <1>8 DEF LevelsExpire, clockVars
  <2>2. OfToday(write[w].pivots)' <=> OfToday(write[w].pivots)
    BY <2>1 DEF OfToday, Open
  <2>3. QED
    BY <1>1, <2>1, <2>2 DEF PivotsInv
<1>9. CASE Advance
  <2>1. UNCHANGED <<levels, write, levelsCut>> /\ write[w].at = "idle" /\ phase' = phase + 1
    BY <1>9 DEF Advance, levelVars
  <2>2. levels # NoKey => OutlivesPhase(levels.ttl)
    BY <1>9 DEF Advance
  <2>3. levelsCut \/ levels = NoKey \/ Renewed(levels)
    BY <2>1 DEF PivotsInv
  <2>4. levels # NoKey /\ Renewed(levels) => Renewed(levels)'
    BY <1>2, <2>1, <2>2 DEF Renewed, OutlivesPhase
  <2>5. QED
    BY <1>1, <2>1, <2>3, <2>4 DEF PivotsInv
<1>10. \/ UNCHANGED <<phase, levels, write, levelsCut>> \/ LevelsExpire \/ Crash \/ Advance
       \/ Run(w) \/ Refresh(w) \/ SetLevels(w) \/ ExpireLevels(w) \/ WriteFails(w)
  BY DEF Next, StartPipeline, Fetch, Reset, SetExpiry, SetStrikes, SyncFails, OiTick, CheckLength, BackfillOi,
         SpotTick, PushSample, TrimWindow, ExpireWindow, PushFails, WindowExpires, levelVars, clockVars, vars
<1>11. QED
  BY <1>3, <1>4, <1>5, <1>6, <1>7, <1>8, <1>9, <1>10

\* With one writer, the pivots of a session are of its day, through crashes and failed
\* calls, unless one of them has come between two commands of a write.
THEOREM PivotsAreOfTheDay ==
  ASSUME NEW w, Writers = {w}
  PROVE  Spec => []PivotsOfTheDay
<1>1. Init => PivotsInv
  BY InitTyped DEF Init, PivotsInv, Unwritten
<1>2. PivotsInv /\ [Next]_vars => PivotsInv'
  BY PivotsNext
<1>3. PivotsInv => PivotsOfTheDay
  <2> SUFFICES ASSUME PivotsInv, Open, levels # NoKey, ~levelsCut PROVE phase - levels.pivots <= 2
    BY DEF PivotsOfTheDay
  <2>1. phase \in Nat /\ levels.pivots \in Nat /\ levels.ttl \in Nat \cup {NoKey}
    BY StoreAssumption DEF PivotsInv, TypeInv, TypeOK, StoreAssumption, Phases, Ttls
  <2>2. write[w].at = "expire" => OfToday(levels.pivots)
    BY DEF PivotsInv
  <2>3. write[w].at # "expire" => Renewed(levels)
    BY DEF PivotsInv
  <2>4. QED
    BY <2>1, <2>2, <2>3, RenewedOfToday DEF OfToday, Renewed, Open
<1>4. QED
  BY <1>1, <1>2, <1>3, PTL DEF Spec

================================================================================
