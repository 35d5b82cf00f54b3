---------------------------- MODULE MakerNodeProofs ----------------------------
(* Theorems about MakerNode, for any workers, markets, costs and bounds. *)
EXTENDS MakerNode, SetLemmas, FiniteSetTheorems, TLAPS

-----------------------------------------------------------------------------
(* The dict.                                                               *)

\* The dict holds entries, each key once.
Dict(st) ==
  /\ st \in Seq(Entries)
  /\ \A i, j \in DOMAIN st : st[i].key = st[j].key => i = j

LEMMA PositionFound ==
  ASSUME NEW k, Cached(k)
  PROVE  Position(k) \in DOMAIN store /\ store[Position(k)].key = k
BY DEF Cached, Position

LEMMA AssignedDict ==
  ASSUME Dict(store), NEW e \in Entries
  PROVE  /\ Dict(Assigned(e))
         /\ \A i \in DOMAIN Assigned(e) :
              Assigned(e)[i] = e \/ \E j \in DOMAIN store : Assigned(e)[i] = store[j]
<1>1. CASE Cached(e.key)
  BY <1>1, PositionFound DEF Dict, Assigned
<1>2. CASE ~Cached(e.key)
  BY <1>2 DEF Dict, Assigned, Cached
<1>3. QED
  BY <1>1, <1>2

LEMMA PoppedDict ==
  ASSUME Dict(store), NEW k
  PROVE  /\ Dict(Popped(k))
         /\ \A i \in DOMAIN Popped(k) : \E j \in DOMAIN store : Popped(k)[i] = store[j]
<1>1. CASE ~Cached(k)
  BY <1>1 DEF Dict, Popped
<1>2. CASE Cached(k)
  <2> DEFINE p == Position(k)
             Old(i) == IF i < p THEN i ELSE i + 1
  <2>1. p \in 1 .. Len(store)
    BY <1>2, PositionFound DEF Dict
  <2>2. Popped(k) = RemoveAt(store, p)
    BY <1>2 DEF Popped
  <2> HIDE DEF p
  <2>3. /\ Popped(k) \in Seq(Entries)
        /\ Len(Popped(k)) = Len(store) - 1
        /\ \A i \in 1 .. Len(store) - 1 : Popped(k)[i] = store[Old(i)]
    <3> DEFINE a == SubSeq(store, 1, p - 1)
               b == SubSeq(store, p + 1, Len(store))
    <3>1. store \in Seq(Entries) /\ Len(store) \in Nat /\ p \in Nat
      BY <2>1 DEF Dict
    <3>2. /\ a \in Seq(Entries) /\ Len(a) = p - 1
          /\ \A i \in 1 .. p - 1 : a[i] = store[i]
      BY <2>1, <3>1
    <3>3. /\ b \in Seq(Entries) /\ Len(b) = Len(store) - p
          /\ \A i \in 1 .. Len(store) - p : b[i] = store[p + i]
      BY <2>1, <3>1
    <3>4. Popped(k) = a \o b
      BY <2>2 DEF RemoveAt
    <3> HIDE DEF a, b
    <3>5. Popped(k) \in Seq(Entries) /\ Len(Popped(k)) = Len(store) - 1
      BY <3>1, <3>2, <3>3, <3>4
    <3>6. ASSUME NEW i \in 1 .. Len(store) - 1 PROVE Popped(k)[i] = store[Old(i)]
      <4>1. CASE i < p
        BY <3>1, <3>2, <3>3, <3>4, <4>1
      <4>2. CASE ~(i < p)
        <5>1. (a \o b)[i] = b[i - (p - 1)]
          BY <3>1, <3>2, <3>3, <4>2
        <5>2. b[i - (p - 1)] = store[p + (i - (p - 1))]
          BY <3>1, <3>3, <4>2
        <5>3. p + (i - (p - 1)) = i + 1
          BY <3>1
        <5>4. QED
          BY <3>4, <4>2, <5>1, <5>2, <5>3
      <4>3. QED
        BY <4>1, <4>2
    <3>7. QED
      BY <3>5, <3>6
  <2>4. \A i \in DOMAIN Popped(k) : Old(i) \in DOMAIN store /\ Popped(k)[i] = store[Old(i)]
    BY <2>1, <2>3 DEF Dict
  <2>5. \A i, j \in DOMAIN Popped(k) : Old(i) = Old(j) => i = j
    BY <2>1, <2>3 DEF Dict
  <2> HIDE DEF Old
  <2>6. ASSUME NEW i \in DOMAIN Popped(k), NEW j \in DOMAIN Popped(k),
               Popped(k)[i].key = Popped(k)[j].key
        PROVE  i = j
    <3>1. store[Old(i)].key = store[Old(j)].key
      BY <2>4, <2>6
    <3>2. Old(i) = Old(j)
      BY <2>4, <3>1 DEF Dict
    <3>3. QED
      BY <2>5, <3>2
  <2>7. QED
    BY <2>3, <2>4, <2>6 DEF Dict
<1>3. QED
  BY <1>1, <1>2

-----------------------------------------------------------------------------
(* Type correctness.                                                       *)

\* A worker past the lookup has the entry it read, one that evicts a victim.
Working ==
  \A w \in Workers :
    /\ pc[w] # "idle" => loc[w].key \in Markets
    /\ pc[w] \in {"age", "hit", "readd"} => loc[w].entry \in Entries
    /\ pc[w] = "next" => loc[w].size > 0

Typed == TypeOK /\ Working

LEMMA InitTyped == Init => Typed
<1> SUFFICES ASSUME Init PROVE Typed
  OBVIOUS
<1>1. NoLocals \in Locals
  BY DEF NoLocals, Locals
<1>2. QED
  BY <1>1 DEF Init, Typed, TypeOK, Working, Labels

\* A step of worker w that touches only its own label and locals.
LEMMA WorkerTyped ==
  ASSUME Typed, NEW w \in Workers,
         pc' = [pc EXCEPT ![w] = pc'[w]], loc' = [loc EXCEPT ![w] = loc'[w]],
         pc'[w] \in Labels, loc'[w] \in Locals,
         pc'[w] # "idle" => loc'[w].key \in Markets,
         pc'[w] \in {"age", "hit", "readd"} => loc'[w].entry \in Entries,
         pc'[w] = "next" => loc'[w].size > 0
  PROVE  pc' \in [Workers -> Labels] /\ loc' \in [Workers -> Locals] /\ Working'
BY DEF Typed, TypeOK, Working

LEMMA ReturnTyped ==
  ASSUME Typed, NEW w \in Workers, Return(w)
  PROVE  pc' \in [Workers -> Labels] /\ loc' \in [Workers -> Locals] /\ Working'
<1>1. pc' = [pc EXCEPT ![w] = pc'[w]] /\ pc'[w] = "idle" /\ "idle" \in Labels
  BY DEF Typed, TypeOK, Return, Goto, Labels
<1>2. loc' = [loc EXCEPT ![w] = loc'[w]] /\ loc'[w] \in Locals
  BY DEF Typed, TypeOK, Return, NoLocals, Locals
<1>3. QED
  BY <1>1, <1>2, WorkerTyped

LEMMA ThenTyped ==
  ASSUME Typed, NEW w \in Workers, NEW l \in Labels, Then(w, l), pc[w] # "idle", l # "next",
         l \in {"age", "hit", "readd"} => pc[w] \in {"age", "hit", "readd"}
  PROVE  pc' \in [Workers -> Labels] /\ loc' \in [Workers -> Locals] /\ Working'
BY WorkerTyped DEF Typed, TypeOK, Working, Then, Goto

\* What the new store has to satisfy.
LEMMA StoreTyped ==
  ASSUME Typed, Dict(store') \/ UNCHANGED store
  PROVE  store' \in Seq(Entries) /\ \A i, j \in DOMAIN store' : store'[i].key = store'[j].key => i = j
BY DEF Typed, TypeOK, Dict

LEMMA StepTyped ==
  ASSUME Typed, [Next]_vars
  PROVE  Typed'
<1> USE MakerAssumption
<1>0. Dict(store)
  BY DEF Typed, TypeOK, Dict
<1>1. ASSUME NEW w \in Workers, Generate(w) PROVE Typed'
  <2>1. pc' \in [Workers -> Labels] /\ loc' \in [Workers -> Locals] /\ Working'
    <3>1. PICK k \in Markets : loc' = [loc EXCEPT ![w].key = k]
      BY <1>1 DEF Generate
    <3>2. loc[w] \in Locals
      BY DEF Typed, TypeOK
    <3>3. loc' = [loc EXCEPT ![w] = loc'[w]] /\ loc'[w] \in Locals /\ loc'[w].key \in Markets
      BY <3>1, <3>2 DEF Typed, TypeOK, Locals
    <3>4. pc' = [pc EXCEPT ![w] = pc'[w]] /\ pc'[w] = "lookup" /\ "lookup" \in Labels
      BY <1>1 DEF Generate, Goto, Typed, TypeOK, Labels
    <3>5. QED
      BY <3>3, <3>4, WorkerTyped
  <2>2. QED
    BY <1>1, <2>1 DEF Generate, Typed, TypeOK
<1>2. ASSUME NEW w \in Workers, Lookup(w) PROVE Typed'
  <2>1. pc' \in [Workers -> Labels] /\ loc' \in [Workers -> Locals] /\ Working'
    <3>1. CASE ~Cached(loc[w].key) /\ Then(w, "call")
      BY <1>2, <3>1, ThenTyped DEF Lookup, At, Labels
    <3>2. CASE /\ Cached(loc[w].key) /\ Goto(w, "age")
               /\ loc' = [loc EXCEPT ![w].entry = store[Position(loc[w].key)]]
      <4>1. store[Position(loc[w].key)] \in Entries
        BY <1>0, <3>2, PositionFound DEF Dict
      <4>2. loc[w] \in Locals /\ loc[w].key \in Markets
        BY <1>2 DEF Lookup, At, Typed, TypeOK, Working
      <4>3. /\ loc' = [loc EXCEPT ![w] = loc'[w]] /\ loc'[w] \in Locals
            /\ loc'[w].key \in Markets /\ loc'[w].entry \in Entries
        BY <3>2, <4>1, <4>2 DEF Typed, TypeOK, Locals
      <4>4. pc' = [pc EXCEPT ![w] = pc'[w]] /\ pc'[w] = "age" /\ "age" \in Labels
        BY <3>2 DEF Goto, Typed, TypeOK, Labels
      <4>5. QED
        BY <4>3, <4>4, WorkerTyped
    <3>3. QED
      BY <1>2, <3>1, <3>2 DEF Lookup
  <2>2. QED
    BY <1>2, <2>1 DEF Lookup, Typed, TypeOK
<1>3. ASSUME NEW w \in Workers, CheckAge(w) PROVE Typed'
  <2>1. /\ loc[w] \in Locals /\ loc[w].key \in Markets /\ loc[w].entry \in Entries
    BY <1>3 DEF CheckAge, At, Typed, TypeOK, Working
  <2>2. /\ loc' = [loc EXCEPT ![w] = loc'[w]] /\ loc'[w] \in Locals
        /\ loc'[w].key \in Markets /\ loc'[w].entry \in Entries
    BY <1>3, <2>1 DEF CheckAge, Typed, TypeOK, Locals
  <2>3. pc' = [pc EXCEPT ![w] = pc'[w]] /\ pc'[w] \in Labels \ {"next"}
    BY <1>3 DEF CheckAge, Goto, Typed, TypeOK, Labels
  <2>4. pc' \in [Workers -> Labels] /\ loc' \in [Workers -> Locals] /\ Working'
    BY <2>2, <2>3, WorkerTyped
  <2>5. QED
    BY <1>3, <2>4 DEF CheckAge, Typed, TypeOK
<1>4. ASSUME NEW w \in Workers, Expire(w) PROVE Typed'
  <2>1. pc' \in [Workers -> Labels] /\ loc' \in [Workers -> Locals] /\ Working'
    BY <1>4, ThenTyped DEF Expire, At, Labels
  <2>2. Dict(store')
    BY <1>0, <1>4, PoppedDict DEF Expire
  <2>3. QED
    BY <1>4, <2>1, <2>2, StoreTyped DEF Expire, Typed, TypeOK
<1>5. ASSUME NEW w \in Workers, PopHit(w) PROVE Typed'
  <2>1. pc' \in [Workers -> Labels] /\ loc' \in [Workers -> Locals] /\ Working'
    BY <1>5, ThenTyped, ReturnTyped DEF PopHit, At, Labels
  <2>2. Dict(store')
    BY <1>0, <1>5, PoppedDict DEF PopHit
  <2>3. QED
    BY <1>5, <2>1, <2>2, StoreTyped DEF PopHit, Typed, TypeOK
<1>6. ASSUME NEW w \in Workers, ReAdd(w) PROVE Typed'
  <2>1. pc' \in [Workers -> Labels] /\ loc' \in [Workers -> Locals] /\ Working'
    BY <1>6, ReturnTyped DEF ReAdd
  <2>2. loc[w].entry \in Entries
    BY <1>6 DEF ReAdd, At, Typed, Working
  <2>3. Dict(store')
    BY <1>0, <1>6, <2>2, AssignedDict DEF ReAdd
  <2>4. QED
    BY <1>6, <2>1, <2>3, StoreTyped DEF ReAdd, Typed, TypeOK
<1>7. ASSUME NEW w \in Workers, CallLlm(w) PROVE Typed'
  <2>1. PICK c \in Costs, ok \in BOOLEAN :
          billed' = billed + c /\ loc' = [loc EXCEPT ![w].cost = c, ![w].valid = ok]
    BY <1>7 DEF CallLlm
  <2>2. loc[w] \in Locals /\ loc[w].key \in Markets /\ c \in Nat
    BY <1>7 DEF CallLlm, At, Typed, TypeOK, Working
  <2>3. loc' = [loc EXCEPT ![w] = loc'[w]] /\ loc'[w] \in Locals /\ loc'[w].key \in Markets
    BY <2>1, <2>2 DEF Typed, TypeOK, Locals
  <2>4. pc' = [pc EXCEPT ![w] = pc'[w]] /\ pc'[w] = "consume" /\ "consume" \in Labels
    BY <1>7 DEF CallLlm, Goto, Typed, TypeOK, Labels
  <2>5. pc' \in [Workers -> Labels] /\ loc' \in [Workers -> Locals] /\ Working'
    BY <2>3, <2>4, WorkerTyped
  <2>6. QED
    BY <1>7, <2>1, <2>2, <2>5 DEF CallLlm, Typed, TypeOK
<1>8. ASSUME NEW w \in Workers, CallFails(w) PROVE Typed'
  BY <1>8, ReturnTyped DEF CallFails, Typed, TypeOK
<1>9. ASSUME NEW w \in Workers, Consume(w) PROVE Typed'
  <2>1. pc' \in [Workers -> Labels] /\ loc' \in [Workers -> Locals] /\ Working'
    BY <1>9, ThenTyped, ReturnTyped DEF Consume, ConsumeTo, At, Labels
  <2>2. loc[w].cost \in Nat
    BY DEF Typed, TypeOK, Locals
  <2>3. spent' \in Nat
    BY <1>9, <2>2 DEF Consume, ConsumeTo, Typed, TypeOK
  <2>4. QED
    BY <1>9, <2>1, <2>3 DEF Consume, ConsumeTo, Typed, TypeOK
<1>10. ASSUME NEW w \in Workers, Put(w) PROVE Typed'
  <2>1. pc' \in [Workers -> Labels] /\ loc' \in [Workers -> Locals] /\ Working'
    BY <1>10, ThenTyped DEF Put, At, Labels
  <2>2. [key |-> loc[w].key, at |-> now, made |-> now] \in Entries
    BY <1>10 DEF Put, At, Typed, TypeOK, Working, Entries
  <2>3. Dict(store')
    BY <1>0, <1>10, <2>2, AssignedDict DEF Put
  <2>4. QED
    BY <1>10, <2>1, <2>3, StoreTyped DEF Put, Typed, TypeOK
<1>11. ASSUME NEW w \in Workers, Evict(w) PROVE Typed'
  <2>1. pc' \in [Workers -> Labels] /\ loc' \in [Workers -> Locals] /\ Working'
    <3>1. CASE Return(w)
      BY <3>1, ReturnTyped
    <3>2. CASE /\ Len(store) > CacheSize /\ Goto(w, "next")
               /\ loc' = [loc EXCEPT ![w].size = Len(store)]
      <4>1. loc[w] \in Locals /\ loc[w].key \in Markets /\ Len(store) \in Nat \ {0}
        BY <1>0, <1>11, <3>2 DEF Evict, At, Typed, TypeOK, Working, Dict
      <4>2. /\ loc' = [loc EXCEPT ![w] = loc'[w]] /\ loc'[w] \in Locals /\ loc'[w].key \in Markets
            /\ loc'[w].size > 0
        <5> DEFINE n == Len(store)
        <5>1. n \in Nat /\ n > 0
          BY <4>1
        <5>2. loc' = [loc EXCEPT ![w].size = n]
          BY <3>2
        <5> HIDE DEF n
        <5>3. QED
          BY <4>1, <5>1, <5>2 DEF Typed, TypeOK, Locals
      <4>3. pc' = [pc EXCEPT ![w] = pc'[w]] /\ pc'[w] = "next" /\ "next" \in Labels
        BY <3>2 DEF Goto, Typed, TypeOK, Labels
      <4>4. QED
        BY <4>2, <4>3, WorkerTyped
    <3>3. QED
      BY <1>11, <3>1, <3>2 DEF Evict
  <2>2. QED
    BY <1>11, <2>1 DEF Evict, Typed, TypeOK
<1>12. ASSUME NEW w \in Workers, NextVictim(w) PROVE Typed'
  <2>1. pc' \in [Workers -> Labels] /\ loc' \in [Workers -> Locals] /\ Working'
    <3>1. CASE Return(w)
      BY <3>1, ReturnTyped
    <3>2. CASE /\ Len(store) = loc[w].size /\ Goto(w, "pop")
               /\ loc' = [loc EXCEPT ![w].victim = Head(store).key]
      <4>1. Len(store) > 0
        BY <1>12, <3>2 DEF NextVictim, At, Typed, Working
      <4>2. Head(store).key \in Markets
        <5>1. store \in Seq(Entries) /\ Len(store) \in Nat
          BY <1>0 DEF Dict
        <5>2. Head(store) = store[1] /\ 1 \in 1 .. Len(store)
          BY <4>1, <5>1
        <5>3. Head(store) \in Entries
          BY <5>1, <5>2
        <5>4. QED
          BY <5>3 DEF Entries
      <4>3. loc[w] \in Locals /\ loc[w].key \in Markets
        BY <1>12 DEF NextVictim, At, Typed, TypeOK, Working
      <4>4. loc' = [loc EXCEPT ![w] = loc'[w]] /\ loc'[w] \in Locals /\ loc'[w].key \in Markets
        BY <3>2, <4>2, <4>3 DEF Typed, TypeOK, Locals
      <4>5. pc' = [pc EXCEPT ![w] = pc'[w]] /\ pc'[w] = "pop" /\ "pop" \in Labels
        BY <3>2 DEF Goto, Typed, TypeOK, Labels
      <4>6. QED
        BY <4>4, <4>5, WorkerTyped
    <3>3. QED
      BY <1>12, <3>1, <3>2 DEF NextVictim
  <2>2. QED
    BY <1>12, <2>1 DEF NextVictim, Typed, TypeOK
<1>13. ASSUME NEW w \in Workers, PopVictim(w) PROVE Typed'
  <2>1. pc' \in [Workers -> Labels] /\ loc' \in [Workers -> Locals] /\ Working'
    BY <1>13, ThenTyped, ReturnTyped DEF PopVictim, At, Labels
  <2>2. Dict(store')
    BY <1>0, <1>13, PoppedDict DEF PopVictim
  <2>3. QED
    BY <1>13, <2>1, <2>2, StoreTyped DEF PopVictim, Typed, TypeOK
<1>14. CASE Clock
  BY <1>14 DEF Clock, Typed, TypeOK, Working
<1>15. CASE UNCHANGED vars
  BY <1>15 DEF vars, Typed, TypeOK, Working
<1>16. QED
  BY <1>1, <1>2, <1>3, <1>4, <1>5, <1>6, <1>7, <1>8, <1>9, <1>10, <1>11, <1>12, <1>13,
     <1>14, <1>15 DEF Next, Step

\* Every variable keeps its type, and the cache holds a key once however the
\* get and put of several threads interleave.
THEOREM TypeCorrect == Spec => []TypeOK
<1>1. Typed => TypeOK
  BY DEF Typed
<1>2. QED
  BY InitTyped, StepTyped, <1>1, PTL DEF Spec

-----------------------------------------------------------------------------
(* The budget.                                                             *)

\* The budget's own count never exceeds the cap, whatever order the charges
\* of concurrent calls come in: consume refuses the one that would.
THEOREM WithinCap == Spec => [](spent <= Budget)
<1> USE MakerAssumption
<1>1. Init => spent <= Budget
  BY DEF Init
<1>2. TypeOK /\ spent <= Budget /\ [Next]_vars => (spent <= Budget)'
  BY DEF Next, Step, vars, Generate, Lookup, CheckAge, Expire, PopHit, ReAdd, CallLlm,
         CallFails, Consume, ConsumeTo, Put, Evict, NextVictim, PopVictim, Clock, TypeOK
<1>3. QED
  BY <1>1, <1>2, TypeCorrect, PTL DEF Spec

\* The calls billed and not yet charged, and what each will charge.
Owing == {w \in Workers : pc[w] = "consume"}
Owed == [w \in Workers |-> loc[w].cost]

\* SpentWithinBudget is not inductive: what a call has yet to charge must be
\* covered too, by what was billed beyond the charges already made.
Covered == spent + SumFunctionOnSet(Owed, Owing) <= billed

LEMMA OwingFinite ==
  ASSUME TypeOK
  PROVE  /\ IsFiniteSet(Owing)
         /\ \A w \in Workers : Owed[w] \in Nat
         /\ \A S \in SUBSET Workers : IsFiniteSet(S) /\ SumFunctionOnSet(Owed, S) \in Int
<1>1. Owing \subseteq Workers /\ IsFiniteSet(Workers)
  BY MakerAssumption DEF Owing
<1>2. \A w \in Workers : Owed[w] \in Nat
  BY DEF Owed, TypeOK, Locals
<1>3. \A S \in SUBSET Workers : IsFiniteSet(S)
  BY <1>1, FS_Subset
<1>4. \A S \in SUBSET Workers : SumFunctionOnSet(Owed, S) \in Int
  BY <1>2, <1>3, SumType
<1>5. QED
  BY <1>1, <1>2, <1>3, <1>4

\* A step that keeps the counters, and the calls that have yet to charge.
LEMMA CoveredKept ==
  ASSUME TypeOK, Covered, UNCHANGED <<spent, billed>>, Owing' = Owing,
         \A w \in Owing : loc'[w].cost = loc[w].cost
  PROVE  Covered'
<1>1. \A w \in Owing : Owed[w] \in Int /\ Owed[w] = Owed'[w]
  BY OwingFinite DEF Owed, Owing
<1>2. SumFunctionOnSet(Owed, Owing) = SumFunctionOnSet(Owed', Owing)
  BY <1>1, OwingFinite, SumAgrees
<1>3. QED
  BY <1>2 DEF Covered

LEMMA CoveredStep ==
  ASSUME TypeOK, TypeOK', Covered, [Next]_vars
  PROVE  Covered'
<1> USE MakerAssumption
<1>1. ASSUME NEW w \in Workers, CallLlm(w) PROVE Covered'
  <2>1. PICK c \in Costs, ok \in BOOLEAN :
          billed' = billed + c /\ loc' = [loc EXCEPT ![w].cost = c, ![w].valid = ok]
    BY <1>1 DEF CallLlm
  <2>2. w \notin Owing /\ Owing' = Owing \cup {w} /\ spent' = spent
    BY <1>1 DEF CallLlm, At, Goto, Owing, TypeOK
  <2>3. c \in Nat /\ Owed'[w] = c /\ \A v \in Owing : Owed'[v] = Owed[v]
    BY <2>1, <2>2 DEF Owed, Owing, TypeOK, Locals
  <2>4. \A v \in Owing \cup {w} : Owed'[v] \in Int
    BY <2>2, <2>3, OwingFinite DEF Owing
  <2>5. SumFunctionOnSet(Owed', Owing \cup {w}) = c + SumFunctionOnSet(Owed', Owing)
    BY <2>2, <2>3, <2>4, OwingFinite, SumAdds
  <2>6. SumFunctionOnSet(Owed', Owing) = SumFunctionOnSet(Owed, Owing)
    BY <2>3, <2>4, OwingFinite, SumAgrees
  <2>7. SumFunctionOnSet(Owed, Owing) \in Int
    BY OwingFinite DEF Owing
  <2>8. QED
    BY <2>1, <2>2, <2>3, <2>5, <2>6, <2>7 DEF Covered, TypeOK
<1>2. ASSUME NEW w \in Workers, Consume(w) PROVE Covered'
  <2>1. w \in Owing /\ Owing' = Owing \ {w} /\ billed' = billed
    BY <1>2 DEF Consume, ConsumeTo, At, Then, Return, Goto, Owing, TypeOK
  <2>2. spent' \in {spent, spent + Owed[w]}
    BY <1>2 DEF Consume, ConsumeTo, Owed
  <2>3. \A v \in Owing \ {w} : Owed'[v] = Owed[v] /\ Owed'[v] \in Int
    BY <1>2, OwingFinite DEF Consume, ConsumeTo, Then, Return, Owed, Owing, TypeOK
  <2>4. SumFunctionOnSet(Owed, Owing) = Owed[w] + SumFunctionOnSet(Owed, Owing \ {w})
    BY <2>1, OwingFinite, SumRemoves DEF Owing
  <2>5. IsFiniteSet(Owing \ {w}) /\ SumFunctionOnSet(Owed, Owing \ {w}) \in Int
    BY OwingFinite DEF Owing
  <2>6. SumFunctionOnSet(Owed', Owing \ {w}) = SumFunctionOnSet(Owed, Owing \ {w})
    BY <2>3, <2>5, SumAgrees
  <2>7. Owed[w] \in Nat
    BY OwingFinite
  <2>8. QED
    BY <2>1, <2>2, <2>4, <2>5, <2>6, <2>7 DEF Covered, TypeOK
<1>3. ASSUME NEW w \in Workers,
             \/ Generate(w) \/ Lookup(w) \/ CheckAge(w) \/ Expire(w) \/ PopHit(w) \/ ReAdd(w)
             \/ CallFails(w) \/ Put(w) \/ Evict(w) \/ NextVictim(w) \/ PopVictim(w)
      PROVE  Covered'
  <2>1. UNCHANGED <<spent, billed>>
    BY <1>3 DEF Generate, Lookup, CheckAge, Expire, PopHit, ReAdd, CallFails, Put, Evict,
                NextVictim, PopVictim
  <2>2. w \notin Owing /\ w \notin Owing'
    BY <1>3 DEF Generate, Lookup, CheckAge, Expire, PopHit, ReAdd, CallFails, Put, Evict,
                NextVictim, PopVictim, At, Goto, Then, Return, Owing, TypeOK
  <2>3. \A v \in Workers : v # w => pc'[v] = pc[v] /\ loc'[v] = loc[v]
    BY <1>3 DEF Generate, Lookup, CheckAge, Expire, PopHit, ReAdd, CallFails, Put, Evict,
                NextVictim, PopVictim, Goto, Then, Return, TypeOK
  <2>4. Owing' = Owing /\ \A v \in Owing : loc'[v].cost = loc[v].cost
    BY <2>2, <2>3 DEF Owing
  <2>5. QED
    BY <2>1, <2>4, CoveredKept
<1>4. CASE Clock \/ UNCHANGED vars
  BY <1>4, CoveredKept DEF Clock, vars, Owing
<1>5. QED
  BY <1>1, <1>2, <1>3, <1>4 DEF Next, Step

\* The budget's count stays within the cap and never exceeds what the provider
\* billed, however the bills and the charges of concurrent calls interleave.
THEOREM SpentIsBilled == Spec => []SpentWithinBudget
<1>1. Init => Covered
  <2>1. SUFFICES ASSUME Init PROVE Covered
    OBVIOUS
  <2>2. Owing = {} /\ spent = 0 /\ billed = 0
    BY <2>1 DEF Init, Owing
  <2>3. SumFunctionOnSet(Owed, Owing) = 0
    BY <2>2, SumOfNone
  <2>4. QED
    BY <2>2, <2>3 DEF Covered
<1>2. TypeOK /\ Covered /\ spent <= Budget => SpentWithinBudget
  <2>1. SUFFICES ASSUME TypeOK, Covered PROVE spent <= billed
    BY DEF SpentWithinBudget
  <2>2. SumFunctionOnSet(Owed, Owing) \in Nat
    <3>1. IsFiniteSet(Owing) /\ \A w \in Owing : Owed[w] \in Nat
      BY <2>1, OwingFinite DEF Owing
    <3>2. QED
      BY <3>1, SumIsNatural
  <2>3. QED
    BY <2>1, <2>2 DEF Covered, TypeOK
<1>3. QED
  BY <1>1, <1>2, CoveredStep, TypeCorrect, WithinCap, PTL DEF Spec

\* The workers that have been told to use the LLM and may still call it.
Past == {w \in Workers : pc[w] \in {"lookup", "age", "expire", "call"}}

\* FewLateCalls is not inductive: a late call is one of those that were past
\* the check when the budget ran out, and the one that ran it out was not.
LateBound ==
  /\ ~Exhausted => late = 0
  /\ Exhausted => late + Cardinality(Past) <= Cardinality(Workers) - 1

LEMMA PastFinite ==
  /\ IsFiniteSet(Past) /\ Cardinality(Past) \in Nat
  /\ Cardinality(Workers) \in Nat \ {0}
<1>1. IsFiniteSet(Workers) /\ Past \subseteq Workers
  BY MakerAssumption DEF Past
<1>2. QED
  BY <1>1, MakerAssumption, FS_Subset, FS_CardinalityType, FS_EmptySet

\* A step that adds no one to Past, keeps late and keeps the budget's verdict.
LEMMA LateKept ==
  ASSUME LateBound, TypeOK, Past' \subseteq Past, UNCHANGED <<spent, late>>
  PROVE  LateBound'
<1>1. Cardinality(Past') \in Nat /\ Cardinality(Past') <= Cardinality(Past)
  BY PastFinite, FS_Subset, FS_CardinalityType
<1>2. QED
  BY <1>1, PastFinite, MakerAssumption DEF LateBound, Exhausted, TypeOK

LEMMA LateStep ==
  ASSUME LateBound, TypeOK, [Next]_vars
  PROVE  LateBound'
<1> USE MakerAssumption
<1>1. ASSUME NEW w \in Workers, Generate(w) PROVE LateBound'
  BY <1>1 DEF Generate, LateBound, Exhausted, TypeOK
<1>2. ASSUME NEW w \in Workers, CallLlm(w) PROVE LateBound'
  <2>1. w \in Past /\ Past' = Past \ {w}
    BY <1>2 DEF CallLlm, At, Goto, Past, TypeOK
  <2>2. Cardinality(Past') = Cardinality(Past) - 1
    BY <2>1, PastFinite, FS_RemoveElement
  <2>3. spent' = spent /\ late' = (IF Exhausted THEN late + 1 ELSE late)
    BY <1>2 DEF CallLlm
  <2>4. QED
    BY <2>2, <2>3, PastFinite DEF LateBound, Exhausted, TypeOK
<1>3. ASSUME NEW w \in Workers, Consume(w) PROVE LateBound'
  <2>1. w \notin Past /\ Past' = Past
    BY <1>3 DEF Consume, ConsumeTo, At, Then, Return, Goto, Past, TypeOK
  <2>2. Cardinality(Past) <= Cardinality(Workers) - 1
    <3>1. Past \subseteq Workers \ {w}
      BY <2>1 DEF Past
    <3>2. IsFiniteSet(Workers \ {w}) /\ Cardinality(Workers \ {w}) = Cardinality(Workers) - 1
      BY FS_RemoveElement
    <3>3. QED
      BY <3>1, <3>2, FS_Subset
  <2>3. late' = late /\ spent' \in {spent, spent + loc[w].cost}
    BY <1>3 DEF Consume, ConsumeTo
  <2>4. loc[w].cost \in Nat
    BY DEF TypeOK, Locals
  <2>5. Exhausted => Exhausted'
    BY <2>3, <2>4 DEF Exhausted, TypeOK
  <2>6. QED
    BY <2>1, <2>2, <2>3, <2>5, PastFinite DEF LateBound, TypeOK
<1>4. ASSUME NEW w \in Workers,
             \/ Lookup(w) \/ CheckAge(w) \/ Expire(w) \/ PopHit(w) \/ ReAdd(w)
             \/ CallFails(w) \/ Put(w) \/ Evict(w) \/ NextVictim(w) \/ PopVictim(w)
      PROVE  LateBound'
  <2>1. UNCHANGED <<spent, late>>
    BY <1>4 DEF Lookup, CheckAge, Expire, PopHit, ReAdd, CallFails, Put, Evict,
                NextVictim, PopVictim
  <2>2. Past' \subseteq Past
    BY <1>4 DEF Lookup, CheckAge, Expire, PopHit, ReAdd, CallFails, Put, Evict,
                NextVictim, PopVictim, At, Goto, Then, Return, Past, TypeOK
  <2>3. QED
    BY <2>1, <2>2, LateKept
<1>5. CASE Clock \/ UNCHANGED vars
  <2>1. UNCHANGED <<spent, late, pc>>
    BY <1>5 DEF Clock, vars
  <2>2. QED
    BY <2>1, LateKept DEF Past
<1>6. QED
  BY <1>1, <1>2, <1>3, <1>4, <1>5 DEF Next, Step

\* Once the budget is exhausted, each other worker makes at most the one call
\* it was already past should_use_llm for.
THEOREM LateCallsBounded == Spec => []FewLateCalls
<1>1. Init => LateBound
  <2>1. ASSUME Init PROVE Past = {}
    BY <2>1 DEF Init, Past
  <2>2. QED
    BY <2>1, PastFinite, FS_EmptySet DEF Init, LateBound
<1>2. TypeOK /\ LateBound => FewLateCalls
  BY PastFinite DEF LateBound, FewLateCalls, TypeOK
<1>3. QED
  BY <1>1, <1>2, LateStep, TypeCorrect, PTL DEF Spec

-----------------------------------------------------------------------------
(* The age of an answer.                                                   *)

\* ServedFresh is not inductive: it needs that moving an entry to the end of
\* the dict, whoever does it, keeps the time its answer was put.
Dated ==
  /\ \A i \in DOMAIN store : store[i].made = store[i].at
  /\ \A w \in Workers :
       /\ pc[w] \in {"age", "hit", "readd"} => loc[w].entry.made = loc[w].entry.at
       /\ pc[w] \in {"hit", "readd"} => loc[w].asked - loc[w].entry.at <= Ttl

LEMMA DatedStep ==
  ASSUME Typed, Dated, [Next]_vars
  PROVE  Dated'
<1> USE MakerAssumption
<1>0. Dict(store)
  BY DEF Typed, TypeOK, Dict
<1>1. ASSUME NEW w \in Workers, Generate(w) \/ CallLlm(w) \/ CallFails(w) \/ Consume(w)
                                \/ Evict(w) \/ NextVictim(w)
      PROVE  Dated'
  <2>1. UNCHANGED store
    BY <1>1 DEF Generate, CallLlm, CallFails, Consume, ConsumeTo, Evict, NextVictim
  <2>2. \A v \in Workers : v # w => pc'[v] = pc[v] /\ loc'[v] = loc[v]
    BY <1>1 DEF Generate, CallLlm, CallFails, Consume, ConsumeTo, Evict, NextVictim, Goto,
                Then, Return, Typed, TypeOK
  <2>3. pc'[w] \notin {"age", "hit", "readd"}
    BY <1>1 DEF Generate, CallLlm, CallFails, Consume, ConsumeTo, Evict, NextVictim, Goto,
                Then, Return, Typed, TypeOK
  <2>4. QED
    BY <2>1, <2>2, <2>3 DEF Dated
<1>2. ASSUME NEW w \in Workers, Lookup(w) PROVE Dated'
  <2>1. CASE Then(w, "call")
    BY <1>2, <2>1 DEF Lookup, Then, Goto, Dated, Typed, TypeOK
  <2>2. CASE /\ Cached(loc[w].key) /\ Goto(w, "age")
             /\ loc' = [loc EXCEPT ![w].entry = store[Position(loc[w].key)]]
    <3> DEFINE e == store[Position(loc[w].key)]
    <3>1. e \in Entries /\ e.made = e.at
      BY <1>0, <2>2, PositionFound DEF Dict, Dated
    <3>2. loc' = [loc EXCEPT ![w].entry = e]
      BY <2>2
    <3> HIDE DEF e
    <3>3. loc'[w].entry = e
      BY <3>2 DEF Typed, TypeOK, Locals
    <3>4. pc'[w] = "age" /\ \A v \in Workers : v # w => pc'[v] = pc[v] /\ loc'[v] = loc[v]
      BY <2>2, <3>2 DEF Goto, Typed, TypeOK
    <3>5. QED
      BY <1>2, <3>1, <3>3, <3>4 DEF Lookup, Dated
  <2>3. QED
    BY <1>2, <2>1, <2>2 DEF Lookup
<1>3. ASSUME NEW w \in Workers, CheckAge(w) PROVE Dated'
  <2>1. loc'[w].entry = loc[w].entry /\ loc'[w].asked = now
    BY <1>3 DEF CheckAge, Typed, TypeOK, Locals
  <2>2. /\ pc[w] = "age" /\ pc'[w] \in {"expire", "hit"}
        /\ pc'[w] = "hit" => ~(now - loc[w].entry.at > Ttl)
        /\ \A v \in Workers : v # w => pc'[v] = pc[v] /\ loc'[v] = loc[v]
    BY <1>3 DEF CheckAge, At, Goto, Typed, TypeOK
  <2>3. loc[w].entry.at \in Nat
    BY <2>2 DEF Typed, Working, Entries
  <2>4. QED
    BY <1>3, <2>1, <2>2, <2>3 DEF CheckAge, Dated, Typed, TypeOK
<1>4. ASSUME NEW w \in Workers, Expire(w) \/ PopHit(w) \/ PopVictim(w) PROVE Dated'
  <2>1. \A i \in DOMAIN store' : \E j \in DOMAIN store : store'[i] = store[j]
    BY <1>0, <1>4, PoppedDict DEF Expire, PopHit, PopVictim
  <2>2. \A v \in Workers : v # w => pc'[v] = pc[v] /\ loc'[v] = loc[v]
    BY <1>4 DEF Expire, PopHit, PopVictim, Goto, Then, Return, Typed, TypeOK
  <2>3. \/ pc'[w] \notin {"age", "hit", "readd"}
        \/ pc[w] = "hit" /\ pc'[w] = "readd" /\ loc'[w] = loc[w]
    BY <1>4 DEF Expire, PopHit, PopVictim, At, Goto, Then, Return, Typed, TypeOK
  <2>4. QED
    BY <2>1, <2>2, <2>3 DEF Dated
<1>5. ASSUME NEW w \in Workers, ReAdd(w) PROVE Dated'
  <2>1. loc[w].entry \in Entries /\ loc[w].entry.made = loc[w].entry.at
    BY <1>5 DEF ReAdd, At, Typed, Working, Dated
  <2>2. \A i \in DOMAIN store' : store'[i].made = store'[i].at
    BY <1>0, <1>5, <2>1, AssignedDict DEF ReAdd, Dated
  <2>3. \A v \in Workers : pc'[v] # "idle" => pc'[v] = pc[v] /\ loc'[v] = loc[v]
    BY <1>5 DEF ReAdd, Goto, Return, Typed, TypeOK
  <2>4. QED
    BY <2>2, <2>3 DEF Dated
<1>6. ASSUME NEW w \in Workers, Put(w) PROVE Dated'
  <2> DEFINE e == [key |-> loc[w].key, at |-> now, made |-> now]
  <2>1. e \in Entries /\ e.made = e.at
    BY <1>6 DEF Put, At, Typed, TypeOK, Working, Entries
  <2>2. store' = Assigned(e)
    BY <1>6 DEF Put
  <2> HIDE DEF e
  <2>3. \A i \in DOMAIN store' : store'[i].made = store'[i].at
    BY <1>0, <2>1, <2>2, AssignedDict DEF Dated
  <2>4. \A v \in Workers : pc'[v] # "evict" => pc'[v] = pc[v] /\ loc'[v] = loc[v]
    BY <1>6 DEF Put, Goto, Then, Typed, TypeOK
  <2>5. loc' = loc
    BY <1>6 DEF Put, Then
  <2>6. QED
    BY <2>3, <2>4, <2>5 DEF Dated
<1>7. CASE Clock \/ UNCHANGED vars
  BY <1>7 DEF Clock, vars, Dated
<1>8. QED
  BY <1>1, <1>2, <1>3, <1>4, <1>5, <1>6, <1>7 DEF Next, Step

\* What get takes for a hit was put at most Ttl before it, however many hits
\* of however many threads have popped and re-added the entry since.
THEOREM HitsAreFresh == Spec => []ServedFresh
<1>1. Init => Dated
  BY DEF Init, Dated
<1>2. Dated => ServedFresh
  BY DEF Dated, ServedFresh
<1>3. QED
  BY <1>1, <1>2, InitTyped, StepTyped, DatedStep, PTL DEF Spec
=============================================================================
