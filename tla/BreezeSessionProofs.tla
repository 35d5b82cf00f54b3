-------------------------- MODULE BreezeSessionProofs --------------------------
(* Theorems about BreezeSession, for any faults, spans of time and bounds. *)
EXTENDS BreezeSession, SetLemmas, SequenceTheorems

-----------------------------------------------------------------------------
(* Types.                                                                  *)

Callers == {"none", "session", "refresh", "get", "relogin"}
Locals == [token : Nat, intact : BOOLEAN, caller : Callers]

WorldTyped ==
  /\ now \in Nat /\ crashes \in Nat /\ issuedAt \in Seq(Nat)
  /\ sent \in Seq(Nat) /\ \A i \in 1 .. Len(sent) : sent[i] \in 1 .. Len(issuedAt)
  /\ runs \in Seq(Nat) /\ Len(runs) = Len(sent)

ListenerTyped ==
  /\ forgotten \in 0 .. Len(sent) /\ offset \in 0 .. Len(sent)
  /\ handed \in Seq(Nat) /\ \A i \in 1 .. Len(handed) : handed[i] \in 1 .. offset
  /\ jobDue \in BOOLEAN

ManagerTyped == client \in Nat /\ token \in Nat /\ fetchedAt \in Nat \cup {Never}
DiskTyped == redis \in [token : Nat, at : Nat] /\ env \in [token : Nat, intact : BOOLEAN]
ThreadsTyped == pc \in [Workers -> Labels] /\ loc \in [Workers -> Locals]

Typed == WorldTyped /\ ListenerTyped /\ ManagerTyped /\ DiskTyped /\ ThreadsTyped

LEMMA TypedIsTypeOK == Typed => TypeOK
<1> SUFFICES ASSUME Typed PROVE TypeOK
  OBVIOUS
<1>1. WorldTyped /\ ListenerTyped /\ ManagerTyped /\ DiskTyped /\ ThreadsTyped
  BY DEF Typed
<1>2. issuedAt \in Seq(Nat) /\ Issued = 1 .. Len(issuedAt) /\ DOMAIN sent = 1 .. Len(sent)
  BY <1>1 DEF WorldTyped, Issued
<1>3. sent \in Seq(Issued)
  <2>1. \A i \in 1 .. Len(sent) : sent[i] \in Issued
    BY <1>1, <1>2 DEF WorldTyped
  <2> DEFINE f == [i \in 1 .. Len(sent) |-> sent[i]]
  <2>2. f \in Seq(Issued)
    <3>1. Len(sent) \in Nat
      BY <1>1 DEF WorldTyped
    <3>2. QED
      BY <2>1, <3>1, IsASeq
  <2>3. f = sent
    BY <1>1 DEF WorldTyped
  <2>4. QED
    BY <2>2, <2>3
<1>4. runs \in [DOMAIN sent -> Nat]
  BY <1>1, <1>2 DEF WorldTyped
<1>5. handed \in Seq(DOMAIN sent)
  <2>1. Len(handed) \in Nat /\ \A i \in 1 .. Len(handed) : handed[i] \in DOMAIN sent
    BY <1>1, <1>2 DEF WorldTyped, ListenerTyped
  <2> DEFINE f == [i \in 1 .. Len(handed) |-> handed[i]]
  <2>2. f \in Seq(DOMAIN sent)
    BY <2>1, IsASeq
  <2>3. f = handed
    BY <1>1 DEF ListenerTyped
  <2>4. QED
    BY <2>2, <2>3
<1>6. QED
  BY <1>1, <1>2, <1>3, <1>4, <1>5
     DEF TypeOK, WorldTyped, ListenerTyped, ManagerTyped, DiskTyped, ThreadsTyped, Locals, Callers

LEMMA TypedInit == Init => Typed
<1> SUFFICES ASSUME Init PROVE Typed
  OBVIOUS
<1>1. WorldTyped /\ ListenerTyped
  <2>1. <<>> \in Seq(Nat) /\ Len(<<>>) = 0
    OBVIOUS
  <2>2. \A i \in 1 .. 0 : FALSE
    OBVIOUS
  <2>3. now = 0 /\ crashes = 0 /\ issuedAt = <<>> /\ sent = <<>> /\ runs = <<>>
    BY DEF Init
  <2>4. WorldTyped
    BY <2>1, <2>2, <2>3 DEF WorldTyped
  <2>5. forgotten = 0 /\ offset = 0 /\ handed = <<>> /\ jobDue = FALSE /\ sent = <<>>
    BY DEF Init
  <2>6. ListenerTyped
    <3>1. Len(sent) = 0 /\ Len(handed) = 0 /\ handed \in Seq(Nat)
      BY <2>1, <2>5
    <3>2. forgotten \in 0 .. Len(sent) /\ offset \in 0 .. Len(sent)
      BY <2>5, <3>1
    <3>3. QED
      BY <2>2, <2>5, <3>1, <3>2 DEF ListenerTyped
  <2>7. QED
    BY <2>4, <2>6
<1>2. ManagerTyped /\ DiskTyped /\ ThreadsTyped
  BY DEF Init, ManagerTyped, DiskTyped, ThreadsTyped, Labels, Locals, Callers, NoLocals
<1>3. QED
  BY <1>1, <1>2 DEF Typed

\* What a poll hands out: the updates after those that Telegram has forgotten.
Fresh(f) == [i \in 1 .. Len(sent) - f |-> f + i]

LEMMA PollHands ==
  ASSUME Typed, Poll
  PROVE  /\ forgotten' \in 0 .. Len(sent) /\ offset <= forgotten' /\ forgotten <= forgotten'
         /\ offset' = IF forgotten' < Len(sent) THEN Len(sent) ELSE offset
         /\ handed' = handed \o Fresh(forgotten') /\ Fresh(forgotten') \in Seq(Nat)
         /\ Len(Fresh(forgotten')) = Len(sent) - forgotten'
         /\ Len(sent) \in Nat /\ offset' \in 0 .. Len(sent) /\ offset <= offset'
<1>1. /\ forgotten' = Max({forgotten, offset})
      /\ offset' = IF forgotten' < Len(sent) THEN Len(sent) ELSE offset
      /\ handed' = handed \o Fresh(forgotten')
  BY DEF Poll, PollTo, Fresh
<1>2. forgotten \in 0 .. Len(sent) /\ offset \in 0 .. Len(sent) /\ Len(sent) \in Nat
  BY DEF Typed, ListenerTyped, WorldTyped
<1>3. forgotten' = IF forgotten >= offset THEN forgotten ELSE offset
  BY <1>1, <1>2, MaxOfTwo
<1>4. forgotten' \in 0 .. Len(sent) /\ offset <= forgotten' /\ forgotten <= forgotten'
  BY <1>2, <1>3
<1>5. ASSUME NEW f \in 0 .. Len(sent)
      PROVE  Fresh(f) \in Seq(Nat) /\ Len(Fresh(f)) = Len(sent) - f
  BY <1>2 DEF Fresh
<1>6. Fresh(forgotten') \in Seq(Nat) /\ Len(Fresh(forgotten')) = Len(sent) - forgotten'
  BY <1>4, <1>5
<1>7. offset' \in 0 .. Len(sent) /\ offset <= offset'
  BY <1>1, <1>2
<1>8. QED
  BY <1>1, <1>2, <1>4, <1>6, <1>7

\* The local variables that _build_client begins with.
LEMMA BuildBegins ==
  ASSUME ThreadsTyped, NEW w \in Workers, NEW t \in Nat, NEW caller \in Callers, Build(w, t, caller)
  PROVE  /\ ThreadsTyped' /\ pc'[w] = "build" /\ loc'[w].token = t
         /\ \A v \in Workers \ {w} : pc'[v] = pc[v] /\ loc'[v] = loc[v]
<1>1. pc' = [pc EXCEPT ![w] = "build"] /\ loc' = [loc EXCEPT ![w].token = t, ![w].caller = caller]
  BY DEF Build, Goto
<1>2. loc \in [Workers -> Locals] /\ pc \in [Workers -> Labels] /\ "build" \in Labels
  BY DEF ThreadsTyped, Labels
<1>3. loc'[w] = [loc[w] EXCEPT !.token = t, !.caller = caller]
  BY <1>1, <1>2
<1>4. loc'[w] \in Locals /\ loc'[w].token = t
  BY <1>2, <1>3 DEF Locals
<1>5. QED
  BY <1>1, <1>2, <1>4 DEF ThreadsTyped

LEMMA TypedStep == Typed /\ [Next]_vars => Typed'
<1> SUFFICES ASSUME Typed, [Next]_vars PROVE Typed'
  OBVIOUS
<1>1. WorldTyped /\ ListenerTyped /\ ManagerTyped /\ DiskTyped /\ ThreadsTyped
  BY DEF Typed
<1>2. ASSUME NEW w \in Workers, HandleSession(w)
      PROVE  /\ handed' = Tail(handed) /\ handed # <<>> /\ Head(handed) \in 1 .. Len(sent)
             /\ runs' = [runs EXCEPT ![Head(handed)] = @ + 1] /\ sent[Head(handed)] \in Nat
             /\ UNCHANGED <<now, crashes, issuedAt, sent, forgotten, offset, jobDue>>
  BY <1>1, <1>2 DEF HandleSession, WorldTyped, ListenerTyped, worldVars
<1>3. WorldTyped'
  <2>1. ASSUME NEW w \in Workers, HandleSession(w) PROVE WorldTyped'
    <3> DEFINE h == Head(handed)
    <3>1. /\ runs \in Seq(Nat) /\ Len(runs) = Len(sent) /\ h \in 1 .. Len(runs)
          /\ runs' = [runs EXCEPT ![h] = runs[h] + 1]
      BY <1>1, <1>2, <2>1 DEF WorldTyped
    <3> HIDE DEF h
    <3>2. runs[h] + 1 \in Nat
      BY <3>1
    <3>3. runs' \in Seq(Nat) /\ Len(runs') = Len(runs)
      BY <3>1, <3>2, ExceptSeq
    <3>4. QED
      BY <1>1, <1>2, <2>1, <3>1, <3>3 DEF WorldTyped
  <2>2. CASE Send
    <3> DEFINE n == Len(issuedAt) + 1
    <3>1. /\ issuedAt' = Append(issuedAt, now) /\ sent' = Append(sent, n) /\ runs' = Append(runs, 0)
          /\ UNCHANGED <<now, crashes>>
      BY <2>2 DEF Send
    <3>2. /\ issuedAt' \in Seq(Nat) /\ Len(issuedAt') = n /\ sent' \in Seq(Nat) /\ Len(sent') = Len(sent) + 1
          /\ runs' \in Seq(Nat) /\ Len(runs') = Len(runs) + 1 /\ n \in Nat
      BY <1>1, <3>1 DEF WorldTyped
    <3>3. \A i \in 1 .. Len(sent') : sent'[i] \in 1 .. Len(issuedAt')
      BY <1>1, <3>1, <3>2 DEF WorldTyped
    <3>4. QED
      BY <1>1, <3>1, <3>2, <3>3 DEF WorldTyped
  <2>3. ASSUME NEW w \in Workers, Refresh(w) \/ ChooseToken(w) PROVE WorldTyped'
    <3>1. /\ issuedAt' = issuedAt \/ issuedAt' = Append(issuedAt, now)
          /\ UNCHANGED <<now, crashes, sent, runs>>
      BY <2>3 DEF Refresh, ChooseToken, Login
    <3>2. issuedAt' \in Seq(Nat) /\ Len(issuedAt) \in Nat /\ Len(issuedAt') \in Nat
          /\ Len(issuedAt) <= Len(issuedAt')
      <4>1. issuedAt \in Seq(Nat) /\ now \in Nat /\ Len(issuedAt) \in Nat
        BY <1>1 DEF WorldTyped
      <4>2. Append(issuedAt, now) \in Seq(Nat) /\ Len(Append(issuedAt, now)) = Len(issuedAt) + 1
        BY <4>1
      <4>3. QED
        BY <3>1, <4>1, <4>2
    <3>3. \A i \in 1 .. Len(sent) : sent[i] \in 1 .. Len(issuedAt')
      BY <1>1, <3>2 DEF WorldTyped
    <3>4. QED
      BY <1>1, <3>1, <3>2, <3>3 DEF WorldTyped
  <2>4. CASE Clock \/ Crash
    BY <1>1, <2>4 DEF Clock, Crash, WorldTyped
  <2>5. CASE UNCHANGED <<now, crashes, issuedAt, sent, runs>>
    BY <1>1, <2>5 DEF WorldTyped
  <2>6. QED
    BY <2>1, <2>2, <2>3, <2>4, <2>5
       DEF Next, Call, vars, worldVars, Poll, PollTo, RefreshNothing, GenerateSession, SetClient, SetToken,
           CacheToken, ReadEnv, SkipEnv, TruncateEnv, WriteEnv, Persisted, ReuseClient, LoadToken
<1>4. ListenerTyped'
  <2>1. ASSUME NEW w \in Workers, HandleSession(w) PROVE ListenerTyped'
    <3>1. Tail(handed) \in Seq(Nat) /\ Len(Tail(handed)) = Len(handed) - 1
          /\ \A i \in 1 .. Len(handed) - 1 : Tail(handed)[i] = handed[i + 1]
      BY <1>1, <1>2, <2>1 DEF ListenerTyped
    <3>2. Len(handed) \in Nat /\ Len(Tail(handed)) \in Nat
      BY <1>1, <3>1 DEF ListenerTyped
    <3>3. \A i \in 1 .. Len(Tail(handed)) : Tail(handed)[i] \in 1 .. offset
      <4>1. \A i \in 1 .. Len(Tail(handed)) : i \in 1 .. Len(handed) - 1 /\ i + 1 \in 1 .. Len(handed)
        BY <3>1, <3>2
      <4>2. QED
        BY <1>1, <3>1, <4>1 DEF ListenerTyped
    <3>4. QED
      BY <1>1, <1>2, <2>1, <3>1, <3>3 DEF ListenerTyped
  <2>2. CASE Send
    <3>1. Len(sent') = Len(sent) + 1 /\ UNCHANGED <<forgotten, offset, handed, jobDue>>
      BY <1>1, <2>2 DEF Send, WorldTyped, listenerVars
    <3>2. QED
      BY <1>1, <3>1 DEF ListenerTyped, WorldTyped
  <2>3. CASE Poll
    <3> DEFINE f == forgotten'
               g == Fresh(f)
               n == Len(sent)
    <3>1. /\ f \in 0 .. n /\ offset <= f /\ offset' = (IF f < n THEN n ELSE offset)
          /\ handed' = handed \o g /\ g \in Seq(Nat) /\ Len(g) = n - f /\ n \in Nat
          /\ offset' \in 0 .. n /\ offset <= offset' /\ offset \in Nat
      BY <1>1, <2>3, PollHands DEF ListenerTyped
    <3>2. sent' = sent /\ jobDue' = jobDue
      BY <2>3 DEF Poll, PollTo
    <3>3. \A i \in 1 .. n - f : g[i] = f + i
      BY DEF Fresh
    <3>4. handed \in Seq(Nat) /\ \A i \in 1 .. Len(handed) : handed[i] \in 1 .. offset
      BY <1>1 DEF ListenerTyped
    <3> HIDE DEF f, g, n
    <3>5. /\ handed \o g \in Seq(Nat) /\ Len(handed \o g) = Len(handed) + (n - f) /\ Len(handed) \in Nat
          /\ \A i \in 1 .. Len(handed) + (n - f) :
               (handed \o g)[i] = IF i <= Len(handed) THEN handed[i] ELSE g[i - Len(handed)]
      <4>1. /\ handed \o g \in Seq(Nat) /\ Len(handed \o g) = Len(handed) + Len(g)
            /\ \A i \in 1 .. Len(handed) + Len(g) :
                 (handed \o g)[i] = IF i <= Len(handed) THEN handed[i] ELSE g[i - Len(handed)]
        BY <3>1, <3>4, ConcatProperties
      <4>2. Len(g) = n - f /\ Len(handed) \in Nat
        BY <3>1, <3>4
      <4>3. QED
        BY <4>1, <4>2
    <3>6. ASSUME NEW i \in 1 .. Len(handed) + (n - f) PROVE (handed \o g)[i] \in 1 .. offset'
      <4>1. CASE i <= Len(handed)
        <5>1. i \in 1 .. Len(handed) /\ (handed \o g)[i] = handed[i]
          BY <3>5, <4>1
        <5>2. handed[i] \in 1 .. offset
          BY <3>4, <5>1
        <5>3. QED
          BY <3>1, <5>1, <5>2
      <4>2. CASE ~(i <= Len(handed))
        <5>1. i - Len(handed) \in 1 .. n - f
          BY <3>1, <3>5, <4>2
        <5>2. (handed \o g)[i] = f + (i - Len(handed))
          BY <3>3, <3>5, <4>2, <5>1
        <5>3. QED
          BY <3>1, <3>5, <5>1, <5>2
      <4>3. QED
        BY <4>1, <4>2
    <3>7. QED
      BY <1>1, <3>1, <3>2, <3>5, <3>6 DEF ListenerTyped, f, n
  <2>4. ASSUME NEW w \in Workers, Refresh(w) \/ RefreshNothing(w) PROVE ListenerTyped'
    <3>1. jobDue' = FALSE /\ UNCHANGED <<sent, forgotten, offset, handed>>
      BY <2>4 DEF Refresh, RefreshNothing, worldVars
    <3>2. QED
      BY <1>1, <3>1 DEF ListenerTyped
  <2>5. CASE Clock
    <3>1. (now' % Day = 0) \in BOOLEAN
      OBVIOUS
    <3>2. jobDue' \in BOOLEAN
      BY <2>5, <3>1, Zenon DEF Clock
    <3>3. UNCHANGED <<sent, forgotten, offset, handed>>
      BY <2>5 DEF Clock
    <3>4. QED
      BY <1>1, <3>2, <3>3 DEF ListenerTyped
  <2>6. CASE Crash
    <3>1. offset' = 0 /\ handed' = <<>> /\ jobDue' = FALSE /\ sent' = sent /\ forgotten' = forgotten
      BY <2>6 DEF Crash
    <3>2. <<>> \in Seq(Nat) /\ Len(<<>>) = 0 /\ \A i \in 1 .. 0 : FALSE
      OBVIOUS
    <3>3. Len(sent) \in Nat /\ 0 \in 0 .. Len(sent)
      BY <1>1 DEF WorldTyped
    <3>4. QED
      BY <1>1, <3>1, <3>2, <3>3 DEF ListenerTyped
  <2>7. CASE UNCHANGED <<sent, forgotten, offset, handed, jobDue>>
    BY <1>1, <2>7 DEF ListenerTyped
  <2>8. QED
    BY <2>1, <2>2, <2>3, <2>4, <2>5, <2>6, <2>7
       DEF Next, Call, vars, worldVars, listenerVars, ChooseToken, GenerateSession, SetClient, SetToken,
           CacheToken, ReadEnv, SkipEnv, TruncateEnv, WriteEnv, Persisted, ReuseClient, LoadToken
<1>5. ManagerTyped'
  <2>1. ASSUME NEW w \in Workers, SetClient(w) \/ SetToken(w) \/ LoadToken(w) PROVE ManagerTyped'
    <3>1. loc[w].token \in Nat /\ Cached \in Nat /\ now \in Nat
      BY <1>1 DEF ThreadsTyped, Locals, DiskTyped, Cached, WorldTyped
    <3>2. QED
      BY <1>1, <2>1, <3>1 DEF SetClient, SetToken, LoadToken, ManagerTyped
  <2>2. CASE Crash
    BY <1>1, <2>2 DEF Crash, ManagerTyped, DiskTyped
  <2>3. CASE UNCHANGED managerVars
    BY <1>1, <2>3 DEF managerVars, ManagerTyped
  <2>4. QED
    BY <2>1, <2>2, <2>3
       DEF Next, Call, vars, HandleSession, Send, Poll, PollTo, Refresh, RefreshNothing, ChooseToken, GenerateSession,
           CacheToken, ReadEnv, SkipEnv, TruncateEnv, WriteEnv, Persisted, ReuseClient, Clock
<1>6. DiskTyped'
  <2>1. ASSUME NEW w \in Workers, CacheToken(w) \/ TruncateEnv(w) \/ WriteEnv(w) PROVE DiskTyped'
    <3>1. loc[w] \in Locals /\ now \in Nat
      BY <1>1 DEF ThreadsTyped, WorldTyped
    <3>2. \/ redis' = redis \/ redis' = [token |-> loc[w].token, at |-> now]
      BY <2>1 DEF CacheToken, TruncateEnv, WriteEnv, Persisted
    <3>3. \/ env' = env \/ env' = [token |-> 0, intact |-> FALSE]
          \/ env' = [token |-> loc[w].token, intact |-> loc[w].intact]
      BY <2>1 DEF CacheToken, TruncateEnv, WriteEnv
    <3>4. redis' \in [token : Nat, at : Nat]
      BY <1>1, <3>1, <3>2 DEF DiskTyped, Locals
    <3>5. loc[w].token \in Nat /\ loc[w].intact \in BOOLEAN
      BY <3>1 DEF Locals
    <3>6. \A t \in Nat, b \in BOOLEAN : [token |-> t, intact |-> b] \in [token : Nat, intact : BOOLEAN]
      OBVIOUS
    <3>7. [token |-> 0, intact |-> FALSE] \in [token : Nat, intact : BOOLEAN]
      OBVIOUS
    <3>8. env' \in [token : Nat, intact : BOOLEAN]
      BY <1>1, <3>3, <3>5, <3>6, <3>7, Zenon DEF DiskTyped
    <3>9. QED
      BY <3>4, <3>8 DEF DiskTyped
  <2>2. CASE UNCHANGED <<redis, env>>
    BY <1>1, <2>2 DEF DiskTyped
  <2>3. QED
    BY <2>1, <2>2
       DEF Next, Call, vars, diskVars, HandleSession, Send, Poll, PollTo, Refresh, RefreshNothing, ChooseToken,
           GenerateSession, SetClient, SetToken, ReadEnv, SkipEnv, Persisted, ReuseClient, LoadToken, Clock, Crash
<1>7. ThreadsTyped'
  <2>1. /\ pc \in [Workers -> Labels] /\ loc \in [Workers -> Locals] /\ NoLocals \in Locals
        /\ {"session", "refresh", "get", "relogin"} \subseteq Callers /\ token \in Nat
        /\ Len(issuedAt) + 1 \in Nat /\ env.intact \in BOOLEAN
    BY <1>1 DEF ThreadsTyped, NoLocals, Locals, Callers, ManagerTyped, WorldTyped, DiskTyped
  <2>2. ASSUME NEW w \in Workers, Return(w) PROVE ThreadsTyped'
    BY <2>1, <2>2 DEF Return, Goto, ThreadsTyped, Labels
  <2>3. ASSUME NEW w \in Workers, HandleSession(w) PROVE ThreadsTyped'
    <3>1. Return(w) \/ Build(w, sent[Head(handed)], "session")
      BY <2>3 DEF HandleSession
    <3>2. QED
      BY <1>1, <1>2, <2>1, <2>2, <2>3, <3>1, BuildBegins
  <2>4. ASSUME NEW w \in Workers, Refresh(w) PROVE ThreadsTyped'
    BY <1>1, <2>1, <2>4, BuildBegins DEF Refresh, Login
  <2>5. ASSUME NEW w \in Workers, ChooseToken(w) PROVE ThreadsTyped'
    <3>1. Return(w) \/ Build(w, token, "get") \/ Build(w, Len(issuedAt) + 1, "relogin")
      BY <2>5 DEF ChooseToken, Login
    <3>2. QED
      BY <1>1, <2>1, <2>2, <3>1, BuildBegins
  <2>6. ASSUME NEW w \in Workers, SkipEnv(w) \/ WriteEnv(w) PROVE ThreadsTyped'
    <3>1. Return(w) \/ Build(w, loc[w].token, "get")
      BY <2>6 DEF SkipEnv, WriteEnv, Persisted
    <3>2. loc[w].token \in Nat
      BY <2>1 DEF Locals
    <3>3. QED
      BY <1>1, <2>1, <2>2, <3>1, <3>2, BuildBegins
  <2>7. ASSUME NEW w \in Workers,
               GenerateSession(w) \/ SetClient(w) \/ SetToken(w) \/ CacheToken(w) \/ TruncateEnv(w) \/ LoadToken(w)
        PROVE  ThreadsTyped'
    <3>1. Return(w) \/ \E l \in Labels : Then(w, l)
      BY <2>7 DEF GenerateSession, SetClient, SetToken, CacheToken, TruncateEnv, LoadToken, Labels
    <3>2. QED
      BY <2>1, <2>2, <3>1 DEF Then, Goto, ThreadsTyped
  <2>8. ASSUME NEW w \in Workers, ReadEnv(w) PROVE ThreadsTyped'
    <3>1. pc' = [pc EXCEPT ![w] = "truncate"] /\ loc' = [loc EXCEPT ![w].intact = env.intact]
      BY <2>8 DEF ReadEnv, Goto
    <3>2. [loc[w] EXCEPT !.intact = env.intact] \in Locals
      BY <2>1 DEF Locals
    <3>3. loc' \in [Workers -> Locals]
      BY <2>1, <3>1, <3>2
    <3>4. QED
      BY <2>1, <3>1, <3>3 DEF ThreadsTyped, Labels
  <2>9. CASE Crash
    BY <2>1, <2>9 DEF Crash, ThreadsTyped, Labels
  <2>10. CASE UNCHANGED <<pc, loc>>
    BY <1>1, <2>10 DEF ThreadsTyped
  <2>11. QED
    BY <2>3, <2>4, <2>5, <2>6, <2>7, <2>8, <2>9, <2>10
       DEF Next, Call, vars, Send, Poll, PollTo, RefreshNothing, ReuseClient, Clock
<1>8. QED
  BY <1>3, <1>4, <1>5, <1>6, <1>7 DEF Typed

\* The values of all variables stay those that the code gives them.
THEOREM TypeCorrect == Spec => []TypeOK
BY TypedInit, TypedStep, TypedIsTypeOK, PTL DEF Spec

-----------------------------------------------------------------------------
(* How often an update is handled.                                         *)

\* The updates of this life that wait for a thread, each once, have not been handled
\* in it, and neither have those that it has not seen.
HandedOnce ==
  /\ \A i, j \in 1 .. Len(handed) : handed[i] = handed[j] => i = j
  /\ \A i \in 1 .. Len(handed) : runs[handed[i]] <= crashes
  /\ \A u \in 1 .. Len(sent) : u > offset => runs[u] <= crashes
  /\ \A u \in 1 .. Len(sent) : runs[u] <= 1 + crashes

LEMMA HandedOnceStep == Typed /\ HandedOnce /\ [Next]_vars => HandedOnce'
<1> SUFFICES ASSUME Typed, HandedOnce, [Next]_vars PROVE HandedOnce'
  OBVIOUS
<1>1. /\ crashes \in Nat /\ sent \in Seq(Nat) /\ Len(sent) \in Nat /\ runs \in Seq(Nat) /\ Len(runs) = Len(sent)
      /\ forgotten \in 0 .. Len(sent) /\ offset \in 0 .. Len(sent) /\ handed \in Seq(Nat)
      /\ Len(handed) \in Nat /\ \A i \in 1 .. Len(handed) : handed[i] \in 1 .. offset
      /\ \A u \in 1 .. Len(sent) : runs[u] \in Nat
  BY DEF Typed, WorldTyped, ListenerTyped
<1>2. ASSUME NEW w \in Workers, HandleSession(w) PROVE HandedOnce'
  <2> DEFINE h == Head(handed)
  <2>1. /\ handed' = Tail(handed) /\ handed # <<>> /\ h = handed[1] /\ runs' = [runs EXCEPT ![h] = runs[h] + 1]
        /\ UNCHANGED <<sent, offset, crashes>>
    BY <1>1, <1>2 DEF HandleSession, worldVars
  <2>2. Len(handed) >= 1 /\ Len(Tail(handed)) = Len(handed) - 1
        /\ \A i \in 1 .. Len(handed) - 1 : Tail(handed)[i] = handed[i + 1]
    BY <1>1, <2>1
  <2> HIDE DEF h
  <2>3. h \in 1 .. offset /\ h \in 1 .. Len(sent) /\ runs[h] <= crashes
    <3>1. 1 \in 1 .. Len(handed)
      BY <1>1, <2>2
    <3>2. QED
      BY <1>1, <2>1, <3>1 DEF HandedOnce
  <2>4. runs'[h] = runs[h] + 1 /\ \A u \in 1 .. Len(sent) : u # h => runs'[u] = runs[u]
    BY <1>1, <2>1, <2>3
  <2>5. ASSUME NEW i \in 1 .. Len(handed')
        PROVE  i + 1 \in 1 .. Len(handed) /\ handed'[i] = handed[i + 1] /\ handed'[i] # h
               /\ handed'[i] \in 1 .. Len(sent)
    <3>1. i \in 1 .. Len(handed) - 1
      BY <2>1, <2>2
    <3>2. i + 1 \in 1 .. Len(handed) /\ 1 \in 1 .. Len(handed) /\ i + 1 # 1
      BY <1>1, <2>2, <3>1
    <3>3. handed'[i] = handed[i + 1]
      BY <2>1, <2>2, <3>1
    <3>4. handed[i + 1] # handed[1]
      BY <3>2 DEF HandedOnce
    <3>5. handed[i + 1] \in 1 .. offset
      BY <1>1, <3>2
    <3>6. QED
      BY <1>1, <2>1, <3>2, <3>3, <3>4, <3>5
  <2>6. \A i, j \in 1 .. Len(handed') : handed'[i] = handed'[j] => i = j
    <3>1. ASSUME NEW i \in 1 .. Len(handed'), NEW j \in 1 .. Len(handed'), handed'[i] = handed'[j] PROVE i = j
      <4>1. i + 1 = j + 1
        BY <2>5, <3>1 DEF HandedOnce
      <4>2. i \in Int /\ j \in Int
        OBVIOUS
      <4>3. QED
        BY <4>1, <4>2
    <3>2. QED
      BY <3>1
  <2>7. \A i \in 1 .. Len(handed') : runs'[handed'[i]] <= crashes
    <3>1. ASSUME NEW i \in 1 .. Len(handed') PROVE runs'[handed'[i]] <= crashes
      <4>1. runs[handed[i + 1]] <= crashes
        BY <2>5 DEF HandedOnce
      <4>2. QED
        BY <2>4, <2>5, <4>1
    <3>2. QED
      BY <3>1
  <2>8. ASSUME NEW u \in 1 .. Len(sent) PROVE (u > offset => runs'[u] <= crashes) /\ runs'[u] <= 1 + crashes
    <3>1. CASE u = h
      <4>1. ~(u > offset)
        BY <1>1, <2>3, <3>1
      <4>2. runs[h] \in Nat
        BY <1>1, <2>3
      <4>3. runs'[u] <= 1 + crashes
        BY <1>1, <2>3, <2>4, <3>1, <4>2
      <4>4. QED
        BY <4>1, <4>3
    <3>2. CASE u # h
      BY <2>4, <3>2 DEF HandedOnce
    <3>3. QED
      BY <3>1, <3>2
  <2>9. \A u \in 1 .. Len(sent) : (u > offset => runs'[u] <= crashes) /\ runs'[u] <= 1 + crashes
    BY <2>8
  <2>10. QED
    BY <2>1, <2>6, <2>7, <2>9 DEF HandedOnce
<1>3. CASE Send
  <2>1. /\ sent' = Append(sent, Len(issuedAt) + 1) /\ runs' = Append(runs, 0)
        /\ UNCHANGED <<crashes, offset, handed>>
    BY <1>3 DEF Send, listenerVars
  <2>2. Len(issuedAt) + 1 \in Nat
    BY DEF Typed, WorldTyped
  <2>3. /\ Len(sent') = Len(sent) + 1 /\ \A u \in 1 .. Len(sent) : runs'[u] = runs[u]
        /\ runs'[Len(sent) + 1] = 0
    BY <1>1, <2>1, <2>2
  <2>4. \A u \in 1 .. Len(sent') : u \in 1 .. Len(sent) \/ u = Len(sent) + 1
    BY <1>1, <2>3
  <2>5. \A i \in 1 .. Len(handed) : handed[i] \in 1 .. Len(sent)
    BY <1>1
  <2>6. QED
    BY <1>1, <2>1, <2>3, <2>4, <2>5 DEF HandedOnce
<1>4. CASE Poll
  <2> DEFINE f == forgotten'
             g == Fresh(f)
             n == Len(sent)
             k == Len(handed)
  <2>1. /\ f \in 0 .. n /\ offset <= f /\ handed' = handed \o g /\ g \in Seq(Nat) /\ Len(g) = n - f
        /\ offset' \in 0 .. n /\ offset <= offset' /\ n \in Nat
    BY <1>4, PollHands
  <2>2. UNCHANGED <<sent, runs, crashes>>
    BY <1>4 DEF Poll, PollTo
  <2>3. \A i \in 1 .. n - f : g[i] = f + i
    BY DEF Fresh
  <2>4. k \in Nat /\ handed \in Seq(Nat) /\ (\A i \in 1 .. k : handed[i] \in 1 .. offset) /\ offset \in Nat
    BY <1>1
  <2> HIDE DEF f, g, n, k
  <2>5. /\ Len(handed') = k + (n - f)
        /\ \A i \in 1 .. k + (n - f) : handed'[i] = IF i <= k THEN handed[i] ELSE g[i - k]
    <3>1. /\ Len(handed \o g) = Len(handed) + Len(g)
          /\ \A i \in 1 .. Len(handed) + Len(g) :
               (handed \o g)[i] = IF i <= Len(handed) THEN handed[i] ELSE g[i - Len(handed)]
      BY <2>1, <2>4, ConcatProperties
    <3>2. QED
      BY <2>1, <3>1 DEF k
  <2>6. ASSUME NEW i \in 1 .. Len(handed'), ~(i <= k)
        PROVE  handed'[i] = f + (i - k) /\ handed'[i] \in 1 .. n /\ handed'[i] > offset
    <3>1. i - k \in 1 .. n - f /\ i \in 1 .. k + (n - f)
      BY <2>1, <2>4, <2>5, <2>6
    <3>2. handed'[i] = f + (i - k)
      BY <2>3, <2>5, <2>6, <3>1
    <3>3. QED
      BY <2>1, <2>4, <3>1, <3>2
  <2>7. ASSUME NEW i \in 1 .. Len(handed'), i <= k
        PROVE  i \in 1 .. k /\ handed'[i] = handed[i] /\ handed'[i] \in 1 .. offset
    <3>1. i \in 1 .. k /\ handed'[i] = handed[i]
      BY <2>1, <2>4, <2>5, <2>7
    <3>2. QED
      BY <2>4, <3>1
  <2>8. \A i, j \in 1 .. Len(handed') : handed'[i] = handed'[j] => i = j
    <3>1. ASSUME NEW i \in 1 .. Len(handed'), NEW j \in 1 .. Len(handed'), handed'[i] = handed'[j] PROVE i = j
      <4>1. CASE i <= k /\ j <= k
        BY <2>7, <3>1, <4>1 DEF HandedOnce, k
      <4>2. CASE i <= k /\ ~(j <= k)
        <5>1. handed'[i] \in 1 .. offset /\ handed'[j] > offset /\ handed'[j] \in 1 .. n
          BY <2>6, <2>7, <4>2
        <5>2. QED
          BY <2>4, <3>1, <5>1
      <4>3. CASE ~(i <= k) /\ j <= k
        <5>1. handed'[j] \in 1 .. offset /\ handed'[i] > offset /\ handed'[i] \in 1 .. n
          BY <2>6, <2>7, <4>3
        <5>2. QED
          BY <2>4, <3>1, <5>1
      <4>4. CASE ~(i <= k) /\ ~(j <= k)
        <5>1. handed'[i] = f + (i - k) /\ handed'[j] = f + (j - k)
          BY <2>6, <4>4
        <5>2. i \in Int /\ j \in Int /\ f \in Int /\ k \in Int
          BY <2>1, <2>4
        <5>3. f + (i - k) = f + (j - k)
          BY <3>1, <5>1
        <5>4. QED
          BY <5>2, <5>3
      <4>5. QED
        BY <4>1, <4>2, <4>3, <4>4
    <3>2. QED
      BY <3>1
  <2>9. \A i \in 1 .. Len(handed') : runs[handed'[i]] <= crashes
    <3>1. ASSUME NEW i \in 1 .. Len(handed') PROVE runs[handed'[i]] <= crashes
      <4>1. CASE i <= k
        BY <2>7, <4>1 DEF HandedOnce, k
      <4>2. CASE ~(i <= k)
        BY <2>6, <4>2 DEF HandedOnce, n
      <4>3. QED
        BY <4>1, <4>2
    <3>2. QED
      BY <3>1
  <2>10. \A u \in 1 .. n : u > offset' => u > offset
    BY <2>1, <2>4
  <2>11. QED
    BY <2>2, <2>8, <2>9, <2>10 DEF HandedOnce, n
<1>5. CASE Crash
  <2>1. handed' = <<>> /\ offset' = 0 /\ crashes' = crashes + 1 /\ UNCHANGED <<sent, runs>>
    BY <1>5 DEF Crash
  <2>2. Len(<<>>) = 0 /\ \A i \in 1 .. 0 : FALSE
    OBVIOUS
  <2>3. \A u \in 1 .. Len(sent) : runs[u] <= crashes + 1 /\ runs[u] <= 1 + (crashes + 1)
    BY <1>1 DEF HandedOnce
  <2>4. QED
    BY <2>1, <2>2, <2>3 DEF HandedOnce
<1>6. CASE UNCHANGED <<sent, runs, crashes, offset, handed>>
  BY <1>6 DEF HandedOnce
<1>7. QED
  BY <1>2, <1>3, <1>4, <1>5, <1>6
     DEF Next, Call, vars, worldVars, listenerVars, Refresh, RefreshNothing, ChooseToken, GenerateSession, SetClient,
         SetToken, CacheToken, ReadEnv, SkipEnv, TruncateEnv, WriteEnv, Persisted, Login, ReuseClient, LoadToken, Clock

\* No life of the process handles an update of Telegram twice.
THEOREM HandledOnce == Spec => []HandledOncePerLife
<1>1. Init => HandedOnce
  BY DEF Init, HandedOnce
<1>2. Typed /\ HandedOnce => HandledOncePerLife
  <2> SUFFICES ASSUME Typed, HandedOnce PROVE HandledOncePerLife
    OBVIOUS
  <2>1. DOMAIN runs = 1 .. Len(sent)
    BY DEF Typed, WorldTyped
  <2>2. QED
    BY <2>1 DEF HandedOnce, HandledOncePerLife
<1>3. QED
  BY <1>1, <1>2, TypedInit, TypedStep, HandedOnceStep, PTL DEF Spec

-----------------------------------------------------------------------------
(* One call at a time.                                                     *)

\* What the calls of thread w do to it and to the client.
LEMMA ThreadSteps ==
  ASSUME Typed, NEW w \in Workers
  PROVE  /\ HandleSession(w) \/ Refresh(w) \/ ChooseToken(w) \/ SkipEnv(w) \/ WriteEnv(w) =>
              pc'[w] \in {"idle", "build"} /\ pc[w] \in {"idle", "choose", "read", "write"}
         /\ GenerateSession(w) => pc[w] = "build" /\ (pc'[w] = "client" \/ pc'[w] = "idle")
         /\ GenerateSession(w) /\ pc'[w] = "client" => Good(loc[w].token) /\ loc' = loc
         /\ SetClient(w) => pc[w] = "client" /\ pc'[w] = "token" /\ loc' = loc
         /\ SetToken(w) => pc[w] = "token" /\ pc'[w] = "redis" /\ loc' = loc
         /\ CacheToken(w) => pc[w] = "redis" /\ pc'[w] = "read" /\ loc' = loc
         /\ ReadEnv(w) => pc[w] = "read" /\ pc'[w] = "truncate" /\ loc'[w].token = loc[w].token
         /\ TruncateEnv(w) => pc[w] = "truncate" /\ pc'[w] = "write" /\ loc' = loc
         /\ LoadToken(w) => pc[w] = "idle" /\ pc'[w] = "choose" /\ loc' = loc
<1>1. pc \in [Workers -> Labels] /\ loc \in [Workers -> Locals]
  BY DEF Typed, ThreadsTyped
<1>2. \A t, c : Build(w, t, c) => pc'[w] = "build"
  BY <1>1 DEF Build, Goto
<1>3. Return(w) => pc'[w] = "idle"
  BY <1>1 DEF Return, Goto
<1>4. HandleSession(w) \/ Refresh(w) \/ ChooseToken(w) \/ SkipEnv(w) \/ WriteEnv(w) =>
        pc'[w] \in {"idle", "build"} /\ pc[w] \in {"idle", "choose", "read", "write"}
  <2>1. HandleSession(w) \/ Refresh(w) \/ ChooseToken(w) \/ SkipEnv(w) \/ WriteEnv(w) =>
          Return(w) \/ \E t, c : Build(w, t, c)
    BY Zenon DEF HandleSession, Refresh, ChooseToken, Login, SkipEnv, WriteEnv, Persisted
  <2>2. HandleSession(w) \/ Refresh(w) \/ ChooseToken(w) \/ SkipEnv(w) \/ WriteEnv(w) =>
          pc[w] \in {"idle", "choose", "read", "write"}
    BY DEF HandleSession, Refresh, ChooseToken, SkipEnv, WriteEnv, At
  <2>3. QED
    BY <1>2, <1>3, <2>1, <2>2
<1>5. \A l : Then(w, l) => pc'[w] = l /\ loc' = loc
  BY <1>1 DEF Then, Goto
<1>6. GenerateSession(w) => pc[w] = "build" /\ (Return(w) \/ (Then(w, "client") /\ Good(loc[w].token)))
  BY DEF GenerateSession, At
<1>7. ReadEnv(w) => pc[w] = "read" /\ pc'[w] = "truncate" /\ loc'[w].token = loc[w].token
  <2> SUFFICES ASSUME ReadEnv(w) PROVE pc[w] = "read" /\ pc'[w] = "truncate" /\ loc'[w].token = loc[w].token
    OBVIOUS
  <2>1. pc[w] = "read" /\ pc'[w] = "truncate" /\ loc' = [loc EXCEPT ![w].intact = env.intact]
    BY <1>1 DEF ReadEnv, At, Goto
  <2>2. loc'[w] = [loc[w] EXCEPT !.intact = env.intact] /\ loc[w] \in Locals
    BY <1>1, <2>1
  <2>3. QED
    BY <2>1, <2>2 DEF Locals
<1>8. QED
  BY <1>3, <1>4, <1>5, <1>6, <1>7 DEF SetClient, SetToken, CacheToken, TruncateEnv, LoadToken, At

\* The client is of the manager's token, but between the two assignments.
ClientMatches(w) ==
  /\ client # 0 /\ pc[w] # "token" => client = token
  /\ pc[w] = "token" => client = loc[w].token

LEMMA ClientMatchesStep ==
  ASSUME NEW w, Workers = {w}, Typed, ClientMatches(w), [Next]_vars
  PROVE  ClientMatches(w)'
<1>1. w \in Workers
  OBVIOUS
<1>2. CASE SetClient(w) \/ SetToken(w) \/ LoadToken(w)
  BY <1>1, <1>2, ThreadSteps DEF ClientMatches, SetClient, SetToken, LoadToken
<1>3. CASE HandleSession(w) \/ Refresh(w) \/ ChooseToken(w) \/ SkipEnv(w) \/ WriteEnv(w) \/ GenerateSession(w)
           \/ CacheToken(w) \/ ReadEnv(w) \/ TruncateEnv(w)
  <2>1. UNCHANGED <<client, token>>
    BY <1>3 DEF HandleSession, Refresh, ChooseToken, SkipEnv, WriteEnv, Persisted, GenerateSession, CacheToken,
                ReadEnv, TruncateEnv, managerVars
  <2>2. pc[w] # "token" /\ pc'[w] # "token"
    BY <1>1, <1>3, ThreadSteps
  <2>3. QED
    BY <2>1, <2>2 DEF ClientMatches
<1>4. CASE Crash
  BY <1>1, <1>4 DEF Crash, ClientMatches
<1>5. CASE UNCHANGED <<client, token, pc, loc>>
  BY <1>5 DEF ClientMatches
<1>6. QED
  BY <1>1, <1>2, <1>3, <1>4, <1>5
     DEF Next, Call, vars, managerVars, Send, Poll, PollTo, RefreshNothing, ReuseClient, Clock

\* With one thread that calls the manager, client and token agree between calls.
LEMMA ClientMatchesToken ==
  ASSUME NEW w, Workers = {w}
  PROVE  Spec => [](Idle /\ client # 0 => client = token)
<1>1. Init => ClientMatches(w)
  BY DEF Init, ClientMatches
<1>2. Typed /\ ClientMatches(w) /\ [Next]_vars => ClientMatches(w)'
  BY ClientMatchesStep
<1>3. ClientMatches(w) => (Idle /\ client # 0 => client = token)
  BY DEF ClientMatches, Idle
<1>4. QED
  BY <1>1, <1>2, <1>3, TypedInit, TypedStep, PTL DEF Spec

\* The client's token is in Redis once the call that took it has written it, and was
\* written no earlier than it was issued.
Held(w) ==
  /\ pc[w] \in {"client", "token", "redis"} => loc[w].token \in Issued
  /\ pc[w] \in {"token", "redis"} => client = loc[w].token
  /\ client # 0 /\ pc[w] \notin {"token", "redis"} => redis.token = client
  /\ redis.token # 0 => redis.token \in Issued /\ issuedAt[redis.token] <= redis.at
  /\ \A t \in Issued : issuedAt[t] <= now

LEMMA HeldStep ==
  ASSUME NEW w, Workers = {w}, "redis" \notin Faults, Typed, Held(w), [Next]_vars
  PROVE  Held(w)'
<1>1. w \in Workers
  OBVIOUS
<1>2. /\ now \in Nat /\ issuedAt \in Seq(Nat) /\ Len(issuedAt) \in Nat /\ Issued = 1 .. Len(issuedAt)
      /\ \A t \in Issued : issuedAt[t] \in Nat
  BY DEF Typed, WorldTyped, Issued
<1>3. CASE Send \/ (\E v \in Workers : Refresh(v) \/ ChooseToken(v))
  <2>1. issuedAt' = issuedAt \/ issuedAt' = Append(issuedAt, now)
    BY <1>3 DEF Send, Refresh, ChooseToken, Login
  <2>2. UNCHANGED <<now, client, redis>>
    BY <1>3 DEF Send, Refresh, ChooseToken, managerVars, diskVars
  <2>3. /\ \A t \in Issued : t \in Issued' /\ issuedAt'[t] = issuedAt[t]
        /\ \A t \in Issued' : t \in Issued \/ issuedAt'[t] = now
    <3>1. CASE issuedAt' = issuedAt
      BY <3>1 DEF Issued
    <3>2. CASE issuedAt' = Append(issuedAt, now)
      <4>1. /\ DOMAIN issuedAt' = 1 .. Len(issuedAt) + 1 /\ issuedAt'[Len(issuedAt) + 1] = now
            /\ \A t \in 1 .. Len(issuedAt) : issuedAt'[t] = issuedAt[t]
        BY <1>2, <3>2
      <4>2. QED
        BY <1>2, <4>1 DEF Issued
    <3>3. QED
      BY <2>1, <3>1, <3>2
  <2>4. \/ UNCHANGED <<pc, loc>>
        \/ pc'[w] \in {"idle", "build"} /\ pc[w] \in {"idle", "choose", "read", "write"}
    BY <1>1, <1>3, ThreadSteps DEF Send
  <2>5. \A t \in Issued' : issuedAt'[t] <= now
    BY <1>2, <2>3 DEF Held
  <2>6. QED
    BY <2>2, <2>3, <2>4, <2>5 DEF Held
<1>4. CASE CacheToken(w)
  <2>1. redis' = [token |-> loc[w].token, at |-> now] /\ UNCHANGED <<client, issuedAt, now>>
    BY <1>4 DEF CacheToken, worldVars, managerVars
  <2>2. pc[w] = "redis" /\ pc'[w] = "read" /\ loc' = loc
    BY <1>1, <1>4, ThreadSteps
  <2>3. Issued' = Issued
    BY <2>1 DEF Issued
  <2>4. QED
    BY <2>1, <2>2, <2>3 DEF Held
<1>5. CASE GenerateSession(w) \/ SetClient(w) \/ SetToken(w)
  <2>1. UNCHANGED <<redis, issuedAt, now>>
    BY <1>5 DEF GenerateSession, SetClient, SetToken, worldVars, diskVars
  <2>2. Issued' = Issued
    BY <2>1 DEF Issued
  <2>3. CASE GenerateSession(w)
    <3>1. client' = client
      BY <2>3 DEF GenerateSession, managerVars
    <3>2. pc'[w] = "client" => loc'[w].token \in Issued
      BY <1>1, <2>3, ThreadSteps DEF Good
    <3>3. QED
      BY <1>1, <2>1, <2>2, <2>3, <3>1, <3>2, ThreadSteps DEF Held
  <2>4. CASE SetClient(w)
    <3>1. client' = loc[w].token
      BY <2>4 DEF SetClient
    <3>2. QED
      BY <1>1, <2>1, <2>2, <2>4, <3>1, ThreadSteps DEF Held
  <2>5. CASE SetToken(w)
    <3>1. client' = client
      BY <2>5 DEF SetToken
    <3>2. QED
      BY <1>1, <2>1, <2>2, <2>5, <3>1, ThreadSteps DEF Held
  <2>6. QED
    BY <1>5, <2>3, <2>4, <2>5
<1>6. CASE HandleSession(w) \/ SkipEnv(w) \/ WriteEnv(w) \/ ReadEnv(w) \/ TruncateEnv(w) \/ LoadToken(w)
  <2>1. UNCHANGED <<client, redis, issuedAt, now>>
    BY <1>6 DEF HandleSession, SkipEnv, WriteEnv, ReadEnv, TruncateEnv, LoadToken, Persisted, worldVars, managerVars,
                diskVars
  <2>2. Issued' = Issued
    BY <2>1 DEF Issued
  <2>3. pc[w] \notin {"client", "token", "redis"} /\ pc'[w] \notin {"client", "token", "redis"}
    BY <1>1, <1>6, ThreadSteps
  <2>4. QED
    BY <2>1, <2>2, <2>3 DEF Held
<1>7. CASE Crash
  <2>1. client' = 0 /\ pc'[w] = "idle" /\ UNCHANGED <<redis, issuedAt, now>>
    BY <1>1, <1>7 DEF Crash, diskVars
  <2>2. Issued' = Issued
    BY <2>1 DEF Issued
  <2>3. QED
    BY <2>1, <2>2 DEF Held
<1>8. CASE Clock
  <2>1. now' = now + 1 /\ UNCHANGED <<client, redis, issuedAt, pc, loc>>
    BY <1>8 DEF Clock, managerVars, diskVars
  <2>2. Issued' = Issued
    BY <2>1 DEF Issued
  <2>3. \A t \in Issued : issuedAt[t] <= now + 1
    BY <1>2 DEF Held
  <2>4. QED
    BY <2>1, <2>2, <2>3 DEF Held
<1>9. CASE UNCHANGED <<client, redis, issuedAt, now, pc, loc>>
  BY <1>9 DEF Held, Issued
<1>10. QED
  BY <1>1, <1>3, <1>4, <1>5, <1>6, <1>7, <1>8, <1>9
     DEF Next, Call, vars, worldVars, managerVars, diskVars, Poll, PollTo, RefreshNothing, ReuseClient

\* With one thread that calls the manager, a Redis that answers and a cache that
\* outlives the tokens, a restart would find the token of the client.
THEOREM RestartFinds ==
  ASSUME NEW w, Workers = {w}, "redis" \notin Faults, Life < Ttl
  PROVE  Spec => []RestartFindsToken
<1>1. Init => Held(w)
  <2>1. DOMAIN <<>> = {}
    OBVIOUS
  <2>2. QED
    BY <2>1 DEF Init, Held, Issued
<1>2. Typed /\ Held(w) /\ [Next]_vars => Held(w)'
  BY HeldStep
<1>3. Typed /\ Held(w) => (Idle /\ client # 0 /\ Good(client) => Cached = client)
  <2> SUFFICES ASSUME Typed, Held(w), Idle, client # 0, Good(client) PROVE Cached = client
    OBVIOUS
  <2>1. redis.token = client /\ issuedAt[client] <= redis.at /\ now - issuedAt[client] <= Life /\ client \in Issued
    BY DEF Held, Idle, Good
  <2>2. now \in Nat /\ redis.at \in Nat /\ issuedAt[client] \in Nat /\ Life \in Nat /\ Ttl \in Nat
    BY <2>1, SessionAssumption DEF SessionAssumption, Typed, WorldTyped, DiskTyped, Issued
  <2>3. now - redis.at < Ttl
    BY <2>1, <2>2
  <2>4. QED
    BY <2>1, <2>3 DEF Cached
<1>4. (Idle /\ client # 0 => client = token) /\ (Idle /\ client # 0 /\ Good(client) => Cached = client)
        => RestartFindsToken
  BY DEF RestartFindsToken
<1>5. QED
  BY <1>1, <1>2, <1>3, <1>4, ClientMatchesToken, TypedInit, TypedStep, PTL DEF Spec
=============================================================================
