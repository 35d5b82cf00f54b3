----------------------------- MODULE BreezeSession -----------------------------
(***************************************************************************)
(* core/breeze_session.py: the session token in its four homes, the SDK    *)
(* client, the manager, Redis and .env, with the /session commands that    *)
(* utils/telegram_listener.py hands to threads and the daily job that logs *)
(* in again.  A token is its rank in the order ICICI issued them, 0 is "". *)
(* The clock counts hours; a call takes seconds.                           *)
(***************************************************************************)
EXTENDS Integers, Sequences, FiniteSetsExt

CONSTANTS Workers,         \* threads that may call the manager
          HasCredentials,  \* user id, password and date of birth are set
          Faults,          \* what may fail: "login", "build" (generate_session with
                           \* a good token), "redis" (SET), "cache" (GET) and
                           \* "env" (.env)
          Day,             \* hours between two runs of the session-refresh job
          Life,            \* hours a token is good for
          MaxAge,          \* BREEZE_SESSION_MAX_AGE_SECONDS
          Ttl,             \* BREEZE_SESSION_TOKEN_TTL_SECONDS
          Never,           \* _token_fetched_at = 0.0
          MaxNow,          \* bound on the clock
          MaxTokens,       \* bound on the tokens issued
          MaxCrashes       \* bound on process restarts

ASSUME SessionAssumption ==
  /\ HasCredentials \in BOOLEAN /\ Faults \subseteq {"login", "build", "redis", "cache", "env"}
  /\ Day \in Nat \ {0} /\ {Life, MaxAge, Ttl, MaxNow, MaxTokens, MaxCrashes} \subseteq Nat
  /\ Never \notin Nat

VARIABLES now, crashes,
          issuedAt,   \* issuedAt[t]: when ICICI issued token t
          sent,       \* the /session updates of the operator, as their tokens
          forgotten,  \* how many of them Telegram no longer delivers
          offset,     \* how many the listener's _offset is past; 0 at start
          handed,     \* the updates given to threads that have not begun
          jobDue,     \* the session-refresh job is to run
          client,     \* the token _client was built with, 0 for None
          token,      \* _session_token
          fetchedAt,  \* _token_fetched_at
          redis,      \* the cached token and when it was written
          env,        \* the .env file: its token, and whether its other lines are there
          pc, loc,    \* where a thread is, and its local variables
          runs        \* history: runs[i] counts the threads that handled update i

worldVars == <<now, crashes, issuedAt, sent, forgotten>>
listenerVars == <<offset, handed, jobDue>>
managerVars == <<client, token, fetchedAt>>
diskVars == <<redis, env>>
vars == <<worldVars, listenerVars, managerVars, diskVars, runs, pc, loc>>

Issued == DOMAIN issuedAt
Good(t) == t \in Issued /\ now - issuedAt[t] <= Life

\* What _load_cached_token finds.
Cached == IF redis.token # 0 /\ now - redis.at < Ttl THEN redis.token ELSE 0

NoLocals == [token |-> 0, caller |-> "none", intact |-> FALSE]

Init ==
  /\ now = 0 /\ crashes = 0 /\ issuedAt = <<>>
  /\ sent = <<>> /\ forgotten = 0
  /\ offset = 0 /\ handed = <<>> /\ jobDue = FALSE
  /\ client = 0 /\ token = 0 /\ fetchedAt = Never
  /\ redis = [token |-> 0, at |-> 0] /\ env = [token |-> 0, intact |-> TRUE]
  /\ pc = [w \in Workers |-> "idle"] /\ loc = [w \in Workers |-> NoLocals]
  /\ runs = <<>>

At(w, l) == pc[w] = l
Goto(w, l) == pc' = [pc EXCEPT ![w] = l]
Then(w, l) == Goto(w, l) /\ UNCHANGED loc
Return(w) == Goto(w, "idle") /\ loc' = [loc EXCEPT ![w] = NoLocals]

\* _build_client(t), called by one of "session", "refresh", "get", "relogin".
Build(w, t, caller) ==
  /\ Goto(w, "build")
  /\ loc' = [loc EXCEPT ![w].token = t, ![w].caller = caller]

\* auto_login up to its _build_client.
Login(w, caller) ==
  /\ Len(issuedAt) < MaxTokens
  /\ issuedAt' = Append(issuedAt, now)
  /\ Build(w, Len(issuedAt) + 1, caller)

-----------------------------------------------------------------------------
(* The operator, Telegram and the listener.                                *)

\* The operator fetches a token and sends it.
Send ==
  /\ Len(issuedAt) < MaxTokens
  /\ issuedAt' = Append(issuedAt, now)
  /\ sent' = Append(sent, Len(issuedAt) + 1) /\ runs' = Append(runs, 0)
  /\ UNCHANGED <<now, crashes, forgotten, listenerVars, managerVars, diskVars, pc, loc>>

\* getUpdates: Telegram forgets what is before the offset and delivers the
\* rest; the offset moves past it at once.
PollTo(seen) ==
  /\ forgotten' = Max({forgotten, offset})
  /\ offset' = IF forgotten' < Len(sent) THEN seen ELSE offset
  /\ handed' = handed \o [i \in 1 .. Len(sent) - forgotten' |-> forgotten' + i]
  /\ UNCHANGED <<now, crashes, issuedAt, sent, jobDue, managerVars, diskVars, runs, pc, loc>>

PollAgain == Len(sent) > offset /\ PollTo(Len(sent) - 1)      \* mutant: no + 1
PollPast  == Len(sent) > offset /\ PollTo(Len(sent) + 1)      \* mutant: + 2
Poll      == (Len(sent) > offset \/ forgotten < offset) /\ PollTo(Len(sent))

\* _handle_session and update_session_token, up to _build_client.
HandleSession(w) ==
  /\ At(w, "idle") /\ handed # <<>>
  /\ handed' = Tail(handed) /\ runs' = [runs EXCEPT ![Head(handed)] = @ + 1]
  /\ LET t == sent[Head(handed)] IN
       \/ client # 0 /\ t = token /\ Return(w)
       \/ ~(client # 0 /\ t = token) /\ Build(w, t, "session")
  /\ UNCHANGED <<worldVars, offset, jobDue, managerVars, diskVars>>

-----------------------------------------------------------------------------
(* The session-refresh job and get_client.                                 *)

\* maybe_refresh asks for a login when the token it set is too old.
RefreshNeeded == HasCredentials /\ ~(fetchedAt # Never /\ now - fetchedAt < MaxAge)

Refresh(w) ==
  /\ At(w, "idle") /\ jobDue /\ jobDue' = FALSE
  /\ RefreshNeeded /\ Login(w, "refresh")
  /\ UNCHANGED <<now, crashes, sent, forgotten, offset, handed, managerVars, diskVars, runs>>

\* Nothing to do, or the login raises.
RefreshNothing(w) ==
  /\ At(w, "idle") /\ jobDue /\ jobDue' = FALSE
  /\ RefreshNeeded => "login" \in Faults
  /\ UNCHANGED <<worldVars, offset, handed, managerVars, diskVars, runs, pc, loc>>

\* get_client hands out the client there is.
ReuseClient(w) ==
  /\ At(w, "idle") /\ client # 0
  /\ UNCHANGED vars

\* With no client yet, the cached token becomes the manager's; a GET that fails is
\* logged and finds none.
LoadToken(w) ==
  /\ At(w, "idle") /\ client = 0 /\ Then(w, "choose")
  /\ token' \in {IF Cached # 0 THEN Cached ELSE token} \cup {token : f \in Faults \cap {"cache"}}
  /\ UNCHANGED <<worldVars, listenerVars, client, fetchedAt, diskVars, runs>>

ChooseToken(w) ==
  /\ At(w, "choose")
  /\ \/ token # 0 /\ Build(w, token, "get") /\ UNCHANGED issuedAt
     \/ token = 0 /\ HasCredentials /\ Login(w, "relogin")
     \/ token = 0 /\ (HasCredentials => "login" \in Faults) /\ Return(w) /\ UNCHANGED issuedAt
  /\ UNCHANGED <<now, crashes, sent, forgotten, listenerVars, managerVars, diskVars, runs>>

-----------------------------------------------------------------------------
(* _build_client and _persist_token.                                       *)

\* generate_session; a token the broker rejects raises.
GenerateSession(w) ==
  /\ At(w, "build")
  /\ \/ Good(loc[w].token) /\ Then(w, "client")
     \/ (Good(loc[w].token) => "build" \in Faults) /\ Return(w)
  /\ UNCHANGED <<worldVars, listenerVars, managerVars, diskVars, runs>>

SetClient(w) ==
  /\ At(w, "client") /\ Then(w, "token") /\ client' = loc[w].token
  /\ UNCHANGED <<worldVars, listenerVars, token, fetchedAt, diskVars, runs>>

SetToken(w) ==
  /\ At(w, "token") /\ Then(w, "redis")
  /\ token' = loc[w].token /\ fetchedAt' = now
  /\ UNCHANGED <<worldVars, listenerVars, client, diskVars, runs>>

\* Mutant: the token is not cached.
CacheNothing(w) ==
  /\ At(w, "redis") /\ Then(w, "read")
  /\ UNCHANGED <<worldVars, listenerVars, managerVars, diskVars, runs>>

\* A Redis error is logged and the token goes on to .env.
CacheToken(w) ==
  /\ At(w, "redis") /\ Then(w, "read")
  /\ redis' \in {[token |-> loc[w].token, at |-> now]}
               \cup {redis : f \in Faults \cap {"redis"}}
  /\ UNCHANGED <<worldVars, listenerVars, managerVars, env, runs>>

\* The caller goes on: get_client builds a client a second time when it had
\* to log in.
Persisted(w) ==
  /\ IF loc[w].caller = "relogin" THEN Build(w, loc[w].token, "get") ELSE Return(w)
  /\ UNCHANGED <<worldVars, listenerVars, managerVars, redis, runs>>

\* _write_env_token reads the file, truncates it, writes it; where there is
\* no file, or it cannot be opened, the token is in Redis only.
ReadEnv(w) ==
  /\ At(w, "read") /\ Goto(w, "truncate")
  /\ loc' = [loc EXCEPT ![w].intact = env.intact]
  /\ UNCHANGED <<worldVars, listenerVars, managerVars, diskVars, runs>>

SkipEnv(w) ==
  /\ At(w, "read") /\ "env" \in Faults /\ Persisted(w)
  /\ UNCHANGED env

TruncateEnv(w) ==
  /\ At(w, "truncate") /\ Then(w, "write")
  /\ env' = [token |-> 0, intact |-> FALSE]
  /\ UNCHANGED <<worldVars, listenerVars, managerVars, redis, runs>>

WriteEnv(w) ==
  /\ At(w, "write") /\ Persisted(w)
  /\ env' \in {[token |-> loc[w].token, intact |-> loc[w].intact]}
             \cup {env : f \in Faults \cap {"env"}}

-----------------------------------------------------------------------------
Idle == \A w \in Workers : pc[w] = "idle"

\* An hour passes; no call takes that long.
Clock ==
  /\ Idle /\ ~jobDue /\ handed = <<>>
  /\ now < MaxNow /\ now' = now + 1
  /\ jobDue' = (now' % Day = 0)
  /\ UNCHANGED <<crashes, issuedAt, sent, forgotten, offset, handed, managerVars, diskVars,
                 runs, pc, loc>>

\* The process restarts with the token of .env; Redis and Telegram go on.
Crash ==
  /\ crashes < MaxCrashes /\ crashes' = crashes + 1
  /\ offset' = 0 /\ handed' = <<>> /\ jobDue' = FALSE
  /\ client' = 0 /\ token' = env.token /\ fetchedAt' = Never
  /\ pc' = [w \in Workers |-> "idle"] /\ loc' = [w \in Workers |-> NoLocals]
  /\ UNCHANGED <<now, issuedAt, sent, forgotten, diskVars, runs>>

Call(w) ==
  \/ HandleSession(w) \/ Refresh(w) \/ RefreshNothing(w) \/ ChooseToken(w)
  \/ GenerateSession(w) \/ SetClient(w) \/ SetToken(w) \/ CacheToken(w)
  \/ ReadEnv(w) \/ SkipEnv(w) \/ TruncateEnv(w) \/ WriteEnv(w)

Next ==
  \/ \E w \in Workers : Call(w) \/ ReuseClient(w) \/ LoadToken(w)
  \/ Send \/ Poll \/ Clock \/ Crash

Spec == Init /\ [][Next]_vars

\* The listener polls on, a call that began ends, and an update gets a thread
\* however often others ask for the client.
FairSpec ==
  /\ Spec /\ WF_vars(Poll)
  /\ \A w \in Workers : WF_vars(Call(w)) /\ SF_vars(HandleSession(w))
-----------------------------------------------------------------------------
(* Properties.                                                             *)

Labels == {"idle", "choose", "build", "client", "token", "redis", "read", "truncate", "write"}

\* Every variable keeps its type.
TypeOK ==
  /\ {now, crashes, client, token} \subseteq Nat
  /\ {forgotten, offset} \subseteq 0 .. Len(sent)
  /\ issuedAt \in Seq(Nat) /\ sent \in Seq(Issued) /\ runs \in [DOMAIN sent -> Nat]
  /\ handed \in Seq(DOMAIN sent) /\ jobDue \in BOOLEAN
  /\ fetchedAt \in Nat \cup {Never}
  /\ redis \in [token : Nat, at : Nat] /\ env \in [token : Nat, intact : BOOLEAN]
  /\ pc \in [Workers -> Labels]
  /\ loc \in [Workers -> [token : Nat, intact : BOOLEAN,
                          caller : {"none", "session", "refresh", "get", "relogin"}]]

\* With one thread and a Redis that takes its writes, the client is between calls of
\* the manager's token, and while that is good a restart would find it in Redis,
\* whatever was rejected, refreshed, restarted or redelivered before (_build_client).
RestartFindsToken ==
  Idle /\ client # 0 => client = token /\ (Good(client) => Cached = client)

\* An update is handled once in the life of a process: only a restart makes
\* Telegram deliver it again.
HandledOncePerLife == \A i \in DOMAIN runs : runs[i] <= 1 + crashes

\* Every update is handled, or the process restarts.
UpdateHandled ==
  \A i \in 1 .. MaxTokens :
    i \in DOMAIN sent ~> crashes > 0 \/ (i \in DOMAIN runs /\ runs[i] > 0)
=============================================================================
