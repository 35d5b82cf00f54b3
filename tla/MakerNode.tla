------------------------------- MODULE MakerNode -------------------------------
(***************************************************************************)
(* modules/maker_node.py with its token budget (core/llm_guardrails.py)    *)
(* and its response cache (core/llm_cache.py), which the pipeline threads  *)
(* and /test-signal share without a lock.  A worker is one call of         *)
(* generate.  A step is one operation on the shared budget or dict: the    *)
(* interpreter may switch threads between any two.  The body of consume    *)
(* calls nothing, so it is one step.                                       *)
(***************************************************************************)
EXTENDS Integers, FiniteSets, SequencesExt

CONSTANTS Workers,    \* concurrent calls of generate
          Markets,    \* market_state_key values
          Costs,      \* the tokens an LLM call may take
          Budget,     \* LLM_DAILY_TOKEN_BUDGET
          CacheSize,  \* LLM_CACHE_SIZE
          Ttl,        \* LLM_CACHE_TTL_SECONDS
          None,       \* no entry, no victim
          MaxNow,     \* bound on the clock
          MaxBilled   \* bound on the tokens billed

\* A cached answer: the time the dict holds for it, and (history) the time of
\* the put that stored it.
Entries == [key : Markets, at : Nat, made : Nat]

ASSUME MakerAssumption ==
  /\ IsFiniteSet(Workers) /\ Workers # {}
  /\ None \notin Entries
  /\ Costs \subseteq Nat \ {0}
  /\ Budget \in Nat /\ CacheSize \in Nat /\ Ttl \in Nat
  /\ MaxNow \in Nat /\ MaxBilled \in Nat

VARIABLES now,     \* time.time()
          spent,   \* the budget's _spent; nothing calls its reset_daily
          store,   \* the cache's dict, in insertion order
          pc,      \* pc[w]: where generate is, "idle" between calls
          loc,     \* loc[w]: its local variables
          billed,  \* history: what the provider has billed
          late     \* history: LLM calls made with the budget exhausted

vars == <<now, spent, store, pc, loc, billed, late>>

Locals == [key   : Markets \cup {None},
           entry : Entries \cup {None},  \* what get() read
           asked : Nat,                  \* when it read the clock
           cost  : Nat,                  \* tokens of the answer at hand
           valid : BOOLEAN,              \* whether the answer parses
           size  : Nat,                  \* size the iterator of put() started with
           victim : Markets \cup {None}]
NoLocals == [key |-> None, entry |-> None, asked |-> 0, cost |-> 0,
             valid |-> FALSE, size |-> 0, victim |-> None]

Init ==
  /\ now = 0 /\ spent = 0 /\ store = <<>>
  /\ pc = [w \in Workers |-> "idle"] /\ loc = [w \in Workers |-> NoLocals]
  /\ billed = 0 /\ late = 0

At(w, l) == pc[w] = l
Goto(w, l) == pc' = [pc EXCEPT ![w] = l]
Then(w, l) == Goto(w, l) /\ UNCHANGED loc

\* generate returns: an LLM answer, or rule_only_signal after any exception.
Return(w) == Goto(w, "idle") /\ loc' = [loc EXCEPT ![w] = NoLocals]

-----------------------------------------------------------------------------
(* The dict of the cache, as the sequence of its entries.                  *)

Cached(k) == \E i \in DOMAIN store : store[i].key = k
Position(k) == CHOOSE i \in DOMAIN store : store[i].key = k

\* dict[k] = e: in place when k is there, else last.  (Mutant: always last.)
AssignedLast(e) == Append(store, e)
Assigned(e) ==
  IF Cached(e.key) THEN [store EXCEPT ![Position(e.key)] = e] ELSE Append(store, e)

\* dict.pop(k, None)
Popped(k) == IF Cached(k) THEN RemoveAt(store, Position(k)) ELSE store

-----------------------------------------------------------------------------
(* generate and LLMCache.get.                                              *)

Exhausted == spent >= Budget

\* Mutant: the budget is not asked.
GenerateUnchecked(w) ==
  /\ At(w, "idle") /\ Goto(w, "lookup")
  /\ \E k \in Markets : loc' = [loc EXCEPT ![w].key = k]
  /\ UNCHANGED <<now, spent, store, billed, late>>

\* should_use_llm; an exhausted budget answers with the rules at once.
Generate(w) ==
  /\ At(w, "idle") /\ ~Exhausted /\ Goto(w, "lookup")
  /\ \E k \in Markets : loc' = [loc EXCEPT ![w].key = k]
  /\ UNCHANGED <<now, spent, store, billed, late>>

Lookup(w) ==
  /\ At(w, "lookup")
  /\ \/ ~Cached(loc[w].key) /\ Then(w, "call")
     \/ /\ Cached(loc[w].key) /\ Goto(w, "age")
        /\ loc' = [loc EXCEPT ![w].entry = store[Position(loc[w].key)]]
  /\ UNCHANGED <<now, spent, store, billed, late>>

CheckAge(w) ==
  /\ At(w, "age")
  /\ Goto(w, IF now - loc[w].entry.at > Ttl THEN "expire" ELSE "hit")
  /\ loc' = [loc EXCEPT ![w].asked = now]
  /\ UNCHANGED <<now, spent, store, billed, late>>

\* pop(key, None) of an expired entry.
Expire(w) ==
  /\ At(w, "expire") /\ Then(w, "call")
  /\ store' = Popped(loc[w].key)
  /\ UNCHANGED <<now, spent, billed, late>>

\* pop(key) of a hit: a KeyError when another thread has popped it meanwhile.
PopHit(w) ==
  /\ At(w, "hit")
  /\ IF Cached(loc[w].key) THEN Then(w, "readd") ELSE Return(w)
  /\ store' = Popped(loc[w].key)
  /\ UNCHANGED <<now, spent, billed, late>>

\* Mutant: moving an entry to the end makes it new.
ReAddRefreshed(w) ==
  /\ At(w, "readd") /\ Return(w)
  /\ store' = Assigned([loc[w].entry EXCEPT !.at = now])
  /\ UNCHANGED <<now, spent, billed, late>>

ReAdd(w) ==
  /\ At(w, "readd") /\ Return(w)
  /\ store' = Assigned(loc[w].entry)
  /\ UNCHANGED <<now, spent, billed, late>>

-----------------------------------------------------------------------------
(* _call_llm and LLMCache.put.                                             *)

CallLlm(w) ==
  /\ At(w, "call") /\ Goto(w, "consume")
  /\ \E c \in Costs, ok \in BOOLEAN :
       /\ billed + c <= MaxBilled
       /\ billed' = billed + c
       /\ loc' = [loc EXCEPT ![w].cost = c, ![w].valid = ok]
  /\ late' = IF Exhausted THEN late + 1 ELSE late
  /\ UNCHANGED <<now, spent, store>>

\* The client raises: nothing is billed.
CallFails(w) ==
  /\ At(w, "call") /\ Return(w)
  /\ UNCHANGED <<now, spent, store, billed, late>>

\* consume, whose answer only decides a log line, then the parse: an invalid
\* answer raises and is not cached.
ConsumeTo(w, total) ==
  /\ At(w, "consume") /\ spent' = total
  /\ IF loc[w].valid THEN Then(w, "put") ELSE Return(w)
  /\ UNCHANGED <<now, store, billed, late>>

Consume(w) ==
  ConsumeTo(w, IF spent + loc[w].cost <= Budget THEN spent + loc[w].cost ELSE spent)

Put(w) ==
  /\ At(w, "put") /\ Then(w, "evict")
  /\ store' = Assigned([key |-> loc[w].key, at |-> now, made |-> now])
  /\ UNCHANGED <<now, spent, billed, late>>

\* while len(store) > max_size: iter(store)
Evict(w) ==
  /\ At(w, "evict")
  /\ \/ Len(store) <= CacheSize /\ Return(w)
     \/ /\ Len(store) > CacheSize /\ Goto(w, "next")
        /\ loc' = [loc EXCEPT ![w].size = Len(store)]
  /\ UNCHANGED <<now, spent, store, billed, late>>

\* next(...): a RuntimeError when the dict has changed size since.
NextVictim(w) ==
  /\ At(w, "next")
  /\ \/ /\ Len(store) = loc[w].size /\ Goto(w, "pop")
        /\ loc' = [loc EXCEPT ![w].victim = Head(store).key]
     \/ Len(store) # loc[w].size /\ Return(w)
  /\ UNCHANGED <<now, spent, store, billed, late>>

\* pop(victim): a KeyError when another thread has popped it meanwhile.
PopVictim(w) ==
  /\ At(w, "pop")
  /\ IF Cached(loc[w].victim) THEN Then(w, "evict") ELSE Return(w)
  /\ store' = Popped(loc[w].victim)
  /\ UNCHANGED <<now, spent, billed, late>>

-----------------------------------------------------------------------------
Clock ==
  /\ now < MaxNow /\ now' = now + 1
  /\ UNCHANGED <<spent, store, pc, loc, billed, late>>

Step(w) ==
  \/ Generate(w) \/ Lookup(w) \/ CheckAge(w) \/ Expire(w) \/ PopHit(w) \/ ReAdd(w)
  \/ CallLlm(w) \/ CallFails(w) \/ Consume(w) \/ Put(w) \/ Evict(w) \/ NextVictim(w)
  \/ PopVictim(w)

Next == (\E w \in Workers : Step(w)) \/ Clock

Spec == Init /\ [][Next]_vars
-----------------------------------------------------------------------------
(* Properties.                                                             *)

Labels == {"idle", "lookup", "age", "expire", "hit", "readd", "call", "consume", "put",
           "evict", "next", "pop"}

\* Every variable keeps its type, and the dict holds a key once.
TypeOK ==
  /\ now \in Nat /\ spent \in Nat /\ billed \in Nat /\ late \in Nat
  /\ store \in Seq(Entries)
  /\ \A i, j \in DOMAIN store : store[i].key = store[j].key => i = j
  /\ pc \in [Workers -> Labels] /\ loc \in [Workers -> Locals]

\* The budget is never overspent by its own count, and it never counts more
\* than was billed, however the charges of concurrent calls interleave.
SpentWithinBudget == spent <= Budget /\ spent <= billed

\* Once the budget is exhausted it stays so, and at most the calls that were
\* already past should_use_llm are still made: one per other worker.
FewLateCalls == late <= Cardinality(Workers) - 1

\* What a lookup takes for a hit was put at most Ttl before it, however often
\* other hits have moved the entry.
ServedFresh ==
  \A w \in Workers : pc[w] \in {"hit", "readd"} => loc[w].asked - loc[w].entry.made <= Ttl

\* "once exhausted the pipeline falls back to a pure rule-only mode instead
\* of spending beyond cap": no call starts when the cap is already billed.
NoCallBeyondCap == [][billed' > billed => billed < Budget]_vars
=============================================================================
