------------------------------ MODULE LlmClient ------------------------------
(***************************************************************************)
(* complete_structured of core/llm.py: concurrent calls over the running    *)
(* spend and the fast cache in Redis (core/cache.py) and the table          *)
(* llm_cache.  Each await on Redis, on the database or on the model ends a  *)
(* step.  Redis keeps nothing over a restart (docker-compose.yml).  In stub *)
(* mode there is no state, and the answers themselves make no difference.   *)
(***************************************************************************)
EXTENDS Integers, FiniteSets

CONSTANTS
  Caller,       \* the handlers that may be in complete_structured at one time
  Prompt,       \* cache keys: prompt hash, model and schema version
  Cost,         \* what one agent.run may cost, with its re-asks, in a unit of money
  Ceiling,      \* settings.llm.max_spend_usd, in that unit
  MaxTries,     \* max_attempts of llm_retry
  MaxLost,      \* the bound on calls that are killed or billed without an answer
  MaxRestarts   \* the bound on restarts of Redis

\* The dearest call.
Dearest == CHOOSE k \in Cost : \A j \in Cost : j <= k

ASSUME LlmClientAssumption ==
  /\ IsFiniteSet(Caller)
  /\ Cost \subseteq Nat
  /\ \E k \in Cost : \A j \in Cost : j <= k
  /\ {Ceiling, MaxTries} \subseteq Nat \ {0}

VARIABLES
  call,      \* the calls under way
  spend,     \* llm:spend_usd
  hot,       \* the llmcache: keys of Redis
  cold,      \* the rows of llm_cache
  billed,    \* history: what the provider has charged
  paid,      \* history: how many answers were paid for, by prompt
  lost,      \* history: calls killed, or charged without an answer
  restarts   \* history: restarts of Redis

vars == <<call, spend, hot, cold, billed, paid, lost, restarts>>

\* pc: the await the call is in.  "hot", "cold", "warm": _get_cached, its Redis
\* read, its SELECT and its Redis write; "gate": _spend_so_far; "ask": the model;
\* "record": _record_spend; "heat", "store": _store_cached.
Pc == {"idle", "hot", "cold", "warm", "gate", "ask", "record", "heat", "store"}
NoCall == [pc |-> "idle", prompt |-> "none", tries |-> 0, cost |-> 0]
Call == {NoCall} \cup [pc : Pc \ {"idle"}, prompt : Prompt, tries : Nat, cost : Nat]

Init ==
  /\ call = [c \in Caller |-> NoCall]
  /\ spend = 0 /\ hot = {} /\ cold = {}
  /\ billed = 0 /\ paid = [p \in Prompt |-> 0]
  /\ lost = 0 /\ restarts = 0

-----------------------------------------------------------------------------
At(c, pc) == call[c].pc = pc
Goto(c, pc) == call' = [call EXCEPT ![c].pc = pc]
Leave(c) == call' = [call EXCEPT ![c] = NoCall]

\* The calls that have passed the ceiling and are not counted in spend.
Uncounted == {c \in Caller : call[c].pc \in {"ask", "record"}}

\* The hash is computed and the Redis key read.
Begin(c, p) ==
  /\ At(c, "idle")
  /\ call' = [call EXCEPT ![c] = [NoCall EXCEPT !.pc = "hot", !.prompt = p]]
  /\ UNCHANGED <<spend, hot, cold, billed, paid, lost, restarts>>

ReadHot(c) ==
  /\ At(c, "hot")
  /\ IF call[c].prompt \in hot THEN Leave(c) ELSE Goto(c, "cold")
  /\ UNCHANGED <<spend, hot, cold, billed, paid, lost, restarts>>

\* Mutant: the SELECT does not find the row.
MissCold(c) ==
  /\ At(c, "cold")
  /\ Goto(c, "gate")
  /\ UNCHANGED <<spend, hot, cold, billed, paid, lost, restarts>>

ReadCold(c) ==
  /\ At(c, "cold")
  /\ Goto(c, IF call[c].prompt \in cold THEN "warm" ELSE "gate")
  /\ UNCHANGED <<spend, hot, cold, billed, paid, lost, restarts>>

Warm(c) ==
  /\ At(c, "warm")
  /\ hot' = hot \cup {call[c].prompt}
  /\ Leave(c)
  /\ UNCHANGED <<spend, cold, billed, paid, lost, restarts>>

\* Mutant: the ceiling is passed by a call that finds it exactly reached.
GateAtCeiling(c) ==
  /\ At(c, "gate")
  /\ IF spend > Ceiling THEN Leave(c) ELSE Goto(c, "ask")
  /\ UNCHANGED <<spend, hot, cold, billed, paid, lost, restarts>>

\* _spend_so_far and the comparison: BudgetExceededError, or on to the model.
\* Nothing is reserved.
Gate(c) ==
  /\ At(c, "gate")
  /\ IF spend >= Ceiling THEN Leave(c) ELSE Goto(c, "ask")
  /\ UNCHANGED <<spend, hot, cold, billed, paid, lost, restarts>>

\* _call_agent returns an answer, and the provider charges for it; tries and
\* cost are forgotten once nothing reads them.
Answer(c, k) ==
  /\ At(c, "ask")
  /\ billed' = billed + k
  /\ paid' = [paid EXCEPT ![call[c].prompt] = @ + 1]
  /\ call' = [call EXCEPT ![c] = [@ EXCEPT !.pc = "record", !.tries = 0, !.cost = k]]
  /\ UNCHANGED <<spend, hot, cold, lost, restarts>>

\* llm_retry: a transient failure is retried while attempts remain, the last one
\* and any other exception end the call.
Fail(c) ==
  /\ At(c, "ask")
  /\ \/ call[c].tries + 1 < MaxTries /\ call' = [call EXCEPT ![c].tries = @ + 1]
     \/ Leave(c)
  /\ UNCHANGED <<spend, hot, cold, paid, restarts>>

FailFree(c) == Fail(c) /\ UNCHANGED <<billed, lost>>

\* The answer is lost on the way, or none of the re-asks fits the schema.
FailBilled(c, k) ==
  /\ lost < MaxLost
  /\ Fail(c)
  /\ billed' = billed + k
  /\ lost' = lost + 1

\* Mutant: an answer is not added to the spend.
RecordNothing(c) ==
  /\ At(c, "record")
  /\ Goto(c, "heat")
  /\ UNCHANGED <<spend, hot, cold, billed, paid, lost, restarts>>

Record(c) ==
  /\ At(c, "record")
  /\ spend' = spend + call[c].cost
  /\ call' = [call EXCEPT ![c] = [@ EXCEPT !.pc = "heat", !.cost = 0]]
  /\ UNCHANGED <<hot, cold, billed, paid, lost, restarts>>

Heat(c) ==
  /\ At(c, "heat")
  /\ hot' = hot \cup {call[c].prompt}
  /\ Goto(c, "store")
  /\ UNCHANGED <<spend, cold, billed, paid, lost, restarts>>

\* ON CONFLICT DO NOTHING: the first answer stays.
Store(c) ==
  /\ At(c, "store")
  /\ cold' = cold \cup {call[c].prompt}
  /\ Leave(c)
  /\ UNCHANGED <<spend, hot, billed, paid, lost, restarts>>

-----------------------------------------------------------------------------
\* The call ends where it is: its process is killed, its tick is cancelled, or
\* Redis or the database raises.
Kill(c) ==
  /\ ~At(c, "idle")
  /\ lost < MaxLost
  /\ Leave(c)
  /\ lost' = lost + 1
  /\ UNCHANGED <<spend, hot, cold, billed, paid, restarts>>

\* A Redis key expires after llm_cache_ttl_s.
Expire(p) ==
  /\ p \in hot
  /\ hot' = hot \ {p}
  /\ UNCHANGED <<call, spend, cold, billed, paid, lost, restarts>>

Restart ==
  /\ restarts < MaxRestarts
  /\ restarts' = restarts + 1
  /\ hot' = {} /\ spend' = 0
  /\ UNCHANGED <<call, cold, billed, paid, lost>>

Lookup(c) == ReadHot(c) \/ ReadCold(c) \/ Warm(c)
Ask(c) == Gate(c) \/ FailFree(c) \/ \E k \in Cost : Answer(c, k) \/ FailBilled(c, k)
Keep(c) == Record(c) \/ Heat(c) \/ Store(c)

Next ==
  \/ \E c \in Caller : Lookup(c) \/ Ask(c) \/ Keep(c) \/ Kill(c)
  \/ \E c \in Caller, p \in Prompt : Begin(c, p)
  \/ \E p \in Prompt : Expire(p)
  \/ Restart

Spec == Init /\ [][Next]_vars
-----------------------------------------------------------------------------
(* Properties *)

TypeOK ==
  /\ call \in [Caller -> Call]
  /\ hot \subseteq Prompt /\ cold \subseteq Prompt
  /\ paid \in [Prompt -> Nat]
  /\ {spend, billed, lost, restarts} \subseteq Nat

\* The ceiling is read before a call and raised after it: the spend may pass it
\* by the calls that were under way together, and by no more.
CeilingSlack ==
  spend + Dearest * Cardinality(Uncounted) <= Ceiling - 1 + Dearest * Cardinality(Caller)

\* What the provider really charges is bounded too: each life of Redis costs at
\* most what CeilingSlack allows, and each lost call what one call may cost.
BillBound ==
  billed <= (restarts + 1) * (Ceiling - 1 + Dearest * Cardinality(Caller)) + Dearest * lost

\* The two caches together: one prompt is paid for again only by calls that
\* overlapped with the first, or after a call that was lost between the answer
\* and its row; never because Redis forgot it.
PaidByOverlapOnly == \A p \in Prompt : paid[p] <= Cardinality(Caller) + lost
=============================================================================
