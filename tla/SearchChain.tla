----------------------------- MODULE SearchChain -----------------------------
(***************************************************************************)
(* CompositeSearchProvider of providers/search/base.py: the searches of one *)
(* process share one circuit breaker per provider.  A search awaits one     *)
(* provider at a time; between two awaits nothing else runs, so what a      *)
(* breaker records and which open ones are then skipped is one step.  What  *)
(* network_retry repeats inside a provider's search is one call.            *)
(***************************************************************************)
EXTENDS Integers, FiniteSets

CONSTANTS
  Search,      \* the handlers that may be searching at one time
  Providers,   \* how many providers the chain has, tried in the order 1..Providers
  Mute,        \* those that have no key and answer with nothing
  Threshold,   \* fail_threshold
  Cooldown,    \* cooldown_s, in ticks of the clock
  MaxCancels   \* the bound on searches that a job timeout ends

Provider == 1..Providers

ASSUME SearchChainAssumption ==
  /\ IsFiniteSet(Search)
  /\ Mute \subseteq Provider
  /\ {Providers, Threshold, Cooldown} \subseteq Nat \ {0}

VARIABLES
  failures,  \* _consecutive_failures; only its comparison with Threshold is read
  cooling,   \* how long _open_until is still ahead
  at,        \* the provider each search awaits, 0 for none
  calls,     \* history: the calls begun since the provider last answered or was cut off
  cancels    \* history: cancelled searches

vars == <<failures, cooling, at, calls, cancels>>

Init ==
  /\ failures = [p \in Provider |-> 0]
  /\ cooling = [p \in Provider |-> 0]
  /\ at = [s \in Search |-> 0]
  /\ calls = [p \in Provider |-> 0]
  /\ cancels = 0

-----------------------------------------------------------------------------
IsOpen(p) == cooling[p] > 0
Awaiting(p) == {s \in Search : at[s] = p}

\* s is done with provider p and goes to the next whose breaker is closed;
\* counted is calls as the breaker of p leaves it.
Proceed(s, p, counted) ==
  LET closed == {q \in Provider : q > p /\ ~IsOpen(q)}
  IN \/ closed = {} /\ at' = [at EXCEPT ![s] = 0] /\ calls' = counted
     \/ \E q \in closed :
          /\ \A r \in closed : q <= r
          /\ at' = [at EXCEPT ![s] = q]
          /\ calls' = [counted EXCEPT ![q] = @ + 1]

\* Mutant: a search that skips an open breaker counts as its failure.
SkipExtends(s) ==
  /\ at[s] = 0
  /\ Proceed(s, 0, calls)
  /\ cooling' = [p \in Provider |-> IF IsOpen(p) THEN Cooldown ELSE 0]
  /\ UNCHANGED <<failures, cancels>>

Begin(s) ==
  /\ at[s] = 0
  /\ Proceed(s, 0, calls)
  /\ UNCHANGED <<failures, cooling, cancels>>

RecordSuccess(p) ==
  /\ failures' = [failures EXCEPT ![p] = 0]
  /\ cooling' = [cooling EXCEPT ![p] = 0]

\* An answer with results ends the search.
Results(s, p) ==
  /\ at[s] = p /\ p \notin Mute
  /\ RecordSuccess(p)
  /\ at' = [at EXCEPT ![s] = 0]
  /\ calls' = [calls EXCEPT ![p] = 0]
  /\ UNCHANGED cancels

\* An empty answer is a success of the provider, and the search goes on.
Nothing(s, p) ==
  /\ at[s] = p
  /\ RecordSuccess(p)
  /\ Proceed(s, p, [calls EXCEPT ![p] = 0])
  /\ UNCHANGED cancels

\* Mutant: the breaker opens at the threshold, not beyond it.
RaisesOnce(s, p) ==
  LET opens == failures[p] + 1 = Threshold
  IN /\ at[s] = p /\ p \notin Mute
     /\ failures' = [failures EXCEPT ![p] = IF @ < Threshold THEN @ + 1 ELSE @]
     /\ cooling' = [cooling EXCEPT ![p] = IF opens THEN Cooldown ELSE @]
     /\ Proceed(s, p, IF opens THEN [calls EXCEPT ![p] = 0] ELSE calls)
     /\ UNCHANGED cancels

\* record_failure: from the threshold on every failure opens the breaker anew.
Raises(s, p) ==
  LET opens == failures[p] + 1 >= Threshold
  IN /\ at[s] = p /\ p \notin Mute
     /\ failures' = [failures EXCEPT ![p] = IF opens THEN Threshold ELSE @ + 1]
     /\ cooling' = [cooling EXCEPT ![p] = IF opens THEN Cooldown ELSE @]
     /\ Proceed(s, p, IF opens THEN [calls EXCEPT ![p] = 0] ELSE calls)
     /\ UNCHANGED cancels

\* CancelledError is no Exception: nothing is recorded.
Cancel(s) ==
  /\ at[s] # 0
  /\ cancels < MaxCancels
  /\ at' = [at EXCEPT ![s] = 0]
  /\ cancels' = cancels + 1
  /\ UNCHANGED <<failures, cooling, calls>>

Tick ==
  /\ \E p \in Provider : IsOpen(p)
  /\ cooling' = [p \in Provider |-> IF IsOpen(p) THEN cooling[p] - 1 ELSE 0]
  /\ UNCHANGED <<failures, at, calls, cancels>>

Answer(s, p) == Results(s, p) \/ Nothing(s, p) \/ Raises(s, p)

Next ==
  \/ \E s \in Search : Begin(s) \/ Cancel(s)
  \/ \E s \in Search, p \in Provider : Answer(s, p)
  \/ Tick

Spec == Init /\ [][Next]_vars /\ WF_vars(Tick)
-----------------------------------------------------------------------------
(* Properties *)

TypeOK ==
  /\ failures \in [Provider -> 0..Threshold]
  /\ cooling \in [Provider -> 0..Cooldown]
  /\ at \in [Search -> Provider \cup {0}]
  /\ calls \in [Provider -> Nat]
  /\ cancels \in Nat

\* "Stop hammering it": however many searches share the chain, a provider that
\* has stopped answering is called Threshold - 1 times beyond those that were
\* under way together before its breaker opens, and after a quiet period only
\* by those that are under way together; a call that is cancelled tells the
\* breaker nothing and is one more.
FewCallsBeforeQuiet ==
  \A p \in Provider :
    calls[p] <= Cardinality(Awaiting(p)) + cancels
                  + IF failures[p] < Threshold THEN failures[p] ELSE 0

\* A provider that was cut off is tried again: calls that were under way when
\* its breaker opened may open it anew, but no stream of later searches can
\* keep it open.
ProviderComesBack == \A p \in Provider : IsOpen(p) ~> ~IsOpen(p)

\* What a breaker is to the callers of p: the counter tells whether it has been open.
BreakerState(p) ==
  IF IsOpen(p) THEN "open" ELSE IF failures[p] < Threshold THEN "closed" ELSE "half_open"

Breaker(p) == INSTANCE CircuitBreaker WITH state <- BreakerState(p), callers <- Awaiting(p)

\* "A per-provider circuit breaker": in one chain, with searches that go from one
\* provider to the next, skip open breakers, or are cancelled, every provider has
\* a breaker of its own, which no answer of another provider opens or closes.
EachHasItsBreaker ==
  /\ \A p \in Provider : Breaker(p)!BreakerInit
  /\ [][\A p \in Provider : [Breaker(p)!BreakerNext]_<<BreakerState(p), Awaiting(p), cancels>>]_vars
=============================================================================
