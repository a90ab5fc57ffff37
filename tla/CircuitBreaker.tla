---------------------------- MODULE CircuitBreaker ----------------------------
(***************************************************************************)
(* "A per-provider circuit breaker", the words of providers/search/base.py, *)
(* as one provider's callers may rely on it, with no chain around it and no *)
(* counter or clock in it.  No call begins while it is open.  The answers   *)
(* to its own calls alone close or open it; after the cooldown it is half   *)
(* open, any number of calls may begin, and the first answer decides.       *)
(***************************************************************************)
EXTENDS Integers

CONSTANT Search   \* who may call the provider

VARIABLES
  state,     \* "closed", "open" or "half_open"
  callers,   \* those who await the provider's answer
  cancels    \* cancelled searches, of this provider or another

breakerVars == <<state, callers, cancels>>

BreakerInit == state = "closed" /\ callers = {} /\ cancels = 0

Call(s) ==
  /\ state # "open" /\ s \notin callers
  /\ callers' = callers \cup {s}
  /\ UNCHANGED <<state, cancels>>

Answer(s) == s \in callers /\ callers' = callers \ {s} /\ UNCHANGED cancels

Succeed(s) == Answer(s) /\ state' = "closed"

\* Only a closed breaker bears a failure.
Fail(s) == Answer(s) /\ (state' = "open" \/ (state = "closed" /\ UNCHANGED state))

\* Nothing is recorded of a call that is cancelled, here or elsewhere.
Cancel(s) ==
  /\ callers' = callers \ {s}
  /\ cancels' = cancels + 1
  /\ UNCHANGED state

CoolDown == state = "open" /\ state' = "half_open" /\ UNCHANGED <<callers, cancels>>

BreakerNext ==
  \/ \E s \in Search : Call(s) \/ Succeed(s) \/ Fail(s) \/ Cancel(s)
  \/ CoolDown

BreakerSpec == BreakerInit /\ [][BreakerNext]_breakerVars
=============================================================================
