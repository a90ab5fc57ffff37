-------------------------- MODULE SearchChainProofs --------------------------
(***************************************************************************)
(* Proofs about SearchChain, for any number of searches and providers, any  *)
(* threshold and cooldown, and any number of cancelled searches.            *)
(***************************************************************************)
EXTENDS SearchChain, FiniteSetTheorems, TLAPS

-----------------------------------------------------------------------------
(* Types *)

\* Where a search goes on: nowhere, or to one provider, whose call is counted.
Moves(s, counted, q) ==
  /\ at' = [at EXCEPT ![s] = q]
  /\ calls' = IF q = 0 THEN counted ELSE [counted EXCEPT ![q] = @ + 1]

LEMMA Proceeding ==
  ASSUME NEW s \in Search, NEW p \in Nat, NEW counted, Proceed(s, p, counted)
  PROVE  \E q \in Provider \cup {0} : (q = 0 \/ q > p) /\ Moves(s, counted, q)
<1>1. 0 \notin Provider
  BY DEF Provider
<1>2. CASE at' = [at EXCEPT ![s] = 0] /\ calls' = counted
  <2>1. Moves(s, counted, 0)
    BY <1>2 DEF Moves
  <2> QED
    BY <2>1
<1>3. ASSUME NEW q \in Provider, q > p, at' = [at EXCEPT ![s] = q],
             calls' = [counted EXCEPT ![q] = @ + 1]
      PROVE  (q = 0 \/ q > p) /\ Moves(s, counted, q)
  BY <1>1, <1>3 DEF Moves
<1> QED
  BY <1>2, <1>3 DEF Proceed

LEMMA MovingTypes ==
  ASSUME TypeOK, NEW s \in Search, NEW counted \in [Provider -> Nat],
         NEW q \in Provider \cup {0}, Moves(s, counted, q)
  PROVE  at' \in [Search -> Provider \cup {0}] /\ calls' \in [Provider -> Nat]
<1>1. at' \in [Search -> Provider \cup {0}]
  BY DEF TypeOK, Moves
<1>2. CASE q = 0
  BY <1>1, <1>2 DEF Moves
<1>3. CASE q \in Provider
  <2>1. q # 0
    BY <1>3 DEF Provider
  <2>2. calls' = [counted EXCEPT ![q] = @ + 1] /\ counted[q] + 1 \in Nat
    BY <1>3, <2>1 DEF Moves
  <2> QED
    BY <1>1, <2>2
<1> QED
  BY <1>2, <1>3

LEMMA TypesInit == Init => TypeOK
BY SearchChainAssumption DEF Init, TypeOK

LEMMA TypesStep ==
  ASSUME TypeOK, [Next]_vars
  PROVE  TypeOK'
<1> USE SearchChainAssumption
<1>1. ASSUME NEW s \in Search, Begin(s) PROVE TypeOK'
  <2>1. PICK q \in Provider \cup {0} : Moves(s, calls, q)
    BY <1>1, Proceeding DEF Begin
  <2>2. at' \in [Search -> Provider \cup {0}] /\ calls' \in [Provider -> Nat]
    BY <2>1, MovingTypes DEF TypeOK
  <2> QED
    BY <1>1, <2>2 DEF TypeOK, Begin
<1>2. ASSUME NEW s \in Search, Cancel(s) PROVE TypeOK'
  BY <1>2 DEF TypeOK, Cancel
<1>3. ASSUME NEW s \in Search, NEW p \in Provider, Results(s, p) PROVE TypeOK'
  BY <1>3 DEF TypeOK, Results, RecordSuccess
<1>4. ASSUME NEW s \in Search, NEW p \in Provider, Nothing(s, p) PROVE TypeOK'
  <2>1. [calls EXCEPT ![p] = 0] \in [Provider -> Nat] /\ p \in Nat
    BY DEF TypeOK, Provider
  <2>2. PICK q \in Provider \cup {0} : Moves(s, [calls EXCEPT ![p] = 0], q)
    BY <1>4, <2>1, Proceeding DEF Nothing
  <2>3. at' \in [Search -> Provider \cup {0}] /\ calls' \in [Provider -> Nat]
    BY <2>1, <2>2, MovingTypes
  <2>4. failures' \in [Provider -> 0..Threshold] /\ cooling' \in [Provider -> 0..Cooldown]
    BY <1>4 DEF TypeOK, Nothing, RecordSuccess
  <2> QED
    BY <1>4, <2>3, <2>4 DEF TypeOK, Nothing
<1>5. ASSUME NEW s \in Search, NEW p \in Provider, Raises(s, p) PROVE TypeOK'
  <2> DEFINE counted == IF failures[p] + 1 >= Threshold THEN [calls EXCEPT ![p] = 0] ELSE calls
  <2>1. counted \in [Provider -> Nat] /\ p \in Nat
    BY DEF TypeOK, Provider
  <2>2. PICK q \in Provider \cup {0} : Moves(s, counted, q)
    BY <1>5, <2>1, Proceeding DEF Raises
  <2>3. at' \in [Search -> Provider \cup {0}] /\ calls' \in [Provider -> Nat]
    BY <2>1, <2>2, MovingTypes
  <2>4. failures' \in [Provider -> 0..Threshold] /\ cooling' \in [Provider -> 0..Cooldown]
    BY <1>5 DEF TypeOK, Raises
  <2> QED
    BY <1>5, <2>3, <2>4 DEF TypeOK, Raises
<1>6. CASE Tick
  BY <1>6 DEF TypeOK, Tick, IsOpen
<1>7. CASE UNCHANGED vars
  BY <1>7 DEF TypeOK, vars
<1> QED
  BY <1>1, <1>2, <1>3, <1>4, <1>5, <1>6, <1>7 DEF Next, Answer

\* Every variable keeps its type.
THEOREM TypeCorrect == Spec => []TypeOK
BY TypesInit, TypesStep, PTL DEF Spec

-----------------------------------------------------------------------------
(* Calls of a provider *)

\* One search moves: one provider may lose its call, another may gain it.
LEMMA AwaitingMoves ==
  ASSUME TypeOK, NEW s \in Search, NEW q \in Provider \cup {0}, at' = [at EXCEPT ![s] = q],
         NEW r \in Provider
  PROVE  /\ Cardinality(Awaiting(r)) \in Nat /\ Cardinality(Awaiting(r)') \in Nat
         /\ Cardinality(Awaiting(r)') = Cardinality(Awaiting(r))
              + (IF q = r THEN 1 ELSE 0) - (IF at[s] = r THEN 1 ELSE 0)
<1>1. Awaiting(r) \in SUBSET Search /\ (s \in Awaiting(r) <=> at[s] = r)
  BY DEF Awaiting
<1>2. Awaiting(r)' = IF q = r THEN Awaiting(r) \cup {s} ELSE Awaiting(r) \ {s}
  BY DEF Awaiting, TypeOK
<1>3. IsFiniteSet(Awaiting(r)) /\ Cardinality(Awaiting(r)) \in Nat
  BY <1>1, SearchChainAssumption, FS_Subset, FS_CardinalityType
<1>4. /\ Cardinality(Awaiting(r) \cup {s})
           = IF s \in Awaiting(r) THEN Cardinality(Awaiting(r)) ELSE Cardinality(Awaiting(r)) + 1
      /\ Cardinality(Awaiting(r) \ {s})
           = IF s \in Awaiting(r) THEN Cardinality(Awaiting(r)) - 1 ELSE Cardinality(Awaiting(r))
      /\ IsFiniteSet(Awaiting(r) \cup {s}) /\ IsFiniteSet(Awaiting(r) \ {s})
  BY <1>3, FS_AddElement, FS_RemoveElement
<1>5. Cardinality(Awaiting(r)') \in Nat
  BY <1>2, <1>4, FS_CardinalityType
<1> HIDE DEF Awaiting
<1> QED
  BY <1>1, <1>2, <1>3, <1>4, <1>5

\* The failures of a provider whose breaker has not yet opened.
Strikes(p) == IF failures[p] < Threshold THEN failures[p] ELSE 0

FewCalls(p) == calls[p] <= Cardinality(Awaiting(p)) + cancels + Strikes(p)

\* A search leaves a provider that failed, or never called one, for the next: the
\* call it ends has become a strike, or the provider's count starts anew.
LEMMA MovesKeepFew ==
  ASSUME TypeOK, TypeOK', NEW s \in Search, NEW q \in Provider \cup {0}, NEW counted,
         counted \in [Provider -> Nat], Moves(s, counted, q), q = 0 \/ q > at[s],
         cancels' = cancels, NEW r \in Provider, FewCalls(r),
         \/ counted[r] = 0
         \/ counted[r] = calls[r]
              /\ Strikes(r)' = Strikes(r) + (IF at[s] = r THEN 1 ELSE 0)
  PROVE  FewCalls(r)'
<1>1. 0 \notin Provider /\ r \in Nat /\ (q = r => at[s] # r)
  BY DEF Provider, TypeOK
<1>2. /\ Cardinality(Awaiting(r)) \in Nat /\ Cardinality(Awaiting(r)') \in Nat
      /\ Cardinality(Awaiting(r)') = Cardinality(Awaiting(r))
           + (IF q = r THEN 1 ELSE 0) - (IF at[s] = r THEN 1 ELSE 0)
  <2>1. at' = [at EXCEPT ![s] = q]
    BY DEF Moves
  <2>2. \A p \in Provider :
          /\ Cardinality(Awaiting(p)) \in Nat /\ Cardinality(Awaiting(p)') \in Nat
          /\ Cardinality(Awaiting(p)') = Cardinality(Awaiting(p))
               + (IF q = p THEN 1 ELSE 0) - (IF at[s] = p THEN 1 ELSE 0)
    BY <2>1, AwaitingMoves
  <2> QED
    BY <2>2
<1>3. calls'[r] = counted[r] + (IF q = r THEN 1 ELSE 0)
  BY <1>1 DEF Moves
<1>4. /\ {Strikes(r), Strikes(r)'} \subseteq Nat /\ {calls[r], counted[r], cancels} \subseteq Nat
  BY SearchChainAssumption DEF Strikes, TypeOK
<1> HIDE DEF Awaiting, Strikes
<1>5. CASE q = r
  <2>1. /\ Cardinality(Awaiting(r)') = Cardinality(Awaiting(r)) + 1
        /\ calls'[r] = counted[r] + 1
    BY <1>1, <1>2, <1>3, <1>5
  <2>2. counted[r] <= Cardinality(Awaiting(r)) + cancels + Strikes(r)'
    BY <1>1, <1>2, <1>4, <1>5 DEF FewCalls
  <2> QED
    BY <1>2, <1>4, <2>1, <2>2 DEF FewCalls
<1>6. CASE q # r
  BY <1>2, <1>3, <1>4, <1>6 DEF FewCalls
<1> QED
  BY <1>5, <1>6

LEMMA FewCallsStep ==
  ASSUME TypeOK, TypeOK', [Next]_vars, NEW r \in Provider, FewCalls(r)
  PROVE  FewCalls(r)'
<1> USE SearchChainAssumption
<1>1. 0 \notin Provider /\ Provider \subseteq Nat
  BY DEF Provider
<1>2. ASSUME NEW s \in Search, Begin(s) PROVE FewCalls(r)'
  <2>1. PICK q \in Provider \cup {0} : Moves(s, calls, q) /\ (q = 0 \/ q > 0)
    BY <1>2, Proceeding DEF Begin
  <2>2. Strikes(r)' = Strikes(r) /\ at[s] = 0 /\ cancels' = cancels /\ calls \in [Provider -> Nat]
    BY <1>2 DEF Begin, Strikes, TypeOK
  <2>3. Strikes(r)' = Strikes(r) + (IF at[s] = r THEN 1 ELSE 0)
    BY <1>1, <2>2 DEF Strikes, TypeOK
  <2> QED
    BY <2>1, <2>2, <2>3, MovesKeepFew
<1>3. ASSUME NEW s \in Search, Cancel(s) PROVE FewCalls(r)'
  <2>1. /\ Cardinality(Awaiting(r)) \in Nat /\ Cardinality(Awaiting(r)') \in Nat
        /\ Cardinality(Awaiting(r)') >= Cardinality(Awaiting(r)) - 1
    <3>1. at' = [at EXCEPT ![s] = 0] /\ 0 \in Provider \cup {0}
      BY <1>3 DEF Cancel
    <3>2. /\ Cardinality(Awaiting(r)) \in Nat /\ Cardinality(Awaiting(r)') \in Nat
          /\ Cardinality(Awaiting(r)') = Cardinality(Awaiting(r))
               + (IF 0 = r THEN 1 ELSE 0) - (IF at[s] = r THEN 1 ELSE 0)
      BY <3>1, AwaitingMoves
    <3> HIDE DEF Awaiting
    <3> QED
      BY <3>2
  <2>2. /\ Strikes(r)' = Strikes(r) /\ calls' = calls /\ cancels' = cancels + 1
        /\ {Strikes(r), calls[r], cancels} \subseteq Nat
    BY <1>3 DEF Cancel, Strikes, TypeOK
  <2> HIDE DEF Awaiting, Strikes
  <2> QED
    BY <2>1, <2>2 DEF FewCalls
<1>4. ASSUME NEW s \in Search, NEW p \in Provider, Results(s, p) PROVE FewCalls(r)'
  <2> DEFINE counted == [calls EXCEPT ![p] = 0]
  <2>1. Moves(s, counted, 0) /\ counted \in [Provider -> Nat] /\ cancels' = cancels /\ at[s] = p
    BY <1>4 DEF Results, Moves, TypeOK
  <2>2. \/ counted[r] = 0
        \/ counted[r] = calls[r] /\ Strikes(r)' = Strikes(r) + (IF at[s] = r THEN 1 ELSE 0)
    BY <1>4, <2>1 DEF Results, RecordSuccess, Strikes, TypeOK
  <2> HIDE DEF counted
  <2> QED
    BY <2>1, <2>2, MovesKeepFew
<1>5. ASSUME NEW s \in Search, NEW p \in Provider, Nothing(s, p) PROVE FewCalls(r)'
  <2> DEFINE counted == [calls EXCEPT ![p] = 0]
  <2>1. counted \in [Provider -> Nat] /\ cancels' = cancels /\ at[s] = p
    BY <1>5 DEF Nothing, TypeOK
  <2>2. \/ counted[r] = 0
        \/ counted[r] = calls[r] /\ Strikes(r)' = Strikes(r) + (IF at[s] = r THEN 1 ELSE 0)
    BY <1>5, <2>1 DEF Nothing, RecordSuccess, Strikes, TypeOK
  <2>3. Proceed(s, p, counted) /\ p \in Nat
    BY <1>1, <1>5 DEF Nothing
  <2> HIDE DEF counted
  <2>4. PICK q \in Provider \cup {0} : Moves(s, counted, q) /\ (q = 0 \/ q > p)
    BY <2>3, Proceeding
  <2> QED
    BY <2>1, <2>2, <2>4, MovesKeepFew
<1>6. ASSUME NEW s \in Search, NEW p \in Provider, Raises(s, p) PROVE FewCalls(r)'
  <2> DEFINE counted == IF failures[p] + 1 >= Threshold THEN [calls EXCEPT ![p] = 0] ELSE calls
  <2>1. counted \in [Provider -> Nat] /\ cancels' = cancels /\ at[s] = p
    BY <1>6 DEF Raises, TypeOK
  <2>2. \/ counted[r] = 0
        \/ counted[r] = calls[r] /\ Strikes(r)' = Strikes(r) + (IF at[s] = r THEN 1 ELSE 0)
    BY <1>6, <2>1 DEF Raises, Strikes, TypeOK
  <2>3. Proceed(s, p, counted) /\ p \in Nat
    BY <1>1, <1>6 DEF Raises
  <2> HIDE DEF counted
  <2>4. PICK q \in Provider \cup {0} : Moves(s, counted, q) /\ (q = 0 \/ q > p)
    BY <2>3, Proceeding
  <2> QED
    BY <2>1, <2>2, <2>4, MovesKeepFew
<1>7. CASE Tick \/ UNCHANGED vars
  BY <1>7 DEF Tick, vars, FewCalls, Strikes, Awaiting
<1> QED
  BY <1>2, <1>3, <1>4, <1>5, <1>6, <1>7 DEF Next, Answer

\* A provider that does not answer is called a bounded number of times before
\* its breaker opens, whatever the searches are and however they interleave.
THEOREM FewCallsTheorem == Spec => []FewCallsBeforeQuiet
<1> DEFINE Few == \A p \in Provider : FewCalls(p)
<1>1. Init => Few
  <2> SUFFICES ASSUME Init, NEW p \in Provider PROVE FewCalls(p)
    OBVIOUS
  <2>1. Awaiting(p) = {} /\ calls[p] = 0 /\ cancels = 0 /\ Strikes(p) = 0
    BY SearchChainAssumption DEF Init, Awaiting, Provider, Strikes
  <2> QED
    BY <2>1, FS_EmptySet DEF FewCalls
<1>2. TypeOK /\ Few /\ [Next]_vars => (TypeOK /\ Few)'
  BY TypesStep, FewCallsStep
<1>3. Few => FewCallsBeforeQuiet
  BY DEF FewCalls, FewCallsBeforeQuiet, Strikes
<1> QED
  BY TypesInit, <1>1, <1>2, <1>3, PTL DEF Spec

-----------------------------------------------------------------------------
(* Each provider has a circuit breaker *)

\* A breaker that is open has counted to the threshold, and is half open afterwards.
OpenIsFull == \A p \in Provider : IsOpen(p) => failures[p] = Threshold

\* Where a search goes on, the breaker is not open.
LEMMA ProceedsToCallable ==
  ASSUME NEW s \in Search, NEW p \in Nat, NEW counted, Proceed(s, p, counted)
  PROVE  \E q \in Provider \cup {0} :
           at' = [at EXCEPT ![s] = q] /\ (q \in Provider => q > p /\ ~IsOpen(q))
<1>1. 0 \notin Provider
  BY DEF Provider
<1> QED
  BY <1>1 DEF Proceed

\* A search that leaves the provider p and goes on to q, or a new one (p is 0).
LEMMA Joins ==
  ASSUME TypeOK, NEW s \in Search, NEW q \in Provider \cup {0}, at' = [at EXCEPT ![s] = q], NEW r \in Provider
  PROVE  /\ Awaiting(r)' = IF q = r THEN Awaiting(r) \cup {s} ELSE Awaiting(r) \ {s}
         /\ s \in Awaiting(r) <=> at[s] = r
BY DEF Awaiting, TypeOK

LEMMA OpenIsFullStep ==
  ASSUME TypeOK, OpenIsFull, [Next]_vars
  PROVE  OpenIsFull'
<1> SUFFICES ASSUME NEW r \in Provider, IsOpen(r)' PROVE failures'[r] = Threshold
  BY DEF OpenIsFull
<1>1. IsOpen(r) => failures[r] = Threshold
  BY DEF OpenIsFull
<1>2. CASE cooling' = cooling /\ failures' = failures
  BY <1>1, <1>2 DEF IsOpen
<1>3. ASSUME NEW p \in Provider, RecordSuccess(p) PROVE failures'[r] = Threshold
  BY <1>1, <1>3 DEF RecordSuccess, IsOpen, TypeOK
<1>4. ASSUME NEW s \in Search, NEW p \in Provider, Raises(s, p) PROVE failures'[r] = Threshold
  <2>1. CASE p = r
    BY <1>1, <1>4, <2>1 DEF Raises, IsOpen, TypeOK
  <2>2. CASE p # r
    BY <1>1, <1>4, <2>2 DEF Raises, IsOpen, TypeOK
  <2> QED
    BY <2>1, <2>2
<1>5. CASE Tick
  BY <1>1, <1>5 DEF Tick, IsOpen, TypeOK
<1> QED
  BY <1>2, <1>3, <1>4, <1>5 DEF Next, Answer, Begin, Cancel, Results, Nothing, vars

\* To each provider a step of the chain is one of its breaker's, or nothing.
LEMMA BreakerStep ==
  ASSUME TypeOK, OpenIsFull, [Next]_vars, NEW r \in Provider
  PROVE  [Breaker(r)!BreakerNext]_<<BreakerState(r), Awaiting(r), cancels>>
<1> DEFINE Seen == <<BreakerState(r), Awaiting(r), cancels>>
<1>1. r \in Nat /\ r # 0 /\ Threshold \in Nat \ {0} /\ Cooldown \in Nat \ {0}
  BY SearchChainAssumption DEF Provider
<1>2. /\ failures[r] \in 0..Threshold /\ cooling[r] \in 0..Cooldown
      /\ IsOpen(r) => failures[r] = Threshold
  BY DEF TypeOK, OpenIsFull
\* A search moves to q, from another provider or none.
<1>3. ASSUME NEW s \in Search, NEW q \in Provider \cup {0}, at' = [at EXCEPT ![s] = q], at[s] # r,
             q = r => ~IsOpen(r), BreakerState(r)' = BreakerState(r), cancels' = cancels
      PROVE  [Breaker(r)!BreakerNext]_Seen
  <2>1. CASE q = r
    <3>1. s \notin Awaiting(r) /\ Awaiting(r)' = Awaiting(r) \cup {s} /\ BreakerState(r) # "open"
      BY <1>3, <2>1, Joins DEF BreakerState
    <3>2. Breaker(r)!Call(s)
      BY <1>3, <3>1 DEF Breaker!Call
    <3> QED
      BY <3>2 DEF Breaker!BreakerNext
  <2>2. CASE q # r
    <3>1. s \notin Awaiting(r) /\ Awaiting(r)' = Awaiting(r) \ {s}
      BY <1>3, <2>2, Joins
    <3>2. Awaiting(r)' = Awaiting(r)
      BY <3>1
    <3> QED
      BY <1>3, <3>2
  <2> QED
    BY <2>1, <2>2
\* The provider answers a search, which moves on.
<1>4. ASSUME NEW s \in Search, NEW q \in Provider \cup {0}, at' = [at EXCEPT ![s] = q], at[s] = r, q # r
      PROVE  s \in Awaiting(r) /\ Awaiting(r)' = Awaiting(r) \ {s}
  BY <1>4, Joins
<1>5. ASSUME NEW s \in Search, Begin(s) PROVE [Breaker(r)!BreakerNext]_Seen
  <2>1. PICK q \in Provider \cup {0} : at' = [at EXCEPT ![s] = q] /\ (q \in Provider => ~IsOpen(q))
    BY <1>5, ProceedsToCallable DEF Begin
  <2>2. at[s] # r /\ cancels' = cancels /\ BreakerState(r)' = BreakerState(r)
    BY <1>1, <1>5 DEF Begin, BreakerState, IsOpen
  <2> QED
    BY <1>3, <2>1, <2>2
<1>6. ASSUME NEW s \in Search, Cancel(s) PROVE [Breaker(r)!BreakerNext]_Seen
  <2>1. at' = [at EXCEPT ![s] = 0] /\ cancels' = cancels + 1 /\ BreakerState(r)' = BreakerState(r)
    BY <1>6 DEF Cancel, BreakerState, IsOpen
  <2>2. Awaiting(r)' = Awaiting(r) \ {s}
    BY <1>1, <2>1, Joins
  <2>3. Breaker(r)!Cancel(s)
    BY <2>1, <2>2 DEF Breaker!Cancel
  <2> QED
    BY <2>3 DEF Breaker!BreakerNext
<1>7. ASSUME NEW s \in Search, NEW p \in Provider, Results(s, p) \/ Nothing(s, p)
      PROVE  [Breaker(r)!BreakerNext]_Seen
  <2>1. PICK q \in Provider \cup {0} : at' = [at EXCEPT ![s] = q] /\ (q \in Provider => q > p /\ ~IsOpen(q))
    <3>1. 0 \in Provider \cup {0} /\ 0 \notin Provider /\ p \in Nat
      BY DEF Provider
    <3>2. CASE Results(s, p)
      BY <3>1, <3>2 DEF Results
    <3>3. CASE Nothing(s, p)
      BY <3>1, <3>3, ProceedsToCallable DEF Nothing
    <3> QED
      BY <1>7, <3>2, <3>3
  <2>2. at[s] = p /\ RecordSuccess(p) /\ cancels' = cancels
    BY <1>7 DEF Results, Nothing
  <2>3. CASE p = r
    <3>1. q # r
      BY <1>1, <2>1, <2>3
    <3>2. failures'[r] = 0 /\ cooling'[r] = 0
      BY <2>2, <2>3 DEF RecordSuccess, TypeOK
    <3>3. BreakerState(r)' = "closed"
      BY <1>1, <3>2 DEF BreakerState, IsOpen
    <3>4. s \in Awaiting(r) /\ Awaiting(r)' = Awaiting(r) \ {s}
      BY <1>4, <2>1, <2>2, <2>3, <3>1
    <3>5. Breaker(r)!Succeed(s)
      BY <2>2, <3>3, <3>4 DEF Breaker!Succeed, Breaker!Answer
    <3> QED
      BY <3>5 DEF Breaker!BreakerNext
  <2>4. CASE p # r
    <3>1. BreakerState(r)' = BreakerState(r)
      BY <2>2, <2>4 DEF RecordSuccess, BreakerState, IsOpen, TypeOK
    <3> QED
      BY <1>3, <2>1, <2>2, <2>4, <3>1
  <2> QED
    BY <2>3, <2>4
<1>8. ASSUME NEW s \in Search, NEW p \in Provider, Raises(s, p)
      PROVE  [Breaker(r)!BreakerNext]_Seen
  <2>1. PICK q \in Provider \cup {0} : at' = [at EXCEPT ![s] = q] /\ (q \in Provider => q > p /\ ~IsOpen(q))
    <3>1. p \in Nat
      BY DEF Provider
    <3> QED
      BY <1>8, <3>1, ProceedsToCallable DEF Raises
  <2>2. at[s] = p /\ cancels' = cancels
    BY <1>8 DEF Raises
  <2>3. CASE p = r
    <3>1. q # r
      BY <1>1, <2>1, <2>3
    <3>2. s \in Awaiting(r) /\ Awaiting(r)' = Awaiting(r) \ {s}
      BY <1>4, <2>1, <2>2, <2>3, <3>1
    <3>3. /\ failures'[r] = IF failures[r] + 1 >= Threshold THEN Threshold ELSE failures[r] + 1
          /\ cooling'[r] = IF failures[r] + 1 >= Threshold THEN Cooldown ELSE cooling[r]
      BY <1>8, <2>3 DEF Raises, TypeOK
    <3>4. BreakerState(r)' = "open" \/ (BreakerState(r) = "closed" /\ BreakerState(r)' = "closed")
      BY <1>1, <1>2, <3>3 DEF BreakerState, IsOpen
    <3>5. Breaker(r)!Fail(s)
      BY <2>2, <3>2, <3>4 DEF Breaker!Fail, Breaker!Answer
    <3> QED
      BY <3>5 DEF Breaker!BreakerNext
  <2>4. CASE p # r
    <3>1. BreakerState(r)' = BreakerState(r)
      BY <1>8, <2>4 DEF Raises, BreakerState, IsOpen, TypeOK
    <3> QED
      BY <1>3, <2>1, <2>2, <2>4, <3>1
  <2> QED
    BY <2>3, <2>4
<1>9. CASE Tick
  <2>1. UNCHANGED <<Awaiting(r), cancels>> /\ failures'[r] = failures[r]
        /\ cooling'[r] = IF cooling[r] > 0 THEN cooling[r] - 1 ELSE 0
    BY <1>9 DEF Tick, Awaiting, IsOpen
  <2>2. \/ BreakerState(r)' = BreakerState(r)
        \/ BreakerState(r) = "open" /\ BreakerState(r)' = "half_open"
    BY <1>1, <1>2, <2>1 DEF BreakerState, IsOpen
  <2>3. CASE BreakerState(r)' = BreakerState(r)
    BY <2>1, <2>3
  <2>4. CASE BreakerState(r) = "open" /\ BreakerState(r)' = "half_open"
    <3>1. Breaker(r)!CoolDown
      BY <2>1, <2>4 DEF Breaker!CoolDown
    <3> QED
      BY <3>1 DEF Breaker!BreakerNext
  <2> QED
    BY <2>2, <2>3, <2>4
<1>10. CASE UNCHANGED vars
  BY <1>10 DEF vars, BreakerState, IsOpen, Awaiting
<1> QED
  BY <1>5, <1>6, <1>7, <1>8, <1>9, <1>10 DEF Next, Answer

LEMMA BreakersInit == Init => OpenIsFull /\ \A p \in Provider : Breaker(p)!BreakerInit
<1> SUFFICES ASSUME Init, NEW p \in Provider
             PROVE  (IsOpen(p) => failures[p] = Threshold) /\ Breaker(p)!BreakerInit
  BY DEF OpenIsFull
<1>1. cooling[p] = 0 /\ failures[p] = 0 /\ cancels = 0 /\ Threshold \in Nat \ {0}
  BY SearchChainAssumption DEF Init
<1>2. Awaiting(p) = {}
  BY DEF Init, Awaiting, Provider
<1> QED
  BY <1>1, <1>2 DEF IsOpen, BreakerState, Breaker!BreakerInit

\* However many searches share the chain, the calls of each provider see a
\* circuit breaker that nothing else opens, closes or keeps open.
THEOREM BreakersTheorem == Spec => EachHasItsBreaker
<1>1. TypeOK /\ OpenIsFull /\ [Next]_vars
      => [\A p \in Provider : [Breaker(p)!BreakerNext]_<<BreakerState(p), Awaiting(p), cancels>>]_vars
  BY BreakerStep
<1>2. TypeOK /\ OpenIsFull /\ [Next]_vars => (TypeOK /\ OpenIsFull)'
  BY TypesStep, OpenIsFullStep
<1> QED
  BY <1>1, <1>2, TypesInit, BreakersInit, PTL DEF Spec, EachHasItsBreaker
=============================================================================
