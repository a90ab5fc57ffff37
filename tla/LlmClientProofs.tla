--------------------------- MODULE LlmClientProofs ---------------------------
(***************************************************************************)
(* Proofs about LlmClient, for any number of callers, prompts, lost calls   *)
(* and restarts, any costs that are bounded and any ceiling.                *)
(***************************************************************************)
EXTENDS LlmClient, FiniteSetTheorems, TLAPS

-----------------------------------------------------------------------------
(* Types *)

LEMMA CostsAreNat == Dearest \in Nat /\ \A k \in Cost : k \in Nat /\ k <= Dearest
BY LlmClientAssumption DEF Dearest

\* What the two ways to move a call do to it and to the others.
Others(c) == \A d \in Caller \ {c} : call'[d] = call[d]

LEMMA Going ==
  ASSUME TypeOK, NEW c \in Caller, NEW pc, Goto(c, pc)
  PROVE  call'[c].pc = pc /\ call'[c].prompt = call[c].prompt /\ Others(c)
<1>1. call \in [Caller -> Call] /\ call[c] \in Call
  BY DEF TypeOK
<1>2. call'[c] = [call[c] EXCEPT !.pc = pc]
  BY <1>1 DEF Goto
<1>3. call'[c].pc = pc /\ call'[c].prompt = call[c].prompt
  BY <1>1, <1>2 DEF Call, NoCall
<1> QED
  BY <1>1, <1>3 DEF Goto, Others

LEMMA Leaving ==
  ASSUME TypeOK, NEW c \in Caller, Leave(c)
  PROVE  call'[c].pc = "idle" /\ Others(c)
BY DEF TypeOK, Leave, NoCall, Others

\* What a call that holds an answer will add to the spend is a price.
CostIsKnown == \A c \in Caller : At(c, "record") => call[c].cost \in Cost

Types == TypeOK /\ CostIsKnown

LEMMA TypesInit == Init => Types
BY DEF Init, Types, TypeOK, CostIsKnown, At, Call, NoCall

LEMMA TypesStep ==
  ASSUME Types, [Next]_vars
  PROVE  Types'
<1> USE DEF Types, TypeOK, CostIsKnown, At, Call, NoCall, Goto, Leave, Pc
<1>1. ASSUME NEW c \in Caller, Lookup(c) PROVE Types'
  <2>1. CASE ReadHot(c)
    BY <2>1 DEF ReadHot
  <2>2. CASE ReadCold(c)
    BY <2>2 DEF ReadCold
  <2>3. CASE Warm(c)
    BY <2>3 DEF Warm
  <2> QED
    BY <1>1, <2>1, <2>2, <2>3 DEF Lookup
<1>2. ASSUME NEW c \in Caller, Ask(c) PROVE Types'
  <2>1. CASE Gate(c)
    BY <2>1 DEF Gate
  <2>2. CASE FailFree(c)
    BY <2>2 DEF FailFree, Fail
  <2>3. ASSUME NEW k \in Cost, Answer(c, k) PROVE Types'
    <3>1. /\ call[c] \in Call /\ call[c].pc = "ask" /\ call[c].prompt \in Prompt
          /\ k \in Nat /\ paid[call[c].prompt] \in Nat
      BY <2>3, CostsAreNat DEF Answer
    <3>2. call' \in [Caller -> Call]
      BY <2>3, <3>1 DEF Answer
    <3>3. paid' \in [Prompt -> Nat] /\ billed' \in Nat
      BY <2>3, <3>1 DEF Answer
    <3>4. CostIsKnown'
      BY <2>3, <3>1 DEF Answer
    <3> QED
      BY <2>3, <3>2, <3>3, <3>4 DEF Answer
  <2>4. ASSUME NEW k \in Cost, FailBilled(c, k) PROVE Types'
    <3>1. k \in Nat
      BY CostsAreNat
    <3>2. call' \in [Caller -> Call] /\ CostIsKnown'
      BY <2>4 DEF FailBilled, Fail
    <3>3. billed' \in Nat /\ lost' \in Nat
      BY <2>4, <3>1 DEF FailBilled
    <3> QED
      BY <2>4, <3>2, <3>3 DEF FailBilled, Fail
  <2> QED
    BY <1>2, <2>1, <2>2, <2>3, <2>4 DEF Ask
<1>3. ASSUME NEW c \in Caller, Keep(c) PROVE Types'
  <2>1. CASE Record(c)
    <3>1. /\ call[c] \in [pc : Pc \ {"idle"}, prompt : Prompt, tries : Nat, cost : Nat]
          /\ call[c].cost \in Nat
      BY <2>1 DEF Record
    <3>2. [call[c] EXCEPT !.pc = "heat", !.cost = 0] \in Call
      BY <2>1, <3>1 DEF Record
    <3>3. call' \in [Caller -> Call] /\ CostIsKnown'
      BY <2>1, <3>2 DEF Record
    <3> QED
      BY <2>1, <3>1, <3>3 DEF Record
  <2>2. CASE Heat(c)
    BY <2>2 DEF Heat
  <2>3. CASE Store(c)
    BY <2>3 DEF Store
  <2> QED
    BY <1>3, <2>1, <2>2, <2>3 DEF Keep
<1>4. ASSUME NEW c \in Caller, Kill(c) PROVE Types'
  BY <1>4 DEF Kill
<1>5. ASSUME NEW c \in Caller, NEW p \in Prompt, Begin(c, p) PROVE Types'
  BY <1>5 DEF Begin
<1>6. ASSUME NEW p \in Prompt, Expire(p) PROVE Types'
  BY <1>6 DEF Expire
<1>7. CASE Restart
  BY <1>7 DEF Restart
<1>8. CASE UNCHANGED vars
  BY <1>8 DEF vars
<1> QED
  BY <1>1, <1>2, <1>3, <1>4, <1>5, <1>6, <1>7, <1>8 DEF Next

\* Every variable keeps its type.
THEOREM TypeCorrect == Spec => []TypeOK
<1>1. Types => TypeOK
  BY DEF Types
<1> QED
  BY TypesInit, TypesStep, <1>1, PTL DEF Spec

-----------------------------------------------------------------------------
(* The ceiling *)

LEMMA Times ==
  ASSUME NEW d \in Nat, NEW m \in Nat, NEW n \in Nat
  PROVE  /\ d * m \in Nat /\ d * (m + 1) = d * m + d
         /\ m <= n => d * m <= d * n
BY SMT

LEMMA CallerIsFinite ==
  ASSUME NEW S \in SUBSET Caller
  PROVE  /\ IsFiniteSet(S) /\ Cardinality(S) \in Nat /\ Cardinality(Caller) \in Nat
         /\ Cardinality(S) <= Cardinality(Caller)
BY LlmClientAssumption, FS_Subset, FS_CardinalityType

\* The spend falls behind and no call joins those that are not counted.
LEMMA NothingCounted ==
  ASSUME Types, Types', CeilingSlack, spend' <= spend, Uncounted' \subseteq Uncounted
  PROVE  CeilingSlack'
<1>1. Uncounted \in SUBSET Caller
  BY DEF Uncounted
<1>2. /\ Cardinality(Uncounted') \in Nat /\ Cardinality(Uncounted) \in Nat
      /\ Cardinality(Uncounted') <= Cardinality(Uncounted)
  BY <1>1, CallerIsFinite, FS_Subset
<1>3. Dearest * Cardinality(Uncounted') <= Dearest * Cardinality(Uncounted)
  BY <1>2, CostsAreNat, Times
<1>4. /\ Dearest * Cardinality(Uncounted') \in Nat
      /\ Dearest * Cardinality(Uncounted) \in Nat
      /\ Dearest * Cardinality(Caller) \in Nat
  BY <1>1, <1>2, CostsAreNat, CallerIsFinite, Times
<1>5. spend \in Nat /\ spend' \in Nat /\ Ceiling \in Nat
  BY LlmClientAssumption DEF Types, TypeOK
<1> HIDE DEF Uncounted
<1> QED
  BY <1>3, <1>4, <1>5 DEF CeilingSlack

\* Whoever passes the gate found the spend below the ceiling.
LEMMA GateKeepsSlack ==
  ASSUME Types, CeilingSlack, NEW c \in Caller, Gate(c)
  PROVE  CeilingSlack'
<1>1. Types'
  BY TypesStep DEF Next, Ask
<1>2. CASE spend >= Ceiling
  <2>1. Uncounted' \subseteq Uncounted
    BY <1>2 DEF Gate, Leave, NoCall, Uncounted, Types, TypeOK
  <2>2. spend' <= spend
    BY DEF Gate, Types, TypeOK
  <2> QED
    BY <1>1, <2>1, <2>2, NothingCounted
<1>3. CASE ~(spend >= Ceiling)
  <2>1. spend' = spend /\ spend <= Ceiling - 1 /\ spend \in Nat /\ Ceiling \in Nat
    BY <1>3, LlmClientAssumption DEF Gate, Types, TypeOK
  <2>2. Uncounted' \in SUBSET Caller
    BY DEF Uncounted
  <2>3. /\ Dearest * Cardinality(Uncounted') <= Dearest * Cardinality(Caller)
        /\ Dearest * Cardinality(Uncounted') \in Nat
        /\ Dearest * Cardinality(Caller) \in Nat
    BY <2>2, CallerIsFinite, CostsAreNat, Times
  <2> HIDE DEF Uncounted
  <2> QED
    BY <2>1, <2>3 DEF CeilingSlack
<1> QED
  BY <1>2, <1>3

\* A call that is counted is no longer uncounted, and no dearer than Dearest.
LEMMA RecordKeepsSlack ==
  ASSUME Types, CeilingSlack, NEW c \in Caller, Record(c)
  PROVE  CeilingSlack'
<1>1. /\ call[c].cost \in Nat /\ call[c].cost <= Dearest /\ Dearest \in Nat
      /\ spend' = spend + call[c].cost /\ spend \in Nat
  BY CostsAreNat DEF Record, Types, TypeOK, CostIsKnown
<1>2. Uncounted' = Uncounted \ {c} /\ c \in Uncounted
  BY DEF Record, Uncounted, Types, TypeOK, At
<1>3. Uncounted \in SUBSET Caller /\ Uncounted' \in SUBSET Caller
  BY DEF Uncounted
<1> DEFINE n == Cardinality(Uncounted')
<1>4. n \in Nat /\ Cardinality(Uncounted) = n + 1
  BY <1>2, <1>3, CallerIsFinite, FS_RemoveElement
<1>5. /\ Dearest * Cardinality(Uncounted) = Dearest * n + Dearest
      /\ Dearest * n \in Nat
  BY <1>1, <1>4, Times
<1>6. Dearest * Cardinality(Caller) \in Nat /\ Ceiling \in Nat
  BY <1>1, <1>3, CallerIsFinite, Times, LlmClientAssumption
<1> HIDE DEF Uncounted
<1> QED
  BY <1>1, <1>5, <1>6 DEF CeilingSlack

LEMMA SlackStep ==
  ASSUME Types, CeilingSlack, [Next]_vars
  PROVE  CeilingSlack'
<1>1. Types'
  BY TypesStep
<1>2. ASSUME NEW c \in Caller, Lookup(c) \/ Kill(c) PROVE CeilingSlack'
  <2>1. spend' <= spend
    BY <1>2 DEF Lookup, ReadHot, ReadCold, Warm, Kill, Types, TypeOK
  <2>2. call'[c].pc \notin {"ask", "record"} /\ Others(c)
    <3>1. CASE ReadHot(c)
      <4>1. Leave(c) \/ Goto(c, "cold")
        BY <3>1 DEF ReadHot
      <4> QED
        BY <4>1, Going, Leaving DEF Types
    <3>2. CASE ReadCold(c)
      <4>1. Goto(c, "warm") \/ Goto(c, "gate")
        BY <3>2 DEF ReadCold
      <4> QED
        BY <4>1, Going DEF Types
    <3>3. CASE Warm(c) \/ Kill(c)
      BY <3>3, Leaving DEF Warm, Kill, Types
    <3> QED
      BY <1>2, <3>1, <3>2, <3>3 DEF Lookup
  <2> QED
    BY <1>1, <2>1, <2>2, NothingCounted DEF Uncounted, Others
<1>3. ASSUME NEW c \in Caller, Ask(c) PROVE CeilingSlack'
  <2>1. CASE Gate(c)
    BY <2>1, GateKeepsSlack
  <2>2. ASSUME ~Gate(c) PROVE CeilingSlack'
    <3>1. spend' <= spend
      <4>1. spend' = spend
        BY <1>3, <2>2 DEF Ask, FailFree, FailBilled, Fail, Answer
      <4> QED
        BY <4>1 DEF Types, TypeOK
    <3>2. call[c].pc = "ask"
      BY <1>3, <2>2 DEF Ask, FailFree, FailBilled, Fail, Answer, At
    <3>3. Others(c)
      <4>1. ASSUME NEW k \in Cost, Answer(c, k) PROVE Others(c)
        BY <4>1 DEF Answer, Others, Types, TypeOK
      <4>2. ASSUME Fail(c) PROVE Others(c)
        BY <4>2 DEF Fail, Leave, Others, Types, TypeOK
      <4> QED
        BY <1>3, <2>2, <4>1, <4>2 DEF Ask, FailFree, FailBilled
    <3> QED
      BY <1>1, <3>1, <3>2, <3>3, NothingCounted DEF Uncounted, Others
  <2> QED
    BY <2>1, <2>2
<1>4. ASSUME NEW c \in Caller, Keep(c) PROVE CeilingSlack'
  <2>1. CASE Record(c)
    BY <2>1, RecordKeepsSlack
  <2>2. CASE Heat(c) \/ Store(c)
    <3>1. spend' <= spend
      BY <2>2 DEF Heat, Store, Types, TypeOK
    <3>2. call'[c].pc \notin {"ask", "record"} /\ Others(c)
      <4>1. Goto(c, "store") \/ Leave(c)
        BY <2>2 DEF Heat, Store
      <4> QED
        BY <4>1, Going, Leaving DEF Types
    <3> QED
      BY <1>1, <3>1, <3>2, NothingCounted DEF Uncounted, Others
  <2> QED
    BY <1>4, <2>1, <2>2 DEF Keep
<1>5. ASSUME NEW c \in Caller, NEW p \in Prompt, Begin(c, p) PROVE CeilingSlack'
  <2>1. spend' <= spend /\ Uncounted' \subseteq Uncounted
    BY <1>5 DEF Begin, NoCall, At, Uncounted, Types, TypeOK
  <2> QED
    BY <1>1, <2>1, NothingCounted
<1>6. ASSUME (\E p \in Prompt : Expire(p)) \/ Restart \/ UNCHANGED vars PROVE CeilingSlack'
  <2>1. spend' <= spend /\ Uncounted' \subseteq Uncounted
    BY <1>6 DEF Expire, Restart, vars, Uncounted, Types, TypeOK
  <2> QED
    BY <1>1, <2>1, NothingCounted
<1> QED
  BY <1>2, <1>3, <1>4, <1>5, <1>6 DEF Next

LEMMA SlackInit == Init => CeilingSlack
<1> SUFFICES ASSUME Init PROVE CeilingSlack
  OBVIOUS
<1>1. Uncounted = {} /\ spend = 0
  BY DEF Init, Uncounted, NoCall
<1>2. {} \in SUBSET Caller
  OBVIOUS
<1>3. Dearest * Cardinality({}) = 0
  BY FS_EmptySet, CostsAreNat
<1>4. Dearest * Cardinality(Caller) \in Nat /\ Ceiling \in Nat \ {0}
  BY <1>2, CallerIsFinite, CostsAreNat, Times, LlmClientAssumption
<1> QED
  BY <1>1, <1>3, <1>4 DEF CeilingSlack

\* The check of the ceiling and the increase of the spend are a model call apart;
\* the spend passes the ceiling by the calls under way together, and no more.
THEOREM CeilingHolds == Spec => []CeilingSlack
BY TypesInit, TypesStep, SlackInit, SlackStep, PTL DEF Spec

-----------------------------------------------------------------------------
(* Paying twice *)

\* The calls that hold an answer to p and have not stored it, and those that have
\* looked p up in vain and will ask for it.
Holding(p) == {c \in Caller : call[c].prompt = p /\ call[c].pc \in {"record", "heat", "store"}}
Seeking(p) == {c \in Caller : call[c].prompt = p /\ call[c].pc \in {"gate", "ask"}}

\* Until p is stored every answer paid for is held or lost; from then on nobody
\* new seeks p, and those who do are all that can still pay.
PaidFor(p) ==
  /\ p \notin cold => paid[p] <= lost + Cardinality(Holding(p))
  /\ p \in cold => paid[p] + Cardinality(Seeking(p)) <= lost + Cardinality(Caller)

LEMMA Counts ==
  ASSUME NEW p
  PROVE  /\ Holding(p) \in SUBSET Caller /\ Seeking(p) \in SUBSET Caller
         /\ IsFiniteSet(Holding(p)) /\ IsFiniteSet(Seeking(p))
         /\ {Cardinality(Holding(p)), Cardinality(Seeking(p)), Cardinality(Caller)} \subseteq Nat
         /\ Cardinality(Holding(p)) + Cardinality(Seeking(p)) <= Cardinality(Caller)
<1>1. Holding(p) \in SUBSET Caller /\ Seeking(p) \in SUBSET Caller
  BY DEF Holding, Seeking
<1>2. /\ IsFiniteSet(Holding(p)) /\ IsFiniteSet(Seeking(p))
      /\ Cardinality(Holding(p)) \in Nat /\ Cardinality(Seeking(p)) \in Nat
      /\ Cardinality(Caller) \in Nat
  BY <1>1, CallerIsFinite
<1>3. Holding(p) \cap Seeking(p) = {}
  BY DEF Holding, Seeking
<1>4. Cardinality(Holding(p) \cup Seeking(p)) = Cardinality(Holding(p)) + Cardinality(Seeking(p))
  <2>1. Cardinality(Holding(p) \cap Seeking(p)) = 0
    BY <1>3, FS_EmptySet
  <2>2. Cardinality(Holding(p) \cup Seeking(p))
          = Cardinality(Holding(p)) + Cardinality(Seeking(p)) - Cardinality(Holding(p) \cap Seeking(p))
    BY <1>2, FS_Union
  <2> HIDE DEF Holding, Seeking
  <2> QED
    BY <1>2, <2>1, <2>2
<1>5. Cardinality(Holding(p) \cup Seeking(p)) <= Cardinality(Caller)
  BY <1>1, CallerIsFinite
<1> QED
  BY <1>1, <1>2, <1>4, <1>5

\* The same bounds in the next state: Counts holds of any state.
LEMMA CountsNext ==
  ASSUME NEW p
  PROVE  /\ Holding(p)' \in SUBSET Caller /\ Seeking(p)' \in SUBSET Caller
         /\ IsFiniteSet(Holding(p)') /\ IsFiniteSet(Seeking(p)')
         /\ {Cardinality(Holding(p)'), Cardinality(Seeking(p)')} \subseteq Nat
<1>1. Holding(p)' \in SUBSET Caller /\ Seeking(p)' \in SUBSET Caller
  BY DEF Holding, Seeking
<1> QED
  BY <1>1, CallerIsFinite

\* A step of c that pays for nothing, stores nothing new and lets go of no answer.
LEMMA PaysNothing ==
  ASSUME Types, Types', NEW p \in Prompt, PaidFor(p), NEW c \in Caller, Others(c),
         paid'[p] = paid[p], lost' >= lost, p \in cold' <=> p \in cold,
         c \in Holding(p) => c \in Holding(p)',
         p \in cold /\ c \in Seeking(p)' => c \in Seeking(p)
  PROVE  PaidFor(p)'
<1>1. Holding(p) \subseteq Holding(p)'
  BY DEF Holding, Others
<1>2. p \in cold => Seeking(p)' \subseteq Seeking(p)
  BY DEF Seeking, Others
<1>3. /\ Cardinality(Holding(p)) <= Cardinality(Holding(p)')
      /\ p \in cold => Cardinality(Seeking(p)') <= Cardinality(Seeking(p))
  BY <1>1, <1>2, Counts, CountsNext, FS_Subset
<1>4. /\ {paid[p], lost, lost'} \subseteq Nat
  BY DEF Types, TypeOK
<1>5. /\ {Cardinality(Holding(p)), Cardinality(Holding(p)')} \subseteq Nat
      /\ {Cardinality(Seeking(p)), Cardinality(Seeking(p)')} \subseteq Nat
      /\ Cardinality(Caller) \in Nat
  BY Counts, CountsNext
<1> HIDE DEF Holding, Seeking
<1> QED
  BY <1>3, <1>4, <1>5 DEF PaidFor

\* A call that is lost takes at most one answer with it.
LEMMA PaysForLoss ==
  ASSUME Types, Types', NEW p \in Prompt, PaidFor(p), NEW c \in Caller, Others(c),
         call'[c].pc = "idle", paid'[p] = paid[p], lost' = lost + 1, cold' = cold
  PROVE  PaidFor(p)'
<1>1. Holding(p)' = Holding(p) \ {c} /\ Seeking(p)' \subseteq Seeking(p)
  BY DEF Holding, Seeking, Others
<1>2. /\ Cardinality(Holding(p)) <= Cardinality(Holding(p)') + 1
      /\ Cardinality(Seeking(p)') <= Cardinality(Seeking(p))
  <2>1. Cardinality(Holding(p)') = IF c \in Holding(p) THEN Cardinality(Holding(p)) - 1
                                                       ELSE Cardinality(Holding(p))
    BY <1>1, Counts, FS_RemoveElement
  <2>2. Cardinality(Seeking(p)') <= Cardinality(Seeking(p))
    BY <1>1, Counts, FS_Subset
  <2>3. Cardinality(Holding(p)) \in Nat
    BY Counts
  <2> QED
    BY <2>1, <2>2, <2>3
<1>3. /\ {paid[p], lost} \subseteq Nat
  BY DEF Types, TypeOK
<1>4. /\ {Cardinality(Holding(p)), Cardinality(Holding(p)')} \subseteq Nat
      /\ {Cardinality(Seeking(p)), Cardinality(Seeking(p)')} \subseteq Nat
      /\ Cardinality(Caller) \in Nat
  BY Counts, CountsNext
<1> QED
  BY <1>2, <1>3, <1>4 DEF PaidFor

\* Who gets an answer stops seeking and holds it.
LEMMA PaysForAnswer ==
  ASSUME Types, NEW p \in Prompt, PaidFor(p), NEW c \in Caller, Others(c),
         c \in Seeking(p), c \in Holding(p)', c \notin Seeking(p)',
         paid'[p] = paid[p] + 1, lost' = lost, cold' = cold
  PROVE  PaidFor(p)'
<1>1. c \notin Holding(p)
  BY DEF Holding, Seeking
<1>2. Holding(p)' = Holding(p) \cup {c} /\ Seeking(p)' = Seeking(p) \ {c}
  BY DEF Holding, Seeking, Others
<1>3. /\ Cardinality(Holding(p)') = Cardinality(Holding(p)) + 1
      /\ Cardinality(Seeking(p)') = Cardinality(Seeking(p)) - 1
  <2>1. IsFiniteSet(Holding(p)) /\ IsFiniteSet(Seeking(p))
    BY Counts
  <2>2. Cardinality(Holding(p) \cup {c}) = Cardinality(Holding(p)) + 1
    BY <1>1, <2>1, FS_AddElement
  <2>3. Cardinality(Seeking(p) \ {c}) = Cardinality(Seeking(p)) - 1
    BY <2>1, FS_RemoveElement
  <2> QED
    BY <1>2, <2>2, <2>3
<1>4. /\ {paid[p], lost} \subseteq Nat
  BY DEF Types, TypeOK
<1>5. /\ {Cardinality(Holding(p)), Cardinality(Seeking(p)), Cardinality(Caller)} \subseteq Nat
  BY Counts
<1> QED
  BY <1>3, <1>4, <1>5 DEF PaidFor

\* The first row for p: those who hold an answer seek none.
LEMMA PaysNoMore ==
  ASSUME Types, NEW p \in Prompt, PaidFor(p), p \notin cold, p \in cold',
         Seeking(p)' \subseteq Seeking(p), paid' = paid, lost' = lost
  PROVE  PaidFor(p)'
<1>1. Cardinality(Seeking(p)') <= Cardinality(Seeking(p))
  BY Counts, FS_Subset
<1>2. /\ {paid[p], lost} \subseteq Nat
  BY DEF Types, TypeOK
<1>3. /\ {Cardinality(Holding(p)), Cardinality(Seeking(p)), Cardinality(Caller)} \subseteq Nat
      /\ Cardinality(Seeking(p)') \in Nat
      /\ Cardinality(Holding(p)) + Cardinality(Seeking(p)) <= Cardinality(Caller)
  BY Counts, CountsNext
<1> QED
  BY <1>1, <1>2, <1>3 DEF PaidFor

LEMMA PaidStep ==
  ASSUME Types, Types', [Next]_vars, NEW p \in Prompt, PaidFor(p)
  PROVE  PaidFor(p)'
<1> USE DEF Types
<1>1. ASSUME NEW c \in Caller, Lookup(c) PROVE PaidFor(p)'
  <2>1. paid' = paid /\ lost' = lost /\ cold' = cold
    BY <1>1 DEF Lookup, ReadHot, ReadCold, Warm
  <2>2. call[c].pc \in {"hot", "cold", "warm"}
    BY <1>1 DEF Lookup, ReadHot, ReadCold, Warm, At
  <2>3. /\ Others(c)
        /\ \/ call'[c].pc \in {"idle", "cold", "warm"}
           \/ call[c].prompt \notin cold /\ call'[c].prompt = call[c].prompt
    <3>1. CASE ReadHot(c)
      <4>1. Leave(c) \/ Goto(c, "cold")
        BY <3>1 DEF ReadHot
      <4> QED
        BY <4>1, Going, Leaving
    <3>2. CASE ReadCold(c)
      <4>1. Goto(c, "warm") \/ (Goto(c, "gate") /\ call[c].prompt \notin cold)
        BY <3>2 DEF ReadCold
      <4> QED
        BY <4>1, Going
    <3>3. CASE Warm(c)
      BY <3>3, Leaving DEF Warm
    <3> QED
      BY <1>1, <3>1, <3>2, <3>3 DEF Lookup
  <2>4. c \notin Holding(p) /\ (p \in cold => c \notin Seeking(p)')
    BY <2>2, <2>3 DEF Holding, Seeking
  <2>5. lost' >= lost
    BY <2>1 DEF TypeOK
  <2> QED
    BY <2>1, <2>3, <2>4, <2>5, PaysNothing
<1>2. ASSUME NEW c \in Caller, Gate(c) \/ FailFree(c) PROVE PaidFor(p)'
  <2>1. paid' = paid /\ lost' = lost /\ cold' = cold /\ call[c].pc \in {"gate", "ask"}
    BY <1>2 DEF Gate, FailFree, Fail, At
  <2>2. Others(c) /\ (call'[c].pc = "idle" \/ call'[c].prompt = call[c].prompt)
    <3>1. CASE Gate(c)
      <4>1. Leave(c) \/ Goto(c, "ask")
        BY <3>1 DEF Gate
      <4> QED
        BY <4>1, Going, Leaving
    <3>2. CASE FailFree(c)
      <4>1. CASE Leave(c)
        BY <4>1, Leaving
      <4>2. CASE ~Leave(c)
        <5>1. /\ call' = [call EXCEPT ![c] = [call[c] EXCEPT !.tries = call[c].tries + 1]]
              /\ call \in [Caller -> Call] /\ call[c] \in Call
          BY <3>2, <4>2 DEF FailFree, Fail, TypeOK
        <5> QED
          BY <5>1 DEF Others, Call, NoCall
      <4> QED
        BY <4>1, <4>2
    <3> QED
      BY <1>2, <3>1, <3>2
  <2>3. c \notin Holding(p) /\ (c \in Seeking(p)' => c \in Seeking(p))
    BY <2>1, <2>2 DEF Holding, Seeking
  <2>4. lost' >= lost
    BY <2>1 DEF TypeOK
  <2> QED
    BY <2>1, <2>2, <2>3, <2>4, PaysNothing
<1>3. ASSUME NEW c \in Caller, NEW k \in Cost, Answer(c, k) PROVE PaidFor(p)'
  <2>1. /\ call[c] \in Call /\ call[c].pc = "ask" /\ lost' = lost /\ cold' = cold
        /\ call' = [call EXCEPT ![c] = [call[c] EXCEPT !.pc = "record", !.tries = 0, !.cost = k]]
    BY <1>3 DEF Answer, At, TypeOK
  <2>2. Others(c) /\ call'[c].pc = "record" /\ call'[c].prompt = call[c].prompt
    BY <2>1 DEF Others, Call, NoCall, TypeOK
  <2>3. CASE call[c].prompt = p
    <3>1. paid'[p] = paid[p] + 1
      BY <1>3, <2>3 DEF Answer, TypeOK
    <3>2. c \in Seeking(p) /\ c \in Holding(p)' /\ c \notin Seeking(p)'
      BY <2>1, <2>2, <2>3 DEF Holding, Seeking
    <3> QED
      BY <2>1, <2>2, <3>1, <3>2, PaysForAnswer
  <2>4. CASE call[c].prompt # p
    <3>1. paid'[p] = paid[p] /\ lost' >= lost
      BY <1>3, <2>1, <2>4 DEF Answer, TypeOK
    <3>2. c \notin Holding(p) /\ c \notin Seeking(p)'
      BY <2>1, <2>2, <2>4 DEF Holding, Seeking
    <3> QED
      BY <2>1, <2>2, <3>1, <3>2, PaysNothing
  <2> QED
    BY <2>3, <2>4
<1>4. ASSUME NEW c \in Caller, NEW k \in Cost, FailBilled(c, k) PROVE PaidFor(p)'
  <2>1. paid' = paid /\ lost' = lost + 1 /\ cold' = cold /\ call[c].pc = "ask"
    BY <1>4 DEF FailBilled, Fail, At
  <2>2. CASE Leave(c)
    BY <2>1, <2>2, Leaving, PaysForLoss
  <2>3. CASE ~Leave(c)
    <3>1. /\ call' = [call EXCEPT ![c] = [call[c] EXCEPT !.tries = call[c].tries + 1]]
          /\ call \in [Caller -> Call] /\ call[c] \in Call
      BY <1>4, <2>3 DEF FailBilled, Fail, TypeOK
    <3>2. Others(c) /\ call'[c].pc = call[c].pc /\ call'[c].prompt = call[c].prompt
      BY <3>1 DEF Others, Call, NoCall
    <3>3. c \notin Holding(p) /\ (c \in Seeking(p)' => c \in Seeking(p))
      BY <2>1, <3>2 DEF Holding, Seeking
    <3>4. lost' >= lost
      BY <2>1 DEF TypeOK
    <3> QED
      BY <2>1, <3>2, <3>3, <3>4, PaysNothing
  <2> QED
    BY <2>2, <2>3
<1>5. ASSUME NEW c \in Caller, Record(c) \/ Heat(c) PROVE PaidFor(p)'
  <2>1. paid' = paid /\ lost' = lost /\ cold' = cold
    BY <1>5 DEF Record, Heat
  <2>2. Others(c) /\ call'[c].pc \in {"heat", "store"} /\ call'[c].prompt = call[c].prompt
    <3>1. CASE Record(c)
      <4>1. /\ call' = [call EXCEPT ![c] = [call[c] EXCEPT !.pc = "heat", !.cost = 0]]
            /\ call \in [Caller -> Call] /\ call[c] \in Call
        BY <3>1 DEF Record, TypeOK
      <4> QED
        BY <4>1 DEF Others, Call, NoCall
    <3>2. CASE Heat(c)
      BY <3>2, Going DEF Heat
    <3> QED
      BY <1>5, <3>1, <3>2
  <2>3. (c \in Holding(p) => c \in Holding(p)') /\ c \notin Seeking(p)'
    BY <2>2 DEF Holding, Seeking
  <2>4. lost' >= lost
    BY <2>1 DEF TypeOK
  <2> QED
    BY <2>1, <2>2, <2>3, <2>4, PaysNothing
<1>6. ASSUME NEW c \in Caller, Store(c) PROVE PaidFor(p)'
  <2>1. /\ paid' = paid /\ lost' = lost /\ cold' = cold \cup {call[c].prompt}
        /\ call[c].pc = "store" /\ Others(c) /\ call'[c].pc = "idle"
    BY <1>6, Leaving DEF Store, At
  <2>2. c \notin Seeking(p)'
    BY <2>1 DEF Seeking
  <2>3. CASE p \notin cold /\ p \in cold'
    <3>1. Seeking(p)' \subseteq Seeking(p)
      BY <2>1 DEF Seeking, Others
    <3> QED
      BY <2>1, <2>3, <3>1, PaysNoMore
  <2>4. CASE p \in cold
    <3>1. paid'[p] = paid[p] /\ lost' = lost /\ p \in cold'
      BY <2>1, <2>4
    <3>2. Seeking(p)' \subseteq Seeking(p)
      BY <2>1 DEF Seeking, Others
    <3>3. Cardinality(Seeking(p)') <= Cardinality(Seeking(p))
      BY <3>2, Counts, FS_Subset
    <3>4. {Cardinality(Seeking(p)), Cardinality(Seeking(p)'), Cardinality(Caller), lost, paid[p]}
            \subseteq Nat
      BY Counts, CountsNext DEF TypeOK
    <3> QED
      BY <2>4, <3>1, <3>3, <3>4 DEF PaidFor
  <2>5. CASE p \notin cold'
    <3>1. c \notin Holding(p) /\ p \notin cold
      BY <2>1, <2>5 DEF Holding
    <3>2. lost' >= lost
      BY <2>1 DEF TypeOK
    <3> QED
      BY <2>1, <2>2, <2>5, <3>1, <3>2, PaysNothing
  <2> QED
    BY <2>3, <2>4, <2>5
<1>7. ASSUME NEW c \in Caller, Kill(c) PROVE PaidFor(p)'
  BY <1>7, Leaving, PaysForLoss DEF Kill
<1>8. ASSUME NEW c \in Caller, NEW q \in Prompt, Begin(c, q) PROVE PaidFor(p)'
  <2>1. /\ paid' = paid /\ lost' = lost /\ cold' = cold /\ call[c].pc = "idle"
        /\ Others(c) /\ call'[c].pc = "hot"
    BY <1>8 DEF Begin, At, Others, NoCall, TypeOK
  <2>2. c \notin Holding(p) /\ c \notin Seeking(p)' /\ lost' >= lost
    BY <2>1 DEF Holding, Seeking, TypeOK
  <2> QED
    BY <2>1, <2>2, PaysNothing
<1>9. ASSUME (\E q \in Prompt : Expire(q)) \/ Restart \/ UNCHANGED vars PROVE PaidFor(p)'
  <2>1. paid' = paid /\ lost' = lost /\ cold' = cold /\ call' = call
    BY <1>9 DEF Expire, Restart, vars
  <2> QED
    BY <2>1 DEF PaidFor, Holding, Seeking
<1> QED
  BY <1>1, <1>2, <1>3, <1>4, <1>5, <1>6, <1>7, <1>8, <1>9 DEF Next, Ask, Keep

\* Redis may forget an answer at any time; a prompt is still paid for again only
\* by calls that overlapped with the first or after a lost one.
THEOREM PaidOncePerOverlap == Spec => []PaidByOverlapOnly
<1> DEFINE Paid == \A p \in Prompt : PaidFor(p)
<1>1. Init => Paid
  <2> SUFFICES ASSUME Init, NEW p \in Prompt PROVE PaidFor(p)
    OBVIOUS
  <2>1. Holding(p) = {} /\ Seeking(p) = {} /\ paid[p] = 0 /\ lost = 0 /\ p \notin cold
    BY DEF Init, Holding, Seeking, NoCall
  <2> QED
    BY <2>1, FS_EmptySet DEF PaidFor
<1>2. Types /\ Paid /\ [Next]_vars => (Types /\ Paid)'
  BY TypesStep, PaidStep
<1>3. Types /\ Paid => PaidByOverlapOnly
  <2> SUFFICES ASSUME Types, NEW p \in Prompt, PaidFor(p)
               PROVE  paid[p] <= Cardinality(Caller) + lost
    BY DEF PaidByOverlapOnly
  <2>1. /\ {Cardinality(Holding(p)), Cardinality(Seeking(p)), Cardinality(Caller)} \subseteq Nat
        /\ Cardinality(Holding(p)) + Cardinality(Seeking(p)) <= Cardinality(Caller)
        /\ {paid[p], lost} \subseteq Nat
    BY Counts DEF Types, TypeOK
  <2> QED
    BY <2>1 DEF PaidFor
<1> QED
  BY TypesInit, <1>1, <1>2, <1>3, PTL DEF Spec

-----------------------------------------------------------------------------
(* The bill *)

\* The answers that are paid for and not yet counted in spend, unit by unit.
Owing(c) == {c} \X (1..call[c].cost)
Owed == UNION {Owing(c) : c \in {d \in Caller : At(d, "record")}}

\* What one life of Redis can cost.
PerLife == Ceiling - 1 + Dearest * Cardinality(Caller)

\* The inductive invariant behind BillBound: every unit billed is of an earlier
\* life of Redis, counted, about to be counted, or lost.
Bill == billed <= restarts * PerLife + spend + Cardinality(Owed) + Dearest * lost

LEMMA Column ==
  ASSUME NEW c, NEW k \in Nat
  PROVE  IsFiniteSet({c} \X (1..k)) /\ Cardinality({c} \X (1..k)) = k
<1>1. IsFiniteSet({c}) /\ Cardinality({c}) = 1
  BY FS_Singleton
<1>2. IsFiniteSet(1..k) /\ Cardinality(1..k) = k
  BY FS_Interval
<1>3. IsFiniteSet({c} \X (1..k)) /\ Cardinality({c} \X (1..k)) = Cardinality({c}) * Cardinality(1..k)
  BY <1>1, <1>2, FS_Product
<1> QED
  BY <1>1, <1>2, <1>3

LEMMA Apart ==
  ASSUME NEW S, IsFiniteSet(S), NEW X, IsFiniteSet(X), S \cap X = {}
  PROVE  /\ Cardinality(S) \in Nat /\ Cardinality(X) \in Nat
         /\ Cardinality(S \cup X) = Cardinality(S) + Cardinality(X)
<1>1. Cardinality(S \cup X) = Cardinality(S) + Cardinality(X) - Cardinality(S \cap X)
  BY FS_Union
<1>2. Cardinality(S) \in Nat /\ Cardinality(X) \in Nat
  BY FS_CardinalityType
<1>3. Cardinality(S \cap X) = 0
  BY FS_EmptySet
<1> QED
  BY <1>1, <1>2, <1>3

\* What is owed is at most the price of the dearest call for each call that has
\* passed the gate.
LEMMA OwedIsBounded ==
  ASSUME Types
  PROVE  /\ IsFiniteSet(Owed) /\ Cardinality(Owed) \in Nat
         /\ Cardinality(Owed) <= Dearest * Cardinality(Uncounted)
<1> DEFINE Rows == Uncounted \X (1..Dearest)
<1>1. Uncounted \in SUBSET Caller /\ Dearest \in Nat
  BY CostsAreNat DEF Uncounted
<1>2. IsFiniteSet(Uncounted) /\ IsFiniteSet(1..Dearest) /\ Cardinality(1..Dearest) = Dearest
  BY <1>1, CallerIsFinite, FS_Interval
<1>3. IsFiniteSet(Rows) /\ Cardinality(Rows) = Cardinality(Uncounted) * Cardinality(1..Dearest)
  BY <1>2, FS_Product
<1>4. Owed \subseteq Rows
  <2> SUFFICES ASSUME NEW c \in Caller, At(c, "record") PROVE Owing(c) \subseteq Rows
    BY DEF Owed
  <2>1. call[c].cost \in Nat /\ call[c].cost <= Dearest
    BY CostsAreNat DEF Types, CostIsKnown
  <2>2. 1..call[c].cost \subseteq 1..Dearest
    BY <1>1, <2>1
  <2>3. c \in Uncounted
    BY DEF Uncounted, At
  <2> QED
    BY <2>2, <2>3 DEF Owing
<1>5. IsFiniteSet(Owed) /\ Cardinality(Owed) <= Cardinality(Rows)
  BY <1>3, <1>4, FS_Subset
<1>6. Cardinality(Owed) \in Nat /\ Cardinality(Uncounted) \in Nat
  BY <1>2, <1>5, FS_CardinalityType
<1> HIDE DEF Rows, Owed, Uncounted
<1>7. Cardinality(Rows) = Dearest * Cardinality(Uncounted)
  BY <1>1, <1>2, <1>3, <1>6
<1> QED
  BY <1>5, <1>6, <1>7

\* The steps of a call that neither holds an answer before nor after.
LEMMA OwedKept ==
  ASSUME NEW c \in Caller, Others(c), ~At(c, "record"), ~At(c, "record")'
  PROVE  Owed' = Owed
BY DEF Owed, Owing, Others, At

\* The step with which a call comes by an answer, and those that end its hold.
LEMMA OwedGrows ==
  ASSUME NEW c \in Caller, Others(c), ~At(c, "record"), At(c, "record")'
  PROVE  Owed' = Owed \cup Owing(c)' /\ Owed \cap Owing(c)' = {}
BY DEF Owed, Owing, Others, At

LEMMA OwedShrinks ==
  ASSUME NEW c \in Caller, Others(c), At(c, "record"), ~At(c, "record")'
  PROVE  Owed = Owed' \cup Owing(c) /\ Owed' \cap Owing(c) = {}
BY DEF Owed, Owing, Others, At

LEMMA BillTypes ==
  ASSUME Types
  PROVE  /\ PerLife \in Nat /\ Dearest \in Nat
         /\ restarts * PerLife \in Nat /\ (restarts + 1) * PerLife = restarts * PerLife + PerLife
         /\ Dearest * lost \in Nat /\ Dearest * (lost + 1) = Dearest * lost + Dearest
         /\ spend \in Nat /\ billed \in Nat /\ lost \in Nat /\ restarts \in Nat
         /\ IsFiniteSet(Owed) /\ Cardinality(Owed) \in Nat
<1>1. Dearest \in Nat /\ Ceiling \in Nat \ {0} /\ Cardinality(Caller) \in Nat
  BY CostsAreNat, LlmClientAssumption, CallerIsFinite
<1>2. PerLife \in Nat
  <2>1. Dearest * Cardinality(Caller) \in Nat
    BY <1>1, Times
  <2> QED
    BY <1>1, <2>1 DEF PerLife
<1>3. spend \in Nat /\ billed \in Nat /\ lost \in Nat /\ restarts \in Nat
  BY DEF Types, TypeOK
<1> HIDE DEF PerLife
<1>4. restarts * PerLife \in Nat /\ (restarts + 1) * PerLife = restarts * PerLife + PerLife
  BY <1>2, <1>3
<1> QED
  BY <1>1, <1>2, <1>3, <1>4, Times, OwedIsBounded

\* Nothing is billed, or no more than a lost call may cost.
LEMMA BillKept ==
  ASSUME Types, Bill, restarts' = restarts, spend' = spend, Owed' = Owed,
         \/ billed' = billed /\ lost' = lost
         \/ billed' \in Nat /\ billed' <= billed + Dearest /\ lost' = lost + 1
  PROVE  Bill'
<1> DEFINE n == Cardinality(Owed)
<1>1. Cardinality(Owed') = n
  OBVIOUS
<1> HIDE DEF n, PerLife, Owed
<1> QED
  BY <1>1, BillTypes DEF Bill, n

LEMMA BillStep ==
  ASSUME Types, CeilingSlack, Bill, [Next]_vars
  PROVE  Bill'
<1> USE DEF At
<1>1. ASSUME NEW c \in Caller, Lookup(c) PROVE Bill'
  <2>1. ~At(c, "record") /\ ~At(c, "record")' /\ Others(c)
    <3>1. CASE ReadHot(c)
      <4>1. Leave(c) \/ Goto(c, "cold")
        BY <3>1 DEF ReadHot
      <4> QED
        BY <3>1, <4>1, Going, Leaving DEF Types, ReadHot
    <3>2. CASE ReadCold(c)
      <4>1. Goto(c, "warm") \/ Goto(c, "gate")
        BY <3>2 DEF ReadCold
      <4> QED
        BY <3>2, <4>1, Going DEF Types, ReadCold
    <3>3. CASE Warm(c)
      BY <3>3, Leaving DEF Warm, Types
    <3> QED
      BY <1>1, <3>1, <3>2, <3>3 DEF Lookup
  <2>2. UNCHANGED <<spend, billed, lost, restarts>>
    BY <1>1 DEF Lookup, ReadHot, ReadCold, Warm
  <2> QED
    BY <2>1, <2>2, OwedKept, BillKept
<1>2. ASSUME NEW c \in Caller, Gate(c) PROVE Bill'
  <2>1. Leave(c) \/ Goto(c, "ask")
    BY <1>2 DEF Gate
  <2>2. ~At(c, "record") /\ ~At(c, "record")' /\ Others(c)
    BY <1>2, <2>1, Going, Leaving DEF Types, Gate
  <2> QED
    BY <1>2, <2>2, OwedKept, BillKept DEF Gate
<1>3. ASSUME NEW c \in Caller, Fail(c), ~At(c, "record"), UNCHANGED <<billed, lost>> \/ \E k \in Cost : FailBilled(c, k)
      PROVE Bill'
  <2>1. ~At(c, "record")' /\ Others(c)
    <3>1. CASE Leave(c)
      BY <3>1, Leaving DEF Types
    <3>2. CASE call' = [call EXCEPT ![c].tries = @ + 1]
      <4>1. call[c] \in Call /\ call'[c] = [call[c] EXCEPT !.tries = @ + 1]
        BY <3>2 DEF Types, TypeOK
      <4>2. call'[c].pc = call[c].pc
        BY <4>1 DEF Call, NoCall
      <4> QED
        BY <1>3, <3>2, <4>2 DEF Others
    <3> QED
      BY <1>3, <3>1, <3>2 DEF Fail
  <2>2. Owed' = Owed
    BY <1>3, <2>1, OwedKept
  <2>3. \/ billed' = billed /\ lost' = lost
        \/ billed' \in Nat /\ billed' <= billed + Dearest /\ lost' = lost + 1
    BY <1>3, CostsAreNat DEF FailBilled, Types, TypeOK
  <2> QED
    BY <1>3, <2>2, <2>3, BillKept DEF Fail
<1>4. ASSUME NEW c \in Caller, NEW k \in Cost, Answer(c, k) PROVE Bill'
  <2>1. /\ Others(c) /\ ~At(c, "record") /\ At(c, "record")' /\ call'[c].cost = k
        /\ k \in Nat
    <3>1. call[c] \in Call /\ call[c].pc = "ask"
      BY <1>4 DEF Answer, Types, TypeOK
    <3>2. call'[c] = [call[c] EXCEPT !.pc = "record", !.tries = 0, !.cost = k]
      BY <1>4 DEF Answer, Types, TypeOK
    <3>3. call'[c].pc = "record" /\ call'[c].cost = k
      BY <3>1, <3>2 DEF Call, NoCall
    <3> QED
      BY <1>4, <3>1, <3>3, CostsAreNat DEF Answer, Others, Types, TypeOK
  <2>2. Owed' = Owed \cup Owing(c)' /\ Owed \cap Owing(c)' = {}
    BY <2>1, OwedGrows
  <2>3. IsFiniteSet(Owing(c)') /\ Cardinality(Owing(c)') = k
    BY <2>1, Column DEF Owing
  <2>4. Cardinality(Owed') = Cardinality(Owed) + k
    BY <2>2, <2>3, BillTypes, Apart
  <2>5. billed' = billed + k /\ spend' = spend /\ lost' = lost /\ restarts' = restarts
    BY <1>4 DEF Answer
  <2> HIDE DEF PerLife, Owed
  <2> QED
    BY <2>1, <2>4, <2>5, BillTypes DEF Bill
<1>5. ASSUME NEW c \in Caller, At(c, "record"), Others(c), ~At(c, "record")', restarts' = restarts,
             billed' = billed,
             \/ spend' = spend + call[c].cost /\ lost' = lost
             \/ spend' = spend /\ lost' = lost + 1
      PROVE  Bill'
  <2>1. Owed = Owed' \cup Owing(c) /\ Owed' \cap Owing(c) = {}
    BY <1>5, OwedShrinks
  <2>2. call[c].cost \in Nat /\ call[c].cost <= Dearest
    BY <1>5, CostsAreNat DEF Types, CostIsKnown
  <2>3. IsFiniteSet(Owing(c)) /\ Cardinality(Owing(c)) = call[c].cost
    BY <2>2, Column DEF Owing
  <2>4. IsFiniteSet(Owed')
    <3>1. Owed' \subseteq Owed
      BY <2>1
    <3> QED
      BY <3>1, BillTypes, FS_Subset
  <2>5. Cardinality(Owed) = Cardinality(Owed') + call[c].cost /\ Cardinality(Owed') \in Nat
    BY <2>1, <2>3, <2>4, Apart
  <2> HIDE DEF PerLife, Owed
  <2> QED
    BY <1>5, <2>2, <2>5, BillTypes DEF Bill
<1>6. ASSUME NEW c \in Caller, Record(c) PROVE Bill'
  <2>1. At(c, "record") /\ ~At(c, "record")' /\ Others(c)
    BY <1>6 DEF Record, Others, Types, TypeOK
  <2> QED
    BY <1>5, <1>6, <2>1 DEF Record
<1>7. ASSUME NEW c \in Caller, Heat(c) \/ Store(c) PROVE Bill'
  <2>1. Goto(c, "store") \/ Leave(c)
    BY <1>7 DEF Heat, Store
  <2>2. ~At(c, "record") /\ ~At(c, "record")' /\ Others(c)
    BY <1>7, <2>1, Going, Leaving DEF Types, Heat, Store
  <2> QED
    BY <1>7, <2>2, OwedKept, BillKept DEF Heat, Store
<1>8. ASSUME NEW c \in Caller, Kill(c) PROVE Bill'
  <2>1. ~At(c, "record")' /\ Others(c)
    BY <1>8, Leaving DEF Kill, Types
  <2>2. billed' \in Nat /\ billed' <= billed + Dearest
    BY <1>8, CostsAreNat DEF Kill, Types, TypeOK
  <2> QED
    BY <1>5, <1>8, <2>1, <2>2, OwedKept, BillKept DEF Kill
<1>9. ASSUME NEW c \in Caller, NEW p \in Prompt, Begin(c, p) PROVE Bill'
  <2>1. ~At(c, "record") /\ ~At(c, "record")' /\ Others(c)
    BY <1>9 DEF Begin, NoCall, Others, Types, TypeOK
  <2> QED
    BY <1>9, <2>1, OwedKept, BillKept DEF Begin
<1>10. CASE (\E p \in Prompt : Expire(p)) \/ UNCHANGED vars
  <2>1. call' = call /\ UNCHANGED <<spend, billed, lost, restarts>>
    BY <1>10 DEF Expire, vars
  <2>2. Owed' = Owed
    BY <2>1 DEF Owed, Owing
  <2> QED
    BY <2>1, <2>2, BillKept
<1>11. CASE Restart
  <2>1. restarts' = restarts + 1 /\ spend' = 0 /\ call' = call /\ billed' = billed /\ lost' = lost
    BY <1>11 DEF Restart
  <2>2. Cardinality(Owed') = Cardinality(Owed)
    BY <2>1 DEF Owed, Owing
  <2>3. spend <= PerLife
    <3>1. Dearest * Cardinality(Uncounted) \in Nat
      <4>1. Uncounted \in SUBSET Caller
        BY DEF Uncounted
      <4> QED
        BY <4>1, CallerIsFinite, CostsAreNat, Times
    <3>2. spend + Dearest * Cardinality(Uncounted) <= PerLife
      BY DEF CeilingSlack, PerLife
    <3> HIDE DEF PerLife, Uncounted
    <3> QED
      BY <3>1, <3>2, BillTypes
  <2> HIDE DEF PerLife, Owed
  <2> QED
    BY <2>1, <2>2, <2>3, BillTypes DEF Bill
<1> QED
  BY <1>1, <1>2, <1>3, <1>4, <1>6, <1>7, <1>8, <1>9, <1>10, <1>11
  DEF Next, Ask, Keep, FailFree, FailBilled, Fail

LEMMA BillInit == Init => Bill
<1> SUFFICES ASSUME Init PROVE Bill
  OBVIOUS
<1>1. Types
  BY TypesInit
<1>2. billed = 0
  BY DEF Init
<1> HIDE DEF Owed, PerLife
<1> QED
  BY <1>1, <1>2, BillTypes DEF Bill

\* What the provider charges is bounded by the lives of Redis and the lost calls:
\* an answer is billed before it is counted, and the count does not survive.
THEOREM BillTheorem == Spec => []BillBound
<1>1. ASSUME Types, CeilingSlack, Bill PROVE BillBound
  <2>1. Cardinality(Owed) <= Dearest * Cardinality(Uncounted) /\ Dearest * Cardinality(Uncounted) \in Nat
    <3>1. Uncounted \in SUBSET Caller
      BY DEF Uncounted
    <3> QED
      BY <1>1, <3>1, OwedIsBounded, CallerIsFinite, CostsAreNat, Times
  <2>2. spend + Dearest * Cardinality(Uncounted) <= PerLife
    BY <1>1 DEF CeilingSlack, PerLife
  <2>3. BillBound <=> billed <= (restarts + 1) * PerLife + Dearest * lost
    BY DEF BillBound, PerLife
  <2> HIDE DEF PerLife, Owed, Uncounted
  <2> QED
    BY <1>1, <2>1, <2>2, <2>3, BillTypes DEF Bill
<1>2. Init => Types /\ CeilingSlack /\ Bill
  BY TypesInit, SlackInit, BillInit
<1>3. Types /\ CeilingSlack /\ Bill /\ [Next]_vars => (Types /\ CeilingSlack /\ Bill)'
  BY TypesStep, SlackStep, BillStep
<1> QED
  BY <1>1, <1>2, <1>3, PTL DEF Spec
=============================================================================
