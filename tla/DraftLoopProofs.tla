--------------------------- MODULE DraftLoopProofs ---------------------------
(***************************************************************************)
(* Proofs about DraftLoop, for any drafts the model may answer with, any    *)
(* evidence and profile, any number of runs and of attempts.                *)
(***************************************************************************)
EXTENDS DraftLoop, FiniteSetTheorems, TLAPS

-----------------------------------------------------------------------------
(* The gate *)

\* Rounding halves to even stays within half a dash of the rate.
LEMMA RoundedIsNear ==
  ASSUME NEW words \in Nat
  PROVE  Rounded(words) \in Nat /\ 600 * Rounded(words) <= 2 * words + 300
<1> DEFINE q == words \div 300
           r == words % 300
<1>1. q \in Nat /\ r \in 0..299 /\ words = 300 * q + r
  BY SMT
<1>2. Rounded(words) = IF r > 150 \/ (r = 150 /\ q % 2 = 1) THEN q + 1 ELSE q
  BY DEF Rounded
<1> HIDE DEF q, r
<1> QED
  BY <1>1, <1>2

LEMMA DashesAreFew ==
  ASSUME NEW d \in Draft, ~(d.dashes > DashLimit(d.words))
  PROVE  d.dashes <= 1 \/ 600 * d.dashes <= 2 * d.words + 300
<1>1. d.words \in Nat /\ d.dashes \in Nat
  BY DraftLoopAssumption
<1>2. Rounded(d.words) \in Nat /\ 600 * Rounded(d.words) <= 2 * d.words + 300
  BY <1>1, RoundedIsNear
<1>3. CASE Rounded(d.words) > 1
  <2>1. d.dashes <= Rounded(d.words)
    BY <1>1, <1>2, <1>3 DEF DashLimit
  <2> QED
    BY <1>1, <1>2, <2>1
<1>4. CASE ~(Rounded(d.words) > 1)
  BY <1>1, <1>4 DEF DashLimit
<1> QED
  BY <1>3, <1>4

\* What enough words in some texts support stands in the majority in any more.
LEMMA MostWordsFound ==
  ASSUME NEW W, IsFiniteSet(W), NEW K, NEW F, F \subseteq W, W \cap K \subseteq F,
         Cardinality(W) >= 3, 100 * Cardinality(W \cap K) >= 55 * Cardinality(W)
  PROVE  Cardinality(F) > Cardinality(W \ F)
<1>1. /\ IsFiniteSet(F) /\ IsFiniteSet(W \ F) /\ IsFiniteSet(W \cap K)
      /\ {Cardinality(F), Cardinality(W \ F), Cardinality(W \cap K), Cardinality(W)} \subseteq Nat
      /\ Cardinality(W \cap K) <= Cardinality(F)
  BY FS_Subset, FS_CardinalityType
<1>2. Cardinality(W \ F) = Cardinality(W) - Cardinality(W \cap F)
  BY <1>1, FS_Difference
<1>3. W \cap F = F
  OBVIOUS
<1>4. Cardinality(W \ F) = Cardinality(W) - Cardinality(F)
  BY <1>2, <1>3
<1> DEFINE w == Cardinality(W)
           f == Cardinality(F)
           k == Cardinality(W \cap K)
<1>5. w \in Nat /\ f \in Nat /\ k \in Nat /\ k <= f /\ w >= 3 /\ 100 * k >= 55 * w
  BY <1>1
<1> HIDE DEF w, f, k
<1>6. f > w - f
  BY <1>5
<1> QED
  BY <1>4, <1>6 DEF w, f

\* What passes by the texts a run has loaded is presentable by those, and by more.
LEMMA PassesIsPresentable ==
  ASSUME NEW d \in Draft, NEW T, NEW U, T \subseteq U, Passes(d, T)
  PROVE  Presentable(d, U)
<1>1. LintBody(d) = {} /\ LintSubjects(d) = {}
  BY DEF Passes, LintDraft
<1>2. d.banned = {} /\ d.urgent = {}
  BY <1>1 DEF LintBody, LintSubjects
<1>3. ~d.bold
  BY <1>1 DEF LintBody, When
<1>4. d.dashes <= 1 \/ 600 * d.dashes <= 2 * d.words + 300
  BY <1>1, DashesAreFew DEF LintBody, When
<1>5. ASSUME NEW c \in d.citations
      PROVE  \/ \E t \in U : t \in c.in
             \/ LET found == {w \in c.words : \E t \in U : w \in WordsOf[t]}
                IN Cardinality(found) > Cardinality(c.words \ found)
  <2> DEFINE known == UNION {WordsOf[t] : t \in T}
             found == {w \in c.words : \E t \in U : w \in WordsOf[t]}
  <2>1. QuoteSupported(c, T)
    BY DEF Passes, Ungrounded
  <2>2. CASE c.in \cap T # {}
    BY <2>2
  <2>3. CASE c.in \cap T = {}
    <3>1. /\ Cardinality(c.words) >= 3
          /\ 100 * Cardinality(c.words \cap known) >= 55 * Cardinality(c.words)
      BY <2>1, <2>3 DEF QuoteSupported
    <3>2. IsFiniteSet(c.words) /\ found \subseteq c.words /\ c.words \cap known \subseteq found
      BY DraftLoopAssumption
    <3> HIDE DEF known, found
    <3>3. Cardinality(found) > Cardinality(c.words \ found)
      BY <3>1, <3>2, MostWordsFound
    <3> QED
      BY <3>3 DEF found
  <2> QED
    BY <2>2, <2>3
<1> QED
  BY <1>2, <1>3, <1>4, <1>5 DEF Presentable

-----------------------------------------------------------------------------
(* Types *)

Body == {"store", "upsert", "lead"}
FeedbackType == {NoFeedback} \cup {Feedback(d, texts) : d \in Draft, texts \in SUBSET (Text \cup Profile)}
RunType ==
  [pc : {"idle", "read", "model", "store", "upsert", "lead"}, texts : SUBSET (Text \cup Profile),
   attempt : 0..MaxRegenerations, feedback : FeedbackType, draft : Draft \cup {NoDraft}]

\* A run's texts are in the evidence, it has a draft where one is used, and the
\* draft it writes has passed or had all attempts.
RunOK(x) ==
  /\ x \in RunType
  /\ x.texts \subseteq facts \cup Profile
  /\ x.draft \in IF x.pc \in Body THEN Draft ELSE {NoDraft}
  /\ x.pc = "upsert" => Passes(x.draft, x.texts) \/ x.attempt = MaxRegenerations

RunsOK == \A r \in Drafter : RunOK(run[r])

\* What a row promises about itself.
RowOK ==
  \/ row = NoRow
  \/ /\ row.draft \in Draft /\ row.base \subseteq facts \cup Profile
     /\ \/ row.status = "awaiting_approval" /\ Passes(row.draft, row.base)
        \/ row.status = "draft" /\ row.regen = MaxRegenerations + 1

IInv ==
  /\ run \in [Drafter -> RunType] /\ RunsOK
  /\ facts \subseteq Text
  /\ answers \subseteq [prompt : FeedbackType, draft : Draft]
  /\ waiting \in BOOLEAN /\ {paid, overlaps, lost} \subseteq Nat
  /\ RowOK

LEMMA StartOK ==
  ASSUME NEW texts \in SUBSET (facts \cup Profile), facts \subseteq Text
  PROVE  RunOK(Idle) /\ RunOK([Idle EXCEPT !.pc = "read", !.texts = texts])
<1>1. 0 \in 0..MaxRegenerations
  BY DraftLoopAssumption
<1>2. NoFeedback \in FeedbackType
  BY DEF FeedbackType
<1>3. Idle \in RunType
  BY <1>1, <1>2 DEF RunType, Idle
<1> QED
  BY <1>3 DEF RunOK, RunType, Idle, Body

LEMMA IInvInit == Init => IInv
<1> SUFFICES ASSUME Init PROVE IInv
  OBVIOUS
<1>1. RunOK(Idle)
  BY StartOK DEF Init
<1>2. run \in [Drafter -> RunType] /\ RunsOK
  BY <1>1 DEF Init, RunsOK, RunOK
<1>3. facts \subseteq Text /\ answers = {} /\ row = NoRow /\ {paid, overlaps, lost} \subseteq Nat
  BY DEF Init
<1>4. waiting \in BOOLEAN
  BY Zenon DEF Init
<1> QED
  BY <1>2, <1>3, <1>4 DEF IInv, RowOK

\* One run moves to a good state and the evidence stays.
LEMMA OneRunMoves ==
  ASSUME IInv, NEW r \in Drafter, NEW x, run' = [run EXCEPT ![r] = x], RunOK(x), facts' = facts
  PROVE  run' \in [Drafter -> RunType] /\ RunsOK'
BY DEF IInv, RunsOK, RunOK

LEMMA RowStays ==
  ASSUME IInv, row' = row, facts' = facts
  PROVE  RowOK'
BY DEF IInv, RowOK, NoRow

\* A run that has a draft goes to its row or round the loop.
LEMMA JudgedOK ==
  ASSUME IInv, NEW x \in RunType, RunOK(x), NEW d \in Draft
  PROVE  RunOK(Judged(x, d))
<1>1. CASE Passes(d, x.texts) \/ x.attempt = MaxRegenerations
  <2>1. Judged(x, d) = [x EXCEPT !.pc = "upsert", !.draft = d]
    BY <1>1 DEF Judged
  <2> QED
    BY <1>1, <2>1 DEF RunOK, RunType, Body
<1>2. CASE ~(Passes(d, x.texts) \/ x.attempt = MaxRegenerations)
  <2>1. Judged(x, d) = [x EXCEPT !.pc = "read", !.attempt = x.attempt + 1,
                                 !.feedback = Feedback(d, x.texts), !.draft = NoDraft]
    BY <1>2 DEF Judged, GoRound
  <2>2. x.attempt + 1 \in 0..MaxRegenerations
    BY <1>2, DraftLoopAssumption DEF RunType
  <2>3. Feedback(d, x.texts) \in FeedbackType
    BY DEF FeedbackType, RunType
  <2> QED
    BY <2>1, <2>2, <2>3 DEF RunOK, RunType, Body
<1> QED
  BY <1>1, <1>2

LEMMA IInvStep ==
  ASSUME IInv, [Next]_vars
  PROVE  IInv'
<1> USE DraftLoopAssumption
<1>1. ASSUME NEW r \in Drafter, Begin(r) PROVE IInv'
  <2>1. PICK texts \in SUBSET facts :
          run' = [run EXCEPT ![r] = [Idle EXCEPT !.pc = "read", !.texts = texts \cup Profile]]
    BY <1>1 DEF Begin
  <2>2. RunOK([Idle EXCEPT !.pc = "read", !.texts = texts \cup Profile])
    BY StartOK DEF IInv
  <2>3. UNCHANGED <<facts, answers, row, waiting, paid, overlaps, lost>>
    BY <1>1 DEF Begin
  <2> QED
    BY <2>1, <2>2, <2>3, OneRunMoves, RowStays DEF IInv
<1>2. ASSUME NEW r \in Drafter, Hit(r) PROVE IInv'
  <2>1. PICK d \in Cached(Prompt(r)) : run' = [run EXCEPT ![r] = Judged(run[r], d)]
    BY <1>2 DEF Hit, IInv
  <2>2. d \in Draft
    BY DEF Cached, IInv
  <2>3. RunOK(Judged(run[r], d))
    BY <2>2, JudgedOK DEF IInv, RunsOK, RunOK
  <2>4. UNCHANGED <<facts, answers, row, waiting, paid, overlaps, lost>>
    BY <1>2 DEF Hit
  <2> QED
    BY <2>1, <2>3, <2>4, OneRunMoves, RowStays DEF IInv
<1>3. ASSUME NEW r \in Drafter, Miss(r) PROVE IInv'
  <2>1. run' = [run EXCEPT ![r] = [run[r] EXCEPT !.pc = "model"]]
    BY <1>3 DEF Miss, ToModel, IInv
  <2>2. RunOK([run[r] EXCEPT !.pc = "model"])
    BY <1>3 DEF Miss, At, IInv, RunsOK, RunOK, RunType, Body
  <2>3. UNCHANGED <<facts, answers, row, waiting, paid, lost>> /\ overlaps' \in Nat
    BY <1>3 DEF Miss, ToModel, IInv
  <2> QED
    BY <2>1, <2>2, <2>3, OneRunMoves, RowStays DEF IInv
<1>4. ASSUME NEW r \in Drafter, Answer(r) PROVE IInv'
  <2>1. PICK d \in Draft : run' = [run EXCEPT ![r] = [run[r] EXCEPT !.pc = "store", !.draft = d]]
    BY <1>4 DEF Answer, IInv
  <2>2. RunOK([run[r] EXCEPT !.pc = "store", !.draft = d])
    BY DEF IInv, RunsOK, RunOK, RunType, Body
  <2>3. UNCHANGED <<facts, answers, row, waiting, overlaps, lost>> /\ paid' \in Nat
    BY <1>4 DEF Answer, IInv
  <2> QED
    BY <2>1, <2>2, <2>3, OneRunMoves, RowStays DEF IInv
<1>5. ASSUME NEW r \in Drafter, Store(r) PROVE IInv'
  <2>1. /\ run[r].draft \in Draft /\ run[r].feedback \in FeedbackType
        /\ run' = [run EXCEPT ![r] = Judged(run[r], run[r].draft)]
    BY <1>5 DEF Store, Keep, At, IInv, RunsOK, RunOK, RunType, Body
  <2>2. RunOK(Judged(run[r], run[r].draft))
    BY <2>1, JudgedOK DEF IInv, RunsOK, RunOK
  <2>3. answers' \subseteq [prompt : FeedbackType, draft : Draft]
    BY <1>5, <2>1 DEF Store, Keep, Prompt, IInv
  <2>4. UNCHANGED <<facts, row, waiting, paid, overlaps, lost>>
    BY <1>5 DEF Store, Keep
  <2> QED
    BY <2>1, <2>2, <2>3, <2>4, OneRunMoves, RowStays DEF IInv
<1>6. ASSUME NEW r \in Drafter, Upsert(r) PROVE IInv'
  <2>1. /\ run[r].pc = "upsert" /\ run[r] \in RunType /\ RunOK(run[r])
        /\ run' = [run EXCEPT ![r] = [run[r] EXCEPT !.pc = "lead"]]
    BY <1>6 DEF Upsert, Write, At, IInv, RunsOK
  <2>2. RunOK([run[r] EXCEPT !.pc = "lead"])
    BY <2>1 DEF RunOK, RunType, Body
  <2>3. UNCHANGED <<facts, answers, waiting, paid, overlaps, lost>>
    BY <1>6 DEF Upsert, Write
  <2>4. RowOK'
    <3> DEFINE ok == Passes(run[r].draft, run[r].texts)
    <3>1. /\ row'.status = IF ok THEN "awaiting_approval" ELSE "draft"
          /\ row'.draft = run[r].draft /\ row'.base = run[r].texts
          /\ row'.regen = IF ok THEN run[r].attempt ELSE run[r].attempt + 1
      BY <1>6 DEF Upsert, Write
    <3>2. run[r].draft \in Draft /\ run[r].texts \subseteq facts \cup Profile
      BY <2>1 DEF RunOK, Body
    <3>3. ok \/ run[r].attempt = MaxRegenerations
      BY <2>1 DEF RunOK
    <3> HIDE DEF ok
    <3>4. CASE ok
      BY <2>3, <3>1, <3>2, <3>4 DEF RowOK, ok
    <3>5. CASE ~ok
      BY <2>3, <3>1, <3>2, <3>3, <3>5 DEF RowOK
    <3> QED
      BY <3>4, <3>5
  <2> QED
    BY <2>1, <2>2, <2>3, <2>4, OneRunMoves DEF IInv
<1>7. ASSUME NEW r \in Drafter, MarkLead(r) \/ Kill(r) PROVE IInv'
  <2>1. run' = [run EXCEPT ![r] = Idle] /\ RunOK(Idle)
    BY <1>7, StartOK DEF MarkLead, Kill, IInv
  <2>2. UNCHANGED <<facts, answers, row, paid, overlaps>>
    BY <1>7 DEF MarkLead, Kill
  <2>3. waiting' \in BOOLEAN
    BY <1>7, Zenon DEF MarkLead, Kill, IInv
  <2>4. lost' \in Nat
    BY <1>7 DEF MarkLead, Kill, IInv
  <2> QED
    BY <2>1, <2>2, <2>3, <2>4, OneRunMoves, RowStays DEF IInv
<1>8. CASE Learn
  <2>1. facts \subseteq facts' /\ facts' \subseteq Text
    BY <1>8 DEF Learn, IInv
  <2>2. UNCHANGED <<run, answers, row, waiting, paid, overlaps, lost>>
    BY <1>8 DEF Learn
  <2>3. RowOK'
    BY <2>1, <2>2 DEF IInv, RowOK, NoRow
  <2>4. RunsOK'
    BY <2>1, <2>2 DEF IInv, RunsOK, RunOK
  <2> QED
    BY <2>1, <2>2, <2>3, <2>4 DEF IInv
<1>9. CASE UNCHANGED vars
  BY <1>9 DEF vars, IInv, RunsOK, RunOK, RowOK, NoRow
<1> QED
  BY <1>1, <1>2, <1>3, <1>4, <1>5, <1>6, <1>7, <1>8, <1>9 DEF Next, Ask

\* Every variable keeps its type, and no run goes round once too often.
THEOREM TypeCorrect == Spec => []TypeOK
<1>1. IInv => TypeOK
  BY DEF IInv, RunsOK, RunOK, RunType, RowOK, TypeOK, Body
<1> QED
  BY IInvInit, IInvStep, <1>1, PTL DEF Spec

\* What awaits approval is presentable by the evidence that is there now.
THEOREM GateTheorem == Spec => []GateHolds
<1>1. IInv => GateHolds
  <2> SUFFICES ASSUME IInv PROVE GateHolds
    OBVIOUS
  <2>1. CASE row = NoRow
    BY <2>1 DEF GateHolds, NoRow
  <2>2. CASE row # NoRow
    <3>1. ASSUME row.status = "awaiting_approval" PROVE Presentable(row.draft, facts \cup Profile)
      BY <2>2, <3>1, PassesIsPresentable DEF IInv, RowOK
    <3>2. ASSUME row.status = "draft" PROVE row.regen = MaxRegenerations + 1
      BY <2>2, <3>2 DEF IInv, RowOK
    <3> QED
      BY <3>1, <3>2 DEF GateHolds
  <2> QED
    BY <2>1, <2>2
<1> QED
  BY IInvInit, IInvStep, <1>1, PTL DEF Spec

-----------------------------------------------------------------------------
(* What a draft made again costs, and which text it is                         *)

\* Lanes.  A prompt that is asked while another run asks it may get a second answer,
\* after which drafting goes two ways.  The answer of the i-th overlap opens lane i;
\* all others stay in the lane of their prompt.
Marked(o) == [prompt : FeedbackType, draft : Draft, lane : 0..o]
Distinct(G) ==
  \A g, h \in G : g.lane = h.lane /\ (g.lane > 0 \/ g.prompt = h.prompt) => g = h
Mirrors(G, A) ==
  /\ \A g \in G : [prompt |-> g.prompt, draft |-> g.draft] \in A
  /\ \A a \in A : \E g \in G : g.prompt = a.prompt /\ g.draft = a.draft

\* The prompts that drafting by a text comes to, counted along each lane: what comes
\* next follows from the answer that stays in the lane.
Nodes(bs, o) == [base : bs, lane : 0..o, since : 0..MaxRegenerations, prompt : FeedbackType]
SameLane(v, w) == v.base = w.base /\ v.lane = w.lane
OneWay(W, bs, o) ==
  /\ W \subseteq Nodes(bs, o)
  /\ \A v, w \in W : SameLane(v, w) /\ v.since = w.since => v.prompt = w.prompt
  /\ \A w \in W : w.lane = 0 /\ w.since = 0 => w.prompt = NoFeedback
  /\ \A w \in W : w.lane > 0 => w.since < MaxRegenerations
  /\ \A w \in W : \A j \in 0..w.since : \E v \in W : SameLane(v, w) /\ v.since = j
Follows(W, G) ==
  /\ \A w \in W : w.since > 0 =>
       \E v \in W, g \in G :
         /\ SameLane(v, w) /\ v.since + 1 = w.since /\ g.prompt = v.prompt /\ g.lane = 0
         /\ ~Passes(g.draft, w.base) /\ w.prompt = Feedback(g.draft, w.base)
  /\ \A w \in W : w.since = 0 /\ w.lane > 0 =>
       \E g \in G : g.lane = w.lane /\ w.prompt = Feedback(g.draft, w.base)

\* Every run, every answer and the row are on the way.
On(w, x) ==
  /\ w.base = x.texts /\ w.prompt = x.feedback
  /\ IF w.lane = 0 THEN w.since = x.attempt ELSE w.since < x.attempt
Ends(W, G, texts, d) ==
  \E w \in W, g \in G :
    /\ w.base = texts /\ g.prompt = w.prompt /\ g.draft = d
    /\ Passes(d, texts) \/ (w.lane = 0 => w.since = MaxRegenerations)
RunWalks(W, G, x) ==
  /\ x.pc \in {"read", "model", "store"} => \E w \in W : On(w, x)
  /\ x.pc = "upsert" => Ends(W, G, x.texts, x.draft)
RowWalks(W, G, x) ==
  x # NoRow =>
    /\ Ends(W, G, x.base, x.draft)
    /\ x.status = IF Passes(x.draft, x.base) THEN "awaiting_approval" ELSE "draft"

Way(W, G) ==
  /\ OneWay(W, bases, overlaps) /\ Follows(W, G)
  /\ G \subseteq Marked(overlaps) /\ Distinct(G) /\ Mirrors(G, answers)
  /\ \A r \in Drafter : RunWalks(W, G, run[r])
  /\ \A g \in G : \E w \in W : w.prompt = g.prompt
  /\ RowWalks(W, G, row)

\* Who asks has the lane its answer will be marked with to itself.
Asking == {r \in Drafter : run[r].pc \in {"model", "store"}}
Alone(G, K) ==
  \A r \in Asking :
    /\ \A g \in G : g.lane = K[r] => K[r] = 0 /\ g.prompt # Prompt(r)
    /\ \A q \in Asking : K[q] = K[r] /\ (K[r] > 0 \/ Prompt(q) = Prompt(r)) => q = r

\* What is paid for is kept, about to be, or lost.
Bill(G, K) ==
  {<<g.lane, g.prompt>> : g \in G}
    \cup {<<K[r], Prompt(r)>> : r \in {o \in Drafter : run[o].pc = "store"}}
Bought(G, K) == paid <= Cardinality(Bill(G, K)) + lost

Tokens(G, K) == K \in [Drafter -> 0..overlaps] /\ Alone(G, K) /\ Bought(G, K)

RInv == IInv /\ IsFiniteSet(bases) /\ \E W, G, K : Way(W, G) /\ Tokens(G, K)

\* A product of three.
LEMMA Products ==
  ASSUME NEW R, IsFiniteSet(R), NEW m \in Nat, NEW o \in Nat
  PROVE  /\ IsFiniteSet((R \X (0..m)) \X (0..o))
         /\ Cardinality((R \X (0..m)) \X (0..o)) = (m + 1) * Cardinality(R) * (1 + o)
         /\ Cardinality(R) \in Nat
<1>1. /\ IsFiniteSet(0..m) /\ Cardinality(0..m) = m + 1
      /\ IsFiniteSet(0..o) /\ Cardinality(0..o) = o + 1
  BY FS_Interval
<1>2. Cardinality(R) \in Nat
  BY FS_CardinalityType
<1>3. IsFiniteSet(R \X (0..m)) /\ Cardinality(R \X (0..m)) = Cardinality(R) * (m + 1)
  BY <1>1, FS_Product
<1>4. /\ IsFiniteSet((R \X (0..m)) \X (0..o))
      /\ Cardinality((R \X (0..m)) \X (0..o)) = (Cardinality(R) * (m + 1)) * (o + 1)
  <2> DEFINE S == R \X (0..m)
             J == 0..o
  <2>1. IsFiniteSet(S) /\ Cardinality(S) = Cardinality(R) * (m + 1)
    BY <1>3
  <2>2. IsFiniteSet(J) /\ Cardinality(J) = o + 1
    BY <1>1
  <2> HIDE DEF S, J
  <2>3. IsFiniteSet(S \X J) /\ Cardinality(S \X J) = Cardinality(S) * Cardinality(J)
    BY <2>1, <2>2, FS_Product
  <2>4. Cardinality(S \X J) = (Cardinality(R) * (m + 1)) * (o + 1)
    BY <2>1, <2>2, <2>3
  <2> QED
    BY <2>3, <2>4 DEF S, J
<1>5. ASSUME NEW n \in Nat PROVE (n * (m + 1)) * (o + 1) = (m + 1) * n * (1 + o)
  <2>1. n * (m + 1) = (m + 1) * n /\ o + 1 = 1 + o
    OBVIOUS
  <2> QED
    BY <2>1
<1> QED
  BY <1>2, <1>4, <1>5

\* What is paid for has a place of its own: a text, a lane and a count along it, and
\* for the answer that opens a lane the count that no prompt of the lane comes to.
LEMMA BillIsSmall ==
  ASSUME RInv, NEW W, NEW G, NEW K, Way(W, G), Tokens(G, K)
  PROVE  /\ IsFiniteSet(Bill(G, K))
         /\ Cardinality(Bill(G, K)) <= (MaxRegenerations + 1) * Cardinality(bases) * (1 + overlaps)
<1> DEFINE P == Bill(G, K)
           T == (bases \X (0..MaxRegenerations)) \X (0..overlaps)
           of(p) == CHOOSE w \in W : w.prompt = p[2]
           f == [p \in P |-> IF p[1] = 0 THEN <<<<of(p).base, of(p).since>>, of(p).lane>>
                             ELSE <<<<of(p).base, MaxRegenerations>>, p[1]>>]
<1>1. overlaps \in Nat /\ MaxRegenerations \in Nat
  BY DraftLoopAssumption DEF RInv, IInv
<1>2. ASSUME NEW p \in P
      PROVE  p = <<p[1], p[2]>> /\ p[1] \in 0..overlaps /\ \E w \in W : w.prompt = p[2]
  <2>1. CASE \E g \in G : p = <<g.lane, g.prompt>>
    BY <2>1 DEF Way, Marked
  <2>2. CASE \E r \in Drafter : run[r].pc = "store" /\ p = <<K[r], Prompt(r)>>
    <3>1. PICK r \in Drafter : run[r].pc = "store" /\ p = <<K[r], Prompt(r)>>
      BY <2>2
    <3>2. \E w \in W : On(w, run[r])
      BY <3>1 DEF Way, RunWalks
    <3> QED
      BY <3>1, <3>2 DEF On, Prompt, Tokens
  <2> QED
    BY <2>1, <2>2 DEF Bill
\* Two answers, or askers, of one lane that an overlap opened are the same.
<1>3. ASSUME NEW p \in P, NEW q \in P, p[1] = q[1], p[1] > 0
      PROVE  p = q
  <2>1. ASSUME NEW g \in G, NEW h \in G, g.lane = h.lane, g.lane > 0 PROVE g = h
    BY <2>1 DEF Way, Distinct
  <2>2. ASSUME NEW g \in G, NEW r \in Drafter, run[r].pc = "store", g.lane = K[r], g.lane > 0
        PROVE  FALSE
    BY <2>2 DEF Tokens, Alone, Asking
  <2>3. ASSUME NEW q1 \in Drafter, NEW r \in Drafter, run[q1].pc = "store", run[r].pc = "store",
               K[q1] = K[r], K[r] > 0
        PROVE  q1 = r
    BY <2>3 DEF Tokens, Alone, Asking
  <2>4. \/ \E g \in G : p = <<g.lane, g.prompt>>
        \/ \E r \in Drafter : run[r].pc = "store" /\ p = <<K[r], Prompt(r)>>
    BY DEF Bill
  <2>5. \/ \E g \in G : q = <<g.lane, g.prompt>>
        \/ \E r \in Drafter : run[r].pc = "store" /\ q = <<K[r], Prompt(r)>>
    BY DEF Bill
  <2> HIDE DEF P
  <2> QED
    BY <1>3, <2>1, <2>2, <2>3, <2>4, <2>5
<1>4. ASSUME NEW p \in P PROVE of(p) \in W /\ of(p).prompt = p[2]
  BY <1>2
<1>5. \A w \in W : /\ w.base \in bases /\ w.lane \in 0..overlaps /\ w.since \in 0..MaxRegenerations
                   /\ w.lane > 0 => w.since < MaxRegenerations
  BY DEF Way, OneWay, Nodes
<1>6. \A v, w \in W : v.base = w.base /\ v.lane = w.lane /\ v.since = w.since => v.prompt = w.prompt
  BY DEF Way, OneWay, SameLane
<1> HIDE DEF P, of
<1>7. ASSUME NEW p \in P PROVE f[p] \in T
  <2>1. MaxRegenerations \in 0..MaxRegenerations
    BY <1>1
  <2> QED
    BY <1>2, <1>4, <1>5, <2>1
<1>8. ASSUME NEW p \in P, NEW q \in P, f[p] = f[q] PROVE p = q
  <2>1. CASE p[1] = 0 /\ q[1] = 0
    <3>1. of(p).base = of(q).base /\ of(p).since = of(q).since /\ of(p).lane = of(q).lane
      BY <1>8, <2>1
    <3>2. p[2] = q[2]
      BY <1>4, <1>6, <3>1
    <3> QED
      BY <1>2, <2>1, <3>2
  <2>2. ASSUME NEW x \in P, NEW y \in P, x[1] = 0, y[1] # 0, f[x] = f[y] PROVE FALSE
    <3>1. of(x).since = MaxRegenerations /\ of(x).lane = y[1]
      BY <2>2
    <3>2. y[1] > 0
      BY <1>1, <1>2, <2>2
    <3> QED
      BY <1>1, <1>4, <1>5, <3>1, <3>2
  <2>3. CASE p[1] # 0 /\ q[1] # 0
    <3>1. p[1] = q[1]
      BY <1>8, <2>3
    <3>2. p[1] > 0
      BY <1>1, <1>2, <2>3
    <3> QED
      BY <1>3, <3>1, <3>2
  <2> QED
    BY <1>8, <2>1, <2>2, <2>3
<1>9. f \in Injection(P, T)
  BY <1>7, <1>8 DEF Injection, IsInjective
<1>10. /\ IsFiniteSet(T) /\ Cardinality(T) = (MaxRegenerations + 1) * Cardinality(bases) * (1 + overlaps)
  BY <1>1, Products DEF RInv
<1> HIDE DEF f, T
<1>11. IsFiniteSet(P) /\ Cardinality(P) <= Cardinality(T)
  BY <1>9, <1>10, FS_Injection
<1> QED
  BY <1>10, <1>11 DEF P

\* Without overlaps there is one lane, and drafting by a text ends with one draft.
LEMMA OneEnd ==
  ASSUME NEW G, G \subseteq Marked(0), Distinct(G), NEW W, NEW bs, OneWay(W, bs, 0), Follows(W, G),
         NEW texts, NEW d, NEW e, Ends(W, G, texts, d), Ends(W, G, texts, e)
  PROVE  d = e
<1>1. /\ \A g \in G : g.lane = 0
      /\ \A w \in W : w.lane = 0 /\ w.since \in 0..MaxRegenerations
  BY DEF Marked, OneWay, Nodes
<1>2. \A g, h \in G : g.prompt = h.prompt => g.draft = h.draft
  BY <1>1 DEF Distinct
<1>3. PICK v \in W, a \in G :
        /\ v.base = texts /\ a.prompt = v.prompt /\ a.draft = d
        /\ Passes(d, texts) \/ v.since = MaxRegenerations
  BY <1>1 DEF Ends
<1>4. PICK w \in W, b \in G :
        /\ w.base = texts /\ b.prompt = w.prompt /\ b.draft = e
        /\ Passes(e, texts) \/ w.since = MaxRegenerations
  BY <1>1 DEF Ends
<1>5. v.since \in 0..MaxRegenerations /\ w.since \in 0..MaxRegenerations
  BY <1>1
\* An attempt that passes is the last.
<1>6. ASSUME NEW x \in W, NEW y \in W, NEW c \in G, x.base = texts, y.base = texts,
             c.prompt = x.prompt, x.since < y.since, Passes(c.draft, texts)
      PROVE  FALSE
  <2>1. x.since + 1 \in 0..y.since /\ x.since + 1 > 0
    BY <1>1, <1>6
  <2>2. PICK u \in W : u.base = texts /\ u.since = x.since + 1
    BY <1>6, <2>1 DEF OneWay, SameLane
  <2>3. PICK t \in W, g \in G :
          /\ t.base = u.base /\ t.since + 1 = u.since /\ g.prompt = t.prompt
          /\ ~Passes(g.draft, u.base)
    BY <2>1, <2>2 DEF Follows, SameLane
  <2>4. t.since = x.since
    BY <1>1, <2>2, <2>3
  <2>5. t.prompt = x.prompt
    BY <1>1, <1>6, <2>2, <2>3, <2>4 DEF OneWay, SameLane
  <2>6. g.draft = c.draft
    BY <1>2, <1>6, <2>3, <2>5
  <2> QED
    BY <1>6, <2>2, <2>3, <2>6
<1>7. CASE v.since = w.since
  <2>1. v.prompt = w.prompt
    BY <1>1, <1>3, <1>4, <1>7 DEF OneWay, SameLane
  <2> QED
    BY <1>2, <1>3, <1>4, <2>1
<1>8. CASE v.since < w.since
  <2>1. Passes(d, texts)
    BY <1>3, <1>5, <1>8, DraftLoopAssumption
  <2> QED
    BY <1>3, <1>4, <1>6, <1>8, <2>1
<1>9. CASE w.since < v.since
  <2>1. Passes(e, texts)
    BY <1>4, <1>5, <1>9, DraftLoopAssumption
  <2> QED
    BY <1>3, <1>4, <1>6, <1>9, <2>1
<1>10. v.since \in Int /\ w.since \in Int
  BY <1>5
<1> QED
  BY <1>7, <1>8, <1>9, <1>10

LEMMA EndsGrow ==
  ASSUME NEW G, NEW H, G \subseteq H, NEW W, NEW V, W \subseteq V, NEW texts, NEW d,
         Ends(W, G, texts, d)
  PROVE  Ends(V, H, texts, d)
BY DEF Ends

LEMMA WalksGrow ==
  ASSUME NEW G, NEW H, G \subseteq H, NEW W, NEW V, W \subseteq V, NEW x, RunWalks(W, G, x)
  PROVE  RunWalks(V, H, x)
BY EndsGrow DEF RunWalks

LEMMA FollowsGrow ==
  ASSUME NEW W, NEW G, NEW H, G \subseteq H, Follows(W, G)
  PROVE  Follows(W, H)
BY DEF Follows

\* More texts and more lanes.
LEMMA RoomGrows ==
  ASSUME NEW W, NEW G, NEW bs, NEW cs, bs \subseteq cs, NEW o \in Nat, NEW n \in Nat, o <= n
  PROVE  /\ OneWay(W, bs, o) => OneWay(W, cs, n)
         /\ G \subseteq Marked(o) => G \subseteq Marked(n)
         /\ 0..o \subseteq 0..n
<1>1. 0..o \subseteq 0..n
  OBVIOUS
<1>2. Nodes(bs, o) \subseteq Nodes(cs, n) /\ Marked(o) \subseteq Marked(n)
  BY <1>1 DEF Nodes, Marked
<1> QED
  BY <1>1, <1>2 DEF OneWay

\* A node that follows from the way, or begins it, joins it.
LEMMA NodeJoins ==
  ASSUME NEW W, NEW bs, NEW o, OneWay(W, bs, o), NEW n \in Nodes(bs, o),
         \A w \in W : SameLane(w, n) /\ w.since = n.since => w.prompt = n.prompt,
         n.lane = 0 /\ n.since = 0 => n.prompt = NoFeedback,
         n.lane > 0 => n.since < MaxRegenerations,
         n.since > 0 => \E w \in W : SameLane(w, n) /\ w.since + 1 = n.since
  PROVE  OneWay(W \cup {n}, bs, o)
<1> DEFINE V == W \cup {n}
<1>1. V \subseteq Nodes(bs, o)
  BY DEF OneWay
<1>2. \A v, w \in V : SameLane(v, w) /\ v.since = w.since => v.prompt = w.prompt
  BY DEF OneWay, SameLane
<1>3. \A w \in V : w.lane = 0 /\ w.since = 0 => w.prompt = NoFeedback
  BY DEF OneWay
<1>4. \A w \in V : w.lane > 0 => w.since < MaxRegenerations
  BY DEF OneWay
<1>5. ASSUME NEW j \in 0..n.since PROVE \E v \in V : SameLane(v, n) /\ v.since = j
  <2>1. CASE j = n.since
    BY <2>1 DEF SameLane
  <2>2. CASE j # n.since
    <3>1. n.since \in Nat
      BY DEF Nodes
    <3>2. PICK w \in W : SameLane(w, n) /\ w.since + 1 = n.since
      BY <2>2, <3>1
    <3>3. w.since \in Nat
      BY DEF OneWay, Nodes
    <3>4. j \in 0..w.since
      BY <2>2, <3>1, <3>2, <3>3
    <3>5. PICK v \in W : SameLane(v, w) /\ v.since = j
      BY <3>4 DEF OneWay
    <3> QED
      BY <3>2, <3>5 DEF SameLane
  <2> QED
    BY <2>1, <2>2
<1>6. \A w \in V : \A j \in 0..w.since : \E v \in V : SameLane(v, w) /\ v.since = j
  BY <1>5 DEF OneWay
<1> QED
  BY <1>1, <1>2, <1>3, <1>4, <1>6 DEF OneWay

\* A run that has a draft goes to its row, or to the one prompt that follows.
LEMMA JudgedWalks ==
  ASSUME NEW o \in Nat, NEW G, G \subseteq Marked(o), Distinct(G),
         NEW bs, NEW W, OneWay(W, bs, o), Follows(W, G),
         NEW x \in RunType, NEW w \in W, On(w, x), NEW g \in G, g.prompt = x.feedback
  PROVE  \E V : /\ W \subseteq V /\ OneWay(V, bs, o) /\ Follows(V, G)
                /\ RunWalks(V, G, Judged(x, g.draft))
<1> DEFINE d == g.draft
<1>1. /\ w.base = x.texts /\ w.prompt = x.feedback /\ g.prompt = w.prompt
      /\ IF w.lane = 0 THEN w.since = x.attempt ELSE w.since < x.attempt
  BY DEF On
<1>2. /\ w.base \in bs /\ w.lane \in 0..o /\ w.since \in 0..MaxRegenerations
      /\ x.attempt \in 0..MaxRegenerations /\ d \in Draft /\ g.lane \in 0..o
      /\ w.since \in Nat /\ x.attempt \in Nat
  BY DEF OneWay, Nodes, Marked, RunType
<1>3. CASE Passes(d, x.texts) \/ x.attempt = MaxRegenerations
  <2>1. Judged(x, d) = [x EXCEPT !.pc = "upsert", !.draft = d]
    BY <1>3 DEF Judged
  <2>2. Judged(x, d).pc = "upsert" /\ Judged(x, d).texts = x.texts /\ Judged(x, d).draft = d
    BY <2>1 DEF RunType
  <2>3. Ends(W, G, x.texts, d)
    BY <1>1, <1>3 DEF Ends
  <2>4. RunWalks(W, G, Judged(x, d))
    BY <2>2, <2>3 DEF RunWalks
  <2> QED
    BY <2>4
<1>4. CASE ~(Passes(d, x.texts) \/ x.attempt = MaxRegenerations)
  <2>1. Judged(x, d) = [x EXCEPT !.pc = "read", !.attempt = x.attempt + 1,
                                 !.feedback = Feedback(d, x.texts), !.draft = NoDraft]
    BY <1>4 DEF Judged, GoRound
  <2>2. /\ Judged(x, d).pc = "read" /\ Judged(x, d).texts = x.texts
        /\ Judged(x, d).attempt = x.attempt + 1 /\ Judged(x, d).feedback = Feedback(d, x.texts)
    BY <2>1 DEF RunType
  <2> DEFINE lane == IF g.lane = 0 THEN w.lane ELSE g.lane
             since == IF g.lane = 0 THEN w.since + 1 ELSE 0
             n == [base |-> w.base, lane |-> lane, since |-> since, prompt |-> Feedback(d, w.base)]
  <2>3. /\ Feedback(d, w.base) \in FeedbackType /\ x.attempt < MaxRegenerations
        /\ MaxRegenerations \in Nat
    BY <1>1, <1>2, <1>4, DraftLoopAssumption DEF FeedbackType, RunType
  <2>4. /\ since \in 0..MaxRegenerations /\ lane \in 0..o
        /\ IF lane = 0 THEN since = x.attempt + 1 ELSE since < x.attempt + 1
        /\ lane > 0 => since < MaxRegenerations
        /\ lane = 0 => since > 0
    BY <1>1, <1>2, <2>3
  <2>5. n \in Nodes(bs, o)
    BY <1>2, <2>3, <2>4 DEF Nodes
  <2>6. n.base = w.base /\ n.lane = lane /\ n.since = since /\ n.prompt = Feedback(d, w.base)
    OBVIOUS
  <2> HIDE DEF n
  \* Whoever came to this place before came by the same answer.
  <2>7. ASSUME NEW v \in W, SameLane(v, n), v.since = n.since
        PROVE  v.prompt = n.prompt
    <3>1. v.base = w.base
      BY <2>6, <2>7 DEF SameLane
    <3>2. CASE g.lane = 0
      <4>1. v.since = w.since + 1 /\ v.lane = w.lane /\ v.since > 0
        BY <1>2, <2>6, <2>7, <3>2 DEF SameLane
      <4>2. PICK u \in W, h \in G :
              /\ SameLane(u, v) /\ u.since + 1 = v.since /\ h.prompt = u.prompt /\ h.lane = 0
              /\ v.prompt = Feedback(h.draft, v.base)
        BY <4>1 DEF Follows
      <4>3. u.since \in Nat
        BY DEF OneWay, Nodes
      <4>4. u.since = w.since /\ SameLane(u, w)
        BY <1>2, <3>1, <4>1, <4>2, <4>3 DEF SameLane
      <4>5. u.prompt = w.prompt
        BY <4>4 DEF OneWay
      <4>6. h = g
        BY <1>1, <3>2, <4>2, <4>5 DEF Distinct
      <4> QED
        BY <2>6, <3>1, <4>2, <4>6
    <3>3. CASE g.lane # 0
      <4>1. v.since = 0 /\ v.lane = g.lane /\ v.lane > 0
        BY <1>2, <2>6, <2>7, <3>3 DEF SameLane
      <4>2. PICK h \in G : h.lane = v.lane /\ v.prompt = Feedback(h.draft, v.base)
        BY <4>1 DEF Follows
      <4>3. h = g
        BY <4>1, <4>2 DEF Distinct
      <4> QED
        BY <2>6, <3>1, <4>2, <4>3
    <3> QED
      BY <3>2, <3>3
  <2>8. n.since > 0 => g.lane = 0 /\ SameLane(w, n) /\ w.since + 1 = n.since
    BY <2>6 DEF SameLane
  <2>9. OneWay(W \cup {n}, bs, o)
    BY <2>4, <2>5, <2>6, <2>7, <2>8, NodeJoins
  <2>10. Follows(W \cup {n}, G)
    <3>1. ~Passes(g.draft, n.base) /\ n.prompt = Feedback(g.draft, n.base)
      BY <1>1, <1>4, <2>6
    <3>2. n.since > 0 => g.prompt = w.prompt /\ g.lane = 0 /\ SameLane(w, n) /\ w.since + 1 = n.since
      BY <1>1, <2>8
    <3>3. n.since = 0 /\ n.lane > 0 => g.lane = n.lane
      BY <1>2, <2>6
    <3> QED
      BY <3>1, <3>2, <3>3 DEF Follows
  <2>11. RunWalks(W \cup {n}, G, Judged(x, d))
    <3>1. On(n, Judged(x, d))
      BY <1>1, <2>2, <2>4, <2>6 DEF On
    <3> QED
      BY <2>2, <3>1 DEF RunWalks
  <2> QED
    BY <2>9, <2>10, <2>11
<1> QED
  BY <1>3, <1>4

\* A run that begins is at the start of its way.
LEMMA BeginWalks ==
  ASSUME NEW o \in Nat, NEW G, NEW bs, NEW W, OneWay(W, bs, o), Follows(W, G), NEW T,
         NEW x, x.texts = T, x.attempt = 0, x.feedback = NoFeedback
  PROVE  \E V : /\ W \subseteq V /\ OneWay(V, bs \cup {T}, o) /\ Follows(V, G)
                /\ \E w \in V : On(w, x)
<1> DEFINE n == [base |-> T, lane |-> 0, since |-> 0, prompt |-> NoFeedback]
<1>1. 0 \in 0..MaxRegenerations /\ NoFeedback \in FeedbackType /\ 0 \in 0..o
  BY DraftLoopAssumption DEF FeedbackType
<1>2. n.base = T /\ n.lane = 0 /\ n.since = 0 /\ n.prompt = NoFeedback /\ n \in Nodes(bs \cup {T}, o)
  BY <1>1 DEF Nodes
<1> HIDE DEF n
<1>3. OneWay(W, bs \cup {T}, o)
  <2>1. bs \subseteq bs \cup {T} /\ o <= o
    OBVIOUS
  <2> QED
    BY <2>1, RoomGrows
<1>4. \A w \in W : SameLane(w, n) /\ w.since = n.since => w.prompt = n.prompt
  BY <1>2 DEF OneWay, SameLane
<1>5. OneWay(W \cup {n}, bs \cup {T}, o)
  BY <1>2, <1>3, <1>4, NodeJoins
<1>6. Follows(W \cup {n}, G)
  BY <1>2 DEF Follows
<1>7. On(n, x)
  BY <1>2 DEF On
<1> QED
  BY <1>5, <1>6, <1>7

\* One run moves along a way that only grows.
LEMMA WayKept ==
  ASSUME IInv, NEW W, NEW G, Way(W, G), NEW V, NEW H, W \subseteq V, G \subseteq H,
         NEW r \in Drafter, NEW x, run' = [run EXCEPT ![r] = x], row' = row,
         OneWay(V, bases', overlaps'), Follows(V, H), RunWalks(V, H, x),
         H \subseteq Marked(overlaps'), Distinct(H), Mirrors(H, answers'),
         \A h \in H \ G : \E w \in V : w.prompt = h.prompt
  PROVE  Way(V, H)'
<1>1. ASSUME NEW q \in Drafter PROVE RunWalks(V, H, run'[q])
  <2>1. CASE q = r
    BY <2>1 DEF IInv
  <2>2. CASE q # r
    <3>1. run'[q] = run[q] /\ RunWalks(W, G, run[q])
      BY <2>2 DEF IInv, Way
    <3>2. RunWalks(V, H, run[q])
      BY <3>1, WalksGrow
    <3> QED
      BY <3>1, <3>2
  <2> QED
    BY <2>1, <2>2
<1>2. RowWalks(V, H, row')
  BY EndsGrow DEF Way, RowWalks
<1>3. \A h \in H : \E w \in V : w.prompt = h.prompt
  BY DEF Way
<1> QED
  BY <1>1, <1>2, <1>3 DEF Way

\* A run that neither asks nor comes to ask leaves what is asked alone.
LEMMA AskingStays ==
  ASSUME IInv, NEW G, NEW K, Tokens(G, K), NEW r \in Drafter, NEW x, run' = [run EXCEPT ![r] = x],
         run[r].pc \notin {"model", "store"}, x.pc \notin {"model", "store"},
         UNCHANGED <<paid, overlaps, lost>>
  PROVE  Tokens(G, K)'
<1>1. run'[r] = x /\ \A q \in Drafter : q # r => run'[q] = run[q]
  BY DEF IInv
<1>2. Asking' = Asking /\ r \notin Asking
  BY <1>1 DEF Asking
<1>3. \A q \in Asking : Prompt(q)' = Prompt(q)
  BY <1>1, <1>2 DEF Asking, Prompt
<1>4. Alone(G, K)'
  BY <1>2, <1>3 DEF Tokens, Alone
<1>5. {q \in Drafter : run'[q].pc = "store"} = {q \in Drafter : run[q].pc = "store"}
  BY <1>1
<1>6. \A q \in {s \in Drafter : run[s].pc = "store"} : Prompt(q)' = Prompt(q)
  BY <1>3 DEF Asking
<1>7. Bill(G, K)' = Bill(G, K)
  BY <1>5, <1>6 DEF Bill
<1> QED
  BY <1>4, <1>7 DEF Tokens, Bought

LEMMA RInvInit == Init => RInv
<1> SUFFICES ASSUME Init PROVE RInv
  OBVIOUS
<1>1. /\ bases = {} /\ answers = {} /\ row = NoRow /\ paid = 0 /\ overlaps = 0 /\ lost = 0
      /\ \A r \in Drafter : run[r].pc = "idle"
  BY DEF Init, Idle
<1>2. IsFiniteSet(bases)
  BY <1>1, FS_EmptySet
<1> DEFINE K == [r \in Drafter |-> 0]
<1>3. K \in [Drafter -> 0..overlaps] /\ Alone({}, K)
  BY <1>1 DEF Alone, Asking
<1>4. Bill({}, K) = {}
  BY <1>1 DEF Bill
<1>5. Cardinality(Bill({}, K)) = 0
  BY <1>4, FS_EmptySet
<1>6. Tokens({}, K)
  BY <1>1, <1>3, <1>5 DEF Tokens, Bought
<1>7. /\ OneWay({}, bases, overlaps) /\ Follows({}, {}) /\ {} \subseteq Marked(overlaps)
      /\ Distinct({}) /\ Mirrors({}, answers)
  BY <1>1 DEF OneWay, Follows, Distinct, Mirrors
<1>8. Way({}, {})
  BY <1>1, <1>7 DEF Way, RunWalks, RowWalks
<1> QED
  BY <1>2, <1>6, <1>8, IInvInit DEF RInv

\* Each of the actions.
Goes == \E W, G, K : Way(W, G) /\ Tokens(G, K)

LEMMA BeginKeeps ==
  ASSUME RInv, NEW r \in Drafter, Begin(r)
  PROVE  Goes' /\ IsFiniteSet(bases)'
<1>1. PICK T \in SUBSET (facts \cup Profile) :
        /\ run' = [run EXCEPT ![r] = [Idle EXCEPT !.pc = "read", !.texts = T]]
        /\ bases' = bases \cup {T}
  BY DEF Begin
<1> DEFINE x == [Idle EXCEPT !.pc = "read", !.texts = T]
<1>2. run[r].pc = "idle" /\ UNCHANGED <<answers, row, paid, overlaps, lost>>
  BY DEF Begin, At
<1>3. x.pc = "read" /\ x.texts = T /\ x.attempt = 0 /\ x.feedback = NoFeedback
  BY DEF Idle
<1>4. run' = [run EXCEPT ![r] = x]
  BY <1>1
<1> HIDE DEF x
<1>5. PICK W, G, K : Way(W, G) /\ Tokens(G, K)
  BY DEF RInv
<1>6. Tokens(G, K)'
  BY <1>2, <1>3, <1>4, <1>5, AskingStays DEF RInv
<1>7. OneWay(W, bases, overlaps) /\ Follows(W, G) /\ overlaps \in Nat
  BY <1>5 DEF Way, RInv, IInv
<1>8. PICK V : /\ W \subseteq V /\ OneWay(V, bases \cup {T}, overlaps) /\ Follows(V, G)
               /\ \E w \in V : On(w, x)
  BY <1>3, <1>7, BeginWalks
<1>9. RunWalks(V, G, x)
  BY <1>3, <1>8 DEF RunWalks
<1>10. /\ OneWay(V, bases', overlaps') /\ G \subseteq Marked(overlaps') /\ Distinct(G)
       /\ Mirrors(G, answers')
  BY <1>1, <1>2, <1>5, <1>8 DEF Way
<1>11. Way(V, G)'
  BY <1>2, <1>4, <1>5, <1>8, <1>9, <1>10, WayKept DEF RInv
<1>12. IsFiniteSet(bases')
  BY <1>1, FS_AddElement DEF RInv
<1> QED
  BY <1>6, <1>11, <1>12 DEF Goes

LEMMA HitKeeps ==
  ASSUME RInv, NEW r \in Drafter, Hit(r)
  PROVE  Goes'
<1>1. PICK d \in Cached(Prompt(r)) : run' = [run EXCEPT ![r] = Judged(run[r], d)]
  BY DEF Hit, RInv, IInv
<1>2. run[r].pc = "read" /\ UNCHANGED <<answers, row, paid, bases, overlaps, lost>>
  BY DEF Hit, At
<1>3. PICK W, G, K : Way(W, G) /\ Tokens(G, K)
  BY DEF RInv
<1>4. PICK g \in G : g.prompt = run[r].feedback /\ g.draft = d
  BY <1>1, <1>3 DEF Cached, Prompt, Way, Mirrors
<1>5. PICK w \in W : On(w, run[r])
  BY <1>2, <1>3 DEF Way, RunWalks
<1>6. /\ run[r] \in RunType /\ overlaps \in Nat /\ G \subseteq Marked(overlaps) /\ Distinct(G)
      /\ OneWay(W, bases, overlaps) /\ Follows(W, G) /\ Mirrors(G, answers)
  BY <1>3 DEF RInv, IInv, Way
<1>7. PICK V : /\ W \subseteq V /\ OneWay(V, bases, overlaps) /\ Follows(V, G)
               /\ RunWalks(V, G, Judged(run[r], g.draft))
  BY <1>4, <1>5, <1>6, JudgedWalks
<1>8. /\ OneWay(V, bases', overlaps') /\ G \subseteq Marked(overlaps')
      /\ Mirrors(G, answers') /\ RunWalks(V, G, Judged(run[r], d))
  BY <1>2, <1>4, <1>6, <1>7
<1>9. Way(V, G)'
  BY <1>1, <1>2, <1>3, <1>6, <1>7, <1>8, WayKept DEF RInv
<1>10. Judged(run[r], d).pc \notin {"model", "store"}
  BY <1>6 DEF Judged, GoRound, RunType
<1>11. Tokens(G, K)'
  BY <1>1, <1>2, <1>3, <1>10, AskingStays DEF RInv
<1> QED
  BY <1>9, <1>11 DEF Goes

\* A prompt that goes to the model is nobody's but the run's, or opens a lane.
LEMMA MissKeeps ==
  ASSUME RInv, NEW r \in Drafter, Miss(r)
  PROVE  Goes'
<1> DEFINE x == [run[r] EXCEPT !.pc = "model"]
           Overlapped == \E q \in Drafter : run[q].pc \in {"model", "store"} /\ Prompt(q) = Prompt(r)
<1>1. run' = [run EXCEPT ![r] = x] /\ run[r] \in RunType
  BY DEF Miss, ToModel, RInv, IInv
<1>2. /\ run[r].pc = "read" /\ UNCHANGED <<answers, row, paid, bases, lost>>
      /\ overlaps' = overlaps + IF Overlapped THEN 1 ELSE 0
      /\ overlaps \in Nat
  BY DEF Miss, ToModel, At, RInv, IInv
<1>3. /\ x.pc = "model" /\ x.texts = run[r].texts /\ x.attempt = run[r].attempt
      /\ x.feedback = run[r].feedback
  BY <1>1 DEF RunType
<1> HIDE DEF x
<1>4. run'[r] = x /\ \A q \in Drafter : q # r => run'[q] = run[q]
  BY <1>1 DEF RInv, IInv
<1>5. PICK W, G, K : Way(W, G) /\ Tokens(G, K)
  BY DEF RInv
<1>6. /\ OneWay(W, bases, overlaps) /\ Follows(W, G) /\ G \subseteq Marked(overlaps)
      /\ Distinct(G) /\ Mirrors(G, answers) /\ K \in [Drafter -> 0..overlaps] /\ Alone(G, K)
  BY <1>5 DEF Way, Tokens
<1>7. PICK k : k = IF Overlapped THEN overlaps + 1 ELSE 0
  OBVIOUS
<1>8. k \in 0..overlaps' /\ overlaps <= overlaps' /\ overlaps' \in Nat
  BY <1>2, <1>7
<1>9. OneWay(W, bases', overlaps') /\ G \subseteq Marked(overlaps') /\ 0..overlaps \subseteq 0..overlaps'
  <2>1. PICK n : n = overlaps'
    OBVIOUS
  <2>2. OneWay(W, bases, n) /\ G \subseteq Marked(n) /\ 0..overlaps \subseteq 0..n
    <3>1. n \in Nat /\ overlaps \in Nat /\ overlaps <= n /\ bases \subseteq bases
      BY <1>2, <1>8, <2>1
    <3>2. OneWay(W, bases, overlaps) /\ G \subseteq Marked(overlaps)
      BY <1>6
    <3> QED
      BY <3>1, <3>2, RoomGrows
  <2> QED
    BY <1>2, <2>1, <2>2
<1>10. Way(W, G)'
  <2>1. \E w \in W : On(w, x)
    BY <1>2, <1>3, <1>5 DEF Way, RunWalks, On
  <2>2. RunWalks(W, G, x)
    BY <1>3, <2>1 DEF RunWalks
  <2>3. Mirrors(G, answers')
    BY <1>2, <1>6
  <2> QED
    BY <1>1, <1>2, <1>5, <1>6, <1>9, <2>2, <2>3, WayKept DEF RInv
<1> DEFINE L == [K EXCEPT ![r] = k]
<1>11. L \in [Drafter -> 0..overlaps'] /\ L[r] = k /\ \A q \in Drafter : q # r => L[q] = K[q]
  BY <1>6, <1>8, <1>9
<1> HIDE DEF L
<1>12. Asking' = Asking \cup {r} /\ r \notin Asking /\ Asking \subseteq Drafter
  BY <1>2, <1>3, <1>4 DEF Asking
<1>13. \A q \in Drafter : Prompt(q)' = Prompt(q)
  BY <1>3, <1>4 DEF Prompt
<1>14. \A g \in G : g.prompt # Prompt(r) /\ g.lane \in 0..overlaps
  <2>1. \A g \in G : [prompt |-> g.prompt, draft |-> g.draft] \in answers
    BY <1>6 DEF Mirrors
  <2>2. \A a \in answers : a.prompt # Prompt(r)
    BY DEF Miss, Cached
  <2>3. ASSUME NEW g \in G PROVE g.prompt # Prompt(r)
    <3>1. [prompt |-> g.prompt, draft |-> g.draft].prompt = g.prompt
      OBVIOUS
    <3> QED
      BY <2>1, <2>2, <3>1
  <2> QED
    BY <1>6, <2>3 DEF Marked
<1>15. ASSUME NEW q \in Asking PROVE K[q] # k \/ (k = 0 /\ Prompt(q) # Prompt(r))
  <2>1. K[q] \in 0..overlaps
    BY <1>6, <1>12
  <2>2. CASE Overlapped
    BY <1>2, <1>7, <2>1, <2>2
  <2>3. CASE ~Overlapped
    BY <1>7, <2>3 DEF Asking
  <2> QED
    BY <2>2, <2>3
<1> HIDE DEF Overlapped
<1>16. Alone(G, L)'
  <2>1. ASSUME NEW g \in G, g.lane = k PROVE k = 0 /\ g.prompt # Prompt(r)
    <3>1. g.lane \in 0..overlaps /\ g.prompt # Prompt(r)
      BY <1>14
    <3>2. k = 0
      BY <1>2, <1>7, <2>1, <3>1
    <3> QED
      BY <3>1, <3>2
  <2>2. ASSUME NEW q \in Asking' PROVE \A g \in G : g.lane = L[q] => L[q] = 0 /\ g.prompt # Prompt(q)
    <3>1. CASE q = r
      BY <1>11, <2>1, <3>1
    <3>2. CASE q # r
      <4>1. q \in Asking /\ L[q] = K[q]
        BY <1>11, <1>12, <3>2
      <4> QED
        BY <1>6, <4>1 DEF Alone
    <3> QED
      BY <3>1, <3>2
  <2>3. ASSUME NEW q \in Asking', NEW s \in Asking', L[s] = L[q], L[q] > 0 \/ Prompt(s) = Prompt(q)
        PROVE  s = q
    <3>1. CASE q = r /\ s # r
      BY <1>11, <1>12, <1>15, <2>3, <3>1
    <3>2. CASE q # r /\ s = r
      BY <1>11, <1>12, <1>15, <2>3, <3>2
    <3>3. CASE q # r /\ s # r
      <4>1. q \in Asking /\ s \in Asking /\ L[q] = K[q] /\ L[s] = K[s]
        BY <1>11, <1>12, <3>3
      <4> QED
        BY <1>6, <2>3, <4>1 DEF Alone
    <3> QED
      BY <3>1, <3>2, <3>3
  <2>4. Asking' \subseteq Drafter
    BY <1>12
  <2>5. \A q \in Asking' : \A g \in G : g.lane = L[q] => L[q] = 0 /\ g.prompt # Prompt(q)'
    BY <1>13, <2>2, <2>4
  <2>6. \A q, s \in Asking' : L[s] = L[q] /\ (L[q] > 0 \/ Prompt(s)' = Prompt(q)') => s = q
    BY <1>13, <2>3, <2>4
  <2> QED
    BY <2>5, <2>6 DEF Alone
<1>17. Bought(G, L)'
  <2>1. {q \in Drafter : run'[q].pc = "store"} = {q \in Drafter : run[q].pc = "store"}
    BY <1>2, <1>3, <1>4
  <2>2. \A q \in {s \in Drafter : run[s].pc = "store"} : L[q] = K[q] /\ Prompt(q)' = Prompt(q)
    BY <1>2, <1>11, <1>13
  <2>3. Bill(G, L)' = Bill(G, K)
    BY <2>1, <2>2 DEF Bill
  <2> QED
    BY <1>2, <1>5, <2>3 DEF Tokens, Bought
<1> QED
  BY <1>10, <1>11, <1>16, <1>17 DEF Goes, Tokens

\* An answer that is paid for is a new item of the bill.
LEMMA AnswerKeeps ==
  ASSUME RInv, NEW r \in Drafter, Answer(r)
  PROVE  Goes'
<1>1. PICK d \in Draft : run' = [run EXCEPT ![r] = [run[r] EXCEPT !.pc = "store", !.draft = d]]
  BY DEF Answer, RInv, IInv
<1> DEFINE x == [run[r] EXCEPT !.pc = "store", !.draft = d]
<1>2. /\ run[r].pc = "model" /\ UNCHANGED <<answers, row, bases, overlaps, lost>>
      /\ paid' = paid + 1
  BY DEF Answer, At
<1>3. run[r] \in RunType /\ run' = [run EXCEPT ![r] = x]
  BY <1>1 DEF RInv, IInv
<1>4. /\ x.pc = "store" /\ x.texts = run[r].texts /\ x.attempt = run[r].attempt
      /\ x.feedback = run[r].feedback
  BY <1>3 DEF RunType
<1> HIDE DEF x
<1>5. run'[r] = x /\ \A q \in Drafter : q # r => run'[q] = run[q]
  BY <1>3 DEF RInv, IInv
<1>6. PICK W, G, K : Way(W, G) /\ Tokens(G, K)
  BY DEF RInv
<1>7. Asking' = Asking /\ r \in Asking
  BY <1>2, <1>4, <1>5 DEF Asking
<1>8. \A q \in Drafter : Prompt(q)' = Prompt(q)
  BY <1>4, <1>5 DEF Prompt
<1>9. Alone(G, K)'
  BY <1>6, <1>7, <1>8 DEF Tokens, Alone, Asking
<1>10. {q \in Drafter : run'[q].pc = "store"} = {q \in Drafter : run[q].pc = "store"} \cup {r}
  BY <1>2, <1>4, <1>5
<1> DEFINE b == <<K[r], Prompt(r)>>
<1>11. Bill(G, K)' = Bill(G, K) \cup {b}
  <2>1. Bill(G, K)' = {<<g.lane, g.prompt>> : g \in G}
          \cup {<<K[q], Prompt(q)>> : q \in {o \in Drafter : run'[o].pc = "store"}}
    BY <1>8 DEF Bill
  <2> QED
    BY <1>10, <2>1 DEF Bill
<1>12. b \notin Bill(G, K)
  <2>1. \A g \in G : b # <<g.lane, g.prompt>>
    BY <1>6, <1>7 DEF Tokens, Alone
  <2>2. \A q \in Drafter : run[q].pc = "store" => b # <<K[q], Prompt(q)>>
    BY <1>2, <1>6, <1>7 DEF Tokens, Alone, Asking
  <2> QED
    BY <2>1, <2>2 DEF Bill
<1>13. PICK B : B = Bill(G, K)
  OBVIOUS
<1>14. IsFiniteSet(B)
  BY <1>6, <1>13, BillIsSmall
<1> HIDE DEF b
<1>15. Cardinality(B \cup {b}) = Cardinality(B) + 1 /\ Cardinality(B) \in Nat
  BY <1>12, <1>13, <1>14, FS_AddElement, FS_CardinalityType
<1>16. paid \in Nat /\ lost \in Nat /\ paid <= Cardinality(B) + lost
  BY <1>6, <1>13 DEF RInv, IInv, Tokens, Bought
<1>17. paid + 1 <= Cardinality(B \cup {b}) + lost
  BY <1>15, <1>16
<1>18. Bought(G, K)'
  BY <1>2, <1>11, <1>13, <1>17 DEF Bought
<1>19. Tokens(G, K)'
  BY <1>2, <1>6, <1>9, <1>18 DEF Tokens
<1>20. Way(W, G)'
  <2>1. \E w \in W : On(w, x)
    BY <1>2, <1>4, <1>6 DEF Way, RunWalks, On
  <2>2. RunWalks(W, G, x)
    BY <1>4, <2>1 DEF RunWalks
  <2>3. /\ OneWay(W, bases', overlaps') /\ Follows(W, G) /\ G \subseteq Marked(overlaps')
        /\ Distinct(G) /\ Mirrors(G, answers')
    BY <1>2, <1>6 DEF Way
  <2> QED
    BY <1>2, <1>3, <1>6, <2>2, <2>3, WayKept DEF RInv
<1> QED
  BY <1>19, <1>20 DEF Goes

\* An answer that is kept has its lane and its prompt to itself.
LEMMA StoreKeeps ==
  ASSUME RInv, NEW r \in Drafter, Store(r)
  PROVE  Goes'
<1> DEFINE d == run[r].draft
           x == Judged(run[r], d)
<1>1. /\ run[r] \in RunType /\ d \in Draft /\ run[r].pc = "store" /\ r \in Asking
      /\ run' = [run EXCEPT ![r] = x] /\ UNCHANGED <<row, paid, bases, overlaps, lost>>
      /\ answers' = answers \cup {[prompt |-> Prompt(r), draft |-> d]}
  BY DEF Store, Keep, At, Asking, RInv, IInv, RunsOK, RunOK, Body
<1>2. x.pc \notin {"model", "store"}
  BY <1>1 DEF Judged, GoRound, RunType
<1>3. run'[r] = x /\ \A q \in Drafter : q # r => run'[q] = run[q]
  BY <1>1 DEF RInv, IInv
<1>4. PICK W, G, K : Way(W, G) /\ Tokens(G, K)
  BY DEF RInv
<1>5. PICK g : g = [prompt |-> Prompt(r), draft |-> d, lane |-> K[r]]
  OBVIOUS
<1>6. /\ g.prompt = run[r].feedback /\ g.prompt = Prompt(r) /\ g.draft = d /\ g.lane = K[r]
      /\ g \in Marked(overlaps)
  BY <1>1, <1>4, <1>5 DEF Prompt, Tokens, Marked, RunType
<1> DEFINE H == G \cup {g}
<1> HIDE DEF x, d
<1>7. /\ OneWay(W, bases, overlaps) /\ Follows(W, G) /\ G \subseteq Marked(overlaps)
      /\ Distinct(G) /\ Mirrors(G, answers) /\ overlaps \in Nat
      /\ K \in [Drafter -> 0..overlaps] /\ Alone(G, K)
  BY <1>4 DEF Way, Tokens, RInv, IInv
<1>8. Asking' = Asking \ {r} /\ Asking \subseteq Drafter
  BY <1>1, <1>2, <1>3 DEF Asking
<1>9. \A q \in Drafter : q # r => Prompt(q)' = Prompt(q)
  BY <1>3 DEF Prompt
<1>10. Distinct(H)
  <2>1. \A h \in G : h.lane = g.lane => ~(g.lane > 0 \/ h.prompt = g.prompt)
    <3>1. \A h \in G : h.lane = K[r] => K[r] = 0 /\ h.prompt # Prompt(r)
      BY <1>1, <1>7 DEF Alone
    <3> QED
      BY <1>6, <3>1
  <2> QED
    BY <1>7, <2>1 DEF Distinct
<1>11. Mirrors(H, answers')
  BY <1>1, <1>5, <1>6, <1>7 DEF Mirrors
<1>12. H \subseteq Marked(overlaps) /\ G \subseteq H /\ g \in H
  BY <1>6, <1>7
<1>13. PICK w \in W : On(w, run[r])
  BY <1>1, <1>4 DEF Way, RunWalks
<1>14. Follows(W, H)
  BY <1>7, <1>12, FollowsGrow
<1> HIDE DEF H
<1>15. PICK V : /\ W \subseteq V /\ OneWay(V, bases, overlaps) /\ Follows(V, H)
                /\ RunWalks(V, H, Judged(run[r], g.draft))
  <2>1. /\ run[r] \in RunType /\ g.prompt = run[r].feedback /\ g \in H /\ overlaps \in Nat
        /\ H \subseteq Marked(overlaps) /\ OneWay(W, bases, overlaps)
    BY <1>1, <1>6, <1>7, <1>12
  <2> QED
    BY <1>10, <1>13, <1>14, <2>1, JudgedWalks
<1>16. OneWay(V, bases', overlaps') /\ RunWalks(V, H, x) /\ H \subseteq Marked(overlaps')
  BY <1>1, <1>6, <1>12, <1>15 DEF x
<1>17. \A h \in H \ G : \E v \in V : v.prompt = h.prompt
  BY <1>6, <1>13, <1>15 DEF H, On
<1>18. Way(V, H)'
  BY <1>1, <1>4, <1>10, <1>11, <1>12, <1>15, <1>16, <1>17, WayKept DEF RInv
<1>19. Alone(H, K)'
  <2>1. ASSUME NEW q \in Asking' PROVE K[q] = K[r] => K[q] = 0 /\ Prompt(q) # Prompt(r)
    <3>1. q \in Asking /\ q # r /\ K[q] \in 0..overlaps
      BY <1>7, <1>8
    <3>2. K[q] = K[r] => ~(K[r] > 0) /\ Prompt(q) # Prompt(r)
      BY <1>1, <1>7, <3>1 DEF Alone
    <3> QED
      BY <1>7, <3>1, <3>2
  <2>2. ASSUME NEW q \in Asking', NEW h \in H, h.lane = K[q] PROVE K[q] = 0 /\ h.prompt # Prompt(q)
    <3>1. CASE h = g
      BY <1>6, <2>1, <2>2, <3>1
    <3>2. CASE h \in G
      BY <1>7, <1>8, <2>2, <3>2 DEF Alone
    <3> QED
      BY <3>1, <3>2 DEF H
  <2>3. \A q \in Asking' : q \in Drafter /\ q # r
    BY <1>8
  <2>4. \A q \in Asking' : \A h \in H : h.lane = K[q] => K[q] = 0 /\ h.prompt # Prompt(q)'
    BY <1>9, <2>2, <2>3
  <2>5. \A q, s \in Asking' : K[s] = K[q] /\ (K[q] > 0 \/ Prompt(s) = Prompt(q)) => s = q
    BY <1>7, <1>8 DEF Alone
  <2>6. \A q, s \in Asking' : K[s] = K[q] /\ (K[q] > 0 \/ Prompt(s)' = Prompt(q)') => s = q
    BY <1>9, <2>3, <2>5
  <2> QED
    BY <2>4, <2>6 DEF Alone
<1>20. Bill(H, K)' = Bill(G, K)
  <2>1. {q \in Drafter : run'[q].pc = "store"} = {q \in Drafter : run[q].pc = "store"} \ {r}
    BY <1>2, <1>3
  <2>2. Bill(H, K)' = {<<h.lane, h.prompt>> : h \in G \cup {g}}
          \cup {<<K[q], Prompt(q)>> : q \in {o \in Drafter : run[o].pc = "store"} \ {r}}
    BY <1>9, <2>1 DEF Bill, H
  <2> QED
    BY <1>1, <1>6, <2>2 DEF Bill
<1>21. Tokens(H, K)'
  BY <1>1, <1>4, <1>19, <1>20 DEF Tokens, Bought
<1> QED
  BY <1>18, <1>21 DEF Goes

LEMMA UpsertKeeps ==
  ASSUME RInv, NEW r \in Drafter, Upsert(r)
  PROVE  Goes'
<1> DEFINE x == [run[r] EXCEPT !.pc = "lead"]
<1>1. /\ run[r] \in RunType /\ run[r].pc = "upsert" /\ run' = [run EXCEPT ![r] = x]
      /\ UNCHANGED <<answers, paid, bases, overlaps, lost>>
  BY DEF Upsert, Write, At, RInv, IInv
<1>2. x.pc = "lead"
  BY <1>1 DEF RunType
<1>3. PICK W, G, K : Way(W, G) /\ Tokens(G, K)
  BY DEF RInv
<1>4. Tokens(G, K)'
  BY <1>1, <1>2, <1>3, AskingStays DEF RInv
<1>5. Ends(W, G, run[r].texts, run[r].draft)
  BY <1>1, <1>3 DEF Way, RunWalks
<1>6. /\ row'.base = run[r].texts /\ row'.draft = run[r].draft
      /\ row'.status = IF Passes(run[r].draft, run[r].texts) THEN "awaiting_approval" ELSE "draft"
  BY DEF Upsert, Write
<1>7. RowWalks(W, G, row')
  BY <1>5, <1>6 DEF RowWalks
<1> HIDE DEF x
<1>8. ASSUME NEW q \in Drafter PROVE RunWalks(W, G, run'[q])
  <2>1. CASE q = r
    BY <1>1, <1>2, <2>1 DEF RunWalks, RInv, IInv
  <2>2. CASE q # r
    BY <1>1, <1>3, <2>2 DEF Way, RInv, IInv
  <2> QED
    BY <2>1, <2>2
<1>9. /\ OneWay(W, bases', overlaps') /\ Follows(W, G) /\ G \subseteq Marked(overlaps')
      /\ Distinct(G) /\ Mirrors(G, answers') /\ \A g \in G : \E w \in W : w.prompt = g.prompt
  BY <1>1, <1>3 DEF Way
<1>10. Way(W, G)'
  BY <1>7, <1>8, <1>9 DEF Way
<1> QED
  BY <1>4, <1>10 DEF Goes

\* What a killed run had asked for is off the bill, at the price of a loss.
LEMMA LeaveKeeps ==
  ASSUME RInv, NEW r \in Drafter, MarkLead(r) \/ Kill(r)
  PROVE  Goes'
<1>1. run' = [run EXCEPT ![r] = Idle] /\ UNCHANGED <<answers, row, paid, bases, overlaps>>
  BY DEF MarkLead, Kill
<1>2. Idle.pc = "idle"
  BY DEF Idle
<1>3. PICK W, G, K : Way(W, G) /\ Tokens(G, K)
  BY DEF RInv
<1>4. RunWalks(W, G, Idle)
  BY <1>2 DEF RunWalks
<1>5. /\ OneWay(W, bases', overlaps') /\ Follows(W, G) /\ G \subseteq Marked(overlaps')
      /\ Distinct(G) /\ Mirrors(G, answers')
  BY <1>1, <1>3 DEF Way
<1>6. Way(W, G)'
  BY <1>1, <1>3, <1>4, <1>5, WayKept DEF RInv
<1>7. CASE run[r].pc \notin {"model", "store"}
  <2>1. UNCHANGED lost
    BY <1>7 DEF MarkLead, Kill
  <2>2. Tokens(G, K)'
    BY <1>1, <1>2, <1>3, <1>7, <2>1, AskingStays DEF RInv
  <2> QED
    BY <1>6, <2>2 DEF Goes
<1>8. CASE run[r].pc \in {"model", "store"}
  <2>1. lost' = lost + 1
    BY <1>8 DEF MarkLead, Kill, At
  <2>2. run'[r].pc = "idle" /\ \A q \in Drafter : q # r => run'[q] = run[q]
    BY <1>1, <1>2 DEF RInv, IInv
  <2>3. Asking' = Asking \ {r}
    BY <2>2 DEF Asking
  <2>4. \A q \in Drafter : q # r => Prompt(q)' = Prompt(q)
    BY <2>2 DEF Prompt
  <2>5. Alone(G, K)'
    BY <1>3, <2>3, <2>4 DEF Tokens, Alone, Asking
  <2>6. {q \in Drafter : run'[q].pc = "store"} = {q \in Drafter : run[q].pc = "store"} \ {r}
    BY <2>2
  <2>7. Bill(G, K)' = {<<g.lane, g.prompt>> : g \in G}
          \cup {<<K[q], Prompt(q)>> : q \in {o \in Drafter : run[o].pc = "store"} \ {r}}
    BY <2>4, <2>6 DEF Bill
  <2>8. PICK b : b = <<K[r], Prompt(r)>>
    OBVIOUS
  <2>9. PICK B, C : B = Bill(G, K) /\ C = Bill(G, K)'
    OBVIOUS
  <2>10. B \ {b} \subseteq C /\ C \subseteq B
    BY <2>7, <2>8, <2>9 DEF Bill
  <2>11. IsFiniteSet(B)
    BY <1>3, <2>9, BillIsSmall
  <2>12. /\ IsFiniteSet(C) /\ Cardinality(B \ {b}) <= Cardinality(C)
         /\ Cardinality(B) \in Nat /\ Cardinality(C) \in Nat /\ Cardinality(B \ {b}) \in Nat
    BY <2>10, <2>11, FS_Subset, FS_CardinalityType
  <2>13. Cardinality(B) <= Cardinality(B \ {b}) + 1
    <3>1. Cardinality(B \ {b}) = IF b \in B THEN Cardinality(B) - 1 ELSE Cardinality(B)
      BY <2>11, FS_RemoveElement
    <3> QED
      BY <2>12, <3>1
  <2>14. paid \in Nat /\ lost \in Nat /\ paid <= Cardinality(B) + lost
    BY <1>3, <2>9 DEF RInv, IInv, Tokens, Bought
  <2>15. paid <= Cardinality(C) + (lost + 1)
    BY <2>12, <2>13, <2>14
  <2>16. Bought(G, K)'
    BY <1>1, <2>1, <2>9, <2>15 DEF Bought
  <2>17. Tokens(G, K)'
    BY <1>1, <1>3, <2>5, <2>16 DEF Tokens
  <2> QED
    BY <1>6, <2>17 DEF Goes
<1> QED
  BY <1>7, <1>8

LEMMA RInvStep ==
  ASSUME RInv, [Next]_vars
  PROVE  RInv'
<1>1. IInv'
  BY IInvStep DEF RInv
<1>2. IsFiniteSet(bases)'
  <2>1. ASSUME NEW r \in Drafter, Begin(r) PROVE IsFiniteSet(bases')
    BY <2>1, BeginKeeps
  <2>2. CASE UNCHANGED bases
    BY <2>2 DEF RInv
  <2> QED
    BY <2>1, <2>2 DEF Next, Ask, Hit, Miss, ToModel, Answer, Store, Keep, Upsert, Write,
       MarkLead, Kill, Learn, vars
<1>3. Goes'
  <2>1. CASE UNCHANGED <<run, answers, row, paid, bases, overlaps, lost>>
    <3>1. PICK W, G, K : Way(W, G) /\ Tokens(G, K)
      BY DEF RInv
    <3>2. Way(W, G)'
      BY <2>1, <3>1 DEF Way
    <3>3. Tokens(G, K)'
      BY <2>1, <3>1 DEF Tokens, Alone, Asking, Prompt, Bought, Bill
    <3> QED
      BY <3>2, <3>3 DEF Goes
  <2>2. Learn \/ UNCHANGED vars => UNCHANGED <<run, answers, row, paid, bases, overlaps, lost>>
    BY DEF Learn, vars
  <2> QED
    BY <2>1, <2>2, BeginKeeps, HitKeeps, MissKeeps, AnswerKeeps, StoreKeeps,
       UpsertKeeps, LeaveKeeps DEF Next, Ask
<1> QED
  BY <1>1, <1>2, <1>3 DEF RInv, Goes

\* Drafts made again after crashes are not paid for again: a set of attempts for each
\* state of the evidence, one more of each for every overlap, and what was lost.
THEOREM RedraftCostTheorem == Spec => []RedraftIsFree
<1>1. RInv => RedraftIsFree
  <2> SUFFICES ASSUME RInv PROVE RedraftIsFree
    OBVIOUS
  <2>1. PICK W, G, K : Way(W, G) /\ Tokens(G, K)
    BY DEF RInv
  <2> DEFINE n == (MaxRegenerations + 1) * Cardinality(bases) * (1 + overlaps)
  <2>2. PICK B : B = Bill(G, K)
    OBVIOUS
  <2>3. IsFiniteSet(B) /\ Cardinality(B) <= n
    BY <2>1, <2>2, BillIsSmall
  <2>4. n \in Int
    <3>1. Cardinality(bases) \in Nat /\ overlaps \in Nat /\ MaxRegenerations \in Nat
      BY FS_CardinalityType, DraftLoopAssumption DEF RInv, IInv
    <3>2. ASSUME NEW c \in Nat, NEW o \in Nat, NEW m \in Nat PROVE (m + 1) * c * (1 + o) \in Int
      OBVIOUS
    <3> QED
      BY <3>1, <3>2
  <2>5. paid \in Nat /\ lost \in Nat /\ paid <= Cardinality(B) + lost
    BY <2>1, <2>2 DEF RInv, IInv, Tokens, Bought
  <2>6. Cardinality(B) \in Nat
    BY <2>3, FS_CardinalityType
  <2>7. RedraftIsFree <=> paid <= n + lost
    BY DEF RedraftIsFree
  <2> HIDE DEF n
  <2>8. paid <= n + lost
    BY <2>3, <2>4, <2>5, <2>6
  <2> QED
    BY <2>7, <2>8
<1> QED
  BY RInvInit, RInvStep, <1>1, PTL DEF Spec

\* A row is written over by the text and the verdict it has, unless the evidence has
\* changed or two runs asked for one answer at a time.
THEOREM RedraftKeepsTextTheorem == Spec => RedraftKeepsText
<1> DEFINE Kept ==
      row # NoRow /\ row' # row =>
        \/ row'.draft = row.draft /\ row'.status = row.status
        \/ row'.base # row.base \/ overlaps > 0
<1>1. ASSUME RInv, [Next]_vars PROVE [Kept]_vars
  <2> SUFFICES ASSUME row # NoRow, row' # row, row'.base = row.base, ~(overlaps > 0)
               PROVE  row'.draft = row.draft /\ row'.status = row.status
    OBVIOUS
  <2>1. overlaps = 0
    BY <1>1 DEF RInv, IInv
  <2>2. PICK r \in Drafter : Upsert(r)
    BY <1>1 DEF Next, Ask, Begin, Hit, Miss, ToModel, Answer, Store, Keep,
       MarkLead, Kill, Learn, vars
  <2>3. /\ run[r].pc = "upsert" /\ row'.base = run[r].texts /\ row'.draft = run[r].draft
        /\ row'.status = IF Passes(run[r].draft, run[r].texts) THEN "awaiting_approval" ELSE "draft"
    BY <2>2 DEF Upsert, Write, At
  <2>4. PICK W, G : Way(W, G)
    BY <1>1 DEF RInv
  <2>5. /\ Ends(W, G, row.base, row.draft)
        /\ row.status = IF Passes(row.draft, row.base) THEN "awaiting_approval" ELSE "draft"
    BY <2>4 DEF Way, RowWalks
  <2>6. Ends(W, G, row.base, run[r].draft)
    BY <2>3, <2>4 DEF Way, RunWalks
  <2>7. OneWay(W, bases, 0) /\ Follows(W, G) /\ G \subseteq Marked(0) /\ Distinct(G)
    BY <2>1, <2>4 DEF Way
  <2>8. row.draft = run[r].draft
    BY <2>5, <2>6, <2>7, OneEnd
  <2> QED
    BY <2>3, <2>5, <2>8
<1> QED
  BY RInvInit, RInvStep, <1>1, PTL DEF Spec, RedraftKeepsText

-----------------------------------------------------------------------------
(* What drafting is to the pipeline *)

Stored == {r \in Drafter : run[r].pc = "lead"}

\* A run is among those that have stored a draft by where it is.
LEMMA StoredMoves ==
  ASSUME IInv, NEW r \in Drafter, NEW x, run' = [run EXCEPT ![r] = x]
  PROVE  /\ Stored' = IF x.pc = "lead" THEN Stored \cup {r} ELSE Stored \ {r}
         /\ r \in Stored <=> run[r].pc = "lead"
BY DEF IInv, Stored

LEMMA IdleHasStored == Idle.pc # "lead"
BY DEF Idle

\* A run that asks for an answer, or goes round with it, is none of these statements.
LEMMA AskIsSilent ==
  ASSUME IInv, NEW r \in Drafter, Begin(r) \/ Ask(r)
  PROVE  UNCHANGED <<Stored, row, waiting>>
<1>1. UNCHANGED <<row, waiting>>
  BY DEF Begin, Ask, Hit, Miss, ToModel, Answer, Store, Keep
<1>2. ASSUME NEW x, NEW d PROVE Judged(x, d).pc # "lead" \/ x \notin RunType
  BY DEF Judged, GoRound, RunType
<1>3. run[r] \in RunType /\ run[r].pc # "lead"
  BY DEF IInv, Begin, Ask, Hit, Miss, Answer, Store, Keep, At
<1>4. \E x : run' = [run EXCEPT ![r] = x] /\ x.pc # "lead"
  <2>1. CASE Begin(r)
    <3>1. PICK texts \in SUBSET facts :
            run' = [run EXCEPT ![r] = [Idle EXCEPT !.pc = "read", !.texts = texts \cup Profile]]
      BY <2>1 DEF Begin
    <3>2. [Idle EXCEPT !.pc = "read", !.texts = texts \cup Profile].pc = "read"
      BY DEF Idle
    <3> QED
      BY <3>1, <3>2
  <2>2. CASE Hit(r)
    <3>1. PICK d \in Cached(Prompt(r)) : run' = [run EXCEPT ![r] = Judged(run[r], d)]
      BY <2>2 DEF Hit, IInv
    <3> QED
      BY <1>2, <1>3, <3>1
  <2>3. CASE Miss(r)
    <3>1. run' = [run EXCEPT ![r] = [run[r] EXCEPT !.pc = "model"]]
      BY <2>3 DEF Miss, ToModel, IInv
    <3>2. [run[r] EXCEPT !.pc = "model"].pc = "model"
      BY <1>3 DEF RunType
    <3> QED
      BY <3>1, <3>2
  <2>4. CASE Answer(r)
    <3>1. PICK d \in Draft : run' = [run EXCEPT ![r] = [run[r] EXCEPT !.pc = "store", !.draft = d]]
      BY <2>4 DEF Answer, IInv
    <3>2. [run[r] EXCEPT !.pc = "store", !.draft = d].pc = "store"
      BY <1>3 DEF RunType
    <3> QED
      BY <3>1, <3>2
  <2>5. CASE Store(r)
    <3>1. run' = [run EXCEPT ![r] = Judged(run[r], run[r].draft)]
      BY <2>5 DEF Store, Keep, IInv
    <3> QED
      BY <1>2, <1>3, <3>1
  <2> QED
    BY <2>1, <2>2, <2>3, <2>4, <2>5 DEF Ask
<1>5. Stored' = Stored \ {r} /\ r \notin Stored
  BY <1>3, <1>4, StoredMoves
<1> QED
  BY <1>1, <1>5

LEMMA DraftingStep ==
  ASSUME IInv, [Next]_vars
  PROVE  [Drafting!DraftingNext]_<<Stored, row # NoRow, waiting>>
<1> DEFINE Seen == <<Stored, row # NoRow, waiting>>
<1>1. ASSUME NEW r \in Drafter, Begin(r) \/ Ask(r) PROVE UNCHANGED Seen
  BY <1>1, AskIsSilent
<1>2. ASSUME NEW r \in Drafter, Upsert(r) PROVE Drafting!StoreDraft(r)
  <2>1. run[r] \in RunType /\ run[r].pc = "upsert" /\ run' = [run EXCEPT ![r] = [run[r] EXCEPT !.pc = "lead"]]
    BY <1>2 DEF Upsert, Write, At, IInv
  <2> DEFINE x == [run[r] EXCEPT !.pc = "lead"]
  <2>2. x.pc = "lead" /\ run[r].pc # "lead"
    BY <2>1 DEF RunType
  <2> HIDE DEF x
  <2>3. run' = [run EXCEPT ![r] = x]
    BY <2>1 DEF x
  <2>4. r \notin Stored /\ Stored' = Stored \cup {r}
    BY <2>2, <2>3, StoredMoves
  <2>5. row' # NoRow /\ waiting' = waiting
    BY <1>2 DEF Upsert, Write, NoRow
  <2> QED
    BY <2>4, <2>5 DEF Drafting!StoreDraft, Stored
<1>3. ASSUME NEW r \in Drafter, MarkLead(r) PROVE Drafting!MarkAwaitingApproval(r)
  <2>1. run[r].pc = "lead" /\ run' = [run EXCEPT ![r] = Idle] /\ row' = row /\ waiting' = TRUE
    BY <1>3 DEF MarkLead, At
  <2>2. r \in Stored /\ Stored' = Stored \ {r}
    BY <2>1, IdleHasStored, StoredMoves
  <2> QED
    BY <2>1, <2>2 DEF Drafting!MarkAwaitingApproval, Stored
<1>4. ASSUME NEW r \in Drafter, Kill(r) PROVE Drafting!Leave(r) \/ UNCHANGED Seen
  <2>1. run' = [run EXCEPT ![r] = Idle] /\ row' = row /\ waiting' = waiting
    BY <1>4 DEF Kill
  <2>2. Stored' = Stored \ {r}
    BY <2>1, IdleHasStored, StoredMoves
  <2>3. CASE r \in Stored
    BY <2>1, <2>2, <2>3 DEF Drafting!Leave, Stored
  <2>4. CASE r \notin Stored
    BY <2>1, <2>2, <2>4
  <2> QED
    BY <2>3, <2>4
<1>5. CASE Learn \/ UNCHANGED vars
  BY <1>5 DEF Learn, vars, Stored
<1> QED
  BY <1>1, <1>2, <1>3, <1>4, <1>5 DEF Next, Drafting!DraftingNext

LEMMA DraftingStarts == Init => Drafting!DraftingInit
<1> SUFFICES ASSUME Init PROVE Drafting!DraftingInit
  OBVIOUS
<1>1. {r \in Drafter : run[r].pc = "lead"} = {}
  BY DEF Init, Idle
<1>2. waiting = FALSE
  BY Zenon DEF Init
<1> QED
  BY <1>1, <1>2, Zenon DEF Drafting!DraftingInit

\* Whatever the model answers and wherever its runs stop, drafting is a row that is
\* written and a lead that is marked after it.
THEOREM DraftingTheorem == Spec => ImplementsDrafting
<1>1. IInv /\ [Next]_vars => [Drafting!DraftingNext]_(Drafting!draftingVars)
  BY DraftingStep DEF Drafting!draftingVars, Stored
<1> QED
  BY IInvInit, IInvStep, DraftingStarts, <1>1, PTL DEF Spec, ImplementsDrafting, Drafting!DraftingSpec
=============================================================================
