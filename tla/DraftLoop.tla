------------------------------ MODULE DraftLoop ------------------------------
(***************************************************************************)
(* generate_draft of agents/a7_generate.py for one lead: the answers of the *)
(* model, the quality gate (quality/linter.py, quality/grounding.py) that   *)
(* each must pass, and the row the last one becomes.  The worker and a      *)
(* cold-mailer run may draft the same lead at one time.  A draft is what    *)
(* the gate measures of it.  Of the linter the errors are kept: a warning   *)
(* decides nothing.  How the LLM cache is read and filled is in LlmClient;   *)
(* here it is the answers it may give to a prompt.                           *)
(***************************************************************************)
EXTENDS Integers, FiniteSets, Sequences

CONSTANTS
  Drafter,          \* the runs of generate_draft that may be under way at one time
  Draft,            \* what the model may answer
  NoDraft,          \* no answer yet
  Text,             \* the texts the company's evidence may come to hold
  Profile,          \* the texts of the candidate's profile
  WordsOf,          \* the content words of each text
  EvidenceLimit,    \* LIMIT of the SELECT on evidence
  MaxRegenerations,
  MaxLost           \* the bound on answers that are lost on the way to the cache

\* A draft is what the gate measures: the deny-list entries in it, its words and
\* dashes, whether it has bold titles, which subjects shout, and its citations.
ASSUME DraftLoopAssumption ==
  /\ MaxRegenerations \in Nat
  /\ NoDraft \notin Draft
  /\ \A d \in Draft : {d.words, d.dashes} \subseteq Nat /\ d.bold \in BOOLEAN
  /\ \A d \in Draft : \A c \in d.citations : IsFiniteSet(c.words)

VARIABLES
  run,       \* the runs under way
  facts,     \* the evidence rows of its company
  answers,   \* the answers the LLM cache holds, each with its prompt
  row,       \* the lead's row of drafts
  waiting,   \* leads.status is awaiting_approval
  paid,      \* history: the answers paid for
  bases,     \* history: the texts that runs have judged by
  overlaps,  \* history: prompts asked while another run was asking them
  lost       \* history: answers lost with the run that asked for them

vars == <<run, facts, answers, row, waiting, paid, bases, overlaps, lost>>

-----------------------------------------------------------------------------
(* The quality gate *)

\* round(words / 300): halves go to the even neighbour.
Rounded(words) ==
  LET q == words \div 300
      r == words % 300
  IN IF r > 150 \/ (r = 150 /\ q % 2 = 1) THEN q + 1 ELSE q

DashLimit(words) == IF Rounded(words) > 1 THEN Rounded(words) ELSE 1

\* An error of the linter: its rule and the numbers its message quotes.
Finding(rule, detail) == [rule |-> rule, detail |-> detail]
When(condition, finding) == IF condition THEN {finding} ELSE {}

LintBody(d) ==
  {Finding("banned", <<b>>) : b \in d.banned}
    \cup When(d.dashes > DashLimit(d.words), Finding("em_dash_density", <<d.dashes, d.words>>))
    \cup When(d.bold, Finding("bold_title_list", <<>>))

LintSubjects(d) == {Finding("subject_punctuation", <<i>>) : i \in d.urgent}

LintDraft(d) == LintBody(d) \cup LintSubjects(d)

\* A quote is the texts it is found in word for word, and its content words.
QuoteSupported(quote, texts) ==
  LET known == UNION {WordsOf[t] : t \in texts}
  IN \/ quote.in \cap texts # {}
     \/ /\ Cardinality(quote.words) >= 3
        /\ 100 * Cardinality(quote.words \cap known) >= 55 * Cardinality(quote.words)

Ungrounded(d, texts) == {c \in d.citations : ~QuoteSupported(c, texts)}

Passes(d, texts) == LintDraft(d) = {} /\ Ungrounded(d, texts) = {}

-----------------------------------------------------------------------------
(* The loop *)

\* The prompt of an attempt: the lead's fit, which does not change here, and what
\* was wrong with the draft before.
NoFeedback == [issues |-> {}, claims |-> {}]
Feedback(d, texts) == [issues |-> LintDraft(d), claims |-> Ungrounded(d, texts)]

\* pc: "read", "store": complete_structured looks for the prompt in its cache and
\* keeps a new answer; "model": the model is asked; "upsert": INSERT INTO drafts;
\* "lead": UPDATE leads.
Idle == [pc |-> "idle", texts |-> {}, attempt |-> 0, feedback |-> NoFeedback,
         draft |-> NoDraft]

At(r, pc) == run[r].pc = pc
Prompt(r) == run[r].feedback
Cached(prompt) == {a.draft : a \in {b \in answers : b.prompt = prompt}}

NoRow == [status |-> "none"]

Init ==
  /\ run = [r \in Drafter |-> Idle]
  /\ facts \in SUBSET Text
  /\ answers = {} /\ row = NoRow /\ waiting = FALSE
  /\ paid = 0 /\ bases = {} /\ overlaps = 0 /\ lost = 0

\* _load_fit_and_evidence.  LIMIT without an ORDER BY: any of the rows.
Begin(r) ==
  /\ At(r, "idle")
  /\ \E texts \in SUBSET facts :
       /\ \/ Cardinality(texts) = EvidenceLimit
          \/ texts = facts /\ Cardinality(facts) < EvidenceLimit
       /\ run' = [run EXCEPT ![r] = [Idle EXCEPT !.pc = "read", !.texts = texts \cup Profile]]
       /\ bases' = bases \cup {texts \cup Profile}
  /\ UNCHANGED <<facts, answers, row, waiting, paid, overlaps, lost>>

\* Run x has draft d: the loop ends, or goes round with what was wrong with it.
GoRound(x, d) ==
  [x EXCEPT !.pc = "read", !.attempt = @ + 1, !.feedback = Feedback(d, x.texts), !.draft = NoDraft]

\* Mutant: a draft that fails to the end leaves its lead to a human and no row.
JudgedStored(x, d) ==
  IF Passes(d, x.texts) THEN [x EXCEPT !.pc = "upsert", !.draft = d]
  ELSE IF x.attempt = MaxRegenerations THEN [x EXCEPT !.pc = "lead", !.draft = d] ELSE GoRound(x, d)

Judged(x, d) ==
  IF Passes(d, x.texts) \/ x.attempt = MaxRegenerations
  THEN [x EXCEPT !.pc = "upsert", !.draft = d] ELSE GoRound(x, d)

Hit(r) ==
  /\ At(r, "read")
  /\ \E d \in Cached(Prompt(r)) : run' = [run EXCEPT ![r] = Judged(@, d)]
  /\ UNCHANGED <<facts, answers, row, waiting, paid, bases, overlaps, lost>>

ToModel(r) ==
  /\ run' = [run EXCEPT ![r].pc = "model"]
  /\ overlaps' = overlaps +
       IF \E o \in Drafter : run[o].pc \in {"model", "store"} /\ Prompt(o) = Prompt(r) THEN 1 ELSE 0
  /\ UNCHANGED <<facts, answers, row, waiting, paid, bases, lost>>

\* Mutant: a regeneration does not look for an answer it has.
MissOnRegeneration(r) ==
  /\ At(r, "read")
  /\ Cached(Prompt(r)) = {} \/ run[r].attempt > 0
  /\ ToModel(r)

Miss(r) ==
  /\ At(r, "read")
  /\ Cached(Prompt(r)) = {}
  /\ ToModel(r)

Answer(r) ==
  /\ At(r, "model")
  /\ \E d \in Draft : run' = [run EXCEPT ![r] = [@ EXCEPT !.pc = "store", !.draft = d]]
  /\ paid' = paid + 1
  /\ UNCHANGED <<facts, answers, row, waiting, bases, overlaps, lost>>

Keep(r, kept) ==
  /\ At(r, "store")
  /\ answers' = answers \cup {[prompt |-> Prompt(r), draft |-> d] : d \in kept}
  /\ run' = [run EXCEPT ![r] = Judged(@, run[r].draft)]
  /\ UNCHANGED <<facts, row, waiting, paid, bases, overlaps, lost>>

\* Mutant: an answer that fails the gate is not kept.
StorePassing(r) == Keep(r, {d \in {run[r].draft} : Passes(d, run[r].texts)})

\* The table keeps the first answer and Redis the last; a run goes on with its own.
Store(r) == Keep(r, {run[r].draft})

\* Every column of the row is replaced.
Write(r, ok) ==
  /\ At(r, "upsert")
  /\ row' = [status |-> IF ok THEN "awaiting_approval" ELSE "draft",
             draft |-> run[r].draft,
             regen |-> IF ok THEN run[r].attempt ELSE run[r].attempt + 1,
             base |-> run[r].texts]
  /\ run' = [run EXCEPT ![r].pc = "lead"]
  /\ UNCHANGED <<facts, answers, waiting, paid, bases, overlaps, lost>>

\* Mutant: the status follows the linter alone.
UpsertLinted(r) == Write(r, LintDraft(run[r].draft) = {})

Upsert(r) == Write(r, Passes(run[r].draft, run[r].texts))

\* Whatever the verdict was.
MarkLead(r) ==
  /\ At(r, "lead")
  /\ waiting' = TRUE
  /\ run' = [run EXCEPT ![r] = Idle]
  /\ UNCHANGED <<facts, answers, row, paid, bases, overlaps, lost>>

\* The process is killed, or a call raises; an answer that was on its way is lost.
Kill(r) ==
  /\ ~At(r, "idle")
  /\ run' = [run EXCEPT ![r] = Idle]
  /\ \/ run[r].pc \in {"model", "store"} /\ lost < MaxLost /\ lost' = lost + 1
     \/ run[r].pc \notin {"model", "store"} /\ UNCHANGED lost
  /\ UNCHANGED <<facts, answers, row, waiting, paid, bases, overlaps>>

\* Research stores another text.
Learn ==
  /\ \E t \in Text \ facts : facts' = facts \cup {t}
  /\ UNCHANGED <<run, answers, row, waiting, paid, bases, overlaps, lost>>

Ask(r) == Hit(r) \/ Miss(r) \/ Answer(r) \/ Store(r)
Next ==
  \/ \E r \in Drafter : Begin(r) \/ Ask(r) \/ Upsert(r) \/ MarkLead(r) \/ Kill(r)
  \/ Learn

Spec == Init /\ [][Next]_vars
-----------------------------------------------------------------------------
(* Properties *)

TypeOK ==
  /\ \A r \in Drafter :
       /\ run[r].pc \in {"idle", "read", "model", "store", "upsert", "lead"}
       /\ run[r].attempt \in 0..MaxRegenerations
       /\ run[r].texts \subseteq facts \cup Profile
       /\ run[r].draft \in IF run[r].pc \in {"store", "upsert", "lead"} THEN Draft ELSE {NoDraft}
  /\ facts \subseteq Text
  /\ \A a \in answers : a.draft \in Draft
  /\ row = NoRow \/ row.draft \in Draft
  /\ waiting \in BOOLEAN /\ {paid, overlaps, lost} \subseteq Nat

\* What the gate is for, said without it: no word of the deny list, no bold list,
\* no shouting subject, at most one dash or one per 300 words to the nearest, and
\* of every quote more stands in the evidence than does not.
Presentable(d, texts) ==
  /\ d.banned = {} /\ d.urgent = {} /\ ~d.bold
  /\ d.dashes <= 1 \/ 600 * d.dashes <= 2 * d.words + 300
  /\ \A c \in d.citations :
       \/ \E t \in texts : t \in c.in
       \/ LET found == {w \in c.words : \E t \in texts : w \in WordsOf[t]}
          IN Cardinality(found) > Cardinality(c.words \ found)

\* A row that awaits approval is presentable by the evidence there is, however
\* many runs wrote it and whatever the cache answered; one that failed had all
\* its attempts.
GateHolds ==
  /\ row.status = "awaiting_approval" => Presentable(row.draft, facts \cup Profile)
  /\ row.status = "draft" => row.regen = MaxRegenerations + 1

\* However often a draft is made again after crashes, it is not paid for again: one
\* set of attempts for each state of the evidence, and an answer more for each that
\* was lost.  Two runs that ask for one answer at a time may each get their own, and
\* drafting goes on from both: a set of attempts more for each overlap.
RedraftIsFree ==
  paid <= (MaxRegenerations + 1) * Cardinality(bases) * (1 + overlaps) + lost

\* A run repeated after a crash, or beside another, writes the text that is there
\* already, which may have been read or approved, unless there is new evidence or
\* two runs asked for one answer at a time.
RedraftKeepsText ==
  [][row # NoRow /\ row' # row =>
       \/ row'.draft = row.draft /\ row'.status = row.status
       \/ row'.base # row.base \/ overlaps > 0]_vars

Drafting == INSTANCE Drafting
  WITH stored <- {r \in Drafter : run[r].pc = "lead"}, drafted <- row # NoRow

\* However many answers it takes and wherever its runs stop, generate_draft is to
\* the pipeline two statements: the row, then the lead.
ImplementsDrafting == Drafting!DraftingSpec
=============================================================================
