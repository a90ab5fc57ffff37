----------------------------- MODULE LeadPipeline -----------------------------
(***************************************************************************)
(* From a file of addresses to a draft: cold-mailer ingest (cli.py, agents/ *)
(* a0_ingest.py), the research of a company (agents/company_research.py and *)
(* A1 to A4), the fit of a lead (a5_fit.py) and its draft (a7_generate.py). *)
(* Research is done per company and everything after it per lead, so one    *)
(* research_company task fans out to the leads of its company; all tasks    *)
(* are jobs of WorkQueue.  A handler stops between any two of its statements,*)
(* since each commits on its own, and whatever it has done is then redone.  *)
(***************************************************************************)
EXTENDS Integers, FiniteSets

CONSTANTS
  Lead, Company,
  CompanyOf,     \* CompanyOf[l]: the company of the domain of l's address
  Unusable,      \* the leads whose address is malformed or disposable
  Ingest,        \* the invocations of cold-mailer ingest
  RowsOf,        \* RowsOf[i]: the addresses in the file of i, after dedupe
  Failing,       \* the tasks whose handler may raise in this instance
  Parallel,      \* the handlers that run at once: BATCH_SIZE for each worker
  MaxAttempts,   \* tasks.max_attempts
  MaxFaults      \* the bound on killed processes

ASSUME LeadPipelineAssumption ==
  /\ CompanyOf \in [Lead -> Company]
  /\ Unusable \subseteq Lead
  /\ RowsOf \in [Ingest -> SUBSET Lead]
  /\ {Parallel, MaxAttempts} \subseteq Nat \ {0}
  /\ MaxFaults \in Nat

VARIABLES
  job, tries,   \* the tasks, as WorkQueue sees them
  pc,           \* pc[t]: the statement the handler of t has come to
  todo,         \* todo[c]: the leads research_company(c) has yet to enqueue
  basis,        \* basis[l]: what synthesize_fit(l) has read of the company
  company,      \* companies: the columns research has filled
  lead,         \* leads.status, up to the approval queue
  fit,          \* fit_analyses: the company columns the row was made from; {} without a row
  draft,        \* the leads with a drafts row
  file,         \* the invocations of ingest
  research,     \* history: how often research_company(c) was started
  faults        \* killed processes so far

queueVars == <<job, tries>>
handlerVars == <<pc, todo, basis>>
tableVars == <<company, lead, fit, draft>>
vars == <<queueVars, handlerVars, tableVars, file, research, faults>>

Research(c) == <<"research_company", c>>
Fit(l) == <<"synthesize_fit", l>>
Draft(l) == <<"generate_draft", l>>
Task == {Research(c) : c \in Company} \cup {Fit(l) : l \in Lead} \cup {Draft(l) : l \in Lead}

Queue == INSTANCE WorkQueue

Column == {"profile", "intel", "jobs", "classification"}
LeadStatus == {"absent", "suppressed", "validated", "ready", "awaiting_approval"}
HandlerPc == Column \cup {"none", "select", "fanout", "load", "store", "lead", "enqueue", "return"}

\* What an invocation of ingest has left to do: the valid and the invalid rows
\* to store, then the companies whose research it enqueues.
File == [started : BOOLEAN, valid : SUBSET Lead, invalid : SUBSET Lead, touched : SUBSET Company]
Unread == [started |-> FALSE, valid |-> {}, invalid |-> {}, touched |-> {}]
Ended == [Unread EXCEPT !.started = TRUE]

Init ==
  /\ Queue!QueueInit
  /\ pc = [t \in Task |-> "none"]
  /\ todo = [c \in Company |-> {}]
  /\ basis = [l \in Lead |-> {}]
  /\ company = [c \in Company |-> {}]
  /\ lead = [l \in Lead |-> "absent"]
  /\ fit = [l \in Lead |-> {}]
  /\ draft = {}
  /\ file = [i \in Ingest |-> Unread]
  /\ research = [c \in Company |-> 0]
  /\ faults = 0

-----------------------------------------------------------------------------
(* Helpers *)

Running == {t \in Task : pc[t] # "none"}
Goto(t, next) == pc' = [pc EXCEPT ![t] = next]

\* Mutant: ON CONFLICT (dedupe_key) DO UPDATE SET status = 'pending'.
EnqueueTaskAgain(t) ==
  /\ job' = IF job[t] \in {"absent", "over"} THEN [job EXCEPT ![t] = "queued"] ELSE job
  /\ UNCHANGED tries

\* enqueue_task: a dedupe_key that is taken, by a finished task too, is left alone.
EnqueueTask(t) == IF job[t] = "absent" THEN Queue!Submit(t) ELSE UNCHANGED queueVars

-----------------------------------------------------------------------------
(* cold-mailer ingest *)

IsValid(l, mx) == l \notin Unusable /\ CompanyOf[l] \in mx

\* ingest_file validates every row before the first is stored.  _mx_cache makes
\* all rows of a domain share one lookup, a failed one included; mx are the
\* domains found to take mail.  A risky row goes the way of a valid one.
ReadFile(i) ==
  /\ ~file[i].started
  /\ \E mx \in SUBSET Company :
       LET valid == {l \in RowsOf[i] : IsValid(l, mx)}
       IN file' = [file EXCEPT ![i] = [started |-> TRUE, valid |-> valid,
                                       invalid |-> RowsOf[i] \ valid, touched |-> {}]]
  /\ UNCHANGED <<queueVars, handlerVars, tableVars, research, faults>>

\* The upsert of a valid row sets the status whatever it was.
StoreValid(i, l) ==
  /\ l \in file[i].valid
  /\ lead' = [lead EXCEPT ![l] = "validated"]
  /\ file' = [file EXCEPT ![i].valid = @ \ {l}, ![i].touched = @ \cup {CompanyOf[l]}]
  /\ UNCHANGED <<queueVars, handlerVars, company, fit, draft, research, faults>>

\* The upsert of an invalid row leaves the status of a known lead alone.
FilteredStatus(l) == IF lead[l] = "absent" THEN "suppressed" ELSE lead[l]

StoreInvalid(i, l) ==
  /\ l \in file[i].invalid
  /\ lead' = [lead EXCEPT ![l] = FilteredStatus(l)]
  /\ file' = [file EXCEPT ![i].invalid = @ \ {l}]
  /\ UNCHANGED <<queueVars, handlerVars, company, fit, draft, research, faults>>

\* The second loop: after the last row.
EnqueueResearch(i, c) ==
  /\ file[i].valid \cup file[i].invalid = {}
  /\ c \in file[i].touched
  /\ EnqueueTask(Research(c))
  /\ file' = [file EXCEPT ![i].touched = @ \ {c}]
  /\ UNCHANGED <<handlerVars, tableVars, research, faults>>

-----------------------------------------------------------------------------
(* research_company: A1, A2, A3, A4, then the fan-out *)

\* The worker claims a task and awaits its handler.
StartResearch(c) ==
  /\ Cardinality(Running) < Parallel
  /\ Queue!Take({Research(c)})
  /\ Goto(Research(c), "profile")
  /\ research' = [research EXCEPT ![c] = @ + 1]
  /\ UNCHANGED <<todo, basis, tableVars, file, faults>>

\* Mutant: A4 is left out.
ResearchOrderUnclassified ==
  [profile |-> "intel", intel |-> "jobs", jobs |-> "select", classification |-> "select"]
ResearchOrder ==
  [profile |-> "intel", intel |-> "jobs", jobs |-> "classification", classification |-> "select"]

\* discover, analyze, find_jobs, classify: each ends in the UPDATE of its column.
WriteColumn(c) ==
  LET column == pc[Research(c)] IN
  /\ column \in Column
  /\ company' = [company EXCEPT ![c] = @ \cup {column}]
  /\ Goto(Research(c), ResearchOrder[column])
  /\ UNCHANGED <<queueVars, todo, basis, lead, fit, draft, file, research, faults>>

\* Mutant: the leads of a status that nothing sets.
WaitingResearching(c) == {l \in Lead : CompanyOf[l] = c /\ lead[l] = "researching"}

\* SELECT id FROM leads ... status IN ('validated', 'researching').
Waiting(c) == {l \in Lead : CompanyOf[l] = c /\ lead[l] \in {"validated", "researching"}}

SelectLeads(c) ==
  /\ pc[Research(c)] = "select"
  /\ todo' = [todo EXCEPT ![c] = Waiting(c)]
  /\ Goto(Research(c), "fanout")
  /\ UNCHANGED <<queueVars, basis, tableVars, file, research, faults>>

FanOut(l) ==
  LET c == CompanyOf[l] IN
  /\ pc[Research(c)] = "fanout" /\ l \in todo[c]
  /\ EnqueueTask(Fit(l))
  /\ todo' = [todo EXCEPT ![c] = @ \ {l}]
  /\ UNCHANGED <<pc, basis, tableVars, file, research, faults>>

-----------------------------------------------------------------------------
(* synthesize_fit and generate_draft *)

StartLead(t) ==
  /\ t \in Task \ {Research(c) : c \in Company}
  /\ Cardinality(Running) < Parallel
  /\ Queue!Take({t})
  /\ Goto(t, "load")
  /\ UNCHANGED <<todo, basis, tableVars, file, research, faults>>

\* _load_company_context, before the model is asked.
LoadCompany(l) ==
  /\ pc[Fit(l)] = "load"
  /\ basis' = [basis EXCEPT ![l] = company[CompanyOf[l]]]
  /\ Goto(Fit(l), "store")
  /\ UNCHANGED <<queueVars, todo, tableVars, file, research, faults>>

\* The order of the last three statements.  Mutant: the next task is enqueued
\* before the lead is updated.
FitOrderEnqueueFirst == [store |-> "enqueue", lead |-> "return", enqueue |-> "lead"]
FitOrder == [store |-> "lead", lead |-> "enqueue", enqueue |-> "return"]

StoreFit(l) ==
  /\ pc[Fit(l)] = "store"
  /\ fit' = [fit EXCEPT ![l] = basis[l]]
  /\ basis' = [basis EXCEPT ![l] = {}]
  /\ Goto(Fit(l), FitOrder["store"])
  /\ UNCHANGED <<queueVars, todo, company, lead, draft, file, research, faults>>

\* UPDATE leads SET status = 'ready', whatever the status is by now.
MarkReady(l) ==
  /\ pc[Fit(l)] = "lead"
  /\ lead' = [lead EXCEPT ![l] = "ready"]
  /\ Goto(Fit(l), FitOrder["lead"])
  /\ UNCHANGED <<queueVars, todo, basis, company, fit, draft, file, research, faults>>

EnqueueDraft(l) ==
  /\ pc[Fit(l)] = "enqueue"
  /\ EnqueueTask(Draft(l))
  /\ Goto(Fit(l), FitOrder["enqueue"])
  /\ UNCHANGED <<todo, basis, tableVars, file, research, faults>>

\* _load_fit_and_evidence
LoadFit(l) ==
  /\ pc[Draft(l)] = "load"
  /\ fit[l] # {}
  /\ Goto(Draft(l), "store")
  /\ UNCHANGED <<queueVars, todo, basis, tableVars, file, research, faults>>

StoreDraft(l) ==
  /\ pc[Draft(l)] = "store"
  /\ draft' = draft \cup {l}
  /\ Goto(Draft(l), "lead")
  /\ UNCHANGED <<queueVars, todo, basis, company, lead, fit, file, research, faults>>

\* Mutant: the lead is marked before its draft is stored.
MarkAwaitingApprovalFirst(l) ==
  /\ pc[Draft(l)] = "store" /\ lead[l] # "awaiting_approval"
  /\ lead' = [lead EXCEPT ![l] = "awaiting_approval"]
  /\ UNCHANGED <<queueVars, handlerVars, company, fit, draft, file, research, faults>>

MarkAwaitingApproval(l) ==
  /\ pc[Draft(l)] = "lead"
  /\ lead' = [lead EXCEPT ![l] = "awaiting_approval"]
  /\ Goto(Draft(l), "return")
  /\ UNCHANGED <<queueVars, todo, basis, company, fit, draft, file, research, faults>>

-----------------------------------------------------------------------------
(* The worker around the handlers *)

Complete(t) ==
  /\ \/ pc[t] = "return"
     \/ \E c \in Company : t = Research(c) /\ pc[t] = "fanout" /\ todo[c] = {}
  /\ Queue!Finish(t)
  /\ Goto(t, "none")
  /\ UNCHANGED <<todo, basis, tableVars, file, research, faults>>

\* The handlers T are gone, and what they held in memory with them.
Forget(T) ==
  /\ pc' = [t \in Task |-> IF t \in T THEN "none" ELSE pc[t]]
  /\ todo' = [c \in Company |-> IF Research(c) \in T THEN {} ELSE todo[c]]
  /\ basis' = [l \in Lead |-> IF Fit(l) \in T THEN {} ELSE basis[l]]

\* A model call, a search or a statement raises, or generate_draft finds no fit
\* analysis: fail_task.
Raise(t) ==
  /\ pc[t] \notin {"none", "return"}
  /\ t \in Failing \/ \E l \in Lead : t = Draft(l) /\ pc[t] = "load" /\ fit[l] = {}
  /\ IF tries[t] + 1 < MaxAttempts THEN Queue!Retry(t) ELSE Queue!GiveUp(t)
  /\ Forget({t})
  /\ UNCHANGED <<tableVars, file, research, faults>>

\* The worker is killed: its claimed tasks wait for the reaper.
Crash ==
  /\ Running # {}
  /\ faults < MaxFaults /\ faults' = faults + 1
  /\ Queue!Lose(Running)
  /\ Forget(Running)
  /\ UNCHANGED <<tableVars, file, research>>

Reap ==
  /\ Queue!In("orphaned") # {}
  /\ Queue!Recover(Queue!In("orphaned"))
  /\ UNCHANGED <<handlerVars, tableVars, file, research, faults>>

\* cold-mailer ingest is interrupted.
IngestCrash(i) ==
  /\ file[i] \notin {Unread, Ended}
  /\ faults < MaxFaults /\ faults' = faults + 1
  /\ file' = [file EXCEPT ![i] = Ended]
  /\ UNCHANGED <<queueVars, handlerVars, tableVars, research>>

-----------------------------------------------------------------------------
HandlerStep(t) ==
  \/ \E c \in Company : t = Research(c) /\ (WriteColumn(c) \/ SelectLeads(c))
  \/ \E l \in Lead : t = Research(CompanyOf[l]) /\ FanOut(l)
  \/ \E l \in Lead : t = Fit(l) /\ (LoadCompany(l) \/ StoreFit(l) \/ MarkReady(l) \/ EnqueueDraft(l))
  \/ \E l \in Lead : t = Draft(l) /\ (LoadFit(l) \/ StoreDraft(l) \/ MarkAwaitingApproval(l))
  \/ Complete(t) \/ Raise(t)

IngestStep(i) ==
  \/ \E l \in Lead : StoreValid(i, l) \/ StoreInvalid(i, l)
  \/ \E c \in Company : EnqueueResearch(i, c)

WorkerStep ==
  \/ \E c \in Company : StartResearch(c)
  \/ \E t \in Task : StartLead(t) \/ HandlerStep(t)
  \/ Reap

Next ==
  \/ \E i \in Ingest : ReadFile(i) \/ IngestStep(i) \/ IngestCrash(i)
  \/ WorkerStep
  \/ Crash

Spec == Init /\ [][Next]_vars

\* The worker goes on as long as it can do anything: the cron job fires and the
\* event loop runs a handler that is ready.  It is enough that some task moves,
\* since attempts bound the work.  An ingest that was started and is not killed goes on.
FairSpec == Spec /\ WF_vars(WorkerStep) /\ WF_vars(\E i \in Ingest : IngestStep(i))

-----------------------------------------------------------------------------
(* Properties *)

TypeOK ==
  /\ Queue!QueueTypeOK
  /\ pc \in [Task -> HandlerPc]
  /\ todo \in [Company -> SUBSET Lead]
  /\ basis \in [Lead -> SUBSET Column]
  /\ company \in [Company -> SUBSET Column]
  /\ lead \in [Lead -> LeadStatus]
  /\ fit \in [Lead -> SUBSET Column]
  /\ draft \subseteq Lead
  /\ file \in [Ingest -> File]
  /\ research \in [Company -> Nat]
  /\ faults \in 0..MaxFaults

\* synthesize_fit has defaults for columns that are NULL; whatever fails, is
\* retried or ingested again, no fit and no draft is ever made from them.
FitHasResearch ==
  \A l \in Lead : (fit[l] # {} => fit[l] = Column) /\ (l \in draft => fit[l] # {})

\* Research is paid for once a company, however many leads and files name it:
\* every further run is accounted for by a failure or a killed worker.
ResearchPaidOnce ==
  \A c \in Company : research[c] <= 1 + tries[Research(c)] + faults

Rank(status) ==
  CASE status = "awaiting_approval" -> 3 [] status = "ready" -> 2
    [] status = "validated" -> 1 [] OTHER -> 0

\* The status of a lead goes back only when the lead is ingested again or after
\* a killed worker: 'ready' is set before the draft can exist, not after it.
StatusAdvances ==
  [][\A l \in Lead : Rank(lead'[l]) < Rank(lead[l]) => lead'[l] = "validated" \/ faults > 0]_vars

GaveUp(l) ==
  \E t \in {Research(CompanyOf[l]), Fit(l), Draft(l)} : job[t] = "over" /\ tries[t] = MaxAttempts

\* A lead that is in the table while the research of its company waits to be
\* run is drafted in the end, unless a task of its way fails for good.
WaitingLeadIsDrafted ==
  \A l \in Lead :
    lead[l] = "validated" /\ job[Research(CompanyOf[l])] = "queued" ~> l \in draft \/ GaveUp(l)

\* "valid/risky leads get a company row and join the research queue" (cli.py:31)
\* and research fans out "to every lead waiting on that company's research"
\* (company_research.py:2): no valid lead is left waiting.
EveryValidLeadIsDrafted ==
  \A l \in Lead : lead[l] = "validated" ~> l \in draft \/ GaveUp(l)

\* One handler drafts the lead l, and one researches the company c: the statements
\* of Drafting and of Columns, between those of other handlers and of ingest.
DraftingOf(l) == INSTANCE Drafting
  WITH Drafter <- {l}, stored <- {k \in {l} : pc[Draft(k)] = "lead"},
       drafted <- l \in draft, waiting <- lead[l] = "awaiting_approval"

NextColumn(c) ==
  LET at == pc[Research(c)]
  IN IF at = "jobs" THEN "classification" ELSE IF at \in Column THEN at ELSE "none"

ColumnsOf(c) == INSTANCE Columns
  WITH Pass <- {c}, next <- [d \in {c} |-> NextColumn(d)], filled <- company[c] \ {"jobs"}

\* The pipeline is made of the parts that the other modules detail: its tasks are
\* jobs of the queue, each company is researched and each lead drafted as there.
ImplementsParts ==
  /\ Queue!QueueSpec
  /\ \A c \in Company : ColumnsOf(c)!ColumnsInit
  /\ \A l \in Lead : DraftingOf(l)!DraftingInit
  /\ [][/\ \A c \in Company : [ColumnsOf(c)!ColumnsNext]_(ColumnsOf(c)!columnsVars)
        /\ \A l \in Lead : [DraftingOf(l)!DraftingNext]_(DraftingOf(l)!draftingVars)]_vars
=============================================================================
