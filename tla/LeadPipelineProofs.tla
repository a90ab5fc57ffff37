-------------------------- MODULE LeadPipelineProofs --------------------------
(***************************************************************************)
(* Proofs about LeadPipeline, for any leads, companies and files, any set  *)
(* of handlers that may raise and any number of killed processes.           *)
(***************************************************************************)
EXTENDS LeadPipeline, TLAPS

-----------------------------------------------------------------------------
(* The tasks and the queue under them *)

LEMMA TasksDiffer ==
  /\ \A c \in Company : Research(c) \in Task
  /\ \A l \in Lead : Fit(l) \in Task /\ Draft(l) \in Task
  /\ \A c, d \in Company : Research(c) = Research(d) => c = d
  /\ \A l, k \in Lead : (Fit(l) = Fit(k) => l = k) /\ (Draft(l) = Draft(k) => l = k)
  /\ \A l, k \in Lead : Fit(l) # Draft(k)
  /\ \A l \in Lead, c \in Company : Fit(l) # Research(c) /\ Draft(l) # Research(c)
BY DEF Research, Fit, Draft, Task

\* What any action of the queue does: it keeps the types, takes no attempt back,
\* and unless it is Submit brings no absent job in.
QueueStep ==
  \/ \E t \in Task : Queue!Submit(t) \/ Queue!Take({t}) \/ Queue!Finish(t) \/ Queue!Retry(t) \/ Queue!GiveUp(t)
  \/ \E S \in SUBSET Task : Queue!Lose(S) \/ Queue!Recover(S)
  \/ UNCHANGED queueVars

LEMMA QueueKeepsType ==
  ASSUME Queue!QueueTypeOK, QueueStep
  PROVE  Queue!QueueTypeOK'
<1> USE DEF Queue!QueueTypeOK, Queue!JobState, Queue!Move, Queue!In, Queue!Charge
<1>1. CASE UNCHANGED queueVars
  BY <1>1 DEF queueVars
<1>2. ASSUME NEW t \in Task, Queue!Submit(t) \/ Queue!Take({t}) \/ Queue!Finish(t)
      PROVE  Queue!QueueTypeOK'
  BY <1>2 DEF Queue!Submit, Queue!Take, Queue!Finish
<1>3. ASSUME NEW t \in Task, Queue!Retry(t) \/ Queue!GiveUp(t)
      PROVE  Queue!QueueTypeOK'
  BY <1>3, LeadPipelineAssumption DEF Queue!Retry, Queue!GiveUp
<1>4. ASSUME NEW S \in SUBSET Task, Queue!Lose(S) \/ Queue!Recover(S)
      PROVE  Queue!QueueTypeOK'
  BY <1>4 DEF Queue!Lose, Queue!Recover
<1> QED
  BY <1>1, <1>2, <1>3, <1>4 DEF QueueStep

EnqueueIsStep == \A t \in Task : EnqueueTask(t) => QueueStep

LEMMA EnqueueSteps == EnqueueIsStep
BY DEF EnqueueIsStep, EnqueueTask, QueueStep

\* Every step of the pipeline is one of the queue, or leaves the queue alone.
LEMMA NextIsQueueStep ==
  ASSUME [Next]_vars
  PROVE  QueueStep
<1> USE TasksDiffer, EnqueueSteps DEF EnqueueIsStep
<1>1. ASSUME NEW i \in Ingest, ReadFile(i) \/ IngestStep(i) \/ IngestCrash(i)
      PROVE  QueueStep
  <2>1. CASE IngestStep(i)
    BY <2>1 DEF IngestStep, StoreValid, StoreInvalid, EnqueueResearch, QueueStep
  <2> QED
    BY <1>1, <2>1 DEF ReadFile, IngestCrash, QueueStep
<1>2. ASSUME NEW c \in Company, StartResearch(c)
      PROVE  QueueStep
  BY <1>2 DEF StartResearch, QueueStep
<1>3. ASSUME NEW t \in Task, StartLead(t)
      PROVE  QueueStep
  BY <1>3 DEF StartLead, QueueStep
<1>4. ASSUME NEW t \in Task, HandlerStep(t)
      PROVE  QueueStep
  <2>1. CASE Complete(t)
    BY <2>1 DEF Complete, QueueStep
  <2>2. CASE Raise(t)
    BY <2>2 DEF Raise, QueueStep
  <2>3. ASSUME NEW c \in Company, WriteColumn(c) \/ SelectLeads(c)
        PROVE  QueueStep
    BY <2>3 DEF WriteColumn, SelectLeads, QueueStep
  <2>4. ASSUME NEW l \in Lead, FanOut(l) \/ EnqueueDraft(l)
        PROVE  QueueStep
    BY <2>4 DEF FanOut, EnqueueDraft
  <2>5. ASSUME NEW l \in Lead,
               LoadCompany(l) \/ StoreFit(l) \/ MarkReady(l) \/ LoadFit(l) \/ StoreDraft(l)
                 \/ MarkAwaitingApproval(l)
        PROVE  QueueStep
    BY <2>5 DEF LoadCompany, StoreFit, MarkReady, LoadFit, StoreDraft, MarkAwaitingApproval, QueueStep
  <2> QED
    BY <1>4, <2>1, <2>2, <2>3, <2>4, <2>5 DEF HandlerStep
<1>5. CASE Reap
  BY <1>5 DEF Reap, Queue!In, QueueStep
<1>6. CASE Crash
  BY <1>6 DEF Crash, Running, QueueStep
<1>7. CASE UNCHANGED vars
  BY <1>7 DEF vars, QueueStep
<1> QED
  BY <1>1, <1>2, <1>3, <1>4, <1>5, <1>6, <1>7 DEF Next, WorkerStep

-----------------------------------------------------------------------------
(* Types *)

LEMMA Moved ==
  ASSUME TypeOK, NEW t \in Task, NEW p \in HandlerPc, Goto(t, p)
  PROVE  /\ pc' \in [Task -> HandlerPc]
         /\ pc'[t] = p /\ \A u \in Task \ {t} : pc'[u] = pc[u]
BY DEF TypeOK, Goto

LEMMA Forgotten ==
  ASSUME TypeOK, NEW T, Forget(T)
  PROVE  /\ pc' \in [Task -> HandlerPc]
         /\ todo' \in [Company -> SUBSET Lead]
         /\ basis' \in [Lead -> SUBSET Column]
         /\ \A t \in Task : pc'[t] = "none" \/ (t \notin T /\ pc'[t] = pc[t])
         /\ \A l \in Lead : basis'[l] = {} \/ basis'[l] = basis[l]
         /\ \A l \in Lead : Fit(l) \notin T => basis'[l] = basis[l]
BY DEF TypeOK, Forget, HandlerPc

LEMMA Shapes ==
  /\ Column \subseteq HandlerPc
  /\ {"none", "select", "fanout", "load", "store", "lead", "enqueue", "return"} \subseteq HandlerPc
  /\ \A column \in Column : ResearchOrder[column] \in HandlerPc
  /\ \A p \in {"store", "lead", "enqueue"} : FitOrder[p] \in HandlerPc
BY DEF Column, HandlerPc, ResearchOrder, FitOrder

LEMMA TypesInit == Init => TypeOK
BY LeadPipelineAssumption DEF Init, TypeOK, Queue!QueueInit, Queue!QueueTypeOK, Queue!JobState,
  HandlerPc, LeadStatus, File, Unread

LEMMA TypesStep ==
  ASSUME TypeOK, [Next]_vars
  PROVE  TypeOK'
<1>0. Queue!QueueTypeOK'
  BY NextIsQueueStep, QueueKeepsType DEF TypeOK
<1> USE LeadPipelineAssumption, TasksDiffer
<1>1. ASSUME NEW i \in Ingest, ReadFile(i) \/ IngestStep(i) \/ IngestCrash(i)
      PROVE  TypeOK'
  <2>1. CASE ReadFile(i)
    BY <1>0, <2>1 DEF ReadFile, TypeOK, File, tableVars, handlerVars
  <2>2. ASSUME NEW l \in Lead, StoreValid(i, l)
        PROVE  TypeOK'
    <3>1. [file[i] EXCEPT !.valid = @ \ {l}, !.touched = @ \cup {CompanyOf[l]}] \in File
      <4>1. file[i] \in File
        BY DEF TypeOK
      <4>2. CompanyOf[l] \in Company
        OBVIOUS
      <4> QED
        BY <4>1, <4>2 DEF File
    <3> QED
      BY <1>0, <2>2, <3>1 DEF StoreValid, TypeOK, LeadStatus, handlerVars
  <2>3. ASSUME NEW l \in Lead, StoreInvalid(i, l)
        PROVE  TypeOK'
    <3>1. [file[i] EXCEPT !.invalid = @ \ {l}] \in File
      <4>1. file[i] \in File
        BY DEF TypeOK
      <4> QED
        BY <4>1 DEF File
    <3>2. FilteredStatus(l) \in LeadStatus
      BY DEF FilteredStatus, TypeOK, LeadStatus
    <3> QED
      BY <1>0, <2>3, <3>1, <3>2 DEF StoreInvalid, TypeOK, handlerVars
  <2>4. ASSUME NEW c \in Company, EnqueueResearch(i, c)
        PROVE  TypeOK'
    <3>1. [file[i] EXCEPT !.touched = @ \ {c}] \in File
      <4>1. file[i] \in File
        BY DEF TypeOK
      <4> QED
        BY <4>1 DEF File
    <3>2. file' \in [Ingest -> File]
      BY <2>4, <3>1 DEF EnqueueResearch, TypeOK
    <3>3. UNCHANGED <<handlerVars, tableVars, research, faults>>
      BY <2>4 DEF EnqueueResearch
    <3> QED
      BY <1>0, <3>2, <3>3 DEF TypeOK, handlerVars, tableVars
  <2>5. CASE IngestCrash(i)
    <3>1. Ended \in File
      BY DEF Ended, Unread, File
    <3>2. faults' \in 0..MaxFaults
      BY <2>5 DEF IngestCrash, TypeOK
    <3> QED
      BY <1>0, <2>5, <3>1, <3>2 DEF IngestCrash, TypeOK, handlerVars, tableVars
  <2> QED
    BY <1>1, <2>1, <2>2, <2>3, <2>4, <2>5 DEF IngestStep
<1>2. ASSUME NEW c \in Company, StartResearch(c)
      PROVE  TypeOK'
  BY <1>0, <1>2, Moved, Shapes DEF StartResearch, TypeOK, Column, tableVars
<1>3. ASSUME NEW t \in Task, StartLead(t)
      PROVE  TypeOK'
  BY <1>0, <1>3, Moved, Shapes DEF StartLead, TypeOK, tableVars
<1>4. ASSUME NEW t \in Task, HandlerStep(t)
      PROVE  TypeOK'
  <2>1. CASE Complete(t)
    BY <1>0, <2>1, Moved, Shapes DEF Complete, TypeOK, tableVars
  <2>2. CASE Raise(t)
    BY <1>0, <2>2, Forgotten DEF Raise, TypeOK, tableVars
  <2>3. ASSUME NEW c \in Company, WriteColumn(c)
        PROVE  TypeOK'
    BY <1>0, <2>3, Moved, Shapes DEF WriteColumn, TypeOK
  <2>4. ASSUME NEW c \in Company, SelectLeads(c)
        PROVE  TypeOK'
    BY <1>0, <2>4, Moved, Shapes DEF SelectLeads, Waiting, TypeOK, tableVars
  <2>5. ASSUME NEW l \in Lead, FanOut(l)
        PROVE  TypeOK'
    BY <1>0, <2>5 DEF FanOut, TypeOK, tableVars
  <2>6. ASSUME NEW l \in Lead, LoadCompany(l)
        PROVE  TypeOK'
    BY <1>0, <2>6, Moved, Shapes DEF LoadCompany, TypeOK, tableVars
  <2>7. ASSUME NEW l \in Lead, StoreFit(l)
        PROVE  TypeOK'
    BY <1>0, <2>7, Moved, Shapes DEF StoreFit, TypeOK
  <2>8. ASSUME NEW l \in Lead, MarkReady(l)
        PROVE  TypeOK'
    BY <1>0, <2>8, Moved, Shapes DEF MarkReady, LeadStatus, TypeOK
  <2>9. ASSUME NEW l \in Lead, EnqueueDraft(l)
        PROVE  TypeOK'
    BY <1>0, <2>9, Moved, Shapes DEF EnqueueDraft, TypeOK, tableVars
  <2>10. ASSUME NEW l \in Lead, LoadFit(l) \/ StoreDraft(l) \/ MarkAwaitingApproval(l)
         PROVE  TypeOK'
    <3>1. pc' \in [Task -> HandlerPc]
      BY <2>10, Moved, Shapes DEF LoadFit, StoreDraft, MarkAwaitingApproval
    <3>2. CASE LoadFit(l)
      BY <1>0, <3>1, <3>2 DEF LoadFit, TypeOK, tableVars
    <3>3. CASE StoreDraft(l)
      BY <1>0, <3>1, <3>3 DEF StoreDraft, TypeOK
    <3>4. CASE MarkAwaitingApproval(l)
      BY <1>0, <3>1, <3>4 DEF MarkAwaitingApproval, LeadStatus, TypeOK
    <3> QED
      BY <2>10, <3>2, <3>3, <3>4
  <2> QED
    BY <1>4, <2>1, <2>2, <2>3, <2>4, <2>5, <2>6, <2>7, <2>8, <2>9, <2>10 DEF HandlerStep
<1>5. CASE Reap
  BY <1>0, <1>5 DEF Reap, TypeOK, handlerVars, tableVars
<1>6. CASE Crash
  BY <1>0, <1>6, Forgotten DEF Crash, TypeOK, tableVars
<1>7. CASE UNCHANGED vars
  BY <1>0, <1>7 DEF vars, handlerVars, tableVars, TypeOK
<1> QED
  BY <1>1, <1>2, <1>3, <1>4, <1>5, <1>6, <1>7 DEF Next, WorkerStep

\* Whatever fails, the tables, the tasks and the handlers keep their types: no
\* lead has a status the column refuses, no task more attempts than it may.
THEOREM TypeCorrect == Spec => []TypeOK
<1>1. Init => TypeOK
  BY TypesInit
<1>2. TypeOK /\ [Next]_vars => TypeOK'
  BY TypesStep
<1> QED
  BY <1>1, <1>2, PTL DEF Spec

-----------------------------------------------------------------------------
(* A fit is made of a whole company *)

\* What the research handler has filled in when it comes to a column, or past them.
Filled(p) ==
  CASE p = "intel" -> {"profile"} [] p = "jobs" -> {"profile", "intel"}
    [] p = "classification" -> {"profile", "intel", "jobs"}
    [] p \in {"select", "fanout"} -> Column [] OTHER -> {}

ResearchFills ==
  \A c \in Company : /\ pc[Research(c)] \in Column \cup {"none", "select", "fanout"}
                     /\ Filled(pc[Research(c)]) \subseteq company[c]

\* Only a researched company has fit tasks, and only a stored fit a draft under way.
FitAfterResearch ==
  \A l \in Lead : /\ job[Fit(l)] # "absent" => company[CompanyOf[l]] = Column
                  /\ pc[Fit(l)] = "store" => basis[l] = Column
                  /\ pc[Draft(l)] = "store" => fit[l] # {}

RunningIsHeld == \A t \in Task : pc[t] # "none" => job[t] = "held"

FitInv == TypeOK /\ RunningIsHeld /\ ResearchFills /\ FitAfterResearch /\ FitHasResearch

Accounted(c) ==
  research[c] <= tries[Research(c)] + faults + (IF job[Research(c)] \in {"held", "over"} THEN 1 ELSE 0)

ResearchAccount == \A c \in Company : Accounted(c)

PaidInv == TypeOK /\ RunningIsHeld /\ ResearchAccount
-----------------------------------------------------------------------------
(* What the actions of the queue do to one job *)

LEMMA Enqueued ==
  ASSUME TypeOK, NEW t \in Task, EnqueueTask(t)
  PROVE  /\ tries' = tries
         /\ \A u \in Task : job'[u] = job[u] \/ (u = t /\ job[u] = "absent" /\ job'[u] = "queued")
BY DEF TypeOK, EnqueueTask, Queue!Submit, Queue!Move, Queue!QueueTypeOK, queueVars

LEMMA Taken ==
  ASSUME TypeOK, NEW t \in Task, Queue!Take({t})
  PROVE  /\ tries' = tries /\ job[t] = "queued" /\ job'[t] = "held"
         /\ \A u \in Task \ {t} : job'[u] = job[u]
BY DEF TypeOK, Queue!Take, Queue!Move, Queue!In, Queue!QueueTypeOK

LEMMA Finished ==
  ASSUME TypeOK, NEW t \in Task, Queue!Finish(t)
  PROVE  /\ tries' = tries /\ job[t] = "held" /\ job'[t] = "over"
         /\ \A u \in Task \ {t} : job'[u] = job[u]
BY DEF TypeOK, Queue!Finish, Queue!Move, Queue!QueueTypeOK

LEMMA Charged ==
  ASSUME TypeOK, NEW t \in Task, Queue!Retry(t) \/ Queue!GiveUp(t)
  PROVE  /\ job[t] = "held" /\ job'[t] \in {"queued", "over"} /\ tries'[t] = tries[t] + 1
         /\ \A u \in Task \ {t} : job'[u] = job[u] /\ tries'[u] = tries[u]
BY DEF TypeOK, Queue!Retry, Queue!GiveUp, Queue!Charge, Queue!Move, Queue!QueueTypeOK

LEMMA Crashed ==
  ASSUME TypeOK, Crash
  PROVE  /\ tries' = tries /\ faults' = faults + 1
         /\ \A t \in Task :
              \/ pc[t] # "none" /\ job[t] = "held" /\ job'[t] = "orphaned"
              \/ pc[t] = "none" /\ job'[t] = job[t]
         /\ \A t \in Task : pc'[t] = "none"
BY DEF TypeOK, Crash, Forget, Running, Queue!Lose, Queue!Move, Queue!In, Queue!QueueTypeOK

LEMMA Reaped ==
  ASSUME TypeOK, Reap
  PROVE  /\ tries' = tries
         /\ \A t \in Task : job'[t] = job[t] \/ (job[t] = "orphaned" /\ job'[t] = "queued")
BY DEF TypeOK, Reap, Queue!Recover, Queue!Move, Queue!In, Queue!QueueTypeOK

\* A statement of the handler of t: the queue at most learns of a new task, and
\* no other handler moves.
Statement(t) ==
  /\ t \in Task /\ pc[t] # "none"
  /\ \A u \in Task : job'[u] = job[u] \/ (job[u] = "absent" /\ job'[u] = "queued")
  /\ tries' = tries
  /\ \A u \in Task \ {t} : pc'[u] = pc[u]
  /\ UNCHANGED <<research, faults>>

LEMMA Statements ==
  ASSUME TypeOK, NEW t \in Task, HandlerStep(t), ~Complete(t), ~Raise(t)
  PROVE  Statement(t)
<1> USE TasksDiffer, LeadPipelineAssumption, Shapes
<1>1. ASSUME NEW c \in Company, t = Research(c), WriteColumn(c) \/ SelectLeads(c)
      PROVE  Statement(t)
  BY <1>1 DEF Statement, WriteColumn, SelectLeads, Goto, TypeOK, queueVars, Column
<1>2. ASSUME NEW l \in Lead, t = Research(CompanyOf[l]), FanOut(l)
      PROVE  Statement(t)
  BY <1>2, Enqueued DEF Statement, FanOut
<1>3. ASSUME NEW l \in Lead, t = Fit(l), LoadCompany(l) \/ StoreFit(l) \/ MarkReady(l)
      PROVE  Statement(t)
  BY <1>3 DEF Statement, LoadCompany, StoreFit, MarkReady, Goto, TypeOK, queueVars
<1>4. ASSUME NEW l \in Lead, t = Fit(l), EnqueueDraft(l)
      PROVE  Statement(t)
  BY <1>4, Enqueued DEF Statement, EnqueueDraft, Goto, TypeOK
<1>5. ASSUME NEW l \in Lead, t = Draft(l), LoadFit(l) \/ StoreDraft(l) \/ MarkAwaitingApproval(l)
      PROVE  Statement(t)
  BY <1>5 DEF Statement, LoadFit, StoreDraft, MarkAwaitingApproval, Goto, TypeOK, queueVars
<1> QED
  BY <1>1, <1>2, <1>3, <1>4, <1>5 DEF HandlerStep

\* Nothing runs that is not claimed.
LEMMA RunningStep ==
  ASSUME TypeOK, RunningIsHeld, [Next]_vars
  PROVE  RunningIsHeld'
<1> USE TasksDiffer DEF RunningIsHeld
<1>1. ASSUME NEW i \in Ingest, ReadFile(i) \/ IngestStep(i) \/ IngestCrash(i)
      PROVE  RunningIsHeld'
  BY <1>1, Enqueued
  DEF ReadFile, IngestStep, IngestCrash, StoreValid, StoreInvalid, EnqueueResearch, handlerVars, queueVars
<1>2. ASSUME NEW c \in Company, StartResearch(c)
      PROVE  RunningIsHeld'
  BY <1>2, Taken DEF StartResearch, Goto, TypeOK
<1>3. ASSUME NEW t \in Task, StartLead(t)
      PROVE  RunningIsHeld'
  BY <1>3, Taken DEF StartLead, Goto, TypeOK
<1>4. ASSUME NEW t \in Task, HandlerStep(t)
      PROVE  RunningIsHeld'
  <2>1. CASE Complete(t)
    BY <2>1, Finished DEF Complete, Goto, TypeOK
  <2>2. CASE Raise(t)
    BY <2>2, Charged DEF Raise, Forget
  <2>3. CASE ~Complete(t) /\ ~Raise(t)
    BY <1>4, <2>3, Statements DEF Statement
  <2> QED
    BY <2>1, <2>2, <2>3
<1>5. CASE Reap
  BY <1>5, Reaped DEF Reap, handlerVars
<1>6. CASE Crash
  BY <1>6, Crashed
<1>7. CASE UNCHANGED vars
  BY <1>7 DEF vars, handlerVars, queueVars
<1> QED
  BY <1>1, <1>2, <1>3, <1>4, <1>5, <1>6, <1>7 DEF Next, WorkerStep

-----------------------------------------------------------------------------
(* Research is paid for once *)

LEMMA PaidInit == Init => PaidInv
BY TypesInit, TasksDiffer DEF Init, PaidInv, RunningIsHeld, ResearchAccount, Accounted, Queue!QueueInit

LEMMA PaidStep ==
  ASSUME PaidInv, [Next]_vars
  PROVE  PaidInv'
<1>1. TypeOK' /\ RunningIsHeld'
  BY TypesStep, RunningStep DEF PaidInv
<1>2. TypeOK /\ RunningIsHeld /\ ResearchAccount
  BY DEF PaidInv
<1>3. /\ research \in [Company -> Nat] /\ faults \in Nat
      /\ \A t \in Task : tries[t] \in Nat
  BY <1>2, LeadPipelineAssumption DEF TypeOK, Queue!QueueTypeOK
<1> SUFFICES ASSUME NEW d \in Company
             PROVE  Accounted(d)'
  BY <1>1 DEF PaidInv, ResearchAccount
<1> USE <1>2, <1>3, TasksDiffer DEF Accounted
<1>4. Accounted(d)
  BY DEF ResearchAccount
<1>5. ASSUME NEW i \in Ingest, ReadFile(i) \/ IngestStep(i) \/ IngestCrash(i)
      PROVE  Accounted(d)'
  <2>1. CASE ReadFile(i)
    BY <1>4, <2>1 DEF ReadFile, queueVars
  <2>2. CASE IngestCrash(i)
    BY <1>4, <2>2 DEF IngestCrash, queueVars
  <2>3. CASE IngestStep(i)
    <3>1. /\ UNCHANGED <<research, faults, tries>>
          /\ job'[Research(d)] = job[Research(d)]
               \/ (job[Research(d)] = "absent" /\ job'[Research(d)] = "queued")
      BY <2>3, Enqueued DEF IngestStep, StoreValid, StoreInvalid, EnqueueResearch, queueVars
    <3> QED
      BY <1>4, <3>1
  <2> QED
    BY <1>5, <2>1, <2>2, <2>3
<1>6. ASSUME NEW c \in Company, StartResearch(c)
      PROVE  Accounted(d)'
  BY <1>4, <1>6, Taken DEF StartResearch
<1>7. ASSUME NEW t \in Task, StartLead(t)
      PROVE  Accounted(d)'
  BY <1>4, <1>7, Taken DEF StartLead
<1>8. ASSUME NEW t \in Task, HandlerStep(t)
      PROVE  Accounted(d)'
  <2>1. CASE Complete(t)
    BY <1>4, <2>1, Finished DEF Complete
  <2>2. CASE Raise(t)
    BY <1>4, <2>2, Charged DEF Raise
  <2>3. CASE ~Complete(t) /\ ~Raise(t)
    BY <1>4, <1>8, <2>3, Statements DEF Statement
  <2> QED
    BY <2>1, <2>2, <2>3
<1>9. CASE Reap
  BY <1>4, <1>9, Reaped DEF Reap
<1>10. CASE Crash
  <2>1. UNCHANGED research
    BY <1>10 DEF Crash
  <2> QED
    BY <1>4, <1>10, <2>1, Crashed
<1>11. CASE UNCHANGED vars
  BY <1>4, <1>11 DEF vars, queueVars
<1> QED
  BY <1>5, <1>6, <1>7, <1>8, <1>9, <1>10, <1>11 DEF Next, WorkerStep

\* Research is paid for once a company: every further run of it is accounted for
\* by a charged failure or a killed worker, however many leads and files there are.
THEOREM ResearchPaidTheorem == Spec => []ResearchPaidOnce
<1>1. Init => PaidInv
  BY PaidInit
<1>2. PaidInv /\ [Next]_vars => PaidInv'
  BY PaidStep
<1>3. PaidInv => ResearchPaidOnce
  <2> SUFFICES ASSUME PaidInv, NEW c \in Company
               PROVE  research[c] <= 1 + tries[Research(c)] + faults
    BY DEF ResearchPaidOnce
  <2>1. research[c] \in Nat /\ tries[Research(c)] \in Nat /\ faults \in Nat
    BY TasksDiffer, LeadPipelineAssumption DEF PaidInv, TypeOK, Queue!QueueTypeOK
  <2>2. Accounted(c)
    BY DEF PaidInv, ResearchAccount
  <2> QED
    BY <2>1, <2>2 DEF Accounted
<1> QED
  BY <1>1, <1>2, <1>3, PTL DEF Spec

-----------------------------------------------------------------------------
(* A fit is made of a whole company *)

LEMMA FitInit == Init => FitInv
BY TypesInit, TasksDiffer
DEF Init, FitInv, RunningIsHeld, ResearchFills, FitAfterResearch, FitHasResearch, Filled, Column, Queue!QueueInit

\* A company is never emptied, and a fit never taken back.
LEMMA ColumnsGrow ==
  ASSUME TypeOK, [Next]_vars
  PROVE  \A c \in Company : company[c] \subseteq company'[c] /\ company'[c] \subseteq Column
<1> USE DEF TypeOK
<1>1. ASSUME NEW c \in Company, WriteColumn(c)
      PROVE  \A d \in Company : company[d] \subseteq company'[d] /\ company'[d] \subseteq Column
  BY <1>1 DEF WriteColumn
<1>2. CASE UNCHANGED company
  BY <1>2
<1> QED
  BY <1>1, <1>2
  DEF Next, WorkerStep, HandlerStep, IngestStep, ReadFile, IngestCrash, StoreValid, StoreInvalid,
      EnqueueResearch, StartResearch, StartLead, SelectLeads, FanOut, LoadCompany, StoreFit, MarkReady,
      EnqueueDraft, LoadFit, StoreDraft, MarkAwaitingApproval, Complete, Raise, Crash, Reap, tableVars, vars

LEMMA FillsStep ==
  ASSUME TypeOK, ResearchFills, [Next]_vars
  PROVE  ResearchFills'
<1> SUFFICES ASSUME NEW d \in Company
             PROVE  /\ pc'[Research(d)] \in Column \cup {"none", "select", "fanout"}
                    /\ Filled(pc'[Research(d)]) \subseteq company'[d]
  BY DEF ResearchFills, Filled
<1> DEFINE t == Research(d)
<1>1. /\ t \in Task /\ Filled(pc[t]) \subseteq company'[d]
      /\ pc[t] \in Column \cup {"none", "select", "fanout"}
  BY TasksDiffer, ColumnsGrow DEF ResearchFills
<1>2. CASE pc'[t] = pc[t]
  BY <1>1, <1>2
<1>3. CASE pc'[t] = "none"
  BY <1>3 DEF Filled
<1>4. CASE StartResearch(d)
  BY <1>1, <1>4 DEF StartResearch, Goto, TypeOK, Filled, Column
<1>5. CASE WriteColumn(d)
  <2>1. pc[t] \in Column /\ pc'[t] = ResearchOrder[pc[t]] /\ company'[d] = company[d] \cup {pc[t]}
    BY <1>1, <1>5 DEF WriteColumn, Goto, TypeOK
  <2>2. Filled(pc[t]) \subseteq company[d]
    BY DEF ResearchFills
  <2> QED
    BY <2>1, <2>2 DEF Filled, ResearchOrder, Column
<1>6. CASE SelectLeads(d)
  BY <1>1, <1>6 DEF SelectLeads, Goto, TypeOK, Filled
<1> HIDE DEF t
<1>7. \/ pc'[t] = pc[t] \/ pc'[t] = "none"
      \/ StartResearch(d) \/ WriteColumn(d) \/ SelectLeads(d)
  <2> USE TasksDiffer, LeadPipelineAssumption DEF t
  <2>1. ASSUME NEW i \in Ingest, ReadFile(i) \/ IngestStep(i) \/ IngestCrash(i)
        PROVE  pc' = pc
    BY <2>1 DEF ReadFile, IngestStep, IngestCrash, StoreValid, StoreInvalid, EnqueueResearch, handlerVars
  <2>2. ASSUME NEW c \in Company, StartResearch(c), c # d
        PROVE  pc'[t] = pc[t]
    BY <2>2 DEF StartResearch, Goto, TypeOK
  <2>3. ASSUME NEW u \in Task, StartLead(u)
        PROVE  pc'[t] = pc[t]
    BY <2>3 DEF StartLead, Goto, TypeOK
  <2>4. ASSUME NEW u \in Task, Complete(u) \/ Raise(u)
        PROVE  pc'[t] = pc[t] \/ pc'[t] = "none"
    BY <2>4 DEF Complete, Raise, Goto, Forget, TypeOK
  <2>5. ASSUME NEW u \in Task, HandlerStep(u), ~Complete(u), ~Raise(u)
        PROVE  pc'[t] = pc[t] \/ WriteColumn(d) \/ SelectLeads(d)
    <3>1. CASE u # t
      BY <2>5, <3>1, Statements DEF Statement
    <3>2. CASE u = t
      BY <2>5, <3>2 DEF HandlerStep, FanOut
    <3> QED
      BY <3>1, <3>2
  <2>6. CASE Crash
    BY <2>6, Crashed
  <2> QED
    BY <2>1, <2>2, <2>3, <2>4, <2>5, <2>6 DEF Next, WorkerStep, Reap, handlerVars, vars
<1> QED
  BY <1>2, <1>3, <1>4, <1>5, <1>6, <1>7 DEF t

\* A fit task enters the queue from the fan-out, which comes after the last column.
LEMMA FitEnqueued ==
  ASSUME FitInv, [Next]_vars, NEW l \in Lead
  PROVE  \/ job[Fit(l)] # "absent"
         \/ job'[Fit(l)] = "absent"
         \/ company[CompanyOf[l]] = Column
<1> USE TasksDiffer, LeadPipelineAssumption
<1>1. ASSUME NEW i \in Ingest, ReadFile(i) \/ IngestStep(i) \/ IngestCrash(i)
      PROVE  job'[Fit(l)] = job[Fit(l)]
  <2>1. ASSUME NEW c \in Company, EnqueueTask(Research(c))
        PROVE  job'[Fit(l)] = job[Fit(l)]
    BY <2>1, Enqueued DEF FitInv
  <2> QED
    BY <1>1, <2>1 DEF ReadFile, IngestStep, IngestCrash, StoreValid, StoreInvalid, EnqueueResearch, queueVars
<1>2. ASSUME NEW t \in Task, Complete(t) \/ Raise(t)
      PROVE  job[Fit(l)] # "absent" \/ job'[Fit(l)] = "absent"
  BY <1>2, Finished, Charged DEF Complete, Raise, FitInv
<1>3. ASSUME NEW k \in Lead, FanOut(k)
      PROVE  \/ job'[Fit(l)] = job[Fit(l)]
             \/ company[CompanyOf[l]] = Column
  <2>1. CASE k = l
    <3>1. pc[Research(CompanyOf[l])] = "fanout" /\ CompanyOf[l] \in Company
      BY <1>3, <2>1 DEF FanOut
    <3>2. Filled("fanout") = Column
      BY DEF Filled
    <3>3. Filled(pc[Research(CompanyOf[l])]) \subseteq company[CompanyOf[l]]
      BY <3>1 DEF FitInv, ResearchFills
    <3>4. company[CompanyOf[l]] \subseteq Column
      BY <3>1 DEF FitInv, TypeOK
    <3> QED
      BY <3>1, <3>2, <3>3, <3>4
  <2>2. CASE k # l
    BY <1>3, <2>2, Enqueued DEF FanOut, FitInv
  <2> QED
    BY <2>1, <2>2
<1>4. ASSUME NEW k \in Lead, EnqueueDraft(k)
      PROVE  job'[Fit(l)] = job[Fit(l)]
  BY <1>4, Enqueued DEF EnqueueDraft, FitInv
<1>5. ASSUME NEW t \in Task, StartLead(t) \/ \E c \in Company : StartResearch(c)
      PROVE  job[Fit(l)] # "absent" \/ job'[Fit(l)] = "absent"
  BY <1>5, Taken DEF StartLead, StartResearch, FitInv
<1>6. CASE Reap \/ Crash
  BY <1>6, Reaped, Crashed DEF FitInv
<1>7. CASE UNCHANGED queueVars
  BY <1>7 DEF queueVars
<1> QED
  BY <1>1, <1>2, <1>3, <1>4, <1>5, <1>6, <1>7
  DEF Next, WorkerStep, HandlerStep, WriteColumn, SelectLeads, LoadCompany, StoreFit, MarkReady,
      LoadFit, StoreDraft, MarkAwaitingApproval, vars

\* How the rows come about: a fit from what its task has read, which it read of
\* a company that was complete, and a draft after the fit was found.
LEMMA RowsMade ==
  ASSUME FitInv, [Next]_vars, NEW l \in Lead
  PROVE  /\ fit'[l] = fit[l] \/ fit'[l] = Column
         /\ l \in draft' => l \in draft \/ fit[l] # {}
         /\ pc'[Fit(l)] = "store" => basis'[l] = Column
         /\ pc'[Draft(l)] = "store" => fit[l] # {}
<1> USE TasksDiffer, LeadPipelineAssumption DEF FitInv
<1> DEFINE Made == /\ fit'[l] = fit[l] \/ fit'[l] = Column
                   /\ l \in draft' => l \in draft \/ fit[l] # {}
                   /\ pc'[Fit(l)] = "store" => basis'[l] = Column
                   /\ pc'[Draft(l)] = "store" => fit[l] # {}
<1>0. /\ pc[Fit(l)] = "store" => basis[l] = Column
      /\ pc[Draft(l)] = "store" => fit[l] # {}
      /\ job[Fit(l)] # "absent" => company[CompanyOf[l]] = Column
      /\ pc[Fit(l)] # "none" => job[Fit(l)] = "held"
  BY DEF FitAfterResearch, RunningIsHeld
<1>1. CASE UNCHANGED <<pc, basis, fit, draft>>
  BY <1>0, <1>1
<1>2. ASSUME NEW t \in Task, StartLead(t) \/ Complete(t)
      PROVE  Made
  BY <1>0, <1>2 DEF StartLead, Complete, Goto, TypeOK, tableVars
<1>3. ASSUME NEW c \in Company, StartResearch(c) \/ SelectLeads(c)
      PROVE  Made
  BY <1>0, <1>3 DEF StartResearch, SelectLeads, Goto, TypeOK, tableVars
<1>4. ASSUME NEW c \in Company, WriteColumn(c)
      PROVE  Made
  BY <1>0, <1>4 DEF WriteColumn, Goto, TypeOK
<1>5. ASSUME NEW T, Forget(T), UNCHANGED tableVars
      PROVE  Made
  BY <1>0, <1>5 DEF Forget, TypeOK, tableVars
<1>6. ASSUME NEW k \in Lead, LoadCompany(k)
      PROVE  Made
  BY <1>0, <1>6 DEF LoadCompany, Goto, TypeOK, tableVars
<1>7. ASSUME NEW k \in Lead, StoreFit(k)
      PROVE  Made
  BY <1>0, <1>7, Shapes DEF StoreFit, FitOrder, Goto, TypeOK
<1>8. ASSUME NEW k \in Lead, MarkReady(k) \/ EnqueueDraft(k)
      PROVE  Made
  BY <1>0, <1>8 DEF MarkReady, EnqueueDraft, FitOrder, Goto, TypeOK, tableVars
<1>9. ASSUME NEW k \in Lead, LoadFit(k) \/ MarkAwaitingApproval(k)
      PROVE  Made
  BY <1>0, <1>9 DEF LoadFit, MarkAwaitingApproval, Goto, TypeOK, tableVars
<1>10. ASSUME NEW k \in Lead, StoreDraft(k)
       PROVE  Made
  BY <1>0, <1>10 DEF StoreDraft, Goto, TypeOK
<1> QED
  BY <1>1, <1>2, <1>3, <1>4, <1>5, <1>6, <1>7, <1>8, <1>9, <1>10
  DEF Next, WorkerStep, HandlerStep, IngestStep, ReadFile, IngestCrash, StoreValid, StoreInvalid,
      EnqueueResearch, FanOut, Raise, Crash, Reap, tableVars, handlerVars, vars

LEMMA FitStep ==
  ASSUME FitInv, [Next]_vars
  PROVE  FitInv'
<1>1. TypeOK' /\ RunningIsHeld' /\ ResearchFills'
  BY TypesStep, RunningStep, FillsStep DEF FitInv
<1> SUFFICES ASSUME NEW l \in Lead
             PROVE  /\ job'[Fit(l)] # "absent" => company'[CompanyOf[l]] = Column
                    /\ pc'[Fit(l)] = "store" => basis'[l] = Column
                    /\ pc'[Draft(l)] = "store" => fit'[l] # {}
                    /\ fit'[l] # {} => fit'[l] = Column
                    /\ l \in draft' => fit'[l] # {}
  BY <1>1 DEF FitInv, FitAfterResearch, FitHasResearch
<1>2. /\ job[Fit(l)] # "absent" => company[CompanyOf[l]] = Column
      /\ (fit[l] # {} => fit[l] = Column) /\ (l \in draft => fit[l] # {})
      /\ TypeOK
  BY DEF FitInv, FitAfterResearch, FitHasResearch
<1>3. CompanyOf[l] \in Company
  BY LeadPipelineAssumption
<1>4. company[CompanyOf[l]] = Column => company'[CompanyOf[l]] = Column
  BY <1>2, <1>3, ColumnsGrow
<1>5. Column # {}
  BY DEF Column
<1> QED
  BY <1>2, <1>4, <1>5, FitEnqueued, RowsMade

\* A fit is made of all four columns of a researched company and a draft only of
\* a lead with a fit, whatever fails, is retried or is ingested again.
THEOREM FitHasResearchTheorem == Spec => []FitHasResearch
<1>1. Init => FitInv
  BY FitInit
<1>2. FitInv /\ [Next]_vars => FitInv'
  BY FitStep
<1>3. FitInv => FitHasResearch
  BY DEF FitInv
<1> QED
  BY <1>1, <1>2, <1>3, PTL DEF Spec

-----------------------------------------------------------------------------
(* The status of a lead advances *)

\* While no process was killed, a draft task is enqueued by the last statement of
\* the fit before it, which does not run again, and only its handler awaits approval.
Ordered(l) ==
  /\ job[Draft(l)] # "absent" => pc[Fit(l)] = "return" \/ job[Fit(l)] = "over"
  /\ lead[l] = "awaiting_approval" => job[Draft(l)] # "absent"

OrderInv == TypeOK /\ RunningIsHeld /\ (faults = 0 => \A l \in Lead : Ordered(l))

\* What is out of the fit task's hands stays out of them.
FitDone(l) == pc[Fit(l)] = "return" \/ job[Fit(l)] = "over"

LEMMA FitStaysDone ==
  ASSUME TypeOK, RunningIsHeld, [Next]_vars, ~Crash, NEW l \in Lead, FitDone(l)
  PROVE  FitDone(l)'
<1> USE TasksDiffer, LeadPipelineAssumption DEF FitDone, RunningIsHeld
<1>1. ASSUME NEW i \in Ingest, ReadFile(i) \/ IngestStep(i) \/ IngestCrash(i)
      PROVE  FitDone(l)'
  BY <1>1, Enqueued
  DEF ReadFile, IngestStep, IngestCrash, StoreValid, StoreInvalid, EnqueueResearch, handlerVars, queueVars
<1>2. ASSUME NEW c \in Company, StartResearch(c)
      PROVE  FitDone(l)'
  BY <1>2, Taken DEF StartResearch, Goto, TypeOK
<1>3. ASSUME NEW t \in Task, StartLead(t)
      PROVE  FitDone(l)'
  BY <1>3, Taken DEF StartLead, Goto, TypeOK
<1>4. ASSUME NEW t \in Task, Complete(t)
      PROVE  FitDone(l)'
  BY <1>4, Finished DEF Complete, Goto, TypeOK
<1>5. ASSUME NEW t \in Task, Raise(t)
      PROVE  FitDone(l)'
  <2>1. job[t] = "held" /\ pc[t] # "return" /\ \A u \in Task \ {t} : job'[u] = job[u]
    BY <1>5, Charged DEF Raise
  <2>2. Fit(l) # t
    BY <2>1
  <2> QED
    BY <1>5, <2>1, <2>2 DEF Raise, Forget
<1>6. ASSUME NEW t \in Task, HandlerStep(t), ~Complete(t), ~Raise(t)
      PROVE  FitDone(l)'
  <2>1. Statement(t)
    BY <1>6, Statements
  <2>2. CASE t # Fit(l)
    BY <2>1, <2>2 DEF Statement
  <2>3. CASE t = Fit(l)
    <3>1. pc[t] = "return"
      BY <2>1, <2>3 DEF Statement
    <3> QED
      BY <1>6, <2>3, <3>1 DEF HandlerStep, LoadCompany, StoreFit, MarkReady, EnqueueDraft
  <2> QED
    BY <2>2, <2>3
<1>7. CASE Reap
  BY <1>7, Reaped DEF Reap, handlerVars
<1>8. CASE UNCHANGED vars
  BY <1>8 DEF vars, handlerVars, queueVars
<1> QED
  BY <1>1, <1>2, <1>3, <1>4, <1>5, <1>6, <1>7, <1>8 DEF Next, WorkerStep

\* A task that is in the queue stays there, and a draft task comes to it at the
\* end of the fit.
LEMMA DraftEnqueued ==
  ASSUME TypeOK, RunningIsHeld, [Next]_vars, NEW l \in Lead
  PROVE  /\ job[Draft(l)] # "absent" => job'[Draft(l)] # "absent"
         /\ job[Draft(l)] = "absent" /\ job'[Draft(l)] # "absent" => pc'[Fit(l)] = "return"
<1> USE TasksDiffer, LeadPipelineAssumption
<1> DEFINE Entered == /\ job[Draft(l)] # "absent" => job'[Draft(l)] # "absent"
                      /\ job[Draft(l)] = "absent" /\ job'[Draft(l)] # "absent" => pc'[Fit(l)] = "return"
<1>1. ASSUME NEW i \in Ingest, ReadFile(i) \/ IngestStep(i) \/ IngestCrash(i)
      PROVE  Entered
  <2>1. ASSUME NEW c \in Company, EnqueueTask(Research(c))
        PROVE  job'[Draft(l)] = job[Draft(l)]
    BY <2>1, Enqueued
  <2> QED
    BY <1>1, <2>1 DEF ReadFile, IngestStep, IngestCrash, StoreValid, StoreInvalid, EnqueueResearch, queueVars
<1>2. ASSUME NEW t \in Task, Complete(t) \/ Raise(t)
      PROVE  Entered
  BY <1>2, Finished, Charged DEF Complete, Raise
<1>3. ASSUME NEW k \in Lead, FanOut(k)
      PROVE  Entered
  BY <1>3, Enqueued DEF FanOut
<1>4. ASSUME NEW k \in Lead, EnqueueDraft(k)
      PROVE  Entered
  <2>1. EnqueueTask(Draft(k)) /\ pc'[Fit(k)] = "return"
    BY <1>4 DEF EnqueueDraft, Goto, FitOrder, TypeOK
  <2>2. \A u \in Task : job'[u] = job[u] \/ (u = Draft(k) /\ job[u] = "absent" /\ job'[u] = "queued")
    BY <2>1, Enqueued
  <2> QED
    BY <2>1, <2>2
<1>5. ASSUME NEW t \in Task, StartLead(t) \/ \E c \in Company : StartResearch(c)
      PROVE  Entered
  BY <1>5, Taken DEF StartLead, StartResearch
<1>6. CASE Reap \/ Crash
  BY <1>6, Reaped, Crashed
<1>7. CASE UNCHANGED queueVars
  BY <1>7 DEF queueVars
<1> QED
  BY <1>1, <1>2, <1>3, <1>4, <1>5, <1>6, <1>7
  DEF Next, WorkerStep, HandlerStep, WriteColumn, SelectLeads, LoadCompany, StoreFit, MarkReady,
      LoadFit, StoreDraft, MarkAwaitingApproval, vars

\* Who may set the status of a lead, and to what.
LEMMA StatusMoves ==
  ASSUME TypeOK, [Next]_vars, NEW l \in Lead
  PROVE  \/ lead'[l] = lead[l] \/ lead'[l] = "validated"
         \/ lead[l] = "absent" /\ lead'[l] = "suppressed"
         \/ pc[Fit(l)] = "lead" /\ lead'[l] = "ready"
         \/ pc[Draft(l)] = "lead" /\ lead'[l] = "awaiting_approval"
<1> DEFINE Moves == \/ lead'[l] = lead[l] \/ lead'[l] = "validated"
                    \/ lead[l] = "absent" /\ lead'[l] = "suppressed"
                    \/ pc[Fit(l)] = "lead" /\ lead'[l] = "ready"
                    \/ pc[Draft(l)] = "lead" /\ lead'[l] = "awaiting_approval"
<1>1. CASE UNCHANGED lead
  BY <1>1
<1>2. ASSUME NEW i \in Ingest, NEW k \in Lead, StoreValid(i, k) \/ StoreInvalid(i, k)
      PROVE  Moves
  BY <1>2 DEF StoreValid, StoreInvalid, FilteredStatus, TypeOK
<1>3. ASSUME NEW k \in Lead, MarkReady(k) \/ MarkAwaitingApproval(k)
      PROVE  Moves
  BY <1>3 DEF MarkReady, MarkAwaitingApproval, TypeOK
<1> QED
  BY <1>1, <1>2, <1>3
  DEF Next, WorkerStep, HandlerStep, IngestStep, ReadFile, IngestCrash, EnqueueResearch, StartResearch,
      StartLead, WriteColumn, SelectLeads, FanOut, LoadCompany, StoreFit, EnqueueDraft, LoadFit,
      StoreDraft, Complete, Raise, Crash, Reap, tableVars, vars

LEMMA OrderInit == Init => OrderInv
BY TypesInit, TasksDiffer DEF Init, OrderInv, RunningIsHeld, Ordered, Queue!QueueInit

LEMMA FaultsGrow ==
  ASSUME TypeOK, [Next]_vars, faults' = 0
  PROVE  faults = 0 /\ ~Crash
<1>1. faults \in Nat
  BY LeadPipelineAssumption DEF TypeOK
<1>2. faults' = faults \/ faults' = faults + 1
  <2>1. CASE Crash
    BY <2>1 DEF Crash
  <2>2. ASSUME NEW i \in Ingest, ReadFile(i) \/ IngestStep(i) \/ IngestCrash(i)
        PROVE  faults' = faults \/ faults' = faults + 1
    BY <2>2 DEF ReadFile, IngestStep, IngestCrash, StoreValid, StoreInvalid, EnqueueResearch
  <2>3. CASE WorkerStep \/ UNCHANGED vars
    BY <2>3 DEF WorkerStep, HandlerStep, StartResearch, StartLead, WriteColumn, SelectLeads, FanOut,
       LoadCompany, StoreFit, MarkReady, EnqueueDraft, LoadFit, StoreDraft, MarkAwaitingApproval,
       Complete, Raise, Reap, vars
  <2> QED
    BY <2>1, <2>2, <2>3 DEF Next
<1>3. Crash => faults' = faults + 1
  BY DEF Crash
<1> QED
  BY <1>1, <1>2, <1>3

LEMMA OrderStep ==
  ASSUME OrderInv, [Next]_vars
  PROVE  OrderInv'
<1>1. TypeOK' /\ RunningIsHeld'
  BY TypesStep, RunningStep DEF OrderInv
<1>2. ASSUME faults' = 0, NEW l \in Lead PROVE Ordered(l)'
  <2>1. Ordered(l) /\ ~Crash /\ TypeOK /\ RunningIsHeld
    BY <1>2, FaultsGrow DEF OrderInv
  <2>2. job'[Draft(l)] # "absent" => FitDone(l)'
    BY <2>1, DraftEnqueued, FitStaysDone DEF Ordered, FitDone
  <2>3. pc[Draft(l)] = "lead" => job[Draft(l)] # "absent"
    BY <2>1, TasksDiffer DEF RunningIsHeld
  <2>4. lead'[l] = "awaiting_approval" => job'[Draft(l)] # "absent"
    BY <2>1, <2>3, StatusMoves, DraftEnqueued DEF Ordered
  <2> QED
    BY <2>2, <2>4 DEF Ordered, FitDone
<1> QED
  BY <1>1, <1>2 DEF OrderInv

\* Unless a process was killed, the status of a lead goes back only by its file being
\* ingested again: no late fit makes a lead ready whose draft awaits approval.
THEOREM StatusAdvancesTheorem == Spec => StatusAdvances
<1> DEFINE Advance ==
      \A l \in Lead : Rank(lead'[l]) < Rank(lead[l]) => lead'[l] = "validated" \/ faults > 0
<1>1. ASSUME OrderInv, [Next]_vars PROVE [Advance]_vars
  <2> SUFFICES ASSUME NEW l \in Lead, Rank(lead'[l]) < Rank(lead[l]), lead'[l] # "validated", ~(faults > 0)
               PROVE  FALSE
    OBVIOUS
  <2>1. faults = 0 /\ TypeOK /\ RunningIsHeld /\ Ordered(l)
    <3>1. faults = 0
      BY <1>1, LeadPipelineAssumption DEF OrderInv, TypeOK
    <3> QED
      BY <1>1, <3>1 DEF OrderInv
  <2>2. lead[l] \in LeadStatus
    BY <2>1 DEF TypeOK
  <2>3. pc[Fit(l)] = "lead" /\ lead'[l] = "ready" /\ lead[l] = "awaiting_approval"
    BY <1>1, <2>1, <2>2, StatusMoves DEF Rank, LeadStatus
  <2>4. job[Fit(l)] = "over"
    BY <2>1, <2>3 DEF Ordered
  <2> QED
    BY <2>1, <2>3, <2>4, TasksDiffer DEF RunningIsHeld
<1> QED
  BY OrderInit, OrderStep, <1>1, PTL DEF Spec, StatusAdvances

-----------------------------------------------------------------------------
(* The parts the pipeline is made of *)

\* Whatever handlers do and wherever they stop, the tasks are jobs of the queue.
LEMMA QueueImplemented ==
  ASSUME [Next]_vars
  PROVE  [Queue!QueueNext]_(Queue!queueVars)
<1>1. ASSUME NEW t \in Task, Queue!Submit(t) \/ Queue!Finish(t) \/ Queue!Retry(t) \/ Queue!GiveUp(t)
      PROVE  Queue!QueueNext
  BY <1>1 DEF Queue!QueueNext
<1>2. ASSUME NEW S \in SUBSET Task, Queue!Take(S) \/ Queue!Lose(S) \/ Queue!Recover(S)
      PROVE  Queue!QueueNext
  BY <1>2 DEF Queue!QueueNext
<1>3. \A t \in Task : {t} \in SUBSET Task
  OBVIOUS
<1>4. QueueStep
  BY NextIsQueueStep
<1> QED
  BY <1>1, <1>2, <1>3, <1>4 DEF QueueStep, queueVars, Queue!queueVars

\* The research of c moves by its own statements.
LEMMA ResearchMoves ==
  ASSUME TypeOK, RunningIsHeld, [Next]_vars, NEW c \in Company
  PROVE  \/ pc'[Research(c)] = pc[Research(c)] /\ company'[c] = company[c]
         \/ pc'[Research(c)] = "none" /\ company'[c] = company[c]
         \/ pc[Research(c)] = "none" /\ pc'[Research(c)] = "profile" /\ company'[c] = company[c]
         \/ pc[Research(c)] = "select" /\ pc'[Research(c)] = "fanout" /\ company'[c] = company[c]
         \/ /\ pc[Research(c)] \in Column /\ pc'[Research(c)] = ResearchOrder[pc[Research(c)]]
            /\ company'[c] = company[c] \cup {pc[Research(c)]}
<1> USE TasksDiffer
<1> DEFINE at == pc[Research(c)]
<1>1. /\ pc \in [Task -> HandlerPc] /\ company \in [Company -> SUBSET Column] /\ Research(c) \in Task
  BY DEF TypeOK
<1>2. ASSUME NEW i \in Ingest, ReadFile(i) \/ IngestStep(i) \/ IngestCrash(i)
      PROVE  pc' = pc /\ company' = company
  BY <1>2 DEF ReadFile, IngestStep, IngestCrash, StoreValid, StoreInvalid, EnqueueResearch, handlerVars, tableVars
<1>3. ASSUME NEW d \in Company, StartResearch(d)
      PROVE  /\ company' = company
             /\ pc'[Research(c)] = at \/ (at = "none" /\ pc'[Research(c)] = "profile")
  <2>1. pc[Research(d)] = "none"
    BY <1>3, Taken DEF StartResearch, RunningIsHeld
  <2> QED
    BY <1>1, <1>3, <2>1 DEF StartResearch, Goto, tableVars
<1>4. ASSUME NEW t \in Task, StartLead(t)
      PROVE  company' = company /\ pc'[Research(c)] = at
  BY <1>1, <1>4 DEF StartLead, Goto, tableVars
<1>5. ASSUME NEW d \in Company, WriteColumn(d)
      PROVE  \/ company'[c] = company[c] /\ pc'[Research(c)] = at
             \/ /\ at \in Column /\ pc'[Research(c)] = ResearchOrder[at]
                /\ company'[c] = company[c] \cup {at}
  <2>1. CASE d = c
    BY <1>1, <1>5, <2>1 DEF WriteColumn, Goto
  <2>2. CASE d # c
    BY <1>1, <1>5, <2>2 DEF WriteColumn, Goto
  <2> QED
    BY <2>1, <2>2
<1>6. ASSUME NEW d \in Company, SelectLeads(d)
      PROVE  /\ company' = company
             /\ pc'[Research(c)] = at \/ (at = "select" /\ pc'[Research(c)] = "fanout")
  BY <1>1, <1>6 DEF SelectLeads, Goto, tableVars
<1>7. ASSUME NEW l \in Lead, \/ FanOut(l) \/ LoadCompany(l) \/ StoreFit(l) \/ MarkReady(l) \/ EnqueueDraft(l)
                            \/ LoadFit(l) \/ StoreDraft(l) \/ MarkAwaitingApproval(l)
      PROVE  company' = company /\ pc'[Research(c)] = at
  BY <1>1, <1>7 DEF FanOut, LoadCompany, StoreFit, MarkReady, EnqueueDraft, LoadFit, StoreDraft,
     MarkAwaitingApproval, Goto, tableVars
<1>8. ASSUME NEW t \in Task, Complete(t) \/ Raise(t)
      PROVE  company' = company /\ (pc'[Research(c)] = at \/ pc'[Research(c)] = "none")
  <2>1. CASE Complete(t)
    BY <1>1, <2>1 DEF Complete, Goto, tableVars
  <2>2. CASE Raise(t)
    BY <1>1, <2>2 DEF Raise, Forget, tableVars
  <2> QED
    BY <1>8, <2>1, <2>2
<1>9. CASE Reap \/ UNCHANGED vars
  BY <1>9 DEF Reap, vars, handlerVars, tableVars
<1>10. CASE Crash
  BY <1>1, <1>10, Crashed DEF Crash, tableVars
<1>11. ASSUME NEW t \in Task, HandlerStep(t)
       PROVE  \/ \E d \in Company : WriteColumn(d) \/ SelectLeads(d)
              \/ \E l \in Lead : \/ FanOut(l) \/ LoadCompany(l) \/ StoreFit(l) \/ MarkReady(l) \/ EnqueueDraft(l)
                                 \/ LoadFit(l) \/ StoreDraft(l) \/ MarkAwaitingApproval(l)
              \/ Complete(t) \/ Raise(t)
  BY <1>11 DEF HandlerStep
<1> QED
  BY <1>2, <1>3, <1>4, <1>5, <1>6, <1>7, <1>8, <1>9, <1>10, <1>11 DEF Next, WorkerStep

\* Between those of other handlers, the statements of research are those of Columns.
LEMMA ColumnsImplemented ==
  ASSUME TypeOK, RunningIsHeld, [Next]_vars, NEW c \in Company
  PROVE  [ColumnsOf(c)!ColumnsNext]_(ColumnsOf(c)!columnsVars)
<1> DEFINE at == pc[Research(c)]
           then == pc'[Research(c)]
           Next1 == [d \in {c} |-> NextColumn(d)]
<1>1. /\ NextColumn(c) = IF at = "jobs" THEN "classification" ELSE IF at \in Column THEN at ELSE "none"
      /\ NextColumn(c)' = IF then = "jobs" THEN "classification" ELSE IF then \in Column THEN then ELSE "none"
  BY DEF NextColumn, Column
<1>2. Next1[c] = NextColumn(c) /\ \A v : NextColumn(c)' = v => Next1' = [Next1 EXCEPT ![c] = v]
  OBVIOUS
<1>3. NextColumn(c)' = NextColumn(c) => Next1' = Next1
  OBVIOUS
<1>4. CASE NextColumn(c)' = NextColumn(c) /\ company'[c] \ {"jobs"} = company[c] \ {"jobs"}
  BY <1>3, <1>4 DEF ColumnsOf!columnsVars
<1>5. CASE NextColumn(c) # "none" /\ NextColumn(c)' = "none" /\ company'[c] = company[c]
  <2>1. ColumnsOf(c)!Leave(c)
    BY <1>2, <1>5 DEF ColumnsOf!Leave, ColumnsOf!Goto
  <2> QED
    BY <2>1 DEF ColumnsOf!ColumnsNext
<1>6. CASE NextColumn(c) = "none" /\ NextColumn(c)' = "profile" /\ company'[c] = company[c]
  <2>1. ColumnsOf(c)!Begin(c)
    BY <1>2, <1>6 DEF ColumnsOf!Begin, ColumnsOf!Goto
  <2> QED
    BY <2>1 DEF ColumnsOf!ColumnsNext
<1>7. CASE at \in Column /\ then = ResearchOrder[at] /\ company'[c] = company[c] \cup {at}
  <2>1. CASE at = "jobs"
    <3>1. then = "classification"
      BY <1>7, <2>1 DEF ResearchOrder
    <3> QED
      BY <1>1, <1>4, <1>7, <2>1, <3>1 DEF Column
  <2>2. CASE at # "jobs"
    <3>1. NextColumn(c) = at /\ at # "none" /\ NextColumn(c)' = ColumnsOf(c)!After[at]
      BY <1>1, <1>7, <2>2 DEF ResearchOrder, Column, ColumnsOf!After
    <3>2. company'[c] \ {"jobs"} = (company[c] \ {"jobs"}) \cup {at}
      BY <1>7, <2>2
    <3>3. ColumnsOf(c)!Fill(c)
      BY <1>2, <3>1, <3>2 DEF ColumnsOf!Fill, ColumnsOf!Goto
    <3> QED
      BY <3>3 DEF ColumnsOf!ColumnsNext
  <2> QED
    BY <2>1, <2>2
<1>8. CASE company'[c] = company[c] /\ (then = at \/ (at = "select" /\ then = "fanout"))
  BY <1>1, <1>4, <1>8 DEF Column
<1>9. CASE company'[c] = company[c] /\ then = "none"
  BY <1>1, <1>4, <1>5, <1>9 DEF Column
<1>10. CASE company'[c] = company[c] /\ at = "none" /\ then = "profile"
  BY <1>1, <1>6, <1>10 DEF Column
<1> QED
  BY <1>7, <1>8, <1>9, <1>10, ResearchMoves

\* The draft of l moves by its own statements; others set the status of l, and none
\* of them to awaiting_approval.
LEMMA DraftMoves ==
  ASSUME TypeOK, RunningIsHeld, [Next]_vars, NEW l \in Lead
  PROVE  \/ /\ pc'[Draft(l)] = pc[Draft(l)] /\ (l \in draft' <=> l \in draft)
            /\ lead'[l] = lead[l] \/ lead'[l] # "awaiting_approval"
         \/ /\ pc'[Draft(l)] \in {"none", "load"} /\ (l \in draft' <=> l \in draft) /\ lead'[l] = lead[l]
         \/ /\ pc[Draft(l)] = "load" /\ pc'[Draft(l)] = "store"
            /\ (l \in draft' <=> l \in draft) /\ lead'[l] = lead[l]
         \/ /\ pc[Draft(l)] = "store" /\ pc'[Draft(l)] = "lead" /\ l \in draft' /\ lead'[l] = lead[l]
         \/ /\ pc[Draft(l)] = "lead" /\ pc'[Draft(l)] = "return"
            /\ (l \in draft' <=> l \in draft) /\ lead'[l] = "awaiting_approval"
<1> USE TasksDiffer
<1> DEFINE at == pc[Draft(l)]
           Same == (l \in draft' <=> l \in draft) /\ lead'[l] = lead[l]
<1>1. /\ pc \in [Task -> HandlerPc] /\ lead \in [Lead -> LeadStatus] /\ Draft(l) \in Task
  BY DEF TypeOK
<1>2. ASSUME NEW i \in Ingest, ReadFile(i) \/ IngestStep(i) \/ IngestCrash(i)
      PROVE  /\ pc' = pc /\ draft' = draft
             /\ lead'[l] = lead[l] \/ lead'[l] # "awaiting_approval"
  <2>1. CASE ReadFile(i) \/ IngestCrash(i)
    BY <2>1 DEF ReadFile, IngestCrash, handlerVars, tableVars
  <2>2. ASSUME NEW k \in Lead, StoreValid(i, k)
        PROVE  pc' = pc /\ draft' = draft /\ (lead'[l] = lead[l] \/ lead'[l] # "awaiting_approval")
    BY <1>1, <2>2 DEF StoreValid, handlerVars
  <2>3. ASSUME NEW k \in Lead, StoreInvalid(i, k)
        PROVE  pc' = pc /\ draft' = draft /\ (lead'[l] = lead[l] \/ lead'[l] # "awaiting_approval")
    BY <1>1, <2>3 DEF StoreInvalid, FilteredStatus, handlerVars
  <2>4. ASSUME NEW c \in Company, EnqueueResearch(i, c)
        PROVE  pc' = pc /\ draft' = draft /\ lead' = lead
    BY <2>4 DEF EnqueueResearch, handlerVars, tableVars
  <2> QED
    BY <1>2, <2>1, <2>2, <2>3, <2>4 DEF IngestStep
<1>3. ASSUME NEW t \in Task, StartLead(t)
      PROVE  Same /\ (pc'[Draft(l)] = at \/ pc'[Draft(l)] = "load")
  BY <1>1, <1>3 DEF StartLead, Goto, tableVars
<1>4. ASSUME NEW c \in Company, StartResearch(c) \/ WriteColumn(c) \/ SelectLeads(c)
      PROVE  Same /\ pc'[Draft(l)] = at
  BY <1>1, <1>4 DEF StartResearch, WriteColumn, SelectLeads, Goto, tableVars
<1>5. ASSUME NEW k \in Lead, FanOut(k) \/ LoadCompany(k) \/ StoreFit(k) \/ EnqueueDraft(k)
      PROVE  Same /\ pc'[Draft(l)] = at
  BY <1>1, <1>5 DEF FanOut, LoadCompany, StoreFit, EnqueueDraft, Goto, tableVars
<1>6. ASSUME NEW k \in Lead, MarkReady(k)
      PROVE  /\ pc'[Draft(l)] = at /\ draft' = draft
             /\ lead'[l] = lead[l] \/ lead'[l] # "awaiting_approval"
  BY <1>1, <1>6 DEF MarkReady, Goto
<1>7. ASSUME NEW k \in Lead, LoadFit(k)
      PROVE  Same /\ (pc'[Draft(l)] = at \/ (at = "load" /\ pc'[Draft(l)] = "store"))
  BY <1>1, <1>7 DEF LoadFit, Goto, tableVars
<1>8. ASSUME NEW k \in Lead, StoreDraft(k)
      PROVE  \/ Same /\ pc'[Draft(l)] = at
             \/ at = "store" /\ pc'[Draft(l)] = "lead" /\ l \in draft' /\ lead'[l] = lead[l]
  <2>1. CASE k = l
    BY <1>1, <1>8, <2>1 DEF StoreDraft, Goto
  <2>2. CASE k # l
    BY <1>1, <1>8, <2>2 DEF StoreDraft, Goto
  <2> QED
    BY <2>1, <2>2
<1>9. ASSUME NEW k \in Lead, MarkAwaitingApproval(k)
      PROVE  \/ Same /\ pc'[Draft(l)] = at
             \/ /\ at = "lead" /\ pc'[Draft(l)] = "return" /\ draft' = draft
                /\ lead'[l] = "awaiting_approval"
  <2>1. CASE k = l
    BY <1>1, <1>9, <2>1 DEF MarkAwaitingApproval, Goto
  <2>2. CASE k # l
    BY <1>1, <1>9, <2>2 DEF MarkAwaitingApproval, Goto
  <2> QED
    BY <2>1, <2>2
<1>10. ASSUME NEW t \in Task, Complete(t) \/ Raise(t)
       PROVE  Same /\ (pc'[Draft(l)] = at \/ pc'[Draft(l)] = "none")
  <2>1. CASE Complete(t)
    BY <1>1, <2>1 DEF Complete, Goto, tableVars
  <2>2. CASE Raise(t)
    BY <1>1, <2>2 DEF Raise, Forget, tableVars
  <2> QED
    BY <1>10, <2>1, <2>2
<1>11. CASE Reap \/ UNCHANGED vars
  BY <1>11 DEF Reap, vars, handlerVars, tableVars
<1>12. CASE Crash
  BY <1>1, <1>12, Crashed DEF Crash, tableVars
<1>13. ASSUME NEW t \in Task, HandlerStep(t)
       PROVE  \/ \E c \in Company : WriteColumn(c) \/ SelectLeads(c)
              \/ \E k \in Lead : \/ FanOut(k) \/ LoadCompany(k) \/ StoreFit(k) \/ MarkReady(k)
                                 \/ EnqueueDraft(k) \/ LoadFit(k) \/ StoreDraft(k) \/ MarkAwaitingApproval(k)
              \/ Complete(t) \/ Raise(t)
  BY <1>13 DEF HandlerStep
<1>14. CASE \E t \in Task : HandlerStep(t)
  BY <1>4, <1>5, <1>6, <1>7, <1>8, <1>9, <1>10, <1>13, <1>14
<1> QED
  BY <1>2, <1>3, <1>4, <1>11, <1>12, <1>14 DEF Next, WorkerStep

\* Between those of other handlers and of ingest, the statements that draft a lead
\* are those of Drafting.
LEMMA DraftingImplemented ==
  ASSUME TypeOK, RunningIsHeld, [Next]_vars, NEW l \in Lead
  PROVE  [DraftingOf(l)!DraftingNext]_(DraftingOf(l)!draftingVars)
<1> DEFINE at == pc[Draft(l)]
           then == pc'[Draft(l)]
           Stored == {k \in {l} : pc[Draft(k)] = "lead"}
<1>1. /\ Stored = IF at = "lead" THEN {l} ELSE {}
      /\ Stored' = IF then = "lead" THEN {l} ELSE {}
  OBVIOUS
<1>2. CASE Stored' = Stored /\ (l \in draft' <=> l \in draft)
           /\ (lead'[l] = lead[l] \/ lead'[l] # "awaiting_approval")
  <2>1. CASE (lead'[l] = "awaiting_approval") = (lead[l] = "awaiting_approval")
    BY <1>2, <2>1 DEF DraftingOf!draftingVars
  <2>2. CASE lead[l] = "awaiting_approval" /\ lead'[l] # "awaiting_approval"
    <3>1. DraftingOf(l)!TakeBack
      BY <1>2, <2>2 DEF DraftingOf!TakeBack
    <3> QED
      BY <3>1 DEF DraftingOf!DraftingNext
  <2> QED
    BY <1>2, <2>1, <2>2
<1>3. CASE at = "lead" /\ then # "lead" /\ (l \in draft' <=> l \in draft) /\ lead'[l] = lead[l]
  <2>1. DraftingOf(l)!Leave(l)
    BY <1>1, <1>3 DEF DraftingOf!Leave
  <2> QED
    BY <2>1 DEF DraftingOf!DraftingNext
<1>4. CASE at = "store" /\ then = "lead" /\ l \in draft' /\ lead'[l] = lead[l]
  <2>1. DraftingOf(l)!StoreDraft(l)
    BY <1>1, <1>4 DEF DraftingOf!StoreDraft
  <2> QED
    BY <2>1 DEF DraftingOf!DraftingNext
<1>5. CASE at = "lead" /\ then = "return" /\ (l \in draft' <=> l \in draft)
           /\ lead'[l] = "awaiting_approval"
  <2>1. DraftingOf(l)!MarkAwaitingApproval(l)
    BY <1>1, <1>5 DEF DraftingOf!MarkAwaitingApproval
  <2> QED
    BY <2>1 DEF DraftingOf!DraftingNext
<1> QED
  BY <1>1, <1>2, <1>3, <1>4, <1>5, DraftMoves

LEMMA PartsInit ==
  ASSUME Init
  PROVE  /\ Queue!QueueInit
         /\ \A c \in Company : ColumnsOf(c)!ColumnsInit
         /\ \A l \in Lead : DraftingOf(l)!DraftingInit
<1>1. Queue!QueueInit
  BY DEF Init
<1>2. ASSUME NEW c \in Company PROVE ColumnsOf(c)!ColumnsInit
  <2>1. pc[Research(c)] = "none" /\ company[c] = {}
    BY TasksDiffer DEF Init
  <2>2. NextColumn(c) = "none"
    BY <2>1 DEF NextColumn, Column
  <2> QED
    BY <2>1, <2>2 DEF ColumnsOf!ColumnsInit
<1>3. ASSUME NEW l \in Lead PROVE DraftingOf(l)!DraftingInit
  <2>1. pc[Draft(l)] = "none" /\ l \notin draft /\ lead[l] = "absent"
    BY TasksDiffer DEF Init
  <2> QED
    BY <2>1 DEF DraftingOf!DraftingInit
<1> QED
  BY <1>1, <1>2, <1>3

\* Whatever fails, is killed or is ingested again, the pipeline is the queue, the
\* research of each company and the drafting of each lead put together.
THEOREM PartsTheorem == Spec => ImplementsParts
<1> DEFINE Parts ==
      /\ \A c \in Company : [ColumnsOf(c)!ColumnsNext]_(ColumnsOf(c)!columnsVars)
      /\ \A l \in Lead : [DraftingOf(l)!DraftingNext]_(DraftingOf(l)!draftingVars)
<1>1. TypeOK /\ RunningIsHeld /\ [Next]_vars => [Parts]_vars
  BY ColumnsImplemented, DraftingImplemented
<1>2. [Next]_vars => [Queue!QueueNext]_(Queue!queueVars)
  BY QueueImplemented
<1>3. TypeOK /\ RunningIsHeld /\ [Next]_vars => (TypeOK /\ RunningIsHeld)'
  BY TypesStep, RunningStep
<1>4. Init => RunningIsHeld
  BY OrderInit DEF OrderInv
<1> QED
  BY <1>1, <1>2, <1>3, <1>4, TypesInit, PartsInit, PTL DEF Spec, ImplementsParts, Queue!QueueSpec
=============================================================================
