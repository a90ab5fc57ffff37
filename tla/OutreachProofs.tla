---------------------------- MODULE OutreachProofs ----------------------------
(***************************************************************************)
(* Proofs about Outreach, for any leads, requests and texts, with the       *)
(* worker, cold-mailer run or both delivering, and any number of crashes of *)
(* either process.                                                          *)
(***************************************************************************)
EXTENDS Outreach, DeliveryProofs

-----------------------------------------------------------------------------
(* Steps of Outreach as steps of Delivery *)

\* What the web process and A7 do to the state of Delivery: they set the status
\* of a lead, enqueue a send that is not there, and may die; cold-mailer run
\* leaves a lead to the human.
WebStep ==
  /\ UNCHANGED <<call, message, sentOrder, suppressed, budget, triage, clockVars, mails>>
  /\ lead' \in [Lead -> LeadStatus]
  /\ UNCHANGED taskVars \/ \E l \in Lead : Queue!Submit(l)
  /\ cliLeft' \subseteq cliLeft
  /\ faults <= faults' /\ faults' \in 0..MaxFaults

\* The types of both modules.
Types == TypeOK /\ OutreachTypeOK

\* Each step of Outreach is one of Delivery's, or a web step.
LEMMA OutreachSteps ==
  ASSUME Types, [OutreachNext]_outreachVars
  PROVE  [Next]_vars \/ WebStep
<1>0. /\ lead \in [Lead -> LeadStatus] /\ faults \in Nat /\ faults \in 0..MaxFaults
      /\ request \in [Request -> [pc : RequestPc, verb : Verb, lead : Lead, text : 0..MaxVersion]]
      /\ {"approved", "rejected", "awaiting_approval"} \subseteq LeadStatus
  BY DEF Types, TypeOK, OutreachTypeOK, LeadStatus
<1>1. ASSUME NEW r \in Request, \/ UpdateDraft(r) \/ LogDecision(r) \/ Edit(r)
                                \/ \E l \in Lead : ViewDraft(r, l)
                                \/ \E verb \in Verb : Decide(r, verb)
      PROVE  UNCHANGED vars
  BY <1>1 DEF UpdateDraft, LogDecision, Edit, ViewDraft, Decide
<1>2. ASSUME NEW r \in Request, UpdateLead(r)
      PROVE  WebStep
  BY <1>0, <1>2 DEF UpdateLead, WebStep
<1>3. ASSUME NEW r \in Request, EnqueueSend(r)
      PROVE  WebStep
  <2>1. UNCHANGED taskVars \/ \E l \in Lead : Queue!Submit(l)
    BY <1>0, <1>3 DEF EnqueueSend
  <2>2. UNCHANGED <<call, message, sentOrder, suppressed, budget, triage, clockVars, mails, lead, cliLeft, faults>>
    BY <1>3 DEF EnqueueSend, tableVars
  <2> QED
    BY <1>0, <2>1, <2>2 DEF WebStep
<1>4. CASE WebCrash
  <2>1. faults < MaxFaults /\ faults' = faults + 1 /\ MaxFaults \in Nat
    BY <1>4, DeliveryAssumption DEF WebCrash
  <2>2. UNCHANGED <<taskVars, call, cliLeft, tableVars, triage, clockVars, mails>>
    BY <1>4 DEF WebCrash
  <2> QED
    BY <1>0, <2>1, <2>2 DEF WebStep, tableVars
<1>5. ASSUME NEW k \in Key, DeliverText(k)
      PROVE  Next
  BY <1>5 DEF DeliverText, Next
<1>6. ASSUME NEW k \in Key, DraftedLead(k)
      PROVE  WebStep
  BY <1>0, <1>6 DEF DraftedLead, WebStep, Key
<1>7. ASSUME NEW k \in Key, \E status \in {"draft", "awaiting_approval"} : UpsertDraft(k, status)
      PROVE  UNCHANGED vars
  BY <1>7 DEF UpsertDraft
<1>8. ASSUME NEW l \in Lead, CliDelivers(l)
      PROVE  Next \/ WebStep
  <2>1. StartCli(l) => Next
    BY DEF Next
  <2>2. ~StartCli(l) => WebStep
    BY <1>0, <1>8 DEF CliDelivers, WebStep, tableVars
  <2> QED
    BY <2>1, <2>2
<1>9. CASE Elsewhere
  BY <1>9 DEF Elsewhere, Next
<1>10. CASE WorkerCrash
  BY <1>10 DEF WorkerCrash, Next
<1>11. CASE UNCHANGED outreachVars
  BY <1>11 DEF outreachVars
<1> QED
  BY <1>1, <1>2, <1>3, <1>4, <1>5, <1>6, <1>7, <1>8, <1>9, <1>10, <1>11 DEF OutreachNext, Web

\* A web step keeps the types of Delivery, its dates and its balance of mails.
LEMMA WebKeepsTypes ==
  ASSUME TypeOK, WebStep
  PROVE  TypeOK'
<1>1. Queue!QueueTypeOK'
  BY QueueKeepsType DEF WebStep, TypeOK, taskVars, Queue!QueueTypeOK
<1> QED
  BY <1>1 DEF WebStep, TypeOK, clockVars

LEMMA WebKeepsDates ==
  ASSUME Dates, WebStep
  PROVE  Dates'
BY DEF WebStep, Dates, DateIsKnown, RowsTillToday, clockVars

LEMMA WebKeepsMails ==
  ASSUME TypeOK, MailInv, WebStep
  PROVE  MailInv'
<1>0. /\ job \in [Lead -> Queue!JobState]
      /\ UNCHANGED <<call, message, mails>> /\ cliLeft' \subseteq cliLeft
      /\ faults \in Int /\ faults' \in Int /\ faults <= faults'
  BY DEF TypeOK, WebStep, Queue!QueueTypeOK
<1>1. \A l \in Lead : job'[l] = job[l] \/ (job[l] = "absent" /\ job'[l] = "queued")
  BY <1>0 DEF WebStep, taskVars, Queue!Submit, Queue!Move
<1>2. CallsAreHeld' /\ CliCallsLeft' /\ RaisesBesideRow'
  BY <1>0, <1>1 DEF MailInv, CallsAreHeld, CliCallsLeft, RaisesBesideRow, At
<1>3. ASSUME NEW l \in Lead
      PROVE  MailsLeft(l)'
  <2>1. WorkerMayMail(l)' => WorkerMayMail(l)
    BY <1>0, <1>1 DEF WorkerMayMail
  <2>2. CliMayMail(l)' => CliMayMail(l)
    BY <1>0 DEF CliMayMail
  <2> DEFINE N == Cardinality(Caller)
  <2>3. N \in Nat /\ mails[l] \in Int /\ mails'[l] = mails[l]
    BY <1>0, CallersAreFew DEF TypeOK
  <2>4. mails[l] + One(WorkerMayMail(l)) + One(CliMayMail(l)) <= N + faults
    BY DEF MailInv, MailsLeft
  <2> HIDE DEF N
  <2>5. mails'[l] + One(WorkerMayMail(l)') + One(CliMayMail(l)') <= N + faults'
    BY <1>0, <2>1, <2>2, <2>3, <2>4 DEF One
  <2> QED
    BY <2>5 DEF MailsLeft, One, N
<1> QED
  BY <1>2, <1>3 DEF MailInv

-----------------------------------------------------------------------------
(* Texts *)

\* A request past its form carries a text.
RequestsHaveText ==
  \A r \in Request : request[r].pc \in {"draft", "lead", "log", "enqueue"} => request[r].text \in Text

\* So does a generate_draft call under way; the first text of a lead is there.
DraftersHaveText == \A k \in Key : drafting[k].pc # "none" => drafting[k].text \in Text

\* A request that is about to enqueue has its decision on record.
EnqueuersAreLogged ==
  \A r \in Request : RequestAt(r, "enqueue") => request[r].text \in ApprovedTexts(request[r].lead)

\* The text of a task is one somebody approved.
TasksAreApproved == \A l \in Lead : job[l] # "absent" => payload[l] \in ApprovedTexts(l)

\* cold-mailer run delivers the text it has drafted, and drafts it once.
CliHasDrafted ==
  \A l \in Lead : <<"cli", l>> \in Key /\ ~At(<<"cli", l>>, "none") => drafting[<<"cli", l>>].pc = "delivering"

\* What has been mailed is the text of the task or that of cold-mailer run.
TaskText(l) == IF job[l] = "absent" THEN {} ELSE {payload[l]}
CliText(l) ==
  {drafting[k].text : k \in {q \in Key : q = <<"cli", l>> /\ drafting[q].pc = "delivering"}}
MailedTexts == \A l \in Lead : mailed[l] \subseteq TaskText(l) \cup CliText(l)

TextInv ==
  /\ CallsAreHeld /\ RequestsHaveText /\ DraftersHaveText /\ EnqueuersAreLogged /\ TasksAreApproved
  /\ CliHasDrafted /\ MailedTexts

\* Membership in the two sets, in this state and the next.
LEMMA TextsInWords ==
  ASSUME NEW l, NEW x
  PROVE  /\ x \in CliText(l) <=> /\ <<"cli", l>> \in Key /\ drafting[<<"cli", l>>].pc = "delivering"
                                 /\ x = drafting[<<"cli", l>>].text
         /\ x \in CliText(l)' <=> /\ <<"cli", l>> \in Key /\ drafting'[<<"cli", l>>].pc = "delivering"
                                  /\ x = drafting'[<<"cli", l>>].text
         /\ x \in ApprovedTexts(l) <=> \E a \in approvals[l] : a.verb \in {"approve", "edit"} /\ x = a.text
         /\ x \in ApprovedTexts(l)' <=> \E a \in approvals'[l] : a.verb \in {"approve", "edit"} /\ x = a.text
<1>1. /\ x \in CliText(l) <=> /\ <<"cli", l>> \in Key /\ drafting[<<"cli", l>>].pc = "delivering"
                              /\ x = drafting[<<"cli", l>>].text
      /\ x \in CliText(l)' <=> /\ <<"cli", l>> \in Key /\ drafting'[<<"cli", l>>].pc = "delivering"
                               /\ x = drafting'[<<"cli", l>>].text
  BY DEF CliText
<1>2. /\ x \in ApprovedTexts(l) <=> \E a \in approvals[l] : a.verb \in {"approve", "edit"} /\ x = a.text
      /\ x \in ApprovedTexts(l)' <=> \E a \in approvals'[l] : a.verb \in {"approve", "edit"} /\ x = a.text
  BY DEF ApprovedTexts
<1> QED
  BY <1>1, <1>2

\* The types of the variables of Outreach, told apart.
Requests == [pc : RequestPc, verb : Verb, lead : Lead, text : 0..MaxVersion]
Draftings == [pc : {"none", "lead", "check", "delivering"}, text : 0..MaxVersion]

\* A step of the worker, of triage, of the operator's list or of time leaves the
\* texts alone, queues nothing new and begins no call of cold-mailer run.
LEMMA ElsewhereFrame ==
  ASSUME TypeOK, Elsewhere
  PROVE  /\ UNCHANGED <<webVars, mailed>>
         /\ \A l \in Lead : job'[l] = "absent" <=> job[l] = "absent"
         /\ \A l \in Lead : <<"cli", l>> \in Key /\ call[<<"cli", l>>].pc = "none" => call'[<<"cli", l>>].pc = "none"
<1>0. job \in [Lead -> Queue!JobState] /\ call \in [Key -> Call]
  BY DEF TypeOK, Queue!QueueTypeOK
<1> DEFINE Goal == /\ \A l \in Lead : job'[l] = "absent" <=> job[l] = "absent"
                   /\ \A l \in Lead : <<"cli", l>> \in Key /\ call[<<"cli", l>>].pc = "none" => call'[<<"cli", l>>].pc = "none"
<1> USE DEF Queue!Move, Queue!In
<1>1. ASSUME NEW l \in Lead, Handle(l) \/ CliReturns(l)
      PROVE  Goal
  <2>1. CASE FinishTask(l)
    BY <1>0, <2>1 DEF FinishTask, Queue!Finish, At, NoCall
  <2>2. CASE FailTask(l)
    BY <1>0, <2>2 DEF FailTask, Queue!Retry, Queue!GiveUp, At, NoCall
  <2>3. CASE CliReturns(l)
    BY <1>0, <2>3 DEF CliReturns, At, NoCall, taskVars
  <2> QED
    BY <1>1, <2>1, <2>2, <2>3 DEF Handle
<1>2. ASSUME NEW l \in Lead, TriageStop(l)
      PROVE  Goal
  BY <1>0, <1>2 DEF TriageStop, Queue!Withdraw
<1>3. ASSUME NEW l \in Lead, \/ TriageMessage(l) \/ TriageSuppress(l) \/ TriageLead(l) \/ Suppress(l)
                             \/ \E kind \in Kind : Reply(l, kind)
      PROVE  Goal
  BY <1>3 DEF TriageMessage, TriageSuppress, TriageLead, Suppress, Reply, taskVars
<1>4. ASSUME NEW S \in SUBSET Lead, StartBatch(S)
      PROVE  Goal
  BY <1>0, <1>4 DEF StartBatch, Queue!Take
<1>5. ASSUME Reap
      PROVE  Goal
  <2>1. UNCHANGED call /\ Queue!Recover(Queue!In("orphaned"))
    BY <1>5 DEF Reap
  <2>2. \A l \in Lead : job'[l] = IF job[l] = "orphaned" THEN "queued" ELSE job[l]
    BY <2>1 DEF Queue!Recover
  <2> QED
    BY <2>1, <2>2
<1>6. ASSUME NextDay \/ BusinessHours
      PROVE  Goal
  <2>1. UNCHANGED <<call, job>>
    BY <1>6 DEF NextDay, BusinessHours, taskVars
  <2> QED
    BY <2>1
<1> QED
  BY <1>1, <1>2, <1>3, <1>4, <1>5, <1>6 DEF Elsewhere, Triage, Worker

\* A statement of deliver that mails does so with the text of the task, or the
\* one cold-mailer run has drafted.
LEMMA DeliverTextAdds ==
  ASSUME Types, TextInv, NEW k \in Key, DeliverText(k)
  PROVE  /\ UNCHANGED <<webVars, job>>
         /\ \A l \in Lead : mailed'[l] \subseteq mailed[l] \cup TaskText(l) \cup CliText(l)
         /\ mailed' = mailed \/ mailed' = [mailed EXCEPT ![k[2]] = @ \cup {TextOf(k)}]
         /\ call[k].pc # "none" /\ \A o \in Key \ {k} : call'[o] = call[o]
<1>0. k[1] \in Caller /\ k[2] \in Lead /\ k = <<k[1], k[2]>> /\ (k[1] = "worker" \/ k[1] = "cli")
      /\ mailed \in [Lead -> SUBSET Text]
  BY KeyParts DEF Types, OutreachTypeOK
<1>1. Deliver(k) /\ UNCHANGED webVars
  BY DEF DeliverText
<1>2. UNCHANGED job /\ call[k].pc # "none" /\ \A o \in Key \ {k} : call'[o] = call[o]
  <2>1. UNCHANGED job
    BY <1>1, DeliverFrame DEF taskVars
  <2>2. call[k].pc # "none" /\ \A o \in Key \ {k} : call'[o] = call[o]
    BY <1>1, DeliverEdges DEF Types, Edge, Moved
  <2> QED
    BY <2>1, <2>2
<1>3. TextOf(k) \in TaskText(k[2]) \cup CliText(k[2])
  <2>1. CASE k[1] = "worker"
    <3>1. job[k[2]] = "held"
      BY <1>0, <1>2, <2>1 DEF TextInv, CallsAreHeld, At
    <3> QED
      BY <2>1, <3>1 DEF TextOf, TaskText
  <2>2. CASE k[1] = "cli"
    <3>1. drafting[<<"cli", k[2]>>].pc = "delivering"
      BY <1>0, <1>2, <2>2 DEF TextInv, CliHasDrafted, At
    <3>2. TextOf(k) = drafting[<<"cli", k[2]>>].text
      BY <1>0, <2>2 DEF TextOf
    <3> QED
      BY <1>0, <2>2, <3>1, <3>2, TextsInWords
  <2> QED
    BY <1>0, <2>1, <2>2
<1>4. mailed' = mailed \/ mailed' = [mailed EXCEPT ![k[2]] = @ \cup {TextOf(k)}]
  BY DEF DeliverText
<1>5. ASSUME NEW l \in Lead
      PROVE  mailed'[l] \subseteq mailed[l] \cup TaskText(l) \cup CliText(l)
  BY <1>0, <1>3, <1>4
<1> QED
  BY <1>1, <1>2, <1>4, <1>5

\* The queue keeps the worker's calls on held tasks, whoever else steps.
LEMMA HeldStep ==
  ASSUME Types, CallsAreHeld, [OutreachNext]_outreachVars
  PROVE  CallsAreHeld'
<1>1. CASE [Next]_vars
  BY <1>1, TasksStep DEF Types
<1>2. CASE WebStep
  BY <1>2 DEF WebStep, CallsAreHeld, At, Types, TypeOK, Queue!QueueTypeOK, taskVars, Queue!Submit, Queue!Move
<1> QED
  BY <1>1, <1>2, OutreachSteps

\* Texts, requests and drafts keep their types.
LEMMA TextTypesStep ==
  ASSUME Types, TextInv, [OutreachNext]_outreachVars
  PROVE  OutreachTypeOK' /\ RequestsHaveText' /\ DraftersHaveText'
<1>0. /\ draft \in [Lead -> [status : DraftStatus, text : Text]]
      /\ approvals \in [Lead -> SUBSET [verb : Verb, text : Text]]
      /\ payload \in [Lead -> 0..MaxVersion]
      /\ request \in [Request -> Requests]
      /\ drafting \in [Key -> Draftings]
      /\ version \in Text
      /\ mailed \in [Lead -> SUBSET Text]
      /\ RequestsHaveText /\ DraftersHaveText
  BY DEF Types, OutreachTypeOK, TextInv, Requests, Draftings
<1>1. Text \subseteq 0..MaxVersion /\ 0 \in 0..MaxVersion /\ (version < MaxVersion => version + 1 \in Text)
  BY <1>0, OutreachAssumption DEF Text
<1>2. /\ \A pc \in RequestPc, r \in Request : [request[r] EXCEPT !.pc = pc] \in Requests
      /\ \A k \in Key, pc \in {"none", "lead", "check", "delivering"} : [drafting[k] EXCEPT !.pc = pc] \in Draftings
      /\ {"new", "viewing", "draft", "lead", "log", "enqueue", "over"} \subseteq RequestPc
      /\ {"approve", "edit", "reject"} \subseteq Verb
  <2>1. \A pc \in RequestPc, r \in Request : [request[r] EXCEPT !.pc = pc] \in Requests
    BY <1>0 DEF Requests
  <2>2. \A k \in Key, pc \in {"none", "lead", "check", "delivering"} : [drafting[k] EXCEPT !.pc = pc] \in Draftings
    BY <1>0 DEF Draftings
  <2>3. /\ {"new", "viewing", "draft", "lead", "log", "enqueue", "over"} \subseteq RequestPc
        /\ {"approve", "edit", "reject"} \subseteq Verb
    BY DEF RequestPc, Verb
  <2> QED  BY <2>1, <2>2, <2>3
<1> DEFINE Goal == OutreachTypeOK' /\ RequestsHaveText' /\ DraftersHaveText'
<1>3. ASSUME NEW r \in Request, NEW x \in Requests, request' = [request EXCEPT ![r] = x],
             x.pc \in {"draft", "lead", "log", "enqueue"} => x.text \in Text
      PROVE  request' \in [Request -> Requests] /\ RequestsHaveText'
  BY <1>0, <1>3 DEF RequestsHaveText
<1>4. ASSUME NEW k \in Key, NEW x \in Draftings, drafting' = [drafting EXCEPT ![k] = x], x.pc # "none" => x.text \in Text
      PROVE  drafting' \in [Key -> Draftings] /\ DraftersHaveText'
  BY <1>0, <1>4 DEF DraftersHaveText
<1>5. ASSUME NEW r \in Request, NEW l \in Lead, ViewDraft(r, l)
      PROVE  Goal
  <2>1. request' = [request EXCEPT ![r] = [request[r] EXCEPT !.pc = "viewing", !.lead = l]]
    BY <1>0, <1>5 DEF ViewDraft
  <2>2. request[r] \in Requests /\ "viewing" \in RequestPc
    BY <1>0, <1>2
  <2>4. [request[r] EXCEPT !.pc = "viewing", !.lead = l] \in Requests
    BY <2>2 DEF Requests
  <2>3. request' \in [Request -> Requests] /\ RequestsHaveText'
    BY <1>0, <1>3, <2>1, <2>4 DEF Requests
  <2> QED
    BY <1>0, <1>5, <2>3 DEF ViewDraft, OutreachTypeOK, DraftersHaveText, Requests, Draftings
<1>6. ASSUME NEW r \in Request, NEW verb \in Verb, Decide(r, verb)
      PROVE  Goal
  <2> DEFINE x == [request[r] EXCEPT !.pc = "draft", !.verb = verb, !.text = draft[request[r].lead].text]
  <2>1. request' = [request EXCEPT ![r] = x]
    BY <1>0, <1>6 DEF Decide
  <2>2. draft[request[r].lead].text \in Text
    BY <1>0 DEF Requests
  <2>5. request[r] \in Requests /\ "draft" \in RequestPc /\ draft[request[r].lead].text \in 0..MaxVersion
    BY <1>0, <1>1, <1>2, <2>2
  <2>3. x \in Requests /\ x.text \in Text
    BY <2>2, <2>5 DEF Requests
  <2> HIDE DEF x
  <2>4. request' \in [Request -> Requests] /\ RequestsHaveText'
    BY <1>3, <2>1, <2>3
  <2> QED
    BY <1>0, <1>6, <2>4 DEF Decide, OutreachTypeOK, DraftersHaveText, Requests, Draftings
<1>7. ASSUME NEW r \in Request, Edit(r)
      PROVE  Goal
  <2> DEFINE x == [request[r] EXCEPT !.pc = "draft", !.verb = "edit", !.text = version + 1]
  <2>1. request' = [request EXCEPT ![r] = x] /\ version' = version + 1 /\ version + 1 \in Text
    BY <1>0, <1>1, <1>7 DEF Edit
  <2>4. request[r] \in Requests /\ "draft" \in RequestPc /\ "edit" \in Verb /\ version + 1 \in 0..MaxVersion
    BY <1>0, <1>1, <1>2, <2>1
  <2>2. x \in Requests /\ x.text \in Text
    BY <2>1, <2>4 DEF Requests
  <2> HIDE DEF x
  <2>3. request' \in [Request -> Requests] /\ RequestsHaveText'
    BY <1>3, <2>1, <2>2
  <2> QED
    BY <1>0, <1>7, <2>1, <2>3 DEF Edit, OutreachTypeOK, DraftersHaveText, Requests, Draftings
<1>8. ASSUME NEW r \in Request, NEW pc \in RequestPc, RequestAt(r, "draft") \/ RequestAt(r, "lead") \/ RequestAt(r, "log")
                                \/ RequestAt(r, "enqueue"), Ask(r, pc)
      PROVE  /\ request' \in [Request -> Requests] /\ RequestsHaveText'
             /\ request[r].lead \in Lead /\ request[r].text \in Text /\ request[r].verb \in Verb
  <2>1. request' = [request EXCEPT ![r] = [request[r] EXCEPT !.pc = pc]] /\ [request[r] EXCEPT !.pc = pc] \in Requests
    BY <1>0, <1>2, <1>8 DEF Ask
  <2>2. request[r].text \in Text /\ request[r] \in Requests
    BY <1>0, <1>8 DEF RequestsHaveText, RequestAt
  <2>3. [request[r] EXCEPT !.pc = pc].text \in Text
    BY <2>2 DEF Requests
  <2>4. request' \in [Request -> Requests] /\ RequestsHaveText'
    BY <1>3, <2>1, <2>3
  <2> QED
    BY <2>2, <2>4 DEF Requests
<1>9. ASSUME NEW r \in Request, UpdateDraft(r)
      PROVE  Goal
  <2>1. /\ request' \in [Request -> Requests] /\ RequestsHaveText'
        /\ request[r].lead \in Lead /\ request[r].text \in Text /\ request[r].verb \in Verb
    BY <1>2, <1>8, <1>9 DEF UpdateDraft
  <2> DEFINE l == request[r].lead
             x == [status |-> StatusAfter(request[r].verb),
                   text |-> IF request[r].verb = "edit" THEN request[r].text ELSE draft[l].text]
  <2>2. draft' = [draft EXCEPT ![l] = x]
    BY <1>0, <1>9, <2>1 DEF UpdateDraft
  <2>3. x \in [status : DraftStatus, text : Text]
    BY <1>0, <2>1 DEF StatusAfter, DraftStatus
  <2> HIDE DEF x, l
  <2>4. draft' \in [Lead -> [status : DraftStatus, text : Text]]
    BY <1>0, <2>2, <2>3
  <2> QED
    BY <1>0, <1>9, <2>1, <2>4 DEF UpdateDraft, OutreachTypeOK, DraftersHaveText, Requests, Draftings
<1>10. ASSUME NEW r \in Request, UpdateLead(r)
       PROVE  Goal
  <2>1. request' \in [Request -> Requests] /\ RequestsHaveText'
    BY <1>2, <1>8, <1>10 DEF UpdateLead
  <2> QED
    BY <1>0, <1>10, <2>1 DEF UpdateLead, OutreachTypeOK, DraftersHaveText, Requests, Draftings
<1>11. ASSUME NEW r \in Request, LogDecision(r)
       PROVE  Goal
  <2>1. /\ request' \in [Request -> Requests] /\ RequestsHaveText'
        /\ request[r].lead \in Lead /\ request[r].text \in Text /\ request[r].verb \in Verb
    BY <1>2, <1>8, <1>11 DEF LogDecision
  <2>2. approvals' \in [Lead -> SUBSET [verb : Verb, text : Text]]
    BY <1>0, <1>11, <2>1 DEF LogDecision
  <2> QED
    BY <1>0, <1>11, <2>1, <2>2 DEF LogDecision, OutreachTypeOK, DraftersHaveText, Requests, Draftings
<1>12. ASSUME NEW r \in Request, EnqueueSend(r)
       PROVE  Goal
  <2>1. /\ request' \in [Request -> Requests] /\ RequestsHaveText'
        /\ request[r].lead \in Lead /\ request[r].text \in Text
    BY <1>2, <1>8, <1>12 DEF EnqueueSend
  <2>2. payload' \in [Lead -> 0..MaxVersion]
    BY <1>0, <1>1, <1>12, <2>1 DEF EnqueueSend
  <2> QED
    BY <1>0, <1>12, <2>1, <2>2 DEF EnqueueSend, OutreachTypeOK, DraftersHaveText, Requests, Draftings
<1>13. CASE WebCrash
  <2>1. \A r \in Request : request'[r] = IF RequestAt(r, "new") THEN request[r] ELSE [request[r] EXCEPT !.pc = "over"]
    BY <1>13 DEF WebCrash
  <2>2. \A r \in Request : [request[r] EXCEPT !.pc = "over"] \in Requests /\ [request[r] EXCEPT !.pc = "over"].pc = "over"
    BY <1>0, <1>2 DEF Requests
  <2>3. request' \in [Request -> Requests]
    BY <1>0, <1>13, <2>2 DEF WebCrash
  <2>4. RequestsHaveText'
    BY <2>1, <2>2 DEF RequestsHaveText, RequestAt
  <2> QED
    BY <1>0, <1>13, <2>3, <2>4 DEF WebCrash, OutreachTypeOK, DraftersHaveText, Requests, Draftings
<1>14. ASSUME NEW k \in Key, NEW status \in {"draft", "awaiting_approval"}, UpsertDraft(k, status)
       PROVE  Goal
  <2> DEFINE x == [pc |-> "lead", text |-> version + 1]
             d == [status |-> status, text |-> version + 1]
  <2>1. /\ version + 1 \in Text /\ version' = version + 1 /\ k[2] \in Lead
        /\ drafting' = [drafting EXCEPT ![k] = x]
        /\ draft' = [draft EXCEPT ![k[2]] = d]
    BY <1>1, <1>14, KeyParts DEF UpsertDraft
  <2>2. x \in Draftings /\ x.text \in Text /\ d \in [status : DraftStatus, text : Text]
    BY <1>1, <2>1 DEF Draftings, DraftStatus
  <2> HIDE DEF x, d
  <2>3. drafting' \in [Key -> Draftings] /\ DraftersHaveText'
    BY <1>4, <2>1, <2>2
  <2>4. draft' \in [Lead -> [status : DraftStatus, text : Text]]
    BY <1>0, <2>1, <2>2
  <2> QED
    BY <1>0, <1>14, <2>1, <2>3, <2>4 DEF UpsertDraft, OutreachTypeOK, RequestsHaveText, Requests, Draftings
<1>15. ASSUME NEW k \in Key, NEW pc \in {"none", "check", "delivering"}, drafting[k].pc # "none",
              drafting' = [drafting EXCEPT ![k].pc = pc]
       PROVE  drafting' \in [Key -> Draftings] /\ DraftersHaveText'
  <2>1. drafting' = [drafting EXCEPT ![k] = [drafting[k] EXCEPT !.pc = pc]] /\ [drafting[k] EXCEPT !.pc = pc] \in Draftings
    BY <1>0, <1>2, <1>15
  <2>2. drafting[k].text \in Text /\ drafting[k] \in Draftings
    BY <1>0, <1>15 DEF DraftersHaveText
  <2>3. [drafting[k] EXCEPT !.pc = pc].text \in Text
    BY <2>2 DEF Draftings
  <2> QED
    BY <1>4, <2>1, <2>3
<1>16. ASSUME NEW k \in Key, DraftedLead(k)
       PROVE  Goal
  <2>1. drafting' \in [Key -> Draftings] /\ DraftersHaveText'
    BY <1>15, <1>16 DEF DraftedLead
  <2> QED
    BY <1>0, <1>16, <2>1 DEF DraftedLead, OutreachTypeOK, RequestsHaveText, Requests, Draftings
<1>17. ASSUME NEW l \in Lead, CliDelivers(l)
       PROVE  Goal
  <2>1. drafting' \in [Key -> Draftings] /\ DraftersHaveText'
    BY <1>15, <1>17 DEF CliDelivers
  <2> QED
    BY <1>0, <1>17, <2>1 DEF CliDelivers, OutreachTypeOK, RequestsHaveText, Requests, Draftings
<1>18. CASE WorkerCrash
  <2>1. \A k \in Key : drafting'[k] = drafting[k] \/ drafting'[k] = NoDrafting
    BY <1>18 DEF WorkerCrash
  <2>2. NoDrafting \in Draftings /\ NoDrafting.pc = "none"
    BY <1>1 DEF NoDrafting, Draftings
  <2>3. drafting' \in [Key -> Draftings]
    BY <1>0, <1>18, <2>2 DEF WorkerCrash
  <2>4. DraftersHaveText'
    BY <1>0, <2>1, <2>2 DEF DraftersHaveText
  <2> QED
    BY <1>0, <1>18, <2>3, <2>4 DEF WorkerCrash, OutreachTypeOK, RequestsHaveText, Requests, Draftings
<1>19. ASSUME NEW k \in Key, DeliverText(k)
       PROVE  Goal
  <2>1. UNCHANGED webVars /\ (mailed' = mailed \/ mailed' = [mailed EXCEPT ![k[2]] = @ \cup {TextOf(k)}])
    BY <1>19, DeliverTextAdds
  <2>2. ASSUME NEW l \in Lead PROVE mailed'[l] \subseteq Text
    <3>1. TaskText(l) \subseteq Text
      <4>1. ASSUME job[l] # "absent" PROVE payload[l] \in Text
        <5>1. payload[l] \in ApprovedTexts(l)
          BY <4>1 DEF TextInv, TasksAreApproved
        <5>2. PICK a \in approvals[l] : payload[l] = a.text
          BY <5>1 DEF ApprovedTexts
        <5> QED
          BY <1>0, <5>2
      <4> QED
        BY <4>1 DEF TaskText
    <3>2. CliText(l) \subseteq Text
      <4>1. ASSUME NEW x \in CliText(l) PROVE x \in Text
        <5>1. <<"cli", l>> \in Key /\ drafting[<<"cli", l>>].pc = "delivering" /\ x = drafting[<<"cli", l>>].text
          BY <4>1, TextsInWords
        <5> QED
          BY <1>0, <5>1 DEF DraftersHaveText
      <4> QED
        BY <4>1
    <3> QED
      BY <1>0, <1>19, <3>1, <3>2, DeliverTextAdds
  <2>3. mailed' \in [Lead -> SUBSET Text]
    BY <1>0, <2>1, <2>2
  <2> QED
    BY <1>0, <2>1, <2>3 DEF webVars, OutreachTypeOK, RequestsHaveText, DraftersHaveText, Requests, Draftings
<1>20. CASE Elsewhere \/ UNCHANGED outreachVars
  BY <1>0, <1>20 DEF Elsewhere, outreachVars, webVars, OutreachTypeOK, RequestsHaveText, DraftersHaveText, Requests, Draftings
<1> QED
  BY <1>5, <1>6, <1>7, <1>9, <1>10, <1>11, <1>12, <1>13, <1>14, <1>16, <1>17, <1>18, <1>19, <1>20 DEF OutreachNext, Web

\* Only enqueue_task makes a task, and only where there is none; the text stays.
LEMMA TasksChange ==
  ASSUME Types, TextInv, [OutreachNext]_outreachVars, NEW l \in Lead
  PROVE  \/ (job'[l] = "absent" <=> job[l] = "absent") /\ (job[l] # "absent" => payload'[l] = payload[l])
         \/ \E r \in Request : /\ EnqueueSend(r) /\ request[r].lead = l /\ job[l] = "absent" /\ job'[l] = "queued"
                               /\ payload'[l] = request[r].text
<1>0. /\ job \in [Lead -> Queue!JobState] /\ payload \in [Lead -> 0..MaxVersion]
      /\ \A r \in Request : request[r].lead \in Lead
  BY DEF Types, TypeOK, OutreachTypeOK, Queue!QueueTypeOK
<1>1. ASSUME NEW r \in Request, EnqueueSend(r)
      PROVE  \/ job'[l] = job[l] /\ payload'[l] = payload[l]
             \/ /\ request[r].lead = l /\ job[l] = "absent" /\ job'[l] = "queued"
                /\ payload'[l] = request[r].text
  <2>1. CASE job[request[r].lead] = "absent"
    BY <1>0, <1>1, <2>1 DEF EnqueueSend, Queue!Submit, Queue!Move
  <2>2. CASE job[request[r].lead] # "absent"
    BY <1>1, <2>2 DEF EnqueueSend, taskVars
  <2> QED
    BY <2>1, <2>2
<1>2. ASSUME NEW k \in Key, DeliverText(k)
      PROVE  UNCHANGED <<job, payload>>
  BY <1>2, DeliverTextAdds DEF webVars
<1>3. ASSUME Elsewhere
      PROVE  (job'[l] = "absent" <=> job[l] = "absent") /\ payload'[l] = payload[l]
  BY <1>3, ElsewhereFrame DEF Types, webVars
<1>4. ASSUME WorkerCrash
      PROVE  (job'[l] = "absent" <=> job[l] = "absent") /\ payload'[l] = payload[l]
  <2>1. \A m \in Lead : job'[m] = IF job[m] = "held" THEN "orphaned" ELSE job[m]
    BY <1>4 DEF WorkerCrash, Crash, Queue!Lose, Queue!Move, Queue!In
  <2> QED
    BY <1>4, <2>1 DEF WorkerCrash
<1>5. ASSUME NEW r \in Request, \/ UpdateDraft(r) \/ UpdateLead(r) \/ LogDecision(r) \/ Edit(r)
                                \/ \E m \in Lead : ViewDraft(r, m)
                                \/ \E verb \in Verb : Decide(r, verb)
      PROVE  UNCHANGED <<job, payload>>
  BY <1>5 DEF UpdateDraft, UpdateLead, LogDecision, Edit, ViewDraft, Decide, vars, taskVars
<1>6. ASSUME NEW k \in Key, DraftedLead(k) \/ \E status \in {"draft", "awaiting_approval"} : UpsertDraft(k, status)
      PROVE  UNCHANGED <<job, payload>>
  BY <1>6 DEF DraftedLead, UpsertDraft, vars, taskVars
<1>7. ASSUME NEW m \in Lead, CliDelivers(m)
      PROVE  UNCHANGED <<job, payload>>
  BY <1>7 DEF CliDelivers, StartCli, taskVars
<1>8. ASSUME WebCrash \/ UNCHANGED outreachVars
      PROVE  UNCHANGED <<job, payload>>
  BY <1>8 DEF WebCrash, outreachVars, vars, webVars, taskVars
<1> QED
  BY <1>1, <1>2, <1>3, <1>4, <1>5, <1>6, <1>7, <1>8 DEF OutreachNext, Web

\* An entry of approvals is never taken back; a request logs its own decision.
LEMMA EntriesStep ==
  ASSUME Types, [OutreachNext]_outreachVars, NEW l \in Lead
  PROVE  \/ approvals'[l] = approvals[l]
         \/ \E r \in Request :
              /\ LogDecision(r) /\ request[r].lead = l
              /\ approvals'[l] = approvals[l] \cup {[verb |-> request[r].verb, text |-> request[r].text]}
<1>0. approvals \in [Lead -> SUBSET [verb : Verb, text : Text]]
      /\ \A r \in Request : request[r].lead \in Lead /\ request[r].verb \in Verb
  BY DEF Types, OutreachTypeOK
<1>1. ASSUME NEW r \in Request, LogDecision(r), request[r].lead = l
      PROVE  approvals'[l] = approvals[l] \cup {[verb |-> request[r].verb, text |-> request[r].text]}
  BY <1>0, <1>1 DEF LogDecision
<1>2. \/ approvals'[l] = approvals[l]
      \/ \E r \in Request : LogDecision(r) /\ request[r].lead = l
  <2>1. ASSUME NEW r \in Request, LogDecision(r), request[r].lead # l
        PROVE  approvals'[l] = approvals[l]
    BY <1>0, <2>1 DEF LogDecision
  <2>2. ASSUME ~ \E r \in Request : LogDecision(r)
        PROVE  approvals' = approvals
    <3>1. ASSUME NEW k \in Key, DeliverText(k) PROVE approvals' = approvals
      BY <3>1 DEF DeliverText, webVars
    <3> QED
      BY <2>2, <3>1 DEF OutreachNext, Web, UpdateDraft, UpdateLead, EnqueueSend, Edit, ViewDraft, Decide, DraftedLead,
        UpsertDraft, CliDelivers, Elsewhere, WorkerCrash, WebCrash, webVars, outreachVars
  <2> QED
    BY <2>1, <2>2
<1> QED
  BY <1>1, <1>2

\* So the approved texts only grow, by the request that logs one.
LEMMA ApprovalsGrow ==
  ASSUME Types, [OutreachNext]_outreachVars, NEW l \in Lead
  PROVE  /\ ApprovedTexts(l) \subseteq ApprovedTexts(l)'
         /\ \/ ApprovedTexts(l)' \subseteq ApprovedTexts(l)
            \/ \E r \in Request : LogDecision(r) /\ request[r].lead = l /\ Sends(request[r].verb)
<1>1. CASE approvals'[l] = approvals[l]
  BY <1>1, TextsInWords
<1>2. ASSUME NEW r \in Request, LogDecision(r), request[r].lead = l,
             approvals'[l] = approvals[l] \cup {[verb |-> request[r].verb, text |-> request[r].text]}
      PROVE  /\ ApprovedTexts(l) \subseteq ApprovedTexts(l)'
             /\ ~Sends(request[r].verb) => ApprovedTexts(l)' \subseteq ApprovedTexts(l)
  <2>0. request[r].verb \in Verb
    BY DEF Types, OutreachTypeOK
  <2>1. \A a \in approvals'[l] : a \in approvals[l] \/ a = [verb |-> request[r].verb, text |-> request[r].text]
    BY <1>2
  <2>2. approvals[l] \subseteq approvals'[l]
    BY <1>2
  <2>3. ~Sends(request[r].verb) => request[r].verb \notin {"approve", "edit"}
    BY <2>0 DEF Sends, Verb
  <2>4. ASSUME NEW x \in ApprovedTexts(l) PROVE x \in ApprovedTexts(l)'
    BY <2>2, TextsInWords
  <2>5. ASSUME NEW x \in ApprovedTexts(l)', ~Sends(request[r].verb) PROVE x \in ApprovedTexts(l)
    <3>1. PICK a \in approvals'[l] : a.verb \in {"approve", "edit"} /\ x = a.text
      BY <2>5 DEF ApprovedTexts
    <3>2. a \in approvals[l]
      BY <2>1, <2>3, <2>5, <3>1
    <3> QED
      BY <3>1, <3>2, TextsInWords
  <2> QED
    BY <2>4, <2>5
<1> QED
  BY <1>1, <1>2, EntriesStep

\* How a request comes to enqueue: its decision is the entry it has just made.
LEMMA RequestsMove ==
  ASSUME Types, TextInv, [OutreachNext]_outreachVars, NEW r \in Request, request'[r].pc = "enqueue"
  PROVE  \/ request'[r] = request[r] /\ ~EnqueueSend(r)
         \/ /\ LogDecision(r) /\ Sends(request[r].verb)
            /\ request'[r].lead = request[r].lead /\ request'[r].text = request[r].text
<1>0. request \in [Request -> Requests] /\ request[r] \in Requests
  BY DEF Types, OutreachTypeOK, Requests
<1>1. CASE LogDecision(r)
  <2>1. request'[r] = [request[r] EXCEPT !.pc = IF Sends(request[r].verb) THEN "enqueue" ELSE "over"]
    BY <1>0, <1>1 DEF LogDecision, Ask
  <2>2. Sends(request[r].verb)
    BY <1>0, <2>1 DEF Requests
  <2> QED
    BY <1>0, <1>1, <2>1, <2>2 DEF Requests
<1>2. ASSUME NEW o \in Request, \/ UpdateDraft(o) \/ UpdateLead(o) \/ EnqueueSend(o) \/ Edit(o)
                                \/ \E m \in Lead : ViewDraft(o, m)
                                \/ \E verb \in Verb : Decide(o, verb)
      PROVE  o # r /\ request'[r] = request[r]
  <2>1. \A x \in Request : x # o => request'[x] = request[x]
    BY <1>0, <1>2 DEF UpdateDraft, UpdateLead, EnqueueSend, Edit, ViewDraft, Decide, Ask
  <2>3. CASE UpdateDraft(o) \/ UpdateLead(o) \/ EnqueueSend(o)
    <3>1. \E pc \in {"lead", "log", "over"} : request' = [request EXCEPT ![o].pc = pc]
      BY <2>3 DEF UpdateDraft, UpdateLead, EnqueueSend, Ask
    <3> QED
      BY <1>0, <2>1, <3>1 DEF Requests
  <2>4. CASE Edit(o)
    BY <1>0, <2>1, <2>4 DEF Edit, Requests
  <2>5. CASE \E m \in Lead : ViewDraft(o, m)
    BY <1>0, <2>1, <2>5 DEF ViewDraft, Requests
  <2>6. CASE \E verb \in Verb : Decide(o, verb)
    BY <1>0, <2>1, <2>6 DEF Decide, Requests
  <2> QED
    BY <1>2, <2>3, <2>4, <2>5, <2>6
<1>3. ASSUME NEW o \in Request, LogDecision(o), o # r
      PROVE  request'[r] = request[r]
  BY <1>0, <1>3 DEF LogDecision, Ask
<1>4. CASE WebCrash
  <2>1. request'[r] = IF RequestAt(r, "new") THEN request[r] ELSE [request[r] EXCEPT !.pc = "over"]
    BY <1>4 DEF WebCrash
  <2>2. FALSE
    BY <1>0, <2>1 DEF Requests, RequestAt
  <2> QED
    BY <2>2
<1>5. ASSUME \/ \E k \in Key : DeliverText(k) \/ DraftedLead(k) \/ \E status \in {"draft", "awaiting_approval"} : UpsertDraft(k, status)
             \/ \E l \in Lead : CliDelivers(l)
             \/ Elsewhere \/ WorkerCrash \/ UNCHANGED outreachVars
      PROVE  request' = request
  BY <1>5 DEF DeliverText, DraftedLead, UpsertDraft, CliDelivers, Elsewhere, WorkerCrash, outreachVars, webVars
<1>6. ASSUME EnqueueSend(r) PROVE request'[r].pc # "enqueue"
  BY <1>2, <1>6
<1> QED
  BY <1>1, <1>2, <1>3, <1>4, <1>5, <1>6 DEF OutreachNext, Web

\* cold-mailer run keeps the text of a lead once it delivers it.
LEMMA CliTextStays ==
  ASSUME Types, TextInv, [OutreachNext]_outreachVars, NEW l \in Lead
  PROVE  CliText(l) \subseteq CliText(l)'
<1> DEFINE k == <<"cli", l>>
<1> SUFFICES ASSUME NEW x \in CliText(l) PROVE x \in CliText(l)'
  OBVIOUS
<1>0. drafting \in [Key -> Draftings] /\ k \in Key /\ k[1] = "cli" /\ drafting[k].pc = "delivering" /\ x = drafting[k].text
  BY TextsInWords DEF Types, OutreachTypeOK, Draftings
<1> HIDE DEF k
<1>1. drafting'[k] = drafting[k]
  <2>1. ASSUME NEW o \in Key, DraftedLead(o) \/ \E status \in {"draft", "awaiting_approval"} : UpsertDraft(o, status)
        PROVE  drafting'[k] = drafting[k]
    BY <1>0, <2>1 DEF DraftedLead, UpsertDraft
  <2>2. ASSUME NEW m \in Lead, CliDelivers(m)
        PROVE  drafting'[k] = drafting[k]
    BY <1>0, <2>2 DEF CliDelivers
  <2>3. CASE WorkerCrash
    BY <1>0, <2>3 DEF WorkerCrash
  <2>4. ASSUME \/ \E r \in Request : Web(r) \/ Edit(r)
               \/ \E r \in Request, m \in Lead : ViewDraft(r, m)
               \/ \E r \in Request, verb \in Verb : Decide(r, verb)
               \/ \E o \in Key : DeliverText(o)
               \/ Elsewhere \/ WebCrash \/ UNCHANGED outreachVars
        PROVE  drafting'[k] = drafting[k]
    BY <2>4 DEF Web, UpdateDraft, UpdateLead, LogDecision, EnqueueSend, Edit, ViewDraft, Decide, DeliverText,
      Elsewhere, WebCrash, outreachVars, webVars
  <2> QED
    BY <2>1, <2>2, <2>3, <2>4 DEF OutreachNext
<1> QED
  BY <1>0, <1>1, TextsInWords DEF k

\* The calls of cold-mailer run begin in CliDelivers.
LEMMA CliDraftedStep ==
  ASSUME Types, TextInv, [OutreachNext]_outreachVars
  PROVE  CliHasDrafted'
<1> SUFFICES ASSUME NEW l \in Lead, <<"cli", l>> \in Key, ~At(<<"cli", l>>, "none")'
             PROVE  drafting'[<<"cli", l>>].pc = "delivering"
  BY DEF CliHasDrafted
<1> DEFINE k == <<"cli", l>>
<1>0. drafting \in [Key -> Draftings] /\ call \in [Key -> Call] /\ k \in Key
  BY DEF Types, OutreachTypeOK, Draftings, TypeOK
<1>1. CASE ~At(k, "none")
  <2>1. drafting[k].pc = "delivering"
    BY <1>1 DEF TextInv, CliHasDrafted
  <2>2. drafting[k].text \in CliText(l)'
    BY <2>1, CliTextStays, TextsInWords
  <2> QED
    BY <2>2, TextsInWords
<1>2. CASE At(k, "none")
  <2>1. call'[k] # call[k] /\ call'[k].pc # "none"
    BY <1>2 DEF At
  <2>2. ASSUME NEW m \in Lead, CliDelivers(m) PROVE drafting'[k].pc = "delivering"
    <3>1. m = l
      BY <1>0, <2>1, <2>2 DEF CliDelivers, StartCli
    <3> QED
      BY <1>0, <2>2, <3>1 DEF CliDelivers, Draftings
  <2>3. ~Elsewhere
    BY <1>2, <2>1, ElsewhereFrame DEF At, Types
  <2>4. ~ \E o \in Key : DeliverText(o)
    BY <1>0, <1>2, <2>1, DeliverTextAdds DEF At
  <2>5. ~WorkerCrash
    BY <1>0, <1>2, <2>1 DEF WorkerCrash, Crash, At, NoCall
  <2> QED
    BY <2>1, <2>2, <2>3, <2>4, <2>5 DEF OutreachNext, Web, UpdateDraft, UpdateLead, LogDecision, EnqueueSend, Edit,
      ViewDraft, Decide, DraftedLead, UpsertDraft, WebCrash, outreachVars, vars
<1> QED
  BY <1>1, <1>2

\* What was mailed stays the text of the task or of cold-mailer run.
LEMMA MailedStep ==
  ASSUME Types, TextInv, [OutreachNext]_outreachVars
  PROVE  MailedTexts'
<1> SUFFICES ASSUME NEW l \in Lead
             PROVE  mailed'[l] \subseteq TaskText(l)' \cup CliText(l)'
  BY DEF MailedTexts
<1>1. TaskText(l) \subseteq TaskText(l)'
  BY TasksChange DEF TaskText
<1>2. mailed'[l] \subseteq mailed[l] \cup TaskText(l) \cup CliText(l)
  <2>1. ASSUME NEW k \in Key, DeliverText(k)
        PROVE  mailed'[l] \subseteq mailed[l] \cup TaskText(l) \cup CliText(l)
    BY <2>1, DeliverTextAdds
  <2>2. ASSUME ~ \E k \in Key : DeliverText(k)
        PROVE  mailed' = mailed
    BY <2>2 DEF OutreachNext, Web, UpdateDraft, UpdateLead, LogDecision, EnqueueSend, Edit, ViewDraft, Decide,
      DraftedLead, UpsertDraft, CliDelivers, Elsewhere, WorkerCrash, WebCrash, outreachVars
  <2> QED
    BY <2>1, <2>2
<1>3. mailed[l] \subseteq TaskText(l) \cup CliText(l)
  BY DEF TextInv, MailedTexts
<1> QED
  BY <1>1, <1>2, <1>3, CliTextStays

\* The text of a task is approved when it is made, and nothing is taken back.
LEMMA ApprovedStep ==
  ASSUME Types, TextInv, [OutreachNext]_outreachVars
  PROVE  EnqueuersAreLogged' /\ TasksAreApproved'
<1>0. \A r \in Request : request[r].lead \in Lead /\ request[r].verb \in Verb /\ request[r].text \in 0..MaxVersion
  BY DEF Types, OutreachTypeOK
<1>1. ASSUME NEW r \in Request, request'[r].pc = "enqueue"
      PROVE  \E a \in approvals'[request'[r].lead] : a.verb \in {"approve", "edit"} /\ request'[r].text = a.text
  <2> DEFINE l == request[r].lead
  <2>0. l \in Lead
    BY <1>0
  <2>1. CASE request'[r] = request[r]
    <3>1. request[r].text \in ApprovedTexts(l)
      BY <1>1, <2>1 DEF TextInv, EnqueuersAreLogged, RequestAt
    <3>2. PICK a \in approvals[l] : a.verb \in {"approve", "edit"} /\ request[r].text = a.text
      BY <3>1 DEF ApprovedTexts
    <3>3. approvals[l] \subseteq approvals'[l]
      BY <2>0, EntriesStep
    <3> QED
      BY <2>1, <3>2, <3>3
  <2>2. CASE /\ LogDecision(r) /\ Sends(request[r].verb)
             /\ request'[r].lead = l /\ request'[r].text = request[r].text
    <3>1. [verb |-> request[r].verb, text |-> request[r].text] \in approvals'[l]
      BY <1>0, <2>2 DEF LogDecision, Types, OutreachTypeOK
    <3>2. request[r].verb \in {"approve", "edit"}
      BY <1>0, <2>2 DEF Sends, Verb
    <3> QED
      BY <2>2, <3>1, <3>2
  <2> QED
    BY <1>1, <2>1, <2>2, RequestsMove
<1>2. ASSUME NEW l \in Lead, job'[l] # "absent"
      PROVE  payload'[l] \in ApprovedTexts(l)'
  <2>1. ApprovedTexts(l) \subseteq ApprovedTexts(l)'
    BY ApprovalsGrow
  <2>2. payload'[l] \in ApprovedTexts(l)
    <3>1. CASE job[l] # "absent" /\ payload'[l] = payload[l]
      BY <3>1 DEF TextInv, TasksAreApproved
    <3>2. ASSUME NEW r \in Request, EnqueueSend(r), request[r].lead = l, payload'[l] = request[r].text
          PROVE  payload'[l] \in ApprovedTexts(l)
      BY <3>2 DEF EnqueueSend, TextInv, EnqueuersAreLogged
    <3> QED
      BY <1>2, <3>1, <3>2, TasksChange
  <2> QED
    BY <2>1, <2>2
<1>3. EnqueuersAreLogged'
  BY <1>1 DEF EnqueuersAreLogged, RequestAt, ApprovedTexts
<1> QED
  BY <1>2, <1>3 DEF TasksAreApproved

-----------------------------------------------------------------------------
(* Theorems *)

\* No task, no request past its form and no mail is there at first.
LEMMA OutreachInits == OutreachInit => Types /\ Dates /\ MailInv /\ TextInv
<1> SUFFICES ASSUME OutreachInit PROVE Types /\ Dates /\ MailInv /\ TextInv
  OBVIOUS
<1>1. TypeOK /\ Dates /\ MailInv
  BY TypesInit, InvariantsInit DEF OutreachInit
<1>2. 1 \in Text /\ 0 \in 0..MaxVersion /\ (CHOOSE l \in Lead : TRUE) \in Lead
  BY OutreachAssumption DEF Text
<1>3. request \in [Request -> Requests] /\ \A r \in Request : request[r].pc = "new"
  BY <1>2 DEF OutreachInit, NoRequest, Requests, RequestPc, Verb
<1>4. drafting \in [Key -> Draftings] /\ \A k \in Key : drafting[k].pc = "none"
  BY <1>2 DEF OutreachInit, NoDrafting, Draftings
<1>5. draft \in [Lead -> [status : DraftStatus, text : Text]]
  BY <1>2 DEF OutreachInit, DraftStatus
<1>6. OutreachTypeOK
  BY <1>2, <1>3, <1>4, <1>5 DEF OutreachInit, OutreachTypeOK, Requests, Draftings
<1>7. (\A k \in Key : call[k].pc = "none") /\ (\A l \in Lead : job[l] = "absent" /\ mailed[l] = {})
  BY DEF OutreachInit, Init, NoCall, Queue!QueueInit
<1>8. TextInv
  BY <1>1, <1>3, <1>4, <1>7 DEF TextInv, MailInv, RequestsHaveText, DraftersHaveText, EnqueuersAreLogged, RequestAt,
    TasksAreApproved, CliHasDrafted, At, MailedTexts
<1> QED
  BY <1>1, <1>6, <1>8 DEF Types

\* The invariant of both modules together.
LEMMA OutreachHolds == OutreachSpec => [](Types /\ Dates /\ MailInv /\ TextInv)
<1>1. ASSUME Types, Dates, MailInv, TextInv, [OutreachNext]_outreachVars
      PROVE  Types' /\ Dates' /\ MailInv' /\ TextInv'
  <2>1. TypeOK' /\ Dates' /\ MailInv'
    <3>1. CASE [Next]_vars
      BY <1>1, <3>1, TypesStep, DatesStep, MailStep DEF Types, Dates
    <3>2. CASE WebStep
      BY <1>1, <3>2, WebKeepsTypes, WebKeepsDates, WebKeepsMails DEF Types
    <3> QED
      BY <1>1, <3>1, <3>2, OutreachSteps
  <2>2. OutreachTypeOK' /\ RequestsHaveText' /\ DraftersHaveText'
    BY <1>1, TextTypesStep
  <2>3. EnqueuersAreLogged' /\ TasksAreApproved' /\ CliHasDrafted' /\ MailedTexts' /\ CallsAreHeld'
    BY <1>1, ApprovedStep, CliDraftedStep, MailedStep, HeldStep DEF TextInv
  <2> QED
    BY <2>1, <2>2, <2>3 DEF Types, TextInv
<1>2. Types /\ Dates /\ MailInv /\ TextInv /\ [OutreachNext]_outreachVars => (Types /\ Dates /\ MailInv /\ TextInv)'
  BY <1>1
<1> QED
  BY <1>2, OutreachInits, PTL DEF OutreachSpec

\* Every draft, decision, payload and mail carries a text that was written, and
\* every request and generate_draft call is at one of its statements.
THEOREM OutreachTypesTheorem == OutreachSpec => []OutreachTypeOK
<1>1. Types => OutreachTypeOK
  BY DEF Types
<1> QED
  BY <1>1, OutreachHolds, PTL

\* The human checkpoint holds: whatever A7 drafts again while a request, a task
\* or a send is under way, and wherever the worker or the web process dies, no
\* text reaches a lead that no approve or edit row vouches for, but the one
\* cold-mailer run has drafted.
THEOREM CheckpointTheorem == OutreachSpec => []OnlyApprovedTextIsMailed
<1>1. TextInv => OnlyApprovedTextIsMailed
  <2> SUFFICES ASSUME TextInv, NEW l \in Lead
               PROVE  mailed[l] \subseteq ApprovedTexts(l) \cup CliTexts(l)
    BY DEF OnlyApprovedTextIsMailed
  <2>1. TaskText(l) \subseteq ApprovedTexts(l)
    BY DEF TextInv, TasksAreApproved, TaskText
  <2>2. CliText(l) \subseteq CliTexts(l)
    BY DEF CliText, CliTexts
  <2> QED
    BY <2>1, <2>2 DEF TextInv, MailedTexts
<1> QED
  BY <1>1, OutreachHolds, PTL

\* The dedupe key keeps the first text that was enqueued, so that the worker sends
\* a lead no second one, however often it sends.
THEOREM OneTextTheorem == OutreachSpec => []OneTextPerLead
<1>1. TextInv => OneTextPerLead
  <2> SUFFICES ASSUME TextInv, NEW l \in Lead
               PROVE  Cardinality(mailed[l] \ CliTexts(l)) <= 1
    BY DEF OneTextPerLead
  <2>1. CliText(l) \subseteq CliTexts(l)
    BY DEF CliText, CliTexts
  <2>2. mailed[l] \ CliTexts(l) \subseteq {payload[l]}
    BY <2>1 DEF TextInv, MailedTexts, TaskText
  <2>3. IsFiniteSet({payload[l]}) /\ Cardinality({payload[l]}) = 1
    BY FS_Singleton
  <2> QED
    BY <2>2, <2>3, FS_Subset
<1> QED
  BY <1>1, OutreachHolds, PTL

\* No approval is lost on its way to the queue but by the death of a process: the
\* request that logged it enqueues, or finds the task of an earlier one.
THEOREM EnqueuedTheorem == OutreachSpec => []ApprovalIsEnqueued
<1>1. OutreachInit => ApprovalIsEnqueued
  BY DEF OutreachInit, ApprovalIsEnqueued, ApprovedTexts
<1>2. ASSUME Types, Dates, MailInv, TextInv, ApprovalIsEnqueued, [OutreachNext]_outreachVars
      PROVE  ApprovalIsEnqueued'
  <2> SUFFICES ASSUME NEW l \in Lead, ApprovedTexts(l)' # {},
                      \A r \in Request : request'[r].lead = l => request'[r].pc # "enqueue",
                      ~(faults' > 0)
               PROVE  job'[l] # "absent"
    BY DEF ApprovalIsEnqueued, RequestAt
  <2>0. /\ faults \in 0..MaxFaults /\ MaxFaults \in Nat /\ faults \in Nat
        /\ request \in [Request -> Requests]
    BY <1>2, DeliveryAssumption DEF Types, TypeOK, OutreachTypeOK, Requests
  <2>1. faults = 0 /\ ~WebCrash
    <3>1. faults <= faults' /\ faults' \in Nat
      <4>1. CASE [Next]_vars
        BY <1>2, <2>0, <4>1, FaultsStep DEF Types
      <4>2. CASE WebStep
        BY <2>0, <4>2 DEF WebStep
      <4> QED
        BY <1>2, <4>1, <4>2, OutreachSteps
    <3>2. ~WebCrash
      BY <2>0 DEF WebCrash
    <3> QED
      BY <2>0, <3>1, <3>2
  <2>2. CASE job[l] # "absent"
    BY <1>2, <2>2, TasksChange
  <2>3. CASE job[l] = "absent" /\ ApprovedTexts(l) = {}
    <3>1. PICK r \in Request : LogDecision(r) /\ request[r].lead = l /\ Sends(request[r].verb)
      BY <1>2, <2>3, ApprovalsGrow
    <3>2. request'[r].pc = "enqueue" /\ request'[r].lead = l
      BY <2>0, <3>1 DEF LogDecision, Ask, Requests
    <3> QED
      BY <3>2
  <2>4. CASE job[l] = "absent" /\ ApprovedTexts(l) # {}
    <3>1. PICK r \in Request : request[r].lead = l /\ request[r].pc = "enqueue"
      BY <1>2, <2>1, <2>4 DEF ApprovalIsEnqueued, RequestAt
    <3>2. request'[r] # request[r]
      BY <3>1
    <3>3. EnqueueSend(r)
      <4>1. \A o \in Request \ {r} : ~(\/ UpdateDraft(o) \/ UpdateLead(o) \/ LogDecision(o) \/ EnqueueSend(o) \/ Edit(o)
                                       \/ \E m \in Lead : ViewDraft(o, m) \/ \E verb \in Verb : Decide(o, verb))
        BY <2>0, <3>2 DEF UpdateDraft, UpdateLead, LogDecision, EnqueueSend, Edit, ViewDraft, Decide, Ask
      <4>2. ~(\/ UpdateDraft(r) \/ UpdateLead(r) \/ LogDecision(r) \/ Edit(r)
              \/ \E m \in Lead : ViewDraft(r, m) \/ \E verb \in Verb : Decide(r, verb))
        BY <3>1 DEF UpdateDraft, UpdateLead, LogDecision, Edit, ViewDraft, Decide, RequestAt
      <4> QED
        BY <1>2, <2>1, <3>2, <4>1, <4>2 DEF OutreachNext, Web, DeliverText, DraftedLead, UpsertDraft, CliDelivers,
          Elsewhere, WorkerCrash, outreachVars, webVars
    <3> QED
      BY <2>4, <3>1, <3>3 DEF EnqueueSend, Queue!Submit, Queue!Move
  <2> QED
    BY <2>2, <2>3, <2>4
<1>3. Types /\ Dates /\ MailInv /\ TextInv /\ ApprovalIsEnqueued /\ [OutreachNext]_outreachVars => ApprovalIsEnqueued'
  BY <1>2
<1> QED
  BY <1>1, <1>3, OutreachHolds, PTL DEF OutreachSpec

\* The requests of the operator give no lead a second mail either: with the
\* approval queue in front of it A8 keeps its bound.
THEOREM OutreachMailTheorem == OutreachSpec => []ExtraMailsAreCrashes
<1>1. Types /\ MailInv => ExtraMailsAreCrashes
  BY MailsAreFew DEF Types
<1> QED
  BY <1>1, OutreachHolds, PTL
=============================================================================
