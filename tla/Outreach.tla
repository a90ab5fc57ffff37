------------------------------- MODULE Outreach -------------------------------
(***************************************************************************)
(* The human checkpoint: the approval queue (web/app.py) between the drafts *)
(* of A7 (agents/a7_generate.py) and the deliveries of A8, and the demo     *)
(* command (cli.py: run) that goes round it.  Delivery's actions are taken  *)
(* over, except Approve, which is replaced by the requests of the operator. *)
(*                                                                          *)
(* A request is one POST after one GET; each of its statements commits on   *)
(* its own.  A text is a version number: every draft and every edit makes a *)
(* new one.                                                                 *)
(***************************************************************************)
EXTENDS Delivery

CONSTANTS
  Request,      \* the operator's requests
  MaxVersion    \* the bound on texts

ASSUME OutreachAssumption == Lead # {} /\ MaxVersion \in Nat \ {0}

VARIABLES
  draft,      \* drafts: status and text of each lead's row for touch 1
  approvals,  \* approvals: the decisions recorded for each lead, with their text
  payload,    \* tasks.payload of the lead's send_message task: its text, 0 before
  request,    \* the operator's requests
  drafting,   \* the generate_draft calls in progress, of the worker and the cli
  version,    \* the newest text
  mailed      \* history: the texts the transport accepted for each lead

webVars == <<draft, approvals, payload, request, drafting, version>>
outreachVars == <<vars, webVars, mailed>>

Text == 1..MaxVersion
Verb == {"approve", "edit", "reject"}
DraftStatus == {"draft", "awaiting_approval", "approved", "rejected"}
RequestPc == {"new", "viewing", "draft", "lead", "log", "enqueue", "over"}

NoRequest == [pc |-> "new", verb |-> "reject", lead |-> CHOOSE l \in Lead : TRUE, text |-> 0]
NoDrafting == [pc |-> "none", text |-> 0]

OutreachInit ==
  /\ Init
  /\ draft \in [Lead -> [status : {"draft", "awaiting_approval"}, text : {1}]]
  /\ approvals = [l \in Lead |-> {}]
  /\ payload = [l \in Lead |-> 0]
  /\ request = [r \in Request |-> NoRequest]
  /\ drafting = [k \in Key |-> NoDrafting]
  /\ version = 1
  /\ mailed = [l \in Lead |-> {}]

-----------------------------------------------------------------------------
(* The approval queue *)

Ask(r, pc) == request' = [request EXCEPT ![r].pc = pc]
RequestAt(r, pc) == request[r].pc = pc

\* queue and draft_detail: the operator looks at a draft.
ViewDraft(r, l) ==
  /\ RequestAt(r, "new")
  /\ request' = [request EXCEPT ![r] = [@ EXCEPT !.pc = "viewing", !.lead = l]]
  /\ UNCHANGED <<vars, draft, approvals, payload, drafting, version, mailed>>

\* approve and reject: the first SELECT; approve takes the text as it is now.
Decide(r, verb) ==
  /\ RequestAt(r, "viewing")
  /\ verb \in {"approve", "reject"}
  /\ request' = [request EXCEPT ![r] = [@ EXCEPT !.pc = "draft", !.verb = verb,
                                                !.text = draft[request[r].lead].text]]
  /\ UNCHANGED <<vars, draft, approvals, payload, drafting, version, mailed>>

\* edit: the text comes with the form.
Edit(r) ==
  /\ RequestAt(r, "viewing")
  /\ version < MaxVersion
  /\ version' = version + 1
  /\ request' = [request EXCEPT ![r] = [@ EXCEPT !.pc = "draft", !.verb = "edit",
                                                !.text = version + 1]]
  /\ UNCHANGED <<vars, draft, approvals, payload, drafting, mailed>>

\* The status a decision gives the draft, and whether it sends it.  Mutant: only
\* approve enqueues.
SendsIfApproved(verb) == verb = "approve"
StatusAfter(verb) == IF verb = "reject" THEN "rejected" ELSE "approved"
Sends(verb) == verb # "reject"

\* UPDATE drafts: no handler looks at the status it replaces.
UpdateDraft(r) ==
  LET q == request[r] IN
  /\ RequestAt(r, "draft")
  /\ draft' = [draft EXCEPT ![q.lead] =
                 [status |-> StatusAfter(q.verb),
                  text |-> IF q.verb = "edit" THEN q.text ELSE @.text]]
  /\ Ask(r, "lead")
  /\ UNCHANGED <<vars, approvals, payload, drafting, version, mailed>>

UpdateLead(r) ==
  LET q == request[r] IN
  /\ RequestAt(r, "lead")
  /\ lead' = [lead EXCEPT ![q.lead] = IF q.verb = "reject" THEN "rejected" ELSE "approved"]
  /\ Ask(r, "log")
  /\ UNCHANGED <<taskVars, call, cliLeft, message, sentOrder, suppressed, budget, triage,
                 clockVars, mails, faults, draft, approvals, payload, drafting, version, mailed>>

LogDecision(r) ==
  LET q == request[r] IN
  /\ RequestAt(r, "log")
  /\ approvals' = [approvals EXCEPT ![q.lead] = @ \cup {[verb |-> q.verb, text |-> q.text]}]
  /\ Ask(r, IF Sends(q.verb) THEN "enqueue" ELSE "over")
  /\ UNCHANGED <<vars, draft, payload, drafting, version, mailed>>

\* Mutant: ON CONFLICT (dedupe_key) DO UPDATE SET payload.
EnqueueReplacing(r) ==
  LET q == request[r] IN
  /\ RequestAt(r, "enqueue")
  /\ IF job[q.lead] = "absent" THEN Queue!Submit(q.lead) ELSE UNCHANGED taskVars
  /\ payload' = [payload EXCEPT ![q.lead] = q.text]
  /\ Ask(r, "over")
  /\ UNCHANGED <<call, cliLeft, tableVars, triage, clockVars, mails, faults,
                 draft, approvals, drafting, version, mailed>>

\* enqueue_task with dedupe_key send_message:{lead_id}:1: the first one counts.
EnqueueSend(r) ==
  LET q == request[r] IN
  /\ RequestAt(r, "enqueue")
  /\ IF job[q.lead] = "absent"
     THEN Queue!Submit(q.lead) /\ payload' = [payload EXCEPT ![q.lead] = q.text]
     ELSE UNCHANGED <<taskVars, payload>>
  /\ Ask(r, "over")
  /\ UNCHANGED <<call, cliLeft, tableVars, triage, clockVars, mails, faults,
                 draft, approvals, drafting, version, mailed>>

\* The web process dies: a request is cut off between two statements.
WebCrash ==
  /\ faults < MaxFaults
  /\ faults' = faults + 1
  /\ request' = [r \in Request |-> IF RequestAt(r, "new") THEN request[r]
                                   ELSE [request[r] EXCEPT !.pc = "over"]]
  /\ UNCHANGED <<taskVars, call, cliLeft, tableVars, triage, clockVars, mails,
                 draft, approvals, payload, drafting, version, mailed>>

-----------------------------------------------------------------------------
(* generate_draft, run again by the worker or run by the cli *)

\* cold-mailer run drafts and delivers one lead after the other.
CliIsFree == /\ Busy("cli") = {}
             /\ \A k \in Key : k[1] = "cli" => drafting[k].pc \in {"none", "delivering"}

\* The upsert replaces text and status whatever they are, an approved row too;
\* the status says whether the new text passed the linter and the grounding.
UpsertDraft(k, status) ==
  /\ drafting[k].pc = "none"
  /\ k[1] = "cli" => k[2] \in cliLeft /\ CliIsFree
  /\ version < MaxVersion
  /\ version' = version + 1
  /\ draft' = [draft EXCEPT ![k[2]] = [status |-> status, text |-> version + 1]]
  /\ drafting' = [drafting EXCEPT ![k] = [pc |-> "lead", text |-> version + 1]]
  /\ UNCHANGED <<vars, approvals, payload, request, mailed>>

DraftedLead(k) ==
  /\ drafting[k].pc = "lead"
  /\ lead' = [lead EXCEPT ![k[2]] = "awaiting_approval"]
  /\ drafting' = [drafting EXCEPT ![k].pc = IF k[1] = "cli" THEN "check" ELSE "none"]
  /\ UNCHANGED <<taskVars, call, cliLeft, message, sentOrder, suppressed, budget, triage,
                 clockVars, mails, faults, draft, approvals, payload, request, version, mailed>>

\* cli.py run: deliver is called when the row says awaiting_approval, which is
\* where the approval queue would begin; otherwise the lead is left to a human.
CliDelivers(l) ==
  LET k == <<"cli", l>> IN
  /\ k \in Key /\ drafting[k].pc = "check"
  /\ IF draft[l].status = "awaiting_approval"
     THEN StartCli(l)
     ELSE /\ cliLeft' = cliLeft \ {l}
          /\ UNCHANGED <<taskVars, call, tableVars, triage, clockVars, mails, faults>>
  /\ drafting' = [drafting EXCEPT ![k].pc = "delivering"]
  /\ UNCHANGED <<draft, approvals, payload, request, version, mailed>>

-----------------------------------------------------------------------------
(* Delivery, with the text that is sent *)

\* Mutant: the worker sends the draft as it is now, not the task's payload.
TextOfDraft(k) == IF k[1] = "worker" THEN draft[k[2]].text ELSE drafting[k].text

TextOf(k) == IF k[1] = "worker" THEN payload[k[2]] ELSE drafting[k].text

DeliverText(k) ==
  /\ Deliver(k)
  /\ mailed' = IF mails'[k[2]] > mails[k[2]]
               THEN [mailed EXCEPT ![k[2]] = @ \cup {TextOf(k)}] ELSE mailed
  /\ UNCHANGED webVars

Elsewhere ==
  /\ \/ \E l \in Lead : Handle(l) \/ CliReturns(l) \/ Triage(l)
     \/ \E l \in Lead, kind \in Kind : Reply(l, kind)
     \/ \E l \in Lead : Suppress(l)
     \/ Worker \/ NextDay \/ BusinessHours
  /\ UNCHANGED <<webVars, mailed>>

WorkerCrash ==
  /\ Crash
  /\ drafting' = [k \in Key |-> IF k[1] = "worker" THEN NoDrafting ELSE drafting[k]]
  /\ UNCHANGED <<draft, approvals, payload, request, version, mailed>>

Web(r) == UpdateDraft(r) \/ UpdateLead(r) \/ LogDecision(r) \/ EnqueueSend(r)

OutreachNext ==
  \/ \E r \in Request : Web(r) \/ Edit(r)
  \/ \E r \in Request, l \in Lead : ViewDraft(r, l)
  \/ \E r \in Request, verb \in Verb : Decide(r, verb)
  \/ \E k \in Key : DeliverText(k) \/ DraftedLead(k)
  \/ \E k \in Key, status \in {"draft", "awaiting_approval"} : UpsertDraft(k, status)
  \/ \E l \in Lead : CliDelivers(l)
  \/ Elsewhere \/ WorkerCrash \/ WebCrash

OutreachSpec == OutreachInit /\ [][OutreachNext]_outreachVars

-----------------------------------------------------------------------------
(* Properties *)

OutreachTypeOK ==
  /\ draft \in [Lead -> [status : DraftStatus, text : Text]]
  /\ approvals \in [Lead -> SUBSET [verb : Verb, text : Text]]
  /\ payload \in [Lead -> 0..MaxVersion]
  /\ request \in [Request -> [pc : RequestPc, verb : Verb, lead : Lead, text : 0..MaxVersion]]
  /\ drafting \in [Key -> [pc : {"none", "lead", "check", "delivering"}, text : 0..MaxVersion]]
  /\ version \in Text
  /\ mailed \in [Lead -> SUBSET Text]

ApprovedTexts(l) == {a.text : a \in {b \in approvals[l] : b.verb \in {"approve", "edit"}}}

CliTexts(l) == {drafting[k].text : k \in {q \in Key : q = <<"cli", l>>}}

\* Nothing is sent that no approve or edit row in approvals vouches for, although
\* A7 may replace the draft while the request, the task or the send is under way;
\* the text cold-mailer run has just drafted is the one exception.
OnlyApprovedTextIsMailed ==
  \A l \in Lead : mailed[l] \subseteq ApprovedTexts(l) \cup CliTexts(l)

\* However often a crash makes the worker send again, and whatever is drafted,
\* edited or approved meanwhile, it sends a lead one text only.
OneTextPerLead == \A l \in Lead : Cardinality(mailed[l] \ CliTexts(l)) <= 1

\* An approval that is recorded leads to a task, unless the web process died
\* between the INSERT into approvals and enqueue_task.
ApprovalIsEnqueued ==
  \A l \in Lead :
    /\ ApprovedTexts(l) # {}
    /\ \A r \in Request : request[r].lead = l => ~RequestAt(r, "enqueue")
    => job[l] # "absent" \/ faults > 0
=============================================================================
