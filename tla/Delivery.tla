------------------------------- MODULE Delivery -------------------------------
(***************************************************************************)
(* Agent 8 (agents/a8_deliver.py), the send budget (pipeline/               *)
(* send_budget.py) and Agent 10 (agents/a10_triage.py) over the tables      *)
(* messages, leads, send_budget and suppressions; the send_message tasks    *)
(* are the jobs of WorkQueue.                                               *)
(*                                                                          *)
(* Every SQL statement of deliver and of triage_message commits on its own  *)
(* (core/db.py: acquire, no transaction), so each is a step, and calls for  *)
(* different leads interleave between any two of them.  Only touch 1 exists *)
(* in the code, so a lead has one task, one message row and one draft.      *)
(***************************************************************************)
EXTENDS Integers, Sequences, FiniteSets

CONSTANTS
  Lead,
  Caller,        \* who calls deliver: "worker" for send_message, "cli" for cold-mailer run
  Batch,         \* BATCH_SIZE: the deliver calls one tick gathers
  MaxAttempts,   \* tasks.max_attempts
  WarmupCaps,    \* settings.delivery.warmup_daily_caps
  SteadyCap,     \* settings.delivery.steady_state_cap
  Window,        \* settings.delivery.bounce_rate_window
  MinHistory,    \* the 10 sends below which the bounce rate counts as 0
  HaltPercent,   \* settings.delivery.bounce_rate_halt_threshold, in percent
  Unsafe,        \* settings.delivery.allow_unsafe_override
  Kind,          \* the reply kinds of this instance
  ByHand,        \* the leads somebody may enter in suppressions by hand
  LastDay,       \* the bound on days
  MaxFaults      \* the bound on crashes

ReplyKind == {"bounce_hard", "bounce_soft", "unsubscribe", "genuine_reply", "out_of_office"}

ASSUME DeliveryAssumption ==
  /\ Caller \subseteq {"worker", "cli"}
  /\ {Batch, MaxAttempts, LastDay, SteadyCap, Window, MinHistory} \subseteq Nat \ {0}
  /\ WarmupCaps \in Seq(Nat \ {0})
  /\ {HaltPercent, MaxFaults} \subseteq Nat
  /\ Unsafe \in BOOLEAN
  /\ Kind \subseteq ReplyKind
  /\ ByHand \subseteq Lead
  /\ IsFiniteSet(Lead)

VARIABLES
  job, tries,   \* the send_message task of each lead, as WorkQueue sees it
  call,         \* call[<<c, l>>]: the deliver call of c for l
  message,      \* messages.status of each lead's row, "none" before the INSERT
  sentOrder,    \* the leads with a messages row, by sent_at
  lead,         \* leads.status, as far as delivery and triage change it
  suppressed,   \* the leads whose address or domain is in suppressions
  budget,       \* send_budget: one row a day
  cliLeft,      \* the leads one invocation of cold-mailer run has yet to deliver
  triage,       \* triage[l]: the triage_message call for l's message
  day, open,    \* the UTC date, and whether it is a weekday in business hours
  mails,        \* history: how often the transport accepted a mail to l
  faults        \* crashes so far

taskVars == <<job, tries>>
tableVars == <<message, sentOrder, lead, suppressed, budget>>
clockVars == <<day, open>>
vars == <<taskVars, call, cliLeft, tableVars, triage, clockVars, mails, faults>>

Queue == INSTANCE WorkQueue WITH Task <- Lead

Day == 1..LastDay
Key == Caller \X Lead
NoRow == [made |-> FALSE, sent |-> 0, cap |-> 0, halted |-> FALSE]

\* One state per await of deliver, in the order of the code.
CallPc == {"none", "suppression", "duplicate", "count", "row", "bounces", "halt",
           "send", "insert", "mark", "record", "return", "raise"}
DeliveryStatus == {"none", "sent", "skipped_suppressed", "skipped_duplicate",
                   "skipped_budget", "failed"}

\* day: the date the budget row is for; cap: the cap computed for it; result:
\* the DeliveryStatus.  History: barred, the lead was suppressed when deliver
\* was called; frozen, the day whose halted row was there at that moment (or 0).
Call == [pc : CallPc, day : 0..LastDay, cap : Nat, result : DeliveryStatus,
         barred : BOOLEAN, frozen : 0..LastDay]
NoCall == [pc |-> "none", day |-> 0, cap |-> 0, result |-> "none",
           barred |-> FALSE, frozen |-> 0]

\* The values of leads.status from the first draft on.
LeadStatus == {"awaiting_approval", "approved", "rejected", "sent", "replied", "suppressed"}

TriagePc == {"none", "message", "suppress", "stop", "lead", "over"}

Init ==
  /\ Queue!QueueInit
  /\ call = [k \in Key |-> NoCall]
  /\ message = [l \in Lead |-> "none"]
  /\ sentOrder = <<>>
  /\ lead = [l \in Lead |-> "awaiting_approval"]
  /\ suppressed = {}
  /\ budget = [d \in Day |-> NoRow]
  /\ cliLeft = IF "cli" \in Caller THEN Lead ELSE {}
  /\ triage = [l \in Lead |-> [pc |-> "none", kind |-> "out_of_office"]]
  /\ day = 1 /\ open = TRUE
  /\ mails = [l \in Lead |-> 0]
  /\ faults = 0

-----------------------------------------------------------------------------
(* Helpers *)

At(k, pc) == call[k].pc = pc
Goto(k, pc) == call' = [call EXCEPT ![k].pc = pc]
Answer(k, status) == call' = [call EXCEPT ![k].pc = "return", ![k].result = status]
Busy(c) == {l \in Lead : ~At(<<c, l>>, "none")}

\* deliver's two checks.  Mutants: the status of the lead stands for the
\* suppression list; no duplicate check.
IsSuppressedByStatus(l) == lead[l] = "suppressed"
IsDuplicateNever(l) == FALSE
IsSuppressed(l) == l \in suppressed
IsDuplicate(l) == message[l] # "none"

\* datetime.now(UTC).date().
Today == day

\* _warmup_days_elapsed and _today_cap.
DaysWithSends == {d \in Day : budget[d].sent > 0}
CapAfter(n) == IF n < Len(WarmupCaps) THEN WarmupCaps[n + 1] ELSE SteadyCap

\* _recent_bounce_rate() > bounce_rate_halt_threshold, over the last Window rows.
BounceRateTooHigh ==
  LET last == Len(sentOrder)
      first == IF last > Window THEN last - Window + 1 ELSE 1
      size == last - first + 1
      bounced == {i \in first..last : message[sentOrder[i]] = "bounced"}
  IN size >= MinHistory /\ 100 * Cardinality(bounced) > HaltPercent * size

-----------------------------------------------------------------------------
(* The environment: approvals, clocks, the operator's suppressions *)

\* web/app.py approve and edit, the only callers of enqueue_task("send_message"),
\* in one step; Approval takes the request apart.
Approve(l) ==
  /\ Queue!Submit(l)
  /\ lead' = [lead EXCEPT ![l] = "approved"]
  /\ UNCHANGED <<cliLeft, call, message, sentOrder, suppressed, budget, triage, clockVars, mails, faults>>

NextDay ==
  /\ day < LastDay
  /\ day' = day + 1
  /\ UNCHANGED <<cliLeft, taskVars, call, tableVars, triage, open, mails, faults>>

\* The hours pass unnoticed when the override is set.
BusinessHours ==
  /\ ~Unsafe
  /\ open' = ~open
  /\ UNCHANGED <<cliLeft, taskVars, call, tableVars, triage, day, mails, faults>>

\* A do-not-contact entry made by hand, e.g. of domain scope.
Suppress(l) ==
  /\ l \in ByHand \ suppressed
  /\ suppressed' = suppressed \cup {l}
  /\ UNCHANGED <<cliLeft, taskVars, call, message, sentOrder, lead, budget, triage, clockVars, mails, faults>>

-----------------------------------------------------------------------------
(* deliver *)

NewCall(l) ==
  [NoCall EXCEPT !.pc = "suppression", !.barred = l \in suppressed,
                 !.frozen = IF budget[day].halted THEN day ELSE 0]

\* A tick claims a batch of send_message tasks and gathers their handlers.
StartBatch(S) ==
  /\ "worker" \in Caller
  /\ Busy("worker") = {}
  /\ S # {} /\ Cardinality(S) <= Batch
  /\ Queue!Take(S)
  /\ call' = [k \in Key |-> IF k[1] = "worker" /\ k[2] \in S THEN NewCall(k[2]) ELSE call[k]]
  /\ UNCHANGED <<cliLeft, tableVars, triage, clockVars, mails, faults>>

\* cold-mailer run calls deliver itself, for one lead after the other.
StartCli(l) ==
  /\ l \in cliLeft
  /\ Busy("cli") = {}
  /\ cliLeft' = cliLeft \ {l}
  /\ call' = [call EXCEPT ![<<"cli", l>>] = NewCall(l)]
  /\ UNCHANGED <<taskVars, tableVars, triage, clockVars, mails, faults>>

\* _is_suppressed
CheckSuppression(k) ==
  /\ At(k, "suppression")
  /\ IF IsSuppressed(k[2]) THEN Answer(k, "skipped_suppressed") ELSE Goto(k, "duplicate")
  /\ UNCHANGED <<cliLeft, taskVars, tableVars, triage, clockVars, mails, faults>>

\* SELECT id FROM messages WHERE lead_id = $1 AND touch = $2
CheckDuplicate(k) ==
  /\ At(k, "duplicate")
  /\ IF IsDuplicate(k[2]) THEN Answer(k, "skipped_duplicate") ELSE Goto(k, "count")
  /\ UNCHANGED <<cliLeft, taskVars, tableVars, triage, clockVars, mails, faults>>

\* _get_or_create_today_row: the date, then the cap from a query of its own.
CountWarmupDays(k) ==
  /\ At(k, "count")
  /\ call' = [call EXCEPT ![k].pc = "row", ![k].day = Today,
                          ![k].cap = CapAfter(Cardinality(DaysWithSends))]
  /\ UNCHANGED <<cliLeft, taskVars, tableVars, triage, clockVars, mails, faults>>

\* The refusals of check_and_reserve_slot before the bounce query.  Mutants: one
\* send too many; the halt of the day is forgotten.
RefusedPastCap(row) == row.halted \/ ~(Unsafe \/ open) \/ row.sent > row.cap
RefusedUnlessHalted(row) == ~(Unsafe \/ open) \/ row.sent >= row.cap
Refused(row) == row.halted \/ ~(Unsafe \/ open) \/ row.sent >= row.cap

\* The upsert keeps an existing row; check_and_reserve_slot then decides on the
\* returned values without another await before the bounce query.
GetOrCreateRow(k) ==
  LET d == call[k].day
      fresh == [NoRow EXCEPT !.made = TRUE, !.cap = call[k].cap]
      row == IF budget[d].made THEN budget[d] ELSE fresh
  IN /\ At(k, "row")
     /\ budget' = [budget EXCEPT ![d] = row]
     /\ IF Refused(row) THEN Answer(k, "skipped_budget") ELSE Goto(k, "bounces")
     /\ UNCHANGED <<cliLeft, taskVars, message, sentOrder, lead, suppressed, triage, clockVars, mails, faults>>

CheckBounces(k) ==
  /\ At(k, "bounces")
  /\ Goto(k, IF BounceRateTooHigh THEN "halt" ELSE "send")
  /\ UNCHANGED <<cliLeft, taskVars, tableVars, triage, clockVars, mails, faults>>

HaltDay(k) ==
  /\ At(k, "halt")
  /\ budget' = [budget EXCEPT ![call[k].day].halted = TRUE]
  /\ Answer(k, "skipped_budget")
  /\ UNCHANGED <<cliLeft, taskVars, message, sentOrder, lead, suppressed, triage, clockVars, mails, faults>>

SendAccepted(k) ==
  /\ At(k, "send")
  /\ mails' = [mails EXCEPT ![k[2]] = @ + 1]
  /\ Goto(k, "insert")
  /\ UNCHANGED <<cliLeft, taskVars, tableVars, triage, clockVars, faults>>

\* Mutants: deliver lets the exception through, so that the task is retried;
\* record_sent runs in a finally clause.
SendRaisesToTheQueue(k) ==
  /\ At(k, "send")
  /\ mails' = [mails EXCEPT ![k[2]] = @ + 1]
  /\ Goto(k, "raise")
  /\ UNCHANGED <<cliLeft, taskVars, tableVars, triage, clockVars, faults>>
SendRaisesButCounts(k) ==
  /\ At(k, "send")
  /\ Goto(k, "record")
  /\ UNCHANGED <<cliLeft, taskVars, tableVars, triage, clockVars, mails, faults>>

\* transport.send raises, before or after the provider took the mail; deliver
\* reports it as an ordinary result.
SendRaises(k) ==
  /\ At(k, "send")
  /\ \/ mails' = [mails EXCEPT ![k[2]] = @ + 1]
     \/ UNCHANGED mails
  /\ Answer(k, "failed")
  /\ UNCHANGED <<cliLeft, taskVars, tableVars, triage, clockVars, faults>>

\* UNIQUE (lead_id, touch): a second row is refused, and deliver raises.
InsertMessage(k) ==
  LET l == k[2] IN
  /\ At(k, "insert")
  /\ IF message[l] = "none"
     THEN /\ message' = [message EXCEPT ![l] = "sent"]
          /\ sentOrder' = Append(sentOrder, l)
          /\ Goto(k, "mark")
     ELSE Goto(k, "raise") /\ UNCHANGED <<message, sentOrder>>
  /\ UNCHANGED <<cliLeft, taskVars, lead, suppressed, budget, triage, clockVars, mails, faults>>

\* UPDATE leads SET status = 'sent', whatever the status is by now.
MarkLeadSent(k) ==
  /\ At(k, "mark")
  /\ lead' = [lead EXCEPT ![k[2]] = "sent"]
  /\ Goto(k, "record")
  /\ UNCHANGED <<cliLeft, taskVars, message, sentOrder, suppressed, budget, triage, clockVars, mails, faults>>

\* Mutant: record_sent counts on the row the cap was checked against.
RecordSentOnCheckedDay(k) ==
  /\ At(k, "record")
  /\ budget' = [budget EXCEPT ![call[k].day].sent = @ + 1]
  /\ Answer(k, "sent")
  /\ UNCHANGED <<cliLeft, taskVars, message, sentOrder, lead, suppressed, triage, clockVars, mails, faults>>

\* record_sent counts on the row of the current date; without one it does nothing.
RecordSent(k) ==
  /\ At(k, "record")
  /\ budget' = IF budget[Today].made THEN [budget EXCEPT ![Today].sent = @ + 1] ELSE budget
  /\ Answer(k, "sent")
  /\ UNCHANGED <<cliLeft, taskVars, message, sentOrder, lead, suppressed, triage, clockVars, mails, faults>>

\* _handle_send_message ignores the result: the task is done whatever it is.
FinishTask(l) ==
  LET k == <<"worker", l>> IN
  /\ k \in Key /\ At(k, "return")
  /\ Queue!Finish(l)
  /\ call' = [call EXCEPT ![k] = NoCall]
  /\ UNCHANGED <<cliLeft, tableVars, triage, clockVars, mails, faults>>

FailTask(l) ==
  LET k == <<"worker", l>> IN
  /\ k \in Key /\ At(k, "raise")
  /\ IF tries[l] + 1 < MaxAttempts THEN Queue!Retry(l) ELSE Queue!GiveUp(l)
  /\ call' = [call EXCEPT ![k] = NoCall]
  /\ UNCHANGED <<cliLeft, tableVars, triage, clockVars, mails, faults>>

\* An exception ends cold-mailer run.
CliReturns(l) ==
  LET k == <<"cli", l>> IN
  /\ k \in Key /\ (At(k, "return") \/ At(k, "raise"))
  /\ cliLeft' = IF At(k, "raise") THEN {} ELSE cliLeft
  /\ call' = [call EXCEPT ![k] = NoCall]
  /\ UNCHANGED <<taskVars, tableVars, triage, clockVars, mails, faults>>

-----------------------------------------------------------------------------
(* triage_message *)

TriageAt(l, pc) == triage[l].pc = pc
TriageGoto(l, pc) == triage' = [triage EXCEPT ![l].pc = pc]

\* classify_reply's verdicts, as TriageOutput carries them.
Bounce(kind) == kind \in {"bounce_hard", "bounce_soft"}
ShouldSuppress(kind) == kind \in {"bounce_hard", "unsubscribe"}
ShouldStop(kind) == kind # "out_of_office"

\* An answer to a mail with a messages row arrives and is classified.
Reply(l, kind) ==
  /\ TriageAt(l, "none")
  /\ message[l] # "none"
  /\ triage' = [triage EXCEPT ![l] = [pc |-> "message", kind |-> kind]]
  /\ UNCHANGED <<cliLeft, taskVars, call, tableVars, clockVars, mails, faults>>

TriageMessage(l) ==
  LET kind == triage[l].kind IN
  /\ TriageAt(l, "message")
  /\ message' = [message EXCEPT ![l] = IF Bounce(kind) THEN "bounced"
                                       ELSE IF kind = "genuine_reply" THEN "replied" ELSE @]
  /\ TriageGoto(l, "suppress")
  /\ UNCHANGED <<cliLeft, taskVars, call, sentOrder, lead, suppressed, budget, clockVars, mails, faults>>

\* Mutant: only an unsubscribe is suppressed.
TriageSuppressSome(l) ==
  /\ TriageAt(l, "suppress")
  /\ suppressed' = IF triage[l].kind = "unsubscribe" THEN suppressed \cup {l} ELSE suppressed
  /\ TriageGoto(l, IF ShouldStop(triage[l].kind) THEN "stop" ELSE "over")
  /\ UNCHANGED <<cliLeft, taskVars, call, message, sentOrder, lead, budget, clockVars, mails, faults>>

TriageSuppress(l) ==
  /\ TriageAt(l, "suppress")
  /\ suppressed' = IF ShouldSuppress(triage[l].kind) THEN suppressed \cup {l} ELSE suppressed
  /\ TriageGoto(l, IF ShouldStop(triage[l].kind) THEN "stop" ELSE "over")
  /\ UNCHANGED <<cliLeft, taskVars, call, message, sentOrder, lead, budget, clockVars, mails, faults>>

\* Only a pending send_message task is stopped; a claimed one goes on.
TriageStop(l) ==
  /\ TriageAt(l, "stop")
  /\ Queue!Withdraw({l} \cap Queue!In("queued"))
  /\ TriageGoto(l, "lead")
  /\ UNCHANGED <<cliLeft, call, tableVars, clockVars, mails, faults>>

TriageLead(l) ==
  /\ TriageAt(l, "lead")
  /\ lead' = [lead EXCEPT ![l] = IF triage[l].kind = "genuine_reply" THEN "replied" ELSE "suppressed"]
  /\ TriageGoto(l, "over")
  /\ UNCHANGED <<cliLeft, taskVars, call, message, sentOrder, suppressed, budget, clockVars, mails, faults>>

-----------------------------------------------------------------------------
(* Crash and recovery of the worker *)

\* Every call of the worker vanishes between two statements; the triage task
\* it was running is reclaimed and starts over.
Crash ==
  /\ faults < MaxFaults
  /\ faults' = faults + 1
  /\ Queue!Lose(Queue!In("held"))
  /\ call' = [k \in Key |-> IF k[1] = "worker" THEN NoCall ELSE call[k]]
  /\ triage' = [l \in Lead |-> IF TriageAt(l, "over") THEN triage[l]
                               ELSE [triage[l] EXCEPT !.pc = "none"]]
  /\ UNCHANGED <<cliLeft, tableVars, clockVars, mails>>

\* reap_stale_claims.
Reap ==
  /\ Queue!In("orphaned") # {}
  /\ Queue!Recover(Queue!In("orphaned"))
  /\ UNCHANGED <<cliLeft, call, tableVars, triage, clockVars, mails, faults>>

-----------------------------------------------------------------------------
Deliver(k) ==
  \/ CheckSuppression(k) \/ CheckDuplicate(k) \/ CountWarmupDays(k) \/ GetOrCreateRow(k)
  \/ CheckBounces(k) \/ HaltDay(k) \/ SendAccepted(k) \/ SendRaises(k)
  \/ InsertMessage(k) \/ MarkLeadSent(k) \/ RecordSent(k)

Handle(l) == FinishTask(l) \/ FailTask(l)

Triage(l) == TriageMessage(l) \/ TriageSuppress(l) \/ TriageStop(l) \/ TriageLead(l)

Worker == Reap \/ \E S \in SUBSET Lead : StartBatch(S)

Next ==
  \/ \E l \in Lead : Approve(l) \/ Suppress(l) \/ Handle(l) \/ CliReturns(l)
                     \/ StartCli(l) \/ Triage(l)
  \/ \E l \in Lead, kind \in Kind : Reply(l, kind)
  \/ \E k \in Key : Deliver(k)
  \/ Worker \/ Crash \/ NextDay \/ BusinessHours

Spec == Init /\ [][Next]_vars
-----------------------------------------------------------------------------
(* Properties *)

TypeOK ==
  /\ Queue!QueueTypeOK
  /\ call \in [Key -> Call]
  /\ message \in [Lead -> {"none", "sent", "bounced", "replied"}]
  /\ sentOrder \in Seq(Lead)
  /\ cliLeft \subseteq Lead
  /\ lead \in [Lead -> LeadStatus]
  /\ suppressed \subseteq Lead
  /\ budget \in [Day -> [made : BOOLEAN, sent : Nat, cap : Nat, halted : BOOLEAN]]
  /\ triage \in [Lead -> [pc : TriagePc, kind : ReplyKind]]
  /\ day \in Day /\ open \in BOOLEAN
  /\ mails \in [Lead -> Nat]
  /\ faults \in 0..MaxFaults

\* The calls that are past the gate and not yet counted.
PastGate == {k \in Key : call[k].pc \in {"bounces", "send", "insert", "mark", "record"}}

\* Every mail to a lead beyond one per caller is paid for by a crash between the
\* send and the INSERT; neither a failed send nor a retried task repeats one.
ExtraMailsAreCrashes == \A l \in Lead : mails[l] <= Cardinality(Caller) + faults

\* Once the messages row is there, no call mails the lead again, although the
\* duplicate check and the send are four statements apart.
NoMailAfterRow ==
  [][\A l \in Lead : message[l] # "none" => mails'[l] = mails[l]]_vars

\* A call made when its lead was already suppressed never reaches the transport.
SuppressionIsFinal == \A k \in Key : At(k, "send") => ~call[k].barred

\* The halt is sticky: a call made when the row of a day was halted does not
\* send on the budget of that day.
HaltIsSticky == \A k \in Key : At(k, "send") => call[k].frozen # call[k].day

\* check_and_reserve_slot reserves nothing, so every call that runs at the same
\* time may pass the gate on the last slot of the day: the sends counted and those
\* under way exceed the cap by all of them but one, and by no more.
Slots == (IF "worker" \in Caller THEN Batch ELSE 0) + (IF "cli" \in Caller THEN 1 ELSE 0)
CapSlack == budget[day].made => budget[day].sent + Cardinality(PastGate)
                                 <= budget[day].cap + Slots - 1

\* The ramp advances by days that recorded a send: the cap of a day is the one
\* after the earlier days with sends, whichever call made the row and when.
RampCountsSendingDays ==
  \A d \in Day : budget[d].made =>
    budget[d].cap = CapAfter(Cardinality({e \in DaysWithSends : e < d}))

\* send_budget counts no mail twice, and misses one only for a crash between the
\* INSERT and record_sent or for a call that went on past midnight.
Counted == UNION {{d} \X (1..budget[d].sent) : d \in Day}
TotalSent == Cardinality(Counted)
Uncounted == {k \in Key : call[k].pc \in {"mark", "record"}}
BudgetLedger ==
  /\ TotalSent + Cardinality(Uncounted) <= Len(sentOrder)
  /\ day = 1 => Len(sentOrder) <= TotalSent + Cardinality(Uncounted) + Batch * faults

\* A triage that ran to its end, however often a crash cut it short before, has
\* left its whole verdict behind: the message's status and the suppression.
VerdictRecorded ==
  \A l \in Lead : triage[l].pc = "over" =>
    LET kind == triage[l].kind IN
    /\ Bounce(kind) => message[l] = "bounced"
    /\ kind = "genuine_reply" => message[l] = "replied"
    /\ ShouldSuppress(kind) => l \in suppressed

\* "blocked -> stays pending, retried next tick" (DESIGN.md:277): a task whose
\* send the budget refused is not over.
BlockedStaysPending ==
  [][\A l \in Lead : /\ "worker" \in Caller
                      /\ call[<<"worker", l>>].result = "skipped_budget"
                      => job'[l] # "over"]_vars
=============================================================================
