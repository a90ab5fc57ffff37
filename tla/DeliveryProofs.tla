---------------------------- MODULE DeliveryProofs ----------------------------
(***************************************************************************)
(* Proofs about Delivery, for any leads, callers, batch size, caps and      *)
(* bounce window, any number of days and any number of crashes.             *)
(***************************************************************************)
EXTENDS Delivery, TLAPS, FiniteSetTheorems

-----------------------------------------------------------------------------
(* The invariants *)

\* A call that has passed the duplicate check and can still send.
Ahead == {"count", "row", "bounces", "halt", "send"}
PastRow == {"bounces", "halt", "send"}

\* A call holds the date of a day that has begun, and the row of that day is there
\* once the call has been through the upsert.
DateIsKnown ==
  \A k \in Key :
    /\ call[k].pc \in PastRow \cup {"row"} => call[k].day \in 1..day
    /\ call[k].pc \in PastRow => budget[call[k].day].made

\* No row is made before its day; only a row that is there counts or halts.
RowsTillToday ==
  \A d \in Day :
    /\ budget[d].made => d <= day
    /\ budget[d].sent > 0 \/ budget[d].halted => budget[d].made

\* A call whose lead was barred gets no further than the first check.
BarredStops ==
  \A k \in Key : call[k].barred => k[2] \in suppressed /\ call[k].pc \in {"suppression", "return"}

\* The halt a call found is there for good, and the call does not get past the
\* row of that day.
FrozenStops ==
  \A k \in Key : call[k].frozen # 0 =>
    /\ budget[call[k].frozen].halted
    /\ call[k].pc \in PastRow => call[k].day # call[k].frozen

\* How far a triage has come is how much of its verdict is there.
Leaves(l) ==
  LET kind == triage[l].kind IN
  /\ triage[l].pc # "none" => message[l] # "none"
  /\ triage[l].pc \in {"suppress", "stop", "lead", "over"} =>
       /\ Bounce(kind) => message[l] = "bounced"
       /\ kind = "genuine_reply" => message[l] = "replied"
  /\ triage[l].pc \in {"stop", "lead", "over"} /\ ShouldSuppress(kind) => l \in suppressed
TriageLeaves == \A l \in Lead : Leaves(l)

\* The cap a call has computed is the right one, unless somebody else has made
\* the row and the call's cap is not used.
CapIsCurrent ==
  \A k \in Key : call[k].pc = "row" /\ ~budget[call[k].day].made =>
    call[k].cap = CapAfter(Cardinality({e \in DaysWithSends : e < call[k].day}))

RampInv == CapIsCurrent /\ RampCountsSendingDays

\* The worker's call for a lead is there only while its task is held.
CallsAreHeld ==
  \A l \in Lead : <<"worker", l>> \in Key /\ ~At(<<"worker", l>>, "none") => job[l] = "held"

RaisesBesideRow == \A k \in Key : At(k, "raise") => message[k[2]] # "none"

\* Whether the caller may still mail the lead without a crash.
WorkerMayMail(l) ==
  LET k == <<"worker", l>> IN
  /\ "worker" \in Caller /\ job[l] # "over"
  /\ \/ call[k].pc \in Ahead
     \/ call[k].pc \in {"none", "suppression", "duplicate"} /\ message[l] = "none"
CliMayMail(l) ==
  /\ "cli" \in Caller
  /\ l \in cliLeft \/ call[<<"cli", l>>].pc \in Ahead \cup {"suppression", "duplicate"}

One(b) == IF b THEN 1 ELSE 0
MailsLeft(l) == mails[l] + One(WorkerMayMail(l)) + One(CliMayMail(l)) <= Cardinality(Caller) + faults

CliCallsLeft == \A l \in Lead : <<"cli", l>> \in Key /\ ~At(<<"cli", l>>, "none") => l \notin cliLeft

MailInv == CallsAreHeld /\ CliCallsLeft /\ RaisesBesideRow /\ \A l \in Lead : MailsLeft(l)

\* With one caller nobody else can have made the row a call did not find.
NoRowAhead ==
  (\A c, d \in Caller : c = d) =>
    \A k \in Key : call[k].pc \in Ahead \cup {"insert"} => message[k[2]] = "none"

-----------------------------------------------------------------------------
(* Types *)

\* The days of the model are finitely many numbers.
LEMMA DaysAreFinite == IsFiniteSet(Day) /\ Day \subseteq Nat
<1>1. 1 \in Int /\ LastDay \in Int
  BY DeliveryAssumption
<1> QED
  BY <1>1, FS_Interval DEF Day

\* The ramp gives every day a cap above zero.
LEMMA CapsAreNat ==
  ASSUME NEW n \in Nat
  PROVE  CapAfter(n) \in Nat \ {0}
BY DeliveryAssumption DEF CapAfter

\* Any set of days can be counted.
LEMMA SubsetsOfDays ==
  ASSUME NEW D \in SUBSET Day
  PROVE  IsFiniteSet(D) /\ Cardinality(D) \in Nat
BY DaysAreFinite, FS_Subset, FS_CardinalityType

\* One call moves to pc; what it holds stays.
Moved(k, pc) ==
  /\ call' \in [Key -> Call]
  /\ call'[k].pc = pc
  /\ call'[k].day = call[k].day /\ call'[k].cap = call[k].cap
  /\ call'[k].barred = call[k].barred /\ call'[k].frozen = call[k].frozen
  /\ \A o \in Key \ {k} : call'[o] = call[o]

\* Goto moves one call and touches nothing it holds.
LEMMA Moving ==
  ASSUME TypeOK, NEW k \in Key, NEW pc \in CallPc, Goto(k, pc)
  PROVE  Moved(k, pc)
<1>1. call \in [Key -> Call] /\ call[k] \in Call
  BY DEF TypeOK
<1>2. call'[k] = [call[k] EXCEPT !.pc = pc]
  BY <1>1 DEF Goto
<1>3. call'[k] \in Call
  BY <1>1, <1>2 DEF Call
<1> QED
  BY <1>1, <1>2, <1>3 DEF Goto, Moved, Call

\* So does Answer, which ends in return.
LEMMA Answering ==
  ASSUME TypeOK, NEW k \in Key, NEW status \in DeliveryStatus, Answer(k, status)
  PROVE  Moved(k, "return")
<1>1. call \in [Key -> Call] /\ call[k] \in Call
  BY DEF TypeOK
<1>2. call'[k] = [call[k] EXCEPT !.pc = "return", !.result = status]
  BY <1>1 DEF Answer
<1>3. call'[k] \in Call
  BY <1>1, <1>2 DEF Call, CallPc
<1> QED
  BY <1>1, <1>2, <1>3 DEF Answer, Moved, Call

\* A call begins, or is over.
LEMMA Beginning ==
  ASSUME TypeOK, NEW l \in Lead
  PROVE  /\ NewCall(l) \in Call /\ NewCall(l).pc = "suppression"
         /\ NewCall(l).barred = (l \in suppressed)
         /\ NewCall(l).frozen = (IF budget[day].halted THEN day ELSE 0)
         /\ NewCall(l).day = 0 /\ NewCall(l).cap = 0
         /\ NoCall \in Call /\ NoCall.pc = "none" /\ NoCall.barred = FALSE /\ NoCall.frozen = 0
<1>1. day \in 0..LastDay /\ 0 \in 0..LastDay
  BY DeliveryAssumption DEF TypeOK, Day
<1>2. NoCall \in Call /\ NoCall.pc = "none" /\ NoCall.barred = FALSE /\ NoCall.frozen = 0
  BY <1>1 DEF NoCall, Call, CallPc, DeliveryStatus
<1> DEFINE frozen == IF budget[day].halted THEN day ELSE 0
           barred == l \in suppressed
<1>3. barred \in BOOLEAN /\ frozen \in 0..LastDay
  BY <1>1
<1>4. NewCall(l) = [NoCall EXCEPT !.pc = "suppression", !.barred = barred, !.frozen = frozen]
  BY DEF NewCall
<1> DEFINE x == [pc |-> "suppression", day |-> 0, cap |-> 0, result |-> "none",
                 barred |-> barred, frozen |-> frozen]
<1> HIDE DEF frozen, barred
<1>5. NewCall(l) = x
  BY <1>4 DEF NoCall
<1>6. x.pc = "suppression" /\ x.day = 0 /\ x.cap = 0 /\ x.barred = barred /\ x.frozen = frozen
  OBVIOUS
<1>7. x \in Call
  BY <1>1, <1>3 DEF Call, CallPc, DeliveryStatus
<1> HIDE DEF x
<1> QED
  BY <1>2, <1>5, <1>6, <1>7 DEF frozen, barred

\* The initial state has its type.
LEMMA TypesInit == Init => TypeOK
<1> SUFFICES ASSUME Init PROVE TypeOK
  OBVIOUS
<1>1. Queue!QueueTypeOK
  BY DeliveryAssumption DEF Init, Queue!QueueInit, Queue!QueueTypeOK, Queue!JobState
<1>2. NoCall \in Call
  BY DeliveryAssumption DEF NoCall, Call, CallPc, DeliveryStatus
<1>3. NoRow \in [made : BOOLEAN, sent : Nat, cap : Nat, halted : BOOLEAN]
  BY DEF NoRow
<1> QED
  BY <1>1, <1>2, <1>3, DeliveryAssumption DEF Init, TypeOK, LeadStatus, TriagePc, ReplyKind, Day

\* Every action of the queue keeps the type of the tasks.
LEMMA QueueKeepsType ==
  ASSUME Queue!QueueTypeOK,
         \/ \E l \in Lead : Queue!Submit(l) \/ Queue!Finish(l) \/ Queue!Retry(l) \/ Queue!GiveUp(l)
         \/ \E S \in SUBSET Lead : Queue!Take(S) \/ Queue!Lose(S) \/ Queue!Recover(S) \/ Queue!Withdraw(S)
  PROVE  Queue!QueueTypeOK'
<1> USE DEF Queue!QueueTypeOK, Queue!JobState, Queue!Move, Queue!In, Queue!Charge
<1>1. ASSUME NEW l \in Lead, Queue!Submit(l) \/ Queue!Finish(l)
      PROVE  Queue!QueueTypeOK'
  BY <1>1 DEF Queue!Submit, Queue!Finish
<1>2. ASSUME NEW l \in Lead, Queue!Retry(l) \/ Queue!GiveUp(l)
      PROVE  Queue!QueueTypeOK'
  <2>1. MaxAttempts \in Nat /\ tries[l] \in Nat /\ tries[l] + 1 <= MaxAttempts
    BY <1>2, DeliveryAssumption DEF Queue!Retry, Queue!GiveUp
  <2>2. tries' \in [Lead -> 0..MaxAttempts]
    BY <1>2, <2>1 DEF Queue!Retry, Queue!GiveUp
  <2> QED
    BY <1>2, <2>2 DEF Queue!Retry, Queue!GiveUp
<1>3. ASSUME NEW S \in SUBSET Lead, Queue!Take(S) \/ Queue!Lose(S) \/ Queue!Recover(S) \/ Queue!Withdraw(S)
      PROVE  Queue!QueueTypeOK'
  BY <1>3 DEF Queue!Take, Queue!Lose, Queue!Recover, Queue!Withdraw
<1> QED
  BY <1>1, <1>2, <1>3

\* The statements of deliver and the steps that start or end a call: call
\* keeps its type.
LEMMA CallsKeepType ==
  ASSUME TypeOK, [Next]_vars
  PROVE  call' \in [Key -> Call]
<1>1. ASSUME NEW k \in Key, Deliver(k)
      PROVE  call' \in [Key -> Call]
  <2> USE DEF CallPc, DeliveryStatus
  <2>1. ASSUME NEW pc \in CallPc, Goto(k, pc)
        PROVE  call' \in [Key -> Call]
    BY <2>1, Moving DEF Moved
  <2>2. ASSUME NEW status \in DeliveryStatus, Answer(k, status)
        PROVE  call' \in [Key -> Call]
    BY <2>2, Answering DEF Moved
  <2>3. CASE CountWarmupDays(k)
    <3>1. Cardinality(DaysWithSends) \in Nat
      BY SubsetsOfDays DEF DaysWithSends
    <3>2. CapAfter(Cardinality(DaysWithSends)) \in Nat
      BY <3>1, CapsAreNat
    <3>3. Today \in 0..LastDay
      BY DeliveryAssumption DEF TypeOK, Day, Today
    <3> DEFINE x == [call[k] EXCEPT !.pc = "row", !.day = Today,
                                    !.cap = CapAfter(Cardinality(DaysWithSends))]
    <3>4. call[k] \in Call /\ call \in [Key -> Call]
      BY DEF TypeOK
    <3>5. x \in Call
      BY <3>2, <3>3, <3>4 DEF Call
    <3>6. call' = [call EXCEPT ![k] = x]
      BY <2>3, <3>4 DEF CountWarmupDays
    <3> QED
      BY <3>4, <3>5, <3>6
  <2>4. CASE CheckSuppression(k)
    BY <2>1, <2>2, <2>4 DEF CheckSuppression
  <2>5. CASE CheckDuplicate(k)
    BY <2>1, <2>2, <2>5 DEF CheckDuplicate
  <2>6. CASE GetOrCreateRow(k)
    BY <2>1, <2>2, <2>6 DEF GetOrCreateRow
  <2>7. CASE CheckBounces(k) \/ SendAccepted(k) \/ InsertMessage(k) \/ MarkLeadSent(k)
    BY <2>1, <2>7 DEF CheckBounces, SendAccepted, InsertMessage, MarkLeadSent
  <2>8. CASE HaltDay(k) \/ SendRaises(k) \/ RecordSent(k)
    BY <2>2, <2>8 DEF HaltDay, SendRaises, RecordSent
  <2> QED
    BY <1>1, <2>3, <2>4, <2>5, <2>6, <2>7, <2>8 DEF Deliver
<1>2. ASSUME NEW l \in Lead, Handle(l) \/ CliReturns(l) \/ StartCli(l)
      PROVE  call' \in [Key -> Call]
  BY <1>2, Beginning DEF TypeOK, Handle, FinishTask, FailTask, CliReturns, StartCli
<1>3. ASSUME NEW S \in SUBSET Lead, StartBatch(S)
      PROVE  call' \in [Key -> Call]
  BY <1>3, Beginning DEF TypeOK, StartBatch, Key
<1>4. CASE Crash
  <2>1. CASE Lead = {}
    BY <1>4, <2>1 DEF Crash, Key
  <2> QED
    BY <1>4, <2>1, Beginning DEF TypeOK, Crash
<1>5. ASSUME NEW l \in Lead, Approve(l) \/ Suppress(l) \/ Triage(l) \/ \E kind \in Kind : Reply(l, kind)
      PROVE  UNCHANGED call
  BY <1>5 DEF Approve, Suppress, Triage, TriageMessage, TriageSuppress, TriageStop, TriageLead, Reply
<1>6. CASE Reap \/ NextDay \/ BusinessHours \/ UNCHANGED vars
  BY <1>6 DEF TypeOK, Reap, NextDay, BusinessHours, vars
<1> QED
  BY <1>1, <1>2, <1>3, <1>4, <1>5, <1>6 DEF Next, Worker, TypeOK

Tables ==
  /\ message \in [Lead -> {"none", "sent", "bounced", "replied"}]
  /\ sentOrder \in Seq(Lead)
  /\ lead \in [Lead -> LeadStatus]
  /\ suppressed \subseteq Lead
  /\ budget \in [Day -> [made : BOOLEAN, sent : Nat, cap : Nat, halted : BOOLEAN]]

Rest ==
  /\ cliLeft \subseteq Lead
  /\ triage \in [Lead -> [pc : TriagePc, kind : ReplyKind]]
  /\ day \in Day /\ open \in BOOLEAN
  /\ mails \in [Lead -> Nat]
  /\ faults \in 0..MaxFaults

\* The upsert and the counter keep the type of a row.
LEMMA RowsKeepType ==
  ASSUME TypeOK, DateIsKnown, NEW k \in Key, Deliver(k)
  PROVE  budget' \in [Day -> [made : BOOLEAN, sent : Nat, cap : Nat, halted : BOOLEAN]]
<1> DEFINE Row == [made : BOOLEAN, sent : Nat, cap : Nat, halted : BOOLEAN]
           d == call[k].day
<1>1. budget \in [Day -> Row] /\ call[k].cap \in Nat /\ day \in Day
  BY DEF TypeOK, Call
<1>2. CASE GetOrCreateRow(k)
  <2> DEFINE fresh == [NoRow EXCEPT !.made = TRUE, !.cap = call[k].cap]
             row == IF budget[d].made THEN budget[d] ELSE fresh
  <2>1. fresh \in Row
    BY <1>1 DEF NoRow
  <2>2. d \in Day
    BY <1>1, <1>2, DeliveryAssumption DEF DateIsKnown, GetOrCreateRow, At, Day
  <2>3. row \in Row
    BY <1>1, <2>1, <2>2
  <2>4. budget' = [budget EXCEPT ![d] = row]
    BY <1>2 DEF GetOrCreateRow
  <2> QED
    BY <1>1, <2>3, <2>4
<1>3. CASE HaltDay(k)
  BY <1>1, <1>3 DEF HaltDay
<1>4. CASE RecordSent(k)
  <2> DEFINE row == [budget[day] EXCEPT !.sent = @ + 1]
  <2>1. row \in Row
    BY <1>1
  <2>2. budget' = budget \/ budget' = [budget EXCEPT ![day] = row]
    BY <1>4 DEF RecordSent, Today
  <2> QED
    BY <1>1, <2>1, <2>2
<1>5. CASE CheckSuppression(k) \/ CheckDuplicate(k) \/ CountWarmupDays(k) \/ CheckBounces(k)
             \/ SendAccepted(k) \/ SendRaises(k) \/ InsertMessage(k) \/ MarkLeadSent(k)
  BY <1>1, <1>5 DEF CheckSuppression, CheckDuplicate, CountWarmupDays, CheckBounces,
                    SendAccepted, SendRaises, InsertMessage, MarkLeadSent, tableVars
<1> QED
  BY <1>2, <1>3, <1>4, <1>5 DEF Deliver

\* Every step keeps the types; it needs the date of a call to be that of a day.
LEMMA TypesStep ==
  ASSUME TypeOK, DateIsKnown, [Next]_vars
  PROVE  TypeOK'
<1>1. call' \in [Key -> Call]
  BY CallsKeepType
<1>2. Queue!QueueTypeOK /\ Tables /\ Rest
  BY DEF TypeOK, Tables, Rest
<1> SUFFICES Queue!QueueTypeOK' /\ Tables' /\ Rest'
  BY <1>1 DEF TypeOK, Tables, Rest
<1>3. ASSUME UNCHANGED taskVars
      PROVE  Queue!QueueTypeOK'
  BY <1>2, <1>3 DEF taskVars, Queue!QueueTypeOK
<1>4. ASSUME NEW k \in Key, Deliver(k)
      PROVE  Queue!QueueTypeOK' /\ Tables' /\ Rest'
  <2> USE DEF Deliver, CheckSuppression, CheckDuplicate, CountWarmupDays, GetOrCreateRow, CheckBounces,
              HaltDay, SendAccepted, SendRaises, InsertMessage, MarkLeadSent, RecordSent
  <2>1. UNCHANGED taskVars
    BY <1>4
  <2>2. k[2] \in Lead
    BY DEF Key
  <2>3. Rest'
    BY <1>2, <1>4, <2>2 DEF Rest, clockVars
  <2>4. message' \in [Lead -> {"none", "sent", "bounced", "replied"}] /\ sentOrder' \in Seq(Lead)
    <3>1. CASE InsertMessage(k)
      <4>1. Append(sentOrder, k[2]) \in Seq(Lead)
        BY <1>2, <2>2 DEF Tables
      <4> QED
        BY <1>2, <3>1, <2>2, <4>1 DEF Tables
    <3>2. CASE ~InsertMessage(k)
      <4>1. UNCHANGED <<message, sentOrder>>
        BY <1>4, <3>2 DEF tableVars
      <4> QED
        BY <1>2, <4>1 DEF Tables
    <3> QED
      BY <3>1, <3>2
  <2>5. lead' \in [Lead -> LeadStatus] /\ suppressed' \subseteq Lead
    BY <1>2, <1>4, <2>2 DEF Tables, tableVars, LeadStatus
  <2> QED
    BY <1>3, <1>4, <2>1, <2>3, <2>4, <2>5, RowsKeepType DEF Tables
<1>5. ASSUME NEW l \in Lead, Approve(l) \/ Suppress(l)
      PROVE  Queue!QueueTypeOK' /\ Tables' /\ Rest'
  BY <1>2, <1>3, <1>5, QueueKeepsType DEF Approve, Suppress, Tables, Rest, LeadStatus, clockVars
<1>6. ASSUME NEW l \in Lead, Handle(l) \/ CliReturns(l) \/ StartCli(l)
      PROVE  Queue!QueueTypeOK' /\ Tables' /\ Rest'
  BY <1>2, <1>3, <1>6, QueueKeepsType
     DEF Handle, FinishTask, FailTask, CliReturns, StartCli, Tables, Rest, tableVars, clockVars
<1>7. ASSUME NEW l \in Lead, Triage(l)
      PROVE  Queue!QueueTypeOK' /\ Tables' /\ Rest'
  <2> USE DEF TriageAt, TriageGoto, TriagePc, Tables, Rest, tableVars, clockVars
  <2>1. CASE TriageMessage(l)
    BY <1>2, <1>3, <2>1 DEF TriageMessage
  <2>2. CASE TriageSuppress(l)
    BY <1>2, <1>3, <2>2 DEF TriageSuppress
  <2>3. CASE TriageStop(l)
    BY <1>2, <2>3, QueueKeepsType DEF TriageStop
  <2>4. CASE TriageLead(l)
    BY <1>2, <1>3, <2>4 DEF TriageLead, LeadStatus
  <2> QED
    BY <1>7, <2>1, <2>2, <2>3, <2>4 DEF Triage
<1>8. ASSUME NEW l \in Lead, NEW kind \in Kind, Reply(l, kind)
      PROVE  Queue!QueueTypeOK' /\ Tables' /\ Rest'
  <2>1. kind \in ReplyKind
    BY DeliveryAssumption
  <2> QED
    BY <1>2, <1>3, <1>8, <2>1 DEF Reply, TriagePc, Tables, Rest, tableVars, clockVars
<1>9. ASSUME NEW S \in SUBSET Lead, StartBatch(S)
      PROVE  Queue!QueueTypeOK' /\ Tables' /\ Rest'
  BY <1>2, <1>9, QueueKeepsType DEF StartBatch, Tables, Rest, tableVars, clockVars
<1>10. CASE Reap
  <2>1. Queue!In("orphaned") \subseteq Lead
    BY DEF Queue!In
  <2> QED
    BY <1>2, <1>10, <2>1, QueueKeepsType DEF Reap, Tables, Rest, tableVars, clockVars
<1>11. CASE Crash
  <2>1. Queue!In("held") \subseteq Lead
    BY DEF Queue!In
  <2>2. Queue!QueueTypeOK' /\ Tables'
    BY <1>2, <1>11, <2>1, QueueKeepsType DEF Crash, Tables, tableVars
  <2>3. faults' \in 0..MaxFaults
    BY <1>2, <1>11, DeliveryAssumption DEF Crash, Rest
  <2>4. triage' \in [Lead -> [pc : TriagePc, kind : ReplyKind]]
    BY <1>2, <1>11 DEF Crash, Rest, TriageAt, TriagePc
  <2> QED
    BY <1>2, <1>11, <2>2, <2>3, <2>4 DEF Crash, Rest, clockVars
<1>12. CASE NextDay
  BY <1>2, <1>3, <1>12, DeliveryAssumption DEF NextDay, Tables, Rest, tableVars, Day
<1>13. CASE BusinessHours
  <2>1. open' \in BOOLEAN
    BY <1>13 DEF BusinessHours
  <2> QED
    BY <1>2, <1>3, <1>13, <2>1 DEF BusinessHours, Tables, Rest, tableVars
<1>14. CASE UNCHANGED vars
  BY <1>2, <1>3, <1>14 DEF vars, Tables, Rest, tableVars, clockVars
<1> QED
  BY <1>4, <1>5, <1>6, <1>7, <1>8, <1>9, <1>10, <1>11, <1>12, <1>13, <1>14 DEF Next, Worker

-----------------------------------------------------------------------------
(* What a step does to one call *)

Edge(k, from, to) == call[k].pc = from /\ Moved(k, to)

\* The statements of deliver, each with where it leaves the call.
LEMMA DeliverEdges ==
  ASSUME TypeOK, NEW k \in Key, Deliver(k)
  PROVE  \/ /\ CheckSuppression(k)
            /\ \/ Edge(k, "suppression", "return")
               \/ Edge(k, "suppression", "duplicate") /\ k[2] \notin suppressed
         \/ /\ CheckDuplicate(k)
            /\ \/ Edge(k, "duplicate", "return")
               \/ Edge(k, "duplicate", "count") /\ message[k[2]] = "none"
         \/ /\ CountWarmupDays(k)
            /\ call[k].pc = "count" /\ call'[k].pc = "row"
            /\ call'[k].day = day /\ call'[k].cap = CapAfter(Cardinality(DaysWithSends))
            /\ call'[k].barred = call[k].barred /\ call'[k].frozen = call[k].frozen
            /\ \A o \in Key \ {k} : call'[o] = call[o]
         \/ GetOrCreateRow(k) /\ (Edge(k, "row", "return") \/ Edge(k, "row", "bounces"))
         \/ CheckBounces(k) /\ (Edge(k, "bounces", "halt") \/ Edge(k, "bounces", "send"))
         \/ HaltDay(k) /\ Edge(k, "halt", "return")
         \/ SendAccepted(k) /\ Edge(k, "send", "insert")
         \/ SendRaises(k) /\ Edge(k, "send", "return")
         \/ InsertMessage(k) /\ Edge(k, "insert", "mark") /\ message[k[2]] = "none"
         \/ InsertMessage(k) /\ Edge(k, "insert", "raise") /\ message[k[2]] # "none"
         \/ MarkLeadSent(k) /\ Edge(k, "mark", "record")
         \/ RecordSent(k) /\ Edge(k, "record", "return")
<1> USE DEF At, Edge
<1>1. ASSUME NEW pc \in CallPc, Goto(k, pc)
      PROVE  Moved(k, pc)
  BY <1>1, Moving
<1>2. ASSUME NEW status \in DeliveryStatus, Answer(k, status)
      PROVE  Moved(k, "return")
  BY <1>2, Answering
<1> HIDE DEF Goto, Answer, Moved
<1>3. {"suppression", "duplicate", "count", "row", "bounces", "halt", "send", "insert", "mark", "record", "raise"}
        \subseteq CallPc
      /\ {"sent", "skipped_suppressed", "skipped_duplicate", "skipped_budget", "failed"} \subseteq DeliveryStatus
  BY DEF CallPc, DeliveryStatus
<1>4. CASE CheckSuppression(k)
  <2>1. CASE k[2] \in suppressed
    BY <1>2, <1>3, <1>4, <2>1 DEF CheckSuppression, IsSuppressed
  <2>2. CASE k[2] \notin suppressed
    BY <1>1, <1>3, <1>4, <2>2 DEF CheckSuppression, IsSuppressed
  <2> QED
    BY <2>1, <2>2
<1>5. CASE CheckDuplicate(k)
  <2>1. CASE message[k[2]] # "none"
    BY <1>2, <1>3, <1>5, <2>1 DEF CheckDuplicate, IsDuplicate
  <2>2. CASE message[k[2]] = "none"
    BY <1>1, <1>3, <1>5, <2>2 DEF CheckDuplicate, IsDuplicate
  <2> QED
    BY <2>1, <2>2
<1>6. CASE CountWarmupDays(k)
  <2>1. call[k] \in Call /\ call \in [Key -> Call]
    BY DEF TypeOK
  <2>2. call'[k] = [call[k] EXCEPT !.pc = "row", !.day = Today, !.cap = CapAfter(Cardinality(DaysWithSends))]
    BY <1>6, <2>1 DEF CountWarmupDays
  <2>3. \A o \in Key \ {k} : call'[o] = call[o]
    BY <1>6, <2>1 DEF CountWarmupDays
  <2>4. /\ call'[k].pc = "row" /\ call'[k].day = day /\ call'[k].cap = CapAfter(Cardinality(DaysWithSends))
        /\ call'[k].barred = call[k].barred /\ call'[k].frozen = call[k].frozen
    BY <2>1, <2>2 DEF Call, Today
  <2> QED
    BY <1>6, <2>3, <2>4 DEF CountWarmupDays
<1>7. CASE GetOrCreateRow(k)
  BY <1>1, <1>2, <1>3, <1>7 DEF GetOrCreateRow
<1>8. CASE CheckBounces(k)
  BY <1>1, <1>3, <1>8 DEF CheckBounces
<1>9. CASE HaltDay(k)
  BY <1>2, <1>3, <1>9 DEF HaltDay
<1>10. CASE SendAccepted(k)
  BY <1>1, <1>3, <1>10 DEF SendAccepted
<1>11. CASE SendRaises(k)
  BY <1>2, <1>3, <1>11 DEF SendRaises
<1>12. CASE InsertMessage(k)
  BY <1>1, <1>3, <1>12 DEF InsertMessage
<1>13. CASE MarkLeadSent(k)
  BY <1>1, <1>3, <1>13 DEF MarkLeadSent
<1>14. CASE RecordSent(k)
  BY <1>2, <1>3, <1>14 DEF RecordSent
<1> QED
  BY <1>4, <1>5, <1>6, <1>7, <1>8, <1>9, <1>10, <1>11, <1>12, <1>13, <1>14 DEF Deliver

\* A step leaves a call alone, ends it, begins it, or is a statement of it.
KeyStep(k) ==
  \/ call'[k] = call[k]
  \/ call'[k] = NoCall
  \/ call[k].pc = "none" /\ call'[k] = NewCall(k[2]) /\ UNCHANGED <<budget, day, suppressed>>
  \/ Deliver(k)

\* Every step does one of these four things to a call.
LEMMA EachKey ==
  ASSUME TypeOK, [Next]_vars, NEW k \in Key
  PROVE  KeyStep(k)
<1>0. call \in [Key -> Call] /\ k[1] \in Caller /\ k[2] \in Lead /\ k = <<k[1], k[2]>>
  BY DEF TypeOK, Key
<1>1. ASSUME NEW o \in Key, Deliver(o)
      PROVE  KeyStep(k)
  <2>1. o # k => call'[k] = call[k]
    BY <1>1, DeliverEdges DEF Edge, Moved
  <2> QED
    BY <1>1, <2>1 DEF KeyStep
<1>2. ASSUME NEW l \in Lead, Handle(l) \/ CliReturns(l)
      PROVE  KeyStep(k)
  BY <1>0, <1>2 DEF Handle, FinishTask, FailTask, CliReturns, KeyStep
<1>3. ASSUME NEW l \in Lead, StartCli(l)
      PROVE  KeyStep(k)
  BY <1>0, <1>3 DEF StartCli, Busy, At, KeyStep, tableVars, clockVars
<1>4. ASSUME NEW S \in SUBSET Lead, StartBatch(S)
      PROVE  KeyStep(k)
  BY <1>0, <1>4 DEF StartBatch, Busy, At, KeyStep, tableVars, clockVars
<1>5. CASE Crash
  BY <1>0, <1>5 DEF Crash, KeyStep
<1>6. ASSUME NEW l \in Lead, Approve(l) \/ Suppress(l) \/ Triage(l) \/ \E kind \in Kind : Reply(l, kind)
      PROVE  KeyStep(k)
  BY <1>6 DEF Approve, Suppress, Triage, TriageMessage, TriageSuppress, TriageStop, TriageLead, Reply, KeyStep
<1>7. CASE Reap \/ NextDay \/ BusinessHours \/ UNCHANGED vars
  BY <1>7 DEF Reap, NextDay, BusinessHours, vars, KeyStep
<1> QED
  BY <1>1, <1>2, <1>3, <1>4, <1>5, <1>6, <1>7 DEF Next, Worker

\* Suppressions, rows, halts and days only grow.
Grows ==
  /\ suppressed \subseteq suppressed'
  /\ day <= day'
  /\ \A d \in Day : (budget[d].made => budget'[d].made) /\ (budget[d].halted => budget'[d].halted)

\* No step takes back a suppression, a budget row, a halt or a day.
LEMMA TablesGrow ==
  ASSUME TypeOK, RowsTillToday, [Next]_vars
  PROVE  Grows
<1>1. day \in Nat /\ budget \in [Day -> [made : BOOLEAN, sent : Nat, cap : Nat, halted : BOOLEAN]]
  BY DaysAreFinite DEF TypeOK
<1>2. ASSUME NEW k \in Key, Deliver(k)
      PROVE  Grows
  <2>1. UNCHANGED <<suppressed, day>>
    BY <1>2 DEF Deliver, CheckSuppression, CheckDuplicate, CountWarmupDays, GetOrCreateRow, CheckBounces,
         HaltDay, SendAccepted, SendRaises, InsertMessage, MarkLeadSent, RecordSent, tableVars, clockVars
  <2>2. CASE GetOrCreateRow(k)
    <3> DEFINE c == call[k].day
               row == IF budget[c].made THEN budget[c] ELSE [NoRow EXCEPT !.made = TRUE, !.cap = call[k].cap]
    <3>1. budget' = [budget EXCEPT ![c] = row]
      BY <2>2 DEF GetOrCreateRow
    <3>2. row.made /\ (budget[c].made => row = budget[c])
      BY DEF NoRow
    <3>3. c \in Day /\ ~budget[c].made => ~budget[c].halted
      BY DEF RowsTillToday
    <3> HIDE DEF row
    <3> QED
      BY <1>1, <2>1, <3>1, <3>2, <3>3 DEF Grows
  <2>3. CASE HaltDay(k) \/ RecordSent(k)
    BY <1>1, <2>1, <2>3 DEF HaltDay, RecordSent, Grows
  <2>4. CASE ~GetOrCreateRow(k) /\ ~HaltDay(k) /\ ~RecordSent(k)
    <3>1. UNCHANGED budget
      BY <1>2, <2>4 DEF Deliver, CheckSuppression, CheckDuplicate, CountWarmupDays, CheckBounces,
           SendAccepted, SendRaises, InsertMessage, MarkLeadSent, tableVars
    <3> QED
      BY <1>1, <2>1, <3>1 DEF Grows
  <2> QED
    BY <2>2, <2>3, <2>4
<1>3. ASSUME NEW l \in Lead, \/ Approve(l) \/ Suppress(l) \/ Handle(l) \/ CliReturns(l) \/ StartCli(l)
                             \/ Triage(l) \/ \E kind \in Kind : Reply(l, kind)
      PROVE  Grows
  BY <1>1, <1>3 DEF Approve, Suppress, Handle, FinishTask, FailTask, CliReturns, StartCli, Triage, TriageMessage,
       TriageSuppress, TriageStop, TriageLead, Reply, Grows, tableVars, clockVars
<1>4. ASSUME \/ Worker \/ Crash \/ NextDay \/ BusinessHours \/ UNCHANGED vars
      PROVE  Grows
  BY <1>1, <1>4 DEF Worker, StartBatch, Reap, Crash, NextDay, BusinessHours, vars, Grows, tableVars, clockVars
<1> QED
  BY <1>2, <1>3, <1>4 DEF Next

-----------------------------------------------------------------------------
(* Suppression, halts, dates *)

\* What a statement of deliver does to send_budget and what it leaves alone.
LEMMA DeliverFrame ==
  ASSUME NEW k \in Key, Deliver(k)
  PROVE  /\ UNCHANGED <<suppressed, day, triage, taskVars, cliLeft, faults>>
         /\ GetOrCreateRow(k) \/ HaltDay(k) \/ RecordSent(k) \/ UNCHANGED budget
         /\ InsertMessage(k) \/ UNCHANGED <<message, sentOrder>>
         /\ SendAccepted(k) \/ SendRaises(k) \/ UNCHANGED mails
BY DEF Deliver, CheckSuppression, CheckDuplicate, CountWarmupDays, GetOrCreateRow, CheckBounces,
     HaltDay, SendAccepted, SendRaises, InsertMessage, MarkLeadSent, RecordSent, tableVars, clockVars

\* The three that write to send_budget, each with the row it leaves.
FreshRow(cap) == [NoRow EXCEPT !.made = TRUE, !.cap = cap]
RowAfter(d, row) == budget' = [budget EXCEPT ![d] = row]

\* The row the upsert inserts: nothing counted, not halted.
LEMMA FreshRows ==
  ASSUME NEW cap \in Nat
  PROVE  /\ FreshRow(cap) \in [made : BOOLEAN, sent : Nat, cap : Nat, halted : BOOLEAN]
         /\ FreshRow(cap).made = TRUE /\ FreshRow(cap).sent = 0
         /\ FreshRow(cap).cap = cap /\ FreshRow(cap).halted = FALSE
BY DEF FreshRow, NoRow

\* The upsert, the halt and the counter each write one row.
LEMMA RowWrites ==
  ASSUME TypeOK, DateIsKnown, RowsTillToday, NEW k \in Key, Deliver(k)
  PROVE  \/ UNCHANGED budget
         \/ /\ call[k].pc = "row" /\ call[k].day \in Day /\ call[k].day <= day
            /\ ~budget[call[k].day].made
            /\ RowAfter(call[k].day, FreshRow(call[k].cap))
         \/ /\ call[k].pc = "halt" /\ call[k].day \in Day /\ budget[call[k].day].made
            /\ RowAfter(call[k].day, [budget[call[k].day] EXCEPT !.halted = TRUE])
         \/ /\ call[k].pc = "record" /\ budget[day].made
            /\ RowAfter(day, [budget[day] EXCEPT !.sent = @ + 1])
<1>0. budget \in [Day -> [made : BOOLEAN, sent : Nat, cap : Nat, halted : BOOLEAN]] /\ day \in Day
      /\ day <= LastDay /\ LastDay \in Nat
  BY DeliveryAssumption DEF TypeOK, Day
<1>1. CASE GetOrCreateRow(k)
  <2> DEFINE d == call[k].day
  <2>1. d \in Day /\ d <= day
    BY <1>0, <1>1 DEF GetOrCreateRow, At, DateIsKnown, Day
  <2>2. budget[d].made => UNCHANGED budget
    BY <1>0, <1>1, <2>1 DEF GetOrCreateRow
  <2>3. ~budget[d].made => RowAfter(d, FreshRow(call[k].cap))
    BY <1>1 DEF GetOrCreateRow, RowAfter, FreshRow
  <2> QED
    BY <1>1, <2>1, <2>2, <2>3 DEF GetOrCreateRow, At
<1>2. CASE HaltDay(k)
  BY <1>0, <1>2 DEF HaltDay, At, DateIsKnown, PastRow, RowAfter, Day
<1>3. CASE RecordSent(k)
  BY <1>0, <1>3 DEF RecordSent, At, Today, RowAfter
<1> QED
  BY <1>1, <1>2, <1>3, DeliverFrame

Dates == DateIsKnown /\ RowsTillToday

\* The upsert writes to a day that has begun, and the calls past it have a row.
LEMMA DatesStep ==
  ASSUME TypeOK, Dates, [Next]_vars
  PROVE  Dates'
<1>0. /\ day \in Day /\ day' \in Day /\ Day \subseteq Nat /\ Grows
      /\ budget \in [Day -> [made : BOOLEAN, sent : Nat, cap : Nat, halted : BOOLEAN]]
  BY TypesStep, TablesGrow, DaysAreFinite DEF TypeOK, Dates
<1>9. \A d \in 1..day : d \in Day /\ d \in 1..day'
  BY <1>0, DeliveryAssumption DEF Day, Grows
<1>1. ASSUME NEW k \in Key
      PROVE  /\ call'[k].pc \in PastRow \cup {"row"} => call'[k].day \in 1..day'
             /\ call'[k].pc \in PastRow => budget'[call'[k].day].made
  <2> USE DEF PastRow, Ahead
  <2>1. CASE call'[k] = call[k]
    BY <1>0, <1>9, <2>1 DEF Dates, DateIsKnown, Grows
  <2>2. CASE call'[k] = NoCall \/ call'[k] = NewCall(k[2])
    <3>1. k[2] \in Lead
      BY DEF Key
    <3> QED
      BY <2>2, <3>1, Beginning
  <2>3. CASE Deliver(k)
    <3>1. day' = day
      BY <2>3, DeliverFrame
    <3>2. call'[k].pc = "row" => call'[k].day = day
      BY <2>3, DeliverEdges DEF Edge, Moved
    <3>3. call'[k].pc \in PastRow => call'[k].day = call[k].day /\ call[k].pc \in {"row", "bounces"}
      BY <2>3, DeliverEdges DEF Edge, Moved
    <3>4. CASE call[k].pc = "row" /\ call'[k].pc \in PastRow
      <4>1. GetOrCreateRow(k)
        BY <2>3, <3>4, DeliverEdges DEF Edge, Moved
      <4>2. call[k].day \in Day
        BY <1>9, <3>4 DEF Dates, DateIsKnown
      <4>3. budget'[call[k].day].made
        BY <1>0, <4>1, <4>2 DEF GetOrCreateRow, NoRow
      <4> QED
        BY <3>1, <3>3, <3>4, <4>3 DEF Dates, DateIsKnown
    <3>5. CASE call[k].pc = "bounces" /\ call'[k].pc \in PastRow
      BY <1>0, <1>9, <3>1, <3>3, <3>5 DEF Dates, DateIsKnown, Grows
    <3> QED
      BY <1>0, <3>1, <3>2, <3>3, <3>4, <3>5 DEF Day
  <2> QED
    BY <2>1, <2>2, <2>3, EachKey DEF KeyStep
<1>2. RowsTillToday'
  <2>1. CASE UNCHANGED budget
    BY <1>0, <2>1 DEF Dates, RowsTillToday, Grows
  <2>2. ASSUME NEW k \in Key, Deliver(k)
        PROVE  RowsTillToday'
    <3>1. day' = day
      BY <2>2, DeliverFrame
    <3> USE DEF Dates, RowsTillToday, RowAfter
    <3>2. ASSUME NEW d \in Day, NEW row, RowAfter(d, row), row.made = TRUE, d <= day
          PROVE  RowsTillToday'
      BY <1>0, <3>1, <3>2
    <3>3. budget[day].made => [budget[day] EXCEPT !.sent = @ + 1].made = TRUE
      BY <1>0
    <3>4. ASSUME NEW d \in Day, budget[d].made
          PROVE  [budget[d] EXCEPT !.halted = TRUE].made = TRUE /\ d <= day
      BY <1>0, <3>4
    <3> HIDE DEF RowAfter
    <3>5. call[k].cap \in Nat
      BY DEF TypeOK, Call
    <3>6. ASSUME NEW d \in Day, d <= day, RowAfter(d, FreshRow(call[k].cap))
          PROVE  RowsTillToday'
      BY <3>2, <3>5, <3>6, FreshRows
    <3>7. ASSUME NEW d \in Day, budget[d].made, RowAfter(d, [budget[d] EXCEPT !.halted = TRUE])
          PROVE  RowsTillToday'
      BY <3>2, <3>4, <3>7
    <3>8. ASSUME budget[day].made, RowAfter(day, [budget[day] EXCEPT !.sent = @ + 1])
          PROVE  RowsTillToday'
      BY <1>0, <3>2, <3>3, <3>8
    <3> QED
      BY <2>1, <2>2, <3>6, <3>7, <3>8, RowWrites
  <2>3. ASSUME ~UNCHANGED budget
        PROVE  \E k \in Key : Deliver(k)
    BY <2>3 DEF Next, Worker, StartBatch, Reap, Crash, NextDay, BusinessHours, vars, Approve, Suppress, Handle,
         FinishTask, FailTask, CliReturns, StartCli, Triage, TriageMessage, TriageSuppress, TriageStop, TriageLead,
         Reply, tableVars, clockVars
  <2> QED
    BY <2>1, <2>2, <2>3
<1> QED
  BY <1>1, <1>2 DEF Dates, DateIsKnown

\* A barred call stops at the first check, since no suppression is taken back.
LEMMA BarredStep ==
  ASSUME TypeOK, Dates, BarredStops, [Next]_vars
  PROVE  BarredStops'
<1> SUFFICES ASSUME NEW k \in Key, call'[k].barred
             PROVE  k[2] \in suppressed' /\ call'[k].pc \in {"suppression", "return"}
  BY DEF BarredStops
<1>0. suppressed \subseteq suppressed' /\ k[2] \in Lead
  BY TablesGrow DEF Dates, Grows, Key
<1>1. CASE call'[k] = call[k]
  BY <1>0, <1>1 DEF BarredStops
<1>2. CASE call'[k] = NoCall
  BY <1>0, <1>2, Beginning
<1>3. CASE call'[k] = NewCall(k[2])
  BY <1>0, <1>3, Beginning
<1>4. CASE Deliver(k)
  <2>1. call[k].barred
    BY <1>4, DeliverEdges DEF Edge, Moved
  <2>2. call[k].pc = "suppression" /\ k[2] \in suppressed
    BY <1>4, <2>1, DeliverEdges DEF BarredStops, Edge
  <2> QED
    BY <1>0, <1>4, <2>2, DeliverEdges DEF Edge, Moved
<1> QED
  BY <1>1, <1>2, <1>3, <1>4, EachKey DEF KeyStep

\* A frozen call is refused the halted row, since no halt is taken back.
LEMMA FrozenStep ==
  ASSUME TypeOK, Dates, FrozenStops, [Next]_vars
  PROVE  FrozenStops'
<1> SUFFICES ASSUME NEW k \in Key, call'[k].frozen # 0
             PROVE  /\ budget'[call'[k].frozen].halted
                    /\ call'[k].pc \in PastRow => call'[k].day # call'[k].frozen
  BY DEF FrozenStops
<1> USE DEF PastRow
<1>0. /\ Grows /\ k[2] \in Lead /\ call[k] \in Call /\ day \in Day
      /\ \A d \in 0..LastDay : d # 0 => d \in Day
  <2>1. Grows
    BY TablesGrow DEF Dates
  <2>2. k[2] \in Lead /\ call[k] \in Call /\ day \in Day
    BY DEF TypeOK, Key
  <2>3. LastDay \in Nat
    BY DeliveryAssumption
  <2>4. \A d \in 0..LastDay : d # 0 => d \in Day
    BY <2>3 DEF Day
  <2> QED
    BY <2>1, <2>2, <2>4
<1>1. CASE call'[k] = call[k]
  BY <1>0, <1>1 DEF FrozenStops, Grows, Call
<1>2. CASE call'[k] = NoCall
  BY <1>0, <1>2, Beginning
<1>3. CASE call'[k] = NewCall(k[2]) /\ UNCHANGED budget
  BY <1>0, <1>3, Beginning
<1>4. CASE Deliver(k)
  <2>1. call'[k].frozen = call[k].frozen
    BY <1>4, DeliverEdges DEF Edge, Moved
  <2>2. budget[call[k].frozen].halted /\ call[k].frozen \in Day
    BY <1>0, <2>1 DEF FrozenStops, Call
  <2>3. budget'[call'[k].frozen].halted
    BY <1>0, <2>1, <2>2 DEF Grows
  <2>4. CASE call'[k].pc \in PastRow
    <3>1. call'[k].day = call[k].day /\ call[k].pc \in {"row", "bounces"}
      BY <1>4, <2>4, DeliverEdges DEF Edge, Moved
    <3>2. CASE call[k].pc = "row"
      <4>1. GetOrCreateRow(k) /\ call'[k].pc = "bounces"
        BY <1>4, <2>4, <3>2, DeliverEdges DEF Edge, Moved
      <4>2. ASSUME budget[call[k].day].made, budget[call[k].day].halted
            PROVE  FALSE
        <5>0. Refused(budget[call[k].day])
          BY <4>2 DEF Refused
        <5>1. Answer(k, "skipped_budget")
          BY <4>1, <4>2, <5>0 DEF GetOrCreateRow
        <5>2. call'[k].pc = "return"
          BY <5>1, Answering DEF Moved, DeliveryStatus
        <5> QED
          BY <4>1, <5>2
      <4>3. call[k].day = call[k].frozen => budget[call[k].day].made /\ budget[call[k].day].halted
        BY <2>2 DEF Dates, RowsTillToday
      <4> QED
        BY <2>1, <2>3, <3>1, <4>2, <4>3
    <3>3. CASE call[k].pc = "bounces"
      BY <2>1, <2>3, <3>1, <3>3 DEF FrozenStops
    <3> QED
      BY <3>1, <3>2, <3>3, <2>3
  <2> QED
    BY <2>3, <2>4
<1> QED
  BY <1>1, <1>2, <1>3, <1>4, EachKey DEF KeyStep

\* Each statement of triage_message leaves its part of the verdict; a crash
\* starts it over.
LEMMA TriageStep ==
  ASSUME TypeOK, Dates, TriageLeaves, [Next]_vars
  PROVE  TriageLeaves'
<1> SUFFICES ASSUME NEW l \in Lead
             PROVE  Leaves(l)'
  BY DEF TriageLeaves, Leaves
<1>0. /\ Leaves(l) /\ suppressed \subseteq suppressed'
      /\ triage \in [Lead -> [pc : TriagePc, kind : ReplyKind]] /\ message \in [Lead -> {"none", "sent", "bounced", "replied"}]
  BY TablesGrow DEF TriageLeaves, Leaves, Dates, Grows, TypeOK
<1>1. ASSUME triage'[l] = triage[l], message'[l] = message[l]
      PROVE  Leaves(l)'
  BY <1>0, <1>1 DEF Leaves
<1>2. ASSUME triage'[l].pc = "none"
      PROVE  Leaves(l)'
  BY <1>2 DEF Leaves
<1>3. ASSUME NEW k \in Key, Deliver(k)
      PROVE  Leaves(l)'
  <2>1. UNCHANGED triage
    BY <1>3, DeliverFrame
  <2>2. CASE InsertMessage(k)
    <3>1. CASE k[2] = l /\ message[l] = "none"
      BY <1>0, <1>2, <2>1, <3>1 DEF Leaves
    <3>2. CASE ~(k[2] = l /\ message[l] = "none")
      BY <1>0, <1>1, <2>1, <2>2, <3>2 DEF InsertMessage
    <3> QED
      BY <3>1, <3>2
  <2>3. CASE UNCHANGED message
    BY <1>1, <2>1, <2>3
  <2> QED
    BY <1>3, <2>2, <2>3, DeliverFrame
<1>4. ASSUME NEW m \in Lead, Triage(m)
      PROVE  Leaves(l)'
  <2> USE DEF TriageAt, TriageGoto
  <2>1. CASE m # l
    BY <1>0, <1>1, <1>4, <2>1 DEF Triage, TriageMessage, TriageSuppress, TriageStop, TriageLead, tableVars
  <2>2. CASE TriageMessage(l)
    BY <1>0, <2>2 DEF TriageMessage, Leaves, Bounce
  <2>3. CASE TriageSuppress(l)
    BY <1>0, <2>3 DEF TriageSuppress, Leaves, Bounce, ShouldSuppress, ShouldStop
  <2>4. CASE TriageStop(l)
    BY <1>0, <2>4 DEF TriageStop, Leaves, tableVars
  <2>5. CASE TriageLead(l)
    BY <1>0, <2>5 DEF TriageLead, Leaves
  <2> QED
    BY <1>4, <2>1, <2>2, <2>3, <2>4, <2>5 DEF Triage
<1>5. ASSUME NEW m \in Lead, NEW kind \in Kind, Reply(m, kind)
      PROVE  Leaves(l)'
  BY <1>0, <1>1, <1>5 DEF Reply, Leaves, tableVars, TriageAt
<1>6. CASE Crash
  BY <1>0, <1>1, <1>2, <1>6 DEF Crash, tableVars
<1>7. ASSUME NEW m \in Lead, Approve(m) \/ Suppress(m) \/ Handle(m) \/ CliReturns(m) \/ StartCli(m)
      PROVE  Leaves(l)'
  BY <1>1, <1>7 DEF Approve, Suppress, Handle, FinishTask, FailTask, CliReturns, StartCli, tableVars
<1>8. CASE Worker \/ NextDay \/ BusinessHours \/ UNCHANGED vars
  BY <1>1, <1>8 DEF Worker, Reap, StartBatch, NextDay, BusinessHours, vars, tableVars
<1> QED
  BY <1>3, <1>4, <1>5, <1>6, <1>7, <1>8 DEF Next

-----------------------------------------------------------------------------
(* The ramp *)

EarlierIn(table, d) == {e \in Day : table[e].sent > 0 /\ e < d}

\* A step writes to send_budget in one row: the present count of another day
\* does not change, nor the cap of a row that is there.
RowKept(d) == budget'[d].made = budget[d].made /\ budget'[d].sent = budget[d].sent /\ budget'[d].cap = budget[d].cap

\* A step keeps every row, makes one, or counts one send on the row of today.
LEMMA BudgetSteps ==
  ASSUME TypeOK, Dates, [Next]_vars
  PROVE  \/ \A d \in Day : RowKept(d)
         \/ \E k \in Key : /\ call[k].pc = "row" /\ call[k].day \in Day /\ call[k].day <= day
                           /\ ~budget[call[k].day].made
                           /\ RowAfter(call[k].day, FreshRow(call[k].cap))
         \/ budget[day].made /\ RowAfter(day, [budget[day] EXCEPT !.sent = @ + 1])
<1>0. budget \in [Day -> [made : BOOLEAN, sent : Nat, cap : Nat, halted : BOOLEAN]] /\ day \in Day
  BY DEF TypeOK
<1>1. CASE UNCHANGED budget
  BY <1>1 DEF RowKept
<1>2. ASSUME NEW k \in Key, call[k].day \in Day, RowAfter(call[k].day, [budget[call[k].day] EXCEPT !.halted = TRUE])
      PROVE  \A d \in Day : RowKept(d)
  BY <1>0, <1>2 DEF RowAfter, RowKept
<1>3. ASSUME ~UNCHANGED budget
      PROVE  \E k \in Key : Deliver(k)
  BY <1>3 DEF Next, Worker, StartBatch, Reap, Crash, NextDay, BusinessHours, vars, Approve, Suppress, Handle,
       FinishTask, FailTask, CliReturns, StartCli, Triage, TriageMessage, TriageSuppress, TriageStop, TriageLead,
       Reply, tableVars, clockVars
<1>4. ASSUME NEW k \in Key, Deliver(k), ~UNCHANGED budget
      PROVE  \/ \A d \in Day : RowKept(d)
             \/ /\ call[k].pc = "row" /\ call[k].day \in Day /\ call[k].day <= day
                /\ ~budget[call[k].day].made
                /\ RowAfter(call[k].day, FreshRow(call[k].cap))
             \/ budget[day].made /\ RowAfter(day, [budget[day] EXCEPT !.sent = @ + 1])
  BY <1>2, <1>4, RowWrites DEF Dates
<1> QED
  BY <1>1, <1>3, <1>4

\* The days before d with sends are settled once d has begun: only today's count
\* grows.
LEMMA EarlierStays ==
  ASSUME TypeOK, Dates, [Next]_vars, NEW d \in Day, d <= day
  PROVE  EarlierIn(budget', d) = EarlierIn(budget, d)
<1>0. /\ budget \in [Day -> [made : BOOLEAN, sent : Nat, cap : Nat, halted : BOOLEAN]]
      /\ day \in Day /\ Day \subseteq Nat
  BY DaysAreFinite DEF TypeOK
<1> SUFFICES \A e \in Day : e < d => budget'[e].sent = budget[e].sent
  BY <1>0 DEF EarlierIn
<1>1. CASE \A e \in Day : RowKept(e)
  BY <1>1 DEF RowKept
<1>2. ASSUME NEW k \in Key, call[k].day \in Day, ~budget[call[k].day].made,
             RowAfter(call[k].day, FreshRow(call[k].cap))
      PROVE  \A e \in Day : e < d => budget'[e].sent = budget[e].sent
  <2>1. call[k].cap \in Nat
    BY DEF TypeOK, Call
  <2>2. FreshRow(call[k].cap).sent = 0
    BY <2>1, FreshRows
  <2>3. budget[call[k].day].sent = 0
    <3>1. ~(budget[call[k].day].sent > 0)
      BY <1>2 DEF Dates, RowsTillToday
    <3>2. budget[call[k].day].sent \in Nat
      BY <1>0, <1>2
    <3> QED
      BY <3>1, <3>2
  <2> QED
    BY <1>0, <1>2, <2>2, <2>3 DEF RowAfter
<1>3. ASSUME RowAfter(day, [budget[day] EXCEPT !.sent = @ + 1])
      PROVE  \A e \in Day : e < d => budget'[e].sent = budget[e].sent
  BY <1>0, <1>3 DEF RowAfter
<1> QED
  BY <1>1, <1>2, <1>3, BudgetSteps

\* So the cap a call computes is still right when its upsert makes the row.
LEMMA RampStep ==
  ASSUME TypeOK, Dates, RampInv, [Next]_vars
  PROVE  RampInv'
<1>0. /\ budget \in [Day -> [made : BOOLEAN, sent : Nat, cap : Nat, halted : BOOLEAN]]
      /\ day \in Day /\ Day \subseteq Nat /\ Grows
      /\ \A d \in 1..day : d \in Day /\ d <= day
  <2>1. /\ budget \in [Day -> [made : BOOLEAN, sent : Nat, cap : Nat, halted : BOOLEAN]]
        /\ day \in Day /\ Day \subseteq Nat
    BY DaysAreFinite DEF TypeOK
  <2>2. Grows
    BY TablesGrow DEF Dates
  <2>3. LastDay \in Nat /\ day \in Nat /\ day <= LastDay
    BY DeliveryAssumption, <2>1 DEF Day
  <2>4. \A d \in 1..day : d \in Day /\ d <= day
    BY <2>3 DEF Day
  <2> QED
    BY <2>1, <2>2, <2>4
<1>1. RampCountsSendingDays'
  <2> SUFFICES ASSUME NEW d \in Day, budget'[d].made
               PROVE  budget'[d].cap = CapAfter(Cardinality(EarlierIn(budget', d)))
    BY DEF RampCountsSendingDays, DaysWithSends, EarlierIn
  <2>1. ASSUME budget[d].made, budget'[d].cap = budget[d].cap
        PROVE  budget'[d].cap = CapAfter(Cardinality(EarlierIn(budget', d)))
    <3>1. d <= day
      BY <2>1 DEF Dates, RowsTillToday
    <3>2. budget[d].cap = CapAfter(Cardinality(EarlierIn(budget, d)))
      BY <2>1 DEF RampInv, RampCountsSendingDays, DaysWithSends, EarlierIn
    <3> QED
      BY <2>1, <3>1, <3>2, EarlierStays
  <2>2. CASE \A e \in Day : RowKept(e)
    BY <2>1, <2>2 DEF RowKept
  <2>3. ASSUME NEW k \in Key, call[k].pc = "row", call[k].day \in Day, call[k].day <= day,
               ~budget[call[k].day].made, RowAfter(call[k].day, FreshRow(call[k].cap))
        PROVE  budget'[d].cap = CapAfter(Cardinality(EarlierIn(budget', d)))
    <3>1. CASE call[k].day # d
      BY <1>0, <2>1, <2>3, <3>1 DEF RowAfter
    <3>2. CASE call[k].day = d
      <4>1. call[k].cap \in Nat
        BY DEF TypeOK, Call
      <4>2. budget'[d].cap = call[k].cap
        BY <1>0, <2>3, <3>2, <4>1, FreshRows DEF RowAfter
      <4>3. call[k].cap = CapAfter(Cardinality(EarlierIn(budget, d)))
        BY <2>3, <3>2 DEF RampInv, CapIsCurrent, DaysWithSends, EarlierIn
      <4> QED
        BY <2>3, <3>2, <4>2, <4>3, EarlierStays
    <3> QED
      BY <3>1, <3>2
  <2>4. ASSUME budget[day].made, RowAfter(day, [budget[day] EXCEPT !.sent = @ + 1])
        PROVE  budget'[d].cap = CapAfter(Cardinality(EarlierIn(budget', d)))
    BY <1>0, <2>1, <2>4 DEF RowAfter
  <2> QED
    BY <2>2, <2>3, <2>4, BudgetSteps
<1>2. CapIsCurrent'
  <2> SUFFICES ASSUME NEW k \in Key, call'[k].pc = "row", ~budget'[call'[k].day].made
               PROVE  call'[k].cap = CapAfter(Cardinality(EarlierIn(budget', call'[k].day)))
    BY DEF CapIsCurrent, DaysWithSends, EarlierIn
  <2>1. CASE call'[k] = call[k]
    <3>1. call[k].day \in Day /\ call[k].day <= day
      BY <1>0, <2>1 DEF Dates, DateIsKnown
    <3>2. ~budget[call[k].day].made
      BY <1>0, <2>1, <3>1 DEF Grows
    <3>3. call[k].cap = CapAfter(Cardinality(EarlierIn(budget, call[k].day)))
      BY <2>1, <3>2 DEF RampInv, CapIsCurrent, DaysWithSends, EarlierIn
    <3>4. EarlierIn(budget', call[k].day) = EarlierIn(budget, call[k].day)
      BY <3>1, EarlierStays
    <3> QED
      BY <2>1, <3>3, <3>4
  <2>2. CASE call'[k] = NoCall \/ call'[k] = NewCall(k[2])
    <3>1. k[2] \in Lead
      BY DEF Key
    <3> QED
      BY <2>2, <3>1, Beginning
  <2>3. CASE Deliver(k)
    <3>1. /\ CountWarmupDays(k)
          /\ call'[k].day = day /\ call'[k].cap = CapAfter(Cardinality(DaysWithSends))
      BY <2>3, DeliverEdges DEF Edge, Moved
    <3>2. UNCHANGED budget
      BY <3>1 DEF CountWarmupDays, tableVars
    <3>3. budget[day].sent = 0
      BY <1>0, <3>1, <3>2 DEF Dates, RowsTillToday
    <3>4. EarlierIn(budget, day) = DaysWithSends
      <4>1. ASSUME NEW e \in Day, budget[e].sent > 0
            PROVE  e < day
        <5>1. e <= day
          BY <4>1 DEF Dates, RowsTillToday
        <5>2. e # day
          BY <3>3, <4>1
        <5> QED
          BY <1>0, <5>1, <5>2
      <4> QED
        BY <4>1 DEF EarlierIn, DaysWithSends
    <3> QED
      BY <1>0, <3>1, <3>4, EarlierStays
  <2> QED
    BY <2>1, <2>2, <2>3, EachKey DEF KeyStep
<1> QED
  BY <1>1, <1>2 DEF RampInv

-----------------------------------------------------------------------------
(* Mails *)

\* With one caller, the lead of a call past the duplicate check has no row yet.
LEMMA RowAheadStep ==
  ASSUME TypeOK, TriageLeaves, NoRowAhead, [Next]_vars
  PROVE  NoRowAhead'
<1> SUFFICES ASSUME \A c, d \in Caller : c = d, NEW k \in Key, call'[k].pc \in Ahead \cup {"insert"}
             PROVE  message'[k[2]] = "none"
  BY DEF NoRowAhead
<1> USE DEF Ahead
<1>9. \A o \in Key : o[1] \in Caller /\ o[2] \in Lead /\ o = <<o[1], o[2]>>
  BY DEF Key
<1>0. /\ k[1] \in Caller /\ k[2] \in Lead /\ k = <<k[1], k[2]>>
      /\ \A o \in Key : o[2] = k[2] => o = k
      /\ message \in [Lead -> {"none", "sent", "bounced", "replied"}]
  BY <1>9 DEF TypeOK
<1>1. message[k[2]] = "none"
  <2>1. CASE call'[k] = call[k]
    BY <2>1 DEF NoRowAhead
  <2>2. CASE call'[k] = NoCall \/ call'[k] = NewCall(k[2])
    BY <1>0, <2>2, Beginning
  <2>3. CASE Deliver(k)
    BY <2>3, DeliverEdges DEF Edge, Moved, NoRowAhead
  <2> QED
    BY <2>1, <2>2, <2>3, EachKey DEF KeyStep
<1>2. ASSUME NEW o \in Key, Deliver(o)
      PROVE  message'[k[2]] = message[k[2]]
  <2>1. CASE InsertMessage(o)
    <3>1. o # k
      <4>1. o = k => call'[k].pc \in {"mark", "raise"}
        BY <2>1, Moving DEF InsertMessage, Moved, CallPc
      <4> QED
        BY <4>1
    <3> QED
      BY <1>0, <2>1, <3>1 DEF InsertMessage
  <2> QED
    BY <1>2, <2>1, DeliverFrame
<1>3. ASSUME NEW l \in Lead, TriageMessage(l)
      PROVE  message'[k[2]] = message[k[2]]
  <2>1. message[l] # "none"
    BY <1>3 DEF TriageMessage, TriageAt, TriageLeaves, Leaves
  <2> QED
    BY <1>0, <1>1, <1>3, <2>1 DEF TriageMessage
<1>4. ASSUME message' # message
      PROVE  (\E o \in Key : Deliver(o)) \/ (\E l \in Lead : TriageMessage(l))
  BY <1>4 DEF Next, Worker, StartBatch, Reap, Crash, NextDay, BusinessHours, vars, Approve, Suppress, Handle,
       FinishTask, FailTask, CliReturns, StartCli, Triage, TriageSuppress, TriageStop, TriageLead,
       Reply, tableVars
<1> QED
  BY <1>1, <1>2, <1>3, <1>4

\* A step mails only by a statement of deliver that sends.
LEMMA MailSteps ==
  ASSUME TypeOK, [Next]_vars
  PROVE  \/ UNCHANGED mails
         \/ \E k \in Key : (SendAccepted(k) \/ SendRaises(k)) /\ call[k].pc = "send" /\ Deliver(k)
<1>1. ASSUME NEW k \in Key, Deliver(k), ~UNCHANGED mails
      PROVE  (SendAccepted(k) \/ SendRaises(k)) /\ call[k].pc = "send"
  BY <1>1, DeliverFrame DEF SendAccepted, SendRaises, At
<1>2. ASSUME ~UNCHANGED mails
      PROVE  \E k \in Key : Deliver(k)
  BY <1>2 DEF Next, Worker, StartBatch, Reap, Crash, NextDay, BusinessHours, vars, Approve, Suppress, Handle,
       FinishTask, FailTask, CliReturns, StartCli, Triage, TriageMessage, TriageSuppress, TriageStop, TriageLead,
       Reply
<1> QED
  BY <1>1, <1>2

\* What a statement of deliver leads to, where a call comes from and how the
\* task under it moves.
LEMMA TasksStep ==
  ASSUME TypeOK, CallsAreHeld, [Next]_vars
  PROVE  /\ CallsAreHeld'
         /\ \A l \in Lead : job[l] = "over" => job'[l] = "over"
<1>0. /\ job \in [Lead -> Queue!JobState] /\ call \in [Key -> Call]
      /\ \A k \in Key : k[1] \in Caller /\ k[2] \in Lead /\ k = <<k[1], k[2]>>
  BY DEF TypeOK, Queue!QueueTypeOK, Key
<1>1. ASSUME UNCHANGED job,
             \A k \in Key : k[1] = "worker" /\ call[k].pc = "none" => call'[k].pc = "none"
      PROVE  CallsAreHeld' /\ \A l \in Lead : job[l] = "over" => job'[l] = "over"
  BY <1>1 DEF CallsAreHeld, At
<1>2. ASSUME UNCHANGED call,
             \A l \in Lead : job'[l] = job[l] \/ (job[l] \notin {"held", "over"})
      PROVE  CallsAreHeld' /\ \A l \in Lead : job[l] = "over" => job'[l] = "over"
  BY <1>2 DEF CallsAreHeld, At
<1> USE DEF Queue!Move, Queue!In
<1>3. ASSUME NEW k \in Key, Deliver(k)
      PROVE  CallsAreHeld' /\ \A l \in Lead : job[l] = "over" => job'[l] = "over"
  <2>1. call[k].pc # "none" /\ \A o \in Key \ {k} : call'[o] = call[o]
    BY <1>3, DeliverEdges DEF Edge, Moved
  <2> QED
    BY <1>1, <1>3, <2>1, DeliverFrame DEF taskVars
<1>4. ASSUME NEW l \in Lead, StartCli(l) \/ CliReturns(l)
      PROVE  CallsAreHeld' /\ \A m \in Lead : job[m] = "over" => job'[m] = "over"
  <2>1. UNCHANGED job
    BY <1>4 DEF StartCli, CliReturns, taskVars
  <2>2. \A k \in Key : k[1] = "worker" => call'[k] = call[k]
    BY <1>0, <1>4 DEF StartCli, CliReturns
  <2> QED
    BY <1>1, <2>1, <2>2
<1>5. ASSUME NEW l \in Lead, Handle(l)
      PROVE  CallsAreHeld' /\ \A m \in Lead : job[m] = "over" => job'[m] = "over"
  <2>1. <<"worker", l>> \in Key /\ call' = [call EXCEPT ![<<"worker", l>>] = NoCall]
    BY <1>5 DEF Handle, FinishTask, FailTask
  <2>2. job[l] = "held" /\ \A m \in Lead : m # l => job'[m] = job[m]
    BY <1>5 DEF Handle, FinishTask, FailTask, Queue!Finish, Queue!Retry, Queue!GiveUp
  <2>3. call'[<<"worker", l>>].pc = "none"
    BY <1>0, <2>1 DEF NoCall
  <2>4. \A m \in Lead : m # l => call'[<<"worker", m>>] = call[<<"worker", m>>]
    BY <1>0, <2>1 DEF Key
  <2> QED
    BY <2>2, <2>3, <2>4 DEF CallsAreHeld, At
<1>6. ASSUME NEW S \in SUBSET Lead, StartBatch(S)
      PROVE  CallsAreHeld' /\ \A m \in Lead : job[m] = "over" => job'[m] = "over"
  <2>1. \A m \in Lead : (m \in S => job'[m] = "held" /\ job[m] = "queued") /\ (m \notin S => job'[m] = job[m])
    BY <1>6 DEF StartBatch, Queue!Take
  <2>2. \A m \in Lead : <<"worker", m>> \in Key /\ m \notin S => call'[<<"worker", m>>] = call[<<"worker", m>>]
    BY <1>6 DEF StartBatch
  <2> QED
    BY <2>1, <2>2 DEF CallsAreHeld, At
<1>7. CASE Crash
  <2>1. \A k \in Key : k[1] = "worker" => call'[k] = NoCall
    BY <1>7 DEF Crash
  <2>2. \A l \in Lead : job[l] = "over" => job'[l] = "over"
    BY <1>7 DEF Crash, Queue!Lose
  <2> QED
    BY <2>1, <2>2 DEF CallsAreHeld, At, NoCall
<1>8. ASSUME NEW l \in Lead, Approve(l) \/ TriageStop(l)
      PROVE  CallsAreHeld' /\ \A m \in Lead : job[m] = "over" => job'[m] = "over"
  BY <1>0, <1>2, <1>8 DEF Approve, Queue!Submit, TriageStop, Queue!Withdraw
<1>9. CASE Reap
  BY <1>0, <1>2, <1>9 DEF Reap, Queue!Recover
<1>10. ASSUME NEW l \in Lead, Suppress(l) \/ TriageMessage(l) \/ TriageSuppress(l) \/ TriageLead(l)
                                \/ \E kind \in Kind : Reply(l, kind)
       PROVE  UNCHANGED <<job, call>>
  BY <1>10 DEF Suppress, TriageMessage, TriageSuppress, TriageLead, Reply, taskVars
<1>11. CASE NextDay \/ BusinessHours \/ UNCHANGED vars
  BY <1>2, <1>11 DEF NextDay, BusinessHours, vars, taskVars
<1> QED
  BY <1>2, <1>3, <1>4, <1>5, <1>6, <1>7, <1>8, <1>9, <1>10, <1>11 DEF Next, Worker, Triage

\* A messages row is never taken away.
LEMMA RowsStay ==
  ASSUME TypeOK, [Next]_vars, NEW l \in Lead, message[l] # "none"
  PROVE  message'[l] # "none"
<1>0. message \in [Lead -> {"none", "sent", "bounced", "replied"}]
  BY DEF TypeOK
<1>1. ASSUME NEW k \in Key, Deliver(k)
      PROVE  message'[l] # "none"
  BY <1>0, <1>1, DeliverFrame DEF InsertMessage
<1>2. ASSUME NEW m \in Lead, TriageMessage(m)
      PROVE  message'[l] # "none"
  BY <1>0, <1>2 DEF TriageMessage
<1>3. ASSUME message' # message
      PROVE  (\E o \in Key : Deliver(o)) \/ (\E m \in Lead : TriageMessage(m))
  BY <1>3 DEF Next, Worker, StartBatch, Reap, Crash, NextDay, BusinessHours, vars, Approve, Suppress, Handle,
       FinishTask, FailTask, CliReturns, StartCli, Triage, TriageSuppress, TriageStop, TriageLead,
       Reply, tableVars
<1> QED
  BY <1>1, <1>2, <1>3

\* InsertMessage raises only on a row that is there, and rows stay.
LEMMA RaisesStep ==
  ASSUME TypeOK, RaisesBesideRow, [Next]_vars
  PROVE  RaisesBesideRow'
<1> SUFFICES ASSUME NEW k \in Key, call'[k].pc = "raise"
             PROVE  message'[k[2]] # "none"
  BY DEF RaisesBesideRow, At
<1>0. k[2] \in Lead
  BY DEF Key
<1>1. message[k[2]] # "none"
  <2>1. CASE call'[k] = call[k]
    BY <2>1 DEF RaisesBesideRow, At
  <2>2. CASE call'[k] = NoCall \/ call'[k] = NewCall(k[2])
    BY <1>0, <2>2, Beginning
  <2>3. CASE Deliver(k)
    BY <2>3, DeliverEdges DEF Edge, Moved
  <2> QED
    BY <2>1, <2>2, <2>3, EachKey DEF KeyStep
<1> QED
  BY <1>0, <1>1, RowsStay

\* cold-mailer run takes a lead off its list when it calls deliver for it.
LEMMA CliStep ==
  ASSUME TypeOK, CliCallsLeft, [Next]_vars
  PROVE  CliCallsLeft' /\ cliLeft' \subseteq cliLeft
<1>0. call \in [Key -> Call] /\ \A k \in Key : k[1] \in Caller /\ k[2] \in Lead /\ k = <<k[1], k[2]>>
  BY DEF TypeOK, Key
<1>1. ASSUME cliLeft' \subseteq cliLeft,
             \A l \in Lead : <<"cli", l>> \in Key /\ call[<<"cli", l>>].pc = "none" => call'[<<"cli", l>>].pc = "none"
      PROVE  CliCallsLeft' /\ cliLeft' \subseteq cliLeft
  BY <1>1 DEF CliCallsLeft, At
<1>2. ASSUME UNCHANGED <<call, cliLeft>>
      PROVE  CliCallsLeft' /\ cliLeft' \subseteq cliLeft
  BY <1>2 DEF CliCallsLeft, At
<1>3. ASSUME NEW k \in Key, Deliver(k)
      PROVE  CliCallsLeft' /\ cliLeft' \subseteq cliLeft
  <2>1. call[k].pc # "none" /\ \A o \in Key \ {k} : call'[o] = call[o]
    BY <1>3, DeliverEdges DEF Edge, Moved
  <2> QED
    BY <1>1, <1>3, <2>1, DeliverFrame
<1>4. ASSUME NEW l \in Lead, StartCli(l)
      PROVE  CliCallsLeft' /\ cliLeft' \subseteq cliLeft
  <2>1. \A m \in Lead : m # l /\ <<"cli", m>> \in Key => call'[<<"cli", m>>] = call[<<"cli", m>>]
    BY <1>0, <1>4 DEF StartCli
  <2> QED
    BY <1>4, <2>1 DEF StartCli, CliCallsLeft, At
<1>5. ASSUME NEW l \in Lead, CliReturns(l) \/ Handle(l)
      PROVE  CliCallsLeft' /\ cliLeft' \subseteq cliLeft
  <2>1. \A k \in Key : call'[k] = call[k] \/ call'[k] = NoCall
    BY <1>0, <1>5 DEF CliReturns, Handle, FinishTask, FailTask
  <2>2. cliLeft' \subseteq cliLeft
    BY <1>5 DEF CliReturns, Handle, FinishTask, FailTask
  <2> QED
    BY <1>1, <2>1, <2>2 DEF NoCall
<1>6. ASSUME (\E S \in SUBSET Lead : StartBatch(S)) \/ Crash
      PROVE  CliCallsLeft' /\ cliLeft' \subseteq cliLeft
  <2>1. \A k \in Key : k[1] = "cli" => call'[k] = call[k]
    BY <1>6 DEF StartBatch, Crash
  <2> QED
    BY <1>1, <1>6, <2>1 DEF StartBatch, Crash
<1>7. ASSUME NEW l \in Lead, Approve(l) \/ Suppress(l) \/ Triage(l) \/ \E kind \in Kind : Reply(l, kind)
      PROVE  UNCHANGED <<call, cliLeft>>
  BY <1>7 DEF Approve, Suppress, Triage, TriageMessage, TriageSuppress, TriageStop, TriageLead, Reply
<1>8. CASE Reap \/ NextDay \/ BusinessHours \/ UNCHANGED vars
  BY <1>2, <1>8 DEF Reap, NextDay, BusinessHours, vars
<1> QED
  BY <1>2, <1>3, <1>4, <1>5, <1>6, <1>7, <1>8 DEF Next, Worker

\* Only a crash gives the worker a send back.
LEMMA WorkerMaysStep ==
  ASSUME TypeOK, MailInv, [Next]_vars, ~Crash, NEW l \in Lead, WorkerMayMail(l)'
  PROVE  WorkerMayMail(l)
<1> DEFINE k == <<"worker", l>>
<1> USE DEF Ahead
<1>0. /\ "worker" \in Caller /\ k \in Key /\ k[2] = l /\ call \in [Key -> Call]
      /\ job'[l] # "over" /\ job[l] # "over"
  BY TasksStep DEF WorkerMayMail, Key, MailInv, TypeOK
<1>1. message'[l] = "none" => message[l] = "none"
  BY RowsStay
<1>2. CASE call'[k] = call[k]
  BY <1>0, <1>1, <1>2 DEF WorkerMayMail
<1>3. CASE Deliver(k)
  BY <1>0, <1>1, <1>3, DeliverEdges DEF WorkerMayMail, Edge, Moved
<1>4. CASE call[k].pc = "none" /\ call'[k] = NewCall(k[2])
  BY <1>0, <1>1, <1>4, Beginning DEF WorkerMayMail
<1>5. CASE call'[k] = NoCall /\ call[k] # NoCall
  <2>1. FinishTask(l) \/ FailTask(l)
    <3>1. ASSUME NEW m \in Lead, m # l \/ CliReturns(m), Handle(m) \/ CliReturns(m) \/ StartCli(m)
          PROVE  call'[k] = call[k]
      BY <1>0, <3>1 DEF Handle, FinishTask, FailTask, CliReturns, StartCli, Key
    <3>2. ASSUME NEW m \in Lead, StartCli(m)
          PROVE  call'[k] = call[k]
      BY <1>0, <3>2 DEF StartCli, Key
    <3>3. ASSUME NEW o \in Key, Deliver(o)
          PROVE  call'[k] # NoCall \/ call'[k] = call[k]
      <4>1. call'[o].pc # "none" /\ \A q \in Key \ {o} : call'[q] = call[q]
        BY <3>3, DeliverEdges DEF Edge, Moved
      <4>2. NoCall.pc = "none"
        BY DEF NoCall
      <4> QED
        BY <1>0, <4>1, <4>2
    <3>4. ASSUME NEW S \in SUBSET Lead, StartBatch(S)
          PROVE  call'[k] # NoCall \/ call'[k] = call[k]
      BY <1>0, <3>4, Beginning DEF StartBatch
    <3>5. ASSUME NEW m \in Lead, Approve(m) \/ Suppress(m) \/ Triage(m) \/ \E kind \in Kind : Reply(m, kind)
          PROVE  UNCHANGED call
      BY <3>5 DEF Approve, Suppress, Triage, TriageMessage, TriageSuppress, TriageStop, TriageLead, Reply
    <3>6. CASE Reap \/ NextDay \/ BusinessHours \/ UNCHANGED vars
      BY <1>5, <3>6 DEF Reap, NextDay, BusinessHours, vars
    <3> QED
      BY <1>5, <3>1, <3>2, <3>3, <3>4, <3>5, <3>6 DEF Next, Worker, Handle
  <2>2. CASE FinishTask(l)
    <3>1. job'[l] = "over"
      BY <2>2 DEF FinishTask, Queue!Finish, Queue!Move
    <3> QED
      BY <1>0, <3>1
  <2>3. CASE FailTask(l)
    <3>1. message[l] # "none"
      BY <1>0, <2>3 DEF FailTask, MailInv, RaisesBesideRow
    <3> QED
      BY <1>1, <1>5, <3>1, Beginning DEF WorkerMayMail
  <2> QED
    BY <2>1, <2>2, <2>3
<1> QED
  BY <1>0, <1>2, <1>3, <1>4, <1>5, EachKey DEF KeyStep

\* Nothing gives cold-mailer run a send back: its list only shrinks.
LEMMA CliMaysStep ==
  ASSUME TypeOK, CliCallsLeft, [Next]_vars, NEW l \in Lead, CliMayMail(l)'
  PROVE  CliMayMail(l)
<1> DEFINE k == <<"cli", l>>
<1> USE DEF Ahead
<1>0. "cli" \in Caller /\ k \in Key /\ k[2] = l
  BY DEF CliMayMail, Key
<1>1. cliLeft' \subseteq cliLeft
  BY CliStep
<1>2. CASE call'[k] = call[k]
  BY <1>0, <1>1, <1>2 DEF CliMayMail
<1>3. CASE call'[k] = NoCall
  BY <1>0, <1>1, <1>3, Beginning DEF CliMayMail
<1>4. CASE Deliver(k)
  BY <1>0, <1>1, <1>4, DeliverEdges DEF CliMayMail, Edge, Moved
<1>5. CASE call[k].pc = "none" /\ call'[k] = NewCall(k[2]) /\ call'[k] # NoCall /\ call'[k] # call[k]
  <2>1. \E m \in Lead : StartCli(m)
    <3>1. ASSUME NEW S \in SUBSET Lead, StartBatch(S)
          PROVE  call'[k] = call[k]
      BY <1>0, <3>1 DEF StartBatch
    <3>2. ASSUME NEW m \in Lead, Handle(m) \/ CliReturns(m)
          PROVE  call'[k] = NoCall \/ call'[k] = call[k]
      BY <1>0, <3>2 DEF Handle, FinishTask, FailTask, CliReturns, TypeOK
    <3>3. ASSUME NEW o \in Key, Deliver(o)
          PROVE  call'[k] = call[k] \/ call[k].pc # "none"
      BY <1>0, <3>3, DeliverEdges DEF Edge, Moved
    <3>4. ASSUME NEW m \in Lead, Approve(m) \/ Suppress(m) \/ Triage(m) \/ \E kind \in Kind : Reply(m, kind)
          PROVE  UNCHANGED call
      BY <3>4 DEF Approve, Suppress, Triage, TriageMessage, TriageSuppress, TriageStop, TriageLead, Reply
    <3>5. CASE Reap \/ NextDay \/ BusinessHours \/ UNCHANGED vars
      BY <1>5, <3>5 DEF Reap, NextDay, BusinessHours, vars
    <3>6. CASE Crash
      BY <1>0, <1>5, <3>6 DEF Crash
    <3> QED
      BY <1>5, <3>1, <3>2, <3>3, <3>4, <3>5, <3>6 DEF Next, Worker
  <2>2. PICK m \in Lead : StartCli(m)
    BY <2>1
  <2>3. m = l
    BY <1>0, <1>5, <2>2 DEF StartCli, Key, TypeOK
  <2> QED
    BY <1>0, <2>2, <2>3 DEF StartCli, CliMayMail
<1> QED
  BY <1>0, <1>2, <1>3, <1>4, <1>5, EachKey DEF KeyStep

\* The callers are counted one by one.
LEMMA CallersAreFew ==
  /\ Cardinality(Caller) \in Nat
  /\ One("worker" \in Caller) + One("cli" \in Caller) = Cardinality(Caller)
<1>1. /\ Cardinality({}) = 0 /\ IsFiniteSet({})
      /\ Cardinality({"worker"}) = 1 /\ IsFiniteSet({"worker"})
      /\ Cardinality({"cli"}) = 1
  BY FS_EmptySet, FS_Singleton
<1>2. Cardinality({"worker"} \cup {"cli"}) = 2
  BY <1>1, FS_AddElement, "cli" \notin {"worker"}
<1>3. CASE "worker" \in Caller /\ "cli" \in Caller
  <2>1. Caller = {"worker"} \cup {"cli"}
    BY <1>3, DeliveryAssumption
  <2> QED
    BY <1>2, <1>3, <2>1 DEF One
<1>4. CASE "worker" \in Caller /\ "cli" \notin Caller
  <2>1. Caller = {"worker"}
    BY <1>4, DeliveryAssumption
  <2> QED
    BY <1>1, <1>4, <2>1 DEF One
<1>5. CASE "worker" \notin Caller /\ "cli" \in Caller
  <2>1. Caller = {"cli"}
    BY <1>5, DeliveryAssumption
  <2> QED
    BY <1>1, <1>5, <2>1 DEF One
<1>6. CASE "worker" \notin Caller /\ "cli" \notin Caller
  <2>1. Caller = {}
    BY <1>6, DeliveryAssumption
  <2> QED
    BY <1>1, <1>6, <2>1 DEF One
<1> QED
  BY <1>3, <1>4, <1>5, <1>6

\* Only a crash is counted as one.
LEMMA FaultsStep ==
  ASSUME TypeOK, [Next]_vars
  PROVE  \/ Crash /\ UNCHANGED mails /\ faults' = faults + 1
         \/ ~Crash /\ faults' = faults
<1>0. faults \in Int /\ faults # faults + 1
  BY DEF TypeOK
<1>1. CASE Crash
  BY <1>1 DEF Crash
<1>2. ASSUME NEW k \in Key, Deliver(k)
      PROVE  faults' = faults
  BY <1>2, DeliverFrame
<1>3. ASSUME ~Crash, ~(\E k \in Key : Deliver(k))
      PROVE  faults' = faults
  BY <1>3 DEF Next, Worker, StartBatch, Reap, NextDay, BusinessHours, vars, Approve, Suppress, Handle,
       FinishTask, FailTask, CliReturns, StartCli, Triage, TriageMessage, TriageSuppress, TriageStop, TriageLead,
       Reply
<1> QED
  BY <1>1, <1>2, <1>3

\* A send uses up the one mail its caller may still make.
LEMMA SendSpends ==
  ASSUME TypeOK, MailInv, NEW k \in Key, Deliver(k), SendAccepted(k) \/ SendRaises(k)
  PROVE  LET l == k[2] IN
         /\ mails'[l] \in {mails[l], mails[l] + 1} /\ \A m \in Lead \ {l} : mails'[m] = mails[m]
         /\ \/ k[1] = "worker" /\ WorkerMayMail(l) /\ ~WorkerMayMail(l)'
            \/ k[1] = "cli" /\ CliMayMail(l) /\ ~CliMayMail(l)'
<1> DEFINE l == k[2]
<1> USE DEF Ahead
<1>0. /\ l \in Lead /\ k = <<k[1], l>> /\ k[1] \in Caller /\ Caller \subseteq {"worker", "cli"}
      /\ mails \in [Lead -> Nat]
  BY DeliveryAssumption DEF Key, TypeOK
<1>1. mails'[l] \in {mails[l], mails[l] + 1} /\ \A m \in Lead \ {l} : mails'[m] = mails[m]
  BY <1>0 DEF SendAccepted, SendRaises
<1>2. call[k].pc = "send" /\ call'[k].pc \in {"insert", "return"}
  <2>1. call[k].pc = "send"
    BY DEF SendAccepted, SendRaises, At
  <2> QED
    BY <2>1, DeliverEdges DEF Edge, Moved
<1>3. CASE k[1] = "worker"
  <2>1. job[l] = "held"
    BY <1>0, <1>2, <1>3 DEF MailInv, CallsAreHeld, At
  <2>2. k = <<"worker", l>>
    BY <1>0, <1>3
  <2> HIDE DEF l
  <2>3. WorkerMayMail(l)
    BY <1>0, <1>2, <1>3, <2>1, <2>2 DEF WorkerMayMail
  <2>4. ~WorkerMayMail(l)'
    BY <1>2, <2>2 DEF WorkerMayMail
  <2> QED
    BY <1>1, <1>3, <2>3, <2>4 DEF l
<1>4. CASE k[1] = "cli"
  <2>1. l \notin cliLeft /\ cliLeft' = cliLeft
    BY <1>0, <1>2, <1>4, DeliverFrame DEF MailInv, CliCallsLeft, At
  <2>2. k = <<"cli", l>>
    BY <1>0, <1>4
  <2> HIDE DEF l
  <2>3. CliMayMail(l)
    BY <1>0, <1>2, <1>4, <2>2 DEF CliMayMail
  <2>4. ~CliMayMail(l)'
    BY <1>2, <2>1, <2>2 DEF CliMayMail
  <2> QED
    BY <1>1, <1>4, <2>3, <2>4 DEF l
<1> QED
  BY <1>0, <1>3, <1>4

\* Every step keeps the balance of mails made and mails still possible.
LEMMA MailStep ==
  ASSUME TypeOK, MailInv, [Next]_vars
  PROVE  MailInv'
<1>1. CallsAreHeld' /\ CliCallsLeft' /\ RaisesBesideRow'
  BY TasksStep, CliStep, RaisesStep DEF MailInv
<1>2. ASSUME NEW l \in Lead
      PROVE  MailsLeft(l)'
  <2> DEFINE N == Cardinality(Caller)
  <2>0. /\ N \in Nat /\ faults \in Int /\ mails[l] \in Int
        /\ mails[l] + One(WorkerMayMail(l)) + One(CliMayMail(l)) <= N + faults
    BY CallersAreFew DEF TypeOK, MailInv, MailsLeft
  <2> HIDE DEF N
  <2>1. CliMayMail(l)' => CliMayMail(l)
    BY CliMaysStep DEF MailInv
  <2> SUFFICES mails'[l] + One(WorkerMayMail(l)') + One(CliMayMail(l)') <= N + faults'
    BY DEF MailsLeft, N, One
  <2>2. CASE Crash /\ UNCHANGED mails /\ faults' = faults + 1
    BY <2>0, <2>1, <2>2 DEF One
  <2>3. CASE ~Crash /\ faults' = faults
    <3>1. WorkerMayMail(l)' => WorkerMayMail(l)
      BY <2>3, WorkerMaysStep
    <3>2. CASE mails'[l] = mails[l]
      BY <2>0, <2>1, <2>3, <3>1, <3>2 DEF One
    <3>3. CASE mails'[l] # mails[l]
      <4>1. PICK k \in Key : (SendAccepted(k) \/ SendRaises(k)) /\ Deliver(k)
        BY <3>3, MailSteps
      <4>2. k[2] = l /\ k[2] \in Lead
        BY <3>3, <4>1, SendSpends DEF Key
      <4>3. /\ mails'[l] = mails[l] + 1
            /\ \/ WorkerMayMail(l) /\ ~WorkerMayMail(l)'
               \/ CliMayMail(l) /\ ~CliMayMail(l)'
        BY <3>3, <4>1, <4>2, SendSpends
      <4> QED
        BY <2>0, <2>1, <2>3, <3>1, <4>3 DEF One
    <3> QED
      BY <3>2, <3>3
  <2> QED
    BY <2>2, <2>3, FaultsStep
<1> QED
  BY <1>1, <1>2 DEF MailInv

-----------------------------------------------------------------------------
(* The cap *)

\* The leads with a call of c under way.
BusyOf(c) == {l \in Lead : <<c, l>> \in Key /\ ~At(<<c, l>>, "none")}
FewCalls == Cardinality(BusyOf("worker")) <= Batch /\ Cardinality(BusyOf("cli")) <= 1

\* The calls that may still count a mail on the current row without asking it:
\* those past the gate, and those about to ask the row of an earlier day.
Due == {k \in Key : \/ call[k].pc \in {"bounces", "send", "insert", "mark", "record"}
                    \/ call[k].pc = "row" /\ call[k].day # day}
CapLeft == budget[day].made =>
             budget[day].sent + Cardinality(Due) <= budget[day].cap + Slots - 1

CapInv == RampInv /\ FewCalls /\ CapLeft

\* Any set of calls can be counted.
LEMMA KeysAreFinite ==
  ASSUME NEW K \in SUBSET Key
  PROVE  IsFiniteSet(K) /\ Cardinality(K) \in Nat
<1>1. IsFiniteSet({"worker"} \cup {"cli"})
  BY FS_Singleton, FS_AddElement
<1>2. IsFiniteSet(Caller) /\ IsFiniteSet(Lead)
  <2>1. Caller \subseteq {"worker"} \cup {"cli"} /\ IsFiniteSet(Lead)
    BY DeliveryAssumption
  <2> QED
    BY <1>1, <2>1, FS_Subset
<1>3. IsFiniteSet(Key)
  BY <1>2, FS_Product DEF Key
<1> QED
  BY <1>3, FS_Subset, FS_CardinalityType

\* A call belongs to a caller and a lead.
LEMMA KeyParts ==
  ASSUME NEW k \in Key
  PROVE  k[1] \in Caller /\ k[2] \in Lead /\ k = <<k[1], k[2]>> /\ (k[1] = "worker" \/ k[1] = "cli")
<1>1. k[1] \in Caller /\ k[2] \in Lead /\ k = <<k[1], k[2]>>
  BY DEF Key
<1> QED
  BY <1>1, DeliveryAssumption

\* The slots are a natural number.
LEMMA SlotsAreNat == Slots \in Nat
<1>1. Batch \in Nat
  BY DeliveryAssumption
<1> QED
  BY <1>1 DEF Slots

\* Any set of leads can be counted.
LEMMA LeadsAreFinite ==
  ASSUME NEW S \in SUBSET Lead
  PROVE  IsFiniteSet(S) /\ Cardinality(S) \in Nat
BY DeliveryAssumption, FS_Subset, FS_CardinalityType

\* A call of the worker for a lead in W, or of cold-mailer run for one in C.
Within(k, W, C) == (k[1] = "worker" /\ k[2] \in W) \/ (k[1] = "cli" /\ k[2] \in C)

\* As many calls as the callers have slots.
LEMMA SlotsBound ==
  ASSUME NEW W \in SUBSET Lead, NEW C \in SUBSET Lead, NEW D \in SUBSET Key,
         Cardinality(W) <= Batch, Cardinality(C) <= 1,
         \A k \in D : Within(k, W, C)
  PROVE  Cardinality(D) <= Slots
<1> USE DEF Within
<1> DEFINE Part(c) == {k \in D : k[1] = c}
           w == Cardinality(Part("worker"))
           p == Cardinality(Part("cli"))
<1>1. ASSUME NEW c, NEW S \in SUBSET Lead, \A k \in Part(c) : k[2] \in S
      PROVE  Cardinality(Part(c)) <= Cardinality(S)
  <2>1. IsFiniteSet({c}) /\ Cardinality({c}) = 1
    BY FS_Singleton
  <2>2. IsFiniteSet({c} \X S) /\ Cardinality({c} \X S) = Cardinality(S)
    <3>1. IsFiniteSet(S) /\ Cardinality(S) \in Nat
      BY LeadsAreFinite
    <3>2. IsFiniteSet({c} \X S) /\ Cardinality({c} \X S) = 1 * Cardinality(S)
      BY <2>1, <3>1, FS_Product
    <3> QED
      BY <3>1, <3>2
  <2>3. Part(c) \subseteq {c} \X S
    BY <1>1 DEF Key
  <2> QED
    BY <2>2, <2>3, FS_Subset
<1>2. w <= Cardinality(W) /\ p <= Cardinality(C)
  <2>1. (\A k \in Part("worker") : k[2] \in W) /\ (\A k \in Part("cli") : k[2] \in C)
    OBVIOUS
  <2> QED
    BY <1>1, <2>1
<1>3. w \in Nat /\ p \in Nat /\ IsFiniteSet(Part("worker")) /\ IsFiniteSet(Part("cli"))
  BY KeysAreFinite
<1>4. D = Part("worker") \cup Part("cli")
  OBVIOUS
<1>5. Cardinality(D) <= w + p
  <2>1. Cardinality(Part("worker") \cap Part("cli")) \in Nat
    BY KeysAreFinite
  <2>2. Cardinality(D) = w + p - Cardinality(Part("worker") \cap Part("cli"))
    BY <1>3, <1>4, FS_Union
  <2> HIDE DEF w, p, Part
  <2> QED
    BY <1>3, <2>1, <2>2
<1>6. \A c : c \notin Caller => Part(c) = {}
  BY DEF Key
<1>7. ("worker" \notin Caller => w = 0) /\ ("cli" \notin Caller => p = 0)
  BY <1>6, FS_EmptySet
<1>8. Cardinality(W) \in Nat /\ Cardinality(C) \in Nat /\ Cardinality(D) \in Nat /\ Batch \in Nat
  BY LeadsAreFinite, KeysAreFinite, DeliveryAssumption
<1> HIDE DEF w, p, Part
<1> QED
  BY <1>2, <1>3, <1>5, <1>7, <1>8 DEF Slots

\* A tick starts its batch when the last one is over, cold-mailer run its next
\* call when the last one has returned.
LEMMA FewStep ==
  ASSUME TypeOK, FewCalls, [Next]_vars
  PROVE  FewCalls'
<1>0. /\ call \in [Key -> Call] /\ Batch \in Nat
      /\ \A k \in Key : k[1] \in Caller /\ k[2] \in Lead /\ k = <<k[1], k[2]>>
  <2>1. call \in [Key -> Call]
    BY DEF TypeOK
  <2>2. Batch \in Nat
    BY DeliveryAssumption
  <2>3. \A k \in Key : k[1] \in Caller /\ k[2] \in Lead /\ k = <<k[1], k[2]>>
    BY DEF Key
  <2> QED
    BY <2>1, <2>2, <2>3
<1>1. ASSUME NEW c, BusyOf(c)' \subseteq BusyOf(c)
      PROVE  Cardinality(BusyOf(c)') <= Cardinality(BusyOf(c))
  <2>1. BusyOf(c) \in SUBSET Lead
    BY DEF BusyOf
  <2> QED
    BY <1>1, <2>1, LeadsAreFinite, FS_Subset
<1>2. \A c : BusyOf(c) \in SUBSET Lead /\ BusyOf(c)' \in SUBSET Lead
  BY DEF BusyOf
<1>3. Cardinality(BusyOf("worker")) \in Nat /\ Cardinality(BusyOf("cli")) \in Nat
      /\ Cardinality(BusyOf("worker")') \in Nat /\ Cardinality(BusyOf("cli")') \in Nat
  BY <1>2, LeadsAreFinite
<1>4. ASSUME \A k \in Key : call[k].pc = "none" => call'[k].pc = "none"
      PROVE  FewCalls'
  <2>1. BusyOf("worker")' \subseteq BusyOf("worker") /\ BusyOf("cli")' \subseteq BusyOf("cli")
    BY <1>4 DEF BusyOf, At
  <2> QED
    BY <1>0, <1>1, <1>3, <2>1 DEF FewCalls
<1>5. ASSUME NEW k \in Key, Deliver(k)
      PROVE  FewCalls'
  <2>1. call[k].pc # "none" /\ \A o \in Key \ {k} : call'[o] = call[o]
    BY <1>5, DeliverEdges DEF Edge, Moved
  <2> QED
    BY <1>4, <2>1
<1>6. ASSUME NEW l \in Lead, StartCli(l)
      PROVE  FewCalls'
  <2>1. \A m \in Lead : <<"worker", m>> \in Key => call'[<<"worker", m>>] = call[<<"worker", m>>]
    BY <1>0, <1>6 DEF StartCli
  <2>2. \A m \in Lead : m # l /\ <<"cli", m>> \in Key => call'[<<"cli", m>>].pc = "none"
    BY <1>0, <1>6 DEF StartCli, Busy, At
  <2>3. BusyOf("worker")' \subseteq BusyOf("worker") /\ BusyOf("cli")' \subseteq {l}
    BY <2>1, <2>2 DEF BusyOf, At
  <2>4. Cardinality(BusyOf("cli")') <= 1
    <3>1. IsFiniteSet({l}) /\ Cardinality({l}) = 1
      BY FS_Singleton
    <3>2. BusyOf("cli")' \in SUBSET {l}
      BY <2>3
    <3> QED
      BY <3>1, <3>2, FS_Subset
  <2> QED
    BY <1>0, <1>1, <1>3, <2>3, <2>4 DEF FewCalls
<1>7. ASSUME NEW S \in SUBSET Lead, StartBatch(S)
      PROVE  FewCalls'
  <2>1. \A k \in Key : k[1] # "worker" => call'[k] = call[k]
    BY <1>7 DEF StartBatch
  <2>2. \A m \in Lead : m \notin S /\ <<"worker", m>> \in Key => call'[<<"worker", m>>].pc = "none"
    BY <1>0, <1>7 DEF StartBatch, Busy, At
  <2>3. BusyOf("cli")' \subseteq BusyOf("cli") /\ BusyOf("worker")' \subseteq S
    BY <1>0, <2>1, <2>2 DEF BusyOf, At
  <2>4. Cardinality(BusyOf("worker")') <= Cardinality(S) /\ Cardinality(S) <= Batch /\ Cardinality(S) \in Nat
    BY <1>7, <2>3, LeadsAreFinite, FS_Subset DEF StartBatch
  <2> QED
    BY <1>0, <1>1, <1>3, <2>3, <2>4 DEF FewCalls
<1>8. ASSUME NEW l \in Lead, Handle(l) \/ CliReturns(l)
      PROVE  FewCalls'
  <2>1. \A k \in Key : call'[k] = call[k] \/ call'[k] = NoCall
    BY <1>0, <1>8 DEF Handle, FinishTask, FailTask, CliReturns
  <2> QED
    BY <1>4, <2>1 DEF NoCall
<1>9. CASE Crash
  <2>1. \A k \in Key : call'[k] = call[k] \/ call'[k] = NoCall
    BY <1>9 DEF Crash
  <2> QED
    BY <1>4, <2>1 DEF NoCall
<1>10. ASSUME UNCHANGED call
       PROVE  FewCalls'
  BY <1>4, <1>10
<1>11. ASSUME NEW l \in Lead, Approve(l) \/ Suppress(l) \/ Triage(l) \/ \E kind \in Kind : Reply(l, kind)
       PROVE  UNCHANGED call
  BY <1>11 DEF Approve, Suppress, Triage, TriageMessage, TriageSuppress, TriageStop, TriageLead, Reply
<1>12. CASE Reap \/ NextDay \/ BusinessHours \/ UNCHANGED vars
  BY <1>10, <1>12 DEF Reap, NextDay, BusinessHours, vars
<1> QED
  BY <1>5, <1>6, <1>7, <1>8, <1>9, <1>10, <1>11, <1>12 DEF Next, Worker

\* The gate lets a call through on a row with a slot left, and no more calls
\* than there are slots are due; every other statement moves a mail from the
\* calls that are due to the count, or drops it.
LEMMA CapLeftStep ==
  ASSUME TypeOK, Dates, RampInv, FewCalls, CapLeft, [Next]_vars
  PROVE  CapLeft'
<1>0. /\ TypeOK' /\ FewCalls' /\ day \in Day
      /\ budget \in [Day -> [made : BOOLEAN, sent : Nat, cap : Nat, halted : BOOLEAN]]
      /\ budget' \in [Day -> [made : BOOLEAN, sent : Nat, cap : Nat, halted : BOOLEAN]]
  BY TypesStep, FewStep DEF Dates, TypeOK
<1>1. /\ Due \in SUBSET Key /\ IsFiniteSet(Due) /\ Cardinality(Due) \in Nat
      /\ Due' \in SUBSET Key /\ IsFiniteSet(Due') /\ Cardinality(Due') \in Nat
  <2>1. Due \in SUBSET Key /\ Due' \in SUBSET Key
    BY DEF Due
  <2> QED
    BY <2>1, KeysAreFinite
<1>2. Cardinality(Due') <= Slots /\ Slots \in Nat
  <2>1. ASSUME NEW k \in Due'
        PROVE  Within(k, BusyOf("worker")', BusyOf("cli")')
    <3>1. k \in Key /\ call'[k].pc # "none"
      BY DEF Due
    <3> QED
      BY <3>1, KeyParts DEF Within, BusyOf, At
  <2>2. BusyOf("worker")' \in SUBSET Lead /\ BusyOf("cli")' \in SUBSET Lead
    BY DEF BusyOf
  <2>3. Cardinality(BusyOf("worker")') <= Batch /\ Cardinality(BusyOf("cli")') <= 1
    BY <1>0 DEF FewCalls
  <2> QED
    BY <1>1, <2>1, <2>2, <2>3, SlotsBound, SlotsAreNat
<1>3. ASSUME day' = day, RowKept(day), Due' \subseteq Due
      PROVE  CapLeft'
  <2>1. Cardinality(Due') <= Cardinality(Due)
    BY <1>1, <1>3, FS_Subset
  <2> HIDE DEF Due
  <2> QED
    BY <1>0, <1>1, <1>2, <1>3, <2>1 DEF CapLeft, RowKept
<1>4. CASE NextDay
  <2>1. day' \in Day /\ budget' = budget /\ day' = day + 1 /\ day \in Int
    BY <1>0, <1>4, DaysAreFinite DEF NextDay, tableVars, TypeOK
  <2>2. ~budget[day'].made
    BY <2>1 DEF Dates, RowsTillToday
  <2> QED
    BY <2>1, <2>2 DEF CapLeft
<1>5. ASSUME ~NextDay, \A k \in Key : ~Deliver(k)
      PROVE  CapLeft'
  <2>1. UNCHANGED <<day, budget>>
    BY <1>5 DEF Next, Worker, StartBatch, Reap, Crash, BusinessHours, vars, Approve, Suppress, Handle,
         FinishTask, FailTask, CliReturns, StartCli, Triage, TriageMessage, TriageSuppress, TriageStop, TriageLead,
         Reply, tableVars, clockVars
  <2>2. ASSUME NEW k \in Key, k \in Due'
        PROVE  k \in Due
    <3>1. k[2] \in Lead
      BY DEF Key
    <3>2. call'[k] = call[k]
      BY <1>5, <2>2, <3>1, EachKey, Beginning DEF KeyStep, Due
    <3> QED
      BY <2>1, <2>2, <3>2 DEF Due
  <2> QED
    BY <1>1, <1>3, <2>1, <2>2 DEF RowKept
<1>6. ASSUME NEW k \in Key, Deliver(k)
      PROVE  CapLeft'
  <2>0. day' = day
    BY <1>6, DeliverFrame
  <2>1. \A o \in Key \ {k} : call'[o] = call[o]
    BY <1>6, DeliverEdges DEF Edge, Moved
  <2>2. ASSUME RowKept(day), k \in Due' => k \in Due
        PROVE  CapLeft'
    <3>1. Due' \subseteq Due
      BY <2>0, <2>1, <2>2 DEF Due
    <3> QED
      BY <1>3, <2>0, <2>2, <3>1
  <2>3. CASE RecordSent(k)
    <3>1. k \in Due /\ k \notin Due'
      BY <1>6, <2>3, DeliverEdges DEF Edge, Moved, Due, RecordSent, At
    <3>2. Due' \subseteq Due \ {k}
      BY <2>0, <2>1, <3>1 DEF Due
    <3>3. Cardinality(Due') <= Cardinality(Due) - 1
      <4>1. IsFiniteSet(Due \ {k}) /\ Cardinality(Due \ {k}) = Cardinality(Due) - 1
        BY <1>1, <3>1, FS_RemoveElement
      <4> QED
        BY <3>2, <4>1, FS_Subset
    <3>4. /\ budget[day].made => budget'[day].sent = budget[day].sent + 1 /\ budget'[day].cap = budget[day].cap
          /\ budget'[day].made = budget[day].made
      BY <1>0, <2>3 DEF RecordSent, Today
    <3> HIDE DEF Due
    <3> QED
      BY <1>0, <1>1, <1>2, <2>0, <3>3, <3>4 DEF CapLeft
  <2>4. CASE GetOrCreateRow(k)
    <3> DEFINE d == call[k].day
               fresh == FreshRow(call[k].cap)
               row == IF budget[d].made THEN budget[d] ELSE fresh
    <3>1. /\ call[k].pc = "row" /\ budget' = [budget EXCEPT ![d] = row]
          /\ IF Refused(row) THEN Answer(k, "skipped_budget") ELSE Goto(k, "bounces")
      BY <2>4 DEF GetOrCreateRow, FreshRow, At
    <3>2. CASE d # day
      <4>1. RowKept(day)
        BY <1>0, <3>1, <3>2 DEF RowKept
      <4>2. k \in Due
        BY <3>1, <3>2 DEF Due
      <4> QED
        BY <2>2, <4>1, <4>2
    <3>3. CASE d = day
      <4>1. /\ call[k].cap \in Nat
            /\ ~budget[day].made => call[k].cap >= 1
        <5>1. call[k].cap \in Nat
          BY DEF TypeOK, Call
        <5>2. ASSUME ~budget[day].made
              PROVE  call[k].cap \in Nat \ {0}
          <6>1. call[k].cap = CapAfter(Cardinality({e \in DaysWithSends : e < d}))
            BY <3>1, <3>3, <5>2 DEF RampInv, CapIsCurrent
          <6>2. {e \in DaysWithSends : e < d} \in SUBSET Day
            BY DEF DaysWithSends
          <6> QED
            BY <6>1, <6>2, SubsetsOfDays, CapsAreNat
        <5> QED
          BY <5>1, <5>2
      <4>2. fresh.sent = 0 /\ fresh.cap = call[k].cap
        BY <4>1, FreshRows
      <4>3. budget'[day] = row
        BY <1>0, <3>1, <3>3
      <4>4. CASE Refused(row) /\ budget[day].made
        <5>1. RowKept(day)
          BY <3>3, <4>3, <4>4 DEF RowKept
        <5>2. k \notin Due'
          <6>1. call'[k].pc = "return"
            BY <3>1, <4>4, Answering DEF Moved, DeliveryStatus
          <6> QED
            BY <6>1 DEF Due
        <5> QED
          BY <2>2, <5>1, <5>2
      <4>5. CASE ~budget[day].made
        <5>1. budget'[day].sent = 0 /\ budget'[day].cap >= 1
          BY <3>3, <4>1, <4>2, <4>3, <4>5
        <5> HIDE DEF Due
        <5> QED
          BY <1>0, <1>1, <1>2, <2>0, <5>1 DEF CapLeft
      <4>6. CASE ~Refused(row) /\ budget[day].made
        <5>1. budget'[day].sent \in Nat /\ budget'[day].cap \in Nat
          BY <1>0
        <5>2. budget'[day].sent <= budget'[day].cap - 1
          BY <4>3, <4>6, <5>1 DEF Refused
        <5> HIDE DEF Due
        <5> QED
          BY <1>1, <1>2, <2>0, <5>1, <5>2 DEF CapLeft
      <4> QED
        BY <4>4, <4>5, <4>6
    <3> QED
      BY <3>2, <3>3
  <2>5. CASE HaltDay(k)
    <3>1. RowKept(day)
      BY <1>0, <2>5 DEF HaltDay, RowKept
    <3>2. k \notin Due'
      BY <1>6, <2>5, DeliverEdges DEF Edge, Moved, Due, HaltDay, At
    <3> QED
      BY <2>2, <3>1, <3>2
  <2>6. CASE ~RecordSent(k) /\ ~GetOrCreateRow(k) /\ ~HaltDay(k)
    <3>1. RowKept(day)
      BY <1>6, <2>6, DeliverFrame DEF RowKept
    <3>2. k \in Due' => k \in Due
      BY <1>6, <2>0, <2>6, DeliverEdges DEF Edge, Moved, Due
    <3> QED
      BY <2>2, <3>1, <3>2
  <2> QED
    BY <2>3, <2>4, <2>5, <2>6
<1> QED
  BY <1>4, <1>5, <1>6

\* No call is under way at first, and no row is there.
LEMMA CapInit == Init => FewCalls /\ CapLeft
<1> SUFFICES ASSUME Init PROVE FewCalls /\ CapLeft
  OBVIOUS
<1>1. \A k \in Key : call[k].pc = "none"
  BY DEF Init, NoCall
<1>2. BusyOf("worker") = {} /\ BusyOf("cli") = {}
  BY <1>1 DEF BusyOf, At
<1>3. FewCalls
  <2>1. Cardinality(BusyOf("worker")) = 0 /\ Cardinality(BusyOf("cli")) = 0
    BY <1>2, FS_EmptySet
  <2>2. Batch \in Nat
    BY DeliveryAssumption
  <2> QED
    BY <2>1, <2>2 DEF FewCalls
<1>4. ~budget[day].made
  BY DeliveryAssumption DEF Init, NoRow, Day
<1> QED
  BY <1>3, <1>4 DEF CapLeft

-----------------------------------------------------------------------------
(* The initial states *)

\* Every strengthening holds in the initial state.
LEMMA InvariantsInit ==
  ASSUME Init
  PROVE  Dates /\ BarredStops /\ FrozenStops /\ TriageLeaves /\ RampInv /\ MailInv /\ NoRowAhead
<1>0. TypeOK
  BY TypesInit
<1>1. \A k \in Key : call[k].pc = "none" /\ call[k].barred = FALSE /\ call[k].frozen = 0
  BY DEF Init, NoCall
<1>2. \A d \in Day : budget[d].made = FALSE /\ budget[d].sent = 0 /\ budget[d].halted = FALSE
  BY DEF Init, NoRow
<1>3. Dates
  BY <1>1, <1>2 DEF Dates, DateIsKnown, RowsTillToday, PastRow
<1>4. BarredStops /\ FrozenStops /\ NoRowAhead
  BY <1>1 DEF BarredStops, FrozenStops, NoRowAhead, Ahead
<1>5. TriageLeaves
  BY DEF Init, TriageLeaves, Leaves
<1>6. RampInv
  BY <1>1, <1>2 DEF RampInv, CapIsCurrent, RampCountsSendingDays
<1>7. CallsAreHeld /\ CliCallsLeft /\ RaisesBesideRow
  BY <1>1 DEF CallsAreHeld, CliCallsLeft, RaisesBesideRow, At
<1>8. ASSUME NEW l \in Lead
      PROVE  MailsLeft(l)
  <2> DEFINE N == Cardinality(Caller)
  <2>1. mails[l] = 0 /\ faults = 0
    BY DEF Init
  <2>2. (WorkerMayMail(l) => "worker" \in Caller) /\ (CliMayMail(l) => "cli" \in Caller)
    BY DEF WorkerMayMail, CliMayMail
  <2>3. N \in Nat /\ One("worker" \in Caller) + One("cli" \in Caller) = N
    BY CallersAreFew
  <2> HIDE DEF N
  <2>4. 0 + One(WorkerMayMail(l)) + One(CliMayMail(l)) <= N + 0
    BY <2>2, <2>3 DEF One
  <2> QED
    BY <2>1, <2>4 DEF MailsLeft, N
<1> QED
  BY <1>3, <1>4, <1>5, <1>6, <1>7, <1>8 DEF MailInv

-----------------------------------------------------------------------------
(* Theorems *)

\* The strengthening that makes TypeOK inductive: the dates of the calls and of the budget rows agree
\* with the clock.  The theorems below rest on it.
LEMMA DatesHold == Spec => [](TypeOK /\ Dates)
<1>1. Init => TypeOK /\ Dates
  BY TypesInit, InvariantsInit
<1>2. TypeOK /\ Dates /\ [Next]_vars => TypeOK' /\ Dates'
  BY TypesStep, DatesStep DEF Dates
<1> QED
  BY <1>1, <1>2, PTL DEF Spec

\* The state of the two agents keeps its shape: a call has a statement of
\* deliver to run and a date within the bound, a budget row natural counts, the
\* task its attempts within max_attempts.
THEOREM TypeCorrect == Spec => []TypeOK
<1>1. TypeOK /\ Dates => TypeOK
  OBVIOUS
<1> QED
  BY <1>1, DatesHold, PTL

\* However calls, triage and the operator interleave, a call made when its
\* lead was suppressed answers at _is_suppressed and never reaches the transport.
THEOREM SuppressionTheorem == Spec => []SuppressionIsFinal
<1>1. Init => BarredStops
  BY InvariantsInit
<1>2. TypeOK /\ Dates /\ BarredStops /\ [Next]_vars => BarredStops'
  BY BarredStep
<1>3. BarredStops => SuppressionIsFinal
  BY DEF BarredStops, SuppressionIsFinal, At
<1> QED
  BY <1>1, <1>2, <1>3, DatesHold, PTL DEF Spec

\* A day once halted by the bounce rate stays halted, and the upsert hands every
\* later call the halted row: none of them sends on the budget of that day.
THEOREM HaltTheorem == Spec => []HaltIsSticky
<1>1. Init => FrozenStops
  BY InvariantsInit
<1>2. TypeOK /\ Dates /\ FrozenStops /\ [Next]_vars => FrozenStops'
  BY FrozenStep
<1>3. TypeOK /\ Dates /\ FrozenStops => HaltIsSticky
  BY DEF Dates, DateIsKnown, FrozenStops, HaltIsSticky, At, PastRow
<1> QED
  BY <1>1, <1>2, <1>3, DatesHold, PTL DEF Spec

\* Whatever crashed in between, a finished triage has left the status of the
\* message and the suppression its verdict asks for.
THEOREM VerdictTheorem == Spec => []VerdictRecorded
<1>1. Init => TriageLeaves
  BY InvariantsInit
<1>2. TypeOK /\ Dates /\ TriageLeaves /\ [Next]_vars => TriageLeaves'
  BY TriageStep
<1>3. TriageLeaves => VerdictRecorded
  BY DEF TriageLeaves, Leaves, VerdictRecorded
<1> QED
  BY <1>1, <1>2, <1>3, DatesHold, PTL DEF Spec

\* The cap of a day is the step of the warm-up ramp after the earlier days that
\* recorded a send, although the count and the upsert are separate statements
\* and several calls race to make the row.
THEOREM RampTheorem == Spec => []RampCountsSendingDays
<1>1. Init => RampInv
  BY InvariantsInit
<1>2. TypeOK /\ Dates /\ RampInv /\ [Next]_vars => RampInv'
  BY RampStep
<1>3. RampInv => RampCountsSendingDays
  BY DEF RampInv
<1> QED
  BY <1>1, <1>2, <1>3, DatesHold, PTL DEF Spec

\* The cap is exceeded by no more than the calls that run at the same time, less
\* one, at midnight too: check_and_reserve_slot reserves nothing, but only calls
\* that were under way when the last slot went can still use it.
THEOREM CapTheorem == Spec => []CapSlack
<1>1. Init => CapInv
  BY InvariantsInit, CapInit DEF CapInv
<1>2. TypeOK /\ Dates /\ CapInv /\ [Next]_vars => CapInv'
  BY RampStep, FewStep, CapLeftStep DEF CapInv
<1>3. TypeOK /\ CapInv => CapSlack
  <2> SUFFICES ASSUME TypeOK, CapInv, budget[day].made
               PROVE  budget[day].sent + Cardinality(PastGate) <= budget[day].cap + Slots - 1
    BY DEF CapSlack
  <2>1. Due \in SUBSET Key /\ PastGate \in SUBSET Key /\ PastGate \subseteq Due
    BY DEF Due, PastGate
  <2>2. Cardinality(PastGate) <= Cardinality(Due) /\ Cardinality(Due) \in Nat /\ Cardinality(PastGate) \in Nat
    BY <2>1, KeysAreFinite, FS_Subset
  <2>3. budget[day].sent \in Nat /\ budget[day].cap \in Nat /\ Slots \in Nat
    BY SlotsAreNat DEF TypeOK
  <2> QED
    BY <2>2, <2>3 DEF CapInv, CapLeft
<1> QED
  BY <1>1, <1>2, <1>3, DatesHold, PTL DEF Spec

\* The balance bounds the mails of a lead.
LEMMA MailsAreFew == TypeOK /\ MailInv => ExtraMailsAreCrashes
<1> SUFFICES ASSUME TypeOK, MailInv, NEW l \in Lead
             PROVE  mails[l] <= Cardinality(Caller) + faults
  BY DEF ExtraMailsAreCrashes
<1> DEFINE N == Cardinality(Caller)
<1>1. N \in Nat /\ mails[l] \in Int /\ faults \in Int
  BY CallersAreFew DEF TypeOK
<1>2. mails[l] + One(WorkerMayMail(l)) + One(CliMayMail(l)) <= N + faults
  BY DEF MailInv, MailsLeft
<1> HIDE DEF N
<1>3. mails[l] <= N + faults
  BY <1>1, <1>2 DEF One
<1> QED
  BY <1>3 DEF N

\* A lead gets one mail for each of the callers and at most one more for each
\* crash: the duplicate check, the UNIQUE constraint and a task that is over
\* leave no other way to send again.
THEOREM MailTheorem == Spec => []ExtraMailsAreCrashes
<1>1. Init => MailInv
  BY InvariantsInit
<1>2. TypeOK /\ MailInv /\ [Next]_vars => MailInv'
  BY MailStep
<1> QED
  BY <1>1, <1>2, MailsAreFew, TypeCorrect, PTL DEF Spec

\* With the worker alone (or cold-mailer run alone) delivering, no statement
\* mails a lead that has its messages row, although the check and the send are
\* four statements apart.
THEOREM OneCallerTheorem ==
  ASSUME \A c, d \in Caller : c = d
  PROVE  Spec => NoMailAfterRow
<1>1. Init => TriageLeaves /\ NoRowAhead
  BY InvariantsInit
<1>2. TypeOK /\ Dates /\ TriageLeaves /\ NoRowAhead /\ [Next]_vars => TriageLeaves' /\ NoRowAhead'
  BY TriageStep, RowAheadStep
<1>3. TypeOK /\ NoRowAhead /\ [Next]_vars
      => [\A l \in Lead : message[l] # "none" => mails'[l] = mails[l]]_vars
  <2> SUFFICES ASSUME TypeOK, NoRowAhead, [Next]_vars, NEW l \in Lead, message[l] # "none"
               PROVE  mails'[l] = mails[l]
    OBVIOUS
  <2>1. ASSUME NEW k \in Key, SendAccepted(k) \/ SendRaises(k), call[k].pc = "send"
        PROVE  mails'[l] = mails[l]
    <3>1. message[k[2]] = "none"
      BY <2>1 DEF NoRowAhead, Ahead
    <3>2. k[2] # l /\ mails \in [Lead -> Nat]
      BY <3>1 DEF TypeOK
    <3> QED
      BY <2>1, <3>2 DEF SendAccepted, SendRaises
  <2> QED
    BY <2>1, MailSteps
<1> QED
  BY <1>1, <1>2, <1>3, DatesHold, PTL DEF Spec, NoMailAfterRow

-----------------------------------------------------------------------------
(* The ledger *)

\* A call that has sent holds a day that has begun and has its row.
SendersHaveRow ==
  \A k \in Key : call[k].pc \in {"insert", "mark", "record"} =>
    call[k].day \in 1..day /\ budget[call[k].day].made

\* The inductive invariant behind BudgetLedger.
LedgerInv == SendersHaveRow /\ IsFiniteSet(Counted) /\ BudgetLedger

\* The day and the row of a call stay what they were until it answers.
LEMMA SendersStep ==
  ASSUME TypeOK, Dates, SendersHaveRow, [Next]_vars
  PROVE  SendersHaveRow'
<1>0. Grows /\ day \in Nat /\ day' \in Nat /\ day \in Day
  BY TypesStep, TablesGrow, DaysAreFinite DEF Dates, TypeOK
<1>1. \A d \in 1..day : d \in Day /\ d \in 1..day'
  BY <1>0, DeliveryAssumption DEF Day, Grows
<1> SUFFICES ASSUME NEW k \in Key, call'[k].pc \in {"insert", "mark", "record"}
             PROVE  call'[k].day \in 1..day' /\ budget'[call'[k].day].made
  BY DEF SendersHaveRow
<1>2. call'[k].day = call[k].day /\ call[k].day \in 1..day /\ budget[call[k].day].made
  <2>1. CASE call'[k] = call[k]
    BY <2>1 DEF SendersHaveRow
  <2>2. call'[k] # NoCall /\ call'[k] # NewCall(k[2])
    <3>1. k[2] \in Lead
      BY DEF Key
    <3> QED
      BY <3>1, Beginning
  <2>3. CASE Deliver(k)
    <3>1. call[k].pc \in PastRow \cup {"insert", "mark", "record"} /\ call'[k].day = call[k].day
      BY <2>3, DeliverEdges DEF Edge, Moved, PastRow
    <3> QED
      BY <3>1 DEF SendersHaveRow, Dates, DateIsKnown
  <2> QED
    BY <2>1, <2>2, <2>3, EachKey DEF KeyStep
<1> QED
  BY <1>0, <1>1, <1>2 DEF Grows

\* The budget rows as they are told apart by what they count.
LEMMA CountedKept ==
  ASSUME \A d \in Day : budget'[d].sent = budget[d].sent
  PROVE  Counted' = Counted /\ TotalSent' = TotalSent
BY DEF Counted, TotalSent

LEMMA CountedOnce ==
  ASSUME TypeOK, IsFiniteSet(Counted), RowAfter(day, [budget[day] EXCEPT !.sent = @ + 1])
  PROVE  IsFiniteSet(Counted') /\ TotalSent \in Nat /\ TotalSent' = TotalSent + 1
<1>0. /\ budget \in [Day -> [made : BOOLEAN, sent : Nat, cap : Nat, halted : BOOLEAN]]
      /\ day \in Day
  BY DEF TypeOK
<1> DEFINE n == budget[day].sent
<1>1. n \in Nat /\ \A d \in Day : budget'[d].sent = IF d = day THEN n + 1 ELSE budget[d].sent
  BY <1>0 DEF RowAfter
<1>2. Counted' = Counted \cup {<<day, n + 1>>}
  <2>1. \A d \in Day, i \in Int : <<d, i>> \in Counted <=> i \in 1..budget[d].sent
    BY <1>0 DEF Counted
  <2>2. \A d \in Day, i \in Int : <<d, i>> \in Counted' <=> i \in 1..budget'[d].sent
    BY <1>0, <1>1 DEF Counted
  <2>3. \A x \in Counted \cup Counted' : \E d \in Day, i \in Int : x = <<d, i>>
    BY DEF Counted
  <2>4. \A i \in Int : i \in 1..(n + 1) <=> i \in 1..n \/ i = n + 1
    BY <1>1
  <2> HIDE DEF n
  <2>5. \A d \in Day, i \in Int : <<d, i>> \in Counted' <=> <<d, i>> \in Counted \/ <<d, i>> = <<day, n + 1>>
    BY <1>1, <2>1, <2>2, <2>4 DEF n
  <2> QED
    BY <1>0, <1>1, <2>3, <2>5
<1>3. <<day, n + 1>> \notin Counted
  BY <1>0, <1>1 DEF Counted
<1>4. Cardinality(Counted) \in Nat
  BY FS_CardinalityType
<1>5. IsFiniteSet(Counted') /\ Cardinality(Counted') = Cardinality(Counted) + 1
  BY <1>2, <1>3, FS_AddElement
<1> QED
  BY <1>4, <1>5 DEF TotalSent

\* What a step can do to the sides of the ledger: count a mail, or not.
LEMMA CountedStep ==
  ASSUME TypeOK, Dates, IsFiniteSet(Counted), [Next]_vars, ~ \E k \in Key : RecordSent(k)
  PROVE  IsFiniteSet(Counted') /\ TotalSent \in Nat /\ TotalSent' = TotalSent
<1>0. budget \in [Day -> [made : BOOLEAN, sent : Nat, cap : Nat, halted : BOOLEAN]]
  BY DEF TypeOK
<1>1. TotalSent \in Nat
  BY FS_CardinalityType DEF TotalSent
<1>2. ASSUME NEW k \in Key, Deliver(k) PROVE \A d \in Day : budget'[d].sent = budget[d].sent
  <2> DEFINE c == call[k].day
  <2>1. CASE UNCHANGED budget
    BY <2>1
  <2>2. CASE c \in Day /\ ~budget[c].made /\ RowAfter(c, FreshRow(call[k].cap))
    <3>1. call[k].cap \in Nat
      BY DEF TypeOK, Call
    <3>2. FreshRow(call[k].cap).sent = 0
      BY <3>1, FreshRows
    <3>3. budget[c].sent = 0
      <4>1. ~(budget[c].sent > 0) /\ budget[c].sent \in Nat
        BY <1>0, <2>2 DEF Dates, RowsTillToday
      <4> QED
        BY <4>1
    <3> QED
      BY <1>0, <2>2, <3>2, <3>3 DEF RowAfter
  <2>3. CASE c \in Day /\ RowAfter(c, [budget[c] EXCEPT !.halted = TRUE])
    BY <1>0, <2>3 DEF RowAfter
  <2>4. call[k].pc # "record"
    BY <1>2, DeliverEdges DEF Edge
  <2> QED
    BY <1>2, <2>1, <2>2, <2>3, <2>4, RowWrites DEF Dates
<1>3. ASSUME ~ \E k \in Key : Deliver(k) PROVE UNCHANGED budget
  BY <1>3 DEF Next, Worker, StartBatch, Reap, Crash, NextDay, BusinessHours, vars, Approve, Suppress, Handle,
       FinishTask, FailTask, CliReturns, StartCli, Triage, TriageMessage, TriageSuppress, TriageStop, TriageLead,
       Reply, tableVars, clockVars
<1> QED
  BY <1>1, <1>2, <1>3, CountedKept

\* The calls that wait to be counted.
LEMMA UncountedFacts ==
  /\ Uncounted \in SUBSET Key /\ IsFiniteSet(Uncounted) /\ Cardinality(Uncounted) \in Nat
  /\ Uncounted' \in SUBSET Key /\ IsFiniteSet(Uncounted') /\ Cardinality(Uncounted') \in Nat
<1>1. Uncounted \in SUBSET Key /\ Uncounted' \in SUBSET Key
  BY DEF Uncounted
<1> QED
  BY <1>1, KeysAreFinite

\* Only the INSERT lengthens the list of messages.
LEMMA OrderStep ==
  ASSUME TypeOK, [Next]_vars
  PROVE  \/ sentOrder' = sentOrder
         \/ \E k \in Key : InsertMessage(k) /\ Edge(k, "insert", "mark")
<1>1. ASSUME NEW k \in Key, Deliver(k)
      PROVE  sentOrder' = sentOrder \/ (InsertMessage(k) /\ Edge(k, "insert", "mark"))
  <2>1. InsertMessage(k) /\ message[k[2]] # "none" => sentOrder' = sentOrder
    BY DEF InsertMessage
  <2>2. CASE InsertMessage(k) /\ message[k[2]] = "none"
    <3>1. call[k].pc = "insert"
      BY <2>2 DEF InsertMessage, At
    <3>2. Edge(k, "insert", "mark")
      BY <1>1, <2>2, <3>1, DeliverEdges DEF Edge
    <3> QED
      BY <2>2, <3>2
  <2>3. CASE ~InsertMessage(k)
    BY <1>1, <2>3, DeliverFrame
  <2> QED
    BY <2>1, <2>2, <2>3
<1>2. ASSUME ~ \E k \in Key : Deliver(k) PROVE sentOrder' = sentOrder
  BY <1>2 DEF Next, Worker, StartBatch, Reap, Crash, NextDay, BusinessHours, vars, Approve, Suppress, Handle,
       FinishTask, FailTask, CliReturns, StartCli, Triage, TriageMessage, TriageSuppress, TriageStop, TriageLead,
       Reply, tableVars, clockVars
<1> QED
  BY <1>1, <1>2

\* A crash takes with it no more uncounted mails than a batch holds.
LEMMA CrashTakesABatch ==
  ASSUME TypeOK, FewCalls, Crash
  PROVE  /\ Cardinality(Uncounted') <= Cardinality(Uncounted)
         /\ Cardinality(Uncounted) <= Cardinality(Uncounted') + Batch
<1> DEFINE W == BusyOf("worker")
           P == {"worker"} \X W
<1>1. IsFiniteSet(W) /\ Cardinality(W) \in Nat /\ Cardinality(W) <= Batch /\ Batch \in Nat
  <2>1. W \in SUBSET Lead
    BY DEF BusyOf
  <2> QED
    BY <2>1, LeadsAreFinite, DeliveryAssumption DEF FewCalls
<1>2. IsFiniteSet(P) /\ Cardinality(P) = Cardinality(W)
  <2>1. IsFiniteSet({"worker"}) /\ Cardinality({"worker"}) = 1
    BY FS_Singleton
  <2>2. IsFiniteSet(P) /\ Cardinality(P) = 1 * Cardinality(W)
    BY <1>1, <2>1, FS_Product
  <2> QED
    BY <1>1, <2>2
<1>3. Uncounted' \subseteq Uncounted /\ Uncounted \subseteq Uncounted' \cup P
  <2>1. \A k \in Key : call'[k] = IF k[1] = "worker" THEN NoCall ELSE call[k]
    BY DEF Crash
  <2>2. ASSUME NEW k \in Uncounted' PROVE k \in Uncounted
    BY <2>1, <2>2 DEF Uncounted, NoCall
  <2>3. ASSUME NEW k \in Uncounted PROVE k \in Uncounted' \cup P
    <3>1. k \in Key /\ call[k].pc # "none" /\ k[2] \in Lead /\ k = <<k[1], k[2]>>
      BY KeyParts DEF Uncounted
    <3>2. k[1] = "worker" => k[2] \in W
      BY <3>1 DEF BusyOf, At
    <3>3. k[1] = "worker" => k \in P
      BY <3>1, <3>2
    <3>4. k[1] # "worker" => k \in Uncounted'
      BY <2>1, <2>3, <3>1 DEF Uncounted
    <3> QED
      BY <3>3, <3>4
  <2> QED
    BY <2>2, <2>3
<1> HIDE DEF W, P
<1>4. IsFiniteSet(Uncounted) /\ IsFiniteSet(Uncounted') /\ Cardinality(Uncounted) \in Nat /\ Cardinality(Uncounted') \in Nat
  BY UncountedFacts
<1>5. Cardinality(Uncounted') <= Cardinality(Uncounted)
  BY <1>3, <1>4, FS_Subset
<1>6. /\ IsFiniteSet(Uncounted' \cup P)
      /\ Cardinality(Uncounted' \cup P) = Cardinality(Uncounted') + Cardinality(P) - Cardinality(Uncounted' \cap P)
  BY <1>2, <1>4, FS_Union
<1>7. Cardinality(Uncounted' \cap P) \in Nat
  <2>1. IsFiniteSet(Uncounted' \cap P)
    BY <1>4, FS_Intersection
  <2> QED
    BY <2>1, FS_CardinalityType
<1>8. Cardinality(Uncounted) <= Cardinality(Uncounted' \cup P)
  BY <1>3, <1>6, FS_Subset
<1> QED
  BY <1>1, <1>2, <1>4, <1>5, <1>6, <1>7, <1>8

\* A step that counts nothing, sends nothing and ends no uncounted call.
LEMMA LedgerKept ==
  ASSUME TypeOK, BudgetLedger, TypeOK',
         TotalSent \in Nat, TotalSent' = TotalSent, sentOrder' = sentOrder,
         Cardinality(Uncounted') = Cardinality(Uncounted), faults' = faults, day' = day \/ day' # 1
  PROVE  BudgetLedger'
<1>1. Cardinality(Uncounted) \in Nat
  BY UncountedFacts
<1> QED
  BY <1>1 DEF BudgetLedger

\* The ledger holds after every step: the INSERT lengthens the list of messages
\* and opens a call that is to be counted, record_sent turns the one into the other.
LEMMA LedgerStep ==
  ASSUME TypeOK, Dates, FewCalls, LedgerInv, [Next]_vars
  PROVE  LedgerInv'
<1>0. /\ TypeOK' /\ SendersHaveRow' /\ day \in Nat /\ day' \in Nat /\ day <= day'
      /\ sentOrder \in Seq(Lead) /\ sentOrder' \in Seq(Lead) /\ Len(sentOrder) \in Nat
      /\ faults \in Nat /\ Batch \in Nat
  <2>1. TypeOK' /\ SendersHaveRow' /\ Grows
    BY TypesStep, SendersStep, TablesGrow DEF LedgerInv, Dates
  <2>2. sentOrder \in Seq(Lead) /\ sentOrder' \in Seq(Lead)
    BY <2>1 DEF TypeOK
  <2>3. Len(sentOrder) \in Nat
    BY <2>2
  <2>4. day \in Nat /\ day' \in Nat
    BY <2>1, DaysAreFinite DEF TypeOK
  <2>5. faults \in 0..MaxFaults
    BY DEF TypeOK
  <2>6. faults \in Nat /\ Batch \in Nat
    BY <2>5, DeliveryAssumption
  <2>7. day <= day'
    BY <2>1 DEF Grows
  <2> QED
    BY <2>1, <2>2, <2>3, <2>4, <2>6, <2>7
<1>1. /\ IsFiniteSet(Uncounted) /\ Cardinality(Uncounted) \in Nat
      /\ IsFiniteSet(Uncounted') /\ Cardinality(Uncounted') \in Nat
  BY UncountedFacts
<1>2. TotalSent \in Nat /\ BudgetLedger /\ IsFiniteSet(Counted)
  BY FS_CardinalityType DEF TotalSent, LedgerInv
<1>3. ASSUME NEW k \in Key, Deliver(k), RecordSent(k)
      PROVE  LedgerInv'
  <2>0. sentOrder' = sentOrder /\ faults' = faults /\ day' = day /\ call[k].pc = "record" /\ call'[k].pc = "return"
        /\ \A o \in Key \ {k} : call'[o] = call[o]
    <3>1. sentOrder' = sentOrder /\ call[k].pc = "record"
      BY <1>3 DEF RecordSent, At
    <3>2. faults' = faults /\ day' = day
      BY <1>3, DeliverFrame
    <3>3. Edge(k, "record", "return")
      BY <1>3, <3>1, DeliverEdges DEF Edge
    <3> QED
      BY <3>1, <3>2, <3>3 DEF Edge, Moved
  <2>1. Uncounted' = Uncounted \ {k} /\ k \in Uncounted
    BY <2>0 DEF Uncounted
  <2>2. Cardinality(Uncounted') = Cardinality(Uncounted) - 1
    BY <1>1, <2>1, FS_RemoveElement
  <2>3. CASE budget[day].made
    <3>1. RowAfter(day, [budget[day] EXCEPT !.sent = @ + 1])
      BY <1>3, <2>3 DEF RecordSent, Today, RowAfter, TypeOK
    <3>2. IsFiniteSet(Counted') /\ TotalSent' = TotalSent + 1
      BY <1>2, <3>1, CountedOnce
    <3> HIDE DEF Uncounted, TotalSent
    <3>3. BudgetLedger'
      BY <1>0, <1>1, <1>2, <2>0, <2>2, <3>2 DEF BudgetLedger
    <3> QED
      BY <1>0, <3>2, <3>3 DEF LedgerInv
  <2>4. CASE ~budget[day].made
    <3>1. budget' = budget
      BY <1>3, <2>4 DEF RecordSent, Today
    <3>2. Counted' = Counted /\ TotalSent' = TotalSent
      BY <3>1, CountedKept
    <3>3. day # 1
      <4>1. call[k].day \in 1..day /\ budget[call[k].day].made
        BY <2>0 DEF LedgerInv, SendersHaveRow
      <4> QED
        BY <2>4, <4>1
    <3>4. BudgetLedger'
      BY <1>0, <1>1, <1>2, <2>0, <2>2, <3>2, <3>3 DEF BudgetLedger
    <3> QED
      BY <1>0, <1>2, <3>2, <3>4 DEF LedgerInv
  <2> QED
    BY <2>3, <2>4
<1>4. ASSUME ~ \E k \in Key : RecordSent(k)
      PROVE  IsFiniteSet(Counted') /\ TotalSent' = TotalSent
  BY <1>2, <1>4, CountedStep
<1>5. ASSUME NEW k \in Key, InsertMessage(k), Edge(k, "insert", "mark")
      PROVE  LedgerInv'
  <2>1. message[k[2]] = "none"
    BY <1>5 DEF InsertMessage, Edge, Moved, TypeOK, Goto, Call
  <2>2. Len(sentOrder') = Len(sentOrder) + 1 /\ day' = day /\ faults' = faults
    BY <1>0, <1>5, <2>1, KeyParts DEF InsertMessage, clockVars
  <2>3. Uncounted' = Uncounted \cup {k} /\ k \notin Uncounted
    BY <1>5 DEF Edge, Moved, Uncounted
  <2>4. Cardinality(Uncounted') = Cardinality(Uncounted) + 1
    BY <1>1, <2>3, FS_AddElement
  <2>5. IsFiniteSet(Counted') /\ TotalSent' = TotalSent
    <3>1. UNCHANGED budget
      BY <1>5 DEF InsertMessage
    <3> QED
      BY <1>2, <3>1, CountedKept
  <2>6. BudgetLedger'
    BY <1>0, <1>1, <1>2, <2>2, <2>4, <2>5 DEF BudgetLedger
  <2> QED
    BY <1>0, <2>5, <2>6 DEF LedgerInv
<1>6. CASE Crash
  <2>1. /\ Cardinality(Uncounted') <= Cardinality(Uncounted)
        /\ Cardinality(Uncounted) <= Cardinality(Uncounted') + Batch
    BY <1>6, CrashTakesABatch
  <2>2. sentOrder' = sentOrder /\ faults' = faults + 1 /\ day' = day /\ UNCHANGED budget
    BY <1>6 DEF Crash, tableVars, clockVars
  <2>3. IsFiniteSet(Counted') /\ TotalSent' = TotalSent
    BY <1>2, <2>2, CountedKept
  <2>4. Batch * faults' = Batch * faults + Batch /\ Batch * faults \in Nat
    BY <1>0, <2>2
  <2> DEFINE late == Batch * faults
  <2>5. late' = late + Batch /\ late \in Nat
    BY <2>4
  <2>6. /\ TotalSent + Cardinality(Uncounted) <= Len(sentOrder)
        /\ day = 1 => Len(sentOrder) <= TotalSent + Cardinality(Uncounted) + late
    BY <1>2 DEF BudgetLedger
  <2> HIDE DEF late
  <2>7. /\ TotalSent' + Cardinality(Uncounted') <= Len(sentOrder')
        /\ day' = 1 => Len(sentOrder') <= TotalSent' + Cardinality(Uncounted') + late'
    BY <1>0, <1>1, <1>2, <2>1, <2>2, <2>3, <2>5, <2>6
  <2>8. BudgetLedger'
    BY <2>7 DEF BudgetLedger, late
  <2> QED
    BY <1>0, <2>3, <2>8 DEF LedgerInv
<1>7. ASSUME ~Crash, ~(\E k \in Key : RecordSent(k)), ~(\E k \in Key : InsertMessage(k) /\ Edge(k, "insert", "mark"))
      PROVE  LedgerInv'
  <2>1. sentOrder' = sentOrder /\ faults' = faults
    BY <1>7, OrderStep, FaultsStep
  <2>2. ASSUME NEW k \in Key PROVE k \in Uncounted' <=> k \in Uncounted
    <3>1. CASE \E o \in Key : Deliver(o)
      <4>1. PICK o \in Key : Deliver(o)
        BY <3>1
      <4>2. CASE o = k
        <5>1. ~RecordSent(k) /\ ~(InsertMessage(k) /\ Edge(k, "insert", "mark")) /\ Deliver(k)
          BY <1>7, <4>1, <4>2
        <5> QED
          BY <5>1, DeliverEdges DEF Edge, Moved, Uncounted
      <4>3. CASE o # k
        <5>1. call'[k] = call[k]
          BY <4>1, <4>3, DeliverEdges DEF Edge, Moved
        <5> QED
          BY <5>1 DEF Uncounted
      <4> QED
        BY <4>2, <4>3
    <3>2. CASE ~ \E o \in Key : Deliver(o)
      <4>1. k[2] \in Lead /\ k = <<k[1], k[2]>> /\ call \in [Key -> Call]
        BY KeyParts DEF TypeOK
      <4>2. ASSUME NEW l \in Lead, Handle(l) \/ CliReturns(l)
            PROVE  call'[k] = call[k] \/ call[k].pc \in {"return", "raise"}
        BY <4>1, <4>2 DEF Handle, FinishTask, FailTask, CliReturns, At
      <4>3. ASSUME NEW l \in Lead, StartCli(l)
            PROVE  call'[k] = call[k] \/ call[k].pc = "none"
        BY <4>1, <4>3 DEF StartCli, Busy, At
      <4>4. ASSUME NEW S \in SUBSET Lead, StartBatch(S)
            PROVE  call'[k] = call[k] \/ call[k].pc = "none"
        BY <4>1, <4>4 DEF StartBatch, Busy, At
      <4>5. ASSUME NEW l \in Lead, Approve(l) \/ Suppress(l) \/ Triage(l) \/ \E kind \in Kind : Reply(l, kind)
            PROVE  call'[k] = call[k]
        BY <4>5 DEF Approve, Suppress, Triage, TriageMessage, TriageSuppress, TriageStop, TriageLead, Reply
      <4>6. ASSUME Reap \/ NextDay \/ BusinessHours \/ UNCHANGED vars
            PROVE  call'[k] = call[k]
        BY <4>6 DEF Reap, NextDay, BusinessHours, vars
      <4>7. call'[k] = call[k] \/ call[k].pc \in {"none", "return", "raise"}
        BY <1>7, <3>2, <4>2, <4>3, <4>4, <4>5, <4>6 DEF Next, Worker
      <4>8. NewCall(k[2]).pc = "suppression" /\ NoCall.pc = "none"
        BY <4>1, Beginning
      <4>9. call'[k] = call[k] \/ call'[k].pc \in {"none", "suppression"}
        BY <3>2, <4>8, EachKey DEF KeyStep
      <4> QED
        BY <4>7, <4>9 DEF Uncounted
    <3> QED
      BY <3>1, <3>2
  <2>3. Uncounted' = Uncounted
    BY <2>2 DEF Uncounted
  <2>4. IsFiniteSet(Counted') /\ TotalSent' = TotalSent
    BY <1>4, <1>7
  <2>5. day' = day \/ day' # 1
    BY <1>0, DaysAreFinite DEF TypeOK, Day
  <2>6. BudgetLedger'
    BY <1>0, <1>2, <2>1, <2>3, <2>4, <2>5, LedgerKept
  <2> QED
    BY <1>0, <2>4, <2>6 DEF LedgerInv
<1> QED
  <2>1. ASSUME NEW k \in Key, RecordSent(k) PROVE Deliver(k)
    BY <2>1 DEF Deliver
  <2> QED
    BY <1>3, <1>5, <1>6, <1>7, <2>1

\* At first nothing is counted and nothing sent.
LEMMA LedgerInit == Init => LedgerInv
<1> SUFFICES ASSUME Init PROVE LedgerInv
  OBVIOUS
<1>1. (\A k \in Key : call[k].pc = "none") /\ (\A d \in Day : budget[d].sent = 0)
  BY DEF Init, NoCall, NoRow
<1>2. Counted = {} /\ Uncounted = {}
  BY <1>1 DEF Counted, Uncounted
<1>3. IsFiniteSet(Counted) /\ TotalSent = 0 /\ Cardinality(Uncounted) = 0
  BY <1>2, FS_EmptySet DEF TotalSent
<1>4. Len(sentOrder) = 0 /\ faults = 0 /\ Batch \in Nat
  BY DeliveryAssumption DEF Init
<1> QED
  BY <1>1, <1>3, <1>4 DEF LedgerInv, SendersHaveRow, BudgetLedger

\* send_budget counts no mail twice, whatever crashes and midnights fall between
\* the INSERT and record_sent; on the first day it misses no more than a batch for
\* each crash.
THEOREM LedgerTheorem == Spec => []BudgetLedger
<1>1. Init => FewCalls /\ LedgerInv
  BY CapInit, LedgerInit
<1>2. TypeOK /\ Dates /\ FewCalls /\ LedgerInv /\ [Next]_vars => FewCalls' /\ LedgerInv'
  BY FewStep, LedgerStep
<1>3. LedgerInv => BudgetLedger
  BY DEF LedgerInv
<1> QED
  BY <1>1, <1>2, <1>3, DatesHold, PTL DEF Spec
=============================================================================
