--------------------------- MODULE TaskQueueProofs ---------------------------
(***************************************************************************)
(* Proofs about TaskQueue, for any number of tasks and workers, any batch   *)
(* size, attempt limit and number of faults.  What the counters of a row    *)
(* tell of its past is proved whatever fails; who owns a row, and that the  *)
(* table implements WorkQueue, as long as no database statement fails: "db" *)
(* is not in Fault.                                                         *)
(***************************************************************************)
EXTENDS TaskQueue, FiniteSetTheorems, TLAPS

-----------------------------------------------------------------------------
(* Types *)

\* TypeOK holds initially and is preserved by every step, with any fault.
LEMMA TypeInit == Init => TypeOK
BY TaskQueueAssumption DEF Init, TypeOK, Status, Phase, Run

LEMMA TypeStep == TypeOK /\ [Next]_vars => TypeOK'
<1> SUFFICES ASSUME TypeOK, [Next]_vars PROVE TypeOK'
  OBVIOUS
<1> USE TaskQueueAssumption
<1>1. ASSUME NEW t \in Task, Enqueue(t) \/ BecomeDue(t) \/ BecomeStale(t)
      PROVE  TypeOK'
  BY <1>1 DEF TypeOK, Enqueue, BecomeDue, BecomeStale, Set, Status, workerVars, historyVars
<1>2. ASSUME NEW S \in SUBSET Sequence, StopSequence(S) PROVE TypeOK'
  BY <1>2 DEF TypeOK, StopSequence, Set, Status, workerVars, historyVars
<1>3. ASSUME NEW w \in Worker, Tick(w) PROVE TypeOK'
  <2>1. CASE Startup(w)
    BY <2>1 DEF TypeOK, Startup, Phase, rowVars, historyVars
  <2>2. CASE Reap(w)
    BY <2>2 DEF TypeOK, Reap, Set, Status, Phase, historyVars
  <2>3. CASE SelectForUpdate(w)
    <3>1. PICK P \in Heads(Claimable) : locked' = [locked EXCEPT ![w] = P]
      BY <2>3 DEF SelectForUpdate
    <3>2. P \subseteq Task
      BY <3>1 DEF Heads, Claimable, TypeOK
    <3> QED
      BY <2>3, <3>1, <3>2 DEF TypeOK, SelectForUpdate, Phase, rowVars, historyVars
  <2>4. CASE EndTick(w)
    BY <2>4 DEF TypeOK, EndTick, Phase, rowVars, historyVars
  <2>5. CASE Claim(w)
    <3>1. \A t \in locked[w] : NewRun(t, w) \in Run
      BY DEF NewRun, Run, TypeOK
    <3>2. runs' \subseteq Run
      BY <2>5, <3>1 DEF Claim, TypeOK
    <3> QED
      BY <2>5, <3>2 DEF TypeOK, Claim, Set, Status, Phase
  <2>6. CASE Gathered(w)
    BY <2>6 DEF TypeOK, Gathered, Phase, rowVars, historyVars
  <2> QED
    BY <1>3, <2>1, <2>2, <2>3, <2>4, <2>5, <2>6 DEF Tick
<1>4. ASSUME NEW w \in Worker, Crash(w) \/ Cancel(w) PROVE TypeOK'
  BY <1>4 DEF TypeOK, Crash, Cancel, Strike, Phase, rowVars, historyVars
<1>5. ASSUME NEW r \in runs, RunStep(r) \/ CompleteRaises(r) \/ FailRaises(r)
      PROVE  TypeOK'
  <2> r \in Run
    BY DEF TypeOK
  <2>1. CASE HandlerReturns(r) \/ HandlerRaises(r) \/ ReadAttempts(r)
    <3>1. /\ At(r, "complete") \in Run /\ At(r, "read") \in Run
          /\ [r EXCEPT !.pc = "write", !.read = attempts[r.task]] \in Run
      BY DEF At, Run, TypeOK
    <3>2. runs' \subseteq Run
      BY <2>1, <3>1 DEF TypeOK, HandlerReturns, HandlerRaises, ReadAttempts, Advance
    <3>3. returns' \in [Task -> Nat]
      BY <2>1 DEF TypeOK, HandlerReturns, HandlerRaises, ReadAttempts, rowVars, historyVars
    <3> QED
      BY <2>1, <3>2, <3>3 DEF TypeOK, HandlerReturns, HandlerRaises, ReadAttempts,
                              rowVars, historyVars
  <2>2. CASE CompleteTask(r) \/ CompleteRaises(r)
    BY <2>2 DEF TypeOK, CompleteTask, CompleteRaises, MarkDone, Strike, Advance, At, Run,
                Set, Status, historyVars
  <2>3. MarkFailed(r) => /\ status' \in [Task -> Status] /\ attempts' \in [Task -> Nat]
                         /\ due' \subseteq Task /\ stale' \subseteq Task
    BY DEF TypeOK, MarkFailed, AttemptsNow, Run, Set, Status
  <2>4. CASE FailTask(r)
    BY <2>3, <2>4 DEF TypeOK, FailTask, Run
  <2>5. CASE FailRaises(r)
    <3>1. \A q \in runs : [q EXCEPT !.orphan = TRUE] \in Run
      BY DEF TypeOK, Run
    <3>2. runs' \subseteq Run
      BY <2>5, <3>1 DEF FailRaises, TypeOK
    <3>3. phase' \in [Worker -> Phase]
      BY <2>5 DEF FailRaises, TypeOK, Run, Phase
    <3> QED
      BY <2>3, <2>5, <3>2, <3>3 DEF TypeOK, FailRaises, Strike, rowVars, historyVars
  <2> QED
    BY <1>5, <2>1, <2>2, <2>4, <2>5 DEF RunStep
<1>6. CASE UNCHANGED vars
  BY <1>6 DEF TypeOK, vars, rowVars, workerVars, historyVars
<1> QED
  BY <1>1, <1>2, <1>3, <1>4, <1>5, <1>6 DEF Next

\* Every variable keeps its type, whatever faults occur.
THEOREM TypeCorrect == Spec => []TypeOK
BY TypeInit, TypeStep, PTL DEF Spec

-----------------------------------------------------------------------------
(* What no fault breaks *)

\* A run is told by its row and by the claim that started it.
RunsAreTold ==
  /\ \A r \in runs : r.claim \in 1..claims[r.task]
  /\ \A r, q \in runs : r.task = q.task /\ r.claim = q.claim => r = q

\* A run is an orphan or the only one its tick, which is still gathering, has of
\* the row.
TicksGather ==
  /\ \A r \in runs : ~r.orphan => phase[r.worker] = "gathering"
  /\ \A r, q \in runs : /\ ~r.orphan /\ ~q.orphan
                        /\ r.worker = q.worker /\ r.task = q.task
                        => r = q

\* Only a claim no tick watches grows stale.
StaleIsUnwatched == \A t \in stale : status[t] = "claimed" /\ \A r \in RunsOf(t) : r.orphan

\* A run has a row, and is retryable exactly when its kind has a handler.
RunsAreKnown ==
  \A r \in runs : (r.retryable <=> r.task \in Handled) /\ status[r.task] # "absent"

\* What the other invariants rest on, whatever faults there are.
Shape ==
  /\ TypeOK
  /\ RunsAreTold
  /\ TicksGather
  /\ StaleIsUnwatched
  /\ RunsAreKnown
  /\ ClaimsAreDisjoint

LEMMA ShapeInit == Init => Shape
BY TypeInit DEF Init, Shape, RunsAreTold, TicksGather, StaleIsUnwatched, RunsAreKnown, ClaimsAreDisjoint

\* q is what has become of the run r.
Continues(q, r) ==
  /\ q.task = r.task /\ q.worker = r.worker /\ q.claim = r.claim
  /\ q.retryable = r.retryable
  /\ r.orphan => q.orphan

\* A step that starts no run, locks no row and makes no claim stale.
LEMMA ShapeKept ==
  ASSUME Shape, TypeOK', claims' = claims,
         \A q \in runs' : \E r \in runs : Continues(q, r),
         \A q, p \in runs' : q.task = p.task /\ q.claim = p.claim => q = p,
         \A q \in runs' : ~q.orphan => phase'[q.worker] = "gathering",
         \A t \in Task : status[t] # "absent" => status'[t] # "absent",
         \A t \in stale' : t \in stale /\ status'[t] = status[t],
         \A w \in Worker : /\ locked'[w] \subseteq locked[w]
                           /\ \A t \in locked'[w] : status'[t] = status[t]
  PROVE  Shape'
<1> USE DEF Shape
<1>1. RunsAreTold'
  BY DEF RunsAreTold, Continues
<1>2. TicksGather'
  <2>1. ASSUME NEW q \in runs', NEW p \in runs', ~q.orphan, ~p.orphan, q.worker = p.worker, q.task = p.task
        PROVE  q = p
    <3>1. PICK r \in runs : Continues(q, r)
      OBVIOUS
    <3>2. PICK s \in runs : Continues(p, s)
      OBVIOUS
    <3>3. ~r.orphan /\ ~s.orphan
      BY <2>1, <3>1, <3>2, Zenon DEF Continues
    <3>4. r.worker = s.worker /\ r.task = s.task
      BY <2>1, <3>1, <3>2 DEF Continues
    <3>5. r = s
      BY <3>3, <3>4 DEF TicksGather
    <3> QED
      BY <2>1, <3>1, <3>2, <3>5 DEF Continues
  <2> QED
    BY <2>1 DEF TicksGather
<1>3. StaleIsUnwatched'
  BY DEF StaleIsUnwatched, RunsOf, Continues
<1>4. RunsAreKnown'
  <2>1. \A r \in runs : r.task \in Task
    BY DEF TypeOK, Run
  <2> QED
    BY <2>1 DEF RunsAreKnown, Continues
<1>5. ClaimsAreDisjoint'
  BY DEF ClaimsAreDisjoint
<1> QED
  BY <1>1, <1>2, <1>3, <1>4, <1>5

\* The run r becomes next; the other runs stay as they are.
LEMMA Advances ==
  ASSUME Shape, NEW r \in runs, NEW next, Continues(next, r), next.orphan = r.orphan,
         runs' = (runs \ {r}) \cup {next}, phase' = phase
  PROVE  /\ \A q \in runs' : \E p \in runs : Continues(q, p)
         /\ \A q, p \in runs' : q.task = p.task /\ q.claim = p.claim => q = p
         /\ \A q \in runs' : ~q.orphan => phase'[q.worker] = "gathering"
<1>1. \A q \in runs : Continues(q, q)
  BY DEF Continues
<1>2. \A q, p \in runs' : q.task = p.task /\ q.claim = p.claim => q = p
  BY DEF Shape, RunsAreTold, Continues
<1> QED
  BY <1>1, <1>2 DEF Shape, TicksGather, Continues

\* Runs can only disappear.
LEMMA Vanishes ==
  ASSUME Shape, runs' \subseteq runs,
         \A q \in runs' : ~q.orphan => phase'[q.worker] = phase[q.worker]
  PROVE  /\ \A q \in runs' : \E p \in runs : Continues(q, p)
         /\ \A q, p \in runs' : q.task = p.task /\ q.claim = p.claim => q = p
         /\ \A q \in runs' : ~q.orphan => phase'[q.worker] = "gathering"
<1>1. \A q \in runs : Continues(q, q)
  BY DEF Continues
<1> QED
  BY <1>1 DEF Shape, RunsAreTold, TicksGather

\* Where a run's own step leads it.
LEMMA NextRun ==
  ASSUME TypeOK, NEW r \in runs
  PROVE  /\ r \in Run /\ r.task \in Task /\ r.worker \in Worker
         /\ \A pc : Continues(At(r, pc), r) /\ At(r, pc).orphan = r.orphan /\ At(r, pc).pc = pc
         /\ LET next == [r EXCEPT !.pc = "write", !.read = attempts[r.task]]
            IN Continues(next, r) /\ next.orphan = r.orphan /\ next.pc = "write"
         /\ LET next == [r EXCEPT !.orphan = TRUE]
            IN Continues(next, r) /\ next.orphan /\ next.pc = r.pc
BY DEF TypeOK, Run, At, Continues

\* What the runs become when fail_task of r raises.
LEMMA Orphans ==
  ASSUME Shape, NEW r \in runs, FailRaises(r)
  PROVE  /\ \A q \in runs' : \E p \in runs : p # r /\ Continues(q, p) /\ q.pc = p.pc
         /\ \A q, p \in runs' : q.task = p.task /\ q.claim = p.claim => q = p
         /\ \A q \in runs' : ~q.orphan => phase'[q.worker] = "gathering"
<1> USE DEF Shape
<1>1. \A q \in runs : Continues(q, q)
  BY DEF Continues
<1>2. CASE r.orphan
  BY <1>1, <1>2 DEF FailRaises, RunsAreTold, TicksGather
<1>3. CASE ~r.orphan
  <2> DEFINE Lost(q) == [q EXCEPT !.orphan = TRUE]
  <2>1. /\ runs' = {IF q.worker = r.worker THEN Lost(q) ELSE q : q \in runs \ {r}}
        /\ phase' = [phase EXCEPT ![r.worker] = "idle"]
    BY <1>3 DEF FailRaises
  <2>2. \A q \in runs : Continues(Lost(q), q) /\ Lost(q).orphan /\ Lost(q).pc = q.pc
    BY NextRun
  <2> HIDE DEF Lost
  <2>3. ASSUME NEW q \in runs'
        PROVE  \E p \in runs : /\ p # r /\ Continues(q, p) /\ q.pc = p.pc
                               /\ q = IF p.worker = r.worker THEN Lost(p) ELSE p
    BY <1>1, <2>1, <2>2
  <2>4. \A q, p \in runs' : q.task = p.task /\ q.claim = p.claim => q = p
    BY <2>3 DEF RunsAreTold, Continues
  <2>5. ASSUME NEW q \in runs', ~q.orphan PROVE phase'[q.worker] = "gathering"
    <3>1. PICK p \in runs : Continues(q, p) /\ q = IF p.worker = r.worker THEN Lost(p) ELSE p
      BY <2>3
    <3>2. q = p /\ p.worker # r.worker /\ p.worker \in Worker
      BY <2>2, <2>5, <3>1, NextRun
    <3> QED
      BY <2>1, <2>5, <3>2 DEF TicksGather, TypeOK
  <2> QED
    BY <2>3, <2>4, <2>5
<1> QED
  BY <1>2, <1>3

\* The UPDATE of a finished or failed run leaves the locked rows alone.
LEMMA WritesItsRow ==
  ASSUME Shape, NEW r \in runs, NEW s, s # "absent", r.task \notin Locked,
         Set({r.task}, s), stale' = stale \ {r.task}, locked' = locked
  PROVE  /\ \A t \in Task : status[t] # "absent" => status'[t] # "absent"
         /\ \A t \in stale' : t \in stale /\ status'[t] = status[t]
         /\ \A w \in Worker : /\ locked'[w] \subseteq locked[w]
                              /\ \A t \in locked'[w] : status'[t] = status[t]
<1>1. \A t \in Task : status'[t] = IF t = r.task THEN s ELSE status[t]
  BY DEF Set
<1>2. \A w \in Worker : r.task \notin locked[w]
  BY DEF Locked
<1>3. stale \subseteq Task /\ \A w \in Worker : locked[w] \subseteq Task
  BY DEF Shape, TypeOK
<1> QED
  BY <1>1, <1>2, <1>3

LEMMA ShapeStep == Shape /\ [Next]_vars => Shape'
<1> SUFFICES ASSUME Shape, [Next]_vars PROVE Shape'
  OBVIOUS
<1> USE DEF Shape
<1>0. TypeOK'
  BY TypeStep
<1>1. \A t \in stale : status[t] = "claimed"
  BY DEF StaleIsUnwatched
<1>2. \A w \in Worker : \A t \in locked[w] : status[t] = "pending"
  BY DEF ClaimsAreDisjoint
<1>3. stale \subseteq Task /\ \A w \in Worker : locked[w] \subseteq Task
  BY DEF TypeOK
<1>4. ASSUME NEW t \in Task, Enqueue(t) PROVE Shape'
  <2>1. \A u \in Task : status[u] # "absent" => status'[u] = status[u]
    BY <1>4 DEF Enqueue, Set
  <2> QED
    BY <1>0, <1>1, <1>2, <1>3, <1>4, <2>1, Vanishes, ShapeKept DEF Enqueue, workerVars, historyVars
<1>5. ASSUME NEW t \in Task, BecomeDue(t) PROVE Shape'
  BY <1>0, <1>5, Vanishes, ShapeKept DEF BecomeDue, workerVars, historyVars
<1>6. ASSUME NEW t \in Task, BecomeStale(t) PROVE Shape'
  <2>1. StaleIsUnwatched'
    BY <1>6 DEF BecomeStale, workerVars, StaleIsUnwatched, RunsOf
  <2> QED
    BY <1>0, <1>6, <2>1
    DEF BecomeStale, workerVars, historyVars, RunsAreTold, TicksGather, RunsAreKnown, ClaimsAreDisjoint
<1>7. ASSUME NEW S \in SUBSET Sequence, StopSequence(S) PROVE Shape'
  <2>1. /\ \A u \in Task : status'[u] = IF u \in S THEN "dead" ELSE status[u]
        /\ \A u \in S : status[u] = "pending" /\ \A w \in Worker : u \notin locked[w]
    BY <1>7 DEF StopSequence, Set, Locked
  <2> QED
    BY <1>0, <1>1, <1>2, <1>3, <1>7, <2>1, Vanishes, ShapeKept DEF StopSequence, workerVars, historyVars
<1>8. ASSUME NEW w \in Worker, Startup(w) \/ EndTick(w) \/ Gathered(w) PROVE Shape'
  <2>1. runs' = runs /\ \A q \in runs' : ~q.orphan => phase'[q.worker] = phase[q.worker]
    <3>1. \A q \in runs : q.worker \in Worker /\ (~q.orphan => phase[q.worker] = "gathering")
      BY DEF TypeOK, Run, TicksGather
    <3>2. Gathered(w) => \A q \in runs : ~q.orphan => q.worker # w
      BY DEF Gathered, TickRuns
    <3>3. \A q \in runs : ~q.orphan => q.worker # w
      BY <1>8, <3>1, <3>2 DEF Startup, EndTick
    <3> QED
      BY <1>8, <3>1, <3>3 DEF Startup, EndTick, Gathered, TypeOK
  <2> QED
    BY <1>0, <1>8, <2>1, Vanishes, ShapeKept DEF Startup, EndTick, Gathered, rowVars, historyVars
<1>9. ASSUME NEW w \in Worker, Reap(w) PROVE Shape'
  <2>1. \A u \in Task : status'[u] = IF u \in stale THEN "pending" ELSE status[u]
    BY <1>9 DEF Reap, Set
  <2>2. runs' = runs /\ \A q \in runs' : ~q.orphan => phase'[q.worker] = phase[q.worker]
    BY <1>9 DEF Reap, TicksGather, TypeOK, Run
  <2> QED
    BY <1>0, <1>1, <1>2, <1>3, <1>9, <2>1, <2>2, Vanishes, ShapeKept DEF Reap, historyVars
<1>10. ASSUME NEW w \in Worker, SelectForUpdate(w) PROVE Shape'
  <2>1. PICK P \in Heads(Claimable) : locked' = [locked EXCEPT ![w] = P]
    BY <1>10 DEF SelectForUpdate
  <2>2. P \subseteq Claimable
    BY DEF Heads
  <2>3. \A t \in P : status[t] = "pending" /\ \A v \in Worker : t \notin locked[v]
    BY <2>2 DEF Claimable, Locked
  <2>4. ClaimsAreDisjoint'
    BY <1>10, <2>1, <2>3 DEF SelectForUpdate, rowVars, ClaimsAreDisjoint, TypeOK
  <2>5. TicksGather'
    BY <1>10 DEF SelectForUpdate, TicksGather, TypeOK, Run
  <2> QED
    BY <1>0, <1>10, <2>4, <2>5
    DEF SelectForUpdate, rowVars, historyVars, RunsAreTold, StaleIsUnwatched, RunsAreKnown, RunsOf
<1>11. ASSUME NEW w \in Worker, Claim(w) PROVE Shape'
  <2>1. /\ runs' = runs \cup {NewRun(t, w) : t \in locked[w]}
        /\ \A t \in Task : claims'[t] = IF t \in locked[w] THEN claims[t] + 1 ELSE claims[t]
        /\ \A t \in Task : status'[t] = IF t \in locked[w] THEN "claimed" ELSE status[t]
        /\ \A v \in Worker : locked'[v] = IF v = w THEN {} ELSE locked[v]
        /\ \A v \in Worker : phase'[v] = IF v = w THEN "gathering" ELSE phase[v]
        /\ phase[w] = "locking" /\ stale' = stale
    BY <1>11 DEF Claim, Set, TypeOK
  <2>2. \A t \in locked[w] : /\ NewRun(t, w).task = t /\ NewRun(t, w).worker = w
                             /\ NewRun(t, w).claim = claims[t] + 1
                             /\ NewRun(t, w).retryable <=> t \in Handled
    BY DEF NewRun
  <2>3. \A r \in runs : r.task \in Task /\ r.worker \in Worker
    BY DEF TypeOK, Run
  <2>4. \A t \in Task : claims[t] \in Nat
    BY DEF TypeOK
  <2>5. RunsAreTold'
    BY <1>3, <2>1, <2>2, <2>3, <2>4 DEF RunsAreTold
  <2>6. TicksGather'
    BY <2>1, <2>2, <2>3 DEF TicksGather
  <2>7. StaleIsUnwatched'
    <3>1. ASSUME NEW t \in stale, NEW r \in runs', r.task = t PROVE r \in runs
      BY <1>1, <1>2, <2>1, <2>2, <3>1
    <3> QED
      BY <1>1, <1>2, <1>3, <2>1, <3>1 DEF StaleIsUnwatched, RunsOf
  <2>8. RunsAreKnown'
    BY <1>3, <2>1, <2>2, <2>3 DEF RunsAreKnown
  <2>9. ClaimsAreDisjoint'
    BY <1>3, <2>1 DEF ClaimsAreDisjoint
  <2> QED
    BY <1>0, <2>5, <2>6, <2>7, <2>8, <2>9
<1>12. ASSUME NEW r \in runs, HandlerReturns(r) \/ HandlerRaises(r) \/ ReadAttempts(r) PROVE Shape'
  <2>1. PICK next : Continues(next, r) /\ next.orphan = r.orphan /\ runs' = (runs \ {r}) \cup {next}
    <3>1. \/ \E pc : Advance(r, At(r, pc))
          \/ Advance(r, [r EXCEPT !.pc = "write", !.read = attempts[r.task]])
      BY <1>12 DEF HandlerReturns, HandlerRaises, ReadAttempts
    <3>2. CASE \E pc : Advance(r, At(r, pc))
      BY <1>0, <3>2, NextRun DEF Advance
    <3>3. CASE Advance(r, [r EXCEPT !.pc = "write", !.read = attempts[r.task]])
      BY <1>0, <3>3, NextRun DEF Advance
    <3> QED
      BY <3>1, <3>2, <3>3
  <2> QED
    BY <1>0, <1>12, <2>1, Advances, ShapeKept
    DEF HandlerReturns, HandlerRaises, ReadAttempts, rowVars, historyVars
<1>13. ASSUME NEW r \in runs, CompleteTask(r) PROVE Shape'
  <2>1. r.task \notin Locked /\ Set({r.task}, "done") /\ stale' = stale \ {r.task} /\ locked' = locked
    BY <1>13 DEF CompleteTask, MarkDone
  <2>2. /\ \A t \in Task : status[t] # "absent" => status'[t] # "absent"
        /\ \A t \in stale' : t \in stale /\ status'[t] = status[t]
        /\ \A w \in Worker : /\ locked'[w] \subseteq locked[w]
                             /\ \A t \in locked'[w] : status'[t] = status[t]
    BY <2>1, WritesItsRow
  <2> QED
    BY <1>0, <1>13, <2>2, Vanishes, ShapeKept DEF CompleteTask, historyVars
<1>14. ASSUME NEW r \in runs, FailTask(r) PROVE Shape'
  <2>1. PICK s : /\ s # "absent" /\ Set({r.task}, s)
                 /\ r.task \notin Locked /\ stale' = stale \ {r.task} /\ locked' = locked
    BY <1>14 DEF FailTask, MarkFailed
  <2>2. /\ \A t \in Task : status[t] # "absent" => status'[t] # "absent"
        /\ \A t \in stale' : t \in stale /\ status'[t] = status[t]
        /\ \A w \in Worker : /\ locked'[w] \subseteq locked[w]
                             /\ \A t \in locked'[w] : status'[t] = status[t]
    BY <2>1, WritesItsRow
  <2> QED
    BY <1>0, <1>14, <2>2, Vanishes, ShapeKept DEF FailTask
<1>15. ASSUME NEW r \in runs, CompleteRaises(r) PROVE Shape'
  <2>1. /\ \A t \in Task : status[t] # "absent" => status'[t] # "absent"
        /\ \A t \in stale' : t \in stale /\ status'[t] = status[t]
        /\ \A w \in Worker : /\ locked'[w] \subseteq locked[w]
                             /\ \A t \in locked'[w] : status'[t] = status[t]
    <3>1. CASE MarkDone(r.task)
      BY <1>15, <3>1, WritesItsRow DEF CompleteRaises, MarkDone
    <3>2. CASE UNCHANGED <<status, stale>>
      BY <1>15, <3>2 DEF CompleteRaises
    <3> QED
      BY <1>15, <3>1, <3>2 DEF CompleteRaises
  <2>2. PICK next : Continues(next, r) /\ next.orphan = r.orphan /\ runs' = (runs \ {r}) \cup {next}
    <3>1. Advance(r, At(r, "read"))
      BY <1>15 DEF CompleteRaises
    <3>2. Continues(At(r, "read"), r) /\ At(r, "read").orphan = r.orphan
      BY <1>0, NextRun
    <3> QED
      BY <3>1, <3>2 DEF Advance
  <2> QED
    BY <1>0, <1>15, <2>1, <2>2, Advances, ShapeKept DEF CompleteRaises, historyVars
<1>16. ASSUME NEW r \in runs, FailRaises(r) PROVE Shape'
  <2>1. /\ \A t \in Task : status[t] # "absent" => status'[t] # "absent"
        /\ \A t \in stale' : t \in stale /\ status'[t] = status[t]
        /\ \A w \in Worker : /\ locked'[w] \subseteq locked[w]
                             /\ \A t \in locked'[w] : status'[t] = status[t]
    <3>1. CASE MarkFailed(r)
      <4>1. PICK s : /\ s # "absent" /\ Set({r.task}, s)
                     /\ r.task \notin Locked /\ stale' = stale \ {r.task}
        BY <3>1 DEF MarkFailed
      <4>2. locked' = locked
        BY <1>16 DEF FailRaises
      <4> QED
        BY <4>1, <4>2, WritesItsRow
    <3>2. CASE UNCHANGED rowVars
      BY <1>16, <3>2 DEF FailRaises, rowVars
    <3> QED
      BY <1>16, <3>1, <3>2 DEF FailRaises
  <2>2. claims' = claims
    BY <1>16 DEF FailRaises, historyVars
  <2> QED
    BY <1>0, <1>16, <2>1, <2>2, Orphans, ShapeKept
<1>17. ASSUME NEW w \in Worker, Crash(w) \/ Cancel(w) PROVE Shape'
  <2>1. runs' \subseteq runs /\ \A q \in runs' : ~q.orphan => q.worker # w
    BY <1>17 DEF Crash, Cancel, TickRuns
  <2>2. \A q \in runs' : ~q.orphan => phase'[q.worker] = phase[q.worker]
    BY <1>17, <2>1 DEF Crash, Cancel, TypeOK, Run
  <2> QED
    BY <1>0, <1>17, <2>1, <2>2, Vanishes, ShapeKept DEF Crash, Cancel, rowVars, historyVars, TypeOK
<1>18. CASE UNCHANGED vars
  BY <1>0, <1>18, Vanishes, ShapeKept DEF vars, rowVars, workerVars, historyVars
<1> QED
  BY <1>4, <1>5, <1>6, <1>7, <1>8, <1>9, <1>10, <1>11, <1>12, <1>13, <1>14, <1>15, <1>16, <1>17, <1>18
  DEF Next, Tick, RunStep

-----------------------------------------------------------------------------
(* What the row tells of its past, whatever failed *)

\* A row nobody has enqueued is charged with nothing.
AbsentIsFree == \A t \in Task : status[t] = "absent" => attempts[t] = 0

\* complete_task is called only for a handler that has returned.
CompletesReturned == \A r \in runs : r.pc = "complete" => returns[r.task] >= 1

\* The claims of t whose handler may still return.
Open(t) == {r.claim : r \in {q \in RunsOf(t) : q.pc # "complete"}}

\* The row of t can bring about one more run: it waits for a claim, or the
\* reaper will take it back.
Waiting(t) ==
  \/ status[t] \in {"absent", "pending"}
  \/ status[t] = "claimed" /\ \A r \in RunsOf(t) : r.orphan

\* Each return a row has had or may still have is its first one or is paid for
\* by a fault.
Paid(t) == returns[t] + Cardinality(Open(t)) + (IF Waiting(t) THEN 1 ELSE 0) <= 1 + faults
ReturnsPaid == \A t \in Task : Paid(t)

\* What is charged to a row, and what has run.
Accounts ==
  /\ AbsentIsFree
  /\ AttemptsBudget
  /\ CompletesReturned
  /\ DoneMeansHandled
  /\ ReturnsPaid

\* The sizes the balance is made of.
LEMMA Fewer ==
  ASSUME NEW S, IsFiniteSet(S), NEW R \in SUBSET S
  PROVE  Cardinality(R) \in Nat /\ Cardinality(S) \in Nat /\ Cardinality(R) <= Cardinality(S)
BY FS_Subset, FS_CardinalityType

LEMMA OneMore ==
  ASSUME NEW S, IsFiniteSet(S), NEW c, NEW R \in SUBSET (S \cup {c})
  PROVE  Cardinality(R) \in Nat /\ Cardinality(S) \in Nat /\ Cardinality(R) <= Cardinality(S) + 1
<1>1. /\ IsFiniteSet(S \cup {c})
      /\ Cardinality(S \cup {c}) = IF c \in S THEN Cardinality(S) ELSE Cardinality(S) + 1
  BY FS_AddElement
<1>2. Cardinality(S) \in Nat
  BY FS_CardinalityType
<1> QED
  BY <1>1, <1>2, Fewer

LEMMA OneLess ==
  ASSUME NEW S, IsFiniteSet(S), NEW c \in S, NEW R \in SUBSET (S \ {c})
  PROVE  Cardinality(R) \in Nat /\ Cardinality(S) \in Nat /\ Cardinality(R) + 1 <= Cardinality(S)
<1>1. IsFiniteSet(S \ {c}) /\ Cardinality(S \ {c}) = Cardinality(S) - 1
  BY FS_RemoveElement
<1>2. Cardinality(S) \in Nat
  BY FS_CardinalityType
<1> QED
  BY <1>1, <1>2, Fewer

LEMMA OpenIsFinite ==
  ASSUME Shape, NEW t \in Task
  PROVE  Open(t) \subseteq 1..claims[t] /\ IsFiniteSet(Open(t))
<1>1. Open(t) \subseteq 1..claims[t]
  BY DEF Shape, RunsAreTold, Open, RunsOf
<1>2. claims[t] \in Nat
  BY DEF Shape, TypeOK
<1>3. IsFiniteSet(1..claims[t])
  BY <1>2, FS_Interval
<1> QED
  BY <1>1, <1>3, FS_Subset

LEMMA AccountsInit == Init => Accounts
<1> SUFFICES ASSUME Init PROVE Accounts
  OBVIOUS
<1>1. AbsentIsFree /\ AttemptsBudget /\ CompletesReturned /\ DoneMeansHandled
  BY TaskQueueAssumption DEF Init, AbsentIsFree, AttemptsBudget, CompletesReturned, DoneMeansHandled
<1>2. ASSUME NEW t \in Task PROVE Paid(t)
  <2>1. Open(t) = {}
    BY DEF Init, Open, RunsOf
  <2>2. Cardinality(Open(t)) = 0
    BY <2>1, FS_EmptySet
  <2> QED
    BY <2>2 DEF Init, Paid
<1> QED
  BY <1>1, <1>2 DEF Accounts, ReturnsPaid

\* No handler returns and no claim of t is opened; the row may wait again only if
\* there is a fault to pay for it.
LEMMA PaidKept ==
  ASSUME Shape, ReturnsPaid, TypeOK', NEW t \in Task,
         returns'[t] = returns[t], Open(t)' \subseteq Open(t),
         \/ faults' = faults + 1
         \/ faults' = faults /\ (Waiting(t)' => Waiting(t))
  PROVE  Paid(t)'
<1>1. IsFiniteSet(Open(t))
  BY OpenIsFinite
<1> DEFINE n == Cardinality(Open(t))
           m == Cardinality(Open(t)')
<1>2. m \in Nat /\ n \in Nat /\ m <= n
  BY <1>1, Fewer
<1>3. returns[t] \in Nat /\ faults \in Nat /\ returns[t] + n + (IF Waiting(t) THEN 1 ELSE 0) <= 1 + faults
  BY DEF Shape, TypeOK, ReturnsPaid, Paid
<1> HIDE DEF n, m
<1>4. returns'[t] + m + (IF Waiting(t)' THEN 1 ELSE 0) <= 1 + faults'
  BY <1>2, <1>3
<1> QED
  BY <1>4 DEF Paid, m

\* The ways a row may change while nothing is charged and no handler returns.
Harmless(t) ==
  \/ status'[t] = status[t]
  \/ status[t] \in {"absent", "pending", "claimed"} /\ status'[t] \in {"pending", "claimed"}
  \/ status[t] = "pending" /\ status'[t] = "dead" /\ t \in Sequence

LEMMA RowsKept ==
  ASSUME Shape, Accounts, <<attempts, returns>>' = <<attempts, returns>>,
         \A t \in Task : Harmless(t)
  PROVE  AbsentIsFree' /\ AttemptsBudget' /\ DoneMeansHandled'
<1> USE TaskQueueAssumption DEF Accounts, Harmless
<1>1. AttemptsBudget'
  <2> SUFFICES ASSUME NEW t \in Task
               PROVE  /\ status'[t] \in {"pending", "claimed"} => attempts[t] < MaxAttempts
                      /\ status'[t] = "dead" /\ t \in Handled \ Sequence => attempts[t] >= MaxAttempts
    BY DEF AttemptsBudget
  <2>1. status[t] = "absent" => attempts[t] < MaxAttempts
    BY DEF AbsentIsFree
  <2> QED
    BY <2>1 DEF AttemptsBudget
<1> QED
  BY <1>1 DEF AbsentIsFree, DoneMeansHandled

\* complete_task writes the row of a handler that has returned.
LEMMA RowDone ==
  ASSUME Shape, Accounts, NEW r \in runs, r.pc = "complete", MarkDone(r.task),
         <<attempts, returns>>' = <<attempts, returns>>
  PROVE  AbsentIsFree' /\ AttemptsBudget' /\ DoneMeansHandled'
<1>1. \A t \in Task : status'[t] = IF t = r.task THEN "done" ELSE status[t]
  BY DEF MarkDone, Set
<1>2. returns[r.task] >= 1
  BY DEF Accounts, CompletesReturned
<1> QED
  BY <1>1, <1>2 DEF Accounts, AbsentIsFree, AttemptsBudget, DoneMeansHandled

\* fail_task writes attempts and status together, from one read.
LEMMA RowFailed ==
  ASSUME Shape, Accounts, NEW r \in runs, MarkFailed(r), returns' = returns
  PROVE  AbsentIsFree' /\ AttemptsBudget' /\ DoneMeansHandled'
<1>1. r \in Run /\ r.task \in Task /\ (r.retryable <=> r.task \in Handled)
  BY DEF Shape, TypeOK, Run, RunsAreKnown
<1>2. /\ \A t \in Task : status'[t] = IF t = r.task THEN (IF IsRetried(r) THEN "pending" ELSE "dead")
                                                    ELSE status[t]
      /\ \A t \in Task : attempts'[t] = IF t = r.task THEN r.read + 1 ELSE attempts[t]
  BY <1>1 DEF MarkFailed, Set, AttemptsNow, Shape, TypeOK
<1>3. IsRetried(r) <=> r.task \in Handled /\ r.read + 1 < MaxAttempts
  BY <1>1 DEF IsRetried, AttemptsNow
<1>4. AbsentIsFree' /\ DoneMeansHandled'
  BY <1>2 DEF Accounts, AbsentIsFree, DoneMeansHandled
<1>5. AttemptsBudget'
  <2> SUFFICES ASSUME NEW t \in Task PROVE
        /\ status'[t] \in {"pending", "claimed"} => attempts'[t] < MaxAttempts
        /\ status'[t] = "dead" /\ t \in Handled \ Sequence => attempts'[t] >= MaxAttempts
    BY DEF AttemptsBudget
  <2>1. CASE t = r.task
    <3>1. r.read + 1 \in Nat /\ MaxAttempts \in Nat
      BY <1>1, TaskQueueAssumption DEF Run
    <3> QED
      BY <1>2, <1>3, <2>1, <3>1
  <2>2. CASE t # r.task
    BY <1>2, <2>2 DEF Accounts, AttemptsBudget
  <2> QED
    BY <2>1, <2>2
<1> QED
  BY <1>4, <1>5

\* A row no run of which stops being watched does not start to wait.
LEMMA WaitingKept ==
  ASSUME NEW t \in Task, status'[t] = status[t] \/ status[t] = "absent" \/ status'[t] \in {"done", "dead"},
         \A r \in runs : r.task = t /\ ~r.orphan => \E q \in runs' : q.task = t /\ ~q.orphan
  PROVE  Waiting(t)' => Waiting(t)
BY DEF Waiting, RunsOf

\* Steps that charge nothing, and in which no handler returns or starts.
LEMMA AccountsKept ==
  ASSUME Shape, Accounts, TypeOK', <<attempts, returns>>' = <<attempts, returns>>,
         \A t \in Task : Harmless(t),
         \A q \in runs' : \E p \in runs : q.task = p.task /\ q.claim = p.claim /\ q.pc = p.pc,
         \/ faults' = faults + 1
         \/ faults' = faults /\ \A t \in Task : Waiting(t)' => Waiting(t)
  PROVE  Accounts'
<1>1. AbsentIsFree' /\ AttemptsBudget' /\ DoneMeansHandled'
  BY RowsKept
<1>2. CompletesReturned'
  BY DEF Accounts, CompletesReturned
<1>3. \A t \in Task : Open(t)' \subseteq Open(t)
  BY DEF Open, RunsOf
<1>4. ReturnsPaid'
  BY <1>3, PaidKept DEF ReturnsPaid, Accounts
<1> QED
  BY <1>1, <1>2, <1>4 DEF Accounts

LEMMA AccountsStep == Shape /\ Accounts /\ [Next]_vars => Accounts'
<1> SUFFICES ASSUME Shape, Accounts, [Next]_vars PROVE Accounts'
  OBVIOUS
<1>0. TypeOK /\ TypeOK'
  BY TypeStep DEF Shape
<1>1. \A t \in stale : status[t] = "claimed" /\ \A r \in RunsOf(t) : r.orphan
  BY DEF Shape, StaleIsUnwatched
<1>2. \A w \in Worker : locked[w] \subseteq Task /\ \A t \in locked[w] : status[t] = "pending"
  BY <1>0 DEF Shape, ClaimsAreDisjoint, TypeOK
<1>3. ASSUME NEW t \in Task, Enqueue(t) \/ BecomeDue(t) \/ BecomeStale(t) PROVE Accounts'
  <2>1. \A u \in Task : Harmless(u) /\ (status'[u] = status[u] \/ status[u] = "absent")
    BY <1>3 DEF Enqueue, BecomeDue, BecomeStale, Set, Harmless
  <2>2. runs' = runs /\ faults' = faults /\ <<attempts, returns>>' = <<attempts, returns>>
    BY <1>3 DEF Enqueue, BecomeDue, BecomeStale, workerVars, historyVars
  <2> QED
    BY <1>0, <2>1, <2>2, WaitingKept, AccountsKept
<1>4. ASSUME NEW S \in SUBSET Sequence, StopSequence(S) PROVE Accounts'
  <2>1. \A u \in Task : Harmless(u) /\ (status'[u] = status[u] \/ status'[u] \in {"done", "dead"})
    BY <1>4 DEF StopSequence, Set, Harmless
  <2>2. runs' = runs /\ faults' = faults /\ <<attempts, returns>>' = <<attempts, returns>>
    BY <1>4 DEF StopSequence, workerVars, historyVars
  <2> QED
    BY <1>0, <2>1, <2>2, WaitingKept, AccountsKept
<1>5. ASSUME NEW w \in Worker, Startup(w) \/ EndTick(w) \/ Gathered(w) \/ SelectForUpdate(w) PROVE Accounts'
  <2>1. /\ status' = status /\ runs' = runs /\ faults' = faults
        /\ <<attempts, returns>>' = <<attempts, returns>>
    BY <1>5 DEF Startup, EndTick, Gathered, SelectForUpdate, rowVars, historyVars
  <2>2. \A u \in Task : Harmless(u)
    BY <2>1 DEF Harmless
  <2> QED
    BY <1>0, <2>1, <2>2, WaitingKept, AccountsKept
<1>6. ASSUME NEW w \in Worker, Reap(w) PROVE Accounts'
  <2>1. \A u \in Task : status'[u] = IF u \in stale THEN "pending" ELSE status[u]
    BY <1>6 DEF Reap, Set
  <2>2. runs' = runs /\ faults' = faults /\ <<attempts, returns>>' = <<attempts, returns>>
    BY <1>6 DEF Reap, historyVars
  <2>3. \A u \in Task : Harmless(u)
    BY <1>1, <2>1 DEF Harmless
  <2>4. \A u \in Task : Waiting(u)' => Waiting(u)
    BY <1>1, <2>1, <2>2 DEF Waiting, RunsOf
  <2> QED
    BY <1>0, <2>2, <2>3, <2>4, AccountsKept
<1>7. ASSUME NEW w \in Worker, Claim(w) PROVE Accounts'
  <2>1. /\ runs' = runs \cup {NewRun(t, w) : t \in locked[w]}
        /\ \A t \in Task : status'[t] = IF t \in locked[w] THEN "claimed" ELSE status[t]
        /\ <<attempts, returns>>' = <<attempts, returns>> /\ faults' = faults
    BY <1>7 DEF Claim, Set
  <2>2. \A t \in locked[w] : /\ NewRun(t, w).task = t /\ NewRun(t, w).claim = claims[t] + 1
                             /\ NewRun(t, w).pc # "complete" /\ ~NewRun(t, w).orphan
    BY DEF NewRun
  <2>3. AbsentIsFree' /\ AttemptsBudget' /\ DoneMeansHandled'
    <3>1. \A t \in Task : Harmless(t)
      BY <1>2, <2>1 DEF Harmless
    <3> QED
      BY <2>1, <3>1, RowsKept
  <2>4. CompletesReturned'
    BY <2>1, <2>2 DEF Accounts, CompletesReturned
  <2>5. ASSUME NEW t \in Task, t \notin locked[w] PROVE Paid(t)'
    <3>1. RunsOf(t)' = RunsOf(t) /\ status'[t] = status[t]
      BY <2>1, <2>2, <2>5 DEF RunsOf
    <3>2. Open(t)' = Open(t) /\ Waiting(t)' = Waiting(t)
      BY <3>1 DEF Open, Waiting
    <3> QED
      BY <1>0, <2>1, <3>2, PaidKept DEF Accounts
  <2>6. ASSUME NEW t \in locked[w] PROVE Paid(t)'
    <3>1. t \in Task /\ Waiting(t)
      BY <1>2 DEF Waiting
    <3>2. ~Waiting(t)'
      <4>1. NewRun(t, w) \in RunsOf(t)' /\ ~NewRun(t, w).orphan
        BY <2>1, <2>2 DEF RunsOf
      <4> QED
        BY <2>1, <3>1, <4>1 DEF Waiting
    <3>3. Open(t)' \subseteq Open(t) \cup {claims[t] + 1}
      BY <2>1, <2>2 DEF Open, RunsOf
    <3> DEFINE n == Cardinality(Open(t))
               m == Cardinality(Open(t)')
    <3>4. m \in Nat /\ n \in Nat /\ m <= n + 1
      BY <3>1, <3>3, OpenIsFinite, OneMore
    <3>5. returns[t] \in Nat /\ faults \in Nat /\ returns[t] + n + 1 <= 1 + faults
      BY <1>0, <3>1 DEF TypeOK, Accounts, ReturnsPaid, Paid
    <3> HIDE DEF n, m
    <3>6. returns'[t] + m + 0 <= 1 + faults'
      BY <2>1, <3>4, <3>5
    <3> QED
      BY <3>2, <3>6 DEF Paid, m
  <2> QED
    BY <2>3, <2>4, <2>5, <2>6 DEF Accounts, ReturnsPaid
<1>8. ASSUME NEW r \in runs, HandlerReturns(r) PROVE Accounts'
  <2> DEFINE n == At(r, "complete")
  <2>1. /\ r.task \in Task /\ r.pc = "handle"
        /\ n.task = r.task /\ n.claim = r.claim /\ n.pc = "complete" /\ n.orphan = r.orphan
    BY <1>0, <1>8, NextRun DEF HandlerReturns, Continues
  <2>2. /\ runs' = (runs \ {r}) \cup {n} /\ status' = status /\ faults' = faults /\ attempts' = attempts
        /\ \A t \in Task : returns'[t] = IF t = r.task THEN returns[t] + 1 ELSE returns[t]
        /\ \A t \in Task : returns[t] \in Nat
    BY <1>0, <1>8 DEF HandlerReturns, Advance, rowVars, TypeOK
  <2> HIDE DEF n
  <2>3. AbsentIsFree' /\ AttemptsBudget' /\ DoneMeansHandled'
    BY <2>2 DEF Accounts, AbsentIsFree, AttemptsBudget, DoneMeansHandled
  <2>4. CompletesReturned'
    <3>1. \A q \in runs : q.task \in Task
      BY <1>0 DEF TypeOK, Run
    <3> QED
      BY <2>1, <2>2, <3>1 DEF Accounts, CompletesReturned
  <2>5. ASSUME NEW t \in Task PROVE Waiting(t)' => Waiting(t)
    BY <2>1, <2>2, WaitingKept
  <2>6. ASSUME NEW t \in Task, t # r.task PROVE Paid(t)'
    <3>1. Open(t)' \subseteq Open(t)
      BY <2>1, <2>2, <2>6 DEF Open, RunsOf
    <3> QED
      BY <1>0, <2>2, <2>5, <2>6, <3>1, PaidKept DEF Accounts
  <2>7. Paid(r.task)'
    <3> DEFINE t == r.task
               k == Cardinality(Open(t))
               m == Cardinality(Open(t)')
    <3>1. r.claim \in Open(t)
      BY <2>1 DEF Open, RunsOf
    <3>2. Open(t)' \subseteq Open(t) \ {r.claim}
      <4>1. ASSUME NEW q \in runs', q.task = t, q.pc # "complete" PROVE q \in runs /\ q.claim # r.claim
        BY <2>1, <2>2, <4>1 DEF Shape, RunsAreTold
      <4> QED
        BY <4>1 DEF Open, RunsOf
    <3>3. m \in Nat /\ k \in Nat /\ m + 1 <= k
      BY <2>1, <3>1, <3>2, OpenIsFinite, OneLess
    <3>4. returns[t] \in Nat /\ faults \in Nat /\ returns[t] + k + (IF Waiting(t) THEN 1 ELSE 0) <= 1 + faults
      BY <1>0, <2>1 DEF TypeOK, Accounts, ReturnsPaid, Paid
    <3>5. returns'[t] = returns[t] + 1 /\ (Waiting(t)' => Waiting(t))
      BY <2>1, <2>2, <2>5
    <3> HIDE DEF k, m, t
    <3>6. returns'[t] + m + (IF Waiting(t)' THEN 1 ELSE 0) <= 1 + faults'
      BY <2>2, <3>3, <3>4, <3>5
    <3> QED
      BY <2>2, <3>6 DEF Paid, m, t
  <2> QED
    BY <2>3, <2>4, <2>6, <2>7 DEF Accounts, ReturnsPaid
<1>9. ASSUME NEW r \in runs, HandlerRaises(r) \/ ReadAttempts(r) PROVE Accounts'
  <2>1. PICK n : /\ runs' = (runs \ {r}) \cup {n}
                 /\ n.task = r.task /\ n.claim = r.claim /\ n.orphan = r.orphan
                 /\ n.pc # "complete" /\ r.pc # "complete"
    <3>1. CASE HandlerRaises(r)
      BY <1>0, <3>1, NextRun DEF HandlerRaises, Advance, Continues
    <3>2. CASE ReadAttempts(r)
      BY <1>0, <3>2, NextRun DEF ReadAttempts, Advance, Continues
    <3> QED
      BY <1>9, <3>1, <3>2
  <2>2. status' = status /\ faults' = faults /\ <<attempts, returns>>' = <<attempts, returns>>
    BY <1>9 DEF HandlerRaises, ReadAttempts, rowVars, historyVars
  <2>3. AbsentIsFree' /\ AttemptsBudget' /\ DoneMeansHandled' /\ CompletesReturned'
    BY <2>1, <2>2 DEF Accounts, AbsentIsFree, AttemptsBudget, DoneMeansHandled, CompletesReturned
  <2>4. ASSUME NEW t \in Task PROVE Paid(t)'
    <3>1. Open(t)' \subseteq Open(t)
      BY <2>1 DEF Open, RunsOf
    <3>2. Waiting(t)' => Waiting(t)
      BY <2>1, <2>2, WaitingKept
    <3> QED
      BY <1>0, <2>2, <3>1, <3>2, PaidKept DEF Accounts
  <2> QED
    BY <2>3, <2>4 DEF Accounts, ReturnsPaid
<1>10. ASSUME NEW r \in runs, CompleteTask(r) PROVE Accounts'
  <2>1. /\ r.pc = "complete" /\ MarkDone(r.task) /\ runs' = runs \ {r} /\ faults' = faults
        /\ <<attempts, returns>>' = <<attempts, returns>>
    BY <1>10 DEF CompleteTask, historyVars
  <2>2. AbsentIsFree' /\ AttemptsBudget' /\ DoneMeansHandled'
    BY <2>1, RowDone
  <2>3. CompletesReturned'
    BY <2>1 DEF Accounts, CompletesReturned
  <2>4. ASSUME NEW t \in Task PROVE Paid(t)'
    <3>1. Open(t)' \subseteq Open(t)
      BY <2>1 DEF Open, RunsOf
    <3>2. status'[t] = IF t = r.task THEN "done" ELSE status[t]
      BY <2>1 DEF MarkDone, Set
    <3>3. Waiting(t)' => Waiting(t)
      BY <2>1, <3>2 DEF Waiting, RunsOf
    <3> QED
      BY <1>0, <2>1, <3>1, <3>3, PaidKept DEF Accounts
  <2> QED
    BY <2>2, <2>3, <2>4 DEF Accounts, ReturnsPaid
<1>11. ASSUME NEW r \in runs, FailTask(r) PROVE Accounts'
  <2>1. /\ r.pc = "write" /\ MarkFailed(r) /\ runs' = runs \ {r} /\ faults' = faults /\ returns' = returns
    BY <1>11 DEF FailTask
  <2>2. AbsentIsFree' /\ AttemptsBudget' /\ DoneMeansHandled'
    BY <2>1, RowFailed
  <2>3. CompletesReturned'
    BY <2>1 DEF Accounts, CompletesReturned
  <2>4. ASSUME NEW t \in Task, t # r.task PROVE Paid(t)'
    <3>1. RunsOf(t)' = RunsOf(t) /\ status'[t] = status[t]
      BY <2>1, <2>4 DEF RunsOf, MarkFailed, Set
    <3>2. Open(t)' = Open(t) /\ Waiting(t)' = Waiting(t)
      BY <3>1 DEF Open, Waiting
    <3> QED
      BY <1>0, <2>1, <3>2, PaidKept DEF Accounts
  <2>5. Paid(r.task)'
    <3> DEFINE t == r.task
               k == Cardinality(Open(t))
               m == Cardinality(Open(t)')
    <3>0. t \in Task
      BY <1>0, NextRun
    <3>1. r.claim \in Open(t)
      BY <2>1 DEF Open, RunsOf
    <3>2. Open(t)' \subseteq Open(t) \ {r.claim}
      <4>1. ASSUME NEW q \in runs', q.task = t PROVE q \in runs /\ q.claim # r.claim
        BY <2>1, <4>1 DEF Shape, RunsAreTold
      <4> QED
        BY <4>1 DEF Open, RunsOf
    <3>3. m \in Nat /\ k \in Nat /\ m + 1 <= k
      BY <3>0, <3>1, <3>2, OpenIsFinite, OneLess
    <3>4. returns[t] \in Nat /\ faults \in Nat /\ returns[t] + k + (IF Waiting(t) THEN 1 ELSE 0) <= 1 + faults
      BY <1>0, <3>0 DEF TypeOK, Accounts, ReturnsPaid, Paid
    <3> HIDE DEF k, m, t
    <3>5. returns'[t] + m + (IF Waiting(t)' THEN 1 ELSE 0) <= 1 + faults'
      BY <2>1, <3>3, <3>4
    <3> QED
      BY <2>1, <3>5 DEF Paid, m, t
  <2> QED
    BY <2>2, <2>3, <2>4, <2>5 DEF Accounts, ReturnsPaid
<1>12. ASSUME NEW r \in runs, CompleteRaises(r) PROVE Accounts'
  <2> DEFINE n == At(r, "read")
  <2>1. /\ r.task \in Task /\ n.task = r.task /\ n.claim = r.claim /\ n.pc = "read" /\ n.orphan = r.orphan
    BY <1>0, NextRun DEF Continues
  <2>2. /\ r.pc = "complete" /\ runs' = (runs \ {r}) \cup {n} /\ faults' = faults + 1
        /\ <<attempts, returns>>' = <<attempts, returns>>
        /\ MarkDone(r.task) \/ status' = status
    BY <1>12 DEF CompleteRaises, Advance, Strike, historyVars
  <2> HIDE DEF n
  <2>3. AbsentIsFree' /\ AttemptsBudget' /\ DoneMeansHandled'
    <3>1. CASE MarkDone(r.task)
      BY <2>2, <3>1, RowDone
    <3>2. CASE status' = status
      BY <2>2, <3>2, RowsKept DEF Harmless
    <3> QED
      BY <2>2, <3>1, <3>2
  <2>4. CompletesReturned'
    BY <2>1, <2>2 DEF Accounts, CompletesReturned
  <2>5. ASSUME NEW t \in Task PROVE Paid(t)'
    <3>1. Open(t)' \subseteq Open(t) \cup {r.claim}
      BY <2>1, <2>2 DEF Open, RunsOf
    <3>2. Waiting(t)' => Waiting(t)
      <4>1. status'[t] = status[t] \/ status'[t] = "done"
        BY <2>2 DEF MarkDone, Set
      <4> QED
        BY <2>1, <2>2, <4>1, WaitingKept
    <3> DEFINE k == Cardinality(Open(t))
               m == Cardinality(Open(t)')
    <3>3. m \in Nat /\ k \in Nat /\ m <= k + 1
      BY <3>1, OpenIsFinite, OneMore
    <3>4. returns[t] \in Nat /\ faults \in Nat /\ returns[t] + k + (IF Waiting(t) THEN 1 ELSE 0) <= 1 + faults
      BY <1>0 DEF TypeOK, Accounts, ReturnsPaid, Paid
    <3> HIDE DEF k, m
    <3>5. returns'[t] + m + (IF Waiting(t)' THEN 1 ELSE 0) <= 1 + faults'
      BY <2>2, <3>2, <3>3, <3>4
    <3> QED
      BY <3>5 DEF Paid, m
  <2> QED
    BY <2>3, <2>4, <2>5 DEF Accounts, ReturnsPaid
<1>13. ASSUME NEW r \in runs, FailRaises(r) PROVE Accounts'
  <2>1. /\ returns' = returns /\ faults' = faults + 1
        /\ MarkFailed(r) \/ <<status, attempts>>' = <<status, attempts>>
    BY <1>13 DEF FailRaises, Strike, historyVars, rowVars
  <2>2. AbsentIsFree' /\ AttemptsBudget' /\ DoneMeansHandled'
    <3>1. CASE MarkFailed(r)
      BY <2>1, <3>1, RowFailed
    <3>2. CASE <<status, attempts>>' = <<status, attempts>>
      BY <2>1, <3>2, RowsKept DEF Harmless
    <3> QED
      BY <2>1, <3>1, <3>2
  <2>3. \A q \in runs' : \E p \in runs : q.task = p.task /\ q.claim = p.claim /\ q.pc = p.pc
    BY <1>13, Orphans DEF Continues
  <2>4. CompletesReturned'
    BY <2>1, <2>3 DEF Accounts, CompletesReturned
  <2>5. \A t \in Task : Open(t)' \subseteq Open(t)
    BY <2>3 DEF Open, RunsOf
  <2>6. \A t \in Task : Paid(t)'
    BY <1>0, <2>1, <2>5, PaidKept DEF Accounts
  <2> QED
    BY <2>2, <2>4, <2>6 DEF Accounts, ReturnsPaid
<1>14. ASSUME NEW w \in Worker, Crash(w) \/ Cancel(w) PROVE Accounts'
  <2>1. /\ runs' \subseteq runs /\ status' = status /\ faults' = faults + 1
        /\ <<attempts, returns>>' = <<attempts, returns>>
    BY <1>14 DEF Crash, Cancel, Strike, rowVars, historyVars
  <2>2. \A t \in Task : Harmless(t)
    BY <2>1 DEF Harmless
  <2> QED
    BY <1>0, <2>1, <2>2, AccountsKept
<1>15. CASE UNCHANGED vars
  <2>1. /\ status' = status /\ runs' = runs /\ faults' = faults
        /\ <<attempts, returns>>' = <<attempts, returns>>
    BY <1>15 DEF vars, rowVars, workerVars, historyVars
  <2>2. \A t \in Task : Harmless(t)
    BY <2>1 DEF Harmless
  <2> QED
    BY <1>0, <2>1, <2>2, WaitingKept, AccountsKept
<1> QED
  BY <1>3, <1>4, <1>5, <1>6, <1>7, <1>8, <1>9, <1>10, <1>11, <1>12, <1>13, <1>14, <1>15
  DEF Next, Tick, RunStep

LEMMA AccountsCorrect == Spec => [](Shape /\ Accounts)
<1>1. Init => Shape /\ Accounts
  BY ShapeInit, AccountsInit
<1>2. Shape /\ Accounts /\ [Next]_vars => (Shape /\ Accounts)'
  BY ShapeStep, AccountsStep
<1> QED
  BY <1>1, <1>2, PTL DEF Spec

\* Two open claim transactions never hold the same row, and what one holds is
\* still pending when it commits, whatever crashes, is cancelled or fails.
THEOREM ClaimsAreDisjointTheorem == Spec => []ClaimsAreDisjoint
<1>1. Shape /\ Accounts => ClaimsAreDisjoint
  BY DEF Shape
<1> QED
  BY <1>1, AccountsCorrect, PTL

\* Even with fail_task's two statements interleaving with those of an orphan of
\* the same row, a live row has an attempt left and a dead one has used them up.
THEOREM AttemptsBudgetTheorem == Spec => []AttemptsBudget
<1>1. Shape /\ Accounts => AttemptsBudget
  BY DEF Accounts
<1> QED
  BY <1>1, AccountsCorrect, PTL

\* No fault makes a task done whose handler has not returned.
THEOREM DoneMeansHandledTheorem == Spec => []DoneMeansHandled
<1>1. Shape /\ Accounts => DoneMeansHandled
  BY DEF Accounts
<1> QED
  BY <1>1, AccountsCorrect, PTL

\* A handler returns at most once more than there were faults, orphans of a
\* broken gather included.
THEOREM ExtraReturnsTheorem == Spec => []ExtraReturnsAreFaults
<1>1. ASSUME Shape, Accounts, NEW t \in Task PROVE returns[t] <= 1 + faults
  <2> DEFINE k == Cardinality(Open(t))
  <2>1. k \in Nat
    BY <1>1, OpenIsFinite, FS_CardinalityType
  <2>2. returns[t] \in Nat /\ faults \in Nat /\ returns[t] + k + (IF Waiting(t) THEN 1 ELSE 0) <= 1 + faults
    BY <1>1 DEF Shape, TypeOK, Accounts, ReturnsPaid, Paid
  <2> HIDE DEF k
  <2> QED
    BY <2>1, <2>2
<1>2. Shape /\ Accounts => ExtraReturnsAreFaults
  BY <1>1 DEF ExtraReturnsAreFaults
<1> QED
  BY <1>2, AccountsCorrect, PTL

-----------------------------------------------------------------------------
(* Who owns a row, while no database statement fails *)

\* Without database faults gather never returns early: no run is an orphan.
NoOrphans == \A r \in runs : ~r.orphan

\* Only the claim of a run that is gone grows stale, so the reaper never takes
\* a row away from a live run.
StaleIsAbandoned == \A t \in stale : status[t] = "claimed" /\ RunsOf(t) = {}

\* The inductive invariant behind the ownership of rows.
Ownership ==
  /\ TypeOK
  /\ OneRunPerTask
  /\ RunOwnsRow
  /\ ClaimsAreDisjoint
  /\ NoOrphans
  /\ StaleIsAbandoned

LEMMA OwnershipInit == Init => Ownership
BY TypeInit DEF Init, Ownership, OneRunPerTask, RunOwnsRow, ClaimsAreDisjoint, NoOrphans,
                StaleIsAbandoned

\* A step of a run that neither ends it nor writes its row.
LEMMA RunMovesOn ==
  ASSUME Ownership, TypeOK', NEW r \in runs, NEW next \in Run,
         runs' = (runs \ {r}) \cup {next},
         next.task = r.task, next.orphan = r.orphan,
         status' = status, stale' = stale, locked' = locked
  PROVE  Ownership'
<1> USE DEF Ownership
<1>1. OneRunPerTask'
  BY DEF OneRunPerTask
<1>2. RunOwnsRow'
  BY DEF RunOwnsRow
<1>3. ClaimsAreDisjoint'
  BY DEF ClaimsAreDisjoint
<1>4. NoOrphans'
  BY DEF NoOrphans
<1>5. StaleIsAbandoned'
  BY DEF StaleIsAbandoned, RunsOf
<1> QED
  BY <1>1, <1>2, <1>3, <1>4, <1>5

\* A step that ends a run and writes its row: no other run has that row, no
\* open claim has locked it, and its claim was not stale.
LEMMA RunEnds ==
  ASSUME Ownership, TypeOK', NEW r \in runs, NEW s,
         runs' = runs \ {r}, Set({r.task}, s),
         stale' = stale \ {r.task}, locked' = locked
  PROVE  Ownership'
<1> USE DEF Ownership
<1>1. r.task \in Task /\ status[r.task] = "claimed"
  BY DEF TypeOK, Run, RunOwnsRow
<1>2. \A t \in Task \ {r.task} : status'[t] = status[t]
  BY DEF Set
<1>3. \A q \in runs' : q \in runs /\ q.task \in Task \ {r.task}
  BY DEF OneRunPerTask, TypeOK, Run
<1>4. OneRunPerTask' /\ NoOrphans'
  BY DEF OneRunPerTask, NoOrphans
<1>5. RunOwnsRow'
  BY <1>2, <1>3 DEF RunOwnsRow
<1>6. ClaimsAreDisjoint'
  BY <1>1, <1>2 DEF ClaimsAreDisjoint, TypeOK
<1>7. StaleIsAbandoned'
  BY <1>2 DEF StaleIsAbandoned, RunsOf, TypeOK
<1> QED
  BY <1>4, <1>5, <1>6, <1>7

\* A step of the queue or of a worker that leaves the table alone and starts no
\* run: runs and locks can only disappear.
LEMMA RunsVanish ==
  ASSUME Ownership, TypeOK', runs' \subseteq runs, status' = status, stale' = stale,
         \A w \in Worker : locked'[w] \subseteq locked[w]
  PROVE  Ownership'
<1> USE DEF Ownership
<1>1. OneRunPerTask' /\ RunOwnsRow' /\ NoOrphans'
  BY DEF OneRunPerTask, RunOwnsRow, NoOrphans
<1>2. ClaimsAreDisjoint'
  BY DEF ClaimsAreDisjoint
<1>3. StaleIsAbandoned'
  BY DEF StaleIsAbandoned, RunsOf
<1> QED
  BY <1>1, <1>2, <1>3

LEMMA OwnershipStep ==
  ASSUME "db" \notin Fault, Ownership, [Next]_vars
  PROVE  Ownership'
<1> USE DEF Ownership
<1>0. TypeOK'
  BY TypeStep
<1>1. ASSUME NEW t \in Task, Enqueue(t) PROVE Ownership'
  <2>1. status[t] = "absent" /\ \A u \in Task \ {t} : status'[u] = status[u]
    BY <1>1 DEF Enqueue, Set
  <2>2. t \notin stale /\ (\A w \in Worker : t \notin locked[w]) /\ \A r \in runs : r.task # t
    BY <2>1 DEF StaleIsAbandoned, ClaimsAreDisjoint, RunOwnsRow
  <2> QED
    BY <1>0, <1>1, <2>1, <2>2
    DEF Enqueue, workerVars, TypeOK, Run, OneRunPerTask, RunOwnsRow, ClaimsAreDisjoint, NoOrphans,
        StaleIsAbandoned, RunsOf
<1>2. ASSUME NEW t \in Task, BecomeDue(t) PROVE Ownership'
  BY <1>0, <1>2, RunsVanish DEF BecomeDue, workerVars
<1>3. ASSUME NEW t \in Task, BecomeStale(t) PROVE Ownership'
  <2>1. RunsOf(t) = {}
    BY <1>3 DEF BecomeStale, NoOrphans, RunsOf
  <2> QED
    BY <1>0, <1>3, <2>1 DEF BecomeStale, workerVars, OneRunPerTask, RunOwnsRow,
                            ClaimsAreDisjoint, NoOrphans, StaleIsAbandoned, RunsOf
<1>4. ASSUME NEW S \in SUBSET Sequence, StopSequence(S) PROVE Ownership'
  <2>1. /\ \A t \in S : status[t] = "pending"
        /\ \A t \in Task \ S : status'[t] = status[t]
        /\ \A w \in Worker : locked[w] \cap S = {}
    BY <1>4 DEF StopSequence, Set, Locked
  <2>2. \A r \in runs : r.task \in Task \ S
    BY <2>1 DEF RunOwnsRow, TypeOK, Run
  <2>3. stale \subseteq Task \ S
    BY <2>1 DEF StaleIsAbandoned, TypeOK
  <2> QED
    BY <1>0, <1>4, <2>1, <2>2, <2>3
    DEF StopSequence, workerVars, TypeOK, OneRunPerTask, RunOwnsRow, ClaimsAreDisjoint,
        NoOrphans, StaleIsAbandoned, RunsOf
<1>5. ASSUME NEW w \in Worker, Startup(w) \/ EndTick(w) \/ Gathered(w) PROVE Ownership'
  BY <1>0, <1>5, RunsVanish DEF Startup, EndTick, Gathered, rowVars
<1>6. ASSUME NEW w \in Worker, Reap(w) PROVE Ownership'
  <2>1. /\ \A t \in stale : status[t] = "claimed"
        /\ \A t \in Task \ stale : status'[t] = status[t]
        /\ \A t \in stale : status'[t] = "pending"
    BY <1>6 DEF Reap, Set, StaleIsAbandoned, TypeOK
  <2>2. \A r \in runs : r.task \in Task \ stale
    BY DEF StaleIsAbandoned, RunsOf, TypeOK, Run
  <2> QED
    BY <1>0, <1>6, <2>1, <2>2
    DEF Reap, TypeOK, OneRunPerTask, RunOwnsRow, ClaimsAreDisjoint, NoOrphans, StaleIsAbandoned
<1>7. ASSUME NEW w \in Worker, SelectForUpdate(w) PROVE Ownership'
  <2>1. PICK P \in Heads(Claimable) : locked' = [locked EXCEPT ![w] = P]
    BY <1>7 DEF SelectForUpdate
  <2>2. P \subseteq Claimable
    BY DEF Heads
  <2>3. \A t \in P : status[t] = "pending" /\ \A v \in Worker : t \notin locked[v]
    BY <2>2 DEF Claimable, Locked
  <2>4. ClaimsAreDisjoint'
    BY <1>7, <2>1, <2>3 DEF SelectForUpdate, rowVars, ClaimsAreDisjoint, TypeOK
  <2> QED
    BY <1>0, <1>7, <2>4
    DEF SelectForUpdate, rowVars, OneRunPerTask, RunOwnsRow, NoOrphans, StaleIsAbandoned, RunsOf
<1>8. ASSUME NEW w \in Worker, Claim(w) PROVE Ownership'
  <2>1. locked[w] \subseteq Task /\ \A t \in locked[w] : status[t] = "pending"
    BY DEF TypeOK, ClaimsAreDisjoint
  <2>2. /\ \A t \in locked[w] : status'[t] = "claimed"
        /\ \A t \in Task \ locked[w] : status'[t] = status[t]
    BY <1>8, <2>1 DEF Claim, Set
  <2>3. \A r \in runs : r.task \in Task \ locked[w]
    BY <2>1 DEF RunOwnsRow, TypeOK, Run
  <2>4. \A t \in locked[w] : NewRun(t, w).task = t /\ ~NewRun(t, w).orphan
    BY DEF NewRun
  <2>5. \A r \in runs' : r \in runs \/ \E t \in locked[w] : r = NewRun(t, w)
    BY <1>8 DEF Claim
  <2>6. OneRunPerTask'
    BY <2>3, <2>4, <2>5 DEF OneRunPerTask
  <2>7. RunOwnsRow' /\ NoOrphans'
    BY <2>2, <2>3, <2>4, <2>5 DEF RunOwnsRow, NoOrphans
  <2>8. \A v \in Worker : locked'[v] = IF v = w THEN {} ELSE locked[v]
    BY <1>8 DEF Claim, TypeOK
  <2>9. ClaimsAreDisjoint'
    BY <2>2, <2>8 DEF ClaimsAreDisjoint, TypeOK
  <2>10. \A t \in stale : t \in Task \ locked[w]
    BY <2>1 DEF StaleIsAbandoned, TypeOK
  <2>11. StaleIsAbandoned'
    BY <1>8, <2>2, <2>4, <2>5, <2>10 DEF Claim, StaleIsAbandoned, RunsOf
  <2> QED
    BY <1>0, <2>6, <2>7, <2>9, <2>11
<1>9. ASSUME NEW w \in Worker, Crash(w) \/ Cancel(w) PROVE Ownership'
  BY <1>0, <1>9, RunsVanish DEF Crash, Cancel, rowVars, TypeOK, TickRuns
<1>10. ASSUME NEW r \in runs, HandlerReturns(r) \/ HandlerRaises(r) \/ ReadAttempts(r)
       PROVE  Ownership'
  <2>1. PICK next \in Run : /\ runs' = (runs \ {r}) \cup {next}
                            /\ next.task = r.task /\ next.orphan = r.orphan
    <3>1. r \in Run
      BY DEF TypeOK
    <3>2. /\ At(r, "complete") \in Run /\ At(r, "read") \in Run
          /\ [r EXCEPT !.pc = "write", !.read = attempts[r.task]] \in Run
      BY <3>1 DEF At, Run, TypeOK
    <3>3. /\ At(r, "complete").task = r.task /\ At(r, "complete").orphan = r.orphan
          /\ At(r, "read").task = r.task /\ At(r, "read").orphan = r.orphan
          /\ [r EXCEPT !.pc = "write", !.read = attempts[r.task]].task = r.task
          /\ [r EXCEPT !.pc = "write", !.read = attempts[r.task]].orphan = r.orphan
      BY <3>1 DEF At, Run
    <3> QED
      BY <1>10, <3>2, <3>3 DEF HandlerReturns, HandlerRaises, ReadAttempts, Advance
  <2> QED
    BY <1>0, <1>10, <2>1, RunMovesOn DEF HandlerReturns, HandlerRaises, ReadAttempts, rowVars
<1>11. ASSUME NEW r \in runs, CompleteTask(r) PROVE Ownership'
  BY <1>0, <1>11, RunEnds DEF CompleteTask, MarkDone
<1>12. ASSUME NEW r \in runs, FailTask(r) PROVE Ownership'
  <2>1. PICK s : Set({r.task}, s)
    BY <1>12 DEF FailTask, MarkFailed
  <2> QED
    BY <1>0, <1>12, <2>1, RunEnds DEF FailTask, MarkFailed
<1>13. ASSUME NEW r \in runs, CompleteRaises(r) \/ FailRaises(r) PROVE FALSE
  BY <1>13, "db" \notin Fault DEF CompleteRaises, FailRaises, Strike
<1>14. CASE UNCHANGED vars
  BY <1>0, <1>14, RunsVanish DEF vars, rowVars, workerVars
<1> QED
  BY <1>1, <1>2, <1>3, <1>4, <1>5, <1>6, <1>7, <1>8, <1>9, <1>10, <1>11, <1>12, <1>13, <1>14
  DEF Next, Tick, RunStep

LEMMA OwnershipCorrect == ASSUME "db" \notin Fault PROVE Spec => []Ownership
<1>1. Init => Ownership
  BY OwnershipInit
<1>2. Ownership /\ [Next]_vars => Ownership'
  BY OwnershipStep
<1> QED
  BY <1>1, <1>2, PTL DEF Spec

\* As long as no database statement fails, at most one coroutine works on a row:
\* neither a crash, a cancelled tick, the reaper nor another worker starts a second.
THEOREM OneRunTheorem == ASSUME "db" \notin Fault PROVE Spec => []OneRunPerTask
<1>1. Ownership => OneRunPerTask
  BY DEF Ownership
<1> QED
  BY <1>1, OwnershipCorrect, PTL

\* As long as no database statement fails, a row is claimed while a coroutine
\* works on it: nothing takes it away from a live run.
THEOREM RunOwnsRowTheorem == ASSUME "db" \notin Fault PROVE Spec => []RunOwnsRow
<1>1. Ownership => RunOwnsRow
  BY DEF Ownership
<1> QED
  BY <1>1, OwnershipCorrect, PTL

-----------------------------------------------------------------------------
(* What fail_task charges, while no database statement fails *)

\* The attempts fail_task has read are still those of the row when it writes.
ReadIsFresh == \A r \in runs : r.pc = "write" => r.read = attempts[r.task]

\* The inductive invariant behind the charging of failures.
Ledger == ReadIsFresh /\ EveryFailureCharged

LEMMA LedgerInit == Init => Ledger
BY DEF Init, Ledger, ReadIsFresh, EveryFailureCharged

LEMMA LedgerStep ==
  ASSUME "db" \notin Fault, Ownership, Ledger, [Next]_vars
  PROVE  Ledger'
<1> USE DEF Ownership, Ledger
<1>1. CASE runs' \subseteq runs /\ attempts' = attempts /\ failures' = failures
  BY <1>1 DEF ReadIsFresh, EveryFailureCharged
<1>2. ASSUME NEW t \in Task, Enqueue(t) \/ BecomeDue(t) \/ BecomeStale(t) PROVE Ledger'
  BY <1>1, <1>2 DEF Enqueue, BecomeDue, BecomeStale, workerVars, historyVars
<1>3. ASSUME NEW S \in SUBSET Sequence, StopSequence(S) PROVE Ledger'
  BY <1>1, <1>3 DEF StopSequence, workerVars, historyVars
<1>4. ASSUME NEW w \in Worker,
             \/ Startup(w) \/ Reap(w) \/ SelectForUpdate(w) \/ EndTick(w) \/ Gathered(w)
             \/ Crash(w) \/ Cancel(w)
      PROVE  Ledger'
  BY <1>1, <1>4 DEF Startup, Reap, SelectForUpdate, EndTick, Gathered, Crash, Cancel, rowVars, historyVars
<1>5. ASSUME NEW w \in Worker, Claim(w) PROVE Ledger'
  <2>1. \A t \in locked[w] : NewRun(t, w).pc # "write"
    BY DEF NewRun
  <2> QED
    BY <1>5, <2>1 DEF Claim, ReadIsFresh, EveryFailureCharged
<1>6. ASSUME NEW r \in runs, HandlerReturns(r) \/ HandlerRaises(r) PROVE Ledger'
  <2>1. At(r, "complete").pc = "complete" /\ At(r, "read").pc = "read"
    BY DEF At, TypeOK, Run
  <2> QED
    BY <1>6, <2>1 DEF HandlerReturns, HandlerRaises, Advance, rowVars, historyVars, ReadIsFresh, EveryFailureCharged
<1>7. ASSUME NEW r \in runs, ReadAttempts(r) PROVE Ledger'
  <2> DEFINE n == [r EXCEPT !.pc = "write", !.read = attempts[r.task]]
  <2>1. n.task = r.task /\ n.read = attempts[r.task]
    BY DEF TypeOK, Run
  <2>2. runs' = (runs \ {r}) \cup {n}
    BY <1>7 DEF ReadAttempts, Advance
  <2> HIDE DEF n
  <2> QED
    BY <1>7, <2>1, <2>2 DEF ReadAttempts, rowVars, historyVars, ReadIsFresh, EveryFailureCharged
<1>8. ASSUME NEW r \in runs, CompleteTask(r) PROVE Ledger'
  BY <1>1, <1>8 DEF CompleteTask, historyVars
<1>9. ASSUME NEW r \in runs, FailTask(r) PROVE Ledger'
  <2>1. /\ r.task \in Task /\ r.read = attempts[r.task]
        /\ \A q \in runs : q.task = r.task => q = r
    BY <1>9 DEF FailTask, TypeOK, Run, OneRunPerTask, ReadIsFresh
  <2>2. /\ runs' = runs \ {r}
        /\ attempts' = [attempts EXCEPT ![r.task] = attempts[r.task] + 1]
        /\ failures' = [failures EXCEPT ![r.task] = @ + 1]
    BY <1>9, <2>1 DEF FailTask, MarkFailed, AttemptsNow
  <2>3. ReadIsFresh'
    BY <2>1, <2>2 DEF ReadIsFresh, TypeOK, Run
  <2> QED
    BY <2>2, <2>3 DEF EveryFailureCharged
<1>10. ASSUME NEW r \in runs, CompleteRaises(r) \/ FailRaises(r) PROVE FALSE
  BY <1>10, "db" \notin Fault DEF CompleteRaises, FailRaises, Strike
<1>11. CASE UNCHANGED vars
  BY <1>1, <1>11 DEF vars, rowVars, workerVars, historyVars
<1> QED
  BY <1>2, <1>3, <1>4, <1>5, <1>6, <1>7, <1>8, <1>9, <1>10, <1>11 DEF Next, Tick, RunStep

\* attempts counts exactly the failures although fail_task reads and writes it in
\* two statements, however many workers, crashes and cancelled ticks there are.
THEOREM EveryFailureChargedTheorem ==
  ASSUME "db" \notin Fault
  PROVE  Spec => []EveryFailureCharged
<1>1. Init => Ownership /\ Ledger
  BY OwnershipInit, LedgerInit
<1>2. Ownership /\ Ledger /\ [Next]_vars => (Ownership /\ Ledger)'
  BY OwnershipStep, LedgerStep
<1>3. Ledger => EveryFailureCharged
  BY DEF Ledger
<1> QED
  BY <1>1, <1>2, <1>3, PTL DEF Spec

-----------------------------------------------------------------------------
(* Finished rows *)

\* Every UPDATE of a status finds a row that is not finished, whoever runs it.
LEMMA FinishedStep ==
  ASSUME "db" \notin Fault, Ownership, [Next]_vars, NEW t \in Task, status[t] \in {"done", "dead"}
  PROVE  status'[t] = status[t]
<1> USE DEF Ownership
<1>1. \A r \in runs : r.task # t
  BY DEF RunOwnsRow
<1>2. t \notin stale /\ \A w \in Worker : t \notin locked[w]
  BY DEF StaleIsAbandoned, ClaimsAreDisjoint
<1>3. ASSUME NEW u \in Task, Enqueue(u) \/ BecomeDue(u) \/ BecomeStale(u) PROVE status'[t] = status[t]
  BY <1>3 DEF Enqueue, BecomeDue, BecomeStale, Set
<1>4. ASSUME NEW S \in SUBSET Sequence, StopSequence(S) PROVE status'[t] = status[t]
  BY <1>4 DEF StopSequence, Set
<1>5. ASSUME NEW w \in Worker, Tick(w) \/ Crash(w) \/ Cancel(w) PROVE status'[t] = status[t]
  BY <1>2, <1>5 DEF Tick, Startup, Reap, SelectForUpdate, EndTick, Claim, Gathered, Crash, Cancel, rowVars, Set
<1>6. ASSUME NEW r \in runs, RunStep(r) PROVE status'[t] = status[t]
  BY <1>1, <1>6 DEF RunStep, HandlerReturns, HandlerRaises, CompleteTask, MarkDone, ReadAttempts,
                    FailTask, MarkFailed, rowVars, Set
<1>7. ASSUME NEW r \in runs, CompleteRaises(r) \/ FailRaises(r) PROVE FALSE
  BY <1>7, "db" \notin Fault DEF CompleteRaises, FailRaises, Strike
<1>8. CASE UNCHANGED vars
  BY <1>8 DEF vars, rowVars
<1> QED
  BY <1>3, <1>4, <1>5, <1>6, <1>7, <1>8 DEF Next

\* done and dead are final, although complete_task, fail_task and the reaper
\* overwrite whatever status they find.
THEOREM FinishedIsFinal ==
  ASSUME "db" \notin Fault
  PROVE  Spec => FinishedStaysFinished
<1>1. Init => Ownership
  BY OwnershipInit
<1>2. Ownership /\ [Next]_vars => Ownership'
  BY OwnershipStep
<1>3. Ownership /\ [Next]_vars
      => [\A t \in Task : status[t] \in {"done", "dead"} => status'[t] = status[t]]_vars
  BY FinishedStep
<1> QED
  BY <1>1, <1>2, <1>3, PTL DEF Spec, FinishedStaysFinished

-----------------------------------------------------------------------------
(* The table implements WorkQueue *)

\* A step that changes nobody's job and charges nothing.
LEMMA Stutters ==
  ASSUME \A t \in Task : JobOf(t)' = JobOf(t), attempts' = attempts
  PROVE  UNCHANGED Queue!queueVars
BY DEF Queue!queueVars

\* A step that gives the jobs S the state s.
LEMMA Moves ==
  ASSUME NEW S \in SUBSET Task, NEW s,
         \A t \in Task : JobOf(t)' = IF t \in S THEN s ELSE JobOf(t)
  PROVE  Queue!Move(S, s)
BY DEF Queue!Move

\* The jobs of a state, read from the table.
LEMMA InState ==
  ASSUME NEW S \in SUBSET Task, NEW s, \A t \in S : JobOf(t) = s
  PROVE  S \subseteq Queue!In(s)
BY DEF Queue!In

\* A job depends on the status of the row and on whether a run of it is alive.
LEMMA SameJob ==
  ASSUME NEW t \in Task, status'[t] = status[t], RunsOf(t) = {} <=> RunsOf(t)' = {}
  PROVE  JobOf(t)' = JobOf(t)
BY DEF JobOf

LEMMA RefinementInit == Init => Queue!QueueInit
<1> SUFFICES ASSUME Init PROVE Queue!QueueInit
  OBVIOUS
<1>1. \A t \in Task : JobOf(t) = "absent"
  BY DEF Init, JobOf
<1> QED
  BY <1>1 DEF Init, Queue!QueueInit

LEMMA RefinementStep ==
  ASSUME "db" \notin Fault, Ownership, Ledger, AttemptsBudget, [Next]_vars
  PROVE  [Queue!QueueNext]_(Queue!queueVars)
<1> USE DEF Ownership
<1>1. ASSUME NEW t \in Task, Enqueue(t) PROVE Queue!Submit(t)
  <2>1. JobOf(t) = "absent"
    BY <1>1 DEF Enqueue, JobOf
  <2>2. \A u \in Task : JobOf(u)' = IF u \in {t} THEN "queued" ELSE JobOf(u)
    <3> SUFFICES ASSUME NEW u \in Task PROVE JobOf(u)' = IF u \in {t} THEN "queued" ELSE JobOf(u)
      OBVIOUS
    <3>1. CASE u = t
      BY <1>1, <3>1 DEF Enqueue, Set, JobOf
    <3>2. CASE u # t
      BY <1>1, <3>2, SameJob DEF Enqueue, Set, workerVars, RunsOf
    <3> QED
      BY <3>1, <3>2
  <2>3. Queue!Move({t}, "queued")
    BY <2>2, Moves
  <2> QED
    BY <1>1, <2>1, <2>3 DEF Enqueue, Queue!Submit
<1>2. ASSUME status' = status, attempts' = attempts,
             \A t \in Task : RunsOf(t) = {} <=> RunsOf(t)' = {}
      PROVE  UNCHANGED Queue!queueVars
  BY <1>2, SameJob, Stutters
<1>3. ASSUME NEW S \in SUBSET Sequence, StopSequence(S) PROVE Queue!Withdraw(S)
  <2>1. S \in SUBSET Task /\ \A t \in S : status[t] = "pending"
    BY <1>3, TaskQueueAssumption DEF StopSequence
  <2>2. \A t \in S : JobOf(t) = "queued"
    BY <2>1 DEF JobOf
  <2>3. \A t \in Task : JobOf(t)' = IF t \in S THEN "over" ELSE JobOf(t)
    <3> SUFFICES ASSUME NEW t \in Task PROVE JobOf(t)' = IF t \in S THEN "over" ELSE JobOf(t)
      OBVIOUS
    <3>1. CASE t \in S
      BY <1>3, <3>1 DEF StopSequence, Set, JobOf
    <3>2. CASE t \notin S
      BY <1>3, <3>2, SameJob DEF StopSequence, Set, workerVars, RunsOf
    <3> QED
      BY <3>1, <3>2
  <2>4. Queue!Move(S, "over") /\ S \subseteq Queue!In("queued")
    BY <2>1, <2>2, <2>3, Moves, InState
  <2> QED
    BY <1>3, <2>4 DEF StopSequence, Queue!Withdraw
<1>4. ASSUME NEW w \in Worker, Reap(w) PROVE Queue!Recover(stale)
  <2>1. stale \in SUBSET Task /\ \A t \in stale : status[t] = "claimed" /\ RunsOf(t) = {}
    BY DEF TypeOK, StaleIsAbandoned
  <2>2. \A t \in stale : JobOf(t) = "orphaned"
    BY <2>1 DEF JobOf
  <2>3. \A t \in Task : JobOf(t)' = IF t \in stale THEN "queued" ELSE JobOf(t)
    <3> SUFFICES ASSUME NEW t \in Task PROVE JobOf(t)' = IF t \in stale THEN "queued" ELSE JobOf(t)
      OBVIOUS
    <3>1. CASE t \in stale
      BY <1>4, <3>1 DEF Reap, Set, JobOf
    <3>2. CASE t \notin stale
      BY <1>4, <3>2, SameJob DEF Reap, Set, RunsOf
    <3> QED
      BY <3>1, <3>2
  <2>4. Queue!Move(stale, "queued") /\ stale \subseteq Queue!In("orphaned")
    BY <2>1, <2>2, <2>3, Moves, InState
  <2> QED
    BY <1>4, <2>4 DEF Reap, Queue!Recover
<1>5. ASSUME NEW w \in Worker, Claim(w) PROVE Queue!Take(locked[w])
  <2> DEFINE S == locked[w]
  <2>1. S \in SUBSET Task /\ \A t \in S : status[t] = "pending"
    BY DEF TypeOK, ClaimsAreDisjoint
  <2>2. \A t \in S : JobOf(t) = "queued"
    BY <2>1 DEF JobOf
  <2>3. \A t \in S : NewRun(t, w).task = t
    BY DEF NewRun
  <2>4. /\ runs' = runs \cup {NewRun(t, w) : t \in S}
        /\ \A t \in Task : status'[t] = IF t \in S THEN "claimed" ELSE status[t]
    BY <1>5 DEF Claim, Set
  <2> HIDE DEF S
  <2>5. \A t \in Task : JobOf(t)' = IF t \in S THEN "held" ELSE JobOf(t)
    <3> SUFFICES ASSUME NEW t \in Task PROVE JobOf(t)' = IF t \in S THEN "held" ELSE JobOf(t)
      OBVIOUS
    <3>1. CASE t \in S
      <4>1. RunsOf(t)' # {}
        BY <2>3, <2>4, <3>1 DEF RunsOf
      <4> QED
        BY <2>4, <3>1, <4>1 DEF JobOf
    <3>2. CASE t \notin S
      <4>1. RunsOf(t)' = RunsOf(t)
        BY <2>3, <2>4, <3>2 DEF RunsOf
      <4> QED
        BY <2>4, <3>2, <4>1, SameJob
    <3> QED
      BY <3>1, <3>2
  <2>6. Queue!Move(S, "held") /\ S \subseteq Queue!In("queued")
    BY <2>1, <2>2, <2>5, Moves, InState
  <2> QED
    BY <1>5, <2>6 DEF Claim, Queue!Take, S
<1>6. ASSUME NEW w \in Worker, Crash(w) \/ Cancel(w)
      PROVE  \E S \in SUBSET Task : Queue!Lose(S)
  <2> DEFINE S == {t \in Task : RunsOf(t) # {} /\ RunsOf(t)' = {}}
  <2>1. runs' \subseteq runs /\ status' = status /\ attempts' = attempts
    BY <1>6 DEF Crash, Cancel, rowVars
  <2>2. \A t \in S : status[t] = "claimed" /\ JobOf(t) = "held"
    BY DEF RunOwnsRow, RunsOf, JobOf
  <2>3. \A t \in Task : JobOf(t)' = IF t \in S THEN "orphaned" ELSE JobOf(t)
    <3> SUFFICES ASSUME NEW t \in Task PROVE JobOf(t)' = IF t \in S THEN "orphaned" ELSE JobOf(t)
      OBVIOUS
    <3>1. CASE t \in S
      BY <2>1, <2>2, <3>1 DEF JobOf
    <3>2. CASE t \notin S
      <4>1. RunsOf(t) = {} <=> RunsOf(t)' = {}
        BY <2>1, <3>2 DEF RunsOf
      <4> QED
        BY <2>1, <3>2, <4>1, SameJob
    <3> QED
      BY <3>1, <3>2
  <2> HIDE DEF S
  <2>4. S \in SUBSET Task
    BY DEF S
  <2>5. Queue!Move(S, "orphaned") /\ S \subseteq Queue!In("held")
    BY <2>2, <2>3, <2>4, Moves, InState
  <2> QED
    BY <2>1, <2>4, <2>5 DEF Queue!Lose
<1>7. ASSUME NEW r \in runs, HandlerReturns(r) \/ HandlerRaises(r) \/ ReadAttempts(r)
      PROVE  \A t \in Task : RunsOf(t) = {} <=> RunsOf(t)' = {}
  <2>1. PICK n : runs' = (runs \ {r}) \cup {n} /\ n.task = r.task
    <3>1. r \in Run
      BY DEF TypeOK
    <3>2. /\ At(r, "complete").task = r.task /\ At(r, "read").task = r.task
          /\ [r EXCEPT !.pc = "write", !.read = attempts[r.task]].task = r.task
      BY <3>1 DEF At, Run
    <3> QED
      BY <1>7, <3>2 DEF HandlerReturns, HandlerRaises, ReadAttempts, Advance
  <2> QED
    BY <2>1 DEF RunsOf
<1>8. ASSUME NEW r \in runs, NEW s, Set({r.task}, s), runs' = runs \ {r}
      PROVE  /\ r.task \in Task /\ status[r.task] = "claimed" /\ JobOf(r.task) = "held"
             /\ \A t \in Task \ {r.task} : JobOf(t)' = JobOf(t)
             /\ status'[r.task] = s
  <2>1. r.task \in Task /\ status[r.task] = "claimed" /\ r \in RunsOf(r.task)
    BY DEF TypeOK, Run, RunOwnsRow, RunsOf
  <2>2. ASSUME NEW t \in Task \ {r.task} PROVE JobOf(t)' = JobOf(t)
    <3>1. status'[t] = status[t] /\ RunsOf(t)' = RunsOf(t)
      BY <1>8 DEF Set, RunsOf
    <3> QED
      BY <3>1, SameJob
  <2> QED
    BY <1>8, <2>1, <2>2 DEF JobOf, Set
<1>9. ASSUME NEW r \in runs, CompleteTask(r) PROVE Queue!Finish(r.task)
  <2>1. Set({r.task}, "done") /\ runs' = runs \ {r} /\ attempts' = attempts
    BY <1>9 DEF CompleteTask, MarkDone
  <2>2. /\ r.task \in Task /\ JobOf(r.task) = "held"
        /\ \A t \in Task \ {r.task} : JobOf(t)' = JobOf(t)
        /\ status'[r.task] = "done"
    BY <1>8, <2>1
  <2>3. \A t \in Task : JobOf(t)' = IF t \in {r.task} THEN "over" ELSE JobOf(t)
    BY <2>2 DEF JobOf
  <2>4. Queue!Move({r.task}, "over")
    BY <2>2, <2>3, Moves
  <2> QED
    BY <2>1, <2>2, <2>4 DEF Queue!Finish
<1>10. ASSUME NEW r \in runs, FailTask(r) PROVE Queue!Retry(r.task) \/ Queue!GiveUp(r.task)
  <2> DEFINE t == r.task
  <2>1. /\ runs' = runs \ {r} /\ Set({t}, IF IsRetried(r) THEN "pending" ELSE "dead")
        /\ attempts' = [attempts EXCEPT ![t] = r.read + 1]
        /\ r.pc = "write"
    BY <1>10 DEF FailTask, MarkFailed, AttemptsNow
  <2>2. /\ t \in Task /\ status[t] = "claimed" /\ JobOf(t) = "held"
        /\ \A u \in Task \ {t} : JobOf(u)' = JobOf(u)
        /\ status'[t] = IF IsRetried(r) THEN "pending" ELSE "dead"
    BY <1>8, <2>1
  <2>3. r.read = attempts[t] /\ attempts[t] < MaxAttempts
    BY <2>1, <2>2 DEF Ledger, ReadIsFresh, AttemptsBudget
  <2> HIDE DEF t
  <2>4. Queue!Charge(t)
    BY <2>1, <2>3 DEF Queue!Charge
  <2>5. CASE IsRetried(r)
    <3>1. attempts[t] + 1 < MaxAttempts
      BY <2>3, <2>5 DEF IsRetried, AttemptsNow
    <3>2. \A u \in Task : JobOf(u)' = IF u \in {t} THEN "queued" ELSE JobOf(u)
      BY <2>2, <2>5 DEF JobOf
    <3>3. Queue!Move({t}, "queued")
      BY <2>2, <3>2, Moves
    <3>4. Queue!Retry(t)
      BY <2>2, <2>4, <3>1, <3>3 DEF Queue!Retry
    <3> QED
      BY <3>4 DEF t
  <2>6. CASE ~IsRetried(r)
    <3>1. \A u \in Task : JobOf(u)' = IF u \in {t} THEN "over" ELSE JobOf(u)
      BY <2>2, <2>6 DEF JobOf
    <3>2. Queue!Move({t}, "over")
      BY <2>2, <3>1, Moves
    <3>3. Queue!GiveUp(t)
      BY <2>2, <2>3, <2>4, <3>2 DEF Queue!GiveUp
    <3> QED
      BY <3>3 DEF t
  <2> QED
    BY <2>5, <2>6
<1>11. CASE \E t \in Task : Enqueue(t) \/ BecomeDue(t) \/ BecomeStale(t)
  <2>1. CASE \E t \in Task : Enqueue(t)
    BY <1>1, <2>1 DEF Queue!QueueNext
  <2>2. CASE \E t \in Task : BecomeDue(t) \/ BecomeStale(t)
    BY <1>2, <2>2 DEF BecomeDue, BecomeStale, workerVars, RunsOf
  <2> QED
    BY <1>11, <2>1, <2>2
<1>12. CASE \E S \in SUBSET Sequence : StopSequence(S)
  BY <1>3, <1>12, TaskQueueAssumption DEF Queue!QueueNext
<1>13. CASE \E w \in Worker : Tick(w) \/ Crash(w) \/ Cancel(w)
  <2>1. PICK w \in Worker : Tick(w) \/ Crash(w) \/ Cancel(w)
    BY <1>13
  <2>2. CASE Reap(w)
    <3>1. stale \in SUBSET Task
      BY DEF TypeOK
    <3> QED
      BY <1>4, <2>2, <3>1 DEF Queue!QueueNext
  <2>3. CASE Claim(w)
    <3>1. locked[w] \in SUBSET Task
      BY DEF TypeOK
    <3> QED
      BY <1>5, <2>3, <3>1 DEF Queue!QueueNext
  <2>4. CASE Crash(w) \/ Cancel(w)
    BY <1>6, <2>4 DEF Queue!QueueNext
  <2>5. CASE Startup(w) \/ SelectForUpdate(w) \/ EndTick(w) \/ Gathered(w)
    BY <1>2, <2>5 DEF Startup, SelectForUpdate, EndTick, Gathered, rowVars, RunsOf
  <2> QED
    BY <2>1, <2>2, <2>3, <2>4, <2>5 DEF Tick
<1>14. CASE \E r \in runs : RunStep(r) \/ CompleteRaises(r) \/ FailRaises(r)
  <2>1. PICK r \in runs : RunStep(r) \/ CompleteRaises(r) \/ FailRaises(r)
    BY <1>14
  <2>2. r.task \in Task
    BY DEF TypeOK, Run
  <2>3. CASE HandlerReturns(r) \/ HandlerRaises(r) \/ ReadAttempts(r)
    BY <1>2, <1>7, <2>3 DEF HandlerReturns, HandlerRaises, ReadAttempts, rowVars
  <2>4. CASE CompleteTask(r)
    BY <1>9, <2>2, <2>4 DEF Queue!QueueNext
  <2>5. CASE FailTask(r)
    BY <1>10, <2>2, <2>5 DEF Queue!QueueNext
  <2>6. CASE CompleteRaises(r) \/ FailRaises(r)
    BY <2>6, "db" \notin Fault DEF CompleteRaises, FailRaises, Strike
  <2> QED
    BY <2>1, <2>3, <2>4, <2>5, <2>6 DEF RunStep
<1>15. CASE UNCHANGED vars
  BY <1>2, <1>15 DEF vars, rowVars, workerVars, RunsOf
<1> QED
  BY <1>11, <1>12, <1>13, <1>14, <1>15 DEF Next

\* The tasks table, its workers and the reaper implement the abstract queue, so
\* what is shown of components on top of WorkQueue holds on top of the table.
THEOREM TableImplementsQueue ==
  ASSUME "db" \notin Fault
  PROVE  Spec => ImplementsWorkQueue
<1>1. Init => Ownership /\ Ledger /\ Shape /\ Accounts /\ Queue!QueueInit
  BY OwnershipInit, LedgerInit, ShapeInit, AccountsInit, RefinementInit
<1>2. Ownership /\ Ledger /\ Shape /\ Accounts /\ [Next]_vars => (Ownership /\ Ledger /\ Shape /\ Accounts)'
  BY OwnershipStep, LedgerStep, ShapeStep, AccountsStep
<1>3. Ownership /\ Ledger /\ Accounts /\ [Next]_vars => [Queue!QueueNext]_(Queue!queueVars)
  BY RefinementStep DEF Accounts
<1> QED
  BY <1>1, <1>2, <1>3, PTL DEF Spec, ImplementsWorkQueue, Queue!QueueSpec
=============================================================================
