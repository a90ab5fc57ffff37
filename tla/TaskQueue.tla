------------------------------ MODULE TaskQueue ------------------------------
(***************************************************************************)
(* The tasks table (pipeline/state_machine.py), the worker that drains it   *)
(* (pipeline/worker.py) and the handler registry (pipeline/stages.py).      *)
(*                                                                          *)
(* A step is one SQL statement or transaction, or one await of a handler.   *)
(* A run is the coroutine _run_one of one claim of one task; the runs of a  *)
(* tick are gathered, and when one of them raises the tick ends while its   *)
(* siblings keep running as orphans, which no timeout bounds any more.      *)
(* Clocks are abstracted to two sets of rows: those whose run_after has     *)
(* come, and those whose claimed_at is older than CLAIM_TIMEOUT_S.          *)
(***************************************************************************)
EXTENDS Integers, FiniteSets

CONSTANTS
  Task,         \* the rows of tasks, one per dedupe_key
  Worker,       \* the worker processes
  Rank,         \* Rank[t]: the place of t in ORDER BY priority, id
  Batch,        \* BATCH_SIZE
  MaxAttempts,  \* tasks.max_attempts
  Handled,      \* the tasks whose kind has a registered handler
  Sequence,     \* the generate_draft and send_message tasks, which A10 may stop
  Fault,        \* the kinds of fault of this instance
  MaxFaults     \* the bound on faults

FaultKind == {"crash", "cancel", "db"}

ASSUME TaskQueueAssumption ==
  /\ Rank \in [Task -> Nat]
  /\ \A s, t \in Task : Rank[s] = Rank[t] => s = t
  /\ Batch \in Nat \ {0}
  /\ MaxAttempts \in Nat \ {0}
  /\ Handled \subseteq Task
  /\ Sequence \subseteq Task
  /\ Fault \subseteq FaultKind
  /\ MaxFaults \in Nat

VARIABLES
  status,    \* tasks.status; "absent" before the row is inserted
  attempts,  \* tasks.attempts
  due,       \* the rows with run_after <= now()
  stale,     \* the claimed rows with claimed_at older than CLAIM_TIMEOUT_S
  phase,     \* where each worker's tick stands
  locked,    \* the rows each worker's open claim transaction has locked
  runs,      \* the live _run_one coroutines
  claims,    \* history: how often each row was claimed
  failures,  \* history: how often fail_task ran to its end on each row
  returns,   \* history: how often the handler of each row returned normally
  faults     \* faults so far

rowVars == <<status, attempts, due, stale>>
workerVars == <<phase, locked, runs>>
historyVars == <<claims, failures, returns>>
vars == <<rowVars, workerVars, historyVars, faults>>

Status == {"absent", "pending", "claimed", "done", "dead"}
Phase == {"down", "idle", "claiming", "locking", "gathering"}

\* task, worker: which row, run by whom; claim: by which claim of the row;
\* pc: "handle" awaits the handler, "complete" complete_task, "read" and
\* "write" the two statements of fail_task; retryable and read are its
\* argument and the attempts it read; orphan: its tick is over.
Run == [task : Task, worker : Worker, claim : Nat,
        pc : {"handle", "complete", "read", "write"},
        retryable : BOOLEAN, read : Nat, orphan : BOOLEAN]

Init ==
  /\ status = [t \in Task |-> "absent"]
  /\ attempts = [t \in Task |-> 0]
  /\ due = {}
  /\ stale = {}
  /\ phase = [w \in Worker |-> "down"]
  /\ locked = [w \in Worker |-> {}]
  /\ runs = {}
  /\ claims = [t \in Task |-> 0]
  /\ failures = [t \in Task |-> 0]
  /\ returns = [t \in Task |-> 0]
  /\ faults = 0

-----------------------------------------------------------------------------
(* Helpers *)

Locked == UNION {locked[w] : w \in Worker}
RunsOf(t) == {r \in runs : r.task = t}
TickRuns(w) == {r \in runs : r.worker = w /\ ~r.orphan}
Set(S, s) == status' = [t \in Task |-> IF t \in S THEN s ELSE status[t]]
At(r, pc) == [r EXCEPT !.pc = pc]
Advance(r, next) == runs' = (runs \ {r}) \cup {next}
Strike(kind) == kind \in Fault /\ faults < MaxFaults /\ faults' = faults + 1

\* Mutant: the claim reads the pending rows without FOR UPDATE SKIP LOCKED.
ClaimableUnlocked == {t \in due : status[t] = "pending"}

\* The rows claim_tasks selects: ORDER BY priority, id ... LIMIT batch_size.
Claimable == {t \in due : status[t] = "pending"} \ Locked
Heads(S) ==
  {P \in SUBSET S : /\ Cardinality(P) = Batch \/ P = S
                    /\ Cardinality(P) <= Batch
                    /\ \A p \in P, q \in S \ P : Rank[p] < Rank[q]}

-----------------------------------------------------------------------------
(* The producers of tasks, and time *)

\* enqueue_task: ON CONFLICT (dedupe_key) DO NOTHING makes it a no-op for a
\* row that exists, whatever its status.
Enqueue(t) ==
  /\ status[t] = "absent"
  /\ Set({t}, "pending")
  /\ due' = due \cup {t}
  /\ UNCHANGED <<attempts, stale, workerVars, historyVars, faults>>

\* triage_message: UPDATE tasks SET status = 'dead' ... AND status = 'pending'.
\* A row locked by a claim is waited for, and is no longer pending then.
StopSequence(S) ==
  /\ S # {}
  /\ S = {t \in Sequence : status[t] = "pending"}
  /\ S \cap Locked = {}
  /\ Set(S, "dead")
  /\ UNCHANGED <<attempts, due, stale, workerVars, historyVars, faults>>

BecomeDue(t) ==
  /\ status[t] = "pending" /\ t \notin due
  /\ due' = due \cup {t}
  /\ UNCHANGED <<status, attempts, stale, workerVars, historyVars, faults>>

\* Mutant: CLAIM_TIMEOUT_S is shorter than the time a tick may take.
BecomeStaleTooSoon(t) ==
  /\ status[t] = "claimed" /\ t \notin stale
  /\ stale' = stale \cup {t}
  /\ UNCHANGED <<status, attempts, due, workerVars, historyVars, faults>>

\* Mutant: claim_tasks leaves claimed_at NULL, which no comparison finds old.
BecomeStaleNever(t) ==
  /\ claims[t] = 0
  /\ BecomeStaleTooSoon(t)

\* arq cancels a tick after 300 s, CLAIM_TIMEOUT_S is 600 s: a claim cannot
\* outlive its timeout while its run belongs to a tick, only once the run is
\* gone or is an orphan.
BecomeStale(t) ==
  /\ status[t] = "claimed" /\ t \notin stale
  /\ \A r \in RunsOf(t) : r.orphan
  /\ stale' = stale \cup {t}
  /\ UNCHANGED <<status, attempts, due, workerVars, historyVars, faults>>

-----------------------------------------------------------------------------
(* The worker's tick *)

\* _on_startup: the handlers are registered and the pool opened.
Startup(w) ==
  /\ phase[w] = "down"
  /\ phase' = [phase EXCEPT ![w] = "idle"]
  /\ UNCHANGED <<rowVars, locked, runs, historyVars, faults>>

\* The cron job starts a tick, which first calls reap_stale_claims.
Reap(w) ==
  /\ phase[w] = "idle"
  /\ Set(stale, "pending")
  /\ stale' = {}
  /\ phase' = [phase EXCEPT ![w] = "claiming"]
  /\ UNCHANGED <<attempts, due, locked, runs, historyVars, faults>>

\* claim_tasks, first statement: SELECT ... FOR UPDATE SKIP LOCKED.
SelectForUpdate(w) ==
  /\ phase[w] = "claiming"
  /\ Claimable # {}
  /\ \E P \in Heads(Claimable) : locked' = [locked EXCEPT ![w] = P]
  /\ phase' = [phase EXCEPT ![w] = "locking"]
  /\ UNCHANGED <<rowVars, runs, historyVars, faults>>

\* claim_tasks found nothing: the tick is over.
EndTick(w) ==
  /\ phase[w] = "claiming"
  /\ Claimable = {}
  /\ phase' = [phase EXCEPT ![w] = "idle"]
  /\ UNCHANGED <<rowVars, locked, runs, historyVars, faults>>

\* claim_tasks, second statement and COMMIT; gather starts one run per task.
\* A task of an unregistered kind goes straight to fail_task(retryable=False).
NewRun(t, w) ==
  [task |-> t, worker |-> w, claim |-> claims[t] + 1,
   pc |-> IF t \in Handled THEN "handle" ELSE "read",
   retryable |-> t \in Handled, read |-> 0, orphan |-> FALSE]

Claim(w) ==
  /\ phase[w] = "locking"
  /\ Set(locked[w], "claimed")
  /\ claims' = [t \in Task |-> IF t \in locked[w] THEN claims[t] + 1 ELSE claims[t]]
  /\ runs' = runs \cup {NewRun(t, w) : t \in locked[w]}
  /\ locked' = [locked EXCEPT ![w] = {}]
  /\ phase' = [phase EXCEPT ![w] = "gathering"]
  /\ UNCHANGED <<attempts, due, stale, failures, returns, faults>>

\* gather returns when every run of the batch is over; the tick claims again.
Gathered(w) ==
  /\ phase[w] = "gathering"
  /\ TickRuns(w) = {}
  /\ phase' = [phase EXCEPT ![w] = "claiming"]
  /\ UNCHANGED <<rowVars, locked, runs, historyVars, faults>>

-----------------------------------------------------------------------------
(* One run: _run_one *)

HandlerReturns(r) ==
  /\ r.pc = "handle"
  /\ Advance(r, At(r, "complete"))
  /\ returns' = [returns EXCEPT ![r.task] = @ + 1]
  /\ UNCHANGED <<rowVars, phase, locked, claims, failures, faults>>

\* Mutant: an exception of the handler is swallowed and the task completed.
HandlerRaisesUnnoticed(r) ==
  /\ r.pc = "handle"
  /\ Advance(r, At(r, "complete"))
  /\ UNCHANGED <<rowVars, phase, locked, historyVars, faults>>

HandlerRaises(r) ==
  /\ r.pc = "handle"
  /\ Advance(r, At(r, "read"))
  /\ UNCHANGED <<rowVars, phase, locked, historyVars, faults>>

\* The UPDATE of complete_task names the row by id alone.
MarkDone(t) ==
  /\ t \notin Locked
  /\ Set({t}, "done")
  /\ stale' = stale \ {t}

CompleteTask(r) ==
  /\ r.pc = "complete"
  /\ MarkDone(r.task)
  /\ runs' = runs \ {r}
  /\ UNCHANGED <<attempts, due, phase, locked, historyVars, faults>>

\* fail_task, first statement: SELECT attempts, max_attempts.
ReadAttempts(r) ==
  /\ r.pc = "read"
  /\ Advance(r, [r EXCEPT !.pc = "write", !.read = attempts[r.task]])
  /\ UNCHANGED <<rowVars, phase, locked, historyVars, faults>>

\* Mutant: one attempt too many is granted.
IsRetriedOnceMore(r) == r.retryable /\ r.read + 1 <= MaxAttempts

AttemptsNow(r) == r.read + 1
IsRetried(r) == r.retryable /\ AttemptsNow(r) < MaxAttempts

\* fail_task, second statement: pending again with a backoff, or dead; by id
\* alone and with the attempts computed from the earlier read.
MarkFailed(r) ==
  LET t == r.task
  IN /\ t \notin Locked
     /\ attempts' = [attempts EXCEPT ![t] = AttemptsNow(r)]
     /\ Set({t}, IF IsRetried(r) THEN "pending" ELSE "dead")
     /\ due' = IF IsRetried(r) THEN due \ {t} ELSE due
     /\ stale' = stale \ {t}

FailTask(r) ==
  /\ r.pc = "write"
  /\ MarkFailed(r)
  /\ failures' = [failures EXCEPT ![r.task] = @ + 1]
  /\ runs' = runs \ {r}
  /\ UNCHANGED <<phase, locked, claims, returns, faults>>

-----------------------------------------------------------------------------
(* Faults *)

\* The process is killed: its coroutines vanish, its open transaction is
\* rolled back, and its claimed rows stay claimed.
Crash(w) ==
  /\ phase[w] # "down"
  /\ Strike("crash")
  /\ phase' = [phase EXCEPT ![w] = "down"]
  /\ locked' = [locked EXCEPT ![w] = {}]
  /\ runs' = {r \in runs : r.worker # w}
  /\ UNCHANGED <<rowVars, historyVars>>

\* arq cancels the tick at its job timeout: CancelledError is no Exception,
\* so no run of the tick reaches fail_task.
Cancel(w) ==
  /\ phase[w] \in {"claiming", "locking", "gathering"}
  /\ Strike("cancel")
  /\ phase' = [phase EXCEPT ![w] = "idle"]
  /\ locked' = [locked EXCEPT ![w] = {}]
  /\ runs' = runs \ TickRuns(w)
  /\ UNCHANGED <<rowVars, historyVars>>

\* complete_task raises, before or after its UPDATE took effect: the except
\* clause of _run_one calls fail_task although the handler has returned.
CompleteRaises(r) ==
  /\ r.pc = "complete"
  /\ Strike("db")
  /\ \/ MarkDone(r.task)
     \/ UNCHANGED <<status, stale>>
  /\ Advance(r, At(r, "read"))
  /\ UNCHANGED <<attempts, due, phase, locked, historyVars>>

\* fail_task raises and _run_one with it: gather hands the exception to the
\* tick at once, and the sibling runs live on outside any tick.
FailRaises(r) ==
  /\ r.pc \in {"read", "write"}
  /\ Strike("db")
  /\ \/ r.pc = "write" /\ MarkFailed(r)
     \/ UNCHANGED rowVars
  /\ LET rest == runs \ {r}
     IN IF r.orphan
        THEN runs' = rest /\ UNCHANGED phase
        ELSE /\ runs' = {IF q.worker = r.worker THEN [q EXCEPT !.orphan = TRUE] ELSE q
                           : q \in rest}
             /\ phase' = [phase EXCEPT ![r.worker] = "idle"]
  /\ UNCHANGED <<locked, historyVars>>

-----------------------------------------------------------------------------
RunStep(r) ==
  HandlerReturns(r) \/ HandlerRaises(r) \/ CompleteTask(r) \/ ReadAttempts(r) \/ FailTask(r)

Tick(w) ==
  Startup(w) \/ Reap(w) \/ SelectForUpdate(w) \/ EndTick(w) \/ Claim(w) \/ Gathered(w)

Next ==
  \/ \E t \in Task : Enqueue(t) \/ BecomeDue(t) \/ BecomeStale(t)
  \/ \E S \in SUBSET Sequence : StopSequence(S)
  \/ \E w \in Worker : Tick(w) \/ Crash(w) \/ Cancel(w)
  \/ \E r \in runs : RunStep(r) \/ CompleteRaises(r) \/ FailRaises(r)

Spec == Init /\ [][Next]_vars

\* Time passes; the supervisor starts a worker that is down and the cron job
\* fires; the event loop runs every coroutine that is ready.
Fairness ==
  /\ \A t \in Task : WF_vars(BecomeDue(t)) /\ WF_vars(BecomeStale(t))
  /\ \A w \in Worker : WF_vars(Tick(w))
  /\ \A t \in Task : WF_vars(\E r \in RunsOf(t) : RunStep(r))

FairSpec == Spec /\ Fairness
-----------------------------------------------------------------------------
(* Properties *)

TypeOK ==
  /\ status \in [Task -> Status]
  /\ attempts \in [Task -> Nat]
  /\ due \subseteq Task
  /\ stale \subseteq Task
  /\ phase \in [Worker -> Phase]
  /\ locked \in [Worker -> SUBSET Task]
  /\ runs \subseteq Run
  /\ claims \in [Task -> Nat]
  /\ failures \in [Task -> Nat]
  /\ returns \in [Task -> Nat]
  /\ faults \in 0..MaxFaults

\* Two workers never work on the same task at the same time, although the
\* claim, the reaper and the UPDATEs of a run do not check who owns the row.
OneRunPerTask == \A r, q \in runs : r.task = q.task => r = q

\* While a coroutine works on a row the row is claimed: neither the reaper nor
\* A10 has taken it away, so the unconditional UPDATE by id is safe.
RunOwnsRow == \A r \in runs : status[r.task] = "claimed"

\* FOR UPDATE SKIP LOCKED: two open claim transactions never hold the same row,
\* and a row one of them holds is still pending when it commits.
ClaimsAreDisjoint ==
  /\ \A w \in Worker : \A t \in locked[w] : status[t] = "pending"
  /\ \A v, w \in Worker : v # w => locked[v] \cap locked[w] = {}

\* fail_task reads and writes attempts in two statements: no failure is lost
\* between them, so a row is charged for every failure and only for failures.
EveryFailureCharged == attempts = failures

\* A row that can still run has an attempt left, and a row is dead only when
\* its attempts are used up, its kind has no handler, or A10 stopped it.
AttemptsBudget ==
  \A t \in Task :
    /\ status[t] \in {"pending", "claimed"} => attempts[t] < MaxAttempts
    /\ status[t] = "dead" /\ t \in Handled \ Sequence => attempts[t] >= MaxAttempts

\* At-least-once, and every extra time is paid for by a crash or a cancelled
\* tick: a handler returns at most once more than there were faults.
ExtraReturnsAreFaults == \A t \in Task : returns[t] <= 1 + faults

\* A task is done only after its handler has returned.
DoneMeansHandled == \A t \in Task : status[t] = "done" => returns[t] >= 1

\* done and dead are final: no late UPDATE, no reaper revives a finished row.
FinishedStaysFinished ==
  [][\A t \in Task : status[t] \in {"done", "dead"} => status'[t] = status[t]]_vars

\* Nothing is lost: whatever crashes, is cancelled or fails in the database, an
\* enqueued task is eventually done or dead, and from some point on for good.
EveryTaskSettles ==
  \A t \in Task : status[t] # "absent" ~> [](status[t] \in {"done", "dead"})

\* What a caller can tell about a task, from the row and its live run.
JobOf(t) ==
  CASE status[t] = "absent" -> "absent"
    [] status[t] = "pending" -> "queued"
    [] status[t] = "claimed" -> IF RunsOf(t) = {} THEN "orphaned" ELSE "held"
    [] OTHER -> "over"

Queue == INSTANCE WorkQueue WITH job <- [t \in Task |-> JobOf(t)], tries <- attempts

\* The table, the workers and the reaper together implement the abstract queue.
ImplementsWorkQueue == Queue!QueueSpec
=============================================================================
