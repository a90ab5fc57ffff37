------------------------------ MODULE WorkQueue ------------------------------
(***************************************************************************)
(* What the Postgres-backed queue promises its callers, with no rows, no    *)
(* workers and no clocks: every job is queued once, held by at most one     *)
(* holder, charged one attempt for every failure, and finished for good.    *)
(* A holder that disappears leaves an orphaned job, which is recovered      *)
(* without a charge.  TaskQueue implements this specification, and the      *)
(* delivery model uses its actions for the send_message tasks.              *)
(***************************************************************************)
EXTENDS Integers

CONSTANTS
  Task,         \* the jobs, one per dedupe_key
  MaxAttempts   \* tasks.max_attempts

VARIABLES
  job,    \* job[t]: what a caller of the queue can tell about t
  tries   \* tries[t]: failed attempts charged to t

queueVars == <<job, tries>>

JobState == {"absent", "queued", "held", "orphaned", "over"}

QueueTypeOK ==
  /\ job \in [Task -> JobState]
  /\ tries \in [Task -> 0..MaxAttempts]

QueueInit ==
  /\ job = [t \in Task |-> "absent"]
  /\ tries = [t \in Task |-> 0]

In(state) == {t \in Task : job[t] = state}
Move(S, state) == job' = [t \in Task |-> IF t \in S THEN state ELSE job[t]]
Charge(t) == tries' = [tries EXCEPT ![t] = @ + 1]

\* A job enters the queue once; enqueuing it again changes nothing.
Submit(t) ==
  /\ job[t] = "absent"
  /\ Move({t}, "queued")
  /\ UNCHANGED tries

\* A claim hands out a batch: no job of it is held by anyone else.
Take(S) ==
  /\ S \subseteq In("queued")
  /\ Move(S, "held")
  /\ UNCHANGED tries

Finish(t) ==
  /\ job[t] = "held"
  /\ Move({t}, "over")
  /\ UNCHANGED tries

\* A failure costs an attempt and, while attempts remain, queues the job again.
Retry(t) ==
  /\ job[t] = "held"
  /\ tries[t] + 1 < MaxAttempts
  /\ Move({t}, "queued")
  /\ Charge(t)

\* A failure that is not retried: a job nobody can handle, or no attempt left.
GiveUp(t) ==
  /\ job[t] = "held"
  /\ tries[t] < MaxAttempts
  /\ Move({t}, "over")
  /\ Charge(t)

\* The holder of the jobs S disappears: they are nobody's, and still not lost.
Lose(S) ==
  /\ S \subseteq In("held")
  /\ Move(S, "orphaned")
  /\ UNCHANGED tries

\* Orphaned jobs return to the queue; a recovery costs no attempt.
Recover(S) ==
  /\ S \subseteq In("orphaned")
  /\ Move(S, "queued")
  /\ UNCHANGED tries

\* A10 stops a sequence: only a job nobody holds can be withdrawn.
Withdraw(S) ==
  /\ S \subseteq In("queued")
  /\ Move(S, "over")
  /\ UNCHANGED tries

QueueNext ==
  \/ \E t \in Task : Submit(t) \/ Finish(t) \/ Retry(t) \/ GiveUp(t)
  \/ \E S \in SUBSET Task : Take(S) \/ Lose(S) \/ Recover(S) \/ Withdraw(S)

QueueSpec == QueueInit /\ [][QueueNext]_queueVars
=============================================================================
