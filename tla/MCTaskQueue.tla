---------------------------- MODULE MCTaskQueue ----------------------------
(***************************************************************************)
(* TaskQueue on small instances: three tasks, the last of a kind no worker  *)
(* has a handler for, one of the first two part of an outreach sequence.    *)
(***************************************************************************)
EXTENDS TaskQueue, TLC

CONSTANTS t1, t2, t3, w1, w2

MCTask == {t1, t2, t3}
MCTwoTasks == {t1, t2}
MCWorker == {w1, w2}
MCOneWorker == {w1}
MCRank == [t \in Task |-> CASE t = t1 -> 1 [] t = t2 -> 2 [] OTHER -> 3]
MCHandled == {t1, t2}
MCSequence == {t2}
MCNoSequence == {}
KillFaults == {"crash", "cancel"}
AllFaults == {"crash", "cancel", "db"}
CrashFaults == {"crash"}
MCSymmetry == Permutations(Worker)
=============================================================================
