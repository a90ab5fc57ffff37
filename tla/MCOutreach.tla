----------------------------- MODULE MCOutreach -----------------------------
EXTENDS Outreach, TLC
CONSTANTS l1, r1, r2
MCLead == {l1}
MCWorkerOnly == {"worker"}
MCWorkerAndCli == {"worker", "cli"}
MCCaps == <<2>>
MCRequest == {r1, r2}
NoKind == {}
MCKind == {"unsubscribe"}
NoLead == {}
MCSymmetry == Permutations(Request)
=============================================================================
