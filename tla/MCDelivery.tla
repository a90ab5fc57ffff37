----------------------------- MODULE MCDelivery -----------------------------
EXTENDS Delivery, TLC
CONSTANTS l1, l2
MCLead == {l1, l2}
MCWorkerOnly == {"worker"}
MCWorkerAndCli == {"worker", "cli"}
MCCaps == <<1, 2>>
MCSmallCaps == <<1>>
BounceAndReply == {"bounce_hard", "genuine_reply"}
BounceOnly == {"bounce_hard"}
NoKind == {}
NoLead == {}
MCSymmetry == Permutations(Lead)
=============================================================================
