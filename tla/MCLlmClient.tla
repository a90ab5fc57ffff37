----------------------------- MODULE MCLlmClient -----------------------------
(***************************************************************************)
(* Three concurrent calls for two prompts, against a ceiling that two cheap *)
(* calls or one dear call reach.                                            *)
(***************************************************************************)
EXTENDS LlmClient, TLC

CONSTANTS c1, c2, c3, p1, p2

MCCaller == {c1, c2}
MCThreeCallers == {c1, c2, c3}
MCPrompt == {p1, p2}
MCCost == {1, 2}
MCSymmetry == Permutations(MCThreeCallers) \cup Permutations(MCPrompt)
=============================================================================
