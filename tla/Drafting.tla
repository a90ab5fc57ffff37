------------------------------- MODULE Drafting -------------------------------
(***************************************************************************)
(* What generate_draft (agents/a7_generate.py) does to the tables of one    *)
(* lead, as the pipeline before it and the approval queue behind it see it: *)
(* a run stores the draft, then marks the lead, and may stop at any time;   *)
(* anybody else may take the mark back, and nobody takes the row away.  So a *)
(* lead that waits for approval has a draft.  DraftLoop and LeadPipeline    *)
(* implement this specification.                                            *)
(***************************************************************************)
CONSTANT Drafter   \* the runs of generate_draft that may be under way at one time

VARIABLES
  stored,    \* the runs that have stored a draft and not yet marked the lead
  drafted,   \* there is a row in drafts
  waiting    \* leads.status is awaiting_approval

draftingVars == <<stored, drafted, waiting>>

DraftingInit ==
  /\ stored = {}
  /\ drafted \in BOOLEAN /\ waiting \in BOOLEAN
  /\ waiting => drafted

StoreDraft(r) ==
  /\ r \notin stored
  /\ stored' = stored \cup {r} /\ drafted' = TRUE
  /\ UNCHANGED waiting

MarkAwaitingApproval(r) ==
  /\ r \in stored
  /\ stored' = stored \ {r} /\ waiting' = TRUE
  /\ UNCHANGED drafted

\* The run raises or is killed.
Leave(r) ==
  /\ r \in stored
  /\ stored' = stored \ {r}
  /\ UNCHANGED <<drafted, waiting>>

\* A decision, a delivery, or an ingest or fit that is run again sets the status.
TakeBack ==
  /\ waiting /\ waiting' = FALSE
  /\ UNCHANGED <<stored, drafted>>

DraftingNext ==
  \/ \E r \in Drafter : StoreDraft(r) \/ MarkAwaitingApproval(r) \/ Leave(r)
  \/ TakeBack

DraftingSpec == DraftingInit /\ [][DraftingNext]_draftingVars
=============================================================================
