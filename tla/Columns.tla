------------------------------- MODULE Columns -------------------------------
(***************************************************************************)
(* What the passes of research_company do to the row of one company: each   *)
(* fills profile (A1), intel (A2) and classification (A4) in this order and  *)
(* may stop at any time; no column is ever emptied.  The jobs of A3, found   *)
(* between the last two, leave no trace in the row when there are none.      *)
(* CompanyResearch and LeadPipeline implement this specification.            *)
(***************************************************************************)
CONSTANT Pass

VARIABLES
  next,     \* next[r]: the column the pass r is at, "none" when it is not under way
  filled    \* the columns that are not NULL

columnsVars == <<next, filled>>

After == [profile |-> "intel", intel |-> "classification", classification |-> "none"]

ColumnsInit == next = [r \in Pass |-> "none"] /\ filled = {}

Goto(r, column) == next' = [next EXCEPT ![r] = column]

Begin(r) ==
  /\ next[r] = "none"
  /\ Goto(r, "profile")
  /\ UNCHANGED filled

Fill(r) ==
  /\ next[r] # "none"
  /\ filled' = filled \cup {next[r]}
  /\ Goto(r, After[next[r]])

Leave(r) ==
  /\ next[r] # "none"
  /\ Goto(r, "none")
  /\ UNCHANGED filled

ColumnsNext == \E r \in Pass : Begin(r) \/ Fill(r) \/ Leave(r)

ColumnsSpec == ColumnsInit /\ [][ColumnsNext]_columnsVars
=============================================================================
