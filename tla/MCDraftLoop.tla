----------------------------- MODULE MCDraftLoop -----------------------------
(***************************************************************************)
(* Two runs of one lead whose company gains a text, and two drafts at the   *)
(* edges of the gate: a quote with 4 of 7 words known once the text is      *)
(* there, and three dashes where two and a half are earned.  The gate alone *)
(* is compared with its reference on many more drafts.                      *)
(***************************************************************************)
EXTENDS DraftLoop, TLC

CONSTANTS worker, cli

Plain == [banned |-> {}, words |-> 150, dashes |-> 1, bold |-> FALSE, urgent |-> {}, citations |-> {}]
Quote(in, words) == [in |-> in, words |-> words]

MCDrafter == {worker, cli}
MCText == {"crawl"}
MCProfile == {"project"}
MCWordsOf == [t \in MCText \cup MCProfile |-> IF t \in MCText THEN 3..5 ELSE {6}]
MCDraft ==
  { [Plain EXCEPT !.citations = {Quote({}, 3..9)}],
    [Plain EXCEPT !.words = 750, !.dashes = 3, !.citations = {Quote({"crawl"}, {7})}] }
MCSymmetry == Permutations(MCDrafter)

Dashed == {[Plain EXCEPT !.words = w, !.dashes = n] : w \in 0..1600, n \in 0..6}
Quoting == {[Plain EXCEPT !.citations = {Quote(ts, ws)}] : ts \in SUBSET MCText, ws \in SUBSET (2..9)}
Marked == {[Plain EXCEPT !.banned = b, !.bold = o, !.urgent = u] :
             b \in SUBSET {1, 2}, o \in BOOLEAN, u \in SUBSET (1..3)}

ASSUME GateAssumption ==
  \A d \in Dashed \cup Quoting \cup Marked, texts \in SUBSET MCText :
    Passes(d, texts \cup MCProfile) => Presentable(d, texts \cup MCProfile)
=============================================================================
