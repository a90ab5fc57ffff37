------------------------ MODULE CompanyResearchProofs ------------------------
(***************************************************************************)
(* Proofs about CompanyResearch, for any site, queries, boards and texts,   *)
(* any number of passes, one after the other or beside each other, and any  *)
(* number of pages that grow old.                                           *)
(***************************************************************************)
EXTENDS CompanyResearch, FiniteSetTheorems, WellFoundedInduction, TLAPS

-----------------------------------------------------------------------------
(* The invariants *)

\* Where the three answers that make columns are asked for; the plan ends with A4.
A1At == 2 + Len(Careers) + Len(Overviews)
A2At == A1At + Len(News) + 1
LastAt == A2At + Len(Boards) + 5

\* The statements a pass is made of; those that ask the model for a column of companies.
Quiet ==
  [do : {"home"}, on : {Home}] \cup [do : {"career"}, on : ToSet(Careers)] \cup [do : {"search"}, on : Query]
  \cup [do : {"hint", "listing"}, on : {"url"}] \cup [do : {"board"}, on : ToSet(Boards)]
  \cup [do : {"extract"}, on : {"A3"}] \cup [do : {"jobs"}, on : {"rows"}]
Statement == Quiet \cup [do : {"ask"}, on : {"A1", "A2", "A4"}]

Pcs == {"unbegun", "over", "go", "http", "open", "write", "store", "model", "keep", "column", "insert"}
Texts == {TextOf[s] : s \in Page \cup Query}
Named == {Careers[1]} \cup Elsewhere
AtsKind == ToSet(Boards) \cup {"none"}
Posting == ({"read"} \X Nat \X JobNo) \cup ({"board"} \X ToSet(Boards) \X JobNo)
Prompts ==
  ({"A1"} \X Seq(Texts)) \cup ({"A2"} \X Nat \X Seq(Texts)) \cup ({"A3"} \X Texts) \cup ({"A4"} \X (Nat \X Nat))

PassRec ==
  [pc : Pcs, at : Nat, prompt : Prompts \cup {<<>>}, answer : Nat, known : Nat \X Nat, careers : Named,
   ats : AtsKind, list : SUBSET Posting]

\* A pass that is under way is at a step of the plan, at one of that step's
\* statements, and has the prompt of the agent that asks there.
UrlOf(x) == IF Plan[x.at].do = "listing" THEN x.careers ELSE Plan[x.at].on
Walks(x) ==
  /\ x.pc \in {"unbegun", "over"} => x.at = 0
  /\ x.pc \notin {"unbegun", "over"} => x.at \in 1..LastAt
  /\ x.pc \in {"http", "open", "write", "store"} => Plan[x.at].do \in Crawls
  /\ x.pc \in {"model", "keep", "column"} => Plan[x.at].do \in Asks
  /\ x.pc \in {"model", "keep"} => x.prompt \in Prompts /\ x.prompt[1] = Plan[x.at].on
  /\ x.pc = "column" => Plan[x.at].do = "ask"
  /\ x.pc = "insert" => Plan[x.at].do = "jobs"

Shape ==
  /\ file \in [Page -> {"none", "torn", "fresh", "stale"}]
  /\ evidence \in Seq(Texts) /\ IsInjective(evidence)
  /\ answers \subseteq [prompt : Prompts, no : Nat, careers : Named]
  /\ row \in [profile : Nat, intel : Nat, class : Nat \X Nat, ats : AtsKind]
  /\ jobs \subseteq Posting
  /\ pass \in [Pass -> PassRec] /\ \A r \in Pass : Walks(pass[r])
  /\ fetched \in [Page -> Nat] /\ excused \in [Page -> Nat] /\ paid \in [Agent -> Nat]
  /\ excess \in Nat /\ expired \in Nat /\ mixed \in BOOLEAN

\* No number is in use that no answer has.
Below(known) == known[1] <= paid["A1"] /\ known[2] <= paid["A2"]
ReadBelow(list) == \A j \in list : j[1] = "read" => j[2] \in 1..paid["A3"]
HoldsBelow(x) ==
  Below(x.known) /\ ReadBelow(x.list) /\ (x.pc = "keep" => x.answer \in 1..paid[x.prompt[1]])
Numbers ==
  /\ \A a \in answers : a.no \in 1..paid[a.prompt[1]]
  /\ \A r \in Pass : HoldsBelow(pass[r])
  /\ Below(row.class) /\ ReadBelow(jobs)

\* The request for a page that nobody has is the one fetch; a page in hand is on
\* disk, or on its way there.
Holders(u, pcs) == {r \in Pass : pass[r].pc \in pcs /\ Url(r) = u}
Fetching == {"http", "open", "write"}
Available(u) == file[u] \in {"none", "stale"} /\ Holders(u, Fetching) = {}
FetchAt(u) ==
  fetched[u] + Cardinality(Holders(u, {"http"})) + (IF Available(u) THEN 1 ELSE 0) <= 1 + expired + excused[u]
FetchInv ==
  /\ \A u \in Page : FetchAt(u)
  /\ \A r \in Pass : pass[r].pc = "write" => file[Url(r)] \in {"torn", "fresh"}

\* The evidence that was the newest when there were n rows.
Window(n) == [i \in 1..(IF n < PromptItems THEN n ELSE PromptItems) |-> evidence[n - i + 1]]

\* A prompt is made of what there was.
Pairs == {<<a.prompt[2], a.no>> : a \in {b \in answers : b.prompt[1] = "A2"}}
PromptsOf(agent) ==
  CASE agent = "A1" -> {<<"A1", Window(n)>> : n \in 0..Len(evidence)}
    [] agent = "A2" -> {<<"A2", k, Window(n)>> : k \in 0..paid["A1"], n \in 0..Len(evidence)}
    [] agent = "A3" -> {<<"A3", TextOf[u]>> : u \in Named}
    [] agent = "A4" -> {<<"A4", p>> : p \in Pairs}

\* What a pass has asked and what it knows go together.
Reached(x, p) == x.at > p \/ (x.at = p /\ x.pc = "column")
PromptsMade ==
  /\ \A a \in answers : a.prompt \in PromptsOf(a.prompt[1])
  /\ \A r \in Pass : pass[r].pc \in {"model", "keep"} =>
       /\ pass[r].prompt \in PromptsOf(On(r))
       /\ On(r) = "A2" => pass[r].prompt[2] = pass[r].known[1]
  /\ \A r \in Pass : Reached(pass[r], A2At) => pass[r].known \in Pairs

\* Answers of one agent have numbers of their own.
OwnNumbers ==
  /\ \A a, b \in answers : a.prompt[1] = b.prompt[1] /\ a.no = b.no => a.prompt = b.prompt
  /\ \A r \in Pass, a \in answers :
       pass[r].pc = "keep" /\ a.prompt[1] = pass[r].prompt[1] => a.no # pass[r].answer
  /\ \A r, o \in Pass : /\ pass[r].pc = "keep" /\ pass[o].pc = "keep" /\ r # o
                        /\ pass[r].prompt[1] = pass[o].prompt[1]
                        => pass[r].answer # pass[o].answer

AskedBy(agent) == {p \in Asked : p[1] = agent}
Bought == \A agent \in Agent : IsFiniteSet(AskedBy(agent)) /\ paid[agent] <= Cardinality(AskedBy(agent)) + excess

\* What the one pass that runs has written.
OnePass ==
  ~mixed => /\ \A r, o \in Pass : Active(r) /\ Active(o) => r = o
            /\ \A r \in Pass : /\ pass[r].at > A1At => row.profile = pass[r].known[1]
                               /\ pass[r].at > A2At => row.intel = pass[r].known[2]
            /\ (\A r \in Pass : ~Active(r)) => row.class = <<row.profile, row.intel>>

-----------------------------------------------------------------------------
(* The plan *)

\* A set of naturals that is not empty has a least one.
LEMMA Least ==
  ASSUME NEW T \in SUBSET Nat, T # {}
  PROVE  \E i \in T : \A j \in T : i <= j
<1> DEFINE R == OpToRel(<, Nat)
<1>1. \A x, y \in Nat : <<x, y>> \in R <=> x < y
  BY DEF OpToRel
<1>2. \E i \in T : \A j \in T : <<j, i>> \notin R
  <2> HIDE DEF R
  <2> QED  BY NatLessThanWellFounded, WFMin DEF R
<1>3. PICK i \in T : \A j \in T : <<j, i>> \notin R
  BY <1>2
<1>4. \A j \in T : ~(j < i)
  <2> HIDE DEF R
  <2> QED  BY <1>1, <1>3
<1> QED  BY <1>4

\* The steps made of a sequence are a sequence of its length.
LEMMA StepsAre ==
  ASSUME NEW k, NEW on, on \in Seq(ToSet(on))
  PROVE  /\ Steps(k, on) \in Seq([do : {k}, on : ToSet(on)])
         /\ Len(Steps(k, on)) = Len(on)
         /\ on # <<>> => Steps(k, on)[1] = [do |-> k, on |-> on[1]]
<1>1. DOMAIN on = 1..Len(on) /\ Len(on) \in Nat
  OBVIOUS
<1>2. \A i \in 1..Len(on) : [do |-> k, on |-> on[i]] \in [do : {k}, on : ToSet(on)]
  BY <1>1 DEF ToSet
<1>3. Steps(k, on) = [i \in 1..Len(on) |-> [do |-> k, on |-> on[i]]]
  BY <1>1 DEF Steps
<1> QED  BY <1>1, <1>2, <1>3

\* Two sequences put after each other.
LEMMA Concat ==
  ASSUME NEW S, NEW s \in Seq(S), NEW t \in Seq(S)
  PROVE  /\ s \o t \in Seq(S) /\ Len(s \o t) = Len(s) + Len(t)
         /\ \A i \in 1..Len(s) : (s \o t)[i] = s[i]
         /\ \A i \in Len(s) + 1..Len(s) + Len(t) : (s \o t)[i] = t[i - Len(s)]
OBVIOUS

LEMMA StatementSeqs ==
  ASSUME CompanyResearchAssumption
  PROVE  /\ Steps("home", <<Home>>) \in Seq(Quiet) /\ Len(Steps("home", <<Home>>)) = 1
         /\ Steps("career", Careers) \in Seq(Quiet) /\ Len(Steps("career", Careers)) = Len(Careers)
         /\ Steps("search", Overviews) \in Seq(Quiet) /\ Len(Steps("search", Overviews)) = Len(Overviews)
         /\ Steps("search", News) \in Seq(Quiet) /\ Len(Steps("search", News)) = Len(News)
         /\ Steps("board", Boards) \in Seq(Quiet) /\ Len(Steps("board", Boards)) = Len(Boards)
         /\ \A a \in {"A1", "A2", "A4"} : Steps("ask", <<a>>) \in Seq(Statement) /\ Len(Steps("ask", <<a>>)) = 1
                                        /\ Steps("ask", <<a>>)[1] = [do |-> "ask", on |-> a]
         /\ \A k \in {"hint", "listing"} : Steps(k, <<"url">>) \in Seq(Quiet) /\ Len(Steps(k, <<"url">>)) = 1
         /\ Steps("extract", <<"A3">>) \in Seq(Quiet) /\ Len(Steps("extract", <<"A3">>)) = 1
         /\ Steps("jobs", <<"rows">>) \in Seq(Quiet) /\ Len(Steps("jobs", <<"rows">>)) = 1
         /\ {Len(Careers), Len(Overviews), Len(News), Len(Boards)} \subseteq Nat
<1>1. \A s \in {Careers, Overviews, News, Boards} : s \in Seq(ToSet(s)) /\ Len(s) \in Nat
  BY DEF CompanyResearchAssumption
<1>2. \A x : <<x>> \in Seq({x}) /\ Len(<<x>>) = 1 /\ ToSet(<<x>>) = {x} /\ <<x>>[1] = x
  BY DEF ToSet
<1>3. \A A, B, s : A \subseteq B /\ s \in Seq(A) => s \in Seq(B)
  OBVIOUS
<1>4. /\ [do : {"career"}, on : ToSet(Careers)] \subseteq Quiet
      /\ [do : {"search"}, on : ToSet(Overviews)] \subseteq Quiet
      /\ [do : {"search"}, on : ToSet(News)] \subseteq Quiet
      /\ [do : {"board"}, on : ToSet(Boards)] \subseteq Quiet
  BY DEF Quiet, Query
<1>5. /\ [do : {"home"}, on : {Home}] \subseteq Quiet
      /\ \A k \in {"hint", "listing"} : [do : {k}, on : {"url"}] \subseteq Quiet
      /\ [do : {"extract"}, on : {"A3"}] \subseteq Quiet
      /\ [do : {"jobs"}, on : {"rows"}] \subseteq Quiet
  BY DEF Quiet
<1>6. Steps("career", Careers) \in Seq(Quiet) /\ Len(Steps("career", Careers)) = Len(Careers)
  <2>1. /\ Steps("career", Careers) \in Seq([do : {"career"}, on : ToSet(Careers)])
        /\ Len(Steps("career", Careers)) = Len(Careers)
    <3>1. Careers \in Seq(ToSet(Careers))
      BY <1>1
    <3> QED  BY <3>1, StepsAre
  <2>2. [do : {"career"}, on : ToSet(Careers)] \subseteq Quiet
    BY <1>4
  <2> QED  BY <2>1, <2>2, <1>3
<1>7. Steps("search", Overviews) \in Seq(Quiet) /\ Len(Steps("search", Overviews)) = Len(Overviews)
  <2>1. /\ Steps("search", Overviews) \in Seq([do : {"search"}, on : ToSet(Overviews)])
        /\ Len(Steps("search", Overviews)) = Len(Overviews)
    <3>1. Overviews \in Seq(ToSet(Overviews))
      BY <1>1
    <3> QED  BY <3>1, StepsAre
  <2> QED  BY <2>1, <1>4, <1>3
<1>8. Steps("search", News) \in Seq(Quiet) /\ Len(Steps("search", News)) = Len(News)
  <2>1. /\ Steps("search", News) \in Seq([do : {"search"}, on : ToSet(News)])
        /\ Len(Steps("search", News)) = Len(News)
    <3>1. News \in Seq(ToSet(News))
      BY <1>1
    <3> QED  BY <3>1, StepsAre
  <2> QED  BY <2>1, <1>4, <1>3
<1>9. Steps("board", Boards) \in Seq(Quiet) /\ Len(Steps("board", Boards)) = Len(Boards)
  <2>1. /\ Steps("board", Boards) \in Seq([do : {"board"}, on : ToSet(Boards)])
        /\ Len(Steps("board", Boards)) = Len(Boards)
    <3>1. Boards \in Seq(ToSet(Boards))
      BY <1>1
    <3> QED  BY <3>1, StepsAre
  <2> QED  BY <2>1, <1>4, <1>3
<1>10. \A k, x : /\ [do : {k}, on : {x}] \subseteq Quiet => Steps(k, <<x>>) \in Seq(Quiet)
                 /\ [do : {k}, on : {x}] \subseteq Statement => Steps(k, <<x>>) \in Seq(Statement)
                 /\ Len(Steps(k, <<x>>)) = 1
         /\ Steps(k, <<x>>)[1] = [do |-> k, on |-> x]
  <2> TAKE k, x
  <2>1. Steps(k, <<x>>) \in Seq([do : {k}, on : {x}])
    BY <1>2, StepsAre
  <2>2. Len(Steps(k, <<x>>)) = 1 /\ Steps(k, <<x>>)[1] = [do |-> k, on |-> x]
    <3>1. <<x>> \in Seq(ToSet(<<x>>)) /\ Len(<<x>>) = 1 /\ 1 \in 1..Len(<<x>>)
      BY <1>2
    <3>2. Len(Steps(k, <<x>>)) = Len(<<x>>) /\ Steps(k, <<x>>)[1] = [do |-> k, on |-> <<x>>[1]]
      BY <3>1, StepsAre
    <3> QED  BY <3>1, <3>2
  <2> QED  BY <2>1, <2>2, <1>3
<1>11. \A a \in {"A1", "A2", "A4"} : [do : {"ask"}, on : {a}] \subseteq Statement
  BY DEF Statement
<1> QED  BY <1>1, <1>11, <1>10, <1>5, <1>6, <1>7, <1>8, <1>9, <1>10

\* The plan and where its parts end.
LEMMA PlanParts ==
  ASSUME CompanyResearchAssumption
  PROVE  /\ Plan \in Seq(Statement) /\ Len(Plan) = LastAt
         /\ A1At \in Nat /\ A2At \in Nat /\ LastAt \in Nat /\ 2 < A1At /\ A1At < A2At /\ A2At < LastAt
         /\ \A i \in 1..LastAt : Plan[i].do = "ask" <=> i \in {A1At, A2At, LastAt}
         /\ Plan[A1At].on = "A1" /\ Plan[A2At].on = "A2" /\ Plan[LastAt].on = "A4"
         /\ Len(Discover) = A1At /\ Len(Discover \o Analyze) = A2At
<1> DEFINE H == Steps("home", <<Home>>)
           C == Steps("career", Careers)
           O == Steps("search", Overviews)
           N == Steps("search", News)
           I == Steps("hint", <<"url">>)
           B == Steps("board", Boards)
           L == Steps("listing", <<"url">>)
           E == Steps("extract", <<"A3">>)
           R == Steps("jobs", <<"rows">>)
           AskOf(a) == Steps("ask", <<a>>)
<1>1. /\ Len(Careers) # 0 /\ Len(Careers) \in Nat /\ Len(Overviews) \in Nat /\ Len(News) \in Nat /\ Len(Boards) \in Nat
  BY StatementSeqs DEF CompanyResearchAssumption
<1>2. /\ H \in Seq(Quiet) /\ Len(H) = 1 /\ C \in Seq(Quiet) /\ Len(C) = Len(Careers)
      /\ O \in Seq(Quiet) /\ Len(O) = Len(Overviews) /\ N \in Seq(Quiet) /\ Len(N) = Len(News)
      /\ I \in Seq(Quiet) /\ Len(I) = 1 /\ B \in Seq(Quiet) /\ Len(B) = Len(Boards)
      /\ L \in Seq(Quiet) /\ Len(L) = 1 /\ E \in Seq(Quiet) /\ Len(E) = 1 /\ R \in Seq(Quiet) /\ Len(R) = 1
  BY StatementSeqs
<1>3. \A a \in {"A1", "A2", "A4"} : AskOf(a) \in Seq(Statement) /\ Len(AskOf(a)) = 1
                                    /\ AskOf(a)[1] = [do |-> "ask", on |-> a]
  BY StatementSeqs
<1>4. /\ Discover = ((H \o C) \o O) \o AskOf("A1") /\ Analyze = N \o AskOf("A2")
      /\ FindJobs = (((I \o B) \o L) \o E) \o R
      /\ Plan = ((Discover \o Analyze) \o FindJobs) \o AskOf("A4")
  BY DEF Plan, Discover, Analyze, FindJobs, Classify
<1> HIDE DEF H, C, O, N, I, B, L, E, R, AskOf
<1> DEFINE D == (H \o C) \o O
<1>5. D \in Seq(Quiet) /\ Len(D) = A1At - 1
  <2>1. H \o C \in Seq(Quiet) /\ Len(H \o C) = 1 + Len(Careers)
    <3>1. H \o C \in Seq(Quiet) /\ Len(H \o C) = Len(H) + Len(C)
      <4>1. H \in Seq(Quiet) /\ C \in Seq(Quiet)
        BY <1>2
      <4> QED  BY <4>1, Concat
    <3> QED  BY <3>1, <1>1, <1>2
  <2>2. D \in Seq(Quiet) /\ Len(D) = Len(H \o C) + Len(O)
    <3>1. H \o C \in Seq(Quiet) /\ O \in Seq(Quiet)
      BY <2>1, <1>2
    <3> QED  BY <3>1, Concat
  <2> HIDE DEF D
  <2> QED  BY <2>1, <2>2, <1>1, <1>2 DEF A1At
<1>7. FindJobs \in Seq(Quiet) /\ Len(FindJobs) = 4 + Len(Boards)
  <2>1. I \o B \in Seq(Quiet) /\ Len(I \o B) = 1 + Len(Boards)
    <3>1. I \o B \in Seq(Quiet) /\ Len(I \o B) = Len(I) + Len(B)
      <4>1. I \in Seq(Quiet) /\ B \in Seq(Quiet)
        BY <1>2
      <4> QED  BY <4>1, Concat
    <3> QED  BY <3>1, <1>1, <1>2
  <2>2. (I \o B) \o L \in Seq(Quiet) /\ Len((I \o B) \o L) = 2 + Len(Boards)
    BY <2>1, <1>1, <1>2
  <2>3. ((I \o B) \o L) \o E \in Seq(Quiet) /\ Len(((I \o B) \o L) \o E) = 3 + Len(Boards)
    BY <2>2, <1>1, <1>2
  <2> QED  BY <2>3, <1>1, <1>2, <1>4
<1> HIDE DEF D
<1> DEFINE P2 == Discover \o Analyze
           P3 == P2 \o FindJobs
<1>8. Quiet \subseteq Statement /\ Seq(Quiet) \subseteq Seq(Statement)
  BY DEF Statement
<1>9. \A x \in Quiet : x.do # "ask"
  BY DEF Quiet
<1>11. \A s \in Seq(Quiet), a \in {"A1", "A2", "A4"} :
         /\ s \o AskOf(a) \in Seq(Statement) /\ Len(s \o AskOf(a)) = Len(s) + 1
         /\ \A i \in 1..Len(s) + 1 : (s \o AskOf(a))[i].do = "ask" <=> i = Len(s) + 1
         /\ (s \o AskOf(a))[Len(s) + 1].on = a
  <2> TAKE s \in Seq(Quiet), a \in {"A1", "A2", "A4"}
  <2>1. s \in Seq(Statement) /\ Len(s) \in Nat /\ \A i \in 1..Len(s) : s[i].do # "ask"
    BY <1>8, <1>9
  <2>2. /\ s \o AskOf(a) \in Seq(Statement) /\ Len(s \o AskOf(a)) = Len(s) + 1
        /\ \A i \in 1..Len(s) : (s \o AskOf(a))[i] = s[i]
        /\ (s \o AskOf(a))[Len(s) + 1] = AskOf(a)[1]
    <3>1. /\ s \o AskOf(a) \in Seq(Statement) /\ Len(s \o AskOf(a)) = Len(s) + Len(AskOf(a))
          /\ \A i \in 1..Len(s) : (s \o AskOf(a))[i] = s[i]
          /\ \A i \in Len(s) + 1..Len(s) + Len(AskOf(a)) : (s \o AskOf(a))[i] = AskOf(a)[i - Len(s)]
      BY <2>1, <1>3, Concat
    <3>2. Len(AskOf(a)) = 1
      BY <1>3
    <3>3. Len(s) + 1 \in Len(s) + 1..Len(s) + Len(AskOf(a)) /\ (Len(s) + 1) - Len(s) = 1
      BY <2>1, <3>2
    <3> QED  BY <2>1, <3>1, <3>2, <3>3
  <2> QED  BY <2>1, <2>2, <1>3
<1>12. /\ Discover \in Seq(Statement) /\ Len(Discover) = A1At
       /\ \A i \in 1..A1At : Discover[i].do = "ask" <=> i = A1At
       /\ Discover[A1At].on = "A1"
  <2>1. Discover = D \o AskOf("A1")
    BY <1>4 DEF D
  <2>2. A1At \in Nat /\ Len(D) + 1 = A1At
    BY <1>1, <1>5 DEF A1At
  <2> QED  BY <2>1, <2>2, <1>5, <1>11
<1>13. /\ Analyze \in Seq(Statement) /\ Len(Analyze) = Len(News) + 1
       /\ \A i \in 1..Len(News) + 1 : Analyze[i].do = "ask" <=> i = Len(News) + 1
       /\ Analyze[Len(News) + 1].on = "A2"
  <2>1. /\ N \o AskOf("A2") \in Seq(Statement) /\ Len(N \o AskOf("A2")) = Len(N) + 1
        /\ \A i \in 1..Len(N) + 1 : (N \o AskOf("A2"))[i].do = "ask" <=> i = Len(N) + 1
        /\ (N \o AskOf("A2"))[Len(N) + 1].on = "A2"
    BY <1>2, <1>11
  <2> QED  BY <2>1, <1>2, <1>4
<1>14. \A i \in 1..4 + Len(Boards) : FindJobs[i].do # "ask"
  BY <1>7, <1>9, <1>1
<1>15. A1At \in Nat /\ A2At \in Nat /\ LastAt \in Nat /\ 2 < A1At /\ A1At < A2At /\ A2At < LastAt
  BY <1>1 DEF A1At, A2At, LastAt
<1>16. /\ P2 \in Seq(Statement) /\ Len(P2) = A2At
       /\ \A i \in 1..A2At : P2[i].do = "ask" <=> i \in {A1At, A2At}
       /\ P2[A1At].on = "A1" /\ P2[A2At].on = "A2"
  <2>1. /\ P2 \in Seq(Statement) /\ Len(P2) = A1At + Len(News) + 1
        /\ \A i \in 1..A1At : P2[i] = Discover[i]
        /\ \A i \in A1At + 1..A1At + (Len(News) + 1) : P2[i] = Analyze[i - A1At]
    <3>1. /\ Discover \o Analyze \in Seq(Statement) /\ Len(Discover \o Analyze) = Len(Discover) + Len(Analyze)
          /\ \A i \in 1..Len(Discover) : (Discover \o Analyze)[i] = Discover[i]
          /\ \A i \in Len(Discover) + 1..Len(Discover) + Len(Analyze) : (Discover \o Analyze)[i] = Analyze[i - Len(Discover)]
      <4>1. Discover \in Seq(Statement) /\ Analyze \in Seq(Statement)
        BY <1>12, <1>13
      <4> QED  BY <4>1, Concat
    <3>2. Len(Discover) = A1At /\ Len(Analyze) = Len(News) + 1
      BY <1>12, <1>13
    <3> QED  BY <3>1, <3>2, <1>1, <1>15 DEF P2
  <2> HIDE DEF P2
  <2>2. ASSUME NEW i \in 1..A2At
        PROVE  P2[i].do = "ask" <=> i \in {A1At, A2At}
    <3>1. CASE i <= A1At
      BY <3>1, <2>1, <1>1, <1>12, <1>15 DEF A2At
    <3>2. CASE i > A1At
      <4>1. i - A1At \in 1..Len(News) + 1 /\ P2[i] = Analyze[i - A1At]
        BY <3>2, <2>1, <1>1, <1>15 DEF A2At
      <4>2. i # A1At /\ (i = A2At <=> i - A1At = Len(News) + 1)
        BY <3>2, <1>1, <1>15 DEF A2At
      <4>3. Analyze[i - A1At].do = "ask" <=> i - A1At = Len(News) + 1
        BY <4>1, <1>13
      <4> QED  BY <4>1, <4>2, <4>3
    <3> QED  BY <3>1, <3>2, <1>15
  <2>3. P2[A2At] = Analyze[Len(News) + 1] /\ P2[A1At] = Discover[A1At]
    <3>1. A2At \in A1At + 1..A1At + (Len(News) + 1) /\ A2At - A1At = Len(News) + 1 /\ A1At \in 1..A1At
      BY <1>1, <1>15 DEF A2At
    <3> QED  BY <3>1, <2>1
  <2> QED  BY <2>1, <2>2, <2>3, <1>12, <1>13 DEF A2At
<1>17. /\ P3 \in Seq(Statement) /\ Len(P3) = LastAt - 1
       /\ \A i \in 1..LastAt - 1 : P3[i].do = "ask" <=> i \in {A1At, A2At}
       /\ P3[A1At].on = "A1" /\ P3[A2At].on = "A2"
  <2> HIDE DEF P2
  <2>1. /\ P3 \in Seq(Statement) /\ Len(P3) = A2At + (4 + Len(Boards))
        /\ \A i \in 1..A2At : P3[i] = P2[i]
        /\ \A i \in A2At + 1..A2At + (4 + Len(Boards)) : P3[i] = FindJobs[i - A2At]
    <3>1. /\ P2 \o FindJobs \in Seq(Statement) /\ Len(P2 \o FindJobs) = Len(P2) + Len(FindJobs)
          /\ \A i \in 1..Len(P2) : (P2 \o FindJobs)[i] = P2[i]
          /\ \A i \in Len(P2) + 1..Len(P2) + Len(FindJobs) : (P2 \o FindJobs)[i] = FindJobs[i - Len(P2)]
      <4>1. P2 \in Seq(Statement) /\ FindJobs \in Seq(Statement)
        BY <1>16, <1>7, <1>8
      <4> QED  BY <4>1, Concat
    <3>2. Len(P2) = A2At /\ Len(FindJobs) = 4 + Len(Boards)
      BY <1>16, <1>7, <1>8
    <3> QED  BY <3>1, <3>2, <1>1, <1>15 DEF P3
  <2> HIDE DEF P3
  <2>2. ASSUME NEW i \in 1..LastAt - 1
        PROVE  P3[i].do = "ask" <=> i \in {A1At, A2At}
    <3>1. CASE i <= A2At
      BY <3>1, <2>1, <1>16, <1>15
    <3>2. CASE i > A2At
      <4>1. i - A2At \in 1..4 + Len(Boards) /\ P3[i] = FindJobs[i - A2At]
        BY <3>2, <2>1, <1>1, <1>15 DEF LastAt
      <4> QED  BY <4>1, <3>2, <1>14, <1>15
    <3> QED  BY <3>1, <3>2, <1>15
  <2>3. P3[A1At] = P2[A1At] /\ P3[A2At] = P2[A2At]
    <3>1. A1At \in 1..A2At /\ A2At \in 1..A2At
      BY <1>15
    <3>2. \A i \in 1..A2At : P3[i] = P2[i]
      BY <2>1
    <3> QED  BY <3>1, <3>2
  <2> QED  BY <2>1, <2>2, <2>3, <1>1, <1>15, <1>16 DEF LastAt
<1>18. Plan = P3 \o AskOf("A4")
  BY <1>4 DEF P2, P3
<1> HIDE DEF P3
<1>19. /\ Plan \in Seq(Statement) /\ Len(Plan) = (LastAt - 1) + 1
       /\ \A i \in 1..LastAt - 1 : Plan[i] = P3[i]
       /\ Plan[LastAt] = [do |-> "ask", on |-> "A4"]
  <2>1. /\ P3 \o AskOf("A4") \in Seq(Statement) /\ Len(P3 \o AskOf("A4")) = Len(P3) + 1
        /\ \A i \in 1..Len(P3) : (P3 \o AskOf("A4"))[i] = P3[i]
        /\ \A i \in Len(P3) + 1..Len(P3) + 1 : (P3 \o AskOf("A4"))[i] = AskOf("A4")[i - Len(P3)]
    <3>1. /\ P3 \o AskOf("A4") \in Seq(Statement) /\ Len(P3 \o AskOf("A4")) = Len(P3) + Len(AskOf("A4"))
          /\ \A i \in 1..Len(P3) : (P3 \o AskOf("A4"))[i] = P3[i]
          /\ \A i \in Len(P3) + 1..Len(P3) + Len(AskOf("A4")) : (P3 \o AskOf("A4"))[i] = AskOf("A4")[i - Len(P3)]
      <4>1. P3 \in Seq(Statement) /\ AskOf("A4") \in Seq(Statement)
        BY <1>3, <1>17
      <4> QED  BY <4>1, Concat
    <3>2. Len(P3) = LastAt - 1 /\ Len(AskOf("A4")) = 1
      BY <1>3, <1>17
    <3> QED  BY <3>1, <3>2, <1>15
  <2>2. Plan[LastAt] = AskOf("A4")[1]
    <3>1. LastAt \in Len(P3) + 1..Len(P3) + 1 /\ LastAt - Len(P3) = 1
      BY <1>15, <1>17
    <3> QED  BY <3>1, <2>1, <1>18
  <2> QED  BY <2>1, <2>2, <1>3, <1>15, <1>17, <1>18
<1>20. Len(Plan) = LastAt /\ 1..LastAt = (1..LastAt - 1) \cup {LastAt} /\ LastAt \notin 1..LastAt - 1
  BY <1>15, <1>19
<1>21. Plan[A1At] = P3[A1At] /\ Plan[A2At] = P3[A2At] /\ Plan[LastAt].on = "A4" /\ Plan[LastAt].do = "ask"
  BY <1>15, <1>19
<1>22. \A i \in 1..LastAt : Plan[i].do = "ask" <=> i \in {A1At, A2At, LastAt}
  BY <1>15, <1>17, <1>19, <1>20, <1>21
<1>23. Len(Discover) = A1At /\ Len(Discover \o Analyze) = A2At
  BY <1>12, <1>16 DEF P2
<1> QED  BY <1>15, <1>17, <1>19, <1>20, <1>21, <1>22, <1>23

\* Where the plan asks for a column of companies.
LEMMA PlanIs ==
  ASSUME CompanyResearchAssumption
  PROVE  /\ Plan \in Seq(Statement) /\ Len(Plan) = LastAt
         /\ A1At \in Nat /\ A2At \in Nat /\ LastAt \in Nat /\ 2 < A1At /\ A1At < A2At /\ A2At < LastAt
         /\ \A i \in 1..LastAt : Plan[i].do = "ask" <=> i \in {A1At, A2At, LastAt}
         /\ Plan[A1At].on = "A1" /\ Plan[A2At].on = "A2" /\ Plan[LastAt].on = "A4"
BY PlanParts

LEMMA PartsEnd ==
  ASSUME CompanyResearchAssumption
  PROVE  Len(Discover) = A1At /\ Len(Discover \o Analyze) = A2At
BY PlanParts

\* What the statements of the plan are about.
LEMMA PlanSteps ==
  ASSUME CompanyResearchAssumption
  PROVE  /\ DOMAIN Plan = 1..LastAt /\ LastAt \in Nat
         /\ \A i \in 1..LastAt :
              /\ Plan[i].do \in {"home", "career"} => Plan[i].on \in Page
              /\ Plan[i].do = "search" => Plan[i].on \in Query
              /\ Plan[i].do = "board" => Plan[i].on \in ToSet(Boards)
              /\ Plan[i].do \in Asks => Plan[i].on \in Agent
              /\ Plan[i].do \in Asks => (Plan[i].on = "A1" <=> i = A1At) /\ (Plan[i].on = "A2" <=> i = A2At)
              /\ Plan[i].do \in Asks => (Plan[i].on = "A4" <=> i = LastAt) /\ (Plan[i].do = "ask" <=> Plan[i].on # "A3")
<1>1. DOMAIN Plan = 1..LastAt /\ LastAt \in Nat /\ \A i \in 1..LastAt : Plan[i] \in Statement
  BY PlanIs
<1>2. ASSUME NEW s \in Statement
      PROVE  /\ s.do \in {"home", "career"} => s.on \in Page
             /\ s.do = "search" => s.on \in Query
             /\ s.do = "board" => s.on \in ToSet(Boards)
             /\ s.do \in Asks => s.on \in Agent
             /\ s.do \in Asks => (s.do = "ask" <=> s.on # "A3")
             /\ s.do \in Asks /\ s.on # "A3" => s.do = "ask"
  BY DEF Statement, Quiet, Page, CareersUrl, Asks, Agent
<1>3. \A i \in 1..LastAt : Plan[i].do \in Asks =>
        /\ (Plan[i].on = "A1" <=> i = A1At) /\ (Plan[i].on = "A2" <=> i = A2At) /\ (Plan[i].on = "A4" <=> i = LastAt)
  BY <1>1, <1>2, PlanIs
<1> QED  BY <1>1, <1>2, <1>3

\* The page a pass is at is one of the site's, the query one of A1's or A2's.
LEMMA UrlIs ==
  ASSUME CompanyResearchAssumption, NEW x \in PassRec, x.at \in 1..LastAt
  PROVE  /\ Plan[x.at].do \in Crawls => UrlOf(x) \in Page
         /\ Plan[x.at].do = "search" => UrlOf(x) \in Query
         /\ Plan[x.at].do \in Crawls \cup {"search"} => TextOf[UrlOf(x)] \in Texts
<1>1. Named \subseteq Page
  <2>1. Careers[1] \in ToSet(Careers)
    <3>1. Careers \in Seq(ToSet(Careers)) /\ Careers # <<>>
      BY DEF CompanyResearchAssumption
    <3>2. 1 \in DOMAIN Careers
      BY <3>1
    <3> QED  BY <3>2 DEF ToSet
  <2> QED  BY <2>1 DEF Named, Page, CareersUrl
<1>2. x.careers \in Page
  BY <1>1 DEF PassRec
<1> QED  BY <1>2, PlanSteps DEF UrlOf, Crawls, Texts

\* A pass that goes on comes to a later statement, and past none that asks for a column.
LEMMA OnwardIs ==
  ASSUME CompanyResearchAssumption, NEW x \in PassRec, x.at \in 1..LastAt, NEW kinds
  PROVE  /\ Onward(x, kinds) \in PassRec /\ Walks(Onward(x, kinds)) /\ Onward(x, kinds).prompt = <<>>
         /\ \/ Onward(x, kinds) = Over
            \/ /\ Onward(x, kinds).pc = "go" /\ Onward(x, kinds).at > x.at
               /\ Onward(x, kinds).known = x.known /\ Onward(x, kinds).careers = x.careers
               /\ Onward(x, kinds).list = x.list
         /\ "ask" \notin kinds =>
              /\ Onward(x, kinds) = Over => x.at = LastAt
              /\ \A i \in {A1At, A2At} : x.at < i => Onward(x, kinds).at <= i
<1> DEFINE later == {i \in DOMAIN Plan : i > x.at /\ Plan[i].do \notin kinds}
           m == CHOOSE i \in later : \A j \in later : i <= j
<1>1. DOMAIN Plan = 1..LastAt /\ LastAt \in Nat /\ {A1At, A2At, LastAt} \subseteq 1..LastAt
      /\ \A i \in {A1At, A2At, LastAt} : Plan[i].do = "ask"
  <2>1. DOMAIN Plan = 1..Len(Plan) /\ Len(Plan) = LastAt
    BY PlanIs
  <2>2. A1At \in Nat /\ A2At \in Nat /\ LastAt \in Nat /\ 2 < A1At /\ A1At < A2At /\ A2At < LastAt
    BY PlanIs
  <2>3. {A1At, A2At, LastAt} \subseteq 1..LastAt
    BY <2>2
  <2>4. \A i \in 1..LastAt : Plan[i].do = "ask" <=> i \in {A1At, A2At, LastAt}
    BY PlanIs
  <2> QED  BY <2>1, <2>2, <2>3, <2>4
<1>2. later \in SUBSET Nat /\ later \subseteq 1..LastAt
  BY <1>1
<1>3. x.at \in Nat
  BY <1>1
<1>4. Over \in PassRec /\ Walks(Over) /\ Over.prompt = <<>> /\ Over.at = 0
  BY DEF Over, Unbegun, PassRec, Walks, Pcs, Named, AtsKind, Posting
<1>5. "ask" \notin kinds => \A i \in {A1At, A2At, LastAt} : x.at < i => i \in later
  BY <1>1
<1>6. CASE later = {}
  <2>1. Onward(x, kinds) = Over
    BY <1>6 DEF Onward
  <2>2. "ask" \notin kinds => x.at = LastAt
    <3>1. "ask" \notin kinds => ~(x.at < LastAt)
      BY <1>5, <1>6
    <3> QED  BY <3>1, <1>1, <1>3
  <2>3. "ask" \notin kinds => \A i \in {A1At, A2At} : ~(x.at < i)
    BY <1>5, <1>6
  <2> QED  BY <2>1, <2>2, <2>3, <1>4
<1>7. CASE later # {}
  <2> DEFINE y == [x EXCEPT !.pc = "go", !.prompt = <<>>, !.answer = 0, !.at = m]
  <2>1. Onward(x, kinds) = y
    BY <1>7 DEF Onward
  <2>2. m \in later /\ \A j \in later : m <= j
    <3>1. \E i \in later : \A j \in later : i <= j
      <4> HIDE DEF later
      <4> QED  BY <1>2, <1>7, Least
    <3> HIDE DEF later
    <3> QED  BY <3>1
  <2>3. m \in 1..LastAt /\ m > x.at /\ m \in Nat
    BY <2>2, <1>2
  <2> HIDE DEF later, m
  <2>4. y \in PassRec /\ y.pc = "go" /\ y.at = m /\ y.known = x.known /\ y.careers = x.careers
        /\ y.list = x.list /\ y.prompt = <<>>
    BY <2>3 DEF PassRec, Pcs
  <2>5. Walks(y)
    BY <2>3, <2>4 DEF Walks
  <2>6. "ask" \notin kinds => \A i \in {A1At, A2At} : x.at < i => m <= i
    BY <1>5, <2>2
  <2> HIDE DEF y
  <2>7. y # Over
    <3>1. Over.pc = "over"
      BY DEF Over, Unbegun
    <3> QED  BY <3>1, <2>4
  <2> QED  BY <2>1, <2>3, <2>4, <2>5, <2>6, <2>7
<1> QED  BY <1>6, <1>7

\* The newest evidence is the window at its end.
LEMMA NewestIs ==
  ASSUME CompanyResearchAssumption, evidence \in Seq(Texts)
  PROVE  /\ Len(evidence) \in Nat /\ Newest = Window(Len(evidence))
         /\ \A n \in 0..Len(evidence) : Window(n) \in Seq(Texts)
<1>1. Len(evidence) \in Nat /\ PromptItems \in Nat
  BY DEF CompanyResearchAssumption
<1> DEFINE k == IF Len(evidence) < PromptItems THEN Len(evidence) ELSE PromptItems
<1>2. Reverse(evidence) = [i \in 1..Len(evidence) |-> evidence[Len(evidence) - i + 1]]
  BY DEF Reverse
<1>3. Reverse(evidence) \in Seq(Texts) /\ Len(Reverse(evidence)) = Len(evidence)
  BY <1>1, <1>2
<1>4. Newest = [i \in 1..k |-> Reverse(evidence)[i]]
  <2>1. k \in 0..Len(evidence)
    BY <1>1
  <2>2. Newest = SubSeq(Reverse(evidence), 1, k)
    BY DEF Newest
  <2> HIDE DEF k
  <2> QED  BY <1>1, <1>3, <2>1, <2>2
<1>5. Window(Len(evidence)) = [i \in 1..k |-> evidence[Len(evidence) - i + 1]]
  BY DEF Window
<1>6. \A i \in 1..k : Reverse(evidence)[i] = evidence[Len(evidence) - i + 1]
  BY <1>1, <1>2
<1>7. ASSUME NEW n \in 0..Len(evidence)
      PROVE  Window(n) \in Seq(Texts)
  <2> DEFINE l == IF n < PromptItems THEN n ELSE PromptItems
  <2>1. l \in 0..Len(evidence) /\ l <= n /\ l \in Nat
    BY <1>1
  <2>2. Window(n) = [i \in 1..l |-> evidence[n - i + 1]]
    BY DEF Window
  <2> HIDE DEF l
  <2>3. \A i \in 1..l : evidence[n - i + 1] \in Texts
    BY <1>1, <2>1
  <2> QED  BY <2>1, <2>2, <2>3
<1> HIDE DEF k
<1> QED  BY <1>1, <1>4, <1>5, <1>6, <1>7

\* What a pass asks is a prompt of the agent that asks.
LEMMA PromptIs ==
  ASSUME CompanyResearchAssumption, Shape, NEW r \in Pass, pass[r].at \in 1..LastAt, Do(r) \in Asks
  PROVE  /\ Prompt(r) \in Prompts /\ Prompt(r)[1] = On(r)
         /\ On(r) = "A1" => Prompt(r) = <<"A1", Newest>>
         /\ On(r) = "A2" => Prompt(r) = <<"A2", pass[r].known[1], Newest>>
         /\ On(r) = "A3" => Prompt(r) = <<"A3", TextOf[pass[r].careers]>>
         /\ On(r) = "A4" => Prompt(r) = <<"A4", pass[r].known>>
<1>1. pass[r] \in PassRec
  BY DEF Shape
<1>2. On(r) \in Agent
  BY PlanSteps DEF On, Do
<1>3. pass[r].known \in Nat \X Nat /\ pass[r].known[1] \in Nat /\ pass[r].careers \in Named
  BY <1>1 DEF PassRec
<1>4. Newest \in Seq(Texts)
  BY NewestIs DEF Shape
<1>5. TextOf[pass[r].careers] \in Texts
  <2>1. Careers[1] \in CareersUrl
    <3>1. Careers \in Seq(ToSet(Careers)) /\ Careers # <<>>
      BY DEF CompanyResearchAssumption
    <3>2. 1 \in DOMAIN Careers
      BY <3>1
    <3> QED  BY <3>2 DEF ToSet, CareersUrl
  <2> QED  BY <2>1, <1>3 DEF Texts, Named, Page, CareersUrl
<1>6. CASE On(r) = "A1"
  BY <1>6, <1>4 DEF Prompt, Prompts
<1>7. CASE On(r) = "A2"
  BY <1>7, <1>3, <1>4 DEF Prompt, Prompts
<1>8. CASE On(r) = "A3"
  BY <1>8, <1>5 DEF Prompt, Prompts
<1>9. CASE On(r) = "A4"
  BY <1>9, <1>3 DEF Prompt, Prompts
<1> QED  BY <1>2, <1>6, <1>7, <1>8, <1>9 DEF Agent

AnswerRec == [prompt : Prompts, no : Nat, careers : Named]

\* A pass that has its answer is at the column, or with the postings that A3 read.
LEMMA GivenIs ==
  ASSUME CompanyResearchAssumption, NEW x \in PassRec, x.at \in 1..LastAt, Plan[x.at].do \in Asks,
         NEW a \in AnswerRec, a.prompt[1] = Plan[x.at].on
  PROVE  /\ Given(x, a) \in PassRec /\ Walks(Given(x, a)) /\ Given(x, a).prompt = <<>>
         /\ a.prompt[1] # "A3" => Given(x, a).pc = "column" /\ Given(x, a).at = x.at /\ Given(x, a).list = x.list
         /\ a.prompt[1] = "A1" => Given(x, a).known = <<a.no, x.known[2]>>
         /\ a.prompt[1] = "A2" => Given(x, a).known = <<x.known[1], a.no>>
         /\ a.prompt[1] = "A4" => Given(x, a).known = x.known
         /\ a.prompt[1] = "A3" =>
              /\ Given(x, a).pc = "go" /\ Given(x, a).at > x.at /\ Given(x, a).known = x.known
              /\ Given(x, a).list = {"read"} \X {a.no} \X JobNo
              /\ \A i \in {A1At, A2At} : x.at < i => Given(x, a).at <= i
<1> DEFINE y == [x EXCEPT !.pc = "column", !.prompt = <<>>, !.answer = 0]
<1>1. a.prompt[1] \in Agent /\ (a.prompt[1] # "A3" => Plan[x.at].do = "ask")
  BY PlanSteps
<1>2. a.no \in Nat /\ a.careers \in Named
  BY DEF AnswerRec
<1>3. y \in PassRec /\ y.pc = "column" /\ y.at = x.at /\ y.known = x.known /\ y.list = x.list /\ y.prompt = <<>>
  BY DEF PassRec, Pcs
<1>4. x.known \in Nat \X Nat /\ x.known = <<x.known[1], x.known[2]>>
  BY DEF PassRec
<1> HIDE DEF y
<1>5. CASE a.prompt[1] = "A1"
  <2>1. Given(x, a) = [y EXCEPT !.known[1] = a.no, !.careers = a.careers]
    BY <1>5 DEF Given, y
  <2> DEFINE z == [y EXCEPT !.known = <<a.no, x.known[2]>>, !.careers = a.careers]
  <2>2. [y EXCEPT !.known[1] = a.no, !.careers = a.careers] = z
    <3>1. [y.known EXCEPT ![1] = a.no] = <<a.no, x.known[2]>>
      BY <1>2, <1>3, <1>4
    <3>2. [y EXCEPT !.known[1] = a.no, !.careers = a.careers]
            = [y EXCEPT !.known = [y.known EXCEPT ![1] = a.no], !.careers = a.careers]
      OBVIOUS
    <3> QED  BY <3>1, <3>2
  <2>3. z \in PassRec /\ z.pc = "column" /\ z.at = x.at /\ z.known = <<a.no, x.known[2]>> /\ z.list = x.list
        /\ z.prompt = <<>>
    BY <1>2, <1>3, <1>4 DEF PassRec
  <2>4. Walks(z)
    BY <2>3, <1>1, <1>5 DEF Walks, Asks
  <2> HIDE DEF z
  <2> QED  BY <1>5, <2>1, <2>2, <2>3, <2>4
<1>6. CASE a.prompt[1] = "A2"
  <2>1. Given(x, a) = [y EXCEPT !.known[2] = a.no]
    BY <1>6 DEF Given, y
  <2> DEFINE z == [y EXCEPT !.known = <<x.known[1], a.no>>]
  <2>2. [y EXCEPT !.known[2] = a.no] = z
    <3>1. [y.known EXCEPT ![2] = a.no] = <<x.known[1], a.no>>
      BY <1>2, <1>3, <1>4
    <3>2. [y EXCEPT !.known[2] = a.no] = [y EXCEPT !.known = [y.known EXCEPT ![2] = a.no]]
      OBVIOUS
    <3> QED  BY <3>1, <3>2
  <2>3. z \in PassRec /\ z.pc = "column" /\ z.at = x.at /\ z.known = <<x.known[1], a.no>> /\ z.list = x.list
        /\ z.prompt = <<>>
    BY <1>2, <1>3, <1>4 DEF PassRec
  <2>4. Walks(z)
    BY <2>3, <1>1, <1>6 DEF Walks, Asks
  <2> HIDE DEF z
  <2> QED  BY <1>6, <2>1, <2>2, <2>3, <2>4
<1>7. CASE a.prompt[1] = "A4"
  <2>1. Given(x, a) = y
    BY <1>7 DEF Given, y
  <2>2. Walks(y)
    BY <1>1, <1>3, <1>7 DEF Walks, Asks
  <2> QED  BY <1>3, <1>7, <2>1, <2>2
<1>8. CASE a.prompt[1] = "A3"
  <2> DEFINE z == [y EXCEPT !.list = {"read"} \X {a.no} \X JobNo]
  <2>1. Given(x, a) = Onward(z, {})
    BY <1>8 DEF Given, y
  <2>2. {"read"} \X {a.no} \X JobNo \subseteq Posting
    BY <1>2 DEF Posting
  <2>3. z \in PassRec /\ z.at = x.at /\ z.known = x.known /\ z.list = {"read"} \X {a.no} \X JobNo
    BY <2>2, <1>3 DEF PassRec
  <2> HIDE DEF z
  <2>4. z.at \in 1..LastAt /\ z.at # LastAt
    BY <1>8, <2>3, PlanSteps
  <2> QED  BY <1>8, <2>1, <2>3, <2>4, OnwardIs
<1> QED  BY <1>1, <1>5, <1>6, <1>7, <1>8 DEF Agent

-----------------------------------------------------------------------------
(* What the steps do *)

\* Evidence is only ever added to, and no text twice.
Grows ==
  /\ evidence' \in Seq(Texts) /\ IsInjective(evidence')
  /\ Len(evidence') >= Len(evidence) /\ \A n \in 0..Len(evidence) : Window(n)' = Window(n)

LEMMA TextGrows ==
  ASSUME CompanyResearchAssumption, evidence \in Seq(Texts), IsInjective(evidence), NEW t \in Texts,
         evidence' = WithText(evidence, t)
  PROVE  Grows
<1>1. CASE t \in ToSet(evidence)
  <2>1. evidence' = evidence
    BY <1>1 DEF WithText
  <2> QED  BY <2>1 DEF Grows, Window
<1>2. CASE t \notin ToSet(evidence)
  <2>1. evidence' = Append(evidence, t)
    BY <1>2 DEF WithText
  <2>2. /\ evidence' \in Seq(Texts) /\ Len(evidence') = Len(evidence) + 1 /\ Len(evidence) \in Nat
        /\ \A i \in 1..Len(evidence) : evidence'[i] = evidence[i]
        /\ evidence'[Len(evidence) + 1] = t
    BY <2>1
  <2>3. \A i \in 1..Len(evidence) : evidence[i] # t
    BY <1>2 DEF ToSet
  <2>4. IsInjective(evidence')
    <3>1. DOMAIN evidence' = 1..Len(evidence) + 1 /\ DOMAIN evidence = 1..Len(evidence)
      BY <2>2
    <3>2. \A i, j \in 1..Len(evidence) : evidence[i] = evidence[j] => i = j
      BY <3>1 DEF IsInjective
    <3>3. \A i \in 1..Len(evidence) + 1 : i = Len(evidence) + 1 \/ i \in 1..Len(evidence)
      BY <2>2
    <3>4. ASSUME NEW i \in 1..Len(evidence) + 1, NEW j \in 1..Len(evidence) + 1, evidence'[i] = evidence'[j]
          PROVE  i = j
      <4>1. CASE i = Len(evidence) + 1 /\ j = Len(evidence) + 1
        BY <4>1
      <4>2. CASE i \in 1..Len(evidence) /\ j \in 1..Len(evidence)
        BY <4>2, <3>2, <3>4, <2>2
      <4>3. CASE i = Len(evidence) + 1 /\ j \in 1..Len(evidence)
        BY <4>3, <2>2, <2>3, <3>4
      <4>4. CASE i \in 1..Len(evidence) /\ j = Len(evidence) + 1
        BY <4>4, <2>2, <2>3, <3>4
      <4> QED  BY <3>3, <4>1, <4>2, <4>3, <4>4
    <3> QED  BY <3>1, <3>4 DEF IsInjective
  <2>5. ASSUME NEW n \in 0..Len(evidence)
        PROVE  Window(n)' = Window(n)
    <3>1. PromptItems \in Nat
      BY DEF CompanyResearchAssumption
    <3> DEFINE l == IF n < PromptItems THEN n ELSE PromptItems
    <3>2. l \in Nat /\ l <= n /\ n <= Len(evidence)
      BY <2>2, <3>1
    <3>3. Window(n) = [i \in 1..l |-> evidence[n - i + 1]] /\ Window(n)' = [i \in 1..l |-> evidence'[n - i + 1]]
      BY DEF Window
    <3> HIDE DEF l
    <3>4. \A i \in 1..l : n - i + 1 \in 1..Len(evidence)
      BY <2>2, <3>2
    <3> QED  BY <2>2, <3>3, <3>4
  <2> QED  BY <2>2, <2>4, <2>5 DEF Grows
<1> QED  BY <1>1, <1>2

\* A pass went on without the model.
Walking == {"go", "http", "open", "write", "store", "insert"}
Walked(r) ==
  /\ pass[r].pc \in Walking /\ pass[r].at \in 1..LastAt /\ Do(r) \notin Asks
  /\ \E y \in PassRec :
       /\ pass' = [pass EXCEPT ![r] = y] /\ Walks(y) /\ y.pc \in Walking /\ y.known = pass[r].known
       /\ y.at >= pass[r].at /\ \A i \in {A1At, A2At} : pass[r].at < i => y.at <= i
       /\ \A j \in y.list : j \in pass[r].list \/ j[1] = "board"
  /\ Grows
  /\ row' \in [profile : {row.profile}, intel : {row.intel}, class : {row.class}, ats : AtsKind]
  /\ jobs' \subseteq jobs \cup pass[r].list
  /\ file' \in [Page -> {"none", "torn", "fresh", "stale"}] /\ fetched' \in [Page -> Nat] /\ excused' \in [Page -> Nat]
  /\ UNCHANGED <<answers, paid, excess, expired, mixed>>

\* The pass is at the statement its step is of.
LEMMA PassIs ==
  ASSUME Shape, NEW r \in Pass
  PROVE  /\ pass[r] \in PassRec /\ Walks(pass[r]) /\ Url(r) = UrlOf(pass[r])
         /\ pass[r].pc \notin {"unbegun", "over"} => pass[r].at \in 1..LastAt
BY DEF Shape, Walks, Url, UrlOf, Do, On

\* What goes on goes on by Onward.
LEMMA WalksOn ==
  ASSUME CompanyResearchAssumption, NEW x \in PassRec, x.at \in 1..LastAt, Plan[x.at].do \notin Asks,
         NEW kinds \in {{}, {"career"}, {"listing", "extract"}, {"hint", "board", "listing", "extract"}}
  PROVE  /\ Onward(x, kinds) \in PassRec /\ Walks(Onward(x, kinds)) /\ Onward(x, kinds).pc = "go"
         /\ Onward(x, kinds).known = x.known /\ Onward(x, kinds).list = x.list
         /\ Onward(x, kinds).at >= x.at /\ \A i \in {A1At, A2At} : x.at < i => Onward(x, kinds).at <= i
<1>1. x.at # LastAt /\ "ask" \notin kinds
  BY PlanIs DEF Asks
<1>2. Onward(x, kinds).at > x.at => Onward(x, kinds).at >= x.at
  <2>1. Onward(x, kinds).at \in Nat /\ x.at \in Nat
    BY OnwardIs DEF PassRec
  <2> QED  BY <2>1
<1> QED  BY <1>1, <1>2, OnwardIs

LEMMA StepsWalk ==
  ASSUME CompanyResearchAssumption, Shape, NEW r \in Pass,
         Crawl(r) \/ Probe(r) \/ StoreAts(r) \/ StoreJobs(r)
  PROVE  Walked(r)
<1> DEFINE x == pass[r]
<1>1. x \in PassRec /\ Walks(x) /\ Url(r) = UrlOf(x) /\ (x.pc \notin {"unbegun", "over"} => x.at \in 1..LastAt)
  BY PassIs
<1>2. /\ evidence \in Seq(Texts) /\ IsInjective(evidence) /\ file \in [Page -> {"none", "torn", "fresh", "stale"}]
      /\ fetched \in [Page -> Nat] /\ excused \in [Page -> Nat] /\ pass \in [Pass -> PassRec]
      /\ row \in [profile : Nat, intel : Nat, class : Nat \X Nat, ats : AtsKind]
  BY DEF Shape
<1>3. evidence' = evidence => Grows
  BY <1>2 DEF Grows, Window
<1>4. row' = row => row' \in [profile : {row.profile}, intel : {row.intel}, class : {row.class}, ats : AtsKind]
  BY <1>2
<1>5. Crawls \cap Asks = {} /\ "search" \notin Asks
  BY DEF Crawls, Asks
<1> DEFINE Passes ==
      \E y \in PassRec :
         /\ pass' = [pass EXCEPT ![r] = y] /\ Walks(y) /\ y.pc \in Walking /\ y.known = x.known
         /\ y.at >= x.at /\ \A i \in {A1At, A2At} : x.at < i => y.at <= i
         /\ \A j \in y.list : j \in x.list \/ j[1] = "board"
<1>6. ASSUME NEW pc \in Walking, Goto(r, pc), x.at \in 1..LastAt,
             pc \in {"http", "open", "write", "store"} => Do(r) \in Crawls,
             pc = "insert" => Do(r) = "jobs"
      PROVE  Passes
  <2> DEFINE y == [x EXCEPT !.pc = pc]
  <2>1. pass' = [pass EXCEPT ![r] = y]
    BY <1>6 DEF Goto
  <2>2. y \in PassRec /\ y.pc = pc /\ y.known = x.known /\ y.at = x.at /\ y.list = x.list /\ y.prompt = x.prompt
    BY <1>1 DEF PassRec, Walking, Pcs
  <2>3. Walks(y)
    BY <1>6, <2>2 DEF Walks, Walking, Do
  <2>4. x.at \in Nat /\ A1At \in Nat /\ A2At \in Nat
    BY <1>1, PlanIs DEF PassRec
  <2> HIDE DEF y, x
  <2>5. y.at >= x.at /\ \A i \in {A1At, A2At} : x.at < i => y.at <= i
    BY <2>2, <2>4
  <2>6. \A j \in y.list : j \in x.list \/ j[1] = "board"
    BY <2>2
  <2> QED  BY <2>1, <2>2, <2>3, <2>5, <2>6
<1>7. ASSUME NEW kinds \in {{}, {"career"}, {"listing", "extract"}}, GoOn(r, kinds), x.at \in 1..LastAt, Do(r) \notin Asks
      PROVE  Passes
  <2> DEFINE y == Onward(x, kinds)
  <2>1. pass' = [pass EXCEPT ![r] = y]
    BY <1>7 DEF GoOn
  <2>2. Plan[x.at].do \notin Asks /\ kinds \in {{}, {"career"}, {"listing", "extract"}, {"hint", "board", "listing", "extract"}}
    BY <1>7 DEF Do
  <2>4. x \in PassRec /\ x.at \in 1..LastAt
    BY <1>1, <1>7
  <2> HIDE DEF x
  <2>3. /\ y \in PassRec /\ Walks(y) /\ y.pc = "go" /\ y.known = x.known /\ y.list = x.list
        /\ y.at >= x.at /\ \A i \in {A1At, A2At} : x.at < i => y.at <= i
    BY <2>2, <2>4, WalksOn
  <2> HIDE DEF y
  <2> QED  BY <2>1, <2>3 DEF Walking
<1>8. ASSUME Missed(r), x.at \in 1..LastAt, Do(r) \notin Asks
      PROVE  Passes
  <2>1. \E kinds \in {{}, {"career"}, {"listing", "extract"}} : GoOn(r, kinds)
    BY <1>8 DEF Missed
  <2> QED  BY <2>1, <1>7, <1>8
<1>9. ASSUME Found(r), x.at \in 1..LastAt, Do(r) \notin Asks
      PROVE  Passes
  <2>1. \E kinds \in {{}, {"career"}, {"listing", "extract"}} : GoOn(r, kinds)
    BY <1>9 DEF Found
  <2> QED  BY <2>1, <1>7, <1>9
<1>10. ASSUME x.at \in 1..LastAt, Do(r) \in Crawls
       PROVE  Url(r) \in Page /\ TextOf[Url(r)] \in Texts
  BY <1>1, <1>10, UrlIs DEF Do
<1>11. ASSUME x.at \in 1..LastAt, Do(r) = "search"
       PROVE  TextOf[Url(r)] \in Texts
  BY <1>1, <1>11, UrlIs DEF Do
<1>21. ASSUME x.pc \in Walking, x.at \in 1..LastAt, Do(r) \notin Asks, Passes, Grows,
              row' \in [profile : {row.profile}, intel : {row.intel}, class : {row.class}, ats : AtsKind],
              jobs' \subseteq jobs \cup x.list, file' \in [Page -> {"none", "torn", "fresh", "stale"}],
              fetched' \in [Page -> Nat], excused' \in [Page -> Nat],
              UNCHANGED <<answers, paid, excess, expired, mixed>>
       PROVE  Walked(r)
  BY <1>21 DEF Walked
<1> HIDE DEF Passes
<1>12. CASE Get(r)
  <2>1. At(r, Crawls, "go") /\ x.pc = "go" /\ x.at \in 1..LastAt /\ Do(r) \in Crawls /\ Do(r) \notin Asks
    BY <1>12, <1>1, <1>5 DEF Get, At
  <2>2. Url(r) \in Page
    BY <2>1, <1>10
  <2>3. CASE Goto(r, "store") /\ UNCHANGED <<shared, history>>
    <3>1. Passes
      BY <1>6, <2>1, <2>3 DEF Walking
    <3> QED  BY <3>1, <2>1, <2>3, <1>2, <1>3, <1>4 DEF Walked, Passes, Walking, shared, history
  <2>4. CASE Missed(r) /\ UNCHANGED <<shared, history>>
    <3>1. Passes
      BY <1>8, <2>1, <2>4
    <3> QED  BY <3>1, <2>1, <2>4, <1>2, <1>3, <1>4 DEF Walked, Passes, Walking, shared, history
  <2>5. CASE Request(r)
    <3>1. Passes
      BY <1>6, <2>1, <2>5 DEF Walking, Request
    <3>2. excused' \in [Page -> Nat]
      <4>1. excused[Url(r)] \in Nat
        BY <1>2, <2>2
      <4>2. excused' = [excused EXCEPT ![Url(r)] = @ + 1] \/ excused' = [excused EXCEPT ![Url(r)] = @ + 0]
        BY <2>5 DEF Request
      <4>3. excused[Url(r)] + 1 \in Nat /\ excused[Url(r)] + 0 \in Nat
        BY <4>1
      <4> QED  BY <1>2, <4>2, <4>3
    <3>3. /\ x.pc \in Walking /\ jobs' \subseteq jobs \cup x.list
          /\ UNCHANGED <<file, evidence, answers, row, fetched, paid, excess, expired, mixed>>
      BY <2>1, <2>5 DEF Walking, shared, Request
    <3>4. /\ Grows /\ row' \in [profile : {row.profile}, intel : {row.intel}, class : {row.class}, ats : AtsKind]
          /\ file' \in [Page -> {"none", "torn", "fresh", "stale"}] /\ fetched' \in [Page -> Nat]
      BY <1>2, <1>3, <1>4, <3>3
    <3> HIDE DEF x
    <3> QED  BY <1>21, <3>1, <3>2, <3>3, <3>4, <2>1
  <2> QED  BY <1>12, <2>3, <2>4, <2>5 DEF Get
<1>13. CASE Http(r)
  <2>1. x.pc = "http" /\ x.at \in 1..LastAt /\ Do(r) \in Crawls /\ Do(r) \notin Asks
    BY <1>13, <1>1, <1>5 DEF Http, At
  <2>2. Url(r) \in Page
    BY <2>1, <1>10
  <2>3. Passes
    BY <1>6, <1>8, <1>13, <2>1 DEF Walking, Http
  <2>4. fetched' \in [Page -> Nat]
    <3>1. fetched' = fetched \/ fetched' = [fetched EXCEPT ![Url(r)] = @ + 1]
      BY <1>13 DEF Http
    <3>2. fetched[Url(r)] + 1 \in Nat
      BY <1>2, <2>2
    <3> QED  BY <3>1, <3>2, <1>2
  <2> QED  BY <2>1, <2>3, <2>4, <1>13, <1>2, <1>3, <1>4 DEF Walked, Passes, Walking, shared, Http
<1>14. CASE Open(r)
  <2>1. x.pc = "open" /\ x.at \in 1..LastAt /\ Do(r) \in Crawls /\ Do(r) \notin Asks
    BY <1>14, <1>1, <1>5 DEF Open, At
  <2>2. Url(r) \in Page
    BY <2>1, <1>10
  <2>3. Passes
    BY <1>6, <1>14, <2>1 DEF Walking, Open
  <2>4. file' \in [Page -> {"none", "torn", "fresh", "stale"}]
    BY <1>2, <1>14, <2>2 DEF Open
  <2> QED  BY <2>1, <2>3, <2>4, <1>14, <1>2, <1>3, <1>4 DEF Walked, Passes, Walking, history, Open
<1>15. CASE WriteFile(r)
  <2>1. x.pc = "write" /\ x.at \in 1..LastAt /\ Do(r) \in Crawls /\ Do(r) \notin Asks
    BY <1>15, <1>1, <1>5 DEF WriteFile, At
  <2>2. Url(r) \in Page
    BY <2>1, <1>10
  <2>3. Passes
    BY <1>6, <1>15, <2>1 DEF Walking, WriteFile
  <2>4. file' \in [Page -> {"none", "torn", "fresh", "stale"}]
    BY <1>2, <1>15, <2>2 DEF WriteFile
  <2> QED  BY <2>1, <2>3, <2>4, <1>15, <1>2, <1>3, <1>4 DEF Walked, Passes, Walking, history, WriteFile
<1>16. CASE StoreEvidence(r)
  <2>1. x.pc \in {"store", "go"} /\ x.at \in 1..LastAt /\ Do(r) \in Crawls \cup {"search"} /\ Do(r) \notin Asks
    BY <1>16, <1>1, <1>5 DEF StoreEvidence, At
  <2>2. Grows
    BY <1>16, <1>2, <2>1, <1>10, <1>11, TextGrows DEF StoreEvidence
  <2>3. Passes
    BY <1>9, <1>16, <2>1 DEF StoreEvidence
  <2> QED  BY <2>1, <2>2, <2>3, <1>16, <1>2, <1>4 DEF Walked, Passes, Walking, history, StoreEvidence
<1>17. CASE Nothing(r)
  <2>1. x.pc \in {"store", "go"} /\ x.at \in 1..LastAt /\ Do(r) \notin Asks
    BY <1>17, <1>1, <1>5 DEF Nothing, At
  <2>2. Passes
    BY <1>8, <1>17, <2>1 DEF Nothing
  <2> QED  BY <2>1, <2>2, <1>17, <1>2, <1>3, <1>4 DEF Walked, Passes, Walking, shared, history, Nothing
<1>18. CASE Probe(r)
  <2>1. x.pc = "go" /\ x.at \in 1..LastAt /\ Do(r) \notin Asks /\ Do(r) \in {"hint", "board"}
    BY <1>18, <1>1 DEF Probe, At, Asks
  <2>2. Board(r) \in AtsKind
    <3>1. CASE Do(r) = "board"
      BY <3>1, <2>1, PlanSteps DEF Board, Do, On, AtsKind
    <3>2. CASE Do(r) = "hint"
      <4>1. x.careers \in CareersUrl
        <5>1. Careers \in Seq(ToSet(Careers)) /\ Careers # <<>>
          BY DEF CompanyResearchAssumption
        <5>2. 1 \in DOMAIN Careers
          BY <5>1
        <5> QED  BY <1>1, <5>2 DEF PassRec, Named, CareersUrl, ToSet
      <4> QED  BY <3>2, <4>1 DEF Board, CompanyResearchAssumption, AtsKind
    <3> QED  BY <2>1, <3>1, <3>2
  <2>3. PICK list \in Postings(Board(r)) :
           \/ list = {} /\ GoOn(r, {})
           \/ /\ list # {}
              /\ pass' = [pass EXCEPT ![r] = Onward([@ EXCEPT !.ats = Board(r), !.list = list],
                                                    {"hint", "board", "listing", "extract"})]
    BY <1>18 DEF Probe
  <2>4. Passes
    <3>1. CASE list = {} /\ GoOn(r, {})
      BY <3>1, <1>7, <2>1
    <3>2. CASE list # {}
      <4> DEFINE z == [x EXCEPT !.ats = Board(r), !.list = list]
                 y == Onward(z, {"hint", "board", "listing", "extract"})
      <4>1. list \subseteq Posting /\ \A j \in list : j[1] = "board"
        BY <3>2, <2>2, <2>3 DEF Postings, Posting, AtsKind
      <4>2. z \in PassRec /\ z.at = x.at /\ z.known = x.known /\ z.list = list
        BY <1>1, <2>2, <4>1 DEF PassRec
      <4>3. pass' = [pass EXCEPT ![r] = y]
        BY <2>3, <3>2
      <4>4. z.at \in 1..LastAt /\ Plan[z.at].do \notin Asks
        BY <2>1, <4>2 DEF Do
      <4> HIDE DEF z, x
      <4>5. /\ y \in PassRec /\ Walks(y) /\ y.pc = "go" /\ y.known = z.known /\ y.list = z.list
            /\ y.at >= z.at /\ \A i \in {A1At, A2At} : z.at < i => y.at <= i
        BY <4>2, <4>4, WalksOn
      <4> HIDE DEF y
      <4> QED  BY <4>1, <4>2, <4>3, <4>5 DEF Walking, Passes
    <3> QED  BY <2>3, <3>1, <3>2
  <2> QED  BY <2>1, <2>4, <1>18, <1>2, <1>3, <1>4 DEF Walked, Passes, Walking, shared, history, Probe
<1>19. CASE StoreAts(r)
  <2>1. x.pc = "go" /\ x.at \in 1..LastAt /\ Do(r) \notin Asks /\ Do(r) = "jobs"
    BY <1>19, <1>1 DEF StoreAts, At, Asks
  <2>2. Passes
    BY <1>6, <1>19, <2>1 DEF Walking, StoreAts
  <2>3. row' \in [profile : {row.profile}, intel : {row.intel}, class : {row.class}, ats : AtsKind]
    BY <1>1, <1>2, <1>19 DEF StoreAts, PassRec
  <2> QED  BY <2>1, <2>2, <2>3, <1>19, <1>2, <1>3 DEF Walked, Passes, Walking, history, StoreAts
<1>20. CASE StoreJobs(r)
  <2>1. x.pc = "insert" /\ x.at \in 1..LastAt /\ Do(r) \notin Asks /\ Do(r) = "jobs"
    BY <1>20, <1>1 DEF StoreJobs, At, Asks
  <2>2. CASE GoOn(r, {}) /\ UNCHANGED jobs
    <3>1. Passes
      BY <1>7, <2>1, <2>2
    <3> QED  BY <3>1, <2>1, <2>2, <1>20, <1>2, <1>3, <1>4 DEF Walked, Passes, Walking, history, StoreJobs
  <2>3. ASSUME NEW j \in x.list, jobs' = jobs \cup {j}, pass' = [pass EXCEPT ![r].list = @ \ {j}]
        PROVE  Walked(r)
    <3> DEFINE y == [x EXCEPT !.list = x.list \ {j}]
    <3>1. pass' = [pass EXCEPT ![r] = y]
      BY <2>3
    <3>2. /\ y \in PassRec /\ y.pc = "insert" /\ y.known = x.known /\ y.at = x.at /\ y.list = x.list \ {j}
          /\ y.prompt = x.prompt
      BY <1>1, <2>1 DEF PassRec
    <3>3. Walks(y) /\ x.at \in Nat /\ A1At \in Nat /\ A2At \in Nat
      BY <1>1, <2>1, <3>2, PlanIs DEF Walks, Do, PassRec
    <3>4. Passes
      <4> HIDE DEF x, y
      <4>1. y.at >= x.at /\ \A i \in {A1At, A2At} : x.at < i => y.at <= i
        BY <3>2, <3>3
      <4>2. \A i \in y.list : i \in x.list \/ i[1] = "board"
        BY <3>2
      <4> QED  BY <3>1, <3>2, <3>3, <4>1, <4>2 DEF Walking, Passes
    <3>5. /\ UNCHANGED <<file, evidence, answers, row, fetched, excused, paid, excess, expired, mixed>>
          /\ jobs' \subseteq jobs \cup x.list /\ x.pc \in Walking
      BY <2>1, <2>3, <1>20 DEF history, StoreJobs, Walking
    <3>6. Grows /\ row' \in [profile : {row.profile}, intel : {row.intel}, class : {row.class}, ats : AtsKind]
      BY <3>5, <1>3, <1>4
    <3>7. file' \in [Page -> {"none", "torn", "fresh", "stale"}] /\ fetched' \in [Page -> Nat] /\ excused' \in [Page -> Nat]
      BY <3>5, <1>2
    <3> HIDE DEF Passes, x, y
    <3> QED  BY <1>21, <3>4, <3>5, <3>6, <3>7, <2>1
  <2> QED  BY <1>20, <2>2, <2>3 DEF StoreJobs
<1> QED  BY <1>12, <1>13, <1>14, <1>15, <1>16, <1>17, <1>18, <1>19, <1>20 DEF Crawl

\* The pass is given an answer.
Gets(r, a) ==
  /\ a \in AnswerRec /\ a.prompt[1] = On(r)
  /\ pass' = [pass EXCEPT ![r] = Given(pass[r], a)]

LEMMA LookupIs ==
  ASSUME CompanyResearchAssumption, Shape, NEW r \in Pass, Lookup(r)
  PROVE  /\ pass[r].pc = "go" /\ pass[r].at \in 1..LastAt /\ Do(r) \in Asks
         /\ UNCHANGED <<shared, history>>
         /\ \/ \E y \in PassRec :
                 /\ pass' = [pass EXCEPT ![r] = y] /\ Walks(y)
                 /\ y.pc = "model" /\ y.prompt = Prompt(r) /\ y.at = pass[r].at /\ y.known = pass[r].known
                 /\ y.list = pass[r].list
            \/ \E a \in answers : a.prompt = Prompt(r) /\ Gets(r, a)
<1> DEFINE x == pass[r]
<1>1. x \in PassRec /\ x.pc = "go" /\ x.at \in 1..LastAt /\ Do(r) \in Asks
  BY PassIs DEF Lookup, At
<1>2. Prompt(r) \in Prompts /\ Prompt(r)[1] = On(r)
  BY <1>1, PromptIs
<1>3. answers \subseteq AnswerRec
  BY DEF Shape, AnswerRec
<1>4. ASSUME pass' = [pass EXCEPT ![r].pc = "model", ![r].prompt = Prompt(r)]
      PROVE  \E y \in PassRec :
                 /\ pass' = [pass EXCEPT ![r] = y] /\ Walks(y)
                 /\ y.pc = "model" /\ y.prompt = Prompt(r) /\ y.at = x.at /\ y.known = x.known
                 /\ y.list = x.list
  <2> DEFINE y == [x EXCEPT !.pc = "model", !.prompt = Prompt(r)]
  <2>1. pass' = [pass EXCEPT ![r] = y]
    BY <1>4 DEF Shape
  <2>2. y \in PassRec /\ y.pc = "model" /\ y.prompt = Prompt(r) /\ y.at = x.at /\ y.known = x.known /\ y.list = x.list
    BY <1>1, <1>2 DEF PassRec, Pcs
  <2>3. Walks(y)
    BY <1>1, <1>2, <2>2 DEF Walks, Do, On
  <2> HIDE DEF x, y
  <2> QED  BY <2>1, <2>2, <2>3
<1>5. \A a \in Cached(Prompt(r)) : a \in answers /\ a \in AnswerRec /\ a.prompt = Prompt(r) /\ a.prompt[1] = On(r)
  BY <1>2, <1>3 DEF Cached
<1>6. ASSUME NEW a \in Cached(Prompt(r)), pass' = [pass EXCEPT ![r] = Given(@, a)]
      PROVE  Gets(r, a)
  BY <1>5, <1>6 DEF Gets, Shape
<1> QED  BY <1>1, <1>4, <1>5, <1>6 DEF Lookup

LEMMA AnswerIs ==
  ASSUME CompanyResearchAssumption, Shape, NEW r \in Pass, Answer(r)
  PROVE  /\ pass[r].pc = "model" /\ pass[r].at \in 1..LastAt /\ Do(r) \in Asks /\ On(r) \in Agent
         /\ pass[r].prompt \in Prompts /\ pass[r].prompt[1] = On(r)
         /\ \E y \in PassRec :
              /\ pass' = [pass EXCEPT ![r] = y] /\ Walks(y) /\ y.pc = "keep" /\ y.prompt = pass[r].prompt
              /\ y.answer = paid[On(r)] + 1 /\ y.at = pass[r].at /\ y.known = pass[r].known /\ y.list = pass[r].list
         /\ paid' = [paid EXCEPT ![On(r)] = @ + 1] /\ paid' \in [Agent -> Nat]
         /\ \A a \in Agent : paid'[a] >= paid[a]
         /\ excess' = excess + (IF HasAnswer(pass[r].prompt) THEN 1 ELSE 0)
         /\ UNCHANGED <<shared, fetched, excused, expired, mixed>>
<1> DEFINE x == pass[r]
<1>1. x \in PassRec /\ Walks(x) /\ x.pc = "model" /\ x.at \in 1..LastAt /\ Do(r) \in Asks
  BY PassIs DEF Answer, At
<1>2. On(r) \in Agent
  BY <1>1, PlanSteps DEF Do, On
<1>3. x.prompt \in Prompts /\ x.prompt[1] = On(r)
  BY <1>1 DEF Walks, On
<1>4. PICK u \in IF On(r) = "A1" THEN {Careers[1]} \cup Elsewhere ELSE {x.careers} :
         pass' = [pass EXCEPT ![r].pc = "keep", ![r].answer = paid[On(r)] + 1, ![r].careers = u]
  BY DEF Answer
<1>5. u \in Named /\ paid[On(r)] \in Nat /\ paid[On(r)] + 1 \in Nat /\ paid \in [Agent -> Nat]
  <2>1. paid \in [Agent -> Nat]
    BY DEF Shape
  <2>2. paid[On(r)] \in Nat
    BY <1>2, <2>1
  <2>3. u \in Named
    <3>1. x.careers \in Named
      BY <1>1 DEF PassRec
    <3> QED  BY <3>1 DEF Named
  <2> QED  BY <2>1, <2>2, <2>3
<1>6. \E y \in PassRec :
         /\ pass' = [pass EXCEPT ![r] = y] /\ Walks(y) /\ y.pc = "keep" /\ y.prompt = x.prompt
         /\ y.answer = paid[On(r)] + 1 /\ y.at = x.at /\ y.known = x.known /\ y.list = x.list
  <2> DEFINE y == [x EXCEPT !.pc = "keep", !.answer = paid[On(r)] + 1, !.careers = u]
  <2>1. pass' = [pass EXCEPT ![r] = y]
    BY <1>4 DEF Shape
  <2>2. /\ y \in PassRec /\ y.pc = "keep" /\ y.prompt = x.prompt /\ y.answer = paid[On(r)] + 1 /\ y.at = x.at
        /\ y.known = x.known /\ y.list = x.list
    BY <1>1, <1>5 DEF PassRec, Pcs
  <2>3. Walks(y)
    BY <1>1, <1>3, <2>2 DEF Walks, Do, On
  <2> HIDE DEF x, y
  <2> QED  BY <2>1, <2>2, <2>3
<1>7. paid' = [paid EXCEPT ![On(r)] = @ + 1]
  BY DEF Answer
<1>8. paid' \in [Agent -> Nat] /\ \A a \in Agent : paid'[a] >= paid[a]
  BY <1>2, <1>5, <1>7
<1> QED  BY <1>1, <1>2, <1>3, <1>6, <1>7, <1>8 DEF Answer

\* The row the answer of the pass makes.
Kept(r) == [prompt |-> pass[r].prompt, no |-> pass[r].answer, careers |-> pass[r].careers]

LEMMA KeepIs ==
  ASSUME CompanyResearchAssumption, Shape, NEW r \in Pass, Keep(r)
  PROVE  /\ pass[r].pc = "keep" /\ pass[r].at \in 1..LastAt /\ Do(r) \in Asks
         /\ Gets(r, Kept(r)) /\ answers' = answers \cup {Kept(r)}
         /\ UNCHANGED <<file, evidence, row, jobs, history>>
<1>1. pass[r] \in PassRec /\ Walks(pass[r]) /\ pass[r].pc = "keep" /\ pass[r].at \in 1..LastAt /\ Do(r) \in Asks
  BY PassIs DEF Keep, At
<1>2. pass[r].prompt \in Prompts /\ pass[r].prompt[1] = On(r)
  BY <1>1 DEF Walks, On
<1>3. Kept(r) \in AnswerRec /\ Kept(r).prompt[1] = On(r)
  BY <1>1, <1>2 DEF Kept, AnswerRec, PassRec
<1>4. pass' = [pass EXCEPT ![r] = Given(pass[r], Kept(r))] /\ answers' = answers \cup {Kept(r)}
  BY DEF Keep, Kept, Shape
<1> QED  BY <1>1, <1>3, <1>4 DEF Gets, Keep

LEMMA ColumnIs ==
  ASSUME CompanyResearchAssumption, Shape, NEW r \in Pass, Column(r)
  PROVE  /\ pass[r].pc = "column" /\ pass[r].at \in {A1At, A2At, LastAt} /\ pass[r].at \in 1..LastAt
         /\ pass' = [pass EXCEPT ![r] = Onward(pass[r], {})]
         /\ pass[r].at = A1At => row' = [row EXCEPT !.profile = pass[r].known[1]]
         /\ pass[r].at = A2At => row' = [row EXCEPT !.intel = pass[r].known[2]]
         /\ pass[r].at = LastAt => row' = [row EXCEPT !.class = pass[r].known]
         /\ row' \in [profile : Nat, intel : Nat, class : Nat \X Nat, ats : AtsKind]
         /\ row'.class \in {row.class, pass[r].known}
         /\ UNCHANGED <<file, evidence, answers, jobs, history>>
<1>1. pass[r] \in PassRec /\ Walks(pass[r]) /\ pass[r].pc = "column" /\ pass[r].at \in 1..LastAt /\ Do(r) = "ask"
  BY PassIs DEF Column, At, Walks, Do
<1>2. /\ pass[r].at \in {A1At, A2At, LastAt} /\ A1At # A2At /\ A2At # LastAt /\ A1At # LastAt
      /\ Plan[A1At].on = "A1" /\ Plan[A2At].on = "A2" /\ Plan[LastAt].on = "A4"
  BY <1>1, PlanIs DEF Do
<1>3. row \in [profile : Nat, intel : Nat, class : Nat \X Nat, ats : AtsKind]
  BY DEF Shape
<1>4. pass[r].known \in Nat \X Nat /\ pass[r].known[1] \in Nat /\ pass[r].known[2] \in Nat
  BY <1>1 DEF PassRec
<1>5. CASE pass[r].at = A1At
  <2>1. row' = [row EXCEPT !.profile = pass[r].known[1]]
    BY <1>2, <1>5 DEF Column, On
  <2> QED  BY <2>1, <1>1, <1>2, <1>3, <1>4, <1>5 DEF Column, GoOn
<1>6. CASE pass[r].at = A2At
  <2>1. row' = [row EXCEPT !.intel = pass[r].known[2]]
    BY <1>2, <1>6 DEF Column, On
  <2> QED  BY <2>1, <1>1, <1>2, <1>3, <1>4, <1>6 DEF Column, GoOn
<1>7. CASE pass[r].at = LastAt
  <2>1. row' = [row EXCEPT !.class = pass[r].known]
    BY <1>2, <1>7 DEF Column, On
  <2> QED  BY <2>1, <1>1, <1>2, <1>3, <1>4, <1>7 DEF Column, GoOn
<1> QED  BY <1>2, <1>5, <1>6, <1>7

\* A pass before its first statement.
Begun == [Unbegun EXCEPT !.pc = "go", !.at = 1]

LEMMA EndsAre ==
  ASSUME CompanyResearchAssumption
  PROVE  /\ Begun \in PassRec /\ Walks(Begun) /\ Begun.pc = "go" /\ Begun.at = 1
         /\ Begun.prompt = <<>> /\ Begun.known = <<0, 0>> /\ Begun.list = {}
         /\ Over \in PassRec /\ Walks(Over) /\ Over.pc = "over" /\ Over.at = 0
         /\ Over.prompt = <<>> /\ Over.known = <<0, 0>> /\ Over.list = {}
         /\ Unbegun \in PassRec /\ Walks(Unbegun) /\ Unbegun.pc = "unbegun" /\ Unbegun.at = 0
         /\ Unbegun.known = <<0, 0>> /\ Unbegun.list = {}
<1>1. 1 \in 1..LastAt
  BY PlanIs
<1>2. /\ Unbegun \in PassRec /\ Unbegun.pc = "unbegun" /\ Unbegun.at = 0 /\ Unbegun.prompt = <<>>
      /\ Unbegun.known = <<0, 0>> /\ Unbegun.list = {}
  BY DEF Unbegun, PassRec, Pcs, Named, AtsKind, Posting
<1>3. /\ Over \in PassRec /\ Over.pc = "over" /\ Over.at = 0 /\ Over.prompt = <<>>
      /\ Over.known = <<0, 0>> /\ Over.list = {}
  BY DEF Over, Unbegun, PassRec, Pcs, Named, AtsKind, Posting
<1>4. /\ Begun \in PassRec /\ Begun.pc = "go" /\ Begun.at = 1 /\ Begun.prompt = <<>>
      /\ Begun.known = <<0, 0>> /\ Begun.list = {}
  BY DEF Begun, Unbegun, PassRec, Pcs, Named, AtsKind, Posting
<1> QED  BY <1>1, <1>2, <1>3, <1>4 DEF Walks

LEMMA StartIs ==
  ASSUME Shape, NEW r \in Pass, Start(r)
  PROVE  /\ pass[r] = Unbegun /\ pass' = [pass EXCEPT ![r] = Begun]
         /\ mixed' = (\E o \in Pass : Active(o)) /\ UNCHANGED <<shared, fetched, excused, paid, excess, expired>>
BY DEF Start, Shape, Begun

-----------------------------------------------------------------------------
(* The shape of the state *)

LEMMA InitShape == CompanyResearchAssumption /\ Init => Shape
<1> SUFFICES ASSUME CompanyResearchAssumption, Init
             PROVE  Shape
  OBVIOUS
<1>1. evidence \in Seq(Texts) /\ IsInjective(evidence)
  BY DEF Init, IsInjective
<1>2. row \in [profile : Nat, intel : Nat, class : Nat \X Nat, ats : AtsKind]
  BY DEF Init, AtsKind
<1>3. pass \in [Pass -> PassRec] /\ \A r \in Pass : Walks(pass[r])
  BY EndsAre DEF Init
<1> QED  BY <1>1, <1>2, <1>3 DEF Init, Shape

\* One pass moves, to a record that walks the plan.
LEMMA PassMoves ==
  ASSUME Shape, NEW r \in Pass, NEW y \in PassRec, Walks(y), pass' = [pass EXCEPT ![r] = y]
  PROVE  /\ pass' \in [Pass -> PassRec] /\ \A o \in Pass : Walks(pass[o])'
         /\ pass'[r] = y /\ \A o \in Pass \ {r} : pass'[o] = pass[o]
<1>1. pass \in [Pass -> PassRec] /\ \A o \in Pass : Walks(pass[o])
  BY DEF Shape
<1>2. pass' \in [Pass -> PassRec] /\ pass'[r] = y /\ \A o \in Pass \ {r} : pass'[o] = pass[o]
  BY <1>1
<1>3. ASSUME NEW o \in Pass
      PROVE  Walks(pass[o])'
  <2>1. Walks(pass'[o])
    BY <1>1, <1>2
  <2> QED  BY <2>1 DEF Walks
<1> QED  BY <1>2, <1>3

\* The steps of a pass, by what they are; only time takes the other step.
PassStep(r) ==
  Start(r) \/ Walked(r) \/ Lookup(r) \/ Answer(r) \/ Keep(r) \/ Column(r) \/ Stop(r)

LEMMA StepsAreOf ==
  ASSUME CompanyResearchAssumption, Shape, Next
  PROVE  (\E r \in Pass : PassStep(r)) \/ (\E u \in Page : Expire(u))
BY StepsWalk DEF Next, PassStep, Ask

LEMMA ShapeStep ==
  ASSUME CompanyResearchAssumption, Shape, [Next]_vars
  PROVE  Shape'
<1>1. /\ file \in [Page -> {"none", "torn", "fresh", "stale"}]
      /\ evidence \in Seq(Texts) /\ IsInjective(evidence)
      /\ answers \subseteq AnswerRec
      /\ row \in [profile : Nat, intel : Nat, class : Nat \X Nat, ats : AtsKind]
      /\ jobs \subseteq Posting
      /\ pass \in [Pass -> PassRec] /\ \A r \in Pass : Walks(pass[r])
      /\ fetched \in [Page -> Nat] /\ excused \in [Page -> Nat] /\ paid \in [Agent -> Nat]
      /\ excess \in Nat /\ expired \in Nat /\ mixed \in BOOLEAN
  BY DEF Shape, AnswerRec
<1> DEFINE Passes == pass' \in [Pass -> PassRec] /\ \A r \in Pass : Walks(pass[r])'
<1> USE DEF AnswerRec
<1>2. CASE UNCHANGED vars
  <2>1. Passes
    BY <1>1, <1>2 DEF vars, Walks
  <2> QED  BY <1>1, <1>2, <2>1 DEF Shape, vars, shared, history
<1>3. ASSUME NEW r \in Pass, Start(r)
      PROVE  Shape'
  <2>1. Passes
    BY <1>3, StartIs, EndsAre, PassMoves
  <2>2. mixed' \in BOOLEAN
    BY <1>3 DEF Start
  <2>3. UNCHANGED <<file, evidence, answers, row, jobs, fetched, excused, paid, excess, expired>>
    BY <1>3, StartIs DEF shared
  <2> QED  BY <1>1, <2>1, <2>2, <2>3 DEF Shape
<1>4. ASSUME NEW r \in Pass, Walked(r)
      PROVE  Shape'
  <2>1. Passes
    BY <1>4, PassMoves DEF Walked
  <2>2. jobs' \subseteq Posting
    BY <1>1, <1>4 DEF Walked, PassRec
  <2>3. row' \in [profile : Nat, intel : Nat, class : Nat \X Nat, ats : AtsKind]
    <3>1. row' \in [profile : {row.profile}, intel : {row.intel}, class : {row.class}, ats : AtsKind]
      BY <1>4 DEF Walked
    <3>2. row.profile \in Nat /\ row.intel \in Nat /\ row.class \in Nat \X Nat
      BY <1>1
    <3> QED  BY <3>1, <3>2
  <2> QED  BY <1>1, <1>4, <2>1, <2>2, <2>3 DEF Shape, Walked, Grows
<1>5. ASSUME NEW r \in Pass, NEW a, Gets(r, a), pass[r].at \in 1..LastAt, Do(r) \in Asks
      PROVE  Passes
  <2>1. pass[r] \in PassRec /\ Plan[pass[r].at].do \in Asks
    BY <1>1, <1>5 DEF Do
  <2>2. Given(pass[r], a) \in PassRec /\ Walks(Given(pass[r], a))
    BY <1>5, <2>1, GivenIs DEF Gets, On
  <2>3. pass' = [pass EXCEPT ![r] = Given(pass[r], a)]
    BY <1>5 DEF Gets
  <2> QED  BY <2>2, <2>3, PassMoves
<1>6. ASSUME NEW r \in Pass, Lookup(r)
      PROVE  Shape'
  <2>1. Passes
    BY <1>5, <1>6, LookupIs, PassMoves
  <2>2. UNCHANGED <<shared, history>>
    BY <1>6, LookupIs
  <2> QED  BY <1>1, <2>1, <2>2 DEF Shape, shared, history
<1>7. ASSUME NEW r \in Pass, Answer(r)
      PROVE  Shape'
  <2>1. Passes
    BY <1>7, AnswerIs, PassMoves
  <2>2. /\ paid' \in [Agent -> Nat] /\ excess' = excess + (IF HasAnswer(pass[r].prompt) THEN 1 ELSE 0)
        /\ UNCHANGED <<shared, fetched, excused, expired, mixed>>
    BY <1>7, AnswerIs
  <2>3. excess' \in Nat
    BY <1>1, <2>2
  <2> QED  BY <1>1, <2>1, <2>2, <2>3 DEF Shape, shared
<1>8. ASSUME NEW r \in Pass, Keep(r)
      PROVE  Shape'
  <2>1. /\ Gets(r, Kept(r)) /\ answers' = answers \cup {Kept(r)} /\ UNCHANGED <<file, evidence, row, jobs, history>>
        /\ pass[r].at \in 1..LastAt /\ Do(r) \in Asks
    BY <1>8, KeepIs
  <2>2. Passes
    BY <1>5, <2>1
  <2>3. answers' \subseteq AnswerRec
    BY <1>1, <2>1 DEF Gets
  <2> QED  BY <1>1, <2>1, <2>2, <2>3 DEF Shape, history
<1>9. ASSUME NEW r \in Pass, Column(r)
      PROVE  Shape'
  <2>1. /\ pass' = [pass EXCEPT ![r] = Onward(pass[r], {})] /\ pass[r].at \in 1..LastAt /\ pass[r] \in PassRec
        /\ row' \in [profile : Nat, intel : Nat, class : Nat \X Nat, ats : AtsKind]
        /\ UNCHANGED <<file, evidence, answers, jobs, history>>
    BY <1>1, <1>9, ColumnIs
  <2>2. Onward(pass[r], {}) \in PassRec /\ Walks(Onward(pass[r], {}))
    BY <2>1, OnwardIs
  <2>3. Passes
    BY <2>1, <2>2, PassMoves
  <2> QED  BY <1>1, <2>1, <2>3 DEF Shape, history
<1>10. ASSUME NEW r \in Pass, Stop(r)
       PROVE  Shape'
  <2>1. Passes
    BY <1>10, EndsAre, PassMoves DEF Stop
  <2>2. /\ mixed' = TRUE /\ excess' = excess + (IF pass[r].pc = "keep" THEN 1 ELSE 0)
        /\ UNCHANGED <<shared, fetched, paid, expired>>
    BY <1>10 DEF Stop
  <2>3. excess' \in Nat
    BY <1>1, <2>2
  <2>4. excused' \in [Page -> Nat]
    <3>1. CASE pass[r].pc = "open"
      <4>1. pass[r] \in PassRec /\ pass[r].at \in 1..LastAt /\ Plan[pass[r].at].do \in Crawls /\ Url(r) = UrlOf(pass[r])
        BY <3>1, <1>1, PassIs DEF Walks
      <4>2. Url(r) \in Page
        BY <4>1, UrlIs
      <4>3. excused[Url(r)] + 1 \in Nat /\ excused' = [excused EXCEPT ![Url(r)] = @ + 1]
        BY <1>1, <1>10, <3>1, <4>2 DEF Stop
      <4> QED  BY <1>1, <4>3
    <3>2. CASE pass[r].pc # "open"
      BY <1>1, <1>10, <3>2 DEF Stop
    <3> QED  BY <3>1, <3>2
  <2> QED  BY <1>1, <2>1, <2>2, <2>3, <2>4 DEF Shape, shared
<1>11. ASSUME NEW u \in Page, Expire(u)
       PROVE  Shape'
  <2>1. Passes
    BY <1>1, <1>11 DEF Expire, Walks
  <2>2. file' \in [Page -> {"none", "torn", "fresh", "stale"}] /\ expired' \in Nat
    BY <1>1, <1>11 DEF Expire
  <2> QED  BY <1>1, <1>11, <2>1, <2>2 DEF Shape, Expire
<1> QED  BY <1>2, <1>3, <1>4, <1>6, <1>7, <1>8, <1>9, <1>10, <1>11, StepsAreOf DEF PassStep

-----------------------------------------------------------------------------
(* The numbers of the answers *)

\* The agent of an answer is one that is counted.
LEMMA AgentOf ==
  ASSUME NEW p \in Prompts
  PROVE  p[1] \in Agent
BY DEF Prompts, Agent

LEMMA NumbersStep ==
  ASSUME CompanyResearchAssumption, Shape, Numbers, [Next]_vars
  PROVE  Numbers'
<1>1. /\ paid \in [Agent -> Nat] /\ answers \subseteq AnswerRec /\ pass \in [Pass -> PassRec]
      /\ \A r \in Pass : Walks(pass[r])
      /\ row \in [profile : Nat, intel : Nat, class : Nat \X Nat, ats : AtsKind] /\ jobs \subseteq Posting
  BY DEF Shape, AnswerRec
<1>2. {"A1", "A2", "A3", "A4"} = Agent
  BY DEF Agent
\* What is below stays below: no answer is given back.
<1>3. ASSUME \A a \in Agent : paid'[a] >= paid[a], paid' \in [Agent -> Nat]
      PROVE  /\ \A k \in Nat \X Nat : Below(k) => Below(k)'
             /\ \A list \in SUBSET Posting : ReadBelow(list) => ReadBelow(list)'
             /\ \A x \in PassRec : Walks(x) /\ HoldsBelow(x) =>
                  Below(x.known)' /\ ReadBelow(x.list)' /\ (x.pc = "keep" => x.answer \in 1..paid'[x.prompt[1]])
             /\ \A a \in answers : a.no \in 1..paid'[a.prompt[1]]
  <2>1. \A a \in Agent : \A n \in 1..paid[a] : n \in 1..paid'[a]
    BY <1>1, <1>3
  <2>2. \A k \in Nat \X Nat : Below(k) => Below(k)'
    <3>1. paid["A1"] \in Nat /\ paid'["A1"] \in Nat /\ paid'["A1"] >= paid["A1"]
      BY <1>1, <1>2, <1>3
    <3>2. paid["A2"] \in Nat /\ paid'["A2"] \in Nat /\ paid'["A2"] >= paid["A2"]
      BY <1>1, <1>2, <1>3
    <3> QED  BY <3>1, <3>2 DEF Below
  <2>3. \A list \in SUBSET Posting : ReadBelow(list) => ReadBelow(list)'
    BY <1>2, <2>1 DEF ReadBelow
  <2>4. \A a \in answers : a.no \in 1..paid'[a.prompt[1]]
    BY <1>1, <2>1, AgentOf DEF AnswerRec, Numbers
  <2>5. ASSUME NEW x \in PassRec, Walks(x), HoldsBelow(x)
        PROVE  Below(x.known)' /\ ReadBelow(x.list)' /\ (x.pc = "keep" => x.answer \in 1..paid'[x.prompt[1]])
    <3>1. x.known \in Nat \X Nat /\ x.list \in SUBSET Posting
      BY DEF PassRec
    <3>2. x.pc = "keep" => x.prompt[1] \in Agent
      BY <2>5, AgentOf DEF Walks
    <3> QED  BY <2>1, <2>2, <2>3, <2>5, <3>1, <3>2 DEF HoldsBelow
  <2> QED  BY <2>2, <2>3, <2>4, <2>5
<1>4. ASSUME paid' = paid
      PROVE  /\ \A k : Below(k)' = Below(k)
             /\ \A list : ReadBelow(list)' = ReadBelow(list)
             /\ \A a \in answers : a.no \in 1..paid'[a.prompt[1]]
  BY <1>4 DEF Below, ReadBelow, Numbers
\* The others hold what they held.
<1>5. ASSUME NEW r \in Pass, paid' = paid, NEW y \in PassRec, pass' = [pass EXCEPT ![r] = y],
             Below(y.known), ReadBelow(y.list), y.pc # "keep"
      PROVE  \A o \in Pass : HoldsBelow(pass[o])'
  <2> TAKE o \in Pass
  <2>1. HoldsBelow(pass[o])
    BY DEF Numbers
  <2>2. CASE o = r
    <3>1. pass'[o] = y
      BY <1>1, <1>5, <2>2
    <3> QED  BY <3>1, <1>5 DEF HoldsBelow, Below, ReadBelow
  <2>3. CASE o # r
    <3>1. pass'[o] = pass[o]
      BY <1>1, <1>5, <2>3
    <3> QED  BY <3>1, <2>1, <1>5 DEF HoldsBelow, Below, ReadBelow
  <2> QED  BY <2>2, <2>3
<1>6. ASSUME NEW r \in Pass, NEW a, Gets(r, a), a.no \in 1..paid[a.prompt[1]], paid' = paid,
             pass[r].at \in 1..LastAt, Do(r) \in Asks
      PROVE  \A o \in Pass : HoldsBelow(pass[o])'
  <2> DEFINE x == pass[r]
             y == Given(x, a)
  <2>1. x \in PassRec /\ Plan[x.at].do \in Asks /\ a \in AnswerRec /\ a.prompt[1] = Plan[x.at].on /\ a.no \in Nat
    BY <1>1, <1>6 DEF Do, On, Gets, AnswerRec
  <2>2. HoldsBelow(x) /\ x.known \in Nat \X Nat
    BY <1>1 DEF Numbers, PassRec
  <2>3. a.prompt[1] \in Agent
    BY <2>1, AgentOf DEF AnswerRec
  <2>4. y \in PassRec /\ y.pc # "keep"
    BY <2>1, <1>6, GivenIs
  <2>5. Below(y.known)
    <3>1. y.known \in {<<a.no, x.known[2]>>, <<x.known[1], a.no>>, x.known}
          /\ (a.prompt[1] = "A1" => y.known = <<a.no, x.known[2]>>)
          /\ (a.prompt[1] = "A2" => y.known = <<x.known[1], a.no>>)
          /\ (a.prompt[1] \in {"A3", "A4"} => y.known = x.known)
      BY <2>1, <2>3, <1>6, GivenIs DEF Agent
    <3>2. Below(x.known)
      BY <2>2 DEF HoldsBelow
    <3> HIDE DEF x, y
    <3>3. CASE a.prompt[1] = "A1"
      <4>1. y.known[1] = a.no /\ y.known[2] = x.known[2]
        BY <3>1, <3>3
      <4>2. a.no <= paid["A1"]
        BY <1>6, <3>3
      <4> QED  BY <3>2, <4>1, <4>2 DEF Below
    <3>4. CASE a.prompt[1] = "A2"
      <4>1. y.known[2] = a.no /\ y.known[1] = x.known[1]
        BY <3>1, <3>4
      <4>2. a.no <= paid["A2"]
        BY <1>6, <3>4
      <4> QED  BY <3>2, <4>1, <4>2 DEF Below
    <3>5. CASE a.prompt[1] \in {"A3", "A4"}
      BY <3>1, <3>2, <3>5
    <3> QED  BY <2>3, <3>3, <3>4, <3>5 DEF Agent
  <2>6. ReadBelow(y.list)
    <3>1. CASE a.prompt[1] = "A3"
      <4>1. y.list = {"read"} \X {a.no} \X JobNo
        BY <2>1, <1>6, <3>1, GivenIs
      <4> QED  BY <4>1, <3>1, <1>6 DEF ReadBelow
    <3>2. CASE a.prompt[1] # "A3"
      <4>1. y.list = x.list
        BY <2>1, <1>6, <3>2, GivenIs
      <4> QED  BY <4>1, <2>2 DEF HoldsBelow
    <3> QED  BY <3>1, <3>2
  <2>7. pass' = [pass EXCEPT ![r] = y]
    BY <1>6 DEF Gets
  <2> HIDE DEF x, y
  <2> QED  BY <1>5, <1>6, <2>4, <2>5, <2>6, <2>7
<1>7. CASE UNCHANGED vars
  BY <1>7 DEF vars, shared, history, Numbers, HoldsBelow, Below, ReadBelow
<1>8. ASSUME NEW r \in Pass, Start(r)
      PROVE  Numbers'
  <2>1. pass' = [pass EXCEPT ![r] = Begun] /\ UNCHANGED <<shared, fetched, excused, paid, excess, expired>>
    BY <1>8, StartIs
  <2>2. Begun \in PassRec /\ Below(Begun.known) /\ ReadBelow(Begun.list) /\ Begun.pc # "keep"
    BY <1>1, <1>2, EndsAre DEF Below, ReadBelow
  <2>3. \A o \in Pass : HoldsBelow(pass[o])'
    BY <1>5, <2>1, <2>2
  <2> QED  BY <1>4, <2>1, <2>3 DEF Numbers, shared
<1>9. ASSUME NEW r \in Pass, Walked(r)
      PROVE  Numbers'
  <2>1. PICK y \in PassRec :
          /\ pass' = [pass EXCEPT ![r] = y] /\ y.pc \in Walking /\ y.known = pass[r].known
          /\ \A j \in y.list : j \in pass[r].list \/ j[1] = "board"
    BY <1>9 DEF Walked
  <2>2. HoldsBelow(pass[r])
    BY DEF Numbers
  <2>3. Below(y.known) /\ ReadBelow(y.list) /\ y.pc # "keep"
    BY <2>1, <2>2 DEF HoldsBelow, ReadBelow, Walking
  <2>4. paid' = paid /\ answers' = answers /\ row'.class = row.class /\ jobs' \subseteq jobs \cup pass[r].list
    BY <1>9 DEF Walked
  <2>5. \A o \in Pass : HoldsBelow(pass[o])'
    BY <1>5, <2>1, <2>3, <2>4
  <2>6. ReadBelow(jobs')
    BY <2>2, <2>4 DEF Numbers, HoldsBelow, ReadBelow
  <2>7. ReadBelow(jobs)'
    BY <2>4, <2>6 DEF ReadBelow
  <2>8. Below(row.class)'
    BY <2>4 DEF Numbers, Below
  <2> QED  BY <1>4, <2>4, <2>5, <2>7, <2>8 DEF Numbers
<1>10. ASSUME NEW r \in Pass, Lookup(r)
       PROVE  Numbers'
  <2>1. pass[r].at \in 1..LastAt /\ Do(r) \in Asks /\ UNCHANGED <<shared, history>>
    BY <1>10, LookupIs
  <2>2. \A o \in Pass : HoldsBelow(pass[o])'
    <3>1. ASSUME NEW y \in PassRec, pass' = [pass EXCEPT ![r] = y], y.pc = "model", y.known = pass[r].known,
                 y.list = pass[r].list
          PROVE  \A o \in Pass : HoldsBelow(pass[o])'
      <4>1. HoldsBelow(pass[r])
        BY DEF Numbers
      <4>2. Below(y.known) /\ ReadBelow(y.list) /\ y.pc # "keep"
        BY <3>1, <4>1 DEF HoldsBelow
      <4> QED  BY <1>5, <2>1, <3>1, <4>2 DEF history
    <3>2. ASSUME NEW a \in answers, Gets(r, a)
          PROVE  \A o \in Pass : HoldsBelow(pass[o])'
      BY <1>6, <2>1, <3>2 DEF history, Numbers
    <3> QED  BY <1>10, <3>1, <3>2, LookupIs
  <2>3. paid' = paid /\ answers' = answers /\ row' = row /\ jobs' = jobs
    BY <2>1 DEF shared, history
  <2> QED  BY <1>4, <2>2, <2>3 DEF Numbers
<1>11. ASSUME NEW r \in Pass, Keep(r)
       PROVE  Numbers'
  <2>1. /\ Gets(r, Kept(r)) /\ answers' = answers \cup {Kept(r)} /\ UNCHANGED <<file, evidence, row, jobs, history>>
        /\ pass[r].at \in 1..LastAt /\ Do(r) \in Asks /\ pass[r].pc = "keep"
    BY <1>11, KeepIs
  <2>2. paid' = paid /\ row' = row /\ jobs' = jobs
    BY <2>1 DEF history
  <2>3. Kept(r).no \in 1..paid[Kept(r).prompt[1]]
    BY <2>1 DEF Numbers, HoldsBelow, Kept
  <2>4. \A o \in Pass : HoldsBelow(pass[o])'
    BY <1>6, <2>1, <2>2, <2>3
  <2>5. \A a \in answers' : a.no \in 1..paid[a.prompt[1]]
    BY <2>1, <2>3 DEF Numbers
  <2> QED  BY <1>4, <2>2, <2>4, <2>5 DEF Numbers
<1>12. ASSUME NEW r \in Pass, Column(r)
       PROVE  Numbers'
  <2>1. /\ pass' = [pass EXCEPT ![r] = Onward(pass[r], {})] /\ pass[r].at \in 1..LastAt /\ pass[r] \in PassRec
        /\ row'.class \in {row.class, pass[r].known}
        /\ UNCHANGED <<file, evidence, answers, jobs, history>>
    BY <1>1, <1>12, ColumnIs
  <2>2. HoldsBelow(pass[r])
    BY DEF Numbers
  <2>3. /\ Onward(pass[r], {}) \in PassRec /\ Onward(pass[r], {}).pc # "keep"
        /\ Below(Onward(pass[r], {}).known) /\ ReadBelow(Onward(pass[r], {}).list)
    <3>1. CASE Onward(pass[r], {}) = Over
      BY <3>1, <1>1, <1>2, EndsAre DEF Below, ReadBelow
    <3>2. CASE Onward(pass[r], {}) # Over
      <4>1. /\ Onward(pass[r], {}) \in PassRec /\ Onward(pass[r], {}).pc = "go"
            /\ Onward(pass[r], {}).known = pass[r].known /\ Onward(pass[r], {}).list = pass[r].list
        BY <2>1, <3>2, OnwardIs
      <4> QED  BY <2>2, <4>1 DEF HoldsBelow
    <3> QED  BY <3>1, <3>2
  <2>4. paid' = paid /\ answers' = answers /\ jobs' = jobs
    BY <2>1 DEF history
  <2>5. \A o \in Pass : HoldsBelow(pass[o])'
    BY <1>5, <2>1, <2>3, <2>4
  <2>6. Below(row'.class)
    BY <2>1, <2>2 DEF Numbers, HoldsBelow
  <2>7. Below(row.class)'
    BY <2>4, <2>6 DEF Below
  <2> QED  BY <1>4, <2>4, <2>5, <2>7 DEF Numbers
<1>13. ASSUME NEW r \in Pass, Stop(r)
       PROVE  Numbers'
  <2>1. pass' = [pass EXCEPT ![r] = Over] /\ UNCHANGED <<shared, fetched, paid, expired>>
    BY <1>13 DEF Stop
  <2>2. Over \in PassRec /\ Below(Over.known) /\ ReadBelow(Over.list) /\ Over.pc # "keep"
    BY <1>1, <1>2, EndsAre DEF Below, ReadBelow
  <2>3. \A o \in Pass : HoldsBelow(pass[o])'
    BY <1>5, <2>1, <2>2
  <2> QED  BY <1>4, <2>1, <2>3 DEF Numbers, shared
<1>14. ASSUME NEW u \in Page, Expire(u)
       PROVE  Numbers'
  BY <1>14 DEF Expire, Numbers, HoldsBelow, Below, ReadBelow
<1>15. ASSUME NEW r \in Pass, Answer(r)
       PROVE  Numbers'
  <2>1. PICK y \in PassRec :
          /\ pass' = [pass EXCEPT ![r] = y] /\ y.pc = "keep" /\ y.prompt = pass[r].prompt
          /\ y.answer = paid[On(r)] + 1 /\ y.known = pass[r].known /\ y.list = pass[r].list
    BY <1>15, AnswerIs
  <2>2. /\ On(r) \in Agent /\ pass[r].prompt[1] = On(r)
        /\ paid' = [paid EXCEPT ![On(r)] = @ + 1] /\ paid' \in [Agent -> Nat] /\ \A a \in Agent : paid'[a] >= paid[a]
        /\ UNCHANGED <<shared, fetched, excused, expired, mixed>>
    BY <1>15, AnswerIs
  <2>3. /\ \A k \in Nat \X Nat : Below(k) => Below(k)'
        /\ \A list \in SUBSET Posting : ReadBelow(list) => ReadBelow(list)'
        /\ \A x \in PassRec : Walks(x) /\ HoldsBelow(x) =>
             Below(x.known)' /\ ReadBelow(x.list)' /\ (x.pc = "keep" => x.answer \in 1..paid'[x.prompt[1]])
        /\ \A a \in answers : a.no \in 1..paid'[a.prompt[1]]
    BY <1>3, <2>2
  <2>4. \A o \in Pass : HoldsBelow(pass[o])'
    <3> TAKE o \in Pass
    <3>1. HoldsBelow(pass[o]) /\ HoldsBelow(pass[r]) /\ Walks(pass[o]) /\ Walks(pass[r]) /\ pass[o] \in PassRec
      BY <1>1 DEF Numbers
    <3>2. CASE o = r
      <4>1. pass'[o] = y
        BY <1>1, <2>1, <3>2
      <4>2. Below(y.known)' /\ ReadBelow(y.list)'
        <5>1. Below(pass[r].known)' /\ ReadBelow(pass[r].list)'
          <6>1. pass[r].known \in Nat \X Nat /\ pass[r].list \in SUBSET Posting
            BY <1>1 DEF PassRec
          <6>2. Below(pass[r].known) /\ ReadBelow(pass[r].list)
            BY <3>1 DEF HoldsBelow
          <6> QED  BY <2>1, <2>3, <6>1, <6>2, <4>1, <3>2 DEF Below, ReadBelow
        <5> QED  BY <5>1, <2>1, <4>1, <3>2 DEF Below, ReadBelow
      <4>3. y.answer \in 1..paid'[y.prompt[1]]
        <5>1. paid[On(r)] \in Nat /\ paid'[On(r)] = paid[On(r)] + 1
          BY <1>1, <2>2
        <5> QED  BY <2>1, <2>2, <5>1
      <4> QED  BY <4>1, <4>2, <4>3 DEF HoldsBelow, Below, ReadBelow
    <3>3. CASE o # r
      <4>1. pass'[o] = pass[o]
        BY <1>1, <2>1, <3>3
      <4>2. paid'["A1"] >= paid["A1"] /\ paid'["A2"] >= paid["A2"]
        BY <1>2, <2>2
      <4> QED  BY <2>3, <3>1, <4>1 DEF HoldsBelow, Below, ReadBelow
    <3> QED  BY <3>2, <3>3
  <2>5. row' = row /\ jobs' = jobs /\ answers' = answers
    BY <2>2 DEF shared
  <2>6. Below(row.class)'
    <3>1. row.class \in Nat \X Nat /\ Below(row.class)
      BY <1>1 DEF Numbers
    <3> QED  BY <2>3, <2>5, <3>1 DEF Below
  <2>7. ReadBelow(jobs)'
    <3>1. jobs \in SUBSET Posting /\ ReadBelow(jobs)
      BY <1>1 DEF Numbers
    <3> QED  BY <2>3, <2>5, <3>1 DEF ReadBelow
  <2> QED  BY <2>3, <2>4, <2>5, <2>6, <2>7 DEF Numbers
<1> QED  BY <1>7, <1>8, <1>9, <1>10, <1>11, <1>12, <1>13, <1>14, <1>15, StepsAreOf DEF PassStep

-----------------------------------------------------------------------------
(* One fetch of a page *)

\* How the number of the passes that hold a page changes when one moves.
LEMMA HoldersMove ==
  ASSUME CompanyResearchAssumption, Shape, NEW r \in Pass, NEW y \in PassRec, pass' = [pass EXCEPT ![r] = y],
         NEW u, NEW pcs
  PROVE  /\ r \in Holders(u, pcs) <=> pass[r].pc \in pcs /\ Url(r) = u
         /\ r \in Holders(u, pcs)' <=> y.pc \in pcs /\ UrlOf(y) = u
         /\ \A o \in Pass \ {r} : o \in Holders(u, pcs)' <=> o \in Holders(u, pcs)
         /\ Cardinality(Holders(u, pcs)) \in Nat /\ Cardinality(Holders(u, pcs)') \in Nat
         /\ Cardinality(Holders(u, pcs)') =
              Cardinality(Holders(u, pcs)) + (IF r \in Holders(u, pcs)' THEN 1 ELSE 0)
                                           - (IF r \in Holders(u, pcs) THEN 1 ELSE 0)
<1>1. pass'[r] = y /\ \A o \in Pass \ {r} : pass'[o] = pass[o]
  BY DEF Shape
<1>2. \A o : Url(o) = UrlOf(pass[o]) /\ Url(o)' = UrlOf(pass'[o])
  BY DEF Url, UrlOf, Do, On
<1>3. Holders(u, pcs) \subseteq Pass /\ Holders(u, pcs)' \subseteq Pass
  BY DEF Holders
<1>4. IsFiniteSet(Holders(u, pcs))
  BY <1>3, FS_Subset DEF CompanyResearchAssumption
<1>5. r \in Holders(u, pcs) <=> pass[r].pc \in pcs /\ Url(r) = u
  BY DEF Holders
<1>6. r \in Holders(u, pcs)' <=> y.pc \in pcs /\ UrlOf(y) = u
  BY <1>1, <1>2 DEF Holders
<1>7. \A o \in Pass \ {r} : o \in Holders(u, pcs)' <=> o \in Holders(u, pcs)
  BY <1>1, <1>2 DEF Holders
<1> DEFINE H == Holders(u, pcs)
           G == Holders(u, pcs)'
<1> HIDE DEF H, G
<1>8. IsFiniteSet(H) /\ Cardinality(H) \in Nat
  BY <1>4, FS_CardinalityType DEF H
<1>9. H \subseteq Pass /\ G \subseteq Pass /\ \A o \in Pass \ {r} : o \in G <=> o \in H
  BY <1>3, <1>7 DEF H, G
<1>10. Cardinality(G) \in Nat /\ Cardinality(G) = Cardinality(H) + (IF r \in G THEN 1 ELSE 0) - (IF r \in H THEN 1 ELSE 0)
  <2>1. CASE r \in G
    <3>1. G = H \cup {r}
      BY <1>9, <2>1
    <3>2. IsFiniteSet(G) /\ Cardinality(G) = IF r \in H THEN Cardinality(H) ELSE Cardinality(H) + 1
      BY <1>8, <3>1, FS_AddElement
    <3> QED  BY <1>8, <2>1, <3>2
  <2>2. CASE r \notin G
    <3>1. G = H \ {r}
      BY <1>9, <2>2
    <3>2. Cardinality(G) = IF r \in H THEN Cardinality(H) - 1 ELSE Cardinality(H)
      BY <1>8, <3>1, FS_RemoveElement
    <3>3. IsFiniteSet(G) /\ Cardinality(G) \in Nat
      BY <1>8, <3>1, FS_RemoveElement, FS_CardinalityType
    <3> QED  BY <1>8, <2>2, <3>2, <3>3
  <2> QED  BY <2>1, <2>2
<1> QED  BY <1>5, <1>6, <1>7, <1>8, <1>10 DEF H, G

\* A move from and to statements that have nothing to do with a fetch.
LEMMA FetchQuiet ==
  ASSUME CompanyResearchAssumption, Shape, FetchInv, NEW r \in Pass, NEW y \in PassRec, pass' = [pass EXCEPT ![r] = y],
         pass[r].pc \notin Fetching, y.pc \notin Fetching, UNCHANGED <<file, fetched, excused, expired>>
  PROVE  FetchInv'
<1>1. ASSUME NEW u \in Page
      PROVE  FetchAt(u)'
  <2>1. Cardinality(Holders(u, {"http"})') = Cardinality(Holders(u, {"http"})) /\ Cardinality(Holders(u, {"http"})) \in Nat
    <3>1. r \notin Holders(u, {"http"}) /\ r \notin Holders(u, {"http"})'
      <4>1. r \in Holders(u, {"http"}) => pass[r].pc \in Fetching
        BY DEF Holders, Fetching
      <4>2. r \in Holders(u, {"http"})' => y.pc \in Fetching
        BY DEF Holders, Fetching, Shape
      <4> QED  BY <4>1, <4>2
    <3>2. /\ Cardinality(Holders(u, {"http"})) \in Nat
          /\ Cardinality(Holders(u, {"http"})') =
               Cardinality(Holders(u, {"http"})) + (IF r \in Holders(u, {"http"})' THEN 1 ELSE 0)
                                                 - (IF r \in Holders(u, {"http"}) THEN 1 ELSE 0)
      BY HoldersMove
    <3> QED  BY <3>1, <3>2
  <2>2. Available(u)' <=> Available(u)
    <3>1. r \notin Holders(u, Fetching) /\ r \notin Holders(u, Fetching)'
      BY HoldersMove
    <3>2. \A o \in Pass \ {r} : o \in Holders(u, Fetching)' <=> o \in Holders(u, Fetching)
      BY HoldersMove
    <3>3. Holders(u, Fetching) \subseteq Pass /\ Holders(u, Fetching)' \subseteq Pass
      BY DEF Holders
    <3> QED  BY <3>1, <3>2, <3>3 DEF Available
  <2>3. FetchAt(u)
    BY DEF FetchInv
  <2> QED  BY <2>1, <2>2, <2>3 DEF FetchAt
<1>2. ASSUME NEW o \in Pass, pass'[o].pc = "write"
      PROVE  file'[Url(o)'] \in {"torn", "fresh"}
  <2>1. o # r /\ pass'[o] = pass[o]
    BY <1>2 DEF Shape, Fetching
  <2>2. Url(o)' = Url(o)
    BY <2>1 DEF Url, Do, On
  <2> QED  BY <1>2, <2>1, <2>2 DEF FetchInv
<1> QED  BY <1>1, <1>2 DEF FetchInv

Of(b) == IF b THEN 1 ELSE 0

\* What a step of one pass may do to the page it is at: d fetches and c excuses more.
LEMMA PageMoves ==
  ASSUME CompanyResearchAssumption, Shape, FetchInv, NEW r \in Pass, NEW y \in PassRec, pass' = [pass EXCEPT ![r] = y],
         NEW u \in Page, expired' = expired,
         NEW d \in {0, 1}, fetched'[u] = fetched[u] + d, NEW c \in {0, 1}, excused'[u] = excused[u] + c,
         d + Of(y.pc = "http" /\ UrlOf(y) = u) + Of(Available(u)')
           <= c + Of(pass[r].pc = "http" /\ Url(r) = u) + Of(Available(u))
  PROVE  FetchAt(u)'
<1> DEFINE n == Cardinality(Holders(u, {"http"}))
           m == Cardinality(Holders(u, {"http"})')
           i == Of(y.pc = "http" /\ UrlOf(y) = u)
           j == Of(pass[r].pc = "http" /\ Url(r) = u)
           k == Of(Available(u)')
           a == Of(Available(u))
           f == fetched[u]
           x == excused[u]
<1>1. n \in Nat /\ m = n + i - j
  <2>1. /\ n \in Nat
        /\ m = n + (IF r \in Holders(u, {"http"})' THEN 1 ELSE 0) - (IF r \in Holders(u, {"http"}) THEN 1 ELSE 0)
    BY HoldersMove
  <2>2. /\ r \in Holders(u, {"http"}) <=> pass[r].pc = "http" /\ Url(r) = u
        /\ r \in Holders(u, {"http"})' <=> y.pc = "http" /\ UrlOf(y) = u
    <3>1. /\ r \in Holders(u, {"http"}) <=> pass[r].pc \in {"http"} /\ Url(r) = u
          /\ r \in Holders(u, {"http"})' <=> y.pc \in {"http"} /\ UrlOf(y) = u
      BY HoldersMove
    <3> QED  BY <3>1
  <2>3. /\ i = IF r \in Holders(u, {"http"})' THEN 1 ELSE 0
        /\ j = IF r \in Holders(u, {"http"}) THEN 1 ELSE 0
    BY <2>2 DEF Of
  <2> QED  BY <2>1, <2>3
<1>2. i \in Int /\ j \in Int /\ k \in Int /\ a \in Int /\ d \in Int /\ c \in Int
  BY DEF Of
<1>3. f \in Nat /\ x \in Nat /\ expired \in Nat
  BY DEF Shape
<1>4. f + n + a <= 1 + expired + x
  BY DEF FetchInv, FetchAt, Of
<1>5. FetchAt(u)' <=> fetched'[u] + m + k <= 1 + expired + excused'[u]
  BY DEF FetchAt, Of
<1>6. d + i + k <= c + j + a
  OBVIOUS
<1>7. FetchAt(u)' <=> (f + d) + m + k <= 1 + expired + (x + c)
  BY <1>5
<1> HIDE DEF n, m, i, j, k, a, f, x
<1>8. (f + d) + m + k <= 1 + expired + (x + c)
  BY <1>1, <1>2, <1>3, <1>4, <1>6
<1> QED  BY <1>7, <1>8

\* The other pages are as they were.
LEMMA OtherPages ==
  ASSUME CompanyResearchAssumption, Shape, FetchInv, NEW r \in Pass, NEW y \in PassRec, pass' = [pass EXCEPT ![r] = y],
         fetched' \in [Page -> Nat], excused' \in [Page -> Nat], expired' = expired, NEW u \in Page,
         pass[r].pc \in Fetching => Url(r) # u, y.pc \in Fetching => UrlOf(y) # u,
         file'[u] = file[u], fetched'[u] = fetched[u], excused'[u] = excused[u]
  PROVE  FetchAt(u)'
<1>1. Available(u)' <=> Available(u)
  <2>1. r \notin Holders(u, Fetching) /\ r \notin Holders(u, Fetching)'
    BY HoldersMove
  <2>2. \A o \in Pass \ {r} : o \in Holders(u, Fetching)' <=> o \in Holders(u, Fetching)
    BY HoldersMove
  <2>3. Holders(u, Fetching) \subseteq Pass /\ Holders(u, Fetching)' \subseteq Pass
    BY DEF Holders
  <2> QED  BY <2>1, <2>2, <2>3 DEF Available
<1>2. ~(pass[r].pc = "http" /\ Url(r) = u) /\ ~(y.pc = "http" /\ UrlOf(y) = u)
  BY DEF Fetching
<1>3. fetched'[u] = fetched[u] + 0 /\ excused'[u] = excused[u] + 0
  BY DEF Shape
<1>4. 0 + Of(y.pc = "http" /\ UrlOf(y) = u) + Of(Available(u)')
        <= 0 + Of(pass[r].pc = "http" /\ Url(r) = u) + Of(Available(u))
  BY <1>1, <1>2 DEF Of
<1> QED  BY <1>3, <1>4, PageMoves

\* A pass that writes has its file begun or filled.
LEMMA WritersKeep ==
  ASSUME Shape, FetchInv, NEW r \in Pass, NEW y \in PassRec, pass' = [pass EXCEPT ![r] = y],
         y.pc = "write" => file'[UrlOf(y)] \in {"torn", "fresh"},
         \A u : file[u] \in {"torn", "fresh"} => file'[u] \in {"torn", "fresh"}
  PROVE  \A o \in Pass : pass'[o].pc = "write" => file'[Url(o)'] \in {"torn", "fresh"}
<1> SUFFICES ASSUME NEW o \in Pass, pass'[o].pc = "write"
             PROVE  file'[Url(o)'] \in {"torn", "fresh"}
  OBVIOUS
<1>1. CASE o = r
  <2>1. pass'[o] = y
    BY <1>1 DEF Shape
  <2>2. Url(o)' = UrlOf(y)
    BY <2>1 DEF Url, UrlOf, Do, On
  <2> QED  BY <2>1, <2>2
<1>2. CASE o # r
  <2>1. pass'[o] = pass[o]
    BY <1>2 DEF Shape
  <2>2. Url(o)' = Url(o)
    BY <2>1 DEF Url, Do, On
  <2> QED  BY <2>1, <2>2 DEF FetchInv
<1> QED  BY <1>1, <1>2

\* The request counts for itself, or for the one beside it.
LEMMA RequestFetch ==
  ASSUME CompanyResearchAssumption, Shape, FetchInv, NEW r \in Pass, At(r, Crawls, "go"),
         file[Url(r)] \in {"none", "stale"}, Request(r)
  PROVE  FetchInv'
<1>0. /\ pass[r] \in PassRec /\ pass[r].pc = "go" /\ pass[r].at \in 1..LastAt /\ Plan[pass[r].at].do \in Crawls
      /\ Url(r) = UrlOf(pass[r])
  BY PassIs DEF At, Do
<1>2. PICK v \in Page : v = Url(r)
  BY <1>0, UrlIs
<1>1. pass[r] \in PassRec /\ pass[r].pc = "go" /\ v = UrlOf(pass[r])
  BY <1>0, <1>2
<1> DEFINE y == [pass[r] EXCEPT !.pc = "http"]
<1>3. y \in PassRec /\ pass' = [pass EXCEPT ![r] = y] /\ y.pc = "http" /\ UrlOf(y) = v
  BY <1>1 DEF Request, Goto, PassRec, Pcs, UrlOf
<1>4. /\ excused' = [excused EXCEPT ![v] = @ + IF \E o \in Pass : pass[o].pc \in Fetching /\ Url(o) = v THEN 1 ELSE 0]
      /\ UNCHANGED <<file, fetched, expired>> /\ fetched \in [Page -> Nat] /\ excused \in [Page -> Nat]
  BY <1>2 DEF Request, shared, Fetching, Shape
<1> HIDE DEF y
<1>5. excused' \in [Page -> Nat] /\ fetched' \in [Page -> Nat] /\ expired' = expired
  BY <1>2, <1>4
<1>6. ASSUME NEW u \in Page, u # v
      PROVE  FetchAt(u)'
  <2>1. excused'[u] = excused[u] /\ fetched'[u] = fetched[u] /\ file'[u] = file[u]
    BY <1>4, <1>6
  <2>2. (pass[r].pc \in Fetching => Url(r) # u) /\ (y.pc \in Fetching => UrlOf(y) # u)
    BY <1>1, <1>2, <1>3, <1>6 DEF Fetching
  <2> QED  BY <2>1, <2>2, <1>3, <1>5, OtherPages
<1>7. FetchAt(v)'
  <2>1. ~Available(v)'
    <3>1. pass'[r] = y
      BY <1>3 DEF Shape
    <3>2. pass'[r].pc = "http" /\ Url(r)' = v
      BY <3>1, <1>3 DEF Url, UrlOf, Do, On
    <3> QED  BY <3>2 DEF Available, Holders, Fetching
  <2>2. \E c \in {0, 1} : excused'[v] = excused[v] + c /\ (c = 1 \/ Available(v))
    <3>1. CASE Holders(v, Fetching) = {}
      <4>1. excused'[v] = excused[v] + 0
        BY <3>1, <1>2, <1>4 DEF Holders
      <4>2. Available(v)
        BY <1>2, <3>1 DEF Available
      <4> QED  BY <4>1, <4>2
    <3>2. CASE Holders(v, Fetching) # {}
      <4>1. excused'[v] = excused[v] + 1
        BY <3>2, <1>2, <1>4 DEF Holders
      <4> QED  BY <4>1
    <3> QED  BY <3>1, <3>2
  <2>3. PICK c \in {0, 1} : excused'[v] = excused[v] + c /\ (c = 1 \/ Available(v))
    BY <2>2
  <2>4. fetched'[v] = fetched[v] + 0
    BY <1>2, <1>4
  <2>5. 0 + Of(y.pc = "http" /\ UrlOf(y) = v) + Of(Available(v)')
          <= c + Of(pass[r].pc = "http" /\ Url(r) = v) + Of(Available(v))
    BY <1>1, <1>3, <2>1, <2>3 DEF Of
  <2> QED  BY <1>2, <1>3, <1>5, <2>3, <2>4, <2>5, PageMoves
<1>8. \A o \in Pass : pass'[o].pc = "write" => file'[Url(o)'] \in {"torn", "fresh"}
  BY <1>3, <1>4, WritersKeep
<1> QED  BY <1>6, <1>7, <1>8 DEF FetchInv

\* The answer of the site, or none.
LEMMA HttpFetch ==
  ASSUME CompanyResearchAssumption, Shape, FetchInv, NEW r \in Pass, Http(r)
  PROVE  FetchInv'
<1>0. /\ pass[r] \in PassRec /\ pass[r].pc = "http" /\ pass[r].at \in 1..LastAt /\ Plan[pass[r].at].do \in Crawls
      /\ Url(r) = UrlOf(pass[r])
  BY PassIs DEF Http, At, Do
<1>2. PICK v \in Page : v = Url(r)
  BY <1>0, UrlIs
<1>1. pass[r] \in PassRec /\ pass[r].pc = "http" /\ pass[r].at \in 1..LastAt /\ v = UrlOf(pass[r])
  BY <1>0, <1>2
<1>3. UNCHANGED <<shared, excused, expired>> /\ fetched \in [Page -> Nat] /\ excused \in [Page -> Nat]
  BY DEF Http, Shape
<1>4. \E y \in PassRec :
         /\ pass' = [pass EXCEPT ![r] = y]
         /\ \/ y.pc = "open" /\ UrlOf(y) = v /\ fetched' = [fetched EXCEPT ![v] = @ + 1]
            \/ y.pc \in {"go", "over"} /\ fetched' = fetched
  <2>1. CASE Goto(r, "open") /\ fetched' = [fetched EXCEPT ![v] = @ + 1]
    <3> DEFINE y == [pass[r] EXCEPT !.pc = "open"]
    <3>1. y \in PassRec /\ pass' = [pass EXCEPT ![r] = y] /\ y.pc = "open" /\ UrlOf(y) = v
      BY <1>1, <2>1 DEF Goto, PassRec, Pcs, UrlOf
    <3> HIDE DEF y
    <3> QED  BY <2>1, <3>1
  <2>2. CASE Missed(r) /\ fetched' = fetched
    <3>1. PICK kinds : GoOn(r, kinds)
      BY <2>2 DEF Missed
    <3> DEFINE y == Onward(pass[r], kinds)
    <3>2. y \in PassRec /\ y.pc \in {"go", "over"}
      BY <1>1, OnwardIs, EndsAre
    <3>3. pass' = [pass EXCEPT ![r] = y]
      BY <3>1 DEF GoOn
    <3> HIDE DEF y
    <3> QED  BY <2>2, <3>2, <3>3
  <2> QED  BY <1>2, <2>1, <2>2 DEF Http
<1>5. PICK y \in PassRec :
         /\ pass' = [pass EXCEPT ![r] = y]
         /\ \/ y.pc = "open" /\ UrlOf(y) = v /\ fetched' = [fetched EXCEPT ![v] = @ + 1]
            \/ y.pc \in {"go", "over"} /\ fetched' = fetched
  BY <1>4
<1>6. fetched[v] \in Nat /\ fetched' \in [Page -> Nat] /\ excused' \in [Page -> Nat] /\ expired' = expired
  <2>1. fetched[v] \in Nat
    BY <1>2, <1>3
  <2> QED  BY <2>1, <1>3, <1>5
<1>7. ASSUME NEW u \in Page, u # v
      PROVE  FetchAt(u)'
  <2>1. excused'[u] = excused[u] /\ fetched'[u] = fetched[u] /\ file'[u] = file[u]
    BY <1>3, <1>5, <1>7 DEF shared
  <2>2. (pass[r].pc \in Fetching => Url(r) # u) /\ (y.pc \in Fetching => UrlOf(y) # u)
    BY <1>2, <1>5, <1>7 DEF Fetching
  <2> QED  BY <2>1, <2>2, <1>5, <1>6, OtherPages
<1>8. FetchAt(v)'
  <2>1. pass[r].pc = "http" /\ Url(r) = v /\ y.pc # "http" /\ excused'[v] = excused[v] + 0
    BY <1>1, <1>2, <1>3, <1>5
  <2>2. CASE y.pc = "open" /\ UrlOf(y) = v /\ fetched' = [fetched EXCEPT ![v] = @ + 1]
    <3>1. ~Available(v)'
      <4>1. pass'[r] = y
        BY <1>5 DEF Shape
      <4>2. Url(r)' = v
        BY <4>1, <2>2 DEF Url, UrlOf, Do, On
      <4> QED  BY <4>1, <4>2, <2>2 DEF Available, Holders, Fetching
    <3>2. fetched'[v] = fetched[v] + 1
      BY <1>2, <1>3, <2>2
    <3>3. 1 + Of(y.pc = "http" /\ UrlOf(y) = v) + Of(Available(v)')
            <= 0 + Of(pass[r].pc = "http" /\ Url(r) = v) + Of(Available(v))
      BY <2>1, <3>1 DEF Of
    <3> QED  BY <1>5, <1>6, <2>1, <3>2, <3>3, PageMoves
  <2>3. CASE fetched' = fetched
    <3>1. fetched'[v] = fetched[v] + 0
      BY <1>6, <2>3
    <3>2. 0 + Of(y.pc = "http" /\ UrlOf(y) = v) + Of(Available(v)')
            <= 0 + Of(pass[r].pc = "http" /\ Url(r) = v) + Of(Available(v))
      BY <2>1 DEF Of
    <3> QED  BY <1>5, <1>6, <2>1, <3>1, <3>2, PageMoves
  <2> QED  BY <1>5, <2>2, <2>3
<1>9. \A o \in Pass : pass'[o].pc = "write" => file'[Url(o)'] \in {"torn", "fresh"}
  BY <1>3, <1>5, WritersKeep DEF shared
<1> QED  BY <1>7, <1>8, <1>9 DEF FetchInv

\* A page that is being written is not asked for.
LEMMA FileFetch ==
  ASSUME CompanyResearchAssumption, Shape, FetchInv, NEW r \in Pass, Open(r) \/ WriteFile(r)
  PROVE  FetchInv'
<1>0. /\ pass[r] \in PassRec /\ pass[r].pc \in {"open", "write"} /\ pass[r].at \in 1..LastAt
      /\ Plan[pass[r].at].do \in Crawls /\ Url(r) = UrlOf(pass[r])
  BY PassIs DEF Open, WriteFile, At, Do
<1>2. PICK v \in Page : v = Url(r)
  BY <1>0, UrlIs
<1>1. pass[r] \in PassRec /\ pass[r].pc \in {"open", "write"} /\ v = UrlOf(pass[r])
  BY <1>0, <1>2
<1>3. \E pc \in {"write", "store"}, f \in {"torn", "fresh"} : Goto(r, pc) /\ file' = [file EXCEPT ![v] = f]
  <2>1. CASE Open(r)
    BY <1>2, <2>1 DEF Open
  <2>2. CASE WriteFile(r)
    BY <1>2, <2>2 DEF WriteFile
  <2> QED  BY <2>1, <2>2
<1>4. UNCHANGED history /\ fetched \in [Page -> Nat] /\ excused \in [Page -> Nat]
      /\ file \in [Page -> {"none", "torn", "fresh", "stale"}]
  BY DEF Open, WriteFile, Shape
<1>5. PICK pc \in {"write", "store"}, f \in {"torn", "fresh"} : Goto(r, pc) /\ file' = [file EXCEPT ![v] = f]
  BY <1>3
<1> DEFINE y == [pass[r] EXCEPT !.pc = pc]
<1>6. y \in PassRec /\ pass' = [pass EXCEPT ![r] = y] /\ y.pc = pc /\ UrlOf(y) = v
  BY <1>1, <1>5 DEF Goto, PassRec, Pcs, UrlOf
<1> HIDE DEF y
<1>7. excused' = excused /\ fetched' = fetched /\ expired' = expired
      /\ excused' \in [Page -> Nat] /\ fetched' \in [Page -> Nat]
  BY <1>4 DEF history
<1>8. ASSUME NEW u \in Page, u # v
      PROVE  FetchAt(u)'
  <2>1. file'[u] = file[u]
    BY <1>4, <1>5, <1>8
  <2>2. (pass[r].pc \in Fetching => Url(r) # u) /\ (y.pc \in Fetching => UrlOf(y) # u)
    BY <1>2, <1>6, <1>8
  <2> QED  BY <2>1, <2>2, <1>6, <1>7, OtherPages
<1>9. FetchAt(v)'
  <2>1. ~Available(v)'
    <3>1. file'[v] \in {"torn", "fresh"}
      BY <1>2, <1>4, <1>5
    <3> QED  BY <3>1 DEF Available
  <2>2. y.pc # "http" /\ pass[r].pc # "http"
    BY <1>1, <1>6
  <2>3. fetched'[v] = fetched[v] + 0 /\ excused'[v] = excused[v] + 0
    BY <1>2, <1>4, <1>7
  <2>4. 0 + Of(y.pc = "http" /\ UrlOf(y) = v) + Of(Available(v)')
          <= 0 + Of(pass[r].pc = "http" /\ Url(r) = v) + Of(Available(v))
    BY <2>1, <2>2 DEF Of
  <2> QED  BY <1>2, <1>6, <1>7, <2>3, <2>4, PageMoves
<1>10. \A o \in Pass : pass'[o].pc = "write" => file'[Url(o)'] \in {"torn", "fresh"}
  <2>1. file'[UrlOf(y)] \in {"torn", "fresh"}
    BY <1>2, <1>4, <1>5, <1>6
  <2>2. \A u : file[u] \in {"torn", "fresh"} => file'[u] \in {"torn", "fresh"}
    BY <1>2, <1>4, <1>5
  <2> QED  BY <2>1, <2>2, <1>6, WritersKeep
<1> QED  BY <1>8, <1>9, <1>10 DEF FetchInv

\* A pass that stops in a fetch gives the page back, once.
LEMMA StopFetch ==
  ASSUME CompanyResearchAssumption, Shape, FetchInv, NEW r \in Pass, Stop(r), pass[r].pc \in Fetching
  PROVE  FetchInv'
<1>0. /\ pass[r] \in PassRec /\ pass[r].at \in 1..LastAt /\ Plan[pass[r].at].do \in Crawls
      /\ Url(r) = UrlOf(pass[r])
  BY PassIs DEF Walks, Fetching
<1>1. PICK v \in Page : v = Url(r)
  BY <1>0, UrlIs
<1>2. /\ pass' = [pass EXCEPT ![r] = Over] /\ UNCHANGED <<file, fetched, expired>>
      /\ excused' = IF pass[r].pc = "open" THEN [excused EXCEPT ![v] = @ + 1] ELSE excused
      /\ fetched \in [Page -> Nat] /\ excused \in [Page -> Nat]
  BY <1>1 DEF Stop, shared, Shape
<1>3. Over \in PassRec /\ Over.pc \notin Fetching /\ Over.pc # "http" /\ Over.pc # "write"
  BY EndsAre DEF Fetching
<1>4. excused' \in [Page -> Nat] /\ fetched' \in [Page -> Nat] /\ expired' = expired /\ fetched' = fetched
  BY <1>2
<1>5. ASSUME NEW u \in Page, u # v
      PROVE  FetchAt(u)'
  <2>1. excused'[u] = excused[u] /\ fetched'[u] = fetched[u] /\ file'[u] = file[u]
    BY <1>2, <1>5
  <2>2. (pass[r].pc \in Fetching => Url(r) # u) /\ (Over.pc \in Fetching => UrlOf(Over) # u)
    BY <1>1, <1>3, <1>5
  <2> QED  BY <2>1, <2>2, <1>2, <1>3, <1>4, OtherPages
<1>6. FetchAt(v)'
  <2>1. fetched'[v] = fetched[v] + 0
    BY <1>1, <1>2
  <2>2. CASE pass[r].pc = "http"
    <3>1. excused'[v] = excused[v] + 0
      BY <1>1, <1>2, <2>2
    <3>2. 0 + Of(Over.pc = "http" /\ UrlOf(Over) = v) + Of(Available(v)')
            <= 0 + Of(pass[r].pc = "http" /\ Url(r) = v) + Of(Available(v))
      BY <1>1, <1>3, <2>2 DEF Of
    <3> QED  BY <1>1, <1>2, <1>3, <2>1, <3>1, <3>2, PageMoves
  <2>3. CASE pass[r].pc = "open"
    <3>1. excused'[v] = excused[v] + 1
      BY <1>1, <1>2, <2>3
    <3>2. 0 + Of(Over.pc = "http" /\ UrlOf(Over) = v) + Of(Available(v)')
            <= 1 + Of(pass[r].pc = "http" /\ Url(r) = v) + Of(Available(v))
      BY <1>3, <2>3 DEF Of
    <3> QED  BY <1>1, <1>2, <1>3, <2>1, <3>1, <3>2, PageMoves
  <2>4. CASE pass[r].pc = "write"
    <3>1. excused'[v] = excused[v] + 0
      BY <1>1, <1>2, <2>4
    <3>2. ~Available(v)'
      <4>1. file[v] \in {"torn", "fresh"}
        BY <1>1, <2>4 DEF FetchInv
      <4> QED  BY <4>1, <1>2 DEF Available
    <3>3. 0 + Of(Over.pc = "http" /\ UrlOf(Over) = v) + Of(Available(v)')
            <= 0 + Of(pass[r].pc = "http" /\ Url(r) = v) + Of(Available(v))
      BY <1>3, <2>4, <3>2 DEF Of
    <3> QED  BY <1>1, <1>2, <1>3, <2>1, <3>1, <3>3, PageMoves
  <2> QED  BY <2>2, <2>3, <2>4 DEF Fetching
<1>7. \A o \in Pass : pass'[o].pc = "write" => file'[Url(o)'] \in {"torn", "fresh"}
  BY <1>2, <1>3, WritersKeep
<1> QED  BY <1>5, <1>6, <1>7 DEF FetchInv

\* A page that grows old while nobody is about may be got once more.
LEMMA ExpireFetch ==
  ASSUME CompanyResearchAssumption, Shape, FetchInv, NEW v \in Page, Expire(v)
  PROVE  FetchInv'
<1>1. /\ file' = [file EXCEPT ![v] = "stale"] /\ expired' = expired + 1 /\ file[v] = "fresh"
      /\ UNCHANGED <<pass, fetched, excused>> /\ \A r \in Pass : pass[r].pc \in {"unbegun", "over"}
  BY DEF Expire, Active
<1>2. \A r \in Pass : pass[r].pc \notin Fetching /\ pass'[r].pc \notin Fetching
  BY <1>1 DEF Fetching
<1>3. \A u : Holders(u, {"http"}) = {} /\ Holders(u, {"http"})' = {}
  BY <1>2 DEF Holders, Fetching
<1>4. ASSUME NEW u \in Page
      PROVE  FetchAt(u)'
  <2>1. /\ fetched[u] \in Nat /\ fetched'[u] = fetched[u] /\ excused[u] \in Nat /\ excused'[u] = excused[u]
        /\ expired \in Nat /\ expired' = expired + 1
    BY <1>1 DEF Shape
  <2>2. Cardinality(Holders(u, {"http"})) = 0 /\ Cardinality(Holders(u, {"http"})') = 0
    BY <1>3, FS_EmptySet
  <2>3. fetched[u] + 0 + (IF Available(u) THEN 1 ELSE 0) <= 1 + expired + excused[u]
    BY <2>2 DEF FetchInv, FetchAt
  <2>4. fetched[u] <= 1 + expired + excused[u]
    BY <2>1, <2>3
  <2> DEFINE k == IF Available(u)' THEN 1 ELSE 0
  <2>5. FetchAt(u)' <=> fetched'[u] + 0 + k <= 1 + expired' + excused'[u]
    BY <2>2 DEF FetchAt
  <2>6. k \in {0, 1}
    OBVIOUS
  <2> HIDE DEF k
  <2> DEFINE f == fetched[u]
             x == excused[u]
  <2>7. f \in Nat /\ x \in Nat /\ expired \in Nat /\ f <= 1 + expired + x
    BY <2>1, <2>4
  <2>8. FetchAt(u)' <=> f + 0 + k <= 1 + (expired + 1) + x
    BY <2>1, <2>5
  <2> HIDE DEF f, x
  <2> QED  BY <2>6, <2>7, <2>8
<1>5. \A o \in Pass : pass'[o].pc = "write" => file'[Url(o)'] \in {"torn", "fresh"}
  BY <1>2 DEF Fetching
<1> QED  BY <1>4, <1>5 DEF FetchInv

\* What goes on is at its next step, or over.
LEMMA OnwardEnds ==
  ASSUME CompanyResearchAssumption, NEW x, "pc" \in DOMAIN x, NEW kinds
  PROVE  Onward(x, kinds).pc \in {"go", "over"}
<1> DEFINE later == {i \in DOMAIN Plan : i > x.at /\ Plan[i].do \notin kinds}
<1>1. CASE later = {}
  BY <1>1, EndsAre DEF Onward
<1>2. CASE later # {}
  <2>1. Onward(x, kinds) = [x EXCEPT !.pc = "go", !.prompt = <<>>, !.answer = 0,
                                     !.at = CHOOSE i \in later : \A j \in later : i <= j]
    BY <1>2 DEF Onward
  <2> HIDE DEF later
  <2> QED  BY <2>1
<1> QED  BY <1>1, <1>2

LEMMA FetchStep ==
  ASSUME CompanyResearchAssumption, Shape, FetchInv, [Next]_vars
  PROVE  FetchInv'
<1>1. CASE UNCHANGED vars
  BY <1>1 DEF vars, shared, history, FetchInv, FetchAt, Available, Holders, Url, Do, On
\* Statements that go on.
<1>2. ASSUME NEW r \in Pass, NEW kinds, GoOn(r, kinds), pass[r].at \in 1..LastAt, pass[r].pc \notin Fetching,
             UNCHANGED <<file, fetched, excused, expired>>
      PROVE  FetchInv'
  <2>1. pass[r] \in PassRec
    BY PassIs
  <2>2. Onward(pass[r], kinds) \in PassRec /\ Onward(pass[r], kinds).pc \notin Fetching
    BY <1>2, <2>1, OnwardIs, EndsAre DEF Fetching
  <2>3. pass' = [pass EXCEPT ![r] = Onward(pass[r], kinds)]
    BY <1>2 DEF GoOn
  <2> QED  BY <1>2, <2>2, <2>3, FetchQuiet
<1>3. ASSUME NEW r \in Pass, Missed(r) \/ Found(r), pass[r].at \in 1..LastAt, pass[r].pc \notin Fetching,
             UNCHANGED <<file, fetched, excused, expired>>
      PROVE  FetchInv'
  <2>1. PICK kinds : GoOn(r, kinds)
    BY <1>3 DEF Missed, Found
  <2> QED  BY <1>2, <1>3, <2>1
<1>4. ASSUME NEW r \in Pass, NEW pc \in {"store", "insert"}, Goto(r, pc), pass[r].pc \notin Fetching,
             UNCHANGED <<file, fetched, excused, expired>>
      PROVE  FetchInv'
  <2> DEFINE y == [pass[r] EXCEPT !.pc = pc]
  <2>1. y \in PassRec /\ y.pc \notin Fetching
    <3>1. pass[r] \in PassRec
      BY PassIs
    <3> QED  BY <3>1 DEF PassRec, Pcs, Fetching
  <2>2. pass' = [pass EXCEPT ![r] = y]
    BY <1>4 DEF Goto
  <2> HIDE DEF y
  <2> QED  BY <1>4, <2>1, <2>2, FetchQuiet
<1>5. ASSUME NEW r \in Pass, Crawl(r)
      PROVE  FetchInv'
  <2>1. ASSUME NEW kinds, NEW pc, At(r, kinds, pc), pc \notin {"unbegun", "over"}
        PROVE  pass[r].pc = pc /\ pass[r].at \in 1..LastAt
    BY <2>1, PassIs DEF At
  <2>2. CASE Get(r)
    <3>1. pass[r].pc = "go" /\ pass[r].at \in 1..LastAt /\ pass[r].pc \notin Fetching /\ At(r, Crawls, "go")
      BY <2>1, <2>2 DEF Get, Fetching
    <3>2. CASE Goto(r, "store") /\ UNCHANGED <<shared, history>>
      BY <1>4, <3>1, <3>2 DEF shared, history
    <3>3. CASE Missed(r) /\ UNCHANGED <<shared, history>>
      BY <1>3, <3>1, <3>3 DEF shared, history
    <3>4. CASE file[Url(r)] \in {"none", "stale"} /\ Request(r)
      BY <3>1, <3>4, RequestFetch
    <3> QED  BY <2>2, <3>2, <3>3, <3>4 DEF Get
  <2>3. CASE Http(r)
    BY <2>3, HttpFetch
  <2>4. CASE Open(r) \/ WriteFile(r)
    BY <2>4, FileFetch
  <2>5. CASE StoreEvidence(r)
    <3>1. pass[r].at \in 1..LastAt /\ pass[r].pc \notin Fetching
      BY <2>5, PassIs DEF StoreEvidence, At, Fetching
    <3> QED  BY <1>3, <2>5, <3>1 DEF StoreEvidence, history
  <2>6. CASE Nothing(r)
    <3>1. pass[r].at \in 1..LastAt /\ pass[r].pc \notin Fetching
      BY <2>6, PassIs DEF Nothing, At, Fetching
    <3> QED  BY <1>3, <2>6, <3>1 DEF Nothing, shared, history
  <2> QED  BY <1>5, <2>2, <2>3, <2>4, <2>5, <2>6 DEF Crawl
<1>6. ASSUME NEW r \in Pass, Probe(r) \/ StoreAts(r) \/ StoreJobs(r)
      PROVE  FetchInv'
  <2>1. PICK pc \in {"go", "insert"} : pass[r].pc = pc /\ pass[r].pc \notin Fetching /\ pass[r].at \in 1..LastAt
    BY <1>6, PassIs DEF Probe, StoreAts, StoreJobs, At, Fetching
  <2>2. UNCHANGED <<file, fetched, excused, expired>>
    BY <1>6 DEF Probe, StoreAts, StoreJobs, shared, history
  <2>3. pass[r] \in PassRec
    BY PassIs
  <2>4. CASE Probe(r)
    <3>1. PICK list \in Postings(Board(r)) :
            \/ GoOn(r, {})
            \/ pass' = [pass EXCEPT ![r] = Onward([@ EXCEPT !.ats = Board(r), !.list = list],
                                                  {"hint", "board", "listing", "extract"})]
      BY <2>4 DEF Probe
    <3>2. PICK y \in PassRec : pass' = [pass EXCEPT ![r] = y] /\ y.pc \in Walking \ {"http", "open", "write"}
      <4>1. Walked(r) /\ pass \in [Pass -> PassRec]
        BY <2>4, StepsWalk DEF Shape
      <4>2. pass'[r].pc \in {"go", "over"}
        <5>1. CASE GoOn(r, {})
          <6>1. pass'[r] = Onward(pass[r], {})
            BY <5>1, <4>1 DEF GoOn
          <6> QED  BY <6>1, <2>1, <2>3, OnwardIs, EndsAre
        <5>2. CASE pass' = [pass EXCEPT ![r] = Onward([@ EXCEPT !.ats = Board(r), !.list = list],
                                                      {"hint", "board", "listing", "extract"})]
          <6> DEFINE z == [pass[r] EXCEPT !.ats = Board(r), !.list = list]
          <6>1. pass'[r] = Onward(z, {"hint", "board", "listing", "extract"})
            BY <5>2, <4>1
          <6>2. "pc" \in DOMAIN z
            BY <2>3 DEF PassRec
          <6> HIDE DEF z
          <6> QED  BY <6>1, <6>2, OnwardEnds
        <5> QED  BY <3>1, <5>1, <5>2
      <4>3. PICK y \in PassRec : pass' = [pass EXCEPT ![r] = y] /\ y.pc \in Walking
        BY <4>1 DEF Walked
      <4>4. pass'[r] = y
        BY <4>1, <4>3
      <4> QED  BY <4>2, <4>3, <4>4 DEF Walking
    <3>3. y.pc \notin Fetching
      BY <3>2 DEF Fetching
    <3> QED  BY <2>1, <2>2, <3>2, <3>3, FetchQuiet
  <2>5. CASE StoreAts(r)
    BY <1>4, <2>1, <2>2, <2>5 DEF StoreAts
  <2>6. CASE StoreJobs(r)
    <3>1. CASE GoOn(r, {})
      BY <1>2, <2>1, <2>2, <3>1
    <3>2. ASSUME NEW j \in pass[r].list, pass' = [pass EXCEPT ![r].list = @ \ {j}]
          PROVE  FetchInv'
      <4> DEFINE y == [pass[r] EXCEPT !.list = pass[r].list \ {j}]
      <4>1. pass' = [pass EXCEPT ![r] = y]
        BY <3>2
      <4>2. y \in PassRec /\ y.pc = pass[r].pc
        BY <2>3 DEF PassRec
      <4> HIDE DEF y
      <4> QED  BY <4>1, <4>2, <2>1, <2>2, FetchQuiet
    <3> QED  BY <2>6, <3>1, <3>2 DEF StoreJobs
  <2> QED  BY <1>6, <2>4, <2>5, <2>6
<1>7. ASSUME NEW r \in Pass, NEW a, Gets(r, a), pass[r].at \in 1..LastAt, Do(r) \in Asks, pass[r].pc \notin Fetching,
             UNCHANGED <<file, fetched, excused, expired>>
      PROVE  FetchInv'
  <2>1. pass[r] \in PassRec /\ Plan[pass[r].at].do \in Asks
    BY <1>7, PassIs DEF Do
  <2>2. a \in AnswerRec /\ a.prompt[1] = Plan[pass[r].at].on
    BY <1>7 DEF Gets, On
  <2>3. Given(pass[r], a) \in PassRec /\ Given(pass[r], a).pc \in {"column", "go"}
    BY <1>7, <2>1, <2>2, GivenIs
  <2>4. Given(pass[r], a).pc \notin Fetching /\ pass' = [pass EXCEPT ![r] = Given(pass[r], a)]
    BY <1>7, <2>3 DEF Gets, Fetching
  <2> QED  BY <1>7, <2>3, <2>4, FetchQuiet
<1>8. ASSUME NEW r \in Pass, Ask(r)
      PROVE  FetchInv'
  <2>1. CASE Lookup(r)
    <3>1. /\ pass[r].at \in 1..LastAt /\ Do(r) \in Asks /\ pass[r].pc \notin Fetching
          /\ UNCHANGED <<file, fetched, excused, expired>>
      BY <2>1, LookupIs DEF shared, history, Fetching
    <3>2. ASSUME NEW y \in PassRec, pass' = [pass EXCEPT ![r] = y], y.pc = "model"
          PROVE  FetchInv'
      BY <3>1, <3>2, FetchQuiet DEF Fetching
    <3>3. ASSUME NEW a, Gets(r, a)
          PROVE  FetchInv'
      BY <1>7, <3>1, <3>3
    <3> QED  BY <2>1, <3>2, <3>3, LookupIs
  <2>2. CASE Answer(r)
    <3>1. PICK y \in PassRec : pass' = [pass EXCEPT ![r] = y] /\ y.pc = "keep"
      BY <2>2, AnswerIs
    <3>2. pass[r].pc = "model" /\ UNCHANGED <<shared, fetched, excused, expired, mixed>>
      BY <2>2, AnswerIs
    <3> QED  BY <3>1, <3>2, FetchQuiet DEF Fetching, shared
  <2>3. CASE Keep(r)
    <3>1. /\ pass[r].at \in 1..LastAt /\ Do(r) \in Asks /\ pass[r].pc \notin Fetching
          /\ UNCHANGED <<file, fetched, excused, expired>> /\ Gets(r, Kept(r))
      BY <2>3, KeepIs DEF history, Fetching
    <3> QED  BY <1>7, <3>1
  <2>4. CASE Column(r)
    <3>1. /\ GoOn(r, {}) /\ pass[r].at \in 1..LastAt /\ pass[r].pc \notin Fetching
          /\ UNCHANGED <<file, fetched, excused, expired>>
      BY <2>4, ColumnIs DEF Column, Fetching, history
    <3> QED  BY <1>2, <3>1
  <2> QED  BY <1>8, <2>1, <2>2, <2>3, <2>4 DEF Ask
<1>9. ASSUME NEW r \in Pass, Start(r)
      PROVE  FetchInv'
  <2>1. /\ pass' = [pass EXCEPT ![r] = Begun] /\ Begun \in PassRec /\ Begun.pc \notin Fetching
        /\ pass[r].pc \notin Fetching /\ UNCHANGED <<file, fetched, excused, expired>>
    BY <1>9, StartIs, EndsAre DEF Fetching, shared
  <2> QED  BY <2>1, FetchQuiet
<1>10. ASSUME NEW r \in Pass, Stop(r)
       PROVE  FetchInv'
  <2>1. CASE pass[r].pc \in Fetching
    BY <1>10, <2>1, StopFetch
  <2>2. CASE pass[r].pc \notin Fetching
    <3>1. /\ pass' = [pass EXCEPT ![r] = Over] /\ Over \in PassRec /\ Over.pc \notin Fetching
          /\ UNCHANGED <<file, fetched, excused, expired>>
      BY <1>10, <2>2, EndsAre DEF Stop, Fetching, shared
    <3> QED  BY <2>2, <3>1, FetchQuiet
  <2> QED  BY <2>1, <2>2
<1> QED  BY <1>1, <1>5, <1>6, <1>8, <1>9, <1>10, ExpireFetch DEF Next

-----------------------------------------------------------------------------
(* What is asked *)

\* What a prompt may be made of is never taken away.
LEMMA PromptsGrow ==
  ASSUME Shape, Grows, answers \subseteq answers', paid'["A1"] >= paid["A1"], paid' \in [Agent -> Nat], NEW agent \in Agent
  PROVE  /\ \A p \in PromptsOf(agent) : p \in PromptsOf(agent)'
         /\ \A k \in Pairs : k \in Pairs'
<1>1. paid["A1"] \in Nat /\ paid'["A1"] \in Nat
  BY DEF Shape, Agent
<1>2. Len(evidence) \in Nat /\ Len(evidence') \in Nat
  BY DEF Shape, Grows
<1>3. \A n \in 0..Len(evidence) : n \in 0..Len(evidence') /\ Window(n)' = Window(n)
  BY <1>2 DEF Grows
<1>4. \A k \in 0..paid["A1"] : k \in 0..paid'["A1"]
  BY <1>1
<1>5. \A k \in Pairs : k \in Pairs'
  BY DEF Pairs
<1>6. CASE agent = "A1"
  <2>1. PromptsOf(agent) = {<<"A1", Window(n)>> : n \in 0..Len(evidence)}
    BY <1>6 DEF PromptsOf
  <2>2. PromptsOf(agent)' = {<<"A1", Window(n)'>> : n \in 0..Len(evidence')}
    BY <1>6 DEF PromptsOf
  <2> QED  BY <1>3, <1>5, <2>1, <2>2
<1>7. CASE agent = "A2"
  <2>1. PromptsOf(agent) = {<<"A2", k, Window(n)>> : k \in 0..paid["A1"], n \in 0..Len(evidence)}
    BY <1>7 DEF PromptsOf
  <2>2. PromptsOf(agent)' = {<<"A2", k, Window(n)'>> : k \in 0..paid'["A1"], n \in 0..Len(evidence')}
    BY <1>7 DEF PromptsOf
  <2> QED  BY <1>3, <1>4, <1>5, <2>1, <2>2
<1>8. CASE agent = "A3"
  BY <1>5, <1>8 DEF PromptsOf
<1>9. CASE agent = "A4"
  BY <1>5, <1>9 DEF PromptsOf
<1> QED  BY <1>6, <1>7, <1>8, <1>9 DEF Agent

\* The prompt is made of what there is.
LEMMA PromptMade ==
  ASSUME CompanyResearchAssumption, Shape, Numbers, PromptsMade, NEW r \in Pass, pass[r].pc = "go",
         pass[r].at \in 1..LastAt, Do(r) \in Asks
  PROVE  /\ Prompt(r) \in PromptsOf(On(r)) /\ On(r) \in Agent
         /\ On(r) = "A2" => Prompt(r)[2] = pass[r].known[1]
<1>1. pass[r] \in PassRec /\ Plan[pass[r].at].do \in Asks
  BY PassIs DEF Do
<1>2. On(r) \in Agent
  BY <1>1, PlanSteps DEF On
<1>3. Len(evidence) \in Nat /\ Newest = Window(Len(evidence)) /\ Len(evidence) \in 0..Len(evidence)
  BY NewestIs DEF Shape
<1>4. CASE On(r) = "A1"
  <2>1. Prompt(r) = <<"A1", Newest>>
    BY <1>4, PromptIs
  <2> QED  BY <1>2, <1>3, <1>4, <2>1 DEF PromptsOf
<1>5. CASE On(r) = "A2"
  <2>1. Prompt(r) = <<"A2", pass[r].known[1], Newest>>
    BY <1>5, PromptIs
  <2>2. pass[r].known[1] \in 0..paid["A1"]
    <3>1. pass[r].known[1] \in Nat /\ paid["A1"] \in Nat
      BY <1>1 DEF PassRec, Shape, Agent
    <3>2. pass[r].known[1] <= paid["A1"]
      BY DEF Numbers, HoldsBelow, Below
    <3> QED  BY <3>1, <3>2
  <2>3. Prompt(r) \in {<<"A2", k, Window(n)>> : k \in 0..paid["A1"], n \in 0..Len(evidence)}
    <3>1. PICK k \in 0..paid["A1"] : k = pass[r].known[1]
      BY <2>2
    <3>2. PICK n \in 0..Len(evidence) : Newest = Window(n)
      BY <1>3
    <3>3. Prompt(r) = <<"A2", k, Window(n)>>
      BY <2>1, <3>1, <3>2
    <3> QED  BY <3>3
  <2>4. Prompt(r)[2] = pass[r].known[1]
    BY <2>1
  <2>5. PromptsOf("A2") = {<<"A2", k, Window(n)>> : k \in 0..paid["A1"], n \in 0..Len(evidence)}
    BY DEF PromptsOf
  <2> QED  BY <1>2, <1>5, <2>3, <2>4, <2>5
<1>6. CASE On(r) = "A3"
  <2>1. Prompt(r) = <<"A3", TextOf[pass[r].careers]>> /\ pass[r].careers \in Named
    BY <1>1, <1>6, PromptIs DEF PassRec
  <2> QED  BY <1>2, <1>6, <2>1 DEF PromptsOf
<1>7. CASE On(r) = "A4"
  <2>1. Prompt(r) = <<"A4", pass[r].known>>
    BY <1>7, PromptIs
  <2>2. pass[r].at > A2At
    <3>1. pass[r].at = LastAt
      BY <1>1, <1>7, PlanSteps DEF On
    <3>2. A2At \in Nat /\ LastAt \in Nat /\ A2At < LastAt
      BY PlanIs
    <3> QED  BY <3>1, <3>2
  <2>3. pass[r].known \in Pairs
    BY <2>2 DEF PromptsMade, Reached
  <2> QED  BY <1>2, <1>7, <2>1, <2>3 DEF PromptsOf
<1> QED  BY <1>2, <1>4, <1>5, <1>6, <1>7 DEF Agent

\* One pass moves, and asks for what there is.
LEMMA PromptsMove ==
  ASSUME CompanyResearchAssumption, Shape, Shape', PromptsMade, NEW r \in Pass, NEW y \in PassRec,
         pass' = [pass EXCEPT ![r] = y],
         \A agent \in Agent : \A p \in PromptsOf(agent) : p \in PromptsOf(agent)',
         \A k \in Pairs : k \in Pairs',
         \A a \in answers' : a \in answers \/ \E agent \in Agent : a.prompt[1] = agent /\ a.prompt \in PromptsOf(agent),
         y.pc \in {"model", "keep"} =>
           /\ \E agent \in Agent : agent = Plan[y.at].on /\ y.prompt \in PromptsOf(agent)
           /\ Plan[y.at].on = "A2" => y.prompt[2] = y.known[1],
         Reached(y, A2At) => y.known \in Pairs'
  PROVE  PromptsMade'
<1>1. ASSUME NEW a \in answers'
      PROVE  a.prompt \in PromptsOf(a.prompt[1])'
  <2>1. PICK agent \in Agent : a.prompt[1] = agent /\ a.prompt \in PromptsOf(agent)
    <3>1. CASE a \in answers
      <4>1. a.prompt \in PromptsOf(a.prompt[1]) /\ a.prompt[1] \in Agent
        BY <3>1, AgentOf DEF PromptsMade, Shape
      <4> QED  BY <4>1
    <3> QED  BY <3>1
  <2> QED  BY <2>1
<1>2. \A o \in Pass : Reached(pass'[o], A2At) => pass'[o].known \in Pairs'
  <2> TAKE o \in Pass
  <2>1. CASE o = r
    <3>1. pass'[o] = y
      BY <2>1 DEF Shape
    <3> QED  BY <3>1
  <2>2. CASE o # r
    <3>1. pass'[o] = pass[o]
      BY <2>2 DEF Shape
    <3> QED  BY <3>1 DEF PromptsMade
  <2> QED  BY <2>1, <2>2
<1>3. ASSUME NEW o \in Pass, pass'[o].pc \in {"model", "keep"}
      PROVE  /\ pass'[o].prompt \in PromptsOf(On(o))'
             /\ On(o)' = "A2" => pass'[o].prompt[2] = pass'[o].known[1]
  <2>1. CASE o = r
    <3>1. pass'[o] = y
      BY <2>1 DEF Shape
    <3>2. PICK agent \in Agent : agent = Plan[y.at].on /\ y.prompt \in PromptsOf(agent)
      BY <1>3, <3>1
    <3>3. On(o)' = agent /\ On(o)' = Plan[y.at].on
      BY <3>1, <3>2 DEF On
    <3>4. y.prompt \in PromptsOf(agent)'
      BY <3>2
    <3> QED  BY <1>3, <3>1, <3>2, <3>3, <3>4
  <2>2. CASE o # r
    <3>1. pass'[o] = pass[o]
      BY <2>2 DEF Shape
    <3>2. On(o)' = On(o)
      BY <3>1 DEF On
    <3>3. On(o) \in Agent
      <4>1. pass[o] \in PassRec /\ Walks(pass[o]) /\ pass[o].at \in 1..LastAt
        BY <1>3, <3>1, PassIs
      <4>2. Plan[pass[o].at].do \in Asks
        BY <1>3, <3>1, <4>1 DEF Walks
      <4> QED  BY <4>1, <4>2, PlanSteps DEF On
    <3>4. PICK agent \in Agent : agent = On(o)
      BY <3>3
    <3>5. pass[o].prompt \in PromptsOf(agent)' /\ (agent = "A2" => pass[o].prompt[2] = pass[o].known[1])
      BY <1>3, <3>1, <3>4 DEF PromptsMade
    <3>6. On(o)' = agent
      BY <3>2, <3>4
    <3> QED  BY <3>1, <3>5, <3>6
  <2> QED  BY <2>1, <2>2
<1> QED  BY <1>1, <1>2, <1>3 DEF PromptsMade, Reached

\* What the steps of a pass leave of the plan: Walking on and being given an
\* answer take a pass no further than the next column.
LEMMA AnswerPlace ==
  ASSUME CompanyResearchAssumption, NEW x \in PassRec, x.at \in 1..LastAt, Plan[x.at].do \in Asks,
         NEW a \in AnswerRec, a.prompt[1] = Plan[x.at].on
  PROVE  /\ a.prompt[1] = "A1" => x.at = A1At /\ Given(x, a).at = A1At
         /\ a.prompt[1] = "A2" => x.at = A2At /\ Given(x, a).at = A2At
         /\ a.prompt[1] = "A3" => x.at \notin {A1At, A2At, LastAt}
         /\ a.prompt[1] = "A4" => x.at = LastAt /\ Given(x, a).at = LastAt
         /\ a.prompt[1] \in Agent
<1>1. /\ Plan[x.at].on \in Agent
      /\ Plan[x.at].on = "A1" <=> x.at = A1At
      /\ Plan[x.at].on = "A2" <=> x.at = A2At
      /\ Plan[x.at].on = "A4" <=> x.at = LastAt
  BY PlanSteps
<1>2. a.prompt[1] # "A3" => Given(x, a).at = x.at
  BY GivenIs
<1> QED  BY <1>1, <1>2

LEMMA PromptsStep ==
  ASSUME CompanyResearchAssumption, Shape, Shape', Numbers, PromptsMade, [Next]_vars
  PROVE  PromptsMade'
<1>1. /\ paid \in [Agent -> Nat] /\ paid' \in [Agent -> Nat] /\ answers \subseteq AnswerRec /\ answers' \subseteq AnswerRec
      /\ pass \in [Pass -> PassRec] /\ evidence \in Seq(Texts) /\ IsInjective(evidence)
  BY DEF Shape, AnswerRec
<1>2. /\ A1At \in Nat /\ A2At \in Nat /\ LastAt \in Nat /\ 2 < A1At /\ A1At < A2At /\ A2At < LastAt
      /\ Plan[A1At].do = "ask" /\ Plan[A2At].do = "ask" /\ Plan[LastAt].do = "ask"
  BY PlanIs
<1>3. evidence' = evidence => Grows
  BY <1>1 DEF Grows, Window
<1>4. ASSUME Grows, answers \subseteq answers', paid'["A1"] >= paid["A1"]
      PROVE  /\ \A agent \in Agent : \A p \in PromptsOf(agent) : p \in PromptsOf(agent)'
             /\ \A k \in Pairs : k \in Pairs'
  <2>1. "A1" \in Agent
    BY DEF Agent
  <2> QED  BY <1>1, <1>4, <2>1, PromptsGrow
<1>5. paid["A1"] \in Nat
  BY <1>1 DEF Agent
\* A pass that asks nothing, and has no new column.
<1>6. ASSUME NEW r \in Pass, NEW y \in PassRec, pass' = [pass EXCEPT ![r] = y], y.pc \notin {"model", "keep"},
             Reached(y, A2At) => Reached(pass[r], A2At) /\ y.known = pass[r].known,
             Grows, answers' = answers, paid' = paid
      PROVE  PromptsMade'
  <2>1. /\ \A agent \in Agent : \A p \in PromptsOf(agent) : p \in PromptsOf(agent)'
        /\ \A k \in Pairs : k \in Pairs'
    BY <1>4, <1>5, <1>6
  <2>2. Reached(y, A2At) => y.known \in Pairs'
    BY <1>6, <2>1 DEF PromptsMade
  <2> QED  BY <1>6, <2>1, <2>2, PromptsMove
<1>17. ASSUME UNCHANGED <<evidence, answers, paid, pass>>
       PROVE  PromptsMade'
  <2>1. \A n : Window(n)' = Window(n)
    BY <1>17 DEF Window
  <2>2. Pairs' = Pairs
    BY <1>17 DEF Pairs
  <2>3. \A agent \in Agent : PromptsOf(agent)' = PromptsOf(agent)
    <3>1. PromptsOf("A1")' = PromptsOf("A1")
      BY <1>17, <2>1 DEF PromptsOf
    <3>2. PromptsOf("A2")' = PromptsOf("A2")
      <4>1. PromptsOf("A2")' = {<<"A2", k, Window(n)'>> : k \in 0..paid["A1"], n \in 0..Len(evidence)}
        BY <1>17 DEF PromptsOf
      <4>2. PromptsOf("A2") = {<<"A2", k, Window(n)>> : k \in 0..paid["A1"], n \in 0..Len(evidence)}
        BY DEF PromptsOf
      <4>3. ASSUME NEW p \in PromptsOf("A2")
            PROVE  p \in PromptsOf("A2")'
        <5>1. PICK k \in 0..paid["A1"], n \in 0..Len(evidence) : p = <<"A2", k, Window(n)>>
          BY <4>2
        <5>2. p = <<"A2", k, Window(n)'>>
          BY <5>1, <2>1
        <5> QED  BY <5>2, <4>1
      <4>4. ASSUME NEW p \in PromptsOf("A2")'
            PROVE  p \in PromptsOf("A2")
        <5>1. PICK k \in 0..paid["A1"], n \in 0..Len(evidence) : p = <<"A2", k, Window(n)'>>
          BY <4>1
        <5>2. p = <<"A2", k, Window(n)>>
          BY <5>1, <2>1
        <5> QED  BY <5>2, <4>2
      <4> QED  BY <4>3, <4>4
    <3>3. PromptsOf("A3")' = PromptsOf("A3")
      BY DEF PromptsOf
    <3>4. PromptsOf("A4")' = PromptsOf("A4")
      BY <2>2 DEF PromptsOf
    <3> QED  BY <3>1, <3>2, <3>3, <3>4 DEF Agent
  <2>4. \A r : On(r)' = On(r)
    BY <1>17 DEF On
  <2>5. \A r \in Pass : pass[r].pc \in {"model", "keep"} => On(r) \in Agent
    BY PassIs, PlanSteps DEF Walks, On
  <2>6. \A a \in answers : a.prompt[1] \in Agent
    BY <1>1, AgentOf DEF AnswerRec
  <2> QED  BY <1>17, <2>2, <2>3, <2>4, <2>5, <2>6 DEF PromptsMade, Reached
<1>7. CASE UNCHANGED vars
  BY <1>7, <1>17 DEF vars, shared, history
<1>8. ASSUME NEW r \in Pass, Start(r)
      PROVE  PromptsMade'
  <2>1. /\ pass' = [pass EXCEPT ![r] = Begun] /\ Begun \in PassRec /\ Begun.pc = "go" /\ Begun.at = 1
        /\ UNCHANGED <<shared, paid>>
    BY <1>8, StartIs, EndsAre
  <2>2. ~Reached(Begun, A2At)
    BY <1>2, <2>1 DEF Reached
  <2> QED  BY <1>3, <1>6, <2>1, <2>2 DEF shared
<1>9. ASSUME NEW r \in Pass, Walked(r)
      PROVE  PromptsMade'
  <2>1. PICK y \in PassRec :
          /\ pass' = [pass EXCEPT ![r] = y] /\ y.pc \in Walking /\ y.known = pass[r].known
          /\ y.at >= pass[r].at /\ \A i \in {A1At, A2At} : pass[r].at < i => y.at <= i
    BY <1>9 DEF Walked
  <2>2. pass[r].at \in 1..LastAt /\ pass[r].at # A2At /\ Grows /\ answers' = answers /\ paid' = paid
    BY <1>2, <1>9 DEF Walked, Do, Asks
  <2>3. Reached(y, A2At) => Reached(pass[r], A2At)
    <3>1. y.at \in Nat /\ pass[r].at \in Nat
      BY <2>1, <2>2 DEF PassRec
    <3>2. y.pc # "column" /\ (pass[r].at < A2At => y.at <= A2At)
      BY <2>1 DEF Walking
    <3> QED  BY <1>2, <2>2, <3>1, <3>2 DEF Reached
  <2> QED  BY <1>6, <2>1, <2>2, <2>3 DEF Walking
\* A pass that is given an answer there is.
<1>10. ASSUME NEW r \in Pass, NEW a \in answers', Gets(r, a), pass[r].at \in 1..LastAt, Do(r) \in Asks,
              \A b \in answers' : b \in answers \/ \E agent \in Agent : b.prompt[1] = agent /\ b.prompt \in PromptsOf(agent),
              answers \subseteq answers', evidence' = evidence, paid' = paid,
              On(r) = "A2" => a.prompt[2] = pass[r].known[1]
       PROVE  PromptsMade'
  <2>1. pass[r] \in PassRec /\ Plan[pass[r].at].do \in Asks /\ a \in AnswerRec /\ a.prompt[1] = Plan[pass[r].at].on
    BY <1>1, <1>10 DEF Gets, On, Do
  <2>2. PICK x \in PassRec : x = pass[r]
    BY <2>1
  <2>3. PICK y \in PassRec : y = Given(x, a)
    BY <2>1, <2>2, <1>10, GivenIs
  <2>4. pass' = [pass EXCEPT ![r] = y]
    BY <1>10, <2>2, <2>3 DEF Gets
  <2>5. x.at \in 1..LastAt /\ Plan[x.at].do \in Asks /\ a.prompt[1] = Plan[x.at].on
    BY <1>10, <2>1, <2>2
  <2>6. /\ a.prompt[1] = "A1" => x.at = A1At /\ y.at = A1At
        /\ a.prompt[1] = "A2" => x.at = A2At /\ y.at = A2At
        /\ a.prompt[1] = "A3" => x.at \notin {A1At, A2At, LastAt}
        /\ a.prompt[1] = "A4" => x.at = LastAt /\ y.at = LastAt
        /\ a.prompt[1] \in Agent
    BY <2>1, <2>3, <2>5, AnswerPlace
  <2>7. /\ y.pc \in {"column", "go"}
        /\ a.prompt[1] = "A2" => y.known = <<x.known[1], a.no>>
        /\ a.prompt[1] = "A4" => y.known = x.known
        /\ a.prompt[1] = "A3" => /\ y.pc = "go" /\ y.known = x.known
                                 /\ \A i \in {A1At, A2At} : x.at < i => y.at <= i
    BY <2>1, <2>3, <2>5, GivenIs
  <2>8. /\ \A agent \in Agent : \A p \in PromptsOf(agent) : p \in PromptsOf(agent)'
        /\ \A k \in Pairs : k \in Pairs'
    BY <1>3, <1>4, <1>5, <1>10
  <2>9. Reached(y, A2At) => y.known \in Pairs'
    <3>1. x.at \in Nat /\ y.at \in Nat
      BY DEF PassRec
    <3>2. Reached(x, A2At) => x.known \in Pairs'
      BY <2>2, <2>8 DEF PromptsMade
    <3>3. CASE a.prompt[1] = "A1"
      <4>1. ~Reached(y, A2At)
        BY <1>2, <2>6, <3>3 DEF Reached
      <4> QED  BY <4>1
    <3>4. CASE a.prompt[1] = "A2"
      <4>1. On(r) = "A2"
        BY <2>1, <3>4 DEF On
      <4>2. y.known = <<a.prompt[2], a.no>>
        BY <1>10, <2>2, <2>7, <3>4, <4>1
      <4> QED  BY <1>10, <3>4, <4>2 DEF Pairs
    <3>5. CASE a.prompt[1] = "A3"
      <4>1. Reached(y, A2At) => Reached(x, A2At)
        BY <1>2, <2>6, <2>7, <3>1, <3>5 DEF Reached
      <4> QED  BY <2>7, <3>2, <3>5, <4>1
    <3>6. CASE a.prompt[1] = "A4"
      <4>1. Reached(x, A2At)
        BY <1>2, <2>6, <3>6 DEF Reached
      <4> QED  BY <2>7, <3>2, <3>6, <4>1
    <3> QED  BY <2>6, <3>3, <3>4, <3>5, <3>6 DEF Agent
  <2>10. y.pc \notin {"model", "keep"}
    BY <2>7
  <2> QED  BY <1>10, <2>4, <2>8, <2>9, <2>10, PromptsMove
<1>11. ASSUME NEW r \in Pass, Lookup(r)
       PROVE  PromptsMade'
  <2>1. pass[r].pc = "go" /\ pass[r].at \in 1..LastAt /\ Do(r) \in Asks /\ UNCHANGED <<shared, history>>
    BY <1>11, LookupIs
  <2>2. answers' = answers /\ evidence' = evidence /\ paid' = paid
    BY <2>1 DEF shared, history
  <2>3. /\ Prompt(r) \in PromptsOf(On(r)) /\ On(r) \in Agent
        /\ On(r) = "A2" => Prompt(r)[2] = pass[r].known[1]
    BY <2>1, PromptMade
  <2>4. ASSUME NEW y \in PassRec, pass' = [pass EXCEPT ![r] = y], y.pc = "model", y.prompt = Prompt(r),
               y.at = pass[r].at, y.known = pass[r].known
        PROVE  PromptsMade'
    <3>1. /\ \A agent \in Agent : \A p \in PromptsOf(agent) : p \in PromptsOf(agent)'
          /\ \A k \in Pairs : k \in Pairs'
      BY <1>3, <1>4, <1>5, <2>2
    <3>2. Reached(y, A2At) => y.known \in Pairs'
      BY <2>1, <2>4, <3>1 DEF PromptsMade, Reached
    <3>3. /\ \E agent \in Agent : agent = Plan[y.at].on /\ y.prompt \in PromptsOf(agent)
          /\ Plan[y.at].on = "A2" => y.prompt[2] = y.known[1]
      BY <2>3, <2>4 DEF On
    <3> QED  BY <2>2, <2>4, <3>1, <3>2, <3>3, PromptsMove
  <2>5. ASSUME NEW a \in answers, a.prompt = Prompt(r), Gets(r, a)
        PROVE  PromptsMade'
    BY <1>10, <2>1, <2>2, <2>3, <2>5
  <2> QED  BY <1>11, <2>4, <2>5, LookupIs
<1>12. ASSUME NEW r \in Pass, Keep(r)
       PROVE  PromptsMade'
  <2>1. /\ Gets(r, Kept(r)) /\ answers' = answers \cup {Kept(r)} /\ UNCHANGED <<file, evidence, row, jobs, history>>
        /\ pass[r].at \in 1..LastAt /\ Do(r) \in Asks /\ pass[r].pc = "keep"
    BY <1>12, KeepIs
  <2>2. /\ pass[r].prompt \in PromptsOf(On(r)) /\ (On(r) = "A2" => pass[r].prompt[2] = pass[r].known[1])
        /\ On(r) \in Agent /\ Kept(r).prompt[1] = On(r) /\ Kept(r).prompt = pass[r].prompt
    BY <1>12, <2>1, PlanSteps DEF PromptsMade, On, Do, Gets, Kept
  <2>3. PICK a \in answers' : a = Kept(r)
    BY <2>1
  <2>4. \A b \in answers' : b \in answers \/ \E agent \in Agent : b.prompt[1] = agent /\ b.prompt \in PromptsOf(agent)
    BY <2>1, <2>2
  <2> QED  BY <1>10, <2>1, <2>2, <2>3, <2>4 DEF history
<1>13. ASSUME NEW r \in Pass, Column(r)
       PROVE  PromptsMade'
  <2>1. /\ pass' = [pass EXCEPT ![r] = Onward(pass[r], {})] /\ pass[r].at \in 1..LastAt /\ pass[r] \in PassRec
        /\ pass[r].pc = "column" /\ pass[r].at \in {A1At, A2At, LastAt}
        /\ UNCHANGED <<file, evidence, answers, jobs, history>>
    BY <1>1, <1>13, ColumnIs
  <2>2. PICK x \in PassRec : x = pass[r]
    BY <2>1
  <2>3. PICK y \in PassRec : y = Onward(x, {})
    BY <2>1, <2>2, OnwardIs
  <2>4. x.at \in 1..LastAt
    BY <2>1, <2>2
  <2>5. CASE y = Over
    <3>1. y.pc = "over" /\ y.at = 0
      BY <2>5, EndsAre
    <3>2. ~Reached(y, A2At)
      BY <1>2, <3>1 DEF Reached
    <3> QED  BY <1>3, <1>6, <2>1, <2>2, <2>3, <3>1, <3>2 DEF history
  <2>6. CASE y # Over
    <3>1. y.pc = "go" /\ y.at > x.at /\ y.known = x.known /\ (x.at < A2At => y.at <= A2At)
      BY <2>3, <2>4, <2>6, OnwardIs
    <3>2. Reached(y, A2At) => Reached(x, A2At)
      <4>1. x.at \in Nat /\ y.at \in Nat
        BY DEF PassRec
      <4> QED  BY <1>2, <2>1, <2>2, <3>1, <4>1 DEF Reached
    <3> QED  BY <1>3, <1>6, <2>1, <2>2, <2>3, <3>1, <3>2 DEF history
  <2> QED  BY <2>5, <2>6
<1>14. ASSUME NEW r \in Pass, Stop(r)
       PROVE  PromptsMade'
  <2>1. /\ pass' = [pass EXCEPT ![r] = Over] /\ Over \in PassRec /\ Over.pc = "over" /\ Over.at = 0
        /\ UNCHANGED <<shared, fetched, paid, expired>>
    BY <1>14, EndsAre DEF Stop
  <2>2. ~Reached(Over, A2At)
    BY <1>2, <2>1 DEF Reached
  <2> QED  BY <1>3, <1>6, <2>1, <2>2 DEF shared
<1>15. ASSUME NEW u \in Page, Expire(u)
       PROVE  PromptsMade'
  BY <1>15, <1>17 DEF Expire
<1>16. ASSUME NEW r \in Pass, Answer(r)
       PROVE  PromptsMade'
  <2>1. PICK y \in PassRec :
          /\ pass' = [pass EXCEPT ![r] = y] /\ y.pc = "keep" /\ y.prompt = pass[r].prompt
          /\ y.at = pass[r].at /\ y.known = pass[r].known
    BY <1>16, AnswerIs
  <2>2. /\ pass[r].pc = "model" /\ On(r) \in Agent /\ \A a \in Agent : paid'[a] >= paid[a]
        /\ UNCHANGED <<shared, fetched, excused, expired, mixed>>
    BY <1>16, AnswerIs
  <2>3. /\ \A agent \in Agent : \A p \in PromptsOf(agent) : p \in PromptsOf(agent)'
        /\ \A k \in Pairs : k \in Pairs'
    BY <1>3, <1>4, <2>2 DEF shared, Agent
  <2>4. Reached(y, A2At) => y.known \in Pairs'
    BY <2>1, <2>2, <2>3 DEF PromptsMade, Reached
  <2>5. /\ \E agent \in Agent : agent = Plan[y.at].on /\ y.prompt \in PromptsOf(agent)
        /\ Plan[y.at].on = "A2" => y.prompt[2] = y.known[1]
    BY <2>1, <2>2 DEF PromptsMade, On
  <2> QED  BY <2>1, <2>2, <2>3, <2>4, <2>5, PromptsMove DEF shared
<1> QED  BY <1>7, <1>8, <1>9, <1>11, <1>12, <1>13, <1>14, <1>15, <1>16, StepsAreOf DEF PassStep

-----------------------------------------------------------------------------
(* What is bought *)

\* Only Answer gives a pass a number to keep, and only Keep writes it down.
LEMMA StepsKeep ==
  ASSUME CompanyResearchAssumption, Shape, NEW r \in Pass,
         Start(r) \/ Walked(r) \/ Lookup(r) \/ Column(r) \/ (Stop(r) /\ pass[r].pc # "keep")
  PROVE  /\ pass[r].pc # "keep" /\ answers' = answers /\ paid' = paid /\ excess' = excess
         /\ \E y \in PassRec : pass' = [pass EXCEPT ![r] = y] /\ y.pc # "keep"
<1>1. CASE Start(r)
  <2>1. /\ pass[r].pc # "keep" /\ pass' = [pass EXCEPT ![r] = Begun] /\ Begun \in PassRec /\ Begun.pc # "keep"
        /\ UNCHANGED <<shared, fetched, excused, paid, excess, expired>>
    BY <1>1, StartIs, EndsAre
  <2> QED  BY <2>1 DEF shared
<1>2. CASE Walked(r)
  BY <1>2 DEF Walked, Walking
<1>3. CASE Lookup(r)
  <2>1. pass[r].pc # "keep" /\ pass[r].at \in 1..LastAt /\ Do(r) \in Asks /\ UNCHANGED <<shared, history>>
    BY <1>3, LookupIs
  <2>2. ASSUME NEW a, Gets(r, a)
        PROVE  \E y \in PassRec : pass' = [pass EXCEPT ![r] = y] /\ y.pc # "keep"
    <3>1. pass[r] \in PassRec /\ Plan[pass[r].at].do \in Asks /\ a \in AnswerRec /\ a.prompt[1] = Plan[pass[r].at].on
      BY <2>1, <2>2, PassIs DEF Gets, On, Do
    <3>2. Given(pass[r], a) \in PassRec /\ Given(pass[r], a).pc # "keep"
      BY <2>1, <3>1, GivenIs
    <3> QED  BY <2>2, <3>2 DEF Gets
  <2>3. \E y \in PassRec : pass' = [pass EXCEPT ![r] = y] /\ y.pc # "keep"
    <3>1. \/ \E y \in PassRec : pass' = [pass EXCEPT ![r] = y] /\ y.pc = "model"
          \/ \E a \in answers : Gets(r, a)
      BY <1>3, LookupIs
    <3> QED  BY <2>2, <3>1
  <2> QED  BY <2>1, <2>3 DEF shared, history
<1>4. CASE Column(r)
  <2>1. /\ pass' = [pass EXCEPT ![r] = Onward(pass[r], {})] /\ pass[r].at \in 1..LastAt /\ pass[r] \in PassRec
        /\ pass[r].pc = "column" /\ UNCHANGED <<file, evidence, answers, jobs, history>>
    BY <1>4, ColumnIs, PassIs
  <2>2. Onward(pass[r], {}) \in PassRec /\ Onward(pass[r], {}).pc # "keep"
    BY <2>1, OnwardIs, EndsAre
  <2> QED  BY <2>1, <2>2 DEF history
<1>5. CASE Stop(r) /\ pass[r].pc # "keep"
  <2>1. /\ pass' = [pass EXCEPT ![r] = Over] /\ Over \in PassRec /\ Over.pc # "keep"
        /\ excess' = excess + 0 /\ UNCHANGED <<shared, fetched, paid, expired>>
    BY <1>5, EndsAre DEF Stop
  <2>2. excess' = excess
    BY <2>1 DEF Shape
  <2> QED  BY <1>5, <2>1, <2>2 DEF shared
<1> QED  BY <1>1, <1>2, <1>3, <1>4, <1>5

\* The kept answer, as one that is given.
LEMMA KeepsOne ==
  ASSUME CompanyResearchAssumption, Shape, NEW r \in Pass, Keep(r)
  PROVE  /\ pass[r].pc = "keep" /\ answers' = answers \cup {Kept(r)} /\ paid' = paid /\ excess' = excess
         /\ Kept(r).prompt = pass[r].prompt /\ Kept(r).no = pass[r].answer
         /\ \E y \in PassRec : pass' = [pass EXCEPT ![r] = y] /\ y.pc # "keep"
<1>1. /\ pass[r].pc = "keep" /\ pass[r].at \in 1..LastAt /\ Do(r) \in Asks
      /\ Gets(r, Kept(r)) /\ answers' = answers \cup {Kept(r)} /\ UNCHANGED <<file, evidence, row, jobs, history>>
  BY KeepIs
<1>2. /\ pass[r] \in PassRec /\ Plan[pass[r].at].do \in Asks /\ Kept(r) \in AnswerRec
      /\ Kept(r).prompt[1] = Plan[pass[r].at].on
  BY <1>1, PassIs DEF Gets, On, Do
<1>3. Given(pass[r], Kept(r)) \in PassRec /\ Given(pass[r], Kept(r)).pc # "keep"
  BY <1>1, <1>2, GivenIs
<1> QED  BY <1>1, <1>3 DEF Gets, Kept, history

LEMMA OwnStep ==
  ASSUME CompanyResearchAssumption, Shape, Numbers, OwnNumbers, [Next]_vars
  PROVE  OwnNumbers'
<1>1. /\ \A r \in Pass : \A y : pass' = [pass EXCEPT ![r] = y] =>
           pass'[r] = y /\ \A o \in Pass \ {r} : pass'[o] = pass[o]
      /\ answers \subseteq AnswerRec /\ paid \in [Agent -> Nat]
  BY DEF Shape, AnswerRec
<1>2. CASE UNCHANGED vars
  BY <1>2 DEF vars, shared, OwnNumbers
<1>3. ASSUME NEW u \in Page, Expire(u)
      PROVE  OwnNumbers'
  BY <1>3 DEF Expire, OwnNumbers
<1>4. ASSUME NEW r \in Pass, NEW y \in PassRec, pass' = [pass EXCEPT ![r] = y], y.pc # "keep", answers' = answers
      PROVE  OwnNumbers'
  <2>1. \A o \in Pass : pass'[o].pc = "keep" => o # r /\ pass'[o] = pass[o]
    BY <1>1, <1>4
  <2> QED  BY <1>4, <2>1 DEF OwnNumbers
<1>5. ASSUME NEW r \in Pass, Keep(r)
      PROVE  OwnNumbers'
  <2>1. /\ pass[r].pc = "keep" /\ answers' = answers \cup {Kept(r)}
        /\ Kept(r).prompt = pass[r].prompt /\ Kept(r).no = pass[r].answer
    BY <1>5, KeepsOne
  <2>2. PICK y \in PassRec : pass' = [pass EXCEPT ![r] = y] /\ y.pc # "keep"
    BY <1>5, KeepsOne
  <2>3. \A o \in Pass : pass'[o].pc = "keep" => o # r /\ pass'[o] = pass[o]
    BY <1>1, <2>2
  <2> DEFINE k == Kept(r)
  <2>4. \A a \in answers : k.prompt[1] = a.prompt[1] => k.no # a.no
    BY <2>1 DEF OwnNumbers
  <2>5. \A o \in Pass : pass'[o].pc = "keep" /\ k.prompt[1] = pass'[o].prompt[1] => k.no # pass'[o].answer
    BY <2>1, <2>3 DEF OwnNumbers
  <2>6. answers' = answers \cup {k}
    BY <2>1
  <2> HIDE DEF k
  <2>7. \A a, b \in answers' : a.prompt[1] = b.prompt[1] /\ a.no = b.no => a.prompt = b.prompt
    BY <2>4, <2>6 DEF OwnNumbers
  <2>8. \A o \in Pass, a \in answers' :
          pass'[o].pc = "keep" /\ a.prompt[1] = pass'[o].prompt[1] => a.no # pass'[o].answer
    <3> SUFFICES ASSUME NEW o \in Pass, NEW a \in answers',
                        pass'[o].pc = "keep", a.prompt[1] = pass'[o].prompt[1]
                 PROVE  a.no # pass'[o].answer
      OBVIOUS
    <3>1. pass'[o] = pass[o] /\ pass[o].pc = "keep" /\ a.prompt[1] = pass[o].prompt[1]
      BY <2>3
    <3>2. a \in answers => a.no # pass[o].answer
      BY <3>1 DEF OwnNumbers
    <3> QED  BY <2>5, <2>6, <3>1, <3>2
  <2>9. \A p, o \in Pass : /\ pass'[p].pc = "keep" /\ pass'[o].pc = "keep" /\ p # o
                           /\ pass'[p].prompt[1] = pass'[o].prompt[1]
                           => pass'[p].answer # pass'[o].answer
    BY <2>3 DEF OwnNumbers
  <2> QED  BY <2>7, <2>8, <2>9 DEF OwnNumbers
<1>6. ASSUME NEW r \in Pass, Answer(r)
      PROVE  OwnNumbers'
  <2>1. PICK y \in PassRec :
          /\ pass' = [pass EXCEPT ![r] = y] /\ y.prompt = pass[r].prompt /\ y.answer = paid[On(r)] + 1
    BY <1>6, AnswerIs
  <2>2. pass[r].prompt[1] = On(r) /\ On(r) \in Agent /\ answers' = answers
    BY <1>6, AnswerIs DEF shared
  <2>3. PICK ag \in Agent : ag = On(r)
    BY <2>2
  <2>4. paid[ag] \in Nat /\ y.prompt[1] = ag /\ y.answer = paid[ag] + 1
    BY <1>1, <2>1, <2>2, <2>3
  <2>5. \A a \in answers : a.prompt[1] = ag => a.no # y.answer
    <3>1. \A a \in answers : a.prompt[1] = ag => a.no \in 1..paid[ag]
      BY DEF Numbers
    <3> QED  BY <2>4, <3>1
  <2>6. \A o \in Pass : pass[o].pc = "keep" /\ pass[o].prompt[1] = ag => pass[o].answer # y.answer
    <3>1. \A o \in Pass : pass[o].pc = "keep" /\ pass[o].prompt[1] = ag => pass[o].answer \in 1..paid[ag]
      BY DEF Numbers, HoldsBelow
    <3> QED  BY <2>4, <3>1
  <2>7. \A o \in Pass : (o = r /\ pass'[o] = y) \/ (o # r /\ pass'[o] = pass[o])
    BY <1>1, <2>1
  <2>8. \A o \in Pass, a \in answers' :
          pass'[o].pc = "keep" /\ a.prompt[1] = pass'[o].prompt[1] => a.no # pass'[o].answer
    BY <2>2, <2>4, <2>5, <2>7 DEF OwnNumbers
  <2>9. ASSUME NEW p \in Pass, NEW o \in Pass, pass'[p].pc = "keep", pass'[o].pc = "keep", p # o,
               pass'[p].prompt[1] = pass'[o].prompt[1]
        PROVE  pass'[p].answer # pass'[o].answer
    <3>1. CASE p # r /\ o # r
      <4>1. pass'[p] = pass[p] /\ pass'[o] = pass[o]
        BY <2>7, <3>1
      <4> QED  BY <2>9, <4>1 DEF OwnNumbers
    <3>2. CASE p = r
      <4>1. pass'[p] = y /\ pass'[o] = pass[o]
        BY <2>7, <2>9, <3>2
      <4> QED  BY <2>4, <2>6, <2>9, <4>1
    <3>3. CASE o = r
      <4>1. pass'[o] = y /\ pass'[p] = pass[p]
        BY <2>7, <2>9, <3>3
      <4> QED  BY <2>4, <2>6, <2>9, <4>1
    <3> QED  BY <3>1, <3>2, <3>3
  <2> QED  BY <2>2, <2>8, <2>9 DEF OwnNumbers
<1>7. ASSUME NEW r \in Pass, Stop(r)
      PROVE  OwnNumbers'
  <2>1. pass' = [pass EXCEPT ![r] = Over] /\ Over \in PassRec /\ Over.pc # "keep" /\ answers' = answers
    BY <1>7, EndsAre DEF Stop, shared
  <2> QED  BY <1>4, <2>1
<1>8. ASSUME NEW r \in Pass, Start(r) \/ Walked(r) \/ Lookup(r) \/ Column(r)
      PROVE  OwnNumbers'
  <2>1. answers' = answers /\ \E y \in PassRec : pass' = [pass EXCEPT ![r] = y] /\ y.pc # "keep"
    BY <1>8, StepsKeep
  <2> QED  BY <1>4, <2>1
<1> QED  BY <1>2, <1>3, <1>5, <1>6, <1>7, <1>8, StepsAreOf DEF PassStep

\* What the passes but r keep an answer to; a pass counts while it keeps one.
AskedOf(x) == IF x.pc = "keep" THEN {x.prompt} ELSE {}
AskedBut(r) == {a.prompt : a \in answers} \cup {pass[q].prompt : q \in {o \in Pass \ {r} : pass[o].pc = "keep"}}

LEMMA AskedIs ==
  ASSUME Shape, NEW r \in Pass
  PROVE  Asked = AskedBut(r) \cup AskedOf(pass[r])
BY DEF Asked, AskedBut, AskedOf

LEMMA AskedMoves ==
  ASSUME Shape, NEW r \in Pass, NEW y \in PassRec, pass' = [pass EXCEPT ![r] = y]
  PROVE  \E s : /\ Asked' = s \cup AskedOf(y)
                /\ answers' = answers => s = AskedBut(r)
                /\ \A a : answers' = answers \cup {a} => s = AskedBut(r) \cup {a.prompt}
<1>1. pass'[r] = y /\ \A o \in Pass \ {r} : pass'[o] = pass[o]
  BY DEF Shape
<1> DEFINE D  == {o \in Pass \ {r} : pass[o].pc = "keep"}
           D1 == {o \in Pass \ {r} : pass'[o].pc = "keep"}
<1>2. D1 = D /\ \A o \in D : pass'[o].prompt = pass[o].prompt
  BY <1>1
<1>3. {pass'[o].prompt : o \in D1} = {pass[o].prompt : o \in D}
  <2> HIDE DEF D, D1
  <2> QED  BY <1>2
<1>4. Asked' = AskedBut(r)' \cup AskedOf(y)
  BY <1>1 DEF Asked, AskedBut, AskedOf
<1>5. AskedBut(r)' = {a.prompt : a \in answers'} \cup {pass[o].prompt : o \in D}
  BY <1>3 DEF AskedBut
<1>6. AskedBut(r) = {a.prompt : a \in answers} \cup {pass[o].prompt : o \in D}
  BY DEF AskedBut
<1> HIDE DEF D
<1>7. answers' = answers => AskedBut(r)' = AskedBut(r)
  BY <1>5, <1>6
<1>8. ASSUME NEW a, answers' = answers \cup {a}
      PROVE  AskedBut(r)' = AskedBut(r) \cup {a.prompt}
  <2>1. {b.prompt : b \in answers'} = {b.prompt : b \in answers} \cup {a.prompt}
    BY <1>8
  <2> QED  BY <2>1, <1>5, <1>6
<1> QED  BY <1>4, <1>7, <1>8

LEMMA BoughtStep ==
  ASSUME CompanyResearchAssumption, Shape, Bought, [Next]_vars
  PROVE  Bought'
<1>1. paid \in [Agent -> Nat] /\ excess \in Nat
  BY DEF Shape
<1>2. \A agent \in Agent : /\ IsFiniteSet(AskedBy(agent)) /\ Cardinality(AskedBy(agent)) \in Nat /\ paid[agent] \in Nat
                           /\ paid[agent] <= Cardinality(AskedBy(agent)) + excess
  BY <1>1, FS_CardinalityType DEF Bought
<1>3. ASSUME Asked' = Asked, paid' = paid, excess' = excess
      PROVE  Bought'
  BY <1>3 DEF Bought, AskedBy
<1>4. CASE UNCHANGED vars
  BY <1>3, <1>4 DEF vars, shared, history, Asked
<1>5. ASSUME NEW u \in Page, Expire(u)
      PROVE  Bought'
  BY <1>3, <1>5 DEF Expire, Asked
<1>6. ASSUME NEW r \in Pass, Start(r) \/ Walked(r) \/ Lookup(r) \/ Column(r) \/ (Stop(r) /\ pass[r].pc # "keep")
      PROVE  Bought'
  <2>1. /\ pass[r].pc # "keep" /\ answers' = answers /\ paid' = paid /\ excess' = excess
    BY <1>6, StepsKeep
  <2>2. PICK y \in PassRec : pass' = [pass EXCEPT ![r] = y] /\ y.pc # "keep"
    BY <1>6, StepsKeep
  <2>3. Asked' = Asked
    <3>1. AskedOf(pass[r]) = {} /\ AskedOf(y) = {}
      BY <2>1, <2>2 DEF AskedOf
    <3>2. PICK s : Asked' = s \cup AskedOf(y) /\ (answers' = answers => s = AskedBut(r))
      BY <2>2, AskedMoves
    <3>3. Asked = AskedBut(r) \cup AskedOf(pass[r])
      BY AskedIs
    <3> QED  BY <2>1, <3>1, <3>2, <3>3
  <2> QED  BY <1>3, <2>1, <2>3
<1>7. ASSUME NEW r \in Pass, Keep(r)
      PROVE  Bought'
  <2>1. /\ pass[r].pc = "keep" /\ answers' = answers \cup {Kept(r)} /\ paid' = paid /\ excess' = excess
        /\ Kept(r).prompt = pass[r].prompt
    BY <1>7, KeepsOne
  <2>2. PICK y \in PassRec : pass' = [pass EXCEPT ![r] = y] /\ y.pc # "keep"
    BY <1>7, KeepsOne
  <2>4. Asked' = Asked
    <3>1. AskedOf(pass[r]) = {pass[r].prompt} /\ AskedOf(y) = {}
      BY <2>1, <2>2 DEF AskedOf
    <3>2. PICK s : /\ Asked' = s \cup AskedOf(y)
                   /\ \A a : answers' = answers \cup {a} => s = AskedBut(r) \cup {a.prompt}
      BY <2>2, AskedMoves
    <3>3. Asked = AskedBut(r) \cup AskedOf(pass[r])
      BY AskedIs
    <3>4. s = AskedBut(r) \cup {pass[r].prompt}
      BY <2>1, <3>2
    <3> QED  BY <3>1, <3>2, <3>3, <3>4
  <2> QED  BY <1>3, <2>1, <2>4
<1>8. ASSUME NEW r \in Pass, Answer(r)
      PROVE  Bought'
  <2>1. /\ pass[r].pc = "model" /\ pass[r].prompt[1] = On(r) /\ On(r) \in Agent
        /\ paid' = [paid EXCEPT ![On(r)] = @ + 1] /\ answers' = answers
        /\ excess' = excess + (IF HasAnswer(pass[r].prompt) THEN 1 ELSE 0)
    BY <1>8, AnswerIs DEF shared
  <2>2. PICK y \in PassRec : pass' = [pass EXCEPT ![r] = y] /\ y.pc = "keep" /\ y.prompt = pass[r].prompt
    BY <1>8, AnswerIs
  <2>3. PICK p : p = pass[r].prompt
    OBVIOUS
  <2>4. PICK ag \in Agent : ag = On(r)
    BY <2>1
  <2>5. p[1] = ag /\ y.prompt = p /\ paid' = [paid EXCEPT ![ag] = @ + 1]
    BY <2>1, <2>2, <2>3, <2>4
  <2>6. Asked' = Asked \cup {p}
    <3>1. AskedOf(pass[r]) = {} /\ AskedOf(y) = {p}
      BY <2>1, <2>2, <2>3 DEF AskedOf
    <3>2. PICK s : Asked' = s \cup AskedOf(y) /\ (answers' = answers => s = AskedBut(r))
      BY <2>2, AskedMoves
    <3>3. Asked = AskedBut(r) \cup AskedOf(pass[r])
      BY AskedIs
    <3> QED  BY <2>1, <3>1, <3>2, <3>3
  <2>7. HasAnswer(p) <=> p \in Asked
    BY DEF HasAnswer, Cached, Asked
  <2>8. excess' = excess + (IF p \in Asked THEN 1 ELSE 0)
    BY <2>1, <2>3, <2>7
  <2> SUFFICES ASSUME NEW agent \in Agent
               PROVE  IsFiniteSet(AskedBy(agent)') /\ paid'[agent] <= Cardinality(AskedBy(agent)') + excess'
    BY DEF Bought
  <2>9. CASE p \in Asked
    <3>1. AskedBy(agent)' = AskedBy(agent)
      BY <2>6, <2>9 DEF AskedBy
    <3>2. excess' = excess + 1 /\ paid'[agent] <= paid[agent] + 1 /\ paid'[agent] \in Nat
      BY <1>1, <2>5, <2>8, <2>9
    <3> DEFINE n == Cardinality(AskedBy(agent))
    <3>3. n \in Nat /\ paid[agent] \in Nat /\ paid[agent] <= n + excess
      BY <1>2
    <3>4. paid'[agent] <= n + excess'
      <4> HIDE DEF n
      <4> QED  BY <1>1, <3>2, <3>3
    <3> QED  BY <1>2, <3>1, <3>4
  <2>10. CASE p \notin Asked /\ agent = ag
    <3>1. AskedBy(agent)' = AskedBy(agent) \cup {p} /\ p \notin AskedBy(agent)
      BY <2>5, <2>6, <2>10 DEF AskedBy
    <3> DEFINE A == AskedBy(agent)
               B == AskedBy(agent)'
    <3>2. IsFiniteSet(A) /\ Cardinality(A) \in Nat /\ B = A \cup {p} /\ p \notin A
      BY <1>2, <3>1
    <3>3. paid'[agent] = paid[agent] + 1 /\ excess' = excess /\ paid[agent] \in Nat /\ paid[agent] <= Cardinality(A) + excess
      BY <1>1, <1>2, <2>5, <2>8, <2>10
    <3> HIDE DEF A, B
    <3>4. IsFiniteSet(B) /\ Cardinality(B) = Cardinality(A) + 1
      BY <3>2, FS_AddElement
    <3>5. paid'[agent] <= Cardinality(B) + excess'
      BY <1>1, <3>2, <3>3, <3>4
    <3> QED  BY <3>4, <3>5 DEF B
  <2>11. CASE p \notin Asked /\ agent # ag
    <3>1. AskedBy(agent)' = AskedBy(agent)
      BY <2>5, <2>6, <2>11 DEF AskedBy
    <3>2. paid'[agent] = paid[agent] /\ excess' = excess
      BY <1>1, <2>5, <2>8, <2>11
    <3> QED  BY <1>2, <3>1, <3>2
  <2> QED  BY <2>9, <2>10, <2>11
<1>9. ASSUME NEW r \in Pass, Stop(r), pass[r].pc = "keep"
      PROVE  Bought'
  <2>1. /\ pass' = [pass EXCEPT ![r] = Over] /\ Over \in PassRec /\ Over.pc # "keep"
        /\ answers' = answers /\ paid' = paid /\ excess' = excess + 1
    BY <1>9, EndsAre DEF Stop, shared
  <2>2. PICK p : p = pass[r].prompt
    OBVIOUS
  <2>3. Asked' \subseteq Asked /\ Asked \ {p} \subseteq Asked'
    <3>1. AskedOf(pass[r]) \subseteq {p} /\ AskedOf(Over) = {}
      BY <2>1, <2>2 DEF AskedOf
    <3>2. PICK s : Asked' = s \cup AskedOf(Over) /\ (answers' = answers => s = AskedBut(r))
      BY <2>1, AskedMoves
    <3>3. Asked = AskedBut(r) \cup AskedOf(pass[r])
      BY AskedIs
    <3> QED  BY <2>1, <3>1, <3>2, <3>3
  <2> SUFFICES ASSUME NEW agent \in Agent
               PROVE  IsFiniteSet(AskedBy(agent)') /\ paid'[agent] <= Cardinality(AskedBy(agent)') + excess'
    BY DEF Bought
  <2> DEFINE A == AskedBy(agent)
             B == AskedBy(agent)'
  <2>4. B \subseteq A /\ A \ {p} \subseteq B
    BY <2>3 DEF AskedBy
  <2>5. IsFiniteSet(A) /\ Cardinality(A) \in Nat /\ paid[agent] \in Nat /\ paid[agent] <= Cardinality(A) + excess
    BY <1>2
  <2> HIDE DEF A, B
  <2>6. IsFiniteSet(B) /\ Cardinality(B) \in Nat
    BY <2>4, <2>5, FS_Subset, FS_CardinalityType
  <2>7. Cardinality(A \ {p}) >= Cardinality(A) - 1 /\ Cardinality(A \ {p}) \in Nat
    <3>1. Cardinality(A \ {p}) = IF p \in A THEN Cardinality(A) - 1 ELSE Cardinality(A)
      BY <2>5, FS_RemoveElement
    <3>2. IsFiniteSet(A \ {p})
      BY <2>5, FS_RemoveElement
    <3> QED  BY <2>5, <3>1, <3>2, FS_CardinalityType
  <2>8. Cardinality(A \ {p}) <= Cardinality(B)
    BY <2>4, <2>6, FS_Subset
  <2>9. paid'[agent] <= Cardinality(B) + excess'
    BY <1>1, <2>1, <2>5, <2>6, <2>7, <2>8
  <2> QED  BY <2>6, <2>9 DEF B
<1> QED  BY <1>4, <1>5, <1>6, <1>7, <1>8, <1>9, StepsAreOf DEF PassStep
-----------------------------------------------------------------------------
(* A pass alone *)

\* The one pass that runs goes on, or ends with a row of its own.
LEMMA OneMoves ==
  ASSUME CompanyResearchAssumption, Shape, OnePass, NEW r \in Pass, NEW y \in PassRec, pass' = [pass EXCEPT ![r] = y],
         Active(r), mixed' = mixed, Walks(y),
         ~mixed => /\ y.at > A1At => row'.profile = y.known[1]
                   /\ y.at > A2At => row'.intel = y.known[2]
                   /\ y.pc \in {"unbegun", "over"} => row'.class = <<row'.profile, row'.intel>>
  PROVE  OnePass'
<1> SUFFICES ASSUME ~mixed
             PROVE  /\ \A p, o \in Pass : Active(p)' /\ Active(o)' => p = o
                    /\ \A p \in Pass : /\ pass'[p].at > A1At => row'.profile = pass'[p].known[1]
                                       /\ pass'[p].at > A2At => row'.intel = pass'[p].known[2]
                    /\ (\A p \in Pass : ~Active(p)') => row'.class = <<row'.profile, row'.intel>>
  BY DEF OnePass
<1>1. pass'[r] = y /\ \A o \in Pass \ {r} : pass'[o] = pass[o]
  BY DEF Shape
<1>2. \A o \in Pass \ {r} : ~Active(o) /\ ~Active(o)'
  BY <1>1 DEF OnePass, Active
<1>3. \A o \in Pass \ {r} : pass'[o].at = 0
  BY <1>1, <1>2, PassIs DEF Walks, Active
<1>4. A1At \in Nat /\ A2At \in Nat /\ 2 < A1At /\ A1At < A2At
  BY PlanIs
<1>5. \A p, o \in Pass : Active(p)' /\ Active(o)' => p = o
  BY <1>2
<1>6. \A p \in Pass : /\ pass'[p].at > A1At => row'.profile = pass'[p].known[1]
                      /\ pass'[p].at > A2At => row'.intel = pass'[p].known[2]
  <2> TAKE p \in Pass
  <2>1. CASE p = r
    BY <1>1, <2>1
  <2>2. CASE p # r
    BY <1>3, <1>4, <2>2
  <2> QED  BY <2>1, <2>2
<1>7. (\A p \in Pass : ~Active(p)') => row'.class = <<row'.profile, row'.intel>>
  BY <1>1 DEF Active
<1> QED  BY <1>5, <1>6, <1>7

LEMMA OneStep ==
  ASSUME CompanyResearchAssumption, Shape, OnePass, [Next]_vars
  PROVE  OnePass'
<1>1. /\ pass \in [Pass -> PassRec] /\ \A r \in Pass : Walks(pass[r])
      /\ row \in [profile : Nat, intel : Nat, class : Nat \X Nat, ats : AtsKind]
      /\ answers \subseteq AnswerRec
  BY DEF Shape, AnswerRec
<1>2. /\ A1At \in Nat /\ A2At \in Nat /\ LastAt \in Nat /\ 2 < A1At /\ A1At < A2At /\ A2At < LastAt
      /\ Plan[A1At].do = "ask" /\ Plan[A2At].do = "ask" /\ Plan[LastAt].do = "ask"
  BY PlanIs
<1>3. \A r \in Pass : ~mixed => /\ pass[r].at > A1At => row.profile = pass[r].known[1]
                                /\ pass[r].at > A2At => row.intel = pass[r].known[2]
  BY DEF OnePass
<1>4. CASE UNCHANGED vars
  BY <1>4 DEF vars, shared, history, OnePass, Active
<1>5. ASSUME NEW u \in Page, Expire(u)
      PROVE  OnePass'
  BY <1>5 DEF Expire, OnePass, Active
<1>6. ASSUME NEW r \in Pass, Stop(r)
      PROVE  OnePass'
  BY <1>6 DEF Stop, OnePass
<1>7. ASSUME NEW r \in Pass, Start(r)
      PROVE  OnePass'
  <2>1. /\ pass' = [pass EXCEPT ![r] = Begun] /\ Begun.pc = "go" /\ Begun.at = 1
        /\ mixed' = \E o \in Pass : Active(o)
    BY <1>7, StartIs, EndsAre
  <2>2. pass'[r] = Begun /\ \A o \in Pass \ {r} : pass'[o] = pass[o]
    BY <1>1, <2>1
  <2> SUFFICES ASSUME ~mixed'
               PROVE  /\ \A p, o \in Pass : Active(p)' /\ Active(o)' => p = o
                      /\ \A p \in Pass : /\ pass'[p].at > A1At => row'.profile = pass'[p].known[1]
                                         /\ pass'[p].at > A2At => row'.intel = pass'[p].known[2]
                      /\ (\A p \in Pass : ~Active(p)') => row'.class = <<row'.profile, row'.intel>>
    BY DEF OnePass
  <2>3. \A o \in Pass \ {r} : ~Active(o) /\ ~Active(o)'
    BY <2>1, <2>2 DEF Active
  <2>4. \A o \in Pass \ {r} : pass'[o].at = 0
    BY <1>1, <2>2, <2>3 DEF Walks, Active
  <2>5. \A p \in Pass : ~(pass'[p].at > A1At) /\ ~(pass'[p].at > A2At)
    <3> TAKE p \in Pass
    <3>1. pass'[p].at \in {0, 1}
      BY <2>1, <2>2, <2>4
    <3> QED  BY <1>2, <3>1
  <2>6. Active(r)'
    BY <2>1, <2>2 DEF Active
  <2> QED  BY <2>3, <2>5, <2>6
<1>8. ASSUME NEW r \in Pass, Walked(r)
      PROVE  OnePass'
  <2>1. PICK y \in PassRec :
          /\ pass' = [pass EXCEPT ![r] = y] /\ Walks(y) /\ y.pc \in Walking /\ y.known = pass[r].known
          /\ y.at >= pass[r].at /\ \A i \in {A1At, A2At} : pass[r].at < i => y.at <= i
    BY <1>8 DEF Walked
  <2>2. /\ Active(r) /\ y.pc \notin {"unbegun", "over"} /\ mixed' = mixed
        /\ row'.profile = row.profile /\ row'.intel = row.intel
        /\ pass[r].at \in 1..LastAt /\ pass[r].at # A1At /\ pass[r].at # A2At
    BY <1>2, <1>8, <2>1 DEF Walked, Walking, Active, Do, Asks
  <2>3. (y.at > A1At => pass[r].at > A1At) /\ (y.at > A2At => pass[r].at > A2At)
    <3>1. y.at \in Nat /\ pass[r].at \in Nat
      BY <2>2 DEF PassRec
    <3>2. (pass[r].at < A1At => y.at <= A1At) /\ (pass[r].at < A2At => y.at <= A2At)
      BY <2>1
    <3>3. A1At \in Nat /\ A2At \in Nat
      BY <1>2
    <3> DEFINE i == y.at
               k == pass[r].at
    <3>4. i \in Nat /\ k \in Nat /\ k # A1At /\ k # A2At /\ (k < A1At => i <= A1At) /\ (k < A2At => i <= A2At)
      BY <2>2, <3>1, <3>2
    <3>5. (i > A1At => k > A1At) /\ (i > A2At => k > A2At)
      <4> HIDE DEF i, k
      <4> QED  BY <3>3, <3>4
    <3> QED  BY <3>5
  <2> QED  BY <1>3, <2>1, <2>2, <2>3, OneMoves
\* The pass is given an answer.
<1>9. ASSUME NEW r \in Pass, NEW a, Gets(r, a), pass[r].at \in 1..LastAt, Do(r) \in Asks, Active(r),
             row' = row, mixed' = mixed
      PROVE  OnePass'
  <2>1. pass[r] \in PassRec /\ Plan[pass[r].at].do \in Asks /\ a \in AnswerRec /\ a.prompt[1] = Plan[pass[r].at].on
    BY <1>1, <1>9 DEF Gets, On, Do
  <2>2. PICK x \in PassRec : x = pass[r]
    BY <2>1
  <2>3. x.at \in 1..LastAt /\ Plan[x.at].do \in Asks /\ a.prompt[1] = Plan[x.at].on /\ x.at \in Nat
    BY <1>9, <2>1, <2>2
  <2>4. PICK y \in PassRec : y = Given(x, a) /\ Walks(y)
    BY <2>1, <2>3, GivenIs
  <2>5. pass' = [pass EXCEPT ![r] = y]
    BY <1>9, <2>2, <2>4 DEF Gets
  <2>6. /\ a.prompt[1] = "A1" => x.at = A1At /\ y.at = A1At
        /\ a.prompt[1] = "A2" => x.at = A2At /\ y.at = A2At
        /\ a.prompt[1] = "A3" => x.at \notin {A1At, A2At, LastAt}
        /\ a.prompt[1] = "A4" => x.at = LastAt /\ y.at = LastAt
        /\ a.prompt[1] \in Agent
    BY <2>1, <2>3, <2>4, AnswerPlace
  <2>7. /\ y.pc \in {"column", "go"} /\ y.at \in Nat
        /\ a.prompt[1] = "A2" => y.known = <<x.known[1], a.no>>
        /\ a.prompt[1] = "A4" => y.known = x.known
        /\ a.prompt[1] = "A3" => /\ y.known = x.known
                                 /\ x.at < A1At => y.at <= A1At
                                 /\ x.at < A2At => y.at <= A2At
    <3>1. /\ y.pc \in {"column", "go"}
          /\ a.prompt[1] = "A2" => y.known = <<x.known[1], a.no>>
          /\ a.prompt[1] = "A4" => y.known = x.known
          /\ a.prompt[1] = "A3" => y.known = x.known /\ \A i \in {A1At, A2At} : x.at < i => y.at <= i
      BY <2>1, <2>3, <2>4, GivenIs
    <3> QED  BY <3>1 DEF PassRec
  <2>8. ~mixed => /\ y.at > A1At => row.profile = y.known[1]
                  /\ y.at > A2At => row.intel = y.known[2]
    <3>1. ~mixed => /\ x.at > A1At => row.profile = x.known[1]
                    /\ x.at > A2At => row.intel = x.known[2]
      BY <1>3, <2>2
    <3>2. CASE a.prompt[1] = "A1"
      BY <1>2, <2>6, <3>2
    <3>3. CASE a.prompt[1] = "A2"
      <4>1. x.at > A1At /\ ~(y.at > A2At) /\ y.known[1] = x.known[1]
        BY <1>2, <2>6, <2>7, <3>3
      <4> QED  BY <3>1, <4>1
    <3>4. CASE a.prompt[1] = "A3"
      <4> DEFINE k == x.at
                 n == y.at
      <4>1. k \in Nat /\ n \in Nat /\ k # A1At /\ k # A2At /\ (k < A1At => n <= A1At) /\ (k < A2At => n <= A2At)
        BY <2>3, <2>6, <2>7, <3>4
      <4>2. A1At \in Nat /\ A2At \in Nat
        BY <1>2
      <4>3. (n > A1At => k > A1At) /\ (n > A2At => k > A2At)
        <5> HIDE DEF k, n
        <5> QED  BY <4>1, <4>2
      <4>4. (y.at > A1At => x.at > A1At) /\ (y.at > A2At => x.at > A2At)
        BY <4>3
      <4> HIDE DEF k, n
      <4> QED  BY <2>7, <3>1, <3>4, <4>4
    <3>5. CASE a.prompt[1] = "A4"
      <4>1. x.at > A1At /\ x.at > A2At
        BY <1>2, <2>6, <3>5
      <4> QED  BY <2>7, <3>1, <3>5, <4>1
    <3> QED  BY <2>6, <3>2, <3>3, <3>4, <3>5 DEF Agent
  <2>9. y.pc \notin {"unbegun", "over"}
    BY <2>7
  <2> QED  BY <1>9, <2>4, <2>5, <2>8, <2>9, OneMoves
\* The pass stays where it is.
<1>10. ASSUME NEW r \in Pass, NEW y \in PassRec, pass' = [pass EXCEPT ![r] = y], Walks(y), Active(r),
              y.pc \notin {"unbegun", "over"}, y.at = pass[r].at, y.known = pass[r].known, row' = row, mixed' = mixed
       PROVE  OnePass'
  BY <1>3, <1>10, OneMoves
<1>11. ASSUME NEW r \in Pass, Lookup(r)
       PROVE  OnePass'
  <2>1. pass[r].pc = "go" /\ pass[r].at \in 1..LastAt /\ Do(r) \in Asks /\ UNCHANGED <<shared, history>>
    BY <1>11, LookupIs
  <2>2. Active(r) /\ row' = row /\ mixed' = mixed
    BY <2>1 DEF shared, history, Active
  <2>3. ASSUME NEW y \in PassRec, pass' = [pass EXCEPT ![r] = y], Walks(y), y.pc = "model", y.at = pass[r].at,
               y.known = pass[r].known
        PROVE  OnePass'
    BY <1>10, <2>2, <2>3
  <2>4. ASSUME NEW a, Gets(r, a)
        PROVE  OnePass'
    BY <1>9, <2>1, <2>2, <2>4
  <2> QED  BY <1>11, <2>3, <2>4, LookupIs
<1>12. ASSUME NEW r \in Pass, Answer(r)
       PROVE  OnePass'
  <2>1. PICK y \in PassRec :
          /\ pass' = [pass EXCEPT ![r] = y] /\ Walks(y) /\ y.pc = "keep"
          /\ y.at = pass[r].at /\ y.known = pass[r].known
    BY <1>12, AnswerIs
  <2>2. pass[r].pc = "model" /\ UNCHANGED <<shared, fetched, excused, expired, mixed>>
    BY <1>12, AnswerIs
  <2> QED  BY <1>10, <2>1, <2>2 DEF shared, Active
<1>13. ASSUME NEW r \in Pass, Keep(r)
       PROVE  OnePass'
  <2>1. /\ Gets(r, Kept(r)) /\ UNCHANGED <<file, evidence, row, jobs, history>>
        /\ pass[r].at \in 1..LastAt /\ Do(r) \in Asks /\ pass[r].pc = "keep"
    BY <1>13, KeepIs
  <2> QED  BY <1>9, <2>1 DEF history, Active
<1>14. ASSUME NEW r \in Pass, Column(r)
       PROVE  OnePass'
  <2>1. /\ pass' = [pass EXCEPT ![r] = Onward(pass[r], {})] /\ pass[r].at \in 1..LastAt /\ pass[r] \in PassRec
        /\ pass[r].pc = "column" /\ pass[r].at \in {A1At, A2At, LastAt}
        /\ pass[r].at = A1At => row' = [row EXCEPT !.profile = pass[r].known[1]]
        /\ pass[r].at = A2At => row' = [row EXCEPT !.intel = pass[r].known[2]]
        /\ pass[r].at = LastAt => row' = [row EXCEPT !.class = pass[r].known]
        /\ UNCHANGED <<file, evidence, answers, jobs, history>>
    BY <1>1, <1>14, ColumnIs
  <2>2. PICK x \in PassRec : x = pass[r]
    BY <2>1
  <2>3. x.at \in 1..LastAt /\ x.at \in Nat /\ x.at \in {A1At, A2At, LastAt}
    BY <2>1, <2>2
  <2>4. PICK y \in PassRec : y = Onward(x, {}) /\ Walks(y)
    BY <2>3, OnwardIs
  <2>5. /\ y = Over => x.at = LastAt
        /\ y # Over => y.pc = "go" /\ y.at > x.at /\ y.known = x.known
        /\ x.at < A2At => y.at <= A2At
        /\ y.at \in Nat
    <3>1. /\ y = Over \/ (y.pc = "go" /\ y.at > x.at /\ y.known = x.known)
          /\ y = Over => x.at = LastAt
          /\ \A i \in {A1At, A2At} : x.at < i => y.at <= i
      BY <2>3, <2>4, OnwardIs
    <3>2. y.at \in Nat
      BY DEF PassRec
    <3> QED  BY <3>1, <3>2
  <2>6. y = Over => y.pc = "over" /\ y.at = 0
    BY EndsAre
  <2>7. x.known \in Nat \X Nat /\ x.known = <<x.known[1], x.known[2]>> /\ x.known[1] \in Nat /\ x.known[2] \in Nat
    BY DEF PassRec
  <2>8. ~mixed => /\ x.at > A1At => row.profile = x.known[1]
                  /\ x.at > A2At => row.intel = x.known[2]
    BY <1>3, <2>2
  <2>9. ~mixed => /\ y.at > A1At => row'.profile = y.known[1]
                  /\ y.at > A2At => row'.intel = y.known[2]
                  /\ y.pc \in {"unbegun", "over"} => row'.class = <<row'.profile, row'.intel>>
    <3>1. CASE x.at = A1At
      <4>1. row' = [row EXCEPT !.profile = x.known[1]]
        BY <2>1, <2>2, <3>1
      <4>2. y.pc = "go" /\ y.known = x.known /\ ~(y.at > A2At)
        BY <1>2, <2>5, <3>1
      <4> QED  BY <1>1, <4>1, <4>2
    <3>2. CASE x.at = A2At
      <4>1. row' = [row EXCEPT !.intel = x.known[2]]
        BY <2>1, <2>2, <3>2
      <4>2. y.pc = "go" /\ y.known = x.known /\ x.at > A1At
        BY <1>2, <2>5, <3>2
      <4> QED  BY <1>1, <2>8, <4>1, <4>2
    <3>3. CASE x.at = LastAt
      <4>1. row' = [row EXCEPT !.class = x.known]
        BY <2>1, <2>2, <3>3
      <4>2. x.at > A1At /\ x.at > A2At
        BY <1>2, <3>3
      <4>3. row'.profile = row.profile /\ row'.intel = row.intel /\ row'.class = x.known
        BY <1>1, <4>1
      <4>4. ~mixed => row.profile = x.known[1] /\ row.intel = x.known[2]
        BY <2>8, <4>2
      <4>5. CASE y = Over
        <5>1. ~(y.at > A1At) /\ ~(y.at > A2At)
          BY <1>2, <2>6, <4>5
        <5> QED  BY <2>7, <4>3, <4>4, <5>1
      <4>6. CASE y # Over
        <5>1. y.pc = "go" /\ y.known = x.known
          BY <2>5, <4>6
        <5> QED  BY <4>3, <4>4, <5>1
      <4> QED  BY <4>5, <4>6
    <3> QED  BY <2>3, <3>1, <3>2, <3>3
  <2>10. Active(r) /\ mixed' = mixed /\ pass' = [pass EXCEPT ![r] = y]
    BY <2>1, <2>2, <2>4 DEF Active, history
  <2> QED  BY <2>4, <2>9, <2>10, OneMoves
<1> QED  BY <1>4, <1>5, <1>6, <1>7, <1>8, <1>11, <1>12, <1>13, <1>14, StepsAreOf DEF PassStep

-----------------------------------------------------------------------------
(* The invariant *)

Inv == Shape /\ Numbers /\ FetchInv /\ PromptsMade /\ OwnNumbers /\ Bought /\ OnePass

LEMMA InitInv == CompanyResearchAssumption /\ Init => Inv
<1> SUFFICES ASSUME CompanyResearchAssumption, Init
             PROVE  Inv
  OBVIOUS
<1>1. Shape
  BY InitShape
<1>2. \A r \in Pass : pass[r] = Unbegun /\ pass[r].pc = "unbegun" /\ pass[r].at = 0 /\ pass[r].known = <<0, 0>> /\ pass[r].list = {}
  BY EndsAre DEF Init
<1>3. A1At \in Nat /\ A2At \in Nat /\ 2 < A1At /\ A1At < A2At
  BY PlanIs
<1>4. \A a \in Agent : paid[a] = 0
  BY DEF Init
<1>5. Numbers
  <2>1. paid["A1"] = 0 /\ paid["A2"] = 0
    BY <1>4 DEF Agent
  <2> QED  BY <1>2, <2>1 DEF Init, Numbers, HoldsBelow, Below, ReadBelow
<1>6. FetchInv
  <2>1. ASSUME NEW u \in Page
        PROVE  FetchAt(u)
    <3>1. Holders(u, {"http"}) = {} /\ Holders(u, Fetching) = {}
      BY <1>2 DEF Holders, Fetching
    <3>2. Available(u)
      BY <3>1 DEF Init, Available
    <3>3. fetched[u] = 0 /\ excused[u] = 0 /\ expired = 0
      BY DEF Init
    <3>4. Cardinality(Holders(u, {"http"})) = 0
      BY <3>1, FS_EmptySet
    <3> QED  BY <3>2, <3>3, <3>4 DEF FetchAt
  <2> QED  BY <1>2, <2>1 DEF FetchInv
<1>7. PromptsMade
  <2>1. \A r \in Pass : ~Reached(pass[r], A2At)
    BY <1>2, <1>3 DEF Reached
  <2> QED  BY <1>2, <2>1 DEF Init, PromptsMade
<1>8. OwnNumbers
  BY <1>2 DEF Init, OwnNumbers
<1>9. Bought
  <2>1. Asked = {}
    BY <1>2 DEF Init, Asked
  <2>2. \A agent \in Agent : AskedBy(agent) = {}
    BY <2>1 DEF AskedBy
  <2>3. excess = 0
    BY DEF Init
  <2>4. IsFiniteSet({}) /\ Cardinality({}) = 0
    BY FS_EmptySet
  <2>5. \A agent \in Agent : IsFiniteSet(AskedBy(agent)) /\ Cardinality(AskedBy(agent)) = 0
    BY <2>2, <2>4
  <2> QED  BY <1>4, <2>3, <2>5 DEF Bought
<1>10. OnePass
  <2>1. \A r \in Pass : ~Active(r) /\ ~(pass[r].at > A1At) /\ ~(pass[r].at > A2At)
    BY <1>2, <1>3 DEF Active
  <2> QED  BY <2>1 DEF Init, OnePass
<1> QED  BY <1>1, <1>5, <1>6, <1>7, <1>8, <1>9, <1>10 DEF Inv

LEMMA InvStep == CompanyResearchAssumption /\ Inv /\ [Next]_vars => Inv'
<1> SUFFICES ASSUME CompanyResearchAssumption, Inv, [Next]_vars
             PROVE  Inv'
  OBVIOUS
<1>1. Shape /\ Numbers /\ FetchInv /\ PromptsMade /\ OwnNumbers /\ Bought /\ OnePass
  BY DEF Inv
<1>2. Shape'
  BY <1>1, ShapeStep
<1>3. Numbers' /\ FetchInv'
  BY <1>1, NumbersStep, FetchStep
<1>4. PromptsMade'
  BY <1>1, <1>2, PromptsStep
<1>5. OwnNumbers' /\ Bought' /\ OnePass'
  BY <1>1, OwnStep, BoughtStep, OneStep
<1> QED  BY <1>2, <1>3, <1>4, <1>5 DEF Inv

LEMMA Invariance == Spec => []Inv
<1>1. Init => Inv
  BY InitInv, CompanyResearchAssumption
<1>2. Inv /\ [Next]_vars => Inv'
  BY InvStep, CompanyResearchAssumption
<1> QED  BY <1>1, <1>2, PTL DEF Spec

-----------------------------------------------------------------------------
(* What follows *)

\* There are n numbers up to n.
LEMMA Counting ==
  ASSUME NEW n \in Nat
  PROVE  IsFiniteSet(1..n) /\ Cardinality(1..n) = n
<1>1. Cardinality(1..n) = IF 1 > n THEN 0 ELSE n - 1 + 1
  BY FS_Interval
<1> QED  BY <1>1, FS_Interval

LEMMA InvTypes == CompanyResearchAssumption /\ Inv => TypeOK
<1> SUFFICES ASSUME CompanyResearchAssumption, Inv
             PROVE  TypeOK
  OBVIOUS
<1>1. Shape /\ Numbers
  BY DEF Inv
<1>2. paid["A1"] \in Nat /\ paid["A2"] \in Nat /\ paid["A3"] \in Nat
  BY <1>1 DEF Shape, Agent
<1>3. \A k \in Nat \X Nat : Below(k) => k \in (0..paid["A1"]) \X (0..paid["A2"])
  <2> TAKE k \in Nat \X Nat
  <2> HAVE Below(k)
  <2>1. k = <<k[1], k[2]>> /\ k[1] \in Nat /\ k[2] \in Nat /\ k[1] <= paid["A1"] /\ k[2] <= paid["A2"]
    BY DEF Below
  <2>2. k[1] \in 0..paid["A1"] /\ k[2] \in 0..paid["A2"]
    BY <1>2, <2>1
  <2> QED  BY <2>1, <2>2
<1>4. ASSUME NEW r \in Pass
      PROVE  /\ pass[r].at \in IF Active(r) THEN DOMAIN Plan ELSE {0}
             /\ pass[r].ats \in ToSet(Boards) \cup {"none"}
             /\ pass[r].known \in (0..paid["A1"]) \X (0..paid["A2"])
  <2>1. pass[r] \in PassRec /\ Walks(pass[r]) /\ Below(pass[r].known)
    BY <1>1 DEF Shape, Numbers, HoldsBelow
  <2>2. pass[r].at \in IF Active(r) THEN DOMAIN Plan ELSE {0}
    BY <2>1, PlanSteps DEF Walks, Active
  <2>3. pass[r].ats \in ToSet(Boards) \cup {"none"} /\ pass[r].known \in Nat \X Nat
    BY <2>1 DEF PassRec, AtsKind
  <2> QED  BY <1>3, <2>1, <2>2, <2>3
<1>5. row.class \in (0..paid["A1"]) \X (0..paid["A2"])
  <2>1. row.class \in Nat \X Nat /\ Below(row.class)
    BY <1>1 DEF Shape, Numbers
  <2> QED  BY <1>3, <2>1
<1>6. jobs \subseteq ({"read"} \X (1..paid["A3"]) \X JobNo) \cup ({"board"} \X ToSet(Boards) \X JobNo)
  <2> SUFFICES ASSUME NEW j \in jobs
               PROVE  j \in ({"read"} \X (1..paid["A3"]) \X JobNo) \cup ({"board"} \X ToSet(Boards) \X JobNo)
    OBVIOUS
  <2>1. j \in Posting /\ (j[1] = "read" => j[2] \in 1..paid["A3"])
    BY <1>1 DEF Shape, Numbers, ReadBelow
  <2> QED  BY <2>1 DEF Posting
<1> QED  BY <1>1, <1>4, <1>5, <1>6 DEF Shape, TypeOK

LEMMA InvFetches == CompanyResearchAssumption /\ Inv => OneFetchPerPage
<1> SUFFICES ASSUME CompanyResearchAssumption, Inv, NEW u \in Page
             PROVE  fetched[u] <= 1 + expired + excused[u]
  BY DEF OneFetchPerPage
<1>1. fetched[u] + Cardinality(Holders(u, {"http"})) + (IF Available(u) THEN 1 ELSE 0) <= 1 + expired + excused[u]
  BY DEF Inv, FetchInv, FetchAt
<1>2. fetched[u] \in Nat /\ excused[u] \in Nat /\ expired \in Nat
  BY DEF Inv, Shape
<1>3. Cardinality(Holders(u, {"http"})) \in Nat
  <2>1. Holders(u, {"http"}) \subseteq Pass /\ IsFiniteSet(Pass)
    BY DEF Holders, CompanyResearchAssumption
  <2> QED  BY <2>1, FS_Subset, FS_CardinalityType
<1> DEFINE n == Cardinality(Holders(u, {"http"}))
           k == IF Available(u) THEN 1 ELSE 0
           f == fetched[u]
           e == excused[u]
<1>4. n \in Nat /\ k \in Nat /\ f \in Nat /\ e \in Nat /\ f + n + k <= 1 + expired + e
  BY <1>1, <1>2, <1>3
<1>5. f <= 1 + expired + e
  <2> HIDE DEF n, k, f, e
  <2> QED  BY <1>2, <1>4
<1> QED  BY <1>5

LEMMA InvRow == Inv => RowIsOfOnePass
BY DEF Inv, OnePass, RowIsOfOnePass

\* What is asked is a prompt made of what there is.
LEMMA AskedMade ==
  ASSUME CompanyResearchAssumption, Shape, PromptsMade, NEW p \in Asked
  PROVE  p[1] \in Agent /\ p \in PromptsOf(p[1])
<1>1. CASE \E a \in answers : a.prompt = p
  BY <1>1, AgentOf DEF PromptsMade, Shape
<1>2. CASE \E r \in Pass : pass[r].pc = "keep" /\ pass[r].prompt = p
  <2>1. PICK r \in Pass : pass[r].pc = "keep" /\ pass[r].prompt = p
    BY <1>2
  <2>2. pass[r].prompt \in Prompts /\ pass[r].prompt[1] = On(r)
    BY <2>1, PassIs DEF Walks, On
  <2>3. pass[r].prompt \in PromptsOf(On(r))
    BY <2>1 DEF PromptsMade
  <2> QED  BY <2>1, <2>2, <2>3, AgentOf
<1> QED  BY <1>1, <1>2 DEF Asked

\* A page of jobs is asked for once, whatever its name.
LEMMA InvReadings == CompanyResearchAssumption /\ Inv => OneReadingOfJobs
<1> SUFFICES ASSUME CompanyResearchAssumption, Inv
             PROVE  OneReadingOfJobs
  OBVIOUS
<1>1. Shape /\ Numbers /\ PromptsMade /\ Bought
  BY DEF Inv
<1>2. paid["A3"] \in Nat /\ excess \in Nat
  BY <1>1 DEF Shape, Agent
<1> DEFINE R == {j[2] : j \in {i \in jobs : i[1] = "read"}}
           A == AskedBy("A3")
<1>3. R \subseteq 1..paid["A3"]
  BY <1>1 DEF Numbers, ReadBelow
<1>4. IsFiniteSet(1..paid["A3"]) /\ Cardinality(1..paid["A3"]) = paid["A3"]
  BY <1>2, Counting
<1>5. IsFiniteSet(A) /\ paid["A3"] <= Cardinality(A) + excess
  BY <1>1 DEF Bought, Agent
<1>6. A \subseteq {<<"A3", TextOf[u]>> : u \in Named}
  <2>1. \A p \in A : p \in PromptsOf("A3")
    BY <1>1, AskedMade DEF AskedBy
  <2> QED  BY <2>1 DEF PromptsOf
<1>7. IsFiniteSet(Named) /\ Cardinality(Named) <= 1 + Cardinality(Elsewhere) /\ Cardinality(Elsewhere) \in Nat
      /\ Cardinality(Named) \in Nat
  <2>1. IsFiniteSet(Elsewhere) /\ Named = Elsewhere \cup {Careers[1]}
    BY DEF CompanyResearchAssumption, Named
  <2>2. /\ IsFiniteSet(Named) /\ Cardinality(Elsewhere) \in Nat
        /\ Cardinality(Named) = IF Careers[1] \in Elsewhere THEN Cardinality(Elsewhere) ELSE Cardinality(Elsewhere) + 1
    BY <2>1, FS_AddElement, FS_CardinalityType
  <2> QED  BY <2>2, FS_CardinalityType
<1>8. Cardinality(A) <= Cardinality(Named)
  <2> DEFINE T == {<<"A3", TextOf[u]>> : u \in Named}
             f == [u \in Named |-> <<"A3", TextOf[u]>>]
  <2>1. f \in Surjection(Named, T)
    BY DEF Surjection
  <2> HIDE DEF f
  <2>2. IsFiniteSet(T) /\ Cardinality(T) <= Cardinality(Named)
    BY <1>7, <2>1, FS_Surjection
  <2> HIDE DEF T
  <2>3. Cardinality(A) <= Cardinality(T)
    BY <1>6, <2>2, FS_Subset DEF T
  <2>4. Cardinality(A) \in Nat /\ Cardinality(T) \in Nat
    BY <1>5, <2>2, FS_CardinalityType
  <2> QED  BY <1>7, <2>2, <2>3, <2>4
<1>9. Cardinality(R) <= paid["A3"] /\ Cardinality(R) \in Nat /\ Cardinality(A) \in Nat
  <2> HIDE DEF R, A
  <2>1. IsFiniteSet(R) /\ Cardinality(R) <= Cardinality(1..paid["A3"])
    BY <1>3, <1>4, FS_Subset
  <2> QED  BY <1>4, <1>5, <2>1, FS_CardinalityType
<1> HIDE DEF R, A
<1>10. Cardinality(R) <= 1 + Cardinality(Elsewhere) + excess
  BY <1>2, <1>5, <1>7, <1>8, <1>9
<1> QED  BY <1>10 DEF R, OneReadingOfJobs

\* The newest of the evidence, as a set, tells when it was the newest.
LEMMA WindowsDiffer ==
  ASSUME CompanyResearchAssumption, evidence \in Seq(Texts), IsInjective(evidence),
         NEW n \in 0..Len(evidence), NEW m \in 0..Len(evidence), ToSet(Window(n)) = ToSet(Window(m))
  PROVE  Window(n) = Window(m)
<1>1. PromptItems \in Nat /\ Len(evidence) \in Nat /\ DOMAIN evidence = 1..Len(evidence)
  BY DEF CompanyResearchAssumption
<1>2. CASE PromptItems = 0
  BY <1>1, <1>2 DEF Window
<1>3. CASE PromptItems # 0
  \* What is the newest at k is not among the newest at an earlier i.
  <2>1. ASSUME NEW k \in 0..Len(evidence), NEW i \in 0..Len(evidence), i < k
        PROVE  evidence[k] \in ToSet(Window(k)) /\ evidence[k] \notin ToSet(Window(i))
    <3> DEFINE l == IF k < PromptItems THEN k ELSE PromptItems
               j == IF i < PromptItems THEN i ELSE PromptItems
    <3>1. k \in Nat /\ i \in Nat /\ l \in Nat /\ 1 <= l /\ j \in Nat /\ j <= i
      BY <1>1, <1>3, <2>1
    <3>2. Window(k) = [x \in 1..l |-> evidence[k - x + 1]] /\ Window(i) = [x \in 1..j |-> evidence[i - x + 1]]
      BY DEF Window
    <3> HIDE DEF l, j
    <3>3. DOMAIN Window(k) = 1..l /\ DOMAIN Window(i) = 1..j /\ 1 \in 1..l
      BY <3>1, <3>2
    <3>4. Window(k)[1] = evidence[k]
      BY <3>1, <3>2, <3>3
    <3>5. evidence[k] \in ToSet(Window(k))
      BY <3>3, <3>4 DEF ToSet
    <3>6. ASSUME NEW x \in 1..j
          PROVE  Window(i)[x] # evidence[k]
      <4>1. i - x + 1 \in 1..Len(evidence) /\ k \in 1..Len(evidence) /\ i - x + 1 # k
        BY <1>1, <2>1, <3>1
      <4>2. Window(i)[x] = evidence[i - x + 1]
        BY <3>2
      <4> QED  BY <1>1, <4>1, <4>2 DEF IsInjective
    <3>7. evidence[k] \notin ToSet(Window(i))
      BY <3>3, <3>6 DEF ToSet
    <3> QED  BY <3>5, <3>7
  <2>2. ~(n < m) /\ ~(m < n)
    BY <2>1
  <2>3. n = m
    BY <1>1, <2>2
  <2> QED  BY <2>3
<1> QED  BY <1>2, <1>3

\* A map that tells the members of a set apart has as many values.
LEMMA ImageCount ==
  ASSUME NEW S, NEW f, IsFiniteSet(S), DOMAIN f = S, f = [x \in S |-> f[x]], \A x, y \in S : f[x] = f[y] => x = y
  PROVE  Cardinality({f[x] : x \in S}) = Cardinality(S)
<1> DEFINE T == {f[x] : x \in S}
<1>1. f \in Bijection(S, T)
  BY DEF Bijection, Injection, Surjection, IsInjective
<1>2. ExistsBijection(S, T)
  <2> HIDE DEF T
  <2> QED  BY <1>1 DEF ExistsBijection
<1> HIDE DEF T
<1>3. Cardinality(T) = Cardinality(S)
  BY <1>2, FS_Bijection
<1> QED  BY <1>3 DEF T

LEMMA InvPaid == CompanyResearchAssumption /\ Inv => PaidForNewsOnly
<1> SUFFICES ASSUME CompanyResearchAssumption, Inv
             PROVE  PaidForNewsOnly
  OBVIOUS
<1>1. Shape /\ Numbers /\ PromptsMade /\ OwnNumbers /\ Bought
  BY DEF Inv
<1>2. evidence \in Seq(Texts) /\ IsInjective(evidence) /\ paid["A2"] \in Nat /\ paid["A4"] \in Nat /\ excess \in Nat
  BY <1>1 DEF Shape, Agent
<1>3. \A agent \in Agent : \A p \in AskedBy(agent) : p \in PromptsOf(agent)
  BY <1>1, AskedMade DEF AskedBy
<1>4. \A agent \in Agent : IsFiniteSet(AskedBy(agent)) /\ paid[agent] <= Cardinality(AskedBy(agent)) + excess
  BY <1>1 DEF Bought
<1>5. paid["A1"] <= Cardinality({ToSet(p[2]) : p \in {q \in Asked : q[1] = "A1"}}) + excess
  <2> DEFINE S == AskedBy("A1")
             f == [p \in S |-> ToSet(p[2])]
  <2>1. IsFiniteSet(S) /\ paid["A1"] <= Cardinality(S) + excess /\ \A p \in S : p \in PromptsOf("A1")
    BY <1>3, <1>4 DEF Agent
  <2>2. \A p, q \in S : f[p] = f[q] => p = q
    <3> TAKE p, q \in S
    <3> HAVE f[p] = f[q]
    <3>1. PICK n \in 0..Len(evidence) : p = <<"A1", Window(n)>>
      BY <2>1 DEF PromptsOf
    <3>2. PICK m \in 0..Len(evidence) : q = <<"A1", Window(m)>>
      BY <2>1 DEF PromptsOf
    <3>3. ToSet(Window(n)) = ToSet(Window(m))
      BY <3>1, <3>2
    <3>4. Window(n) = Window(m)
      BY <1>2, <3>3, WindowsDiffer
    <3> QED  BY <3>1, <3>2, <3>4
  <2>3. {f[p] : p \in S} = {ToSet(p[2]) : p \in {q \in Asked : q[1] = "A1"}}
    BY DEF AskedBy
  <2>4. DOMAIN f = S /\ f = [p \in S |-> f[p]]
    OBVIOUS
  <2> HIDE DEF f, S
  <2>5. Cardinality({f[p] : p \in S}) = Cardinality(S)
    BY <2>1, <2>2, <2>4, ImageCount
  <2> QED  BY <2>1, <2>3, <2>5
<1>6. paid["A2"] <= Cardinality({<<p[2], ToSet(p[3])>> : p \in {q \in Asked : q[1] = "A2"}}) + excess
  <2> DEFINE S == AskedBy("A2")
             f == [p \in S |-> <<p[2], ToSet(p[3])>>]
  <2>1. IsFiniteSet(S) /\ paid["A2"] <= Cardinality(S) + excess /\ \A p \in S : p \in PromptsOf("A2")
    BY <1>3, <1>4 DEF Agent
  <2>2. \A p, q \in S : f[p] = f[q] => p = q
    <3> TAKE p, q \in S
    <3> HAVE f[p] = f[q]
    <3>0. PromptsOf("A2") = {<<"A2", k, Window(n)>> : k \in 0..paid["A1"], n \in 0..Len(evidence)}
      BY DEF PromptsOf
    <3>1. PICK k \in 0..paid["A1"], n \in 0..Len(evidence) : p = <<"A2", k, Window(n)>>
      BY <2>1, <3>0
    <3>2. PICK h \in 0..paid["A1"], m \in 0..Len(evidence) : q = <<"A2", h, Window(m)>>
      BY <2>1, <3>0
    <3>3. f[p] = <<k, ToSet(Window(n))>> /\ f[q] = <<h, ToSet(Window(m))>>
      BY <3>1, <3>2
    <3>4. k = h /\ ToSet(Window(n)) = ToSet(Window(m))
      BY <3>3
    <3>5. Window(n) = Window(m)
      BY <1>2, <3>4, WindowsDiffer
    <3> QED  BY <3>1, <3>2, <3>4, <3>5
  <2>3. {f[p] : p \in S} = {<<p[2], ToSet(p[3])>> : p \in {q \in Asked : q[1] = "A2"}}
    BY DEF AskedBy
  <2>4. DOMAIN f = S /\ f = [p \in S |-> f[p]]
    OBVIOUS
  <2> HIDE DEF f, S
  <2>5. Cardinality({f[p] : p \in S}) = Cardinality(S)
    BY <2>1, <2>2, <2>4, ImageCount
  <2> QED  BY <2>1, <2>3, <2>5
<1>7. paid["A4"] <= paid["A2"] + excess
  <2> DEFINE S == AskedBy("A4")
             T == 1..paid["A2"]
             f == [p \in S |-> p[2][2]]
  <2>1. IsFiniteSet(S) /\ paid["A4"] <= Cardinality(S) + excess /\ \A p \in S : p \in PromptsOf("A4")
    BY <1>3, <1>4 DEF Agent
  <2>2. \A p \in S : \E a \in answers : a.prompt[1] = "A2" /\ p = <<"A4", <<a.prompt[2], a.no>>>>
    BY <2>1 DEF PromptsOf, Pairs
  <2>3. \A p \in S : f[p] \in T
    <3>1. \A a \in answers : a.prompt[1] = "A2" => a.no \in T
      BY <1>1 DEF Numbers
    <3> QED  BY <2>2, <3>1
  <2>4. \A p, q \in S : f[p] = f[q] => p = q
    <3> TAKE p, q \in S
    <3> HAVE f[p] = f[q]
    <3>1. PICK a \in answers : a.prompt[1] = "A2" /\ p = <<"A4", <<a.prompt[2], a.no>>>>
      BY <2>2
    <3>2. PICK b \in answers : b.prompt[1] = "A2" /\ q = <<"A4", <<b.prompt[2], b.no>>>>
      BY <2>2
    <3>3. a.no = b.no
      BY <3>1, <3>2
    <3>4. a.prompt = b.prompt
      BY <1>1, <3>1, <3>2, <3>3 DEF OwnNumbers
    <3> QED  BY <3>1, <3>2, <3>3, <3>4
  <2>5. f \in Injection(S, T)
    BY <2>3, <2>4 DEF Injection, IsInjective
  <2>6. IsFiniteSet(T) /\ Cardinality(T) = paid["A2"]
    BY <1>2, Counting
  <2> HIDE DEF f, T, S
  <2>7. Cardinality(S) <= Cardinality(T)
    BY <2>5, <2>6, FS_Injection
  <2>8. Cardinality(S) \in Nat
    BY <2>1, FS_CardinalityType
  <2> QED  BY <1>2, <2>1, <2>6, <2>7, <2>8
<1> QED  BY <1>5, <1>6, <1>7 DEF PaidForNewsOnly

-----------------------------------------------------------------------------
(* The theorems *)

\* A pass under way is at a step of the plan; it and the row know only answers
\* that were bought, and the table of jobs has only postings that were read or
\* listed; no text is twice in the evidence.
THEOREM ResearchTypesTheorem == Spec => []TypeOK
<1>1. Inv => TypeOK
  BY InvTypes, CompanyResearchAssumption
<1> QED  BY <1>1, Invariance, PTL

\* httpx_crawler.py and page_cache.py: a page is got once from the site, and once
\* more for each time it grew old, each pass that asked beside another one, and
\* each that stopped before it wrote the file.
THEOREM OneFetchTheorem == Spec => []OneFetchPerPage
<1>1. Inv => OneFetchPerPage
  BY InvFetches, CompanyResearchAssumption
<1> QED  BY <1>1, Invariance, PTL

\* complete_structured: a pass that is run again buys an answer only for what it
\* learnt: A1 for evidence of its own, A2 for evidence and a profile of its own,
\* A4 for an answer of A2.
THEOREM NewsTheorem == Spec => []PaidForNewsOnly
<1>1. Inv => PaidForNewsOnly
  BY InvPaid, CompanyResearchAssumption
<1> QED  BY <1>1, Invariance, PTL

\* a3_jobs: the jobs that the model reads off one page are numbered once, but for
\* the answers bought twice or not kept.
THEOREM ReadingTheorem == Spec => []OneReadingOfJobs
<1>1. Inv => OneReadingOfJobs
  BY InvReadings, CompanyResearchAssumption
<1> QED  BY <1>1, Invariance, PTL

\* The four UPDATEs of companies: after a pass that ran alone and to its end, the
\* class was made from the profile and the intelligence beside it.
THEOREM RowTheorem == Spec => []RowIsOfOnePass
<1> QED  BY InvRow, Invariance, PTL

-----------------------------------------------------------------------------
(* What research does to the row of the company *)

\* A pass that is past A1, or at its column, has its answer.
FirstKnown == \A r \in Pass : Reached(pass[r], A1At) => pass[r].known[1] # 0

\* The column a pass is at, by its place in the plan.
NextOf(x) ==
  IF x.pc \in {"unbegun", "over"} THEN "none"
  ELSE IF x.at <= A1At THEN "profile" ELSE IF x.at <= A2At THEN "intel" ELSE "classification"

LEMMA PlaceIs ==
  ASSUME CompanyResearchAssumption, NEW x \in PassRec
  PROVE  NextOf(x) = CASE ~(x.pc \notin {"unbegun", "over"}) -> "none"
                       [] x.pc \notin {"unbegun", "over"} /\ x.at <= Len(Discover) -> "profile"
                       [] x.pc \notin {"unbegun", "over"} /\ x.at \in Len(Discover) + 1 .. Len(Discover \o Analyze) -> "intel"
                       [] OTHER -> "classification"
<1>1. /\ Len(Discover) = A1At /\ Len(Discover \o Analyze) = A2At
      /\ A1At \in Nat /\ A2At \in Nat /\ A1At < A2At
  BY PlanIs, PartsEnd
<1>2. x.at \in Nat
  BY DEF PassRec
<1> DEFINE k == x.at
<1>3. k \in A1At + 1 .. A2At <=> ~(k <= A1At) /\ k <= A2At
  <2> HIDE DEF k
  <2>1. k \in Nat
    BY <1>2 DEF k
  <2> QED  BY <1>1, <2>1
<1> QED  BY <1>1, <1>3 DEF NextOf

LEMMA NextIs ==
  ASSUME CompanyResearchAssumption, NEW r \in Pass
  PROVE  /\ pass[r] \in PassRec => NextColumn(r) = NextOf(pass[r])
         /\ pass'[r] \in PassRec => NextColumn(r)' = NextOf(pass'[r])
BY PlaceIs DEF NextColumn, Active

\* An answer of A2 is none that nobody gave.
LEMMA SecondKnown ==
  ASSUME Shape, Numbers, PromptsMade
  PROVE  \A r \in Pass : Reached(pass[r], A2At) => pass[r].known[2] # 0
<1> SUFFICES ASSUME NEW r \in Pass, Reached(pass[r], A2At)
             PROVE  pass[r].known[2] # 0
  OBVIOUS
<1>1. pass[r].known \in Pairs
  BY DEF PromptsMade
<1>2. PICK a \in answers : a.prompt[1] = "A2" /\ pass[r].known = <<a.prompt[2], a.no>>
  BY <1>1 DEF Pairs
<1>3. a.no \in 1..paid["A2"] /\ paid["A2"] \in Nat
  BY <1>2 DEF Numbers, Shape, Agent
<1> QED  BY <1>2, <1>3

\* What a step of the pass r, which leaves it at y, does to the row.
SameColumns == row'.profile = row.profile /\ row'.intel = row.intel /\ row'.class = row.class
Fills(x, y) ==
  \/ /\ x.at = A1At /\ NextOf(y) = "intel"
     /\ row'.profile # 0 /\ row'.intel = row.intel /\ row'.class = row.class
  \/ /\ x.at = A2At /\ NextOf(y) = "classification"
     /\ row'.profile = row.profile /\ row'.intel # 0 /\ row'.class = row.class
  \/ /\ x.at = LastAt /\ NextOf(y) = "none"
     /\ row'.profile = row.profile /\ row'.intel = row.intel /\ row'.class # <<0, 0>>
Moves(x, y) ==
  \/ SameColumns /\ NextOf(y) \in {NextOf(x), "none"}
  \/ SameColumns /\ NextOf(x) = "none" /\ NextOf(y) = "profile"
  \/ NextOf(x) # "none" /\ Fills(x, y)
Taken(r) ==
  \E y \in PassRec : /\ pass' = [pass EXCEPT ![r] = y] /\ Moves(pass[r], y)
                     /\ Reached(y, A1At) => y.known[1] # 0

\* A pass that goes on as far as the next column that is asked for.
LEMMA SamePlace ==
  ASSUME CompanyResearchAssumption, NEW x \in PassRec, NEW y \in PassRec,
         x.pc \notin {"unbegun", "over"}, y.pc \notin {"unbegun", "over"},
         y.at >= x.at, \A i \in {A1At, A2At} : y.at = x.at \/ (x.at # i /\ (x.at < i => y.at <= i))
  PROVE  NextOf(y) = NextOf(x) /\ (y.at > A1At => x.at > A1At)
<1>1. A1At \in Nat /\ A2At \in Nat /\ A1At < A2At
  BY PlanIs
<1> DEFINE k == x.at
           n == y.at
<1>2. k \in Nat /\ n \in Nat
  BY DEF PassRec
<1>3. /\ n >= k /\ (n = k \/ (k # A1At /\ (k < A1At => n <= A1At)))
      /\ n = k \/ (k # A2At /\ (k < A2At => n <= A2At))
  OBVIOUS
<1> HIDE DEF k, n
<1>4. (n <= A1At <=> k <= A1At) /\ (n <= A2At <=> k <= A2At) /\ (n > A1At => k > A1At)
  BY <1>1, <1>2, <1>3
<1> QED  BY <1>4 DEF NextOf, k, n

\* The pass goes on to y without a column.
LEMMA MovesOn ==
  ASSUME CompanyResearchAssumption, Shape, FirstKnown, NEW r \in Pass, NEW y \in PassRec,
         pass' = [pass EXCEPT ![r] = y], Active(r), y.pc \notin {"unbegun", "over"}, y.at >= pass[r].at,
         \A i \in {A1At, A2At} : y.at = pass[r].at \/ (pass[r].at # i /\ (pass[r].at < i => y.at <= i)),
         SameColumns, y.pc # "column" \/ y.at # A1At, y.known[1] = pass[r].known[1]
  PROVE  Taken(r)
<1>1. pass[r] \in PassRec /\ pass[r].pc \notin {"unbegun", "over"}
  BY PassIs DEF Active
<1>2. NextOf(y) = NextOf(pass[r]) /\ (y.at > A1At => pass[r].at > A1At)
  <2>1. PICK x \in PassRec : x = pass[r]
    BY <1>1
  <2>2. /\ x.pc \notin {"unbegun", "over"} /\ y.at >= x.at
        /\ \A i \in {A1At, A2At} : y.at = x.at \/ (x.at # i /\ (x.at < i => y.at <= i))
    BY <1>1, <2>1
  <2>3. NextOf(y) = NextOf(x) /\ (y.at > A1At => x.at > A1At)
    BY <2>2, SamePlace
  <2> QED  BY <2>1, <2>3
<1>3. Moves(pass[r], y)
  BY <1>2 DEF Moves
<1>4. Reached(y, A1At) => y.known[1] # 0
  <2> SUFFICES ASSUME Reached(y, A1At)
               PROVE  y.known[1] # 0
    OBVIOUS
  <2>1. y.at > A1At
    BY DEF Reached
  <2>2. Reached(pass[r], A1At)
    BY <1>2, <2>1 DEF Reached
  <2> QED  BY <2>2 DEF FirstKnown
<1> QED  BY <1>3, <1>4 DEF Taken

\* An answer that is given has a number.
LEMMA GetsMoves ==
  ASSUME CompanyResearchAssumption, Shape, FirstKnown, NEW r \in Pass, NEW a, Gets(r, a), a.no # 0,
         pass[r].at \in 1..LastAt, Do(r) \in Asks, Active(r), row' = row
  PROVE  Taken(r)
<1>1. /\ pass[r] \in PassRec /\ Plan[pass[r].at].do \in Asks /\ a \in AnswerRec
      /\ a.prompt[1] = Plan[pass[r].at].on
  BY PassIs DEF Gets, On, Do
<1>2. PICK x \in PassRec : x = pass[r]
  BY <1>1
<1>3. x.at \in 1..LastAt /\ Plan[x.at].do \in Asks /\ a.prompt[1] = Plan[x.at].on /\ x.at \in Nat
  BY <1>1, <1>2
<1>4. PICK y \in PassRec : y = Given(x, a) /\ Walks(y)
  BY <1>1, <1>3, GivenIs
<1>5. pass' = [pass EXCEPT ![r] = y]
  BY <1>2, <1>4 DEF Gets
<1>6. /\ a.prompt[1] = "A1" => x.at = A1At /\ y.at = A1At
      /\ a.prompt[1] = "A2" => x.at = A2At /\ y.at = A2At
      /\ a.prompt[1] = "A3" => x.at \notin {A1At, A2At, LastAt}
      /\ a.prompt[1] = "A4" => x.at = LastAt /\ y.at = LastAt
      /\ a.prompt[1] \in Agent
  BY <1>1, <1>3, <1>4, AnswerPlace
<1>7. /\ y.pc \in {"column", "go"} /\ y.at \in Nat
      /\ a.prompt[1] = "A1" => y.pc = "column" /\ y.known = <<a.no, x.known[2]>>
      /\ a.prompt[1] = "A2" => y.known = <<x.known[1], a.no>>
      /\ a.prompt[1] = "A4" => y.known = x.known
      /\ a.prompt[1] = "A3" => /\ y.known = x.known /\ y.at > x.at /\ y.pc = "go"
                               /\ x.at < A1At => y.at <= A1At
                               /\ x.at < A2At => y.at <= A2At
  <2>1. /\ y.pc \in {"column", "go"}
        /\ a.prompt[1] = "A1" => y.pc = "column" /\ y.known = <<a.no, x.known[2]>>
        /\ a.prompt[1] = "A2" => y.known = <<x.known[1], a.no>>
        /\ a.prompt[1] = "A4" => y.known = x.known
        /\ a.prompt[1] = "A3" => /\ y.known = x.known /\ y.at > x.at /\ y.pc = "go"
                                 /\ \A i \in {A1At, A2At} : x.at < i => y.at <= i
    BY <1>1, <1>3, <1>4, GivenIs
  <2> QED  BY <2>1 DEF PassRec
<1>8. A1At \in Nat /\ A2At \in Nat /\ A1At < A2At /\ A2At < LastAt /\ LastAt \in Nat
  BY PlanIs
<1>9. SameColumns
  BY DEF SameColumns
<1>10. CASE a.prompt[1] = "A1"
  <2>1. y.at = x.at /\ y.at >= x.at /\ x.pc \notin {"unbegun", "over"} /\ y.pc \notin {"unbegun", "over"}
    BY <1>2, <1>3, <1>6, <1>7, <1>10 DEF Active
  <2>2. NextOf(y) = NextOf(x)
    BY <2>1, SamePlace
  <2>3. Moves(pass[r], y)
    BY <1>2, <1>9, <2>2 DEF Moves
  <2>4. y.known[1] # 0
    BY <1>7, <1>10
  <2> QED  BY <1>5, <2>3, <2>4 DEF Taken
<1>11. CASE a.prompt[1] # "A1"
  <2>1. y.known[1] = x.known[1]
    BY <1>6, <1>7, <1>11 DEF Agent
  <2>2. y.at >= x.at /\ \A i \in {A1At, A2At} : y.at = x.at \/ (x.at # i /\ (x.at < i => y.at <= i))
    BY <1>3, <1>6, <1>7, <1>11 DEF Agent
  <2>3. y.pc # "column" \/ y.at # A1At
    BY <1>6, <1>7, <1>8, <1>11 DEF Agent
  <2>4. y.pc \notin {"unbegun", "over"}
    BY <1>7
  <2> QED  BY <1>2, <1>5, <1>9, <2>1, <2>2, <2>3, <2>4, MovesOn
<1> QED  BY <1>10, <1>11

LEMMA ColumnMoves ==
  ASSUME CompanyResearchAssumption, Shape, FirstKnown,
         \A o \in Pass : Reached(pass[o], A2At) => pass[o].known[2] # 0,
         NEW r \in Pass, Column(r)
  PROVE  Taken(r)
<1>1. /\ A1At \in Nat /\ A2At \in Nat /\ LastAt \in Nat /\ 2 < A1At /\ A1At < A2At /\ A2At < LastAt
  BY PlanIs
<1>2. row \in [profile : Nat, intel : Nat, class : Nat \X Nat, ats : AtsKind]
  BY DEF Shape
<1>3. /\ pass' = [pass EXCEPT ![r] = Onward(pass[r], {})] /\ pass[r] \in PassRec
      /\ pass[r].pc = "column" /\ pass[r].at \in 1..LastAt /\ pass[r].at \in {A1At, A2At, LastAt}
      /\ pass[r].at = A1At => row' = [row EXCEPT !.profile = pass[r].known[1]]
      /\ pass[r].at = A2At => row' = [row EXCEPT !.intel = pass[r].known[2]]
      /\ pass[r].at = LastAt => row' = [row EXCEPT !.class = pass[r].known]
  BY PassIs, ColumnIs
<1>4. PICK x \in PassRec : x = pass[r]
  BY <1>3
<1>5. x.at \in {A1At, A2At, LastAt} /\ x.pc = "column" /\ x.at \in Nat /\ x.at \in 1..LastAt
  BY <1>3, <1>4
<1>6. PICK y \in PassRec : y = Onward(x, {})
  BY <1>5, OnwardIs
<1>7. /\ y = Over \/ (y.pc = "go" /\ y.at > x.at /\ y.known = x.known)
      /\ y = Over => x.at = LastAt
      /\ x.at < A2At => y.at <= A2At
      /\ y.at \in Nat
  <2>1. /\ y = Over \/ (y.pc = "go" /\ y.at > x.at /\ y.known = x.known)
        /\ y = Over => x.at = LastAt
        /\ \A i \in {A1At, A2At} : x.at < i => y.at <= i
    BY <1>5, <1>6, OnwardIs
  <2> QED  BY <2>1 DEF PassRec
<1>8. x.known[1] # 0 /\ (x.at # A1At => x.known[2] # 0)
  <2>1. Reached(x, A1At) /\ (x.at # A1At => Reached(x, A2At))
    BY <1>1, <1>5 DEF Reached
  <2> QED  BY <1>4, <2>1 DEF FirstKnown
<1>9. pass' = [pass EXCEPT ![r] = y]
  BY <1>3, <1>4, <1>6
<1>10. NextOf(x) # "none"
  BY <1>5 DEF NextOf
<1>11. Over.pc = "over" /\ Over.at = 0
  BY EndsAre
<1>12. CASE x.at = A1At
  <2>1. NextOf(y) = "intel"
    BY <1>1, <1>7, <1>12 DEF NextOf
  <2>2. row' = [row EXCEPT !.profile = x.known[1]]
    BY <1>3, <1>4, <1>12
  <2>3. Fills(x, y)
    BY <1>2, <1>8, <1>12, <2>1, <2>2 DEF Fills
  <2>4. y.known[1] # 0
    BY <1>1, <1>7, <1>8, <1>12
  <2> QED  BY <1>4, <1>9, <1>10, <2>3, <2>4 DEF Taken, Moves
<1>13. CASE x.at = A2At
  <2>1. y.pc = "go" /\ y.at > A2At /\ y.known = x.known
    BY <1>1, <1>7, <1>13
  <2>2. NextOf(y) = "classification"
    BY <1>1, <1>7, <2>1 DEF NextOf
  <2>3. row' = [row EXCEPT !.intel = x.known[2]] /\ x.known[2] # 0
    BY <1>1, <1>3, <1>4, <1>8, <1>13
  <2>4. Fills(x, y)
    BY <1>2, <1>13, <2>2, <2>3 DEF Fills
  <2> QED  BY <1>4, <1>8, <1>9, <1>10, <2>1, <2>4 DEF Taken, Moves
<1>14. CASE x.at = LastAt
  <2>1. y = Over
    <3>1. Walks(y)
      BY <1>5, <1>6, OnwardIs
    <3>2. y.pc = "go" => y.at \in 1..LastAt
      BY <3>1 DEF Walks
    <3> QED  BY <1>1, <1>7, <1>14, <3>2
  <2>2. NextOf(y) = "none" /\ ~Reached(y, A1At)
    BY <1>1, <1>11, <2>1 DEF NextOf, Reached
  <2>3. row' = [row EXCEPT !.class = x.known] /\ x.known # <<0, 0>>
    BY <1>3, <1>4, <1>8, <1>14
  <2>4. Fills(x, y)
    BY <1>2, <1>14, <2>2, <2>3 DEF Fills
  <2> QED  BY <1>4, <1>9, <1>10, <2>2, <2>4 DEF Taken, Moves
<1> QED  BY <1>5, <1>12, <1>13, <1>14

\* Every statement of a pass leaves the columns alone, or fills the one it is at.
LEMMA EveryStepTaken ==
  ASSUME CompanyResearchAssumption, Shape, Numbers, PromptsMade, FirstKnown, NEW r \in Pass, PassStep(r)
  PROVE  Taken(r)
<1>1. /\ A1At \in Nat /\ A2At \in Nat /\ LastAt \in Nat /\ 2 < A1At /\ A1At < A2At /\ A2At < LastAt
      /\ Plan[A1At].do = "ask" /\ Plan[A2At].do = "ask"
  BY PlanIs
<1>2. row' = row => SameColumns
  BY DEF SameColumns
<1>3. CASE Start(r)
  <2>1. /\ pass[r] = Unbegun /\ pass' = [pass EXCEPT ![r] = Begun]
        /\ Begun \in PassRec /\ Begun.pc = "go" /\ Begun.at = 1 /\ Unbegun.pc = "unbegun"
        /\ UNCHANGED <<shared, fetched, excused, paid, excess, expired>>
    BY <1>3, StartIs, EndsAre
  <2>2. NextOf(Unbegun) = "none" /\ NextOf(Begun) = "profile" /\ ~Reached(Begun, A1At)
    BY <1>1, <2>1 DEF NextOf, Reached
  <2>3. SameColumns
    BY <1>2, <2>1 DEF shared
  <2> QED  BY <2>1, <2>2, <2>3 DEF Taken, Moves
<1>4. CASE Stop(r)
  <2>1. /\ pass' = [pass EXCEPT ![r] = Over] /\ Over \in PassRec /\ Over.pc = "over" /\ Over.at = 0
        /\ UNCHANGED <<shared, fetched, paid, expired>>
    BY <1>4, EndsAre DEF Stop
  <2>2. NextOf(Over) = "none" /\ ~Reached(Over, A1At)
    BY <1>1, <2>1 DEF NextOf, Reached
  <2>3. SameColumns
    BY <1>2, <2>1 DEF shared
  <2> QED  BY <2>1, <2>2, <2>3 DEF Taken, Moves
<1>5. CASE Walked(r)
  <2>1. PICK y \in PassRec :
          /\ pass' = [pass EXCEPT ![r] = y] /\ y.pc \in Walking /\ y.known = pass[r].known
          /\ y.at >= pass[r].at /\ \A i \in {A1At, A2At} : pass[r].at < i => y.at <= i
    BY <1>5 DEF Walked
  <2>2. /\ Active(r) /\ y.pc \notin {"unbegun", "over", "column"} /\ SameColumns
        /\ pass[r].at # A1At /\ pass[r].at # A2At
    BY <1>1, <1>5, <2>1 DEF Walked, Walking, Active, Do, Asks, SameColumns
  <2> QED  BY <2>1, <2>2, MovesOn
\* The pass stays where it is.
<1>6. ASSUME NEW y \in PassRec, pass' = [pass EXCEPT ![r] = y], Active(r), y.pc \in {"model", "keep"},
             y.at = pass[r].at, y.known = pass[r].known, row' = row
      PROVE  Taken(r)
  <2>1. y.at >= pass[r].at
    BY <1>6 DEF PassRec
  <2> QED  BY <1>2, <1>6, <2>1, MovesOn
<1>7. CASE Lookup(r)
  <2>1. /\ pass[r].pc = "go" /\ pass[r].at \in 1..LastAt /\ Do(r) \in Asks /\ UNCHANGED <<shared, history>>
    BY <1>7, LookupIs
  <2>2. Active(r) /\ row' = row
    BY <2>1 DEF shared, Active
  <2>3. ASSUME NEW a \in answers, Gets(r, a)
        PROVE  Taken(r)
    <3>1. a.no # 0
      <4>1. a.no \in 1..paid[a.prompt[1]]
        BY DEF Numbers
      <4> QED  BY <4>1
    <3> QED  BY <2>1, <2>2, <2>3, <3>1, GetsMoves
  <2>4. \/ \E y \in PassRec : /\ pass' = [pass EXCEPT ![r] = y] /\ y.pc = "model"
                              /\ y.at = pass[r].at /\ y.known = pass[r].known
        \/ \E a \in answers : Gets(r, a)
    BY <1>7, LookupIs
  <2> QED  BY <1>6, <2>2, <2>3, <2>4
<1>8. CASE Answer(r)
  <2>1. /\ pass[r].pc = "model" /\ UNCHANGED <<shared, fetched, excused, expired, mixed>>
        /\ \E y \in PassRec : /\ pass' = [pass EXCEPT ![r] = y] /\ y.pc = "keep"
                              /\ y.at = pass[r].at /\ y.known = pass[r].known
    BY <1>8, AnswerIs
  <2> QED  BY <1>6, <2>1 DEF shared, Active
<1>9. CASE Keep(r)
  <2>1. /\ Gets(r, Kept(r)) /\ pass[r].pc = "keep" /\ pass[r].at \in 1..LastAt /\ Do(r) \in Asks
        /\ row' = row
    BY <1>9, KeepIs
  <2>2. Kept(r).no # 0
    <3>1. pass[r].answer \in 1..paid[pass[r].prompt[1]]
      BY <2>1 DEF Numbers, HoldsBelow
    <3> QED  BY <3>1 DEF Kept
  <2> QED  BY <2>1, <2>2, GetsMoves DEF Active
<1>10. CASE Column(r)
  BY <1>10, ColumnMoves, SecondKnown
<1> QED  BY <1>3, <1>4, <1>5, <1>7, <1>8, <1>9, <1>10 DEF PassStep

LEMMA FirstKnownStep ==
  ASSUME CompanyResearchAssumption, Shape, Numbers, PromptsMade, FirstKnown, [Next]_vars
  PROVE  FirstKnown'
<1>1. ASSUME NEW r \in Pass, PassStep(r)
      PROVE  FirstKnown'
  <2>1. PICK y \in PassRec : pass' = [pass EXCEPT ![r] = y] /\ (Reached(y, A1At) => y.known[1] # 0)
    BY <1>1, EveryStepTaken DEF Taken
  <2>2. pass'[r] = y /\ \A o \in Pass \ {r} : pass'[o] = pass[o]
    BY <2>1 DEF Shape
  <2>3. ASSUME NEW o \in Pass
        PROVE  Reached(pass'[o], A1At) => pass'[o].known[1] # 0
    BY <2>1, <2>2 DEF FirstKnown
  <2> QED  BY <2>3 DEF FirstKnown, Reached
<1>2. CASE pass' = pass
  BY <1>2 DEF FirstKnown, Reached
<1> QED  BY <1>1, <1>2, StepsAreOf DEF Expire, vars

\* The columns that are not NULL, and how a pass moves among them.
LEMMA FilledIs ==
  /\ Filled \subseteq {"profile", "intel", "classification"}
  /\ "profile" \in Filled <=> row.profile # 0
  /\ "intel" \in Filled <=> row.intel # 0
  /\ "classification" \in Filled <=> row.class # <<0, 0>>
BY DEF Filled

LEMMA FilledThen ==
  /\ Filled' \subseteq {"profile", "intel", "classification"}
  /\ "profile" \in Filled' <=> row'.profile # 0
  /\ "intel" \in Filled' <=> row'.intel # 0
  /\ "classification" \in Filled' <=> row'.class # <<0, 0>>
BY DEF Filled

\* One column more is filled.
LEMMA FillsOne ==
  ASSUME CompanyResearchAssumption, NEW x \in PassRec, NEW y \in PassRec, NextOf(x) # "none", Fills(x, y)
  PROVE  Filled' = Filled \cup {NextOf(x)} /\ NextOf(y) = Columns!After[NextOf(x)]
<1>1. /\ A1At \in Nat /\ A2At \in Nat /\ LastAt \in Nat /\ A1At < A2At /\ A2At < LastAt
  BY PlanIs
<1>2. /\ x.at = A1At => NextOf(x) = "profile"
      /\ x.at = A2At => NextOf(x) = "intel"
      /\ x.at = LastAt => NextOf(x) = "classification"
  BY <1>1 DEF NextOf
<1>3. CASE x.at = A1At /\ NextOf(y) = "intel" /\ row'.profile # 0 /\ row'.intel = row.intel /\ row'.class = row.class
  <2>1. Filled' = Filled \cup {"profile"}
    BY <1>3, FilledIs, FilledThen
  <2> QED  BY <1>2, <1>3, <2>1 DEF Columns!After
<1>4. CASE x.at = A2At /\ NextOf(y) = "classification" /\ row'.profile = row.profile /\ row'.intel # 0 /\ row'.class = row.class
  <2>1. Filled' = Filled \cup {"intel"}
    BY <1>4, FilledIs, FilledThen
  <2> QED  BY <1>2, <1>4, <2>1 DEF Columns!After
<1>5. CASE x.at = LastAt /\ NextOf(y) = "none" /\ row'.profile = row.profile /\ row'.intel = row.intel /\ row'.class # <<0, 0>>
  <2>1. Filled' = Filled \cup {"classification"}
    BY <1>5, FilledIs, FilledThen
  <2> QED  BY <1>2, <1>5, <2>1 DEF Columns!After
<1> QED  BY <1>3, <1>4, <1>5 DEF Fills

LEMMA SameFilled == SameColumns => Filled' = Filled
BY DEF SameColumns, Filled

LEMMA ColumnsStep ==
  ASSUME CompanyResearchAssumption, Inv, FirstKnown, [Next]_vars
  PROVE  [Columns!ColumnsNext]_(Columns!columnsVars)
<1> DEFINE next == [r \in Pass |-> NextColumn(r)]
<1>1. Shape /\ Numbers /\ PromptsMade /\ pass \in [Pass -> PassRec]
  BY DEF Inv, Shape
\* The pass r is left at y, and no other moves.
<1>2. ASSUME NEW r \in Pass, NEW y \in PassRec, pass' = [pass EXCEPT ![r] = y]
      PROVE  /\ next[r] = NextOf(pass[r])
             /\ next' = [next EXCEPT ![r] = NextOf(y)]
             /\ NextOf(y) = NextOf(pass[r]) => next' = next
  <2>1. pass' \in [Pass -> PassRec] /\ pass'[r] = y /\ \A o \in Pass \ {r} : pass'[o] = pass[o]
    BY <1>1, <1>2
  <2>2. \A o \in Pass : NextColumn(o) = NextOf(pass[o]) /\ NextColumn(o)' = NextOf(pass'[o])
    BY <1>1, <2>1, NextIs
  <2> QED  BY <2>1, <2>2
<1>3. ASSUME NEW r \in Pass, PassStep(r)
      PROVE  [Columns!ColumnsNext]_(Columns!columnsVars)
  <2>1. PICK y \in PassRec : pass' = [pass EXCEPT ![r] = y] /\ Moves(pass[r], y)
    BY <1>1, <1>3, EveryStepTaken DEF Taken
  <2>2. PICK x \in PassRec : x = pass[r]
    BY <1>1
  <2>3. next[r] = NextOf(x) /\ next' = [next EXCEPT ![r] = NextOf(y)] /\ (NextOf(y) = NextOf(x) => next' = next)
    BY <1>2, <2>1, <2>2
  <2> HIDE DEF next
  <2>4. CASE SameColumns /\ NextOf(y) = NextOf(x)
    <3>1. next' = next /\ Filled' = Filled
      BY <2>3, <2>4, SameFilled
    <3> QED  BY <3>1 DEF Columns!columnsVars, next
  <2>5. CASE SameColumns /\ NextOf(y) = "none" /\ NextOf(x) # "none"
    <3>1. next[r] # "none" /\ next' = [next EXCEPT ![r] = "none"] /\ Filled' = Filled
      BY <2>3, <2>5, SameFilled
    <3>2. Columns!Leave(r)
      BY <3>1 DEF Columns!Leave, Columns!Goto, next
    <3> QED  BY <3>2 DEF Columns!ColumnsNext
  <2>6. CASE SameColumns /\ NextOf(x) = "none" /\ NextOf(y) = "profile"
    <3>1. next[r] = "none" /\ next' = [next EXCEPT ![r] = "profile"] /\ Filled' = Filled
      BY <2>3, <2>6, SameFilled
    <3>2. Columns!Begin(r)
      BY <3>1 DEF Columns!Begin, Columns!Goto, next
    <3> QED  BY <3>2 DEF Columns!ColumnsNext
  <2>7. CASE NextOf(x) # "none" /\ Fills(x, y)
    <3>1. Filled' = Filled \cup {NextOf(x)} /\ NextOf(y) = Columns!After[NextOf(x)]
      BY <2>7, FillsOne
    <3>2. /\ next[r] # "none" /\ Filled' = Filled \cup {next[r]}
          /\ next' = [next EXCEPT ![r] = Columns!After[next[r]]]
      BY <2>3, <2>7, <3>1
    <3>3. Columns!Fill(r)
      BY <3>2 DEF Columns!Fill, Columns!Goto, next
    <3> QED  BY <3>3 DEF Columns!ColumnsNext
  <2> QED  BY <2>1, <2>2, <2>4, <2>5, <2>6, <2>7 DEF Moves
<1>4. CASE pass' = pass /\ row' = row
  <2>1. \A r \in Pass : NextColumn(r)' = NextColumn(r)
    BY <1>4 DEF NextColumn, Active
  <2>2. Filled' = Filled
    BY <1>4 DEF Filled
  <2> QED  BY <2>1, <2>2 DEF Columns!columnsVars
<1>5. ASSUME NEW u \in Page, Expire(u)
      PROVE  pass' = pass /\ row' = row
  BY <1>5 DEF Expire
<1> QED  BY <1>1, <1>3, <1>4, <1>5, StepsAreOf DEF vars, shared

LEMMA ColumnsStart == CompanyResearchAssumption /\ Init => FirstKnown /\ Columns!ColumnsInit
<1> SUFFICES ASSUME CompanyResearchAssumption, Init
             PROVE  FirstKnown /\ Columns!ColumnsInit
  OBVIOUS
<1>1. \A r \in Pass : pass[r] = Unbegun /\ Unbegun.pc = "unbegun" /\ Unbegun.at = 0
  BY EndsAre DEF Init
<1>2. A1At \in Nat /\ 2 < A1At
  BY PlanIs
<1>3. FirstKnown
  BY <1>1, <1>2 DEF FirstKnown, Reached
<1>4. \A r \in Pass : NextColumn(r) = "none"
  BY <1>1 DEF NextColumn, Active
<1>5. Filled = {}
  <2>1. row.profile = 0 /\ row.intel = 0 /\ row.class = <<0, 0>>
    BY DEF Init
  <2> QED  BY <2>1, FilledIs
<1> QED  BY <1>3, <1>4, <1>5 DEF Columns!ColumnsInit

\* company_research.py: whatever is crawled, searched, bought or found in a cache,
\* and wherever passes stop or overlap, each fills profile, intel and
\* classification in this order, and none of them is ever emptied.
THEOREM ColumnsTheorem == Spec => ImplementsColumns
<1>1. Init => Inv /\ FirstKnown /\ Columns!ColumnsInit
  BY InitInv, ColumnsStart, CompanyResearchAssumption
<1>2. Inv /\ FirstKnown /\ [Next]_vars => Inv' /\ FirstKnown'
  <2>1. Inv /\ FirstKnown /\ [Next]_vars => FirstKnown'
    BY FirstKnownStep, CompanyResearchAssumption DEF Inv
  <2> QED  BY <2>1, InvStep, CompanyResearchAssumption
<1>3. Inv /\ FirstKnown /\ [Next]_vars => [Columns!ColumnsNext]_(Columns!columnsVars)
  BY ColumnsStep, CompanyResearchAssumption
<1> QED  BY <1>1, <1>2, <1>3, PTL DEF Spec, ImplementsColumns, Columns!ColumnsSpec
=============================================================================
