--------------------------- MODULE CompanyResearch ---------------------------
(***************************************************************************)
(* The research of one company (agents/company_research.py): A1 crawls the  *)
(* site and searches, A2 searches, A3 probes the job boards and else reads  *)
(* the careers page, A4 classifies.  The four share the page cache on disk, *)
(* the evidence table, which makes their prompts, and the cache of model    *)
(* answers.  A pass is a walk along Plan, one statement at a time, that may *)
(* stop anywhere; a second one is the worker's retry, when the first is     *)
(* over, or runs beside it: a task reclaimed too early, or cold-mailer run. *)
(* The fan-out to the leads is in LeadPipeline, a model call in LlmClient,  *)
(* a search in SearchChain.                                                 *)
(***************************************************************************)
EXTENDS Integers, Sequences, FiniteSets, SequencesExt

CONSTANTS
  Pass,          \* the passes: the worker's, its retries, the command line's
  Home, Careers, \* the URL of the site, and the sequence of careers pages to try
  Elsewhere,     \* other pages A1 may name as the careers page
  Overviews, News, \* the queries of A1 and of A2
  Boards,        \* the ATS clients in the order they are probed
  HintOf,        \* HintOf[u]: the board the careers page u is hosted by, or "none"
  TextOf,        \* TextOf[s]: the text of a page, of the result of a query; "" is blank
  Served,        \* the pages the site may answer with HTML
  Brief,         \* the texts under 200 characters
  JobNo,         \* the numbers of the postings of a list
  PromptItems,   \* the evidence that fits in a prompt: LIMIT 30, 6000 characters
  MaxExpired     \* the bound on pages that grow older than ttl_days

CareersUrl == ToSet(Careers) \cup Elsewhere
Page == {Home} \cup CareersUrl
Query == ToSet(Overviews) \cup ToSet(News)
Agent == {"A1", "A2", "A3", "A4"}

ASSUME CompanyResearchAssumption ==
  /\ Careers # <<>>
  /\ \A s \in {Careers, Overviews, News, Boards} : s \in Seq(ToSet(s))
  /\ IsFiniteSet(Pass) /\ IsFiniteSet(Elsewhere)
  /\ HintOf \in [CareersUrl -> ToSet(Boards) \cup {"none"}]
  /\ Page \cup Query \subseteq DOMAIN TextOf
  /\ {PromptItems, MaxExpired} \subseteq Nat

VARIABLES
  file,       \* file[u]: the page cache: "none", "torn" (not JSON), "fresh" or "stale"
  evidence,   \* the texts of the evidence rows, by fetched_at
  answers,    \* the answers in llm_cache and Redis
  row,        \* companies: the answers in profile, intel and classification; ats_type
  jobs,       \* the jobs rows
  pass,       \* pass[r]: where the pass r is, and what it holds
  fetched,    \* history: fetched[u], how often the page was got from the site
  paid,       \* history: paid[a], the answers bought for agent a
  excused,    \* history: excused[u], requests for the page made beside another one,
              \* and pages got by a pass that stopped before it wrote the file
  excess,     \* history: answers bought for a prompt that has one, or not kept
  expired,    \* history: pages that grew too old
  mixed       \* history: a pass stopped early, or ran beside another, since one began alone

shared == <<file, evidence, answers, row, jobs>>
history == <<fetched, excused, paid, excess, expired, mixed>>
vars == <<shared, pass, history>>

Steps(do, on) == [i \in DOMAIN on |-> [do |-> do, on |-> on[i]]]

\* discover, analyze, find_jobs and classify, each to its UPDATE.
Discover == Steps("home", <<Home>>) \o Steps("career", Careers) \o Steps("search", Overviews) \o Steps("ask", <<"A1">>)
Analyze == Steps("search", News) \o Steps("ask", <<"A2">>)
FindJobs ==
  Steps("hint", <<"url">>) \o Steps("board", Boards) \o Steps("listing", <<"url">>)
  \o Steps("extract", <<"A3">>) \o Steps("jobs", <<"rows">>)
Classify == Steps("ask", <<"A4">>)

\* Mutant: the company is classified before its intelligence is there.
PlanClassifyFirst == Discover \o Classify \o Analyze \o FindJobs

Plan == Discover \o Analyze \o FindJobs \o Classify

Unbegun ==
  [pc |-> "unbegun", at |-> 0, prompt |-> <<>>, answer |-> 0, known |-> <<0, 0>>,
   careers |-> Careers[1], ats |-> "none", list |-> {}]

Init ==
  /\ file = [u \in Page |-> "none"]
  /\ evidence = <<>> /\ answers = {} /\ jobs = {}
  /\ row = [profile |-> 0, intel |-> 0, class |-> <<0, 0>>, ats |-> "none"]
  /\ pass = [r \in Pass |-> Unbegun]
  /\ fetched = [u \in Page |-> 0] /\ excused = [u \in Page |-> 0]
  /\ paid = [a \in Agent |-> 0]
  /\ excess = 0 /\ expired = 0 /\ mixed = FALSE

-----------------------------------------------------------------------------
(* The walk *)

Over == [Unbegun EXCEPT !.pc = "over"]
Active(r) == pass[r].pc \notin {"unbegun", "over"}
Do(r) == Plan[pass[r].at].do
On(r) == Plan[pass[r].at].on
At(r, kinds, pc) == pass[r].pc = pc /\ Do(r) \in kinds
Goto(r, pc) == pass' = [pass EXCEPT ![r].pc = pc]

\* x goes on with its next step that is of none of the kinds; after the last it is done.
Onward(x, kinds) ==
  LET later == {i \in DOMAIN Plan : i > x.at /\ Plan[i].do \notin kinds}
  IN IF later = {} THEN Over
     ELSE [x EXCEPT !.pc = "go", !.prompt = <<>>, !.answer = 0,
                    !.at = CHOOSE i \in later : \A j \in later : i <= j]
GoOn(r, kinds) == pass' = [pass EXCEPT ![r] = Onward(@, kinds)]

Start(r) ==
  /\ pass[r] = Unbegun
  /\ pass' = [pass EXCEPT ![r].pc = "go", ![r].at = 1]
  /\ mixed' = \E o \in Pass : Active(o)
  /\ UNCHANGED <<shared, fetched, excused, paid, excess, expired>>

-----------------------------------------------------------------------------
(* crawl_and_store and search_and_store *)

Crawls == {"home", "career", "listing"}
Url(r) == IF Do(r) = "listing" THEN pass[r].careers ELSE On(r)

\* Without the page the other careers pages are tried; without the listing
\* there is nothing to extract.
Missed(r) == GoOn(r, IF Do(r) = "listing" THEN {"listing", "extract"} ELSE {})
Found(r) ==
  GoOn(r, IF Do(r) = "career" THEN {"career"}
          ELSE IF Do(r) = "listing" /\ TextOf[Url(r)] \in Brief THEN {"listing", "extract"}
          ELSE {})

Request(r) ==
  /\ Goto(r, "http")
  /\ excused' = [excused EXCEPT ![Url(r)] = @ +
       IF \E o \in Pass : pass[o].pc \in {"http", "open", "write"} /\ Url(o) = Url(r) THEN 1 ELSE 0]
  /\ UNCHANGED <<shared, fetched, paid, excess, expired, mixed>>

\* Mutant: the cache is written and never read.
GetUncached(r) == At(r, Crawls, "go") /\ Request(r)

\* PageCache.get: a torn file raises, which crawl_and_store takes for a bad URL.
Get(r) ==
  /\ At(r, Crawls, "go")
  /\ \/ /\ file[Url(r)] = "fresh" /\ Goto(r, "store")
        /\ UNCHANGED <<shared, history>>
     \/ /\ file[Url(r)] = "torn" /\ Missed(r)
        /\ UNCHANGED <<shared, history>>
     \/ file[Url(r)] \in {"none", "stale"} /\ Request(r)

\* The site answers with HTML, or with anything else, or after three attempts not at all.
Http(r) ==
  /\ At(r, Crawls, "http")
  /\ \/ Url(r) \in Served /\ Goto(r, "open") /\ fetched' = [fetched EXCEPT ![Url(r)] = @ + 1]
     \/ Missed(r) /\ UNCHANGED fetched
  /\ UNCHANGED <<shared, excused, paid, excess, expired, mixed>>

\* PageCache.set: write_text truncates the file, ...
Open(r) ==
  /\ At(r, Crawls, "open")
  /\ file' = [file EXCEPT ![Url(r)] = "torn"]
  /\ Goto(r, "write")
  /\ UNCHANGED <<evidence, answers, row, jobs, history>>

\* ... then fills it.  Over what another writer filled in since, the tail of the
\* longer text may stay.
WriteFile(r) ==
  /\ At(r, Crawls, "write")
  /\ \E f \in IF file[Url(r)] = "torn" THEN {"fresh"} ELSE {"fresh", "torn"} :
       file' = [file EXCEPT ![Url(r)] = f]
  /\ Goto(r, "store")
  /\ UNCHANGED <<evidence, answers, row, jobs, history>>

\* Mutant: ON CONFLICT ... DO UPDATE SET fetched_at = now().
WithTextRefreshed(e, t) == SelectSeq(e, LAMBDA x : x # t) \o <<t>>

\* ON CONFLICT (company_id, content_hash) DO NOTHING.
WithText(e, t) == IF t \in ToSet(e) THEN e ELSE Append(e, t)

\* The row of a page, or of the result of a query.
StoreEvidence(r) ==
  /\ At(r, Crawls, "store") \/ At(r, {"search"}, "go")
  /\ TextOf[Url(r)] # ""
  /\ evidence' = WithText(evidence, TextOf[Url(r)])
  /\ Found(r)
  /\ UNCHANGED <<file, answers, row, jobs, history>>

\* A page is blank; no provider has a result.
Nothing(r) ==
  /\ \/ At(r, Crawls, "store") /\ TextOf[Url(r)] = ""
     \/ At(r, {"search"}, "go")
  /\ Missed(r)
  /\ UNCHANGED <<shared, history>>

-----------------------------------------------------------------------------
(* complete_structured, and the job boards *)

Asks == {"ask", "extract"}
Newest == SubSeq(Reverse(evidence), 1, IF Len(evidence) < PromptItems THEN Len(evidence) ELSE PromptItems)

\* Mutant: the extraction is given the evidence, not the page.
PromptFromEvidence(r) ==
  CASE On(r) = "A1" -> <<"A1", Newest>>
    [] On(r) = "A2" -> <<"A2", pass[r].known[1], Newest>>
    [] On(r) = "A3" -> <<"A3", Newest>>
    [] On(r) = "A4" -> <<"A4", pass[r].known>>

\* What the user prompt of the agent is made of.
Prompt(r) ==
  CASE On(r) = "A1" -> <<"A1", Newest>>
    [] On(r) = "A2" -> <<"A2", pass[r].known[1], Newest>>
    [] On(r) = "A3" -> <<"A3", TextOf[pass[r].careers]>>
    [] On(r) = "A4" -> <<"A4", pass[r].known>>

Cached(prompt) == {a \in answers : a.prompt = prompt}

\* The pass goes on with the answer a; A3 has the postings of its.
Given(x, a) ==
  LET y == [x EXCEPT !.pc = "column", !.prompt = <<>>, !.answer = 0] IN
  CASE a.prompt[1] = "A1" -> [y EXCEPT !.known[1] = a.no, !.careers = a.careers]
    [] a.prompt[1] = "A2" -> [y EXCEPT !.known[2] = a.no]
    [] a.prompt[1] = "A3" -> Onward([y EXCEPT !.list = {"read"} \X {a.no} \X JobNo], {})
    [] a.prompt[1] = "A4" -> y

\* get_evidence, then the lookup of the prompt made from it; nothing that
\* another pass does between the two can matter to both.
Lookup(r) ==
  /\ At(r, Asks, "go")
  /\ \/ /\ Cached(Prompt(r)) = {}
        /\ pass' = [pass EXCEPT ![r].pc = "model", ![r].prompt = Prompt(r)]
     \/ \E a \in Cached(Prompt(r)) : pass' = [pass EXCEPT ![r] = Given(@, a)]
  /\ UNCHANGED <<shared, history>>

HasAnswer(prompt) ==
  \/ Cached(prompt) # {}
  \/ \E o \in Pass : pass[o].pc = "keep" /\ pass[o].prompt = prompt

\* No two answers of the model are alike; A1's may name a careers page.
Answer(r) ==
  /\ At(r, Asks, "model")
  /\ \E u \in IF On(r) = "A1" THEN {Careers[1]} \cup Elsewhere ELSE {pass[r].careers} :
       pass' = [pass EXCEPT ![r].pc = "keep", ![r].answer = paid[On(r)] + 1, ![r].careers = u]
  /\ paid' = [paid EXCEPT ![On(r)] = @ + 1]
  /\ excess' = excess + IF HasAnswer(pass[r].prompt) THEN 1 ELSE 0
  /\ UNCHANGED <<shared, fetched, excused, expired, mixed>>

\* The table keeps the first answer and Redis the last; a pass goes on with its own.
Keep(r) ==
  /\ At(r, Asks, "keep")
  /\ LET a == [prompt |-> pass[r].prompt, no |-> pass[r].answer, careers |-> pass[r].careers]
     IN answers' = answers \cup {a} /\ pass' = [pass EXCEPT ![r] = Given(@, a)]
  /\ UNCHANGED <<file, evidence, row, jobs, history>>

\* The UPDATE of companies by A1, A2 and A4.
Column(r) ==
  /\ At(r, Asks, "column")
  /\ row' = CASE On(r) = "A1" -> [row EXCEPT !.profile = pass[r].known[1]]
              [] On(r) = "A2" -> [row EXCEPT !.intel = pass[r].known[2]]
              [] On(r) = "A4" -> [row EXCEPT !.class = pass[r].known]
  /\ GoOn(r, {})
  /\ UNCHANGED <<file, evidence, answers, jobs, history>>

\* The board the careers page is hosted by, then each under the token made of the domain.
Board(r) == IF Do(r) = "hint" THEN HintOf[pass[r].careers] ELSE On(r)

\* fetch_jobs: no board, an empty one and an answer that is not 200 look alike.
Postings(b) == {{}} \cup IF b = "none" THEN {} ELSE {{"board"} \X {b} \X JobNo}

\* To match ends the probing.
Probe(r) ==
  /\ At(r, {"hint", "board"}, "go")
  /\ \E list \in Postings(Board(r)) :
       \/ list = {} /\ GoOn(r, {})
       \/ /\ list # {}
          /\ pass' = [pass EXCEPT ![r] = Onward([@ EXCEPT !.ats = Board(r), !.list = list],
                                               {"hint", "board", "listing", "extract"})]
  /\ UNCHANGED <<shared, history>>

\* UPDATE companies, then an INSERT for each posting: no transaction is round them.
StoreAts(r) ==
  /\ At(r, {"jobs"}, "go")
  /\ row' = [row EXCEPT !.ats = pass[r].ats]
  /\ Goto(r, "insert")
  /\ UNCHANGED <<file, evidence, answers, jobs, history>>

\* ON CONFLICT (company_id, ats_job_id) DO UPDATE; no row is ever deleted.
StoreJobs(r) ==
  /\ At(r, {"jobs"}, "insert")
  /\ \/ /\ pass[r].list = {} /\ GoOn(r, {}) /\ UNCHANGED jobs
     \/ \E j \in pass[r].list :
          /\ jobs' = jobs \cup {j}
          /\ pass' = [pass EXCEPT ![r].list = @ \ {j}]
  /\ UNCHANGED <<file, evidence, answers, row, history>>

-----------------------------------------------------------------------------
(* A pass that stops, and time *)

\* The process is killed; or a statement, a board or the model raises, and the
\* task is retried: a retry is a pass from the start.
Stop(r) ==
  /\ Active(r)
  /\ pass' = [pass EXCEPT ![r] = Over]
  /\ excused' = IF pass[r].pc = "open" THEN [excused EXCEPT ![Url(r)] = @ + 1] ELSE excused
  /\ excess' = excess + IF pass[r].pc = "keep" THEN 1 ELSE 0
  /\ mixed' = TRUE
  /\ UNCHANGED <<shared, fetched, paid, expired>>

\* A page grows older than ttl_days, fourteen, while no pass is under way: a
\* pass takes minutes.
Expire(u) ==
  /\ file[u] = "fresh" /\ expired < MaxExpired
  /\ \A r \in Pass : ~Active(r)
  /\ file' = [file EXCEPT ![u] = "stale"]
  /\ expired' = expired + 1
  /\ UNCHANGED <<evidence, answers, row, jobs, pass, fetched, excused, paid, excess, mixed>>

Crawl(r) == Get(r) \/ Http(r) \/ Open(r) \/ WriteFile(r) \/ StoreEvidence(r) \/ Nothing(r)
Ask(r) == Lookup(r) \/ Answer(r) \/ Keep(r) \/ Column(r)
Next ==
  \/ \E r \in Pass : Start(r) \/ Crawl(r) \/ Ask(r) \/ Probe(r) \/ StoreAts(r) \/ StoreJobs(r) \/ Stop(r)
  \/ \E u \in Page : Expire(u)

Spec == Init /\ [][Next]_vars

-----------------------------------------------------------------------------
(* Properties *)

TypeOK ==
  /\ file \in [Page -> {"none", "torn", "fresh", "stale"}]
  /\ IsInjective(evidence)
  /\ \A r \in Pass :
       /\ pass[r].at \in IF Active(r) THEN DOMAIN Plan ELSE {0}
       /\ pass[r].ats \in ToSet(Boards) \cup {"none"}
       /\ pass[r].known \in (0..paid["A1"]) \X (0..paid["A2"])
  /\ row.class \in (0..paid["A1"]) \X (0..paid["A2"])
  /\ jobs \subseteq ({"read"} \X (1..paid["A3"]) \X JobNo) \cup ({"board"} \X ToSet(Boards) \X JobNo)

\* "one real fetch" of a URL (httpx_crawler.py:4-6), whichever agents and reruns
\* ask for it: one more for a page that grew old, for a pass that asked at the
\* same time, and for one that was killed before it wrote the file.
OneFetchPerPage ==
  \A u \in Page : fetched[u] <= 1 + expired + excused[u]

Asked == {a.prompt : a \in answers} \cup {pass[r].prompt : r \in {o \in Pass : pass[o].pc = "keep"}}

\* A pass that is run again pays for what it learnt only: A1 once for each state
\* of the evidence, A2 once for each and each answer of A1, A4 once for each
\* answer of A2; in whatever order the evidence was found again.
PaidForNewsOnly ==
  /\ paid["A1"] <= Cardinality({ToSet(p[2]) : p \in {q \in Asked : q[1] = "A1"}}) + excess
  /\ paid["A2"] <= Cardinality({<<p[2], ToSet(p[3])>> : p \in {q \in Asked : q[1] = "A2"}}) + excess
  /\ paid["A4"] <= paid["A2"] + excess

\* The jobs table has no unique key across two readings of one page, whose
\* numbers the model makes up: that a careers page is listed in it once rests on
\* the cache alone, whatever failed and was run again.
OneReadingOfJobs ==
  Cardinality({j[2] : j \in {i \in jobs : i[1] = "read"}}) <= 1 + Cardinality(Elsewhere) + excess

\* When the last pass ran alone and to its end, the class in the row was made from
\* the profile and the intelligence beside it, whatever earlier passes left there.
RowIsOfOnePass ==
  (\A r \in Pass : ~Active(r)) /\ ~mixed => row.class = <<row.profile, row.intel>>

NextColumn(r) ==
  CASE ~Active(r) -> "none"
    [] Active(r) /\ pass[r].at <= Len(Discover) -> "profile"
    [] Active(r) /\ pass[r].at \in Len(Discover) + 1 .. Len(Discover \o Analyze) -> "intel"
    [] OTHER -> "classification"

\* The columns of row that are not NULL.
Filled ==
  {c \in {"profile", "intel", "classification"} :
     CASE c = "profile" -> row.profile # 0 [] c = "intel" -> row.intel # 0 [] OTHER -> row.class # <<0, 0>>}

Columns == INSTANCE Columns WITH next <- [r \in Pass |-> NextColumn(r)], filled <- Filled

\* Whatever it crawls, searches and asks, and wherever it stops, a pass fills the
\* columns of the row in one order, and no pass beside it empties one.
ImplementsColumns == Columns!ColumnsSpec
=============================================================================
