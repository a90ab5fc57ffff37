# Cold-Mailer-AI-Agent: a verification development

TLA+ models of the Cold-Mailer pipeline (Python 3, Postgres, arq), the TLC runs
that check them on small instances, and TLAPS proofs for every instance. Paths
are relative to `src/`.

## 1. The system

A file of recruiter addresses becomes researched, drafted, approved and mailed
outreach. Everything that happens is a row of the `tasks` table, handled by a
worker; the only human step is the approval queue.

```
 cold-mailer ingest ──► leads, companies ──► research_company (A1 A2 A3 A4) per company
                                                │ fan-out
                                                ▼
                        synthesize_fit (A5) ──► generate_draft (A7) per lead
                                                │ drafts
 approval queue (web/app.py) ◄──────────────────┘
        │ approve / edit
        ▼
 send_message (A8) ──► send budget ──► transport ──► messages
                                                │ replies, bounces
                                                ▼
                        triage_inbox (A10) ──► suppressions, stopped tasks
```

| component | state it keeps | operations | hard because |
|---|---|---|---|
| task queue, `pipeline/state_machine.py` | `tasks` (status, attempts, run_after, claimed_at) | enqueue_task, claim_tasks, complete_task, fail_task, reap_stale_claims | several workers; `SKIP LOCKED`; two-statement failure; UPDATEs by id alone |
| worker, `pipeline/worker.py`, `stages.py` | the running ticks and coroutines, the handler registry | tick, _run_one, startup | kills, the 300 s job timeout, `gather` that ends at the first exception |
| ingest, `agents/a0_ingest.py`, `cli.py` | `leads`, `companies`, `_mx_cache` | ingest_file, _ingest_to_db | rows commit one by one, two files at once, repeated ingests |
| research, `agents/company_research.py`, `a1`..`a4`, `providers/ats`, `providers/crawl` | `companies`, `evidence`, `jobs`, the page files of `core/cache.py: PageCache` | discover, analyze, find_jobs, classify, fan-out; crawl_and_store, search_and_store, detect_and_fetch | redone from the start after any failure, on what the earlier pass left; two passes at once; files written in two steps |
| fit, `a5_fit.py` | `fit_analyses`, `leads.status` | synthesize_fit | several commits, redone by a retry |
| draft and its gate, `a7_generate.py`, `quality/` | `drafts`, `leads.status` | generate_draft, lint_draft, check_grounding | a loop through the cache of answers; two runs for one lead; arithmetic of rates |
| approval queue, `web/app.py` | `drafts`, `approvals` | approve, reject, edit | several statements per POST, beside A7 and A8 |
| delivery, `a8_deliver.py` | `messages`, `leads.status` | deliver, _handle_send_message | check-then-act over eight awaits, a network call in the middle |
| send budget, `pipeline/send_budget.py` | `send_budget`, one row a day | check_and_reserve_slot, record_sent | check-then-act, midnight, ramp, circuit breaker |
| triage, `a10_triage.py` | `messages.status`, `suppressions` | classify_reply, triage_message | verdict in four commits, racing with sends |
| demo command, `cli.py: run` | none of its own | research, fit, draft, deliver in one process | delivers beside the worker and without approval |
| LLM client, `core/llm.py`, `core/cache.py`, `core/retry.py` | spend total, Redis and Postgres caches | complete_structured | check-then-act on the spend; two caches; Redis forgets everything when it restarts |
| search, `providers/search/` | a circuit breaker per provider | CompositeSearchProvider.search | late answers of calls begun before a breaker opened; cancelled calls |
| rate limiter, migrations, transports, learning (A9), profile (A6) | see section 6 and `components` in PROJECT.json | | |

Every statement runs through `core/db.py: acquire`, which opens no transaction:
each commits on its own, except the two of `claim_tasks`, which are joined by
`transaction`. A handler is therefore a sequence of commits that a failure cuts
off anywhere and a retry starts again from the top. That is what the models keep:
**a step is one statement, or one await on the network**.

What makes each part correct:

* the queue: one holder per row, no row lost, every failure charged once,
  finished rows stay finished;
* the pipeline: research is started once a company, nothing is made from missing
  research, a waiting lead is drafted, a status does not go back;
* research that is redone: no page is fetched and no answer bought again without a
  reason, and the columns of a company belong together;
* search: a silent provider is left alone soon, and tried again later;
* drafting: what awaits approval has passed the gate, and drafting again neither
  costs nor changes anything without a reason;
* delivery: no second mail without a crash, no mail to a suppressed lead, cap and
  ramp and halt obeyed, the ledger agrees with the mails;
* the approval queue: what is mailed is what was approved; an approval leads to a
  task;
* triage: a verdict is recorded whole;
* the LLM client: spend and bill stay near the ceiling, and an answer that is
  stored is not paid for again.

## 2. Modules

| module | models | composed with |
|---|---|---|
| `WorkQueue` | the abstract queue: jobs are queued, held, orphaned, over | `INSTANCE`d by the three below |
| `Columns` | what research does to the row of a company: three columns, filled in one order, never emptied | abstract; `INSTANCE`d by `CompanyResearch` and `LeadPipeline` |
| `Drafting` | what `generate_draft` does to the tables: the row, then the lead | abstract; `INSTANCE`d by `DraftLoop` and `LeadPipeline` |
| `CircuitBreaker` | one provider's breaker as its callers see it: closed, open, half open | abstract; `INSTANCE`d by `SearchChain`, once for each provider |
| `TaskQueue` | `tasks`, the workers, the coroutines | implements `WorkQueue` |
| `LeadPipeline` | ingest, research, fan-out, fit, draft | implements `WorkQueue`, a `Columns` for each company and a `Drafting` for each lead |
| `Delivery` | A8, send budget, A10 | its tasks are `WorkQueue` jobs |
| `Outreach` | the approval queue, redrafting, `cold-mailer run` | `EXTENDS Delivery` |
| `LlmClient` | `complete_structured`, its caches and its ceiling | called by the two below, which keep of it the answers it holds |
| `CompanyResearch` | A1 to A4 for one company: pages, searches, boards, evidence, prompts, columns | the research step of `LeadPipeline`, taken apart: implements `Columns` |
| `DraftLoop` | `generate_draft` for one lead: the attempts, the gate, the row | the draft step of `LeadPipeline` and the redrafting of `Outreach`, taken apart: implements `Drafting` |
| `SearchChain` | the search providers and their circuit breakers | `search` of `CompanyResearch`, taken apart: implements `CircuitBreaker` for each provider |
| `TaskQueueProofs` | claims, counters, ownership and the refinement of `WorkQueue`, proved | `EXTENDS TaskQueue, TLAPS` |
| `LeadPipelineProofs` | research payments, what fits are made of, the order of statuses, the parts it implements, proved | `EXTENDS LeadPipeline, TLAPS` |
| `CompanyResearchProofs` | fetches, purchases, readings of jobs, the row and the refinement of `Columns`, proved | `EXTENDS CompanyResearch, TLAPS` |
| `DraftLoopProofs` | the gate, the cost and the text of drafts made again, the refinement of `Drafting`, proved | `EXTENDS DraftLoop, TLAPS` |
| `DeliveryProofs` | mails, the cap, the ramp, the halt, the ledger, suppressions and triage, proved | `EXTENDS Delivery, TLAPS` |
| `OutreachProofs` | which texts are mailed, and enqueued approvals, proved | `EXTENDS Outreach, DeliveryProofs` |
| `LlmClientProofs` | the ceiling, the bill and repeated payments, proved | `EXTENDS LlmClient, TLAPS` |
| `SearchChainProofs` | calls to a silent provider, the refinement of `CircuitBreaker`, proved | `EXTENDS SearchChain, TLAPS` |
| `MC*` | the instances TLC checks | |

`TaskQueue` is the detailed model of the queue. `LeadPipeline` and `Delivery` use
its abstraction, so that the interleavings of the handlers can be explored; the
refinement `TaskQueue => WorkQueue` (run `MCTaskQueue`) is what makes that
legitimate while the database does not fail. Under database faults the refinement
does not hold (section 5), so the other two models speak of failing handlers and
killed processes, not of failing `complete_task` or `fail_task` calls.

The other three abstract modules join the pipeline to what takes its steps apart. `Columns`
and `Drafting` say what a company's row and a lead's tables show of a handler; the
detailed module and `LeadPipeline` both implement them, so what `LeadPipeline`
leaves out of these handlers cannot be seen in the tables it keeps. `CircuitBreaker` has
the three states of a breaker and no counter: that an open one is not called, that
only answers to a provider's own calls open or close its breaker, and that after the cooldown the first
answer decides.

### TaskQueue

A row is `status`, `attempts`, and two sets that stand for the clocks: `due`
(`run_after <= now()`) and `stale` (`claimed_at` older than `CLAIM_TIMEOUT_S`).
A worker is in `phase` idle (between ticks), claiming, locking (inside the claim
transaction, with its rows in `locked`) or gathering; each claimed row has a
coroutine in `runs` with a program counter. `complete_task` and `fail_task` name
the row by id alone in the code and so they do here: that nobody else owns the
row then is a theorem, not a guard. `BecomeStale` has the one timing assumption:
arq cancels a tick after 300 s (the default `job_timeout`) and the claim timeout
is 600 s, so a claim cannot go stale under a coroutine that its tick still
awaits. Coroutines that `gather` abandoned (`orphan`) are not bounded that way.
Faults are of three kinds: `crash` (the process is killed), `cancel` (the job
timeout), `db` (a call of `complete_task` or `fail_task` raises, before or after
its UPDATE took effect).

### LeadPipeline

An ingest is one invocation: it validates all rows of its file with one MX answer
per domain (`_mx_cache`), stores row after row, then enqueues the research of the
domains it touched. Several invocations interleave and each may be killed.
`company[c]` is the set of columns research has filled; `fit[l]` is the set the
row was made from, so that a fit from missing research would be visible. The
contents of research, fits and drafts are left out: no later step depends on them.
Which handlers raise is the constant `Failing`; where they raise is free.
What research does inside its four columns is `CompanyResearch`; what drafting does
before its row is `DraftLoop`.

### CompanyResearch

A pass is a walk along `Plan`, the statements of discover, analyze, find_jobs and
classify in their order: crawl a page, run a query, ask a model, probe a board,
store. `Stop` ends a pass at any of them, for a kill or an exception; a second pass is
the retry, or runs beside the first. `file[u]` is the page on disk: `PageCache.set`
truncates and then writes, so a file may be `torn` when it is read, and
`get` then raises (`Missed`). `evidence` is the sequence of texts by
`fetched_at`, unique because of its constraint; a prompt is the newest of them, so
evidence found in another order is another prompt. Answers are numbered in the order they
are bought and each pass carries the numbers it knows (`known`); `row.class` is the pair
that was classified, which is how mixed columns become visible. A posting in `jobs` names
the board, or the reading of the careers page, that it came from.

### SearchChain

A search awaits one provider at a time; recording the answer and skipping the
open breakers that follow is one step, since the code does not await between them.
`cooling` is the time `_open_until` is still ahead and runs down with `Tick`. An
empty answer is a success of its provider and the search goes on. `Mute` providers
have no key. `calls` counts the calls since the provider last answered or was cut off.

### DraftLoop

A run of `generate_draft` loads at most `EvidenceLimit` texts (any of them: the
SELECT has no order), asks for an answer through the cache, judges it with the
gate, goes round with feedback, and at the end writes row and lead in two statements.
A draft is the record of what the gate measures of it; the linter's error rules
and the grounding rule are operators on that record, with the code's rounding
and its percentage. Two runs, the worker's and `cold-mailer run`'s, work at once; evidence
grows (`Learn`) and a run may die at any await (`Kill`).

### Delivery

`call[<<c, l>>]` is the `deliver` call of caller `c` for lead `l`: its program
counter, the date and cap it computed, its result. Callers are the worker (several
calls of a batch at once) and `cold-mailer run` (one at a time). The transport
is external: it accepts, or raises before or after the provider took the mail.
Bounces and replies arrive for rows in `messages`; the classifier's verdict is a
free choice of `Kind`. Approval is one step here and is taken apart in `Outreach`.

### Outreach

A text is a version number. Drafts, edits and redrafts make new ones; `payload` is
the text in the task, `mailed` the texts the transport took. A request of the
operator is a GET followed by the statements of one POST; several run at once and
the web process may die between two statements. `cold-mailer run` upserts a
draft, reads back its status and calls `deliver` with the text it holds.

### LlmClient

`call[c]` is one `complete_structured` call under way, at one of its awaits: the
Redis read, the SELECT and the Redis write of `_get_cached`, the read of
the spend, the model, and the three writes that follow an answer. An answer has
a price and no content. `llm_retry` and PydanticAI's re-asks are folded into `Fail`
and `Cost`: a failed attempt may have been charged (`FailBilled`), or not. `Kill`
ends a call at any await, for a killed process, a cancelled tick or an exception
of Redis or Postgres. Redis entries expire at any time, and `Restart` empties
Redis, the spend included: `docker-compose.yml` starts it without persistence.

## 3. What the runs check

Bounds are in the `.cfg` files; "faults" is the total number of crashes and the
like in a behaviour.

| run | instance | what it shows |
|---|---|---|
| `MCTaskQueue` | 2 workers, 3 tasks (one without handler, one that A10 may stop), batch 2, 2 attempts, 2 faults of crash and cancel | one run per task, and it owns its row; open claims are disjoint; attempts equal failures; the whole implements `WorkQueue`, where what is over stays over |
| `MCTaskQueueFaults` | 2 workers, 2 tasks, 1 fault of any kind, fair | what survives a failing database statement, with its orphaned coroutines: attempts stay in their budget, a handler returns at most `1 + faults` times, a row is done only after its handler returned, every task settles for good |
| `MCLeadPipeline` | 2 leads of one company in two overlapping files, 2 handlers at once, research may raise, 1 kill, fair | research is started at most `1 + failures + kills` times; fits have all four columns; a status goes back only by an ingest or after a kill; a lead that is stored before the research task runs is drafted, or a task on its way has failed for good; the whole implements the queue, the columns of its company and the drafting of each lead |
| `MCLeadPipelineLate` | the same, nothing fails | refuted: every valid lead is drafted (section 5) |
| `MCCompanyResearch` | 2 passes, 2 pages, 1 query, 1 board, 2 texts per prompt, 1 page grows old | a page is fetched once but for age, overlap and kills; a model is asked again only for new evidence; a careers page is read into `jobs` once; after a pass that ran alone, the class is of the profile and intelligence beside it; the row is filled as in `Columns` |
| `MCSearchChain` | 3 searches, 3 providers (one mute), threshold 3, cooldown 2, 1 cancel, the clock fair | beyond the calls under way together a silent provider is called `threshold - 1` times; a breaker does not stay open for ever; each provider has a `CircuitBreaker` of its own |
| `MCDraftLoop` | 2 runs, 1 text that appears, 2 drafts at the edges of the gate, 2 regenerations, 1 lost answer | what awaits approval is presentable by an independent definition; drafting again costs one set of attempts per state of the evidence, as many more as there were overlaps, and one answer per loss; the text on view changes only for new evidence or after an overlap; the tables change as in `Drafting`. `GateAssumption` compares gate and definition on 11 000 more drafts |
| `MCLlmClient` | 3 calls, 2 prompts, prices 1 and 2, ceiling 2, 2 tries, 1 lost call, 1 Redis restart | the spend passes the ceiling by at most the calls under way together; the bill by no more than that per life of Redis and one price per lost call; a prompt is paid for again only by overlapping calls or after a lost one |
| `MCDelivery` | 2 leads, batch 2, bounces, replies, manual suppressions, business hours, 1 crash | no mail after the row is there; none to a lead suppressed before the call; verdicts are recorded whole; a day halted by the bounce rate stays halted for every call that starts or goes on after it, although the rate recovers |
| `MCDeliveryBudget` | worker and demo command, 2 leads, 3 days, caps 1, 2, 2, 1 crash | the cap is exceeded by at most the calls that run together, less one; the ramp counts days with sends, whichever call created the row; the ledger agrees with the mails but for a crash or a midnight between INSERT and `record_sent` |
| `MCDeliveryBlocked` | 2 leads, cap 1, business hours | refuted: a blocked send stays pending (section 5) |
| `MCOutreach` | 1 lead, 2 requests, 3 texts, worker and demo command, 1 crash of worker or web | every text mailed by the worker was approved or edited by the operator; one text per lead; a recorded approval has a task; at most one mail per caller and crash |

Two workers, two tasks per batch and two attempts are the smallest numbers with
every interesting case: a race for a row, a batch whose sibling goes on, a retry and
a last attempt. A third worker or a second crash of the same kind repeats a
situation; for the queue the proofs remove the bound. Two leads are needed for a
batch or for two callers at the gate, three days for a ramp of two steps. Three
calls for one prompt are the smallest number that passes a ceiling already reached
by more than the slack allows; two of the three tries of `llm_retry` have a first
and a last one. Two files are the smallest number with a lead that comes late. Three
texts are an original, a redraft and an edit. Two passes over a company are a pass
and its retry, or two that overlap; two texts in a prompt
make the order of the evidence matter. Three searches are the threshold of the code's
breaker: all of them can fail at once, or two of them late. Two drafts are enough to pass,
to fail, and to pass only after the evidence has grown.

Deadlock is switched off (`CHECK_DEADLOCK FALSE`) where the instance ends: all
leads are mailed, the last day is over, the files are read, all passes are over. The
others never stop (ticks, business hours, searches, drafts that are made again),
and deadlock is checked there.

**Fairness.** In `TaskQueue`: the cron job fires every 5 s and the supervisor
restarts a worker (`Tick`, which includes `Startup`), time passes (`BecomeDue`,
`BecomeStale`) and the event loop runs ready coroutines (`RunStep`). The
compose file gives the worker no restart policy, so the restart is an assumption
on the deployment. No fairness is assumed of faults, of the operator or of
producers. `LeadPipeline` assumes only that the worker as a whole
does not stop while it can do anything, and that a started ingest which is not
killed goes on. `SearchChain` assumes only that the clock goes on (`Tick`).

## 4. What is proved

Every safety and action property that a passing run checks is also a theorem, for
every value of the constants that the module's assumption admits. Each theorem is
listed in PROJECT.json; the tables name the property it states. The pattern is
always the same: an inductive invariant, a lemma that it holds at first, one that
every action preserves it, one that it implies the property. `TypeOK` is part of each; the types are proved and are
no run's question. A refinement adds a lemma by which every step under the invariant
is a step or a stutter of the abstract module.

### The queue

From `TaskQueueAssumption`, for any sets of tasks and workers, any batch size, number
of attempts and number of faults:

| theorem of `TaskQueueProofs` | says | holds |
|---|---|---|
| `TypeCorrect` | `[]TypeOK` | whatever fails |
| `ClaimsAreDisjointTheorem` | `[]ClaimsAreDisjoint` | whatever fails |
| `AttemptsBudgetTheorem` | `[]AttemptsBudget` | whatever fails |
| `DoneMeansHandledTheorem` | `[]DoneMeansHandled` | whatever fails |
| `ExtraReturnsTheorem` | `[]ExtraReturnsAreFaults` | whatever fails |
| `OneRunTheorem` | `[]OneRunPerTask` | if `"db" \notin Fault` |
| `RunOwnsRowTheorem` | `[]RunOwnsRow` | if `"db" \notin Fault` |
| `EveryFailureChargedTheorem` | `[]EveryFailureCharged` | if `"db" \notin Fault` |
| `FinishedIsFinal` | `FinishedStaysFinished` | if `"db" \notin Fault` |
| `TableImplementsQueue` | `ImplementsWorkQueue` | if `"db" \notin Fault` |

The hypothesis says that no call of `complete_task` or `fail_task` raises. The five
theorems under it are false without it (TLC finds each violated with one such fault),
because a call that raises leaves orphaned coroutines that go on beside a new claim of
their row (sections 3 and 5).

*Whatever fails*, a row may have several runs, so nothing can rest on who
owns it. `Shape` says what still tells runs apart: the claim that started one
(`RunsAreTold`), the tick that still gathers it (`TicksGather`), and that only
a claim no tick watches grows stale (`StaleIsUnwatched`). `Accounts` then
balances the past of a row as a credit: the returns it has had, plus the open claims
that may still return, plus one if it waits to be claimed, are at most `1 + faults`
(`ReturnsPaid`). A claim turns the one into an open claim, a return turns the open
claim into a return, and only a fault makes a row wait without having used one up.

*Without database faults* the invariant is `Ownership`. `complete_task`, `fail_task` and
the reaper update a row by its id (or its age) alone, so that a run works on the row
it claimed is not checked anywhere: it has to follow from who may hold a row.
`Ownership` says that a row has at most one run, that it is `claimed` while it has
one, that open claims lock disjoint sets of `pending` rows, that no run is orphaned,
and, which makes it inductive, that a stale row has no run (`StaleIsAbandoned`):
only then is it harmless that the reaper takes the row away. `Ledger` adds that the
attempts a run has read are the row's until it writes them back (`ReadIsFresh`),
so no failure is lost between the two statements of `fail_task`.

The refinement maps a row to a job by its status and by whether a run of it is
alive (`JobOf`). Its lemmas have one step per action of `TaskQueue`: `Claim` takes jobs,
`Crash` and `Cancel` orphan them, `Reap` recovers them, `CompleteTask` and
`FailTask` finish or retry one, and the statements between them are stutters.

### The pipeline

From `LeadPipelineAssumption`, for any files, leads and companies, whichever
handlers raise and however many processes are killed:

| theorem of `LeadPipelineProofs` | says |
|---|---|
| `TypeCorrect` | `[]TypeOK`: no lead gets a status the column refuses |
| `ResearchPaidTheorem` | `[]ResearchPaidOnce` |
| `FitHasResearchTheorem` | `[]FitHasResearch` |
| `StatusAdvancesTheorem` | `StatusAdvances` |
| `PartsTheorem` | `ImplementsParts` |

A first lemma reduces every step of the pipeline to a step of `WorkQueue`, so that
the facts about the queue are proved once. All need `RunningIsHeld`: a handler at work
has its task held, so the reaper cannot have given it to another.
* `FitInv` adds `ResearchFills`, which columns there are at each statement of research,
  and `FitAfterResearch`: a fit task exists only once its company has all four.
* `PaidInv` adds `ResearchAccount`: starts of research are matched by the attempts
  charged, the killed processes and the task's present state.
* `OrderInv` is about the tasks of one lead: while no process was killed, a draft
  task exists only if the fit task is past its last statement or over, and only a lead
  with a draft task awaits approval (`Ordered`). So no statement of the fit
  can overwrite what the draft has set. A fit that is killed after it enqueued the draft runs
  again, which is why the property excuses kills.
* `PartsTheorem` is three refinements at once. `QueueImplemented` maps each step to a
  step of `WorkQueue`; `ResearchMoves` and `DraftMoves` say how any step moves the
  research of one company and the draft of one lead, and `ColumnsImplemented` and
  `DraftingImplemented` read these moves as steps of `Columns` and `Drafting`. Finding
  the jobs (A3) writes no column and is a stutter of `Columns`; an ingest or a fit that resets
  a lead is `TakeBack` of `Drafting`. `RunningIsHeld` is what rules out that a handler is
  started while it is at work.

### Research

From `CompanyResearchAssumption`, for any site, queries, boards and texts, any number of
passes beside each other or one after the other:

| theorem of `CompanyResearchProofs` | says |
|---|---|
| `ResearchTypesTheorem` | `[]TypeOK` |
| `OneFetchTheorem` | `[]OneFetchPerPage` |
| `NewsTheorem` | `[]PaidForNewsOnly` |
| `ReadingTheorem` | `[]OneReadingOfJobs` |
| `RowTheorem` | `[]RowIsOfOnePass` |
| `ColumnsTheorem` | `ImplementsColumns` |

The assumption asks for lists that are sequences, at least one careers page to try,
finitely many passes, and a text for each page and query.
Since the plan is a sequence computed from the constants, the first lemmas say where its statements
stand: A1, A2 and A4 are asked at one place each, in this order, and a jump forward
(`Onward`) skips none of them.
* `FetchInv` counts, for a page, the fetches made, those under way, and one more if the
  file is missing and nobody is fetching it. Only age, a request beside another and
  a pass that stops before it writes raise the other side.
* `Bought`: the answers paid for are at most the distinct prompts asked. What makes
  that worth something is `PromptsMade`: the evidence only grows at one
  end, so a prompt is a window of it, and two prompts with the same set of texts are
  the same prompt. Prompts therefore count sets of evidence.
* `OwnNumbers` keeps answers apart, so that a number in a column names one answer.
* `OnePass` says what the one pass that runs has written so far, and thus that the three columns
  are its own when it ends.
* For `ColumnsTheorem` a pass is mapped to the column its place in the plan is on the
  way to. A jump forward must not leave a column out, and a column that is written must
  not be written empty: `FirstKnown` adds that a pass beyond A1 knows its answer, the one
  thing `Inv` did not say of all passes.

### Drafting

From `DraftLoopAssumption`, for any drafts, texts, runs and number of regenerations:

| theorem of `DraftLoopProofs` | says |
|---|---|
| `TypeCorrect` | `[]TypeOK` |
| `GateTheorem` | `[]GateHolds` |
| `RedraftCostTheorem` | `[]RedraftIsFree` |
| `RedraftKeepsTextTheorem` | `RedraftKeepsText` |
| `DraftingTheorem` | `ImplementsDrafting` |

`GateTheorem` rests on `PassesIsPresentable`, which is about the arithmetic: rounding
halves to even never admits more dashes than one per 300 words to the nearest, and 55
per cent of the words found are more than those not found. Its invariant says
which texts a run judges by, that they stay among the facts, and that a run reaches
its upsert with a draft that passed or with its last attempt used up.

`DraftingTheorem` hides the attempts, the cache and the evidence: a run is seen first when it
writes the row and last when it marks the lead. `IInv` is enough for it: what is
upserted is a draft, and no statement but these two touches the row or the lead.

The other two are about the loop through the cache. If every prompt had one answer, the
prompts of one state of the evidence would form one chain, each made from the answer to the
one before, and whoever drafts again would walk it. Two runs that ask the same prompt at
once may get two answers, and the chain forks. The invariant `RInv` follows the fork by
*lanes*: the answer of the i-th overlap opens lane i, every other answer stays in the lane
of its prompt. Then a text, a lane and a count along the lane determine one prompt
(`OneWay`, `Follows`); every run, every answer and the row are on this way (`Way`); and
who asks has the lane of its answer to itself (`Alone`). Each paid answer is kept, about
to be kept, or lost (`Bill`), and those kept inject into states of the evidence, counts
and lanes (`BillIsSmall`), which is the bound. Without overlaps there is one lane, so
drafting by one text can end in one draft only (`OneEnd`), lost answers or not.

Looking for this invariant corrected the property. The bound first stated, a set of
attempts more for each overlap, is false as soon as there are two states of the evidence and
an overlap: from both answers drafting goes on by each text. The product is
what holds. In exchange, lost answers no longer excuse a changed text.

### Delivery

From `DeliveryAssumption`, for any leads, any subset of the two callers,
any batch size, caps and bounce window, any number of days and crashes:

| theorem of `DeliveryProofs` | says |
|---|---|
| `TypeCorrect` | `[]TypeOK` |
| `MailTheorem` | `[]ExtraMailsAreCrashes` |
| `OneCallerTheorem` | `NoMailAfterRow`, if there is one caller at most |
| `CapTheorem` | `[]CapSlack` |
| `RampTheorem` | `[]RampCountsSendingDays` |
| `HaltTheorem` | `[]HaltIsSticky` |
| `SuppressionTheorem` | `[]SuppressionIsFinal` |
| `VerdictTheorem` | `[]VerdictRecorded` |
| `LedgerTheorem` | `[]BudgetLedger` |

All of them stand on `Dates`: no row is made before its day, and a call past the
upsert holds a date whose row is there. `TypeOK` itself needs it, because
`check_and_reserve_slot` writes to the row of the date it read before.
* `MailsLeft` is the account behind `MailTheorem`: the mails made, plus one for each
  caller that may still make one, never exceed the callers and the crashes. A send
  spends the caller's one; nothing but a crash gives it back, because a
  handler that raises at the INSERT has found a row, and the retry stops at the
  duplicate check.
* `CapLeft` strengthens `CapSlack` by the calls that are about to ask the row of
  an earlier day: `check_and_reserve_slot` may let such a call through on
  yesterday's row after today's is full, and `record_sent` then counts it today. That
  costs no extra slack, since such a call occupies a slot all along.
* `CapIsCurrent`: the cap a call computed in one statement is still right when another
  makes the row, because the earlier days are settled by then.
* `BarredStops` and `FrozenStops` say how far a call gets once its lead is suppressed
  or the day halted; both hold because `Grows`: no suppression, row or halt is ever
  taken back.
* `LedgerInv` adds to `BudgetLedger` that a call which has sent holds a day that has
  begun and has its `send_budget` row (`SendersHaveRow`), so that `record_sent` counts
  in a row that is there.
* `OneCallerTheorem` needs its hypothesis: with the worker and `cold-mailer run`
  together both may be past the duplicate check, and each sends.

### The approval queue

From the same assumption and `OutreachAssumption` (there is a lead, and a text), for any
leads, requests and texts:

| theorem of `OutreachProofs` | says |
|---|---|
| `OutreachTypesTheorem` | `[]OutreachTypeOK` |
| `CheckpointTheorem` | `[]OnlyApprovedTextIsMailed` |
| `OneTextTheorem` | `[]OneTextPerLead` |
| `EnqueuedTheorem` | `[]ApprovalIsEnqueued` |
| `OutreachMailTheorem` | `[]ExtraMailsAreCrashes` |

`OutreachSteps` shows that each step is a step of `Delivery` or a `WebStep`, which
enqueues and sets the status of leads and leaves messages, budget and mails alone; the
invariants of `DeliveryProofs` then carry over without a second proof per action.
`TextInv` follows a text through the statements of a request: who is about to enqueue has
its decision logged (`EnqueuersAreLogged`), so the payload of a task was approved
(`TasksAreApproved`), and what has been mailed is the payload or the text of
`cold-mailer run` (`MailedTexts`). The payload is written once, by the
enqueue that finds no task; that is also why the worker mails one text only.

### The LLM client

From `LlmClientAssumption` (finitely many calls at a time, prices with a maximum, a
positive ceiling) and with no bound on kills, restarts or retries:

| theorem of `LlmClientProofs` | says |
|---|---|
| `TypeCorrect` | `[]TypeOK` |
| `CeilingHolds` | `[]CeilingSlack` |
| `BillTheorem` | `[]BillBound` |
| `PaidOncePerOverlap` | `[]PaidByOverlapOnly` |

`CeilingSlack` is inductive with the types: it weighs each call between the gate and
`_record_spend` with the dearest price, so passing the gate can only happen
below the ceiling and recording moves at most that weight into the spend.
`BillBound` needs the exact sum instead: every unit billed is of an earlier life of
Redis, in the spend, owed by a call that has yet to record it, or lost (`Bill`).
`PaidByOverlapOnly` needs `PaidFor`: until a prompt has its row, every answer paid
for is held by a live call or was lost; once it has, those that still seek it
are all that can pay, and nobody joins them, because `_get_cached` falls back to
the table whenever Redis has forgotten.

### Search

From `SearchChainAssumption`, for any number of searches and providers, any threshold
and cooldown:

| theorem of `SearchChainProofs` | says |
|---|---|
| `TypeCorrect` | `[]TypeOK` |
| `FewCallsTheorem` | `[]FewCallsBeforeQuiet` |
| `BreakersTheorem` | `EachHasItsBreaker` |

`FewCallsBeforeQuiet` is inductive with the types: a call that begins adds to both
sides, one that fails moves from the calls under way to the recorded failures.

`BreakersTheorem` reads the state of a breaker off the code's counter and clock: open while
`_open_until` is ahead, half open when it is past and the counter has not been reset. When
the cooldown is over it must be half open and not closed, which is `OpenIsFull`: an open
breaker has counted to the threshold. A step of the chain concerns several
providers, since a search leaves one, skips open ones and calls the next; the lemma `BreakerStep`
shows that for each of them it is one step of its breaker at most.

### Sums

A sum over calls or days is a recursive definition, about which induction would
have to speak, and the prover cannot do that. Where a property or an invariant needs one it is
the size of a set of units instead: `Owed` has a unit `<<c, i>>` for each of the
`cost` units call `c` owes, `Counted` one for each mail a day has counted. The
library's theorems about cardinality then do the sums.

### Not proved

Liveness is checked by TLC alone (`EveryTaskSettles`, `WaitingLeadIsDrafted`,
`ProviderComesBack`): the prover has neither fairness nor `ENABLED`. The comparison
of the gate with its definition in `MCDraftLoop` (`GateAssumption`) is an evaluation
of drafts one by one; `PassesIsPresentable` is its proof in the direction `GateHolds`
needs. That `CompanyResearch` and `DraftLoop` may keep of `LlmClient` only the answers it holds
is argued in section 2 and not proved. That the tasks of `Delivery` are jobs of the queue
needs no theorem: each of its actions names the action of `WorkQueue` it takes.

## 5. Where the code and its documentation disagree

Two statements have a run of their own, which TLC refutes:

| statement | run | what happens |
|---|---|---|
| valid leads "join the research queue" (`cli.py:31`), research fans out "to every lead waiting" (`company_research.py:2`) | `MCLeadPipelineLate` | a second file is stored while research is past its SELECT; its enqueue is a no-op because the dedupe key is taken, and the lead stays `validated` for ever |
| a blocked send "stays pending, retried next tick" (`DESIGN.md:277`) | `MCDeliveryBlocked` | `_handle_send_message` ignores the result, the task is done and the mail is never sent |

Others were met on the way. Where the models check a weaker property that does
hold, it is named:

* "nothing double-runs" (`state_machine.py:14`): a worker killed between the
  handler and `complete_task` makes the handler run again. What holds is
  `ExtraReturnsAreFaults`.
* "Tasks it already marked `done` stay done" (`state_machine.py:9`):
  `complete_task` is inside the `try` of `_run_one`, so if it raises after its
  UPDATE took effect, `fail_task` makes the row pending again. `FinishedStaysFinished`
  therefore holds without database faults only, and so does the refinement.
* "the hard guarantee against double-sending" (`001_init.sql:139`): the row is
  inserted after the send. What holds is `ExtraMailsAreCrashes` and `NoMailAfterRow`.
* A8 "refuses to exceed" the caps (`core/config.py:73`): nothing is reserved, so a
  batch passes the gate together. What holds is `CapSlack`.
* `core/llm.py:2` promises "a hard spend ceiling": concurrent calls pass it together,
  failed attempts are billed and not counted, and a restart of Redis resets it.
  What holds is `CeilingSlack` and `BillBound`.
* "let the task queue retry" (`a8_deliver.py:90`): a failed send is an ordinary
  result, and the task is done.
* invalid rows are "recorded as suppressed" (`cli.py:32`): a lead that is known
  already keeps its status, and a lookup that timed out counts as no MX.
* an ingest of a known lead sets its status back to `validated`, whatever it was.
* a draft "cannot reach Agent 8 without a human clicking Approve first"
  (`web/app.py:5`): `cold-mailer run` delivers drafts that await approval
  (`cli.py:133`). `OnlyApprovedTextIsMailed` is therefore about the worker's mails.
* "the edited copy is what gets sent" (`web/app.py:139`): an edit after an approval is
  logged, but the dedupe key keeps the first text in the task. What holds is
  `OneTextPerLead`.
* a lead whose draft failed "never reached the approval queue" (`DESIGN.md:412`): its row is `draft`, but the
  lead is marked anyway (`a7_generate.py:172`) and the queue page lists it
  (`web/app.py:57`). `GateHolds` is about the row.
* a reject after an approval leaves the send task queued (`web/app.py:126`), and the
  draft is mailed.
* `leads.status` becomes `sent` whatever it is by then (`a8_deliver.py:112`): a reply
  triaged between the INSERT and this UPDATE loses its status on the lead, though
  not on the message (`VerdictRecorded`).
* the reaper charges no attempt (`state_machine.py:149`): a handler that kills its
  process is reclaimed for ever. Liveness is stated for boundedly many faults.
* `fetch_jobs` returns an empty list "(never raises)" (`providers/ats/base.py:32`): `network_retry` re-raises
  network errors, so a board that is down fails the research, which is retried.
* a board that answers anything but 200, a 429 too, looks like no board. The careers page is
  then read by the model, and since no row of `jobs` is ever deleted, postings of both
  readings stay.
* a retry after A2 has stored its evidence gives A1 another prompt, so A1 is paid for
  again: `PaidForNewsOnly` counts states of the evidence, not passes.
* a page file torn by a kill is never repaired: `get` raises and `crawl_and_store`
  takes the page for a bad URL, until somebody deletes the file.
* a second pass that stops halfway leaves a company whose columns are of two
  passes, with status `researched`. What holds is `RowIsOfOnePass`.
* zero results are what the breaker "is built to route around"
  (`providers/search/ddgs.py:9`), but an empty answer is a success for it. A late success of an old call also closes a breaker
  that later failures have opened.
* if two attempts of A7 fail in the same way, the third has the same prompt: it is a
  cache hit and fails as well.
* `evidence` is read with LIMIT 50 and no ORDER BY (`a7_generate.py`), so a rerun may
  judge a draft by other rows than the first run.

## 6. What is not modelled

* **Migrations** are run by hand before the program starts. One for which an extension is
  missing is recorded as applied (`core/migrate.py:55`) and never applied later;
  nothing concurrent or repeated depends on it.
* **Rate limiter**, **Crawl4AI**: nothing constructs them, so no behaviour of the program
  depends on them.
* **A9** and `report` aggregate and change nothing that others read; **A6** is a cached
  read of one file.
* **Transports**: `send` accepts or raises, before or after the provider took the mail.
  MIME, OAuth and token refresh are formatting and I/O; `network_retry` is inert there,
  since SMTP and Gmail raise none of the exceptions it retries.
* **ATS clients**: the JSON of each board becomes a list of postings; the probing
  that chooses among them is modelled.
* **Prompts, contracts, configuration, logging, embeddings**: wording, types and constants.
  Of the contracts one thing matters: `EmailDraft` admits only three subjects and a short
  note, so two errors of the linter cannot occur. Lint warnings decide nothing.
* `stage_runs` and `events` are ledgers no decision depends on. The web pages are
  rendering.
* The database pool: it bounds how many statements run at once, not their order.

## 7. Where it could go on

All modules of section 2 are written, and every safety property, action property and
refinement of section 3 has its theorem. What would say more about the system:

1. `Outreach` as an implementation of `Delivery` and of `Drafting`: `OutreachSteps` is the
   step lemma of the first; what is missing is an abstract approval in `Delivery`
   that a rewritten draft may take back.
2. An abstract `LlmClient` (a store of answers that fills and may lose one before it
   is kept) for `CompanyResearch` and `DraftLoop` to stand on.
