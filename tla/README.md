# EverPresent in TLA+

EverPresent measures how AI answer engines talk about a brand. A *run* puts a matrix of prompts
(question x persona x location x sample) to several answer surfaces, through provider APIs (*Mode A*)
or by scraping web interfaces (*Mode B*), stores the answers, and derives mentions, citations and
daily scores from them. Calls cost money, a tenant has a monthly cap, workers are killed by deploys,
and three kinds of process (API threads, a scheduler loop, RQ workers) share one PostgreSQL database
and two Redis queues. These modules model the part of that system where ordering, crashes and money
make mistakes easy.

## 1. Inventory

| component | source | state | operations | what is hard |
|---|---|---|---|---|
| run life cycle | `api/runs_service.py`, `worker/jobs.py` | `runs` rows (status, mode set, counts, times), tenant row lock | trigger, resume, reap, start, hand over, finalize, fail | concurrent triggers, stale reads, a crash between any two commits |
| queues and workers | `api/queue.py`, `worker/main.py`, `worker/combined.py` | two RQ queues, started registries | enqueue, take, drain in order | an enqueue that raises after it took effect; SIGKILL; one worker for two queues |
| Mode A dispatch | `worker/jobs.py` `_dispatch_all`, `_run_mode_a` | answers, `counts`, `cost_usd`, reserved estimates | build the work, skip what is answered, reserve, call, save | many calls in flight against one cap; a crash between answers; resume |
| Mode B dispatch | `worker/jobs.py` `_run_mode_b` | answers, `counts`, breaker per surface | build, skip, book, scrape, save | spend booked before the answer is stored; a wall that fails every call |
| fan-out re-probe | `worker/jobs.py` `_run_fanout_reprobe`, `api/fanout_service.py` | shards per run, `counts` | rank, mark, ask, save | shares the run row with the finalizing job |
| spend cap | `api/runs_service.py` `month_spend_usd` | cost of runs and utility calls this month | check, book | several processes check before any of them books |
| scheduler | `worker/scheduler.py`, `api/scheduling.py` | schedules' next time, heartbeat, day watermark | tick, fire, nightly jobs | a crash between advance and fire; caps per day; repeated nightly jobs |
| processing | `api/processing_service.py`, `engine/processing/*` | mentions, citations, classifications, daily scores | delete and recompute, roll up a day | run twice, run while answers arrive, one step of several failing, four callers that do not know of each other |
| playbook | `api/recommendations_service.py` | recommendations and their status | derive plays from thirteen sources, merge, resolve; people edit | a regeneration must not lose what a person decided, nor take a failed source for good news |
| dashboards | `api/dashboards/*`, `api/answer_shape_service.py`, `api/agent_picks_service.py` | none: operators over answers and questions | scorecards, alerts, breaks, fan-out screens | a dozen reads of the same rows, each with its own filter, that must not contradict one another |
| capture import | `api/capture_import_service.py` | a run and its answers, dated when captured | check for duplicates, store, process | answers of past days and of any model among those of runs |
| proof of fixes | `api/proof_service.py` | fixes shipped | window, controls, verdict | an engine that changes its model around the ship day |
| plan limits and questions | `api/plans.py`, `api/query_controls.py`, `api/yaml_import.py` | plan, active questions, personas, surfaces | count, check, pause, import | check-then-act under concurrent requests; an import that replaces rows others refer to |
| drafts | `api/content_service.py`, `api/config_draft_service.py` | drafts per gap, status, spend ledger | check budget, call, store; people approve | two clicks on one budget; a replacement that meets an approval |
| engine checks and readiness | `worker/smoke.py`, `api/readiness_service.py`, `api/routes/admin.py` | switches, approved list, checks | toggle, import, check, verdict | whole lists read and written back; evidence out of order |
| page crawl, Your Pages | `worker/page_crawl.py`, `api/own_pages_service.py` | page rows, facts | fetch, check, store; edit facts | pages and facts change between a fetch and its row |
| agent analytics, first-party data | `api/agent_analytics.py`, `api/first_party_service.py` | bot hits per day, bot, path, status; imported metrics | ingest a log in batches, import a snapshot | the same log twice, a stream cut in the middle, uploads that overlap |
| mirror and GA4 | `worker/mirror.py`, `worker/ga4_pull.py` | id watermark per table | copy pages of rows, advance; walk the tenants | rows committed out of id order, two jobs at once, one session for all tenants |
| waitlist | `api/waitlist_service.py`, `api/routes/waitlist.py` | applications, rate counters in Redis | apply, resubmit, decide | two Redis commands that can each fail; a resubmission against an admin's move |
| auth, notifications, storage, health | `api/auth.py`, `api/notifications.py`, `api/storage.py`, `api/health*.py` | one row or stamp each | one write per request | nothing the other parts decide on |
| retrievers, LLM, audit | `engine/retrievers/*`, `engine/llm/*`, `engine/audit/*` | none between calls | one call each | the network: external to the model |
| front end | `app/` | browser state | pages | a client of the API |

How they interact. The API and the scheduler call `trigger_run`, which locks the tenant row, reads
the live runs and Redis, commits a pending run and then enqueues its first job. A worker takes the
job, asks the surfaces, commits each answer with the run's counters, and either hands the run to
Mode B (another job, another queue) or finalizes it: final status, processing pass, notification,
and possibly a re-probe job. Worker start-up and every scheduler tick reap runs whose job is gone.
Everything that costs money reads the month's spend before it spends.

What makes each part correct is in the property comments of the modules; the hazards they answer are
listed, each at its source line, in `PROJECT.json`.

## 2. Plan

The order follows the money and the runs: first what decides whether a run exists once, ends, and
spends what it may; then what is derived from it; then what is shown and the services beside it.

| step | modules | proofs |
|---|---|---|
| 1 | `RunLifecycle`, abstract `RunLife` | `RunLifecycleProofs`, the refinement included |
| 2 | `ModeADispatch`, `ModeBDispatch`: one job of one run each | `ModeADispatchProofs`, `ModeBDispatchProofs` |
| 3 | `FanoutReprobe`: the re-probe job beside processing passes | `FanoutReprobeProofs` |
| 4 | `Scheduler` | `SchedulerProofs` |
| 5 | `Processing`: passes of four callers, the daily roll-up | `AnswersProofs` |
| 6 | `Playbook`: thirteen sources, merge, people | `AnswersProofs` |
| 7 | `Measures`: dashboards and the proof of fixes over stored answers; `PastDays`: its reports now and at the end of yesterday | `AnswersProofs` |
| 8 | `SiteData`, `Drafts`, `EngineChecks`, `Waitlist`, composed in `MCServices` | `ServicesProofs` |
| 9 | `ShardHistory`: shards over many runs and the fan-out screens (in `MCServices`) | `ServicesProofs` |
| 10 | `Warehouse`: mirror and GA4 pull | `ServicesProofs` |

`FiniteFacts` holds the lemmas on finite sets, sums and orders that several of the proofs use.

Composition. `RunLifecycle` keeps of a dispatch only what its status decisions read (does an answer
exist, is the count above zero); `ModeADispatch` and `ModeBDispatch` open one dispatch up and keep of
the life cycle only the status they read and write. `FanoutReprobe` starts where `RunLifecycle`'s
`Process` happens, and `ShardHistory` takes each of its jobs and passes as one step and lets the rows
of several runs meet. `Processing` runs the passes `RunLifecycle` ends with, `Playbook` what closes a
pass. `Scheduler` sees a trigger as the two outcomes `RunLifecycle` gives it, and `Warehouse` what
its nights enqueue. `RunLifecycle` implements `RunLife` (`ImplementsRunLife`, `INSTANCE RunLife WITH
life <- ...`), the run service as its callers see it.

Open: one ledger for every spender of a tenant with the month's end (each spender is modelled against
a constant spend of the others; drafts and engine checks share one).

## 3. The modules and the code

### RunLifecycle (`api/runs_service.py`, `worker/jobs.py`, `worker/combined.py`)

| model | code |
|---|---|
| `status`, `modes`, `resumes`, `completed` | columns of `runs`: status, mode_set, counts.resumed, counts.completed > 0 |
| `fresh`, `expired` | created_at within START_GRACE; started_at (or created_at) older than IN_FLIGHT_TTL |
| `answered`, `derived` | answers stored per mode; whether the processing pass ran since the last one |
| `lock` | `SELECT ... FOR UPDATE` on the tenant |
| `queue`, `orphans` | the RQ lists and the started registries of dead workers |
| `TriggerBegin/Refused/Creates` | `trigger_run`: lock, read the live rows; read Redis; decide, commit |
| `ResumeBegin/Refused/Commits` | `resume_run`, the same without the lock |
| `EnqueueFirst`, `EnqueueFailed` | `enqueue_run` after the commit, and the except branch that marks the run failed |
| `ReapBegin`, `ReapCommits` | `reap_abandoned_runs`: SELECT, Redis, UPDATE |
| `StartA`, `StartAUnconfigured`, `StartB`, `SkipJob` | the first transaction of `_run_mode_a` / `_run_mode_b` and its status guard |
| `SaveAnswer`, `CloseDispatch`, `Handoff` | per-answer commits, totals, `_handoff_to_mode_b` |
| `Finalize`, `Process` | the two halves of `_finalize_run` |
| `JobRaises` | the outer except of both jobs (Mode B's salvage included) |
| `KillWorker`, `KillActor`, `HeartbeatLapses`, `GraceEnds`, `TtlPasses` | SIGKILL and time |

`RunLife` is the same service without queues, workers and reapers: `Begin`, `End`, `Revive`;
`Life(r)` maps a row's status to it and `ImplementsRunLife` instantiates it.

Granularity: a database transaction is one step unless it talks to Redis between its SELECT and its
COMMIT; then the rows it read are kept in `rows` until it decides, which is what makes stale reads
visible. Counters are rebuilt in the step that starts a job, since nothing else writes them at that
moment. An exception inside `_finalize_run`'s own commits is left out.

### ModeADispatch (`worker/jobs.py`: `_run_mode_a`, `_dispatch_all`, `_persist_a_outcome`)

`Load` builds the work (`SkipDone` is the multiset difference with stored answers, `CachedTwins` the
reuse of search-disabled answers), `StartCall`/`Withhold`/`ReturnOk`/`ReturnError` are the body of
the dispatch coroutine around its awaits, `PersistBegin` and `PersistAnswer`/`PersistError` the read
and the commit of the saving thread under `_PERSIST_LOCK`, `Close` phase 3. `Raise`, `PersistFails`,
`MarkRunFailed`, `Kill`, `Resume` are what interrupts it. `price`, `charged` and `lost` are history:
what a provider bills, which the code never knows. The cells are a constant set (the matrix is
`WorkMatrix`'s).

### ModeBDispatch (`worker/jobs.py`: `_run_mode_b`; `engine/retrievers/google_aio.py`)

A sequential loop over a work list, of which `left` is the part still to do: `Skip` (breaker open), `StartCapture` (cap check, cost added
upfront), `SecondSearch` (the page_token follow-up inside `capture`), `RetrySearch` (`_serpapi_get` sends
the search in flight again, `Price` being what that may cost), `EndCapture` (returned, wall,
exception; `Save` is the transaction with row, counters and the difference between `spent` and
`booked`), `CloseDispatch`, `Finalize`; `Raise` with its salvage, `Kill`, `Resume`. A chained run
finds its counters as a Mode A that asked all it planned left them (`AfterModeA`).

### FanoutReprobe (`worker/jobs.py`: `_run_fanout_reprobe`; `api/fanout_service.py`; `api/processing_service.py`)

Two kinds of process write the shard rows and the run row of one complete run. A processing pass is
`PassLoad` (run row), `PassExtract` (paid calls), `HarvestRead` and `HarvestCommit` (reads and
writes of `harvest_shards`, `PassFails` on the unique key), `PassCounts`, and for the finalizer
`TailEnqueue`/`TailStamp`. The job is `JobSelect` (rank, limits, stamps), `JobAsk`, `JobOpen`, then
`JobGet`/`JobFlush` per shard and `JobCommit`, with `JobLosesRow` where an UPDATE hits a deleted row.
An UPDATE writes the columns that differ from what was loaded, which is what the ORM emits, and a
flushed row is locked until the commit.

### Scheduler (`worker/scheduler.py`, `api/scheduling.py`, `api/routes/admin.py`)

`TickStart` is the SELECT of enabled schedules, `ReadOne` the row as the loop sees it after the
previous commit, `AdvanceOne` arming or advancing `next_run_at` and the commit that follows,
`GateOne` the archived and daily-cap checks, `TriggerOne` the call of `trigger_run`, `OneFails` an
exception anywhere in `_tick_one` (rolled back, the loop goes on). `NightlyBegin`, `EnqueueNext`,
`StampDay`, `NightFails` are the nightly jobs and their watermark. `PutSchedule` and `ChangeTenant`
are the two admin routes that change what a tick reads. croniter is an external function `NextFire`
of which only "strictly later" is assumed. The nightly enqueues may succeed and raise.

### Processing (`api/processing_service.py`, and the callers in `worker/jobs.py`, `api/routes/admin.py`, `api/capture_import_service.py`)

A run stores answers, ends, and is passed over. A pass is a process with the code's own transactions:
load, delete the derived rows it sees, insert new ones, commit; extraction calls against the cap;
classification; commit of the run's cost; roll-up of the day by delete and insert; commit of the
counts or of the error. `PassStep` moves one process one transaction or one unlocked read on,
`PassFails` rolls back, `PassKilled` stops it. A DELETE takes what its statement sees and waits for
a concurrent deleter of the same rows, as READ COMMITTED has it. What one answer's text contains is
a constant of the answer.

### Playbook (`api/recommendations_service.py`, `api/routes/tenant.py`)

`Judge` runs the thirteen sources over the world the pass reads, each in a savepoint that may fail;
`SeekLost` asks for the open plays of lost pages (`StillLost` are those not cited), `ReadRows` loads the
list, two reads between which others commit; `Save` merges and commits: update in place, insert, resolve what is no
longer found and could be judged. `UpdateRecommendation` and `AddRecommendation` are the routes a
person uses in between. A play is its gap_ref; the sources are operators over a record of measured
data, and the ten worlds of the instance each give some source something to find or to lose.

### Measures (`api/dashboards/*`, `api/capture_import_service.py`, `api/answer_shape_service.py`, `api/proof_service.py`, `api/agent_picks_service.py`, `api/query_controls.py`)

The state is a small database: answers (question, surface, variant, model, who is named, when),
questions, shipped fixes, announced model changes. Actions are what changes it (`Run`, `ImportCaptures`, `Pause`,
`Resume`, `Import`, `Ship`, `SwitchModel`, `Wait`); every screen is an operator named after its
function (`MentionRates`, `KpiScorecard`, `TopicScorecard`, `EngineTable`, `Matrix`, `RoutingReport`,
`EngineModes`, `EngineBreaks`, `VisibilityAlerts`, `CitationsIntel`, `BrandReport`, `QueriesIntel`,
`ShareOfVoice`, `AgentPicks`, `Proof`, `InterventionsReport`). Rates are pairs of counts, a p-value is a constant
operator of them. The clock counts half days, so that a run before and one after noon share a day. A run dates its
answers as it stores them (`at` and `stored` agree); an import dates them when they were captured and
names whatever model the vendor says (`VendorAnswer`), on browser surfaces too, so that numbers no longer
follow dates. `model_timeline` passes over answers that name no model, and so do the properties:
they say nothing of a model nobody named.
A screen selects rows and passes them to the operator that reports on them (`Kpis`, `TopicRows`,
`EngineRows`, `Headline`); `PastDays` instantiates the module a second time, with the rows there were
when yesterday ended, to compare the two reads.

### SiteData, Drafts, EngineChecks, Waitlist, ShardHistory (composed in `MCServices`)

Services beside the runs that share no variables; one behaviour moves one of them.

- `SiteData`: an upload of an access log is `StartUpload`, then `ReadDays` and `Flush` per batch of
  one transaction (`Counted` is the batch as a bag of cells, `KeptPaths` the pages it may add before
  the rest are one), then `FinishUpload`, `RefuseUpload` or `AbortUpload`; exports replace the cells
  they name; a crawl is `StartCrawl`, then `FetchPage` and `StorePage` per URL, beside edits of
  facts and pages; it keeps the first `MaxConflicts` conflicts of a URL, in no fixed order. `Told` is what
  the sender of a log learns of days it shares: a log drain (`Drained`) nothing. `AgentAnalytics`,
  `OwnPages` and `Flags` are the two screens that join them; a page shows the crawl of any of its
  URLs checked last (`Freshest`), so `Flags` is a set of what it may be flagged with.
- `Drafts`: `CheckBudget`, `Book`, `Complete` (with the router's retries), `SelectDraft`,
  `StoreDraft`, each a step of one request; `PatchDraft` is a person, `BookCheck` an engine check on
  the same ledger.
- `EngineChecks`: a toggle is a read and a write of the whole approved list, `PatchApproved` sets that
  list without the switches, an import sets both; checks, runs and imports put evidence and switches in order of `clock`; `Verdict` is the readiness operator.
- `Waitlist`: INCR and EXPIRE are two steps, each of which may fail or lose its answer (`CountRequest`,
  `ExpireFails`); so are reading and saving the row.
- `ShardHistory`: runs complete, fail and are resumed, are processed again; `Reprobe` is one job of
  the FIFO queue; what a run brings and a job asks comes in some order (`SetToSeq`); `FanoutReport`, `FanoutScorecard` and `FanoutReplay` are the screens.

### Warehouse (`worker/mirror.py`, `worker/ga4_pull.py`)

Rows are inserted and committed in any order; `ReadPage`, `InsertPage` and `CommitMark` are the
mirror's steps per page, any of which may fail or be killed, and two jobs may run at once. The pull
walks the tenants with one session: after a refused write every later statement raises.

## 4. The runs

| run | instance | what it shows |
|---|---|---|
| `lifecycle_one_run` | 1 run, chained or B-only, scheduler + admin, one worker per queue, 1 resume, 1 SIGKILL, enqueues that are lost, slow enqueues; fairness | modes never dispatch or finalize one run together, no stranded answers, no revival without a resume, every run ends |
| `lifecycle_two_runs` | 2 runs of one tenant (symmetric), combined worker, TTL reachable, one of them resumed (`OneResumed`) | triggers never overlap; the detailed life cycle implements `RunLife` |
| `lifecycle_resume_race` (violation) | 2 runs, 1 resume | `resume_run` beside `trigger_run`: two live runs |
| `mode_a` | 2 samples of one cell, a second cell, a twin; 2 in flight, cap 7 against prices 1, 3, 1, 2 and estimates 2, 2, 1, 1; 1 resume, 1 kill; a question paused between attempts | books and cap, each cell once and none missed, the dispatch ends |
| `mode_b` | 4 captures on 2 surfaces, breaker at 2, one surface captured by searches, sent up to twice, with second ones, chained and not, 1 resume, 1 kill | booked spend and what is hidden from it, the breaker, each cell once |
| `reprobe` | 4 shards of 2 prompts, limits 2 and 2, one carried over; a finalizing pass, a tenant-wide reprocess, one job, 1 edit, 1 kill | claims are probed, measured stays measured, nothing is dropped silently |
| `scheduler` | 2 tenants, crons with 1 and 2 fires a day under caps 1 and 2, day of 4 units, horizon 5, 1 edit, 1 fault, lateness up to 1 | slots fire once, the two frequency policies agree, no schedule is left behind, nights are queued entirely |
| `processing` | 1 measured run and 1 import, two processes at once, 1 repeat, 1 midnight, edit or failure | answers derived and counted once, blind rows have a cause, extraction within the cap, one capture per question's AI Overview columns |
| `playbook` | 3 passes, 2 at a time, 10 worlds, 2 drifts, 1 edit by hand | plays are resolved for cause, the list follows the data |
| `measures` | a scored, a branded and an agent question, a forced API engine and a browser capture, 2 runs or imports of captures, 2 edits, 2 days | settled ranges, agreeing screens, unflagged moves, one model per proof |
| `services` | 2 logs of 2 batches, one of them a drain's; 2 URLs of one page, 1 conflict kept, 3 edits; 3 draft requests, cap of 1 draft; 2 toggles beside 2 imports or patches, and 2 runs, 1 check; 3 sign-ups, rate limit 2; 1 shard over 3 runs and 3 days, TTL of 1, one failed run at a time, 1 flag | nine invariants, one per hazard of the services |
| `warehouse` | 2 tables, ids up to 3, pages of 1, 2 jobs, 1 fault; 2 clients of the pull; fairness | no gap below the watermark, copies only for a cause, a missed pull has one, every row arrives |

Why these bounds. The hazards need at most two parties each: two processes deciding about one tenant
(two actors, two runs), two workers of one run (one per queue), two calls against the last of the
cap (concurrency 2), two writers of one row. One kill and one resume reach "second attempt after an
interruption at any step"; a second of each only repeats it and is covered where a theorem is
proved. `OneResumed` keeps `lifecycle_two_runs` to histories in which at most one of the two runs is
resumed; the two-resume races are the finding of `lifecycle_resume_race`, and `Refines` is proved
without the bound. The prices of `mode_a` include one above, one below and one at its estimate, and
the cap is met in the middle of the work. Four captures, three of them on one surface, let the breaker open, skip,
and leave the other surface alone; two requests per search are one retry of each. Horizon 5 with a day of 4 holds two nights' begins and three slots
of the busier cron; the window of 2 out of 4 stands for 23 h of 24, that is, longer than any gap the
policy allows minus the lateness. Two runs or imports with a model switch between them are the
least that put two models around a fix or a move, and one import that is dated into the past already
stands among answers it is not numbered with; more runs, and a model that changes back, are the
theorems'. Three runs are the least for a shard whose answer is carried by one run, aged past the TTL in the next, and asked
again out of turn by a third. Three ids with pages of one let a row commit below, at and above a watermark.

Several properties are conjunctions of named parts that belong together (`LedgerExact` is
`SpendUnderCap /\ ReservationExact /\ LedgerBalances`, and so on); the parts are defined and
commented next to them. Each property was seen to fail on a mutated definition in the same
instance: the `Mutant_` operators beside the definitions they replace. `PROJECT.json` names one per
property; further ones break the other parts.

`CHECK_DEADLOCK FALSE` is set where the modelled work really ends (dispatch, re-probe, passes, a
bounded history). The life cycle, the scheduler and the warehouse never stop and are checked for deadlock.

## 5. Fairness

`RunLifecycle!Fairness`: the scheduler loop sleeps and ticks for ever and both worker processes are
restarted by their supervisor (`restart: unless-stopped`, Render), so `ReapBegin(Scheduler)` and a
worker's start and finishing steps are weakly fair; an API request that began its transaction
finishes it or is killed; a job ends because RQ gives it a timeout; time passes. Strong fairness is
used once: at infinitely many of the scheduler's reaps Redis can be read. Without it nothing is ever
taken for abandoned before the TTL, which that instance leaves out. Nothing is assumed of triggers, resumes, of
answers arriving, or of kills not happening.

`ModeADispatch`: `WF(Job)`: a call has a timeout, the saving thread's transaction ends.
`Warehouse`: the scheduler queues a mirror every night, a worker takes it and its steps end; faults
are bounded, so some night's job comes through. Nothing is assumed of rows being committed. The
scheduler has no liveness property: what must be so at the end of a tick is stated as an invariant
of that point (`NoneLeftBehind`, `NightlyQueued`).

## 6. What is proved

All theorems are for every value of the constants allowed by the module's named assumption; where a
theorem needs more, its statement says so.

`RunLifecycleProofs`
- `TypeCorrect`. `TypeOK` is not inductive: an actor between its steps uses `target`, a worker uses
  `job`. `TypeInv` adds that they name a run and a job whenever a step will use them.
- `NoOverlap`, `SnapshotStable`, `TriggersExcluded`. `TriggersNeverOverlap` alone is not inductive: a
  trigger decides on `rows`, read before Redis. `SafeInv` adds `SnapshotHolds`: while a trigger is
  deciding it holds its tenant's lock, and every live run of that tenant that was never resumed is in
  what it read. Only another trigger could break that, and it needs the lock. All other actions are
  shown "quiet" (no never-resumed run goes live, no trigger under way changes).
- `RevivalNeedsResume`: by `BornInv`, every run named in a queue, a job, an actor's target or an
  actor's rows was created before, so that a trigger never writes pending over a run that ended and
  the guards at the top of the jobs decide the rest. This covers enqueues that raise although they
  took effect ("unacked"), any number of kills and of left-over jobs, which the runs do not.
- `Refines`: `Spec => ImplementsRunLife`. From the invariants above, every step is a `Begin`, a
  `Revive`, an `End` or a stutter of `RunLife`. `RunLife` lets a run begin only beside live runs that
  were resumed: this is where `SnapshotHolds` is needed.
- `FirstLifeDispatch`, `FirstLifeAlone`, `FirstLifeDerived`: a run never resumed has one *token*, a
  place in a queue, an actor that is about to push it, or a worker that holds it (`TokenInv`); where
  the token is decides who may dispatch, finish and process it (`OutcomeInv`). The last two assume
  that no enqueue is "unacked", since such a hand-over leaves two tokens (section 7).
- `OwnersHold`, `FinishedProcessed` state the runs' `SingleOwner` and `FinishedIsProcessed`, resumed
  runs included. A resumed run may have several tokens: what keeps them apart is that both of its
  jobs go through queues drained by one process each, that a resume starts only from an ended row,
  and that the guard of a left-over job finds the status changed (`SecondInv`: `Places`, `Apart`,
  `Settled`, `Rested`, `Refused`). They assume `Orderly`: one worker per queue, which is what
  `infra/docker-compose.yml` and `render.yaml` deploy, no run in flight for IN_FLIGHT_TTL, and no
  "unacked" enqueue. Without each of the three they are false, in the ways section 7 lists.

`ModeADispatchProofs`
- `BooksHold`: the cap, the reservations and the run's cost, for any cells, prices, estimates and
  concurrency. A total is the cardinality of a set of units (`Pile`, `Units`), which grows and
  shrinks with its members. `BookInv` adds that one answer is saved at a time and that nothing is in
  flight in a run that is over.
- `CellsAskedOnce`. `CellInv` counts, for each cell, what is stored, planned and in flight: the plan
  is exactly what the stored answers leave open (`SkipDoneKeeps`), an item is in one place, and the
  counters add up to the plan (`Tally`, `Covered`). `LossInv`: what may be lost is in flight, so that
  an interruption loses at most `Concurrency` calls at the dearest price. Twins own their cell
  and the set of prices is finite, as the code's matrix and price table give it.

`ModeBDispatchProofs`
- `CellsCapturedOnce`: `CursorInv`, what is left of the work list and what is stored never meet.
- `SpendHolds`: `SpendInv` follows the difference between `spent` and `booked` from a capture's start
  to its transaction, over kills and exceptions (`HiddenWell`), and keeps what retries cost within
  `Attempts - 1` times the searches sent, those the search in flight may still send included
  (`RetriesWell`).
- `BreakerHolds`: `BreakerInv`, a surface's streak counts its latest failures of this attempt.

`FanoutReprobeProofs`
- `ClaimsHold`. `ClaimInv` carries the truth of every row a process has read and not yet written:
  what the passes and jobs hold (`DataTypes`, `PassTypes`, `JobTypes`), which answers the jobs got
  (`Answers`), and that rows in the hands of a saving job are measured (`Measured`, `SavedRows`).
- `MeasuredHolds` and `DropsExplained` are about one job per run (they assume `OneJob`; a second job
  of a run ranks the rows again). `ProbeInv`: a row's id is never used again (`IdsUsed`), so that an
  UPDATE from a stale read meets its own row or none; a ranked shard stands where its rank put it
  (`Ranked`), what the job has in hand is what it asked (`InHand`), what is saved was (`Written`).

`SchedulerProofs`
- `TypeCorrect`, with what a tick has at hand at each of its steps.
- `SlotsFireOnce`. `SlotInv` orders time: recorded fires are in order and not early (`FiredWell`),
  an armed time lies ahead of every fired slot (`ArmedAhead`), and the slot at hand lies between
  (`SlotAtHand`). The commit of the advanced `next_run_at` before the trigger is what makes
  `ArmedAhead` survive a kill.
- `LoopServesAll`. `LoopInv`: every enabled schedule that is not still to come, at hand, failed or
  edited is armed past the tick's time.
- `NightsComplete`, `NightsRepeatForFaults`, together `NightsHold`. `NightInv` accounts for every
  enqueue of a night: one per failure, one for the tick in progress, one for the stamped night. It
  uses that `\div` is monotone (`DivMonotone`).

`AnswersProofs`, the module of what is made of stored answers: `Processing`
- `AnswersDerivedOnce`. `OnceInv`: what a pass over a run will insert is not there, unless another
  pass is, or was, over the run at the same time (`crossed`); the same of a day and its roll-ups.
- `BlindRowsExcused`: `BlindInv` accounts for each finished run (`Accounted`): its answers are covered,
  or its pass failed or died, or has yet to commit. Only the last two excuse a row.
- `ExtractionCapped`: `BudgetInv`, the calls made are at most those booked plus those of the one pass
  that is buying.
- `DefaultLocationShown`: `AioInv`. The code's scan over captures is a fold over an unordered set,
  and `PreferNew` is total: it keeps the greatest whatever the order.

`AnswersProofs`: `Playbook`, for any worlds, passes at once, failing sources and edits (assumed: the
first world is one of them, and a person sets a status of the enum)
- `PlaybookInvariant`. `PlaybookInv`: a row's branch is one its source can give (`RowWell`); what a
  pass holds is what its own judging made of the world it read (`JudgedWell`), and the rows it read
  are still there, since nothing deletes a recommendation. The branch of a row matters because the
  code freezes branches, while a play is settled by its source: `FrozenBranch` and `RowsSource` say
  that the two agree.
- `PlaysResolvedForCause`: only a save resolves an untouched play (`SaveResolves`), and what it
  resolves is left over, so its branch was not frozen, so its source had worked and could judge
  (`SettledWhenJudged`), or it was a lost page's and not yet open at the pass's first read.
- `PlaysFollowData`: the other direction (`KeptWhenNotJudged`), and that a live gap is listed open
  or as a person left it. A question has one gap, hence not both plays (`OpenQueryIsLive`). It is
  about saves whose rows nobody changed in between; section 7 has what happens otherwise.

`AnswersProofs`: `Measures`, for any surfaces, questions, configurations, profiles, weights and
p-values (assumed: finitely many surfaces, questions and personas, windows that are numbers, and no
corpus tag `branded`, the name the model gives the brand's own topic row)
- `DatabaseInvariant`. `DatabaseInv`: answers are finitely many, numbered in the order in which they were
  stored (`Numbered`), and dated no later; what a run stored is dated as it was stored and names a model
  unless a browser captured it, what was imported may name any (`Clocked`, `AnswerWell`).
- `MovesWithoutBreakAreOneModel`, `ProofsReadOneModel`. Both rest on `ModelsMeetAtBreak`: of two
  answers of one engine that name different models, the first in the order of their times, not of their
  numbers, that names another than one before it puts a break into `model_timeline`, imported or not,
  and whichever of several of one time comes last. The window `engine_breaks` asks for is
  shown to reach far enough back (`BreakBetween`, the arithmetic of half days). An alert without a
  break then has none behind it (`AlertReadsBreaks`), and a fix's regimes, which end at the nearest
  break on either side of its day, hold one model each (`RegimeBounds`, `JudgedAreKept`).
- `PastDaysSettled`. Each report is an operator of the rows it reads (`Kpis`, `TopicRows`,
  `EngineRows`, ...) applied to a selection of rows. The copy of the module that is read yesterday
  has the same operators (`SameKpis`, `SameHeadline`, ...), and over a range no row of which was
  stored today its selections are the same rows (`SameRows`, `SameLatest`). What a run stored today
  it dated today (`AnswerWell`), so that up to midnight only a capture imported today and dated into the
  range can disturb it (`OnlyImportsDisturb`): such ranges are excused, all others are settled. The
  run checks the ranges from each day up to yesterday, the theorem has every range up to midnight.
- `ScreensAlwaysAgree`. The newest answers have one row per question and surface (`OnePerCell`), by
  the order of their numbers, so the matrix shows the answer the table counts (`MatrixCells`,
  `TableCountsCells`). A total over surfaces or topics is the size of the set it was split from,
  since the parts are fibers of a map (`TotalOfFibers`, from `FiniteFacts`); no corpus tag is named
  like the brand's own topic row (`Tagged`, assumed of the configurations), so that leaving out this
  row and the agents' leaves the headline's questions (`TopicsAddUp`).

`ServicesProofs`, one section per service. Each invariant says what a request that has read, and not
yet written, knows of the row.
- `ApprovalHolds`: it knows of no approval, or the approval is marked as raced (`InHand`).
- `OverrunHolds`: the requests between their check and their booking are as many as the overrun they
  can still cause (`OverrunInv`); hours and kinds are counted apart.
- `ApartKept`: a toggle alone between read and write holds the list as it is (`Alone`); `granted`
  follows what patches put apart.
- `VerdictHolds`: `EvidenceInv`, an instant has one event, so that the newest evidence is unique.
- `WaitlistKept`: what a request read is what the row still says unless somebody clashed
  (`RowsInHand`); a key has one first hit, in hand or gone without its EXPIRE (`OneFirstHit`).
- `ConflictsHold`: `CrawlInv`, ids of facts are handed out once and a row remembers which it met, and
  keeps as many conflicts as a crawl may.
- `ImportsHold`, `ScreensHold`: `TrafficInv`, the stored cells are a sum over the lines of the stored
  logs (`SumOfFibers`), an upload in progress being the prefix it has flushed; reads of a page are
  among its hits, which is why the two screens cannot disagree on it.
- `WarehouseHolds`: a row at or below a watermark was copied, or was open when its page was read
  (`Below`); a second copy has a rerun or an overlap (`Once`); the pull accounts for each tenant it
  passed (`PullAccounts`).
- `ShardScreensHold`: `HistoryInv`, a sub-search has one row per run (`OneRow`), rows are in the order
  of their runs (`InOrder`), belong to their run's shards (`OwnRows`), and probes are as old as their
  order says unless a resume asked out of turn (`ProbesInOrder`). The screens are then read off the
  rows (`ScreensFromRows`), whatever order the code's unordered selections give them.

`FiniteFacts` has what several of these need: a finite family has a smallest counterexample, a finite
set of integers a greatest member, a sum over a set changes with its members and splits over fibers.
The library's induction theorems take an operator as a parameter and cannot be instantiated by the
provers; where an argument is by induction over a finite set (a sum, a fold), it is made by the
smallest subset for which it fails.

Only model-checked:
- liveness (`EveryRunEnds`, `EveryDispatchEnds`, `EveryRowMirrored`), which the prover does not do;
- `CapBitesForCause` of the scheduler: `WithinCap` inspects the first fires of a cron, and what it
  concludes of later days holds for crons that repeat daily, as the instance's do; a theorem would
  assume that of `NextFire`, and croniter promises it of no cron.

## 7. Where the code and its comments disagree

One is checked by a run that ends in a violation: `OneLiveRun` (`lifecycle_resume_race`,
`runs_service.py:211`). The others are in `PROJECT.json`
"findings" with their lines and what the model shows. Each stands in its module as a definition
that no passing run checks, because the code does not keep it; to see a counterexample, put its name
under INVARIANT (the two of `RunLifecycle`, in `RunLifecycle_one.cfg`, and `LostUntilCited` under PROPERTY) in that module's
configuration; `ProbeSpendBooked` needs MaxCalls = 1 there:

| definition | module | line |
|---|---|---|
| `FinishedNotReaped` | `RunLifecycle` | `runs_service.py:193` |
| `FinalizedOncePerJob` | `RunLifecycle` | `worker/jobs.py:1046` |
| `CountersHoldRows` | `ModeADispatch` | `worker/jobs.py:827` |
| `BilledUnderCap` | `ModeBDispatch` | `worker/jobs.py:1249` |
| `ProbeSpendBooked` | `FanoutReprobe` | `processing_service.py:200` |
| `ProcessedRunCounted` | `Processing` | `processing_service.py:541` |
| `HumanStatusKept` | `Playbook` | `recommendations_service.py:1161` |
| `LostUntilCited` | `Playbook` | `recommendations_service.py:1112` |
| `LatestIsNewest` | `Measures` | `capture_import_service.py:136` |
| `BrandedStaysOut` | `Measures` | `dashboards/common.py:102` |
| `ShipDayExcluded` | `Measures` | `proof_service.py:214` |
| `ReimportKeepsConflicts` | `SiteData` | `yaml_import.py:236` |
| `ClicksSeeEachOther`, `ApprovedNeverReplaced` | `Drafts` | `content_service.py:178`, `:203` |
| `Lockstep` | `EngineChecks` | `routes/admin.py:818`, `:216` |
| `NoLockout` | `Waitlist` | `routes/waitlist.py:54` |
| `OthersStillPulled` | `Warehouse` | `worker/ga4_pull.py:104` |
| `NewestShown`, `ReplayAgrees` without `late` and `OutOfTurn` | `ShardHistory` | `dashboards/fanout.py:149`, `:325` |

Where a checked property is the weaker one (`ApartForCause`, `WaitlistHolds`, `ApprovedTextStands`,
`OverrunBounded`, `MissedPullsHaveCause`, `ShardScreensTrue`, `DerivedOnce`, `ExtractionWithinCap`), its
excuse is a history variable that only the named race or failure sets, so that the property still says
that nothing else goes wrong; it does not say that the race is harmless. `ListFollowsData` judges only
the saves whose rows nobody changed meanwhile, `ConflictsFollowPage` and `ImportsCountOnce` say what
the limit on conflicts and the log drains leave out.

Met while modelling, in the models or excluded from an instance by a named constant, without a definition of their own:
- `SlowEnqueue`: an enqueue that outlasts START_GRACE lets the reaper fail a run whose job is about
  to be queued; the job is then skipped. A resume keeps created_at, so it has no grace at all.
- `"unacked"`: `_handoff_to_mode_b` (`jobs.py:329`) takes an exception as "not queued"; if it was,
  the run is finalized here and dispatched or skipped by Mode B, depending on who is first.
- `TtlReachable`: `_finalize_run` (`jobs.py:268`) writes the final status over a failed that the TTL
  gave a run waiting in a long queue.
- `OneDispatcher` relies on one process per queue (`infra/docker-compose.yml`): Mode B accepts
  running, so two scrape workers and two jobs of one run dispatch together.
- `TailStamp` (`jobs.py:296-309`) and a tenant-wide reprocess (`processing_service.py:677`) write
  counts read earlier over the re-probe's.
- `put_schedule` (`admin.py:736`) resets next_run_at; a tick that read the row before
  (`scheduler.py:62`) arms it from the old cron, and that slot fires once.
- `_run_mode_b`'s docstring says "no spend cap" (`jobs.py:1052`); the loop compares the month with the
  cap before every capture (`Fits`), as `SpendBounded` needs.
- An RQ timeout raised inside a provider call is taken for a failed call; the models raise it only
  between calls.

## 8. Assumptions and what is left out

- One scheduler process; two overlapping ones (a rolling deploy) could fire a slot twice.
- The first row a tick reads is the one its SELECT returned; the others are read again after a
  commit. The model reads every row when its turn comes.
- Spend of others is constant inside a dispatch (`OtherSpend`) and inside a pass: that several
  spenders together pass a cap each of them keeps is seen only in `Drafts`.
- A failed API call is charged nothing (`ModeADispatch.ReturnError`); a chained run's Mode A half asked
  all it planned (`ModeBDispatch.AfterModeA`); `RunLifecycle.ResumeCommits` does not write back the
  counts `resume_run` read, which no other process touches while the run is over.
- The exception handler of the GA4 pull raises on the expired tenant when a write failed
  (`ga4_pull.py:104-105`), which ends the walk there: `Warehouse.PullTenant` has every later tenant
  missed, the same outcome.
- The limits on what a screen lists (60 pages and 15 lines in `own_pages_service.py`, 15 lines in
  `agent_analytics.py`) are left out: `ScreensShareRisk` relates the flags that are worked out, one of
  which may fall off the end of a list.
- An import of captures is one step: two of the same payload at once would both find no duplicate
  (`capture_import_service.py:110`). The ten minutes by which a capture may be dated ahead are below
  the clock's grain.
- Readiness looks back 30 runs and 200 checks, and knows engines that are only imported: neither is
  in `EngineChecks`. The mirror's table order and column mapping, and a second GA4 pull at once, are left out.
- Pausing a question is one step: two requests that pause the last two questions at once would each
  see the other's still active.
- What an engine answers, what one text contains and how things are formatted are choices or model
  values.

Not modelled. Text processing (names, prices and phrases in one answer: functions of strings);
authentication and tenancy (a library checks tokens, one membership row is read); notifications and
e-mail (network I/O, one counter); answer storage (one envelope per answer, its crash is inside the
saving steps); health and heartbeats (time stamps for a panel); rendered reports and the briefing
(formatting of what the dashboards compute); the small services (one read or one overwrite in one
transaction); utility LLM policy and audit (stateless calls); the front end (a client); migrations,
seeds and deployment (run before the processes start). `PROJECT.json` "components" has the reason
for each part that is modelled only partly.
