---------------------------- MODULE RunLifecycle ----------------------------
(***************************************************************************)
(* The life of measurement runs: the run rows of the database, the two RQ  *)
(* queues in Redis, the processes that create, resume and reap runs (API   *)
(* threads, the scheduler loop, worker start-up) and the workers that      *)
(* execute a run's Mode A (API) and Mode B (scrape) jobs.                   *)
(*                                                                         *)
(* Granularity: a database transaction is one atomic step unless the code  *)
(* talks to Redis between its SELECT and its COMMIT; those are split, and  *)
(* what was read is kept in "rows" until the decision.                      *)
(*                                                                         *)
(* Operators named Mutant_... are not part of the model: each is a bug the *)
(* definition after it could have, kept to show that a property notices.   *)
(***************************************************************************)
EXTENDS Integers, Sequences, SequencesExt, FiniteSets

CONSTANTS
  Runs,            \* run ids that may be created
  Tenants,
  Owner,           \* the tenant each run id would belong to
  ModeSets,        \* mode sets create_run may give a run, e.g. {"A"}, {"A","B"}
  Actors,          \* processes that trigger, resume or reap runs
  Scheduler,       \* the one Actor whose loop never stops
  Workers,         \* RQ worker processes
  Serves,          \* the queues each worker drains
  EnqueueResults,  \* what an enqueue can do: "ok", "lost", "unacked"
  TtlReachable,    \* may a run reach IN_FLIGHT_TTL (long queues)?
  SlowEnqueue,     \* may a first enqueue outlast START_GRACE?
  MaxResumes,      \* bound: resumes of one run
  MaxKills,        \* bound: SIGKILLs of a worker or an actor
  NoActor, NoRun, NoJob

Modes == {"A", "B"}
QueueOf(m) == IF m = "A" THEN "default" ELSE "scrape"
QueueNames == {"default", "scrape"}
Jobs == [mode : Modes, run : Runs]
Job(m, r) == [mode |-> m, run |-> r]

Live == {"pending", "running"}
Ended == {"complete", "failed", "gated", "capped"}

ASSUME LifecycleAssumption ==
  /\ Owner \in [Runs -> Tenants]
  /\ ModeSets \subseteq SUBSET Modes /\ {} \notin ModeSets
  /\ Scheduler \in Actors
  /\ Serves \in [Workers -> SUBSET QueueNames]
  /\ EnqueueResults \subseteq {"ok", "lost", "unacked"}
  /\ TtlReachable \in BOOLEAN /\ SlowEnqueue \in BOOLEAN
  /\ MaxResumes \in Nat /\ MaxKills \in Nat
  /\ NoActor \notin Actors /\ NoRun \notin Runs /\ NoJob \notin Jobs

VARIABLES
  \* The run table.
  status,     \* "none" until created, then RunStatus
  modes,      \* mode_set
  fresh,      \* created_at is within START_GRACE
  expired,    \* started_at or created_at is IN_FLIGHT_TTL old
  resumes,    \* counts.resumed
  answered,   \* modes with an ok answer stored
  completed,  \* counts.completed > 0
  derived,    \* processing pass: "none", "done" or "error" since the last answer
  lock,       \* row lock on the tenant
  \* Redis.
  queue,      \* job ids waiting, per queue
  orphans,    \* jobs of killed workers whose heartbeat has not lapsed yet
  \* Processes.
  pc, target, rows,   \* per actor: step, run it works on, live rows it read
  wpc, job,           \* per worker: step and job being executed
  again,              \* per worker: _run_mode_a finalizes after the hand-over
  kills

rowVars == <<status, modes, fresh, expired, resumes, answered, completed, derived>>
actorVars == <<pc, target, rows, lock>>
workerVars == <<wpc, job, again>>
vars == <<rowVars, actorVars, workerVars, queue, orphans, kills>>

TypeOK ==
  /\ status \in [Runs -> {"none"} \cup Live \cup Ended]
  /\ modes \in [Runs -> SUBSET Modes]
  /\ fresh \in [Runs -> BOOLEAN] /\ expired \in [Runs -> BOOLEAN]
  /\ resumes \in [Runs -> Nat]
  /\ answered \in [Runs -> SUBSET Modes]
  /\ completed \in [Runs -> BOOLEAN]
  /\ derived \in [Runs -> {"none", "done", "error"}]
  /\ lock \in [Tenants -> Actors \cup {NoActor}]
  /\ queue \in [QueueNames -> Seq(Jobs)]
  /\ orphans \subseteq Jobs
  /\ pc \in [Actors -> {"idle", "triggering", "resuming", "reaping",
                         "enqueueing", "failing"}]
  /\ target \in [Actors -> Runs \cup {NoRun}]
  /\ rows \in [Actors -> SUBSET Runs]
  /\ wpc \in [Workers -> {"idle", "dispatch", "handoff", "finalize", "process"}]
  /\ job \in [Workers -> Jobs \cup {NoJob}]
  /\ again \in [Workers -> BOOLEAN]
  /\ kills \in 0..MaxKills

Init ==
  /\ status = [r \in Runs |-> "none"]
  /\ modes = [r \in Runs |-> {}]
  /\ fresh = [r \in Runs |-> FALSE] /\ expired = [r \in Runs |-> FALSE]
  /\ resumes = [r \in Runs |-> 0]
  /\ answered = [r \in Runs |-> {}]
  /\ completed = [r \in Runs |-> FALSE]
  /\ derived = [r \in Runs |-> "none"]
  /\ lock = [t \in Tenants |-> NoActor]
  /\ queue = [q \in QueueNames |-> <<>>]
  /\ orphans = {}
  /\ pc = [a \in Actors |-> "idle"]
  /\ target = [a \in Actors |-> NoRun]
  /\ rows = [a \in Actors |-> {}]
  /\ wpc = [w \in Workers |-> "idle"]
  /\ job = [w \in Workers |-> NoJob]
  /\ again = [w \in Workers |-> FALSE]
  /\ kills = 0

-----------------------------------------------------------------------------
(* Which runs count as live                                                *)

LiveRuns == {r \in Runs : status[r] \in Live}

\* Mutant: only runs already running count.
Mutant_LiveRunsOf(t) == {r \in LiveRuns : Owner[r] = t /\ status[r] = "running"}

LiveRunsOf(t) == {r \in LiveRuns : Owner[r] = t}

\* Jobs queued or in a started registry; a killed worker's job stays there
\* until its heartbeat lapses.
Executing == {job[w] : w \in {v \in Workers : wpc[v] # "idle"}}
JobsAlive == (UNION {Range(queue[q]) : q \in QueueNames}) \cup Executing \cup orphans

\* Mutant: the started registries are not read.
Mutant_RunsWithLiveJobs == {j.run : j \in UNION {Range(queue[q]) : q \in QueueNames}}

RunsWithLiveJobs == {j.run : j \in JobsAlive}

\* readable is FALSE when Redis could not be read: then no run is taken for
\* abandoned except past the TTL.
IsAbandoned(r, readable) ==
  \/ expired[r]
  \/ ~fresh[r] /\ readable /\ r \notin RunsWithLiveJobs

Abandoned(S, readable) == {r \in S : IsAbandoned(r, readable)}

\* Mutant: a status RunStatus does not have.
Mutant_MarkAbandoned(S) == [r \in Runs |-> IF r \in S THEN "abandoned" ELSE status[r]]

MarkAbandoned(S) == [r \in Runs |-> IF r \in S THEN "failed" ELSE status[r]]

EndStep(a) ==
  /\ pc' = [pc EXCEPT ![a] = "idle"]
  /\ target' = [target EXCEPT ![a] = NoRun]
  /\ rows' = [rows EXCEPT ![a] = {}]

-----------------------------------------------------------------------------
(* trigger_run: lock the tenant, read its live rows, then decide            *)

\* Mutant: no SELECT ... FOR UPDATE on the tenant.
Mutant_TriggerBegin(a, r) ==
  /\ pc[a] = "idle"
  /\ status[r] = "none"
  /\ lock' = [lock EXCEPT ![Owner[r]] = a]
  /\ pc' = [pc EXCEPT ![a] = "triggering"]
  /\ target' = [target EXCEPT ![a] = r]
  /\ rows' = [rows EXCEPT ![a] = LiveRunsOf(Owner[r])]
  /\ UNCHANGED <<rowVars, workerVars, queue, orphans, kills>>

TriggerBegin(a, r) ==
  /\ pc[a] = "idle"
  /\ status[r] = "none"
  /\ lock[Owner[r]] = NoActor
  /\ lock' = [lock EXCEPT ![Owner[r]] = a]
  /\ pc' = [pc EXCEPT ![a] = "triggering"]
  /\ target' = [target EXCEPT ![a] = r]
  /\ rows' = [rows EXCEPT ![a] = LiveRunsOf(Owner[r])]
  /\ UNCHANGED <<rowVars, workerVars, queue, orphans, kills>>

\* RunInFlight: commit what was reaped, release the lock, create nothing.
TriggerRefused(a, readable) ==
  LET dead == Abandoned(rows[a], readable) IN
  /\ pc[a] = "triggering"
  /\ rows[a] # dead
  /\ status' = MarkAbandoned(dead)
  /\ lock' = [lock EXCEPT ![Owner[target[a]]] = NoActor]
  /\ EndStep(a)
  /\ UNCHANGED <<modes, fresh, expired, resumes, answered, completed, derived,
                 workerVars, queue, orphans, kills>>

\* create_run and the commit that releases the lock. A gated tenant or one
\* without an eligible surface gets an ended run that is never enqueued.
TriggerCreates(a, readable, st, ms) ==
  LET r == target[a]
      dead == Abandoned(rows[a], readable) IN
  /\ pc[a] = "triggering"
  /\ rows[a] = dead
  /\ status' = [MarkAbandoned(dead) EXCEPT ![r] = st]
  /\ modes' = [modes EXCEPT ![r] = ms]
  /\ fresh' = [fresh EXCEPT ![r] = TRUE]
  /\ lock' = [lock EXCEPT ![Owner[r]] = NoActor]
  /\ IF st = "pending"
       THEN /\ pc' = [pc EXCEPT ![a] = "enqueueing"]
            /\ rows' = [rows EXCEPT ![a] = {}]
            /\ UNCHANGED target
       ELSE EndStep(a)
  /\ UNCHANGED <<expired, resumes, answered, completed, derived,
                 workerVars, queue, orphans, kills>>

-----------------------------------------------------------------------------
(* resume_run: no tenant lock                                               *)

ResumeBegin(a, r) ==
  /\ pc[a] = "idle"
  /\ status[r] = "failed"
  /\ resumes[r] < MaxResumes
  /\ pc' = [pc EXCEPT ![a] = "resuming"]
  /\ target' = [target EXCEPT ![a] = r]
  /\ rows' = [rows EXCEPT ![a] = LiveRunsOf(Owner[r])]
  /\ UNCHANGED <<rowVars, lock, workerVars, queue, orphans, kills>>

ResumeRefused(a, readable) ==
  LET dead == Abandoned(rows[a], readable) IN
  /\ pc[a] = "resuming"
  /\ rows[a] # dead
  /\ status' = MarkAbandoned(dead)
  /\ EndStep(a)
  /\ UNCHANGED <<modes, fresh, expired, resumes, answered, completed, derived,
                 lock, workerVars, queue, orphans, kills>>

\* Back to pending; created_at, started_at and the mode set are kept.
ResumeCommits(a, readable) ==
  LET r == target[a]
      dead == Abandoned(rows[a], readable) IN
  /\ pc[a] = "resuming"
  /\ rows[a] = dead
  /\ status' = [MarkAbandoned(dead) EXCEPT ![r] = "pending"]
  /\ resumes' = [resumes EXCEPT ![r] = @ + 1]
  /\ pc' = [pc EXCEPT ![a] = "enqueueing"]
  /\ rows' = [rows EXCEPT ![a] = {}]
  /\ UNCHANGED <<modes, fresh, expired, answered, completed, derived, target,
                 lock, workerVars, queue, orphans, kills>>

-----------------------------------------------------------------------------
(* Both enqueue after the commit; an exception marks the run failed         *)

FirstMode(r) == IF "A" \in modes[r] THEN "A" ELSE "B"

Push(m, r) == [queue EXCEPT ![QueueOf(m)] = Append(@, Job(m, r))]

EnqueueFirst(a, result) ==
  LET r == target[a] IN
  /\ pc[a] = "enqueueing"
  /\ queue' = IF result = "lost" THEN queue ELSE Push(FirstMode(r), r)
  /\ IF result = "ok"
       THEN EndStep(a)
       ELSE /\ pc' = [pc EXCEPT ![a] = "failing"]
            /\ UNCHANGED <<target, rows>>
  /\ UNCHANGED <<rowVars, lock, workerVars, orphans, kills>>

EnqueueFailed(a) ==
  /\ pc[a] = "failing"
  /\ status' = [status EXCEPT ![target[a]] = "failed"]
  /\ EndStep(a)
  /\ UNCHANGED <<modes, fresh, expired, resumes, answered, completed, derived,
                 lock, workerVars, queue, orphans, kills>>

-----------------------------------------------------------------------------
(* reap_abandoned_runs: scheduler tick and worker start-up                   *)

\* Mutant: only running rows are looked at.
Mutant_ReapBegin(a) ==
  /\ pc[a] = "idle"
  /\ LiveRuns # {}
  /\ pc' = [pc EXCEPT ![a] = "reaping"]
  /\ rows' = [rows EXCEPT ![a] = {r \in Runs : status[r] = "running"}]
  /\ UNCHANGED <<rowVars, lock, target, workerVars, queue, orphans, kills>>

ReapBegin(a) ==
  /\ pc[a] = "idle"
  /\ LiveRuns # {}
  /\ pc' = [pc EXCEPT ![a] = "reaping"]
  /\ rows' = [rows EXCEPT ![a] = LiveRuns]
  /\ UNCHANGED <<rowVars, lock, target, workerVars, queue, orphans, kills>>

ReapCommits(a, readable) ==
  /\ pc[a] = "reaping"
  /\ status' = MarkAbandoned(Abandoned(rows[a], readable))
  /\ EndStep(a)
  /\ UNCHANGED <<modes, fresh, expired, resumes, answered, completed, derived,
                 lock, workerVars, queue, orphans, kills>>

\* The tick finds nothing in flight.
ReapNothing(a) ==
  /\ pc[a] = "idle"
  /\ LiveRuns = {}
  /\ UNCHANGED vars

-----------------------------------------------------------------------------
(* Workers                                                                   *)

\* RQ drains a worker's queues in the order they were given: default first.
CanTake(w, q) ==
  /\ wpc[w] = "idle"
  /\ q \in Serves[w]
  /\ queue[q] # <<>>
  /\ q = "scrape" => ("default" \in Serves[w] => queue["default"] = <<>>)

Take(q) == queue' = [queue EXCEPT ![q] = Tail(@)]

\* Mutant: Mode B refuses only a run that is complete.
Mutant_Startable(j) ==
  IF j.mode = "A" THEN status[j.run] = "pending" ELSE status[j.run] # "complete"

\* The status guard at the top of both jobs: anything else returns at once.
Startable(j) ==
  status[j.run] \in (IF j.mode = "A" THEN {"pending"} ELSE Live)

SkipJob(w, q) ==
  /\ CanTake(w, q)
  /\ ~Startable(Head(queue[q]))
  /\ Take(q)
  /\ UNCHANGED <<rowVars, actorVars, workerVars, orphans, kills>>

\* Mode A: running, started_at = now; counters restart from the answers held.
StartA(w) ==
  LET j == Head(queue["default"]) IN
  /\ CanTake(w, "default") /\ Startable(j)
  /\ Take("default")
  /\ status' = [status EXCEPT ![j.run] = "running"]
  /\ expired' = [expired EXCEPT ![j.run] = FALSE]
  /\ completed' = [completed EXCEPT ![j.run] = "A" \in answered[j.run]]
  /\ wpc' = [wpc EXCEPT ![w] = "dispatch"]
  /\ job' = [job EXCEPT ![w] = j]
  /\ UNCHANGED <<modes, fresh, resumes, answered, derived, actorVars, again,
                 orphans, kills>>

\* Mode A with no provider key: counters zeroed, then Mode B or failure.
StartAUnconfigured(w) ==
  LET j == Head(queue["default"])
      chained == "B" \in modes[j.run] IN
  /\ CanTake(w, "default") /\ Startable(j)
  /\ Take("default")
  /\ status' = [status EXCEPT ![j.run] = IF chained THEN "running" ELSE "failed"]
  /\ expired' = [expired EXCEPT ![j.run] = FALSE]
  /\ completed' = [completed EXCEPT ![j.run] = FALSE]
  /\ wpc' = [wpc EXCEPT ![w] = IF chained THEN "handoff" ELSE "idle"]
  /\ job' = [job EXCEPT ![w] = IF chained THEN j ELSE NoJob]
  /\ UNCHANGED <<modes, fresh, resumes, answered, derived, actorVars, again,
                 orphans, kills>>

\* Mode B: started_at is set only when the run is not chained from Mode A.
StartB(w) ==
  LET j == Head(queue["scrape"]) IN
  /\ CanTake(w, "scrape") /\ Startable(j)
  /\ Take("scrape")
  /\ status' = [status EXCEPT ![j.run] = "running"]
  /\ expired' = IF status[j.run] = "pending"
                  THEN [expired EXCEPT ![j.run] = FALSE] ELSE expired
  /\ wpc' = [wpc EXCEPT ![w] = "dispatch"]
  /\ job' = [job EXCEPT ![w] = j]
  /\ UNCHANGED <<modes, fresh, resumes, answered, completed, derived,
                 actorVars, again, orphans, kills>>

\* One answer comes back and is stored with the counts in one transaction;
\* no status check.
SaveAnswer(w) ==
  LET r == job[w].run IN
  /\ wpc[w] = "dispatch"
  /\ answered' = [answered EXCEPT ![r] = @ \cup {job[w].mode}]
  /\ completed' = [completed EXCEPT ![r] = TRUE]
  /\ derived' = [derived EXCEPT ![r] = "none"]
  /\ UNCHANGED <<status, modes, fresh, expired, resumes, actorVars, workerVars,
                 queue, orphans, kills>>

\* Last phase: totals. A chained Mode A hands over, anything else finalizes.
CloseDispatch(w) ==
  LET j == job[w] IN
  /\ wpc[w] = "dispatch"
  /\ completed' = [completed EXCEPT ![j.run] = @ \/ j.mode \in answered[j.run]]
  /\ wpc' = [wpc EXCEPT ![w] =
               IF j.mode = "A" /\ "B" \in modes[j.run] THEN "handoff" ELSE "finalize"]
  /\ again' = [again EXCEPT ![w] = j.mode = "A" /\ "B" \in modes[j.run]]
  /\ UNCHANGED <<status, modes, fresh, expired, resumes, answered, derived,
                 actorVars, job, queue, orphans, kills>>

FreeWorker(w) ==
  /\ wpc' = [wpc EXCEPT ![w] = "idle"]
  /\ job' = [job EXCEPT ![w] = NoJob]
  /\ again' = [again EXCEPT ![w] = FALSE]

\* Mutant: Mode A finalizes although Mode B was queued.
Mutant_Handoff(w, result) ==
  /\ wpc[w] = "handoff"
  /\ queue' = IF result = "lost" THEN queue ELSE Push("B", job[w].run)
  /\ wpc' = [wpc EXCEPT ![w] = "finalize"]
  /\ UNCHANGED <<rowVars, actorVars, job, again, orphans, kills>>

\* Queue the Mode B half; if that fails, finalize with what Mode A collected.
Handoff(w, result) ==
  /\ wpc[w] = "handoff"
  /\ queue' = IF result = "lost" THEN queue ELSE Push("B", job[w].run)
  /\ IF result = "ok"
       THEN FreeWorker(w)
       ELSE wpc' = [wpc EXCEPT ![w] = "finalize"] /\ UNCHANGED <<job, again>>
  /\ UNCHANGED <<rowVars, actorVars, orphans, kills>>

\* _finalize_run returned. A failed hand-over has finalized already when
\* _run_mode_a goes on to finalize once more.
AfterFinalize(w) ==
  IF again[w]
    THEN /\ wpc' = [wpc EXCEPT ![w] = "finalize"]
         /\ again' = [again EXCEPT ![w] = FALSE]
         /\ UNCHANGED job
    ELSE FreeWorker(w)

\* First half of _finalize_run: the final status, whatever the status was.
FinalStatuses(r) == {"capped", "complete"} \cup (IF completed[r] THEN {} ELSE {"failed"})

\* Mutant: a capped run skips the processing pass.
Mutant_Finalize(w, st) ==
  LET r == job[w].run IN
  /\ wpc[w] = "finalize"
  /\ st \in FinalStatuses(r)
  /\ status' = [status EXCEPT ![r] = st]
  /\ IF completed[r] /\ st # "capped"
       THEN wpc' = [wpc EXCEPT ![w] = "process"] /\ UNCHANGED <<job, again>>
       ELSE AfterFinalize(w)
  /\ UNCHANGED <<modes, fresh, expired, resumes, answered, completed, derived,
                 actorVars, queue, orphans, kills>>

Finalize(w, st) ==
  LET r == job[w].run IN
  /\ wpc[w] = "finalize"
  /\ st \in FinalStatuses(r)
  /\ status' = [status EXCEPT ![r] = st]
  /\ IF completed[r]
       THEN wpc' = [wpc EXCEPT ![w] = "process"] /\ UNCHANGED <<job, again>>
       ELSE AfterFinalize(w)
  /\ UNCHANGED <<modes, fresh, expired, resumes, answered, completed, derived,
                 actorVars, queue, orphans, kills>>

\* Second half: process_run, whose failure is recorded on the run.
Process(w, outcome) ==
  /\ wpc[w] = "process"
  /\ derived' = [derived EXCEPT ![job[w].run] = outcome]
  /\ AfterFinalize(w)
  /\ UNCHANGED <<status, modes, fresh, expired, resumes, answered, completed,
                 actorVars, queue, orphans, kills>>

\* The job raises (a bug, the database, RQ's job timeout). Mode B salvages a
\* live run with completed answers; otherwise a live run is marked failed.
JobRaises(w) ==
  LET j == job[w] IN
  /\ wpc[w] \in {"dispatch", "handoff"}
  /\ IF j.mode = "B" /\ status[j.run] \in Live /\ completed[j.run]
       THEN /\ wpc' = [wpc EXCEPT ![w] = "finalize"]
            /\ UNCHANGED <<status, job, again>>
       ELSE /\ status' = IF status[j.run] \in Live
                           THEN [status EXCEPT ![j.run] = "failed"] ELSE status
            /\ FreeWorker(w)
  /\ UNCHANGED <<modes, fresh, expired, resumes, answered, completed, derived,
                 actorVars, queue, orphans, kills>>

-----------------------------------------------------------------------------
(* Crashes and the passing of time                                          *)

\* SIGKILL (a deploy): nothing of the job's code runs, the job stays in the
\* started registry.
KillWorker(w) ==
  /\ wpc[w] # "idle" /\ kills < MaxKills
  /\ kills' = kills + 1
  /\ orphans' = orphans \cup {job[w]}
  /\ FreeWorker(w)
  /\ UNCHANGED <<rowVars, actorVars, queue>>

KillActor(a) ==
  /\ pc[a] # "idle" /\ kills < MaxKills
  /\ kills' = kills + 1
  /\ lock' = [t \in Tenants |-> IF lock[t] = a THEN NoActor ELSE lock[t]]
  /\ EndStep(a)
  /\ UNCHANGED <<rowVars, workerVars, queue, orphans>>

HeartbeatLapses(j) ==
  /\ j \in orphans
  /\ orphans' = orphans \ {j}
  /\ UNCHANGED <<rowVars, actorVars, workerVars, queue, kills>>

GraceEnds(r) ==
  /\ fresh[r]
  /\ SlowEnqueue \/ \A a \in Actors : ~(pc[a] \in {"enqueueing", "failing"} /\ target[a] = r)
  /\ fresh' = [fresh EXCEPT ![r] = FALSE]
  /\ UNCHANGED <<status, modes, expired, resumes, answered, completed, derived,
                 actorVars, workerVars, queue, orphans, kills>>

\* A Mode A job is stopped after 3 hours and a Mode B job after 4, so a run
\* reaches 8 hours only while it waits in a queue, after it ended, or in a
\* Mode B job that was chained from Mode A and waited first.
TtlPasses(r) ==
  /\ TtlReachable
  /\ status[r] # "none" /\ ~fresh[r] /\ ~expired[r]
  /\ \A j \in Executing : j.run = r => (j.mode = "B" /\ "A" \in modes[r])
  /\ expired' = [expired EXCEPT ![r] = TRUE]
  /\ UNCHANGED <<status, modes, fresh, resumes, answered, completed, derived,
                 actorVars, workerVars, queue, orphans, kills>>

-----------------------------------------------------------------------------
Trigger(a) ==
  \/ \E r \in Runs : TriggerBegin(a, r)
  \/ \E b \in BOOLEAN : TriggerRefused(a, b)
  \/ \E b \in BOOLEAN, ms \in ModeSets : TriggerCreates(a, b, "pending", ms)
  \/ \E b \in BOOLEAN, st \in {"gated", "failed"} : TriggerCreates(a, b, st, {})

Resume(a) ==
  \/ \E r \in Runs : ResumeBegin(a, r)
  \/ \E b \in BOOLEAN : ResumeRefused(a, b) \/ ResumeCommits(a, b)

Enqueue(a) == (\E e \in EnqueueResults : EnqueueFirst(a, e)) \/ EnqueueFailed(a)

Reap(a) ==
  \/ ReapBegin(a) \/ ReapNothing(a)
  \/ \E b \in BOOLEAN : ReapCommits(a, b)

StartJob(w) ==
  \/ StartA(w) \/ StartAUnconfigured(w) \/ StartB(w)
  \/ \E q \in QueueNames : SkipJob(w, q)

FinishJob(w) ==
  \/ CloseDispatch(w)
  \/ \E e \in EnqueueResults : Handoff(w, e)
  \/ \E st \in Ended : Finalize(w, st)
  \/ \E d \in {"done", "error"} : Process(w, d)

Crash == (\E w \in Workers : KillWorker(w)) \/ (\E a \in Actors : KillActor(a))

Time ==
  \/ \E j \in orphans : HeartbeatLapses(j)
  \/ \E r \in Runs : GraceEnds(r) \/ TtlPasses(r)

Next ==
  \/ \E a \in Actors : Trigger(a) \/ Resume(a) \/ Enqueue(a) \/ Reap(a)
  \/ \E w \in Workers : StartJob(w) \/ SaveAnswer(w) \/ FinishJob(w) \/ JobRaises(w)
  \/ Crash
  \/ Time

Spec == Init /\ [][Next]_vars

(* Fairness. The scheduler loop and the RQ workers are restarted for ever, *)
(* a started transaction finishes, a job ends (it has a job timeout), time *)
(* passes, and Redis is not unreadable at every tick.                      *)
Fairness ==
  /\ \A a \in Actors :
       /\ WF_vars(\E b \in BOOLEAN : TriggerRefused(a, b))
       /\ WF_vars(\E b \in BOOLEAN, ms \in ModeSets : TriggerCreates(a, b, "pending", ms))
       /\ WF_vars(\E b \in BOOLEAN : ResumeRefused(a, b) \/ ResumeCommits(a, b))
       /\ WF_vars(\E b \in BOOLEAN : ReapCommits(a, b))
       /\ WF_vars(Enqueue(a))
  /\ WF_vars(ReapBegin(Scheduler)) /\ SF_vars(ReapCommits(Scheduler, TRUE))
  /\ \A w \in Workers : WF_vars(StartJob(w)) /\ WF_vars(FinishJob(w))
  /\ WF_vars(Time)

FairSpec == Spec /\ Fairness

-----------------------------------------------------------------------------
(* Properties                                                               *)

\* Two runs of one tenant are never live together unless one of them was
\* resumed: a double-click, or a schedule firing mid-run, starts no second
\* run over the same prompts (trigger_run under the tenant's row lock).
TriggersNeverOverlap ==
  \A r1, r2 \in LiveRuns :
    r1 # r2 /\ Owner[r1] = Owner[r2] => resumes[r1] + resumes[r2] > 0

\* What a trigger read under the tenant's row lock is still all there is when
\* it decides: no never-resumed run of the tenant went live in between, and
\* the lock is its own until then.
SnapshotHolds ==
  \A a \in Actors : pc[a] = "triggering" =>
    /\ lock[Owner[target[a]]] = a
    /\ \A r \in LiveRunsOf(Owner[target[a]]) : resumes[r] = 0 => r \in rows[a]

\* What a trigger decides on, and what follows from it.
TriggersExclude == TriggersNeverOverlap /\ SnapshotHolds

\* The service keeps the promise of RunLife: however rows, queues, workers,
\* reapers and crashes interleave, each step begins, ends or resumes runs as
\* the abstract service may, or changes nothing a caller sees.
Life(r) ==
  IF status[r] = "none" THEN "absent" ELSE IF status[r] \in Live THEN "live" ELSE "over"

Seen == INSTANCE RunLife WITH life <- [r \in Runs |-> Life(r)], revivals <- resumes

ImplementsRunLife == Seen!LifeSpec

\* A run that ended comes back to life only by a resume: a job left over in
\* a queue, a second job of the same run or a late worker never revives it
\* (the status guards at the top of both jobs).
OnlyResumeRevives ==
  [][\A r \in Runs : status[r] \in Ended /\ status'[r] \in Live
       => resumes'[r] = resumes[r] + 1]_vars

\* A run is never dispatched by two workers at once, which would pay for the
\* same cells twice, unless two resumes of it raced.
OneDispatcher ==
  \A v, w \in Workers :
    v # w /\ wpc[v] = "dispatch" /\ wpc[w] = "dispatch" /\ job[v].run = job[w].run
      => resumes[job[w].run] > 1

\* One worker at a time writes a run's final status and runs its processing
\* pass: Mode A leaves both to Mode B once it has queued it (again unless two
\* resumes of the run raced).
Finalizing(w) == wpc[w] \in {"finalize", "process"}

SingleFinalizer ==
  \A v, w \in Workers :
    v # w /\ Finalizing(v) /\ Finalizing(w) /\ job[v].run = job[w].run
      => resumes[job[w].run] > 1

\* Both: nothing of a run is done twice at the same time.
SingleOwner == OneDispatcher /\ SingleFinalizer

\* Without a SIGKILL and racing resumes, a run shown as complete or capped
\* whose answers count went through the processing pass, or carries its
\* error, once no job of it is left: no path ends a run and strands answers.
FinishedIsProcessed ==
  \A r \in Runs :
    kills = 0 /\ resumes[r] < 2 /\ status[r] \in {"complete", "capped"} /\ completed[r]
      => r \in RunsWithLiveJobs \/ derived[r] # "none"

\* Every run in flight ends, whatever was killed and whatever Redis refused.
EveryRunEnds == \A r \in Runs : status[r] \in Live ~> status[r] \in Ended

\* What the code's comments promise and the code does not keep.

\* At most one live run per tenant, resumed or not (resume_run's docstring).
OneLiveRun ==
  \A r1, r2 \in LiveRuns : Owner[r1] = Owner[r2] => r1 = r2

\* A job finalizes its run once: a single processing pass, one mail, one
\* re-probe job (the comment at the hand-over in _run_mode_a).
FinalizedOncePerJob ==
  [][\A w \in Workers : wpc[w] = "process" => wpc'[w] # "finalize"]_vars

\* Only pending and running runs are reaped (reap_abandoned_runs' docstring).
FinishedNotReaped ==
  [][\A r \in Runs : status[r] \in {"complete", "capped"} => status'[r] # "failed"]_vars
=============================================================================
