------------------------- MODULE RunLifecycleProofs -------------------------
(* Theorems of RunLifecycle for every set of runs, tenants, actors and       *)
(* workers: type correctness, that triggers never start overlapping runs,     *)
(* that only a resume revives a run, that the whole implements RunLife, and  *)
(* that a run is dispatched, finalized and processed by one worker at a time, *)
(* in its first life wherever its jobs run and in its second one on the       *)
(* deployment's queues.                                                       *)
EXTENDS RunLifecycle, TLAPS

\* Actors that work on a run name one; workers that are busy hold a job.
TargetsKnown ==
  \A a \in Actors :
    pc[a] \in {"triggering", "resuming", "enqueueing", "failing"} => target[a] \in Runs

JobsHeld == \A w \in Workers : wpc[w] # "idle" => job[w] \in Jobs

TypeInv == TypeOK /\ TargetsKnown /\ JobsHeld

USE LifecycleAssumption DEF Live, Ended, Modes, QueueNames

\* The head of a non-empty queue is a job, and dequeueing keeps the type.
LEMMA QueueHead ==
  ASSUME NEW s \in Seq(Jobs), s # <<>>
  PROVE  Head(s) \in Jobs /\ Tail(s) \in Seq(Jobs)
  OBVIOUS

LEMMA MarkAbandonedType ==
  ASSUME TypeOK, NEW S
  PROVE  MarkAbandoned(S) \in [Runs -> {"none"} \cup Live \cup Ended]
  BY DEF TypeOK, MarkAbandoned

LEMMA PushType ==
  ASSUME TypeOK, NEW m \in Modes, NEW r \in Runs
  PROVE  Push(m, r) \in [QueueNames -> Seq(Jobs)]
  <1>1. Job(m, r) \in Jobs
    BY DEF Job, Jobs
  <1>2. QueueOf(m) \in QueueNames
    BY DEF QueueOf
  <1>3. Append(queue[QueueOf(m)], Job(m, r)) \in Seq(Jobs)
    BY <1>1, <1>2 DEF TypeOK
  <1> QED
    BY <1>3 DEF TypeOK, Push

\* Types: the initial state and every step.
LEMMA TypeInit == Init => TypeInv
  BY DEF Init, TypeInv, TypeOK, TargetsKnown, JobsHeld, vars

LEMMA TypeTrigger ==
  ASSUME TypeInv, NEW a \in Actors, Trigger(a)
  PROVE  TypeInv'
  <1> USE DEF TypeInv, TypeOK, TargetsKnown, JobsHeld, rowVars, workerVars
  <1>1. ASSUME NEW r \in Runs, TriggerBegin(a, r) PROVE TypeInv'
    BY <1>1 DEF TriggerBegin, LiveRunsOf, LiveRuns
  <1>2. ASSUME NEW b \in BOOLEAN, TriggerRefused(a, b) PROVE TypeInv'
    BY <1>2, MarkAbandonedType DEF TriggerRefused, EndStep
  <1>3. ASSUME NEW b \in BOOLEAN, NEW ms \in SUBSET Modes,
               NEW st \in {"pending", "gated", "failed"}, TriggerCreates(a, b, st, ms)
        PROVE  TypeInv'
    <2>1. target[a] \in Runs /\ pc[a] = "triggering"
      BY <1>3 DEF TriggerCreates
    <2>2. status' \in [Runs -> {"none"} \cup Live \cup Ended]
      <3> DEFINE S == Abandoned(rows[a], b)
      <3>1. MarkAbandoned(S) \in [Runs -> {"none"} \cup Live \cup Ended]
        BY MarkAbandonedType
      <3>2. status' = [MarkAbandoned(S) EXCEPT ![target[a]] = st]
        BY <1>3 DEF TriggerCreates
      <3> HIDE DEF S
      <3> QED BY <2>1, <3>1, <3>2
    <2>3. /\ modes' \in [Runs -> SUBSET Modes]
          /\ fresh' \in [Runs -> BOOLEAN]
          /\ lock' \in [Tenants -> Actors \cup {NoActor}]
      BY <1>3, <2>1 DEF TriggerCreates
    <2>4. /\ pc' \in [Actors -> {"idle", "triggering", "resuming", "reaping",
                                  "enqueueing", "failing"}]
          /\ target' \in [Actors -> Runs \cup {NoRun}]
          /\ rows' \in [Actors -> SUBSET Runs]
          /\ TargetsKnown'
      <3>1. CASE st = "pending"
        <4>1. /\ pc' = [pc EXCEPT ![a] = "enqueueing"]
              /\ rows' = [rows EXCEPT ![a] = {}]
              /\ target' = target
          BY <1>3, <3>1 DEF TriggerCreates
        <4>2. \A x \in Actors : pc'[x] = IF x = a THEN "enqueueing" ELSE pc[x]
          BY <4>1
        <4> QED BY <2>1, <4>1, <4>2
      <3>2. CASE st # "pending"
        <4>1. /\ pc' = [pc EXCEPT ![a] = "idle"]
              /\ rows' = [rows EXCEPT ![a] = {}]
              /\ target' = [target EXCEPT ![a] = NoRun]
          BY <1>3, <3>2 DEF TriggerCreates, EndStep
        <4> QED BY <4>1
      <3> QED BY <3>1, <3>2
    <2>5. UNCHANGED <<expired, resumes, answered, completed, derived,
                      workerVars, queue, orphans, kills>>
      BY <1>3 DEF TriggerCreates
    <2> QED BY <2>2, <2>3, <2>4, <2>5
  <1>4. \A ms \in ModeSets : ms \in SUBSET Modes
    OBVIOUS
  <1> QED BY <1>1, <1>2, <1>3, <1>4 DEF Trigger

LEMMA TypeResume ==
  ASSUME TypeInv, NEW a \in Actors, Resume(a)
  PROVE  TypeInv'
  <1> USE DEF TypeInv, TypeOK, TargetsKnown, JobsHeld, rowVars, workerVars
  <1>1. ASSUME NEW r \in Runs, ResumeBegin(a, r) PROVE TypeInv'
    BY <1>1 DEF ResumeBegin, LiveRunsOf, LiveRuns
  <1>2. ASSUME NEW b \in BOOLEAN, ResumeRefused(a, b) PROVE TypeInv'
    BY <1>2, MarkAbandonedType DEF ResumeRefused, EndStep
  <1>3. ASSUME NEW b \in BOOLEAN, ResumeCommits(a, b) PROVE TypeInv'
    <2>1. target[a] \in Runs /\ pc[a] = "resuming"
      BY <1>3 DEF ResumeCommits
    <2>2. status' \in [Runs -> {"none"} \cup Live \cup Ended]
      <3> DEFINE S == Abandoned(rows[a], b)
      <3>1. MarkAbandoned(S) \in [Runs -> {"none"} \cup Live \cup Ended]
        BY MarkAbandonedType
      <3>2. status' = [MarkAbandoned(S) EXCEPT ![target[a]] = "pending"]
        BY <1>3 DEF ResumeCommits
      <3> HIDE DEF S
      <3> QED BY <2>1, <3>1, <3>2
    <2>3. resumes' \in [Runs -> Nat]
      BY <1>3, <2>1 DEF ResumeCommits
    <2>4. /\ pc' = [pc EXCEPT ![a] = "enqueueing"]
          /\ rows' = [rows EXCEPT ![a] = {}]
          /\ UNCHANGED <<modes, fresh, expired, answered, completed, derived, target,
                         lock, workerVars, queue, orphans, kills>>
      BY <1>3 DEF ResumeCommits
    <2>5. /\ pc' \in [Actors -> {"idle", "triggering", "resuming", "reaping",
                                  "enqueueing", "failing"}]
          /\ TargetsKnown' /\ JobsHeld'
      BY <2>1, <2>4
    <2> QED BY <2>2, <2>3, <2>4, <2>5
  <1> QED BY <1>1, <1>2, <1>3 DEF Resume

LEMMA TypeEnqueue ==
  ASSUME TypeInv, NEW a \in Actors, Enqueue(a)
  PROVE  TypeInv'
  <1> USE DEF TypeInv, TypeOK, TargetsKnown, JobsHeld, rowVars, workerVars
  <1>1. ASSUME NEW e \in EnqueueResults, EnqueueFirst(a, e) PROVE TypeInv'
    <2>1. target[a] \in Runs /\ pc[a] = "enqueueing"
      BY <1>1 DEF EnqueueFirst
    <2>2. FirstMode(target[a]) \in Modes
      BY DEF FirstMode
    <2>3. queue' \in [QueueNames -> Seq(Jobs)]
      BY <1>1, <2>1, <2>2, PushType DEF EnqueueFirst
    <2>4. UNCHANGED <<rowVars, lock, workerVars, orphans, kills>>
      BY <1>1 DEF EnqueueFirst
    <2>5. \/ EndStep(a)
          \/ pc' = [pc EXCEPT ![a] = "failing"] /\ UNCHANGED <<target, rows>>
      BY <1>1 DEF EnqueueFirst
    <2>6. /\ pc' \in [Actors -> {"idle", "triggering", "resuming", "reaping",
                                  "enqueueing", "failing"}]
          /\ target' \in [Actors -> Runs \cup {NoRun}]
          /\ rows' \in [Actors -> SUBSET Runs]
          /\ TargetsKnown'
      <3>1. CASE EndStep(a)
        BY <3>1 DEF EndStep
      <3>2. CASE pc' = [pc EXCEPT ![a] = "failing"] /\ UNCHANGED <<target, rows>>
        BY <2>1, <3>2
      <3> QED BY <2>5, <3>1, <3>2
    <2> QED BY <2>3, <2>4, <2>6
  <1>2. ASSUME EnqueueFailed(a) PROVE TypeInv'
    BY <1>2 DEF EnqueueFailed, EndStep
  <1> QED BY <1>1, <1>2 DEF Enqueue

LEMMA TypeReap ==
  ASSUME TypeInv, NEW a \in Actors, Reap(a)
  PROVE  TypeInv'
  <1> USE DEF TypeInv, TypeOK, TargetsKnown, JobsHeld, rowVars, workerVars, actorVars
  <1>1. ASSUME ReapBegin(a) PROVE TypeInv'
    BY <1>1 DEF ReapBegin, LiveRuns
  <1>2. ASSUME ReapNothing(a) PROVE TypeInv'
    BY <1>2 DEF ReapNothing, vars
  <1>3. ASSUME NEW b \in BOOLEAN, ReapCommits(a, b) PROVE TypeInv'
    BY <1>3, MarkAbandonedType DEF ReapCommits, EndStep
  <1> QED BY <1>1, <1>2, <1>3 DEF Reap

LEMMA TypeStartJob ==
  ASSUME TypeInv, NEW w \in Workers, StartJob(w)
  PROVE  TypeInv'
  <1> USE DEF TypeInv, TypeOK, TargetsKnown, JobsHeld, rowVars, workerVars, actorVars
  <1>1. ASSUME NEW q \in QueueNames, CanTake(w, q), Take(q)
        PROVE  /\ Head(queue[q]) \in Jobs /\ Head(queue[q]).run \in Runs
               /\ queue' \in [QueueNames -> Seq(Jobs)]
    <2>1. queue[q] \in Seq(Jobs) /\ queue[q] # <<>>
      BY <1>1 DEF CanTake
    <2>2. Head(queue[q]) \in Jobs /\ Tail(queue[q]) \in Seq(Jobs)
      BY <2>1, QueueHead
    <2> QED BY <1>1, <2>2 DEF Take, Jobs
  <1>2. ASSUME StartA(w) PROVE TypeInv'
    BY <1>1, <1>2 DEF StartA
  <1>3. ASSUME StartAUnconfigured(w) PROVE TypeInv'
    BY <1>1, <1>3 DEF StartAUnconfigured
  <1>4. ASSUME StartB(w) PROVE TypeInv'
    BY <1>1, <1>4 DEF StartB
  <1>5. ASSUME NEW q \in QueueNames, SkipJob(w, q) PROVE TypeInv'
    BY <1>1, <1>5 DEF SkipJob
  <1> QED BY <1>2, <1>3, <1>4, <1>5 DEF StartJob

\* A worker either frees itself or goes on with the job it holds.
WorkerTypes ==
  /\ wpc' \in [Workers -> {"idle", "dispatch", "handoff", "finalize", "process"}]
  /\ job' \in [Workers -> Jobs \cup {NoJob}]
  /\ again' \in [Workers -> BOOLEAN]
  /\ JobsHeld'

LEMMA WorkerFrees ==
  ASSUME TypeInv, NEW w \in Workers, FreeWorker(w)
  PROVE  WorkerTypes
  BY DEF TypeInv, TypeOK, JobsHeld, FreeWorker, WorkerTypes

LEMMA WorkerGoesOn ==
  ASSUME TypeInv, NEW w \in Workers, NEW x \in {"handoff", "finalize", "process"},
         job[w] \in Jobs, wpc' = [wpc EXCEPT ![w] = x], job' = job,
         again' \in [Workers -> BOOLEAN]
  PROVE  WorkerTypes
  <1>1. /\ wpc' \in [Workers -> {"idle", "dispatch", "handoff", "finalize", "process"}]
        /\ job' \in [Workers -> Jobs \cup {NoJob}]
    BY DEF TypeInv, TypeOK
  <1>2. JobsHeld'
    BY DEF TypeInv, TypeOK, JobsHeld
  <1> QED BY <1>1, <1>2 DEF WorkerTypes

LEMMA WorkerSameAgain ==
  ASSUME TypeInv, again' = again
  PROVE  again' \in [Workers -> BOOLEAN]
  BY DEF TypeInv, TypeOK

LEMMA AfterFinalizeType ==
  ASSUME TypeInv, NEW w \in Workers, job[w] \in Jobs, AfterFinalize(w)
  PROVE  WorkerTypes
  <1>1. CASE FreeWorker(w)
    BY <1>1, WorkerFrees
  <1>2. CASE wpc' = [wpc EXCEPT ![w] = "finalize"] /\ job' = job
             /\ again' = [again EXCEPT ![w] = FALSE]
    <2>1. again' \in [Workers -> BOOLEAN]
      BY <1>2 DEF TypeInv, TypeOK
    <2> QED BY <1>2, <2>1, WorkerGoesOn
  <1> QED BY <1>1, <1>2 DEF AfterFinalize

LEMMA TypeWork ==
  ASSUME TypeInv, NEW w \in Workers, SaveAnswer(w) \/ FinishJob(w) \/ JobRaises(w)
  PROVE  TypeInv'
  <1> USE DEF TypeInv, TypeOK, TargetsKnown, JobsHeld, rowVars, workerVars, actorVars
  <1>1. wpc[w] # "idle" => job[w] \in Jobs /\ job[w].run \in Runs /\ job[w].mode \in Modes
    BY DEF Jobs
  <1>2. ASSUME SaveAnswer(w) PROVE TypeInv'
    <2>1. job[w].run \in Runs /\ job[w].mode \in Modes
      BY <1>1, <1>2 DEF SaveAnswer
    <2>2. /\ answered' \in [Runs -> SUBSET Modes]
          /\ completed' \in [Runs -> BOOLEAN]
          /\ derived' \in [Runs -> {"none", "done", "error"}]
      BY <2>1, <1>2 DEF SaveAnswer
    <2> QED BY <1>2, <2>2 DEF SaveAnswer
  <1>3. ASSUME CloseDispatch(w) PROVE TypeInv'
    <2>1. job[w].run \in Runs /\ job[w] \in Jobs
      BY <1>1, <1>3 DEF CloseDispatch
    <2>2. completed' \in [Runs -> BOOLEAN]
      BY <2>1, <1>3, Zenon DEF CloseDispatch
    <2>3. \E x \in {"handoff", "finalize"} : wpc' = [wpc EXCEPT ![w] = x]
      BY <1>3 DEF CloseDispatch
    <2>4. /\ wpc' \in [Workers -> {"idle", "dispatch", "handoff", "finalize", "process"}]
          /\ UNCHANGED <<status, modes, fresh, expired, resumes, answered, derived,
                         actorVars, job, queue, orphans, kills>>
      BY <1>3, <2>3 DEF CloseDispatch
    <2>6. again' \in [Workers -> BOOLEAN]
      BY <1>3, Zenon DEF CloseDispatch
    <2>5. JobsHeld'
      BY <2>1, <2>3, <2>4
    <2> QED BY <2>2, <2>4, <2>5, <2>6
  <1>4. ASSUME NEW e \in EnqueueResults, Handoff(w, e) PROVE TypeInv'
    <2>1. queue' \in [QueueNames -> Seq(Jobs)]
      BY <1>1, <1>4, PushType DEF Handoff
    <2>2. job[w] \in Jobs
      BY <1>1, <1>4 DEF Handoff
    <2>3. WorkerTypes
      BY <1>4, <2>2, WorkerFrees, WorkerGoesOn, WorkerSameAgain DEF Handoff
    <2>4. UNCHANGED <<rowVars, actorVars, orphans, kills>>
      BY <1>4 DEF Handoff
    <2> QED BY <2>1, <2>3, <2>4 DEF WorkerTypes
  <1>5. ASSUME NEW st \in Ended, Finalize(w, st) PROVE TypeInv'
    <2>1. job[w].run \in Runs /\ job[w] \in Jobs
      BY <1>1, <1>5 DEF Finalize
    <2>2. status' \in [Runs -> {"none"} \cup Live \cup Ended]
      BY <2>1, <1>5 DEF Finalize
    <2>3. \/ AfterFinalize(w)
          \/ wpc' = [wpc EXCEPT ![w] = "process"] /\ UNCHANGED <<job, again>>
      BY <1>5 DEF Finalize
    <2>4. UNCHANGED <<modes, fresh, expired, resumes, answered, completed, derived,
                      actorVars, queue, orphans, kills>>
      BY <1>5 DEF Finalize
    <2>5. WorkerTypes
      BY <2>1, <2>3, AfterFinalizeType, WorkerGoesOn, WorkerSameAgain
    <2> QED BY <2>2, <2>4, <2>5 DEF WorkerTypes
  <1>6. ASSUME NEW d \in {"done", "error"}, Process(w, d) PROVE TypeInv'
    <2>1. job[w].run \in Runs /\ job[w] \in Jobs
      BY <1>1, <1>6 DEF Process
    <2>2. WorkerTypes
      BY <1>6, <2>1, AfterFinalizeType DEF Process
    <2>3. derived' \in [Runs -> {"none", "done", "error"}]
      BY <1>6, <2>1 DEF Process
    <2>4. UNCHANGED <<status, modes, fresh, expired, resumes, answered, completed,
                      actorVars, queue, orphans, kills>>
      BY <1>6 DEF Process
    <2> QED BY <2>2, <2>3, <2>4 DEF WorkerTypes
  <1>7. ASSUME JobRaises(w) PROVE TypeInv'
    <2>1. job[w].run \in Runs /\ job[w] \in Jobs
      BY <1>1, <1>7 DEF JobRaises
    <2>2. status' = status \/ status' = [status EXCEPT ![job[w].run] = "failed"]
      BY <1>7 DEF JobRaises
    <2>3. \/ FreeWorker(w)
          \/ wpc' = [wpc EXCEPT ![w] = "finalize"] /\ UNCHANGED <<job, again>>
      BY <1>7 DEF JobRaises
    <2>4. UNCHANGED <<modes, fresh, expired, resumes, answered, completed, derived,
                      actorVars, queue, orphans, kills>>
      BY <1>7 DEF JobRaises
    <2>5. WorkerTypes
      BY <2>1, <2>3, WorkerFrees, WorkerGoesOn, WorkerSameAgain
    <2> QED BY <2>2, <2>4, <2>5 DEF WorkerTypes
  <1> QED BY <1>2, <1>3, <1>4, <1>5, <1>6, <1>7 DEF FinishJob, Ended

LEMMA TypeEnvironment ==
  ASSUME TypeInv, Crash \/ Time
  PROVE  TypeInv'
  <1> USE DEF TypeInv, TypeOK, TargetsKnown, JobsHeld, rowVars, workerVars, actorVars
  <1>1. ASSUME NEW w \in Workers, KillWorker(w) PROVE TypeInv'
    BY <1>1 DEF KillWorker, FreeWorker
  <1>2. ASSUME NEW a \in Actors, KillActor(a) PROVE TypeInv'
    BY <1>2 DEF KillActor, EndStep
  <1>3. ASSUME NEW j \in orphans, HeartbeatLapses(j) PROVE TypeInv'
    BY <1>3 DEF HeartbeatLapses
  <1>4. ASSUME NEW r \in Runs, GraceEnds(r) PROVE TypeInv'
    <2>1. /\ fresh' = [fresh EXCEPT ![r] = FALSE]
          /\ UNCHANGED <<status, modes, expired, resumes, answered, completed, derived,
                         actorVars, workerVars, queue, orphans, kills>>
      BY <1>4 DEF GraceEnds
    <2> QED BY <2>1
  <1>5. ASSUME NEW r \in Runs, TtlPasses(r) PROVE TypeInv'
    <2>1. /\ expired' = [expired EXCEPT ![r] = TRUE]
          /\ UNCHANGED <<status, modes, fresh, resumes, answered, completed, derived,
                         actorVars, workerVars, queue, orphans, kills>>
      BY <1>5 DEF TtlPasses
    <2> QED BY <2>1
  <1> QED BY <1>1, <1>2, <1>3, <1>4, <1>5 DEF Crash, Time

LEMMA TypeStep == TypeInv /\ [Next]_vars => TypeInv'
  <1> SUFFICES ASSUME TypeInv, [Next]_vars PROVE TypeInv'
    OBVIOUS
  <1>1. CASE UNCHANGED vars
    BY <1>1 DEF vars, rowVars, actorVars, workerVars, TypeInv, TypeOK, TargetsKnown, JobsHeld
  <1>2. CASE Next
    BY <1>2, TypeTrigger, TypeResume, TypeEnqueue, TypeReap, TypeStartJob, TypeWork,
       TypeEnvironment DEF Next
  <1> QED BY <1>1, <1>2

\* Every variable keeps its type in every reachable state (the rows, queues
\* and processes of RunLifecycle, for any number of runs and workers).
THEOREM TypeCorrect == Spec => []TypeOK
  <1>1. TypeInv => TypeOK
    BY DEF TypeInv
  <1> QED BY TypeInit, TypeStep, <1>1, PTL DEF Spec

-----------------------------------------------------------------------------
(* Triggers never overlap. The invariant is inductive only together with     *)
(* SnapshotHolds: what a trigger read under the lock covers every run that    *)
(* could go on living beside the one it creates.                             *)

SafeInv == TriggersNeverOverlap /\ SnapshotHolds

\* The runs the property is about: live and never resumed.
Plain(r) == status[r] \in Live /\ resumes[r] = 0

LEMMA OverlapPlain ==
  ASSUME TypeOK
  PROVE  TriggersNeverOverlap <=>
           \A r1, r2 \in Runs : Plain(r1) /\ Plain(r2) /\ Owner[r1] = Owner[r2] => r1 = r2
  <1>1. \A r \in Runs : resumes[r] \in Nat
    BY DEF TypeOK
  <1>2. \A m, n \in Nat : (m + n > 0) <=> ~(m = 0 /\ n = 0)
    OBVIOUS
  <1> QED BY <1>1, <1>2 DEF TriggersNeverOverlap, Plain, LiveRuns

\* A step that revives no plain run and touches no trigger in progress.
NoNewPlain == \A r \in Runs : Plain(r)' => Plain(r)

TriggersKept ==
  \A a \in Actors : pc'[a] = "triggering" =>
    /\ pc[a] = "triggering" /\ target'[a] = target[a] /\ rows'[a] = rows[a]
    /\ lock'[Owner[target[a]]] = lock[Owner[target[a]]]

LEMMA QuietStep ==
  ASSUME TypeInv, TypeInv', SafeInv, NoNewPlain, TriggersKept
  PROVE  SafeInv'
  <1>1. TypeOK /\ TypeOK' /\ TriggersNeverOverlap /\ SnapshotHolds
    BY DEF TypeInv, SafeInv
  <1>2. TriggersNeverOverlap'
    <2>1. \A r1, r2 \in Runs : Plain(r1)' /\ Plain(r2)' /\ Owner[r1] = Owner[r2] => r1 = r2
      BY <1>1, OverlapPlain DEF NoNewPlain
    <2>2. TriggersNeverOverlap' <=> (\A r1, r2 \in Runs :
            Plain(r1)' /\ Plain(r2)' /\ Owner[r1] = Owner[r2] => r1 = r2)
      <3>1. \A r \in Runs : resumes'[r] \in Nat
        BY <1>1 DEF TypeOK
      <3>2. \A m, n \in Nat : (m + n > 0) <=> ~(m = 0 /\ n = 0)
        OBVIOUS
      <3> QED BY <3>1, <3>2 DEF TriggersNeverOverlap, Plain, LiveRuns
    <2> QED BY <2>1, <2>2
  <1>3. SnapshotHolds'
    BY <1>1 DEF SnapshotHolds, TriggersKept, NoNewPlain, Plain, LiveRunsOf, LiveRuns
  <1> QED BY <1>2, <1>3 DEF SafeInv

\* Reaping only ends runs.
LEMMA ReapEnds ==
  ASSUME TypeOK, NEW S, NEW r \in Runs, MarkAbandoned(S)[r] \in Live
  PROVE  r \notin S /\ status[r] \in Live
  BY DEF TypeOK, MarkAbandoned

\* An actor that ends its step leaves the other actors' triggers alone.
LEMMA EndStepKeeps ==
  ASSUME TypeInv, NEW a \in Actors, EndStep(a),
         \/ UNCHANGED lock
         \/ \A t \in Tenants : lock[t] # a => lock'[t] = lock[t],
         SnapshotHolds
  PROVE  TriggersKept
  <1>1. \A b \in Actors : pc'[b] = "triggering" =>
          /\ b # a /\ pc[b] = "triggering" /\ target'[b] = target[b] /\ rows'[b] = rows[b]
    BY DEF TypeInv, TypeOK, EndStep
  <1>2. \A b \in Actors : pc[b] = "triggering" =>
          Owner[target[b]] \in Tenants /\ lock[Owner[target[b]]] = b
    BY DEF TypeInv, TargetsKnown, SnapshotHolds
  <1> QED BY <1>1, <1>2 DEF TriggersKept

LEMMA QuietActors ==
  ASSUME TypeInv, SafeInv, NEW a \in Actors,
         \/ \E b \in BOOLEAN : TriggerRefused(a, b)
         \/ Resume(a) \/ Enqueue(a) \/ Reap(a)
  PROVE  NoNewPlain /\ TriggersKept
  <1> USE DEF NoNewPlain, Plain
  <1>0. TypeOK /\ SnapshotHolds /\ TargetsKnown
    BY DEF TypeInv, SafeInv
  <1>1. ASSUME NEW b \in BOOLEAN, TriggerRefused(a, b) PROVE NoNewPlain /\ TriggersKept
    <2>1. NoNewPlain
      BY <1>0, <1>1, ReapEnds DEF TriggerRefused
    <2>2. lock[Owner[target[a]]] = a /\ EndStep(a)
          /\ lock' = [lock EXCEPT ![Owner[target[a]]] = NoActor]
      BY <1>0, <1>1 DEF TriggerRefused, SnapshotHolds
    <2>3. \A t \in Tenants : lock[t] # a => lock'[t] = lock[t]
      BY <1>0, <2>2 DEF TypeOK
    <2> QED BY <1>0, <2>1, <2>2, <2>3, EndStepKeeps
  <1>2. ASSUME NEW r \in Runs, ResumeBegin(a, r) PROVE NoNewPlain /\ TriggersKept
    BY <1>0, <1>2 DEF ResumeBegin, rowVars, TriggersKept, TypeOK
  <1>3. ASSUME NEW b \in BOOLEAN, ResumeRefused(a, b) PROVE NoNewPlain /\ TriggersKept
    BY <1>0, <1>3, ReapEnds, EndStepKeeps DEF ResumeRefused
  <1>4. ASSUME NEW b \in BOOLEAN, ResumeCommits(a, b) PROVE NoNewPlain /\ TriggersKept
    <2>1. target[a] \in Runs
      BY <1>0, <1>4 DEF TargetsKnown, ResumeCommits
    <2>2. /\ status' = [MarkAbandoned(Abandoned(rows[a], b)) EXCEPT ![target[a]] = "pending"]
          /\ resumes' = [resumes EXCEPT ![target[a]] = @ + 1]
      BY <1>4 DEF ResumeCommits
    <2>3. resumes'[target[a]] # 0
      BY <1>0, <2>1, <2>2 DEF TypeOK
    <2>4. ASSUME NEW r \in Runs, Plain(r)' PROVE Plain(r)
      <3>1. r # target[a]
        BY <2>3, <2>4
      <3>2. MarkAbandoned(Abandoned(rows[a], b))[r] \in Live /\ resumes[r] = 0
        BY <1>0, <2>2, <2>4, <3>1 DEF TypeOK, MarkAbandoned
      <3> QED BY <1>0, <3>2, ReapEnds
    <2>5. TriggersKept
      BY <1>0, <1>4 DEF ResumeCommits, TriggersKept, TypeOK
    <2> QED BY <2>4, <2>5
  <1>5. ASSUME NEW e \in EnqueueResults, EnqueueFirst(a, e) PROVE NoNewPlain /\ TriggersKept
    <2>1. UNCHANGED <<status, resumes, lock>>
      BY <1>5 DEF EnqueueFirst, rowVars
    <2>2. \/ EndStep(a)
          \/ pc' = [pc EXCEPT ![a] = "failing"] /\ UNCHANGED <<target, rows>>
      BY <1>5 DEF EnqueueFirst
    <2>3. TriggersKept
      <3>1. CASE EndStep(a)
        BY <1>0, <2>1, <3>1, EndStepKeeps
      <3>2. CASE pc' = [pc EXCEPT ![a] = "failing"] /\ UNCHANGED <<target, rows>>
        BY <1>0, <2>1, <3>2 DEF TriggersKept, TypeOK
      <3> QED BY <2>2, <3>1, <3>2
    <2> QED BY <2>1, <2>3
  <1>6. ASSUME EnqueueFailed(a) PROVE NoNewPlain /\ TriggersKept
    <2>1. NoNewPlain
      BY <1>0, <1>6 DEF EnqueueFailed, TypeOK
    <2> QED BY <1>0, <1>6, <2>1, EndStepKeeps DEF EnqueueFailed
  <1>7. ASSUME ReapBegin(a) \/ ReapNothing(a) PROVE NoNewPlain /\ TriggersKept
    BY <1>0, <1>7 DEF ReapBegin, ReapNothing, vars, rowVars, actorVars, TriggersKept, TypeOK
  <1>8. ASSUME NEW b \in BOOLEAN, ReapCommits(a, b) PROVE NoNewPlain /\ TriggersKept
    BY <1>0, <1>8, ReapEnds, EndStepKeeps DEF ReapCommits
  <1> QED BY <1>1, <1>2, <1>3, <1>4, <1>5, <1>6, <1>7, <1>8 DEF Resume, Enqueue, Reap

\* Workers and time touch no trigger, start only live runs and end the rest.
LEMMA QuietWorkers ==
  ASSUME TypeInv, SafeInv, NEW w \in Workers,
         StartJob(w) \/ SaveAnswer(w) \/ FinishJob(w) \/ JobRaises(w)
  PROVE  NoNewPlain /\ TriggersKept
  <1>0. TypeOK /\ JobsHeld
    BY DEF TypeInv
  <1>1. ASSUME NEW q \in QueueNames, CanTake(w, q) PROVE Head(queue[q]).run \in Runs
    <2>1. queue[q] \in Seq(Jobs) /\ queue[q] # <<>>
      BY <1>0, <1>1 DEF TypeOK, CanTake
    <2>2. Head(queue[q]) \in Jobs
      BY <2>1, QueueHead
    <2> QED BY <2>2 DEF Jobs
  <1>2. UNCHANGED actorVars
    BY DEF StartJob, StartA, StartAUnconfigured, StartB, SkipJob, SaveAnswer, FinishJob,
           CloseDispatch, Handoff, Finalize, Process, JobRaises
  <1>3. UNCHANGED resumes
    BY DEF rowVars, StartJob, StartA, StartAUnconfigured, StartB, SkipJob, SaveAnswer,
           FinishJob, CloseDispatch, Handoff, Finalize, Process, JobRaises
  <1>4. ASSUME StartJob(w), NEW r \in Runs, status'[r] \in Live PROVE status[r] \in Live
    <2>1. CASE StartA(w)
      BY <1>0, <1>1, <1>4, <2>1 DEF StartA, TypeOK, Startable
    <2>2. CASE StartAUnconfigured(w)
      BY <1>0, <1>1, <1>4, <2>2 DEF StartAUnconfigured, TypeOK, Startable
    <2>3. CASE StartB(w)
      BY <1>0, <1>1, <1>4, <2>3 DEF StartB, TypeOK, Startable
    <2>4. CASE \E q \in QueueNames : SkipJob(w, q)
      BY <1>4, <2>4 DEF SkipJob, rowVars
    <2> QED BY <1>4, <2>1, <2>2, <2>3, <2>4 DEF StartJob
  <1>5. ASSUME SaveAnswer(w) \/ FinishJob(w) \/ JobRaises(w), NEW r \in Runs, status'[r] \in Live
        PROVE  status[r] \in Live
    <2>1. CASE UNCHANGED status
      BY <1>5, <2>1
    <2>2. ASSUME NEW st \in Ended, Finalize(w, st) PROVE status[r] \in Live
      BY <1>0, <1>5, <2>2 DEF Finalize, TypeOK
    <2>3. CASE JobRaises(w)
      BY <1>0, <1>5, <2>3 DEF JobRaises, TypeOK
    <2> QED BY <1>5, <2>1, <2>2, <2>3
            DEF SaveAnswer, FinishJob, CloseDispatch, Handoff, Process, rowVars
  <1>6. NoNewPlain
    BY <1>3, <1>4, <1>5 DEF NoNewPlain, Plain
  <1>7. TriggersKept
    BY <1>2 DEF actorVars, TriggersKept
  <1> QED BY <1>6, <1>7

LEMMA QuietEnvironment ==
  ASSUME TypeInv, SafeInv, Crash \/ Time \/ UNCHANGED vars
  PROVE  NoNewPlain /\ TriggersKept
  <1> USE DEF NoNewPlain, Plain
  <1>0. SnapshotHolds /\ TypeOK /\ TargetsKnown
    BY DEF SafeInv, TypeInv
  <1>1. ASSUME NEW a \in Actors, KillActor(a) PROVE NoNewPlain /\ TriggersKept
    <2>1. /\ UNCHANGED <<status, resumes>> /\ EndStep(a)
          /\ \A t \in Tenants : lock[t] # a => lock'[t] = lock[t]
      BY <1>1 DEF KillActor, rowVars
    <2> QED BY <1>0, <2>1, EndStepKeeps
  <1>2. ASSUME NEW w \in Workers, KillWorker(w) PROVE NoNewPlain /\ TriggersKept
    BY <1>2 DEF KillWorker, rowVars, actorVars, TriggersKept
  <1>3. ASSUME Time PROVE NoNewPlain /\ TriggersKept
    BY <1>3 DEF Time, HeartbeatLapses, GraceEnds, TtlPasses, rowVars, actorVars, TriggersKept
  <1>4. ASSUME UNCHANGED vars PROVE NoNewPlain /\ TriggersKept
    BY <1>4 DEF vars, rowVars, actorVars, TriggersKept
  <1> QED BY <1>1, <1>2, <1>3, <1>4 DEF Crash

LEMMA TriggerBeginSafe ==
  ASSUME TypeInv, TypeInv', SafeInv, NEW a \in Actors, NEW r \in Runs, TriggerBegin(a, r)
  PROVE  SafeInv'
  <1>1. TypeOK /\ TargetsKnown /\ TriggersNeverOverlap /\ SnapshotHolds
    BY DEF TypeInv, SafeInv
  <1>2. /\ UNCHANGED <<status, resumes>>
        /\ lock[Owner[r]] = NoActor /\ lock' = [lock EXCEPT ![Owner[r]] = a]
        /\ pc' = [pc EXCEPT ![a] = "triggering"]
        /\ target' = [target EXCEPT ![a] = r]
        /\ rows' = [rows EXCEPT ![a] = LiveRunsOf(Owner[r])]
    BY DEF TriggerBegin, rowVars
  <1>3. TriggersNeverOverlap'
    BY <1>1, <1>2 DEF TriggersNeverOverlap, LiveRuns
  <1>4. ASSUME NEW b \in Actors, pc'[b] = "triggering"
        PROVE  /\ lock'[Owner[target'[b]]] = b
               /\ \A x \in LiveRunsOf(Owner[target'[b]]) : resumes[x] = 0 => x \in rows'[b]
    <2>1. CASE b = a
      BY <1>1, <1>2, <2>1 DEF TypeOK
    <2>2. CASE b # a
      <3>1. /\ pc[b] = "triggering" /\ target'[b] = target[b] /\ rows'[b] = rows[b]
            /\ target[b] \in Runs
        BY <1>1, <1>2, <1>4, <2>2 DEF TypeOK, TargetsKnown
      <3>2. lock[Owner[target[b]]] = b
        BY <1>1, <3>1 DEF SnapshotHolds
      <3>3. lock'[Owner[target[b]]] = b
        BY <1>1, <1>2, <3>1, <3>2 DEF TypeOK
      <3> QED BY <1>1, <3>1, <3>3 DEF SnapshotHolds
    <2> QED BY <2>1, <2>2
  <1>5. \A t : LiveRunsOf(t)' = LiveRunsOf(t)
    BY <1>2 DEF LiveRunsOf, LiveRuns
  <1>6. SnapshotHolds'
    BY <1>2, <1>4, <1>5 DEF SnapshotHolds
  <1> QED BY <1>3, <1>6 DEF SafeInv

\* The commit of a trigger: every plain run of the tenant was in the snapshot
\* and has just been reaped, so the run created is alone.
LEMMA TriggerCreatesSafe ==
  ASSUME TypeInv, TypeInv', SafeInv, NEW a \in Actors, NEW b \in BOOLEAN,
         NEW st, NEW ms, TriggerCreates(a, b, st, ms)
  PROVE  SafeInv'
  <1> DEFINE r0 == target[a]
             dead == Abandoned(rows[a], b)
  <1>1. /\ TypeOK /\ TargetsKnown /\ TypeOK' /\ SnapshotHolds
        /\ \A r1, r2 \in Runs : Plain(r1) /\ Plain(r2) /\ Owner[r1] = Owner[r2] => r1 = r2
    BY OverlapPlain DEF TypeInv, SafeInv
  <1>2. /\ pc[a] = "triggering" /\ rows[a] = dead /\ r0 \in Runs
        /\ status' = [MarkAbandoned(dead) EXCEPT ![r0] = st]
        /\ lock' = [lock EXCEPT ![Owner[r0]] = NoActor]
        /\ UNCHANGED resumes
    BY <1>1 DEF TriggerCreates, TargetsKnown
  <1>3. /\ lock[Owner[r0]] = a
        /\ \A x \in LiveRunsOf(Owner[r0]) : resumes[x] = 0 => x \in dead
    BY <1>1, <1>2 DEF SnapshotHolds
  <1> HIDE DEF dead
  <1>4. ASSUME NEW x \in Runs, x # r0, Plain(x)'
        PROVE  Plain(x) /\ Owner[x] # Owner[r0]
    <2>1. MarkAbandoned(dead)[x] \in Live
      BY <1>1, <1>2, <1>4 DEF Plain, MarkAbandoned
    <2>2. x \notin dead /\ Plain(x)
      BY <1>1, <1>2, <1>4, <2>1, ReapEnds DEF Plain
    <2> QED BY <1>3, <2>2 DEF Plain, LiveRunsOf, LiveRuns
  <1>5. TriggersNeverOverlap'
    <2>1. \A r1, r2 \in Runs : Plain(r1)' /\ Plain(r2)' /\ Owner[r1] = Owner[r2] => r1 = r2
      BY <1>1, <1>4
    <2>2. \A r \in Runs : resumes'[r] \in Nat
      BY <1>1 DEF TypeOK
    <2>3. \A m, n \in Nat : (m + n > 0) <=> ~(m = 0 /\ n = 0)
      OBVIOUS
    <2> QED BY <2>1, <2>2, <2>3 DEF TriggersNeverOverlap, Plain, LiveRuns
  <1>6. ASSUME NEW c \in Actors, pc'[c] = "triggering"
        PROVE  /\ c # a /\ pc[c] = "triggering" /\ target[c] \in Runs
               /\ target'[c] = target[c] /\ rows'[c] = rows[c]
    <2>1. \/ /\ pc' = [pc EXCEPT ![a] = "enqueueing"]
             /\ rows' = [rows EXCEPT ![a] = {}] /\ UNCHANGED target
          \/ EndStep(a)
      BY DEF TriggerCreates
    <2> QED BY <1>1, <1>6, <2>1 DEF TypeOK, TargetsKnown, EndStep
  <1>7. ASSUME NEW c \in Actors, pc'[c] = "triggering"
        PROVE  /\ lock'[Owner[target'[c]]] = c
               /\ \A x \in LiveRunsOf(Owner[target[c]])' : resumes'[x] = 0 => x \in rows'[c]
    <2>1. c # a /\ pc[c] = "triggering" /\ target'[c] = target[c] /\ rows'[c] = rows[c]
          /\ target[c] \in Runs
      BY <1>6, <1>7
    <2>2. lock[Owner[target[c]]] = c
      BY <1>1, <2>1 DEF SnapshotHolds
    <2>3. Owner[target[c]] # Owner[r0]
      BY <1>3, <2>1, <2>2
    <2>4. lock'[Owner[target[c]]] = c
      BY <1>1, <1>2, <2>1, <2>2, <2>3 DEF TypeOK
    <2>5. ASSUME NEW x \in LiveRunsOf(Owner[target[c]])', resumes'[x] = 0 PROVE x \in rows'[c]
      <3>1. x \in Runs /\ Plain(x)' /\ Owner[x] = Owner[target[c]]
        BY <2>1, <2>5 DEF LiveRunsOf, LiveRuns, Plain
      <3>2. x # r0
        BY <2>3, <3>1
      <3>3. x \in LiveRunsOf(Owner[target[c]]) /\ resumes[x] = 0
        BY <1>4, <3>1, <3>2 DEF LiveRunsOf, LiveRuns, Plain
      <3> QED BY <1>1, <2>1, <3>3 DEF SnapshotHolds
    <2> QED BY <2>1, <2>4, <2>5
  <1>8. SnapshotHolds'
    BY <1>7 DEF SnapshotHolds
  <1> QED BY <1>5, <1>8 DEF SafeInv

LEMMA SafeInit == Init => SafeInv
  BY DEF Init, SafeInv, TriggersNeverOverlap, SnapshotHolds, LiveRuns, LiveRunsOf

LEMMA SafeStep ==
  ASSUME TypeInv, TypeInv', SafeInv, [Next]_vars
  PROVE  SafeInv'
  <1>1. CASE \E a \in Actors, r \in Runs : TriggerBegin(a, r)
    BY <1>1, TriggerBeginSafe
  <1>2. CASE \E a \in Actors, b \in BOOLEAN : \E st, ms : TriggerCreates(a, b, st, ms)
    BY <1>2, TriggerCreatesSafe
  <1>3. CASE \E a \in Actors : \/ \E b \in BOOLEAN : TriggerRefused(a, b)
                               \/ Resume(a) \/ Enqueue(a) \/ Reap(a)
    BY <1>3, QuietActors, QuietStep
  <1>4. CASE \E w \in Workers : StartJob(w) \/ SaveAnswer(w) \/ FinishJob(w) \/ JobRaises(w)
    BY <1>4, QuietWorkers, QuietStep
  <1>5. CASE Crash \/ Time \/ UNCHANGED vars
    BY <1>5, QuietEnvironment, QuietStep
  <1> QED BY <1>1, <1>2, <1>3, <1>4, <1>5 DEF Next, Trigger

\* For any number of runs, tenants, processes and workers, two runs of one
\* tenant are never live together unless one of them was resumed.
THEOREM NoOverlap == Spec => []TriggersNeverOverlap
  <1>1. SafeInv => TriggersNeverOverlap
    BY DEF SafeInv
  <1>2. TypeInv /\ SafeInv /\ [Next]_vars => (TypeInv /\ SafeInv)'
    BY TypeStep, SafeStep
  <1> QED BY TypeInit, SafeInit, <1>1, <1>2, PTL DEF Spec

\* For any number of processes, what a trigger read under its lock covers
\* every never-resumed live run of the tenant until it commits.
THEOREM SnapshotStable == Spec => []SnapshotHolds
  <1>1. SafeInv => SnapshotHolds
    BY DEF SafeInv
  <1>2. TypeInv /\ SafeInv /\ [Next]_vars => (TypeInv /\ SafeInv)'
    BY TypeStep, SafeStep
  <1> QED BY TypeInit, SafeInit, <1>1, <1>2, PTL DEF Spec

\* Both, the exclusion the code's comment at the lock promises.
THEOREM TriggersExcluded == Spec => []TriggersExclude
  <1>1. SafeInv => TriggersExclude
    BY DEF SafeInv, TriggersExclude
  <1>2. TypeInv /\ SafeInv /\ [Next]_vars => (TypeInv /\ SafeInv)'
    BY TypeStep, SafeStep
  <1> QED BY TypeInit, SafeInit, <1>1, <1>2, PTL DEF Spec

-----------------------------------------------------------------------------
(* Only a resume revives. A run that ended can be made live by an actor that  *)
(* creates it again, by a worker that starts a left-over job, or by a resume.  *)
(* The first needs that a trigger works on a run that does not exist yet, and  *)
(* that nothing else can touch such a run: what queues, workers, readers and   *)
(* other actors refer to was born.                                             *)

Born(r) == status[r] # "none"

BornInv ==
  /\ \A a \in Actors : pc[a] = "triggering" => ~Born(target[a])
  /\ \A a \in Actors :
       pc[a] \in {"resuming", "enqueueing", "failing"} => Born(target[a])
  /\ \A a \in Actors : \A r \in rows[a] : Born(r)
  /\ \A q \in QueueNames : \A i \in 1..Len(queue[q]) : Born(queue[q][i].run)
  /\ \A w \in Workers : wpc[w] # "idle" => Born(job[w].run)

\* The references of the actors and of the workers after a step.
ActorRefs ==
  /\ \A a \in Actors : pc'[a] = "triggering" => pc[a] = "triggering" /\ target'[a] = target[a]
  /\ \A a \in Actors :
       pc'[a] \in {"resuming", "enqueueing", "failing"} => Born(target'[a])
  /\ \A a \in Actors : \A r \in rows'[a] : Born(r)

QueueRefs == \A q \in QueueNames : \A i \in 1..Len(queue'[q]) : Born(queue'[q][i].run)

WorkerRefs == \A w \in Workers : wpc'[w] # "idle" => Born(job'[w].run)

SameBorn == \A r \in Runs : Born(r)' <=> Born(r)

\* A step that creates no run and refers to born runs only keeps BornInv.
LEMMA BornKept ==
  ASSUME TypeInv, TypeInv', BornInv, SameBorn, ActorRefs, QueueRefs, WorkerRefs
  PROVE  BornInv'
  <1>1. \A a \in Actors : pc'[a] = "triggering" => ~Born(target[a])' /\ target'[a] \in Runs
    BY DEF TypeInv, TypeOK, TargetsKnown, BornInv, SameBorn, ActorRefs, Born
  <1>2. \A a \in Actors :
          pc'[a] \in {"resuming", "enqueueing", "failing"} => Born(target[a])'
    BY DEF TypeInv, TypeOK, TargetsKnown, SameBorn, ActorRefs, Born
  <1>3. \A a \in Actors : \A r \in rows'[a] : Born(r)'
    BY DEF TypeInv, TypeOK, SameBorn, ActorRefs, Born
  <1>4. \A q \in QueueNames : \A i \in 1..Len(queue'[q]) : Born(queue[q][i].run)'
    <2> SUFFICES ASSUME NEW q \in QueueNames, NEW i \in 1..Len(queue'[q])
                 PROVE  Born(queue[q][i].run)'
      OBVIOUS
    <2>1. queue'[q] \in Seq(Jobs)
      BY DEF TypeInv, TypeOK
    <2>2. queue'[q][i] \in Jobs
      BY <2>1
    <2>3. queue'[q][i].run \in Runs
      BY <2>2 DEF Jobs
    <2>4. status[queue'[q][i].run] # "none"
      BY DEF QueueRefs, Born
    <2> QED BY <2>3, <2>4 DEF SameBorn, Born
  <1>5. \A w \in Workers : wpc'[w] # "idle" => Born(job[w].run)'
    <2> SUFFICES ASSUME NEW w \in Workers, wpc'[w] # "idle" PROVE Born(job[w].run)'
      OBVIOUS
    <2>1. job'[w] \in Jobs
      BY DEF TypeInv, JobsHeld
    <2>2. job'[w].run \in Runs
      BY <2>1 DEF Jobs
    <2>3. status[job'[w].run] # "none"
      BY DEF WorkerRefs, Born
    <2> QED BY <2>2, <2>3 DEF SameBorn, Born
  <1> QED BY <1>1, <1>2, <1>3, <1>4, <1>5 DEF BornInv, Born

\* Reaping born runs changes nothing about which runs were born.
LEMMA ReapBorn ==
  ASSUME TypeInv, BornInv, NEW a \in Actors, NEW b \in BOOLEAN, NEW r \in Runs
  PROVE  MarkAbandoned(Abandoned(rows[a], b))[r] = "none" <=> ~Born(r)
  <1>1. \A x \in Abandoned(rows[a], b) : Born(x)
    BY DEF BornInv, Abandoned
  <1> QED BY <1>1 DEF MarkAbandoned, Born

\* An enqueue of a born run, a dequeue, and a step that does neither.
LEMMA PushRefs ==
  ASSUME TypeInv, BornInv, NEW m \in Modes, NEW r \in Runs, Born(r), queue' = Push(m, r)
  PROVE  QueueRefs
  <1>1. QueueOf(m) \in QueueNames /\ Job(m, r).run = r
    BY DEF QueueOf, Job
  <1> SUFFICES ASSUME NEW q \in QueueNames, NEW i \in 1..Len(queue'[q])
               PROVE  Born(queue'[q][i].run)
    BY DEF QueueRefs
  <1>2. queue[q] \in Seq(Jobs) /\ Job(m, r) \in Jobs
    BY DEF TypeInv, TypeOK, Job, Jobs
  <1>3. CASE q = QueueOf(m)
    <2>1. queue'[q] = Append(queue[q], Job(m, r))
      BY <1>3, <1>1 DEF Push, TypeInv, TypeOK
    <2>2. queue'[q][i] = Job(m, r) \/ (i \in 1..Len(queue[q]) /\ queue'[q][i] = queue[q][i])
      BY <1>2, <2>1
    <2> QED BY <1>1, <2>2 DEF BornInv
  <1>4. CASE q # QueueOf(m)
    BY <1>4, <1>1 DEF Push, BornInv, TypeInv, TypeOK
  <1> QED BY <1>3, <1>4

LEMMA TakeRefs ==
  ASSUME TypeInv, BornInv, NEW w \in Workers, NEW x \in QueueNames, CanTake(w, x), Take(x)
  PROVE  QueueRefs /\ Born(Head(queue[x]).run) /\ Head(queue[x]) \in Jobs
  <1>1. queue[x] \in Seq(Jobs) /\ queue[x] # <<>>
    BY DEF TypeInv, TypeOK, CanTake
  <1>2. Head(queue[x]) \in Jobs /\ Head(queue[x]) = queue[x][1] /\ 1 \in 1..Len(queue[x])
    BY <1>1
  <1>3. ASSUME NEW q \in QueueNames, NEW i \in 1..Len(queue'[q])
        PROVE  Born(queue'[q][i].run)
    <2>1. CASE q = x
      <3>1. queue'[q] = Tail(queue[x])
        BY <2>1 DEF Take, TypeInv, TypeOK
      <3>2. i + 1 \in 1..Len(queue[x]) /\ queue'[q][i] = queue[x][i + 1]
        BY <1>1, <3>1
      <3> QED BY <3>2 DEF BornInv
    <2>2. CASE q # x
      BY <2>2 DEF Take, BornInv, TypeInv, TypeOK
    <2> QED BY <2>1, <2>2
  <1> QED BY <1>2, <1>3 DEF QueueRefs, BornInv

LEMMA QueuesKept ==
  ASSUME BornInv, UNCHANGED queue
  PROVE  QueueRefs
  BY DEF BornInv, QueueRefs

LEMMA WorkersKept ==
  ASSUME BornInv, UNCHANGED workerVars
  PROVE  WorkerRefs
  BY DEF BornInv, WorkerRefs, workerVars

LEMMA ActorsKept ==
  ASSUME BornInv, UNCHANGED <<pc, target, rows>>
  PROVE  ActorRefs
  BY DEF BornInv, ActorRefs

\* An actor that is done refers to nothing.
LEMMA EndStepRefs ==
  ASSUME TypeInv, BornInv, NEW a \in Actors, EndStep(a)
  PROVE  ActorRefs
  BY DEF TypeInv, TypeOK, BornInv, EndStep, ActorRefs

LEMMA BornActors ==
  ASSUME TypeInv, BornInv, NEW a \in Actors,
         \/ \E b \in BOOLEAN : TriggerRefused(a, b)
         \/ Resume(a) \/ Enqueue(a) \/ Reap(a)
  PROVE  SameBorn /\ ActorRefs /\ QueueRefs /\ WorkerRefs
  <1> USE DEF SameBorn
  <1>0. TypeOK /\ TargetsKnown
    BY DEF TypeInv
  <1>1. ASSUME NEW b \in BOOLEAN, TriggerRefused(a, b)
        PROVE  SameBorn /\ ActorRefs /\ QueueRefs /\ WorkerRefs
    BY <1>1, ReapBorn, EndStepRefs, QueuesKept, WorkersKept DEF TriggerRefused, Born
  <1>2. ASSUME NEW r \in Runs, ResumeBegin(a, r)
        PROVE  SameBorn /\ ActorRefs /\ QueueRefs /\ WorkerRefs
    <2>1. ActorRefs
      BY <1>0, <1>2 DEF ResumeBegin, ActorRefs, BornInv, Born, TypeOK, LiveRunsOf, LiveRuns
    <2> QED BY <1>2, <2>1, QueuesKept, WorkersKept DEF ResumeBegin, rowVars, Born
  <1>3. ASSUME NEW b \in BOOLEAN, ResumeRefused(a, b)
        PROVE  SameBorn /\ ActorRefs /\ QueueRefs /\ WorkerRefs
    BY <1>3, ReapBorn, EndStepRefs, QueuesKept, WorkersKept DEF ResumeRefused, Born
  <1>4. ASSUME NEW b \in BOOLEAN, ResumeCommits(a, b)
        PROVE  SameBorn /\ ActorRefs /\ QueueRefs /\ WorkerRefs
    <2>1. target[a] \in Runs /\ Born(target[a])
      BY <1>0, <1>4 DEF TargetsKnown, ResumeCommits, BornInv
    <2>2. /\ status' = [MarkAbandoned(Abandoned(rows[a], b)) EXCEPT ![target[a]] = "pending"]
          /\ pc' = [pc EXCEPT ![a] = "enqueueing"]
          /\ rows' = [rows EXCEPT ![a] = {}]
          /\ UNCHANGED <<target, queue, workerVars>>
      BY <1>4 DEF ResumeCommits
    <2>3. \A r \in Runs : status'[r] =
            IF r = target[a] THEN "pending" ELSE MarkAbandoned(Abandoned(rows[a], b))[r]
      BY <2>2 DEF MarkAbandoned
    <2>4. SameBorn
      BY <2>1, <2>3, ReapBorn DEF Born
    <2>5. ActorRefs
      BY <1>0, <2>1, <2>2 DEF ActorRefs, BornInv, TypeOK
    <2> QED BY <2>2, <2>4, <2>5, QueuesKept, WorkersKept
  <1>5. ASSUME NEW e \in EnqueueResults, EnqueueFirst(a, e)
        PROVE  SameBorn /\ ActorRefs /\ QueueRefs /\ WorkerRefs
    <2>1. target[a] \in Runs /\ Born(target[a]) /\ pc[a] = "enqueueing"
      BY <1>0, <1>5 DEF TargetsKnown, EnqueueFirst, BornInv
    <2>2. QueueRefs
      <3>1. FirstMode(target[a]) \in Modes
        BY DEF FirstMode
      <3> QED BY <1>5, <2>1, <3>1, PushRefs, QueuesKept DEF EnqueueFirst
    <2>3. ActorRefs
      <3>1. CASE EndStep(a)
        BY <3>1, EndStepRefs
      <3>2. CASE pc' = [pc EXCEPT ![a] = "failing"] /\ UNCHANGED <<target, rows>>
        BY <1>0, <2>1, <3>2 DEF ActorRefs, BornInv, TypeOK
      <3> QED BY <1>5, <3>1, <3>2 DEF EnqueueFirst
    <2> QED BY <1>5, <2>2, <2>3, WorkersKept DEF EnqueueFirst, rowVars, Born
  <1>6. ASSUME EnqueueFailed(a) PROVE SameBorn /\ ActorRefs /\ QueueRefs /\ WorkerRefs
    <2>1. target[a] \in Runs /\ Born(target[a])
      BY <1>0, <1>6 DEF TargetsKnown, EnqueueFailed, BornInv
    <2>2. SameBorn
      BY <1>0, <1>6, <2>1 DEF EnqueueFailed, Born, TypeOK
    <2> QED BY <1>6, <2>2, EndStepRefs, QueuesKept, WorkersKept DEF EnqueueFailed
  <1>7. ASSUME ReapBegin(a) PROVE SameBorn /\ ActorRefs /\ QueueRefs /\ WorkerRefs
    <2>1. ActorRefs
      BY <1>0, <1>7 DEF ReapBegin, ActorRefs, BornInv, Born, TypeOK, LiveRuns
    <2> QED BY <1>7, <2>1, QueuesKept, WorkersKept DEF ReapBegin, rowVars, Born
  <1>8. ASSUME ReapNothing(a) PROVE SameBorn /\ ActorRefs /\ QueueRefs /\ WorkerRefs
    BY <1>8, QueuesKept, WorkersKept, ActorsKept DEF ReapNothing, vars, rowVars, actorVars, Born
  <1>9. ASSUME NEW b \in BOOLEAN, ReapCommits(a, b)
        PROVE  SameBorn /\ ActorRefs /\ QueueRefs /\ WorkerRefs
    BY <1>9, ReapBorn, EndStepRefs, QueuesKept, WorkersKept DEF ReapCommits, Born
  <1> QED BY <1>1, <1>2, <1>3, <1>4, <1>5, <1>6, <1>7, <1>8, <1>9 DEF Resume, Enqueue, Reap

\* What a worker does of a job it has: it keeps the job or lays it down, and
\* only the end of a dispatch hands over.
WorkerMoved(w) ==
  /\ \A v \in Workers \ {w} : wpc'[v] = wpc[v] /\ job'[v] = job[v]
  /\ wpc'[w] = "idle" \/ job'[w] = job[w]
  /\ wpc'[w] = "handoff" => wpc[w] = "handoff"
  /\ again'[w] => again[w]

LEMMA WorkerMoves ==
  ASSUME TypeOK, NEW w \in Workers,
         SaveAnswer(w) \/ FinishJob(w) \/ JobRaises(w) \/ KillWorker(w), ~CloseDispatch(w)
  PROVE  wpc[w] # "idle" /\ WorkerMoved(w)
  <1>0. /\ wpc \in [Workers -> {"idle", "dispatch", "handoff", "finalize", "process"}]
        /\ job \in [Workers -> Jobs \cup {NoJob}] /\ again \in [Workers -> BOOLEAN]
    BY DEF TypeOK
  <1>1. ASSUME UNCHANGED workerVars PROVE WorkerMoved(w)
    BY <1>1 DEF WorkerMoved, workerVars
  <1>2. ASSUME FreeWorker(w) PROVE WorkerMoved(w)
    <2>1. /\ \A v \in Workers \ {w} : wpc'[v] = wpc[v] /\ job'[v] = job[v]
          /\ wpc'[w] = "idle"
      BY <1>0, <1>2 DEF FreeWorker
    <2>2. again'[w] = FALSE
      BY <1>0, <1>2 DEF FreeWorker
    <2> QED BY <2>1, <2>2 DEF WorkerMoved
  <1>3. ASSUME NEW at \in {"finalize", "process"}, wpc' = [wpc EXCEPT ![w] = at], job' = job,
               again' = again \/ again' = [again EXCEPT ![w] = FALSE]
        PROVE  WorkerMoved(w)
    <2>1. wpc'[w] = at /\ \A v \in Workers \ {w} : wpc'[v] = wpc[v]
      BY <1>0, <1>3
    <2>2. again'[w] => again[w]
      BY <1>0, <1>3, Zenon
    <2> QED BY <1>3, <2>1, <2>2 DEF WorkerMoved
  <1>4. ASSUME AfterFinalize(w) PROVE WorkerMoved(w)
    BY <1>2, <1>3, <1>4 DEF AfterFinalize
  <1>5. CASE SaveAnswer(w)
    BY <1>1, <1>5 DEF SaveAnswer
  <1>6. ASSUME NEW e \in EnqueueResults, Handoff(w, e)
        PROVE  wpc[w] # "idle" /\ WorkerMoved(w)
    BY <1>2, <1>3, <1>6 DEF Handoff
  <1>7. ASSUME NEW st \in Ended, Finalize(w, st) PROVE wpc[w] # "idle" /\ WorkerMoved(w)
    BY <1>3, <1>4, <1>7 DEF Finalize
  <1>8. ASSUME NEW d \in {"done", "error"}, Process(w, d)
        PROVE  wpc[w] # "idle" /\ WorkerMoved(w)
    BY <1>4, <1>8 DEF Process
  <1>9. CASE JobRaises(w)
    BY <1>2, <1>3, <1>9 DEF JobRaises
  <1>10. CASE KillWorker(w)
    BY <1>2, <1>10 DEF KillWorker
  <1> QED BY <1>5, <1>6, <1>7, <1>8, <1>9, <1>10 DEF FinishJob

LEMMA BornWorkers ==
  ASSUME TypeInv, BornInv, NEW w \in Workers,
         StartJob(w) \/ SaveAnswer(w) \/ FinishJob(w) \/ JobRaises(w)
  PROVE  SameBorn /\ ActorRefs /\ QueueRefs /\ WorkerRefs
  <1>0. TypeOK /\ JobsHeld
    BY DEF TypeInv
  <1>1. ActorRefs
    <2>1. UNCHANGED actorVars
      BY DEF StartJob, StartA, StartAUnconfigured, StartB, SkipJob, SaveAnswer, FinishJob,
             CloseDispatch, Handoff, Finalize, Process, JobRaises
    <2> QED BY <2>1, ActorsKept DEF actorVars
  <1>2. ASSUME NEW x \in QueueNames, CanTake(w, x), Take(x)
        PROVE  /\ QueueRefs /\ Born(Head(queue[x]).run)
               /\ Head(queue[x]) \in Jobs /\ Head(queue[x]).run \in Runs
    BY <1>2, TakeRefs DEF Jobs
  <1>3. ASSUME StartJob(w) PROVE SameBorn /\ QueueRefs /\ WorkerRefs
    <2>1. CASE StartA(w)
      BY <1>0, <1>2, <2>1 DEF StartA, SameBorn, WorkerRefs, BornInv, Born, TypeOK
    <2>2. CASE StartAUnconfigured(w)
      BY <1>0, <1>2, <2>2 DEF StartAUnconfigured, SameBorn, WorkerRefs, BornInv, Born, TypeOK
    <2>3. CASE StartB(w)
      BY <1>0, <1>2, <2>3 DEF StartB, SameBorn, WorkerRefs, BornInv, Born, TypeOK
    <2>4. ASSUME NEW q \in QueueNames, SkipJob(w, q) PROVE SameBorn /\ QueueRefs /\ WorkerRefs
      BY <1>2, <2>4, WorkersKept DEF SkipJob, rowVars, SameBorn, Born
    <2> QED BY <1>3, <2>1, <2>2, <2>3, <2>4 DEF StartJob
  <1>4. wpc[w] # "idle" => Born(job[w].run) /\ job[w].run \in Runs
    BY <1>0 DEF BornInv, JobsHeld, Jobs
  <1>5. ASSUME SaveAnswer(w) \/ FinishJob(w) \/ JobRaises(w) PROVE SameBorn
    <2>1. CASE UNCHANGED status
      BY <2>1 DEF SameBorn, Born
    <2>2. ASSUME NEW st \in Ended, Finalize(w, st) PROVE SameBorn
      BY <1>0, <1>4, <2>2 DEF Finalize, SameBorn, Born, TypeOK
    <2>3. CASE JobRaises(w)
      BY <1>0, <1>4, <2>3 DEF JobRaises, SameBorn, Born, TypeOK
    <2> QED BY <1>5, <2>1, <2>2, <2>3
            DEF SaveAnswer, FinishJob, CloseDispatch, Handoff, Process, rowVars
  <1>6. ASSUME SaveAnswer(w) \/ FinishJob(w) \/ JobRaises(w) PROVE WorkerRefs
    <2>1. /\ wpc[w] # "idle"
          /\ \A v \in Workers \ {w} : wpc'[v] = wpc[v] /\ job'[v] = job[v]
          /\ wpc'[w] = "idle" \/ job'[w] = job[w]
      <3>1. CASE CloseDispatch(w)
        BY <1>0, <3>1 DEF CloseDispatch, TypeOK
      <3>2. CASE ~CloseDispatch(w)
        BY <1>0, <1>6, <3>2, WorkerMoves DEF WorkerMoved
      <3> QED BY <3>1, <3>2
    <2> QED BY <1>4, <2>1 DEF WorkerRefs, BornInv
  <1>7. ASSUME SaveAnswer(w) \/ FinishJob(w) \/ JobRaises(w) PROVE QueueRefs
    <2>1. ASSUME NEW e \in EnqueueResults, Handoff(w, e) PROVE QueueRefs
      BY <1>4, <2>1, PushRefs, QueuesKept DEF Handoff
    <2>2. CASE UNCHANGED queue
      BY <2>2, QueuesKept
    <2> QED BY <1>7, <2>1, <2>2
            DEF SaveAnswer, FinishJob, CloseDispatch, Finalize, Process, JobRaises
  <1> QED BY <1>1, <1>3, <1>5, <1>6, <1>7

LEMMA BornEnvironment ==
  ASSUME TypeInv, BornInv, Crash \/ Time \/ UNCHANGED vars
  PROVE  SameBorn /\ ActorRefs /\ QueueRefs /\ WorkerRefs
  <1>0. TypeOK
    BY DEF TypeInv
  <1>1. UNCHANGED <<status, queue>>
    BY DEF Crash, KillWorker, KillActor, Time, HeartbeatLapses, GraceEnds, TtlPasses, vars,
           rowVars
  <1>2. SameBorn /\ QueueRefs
    BY <1>1, QueuesKept DEF SameBorn, Born
  <1>3. ASSUME NEW a \in Actors, KillActor(a) PROVE ActorRefs /\ WorkerRefs
    BY <1>3, EndStepRefs, WorkersKept DEF KillActor
  <1>4. ASSUME NEW w \in Workers, KillWorker(w) PROVE ActorRefs /\ WorkerRefs
    <2>1. ActorRefs
      BY <1>4, ActorsKept DEF KillWorker, actorVars
    <2>2. WorkerRefs
      BY <1>0, <1>4 DEF KillWorker, FreeWorker, WorkerRefs, BornInv, TypeOK
    <2> QED BY <2>1, <2>2
  <1>5. CASE Time \/ UNCHANGED vars
    <2>1. UNCHANGED <<actorVars, workerVars>>
      BY <1>5 DEF Time, HeartbeatLapses, GraceEnds, TtlPasses, vars
    <2>2. UNCHANGED <<pc, target, rows>>
      BY <2>1 DEF actorVars
    <2>3. ActorRefs
      BY <2>2, ActorsKept
    <2>4. WorkerRefs
      BY <2>1, WorkersKept
    <2> QED BY <1>2, <2>3, <2>4
  <1> QED BY <1>2, <1>3, <1>4, <1>5 DEF Crash

\* A trigger begins on a run that was not born.
LEMMA BornTriggerBegin ==
  ASSUME TypeInv, BornInv, NEW a \in Actors, NEW r \in Runs, TriggerBegin(a, r)
  PROVE  BornInv'
  <1>1. /\ UNCHANGED <<status, queue, wpc, job>> /\ ~Born(r)
        /\ pc' = [pc EXCEPT ![a] = "triggering"]
        /\ target' = [target EXCEPT ![a] = r]
        /\ rows' = [rows EXCEPT ![a] = LiveRunsOf(Owner[r])]
    BY DEF TriggerBegin, rowVars, workerVars, Born
  <1>2. \A x \in LiveRunsOf(Owner[r]) : Born(x)
    BY DEF LiveRunsOf, LiveRuns, Born
  <1>3. /\ \A b \in Actors : pc'[b] = "triggering" => ~Born(target'[b])
        /\ \A b \in Actors : pc'[b] \in {"resuming", "enqueueing", "failing"} => Born(target'[b])
        /\ \A b \in Actors : \A x \in rows'[b] : Born(x)
    BY <1>1, <1>2 DEF BornInv, TypeInv, TypeOK
  <1> QED BY <1>1, <1>3 DEF BornInv, Born

\* The commit of a trigger gives birth to its target only, and no other
\* trigger works on that run: it would hold the same lock.
LEMMA BornTriggerCreates ==
  ASSUME TypeInv, TypeInv', SafeInv, BornInv, NEW a \in Actors, NEW b \in BOOLEAN,
         NEW st \in {"pending", "gated", "failed"}, NEW ms, TriggerCreates(a, b, st, ms)
  PROVE  BornInv'
  <1> DEFINE r0 == target[a]
  <1>1. /\ TypeOK /\ TargetsKnown /\ TypeOK' /\ TargetsKnown' /\ SnapshotHolds
        /\ pc[a] = "triggering" /\ r0 \in Runs /\ ~Born(r0)
        /\ status' = [MarkAbandoned(Abandoned(rows[a], b)) EXCEPT ![r0] = st]
        /\ UNCHANGED <<queue, wpc, job>>
    BY DEF TypeInv, SafeInv, TriggerCreates, TargetsKnown, BornInv, workerVars
  <1>2. \A r \in Runs : status'[r] # "none" <=> Born(r) \/ r = r0
    <2>1. \A r \in Runs : status'[r] =
            IF r = r0 THEN st ELSE MarkAbandoned(Abandoned(rows[a], b))[r]
      BY <1>1 DEF MarkAbandoned
    <2> QED BY <2>1, ReapBorn
  <1>3. \/ /\ pc' = [pc EXCEPT ![a] = "enqueueing"]
           /\ rows' = [rows EXCEPT ![a] = {}] /\ UNCHANGED target
        \/ EndStep(a)
    BY DEF TriggerCreates
  <1>4. ASSUME NEW c \in Actors, pc'[c] = "triggering" PROVE ~Born(target[c])'
    <2>1. c # a /\ pc[c] = "triggering" /\ target'[c] = target[c] /\ target[c] \in Runs
      BY <1>1, <1>3, <1>4 DEF TypeOK, TargetsKnown, EndStep
    <2>2. target[c] # r0
      BY <1>1, <2>1 DEF SnapshotHolds
    <2> QED BY <1>2, <2>1, <2>2 DEF BornInv, Born
  <1>5. ASSUME NEW c \in Actors, pc'[c] \in {"resuming", "enqueueing", "failing"}
        PROVE  Born(target[c])'
    <2>1. target'[c] \in Runs
      BY <1>1, <1>5 DEF TargetsKnown
    <2>2. c = a => target'[c] = r0
      BY <1>1, <1>3, <1>5 DEF TypeOK, EndStep
    <2>3. c # a => target'[c] = target[c] /\ Born(target[c])
      BY <1>1, <1>3, <1>5 DEF TypeOK, EndStep, BornInv
    <2> QED BY <1>2, <2>1, <2>2, <2>3 DEF Born
  <1>6. ASSUME NEW c \in Actors, NEW x \in rows'[c] PROVE Born(x)'
    <2>0. rows' = [rows EXCEPT ![a] = {}]
      BY <1>3 DEF EndStep
    <2>1. x \in Runs /\ x \in rows[c]
      BY <1>1, <1>6, <2>0 DEF TypeOK
    <2>2. Born(x)
      BY <2>1 DEF BornInv
    <2> QED BY <1>2, <2>1, <2>2 DEF Born
  <1>7. ASSUME NEW q \in QueueNames, NEW i \in 1..Len(queue'[q]) PROVE Born(queue[q][i].run)'
    <2>1. queue[q] \in Seq(Jobs) /\ queue'[q] = queue[q]
      BY <1>1 DEF TypeOK
    <2>5. queue[q][i] \in Jobs
      BY <1>7, <2>1
    <2>2. queue[q][i].run \in Runs
      BY <2>5 DEF Jobs
    <2>3. Born(queue[q][i].run)
      BY <1>7, <2>1 DEF BornInv
    <2>4. status'[queue'[q][i].run] # "none"
      BY <1>2, <2>1, <2>2, <2>3
    <2> QED BY <2>4 DEF Born
  <1>8. ASSUME NEW w \in Workers, wpc'[w] # "idle" PROVE Born(job[w].run)'
    <2>1. wpc[w] # "idle" /\ job'[w] = job[w]
      BY <1>1, <1>8
    <2>2. job[w].run \in Runs
      BY <2>1 DEF TypeInv, JobsHeld, Jobs
    <2> QED BY <1>2, <2>1, <2>2 DEF BornInv, Born
  <1> QED BY <1>4, <1>5, <1>6, <1>7, <1>8 DEF BornInv, Born

LEMMA BornInit == Init => BornInv
  BY DEF Init, BornInv

LEMMA BornStep ==
  ASSUME TypeInv, TypeInv', SafeInv, BornInv, [Next]_vars
  PROVE  BornInv'
  <1>1. CASE \E a \in Actors, r \in Runs : TriggerBegin(a, r)
    BY <1>1, BornTriggerBegin
  <1>2. CASE \E a \in Actors, b \in BOOLEAN :
               \E st \in {"pending", "gated", "failed"} : \E ms : TriggerCreates(a, b, st, ms)
    BY <1>2, BornTriggerCreates
  <1>3. CASE \E a \in Actors : \/ \E b \in BOOLEAN : TriggerRefused(a, b)
                               \/ Resume(a) \/ Enqueue(a) \/ Reap(a)
    BY <1>3, BornActors, BornKept
  <1>4. CASE \E w \in Workers : StartJob(w) \/ SaveAnswer(w) \/ FinishJob(w) \/ JobRaises(w)
    BY <1>4, BornWorkers, BornKept
  <1>5. CASE Crash \/ Time \/ UNCHANGED vars
    BY <1>5, BornEnvironment, BornKept
  <1> QED BY <1>1, <1>2, <1>3, <1>4, <1>5 DEF Next, Trigger

\* One step: what makes an ended run live counted a resume.
LEMMA RevivalStep ==
  ASSUME TypeInv, BornInv, [Next]_vars,
         NEW r \in Runs, status[r] \in Ended, status'[r] \in Live
  PROVE  resumes'[r] = resumes[r] + 1
  <1>0. TypeOK /\ TargetsKnown
    BY DEF TypeInv
  <1>1. ASSUME NEW a \in Actors, NEW b \in BOOLEAN, ResumeCommits(a, b)
        PROVE  resumes'[r] = resumes[r] + 1
    <2>1. /\ status' = [MarkAbandoned(Abandoned(rows[a], b)) EXCEPT ![target[a]] = "pending"]
          /\ resumes' = [resumes EXCEPT ![target[a]] = @ + 1]
      BY <1>1 DEF ResumeCommits
    <2>2. r = target[a]
      <3>1. r # target[a] => status'[r] = MarkAbandoned(Abandoned(rows[a], b))[r]
        BY <2>1 DEF MarkAbandoned
      <3> QED BY <1>0, <3>1, ReapEnds
    <2> QED BY <1>0, <2>1, <2>2 DEF TypeOK
  <1>2. ASSUME NEW a \in Actors, NEW b \in BOOLEAN, NEW st, NEW ms,
               TriggerCreates(a, b, st, ms)
        PROVE  FALSE
    <2>1. /\ status' = [MarkAbandoned(Abandoned(rows[a], b)) EXCEPT ![target[a]] = st]
          /\ status[target[a]] = "none"
      BY <1>2 DEF TriggerCreates, BornInv, Born
    <2>2. status'[r] = MarkAbandoned(Abandoned(rows[a], b))[r]
      BY <2>1 DEF MarkAbandoned
    <2> QED BY <1>0, <2>2, ReapEnds
  <1>3. ASSUME NEW a \in Actors,
               \/ \E x \in Runs : TriggerBegin(a, x) \/ ResumeBegin(a, x)
               \/ EnqueueFailed(a) \/ (\E e \in EnqueueResults : EnqueueFirst(a, e))
               \/ ReapBegin(a) \/ ReapNothing(a)
        PROVE  FALSE
    <2>1. UNCHANGED status \/ EnqueueFailed(a)
      BY <1>3 DEF TriggerBegin, ResumeBegin, EnqueueFirst, ReapBegin, ReapNothing,
         rowVars, vars
    <2>2. CASE EnqueueFailed(a)
      BY <1>0, <2>2 DEF EnqueueFailed, TypeOK
    <2> QED BY <2>1, <2>2
  <1>4. ASSUME NEW a \in Actors, NEW b \in BOOLEAN,
               TriggerRefused(a, b) \/ ResumeRefused(a, b) \/ ReapCommits(a, b)
        PROVE  FALSE
    <2>1. status' = MarkAbandoned(Abandoned(rows[a], b))
      BY <1>4 DEF TriggerRefused, ResumeRefused, ReapCommits
    <2> QED BY <1>0, <2>1, ReapEnds
  <1>5. ASSUME NEW w \in Workers, StartJob(w) PROVE FALSE
    <2>1. ASSUME NEW x \in QueueNames, CanTake(w, x), Take(x)
          PROVE  Head(queue[x]).run \in Runs
      BY <2>1, TakeRefs DEF Jobs
    <2>2. CASE StartA(w)
      BY <1>0, <2>1, <2>2 DEF StartA, Startable, TypeOK
    <2>3. CASE StartAUnconfigured(w)
      BY <1>0, <2>1, <2>3 DEF StartAUnconfigured, Startable, TypeOK
    <2>4. CASE StartB(w)
      BY <1>0, <2>1, <2>4 DEF StartB, Startable, TypeOK
    <2>5. CASE \E q \in QueueNames : SkipJob(w, q)
      BY <2>5 DEF SkipJob, rowVars
    <2> QED BY <1>5, <2>2, <2>3, <2>4, <2>5 DEF StartJob
  <1>6. ASSUME NEW w \in Workers, SaveAnswer(w) \/ FinishJob(w) \/ JobRaises(w) PROVE FALSE
    <2>1. CASE UNCHANGED status
      BY <2>1
    <2>2. ASSUME NEW st \in Ended, Finalize(w, st) PROVE FALSE
      BY <1>0, <2>2 DEF Finalize, TypeOK
    <2>3. CASE JobRaises(w)
      <3>1. status' = status \/ status' = [status EXCEPT ![job[w].run] = "failed"]
        BY <2>3 DEF JobRaises
      <3>2. status \in [Runs -> {"none"} \cup Live \cup Ended]
        BY <1>0 DEF TypeOK
      <3>3. status'[r] \in {status[r], "failed"}
        BY <3>1, <3>2
      <3> QED BY <3>3
    <2> QED BY <1>6, <2>1, <2>2, <2>3
            DEF SaveAnswer, FinishJob, CloseDispatch, Handoff, Process, rowVars
  <1>7. CASE Crash \/ Time \/ UNCHANGED vars
    BY <1>7 DEF Crash, KillWorker, KillActor, Time, HeartbeatLapses, GraceEnds, TtlPasses,
       vars, rowVars
  <1> QED BY <1>1, <1>2, <1>3, <1>4, <1>5, <1>6, <1>7
          DEF Next, Trigger, Resume, Enqueue, Reap

\* For any number of runs and processes, and whatever jobs were left in the
\* queues, killed, lost or run twice, a run that ended is made live again by a
\* resume and by nothing else.
THEOREM RevivalNeedsResume == Spec => OnlyResumeRevives
  <1>1. TypeInv /\ SafeInv /\ BornInv /\ [Next]_vars => (TypeInv /\ SafeInv /\ BornInv)'
    BY TypeStep, SafeStep, BornStep
  <1>2. TypeInv /\ BornInv /\ [Next]_vars =>
          [\A r \in Runs : status[r] \in Ended /\ status'[r] \in Live
             => resumes'[r] = resumes[r] + 1]_vars
    BY RevivalStep
  <1> QED BY TypeInit, SafeInit, BornInit, <1>1, <1>2, PTL DEF Spec, OnlyResumeRevives

-----------------------------------------------------------------------------
(* RunLifecycle implements RunLife: a commit of a trigger begins a run, a    *)
(* commit of a resume revives one, and every other step ends runs or changes *)
(* nothing a caller of the service sees.                                     *)

\* The abstract life of the runs, before and after a step.
SeenLife == [r \in Runs |-> Life(r)]

\* Steps that neither create a run nor resume one can only end runs.
OnlyEnds ==
  /\ UNCHANGED resumes
  /\ \A r \in Runs : Life(r)' = Life(r) \/ (Life(r) = "live" /\ Life(r)' = "over")

\* What a status says, in terms of Life.
LEMMA LifeCases ==
  ASSUME TypeOK, NEW r \in Runs
  PROVE  /\ Life(r) = "absent" <=> ~Born(r)
         /\ Life(r) = "live" <=> status[r] \in Live
         /\ Life(r) = "over" <=> status[r] \in Ended
  BY DEF TypeOK, Life, Born

LEMMA LifeCasesPrime ==
  ASSUME TypeOK', NEW r \in Runs
  PROVE  /\ Life(r)' = "absent" <=> ~Born(r)'
         /\ Life(r)' = "live" <=> status'[r] \in Live
         /\ Life(r)' = "over" <=> status'[r] \in Ended
  BY DEF TypeOK, Life, Born

\* The abstract service's view of a set of ended runs.
LEMMA SeenIs ==
  /\ Seen!LiveOnes = {r \in Runs : Life(r) = "live"}
  /\ \A S : Seen!Over(S) = [r \in Runs |-> IF r \in S THEN "over" ELSE Life(r)]
  BY DEF Seen!LiveOnes, Seen!Over

LEMMA EndsMap ==
  ASSUME OnlyEnds
  PROVE  Seen!LifeNext
  <1> DEFINE S == {r \in Runs : Life(r) = "live" /\ Life(r)' = "over"}
  <1>1. S \subseteq Seen!LiveOnes /\ S \in SUBSET Runs
    BY SeenIs
  <1>2. SeenLife' = Seen!Over(S)
    BY SeenIs DEF OnlyEnds, SeenLife
  <1>3. Seen!End(S)
    BY <1>1, <1>2 DEF Seen!End, SeenLife, OnlyEnds
  <1> QED BY <1>1, <1>3 DEF Seen!LifeNext

\* A step that changes nobody's birth and resumes nothing only ends runs.
LEMMA QuietEnds ==
  ASSUME TypeInv, TypeInv', BornInv, [Next]_vars, SameBorn, UNCHANGED resumes
  PROVE  OnlyEnds
  <1> SUFFICES ASSUME NEW r \in Runs
               PROVE  Life(r)' = Life(r) \/ (Life(r) = "live" /\ Life(r)' = "over")
    BY DEF OnlyEnds
  <1>1. TypeOK /\ TypeOK'
    BY DEF TypeInv
  <1>2. ~(status[r] \in Ended /\ status'[r] \in Live)
    BY <1>1, RevivalStep DEF TypeOK
  <1> QED BY <1>1, <1>2, LifeCases, LifeCasesPrime DEF TypeOK, Born, SameBorn

\* The commit of a trigger begins its run: whatever else is live for the
\* tenant was resumed once, since the trigger saw every other live run and
\* found it abandoned.
LEMMA TriggerMaps ==
  ASSUME TypeInv, TypeInv', SafeInv, BornInv, NEW a \in Actors, NEW b \in BOOLEAN,
         NEW st \in {"pending", "gated", "failed"}, NEW ms, TriggerCreates(a, b, st, ms)
  PROVE  Seen!LifeNext
  <1> DEFINE dead == Abandoned(rows[a], b)
             S == {r \in dead : Life(r) = "live"}
             as == IF st = "pending" THEN "live" ELSE "over"
  <1>1. /\ TypeOK /\ TypeOK' /\ pc[a] = "triggering" /\ rows[a] = dead
        /\ target[a] \in Runs /\ ~Born(target[a])
        /\ status' = [MarkAbandoned(dead) EXCEPT ![target[a]] = st]
        /\ UNCHANGED resumes
    BY DEF TypeInv, TriggerCreates, TargetsKnown, BornInv
  <1>2. dead \subseteq Runs /\ \A r \in dead : Born(r)
    BY <1>1 DEF TypeOK, BornInv
  <1> HIDE DEF dead
  <1>3. S \subseteq Seen!LiveOnes /\ S \in SUBSET Runs
    BY <1>2, SeenIs
  <1>4. Life(target[a]) = "absent"
    BY <1>1, LifeCases
  <1>5. ASSUME NEW q \in Seen!LiveOnes \ S, Owner[q] = Owner[target[a]]
        PROVE  resumes[q] > 0
    <2>1. q \in Runs /\ Life(q) = "live" /\ q \notin dead
      BY <1>5, SeenIs
    <2>2. q \in LiveRunsOf(Owner[target[a]])
      BY <1>1, <1>5, <2>1, LifeCases DEF LiveRunsOf, LiveRuns
    <2>3. resumes[q] # 0
      BY <1>1, <2>1, <2>2 DEF SafeInv, SnapshotHolds
    <2> QED BY <1>1, <2>1, <2>3 DEF TypeOK
  <1>6. ASSUME NEW r \in Runs
        PROVE  Life(r)' = IF r = target[a] THEN as ELSE IF r \in S THEN "over" ELSE Life(r)
    <2>1. status'[r] = IF r = target[a] THEN st ELSE IF r \in dead THEN "failed" ELSE status[r]
      BY <1>1 DEF MarkAbandoned
    <2>2. r \in dead => Life(r) \in {"live", "over"}
      BY <1>1, <1>2, LifeCases DEF Life
    <2> QED BY <2>1, <2>2 DEF Life
  <1>7. SeenLife' = [Seen!Over(S) EXCEPT ![target[a]] = as]
    BY <1>1, <1>6, SeenIs DEF SeenLife
  <1>8. Seen!Begin(target[a], S, as)
    BY <1>1, <1>3, <1>4, <1>5, <1>7 DEF Seen!Begin, SeenLife
  <1> QED BY <1>1, <1>3, <1>8 DEF Seen!LifeNext

\* The commit of a resume revives its run and ends what it found abandoned.
LEMMA ResumeMaps ==
  ASSUME TypeInv, TypeInv', BornInv, NEW a \in Actors, NEW b \in BOOLEAN, ResumeCommits(a, b)
  PROVE  Seen!LifeNext
  <1> DEFINE dead == Abandoned(rows[a], b)
             S == {r \in dead : Life(r) = "live"}
  <1>1. /\ TypeOK /\ TypeOK' /\ pc[a] = "resuming" /\ rows[a] = dead
        /\ target[a] \in Runs /\ Born(target[a])
        /\ status' = [MarkAbandoned(dead) EXCEPT ![target[a]] = "pending"]
        /\ resumes' = [resumes EXCEPT ![target[a]] = @ + 1]
    BY DEF TypeInv, ResumeCommits, TargetsKnown, BornInv
  <1>2. dead \subseteq Runs /\ \A r \in dead : Born(r)
    BY <1>1 DEF TypeOK, BornInv
  <1> HIDE DEF dead
  <1>3. S \subseteq Seen!LiveOnes /\ S \in SUBSET Runs
    BY <1>2, SeenIs
  <1>4. Life(target[a]) # "absent"
    BY <1>1, LifeCases
  <1>5. ASSUME NEW r \in Runs
        PROVE  Life(r)' = IF r = target[a] THEN "live" ELSE IF r \in S THEN "over" ELSE Life(r)
    <2>1. status'[r] = IF r = target[a] THEN "pending"
                       ELSE IF r \in dead THEN "failed" ELSE status[r]
      BY <1>1 DEF MarkAbandoned
    <2>2. r \in dead => Life(r) \in {"live", "over"}
      BY <1>1, <1>2, LifeCases DEF Life
    <2> QED BY <2>1, <2>2 DEF Life
  <1>6. SeenLife' = [Seen!Over(S) EXCEPT ![target[a]] = "live"]
    BY <1>1, <1>5, SeenIs DEF SeenLife
  <1>7. Seen!Revive(target[a], S)
    BY <1>1, <1>3, <1>4, <1>6 DEF Seen!Revive, SeenLife
  <1> QED BY <1>1, <1>3, <1>7 DEF Seen!LifeNext

\* Every step maps to a step of RunLife.
LEMMA StepMaps ==
  ASSUME TypeInv, TypeInv', SafeInv, BornInv, [Next]_vars
  PROVE  [Seen!LifeNext]_(Seen!lifeVars)
  <1>1. ASSUME NEW a \in Actors, NEW r \in Runs, TriggerBegin(a, r) PROVE Seen!LifeNext
    <2>1. UNCHANGED <<status, resumes>>
      BY <1>1 DEF TriggerBegin, rowVars
    <2> QED BY <2>1, QuietEnds, EndsMap DEF SameBorn, Born
  <1>2. CASE \E a \in Actors, b \in BOOLEAN :
               \E st \in {"pending", "gated", "failed"} : \E ms : TriggerCreates(a, b, st, ms)
    BY <1>2, TriggerMaps
  <1>3. CASE \E a \in Actors, b \in BOOLEAN : ResumeCommits(a, b)
    BY <1>3, ResumeMaps
  <1>4. ASSUME NEW a \in Actors,
               \/ \E b \in BOOLEAN : TriggerRefused(a, b) \/ ResumeRefused(a, b)
               \/ (\E r \in Runs : ResumeBegin(a, r)) \/ Enqueue(a) \/ Reap(a)
        PROVE  Seen!LifeNext
    <2>1. UNCHANGED resumes
      BY <1>4 DEF TriggerRefused, ResumeRefused, ResumeBegin, Enqueue, EnqueueFirst,
         EnqueueFailed, Reap, ReapBegin, ReapNothing, ReapCommits, rowVars, vars
    <2>2. SameBorn
      BY <1>4, BornActors DEF Resume
    <2> QED BY <2>1, <2>2, QuietEnds, EndsMap
  <1>5. ASSUME NEW w \in Workers, StartJob(w) \/ SaveAnswer(w) \/ FinishJob(w) \/ JobRaises(w)
        PROVE  Seen!LifeNext
    <2>1. UNCHANGED resumes
      BY <1>5 DEF StartJob, StartA, StartAUnconfigured, StartB, SkipJob, SaveAnswer,
         FinishJob, CloseDispatch, Handoff, Finalize, Process, JobRaises, rowVars
    <2>2. SameBorn
      BY <1>5, BornWorkers
    <2> QED BY <2>1, <2>2, QuietEnds, EndsMap
  <1>6. CASE Crash \/ Time \/ UNCHANGED vars
    <2>1. UNCHANGED resumes
      BY <1>6 DEF Crash, KillWorker, KillActor, Time, HeartbeatLapses, GraceEnds, TtlPasses,
         rowVars, vars
    <2>2. SameBorn
      BY <1>6, BornEnvironment
    <2> QED BY <2>1, <2>2, QuietEnds, EndsMap
  <1> QED BY <1>1, <1>2, <1>3, <1>4, <1>5, <1>6 DEF Next, Trigger, Resume

LEMMA InitMaps == Init => Seen!LifeInit
  BY DEF Init, Seen!LifeInit, Life

\* The run service keeps RunLife's promise for any number of runs, tenants,
\* processes and workers, whatever is killed, lost or left over.
THEOREM Refines == Spec => ImplementsRunLife
  <1>1. TypeInv /\ SafeInv /\ BornInv /\ [Next]_vars => (TypeInv /\ SafeInv /\ BornInv)'
    BY TypeStep, SafeStep, BornStep
  <1>2. /\ TypeInv /\ TypeInv' /\ SafeInv /\ BornInv /\ [Next]_vars
        => [Seen!LifeNext]_(Seen!lifeVars)
    BY StepMaps
  <1> QED BY TypeInit, SafeInit, BornInit, InitMaps, <1>1, <1>2, PTL
          DEF Spec, ImplementsRunLife, Seen!LifeSpec

-----------------------------------------------------------------------------
(* One owner. A run that nobody resumed has one token: the actor about to     *)
(* enqueue its first job, the job in a queue, or the worker that took it and  *)
(* may still dispatch or hand over. Every step passes the token on or drops   *)
(* it, and only the trigger that creates the run makes one. Where an enqueue  *)
(* cannot be accepted and yet raise, the hand-over leaves either the worker   *)
(* or the queue with the run, and the worker that finalizes holds it too.     *)

Busy ==
  IF "unacked" \in EnqueueResults
    THEN {"dispatch", "handoff"} ELSE {"dispatch", "handoff", "finalize", "process"}

Pushes(a, r) == pc[a] = "enqueueing" /\ target[a] = r

Holds(w, r) == wpc[w] \in Busy /\ job[w].run = r

Queued(r) == \E q \in QueueNames : \E i \in 1..Len(queue[q]) : queue[q][i].run = r

\* At most one queue position holds a job of the run.
QueuedOnce(r) ==
  \A q, x \in QueueNames : \A i \in 1..Len(queue[q]), j \in 1..Len(queue[x]) :
    queue[q][i].run = r /\ queue[x][j].run = r => q = x /\ i = j

OneToken(r) ==
  /\ QueuedOnce(r)
  /\ \A a, b \in Actors : Pushes(a, r) /\ Pushes(b, r) => a = b
  /\ \A v, w \in Workers : Holds(v, r) /\ Holds(w, r) => v = w
  /\ \A a \in Actors, w \in Workers : ~(Pushes(a, r) /\ Holds(w, r))
  /\ \A a \in Actors : Pushes(a, r) => ~Queued(r)
  /\ \A w \in Workers : Holds(w, r) => ~Queued(r)

TokenInv == \A r \in Runs : resumes[r] = 0 => OneToken(r)

\* A run never resumed is dispatched by one worker at a time: its cells are
\* paid for once (OneDispatcher for every number of processes and every
\* queue layout, where no resume can have left a second job).
DispatchedAlone ==
  \A v, w \in Workers :
    v # w /\ wpc[v] = "dispatch" /\ wpc[w] = "dispatch" /\ job[v].run = job[w].run
      => resumes[job[w].run] > 0

\* Two workers never execute jobs of a run nobody resumed at the same time,
\* in whatever phase they are: Mode A is done when Mode B begins.
ExecutedAlone ==
  \A v, w \in Workers :
    v # w /\ wpc[v] # "idle" /\ wpc[w] # "idle" /\ job[v].run = job[w].run
      => resumes[job[w].run] > 0

\* Before the finalization: the run is not yet shown as finished.
Unfinished(r) == status[r] \notin {"complete", "capped"}

Working(r) ==
  \/ \E a \in Actors : Pushes(a, r)
  \/ Queued(r)
  \/ \E w \in Workers : wpc[w] \in {"dispatch", "handoff"} /\ job[w].run = r

Closing(r) == \E w \in Workers : wpc[w] \in {"finalize", "process"} /\ job[w].run = r

\* Nobody works towards answers of a finished run any more, and its answers
\* were processed or are about to be.
Outcome(r) ==
  /\ Working(r) => Unfinished(r)
  /\ kills = 0 /\ ~Unfinished(r) /\ completed[r] => Closing(r) \/ derived[r] # "none"

OutcomeInv == \A r \in Runs : resumes[r] = 0 => Outcome(r)

\* A run never resumed and never killed that is shown as finished with
\* answers that count went through the processing pass, or carries its error,
\* once no worker is at it (FinishedIsProcessed for a run's first life).
FirstLifeProcessed ==
  \A r \in Runs :
    kills = 0 /\ resumes[r] = 0 /\ status[r] \in {"complete", "capped"} /\ completed[r]
      => r \in RunsWithLiveJobs \/ derived[r] # "none"

\* An enqueue adds one position, a dequeue takes the first one away.
LEMMA PushOnce ==
  ASSUME TypeOK, NEW m \in Modes, NEW r0 \in Runs, queue' = Push(m, r0),
         NEW r \in Runs, QueuedOnce(r), r = r0 => ~Queued(r)
  PROVE  QueuedOnce(r)' /\ (Queued(r)' => Queued(r) \/ r = r0)
  <1> DEFINE n == Len(queue[QueueOf(m)]) + 1
  <1>1. QueueOf(m) \in QueueNames /\ Job(m, r0) \in Jobs /\ Job(m, r0).run = r0
    BY DEF QueueOf, Job, Jobs
  <1>2. ASSUME NEW q \in QueueNames, NEW i \in 1..Len(queue'[q]), queue'[q][i].run = r
        PROVE  \/ i \in 1..Len(queue[q]) /\ queue[q][i].run = r
               \/ r = r0 /\ q = QueueOf(m) /\ i = n
    <2>1. queue[q] \in Seq(Jobs)
      BY DEF TypeOK
    <2>2. CASE q = QueueOf(m)
      <3>1. queue'[q] = Append(queue[q], Job(m, r0))
        BY <1>1, <2>2 DEF Push, TypeOK
      <3>2. \/ i \in 1..Len(queue[q]) /\ queue'[q][i] = queue[q][i]
            \/ i = Len(queue[q]) + 1 /\ queue'[q][i] = Job(m, r0)
        BY <1>1, <2>1, <3>1
      <3> QED BY <1>1, <1>2, <2>2, <3>2
    <2>3. CASE q # QueueOf(m)
      <3>1. queue'[q] = queue[q]
        BY <1>1, <2>3 DEF Push, TypeOK
      <3> QED BY <1>2, <3>1
    <2> QED BY <2>2, <2>3
  <1>3. Queued(r)' => Queued(r) \/ r = r0
    BY <1>2 DEF Queued
  <1>4. QueuedOnce(r)'
    <2> SUFFICES ASSUME NEW q \in QueueNames, NEW x \in QueueNames,
                        NEW i \in 1..Len(queue'[q]), NEW j \in 1..Len(queue'[x]),
                        queue'[q][i].run = r, queue'[x][j].run = r
                 PROVE  q = x /\ i = j
      BY DEF QueuedOnce
    <2>1. CASE r = r0
      <3>1. /\ ~(i \in 1..Len(queue[q]) /\ queue[q][i].run = r)
            /\ ~(j \in 1..Len(queue[x]) /\ queue[x][j].run = r)
        BY <2>1 DEF Queued
      <3> QED BY <1>2, <3>1, SMTT(20)
    <2>2. CASE r # r0
      BY <1>2, <2>2 DEF QueuedOnce
    <2> QED BY <2>1, <2>2
  <1> QED BY <1>3, <1>4

LEMMA TakeOnce ==
  ASSUME TypeOK, NEW w \in Workers, NEW x \in QueueNames, CanTake(w, x), Take(x),
         NEW r \in Runs, QueuedOnce(r)
  PROVE  /\ QueuedOnce(r)' /\ (Queued(r)' => Queued(r))
         /\ Head(queue[x]).run = r => Queued(r) /\ ~Queued(r)'
  <1> DEFINE At(q, i) == IF q = x THEN i + 1 ELSE i
  <1>1. queue[x] \in Seq(Jobs) /\ queue[x] # <<>>
    BY DEF TypeOK, CanTake
  <1>2. Head(queue[x]) = queue[x][1] /\ 1 \in 1..Len(queue[x])
    BY <1>1
  <1>3. ASSUME NEW q \in QueueNames, NEW i \in 1..Len(queue'[q]), queue'[q][i].run = r
        PROVE  /\ At(q, i) \in 1..Len(queue[q]) /\ queue[q][At(q, i)].run = r
               /\ i \in Nat /\ (q = x => At(q, i) # 1)
    <2>1. CASE q = x
      <3>1. queue'[q] = Tail(queue[x])
        BY <2>1 DEF Take, TypeOK
      <3>2. i + 1 \in 1..Len(queue[x]) /\ queue'[q][i] = queue[x][i + 1] /\ i \in Nat /\ i + 1 # 1
        BY <1>1, <3>1
      <3> QED BY <1>3, <2>1, <3>2
    <2>2. CASE q # x
      <3>1. queue'[q] = queue[q] /\ queue[q] \in Seq(Jobs)
        BY <2>2 DEF Take, TypeOK
      <3> QED BY <1>3, <2>2, <3>1
    <2> QED BY <2>1, <2>2
  <1>4. \A q, y \in QueueNames : \A i, j \in Nat : q = y /\ At(q, i) = At(y, j) => i = j
    OBVIOUS
  <1>5. ASSUME NEW q \in QueueNames, NEW i \in 1..Len(queue'[q]), queue'[q][i].run = r
        PROVE  Queued(r) /\ Head(queue[x]).run # r
    <2>1. At(q, i) \in 1..Len(queue[q]) /\ queue[q][At(q, i)].run = r /\ (q = x => At(q, i) # 1)
      BY <1>3, <1>5
    <2> HIDE DEF At
    <2>2. queue[x][1].run # r
      BY <1>2, <2>1 DEF QueuedOnce
    <2> QED BY <1>2, <2>1, <2>2 DEF Queued
  <1>6. QueuedOnce(r)'
    <2> SUFFICES ASSUME NEW q \in QueueNames, NEW y \in QueueNames,
                        NEW i \in 1..Len(queue'[q]), NEW j \in 1..Len(queue'[y]),
                        queue'[q][i].run = r, queue'[y][j].run = r
                 PROVE  q = y /\ i = j
      BY DEF QueuedOnce
    <2>1. /\ At(q, i) \in 1..Len(queue[q]) /\ queue[q][At(q, i)].run = r /\ i \in Nat
          /\ At(y, j) \in 1..Len(queue[y]) /\ queue[y][At(y, j)].run = r /\ j \in Nat
      BY <1>3
    <2> HIDE DEF At
    <2>2. q = y /\ At(q, i) = At(y, j)
      BY <2>1 DEF QueuedOnce
    <2> QED BY <1>4, <2>1, <2>2
  <1>7. Head(queue[x]).run = r => Queued(r)
    BY <1>2 DEF Queued
  <1>8. Queued(r)' => Queued(r) /\ Head(queue[x]).run # r
    BY <1>5 DEF Queued
  <1> QED BY <1>6, <1>7, <1>8

\* A step after which no one has the run who had not keeps the token.
LEMMA TokenKept ==
  ASSUME NEW r \in Runs, OneToken(r), QueuedOnce(r)', Queued(r)' => Queued(r),
         \A a \in Actors : Pushes(a, r)' => Pushes(a, r),
         \A w \in Workers : Holds(w, r)' => Holds(w, r)
  PROVE  OneToken(r)'
  BY DEF OneToken

\* resumes only grows.
LEMMA FirstLife ==
  ASSUME TypeInv, [Next]_vars, NEW r \in Runs, resumes'[r] = 0
  PROVE  resumes[r] = 0
  <1>0. TypeOK /\ TargetsKnown
    BY DEF TypeInv
  <1>1. ASSUME NEW a \in Actors, NEW b \in BOOLEAN, ResumeCommits(a, b) PROVE resumes[r] = 0
    <2>1. resumes' = [resumes EXCEPT ![target[a]] = @ + 1]
      BY <1>1 DEF ResumeCommits
    <2> QED BY <1>0, <2>1 DEF TypeOK
  <1>2. UNCHANGED resumes \/ \E a \in Actors, b \in BOOLEAN : ResumeCommits(a, b)
    <2>1. ASSUME NEW a \in Actors, Trigger(a) \/ Enqueue(a) \/ Reap(a) PROVE UNCHANGED resumes
      BY <2>1 DEF Trigger, TriggerBegin, TriggerRefused, TriggerCreates, Enqueue, EnqueueFirst,
         EnqueueFailed, Reap, ReapBegin, ReapNothing, ReapCommits, rowVars, vars
    <2>2. ASSUME NEW a \in Actors, Resume(a)
          PROVE  UNCHANGED resumes \/ \E b \in BOOLEAN : ResumeCommits(a, b)
      BY <2>2 DEF Resume, ResumeBegin, ResumeRefused, rowVars
    <2>3. ASSUME NEW w \in Workers, StartJob(w) \/ SaveAnswer(w) \/ FinishJob(w) \/ JobRaises(w)
          PROVE  UNCHANGED resumes
      BY <2>3 DEF StartJob, StartA, StartAUnconfigured, StartB, SkipJob, SaveAnswer,
         FinishJob, CloseDispatch, Handoff, Finalize, Process, JobRaises, rowVars
    <2>4. CASE Crash \/ Time \/ UNCHANGED vars
      BY <2>4 DEF Crash, KillWorker, KillActor, Time, HeartbeatLapses, GraceEnds, TtlPasses,
         rowVars, vars
    <2> QED BY <2>1, <2>2, <2>3, <2>4 DEF Next
  <1> QED BY <1>1, <1>2

\* Actors: all but the commit of a trigger or a resume and the first enqueue.
LEMMA TokenQuietActors ==
  ASSUME TypeInv, NEW a \in Actors,
         \/ \E x \in Runs : TriggerBegin(a, x) \/ ResumeBegin(a, x)
         \/ \E b \in BOOLEAN : TriggerRefused(a, b) \/ ResumeRefused(a, b) \/ ReapCommits(a, b)
         \/ EnqueueFailed(a) \/ ReapBegin(a) \/ ReapNothing(a) \/ KillActor(a)
  PROVE  /\ UNCHANGED <<queue, wpc, job>>
         /\ \A c \in Actors, r \in Runs : Pushes(c, r)' => Pushes(c, r)
  <1>1. TypeOK
    BY DEF TypeInv
  <1>2. UNCHANGED <<queue, wpc, job>>
    BY DEF TriggerBegin, ResumeBegin, TriggerRefused, ResumeRefused, ReapCommits, EnqueueFailed,
       ReapBegin, ReapNothing, KillActor, workerVars, vars
  <1>3. ASSUME NEW x \in Runs, TriggerBegin(a, x) \/ ResumeBegin(a, x)
        PROVE  \A c \in Actors, r \in Runs : Pushes(c, r)' => Pushes(c, r)
    BY <1>1, <1>3 DEF TriggerBegin, ResumeBegin, Pushes, TypeOK
  <1>4. ASSUME EndStep(a), NEW c \in Actors, NEW r \in Runs, Pushes(c, r)' PROVE Pushes(c, r)
    <2>1. pc'[c] = "enqueueing" /\ target'[c] = r
      BY <1>4 DEF Pushes
    <2>2. c # a /\ pc'[c] = pc[c] /\ target'[c] = target[c]
      BY <1>1, <1>4, <2>1 DEF EndStep, TypeOK
    <2> QED BY <2>1, <2>2 DEF Pushes
  <1>5. ASSUME ReapBegin(a) \/ ReapNothing(a), NEW c \in Actors, NEW r \in Runs, Pushes(c, r)'
        PROVE  Pushes(c, r)
    <2>1. pc'[c] = "enqueueing" /\ target'[c] = r
      BY <1>5 DEF Pushes
    <2>2. target' = target /\ (pc' = pc \/ pc' = [pc EXCEPT ![a] = "reaping"])
      BY <1>5 DEF ReapBegin, ReapNothing, vars, actorVars
    <2>3. pc'[c] = pc[c]
      BY <1>1, <2>1, <2>2 DEF TypeOK
    <2> QED BY <2>1, <2>2, <2>3 DEF Pushes
  <1> QED BY <1>2, <1>3, <1>4, <1>5
          DEF TriggerRefused, ResumeRefused, ReapCommits, EnqueueFailed, KillActor

\* The trigger that creates the run makes its token: nothing refers to the
\* run yet, neither a queue nor a worker nor another actor.
LEMMA TokenCreates ==
  ASSUME TypeInv, BornInv, NEW a \in Actors, NEW b \in BOOLEAN, NEW st, NEW ms,
         TriggerCreates(a, b, st, ms), NEW r \in Runs, OneToken(r)
  PROVE  OneToken(r)'
  <1>1. /\ TypeOK /\ target[a] \in Runs /\ ~Born(target[a])
        /\ UNCHANGED <<queue, wpc, job>>
    BY DEF TypeInv, TargetsKnown, TriggerCreates, BornInv, workerVars
  <1>2. \A c \in Actors : Pushes(c, r)' => Pushes(c, r) \/ (c = a /\ r = target[a])
    <2>1. CASE pc' = [pc EXCEPT ![a] = "enqueueing"] /\ UNCHANGED target
      BY <1>1, <2>1 DEF Pushes, TypeOK
    <2>2. CASE EndStep(a)
      BY <1>1, <2>2 DEF EndStep, Pushes, TypeOK
    <2> QED BY <2>1, <2>2 DEF TriggerCreates
  <1>3. (Queued(r)' <=> Queued(r)) /\ (QueuedOnce(r)' <=> QueuedOnce(r))
    BY <1>1 DEF Queued, QueuedOnce
  <1>4. \A w \in Workers : Holds(w, r)' <=> Holds(w, r)
    BY <1>1 DEF Holds
  <1>5. CASE r # target[a]
    BY <1>2, <1>3, <1>4, <1>5, TokenKept DEF OneToken
  <1>6. CASE r = target[a]
    <2>1. \A c \in Actors : ~Pushes(c, r)
      BY <1>1, <1>6 DEF Pushes, BornInv
    <2>2. \A w \in Workers : ~Holds(w, r)
      BY <1>1, <1>6 DEF Holds, BornInv, Busy
    <2>3. ~Queued(r)
      BY <1>1, <1>6 DEF Queued, BornInv
    <2> QED BY <1>2, <1>3, <1>4, <2>1, <2>2, <2>3 DEF OneToken
  <1> QED BY <1>5, <1>6

\* The first enqueue hands the token to the queue, if the job arrives.
LEMMA TokenEnqueues ==
  ASSUME TypeInv, NEW a \in Actors, NEW e \in EnqueueResults, EnqueueFirst(a, e),
         NEW r \in Runs, OneToken(r)
  PROVE  OneToken(r)'
  <1> DEFINE r0 == target[a]
  <1>1. /\ TypeOK /\ r0 \in Runs /\ Pushes(a, r0) /\ UNCHANGED <<wpc, job>>
        /\ FirstMode(r0) \in Modes
    BY DEF TypeInv, TargetsKnown, EnqueueFirst, Pushes, FirstMode, workerVars
  <1>2. \A c \in Actors : Pushes(c, r)' => Pushes(c, r) /\ c # a
    <2>1. CASE EndStep(a)
      BY <1>1, <2>1 DEF EndStep, Pushes, TypeOK
    <2>2. CASE pc' = [pc EXCEPT ![a] = "failing"] /\ UNCHANGED target
      BY <1>1, <2>2 DEF Pushes, TypeOK
    <2> QED BY <2>1, <2>2 DEF EnqueueFirst
  <1>3. \A w \in Workers : Holds(w, r)' <=> Holds(w, r)
    BY <1>1 DEF Holds
  <1>4. CASE queue' = queue
    BY <1>2, <1>3, <1>4, TokenKept DEF Queued, QueuedOnce, OneToken
  <1>5. CASE queue' = Push(FirstMode(r0), r0)
    <2>1. QueuedOnce(r)' /\ (Queued(r)' => Queued(r) \/ r = r0)
      BY <1>1, <1>5, PushOnce DEF OneToken
    <2>2. CASE r # r0
      BY <1>2, <1>3, <2>1, <2>2, TokenKept DEF OneToken
    <2>3. CASE r = r0
      <3>1. (\A c \in Actors : ~Pushes(c, r)') /\ (\A w \in Workers : ~Holds(w, r)')
        BY <1>1, <1>2, <1>3, <2>3 DEF OneToken
      <3> QED BY <2>1, <3>1 DEF OneToken
    <2> QED BY <2>2, <2>3
  <1> QED BY <1>4, <1>5 DEF EnqueueFirst

LEMMA TokenActors ==
  ASSUME TypeInv, BornInv, TokenInv, [Next]_vars, NEW a \in Actors,
         Trigger(a) \/ Resume(a) \/ Enqueue(a) \/ Reap(a) \/ KillActor(a),
         NEW r \in Runs, resumes'[r] = 0
  PROVE  OneToken(r)'
  <1>1. OneToken(r) /\ TypeOK
    BY FirstLife DEF TokenInv, TypeInv
  <1>2. CASE \E b \in BOOLEAN : \E st, ms : TriggerCreates(a, b, st, ms)
    BY <1>1, <1>2, TokenCreates
  <1>3. CASE \E e \in EnqueueResults : EnqueueFirst(a, e)
    BY <1>1, <1>3, TokenEnqueues
  <1>4. ASSUME NEW b \in BOOLEAN, ResumeCommits(a, b) PROVE OneToken(r)'
    <2>1. /\ resumes' = [resumes EXCEPT ![target[a]] = @ + 1]
          /\ pc' = [pc EXCEPT ![a] = "enqueueing"]
          /\ UNCHANGED <<target, queue, wpc, job>>
      BY <1>4 DEF ResumeCommits, workerVars
    <2>2. r # target[a]
      BY <1>1, <2>1 DEF TypeOK
    <2>3. \A c \in Actors : Pushes(c, r)' => Pushes(c, r)
      BY <1>1, <2>1, <2>2 DEF Pushes, TypeOK
    <2> QED BY <1>1, <2>1, <2>3, TokenKept DEF Queued, QueuedOnce, Holds, OneToken
  <1>5. CASE \/ \E x \in Runs : TriggerBegin(a, x) \/ ResumeBegin(a, x)
             \/ \E b \in BOOLEAN : TriggerRefused(a, b) \/ ResumeRefused(a, b) \/ ReapCommits(a, b)
             \/ EnqueueFailed(a) \/ ReapBegin(a) \/ ReapNothing(a) \/ KillActor(a)
    <2>1. /\ UNCHANGED <<queue, wpc, job>>
          /\ \A c \in Actors : Pushes(c, r)' => Pushes(c, r)
      BY <1>5, TokenQuietActors
    <2> QED BY <1>1, <2>1, TokenKept DEF Queued, QueuedOnce, Holds, OneToken
  <1> QED BY <1>2, <1>3, <1>4, <1>5 DEF Trigger, Resume, Enqueue, Reap

\* A worker that takes a job takes the token out of the queue.
LEMMA TokenTakes ==
  ASSUME TypeInv, NEW w \in Workers, NEW x \in QueueNames, CanTake(w, x), Take(x),
         UNCHANGED actorVars,
         \A v \in Workers \ {w} : wpc'[v] = wpc[v] /\ job'[v] = job[v],
         wpc'[w] = "idle" \/ job'[w] = Head(queue[x]),
         NEW r \in Runs, OneToken(r)
  PROVE  OneToken(r)'
  <1>1. /\ QueuedOnce(r)' /\ (Queued(r)' => Queued(r))
        /\ Head(queue[x]).run = r => Queued(r) /\ ~Queued(r)'
    BY TakeOnce DEF TypeInv, OneToken
  <1>2. \A a \in Actors : Pushes(a, r)' <=> Pushes(a, r)
    BY DEF Pushes, actorVars
  <1>3. \A v \in Workers : Holds(v, r)' => Holds(v, r) \/ (v = w /\ Head(queue[x]).run = r)
    BY DEF Holds, Busy
  <1>4. CASE Head(queue[x]).run # r
    BY <1>1, <1>2, <1>3, <1>4, TokenKept DEF OneToken
  <1>5. CASE Head(queue[x]).run = r
    <2>1. \A a \in Actors : ~Pushes(a, r)'
      BY <1>1, <1>2, <1>5 DEF OneToken
    <2>2. \A v \in Workers : Holds(v, r)' => v = w
      BY <1>1, <1>3, <1>5 DEF OneToken
    <2> QED BY <1>1, <1>5, <2>1, <2>2 DEF OneToken
  <1> QED BY <1>4, <1>5

LEMMA TokenStarts ==
  ASSUME TypeInv, NEW w \in Workers, StartJob(w), NEW r \in Runs, OneToken(r)
  PROVE  OneToken(r)'
  <1>1. TypeOK
    BY DEF TypeInv
  <1>2. CASE StartA(w)
    BY <1>1, <1>2, TokenTakes DEF StartA, TypeOK
  <1>3. CASE StartAUnconfigured(w)
    BY <1>1, <1>3, TokenTakes DEF StartAUnconfigured, TypeOK
  <1>4. CASE StartB(w)
    BY <1>1, <1>4, TokenTakes DEF StartB, TypeOK
  <1>5. ASSUME NEW q \in QueueNames, SkipJob(w, q) PROVE OneToken(r)'
    <2>1. /\ CanTake(w, q) /\ Take(q) /\ wpc'[w] = "idle"
          /\ \A v \in Workers \ {w} : wpc'[v] = wpc[v] /\ job'[v] = job[v]
      BY <1>1, <1>5 DEF SkipJob, CanTake, workerVars
    <2> QED BY <1>5, <2>1, TokenTakes DEF SkipJob
  <1> QED BY <1>2, <1>3, <1>4, <1>5 DEF StartJob

\* A busy worker goes on, stops, or hands its token to the queue.
LEMMA TokenWorks ==
  ASSUME TypeInv, NEW w \in Workers,
         SaveAnswer(w) \/ FinishJob(w) \/ JobRaises(w) \/ KillWorker(w),
         NEW r \in Runs, OneToken(r)
  PROVE  OneToken(r)'
  <1>1. TypeOK
    BY DEF TypeInv
  <1>2. \A a \in Actors : Pushes(a, r)' <=> Pushes(a, r)
    <2>1. UNCHANGED actorVars
      BY DEF SaveAnswer, FinishJob, CloseDispatch, Handoff, Finalize, Process, JobRaises, KillWorker
    <2> QED BY <2>1 DEF Pushes, actorVars
  <1>3. /\ \A v \in Workers \ {w} : wpc'[v] = wpc[v] /\ job'[v] = job[v]
        /\ wpc'[w] = "idle" \/ job'[w] = job[w]
    BY <1>1 DEF SaveAnswer, FinishJob, CloseDispatch, Handoff, Finalize, Process,
       JobRaises, AfterFinalize, FreeWorker, KillWorker, workerVars, TypeOK
  <1>4. wpc'[w] \in Busy => wpc[w] \in Busy
    BY <1>1 DEF SaveAnswer, FinishJob, CloseDispatch, Handoff, Finalize, Process,
       JobRaises, AfterFinalize, FreeWorker, KillWorker, workerVars, TypeOK, Busy
  <1>5. \A v \in Workers : Holds(v, r)' => Holds(v, r)
    BY <1>3, <1>4 DEF Holds, Busy
  <1>6. CASE queue' = queue
    BY <1>2, <1>5, <1>6, TokenKept DEF Queued, QueuedOnce, OneToken
  <1>7. ASSUME NEW e \in EnqueueResults, Handoff(w, e), queue' # queue PROVE OneToken(r)'
    <2> DEFINE r0 == job[w].run
    <2>1. /\ r0 \in Runs /\ wpc[w] = "handoff" /\ Holds(w, r0) /\ "B" \in Modes
          /\ queue' = Push("B", r0)
      BY <1>7 DEF TypeInv, JobsHeld, Jobs, Handoff, Holds, Busy
    <2>2. wpc'[w] \notin Busy
      <3>1. e = "ok" \/ e = "unacked"
        BY <1>7 DEF Handoff
      <3>2. CASE e = "ok"
        BY <1>1, <1>7, <3>2 DEF Handoff, FreeWorker, TypeOK, Busy
      <3>3. CASE e = "unacked"
        <4>1. wpc' = [wpc EXCEPT ![w] = "finalize"] /\ Busy = {"dispatch", "handoff"}
          BY <1>7, <3>3 DEF Handoff, Busy
        <4> QED BY <1>1, <4>1 DEF TypeOK
      <3> QED BY <3>1, <3>2, <3>3
    <2>3. QueuedOnce(r)' /\ (Queued(r)' => Queued(r) \/ r = r0)
      BY <1>1, <2>1, PushOnce DEF OneToken
    <2>4. CASE r # r0
      BY <1>2, <1>5, <2>3, <2>4, TokenKept DEF OneToken
    <2>5. CASE r = r0
      <3>1. \A v \in Workers : ~Holds(v, r)'
        BY <1>5, <2>1, <2>2, <2>5 DEF OneToken, Holds
      <3>2. \A a \in Actors : ~Pushes(a, r)'
        BY <1>2, <2>1, <2>5 DEF OneToken
      <3> QED BY <2>3, <3>1, <3>2 DEF OneToken
    <2> QED BY <2>4, <2>5
  <1> QED BY <1>6, <1>7 DEF SaveAnswer, FinishJob, CloseDispatch, Finalize, Process, JobRaises,
                          KillWorker

LEMMA TokenInit == Init => TokenInv
  BY DEF Init, TokenInv, OneToken, QueuedOnce, Queued, Pushes, Holds, Busy

LEMMA TokenStep ==
  ASSUME TypeInv, BornInv, TokenInv, [Next]_vars
  PROVE  TokenInv'
  <1> SUFFICES ASSUME NEW r \in Runs, resumes'[r] = 0 PROVE OneToken(r)'
    BY DEF TokenInv
  <1>1. OneToken(r)
    BY FirstLife DEF TokenInv
  <1>2. CASE \E a \in Actors :
               Trigger(a) \/ Resume(a) \/ Enqueue(a) \/ Reap(a) \/ KillActor(a)
    BY <1>2, TokenActors
  <1>3. CASE \E w \in Workers : StartJob(w)
    BY <1>1, <1>3, TokenStarts
  <1>4. CASE \E w \in Workers :
               SaveAnswer(w) \/ FinishJob(w) \/ JobRaises(w) \/ KillWorker(w)
    BY <1>1, <1>4, TokenWorks
  <1>5. CASE Time \/ UNCHANGED vars
    <2>1. UNCHANGED <<pc, target, wpc, job, queue>>
      BY <1>5 DEF Time, HeartbeatLapses, GraceEnds, TtlPasses, vars, actorVars, workerVars
    <2> QED BY <1>1, <2>1, TokenKept DEF Pushes, Holds, Queued, QueuedOnce, OneToken
  <1> QED BY <1>2, <1>3, <1>4, <1>5 DEF Next, Crash

\* The invariants of a run's token, of every step.
LifeInv == TypeInv /\ SafeInv /\ BornInv /\ TokenInv

LEMMA LifeInit == Init => LifeInv
  BY TypeInit, SafeInit, BornInit, TokenInit DEF LifeInv

LEMMA LifeStep == LifeInv /\ [Next]_vars => LifeInv'
  BY TypeStep, SafeStep, BornStep, TokenStep DEF LifeInv

\* For any number of runs, processes and workers, any layout of the queues
\* and whatever Redis answers, a run never resumed has one dispatcher.
THEOREM FirstLifeDispatch == Spec => []DispatchedAlone
  <1>1. LifeInv => DispatchedAlone
    <2> SUFFICES ASSUME LifeInv, NEW v \in Workers, NEW w \in Workers, v # w,
                        wpc[v] = "dispatch", wpc[w] = "dispatch", job[v].run = job[w].run
                 PROVE  resumes[job[w].run] > 0
      BY DEF DispatchedAlone
    <2>1. job[w].run \in Runs /\ resumes[job[w].run] \in Nat
      BY DEF LifeInv, TypeInv, TypeOK, JobsHeld, Jobs
    <2>2. Holds(v, job[w].run) /\ Holds(w, job[w].run)
      BY DEF Holds, Busy
    <2>3. resumes[job[w].run] # 0
      BY <2>1, <2>2 DEF LifeInv, TokenInv, OneToken
    <2> QED BY <2>1, <2>3
  <1> QED BY LifeInit, LifeStep, <1>1, PTL DEF Spec

\* With every enqueue accepted or refused for good, as in the runs of this
\* project, one worker at a time executes a run never resumed, and nothing of
\* it is finalized or processed beside it.
THEOREM FirstLifeAlone ==
  ASSUME "unacked" \notin EnqueueResults
  PROVE  Spec => []ExecutedAlone
  <1>1. LifeInv => ExecutedAlone
    <2> SUFFICES ASSUME LifeInv, NEW v \in Workers, NEW w \in Workers, v # w,
                        wpc[v] # "idle", wpc[w] # "idle", job[v].run = job[w].run
                 PROVE  resumes[job[w].run] > 0
      BY DEF ExecutedAlone
    <2>1. job[w].run \in Runs /\ resumes[job[w].run] \in Nat
      BY DEF LifeInv, TypeInv, TypeOK, JobsHeld, Jobs
    <2>2. Holds(v, job[w].run) /\ Holds(w, job[w].run)
      BY DEF Holds, Busy, LifeInv, TypeInv, TypeOK
    <2>3. resumes[job[w].run] # 0
      BY <2>1, <2>2 DEF LifeInv, TokenInv, OneToken
    <2> QED BY <2>1, <2>3
  <1> QED BY LifeInit, LifeStep, <1>1, PTL DEF Spec

-----------------------------------------------------------------------------
(* What a finished run went through. The token keeps everybody else away      *)
(* while a worker finalizes and processes, so the status it writes stands     *)
(* until its answers are derived.                                             *)

LEMMA OutcomeUnfinished ==
  ASSUME NEW r \in Runs, Unfinished(r)'
  PROVE  Outcome(r)'
  BY DEF Outcome

LEMMA OutcomeKept ==
  ASSUME NEW r \in Runs, Outcome(r), Working(r)' => Working(r),
         status'[r] = status[r], kills' = 0 => kills = 0,
         completed'[r] = completed[r], derived'[r] = derived[r],
         Closing(r) => Closing(r)'
  PROVE  Outcome(r)'
  BY DEF Outcome, Unfinished

\* What an actor does to a run it does not create.
LEMMA ActorStatus ==
  ASSUME TypeInv, NEW a \in Actors,
         Trigger(a) \/ Resume(a) \/ Enqueue(a) \/ Reap(a) \/ KillActor(a), NEW r \in Runs
  PROVE  /\ UNCHANGED <<completed, derived, wpc, job>> /\ (kills' = 0 => kills = 0)
         /\ status'[r] = status[r] \/ Unfinished(r)'
  <1>0. TypeOK
    BY DEF TypeInv
  <1>1. UNCHANGED <<completed, derived, wpc, job>> /\ (kills' = 0 => kills = 0)
    <2>1. CASE KillActor(a)
      BY <1>0, <2>1 DEF KillActor, rowVars, workerVars, TypeOK
    <2> QED BY <2>1 DEF Trigger, TriggerBegin, TriggerRefused, TriggerCreates, Resume, ResumeBegin,
            ResumeRefused, ResumeCommits, Enqueue, EnqueueFirst, EnqueueFailed, Reap, ReapBegin,
            ReapNothing, ReapCommits, rowVars, workerVars, vars
  <1>2. ASSUME NEW b \in BOOLEAN, TriggerRefused(a, b) \/ ResumeRefused(a, b) \/ ReapCommits(a, b)
        PROVE  status'[r] = status[r] \/ Unfinished(r)'
    <2>1. status' = MarkAbandoned(Abandoned(rows[a], b))
      BY <1>2 DEF TriggerRefused, ResumeRefused, ReapCommits
    <2> QED BY <2>1 DEF MarkAbandoned, Unfinished
  <1>3. ASSUME NEW b \in BOOLEAN, NEW st \in {"pending", "gated", "failed"}, NEW ms,
               TriggerCreates(a, b, st, ms)
        PROVE  status'[r] = status[r] \/ Unfinished(r)'
    <2>1. status' = [MarkAbandoned(Abandoned(rows[a], b)) EXCEPT ![target[a]] = st]
      BY <1>3 DEF TriggerCreates
    <2>2. status'[r] = IF r = target[a] THEN st ELSE MarkAbandoned(Abandoned(rows[a], b))[r]
      BY <2>1 DEF MarkAbandoned
    <2> QED BY <2>2 DEF MarkAbandoned, Unfinished
  <1>4. ASSUME NEW b \in BOOLEAN, ResumeCommits(a, b)
        PROVE  status'[r] = status[r] \/ Unfinished(r)'
    <2>1. status' = [MarkAbandoned(Abandoned(rows[a], b)) EXCEPT ![target[a]] = "pending"]
      BY <1>4 DEF ResumeCommits
    <2>2. status'[r] = IF r = target[a] THEN "pending"
                       ELSE MarkAbandoned(Abandoned(rows[a], b))[r]
      BY <2>1 DEF MarkAbandoned
    <2> QED BY <2>2 DEF MarkAbandoned, Unfinished
  <1>5. ASSUME EnqueueFailed(a) PROVE status'[r] = status[r] \/ Unfinished(r)'
    <2>1. /\ status' = [status EXCEPT ![target[a]] = "failed"]
          /\ status \in [Runs -> {"none"} \cup Live \cup Ended]
      BY <1>0, <1>5 DEF EnqueueFailed, TypeOK
    <2> QED BY <2>1 DEF Unfinished
  <1>6. CASE UNCHANGED status
    BY <1>1, <1>6
  <1> QED BY <1>1, <1>2, <1>3, <1>4, <1>5, <1>6
          DEF Trigger, TriggerBegin, Resume, ResumeBegin, Enqueue, EnqueueFirst, Reap, ReapBegin,
              ReapNothing, KillActor, rowVars, vars

\* An actor sets to work on a run it creates, or resumes, only.
LEMMA ActorWork ==
  ASSUME TypeInv, NEW a \in Actors,
         Trigger(a) \/ Resume(a) \/ Enqueue(a) \/ Reap(a) \/ KillActor(a),
         NEW r \in Runs, QueuedOnce(r), OneToken(r)
  PROVE  (Working(r)' => Working(r)) \/ Unfinished(r)'
  <1>0. TypeOK
    BY DEF TypeInv
  <1>1. ASSUME NEW b \in BOOLEAN, NEW st \in {"pending", "gated", "failed"}, NEW ms,
               TriggerCreates(a, b, st, ms), r = target[a]
        PROVE  Unfinished(r)'
    <2>1. status' = [MarkAbandoned(Abandoned(rows[a], b)) EXCEPT ![r] = st]
      BY <1>1 DEF TriggerCreates
    <2> QED BY <2>1 DEF MarkAbandoned, Unfinished
  <1>2. ASSUME NEW b \in BOOLEAN, ResumeCommits(a, b), r = target[a] PROVE Unfinished(r)'
    <2>1. status' = [MarkAbandoned(Abandoned(rows[a], b)) EXCEPT ![r] = "pending"]
      BY <1>2 DEF ResumeCommits
    <2> QED BY <2>1 DEF MarkAbandoned, Unfinished
  <1>3. ASSUME r # target[a],
               \/ \E b \in BOOLEAN : ResumeCommits(a, b)
               \/ \E b \in BOOLEAN : \E st, ms : TriggerCreates(a, b, st, ms)
        PROVE  Working(r)' => Working(r)
    <2>1. /\ UNCHANGED <<queue, wpc, job>>
          /\ \/ pc' = [pc EXCEPT ![a] = "enqueueing"] /\ UNCHANGED target
             \/ EndStep(a)
      BY <1>3 DEF ResumeCommits, TriggerCreates, workerVars
    <2>2. ASSUME NEW c \in Actors, Pushes(c, r)' PROVE Pushes(c, r)
      <3>1. pc'[c] = "enqueueing" /\ target'[c] = r
        BY <2>2 DEF Pushes
      <3>2. c # a /\ pc'[c] = pc[c] /\ target'[c] = target[c]
        <4>1. CASE pc' = [pc EXCEPT ![a] = "enqueueing"] /\ UNCHANGED target
          BY <1>0, <1>3, <3>1, <4>1 DEF TypeOK
        <4>2. CASE EndStep(a)
          BY <1>0, <3>1, <4>2 DEF EndStep, TypeOK
        <4> QED BY <2>1, <4>1, <4>2
      <3> QED BY <3>1, <3>2 DEF Pushes
    <2> QED BY <2>1, <2>2 DEF Working, Queued
  <1>4. ASSUME NEW e \in EnqueueResults, EnqueueFirst(a, e) PROVE Working(r)' => Working(r)
    <2>1. /\ target[a] \in Runs /\ Pushes(a, target[a]) /\ UNCHANGED <<wpc, job>>
          /\ FirstMode(target[a]) \in Modes
      BY <1>4 DEF TypeInv, TargetsKnown, EnqueueFirst, Pushes, FirstMode, workerVars
    <2>2. \A c \in Actors : Pushes(c, r)' => Pushes(c, r)
      <3>1. CASE EndStep(a)
        BY <1>0, <3>1 DEF EndStep, Pushes, TypeOK
      <3>2. CASE pc' = [pc EXCEPT ![a] = "failing"] /\ UNCHANGED target
        BY <1>0, <3>2 DEF Pushes, TypeOK
      <3> QED BY <1>4, <3>1, <3>2 DEF EnqueueFirst
    <2>3. Queued(r)' => Queued(r) \/ Pushes(a, r)
      <3>1. CASE queue' = queue
        BY <3>1 DEF Queued
      <3>2. CASE queue' = Push(FirstMode(target[a]), target[a])
        <4>1. r = target[a] => ~Queued(r)
          BY <2>1 DEF OneToken
        <4> QED BY <1>0, <2>1, <3>2, <4>1, PushOnce
      <3> QED BY <1>4, <3>1, <3>2 DEF EnqueueFirst
    <2> QED BY <2>1, <2>2, <2>3 DEF Working
  <1>5. CASE \/ \E x \in Runs : TriggerBegin(a, x) \/ ResumeBegin(a, x)
             \/ \E b \in BOOLEAN : TriggerRefused(a, b) \/ ResumeRefused(a, b) \/ ReapCommits(a, b)
             \/ EnqueueFailed(a) \/ ReapBegin(a) \/ ReapNothing(a) \/ KillActor(a)
    BY <1>5, TokenQuietActors DEF Working, Queued
  <1> QED BY <1>1, <1>2, <1>3, <1>4, <1>5 DEF Trigger, Resume, Enqueue, Reap

LEMMA OutcomeActors ==
  ASSUME TypeInv, NEW a \in Actors,
         Trigger(a) \/ Resume(a) \/ Enqueue(a) \/ Reap(a) \/ KillActor(a),
         NEW r \in Runs, OneToken(r), Outcome(r)
  PROVE  Outcome(r)'
  <1>1. /\ UNCHANGED <<completed, derived, wpc, job>> /\ (kills' = 0 => kills = 0)
        /\ status'[r] = status[r] \/ Unfinished(r)'
    BY ActorStatus
  <1>2. (Working(r)' => Working(r)) \/ Unfinished(r)'
    BY ActorWork DEF OneToken
  <1>3. Closing(r) => Closing(r)'
    BY <1>1 DEF Closing
  <1> QED BY <1>1, <1>2, <1>3, OutcomeUnfinished, OutcomeKept

\* A worker that takes a job makes its run a live or a failed one.
LEMMA OutcomeStarts ==
  ASSUME TypeInv, NEW w \in Workers, StartJob(w), NEW r \in Runs, OneToken(r), Outcome(r)
  PROVE  Outcome(r)'
  <1>0. TypeOK
    BY DEF TypeInv
  <1>1. ASSUME NEW x \in QueueNames, CanTake(w, x), Take(x), UNCHANGED actorVars,
               \A v \in Workers \ {w} : wpc'[v] = wpc[v] /\ job'[v] = job[v],
               wpc'[w] = "idle" \/ (job'[w] = Head(queue[x]) /\ r # Head(queue[x]).run)
        PROVE  (Working(r)' => Working(r)) /\ (Closing(r) => Closing(r)')
    <2>1. Queued(r)' => Queued(r)
      BY <1>0, <1>1, TakeOnce DEF OneToken
    <2>2. \A a \in Actors : Pushes(a, r)' <=> Pushes(a, r)
      BY <1>1 DEF Pushes, actorVars
    <2>3. ASSUME NEW v \in Workers, wpc'[v] \in {"dispatch", "handoff"}, job'[v].run = r
          PROVE  wpc[v] \in {"dispatch", "handoff"} /\ job[v].run = r
      BY <1>1, <2>3
    <2>4. ASSUME NEW v \in Workers, wpc[v] \in {"finalize", "process"}, job[v].run = r
          PROVE  wpc'[v] \in {"finalize", "process"} /\ job'[v].run = r
      BY <1>1, <2>4 DEF CanTake
    <2> QED BY <2>1, <2>2, <2>3, <2>4 DEF Working, Closing
  <1>2. CASE StartA(w) \/ StartAUnconfigured(w)
    <2> DEFINE j == Head(queue["default"])
    <2>1. /\ CanTake(w, "default") /\ Take("default") /\ UNCHANGED <<actorVars, derived, kills>>
          /\ status' = [status EXCEPT ![j.run] = "running"] \/ status' = [status EXCEPT ![j.run] = "failed"]
          /\ \E b : completed' = [completed EXCEPT ![j.run] = b]
      BY <1>2 DEF StartA, StartAUnconfigured
    <2>2. /\ \A v \in Workers \ {w} : wpc'[v] = wpc[v] /\ job'[v] = job[v]
          /\ wpc'[w] = "idle" \/ job'[w] = j
      BY <1>0, <1>2 DEF StartA, StartAUnconfigured, TypeOK
    <2>3. CASE r = j.run
      BY <1>0, <2>1, <2>3, OutcomeUnfinished DEF Unfinished, TypeOK
    <2>4. CASE r # j.run
      <3>1. status'[r] = status[r] /\ completed'[r] = completed[r]
        BY <1>0, <2>1, <2>4 DEF TypeOK
      <3>2. (Working(r)' => Working(r)) /\ (Closing(r) => Closing(r)')
        BY <1>1, <2>1, <2>2, <2>4
      <3> QED BY <2>1, <3>1, <3>2, OutcomeKept
    <2> QED BY <2>3, <2>4
  <1>3. CASE StartB(w)
    <2> DEFINE j == Head(queue["scrape"])
    <2>1. /\ CanTake(w, "scrape") /\ Take("scrape") /\ UNCHANGED <<actorVars, derived, completed, kills>>
          /\ status' = [status EXCEPT ![j.run] = "running"]
      BY <1>3 DEF StartB
    <2>2. /\ \A v \in Workers \ {w} : wpc'[v] = wpc[v] /\ job'[v] = job[v]
          /\ job'[w] = j
      BY <1>0, <1>3 DEF StartB, TypeOK
    <2>3. CASE r = j.run
      BY <1>0, <2>1, <2>3, OutcomeUnfinished DEF Unfinished, TypeOK
    <2>4. CASE r # j.run
      <3>1. status'[r] = status[r]
        BY <1>0, <2>1, <2>4 DEF TypeOK
      <3>2. (Working(r)' => Working(r)) /\ (Closing(r) => Closing(r)')
        BY <1>1, <2>1, <2>2, <2>4
      <3> QED BY <2>1, <3>1, <3>2, OutcomeKept
    <2> QED BY <2>3, <2>4
  <1>4. ASSUME NEW q \in QueueNames, SkipJob(w, q) PROVE Outcome(r)'
    <2>1. /\ CanTake(w, q) /\ Take(q) /\ wpc'[w] = "idle"
          /\ \A v \in Workers \ {w} : wpc'[v] = wpc[v] /\ job'[v] = job[v]
          /\ UNCHANGED <<actorVars, status, completed, derived, kills>>
      BY <1>4 DEF SkipJob, CanTake, workerVars, rowVars
    <2>2. (Working(r)' => Working(r)) /\ (Closing(r) => Closing(r)')
      BY <1>1, <2>1
    <2> QED BY <2>1, <2>2, OutcomeKept
  <1> QED BY <1>2, <1>3, <1>4 DEF StartJob

\* What the other runs see of a busy worker's step.
LEMMA OutcomeBystander ==
  ASSUME TypeInv, NEW w \in Workers,
         SaveAnswer(w) \/ FinishJob(w) \/ JobRaises(w) \/ KillWorker(w),
         NEW r \in Runs, OneToken(r), r # job[w].run
  PROVE  /\ Working(r)' => Working(r)
         /\ Closing(r) => Closing(r)'
         /\ status'[r] = status[r] /\ completed'[r] = completed[r] /\ derived'[r] = derived[r]
         /\ kills' = 0 => kills = 0
  <1>0. /\ TypeOK /\ job[w].run \in Runs /\ wpc[w] # "idle"
    BY DEF TypeInv, JobsHeld, Jobs, SaveAnswer, FinishJob, CloseDispatch, Handoff, Finalize,
       Process, JobRaises, KillWorker
  <1>1. /\ UNCHANGED actorVars
        /\ \A v \in Workers \ {w} : wpc'[v] = wpc[v] /\ job'[v] = job[v]
        /\ wpc'[w] = "idle" \/ job'[w] = job[w]
    BY <1>0 DEF SaveAnswer, FinishJob, CloseDispatch, Handoff, Finalize, Process, JobRaises,
       AfterFinalize, FreeWorker, KillWorker, workerVars, TypeOK
  <1>2. /\ status'[r] = status[r] /\ completed'[r] = completed[r] /\ derived'[r] = derived[r]
        /\ kills' = 0 => kills = 0
    <2>1. CASE SaveAnswer(w) \/ KillWorker(w)
      BY <1>0, <2>1 DEF SaveAnswer, KillWorker, rowVars, TypeOK
    <2>2. CASE FinishJob(w)
      BY <1>0, <2>2 DEF FinishJob, CloseDispatch, Handoff, Finalize, Process, rowVars, TypeOK
    <2>3. CASE JobRaises(w)
      BY <1>0, <2>3 DEF JobRaises, TypeOK
    <2> QED BY <2>1, <2>2, <2>3
  <1>3. Queued(r)' => Queued(r)
    <2>1. CASE queue' = queue
      BY <2>1 DEF Queued
    <2>2. CASE queue' = Push("B", job[w].run)
      BY <1>0, <2>2, PushOnce DEF OneToken
    <2> QED BY <2>1, <2>2 DEF SaveAnswer, FinishJob, CloseDispatch, Handoff, Finalize, Process,
                   JobRaises, KillWorker
  <1>4. \A a \in Actors : Pushes(a, r)' <=> Pushes(a, r)
    BY <1>1 DEF Pushes, actorVars
  <1>5. Working(r)' => Working(r)
    <2>1. ASSUME NEW v \in Workers, wpc'[v] \in {"dispatch", "handoff"}, job'[v].run = r
          PROVE  wpc[v] \in {"dispatch", "handoff"} /\ job[v].run = r
      BY <1>1, <2>1
    <2> QED BY <1>3, <1>4, <2>1 DEF Working
  <1>6. Closing(r) => Closing(r)'
    <2>1. ASSUME NEW v \in Workers, wpc[v] \in {"finalize", "process"}, job[v].run = r
          PROVE  wpc'[v] \in {"finalize", "process"} /\ job'[v].run = r
      BY <1>1, <2>1
    <2> QED BY <2>1 DEF Closing
  <1> QED BY <1>2, <1>5, <1>6

\* The finalizing worker has the run to itself, and sends a finished run with
\* answers that count through the processing pass before it lets go.
LEMMA OutcomeFinalizes ==
  ASSUME TypeInv, "unacked" \notin EnqueueResults, NEW w \in Workers, NEW st \in Ended,
         Finalize(w, st), NEW r \in Runs, r = job[w].run, OneToken(r)
  PROVE  Outcome(r)'
  <1>0. TypeOK /\ wpc[w] = "finalize" /\ Holds(w, r)
    BY DEF TypeInv, Finalize, Holds, Busy
  <1>1. \A v \in Workers : wpc[v] \in {"dispatch", "handoff"} => job[v].run # r
    BY <1>0 DEF OneToken, Holds, Busy
  <1>2. /\ UNCHANGED <<actorVars, queue, completed, derived>>
        /\ \A v \in Workers \ {w} : wpc'[v] = wpc[v] /\ job'[v] = job[v]
        /\ wpc'[w] \in {"finalize", "process", "idle"}
        /\ completed[r] => wpc'[w] = "process" /\ job'[w] = job[w]
    BY <1>0 DEF Finalize, AfterFinalize, FreeWorker, workerVars, TypeOK
  <1>3. ~Working(r)'
    <2>1. \A a \in Actors : ~Pushes(a, r)'
      BY <1>0, <1>2 DEF OneToken, Pushes, actorVars
    <2>2. ~Queued(r)'
      BY <1>0, <1>2 DEF OneToken, Queued
    <2>3. \A v \in Workers : wpc'[v] \in {"dispatch", "handoff"} => job'[v].run # r
      BY <1>1, <1>2
    <2> QED BY <2>1, <2>2, <2>3 DEF Working
  <1>4. completed'[r] => Closing(r)'
    BY <1>2 DEF Closing
  <1> QED BY <1>3, <1>4 DEF Outcome

LEMMA OutcomeWorks ==
  ASSUME TypeInv, "unacked" \notin EnqueueResults, NEW w \in Workers,
         SaveAnswer(w) \/ FinishJob(w) \/ JobRaises(w) \/ KillWorker(w),
         NEW r \in Runs, OneToken(r), Outcome(r)
  PROVE  Outcome(r)'
  <1>0. TypeOK
    BY DEF TypeInv
  <1>1. CASE r # job[w].run
    BY <1>1, OutcomeBystander, OutcomeKept
  <1>2. CASE r = job[w].run
    <2>1. ASSUME wpc[w] \in {"dispatch", "handoff"},
                 status' = status \/ status' = [status EXCEPT ![r] = "failed"]
          PROVE  Outcome(r)'
      <3>1. Unfinished(r)
        BY <1>2, <2>1 DEF Outcome, Working
      <3>2. Unfinished(r)'
        BY <1>0, <2>1, <3>1 DEF Unfinished, TypeOK
      <3> QED BY <3>2, OutcomeUnfinished
    <2>2. CASE SaveAnswer(w) \/ CloseDispatch(w) \/ (\E e \in EnqueueResults : Handoff(w, e))
               \/ JobRaises(w)
      <3>1. /\ wpc[w] \in {"dispatch", "handoff"}
            /\ status' = status \/ status' = [status EXCEPT ![r] = "failed"]
        BY <1>2, <2>2 DEF SaveAnswer, CloseDispatch, Handoff, JobRaises, rowVars
      <3> QED BY <2>1, <3>1
    <2>3. ASSUME NEW st \in Ended, Finalize(w, st) PROVE Outcome(r)'
      BY <1>2, <2>3, OutcomeFinalizes
    <2>4. ASSUME NEW d \in {"done", "error"}, Process(w, d) PROVE Outcome(r)'
      <3>1. /\ UNCHANGED <<status, actorVars, queue>> /\ derived'[r] # "none"
            /\ wpc[w] = "process"
        BY <1>0, <1>2, <2>4 DEF Process, TypeOK
      <3>2. /\ \A v \in Workers \ {w} : wpc'[v] = wpc[v] /\ job'[v] = job[v]
            /\ wpc'[w] \in {"finalize", "idle"}
        BY <1>0, <2>4 DEF Process, AfterFinalize, FreeWorker, TypeOK
      <3>3. Working(r)' => Working(r)
        BY <3>1, <3>2 DEF Working, Pushes, Queued, actorVars
      <3> QED BY <3>1, <3>3 DEF Outcome, Unfinished
    <2>5. CASE KillWorker(w)
      <3>1. UNCHANGED <<status, actorVars, queue>> /\ kills' # 0
        BY <1>0, <2>5 DEF KillWorker, rowVars, TypeOK
      <3>2. /\ \A v \in Workers \ {w} : wpc'[v] = wpc[v] /\ job'[v] = job[v]
            /\ wpc'[w] = "idle"
        BY <1>0, <2>5 DEF KillWorker, FreeWorker, TypeOK
      <3>3. Working(r)' => Working(r)
        BY <3>1, <3>2 DEF Working, Pushes, Queued, actorVars
      <3> QED BY <3>1, <3>3 DEF Outcome, Unfinished
    <2> QED BY <2>2, <2>3, <2>4, <2>5 DEF FinishJob
  <1> QED BY <1>1, <1>2

LEMMA OutcomeInit == Init => OutcomeInv
  BY DEF Init, OutcomeInv, Outcome, Working, Pushes, Queued, Unfinished

LEMMA OutcomeStep ==
  ASSUME LifeInv, OutcomeInv, "unacked" \notin EnqueueResults, [Next]_vars
  PROVE  OutcomeInv'
  <1> SUFFICES ASSUME NEW r \in Runs, resumes'[r] = 0 PROVE Outcome(r)'
    BY DEF OutcomeInv
  <1>1. TypeInv /\ OneToken(r) /\ Outcome(r)
    BY FirstLife DEF LifeInv, TokenInv, OutcomeInv
  <1>2. CASE \E a \in Actors :
               Trigger(a) \/ Resume(a) \/ Enqueue(a) \/ Reap(a) \/ KillActor(a)
    BY <1>1, <1>2, OutcomeActors
  <1>3. CASE \E w \in Workers : StartJob(w)
    BY <1>1, <1>3, OutcomeStarts
  <1>4. CASE \E w \in Workers :
               SaveAnswer(w) \/ FinishJob(w) \/ JobRaises(w) \/ KillWorker(w)
    BY <1>1, <1>4, OutcomeWorks
  <1>5. CASE Time \/ UNCHANGED vars
    <2>1. UNCHANGED <<pc, target, wpc, job, queue, status, completed, derived, kills>>
      BY <1>5 DEF Time, HeartbeatLapses, GraceEnds, TtlPasses, vars, rowVars, actorVars,
         workerVars
    <2> QED BY <1>1, <2>1, OutcomeKept DEF Working, Closing, Pushes, Queued
  <1> QED BY <1>2, <1>3, <1>4, <1>5 DEF Next, Crash

\* With every enqueue accepted or refused for good: a run never resumed nor
\* killed that is shown as finished has its answers processed, for any number
\* of runs and processes, whatever reapers, other resumes and failed
\* hand-overs do.
THEOREM FirstLifeDerived ==
  ASSUME "unacked" \notin EnqueueResults
  PROVE  Spec => []FirstLifeProcessed
  <1>1. LifeInv /\ OutcomeInv => FirstLifeProcessed
    <2> SUFFICES ASSUME LifeInv, OutcomeInv, NEW r \in Runs, kills = 0, resumes[r] = 0,
                        status[r] \in {"complete", "capped"}, completed[r],
                        derived[r] = "none"
                 PROVE  r \in RunsWithLiveJobs
      BY DEF FirstLifeProcessed
    <2>1. PICK w \in Workers : wpc[w] \in {"finalize", "process"} /\ job[w].run = r
      BY DEF OutcomeInv, Outcome, Unfinished, Closing
    <2>2. job[w] \in Executing
      BY <2>1 DEF Executing
    <2> QED BY <2>1, <2>2 DEF RunsWithLiveJobs, JobsAlive
  <1>2. LifeInv /\ OutcomeInv /\ [Next]_vars => (LifeInv /\ OutcomeInv)'
    BY LifeStep, OutcomeStep
  <1> QED BY LifeInit, OutcomeInit, <1>1, <1>2, PTL DEF Spec

-----------------------------------------------------------------------------
(* A run resumed once. Its second life shares the queues with what its first  *)
(* one left behind, so it has no single token: a job may wait twice. What      *)
(* keeps two workers apart is the status guard, one process per queue, and     *)
(* that nothing of a failed first life still scrapes or dispatches.            *)

\* One process drains a queue, as in infra/docker-compose.yml (a worker per
\* queue) and render.yaml (one worker for both).
OneWorkerPerQueue == \A v, w \in Workers : v # w => Serves[v] \cap Serves[w] = {}

\* Mode A jobs are jobs of runs with a Mode A half, in the default queue.
Fits(j) == j.mode = "A" => "A" \in modes[j.run]

Places ==
  /\ \A q \in QueueNames : \A i \in 1..Len(queue[q]) :
       QueueOf(queue[q][i].mode) = q /\ Fits(queue[q][i])
  /\ \A w \in Workers : wpc[w] # "idle" => QueueOf(job[w].mode) \in Serves[w] /\ Fits(job[w])
  /\ \A w \in Workers : wpc[w] = "handoff" => job[w].mode = "A"
  /\ \A w \in Workers : again[w] => wpc[w] # "idle" /\ job[w].mode = "A"
  /\ \A r \in Runs : ~expired[r]

Does(w, m, r) == wpc[w] # "idle" /\ job[w].run = r /\ job[w].mode = m

Active(w, r) == wpc[w] \in {"dispatch", "handoff"} /\ job[w].run = r

\* The run's Mode B job waits or is executed.
Scraped(r) ==
  \/ \E i \in 1..Len(queue["scrape"]) : queue["scrape"][i].run = r
  \/ \E w \in Workers : Does(w, "B", r)

Calm(r) == ~Scraped(r) /\ \A w \in Workers : ~Active(w, r)

\* Mode A and Mode B of a run never meet, and a run that waits for its Mode A
\* job has nothing else under way.
Apart(r) ==
  /\ \A w \in Workers : Does(w, "A", r) => ~Scraped(r)
  /\ "A" \in modes[r] /\ status[r] = "pending" => Calm(r)

Resumer(r) == \E a \in Actors : pc[a] = "resuming" /\ target[a] = r

\* A first life that failed is over for good before anyone resumes it.
Rested(r) ==
  "A" \in modes[r] /\ (status[r] = "failed" \/ Resumer(r)) => Calm(r) /\ status[r] # "pending"

Held(r) ==
  \/ \E a \in Actors : Pushes(a, r)
  \/ Queued(r)
  \/ \E w \in Workers : wpc[w] # "idle" /\ job[w].run = r

\* An enqueue that failed left no job behind.
Failing(a, r) == pc[a] = "failing" /\ target[a] = r

Refused(r) == \A a \in Actors : Failing(a, r) => ~Held(r)

\* While answers come in the run is not shown as finished, and once it is they
\* were processed or are about to be.
Settled(r) ==
  /\ \A w \in Workers : Active(w, r) => Unfinished(r)
  /\ kills = 0 /\ ~Unfinished(r) /\ completed[r] => Closing(r) \/ derived[r] # "none"

SecondInv ==
  /\ Places
  /\ \A r \in Runs : resumes[r] < 2 => Apart(r) /\ Settled(r)
  /\ \A r \in Runs : resumes[r] = 0 => Rested(r) /\ Refused(r)

\* What the theorems of this section assume of the deployment.
Orderly == "unacked" \notin EnqueueResults /\ ~TtlReachable /\ OneWorkerPerQueue

\* resumes changes only where a resume commits.
LEMMA ResumesStep ==
  ASSUME TypeInv, [Next]_vars, NEW r \in Runs
  PROVE  \/ resumes'[r] = resumes[r]
         \/ /\ \E a \in Actors, b \in BOOLEAN : ResumeCommits(a, b) /\ target[a] = r
            /\ resumes'[r] = resumes[r] + 1
  <1>0. TypeOK /\ TargetsKnown
    BY DEF TypeInv
  <1>1. ASSUME NEW a \in Actors, NEW b \in BOOLEAN, ResumeCommits(a, b)
        PROVE  \/ resumes'[r] = resumes[r]
               \/ target[a] = r /\ resumes'[r] = resumes[r] + 1
    <2>1. resumes' = [resumes EXCEPT ![target[a]] = @ + 1]
      BY <1>1 DEF ResumeCommits
    <2> QED BY <1>0, <2>1 DEF TypeOK
  <1>2. UNCHANGED resumes \/ \E a \in Actors, b \in BOOLEAN : ResumeCommits(a, b)
    <2>1. ASSUME NEW a \in Actors, Trigger(a) \/ Enqueue(a) \/ Reap(a) PROVE UNCHANGED resumes
      BY <2>1 DEF Trigger, TriggerBegin, TriggerRefused, TriggerCreates, Enqueue, EnqueueFirst,
         EnqueueFailed, Reap, ReapBegin, ReapNothing, ReapCommits, rowVars, vars
    <2>2. ASSUME NEW a \in Actors, Resume(a)
          PROVE  UNCHANGED resumes \/ \E b \in BOOLEAN : ResumeCommits(a, b)
      BY <2>2 DEF Resume, ResumeBegin, ResumeRefused, rowVars
    <2>3. ASSUME NEW w \in Workers, StartJob(w) \/ SaveAnswer(w) \/ FinishJob(w) \/ JobRaises(w)
          PROVE  UNCHANGED resumes
      BY <2>3 DEF StartJob, StartA, StartAUnconfigured, StartB, SkipJob, SaveAnswer,
         FinishJob, CloseDispatch, Handoff, Finalize, Process, JobRaises, rowVars
    <2>4. CASE Crash \/ Time \/ UNCHANGED vars
      BY <2>4 DEF Crash, KillWorker, KillActor, Time, HeartbeatLapses, GraceEnds, TtlPasses,
         rowVars, vars
    <2> QED BY <2>1, <2>2, <2>3, <2>4 DEF Next
  <1> QED BY <1>1, <1>2

\* The positions of a queue after an enqueue and after a dequeue.
LEMMA Pushed ==
  ASSUME TypeOK, NEW m \in Modes, NEW r0 \in Runs, queue' = Push(m, r0),
         NEW q \in QueueNames, NEW i \in 1..Len(queue'[q])
  PROVE  \/ i \in 1..Len(queue[q]) /\ queue'[q][i] = queue[q][i]
         \/ q = QueueOf(m) /\ queue'[q][i] = Job(m, r0)
  <1>1. QueueOf(m) \in QueueNames /\ Job(m, r0) \in Jobs
    BY DEF QueueOf, Job, Jobs
  <1>2. queue[q] \in Seq(Jobs)
    BY DEF TypeOK
  <1>3. CASE q = QueueOf(m)
    <2>1. queue'[q] = Append(queue[q], Job(m, r0))
      BY <1>1, <1>3 DEF Push, TypeOK
    <2> QED BY <1>1, <1>2, <1>3, <2>1
  <1>4. CASE q # QueueOf(m)
    <2>1. queue'[q] = queue[q]
      BY <1>1, <1>4 DEF Push, TypeOK
    <2> QED BY <2>1
  <1> QED BY <1>3, <1>4

LEMMA Taken ==
  ASSUME TypeOK, NEW w \in Workers, NEW x \in QueueNames, CanTake(w, x), Take(x)
  PROVE  /\ 1 \in 1..Len(queue[x]) /\ Head(queue[x]) = queue[x][1] /\ queue[x][1] \in Jobs
         /\ \A q \in QueueNames : \A i \in 1..Len(queue'[q]) :
              \E k \in 1..Len(queue[q]) : queue'[q][i] = queue[q][k]
  <1>1. queue[x] \in Seq(Jobs) /\ queue[x] # <<>>
    BY DEF TypeOK, CanTake
  <1>2. 1 \in 1..Len(queue[x]) /\ Head(queue[x]) = queue[x][1] /\ queue[x][1] \in Jobs
    BY <1>1
  <1>3. ASSUME NEW q \in QueueNames, NEW i \in 1..Len(queue'[q])
        PROVE  \E k \in 1..Len(queue[q]) : queue'[q][i] = queue[q][k]
    <2>1. CASE q = x
      <3>1. queue'[q] = Tail(queue[x])
        BY <2>1 DEF Take, TypeOK
      <3>2. i + 1 \in 1..Len(queue[x]) /\ queue'[q][i] = queue[x][i + 1]
        BY <1>1, <3>1
      <3> QED BY <2>1, <3>2
    <2>2. CASE q # x
      BY <2>2 DEF Take, TypeOK
    <2> QED BY <2>1, <2>2
  <1> QED BY <1>2, <1>3

\* Steps that leave the queues and the workers alone: born runs keep their modes.
LEMMA PlacesKept ==
  ASSUME Places, BornInv, TypeInv, UNCHANGED <<queue, wpc, job, again, expired>>,
         \A r \in Runs : Born(r) => modes'[r] = modes[r]
  PROVE  Places'
  <1>1. \A q \in QueueNames : \A i \in 1..Len(queue[q]) : queue[q][i] \in Jobs
    BY DEF TypeInv, TypeOK
  <1>2. \A w \in Workers : wpc[w] # "idle" => job[w] \in Jobs
    BY DEF TypeInv, JobsHeld
  <1>3. ASSUME NEW q \in QueueNames, NEW i \in 1..Len(queue[q])
        PROVE  QueueOf(queue[q][i].mode) = q /\ (Fits(queue[q][i]))'
    BY <1>1 DEF Places, BornInv, Fits, Jobs
  <1>4. ASSUME NEW w \in Workers, wpc[w] # "idle"
        PROVE  QueueOf(job[w].mode) \in Serves[w] /\ (Fits(job[w]))'
    BY <1>2, <1>4 DEF Places, BornInv, Fits, Jobs
  <1> QED BY <1>3, <1>4 DEF Places

LEMMA PlacesActors ==
  ASSUME TypeInv, BornInv, Places, NEW a \in Actors,
         Trigger(a) \/ Resume(a) \/ Enqueue(a) \/ Reap(a) \/ KillActor(a)
  PROVE  Places'
  <1>0. TypeOK
    BY DEF TypeInv
  <1>1. CASE \E b \in BOOLEAN : \E st, ms : TriggerCreates(a, b, st, ms)
    <2>1. PICK b \in BOOLEAN : \E st, ms : TriggerCreates(a, b, st, ms)
      BY <1>1
    <2>2. PICK ms : modes' = [modes EXCEPT ![target[a]] = ms]
      BY <2>1 DEF TriggerCreates
    <2>3. target[a] \in Runs /\ ~Born(target[a]) /\ UNCHANGED <<queue, wpc, job, again, expired>>
      BY <2>1 DEF TypeInv, TargetsKnown, BornInv, TriggerCreates, workerVars
    <2>4. \A r \in Runs : Born(r) => modes'[r] = modes[r]
      BY <1>0, <2>2, <2>3 DEF TypeOK
    <2> QED BY <2>3, <2>4, PlacesKept
  <1>2. ASSUME NEW e \in EnqueueResults, EnqueueFirst(a, e), queue' # queue PROVE Places'
    <2> DEFINE m == FirstMode(target[a])
    <2>1. /\ target[a] \in Runs /\ m \in Modes /\ (m = "A" => "A" \in modes[target[a]])
          /\ queue' = Push(m, target[a]) /\ UNCHANGED <<modes, wpc, job, again, expired>>
      BY <1>2 DEF TypeInv, TargetsKnown, EnqueueFirst, FirstMode, rowVars, workerVars
    <2>2. /\ Job(m, target[a]).mode = m /\ Job(m, target[a]).run = target[a]
      BY DEF Job
    <2> HIDE DEF m
    <2>3. ASSUME NEW q \in QueueNames, NEW i \in 1..Len(queue'[q])
          PROVE  QueueOf(queue'[q][i].mode) = q /\ (Fits(queue'[q][i]))
      <3>1. CASE i \in 1..Len(queue[q]) /\ queue'[q][i] = queue[q][i]
        BY <3>1 DEF Places
      <3>2. CASE q = QueueOf(m) /\ queue'[q][i] = Job(m, target[a])
        BY <2>1, <2>2, <3>2 DEF Fits
      <3> QED BY <1>0, <2>1, <3>1, <3>2, Pushed
    <2> QED BY <2>1, <2>3 DEF Places, Fits
  <1>3. CASE UNCHANGED <<queue, wpc, job, again, expired, modes>>
    BY <1>3, PlacesKept
  <1>4. ASSUME NEW e \in EnqueueResults, EnqueueFirst(a, e), queue' = queue PROVE Places'
    BY <1>3, <1>4 DEF EnqueueFirst, rowVars, workerVars
  <1>5. CASE Trigger(a)
    BY <1>1, <1>3, <1>5 DEF Trigger, TriggerBegin, TriggerRefused, rowVars, workerVars
  <1>6. CASE Resume(a) \/ EnqueueFailed(a) \/ Reap(a) \/ KillActor(a)
    BY <1>3, <1>6 DEF Resume, ResumeBegin, ResumeRefused, ResumeCommits, EnqueueFailed, Reap,
       ReapBegin, ReapNothing, ReapCommits, KillActor, rowVars, workerVars, vars
  <1> QED BY <1>2, <1>4, <1>5, <1>6 DEF Enqueue

LEMMA PlacesStarts ==
  ASSUME TypeInv, Places, NEW w \in Workers, StartJob(w)
  PROVE  Places'
  <1>0. TypeOK
    BY DEF TypeInv
  <1>1. ASSUME NEW q \in QueueNames, CanTake(w, q), Take(q), UNCHANGED <<modes, again>>,
               \A v \in Workers \ {w} : wpc'[v] = wpc[v] /\ job'[v] = job[v],
               \/ wpc'[w] = "idle"
               \/ /\ wpc'[w] = "dispatch" \/ (wpc'[w] = "handoff" /\ q = "default")
                  /\ job'[w] = Head(queue[q]),
               \A r \in Runs : ~expired'[r]
        PROVE  Places'
    <2>1. /\ 1 \in 1..Len(queue[q]) /\ Head(queue[q]) = queue[q][1]
          /\ \A x \in QueueNames : \A i \in 1..Len(queue'[x]) :
               \E k \in 1..Len(queue[x]) : queue'[x][i] = queue[x][k]
      BY <1>0, <1>1, Taken
    <2>2. /\ QueueOf(Head(queue[q]).mode) = q /\ Fits(Head(queue[q])) /\ q \in Serves[w]
          /\ wpc[w] = "idle"
      BY <1>1, <2>1 DEF Places, CanTake
    <2>3. ASSUME NEW x \in QueueNames, NEW i \in 1..Len(queue'[x])
          PROVE  QueueOf(queue'[x][i].mode) = x /\ Fits(queue'[x][i])
      <3>1. PICK k \in 1..Len(queue[x]) : queue'[x][i] = queue[x][k]
        BY <2>1
      <3> QED BY <3>1 DEF Places
    <2>4. ASSUME NEW v \in Workers, wpc'[v] # "idle"
          PROVE  QueueOf(job'[v].mode) \in Serves[v] /\ Fits(job'[v])
      BY <1>1, <2>2, <2>4 DEF Places
    <2>5. ASSUME NEW v \in Workers, wpc'[v] = "handoff" PROVE job'[v].mode = "A"
      BY <1>1, <2>2, <2>5 DEF Places, QueueOf
    <2>6. ASSUME NEW v \in Workers, again'[v] PROVE wpc'[v] # "idle" /\ job'[v].mode = "A"
      BY <1>1, <2>2, <2>6 DEF Places
    <2>7. (\A j : Fits(j)' <=> Fits(j))
      BY <1>1 DEF Fits
    <2> QED BY <1>1, <2>3, <2>4, <2>5, <2>6 DEF Places, Fits
  <1>2. CASE StartA(w) \/ StartAUnconfigured(w)
    <2> DEFINE j == Head(queue["default"])
    <2>1. /\ CanTake(w, "default") /\ Take("default") /\ UNCHANGED <<modes, again>>
          /\ expired' = [expired EXCEPT ![j.run] = FALSE]
          /\ \E x \in {"idle", "dispatch", "handoff"} : wpc' = [wpc EXCEPT ![w] = x]
          /\ \E y : job' = [job EXCEPT ![w] = y]
          /\ wpc'[w] = "idle" \/ job'[w] = j
      BY <1>0, <1>2 DEF StartA, StartAUnconfigured, TypeOK
    <2>2. \A v \in Workers \ {w} : wpc'[v] = wpc[v] /\ job'[v] = job[v]
      BY <1>0, <2>1 DEF TypeOK
    <2>3. \A r \in Runs : ~expired'[r]
      BY <1>0, <2>1 DEF Places, TypeOK
    <2>4. wpc'[w] \in {"idle", "dispatch", "handoff"}
      BY <1>0, <2>1 DEF TypeOK
    <2> QED BY <1>1, <2>1, <2>2, <2>3, <2>4
  <1>3. CASE StartB(w)
    <2> DEFINE j == Head(queue["scrape"])
    <2>1. /\ CanTake(w, "scrape") /\ Take("scrape") /\ UNCHANGED <<modes, again>>
          /\ expired' = expired \/ expired' = [expired EXCEPT ![j.run] = FALSE]
          /\ wpc' = [wpc EXCEPT ![w] = "dispatch"] /\ job' = [job EXCEPT ![w] = j]
      BY <1>3 DEF StartB
    <2>2. /\ \A v \in Workers \ {w} : wpc'[v] = wpc[v] /\ job'[v] = job[v]
          /\ wpc'[w] = "dispatch" /\ job'[w] = j
      BY <1>0, <2>1 DEF TypeOK
    <2>3. \A r \in Runs : ~expired'[r]
      <3>1. CASE expired' = expired
        BY <3>1 DEF Places
      <3>2. CASE expired' = [expired EXCEPT ![j.run] = FALSE]
        BY <1>0, <3>2 DEF Places, TypeOK
      <3> QED BY <2>1, <3>1, <3>2
    <2> QED BY <1>1, <2>1, <2>2, <2>3
  <1>4. ASSUME NEW q \in QueueNames, SkipJob(w, q) PROVE Places'
    <2>1. /\ CanTake(w, q) /\ Take(q) /\ wpc[w] = "idle"
          /\ UNCHANGED <<modes, again, wpc, job, expired>>
      BY <1>4 DEF SkipJob, CanTake, rowVars, workerVars
    <2> QED BY <1>1, <2>1 DEF Places
  <1> QED BY <1>2, <1>3, <1>4 DEF StartJob

LEMMA PlacesWorks ==
  ASSUME TypeInv, Places, NEW w \in Workers,
         SaveAnswer(w) \/ FinishJob(w) \/ JobRaises(w) \/ KillWorker(w)
  PROVE  Places'
  <1>0. /\ TypeOK /\ job[w] \in Jobs /\ job[w].run \in Runs /\ wpc[w] # "idle"
    BY DEF TypeInv, JobsHeld, Jobs, SaveAnswer, FinishJob, CloseDispatch, Handoff, Finalize,
       Process, JobRaises, KillWorker
  <1>1. UNCHANGED <<modes, expired>>
    BY DEF SaveAnswer, FinishJob, CloseDispatch, Handoff, Finalize, Process, JobRaises,
       KillWorker, rowVars
  <1>2. /\ \A v \in Workers \ {w} : wpc'[v] = wpc[v] /\ job'[v] = job[v] /\ again'[v] = again[v]
        /\ (wpc'[w] = "idle" /\ ~again'[w]) \/ (wpc'[w] # "idle" /\ job'[w] = job[w])
    <2>1. CASE UNCHANGED <<wpc, job, again>>
      BY <1>0, <2>1
    <2>2. CASE FreeWorker(w)
      BY <1>0, <2>2 DEF FreeWorker, TypeOK
    <2>3. ASSUME NEW x \in {"handoff", "finalize", "process"}, NEW y,
                 wpc' = [wpc EXCEPT ![w] = x], job' = job, again' = [again EXCEPT ![w] = y]
          PROVE  <1>2!1 /\ wpc'[w] # "idle" /\ job'[w] = job[w]
      BY <1>0, <2>3 DEF TypeOK
    <2>4. ASSUME NEW x \in {"finalize", "process"},
                 wpc' = [wpc EXCEPT ![w] = x], UNCHANGED <<job, again>>
          PROVE  <1>2!1 /\ wpc'[w] # "idle" /\ job'[w] = job[w]
      BY <1>0, <2>4 DEF TypeOK
    <2>5. CASE SaveAnswer(w)
      BY <2>1, <2>5 DEF SaveAnswer, workerVars
    <2>6. CASE CloseDispatch(w)
      BY <2>3, <2>6 DEF CloseDispatch
    <2>7. ASSUME NEW e \in EnqueueResults, Handoff(w, e) PROVE <1>2
      BY <2>2, <2>4, <2>7 DEF Handoff
    <2>8. ASSUME AfterFinalize(w) PROVE <1>2
      BY <2>2, <2>3, <2>8 DEF AfterFinalize
    <2>9. ASSUME NEW st \in Ended, Finalize(w, st) PROVE <1>2
      BY <2>4, <2>8, <2>9 DEF Finalize
    <2>10. ASSUME NEW d \in {"done", "error"}, Process(w, d) PROVE <1>2
      BY <2>8, <2>10 DEF Process
    <2>11. CASE JobRaises(w)
      BY <2>2, <2>4, <2>11 DEF JobRaises
    <2>12. CASE KillWorker(w)
      BY <2>2, <2>12 DEF KillWorker
    <2> QED BY <2>5, <2>6, <2>7, <2>9, <2>10, <2>11, <2>12 DEF FinishJob
  <1>3. /\ wpc'[w] = "handoff" => job'[w].mode = "A"
        /\ again'[w] => wpc'[w] # "idle" /\ job'[w].mode = "A"
    <2>1. CASE CloseDispatch(w)
      <3>1. /\ again' = [again EXCEPT ![w] = job[w].mode = "A" /\ "B" \in modes[job[w].run]]
            /\ wpc' = [wpc EXCEPT ![w] = IF job[w].mode = "A" /\ "B" \in modes[job[w].run]
                                          THEN "handoff" ELSE "finalize"]
            /\ job' = job
        BY <2>1 DEF CloseDispatch
      <3>2. again'[w] => job[w].mode = "A"
        BY <1>0, <3>1, Zenon DEF TypeOK
      <3>3. wpc'[w] # "idle" /\ (wpc'[w] = "handoff" => job[w].mode = "A")
        BY <1>0, <3>1 DEF TypeOK
      <3> QED BY <3>1, <3>2, <3>3
    <2>2. CASE SaveAnswer(w) \/ FinishJob(w) \/ JobRaises(w) \/ KillWorker(w)
      <3>1. ASSUME ~CloseDispatch(w)
            PROVE  (wpc'[w] = "handoff" => wpc[w] = "handoff") /\ (again'[w] => again[w])
        BY <1>0, <2>2, <3>1, WorkerMoves DEF WorkerMoved
      <3> QED BY <1>2, <2>1, <3>1 DEF Places
    <2> QED BY <2>2
  <1>4. ASSUME NEW q \in QueueNames, NEW i \in 1..Len(queue'[q])
        PROVE  QueueOf(queue'[q][i].mode) = q /\ Fits(queue'[q][i])
    <2>1. CASE queue' = queue
      BY <2>1 DEF Places
    <2>2. CASE queue' = Push("B", job[w].run)
      <3>1. CASE i \in 1..Len(queue[q]) /\ queue'[q][i] = queue[q][i]
        BY <3>1 DEF Places
      <3>2. CASE q = QueueOf("B") /\ queue'[q][i] = Job("B", job[w].run)
        BY <3>2 DEF Fits, Job
      <3> QED BY <1>0, <2>2, <3>1, <3>2, Pushed
    <2> QED BY <2>1, <2>2 DEF SaveAnswer, FinishJob, CloseDispatch, Handoff, Finalize, Process,
                   JobRaises, KillWorker
  <1>5. ASSUME NEW v \in Workers, wpc'[v] # "idle"
        PROVE  QueueOf(job'[v].mode) \in Serves[v] /\ Fits(job'[v])
    BY <1>0, <1>2, <1>5 DEF Places
  <1>6. ASSUME NEW v \in Workers
        PROVE  /\ wpc'[v] = "handoff" => job'[v].mode = "A"
               /\ again'[v] => wpc'[v] # "idle" /\ job'[v].mode = "A"
    BY <1>2, <1>3 DEF Places
  <1> QED BY <1>1, <1>4, <1>5, <1>6 DEF Places, Fits

LEMMA PlacesStep ==
  ASSUME TypeInv, BornInv, Places, ~TtlReachable, [Next]_vars
  PROVE  Places'
  <1>1. CASE Time \/ UNCHANGED vars
    <2>1. UNCHANGED <<queue, wpc, job, again, expired, modes>>
      BY <1>1 DEF Time, HeartbeatLapses, GraceEnds, TtlPasses, rowVars, actorVars, workerVars, vars
    <2> QED BY <2>1, PlacesKept
  <1> QED BY <1>1, PlacesActors, PlacesStarts, PlacesWorks DEF Next, Crash

\* What a step leaves of a run's jobs.
Lessens(r) ==
  /\ Scraped(r)' => Scraped(r)
  /\ \A w \in Workers : Does(w, "A", r)' => Does(w, "A", r)
  /\ \A w \in Workers : Active(w, r)' => Active(w, r)

LEMMA ApartKept ==
  ASSUME NEW r \in Runs, Apart(r), Lessens(r), modes'[r] = modes[r],
         status'[r] # status[r] => status'[r] # "pending"
  PROVE  Apart(r)'
  BY DEF Apart, Lessens, Calm

LEMMA RestedKept ==
  ASSUME NEW r \in Runs, Rested(r), Lessens(r), modes'[r] = modes[r],
         Resumer(r)' => Resumer(r) \/ status[r] = "failed",
         status'[r] = status[r] \/ (status'[r] # "pending" /\ (status'[r] = "failed" => Calm(r)))
  PROVE  Rested(r)'
  BY DEF Rested, Lessens, Calm

LEMMA RefusedKept ==
  ASSUME NEW r \in Runs, Refused(r), Held(r)' => Held(r),
         \A a \in Actors : Failing(a, r)' => Failing(a, r)
  PROVE  Refused(r)'
  BY DEF Refused

LEMMA SettledKept ==
  ASSUME NEW r \in Runs, Settled(r),
         \A w \in Workers : Active(w, r)' => Active(w, r),
         status'[r] = status[r], completed'[r] = completed[r], derived'[r] = derived[r],
         kills' = 0 => kills = 0 /\ (Closing(r) => Closing(r)')
  PROVE  Settled(r)'
  BY DEF Settled, Unfinished

LEMMA SettledUnfinished ==
  ASSUME NEW r \in Runs, Unfinished(r)'
  PROVE  Settled(r)'
  BY DEF Settled

\* Nothing of an unborn run is anywhere.
LEMMA UnbornCalm ==
  ASSUME TypeInv, BornInv, NEW r \in Runs, ~Born(r)
  PROVE  /\ Calm(r) /\ ~Resumer(r)
         /\ \A w \in Workers : ~Does(w, "A", r)
         /\ \A a \in Actors : ~Failing(a, r)
  <1>1. /\ \A i \in 1..Len(queue["scrape"]) : queue["scrape"][i].run # r
        /\ \A w \in Workers : wpc[w] # "idle" => job[w].run # r
    BY DEF BornInv
  <1>2. ~Resumer(r) /\ \A a \in Actors : ~Failing(a, r)
    BY DEF BornInv, Resumer, Failing
  <1> QED BY <1>1, <1>2 DEF Calm, Scraped, Does, Active

\* A run no one reports as alive to a reader of Redis has no job under way.
LEMMA DeadCalm ==
  ASSUME TypeInv, NEW r \in Runs, r \notin RunsWithLiveJobs
  PROVE  Calm(r)
  <1>1. \A i \in 1..Len(queue["scrape"]) : queue["scrape"][i].run # r
    <2> SUFFICES ASSUME NEW i \in 1..Len(queue["scrape"]), queue["scrape"][i].run = r PROVE FALSE
      OBVIOUS
    <2>1. queue["scrape"][i] \in Range(queue["scrape"])
      BY DEF Range, TypeInv, TypeOK
    <2>2. queue["scrape"][i] \in JobsAlive
      BY <2>1 DEF JobsAlive
    <2> QED BY <2>2 DEF RunsWithLiveJobs
  <1>2. \A w \in Workers : wpc[w] # "idle" => job[w].run # r
    <2> SUFFICES ASSUME NEW w \in Workers, wpc[w] # "idle", job[w].run = r PROVE FALSE
      OBVIOUS
    <2>1. job[w] \in Executing
      BY DEF Executing
    <2> QED BY <2>1 DEF RunsWithLiveJobs, JobsAlive
  <1> QED BY <1>1, <1>2 DEF Calm, Scraped, Does, Active

LEMMA ReapedCalm ==
  ASSUME TypeInv, Places, NEW a \in Actors, NEW b \in BOOLEAN, NEW r \in Runs
  PROVE  \/ MarkAbandoned(Abandoned(rows[a], b))[r] = status[r]
         \/ MarkAbandoned(Abandoned(rows[a], b))[r] = "failed" /\ Calm(r)
  <1>1. CASE r \in Abandoned(rows[a], b)
    <2>1. r \notin RunsWithLiveJobs
      BY <1>1 DEF Abandoned, IsAbandoned, Places
    <2> QED BY <1>1, <2>1, DeadCalm DEF MarkAbandoned
  <1>2. CASE r \notin Abandoned(rows[a], b)
    BY <1>2 DEF MarkAbandoned
  <1> QED BY <1>1, <1>2

\* The run's actors, after a step of one of them.
LEMMA ActorRoles ==
  ASSUME TypeInv, NEW a \in Actors, EndStep(a) \/ UNCHANGED <<pc, target>>, NEW r \in Runs
  PROVE  /\ Resumer(r)' => Resumer(r)
         /\ \A c \in Actors : Failing(c, r)' => Failing(c, r)
         /\ \A c \in Actors : Pushes(c, r)' => Pushes(c, r)
  <1>1. ASSUME NEW c \in Actors, pc'[c] # "idle" PROVE pc'[c] = pc[c] /\ target'[c] = target[c]
    BY <1>1 DEF EndStep, TypeInv, TypeOK
  <1> QED BY <1>1 DEF Resumer, Failing, Pushes

LEMMA ActorMoves ==
  ASSUME TypeInv, NEW a \in Actors, NEW x \in {"triggering", "reaping", "enqueueing"},
         pc' = [pc EXCEPT ![a] = x], \A c \in Actors : c # a => target'[c] = target[c],
         NEW r \in Runs, x = "enqueueing" => r # target'[a]
  PROVE  /\ Resumer(r)' => Resumer(r)
         /\ \A c \in Actors : Failing(c, r)' => Failing(c, r)
         /\ \A c \in Actors : Pushes(c, r)' => Pushes(c, r)
  <1>1. ASSUME NEW c \in Actors, c # a PROVE pc'[c] = pc[c] /\ target'[c] = target[c]
    BY <1>1 DEF TypeInv, TypeOK
  <1>2. pc'[a] = x
    BY DEF TypeInv, TypeOK
  <1> QED BY <1>1, <1>2 DEF Resumer, Failing, Pushes

LEMMA JobsSame ==
  ASSUME UNCHANGED <<queue, wpc, job>>, NEW r \in Runs
  PROVE  /\ Lessens(r) /\ (Closing(r) => Closing(r)') /\ (Queued(r)' => Queued(r))
         /\ (\A c \in Actors : Pushes(c, r)' => Pushes(c, r)) => (Held(r)' => Held(r))
  <1>1. Queued(r)' => Queued(r)
    BY DEF Queued
  <1>2. Scraped(r)' => Scraped(r)
    BY DEF Scraped, Does
  <1>3. \A w \in Workers : (Does(w, "A", r)' => Does(w, "A", r)) /\ (Active(w, r)' => Active(w, r))
    BY DEF Does, Active
  <1>4. Closing(r) => Closing(r)'
    BY DEF Closing
  <1>5. (\A c \in Actors : Pushes(c, r)' => Pushes(c, r)) => (Held(r)' => Held(r))
    BY <1>1 DEF Held
  <1> QED BY <1>1, <1>2, <1>3, <1>4, <1>5 DEF Lessens

\* What nobody holds has nothing under way.
LEMMA UnheldCalm ==
  ASSUME NEW r \in Runs, ~Held(r)
  PROVE  Calm(r)
  BY DEF Held, Queued, Calm, Scraped, Does, Active

\* What is kept of a run by a step that does not resume it.
SecondKept(r) ==
  /\ Apart(r) => Apart(r)'
  /\ Settled(r) => Settled(r)'
  /\ Refused(r) => Refused(r)'
  /\ Rested(r) /\ Refused(r) => Rested(r)'

\* Actors that neither create a run nor enqueue it nor commit a resume: they
\* may mark it failed, when nothing of it is left.
LEMMA SecondFrame ==
  ASSUME NEW r \in Runs, UNCHANGED <<queue, wpc, job>>, modes'[r] = modes[r],
         \/ status'[r] = status[r]
         \/ status'[r] = "failed" /\ (Refused(r) => Calm(r)),
         Resumer(r)' => Resumer(r) \/ status[r] = "failed",
         \A c \in Actors : Failing(c, r)' => Failing(c, r),
         \A c \in Actors : Pushes(c, r)' => Pushes(c, r),
         completed'[r] = completed[r], derived'[r] = derived[r], kills' = 0 => kills = 0
  PROVE  SecondKept(r)
  <1>1. Lessens(r) /\ (Closing(r) => Closing(r)') /\ (Held(r)' => Held(r))
    BY JobsSame
  <1>2. Apart(r) => Apart(r)'
    BY <1>1, ApartKept
  <1>3. Refused(r) => Refused(r)'
    BY <1>1, RefusedKept
  <1>4. Rested(r) /\ Refused(r) => Rested(r)'
    BY <1>1, RestedKept
  <1>5. Settled(r) => Settled(r)'
    <2>1. CASE status'[r] = status[r]
      BY <1>1, <2>1, SettledKept DEF Lessens
    <2>2. CASE status'[r] = "failed"
      BY <2>2, SettledUnfinished DEF Unfinished
    <2> QED BY <2>1, <2>2
  <1> QED BY <1>2, <1>3, <1>4, <1>5 DEF SecondKept

LEMMA SecondQuiet ==
  ASSUME TypeInv, Places, NEW a \in Actors, NEW r \in Runs,
         \/ \E x \in Runs : TriggerBegin(a, x) \/ ResumeBegin(a, x)
         \/ \E b \in BOOLEAN : TriggerRefused(a, b) \/ ResumeRefused(a, b) \/ ReapCommits(a, b)
         \/ EnqueueFailed(a) \/ ReapBegin(a) \/ ReapNothing(a) \/ KillActor(a)
  PROVE  SecondKept(r)
  <1>0. TypeOK
    BY DEF TypeInv
  <1>1. /\ UNCHANGED <<queue, wpc, job>> /\ UNCHANGED <<modes, completed, derived>>
        /\ kills' = 0 => kills = 0
    <2>1. UNCHANGED <<queue, wpc, job>> /\ UNCHANGED <<modes, completed, derived>>
      BY DEF TriggerBegin, ResumeBegin, TriggerRefused, ResumeRefused, ReapCommits,
         EnqueueFailed, ReapBegin, ReapNothing, KillActor, rowVars, workerVars, vars
    <2>2. ASSUME KillActor(a) PROVE kills' = 0 => kills = 0
      BY <1>0, <2>2 DEF KillActor, TypeOK
    <2>3. kills' = 0 => kills = 0
      BY <2>2 DEF TriggerBegin, ResumeBegin, TriggerRefused, ResumeRefused, ReapCommits,
         EnqueueFailed, ReapBegin, ReapNothing, vars
    <2> QED BY <2>1, <2>3
  <1>2. ASSUME NEW x \in Runs, TriggerBegin(a, x) PROVE SecondKept(r)
    <2>1. /\ status' = status /\ pc' = [pc EXCEPT ![a] = "triggering"]
          /\ \A c \in Actors : c # a => target'[c] = target[c]
      BY <1>0, <1>2 DEF TriggerBegin, rowVars, TypeOK
    <2>2. /\ Resumer(r)' => Resumer(r)
          /\ \A c \in Actors : (Failing(c, r)' => Failing(c, r)) /\ (Pushes(c, r)' => Pushes(c, r))
      BY <2>1, ActorMoves
    <2> QED BY <1>1, <2>1, <2>2, SecondFrame
  <1>3. ASSUME NEW x \in Runs, ResumeBegin(a, x) PROVE SecondKept(r)
    <2>1. /\ status' = status /\ status[x] = "failed" /\ pc' = [pc EXCEPT ![a] = "resuming"]
          /\ target' = [target EXCEPT ![a] = x]
      BY <1>3 DEF ResumeBegin, rowVars
    <2>2. \A c \in Actors : pc'[c] = (IF c = a THEN "resuming" ELSE pc[c])
                            /\ target'[c] = (IF c = a THEN x ELSE target[c])
      BY <1>0, <2>1 DEF TypeOK
    <2>3. Resumer(r)' => Resumer(r) \/ status[r] = "failed"
      BY <2>1, <2>2 DEF Resumer
    <2>4. \A c \in Actors : (Failing(c, r)' => Failing(c, r)) /\ (Pushes(c, r)' => Pushes(c, r))
      BY <2>2 DEF Failing, Pushes
    <2> QED BY <1>1, <2>1, <2>3, <2>4, SecondFrame
  <1>4. ASSUME NEW b \in BOOLEAN, TriggerRefused(a, b) \/ ResumeRefused(a, b) \/ ReapCommits(a, b)
        PROVE  SecondKept(r)
    <2>1. status' = MarkAbandoned(Abandoned(rows[a], b)) /\ EndStep(a)
      BY <1>4 DEF TriggerRefused, ResumeRefused, ReapCommits
    <2>3. status'[r] = status[r] \/ (status'[r] = "failed" /\ Calm(r))
      BY <2>1, ReapedCalm
    <2> QED BY <1>1, <2>1, <2>3, ActorRoles, SecondFrame
  <1>5. ASSUME EnqueueFailed(a) PROVE SecondKept(r)
    <2>1. /\ target[a] \in Runs /\ Failing(a, target[a]) /\ EndStep(a)
          /\ status' = [status EXCEPT ![target[a]] = "failed"]
      BY <1>5 DEF EnqueueFailed, Failing, TypeInv, TargetsKnown
    <2>2. CASE r = target[a]
      <3>1. Refused(r) => Calm(r)
        BY <2>1, <2>2, UnheldCalm DEF Refused
      <3>2. status'[r] = "failed"
        BY <1>0, <2>1, <2>2 DEF TypeOK
      <3> QED BY <1>1, <2>1, <3>1, <3>2, ActorRoles, SecondFrame
    <2>3. CASE r # target[a]
      <3>1. status'[r] = status[r]
        BY <1>0, <2>1, <2>3 DEF TypeOK
      <3> QED BY <1>1, <2>1, <3>1, ActorRoles, SecondFrame
    <2> QED BY <2>2, <2>3
  <1>6. ASSUME ReapBegin(a) PROVE SecondKept(r)
    <2>1. status' = status /\ pc' = [pc EXCEPT ![a] = "reaping"] /\ target' = target
      BY <1>6 DEF ReapBegin, rowVars
    <2> QED BY <1>1, <2>1, ActorMoves, SecondFrame
  <1>7. ASSUME ReapNothing(a) \/ KillActor(a) PROVE SecondKept(r)
    <2>1. status' = status /\ (EndStep(a) \/ UNCHANGED <<pc, target>>)
      BY <1>7 DEF ReapNothing, KillActor, rowVars, actorVars, vars
    <2> QED BY <1>1, <2>1, ActorRoles, SecondFrame
  <1> QED BY <1>2, <1>3, <1>4, <1>5, <1>6, <1>7

LEMMA SecondCreates ==
  ASSUME TypeInv, BornInv, Places, NEW a \in Actors, NEW b \in BOOLEAN,
         NEW st \in {"pending", "gated", "failed"}, NEW ms \in SUBSET Modes,
         TriggerCreates(a, b, st, ms), st = "failed" => ms = {}, NEW r \in Runs
  PROVE  SecondKept(r)
  <1>0. TypeOK /\ target[a] \in Runs /\ ~Born(target[a])
    BY DEF TypeInv, TargetsKnown, BornInv, TriggerCreates
  <1>1. /\ UNCHANGED <<queue, wpc, job>> /\ UNCHANGED <<completed, derived, kills>>
        /\ status' = [MarkAbandoned(Abandoned(rows[a], b)) EXCEPT ![target[a]] = st]
        /\ modes' = [modes EXCEPT ![target[a]] = ms]
        /\ \/ EndStep(a)
           \/ st = "pending" /\ pc' = [pc EXCEPT ![a] = "enqueueing"] /\ UNCHANGED target
    BY DEF TriggerCreates, workerVars
  <1>2. CASE r # target[a]
    <2>1. modes'[r] = modes[r]
      BY <1>0, <1>1, <1>2 DEF TypeOK
    <2>2. status'[r] = MarkAbandoned(Abandoned(rows[a], b))[r]
      BY <1>1, <1>2 DEF MarkAbandoned
    <2>4. status'[r] = status[r] \/ (status'[r] = "failed" /\ Calm(r))
      BY <2>2, ReapedCalm
    <2>5. /\ Resumer(r)' => Resumer(r)
          /\ \A c \in Actors : (Failing(c, r)' => Failing(c, r)) /\ (Pushes(c, r)' => Pushes(c, r))
      <3>1. CASE EndStep(a)
        BY <3>1, ActorRoles
      <3>2. CASE pc' = [pc EXCEPT ![a] = "enqueueing"] /\ UNCHANGED target
        BY <1>2, <3>2, ActorMoves
      <3> QED BY <1>1, <3>1, <3>2
    <2> QED BY <1>1, <2>1, <2>4, <2>5, SecondFrame
  <1>3. CASE r = target[a]
    <2>1. /\ Calm(r) /\ ~Resumer(r) /\ \A w \in Workers : ~Does(w, "A", r)
          /\ \A c \in Actors : ~Failing(c, r)
      BY <1>0, <1>3, UnbornCalm
    <2>2. status'[r] = st /\ modes'[r] = ms
      BY <1>0, <1>1, <1>3 DEF TypeOK, MarkAbandoned
    <2>3. Lessens(r)
      BY <1>1, JobsSame
    <2>4. Apart(r)'
      BY <2>1, <2>3 DEF Lessens, Apart, Calm
    <2>5. Settled(r)'
      BY <2>2, SettledUnfinished DEF Unfinished
    <2>6. \A c \in Actors :
            pc'[c] \in {"resuming", "failing"} => pc'[c] = pc[c] /\ target'[c] = target[c]
      BY <1>0, <1>1 DEF EndStep, TypeOK
    <2>7. Refused(r)' /\ ~Resumer(r)'
      BY <2>1, <2>6 DEF Refused, Failing, Resumer
    <2>8. Rested(r)'
      BY <2>2, <2>7 DEF Rested
    <2> QED BY <2>4, <2>5, <2>7, <2>8 DEF SecondKept
  <1> QED BY <1>2, <1>3

\* The commit of a resume. A first life that is resumed has nothing under way,
\* so the second one starts with its own job alone.
LEMMA SecondResumes ==
  ASSUME TypeInv, Places, NEW a \in Actors, NEW b \in BOOLEAN, ResumeCommits(a, b), NEW r \in Runs
  PROVE  /\ r # target[a] => SecondKept(r)
         /\ r = target[a] => Settled(r)' /\ (Rested(r) /\ Apart(r) => Apart(r)')
  <1>0. TypeOK /\ target[a] \in Runs /\ pc[a] = "resuming"
    BY DEF TypeInv, TargetsKnown, ResumeCommits
  <1>1. /\ UNCHANGED <<queue, wpc, job>> /\ UNCHANGED <<modes, completed, derived, kills>>
        /\ status' = [MarkAbandoned(Abandoned(rows[a], b)) EXCEPT ![target[a]] = "pending"]
        /\ pc' = [pc EXCEPT ![a] = "enqueueing"] /\ UNCHANGED target
    BY DEF ResumeCommits, workerVars
  <1>2. CASE r # target[a]
    <2>1. status'[r] = MarkAbandoned(Abandoned(rows[a], b))[r]
      BY <1>1, <1>2 DEF MarkAbandoned
    <2>2. status'[r] = status[r] \/ (status'[r] = "failed" /\ Calm(r))
      BY <2>1, ReapedCalm
    <2>3. /\ Resumer(r)' => Resumer(r)
          /\ \A c \in Actors : (Failing(c, r)' => Failing(c, r)) /\ (Pushes(c, r)' => Pushes(c, r))
      BY <1>1, <1>2, ActorMoves
    <2> QED BY <1>1, <1>2, <2>2, <2>3, SecondFrame
  <1>3. CASE r = target[a]
    <2>1. status'[r] = "pending"
      BY <1>0, <1>1, <1>3 DEF MarkAbandoned
    <2>2. Settled(r)'
      BY <2>1, SettledUnfinished DEF Unfinished
    <2>3. Lessens(r)
      BY <1>1, JobsSame
    <2>4. Resumer(r)
      BY <1>0, <1>3 DEF Resumer
    <2>5. Rested(r) /\ Apart(r) => Apart(r)'
      BY <1>1, <2>3, <2>4 DEF Rested, Apart, Lessens, Calm
    <2> QED BY <1>3, <2>2, <2>5
  <1> QED BY <1>2, <1>3

\* A first enqueue queues Mode A where the run has a Mode A half, so it adds
\* no scrape job beside one; refused for good, it leaves nothing behind.
LEMMA SecondEnqueues ==
  ASSUME TypeInv, Places, "unacked" \notin EnqueueResults, NEW a \in Actors,
         NEW e \in EnqueueResults, EnqueueFirst(a, e), NEW r \in Runs
  PROVE  /\ Apart(r) => Apart(r)'
         /\ Settled(r) => Settled(r)'
         /\ Rested(r) => Rested(r)'
         /\ OneToken(r) /\ Refused(r) => Refused(r)'
  <1> DEFINE r0 == target[a]
             m == FirstMode(r0)
  <1>0. /\ TypeOK /\ r0 \in Runs /\ m \in Modes /\ Pushes(a, r0)
        /\ m = "B" => "A" \notin modes[r0]
    BY DEF TypeInv, TargetsKnown, EnqueueFirst, FirstMode, Pushes
  <1>1. /\ UNCHANGED <<wpc, job, status, modes, completed, derived, kills>>
        /\ queue' = queue \/ queue' = Push(m, r0)
        /\ e # "ok" => queue' = queue
        /\ e = "ok" => EndStep(a)
        /\ e # "ok" => pc' = [pc EXCEPT ![a] = "failing"] /\ UNCHANGED target
    BY DEF EnqueueFirst, rowVars, workerVars
  <1> HIDE DEF m
  <1>2. /\ \A w \in Workers : (Does(w, "A", r)' => Does(w, "A", r)) /\ (Active(w, r)' => Active(w, r))
        /\ Closing(r) => Closing(r)'
    BY <1>1 DEF Does, Active, Closing
  <1>3. Scraped(r)' => Scraped(r) \/ (r = r0 /\ "A" \notin modes[r])
    <2> SUFFICES ASSUME NEW i \in 1..Len(queue'["scrape"]), queue'["scrape"][i].run = r
                 PROVE  Scraped(r) \/ (r = r0 /\ "A" \notin modes[r])
      BY <1>1 DEF Scraped, Does
    <2>1. CASE i \in 1..Len(queue["scrape"]) /\ queue'["scrape"][i] = queue["scrape"][i]
      BY <2>1 DEF Scraped
    <2>2. CASE "scrape" = QueueOf(m) /\ queue'["scrape"][i] = Job(m, r0)
      BY <1>0, <2>2 DEF QueueOf, Job
    <2>3. CASE queue' = queue
      BY <2>1, <2>3
    <2>4. CASE queue' = Push(m, r0)
      BY <1>0, <2>1, <2>2, <2>4, Pushed
    <2> QED BY <1>1, <2>3, <2>4
  <1>4. \A w \in Workers : Does(w, "A", r) => "A" \in modes[r]
    BY DEF Does, Places, Fits
  <1>5. Apart(r) => Apart(r)'
    <2>1. CASE "A" \in modes[r]
      BY <1>1, <1>2, <1>3, <2>1 DEF Apart, Calm
    <2>2. CASE "A" \notin modes[r]
      BY <1>1, <1>2, <1>4, <2>2 DEF Apart
    <2> QED BY <2>1, <2>2
  <1>6. Settled(r) => Settled(r)'
    BY <1>1, <1>2, SettledKept
  <1>7. \A c \in Actors :
          /\ pc'[c] \in {"resuming", "enqueueing"} => pc'[c] = pc[c] /\ target'[c] = target[c]
          /\ pc'[c] = "failing" => \/ pc'[c] = pc[c] /\ target'[c] = target[c]
                                   \/ c = a /\ target'[c] = r0 /\ e # "ok"
    <2>1. CASE e = "ok"
      BY <1>0, <1>1, <2>1 DEF EndStep, TypeOK
    <2>2. CASE e # "ok"
      BY <1>0, <1>1, <2>2 DEF TypeOK
    <2> QED BY <2>1, <2>2
  <1>8. Resumer(r)' => Resumer(r)
    BY <1>7 DEF Resumer
  <1>9. Rested(r) => Rested(r)'
    <2>1. CASE "A" \in modes[r]
      BY <1>1, <1>2, <1>3, <1>8, <2>1 DEF Rested, Calm
    <2>2. CASE "A" \notin modes[r]
      BY <1>1, <2>2 DEF Rested
    <2> QED BY <2>1, <2>2
  <1>10. OneToken(r) /\ Refused(r) => Refused(r)'
    <2> SUFFICES ASSUME OneToken(r), Refused(r), NEW c \in Actors, Failing(c, r)'
                 PROVE  ~Held(r)'
      BY DEF Refused
    <2>1. CASE Failing(c, r)
      <3>1. ~Held(r) /\ r # r0
        BY <1>0, <2>1 DEF Refused, Held
      <3>2. ~Queued(r)'
        <4> SUFFICES ASSUME NEW q \in QueueNames, NEW i \in 1..Len(queue'[q]), queue'[q][i].run = r
                     PROVE  FALSE
          BY DEF Queued
        <4>1. CASE i \in 1..Len(queue[q]) /\ queue'[q][i] = queue[q][i]
          BY <3>1, <4>1 DEF Held, Queued
        <4>2. CASE queue'[q][i] = Job(m, r0)
          BY <3>1, <4>2 DEF Job
        <4> QED BY <1>0, <1>1, <4>1, <4>2, Pushed
      <3>3. \A x \in Actors : ~Pushes(x, r)'
        BY <1>7, <3>1 DEF Pushes, Held
      <3>4. \A w \in Workers : wpc'[w] # "idle" => job'[w].run # r
        BY <1>1, <3>1 DEF Held
      <3> QED BY <3>2, <3>3, <3>4 DEF Held
    <2>2. CASE c = a /\ r = r0 /\ e # "ok"
      <3>1. Pushes(a, r) /\ queue' = queue /\ wpc' = wpc /\ job' = job
        BY <1>0, <1>1, <2>2
      <3>2. ~Queued(r) /\ \A w \in Workers : wpc[w] # "idle" => job[w].run # r
        BY <1>0, <3>1 DEF OneToken, Holds, Busy, TypeOK
      <3>3. \A x \in Actors : ~Pushes(x, r)'
        <4> SUFFICES ASSUME NEW x \in Actors, Pushes(x, r)' PROVE FALSE
          OBVIOUS
        <4>1. Pushes(x, r)
          BY <1>7 DEF Pushes
        <4>2. x = a
          BY <3>1, <4>1 DEF OneToken
        <4>3. pc'[a] = "failing"
          BY <1>0, <1>1, <2>2 DEF TypeOK
        <4> QED BY <4>2, <4>3 DEF Pushes
      <3> QED BY <3>1, <3>2, <3>3 DEF Held, Queued
    <2>3. Failing(c, r) \/ (c = a /\ r = r0 /\ e # "ok")
      BY <1>7 DEF Failing
    <2> QED BY <2>1, <2>2, <2>3
  <1> QED BY <1>5, <1>6, <1>9, <1>10

\* A run that a step of a worker, or time, leaves with at most what it had.
LEMMA SecondOthers ==
  ASSUME NEW r \in Runs, UNCHANGED <<pc, target, modes>>, Lessens(r), Held(r)' => Held(r),
         status'[r] = status[r], completed'[r] = completed[r], derived'[r] = derived[r],
         kills' = 0 => kills = 0 /\ (Closing(r) => Closing(r)')
  PROVE  SecondKept(r)
  <1>1. (Resumer(r)' => Resumer(r)) /\ \A a \in Actors : Failing(a, r)' => Failing(a, r)
    BY DEF Resumer, Failing
  <1>2. Apart(r) => Apart(r)'
    BY ApartKept
  <1>3. Refused(r) => Refused(r)'
    BY <1>1, RefusedKept
  <1>4. Rested(r) => Rested(r)'
    BY <1>1, RestedKept
  <1>5. Settled(r) => Settled(r)'
    BY SettledKept DEF Lessens
  <1> QED BY <1>2, <1>3, <1>4, <1>5 DEF SecondKept

\* A worker takes the first job of a queue, and does it or drops it.
LEMMA SecondTakes ==
  ASSUME TypeInv, Places, NEW w \in Workers, NEW x \in QueueNames, CanTake(w, x), Take(x),
         UNCHANGED actorVars,
         \A v \in Workers : v # w => wpc'[v] = wpc[v] /\ job'[v] = job[v],
         wpc'[w] = "idle" \/ job'[w] = Head(queue[x]), NEW r \in Runs
  PROVE  /\ Held(r)' => Held(r)
         /\ Closing(r) => Closing(r)'
         /\ Scraped(r)' => Scraped(r)
         /\ \A v \in Workers : v # w \/ wpc'[w] = "idle" \/ Head(queue[x]).run # r
              => (Does(v, "A", r)' => Does(v, "A", r)) /\ (Active(v, r)' => Active(v, r))
         /\ Head(queue[x]) \in Jobs /\ QueueOf(Head(queue[x]).mode) = x /\ Fits(Head(queue[x]))
         /\ x = "scrape" /\ Head(queue[x]).run = r => Scraped(r)
  <1> DEFINE j == Head(queue[x])
  <1>0. TypeOK
    BY DEF TypeInv
  <1>1. /\ 1 \in 1..Len(queue[x]) /\ j = queue[x][1] /\ j \in Jobs
        /\ \A q \in QueueNames : \A i \in 1..Len(queue'[q]) :
             \E k \in 1..Len(queue[q]) : queue'[q][i] = queue[q][k]
    BY <1>0, Taken
  <1>2. QueueOf(j.mode) = x /\ Fits(j)
    BY <1>1 DEF Places
  <1> HIDE DEF j
  <1>3. wpc[w] = "idle" /\ UNCHANGED <<pc, target>>
    BY DEF CanTake, actorVars
  <1>4. Queued(r)' => Queued(r)
    BY <1>1 DEF Queued
  <1>5. j.run = r => Queued(r)
    BY <1>1 DEF Queued
  <1>6. x = "scrape" /\ j.run = r => Scraped(r)
    BY <1>1 DEF Scraped
  <1>7. Held(r)' => Held(r)
    <2>1. \A a \in Actors : Pushes(a, r)' => Pushes(a, r)
      BY <1>3 DEF Pushes
    <2>2. ASSUME NEW v \in Workers, wpc'[v] # "idle", job'[v].run = r PROVE Held(r)
      BY <1>5, <2>2 DEF j, Held
    <2> QED BY <1>4, <2>1, <2>2 DEF Held
  <1>8. Closing(r) => Closing(r)'
    <2> SUFFICES ASSUME NEW v \in Workers, wpc[v] \in {"finalize", "process"}, job[v].run = r
                 PROVE  wpc'[v] \in {"finalize", "process"} /\ job'[v].run = r
      BY DEF Closing
    <2> QED BY <1>3
  <1>9. Scraped(r)' => Scraped(r)
    <2>1. ASSUME NEW i \in 1..Len(queue'["scrape"]), queue'["scrape"][i].run = r PROVE Scraped(r)
      BY <1>1, <2>1 DEF Scraped
    <2>2. ASSUME NEW v \in Workers, Does(v, "B", r)' PROVE Scraped(r)
      <3>1. CASE v = w
        <4>1. j.run = r /\ j.mode = "B"
          BY <2>2, <3>1 DEF Does, j
        <4> QED BY <1>2, <1>6, <4>1 DEF QueueOf
      <3>2. CASE v # w
        BY <2>2, <3>2 DEF Does, Scraped
      <3> QED BY <3>1, <3>2
    <2> QED BY <2>1, <2>2 DEF Scraped
  <1>10. ASSUME NEW v \in Workers, v # w \/ wpc'[w] = "idle" \/ j.run # r
         PROVE  (Does(v, "A", r)' => Does(v, "A", r)) /\ (Active(v, r)' => Active(v, r))
    BY <1>3, <1>10 DEF Does, Active, j
  <1> QED BY <1>1, <1>2, <1>6, <1>7, <1>8, <1>9, <1>10 DEF j

\* A started job has its run to itself as far as the other mode goes.
SecondStarted(r) ==
  /\ Apart(r) => Apart(r)'
  /\ Settled(r) => Settled(r)'
  /\ Refused(r) => Refused(r)'
  /\ Rested(r) /\ Refused(r) /\ Apart(r) => Rested(r)'

LEMMA SecondStarts ==
  ASSUME TypeInv, Places, NEW w \in Workers, StartJob(w), NEW r \in Runs
  PROVE  SecondStarted(r)
  <1>0. TypeOK
    BY DEF TypeInv
  <1>1. ASSUME NEW x \in QueueNames, CanTake(w, x), Take(x), UNCHANGED actorVars,
               UNCHANGED <<modes, derived, kills>>,
               \A v \in Workers : v # w => wpc'[v] = wpc[v] /\ job'[v] = job[v],
               wpc'[w] = "idle" \/ job'[w] = Head(queue[x]),
               wpc'[w] = "idle" \/ Head(queue[x]).run # r,
               status'[r] = status[r], completed'[r] = completed[r]
        PROVE  SecondKept(r)
    <2>1. /\ Held(r)' => Held(r)
          /\ Closing(r) => Closing(r)'
          /\ Scraped(r)' => Scraped(r)
          /\ \A v \in Workers : (Does(v, "A", r)' => Does(v, "A", r)) /\ (Active(v, r)' => Active(v, r))
      BY <1>1, SecondTakes
    <2> QED BY <1>1, <2>1, SecondOthers DEF Lessens, actorVars
  <1>2. ASSUME StartA(w) \/ StartAUnconfigured(w) PROVE SecondStarted(r)
    <2> DEFINE j == Head(queue["default"])
    <2>1. /\ CanTake(w, "default") /\ Take("default") /\ Startable(j)
          /\ UNCHANGED actorVars /\ UNCHANGED <<modes, derived, kills>>
          /\ \/ wpc'[w] \in {"dispatch", "handoff"} /\ job'[w] = j
                /\ status' = [status EXCEPT ![j.run] = "running"]
             \/ wpc'[w] = "idle" /\ status' = [status EXCEPT ![j.run] = "failed"]
          /\ \A v \in Workers : v # w => wpc'[v] = wpc[v] /\ job'[v] = job[v]
      BY <1>0, <1>2 DEF StartA, StartAUnconfigured, TypeOK
    <2>2. \E b : completed' = [completed EXCEPT ![j.run] = b]
      BY <1>2 DEF StartA, StartAUnconfigured
    <2>3. /\ j \in Jobs /\ QueueOf(j.mode) = "default" /\ Fits(j)
          /\ Held(r)' => Held(r)
          /\ Scraped(r)' => Scraped(r)
          /\ \A v \in Workers : v # w \/ wpc'[w] = "idle" \/ j.run # r
               => (Does(v, "A", r)' => Does(v, "A", r)) /\ (Active(v, r)' => Active(v, r))
      BY <2>1, SecondTakes
    <2> HIDE DEF j
    <2>4. j.mode = "A" /\ "A" \in modes[j.run] /\ status[j.run] = "pending" /\ j.run \in Runs
      BY <2>1, <2>3 DEF QueueOf, Fits, Startable, Jobs
    <2>5. CASE r # j.run
      <3>1. status'[r] = status[r] /\ completed'[r] = completed[r]
        BY <1>0, <2>1, <2>2, <2>5 DEF TypeOK
      <3>2. SecondKept(r)
        BY <1>1, <2>1, <2>5, <3>1 DEF j
      <3> QED BY <3>2 DEF SecondKept, SecondStarted
    <2>6. CASE r = j.run
      <3>1. status'[r] \in {"running", "failed"} /\ (status'[r] = "failed" => wpc'[w] = "idle")
        BY <1>0, <2>1, <2>4, <2>6 DEF TypeOK
      <3>2. Settled(r)'
        BY <3>1, SettledUnfinished DEF Unfinished
      <3>3. UNCHANGED <<pc, target>> /\ modes' = modes
        BY <2>1 DEF actorVars
      <3>4. Refused(r) => Refused(r)'
        BY <2>3, <3>3, RefusedKept DEF Failing
      <3>5. ASSUME Apart(r) PROVE Apart(r)' /\ Calm(r) /\ (wpc'[w] = "idle" => Calm(r)')
        <4>1. Calm(r) /\ ~Scraped(r)'
          BY <2>3, <2>4, <2>6, <3>5 DEF Apart, Calm
        <4>2. Apart(r)'
          BY <3>1, <4>1 DEF Apart
        <4>3. wpc'[w] = "idle" => Calm(r)'
          BY <2>3, <4>1 DEF Calm
        <4> QED BY <4>1, <4>2, <4>3
      <3>6. Rested(r) => ~Resumer(r)
        BY <2>4, <2>6 DEF Rested
      <3>7. Rested(r) /\ Apart(r) => Rested(r)'
        BY <3>1, <3>3, <3>5, <3>6 DEF Rested, Resumer
      <3> QED BY <3>2, <3>4, <3>5, <3>7 DEF SecondStarted
    <2> QED BY <2>5, <2>6
  <1>3. ASSUME StartB(w) PROVE SecondStarted(r)
    <2> DEFINE j == Head(queue["scrape"])
    <2>1. /\ CanTake(w, "scrape") /\ Take("scrape")
          /\ UNCHANGED actorVars /\ UNCHANGED <<modes, completed, derived, kills>>
          /\ wpc'[w] = "dispatch" /\ job'[w] = j
          /\ status' = [status EXCEPT ![j.run] = "running"]
          /\ \A v \in Workers : v # w => wpc'[v] = wpc[v] /\ job'[v] = job[v]
      BY <1>0, <1>3 DEF StartB, TypeOK
    <2>2. /\ j \in Jobs /\ QueueOf(j.mode) = "scrape" /\ j.run \in Runs
          /\ Held(r)' => Held(r)
          /\ Scraped(r)' => Scraped(r)
          /\ j.run = r => Scraped(r)
          /\ \A v \in Workers : v # w => (Does(v, "A", r)' => Does(v, "A", r))
      BY <2>1, SecondTakes DEF Jobs
    <2> HIDE DEF j
    <2>3. CASE r # j.run
      <3>1. status'[r] = status[r]
        BY <1>0, <2>1, <2>3 DEF TypeOK
      <3>2. SecondKept(r)
        BY <1>1, <2>1, <2>3, <3>1 DEF j
      <3> QED BY <3>2 DEF SecondKept, SecondStarted
    <2>4. CASE r = j.run
      <3>1. status'[r] = "running" /\ modes' = modes /\ UNCHANGED <<pc, target>>
        BY <1>0, <2>1, <2>2, <2>4 DEF TypeOK, actorVars
      <3>2. Settled(r)'
        BY <3>1, SettledUnfinished DEF Unfinished
      <3>3. Refused(r) => Refused(r)'
        BY <2>2, <3>1, RefusedKept DEF Failing
      <3>4. ~Does(w, "A", r)'
        BY <2>1, <2>2 DEF Does, QueueOf
      <3>5. Apart(r) => Apart(r)'
        BY <2>2, <2>4, <3>1, <3>4 DEF Apart
      <3>6. Rested(r) => Rested(r)'
        BY <2>2, <2>4, <3>1 DEF Rested, Resumer, Calm
      <3> QED BY <3>2, <3>3, <3>5, <3>6 DEF SecondStarted
    <2> QED BY <2>3, <2>4
  <1>4. ASSUME NEW q \in QueueNames, SkipJob(w, q) PROVE SecondKept(r)
    <2>1. /\ CanTake(w, q) /\ Take(q) /\ wpc[w] = "idle"
          /\ UNCHANGED actorVars /\ UNCHANGED <<modes, derived, kills, wpc, job, status, completed>>
      BY <1>4 DEF SkipJob, CanTake, rowVars, workerVars
    <2> QED BY <1>1, <2>1
  <1>5. SecondKept(r) => SecondStarted(r)
    BY DEF SecondKept, SecondStarted
  <1> QED BY <1>2, <1>3, <1>4, <1>5 DEF StartJob

\* One worker at a time is busy with a run: the other mode's job waits or is
\* over, and a second job of the same mode is in the queue the worker drains.
LEMMA OwnersMeet ==
  ASSUME TypeInv, Places, OneWorkerPerQueue, NEW r \in Runs, Apart(r),
         NEW v \in Workers, NEW w \in Workers,
         wpc[v] # "idle", wpc[w] # "idle", job[v].run = r, job[w].run = r
  PROVE  v = w
  <1>1. job[v].mode \in Modes /\ job[w].mode \in Modes
    BY DEF TypeInv, JobsHeld, Jobs
  <1>2. job[v].mode = job[w].mode
    BY <1>1 DEF Apart, Scraped, Does
  <1>3. QueueOf(job[w].mode) \in Serves[v] \cap Serves[w]
    BY <1>2 DEF Places
  <1> QED BY <1>3 DEF OneWorkerPerQueue

\* What every step of a busy worker has in common.
LEMMA SecondWorkFrame ==
  ASSUME TypeInv, NEW w \in Workers,
         SaveAnswer(w) \/ FinishJob(w) \/ JobRaises(w) \/ KillWorker(w)
  PROVE  /\ wpc[w] # "idle" /\ job[w] \in Jobs /\ job[w].run \in Runs
         /\ UNCHANGED <<pc, target, modes>>
         /\ \A v \in Workers : v # w => wpc'[v] = wpc[v] /\ job'[v] = job[v]
         /\ wpc'[w] = "idle" \/ job'[w] = job[w]
         /\ wpc'[w] \in {"dispatch", "handoff"} => wpc[w] \in {"dispatch", "handoff"}
         /\ queue' = queue \/ \E e \in EnqueueResults : Handoff(w, e)
         /\ queue' = queue \/ queue' = Push("B", job[w].run)
  <1>0. /\ TypeOK /\ job[w] \in Jobs /\ job[w].run \in Runs /\ wpc[w] # "idle"
    BY DEF TypeInv, JobsHeld, Jobs, SaveAnswer, FinishJob, CloseDispatch, Handoff, Finalize,
       Process, JobRaises, KillWorker
  <1>1. UNCHANGED <<pc, target, modes>>
    BY DEF SaveAnswer, FinishJob, CloseDispatch, Handoff, Finalize, Process, JobRaises,
       KillWorker, rowVars, actorVars
  <1>2. /\ queue' = queue \/ \E e \in EnqueueResults : Handoff(w, e)
        /\ queue' = queue \/ queue' = Push("B", job[w].run)
    BY DEF SaveAnswer, FinishJob, CloseDispatch, Handoff, Finalize, Process, JobRaises,
       KillWorker
  <1>3. /\ \A v \in Workers : v # w => wpc'[v] = wpc[v] /\ job'[v] = job[v]
        /\ wpc'[w] = "idle" \/ job'[w] = job[w]
    BY <1>0 DEF SaveAnswer, FinishJob, CloseDispatch, Handoff, Finalize, Process, JobRaises,
       AfterFinalize, FreeWorker, KillWorker, workerVars, TypeOK
  <1>4. wpc'[w] \in {"dispatch", "handoff"} => wpc[w] \in {"dispatch", "handoff"}
    BY <1>0 DEF SaveAnswer, FinishJob, CloseDispatch, Handoff, Finalize, Process, JobRaises,
       AfterFinalize, FreeWorker, KillWorker, workerVars, TypeOK
  <1> QED BY <1>0, <1>1, <1>2, <1>3, <1>4

LEMMA WorkLessens ==
  ASSUME TypeInv, NEW w \in Workers,
         SaveAnswer(w) \/ FinishJob(w) \/ JobRaises(w) \/ KillWorker(w),
         NEW r \in Runs, queue' = queue \/ r # job[w].run
  PROVE  /\ Lessens(r) /\ (Held(r)' => Held(r))
         /\ r # job[w].run => (Closing(r) => Closing(r)')
  <1>0. /\ TypeOK /\ wpc[w] # "idle" /\ job[w].run \in Runs /\ UNCHANGED <<pc, target, modes>>
        /\ \A v \in Workers : v # w => wpc'[v] = wpc[v] /\ job'[v] = job[v]
        /\ wpc'[w] = "idle" \/ job'[w] = job[w]
        /\ wpc'[w] \in {"dispatch", "handoff"} => wpc[w] \in {"dispatch", "handoff"}
        /\ queue' = queue \/ queue' = Push("B", job[w].run)
    BY SecondWorkFrame DEF TypeInv
  <1>1. ASSUME NEW q \in QueueNames, NEW i \in 1..Len(queue'[q]), queue'[q][i].run = r
        PROVE  i \in 1..Len(queue[q]) /\ queue[q][i].run = r
    <2>1. CASE queue' = queue
      BY <1>1, <2>1
    <2>2. CASE queue' = Push("B", job[w].run) /\ r # job[w].run
      <3>1. CASE queue'[q][i] = Job("B", job[w].run)
        BY <1>1, <2>2, <3>1 DEF Job
      <3> QED BY <1>0, <1>1, <2>2, <3>1, Pushed
    <2> QED BY <1>0, <2>1, <2>2
  <1>2. \A v \in Workers : /\ Does(v, "A", r)' => Does(v, "A", r)
                           /\ Does(v, "B", r)' => Does(v, "B", r)
                           /\ Active(v, r)' => Active(v, r)
    BY <1>0 DEF Does, Active
  <1>3. Scraped(r)' => Scraped(r)
    BY <1>1, <1>2 DEF Scraped
  <1>4. Queued(r)' => Queued(r)
    BY <1>1 DEF Queued
  <1>5. Held(r)' => Held(r)
    <2>1. \A a \in Actors : Pushes(a, r)' => Pushes(a, r)
      BY <1>0 DEF Pushes
    <2>2. \A v \in Workers : wpc'[v] # "idle" /\ job'[v].run = r => wpc[v] # "idle" /\ job[v].run = r
      BY <1>0
    <2> QED BY <1>4, <2>1, <2>2 DEF Held
  <1>6. r # job[w].run => (Closing(r) => Closing(r)')
    BY <1>0 DEF Closing
  <1> QED BY <1>2, <1>3, <1>5, <1>6 DEF Lessens

LEMMA SecondBystander ==
  ASSUME TypeInv, NEW w \in Workers,
         SaveAnswer(w) \/ FinishJob(w) \/ JobRaises(w) \/ KillWorker(w),
         NEW r \in Runs, r # job[w].run \/ KillWorker(w)
  PROVE  SecondKept(r)
  <1>0. /\ TypeOK /\ job[w].run \in Runs /\ UNCHANGED <<pc, target, modes>>
    BY SecondWorkFrame DEF TypeInv
  <1>1. CASE KillWorker(w)
    <2>1. /\ queue' = queue /\ kills' # 0
          /\ status' = status /\ completed' = completed /\ derived' = derived
      BY <1>0, <1>1 DEF KillWorker, rowVars, TypeOK
    <2>2. Lessens(r) /\ (Held(r)' => Held(r))
      BY <1>1, <2>1, WorkLessens
    <2> QED BY <1>0, <2>1, <2>2, SecondOthers
  <1>2. CASE r # job[w].run /\ ~KillWorker(w)
    <2>1. Lessens(r) /\ (Held(r)' => Held(r)) /\ (Closing(r) => Closing(r)')
      BY <1>2, WorkLessens
    <2>2. /\ status'[r] = status[r] /\ completed'[r] = completed[r] /\ derived'[r] = derived[r]
          /\ kills' = kills
      <3>1. CASE SaveAnswer(w)
        BY <1>0, <1>2, <3>1 DEF SaveAnswer, TypeOK
      <3>2. CASE FinishJob(w)
        BY <1>0, <1>2, <3>2 DEF FinishJob, CloseDispatch, Handoff, Finalize, Process, rowVars, TypeOK
      <3>3. CASE JobRaises(w)
        BY <1>0, <1>2, <3>3 DEF JobRaises, TypeOK
      <3> QED BY <1>2, <3>1, <3>2, <3>3
    <2> QED BY <1>0, <2>1, <2>2, SecondOthers
  <1> QED BY <1>1, <1>2

\* The run a worker is busy with.
SecondWorked(r) ==
  /\ Apart(r)'
  /\ Settled(r)'
  /\ OneToken(r) /\ Rested(r) => Rested(r)'

LEMMA WorkedActive ==
  ASSUME TypeInv, NEW w \in Workers, NEW r \in Runs, r = job[w].run, Apart(r), Settled(r),
         \/ SaveAnswer(w) \/ CloseDispatch(w)
         \/ \E d \in {"done", "error"} : Process(w, d)
  PROVE  SecondWorked(r)
  <1>0. TypeOK
    BY DEF TypeInv
  <1>1. /\ queue' = queue /\ status' = status /\ UNCHANGED <<pc, target, modes>>
        /\ FinishJob(w) \/ SaveAnswer(w)
    BY DEF SaveAnswer, CloseDispatch, Process, FinishJob, actorVars
  <1>2. Lessens(r)
    BY <1>1, WorkLessens
  <1>3. Apart(r)'
    BY <1>1, <1>2, ApartKept
  <1>4. Rested(r) => Rested(r)'
    BY <1>1, <1>2, RestedKept DEF Resumer
  <1>5. Settled(r)'
    <2>1. CASE SaveAnswer(w) \/ CloseDispatch(w)
      <3>1. Unfinished(r)
        BY <2>1 DEF SaveAnswer, CloseDispatch, Settled, Active
      <3> QED BY <1>1, <3>1, SettledUnfinished DEF Unfinished
    <2>2. ASSUME NEW d \in {"done", "error"}, Process(w, d) PROVE Settled(r)'
      <3>1. derived'[r] # "none"
        BY <1>0, <2>2 DEF Process, TypeOK
      <3> QED BY <1>1, <1>2, <3>1 DEF Settled, Lessens, Unfinished
    <2> QED BY <2>1, <2>2
  <1> QED BY <1>3, <1>4, <1>5 DEF SecondWorked

LEMMA WorkedHandoff ==
  ASSUME TypeInv, Places, Orderly, NEW w \in Workers, NEW r \in Runs, r = job[w].run,
         Apart(r), Settled(r), NEW e \in EnqueueResults, Handoff(w, e)
  PROVE  SecondWorked(r)
  <1>0. TypeOK /\ wpc[w] = "handoff" /\ job[w].mode = "A" /\ Active(w, r) /\ Does(w, "A", r)
    BY DEF TypeInv, Handoff, Places, Active, Does
  <1>1. /\ status' = status /\ UNCHANGED <<pc, target, modes>>
        /\ queue' = queue \/ FreeWorker(w)
    BY DEF Handoff, rowVars, actorVars, Orderly
  <1>2. Settled(r)'
    <2>1. Unfinished(r)
      BY <1>0 DEF Settled
    <2> QED BY <1>1, <2>1, SettledUnfinished DEF Unfinished
  <1>3. ~Calm(r)
    BY <1>0 DEF Calm
  <1>4. Rested(r) => Rested(r)'
    BY <1>1, <1>3 DEF Rested, Resumer
  <1>5. "A" \in modes[r] => status[r] # "pending"
    BY <1>3 DEF Apart
  <1>6. Apart(r)'
    <2>1. CASE queue' = queue
      <3>1. Lessens(r)
        BY <2>1, WorkLessens DEF FinishJob
      <3> QED BY <1>1, <3>1, ApartKept
    <2>2. CASE FreeWorker(w)
      <3>1. ASSUME NEW v \in Workers, Does(v, "A", r)' PROVE FALSE
        <4>1. v # w /\ wpc'[v] = wpc[v] /\ job'[v] = job[v]
          BY <1>0, <2>2, <3>1 DEF FreeWorker, Does, TypeOK
        <4>2. wpc[v] # "idle" /\ job[v].run = r
          BY <3>1, <4>1 DEF Does
        <4> QED BY <1>0, <4>1, <4>2, OwnersMeet DEF Orderly
      <3> QED BY <1>1, <1>5, <3>1 DEF Apart
    <2> QED BY <1>1, <2>1, <2>2
  <1> QED BY <1>2, <1>4, <1>6 DEF SecondWorked

\* Once a worker of the run goes, nothing of a first life is left.
LEMMA WorkedCalm ==
  ASSUME TypeInv, Places, Orderly, NEW w \in Workers, NEW r \in Runs, r = job[w].run,
         wpc[w] # "idle", Apart(r), OneToken(r), queue' = queue,
         \A v \in Workers : v # w => wpc'[v] = wpc[v] /\ job'[v] = job[v],
         wpc'[w] = "idle" \/ (wpc'[w] = "finalize" /\ job'[w].mode = "A")
  PROVE  Calm(r)'
  <1>0. Holds(w, r)
    BY DEF Holds, Busy, TypeInv, TypeOK, Orderly
  <1>1. ~Queued(r)
    BY <1>0 DEF OneToken
  <1>2. \A v \in Workers : v # w => ~(wpc[v] # "idle" /\ job[v].run = r)
    BY OwnersMeet DEF Orderly
  <1>3. \A v \in Workers : ~Does(v, "B", r)' /\ ~Active(v, r)'
    BY <1>2 DEF Does, Active
  <1>4. \A i \in 1..Len(queue'["scrape"]) : queue'["scrape"][i].run # r
    BY <1>1 DEF Queued
  <1> QED BY <1>3, <1>4 DEF Calm, Scraped

LEMMA WorkedFinalize ==
  ASSUME TypeInv, Places, Orderly, NEW w \in Workers, NEW r \in Runs, r = job[w].run,
         Apart(r), Settled(r), NEW st \in Ended, Finalize(w, st)
  PROVE  SecondWorked(r)
  <1>0. /\ TypeOK /\ wpc[w] = "finalize"
        /\ \A v \in Workers : v # w => wpc'[v] = wpc[v] /\ job'[v] = job[v]
        /\ FinishJob(w) /\ job[w] \in Jobs
    BY SecondWorkFrame DEF TypeInv, Finalize, FinishJob
  <1>1. /\ queue' = queue /\ UNCHANGED <<pc, target, modes, completed>>
        /\ status' = [status EXCEPT ![r] = st] /\ st \in FinalStatuses(r)
    BY DEF Finalize, actorVars
  <1>2. status'[r] = st /\ st # "pending" /\ (st = "failed" => ~completed[r])
    BY <1>0, <1>1 DEF TypeOK, FinalStatuses
  <1>3. Lessens(r)
    BY <1>0, <1>1, WorkLessens
  <1>4. Apart(r)'
    BY <1>1, <1>2, <1>3, ApartKept
  <1>5. completed[r] => wpc'[w] = "process" /\ job'[w] = job[w]
    BY <1>0 DEF Finalize, TypeOK
  <1>6. ~completed[r] => wpc'[w] = "idle" \/ (wpc'[w] = "finalize" /\ job'[w].mode = "A")
    BY <1>0 DEF Finalize, AfterFinalize, FreeWorker, Places, TypeOK
  <1>7. Settled(r)'
    <2>1. ASSUME NEW v \in Workers, Active(v, r)' PROVE FALSE
      <3>1. Active(v, r)
        BY <1>3, <2>1 DEF Lessens
      <3>2. v = w
        BY <1>0, <3>1, OwnersMeet DEF Active, Orderly
      <3> QED BY <1>0, <3>1, <3>2 DEF Active
    <2>2. completed'[r] => Closing(r)'
      BY <1>1, <1>5 DEF Closing
    <2> QED BY <2>1, <2>2 DEF Settled
  <1>8. ASSUME OneToken(r), Rested(r) PROVE Rested(r)'
    <2>1. CASE st = "failed"
      <3>1. Calm(r)'
        BY <1>0, <1>1, <1>2, <1>6, <1>8, <2>1, WorkedCalm
      <3> QED BY <1>2, <3>1 DEF Rested
    <2>2. CASE st # "failed"
      BY <1>1, <1>2, <1>3, <1>8, <2>2, RestedKept DEF Resumer
    <2> QED BY <2>1, <2>2
  <1> QED BY <1>4, <1>7, <1>8 DEF SecondWorked

LEMMA WorkedRaises ==
  ASSUME TypeInv, Places, Orderly, NEW w \in Workers, NEW r \in Runs, r = job[w].run,
         Apart(r), Settled(r), JobRaises(w)
  PROVE  SecondWorked(r)
  <1>0. /\ TypeOK /\ wpc[w] \in {"dispatch", "handoff"} /\ wpc[w] # "idle"
        /\ \A v \in Workers : v # w => wpc'[v] = wpc[v] /\ job'[v] = job[v]
    BY SecondWorkFrame DEF TypeInv, JobRaises
  <1>1. /\ queue' = queue /\ UNCHANGED <<pc, target, modes>>
        /\ status' = status \/ (status' = [status EXCEPT ![r] = "failed"] /\ FreeWorker(w))
    BY DEF JobRaises, actorVars
  <1>2. Unfinished(r)
    BY <1>0 DEF Settled, Active
  <1>3. Lessens(r)
    BY <1>1, WorkLessens
  <1>4. CASE status' = status
    <2>1. Apart(r)' /\ (Rested(r) => Rested(r)')
      BY <1>1, <1>3, <1>4, ApartKept, RestedKept DEF Resumer
    <2>2. Settled(r)'
      BY <1>2, <1>4, SettledUnfinished DEF Unfinished
    <2> QED BY <2>1, <2>2 DEF SecondWorked
  <1>5. CASE status' = [status EXCEPT ![r] = "failed"] /\ FreeWorker(w)
    <2>1. status'[r] = "failed" /\ wpc'[w] = "idle"
      BY <1>0, <1>5 DEF FreeWorker, TypeOK
    <2>2. Apart(r)'
      BY <1>1, <1>3, <2>1, ApartKept
    <2>3. Settled(r)'
      BY <2>1, SettledUnfinished DEF Unfinished
    <2>4. OneToken(r) => Calm(r)'
      BY <1>0, <1>1, <2>1, WorkedCalm
    <2> QED BY <2>1, <2>2, <2>3, <2>4 DEF SecondWorked, Rested
  <1> QED BY <1>1, <1>4, <1>5

\* One run's part of SecondInv.
Second(r) ==
  /\ resumes[r] < 2 => Apart(r) /\ Settled(r)
  /\ resumes[r] = 0 => Rested(r) /\ Refused(r)

LEMMA SecondInit == Init => SecondInv
  <1> SUFFICES ASSUME Init PROVE SecondInv
    OBVIOUS
  <1>1. Places
    BY DEF Init, Places
  <1>2. ASSUME NEW r \in Runs PROVE Apart(r) /\ Settled(r) /\ Rested(r) /\ Refused(r)
    <2>1. Apart(r) /\ Rested(r)
      BY DEF Init, Apart, Does, Rested
    <2>2. Settled(r) /\ Refused(r)
      BY DEF Init, Settled, Active, Unfinished, Refused, Failing
    <2> QED BY <2>1, <2>2
  <1> QED BY <1>1, <1>2 DEF SecondInv

LEMMA SecondPart ==
  ASSUME NEW r \in Runs, resumes[r] \in Nat, Second(r),
         resumes'[r] = resumes[r] \/ resumes'[r] = resumes[r] + 1,
         Apart(r) => Apart(r)', Settled(r) /\ Apart(r) => Settled(r)',
         resumes'[r] = 0 /\ Rested(r) /\ Refused(r) /\ Apart(r) /\ Settled(r)
           => Rested(r)' /\ Refused(r)'
  PROVE  Second(r)'
  BY DEF Second

LEMMA SecondStep ==
  ASSUME LifeInv, SecondInv, Orderly, [Next]_vars
  PROVE  SecondInv'
  <1>0. TypeInv /\ TypeOK /\ BornInv /\ TokenInv /\ Places
    BY DEF LifeInv, SecondInv, TypeInv
  <1>1. Places'
    BY <1>0, PlacesStep DEF Orderly
  <1>2. ASSUME NEW r \in Runs PROVE Second(r)'
    <2>1. /\ Second(r) /\ resumes[r] \in Nat
          /\ resumes[r] = 0 => OneToken(r)
          /\ resumes'[r] = resumes[r] \/ resumes'[r] = resumes[r] + 1
      BY <1>0, ResumesStep DEF SecondInv, Second, TokenInv, TypeOK
    <2>2. CASE SecondKept(r)
      BY <2>1, <2>2, SecondPart DEF SecondKept
    <2>3. ASSUME NEW a \in Actors, Trigger(a) \/ Resume(a) \/ Enqueue(a) \/ Reap(a) \/ KillActor(a)
          PROVE  Second(r)'
      <3>1. ASSUME NEW b \in BOOLEAN, NEW ms \in ModeSets, TriggerCreates(a, b, "pending", ms)
            PROVE  Second(r)'
        BY <1>0, <2>2, <3>1, SecondCreates
      <3>2. ASSUME NEW b \in BOOLEAN, NEW st \in {"gated", "failed"}, TriggerCreates(a, b, st, {})
            PROVE  Second(r)'
        BY <1>0, <2>2, <3>2, SecondCreates
      <3>3. ASSUME NEW b \in BOOLEAN, ResumeCommits(a, b) PROVE Second(r)'
        <4>1. CASE r # target[a]
          BY <1>0, <2>2, <3>3, <4>1, SecondResumes
        <4>2. CASE r = target[a]
          <5>1. resumes'[r] = resumes[r] + 1
            BY <1>0, <3>3, <4>2 DEF ResumeCommits, TypeOK
          <5>2. Settled(r)' /\ (Rested(r) /\ Apart(r) => Apart(r)')
            BY <1>0, <3>3, <4>2, SecondResumes
          <5> QED BY <2>1, <5>1, <5>2 DEF Second
        <4> QED BY <4>1, <4>2
      <3>4. ASSUME NEW e \in EnqueueResults, EnqueueFirst(a, e) PROVE Second(r)'
        <4>1. UNCHANGED resumes
          BY <3>4 DEF EnqueueFirst, rowVars
        <4>2. /\ Apart(r) => Apart(r)'
              /\ Settled(r) => Settled(r)'
              /\ Rested(r) => Rested(r)'
              /\ OneToken(r) /\ Refused(r) => Refused(r)'
          BY <1>0, <3>4, SecondEnqueues DEF Orderly
        <4> QED BY <2>1, <4>1, <4>2 DEF Second
      <3>5. CASE \/ \E x \in Runs : TriggerBegin(a, x) \/ ResumeBegin(a, x)
                 \/ \E b \in BOOLEAN : TriggerRefused(a, b) \/ ResumeRefused(a, b) \/ ReapCommits(a, b)
                 \/ EnqueueFailed(a) \/ ReapBegin(a) \/ ReapNothing(a) \/ KillActor(a)
        BY <1>0, <2>2, <3>5, SecondQuiet
      <3> QED BY <2>3, <3>1, <3>2, <3>3, <3>4, <3>5 DEF Trigger, Resume, Enqueue, Reap
    <2>4. ASSUME NEW w \in Workers, StartJob(w) PROVE Second(r)'
      <3>1. SecondStarted(r)
        BY <1>0, <2>4, SecondStarts
      <3> QED BY <2>1, <3>1, SecondPart DEF SecondStarted
    <2>5. ASSUME NEW w \in Workers, SaveAnswer(w) \/ FinishJob(w) \/ JobRaises(w) \/ KillWorker(w)
          PROVE  Second(r)'
      <3>1. CASE r # job[w].run \/ KillWorker(w)
        BY <1>0, <2>2, <2>5, <3>1, SecondBystander
      <3>2. CASE r = job[w].run /\ ~KillWorker(w)
        <4>1. UNCHANGED resumes
          BY <2>5, <3>2 DEF SaveAnswer, FinishJob, CloseDispatch, Handoff, Finalize, Process,
             JobRaises, rowVars
        <4>2. Apart(r) /\ Settled(r) => SecondWorked(r)
          BY <1>0, <2>5, <3>2, WorkedActive, WorkedHandoff, WorkedFinalize, WorkedRaises DEF FinishJob
        <4>3. Held(r)
          BY <2>5, <3>2, SecondWorkFrame, <1>0 DEF Held
        <4>4. Refused(r) => Refused(r)'
          <5>1. UNCHANGED <<pc, target>>
            BY <1>0, <2>5, SecondWorkFrame
          <5> QED BY <4>3, <5>1 DEF Refused, Failing
        <4> QED BY <2>1, <4>1, <4>2, <4>4 DEF Second, SecondWorked
      <3> QED BY <2>5, <3>1, <3>2
    <2>6. CASE Time \/ UNCHANGED vars
      <3>1. /\ UNCHANGED <<queue, wpc, job, pc, target, modes, status, completed, derived, kills>>
        BY <2>6 DEF Time, HeartbeatLapses, GraceEnds, TtlPasses, rowVars, actorVars, workerVars, vars
      <3>2. Lessens(r) /\ (Closing(r) => Closing(r)') /\ (Held(r)' => Held(r))
        BY <3>1, JobsSame DEF Pushes
      <3> QED BY <2>2, <3>1, <3>2, SecondOthers
    <2> QED BY <2>3, <2>4, <2>5, <2>6 DEF Next, Crash
  <1> QED BY <1>1, <1>2 DEF SecondInv, Second

\* For any number of runs, actors and workers, with one process per queue,
\* enqueues accepted or refused for good and no run in flight for eight hours:
\* no run is dispatched, finalized or processed by two workers at once unless
\* two resumes of it raced.
THEOREM OwnersHold ==
  ASSUME Orderly
  PROVE  Spec => []SingleOwner
  <1>1. LifeInv /\ SecondInv => SingleOwner
    <2> SUFFICES ASSUME LifeInv, SecondInv, NEW v \in Workers, NEW w \in Workers, v # w,
                        wpc[v] # "idle", wpc[w] # "idle", job[v].run = job[w].run
                 PROVE  resumes[job[w].run] > 1
      BY DEF SingleOwner, OneDispatcher, SingleFinalizer, Finalizing
    <2>1. TypeInv /\ Places /\ job[w].run \in Runs /\ resumes[job[w].run] \in Nat
      BY DEF LifeInv, SecondInv, TypeInv, TypeOK, JobsHeld, Jobs
    <2>2. ~Apart(job[w].run)
      <3> SUFFICES ASSUME NEW r \in Runs, r = job[w].run, Apart(r) PROVE FALSE
        BY <2>1
      <3> QED BY <2>1, OwnersMeet DEF Orderly
    <2> QED BY <2>1, <2>2 DEF SecondInv
  <1>2. LifeInv /\ SecondInv /\ [Next]_vars => (LifeInv /\ SecondInv)'
    BY LifeStep, SecondStep
  <1> QED BY LifeInit, SecondInit, <1>1, <1>2, PTL DEF Spec

\* And a run shown as finished has its answers processed or being processed,
\* or a job of it is left, in its first life and in its second.
THEOREM FinishedProcessed ==
  ASSUME Orderly
  PROVE  Spec => []FinishedIsProcessed
  <1>1. LifeInv /\ SecondInv => FinishedIsProcessed
    <2> SUFFICES ASSUME LifeInv, SecondInv, NEW r \in Runs, kills = 0, resumes[r] < 2,
                        status[r] \in {"complete", "capped"}, completed[r], derived[r] = "none"
                 PROVE  r \in RunsWithLiveJobs
      BY DEF FinishedIsProcessed
    <2>1. PICK w \in Workers : wpc[w] \in {"finalize", "process"} /\ job[w].run = r
      BY DEF SecondInv, Settled, Unfinished, Closing
    <2>2. job[w] \in Executing
      BY <2>1 DEF Executing
    <2> QED BY <2>1, <2>2 DEF RunsWithLiveJobs, JobsAlive
  <1>2. LifeInv /\ SecondInv /\ [Next]_vars => (LifeInv /\ SecondInv)'
    BY LifeStep, SecondStep
  <1> QED BY LifeInit, SecondInit, <1>1, <1>2, PTL DEF Spec
=============================================================================
