---------------------------- MODULE AnswersProofs ----------------------------
(* Theorems about what is made of stored answers, for every instance.        *)
(* Processing, for any runs, answers, passes at once and failures: an answer *)
(* is derived once and counted once, a day's row without mentions has its    *)
(* cause, the calls made stay within the month's cap unless passes bought at *)
(* once, and the AI overview shown is the default location's.  Playbook, for *)
(* any worlds, passes at once and edits: a play is resolved only by its own  *)
(* source on data that can settle it, and the list follows the data.         *)
(* Measures, for any engines, questions, runs, imported captures and model   *)
(* switches: a move without a break, and the proof of a fix, are of one      *)
(* model per engine, and days that are over stay as they were reported.      *)
EXTENDS Processing, Playbook, PastDays, FiniteFacts, TLAPS

-----------------------------------------------------------------------------
(* Processing: the shape of a pass.                                          *)

Phases == {"idle", "deriving", "extracted", "derived", "rolling", "closing"}
RunRecords == [status : {"pending", "running", "complete", "capped", "failed"},
               began : Nat, ended : Nat, error : {"none", "processing", "other"}]

\* What the proofs need of the types: the shape of a pass's record depends on its phase.
PassTypes(p) ==
  /\ proc[p].at \in Phases
  /\ proc[p].todo \subseteq Runs
  /\ proc[p].at # "idle" => proc[p].run \in Runs
  /\ Uncommitted(p) => \A x \in proc[p].saw : x \in Answers /\ x.run = proc[p].run
  /\ proc[p].at = "rolling" => proc[p].day \in Nat
Types ==
  /\ today \in Nat
  /\ run \in [Runs -> RunRecords]
  /\ stored \subseteq Answers
  /\ DOMAIN proc = Procs /\ proc = [p \in Procs |-> proc[p]]
  /\ \A p \in Procs : PassTypes(p)

\* No two passes are over a run that is not recorded as crossed.
Apart == \A p, q \in Procs : \A r \in Runs : InPass(p, r) /\ InPass(q, r) /\ r \notin crossed => p = q

\* A pass that has not committed has taken every row its answers have ...
SawAll == \A p \in Procs : Uncommitted(p) /\ proc[p].run \notin crossed =>
            \A x \in proc[p].saw : \A b \in derived[x] : <<x, b>> \in proc[p].rows

\* ... so that each answer has the rows of one pass.
SingleBatch == \A x \in Answers : x.run \notin crossed => \A a, b \in derived[x] : a = b

\* One roll-up of a day at a time, and it replaces rows of that day, all of them.
RollApart == \A p, q \in Procs :
  proc[p].at = "rolling" /\ proc[q].at = "rolling" /\ proc[p].day = proc[q].day
  /\ proc[p].day \notin mixed => p = q
GoneInv == \A p \in Procs : proc[p].at = "rolling" =>
  /\ \A row \in proc[p].gone : row.day = proc[p].day
  /\ proc[p].day \notin mixed => proc[p].gone = DayDelete(proc[p].day)

\* A row counts search answers of its group, and a day has one row for a group.
CountedInv == \A row \in daily : \A x \in row.counted :
                x \in SearchAnswers(Answers) /\ GroupOf(x) = row.group
OneRow == \A a, b \in daily : a.day = b.day /\ a.day \notin mixed /\ a.group = b.group => a = b

OnceInv == Types /\ Apart /\ SawAll /\ SingleBatch /\ RollApart /\ GoneInv /\ CountedInv /\ OneRow

\* Every measured answer of the run has derived rows.
Covered(s) == \A x \in SearchAnswers(stored) : x.run = s => derived[x] # {}
Fresh(p) == Uncommitted(p) /\ ~proc[p].early

\* A pass that began once its run had ended works on all the run's answers, ...
FreshSawAll == \A p \in Procs : Fresh(p) =>
  run[proc[p].run].status \in Done /\ proc[p].saw = StoredOf(proc[p].run)
\* ... and leaves the run covered.
FreshCovers == \A p \in Procs : proc[p].at = "derived" /\ ~proc[p].early =>
  run[proc[p].run].status \in Done /\ Covered(proc[p].run)
\* A finished run is covered, or the model knows what became of its pass.
Accounted == \A s \in Runs : run[s].status \in Done =>
  \/ Covered(s) \/ s \in abandoned \/ run[s].error = "processing"
  \/ \E q \in Procs : InPass(q, s) /\ Fresh(q)
\* A roll-up reads covered runs, but for those it excuses.
RollCovered == \A p \in Procs : proc[p].at = "rolling" =>
  \A s \in Runs : s \in proc[p].runs /\ s \notin proc[p].excused => run[s].status \in Done /\ Covered(s)

BlindInv == Types /\ CountedInv /\ FreshSawAll /\ FreshCovers /\ Accounted /\ RollCovered
            /\ BlindRowsHaveCause

-----------------------------------------------------------------------------
(* How a step changes the passes.                                            *)

Others(p) == /\ DOMAIN proc' = Procs /\ proc' = [q \in Procs |-> proc'[q]]
             /\ \A q \in Procs \ {p} : proc'[q] = proc[q]

\* A pass begins: over which run, and on what.
Begun(p) ==
  /\ Others(p)
  /\ proc'[p].at = "deriving" /\ proc'[p].run \in Runs /\ proc'[p].todo \subseteq Runs
  /\ proc'[p].cost = cost[proc'[p].run]
  /\ \A x \in proc'[p].saw : x \in Answers /\ x.run = proc'[p].run
  /\ \A x \in proc'[p].saw : \A b \in derived[x] : <<x, b>> \in proc'[p].rows
  /\ crossed \subseteq crossed'
  /\ proc'[p].run \in crossed' \/ \A q \in Procs \ {p} : ~InPass(q, proc'[p].run)
Idled(p) == Others(p) /\ proc'[p] = Idle /\ crossed' = crossed

LEMMA EnterBegins ==
  ASSUME NEW p \in Procs, NEW r \in Runs, NEW todo \in SUBSET Runs,
         NEW saw \in SUBSET {x \in Answers : x.run = r}, NEW ended \in BOOLEAN,
         Types, Enter(p, r, todo, saw, ended)
  PROVE  Begun(p) /\ proc'[p].run = r /\ proc'[p].saw = saw /\ proc'[p].early = ~ended
<1> DEFINE rec == [at |-> "deriving", run |-> r, n |-> serial + 1, todo |-> todo, saw |-> saw,
                   config |-> config, cost |-> cost[r], early |-> ~ended,
                   rows |-> UNION {{<<x, b>> : b \in derived[x]} : x \in saw}]
<1>1. proc' = [proc EXCEPT ![p] = rec]
  BY DEF Enter
<1>2. /\ rec.at = "deriving" /\ rec.run = r /\ rec.todo = todo /\ rec.saw = saw
      /\ rec.cost = cost[r] /\ rec.early = ~ended
      /\ rec.rows = UNION {{<<x, b>> : b \in derived[x]} : x \in saw}
  OBVIOUS
<1>3. \A x \in saw : \A b \in derived[x] : <<x, b>> \in rec.rows
  <2> SUFFICES ASSUME NEW x \in saw, NEW b \in derived[x] PROVE <<x, b>> \in rec.rows
    OBVIOUS
  <2> DEFINE mine(y) == {<<y, c>> : c \in derived[y]}
  <2>1. <<x, b>> \in mine(x)
    OBVIOUS
  <2>2. rec.rows = UNION {mine(y) : y \in saw}
    BY <1>2
  <2> HIDE DEF mine, rec
  <2> QED
    BY <2>1, <2>2
<1> HIDE DEF rec
<1>4. proc'[p] = rec /\ Others(p)
  BY <1>1 DEF Types, Others
<1>5. crossed \subseteq crossed' /\ (r \in crossed' \/ \A q \in Procs \ {p} : ~InPass(q, r))
  BY DEF Enter, OnRun
<1>6. \A x \in saw : x \in Answers /\ x.run = r
  OBVIOUS
<1>7. /\ proc'[p].at = "deriving" /\ proc'[p].run = r /\ proc'[p].todo = todo /\ proc'[p].saw = saw
      /\ proc'[p].early = ~ended /\ proc'[p].cost = cost[proc'[p].run]
  BY <1>2, <1>4
<1>8. \A x \in proc'[p].saw : x \in Answers /\ x.run = proc'[p].run
  BY <1>6, <1>7
<1>9. \A x \in proc'[p].saw : \A b \in derived[x] : <<x, b>> \in proc'[p].rows
  BY <1>3, <1>4, <1>7
<1>10. proc'[p].run \in crossed' \/ \A q \in Procs \ {p} : ~InPass(q, proc'[p].run)
  BY <1>5, <1>7 DEF InPass
<1> QED
  BY <1>4, <1>5, <1>7, <1>8, <1>9, <1>10 DEF Begun


-----------------------------------------------------------------------------
(* What every step does to the runs and their answers.                       *)

\* A finished run stays finished and its answers stay; the pass that starts as a run
\* finishes has all its answers.
Settles(s) ==
  /\ run[s].status \in Done =>
       /\ run'[s].status \in Done
       /\ run[s].error = "processing" => run'[s].error = "processing"
       /\ \A x \in Answers : x.run = s => (x \in stored' <=> x \in stored)
  /\ run'[s].status \in Done =>
       run[s].status \in Done \/ \E p \in Procs : Begun(p) /\ proc'[p].run = s /\ ~proc'[p].early
World ==
  /\ today' \in Nat /\ run' \in [Runs -> RunRecords]
  /\ stored \subseteq stored' /\ stored' \subseteq Answers
  /\ abandoned \subseteq abandoned' /\ faults' \in {faults, faults + 1}
  /\ \A s \in Runs : Settles(s)

\* A pass knows the answers its run has as it begins; a pass given up before its commit
\* is on record.
Informed(p) == /\ proc'[p].saw = {x \in stored' : x.run = proc'[p].run}
               /\ proc'[p].early \/ run'[proc'[p].run].status \in Done
Left(p) == Uncommitted(p) => /\ proc[p].run \in abandoned' \/ run'[proc[p].run].error = "processing"
                             /\ faults' = faults + 1
Moved(p) == /\ Left(p) /\ UNCHANGED <<derived, daily, mixed, cost, paid, met>>
            /\ (Begun(p) /\ Informed(p)) \/ Idled(p)

LEMMA AgainBegins ==
  ASSUME NEW p \in Procs, NEW r \in Runs, NEW todo \in SUBSET Runs, Types, Again(p, r, todo)
  PROVE  /\ Begun(p) /\ proc'[p].run = r /\ proc'[p].saw = StoredOf(r)
         /\ proc'[p].early = ~(run[r].status \in Done)
<1>1. PICK saw : saw = StoredOf(r)
  OBVIOUS
<1>2. PICK ended : ended = (run[r].status \in Done)
  OBVIOUS
<1>5. ended \in BOOLEAN
  BY <1>2
<1>3. saw \in SUBSET {x \in Answers : x.run = r}
  BY <1>1 DEF Types, StoredOf
<1>4. Enter(p, r, todo, saw, ended)
  BY <1>1, <1>2 DEF Again
<1>6. Begun(p) /\ proc'[p].run = r /\ proc'[p].saw = saw /\ proc'[p].early = ~ended
  BY <1>3, <1>4, <1>5, EnterBegins
<1>7. proc'[p].early = ~(run[r].status \in Done)
  BY <1>2, <1>6, Zenon
<1> QED
  BY <1>1, <1>6, <1>7

LEMMA OldestBegins ==
  ASSUME NEW p \in Procs, NEW ids \in SUBSET Runs, ids # {}, Types, TakeOldest(p, ids)
  PROVE  \E r \in ids : /\ Begun(p) /\ proc'[p].run = r /\ proc'[p].saw = StoredOf(r)
                        /\ proc'[p].early = ~(run[r].status \in Done)
<1>0. Runs \subseteq Nat \ {0} /\ IsFiniteSet(Runs)
  BY ProcessingAssumption
<1>1. IsFiniteSet(ids) /\ \A n \in ids : n \in Int
  <2>1. IsFiniteSet(ids)
    BY <1>0, FS_Subset
  <2>2. \A n \in ids : n \in Int
    BY <1>0
  <2> QED
    BY <2>1, <2>2
<1>2. Min(ids) \in ids
  BY <1>1, MinBounds
<1>3. PICK r : r = Min(ids)
  OBVIOUS
<1>4. r \in Runs /\ ids \ {r} \in SUBSET Runs /\ Again(p, r, ids \ {r})
  BY <1>2, <1>3 DEF TakeOldest
<1> QED
  BY <1>2, <1>3, <1>4, AgainBegins

LEMMA RunPut ==
  ASSUME NEW r \in Runs, NEW rec \in RunRecords, Types, run' = [run EXCEPT ![r] = rec]
  PROVE  /\ run' \in [Runs -> RunRecords] /\ run'[r] = rec
         /\ \A s \in Runs \ {r} : run'[s] = run[s]
BY DEF Types

Quiet == UNCHANGED <<proc, derived, daily, mixed, crossed, cost, paid, met>>

\* The steps no pass takes part in.
LEMMA QuietSteps ==
  ASSUME Types, \/ \E r \in Runs : StartRun(r) \/ ReapRun(r)
                \/ \E x \in Answers : StoreAnswer(x)
                \/ EditConfig \/ NextDay
  PROVE  World /\ Quiet
<1>1. ASSUME NEW r \in Runs, StartRun(r) PROVE World /\ Quiet
  <2>1. PICK rec : rec = [status |-> "running", began |-> today, ended |-> run[r].ended,
                          error |-> run[r].error]
    OBVIOUS
  <2>2. run' = [run EXCEPT ![r] = rec]
    BY <1>1, <2>1 DEF StartRun, Mark
  <2>3. run[r] \in RunRecords /\ today \in Nat
    BY DEF Types
  <2>4. rec \in RunRecords
    BY <2>1, <2>3 DEF RunRecords
  <2>5. run' \in [Runs -> RunRecords] /\ run'[r] = rec /\ \A s \in Runs \ {r} : run'[s] = run[s]
    BY <2>2, <2>4, RunPut
  <2>6. run[r].status \notin Done /\ rec.status \notin Done
    BY <1>1, <2>1 DEF StartRun, Done
  <2>7. UNCHANGED <<today, stored, abandoned, faults>> /\ Quiet
    BY <1>1 DEF StartRun, history, bounds, Quiet
  <2> QED
    BY <2>5, <2>6, <2>7 DEF World, Settles, Types
<1>2. ASSUME NEW r \in Runs, ReapRun(r) PROVE World /\ Quiet
  <2>1. PICK rec : rec = [status |-> "failed", began |-> run[r].began, ended |-> today,
                          error |-> "other"]
    OBVIOUS
  <2>2. run' = [run EXCEPT ![r] = rec]
    BY <1>2, <2>1 DEF ReapRun, Mark
  <2>3. run[r] \in RunRecords /\ today \in Nat
    BY DEF Types
  <2>4. rec \in RunRecords
    BY <2>1, <2>3 DEF RunRecords
  <2>5. run' \in [Runs -> RunRecords] /\ run'[r] = rec /\ \A s \in Runs \ {r} : run'[s] = run[s]
    BY <2>2, <2>4, RunPut
  <2>6. run[r].status \notin Done /\ rec.status \notin Done
    BY <1>2, <2>1 DEF ReapRun, Done
  <2>7. UNCHANGED <<today, stored, abandoned>> /\ faults' = faults + 1 /\ Quiet
    BY <1>2 DEF ReapRun, history, Quiet
  <2> QED
    BY <2>5, <2>6, <2>7 DEF World, Settles, Types
<1>3. ASSUME NEW x \in Answers, StoreAnswer(x) PROVE World /\ Quiet
  <2>1. x.run \in Runs /\ run[x.run].status \notin Done /\ stored' = stored \cup {x}
    BY <1>3, ProcessingAssumption DEF StoreAnswer, Done
  <2>2. UNCHANGED <<today, run, abandoned, faults>> /\ Quiet
    BY <1>3 DEF StoreAnswer, history, bounds, Quiet
  <2> QED
    BY <2>1, <2>2 DEF World, Settles, Types
<1>4. CASE EditConfig \/ NextDay
  <2>1. UNCHANGED <<run, stored, abandoned, faults>> /\ Quiet
    BY <1>4 DEF EditConfig, NextDay, history, bounds, Quiet
  <2>2. today' \in Nat
    BY <1>4 DEF EditConfig, NextDay, Types
  <2> QED
    BY <2>1, <2>2 DEF World, Settles, Types
<1> QED
  BY <1>1, <1>2, <1>3, <1>4

LEMMA IdleBecomes ==
  ASSUME Types, NEW p \in Procs, Become(p, Idle), crossed' = crossed
  PROVE  Idled(p)
BY DEF Types, Become, Idled, Others

\* A run that finishes is processed by a pass that has all its answers.
LEMMA FinishSteps ==
  ASSUME Types, NEW r \in Runs, FinishRun(r) \/ ImportRun(r)
  PROVE  World /\ \E p \in Procs : Moved(p)
<1>1. CASE FinishRun(r)
  <2>1. PICK s \in Done : Mark(r, s, run[r].began, today, run[r].error)
    BY <1>1 DEF FinishRun
  <2>2. PICK saw : saw = StoredOf(r)
    OBVIOUS
  <2>3. saw \in SUBSET {x \in Answers : x.run = r} /\ "worker" \in Procs /\ {} \in SUBSET Runs
    BY <2>2 DEF Types, StoredOf, Procs
  <2>4. Enter("worker", r, {}, saw, TRUE)
    BY <1>1, <2>2 DEF FinishRun
  <2>5. /\ Begun("worker") /\ proc'["worker"].run = r /\ proc'["worker"].saw = saw
        /\ proc'["worker"].early = ~TRUE
    BY <2>3, <2>4, EnterBegins
  <2>6. PICK rec : rec = [status |-> s, began |-> run[r].began, ended |-> today, error |-> run[r].error]
    OBVIOUS
  <2>7. run' = [run EXCEPT ![r] = rec]
    BY <2>1, <2>6 DEF Mark
  <2>8. run[r] \in RunRecords /\ today \in Nat
    BY DEF Types
  <2>9. rec \in RunRecords
    BY <2>6, <2>8 DEF RunRecords, Done
  <2>10. run' \in [Runs -> RunRecords] /\ run'[r] = rec /\ \A t \in Runs \ {r} : run'[t] = run[t]
    BY <2>7, <2>9, RunPut
  <2>11. run[r].status \notin Done /\ rec.status \in Done
    BY <1>1, <2>6 DEF FinishRun, Done
  <2>12. /\ UNCHANGED <<today, stored, abandoned, derived, daily, mixed, cost, paid, met, faults>>
         /\ proc["worker"].at = "idle"
    BY <1>1 DEF FinishRun, bounds
  <2>13. World
    BY <2>3, <2>5, <2>10, <2>11, <2>12 DEF World, Settles, Types
  <2>14. Informed("worker")
    BY <2>2, <2>5, <2>10, <2>11, <2>12 DEF Informed, StoredOf
  <2> QED
    BY <2>3, <2>5, <2>12, <2>13, <2>14 DEF Moved, Left, Uncommitted, Pass
<1>2. CASE ImportRun(r)
  <2>1. PICK saw : saw = {x \in Answers : x.run = r}
    OBVIOUS
  <2>2. saw \in SUBSET {x \in Answers : x.run = r} /\ "import" \in Procs /\ {} \in SUBSET Runs
    BY <2>1 DEF Procs
  <2>3. Enter("import", r, {}, saw, TRUE)
    BY <1>2, <2>1 DEF ImportRun, bounds
  <2>4. /\ Begun("import") /\ proc'["import"].run = r /\ proc'["import"].saw = saw
        /\ proc'["import"].early = ~TRUE
    BY <2>2, <2>3, EnterBegins
  <2>5. PICK rec : rec = [status |-> "complete", began |-> today, ended |-> today, error |-> run[r].error]
    OBVIOUS
  <2>6. run' = [run EXCEPT ![r] = rec]
    BY <1>2, <2>5 DEF ImportRun, Mark
  <2>7. run[r] \in RunRecords /\ today \in Nat
    BY DEF Types
  <2>8. rec \in RunRecords
    BY <2>5, <2>7 DEF RunRecords
  <2>9. run' \in [Runs -> RunRecords] /\ run'[r] = rec /\ \A t \in Runs \ {r} : run'[t] = run[t]
    BY <2>6, <2>8, RunPut
  <2>10. run[r].status \notin Done /\ rec.status \in Done
    BY <1>2, <2>5 DEF ImportRun, Done
  <2>11. /\ UNCHANGED <<today, abandoned, derived, daily, mixed, cost, paid, met, faults>>
         /\ proc["import"].at = "idle"
         /\ stored' = stored \cup saw
    BY <1>2, <2>1 DEF ImportRun, bounds
  <2>12. World
    BY <2>1, <2>2, <2>4, <2>9, <2>10, <2>11 DEF World, Settles, Types
  <2>13. {x \in stored' : x.run = r} = saw
    BY <2>1, <2>11 DEF Types
  <2>14. Informed("import")
    BY <2>4, <2>9, <2>10, <2>13 DEF Informed
  <2> QED
    BY <2>2, <2>4, <2>11, <2>12, <2>14 DEF Moved, Left, Uncommitted, Pass
<1> QED
  BY <1>1, <1>2

LEMMA AgainMoves ==
  ASSUME Types, NEW p \in Procs, NEW r \in Runs, NEW todo \in SUBSET Runs, Again(p, r, todo),
         UNCHANGED <<run, stored>>
  PROVE  Begun(p) /\ Informed(p)
<1>1. /\ Begun(p) /\ proc'[p].run = r /\ proc'[p].saw = StoredOf(r)
      /\ proc'[p].early = ~(run[r].status \in Done)
  BY AgainBegins
<1>2. proc'[p].early \/ run'[proc'[p].run].status \in Done
  BY <1>1
<1>3. proc'[p].saw = {x \in stored' : x.run = proc'[p].run}
  BY <1>1 DEF StoredOf
<1> QED
  BY <1>1, <1>2, <1>3 DEF Informed

LEMMA OldestMoves ==
  ASSUME Types, NEW p \in Procs, NEW ids \in SUBSET Runs, ids # {}, TakeOldest(p, ids),
         UNCHANGED <<run, stored>>
  PROVE  Begun(p) /\ Informed(p)
<1>1. PICK r \in ids : /\ Begun(p) /\ proc'[p].run = r /\ proc'[p].saw = StoredOf(r)
                       /\ proc'[p].early = ~(run[r].status \in Done)
  BY OldestBegins
<1>2. proc'[p].early \/ run'[proc'[p].run].status \in Done
  BY <1>1
<1>3. proc'[p].saw = {x \in stored' : x.run = proc'[p].run}
  BY <1>1 DEF StoredOf
<1> QED
  BY <1>1, <1>2, <1>3 DEF Informed

LEMMA AdvanceMoves ==
  ASSUME Types, NEW p \in Procs, Advance(p), UNCHANGED <<run, stored>>
  PROVE  (Begun(p) /\ Informed(p)) \/ Idled(p)
<1>1. CASE proc[p].todo = {}
  BY <1>1, IdleBecomes DEF Advance, Pass
<1>2. CASE proc[p].todo # {}
  <2>1. PICK ids : ids = proc[p].todo
    OBVIOUS
  <2>2. ids \in SUBSET Runs /\ ids # {}
    BY <1>2, <2>1 DEF Types, PassTypes
  <2>3. TakeOldest(p, ids)
    BY <1>2, <2>1 DEF Advance, Pass
  <2> QED
    BY <2>2, <2>3, OldestMoves
<1> QED
  BY <1>1, <1>2

LEMMA SameWorld ==
  ASSUME Types, UNCHANGED <<today, run, stored>>, abandoned \subseteq abandoned',
         faults' \in {faults, faults + 1}
  PROVE  World
BY DEF World, Settles, Types

LEMMA Reprocessing ==
  ASSUME Types, (\E r \in Runs : ReprocessRun(r)) \/ ReprocessTenant
  PROVE  World /\ \E p \in Procs : Moved(p)
<1>1. ASSUME NEW r \in Runs, ReprocessRun(r) PROVE World /\ \E p \in Procs : Moved(p)
  <2>1. "admin" \in Procs /\ {} \in SUBSET Runs /\ Again("admin", r, {})
    BY <1>1 DEF ReprocessRun, Procs
  <2>2. /\ UNCHANGED <<today, run, stored, derived, daily, mixed, abandoned, cost, paid, met, faults>>
        /\ proc["admin"].at = "idle"
    BY <1>1 DEF ReprocessRun, tables
  <2>3. Begun("admin") /\ Informed("admin")
    BY <2>1, <2>2, AgainMoves
  <2>4. World
    BY <2>2, SameWorld
  <2> QED
    BY <2>1, <2>2, <2>3, <2>4 DEF Moved, Left, Uncommitted, Pass
<1>2. CASE ReprocessTenant
  <2>1. PICK ids : ids = {r \in Runs : run[r].status = "complete"}
    OBVIOUS
  <2>2. ids \in SUBSET Runs /\ ids # {} /\ TakeOldest("job", ids) /\ "job" \in Procs
    BY <1>2, <2>1 DEF ReprocessTenant, Procs
  <2>3. /\ UNCHANGED <<today, run, stored, derived, daily, mixed, abandoned, cost, paid, met, faults>>
        /\ proc["job"].at = "idle"
    BY <1>2 DEF ReprocessTenant, tables
  <2>4. Begun("job") /\ Informed("job")
    BY <2>2, <2>3, OldestMoves
  <2>5. World
    BY <2>3, SameWorld
  <2> QED
    BY <2>2, <2>3, <2>4, <2>5 DEF Moved, Left, Uncommitted, Pass
<1> QED
  BY <1>1, <1>2

LEMMA LeavingSteps ==
  ASSUME Types, NEW p \in Procs, PassReturns(p) \/ PassFails(p) \/ PassKilled(p)
  PROVE  World /\ Moved(p)
<1>1. CASE PassReturns(p)
  <2>1. Advance(p) /\ proc[p].at = "closing"
        /\ UNCHANGED <<today, run, stored, derived, daily, mixed, abandoned, cost, paid, met, faults>>
    BY <1>1 DEF PassReturns, tables, bounds, Pass
  <2>2. World
    BY <2>1, SameWorld
  <2> QED
    BY <2>1, <2>2, AdvanceMoves DEF Moved, Left, Uncommitted, Pass
<1>2. CASE PassKilled(p)
  <2>1. Become(p, Idle) /\ abandoned' = Abandons(p) /\ faults' = faults + 1
        /\ UNCHANGED <<today, run, stored, derived, daily, mixed, crossed, cost, paid, met>>
    BY <1>2 DEF PassKilled, tables
  <2>2. abandoned \subseteq abandoned' /\ Left(p)
    BY <2>1 DEF Abandons, Left, Uncommitted, Pass
  <2> QED
    BY <2>1, <2>2, SameWorld, IdleBecomes DEF Moved
<1>3. CASE PassFails(p) /\ p # "worker"
  <2>1. /\ abandoned' = Abandons(p) /\ faults' = faults + 1
        /\ UNCHANGED <<today, run, stored, derived, daily, mixed, cost, paid, met>>
    BY <1>3 DEF PassFails
  <2>2. abandoned \subseteq abandoned' /\ Left(p)
    BY <2>1 DEF Abandons, Left, Uncommitted, Pass
  <2>3. Advance(p) \/ (Become(p, Idle) /\ crossed' = crossed)
    BY <1>3 DEF PassFails
  <2>4. (Begun(p) /\ Informed(p)) \/ Idled(p)
    BY <2>1, <2>3, AdvanceMoves, IdleBecomes
  <2> QED
    BY <2>1, <2>2, <2>4, SameWorld DEF Moved
<1>4. CASE PassFails(p) /\ p = "worker"
  <2>1. PICK r : r = proc[p].run
    OBVIOUS
  <2>2. PICK rec : rec = [status |-> run[r].status, began |-> run[r].began,
                          ended |-> run[r].ended, error |-> "processing"]
    OBVIOUS
  <2>3. r \in Runs
    BY <1>4, <2>1 DEF PassFails, Pass, Types, PassTypes
  <2>4. run' = [run EXCEPT ![r] = rec]
    BY <1>4, <2>1, <2>2 DEF PassFails, Pass, Mark
  <2>5. run[r] \in RunRecords
    BY <2>3 DEF Types
  <2>6. rec \in RunRecords
    BY <2>2, <2>5 DEF RunRecords
  <2>7. run' \in [Runs -> RunRecords] /\ run'[r] = rec /\ \A s \in Runs \ {r} : run'[s] = run[s]
    BY <2>3, <2>4, <2>6, RunPut
  <2>8. /\ UNCHANGED <<today, stored, derived, daily, mixed, abandoned, crossed, cost, paid, met>>
        /\ faults' = faults + 1 /\ Become(p, Idle)
    BY <1>4 DEF PassFails
  <2>9. World
    BY <2>2, <2>3, <2>7, <2>8 DEF World, Settles, Types
  <2>10. Left(p)
    BY <2>1, <2>2, <2>7, <2>8 DEF Left
  <2> QED
    BY <2>8, <2>9, <2>10, IdleBecomes DEF Moved
<1> QED
  BY <1>1, <1>2, <1>3, <1>4

-----------------------------------------------------------------------------
(* The steps of a pass, field by field.                                      *)

Keeps(p) == /\ Others(p) /\ crossed' = crossed /\ abandoned' = abandoned
            /\ UNCHANGED <<today, run, stored, faults>>
            /\ proc'[p].run = proc[p].run /\ proc'[p].todo = proc[p].todo

LEMMA ExtractShape ==
  ASSUME Types, NEW p \in Procs, Extract(p)
  PROVE  /\ Keeps(p) /\ proc[p].at = "deriving" /\ proc'[p].at = "extracted"
         /\ proc'[p].saw = proc[p].saw /\ proc'[p].rows = proc[p].rows
         /\ proc'[p].early = proc[p].early
         /\ UNCHANGED <<derived, daily, mixed>>
<1>1. PICK calls : Become(p, [at |-> "extracted", run |-> Pass(p).run, n |-> Pass(p).n,
                       todo |-> Pass(p).todo, saw |-> Pass(p).saw, config |-> Pass(p).config,
                       cost |-> Pass(p).cost, early |-> Pass(p).early, rows |-> Pass(p).rows,
                       calls |-> calls])
  BY DEF Extract
<1>2. PICK rec : rec = [at |-> "extracted", run |-> Pass(p).run, n |-> Pass(p).n,
                       todo |-> Pass(p).todo, saw |-> Pass(p).saw, config |-> Pass(p).config,
                       cost |-> Pass(p).cost, early |-> Pass(p).early, rows |-> Pass(p).rows,
                       calls |-> calls]
  OBVIOUS
<1>3. /\ rec.at = "extracted" /\ rec.run = proc[p].run /\ rec.todo = proc[p].todo
      /\ rec.saw = proc[p].saw /\ rec.early = proc[p].early /\ rec.rows = proc[p].rows
  BY <1>2 DEF Pass
<1>4. proc' = [proc EXCEPT ![p] = rec]
  BY <1>1, <1>2 DEF Become
<1>5. proc'[p] = rec /\ Others(p)
  BY <1>4 DEF Types, Others
<1>6. /\ UNCHANGED <<derived, daily, mixed, today, run, stored, crossed, abandoned, faults>>
      /\ proc[p].at = "deriving"
  BY DEF Extract, tables, bounds, Pass
<1> QED
  BY <1>3, <1>5, <1>6 DEF Keeps

LEMMA CommitShape ==
  ASSUME Types, NEW p \in Procs, CommitDerived(p)
  PROVE  /\ Keeps(p) /\ proc[p].at = "extracted" /\ proc'[p].at = "derived"
         /\ proc'[p].early = proc[p].early
         /\ UNCHANGED <<daily, mixed>>
         /\ \A x \in Answers : x \notin proc[p].saw => derived'[x] = derived[x]
         /\ \A x \in proc[p].saw : x \in Answers =>
              \E b : derived'[x] = Kept(p, x) \cup (IF x \in MeasuredAnswers(proc[p].saw) THEN {b} ELSE {})
<1>1. PICK rec : rec = [at |-> "derived", run |-> Pass(p).run, n |-> Pass(p).n,
                        todo |-> Pass(p).todo, early |-> Pass(p).early]
  OBVIOUS
<1>2. /\ rec.at = "derived" /\ rec.run = proc[p].run /\ rec.todo = proc[p].todo
      /\ rec.early = proc[p].early
  BY <1>1 DEF Pass
<1>3. proc' = [proc EXCEPT ![p] = rec]
  BY <1>1 DEF CommitDerived, Become
<1>4. proc'[p] = rec /\ Others(p)
  BY <1>3 DEF Types, Others
<1>5. /\ UNCHANGED <<daily, mixed, today, run, stored, crossed, abandoned, faults>>
      /\ proc[p].at = "extracted"
  BY DEF CommitDerived, history, bounds, Pass
<1> DEFINE made(x) == [by |-> Pass(p).n, names |-> DetectMentions(x, Pass(p).config)]
           batch(x) == IF x \in MeasuredAnswers(proc[p].saw) THEN {made(x)} ELSE {}
<1>6. derived' = [x \in Answers |-> IF x \in proc[p].saw THEN Kept(p, x) \cup batch(x) ELSE derived[x]]
  BY DEF CommitDerived, Pass
<1>7. \A x \in Answers : x \notin proc[p].saw => derived'[x] = derived[x]
  <2> HIDE DEF batch
  <2> QED
    BY <1>6
<1>8. ASSUME NEW x \in proc[p].saw, x \in Answers
      PROVE  \E b : derived'[x] = Kept(p, x) \cup (IF x \in MeasuredAnswers(proc[p].saw) THEN {b} ELSE {})
  <2>1. derived'[x] = Kept(p, x) \cup batch(x)
    <3> HIDE DEF batch
    <3> QED
      BY <1>6, <1>8
  <2> WITNESS made(x)
  <2> QED
    BY <2>1
<1> QED
  BY <1>2, <1>4, <1>5, <1>7, <1>8 DEF Keeps

LEMMA RollupBeginShape ==
  ASSUME Types, NEW p \in Procs, RollupBegin(p)
  PROVE  /\ Keeps(p) /\ proc[p].at = "derived" /\ proc'[p].at = "rolling"
         /\ proc'[p].day = RunDay(proc[p].run) /\ proc'[p].gone = DayDelete(proc'[p].day)
         /\ proc'[p].runs = RunsOfDay(proc'[p].day, proc[p].run) /\ proc'[p].excused = Excused(p)
         /\ mixed' = IF \E o \in Procs : proc[o].at = "rolling" /\ proc[o].day = proc'[p].day
                     THEN mixed \cup {proc'[p].day} ELSE mixed
         /\ UNCHANGED <<derived, daily>>
<1>1. PICK d : d = RunDay(proc[p].run)
  OBVIOUS
<1>2. PICK rec : rec = [at |-> "rolling", run |-> Pass(p).run, n |-> Pass(p).n,
                        todo |-> Pass(p).todo, day |-> d, runs |-> RunsOfDay(d, Pass(p).run),
                        excused |-> Excused(p), gone |-> DayDelete(d)]
  OBVIOUS
<1>3. /\ rec.at = "rolling" /\ rec.run = proc[p].run /\ rec.todo = proc[p].todo /\ rec.day = d
      /\ rec.gone = DayDelete(d) /\ rec.runs = RunsOfDay(d, proc[p].run) /\ rec.excused = Excused(p)
  BY <1>2 DEF Pass
<1>4. proc' = [proc EXCEPT ![p] = rec]
  BY <1>1, <1>2 DEF RollupBegin, Become, Pass
<1>5. proc'[p] = rec /\ Others(p)
  BY <1>4 DEF Types, Others
<1>6. /\ UNCHANGED <<derived, daily, today, run, stored, crossed, abandoned, faults>>
      /\ proc[p].at = "derived"
  BY DEF RollupBegin, tables, bounds, Pass
<1>7. mixed' = IF \E o \in Procs : proc[o].at = "rolling" /\ proc[o].day = d
               THEN mixed \cup {d} ELSE mixed
  BY <1>1 DEF RollupBegin, Pass
<1>8. /\ proc'[p].day = d /\ proc'[p].gone = DayDelete(d) /\ proc'[p].runs = RunsOfDay(d, proc[p].run)
      /\ proc'[p].excused = Excused(p)
  BY <1>3, <1>5
<1> QED
  BY <1>1, <1>3, <1>5, <1>6, <1>7, <1>8 DEF Keeps, DayDelete, RunsOfDay

LEMMA RollupCommitShape ==
  ASSUME Types, NEW p \in Procs, RollupCommit(p)
  PROVE  /\ Keeps(p) /\ proc[p].at = "rolling" /\ proc'[p].at = "closing"
         /\ daily' = (daily \ proc[p].gone)
                     \cup DayRows(proc[p].day, proc[p].runs, proc[p].n, proc[p].excused)
         /\ UNCHANGED <<derived, mixed>>
<1>1. PICK rec : rec = [at |-> "closing", run |-> Pass(p).run, n |-> Pass(p).n, todo |-> Pass(p).todo]
  OBVIOUS
<1>2. rec.at = "closing" /\ rec.run = proc[p].run /\ rec.todo = proc[p].todo
  BY <1>1 DEF Pass
<1>3. proc' = [proc EXCEPT ![p] = rec]
  BY <1>1 DEF RollupCommit, Become
<1>4. proc'[p] = rec /\ Others(p)
  BY <1>3 DEF Types, Others
<1>5. /\ UNCHANGED <<derived, mixed, today, run, stored, crossed, abandoned, faults>>
      /\ proc[p].at = "rolling"
      /\ daily' = (daily \ proc[p].gone)
                  \cup DayRows(proc[p].day, proc[p].runs, proc[p].n, proc[p].excused)
  BY DEF RollupCommit, bounds, Pass
<1> QED
  BY <1>2, <1>4, <1>5 DEF Keeps

LEMMA StepKinds ==
  ASSUME Types, [Next]_vars
  PROVE  /\ World
         /\ \/ Quiet
            \/ \E p \in Procs : Moved(p)
            \/ \E p \in Procs : Extract(p) \/ CommitDerived(p) \/ RollupBegin(p) \/ RollupCommit(p)
<1>1. CASE UNCHANGED vars
  <2>1. Quiet /\ UNCHANGED <<today, run, stored, abandoned, faults>>
    BY <1>1 DEF vars, bounds, history, Quiet
  <2> QED
    BY <2>1, SameWorld
<1>2. CASE \/ \E r \in Runs : StartRun(r) \/ ReapRun(r)
           \/ \E x \in Answers : StoreAnswer(x)
           \/ EditConfig \/ NextDay
  BY <1>2, QuietSteps
<1>3. CASE \E r \in Runs : FinishRun(r) \/ ImportRun(r)
  BY <1>3, FinishSteps
<1>4. CASE (\E r \in Runs : ReprocessRun(r)) \/ ReprocessTenant
  BY <1>4, Reprocessing
<1>5. CASE \E p \in Procs : PassReturns(p) \/ PassFails(p) \/ PassKilled(p)
  BY <1>5, LeavingSteps
<1>6. CASE \E p \in Procs : Extract(p) \/ CommitDerived(p) \/ RollupBegin(p) \/ RollupCommit(p)
  <2>1. UNCHANGED <<today, run, stored, abandoned, faults>>
    BY <1>6, ExtractShape, CommitShape, RollupBeginShape, RollupCommitShape DEF Keeps
  <2> QED
    BY <1>6, <2>1, SameWorld
<1> QED
  BY <1>1, <1>2, <1>3, <1>4, <1>5, <1>6 DEF Next, PassStep

-----------------------------------------------------------------------------
(* An answer is derived once and counted once.                               *)

LEMMA TypesStep ==
  ASSUME Types, [Next]_vars PROVE Types'
<1>1. World
  BY StepKinds
<1>2. today' \in Nat /\ run' \in [Runs -> RunRecords] /\ stored' \subseteq Answers
  BY <1>1 DEF World
<1>3. CASE Quiet
  BY <1>2, <1>3 DEF Quiet, Types, PassTypes, Uncommitted, Pass
<1>4. ASSUME NEW p \in Procs, Others(p), PassTypes(p)' PROVE Types'
  <2>1. \A q \in Procs \ {p} : PassTypes(q)'
    BY <1>4 DEF Types, PassTypes, Others, Uncommitted, Pass
  <2> QED
    BY <1>2, <1>4, <2>1 DEF Types, Others
<1>5. ASSUME NEW p \in Procs, Moved(p) PROVE Types'
  <2>1. CASE Begun(p)
    <3>1. PassTypes(p)'
      BY <2>1 DEF Begun, PassTypes, Phases, Uncommitted, Pass
    <3> QED
      BY <1>4, <2>1, <3>1 DEF Begun
  <2>2. CASE Idled(p)
    <3>1. PassTypes(p)'
      BY <2>2 DEF Idled, Idle, PassTypes, Phases, Uncommitted, Pass
    <3> QED
      BY <1>4, <2>2, <3>1 DEF Idled
  <2> QED
    BY <1>5, <2>1, <2>2 DEF Moved
<1>6. ASSUME NEW p \in Procs, Extract(p) PROVE Types'
  <2>1. PassTypes(p)'
    BY <1>6, ExtractShape DEF Keeps, Types, PassTypes, Phases, Uncommitted, Pass
  <2> QED
    BY <1>4, <1>6, <2>1, ExtractShape DEF Keeps
<1>7. ASSUME NEW p \in Procs, CommitDerived(p) PROVE Types'
  <2>0. Keeps(p) /\ proc[p].at = "extracted" /\ proc'[p].at = "derived"
    BY <1>7, CommitShape
  <2>1. PassTypes(p)'
    BY <2>0 DEF Keeps, Types, PassTypes, Phases, Uncommitted, Pass
  <2> QED
    BY <1>4, <2>0, <2>1 DEF Keeps
<1>8. ASSUME NEW p \in Procs, RollupBegin(p) PROVE Types'
  <2>0. Keeps(p) /\ proc[p].at = "derived" /\ proc'[p].at = "rolling" /\ proc'[p].day = RunDay(proc[p].run)
    BY <1>8, RollupBeginShape
  <2>1. proc[p].run \in Runs
    BY <2>0 DEF Types, PassTypes
  <2>2. run[proc[p].run] \in RunRecords /\ today \in Nat
    BY <2>1 DEF Types
  <2>3. RunDay(proc[p].run) \in Nat
    BY <2>2 DEF RunDay, RunRecords
  <2>4. PassTypes(p)'
    BY <2>0, <2>3 DEF Keeps, Types, PassTypes, Phases, Uncommitted, Pass
  <2> QED
    BY <1>4, <2>0, <2>4 DEF Keeps
<1>9. ASSUME NEW p \in Procs, RollupCommit(p) PROVE Types'
  <2>0. Keeps(p) /\ proc[p].at = "rolling" /\ proc'[p].at = "closing"
    BY <1>9, RollupCommitShape
  <2>1. PassTypes(p)'
    BY <2>0 DEF Keeps, Types, PassTypes, Phases, Uncommitted, Pass
  <2> QED
    BY <1>4, <2>0, <2>1 DEF Keeps
<1> QED
  BY <1>3, <1>5, <1>6, <1>7, <1>8, <1>9, StepKinds

LEMMA ApartStep ==
  ASSUME Types, Apart, [Next]_vars PROVE Apart'
<1>1. CASE Quiet
  BY <1>1 DEF Quiet, Apart, InPass
<1>2. ASSUME NEW p \in Procs, Begun(p) PROVE Apart'
  BY <1>2 DEF Begun, Others, Apart, InPass
<1>3. ASSUME NEW p \in Procs, Idled(p) PROVE Apart'
  BY <1>3 DEF Idled, Idle, Others, Apart, InPass
<1>4. ASSUME NEW p \in Procs, Keeps(p), proc[p].at # "idle" PROVE Apart'
  BY <1>4 DEF Keeps, Others, Apart, InPass
<1>5. ASSUME NEW p \in Procs, Extract(p) \/ CommitDerived(p) \/ RollupBegin(p) \/ RollupCommit(p)
      PROVE  Keeps(p) /\ proc[p].at # "idle"
  BY <1>5, ExtractShape, CommitShape, RollupBeginShape, RollupCommitShape
<1> QED
  BY <1>1, <1>2, <1>3, <1>4, <1>5, StepKinds DEF Moved

LEMMA SawAllStep ==
  ASSUME Types, Apart, SawAll, [Next]_vars PROVE SawAll'
<1>1. CASE Quiet
  BY <1>1 DEF Quiet, SawAll, Uncommitted, Pass
<1>2. ASSUME NEW p \in Procs, Begun(p), derived' = derived PROVE SawAll'
  BY <1>2 DEF Begun, Others, SawAll, Uncommitted, Pass
<1>3. ASSUME NEW p \in Procs, Others(p), crossed' = crossed, derived' = derived,
             proc'[p].at \notin {"deriving", "extracted"} PROVE SawAll'
  BY <1>3 DEF Others, SawAll, Uncommitted, Pass
<1>4. ASSUME NEW p \in Procs, Extract(p) PROVE SawAll'
  <2>1. /\ Keeps(p) /\ proc[p].at = "deriving" /\ proc'[p].saw = proc[p].saw
        /\ proc'[p].rows = proc[p].rows /\ derived' = derived
    BY <1>4, ExtractShape
  <2>2. \A q \in Procs : /\ proc'[q].run = proc[q].run
                         /\ Uncommitted(q)' => /\ Uncommitted(q) /\ proc'[q].saw = proc[q].saw
                                               /\ proc'[q].rows = proc[q].rows
    BY <2>1 DEF Keeps, Others, Uncommitted, Pass
  <2> QED
    BY <2>1, <2>2 DEF Keeps, SawAll
<1>5. ASSUME NEW p \in Procs, CommitDerived(p) PROVE SawAll'
  <2>1. /\ Keeps(p) /\ proc[p].at = "extracted" /\ proc'[p].at = "derived"
        /\ \A x \in Answers : x \notin proc[p].saw => derived'[x] = derived[x]
    BY <1>5, CommitShape
  <2> SUFFICES ASSUME NEW q \in Procs, Uncommitted(q)', proc'[q].run \notin crossed',
                      NEW x \in proc'[q].saw, NEW b \in derived'[x]
               PROVE  <<x, b>> \in proc'[q].rows
    BY DEF SawAll
  <2>2. q # p /\ proc'[q] = proc[q] /\ crossed' = crossed
    BY <2>1 DEF Uncommitted, Pass, Keeps, Others
  <2>3. Uncommitted(q) /\ proc[q].run \notin crossed
    BY <2>2 DEF Uncommitted, Pass
  <2>4. x \in Answers /\ x.run = proc[q].run /\ proc[q].run \in Runs
    BY <2>2, <2>3 DEF Types, PassTypes, Uncommitted, Pass
  <2>5. proc[p].run # proc[q].run
    BY <2>1, <2>2, <2>3, <2>4 DEF Apart, InPass, Uncommitted, Pass
  <2>6. x \notin proc[p].saw
    BY <2>1, <2>4, <2>5 DEF Types, PassTypes, Uncommitted, Pass
  <2>7. derived'[x] = derived[x]
    BY <2>1, <2>4, <2>6
  <2> QED
    BY <2>2, <2>3, <2>7 DEF SawAll
<1>6. ASSUME NEW p \in Procs, Idled(p) PROVE Others(p) /\ crossed' = crossed /\ proc'[p].at = "idle"
  BY <1>6 DEF Idled, Idle
<1>7. ASSUME NEW p \in Procs, Moved(p) PROVE SawAll'
  BY <1>2, <1>3, <1>6, <1>7 DEF Moved
<1>8. ASSUME NEW p \in Procs, RollupBegin(p) \/ RollupCommit(p) PROVE SawAll'
  BY <1>3, <1>8, RollupBeginShape, RollupCommitShape DEF Keeps
<1> QED
  BY <1>1, <1>4, <1>5, <1>7, <1>8, StepKinds

LEMMA SingleBatchStep ==
  ASSUME Types, SawAll, SingleBatch, [Next]_vars PROVE SingleBatch'
<1>1. ASSUME derived' = derived, crossed \subseteq crossed' PROVE SingleBatch'
  BY <1>1 DEF SingleBatch
<1>2. CASE Quiet
  BY <1>1, <1>2 DEF Quiet
<1>3. ASSUME NEW p \in Procs, Moved(p) PROVE SingleBatch'
  BY <1>1, <1>3 DEF Moved, Begun, Idled
<1>4. ASSUME NEW p \in Procs, Extract(p) \/ RollupBegin(p) \/ RollupCommit(p) PROVE SingleBatch'
  BY <1>1, <1>4, ExtractShape, RollupBeginShape, RollupCommitShape DEF Keeps
<1>5. ASSUME NEW p \in Procs, CommitDerived(p) PROVE SingleBatch'
  <2>1. /\ proc[p].at = "extracted" /\ crossed' = crossed
        /\ \A x \in Answers : x \notin proc[p].saw => derived'[x] = derived[x]
        /\ \A x \in proc[p].saw : x \in Answers =>
             \E b : derived'[x] = Kept(p, x) \cup (IF x \in MeasuredAnswers(proc[p].saw) THEN {b} ELSE {})
    BY <1>5, CommitShape DEF Keeps
  <2> SUFFICES ASSUME NEW x \in Answers, x.run \notin crossed PROVE \A a, b \in derived'[x] : a = b
    BY <2>1 DEF SingleBatch
  <2>2. CASE x \notin proc[p].saw
    BY <2>1, <2>2 DEF SingleBatch
  <2>3. CASE x \in proc[p].saw
    <3>1. Uncommitted(p) /\ proc[p].run = x.run
      BY <2>1, <2>3 DEF Types, PassTypes, Uncommitted, Pass
    <3>2. \A b \in derived[x] : <<x, b>> \in proc[p].rows
      BY <2>3, <3>1 DEF SawAll
    <3>3. Kept(p, x) = {}
      BY <3>2 DEF Kept, Pass
    <3> QED
      BY <2>1, <2>3, <3>3
  <2> QED
    BY <2>2, <2>3
<1> QED
  BY <1>2, <1>3, <1>4, <1>5, StepKinds

LEMMA RollStep ==
  ASSUME Types, RollApart, GoneInv, [Next]_vars PROVE RollApart' /\ GoneInv'
<1>1. CASE Quiet
  BY <1>1 DEF Quiet, RollApart, GoneInv, DayDelete
<1>2. ASSUME NEW p \in Procs, Others(p), UNCHANGED <<daily, mixed>>, proc'[p].at # "rolling"
      PROVE  RollApart' /\ GoneInv'
  <2>1. \A q \in Procs : proc'[q].at = "rolling" => proc'[q] = proc[q]
    BY <1>2 DEF Others
  <2> QED
    BY <1>2, <2>1 DEF RollApart, GoneInv, DayDelete
<1>3. ASSUME NEW p \in Procs, Moved(p) PROVE RollApart' /\ GoneInv'
  <2>1. Others(p) /\ UNCHANGED <<daily, mixed>> /\ proc'[p].at # "rolling"
    BY <1>3 DEF Moved, Begun, Idled, Idle
  <2> QED
    BY <1>2, <2>1
<1>4. ASSUME NEW p \in Procs, Extract(p) \/ CommitDerived(p) PROVE RollApart' /\ GoneInv'
  <2>1. Others(p) /\ UNCHANGED <<daily, mixed>> /\ proc'[p].at # "rolling"
    BY <1>4, ExtractShape, CommitShape DEF Keeps
  <2> QED
    BY <1>2, <2>1
<1>5. ASSUME NEW p \in Procs, RollupBegin(p) PROVE RollApart' /\ GoneInv'
  <2>1. /\ Others(p) /\ proc[p].at = "derived" /\ proc'[p].at = "rolling" /\ daily' = daily
        /\ proc'[p].gone = DayDelete(proc'[p].day)
        /\ mixed' = IF \E o \in Procs : proc[o].at = "rolling" /\ proc[o].day = proc'[p].day
                    THEN mixed \cup {proc'[p].day} ELSE mixed
    BY <1>5, RollupBeginShape DEF Keeps
  <2>2. mixed \subseteq mixed'
    BY <2>1
  <2>3. \A o \in Procs \ {p} : proc'[o] = proc[o]
    BY <2>1 DEF Others
  <2>4. ASSUME NEW o \in Procs \ {p}, proc'[o].at = "rolling", proc'[o].day = proc'[p].day
        PROVE  proc'[p].day \in mixed'
    BY <2>1, <2>3, <2>4
  <2>5. RollApart'
    <3> SUFFICES ASSUME NEW q \in Procs, NEW o \in Procs, proc'[q].at = "rolling",
                        proc'[o].at = "rolling", proc'[q].day = proc'[o].day, proc'[q].day \notin mixed'
                 PROVE  q = o
      BY DEF RollApart
    <3>1. CASE q = p \/ o = p
      BY <2>4, <3>1
    <3>2. CASE q # p /\ o # p
      BY <2>2, <2>3, <3>2 DEF RollApart
    <3> QED
      BY <3>1, <3>2
  <2>6. GoneInv'
    <3> SUFFICES ASSUME NEW q \in Procs, proc'[q].at = "rolling"
                 PROVE  /\ \A row \in proc'[q].gone : row.day = proc'[q].day
                        /\ proc'[q].day \notin mixed' => proc'[q].gone = {row \in daily' : row.day = proc'[q].day}
      BY DEF GoneInv, DayDelete
    <3>1. CASE q = p
      BY <2>1, <3>1 DEF DayDelete
    <3>2. CASE q # p
      <4>1. proc'[q] = proc[q]
        BY <2>3, <3>2
      <4> QED
        BY <2>1, <2>2, <4>1 DEF GoneInv, DayDelete
    <3> QED
      BY <3>1, <3>2
  <2> QED
    BY <2>5, <2>6
<1>6. ASSUME NEW p \in Procs, RollupCommit(p) PROVE RollApart' /\ GoneInv'
  <2>1. /\ Others(p) /\ proc[p].at = "rolling" /\ proc'[p].at = "closing" /\ mixed' = mixed
        /\ daily' = (daily \ proc[p].gone)
                     \cup DayRows(proc[p].day, proc[p].runs, proc[p].n, proc[p].excused)
    BY <1>6, RollupCommitShape DEF Keeps
  <2>2. \A q \in Procs : proc'[q].at = "rolling" => q # p /\ proc'[q] = proc[q]
    BY <2>1 DEF Others
  <2>3. RollApart'
    BY <2>1, <2>2 DEF RollApart
  <2>4. ASSUME NEW q \in Procs, proc'[q].at = "rolling"
        PROVE  /\ \A row \in proc'[q].gone : row.day = proc'[q].day
               /\ proc'[q].day \notin mixed' => proc'[q].gone = {row \in daily' : row.day = proc'[q].day}
    <3>1. q # p /\ proc'[q] = proc[q]
      BY <2>2, <2>4
    <3>2. PICK d : d = proc[q].day
      OBVIOUS
    <3>3. \A row \in proc[q].gone : row.day = d
      BY <2>4, <3>1, <3>2 DEF GoneInv
    <3>4. ASSUME d \notin mixed PROVE {row \in daily' : row.day = d} = {row \in daily : row.day = d}
      <4>1. proc[p].day # d
        BY <2>1, <2>4, <3>1, <3>2, <3>4 DEF RollApart
      <4>2. \A row \in proc[p].gone : row.day # d
        BY <2>1, <4>1 DEF GoneInv
      <4>3. \A row \in DayRows(proc[p].day, proc[p].runs, proc[p].n, proc[p].excused) : row.day # d
        BY <4>1 DEF DayRows
      <4> HIDE DEF DayRows
      <4> QED
        BY <2>1, <4>2, <4>3
    <3>5. d \notin mixed => proc[q].gone = {row \in daily : row.day = d}
      BY <2>4, <3>1, <3>2 DEF GoneInv, DayDelete
    <3> QED
      BY <2>1, <3>1, <3>2, <3>3, <3>4, <3>5 DEF DayDelete
  <2> QED
    BY <2>3, <2>4 DEF GoneInv, DayDelete
<1> QED
  BY <1>1, <1>3, <1>4, <1>5, <1>6, StepKinds

\* What rollup_day writes: rows of its day, one for each group of the answers it reads.
LEMMA DayRowsShape ==
  ASSUME Types, NEW d, NEW rs, NEW n, NEW excused
  PROVE  \A row \in DayRows(d, rs, n, excused) :
           /\ row.day = d /\ row.excused = excused
           /\ row.counted = {x \in Scored(rs) : GroupOf(x) = row.group}
           /\ \A other \in DayRows(d, rs, n, excused) : other.group = row.group => other = row
<1> DEFINE rowOf(g) == [day |-> d, group |-> g, by |-> n, excused |-> excused,
                        counted |-> {x \in Scored(rs) : GroupOf(x) = g},
                        named |-> {x \in {y \in Scored(rs) : GroupOf(y) = g} : NamesBrand(x)},
                        cited |-> {x \in {y \in Scored(rs) : GroupOf(y) = g} : x.cites \in config.own}]
<1>1. DayRows(d, rs, n, excused) = {rowOf(g) : g \in {GroupOf(x) : x \in Scored(rs)}}
  BY DEF DayRows
<1>2. \A g : /\ rowOf(g).day = d /\ rowOf(g).excused = excused /\ rowOf(g).group = g
             /\ rowOf(g).counted = {x \in Scored(rs) : GroupOf(x) = g}
  OBVIOUS
<1> HIDE DEF rowOf
<1>3. SUFFICES ASSUME NEW row \in DayRows(d, rs, n, excused), NEW other \in DayRows(d, rs, n, excused)
      PROVE  /\ row.day = d /\ row.excused = excused
             /\ row.counted = {x \in Scored(rs) : GroupOf(x) = row.group}
             /\ other.group = row.group => other = row
  OBVIOUS
<1>4. PICK g : row = rowOf(g)
  BY <1>1
<1>5. PICK h : other = rowOf(h)
  BY <1>1
<1> QED
  BY <1>2, <1>4, <1>5

LEMMA CountedStep ==
  ASSUME Types, CountedInv, OneRow, GoneInv, [Next]_vars PROVE CountedInv' /\ OneRow'
<1>1. ASSUME daily' = daily, mixed \subseteq mixed' PROVE CountedInv' /\ OneRow'
  BY <1>1 DEF CountedInv, OneRow
<1>2. CASE Quiet
  BY <1>1, <1>2 DEF Quiet
<1>3. ASSUME NEW p \in Procs, Moved(p) PROVE CountedInv' /\ OneRow'
  BY <1>1, <1>3 DEF Moved
<1>4. ASSUME NEW p \in Procs, Extract(p) \/ CommitDerived(p) \/ RollupBegin(p)
      PROVE  CountedInv' /\ OneRow'
  <2>1. CASE Extract(p) \/ CommitDerived(p)
    BY <1>1, <2>1, ExtractShape, CommitShape
  <2>2. CASE RollupBegin(p)
    <3>1. daily' = daily /\ mixed \subseteq mixed'
      BY <2>2, RollupBeginShape
    <3> QED
      BY <1>1, <3>1
  <2> QED
    BY <1>4, <2>1, <2>2
<1>5. ASSUME NEW p \in Procs, RollupCommit(p) PROVE CountedInv' /\ OneRow'
  <2>1. PICK new : new = DayRows(proc[p].day, proc[p].runs, proc[p].n, proc[p].excused)
    OBVIOUS
  <2>2. proc[p].at = "rolling" /\ mixed' = mixed /\ daily' = (daily \ proc[p].gone) \cup new
    BY <1>5, <2>1, RollupCommitShape
  <2>3. \A row \in new : /\ row.day = proc[p].day
                         /\ row.counted = {x \in Scored(proc[p].runs) : GroupOf(x) = row.group}
                         /\ \A other \in new : other.group = row.group => other = row
    BY <2>1, DayRowsShape
  <2>4. \A x \in Scored(proc[p].runs) : x \in SearchAnswers(Answers)
    BY DEF Scored, SearchAnswers, Types
  <2>5. CountedInv'
    <3> SUFFICES ASSUME NEW row \in daily', NEW x \in row.counted
                 PROVE  x \in SearchAnswers(Answers) /\ GroupOf(x) = row.group
      BY DEF CountedInv
    <3>1. CASE row \in daily
      BY <3>1 DEF CountedInv
    <3>2. CASE row \in new
      BY <2>3, <2>4, <3>2
    <3> QED
      BY <2>2, <3>1, <3>2
  <2>6. OneRow'
    <3> SUFFICES ASSUME NEW a \in daily', NEW b \in daily', a.day = b.day, a.day \notin mixed,
                        a.group = b.group
                 PROVE  a = b
      BY <2>2 DEF OneRow
    <3>1. CASE a.day # proc[p].day
      BY <2>2, <2>3, <3>1 DEF OneRow
    <3>2. CASE a.day = proc[p].day
      <4>1. proc[p].gone = {row \in daily : row.day = a.day}
        BY <2>2, <3>2 DEF GoneInv, DayDelete
      <4>2. a \in new /\ b \in new
        BY <2>2, <4>1
      <4> QED
        BY <2>3, <4>2
    <3> QED
      BY <3>1, <3>2
  <2> QED
    BY <2>5, <2>6
<1> QED
  BY <1>2, <1>3, <1>4, <1>5, StepKinds

LEMMA OnceInit == ASSUME Init PROVE OnceInv
<1>1. PICK first : first = [r \in Runs |-> [status |-> "pending", began |-> 0, ended |-> 0, error |-> "none"]]
  OBVIOUS
<1>2. run = first /\ first \in [Runs -> RunRecords]
  BY <1>1 DEF Init, RunRecords
<1>3. /\ today = 1 /\ stored = {} /\ daily = {} /\ proc = [p \in Procs |-> Idle]
      /\ \A x \in Answers : derived[x] = {}
  BY DEF Init
<1>4. \A p \in Procs : proc[p] = Idle /\ proc[p].at = "idle" /\ proc[p].todo = {}
  BY <1>3 DEF Idle
<1>5. \A p \in Procs : PassTypes(p)
  BY <1>4 DEF PassTypes, Phases, Uncommitted, Pass
<1>6. DOMAIN proc = Procs /\ proc = [p \in Procs |-> proc[p]]
  BY <1>3
<1>7. Types
  BY <1>2, <1>3, <1>5, <1>6 DEF Types
<1>8. Apart /\ SawAll /\ RollApart /\ GoneInv
  BY <1>4 DEF Apart, InPass, SawAll, Uncommitted, Pass, RollApart, GoneInv
<1>9. SingleBatch /\ CountedInv /\ OneRow
  BY <1>3 DEF SingleBatch, CountedInv, OneRow
<1> QED
  BY <1>7, <1>8, <1>9 DEF OnceInv

LEMMA OnceStep == ASSUME OnceInv, [Next]_vars PROVE OnceInv'
BY TypesStep, ApartStep, SawAllStep, SingleBatchStep, RollStep, CountedStep DEF OnceInv

LEMMA OnceImplies == ASSUME OnceInv PROVE DerivedOnce
<1>1. OneCopy
  <2> SUFFICES ASSUME NEW x \in stored, x.run \notin crossed PROVE Cardinality(derived[x]) <= 1
    BY DEF OneCopy
  <2>1. \A a, b \in derived[x] : a = b
    BY DEF OnceInv, Types, SingleBatch
  <2>2. derived[x] = {} \/ \E b : derived[x] = {b}
    BY <2>1
  <2>3. Cardinality({}) = 0
    BY FS_EmptySet
  <2>4. \A b : Cardinality({b}) = 1
    BY FS_Singleton
  <2>5. Cardinality(derived[x]) = 0 \/ Cardinality(derived[x]) = 1
    BY <2>2, <2>3, <2>4, Zenon
  <2> QED
    BY <2>5
<1>2. DayCountsOnce
  BY DEF DayCountsOnce, OnceInv, OneRow, CountedInv
<1> QED
  BY <1>1, <1>2 DEF DerivedOnce

\* Whatever passes run, overlap, fail or are killed: unless two passes were over a run at
\* once, an answer of it has one pass's derived rows; unless two roll-ups of a day were,
\* the day has one row for a group and counts an answer once.
THEOREM AnswersDerivedOnce == Spec => []DerivedOnce
<1>1. Init => OnceInv
  BY OnceInit
<1>2. OnceInv /\ [Next]_vars => OnceInv'
  BY OnceStep
<1>3. OnceInv => DerivedOnce
  BY OnceImplies
<1> QED
  BY <1>1, <1>2, <1>3, PTL DEF Spec

-----------------------------------------------------------------------------
(* A row without mentions has its cause.                                     *)

\* A measured answer that has derived rows keeps some.
LEMMA DerivedStays ==
  ASSUME Types, [Next]_vars, NEW x \in SearchAnswers(Answers), derived[x] # {}
  PROVE  derived'[x] # {}
<1>1. x \in Answers /\ x.variant = "search" /\ x.ok
  BY DEF SearchAnswers
<1>2. CASE derived' = derived
  BY <1>2
<1>3. ASSUME NEW p \in Procs, CommitDerived(p) PROVE derived'[x] # {}
  <2>1. CASE x \notin proc[p].saw
    BY <1>1, <1>3, <2>1, CommitShape
  <2>2. CASE x \in proc[p].saw
    <3>1. x \in MeasuredAnswers(proc[p].saw)
      BY <1>1, <2>2 DEF MeasuredAnswers
    <3>2. PICK b : derived'[x] = Kept(p, x) \cup (IF x \in MeasuredAnswers(proc[p].saw) THEN {b} ELSE {})
      BY <1>1, <1>3, <2>2, CommitShape
    <3> QED
      BY <3>1, <3>2
  <2> QED
    BY <2>1, <2>2
<1>4. derived' = derived \/ \E p \in Procs : CommitDerived(p)
  BY StepKinds, ExtractShape, RollupBeginShape, RollupCommitShape DEF Quiet, Moved
<1> QED
  BY <1>2, <1>3, <1>4

\* A finished run that is covered stays both.
LEMMA CoveredStays ==
  ASSUME Types, [Next]_vars, NEW s \in Runs, run[s].status \in Done
  PROVE  run'[s].status \in Done /\ (Covered(s) => Covered(s)')
<1>1. World /\ Settles(s)
  BY StepKinds DEF World
<1>2. run'[s].status \in Done /\ \A x \in Answers : x.run = s => (x \in stored' <=> x \in stored)
  BY <1>1 DEF Settles
<1>3. ASSUME Covered(s), NEW x \in SearchAnswers(stored)', x.run = s PROVE derived'[x] # {}
  <2>1. x \in stored' /\ x.variant = "search" /\ x.ok /\ x \in Answers
    BY <1>1, <1>3 DEF SearchAnswers, World
  <2>2. x \in SearchAnswers(stored) /\ x \in SearchAnswers(Answers)
    BY <1>2, <1>3, <2>1 DEF SearchAnswers
  <2>3. derived[x] # {}
    BY <1>3, <2>2 DEF Covered
  <2> QED
    BY <2>2, <2>3, DerivedStays
<1>4. Covered(s) => Covered(s)'
  BY <1>3 DEF Covered
<1> QED
  BY <1>2, <1>4

LEMMA FreshStep ==
  ASSUME Types, FreshSawAll, [Next]_vars PROVE FreshSawAll'
<1>1. World /\ \A s \in Runs : Settles(s)
  BY StepKinds DEF World
<1>2. ASSUME NEW q \in Procs, Fresh(q), Fresh(q)', proc'[q].run = proc[q].run,
             proc'[q].saw = proc[q].saw
      PROVE  run'[proc'[q].run].status \in Done /\ proc'[q].saw = {x \in stored' : x.run = proc'[q].run}
  <2>1. PICK s : s = proc[q].run
    OBVIOUS
  <2>2. s \in Runs /\ run[s].status \in Done /\ proc[q].saw = {x \in stored : x.run = s}
    BY <1>2, <2>1 DEF FreshSawAll, StoredOf, Fresh, Uncommitted, Pass, Types, PassTypes
  <2>3. run'[s].status \in Done /\ \A x \in Answers : x.run = s => (x \in stored' <=> x \in stored)
    BY <1>1, <2>2 DEF Settles
  <2>4. stored \subseteq Answers /\ stored' \subseteq Answers
    BY <1>1 DEF Types, World
  <2>5. {x \in stored' : x.run = s} = {x \in stored : x.run = s}
    BY <2>3, <2>4
  <2> QED
    BY <1>2, <2>1, <2>2, <2>3, <2>5
<1>3. SUFFICES ASSUME NEW q \in Procs, Fresh(q)'
      PROVE  run'[proc'[q].run].status \in Done /\ proc'[q].saw = {x \in stored' : x.run = proc'[q].run}
  BY DEF FreshSawAll, StoredOf
<1>4. CASE proc'[q] = proc[q]
  BY <1>2, <1>3, <1>4 DEF Fresh, Uncommitted, Pass
<1>5. ASSUME NEW p \in Procs, Moved(p), proc'[q] # proc[q]
      PROVE  run'[proc'[q].run].status \in Done /\ proc'[q].saw = {x \in stored' : x.run = proc'[q].run}
  <2>1. q = p /\ proc'[q].at # "idle" /\ ~proc'[q].early
    BY <1>3, <1>5 DEF Moved, Begun, Idled, Others, Fresh, Uncommitted, Pass
  <2>2. Informed(p)
    BY <1>5, <2>1 DEF Moved, Idled, Idle
  <2> QED
    BY <2>1, <2>2 DEF Informed
<1>6. ASSUME NEW p \in Procs, Extract(p), proc'[q] # proc[q]
      PROVE  run'[proc'[q].run].status \in Done /\ proc'[q].saw = {x \in stored' : x.run = proc'[q].run}
  <2>1. q = p
    BY <1>6, ExtractShape DEF Keeps, Others
  <2>2. Fresh(q) /\ proc'[q].run = proc[q].run /\ proc'[q].saw = proc[q].saw
    BY <1>3, <1>6, <2>1, ExtractShape DEF Keeps, Fresh, Uncommitted, Pass
  <2> QED
    BY <1>2, <1>3, <2>2
<1>7. ASSUME NEW p \in Procs, CommitDerived(p) \/ RollupBegin(p) \/ RollupCommit(p), proc'[q] # proc[q]
      PROVE  FALSE
  <2>1. q = p
    BY <1>7, CommitShape, RollupBeginShape, RollupCommitShape DEF Keeps, Others
  <2>2. proc'[p].at \in {"derived", "rolling", "closing"}
    BY <1>7, CommitShape, RollupBeginShape, RollupCommitShape
  <2> QED
    BY <1>3, <2>1, <2>2 DEF Fresh, Uncommitted, Pass
<1> QED
  BY <1>4, <1>5, <1>6, <1>7, StepKinds DEF Quiet

\* The pass that commits with all the answers of its run covers it.
LEMMA CommitCovers ==
  ASSUME Types, FreshSawAll, NEW p \in Procs, CommitDerived(p), ~proc[p].early
  PROVE  run[proc[p].run].status \in Done /\ Covered(proc[p].run)'
<1>1. PICK s : s = proc[p].run
  OBVIOUS
<1>2. /\ Keeps(p) /\ proc[p].at = "extracted" /\ proc'[p].run = s
      /\ \A x \in proc[p].saw : x \in Answers =>
           \E b : derived'[x] = Kept(p, x) \cup (IF x \in MeasuredAnswers(proc[p].saw) THEN {b} ELSE {})
  BY <1>1, CommitShape DEF Keeps
<1>3. run[s].status \in Done /\ proc[p].saw = {x \in stored : x.run = s}
  BY <1>1, <1>2 DEF FreshSawAll, StoredOf, Fresh, Uncommitted, Pass
<1>4. ASSUME NEW x \in SearchAnswers(stored), x.run = s PROVE derived'[x] # {}
  <2>1. x \in proc[p].saw /\ x \in Answers /\ x \in MeasuredAnswers(proc[p].saw)
    BY <1>3, <1>4 DEF SearchAnswers, MeasuredAnswers, Types
  <2>2. PICK b : derived'[x] = Kept(p, x) \cup (IF x \in MeasuredAnswers(proc[p].saw) THEN {b} ELSE {})
    BY <1>2, <2>1
  <2> QED
    BY <2>1, <2>2
<1>5. SearchAnswers(stored)' = SearchAnswers(stored)
  BY <1>2 DEF Keeps, SearchAnswers
<1>6. \A x \in SearchAnswers(stored)' : x.run = proc'[p].run => derived'[x] # {}
  BY <1>2, <1>4, <1>5
<1> QED
  BY <1>1, <1>2, <1>3, <1>6 DEF Covered

LEMMA CoversStep ==
  ASSUME Types, FreshSawAll, FreshCovers, [Next]_vars PROVE FreshCovers'
<1> SUFFICES ASSUME NEW q \in Procs, proc'[q].at = "derived", ~proc'[q].early
             PROVE  run'[proc'[q].run].status \in Done /\ Covered(proc[q].run)'
  BY DEF FreshCovers, Covered
<1>1. PICK s : s = proc'[q].run
  OBVIOUS
<1>2. CASE proc'[q] = proc[q]
  <2>1. s \in Runs /\ run[s].status \in Done /\ Covered(s)
    BY <1>1, <1>2 DEF FreshCovers, Covered, Types, PassTypes
  <2>2. run'[s].status \in Done /\ Covered(s)'
    BY <2>1, CoveredStays
  <2> QED
    BY <1>1, <2>2 DEF Covered
<1>3. ASSUME NEW p \in Procs, CommitDerived(p), proc'[q] # proc[q]
      PROVE  run'[proc'[q].run].status \in Done /\ Covered(proc[q].run)'
  <2>1. q = p /\ Keeps(p) /\ ~proc[p].early
    BY <1>3, CommitShape DEF Keeps, Others
  <2>2. run[proc[p].run].status \in Done /\ Covered(proc[p].run)'
    BY <1>3, <2>1, CommitCovers
  <2> QED
    BY <2>1, <2>2 DEF Keeps, Covered
<1>4. ASSUME NEW p \in Procs, Others(p), proc'[p].at # "derived", proc'[q] # proc[q] PROVE FALSE
  BY <1>4 DEF Others
<1>5. ASSUME NEW p \in Procs, Moved(p), proc'[q] # proc[q] PROVE FALSE
  BY <1>4, <1>5 DEF Moved, Begun, Idled, Idle
<1>6. ASSUME NEW p \in Procs, Extract(p) \/ RollupBegin(p) \/ RollupCommit(p), proc'[q] # proc[q]
      PROVE  FALSE
  BY <1>4, <1>6, ExtractShape, RollupBeginShape, RollupCommitShape DEF Keeps
<1> QED
  BY <1>2, <1>3, <1>5, <1>6, StepKinds DEF Quiet

LEMMA AccountedStep ==
  ASSUME Types, FreshSawAll, Accounted, [Next]_vars PROVE Accounted'
<1> DEFINE Cause(s) == \/ Covered(s)' \/ s \in abandoned' \/ run'[s].error = "processing"
                       \/ \E q \in Procs : InPass(q, s)' /\ Fresh(q)'
<1> SUFFICES ASSUME NEW s \in Runs, run'[s].status \in Done PROVE Cause(s)
  BY DEF Accounted
<1>1. World /\ Settles(s)
  BY StepKinds DEF World
<1>2. CASE run[s].status \notin Done
  <2>1. PICK p \in Procs : Begun(p) /\ proc'[p].run = s /\ ~proc'[p].early
    BY <1>1, <1>2 DEF Settles
  <2>2. InPass(p, s)' /\ Fresh(p)'
    BY <2>1 DEF Begun, InPass, Fresh, Uncommitted, Pass
  <2> QED
    BY <2>2
<1>3. CASE run[s].status \in Done /\ (Covered(s) \/ s \in abandoned \/ run[s].error = "processing")
  BY <1>1, <1>3, CoveredStays DEF World, Settles
<1>4. ASSUME run[s].status \in Done, NEW q \in Procs, InPass(q, s), Fresh(q) PROVE Cause(s)
  <2>0. proc[q].run = s /\ Uncommitted(q) /\ ~proc[q].early
    BY <1>4 DEF InPass, Fresh
  <2>1. CASE proc'[q] = proc[q]
    <3>1. InPass(q, s)' /\ Fresh(q)'
      BY <1>4, <2>1 DEF InPass, Fresh, Uncommitted, Pass
    <3> QED
      BY <3>1
  <2>2. ASSUME NEW p \in Procs, Moved(p), proc'[q] # proc[q] PROVE Cause(s)
    <3>1. q = p /\ Left(p)
      BY <2>2 DEF Moved, Begun, Idled, Others
    <3> QED
      BY <2>0, <3>1 DEF Left
  <2>3. ASSUME NEW p \in Procs, Extract(p), proc'[q] # proc[q] PROVE Cause(s)
    <3>1. q = p
      BY <2>3, ExtractShape DEF Keeps, Others
    <3>2. InPass(q, s)' /\ Fresh(q)'
      BY <2>0, <2>3, <3>1, ExtractShape DEF Keeps, InPass, Fresh, Uncommitted, Pass
    <3> QED
      BY <3>2
  <2>4. ASSUME NEW p \in Procs, CommitDerived(p), proc'[q] # proc[q] PROVE Cause(s)
    <3>1. q = p /\ Keeps(p)
      BY <2>4, CommitShape DEF Keeps, Others
    <3>2. Covered(proc[p].run)'
      BY <2>0, <2>4, <3>1, CommitCovers
    <3>3. Covered(s)'
      BY <2>0, <3>1, <3>2 DEF Keeps, Covered
    <3> QED
      BY <3>3
  <2>5. ASSUME NEW p \in Procs, RollupBegin(p) \/ RollupCommit(p), proc'[q] # proc[q] PROVE FALSE
    <3>1. q = p /\ proc[p].at \in {"derived", "rolling"}
      BY <2>5, RollupBeginShape, RollupCommitShape DEF Keeps, Others
    <3> QED
      BY <2>0, <3>1 DEF Uncommitted, Pass
  <2> QED
    BY <2>1, <2>2, <2>3, <2>4, <2>5, StepKinds DEF Quiet
<1> QED
  BY <1>2, <1>3, <1>4 DEF Accounted

LEMMA RollCoveredStep ==
  ASSUME Types, FreshCovers, Accounted, RollCovered, [Next]_vars PROVE RollCovered'
<1> SUFFICES ASSUME NEW q \in Procs, proc'[q].at = "rolling", NEW s \in Runs, s \in proc'[q].runs,
                    s \notin proc'[q].excused
             PROVE  run'[s].status \in Done /\ Covered(s)'
  BY DEF RollCovered
<1>1. CASE proc'[q] = proc[q]
  <2>1. run[s].status \in Done /\ Covered(s)
    BY <1>1 DEF RollCovered
  <2> QED
    BY <2>1, CoveredStays
<1>2. ASSUME NEW p \in Procs, Others(p), proc'[p].at # "rolling", proc'[q] # proc[q] PROVE FALSE
  BY <1>2 DEF Others
<1>3. ASSUME NEW p \in Procs, Moved(p), proc'[q] # proc[q] PROVE FALSE
  BY <1>2, <1>3 DEF Moved, Begun, Idled, Idle
<1>4. ASSUME NEW p \in Procs, Extract(p) \/ CommitDerived(p) \/ RollupCommit(p), proc'[q] # proc[q]
      PROVE  FALSE
  BY <1>2, <1>4, ExtractShape, CommitShape, RollupCommitShape DEF Keeps
<1>5. ASSUME NEW p \in Procs, RollupBegin(p), proc'[q] # proc[q]
      PROVE  run'[s].status \in Done /\ Covered(s)'
  <2>1. q = p /\ proc[p].at = "derived"
    BY <1>5, RollupBeginShape DEF Keeps, Others
  <2>2. PICK d : d = proc'[p].day
    OBVIOUS
  <2>3. proc'[p].runs = RunsOfDay(d, proc[p].run) /\ proc'[p].excused = Excused(p)
    BY <1>5, <2>2, RollupBeginShape DEF RunsOfDay
  <2>4. s = proc[p].run \/ (run[s].status \in Done /\ run[s].error # "processing")
    BY <2>1, <2>3 DEF RunsOfDay
  <2>5. /\ ~(InPass(p, s) /\ proc[p].early) /\ s \notin abandoned
        /\ \A o \in Procs : ~(InPass(o, s) /\ Fresh(o))
    BY <2>1, <2>3 DEF Excused, Pass, OnRun, Fresh, Uncommitted
  <2>6. CASE s = proc[p].run
    BY <2>1, <2>5, <2>6, CoveredStays DEF FreshCovers, InPass, Covered
  <2>7. CASE s # proc[p].run
    <3>1. run[s].status \in Done /\ Covered(s)
      BY <2>4, <2>5, <2>7 DEF Accounted
    <3> QED
      BY <3>1, CoveredStays
  <2> QED
    BY <2>6, <2>7
<1> QED
  BY <1>1, <1>3, <1>4, <1>5, StepKinds DEF Quiet

LEMMA BlindStep ==
  ASSUME Types, CountedInv, RollCovered, BlindRowsHaveCause, [Next]_vars PROVE BlindRowsHaveCause'
<1> SUFFICES ASSUME NEW row \in daily', NEW x \in row.counted, derived'[x] = {}
             PROVE  x.run \in row.excused
  BY DEF BlindRowsHaveCause
<1>1. CASE row \in daily
  <2>1. x \in SearchAnswers(Answers)
    BY <1>1 DEF CountedInv
  <2>2. derived[x] = {}
    BY <2>1, DerivedStays
  <2> QED
    BY <1>1, <2>2 DEF BlindRowsHaveCause
<1>2. ASSUME NEW p \in Procs, RollupCommit(p), row \notin daily PROVE x.run \in row.excused
  <2>1. PICK new : new = DayRows(proc[p].day, proc[p].runs, proc[p].n, proc[p].excused)
    OBVIOUS
  <2>2. /\ proc[p].at = "rolling" /\ row \in new /\ derived' = derived
    BY <1>2, <2>1, RollupCommitShape
  <2>3. row.excused = proc[p].excused /\ row.counted = {y \in Scored(proc[p].runs) : GroupOf(y) = row.group}
    BY <2>1, <2>2, DayRowsShape
  <2>4. x \in SearchAnswers(stored) /\ x.run \in proc[p].runs
    BY <2>3 DEF Scored
  <2>5. x.run \in Runs
    BY <2>4, ProcessingAssumption DEF SearchAnswers, Types
  <2> QED
    BY <2>2, <2>3, <2>4, <2>5 DEF RollCovered, Covered
<1>3. daily' = daily \/ \E p \in Procs : RollupCommit(p)
  BY StepKinds, ExtractShape, CommitShape, RollupBeginShape DEF Quiet, Moved
<1> QED
  BY <1>1, <1>2, <1>3

LEMMA BlindInit == ASSUME Init PROVE BlindInv
<1>1. Types /\ CountedInv
  BY OnceInit DEF OnceInv
<1>2. \A r \in Runs : run[r].status = "pending"
  BY DEF Init
<1>3. \A p \in Procs : proc[p].at = "idle"
  BY DEF Init, Idle
<1>4. daily = {}
  BY DEF Init
<1> QED
  BY <1>1, <1>2, <1>3, <1>4
  DEF BlindInv, FreshSawAll, Fresh, Uncommitted, Pass, FreshCovers, Accounted, Done, RollCovered,
      BlindRowsHaveCause

\* Whatever passes overlap, fail or are killed: a day's row counts an answer that has no
\* derived rows only if its run is among those rollup_day had a cause to find without.
THEOREM BlindRowsExcused == Spec => []BlindRowsHaveCause
<1>1. Init => OnceInv /\ BlindInv
  BY OnceInit, BlindInit
<1>2. OnceInv /\ BlindInv /\ [Next]_vars => OnceInv' /\ BlindInv'
  BY OnceStep, FreshStep, CoversStep, AccountedStep, RollCoveredStep, BlindStep DEF BlindInv, OnceInv
<1>3. BlindInv => BlindRowsHaveCause
  BY DEF BlindInv
<1> QED
  BY <1>1, <1>2, <1>3, PTL DEF Spec

-----------------------------------------------------------------------------
(* The extraction pass and the month's cap.                                  *)

\* No two passes bought calls at once, none were over one run, none was cut short.
Calm == ~met /\ crossed = {} /\ faults = 0
Buying(p) == proc[p].at = "extracted"

\* Then what is paid is what the runs have booked and what the one pass that has bought
\* calls is about to book.
BudgetInv ==
  /\ cost \in [Runs -> Nat] /\ paid \in Nat /\ faults \in Nat /\ met \in BOOLEAN
  /\ \A p \in Procs : /\ Uncommitted(p) => proc[p].cost \in Nat
                      /\ Buying(p) => proc[p].calls \in Nat
  /\ Calm => /\ \A p \in Procs : Uncommitted(p) => proc[p].cost = cost[proc[p].run]
             /\ \A p, q \in Procs : Buying(p) /\ Buying(q) => p = q
             /\ \A p \in Procs : Buying(p) => paid = Spent + proc[p].calls
             /\ (\A p \in Procs : ~Buying(p)) => paid = Spent
             /\ paid <= SpendCap

LEMMA SpentIs == Spent = SumOver(cost, Runs) /\ Spent' = SumOver(cost', Runs)
<1>1. Spent = SumOver(cost, Runs)
  BY DEF Spent, SumOver
<1>2. Spent' = SumOver(cost', Runs)
  BY DEF Spent, SumOver, FoldSet, MapThenFoldSet
<1> QED
  BY <1>1, <1>2

LEMMA SpentSum ==
  ASSUME cost \in [Runs -> Nat]
  PROVE  Spent = SumOver(cost, Runs) /\ Spent \in Nat
<1>1. Spent = SumOver(cost, Runs)
  BY SpentIs
<1>2. PICK f : f = cost
  OBVIOUS
<1>3. IsFiniteSet(Runs)
  BY ProcessingAssumption
<1>4. SumOver(f, Runs) \in Nat
  BY <1>2, <1>3, SumIsNat
<1> QED
  BY <1>1, <1>2, <1>4

\* Max and Min of two integers.
\* What a pass may buy: nothing beyond what is left of the cap.
LEMMA AffordableBound ==
  ASSUME NEW S \in SUBSET Answers, Spent \in Nat
  PROVE  /\ Affordable(S) \in Nat
         /\ Spent <= SpendCap => Spent + Affordable(S) <= SpendCap
<1>1. SpendCap \in Nat /\ IsFiniteSet(Answers)
  BY ProcessingAssumption
<1>2. CASE ~Extraction
  BY <1>1, <1>2 DEF Affordable
<1>3. CASE Extraction
  <2>1. PICK n : n = Cardinality(SearchAnswers(S))
    OBVIOUS
  <2>2. n \in Nat
    <3>1. SearchAnswers(S) \in SUBSET Answers
      BY DEF SearchAnswers
    <3>2. IsFiniteSet(SearchAnswers(S))
      BY <1>1, <3>1, FS_Subset
    <3> QED
      BY <2>1, <3>2, FS_CardinalityType
  <2>3. PICK left \in Int : left = SpendCap - Spent
    BY <1>1
  <2>4. PICK m : m = Max({0, left})
    OBVIOUS
  <2>5. m \in {0, left} /\ 0 <= m
    <3>1. 0 \in Int
      OBVIOUS
    <3>2. Max({0, left}) \in {0, left} /\ 0 <= Max({0, left})
      BY <3>1, TwoBounds, Zenon
    <3> QED
      BY <2>4, <3>2
  <2>6. m \in Int /\ n \in Int
    BY <2>2, <2>5
  <2>7. PICK a : a = Min({n, m})
    OBVIOUS
  <2>8. a \in {n, m} /\ a <= m
    BY <2>6, <2>7, TwoBounds
  <2>9. Affordable(S) = a
    BY <1>3, <2>1, <2>3, <2>4, <2>7 DEF Affordable
  <2>10. a \in Nat /\ (Spent <= SpendCap => Spent + a <= SpendCap)
    BY <1>1, <2>2, <2>3, <2>5, <2>8
  <2> QED
    BY <2>9, <2>10
<1> QED
  BY <1>2, <1>3

LEMMA ExtractPays ==
  ASSUME Types, NEW p \in Procs, Extract(p)
  PROVE  /\ proc'[p].calls = Affordable(proc[p].saw) /\ paid' = paid + Affordable(proc[p].saw)
         /\ proc'[p].cost = proc[p].cost /\ cost' = cost
         /\ met' = (met \/ \E o \in Procs : Buying(o))
<1>1. PICK calls : calls = Affordable(proc[p].saw)
  OBVIOUS
<1>2. PICK rec : rec = [at |-> "extracted", run |-> Pass(p).run, n |-> Pass(p).n,
                       todo |-> Pass(p).todo, saw |-> Pass(p).saw, config |-> Pass(p).config,
                       cost |-> Pass(p).cost, early |-> Pass(p).early, rows |-> Pass(p).rows,
                       calls |-> calls]
  OBVIOUS
<1>3. rec.calls = calls /\ rec.cost = proc[p].cost
  BY <1>2 DEF Pass
<1>4. proc' = [proc EXCEPT ![p] = rec]
  BY <1>1, <1>2 DEF Extract, Become, Pass
<1>5. proc'[p] = rec
  BY <1>4 DEF Types
<1>6. paid' = paid + calls /\ cost' = cost /\ met' = (met \/ \E o \in Procs : Buying(o))
  BY <1>1 DEF Extract, Pass, tables, Buying
<1> QED
  BY <1>1, <1>3, <1>5, <1>6

LEMMA CommitBooks ==
  ASSUME Types, NEW p \in Procs, CommitDerived(p)
  PROVE  /\ paid' = paid /\ met' = met
         /\ cost' = IF proc[p].calls = 0 THEN cost
                    ELSE [cost EXCEPT ![proc[p].run] = proc[p].cost + proc[p].calls]
BY DEF CommitDerived, Pass, history

LEMMA RollupsFree ==
  ASSUME NEW p \in Procs, RollupBegin(p) \/ RollupCommit(p)
  PROVE  UNCHANGED <<cost, paid, met>>
BY DEF RollupBegin, RollupCommit, tables

\* While the passes stay calm they were calm before.
LEMMA CalmBefore ==
  ASSUME Types, BudgetInv, [Next]_vars, Calm'
  PROVE  Calm
<1>1. faults' \in {faults, faults + 1} /\ faults \in Nat /\ faults' = 0
  BY StepKinds DEF World, BudgetInv, Calm
<1>2. faults = 0
  BY <1>1
<1>3. crossed \subseteq crossed'
  BY StepKinds, ExtractShape, CommitShape, RollupBeginShape, RollupCommitShape
  DEF Quiet, Moved, Begun, Idled, Keeps
<1>4. met => met'
  <2>1. CASE met' = met
    BY <2>1
  <2>2. ASSUME NEW p \in Procs, Extract(p) PROVE met => met'
    BY <2>2 DEF Extract
  <2> QED
    BY <2>1, <2>2, StepKinds, CommitBooks, RollupsFree DEF Quiet, Moved
<1> QED
  BY <1>2, <1>3, <1>4 DEF Calm

LEMMA BudgetStep ==
  ASSUME Types, Apart, BudgetInv, [Next]_vars PROVE BudgetInv'
<1>1. faults' \in Nat
  BY StepKinds DEF World, BudgetInv
<1>2. \A p \in Procs : PassTypes(p)
  BY DEF Types
<1>3. Spent \in Nat
  BY SpentSum DEF BudgetInv
<1>4. ASSUME UNCHANGED <<cost, paid, met>>,
             \A p \in Procs : Uncommitted(p)' =>
               \/ /\ Uncommitted(p) /\ proc'[p].cost = proc[p].cost /\ proc'[p].run = proc[p].run
                  /\ Buying(p)' => Buying(p) /\ proc'[p].calls = proc[p].calls
               \/ ~Buying(p)' /\ proc'[p].run \in Runs /\ proc'[p].cost = cost[proc'[p].run],
             \A p \in Procs : Buying(p) => Buying(p)' \/ ~Calm'
      PROVE  BudgetInv'
  <2>1. Spent' = Spent
    BY <1>4, SpentIs
  <2>2. \A p \in Procs : Buying(p)' => /\ Uncommitted(p)' /\ Buying(p)
                                       /\ proc'[p].calls = proc[p].calls
    BY <1>4 DEF Buying, Uncommitted, Pass
  <2>3. \A p \in Procs : Uncommitted(p)' => proc'[p].cost \in Nat
    BY <1>4 DEF BudgetInv
  <2>4. ASSUME Calm'
        PROVE  /\ \A p \in Procs : Uncommitted(p)' => proc'[p].cost = cost'[proc'[p].run]
               /\ \A p, q \in Procs : Buying(p)' /\ Buying(q)' => p = q
               /\ \A p \in Procs : Buying(p)' => paid' = Spent' + proc'[p].calls
               /\ (\A p \in Procs : ~Buying(p)') => paid' = Spent'
               /\ paid' <= SpendCap
    <3>1. Calm
      BY <2>4, CalmBefore
    <3>2. \A p \in Procs : Uncommitted(p)' => proc'[p].cost = cost'[proc'[p].run]
      BY <1>4, <3>1 DEF BudgetInv
    <3>3. \A p \in Procs : Buying(p)' <=> Buying(p)
      BY <1>4, <2>2, <2>4
    <3> QED
      BY <1>4, <2>1, <2>2, <3>1, <3>2, <3>3 DEF BudgetInv
  <2> QED
    BY <1>1, <1>4, <2>2, <2>3, <2>4 DEF BudgetInv
<1>5. CASE Quiet
  BY <1>4, <1>5 DEF Quiet, Uncommitted, Buying, Pass
<1>6. ASSUME NEW p \in Procs, Moved(p) PROVE BudgetInv'
  <2>1. Others(p) /\ UNCHANGED <<cost, paid, met>>
    BY <1>6 DEF Moved, Begun, Idled
  <2>2. \/ ~Uncommitted(p)'
        \/ ~Buying(p)' /\ proc'[p].run \in Runs /\ proc'[p].cost = cost[proc'[p].run]
    BY <1>6 DEF Moved, Begun, Idled, Idle, Uncommitted, Buying, Pass
  <2>3. Buying(p) => ~Calm'
    <3>1. Buying(p) => faults' = faults + 1
      BY <1>6 DEF Moved, Left, Buying, Uncommitted, Pass
    <3> QED
      BY <3>1 DEF Calm, BudgetInv
  <2>4. \A q \in Procs \ {p} : /\ Uncommitted(q)' = Uncommitted(q) /\ Buying(q)' = Buying(q)
                               /\ proc'[q] = proc[q]
    BY <2>1 DEF Others, Uncommitted, Buying, Pass
  <2> QED
    BY <1>4, <2>1, <2>2, <2>3, <2>4
<1>7. ASSUME NEW p \in Procs, RollupBegin(p) \/ RollupCommit(p) PROVE BudgetInv'
  <2>1. Keeps(p) /\ ~Uncommitted(p)' /\ ~Buying(p) /\ ~Buying(p)'
    BY <1>7, RollupBeginShape, RollupCommitShape DEF Uncommitted, Buying, Pass
  <2>2. UNCHANGED <<cost, paid, met>>
    BY <1>7, RollupsFree
  <2>3. \A q \in Procs \ {p} : /\ Uncommitted(q)' = Uncommitted(q) /\ Buying(q)' = Buying(q)
                               /\ proc'[q] = proc[q]
    BY <2>1 DEF Keeps, Others, Uncommitted, Buying, Pass
  <2> QED
    BY <1>4, <2>1, <2>2, <2>3
<1>8. ASSUME NEW p \in Procs, Extract(p) PROVE BudgetInv'
  <2>1. /\ Keeps(p) /\ proc[p].at = "deriving" /\ proc'[p].at = "extracted"
        /\ proc'[p].cost = proc[p].cost /\ cost' = cost
        /\ met' = (met \/ \E o \in Procs : Buying(o))
    BY <1>8, ExtractShape, ExtractPays
  <2>2. PICK saw : saw = proc[p].saw
    OBVIOUS
  <2>3. saw \in SUBSET Answers
    BY <1>2, <2>1, <2>2 DEF PassTypes, Uncommitted, Pass
  <2>4. PICK calls : calls = Affordable(saw)
    OBVIOUS
  <2>5. calls \in Nat /\ (Spent <= SpendCap => Spent + calls <= SpendCap)
    BY <1>3, <2>3, <2>4, AffordableBound
  <2>6. proc'[p].calls = calls /\ paid' = paid + calls
    BY <1>8, <2>2, <2>4, ExtractPays
  <2>7. \A q \in Procs \ {p} : /\ Uncommitted(q)' = Uncommitted(q) /\ Buying(q)' = Buying(q)
                               /\ proc'[q] = proc[q]
    BY <2>1 DEF Keeps, Others, Uncommitted, Buying, Pass
  <2>8. Uncommitted(p) /\ ~Buying(p) /\ Buying(p)' /\ proc'[p].run = proc[p].run
    BY <2>1 DEF Keeps, Uncommitted, Buying, Pass
  <2>9. Spent' = Spent
    BY <2>1, SpentIs
  <2>10. \A q \in Procs : /\ Uncommitted(q)' => proc'[q].cost \in Nat
                          /\ Buying(q)' => proc'[q].calls \in Nat
    BY <2>1, <2>5, <2>6, <2>7, <2>8 DEF BudgetInv
  <2>11. met' \in BOOLEAN
    BY <2>1 DEF BudgetInv
  <2>12. paid' \in Nat
    BY <2>5, <2>6 DEF BudgetInv
  <2>13. ASSUME Calm'
         PROVE  /\ \A q \in Procs : Uncommitted(q)' => proc'[q].cost = cost'[proc'[q].run]
                /\ \A q, o \in Procs : Buying(q)' /\ Buying(o)' => q = o
                /\ \A q \in Procs : Buying(q)' => paid' = Spent' + proc'[q].calls
                /\ (\A q \in Procs : ~Buying(q)') => paid' = Spent'
                /\ paid' <= SpendCap
    <3>1. Calm
      BY <2>13, CalmBefore
    <3>2. \A o \in Procs : ~Buying(o)
      BY <2>1, <2>13 DEF Calm
    <3>3. paid = Spent /\ paid <= SpendCap
      BY <3>1, <3>2 DEF BudgetInv
    <3>4. \A q \in Procs : Uncommitted(q)' => proc'[q].cost = cost'[proc'[q].run]
      BY <2>1, <2>7, <2>8, <3>1 DEF BudgetInv
    <3>5. \A q \in Procs : Buying(q)' => q = p
      BY <2>7, <3>2
    <3>6. paid' = Spent' + calls /\ paid' <= SpendCap
      BY <2>5, <2>6, <2>9, <3>3
    <3> QED
      BY <2>6, <2>8, <3>4, <3>5, <3>6
  <2> QED
    BY <1>1, <2>1, <2>10, <2>11, <2>12, <2>13 DEF BudgetInv
<1>9. ASSUME NEW p \in Procs, CommitDerived(p) PROVE BudgetInv'
  <2>1. /\ Keeps(p) /\ proc[p].at = "extracted" /\ proc'[p].at = "derived"
        /\ paid' = paid /\ met' = met
        /\ cost' = IF proc[p].calls = 0 THEN cost
                   ELSE [cost EXCEPT ![proc[p].run] = proc[p].cost + proc[p].calls]
    BY <1>9, CommitShape, CommitBooks
  <2>2. PICK r \in Runs : r = proc[p].run
    BY <1>2, <2>1 DEF PassTypes
  <2>3. Uncommitted(p) /\ Buying(p) /\ ~Uncommitted(p)' /\ ~Buying(p)'
    BY <2>1 DEF Uncommitted, Buying, Pass
  <2>4. PICK calls \in Nat : calls = proc[p].calls
    BY <2>3 DEF BudgetInv
  <2>5. PICK booked \in Nat : booked = proc[p].cost
    BY <2>3 DEF BudgetInv
  <2>6. /\ cost \in [Runs -> Nat] /\ cost' \in [Runs -> Nat]
        /\ \A s \in Runs \ {r} : cost'[s] = cost[s]
        /\ cost'[r] = IF calls = 0 THEN cost[r] ELSE booked + calls
    BY <2>1, <2>2, <2>4, <2>5 DEF BudgetInv
  <2>7. \A q \in Procs \ {p} : /\ Uncommitted(q)' = Uncommitted(q) /\ Buying(q)' = Buying(q)
                               /\ proc'[q] = proc[q]
    BY <2>1 DEF Keeps, Others, Uncommitted, Buying, Pass
  <2>8. \A q \in Procs : /\ Uncommitted(q)' => proc'[q].cost \in Nat
                         /\ Buying(q)' => proc'[q].calls \in Nat
    BY <2>3, <2>7 DEF BudgetInv
  <2>9. ASSUME Calm'
        PROVE  /\ \A q \in Procs : Uncommitted(q)' => proc'[q].cost = cost'[proc'[q].run]
               /\ \A q, o \in Procs : Buying(q)' /\ Buying(o)' => q = o
               /\ \A q \in Procs : Buying(q)' => paid' = Spent' + proc'[q].calls
               /\ (\A q \in Procs : ~Buying(q)') => paid' = Spent'
               /\ paid' <= SpendCap
    <3>1. Calm
      BY <2>9, CalmBefore
    <3>2. booked = cost[r] /\ paid = Spent + calls /\ paid <= SpendCap
      BY <2>2, <2>3, <2>4, <2>5, <3>1 DEF BudgetInv
    <3>3. \A q \in Procs : ~Buying(q)'
      BY <2>3, <2>7, <3>1 DEF BudgetInv
    <3>4. Spent' = Spent + calls
      <4>1. PICK f : f = cost
        OBVIOUS
      <4>2. PICK g : g = cost'
        OBVIOUS
      <4>3. f \in [Runs -> Nat] /\ g \in [Runs -> Nat] /\ g[r] = f[r] + calls
            /\ \A s \in Runs \ {r} : f[s] = g[s]
        BY <2>6, <3>2, <4>1, <4>2
      <4>4. \A s \in Runs : f[s] \in Int /\ g[s] \in Int
        BY <4>3
      <4>5. IsFiniteSet(Runs)
        BY ProcessingAssumption
      <4>6. SumOver(g, Runs) = SumOver(f, Runs) + (g[r] - f[r])
        BY <4>3, <4>4, <4>5, SumMoves
      <4>7. Spent = SumOver(f, Runs) /\ Spent' = SumOver(g, Runs)
        BY <4>1, <4>2, SpentIs
      <4>8. g[r] - f[r] = calls
        BY <4>3, <4>4
      <4> QED
        BY <4>6, <4>7, <4>8
    <3>5. \A q \in Procs : Uncommitted(q)' => proc'[q].cost = cost'[proc'[q].run]
      <4> SUFFICES ASSUME NEW q \in Procs, Uncommitted(q)' PROVE proc'[q].cost = cost'[proc'[q].run]
        OBVIOUS
      <4>1. q # p /\ Uncommitted(q) /\ proc'[q] = proc[q]
        BY <2>3, <2>7
      <4>2. proc[q].run \in Runs /\ proc[q].cost = cost[proc[q].run]
        BY <1>2, <3>1, <4>1 DEF PassTypes, Uncommitted, Pass, BudgetInv
      <4>3. proc[q].run # r
        BY <2>2, <2>3, <3>1, <4>1 DEF Apart, InPass, Calm, Uncommitted, Pass
      <4> QED
        BY <2>6, <4>1, <4>2, <4>3
    <3> QED
      BY <2>1, <3>2, <3>3, <3>4, <3>5
  <2> QED
    BY <1>1, <2>1, <2>6, <2>8, <2>9 DEF BudgetInv
<1> QED
  BY <1>5, <1>6, <1>7, <1>8, <1>9, StepKinds

LEMMA BudgetInit == ASSUME Init PROVE BudgetInv
<1>1. /\ cost = [r \in Runs |-> 0] /\ paid = 0 /\ faults = 0 /\ met = FALSE
      /\ \A p \in Procs : proc[p].at = "idle"
  BY DEF Init, Idle
<1>2. PICK f : f = cost
  OBVIOUS
<1>3. f \in [Runs -> Nat] /\ \A r \in Runs : f[r] = 0
  BY <1>1, <1>2
<1>4. Spent = 0
  <2>1. IsFiniteSet(Runs)
    BY ProcessingAssumption
  <2>2. SumOver(f, Runs) = 0
    BY <1>3, <2>1, SumZero
  <2> QED
    BY <1>2, <2>2, SpentIs
<1>5. SpendCap \in Nat
  BY ProcessingAssumption
<1>6. \A p \in Procs : ~Uncommitted(p) /\ ~Buying(p)
  BY <1>1 DEF Uncommitted, Buying, Pass
<1>7. cost \in [Runs -> Nat] /\ paid \in Nat /\ faults \in Nat /\ met \in BOOLEAN
  BY <1>1
<1>8. paid = Spent /\ paid <= SpendCap
  BY <1>1, <1>4, <1>5
<1> QED
  BY <1>6, <1>7, <1>8 DEF BudgetInv

\* However many passes run and however they interleave: as long as no two bought calls at
\* once, were over one run or were cut short, the calls made stay within the month's cap.
THEOREM ExtractionCapped == Spec => []ExtractionWithinCap
<1>1. Init => OnceInv /\ BudgetInv
  BY OnceInit, BudgetInit
<1>2. OnceInv /\ BudgetInv /\ [Next]_vars => OnceInv' /\ BudgetInv'
  BY OnceStep, BudgetStep DEF OnceInv
<1>3. BudgetInv => ExtractionWithinCap
  BY DEF BudgetInv, Calm, ExtractionWithinCap
<1> QED
  BY <1>1, <1>2, <1>3, PTL DEF Spec

-----------------------------------------------------------------------------
(* The representative capture.  AioRep folds the captures in no order: what  *)
(* it returns is one that no other displaces, by smallest counterexamples.   *)

ScanStep(g, s) == IF s = {} THEN NoRow ELSE Prefer(Picked(s), g[s \ {Picked(s)}])
IsScan(T, g) == g = [s \in SUBSET T |-> ScanStep(g, s)]
Scanned(S) == FoldSet(Prefer, NoRow, S)

LEMMA ScanIsChosen == ASSUME NEW S PROVE Scanned(S) = (CHOOSE g : IsScan(S, g))[S]
BY Zenon DEF Scanned, FoldSet, MapThenFoldSet, IsScan, ScanStep, Picked

LEMMA ScanUnique ==
  ASSUME NEW A, NEW B, NEW g, NEW h, IsScan(A, g), IsScan(B, h),
         NEW T, IsFiniteSet(T), T \subseteq A, T \subseteq B
  PROVE  g[T] = h[T]
<1> DEFINE Bad == {s \in SUBSET T : g[s] # h[s]}
<1> SUFFICES ASSUME Bad # {} PROVE FALSE
  OBVIOUS
<1>1. PICK s \in Bad : \A U \in Bad : ~(U \subseteq s /\ U # s)
  <2>1. Bad \in SUBSET (SUBSET T)
    OBVIOUS
  <2> HIDE DEF Bad
  <2> QED
    BY <2>1, SmallestMember
<1>2. s \in SUBSET A /\ s \in SUBSET B /\ g[s] # h[s]
  BY <1>1
<1>3. g[s] = ScanStep(g, s) /\ h[s] = ScanStep(h, s)
  BY <1>2 DEF IsScan
<1>4. CASE s = {}
  BY <1>2, <1>3, <1>4 DEF ScanStep
<1>5. CASE s # {}
  <2>1. Picked(s) \in s
    BY <1>5, PickedIn
  <2>2. s \ {Picked(s)} \notin Bad
    BY <1>1, <2>1
  <2>3. g[s \ {Picked(s)}] = h[s \ {Picked(s)}]
    BY <1>1, <2>2
  <2> QED
    BY <1>2, <1>3, <1>5, <2>3 DEF ScanStep
<1> QED
  BY <1>4, <1>5

LEMMA ScanExists ==
  ASSUME NEW S, IsFiniteSet(S) PROVE \E g : IsScan(S, g)
<1> DEFINE Bad == {T \in SUBSET S : ~\E g : IsScan(T, g)}
           val(s) == (CHOOSE h : IsScan(s, h))[s]
<1> SUFFICES ASSUME Bad # {} PROVE FALSE
  OBVIOUS
<1>1. PICK T \in Bad : \A U \in Bad : ~(U \subseteq T /\ U # T)
  <2>1. Bad \in SUBSET (SUBSET S)
    OBVIOUS
  <2> HIDE DEF Bad
  <2> QED
    BY <2>1, SmallestMember
<1>2. \A s \in SUBSET T : IsFiniteSet(s)
  BY <1>1, FS_Subset
<1>3. \A s \in SUBSET T : s # T => IsScan(s, CHOOSE h : IsScan(s, h))
  <2> SUFFICES ASSUME NEW s \in SUBSET T, s # T PROVE \E h : IsScan(s, h)
    OBVIOUS
  <2>1. s \in SUBSET S /\ s \notin Bad
    BY <1>1
  <2> QED
    BY <2>1
<1>4. \A s \in SUBSET T : s # T /\ s # {} => val(s) = Prefer(Picked(s), val(s \ {Picked(s)}))
  <2> SUFFICES ASSUME NEW s \in SUBSET T, s # T, s # {}
               PROVE  val(s) = Prefer(Picked(s), val(s \ {Picked(s)}))
    OBVIOUS
  <2>1. PICK t : t = s \ {Picked(s)}
    OBVIOUS
  <2>2. t \in SUBSET T /\ t # T /\ t \subseteq s
    BY <2>1
  <2>3. PICK h : h = CHOOSE k : IsScan(s, k)
    OBVIOUS
  <2>4. PICK j : j = CHOOSE k : IsScan(t, k)
    OBVIOUS
  <2>5. IsScan(s, h) /\ IsScan(t, j)
    BY <1>3, <2>2, <2>3, <2>4
  <2>6. h[t] = j[t]
    BY <1>2, <2>2, <2>5, ScanUnique
  <2>7. h[s] = Prefer(Picked(s), h[t])
    BY <2>1, <2>5 DEF IsScan, ScanStep
  <2> QED
    BY <2>1, <2>3, <2>4, <2>6, <2>7
<1>5. T # {} => val({}) = NoRow
  <2> SUFFICES ASSUME T # {} PROVE val({}) = NoRow
    OBVIOUS
  <2>1. PICK h : h = CHOOSE k : IsScan({}, k)
    OBVIOUS
  <2>2. IsScan({}, h)
    BY <1>3, <2>1
  <2>3. h[{}] = NoRow
    BY <2>2 DEF IsScan, ScanStep
  <2> QED
    BY <2>1, <2>3
<1> HIDE DEF val
<1> DEFINE top == IF T = {} THEN NoRow ELSE Prefer(Picked(T), val(T \ {Picked(T)}))
           g == [s \in SUBSET T |-> IF s = T THEN top ELSE val(s)]
<1>6. \A s \in SUBSET T : g[s] = ScanStep(g, s)
  <2> SUFFICES ASSUME NEW s \in SUBSET T PROVE g[s] = ScanStep(g, s)
    OBVIOUS
  <2>1. CASE s = {}
    BY <1>5, <2>1 DEF ScanStep
  <2>2. CASE s # {}
    <3>1. PICK t : t = s \ {Picked(s)}
      OBVIOUS
    <3>2. t \in SUBSET T /\ t # T
      BY <2>2, <3>1, PickedIn
    <3>3. g[t] = val(t)
      BY <3>2
    <3>4. ScanStep(g, s) = Prefer(Picked(s), val(t))
      <4> HIDE DEF g
      <4> QED
        BY <2>2, <3>1, <3>3 DEF ScanStep
    <3>5. CASE s = T
      BY <2>2, <3>1, <3>4, <3>5
    <3>6. CASE s # T
      BY <1>4, <2>2, <3>1, <3>4, <3>6
    <3> QED
      BY <3>5, <3>6
  <2> QED
    BY <2>1, <2>2
<1>7. g = [s \in SUBSET T |-> g[s]]
  OBVIOUS
<1>8. IsScan(T, g)
  <2> HIDE DEF g
  <2> QED
    BY <1>6, <1>7 DEF IsScan
<1>9. \E k : IsScan(T, k)
  <2> HIDE DEF g
  <2> QED
    BY <1>8
<1> QED
  BY <1>1, <1>9

LEMMA ScanPicks ==
  ASSUME NEW S, IsFiniteSet(S)
  PROVE  /\ S = {} => Scanned(S) = NoRow
         /\ S # {} => Scanned(S) = Prefer(Picked(S), Scanned(S \ {Picked(S)}))
<1>1. PICK T : T = S \ {Picked(S)}
  OBVIOUS
<1>2. T \subseteq S /\ IsFiniteSet(T)
  BY <1>1, FS_Subset
<1>3. PICK g : g = CHOOSE k : IsScan(S, k)
  OBVIOUS
<1>4. PICK h : h = CHOOSE k : IsScan(T, k)
  OBVIOUS
<1>5. IsScan(S, g) /\ IsScan(T, h)
  BY <1>2, <1>3, <1>4, ScanExists
<1>6. g[T] = h[T]
  BY <1>2, <1>5, ScanUnique
<1>7. g[S] = ScanStep(g, S)
  BY <1>5 DEF IsScan
<1>8. Scanned(S) = g[S] /\ Scanned(T) = h[T]
  BY <1>3, <1>4, ScanIsChosen
<1> QED
  BY <1>1, <1>6, <1>7, <1>8 DEF ScanStep

\* No capture displaces the one the scan ends with.
LEMMA ScanFindsFirst ==
  ASSUME NEW S \in SUBSET Answers, S # {}
  PROVE  Scanned(S) \in S /\ \A y \in S : ~PreferNew(y, Scanned(S))
<1>0. /\ IsFiniteSet(S) /\ NoRow \notin Answers
      /\ \A x \in Answers : x.id \in Nat
  BY ProcessingAssumption, FS_Subset
<1> DEFINE Good(T) == Scanned(T) \in T /\ \A y \in T : ~PreferNew(y, Scanned(T))
           Bad == {T \in SUBSET S : T # {} /\ ~Good(T)}
<1> SUFFICES ASSUME Bad # {} PROVE FALSE
  OBVIOUS
<1>1. PICK T \in Bad : \A U \in Bad : ~(U \subseteq T /\ U # T)
  <2>1. Bad \in SUBSET (SUBSET S)
    OBVIOUS
  <2> HIDE DEF Bad
  <2> QED
    BY <1>0, <2>1, SmallestMember
<1>2. T \subseteq S /\ T \subseteq Answers /\ T # {} /\ ~Good(T)
  BY <1>1
<1>3. IsFiniteSet(T)
  BY <1>0, <1>2, FS_Subset
<1>4. PICK p \in T : p = Picked(T)
  BY <1>2, PickedIn
<1>5. PICK U : U = T \ {p}
  OBVIOUS
<1>6. U \in SUBSET S /\ U \subseteq T /\ U # T /\ IsFiniteSet(U)
  BY <1>2, <1>3, <1>4, <1>5, FS_Subset
<1>7. PICK c : c = Scanned(U)
  OBVIOUS
<1>8. Scanned(T) = Prefer(p, c)
  BY <1>2, <1>3, <1>4, <1>5, <1>7, ScanPicks
<1>9. CASE U = {}
  <2>1. c = NoRow
    BY <1>6, <1>7, <1>9, ScanPicks
  <2>2. Scanned(T) = p /\ T = {p}
    BY <1>4, <1>5, <1>8, <1>9, <2>1 DEF Prefer
  <2>3. ~PreferNew(p, p)
    BY <1>0, <1>2, <1>4 DEF PreferNew
  <2> QED
    BY <1>2, <2>2, <2>3
<1>10. CASE U # {}
  <2>1. Good(U)
    BY <1>1, <1>6, <1>10
  <2>2. c \in U /\ c \in Answers /\ \A y \in U : ~PreferNew(y, c)
    BY <1>2, <1>6, <1>7, <2>1
  <2>3. Scanned(T) = IF PreferNew(p, c) THEN p ELSE c
    BY <1>0, <1>8, <2>2 DEF Prefer
  <2>4. CASE PreferNew(p, c)
    <3>1. \A y \in U : ~PreferNew(y, p)
      BY <1>0, <1>2, <1>4, <1>6, <2>2, <2>4 DEF PreferNew
    <3>2. ~PreferNew(p, p)
      BY <1>0, <1>2, <1>4 DEF PreferNew
    <3>3. Scanned(T) = p /\ \A y \in T : ~PreferNew(y, p)
      BY <1>5, <2>3, <2>4, <3>1, <3>2
    <3> QED
      BY <1>2, <1>4, <3>3
  <2>5. CASE ~PreferNew(p, c)
    <3>1. Scanned(T) = c /\ \A y \in T : ~PreferNew(y, c)
      BY <1>5, <2>2, <2>3, <2>5
    <3> QED
      BY <1>2, <1>6, <2>2, <3>1
  <2> QED
    BY <2>4, <2>5
<1> QED
  BY <1>9, <1>10

\* Only one capture is displaced by none.
LEMMA FirstIsOne ==
  ASSUME NEW x \in Answers, NEW y \in Answers, ~PreferNew(x, y), ~PreferNew(y, x)
  PROVE  x = y
<1>1. x.id \in Nat /\ y.id \in Nat /\ (x.id = y.id => x = y)
  BY ProcessingAssumption
<1> QED
  BY <1>1 DEF PreferNew

\* The captures of a question that a pass of the run has derived rows for.
Captured(r, q) == {x \in AioCaptures(Answers, q) : x.run = r /\ derived[x] # {}}
IsRep(x, r, q) == x \in Captured(r, q) /\ \A y \in Captured(r, q) : ~PreferNew(y, x)

\* Derived rows belong to stored answers; a pass that has not committed has stored answers,
\* those of its run that have derived rows among them; ...
DerivedStored == \A x \in Answers : derived[x] # {} => x \in stored
SawStored == \A p \in Procs : Uncommitted(p) => \A x \in proc[p].saw : x \in stored
SawDerived == \A p \in Procs : Uncommitted(p) /\ proc[p].run \notin crossed =>
                \A x \in Answers : x.run = proc[p].run /\ derived[x] # {} => x \in proc[p].saw
\* ... so a row has the signal of the capture no other of its run displaces.
RowOfRep == \A k \in Keys : classes[k] # NoRow /\ classes[k].run \notin crossed =>
              \A x \in Answers : IsRep(x, classes[k].run, k[1]) => classes[k].aio = ClassifyAio(x.serp)

AioInv == Types /\ Apart /\ DerivedStored /\ SawStored /\ SawDerived /\ RowOfRep

\* A row after a pass: the signal of a capture, or, where there is none, what it was or
\* what the diff made it.
RowAfter(old, new, S, r, k) ==
  \/ /\ AioCaptures(S, k[1]) # {} /\ new[k].run = r
     /\ new[k].aio = ClassifyAio(AioRep(S, k[1]).serp)
  \/ (new[k] = NoRow \/ AioCaptures(S, k[1]) = {}) /\ (new[k].run = r \/ new[k] = old[k])
LEMMA ReclassifiedIs ==
  ASSUME NEW old, NEW S, NEW r, NEW k \in Keys, NEW new, new = Reclassified(old, S, r)
  PROVE  RowAfter(old, new, S, r, k)
<1> DEFINE n(j) == {m \in Pairs(S) : <<m.query, m.surface>> = j}
           diff(j) == IF n(j) = {} THEN old[j]
                      ELSE [bucket |-> LikelihoodOf(S, CHOOSE m \in n(j) : TRUE), run |-> r,
                            aio |-> IF old[j] = NoRow THEN "no_aio" ELSE old[j].aio]
           byDiff == [j \in Keys |-> diff(j)]
           captured == {q \in {x.query : x \in S} : AioCaptures(S, q) # {}}
           rowsOf(q) == {j \in Keys : j[1] = q /\ byDiff[j] # NoRow}
           touched(j) == j[1] \in captured
                         /\ (j \in rowsOf(j[1]) \/ (rowsOf(j[1]) = {} /\ j[2] = "google_aio"))
           row(j) == [bucket |-> IF byDiff[j] = NoRow THEN "" ELSE byDiff[j].bucket, run |-> r,
                      aio |-> ClassifyAio(AioRep(S, j[1]).serp)]
<1>1. new = [j \in Keys |-> IF touched(j) THEN row(j) ELSE byDiff[j]]
  BY DEF Reclassified
<1>2. new[k] = IF touched(k) THEN row(k) ELSE byDiff[k]
  <2> HIDE DEF touched, row, byDiff
  <2> QED
    BY <1>1
<1>3. row(k).run = r /\ row(k).aio = ClassifyAio(AioRep(S, k[1]).serp)
  OBVIOUS
<1>4. byDiff[k] = diff(k)
  <2> HIDE DEF diff
  <2> QED
    OBVIOUS
<1>5. diff(k) = old[k] \/ diff(k).run = r
  OBVIOUS
<1>6. AioCaptures(S, k[1]) # {} <=> k[1] \in captured
  BY DEF AioCaptures, SearchAnswers
<1>7. k \in rowsOf(k[1]) <=> byDiff[k] # NoRow
  <2> HIDE DEF byDiff
  <2> QED
    OBVIOUS
<1> HIDE DEF row, byDiff, diff, captured, rowsOf
<1> QED
  BY <1>2, <1>3, <1>4, <1>5, <1>6, <1>7 DEF RowAfter

\* The rows are written by the commit of a pass, and from it alone.
LEMMA ClassesWritten ==
  ASSUME [Next]_vars
  PROVE  classes' = classes
         \/ \E p \in Procs : CommitDerived(p) /\ classes' = Reclassified(classes, proc[p].saw, proc[p].run)
<1>1. ASSUME NEW p \in Procs, CommitDerived(p)
      PROVE  classes' = Reclassified(classes, proc[p].saw, proc[p].run)
  BY <1>1 DEF CommitDerived, Pass
<1>2. ASSUME NEW r \in Runs, StartRun(r) \/ FinishRun(r) \/ ReapRun(r) \/ ImportRun(r) \/ ReprocessRun(r)
      PROVE  classes' = classes
  BY <1>2 DEF StartRun, FinishRun, ReapRun, ImportRun, ReprocessRun, tables
<1>3. ASSUME NEW x \in Answers, StoreAnswer(x) PROVE classes' = classes
  BY <1>3 DEF StoreAnswer
<1>4. ASSUME ReprocessTenant \/ EditConfig \/ NextDay \/ UNCHANGED vars PROVE classes' = classes
  BY <1>4 DEF ReprocessTenant, EditConfig, NextDay, vars, tables
<1>5. ASSUME NEW p \in Procs, \/ Extract(p) \/ RollupBegin(p) \/ RollupCommit(p)
                              \/ PassReturns(p) \/ PassFails(p) \/ PassKilled(p)
      PROVE  classes' = classes
  BY <1>5 DEF Extract, RollupBegin, RollupCommit, PassReturns, PassFails, PassKilled, tables
<1> QED
  BY <1>1, <1>2, <1>3, <1>4, <1>5 DEF Next, PassStep

LEMMA CrossedGrows == ASSUME Types, [Next]_vars PROVE crossed \subseteq crossed'
BY StepKinds, ExtractShape, CommitShape, RollupBeginShape, RollupCommitShape
DEF Quiet, Moved, Begun, Idled, Keeps

LEMMA DerivedWritten ==
  ASSUME Types, [Next]_vars PROVE derived' = derived \/ \E p \in Procs : CommitDerived(p)
BY StepKinds, ExtractShape, RollupBeginShape, RollupCommitShape DEF Quiet, Moved

LEMMA UncommittedAfter ==
  ASSUME Types, [Next]_vars, NEW q \in Procs, Uncommitted(q)'
  PROVE  \/ Uncommitted(q) /\ proc'[q].run = proc[q].run /\ proc'[q].saw = proc[q].saw
         \/ Begun(q) /\ Informed(q) /\ derived' = derived
<1>1. CASE proc'[q] = proc[q]
  BY <1>1 DEF Uncommitted, Pass
<1>2. ASSUME NEW p \in Procs, Moved(p), proc'[q] # proc[q]
      PROVE  Begun(q) /\ Informed(q) /\ derived' = derived
  <2>1. q = p /\ proc'[q].at # "idle" /\ derived' = derived
    BY <1>2 DEF Moved, Begun, Idled, Others, Uncommitted, Pass
  <2> QED
    BY <1>2, <2>1 DEF Moved, Idled, Idle
<1>3. ASSUME NEW p \in Procs, Extract(p), proc'[q] # proc[q]
      PROVE  Uncommitted(q) /\ proc'[q].run = proc[q].run /\ proc'[q].saw = proc[q].saw
  <2>1. q = p
    BY <1>3, ExtractShape DEF Keeps, Others
  <2> QED
    BY <1>3, <2>1, ExtractShape DEF Keeps, Uncommitted, Pass
<1>4. ASSUME NEW p \in Procs, CommitDerived(p) \/ RollupBegin(p) \/ RollupCommit(p), proc'[q] # proc[q]
      PROVE  FALSE
  <2>1. q = p
    BY <1>4, CommitShape, RollupBeginShape, RollupCommitShape DEF Keeps, Others
  <2>2. proc'[p].at \in {"derived", "rolling", "closing"}
    BY <1>4, CommitShape, RollupBeginShape, RollupCommitShape
  <2> QED
    BY <2>1, <2>2 DEF Uncommitted, Pass
<1> QED
  BY <1>1, <1>2, <1>3, <1>4, StepKinds DEF Quiet

LEMMA StoredStep ==
  ASSUME Types, DerivedStored, SawStored, [Next]_vars PROVE DerivedStored' /\ SawStored'
<1>1. stored \subseteq stored'
  BY StepKinds DEF World
<1>2. ASSUME NEW x \in Answers, derived'[x] # {} PROVE x \in stored'
  <2>1. CASE derived' = derived
    BY <1>1, <1>2, <2>1 DEF DerivedStored
  <2>2. ASSUME NEW p \in Procs, CommitDerived(p) PROVE x \in stored'
    <3>1. proc[p].at = "extracted" /\ (x \notin proc[p].saw => derived'[x] = derived[x])
      BY <2>2, CommitShape
    <3> QED
      BY <1>1, <1>2, <3>1 DEF DerivedStored, SawStored, Uncommitted, Pass
  <2> QED
    BY <2>1, <2>2, DerivedWritten
<1>3. ASSUME NEW q \in Procs, Uncommitted(q)', NEW x \in proc'[q].saw PROVE x \in stored'
  BY <1>1, <1>3, UncommittedAfter DEF SawStored, Informed
<1> QED
  BY <1>2, <1>3 DEF DerivedStored, SawStored

LEMMA SawDerivedStep ==
  ASSUME Types, Apart, DerivedStored, SawDerived, [Next]_vars PROVE SawDerived'
<1> SUFFICES ASSUME NEW q \in Procs, Uncommitted(q)', proc'[q].run \notin crossed',
                    NEW x \in Answers, x.run = proc'[q].run, derived'[x] # {}
             PROVE  x \in proc'[q].saw
  BY DEF SawDerived
<1>1. proc'[q].run \notin crossed
  BY CrossedGrows
<1>2. CASE Uncommitted(q) /\ proc'[q].run = proc[q].run /\ proc'[q].saw = proc[q].saw
  <2>1. CASE derived' = derived
    BY <1>1, <1>2, <2>1 DEF SawDerived
  <2>2. ASSUME NEW p \in Procs, CommitDerived(p) PROVE x \in proc'[q].saw
    <3>1. /\ proc[p].at = "extracted" /\ proc'[p].at = "derived"
          /\ (x \notin proc[p].saw => derived'[x] = derived[x])
      BY <2>2, CommitShape
    <3>2. q # p /\ proc[q].run \in Runs
      BY <1>2, <3>1 DEF Uncommitted, Pass, Types, PassTypes
    <3>3. proc[p].run # proc[q].run
      BY <1>1, <1>2, <3>1, <3>2 DEF Apart, InPass, Uncommitted, Pass
    <3>4. x \notin proc[p].saw
      BY <1>2, <3>1, <3>3 DEF Types, PassTypes, Uncommitted, Pass
    <3> QED
      BY <1>1, <1>2, <3>1, <3>4 DEF SawDerived
  <2> QED
    BY <2>1, <2>2, DerivedWritten
<1>3. CASE Begun(q) /\ Informed(q) /\ derived' = derived
  <2>1. stored \subseteq stored'
    BY StepKinds DEF World
  <2> QED
    BY <1>3, <2>1 DEF DerivedStored, Informed
<1> QED
  BY <1>2, <1>3, UncommittedAfter

\* After the commit of a pass that was alone on its run, the run's captures with derived
\* rows are those the pass worked on.
LEMMA CommitCaptures ==
  ASSUME Types, SawDerived, NEW p \in Procs, CommitDerived(p), NEW q, proc[p].run \notin crossed,
         NEW r, r = proc[p].run
  PROVE  Captured(r, q)' = AioCaptures(proc[p].saw, q)
<1>1. /\ proc[p].at = "extracted"
      /\ \A x \in Answers : x \notin proc[p].saw => derived'[x] = derived[x]
      /\ \A x \in proc[p].saw : x \in Answers =>
           \E b : derived'[x] = Kept(p, x) \cup (IF x \in MeasuredAnswers(proc[p].saw) THEN {b} ELSE {})
  BY CommitShape
<1>2. \A x \in proc[p].saw : x \in Answers /\ x.run = proc[p].run
  BY <1>1 DEF Types, PassTypes, Uncommitted, Pass
<1>3. \A x \in Answers : x.run = proc[p].run /\ x \notin proc[p].saw => derived'[x] = {}
  BY <1>1 DEF SawDerived, Uncommitted, Pass
<1>4. ASSUME NEW x \in AioCaptures(proc[p].saw, q) PROVE derived'[x] # {}
  <2>1. x \in proc[p].saw /\ x \in MeasuredAnswers(proc[p].saw)
    BY <1>4 DEF AioCaptures, SearchAnswers, MeasuredAnswers
  <2>2. PICK b : derived'[x] = Kept(p, x) \cup (IF x \in MeasuredAnswers(proc[p].saw) THEN {b} ELSE {})
    BY <1>1, <1>2, <2>1
  <2> QED
    BY <2>1, <2>2
<1>5. \A x : x \in AioCaptures(proc[p].saw, q) <=> x \in AioCaptures(Answers, q) /\ x \in proc[p].saw
  BY <1>2 DEF AioCaptures, SearchAnswers
<1>6. \A x : x \in Captured(r, q)' <=>
               x \in AioCaptures(Answers, q) /\ x.run = proc[p].run /\ derived'[x] # {}
  BY DEF Captured
<1>7. \A x \in AioCaptures(Answers, q) : x \in Answers
  BY DEF AioCaptures, SearchAnswers
<1> QED
  BY <1>2, <1>3, <1>4, <1>5, <1>6, <1>7

LEMMA RowOfRepStep ==
  ASSUME Types, Apart, SawDerived, RowOfRep, [Next]_vars PROVE RowOfRep'
<1> SUFFICES ASSUME NEW k \in Keys, classes'[k] # NoRow, classes'[k].run \notin crossed',
                    NEW x \in Answers, IsRep(x, classes[k].run, k[1])'
             PROVE  classes'[k].aio = ClassifyAio(x.serp)
  BY DEF RowOfRep
<1>1. PICK s : s = classes'[k].run
  OBVIOUS
<1>2. s \notin crossed /\ IsRep(x, s, k[1])'
  BY <1>1, CrossedGrows DEF IsRep, Captured
<1>3. ASSUME classes'[k] = classes[k], \A y \in Answers : y.run = s => derived'[y] = derived[y]
      PROVE  classes'[k].aio = ClassifyAio(x.serp)
  <2>1. Captured(s, k[1])' = Captured(s, k[1])
    BY <1>3 DEF Captured, AioCaptures, SearchAnswers
  <2>2. IsRep(x, s, k[1])
    BY <1>2, <2>1 DEF IsRep
  <2> QED
    BY <1>1, <1>2, <1>3, <2>2 DEF RowOfRep
<1>4. ASSUME NEW p \in Procs, CommitDerived(p) PROVE classes'[k].aio = ClassifyAio(x.serp)
  <2>1. PICK r : r = proc[p].run
    OBVIOUS
  <2>2. PICK saw : saw = proc[p].saw
    OBVIOUS
  <2>3. PICK old : old = classes
    OBVIOUS
  <2>4. PICK new : new = classes'
    OBVIOUS
  <2>5. /\ proc[p].at = "extracted"
        /\ \A y \in Answers : y \notin saw => derived'[y] = derived[y]
    BY <1>4, <2>2, CommitShape
  <2>6. \A y \in saw : y \in Answers /\ y.run = r
    BY <2>1, <2>2, <2>5 DEF Types, PassTypes, Uncommitted, Pass
  <2>7. new = Reclassified(old, saw, r)
    BY <1>4, <2>1, <2>2, <2>3, <2>4 DEF CommitDerived, Pass
  <2>8. r \notin crossed => Captured(r, k[1])' = AioCaptures(saw, k[1])
    BY <1>4, <2>1, <2>2, CommitCaptures
  <2>9. \/ /\ AioCaptures(saw, k[1]) # {} /\ new[k].run = r
           /\ new[k].aio = ClassifyAio(AioRep(saw, k[1]).serp)
        \/ (new[k] = NoRow \/ AioCaptures(saw, k[1]) = {}) /\ (new[k].run = r \/ new[k] = old[k])
    <3>1. RowAfter(old, new, saw, r, k)
      BY <2>7, ReclassifiedIs
    <3> QED
      BY <3>1 DEF RowAfter
  <2>10. CASE s = r
    <3>1. AioCaptures(saw, k[1]) = Captured(r, k[1])' /\ x \in Captured(r, k[1])'
          /\ \A y \in Captured(r, k[1])' : ~PreferNew(y, x)
      BY <1>2, <2>8, <2>10 DEF IsRep
    <3>2. AioCaptures(saw, k[1]) # {}
      BY <3>1
    <3>3. PICK S : S = AioCaptures(saw, k[1])
      OBVIOUS
    <3>4. S \in SUBSET Answers /\ S # {} /\ x \in S /\ \A y \in S : ~PreferNew(y, x)
      BY <2>6, <3>1, <3>2, <3>3 DEF AioCaptures, SearchAnswers
    <3>5. Scanned(S) \in S /\ \A y \in S : ~PreferNew(y, Scanned(S))
      BY <3>4, ScanFindsFirst
    <3>6. x = Scanned(S)
      BY <3>4, <3>5, FirstIsOne
    <3>7. AioRep(saw, k[1]) = Scanned(S)
      BY <3>3 DEF AioRep, Scanned
    <3> QED
      BY <2>4, <2>9, <3>2, <3>6, <3>7
  <2>11. CASE s # r
    <3>1. new[k] = old[k]
      BY <1>1, <2>4, <2>9, <2>11
    <3>2. \A y \in Answers : y.run = s => derived'[y] = derived[y]
      BY <2>5, <2>6, <2>11
    <3> QED
      BY <1>3, <2>3, <2>4, <3>1, <3>2
  <2> QED
    BY <2>10, <2>11
<1>5. CASE classes' = classes /\ derived' = derived
  BY <1>3, <1>5
<1> QED
  BY <1>4, <1>5, ClassesWritten, DerivedWritten

LEMMA AioInit == ASSUME Init PROVE AioInv
<1>1. Types /\ Apart
  BY OnceInit DEF OnceInv
<1>2. \A x \in Answers : derived[x] = {}
  BY DEF Init
<1>3. \A p \in Procs : proc[p].at = "idle"
  BY DEF Init, Idle
<1>4. \A k \in Keys : classes[k] = NoRow
  BY DEF Init
<1>5. DerivedStored /\ SawStored /\ SawDerived
  BY <1>2, <1>3 DEF DerivedStored, SawStored, SawDerived, Uncommitted, Pass
<1>6. RowOfRep
  BY <1>4 DEF RowOfRep
<1> QED
  BY <1>1, <1>5, <1>6 DEF AioInv

LEMMA AioImplies == ASSUME AioInv PROVE AioFromDefaultLocation
<1> DEFINE captures(r, q) == {x \in AioCaptures({y \in stored : y.run = r}, q) : derived[x] # {}}
           rank(x) == <<IF AtDefault(x) THEN 0 ELSE 1, x.id>>
           first(x, y) == rank(x)[1] < rank(y)[1] \/ (rank(x)[1] = rank(y)[1] /\ x.id <= y.id)
<1>1. ASSUME NEW x \in Answers, NEW y \in Answers, first(x, y) PROVE ~PreferNew(y, x)
  <2>1. x.id \in Nat /\ y.id \in Nat
    BY ProcessingAssumption
  <2>2. rank(x)[1] = (IF AtDefault(x) THEN 0 ELSE 1) /\ rank(y)[1] = (IF AtDefault(y) THEN 0 ELSE 1)
    OBVIOUS
  <2> HIDE DEF rank
  <2> QED
    BY <1>1, <2>1, <2>2 DEF PreferNew
<1>2. \A r, q : \A x : x \in captures(r, q) <=> x \in Captured(r, q)
  BY DEF AioInv, Types, DerivedStored, Captured, AioCaptures, SearchAnswers
<1>3. ASSUME NEW k \in Keys, classes[k] # NoRow, classes[k].run \notin crossed,
             NEW x \in captures(classes[k].run, k[1]),
             \A y \in captures(classes[k].run, k[1]) : first(x, y)
      PROVE  classes[k].aio = ClassifyAio(x.serp)
  <2> HIDE DEF captures, first
  <2>1. PICK r : r = classes[k].run
    OBVIOUS
  <2>2. \A y \in Captured(r, k[1]) : y \in Answers
    BY DEF Captured, AioCaptures, SearchAnswers
  <2>3. x \in Captured(r, k[1]) /\ \A y \in Captured(r, k[1]) : first(x, y)
    BY <1>2, <1>3, <2>1
  <2>4. x \in Answers /\ IsRep(x, r, k[1])
    BY <1>1, <2>2, <2>3 DEF IsRep
  <2> QED
    BY <1>3, <2>1, <2>4 DEF AioInv, RowOfRep
<1> QED
  BY <1>3 DEF AioFromDefaultLocation

\* Whatever order a pass reads a run's captures in, and whatever passes fail, repeat or
\* overlap elsewhere: a question's row has the signal of its run's capture at the default
\* location, else of the earliest, unless two passes were over that run at once.
THEOREM DefaultLocationShown == Spec => []AioFromDefaultLocation
<1>1. Init => AioInv
  BY AioInit
<1>2. AioInv /\ [Next]_vars => AioInv'
  BY TypesStep, ApartStep, StoredStep, SawDerivedStep, RowOfRepStep DEF AioInv
<1>3. AioInv => AioFromDefaultLocation
  BY AioImplies
<1> QED
  BY <1>1, <1>2, <1>3, PTL DEF Spec

-----------------------------------------------------------------------------
(* Playbook: every row stands for a gap some source speaks for.              *)

\* The branches a row with this gap_ref may have.
BranchesOf(r) ==
    IF r[1] = "manual" THEN {"manual"}
    ELSE IF SourceOf(r) \in DOMAIN SOURCE_BRANCHES
         THEN {b \in SOURCE_BRANCHES[SourceOf(r)] : r[1] = "query" => b = r[3]}
         ELSE {}

RowWell(r, row) ==
    /\ DOMAIN row = {"branch", "prio", "status"}
    /\ row.branch \in BranchesOf(r) /\ row.status \in Statuses

\* What the sources that worked find in a world.
Gathered(w, failed) ==
    UNION {PlaysOf(x, Worlds[w], "plan" \notin failed) : x \in DOMAIN SOURCE_BRANCHES \ failed}

JudgedWell(s) ==
    /\ {"at", "world", "failed", "frozen", "plays"} \subseteq DOMAIN s
    /\ s.world \in DOMAIN Worlds
    /\ s.frozen = Frozen(Worlds[s.world], s.failed)
    /\ s.plays = Gathered(s.world, s.failed)

\* What it asked for as lost were plays of lost pages.
SoughtWell(s) == "found" \in DOMAIN s /\ \A r \in s.found : "refresh" \in BranchesOf(r)

ReadWell(s) == SoughtWell(s) /\ \A r \in DOMAIN s.have : RowWell(r, s.have[r])

PassWell(s) ==
    \/ s = NoPass
    \/ s.at = "judged" /\ JudgedWell(s)
    \/ s.at = "sought" /\ JudgedWell(s) /\ SoughtWell(s)
    \/ s.at = "read" /\ JudgedWell(s) /\ ReadWell(s)

PlaybookInv ==
    /\ world \in DOMAIN Worlds /\ touch \in Nat
    /\ \A r \in DOMAIN recs : RowWell(r, recs[r])
    /\ DOMAIN pass = Passes /\ \A p \in Passes : PassWell(pass[p])
    /\ \A p \in Passes : pass[p].at = "read" => DOMAIN pass[p].have \subseteq DOMAIN recs

LEMMA SourceNames ==
  DOMAIN SOURCE_BRANCHES =
    {"query", "accuracy", "agents", "refresh", "subquery", "sources", "owned_docs", "strategy",
     "own_pages", "model_change", "site_search", "research", "meta"}
BY DEF SOURCE_BRANCHES

LEMMA SourceTable ==
  /\ SOURCE_BRANCHES["query"] = {"web_search", "training", "aio"}
  /\ SOURCE_BRANCHES["accuracy"] = {"accuracy"}
  /\ SOURCE_BRANCHES["agents"] = {"crawler_access", "broken_page", "read_not_cited", "connect_logs"}
  /\ SOURCE_BRANCHES["refresh"] = {"refresh"}
  /\ SOURCE_BRANCHES["subquery"] = {"subquery"}
  /\ SOURCE_BRANCHES["sources"] = {"reviews", "earned", "community", "reference"}
  /\ SOURCE_BRANCHES["owned_docs"] = {"owned"}
  /\ SOURCE_BRANCHES["strategy"] = {"strategy"}
  /\ SOURCE_BRANCHES["own_pages"] = {"own_page"}
  /\ SOURCE_BRANCHES["model_change"] = {"model_change"}
  /\ SOURCE_BRANCHES["site_search"] = {"owned"}
  /\ SOURCE_BRANCHES["research"] = {"evidence"}
  /\ SOURCE_BRANCHES["meta"] = {"meta"}
BY DEF SOURCE_BRANCHES

\* A branch of one of these sources belongs to no other.
LEMMA OwnBranches ==
  ASSUME NEW s \in {"query", "agents", "refresh", "sources"}, NEW t \in DOMAIN SOURCE_BRANCHES,
         NEW b \in SOURCE_BRANCHES[s], b \in SOURCE_BRANCHES[t]
  PROVE  t = s
BY SourceNames, SourceTable

LEMMA NobodysBranch ==
  ASSUME NEW s \in DOMAIN SOURCE_BRANCHES PROVE "manual" \notin SOURCE_BRANCHES[s]
BY SourceNames, SourceTable

\* The plays of a source are its own, by gap_ref and by branch.
PlayWell(s, x) == SourceOf(x.ref) = s /\ x.branch \in BranchesOf(x.ref)

LEMMA PlayShape ==
  ASSUME NEW ref, NEW branch, NEW prio
  PROVE  Play(ref, branch, prio).ref = ref /\ Play(ref, branch, prio).branch = branch
BY DEF Play

LEMMA PlayIsWell ==
  ASSUME NEW s \in DOMAIN SOURCE_BRANCHES, NEW ref, NEW branch, NEW prio,
         SourceOf(ref) = s, ref[1] # "manual", ref[1] # "query", branch \in SOURCE_BRANCHES[s]
  PROVE  PlayWell(s, Play(ref, branch, prio))
BY PlayShape DEF PlayWell, BranchesOf

\* The branch of a gap is the one its question's class calls for, or "aio".
LEMMA GapClass ==
  ASSUME NEW w, NEW g \in QueryGaps(w)
  PROVE  g[2] \in AnswerBranch(ClassOf(w, g[1]).bucket) \cup {"aio"}
<1> DEFINE measured(q) == {a \in LatestRunAnswers(w) : a.q = q.text /\ a.surface # "google_aio"}
           on(q) == {a.surface : a \in measured(q)}
           named(q) == {a.surface : a \in {x \in measured(q) : "brand" \in x.names}}
           gap(q) == on(q) # {} /\ Cardinality(named(q)) * 3 < Cardinality(on(q))
           classified(q) == \E c \in w.classes : c.q = q.text
           c(q) == ClassOf(w, q.text)
           branches(q) == When(classified(q), When(gap(q), AnswerBranch(c(q).bucket))
                                     \cup When(c(q).aio /\ ~c(q).aioCitesUs, {"aio"}))
           asked == {x \in w.questions : x.active /\ ~x.branded}
<1>1. QueryGaps(w) = UNION {{<<q.text, b>> : b \in branches(q)} : q \in asked}
  BY Zenon DEF QueryGaps
<1> HIDE DEF branches
<1>2. PICK q \in asked : \E b \in branches(q) : g = <<q.text, b>>
  BY <1>1
<1>3. PICK b \in branches(q) : g = <<q.text, b>>
  BY <1>2
<1>4. g[1] = q.text /\ g[2] = b
  BY <1>3
<1>5. b \in AnswerBranch(c(q).bucket) \cup {"aio"}
  <2> HIDE DEF gap, classified, c
  <2> QED
    BY Zenon DEF branches, When
<1> QED
  BY <1>4, <1>5

LEMMA QueryPlayIs ==
  ASSUME NEW w, NEW plan, NEW x \in QueryPlays(w, plan)
  PROVE  \E g \in QueryGaps(w) : x.ref = <<"query", g[1], g[2]>> /\ x.branch = g[2]
<1> DEFINE contest(q) == IF plan /\ q \in w.briefed THEN Contestability(w, q) ELSE "needs history"
           prio(q, b) ==
             CASE b = "training" -> 30
               [] b = "aio" -> 80
               [] OTHER -> 60 + CASE contest(q) = "winnable now" -> 20
                                  [] contest(q) = "contested" -> 8
                                  [] contest(q) = "locked in" -> -15
                                  [] OTHER -> 0
<1>1. QueryPlays(w, plan) =
        {Play(<<"query", g[1], g[2]>>, g[2], prio(g[1], g[2])) : g \in QueryGaps(w)}
  BY Zenon DEF QueryPlays
<1> HIDE DEF prio
<1>2. PICK g \in QueryGaps(w) : x = Play(<<"query", g[1], g[2]>>, g[2], prio(g[1], g[2]))
  BY <1>1
<1> QED
  BY <1>2, PlayShape

LEMMA QueryPlaysWell ==
  ASSUME NEW w, NEW plan, NEW x \in QueryPlays(w, plan) PROVE PlayWell("query", x)
<1>1. PICK g \in QueryGaps(w) : x.ref = <<"query", g[1], g[2]>> /\ x.branch = g[2]
  BY QueryPlayIs
<1>2. g[2] \in {"web_search", "training", "aio"}
  BY GapClass DEF AnswerBranch
<1>3. SourceOf(x.ref) = "query"
  BY <1>1 DEF SourceOf
<1> QED
  BY <1>1, <1>2, <1>3, SourceNames, SourceTable DEF PlayWell, BranchesOf

LEMMA AccuracyPlaysWell ==
  ASSUME NEW w, NEW x \in AccuracyPlays(w) PROVE PlayWell("accuracy", x)
<1>1. PICK f, n : x = Play(<<"accuracy", f.fact>>, "accuracy", n)
  BY Zenon DEF AccuracyPlays
<1>2. SourceOf(<<"accuracy", f.fact>>) = "accuracy" /\ <<"accuracy", f.fact>>[1] = "accuracy"
  BY DEF SourceOf
<1> QED
  BY <1>1, <1>2, SourceNames, SourceTable, PlayIsWell

LEMMA AgentPlaysWell ==
  ASSUME NEW w, NEW x \in AgentPlays(w) PROVE PlayWell("agents", x)
<1>1. \/ \E n : x = Play(<<"connect_logs">>, "connect_logs", n)
      \/ \E b, k, n : x = Play(<<"crawler", b, k>>, "crawler_access", n)
      \/ \E p, n : x = Play(<<"at_risk", p>>, "broken_page", n)
      \/ \E n : x = Play(<<"broken_pages">>, "broken_page", n)
      \/ \E n : x = Play(<<"read_not_cited">>, "read_not_cited", n)
  <2>1. CASE w.logs.state # "fresh"
    BY <2>1, Zenon DEF AgentPlays
  <2>2. CASE w.logs.state = "fresh"
    <3> DEFINE l == w.logs
               absent == {Play(<<"crawler", b, "absent">>, "crawler_access", 95) :
                             b \in KeyBots \ {b.bot : b \in l.bots}}
               refused == {Play(<<"crawler", b.bot, "errors">>, "crawler_access", 88) :
                              b \in {y \in l.bots : /\ y.bot \in KeyBots
                                                    /\ y.blocked >= 20
                                                    /\ 5 * y.blocked > y.hits}}
               atRisk == {Play(<<"at_risk", p>>, "broken_page", 86) : p \in l.atRisk}
    <3>1. \/ x \in absent \/ x \in refused \/ x \in atRisk
          \/ x = Play(<<"broken_pages">>, "broken_page", 70)
          \/ x = Play(<<"read_not_cited">>, "read_not_cited", 62)
      <4>1. x \in ((When(l.hits >= MIN_LOG_HITS, absent \cup refused) \cup atRisk)
                     \cup When(l.broken # {}, {Play(<<"broken_pages">>, "broken_page", 70)}))
                     \cup When(l.unread # {}, {Play(<<"read_not_cited">>, "read_not_cited", 62)})
        BY <2>2, Zenon DEF AgentPlays
      <4> HIDE DEF absent, refused, atRisk
      <4> QED
        BY <4>1, Zenon DEF When
    <3>2. CASE x \in absent
      BY <3>2, Zenon
    <3>3. CASE x \in refused
      BY <3>3, Zenon
    <3>4. CASE x \in atRisk
      BY <3>4, Zenon
    <3> QED
      BY <3>1, <3>2, <3>3, <3>4, Zenon
  <2> QED
    BY <2>1, <2>2
<1>2. \A b, k : /\ SourceOf(<<"crawler", b, k>>) = "agents" /\ <<"crawler", b, k>>[1] = "crawler"
                /\ SourceOf(<<"at_risk", b>>) = "agents" /\ <<"at_risk", b>>[1] = "at_risk"
  BY DEF SourceOf
<1>3. /\ SourceOf(<<"connect_logs">>) = "agents" /\ <<"connect_logs">>[1] = "connect_logs"
      /\ SourceOf(<<"broken_pages">>) = "agents" /\ <<"broken_pages">>[1] = "broken_pages"
      /\ SourceOf(<<"read_not_cited">>) = "agents" /\ <<"read_not_cited">>[1] = "read_not_cited"
  BY DEF SourceOf
<1>4. "agents" \in DOMAIN SOURCE_BRANCHES
  BY SourceNames
<1>5. {"crawler_access", "broken_page", "read_not_cited", "connect_logs"} \subseteq SOURCE_BRANCHES["agents"]
  BY SourceTable
<1>6. \A n : /\ PlayWell("agents", Play(<<"connect_logs">>, "connect_logs", n))
             /\ PlayWell("agents", Play(<<"broken_pages">>, "broken_page", n))
             /\ PlayWell("agents", Play(<<"read_not_cited">>, "read_not_cited", n))
  BY <1>3, <1>4, <1>5, PlayIsWell
<1>7. \A b, k, n : PlayWell("agents", Play(<<"crawler", b, k>>, "crawler_access", n))
  <2> TAKE b, k, n
  <2> QED
    BY <1>2, <1>4, <1>5, PlayIsWell
<1>8. \A p, n : PlayWell("agents", Play(<<"at_risk", p>>, "broken_page", n))
  <2> TAKE p, n
  <2> QED
    BY <1>2, <1>4, <1>5, PlayIsWell
<1> QED
  BY <1>1, <1>6, <1>7, <1>8, Zenon

LEMMA RefreshPlaysWell ==
  ASSUME NEW w, NEW plan, NEW x \in RefreshPlays(w, plan) PROVE PlayWell("refresh", x)
<1>1. PICK u : x = Play(<<"refresh", u>>, "refresh", 80)
  BY DEF RefreshPlays, When
<1>2. SourceOf(<<"refresh", u>>) = "refresh" /\ <<"refresh", u>>[1] = "refresh"
  BY DEF SourceOf
<1> QED
  BY <1>1, <1>2, SourceNames, SourceTable, PlayIsWell

LEMMA SubqueryPlaysWell ==
  ASSUME NEW w, NEW x \in SubqueryPlays(w) PROVE PlayWell("subquery", x)
<1>1. PICK q, n : x = Play(<<"subquery", q>>, "subquery", n)
  BY Zenon DEF SubqueryPlays
<1>2. SourceOf(<<"subquery", q>>) = "subquery" /\ <<"subquery", q>>[1] = "subquery"
  BY DEF SourceOf
<1> QED
  BY <1>1, <1>2, SourceNames, SourceTable, PlayIsWell

LEMMA SourcePlaysWell ==
  ASSUME NEW w, NEW plan, NEW x \in SourcePlays(w, plan) PROVE PlayWell("sources", x)
<1>1. PICK r \in {<<"review", "reviews", 66>>, <<"publisher", "earned", 70>>,
                  <<"community", "community", 52>>, <<"reference", "reference", 48>>} :
        x = Play(<<"sources", r[1]>>, r[2], r[3])
  BY Zenon DEF SourcePlays, When
<1>2. r[1] # "research" /\ r[2] \in {"reviews", "earned", "community", "reference"}
  BY <1>1
<1>3. SourceOf(<<"sources", r[1]>>) = "sources" /\ <<"sources", r[1]>>[1] = "sources"
  BY <1>2 DEF SourceOf
<1> QED
  BY <1>1, <1>2, <1>3, SourceNames, SourceTable, PlayIsWell

LEMMA OwnPagePlaysWell ==
  ASSUME NEW w, NEW x \in OwnPagePlays(w) PROVE PlayWell("own_pages", x)
<1>1. \/ \E k, p, n : x = Play(<<"own_page", k, p>>, "own_page", n)
      \/ \E k, n : x = Play(<<"own_page", k>>, "own_page", n)
  BY DEF OwnPagePlays, When
<1>2. \A k, p : /\ SourceOf(<<"own_page", k, p>>) = "own_pages" /\ <<"own_page", k, p>>[1] = "own_page"
                /\ SourceOf(<<"own_page", k>>) = "own_pages" /\ <<"own_page", k>>[1] = "own_page"
  BY DEF SourceOf
<1>3. \A k, p, n : /\ PlayWell("own_pages", Play(<<"own_page", k, p>>, "own_page", n))
                   /\ PlayWell("own_pages", Play(<<"own_page", k>>, "own_page", n))
  <2> TAKE k, p, n
  <2> QED
    BY <1>2, SourceNames, SourceTable, PlayIsWell
<1> QED
  BY <1>1, <1>3, Zenon

LEMMA ModelChangePlaysWell ==
  ASSUME NEW w, NEW x \in ModelChangePlays(w) PROVE PlayWell("model_change", x)
<1>1. PICK e, m, n : x = Play(<<"model_change", e, m>>, "model_change", n)
  BY DEF ModelChangePlays
<1>2. SourceOf(<<"model_change", e, m>>) = "model_change" /\ <<"model_change", e, m>>[1] = "model_change"
  BY DEF SourceOf
<1> QED
  BY <1>1, <1>2, SourceNames, SourceTable, PlayIsWell

LEMMA SinglePlaysWell ==
  ASSUME NEW w, NEW x
  PROVE  /\ x \in SiteSearchPlay(w) => PlayWell("site_search", x)
         /\ x \in ResearchPlay(w) => PlayWell("research", x)
         /\ x \in MetaPlay(w) => PlayWell("meta", x)
         /\ x \in OwnedDocsPlay(w) => PlayWell("owned_docs", x)
         /\ x \in StrategyPlay(w) => PlayWell("strategy", x)
<1>1. x \in SiteSearchPlay(w) => PlayWell("site_search", x)
  <2>1. SourceOf(<<"site_search", "rivals">>) = "site_search" /\ <<"site_search", "rivals">>[1] = "site_search"
    BY DEF SourceOf
  <2>2. x \in SiteSearchPlay(w) => x = Play(<<"site_search", "rivals">>, "owned", 68)
    BY Zenon DEF SiteSearchPlay, When
  <2> QED
    BY <2>1, <2>2, SourceNames, SourceTable, PlayIsWell
<1>2. x \in ResearchPlay(w) => PlayWell("research", x)
  <2>1. SourceOf(<<"sources", "research">>) = "research" /\ <<"sources", "research">>[1] = "sources"
    BY DEF SourceOf
  <2>2. x \in ResearchPlay(w) => x = Play(<<"sources", "research">>, "evidence", 64)
    BY Zenon DEF ResearchPlay, When
  <2> QED
    BY <2>1, <2>2, SourceNames, SourceTable, PlayIsWell
<1>3. x \in MetaPlay(w) => PlayWell("meta", x)
  <2>1. \A k : SourceOf(<<"meta", k>>) = "meta" /\ <<"meta", k>>[1] = "meta"
    BY DEF SourceOf
  <2>2. x \in MetaPlay(w) => \E k, n : x = Play(<<"meta", k>>, "meta", n)
    BY Zenon DEF MetaPlay, When
  <2>3. \A k, n : PlayWell("meta", Play(<<"meta", k>>, "meta", n))
    <3> TAKE k, n
    <3> QED
      BY <2>1, SourceNames, SourceTable, PlayIsWell
  <2> QED
    BY <2>2, <2>3, Zenon
<1>4. x \in OwnedDocsPlay(w) => PlayWell("owned_docs", x)
  <2>1. SourceOf(<<"owned", "chatgpt_docs">>) = "owned_docs" /\ <<"owned", "chatgpt_docs">>[1] = "owned"
    BY DEF SourceOf
  <2>2. x \in OwnedDocsPlay(w) => x = Play(<<"owned", "chatgpt_docs">>, "owned", 72)
    BY Zenon DEF OwnedDocsPlay, When
  <2> QED
    BY <2>1, <2>2, SourceNames, SourceTable, PlayIsWell
<1>5. x \in StrategyPlay(w) => PlayWell("strategy", x)
  <2>1. SourceOf(<<"strategy">>) = "strategy" /\ <<"strategy">>[1] = "strategy"
    BY DEF SourceOf
  <2>2. x \in StrategyPlay(w) => x = Play(<<"strategy">>, "strategy", 100)
    BY Zenon DEF StrategyPlay, When
  <2> QED
    BY <2>1, <2>2, SourceNames, SourceTable, PlayIsWell
<1> QED
  BY <1>1, <1>2, <1>3, <1>4, <1>5

LEMMA PlaysWell ==
  ASSUME NEW s \in DOMAIN SOURCE_BRANCHES, NEW w, NEW plan, NEW x \in PlaysOf(s, w, plan)
  PROVE  PlayWell(s, x)
<1>1. s \in {"query", "accuracy", "agents", "refresh", "subquery", "sources", "owned_docs",
             "strategy", "own_pages", "model_change", "site_search", "research", "meta"}
  BY SourceNames
<1>2. CASE s \in {"query", "accuracy", "agents", "refresh"}
  BY <1>2, QueryPlaysWell, AccuracyPlaysWell, AgentPlaysWell, RefreshPlaysWell DEF PlaysOf
<1>3. CASE s \in {"subquery", "sources", "own_pages", "model_change"}
  BY <1>3, SubqueryPlaysWell, SourcePlaysWell, OwnPagePlaysWell, ModelChangePlaysWell DEF PlaysOf
<1>4. CASE s \in {"owned_docs", "strategy", "site_search", "research", "meta"}
  BY <1>4, SinglePlaysWell DEF PlaysOf
<1> QED
  BY <1>1, <1>2, <1>3, <1>4

-----------------------------------------------------------------------------
(* The rows and the passes stay well formed.                                 *)

LEMMA NoPassOff == NoPass.at = "off"
BY DEF NoPass

\* What the merge means for a row, and what it leaves alone.
LEMMA MergedRow ==
  ASSUME NEW s, NEW r \in DOMAIN Merged(s)
  PROVE  /\ r \in DOMAIN s.have \/ \E x \in s.plays : x.ref = r
         /\ (\E x \in s.plays : x.ref = r) =>
               \E x \in s.plays : x.ref = r
                  /\ Merged(s)[r] = Refreshed(x, IF r \in DOMAIN s.have THEN s.have[r] ELSE NewRow)
         /\ ~(\E x \in s.plays : x.ref = r) => Merged(s)[r] = LeftOver(r, s.have[r], s)
<1> DEFINE live == {x.ref : x \in s.plays}
           playOf(k) == CHOOSE x \in s.plays : x.ref = k
           old(k) == IF k \in DOMAIN s.have THEN s.have[k] ELSE NewRow
<1>1. Merged(s) = [k \in DOMAIN s.have \cup live |->
                     IF k \in live THEN Refreshed(playOf(k), old(k)) ELSE LeftOver(k, s.have[k], s)]
  BY Zenon DEF Merged
<1>2. r \in live <=> \E x \in s.plays : x.ref = r
  OBVIOUS
<1>3. r \in live => playOf(r) \in s.plays /\ playOf(r).ref = r
  BY <1>2
<1> HIDE DEF live, playOf
<1>4. r \in DOMAIN s.have \cup live
  BY <1>1
<1>5. Merged(s)[r] = IF r \in live THEN Refreshed(playOf(r), old(r)) ELSE LeftOver(r, s.have[r], s)
  BY <1>1, <1>4
<1> QED
  BY <1>2, <1>3, <1>4, <1>5

LEMMA MergedDomain ==
  ASSUME NEW s
  PROVE  DOMAIN Merged(s) = DOMAIN s.have \cup {x.ref : x \in s.plays}
BY DEF Merged

LEMMA PassPlaysWell ==
  ASSUME NEW s, JudgedWell(s), NEW x \in s.plays
  PROVE  \E k \in DOMAIN SOURCE_BRANCHES \ s.failed :
            /\ x \in PlaysOf(k, Worlds[s.world], "plan" \notin s.failed)
            /\ PlayWell(k, x)
<1>1. PICK k \in DOMAIN SOURCE_BRANCHES \ s.failed :
         x \in PlaysOf(k, Worlds[s.world], "plan" \notin s.failed)
  BY Zenon DEF JudgedWell, Gathered
<1> QED
  BY <1>1, PlaysWell

LEMMA MergedWell ==
  ASSUME NEW s, JudgedWell(s), ReadWell(s), NEW r \in DOMAIN Merged(s)
  PROVE  RowWell(r, Merged(s)[r])
<1> DEFINE old == IF r \in DOMAIN s.have THEN s.have[r] ELSE NewRow
<1>1. r \in DOMAIN s.have => RowWell(r, s.have[r])
  BY DEF ReadWell
<1>2. old.status \in Statuses
  BY <1>1 DEF RowWell, NewRow, Statuses, OpenStatuses
<1>3. CASE \E x \in s.plays : x.ref = r
  <2>1. PICK x \in s.plays : x.ref = r /\ Merged(s)[r] = Refreshed(x, old)
    BY <1>3, MergedRow
  <2>2. x.branch \in BranchesOf(r)
    BY <2>1, PassPlaysWell DEF PlayWell
  <2> HIDE DEF old
  <2>3. /\ DOMAIN Refreshed(x, old) = {"branch", "prio", "status"}
        /\ Refreshed(x, old).branch = x.branch
        /\ Refreshed(x, old).status \in Statuses
    BY <1>2 DEF Refreshed, Statuses, OpenStatuses
  <2> QED
    BY <2>1, <2>2, <2>3 DEF RowWell
<1>4. CASE ~\E x \in s.plays : x.ref = r
  <2>1. r \in DOMAIN s.have /\ Merged(s)[r] = LeftOver(r, s.have[r], s)
    BY <1>4, MergedRow
  <2>2. PICK row : row = s.have[r]
    OBVIOUS
  <2>3. RowWell(r, row)
    BY <1>1, <2>1, <2>2
  <2>4. LeftOver(r, row, s) = row \/ LeftOver(r, row, s) = [row EXCEPT !.status = "resolved"]
    BY DEF LeftOver
  <2>5. RowWell(r, [row EXCEPT !.status = "resolved"])
    BY <2>3 DEF RowWell, Statuses
  <2> QED
    BY <2>1, <2>2, <2>3, <2>4, <2>5
<1> QED
  BY <1>3, <1>4

\* A merge never resolves a live play, and resolves others only for cause.
LEMMA LiveStaysOpen ==
  ASSUME NEW s, NEW r \in DOMAIN Merged(s), \E x \in s.plays : x.ref = r
  PROVE  Merged(s)[r].status # "resolved"
<1>1. PICK x, old : Merged(s)[r] = Refreshed(x, old)
  BY MergedRow
<1> QED
  BY <1>1 DEF Refreshed

LEMMA LeftOverIs ==
  ASSUME NEW s, NEW r, NEW row, RowWell(r, row)
  PROVE  LET unsettled == r \in StillLost(s) \/ row.branch \in s.frozen \cup {"manual"}
             left == LeftOver(r, row, s)
         IN  /\ left.status = "resolved" /\ row.status # "resolved" =>
                   row.status \in OpenStatuses /\ ~unsettled
             /\ left.status \in OpenStatuses => row.status \in OpenStatuses /\ unsettled
BY DEF LeftOver, RowWell, Statuses, OpenStatuses, HAND_STATUSES

\* A pass freezes the branches of what failed or could not judge.
LEMMA FrozenBranch ==
  ASSUME NEW w, NEW failed, NEW b
  PROVE  b \in Frozen(w, failed) <=>
            \/ \E x \in DOMAIN SOURCE_BRANCHES :
                  (x \in failed \/ KeepsExisting(x, w)) /\ b \in SOURCE_BRANCHES[x]
            \/ "plan" \in failed /\ b \in SOURCE_BRANCHES["refresh"] \cup SOURCE_BRANCHES["sources"]
<1> DEFINE unable == {x \in DOMAIN SOURCE_BRANCHES : x \in failed \/ KeepsExisting(x, w)}
           planned == IF "plan" \in failed THEN SOURCE_BRANCHES["refresh"] \cup SOURCE_BRANCHES["sources"]
                      ELSE {}
<1>1. Frozen(w, failed) = (UNION {SOURCE_BRANCHES[x] : x \in unable}) \cup planned
  BY Zenon DEF Frozen, When
<1>2. \A x : x \in unable <=> x \in DOMAIN SOURCE_BRANCHES /\ (x \in failed \/ KeepsExisting(x, w))
  BY Zenon
<1>3. b \in planned
        <=> "plan" \in failed /\ b \in SOURCE_BRANCHES["refresh"] \cup SOURCE_BRANCHES["sources"]
  OBVIOUS
<1> HIDE DEF unable, planned
<1>4. b \in UNION {SOURCE_BRANCHES[x] : x \in unable} <=> \E x \in unable : b \in SOURCE_BRANCHES[x]
  OBVIOUS
<1>5. b \in Frozen(w, failed) <=> (\E x \in unable : b \in SOURCE_BRANCHES[x]) \/ b \in planned
  BY <1>1, <1>4, Zenon
<1>6. (\E x \in unable : b \in SOURCE_BRANCHES[x])
        <=> \E x \in DOMAIN SOURCE_BRANCHES :
               (x \in failed \/ KeepsExisting(x, w)) /\ b \in SOURCE_BRANCHES[x]
  BY <1>2, Zenon
<1> QED
  BY <1>3, <1>5, <1>6, Zenon

LEMMA RowsSource ==
  ASSUME NEW r, NEW b \in BranchesOf(r)
  PROVE  \/ r[1] = "manual" /\ b = "manual" /\ SourceOf(r) \notin DOMAIN SOURCE_BRANCHES
         \/ /\ r[1] # "manual" /\ b # "manual"
            /\ SourceOf(r) \in DOMAIN SOURCE_BRANCHES /\ b \in SOURCE_BRANCHES[SourceOf(r)]
<1>1. CASE r[1] = "manual"
  <2>1. b = "manual"
    BY <1>1 DEF BranchesOf
  <2>2. r # <<"sources", "research">>
    BY <1>1
  <2>3. SourceOf(r) = "nobody"
    BY <1>1, <2>2 DEF SourceOf
  <2> QED
    BY <1>1, <2>1, <2>3, SourceNames
<1>2. CASE r[1] # "manual"
  BY <1>2, NobodysBranch DEF BranchesOf
<1> QED
  BY <1>1, <1>2

\* Whether the merge may settle an open row is whether the pass could judge it,
\* but for a branch that a failed source shares and a lost page's play that the
\* pass did not find open.
LEMMA SettledWhenJudged ==
  ASSUME NEW s, JudgedWell(s), ReadWell(s), NEW r \in DOMAIN s.have,
         r \notin StillLost(s), s.have[r].branch \notin s.frozen \cup {"manual"},
         s.have[r].status \in OpenStatuses
  PROVE  CouldJudge(s, r) \/ (SourceOf(r) = "refresh" /\ r \notin s.found)
<1> DEFINE b == s.have[r].branch
           w == Worlds[s.world]
<1>1. b \in BranchesOf(r)
  BY DEF ReadWell, RowWell
<1>2. SourceOf(r) \in DOMAIN SOURCE_BRANCHES /\ b \in SOURCE_BRANCHES[SourceOf(r)]
  BY <1>1, RowsSource
<1>3. b \notin Frozen(w, s.failed)
  BY DEF JudgedWell
<1>4. SourceOf(r) \notin s.failed /\ ~KeepsExisting(SourceOf(r), w)
  BY <1>2, <1>3, FrozenBranch
<1>5. SourceOf(r) \in {"refresh", "sources"} => "plan" \notin s.failed
  BY <1>2, <1>3, FrozenBranch
<1>6. SourceOf(r) = "agents" => w.logs.state # "stale"
  BY <1>4, Zenon DEF KeepsExisting
<1>7. SourceOf(r) \in DOMAIN SOURCE_BRANCHES \ s.failed
  BY <1>2, <1>4
<1>8. CASE SourceOf(r) = "refresh" /\ r \notin s.found
  BY <1>8
<1>9. CASE SourceOf(r) = "refresh" => r \in s.found
  <2>1. SourceOf(r) = "refresh" => r[2] \in Protect(w).cited
    BY <1>9 DEF StillLost
  <2>2. CouldJudge(s, r)
    BY <1>5, <1>6, <1>7, <2>1, Zenon DEF CouldJudge
  <2> QED
    BY <2>2
<1> QED
  BY <1>8, <1>9

LEMMA KeptWhenNotJudged ==
  ASSUME NEW s, JudgedWell(s), ReadWell(s), NEW r \in DOMAIN s.have,
         r \in StillLost(s) \/ s.have[r].branch \in s.frozen \cup {"manual"}
  PROVE  \/ ~CouldJudge(s, r)
         \/ \E x \in DOMAIN SOURCE_BRANCHES :
               /\ x \in s.failed /\ SourceOf(r) \in DOMAIN SOURCE_BRANCHES
               /\ s.have[r].branch \in SOURCE_BRANCHES[x] \cap SOURCE_BRANCHES[SourceOf(r)]
<1> DEFINE b == s.have[r].branch
           w == Worlds[s.world]
<1> SUFFICES ASSUME CouldJudge(s, r)
             PROVE  \E x \in DOMAIN SOURCE_BRANCHES :
                       /\ x \in s.failed /\ SourceOf(r) \in DOMAIN SOURCE_BRANCHES
                       /\ b \in SOURCE_BRANCHES[x] \cap SOURCE_BRANCHES[SourceOf(r)]
  OBVIOUS
<1>1. /\ SourceOf(r) \in DOMAIN SOURCE_BRANCHES
      /\ SourceOf(r) \in {"refresh", "sources"} => "plan" \notin s.failed
      /\ SourceOf(r) = "agents" => w.logs.state # "stale"
      /\ SourceOf(r) = "refresh" => r[2] \in Protect(w).cited
  BY Zenon DEF CouldJudge
<1>2. b \in BranchesOf(r)
  BY DEF ReadWell, RowWell
<1>3. b # "manual" /\ b \in SOURCE_BRANCHES[SourceOf(r)]
  BY <1>1, <1>2, RowsSource
<1>4. r \notin StillLost(s)
  <2> SUFFICES ASSUME r \in StillLost(s) PROVE FALSE
    OBVIOUS
  <2>1. "refresh" \in BranchesOf(r) /\ r[2] \notin Protect(w).cited
    BY DEF StillLost, ReadWell, SoughtWell
  <2>2. SourceOf(r) = "refresh"
    BY <1>1, <2>1, RowsSource, OwnBranches, SourceNames, SourceTable
  <2> QED
    BY <1>1, <2>1, <2>2
<1>5. b \in Frozen(w, s.failed)
  BY <1>3, <1>4 DEF JudgedWell
<1>6. ~("plan" \in s.failed /\ b \in SOURCE_BRANCHES["refresh"] \cup SOURCE_BRANCHES["sources"])
  <2> SUFFICES ASSUME "plan" \in s.failed,
                      b \in SOURCE_BRANCHES["refresh"] \cup SOURCE_BRANCHES["sources"]
               PROVE  FALSE
    OBVIOUS
  <2>1. SourceOf(r) \in {"refresh", "sources"}
    BY <1>1, <1>3, OwnBranches
  <2> QED
    BY <1>1, <2>1
<1>7. PICK x \in DOMAIN SOURCE_BRANCHES :
        (x \in s.failed \/ KeepsExisting(x, w)) /\ b \in SOURCE_BRANCHES[x]
  BY <1>5, <1>6, FrozenBranch, Zenon
<1>8. ~KeepsExisting(x, w)
  <2> SUFFICES ASSUME x = "agents", w.logs.state = "stale" PROVE FALSE
    BY Zenon DEF KeepsExisting
  <2>1. SourceOf(r) = "agents"
    BY <1>1, <1>3, <1>7, OwnBranches
  <2> QED
    BY <1>1, <2>1
<1> QED
  BY <1>1, <1>3, <1>7, <1>8

LEMMA PlaybookStart == PlaybookInit => PlaybookInv
<1> SUFFICES ASSUME PlaybookInit PROVE PlaybookInv
  OBVIOUS
<1>1. world \in DOMAIN Worlds /\ touch \in Nat /\ DOMAIN recs = {}
  BY PlaybookAssumption DEF PlaybookInit
<1>2. DOMAIN pass = Passes /\ \A p \in Passes : pass[p] = NoPass
  BY DEF PlaybookInit
<1>3. \A p \in Passes : PassWell(pass[p]) /\ pass[p].at # "read"
  BY <1>2, NoPassOff DEF PassWell
<1> QED
  BY <1>1, <1>2, <1>3 DEF PlaybookInv

LEMMA PassesKept ==
  ASSUME PlaybookInv, NEW p \in Passes, NEW s, PassWell(s), pass' = [pass EXCEPT ![p] = s]
  PROVE  DOMAIN pass' = Passes /\ \A k \in Passes : PassWell(pass'[k])
<1>1. DOMAIN pass = Passes /\ \A k \in Passes : PassWell(pass[k])
  BY DEF PlaybookInv
<1>2. DOMAIN pass' = Passes /\ pass'[p] = s /\ \A k \in Passes : k # p => pass'[k] = pass[k]
  BY <1>1
<1> QED
  BY <1>1, <1>2

LEMMA JudgeKeeps ==
  ASSUME PlaybookInv, NEW p \in Passes, Judge(p) PROVE PlaybookInv'
<1>1. PICK failed \in Faults :
        pass' = [pass EXCEPT ![p] =
           [at |-> "judged", world |-> world, failed |-> failed,
            frozen |-> Frozen(Worlds[world], failed),
            plays |-> UNION {PlaysOf(s, Worlds[world], "plan" \notin failed) :
                                s \in DOMAIN SOURCE_BRANCHES \ failed}]]
  BY Zenon DEF Judge
<1> DEFINE all == UNION {PlaysOf(s, Worlds[world], "plan" \notin failed) :
                            s \in DOMAIN SOURCE_BRANCHES \ failed}
           judged == [at |-> "judged", world |-> world, failed |-> failed,
                      frozen |-> Frozen(Worlds[world], failed), plays |-> all]
<1>2. PassWell(judged)
  <2>1. /\ judged.at = "judged" /\ judged.world = world /\ judged.failed = failed
        /\ judged.frozen = Frozen(Worlds[world], failed) /\ judged.plays = all
    <3> HIDE DEF all
    <3> QED
      OBVIOUS
  <2>2. world \in DOMAIN Worlds
    BY DEF PlaybookInv
  <2> HIDE DEF judged
  <2>3. {"at", "world", "failed", "frozen", "plays"} \subseteq DOMAIN judged
    BY DEF judged
  <2>4. JudgedWell(judged)
    <3>1. judged.plays = Gathered(judged.world, judged.failed)
      BY <2>1 DEF Gathered
    <3> QED
      BY <2>1, <2>2, <2>3, <3>1 DEF JudgedWell
  <2> QED
    BY <2>1, <2>4, Zenon DEF PassWell
<1>3. pass' = [pass EXCEPT ![p] = judged]
  BY <1>1, Zenon
<1> HIDE DEF judged
<1>4. DOMAIN pass' = Passes /\ \A k \in Passes : PassWell(pass'[k])
  BY <1>2, <1>3, PassesKept
<1>5. UNCHANGED <<world, recs, touch>>
  BY DEF Judge
<1>6. judged.at = "judged"
  BY DEF judged
<1>7. \A k \in Passes : pass'[k].at = "read" => DOMAIN pass'[k].have \subseteq DOMAIN recs'
  BY <1>3, <1>5, <1>6 DEF PlaybookInv
<1> QED
  BY <1>4, <1>5, <1>7 DEF PlaybookInv

\* A pass that reads keeps what it judged.
LEMMA ReadingKeeps ==
  ASSUME PlaybookInv, NEW p \in Passes, JudgedWell(pass[p]),
         NEW s, s.world = pass[p].world, s.failed = pass[p].failed,
         s.frozen = pass[p].frozen, s.plays = pass[p].plays,
         DOMAIN pass[p] \subseteq DOMAIN s,
         \/ s.at = "sought" /\ SoughtWell(s)
         \/ s.at = "read" /\ ReadWell(s) /\ s.have = recs,
         pass' = [pass EXCEPT ![p] = s], UNCHANGED <<world, recs, touch>>
  PROVE  PlaybookInv'
<1>1. JudgedWell(s)
  BY Zenon DEF JudgedWell
<1>2. PassWell(s)
  BY <1>1 DEF PassWell
<1>3. DOMAIN pass' = Passes /\ \A k \in Passes : PassWell(pass'[k])
  BY <1>2, PassesKept
<1>4. \A k \in Passes : pass'[k].at = "read" => DOMAIN pass'[k].have \subseteq DOMAIN recs'
  BY DEF PlaybookInv
<1> QED
  BY <1>3, <1>4 DEF PlaybookInv

LEMMA SeekKeeps ==
  ASSUME PlaybookInv, NEW p \in Passes, SeekLost(p) PROVE PlaybookInv'
<1> DEFINE s == pass[p]
           open == {r \in DOMAIN recs : recs[r].branch = "refresh" /\ recs[r].status \in OpenStatuses}
           found == When("plan" \notin s.failed, open)
           sought == [x \in DOMAIN s \cup {"found"} |->
                        CASE x = "at" -> "sought" [] x = "found" -> found [] OTHER -> s[x]]
<1>1. s.at = "judged" /\ JudgedWell(s)
  BY NoPassOff DEF SeekLost, PlaybookInv, PassWell
<1>2. pass' = [pass EXCEPT ![p] = sought]
  <2>1. p \in DOMAIN pass
    BY DEF PlaybookInv
  <2>2. pass' = [pass EXCEPT ![p] = [x \in DOMAIN @ \cup {"found"} |->
                   CASE x = "at" -> "sought" [] x = "found" -> found [] OTHER -> @[x]]]
    BY Zenon DEF SeekLost
  <2> QED
    BY <2>1, <2>2, Zenon
<1>3. \A r \in found : "refresh" \in BranchesOf(r)
  BY DEF When, PlaybookInv, RowWell
<1>4. {"at", "world", "failed", "frozen", "plays"} \subseteq DOMAIN s
  BY <1>1 DEF JudgedWell
<1> HIDE DEF s, found
<1>5. /\ sought.at = "sought" /\ sought.found = found
      /\ sought.world = s.world /\ sought.failed = s.failed
      /\ sought.frozen = s.frozen /\ sought.plays = s.plays
      /\ DOMAIN sought = DOMAIN s \cup {"found"}
  BY <1>4
<1> HIDE DEF sought
<1>6. SoughtWell(sought)
  BY <1>3, <1>5 DEF SoughtWell
<1>7. UNCHANGED <<world, recs, touch>>
  BY DEF SeekLost
<1> QED
  BY <1>1, <1>2, <1>5, <1>6, <1>7, ReadingKeeps DEF s

LEMMA ReadKeeps ==
  ASSUME PlaybookInv, NEW p \in Passes, ReadRows(p) PROVE PlaybookInv'
<1> DEFINE s == pass[p]
           read == [x \in DOMAIN s \cup {"have"} |->
                      CASE x = "at" -> "read" [] x = "have" -> recs [] OTHER -> s[x]]
<1>1. s.at = "sought" /\ JudgedWell(s) /\ SoughtWell(s)
  BY NoPassOff DEF ReadRows, PlaybookInv, PassWell
<1>2. pass' = [pass EXCEPT ![p] = read]
  <2>1. p \in DOMAIN pass
    BY DEF PlaybookInv
  <2>2. pass' = [pass EXCEPT ![p] = [x \in DOMAIN @ \cup {"have"} |->
                   CASE x = "at" -> "read" [] x = "have" -> recs [] OTHER -> @[x]]]
    BY Zenon DEF ReadRows
  <2> QED
    BY <2>1, <2>2, Zenon
<1>3. {"at", "world", "failed", "frozen", "plays", "found"} \subseteq DOMAIN s
  BY <1>1 DEF JudgedWell, SoughtWell
<1> HIDE DEF s
<1>4. /\ read.at = "read" /\ read.have = recs /\ read.found = s.found
      /\ read.world = s.world /\ read.failed = s.failed
      /\ read.frozen = s.frozen /\ read.plays = s.plays
      /\ DOMAIN read = DOMAIN s \cup {"have"}
  BY <1>3
<1> HIDE DEF read
<1>5. ReadWell(read)
  BY <1>1, <1>3, <1>4 DEF ReadWell, SoughtWell, PlaybookInv
<1>6. UNCHANGED <<world, recs, touch>>
  BY DEF ReadRows
<1> QED
  BY <1>1, <1>2, <1>4, <1>5, <1>6, ReadingKeeps DEF s

\* What a save does to the table.
LEMMA SaveShape ==
  ASSUME PlaybookInv, NEW p \in Passes, Save(p)
  PROVE  LET s == pass[p]
             inserted == DOMAIN Merged(s) \ DOMAIN s.have
         IN  /\ s.at = "read" /\ JudgedWell(s) /\ ReadWell(s) /\ DOMAIN s.have \subseteq DOMAIN recs
             /\ pass' = [pass EXCEPT ![p] = NoPass] /\ world' = world /\ touch' = touch
             /\ inserted \cap DOMAIN recs # {} => recs' = recs
             /\ inserted \cap DOMAIN recs = {} =>
                  /\ DOMAIN recs' = DOMAIN recs \cup DOMAIN Merged(s)
                  /\ \A r \in DOMAIN recs' :
                       /\ r \in inserted => recs'[r] = Merged(s)[r]
                       /\ r \in DOMAIN s.have => recs'[r] = Written(s.have[r], Merged(s)[r], recs[r])
                       /\ r \notin DOMAIN Merged(s) => r \in DOMAIN recs /\ recs'[r] = recs[r]
<1> DEFINE s == pass[p]
           meant == Merged(s)
           inserted == DOMAIN meant \ DOMAIN s.have
           table == [r \in DOMAIN recs \cup DOMAIN meant |->
                       IF r \in inserted THEN meant[r]
                       ELSE IF r \in DOMAIN meant THEN Written(s.have[r], meant[r], recs[r])
                       ELSE recs[r]]
<1>1. /\ s.at = "read" /\ pass' = [pass EXCEPT ![p] = NoPass]
      /\ world' = world /\ touch' = touch
      /\ IF inserted \cap DOMAIN recs # {} THEN UNCHANGED recs ELSE recs' = table
  BY Zenon DEF Save
<1>2. JudgedWell(s) /\ ReadWell(s) /\ DOMAIN s.have \subseteq DOMAIN recs
  BY <1>1, NoPassOff DEF PlaybookInv, PassWell
<1>3. DOMAIN s.have \subseteq DOMAIN meant
  BY MergedDomain
<1> HIDE DEF s, meant
<1>4. \A r \in DOMAIN table :
         /\ r \in inserted => table[r] = meant[r]
         /\ r \in DOMAIN s.have => table[r] = Written(s.have[r], meant[r], recs[r])
         /\ r \notin DOMAIN meant => r \in DOMAIN recs /\ table[r] = recs[r]
  BY <1>3
<1>5. DOMAIN table = DOMAIN recs \cup DOMAIN meant
  OBVIOUS
<1> HIDE DEF table
<1>6. inserted \cap DOMAIN recs # {} => recs' = recs
  BY <1>1
<1>7. inserted \cap DOMAIN recs = {} => recs' = table
  BY <1>1
<1>8. inserted \cap DOMAIN recs = {} =>
         /\ DOMAIN recs' = DOMAIN recs \cup DOMAIN meant
         /\ \A r \in DOMAIN recs' :
              /\ r \in inserted => recs'[r] = meant[r]
              /\ r \in DOMAIN s.have => recs'[r] = Written(s.have[r], meant[r], recs[r])
              /\ r \notin DOMAIN meant => r \in DOMAIN recs /\ recs'[r] = recs[r]
  BY <1>4, <1>5, <1>7
<1> QED
  BY <1>1, <1>2, <1>6, <1>8 DEF s, meant

LEMMA WrittenFields ==
  ASSUME NEW r, NEW read, NEW meant, NEW current,
         RowWell(r, read), RowWell(r, meant), RowWell(r, current)
  PROVE  /\ RowWell(r, Written(read, meant, current))
         /\ Written(read, meant, current).status =
               IF meant.status = read.status THEN current.status ELSE meant.status
<1>1. /\ DOMAIN Written(read, meant, current) = {"branch", "prio", "status"}
      /\ Written(read, meant, current).status =
               IF meant.status = read.status THEN current.status ELSE meant.status
      /\ Written(read, meant, current).branch =
               IF meant.branch = read.branch THEN current.branch ELSE meant.branch
  BY DEF Written, RowWell
<1> QED
  BY <1>1 DEF RowWell

LEMMA SaveKeeps ==
  ASSUME PlaybookInv, NEW p \in Passes, Save(p) PROVE PlaybookInv'
<1> DEFINE s == pass[p]
<1>1. /\ JudgedWell(s) /\ ReadWell(s) /\ DOMAIN s.have \subseteq DOMAIN recs
      /\ pass' = [pass EXCEPT ![p] = NoPass] /\ world' = world /\ touch' = touch
  BY SaveShape
<1>2. DOMAIN pass' = Passes /\ \A k \in Passes : PassWell(pass'[k])
  BY <1>1, PassesKept DEF PassWell
<1>3. \A r \in DOMAIN recs : RowWell(r, recs[r])
  BY DEF PlaybookInv
<1>4. DOMAIN recs \subseteq DOMAIN recs' /\ \A r \in DOMAIN recs' : RowWell(r, recs'[r])
  <2>1. CASE (DOMAIN Merged(s) \ DOMAIN s.have) \cap DOMAIN recs # {}
    <3>1. recs' = recs
      BY <2>1, SaveShape
    <3> QED
      BY <1>3, <3>1
  <2>2. CASE (DOMAIN Merged(s) \ DOMAIN s.have) \cap DOMAIN recs = {}
    <3>1. /\ DOMAIN recs' = DOMAIN recs \cup DOMAIN Merged(s)
          /\ \A r \in DOMAIN recs' :
               /\ r \in DOMAIN Merged(s) \ DOMAIN s.have => recs'[r] = Merged(s)[r]
               /\ r \in DOMAIN s.have => recs'[r] = Written(s.have[r], Merged(s)[r], recs[r])
               /\ r \notin DOMAIN Merged(s) => r \in DOMAIN recs /\ recs'[r] = recs[r]
      BY <2>2, SaveShape
    <3>2. ASSUME NEW r \in DOMAIN recs' PROVE RowWell(r, recs'[r])
      <4>1. r \in DOMAIN Merged(s) => RowWell(r, Merged(s)[r])
        BY <1>1, MergedWell
      <4>2. CASE r \in DOMAIN Merged(s) \ DOMAIN s.have
        BY <3>1, <4>1, <4>2
      <4>3. CASE r \in DOMAIN s.have
        <5>1. RowWell(r, s.have[r]) /\ RowWell(r, recs[r])
          BY <1>1, <1>3, <4>3 DEF ReadWell
        <5>2. RowWell(r, Merged(s)[r])
          BY <4>1, <4>3, MergedDomain
        <5>3. recs'[r] = Written(s.have[r], Merged(s)[r], recs[r])
          BY <3>1, <4>3
        <5> QED
          BY <5>1, <5>2, <5>3, WrittenFields
      <4>4. CASE r \notin DOMAIN Merged(s)
        BY <1>3, <3>1, <4>4
      <4> QED
        BY <4>2, <4>3, <4>4
    <3> QED
      BY <3>1, <3>2
  <2> QED
    BY <2>1, <2>2
<1>5. \A k \in Passes : pass'[k].at = "read" => DOMAIN pass'[k].have \subseteq DOMAIN recs'
  BY <1>1, <1>4, NoPassOff DEF PlaybookInv
<1> QED
  BY <1>1, <1>2, <1>4, <1>5 DEF PlaybookInv

LEMMA PlaybookStep == PlaybookInv /\ [PlaybookNext]_playbookVars => PlaybookInv'
<1> SUFFICES ASSUME PlaybookInv, [PlaybookNext]_playbookVars PROVE PlaybookInv'
  OBVIOUS
<1>1. ASSUME NEW w \in DOMAIN Worlds, Drift(w) PROVE PlaybookInv'
  BY <1>1 DEF Drift, PlaybookInv
<1>2. ASSUME NEW p \in Passes, Judge(p) \/ SeekLost(p) \/ ReadRows(p) \/ Save(p) PROVE PlaybookInv'
  BY <1>2, JudgeKeeps, SeekKeeps, ReadKeeps, SaveKeeps
<1>3. ASSUME NEW r, NEW status \in HandTo, UpdateRecommendation(r, status) PROVE PlaybookInv'
  <2>1. /\ UNCHANGED <<world, pass>> /\ touch' = touch + 1 /\ r \in DOMAIN recs
        /\ recs' = [recs EXCEPT ![r].status = status]
    BY <1>3 DEF UpdateRecommendation
  <2>2. status \in Statuses
    BY PlaybookAssumption
  <2>3. DOMAIN recs' = DOMAIN recs /\ \A k \in DOMAIN recs : k # r => recs'[k] = recs[k]
    BY <2>1
  <2>4. PICK row : row = recs[r]
    OBVIOUS
  <2>5. recs'[r] = [row EXCEPT !.status = status]
    BY <2>1, <2>4
  <2>6. RowWell(r, row)
    BY <2>1, <2>4 DEF PlaybookInv
  <2>7. RowWell(r, recs'[r])
    BY <2>2, <2>5, <2>6 DEF RowWell
  <2>8. \A k \in DOMAIN recs' : RowWell(k, recs'[k])
    BY <2>3, <2>7 DEF PlaybookInv
  <2> QED
    BY <2>1, <2>3, <2>8 DEF PlaybookInv
<1>4. ASSUME NEW ref \in ManualRefs, AddRecommendation(ref) PROVE PlaybookInv'
  <2> DEFINE r == <<"manual", ref>>
             row == [branch |-> "manual", status |-> "in_progress",
                     prio |-> IF r \in DOMAIN recs THEN recs[r].prio ELSE 60]
  <2>1. /\ UNCHANGED <<world, pass>> /\ touch' = touch + 1
        /\ recs' = [x \in DOMAIN recs \cup {r} |-> IF x # r THEN recs[x] ELSE row]
    BY <1>4, Zenon DEF AddRecommendation
  <2>2. r[1] = "manual"
    OBVIOUS
  <2>3. RowWell(r, row)
    <3> HIDE DEF r
    <3> QED
      BY <2>2 DEF RowWell, BranchesOf, Statuses, OpenStatuses
  <2> HIDE DEF r, row
  <2>4. /\ DOMAIN recs' = DOMAIN recs \cup {r}
        /\ \A k \in DOMAIN recs' : RowWell(k, recs'[k])
    BY <2>1, <2>3 DEF PlaybookInv
  <2>5. \A p \in Passes : pass'[p].at = "read" => DOMAIN pass'[p].have \subseteq DOMAIN recs'
    <3>1. \A p \in Passes : pass[p].at = "read" => DOMAIN pass[p].have \subseteq DOMAIN recs
      BY DEF PlaybookInv
    <3>2. pass' = pass /\ DOMAIN recs \subseteq DOMAIN recs'
      BY <2>1, <2>4
    <3> QED
      BY <3>1, <3>2
  <2>6. /\ world' \in DOMAIN Worlds /\ touch' \in Nat
        /\ DOMAIN pass' = Passes /\ \A p \in Passes : PassWell(pass'[p])
    BY <2>1 DEF PlaybookInv
  <2> QED
    BY <2>4, <2>5, <2>6 DEF PlaybookInv
<1>5. CASE UNCHANGED playbookVars
  BY <1>5 DEF playbookVars, PlaybookInv
<1> QED
  BY <1>1, <1>2, <1>3, <1>4, <1>5 DEF PlaybookNext

\* Through judgings, saves, user actions and changes of the data in any order: a row's
\* branch is one its source can give, and what a pass holds to save is what its own
\* judging made of the data it read, with no row it read gone since.
THEOREM PlaybookInvariant == PlaybookSpec => []PlaybookInv
BY PlaybookStart, PlaybookStep, PTL DEF PlaybookSpec

-----------------------------------------------------------------------------
(* What a save leaves.                                                       *)

ResolvedBy(p, r) ==
    Saves(p) /\ \/ CouldJudge(pass[p], r)
                \/ /\ SourceOf(r) = "refresh" /\ r \notin pass[p].found
                   /\ r \in DOMAIN pass[p].have /\ pass[p].have[r].status \in OpenStatuses

LEMMA SaveResolves ==
  ASSUME PlaybookInv, NEW p \in Passes, Save(p),
         NEW r \in DOMAIN recs, recs[r].status # "resolved", recs'[r].status = "resolved"
  PROVE  ResolvedBy(p, r)
<1> DEFINE s == pass[p]
           inserted == DOMAIN Merged(s) \ DOMAIN s.have
<1>1. /\ s.at = "read" /\ JudgedWell(s) /\ ReadWell(s) /\ DOMAIN s.have \subseteq DOMAIN recs
      /\ pass' = [pass EXCEPT ![p] = NoPass]
      /\ inserted \cap DOMAIN recs # {} => recs' = recs
      /\ inserted \cap DOMAIN recs = {} =>
           /\ DOMAIN recs' = DOMAIN recs \cup DOMAIN Merged(s)
           /\ \A k \in DOMAIN recs' :
                /\ k \in inserted => recs'[k] = Merged(s)[k]
                /\ k \in DOMAIN s.have => recs'[k] = Written(s.have[k], Merged(s)[k], recs[k])
                /\ k \notin DOMAIN Merged(s) => k \in DOMAIN recs /\ recs'[k] = recs[k]
  BY SaveShape
<1>2. Saves(p)
  BY <1>1 DEF Saves, PlaybookInv
<1>3. inserted \cap DOMAIN recs = {} /\ r \in DOMAIN recs'
  BY <1>1
<1>4. r \in DOMAIN s.have
  BY <1>1, <1>3
<1>5. recs'[r] = Written(s.have[r], Merged(s)[r], recs[r]) /\ r \in DOMAIN Merged(s)
  BY <1>1, <1>3, <1>4, MergedDomain
<1>6. /\ RowWell(r, s.have[r]) /\ RowWell(r, recs[r]) /\ RowWell(r, Merged(s)[r])
  BY <1>1, <1>4, <1>5, MergedWell DEF ReadWell, PlaybookInv
<1>7. Merged(s)[r].status = "resolved" /\ s.have[r].status # "resolved"
  <2>1. PICK read, meant, current :
           read = s.have[r] /\ meant = Merged(s)[r] /\ current = recs[r]
    OBVIOUS
  <2>2. RowWell(r, read) /\ RowWell(r, meant) /\ RowWell(r, current)
    BY <1>6, <2>1
  <2>3. Written(read, meant, current).status =
           IF meant.status = read.status THEN current.status ELSE meant.status
    <3>1. RowWell(r, Written(read, meant, current))
          /\ Written(read, meant, current).status =
               IF meant.status = read.status THEN current.status ELSE meant.status
      BY <2>2, WrittenFields
    <3> QED
      BY <3>1
  <2>4. Written(read, meant, current).status = "resolved" /\ current.status # "resolved"
    BY <1>5, <2>1
  <2> QED
    BY <2>1, <2>3, <2>4
<1>8. Merged(s)[r] = LeftOver(r, s.have[r], s)
  BY <1>5, <1>7, MergedRow, LiveStaysOpen
<1>9. /\ s.have[r].status \in OpenStatuses
      /\ r \notin StillLost(s) /\ s.have[r].branch \notin s.frozen \cup {"manual"}
  BY <1>6, <1>7, <1>8, LeftOverIs
<1>10. CouldJudge(s, r) \/ (SourceOf(r) = "refresh" /\ r \notin s.found)
  BY <1>1, <1>4, <1>9, SettledWhenJudged
<1> QED
  BY <1>2, <1>4, <1>9, <1>10 DEF ResolvedBy

\* However passes, people and changes of the data interleave: a play no person touched is
\* resolved only by a save whose pass ran that play's own source on data that can settle it
\* (the freeze rules of generate_recommendations), or, for a lost page's play, by one that
\* read it open but had not found it open when it asked which were.
THEOREM PlaysResolvedForCause == PlaybookSpec => ResolvedForCause
<1> DEFINE Cause == \A r \in DOMAIN recs : Resolves(r) =>
              \E p \in Passes : Saves(p) /\ \/ CouldJudge(pass[p], r)
                                            \/ /\ SourceOf(r) = "refresh"
                                               /\ r \notin pass[p].found
                                               /\ r \in DOMAIN pass[p].have
                                               /\ pass[p].have[r].status \in OpenStatuses
<1>1. PlaybookInv /\ [PlaybookNext]_playbookVars => [Cause]_playbookVars
  <2> SUFFICES ASSUME PlaybookInv, PlaybookNext, NEW r \in DOMAIN recs, Resolves(r)
               PROVE  \E p \in Passes : ResolvedBy(p, r)
    BY DEF ResolvedBy
  <2>1. /\ touch # touch + 1 /\ touch' = touch
        /\ recs[r].status # "resolved" /\ recs'[r].status = "resolved"
    BY DEF PlaybookInv, Resolves
  <2>2. recs' # recs
    BY <2>1
  <2>3. PICK p \in Passes : Save(p)
    BY <2>1, <2>2
       DEF PlaybookNext, Drift, Judge, SeekLost, ReadRows, UpdateRecommendation, AddRecommendation
  <2> QED
    BY <2>1, <2>3, SaveResolves
<1>2. [Cause]_playbookVars => [Cause]_playbookVars
  OBVIOUS
<1> QED
  BY <1>1, PlaybookInvariant, PTL DEF PlaybookSpec, ResolvedForCause

LEMMA OnlySaveSaves ==
  ASSUME PlaybookInv, PlaybookNext, NEW p \in Passes, Saves(p)
  PROVE  Save(p)
<1>1. DOMAIN pass = Passes /\ pass[p].at = "read" /\ pass'[p].at = "off"
  BY NoPassOff DEF PlaybookInv, Saves
<1>2. pass' # pass
  BY <1>1
<1>3. ASSUME NEW k \in Passes, Judge(k) PROVE FALSE
  <2>1. PICK s : pass' = [pass EXCEPT ![k] = s]
    BY <1>3 DEF Judge
  <2>2. pass[k] = NoPass
    BY <1>3 DEF Judge
  <2>3. k # p
    BY <1>1, <2>2, NoPassOff
  <2> QED
    BY <1>1, <2>1, <2>3
<1>4. ASSUME NEW k \in Passes, SeekLost(k) \/ ReadRows(k) PROVE FALSE
  <2>1. PICK s : pass' = [pass EXCEPT ![k] = s]
    BY <1>4 DEF SeekLost, ReadRows
  <2>2. pass[k].at \in {"judged", "sought"}
    BY <1>4 DEF SeekLost, ReadRows
  <2> QED
    BY <1>1, <2>1, <2>2
<1>5. ASSUME NEW k \in Passes, Save(k), k # p PROVE FALSE
  BY <1>1, <1>5 DEF Save
<1> QED
  BY <1>2, <1>3, <1>4, <1>5 DEF PlaybookNext, Drift, UpdateRecommendation, AddRecommendation

\* A save over the rows it read leaves the statuses the merge means.
LEMMA SaveLeavesMerged ==
  ASSUME PlaybookInv, NEW p \in Passes, Save(p), recs = pass[p].have
  PROVE  /\ JudgedWell(pass[p]) /\ ReadWell(pass[p])
         /\ DOMAIN recs' = DOMAIN Merged(pass[p])
         /\ \A r \in DOMAIN recs' :
               recs'[r].status = Merged(pass[p])[r].status /\ RowWell(r, recs'[r])
<1> DEFINE s == pass[p]
           inserted == DOMAIN Merged(s) \ DOMAIN s.have
<1>1. inserted \cap DOMAIN recs = {} /\ DOMAIN recs \subseteq DOMAIN Merged(s)
  BY MergedDomain
<1>2. /\ JudgedWell(s) /\ ReadWell(s)
      /\ DOMAIN recs' = DOMAIN recs \cup DOMAIN Merged(s)
      /\ \A k \in DOMAIN recs' :
           /\ k \in inserted => recs'[k] = Merged(s)[k]
           /\ k \in DOMAIN s.have => recs'[k] = Written(s.have[k], Merged(s)[k], recs[k])
  BY <1>1, SaveShape
<1>3. ASSUME NEW r \in DOMAIN recs'
      PROVE  recs'[r].status = Merged(s)[r].status /\ RowWell(r, recs'[r])
  <2>1. r \in DOMAIN Merged(s) /\ RowWell(r, Merged(s)[r])
    BY <1>1, <1>2, <1>3, MergedWell
  <2>2. CASE r \in inserted
    BY <1>2, <1>3, <2>1, <2>2
  <2>3. CASE r \in DOMAIN s.have
    <3>1. RowWell(r, s.have[r]) /\ recs[r] = s.have[r]
      BY <1>2, <2>3 DEF ReadWell
    <3>2. recs'[r] = Written(s.have[r], Merged(s)[r], recs[r])
      BY <1>2, <1>3, <2>3
    <3>3. /\ RowWell(r, recs'[r])
          /\ recs'[r].status = IF Merged(s)[r].status = s.have[r].status THEN s.have[r].status
                               ELSE Merged(s)[r].status
      BY <2>1, <3>1, <3>2, WrittenFields
    <3> QED
      BY <3>3
  <2> QED
    BY <2>1, <2>2, <2>3
<1> QED
  BY <1>1, <1>2, <1>3

\* An open row of that list whose gap is not live is one the pass kept.
LEMMA OpenWasKept ==
  ASSUME PlaybookInv, NEW p \in Passes, Save(p), recs = pass[p].have,
         NEW r \in DOMAIN recs', recs'[r].status \in OpenStatuses,
         ~\E x \in pass[p].plays : x.ref = r
  PROVE  LET s == pass[p]
         IN  /\ r \in DOMAIN s.have /\ RowWell(r, s.have[r])
             /\ r \in StillLost(s) \/ s.have[r].branch \in s.frozen \cup {"manual"}
<1> DEFINE s == pass[p]
<1>1. /\ JudgedWell(s) /\ ReadWell(s) /\ r \in DOMAIN Merged(s)
      /\ Merged(s)[r].status \in OpenStatuses
  BY SaveLeavesMerged
<1>2. r \in DOMAIN s.have /\ Merged(s)[r] = LeftOver(r, s.have[r], s)
  BY <1>1, MergedRow
<1>3. RowWell(r, s.have[r])
  BY <1>1, <1>2 DEF ReadWell
<1>4. r \in StillLost(s) \/ s.have[r].branch \in s.frozen \cup {"manual"}
  BY <1>1, <1>2, <1>3, LeftOverIs
<1> QED
  BY <1>2, <1>3, <1>4

\* A question's open play is live when the questions' source worked.
LEMMA OpenQueryIsLive ==
  ASSUME PlaybookInv, NEW p \in Passes, Save(p), recs = pass[p].have,
         "query" \notin pass[p].failed,
         NEW r \in DOMAIN recs', recs'[r].status \in OpenStatuses, r[1] = "query"
  PROVE  \E g \in QueryGaps(Worlds[pass[p].world]) : r = <<"query", g[1], g[2]>>
<1> DEFINE s == pass[p]
           w == Worlds[s.world]
<1>1. JudgedWell(s) /\ ReadWell(s)
  BY SaveLeavesMerged
<1>2. SourceOf(r) = "query"
  <2>1. r # <<"sources", "research">>
    OBVIOUS
  <2> QED
    BY <2>1 DEF SourceOf
<1>3. \E x \in s.plays : x.ref = r
  <2> SUFFICES ASSUME ~\E x \in s.plays : x.ref = r PROVE FALSE
    OBVIOUS
  <2>1. /\ r \in DOMAIN s.have /\ RowWell(r, s.have[r])
        /\ r \in StillLost(s) \/ s.have[r].branch \in s.frozen \cup {"manual"}
    BY OpenWasKept
  <2>2. s.have[r].branch \in SOURCE_BRANCHES["query"]
    BY <1>2, <2>1, RowsSource DEF RowWell
  <2>3. CouldJudge(s, r)
    BY <1>2, SourceNames DEF CouldJudge
  <2>4. PICK x \in DOMAIN SOURCE_BRANCHES :
           x \in s.failed /\ s.have[r].branch \in SOURCE_BRANCHES[x]
    BY <1>1, <2>1, <2>3, KeptWhenNotJudged
  <2>5. x = "query"
    BY <2>2, <2>4, OwnBranches
  <2> QED
    BY <2>4, <2>5
<1>4. PICK x \in s.plays : x.ref = r
  BY <1>3
<1>5. PICK k \in DOMAIN SOURCE_BRANCHES \ s.failed :
         x \in PlaysOf(k, w, "plan" \notin s.failed) /\ PlayWell(k, x)
  BY <1>1, PassPlaysWell
<1>6. k = "query"
  BY <1>2, <1>4, <1>5 DEF PlayWell
<1>7. x \in QueryPlays(w, "plan" \notin s.failed)
  BY <1>5, <1>6, Zenon DEF PlaysOf
<1> QED
  BY <1>4, <1>7, QueryPlayIs

\* A save of generate_recommendations whose rows nobody changed under it, after anything:
\* each live gap is listed, an open play without one could not be judged, and no question is
\* told both to win live search and to wait for training.
THEOREM PlaysFollowData == PlaybookSpec => ListFollowsData
<1> DEFINE Live(p) == {x.ref : x \in pass[p].plays}
           Open == {r \in DOMAIN recs' : recs'[r].status \in OpenStatuses}
           Shared(p, r) == SOURCE_BRANCHES[SourceOf(r)]
                              \cap UNION {SOURCE_BRANCHES[s] : s \in
                                 {x \in DOMAIN SOURCE_BRANCHES : x \in pass[p].failed}} # {}
           Follows(p) ==
              /\ \A r \in Live(p) : r \in DOMAIN recs' /\ recs'[r].status # "resolved"
              /\ \A r \in Open \ Live(p) : ~CouldJudge(pass[p], r) \/ Shared(p, r)
              /\ "query" \notin pass[p].failed =>
                    \A r \in Open : r[1] = "query" /\ r[3] = "training"
                                       => <<"query", r[2], "web_search">> \notin Open
<1>1. ASSUME PlaybookInv, PlaybookNext, NEW p \in Passes, Saves(p), recs = pass[p].have
      PROVE  Follows(p)
  <2> DEFINE s == pass[p]
  <2>0. Save(p)
    BY <1>1, OnlySaveSaves
  <2>1. /\ JudgedWell(s) /\ ReadWell(s) /\ DOMAIN recs' = DOMAIN Merged(s)
        /\ \A r \in DOMAIN recs' : recs'[r].status = Merged(s)[r].status
    BY <1>1, <2>0, SaveLeavesMerged
  <2>2. \A r \in Live(p) : r \in DOMAIN recs' /\ recs'[r].status # "resolved"
    BY <2>1, MergedDomain, LiveStaysOpen
  <2>3. ASSUME NEW r \in Open \ Live(p) PROVE ~CouldJudge(s, r) \/ Shared(p, r)
    <3>1. ~\E x \in s.plays : x.ref = r
      BY <2>3
    <3>2. /\ r \in DOMAIN s.have
          /\ r \in StillLost(s) \/ s.have[r].branch \in s.frozen \cup {"manual"}
      BY <1>1, <2>0, <2>3, <3>1, OpenWasKept
    <3>3. \/ ~CouldJudge(s, r)
          \/ \E x \in DOMAIN SOURCE_BRANCHES :
                /\ x \in s.failed /\ SourceOf(r) \in DOMAIN SOURCE_BRANCHES
                /\ s.have[r].branch \in SOURCE_BRANCHES[x] \cap SOURCE_BRANCHES[SourceOf(r)]
      BY <2>1, <3>2, KeptWhenNotJudged
    <3>4. ASSUME NEW x \in DOMAIN SOURCE_BRANCHES, x \in s.failed,
                 s.have[r].branch \in SOURCE_BRANCHES[x] \cap SOURCE_BRANCHES[SourceOf(r)]
          PROVE  Shared(p, r)
      BY <3>4
    <3> HIDE DEF Shared
    <3> QED
      BY <3>3, <3>4
  <2>4. ASSUME "query" \notin s.failed, NEW r \in Open, r[1] = "query", r[3] = "training",
               <<"query", r[2], "web_search">> \in Open
        PROVE  FALSE
    <3> DEFINE w == Worlds[s.world]
               other == <<"query", r[2], "web_search">>
    <3>1. PICK g \in QueryGaps(w) : r = <<"query", g[1], g[2]>>
      BY <1>1, <2>0, <2>4, OpenQueryIsLive
    <3>2. PICK h \in QueryGaps(w) : other = <<"query", h[1], h[2]>>
      <4>1. other[1] = "query" /\ other \in DOMAIN recs' /\ recs'[other].status \in OpenStatuses
        BY <2>4
      <4> HIDE DEF other
      <4> QED
        BY <1>1, <2>0, <2>4, <4>1, OpenQueryIsLive
    <3>3. g[2] = "training" /\ h[2] = "web_search" /\ h[1] = g[1]
      <4>1. r[2] = g[1] /\ r[3] = g[2]
        BY <3>1
      <4>2. other[2] = h[1] /\ other[3] = h[2]
        <5> HIDE DEF other
        <5> QED
          BY <3>2
      <4>3. other[2] = r[2] /\ other[3] = "web_search"
        OBVIOUS
      <4> QED
        BY <2>4, <4>1, <4>2, <4>3
    <3>4. /\ "training" \in AnswerBranch(ClassOf(w, g[1]).bucket)
          /\ "web_search" \in AnswerBranch(ClassOf(w, g[1]).bucket)
      BY <3>3, GapClass
    <3> QED
      BY <3>4 DEF AnswerBranch
  <2> HIDE DEF Shared
  <2> QED
    BY <2>2, <2>3, <2>4
<1>2. PlaybookInv /\ [PlaybookNext]_playbookVars =>
        [\A p \in Passes : Saves(p) /\ recs = pass[p].have => Follows(p)]_playbookVars
  <2> HIDE DEF Follows
  <2> QED
    BY <1>1
<1> QED
  BY <1>2, PlaybookInvariant, PTL DEF PlaybookSpec, ListFollowsData

-----------------------------------------------------------------------------
(* A set listed in some order: ListOf is a recursive function over subsets.   *)

ListStep(g, s) == IF s = {} THEN <<>> ELSE Append(g[s \ {Picked(s)}], Picked(s))
IsList(T, g) == g = [s \in SUBSET T |-> ListStep(g, s)]

LEMMA ListIsChosen ==
  ASSUME NEW S PROVE ListOf(S) = (CHOOSE g : IsList(S, g))[S]
BY Zenon DEF ListOf, FoldSet, MapThenFoldSet, IsList, ListStep, Picked

\* Two solutions of the recursion agree where both are defined.
LEMMA ListUnique ==
  ASSUME NEW A, NEW B, NEW g, NEW h, IsList(A, g), IsList(B, h),
         NEW T, IsFiniteSet(T), T \subseteq A, T \subseteq B
  PROVE  g[T] = h[T]
<1> DEFINE Bad == {s \in SUBSET T : g[s] # h[s]}
<1> SUFFICES ASSUME Bad # {} PROVE FALSE
  OBVIOUS
<1>1. PICK s \in Bad : \A U \in Bad : ~(U \subseteq s /\ U # s)
  <2>1. Bad \in SUBSET (SUBSET T)
    OBVIOUS
  <2> HIDE DEF Bad
  <2> QED
    BY <2>1, SmallestMember
<1>2. s \in SUBSET A /\ s \in SUBSET B /\ g[s] # h[s]
  BY <1>1
<1>3. g[s] = ListStep(g, s) /\ h[s] = ListStep(h, s)
  BY <1>2 DEF IsList
<1>4. CASE s = {}
  BY <1>2, <1>3, <1>4 DEF ListStep
<1>5. CASE s # {}
  <2>1. Picked(s) \in s
    BY <1>5, PickedIn
  <2>2. s \ {Picked(s)} \notin Bad
    BY <1>1, <2>1
  <2>3. g[s \ {Picked(s)}] = h[s \ {Picked(s)}]
    BY <1>1, <2>2
  <2> QED
    BY <1>2, <1>3, <1>5, <2>3 DEF ListStep
<1> QED
  BY <1>4, <1>5

LEMMA ListExists ==
  ASSUME NEW S, IsFiniteSet(S) PROVE \E g : IsList(S, g)
<1> DEFINE Bad == {T \in SUBSET S : ~\E g : IsList(T, g)}
           val(s) == (CHOOSE h : IsList(s, h))[s]
<1> SUFFICES ASSUME Bad # {} PROVE FALSE
  OBVIOUS
<1>1. PICK T \in Bad : \A U \in Bad : ~(U \subseteq T /\ U # T)
  <2>1. Bad \in SUBSET (SUBSET S)
    OBVIOUS
  <2> HIDE DEF Bad
  <2> QED
    BY <2>1, SmallestMember
<1>2. \A s \in SUBSET T : IsFiniteSet(s)
  BY <1>1, FS_Subset
<1>3. \A s \in SUBSET T : s # T => IsList(s, CHOOSE h : IsList(s, h))
  <2> SUFFICES ASSUME NEW s \in SUBSET T, s # T PROVE \E h : IsList(s, h)
    OBVIOUS
  <2>1. s \in SUBSET S /\ s \notin Bad
    BY <1>1
  <2> QED
    BY <2>1
<1>4. \A s \in SUBSET T : s # T /\ s # {} => val(s) = Append(val(s \ {Picked(s)}), Picked(s))
  <2> SUFFICES ASSUME NEW s \in SUBSET T, s # T, s # {}
               PROVE  val(s) = Append(val(s \ {Picked(s)}), Picked(s))
    OBVIOUS
  <2>1. PICK t : t = s \ {Picked(s)}
    OBVIOUS
  <2>2. t \in SUBSET T /\ t # T /\ t \subseteq s
    BY <2>1
  <2>3. PICK h : h = CHOOSE k : IsList(s, k)
    OBVIOUS
  <2>4. PICK j : j = CHOOSE k : IsList(t, k)
    OBVIOUS
  <2>5. IsList(s, h) /\ IsList(t, j)
    BY <1>3, <2>2, <2>3, <2>4
  <2>6. h[t] = j[t]
    BY <1>2, <2>2, <2>5, ListUnique
  <2>7. h[s] = Append(h[t], Picked(s))
    BY <2>1, <2>5 DEF IsList, ListStep
  <2> QED
    BY <2>1, <2>3, <2>4, <2>6, <2>7
<1>5. T # {} => val({}) = <<>>
  <2> SUFFICES ASSUME T # {} PROVE val({}) = <<>>
    OBVIOUS
  <2>1. PICK h : h = CHOOSE k : IsList({}, k)
    OBVIOUS
  <2>2. IsList({}, h)
    BY <1>3, <2>1
  <2>3. h[{}] = <<>>
    BY <2>2 DEF IsList, ListStep
  <2> QED
    BY <2>1, <2>3
<1> HIDE DEF val
<1> DEFINE top == IF T = {} THEN <<>> ELSE Append(val(T \ {Picked(T)}), Picked(T))
           g == [s \in SUBSET T |-> IF s = T THEN top ELSE val(s)]
<1>6. \A s \in SUBSET T : g[s] = ListStep(g, s)
  <2> SUFFICES ASSUME NEW s \in SUBSET T PROVE g[s] = ListStep(g, s)
    OBVIOUS
  <2>1. CASE s = {}
    BY <1>5, <2>1 DEF ListStep
  <2>2. CASE s # {}
    <3>1. PICK t : t = s \ {Picked(s)}
      OBVIOUS
    <3>2. t \in SUBSET T /\ t # T
      BY <2>2, <3>1, PickedIn
    <3>3. g[t] = val(t)
      BY <3>2
    <3>4. ListStep(g, s) = Append(val(t), Picked(s))
      <4> HIDE DEF g
      <4> QED
        BY <2>2, <3>1, <3>3 DEF ListStep
    <3>5. CASE s = T
      BY <2>2, <3>1, <3>4, <3>5
    <3>6. CASE s # T
      BY <1>4, <2>2, <3>1, <3>4, <3>6
    <3> QED
      BY <3>5, <3>6
  <2> QED
    BY <2>1, <2>2
<1>7. g = [s \in SUBSET T |-> g[s]]
  OBVIOUS
<1>8. IsList(T, g)
  <2> HIDE DEF g
  <2> QED
    BY <1>6, <1>7 DEF IsList
<1>9. \E k : IsList(T, k)
  <2> HIDE DEF g
  <2> QED
    BY <1>8
<1> QED
  BY <1>1, <1>9

LEMMA ListEmpty == ListOf({}) = <<>>
<1>1. PICK g : g = CHOOSE k : IsList({}, k)
  OBVIOUS
<1>2. IsList({}, g)
  BY <1>1, ListExists, FS_EmptySet
<1>3. g[{}] = <<>>
  BY <1>2 DEF IsList, ListStep
<1> QED
  BY <1>1, <1>3, ListIsChosen

LEMMA ListPicks ==
  ASSUME NEW S, IsFiniteSet(S), S # {}
  PROVE  ListOf(S) = Append(ListOf(S \ {Picked(S)}), Picked(S))
<1>1. PICK T : T = S \ {Picked(S)}
  OBVIOUS
<1>2. T \subseteq S /\ IsFiniteSet(T)
  BY <1>1, FS_Subset
<1>3. PICK g : g = CHOOSE k : IsList(S, k)
  OBVIOUS
<1>4. PICK h : h = CHOOSE k : IsList(T, k)
  OBVIOUS
<1>5. IsList(S, g) /\ IsList(T, h)
  BY <1>2, <1>3, <1>4, ListExists
<1>6. g[T] = h[T]
  BY <1>2, <1>5, ListUnique
<1>7. g[S] = Append(g[T], Picked(S))
  BY <1>1, <1>5 DEF IsList, ListStep
<1>8. ListOf(S) = g[S] /\ ListOf(T) = h[T]
  BY <1>3, <1>4, ListIsChosen
<1> QED
  BY <1>1, <1>6, <1>7, <1>8

LEMMA ListedIn ==
  ASSUME NEW S, IsFiniteSet(S) PROVE ListOf(S) \in Seq(S)
<1> DEFINE Bad == {T \in SUBSET S : ListOf(T) \notin Seq(S)}
<1> SUFFICES ASSUME Bad # {} PROVE FALSE
  OBVIOUS
<1>1. PICK T \in Bad : \A U \in Bad : ~(U \subseteq T /\ U # T)
  <2>1. Bad \in SUBSET (SUBSET S)
    OBVIOUS
  <2> HIDE DEF Bad
  <2> QED
    BY <2>1, SmallestMember
<1>2. T # {}
  <2>0. <<>> \in Seq(S)
    OBVIOUS
  <2>1. ListOf({}) \in Seq(S)
    BY <2>0, ListEmpty, Zenon
  <2>2. ListOf(T) \notin Seq(S)
    BY <1>1
  <2> QED
    BY <2>1, <2>2, Zenon
<1>3. Picked(T) \in T /\ IsFiniteSet(T)
  BY <1>1, <1>2, PickedIn, FS_Subset
<1>4. ListOf(T \ {Picked(T)}) \in Seq(S)
  BY <1>1, <1>3
<1>5. Picked(T) \in S
  BY <1>1, <1>3
<1>6. ListOf(T) = Append(ListOf(T \ {Picked(T)}), Picked(T))
  BY <1>2, <1>3, ListPicks
<1>7. ListOf(T) \in Seq(S)
  <2> HIDE DEF Bad
  <2> QED
    BY <1>4, <1>5, <1>6
<1> QED
  BY <1>1, <1>7

-----------------------------------------------------------------------------
(* Measures: the answers of the database are numbered in the order in which  *)
(* they were stored, and an imported one may have been captured before that. *)

Clocked ==
    /\ now \in Int
    /\ IsFiniteSet(DOMAIN questions)
    /\ IsFiniteSet(ledger) /\ \A i \in ledger : i.at \in Int
    /\ DOMAIN model = Engines
    /\ \A e \in Engines : (e \in Browser => model[e] = NoModel) /\ (e \notin Browser => model[e] # NoModel)

\* What a run stored is dated as it is stored, and names a model unless a browser
\* captured it; a vendor's capture may be of any earlier time and model.
AnswerWell(a) ==
    /\ a.id \in Nat /\ a.at \in Int /\ a.stored \in Int /\ a.at <= a.stored /\ a.stored < now
    /\ a.sf \in Engines
    /\ a.text = Asked => /\ a.at = a.stored
                         /\ a.sf \in Browser => a.model = NoModel
                         /\ a.sf \notin Browser => a.model # NoModel

Numbered ==
    /\ IsFiniteSet(answers)
    /\ \A a \in answers : AnswerWell(a) /\ a.id <= Cardinality(answers)
    /\ \A a, b \in answers : (a.id = b.id => a = b) /\ (a.id < b.id => a.stored <= b.stored)

DatabaseInv == Clocked /\ Numbered

\* The cells of a run are finitely many.
LEMMA CellsFinite ==
  ASSUME Clocked, NEW p \in Profiles PROVE IsFiniteSet(Cells(p))
<1> DEFINE C == [q : DOMAIN questions, sf : Engines, variant : Variants, seg : p.segments]
           D == (((DOMAIN questions) \X Engines) \X Variants) \X p.segments
           F == [d \in D |-> [q |-> d[1][1][1], sf |-> d[1][1][2], variant |-> d[1][2], seg |-> d[2]]]
<1>1. IsFiniteSet(DOMAIN questions) /\ IsFiniteSet(Engines) /\ IsFiniteSet(p.segments)
  BY MeasuresAssumption DEF Clocked
<1>2. IsFiniteSet(Variants)
  <2>1. IsFiniteSet((({} \cup {"search"}) \cup {"nosearch"}) \cup {"natural"})
    BY FS_EmptySet, FS_AddElement
  <2>2. Variants = (({} \cup {"search"}) \cup {"nosearch"}) \cup {"natural"}
    BY DEF Variants
  <2> QED
    BY <2>1, <2>2
<1>3. IsFiniteSet(D)
  <2>1. IsFiniteSet((DOMAIN questions) \X Engines)
    BY <1>1, FS_Product
  <2>2. IsFiniteSet(((DOMAIN questions) \X Engines) \X Variants)
    BY <1>2, <2>1, FS_Product
  <2> QED
    BY <1>1, <2>2, FS_Product
<1>4. C \subseteq {F[d] : d \in D}
  <2> SUFFICES ASSUME NEW c \in C PROVE c \in {F[d] : d \in D}
    OBVIOUS
  <2>1. PICK q \in DOMAIN questions, e \in Engines, v \in Variants, s \in p.segments :
           c = [q |-> q, sf |-> e, variant |-> v, seg |-> s]
    OBVIOUS
  <2>2. << <<<<q, e>>, v>>, s>> \in D
    OBVIOUS
  <2>3. F[<< <<<<q, e>>, v>>, s>>] = c
    BY <2>1, <2>2
  <2> QED
    BY <2>2, <2>3
<1>5. IsFiniteSet({F[d] : d \in D})
  BY <1>3, ImageFinite
<1>6. Cells(p) \subseteq C
  BY DEF Cells
<1> QED
  BY <1>4, <1>5, <1>6, FS_Subset

\* The records of a set, listed and numbered one by one from a base.
Lists(F, n, base, S) ==
    /\ \A i \in 1..n : F[i] \in S /\ F[i].id = base + i
    /\ \A a \in S : \E i \in 1..n : a = F[i]

LEMMA NumberedOn ==
  ASSUME NEW base \in Nat, NEW n \in Nat, NEW F, NEW S, Lists(F, n, base, S)
  PROVE  /\ IsFiniteSet(S) /\ Cardinality(S) \in Nat
         /\ \A a \in S : a.id \in Nat /\ base < a.id /\ a.id <= base + Cardinality(S)
         /\ \A a, b \in S : a.id = b.id => a = b
<1>1. IsFiniteSet(1..n) /\ Cardinality(1..n) = n
  BY FS_Interval
<1> USE DEF Lists
<1>2. IsFiniteSet(S) /\ Cardinality(S) \in Nat
  <2> DEFINE T == {F[i] : i \in 1..n}
  <2>1. S = T
    OBVIOUS
  <2>2. IsFiniteSet(T)
    BY <1>1, ImageFinite
  <2> HIDE DEF T
  <2> QED
    BY <2>1, <2>2, FS_CardinalityType
<1>3. \A a \in S : \E i \in 1..n : a = F[i]
  OBVIOUS
<1>4. n <= Cardinality(S)
  <2> DEFINE G == [a \in S |-> a.id - base]
  <2>1. IsFiniteSet({G[a] : a \in S}) /\ Cardinality({G[a] : a \in S}) <= Cardinality(S)
    BY <1>2, ImageFinite
  <2>2. 1..n \subseteq {G[a] : a \in S}
    <3> SUFFICES ASSUME NEW i \in 1..n PROVE i \in {G[a] : a \in S}
      OBVIOUS
    <3>1. F[i] \in S
      OBVIOUS
    <3>2. G[F[i]] = i
      BY <3>1
    <3> QED
      BY <3>1, <3>2
  <2>3. Cardinality(1..n) <= Cardinality({G[a] : a \in S})
    BY <2>1, <2>2, FS_Subset
  <2>4. Cardinality({G[a] : a \in S}) \in Nat
    BY <2>1, FS_CardinalityType
  <2> HIDE DEF G
  <2> QED
    BY <1>1, <1>2, <2>1, <2>3, <2>4
<1>5. \A a \in S : a.id \in Nat /\ base < a.id /\ a.id <= base + Cardinality(S)
  <2> SUFFICES ASSUME NEW a \in S
               PROVE  a.id \in Nat /\ base < a.id /\ a.id <= base + Cardinality(S)
    OBVIOUS
  <2>1. PICK i \in 1..n : a = F[i]
    BY <1>3
  <2>2. a.id = base + i
    BY <2>1
  <2> QED
    BY <1>2, <1>4, <2>2
<1>6. \A a, b \in S : a.id = b.id => a = b
  <2> SUFFICES ASSUME NEW a \in S, NEW b \in S, a.id = b.id PROVE a = b
    OBVIOUS
  <2>1. PICK i \in 1..n : a = F[i]
    BY <1>3
  <2>2. PICK j \in 1..n : b = F[j]
    BY <1>3
  <2>3. base + i = base + j
    BY <2>1, <2>2
  <2> QED
    BY <2>1, <2>2, <2>3
<1> QED
  BY <1>2, <1>5, <1>6

\* Answers stored now, numbered on from those there are, keep the numbers.
LEMMA StoredKeepNumbers ==
  ASSUME Numbered, now \in Int, now' = now + 1, NEW New, IsFiniteSet(New),
         answers' = answers \cup New,
         \A a \in New : /\ a.id \in Nat /\ Cardinality(answers) < a.id
                        /\ a.id <= Cardinality(answers) + Cardinality(New)
                        /\ a.at \in Int /\ a.at <= now /\ a.stored = now /\ a.sf \in Engines
                        /\ a.text = Asked => /\ a.at = now
                                             /\ a.sf \in Browser => a.model = NoModel
                                             /\ a.sf \notin Browser => a.model # NoModel,
         \A a, b \in New : a.id = b.id => a = b
  PROVE  Numbered'
<1>1. /\ Cardinality(answers) \in Nat /\ Cardinality(New) \in Nat
      /\ IsFiniteSet(answers) /\ IsFiniteSet(answers')
  BY FS_CardinalityType, FS_Union DEF Numbered
<1>2. \A a \in answers : /\ a.id <= Cardinality(answers) /\ a.id \in Nat
                         /\ a.stored \in Int /\ a.stored < now
  BY DEF Numbered, AnswerWell
<1>3. \A a \in answers : AnswerWell(a)'
  <2> SUFFICES ASSUME NEW a \in answers PROVE AnswerWell(a)'
    OBVIOUS
  <2>1. AnswerWell(a)
    BY DEF Numbered
  <2> QED
    BY <2>1 DEF AnswerWell
<1>4. \A a \in New : AnswerWell(a)'
  <2> SUFFICES ASSUME NEW a \in New PROVE AnswerWell(a)'
    OBVIOUS
  <2> QED
    BY DEF AnswerWell
<1>5. Cardinality(answers') = Cardinality(answers) + Cardinality(New)
  <2>1. answers \cap New = {}
    BY <1>1, <1>2
  <2>2. Cardinality(answers \cup New) = Cardinality(answers) + Cardinality(New) - Cardinality({})
    BY <1>1, <2>1, FS_Union
  <2> QED
    BY <1>1, <2>2, FS_EmptySet
<1>6. \A a \in answers' : a.id <= Cardinality(answers')
  BY <1>1, <1>2, <1>5
<1>7. \A a, b \in answers' : (a.id = b.id => a = b) /\ (a.id < b.id => a.stored <= b.stored)
  <2> SUFFICES ASSUME NEW a \in answers', NEW b \in answers'
               PROVE  (a.id = b.id => a = b) /\ (a.id < b.id => a.stored <= b.stored)
    OBVIOUS
  <2>1. CASE a \in answers /\ b \in answers
    BY <2>1 DEF Numbered
  <2>2. CASE a \in New /\ b \in New
    BY <2>2
  <2>3. CASE a \in answers /\ b \in New
    BY <1>1, <1>2, <2>3
  <2>4. CASE a \in New /\ b \in answers
    BY <1>1, <1>2, <2>4
  <2> QED
    BY <2>1, <2>2, <2>3, <2>4
<1>8. \A a \in answers' : AnswerWell(a)'
  BY <1>3, <1>4, Zenon
<1> QED
  BY <1>1, <1>6, <1>7, <1>8 DEF Numbered

LEMMA ModelsNamed == "m1" # NoModel /\ "m2" # NoModel
BY Zenon DEF NoModel

LEMMA DatabaseStart == MeasuresInit => DatabaseInv
<1> SUFFICES ASSUME MeasuresInit PROVE DatabaseInv
  OBVIOUS
<1>1. IsFiniteSet({}) /\ IsFiniteSet(DOMAIN FirstConfig)
  BY MeasuresAssumption, FS_EmptySet
<1>2. Clocked
  BY <1>1, ModelsNamed DEF MeasuresInit, Clocked, NewQuestions
<1>3. Numbered
  BY <1>1 DEF MeasuresInit, Numbered
<1> QED
  BY <1>2, <1>3 DEF DatabaseInv

LEMMA RunKeepsNumbers ==
  ASSUME DatabaseInv, NEW p \in Profiles, Run(p)
  PROVE  DatabaseInv'
<1> DEFINE base == Cardinality(answers)
           cells == ListOf(Cells(p))
           F == [i \in DOMAIN cells |-> AnswerTo(cells[i], p, base + i)]
<1>1. /\ now \in Int /\ now' = now + 1 /\ Numbered
      /\ UNCHANGED <<questions, ledger, model>>
  BY DEF DatabaseInv, Clocked, Run
<1>2. Clocked'
  BY <1>1 DEF DatabaseInv, Clocked
<1>3. base \in Nat
  BY FS_CardinalityType DEF DatabaseInv, Numbered
<1>4. cells \in Seq(Cells(p))
  BY CellsFinite, ListedIn DEF DatabaseInv
<1>5. PICK n \in Nat : DOMAIN cells = 1..n
  BY <1>4
<1>6. \A i \in 1..n : cells[i].sf \in Engines
  <2>1. \A i \in 1..n : cells[i] \in Cells(p)
    BY <1>4, <1>5
  <2> QED
    BY <2>1 DEF Cells
<1>7. answers' = answers \cup {F[i] : i \in 1..n}
  BY <1>5 DEF Run
<1> HIDE DEF cells
<1>8. \A i \in 1..n : /\ F[i].id = base + i /\ F[i].at = now /\ F[i].stored = now
                       /\ F[i].sf = cells[i].sf /\ F[i].model = model[cells[i].sf]
  BY <1>5 DEF AnswerTo
<1> HIDE DEF F
<1>9. PICK New : New = {F[i] : i \in 1..n}
  OBVIOUS
<1>10. Numbered'
  <2>1. /\ IsFiniteSet(New) /\ Cardinality(New) \in Nat
        /\ \A a \in New : a.id \in Nat /\ base < a.id /\ a.id <= base + Cardinality(New)
        /\ \A a, b \in New : a.id = b.id => a = b
    <3> HIDE DEF base
    <3>1. Lists(F, n, base, New)
      BY <1>8, <1>9 DEF Lists
    <3> QED
      BY <1>3, <3>1, NumberedOn
  <2>2. \A a \in New : /\ a.at = now /\ a.stored = now /\ a.sf \in Engines
                       /\ a.sf \in Browser => a.model = NoModel
                       /\ a.sf \notin Browser => a.model # NoModel
    <3> SUFFICES ASSUME NEW a \in New
                 PROVE  /\ a.at = now /\ a.stored = now /\ a.sf \in Engines
                        /\ a.sf \in Browser => a.model = NoModel
                        /\ a.sf \notin Browser => a.model # NoModel
      OBVIOUS
    <3>1. PICK i \in 1..n : a = F[i]
      BY <1>9
    <3>2. a.sf \in Engines /\ a.model = model[a.sf] /\ a.at = now /\ a.stored = now
      BY <1>6, <1>8, <3>1
    <3> QED
      BY <3>2 DEF DatabaseInv, Clocked
  <2>3. answers' = answers \cup New
    BY <1>7, <1>9
  <2> QED
    BY <1>1, <2>1, <2>2, <2>3, StoredKeepNumbers
<1> QED
  BY <1>2, <1>10 DEF DatabaseInv

LEMMA ImportKeepsNumbers ==
  ASSUME DatabaseInv, NEW p \in Payloads, ImportCaptures(p)
  PROVE  DatabaseInv'
<1> DEFINE base == Cardinality(answers)
           fresh == {c \in p : \A a \in answers :
                        ~(a.sf = c.sf /\ a.q = c.q /\ a.text = c.text)}
           captures == ListOf(fresh)
           F == [i \in DOMAIN captures |-> VendorAnswer(captures[i], base + i)]
<1>1. /\ now \in Int /\ now' = now + 1 /\ Numbered
      /\ UNCHANGED <<questions, ledger, model>>
  BY DEF DatabaseInv, Clocked, ImportCaptures
<1>2. Clocked'
  BY <1>1 DEF DatabaseInv, Clocked
<1>3. base \in Nat
  BY FS_CardinalityType DEF DatabaseInv, Numbered
<1>4. IsFiniteSet(p) /\ \A c \in p : c.sf \in Engines /\ c.age \in Nat /\ c.text # Asked
  BY MeasuresAssumption
<1>5. captures \in Seq(fresh)
  <2>1. IsFiniteSet(fresh)
    <3>1. fresh \subseteq p
      OBVIOUS
    <3> HIDE DEF fresh
    <3> QED
      BY <1>4, <3>1, FS_Subset
  <2> HIDE DEF fresh
  <2> QED
    BY <2>1, ListedIn
<1>6. PICK n \in Nat : DOMAIN captures = 1..n
  <2> HIDE DEF captures, fresh
  <2> QED
    BY <1>5
<1>7. \A i \in 1..n : captures[i].sf \in Engines /\ captures[i].age \in Nat /\ captures[i].text # Asked
  <2>1. \A i \in 1..n : captures[i] \in fresh
    <3> HIDE DEF captures, fresh
    <3> QED
      BY <1>5, <1>6
  <2> HIDE DEF captures
  <2> QED
    BY <1>4, <2>1
<1>8. answers' = answers \cup {F[i] : i \in 1..n}
  BY <1>6 DEF ImportCaptures
<1> HIDE DEF captures
<1>9. \A i \in 1..n : /\ F[i].id = base + i /\ F[i].stored = now /\ F[i].at = now - captures[i].age
                       /\ F[i].sf = captures[i].sf /\ F[i].text = captures[i].text
  BY <1>6 DEF VendorAnswer
<1> HIDE DEF F, fresh
<1>10. PICK New : New = {F[i] : i \in 1..n}
  OBVIOUS
<1>11. Numbered'
  <2>1. /\ IsFiniteSet(New) /\ Cardinality(New) \in Nat
        /\ \A a \in New : a.id \in Nat /\ base < a.id /\ a.id <= base + Cardinality(New)
        /\ \A a, b \in New : a.id = b.id => a = b
    <3> HIDE DEF base
    <3>1. Lists(F, n, base, New)
      BY <1>9, <1>10 DEF Lists
    <3> QED
      BY <1>3, <3>1, NumberedOn
  <2>2. \A a \in New : /\ a.at \in Int /\ a.at <= now /\ a.stored = now
                       /\ a.sf \in Engines /\ a.text # Asked
    <3> SUFFICES ASSUME NEW a \in New
                 PROVE  /\ a.at \in Int /\ a.at <= now /\ a.stored = now
                        /\ a.sf \in Engines /\ a.text # Asked
      OBVIOUS
    <3>1. PICK i \in 1..n : a = F[i]
      BY <1>10
    <3>2. /\ a.sf \in Engines /\ a.text # Asked /\ captures[i].age \in Nat
          /\ a.at = now - captures[i].age /\ a.stored = now
      BY <1>7, <1>9, <3>1
    <3> QED
      BY <1>1, <3>2
  <2>3. answers' = answers \cup New
    BY <1>8, <1>10
  <2> QED
    BY <1>1, <2>1, <2>2, <2>3, StoredKeepNumbers
<1> QED
  BY <1>2, <1>11 DEF DatabaseInv

\* A step that stores no answer and does not turn back the clock.
LEMMA EditKeepsNumbers ==
  ASSUME DatabaseInv, Clocked', answers' = answers, now' >= now
  PROVE  DatabaseInv'
<1>1. \A a \in answers : AnswerWell(a) => AnswerWell(a)'
  BY DEF AnswerWell, DatabaseInv, Clocked
<1>2. Numbered'
  BY <1>1 DEF DatabaseInv, Numbered
<1> QED
  BY <1>2 DEF DatabaseInv

LEMMA DatabaseStep == DatabaseInv /\ [MeasuresNext]_measuresVars => DatabaseInv'
<1> SUFFICES ASSUME DatabaseInv, [MeasuresNext]_measuresVars PROVE DatabaseInv'
  OBVIOUS
<1>0. now \in Int
  BY DEF DatabaseInv, Clocked
<1>1. ASSUME NEW p \in Profiles, Run(p) PROVE DatabaseInv'
  BY <1>1, RunKeepsNumbers
<1>2. CASE Wait
  <2>1. Clocked' /\ answers' = answers /\ now' >= now
    BY <1>0, <1>2 DEF Wait, DatabaseInv, Clocked
  <2> QED
    BY <2>1, EditKeepsNumbers
<1>3. ASSUME NEW q \in DOMAIN questions, Pause(q) PROVE DatabaseInv'
  <2>1. DOMAIN questions' = DOMAIN questions
    BY <1>3 DEF Pause
  <2>2. UNCHANGED <<now, answers, model, ledger>>
    BY <1>3 DEF Pause, Edit
  <2>3. Clocked' /\ answers' = answers /\ now' >= now
    BY <1>0, <2>1, <2>2 DEF DatabaseInv, Clocked
  <2> QED
    BY <2>3, EditKeepsNumbers
<1>4. ASSUME NEW q \in DOMAIN questions, Resume(q) PROVE DatabaseInv'
  <2>1. DOMAIN questions' = DOMAIN questions
    BY <1>4 DEF Resume
  <2>2. UNCHANGED <<now, answers, model, ledger>>
    BY <1>4 DEF Resume, Edit
  <2>3. Clocked' /\ answers' = answers /\ now' >= now
    BY <1>0, <2>1, <2>2 DEF DatabaseInv, Clocked
  <2> QED
    BY <2>3, EditKeepsNumbers
<1>5. ASSUME NEW q \in DOMAIN questions, NEW t \in {now, now - 2}, Ship(q, t) PROVE DatabaseInv'
  <2>1. ledger' = ledger \cup {[q |-> q, at |-> t]} /\ t \in Int
    BY <1>0, <1>5 DEF Ship
  <2>2. UNCHANGED <<now, answers, model, questions>>
    BY <1>5 DEF Ship, Edit
  <2>3. IsFiniteSet(ledger') /\ \A i \in ledger' : i.at \in Int
    <3>1. IsFiniteSet(ledger) /\ \A i \in ledger : i.at \in Int
      BY DEF DatabaseInv, Clocked
    <3>2. [q |-> q, at |-> t].at \in Int
      BY <2>1
    <3> QED
      BY <2>1, <3>1, <3>2, FS_AddElement
  <2>4. Clocked' /\ answers' = answers /\ now' >= now
    BY <1>0, <2>2, <2>3 DEF DatabaseInv, Clocked
  <2> QED
    BY <2>4, EditKeepsNumbers
<1>6. ASSUME NEW c \in QuestionSets, Import(c) PROVE DatabaseInv'
  <2>1. DOMAIN questions' = DOMAIN c /\ IsFiniteSet(DOMAIN c)
    BY <1>6, MeasuresAssumption DEF Import, NewQuestions
  <2>2. UNCHANGED <<now, answers, model, ledger>>
    BY <1>6 DEF Import, Edit
  <2>3. Clocked' /\ answers' = answers /\ now' >= now
    BY <1>0, <2>1, <2>2 DEF DatabaseInv, Clocked
  <2> QED
    BY <2>3, EditKeepsNumbers
<1>7. ASSUME NEW e \in Engines, SwitchModel(e) PROVE DatabaseInv'
  <2>1. UNCHANGED <<now, answers, questions, ledger>>
    BY <1>7 DEF SwitchModel, Edit
  <2>2. e \notin Browser /\ model' = [model EXCEPT ![e] = IF @ = "m1" THEN "m2" ELSE "m1"]
    BY <1>7 DEF SwitchModel
  <2>3. Clocked' /\ answers' = answers /\ now' >= now
    BY <1>0, <2>1, <2>2, ModelsNamed DEF DatabaseInv, Clocked
  <2> QED
    BY <2>3, EditKeepsNumbers
<1>8. CASE UNCHANGED measuresVars
  <2>1. Clocked' /\ answers' = answers /\ now' >= now
    BY <1>0, <1>8 DEF measuresVars, DatabaseInv, Clocked
  <2> QED
    BY <2>1, EditKeepsNumbers
<1>9. ASSUME NEW p \in Payloads, ImportCaptures(p) PROVE DatabaseInv'
  BY <1>9, ImportKeepsNumbers
<1> QED
  BY <1>1, <1>2, <1>3, <1>4, <1>5, <1>6, <1>7, <1>8, <1>9 DEF MeasuresNext

\* Through runs, imported captures, pauses, imported questions, fixes and model switches in
\* any order: answers are finitely many, numbered in the order in which they were stored, and
\* dated no later; those of runs are dated as they are stored, and name a model exactly when
\* their surface does.
THEOREM DatabaseInvariant == MeasuresSpec => []DatabaseInv
BY DatabaseStart, DatabaseStep, PTL DEF MeasuresSpec

-----------------------------------------------------------------------------
(* A change of model leaves a break.  Of two answers of one engine that name *)
(* different models, take the first answer of another model than the earlier *)
(* one: either the answer before it in the engine's list is of a model other *)
(* than its own, or stands beside the earlier one with another model.        *)

ModelRows(days) == {a \in Ok("search") : a.at >= now - 2 * days /\ a.model # NoModel}

LEMMA ModelsMeetAtBreak ==
  ASSUME DatabaseInv, NEW days \in Int, NEW a \in ModelRows(days), NEW b \in ModelRows(days),
         a.sf = b.sf, a.at <= b.at, a.model # b.model
  PROVE  \E c \in answers : /\ [day |-> Day(c.at), sf |-> a.sf] \in ModelTimeline(days)
                             /\ a.at <= c.at /\ c.at <= b.at
<1> DEFINE rows == ModelRows(days)
           beside(x) == {y \in rows : y.sf = x.sf /\ y.at = x.at}
           before(x) == {y \in rows : y.sf = x.sf /\ y.at < x.at}
           last(S) == CHOOSE y \in S : \A z \in S : z.at <= y.at
           Breaks == {x \in rows : \/ \E y \in beside(x) : y.model # x.model
                                   \/ before(x) # {} /\ last(before(x)).model # x.model}
           Other == {x \in rows : x.sf = a.sf /\ a.at < x.at /\ x.model # a.model}
<1>1. rows \subseteq answers /\ IsFiniteSet(rows)
  <2>1. rows \subseteq answers
    BY DEF ModelRows, Ok
  <2> QED
    BY <2>1, FS_Subset DEF DatabaseInv, Numbered
<1>2. \A x \in rows : x.at \in Int
  BY <1>1 DEF DatabaseInv, Numbered, AnswerWell
<1>3. \A S \in SUBSET rows : S # {} => /\ \E x \in S : \A y \in S : x.at <= y.at
                                        /\ \E z \in S : \A w \in S : w.at <= z.at
  <2> SUFFICES ASSUME NEW S \in SUBSET rows, S # {}
               PROVE  /\ \E x \in S : \A y \in S : x.at <= y.at
                      /\ \E z \in S : \A w \in S : w.at <= z.at
    OBVIOUS
  <2> DEFINE At == [x \in S |-> x.at]
             Times == {At[x] : x \in S}
  <2>1. IsFiniteSet(S)
    BY <1>1, FS_Subset
  <2>2. IsFiniteSet(Times)
    BY <2>1, ImageFinite
  <2>3. Times # {} /\ \A n \in Times : n \in Int
    BY <1>2
  <2>4. Max(Times) \in Times /\ \A n \in Times : n <= Max(Times)
    <3> HIDE DEF Times
    <3> QED
      BY <2>2, <2>3, MaxBounds
  <2>5. Min(Times) \in Times /\ \A n \in Times : Min(Times) <= n
    <3> HIDE DEF Times
    <3> QED
      BY <2>2, <2>3, MinBounds
  <2>6. PICK x \in S : x.at = Max(Times)
    BY <2>4
  <2>7. PICK y \in S : y.at = Min(Times)
    BY <2>5
  <2>8. \A z \in S : z.at \in Times
    OBVIOUS
  <2> QED
    BY <2>4, <2>5, <2>6, <2>7, <2>8
<1>4. \A x \in Breaks : [day |-> Day(x.at), sf |-> x.sf] \in ModelTimeline(days)
  <2>1. ModelTimeline(days) = {[day |-> Day(x.at), sf |-> x.sf] : x \in Breaks}
    BY Zenon DEF ModelTimeline, ModelRows
  <2> HIDE DEF Breaks
  <2> QED
    BY <2>1
<1>5. a \in rows /\ b \in rows /\ a \in answers /\ b \in answers
  BY <1>1
<1>6. CASE a.at = b.at
  <2>1. b \in Breaks
    BY <1>5, <1>6
  <2> QED
    BY <1>2, <1>4, <1>5, <1>6, <2>1
<1>7. CASE a.at < b.at
  <2>1. PICK c \in Other : \A y \in Other : c.at <= y.at
    <3>1. b \in Other /\ Other \in SUBSET rows
      BY <1>5, <1>7
    <3> HIDE DEF Other, rows
    <3> QED
      BY <1>3, <3>1
  <2>2. c \in rows /\ c.sf = a.sf /\ a.at < c.at /\ c.model # a.model /\ c.at <= b.at
    BY <1>5, <1>7, <2>1
  <2>3. a \in before(c)
    BY <1>5, <2>2
  <2>4. PICK d : d = last(before(c))
    OBVIOUS
  <2>5. d \in before(c) /\ \A z \in before(c) : z.at <= d.at
    <3>1. before(c) \in SUBSET rows
      OBVIOUS
    <3>2. \E y \in before(c) : \A z \in before(c) : z.at <= y.at
      <4> HIDE DEF before, rows
      <4> QED
        BY <1>3, <2>3, <3>1
    <3> HIDE DEF before
    <3> QED
      BY <2>4, <3>2
  <2>6. d \in rows /\ d.sf = a.sf /\ d.at < c.at /\ a.at <= d.at
    BY <2>2, <2>3, <2>5
  <2>7. CASE d.model # c.model
    <3>1. c \in Breaks
      <4> HIDE DEF last, before, beside, rows
      <4> QED
        BY <2>2, <2>3, <2>4, <2>7
    <3>2. c \in answers
      BY <1>1, <2>2
    <3>3. [day |-> Day(c.at), sf |-> a.sf] \in ModelTimeline(days)
      <4> HIDE DEF Breaks
      <4> QED
        BY <1>4, <2>2, <3>1
    <3>4. a.at <= c.at
      BY <1>2, <1>5, <2>2
    <3> QED
      BY <2>2, <3>2, <3>3, <3>4
  <2>8. CASE d.model = c.model
    <3>1. d.at = a.at
      <4>1. d \notin Other
        BY <1>2, <2>1, <2>2, <2>6
      <4> QED
        BY <1>2, <1>5, <2>2, <2>6, <2>8, <4>1
    <3>2. d \in Breaks
      BY <1>5, <2>2, <2>6, <2>8, <3>1
    <3>3. d \in answers
      BY <1>1, <2>6
    <3> HIDE DEF Breaks
    <3> QED
      BY <1>2, <1>4, <1>5, <2>6, <3>1, <3>2, <3>3
  <2> QED
    BY <2>7, <2>8
<1> QED
  BY <1>2, <1>5, <1>6, <1>7

LEMMA DayBounds ==
  ASSUME NEW t \in Int
  PROVE  Day(t) \in Int /\ 2 * Day(t) <= t /\ t <= 2 * Day(t) + 1
BY DEF Day

\* Two answers of one engine that name different models: a day between
\* theirs splits the series of that engine.
LEMMA BreakBetween ==
  ASSUME DatabaseInv, NEW lo \in Int, NEW hi \in Int,
         NEW a \in Ok("search"), NEW b \in Ok("search"),
         a.sf = b.sf, a.at <= b.at, a.model # b.model, NoModel \notin {a.model, b.model},
         lo < Day(a.at), Day(b.at) <= hi
  PROVE  \E k \in EngineBreaks(lo, hi) : /\ k.sf = a.sf /\ k.day \in Int
                                           /\ Day(a.at) <= k.day /\ k.day <= Day(b.at)
<1> DEFINE days == Max({TimelineDays, Day(now) - lo + 1})
<1>1. a \in answers /\ b \in answers /\ a.variant = "search" /\ b.variant = "search"
  BY DEF Ok
<1>2. now \in Int /\ a.at \in Int /\ b.at \in Int
  BY <1>1 DEF DatabaseInv, Clocked, Numbered, AnswerWell
<1>3. a.model # NoModel /\ b.model # NoModel
  OBVIOUS
<1>4. Day(now) \in Int /\ 2 * Day(now) <= now /\ now <= 2 * Day(now) + 1
  BY <1>2, DayBounds
<1>5. Day(a.at) \in Int /\ 2 * Day(a.at) <= a.at
  BY <1>2, DayBounds
<1>6. days \in Int /\ Day(now) - lo + 1 <= days
  <2>1. TimelineDays \in Int /\ Day(now) - lo + 1 \in Int
    BY <1>4, MeasuresAssumption
  <2> QED
    BY <2>1, TwoBounds
<1> HIDE DEF days
<1>7. a.at >= now - 2 * days /\ b.at >= now - 2 * days
  BY <1>2, <1>4, <1>5, <1>6
<1>8. a \in ModelRows(days) /\ b \in ModelRows(days)
  BY <1>3, <1>7 DEF ModelRows
<1>9. PICK c \in answers : /\ [day |-> Day(c.at), sf |-> a.sf] \in ModelTimeline(days)
                            /\ a.at <= c.at /\ c.at <= b.at
  BY <1>6, <1>8, ModelsMeetAtBreak
<1>10. c.at \in Int
  BY DEF DatabaseInv, Numbered, AnswerWell
<1>11. Day(c.at) \in Int /\ Day(a.at) <= Day(c.at) /\ Day(c.at) <= Day(b.at)
  <2>1. /\ Day(c.at) \in Int /\ 2 * Day(c.at) <= c.at /\ c.at <= 2 * Day(c.at) + 1
        /\ Day(b.at) \in Int /\ b.at <= 2 * Day(b.at) + 1
    BY <1>2, <1>10, DayBounds
  <2> QED
    BY <1>2, <1>5, <1>9, <1>10, <2>1
<1>12. lo < Day(c.at) /\ Day(c.at) <= hi
  <2>1. Day(b.at) \in Int
    BY <1>2, DayBounds
  <2> QED
    BY <1>5, <1>11, <2>1
<1>13. [day |-> Day(c.at), sf |-> a.sf] \in EngineBreaks(lo, hi)
  <2>1. {x \in ModelTimeline(days) : lo < x.day /\ x.day <= hi} \subseteq EngineBreaks(lo, hi)
    BY Zenon DEF EngineBreaks, days
  <2> QED
    BY <1>9, <1>12, <2>1
<1> QED
  BY <1>11, <1>13

\* The alert bar names the breaks of its window.
LEMMA AlertReadsBreaks ==
  ASSUME NEW alert \in VisibilityAlerts,
         NEW k \in EngineBreaks(Day(DefaultWindow.lo), Day(DefaultWindow.hi))
  PROVE  /\ alert.row = "overall" => alert.kind = "series_break"
         /\ alert.row = k.sf => alert.coincides
<1> DEFINE breaks == EngineBreaks(Day(DefaultWindow.lo), Day(DefaultWindow.hi))
           rates == MentionRates(DefaultWindow.lo, DefaultWindow.hi)
           change == [r \in DOMAIN rates.engines \cup {"overall"} |->
                         IF r = "overall" THEN rates.overall.change ELSE rates.engines[r].change]
           moved == {r \in HolmSurvivors([s \in DOMAIN change |-> change[s].p]) :
                        change[r].verdict \in {"up", "down"}}
           turn(r) == IF change[r].verdict = "down" THEN "visibility_drop" ELSE "visibility_gain"
<1>0. VisibilityAlerts = {[row |-> r,
                           kind |-> IF r = "overall" /\ breaks # {} THEN "series_break" ELSE turn(r),
                           coincides |-> \E b \in breaks : b.sf = r] : r \in moved}
  BY Zenon DEF VisibilityAlerts
<1> HIDE DEF moved, turn, breaks
<1>1. PICK r \in moved : alert = [row |-> r,
                        kind |-> IF r = "overall" /\ breaks # {} THEN "series_break" ELSE turn(r),
                        coincides |-> \E b \in breaks : b.sf = r]
  BY <1>0, Zenon
<1>2. alert.row = r /\ alert.kind = IF r = "overall" /\ breaks # {} THEN "series_break" ELSE turn(r)
  BY <1>1
<1>3. alert.coincides = (\E b \in breaks : b.sf = r)
  BY <1>1, Zenon
<1>4. alert.row = "overall" => alert.kind = "series_break"
  BY <1>2 DEF breaks
<1>5. alert.row = k.sf => alert.coincides
  <2> HAVE alert.row = k.sf
  <2>1. \E b \in breaks : b.sf = r
    BY <1>2 DEF breaks
  <2> QED
    BY <1>3, <2>1, Zenon
<1> QED
  BY <1>4, <1>5

\* The answers of the headline are measured answers of its window.
LEMMA CountedAreMeasured ==
  ASSUME NEW lo, NEW hi, NEW a \in MentionRates(lo, hi).counted
  PROVE  a \in Ok("search") /\ lo <= a.at /\ a.at < hi
<1>1. a.variant = "search" /\ \E segment : a \in OfSegment(OnScore(lo, hi), segment)
  BY DEF MentionRates, Headline
<1>2. a \in OnScore(lo, hi)
  BY <1>1 DEF OfSegment
<1> QED
  BY <1>1, <1>2 DEF OnScore, Within, Ok

\* Whatever was run, switched, imported or paused before, however late and of whatever model
\* a capture was imported: if the alert bar reports a move and names no engine change, the
\* answers it counts of an engine after the window's first day name one model, if they name
\* one (engine_breaks finds every switch of models between such answers).
THEOREM MovesWithoutBreakAreOneModel == MeasuresSpec => []UnflaggedMovesAreOneModel
<1>1. DatabaseInv => UnflaggedMovesAreOneModel
  <2> SUFFICES ASSUME DatabaseInv, NEW alert \in VisibilityAlerts,
                      alert.kind # "series_break", ~alert.coincides,
                      NEW a \in MentionRates(DefaultWindow.lo, DefaultWindow.hi).counted,
                      NEW b \in MentionRates(DefaultWindow.lo, DefaultWindow.hi).counted,
                      Day(a.at) > Day(DefaultWindow.lo), Day(b.at) > Day(DefaultWindow.lo),
                      a.sf = b.sf, alert.row \in {"overall", a.sf},
                      NoModel \notin {a.model, b.model}, a.model # b.model
               PROVE  FALSE
    BY Zenon DEF UnflaggedMovesAreOneModel, OneModelEach
  <2>1. /\ now \in Int /\ DefaultWindow.lo \in Int /\ DefaultWindow.hi = now
    BY MeasuresAssumption DEF DatabaseInv, Clocked, DefaultWindow
  <2>2. \A k \in EngineBreaks(Day(DefaultWindow.lo), Day(DefaultWindow.hi)) : k.sf # a.sf
    BY AlertReadsBreaks
  <2>3. /\ Day(DefaultWindow.lo) \in Int /\ Day(now) \in Int
        /\ 2 * Day(now) <= now /\ now <= 2 * Day(now) + 1
    BY <2>1, DayBounds
  <2>4. /\ a \in Ok("search") /\ a.at < now /\ b \in Ok("search") /\ b.at < now
    BY <2>1, CountedAreMeasured
  <2>5. a.at \in Int /\ b.at \in Int
    BY <2>4 DEF Ok, DatabaseInv, Numbered, AnswerWell
  <2>6. Day(a.at) <= Day(now) /\ Day(b.at) <= Day(now)
    <3>1. /\ Day(a.at) \in Int /\ 2 * Day(a.at) <= a.at
          /\ Day(b.at) \in Int /\ 2 * Day(b.at) <= b.at
      BY <2>5, DayBounds
    <3> QED
      BY <2>1, <2>3, <2>4, <2>5, <3>1
  <2>7. CASE a.at <= b.at
    BY <2>1, <2>2, <2>3, <2>4, <2>6, <2>7, BreakBetween
  <2>8. CASE b.at <= a.at
    BY <2>1, <2>2, <2>3, <2>4, <2>6, <2>8, BreakBetween
  <2> QED
    BY <2>5, <2>7, <2>8
<1> QED
  BY <1>1, DatabaseInvariant, PTL

-----------------------------------------------------------------------------
(* The proof of a fix reads the answers of one regime per engine.            *)

\* The earliest day the proof reads precedes the window of every fix.
LEMMA EarliestPrecedes ==
  ASSUME DatabaseInv, NEW item \in ledger
  PROVE  /\ Earliest \in Int /\ Day(item.at) \in Int
         /\ Windows(Day(item.at)).b0 \in Int /\ Windows(Day(item.at)).a1 \in Int
         /\ Earliest < Windows(Day(item.at)).b0
<1> DEFINE dayOf == [i \in ledger |-> Day(i.at)]
           shipDays == {dayOf[i] : i \in ledger}
           shipped == Day(item.at)
           left == Min({ProofDays, Day(now) - shipped})
           length == Max({0, left})
<1>1. IsFiniteSet(ledger) /\ \A i \in ledger : i.at \in Int /\ now \in Int
  BY DEF DatabaseInv, Clocked
<1>2. \A i \in ledger : Day(i.at) \in Int
  BY <1>1, DayBounds
<1>3. Earliest = Min(shipDays) - (ProofDays + 1)
  <2>1. shipDays = {Day(i.at) : i \in ledger}
    OBVIOUS
  <2> HIDE DEF shipDays
  <2> QED
    BY <2>1 DEF Earliest
<1>4. Min(shipDays) \in Int /\ Min(shipDays) <= shipped
  <2>1. IsFiniteSet(shipDays)
    BY <1>1, ImageFinite
  <2>2. shipped \in shipDays /\ \A d \in shipDays : d \in Int
    BY <1>2
  <2> HIDE DEF shipDays, shipped
  <2> QED
    BY <2>1, <2>2, MinBounds
<1>5. ProofDays \in Int /\ ProofDays >= 0 /\ Day(now) \in Int /\ shipped \in Int
  BY <1>1, <1>2, MeasuresAssumption, DayBounds
<1>6. left \in Int /\ left <= ProofDays
  <2>1. Day(now) - shipped \in Int
    BY <1>5
  <2> HIDE DEF shipped
  <2>2. left = Min({Day(now) - shipped, ProofDays})
    <3>1. {ProofDays, Day(now) - shipped} = {Day(now) - shipped, ProofDays}
      OBVIOUS
    <3> QED
      BY <3>1, Zenon
  <2> HIDE DEF left
  <2>3. left \in {Day(now) - shipped, ProofDays} /\ left <= ProofDays
    BY <1>5, <2>1, <2>2, TwoBounds
  <2> QED
    BY <1>5, <2>1, <2>3
<1> HIDE DEF left
<1>7. length \in Int /\ length <= ProofDays
  <2>1. length \in {0, left}
    BY <1>6, TwoBounds
  <2> QED
    BY <1>5, <1>6, <2>1
<1>8. /\ Windows(shipped).b0 = shipped - length
      /\ Windows(shipped).a1 = shipped + 1 + length
  BY DEF Windows, left
<1> HIDE DEF length, shipDays
<1> QED
  BY <1>3, <1>4, <1>5, <1>7, <1>8

LEMMA BreakDays ==
  ASSUME DatabaseInv, NEW lo, NEW hi, NEW c \in EngineBreaks(lo, hi), c.sf # "overall"
  PROVE  c.day \in Int
<1> DEFINE days == Max({TimelineDays, Day(now) - lo + 1})
<1>1. \/ c \in {[day |-> x[1], sf |-> x[2]] : x \in Announced}
      \/ c \in ModelTimeline(days)
  <2>1. \/ c \in {[day |-> x[1], sf |-> x[2]] : x \in Announced}
        \/ c \in ModelTimeline(days)
        \/ \E d : c = [day |-> d, sf |-> "overall"]
    BY DEF EngineBreaks
  <2> QED
    BY <2>1
<1>2. CASE c \in {[day |-> x[1], sf |-> x[2]] : x \in Announced}
  BY <1>2, MeasuresAssumption
<1>3. CASE c \in ModelTimeline(days)
  <2> HIDE DEF days
  <2>1. \E a \in answers : c.day = Day(a.at)
    BY <1>3 DEF ModelTimeline, Ok
  <2>2. \A a \in answers : a.at \in Int
    BY DEF DatabaseInv, Numbered, AnswerWell
  <2> QED
    BY <2>1, <2>2, DayBounds
<1> QED
  BY <1>1, <1>2, <1>3

\* The regime of an engine lies in the window of the fix, and an engine change
\* inside the window lies outside the days kept.
LEMMA RegimeBounds ==
  ASSUME DatabaseInv, NEW item \in ledger, NEW e \in Engines
  PROVE  LET regime == Regimes(item)[e]
             w == Windows(Day(item.at))
         IN  /\ regime.from \in Int /\ w.b0 <= regime.from
             /\ regime.to \in Int /\ regime.to <= w.a1
             /\ \A k \in Confounding(item) :
                    k.sf = e => ~(regime.from < k.day /\ k.day < regime.to)
<1> DEFINE w == Windows(Day(item.at))
           days == {b.day : b \in {c \in Confounding(item) : c.sf = e}}
           early == {w.b0} \cup {d \in days : d <= Day(item.at)}
           late == {w.a1} \cup {d \in days : d > Day(item.at)}
<1>1. Regimes(item)[e].from = Max(early) /\ Regimes(item)[e].to = Min(late)
  <2>1. Regimes(item)[e] = [from |-> Max(early), to |-> Min(late)]
    BY DEF Regimes
  <2> HIDE DEF early, late
  <2> QED
    BY <2>1
<1>2. w.b0 \in Int /\ w.a1 \in Int /\ Day(item.at) \in Int
  BY EarliestPrecedes
<1>3. \A c \in Confounding(item) : c.day \in Int /\ w.b0 <= c.day /\ c.day < w.a1
  <2> SUFFICES ASSUME NEW c \in Confounding(item)
               PROVE  c.day \in Int /\ w.b0 <= c.day /\ c.day < w.a1
    OBVIOUS
  <2>1. w.b0 <= c.day /\ c.day < w.a1 /\ c.sf # "overall"
    BY DEF Confounding
  <2>2. c \in EngineBreaks(Earliest, Day(now))
    BY DEF Confounding
  <2>3. c.day \in Int
    BY <2>1, <2>2, BreakDays
  <2> QED
    BY <2>1, <2>3
<1>4. days \subseteq (w.b0)..(w.a1)
  BY <1>2, <1>3
<1>5. \A k \in Confounding(item) : k.sf = e => k.day \in days
  OBVIOUS
<1> HIDE DEF days, w
<1>6. IsFiniteSet(days)
  BY <1>2, <1>4, FS_Interval, FS_Subset
<1>7. early \subseteq Int /\ late \subseteq Int /\ IsFiniteSet(early) /\ IsFiniteSet(late)
  <2>1. early \subseteq days \cup {w.b0} /\ late \subseteq days \cup {w.a1}
    OBVIOUS
  <2>2. IsFiniteSet(days \cup {w.b0}) /\ IsFiniteSet(days \cup {w.a1})
    BY <1>6, FS_AddElement
  <2>3. days \subseteq Int
    BY <1>2, <1>4
  <2>4. early \subseteq Int /\ late \subseteq Int
    BY <1>2, <2>1, <2>3
  <2> HIDE DEF early, late
  <2> QED
    BY <2>1, <2>2, <2>4, FS_Subset
<1>8. w.b0 \in early /\ w.a1 \in late
  OBVIOUS
<1>9. \A d \in days : IF d <= Day(item.at) THEN d \in early ELSE d \in late
  BY <1>2, <1>4
<1> HIDE DEF early, late
<1>10. /\ Max(early) \in Int /\ \A d \in early : d <= Max(early)
       /\ Min(late) \in Int /\ \A d \in late : Min(late) <= d
  <2>1. \A d \in early : d \in Int
    BY <1>7
  <2>2. \A d \in late : d \in Int
    BY <1>7
  <2> QED
    BY <1>7, <1>8, <2>1, <2>2, MaxBounds, MinBounds
<1>11. \A k \in Confounding(item) : k.sf = e => ~(Max(early) < k.day /\ k.day < Min(late))
  <2> SUFFICES ASSUME NEW k \in Confounding(item), k.sf = e,
                      Max(early) < k.day, k.day < Min(late)
               PROVE  FALSE
    OBVIOUS
  <2>1. k.day \in Int /\ k.day \in days
    BY <1>3, <1>5
  <2> QED
    BY <1>9, <1>10, <2>1
<1> QED
  BY <1>1, <1>8, <1>10, <1>11 DEF w

LEMMA JudgedAreKept ==
  ASSUME NEW item \in ledger, NEW a \in Proof(item).before \cup Proof(item).after
  PROVE  /\ a \in Ok("search")
         /\ Regimes(item)[a.sf].from <= Day(a.at) /\ Day(a.at) < Regimes(item)[a.sf].to
<1> DEFINE w == Windows(Day(item.at))
           mine == {x \in ProofRows : x.q = item.q}
           kept == InRegime(mine, Regimes(item))
<1>1. /\ Proof(item).before = InDays(kept, w.b0, w.a0)
      /\ Proof(item).after = InDays(kept, w.a0, w.a1)
  BY Zenon DEF Proof
<1>2. a \in kept
  <2> HIDE DEF kept
  <2> QED
    BY <1>1 DEF InDays
<1> QED
  BY <1>2 DEF InRegime, ProofRows

\* However often a provider switches models around a fix, and whatever is imported of the
\* days around it: past the day an engine's regime began, the answers intervention_proof
\* counts of that engine, before and after, that name a model name the same one.
THEOREM ProofsReadOneModel == MeasuresSpec => []ProofKeepsOneModel
<1>1. DatabaseInv => ProofKeepsOneModel
  <2> SUFFICES ASSUME DatabaseInv, NEW item \in ledger,
                      NEW a \in Proof(item).before \cup Proof(item).after,
                      NEW b \in Proof(item).before \cup Proof(item).after,
                      a.sf = b.sf, NoModel \notin {a.model, b.model},
                      Day(a.at) > Regimes(item)[a.sf].from, Day(b.at) > Regimes(item)[b.sf].from
               PROVE  a.model = b.model
    BY Zenon DEF ProofKeepsOneModel, OneModelEach
  <2>0. ASSUME NEW x \in Proof(item).before \cup Proof(item).after,
               NEW y \in Proof(item).before \cup Proof(item).after,
               x.sf = y.sf, x.at <= y.at, x.model # y.model,
               NoModel \notin {x.model, y.model},
               Day(x.at) > Regimes(item)[x.sf].from
        PROVE  FALSE
    <3> DEFINE w == Windows(Day(item.at))
    <3>1. /\ x \in Ok("search") /\ y \in Ok("search")
          /\ Day(y.at) < Regimes(item)[y.sf].to
      BY JudgedAreKept
    <3>2. /\ now \in Int /\ x.at \in Int /\ y.at \in Int /\ y.at < now /\ x.sf \in Engines
      BY <3>1 DEF Ok, DatabaseInv, Clocked, Numbered, AnswerWell
    <3>3. /\ Day(now) \in Int /\ Day(x.at) \in Int /\ Day(y.at) \in Int
          /\ Day(y.at) <= Day(now)
      <4>1. /\ Day(now) \in Int /\ now <= 2 * Day(now) + 1
            /\ Day(y.at) \in Int /\ 2 * Day(y.at) <= y.at /\ Day(x.at) \in Int
        BY <3>2, DayBounds
      <4> QED
        BY <3>2, <4>1
    <3>4. /\ Earliest \in Int /\ w.b0 \in Int /\ w.a1 \in Int /\ Earliest < w.b0
          /\ Regimes(item)[x.sf].from \in Int /\ w.b0 <= Regimes(item)[x.sf].from
          /\ Regimes(item)[x.sf].to \in Int /\ Regimes(item)[x.sf].to <= w.a1
      BY <3>2, EarliestPrecedes, RegimeBounds
    <3>5. PICK k \in EngineBreaks(Earliest, Day(now)) :
              k.sf = x.sf /\ k.day \in Int /\ Day(x.at) <= k.day /\ k.day <= Day(y.at)
      <4>1. Earliest < Day(x.at)
        BY <2>0, <3>3, <3>4
      <4> QED
        BY <2>0, <3>1, <3>3, <3>4, <4>1, BreakBetween
    <3>6. Regimes(item)[x.sf].from < k.day /\ k.day < Regimes(item)[x.sf].to
      BY <2>0, <3>1, <3>3, <3>4, <3>5
    <3>7. k \in Confounding(item)
      <4>1. w.b0 <= k.day /\ k.day < w.a1
        BY <3>4, <3>5, <3>6
      <4>2. k.sf # "overall"
        BY <3>2, <3>5, MeasuresAssumption
      <4> QED
        BY <3>5, <4>1, <4>2 DEF Confounding
    <3> QED
      BY <3>2, <3>5, <3>6, <3>7, RegimeBounds
  <2>1. a.at \in Int /\ b.at \in Int
    BY JudgedAreKept DEF Ok, DatabaseInv, Numbered, AnswerWell
  <2>2. CASE a.at <= b.at
    BY <2>0, <2>2
  <2>3. CASE b.at <= a.at
    BY <2>0, <2>3
  <2> QED
    BY <2>1, <2>2, <2>3
<1> QED
  BY <1>1, DatabaseInvariant, PTL

-----------------------------------------------------------------------------
(* Days that are over.  Every report is an operator of the rows it reads and *)
(* of the questions; of days of which nothing was stored today it reads the  *)
(* same rows as the copy of the module that was read yesterday, and the      *)
(* copies' operators are the same.                                           *)

LEMMA SameCounts ==
  ASSUME NEW S
  PROVE  /\ Yesterday!Cardinality(S) = Cardinality(S)
         /\ Yesterday!Count(S) = Count(S)
         /\ Yesterday!Share(S) = Share(S)
         /\ Yesterday!Segment(S) = Segment(S)
<1>1. Yesterday!Cardinality(S) = Cardinality(S)
  BY DEF Cardinality, Yesterday!Cardinality
<1>2. Yesterday!Count(S) = Count(S)
  BY DEF Count, Yesterday!Count, Named, Yesterday!Named, Cardinality, Yesterday!Cardinality
<1>3. Yesterday!Share(S) = Share(S)
  BY DEF Share, Yesterday!Share, Prominence, Yesterday!Prominence, MapThenSumSet,
         Yesterday!MapThenSumSet, MapThenFoldSet, Yesterday!MapThenFoldSet
<1>4. Yesterday!Segment(S) = Segment(S)
  BY DEF Segment, Yesterday!Segment
<1> QED
  BY <1>1, <1>2, <1>3, <1>4

LEMMA SameChange ==
  ASSUME NEW S, NEW lo, NEW hi
  PROVE  /\ Yesterday!Count(S) = Count(S)
         /\ Yesterday!Halves(S, lo, hi) = Halves(S, lo, hi)
         /\ Yesterday!Pool(Yesterday!FamilyCells(S)) = Pool(FamilyCells(S))
         /\ Yesterday!PooledChange(S, lo, hi) = PooledChange(S, lo, hi)
         /\ Yesterday!Unforced(S) = Unforced(S)
<1>1. Yesterday!Count(S) = Count(S)
  BY DEF Count, Yesterday!Count, Named, Yesterday!Named, Cardinality, Yesterday!Cardinality
<1>2. Yesterday!Halves(S, lo, hi) = Halves(S, lo, hi)
  BY DEF Halves, Yesterday!Halves, Count, Yesterday!Count, Named, Yesterday!Named, Cardinality,
         Yesterday!Cardinality
<1>3. ASSUME NEW T PROVE Yesterday!Pool(Yesterday!FamilyCells(T)) = Pool(FamilyCells(T))
  <2>1. Yesterday!FamilyCells(T) = FamilyCells(T)
    BY DEF FamilyCells, Yesterday!FamilyCells, Count, Yesterday!Count, Named, Yesterday!Named,
           Cardinality, Yesterday!Cardinality
  <2>2. \A c : Yesterday!Pool(c) = Pool(c)
    BY DEF Pool, Yesterday!Pool, FoldSet, Yesterday!FoldSet, MapThenSumSet,
           Yesterday!MapThenSumSet, MapThenFoldSet, Yesterday!MapThenFoldSet
  <2> QED
    BY <2>1, <2>2
<1>4. Yesterday!PooledChange(S, lo, hi) = PooledChange(S, lo, hi)
  <2>1. \A c, d : Yesterday!Change(c, d) = Change(c, d)
    BY DEF Change, Yesterday!Change, Never, Yesterday!Never
  <2> QED
    BY <1>3, <2>1 DEF PooledChange, Yesterday!PooledChange
<1>5. Yesterday!Unforced(S) = Unforced(S)
  BY DEF Unforced, Yesterday!Unforced
<1> QED
  BY <1>1, <1>2, <1>3, <1>4, <1>5

LEMMA SameHeadline ==
  ASSUME NEW S, NEW lo, NEW hi
  PROVE  Yesterday!Headline(S, lo, hi) = Headline(S, lo, hi)
<1> DEFINE segment == Segment({a \in S : a.variant = "search"})
           pool == OfSegment(S, segment)
           counted == {a \in pool : a.variant = "search"}
           surfaces == {a.sf : a \in counted}
           unforced == Unforced(pool)
           missing == {e \in surfaces \cap Forced : ~\E a \in unforced : a.sf = e}
           Overall == [rate |-> Pool(FamilyCells(counted)),
                      change |-> PooledChange(counted, lo, hi),
                      equal |-> Count(counted),
                      questions |-> {a.q : a \in counted},
                      missing |-> missing,
                      unforced |-> IF unforced = {} \/ missing # {} THEN {}
                                   ELSE {Pool(FamilyCells(unforced))}]
           Engine(e) ==
             LET mine == {a \in counted : a.sf = e}
                 users == {a \in unforced : a.sf = e}
                 h == Halves(mine, lo, hi)
             IN  [count |-> Count(mine),
                  questions |-> {a.q : a \in mine},
                  change |-> Change(Rate(h.first), Rate(h.second)),
                  unforced |-> Count(users),
                  searched |-> SearchedCount(users, e)]
           segmentY == Yesterday!Segment({a \in S : a.variant = "search"})
           poolY == Yesterday!OfSegment(S, segmentY)
           countedY == {a \in poolY : a.variant = "search"}
           surfacesY == {a.sf : a \in countedY}
           unforcedY == Yesterday!Unforced(poolY)
           missingY == {e \in surfacesY \cap Forced : ~\E a \in unforcedY : a.sf = e}
           OverallY == [rate |-> Yesterday!Pool(Yesterday!FamilyCells(countedY)),
                      change |-> Yesterday!PooledChange(countedY, lo, hi),
                      equal |-> Yesterday!Count(countedY),
                      questions |-> {a.q : a \in countedY},
                      missing |-> missingY,
                      unforced |-> IF unforcedY = {} \/ missingY # {} THEN {}
                                   ELSE {Yesterday!Pool(Yesterday!FamilyCells(unforcedY))}]
           EngineY(e) ==
             LET mine == {a \in countedY : a.sf = e}
                 users == {a \in unforcedY : a.sf = e}
                 h == Yesterday!Halves(mine, lo, hi)
             IN  [count |-> Yesterday!Count(mine),
                  questions |-> {a.q : a \in mine},
                  change |-> Yesterday!Change(Yesterday!Rate(h.first), Yesterday!Rate(h.second)),
                  unforced |-> Yesterday!Count(users),
                  searched |-> Yesterday!SearchedCount(users, e)]
<1>1. Headline(S, lo, hi) =
        [segment |-> segment, counted |-> counted, overall |-> Overall,
         engines |-> [e \in surfaces |-> Engine(e)]]
  BY Zenon DEF Headline
<1>2. Yesterday!Headline(S, lo, hi) =
        [segment |-> segmentY, counted |-> countedY, overall |-> OverallY,
         engines |-> [e \in surfacesY |-> EngineY(e)]]
  BY Zenon DEF Yesterday!Headline
<1>3. segmentY = segment
  BY SameCounts
<1>4. \A T, s : Yesterday!OfSegment(T, s) = OfSegment(T, s)
  BY DEF Yesterday!OfSegment, OfSegment, Yesterday!GenericSegments, GenericSegments
<1>5. poolY = pool /\ countedY = counted /\ surfacesY = surfaces
  BY <1>3, <1>4
<1>6. unforcedY = unforced
  BY <1>5, SameChange
<1>7. missingY = missing
  BY <1>5, <1>6
<1> HIDE DEF segment, pool, surfaces, unforced, missing, counted, segmentY, poolY, surfacesY,
             unforcedY, missingY, countedY
<1>8. OverallY = Overall
  BY <1>5, <1>6, <1>7, SameChange
<1>9. ASSUME NEW e PROVE EngineY(e) = Engine(e)
  <2> DEFINE mine == {a \in counted : a.sf = e}
             users == {a \in unforced : a.sf = e}
  <2>1. mine = {a \in countedY : a.sf = e} /\ users = {a \in unforcedY : a.sf = e}
    BY <1>5, <1>6
  <2>2. Yesterday!SearchedCount(users, e) = SearchedCount(users, e)
    BY DEF Yesterday!SearchedCount, SearchedCount, Yesterday!Never, Never,
           Cardinality, Yesterday!Cardinality
  <2>3. \A c, d : Yesterday!Change(Yesterday!Rate(c), Yesterday!Rate(d)) = Change(Rate(c), Rate(d))
    BY DEF Yesterday!Change, Change, Yesterday!Rate, Rate, Yesterday!Never, Never
  <2>4. EngineY(e) =
          [count |-> Yesterday!Count(mine), questions |-> {a.q : a \in mine},
           change |-> Yesterday!Change(Yesterday!Rate(Yesterday!Halves(mine, lo, hi).first),
                                       Yesterday!Rate(Yesterday!Halves(mine, lo, hi).second)),
           unforced |-> Yesterday!Count(users), searched |-> Yesterday!SearchedCount(users, e)]
    BY <2>1, Zenon
  <2>5. Engine(e) =
          [count |-> Count(mine), questions |-> {a.q : a \in mine},
           change |-> Change(Rate(Halves(mine, lo, hi).first), Rate(Halves(mine, lo, hi).second)),
           unforced |-> Count(users), searched |-> SearchedCount(users, e)]
    BY Zenon
  <2> HIDE DEF mine, users
  <2>6. /\ Yesterday!Count(mine) = Count(mine) /\ Yesterday!Count(users) = Count(users)
        /\ Yesterday!Halves(mine, lo, hi) = Halves(mine, lo, hi)
    BY SameChange
  <2> HIDE DEF Engine, EngineY
  <2> QED
    BY <2>2, <2>3, <2>4, <2>5, <2>6
<1> HIDE DEF Overall, OverallY, Engine, EngineY
<1> QED
  BY <1>1, <1>2, <1>3, <1>5, <1>8, <1>9

LEMMA SameKpis ==
  ASSUME NEW S, NEW T PROVE Yesterday!Kpis(S, T) = Kpis(S, T)
BY DEF Kpis, Yesterday!Kpis, Named, Yesterday!Named, Share, Yesterday!Share,
       NamingRivals, Yesterday!NamingRivals, Stability, Yesterday!Stability, Count, Yesterday!Count,
       Prominence, Yesterday!Prominence, MapThenSumSet,
       Yesterday!MapThenSumSet, MapThenFoldSet, Yesterday!MapThenFoldSet, Cardinality, Yesterday!Cardinality

LEMMA SameTopicRows ==
  ASSUME NEW F, NEW S, NEW T, NEW w PROVE Yesterday!TopicRows(F, S, T, w) = TopicRows(F, S, T, w)
BY DEF TopicRows, Yesterday!TopicRows, Named, Yesterday!Named, Share, Yesterday!Share, Halves, Yesterday!Halves,
       NamingRivals, Yesterday!NamingRivals, Count, Yesterday!Count, Change, Yesterday!Change, Rate, Yesterday!Rate,
       Prominence, Yesterday!Prominence, MapThenSumSet, Never, Yesterday!Never,
       Yesterday!MapThenSumSet, MapThenFoldSet, Yesterday!MapThenFoldSet, Cardinality, Yesterday!Cardinality

LEMMA SameEngineRows ==
  ASSUME NEW S, NEW T
  PROVE  /\ Yesterday!EngineRows(S, T) = EngineRows(S, T)
         /\ Yesterday!Routing(S, T) = Routing(S, T)
<1>1. Yesterday!EngineRows(S, T) = EngineRows(S, T)
  BY DEF EngineRows, Yesterday!EngineRows, Named, Yesterday!Named, NamingRivals, Yesterday!NamingRivals,
         Cardinality, Yesterday!Cardinality
<1>2. Yesterday!Routing(S, T) = Routing(S, T)
  BY DEF Routing, Yesterday!Routing, Signal, Yesterday!Signal, Cardinality, Yesterday!Cardinality
<1> QED
  BY <1>1, <1>2

LEMMA SameModes ==
  ASSUME NEW S, NEW T, NEW U PROVE Yesterday!Modes(S, T, U) = Modes(S, T, U)
BY DEF Modes, Yesterday!Modes, Signal, Yesterday!Signal, Searched, Yesterday!Searched,
       Count, Yesterday!Count, Named, Yesterday!Named, Cardinality, Yesterday!Cardinality

LEMMA SameMatrix ==
  ASSUME NEW L, NEW S, NEW T PROVE Yesterday!MatrixRows(L, S, T) = MatrixRows(L, S, T)
BY DEF MatrixRows, Yesterday!MatrixRows, Named, Yesterday!Named

LEMMA SameLists ==
  ASSUME NEW S
  PROVE  /\ Yesterday!Sources(S) = Sources(S)
         /\ Yesterday!Presence(S) = Presence(S)
         /\ \A qs : Yesterday!QuestionRows(qs, S) = QuestionRows(qs, S)
<1>1. Yesterday!Sources(S) = Sources(S)
  BY DEF Sources, Yesterday!Sources, Cardinality, Yesterday!Cardinality
<1>2. Yesterday!Presence(S) = Presence(S)
  BY DEF Presence, Yesterday!Presence, NamedBy, Yesterday!NamedBy, Count, Yesterday!Count,
         Named, Yesterday!Named, Cardinality, Yesterday!Cardinality
<1>3. \A qs : Yesterday!QuestionRows(qs, S) = QuestionRows(qs, S)
  BY DEF QuestionRows, Yesterday!QuestionRows, NamedBy, Yesterday!NamedBy, Named, Yesterday!Named
<1> QED
  BY <1>1, <1>2, <1>3

\* A read of days of which nothing was stored today finds what it found yesterday.
LEMMA SameRows ==
  ASSUME NEW lo \in Int, NEW hi \in Int, Undisturbed(lo, hi)
  PROVE  /\ \A v : Yesterday!Within(Yesterday!Ok(v), lo, hi) = Within(Ok(v), lo, hi)
         /\ Yesterday!OnScore(lo, hi) = OnScore(lo, hi)
<1> DEFINE midnight == DayStart(Day(now))
           old == {a \in answers : a.stored < midnight}
<1>1. ASSUME NEW a \in answers, lo <= a.at, a.at < hi PROVE a \in old
  BY <1>1 DEF Undisturbed, Within
<1>2. ASSUME NEW v PROVE Yesterday!Within(Yesterday!Ok(v), lo, hi) = Within(Ok(v), lo, hi)
  <2>1. Yesterday!Ok(v) = {a \in old : a.variant = v}
    BY DEF Yesterday!Ok
  <2>2. \A S : Yesterday!Within(S, lo, hi) = {a \in S : lo <= a.at /\ a.at < hi}
    BY DEF Yesterday!Within
  <2> HIDE DEF midnight
  <2> QED
    BY <1>1, <2>1, <2>2 DEF Within, Ok
<1>3. Yesterday!OnScore(lo, hi) = OnScore(lo, hi)
  <2>1. Yesterday!OnScore(lo, hi) = {a \in Yesterday!Within(old, lo, hi) : a.q \notin OffScore}
    BY DEF Yesterday!OnScore, Yesterday!OffScore, OffScore
  <2>2. Yesterday!Within(old, lo, hi) = {a \in old : lo <= a.at /\ a.at < hi}
    BY DEF Yesterday!Within
  <2> HIDE DEF midnight
  <2> QED
    BY <1>1, <2>1, <2>2 DEF OnScore, Within
<1> QED
  BY <1>2, <1>3

LEMMA SameLatest ==
  ASSUME NEW lo \in Int, NEW hi \in Int, Undisturbed(lo, hi), NEW v, NEW scope, NEW segment
  PROVE  Yesterday!Latest(v, lo, hi, scope, segment) = Latest(v, lo, hi, scope, segment)
<1> DEFINE rows == {a \in OfSegment(Within(Ok(v), lo, hi), segment) : InScope(a.q, scope)}
           Newer(S) == {a \in S : \A b \in S : b.q = a.q /\ b.sf = a.sf => b.id <= a.id}
<1>1. Latest(v, lo, hi, scope, segment) = Newer(rows)
  BY DEF Latest
<1>2. \A S : Yesterday!OfSegment(S, segment) = OfSegment(S, segment)
  BY DEF Yesterday!OfSegment, OfSegment, Yesterday!GenericSegments, GenericSegments
<1>3. \A q : Yesterday!InScope(q, scope) = InScope(q, scope)
  BY DEF Yesterday!InScope, InScope, Yesterday!OffScore, OffScore, Yesterday!BrandedTexts, BrandedTexts
<1>4. Yesterday!Latest(v, lo, hi, scope, segment) =
        Newer({a \in Yesterday!OfSegment(Yesterday!Within(Yesterday!Ok(v), lo, hi), segment) :
                  Yesterday!InScope(a.q, scope)})
  BY DEF Yesterday!Latest
<1>5. {a \in Yesterday!OfSegment(Yesterday!Within(Yesterday!Ok(v), lo, hi), segment) :
          Yesterday!InScope(a.q, scope)} = rows
  BY <1>2, <1>3, SameRows
<1> HIDE DEF Newer, rows
<1> QED
  BY <1>1, <1>4, <1>5

\* Every report over a range of which nothing was stored today says what it said yesterday.
LEMMA SameReports ==
  ASSUME NEW lo \in Int, NEW hi \in Int, Undisturbed(lo, hi)
  PROVE  AllReports([lo |-> lo, hi |-> hi]) = Yesterday!AllReports([lo |-> lo, hi |-> hi])
<1> DEFINE r == [lo |-> lo, hi |-> hi]
<1>1. \A v, scope, segment :
         Yesterday!Latest(v, lo, hi, scope, segment) = Latest(v, lo, hi, scope, segment)
  BY SameLatest
<1>2. \A v : Yesterday!Newest(v, lo, hi) = Newest(v, lo, hi)
  BY <1>1 DEF Newest, Yesterday!Newest
<1>3. \A S, segment : Yesterday!OfSegment(S, segment) = OfSegment(S, segment)
  BY DEF Yesterday!OfSegment, OfSegment, Yesterday!GenericSegments, GenericSegments
<1>4. Yesterday!OffScore = OffScore
  BY DEF Yesterday!OffScore, OffScore
<1>5. \A v : Yesterday!Within(Yesterday!Ok(v), lo, hi) = Within(Ok(v), lo, hi)
  BY SameRows
<1>6. Yesterday!MentionRates(lo, hi) = MentionRates(lo, hi)
  BY SameRows, SameHeadline DEF MentionRates, Yesterday!MentionRates
<1>7. \A rates : Yesterday!KpiScorecard(rates, lo, hi) = KpiScorecard(rates, lo, hi)
  BY <1>1, <1>3, <1>4, <1>5, SameKpis DEF KpiScorecard, Yesterday!KpiScorecard
<1>8. Yesterday!TopicScorecard(r, lo, hi) = TopicScorecard(r, lo, hi)
  <2>1. Yesterday!TopicOf = TopicOf
    BY DEF Yesterday!TopicOf, TopicOf
  <2>2. r.lo = lo /\ r.hi = hi
    OBVIOUS
  <2> HIDE DEF r
  <2> DEFINE base == Within(Ok("search"), lo, hi)
             old == Yesterday!Within(Yesterday!Ok("search"), lo, hi)
             known(S) == {a \in S : a.q \in DOMAIN questions}
  <2>3. TopicScorecard(r, lo, hi) =
          [segment |-> Segment(base),
           rows |-> TopicRows(TopicOf, known(OfSegment(base, Segment(base))),
                              known(Latest("search", lo, hi, "all", Segment(base))), r)]
    BY <2>2, Zenon DEF TopicScorecard
  <2>4. Yesterday!TopicScorecard(r, lo, hi) =
          [segment |-> Yesterday!Segment(old),
           rows |-> Yesterday!TopicRows(Yesterday!TopicOf,
                       known(Yesterday!OfSegment(old, Yesterday!Segment(old))),
                       known(Yesterday!Latest("search", lo, hi, "all", Yesterday!Segment(old))), r)]
    BY <2>2, Zenon DEF Yesterday!TopicScorecard
  <2>5. old = base
    BY <1>5
  <2> HIDE DEF known, old, base
  <2>6. Yesterday!Segment(old) = Segment(base)
    BY <2>5, SameCounts
  <2> QED
    BY <1>1, <1>3, <2>1, <2>3, <2>4, <2>5, <2>6, SameTopicRows
<1>9. Yesterday!EngineTable(lo, hi) = EngineTable(lo, hi)
  BY <1>2, SameEngineRows DEF EngineTable, Yesterday!EngineTable
<1>10. Yesterday!Matrix(lo, hi) = Matrix(lo, hi)
  <2>1. \A S : Yesterday!Listed(S) = Listed(S)
    BY DEF Yesterday!Listed, Listed
  <2> QED
    BY <1>2, <2>1, SameMatrix DEF Matrix, Yesterday!Matrix
<1>11. Yesterday!RoutingReport(lo, hi) = RoutingReport(lo, hi)
  BY <1>2, SameEngineRows DEF RoutingReport, Yesterday!RoutingReport
<1>12. Yesterday!EngineModes(lo, hi) = EngineModes(lo, hi)
  BY <1>2, SameModes DEF EngineModes, Yesterday!EngineModes
<1>13. Yesterday!CitationsIntel(lo, hi) = CitationsIntel(lo, hi)
  BY <1>2, SameLists DEF CitationsIntel, Yesterday!CitationsIntel
<1>14. Yesterday!BrandReport(lo, hi) = BrandReport(lo, hi)
  BY <1>1, SameLists DEF BrandReport, Yesterday!BrandReport
<1>15. Yesterday!QueriesIntel(lo, hi) = QueriesIntel(lo, hi)
  BY <1>1, SameLists DEF QueriesIntel, Yesterday!QueriesIntel
<1>16. Yesterday!ShareOfVoice(lo, hi) = ShareOfVoice(lo, hi)
  <2> DEFINE pool == {a \in Within(Ok("search"), lo, hi) : a.q \notin OffScore}
             old == {a \in Yesterday!Within(Yesterday!Ok("search"), lo, hi) :
                        a.q \notin Yesterday!OffScore}
  <2>1. old = pool
    BY <1>4, <1>5
  <2>2. ShareOfVoice(lo, hi) =
          [brand |-> Cardinality(Named(pool)), rival |-> Cardinality(NamingRivals(pool))]
    BY DEF ShareOfVoice
  <2>3. Yesterday!ShareOfVoice(lo, hi) =
          [brand |-> Yesterday!Cardinality(Yesterday!Named(old)),
           rival |-> Yesterday!Cardinality(Yesterday!NamingRivals(old))]
    BY DEF Yesterday!ShareOfVoice
  <2>4. \A S : Yesterday!Named(S) = Named(S) /\ Yesterday!NamingRivals(S) = NamingRivals(S)
    BY DEF Yesterday!Named, Named, Yesterday!NamingRivals, NamingRivals
  <2> HIDE DEF pool, old
  <2> QED
    BY <2>1, <2>2, <2>3, <2>4, SameCounts
<1>17. r.lo = lo /\ r.hi = hi
  OBVIOUS
<1> HIDE DEF r
<1>18. AllReports(r) = Yesterday!AllReports(r)
  BY <1>6, <1>7, <1>8, <1>9, <1>10, <1>11, <1>12, <1>13, <1>14, <1>15, <1>16, <1>17
     DEF AllReports, Yesterday!AllReports
<1> QED
  BY <1>18 DEF r

\* What a run stores today it dates today: over days that have passed only an imported
\* capture can be new.
LEMMA OnlyImportsDisturb ==
  ASSUME DatabaseInv, NEW lo \in Int, NEW hi \in Int, hi <= DayStart(Day(now)),
         \A a \in Within(answers, lo, hi) : a.text # Asked => a.stored < DayStart(Day(now))
  PROVE  Undisturbed(lo, hi)
<1> SUFFICES ASSUME NEW a \in Within(answers, lo, hi), a.text = Asked
             PROVE  a.stored < DayStart(Day(now))
  BY DEF Undisturbed
<1>1. AnswerWell(a) /\ a.at < hi /\ now \in Int
  BY DEF Within, DatabaseInv, Numbered, Clocked
<1>2. DayStart(Day(now)) \in Int
  BY <1>1 DEF DayStart, Day
<1> QED
  BY <1>1, <1>2 DEF AnswerWell

LEMMA PastIsSettled ==
  ASSUME DatabaseInv
  PROVE  /\ PastRangesSettled
         /\ \A lo, hi \in Int :
               /\ hi <= DayStart(Day(now))
               /\ \A a \in Within(answers, lo, hi) : a.text # Asked => a.stored < DayStart(Day(now))
               => SettledOver(lo, hi)
<1>1. ASSUME NEW lo \in Int, NEW hi \in Int, Undisturbed(lo, hi) PROVE SettledOver(lo, hi)
  BY <1>1, SameReports DEF SettledOver
<1>2. ASSUME NEW lo \in Int, NEW hi \in Int, hi <= DayStart(Day(now)),
             \A a \in Within(answers, lo, hi) : a.text # Asked => a.stored < DayStart(Day(now))
      PROVE  SettledOver(lo, hi)
  BY <1>1, <1>2, OnlyImportsDisturb
<1>3. PastRangesSettled
  <2>1. now \in Int
    BY DEF DatabaseInv, Clocked
  <2>2. DayStart(Day(now)) \in Int /\ \A d \in 0..Day(now) - 1 : DayStart(d) \in Int
    BY <2>1 DEF DayStart, Day
  <2> QED
    BY <1>1, <2>2 DEF PastRangesSettled
<1> QED
  BY <1>2, <1>3

\* Whatever is run, shipped, imported or switched: a report over days that are over, and not
\* only over all of them, has changed since the last of them ended only if the questions did
\* or a capture of one of its days was imported today (every read of a date range keeps its
\* upper bound, and a run dates its answers as it stores them).
THEOREM PastDaysSettled ==
    MeasuresSpec =>
        [](/\ PastRangesSettled
           /\ \A lo, hi \in Int :
                 /\ hi <= DayStart(Day(now))
                 /\ \A a \in Within(answers, lo, hi) : a.text # Asked => a.stored < DayStart(Day(now))
                 => SettledOver(lo, hi))
<1>1. DatabaseInv => /\ PastRangesSettled
                     /\ \A lo, hi \in Int :
                           /\ hi <= DayStart(Day(now))
                           /\ \A a \in Within(answers, lo, hi) :
                                  a.text # Asked => a.stored < DayStart(Day(now))
                           => SettledOver(lo, hi)
  BY PastIsSettled
<1> QED
  BY <1>1, DatabaseInvariant, PTL

-----------------------------------------------------------------------------
\* Rows with one answer per question and surface.
OnePerCell(S) == \A a, b \in S : a.q = b.q /\ a.sf = b.sf => a = b

LEMMA LatestIs ==
  ASSUME DatabaseInv, NEW v, NEW lo, NEW hi, NEW scope, NEW segment
  PROVE  LET S == Latest(v, lo, hi, scope, segment)
         IN  /\ IsFiniteSet(S) /\ OnePerCell(S)
             /\ \A a \in S : a \in answers /\ a.variant = v /\ InScope(a.q, scope)
<1> DEFINE rows == {a \in OfSegment(Within(Ok(v), lo, hi), segment) : InScope(a.q, scope)}
           S == Latest(v, lo, hi, scope, segment)
<1>1. \A a \in rows : a \in answers /\ a.variant = v /\ InScope(a.q, scope)
  BY DEF OfSegment, Within, Ok
<1>2. S = {a \in rows : \A b \in rows : b.q = a.q /\ b.sf = a.sf => b.id <= a.id}
  BY DEF Latest
<1> HIDE DEF rows, S
<1>3. S \subseteq answers
  BY <1>1, <1>2
<1>4. IsFiniteSet(S)
  BY <1>3, FS_Subset DEF DatabaseInv, Numbered
<1>5. OnePerCell(S)
  <2> SUFFICES ASSUME NEW a \in S, NEW b \in S, a.q = b.q, a.sf = b.sf PROVE a = b
    BY DEF OnePerCell
  <2>1. a.id <= b.id /\ b.id <= a.id
    BY <1>2
  <2>2. a \in answers /\ b \in answers /\ a.id \in Nat /\ b.id \in Nat
    BY <1>3 DEF DatabaseInv, Numbered, AnswerWell
  <2>3. a.id = b.id
    BY <2>1, <2>2
  <2> QED
    BY <2>2, <2>3 DEF DatabaseInv, Numbered
<1> QED
  BY <1>1, <1>2, <1>4, <1>5 DEF S

LEMMA ScoreScope ==
  ASSUME NEW q PROVE InScope(q, "competitive") <=> q \notin OffScore
BY DEF InScope

LEMMA NewestIs ==
  ASSUME DatabaseInv, NEW v, NEW lo, NEW hi
  PROVE  /\ IsFiniteSet(Newest(v, lo, hi)) /\ OnePerCell(Newest(v, lo, hi))
         /\ \A a \in Newest(v, lo, hi) : a \in answers /\ a.variant = v /\ a.q \notin OffScore
<1>1. Newest(v, lo, hi) = Latest(v, lo, hi, "competitive", "all")
  BY DEF Newest
<1> QED
  BY <1>1, LatestIs, ScoreScope

-----------------------------------------------------------------------------
(* The matrix, cell by cell.                                                 *)

LEMMA MatrixCells ==
  ASSUME NEW L, NEW S, NEW T, OnePerCell(S), NEW q \in L
  PROVE  /\ DOMAIN MatrixRows(L, S, T) = L
         /\ DOMAIN MatrixRows(L, S, T)[q].cells = {a.sf : a \in {b \in S : b.q = q}}
         /\ \A a \in S : a.q = q =>
               (MatrixRows(L, S, T)[q].cells[a.sf] = "brand" <=> a.brand > 0)
<1> DEFINE mine == {a \in S : a.q = q}
           Cell(a) == IF a.brand > 0 THEN "brand" ELSE IF a.rival > 0 THEN "competitor" ELSE "absent"
           cells == [e \in {a.sf : a \in mine} |-> Cell(CHOOSE b \in mine : b.sf = e)]
<1>1. DOMAIN MatrixRows(L, S, T) = L
  BY DEF MatrixRows
<1>2. MatrixRows(L, S, T)[q].cells = cells
  BY DEF MatrixRows
<1>3. ASSUME NEW a \in S, a.q = q PROVE cells[a.sf] = Cell(a)
  <2>1. a \in mine
    BY <1>3
  <2>2. (CHOOSE b \in mine : b.sf = a.sf) \in mine /\ (CHOOSE b \in mine : b.sf = a.sf).sf = a.sf
    <3> HIDE DEF mine
    <3> QED
      BY <2>1
  <2>3. (CHOOSE b \in mine : b.sf = a.sf) = a
    BY <1>3, <2>2 DEF OnePerCell
  <2>4. a.sf \in {b.sf : b \in mine}
    BY <2>1
  <2>5. cells[a.sf] = Cell(CHOOSE b \in mine : b.sf = a.sf)
    <3> HIDE DEF mine, Cell
    <3> QED
      BY <2>4
  <2> HIDE DEF Cell, cells, mine
  <2> QED
    BY <2>3, <2>5
<1>4. \A a : Cell(a) = "brand" <=> a.brand > 0
  OBVIOUS
<1>5. DOMAIN cells = {a.sf : a \in mine}
  OBVIOUS
<1> HIDE DEF cells, Cell
<1> QED
  BY <1>1, <1>2, <1>3, <1>4, <1>5 DEF mine

\* The engine table and the matrix count the same answers that name the brand.
LEMMA TableCountsCells ==
  ASSUME NEW L, NEW S, NEW T, OnePerCell(S), IsFiniteSet(S), \A a \in S : a.q \in L,
         NEW e \in DOMAIN EngineRows(S, T)
  PROVE  EngineRows(S, T)[e].brand =
            Cardinality({q \in DOMAIN MatrixRows(L, S, T) :
                            /\ e \in DOMAIN MatrixRows(L, S, T)[q].cells
                            /\ MatrixRows(L, S, T)[q].cells[e] = "brand"})
<1> DEFINE named == {a \in S : a.sf = e /\ a.brand > 0}
           shown == {q \in DOMAIN MatrixRows(L, S, T) :
                            /\ e \in DOMAIN MatrixRows(L, S, T)[q].cells
                            /\ MatrixRows(L, S, T)[q].cells[e] = "brand"}
           f == [a \in named |-> a.q]
<1>1. EngineRows(S, T)[e].brand = Cardinality(named)
  <2>1. Named({a \in S : a.sf = e}) = named
    BY DEF Named
  <2>2. EngineRows(S, T)[e].brand = Cardinality(Named({a \in S : a.sf = e}))
    BY DEF EngineRows
  <2> QED
    BY <2>1, <2>2
<1>2. \A q : q \in shown <=> \E a \in named : a.q = q
  <2>1. ASSUME NEW q \in shown PROVE \E a \in named : a.q = q
    <3>1. q \in L
      BY DEF MatrixRows
    <3>2. PICK a \in S : a.q = q /\ a.sf = e
      BY <3>1, MatrixCells
    <3>3. a.brand > 0
      BY <3>1, <3>2, MatrixCells
    <3> QED
      BY <3>2, <3>3
  <2>2. ASSUME NEW a \in named PROVE a.q \in shown
    <3>1. a.q \in L /\ a \in S /\ a.sf = e /\ a.brand > 0
      OBVIOUS
    <3> QED
      BY <3>1, MatrixCells
  <2> QED
    BY <2>1, <2>2
<1>3. f \in Bijection(named, shown)
  <2>1. \A a, b \in named : a.q = b.q => a = b
    BY DEF OnePerCell
  <2>2. \A a \in named : a.q \in shown
    BY <1>2
  <2>3. f \in [named -> shown]
    <3> HIDE DEF named, shown
    <3> QED
      BY <2>2
  <2>4. \A a \in named : f[a] = a.q
    <3> HIDE DEF named
    <3> QED
      OBVIOUS
  <2> HIDE DEF f, named, shown
  <2>5. f \in Injection(named, shown)
    BY <2>1, <2>3, <2>4 DEF Injection, IsInjective
  <2>6. f \in Surjection(named, shown)
    BY <1>2, <2>3, <2>4 DEF Surjection
  <2> QED
    BY <2>5, <2>6 DEF Bijection
<1>4. IsFiniteSet(named)
  BY FS_Subset
<1> HIDE DEF f, named, shown
<1>5. Cardinality(shown) = Cardinality(named)
  BY <1>3, <1>4, FS_Bijection DEF ExistsBijection
<1> QED
  BY <1>1, <1>5 DEF shown

-----------------------------------------------------------------------------
(* Totals of a screen's rows.                                                *)

LEMMA TotalOfFibers ==
  ASSUME NEW D, IsFiniteSet(D), NEW I, IsFiniteSet(I), NEW F, \A i \in I : F[i] \in D,
         NEW g, DOMAIN g = D, \A c \in D : g[c] = Cardinality({i \in I : F[i] = c})
  PROVE  Total(g) = Cardinality(I)
<1>1. Total(g) = SumOver(g, D)
  BY Zenon DEF Total, SumOver
<1>2. SumOver(g, D) = Cardinality({i \in I : F[i] \in D})
  BY SumOfFibers
<1>3. {i \in I : F[i] \in D} = I
  OBVIOUS
<1> QED
  BY <1>1, <1>2, <1>3

\* The KPIs count what the rows of the engine table add up to; so do the sources.
LEMMA TableTotals ==
  ASSUME NEW S, IsFiniteSet(S), NEW T, IsFiniteSet(T)
  PROVE  LET table == EngineRows(S, T)
         IN  /\ Cardinality(S) = Total([e \in DOMAIN table |-> table[e].measured])
             /\ Cardinality(Named(S)) = Total([e \in DOMAIN table |-> table[e].brand])
             /\ Cardinality({a \in S : a.owned}) = Total([e \in DOMAIN table |-> table[e].cited])
<1> DEFINE table == EngineRows(S, T)
           U == S \cup T
           F == [a \in U |-> a.sf]
           D == {a.sf : a \in U}
<1>1. DOMAIN table = D
  BY DEF EngineRows
<1>2. \A e \in D : /\ table[e].measured = Cardinality({a \in S : a.sf = e})
                   /\ table[e].brand = Cardinality(Named({a \in S : a.sf = e}))
                   /\ table[e].cited = Cardinality({a \in {b \in S : b.sf = e} : a.owned})
  BY DEF EngineRows
<1>3. IsFiniteSet(D)
  <2>1. IsFiniteSet(U)
    BY FS_Union
  <2>2. D = {F[a] : a \in U}
    OBVIOUS
  <2> HIDE DEF D, F, U
  <2> QED
    BY <2>1, <2>2, ImageFinite
<1>4. \A a \in S : F[a] = a.sf /\ a.sf \in D
  OBVIOUS
<1> HIDE DEF table, F, D, U
<1>5. ASSUME NEW I, I \subseteq S, NEW g, DOMAIN g = D,
             \A e \in D : g[e] = Cardinality({a \in I : a.sf = e})
      PROVE  Total(g) = Cardinality(I)
  <2>1. IsFiniteSet(I)
    BY <1>5, FS_Subset
  <2>2. \A i \in I : F[i] \in D
    BY <1>4, <1>5
  <2>3. \A e \in D : {a \in I : a.sf = e} = {a \in I : F[a] = e}
    BY <1>4, <1>5
  <2>4. \A e \in D : g[e] = Cardinality({a \in I : F[a] = e})
    BY <1>5, <2>3
  <2> QED
    BY <1>3, <1>5, <2>1, <2>2, <2>4, TotalOfFibers
<1>6. Total([e \in DOMAIN table |-> table[e].measured]) = Cardinality(S)
  <2> DEFINE g == [e \in DOMAIN table |-> table[e].measured]
  <2>1. DOMAIN g = D /\ \A e \in D : g[e] = Cardinality({a \in S : a.sf = e})
    BY <1>1, <1>2
  <2> HIDE DEF g
  <2>2. Total(g) = Cardinality(S)
    BY <1>5, <2>1
  <2> QED
    BY <2>2 DEF g
<1>7. Total([e \in DOMAIN table |-> table[e].brand]) = Cardinality(Named(S))
  <2> DEFINE g == [e \in DOMAIN table |-> table[e].brand]
  <2>1. \A e : Named({a \in S : a.sf = e}) = {a \in Named(S) : a.sf = e}
    BY DEF Named
  <2>2. DOMAIN g = D /\ \A e \in D : g[e] = Cardinality({a \in Named(S) : a.sf = e})
    BY <1>1, <1>2, <2>1
  <2>3. Named(S) \subseteq S
    BY DEF Named
  <2> HIDE DEF g
  <2>4. Total(g) = Cardinality(Named(S))
    BY <1>5, <2>2, <2>3
  <2> QED
    BY <2>4 DEF g
<1>8. Total([e \in DOMAIN table |-> table[e].cited]) = Cardinality({a \in S : a.owned})
  <2> DEFINE g == [e \in DOMAIN table |-> table[e].cited]
             own == {a \in S : a.owned}
  <2>1. \A e : {a \in {b \in S : b.sf = e} : a.owned} = {a \in own : a.sf = e}
    OBVIOUS
  <2>2. DOMAIN g = D /\ \A e \in D : g[e] = Cardinality({a \in own : a.sf = e})
    BY <1>1, <1>2, <2>1
  <2>3. own \subseteq S
    OBVIOUS
  <2> HIDE DEF g, own
  <2>4. Total(g) = Cardinality(own)
    BY <1>5, <2>2, <2>3
  <2> QED
    BY <2>4 DEF g, own
<1> QED
  BY <1>6, <1>7, <1>8 DEF table

\* The two routing reports count the same answers of an engine that can be heard searching.
LEMMA RoutingAgrees ==
  ASSUME NEW S, NEW T, NEW U, NEW e \in DOMAIN Routing(S, T), e \notin AlwaysSearch \cup Browser
  PROVE  /\ Routing(S, T)[e].measured = Modes(S, T, U).engines[e].measured
         /\ Routing(S, T)[e].searched = Modes(S, T, U).engines[e].searched
<1> DEFINE src == Signal(e, S, T)
<1>1. e \in Engines /\ src # {}
  BY DEF Routing
<1>2. /\ Routing(S, T)[e].measured = Cardinality(src)
      /\ Routing(S, T)[e].searched = Cardinality({a \in src : a.calls > 0})
  BY <1>1 DEF Routing
<1>3. /\ Modes(S, T, U).engines[e].measured = Cardinality(src)
      /\ Modes(S, T, U).engines[e].searched = Cardinality({a \in src : Searched(a)})
  BY <1>1 DEF Modes
<1>4. {a \in src : Searched(a)} = {a \in src : a.calls > 0}
  BY DEF Signal, Searched
<1> QED
  BY <1>2, <1>3, <1>4

\* An answer from memory is a twin or a probe, a retrieved one a measured answer.
LEMMA ModesApart ==
  ASSUME NEW S, NEW T, NEW U, \A a \in S : a.variant = "search",
         \A a \in T : a.variant = "natural", \A a \in U : a.variant = "nosearch"
  PROVE  Modes(S, T, U).recall \cap Modes(S, T, U).retrieval = {}
<1>1. Modes(S, T, U).recall \subseteq U \cup T
  BY DEF Modes
<1>2. Modes(S, T, U).retrieval \subseteq S
  BY DEF Modes
<1>3. "search" # "natural" /\ "search" # "nosearch"
  OBVIOUS
<1> QED
  BY <1>1, <1>2, <1>3

-----------------------------------------------------------------------------
(* Screens that list answers.                                                *)

\* A question on the score keeps its newest answers when the others drop out.
LEMMA ScopeKeepsRows ==
  ASSUME NEW v, NEW lo, NEW hi, NEW q, q \notin OffScore
  PROVE  {a \in Latest(v, lo, hi, "all", "all") : a.q = q} = {a \in Newest(v, lo, hi) : a.q = q}
<1> DEFINE rows == OfSegment(Within(Ok(v), lo, hi), "all")
<1>1. Latest(v, lo, hi, "all", "all") =
        {a \in {b \in rows : InScope(b.q, "all")} :
            \A b \in {c \in rows : InScope(c.q, "all")} : b.q = a.q /\ b.sf = a.sf => b.id <= a.id}
  BY DEF Latest
<1>2. Newest(v, lo, hi) =
        {a \in {b \in rows : InScope(b.q, "competitive")} :
            \A b \in {c \in rows : InScope(c.q, "competitive")} :
               b.q = a.q /\ b.sf = a.sf => b.id <= a.id}
  BY DEF Newest, Latest
<1>3. \A p : InScope(p, "all")
  BY DEF InScope
<1>4. InScope(q, "competitive")
  BY ScoreScope
<1> HIDE DEF rows
<1> QED
  BY <1>1, <1>2, <1>3, <1>4

LEMMA ListMatchesMatrix ==
  ASSUME DatabaseInv, NEW lo, NEW hi, NEW q \in DOMAIN Matrix(lo, hi), questions[q].active
  PROVE  LET listed == QueriesIntel(lo, hi)
             matrix == Matrix(lo, hi)
         IN  /\ DOMAIN listed[q].latest = DOMAIN matrix[q].cells
             /\ \A e \in DOMAIN matrix[q].cells :
                   listed[q].latest[e] <=> matrix[q].cells[e] = "brand"
<1> DEFINE S == Newest("search", lo, hi)
           T == Newest("nosearch", lo, hi)
           L == Listed(S \cup T)
           All == Latest("search", lo, hi, "all", "all")
<1>1. Matrix(lo, hi) = MatrixRows(L, S, T)
  BY DEF Matrix
<1>2. OnePerCell(S)
  BY NewestIs
<1>3. q \in L /\ q \in DOMAIN questions /\ q \notin OffScore
  BY <1>1 DEF MatrixRows, Listed, OffScore
<1>4. {a \in All : a.q = q} = {a \in S : a.q = q}
  BY <1>3, ScopeKeepsRows
<1>5. QueriesIntel(lo, hi)[q].latest = NamedBy(All, q)
  BY <1>3 DEF QueriesIntel, QuestionRows
<1> HIDE DEF S, T, L, All
<1>6. DOMAIN NamedBy(All, q) = {a.sf : a \in {b \in S : b.q = q}}
  BY <1>4 DEF NamedBy
<1>7. DOMAIN MatrixRows(L, S, T)[q].cells = {a.sf : a \in {b \in S : b.q = q}}
  BY <1>2, <1>3, MatrixCells
<1>8. ASSUME NEW e \in DOMAIN MatrixRows(L, S, T)[q].cells
      PROVE  NamedBy(All, q)[e] <=> MatrixRows(L, S, T)[q].cells[e] = "brand"
  <2>1. PICK a \in S : a.q = q /\ a.sf = e
    BY <1>7, <1>8
  <2>2. MatrixRows(L, S, T)[q].cells[e] = "brand" <=> a.brand > 0
    BY <1>2, <1>3, <2>1, MatrixCells
  <2>3. NamedBy(All, q)[e] = \E b \in Named(All) : b.q = q /\ b.sf = e
    BY <1>6, <1>7, <1>8 DEF NamedBy
  <2>4. (\E b \in Named(All) : b.q = q /\ b.sf = e) <=> a.brand > 0
    <3>1. ASSUME NEW b \in Named(All), b.q = q, b.sf = e PROVE a.brand > 0
      <4>1. b \in S /\ b.brand > 0
        BY <1>4, <3>1 DEF Named
      <4>2. a = b
        BY <1>2, <2>1, <3>1, <4>1 DEF OnePerCell
      <4> QED
        BY <4>1, <4>2
    <3>2. ASSUME a.brand > 0 PROVE \E b \in Named(All) : b.q = q /\ b.sf = e
      <4>1. a \in All
        BY <1>4, <2>1
      <4> QED
        BY <2>1, <3>2, <4>1 DEF Named
    <3> QED
      BY <3>1, <3>2
  <2> QED
    BY <2>2, <2>3, <2>4
<1> QED
  BY <1>1, <1>5, <1>6, <1>7, <1>8

LEMMA SourcesMatchTable ==
  ASSUME NEW S, NEW T, NEW e \in DOMAIN EngineRows(S, T),
         e \in DOMAIN Sources({a \in S : a.owned}).engines
  PROVE  Sources({a \in S : a.owned}).engines[e] = EngineRows(S, T)[e].cited
<1> DEFINE own == {a \in S : a.owned}
<1>1. Sources(own).engines[e] = Cardinality({a \in own : a.sf = e})
  BY DEF Sources
<1>2. EngineRows(S, T)[e].cited = Cardinality({a \in {b \in S : b.sf = e} : a.owned})
  BY DEF EngineRows
<1>3. {a \in own : a.sf = e} = {a \in {b \in S : b.sf = e} : a.owned}
  OBVIOUS
<1> QED
  BY <1>1, <1>2, <1>3

-----------------------------------------------------------------------------
(* The headline against the topic rows and share of voice.                   *)

\* The measured answers of a window to questions on the score.
ScoredIn(lo, hi) == {a \in Within(Ok("search"), lo, hi) : a.q \notin OffScore}

LEMMA HeadlineIs ==
  ASSUME NEW lo, NEW hi
  PROVE  LET rates == MentionRates(lo, hi)
         IN  /\ rates.segment = Segment(ScoredIn(lo, hi))
             /\ rates.overall.equal.k = Cardinality(Named(OfSegment(ScoredIn(lo, hi), rates.segment)))
<1> DEFINE base == OnScore(lo, hi)
           segment == Segment({a \in base : a.variant = "search"})
           counted == {a \in OfSegment(base, segment) : a.variant = "search"}
<1>1. MentionRates(lo, hi).segment = segment /\ MentionRates(lo, hi).overall.equal = Count(counted)
  BY DEF MentionRates, Headline
<1>2. Count(counted).k = Cardinality(Named(counted))
  BY DEF Count
<1>3. {a \in base : a.variant = "search"} = ScoredIn(lo, hi)
  BY DEF OnScore, ScoredIn, Within, Ok
<1>4. counted = OfSegment(ScoredIn(lo, hi), segment)
  <2>1. \A s : {a \in OfSegment(base, s) : a.variant = "search"} = OfSegment(ScoredIn(lo, hi), s)
    <3> HIDE DEF base
    <3> QED
      BY <1>3 DEF OfSegment
  <2> QED
    BY <2>1
<1> HIDE DEF base, segment, counted
<1> QED
  BY <1>1, <1>2, <1>3, <1>4 DEF segment

LEMMA VoiceIs ==
  ASSUME NEW lo, NEW hi, MentionRates(lo, hi).segment = "all"
  PROVE  ShareOfVoice(lo, hi).brand = MentionRates(lo, hi).overall.equal.k
<1>1. ShareOfVoice(lo, hi).brand = Cardinality(Named(ScoredIn(lo, hi)))
  BY DEF ShareOfVoice, ScoredIn
<1>2. OfSegment(ScoredIn(lo, hi), "all") = ScoredIn(lo, hi)
  BY DEF OfSegment
<1> QED
  BY <1>1, <1>2, HeadlineIs

\* No question's tag is the name of the brand's own topic.
Tagged == \A q \in DOMAIN questions : "tag" \in DOMAIN questions[q] /\ questions[q].tag # "branded"

\* What a topic row counts: pool, the measured answers of the window to questions there are.
PoolIn(lo, hi, segment) ==
  {a \in OfSegment(Within(Ok("search"), lo, hi), segment) : a.q \in DOMAIN questions}

LEMMA TopicsAre ==
  ASSUME NEW w, NEW lo, NEW hi
  PROVE  LET topics == TopicScorecard(w, lo, hi)
             pool == PoolIn(w.lo, w.hi, topics.segment)
         IN  /\ topics.segment = Segment(Within(Ok("search"), w.lo, w.hi))
             /\ \A a \in pool : TopicOf[a.q] \in DOMAIN topics.rows
             /\ \A t \in DOMAIN topics.rows :
                   topics.rows[t].count = Count({a \in pool : TopicOf[a.q] = t})
             /\ IsFiniteSet(answers) => IsFiniteSet(DOMAIN topics.rows)
<1> DEFINE topics == TopicScorecard(w, lo, hi)
           base == Within(Ok("search"), w.lo, w.hi)
           pool == PoolIn(w.lo, w.hi, Segment(base))
           latest == {a \in Latest("search", lo, hi, "all", Segment(base)) : a.q \in DOMAIN questions}
           D == {TopicOf[a.q] : a \in pool \cup latest}
<1>1. topics.segment = Segment(base) /\ topics.rows = TopicRows(TopicOf, pool, latest, w)
  BY DEF TopicScorecard, PoolIn
<1>2. DOMAIN topics.rows = D
  BY <1>1 DEF TopicRows
<1>3. \A t \in D : topics.rows[t].count = Count({a \in pool : TopicOf[a.q] = t})
  BY <1>1 DEF TopicRows
<1>4. ASSUME IsFiniteSet(answers) PROVE IsFiniteSet(D)
  <2> DEFINE U == pool \cup latest
             F == [a \in U |-> TopicOf[a.q]]
  <2>1. U \subseteq answers
    BY DEF PoolIn, OfSegment, Within, Ok, Latest
  <2>2. IsFiniteSet(U)
    BY <1>4, <2>1, FS_Subset
  <2>3. D = {F[a] : a \in U}
    OBVIOUS
  <2> HIDE DEF D, F, U
  <2> QED
    BY <2>2, <2>3, ImageFinite
<1>5. \A a \in pool : TopicOf[a.q] \in D
  OBVIOUS
<1> HIDE DEF topics, pool, latest, D, base
<1>6. pool = PoolIn(w.lo, w.hi, topics.segment)
  BY <1>1 DEF pool
<1> QED
  BY <1>1, <1>2, <1>3, <1>4, <1>5, <1>6 DEF topics, base

LEMMA TopicsAddUp ==
  ASSUME DatabaseInv, Tagged, NEW w, NEW lo, NEW hi,
         {a.q : a \in answers} \subseteq DOMAIN questions,
         \A q \in DOMAIN questions : questions[q].active,
         TopicScorecard(w, lo, hi).segment = MentionRates(w.lo, w.hi).segment
  PROVE  LET topics == TopicScorecard(w, lo, hi)
             competitive == {t \in DOMAIN topics.rows : t \notin {"branded", "agent"}}
         IN  MentionRates(w.lo, w.hi).overall.equal.k =
                Total([t \in competitive |-> topics.rows[t].count.k])
<1> DEFINE topics == TopicScorecard(w, lo, hi)
           segment == MentionRates(w.lo, w.hi).segment
           pool == PoolIn(w.lo, w.hi, segment)
           D == {t \in DOMAIN topics.rows : t \notin {"branded", "agent"}}
           I == Named(OfSegment(ScoredIn(w.lo, w.hi), segment))
           F == [a \in I |-> TopicOf[a.q]]
           g == [t \in D |-> topics.rows[t].count.k]
<1>1. MentionRates(w.lo, w.hi).overall.equal.k = Cardinality(I)
  BY HeadlineIs
<1>2. /\ \A a \in pool : TopicOf[a.q] \in DOMAIN topics.rows
      /\ \A t \in DOMAIN topics.rows :
             topics.rows[t].count = Count({a \in pool : TopicOf[a.q] = t})
      /\ IsFiniteSet(DOMAIN topics.rows)
  BY TopicsAre DEF DatabaseInv, Numbered
<1>3. \A q \in DOMAIN questions :
         /\ q \in OffScore <=> TopicOf[q] \in {"branded", "agent"} \/ questions[q].tag = "agent"
         /\ TopicOf[q] = "agent" => questions[q].tag = "agent"
         /\ questions[q].tag = "agent" => TopicOf[q] \in {"branded", "agent"}
  BY DEF OffScore, TopicOf, Tagged
<1>4. \A a : a \in I <=> a \in pool /\ a.brand > 0 /\ a.q \notin OffScore
  <2>1. \A a \in Within(Ok("search"), w.lo, w.hi) : a.q \in DOMAIN questions
    BY DEF Within, Ok
  <2> QED
    BY <2>1 DEF PoolIn, ScoredIn, OfSegment, Named
<1> HIDE DEF pool, I, topics, segment
<1>5. IsFiniteSet(I)
  <2>1. I \subseteq answers
    BY DEF I, Named, OfSegment, ScoredIn, Within, Ok
  <2> QED
    BY <2>1, FS_Subset DEF DatabaseInv, Numbered
<1>6. IsFiniteSet(D)
  BY <1>2, FS_Subset
<1>7. \A a \in pool : a.q \in DOMAIN questions
  BY DEF pool, PoolIn
<1>8. \A a \in I : F[a] = TopicOf[a.q] /\ F[a] \in D
  BY <1>2, <1>3, <1>4, <1>7
<1>9. \A t \in D : g[t] = Cardinality({a \in I : F[a] = t})
  <2> TAKE t \in D
  <2>1. g[t] = Cardinality(Named({a \in pool : TopicOf[a.q] = t}))
    <3>1. g[t] = topics.rows[t].count.k /\ t \in DOMAIN topics.rows
      OBVIOUS
    <3>2. \A S : Count(S).k = Cardinality(Named(S))
      BY DEF Count
    <3> QED
      BY <1>2, <3>1, <3>2
  <2>2. Named({a \in pool : TopicOf[a.q] = t}) = {a \in I : F[a] = t}
    <3>1. \A a \in pool : TopicOf[a.q] = t => a.q \notin OffScore
      BY <1>3, <1>7
    <3> QED
      BY <1>4, <1>8, <3>1 DEF Named
  <2> QED
    BY <2>1, <2>2
<1>10. DOMAIN g = D
  OBVIOUS
<1> HIDE DEF D, F, g
<1>11. Total(g) = Cardinality(I)
  BY <1>5, <1>6, <1>8, <1>9, <1>10, TotalOfFibers
<1> QED
  BY <1>1, <1>11 DEF g, D, topics

\* The page of agent picks and the agent prompts' topic row count the same answers.
LEMMA PicksMatchTopic ==
  ASSUME DatabaseInv, NEW lo, NEW hi,
         "agent" \in DOMAIN TopicScorecard(DefaultWindow, lo, hi).rows,
         TopicScorecard(DefaultWindow, lo, hi).segment = "all",
         \A q \in DOMAIN questions :
            questions[q].active /\ ~(questions[q].branded /\ questions[q].tag = "agent")
  PROVE  LET count == TopicScorecard(DefaultWindow, lo, hi).rows["agent"].count
         IN  AgentPicks.overall.n = count.n /\ AgentPicks.overall.named = count.k
<1> DEFINE w == DefaultWindow
           pool == PoolIn(w.lo, w.hi, "all")
           mine == {a \in pool : TopicOf[a.q] = "agent"}
           prompts == {q \in DOMAIN questions : questions[q].active /\ questions[q].tag = "agent"}
           rows == {a \in Ok("search") : a.at >= now - 2 * WindowDays /\ a.q \in prompts}
<1>1. TopicScorecard(w, lo, hi).rows["agent"].count = Count(mine)
  BY TopicsAre
<1>2. AgentPicks.overall = Picks(rows)
  BY DEF AgentPicks
<1>3. w.lo = now - 2 * WindowDays /\ w.hi = now
  BY DEF DefaultWindow
<1>4. \A q \in DOMAIN questions : TopicOf[q] = "agent" <=> q \in prompts
  BY DEF TopicOf
<1>5. \A a \in answers : a.at \in Int /\ a.at < now /\ now \in Int /\ now - 2 * WindowDays \in Int
  BY MeasuresAssumption DEF DatabaseInv, Clocked, Numbered, AnswerWell
<1>6. \A a : a \in mine <=> a \in answers /\ a.variant = "search" /\ a.at >= now - 2 * WindowDays
                            /\ a.q \in DOMAIN questions /\ TopicOf[a.q] = "agent"
  <2> HIDE DEF w
  <2> QED
    BY <1>3, <1>5 DEF PoolIn, OfSegment, Within, Ok
<1>7. \A a : a \in rows <=> a \in answers /\ a.variant = "search" /\ a.at >= now - 2 * WindowDays
                            /\ a.q \in prompts
  BY DEF Ok
<1>8. mine = rows
  <2> HIDE DEF mine, rows, prompts
  <2>1. \A q : q \in prompts => q \in DOMAIN questions
    BY DEF prompts
  <2> QED
    BY <1>4, <1>6, <1>7, <2>1
<1> HIDE DEF mine, rows, w
<1>9. Count(mine).n = Cardinality(mine) /\ Count(mine).k = Cardinality(Named(mine))
  BY DEF Count
<1>10. Picks(rows).n = Cardinality(rows) /\ Picks(rows).named = Cardinality(Named(rows))
  BY DEF Picks
<1> QED
  BY <1>1, <1>2, <1>8, <1>9, <1>10 DEF w

-----------------------------------------------------------------------------

LEMMA TagsOfNew ==
  ASSUME NEW c \in QuestionSets \cup {FirstConfig}, NEW t, questions' = NewQuestions(c, t)
  PROVE  Tagged'
BY MeasuresAssumption DEF NewQuestions, Tagged

LEMMA TagsStart == MeasuresInit => Tagged
BY MeasuresAssumption DEF MeasuresInit, NewQuestions, Tagged

\* An edit of a question leaves its tag, an import brings the tags of its file.
LEMMA TagsStep == Tagged /\ [MeasuresNext]_measuresVars => Tagged'
<1> SUFFICES ASSUME Tagged, [MeasuresNext]_measuresVars PROVE Tagged'
  OBVIOUS
<1>1. ASSUME questions' = questions PROVE Tagged'
  BY <1>1 DEF Tagged
<1>2. ASSUME NEW q \in DOMAIN questions, Pause(q) PROVE Tagged'
  BY <1>2 DEF Pause, Tagged
<1>3. ASSUME NEW q \in DOMAIN questions, Resume(q) PROVE Tagged'
  BY <1>3 DEF Resume, Tagged
<1>4. ASSUME NEW c \in QuestionSets, Import(c) PROVE Tagged'
  BY <1>4, TagsOfNew DEF Import
<1>5. ASSUME NEW p \in Profiles, Run(p) PROVE questions' = questions
  BY <1>5 DEF Run
<1>6. ASSUME Wait PROVE questions' = questions
  BY <1>6 DEF Wait
<1>7. ASSUME NEW q, NEW t, Ship(q, t) PROVE questions' = questions
  BY <1>7 DEF Ship
<1>8. ASSUME NEW e, SwitchModel(e) PROVE questions' = questions
  BY <1>8 DEF SwitchModel
<1>9. ASSUME NEW p \in Payloads, ImportCaptures(p) PROVE questions' = questions
  BY <1>9 DEF ImportCaptures
<1>10. ASSUME UNCHANGED measuresVars PROVE questions' = questions
  BY <1>10 DEF measuresVars
<1> QED
  BY <1>1, <1>2, <1>3, <1>4, <1>5, <1>6, <1>7, <1>8, <1>9, <1>10 DEF MeasuresNext

LEMMA ScreensMeet ==
  ASSUME DatabaseInv, Tagged PROVE ScreensAgree
<1> DEFINE w == DefaultWindow
           rates == MentionRates(w.lo, w.hi)
           kpi == KpiScorecard(rates, Lowest, Highest)
           topics == TopicScorecard(w, Lowest, Highest)
           competitive == {t \in DOMAIN topics.rows : t \notin {"branded", "agent"}}
           table == EngineTable(Lowest, Highest)
           matrix == Matrix(Lowest, Highest)
           modes == EngineModes(Lowest, Highest)
           routing == RoutingReport(Lowest, Highest)
           listed == QueriesIntel(Lowest, Highest)
           sources == CitationsIntel(Lowest, Highest)
           picks == AgentPicks
           known == {a.q : a \in answers} \subseteq DOMAIN questions
           search == Newest("search", Lowest, Highest)
           natural == Newest("natural", Lowest, Highest)
           nosearch == Newest("nosearch", Lowest, Highest)
<1>1. /\ table = EngineRows(search, nosearch)
      /\ matrix = MatrixRows(Listed(search \cup nosearch), search, nosearch)
      /\ routing = Routing(search, natural) /\ modes = Modes(search, natural, nosearch)
      /\ sources = Sources({a \in search : a.owned})
  BY DEF EngineTable, Matrix, RoutingReport, EngineModes, CitationsIntel
<1>2. /\ IsFiniteSet(search) /\ OnePerCell(search) /\ IsFiniteSet(nosearch)
      /\ \A a \in search : a \in answers /\ a.variant = "search" /\ a.q \notin OffScore
      /\ \A a \in natural : a.variant = "natural"
      /\ \A a \in nosearch : a.variant = "nosearch"
  BY NewestIs
<1>3. rates.segment = "all" => kpi.measured = Cardinality(search) /\ kpi.present = Cardinality(Named(search))
  BY DEF KpiScorecard, Kpis, Newest
<1> HIDE DEF search, natural, nosearch, table, matrix, modes, routing, sources, kpi
<1>4. ASSUME known, NEW e \in DOMAIN table
      PROVE  table[e].brand = Cardinality({q \in DOMAIN matrix : e \in DOMAIN matrix[q].cells
                                                 /\ matrix[q].cells[e] = "brand"})
  <2>1. \A a \in search : a.q \in Listed(search \cup nosearch)
    BY <1>2, <1>4 DEF Listed, OffScore
  <2> QED
    BY <1>2, <1>4, <2>1, TableCountsCells
       DEF table, matrix, search, nosearch, EngineTable, Matrix
<1>5. /\ Cardinality(search) = Total([e \in DOMAIN table |-> table[e].measured])
      /\ Cardinality(Named(search)) = Total([e \in DOMAIN table |-> table[e].brand])
      /\ Cardinality({a \in search : a.owned}) = Total([e \in DOMAIN table |-> table[e].cited])
  BY <1>2, TableTotals DEF table, search, nosearch, EngineTable
<1>6. ASSUME NEW e \in DOMAIN routing \ (AlwaysSearch \cup Browser)
      PROVE  routing[e].measured = modes.engines[e].measured /\ routing[e].searched = modes.engines[e].searched
  BY <1>1, <1>6, RoutingAgrees
<1>7. modes.recall \cap modes.retrieval = {}
  BY <1>1, <1>2, ModesApart
<1>8. (known /\ topics.segment = rates.segment /\ \A q \in DOMAIN questions : questions[q].active)
         => rates.overall.equal.k = Total([t \in competitive |-> topics.rows[t].count.k])
  <2> HIDE DEF w
  <2> QED
    BY TopicsAddUp
<1>9. ASSUME NEW q \in DOMAIN matrix, questions[q].active
      PROVE  /\ DOMAIN listed[q].latest = DOMAIN matrix[q].cells
             /\ \A e \in DOMAIN matrix[q].cells : listed[q].latest[e] <=> matrix[q].cells[e] = "brand"
  BY <1>9, ListMatchesMatrix DEF matrix
<1>10. \A e \in DOMAIN table : e \in DOMAIN sources.engines => sources.engines[e] = table[e].cited
  BY <1>1, SourcesMatchTable
<1>11. sources.count = Cardinality({a \in search : a.owned})
  BY <1>1 DEF Sources
<1>12. ("agent" \in DOMAIN topics.rows /\ topics.segment = "all"
          /\ \A q \in DOMAIN questions :
                questions[q].active /\ ~(questions[q].branded /\ questions[q].tag = "agent")) =>
           /\ picks.overall.n = topics.rows["agent"].count.n
           /\ picks.overall.named = topics.rows["agent"].count.k
  BY PicksMatchTopic
<1>13. rates.segment = "all" => ShareOfVoice(w.lo, w.hi).brand = rates.overall.equal.k
  BY VoiceIs
<1> HIDE DEF w, rates, topics, listed, picks
<1>14. ListsMatchCounts
  BY <1>5, <1>9, <1>10, <1>11, <1>12, <1>13, Zenon
     DEF ListsMatchCounts, w, rates, topics, table, matrix, listed, sources, picks
<1> QED
  BY <1>3, <1>4, <1>5, <1>6, <1>7, <1>8, <1>14, Zenon
     DEF ScreensAgree, w, rates, kpi, topics, table, matrix, modes, routing

\* Whatever was run, paused, imported or switched before: the screens that count the same
\* answers by different reads show the same numbers, and none counts an answer from memory
\* as retrieved.
THEOREM ScreensAlwaysAgree == MeasuresSpec => []ScreensAgree
<1>1. DatabaseInv /\ Tagged => ScreensAgree
  BY ScreensMeet
<1> QED
  BY <1>1, DatabaseInvariant, TagsStart, TagsStep, PTL DEF MeasuresSpec
=============================================================================
