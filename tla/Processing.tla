------------------------------ MODULE Processing ------------------------------
(***************************************************************************)
(* The processing pass: from the stored answers of a run to mentions,      *)
(* citation categories, classifications and the day's visibility rows.     *)
(*                                                                         *)
(* Four callers run passes, and nothing keeps two passes apart: the worker *)
(* that finalizes a run, an import of captures, an administrator's         *)
(* "process", and the tenant-wide reprocess job.  A pass is several        *)
(* transactions, under READ COMMITTED.  A DELETE takes the rows its        *)
(* statement sees, waits for another transaction that is deleting one of   *)
(* them, and never sees the rows that transaction put in their place.      *)
(*                                                                         *)
(* The life of a run is RunLifecycle's; here a run collects answers and    *)
(* ends.  The fan-out harvest is FanoutReprobe's, the recommendations that *)
(* close a pass are Playbook's.  Mutant_... operators are bugs the         *)
(* definition after them could have; they are not part of the model.       *)
(***************************************************************************)
EXTENDS Integers, Sequences, FiniteSets, FiniteSetsExt, SequencesExt

CONSTANTS
  Runs,          \* ids of the tenant's runs, in the order they were made
  Imported,      \* the runs that are imports of captures
  Answers,       \* every answer the runs may store
  Brand, Rivals, \* tracked entities: the brand, and competitors
  Configs,       \* brand and competitor configurations an editor may set
  SpendCap,      \* the month's cap, in extraction calls
  Extraction,    \* the opt-in, approval and key of the extraction pass hold
  MaxRepeats,    \* bound: requests to process again
  MaxEvents,     \* bound: exceptions, kills, edits and midnights together
  AtOnce,        \* bound: passes under way together
  NoRow

\* An answer: its cell, its text reduced to the entities it names, its domain
\* cited, its searches, and whether it materially differs from its twin.
AnswerFields == {"id", "run", "query", "surface", "persona", "location", "variant", "ok",
                 "names", "cites", "searched", "diverged", "serp"}

ASSUME ProcessingAssumption ==
  /\ Runs \subseteq Nat \ {0} /\ IsFiniteSet(Runs) /\ Imported \subseteq Runs
  /\ IsFiniteSet(Answers)
  /\ \A x \in Answers : /\ AnswerFields \subseteq DOMAIN x /\ x.run \in Runs /\ x.id \in Nat
                        /\ x.names \subseteq {Brand} \cup Rivals
  /\ \A x, y \in Answers : x.id = y.id => x = y
  /\ NoRow \notin Answers
  /\ Brand \notin Rivals
  /\ \A c \in Configs : {"rivals", "own", "theirs", "off"} \subseteq DOMAIN c
  /\ SpendCap \in Nat /\ Extraction \in BOOLEAN
  /\ {MaxRepeats, MaxEvents, AtOnce} \subseteq Nat

Procs == {"worker", "import", "admin", "job"}

VARIABLES
  today,
  config,    \* tracked rivals, the brand's and rivals' domains, off-score questions
  run,       \* per run: status, day it began and ended (0: not), how it failed
  stored,    \* answers in the database
  derived,   \* per answer: one batch of derived rows for each pass that inserted some
  category,  \* per answer: source_category of its citation
  classes,   \* classifications: (question, surface) to its row
  daily,     \* visibility_daily
  cost,      \* extraction calls booked on each run
  proc,      \* per process: the pass it is in
  serial,    \* passes begun
  repeats, edits, faults,
  \* History the code does not keep.
  crossed,   \* runs over which two passes overlapped
  mixed,     \* days of which two roll-ups overlapped
  abandoned, \* runs a pass over which ended before its first commit, leaving no record
  sound,     \* runs the last pass over which returned
  paid, met  \* extraction calls made; whether two passes ever made theirs at once
vars == <<today, config, run, stored, derived, category, classes, daily, cost, proc, serial,
          repeats, edits, faults, crossed, mixed, abandoned, paid, met, sound>>
tables == <<today, config, run, stored, derived, category, classes, daily, cost>>
bounds == <<repeats, edits, faults>>
history == <<crossed, mixed, abandoned, paid, met, sound>>

Eventful == faults + edits + today - 1 < MaxEvents
Idle == [at |-> "idle", todo |-> {}]
Done == {"complete", "capped"}
Keys == {<<x.query, x.surface>> : x \in Answers}

-----------------------------------------------------------------------------
(* What a pass computes.                                                     *)

\* _domain_matches over a list: which side owns a domain, the brand first.
CategorizeDomain(d, own, theirs) ==
  IF d \in own THEN "brand" ELSE IF d \in theirs THEN "competitor" ELSE "other"

\* The four buckets of the dual-query diff.
WebSearchLikelihood(searched, cited, diverged) ==
  IF searched /\ cited THEN IF diverged THEN "very_likely" ELSE "likely"
  ELSE IF searched \/ diverged THEN "possible" ELSE "unlikely"

\* The AI Overview signal of one captured result page: [ran, present, top, dominant].
ClassifyAio(serp) ==
  IF ~serp.ran \/ ~serp.present THEN "no_aio"
  ELSE IF ~serp.top THEN "organic_dominant"
  ELSE IF serp.dominant THEN "aio_dominant" ELSE "aio_plus_organic"

SearchAnswers(S) == {x \in S : x.variant = "search" /\ x.ok}
MeasuredAnswers(S) == {x \in S : x.variant \in {"search", "natural", "nosearch"} /\ x.ok}

\* Entities of the fact list detect_mentions finds in an answer's text.
DetectMentions(x, c) == x.names \cap ({Brand} \cup c.rivals)

AtDefault(x) == x.location = ""
Mutant_PreferNew(new, cur) == TRUE
\* A question's representative capture: the default location's, else the earliest.
PreferNew(new, cur) ==
  \/ AtDefault(new) /\ ~AtDefault(cur)
  \/ (AtDefault(new) <=> AtDefault(cur)) /\ new.id < cur.id
AioCaptures(S, q) == {x \in SearchAnswers(S) : x.surface = "google_aio" /\ x.query = q}
Prefer(x, cur) == IF cur = NoRow \/ PreferNew(x, cur) THEN x ELSE cur
\* The captures come in no order.
AioRep(S, q) == FoldSet(Prefer, NoRow, AioCaptures(S, q))

\* The search-enabled twin of a no-search answer.
Twins(S, n) == {x \in SearchAnswers(S) : /\ x.query = n.query /\ x.persona = n.persona
                                         /\ x.surface = n.surface}
Pairs(S) == {n \in S : n.variant = "nosearch" /\ n.ok /\ Twins(S, n) # {}}
LikelihoodOf(S, n) ==
  LET t == CHOOSE x \in Twins(S, n) : \A y \in Twins(S, n) : x.id <= y.id
  IN  WebSearchLikelihood(t.searched, t.cites # "none", t.diverged)

\* The rows of a pass over S by run r: the diff first, then the AI Overview
\* columns of every row of a captured question, one row being made if there is none.
Reclassified(old, S, r) ==
  LET byDiff == [k \in Keys |->
        LET n == {m \in Pairs(S) : <<m.query, m.surface>> = k}
        IN  IF n = {} THEN old[k]
            ELSE [bucket |-> LikelihoodOf(S, CHOOSE m \in n : TRUE), run |-> r,
                  aio |-> IF old[k] = NoRow THEN "no_aio" ELSE old[k].aio]]
      captured == {q \in {x.query : x \in S} : AioCaptures(S, q) # {}}
      rowsOf(q) == {k \in Keys : k[1] = q /\ byDiff[k] # NoRow}
      touched(k) == k[1] \in captured
                    /\ (k \in rowsOf(k[1]) \/ (rowsOf(k[1]) = {} /\ k[2] = "google_aio"))
  IN  [k \in Keys |->
        IF touched(k)
        THEN [bucket |-> IF byDiff[k] = NoRow THEN "" ELSE byDiff[k].bucket, run |-> r,
              aio |-> ClassifyAio(AioRep(S, k[1]).serp)]
        ELSE byDiff[k]]

-----------------------------------------------------------------------------
(* The day's rows.                                                           *)

RunDay(r) == IF run[r].ended # 0 THEN run[r].ended
             ELSE IF run[r].began # 0 THEN run[r].began ELSE today

Mutant_RunsOfDay(d, include) == {r \in Runs : RunDay(r) = d}
\* Finished runs whose processing did not fail, and the run being processed.
RunsOfDay(d, include) ==
  {r \in Runs : /\ RunDay(r) = d
                /\ r = include \/ (run[r].status \in Done /\ run[r].error # "processing")}

\* One row for each (surface, segment, location) of the scored answers, with the
\* answers it counts, those that name the brand and those that cite it.
Scored(rs) == {x \in SearchAnswers(stored) : x.run \in rs /\ x.query \notin config.off}
GroupOf(x) == <<x.surface, x.persona, x.location>>
NamesBrand(x) == \E b \in derived[x] : Brand \in b.names
DayRows(d, rs, n, excused) ==
  LET rows == {GroupOf(x) : x \in Scored(rs)}
      members(g) == {x \in Scored(rs) : GroupOf(x) = g}
  IN  {[day |-> d, group |-> g, by |-> n, excused |-> excused, counted |-> members(g),
        named |-> {x \in members(g) : NamesBrand(x)},
        cited |-> {x \in members(g) : x.cites \in config.own}] : g \in rows}

-----------------------------------------------------------------------------
(* Starting a pass.                                                          *)

InPass(p, r) == proc[p].at # "idle" /\ proc[p].run = r
OnRun(r) == {p \in Procs : InPass(p, r)}

\* The pass begins: it reads the run, its answers, the configuration and the cost booked
\* so far, and its DELETE takes the derived rows it sees. saw is what the caller has
\* stored, ended whether the run has ended.
Enter(p, r, todo, saw, ended) ==
  /\ Cardinality({o \in Procs \ {p} : proc[o].at # "idle"}) < AtOnce
  /\ serial' = serial + 1
  /\ proc' = [proc EXCEPT ![p] =
       [at |-> "deriving", run |-> r, n |-> serial + 1, todo |-> todo, saw |-> saw,
        config |-> config, cost |-> cost[r], early |-> ~ended,
        rows |-> UNION {{<<x, b>> : b \in derived[x]} : x \in saw}]]
  /\ crossed' = IF OnRun(r) \ {p} = {} THEN crossed ELSE crossed \cup {r}
StoredOf(r) == {x \in stored : x.run = r}
Again(p, r, todo) == Enter(p, r, todo, StoredOf(r), run[r].status \in Done)

Init ==
  /\ today = 1
  /\ config \in {c \in Configs : c.off = {}}   \* every question counts at first
  /\ run = [r \in Runs |-> [status |-> "pending", began |-> 0, ended |-> 0, error |-> "none"]]
  /\ stored = {} /\ derived = [x \in Answers |-> {}]
  /\ category = [x \in Answers |-> ""]
  /\ classes = [k \in Keys |-> NoRow]
  /\ daily = {} /\ cost = [r \in Runs |-> 0]
  /\ proc = [p \in Procs |-> Idle]
  /\ serial = 0 /\ repeats = 0 /\ edits = 0 /\ faults = 0
  /\ crossed = {} /\ mixed = {} /\ abandoned = {}
  /\ sound = {} /\ paid = 0 /\ met = FALSE

\* The run's row: status, day it began and ended, how it failed.
Mark(r, status, began, ended, error) ==
  run' = [run EXCEPT ![r] = [status |-> status, began |-> began, ended |-> ended, error |-> error]]

\* A run starts when the runs before it have ended: trigger_run's guard.
StartRun(r) ==
  /\ run[r].status = "pending" /\ r \notin Imported
  /\ \A s \in Runs \ Imported : run[s].status # "running" /\ (s < r => run[s].status # "pending")
  /\ Mark(r, "running", today, run[r].ended, run[r].error)
  /\ UNCHANGED <<today, config, stored, derived, category, classes, daily, cost, proc,
                 serial, bounds, history>>

\* Answers, failed ones too, get their ids in the order they are stored.
StoreAnswer(x) ==
  /\ run[x.run].status = "running" /\ x \notin stored
  /\ \A y \in Answers : (y.run = x.run /\ y.id < x.id) => y \in stored
  /\ stored' = stored \cup {x}
  /\ UNCHANGED <<today, config, run, derived, category, classes, daily, cost, proc, serial,
                 bounds, history>>

OkAnswers(r) == {x \in stored : x.run = r /\ x.ok}

\* _finalize_run commits the final status, then processes what there is.
FinishRun(r) ==
  /\ run[r].status = "running" /\ OkAnswers(r) # {} /\ proc["worker"].at = "idle"
  /\ \E s \in Done : Mark(r, s, run[r].began, today, run[r].error)
  /\ Enter("worker", r, {}, StoredOf(r), TRUE)
  /\ UNCHANGED <<today, config, stored, derived, category, classes, daily, cost, bounds,
                 mixed, abandoned, paid, met, sound>>

\* The reaper fails a run whose worker is gone; its answers stay, unprocessed.
ReapRun(r) ==
  /\ run[r].status = "running" /\ Eventful /\ faults' = faults + 1
  /\ Mark(r, "failed", run[r].began, today, "other")
  /\ UNCHANGED <<today, config, stored, derived, category, classes, daily, cost, proc,
                 serial, repeats, edits, history>>

\* An import stores its captures and its finished run in one transaction.
ImportRun(r) ==
  /\ r \in Imported /\ run[r].status = "pending" /\ proc["import"].at = "idle"
  /\ stored' = stored \cup {x \in Answers : x.run = r}
  /\ Mark(r, "complete", today, today, run[r].error)
  /\ Enter("import", r, {}, {x \in Answers : x.run = r}, TRUE)
  /\ UNCHANGED <<today, config, derived, category, classes, daily, cost, bounds, mixed,
                 abandoned, paid, met, sound>>

\* POST /runs/{id}/process: any run, whatever its status.
ReprocessRun(r) ==
  /\ repeats < MaxRepeats /\ repeats' = repeats + 1
  /\ proc["admin"].at = "idle" /\ run[r].status # "pending"
  /\ Again("admin", r, {})
  /\ UNCHANGED <<tables, edits, faults, mixed, abandoned, paid, met, sound>>

\* The reprocess job lists the complete runs, and takes them oldest first.
TakeOldest(p, ids) == Again(p, Min(ids), ids \ {Min(ids)})
ReprocessTenant ==
  /\ repeats < MaxRepeats /\ repeats' = repeats + 1
  /\ proc["job"].at = "idle"
  /\ LET ids == {r \in Runs : run[r].status = "complete"}
     IN  ids # {} /\ TakeOldest("job", ids)
  /\ UNCHANGED <<tables, edits, faults, mixed, abandoned, paid, met, sound>>

-----------------------------------------------------------------------------
(* The steps of a pass.                                                      *)

Pass(p) == proc[p]
Uncommitted(p) == Pass(p).at \in {"deriving", "extracted"}
Become(p, rec) == proc' = [proc EXCEPT ![p] = rec]
Spent == FoldSet(LAMBDA r, sum : sum + cost[r], 0, Runs)

\* Past the DELETE, which waits for a pass that is deleting the same rows, the
\* extraction pass buys what the rest of the month's budget affords.
Mutant_Affordable(S) == IF Extraction THEN Cardinality(SearchAnswers(S)) ELSE 0
Affordable(S) ==
  IF Extraction THEN Min({Cardinality(SearchAnswers(S)), Max({0, SpendCap - Spent})}) ELSE 0
Extract(p) ==
  /\ Pass(p).at = "deriving"
  /\ \A o \in Procs : Pass(o).at = "extracted" => Pass(o).rows \cap Pass(p).rows = {}
  /\ LET calls == Affordable(Pass(p).saw)
     IN  /\ Become(p, [at |-> "extracted", run |-> Pass(p).run, n |-> Pass(p).n,
                       todo |-> Pass(p).todo, saw |-> Pass(p).saw, config |-> Pass(p).config,
                       cost |-> Pass(p).cost, early |-> Pass(p).early, rows |-> Pass(p).rows,
                       calls |-> calls])
         /\ paid' = paid + calls
  /\ met' = (met \/ \E o \in Procs : Pass(o).at = "extracted")
  /\ UNCHANGED <<tables, serial, bounds, crossed, mixed, abandoned, sound>>

Mutant_Kept(p, x) == derived[x]
\* Batches of an answer that survive the pass's DELETE.
Kept(p, x) == {b \in derived[x] : <<x, b>> \notin Pass(p).rows}

\* The first commit: derived rows, categories, classifications, cost.
CommitDerived(p) ==
  LET r == Pass(p).run  saw == Pass(p).saw  c == Pass(p).config
      batch(x) == IF x \in MeasuredAnswers(saw)
                  THEN {[by |-> Pass(p).n, names |-> DetectMentions(x, c)]} ELSE {}
  IN  /\ Pass(p).at = "extracted"
      /\ derived' = [x \in Answers |-> IF x \in saw THEN Kept(p, x) \cup batch(x) ELSE derived[x]]
      /\ category' = [x \in Answers |-> IF x \in saw /\ x.cites # "none"
                                        THEN CategorizeDomain(x.cites, c.own, c.theirs)
                                        ELSE category[x]]
      /\ classes' = Reclassified(classes, saw, r)
      /\ cost' = IF Pass(p).calls = 0 THEN cost
                 ELSE [cost EXCEPT ![r] = Pass(p).cost + Pass(p).calls]
      /\ Become(p, [at |-> "derived", run |-> r, n |-> Pass(p).n, todo |-> Pass(p).todo,
                    early |-> Pass(p).early])
      /\ UNCHANGED <<today, config, run, stored, daily, serial, bounds, history>>

\* Runs that may be without mentions now, for a reason the code gives: the pass's own,
\* taken up while it was collecting; one just finished whose pass has yet to commit; one
\* whose pass died.
Excused(p) ==
  {r \in Runs : \/ InPass(p, r) /\ Pass(p).early
                \/ \E o \in OnRun(r) : Uncommitted(o) /\ ~Pass(o).early
                \/ r \in abandoned}

Mutant_DayDelete(d) == {}
\* The rows a roll-up of the day replaces.
DayDelete(d) == {row \in daily : row.day = d}

\* rollup_day: the runs of the run's day are read, and the day's rows deleted.
RollupBegin(p) ==
  LET d == RunDay(Pass(p).run)
  IN  /\ Pass(p).at = "derived"
      /\ Become(p, [at |-> "rolling", run |-> Pass(p).run, n |-> Pass(p).n,
                    todo |-> Pass(p).todo, day |-> d, runs |-> RunsOfDay(d, Pass(p).run),
                    excused |-> Excused(p), gone |-> DayDelete(d)])
      /\ mixed' = IF \E o \in Procs : Pass(o).at = "rolling" /\ Pass(o).day = d
                  THEN mixed \cup {d} ELSE mixed
      /\ UNCHANGED <<tables, serial, bounds, crossed, abandoned, paid, met, sound>>

\* It reads their answers and mentions and commits the new rows.
RollupCommit(p) ==
  /\ Pass(p).at = "rolling"
  /\ daily' = (daily \ Pass(p).gone)
              \cup DayRows(Pass(p).day, Pass(p).runs, Pass(p).n, Pass(p).excused)
  /\ Become(p, [at |-> "closing", run |-> Pass(p).run, n |-> Pass(p).n, todo |-> Pass(p).todo])
  /\ sound' = sound \cup {Pass(p).run}
  /\ UNCHANGED <<today, config, run, stored, derived, category, classes, cost, serial,
                 bounds, crossed, mixed, abandoned, paid, met>>

\* The caller is back; the reprocess job goes on to the next run of its list.
Advance(p) ==
  IF Pass(p).todo = {}
  THEN Become(p, Idle) /\ UNCHANGED <<serial, crossed>>
  ELSE TakeOldest(p, Pass(p).todo)
PassReturns(p) ==
  /\ Pass(p).at = "closing" /\ Advance(p)
  /\ UNCHANGED <<tables, bounds, mixed, abandoned, paid, met, sound>>

Abandons(p) == IF Uncommitted(p) THEN abandoned \cup {Pass(p).run} ELSE abandoned

\* An exception: the transaction is rolled back. The worker records it on the run, the
\* job goes on, the other callers answer with an error.
PassFails(p) ==
  /\ Pass(p).at # "idle" /\ Eventful /\ faults' = faults + 1
  /\ LET r == Pass(p).run
     IN  IF p = "worker" THEN Mark(r, run[r].status, run[r].began, run[r].ended, "processing")
         ELSE UNCHANGED run
  /\ abandoned' = IF p = "worker" THEN abandoned ELSE Abandons(p)
  /\ IF p = "job" THEN Advance(p) ELSE Become(p, Idle) /\ UNCHANGED <<serial, crossed>>
  /\ sound' = sound \ {Pass(p).run}
  /\ UNCHANGED <<today, config, stored, derived, category, classes, daily, cost, repeats,
                 edits, mixed, paid, met>>

\* SIGKILL, at any step.
PassKilled(p) ==
  /\ Pass(p).at # "idle" /\ Eventful /\ faults' = faults + 1
  /\ abandoned' = Abandons(p)
  /\ Become(p, Idle)
  /\ UNCHANGED <<tables, serial, repeats, edits, crossed, mixed, paid, met, sound>>

-----------------------------------------------------------------------------
(* The world around it.                                                      *)

EditConfig ==
  /\ Eventful /\ edits' = edits + 1
  /\ \E c \in Configs \ {config} : config' = c
  /\ UNCHANGED <<today, run, stored, derived, category, classes, daily, cost, proc, serial,
                 repeats, faults, history>>

NextDay ==
  /\ Eventful /\ today' = today + 1
  /\ UNCHANGED <<config, run, stored, derived, category, classes, daily, cost, proc,
                 serial, bounds, history>>

PassStep(p) == \/ Extract(p) \/ CommitDerived(p)
               \/ RollupBegin(p) \/ RollupCommit(p) \/ PassReturns(p)
Next ==
  \/ \E r \in Runs : StartRun(r) \/ FinishRun(r) \/ ReapRun(r) \/ ImportRun(r) \/ ReprocessRun(r)
  \/ \E x \in Answers : StoreAnswer(x)
  \/ ReprocessTenant
  \/ \E p \in Procs : PassStep(p) \/ PassFails(p) \/ PassKilled(p)
  \/ EditConfig \/ NextDay
Spec == Init /\ [][Next]_vars

-----------------------------------------------------------------------------
(* Properties.                                                               *)

\* Every answer's derived rows come from one pass, however often its run was processed,
\* as long as no two passes were over that run at once: "idempotent reprocess".
OneCopy == \A x \in stored : x.run \notin crossed => Cardinality(derived[x]) <= 1

\* A day's row counts an answer without its mentions, which reads as "brand not
\* mentioned", only if the pass was over that very run and took it up while it was still
\* collecting, or as the roll-up began the pass of the finished run had yet to commit, or
\* had died unrecorded (rollup_day: "only runs whose processing has produced mentions").
\* Other runs of the day that are collecting or were reaped, and those whose processing
\* failed, are never counted so.
BlindRowsHaveCause ==
  \A row \in daily : \A x \in row.counted : derived[x] = {} => x.run \in row.excused

\* Repeated runs and repeated passes do not double-count: while roll-ups of a day did not
\* overlap, the day has one row per group and counts an answer once.
DayCountsOnce ==
  \A d \in 1 .. today : d \notin mixed =>
    \A a, b \in {row \in daily : row.day = d} :
      a # b => a.group # b.group /\ a.counted \cap b.counted = {}

\* Whatever is processed again, retried or rolled up twice, an answer is derived
\* once and counted once.
DerivedOnce == OneCopy /\ DayCountsOnce

\* A question's AI Overview columns come from one capture of the run that set them, its
\* default location's when it has one, whatever the order of the captures.
AioFromDefaultLocation ==
  \A k \in Keys :
    LET r == classes[k].run
        captures == {x \in AioCaptures({y \in stored : y.run = r}, k[1]) : derived[x] # {}}
        rank(x) == <<IF AtDefault(x) THEN 0 ELSE 1, x.id>>
        first(x, y) == rank(x)[1] < rank(y)[1] \/ (rank(x)[1] = rank(y)[1] /\ x.id <= y.id)
    IN  (classes[k] # NoRow /\ r \notin crossed) =>
          \A x \in captures :
            (\A y \in captures : first(x, y)) => classes[k].aio = ClassifyAio(x.serp)

\* The extraction calls made stay within the month's cap, unless two passes made theirs
\* at once, two passes wrote one run's cost, or a pass that had paid did not commit.
ExtractionWithinCap ==
  met \/ crossed # {} \/ faults > 0 \/ paid <= SpendCap

\* What rollup_day says it covers: "all of that day's runs", but those "whose processing
\* failed". So a later pass's rows of the day count the answers of a finished run the last
\* pass over which stored its mentions and returned.
ProcessedRunCounted ==
  \A row \in daily, x \in Scored(Runs) :
    (/\ run[x.run].status \in Done /\ run[x.run].ended = row.day /\ row.day \notin mixed
     /\ x.run \in sound /\ OnRun(x.run) = {} /\ x.run \notin row.excused
     /\ derived[x] # {} /\ \A b \in derived[x] : b.by < row.by)
    => \E other \in daily : other.day = row.day /\ x \in other.counted
================================================================================
