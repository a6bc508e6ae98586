---------------------------- MODULE FanoutReprobe ----------------------------
(***************************************************************************)
(* The fan-out shards of one complete run: processing passes harvest them  *)
(* from the run's answers (after the run, on an admin's request, in a      *)
(* tenant-wide reprocess), and the re-probe job ranks the unresolved ones, *)
(* pays to ask the best of them, and writes what it learnt. Both write the *)
(* shard rows and the run's row (counts, cost), in transactions that are   *)
(* open while providers are called.                                        *)
(*                                                                         *)
(* Granularity: what a transaction reads before a provider call or an      *)
(* upload and writes after it is two steps. An UPDATE writes the columns    *)
(* that changed against what was loaded, as the ORM does.                   *)
(*                                                                         *)
(* Operators named Mutant_... are bugs the definition after them could     *)
(* have; they are not part of the model.                                   *)
(***************************************************************************)
EXTENDS Integers, Sequences, FiniteSets, FiniteSetsExt

CONSTANTS
  Keys,          \* (parent prompt, normalized text) of a shard
  ParentOf,      \* the prompt each shard was fanned out from
  Rank,          \* position of each shard in the order of ShardCandidate.score
  Issuers,       \* surfaces that issued each shard
  Configured,    \* surfaces with a provider key
  Price,         \* what a probe of each surface costs
  PerPrompt, PerRun,   \* the plan's shard_probes_per_prompt and _per_run
  PriorKeys,     \* shards an earlier run re-probed
  PriorPresence, \* and what it found
  Passes, Kind,  \* processing passes: "finalize", "route" or "job"
  Jobs,          \* re-probe jobs that may be queued
  MaxCalls,      \* entity-extraction calls a pass makes, at one unit each
  MaxEdits,      \* bound: edits of the prompts' branded flags
  MaxKills,      \* bound: re-probe workers killed
  NoRow, NoSurface

Surfaces == {"openai_api", "gemini_api"}
Parents == {ParentOf[k] : k \in Keys}
Presence == {"present", "absent", "lost"}   \* "lost": absent, and a rival won
Rows == [id : Nat, seen : Presence \cup {"unknown"}, source : {"unresolved", "reprobed"},
         priority : {"", "low", "med", "high"},
         status : {"", "ok", "error", "carried", "dropped_k", "dropped_ceiling",
                   "withheld_cap"}]
Outcomes == Presence \cup {"error", "withheld"}
Counts == [shards : Nat, reprobed : Nat, crashed : BOOLEAN, queued : BOOLEAN]

ASSUME FanoutAssumption ==
  /\ IsFiniteSet(Keys)
  /\ Rank \in [Keys -> Nat] /\ IsInjective(Rank)
  /\ Issuers \in [Keys -> SUBSET Surfaces] /\ Configured \subseteq Surfaces
  /\ Price \in [Surfaces -> Nat \ {0}]
  /\ PerPrompt \in Nat /\ PerRun \in Nat
  /\ PriorKeys \subseteq Keys /\ PriorPresence \in [Keys -> Presence]
  /\ Kind \in [Passes -> {"finalize", "route", "job"}]
  /\ MaxCalls \in Nat /\ MaxEdits \in Nat /\ MaxKills \in Nat
  /\ NoRow \notin Rows /\ NoSurface \notin Surfaces

VARIABLES
  \* The database.
  shard,     \* fanout_shards row of each key, or NoRow
  counts,    \* run.counts
  cost,      \* run.cost_usd
  branded,   \* prompts flagged as branded
  fresh,     \* earlier runs' re-probes still within the TTL
  \* Processing passes.
  ppc, loaded, found,   \* step; run row as loaded; harvest: rows and keys read
  calls,                \* extraction calls paid in this transaction
  \* Re-probe jobs.
  jpc, candidates,      \* step; unresolved shards it ranked
  chosen, ids,          \* shards to probe, and the ids of their rows
  outcome,              \* what each probe answered
  opened,               \* run row as loaded before saving
  todo, saved,          \* shards not handled yet, rows written and locked
  \* Bookkeeping of the environment.
  nextId, edits, kills

runVars == <<counts, cost>>
passVars == <<ppc, loaded, found, calls>>
jobVars == <<jpc, candidates, chosen, ids, outcome, opened, todo, saved>>
envVars == <<branded, fresh, edits, kills>>
vars == <<shard, runVars, passVars, jobVars, envVars, nextId>>

NoCounts == [shards |-> 0, reprobed |-> 0, crashed |-> FALSE, queued |-> FALSE]
NothingFound == [rows |-> [k \in Keys |-> NoRow], keys |-> {}, fresh |-> {}]

Init ==
  /\ shard = [k \in Keys |-> NoRow]
  /\ counts = NoCounts /\ cost = 0
  /\ branded = {} /\ fresh = PriorKeys
  /\ ppc = [p \in Passes |-> "idle"]
  /\ loaded = [p \in Passes |-> [counts |-> NoCounts, cost |-> 0]]
  /\ found = [p \in Passes |-> NothingFound]
  /\ calls = [p \in Passes |-> 0]
  /\ jpc = [j \in Jobs |-> "idle"]
  /\ candidates = [j \in Jobs |-> {}] /\ chosen = [j \in Jobs |-> {}]
  /\ todo = [j \in Jobs |-> {}] /\ saved = [j \in Jobs |-> {}]
  /\ ids = [j \in Jobs |-> [k \in Keys |-> 0]]
  /\ outcome = [j \in Jobs |-> [k \in Keys |-> "none"]]
  /\ opened = [j \in Jobs |-> [counts |-> NoCounts, cost |-> 0]]
  /\ nextId = 1 /\ edits = 0 /\ kills = 0

-----------------------------------------------------------------------------
(* Ranking and presence                                                     *)

ShardPriority(seen) ==
  CASE seen = "unknown" -> ""
    [] seen = "present" -> "low"
    [] seen = "lost"    -> "high"
    [] seen = "absent"  -> "med"

\* The cheapest surface that issued the shard and can be called.
ProbeSurface(k) ==
  LET usable == Issuers[k] \cap Configured IN
  IF "openai_api" \in usable THEN "openai_api"
  ELSE IF "gemini_api" \in usable THEN "gemini_api" ELSE NoSurface

\* The n best-ranked members of S.
Best(S, n) == {k \in S : Cardinality({l \in S : Rank[l] < Rank[k]}) < n}

WithinK(S) == UNION {Best({k \in S : ParentOf[k] = p}, PerPrompt) : p \in Parents}

\* Mutant: the per-run ceiling first, then the best of each prompt.
Mutant_Select(S) ==
  LET chose == WithinK(Best(S, PerRun)) IN
  [chosen |-> chose, dropped_k |-> Best(S, PerRun) \ chose,
   dropped_ceiling |-> S \ Best(S, PerRun)]

\* select_candidates: top-K per prompt, then the ceiling across prompts.
Select(S) ==
  [chosen |-> Best(WithinK(S), PerRun),
   dropped_k |-> S \ WithinK(S),
   dropped_ceiling |-> WithinK(S) \ Best(WithinK(S), PerRun)]

-----------------------------------------------------------------------------
(* A processing pass                                                         *)

Observed == {k \in Keys : ParentOf[k] \notin branded}

\* The run row is loaded; the shards come at the end of the pass.
PassLoad(p) ==
  /\ ppc[p] = "idle"
  /\ ppc' = [ppc EXCEPT ![p] = "extracting"]
  /\ loaded' = [loaded EXCEPT ![p] = [counts |-> counts, cost |-> cost]]
  /\ UNCHANGED <<shard, runVars, found, calls, jobVars, envVars, nextId>>

\* n entity-extraction calls, each paid whether or not the pass commits.
PassExtract(p, n) ==
  /\ ppc[p] = "extracting"
  /\ calls' = [calls EXCEPT ![p] = n]
  /\ ppc' = [ppc EXCEPT ![p] = "reading"]
  /\ UNCHANGED <<shard, runVars, loaded, found, jobVars, envVars, nextId>>

\* harvest_shards reads the branded flags, this run's rows and fresh re-probes.
HarvestRead(p) ==
  /\ ppc[p] = "reading"
  /\ found' = [found EXCEPT ![p] = [rows |-> shard, keys |-> Observed, fresh |-> fresh]]
  /\ ppc' = [ppc EXCEPT ![p] = "harvested"]
  /\ UNCHANGED <<shard, runVars, loaded, calls, jobVars, envVars, nextId>>

\* Mutant: a status the model does not have.
Mutant_NewRow(p, k) ==
  [id |-> nextId, seen |-> "unknown", priority |-> "", source |-> "unresolved",
   status |-> "unresolved"]

NewRow(p, k) ==
  LET carried == k \in found[p].fresh
      seen == IF carried THEN PriorPresence[k] ELSE "unknown" IN
  [id |-> nextId, seen |-> seen, priority |-> ShardPriority(seen),
   source |-> IF carried THEN "reprobed" ELSE "unresolved",
   status |-> IF carried THEN "carried" ELSE ""]

\* Mutant: the whole row is written, not the columns that changed.
Mutant_KeptRow(p, k) == found[p].rows[k]

\* A row that stays gets the priority of the presence that was read; the
\* column is written only if that differs from the priority that was read.
KeptRow(p, k) ==
  LET was == found[p].rows[k] IN
  IF NoRow \in {shard[k], was} \/ ShardPriority(was.seen) = was.priority THEN shard[k]
  ELSE [shard[k] EXCEPT !.priority = ShardPriority(was.seen)]

\* Rows of no longer observed shards, if another pass has not deleted them.
Dropped(p) ==
  {k \in Keys \ found[p].keys :
     NoRow \notin {shard[k], found[p].rows[k]} /\ shard[k].id = found[p].rows[k].id}
Added(p) == {k \in found[p].keys : found[p].rows[k] = NoRow}
Locked == UNION {saved[j] : j \in Jobs}

\* Another pass inserted one of the rows meanwhile.
Conflict(p) == \E k \in Added(p) : shard[k] # NoRow

AfterPass(p) == IF Kind[p] = "finalize" THEN "tail" ELSE "done"

\* The first commit of process_run: shards, and the calls booked on the cost
\* that was loaded.
HarvestCommit(p) ==
  /\ ppc[p] = "harvested"
  /\ ~Conflict(p) /\ Dropped(p) \cap Locked = {}
  /\ shard' = [k \in Keys |->
       CASE k \in Dropped(p)                         -> NoRow
         [] k \in Added(p)                           -> NewRow(p, k)
         [] k \in found[p].keys \ Added(p)           -> KeptRow(p, k)
         [] k \notin found[p].keys \cup Dropped(p)   -> shard[k]]
  /\ nextId' = nextId + 1
  /\ cost' = IF calls[p] = 0 THEN cost ELSE loaded[p].cost + calls[p]
  /\ ppc' = [ppc EXCEPT ![p] = "counting"]
  /\ UNCHANGED <<counts, loaded, found, calls, jobVars, envVars>>

\* The unique key refuses the insert: the pass rolls back.
PassFails(p) ==
  /\ ppc[p] = "harvested" /\ Conflict(p)
  /\ ppc' = [ppc EXCEPT ![p] = AfterPass(p)]
  /\ UNCHANGED <<shard, runVars, loaded, found, calls, jobVars, envVars, nextId>>

\* The pass's counters are merged: into the row as it is now, except in a
\* tenant-wide reprocess, which copied run.counts before it called process_run.
PassCounts(p) ==
  LET base == IF Kind[p] = "job" THEN loaded[p].counts ELSE counts
      n == Cardinality(found[p].keys) IN
  /\ ppc[p] = "counting"
  /\ counts' = [base EXCEPT !.shards = IF n > 0 THEN n ELSE @]
  /\ ppc' = [ppc EXCEPT ![p] = AfterPass(p)]
  /\ UNCHANGED <<shard, cost, loaded, found, calls, jobVars, envVars, nextId>>

\* The tail of _finalize_run: queue the re-probe, then say so in the counts
\* that were read before.
TailEnqueue(p) ==
  /\ ppc[p] = "tail"
  /\ loaded' = [loaded EXCEPT ![p] = [counts |-> counts, cost |-> cost]]
  /\ IF counts.shards > 0
       THEN /\ ppc' = [ppc EXCEPT ![p] = "stamping"]
            /\ \/ UNCHANGED jpc
               \/ \E j \in Jobs : jpc[j] = "idle" /\ jpc' = [jpc EXCEPT ![j] = "queued"]
       ELSE ppc' = [ppc EXCEPT ![p] = "done"] /\ UNCHANGED jpc
  /\ UNCHANGED <<shard, runVars, found, calls, candidates, chosen, ids, outcome, opened,
                 todo, saved, envVars, nextId>>

TailStamp(p) ==
  /\ ppc[p] = "stamping"
  /\ counts' = [loaded[p].counts EXCEPT !.queued = TRUE]
  /\ ppc' = [ppc EXCEPT ![p] = "done"]
  /\ UNCHANGED <<shard, cost, loaded, found, calls, jobVars, envVars, nextId>>

-----------------------------------------------------------------------------
(* The re-probe job                                                          *)

Unresolved ==
  {k \in Keys : shard[k] # NoRow /\ shard[k].source = "unresolved"
                  /\ ProbeSurface(k) # NoSurface}

\* Phase 1, one transaction: rank, choose, and stamp what is left out.
JobSelect(j) ==
  LET picked == Select(Unresolved)
      Stamp(k, st) == [shard[k] EXCEPT !.status = st] IN
  /\ jpc[j] = "queued"
  /\ candidates' = [candidates EXCEPT ![j] = Unresolved]
  /\ chosen' = [chosen EXCEPT ![j] = picked.chosen]
  /\ todo' = [todo EXCEPT ![j] = picked.chosen]
  /\ ids' = [ids EXCEPT ![j] = [k \in Keys |-> IF shard[k] = NoRow THEN 0 ELSE shard[k].id]]
  /\ shard' = [k \in Keys |->
       CASE k \in picked.dropped_k       -> Stamp(k, "dropped_k")
         [] k \in picked.dropped_ceiling -> Stamp(k, "dropped_ceiling")
         [] OTHER                        -> shard[k]]
  /\ jpc' = [jpc EXCEPT ![j] = "asking"]
  /\ UNCHANGED <<runVars, passVars, outcome, opened, saved, envVars, nextId>>

\* Phase 2: every chosen shard is asked, fails, or is withheld by the cap.
JobAsk(j, answers) ==
  /\ jpc[j] = "asking"
  /\ outcome' = [outcome EXCEPT ![j] =
       [k \in Keys |-> IF k \in chosen[j] THEN answers[k] ELSE "none"]]
  /\ jpc' = [jpc EXCEPT ![j] = "opening"]
  /\ UNCHANGED <<shard, runVars, passVars, candidates, chosen, ids, opened, todo, saved,
                 envVars, nextId>>

\* Phase 3 loads the run, then takes the shards in order.
JobOpen(j) ==
  /\ jpc[j] = "opening"
  /\ opened' = [opened EXCEPT ![j] = [counts |-> counts, cost |-> cost]]
  /\ jpc' = [jpc EXCEPT ![j] = "saving"]
  /\ UNCHANGED <<shard, runVars, passVars, candidates, chosen, ids, outcome, todo, saved,
                 envVars, nextId>>

\* The shards come in the order they were chosen in.
Turn(j, k) == k \in todo[j] /\ \A l \in todo[j] : Rank[k] <= Rank[l]
SameRow(j, k) == shard[k] # NoRow /\ shard[k].id = ids[j][k]

\* A shard whose row is gone is passed over, with the probe it paid for.
JobGet(j, k) ==
  /\ jpc[j] = "saving" /\ Turn(j, k)
  /\ IF SameRow(j, k)
       THEN jpc' = [jpc EXCEPT ![j] = "uploading"] /\ UNCHANGED todo
       ELSE todo' = [todo EXCEPT ![j] = @ \ {k}] /\ UNCHANGED jpc
  /\ UNCHANGED <<shard, runVars, passVars, candidates, chosen, ids, outcome, opened, saved,
                 envVars, nextId>>

\* The envelope is stored and the row written: locked until the commit.
JobFlush(j, k) ==
  /\ jpc[j] = "uploading" /\ Turn(j, k) /\ SameRow(j, k)
  /\ saved' = [saved EXCEPT ![j] = @ \cup {k}]
  /\ todo' = [todo EXCEPT ![j] = @ \ {k}]
  /\ jpc' = [jpc EXCEPT ![j] = "saving"]
  /\ UNCHANGED <<shard, runVars, passVars, candidates, chosen, ids, outcome, opened,
                 envVars, nextId>>

\* The row was deleted under the UPDATE: everything rolls back.
JobLosesRow(j, k) ==
  /\ jpc[j] = "uploading" /\ Turn(j, k) /\ ~SameRow(j, k)
  /\ saved' = [saved EXCEPT ![j] = {}]
  /\ jpc' = [jpc EXCEPT ![j] = "crashed"]
  /\ UNCHANGED <<shard, runVars, passVars, candidates, chosen, ids, outcome, opened, todo,
                 envVars, nextId>>

JobFlagsCrash(j) ==
  /\ jpc[j] = "crashed"
  /\ counts' = [counts EXCEPT !.crashed = TRUE]
  /\ jpc' = [jpc EXCEPT ![j] = "dead"]
  /\ UNCHANGED <<shard, cost, passVars, candidates, chosen, ids, outcome, opened, todo,
                 saved, envVars, nextId>>

\* Mutant: a probe that failed resolves its shard as absent.
Mutant_Probed(k, o) ==
  [shard[k] EXCEPT !.source = "reprobed", !.status = IF o = "error" THEN o ELSE "ok",
     !.seen = IF o \in Presence THEN o ELSE "absent",
     !.priority = ShardPriority(IF o \in Presence THEN o ELSE "absent")]

\* What the job writes on a shard's row.
Probed(k, o) ==
  CASE o = "withheld" -> [shard[k] EXCEPT !.status = "withheld_cap"]
    [] o = "error"    -> [shard[k] EXCEPT !.status = "error"]
    [] o \in Presence -> [shard[k] EXCEPT !.status = "ok", !.source = "reprobed",
                                          !.seen = o, !.priority = ShardPriority(o)]

\* What the probes of S cost, as the number of units.
ProbeCost(S) == Cardinality(UNION {{k} \X (1..Price[ProbeSurface(k)]) : k \in S})

\* One commit: the rows, the counts merged into those loaded, and the spend.
JobCommit(j) ==
  LET ok == {k \in saved[j] : outcome[j][k] \in Presence}
      spent == ProbeCost(ok) IN
  /\ jpc[j] = "saving" /\ todo[j] = {}
  /\ shard' = [k \in Keys |->
       IF k \in saved[j] THEN Probed(k, outcome[j][k]) ELSE shard[k]]
  /\ counts' = [opened[j].counts EXCEPT !.reprobed = Cardinality(ok)]
  /\ cost' = IF spent = 0 THEN cost ELSE opened[j].cost + spent
  /\ saved' = [saved EXCEPT ![j] = {}]
  /\ jpc' = [jpc EXCEPT ![j] = "done"]
  /\ UNCHANGED <<passVars, candidates, chosen, ids, outcome, opened, todo, envVars,
                 nextId>>

-----------------------------------------------------------------------------
(* The environment                                                           *)

\* SIGKILL: RQ does not start the job again.
KillJob(j) ==
  /\ kills < MaxKills /\ jpc[j] \in {"asking", "opening", "saving", "uploading", "crashed"}
  /\ kills' = kills + 1
  /\ saved' = [saved EXCEPT ![j] = {}]
  /\ jpc' = [jpc EXCEPT ![j] = "dead"]
  /\ UNCHANGED <<shard, runVars, passVars, candidates, chosen, ids, outcome, opened, todo,
                 branded, fresh, edits, nextId>>

\* A user flags a prompt as branded, or unflags it.
EditBranded(P) ==
  /\ edits < MaxEdits
  /\ edits' = edits + 1
  /\ branded' = (branded \ {P}) \cup ({P} \ branded)
  /\ UNCHANGED <<shard, runVars, passVars, jobVars, fresh, kills, nextId>>

\* An earlier run's probe grows older than the TTL.
ProbeExpires(k) ==
  /\ k \in fresh
  /\ fresh' = fresh \ {k}
  /\ UNCHANGED <<shard, runVars, passVars, jobVars, branded, edits, kills, nextId>>

PassStep(p) ==
  \/ PassLoad(p) \/ HarvestRead(p) \/ HarvestCommit(p) \/ PassFails(p) \/ PassCounts(p)
  \/ Kind[p] = "finalize" /\ (TailEnqueue(p) \/ TailStamp(p))
  \/ \E n \in 0..MaxCalls : PassExtract(p, n)

JobStep(j) ==
  \/ JobSelect(j) \/ JobOpen(j) \/ JobFlagsCrash(j) \/ JobCommit(j)
  \/ \E k \in Keys : JobGet(j, k) \/ JobFlush(j, k) \/ JobLosesRow(j, k)
  \/ \E answers \in [chosen[j] -> Outcomes] : JobAsk(j, answers)

Next ==
  \/ \E p \in Passes : PassStep(p)
  \/ \E j \in Jobs : JobStep(j) \/ KillJob(j)
  \/ \E P \in Parents : EditBranded(P)
  \/ \E k \in fresh : ProbeExpires(k)

Spec == Init /\ [][Next]_vars

-----------------------------------------------------------------------------
(* Properties                                                                *)

TypeOK ==
  /\ shard \in [Keys -> Rows \cup {NoRow}]
  /\ counts \in Counts /\ cost \in Nat /\ nextId \in Nat
  /\ branded \subseteq Parents /\ fresh \subseteq Keys
  /\ ppc \in [Passes -> {"idle", "extracting", "reading", "harvested", "counting", "tail",
                          "stamping", "done"}]
  /\ jpc \in [Jobs -> {"idle", "queued", "asking", "opening", "saving", "uploading",
                        "crashed", "done", "dead"}]
  /\ \A j \in Jobs : saved[j] \subseteq chosen[j] /\ todo[j] \subseteq chosen[j]
  /\ \A j \in Jobs, k \in Keys : outcome[j][k] \in Outcomes \cup {"none"}

\* Presence is claimed only of a shard that was itself asked, in this run or
\* freshly in an earlier one, and its priority is the one that presence has:
\* no failed probe, drop or interleaved harvest leaves another claim.
ClaimsAreProbed ==
  \A k \in Keys : shard[k] # NoRow =>
    LET r == shard[k]
        answers == {outcome[j][k] : j \in Jobs} \cup
                     (IF k \in PriorKeys THEN {PriorPresence[k]} ELSE {}) IN
    /\ r.priority = ShardPriority(r.seen)
    /\ r.seen = "unknown" <=> r.source = "unresolved"
    /\ r.source = "reprobed" => r.seen \in answers

\* The shards as the pages show them: well formed, and claiming no more than
\* was probed.
ClaimsTrue == TypeOK /\ ClaimsAreProbed

\* What was measured stays measured while its row exists: a processing pass
\* that read the row before the probe was saved does not undo it.
MeasuredStays ==
  [][\A k \in Keys :
       NoRow \notin {shard[k], shard'[k]} /\ shard[k].source = "reprobed"
         /\ shard'[k].id = shard[k].id
       => shard'[k] = shard[k]]_vars

\* A shard of a finished job that was left out carries the reason, and the
\* reason is true: as many better shards of its prompt were in as the plan
\* allows, or as many better shards overall, or the cap withheld it.
NoSilentDrop ==
  \A j \in Jobs, k \in Keys : jpc[j] = "done" /\ k \in candidates[j] /\ SameRow(j, k) =>
    LET better == {l \in candidates[j] : Rank[l] < Rank[k]}
        rivals == {l \in better : ParentOf[l] = ParentOf[k]}
        ahead(l) == {m \in candidates[j] : ParentOf[m] = ParentOf[l] /\ Rank[m] < Rank[l]}
        within == {l \in better : Cardinality(ahead(l)) < PerPrompt} IN
    /\ shard[k].status # ""
    /\ shard[k].status = "dropped_k" => Cardinality(rivals) >= PerPrompt
    /\ shard[k].status = "dropped_ceiling" =>
         Cardinality(rivals) < PerPrompt /\ Cardinality(within) >= PerRun
    /\ shard[k].status = "withheld_cap" => outcome[j][k] = "withheld"

Answered(j) == {k \in chosen[j] : outcome[j][k] \in Presence}

\* The probes of a job that finished are booked on the run, so that the
\* monthly cap sees them (the comment at the end of the job). The code loses
\* them to a pass that loaded the run row before and commits after, and when
\* a shard was deleted meanwhile.
ProbeSpendBooked ==
  \A j \in Jobs : jpc[j] = "done" =>
    cost >= ProbeCost(Answered(j))
=============================================================================
