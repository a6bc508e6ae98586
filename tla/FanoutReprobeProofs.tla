------------------------ MODULE FanoutReprobeProofs ------------------------
(* Theorems of FanoutReprobe for any shards, passes and limits: no           *)
(* interleaving makes a shard claim a presence nobody measured; and beside   *)
(* one re-probe job, what was measured stays and no drop is silent.          *)
EXTENDS FanoutReprobe, FunctionTheorems, FiniteSetTheorems, TLAPS

Probable == {k \in Keys : ProbeSurface(k) # NoSurface}
Steps == {"idle", "queued", "asking", "opening", "saving", "uploading", "crashed", "done", "dead"}
PassSteps == {"idle", "extracting", "reading", "harvested", "counting", "tail", "stamping", "done"}
RunRows == [counts : Counts, cost : Nat]

\* A row's priority is the one its presence has, and an unknown presence is
\* exactly an unresolved row's.
Sound(r) == /\ r.priority = ShardPriority(r.seen)
            /\ (r.seen = "unknown") = (r.source = "unresolved")
SoundTable(f) == f \in [Keys -> Rows \cup {NoRow}] /\ \A k \in Keys : f[k] # NoRow => Sound(f[k])

DataTypes ==
    /\ counts \in Counts /\ cost \in Nat /\ nextId \in Nat
    /\ branded \subseteq Parents /\ fresh \subseteq PriorKeys

PassTypes ==
    /\ ppc \in [Passes -> PassSteps]
    /\ loaded \in [Passes -> RunRows] /\ calls \in [Passes -> Nat]
    /\ DOMAIN found = Passes
    /\ \A p \in Passes : /\ SoundTable(found[p].rows)
                         /\ found[p].keys \subseteq Keys /\ found[p].fresh \subseteq PriorKeys

JobTypes ==
    /\ jpc \in [Jobs -> Steps]
    /\ chosen \in [Jobs -> SUBSET Probable]
    /\ todo \in [Jobs -> SUBSET Keys] /\ saved \in [Jobs -> SUBSET Keys]
    /\ \A j \in Jobs : saved[j] \subseteq chosen[j] /\ todo[j] \subseteq chosen[j]
    /\ outcome \in [Jobs -> [Keys -> Outcomes \cup {"none"}]]
    /\ opened \in [Jobs -> RunRows]

\* A job has answers for what it chose once it asked, and none before; until
\* then it has flushed nothing.
Answers ==
    \A j \in Jobs :
        /\ jpc[j] \in {"idle", "queued", "asking"} =>
             saved[j] = {} /\ \A k \in Keys : outcome[j][k] = "none"
        /\ jpc[j] \in {"opening", "saving", "uploading"} =>
             \A k \in chosen[j] : outcome[j][k] \in Outcomes

\* A row a job has flushed is locked: nobody deletes it.
SavedRows == \A j \in Jobs : \A k \in saved[j] : shard[k] # NoRow

AnswersOf(k) == {outcome[j][k] : j \in Jobs} \cup
                  (IF k \in PriorKeys THEN {PriorPresence[k]} ELSE {})

Measured ==
    \A k \in Keys : shard[k] # NoRow /\ shard[k].source = "reprobed" => shard[k].seen \in AnswersOf(k)

TableInv == SoundTable(shard) /\ SavedRows /\ Measured
ClaimInv == DataTypes /\ PassTypes /\ JobTypes /\ Answers /\ TableInv

USE FanoutAssumption

-----------------------------------------------------------------------------
(* Helpers                                                                   *)

LEMMA BestWithin == \A S, n : Best(S, n) \subseteq S
  BY DEF Best

LEMMA WithinKWithin == \A S : WithinK(S) \subseteq S
  <1> SUFFICES ASSUME NEW S, NEW k \in WithinK(S) PROVE k \in S
    OBVIOUS
  <1>1. PICK p \in Parents : k \in Best({l \in S : ParentOf[l] = p}, PerPrompt)
    BY DEF WithinK
  <1> QED BY <1>1 DEF Best

LEMMA CountIsNat ==
  ASSUME NEW S, S \subseteq Keys
  PROVE  Cardinality(S) \in Nat
  BY FS_Subset, FS_CardinalityType

LEMMA CostIsNat ==
  ASSUME NEW S, S \subseteq Probable
  PROVE  ProbeCost(S) \in Nat
  <1> DEFINE pile(k) == {k} \X (1..Price[ProbeSurface(k)])
             piles == {pile(k) : k \in S}
             g == [k \in S |-> pile(k)]
  <1>1. IsFiniteSet(S)
    BY FS_Subset DEF Probable
  <1>2. ASSUME NEW k \in S PROVE IsFiniteSet(pile(k))
    <2>1. Price[ProbeSurface(k)] \in Nat
      BY DEF Probable, ProbeSurface, Surfaces
    <2> HIDE DEF pile
    <2>2. IsFiniteSet(1..Price[ProbeSurface(k)])
      BY <2>1, FS_Interval
    <2> USE DEF pile
    <2>3. IsFiniteSet({k})
      BY FS_Singleton
    <2> QED BY <2>2, <2>3, FS_Product
  <1> HIDE DEF pile
  <1>3. g \in [S -> piles] /\ \A q \in piles : \E k \in S : g[k] = q
    OBVIOUS
  <1>a. g \in Surjection(S, piles)
    BY <1>3, Fun_IsSurj
  <1>4. IsFiniteSet(piles)
    BY <1>1, <1>a, FS_Surjection
  <1>5. IsFiniteSet(UNION piles)
    BY <1>2, <1>4, FS_UNION
  <1> QED BY <1>5, FS_CardinalityType DEF ProbeCost, pile

\* A step that leaves the rows, the locks and the answers alone.
LEMMA TableKept ==
  ASSUME ClaimInv, UNCHANGED <<shard, saved, outcome>>
  PROVE  TableInv'
  BY DEF ClaimInv, TableInv, SoundTable, Sound, SavedRows, Measured, AnswersOf

LEMMA JobsKept ==
  ASSUME ClaimInv, UNCHANGED <<jpc, chosen, todo, saved, outcome, opened>>
  PROVE  JobTypes' /\ Answers'
  BY DEF ClaimInv, JobTypes, Answers

LEMMA PassesKept ==
  ASSUME ClaimInv, UNCHANGED passVars
  PROVE  PassTypes'
  BY DEF ClaimInv, PassTypes, SoundTable, Sound, passVars

LEMMA ClaimInit == Init => ClaimInv
  <1> SUFFICES ASSUME Init PROVE ClaimInv
    OBVIOUS
  <1> USE DEF Init
  <1>1. NoCounts \in Counts /\ [counts |-> NoCounts, cost |-> 0] \in RunRows
    BY DEF NoCounts, Counts, RunRows
  <1>2. DataTypes
    BY <1>1 DEF DataTypes
  <1>3. PassTypes
    BY <1>1 DEF PassTypes, PassSteps, NothingFound, SoundTable
  <1>4. JobTypes /\ Answers
    BY <1>1 DEF JobTypes, Steps, Answers
  <1>5. TableInv
    BY DEF TableInv, SoundTable, SavedRows, Measured
  <1> QED BY <1>2, <1>3, <1>4, <1>5 DEF ClaimInv

-----------------------------------------------------------------------------
(* Processing passes                                                         *)

LEMMA ReadStep ==
  ASSUME ClaimInv, NEW p \in Passes,
         \/ PassLoad(p) \/ HarvestRead(p) \/ PassFails(p)
         \/ \E n \in 0..MaxCalls : PassExtract(p, n)
  PROVE  ClaimInv'
  <1>1. /\ UNCHANGED <<shard, counts, cost, nextId, branded, fresh>>
        /\ UNCHANGED <<jpc, chosen, todo, saved, outcome, opened>>
    BY DEF PassLoad, HarvestRead, PassFails, PassExtract, runVars, jobVars, envVars
  <1>2. DataTypes'
    BY <1>1 DEF ClaimInv, DataTypes
  <1>3. JobTypes' /\ Answers' /\ TableInv'
    BY <1>1, JobsKept, TableKept
  <1>4. PassTypes'
    <2> USE DEF ClaimInv, PassTypes
    <2>1. CASE PassLoad(p)
      <3>1. [counts |-> counts, cost |-> cost] \in RunRows
        BY DEF DataTypes, RunRows
      <3> QED BY <2>1, <3>1 DEF PassLoad, PassSteps, SoundTable, Sound
    <2>2. CASE HarvestRead(p)
      <3> DEFINE seen == [rows |-> shard, keys |-> Observed, fresh |-> fresh]
      <3>1. /\ ppc' \in [Passes -> PassSteps] /\ UNCHANGED <<loaded, calls>>
            /\ found' = [found EXCEPT ![p] = seen]
        BY <2>2 DEF HarvestRead, PassSteps
      <3>2. SoundTable(seen.rows) /\ seen.keys \subseteq Keys /\ seen.fresh \subseteq PriorKeys
        BY DEF TableInv, DataTypes, Observed
      <3> HIDE DEF seen
      <3>3. DOMAIN found' = Passes
        BY <3>1
      <3>4. ASSUME NEW q \in Passes
            PROVE  /\ SoundTable(found'[q].rows) /\ found'[q].keys \subseteq Keys
                   /\ found'[q].fresh \subseteq PriorKeys
        <4>1. CASE q = p
          BY <3>1, <3>2, <4>1
        <4>2. CASE q # p
          BY <3>1, <4>2
        <4> QED BY <4>1, <4>2
      <3> QED BY <3>1, <3>3, <3>4 DEF SoundTable, Sound
    <2>3. CASE PassFails(p)
      BY <2>3 DEF PassFails, AfterPass, PassSteps, SoundTable, Sound
    <2>4. ASSUME NEW n \in 0..MaxCalls, PassExtract(p, n) PROVE PassTypes'
      BY <2>4 DEF PassExtract, PassSteps, SoundTable, Sound
    <2> QED BY <2>1, <2>2, <2>3, <2>4
  <1> QED BY <1>2, <1>3, <1>4 DEF ClaimInv

LEMMA CountStep ==
  ASSUME ClaimInv, NEW p \in Passes, PassCounts(p) \/ TailEnqueue(p) \/ TailStamp(p)
  PROVE  ClaimInv'
  <1>1. /\ UNCHANGED <<shard, cost, nextId, branded, fresh, found, calls>>
        /\ UNCHANGED <<chosen, todo, saved, outcome, opened>>
    BY DEF PassCounts, TailEnqueue, TailStamp, runVars, jobVars, envVars
  <1>2. [counts |-> counts, cost |-> cost] \in RunRows /\ loaded[p] \in RunRows
    BY DEF ClaimInv, DataTypes, PassTypes, RunRows
  <1>3. counts' \in Counts
    <2>1. CASE PassCounts(p)
      <3>1. Cardinality(found[p].keys) \in Nat
        BY CountIsNat DEF ClaimInv, PassTypes
      <3> QED BY <2>1, <3>1, <1>2 DEF PassCounts, ClaimInv, DataTypes, RunRows, Counts
    <2>2. CASE TailEnqueue(p)
      BY <2>2 DEF TailEnqueue, runVars, ClaimInv, DataTypes
    <2>3. CASE TailStamp(p)
      BY <2>3, <1>2 DEF TailStamp, RunRows, Counts
    <2> QED BY <2>1, <2>2, <2>3
  <1>4. DataTypes'
    BY <1>1, <1>3 DEF ClaimInv, DataTypes
  <1>5. PassTypes'
    <2>1. ppc' \in [Passes -> PassSteps]
      BY DEF PassCounts, TailEnqueue, TailStamp, AfterPass, PassSteps, ClaimInv, PassTypes
    <2>2. loaded' \in [Passes -> RunRows]
      BY <1>2 DEF PassCounts, TailEnqueue, TailStamp, ClaimInv, PassTypes
    <2> QED BY <1>1, <2>1, <2>2 DEF ClaimInv, PassTypes, SoundTable, Sound
  <1>6. JobTypes' /\ Answers'
    <2>1. \/ jpc' = jpc
          \/ \E j \in Jobs : jpc[j] = "idle" /\ jpc' = [jpc EXCEPT ![j] = "queued"]
      BY DEF PassCounts, TailEnqueue, TailStamp, jobVars
    <2>2. jpc' \in [Jobs -> Steps]
      BY <2>1 DEF ClaimInv, JobTypes, Steps
    <2>3. \A j \in Jobs : jpc'[j] = jpc[j] \/ (jpc[j] = "idle" /\ jpc'[j] = "queued")
      BY <2>1 DEF ClaimInv, JobTypes
    <2> QED BY <1>1, <2>2, <2>3 DEF ClaimInv, JobTypes, Answers
  <1> QED BY <1>1, <1>4, <1>5, <1>6, TableKept DEF ClaimInv

LEMMA PriorityKnown ==
  \A seen \in Presence \cup {"unknown"} : ShardPriority(seen) \in {"", "low", "med", "high"}
  BY DEF Presence, ShardPriority

\* The row a harvest adds is well formed and claims only a fresh re-probe.
LEMMA NewRowSound ==
  ASSUME ClaimInv, NEW p \in Passes, NEW k \in Keys
  PROVE  /\ NewRow(p, k) \in Rows /\ Sound(NewRow(p, k)) /\ NewRow(p, k) # NoRow
         /\ NewRow(p, k).source = "reprobed" => NewRow(p, k).seen \in AnswersOf(k)
  <1>1. k \in found[p].fresh => k \in PriorKeys
    BY DEF ClaimInv, PassTypes
  <1>2. nextId \in Nat /\ PriorPresence[k] \in Presence
    BY DEF ClaimInv, DataTypes
  <1>3. CASE k \in found[p].fresh
    <2> DEFINE seen == PriorPresence[k]
               new == [id |-> nextId, seen |-> seen, priority |-> ShardPriority(seen),
                       source |-> "reprobed", status |-> "carried"]
    <2>1. NewRow(p, k) = new
      BY <1>3 DEF NewRow
    <2>2. seen \in Presence /\ seen # "unknown" /\ ShardPriority(seen) \in {"", "low", "med", "high"}
      BY <1>2, PriorityKnown DEF Presence
    <2>3. seen \in AnswersOf(k)
      BY <1>1, <1>3 DEF AnswersOf
    <2> HIDE DEF seen
    <2>4. new \in Rows /\ Sound(new) /\ new # NoRow /\ new.seen \in AnswersOf(k)
      <3>1. new \in Rows
        BY <1>2, <2>2 DEF Rows
      <3>2. Sound(new)
        BY <2>2 DEF Sound
      <3>3. new.seen = seen
        OBVIOUS
      <3> HIDE DEF new
      <3> QED BY <2>3, <3>1, <3>2, <3>3
    <2> HIDE DEF new
    <2> QED BY <2>1, <2>4
  <1>4. CASE k \notin found[p].fresh
    <2> DEFINE prio == ShardPriority("unknown")
               new == [id |-> nextId, seen |-> "unknown", priority |-> prio,
                       source |-> "unresolved", status |-> ""]
    <2>1. NewRow(p, k) = new
      BY <1>4 DEF NewRow
    <2>2. prio \in {"", "low", "med", "high"} /\ prio = ShardPriority("unknown")
      BY PriorityKnown
    <2> HIDE DEF prio
    <2>3. new \in Rows /\ Sound(new) /\ new # NoRow /\ new.source # "reprobed"
      <3>1. new \in Rows
        BY <1>2, <2>2 DEF Rows
      <3>2. Sound(new)
        BY <2>2 DEF Sound
      <3>3. new.source = "unresolved"
        OBVIOUS
      <3> HIDE DEF new
      <3> QED BY <3>1, <3>2, <3>3
    <2> HIDE DEF new
    <2> QED BY <2>1, <2>3
  <1> QED BY <1>3, <1>4

\* A row that stays is left as it is: what was read had its priority already.
LEMMA KeptRowSame ==
  ASSUME ClaimInv, NEW p \in Passes, NEW k \in Keys
  PROVE  KeptRow(p, k) = shard[k]
  BY DEF ClaimInv, PassTypes, SoundTable, Sound, KeptRow

\* What a harvest does to each row.
LEMMA HarvestRows ==
  ASSUME ClaimInv, NEW p \in Passes, HarvestCommit(p), NEW k \in Keys
  PROVE  \/ k \in Dropped(p) /\ shard'[k] = NoRow
         \/ k \notin Dropped(p) /\ shard[k] = NoRow /\ shard'[k] = NewRow(p, k)
         \/ k \notin Dropped(p) /\ shard'[k] = shard[k]
  <1>1. shard'[k] = CASE k \in Dropped(p)                       -> NoRow
                      [] k \in Added(p)                         -> NewRow(p, k)
                      [] k \in found[p].keys \ Added(p)         -> KeptRow(p, k)
                      [] k \notin found[p].keys \cup Dropped(p) -> shard[k]
    BY DEF HarvestCommit
  <1>2. Dropped(p) \cap found[p].keys = {} /\ Added(p) \subseteq found[p].keys
    BY DEF Dropped, Added
  <1>3. k \in Added(p) => shard[k] = NoRow
    BY DEF HarvestCommit, Conflict
  <1>4. CASE k \in Dropped(p)
    BY <1>1, <1>2, <1>4
  <1>5. CASE k \in Added(p)
    BY <1>1, <1>2, <1>3, <1>5
  <1>6. CASE k \in found[p].keys \ Added(p)
    BY <1>1, <1>2, <1>6, KeptRowSame
  <1>7. CASE k \notin found[p].keys \cup Dropped(p)
    BY <1>1, <1>2, <1>7
  <1> QED BY <1>4, <1>5, <1>6, <1>7

LEMMA HarvestStep ==
  ASSUME ClaimInv, NEW p \in Passes, HarvestCommit(p)
  PROVE  ClaimInv'
  <1>1. /\ UNCHANGED <<counts, branded, fresh, loaded, found, calls>>
        /\ UNCHANGED <<jpc, chosen, todo, saved, outcome, opened>>
        /\ Dropped(p) \cap Locked = {} /\ nextId' = nextId + 1
        /\ cost' \in {cost, loaded[p].cost + calls[p]}
        /\ ppc' = [ppc EXCEPT ![p] = "counting"]
    BY DEF HarvestCommit, jobVars, envVars
  <1>2. /\ shard' \in [Keys -> {shard'[k] : k \in Keys}]
        /\ \A k \in Keys :
             \/ k \in Dropped(p) /\ shard'[k] = NoRow
             \/ k \notin Dropped(p) /\ shard[k] = NoRow /\ shard'[k] = NewRow(p, k)
             \/ k \notin Dropped(p) /\ shard'[k] = shard[k]
    <2>1. shard' \in [Keys -> {shard'[k] : k \in Keys}]
      BY DEF HarvestCommit
    <2> QED BY <2>1, HarvestRows
  <1>3. DataTypes'
    BY <1>1 DEF ClaimInv, DataTypes, PassTypes, RunRows
  <1>4. PassTypes'
    BY <1>1 DEF ClaimInv, PassTypes, PassSteps, SoundTable, Sound
  <1>5. SoundTable(shard')
    <2>1. \A k \in Keys : /\ shard'[k] \in Rows \cup {NoRow}
                          /\ shard'[k] # NoRow => Sound(shard'[k])
      BY <1>2, NewRowSound DEF ClaimInv, TableInv, SoundTable
    <2> QED BY <1>2, <2>1 DEF SoundTable
  <1>6. SavedRows'
    <2> SUFFICES ASSUME NEW j \in Jobs, NEW k \in saved[j] PROVE shard'[k] # NoRow
      BY <1>1 DEF SavedRows
    <2>1. k \in Keys /\ k \notin Dropped(p) /\ shard[k] # NoRow
      BY <1>1 DEF Locked, ClaimInv, JobTypes, TableInv, SavedRows
    <2> QED BY <1>2, <2>1
  <1>7. Measured'
    <2> SUFFICES ASSUME NEW k \in Keys, shard'[k] # NoRow, shard'[k].source = "reprobed"
                 PROVE  shard'[k].seen \in AnswersOf(k)
      BY <1>1 DEF Measured, AnswersOf
    <2> QED BY <1>2, NewRowSound DEF ClaimInv, TableInv, Measured
  <1>8. TableInv'
    BY <1>5, <1>6, <1>7 DEF TableInv, SoundTable, Sound
  <1> QED BY <1>1, <1>3, <1>4, <1>8, JobsKept DEF ClaimInv

-----------------------------------------------------------------------------
(* The re-probe job                                                          *)

LEMMA SelectStep ==
  ASSUME ClaimInv, NEW j \in Jobs, JobSelect(j)
  PROVE  ClaimInv'
  <1> DEFINE picked == Select(Unresolved)
             stamped == picked.dropped_k \cup picked.dropped_ceiling
  <1>1. /\ UNCHANGED <<counts, cost, nextId, branded, fresh, saved, outcome, opened>>
        /\ UNCHANGED passVars
        /\ jpc[j] = "queued" /\ jpc' = [jpc EXCEPT ![j] = "asking"]
        /\ chosen' = [chosen EXCEPT ![j] = picked.chosen]
        /\ todo' = [todo EXCEPT ![j] = picked.chosen]
    BY DEF JobSelect, runVars, envVars
  <1>2. /\ picked.chosen \subseteq Unresolved /\ stamped \subseteq Unresolved
        /\ Unresolved \subseteq Probable
    BY BestWithin, WithinKWithin DEF Select, Unresolved, Probable
  <1>3. /\ shard' \in [Keys -> {shard'[k] : k \in Keys}]
        /\ \A k \in Keys :
             \/ shard'[k] = shard[k]
             \/ /\ k \in Unresolved
                /\ \E st \in {"dropped_k", "dropped_ceiling"} :
                     shard'[k] = [shard[k] EXCEPT !.status = st]
    <2>1. shard' \in [Keys -> {shard'[k] : k \in Keys}]
      BY DEF JobSelect
    <2>2. ASSUME NEW k \in Keys
          PROVE  shard'[k] = CASE k \in picked.dropped_k ->
                                    [shard[k] EXCEPT !.status = "dropped_k"]
                               [] k \in picked.dropped_ceiling ->
                                    [shard[k] EXCEPT !.status = "dropped_ceiling"]
                               [] OTHER -> shard[k]
      BY DEF JobSelect
    <2>3. picked.dropped_k \cap picked.dropped_ceiling = {}
      BY DEF Select
    <2> HIDE DEF picked
    <2> QED BY <1>2, <2>1, <2>2, <2>3
  <1> HIDE DEF picked
  <1>4. \A k \in Keys : /\ shard'[k] \in Rows \cup {NoRow}
                        /\ (shard'[k] = NoRow) = (shard[k] = NoRow)
                        /\ shard'[k] # NoRow => /\ shard'[k].seen = shard[k].seen
                                                /\ shard'[k].source = shard[k].source
                                                /\ shard'[k].priority = shard[k].priority
    <2> SUFFICES ASSUME NEW k \in Keys, shard'[k] # shard[k]
                 PROVE  /\ shard'[k] \in Rows /\ shard[k] \in Rows
                        /\ shard'[k].seen = shard[k].seen
                        /\ shard'[k].source = shard[k].source
                        /\ shard'[k].priority = shard[k].priority
      BY DEF ClaimInv, TableInv, SoundTable
    <2>1. shard[k] \in Rows
      BY <1>3 DEF Unresolved, ClaimInv, TableInv, SoundTable
    <2>2. PICK st \in {"dropped_k", "dropped_ceiling"} :
            shard'[k] = [shard[k] EXCEPT !.status = st]
      BY <1>3
    <2> QED BY <2>1, <2>2 DEF Rows
  <1>5. SoundTable(shard')
    BY <1>3, <1>4 DEF ClaimInv, TableInv, SoundTable, Sound
  <1>6. SavedRows' /\ Measured'
    <2>1. SavedRows'
      BY <1>1, <1>4 DEF ClaimInv, TableInv, SavedRows, JobTypes
    <2>2. Measured'
      BY <1>1, <1>4 DEF ClaimInv, TableInv, Measured, AnswersOf
    <2> QED BY <2>1, <2>2
  <1>7. JobTypes'
    <2>1. /\ jpc' \in [Jobs -> Steps] /\ chosen' \in [Jobs -> SUBSET Probable]
          /\ todo' \in [Jobs -> SUBSET Keys]
      BY <1>1, <1>2 DEF ClaimInv, JobTypes, Steps, Probable
    <2>2. saved[j] = {}
      BY <1>1 DEF ClaimInv, Answers
    <2>3. \A i \in Jobs : saved'[i] \subseteq chosen'[i] /\ todo'[i] \subseteq chosen'[i]
      BY <1>1, <2>2 DEF ClaimInv, JobTypes
    <2> QED BY <1>1, <2>1, <2>3 DEF ClaimInv, JobTypes
  <1>8. Answers'
    BY <1>1 DEF ClaimInv, Answers, JobTypes
  <1>9. DataTypes' /\ PassTypes' /\ TableInv'
    BY <1>1, <1>5, <1>6, PassesKept DEF ClaimInv, DataTypes, TableInv, SoundTable, Sound
  <1> QED BY <1>7, <1>8, <1>9 DEF ClaimInv

LEMMA AskStep ==
  ASSUME ClaimInv, NEW j \in Jobs, NEW answers \in [chosen[j] -> Outcomes], JobAsk(j, answers)
  PROVE  ClaimInv'
  <1>1. /\ UNCHANGED <<shard, counts, cost, nextId, branded, fresh>> /\ UNCHANGED passVars
        /\ UNCHANGED <<chosen, todo, saved, opened>>
        /\ jpc[j] = "asking" /\ jpc' = [jpc EXCEPT ![j] = "opening"]
        /\ outcome' = [outcome EXCEPT ![j] =
             [k \in Keys |-> IF k \in chosen[j] THEN answers[k] ELSE "none"]]
    BY DEF JobAsk, runVars, envVars
  <1>2. [k \in Keys |-> IF k \in chosen[j] THEN answers[k] ELSE "none"]
          \in [Keys -> Outcomes \cup {"none"}]
    OBVIOUS
  <1>3. JobTypes'
    BY <1>1, <1>2 DEF ClaimInv, JobTypes, Steps
  <1>4. /\ \A k \in chosen[j] : outcome'[j][k] \in Outcomes
        /\ \A i \in Jobs \ {j} : outcome'[i] = outcome[i] /\ jpc'[i] = jpc[i]
    BY <1>1 DEF ClaimInv, JobTypes, Probable
  <1>5. Answers'
    BY <1>1, <1>4 DEF ClaimInv, Answers, JobTypes
  <1>6. Measured'
    <2> SUFFICES ASSUME NEW k \in Keys, shard[k] # NoRow, shard[k].source = "reprobed"
                 PROVE  shard[k].seen \in AnswersOf(k)'
      BY <1>1 DEF Measured
    <2>1. shard[k].seen \in AnswersOf(k)
      BY DEF ClaimInv, TableInv, Measured
    <2>2. shard[k].seen # "none"
      BY DEF ClaimInv, TableInv, SoundTable, Rows, Presence
    <2>3. outcome[j][k] = "none"
      BY <1>1 DEF ClaimInv, Answers
    <2>4. CASE \E i \in Jobs : shard[k].seen = outcome[i][k]
      <3>1. PICK i \in Jobs : shard[k].seen = outcome[i][k]
        BY <2>4
      <3>2. outcome'[i] = outcome[i]
        BY <1>4, <2>2, <2>3, <3>1
      <3> QED BY <3>1, <3>2 DEF AnswersOf
    <2>5. CASE k \in PriorKeys /\ shard[k].seen = PriorPresence[k]
      BY <2>5 DEF AnswersOf
    <2> QED BY <2>1, <2>4, <2>5 DEF AnswersOf
  <1>7. DataTypes' /\ PassTypes' /\ TableInv'
    BY <1>1, <1>6, PassesKept
       DEF ClaimInv, DataTypes, TableInv, SoundTable, Sound, SavedRows
  <1> QED BY <1>3, <1>5, <1>7 DEF ClaimInv

\* A job opens the run, takes its turns, loses a row, says so, or is killed.
LEMMA JobMoves ==
  ASSUME ClaimInv, NEW j \in Jobs,
         \/ JobOpen(j) \/ JobFlagsCrash(j) \/ KillJob(j)
         \/ \E k \in Keys : JobGet(j, k) \/ JobFlush(j, k) \/ JobLosesRow(j, k)
  PROVE  ClaimInv'
  <1>1. /\ UNCHANGED <<shard, cost, nextId, branded, fresh, chosen, outcome>>
        /\ UNCHANGED passVars
    BY DEF JobOpen, JobFlagsCrash, KillJob, JobGet, JobFlush, JobLosesRow, runVars, envVars
  <1>2. DataTypes'
    BY <1>1 DEF JobOpen, JobFlagsCrash, KillJob, JobGet, JobFlush, JobLosesRow, runVars,
                ClaimInv, DataTypes, Counts
  <1>3. /\ jpc' \in [Jobs -> Steps]
        /\ \A i \in Jobs : jpc'[i] \in {"opening", "saving", "uploading"} =>
                             jpc[i] \in {"opening", "saving", "uploading"}
        /\ \A i \in Jobs : jpc'[i] \in {"idle", "queued", "asking"} => jpc'[i] = jpc[i]
    BY DEF JobOpen, JobFlagsCrash, KillJob, JobGet, JobFlush, JobLosesRow, ClaimInv, JobTypes, Steps
  <1>4. opened' \in [Jobs -> RunRows]
    <2>1. [counts |-> counts, cost |-> cost] \in RunRows
      BY DEF ClaimInv, DataTypes, RunRows
    <2> QED BY <2>1 DEF JobOpen, JobFlagsCrash, KillJob, JobGet, JobFlush, JobLosesRow, ClaimInv,
                JobTypes
  <1>5. /\ saved' \in [Jobs -> SUBSET Keys] /\ todo' \in [Jobs -> SUBSET Keys]
        /\ \A i \in Jobs : /\ saved'[i] \subseteq saved[i] \cup {k \in todo[i] : shard[k] # NoRow}
                           /\ todo'[i] \subseteq todo[i]
                           /\ jpc'[i] \in {"idle", "queued", "asking"} => saved'[i] = saved[i]
    <2>1. CASE JobOpen(j)
      BY <2>1 DEF JobOpen, ClaimInv, JobTypes
    <2>2. CASE JobFlagsCrash(j)
      BY <2>2 DEF JobFlagsCrash, ClaimInv, JobTypes
    <2>3. CASE KillJob(j)
      <3>1. saved' = [saved EXCEPT ![j] = {}] /\ todo' = todo
            /\ jpc' = [jpc EXCEPT ![j] = "dead"]
        BY <2>3 DEF KillJob
      <3> QED BY <3>1 DEF ClaimInv, JobTypes
    <2>4. ASSUME NEW k \in Keys, JobGet(j, k) PROVE <1>5!:
      <3>1. saved' = saved /\ (todo' = todo \/ todo' = [todo EXCEPT ![j] = @ \ {k}])
        BY <2>4 DEF JobGet
      <3>2. /\ todo' \in [Jobs -> SUBSET Keys]
            /\ \A i \in Jobs : todo'[i] \subseteq todo[i]
        <4>1. todo \in [Jobs -> SUBSET Keys]
          BY DEF ClaimInv, JobTypes
        <4>2. CASE todo' = todo
          BY <4>1, <4>2
        <4>3. CASE todo' = [todo EXCEPT ![j] = @ \ {k}]
          BY <4>1, <4>3
        <4> QED BY <3>1, <4>2, <4>3
      <3> QED BY <3>1, <3>2 DEF ClaimInv, JobTypes
    <2>5. ASSUME NEW k \in Keys, JobLosesRow(j, k) PROVE <1>5!:
      <3>1. saved' = [saved EXCEPT ![j] = {}] /\ todo' = todo
            /\ jpc' = [jpc EXCEPT ![j] = "crashed"]
        BY <2>5 DEF JobLosesRow
      <3> QED BY <3>1 DEF ClaimInv, JobTypes
    <2>6. ASSUME NEW k \in Keys, JobFlush(j, k) PROVE <1>5!:
      <3>1. /\ saved' = [saved EXCEPT ![j] = @ \cup {k}]
            /\ todo' = [todo EXCEPT ![j] = @ \ {k}]
            /\ k \in todo[j] /\ shard[k] # NoRow /\ jpc' = [jpc EXCEPT ![j] = "saving"]
        BY <2>6 DEF JobFlush, Turn, SameRow
      <3> QED BY <3>1 DEF ClaimInv, JobTypes
    <2> QED BY <2>1, <2>2, <2>3, <2>4, <2>5, <2>6
  <1>6. JobTypes'
    BY <1>1, <1>3, <1>4, <1>5 DEF ClaimInv, JobTypes
  <1>7. Answers'
    BY <1>1, <1>3, <1>5 DEF ClaimInv, Answers
  <1>8. TableInv'
    BY <1>1, <1>5 DEF ClaimInv, TableInv, SoundTable, Sound, SavedRows, Measured, AnswersOf
  <1> QED BY <1>1, <1>2, <1>6, <1>7, <1>8, PassesKept DEF ClaimInv

\* What the job writes: a measurement, or only the row's status.
LEMMA ProbedSound ==
  ASSUME NEW k \in Keys, shard[k] \in Rows, Sound(shard[k]), NEW o \in Outcomes
  PROVE  /\ Probed(k, o) \in Rows /\ Sound(Probed(k, o))
         /\ \/ Probed(k, o).seen = o
            \/ /\ Probed(k, o).seen = shard[k].seen
               /\ Probed(k, o).source = shard[k].source
  <1>1. CASE o = "withheld"
    <2>1. Probed(k, o) = [shard[k] EXCEPT !.status = "withheld_cap"]
      BY <1>1 DEF Probed, Presence
    <2> QED BY <2>1 DEF Rows, Sound
  <1>2. CASE o = "error"
    <2>1. Probed(k, o) = [shard[k] EXCEPT !.status = "error"]
      BY <1>2 DEF Probed, Presence
    <2> QED BY <2>1 DEF Rows, Sound
  <1>3. CASE o \in Presence
    <2> DEFINE prio == ShardPriority(o)
    <2>1. Probed(k, o) = [shard[k] EXCEPT !.status = "ok", !.source = "reprobed", !.seen = o,
                                          !.priority = prio]
      BY <1>3 DEF Probed, Presence
    <2>2. prio \in {"", "low", "med", "high"} /\ o # "unknown"
      BY <1>3, PriorityKnown DEF Presence
    <2>3. prio = ShardPriority(o)
      OBVIOUS
    <2> HIDE DEF prio
    <2>4. Probed(k, o) \in Rows
      BY <1>3, <2>1, <2>2 DEF Rows
    <2>5. /\ Probed(k, o).seen = o /\ Probed(k, o).source = "reprobed"
          /\ Probed(k, o).priority = prio
      BY <2>1 DEF Rows
    <2> QED BY <2>2, <2>3, <2>4, <2>5 DEF Sound
  <1> QED BY <1>1, <1>2, <1>3 DEF Outcomes

LEMMA CommitStep ==
  ASSUME ClaimInv, NEW j \in Jobs, JobCommit(j)
  PROVE  ClaimInv'
  <1> DEFINE ok == {k \in saved[j] : outcome[j][k] \in Presence}
  <1>1. /\ UNCHANGED <<nextId, branded, fresh, chosen, outcome, opened, todo>>
        /\ UNCHANGED passVars
        /\ jpc[j] = "saving" /\ jpc' = [jpc EXCEPT ![j] = "done"]
        /\ saved' = [saved EXCEPT ![j] = {}]
        /\ counts' = [opened[j].counts EXCEPT !.reprobed = Cardinality(ok)]
        /\ cost' \in {cost, opened[j].cost + ProbeCost(ok)}
        /\ shard' = [k \in Keys |->
             IF k \in saved[j] THEN Probed(k, outcome[j][k]) ELSE shard[k]]
    BY DEF JobCommit, envVars
  <1>2. ok \subseteq Probable /\ ok \subseteq Keys
    BY DEF ClaimInv, JobTypes, Probable
  <1>3. Cardinality(ok) \in Nat /\ ProbeCost(ok) \in Nat
    BY <1>2, CountIsNat, CostIsNat
  <1> HIDE DEF ok
  <1>4. DataTypes'
    <2>1. opened[j].counts \in Counts /\ opened[j].cost \in Nat
      BY DEF ClaimInv, JobTypes, RunRows
    <2>2. counts' \in Counts
      BY <1>1, <1>3, <2>1 DEF Counts
    <2>3. cost' \in Nat
      BY <1>1, <1>3, <2>1 DEF ClaimInv, DataTypes
    <2> QED BY <1>1, <2>2, <2>3 DEF ClaimInv, DataTypes
  <1>5. JobTypes' /\ Answers'
    BY <1>1 DEF ClaimInv, JobTypes, Answers, Steps
  <1>6. ASSUME NEW k \in saved[j]
        PROVE  /\ k \in Keys /\ outcome[j][k] \in Outcomes
               /\ shard[k] \in Rows /\ Sound(shard[k]) /\ shard[k] # NoRow
               /\ shard'[k] = Probed(k, outcome[j][k])
    BY <1>1, <1>6 DEF ClaimInv, JobTypes, Answers, TableInv, SavedRows, SoundTable
  <1>7. \A k \in Keys \ saved[j] : shard'[k] = shard[k]
    BY <1>1
  <1>8. SoundTable(shard')
    <2>1. \A k \in Keys : /\ shard'[k] \in Rows \cup {NoRow}
                          /\ shard'[k] # NoRow => Sound(shard'[k])
      BY <1>6, <1>7, ProbedSound DEF ClaimInv, TableInv, SoundTable
    <2>2. shard' \in [Keys -> {shard'[k] : k \in Keys}]
      BY <1>1
    <2> QED BY <2>1, <2>2 DEF SoundTable
  <1>9. SavedRows'
    <2> SUFFICES ASSUME NEW i \in Jobs, NEW k \in saved'[i] PROVE shard'[k] # NoRow
      BY DEF SavedRows
    <2>1. k \in Keys /\ shard[k] # NoRow
      BY <1>1 DEF ClaimInv, JobTypes, TableInv, SavedRows
    <2>2. CASE k \in saved[j]
      BY <1>6, <2>2, ProbedSound
    <2> QED BY <1>7, <2>1, <2>2
  <1>10. Measured'
    <2> SUFFICES ASSUME NEW k \in Keys, shard'[k] # NoRow, shard'[k].source = "reprobed"
                 PROVE  shard'[k].seen \in AnswersOf(k)
      BY <1>1, ZenonT(30) DEF Measured, AnswersOf
    <2>1. CASE k \notin saved[j]
      BY <1>7, <2>1 DEF ClaimInv, TableInv, Measured
    <2>2. CASE k \in saved[j] /\ shard'[k].seen = outcome[j][k]
      BY <2>2 DEF AnswersOf
    <2>3. CASE /\ k \in saved[j] /\ shard'[k].seen = shard[k].seen
               /\ shard'[k].source = shard[k].source
      BY <1>6, <2>3 DEF ClaimInv, TableInv, Measured
    <2> QED BY <1>6, <2>1, <2>2, <2>3, ProbedSound
  <1> QED BY <1>1, <1>4, <1>5, <1>8, <1>9, <1>10, PassesKept DEF ClaimInv, TableInv, SoundTable, Sound

-----------------------------------------------------------------------------
LEMMA EnvironmentStep ==
  ASSUME ClaimInv,
         \/ \E P \in Parents : EditBranded(P)
         \/ \E k \in fresh : ProbeExpires(k)
         \/ UNCHANGED vars
  PROVE  ClaimInv'
  <1>1. /\ UNCHANGED <<shard, counts, cost, nextId, jpc, chosen, todo, saved, outcome, opened>>
        /\ UNCHANGED passVars
    BY DEF EditBranded, ProbeExpires, vars, runVars, passVars, jobVars
  <1>2. branded' \subseteq Parents /\ fresh' \subseteq PriorKeys
    BY DEF EditBranded, ProbeExpires, vars, envVars, ClaimInv, DataTypes
  <1> QED BY <1>1, <1>2, TableKept, JobsKept, PassesKept DEF ClaimInv, DataTypes

LEMMA ClaimStep == ClaimInv /\ [Next]_vars => ClaimInv'
  <1> SUFFICES ASSUME ClaimInv, [Next]_vars PROVE ClaimInv'
    OBVIOUS
  <1>1. ASSUME NEW p \in Passes, PassStep(p) PROVE ClaimInv'
    BY <1>1, ReadStep, CountStep, HarvestStep DEF PassStep
  <1>2. ASSUME NEW j \in Jobs, JobStep(j) \/ KillJob(j) PROVE ClaimInv'
    BY <1>2, SelectStep, AskStep, JobMoves, CommitStep DEF JobStep
  <1> QED BY <1>1, <1>2, EnvironmentStep DEF Next

LEMMA ClaimsFollow == ClaimInv => ClaimsTrue
  <1> SUFFICES ASSUME ClaimInv PROVE ClaimsTrue
    OBVIOUS
  <1>1. TypeOK
    BY DEF TypeOK, ClaimInv, DataTypes, PassTypes, JobTypes, TableInv, SoundTable, Steps, PassSteps
  <1>2. ClaimsAreProbed
    <2> SUFFICES ASSUME NEW k \in Keys, shard[k] # NoRow
                 PROVE  /\ shard[k].priority = ShardPriority(shard[k].seen)
                        /\ shard[k].seen = "unknown" <=> shard[k].source = "unresolved"
                        /\ shard[k].source = "reprobed" => shard[k].seen \in AnswersOf(k)
      BY DEF ClaimsAreProbed, AnswersOf
    <2>1. Sound(shard[k])
      BY DEF ClaimInv, TableInv, SoundTable
    <2>2. shard[k].source = "reprobed" => shard[k].seen \in AnswersOf(k)
      BY DEF ClaimInv, TableInv, Measured
    <2> QED BY <2>1, <2>2 DEF Sound
  <1> QED BY <1>1, <1>2 DEF ClaimsTrue

\* No interleaving of harvests, probes, edits of the prompts, expiring probes
\* and kills makes a shard claim a presence that was not measured for it
\* (harvest_shards against _persist_probe).
THEOREM ClaimsHold == Spec => []ClaimsTrue
  BY ClaimInit, ClaimStep, ClaimsFollow, PTL DEF Spec

-----------------------------------------------------------------------------
(* One re-probe job in flight: what it ranked, chose and left out stays true *)
(* of the rows it read. A row's id is never used again, so a row that has    *)
(* the id the job noted is the row it ranked.                                *)

Busy == {"asking", "opening", "saving", "uploading"}

IdsUsed ==
  /\ \A k \in Keys : shard[k] # NoRow => shard[k].id < nextId
  /\ ids \in [Jobs -> [Keys -> Nat]] /\ candidates \in [Jobs -> SUBSET Keys]
  /\ \A j \in Jobs : \A k \in Keys : ids[j][k] < nextId

\* The reason a candidate was left out for.
LeftOut(C, k) == IF k \in WithinK(C) THEN "dropped_ceiling" ELSE "dropped_k"

Ranked(j) ==
  jpc[j] \in Busy \cup {"done"} =>
    /\ chosen[j] = Select(candidates[j]).chosen
    /\ \A k \in candidates[j] \ chosen[j] :
         SameRow(j, k) => shard[k].status = LeftOut(candidates[j], k)

InHand(j) ==
  jpc[j] \in Busy =>
    /\ \A k \in chosen[j] : SameRow(j, k) => shard[k].source = "unresolved"
    /\ \A k \in chosen[j] \ (todo[j] \cup saved[j]) : ~SameRow(j, k)
    /\ \A k \in saved[j] : SameRow(j, k)

Written(j) ==
  jpc[j] = "done" =>
    \A k \in chosen[j] : SameRow(j, k) =>
      /\ shard[k].status \in {"ok", "error", "withheld_cap"}
      /\ shard[k].status = "withheld_cap" => outcome[j][k] = "withheld"

ProbeInv == IdsUsed /\ \A j \in Jobs : Ranked(j) /\ InHand(j) /\ Written(j)

\* Steps under which the job keeps what it has and its rows stay.
LEMMA ProbeKept ==
  ASSUME ClaimInv, ProbeInv, IdsUsed', UNCHANGED ids,
         \A j \in Jobs : jpc'[j] \in Busy \cup {"done"} =>
           /\ (jpc[j] \in Busy /\ jpc'[j] \in Busy) \/ jpc'[j] = jpc[j]
           /\ candidates'[j] = candidates[j] /\ chosen'[j] = chosen[j]
           /\ todo'[j] = todo[j] /\ saved'[j] = saved[j]
           /\ jpc'[j] = "done" => outcome'[j] = outcome[j],
         \A j \in Jobs : \A k \in Keys : SameRow(j, k)' => shard'[k] = shard[k],
         \A j \in Jobs : \A k \in saved[j] : shard'[k] = shard[k]
  PROVE  ProbeInv'
  <1> SUFFICES ASSUME NEW j \in Jobs PROVE (Ranked(j) /\ InHand(j) /\ Written(j))'
    BY DEF ProbeInv
  <1>1. CASE jpc'[j] \notin Busy \cup {"done"}
    BY <1>1 DEF Ranked, InHand, Written
  <1>2. CASE jpc'[j] \in Busy \cup {"done"}
    <2>1. /\ candidates'[j] = candidates[j] /\ chosen'[j] = chosen[j]
          /\ todo'[j] = todo[j] /\ saved'[j] = saved[j]
          /\ jpc'[j] = "done" => outcome'[j] = outcome[j] /\ jpc[j] = "done"
          /\ jpc'[j] \in Busy => jpc[j] \in Busy
          /\ jpc[j] \in Busy \cup {"done"}
      BY <1>2 DEF Busy
    <2>2. /\ candidates[j] \subseteq Keys /\ chosen[j] \subseteq Keys /\ saved[j] \subseteq Keys
      BY DEF ClaimInv, JobTypes, ProbeInv, IdsUsed, Probable
    <2>3. \A k \in Keys : SameRow(j, k)' => SameRow(j, k) /\ shard'[k] = shard[k]
      BY DEF SameRow
    <2>4. \A k \in saved[j] : SameRow(j, k)' <=> SameRow(j, k)
      BY DEF SameRow
    <2>5. Ranked(j) /\ InHand(j) /\ Written(j)
      BY DEF ProbeInv
    <2>6. Ranked(j)'
      BY <2>1, <2>2, <2>3, <2>5 DEF Ranked
    <2>7. InHand(j)'
      BY <2>1, <2>2, <2>3, <2>4, <2>5 DEF InHand
    <2>8. Written(j)'
      BY <2>1, <2>2, <2>3, <2>5 DEF Written
    <2> QED BY <2>6, <2>7, <2>8
  <1> QED BY <1>1, <1>2

LEMMA ProbeInit == Init => ProbeInv
  BY DEF Init, ProbeInv, IdsUsed, Ranked, InHand, Written, Busy

\* Steps that leave the table and the job's data alone.
LEMMA ProbeQuiet ==
  ASSUME ClaimInv, ProbeInv,
         \/ \E p \in Passes :
              \/ PassLoad(p) \/ HarvestRead(p) \/ PassFails(p) \/ PassCounts(p)
              \/ TailEnqueue(p) \/ TailStamp(p)
              \/ \E n \in 0..MaxCalls : PassExtract(p, n)
         \/ \E P \in Parents : EditBranded(P)
         \/ \E k \in fresh : ProbeExpires(k)
         \/ UNCHANGED vars
  PROVE  ProbeInv'
  <1>1. UNCHANGED <<shard, nextId, ids, candidates, chosen, todo, saved, outcome>>
    BY DEF PassLoad, HarvestRead, PassFails, PassCounts, TailEnqueue, TailStamp, PassExtract,
           EditBranded, ProbeExpires, vars, jobVars
  <1>2. \/ jpc' = jpc
        \/ \E j \in Jobs : jpc[j] = "idle" /\ jpc' = [jpc EXCEPT ![j] = "queued"]
    BY DEF PassLoad, HarvestRead, PassFails, PassCounts, TailEnqueue, TailStamp, PassExtract,
           EditBranded, ProbeExpires, vars, jobVars
  <1>3. \A j \in Jobs : jpc'[j] \in Busy \cup {"done"} => jpc'[j] = jpc[j]
    BY <1>2 DEF Busy, ClaimInv, JobTypes
  <1>4. IdsUsed'
    BY <1>1 DEF ProbeInv, IdsUsed
  <1> QED BY <1>1, <1>3, <1>4, ProbeKept

LEMMA ProbeHarvest ==
  ASSUME ClaimInv, ProbeInv, NEW p \in Passes, HarvestCommit(p)
  PROVE  ProbeInv'
  <1>1. /\ UNCHANGED <<jpc, ids, candidates, chosen, todo, saved, outcome>>
        /\ Dropped(p) \cap Locked = {} /\ nextId' = nextId + 1
    BY DEF HarvestCommit, jobVars, envVars
  <1>2. nextId \in Nat
    BY DEF ClaimInv, DataTypes
  <1>3. ASSUME NEW k \in Keys
        PROVE  \/ k \in Dropped(p) /\ shard'[k] = NoRow
               \/ k \notin Dropped(p) /\ shard[k] = NoRow /\ shard'[k] = NewRow(p, k)
               \/ k \notin Dropped(p) /\ shard'[k] = shard[k]
    BY <1>3, HarvestRows
  <1>4. \A k \in Keys : NewRow(p, k).id = nextId
    BY DEF NewRow
  <1>5. \A j \in Jobs : \A k \in Keys : SameRow(j, k)' => shard'[k] = shard[k]
    <2> SUFFICES ASSUME NEW j \in Jobs, NEW k \in Keys, SameRow(j, k)' PROVE shard'[k] = shard[k]
      OBVIOUS
    <2>1. shard'[k] # NoRow /\ shard'[k].id = ids[j][k]
      BY <1>1 DEF SameRow
    <2>2. ids[j][k] \in Nat /\ ids[j][k] < nextId
      BY DEF ProbeInv, IdsUsed
    <2> QED BY <1>2, <1>3, <1>4, <2>1, <2>2
  <1>6. \A j \in Jobs : \A k \in saved[j] : shard'[k] = shard[k]
    <2> SUFFICES ASSUME NEW j \in Jobs, NEW k \in saved[j] PROVE shard'[k] = shard[k]
      OBVIOUS
    <2>1. k \in Keys /\ k \notin Dropped(p) /\ shard[k] # NoRow
      BY <1>1 DEF Locked, ClaimInv, JobTypes, TableInv, SavedRows
    <2> QED BY <1>3, <2>1
  <1>7. IdsUsed'
    <2>1. ASSUME NEW k \in Keys, shard'[k] # NoRow PROVE shard'[k].id < nextId + 1
      <3>1. CASE shard'[k] = shard[k]
        <4>1. shard[k].id \in Nat /\ shard[k].id < nextId
          BY <2>1, <3>1 DEF ProbeInv, IdsUsed, ClaimInv, TableInv, SoundTable, Rows
        <4> QED BY <1>2, <3>1, <4>1
      <3>2. CASE shard'[k] = NewRow(p, k)
        BY <1>2, <1>4, <3>2
      <3> QED BY <1>3, <2>1, <3>1, <3>2
    <2>2. \A j \in Jobs : \A k \in Keys : ids[j][k] \in Nat /\ ids[j][k] < nextId + 1
      BY <1>2 DEF ProbeInv, IdsUsed
    <2> QED BY <1>1, <2>1, <2>2 DEF ProbeInv, IdsUsed
  <1> QED BY <1>1, <1>5, <1>6, <1>7, ProbeKept

LEMMA ProbeMoves ==
  ASSUME ClaimInv, ProbeInv, NEW j \in Jobs,
         \/ \E answers \in [chosen[j] -> Outcomes] : JobAsk(j, answers)
         \/ JobOpen(j) \/ JobFlagsCrash(j) \/ KillJob(j)
         \/ \E k \in Keys : JobLosesRow(j, k)
  PROVE  ProbeInv'
  <1>1. UNCHANGED <<shard, nextId, ids, candidates, chosen, todo>>
    BY DEF JobAsk, JobOpen, JobFlagsCrash, KillJob, JobLosesRow
  <1>2. /\ outcome' = outcome \/ jpc'[j] = "opening"
        /\ saved' = saved \/ (saved' = [saved EXCEPT ![j] = {}] /\ jpc'[j] \in {"crashed", "dead"})
        /\ \A i \in Jobs \ {j} : jpc'[i] = jpc[i] /\ outcome'[i] = outcome[i] /\ saved'[i] = saved[i]
        /\ jpc'[j] \in Busy \cup {"done"} => jpc[j] \in Busy /\ jpc'[j] \in Busy
    BY DEF JobAsk, JobOpen, JobFlagsCrash, KillJob, JobLosesRow, Busy, ClaimInv, JobTypes
  <1>3. IdsUsed'
    BY <1>1 DEF ProbeInv, IdsUsed
  <1>4. \A i \in Jobs : jpc'[i] \in Busy \cup {"done"} =>
          /\ (jpc[i] \in Busy /\ jpc'[i] \in Busy) \/ jpc'[i] = jpc[i]
          /\ saved'[i] = saved[i] /\ (jpc'[i] = "done" => outcome'[i] = outcome[i])
    BY <1>2 DEF Busy
  <1> QED BY <1>1, <1>3, <1>4, ProbeKept

\* The job ranks the unresolved shards and notes the rows it saw.
LEMMA ProbeSelect ==
  ASSUME ClaimInv, ProbeInv, NEW j \in Jobs, \A i \in Jobs : i = j, JobSelect(j)
  PROVE  ProbeInv'
  <1> DEFINE picked == Select(Unresolved)
  <1>1. /\ jpc' = [jpc EXCEPT ![j] = "asking"]
        /\ candidates' = [candidates EXCEPT ![j] = Unresolved]
        /\ chosen' = [chosen EXCEPT ![j] = picked.chosen]
        /\ todo' = [todo EXCEPT ![j] = picked.chosen]
        /\ ids' = [ids EXCEPT ![j] = [k \in Keys |-> IF shard[k] = NoRow THEN 0 ELSE shard[k].id]]
        /\ UNCHANGED <<saved, outcome, nextId>>
        /\ \A k \in Keys : shard'[k] = CASE k \in picked.dropped_k ->
                                              [shard[k] EXCEPT !.status = "dropped_k"]
                                         [] k \in picked.dropped_ceiling ->
                                              [shard[k] EXCEPT !.status = "dropped_ceiling"]
                                         [] OTHER -> shard[k]
    BY DEF JobSelect
  <1>2. /\ picked.chosen \subseteq Unresolved /\ Unresolved \subseteq Keys
        /\ \A k \in Unresolved \ picked.chosen :
             \/ k \in picked.dropped_k /\ k \notin WithinK(Unresolved)
             \/ k \in picked.dropped_ceiling /\ k \in WithinK(Unresolved)
        /\ picked.dropped_k \subseteq Unresolved /\ picked.dropped_ceiling \subseteq Unresolved
        /\ picked.dropped_k \cap WithinK(Unresolved) = {}
        /\ picked.dropped_ceiling \subseteq WithinK(Unresolved)
        /\ picked.chosen \cap picked.dropped_k = {} /\ picked.chosen \cap picked.dropped_ceiling = {}
    BY BestWithin, WithinKWithin DEF Select, Unresolved
  <1> HIDE DEF picked
  <1>3. \A k \in Unresolved : shard[k] # NoRow /\ shard[k] \in Rows /\ shard[k].source = "unresolved"
    BY DEF Unresolved, ClaimInv, TableInv, SoundTable
  <1>4. \A k \in Keys :
          \/ /\ k \in Unresolved
             /\ \E st \in {"dropped_k", "dropped_ceiling"} :
                  shard'[k] = [shard[k] EXCEPT !.status = st]
          \/ shard'[k] = shard[k]
    <2> SUFFICES ASSUME NEW k \in Keys
                 PROVE  \/ /\ k \in Unresolved
                           /\ \/ shard'[k] = [shard[k] EXCEPT !.status = "dropped_k"]
                              \/ shard'[k] = [shard[k] EXCEPT !.status = "dropped_ceiling"]
                        \/ shard'[k] = shard[k]
      OBVIOUS
    <2>1. CASE k \in picked.dropped_k
      BY <1>1, <1>2, <2>1
    <2>2. CASE k \in picked.dropped_ceiling
      BY <1>1, <1>2, <2>2
    <2>3. CASE k \notin picked.dropped_k \cup picked.dropped_ceiling
      BY <1>1, <2>3
    <2> QED BY <2>1, <2>2, <2>3
  <1>5. \A k \in Keys : /\ (shard'[k] = NoRow) <=> (shard[k] = NoRow)
                        /\ shard[k] # NoRow => shard'[k].id = shard[k].id
    <2> SUFFICES ASSUME NEW k \in Keys, shard'[k] # shard[k]
                 PROVE  /\ shard'[k] # NoRow /\ shard[k] # NoRow
                        /\ shard'[k].id = shard[k].id
      OBVIOUS
    <2>1. k \in Unresolved /\ shard[k] \in Rows /\ shard[k] # NoRow
      BY <1>3, <1>4
    <2>2. PICK st \in {"dropped_k", "dropped_ceiling"} : shard'[k] = [shard[k] EXCEPT !.status = st]
      BY <1>4
    <2>3. shard'[k] \in Rows /\ shard'[k].id = shard[k].id
      BY <2>1, <2>2 DEF Rows
    <2> QED BY <2>1, <2>3
  <1>6. IdsUsed'
    <2>1. [k \in Keys |-> IF shard[k] = NoRow THEN 0 ELSE shard[k].id] \in [Keys -> Nat]
      BY DEF ClaimInv, TableInv, SoundTable, Rows
    <2>2. ids' \in [Jobs -> [Keys -> Nat]] /\ candidates' \in [Jobs -> SUBSET Keys]
      BY <1>1, <1>2, <2>1 DEF ProbeInv, IdsUsed
    <2>3. \A k \in Keys : 0 < nextId
      BY DEF ProbeInv, IdsUsed, ClaimInv, DataTypes
    <2>4. \A i \in Jobs : \A k \in Keys : ids'[i][k] < nextId'
      BY <1>1, <2>3 DEF ProbeInv, IdsUsed
    <2>5. \A k \in Keys : shard'[k] # NoRow => shard'[k].id < nextId'
      BY <1>1, <1>5 DEF ProbeInv, IdsUsed
    <2> QED BY <2>2, <2>4, <2>5 DEF IdsUsed
  <1>7. /\ jpc'[j] = "asking" /\ candidates'[j] = Unresolved /\ chosen'[j] = picked.chosen
        /\ todo'[j] = picked.chosen /\ saved'[j] = {}
    BY <1>1 DEF ClaimInv, JobTypes, Answers, JobSelect, ProbeInv, IdsUsed
  <1>8. Ranked(j)'
    <2>1. chosen'[j] = Select(candidates'[j]).chosen
      BY <1>7 DEF picked
    <2>2. ASSUME NEW k \in Unresolved \ picked.chosen
          PROVE  shard'[k].status = LeftOut(Unresolved, k)
      <3>1. k \in Keys /\ shard[k] \in Rows
        BY <1>2, <1>3
      <3>2. CASE k \notin WithinK(Unresolved)
        <4>1. shard'[k] = [shard[k] EXCEPT !.status = "dropped_k"]
          BY <1>1, <1>2, <3>1, <3>2
        <4> QED BY <3>1, <3>2, <4>1 DEF Rows, LeftOut
      <3>3. CASE k \in WithinK(Unresolved)
        <4>1. shard'[k] = [shard[k] EXCEPT !.status = "dropped_ceiling"]
          BY <1>1, <1>2, <3>1, <3>3
        <4> QED BY <3>1, <3>3, <4>1 DEF Rows, LeftOut
      <3> QED BY <3>2, <3>3
    <2> QED BY <1>7, <2>1, <2>2 DEF Ranked, LeftOut
  <1>9. InHand(j)'
    <2>1. ASSUME NEW k \in picked.chosen PROVE shard'[k].source = "unresolved"
      <3>1. k \in Keys /\ shard'[k] = shard[k] /\ shard[k].source = "unresolved"
        BY <1>1, <1>2, <1>3
      <3> QED BY <3>1
    <2> QED BY <1>7, <2>1 DEF InHand
  <1>10. Written(j)'
    BY <1>7 DEF Written
  <1> QED BY <1>6, <1>8, <1>9, <1>10 DEF ProbeInv

\* The job passes over a shard whose row is gone, or locks the row.
LEMMA ProbeTurns ==
  ASSUME ClaimInv, ProbeInv, NEW j \in Jobs, \A i \in Jobs : i = j,
         NEW k \in Keys, JobGet(j, k) \/ JobFlush(j, k)
  PROVE  ProbeInv'
  <1>1. /\ UNCHANGED <<shard, nextId, ids, candidates, chosen, outcome>>
        /\ jpc[j] \in Busy /\ jpc'[j] \in Busy
    BY DEF JobGet, JobFlush, Busy, ClaimInv, JobTypes
  <1>2. \/ todo'[j] = todo[j] /\ saved'[j] = saved[j]
        \/ todo'[j] = todo[j] \ {k} /\ saved'[j] = saved[j] /\ ~SameRow(j, k)
        \/ todo'[j] = todo[j] \ {k} /\ saved'[j] = saved[j] \cup {k} /\ SameRow(j, k)
    BY DEF JobGet, JobFlush, ClaimInv, JobTypes
  <1>3. IdsUsed'
    BY <1>1 DEF ProbeInv, IdsUsed
  <1>4. \A l : SameRow(j, l)' <=> SameRow(j, l)
    BY <1>1 DEF SameRow
  <1>5. Ranked(j) /\ InHand(j)
    BY DEF ProbeInv
  <1>6. Ranked(j)'
    BY <1>1, <1>4, <1>5 DEF Ranked
  <1>7. InHand(j)'
    BY <1>1, <1>2, <1>4, <1>5 DEF InHand
  <1>8. Written(j)'
    BY <1>1 DEF Written, Busy
  <1> QED BY <1>3, <1>6, <1>7, <1>8 DEF ProbeInv

\* What a save writes on a row it still holds.
LEMMA ProbedRow ==
  ASSUME NEW k \in Keys, shard[k] \in Rows, NEW o \in Outcomes
  PROVE  /\ Probed(k, o).id = shard[k].id
         /\ Probed(k, o).status \in {"ok", "error", "withheld_cap"}
         /\ Probed(k, o).status = "withheld_cap" => o = "withheld"
  <1>1. CASE o = "withheld"
    <2>1. Probed(k, o) = [shard[k] EXCEPT !.status = "withheld_cap"]
      BY <1>1 DEF Probed, Presence
    <2> QED BY <1>1, <2>1 DEF Rows
  <1>2. CASE o = "error"
    <2>1. Probed(k, o) = [shard[k] EXCEPT !.status = "error"]
      BY <1>2 DEF Probed, Presence
    <2> QED BY <2>1 DEF Rows
  <1>3. CASE o \in Presence
    <2>1. Probed(k, o) = [shard[k] EXCEPT !.status = "ok", !.source = "reprobed", !.seen = o,
                                          !.priority = ShardPriority(o)]
      BY <1>3 DEF Probed, Presence
    <2> QED BY <2>1 DEF Rows
  <1> QED BY <1>1, <1>2, <1>3 DEF Outcomes

LEMMA ProbeCommit ==
  ASSUME ClaimInv, ProbeInv, NEW j \in Jobs, \A i \in Jobs : i = j, JobCommit(j)
  PROVE  ProbeInv'
  <1>1. /\ UNCHANGED <<nextId, ids, candidates, chosen, outcome, todo>>
        /\ jpc[j] = "saving" /\ todo[j] = {} /\ jpc'[j] = "done"
        /\ \A k \in saved[j] : k \in Keys => shard'[k] = Probed(k, outcome[j][k])
        /\ \A k \in Keys \ saved[j] : shard'[k] = shard[k]
    BY DEF JobCommit, ClaimInv, JobTypes
  <1>2. /\ saved[j] \subseteq chosen[j] /\ chosen[j] \subseteq Keys /\ candidates[j] \subseteq Keys
        /\ \A k \in saved[j] : outcome[j][k] \in Outcomes /\ shard[k] \in Rows /\ shard[k] # NoRow
    BY <1>1 DEF ClaimInv, JobTypes, Probable, ProbeInv, IdsUsed, Answers, TableInv, SoundTable, SavedRows
  <1>3. Ranked(j) /\ InHand(j)
    BY DEF ProbeInv
  <1>4. ASSUME NEW k \in saved[j]
        PROVE  /\ shard'[k].id = shard[k].id
               /\ shard'[k].status \in {"ok", "error", "withheld_cap"}
               /\ shard'[k].status = "withheld_cap" => outcome[j][k] = "withheld"
    BY <1>1, <1>2, ProbedRow
  <1>5. IdsUsed'
    <2>1. ASSUME NEW k \in Keys, shard'[k] # NoRow PROVE shard'[k].id < nextId
      BY <1>1, <1>2, <1>4, <2>1 DEF ProbeInv, IdsUsed
    <2> QED BY <1>1, <2>1 DEF ProbeInv, IdsUsed
  <1>6. Ranked(j)'
    <2>1. ASSUME NEW k \in candidates[j] \ chosen[j], SameRow(j, k)'
          PROVE  shard'[k].status = LeftOut(candidates[j], k)
      <3>1. k \in Keys /\ k \notin saved[j] /\ shard'[k] = shard[k]
        BY <1>1, <1>2
      <3>2. SameRow(j, k)
        BY <1>1, <2>1, <3>1 DEF SameRow
      <3> QED BY <1>1, <1>3, <3>1, <3>2 DEF Ranked, Busy
    <2> QED BY <1>1, <1>3, <2>1 DEF Ranked, Busy
  <1>7. InHand(j)'
    BY <1>1 DEF InHand, Busy
  <1>8. Written(j)'
    <2> SUFFICES ASSUME NEW k \in chosen[j], SameRow(j, k)'
                 PROVE  /\ shard'[k].status \in {"ok", "error", "withheld_cap"}
                        /\ shard'[k].status = "withheld_cap" => outcome[j][k] = "withheld"
      BY <1>1 DEF Written
    <2>1. k \in saved[j]
      <3> SUFFICES ASSUME k \notin saved[j] PROVE FALSE
        OBVIOUS
      <3>1. shard'[k] = shard[k]
        BY <1>1, <1>2
      <3>2. SameRow(j, k)
        BY <1>1, <3>1 DEF SameRow
      <3> QED BY <1>1, <1>3, <3>2 DEF InHand, Busy
    <2> QED BY <1>4, <2>1
  <1> QED BY <1>5, <1>6, <1>7, <1>8 DEF ProbeInv

OneJob == \A i, j \in Jobs : i = j

LEMMA ProbeStep ==
  ASSUME OneJob, ClaimInv, ProbeInv, [Next]_vars
  PROVE  ProbeInv'
  <1>1. ASSUME NEW p \in Passes, PassStep(p) PROVE ProbeInv'
    BY <1>1, ProbeQuiet, ProbeHarvest DEF PassStep
  <1>2. ASSUME NEW j \in Jobs, JobStep(j) \/ KillJob(j) PROVE ProbeInv'
    <2>1. \A i \in Jobs : i = j
      BY DEF OneJob
    <2> QED BY <1>2, <2>1, ProbeMoves, ProbeSelect, ProbeTurns, ProbeCommit DEF JobStep
  <1> QED BY <1>1, <1>2, ProbeQuiet DEF Next

-----------------------------------------------------------------------------
\* A measured row changes only by ceasing to be that row.
LEMMA MeasuredStep ==
  ASSUME OneJob, ClaimInv, ProbeInv, Next, NEW k \in Keys,
         NoRow \notin {shard[k], shard'[k]}, shard[k].source = "reprobed",
         shard'[k].id = shard[k].id
  PROVE  shard'[k] = shard[k]
  <1>1. ASSUME NEW p \in Passes, HarvestCommit(p) PROVE shard'[k] = shard[k]
    BY <1>1, HarvestRows
  <1>2. ASSUME NEW j \in Jobs, JobSelect(j) PROVE shard'[k] = shard[k]
    <2> DEFINE picked == Select(Unresolved)
    <2>1. k \notin Unresolved
      BY DEF Unresolved
    <2>2. picked.dropped_k \subseteq Unresolved /\ picked.dropped_ceiling \subseteq Unresolved
      BY WithinKWithin DEF Select
    <2>3. shard'[k] = CASE k \in picked.dropped_k -> [shard[k] EXCEPT !.status = "dropped_k"]
                        [] k \in picked.dropped_ceiling ->
                              [shard[k] EXCEPT !.status = "dropped_ceiling"]
                        [] OTHER -> shard[k]
      BY <1>2 DEF JobSelect
    <2> HIDE DEF picked
    <2> QED BY <2>1, <2>2, <2>3
  <1>3. ASSUME NEW j \in Jobs, JobCommit(j) PROVE shard'[k] = shard[k]
    <2>1. k \notin saved[j]
      <3>1. jpc[j] \in Busy /\ InHand(j) /\ saved[j] \subseteq chosen[j]
        BY <1>3 DEF JobCommit, Busy, ProbeInv, ClaimInv, JobTypes
      <3> QED BY <3>1 DEF InHand
    <2> QED BY <1>3, <2>1 DEF JobCommit
  <1>4. \/ \E p \in Passes : HarvestCommit(p)
        \/ \E j \in Jobs : JobSelect(j) \/ JobCommit(j)
        \/ shard' = shard
    BY DEF Next, PassStep, JobStep, PassLoad, HarvestRead, PassFails, PassCounts, TailEnqueue,
           TailStamp, PassExtract, JobOpen, JobFlagsCrash, JobGet, JobFlush, JobLosesRow, JobAsk,
           KillJob, EditBranded, ProbeExpires
  <1> QED BY <1>1, <1>2, <1>3, <1>4

\* For any shards, ranks, limits and passes beside a run's one re-probe job:
\* what was measured stays measured while its row exists, whatever a pass that
\* read the row before commits after (the ORM writes only what changed).
THEOREM MeasuredHolds ==
  ASSUME OneJob
  PROVE  Spec => MeasuredStays
  <1>1. ClaimInv /\ ProbeInv /\ [Next]_vars => (ClaimInv /\ ProbeInv)'
    BY ClaimStep, ProbeStep
  <1>2. ClaimInv /\ ProbeInv /\ [Next]_vars =>
          [\A k \in Keys :
             NoRow \notin {shard[k], shard'[k]} /\ shard[k].source = "reprobed"
               /\ shard'[k].id = shard[k].id
             => shard'[k] = shard[k]]_vars
    BY MeasuredStep
  <1> QED BY ClaimInit, ProbeInit, <1>1, <1>2, PTL DEF Spec, MeasuredStays

-----------------------------------------------------------------------------
\* Who is within a prompt's quota, counted among the candidates.
LEMMA WithinKIs ==
  ASSUME NEW C \in SUBSET Keys, NEW k \in C
  PROVE  k \in WithinK(C) <=>
           Cardinality({m \in C : ParentOf[m] = ParentOf[k] /\ Rank[m] < Rank[k]}) < PerPrompt
  <1>1. \A p : p = ParentOf[k] =>
          {l \in {m \in C : ParentOf[m] = p} : Rank[l] < Rank[k]}
            = {m \in C : ParentOf[m] = ParentOf[k] /\ Rank[m] < Rank[k]}
    OBVIOUS
  <1>2. \A p : k \in Best({m \in C : ParentOf[m] = p}, PerPrompt) => p = ParentOf[k]
    BY DEF Best
  <1>3. ParentOf[k] \in Parents
    BY DEF Parents
  <1>4. k \in WithinK(C) <=> k \in Best({m \in C : ParentOf[m] = ParentOf[k]}, PerPrompt)
    <2>1. ASSUME k \in WithinK(C)
          PROVE  k \in Best({m \in C : ParentOf[m] = ParentOf[k]}, PerPrompt)
      <3>1. PICK p \in Parents : k \in Best({m \in C : ParentOf[m] = p}, PerPrompt)
        BY <2>1 DEF WithinK
      <3>2. p = ParentOf[k]
        BY <1>2, <3>1
      <3> QED BY <3>1, <3>2
    <2>2. ASSUME k \in Best({m \in C : ParentOf[m] = ParentOf[k]}, PerPrompt)
          PROVE  k \in WithinK(C)
      <3>1. PICK p \in Parents : p = ParentOf[k]
        BY <1>3
      <3>2. k \in Best({m \in C : ParentOf[m] = p}, PerPrompt)
        BY <2>2, <3>1
      <3> DEFINE X(q) == Best({m \in C : ParentOf[m] = q}, PerPrompt)
      <3>3. WithinK(C) = UNION {X(q) : q \in Parents}
        BY Zenon DEF WithinK
      <3>4. k \in X(p)
        BY <3>2
      <3> HIDE DEF X
      <3> QED BY <3>3, <3>4
    <2> QED BY <2>1, <2>2
  <1> QED BY <1>1, <1>4 DEF Best

LEMMA SilentDrop == ClaimInv /\ ProbeInv => NoSilentDrop
  <1> SUFFICES ASSUME ClaimInv, ProbeInv, NEW j \in Jobs, NEW k \in Keys,
                      jpc[j] = "done", k \in candidates[j], SameRow(j, k)
               PROVE  LET better == {l \in candidates[j] : Rank[l] < Rank[k]}
                          rivals == {l \in better : ParentOf[l] = ParentOf[k]}
                          ahead(l) == {m \in candidates[j] :
                                         ParentOf[m] = ParentOf[l] /\ Rank[m] < Rank[l]}
                          within == {l \in better : Cardinality(ahead(l)) < PerPrompt} IN
                      /\ shard[k].status # ""
                      /\ shard[k].status = "dropped_k" => Cardinality(rivals) >= PerPrompt
                      /\ shard[k].status = "dropped_ceiling" =>
                           Cardinality(rivals) < PerPrompt /\ Cardinality(within) >= PerRun
                      /\ shard[k].status = "withheld_cap" => outcome[j][k] = "withheld"
    BY DEF NoSilentDrop
  <1> DEFINE C == candidates[j]
             better == {l \in C : Rank[l] < Rank[k]}
             rivals == {l \in better : ParentOf[l] = ParentOf[k]}
             ahead(l) == {m \in C : ParentOf[m] = ParentOf[l] /\ Rank[m] < Rank[l]}
             within == {l \in better : Cardinality(ahead(l)) < PerPrompt}
  <1>1. C \in SUBSET Keys /\ Ranked(j) /\ Written(j)
    BY DEF ProbeInv, IdsUsed
  <1>2. rivals = ahead(k)
    OBVIOUS
  <1>3. \A S \in SUBSET Keys : Cardinality(S) \in Nat
    BY CountIsNat
  <1>4. rivals \in SUBSET Keys /\ within \in SUBSET Keys
    BY <1>1
  <1>5. \A l \in C : l \in WithinK(C) <=> Cardinality(ahead(l)) < PerPrompt
    BY <1>1, WithinKIs
  <1>6. within = {l \in WithinK(C) : Rank[l] < Rank[k]}
    <2>1. WithinK(C) \subseteq C
      BY WithinKWithin
    <2> HIDE DEF C, ahead
    <2> QED BY <1>5, <2>1
  <1> HIDE DEF C, better, rivals, ahead, within
  <1>7. /\ shard[k].status # ""
        /\ shard[k].status = "dropped_k" => Cardinality(rivals) >= PerPrompt
        /\ shard[k].status = "dropped_ceiling" =>
             Cardinality(rivals) < PerPrompt /\ Cardinality(within) >= PerRun
        /\ shard[k].status = "withheld_cap" => outcome[j][k] = "withheld"
    <2>1. CASE k \in chosen[j]
      <3>1. /\ shard[k].status \in {"ok", "error", "withheld_cap"}
            /\ shard[k].status = "withheld_cap" => outcome[j][k] = "withheld"
        BY <1>1, <2>1 DEF Written
      <3> QED BY <3>1
    <2>2. CASE k \notin chosen[j]
      <3>1. /\ shard[k].status = LeftOut(C, k)
            /\ k \notin Best(WithinK(C), PerRun) /\ k \in C
        BY <1>1, <2>2 DEF Ranked, Select, C
      <3>2. CASE k \notin WithinK(C)
        <4>1. shard[k].status = "dropped_k"
          BY <3>1, <3>2 DEF LeftOut
        <4>2. ~(Cardinality(rivals) < PerPrompt)
          BY <1>2, <1>5, <3>1, <3>2
        <4>3. Cardinality(rivals) >= PerPrompt
          BY <1>3, <1>4, <4>2
        <4> QED BY <4>1, <4>3
      <3>3. CASE k \in WithinK(C)
        <4>1. shard[k].status = "dropped_ceiling"
          BY <3>1, <3>3 DEF LeftOut
        <4>2. Cardinality(rivals) < PerPrompt
          BY <1>2, <1>5, <3>1, <3>3
        <4>3. ~(Cardinality({l \in WithinK(C) : Rank[l] < Rank[k]}) < PerRun)
          BY <3>1, <3>3 DEF Best
        <4>4. Cardinality(within) >= PerRun
          BY <1>3, <1>4, <1>6, <4>3
        <4> QED BY <4>1, <4>2, <4>4
      <3> QED BY <3>2, <3>3
    <2> QED BY <2>1, <2>2
  <1> QED BY <1>7 DEF C, better, rivals, ahead, within

\* For any shards, ranks and limits, and whatever passes and edits run beside
\* a run's one re-probe job: a candidate the finished job left out carries the
\* reason, and that reason is true (select_candidates and _persist_probe).
THEOREM DropsExplained ==
  ASSUME OneJob
  PROVE  Spec => []NoSilentDrop
  <1>1. ClaimInv /\ ProbeInv /\ [Next]_vars => (ClaimInv /\ ProbeInv)'
    BY ClaimStep, ProbeStep
  <1> QED BY ClaimInit, ProbeInit, <1>1, SilentDrop, PTL DEF Spec
=============================================================================
