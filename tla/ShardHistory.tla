----------------------------- MODULE ShardHistory -----------------------------
(***************************************************************************)
(* The sub-searches of a tenant's questions over many runs: which of them  *)
(* were asked again, when, and what the fan-out screens make of it. A run  *)
(* stores replies and harvests its shard rows; a shard asked again within  *)
(* the TTL carries its answer forward; a run that failed may be resumed    *)
(* after later ones, a question be flagged as branded, a run be processed  *)
(* again.  FanoutReprobe interleaves the steps of one run's job and passes; *)
(* here each is one step, and the rows of all runs meet.                   *)
(***************************************************************************)
EXTENDS Integers, Sequences, FiniteSets, FiniteSetsExt, SequencesExt

CONSTANTS
    Shards, QuestionOf,   \* a shard and the question it was fanned out from
    Askers,               \* surfaces that show their sub-searches
    ShardTtl,             \* fanout_reprobe_ttl_days
    MaxProbeRuns, MaxDays, MaxFlags, MaxFailed   \* bounds of the model

ASSUME ShardHistoryAssumption ==
    /\ ShardTtl \in Nat /\ {MaxProbeRuns, MaxDays, MaxFlags, MaxFailed} \subseteq Nat
    /\ IsFiniteSet(Shards) /\ IsFiniteSet(Askers) /\ DOMAIN QuestionOf = Shards

VARIABLES
    today,
    replies,    \* ok search answers in id order: [run, q, sf, subs, at]
    outcomes,   \* run -> "complete" or "failed"
    shardRows,  \* fanout_shards: [id, run, key, created, seen, status, probe]
    newest,     \* the highest row id handed out
    probes,     \* the answers to probes, in order: [key, run, at, seen]
    probeJobs,  \* queued re-probe jobs
    branded,    \* questions flagged as branded
    late,       \* history: shards a run asked when a later row of them was there
    erased,     \* history: shards of which a probed row was deleted
    flags

historyVars == <<today, replies, outcomes, shardRows, newest, probes, probeJobs, branded, late,
                 erased, flags>>

-----------------------------------------------------------------------------
(* Harvest *)

Prompts == {QuestionOf[k] : k \in Shards}
Findings == {"you", "others"}   \* presence; rivals or nobody
NotAsked == 0   \* no probe

Issued(rs, r) ==
    UNION {rs[i].subs : i \in {j \in DOMAIN rs : rs[j].run = r /\ rs[j].q \notin branded}}

\* Mutant: the age of the row, not of its probe.
Mutant_Carried(r, k) ==
    {row \in shardRows : row.run # r /\ row.key = k /\ row.seen \in Findings
                           /\ row.created >= today - ShardTtl}
\* Re-probes of a shard by other runs, or carried by them, still within the TTL.
Carried(r, k) ==
    {row \in shardRows : row.run # r /\ row.key = k /\ row.seen \in Findings
                           /\ ShardTtl > 0 /\ probes[row.probe].at >= today - ShardTtl}

Highest(rows) == CHOOSE row \in rows : \A other \in rows : other.id <= row.id

HarvestedRow(r, k) ==
    LET fresh == Carried(r, k)
        row == [id |-> newest + 1, run |-> r, key |-> k, created |-> today,
                seen |-> "unchecked", status |-> "", probe |-> NotAsked]
    IN  IF fresh = {} THEN row
        ELSE [row EXCEPT !.seen = Highest(fresh).seen, !.status = "carried",
                         !.probe = Highest(fresh).probe]

\* Rows of the run that are no longer observed go, new ones come.
Harvest(r, issued) ==
    {row \in shardRows : row.run # r \/ row.key \in issued} \cup
    {HarvestedRow(r, k) : k \in {l \in issued :
                              ~\E row \in shardRows : row.run = r /\ row.key = l}}

Processed(rs, r) ==
    /\ replies' = rs
    /\ shardRows' = Harvest(r, Issued(rs, r)) /\ newest' = newest + 1
    /\ erased' = erased \cup {row.key : row \in {x \in shardRows \ shardRows' : x.status = "ok"}}
    /\ UNCHANGED <<today, probes, branded, late, flags>>

-----------------------------------------------------------------------------
(* Runs and re-probes *)

\* What a run may bring: a set of sub-searches per question and surface.
Asked == [q : Prompts, sf : Askers]
Reply(r, c, subs) ==
    [run |-> r, q |-> c.q, sf |-> c.sf,
     subs |-> subs \cap {k \in Shards : QuestionOf[k] = c.q}, at |-> today]

Brought(r, subs, cells) ==
    LET order == SetToSeq(cells)
    IN  replies \o [i \in DOMAIN order |-> Reply(r, order[i], subs[order[i]])]

Enqueued(rs, r) == IF Issued(rs, r) = {} THEN probeJobs ELSE Append(probeJobs, r)

CompleteRun(cells, subs) ==
    LET r == Len(outcomes) + 1
        rs == Brought(r, subs, cells)
    IN  /\ r <= MaxProbeRuns
        /\ outcomes' = Append(outcomes, "complete")
        /\ Processed(rs, r)
        /\ probeJobs' = Enqueued(rs, r)

\* A run that is interrupted keeps its answers and harvests nothing; at most
\* MaxFailed wait to be resumed.
FailedRun(cells, subs) ==
    LET r == Len(outcomes) + 1 IN
    /\ r <= MaxProbeRuns /\ Cardinality({o \in DOMAIN outcomes : outcomes[o] = "failed"}) < MaxFailed
    /\ outcomes' = Append(outcomes, "failed")
    /\ replies' = Brought(r, subs, cells)
    /\ UNCHANGED <<today, shardRows, newest, probes, probeJobs, branded, late, erased, flags>>

\* Resumed, it asks what it has no answer to, and then harvests.
ResumeHistoryRun(r, subs) ==
    LET missing == {c \in Asked : ~\E i \in DOMAIN replies :
                       replies[i].run = r /\ replies[i].q = c.q /\ replies[i].sf = c.sf}
        rs == Brought(r, subs, missing)
    IN  /\ outcomes[r] = "failed"
        /\ outcomes' = [outcomes EXCEPT ![r] = "complete"]
        /\ Processed(rs, r)
        /\ probeJobs' = Enqueued(rs, r)

\* A run is processed again: by an admin or for the whole tenant.
Reprocess(r) ==
    /\ outcomes[r] = "complete"
    /\ Processed(replies, r) /\ shardRows' # shardRows
    /\ UNCHANGED <<outcomes, probeJobs>>

Unchecked(r) == {row.key : row \in {x \in shardRows : x.run = r /\ x.seen = "unchecked"}}

\* The probes of a job, in some order, after those of earlier jobs.
Probed(r, found) ==
    LET order == SetToSeq(DOMAIN found)
    IN  probes \o [i \in DOMAIN order |-> [key |-> order[i], run |-> r, at |-> today,
                                            seen |-> found[order[i]]]]

\* A shard's row of the run shows what its probe found.
RowAfter(row, r, found, made) ==
    IF row.run = r /\ row.key \in DOMAIN found
    THEN [row EXCEPT !.seen = found[row.key], !.status = "ok",
                     !.probe = CHOOSE p \in DOMAIN made : p > Len(probes) /\ made[p].key = row.key]
    ELSE row

\* The next job asks some unresolved shards of its run.
Reprobe(found) ==
    LET r == Head(probeJobs)
        asked == DOMAIN found
    IN  /\ asked \subseteq Unchecked(r)
        /\ probes' = Probed(r, found)
        /\ shardRows' = {RowAfter(row, r, found, Probed(r, found)) : row \in shardRows}
        /\ late' = late \cup {k \in asked : \E row, own \in shardRows :
                       row.key = k /\ own.key = k /\ own.run = r /\ own.id < row.id}
        /\ probeJobs' = Tail(probeJobs)
        /\ UNCHANGED <<today, replies, outcomes, newest, branded, erased, flags>>

Flag(q) ==
    /\ flags < MaxFlags /\ flags' = flags + 1
    /\ branded' = (branded \ {q}) \cup ({q} \ branded)
    /\ UNCHANGED <<today, replies, outcomes, shardRows, newest, probes, probeJobs, late, erased>>

DayPasses ==
    /\ today < MaxDays /\ today' = today + 1
    /\ UNCHANGED <<replies, outcomes, shardRows, newest, probes, probeJobs, branded, late, erased,
                   flags>>

-----------------------------------------------------------------------------
(* The fan-out screens *)

During(t, lo, hi) == lo <= t /\ t < hi

\* Newest reply per question and surface.
LatestReplies(lo, hi, off) ==
    LET rows == {i \in DOMAIN replies : During(replies[i].at, lo, hi) /\ replies[i].q \notin off}
    IN  {i \in rows : \A j \in rows :
            replies[j].q = replies[i].q /\ replies[j].sf = replies[i].sf => j <= i}

ShardsOf(latest) == UNION {replies[i].subs : i \in latest}
Issuers(k, latest) == {replies[i].sf : i \in {j \in latest : k \in replies[j].subs}}

\* Every shard an engine issued, by whom; branded questions included.
FanoutReport ==
    LET latest == LatestReplies(0, MaxDays + 1, {})
    IN  [k \in ShardsOf(latest) |-> Issuers(k, latest)]

\* The distinct re-probes of a shard that still have their own row.
Points(k, hi) ==
    {row.probe : row \in {x \in shardRows : x.key = k /\ x.status = "ok"
                                             /\ probes[x.probe].at < hi}}

\* Mutant: against the newest point, whichever the row shows.
Mutant_Trend(row, hi) ==
    LET before == Points(row.key, hi) \ {row.probe} IN
    IF before = {} THEN "none"
    ELSE LET was == probes[Max(before)].seen = "you"
             is == row.seen = "you"
         IN  IF was = is THEN "steady" ELSE IF is THEN "won_back" ELSE "lost"
\* Against the point before the row's own, or the last when its own is gone.
Trend(row, hi) ==
    LET points == Points(row.key, hi)
        before == IF row.probe \in points THEN {p \in points : p < row.probe} ELSE points
    IN  IF before = {} THEN "none"
        ELSE LET was == probes[Max(before)].seen = "you"
                 is == row.seen = "you"
             IN  IF was = is THEN "steady" ELSE IF is THEN "won_back" ELSE "lost"

RowsOf(k, lo, hi) == {row \in shardRows : row.key = k /\ During(row.created, lo, hi)}

\* Presence is what the newest row of the window says.
Shown(k, lo, hi) ==
    LET rows == RowsOf(k, lo, hi)
        row == Highest(rows)
    IN  IF rows = {} \/ row.seen = "unchecked"
        THEN [seen |-> "unchecked", probe |-> NotAsked, trend |-> "none"]
        ELSE [seen |-> row.seen, probe |-> row.probe, trend |-> Trend(row, hi)]

FanoutScorecard(lo, hi) ==
    LET latest == LatestReplies(lo, hi, branded)
        shards == [k \in ShardsOf(latest) |-> Shown(k, lo, hi)]
    IN  [shards |-> shards,
         engines |-> [k \in DOMAIN shards |-> Issuers(k, latest)],
         reprobed |-> {k \in DOMAIN shards : shards[k].seen # "unchecked"},
         won_back |-> {k \in DOMAIN shards : shards[k].trend = "won_back"},
         lost |-> {k \in DOMAIN shards : shards[k].trend = "lost"}]

\* The simulator: each reply's sub-searches, with the probe of the newest run.
FanoutReplay(lo, hi) ==
    LET latest == LatestReplies(lo, hi, branded)
        rows(k) == {row \in shardRows : row.key = k /\ row.seen # "unchecked"}
        last(k) == CHOOSE row \in rows(k) : \A other \in rows(k) : other.run <= row.run
    IN  [k \in ShardsOf(latest) |->
            IF rows(k) = {} THEN [seen |-> "unchecked", probe |-> NotAsked]
            ELSE [seen |-> last(k).seen, probe |-> last(k).probe]]

-----------------------------------------------------------------------------
HistoryInit ==
    /\ today = 0 /\ replies = <<>> /\ outcomes = <<>>
    /\ shardRows = {} /\ newest = 0 /\ probes = <<>> /\ probeJobs = <<>>
    /\ branded = {} /\ late = {} /\ erased = {} /\ flags = 0

HistoryNext ==
    \/ \E cells \in SUBSET Asked : \E subs \in [Asked -> SUBSET Shards] :
          CompleteRun(cells, subs) \/ FailedRun(cells, subs)
    \/ \E r \in DOMAIN outcomes :
          Reprocess(r) \/ \E subs \in [Asked -> SUBSET Shards] : ResumeHistoryRun(r, subs)
    \/ probeJobs # <<>> /\ \E S \in SUBSET Shards : \E found \in [S -> Findings] : Reprobe(found)
    \/ \E q \in Prompts : Flag(q)
    \/ DayPasses

HistorySpec == HistoryInit /\ [][HistoryNext]_historyVars

-----------------------------------------------------------------------------
(* Properties *)

Everything == FanoutScorecard(0, MaxDays + 1)

ProbesOf(k) == {p \in DOMAIN probes : probes[p].key = k}

\* Shards with a row of a later run that is older than one of an earlier run.
OutOfTurn == {a.key : a \in {x \in shardRows : \E b \in shardRows :
                               b.key = x.key /\ x.id < b.id /\ b.run < x.run}}

\* What is shown of a shard is what its latest re-probe found, carried forward
\* or its own (src/api/dashboards/fanout.py:91-94), unless an older run asked
\* it after a later run had its row, or a probed row was deleted.
NewestShown ==
    \A k \in Everything.reprobed \ (late \cup erased) :
        LET s == Everything.shards[k]
        IN  s.probe = Max(ProbesOf(k)) /\ s.seen = probes[s.probe].seen

\* Its trend is against the previous distinct re-probe: "won_back / lost /
\* steady vs the shard's previous distinct re-probe"
\* (docs/FANOUT_SCORECARD_SPEC.md:182).
TrendIsReal ==
    \A k \in Everything.reprobed \ erased :
        LET s == Everything.shards[k]
            earlier == {p \in ProbesOf(k) : p < s.probe}
        IN  s.trend = IF earlier = {} THEN "none"
                      ELSE LET was == probes[Max(earlier)].seen = "you"
                           IN  IF was = (s.seen = "you") THEN "steady"
                               ELSE IF was THEN "lost" ELSE "won_back"

\* The simulator shows the same re-probe as the scorecard, unless a run asked
\* a shard after a later one did.
ReplayAgrees ==
    \A k \in Everything.reprobed \ OutOfTurn :
        FanoutReplay(0, MaxDays + 1)[k].probe = Everything.shards[k].probe

\* An answer is carried no longer than the TTL, however often it was carried
\* ("re-probed within this many days carries its presence forward",
\* src/api/config.py:171-172).
CarriedAreFresh ==
    \A row \in shardRows :
        row.status = "carried" => row.created - probes[row.probe].at <= ShardTtl

\* They credit a sub-search to the engines the fan-out report names.
EnginesAgree ==
    \A k \in DOMAIN Everything.shards : Everything.engines[k] = FanoutReport[k]

\* Whatever runs, failures, resumes, flags, days and second passes the
\* tenant's history holds, the fan-out screens show each sub-search's latest
\* re-probe, its engines, and a trend against the one before it.
ShardScreensTrue == NewestShown /\ TrendIsReal /\ ReplayAgrees /\ CarriedAreFresh /\ EnginesAgree
=============================================================================
