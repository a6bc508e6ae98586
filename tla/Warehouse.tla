----------------------------- MODULE Warehouse -----------------------------
(***************************************************************************)
(* The nightly jobs that copy data in and out: the BigQuery mirror         *)
(* (worker/mirror.py), which appends the rows past a watermark per table,  *)
(* and the GA4 pull (worker/ga4_pull.py), which walks the tenants with one *)
(* database session.  The scheduler queues both before it stamps the day,  *)
(* so a failed stamp queues them twice and two workers may run two at once.*)
(*                                                                         *)
(* A row is an id and the state of its transaction; its columns are left   *)
(* out.  BigQuery drops a repeated insertId when it still remembers it: a  *)
(* choice here.                                                            *)
(***************************************************************************)
EXTENDS Integers, FiniteSets, FiniteSetsExt, Sequences, SequencesExt, Bags

CONSTANTS
    Tables,      \* MIRRORED, in order
    BATCH_SIZE,
    Mirrors,     \* mirror jobs that may run at once
    Clients,     \* tenants with a GA4 property, in order
    MaxRow, MaxFaults   \* bounds of the model

ASSUME WarehouseAssumption == /\ BATCH_SIZE \in Nat \ {0} /\ MaxRow \in Nat
                              /\ MaxFaults \in Nat /\ Tables # <<>>
                              /\ Tables \in Seq(ToSet(Tables))
                              /\ Clients \in Seq(ToSet(Clients))

VARIABLES
    rows,     \* table -> its rows by id: [state, skipped]
    lastId,   \* mirror_state: table -> watermark, 0 for no row
    copies,   \* bag of warehouse rows <<table, id>>
    mirror,   \* job -> [phase, table, mark, page]: mark as last read, 0 for no row yet
    queued,   \* mirror jobs in the queue
    redone,   \* history: a page may have been sent twice
    pull,     \* the GA4 job
    faults

warehouseVars == <<rows, lastId, copies, mirror, queued, redone, pull, faults>>
-----------------------------------------------------------------------------
(* The application's own writes *)

TableNames == ToSet(Tables)
Ids(t, states) == {i \in DOMAIN rows[t] : rows[t][i].state \in states}
Stored == MapThenSumSet(LAMBDA t : Len(rows[t]), TableNames)
Row(state) == [state |-> state, skipped |-> FALSE]

\* A transaction takes the next id; its row is seen once it commits.
InsertRow(t) ==
    /\ Stored < MaxRow
    /\ rows' = [rows EXCEPT ![t] = Append(@, Row("open"))]
    /\ UNCHANGED <<lastId, copies, mirror, queued, redone, pull, faults>>

CommitRow(t, i) ==
    /\ i \in Ids(t, {"open"})
    /\ \E s \in {"stored", "deleted"} : rows' = [rows EXCEPT ![t][i].state = s]
    /\ UNCHANGED <<lastId, copies, mirror, queued, redone, pull, faults>>

\* Reprocessing deletes a row and stores its successor under a new id.
ReplaceRow(t, i) ==
    /\ i \in Ids(t, {"stored"}) /\ Stored < MaxRow
    /\ rows' = [rows EXCEPT ![t] = Append([@ EXCEPT ![i].state = "deleted"], Row("stored"))]
    /\ UNCHANGED <<lastId, copies, mirror, queued, redone, pull, faults>>
-----------------------------------------------------------------------------
(* The mirror *)

Off == [phase |-> "off", table |-> 1, mark |-> 0, page |-> {}]
Resting == [left |-> <<>>, broken |-> FALSE, pulled |-> {}, refused |-> {}]
At(j) == Tables[mirror[j].table]
Turning(k) == [Off EXCEPT !.phase = "mark", !.table = k]

\* Once a day; twice when the day's stamp did not commit.
EnqueueMirror ==
    /\ queued = 0 /\ \A j \in Mirrors : mirror[j] = Off
    /\ queued' \in {1, 2}
    /\ UNCHANGED <<rows, lastId, copies, mirror, redone, pull, faults>>

StartMirror(j) ==
    /\ queued > 0 /\ mirror[j] = Off
    /\ queued' = queued - 1
    /\ mirror' = [mirror EXCEPT ![j] = Turning(1)]
    /\ redone' = (redone \/ \E k \in Mirrors \ {j} : mirror[k] # Off)
    /\ UNCHANGED <<rows, lastId, copies, pull, faults>>

\* A table's watermark is read before its first page, and again after every
\* commit, which expires the row in hand.
ReadMark(j) ==
    /\ mirror[j].phase = "mark"
    /\ mirror' = [mirror EXCEPT ![j].phase = "read", ![j].mark = lastId[At(j)]]
    /\ UNCHANGED <<rows, lastId, copies, queued, redone, pull, faults>>

\* Mutant: the page starts at the watermark, not past it.
Mutant_NextPage(t, mark) ==
    LET past == {i \in Ids(t, {"stored"}) : i >= mark}
    IN {i \in past : Cardinality({k \in past : k < i}) < BATCH_SIZE}

\* The first rows past the watermark, by id; with none the job takes the next
\* table.
NextPage(t, mark) ==
    LET past == {i \in Ids(t, {"stored"}) : i > mark}
    IN {i \in past : Cardinality({k \in past : k < i}) < BATCH_SIZE}

NextTable(job) == IF job.table = Len(Tables) THEN Off ELSE Turning(job.table + 1)

\* Rows still open below a page's last are passed over for good.
PassedOver(table, page) ==
    [i \in DOMAIN table |->
        [table[i] EXCEPT !.skipped = @ \/ (table[i].state = "open" /\ i < Max(page))]]

ReadPage(j) ==
    /\ mirror[j].phase = "read"
    /\ LET t == At(j)
           page == NextPage(t, mirror[j].mark)
       IN IF page = {}
          THEN /\ mirror' = [mirror EXCEPT ![j] = NextTable(mirror[j])]
               /\ rows' = rows
          ELSE /\ mirror' = [mirror EXCEPT ![j].phase = "insert", ![j].page = page]
               /\ rows' = [rows EXCEPT ![t] = PassedOver(@, page)]
    /\ UNCHANGED <<lastId, copies, queued, redone, pull, faults>>

Copied(t, i) == BagIn(<<t, i>>, copies)

\* insertAll: every row of the page, less what BigQuery knows for a repeat.
InsertPage(j) ==
    /\ mirror[j].phase = "insert"
    /\ \E known \in SUBSET {i \in mirror[j].page : Copied(At(j), i)} :
           copies' = copies (+) SetToBag({At(j)} \X (mirror[j].page \ known))
    /\ mirror' = [mirror EXCEPT ![j].phase = "commit"]
    /\ UNCHANGED <<rows, lastId, queued, redone, pull, faults>>

\* Mutant: the watermark moves to the newest row there is.
Mutant_NewMark(j) == Len(rows[At(j)])

NewMark(j) == Max(mirror[j].page)

\* The watermark is written whatever another job wrote meanwhile; its first
\* row only one job can insert.
CommitMark(j) ==
    /\ mirror[j].phase = "commit"
    /\ IF mirror[j].mark = 0 /\ lastId[At(j)] # 0
       THEN lastId' = lastId /\ mirror' = [mirror EXCEPT ![j] = Off]
       ELSE /\ lastId' = [lastId EXCEPT ![At(j)] = NewMark(j)]
            /\ mirror' = [mirror EXCEPT ![j] = Turning(mirror[j].table)]
    /\ UNCHANGED <<rows, copies, queued, redone, pull, faults>>

\* insertAll is refused, the database is gone, the job times out: the rest of
\* the page and of the tables waits for the next night.
FailMirror(j) ==
    /\ faults < MaxFaults /\ faults' = faults + 1
    /\ mirror[j] # Off
    /\ mirror' = [mirror EXCEPT ![j] = Off]
    /\ redone' = (redone \/ mirror[j].phase = "commit")
    /\ UNCHANGED <<rows, lastId, copies, queued, pull>>
-----------------------------------------------------------------------------
(* The GA4 pull: one tenant at a time, one session *)

EnqueuePull ==
    /\ pull.left = <<>> /\ pull' = [Resting EXCEPT !.left = Clients]
    /\ UNCHANGED <<rows, lastId, copies, mirror, queued, redone, faults>>

\* Mutant: a tenant Google refuses ends the pull.
Mutant_AfterRefusedPull(left) == <<>>

AfterRefusedPull(left) == Tail(left)

\* Every error is caught and logged, but the session is not rolled back: after
\* a failed write it refuses every tenant behind this one.
PullTenant ==
    /\ pull.left # <<>>
    /\ LET t == Head(pull.left)
       IN \/ /\ ~pull.broken
             /\ pull' = [pull EXCEPT !.left = Tail(@), !.pulled = @ \cup {t}]
             /\ faults' = faults
          \/ /\ ~pull.broken
             /\ pull' = [pull EXCEPT !.left = AfterRefusedPull(@), !.refused = @ \cup {t}]
             /\ faults' = faults
          \/ /\ ~pull.broken /\ faults < MaxFaults
             /\ pull' = [pull EXCEPT !.left = Tail(@), !.refused = @ \cup {t}, !.broken = TRUE]
             /\ faults' = faults + 1
          \/ /\ pull.broken
             /\ pull' = [pull EXCEPT !.left = Tail(@)]
             /\ faults' = faults
    /\ UNCHANGED <<rows, lastId, copies, mirror, queued, redone>>
-----------------------------------------------------------------------------
WarehouseInit ==
    /\ rows = [t \in TableNames |-> <<>>] /\ lastId = [t \in TableNames |-> 0]
    /\ copies = EmptyBag /\ mirror = [j \in Mirrors |-> Off] /\ queued = 0
    /\ redone = FALSE /\ pull = Resting /\ faults = 0

MirrorStep(j) == ReadMark(j) \/ ReadPage(j) \/ InsertPage(j) \/ CommitMark(j)

MirrorNext ==
    \/ \E t \in TableNames : \/ InsertRow(t)
                             \/ \E i \in 1..MaxRow : CommitRow(t, i) \/ ReplaceRow(t, i)
    \/ EnqueueMirror
    \/ \E j \in Mirrors : StartMirror(j) \/ MirrorStep(j) \/ FailMirror(j)

PullNext == EnqueuePull \/ PullTenant

WarehouseNext == MirrorNext \/ PullNext

WarehouseFairness ==
    /\ WF_warehouseVars(EnqueueMirror)
    /\ \A j \in Mirrors : WF_warehouseVars(StartMirror(j)) /\ WF_warehouseVars(MirrorStep(j))

WarehouseSpec == WarehouseInit /\ [][WarehouseNext]_warehouseVars /\ WarehouseFairness
-----------------------------------------------------------------------------
(* Properties *)

\* No crash, failed insert or second job loses a row: one below the watermark
\* is missing from the warehouse only when its transaction was still open as a
\* page above it was read ("watermarks make the job idempotent").
NoGapBelowWatermark ==
    \A t \in TableNames : \A i \in Ids(t, {"stored"}) :
        i =< lastId[t] /\ ~rows[t][i].skipped => Copied(t, i)

\* A row has two copies only when a job died between insert and watermark, or
\* two jobs ran at once.
CopiedOnceUnlessRedone ==
    ~redone => \A c \in BagToSet(copies) : copies[c] = 1

\* When the pull is through, a tenant without tonight's referrals was refused
\* itself, or a write failed for one before it.
MissedPullsHaveCause ==
    pull.left = <<>> /\ ~pull.broken /\ pull # Resting =>
        pull.pulled \cup pull.refused = ToSet(Clients)

\* All of it: what the warehouse holds of a table, and what the pull left out.
WarehouseKeepsUp == NoGapBelowWatermark /\ CopiedOnceUnlessRedone /\ MissedPullsHaveCause

\* "One tenant's failure never blocks the rest", as the comment has it.
OthersStillPulled ==
    pull.left = <<>> /\ pull # Resting => pull.pulled \cup pull.refused = ToSet(Clients)

\* A stored row no page skipped reaches the warehouse some night, however the
\* jobs fail and overlap, unless it is deleted first.
Waits(t, i) == i \in Ids(t, {"stored"}) /\ ~rows[t][i].skipped /\ ~Copied(t, i)

EveryRowMirrored == \A t \in TableNames : \A i \in 1..MaxRow : Waits(t, i) ~> ~Waits(t, i)
=============================================================================
