---------------------------- MODULE ModeADispatch ----------------------------
(***************************************************************************)
(* One run's Mode A job: the work it builds from the tenant's questions,   *)
(* the cells it skips because an earlier attempt answered them, the calls  *)
(* it keeps in flight against the month's cap, and the transaction that    *)
(* saves each answer with its cost.                                         *)
(*                                                                         *)
(* An item is one cell of the matrix; items with the same key are samples  *)
(* of one cell. Money is in integer units. The run's status is "phase":    *)
(* "dispatch" and "aborting" are both the status running. "price" is what   *)
(* the provider bills for the call in flight; "charged" and "lost" are     *)
(* history the code does not keep. Mutant_... operators are not part of    *)
(* the model.                                                               *)
(***************************************************************************)
EXTENDS Integers, FiniteSets, FiniteSetsExt

CONSTANTS
  Items,           \* the matrix at its fullest: (query, persona, surface, variant, sample)
  KeyOf,           \* the cell key of an item
  Twins,           \* items of the search-disabled variant
  Est,             \* the estimate reserved for an item's call
  PricesOf,        \* what an item's call may cost
  ActiveSets,      \* the items a configuration of the tenant asks for
  CachedElsewhere, \* twins an earlier run answered within the refresh window
  Cap,             \* monthly_spend_cap_usd
  OtherSpend,      \* what the tenant spent this month outside this run
  Concurrency,
  MaxResumes, MaxKills    \* bounds: resumes and SIGKILLs

Keys == {KeyOf[i] : i \in Items}

\* A twin is asked once per question and surface, so its cell is its own.
ASSUME ModeAAssumption ==
  /\ IsFiniteSet(Items)
  /\ DOMAIN KeyOf = Items
  /\ Twins \subseteq Items /\ CachedElsewhere \subseteq Twins
  /\ \A i \in Twins, j \in Items : KeyOf[i] = KeyOf[j] => i = j
  /\ Est \in [Items -> Nat]
  /\ PricesOf \in [Items -> SUBSET Nat]
  /\ \A i \in Items : PricesOf[i] # {} /\ IsFiniteSet(PricesOf[i])
  /\ ActiveSets \subseteq SUBSET Items
  /\ Cap \in Nat /\ OtherSpend \in Nat
  /\ Concurrency \in Nat \ {0}
  /\ MaxResumes \in Nat /\ MaxKills \in Nat

VARIABLES
  phase,    \* the run: see above
  active,   \* items the configuration read by this attempt asks for
  state,    \* per item: what became of it in this attempt
  price,    \* per item: what its call costs
  held,     \* ok rows stored, per key
  counts,   \* run.counts
  runCost,  \* run.cost_usd
  month,    \* month_spent_before
  spent, reserved, hitCap,   \* the dispatcher's state
  reused,   \* twins taken from the cache
  saving,   \* items whose transaction is open: holders of _PERSIST_LOCK
  seen,     \* per item: the counts and cost_usd its transaction read
  charged, lost,
  resumes, kills

money == <<month, spent, reserved, hitCap>>
row == <<held, counts, runCost>>
attempt == <<active, price, reused>>
bounds == <<resumes, kills>>
vars == <<phase, attempt, state, row, money, saving, seen, charged, lost, bounds>>

Ended == {"complete", "capped", "failed"}
Counts == [planned : Nat, completed : Nat, failed : Nat, withheld : Nat, capped : BOOLEAN]
NoCounts == [planned |-> 0, completed |-> 0, failed |-> 0, withheld |-> 0, capped |-> FALSE]

Unread == [counts |-> NoCounts, cost |-> 0]

TypeOK ==
  /\ phase \in {"pending", "dispatch", "aborting"} \cup Ended
  /\ active \in SUBSET Items /\ reused \in SUBSET Twins
  /\ state \in [Items -> {"out", "waiting", "calling", "answered", "errored",
                          "saved", "failed", "withheld", "gone"}]
  /\ price \in [Items -> Nat]
  /\ held \in [Keys -> Nat]
  /\ counts \in Counts
  /\ runCost \in Nat /\ month \in Nat /\ spent \in Nat /\ reserved \in Int
  /\ hitCap \in BOOLEAN
  /\ saving \in SUBSET Items
  /\ seen \in [Items -> [counts : Counts, cost : Nat]]
  /\ charged \in Nat /\ lost \in Nat
  /\ resumes \in 0..MaxResumes /\ kills \in 0..MaxKills

Init ==
  /\ phase = "pending"
  /\ active = {} /\ reused = {}
  /\ state = [i \in Items |-> "out"]
  /\ price = [i \in Items |-> 0]
  /\ held = [k \in Keys |-> 0]
  /\ counts = NoCounts
  /\ runCost = 0 /\ month = 0 /\ spent = 0 /\ reserved = 0 /\ hitCap = FALSE
  /\ saving = {} /\ seen = [i \in Items |-> Unread]
  /\ charged = 0 /\ lost = 0
  /\ resumes = 0 /\ kills = 0

In(s) == {i \in Items : state[i] \in s}
Calling == In({"calling"})
Unsaved == In({"answered", "errored"})

\* The semaphore is held until the answer is saved.
\* Mutant: it is released when the call returns.
Mutant_InFlight == Calling
InFlight == Calling \cup Unsaved

Samples(S, k) == {i \in S : KeyOf[i] = k}

\* The total of f over S, as the number of its units.
Total(f, S) == Cardinality(UNION {{i} \X (1..f[i]) : i \in S})
PriceOf(S) == Total(price, S)

-----------------------------------------------------------------------------
(* Phase 1: the work of this attempt                                        *)

\* Mutant: one answer is taken to cover every sample of its cell.
Mutant_SkipDone(work) == {i \in work : held[KeyOf[i]] = 0}

\* Mutant: a resumed run asks everything again.
Mutant_SkipNothing(work) == work

\* The work left once each stored answer is set against one item of its cell.
SkipDone(work) ==
  CHOOSE kept \in SUBSET work :
    \A k \in Keys :
      Cardinality(Samples(kept, k)) =
        LET n == Cardinality(Samples(work, k)) - held[k] IN IF n > 0 THEN n ELSE 0

\* Twins with a recent answer of the model in use, this run's own included.
CachedTwins(S) == {i \in S \cap Twins : i \in CachedElsewhere \/ held[KeyOf[i]] > 0}

\* Mutant: the subtraction is the wrong way round.
Mutant_FreshCounts(work, left) ==
  LET already == Cardinality(left) - Cardinality(work) IN
  [NoCounts EXCEPT !.planned = already + Cardinality(left), !.completed = already]

\* The counters restart from the cells that were skipped.
FreshCounts(work, left) ==
  LET already == Cardinality(work) - Cardinality(left) IN
  [planned |-> already + Cardinality(left), completed |-> already,
   failed |-> 0, withheld |-> 0, capped |-> FALSE]

Load(S) ==
  LET work == S \ CachedTwins(S)
      left == SkipDone(work) IN
  /\ phase = "pending"
  /\ phase' = "dispatch"
  /\ active' = S /\ reused' = CachedTwins(S)
  /\ state' = [i \in Items |-> IF i \in left THEN "waiting" ELSE "out"]
  /\ counts' = FreshCounts(work, left)
  /\ month' = OtherSpend + runCost
  /\ spent' = 0 /\ reserved' = 0 /\ hitCap' = FALSE
  /\ UNCHANGED <<price, held, runCost, saving, seen, charged, lost, bounds>>

-----------------------------------------------------------------------------
(* Phase 2: _dispatch_all                                                    *)

\* Mutant: the check reads only what returned calls cost.
Mutant_Fits(i) == month + spent + Est[i] <= Cap

Fits(i) == month + spent + reserved + Est[i] <= Cap

StartCall(i, p) ==
  /\ phase = "dispatch" /\ state[i] = "waiting"
  /\ Cardinality(InFlight) < Concurrency
  /\ Fits(i)
  /\ state' = [state EXCEPT ![i] = "calling"]
  /\ price' = [price EXCEPT ![i] = p]
  /\ reserved' = reserved + Est[i]
  /\ UNCHANGED <<phase, active, reused, row, month, spent, hitCap, saving, seen,
                 charged, lost, bounds>>

Withhold(i) ==
  /\ phase = "dispatch" /\ state[i] = "waiting"
  /\ Cardinality(InFlight) < Concurrency
  /\ ~Fits(i)
  /\ state' = [state EXCEPT ![i] = "withheld"]
  /\ hitCap' = TRUE
  /\ UNCHANGED <<phase, attempt, row, month, spent, reserved, saving, seen,
                 charged, lost, bounds>>

ReturnOk(i) ==
  /\ phase = "dispatch" /\ state[i] = "calling"
  /\ state' = [state EXCEPT ![i] = "answered"]
  /\ reserved' = reserved - Est[i]
  /\ spent' = spent + price[i]
  /\ charged' = charged + price[i]
  /\ UNCHANGED <<phase, attempt, row, month, hitCap, saving, seen, lost, bounds>>

\* Mutant: a failed call keeps its reservation.
Mutant_ReturnError(i) ==
  /\ phase = "dispatch" /\ state[i] = "calling"
  /\ state' = [state EXCEPT ![i] = "errored"]
  /\ UNCHANGED <<phase, attempt, row, money, saving, seen, charged, lost, bounds>>

\* A failed call is data; the code takes it to cost nothing.
ReturnError(i) ==
  /\ phase = "dispatch" /\ state[i] = "calling"
  /\ state' = [state EXCEPT ![i] = "errored"]
  /\ reserved' = reserved - Est[i]
  /\ UNCHANGED <<phase, attempt, row, month, spent, hitCap, saving, seen, charged,
                 lost, bounds>>

-----------------------------------------------------------------------------
(* _persist_a_outcome: one transaction, in a thread, under _PERSIST_LOCK    *)

\* Mutant: no lock.
Mutant_PersistBegin(i) ==
  /\ phase \in {"dispatch", "aborting"} /\ i \in Unsaved \ saving
  /\ saving' = saving \cup {i}
  /\ seen' = [seen EXCEPT ![i] = [counts |-> counts, cost |-> runCost]]
  /\ UNCHANGED <<phase, attempt, state, row, money, charged, lost, bounds>>

PersistBegin(i) ==
  /\ phase \in {"dispatch", "aborting"} /\ i \in Unsaved
  /\ saving = {}
  /\ saving' = saving \cup {i}
  /\ seen' = [seen EXCEPT ![i] = [counts |-> counts, cost |-> runCost]]
  /\ UNCHANGED <<phase, attempt, state, row, money, charged, lost, bounds>>

EndSave(S) ==
  /\ saving' = saving \ S
  /\ seen' = [i \in Items |-> IF i \in S THEN Unread ELSE seen[i]]

PersistAnswer(i) ==
  /\ i \in saving /\ state[i] = "answered"
  /\ held' = [held EXCEPT ![KeyOf[i]] = @ + 1]
  /\ counts' = [seen[i].counts EXCEPT !.completed = @ + 1]
  /\ runCost' = seen[i].cost + price[i]
  /\ state' = [state EXCEPT ![i] = "saved"]
  /\ EndSave({i})
  /\ UNCHANGED <<phase, attempt, money, charged, lost, bounds>>

PersistError(i) ==
  /\ i \in saving /\ state[i] = "errored"
  /\ counts' = [seen[i].counts EXCEPT !.failed = @ + 1]
  /\ state' = [state EXCEPT ![i] = "failed"]
  /\ EndSave({i})
  /\ UNCHANGED <<phase, attempt, held, runCost, money, charged, lost, bounds>>

-----------------------------------------------------------------------------
(* Phase 3: totals, cached twins and the status                             *)

\* Mutant: a withheld cell still counts as work to do.
Mutant_Finished == In({"waiting", "withheld"}) \cup InFlight = {}

Finished == In({"waiting"}) \cup InFlight = {}

Verdict(c) ==
  CASE c.capped -> "capped"
    [] ~c.capped /\ c.completed = 0 /\ c.failed > 0 -> "failed"
    [] OTHER -> "complete"

\* Mutant: cells the cap withheld are not counted.
Mutant_Close ==
  LET c == [counts EXCEPT !.capped = hitCap \/ month + spent > Cap] IN
  /\ phase = "dispatch" /\ Finished
  /\ phase' = Verdict(c)
  /\ counts' = c
  /\ held' = [k \in Keys |-> IF held[k] = 0 /\ k \in {KeyOf[i] : i \in reused}
                               THEN 1 ELSE held[k]]
  /\ UNCHANGED <<attempt, state, runCost, money, saving, seen, charged, lost, bounds>>

Close ==
  LET c == [counts EXCEPT !.withheld = @ + Cardinality(In({"withheld"})),
                          !.capped = hitCap \/ month + spent > Cap] IN
  /\ phase = "dispatch" /\ Finished
  /\ phase' = Verdict(c)
  /\ counts' = c
  /\ held' = [k \in Keys |-> IF held[k] = 0 /\ k \in {KeyOf[i] : i \in reused}
                               THEN 1 ELSE held[k]]
  /\ UNCHANGED <<attempt, state, runCost, money, saving, seen, charged, lost, bounds>>

-----------------------------------------------------------------------------
(* Exceptions, crashes, resume                                              *)

Drop(S) ==
  /\ state' = [i \in Items |-> IF i \in S THEN "gone" ELSE state[i]]
  /\ charged' = charged + PriceOf(S \cap Calling)
  /\ lost' = lost + PriceOf(S \cap (Calling \cup In({"answered"})))

\* An exception outside a call (the database, RQ's job timeout) cancels what
\* waits or is in flight. Answers already handed to a thread (not in S) are
\* still saved before the job ends.
Raise(S) ==
  /\ phase = "dispatch"
  /\ S \subseteq Unsaved \ saving
  /\ phase' = "aborting"
  /\ Drop(In({"waiting", "calling"}) \cup S)
  /\ UNCHANGED <<attempt, row, money, saving, seen, bounds>>

\* The transaction that saves an answer fails.
PersistFails(i, S) ==
  /\ i \in saving
  /\ S \subseteq Unsaved \ {i}
  /\ phase' = "aborting"
  /\ Drop(In({"waiting", "calling"}) \cup S \cup {i})
  /\ EndSave({i})
  /\ UNCHANGED <<attempt, row, money, bounds>>

MarkRunFailed ==
  /\ phase = "aborting" /\ Finished
  /\ phase' = "failed"
  /\ UNCHANGED <<attempt, state, row, money, saving, seen, charged, lost, bounds>>

\* SIGKILL; the reaper marks the run failed (RunLifecycle).
Kill ==
  /\ phase \in {"dispatch", "aborting"} /\ kills < MaxKills
  /\ kills' = kills + 1
  /\ phase' = "failed"
  /\ Drop(In({"waiting"}) \cup InFlight)
  /\ EndSave(Items)
  /\ UNCHANGED <<attempt, row, money, resumes>>

Resume ==
  /\ phase = "failed" /\ resumes < MaxResumes
  /\ resumes' = resumes + 1
  /\ phase' = "pending"
  /\ UNCHANGED <<attempt, state, row, money, saving, seen, charged, lost, kills>>

-----------------------------------------------------------------------------
Dispatch(i) ==
  \/ \E p \in PricesOf[i] : StartCall(i, p)
  \/ Withhold(i) \/ ReturnOk(i) \/ ReturnError(i)

Persist(i) == PersistBegin(i) \/ PersistAnswer(i) \/ PersistError(i)

Job == (\E S \in ActiveSets : Load(S)) \/ (\E i \in Items : Dispatch(i) \/ Persist(i))
         \/ Close \/ MarkRunFailed

Disturbed ==
  \/ \E S \in SUBSET Unsaved : Raise(S) \/ \E i \in Items : PersistFails(i, S)
  \/ Kill \/ Resume

Next == Job \/ Disturbed

Spec == Init /\ [][Next]_vars

\* The job runs until it ends: calls return, every one has a timeout.
FairSpec == Spec /\ WF_vars(Job)

-----------------------------------------------------------------------------
(* Properties                                                               *)

MaxOf(a, b) == IF a >= b THEN a ELSE b

\* What this attempt has paid and may still have to pay takes the month past
\* the cap only by what returned calls cost beyond their estimates, however
\* many calls are in flight (the reservation before each dispatch).
Excess == [i \in Items |-> MaxOf(price[i] - Est[i], 0)]
Overrun == Total(Excess, In({"answered", "saved"}))

SpendUnderCap ==
  phase = "dispatch" => month + spent + reserved <= MaxOf(Cap, month) + Overrun

\* What is reserved is exactly the estimates of the calls in flight: no
\* error path leaks a reservation, which would withhold calls too early.
ReservationExact ==
  phase = "dispatch" => reserved = Total(Est, Calling)

\* Every unit a provider charged is in run.cost_usd, or waits to be saved, or
\* was lost with an interrupted call: concurrent saves overwrite no booking.
LedgerBalances == charged = runCost + PriceOf(In({"answered"})) + lost

\* An interruption loses at most the calls the semaphore let be in flight
\* (each attempt but the last was interrupted).
LossBounded ==
  lost <= (resumes + 1) * Concurrency
            * Max((UNION {PricesOf[i] : i \in Items}) \cup {0})

\* The books of a dispatch hold through concurrent calls and saves, failures,
\* crashes and resumes: the cap, the reservations and the run's cost.
LedgerExact == SpendUnderCap /\ ReservationExact /\ LedgerBalances

\* Across crashes and resumes no cell is answered, or paid for, more often
\* than it has samples.
AskedOnce == \A k \in Keys : held[k] <= Cardinality(Samples(Items, k))

\* An attempt that ran to its end accounts for every cell it planned.
CountsAddUp ==
  phase \in {"complete", "capped"} =>
    counts.planned = counts.completed + counts.failed + counts.withheld

\* A complete run without failed calls holds an answer for every sample its
\* configuration asks for: skipping what was answered skips nothing else.
NothingMissed ==
  phase = "complete" /\ counts.failed = 0 =>
    \A i \in active : held[KeyOf[i]] >= Cardinality(Samples(active, KeyOf[i]))

\* Every cell is asked once: never twice, none left out of the counts, none
\* skipped for an answer that is not its own; and what an interruption throws
\* away is no more than what was in flight.
EachCellOnce == TypeOK /\ AskedOnce /\ CountsAddUp /\ NothingMissed /\ LossBounded

\* A dispatch always ends, also when the cap withholds everything.
EveryDispatchEnds == phase = "dispatch" ~> phase \in Ended

\* The counters start from what the run already holds (the comment above them).
CountersHoldRows ==
  phase = "dispatch" => counts.completed = Total(held, Keys)
=============================================================================
