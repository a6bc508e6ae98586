---------------------------- MODULE ModeBDispatch ----------------------------
(***************************************************************************)
(* One run's Mode B job: captures taken one after another from engines     *)
(* without an API, each paid for whether it succeeds or not, under the     *)
(* month's spend cap and a circuit breaker per surface.                     *)
(*                                                                         *)
(* An item is one cell (question, persona, surface, location). Money is in  *)
(* integer units. "tally" is the job's local counts dict, "counts" and     *)
(* "runCost" are the committed row; "billed", "orphaned" and "retried" are *)
(* history the code does not keep. Mutant_... operators are not part of    *)
(* the model.                                                               *)
(***************************************************************************)
EXTENDS Integers, Sequences, FiniteSets, FiniteSetsExt, Functions

CONSTANTS
  Items, Surfaces,
  SurfaceOf,       \* the surface of an item
  Orders,          \* work lists a configuration of the tenant may give
  Cost,            \* per surface: what a capture costs
  Extra,           \* per surface: a SerpApi page_token search, 0 where there is none
  Serp,            \* surfaces captured by searches of SerpApi
  Attempts,        \* max_attempts of a search
  Cap, OtherSpend, \* the month's cap, and spend of the month outside this run
  Threshold,       \* _B_BREAKER_THRESHOLD
  ADone, ACost,    \* answers and cost of the Mode A half of a chained run
  MaxResumes, MaxKills  \* bounds: resumes and SIGKILLs

ASSUME ModeBAssumption ==
  /\ IsFiniteSet(Items) /\ IsFiniteSet(Surfaces)
  /\ SurfaceOf \in [Items -> Surfaces]
  /\ Orders \subseteq Seq(Items) /\ \A o \in Orders : IsInjective(o)
  /\ Cost \in [Surfaces -> Nat] /\ Extra \in [Surfaces -> Nat]
  /\ Serp \subseteq Surfaces /\ \A s \in Surfaces \ Serp : Extra[s] = 0
  /\ Attempts \in Nat \ {0}
  /\ Cap \in Nat /\ OtherSpend \in Nat
  /\ Threshold \in Nat \ {0}
  /\ ADone \in Nat /\ ACost \in Nat
  /\ MaxResumes \in Nat /\ MaxKills \in Nat

VARIABLES
  chained,   \* the run has a Mode A half, which runs first in every attempt
  phase,     \* "pending", "loop", "capture", "closed" (all running), or the final status
  work,      \* the work list of this attempt
  left,      \* positions of it that are left; the first is captured in phase "capture"
  follow,    \* the capture in flight has sent its second search
  tries,     \* requests sent for the search in flight
  outcome,   \* per item: what this attempt recorded for it
  held,      \* ok rows stored, per item
  fails,     \* consecutive_fail
  tally, counts, runCost,
  month,     \* month_spent_before
  spent, booked,   \* mode_b_cost, booked_b_cost
  salvaged,  \* finalized after an exception
  billed,    \* what providers billed this run for Mode B, and of that:
  orphaned,  \* second searches of captures that raised
  retried,   \* requests of a search after its first
  resumes, kills

cursor == <<work, left, follow, tries>>
row == <<counts, runCost>>
money == <<month, spent, booked>>
record == <<outcome, held, fails>>
bounds == <<chained, resumes, kills>>
history == <<billed, orphaned, retried>>
vars == <<phase, cursor, record, tally, row, money, salvaged, history, bounds>>

Ended == {"complete", "capped", "failed"}
Bad == {"blocked", "error", "skipped"}
Counts == [planned : Nat, completed : Nat, failed : Nat, blocked : Nat,
           withheld : Nat, capped : BOOLEAN]
NoCounts == [planned |-> 0, completed |-> 0, failed |-> 0, blocked |-> 0,
             withheld |-> 0, capped |-> FALSE]

\* What the Mode A half leaves in the row of a chained run.
AfterModeA == [NoCounts EXCEPT !.planned = ADone, !.completed = ADone]

TypeOK ==
  /\ chained \in BOOLEAN
  /\ phase \in {"pending", "loop", "capture", "closed"} \cup Ended
  /\ work \in Orders \cup {<<>>} /\ left \in SUBSET DOMAIN work
  /\ follow \in BOOLEAN /\ tries \in 0..Attempts
  /\ outcome \in [Items -> Bad \cup {"none", "ok"}]
  /\ held \in [Items -> Nat]
  /\ fails \in [Surfaces -> Nat]
  /\ tally \in Counts /\ counts \in Counts
  /\ runCost \in Nat /\ month \in Nat /\ spent \in Nat /\ booked \in Nat
  /\ salvaged \in BOOLEAN
  /\ billed \in Nat /\ orphaned \in Nat /\ retried \in Nat
  /\ resumes \in 0..MaxResumes /\ kills \in 0..MaxKills

Init ==
  /\ phase = "pending"
  /\ work = <<>> /\ left = {} /\ follow = FALSE /\ tries = 0
  /\ outcome = [i \in Items |-> "none"]
  /\ held = [i \in Items |-> 0]
  /\ fails = [s \in Surfaces |-> 0]
  /\ chained \in BOOLEAN
  /\ tally = NoCounts /\ counts = NoCounts
  /\ runCost = (IF chained THEN ACost ELSE 0) /\ month = 0 /\ spent = 0 /\ booked = 0
  /\ salvaged = FALSE /\ billed = 0 /\ orphaned = 0 /\ retried = 0
  /\ resumes = 0 /\ kills = 0

-----------------------------------------------------------------------------
(* Phase 1: the work of this attempt                                        *)

\* Mutant: captures of an earlier attempt are taken again.
Mutant_SkipDone(o) == DOMAIN o

\* A resumed run keeps the captures it already has.
SkipDone(o) == {n \in DOMAIN o : held[o[n]] = 0}

\* Mutant: the second half of a run always adds to the row it finds.
Mutant_BaseCounts == counts

\* What the job starts from: in a chained run Mode A has just rebuilt the
\* counters, otherwise they are those of the attempt before.
BaseCounts == IF chained THEN AfterModeA ELSE counts

Load(o) ==
  LET todo == SkipDone(o)
      already == Len(o) - Cardinality(todo) IN
  /\ phase = "pending"
  /\ phase' = "loop"
  /\ work' = o /\ left' = todo /\ follow' = FALSE /\ tries' = 0
  /\ outcome' = [i \in Items |-> "none"]
  /\ fails' = [s \in Surfaces |-> 0]
  /\ tally' = [BaseCounts EXCEPT !.planned = @ + already + Cardinality(todo),
                                 !.completed = @ + already]
  /\ counts' = BaseCounts
  /\ month' = OtherSpend + runCost
  /\ spent' = 0 /\ booked' = 0
  /\ UNCHANGED <<held, runCost, salvaged, history, bounds>>

-----------------------------------------------------------------------------
(* The loop                                                                  *)

Position == Min(left)
Item == work[Position]
Surface == SurfaceOf[Item]

\* Mutant: the breaker opens one failure late.
Mutant_Open == fails[Surface] > Threshold

Open == fails[Surface] >= Threshold

\* The surface failed too often in a row: recorded as an error, not captured.
Skip ==
  /\ phase = "loop" /\ left # {} /\ Open
  /\ outcome' = [outcome EXCEPT ![Item] = "skipped"]
  /\ tally' = [tally EXCEPT !.failed = @ + 1]
  /\ counts' = tally'
  /\ left' = left \ {Position}
  /\ UNCHANGED <<phase, work, follow, tries, held, fails, runCost, money, salvaged,
                 history, bounds>>

\* Mutant: no room is left for the second search.
Mutant_Fits == month + spent + Cost[Surface] <= Cap

\* The cost is known upfront, and headroom is left for a second search.
Fits == month + spent + Cost[Surface] + Extra[Surface] <= Cap

StartCapture ==
  /\ phase = "loop" /\ left # {} /\ ~Open /\ Fits
  /\ phase' = "capture" /\ tries' = 1
  /\ spent' = spent + Cost[Surface]
  /\ billed' = billed + Cost[Surface]
  /\ UNCHANGED <<work, left, follow, record, tally, row, month, booked, salvaged, orphaned,
                 retried, bounds>>

\* SerpApi answers with a page_token: a second search, billed on its own.
SecondSearch ==
  /\ phase = "capture" /\ Extra[Surface] > 0 /\ ~follow
  /\ follow' = TRUE /\ tries' = 1
  /\ billed' = billed + Extra[Surface]
  /\ UNCHANGED <<phase, work, left, record, tally, row, money, salvaged, orphaned, retried,
                 bounds>>

\* What the search in flight costs.
Price == IF follow THEN Extra[Surface] ELSE Cost[Surface]

\* A search meets a network error, 429 or 5xx, or no JSON, and is sent again;
\* SerpApi may bill it again.
RetrySearch ==
  /\ phase = "capture" /\ Surface \in Serp /\ tries < Attempts
  /\ tries' = tries + 1
  /\ \E bill \in {0, Price} :
       /\ billed' = billed + bill
       /\ retried' = retried + bill
  /\ UNCHANGED <<phase, work, left, follow, record, tally, row, money, salvaged, orphaned,
                 bounds>>

Failed(o) == IF o = "ok" THEN 0 ELSE fails[Surface] + 1

Counted(o) ==
  CASE o = "ok" -> [tally EXCEPT !.completed = @ + 1]
    [] o = "blocked" -> [tally EXCEPT !.blocked = @ + 1]
    [] o = "error" -> [tally EXCEPT !.failed = @ + 1]

\* Mutant: a failed capture is not booked.
Mutant_Save(o) ==
  LET total == IF o = "ok" /\ follow THEN spent + Extra[Surface] ELSE spent IN
  /\ outcome' = [outcome EXCEPT ![Item] = o]
  /\ held' = IF o = "ok" THEN [held EXCEPT ![Item] = @ + 1] ELSE held
  /\ fails' = [fails EXCEPT ![Surface] = Failed(o)]
  /\ tally' = Counted(o) /\ counts' = tally'
  /\ runCost' = IF o = "ok" THEN runCost + total - booked ELSE runCost
  /\ spent' = total /\ booked' = total

\* Mutant: the difference is taken the wrong way round.
Mutant_SaveSwapped(o) ==
  LET total == IF o = "ok" /\ follow THEN spent + Extra[Surface] ELSE spent IN
  /\ outcome' = [outcome EXCEPT ![Item] = o]
  /\ held' = IF o = "ok" THEN [held EXCEPT ![Item] = @ + 1] ELSE held
  /\ fails' = [fails EXCEPT ![Surface] = Failed(o)]
  /\ tally' = Counted(o) /\ counts' = tally'
  /\ runCost' = runCost + booked - total
  /\ spent' = total /\ booked' = total

\* One transaction: the row, the counters and what is not booked yet.
Save(o) ==
  LET total == IF o = "ok" /\ follow THEN spent + Extra[Surface] ELSE spent IN
  /\ outcome' = [outcome EXCEPT ![Item] = o]
  /\ held' = IF o = "ok" THEN [held EXCEPT ![Item] = @ + 1] ELSE held
  /\ fails' = [fails EXCEPT ![Surface] = Failed(o)]
  /\ tally' = Counted(o) /\ counts' = tally'
  /\ runCost' = runCost + total - booked
  /\ spent' = total /\ booked' = total

\* The capture returns, meets a wall, or raises (a failed second search
\* included): only a returned outcome carries its second search's cost.
EndCapture(o) ==
  /\ phase = "capture"
  /\ phase' = "loop"
  /\ o = "blocked" => ~follow
  /\ Save(o)
  /\ left' = left \ {Position} /\ follow' = FALSE /\ tries' = 0
  /\ orphaned' = IF o # "ok" /\ follow THEN orphaned + Extra[Surface] ELSE orphaned
  /\ UNCHANGED <<work, month, salvaged, billed, retried, bounds>>

-----------------------------------------------------------------------------
(* Phase 4, and _finalize_run in a transaction of its own                    *)

CloseDispatch ==
  /\ phase = "loop"
  /\ left # {} => ~Open /\ ~Fits
  /\ phase' = "closed"
  /\ tally' = IF left = {} THEN tally
              ELSE [tally EXCEPT !.withheld = @ + Cardinality(left), !.capped = TRUE]
  /\ counts' = tally'
  /\ runCost' = runCost + spent - booked
  /\ booked' = spent
  /\ UNCHANGED <<cursor, record, month, spent, salvaged, history, bounds>>

Verdict ==
  IF counts.capped THEN "capped"
  ELSE IF counts.completed = 0 /\ counts.failed + counts.blocked > 0
    THEN "failed" ELSE "complete"

Finalize ==
  /\ phase = "closed"
  /\ phase' = Verdict
  /\ UNCHANGED <<cursor, record, tally, row, money, salvaged, history, bounds>>

-----------------------------------------------------------------------------
(* Exceptions, crashes, resume                                              *)

\* Mutant: every run with answers is salvaged as if nothing had happened.
Mutant_Raise ==
  /\ phase \in {"loop", "capture"}
  /\ phase' = IF counts.completed > 0 THEN Verdict ELSE "failed"
  /\ UNCHANGED <<cursor, record, tally, row, money, salvaged, history, bounds>>

\* An exception outside a capture (the database, RQ's job timeout): a run with
\* completed answers is finalized with the error on it.
Raise ==
  /\ phase \in {"loop", "capture"}
  /\ phase' = IF counts.completed > 0 THEN Verdict ELSE "failed"
  /\ salvaged' = TRUE
  /\ UNCHANGED <<cursor, record, tally, row, money, history, bounds>>

\* SIGKILL; the reaper marks the run failed (RunLifecycle).
Kill ==
  /\ phase \in {"loop", "capture", "closed"} /\ kills < MaxKills
  /\ kills' = kills + 1
  /\ phase' = "failed"
  /\ UNCHANGED <<chained, cursor, record, tally, row, money, salvaged, history, resumes>>

\* The error of the attempt before is cleared with the status.
Resume ==
  /\ phase = "failed" /\ resumes < MaxResumes
  /\ resumes' = resumes + 1
  /\ phase' = "pending"
  /\ salvaged' = FALSE
  /\ UNCHANGED <<chained, cursor, record, tally, row, money, history, kills>>

-----------------------------------------------------------------------------
Job ==
  \/ \E o \in Orders : Load(o)
  \/ Skip \/ StartCapture \/ SecondSearch \/ RetrySearch
  \/ \E o \in {"ok", "blocked", "error"} : EndCapture(o)
  \/ CloseDispatch \/ Finalize

Next == Job \/ Raise \/ Kill \/ Resume

Spec == Init /\ [][Next]_vars

-----------------------------------------------------------------------------
(* Properties                                                               *)

MaxOf(a, b) == IF a >= b THEN a ELSE b

\* What the job books never takes the month past the cap, the second search a
\* capture in flight may still need included.
BookedUnderCap ==
  phase \in {"loop", "capture"} =>
    month + spent + (IF phase = "capture" THEN Extra[Surface] ELSE 0) <= MaxOf(Cap, month)

\* The cells of a surface that this attempt has a record of, and those of them
\* just before a cell that brought nothing, back to the last answer.
Tried(s) == {n \in DOMAIN work : SurfaceOf[work[n]] = s /\ outcome[work[n]] # "none"}
InVain(s, n) ==
  {m \in Tried(s) : m < n /\ \A k \in Tried(s) : m <= k /\ k < n => outcome[work[k]] \in Bad}

\* A cell is skipped exactly when Threshold cells of its surface or more in a
\* row have brought nothing: a dead engine stops costing money, a recovered one
\* is not given up on.
BreakerExact ==
  \A s \in Surfaces : \A n \in Tried(s) :
    outcome[work[n]] = "skipped" <=> Cardinality(InVain(s, n)) >= Threshold

\* Whatever is killed or resumed, a cell is never captured twice.
CapturedOnce == \A i \in Items : held[i] <= 1

Worst == Max({Cost[s] + Extra[s] : s \in Surfaces} \cup {0})

\* What the spend cap cannot see: at most one capture per interrupted attempt,
\* the second searches of captures that raised, and retries, which cost at most
\* Attempts - 1 times what the searches themselves do.
HiddenSpendBounded ==
  /\ billed + (IF chained THEN ACost ELSE 0) - runCost <=
       orphaned + retried + (resumes + 1) * Worst
  /\ retried <= (Attempts - 1) * (billed - retried)

\* The month is charged up to the cap and no further, but for what a crash, a
\* raising capture or a retry hides from the books, which stays bounded.
SpendBounded == BookedUnderCap /\ HiddenSpendBounded

\* A chained run, or one never resumed, that ended without an exception
\* accounts for every cell it planned, in either mode.
CountsAddUp ==
  phase \in {"complete", "capped"} /\ ~salvaged /\ (chained \/ resumes = 0) =>
    counts.planned = counts.completed + counts.failed + counts.blocked + counts.withheld

\* A run shown complete without an error holds an answer or this attempt's
\* verdict for every cell of its work.
NothingMissed ==
  phase = "complete" /\ ~salvaged =>
    \A i \in Range(work) : held[i] > 0 \/ outcome[i] # "none"

\* Every cell is captured once: never twice, none left out of the counts, none
\* missing from a run shown complete.
EachCellOnce == TypeOK /\ CapturedOnce /\ CountsAddUp /\ NothingMissed

\* "the run never exceeds it": what providers bill stays under the cap.
BilledUnderCap ==
  OtherSpend + ACost + billed <= MaxOf(Cap, OtherSpend + ACost)
=============================================================================
