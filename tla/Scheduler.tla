------------------------------ MODULE Scheduler ------------------------------
(***************************************************************************)
(* The schedule loop: every tick evaluates each enabled schedule against   *)
(* the clock, advances it, checks the plan's daily cap and triggers a run; *)
(* then, once a day past the mirror hour, it queues the nightly jobs.      *)
(* Administrators edit schedules, plans and tenants while a tick runs,     *)
(* statements fail, and the process is killed and restarted.               *)
(*                                                                         *)
(* What happens inside trigger_run is RunLifecycle's: here a trigger makes *)
(* a run or meets one in flight. last_triggered_at is left out: it is only *)
(* shown. The loop also reaps abandoned runs, which is one way for a run   *)
(* to leave flight (RunLeaves).                                            *)
(*                                                                         *)
(* Time is counted in units of which DayLength make a day. There is one    *)
(* scheduler process, as in infra/docker-compose.yml and render.yaml.      *)
(*                                                                         *)
(* Operators named Mutant_... are bugs the definition after them could     *)
(* have; they are not part of the model.                                   *)
(***************************************************************************)
EXTENDS Integers, Sequences, FiniteSets

CONSTANTS
  Tenants, Crons, Caps,   \* Caps: values of max_runs_per_day, NoCap for none
  NextFire(_, _),         \* croniter: first fire of a cron strictly after a time
  DayLength, Window,      \* units in a day, and in the 23 h window of the cap
  Sample,                 \* fires cron_within_cap inspects
  MirrorHour,             \* unit of the day from which nightly jobs are queued
  NightlyJobs,            \* jobs of one night, in the order they are queued
  StartWith,              \* cron and cap of the schedules there are at first
  MaxLate,                \* units that may pass between two ticks of a live process
  MaxClock,               \* bound: the horizon
  MaxEdits,               \* bound: edits by administrators
  MaxFaults,              \* bound: statements that raise, and kills
  NoCap, Unarmed, NoOne

ASSUME SchedulerAssumption ==
  /\ \A c \in Crons, t \in 0 .. MaxClock : NextFire(c, t) \in Nat /\ NextFire(c, t) > t
  /\ DayLength \in Nat \ {0} /\ Window \in Nat /\ Window < DayLength
  /\ Sample \in Nat \ {0} /\ MirrorHour \in Nat /\ MaxLate \in Nat
  /\ NightlyJobs \in Seq({"mirror", "ga4", "crawl"})
  /\ Caps \subseteq (Nat \ {0}) \cup {NoCap}
  /\ StartWith \subseteq [cron : Crons, cap : Caps]
  /\ MaxClock \in Nat /\ MaxEdits \in Nat /\ MaxFaults \in Nat
  /\ NoCap \notin Nat /\ Unarmed \notin Nat /\ NoOne \notin Tenants

VARIABLES
  clock,
  \* The database.
  cron, enabled, armed,   \* each tenant's schedule; armed is next_run_at
  cap, archived,          \* its plan's cap, and its status
  fires,                  \* scheduled runs of each tenant: slot and creation time
  inFlight,               \* tenants with a pending or running run
  stamp,                  \* the day watermark, -1 before the first night
  queued,                 \* how often each job of each night was queued
  \* The process.
  pc, now,                \* step of the tick, and the time it works with
  todo, cur, saw,         \* schedules left, the one at hand, its row as read
  nth,                    \* nightly jobs queued so far in this tick
  failed, touched,        \* schedules that raised, or were edited, in this tick
  \* Bookkeeping of the environment.
  edits, faults

schedules == <<cron, enabled, armed>>
plans == <<cap, archived>>
nights == <<stamp, queued, nth>>
atHand == <<cur, saw>>
tickVars == <<now, todo, atHand, failed>>
vars == <<clock, schedules, plans, fires, inFlight, nights, pc, tickVars, touched, edits, faults>>

Days == 0 .. MaxClock \div DayLength
Steps == {"start", "loop", "advance", "gate", "trigger", "enqueue", "sleep", "down"}

\* No two of the first fires are closer than the plan allows, 1% of tolerance
\* given. The sample starts at a fixed instant, here 0.
WithinCap(c, n) ==
  n = NoCap \/
  LET fire[i \in 0 .. Sample] == NextFire(c, IF i = 0 THEN 0 ELSE fire[i - 1])
  IN \A i \in 1 .. Sample : (fire[i] - fire[i - 1]) * n * 100 >= DayLength * 99

NothingRead == [slot |-> Unarmed, cron |-> NoOne]

\* _tick_one returns: its local variables are gone.
Returns == pc' = "loop" /\ cur' = NoOne /\ saw' = NothingRead

Init ==
  /\ clock = 0
  /\ \E start \in [Tenants -> StartWith] :
       /\ cron = [t \in Tenants |-> start[t].cron]
       /\ cap = [t \in Tenants |-> start[t].cap]
  /\ enabled = [t \in Tenants |-> TRUE] /\ armed = [t \in Tenants |-> Unarmed]
  /\ archived = {} /\ inFlight = {}
  /\ fires = [t \in Tenants |-> <<>>]
  /\ stamp = -1 /\ queued = [d \in Days |-> [i \in DOMAIN NightlyJobs |-> 0]]
  /\ pc = "start" /\ now = 0 /\ todo = {} /\ nth = 0
  /\ cur = NoOne /\ saw = NothingRead
  /\ failed = {} /\ touched = {}
  /\ edits = 0 /\ faults = 0

-----------------------------------------------------------------------------
(* The daily cap                                                            *)

\* A window of a whole day still holds yesterday's run when today's is due.
Mutant_RunsInLastDay(t) == {i \in DOMAIN fires[t] : fires[t][i].at >= clock - DayLength}
RunsInLastDay(t) == {i \in DOMAIN fires[t] : fires[t][i].at >= clock - Window}

CapSpent(t) == cap[t] # NoCap /\ Cardinality(RunsInLastDay(t)) >= cap[t]

-----------------------------------------------------------------------------
(* The tick                                                                 *)

TickStart ==
  /\ pc \in {"start", "sleep"}
  /\ pc' = "loop" /\ now' = clock
  /\ todo' = {t \in Tenants : enabled[t]}
  /\ failed' = {} /\ touched' = {}
  /\ UNCHANGED <<clock, schedules, plans, fires, inFlight, nights, atHand, edits, faults>>

\* The row is read again after each commit; what is written to it is computed
\* from this reading.
ReadOne(t) ==
  /\ pc = "loop" /\ t \in todo
  /\ todo' = todo \ {t}
  /\ IF armed[t] \in Nat /\ armed[t] > now
     THEN UNCHANGED <<pc, atHand>>
     ELSE /\ pc' = "advance" /\ cur' = t
          /\ saw' = [slot |-> armed[t], cron |-> cron[t]]
  /\ UNCHANGED <<clock, schedules, plans, fires, inFlight, nights, now, failed, touched,
                 edits, faults>>

\* next_run_at is advanced only after the run was triggered.
Mutant_AdvanceOne ==
  /\ pc = "advance"
  /\ armed' = IF saw.slot = Unarmed
              THEN [armed EXCEPT ![cur] = NextFire(saw.cron, now)] ELSE armed
  /\ IF saw.slot = Unarmed THEN Returns ELSE pc' = "gate" /\ UNCHANGED atHand
  /\ UNCHANGED <<clock, cron, enabled, plans, fires, inFlight, nights, now, todo, failed,
                 touched, edits, faults>>
\* A new schedule is armed and fired in the same tick.
Mutant_FireOnArming ==
  /\ pc = "advance"
  /\ armed' = [armed EXCEPT ![cur] = NextFire(saw.cron, now)]
  /\ pc' = "gate"
  /\ UNCHANGED <<clock, cron, enabled, plans, fires, inFlight, nights, tickVars, touched,
                 edits, faults>>
\* Arm a new schedule, or advance a due one before anything is fired.
AdvanceOne ==
  /\ pc = "advance"
  /\ armed' = [armed EXCEPT ![cur] = NextFire(saw.cron, now)]
  /\ IF saw.slot = Unarmed THEN Returns ELSE pc' = "gate" /\ UNCHANGED atHand
  /\ UNCHANGED <<clock, cron, enabled, plans, fires, inFlight, nights, now, todo, failed,
                 touched, edits, faults>>

GateOne ==
  /\ pc = "gate"
  /\ IF cur \in archived \/ CapSpent(cur)
     THEN Returns ELSE pc' = "trigger" /\ UNCHANGED atHand
  /\ UNCHANGED <<clock, schedules, plans, fires, inFlight, nights, now, todo, failed,
                 touched, edits, faults>>

\* trigger_run: a run in flight refuses the slot; otherwise a run is recorded,
\* in flight unless it is gated or could not be queued.
TriggerOne ==
  /\ pc = "trigger"
  /\ Returns
  /\ IF cur \in inFlight
     THEN UNCHANGED <<fires, inFlight>>
     ELSE /\ fires' = [fires EXCEPT ![cur] = Append(@, [slot |-> saw.slot, at |-> clock])]
          /\ inFlight' \in {inFlight, inFlight \cup {cur}}
  /\ UNCHANGED <<clock, schedules, plans, nights, now, todo, failed, touched, edits, faults>>

Fault == faults < MaxFaults /\ faults' = faults + 1

\* An exception leaves the rest of the tick undone.
Mutant_OneFails ==
  /\ pc \in {"advance", "gate", "trigger"} /\ Fault
  /\ Returns /\ todo' = {} /\ failed' = failed \cup {cur}
  /\ UNCHANGED <<clock, schedules, plans, fires, inFlight, nights, now, touched, edits>>
\* An exception rolls the statement back and the loop goes on. One raised after
\* the run was recorded changes nothing else that is modelled.
OneFails ==
  /\ pc \in {"advance", "gate", "trigger"} /\ Fault
  /\ Returns /\ failed' = failed \cup {cur}
  /\ UNCHANGED <<clock, schedules, plans, fires, inFlight, nights, now, todo, touched, edits>>

-----------------------------------------------------------------------------
(* The nightly jobs                                                         *)

DayOf(t) == t \div DayLength

\* The watermark is not consulted.
Mutant_NightDue == now % DayLength >= MirrorHour
NightDue == now % DayLength >= MirrorHour /\ stamp < DayOf(now)

LoopDone == pc = "loop" /\ todo = {}

NightlyBegin ==
  /\ LoopDone
  /\ nth' = 0
  /\ pc' = IF NightDue THEN "enqueue" ELSE "sleep"
  /\ UNCHANGED <<clock, schedules, plans, fires, inFlight, stamp, queued, tickVars, touched,
                 edits, faults>>

EnqueueNext ==
  /\ pc = "enqueue" /\ nth < Len(NightlyJobs)
  /\ nth' = nth + 1
  /\ queued' = [queued EXCEPT ![DayOf(now)][nth + 1] = @ + 1]
  /\ UNCHANGED <<clock, schedules, plans, fires, inFlight, stamp, pc, tickVars, touched,
                 edits, faults>>

\* The day is stamped when its first job has been queued.
Mutant_StampDay ==
  /\ pc = "enqueue" /\ nth >= 1
  /\ stamp' = DayOf(now) /\ pc' = "sleep" /\ nth' = 0
  /\ UNCHANGED <<clock, schedules, plans, fires, inFlight, queued, tickVars, touched,
                 edits, faults>>
StampDay ==
  /\ pc = "enqueue" /\ nth = Len(NightlyJobs)
  /\ stamp' = DayOf(now) /\ pc' = "sleep" /\ nth' = 0
  /\ UNCHANGED <<clock, schedules, plans, fires, inFlight, queued, tickVars, touched,
                 edits, faults>>

\* An enqueue raises, before or after it took effect, or the stamp cannot be
\* committed: the tick ends with the exception and the day stays unstamped.
NightFails ==
  /\ LoopDone \/ pc = "enqueue"
  /\ Fault
  /\ pc' = "start" /\ nth' = 0
  /\ \/ UNCHANGED queued
     \/ /\ pc = "enqueue" /\ nth < Len(NightlyJobs)
        /\ queued' = [queued EXCEPT ![DayOf(now)][nth + 1] = @ + 1]
  /\ UNCHANGED <<clock, schedules, plans, fires, inFlight, stamp, tickVars, touched, edits>>

-----------------------------------------------------------------------------
(* The process and its surroundings                                         *)

Crash ==
  /\ pc # "down" /\ Fault
  /\ pc' = "down" /\ cur' = NoOne /\ saw' = NothingRead
  /\ todo' = {} /\ failed' = {} /\ touched' = {} /\ nth' = 0
  /\ UNCHANGED <<clock, schedules, plans, fires, inFlight, stamp, queued, now, edits>>

Restart ==
  /\ pc = "down"
  /\ pc' = "start" /\ now' = clock
  /\ UNCHANGED <<clock, schedules, plans, fires, inFlight, nights, todo, atHand, failed,
                 touched, edits, faults>>

\* A live process starts its ticks in time; a dead one lets any time pass.
ClockMoves ==
  /\ clock < MaxClock
  /\ pc = "down" \/ clock - now < MaxLate
  /\ clock' = clock + 1
  /\ UNCHANGED <<schedules, plans, fires, inFlight, nights, pc, tickVars, touched, edits, faults>>

\* A run triggered by hand, and the end of any run.
RunEnters(t) ==
  /\ t \notin inFlight /\ t \notin archived
  /\ edits < MaxEdits /\ edits' = edits + 1
  /\ inFlight' = inFlight \cup {t}
  /\ UNCHANGED <<clock, schedules, plans, fires, nights, pc, tickVars, touched, faults>>

RunLeaves(t) ==
  /\ t \in inFlight
  /\ inFlight' = inFlight \ {t}
  /\ UNCHANGED <<clock, schedules, plans, fires, nights, pc, tickVars, touched, edits, faults>>

PutSchedule(t, c, on) ==
  /\ edits < MaxEdits /\ edits' = edits + 1
  /\ WithinCap(c, cap[t])
  /\ cron' = [cron EXCEPT ![t] = c] /\ enabled' = [enabled EXCEPT ![t] = on]
  /\ armed' = [armed EXCEPT ![t] = Unarmed]
  /\ touched' = touched \cup {t}
  /\ UNCHANGED <<clock, plans, fires, inFlight, nights, pc, tickVars, faults>>

ChangeTenant(t) ==
  /\ edits < MaxEdits /\ edits' = edits + 1
  /\ \/ \E n \in Caps : cap' = [cap EXCEPT ![t] = n] /\ UNCHANGED archived
     \/ archived' \in {archived \cup {t}, archived \ {t}} /\ UNCHANGED cap
  /\ UNCHANGED <<clock, schedules, fires, inFlight, nights, pc, tickVars, touched, faults>>

Next ==
  \/ TickStart \/ AdvanceOne \/ GateOne \/ TriggerOne \/ OneFails
  \/ NightlyBegin \/ EnqueueNext \/ StampDay \/ NightFails
  \/ Crash \/ Restart \/ ClockMoves
  \/ \E t \in Tenants : ReadOne(t) \/ RunEnters(t) \/ RunLeaves(t) \/ ChangeTenant(t)
  \/ \E t \in Tenants, c \in Crons, on \in BOOLEAN : PutSchedule(t, c, on)

Spec == Init /\ [][Next]_vars

-----------------------------------------------------------------------------
(* Properties                                                               *)

\* Variables keep their types; slots and creation times are times.
TypeOK ==
  /\ clock \in 0 .. MaxClock /\ now \in Nat /\ now <= clock
  /\ cron \in [Tenants -> Crons] /\ enabled \in [Tenants -> BOOLEAN]
  /\ armed \in [Tenants -> Nat \cup {Unarmed}]
  /\ cap \in [Tenants -> Caps] /\ archived \subseteq Tenants /\ inFlight \subseteq Tenants
  /\ fires \in [Tenants -> Seq([slot : Nat, at : Nat])]
  /\ stamp \in Days \cup {-1} /\ queued \in [Days -> [DOMAIN NightlyJobs -> Nat]]
  /\ pc \in Steps /\ nth \in 0 .. Len(NightlyJobs)
  /\ saw \in [slot : Nat \cup {Unarmed}, cron : Crons \cup {NoOne}]
  /\ IF pc \in {"advance", "gate", "trigger"}
     THEN cur \in Tenants /\ saw.cron \in Crons /\ (pc = "advance" \/ saw.slot \in Nat)
     ELSE cur = NoOne /\ saw = NothingRead
  /\ todo \subseteq Tenants /\ failed \subseteq Tenants /\ touched \subseteq Tenants
  /\ edits \in Nat /\ faults \in Nat

\* A slot fires at most one run and never early, and slots fire in order,
\* whatever fails, is edited or is killed between advancing and triggering
\* (_tick_one commits next_run_at first).
SlotOnce ==
  \A t \in Tenants : \A i \in DOMAIN fires[t] :
    /\ fires[t][i].slot <= fires[t][i].at
    /\ \A j \in DOMAIN fires[t] : i < j => fires[t][i].slot < fires[t][j].slot

InCron(slot, c) == slot > 0 /\ NextFire(c, slot - 1) = slot

\* The two frequency policies agree: a schedule put_schedule would accept under
\* the plan loses a slot to the tick's daily cap only when a run counted there
\* fired late (the process was down) or was a slot of another cron.
CapBitesForCause ==
  pc = "gate" /\ CapSpent(cur) /\ WithinCap(cron[cur], cap[cur])
     /\ InCron(saw.slot, cron[cur]) =>
  \E i \in RunsInLastDay(cur) :
     LET run == fires[cur][i] IN run.at > run.slot + MaxLate \/ ~InCron(run.slot, cron[cur])

\* When the loop is through, every enabled schedule waits for a later time,
\* except those edited or failing in this very tick: one bad schedule does not
\* block the rest.
NoneLeftBehind ==
  LoopDone \/ pc \in {"enqueue", "sleep"} =>
  \A t \in Tenants \ (failed \cup touched) :
     enabled[t] => armed[t] \in Nat /\ armed[t] > now

\* A stamped night was queued entirely, and a tick past the mirror hour that
\* ends well leaves its night stamped.
NightlyQueued ==
  /\ stamp >= 0 => \A i \in DOMAIN NightlyJobs : queued[stamp][i] >= 1
  /\ pc = "sleep" /\ now % DayLength >= MirrorHour => stamp >= DayOf(now)

\* A nightly job is queued again only after a failure, once for each.
NightlyRepeats ==
  \A d \in Days : \A i \in DOMAIN NightlyJobs : queued[d][i] <= 1 + faults

\* The nightly jobs of a day are all queued before the day counts as served, and
\* queued again only after a failure: none is lost to a crash, none repeats.
NightsKept == NightlyQueued /\ NightlyRepeats
=============================================================================
