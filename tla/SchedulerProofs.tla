--------------------------- MODULE SchedulerProofs ---------------------------
(* Theorems of Scheduler for every set of tenants and crons, every horizon   *)
(* and any number of edits and faults.                                       *)
EXTENDS Scheduler, TLAPS

USE SchedulerAssumption DEF NothingRead, Steps

-----------------------------------------------------------------------------
(* Lemmas on time                                                           *)

LEMMA DivFacts ==
  ASSUME NEW d \in Nat \ {0}, NEW a \in Nat
  PROVE  a \div d \in Nat /\ d * (a \div d) <= a /\ a < d * (a \div d) + d
  BY SMT

LEMMA DivMonotone ==
  ASSUME NEW d \in Nat \ {0}, NEW a \in Nat, NEW b \in Nat, a <= b
  PROVE  a \div d <= b \div d
<1> DEFINE p == a \div d
           q == b \div d
<1>1. p \in Nat /\ q \in Nat /\ d * p <= a /\ b < d * q + d
  BY DivFacts
<1> HIDE DEF p, q
<1>2. d * p < d * (q + 1)
  BY <1>1, SMT
<1>3. p < q + 1
  BY <1>1, <1>2, SMT
<1>4. p <= q
  BY <1>1, <1>3
<1> QED
  BY <1>4 DEF p, q

\* The day of a time within the horizon is one of Days.
LEMMA DayInDays ==
  ASSUME NEW t \in 0 .. MaxClock
  PROVE  DayOf(t) \in Days
<1>1. t \div DayLength \in Nat /\ MaxClock \div DayLength \in Nat
  BY DivFacts
<1>2. t \div DayLength <= MaxClock \div DayLength
  BY DivMonotone
<1> QED
  BY <1>1, <1>2 DEF DayOf, Days

LEMMA NextFireLater ==
  ASSUME NEW c \in Crons, NEW t \in 0 .. MaxClock
  PROVE  NextFire(c, t) \in Nat /\ NextFire(c, t) > t
  OBVIOUS

-----------------------------------------------------------------------------
(* Types                                                                    *)

LEMMA TypeInit == Init => TypeOK
<1> SUFFICES ASSUME Init PROVE TypeOK
  OBVIOUS
<1>1. cron \in [Tenants -> Crons] /\ cap \in [Tenants -> Caps]
  BY DEF Init
<1>2. queued \in [Days -> [DOMAIN NightlyJobs -> Nat]]
  BY DEF Init
<1>3. fires \in [Tenants -> Seq([slot : Nat, at : Nat])]
  BY DEF Init
<1> QED
  BY <1>1, <1>2, <1>3 DEF Init, TypeOK

\* What a step within a tick does to the types, one lemma for each group.
LEMMA TypeTick ==
  ASSUME TypeOK,
         \/ TickStart \/ AdvanceOne \/ GateOne \/ OneFails
         \/ \E t \in Tenants : ReadOne(t)
  PROVE  TypeOK'
<1>1. CASE TickStart
  BY <1>1 DEF TickStart, TypeOK, schedules, plans, nights, atHand
<1>2. CASE AdvanceOne
  <2>1. NextFire(saw.cron, now) \in Nat
    BY <1>2, NextFireLater DEF AdvanceOne, TypeOK
  <2>2. armed' \in [Tenants -> Nat \cup {Unarmed}]
    BY <1>2, <2>1 DEF AdvanceOne, TypeOK
  <2> QED
    BY <1>2, <2>2 DEF AdvanceOne, Returns, TypeOK, plans, nights, atHand
<1>3. CASE GateOne
  BY <1>3 DEF GateOne, Returns, TypeOK, schedules, plans, nights, atHand
<1>4. CASE OneFails
  BY <1>4 DEF OneFails, Fault, Returns, TypeOK, schedules, plans, nights
<1>5. CASE \E t \in Tenants : ReadOne(t)
  BY <1>5 DEF ReadOne, TypeOK, schedules, plans, nights, atHand
<1> QED
  BY <1>1, <1>2, <1>3, <1>4, <1>5

LEMMA TypeTrigger ==
  ASSUME TypeOK, TriggerOne
  PROVE  TypeOK'
<1>1. cur \in Tenants /\ saw.slot \in Nat /\ clock \in Nat
  BY DEF TriggerOne, TypeOK
<1>2. fires' \in [Tenants -> Seq([slot : Nat, at : Nat])]
  <2>1. [slot |-> saw.slot, at |-> clock] \in [slot : Nat, at : Nat]
    BY <1>1
  <2>2. Append(fires[cur], [slot |-> saw.slot, at |-> clock]) \in Seq([slot : Nat, at : Nat])
    BY <1>1, <2>1 DEF TypeOK
  <2> QED
    BY <1>1, <2>2, ZenonT(30) DEF TriggerOne, TypeOK
<1>3. inFlight' \subseteq Tenants
  BY <1>1 DEF TriggerOne, TypeOK
<1> QED
  BY <1>2, <1>3 DEF TriggerOne, Returns, TypeOK, schedules, plans, nights

LEMMA TypeNight ==
  ASSUME TypeOK, NightlyBegin \/ EnqueueNext \/ StampDay \/ NightFails
  PROVE  TypeOK'
<1>1. CASE NightlyBegin
  BY <1>1 DEF NightlyBegin, LoopDone, TypeOK, schedules, plans, nights, tickVars, atHand
<1>2. DayOf(now) \in Days
  BY DayInDays DEF TypeOK
<1>3. ASSUME nth < Len(NightlyJobs)
      PROVE  [queued EXCEPT ![DayOf(now)][nth + 1] = @ + 1]
                \in [Days -> [DOMAIN NightlyJobs -> Nat]]
  <2>1. nth + 1 \in DOMAIN NightlyJobs
    BY <1>3 DEF TypeOK
  <2>2. queued[DayOf(now)][nth + 1] \in Nat
    BY <1>2, <2>1 DEF TypeOK
  <2> QED
    BY <1>2, <2>1, <2>2 DEF TypeOK
<1>4. CASE EnqueueNext
  <2>1. nth + 1 \in 0 .. Len(NightlyJobs)
    BY <1>4 DEF EnqueueNext, TypeOK
  <2> QED
    BY <1>3, <1>4, <2>1
       DEF EnqueueNext, TypeOK, schedules, plans, tickVars, atHand
<1>5. CASE StampDay
  BY <1>2, <1>5 DEF StampDay, TypeOK, schedules, plans, tickVars, atHand
<1>6. CASE NightFails
  <2>1. queued' \in [Days -> [DOMAIN NightlyJobs -> Nat]]
    BY <1>3, <1>6 DEF NightFails, TypeOK
  <2> QED
    BY <1>6, <2>1
       DEF NightFails, LoopDone, Fault, TypeOK, schedules, plans, tickVars, atHand
<1> QED
  BY <1>1, <1>4, <1>5, <1>6

LEMMA TypeOutside ==
  ASSUME TypeOK,
         \/ Crash \/ Restart \/ ClockMoves
         \/ \E t \in Tenants : RunEnters(t) \/ RunLeaves(t) \/ ChangeTenant(t)
         \/ \E t \in Tenants, c \in Crons, on \in BOOLEAN : PutSchedule(t, c, on)
  PROVE  TypeOK'
<1>1. CASE Crash
  BY <1>1 DEF Crash, Fault, TypeOK, schedules, plans
<1>2. CASE Restart
  BY <1>2 DEF Restart, TypeOK, schedules, plans, nights, atHand
<1>3. CASE ClockMoves
  BY <1>3 DEF ClockMoves, TypeOK, schedules, plans, nights, tickVars, atHand
<1>4. ASSUME NEW t \in Tenants, RunEnters(t) \/ RunLeaves(t)
      PROVE  TypeOK'
  <2>1. inFlight' \subseteq Tenants /\ edits' \in Nat
    BY <1>4 DEF RunEnters, RunLeaves, TypeOK
  <2>2. UNCHANGED <<clock, schedules, plans, fires, nights, pc, tickVars, touched, faults>>
    BY <1>4 DEF RunEnters, RunLeaves
  <2> QED
    BY <2>1, <2>2 DEF TypeOK, schedules, plans, nights, tickVars, atHand
<1>5. ASSUME NEW t \in Tenants, ChangeTenant(t)
      PROVE  TypeOK'
  <2>1. cap' \in [Tenants -> Caps] /\ archived' \subseteq Tenants
    <3>1. CASE \E n \in Caps : cap' = [cap EXCEPT ![t] = n] /\ UNCHANGED archived
      BY <3>1 DEF TypeOK
    <3>2. CASE archived' \in {archived \cup {t}, archived \ {t}} /\ UNCHANGED cap
      BY <3>2 DEF TypeOK
    <3> QED
      BY <1>5, <3>1, <3>2 DEF ChangeTenant
  <2>2. UNCHANGED <<clock, schedules, fires, inFlight, nights, pc, tickVars, touched, faults>>
    BY <1>5 DEF ChangeTenant
  <2>3. edits' \in Nat
    BY <1>5 DEF ChangeTenant, TypeOK
  <2> QED
    BY <2>1, <2>2, <2>3 DEF TypeOK, schedules, nights, tickVars, atHand
<1>6. ASSUME NEW t \in Tenants, NEW c \in Crons, NEW on \in BOOLEAN, PutSchedule(t, c, on)
      PROVE  TypeOK'
  <2>1. cron' \in [Tenants -> Crons] /\ enabled' \in [Tenants -> BOOLEAN]
    BY <1>6 DEF PutSchedule, TypeOK
  <2>2. armed' \in [Tenants -> Nat \cup {Unarmed}]
    BY <1>6 DEF PutSchedule, TypeOK
  <2>3. touched' \subseteq Tenants /\ edits' \in Nat
    BY <1>6 DEF PutSchedule, TypeOK
  <2>4. UNCHANGED <<clock, plans, fires, inFlight, nights, pc, tickVars, faults>>
    BY <1>6 DEF PutSchedule
  <2> QED
    BY <2>1, <2>2, <2>3, <2>4 DEF TypeOK, plans, nights, tickVars, atHand
<1> QED
  BY <1>1, <1>2, <1>3, <1>4, <1>5, <1>6

LEMMA TypeStep == TypeOK /\ [Next]_vars => TypeOK'
<1> SUFFICES ASSUME TypeOK, [Next]_vars PROVE TypeOK'
  OBVIOUS
<1>1. CASE UNCHANGED vars
  BY <1>1 DEF TypeOK, vars, schedules, plans, nights, tickVars, atHand
<1> QED
  BY <1>1, TypeTick, TypeTrigger, TypeNight, TypeOutside DEF Next

\* Every variable of the schedule loop keeps its type, and what a tick has at
\* hand is well formed at each of its steps.
THEOREM TypeCorrect == Spec => []TypeOK
  BY TypeInit, TypeStep, PTL DEF Spec
-----------------------------------------------------------------------------
(* Slots                                                                    *)

\* What a tenant has fired: nothing early, in order, and by the time at hand.
FiredWell ==
  \A t \in Tenants : \A i \in DOMAIN fires[t] :
    /\ fires[t][i].slot <= fires[t][i].at
    /\ fires[t][i].slot <= now
    /\ \A j \in DOMAIN fires[t] : i < j => fires[t][i].slot < fires[t][j].slot

\* Any time the database is armed with lies after every slot that fired.
ArmedAhead ==
  \A t \in Tenants : armed[t] \in Nat =>
    \A i \in DOMAIN fires[t] : fires[t][i].slot < armed[t]

\* The slot at hand is due and new; once the schedule is advanced, whatever it
\* is armed with lies after that slot.
SlotAtHand ==
  pc \in {"advance", "gate", "trigger"} /\ saw.slot \in Nat =>
    /\ saw.slot <= now
    /\ \A i \in DOMAIN fires[cur] : fires[cur][i].slot < saw.slot
    /\ pc # "advance" /\ armed[cur] \in Nat => saw.slot < armed[cur]

SlotInv == TypeOK /\ FiredWell /\ ArmedAhead /\ SlotAtHand

LEMMA Elements ==
  ASSUME NEW S, NEW s \in Seq(S)
  PROVE  \A i \in DOMAIN s : s[i] \in S
  OBVIOUS

LEMMA FiredTypes ==
  ASSUME TypeOK, NEW t \in Tenants
  PROVE  \A i \in DOMAIN fires[t] : fires[t][i].slot \in Nat /\ fires[t][i].at \in Nat
<1>1. fires[t] \in Seq([slot : Nat, at : Nat])
  BY DEF TypeOK
<1>2. \A i \in DOMAIN fires[t] : fires[t][i] \in [slot : Nat, at : Nat]
  BY <1>1, Elements, Zenon
<1> QED
  BY <1>2

LEMMA SlotInit == Init => SlotInv
<1> SUFFICES ASSUME Init PROVE SlotInv
  OBVIOUS
<1>1. \A t \in Tenants : fires[t] = <<>>
  BY DEF Init
<1>2. \A t \in Tenants : DOMAIN fires[t] = {}
  BY <1>1
<1> QED
  BY <1>2, TypeInit DEF Init, SlotInv, FiredWell, ArmedAhead, SlotAtHand

LEMMA SlotRead ==
  ASSUME SlotInv, NEW t \in Tenants, ReadOne(t)
  PROVE  FiredWell' /\ ArmedAhead' /\ SlotAtHand'
<1>1. FiredWell' /\ ArmedAhead'
  BY DEF ReadOne, SlotInv, FiredWell, ArmedAhead, schedules
<1>2. CASE armed[t] \in Nat /\ armed[t] > now
  BY <1>1, <1>2 DEF ReadOne, SlotInv, SlotAtHand, schedules, atHand
<1>3. CASE ~(armed[t] \in Nat /\ armed[t] > now)
  <2>1. pc' = "advance" /\ cur' = t /\ saw'.slot = armed[t]
    BY <1>3 DEF ReadOne
  <2>2. UNCHANGED <<fires, now, armed>>
    BY DEF ReadOne, schedules
  <2>3. armed[t] \in Nat => armed[t] <= now
    BY <1>3 DEF SlotInv, TypeOK
  <2>4. armed[t] \in Nat => \A i \in DOMAIN fires[t] : fires[t][i].slot < armed[t]
    BY DEF SlotInv, ArmedAhead
  <2> QED
    BY <1>1, <2>1, <2>2, <2>3, <2>4 DEF SlotAtHand
<1> QED
  BY <1>1, <1>2, <1>3

LEMMA SlotAdvance ==
  ASSUME SlotInv, AdvanceOne
  PROVE  FiredWell' /\ ArmedAhead' /\ SlotAtHand'
<1> DEFINE next == NextFire(saw.cron, now)
<1>1. cur \in Tenants /\ next \in Nat /\ next > now /\ now \in Nat
  BY NextFireLater DEF SlotInv, TypeOK, AdvanceOne
<1> HIDE DEF next
<1>2. armed' = [armed EXCEPT ![cur] = next] /\ UNCHANGED <<fires, now>>
  BY DEF AdvanceOne, next
<1>3. FiredWell'
  BY <1>2 DEF SlotInv, FiredWell
<1>4. \A t \in Tenants : \A i \in DOMAIN fires[t] : fires[t][i].slot \in Nat
  BY FiredTypes DEF SlotInv
<1>5. ArmedAhead'
  <2>1. \A i \in DOMAIN fires[cur] : fires[cur][i].slot < next
    BY <1>1, <1>4 DEF SlotInv, FiredWell
  <2> QED
    BY <1>1, <1>2, <2>1 DEF SlotInv, ArmedAhead, TypeOK
<1>6. CASE saw.slot = Unarmed
  BY <1>3, <1>5, <1>6 DEF AdvanceOne, Returns, SlotAtHand
<1>7. CASE saw.slot # Unarmed
  <2>1. pc' = "gate" /\ pc = "advance" /\ UNCHANGED <<cur, saw>>
    BY <1>7 DEF AdvanceOne, atHand
  <2>2. saw.slot \in Nat => saw.slot < next
    BY <1>1, <2>1 DEF SlotInv, SlotAtHand
  <2>3. armed'[cur] = next
    BY <1>1, <1>2 DEF SlotInv, TypeOK
  <2> QED
    BY <1>2, <1>3, <1>5, <2>1, <2>2, <2>3 DEF SlotInv, SlotAtHand
<1> QED
  BY <1>3, <1>5, <1>6, <1>7

\* Append keeps what a sequence held and adds its one element at the end.
LEMMA AppendedLast ==
  ASSUME NEW S, NEW s \in Seq(S), NEW e \in S
  PROVE  /\ DOMAIN Append(s, e) = 1 .. Len(s) + 1 /\ DOMAIN s = 1 .. Len(s)
         /\ Len(s) \in Nat
         /\ \A i \in DOMAIN s : Append(s, e)[i] = s[i]
         /\ Append(s, e)[Len(s) + 1] = e
  OBVIOUS

LEMMA SlotTrigger ==
  ASSUME SlotInv, TriggerOne
  PROVE  FiredWell' /\ ArmedAhead' /\ SlotAtHand'
<1>1. SlotAtHand'
  BY DEF TriggerOne, Returns, SlotAtHand
<1>2. cur \in Tenants /\ saw.slot \in Nat /\ clock \in Nat /\ now \in Nat /\ now <= clock
  BY DEF TriggerOne, SlotInv, TypeOK
<1>3. UNCHANGED <<armed, now>>
  BY DEF TriggerOne, schedules
<1>4. CASE fires' = fires
  BY <1>1, <1>3, <1>4 DEF SlotInv, FiredWell, ArmedAhead
<1>5. CASE fires' = [fires EXCEPT ![cur] = Append(@, [slot |-> saw.slot, at |-> clock])]
  <2> DEFINE old == fires[cur]
             run == [slot |-> saw.slot, at |-> clock]
  <2>1. fires'[cur] = Append(old, run) /\ \A t \in Tenants \ {cur} : fires'[t] = fires[t]
    BY <1>2, <1>5 DEF SlotInv, TypeOK
  <2>2. old \in Seq([slot : Nat, at : Nat]) /\ run \in [slot : Nat, at : Nat]
    BY <1>2 DEF SlotInv, TypeOK
  <2>3. /\ saw.slot <= now
        /\ \A i \in DOMAIN old : old[i].slot < saw.slot
        /\ armed[cur] \in Nat => saw.slot < armed[cur]
    BY <1>2 DEF TriggerOne, SlotInv, SlotAtHand
  <2>4. /\ DOMAIN fires'[cur] = 1 .. Len(old) + 1 /\ DOMAIN old = 1 .. Len(old)
        /\ Len(old) \in Nat
        /\ \A i \in DOMAIN old : fires'[cur][i] = old[i]
        /\ fires'[cur][Len(old) + 1] = run
    <3> HIDE DEF old, run
    <3> QED
      BY <2>1, <2>2, AppendedLast
  <2>5. \A i \in DOMAIN fires'[cur] :
          /\ fires'[cur][i].slot <= fires'[cur][i].at
          /\ fires'[cur][i].slot <= now
          /\ \A j \in DOMAIN fires'[cur] :
               i < j => fires'[cur][i].slot < fires'[cur][j].slot
    <3>1. \A i \in DOMAIN old :
            /\ old[i].slot <= old[i].at /\ old[i].slot <= now
            /\ \A j \in DOMAIN old : i < j => old[i].slot < old[j].slot
      BY <1>2 DEF SlotInv, FiredWell
    <3>2. run.slot = saw.slot /\ run.at = clock
      OBVIOUS
    <3> HIDE DEF old, run
    <3> QED
      BY <1>2, <2>3, <2>4, <3>1, <3>2, SMTT(20)
  <2>6. FiredWell'
    BY <1>2, <1>3, <2>1, <2>5 DEF SlotInv, FiredWell
  <2>7. armed[cur] \in Nat => \A i \in DOMAIN fires'[cur] : fires'[cur][i].slot < armed[cur]
    <3>1. armed[cur] \in Nat => \A i \in DOMAIN old : old[i].slot < armed[cur]
      BY <1>2 DEF SlotInv, ArmedAhead
    <3>2. run.slot = saw.slot
      OBVIOUS
    <3> HIDE DEF old, run
    <3> QED
      BY <2>3, <2>4, <3>1, <3>2
  <2>8. ArmedAhead'
    BY <1>2, <1>3, <2>1, <2>7 DEF SlotInv, ArmedAhead
  <2> QED
    BY <1>1, <2>6, <2>8
<1> QED
  BY <1>4, <1>5 DEF TriggerOne

\* Steps that fire nothing and neither arm nor read a schedule.
LEMMA SlotKept ==
  ASSUME SlotInv, fires' = fires, now' >= now, now' \in Nat,
         \A t \in Tenants : armed'[t] = armed[t] \/ armed'[t] = Unarmed,
         \/ pc' \notin {"advance", "gate", "trigger"}
         \/ pc' = pc /\ UNCHANGED <<now, cur, saw>>
         \/ pc = "gate" /\ UNCHANGED <<now, cur, saw>>
  PROVE  FiredWell' /\ ArmedAhead' /\ SlotAtHand'
<1>1. \A t \in Tenants : \A i \in DOMAIN fires[t] : fires[t][i].slot \in Nat
  BY FiredTypes DEF SlotInv
<1>2. now \in Nat
  BY DEF SlotInv, TypeOK
<1>3. FiredWell'
  BY <1>1, <1>2 DEF SlotInv, FiredWell
<1>4. ArmedAhead'
  BY DEF SlotInv, ArmedAhead
<1>5. pc \in {"advance", "gate", "trigger"} => cur \in Tenants
  BY DEF SlotInv, TypeOK
<1>6. SlotAtHand'
  BY <1>5 DEF SlotInv, SlotAtHand
<1> QED
  BY <1>3, <1>4, <1>6

LEMMA SlotStep == SlotInv /\ [Next]_vars => SlotInv'
<1> SUFFICES ASSUME SlotInv, [Next]_vars PROVE FiredWell' /\ ArmedAhead' /\ SlotAtHand'
  BY TypeStep DEF SlotInv
<1> USE DEF SlotInv
<1>1. now \in Nat /\ clock \in Nat /\ now <= clock
  BY DEF TypeOK
<1>2. CASE TickStart
  BY <1>1, <1>2, SlotKept DEF TickStart, schedules
<1>3. CASE \E t \in Tenants : ReadOne(t)
  BY <1>3, SlotRead
<1>4. CASE AdvanceOne
  BY <1>4, SlotAdvance
<1>5. CASE TriggerOne
  BY <1>5, SlotTrigger
<1>6. CASE GateOne
  BY <1>1, <1>6, SlotKept DEF GateOne, Returns, schedules, atHand
<1>7. CASE OneFails
  BY <1>1, <1>7, SlotKept DEF OneFails, Returns, schedules
<1>8. CASE NightlyBegin \/ EnqueueNext \/ StampDay \/ NightFails
  <2>1. UNCHANGED <<fires, now, armed, cur, saw>> /\ pc' \notin {"advance", "gate", "trigger"}
    BY <1>8 DEF NightlyBegin, EnqueueNext, StampDay, NightFails, schedules, tickVars, atHand
  <2> QED
    BY <1>1, <2>1, SlotKept
<1>9. CASE Crash
  BY <1>1, <1>9, SlotKept DEF Crash, schedules
<1>10. CASE Restart
  BY <1>1, <1>10, SlotKept DEF Restart, schedules
<1>11. CASE ClockMoves
  BY <1>1, <1>11, SlotKept DEF ClockMoves, schedules, tickVars, atHand
<1>12. CASE \E t \in Tenants : RunEnters(t) \/ RunLeaves(t) \/ ChangeTenant(t)
  <2>1. UNCHANGED <<fires, now, armed, cur, saw, pc>>
    BY <1>12 DEF RunEnters, RunLeaves, ChangeTenant, schedules, tickVars, atHand
  <2> QED
    BY <1>1, <2>1, SlotKept
<1>13. ASSUME NEW t \in Tenants, NEW c \in Crons, NEW on \in BOOLEAN, PutSchedule(t, c, on)
       PROVE  FiredWell' /\ ArmedAhead' /\ SlotAtHand'
  <2>1. UNCHANGED <<fires, now, cur, saw, pc>>
    BY <1>13 DEF PutSchedule, tickVars, atHand
  <2>2. \A u \in Tenants : armed'[u] = armed[u] \/ armed'[u] = Unarmed
    BY <1>13 DEF PutSchedule, TypeOK
  <2> QED
    BY <1>1, <2>1, <2>2, SlotKept
<1>14. CASE UNCHANGED vars
  BY <1>1, <1>14, SlotKept DEF vars, schedules, tickVars, atHand
<1> QED
  BY <1>2, <1>3, <1>4, <1>5, <1>6, <1>7, <1>8, <1>9, <1>10, <1>11, <1>12, <1>13, <1>14
     DEF Next

\* A slot fires at most one run, never early and in order, whatever fails, is
\* edited or is killed between the commit of next_run_at and the trigger.
THEOREM SlotsFireOnce == Spec => []SlotOnce
<1>1. SlotInv => SlotOnce
  BY DEF SlotInv, FiredWell, SlotOnce
<1> QED
  BY SlotInit, SlotStep, <1>1, PTL DEF Spec
-----------------------------------------------------------------------------
(* The loop                                                                 *)

\* Schedules the tick still has to settle.
Unsettled == todo \cup failed \cup touched \cup (IF pc = "advance" THEN {cur} ELSE {})

SettledWait ==
  pc \notin {"start", "down"} =>
    \A t \in Tenants \ Unsettled : enabled[t] => armed[t] \in Nat /\ armed[t] > now

LoopOver == pc \in {"enqueue", "sleep"} => todo = {}

LoopInv == TypeOK /\ SettledWait /\ LoopOver

LEMMA LoopInit == Init => LoopInv
  BY TypeInit DEF Init, LoopInv, SettledWait, LoopOver

\* Steps that leave the schedules and what the tick knows of them alone.
LEMMA LoopKept ==
  ASSUME LoopInv, UNCHANGED <<enabled, armed, now, todo, failed, touched>>,
         \/ pc' \in {"start", "down"}
         \/ UNCHANGED <<pc, cur>>
         \/ pc \notin {"start", "down", "advance"} /\ pc' # "advance"
            /\ (pc' \in {"enqueue", "sleep"} => todo = {})
  PROVE  SettledWait' /\ LoopOver'
  BY DEF LoopInv, SettledWait, LoopOver, Unsettled

LEMMA LoopStep == LoopInv /\ [Next]_vars => LoopInv'
<1> SUFFICES ASSUME LoopInv, [Next]_vars PROVE SettledWait' /\ LoopOver'
  BY TypeStep DEF LoopInv
<1>1. CASE TickStart
  BY <1>1 DEF TickStart, LoopInv, TypeOK, SettledWait, LoopOver, Unsettled, schedules
<1>2. ASSUME NEW t \in Tenants, ReadOne(t)
      PROVE  SettledWait' /\ LoopOver'
  <2>1. UNCHANGED <<enabled, armed, now, failed, touched>> /\ todo' = todo \ {t}
    BY <1>2 DEF ReadOne, schedules
  <2>2. pc = "loop" /\ pc' \in {"loop", "advance"}
    BY <1>2 DEF ReadOne
  <2>3. CASE armed[t] \in Nat /\ armed[t] > now
    <3>1. pc' = "loop"
      BY <1>2, <2>2, <2>3 DEF ReadOne
    <3> QED
      BY <2>1, <2>2, <2>3, <3>1 DEF LoopInv, SettledWait, LoopOver, Unsettled
  <2>4. CASE ~(armed[t] \in Nat /\ armed[t] > now)
    <3>1. pc' = "advance" /\ cur' = t
      BY <1>2, <2>4 DEF ReadOne
    <3> QED
      BY <2>1, <2>2, <3>1 DEF LoopInv, SettledWait, LoopOver, Unsettled
  <2> QED
    BY <2>3, <2>4
<1>3. CASE AdvanceOne
  <2>1. cur \in Tenants /\ NextFire(saw.cron, now) \in Nat /\ NextFire(saw.cron, now) > now
    BY <1>3, NextFireLater DEF AdvanceOne, LoopInv, TypeOK
  <2>2. armed' = [armed EXCEPT ![cur] = NextFire(saw.cron, now)]
    BY <1>3 DEF AdvanceOne
  <2>3. armed'[cur] \in Nat /\ armed'[cur] > now
        /\ \A t \in Tenants \ {cur} : armed'[t] = armed[t]
    BY <2>1, <2>2 DEF LoopInv, TypeOK
  <2>4. UNCHANGED <<enabled, now, todo, failed, touched>>
    BY <1>3 DEF AdvanceOne
  <2>5. pc = "advance" /\ pc' \in {"loop", "gate"}
    BY <1>3 DEF AdvanceOne, Returns
  <2> QED
    BY <2>3, <2>4, <2>5 DEF LoopInv, SettledWait, LoopOver, Unsettled
<1>4. CASE GateOne \/ TriggerOne
  <2>1. UNCHANGED <<enabled, armed, now, todo, failed, touched>>
    BY <1>4 DEF GateOne, TriggerOne, schedules
  <2>2. pc \in {"gate", "trigger"} /\ pc' \in {"loop", "trigger"}
    BY <1>4 DEF GateOne, TriggerOne, Returns
  <2> QED
    BY <2>1, <2>2, LoopKept
<1>5. CASE OneFails
  BY <1>5 DEF OneFails, Returns, LoopInv, SettledWait, LoopOver, Unsettled, schedules
<1>6. CASE NightlyBegin \/ EnqueueNext \/ StampDay \/ NightFails
  <2>1. UNCHANGED <<enabled, armed, now, todo, failed, touched>>
    BY <1>6 DEF NightlyBegin, EnqueueNext, StampDay, NightFails, schedules, tickVars
  <2>2. \/ pc' = "start"
        \/ pc \in {"loop", "enqueue"} /\ pc' \in {"enqueue", "sleep"} /\ todo = {}
    BY <1>6 DEF NightlyBegin, LoopDone, EnqueueNext, StampDay, NightFails, LoopInv, LoopOver
  <2> QED
    BY <2>1, <2>2, LoopKept
<1>7. CASE Crash \/ Restart
  BY <1>7 DEF Crash, Restart, SettledWait, LoopOver
<1>8. CASE \/ ClockMoves \/ UNCHANGED vars
           \/ \E t \in Tenants : RunEnters(t) \/ RunLeaves(t) \/ ChangeTenant(t)
  <2>1. UNCHANGED <<enabled, armed, now, todo, failed, touched, pc, cur>>
    BY <1>8 DEF ClockMoves, RunEnters, RunLeaves, ChangeTenant, vars, schedules, tickVars, atHand
  <2> QED
    BY <2>1, LoopKept
<1>9. ASSUME NEW t \in Tenants, NEW c \in Crons, NEW on \in BOOLEAN, PutSchedule(t, c, on)
      PROVE  SettledWait' /\ LoopOver'
  <2>1. UNCHANGED <<now, todo, failed, pc, cur>> /\ touched' = touched \cup {t}
    BY <1>9 DEF PutSchedule, tickVars, atHand
  <2>2. \A u \in Tenants \ {t} : armed'[u] = armed[u] /\ enabled'[u] = enabled[u]
    BY <1>9 DEF PutSchedule, LoopInv, TypeOK
  <2> QED
    BY <2>1, <2>2 DEF LoopInv, SettledWait, LoopOver, Unsettled
<1> QED
  BY <1>1, <1>2, <1>3, <1>4, <1>5, <1>6, <1>7, <1>8, <1>9 DEF Next

\* However many schedules raise, every other enabled one is armed for a later
\* time when the loop is through.
THEOREM LoopServesAll == Spec => []NoneLeftBehind
<1>1. LoopInv => NoneLeftBehind
  BY DEF LoopInv, SettledWait, LoopOver, Unsettled, NoneLeftBehind, LoopDone
<1> QED
  BY LoopInit, LoopStep, <1>1, PTL DEF Spec

-----------------------------------------------------------------------------
(* The nights                                                               *)

\* The job has been queued for a night that is stamped, or in this tick.
Accounted(d, i) == d <= stamp \/ (pc = "enqueue" /\ d = DayOf(now) /\ i <= nth)

\* Each time a job was queued is accounted for, or was lost to a failure.
NightsCounted ==
  \A d \in Days, i \in DOMAIN NightlyJobs :
    queued[d][i] <= faults + 1 /\ (~Accounted(d, i) => queued[d][i] <= faults)

QueuedSoFar ==
  pc = "enqueue" =>
    /\ stamp < DayOf(now)
    /\ \A i \in DOMAIN NightlyJobs : i <= nth => queued[DayOf(now)][i] >= 1

NightInv == TypeOK /\ NightsCounted /\ QueuedSoFar /\ NightlyQueued

LEMMA NightInit == Init => NightInv
<1> SUFFICES ASSUME Init PROVE NightInv
  OBVIOUS
<1>1. \A d \in Days, i \in DOMAIN NightlyJobs : queued[d][i] = 0
  BY DEF Init
<1>2. faults = 0 /\ pc = "start" /\ stamp = -1
  BY DEF Init
<1>3. NightsCounted
  BY <1>1, <1>2 DEF NightsCounted
<1>4. QueuedSoFar /\ NightlyQueued
  BY <1>2 DEF QueuedSoFar, NightlyQueued
<1> QED
  BY <1>3, <1>4, TypeInit DEF NightInv

\* Steps before or after the nightly part of a tick.
LEMMA NightKept ==
  ASSUME NightInv, UNCHANGED <<stamp, queued>>, faults' \in Nat, faults' >= faults,
         \/ UNCHANGED <<pc, now, nth>>
         \/ pc # "enqueue" /\ pc' \notin {"enqueue", "sleep"}
  PROVE  NightsCounted' /\ QueuedSoFar' /\ NightlyQueued'
<1>1. faults \in Nat /\ \A d \in Days, i \in DOMAIN NightlyJobs : queued[d][i] \in Nat
  BY DEF NightInv, TypeOK
<1>2. NightsCounted'
  BY <1>1 DEF NightInv, NightsCounted, Accounted
<1>3. QueuedSoFar' /\ NightlyQueued'
  BY DEF NightInv, QueuedSoFar, NightlyQueued
<1> QED
  BY <1>2, <1>3

\* The next job is queued, and the tick goes on or ends with an exception.
QueuesNext ==
  /\ pc = "enqueue" /\ nth < Len(NightlyJobs) /\ UNCHANGED stamp
  /\ queued' = [queued EXCEPT ![DayOf(now)][nth + 1] = @ + 1]
  /\ \/ UNCHANGED <<pc, now, faults>> /\ nth' = nth + 1
     \/ pc' = "start" /\ faults' = faults + 1

LEMMA NightEnqueue ==
  ASSUME NightInv, QueuesNext
  PROVE  NightsCounted' /\ QueuedSoFar' /\ NightlyQueued'
<1> DEFINE d0 == DayOf(now)
           i0 == nth + 1
<1>1. d0 \in Days /\ now \in Nat
  BY DayInDays DEF NightInv, TypeOK
<1>2. i0 \in DOMAIN NightlyJobs /\ nth \in Nat
  BY DEF NightInv, TypeOK, QueuesNext
<1>3. \A d \in Days, i \in DOMAIN NightlyJobs :
        /\ queued[d][i] \in Nat
        /\ queued'[d][i] = IF d = d0 /\ i = i0 THEN queued[d][i] + 1 ELSE queued[d][i]
  BY <1>1, <1>2 DEF NightInv, TypeOK, QueuesNext
<1>4. faults \in Nat /\ d0 \in Int /\ stamp \in Int /\ stamp < d0
  BY <1>1 DEF NightInv, TypeOK, QueuedSoFar, QueuesNext, Days
<1>5. DOMAIN NightlyJobs \subseteq Nat /\ Days \subseteq Int
  BY DEF Days
<1>6. /\ pc' # "start" => UNCHANGED <<pc, now, faults>> /\ nth' = nth + 1
      /\ pc' = "start" => faults' = faults + 1
      /\ pc = "enqueue" /\ UNCHANGED stamp
  BY DEF QueuesNext
<1> HIDE DEF d0, i0
<1>7. NightsCounted'
  <2> SUFFICES ASSUME NEW d \in Days, NEW i \in DOMAIN NightlyJobs
               PROVE  /\ queued'[d][i] <= faults' + 1
                      /\ ~Accounted(d, i)' => queued'[d][i] <= faults'
    BY DEF NightsCounted
  <2>1. queued[d][i] <= faults + 1 /\ (~Accounted(d, i) => queued[d][i] <= faults)
    BY DEF NightInv, NightsCounted
  <2>2. CASE d = d0 /\ i = i0
    <3>1. ~Accounted(d, i)
      BY <1>2, <1>4, <2>2 DEF Accounted, d0, i0
    <3>2. pc' # "start" => Accounted(d, i)'
      BY <1>2, <1>6, <2>2 DEF Accounted, DayOf, d0, i0
    <3>3. queued'[d][i] = queued[d][i] + 1 /\ queued[d][i] \in Nat
      BY <1>3, <2>2
    <3>4. queued[d][i] <= faults
      BY <2>1, <3>1
    <3>5. CASE pc' = "start"
      <4>1. faults' = faults + 1 /\ faults \in Nat
        BY <1>4, <1>6, <3>5
      <4>2. queued'[d][i] <= faults'
        BY <3>3, <3>4, <4>1
      <4>3. queued'[d][i] <= faults' + 1
        BY <3>3, <4>1, <4>2
      <4> QED
        BY <4>2, <4>3
    <3>6. CASE pc' # "start"
      <4>1. queued'[d][i] <= faults' + 1
        BY <1>4, <1>6, <3>3, <3>4, <3>6
      <4> QED
        BY <3>2, <3>6, <4>1
    <3> QED
      BY <3>5, <3>6
  <2>3. CASE ~(d = d0 /\ i = i0)
    <3>1. pc' # "start" /\ Accounted(d, i) => Accounted(d, i)'
      BY <1>2, <1>5, <1>6 DEF Accounted, DayOf
    <3>2. queued'[d][i] = queued[d][i] /\ queued[d][i] \in Nat
      BY <1>3, <2>3
    <3>3. CASE pc' = "start"
      BY <1>4, <1>6, <2>1, <3>2, <3>3
    <3>4. CASE pc' # "start"
      BY <1>4, <1>6, <2>1, <3>1, <3>2, <3>4
    <3> QED
      BY <3>3, <3>4
  <2> QED
    BY <2>2, <2>3
<1>8. \A d \in Days, i \in DOMAIN NightlyJobs : queued'[d][i] >= queued[d][i]
  BY <1>3
<1>9. QueuedSoFar'
  <2> SUFFICES ASSUME pc' = "enqueue", NEW i \in DOMAIN NightlyJobs, i <= i0
               PROVE  stamp < d0 /\ queued'[d0][i] >= 1
    BY <1>4, <1>6 DEF QueuedSoFar, DayOf, d0, i0
  <2>1. CASE i = i0
    <3>1. queued[d0][i] \in Nat /\ queued'[d0][i] = queued[d0][i] + 1
      BY <1>1, <1>3, <2>1
    <3> QED
      BY <1>4, <3>1
  <2>2. CASE i # i0
    <3>1. i <= nth
      <4>1. i \in Nat /\ nth \in Nat /\ i <= nth + 1 /\ i # nth + 1
        BY <1>2, <1>5, <2>2 DEF i0
      <4> QED
        BY <4>1
    <3>2. queued[d0][i] >= 1
      BY <1>6, <3>1 DEF NightInv, QueuedSoFar, d0
    <3>3. queued'[d0][i] = queued[d0][i]
      BY <1>1, <1>3, <2>2
    <3> QED
      BY <1>4, <3>2, <3>3
  <2> QED
    BY <2>1, <2>2
<1>10. NightlyQueued'
  <2>1. stamp >= 0 => stamp \in Days
    BY DEF NightInv, TypeOK
  <2> QED
    BY <1>3, <1>6, <1>8, <2>1 DEF NightInv, NightlyQueued
<1> QED
  BY <1>7, <1>9, <1>10

LEMMA NightStamp ==
  ASSUME NightInv, StampDay
  PROVE  NightsCounted' /\ QueuedSoFar' /\ NightlyQueued'
<1>1. DayOf(now) \in Days /\ Days \subseteq Int /\ stamp \in Int /\ faults \in Nat
  BY DayInDays DEF NightInv, TypeOK, Days
<1>2. /\ pc = "enqueue" /\ nth = Len(NightlyJobs) /\ stamp' = DayOf(now) /\ pc' = "sleep"
      /\ UNCHANGED <<queued, faults, now>>
  BY DEF StampDay, tickVars
<1>3. \A i \in DOMAIN NightlyJobs : i <= nth
  BY <1>2
<1>4. \A i \in DOMAIN NightlyJobs : queued[DayOf(now)][i] >= 1
  BY <1>2, <1>3 DEF NightInv, QueuedSoFar
<1>5. stamp < DayOf(now)
  BY <1>2 DEF NightInv, QueuedSoFar
<1>6. \A d \in Days, i \in DOMAIN NightlyJobs : Accounted(d, i) => Accounted(d, i)'
  BY <1>1, <1>2, <1>5 DEF Accounted, DayOf
<1>7. NightsCounted'
  <2>1. \A d \in Days, i \in DOMAIN NightlyJobs : queued[d][i] \in Nat
    BY DEF NightInv, TypeOK
  <2>2. \A d \in Days, i \in DOMAIN NightlyJobs :
          queued[d][i] <= faults + 1 /\ (~Accounted(d, i) => queued[d][i] <= faults)
    BY DEF NightInv, NightsCounted
  <2> QED
    BY <1>2, <1>6, <2>1, <2>2 DEF NightsCounted
<1>8. QueuedSoFar'
  BY <1>2 DEF QueuedSoFar
<1>9. NightlyQueued'
  <2>1. DayOf(now)' = DayOf(now) /\ DayOf(now) \in Int
    BY <1>1, <1>2 DEF DayOf
  <2> QED
    BY <1>2, <1>4, <2>1 DEF NightlyQueued
<1> QED
  BY <1>7, <1>8, <1>9

LEMMA NightStep == NightInv /\ [Next]_vars => NightInv'
<1> SUFFICES ASSUME NightInv, [Next]_vars
             PROVE  NightsCounted' /\ QueuedSoFar' /\ NightlyQueued'
  BY TypeStep DEF NightInv
<1>1. faults \in Nat
  BY DEF NightInv, TypeOK
<1>2. CASE TickStart \/ AdvanceOne \/ GateOne \/ TriggerOne \/ OneFails
  <2>1. UNCHANGED <<stamp, queued>> /\ faults' \in Nat /\ faults' >= faults
    BY <1>1, <1>2 DEF TickStart, AdvanceOne, GateOne, TriggerOne, OneFails, Fault, nights
  <2>2. pc # "enqueue" /\ pc' \notin {"enqueue", "sleep"}
    BY <1>2 DEF TickStart, AdvanceOne, GateOne, TriggerOne, OneFails, Returns
  <2> QED
    BY <2>1, <2>2, NightKept
<1>3. CASE \E t \in Tenants : ReadOne(t)
  <2>1. UNCHANGED <<stamp, queued, faults>> /\ pc = "loop" /\ pc' \in {"loop", "advance"}
    BY <1>3 DEF ReadOne, nights
  <2> QED
    BY <1>1, <2>1, NightKept
<1>4. CASE NightlyBegin
  <2>1. UNCHANGED <<stamp, queued, faults, now>> /\ pc = "loop"
    BY <1>4 DEF NightlyBegin, LoopDone, tickVars
  <2>2. \A i \in DOMAIN NightlyJobs : i \in Nat /\ i > 0
    OBVIOUS
  <2>3. nth' = 0 /\ DayOf(now)' = DayOf(now)
    BY <1>4, <2>1 DEF NightlyBegin, DayOf
  <2>4. NightsCounted'
    BY <2>1 DEF NightInv, NightsCounted, Accounted
  <2>5. CASE NightDue
    <3>1. pc' = "enqueue" /\ stamp < DayOf(now)
      BY <1>4, <2>5 DEF NightlyBegin, NightDue
    <3>2. QueuedSoFar'
      BY <2>1, <2>2, <2>3, <3>1 DEF QueuedSoFar
    <3>3. NightlyQueued'
      BY <2>1, <3>1 DEF NightInv, NightlyQueued
    <3> QED
      BY <2>4, <3>2, <3>3
  <2>6. CASE ~NightDue
    <3>1. pc' = "sleep"
      BY <1>4, <2>6 DEF NightlyBegin
    <3>2. stamp \in Int /\ DayOf(now) \in Int
      BY DayInDays DEF NightInv, TypeOK, Days
    <3>3. now % DayLength >= MirrorHour => stamp >= DayOf(now)
      BY <2>6, <3>2 DEF NightDue
    <3>4. QueuedSoFar'
      BY <3>1 DEF QueuedSoFar
    <3>5. NightlyQueued'
      BY <2>1, <2>3, <3>3 DEF NightInv, NightlyQueued
    <3> QED
      BY <2>4, <3>4, <3>5
  <2> QED
    BY <2>5, <2>6
<1>5. CASE EnqueueNext
  <2>1. UNCHANGED <<stamp, pc, now, faults>>
    BY <1>5 DEF EnqueueNext, tickVars
  <2> QED
    BY <1>5, <2>1, NightEnqueue DEF EnqueueNext, QueuesNext
<1>6. CASE StampDay
  BY <1>6, NightStamp
<1>7. CASE NightFails
  <2>1. UNCHANGED stamp /\ pc' = "start" /\ faults' = faults + 1
    BY <1>7 DEF NightFails, Fault
  <2>2. CASE UNCHANGED queued
    <3>1. \A d \in Days, i \in DOMAIN NightlyJobs : queued[d][i] \in Nat
      BY DEF NightInv, TypeOK
    <3>2. NightsCounted'
      BY <1>1, <2>1, <2>2, <3>1 DEF NightInv, NightsCounted, Accounted
    <3> QED
      BY <2>1, <2>2, <3>2 DEF NightInv, QueuedSoFar, NightlyQueued
  <2>3. CASE ~UNCHANGED queued
    BY <1>7, <2>1, <2>3, NightEnqueue DEF NightFails, QueuesNext
  <2> QED
    BY <2>2, <2>3
<1>8. CASE Crash
  <2>1. UNCHANGED <<stamp, queued>> /\ pc' = "down" /\ faults' = faults + 1
    BY <1>8 DEF Crash, Fault
  <2>2. \A d \in Days, i \in DOMAIN NightlyJobs : queued[d][i] \in Nat
    BY DEF NightInv, TypeOK
  <2>3. NightsCounted'
    BY <1>1, <2>1, <2>2 DEF NightInv, NightsCounted, Accounted
  <2> QED
    BY <2>1, <2>3 DEF NightInv, QueuedSoFar, NightlyQueued
<1>9. CASE Restart
  BY <1>1, <1>9, NightKept DEF Restart, nights
<1>10. CASE ClockMoves \/ UNCHANGED vars
  BY <1>1, <1>10, NightKept DEF ClockMoves, vars, nights, tickVars
<1>11. CASE \E t \in Tenants : RunEnters(t) \/ RunLeaves(t) \/ ChangeTenant(t)
  <2>1. UNCHANGED <<stamp, queued, pc, now, nth, faults>>
    BY <1>11 DEF RunEnters, RunLeaves, ChangeTenant, nights, tickVars
  <2> QED
    BY <1>1, <2>1, NightKept
<1>12. CASE \E t \in Tenants, c \in Crons, on \in BOOLEAN : PutSchedule(t, c, on)
  <2>1. UNCHANGED <<stamp, queued, pc, now, nth, faults>>
    BY <1>12 DEF PutSchedule, nights, tickVars
  <2> QED
    BY <1>1, <2>1, NightKept
<1> QED
  BY <1>2, <1>3, <1>4, <1>5, <1>6, <1>7, <1>8, <1>9, <1>10, <1>11, <1>12 DEF Next

\* A stamped night was queued entirely, and a tick past the mirror hour that
\* ends well leaves its night stamped.
THEOREM NightsComplete == Spec => []NightlyQueued
<1>1. NightInv => NightlyQueued
  BY DEF NightInv
<1> QED
  BY NightInit, NightStep, <1>1, PTL DEF Spec

\* A nightly job is queued at most once, and once more for each failure.
THEOREM NightsRepeatForFaults == Spec => []NightlyRepeats
<1>1. NightInv => NightlyRepeats
  <2> SUFFICES ASSUME NightInv, NEW d \in Days, NEW i \in DOMAIN NightlyJobs
               PROVE  queued[d][i] <= 1 + faults
    BY DEF NightlyRepeats
  <2>1. queued[d][i] <= faults + 1
    BY DEF NightInv, NightsCounted
  <2>2. faults \in Nat /\ queued[d][i] \in Nat
    BY DEF NightInv, TypeOK
  <2> QED
    BY <2>1, <2>2
<1> QED
  BY NightInit, NightStep, <1>1, PTL DEF Spec

\* Both: for any tenants, schedules, faults and restarts the nights are kept.
THEOREM NightsHold == Spec => []NightsKept
<1>1. Spec => []NightlyQueued /\ []NightlyRepeats
  BY NightsComplete, NightsRepeatForFaults
<1>2. NightlyQueued /\ NightlyRepeats => NightsKept
  BY DEF NightsKept
<1> QED
  BY <1>1, <1>2, PTL
=============================================================================
