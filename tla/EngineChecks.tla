---------------------------- MODULE EngineChecks ----------------------------
(***************************************************************************)
(* Which engines a tenant runs and whether each one works: the admin's     *)
(* switch (routes/admin.py toggle_surface), the patch of the tenant that   *)
(* writes the approvals alone (patch_tenant), the configuration import     *)
(* that replaces both (api/yaml_import.py), the engine check that calls    *)
(* every eligible engine once (worker/smoke.py), and the readiness verdict *)
(* that weighs the newest check against the newest finished run            *)
(* (api/readiness_service.py).                                             *)
(*                                                                         *)
(* Import-only engines and engines without an adapter are left out: their  *)
(* verdict does not depend on checks.  `clock` orders the evidence.        *)
(***************************************************************************)
EXTENDS Integers, FiniteSets, FiniteSetsExt, Sequences, SequencesExt

CONSTANTS
    Engines,     \* dispatchable engines, in ENGINE_PRIORITY order
    MaxEngines,  \* the plan's limit
    Toggles,     \* toggle requests
    RunOutcomes,   \* what a run's answers may show of an engine
    CheckStatuses, \* what a check may show of it
    MaxClock, MaxRuns, MaxRewrites   \* bounds of the model

ASSUME EnginesAssumption ==
    /\ Engines # <<>> /\ Engines \in Seq(ToSet(Engines))
    /\ MaxEngines \in Nat /\ MaxClock \in Nat /\ MaxRuns \in Nat /\ MaxRewrites \in Nat
    /\ RunOutcomes \subseteq {"ok", "blocked", "error", "withheld", "missing_key", "not_run_yet"}
    /\ CheckStatuses \subseteq {"ok", "failed", "blocked", "not_configured", "parse_problem"}

VARIABLES
    clock,
    enabled,   \* tenant_surfaces rows switched on
    approved,  \* tenant.approved_surfaces
    toggle,    \* request -> [phase, engine, on, was, read, gone]
    granted,   \* history: engines a patch left out of step, untouched since
    raced,     \* history: a toggle overlapped a writer since the lists were last set
    runs,      \* by id: [status, at, result]; result: engine -> outcome
    checks,    \* engine -> its newest engine_checks row [status, at]
    smoke,     \* engines the running engine check has left
    rewrites   \* imports and patches so far

enginesVars ==
    <<clock, enabled, approved, toggle, granted, raced, runs, checks, smoke, rewrites>>
-----------------------------------------------------------------------------
Codes == ToSet(Engines)

\* The plan's limit takes the first engines in order.
CapEngines(codes) ==
    {Engines[i] : i \in {j \in DOMAIN Engines :
        Engines[j] \in codes /\ Cardinality({k \in 1..j : Engines[k] \in codes}) =< MaxEngines}}

\* eligible_surfaces: on, approved, and inside the plan's limit.
Eligible == CapEngines(enabled \cap approved)

Tick == clock < MaxClock /\ clock' = clock + 1

Reading == {t \in Toggles : toggle[t].phase = "read"}
NewToggle == [phase |-> "new", engine |-> Head(Engines), on |-> FALSE, was |-> FALSE,
              read |-> {}, gone |-> FALSE]

\* The request's engine and switch, the row and the tenant's list as read.
ReadToggle(t, e, on) ==
    /\ toggle[t].phase = "new"
    /\ toggle' = [toggle EXCEPT ![t] = [NewToggle EXCEPT
                     !.phase = "read", !.engine = e, !.on = on, !.was = e \in enabled,
                     !.read = approved]]
    /\ raced' = (raced \/ Reading # {})
    /\ UNCHANGED <<clock, enabled, approved, granted, runs, checks, smoke, rewrites>>

\* Mutant: switching off leaves the approval.
Mutant_ApprovedAfter(was, e, on) == IF on THEN was \cup {e} ELSE was

ApprovedAfter(was, e, on) == IF on THEN was \cup {e} ELSE was \ {e}

\* Each row is written only when its value changed; a row an import replaced
\* meanwhile fails the request.
WriteToggle(t) ==
    /\ toggle[t].phase = "read"
    /\ LET req == toggle[t]
           switched == req.on # req.was
           after == ApprovedAfter(req.read, req.engine, req.on)
       IN IF switched /\ req.gone THEN UNCHANGED <<enabled, approved>>
          ELSE /\ enabled' = IF ~switched THEN enabled
                             ELSE IF req.on THEN enabled \cup {req.engine}
                             ELSE enabled \ {req.engine}
               /\ approved' = IF after = req.read THEN approved ELSE after
    /\ toggle' = [toggle EXCEPT ![t] = [NewToggle EXCEPT !.phase = "done"]]
    /\ granted' = granted \ {toggle[t].engine}
    /\ UNCHANGED <<clock, raced, runs, checks, smoke, rewrites>>

OutOfStep == (enabled \ approved) \cup (approved \ enabled)

\* A configuration that lists engines deletes every switch and writes its own,
\* and approves what it switches on.
ImportEngines(S) ==
    /\ rewrites < MaxRewrites /\ rewrites' = rewrites + 1
    /\ enabled' = S /\ approved' = S /\ granted' = {}
    /\ toggle' = [t \in Toggles |-> [toggle[t] EXCEPT !.gone = t \in Reading]]
    /\ raced' = (Reading # {})
    /\ UNCHANGED <<clock, runs, checks, smoke>>

\* The tenant's approvals are set outright; the switches stay as they are.
PatchApproved(S) ==
    /\ rewrites < MaxRewrites /\ rewrites' = rewrites + 1
    /\ UNCHANGED <<clock, enabled, toggle, runs, checks, smoke>>
    /\ approved' = S /\ granted' = OutOfStep'
    /\ raced' = (Reading # {})
-----------------------------------------------------------------------------
StartRun ==
    /\ Len(runs) < MaxRuns /\ Eligible # {}
    /\ runs' = Append(runs, [status |-> "running", at |-> 0,
                             result |-> [e \in Eligible |-> "withheld"]])
    /\ UNCHANGED <<clock, enabled, approved, toggle, granted, raced, checks, smoke, rewrites>>

\* What the run's answers show of each engine is settled when it ends.
FinishRun(i) ==
    /\ runs[i].status = "running" /\ Tick
    /\ \E s \in {"complete", "failed"}, out \in [DOMAIN runs[i].result -> RunOutcomes] :
          runs' = [runs EXCEPT ![i] = [status |-> s, at |-> clock, result |-> out]]
    /\ UNCHANGED <<enabled, approved, toggle, granted, raced, checks, smoke, rewrites>>

ResumeRun(i) ==
    /\ runs[i].status = "failed"
    /\ runs' = [runs EXCEPT ![i].status = "running"]
    /\ UNCHANGED <<clock, enabled, approved, toggle, granted, raced, checks, smoke, rewrites>>

StartSmoke ==
    /\ smoke = {} /\ Eligible # {}
    /\ smoke' = Eligible
    /\ UNCHANGED <<clock, enabled, approved, toggle, granted, raced, runs, checks, rewrites>>

\* One engine is called and its row committed, whatever happens to the others.
CheckEngine(e) ==
    /\ e \in smoke /\ Tick
    /\ \E s \in CheckStatuses : checks' = [checks EXCEPT ![e] = [status |-> s, at |-> clock]]
    /\ smoke' = smoke \ {e}
    /\ UNCHANGED <<enabled, approved, toggle, granted, raced, runs, rewrites>>

KillSmoke ==
    /\ smoke # {} /\ smoke' = {}
    /\ UNCHANGED <<clock, enabled, approved, toggle, granted, raced, runs, checks, rewrites>>
-----------------------------------------------------------------------------
(* engine_readiness *)

\* Mutant: runs that have not finished count as evidence too.
Mutant_RunsOf(e) == {i \in DOMAIN runs : e \in DOMAIN runs[i].result}

RunsOf(e) == {i \in DOMAIN runs : runs[i].status # "running" /\ e \in DOMAIN runs[i].result}

RunVerdict(outcome) == IF outcome = "ok" THEN "ready" ELSE outcome
CheckVerdict(status) ==
    CASE status = "ok" -> "check_ok"           [] status = "failed" -> "check_failed"
      [] status = "blocked" -> "blocked"       [] status = "not_configured" -> "missing_key"
      [] status = "parse_problem" -> "check_parse"

\* Mutant: a check counts only when the engine has no run.
Mutant_Fresher(e) == RunsOf(e) = {}

\* A check newer than the last run is the freshest evidence.
Fresher(e) == RunsOf(e) = {} \/ checks[e].at > runs[Max(RunsOf(e))].at

Verdict(e) ==
    IF e \notin enabled \cap approved THEN "off"
    ELSE IF e \notin Eligible THEN "outside_plan"
    ELSE IF checks[e].status # "none" /\ Fresher(e) THEN CheckVerdict(checks[e].status)
    ELSE IF RunsOf(e) = {} THEN "not_run_yet"
    ELSE RunVerdict(runs[Max(RunsOf(e))].result[e])
-----------------------------------------------------------------------------
EnginesInit ==
    /\ clock = 1 /\ enabled = {Head(Engines)} /\ approved = {Head(Engines)} /\ raced = FALSE
    /\ toggle = [t \in Toggles |-> NewToggle]
    /\ runs = <<>> /\ checks = [e \in Codes |-> [status |-> "none", at |-> 0]] /\ smoke = {}
    /\ granted = {} /\ rewrites = 0

\* Who writes the switches and approvals, and what is learnt of the engines.
SwitchesNext ==
    \/ \E t \in Toggles : \/ \E e \in Codes : \E on \in BOOLEAN : ReadToggle(t, e, on)
                          \/ WriteToggle(t)
    \/ \E S \in SUBSET Codes : ImportEngines(S) \/ PatchApproved(S)

ChecksNext ==
    \/ StartRun \/ StartSmoke \/ KillSmoke
    \/ \E i \in DOMAIN runs : FinishRun(i) \/ ResumeRun(i)
    \/ \E e \in Codes : CheckEngine(e)

EnginesNext == SwitchesNext \/ ChecksNext

EnginesSpec == EnginesInit /\ [][EnginesNext]_enginesVars
-----------------------------------------------------------------------------
(* Properties *)

\* What is known of an engine, newest last: <<when, whether it worked, run>>,
\* run 0 for its check.
Evidence(e) ==
    {<<runs[i].at, runs[i].result[e] = "ok", i>> :
         i \in {j \in DOMAIN runs : runs[j].status # "running" /\ e \in DOMAIN runs[j].result}}
    \cup (IF checks[e].at = 0 THEN {} ELSE {<<checks[e].at, checks[e].status = "ok", 0>>})

\* Readiness calls an eligible engine working exactly when the newest evidence,
\* of runs and checks in any order, says so; only a resumed run that ends after
\* a newer run may be overlooked.
VerdictFollowsNewest ==
    \A e \in Eligible : \A x \in Evidence(e) :
        (\A y \in Evidence(e) : y[1] =< x[1]) /\ ~(x[3] # 0 /\ \E y \in Evidence(e) : y[3] > x[3])
            => (Verdict(e) \in {"ready", "check_ok"} <=> x[2])

\* An engine is switched on and not approved, or approved and not switched on,
\* exactly when a patch of the approvals left it so and no toggle of that engine
\* came since: a toggle mends its own engine and parts no other, and an import
\* mends all, unless it overlapped another writer.
ApartForCause == raced \/ OutOfStep = granted

\* "Keeping them in lockstep from this single toggle", as the comment has it.
Lockstep == enabled = approved
=============================================================================
