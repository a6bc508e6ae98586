------------------------------- MODULE Drafts -------------------------------
(***************************************************************************)
(* Paid drafting outside runs: corrective content for a gap                *)
(* (api/content_service.py) and a configuration from a domain              *)
(* (api/config_draft_service.py), each one request that checks the month's *)
(* spend and the hour's drafts, books, calls the model and stores.  People *)
(* move a content draft through its states meanwhile, and engine checks    *)
(* (worker/smoke.py) spend from the same ledger.                           *)
(*                                                                         *)
(* A body is the request that wrote it.  Costs are in cents.               *)
(***************************************************************************)
EXTENDS Integers, FiniteSets, FiniteSetsExt, Sequences

CONSTANTS
    Requests,     \* request -> [kind, gap]; kind content_draft or config_draft
    DraftCost, CheckCost, Cap,
    PerHour,      \* kind -> drafts per hour
    MaxAttempts,  \* of router.complete
    HoursPerMonth,
    MaxHours, MaxPatches, MaxChecks   \* bounds of the model

ASSUME DraftsAssumption ==
    /\ {DraftCost, CheckCost, Cap, MaxHours} \subseteq Nat
    /\ MaxAttempts \in Nat \ {0} /\ HoursPerMonth \in Nat \ {0}
    /\ IsFiniteSet(DOMAIN Requests) /\ PerHour \in [{"content_draft", "config_draft"} -> Nat]
    /\ \A r \in DOMAIN Requests : Requests[r].kind \in DOMAIN PerHour

VARIABLES
    hour,
    ledger,   \* spend_entries: set of [by, kind, at], by the request or the check's number
    request,  \* request -> [phase, attempts, target, reopen]
    drafts,   \* content_drafts by id: [gap, body, status, signed, raced]
    peak,     \* history: most requests ever between their check and booking
    patches

draftsVars == <<hour, ledger, request, drafts, peak, patches>>
-----------------------------------------------------------------------------
Month(h) == h \div HoursPerMonth
Checks == {e \in ledger : e.kind = "engine_check"}
Cost(S) == DraftCost * Cardinality(S \ Checks) + CheckCost * Cardinality(S \cap Checks)
SpentIn(m) == Cost({e \in ledger : Month(e.at) = m})
Recent(kind) == {e \in ledger : e.kind = kind /\ e.at >= hour - 1}
Enter(id, kind) == ledger \cup {[by |-> id, kind |-> kind, at |-> hour]}
In(phase) == {r \in DOMAIN Requests : request[r].phase = phase}
NewRequest == [phase |-> "new", attempts |-> 0, target |-> 0, reopen |-> FALSE]
Done(r) == [request EXCEPT ![r] = [NewRequest EXCEPT !.phase = "done"]]
Move(r, phase) == [request EXCEPT ![r].phase = phase]

\* No approval for AI processing, no model, no key, no such gap, or a gap that
\* was never measured: refused before anything is read.
Refuse(r) ==
    /\ request[r].phase = "new"
    /\ request' = Done(r)
    /\ UNCHANGED <<hour, ledger, drafts, peak, patches>>

\* Mutant: the draft's own cost is left out of the check.
Mutant_Affordable == SpentIn(Month(hour)) =< Cap

Affordable == SpentIn(Month(hour)) + DraftCost =< Cap

\* Mutant: the limit itself still passes.
Mutant_Slack(kind) == Cardinality(Recent(kind)) =< PerHour[kind]

Slack(kind) == Cardinality(Recent(kind)) < PerHour[kind]

CheckBudget(r) ==
    /\ request[r].phase = "new"
    /\ IF Affordable /\ Slack(Requests[r].kind)
       THEN /\ request' = Move(r, "checked")
            /\ peak' = Max({peak, Cardinality(In("checked")) + 1})
       ELSE request' = Done(r) /\ peak' = peak
    /\ UNCHANGED <<hour, ledger, drafts, patches>>

\* A configuration draft reads the homepage between its check and this.
Book(r) ==
    /\ request[r].phase = "checked"
    /\ ledger' = Enter(r, Requests[r].kind)
    /\ request' = Move(r, "booked")
    /\ UNCHANGED <<hour, drafts, peak, patches>>

\* router.complete: a transient failure is tried again, without booking again.
Complete(r) ==
    /\ request[r].phase = "booked"
    /\ \/ request' = IF Requests[r].kind = "content_draft" THEN Move(r, "answered") ELSE Done(r)
       \/ /\ request[r].attempts + 1 < MaxAttempts
          /\ request' = [request EXCEPT ![r].attempts = @ + 1]
       \/ request' = Done(r)
    /\ UNCHANGED <<hour, ledger, drafts, peak, patches>>

Working == {"draft", "dismissed"}

\* Mutant: whatever state the gap's draft is in, it is the one to replace.
Mutant_WorkingDrafts(gap) == {d \in DOMAIN drafts : drafts[d].gap = gap}

WorkingDrafts(gap) ==
    {d \in DOMAIN drafts : drafts[d].gap = gap /\ drafts[d].status \in Working}

SelectDraft(r) ==
    /\ request[r].phase = "answered"
    /\ LET found == WorkingDrafts(Requests[r].gap)
       IN \E d \in IF found = {} THEN {0} ELSE found :
             request' = [request EXCEPT
                 ![r].phase = "selected", ![r].target = d,
                 ![r].reopen = d # 0 /\ drafts[d].status # "draft"]
    /\ UNCHANGED <<hour, ledger, drafts, peak, patches>>

\* The body is the request's text; signed, the text a person approved.
NewDraft(r) == [gap |-> Requests[r].gap, body |-> r, status |-> "draft",
                signed |-> "none", raced |-> FALSE]

\* The update names the columns that changed: the status only when the row was
\* read as something else than a draft.
StoreDraft(r) ==
    /\ request[r].phase = "selected"
    /\ LET d == request[r].target
       IN drafts' = IF d = 0
                    THEN Append(drafts, NewDraft(r))
                    ELSE [drafts EXCEPT ![d].body = r,
                              ![d].status = IF request[r].reopen THEN "draft" ELSE @]
    /\ request' = Done(r)
    /\ UNCHANGED <<hour, ledger, peak, patches>>

\* A person sets a draft's status; the text they approve is history.
PatchDraft(d, status) ==
    /\ patches < MaxPatches /\ patches' = patches + 1
    /\ d \in DOMAIN drafts /\ drafts[d].status # status
    /\ drafts' = [drafts EXCEPT
           ![d].status = status,
           ![d].signed = IF status \in Working THEN "none" ELSE drafts[d].body,
           ![d].raced = \E r \in In("selected") : request[r].target = d]
    /\ UNCHANGED <<hour, ledger, request, peak>>

\* One engine's test call: booked after the call, whatever the cap.
BookCheck ==
    /\ Cardinality(Checks) < MaxChecks
    /\ ledger' = Enter(Cardinality(Checks), "engine_check")
    /\ UNCHANGED <<hour, request, drafts, peak, patches>>

HourPasses ==
    /\ hour < MaxHours /\ hour' = hour + 1
    /\ UNCHANGED <<ledger, request, drafts, peak, patches>>
-----------------------------------------------------------------------------
DraftsInit ==
    /\ hour = 0 /\ ledger = {} /\ drafts = <<>> /\ peak = 1 /\ patches = 0
    /\ request = [r \in DOMAIN Requests |-> NewRequest]

DraftsNext ==
    \/ \E r \in DOMAIN Requests : \/ Refuse(r) \/ CheckBudget(r) \/ Book(r) \/ Complete(r)
                                  \/ SelectDraft(r) \/ StoreDraft(r)
    \/ \E d \in DOMAIN drafts : \E s \in Working \cup {"approved", "published"} :
           PatchDraft(d, s)
    \/ BookCheck \/ HourPasses

DraftsSpec == DraftsInit /\ [][DraftsNext]_draftsVars
-----------------------------------------------------------------------------
(* Properties *)

\* Drafts overrun the month's cap, and the hour's limit, by no more than the
\* requests that were between their check and their booking at once, plus the
\* engine checks, which no cap stops.
OverrunBounded ==
    /\ \A m \in 0..Month(MaxHours) :
          SpentIn(m) =< Cap + (peak - 1) * DraftCost + Cost(Checks)
    /\ \A kind \in DOMAIN PerHour : \A h \in 0..hour :
          Cardinality({e \in ledger : e.kind = kind /\ e.at \in {h - 1, h}})
              =< PerHour[kind] + peak - 1

\* The text a person approved or published stands, and so does their approval,
\* however often the gap is drafted again, unless a request had the row in hand
\* when they approved it.
Stands(d) == drafts[d].status \notin Working /\ drafts[d].body = drafts[d].signed

ApprovedTextStands ==
    \A d \in DOMAIN drafts : drafts[d].signed # "none" /\ ~drafts[d].raced => Stands(d)

\* "Concurrent clicks each see the others' entries", as the comment has it.
ClicksSeeEachOther == Cost({e \in ledger \ Checks : Month(e.at) = Month(hour)}) =< Cap

\* "Never a draft a person has approved or published", as the comment has it.
ApprovedNeverReplaced == \A d \in DOMAIN drafts : drafts[d].signed # "none" => Stands(d)
=============================================================================
