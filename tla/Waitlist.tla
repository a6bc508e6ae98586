------------------------------ MODULE Waitlist ------------------------------
(***************************************************************************)
(* The public signup form (api/routes/waitlist.py, api/waitlist_service.py)*)
(* and the admin's list of signups: requests of one address counted in     *)
(* Redis by two commands that can each fail or lose its answer, then a row *)
(* per e-mail read and written in two steps, while an admin moves rows     *)
(* along.  A blank or malformed form is counted, then refused.             *)
(***************************************************************************)
EXTENDS Integers, FiniteSets

CONSTANTS
    EmailOf,     \* request -> the e-mail it signs up
    RATE_LIMIT,
    MaxMoves     \* bound of the model

ASSUME WaitlistAssumption == RATE_LIMIT \in Nat /\ MaxMoves \in Nat

VARIABLES
    counter,  \* the address's rate key: [hits, armed]
    leaked,   \* history: the key's first hit came and went without its EXPIRE
    signup,   \* request -> [phase, hits, seen]
    list,     \* e-mail -> its row [status, submissions], 0 submissions for none
    moved,    \* history: e-mail -> the status an admin last gave it
    saved,    \* history: e-mail -> submissions that were stored
    clashed,  \* history: e-mails two requests had in hand at once
    moves

waitlistVars == <<counter, leaked, signup, list, moved, saved, clashed, moves>>
-----------------------------------------------------------------------------
Signups == DOMAIN EmailOf
Emails == {EmailOf[r] : r \in Signups}
Statuses == {"new", "contacted", "invited", "activated", "declined"}
NoRow == [status |-> "new", submissions |-> 0]
NoKey == [hits |-> 0, armed |-> FALSE]
Reaches(r, phase) == [signup EXCEPT ![r].phase = phase]
InPhase(phases) == {r \in Signups : signup[r].phase \in phases}

\* The honeypot was filled in; or, past the count, the form is blank or malformed.
DropSignup(r) ==
    /\ signup[r].phase \in {"new", "let in"} /\ signup' = Reaches(r, "done")
    /\ UNCHANGED <<counter, leaked, list, moved, saved, clashed, moves>>

\* Mutant: the hit that reaches the limit arms the window.
Mutant_Arms(hits) == hits = RATE_LIMIT

Arms(hits) == hits = 1

\* INCR, answered or not; a request whose INCR raises goes on uncounted.
CountRequest(r) ==
    /\ signup[r].phase = "new"
    /\ LET hits == counter.hits + 1 IN
       \/ /\ counter' = [counter EXCEPT !.hits = hits]
          /\ signup' = [signup EXCEPT ![r].phase = "counted", ![r].hits = hits]
          /\ leaked' = leaked
       \/ /\ counter' = [counter EXCEPT !.hits = hits]
          /\ signup' = Reaches(r, "let in")
          /\ leaked' = (leaked \/ Arms(hits))
       \/ UNCHANGED <<counter, leaked>> /\ signup' = Reaches(r, "let in")
    /\ UNCHANGED <<list, moved, saved, clashed, moves>>

\* EXPIRE, on the first hit only, and the verdict.
JudgeRequest(r) ==
    /\ signup[r].phase = "counted"
    /\ counter' = IF Arms(signup[r].hits) THEN [counter EXCEPT !.armed = TRUE] ELSE counter
    /\ signup' = Reaches(r, IF signup[r].hits > RATE_LIMIT THEN "refused" ELSE "let in")
    /\ UNCHANGED <<leaked, list, moved, saved, clashed, moves>>

\* The EXPIRE raises, done or not: no verdict, and the request is let in.
ExpireFails(r) ==
    /\ signup[r].phase = "counted" /\ Arms(signup[r].hits)
    /\ \E armed \in BOOLEAN : /\ counter' = [counter EXCEPT !.armed = armed]
                            /\ leaked' = (leaked \/ ~armed)
    /\ signup' = Reaches(r, "let in")
    /\ UNCHANGED <<list, moved, saved, clashed, moves>>

WindowEnds ==
    /\ counter.armed /\ counter' = NoKey
    /\ UNCHANGED <<leaked, signup, list, moved, saved, clashed, moves>>

\* submit: the row as this request saw it.
ReadRow(r) ==
    /\ signup[r].phase = "let in"
    /\ signup' = [signup EXCEPT ![r].phase = "read", ![r].seen = list[EmailOf[r]].submissions]
    /\ clashed' = IF \E q \in InPhase({"read"}) : EmailOf[q] = EmailOf[r]
                  THEN clashed \cup {EmailOf[r]} ELSE clashed
    /\ UNCHANGED <<counter, leaked, list, moved, saved, moves>>

\* Mutant: a resubmission starts over as new.
Mutant_Resubmitted(row, seen) == [status |-> "new", submissions |-> seen + 1]

Resubmitted(row, seen) == [row EXCEPT !.submissions = seen + 1]

\* A second insert of an e-mail breaks its unique key and fails the request.
SaveRow(r) ==
    LET e == EmailOf[r]
        seen == signup[r].seen
    IN /\ signup[r].phase = "read"
       /\ IF seen = 0 /\ list[e].submissions > 0
          THEN list' = list /\ saved' = saved
          ELSE /\ list' = [list EXCEPT ![e] = Resubmitted(@, seen)]
               /\ saved' = [saved EXCEPT ![e] = @ + 1]
       /\ signup' = Reaches(r, "done")
       /\ UNCHANGED <<counter, leaked, moved, clashed, moves>>

\* The API dies with the request; only the rate key outlives it.
KillSignup(r) ==
    /\ r \in InPhase({"counted", "let in", "read"})
    /\ leaked' = (leaked \/ (signup[r].phase = "counted" /\ Arms(signup[r].hits)))
    /\ signup' = Reaches(r, "done")
    /\ UNCHANGED <<counter, list, moved, saved, clashed, moves>>

MoveSignup(e, status) ==
    /\ moves < MaxMoves /\ moves' = moves + 1
    /\ list[e].submissions > 0 /\ list[e].status # status
    /\ list' = [list EXCEPT ![e].status = status]
    /\ moved' = [moved EXCEPT ![e] = status]
    /\ UNCHANGED <<counter, leaked, signup, saved, clashed>>
-----------------------------------------------------------------------------
WaitlistInit ==
    /\ counter = NoKey /\ leaked = FALSE /\ clashed = {} /\ moves = 0
    /\ signup = [r \in Signups |-> [phase |-> "new", hits |-> 0, seen |-> 0]]
    /\ list = [e \in Emails |-> NoRow] /\ moved = [e \in Emails |-> "new"]
    /\ saved = [e \in Emails |-> 0]

WaitlistNext ==
    \/ \E r \in Signups : \/ DropSignup(r) \/ CountRequest(r) \/ JudgeRequest(r) \/ ExpireFails(r)
                          \/ ReadRow(r) \/ SaveRow(r) \/ KillSignup(r)
    \/ WindowEnds
    \/ \E e \in Emails : \E s \in Statuses : MoveSignup(e, s)

WaitlistSpec == WaitlistInit /\ [][WaitlistNext]_waitlistVars
-----------------------------------------------------------------------------
(* Properties *)

\* However signups and admins interleave, a row keeps the status an admin gave
\* it ("a resubmission updates the details without resetting the status"), and
\* its count of submissions is exact unless two requests had it in hand at once.
SignupsStand ==
    \A e \in Emails : /\ list[e].status = moved[e]
                      /\ e \notin clashed => list[e].submissions = saved[e]

\* A rate key no expiry will clear, so that its address is refused for good once
\* it is over the limit, is what a first hit leaves whose EXPIRE was not carried
\* out: the API died before it, it failed, or INCR's answer was lost; nothing
\* that comes later repairs it, and nothing else makes one.
WindowsEnd ==
    counter.hits > 0 /\ ~counter.armed <=>
        leaked \/ \E r \in InPhase({"counted"}) : Arms(signup[r].hits)

\* A sign-up never loses what is known of an address to other requests or
\* admins, nor locks its address out but for a first hit without its EXPIRE.
WaitlistHolds == SignupsStand /\ WindowsEnd

\* "Never lose a signup to a Redis problem", as the comment has it: whoever is
\* over the limit is over it until its window ends.
NoLockout == counter.hits > RATE_LIMIT => counter.armed
=============================================================================
