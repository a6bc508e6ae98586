--------------------------- MODULE ServicesProofs ---------------------------
(* Theorems of the small services that requests race on, for any number of   *)
(* requests: drafts (the text a person approved stands, and how far drafts   *)
(* overrun the cap), engine switches (the switch of an engine and its        *)
(* approval part only when two writers overlap), readiness (the verdict is   *)
(* that of the newest evidence), the waiting list (a row and a rate key      *)
(* outlive the requests, admins and kills that race for them), the page      *)
(* crawl (a page shows the conflicts it was last read with), uploads (hits   *)
(* are counted once, and the two screens agree on them), the nightly copies  *)
(* (no row is lost below a watermark) and the fan-out history (the screens   *)
(* show the latest re-probe of a sub-search).                                *)
EXTENDS SiteData, Warehouse, Drafts, EngineChecks, Waitlist, ShardHistory, FiniteFacts,
        SequenceTheorems, TLAPS
-----------------------------------------------------------------------------
(* Drafts.  ApprovedTextStands is not inductive: that a replacement leaves   *)
(* it alone needs that a request in hand of a row knows of no approval, or   *)
(* that the approval is marked as raced.                                     *)

AskedDrafts == DOMAIN Requests
Gaps == {Requests[r].gap : r \in AskedDrafts}
DraftPhases == {"new", "checked", "booked", "answered", "selected", "done"}
DraftStates == Working \cup {"approved", "published"}

RequestRows == [phase : DraftPhases, attempts : Nat, target : Nat, reopen : BOOLEAN]
DraftRows == [gap : Gaps, body : AskedDrafts, status : DraftStates,
              signed : AskedDrafts \cup {"none"}, raced : BOOLEAN]

DraftTypes == request \in [AskedDrafts -> RequestRows] /\ drafts \in Seq(DraftRows)

\* A request that has a row in hand holds one that exists, and one nobody
\* signed or whose signature was given meanwhile.
Free(d) == drafts[d].signed = "none" \/ drafts[d].raced

InHand ==
  \A r \in AskedDrafts : request[r].phase = "selected" /\ request[r].target # 0 =>
    request[r].target \in DOMAIN drafts /\ Free(request[r].target)

DraftInv == DraftTypes /\ ApprovedTextStands /\ InHand

\* Replacing one row of the table keeps its type and the other rows.
LEMMA RowReplaced ==
  ASSUME NEW s \in Seq(DraftRows), NEW d \in DOMAIN s, NEW row \in DraftRows
  PROVE  LET t == [s EXCEPT ![d] = row]
         IN  /\ t \in Seq(DraftRows) /\ DOMAIN t = DOMAIN s /\ t[d] = row
             /\ \A x \in DOMAIN s : x # d => t[x] = s[x]
  OBVIOUS

LEMMA DraftInit == DraftsInit => DraftInv
  BY DEF DraftsInit, DraftInv, DraftTypes, RequestRows, DraftPhases, NewRequest, AskedDrafts,
     ApprovedTextStands, InHand

\* A request that moves on, with the drafts left alone, and holds no row.
LEMMA RequestMoves ==
  ASSUME DraftInv, UNCHANGED drafts, request' \in [AskedDrafts -> RequestRows],
         NEW r \in AskedDrafts, request'[r].phase # "selected",
         \A q \in AskedDrafts \ {r} : request'[q] = request[q]
  PROVE  DraftInv'
  BY DEF DraftInv, DraftTypes, ApprovedTextStands, Stands, InHand, Free

LEMMA Answering ==
  ASSUME DraftInv, NEW r \in AskedDrafts,
         Refuse(r) \/ CheckBudget(r) \/ Book(r) \/ Complete(r)
  PROVE  DraftInv'
  <1>1. request \in [AskedDrafts -> RequestRows]
    BY DEF DraftInv, DraftTypes
  <1>2. Done(r) \in [AskedDrafts -> RequestRows] /\ Done(r)[r].phase = "done"
        /\ \A q \in AskedDrafts \ {r} : Done(r)[q] = request[q]
    BY <1>1 DEF Done, NewRequest, RequestRows, DraftPhases
  <1>3. ASSUME NEW p \in {"checked", "booked", "answered"}
        PROVE  Move(r, p) \in [AskedDrafts -> RequestRows] /\ Move(r, p)[r].phase = p
               /\ \A q \in AskedDrafts \ {r} : Move(r, p)[q] = request[q]
    BY <1>1, <1>3 DEF Move, RequestRows, DraftPhases
  <1>4. UNCHANGED drafts
    BY DEF Refuse, CheckBudget, Book, Complete
  <1>5. CASE request' \in {Done(r), Move(r, "checked"), Move(r, "booked"), Move(r, "answered")}
    BY <1>2, <1>3, <1>4, <1>5, RequestMoves
  <1>6. CASE request[r].phase = "booked"
             /\ request' = [request EXCEPT ![r].attempts = @ + 1]
    <2>1. /\ request' \in [AskedDrafts -> RequestRows] /\ request'[r].phase = "booked"
          /\ \A q \in AskedDrafts \ {r} : request'[q] = request[q]
      BY <1>1, <1>6 DEF RequestRows
    <2> QED BY <1>4, <2>1, RequestMoves
  <1> QED BY <1>5, <1>6 DEF Refuse, CheckBudget, Book, Complete

\* The row that is taken in hand is a working one, so nobody's text stands in
\* it unless the approval was raced.
LEMMA Selecting ==
  ASSUME DraftInv, NEW r \in AskedDrafts, SelectDraft(r)
  PROVE  DraftInv'
  <1>1. DraftTypes /\ ApprovedTextStands /\ InHand /\ UNCHANGED drafts
    BY DEF DraftInv, SelectDraft
  <1>2. PICK d \in WorkingDrafts(Requests[r].gap) \cup {0} :
          request' = [request EXCEPT
              ![r].phase = "selected", ![r].target = d,
              ![r].reopen = d # 0 /\ drafts[d].status # "draft"]
    BY DEF SelectDraft
  <1>3. d \in Nat
    BY <1>1 DEF WorkingDrafts, DraftTypes
  <1>4. d # 0 => d \in DOMAIN drafts /\ Free(d)
    BY <1>1 DEF WorkingDrafts, ApprovedTextStands, Stands, Free
  <1>5. /\ request' \in [AskedDrafts -> RequestRows] /\ request'[r].target = d
        /\ \A q \in AskedDrafts \ {r} : request'[q] = request[q]
    BY <1>1, <1>2, <1>3, ZenonT(30) DEF DraftTypes, RequestRows, DraftPhases
  <1>6. InHand'
    BY <1>1, <1>4, <1>5 DEF InHand, Free
  <1> QED BY <1>1, <1>5, <1>6 DEF DraftInv, DraftTypes, ApprovedTextStands, Stands

LEMMA Storing ==
  ASSUME DraftInv, NEW r \in AskedDrafts, StoreDraft(r)
  PROVE  DraftInv'
  <1> DEFINE d == request[r].target
  <1>1. /\ DraftTypes /\ ApprovedTextStands /\ InHand
        /\ request[r].phase = "selected" /\ request' = Done(r)
    BY DEF DraftInv, StoreDraft
  <1>2. /\ request' \in [AskedDrafts -> RequestRows] /\ request'[r].phase = "done"
        /\ \A q \in AskedDrafts \ {r} : request'[q] = request[q]
    BY <1>1 DEF DraftTypes, Done, NewRequest, RequestRows, DraftPhases
  <1>3. CASE d = 0
    <2>1. drafts' = Append(drafts, NewDraft(r))
      BY <1>3 DEF StoreDraft
    <2>2. NewDraft(r) \in DraftRows /\ NewDraft(r).signed = "none"
      BY DEF NewDraft, DraftRows, Gaps, DraftStates, Working, AskedDrafts
    <2>3. /\ drafts' \in Seq(DraftRows)
          /\ DOMAIN drafts \subseteq DOMAIN drafts'
          /\ \A x \in DOMAIN drafts : drafts'[x] = drafts[x]
          /\ \A x \in DOMAIN drafts' \ DOMAIN drafts : drafts'[x].signed = "none"
      BY <1>1, <2>1, <2>2 DEF DraftTypes
    <2> QED BY <1>1, <1>2, <2>3 DEF DraftInv, DraftTypes, ApprovedTextStands, Stands,
            InHand, Free
  <1>4. CASE d # 0
    <2>1. d \in DOMAIN drafts /\ Free(d)
      BY <1>1, <1>4 DEF InHand
    <2>2. drafts' = [drafts EXCEPT ![d].body = r,
                        ![d].status = IF request[r].reopen THEN "draft" ELSE @]
      BY <1>4 DEF StoreDraft
    <2>3. /\ drafts' \in Seq(DraftRows) /\ DOMAIN drafts' = DOMAIN drafts
          /\ \A x \in DOMAIN drafts : /\ drafts'[x].signed = drafts[x].signed
                                      /\ drafts'[x].raced = drafts[x].raced
                                      /\ x # d => drafts'[x] = drafts[x]
      <3> DEFINE row == [drafts[d] EXCEPT !.body = r,
                            !.status = IF request[r].reopen THEN "draft" ELSE @]
      <3>1. drafts \in Seq(DraftRows) /\ drafts[d] \in DraftRows
        BY <1>1, <2>1 DEF DraftTypes
      <3>2. row \in DraftRows /\ row.signed = drafts[d].signed /\ row.raced = drafts[d].raced
        BY <3>1 DEF DraftRows, DraftStates, Working
      <3>3. drafts' = [drafts EXCEPT ![d] = row]
        BY <2>1, <2>2, <3>1
      <3> HIDE DEF row
      <3> QED BY <2>1, <3>1, <3>2, <3>3, RowReplaced
    <2>4. ApprovedTextStands'
      BY <1>1, <2>1, <2>3 DEF ApprovedTextStands, Stands, Free
    <2>5. InHand'
      BY <1>1, <1>2, <2>3 DEF InHand, Free
    <2> QED BY <1>2, <2>3, <2>4, <2>5 DEF DraftInv, DraftTypes
  <1> QED BY <1>3, <1>4

\* A person signs the text they see; a request that has the row in hand then
\* marks the signature as raced.
LEMMA Patching ==
  ASSUME DraftInv, NEW d \in DOMAIN drafts, NEW s \in DraftStates, PatchDraft(d, s)
  PROVE  DraftInv'
  <1> DEFINE meanwhile == \E r \in In("selected") : request[r].target = d
             signed == IF s \in Working THEN "none" ELSE drafts[d].body
  <1>1. /\ DraftTypes /\ ApprovedTextStands /\ InHand /\ UNCHANGED request
        /\ drafts' = [drafts EXCEPT ![d].status = s, ![d].signed = signed, ![d].raced = meanwhile]
    BY DEF DraftInv, PatchDraft
  <1>2. signed \in AskedDrafts \cup {"none"} /\ meanwhile \in BOOLEAN
    <2>1. meanwhile \in BOOLEAN
      OBVIOUS
    <2>2. drafts \in Seq(DraftRows)
      BY <1>1 DEF DraftTypes
    <2>3. drafts[d] \in DraftRows
      BY <2>2
    <2>4. drafts[d].body \in AskedDrafts
      BY <2>3 DEF DraftRows
    <2> QED BY <2>1, <2>4
  <1>3. \A r \in AskedDrafts : request[r].phase = "selected" /\ request[r].target = d => meanwhile
    BY DEF In, AskedDrafts
  <1>4. signed # "none" => s \notin Working /\ drafts[d].body = signed
    OBVIOUS
  <1> HIDE DEF meanwhile, signed
  <1>5. /\ drafts' \in Seq(DraftRows) /\ DOMAIN drafts' = DOMAIN drafts
        /\ \A x \in DOMAIN drafts : x # d => drafts'[x] = drafts[x]
        /\ drafts'[d].status = s /\ drafts'[d].signed = signed /\ drafts'[d].raced = meanwhile
        /\ drafts'[d].body = drafts[d].body
    <2> DEFINE row == [drafts[d] EXCEPT !.status = s, !.signed = signed, !.raced = meanwhile]
    <2>1. drafts \in Seq(DraftRows) /\ drafts[d] \in DraftRows
      BY <1>1 DEF DraftTypes
    <2>2. /\ row \in DraftRows /\ row.body = drafts[d].body
          /\ row.status = s /\ row.signed = signed /\ row.raced = meanwhile
      BY <1>2, <2>1 DEF DraftRows
    <2>3. drafts' = [drafts EXCEPT ![d] = row]
      BY <1>1, <2>1
    <2> HIDE DEF row
    <2> QED BY <2>1, <2>2, <2>3, RowReplaced
  <1>6. ApprovedTextStands'
    BY <1>1, <1>4, <1>5 DEF ApprovedTextStands, Stands
  <1>7. InHand'
    BY <1>1, <1>3, <1>5 DEF InHand, Free
  <1> QED BY <1>1, <1>5, <1>6, <1>7 DEF DraftInv, DraftTypes

LEMMA DraftStep == DraftInv /\ [DraftsNext]_draftsVars => DraftInv'
  <1> SUFFICES ASSUME DraftInv, [DraftsNext]_draftsVars PROVE DraftInv'
    OBVIOUS
  <1>1. CASE BookCheck \/ HourPasses \/ UNCHANGED draftsVars
    <2>1. UNCHANGED <<request, drafts>>
      BY <1>1 DEF BookCheck, HourPasses, draftsVars
    <2> QED BY <2>1 DEF DraftInv, DraftTypes, ApprovedTextStands, Stands, InHand, Free
  <1> QED BY <1>1, Answering, Selecting, Storing, Patching DEF DraftsNext, AskedDrafts, DraftStates

\* For any requests, prices, limits and people: approved text stands unless a
\* request had the row in hand when it was approved.
THEOREM ApprovalHolds == DraftsSpec => []ApprovedTextStands
  <1>1. DraftInv => ApprovedTextStands
    BY DEF DraftInv
  <1> QED BY DraftInit, DraftStep, <1>1, PTL DEF DraftsSpec
-----------------------------------------------------------------------------
(* The overrun of drafts.                                                    *)

Checked == In("checked")
CheckedOf(kind) == {r \in Checked : Requests[r].kind = kind}
Drafted(m) == {e \in ledger : e.kind # "engine_check" /\ Month(e.at) = m}
Two(kind, h) == {e \in ledger : e.kind = kind /\ e.at \in {h - 1, h}}
Limit == Cap + DraftCost * (peak - 1)

\* What is booked and what the requests between their check and their booking are about to
\* book, this month and of a kind within the hour.  Without the second the booking of one
\* of them would not keep the bound.
OverrunInv ==
  /\ hour \in Nat /\ peak \in Nat \ {0} /\ IsFiniteSet(ledger)
  /\ \A e \in ledger : e.at \in Nat /\ e.at <= hour
  /\ Cardinality(Checked) <= peak /\ (Checked # {} => DraftCost <= Cap)
  /\ \A m \in Nat : DraftCost * Cardinality(Drafted(m)) <= Limit
  /\ DraftCost * (Cardinality(Drafted(Month(hour))) + Cardinality(Checked)) <= Limit
  /\ \A kind \in DOMAIN PerHour : \A h \in Nat :
       Cardinality(Two(kind, h)) <= PerHour[kind] + (peak - 1)
  /\ \A kind \in DOMAIN PerHour :
       Cardinality(Two(kind, hour)) + Cardinality(CheckedOf(kind)) <= PerHour[kind] + (peak - 1)

LEMMA Scale ==
  ASSUME NEW a \in Int, NEW b \in Int, a <= b, NEW c \in Nat PROVE c * a <= c * b
<1>1. PICK d \in Nat : b = a + d
  <2>1. b - a \in Nat /\ b = a + (b - a)
    OBVIOUS
  <2> QED
    BY <2>1
<1>2. c * b = c * a + c * d
  BY <1>1
<1>3. c * d \in Nat /\ c * a \in Int
  BY <1>1
<1> QED
  BY <1>2, <1>3

LEMMA MonthGrows ==
  ASSUME NEW a \in Nat, NEW b \in Nat, a <= b
  PROVE  Month(a) \in Nat /\ Month(b) \in Nat /\ Month(a) <= Month(b)
<1>1. HoursPerMonth \in Nat \ {0}
  BY DraftsAssumption
<1>2. PICK n \in Nat \ {0} : n = HoursPerMonth
  BY <1>1
<1>3. PICK q \in Int : q = a \div n
  OBVIOUS
<1>4. PICK t \in Int : t = b \div n
  OBVIOUS
<1>5. n * q <= a /\ a < n * q + n /\ n * t <= b /\ b < n * t + n
  BY <1>3, <1>4
<1>6. q \in Nat /\ t \in Nat
  BY <1>3, <1>4
<1>7. CASE t < q
  <2>1. n * (t + 1) <= n * q
    BY <1>6, <1>7, Scale
  <2>2. n * (t + 1) = n * t + n
    BY <1>6
  <2>3. n * q \in Int /\ n * t \in Int
    BY <1>6
  <2> QED
    BY <1>5, <2>1, <2>2, <2>3
<1> QED
  BY <1>2, <1>3, <1>4, <1>6, <1>7 DEF Month

\* What a step of a request does to who is between check and booking.
LEMMA CheckedMoves ==
  ASSUME NEW r \in AskedDrafts, \A q \in AskedDrafts \ {r} : request'[q].phase = request[q].phase
  PROVE  Checked' = IF request'[r].phase = "checked" THEN Checked \cup {r} ELSE Checked \ {r}
BY DEF Checked, In, AskedDrafts

LEMMA RequestPhases ==
  ASSUME DraftTypes, NEW r \in AskedDrafts
  PROVE  /\ Done(r)[r].phase = "done" /\ \A p : Move(r, p)[r].phase = p
         /\ \A q \in AskedDrafts \ {r} : Done(r)[q] = request[q] /\ \A p : Move(r, p)[q] = request[q]
<1>1. request \in [AskedDrafts -> RequestRows]
  BY DEF DraftTypes
<1>2. PICK row : row = [NewRequest EXCEPT !.phase = "done"]
  OBVIOUS
<1>3. row.phase = "done"
  BY <1>2 DEF NewRequest
<1>4. Done(r) = [request EXCEPT ![r] = row]
  BY <1>2 DEF Done
<1>5. Done(r)[r] = row /\ \A q \in AskedDrafts \ {r} : Done(r)[q] = request[q]
  BY <1>1, <1>4
<1>6. ASSUME NEW p PROVE Move(r, p)[r].phase = p /\ \A q \in AskedDrafts \ {r} : Move(r, p)[q] = request[q]
  <2>1. request[r] \in RequestRows
    BY <1>1
  <2>2. PICK new : new = [request[r] EXCEPT !.phase = p]
    OBVIOUS
  <2>3. new.phase = p
    BY <2>1, <2>2 DEF RequestRows
  <2>4. Move(r, p) = [request EXCEPT ![r] = new]
    BY <1>1, <2>2 DEF Move
  <2> QED
    BY <1>1, <2>3, <2>4
<1> QED
  BY <1>3, <1>5, <1>6

LEMMA NobodyChecked ==
  ASSUME OverrunInv, UNCHANGED <<hour, ledger, peak>>, Checked' = Checked PROVE OverrunInv'
BY DEF OverrunInv, Drafted, Two, CheckedOf, Limit, Month

\* The steps that neither check nor book leave all of it alone.
LEMMA OtherRequestSteps ==
  ASSUME DraftTypes, NEW r \in AskedDrafts,
         \/ Refuse(r) \/ Complete(r) \/ SelectDraft(r) \/ StoreDraft(r)
  PROVE  Checked' = Checked /\ UNCHANGED <<hour, ledger, peak>>
<1>1. request \in [AskedDrafts -> RequestRows]
  BY DEF DraftTypes
<1>2. UNCHANGED <<hour, ledger, peak>> /\ request[r].phase # "checked"
  BY DEF Refuse, Complete, SelectDraft, StoreDraft
<1>3. r \notin Checked
  BY <1>2 DEF Checked, In
<1>4. SUFFICES /\ request'[r].phase # "checked"
               /\ \A q \in AskedDrafts \ {r} : request'[q].phase = request[q].phase
  BY <1>2, <1>3, CheckedMoves, ZenonT(30)
<1>5. CASE request' \in {Done(r), Move(r, "answered")}
  BY <1>5, RequestPhases
<1>6. ASSUME request' = [request EXCEPT ![r].attempts = @ + 1]
      PROVE  \A q \in AskedDrafts : request'[q].phase = request[q].phase
  BY <1>1, <1>6 DEF RequestRows
<1>7. ASSUME NEW d, request' = [request EXCEPT ![r].phase = "selected", ![r].target = d,
                                    ![r].reopen = d # 0 /\ drafts[d].status # "draft"]
      PROVE  request'[r].phase = "selected" /\ \A q \in AskedDrafts \ {r} : request'[q] = request[q]
  <2>1. PICK reopen : reopen = (d # 0 /\ drafts[d].status # "draft")
    OBVIOUS
  <2>2. request' = [request EXCEPT ![r].phase = "selected", ![r].target = d, ![r].reopen = reopen]
    BY <1>7, <2>1
  <2> QED
    BY <1>1, <2>2 DEF RequestRows
<1>8. CASE Refuse(r) \/ StoreDraft(r)
  BY <1>5, <1>8 DEF Refuse, StoreDraft
<1>9. CASE Complete(r)
  BY <1>2, <1>5, <1>6, <1>9 DEF Complete
<1>10. CASE SelectDraft(r)
  BY <1>7, <1>10 DEF SelectDraft
<1> QED
  BY <1>8, <1>9, <1>10

LEMMA CheckedFinite ==
  /\ IsFiniteSet(Checked) /\ Checked \subseteq AskedDrafts /\ Cardinality(Checked) \in Nat
  /\ \A kind : /\ IsFiniteSet(CheckedOf(kind)) /\ Cardinality(CheckedOf(kind)) \in Nat
               /\ Cardinality(CheckedOf(kind)) <= Cardinality(Checked)
<1>1. IsFiniteSet(AskedDrafts) /\ Checked \in SUBSET AskedDrafts
  BY DraftsAssumption DEF AskedDrafts, Checked, In
<1>2. IsFiniteSet(Checked)
  BY <1>1, FS_Subset
<1>3. \A kind : CheckedOf(kind) \in SUBSET Checked
  BY DEF CheckedOf
<1>4. ASSUME NEW kind
      PROVE  /\ IsFiniteSet(CheckedOf(kind)) /\ Cardinality(CheckedOf(kind)) \in Nat
             /\ Cardinality(CheckedOf(kind)) <= Cardinality(Checked)
  BY <1>2, <1>3, FS_Subset, FS_CardinalityType
<1> QED
  BY <1>1, <1>2, <1>4, FS_CardinalityType

LEMMA BookedFinite ==
  ASSUME IsFiniteSet(ledger)
  PROVE  /\ \A m : IsFiniteSet(Drafted(m)) /\ Cardinality(Drafted(m)) \in Nat
         /\ \A kind, h : IsFiniteSet(Two(kind, h)) /\ Cardinality(Two(kind, h)) \in Nat
<1>1. ASSUME NEW m PROVE IsFiniteSet(Drafted(m)) /\ Cardinality(Drafted(m)) \in Nat
  <2>1. Drafted(m) \in SUBSET ledger
    BY DEF Drafted
  <2> QED
    BY <2>1, FS_Subset, FS_CardinalityType
<1>2. ASSUME NEW kind, NEW h PROVE IsFiniteSet(Two(kind, h)) /\ Cardinality(Two(kind, h)) \in Nat
  <2>1. Two(kind, h) \in SUBSET ledger
    BY DEF Two
  <2> QED
    BY <2>1, FS_Subset, FS_CardinalityType
<1> QED
  BY <1>1, <1>2

LEMMA ConstantsOfDrafts ==
  /\ DraftCost \in Nat /\ CheckCost \in Nat /\ Cap \in Nat
  /\ \A kind \in DOMAIN PerHour : PerHour[kind] \in Nat /\ kind # "engine_check"
  /\ \A r \in AskedDrafts : Requests[r].kind \in DOMAIN PerHour
BY DraftsAssumption DEF AskedDrafts

\* One draft more is in the cap's overrun: the peak counts it.
LEMMA RoomForOne ==
  ASSUME NEW c \in Nat, NEW d \in Nat, NEW k \in Nat, NEW p \in Nat \ {0}, NEW n \in Nat \ {0},
         NEW cap \in Nat, c * d + c <= cap, k + 1 <= n, p <= n
  PROVE  /\ c * (d + (k + 1)) <= cap + c * (n - 1)
         /\ cap + c * (p - 1) <= cap + c * (n - 1)
         /\ cap + c * (p - 1) \in Int /\ cap + c * (n - 1) \in Int
<1>1. PICK a \in Nat : a = n - 1
  OBVIOUS
<1>2. PICK b \in Nat : b = p - 1
  OBVIOUS
<1>3. k <= a /\ b <= a
  BY <1>1, <1>2
<1>4. c * k <= c * a /\ c * b <= c * a
  BY <1>3, Scale
<1>5. c * (d + (k + 1)) = c * d + c * k + c
  OBVIOUS
<1>6. c * k \in Nat /\ c * d \in Nat /\ c * a \in Nat /\ c * b \in Nat
  OBVIOUS
<1> QED
  BY <1>1, <1>2, <1>4, <1>5, <1>6

\* A check that passes leaves room for one draft more.
LEMMA CheckPasses ==
  ASSUME OverrunInv, DraftTypes, NEW r \in AskedDrafts, CheckBudget(r) PROVE OverrunInv'
<1>0. DraftCost \in Nat /\ CheckCost \in Nat /\ Cap \in Nat
  BY ConstantsOfDrafts
<1> USE <1>0
<1>1. hour \in Nat /\ peak \in Nat \ {0} /\ IsFiniteSet(ledger) /\ r \notin Checked
      /\ UNCHANGED <<hour, ledger>>
  BY DEF OverrunInv, CheckBudget, Checked, In
<1>2. \A m : Drafted(m)' = Drafted(m)
  BY <1>1 DEF Drafted, Month
<1>3. \A kind, h : Two(kind, h)' = Two(kind, h)
  BY <1>1 DEF Two
<1>4. CASE request' = Done(r) /\ peak' = peak
  <2>1. request'[r].phase = "done" /\ \A q \in AskedDrafts \ {r} : request'[q].phase = request[q].phase
    BY <1>4, RequestPhases
  <2>2. Checked' = Checked \ {r}
    BY <2>1, CheckedMoves
  <2>3. Checked' = Checked
    BY <1>1, <2>2
  <2> QED
    BY <1>1, <1>4, <2>3, NobodyChecked
<1>5. CASE ~(request' = Done(r) /\ peak' = peak)
  <2> DEFINE M == Month(hour)
             kind == Requests[r].kind
  <2>1. /\ SpentIn(M) + DraftCost <= Cap /\ Cardinality(Recent(kind)) < PerHour[kind]
        /\ request' = Move(r, "checked") /\ peak' = Max({peak, Cardinality(Checked) + 1})
    BY <1>5 DEF CheckBudget, Affordable, Slack, Checked
  <2>2. Checked' = Checked \cup {r}
    BY <2>1, RequestPhases, CheckedMoves
  <2>3. PICK k \in Nat : k = Cardinality(Checked)
    BY CheckedFinite
  <2>4. Cardinality(Checked') = k + 1
    BY <1>1, <2>2, <2>3, CheckedFinite, OneMore
  <2>5. PICK n \in Nat \ {0} : n = peak' /\ peak <= n /\ k + 1 <= n
    <3>1. PICK a \in Nat \ {0} : a = peak
      BY <1>1
    <3>2. PICK b \in Nat \ {0} : b = k + 1
      OBVIOUS
    <3>3. PICK c : c = Max({a, b})
      OBVIOUS
    <3>4. c \in {a, b} /\ a <= c /\ b <= c
      BY <3>3, TwoBounds
    <3> QED
      BY <2>1, <2>3, <3>1, <3>2, <3>3, <3>4
  <2>6. PICK d \in Nat : d = Cardinality(Drafted(M))
    BY <1>1, BookedFinite
  <2>7. DraftCost * d + DraftCost <= Cap
    <3>1. {e \in ledger : Month(e.at) = M} \ Checks = Drafted(M)
      BY DEF Checks, Drafted
    <3>2. PICK c : c = Cardinality({e \in ledger : Month(e.at) = M} \cap Checks)
      OBVIOUS
    <3>3. c \in Nat
      <4>1. {e \in ledger : Month(e.at) = M} \cap Checks \in SUBSET ledger
        BY DEF Checks
      <4> QED
        BY <1>1, <3>2, <4>1, FS_Subset, FS_CardinalityType
    <3>4. SpentIn(M) = DraftCost * d + CheckCost * c
      BY <2>6, <3>1, <3>2 DEF SpentIn, Cost
    <3>5. CheckCost * c \in Nat /\ DraftCost * d \in Nat
      BY <3>3
    <3> QED
      BY <2>1, <3>4, <3>5
  <2>8. DraftCost <= Cap
    <3>1. DraftCost * d \in Nat
      OBVIOUS
    <3> QED
      BY <2>7, <3>1
  <2>9. PICK p \in Nat \ {0} : p = peak
    BY <1>1
  <2>10. /\ DraftCost * (d + (k + 1)) <= Limit'
         /\ Limit <= Limit' /\ Limit \in Int /\ Limit' \in Int
    <3>1. /\ DraftCost * (d + (k + 1)) <= Cap + DraftCost * (n - 1)
          /\ Cap + DraftCost * (p - 1) <= Cap + DraftCost * (n - 1)
          /\ Cap + DraftCost * (p - 1) \in Int /\ Cap + DraftCost * (n - 1) \in Int
      BY <1>0, <2>5, <2>7, <2>9, RoomForOne
    <3>2. Limit = Cap + DraftCost * (p - 1) /\ Limit' = Cap + DraftCost * (n - 1)
      BY <2>5, <2>9 DEF Limit
    <3> QED
      BY <3>1, <3>2
  <2>11. \A m \in Nat : DraftCost * Cardinality(Drafted(m))' <= Limit'
    <3> SUFFICES ASSUME NEW m \in Nat PROVE DraftCost * Cardinality(Drafted(m))' <= Limit'
      OBVIOUS
    <3>1. PICK c \in Nat : c = Cardinality(Drafted(m))
      BY <1>1, BookedFinite
    <3>2. DraftCost * c <= Limit /\ DraftCost * c \in Int
      BY <3>1 DEF OverrunInv
    <3> QED
      BY <1>2, <2>10, <3>1, <3>2
  <2>12. Drafted(Month(hour))' = Drafted(M)
    BY <1>1, <1>2 DEF Month, Drafted
  <2>13. Recent(kind) = Two(kind, hour)
    BY <1>1 DEF Recent, Two, OverrunInv
  <2>14. ASSUME NEW j \in DOMAIN PerHour
         PROVE  Cardinality(Two(j, hour)) + Cardinality(CheckedOf(j)') <= PerHour[j] + (peak' - 1)
    <3>0. PerHour[j] \in Nat
      BY ConstantsOfDrafts
    <3>1. PICK t \in Nat : t = Cardinality(Two(j, hour))
      BY <1>1, BookedFinite
    <3>2. CASE j = kind
      <4>1. CheckedOf(j)' \in SUBSET Checked' /\ IsFiniteSet(Checked')
        BY <2>2, CheckedFinite, FS_AddElement DEF CheckedOf
      <4>2. PICK c : c = Cardinality(CheckedOf(j)')
        OBVIOUS
      <4>3. c \in Nat /\ c <= k + 1
        BY <2>4, <4>1, <4>2, FS_Subset, FS_CardinalityType
      <4>4. t < PerHour[j]
        BY <2>1, <2>13, <3>1, <3>2
      <4> QED
        BY <2>5, <3>0, <3>1, <4>2, <4>3, <4>4
    <3>3. CASE j # kind
      <4>1. CheckedOf(j)' = CheckedOf(j)
        BY <2>2, <3>3 DEF CheckedOf
      <4>2. PICK c \in Nat : c = Cardinality(CheckedOf(j))
        BY CheckedFinite
      <4>3. t + c <= PerHour[j] + (peak - 1)
        BY <3>1, <4>2 DEF OverrunInv
      <4> QED
        BY <1>1, <2>5, <3>0, <3>1, <4>1, <4>2, <4>3
    <3> QED
      BY <3>2, <3>3
  <2>15. ASSUME NEW j \in DOMAIN PerHour, NEW h \in Nat
         PROVE  Cardinality(Two(j, h)) <= PerHour[j] + (peak' - 1)
    <3>0. PerHour[j] \in Nat
      BY ConstantsOfDrafts
    <3>1. PICK t \in Nat : t = Cardinality(Two(j, h))
      BY <1>1, BookedFinite
    <3>2. t <= PerHour[j] + (peak - 1)
      BY <3>1 DEF OverrunInv
    <3> QED
      BY <1>1, <2>5, <3>0, <3>1, <3>2
  <2>16. \A j \in DOMAIN PerHour : \A h \in Nat : Cardinality(Two(j, h))' <= PerHour[j] + (peak' - 1)
    BY <1>3, <2>15
  <2>17. \A j \in DOMAIN PerHour :
           Cardinality(Two(j, hour))' + Cardinality(CheckedOf(j))' <= PerHour[j] + (peak' - 1)
    BY <1>1, <1>3, <2>14
  <2>18. DraftCost * (Cardinality(Drafted(Month(hour)))' + Cardinality(Checked)') <= Limit'
    BY <2>4, <2>6, <2>10, <2>12
  <2>19. \A e \in ledger : e.at \in Nat /\ e.at <= hour
    BY DEF OverrunInv
  <2> QED
    BY <1>1, <2>4, <2>5, <2>8, <2>11, <2>16, <2>17, <2>18, <2>19 DEF OverrunInv
<1> QED
  BY <1>4, <1>5

\* The booking of a draft takes the place that its check left.
LEMMA BookKeeps ==
  ASSUME OverrunInv, DraftTypes, NEW r \in AskedDrafts, Book(r) PROVE OverrunInv'
<1>0. DraftCost \in Nat /\ CheckCost \in Nat /\ Cap \in Nat
  BY ConstantsOfDrafts
<1> USE <1>0
<1> DEFINE kind == Requests[r].kind
           e == [by |-> r, kind |-> kind, at |-> hour]
<1>1. /\ hour \in Nat /\ peak \in Nat \ {0} /\ IsFiniteSet(ledger) /\ r \in Checked
      /\ UNCHANGED <<hour, peak>> /\ ledger' = ledger \cup {e} /\ request' = Move(r, "booked")
  BY DEF OverrunInv, Book, Enter, Checked, In, AskedDrafts
<1>2. Checked' = Checked \ {r}
  <2>1. request'[r].phase = "booked" /\ \A q \in AskedDrafts \ {r} : request'[q].phase = request[q].phase
    BY <1>1, RequestPhases
  <2> QED
    BY <2>1, CheckedMoves
<1>3. PICK new : new = e
  OBVIOUS
<1>4. new.kind = kind /\ new.at = hour /\ ledger' = ledger \cup {new} /\ kind \in DOMAIN PerHour
      /\ kind # "engine_check"
  BY <1>1, <1>3, ConstantsOfDrafts
<1> HIDE DEF e
<1>5. IsFiniteSet(ledger') /\ \A x \in ledger' : x.at \in Nat /\ x.at <= hour
  <2>1. IsFiniteSet(ledger \cup {new})
    BY <1>1, FS_AddElement
  <2>2. \A x \in ledger : x.at \in Nat /\ x.at <= hour
    BY DEF OverrunInv
  <2>3. ledger' = ledger \cup {new} /\ new.at \in Nat /\ new.at <= hour
    BY <1>1, <1>4
  <2> QED
    BY <2>1, <2>2, <2>3
<1>6. PICK k \in Nat : k = Cardinality(Checked)
  BY CheckedFinite
<1>7. k > 0 /\ Cardinality(Checked') = k - 1
  BY <1>1, <1>2, <1>6, CheckedFinite, OneLess
<1>8. PICK d \in Nat : d = Cardinality(Drafted(Month(hour)))
  BY <1>1, BookedFinite
<1>9. PICK d2 \in Nat : d2 = Cardinality(Drafted(Month(hour))') /\ d2 <= d + 1
  <2>1. Drafted(Month(hour))' \in SUBSET (Drafted(Month(hour)) \cup {new})
    BY <1>1, <1>4 DEF Drafted, Month
  <2>2. PICK S : S = Drafted(Month(hour))
    OBVIOUS
  <2>3. PICK T : T = Drafted(Month(hour))'
    OBVIOUS
  <2>4. IsFiniteSet(S) /\ IsFiniteSet(S \cup {new}) /\ Cardinality(S \cup {new}) <= d + 1
    <3>1. IsFiniteSet(S) /\ Cardinality(S) = d
      BY <1>1, <1>8, <2>2, BookedFinite
    <3> QED
      BY <3>1, PlusOne
  <2>5. Cardinality(T) \in Nat /\ Cardinality(T) <= Cardinality(S \cup {new})
        /\ Cardinality(S \cup {new}) \in Nat
    BY <2>1, <2>2, <2>3, <2>4, FS_Subset, FS_CardinalityType
  <2> QED
    BY <2>3, <2>4, <2>5
<1>10. Limit' = Limit /\ Limit \in Int
  BY <1>1 DEF Limit
<1>11. DraftCost * (d + k) <= Limit
  BY <1>6, <1>8 DEF OverrunInv
<1>12. DraftCost * (d2 + (k - 1)) <= Limit /\ DraftCost * d2 <= Limit
  <2>1. DraftCost * (d2 + (k - 1)) <= DraftCost * (d + k) /\ DraftCost * d2 <= DraftCost * (d + k)
    BY <1>7, <1>9, Scale
  <2>2. DraftCost * (d2 + (k - 1)) \in Int /\ DraftCost * (d + k) \in Int /\ DraftCost * d2 \in Int
    BY <1>7
  <2> QED
    BY <1>10, <1>11, <2>1, <2>2
<1>13. ASSUME NEW m \in Nat PROVE DraftCost * Cardinality(Drafted(m))' <= Limit'
  <2>1. CASE m = Month(hour)
    <3>1. Drafted(m)' = Drafted(Month(hour))'
      BY <1>1, <2>1 DEF Drafted, Month
    <3> QED
      BY <1>9, <1>10, <1>12, <3>1
  <2>2. CASE m # Month(hour)
    <3>1. Drafted(m)' = Drafted(m)
      BY <1>1, <1>4, <2>2 DEF Drafted, Month
    <3> QED
      BY <1>10, <3>1 DEF OverrunInv
  <2> QED
    BY <2>1, <2>2
<1>14. ASSUME NEW j \in DOMAIN PerHour
       PROVE  Cardinality(Two(j, hour)') + Cardinality(CheckedOf(j)') <= PerHour[j] + (peak - 1)
  <2>0. PerHour[j] \in Nat
    BY ConstantsOfDrafts
  <2>1. PICK t \in Nat : t = Cardinality(Two(j, hour))
    BY <1>1, BookedFinite
  <2>2. PICK c \in Nat : c = Cardinality(CheckedOf(j))
    BY CheckedFinite
  <2>3. t + c <= PerHour[j] + (peak - 1)
    BY <2>1, <2>2 DEF OverrunInv
  <2>4. CASE j = kind
    <3>1. CheckedOf(j)' = CheckedOf(j) \ {r} /\ r \in CheckedOf(j)
      BY <1>1, <1>2, <2>4 DEF CheckedOf
    <3>2. Cardinality(CheckedOf(j)') = c - 1
      BY <2>2, <3>1, CheckedFinite, OneLess
    <3>3. Two(j, hour)' = Two(j, hour) \cup {new}
      BY <1>1, <1>4, <2>4 DEF Two
    <3>4. PICK S : S = Two(j, hour)
      OBVIOUS
    <3>5. Cardinality(S \cup {new}) \in Nat /\ Cardinality(S \cup {new}) <= t + 1
      <4>1. IsFiniteSet(S) /\ Cardinality(S) = t
        BY <1>1, <2>1, <3>4, BookedFinite
      <4> QED
        BY <4>1, PlusOne
    <3>6. Cardinality(Two(j, hour)') = Cardinality(S \cup {new})
      BY <3>3, <3>4
    <3> QED
      BY <1>1, <2>0, <2>3, <3>2, <3>5, <3>6
  <2>5. CASE j # kind
    <3>1. CheckedOf(j)' = CheckedOf(j)
      BY <1>2, <2>5 DEF CheckedOf
    <3>2. Two(j, hour)' = Two(j, hour)
      BY <1>1, <1>4, <2>5 DEF Two
    <3> QED
      BY <2>1, <2>2, <2>3, <3>1, <3>2
  <2> QED
    BY <2>4, <2>5
<1>15. ASSUME NEW j \in DOMAIN PerHour, NEW h \in Nat
       PROVE  Cardinality(Two(j, h))' <= PerHour[j] + (peak - 1)
  <2>0. PerHour[j] \in Nat
    BY ConstantsOfDrafts
  <2>1. CASE new \notin Two(j, h)'
    <3>1. Two(j, h)' = Two(j, h)
      BY <1>4, <2>1 DEF Two
    <3> QED
      BY <3>1 DEF OverrunInv
  <2>2. CASE new \in Two(j, h)'
    <3>1. h \in {hour, hour + 1}
      BY <1>1, <1>4, <2>2 DEF Two
    <3>2. PICK S : S = Two(j, hour)'
      OBVIOUS
    <3>3. PICK T : T = Two(j, h)'
      OBVIOUS
    <3>4. T \in SUBSET S
      BY <1>1, <1>5, <3>1, <3>2, <3>3 DEF Two
    <3>5. IsFiniteSet(S)
      <4>1. S \in SUBSET ledger'
        BY <3>2 DEF Two
      <4> QED
        BY <1>5, <4>1, FS_Subset
    <3>6. PICK c \in Nat : c = Cardinality(CheckedOf(j)')
      <4>1. CheckedOf(j)' \in SUBSET Checked /\ IsFiniteSet(Checked)
        BY <1>2, CheckedFinite DEF CheckedOf
      <4> QED
        BY <4>1, FS_Subset, FS_CardinalityType
    <3>7. Cardinality(T) <= Cardinality(S) /\ Cardinality(T) \in Nat /\ Cardinality(S) \in Nat
      BY <3>4, <3>5, FS_Subset, FS_CardinalityType
    <3>8. Cardinality(S) + c <= PerHour[j] + (peak - 1)
      BY <1>14, <3>2, <3>6
    <3> QED
      BY <1>1, <2>0, <3>3, <3>6, <3>7, <3>8
  <2> QED
    BY <2>1, <2>2
<1>16. \A j \in DOMAIN PerHour :
         Cardinality(Two(j, hour))' + Cardinality(CheckedOf(j))' <= PerHour[j] + (peak' - 1)
  BY <1>1, <1>14
<1>17. Cardinality(Checked') <= peak' /\ (Checked' # {} => DraftCost <= Cap)
  BY <1>1, <1>2, <1>6, <1>7 DEF OverrunInv
<1>18. DraftCost * (Cardinality(Drafted(Month(hour)))' + Cardinality(Checked)') <= Limit'
  BY <1>7, <1>9, <1>10, <1>12
<1> QED
  BY <1>1, <1>5, <1>13, <1>15, <1>16, <1>17, <1>18 DEF OverrunInv

\* An engine check is no draft; its row changes neither count.
LEMMA BookCheckKeeps ==
  ASSUME OverrunInv, BookCheck PROVE OverrunInv'
<1>1. PICK new : /\ new.kind = "engine_check" /\ new.at = hour /\ ledger' = ledger \cup {new}
                 /\ UNCHANGED <<hour, request, peak>>
  <2>1. PICK e : e = [by |-> Cardinality(Checks), kind |-> "engine_check", at |-> hour]
    OBVIOUS
  <2>2. e.kind = "engine_check" /\ e.at = hour
    BY <2>1
  <2>3. ledger' = ledger \cup {e} /\ UNCHANGED <<hour, request, peak>>
    BY <2>1 DEF BookCheck, Enter
  <2> QED
    BY <2>2, <2>3
<1>2. \A m : Drafted(m)' = Drafted(m)
  BY <1>1 DEF Drafted, Month
<1>3. \A j \in DOMAIN PerHour : \A h : Two(j, h)' = Two(j, h)
  BY <1>1, ConstantsOfDrafts DEF Two
<1>4. Checked' = Checked /\ \A j : CheckedOf(j)' = CheckedOf(j)
  BY <1>1 DEF Checked, CheckedOf, In
<1>5. IsFiniteSet(ledger')
  BY <1>1, PlusOne DEF OverrunInv
<1>6. \A x \in ledger' : x.at \in Nat /\ x.at <= hour
  BY <1>1 DEF OverrunInv
<1>7. Drafted(Month(hour))' = Drafted(Month(hour))
  BY <1>1, <1>2 DEF Month, Drafted
<1>8. Limit' = Limit
  BY <1>1 DEF Limit
<1>9. \A j \in DOMAIN PerHour : Two(j, hour)' = Two(j, hour)
  BY <1>1, <1>3 DEF Two
<1> QED
  BY <1>1, <1>2, <1>3, <1>4, <1>5, <1>6, <1>7, <1>8, <1>9 DEF OverrunInv

\* A new month owes no more than the requests that were checked before it began.
LEMMA HourKeeps ==
  ASSUME OverrunInv, HourPasses PROVE OverrunInv'
<1>0. DraftCost \in Nat /\ CheckCost \in Nat /\ Cap \in Nat
  BY ConstantsOfDrafts
<1>1. hour \in Nat /\ hour' = hour + 1 /\ UNCHANGED <<ledger, request, peak>> /\ IsFiniteSet(ledger)
      /\ peak \in Nat \ {0} /\ \A e \in ledger : e.at \in Nat /\ e.at <= hour
  BY DEF HourPasses, OverrunInv
<1>2. Checked' = Checked /\ (\A j : CheckedOf(j)' = CheckedOf(j)) /\ Limit' = Limit
  BY <1>1 DEF Checked, CheckedOf, In, Limit
<1>3. \A m : Drafted(m)' = Drafted(m)
  BY <1>1 DEF Drafted, Month
<1>4. \A j, h : Two(j, h)' = Two(j, h)
  BY <1>1 DEF Two
<1>5. PICK k \in Nat : k = Cardinality(Checked)
  BY CheckedFinite
<1>6. PICK n \in Nat \ {0} : n = peak
  BY <1>1
<1>7. DraftCost * k <= Limit
  <2>1. CASE k = 0
    <3>1. DraftCost * k = 0 /\ DraftCost * (n - 1) \in Nat
      BY <1>0, <2>1
    <3> QED
      BY <1>0, <1>6, <3>1 DEF Limit
  <2>2. CASE k # 0
    <3>1. Checked # {}
      BY <1>5, <2>2, FS_EmptySet
    <3>2. DraftCost <= Cap /\ k <= n
      BY <1>5, <1>6, <3>1 DEF OverrunInv
    <3>3. DraftCost * k <= DraftCost * n
      BY <1>0, <3>2, Scale
    <3>4. DraftCost * n = DraftCost * (n - 1) + DraftCost
      BY <1>0
    <3>5. DraftCost * k \in Int /\ DraftCost * (n - 1) \in Int
      BY <1>0
    <3> QED
      BY <1>0, <1>6, <3>2, <3>3, <3>4, <3>5 DEF Limit
  <2> QED
    BY <2>1, <2>2
<1>8. DraftCost * (Cardinality(Drafted(Month(hour + 1))) + k) <= Limit
  <2>1. CASE Month(hour + 1) = Month(hour)
    BY <1>5, <2>1 DEF OverrunInv
  <2>2. CASE Month(hour + 1) # Month(hour)
    <3>1. \A e \in ledger : Month(e.at) # Month(hour + 1)
      <4> SUFFICES ASSUME NEW e \in ledger, Month(e.at) = Month(hour + 1) PROVE FALSE
        OBVIOUS
      <4>1. PICK a \in Nat : a = e.at /\ a <= hour
        BY <1>1
      <4>2. PICK h \in Nat : h = hour
        BY <1>1
      <4>3. Month(a) <= Month(h) /\ Month(h) <= Month(h + 1) /\ Month(a) \in Nat /\ Month(h) \in Nat
            /\ Month(h + 1) \in Nat
        BY <4>1, <4>2, MonthGrows
      <4> QED
        BY <2>2, <4>1, <4>2, <4>3
    <3>2. Drafted(Month(hour + 1)) = {}
      BY <3>1 DEF Drafted
    <3>3. Cardinality(Drafted(Month(hour + 1))) = 0
      BY <3>2, FS_EmptySet
    <3> QED
      BY <1>7, <3>3
  <2> QED
    BY <2>1, <2>2
<1>9. Drafted(Month(hour))' = Drafted(Month(hour + 1))
  BY <1>1 DEF Drafted, Month
<1>10. ASSUME NEW j \in DOMAIN PerHour
       PROVE  Cardinality(Two(j, hour)') + Cardinality(CheckedOf(j)') <= PerHour[j] + (peak - 1)
  <2>0. PerHour[j] \in Nat
    BY ConstantsOfDrafts
  <2>1. PICK S : S = Two(j, hour)
    OBVIOUS
  <2>2. PICK T : T = Two(j, hour)'
    OBVIOUS
  <2>3. T \in SUBSET S /\ IsFiniteSet(S)
    <3>1. T \in SUBSET S
      BY <1>1, <2>1, <2>2 DEF Two
    <3>2. S \in SUBSET ledger
      BY <2>1 DEF Two
    <3> QED
      BY <1>1, <3>1, <3>2, FS_Subset
  <2>4. Cardinality(T) <= Cardinality(S) /\ Cardinality(T) \in Nat /\ Cardinality(S) \in Nat
    BY <2>3, FS_Subset, FS_CardinalityType
  <2>5. PICK c \in Nat : c = Cardinality(CheckedOf(j))
    BY CheckedFinite
  <2>6. Cardinality(S) + c <= PerHour[j] + (peak - 1)
    BY <2>1, <2>5 DEF OverrunInv
  <2> QED
    BY <1>1, <1>2, <2>0, <2>2, <2>4, <2>5, <2>6
<1>11. DraftCost * (Cardinality(Drafted(Month(hour)))' + Cardinality(Checked)') <= Limit'
  BY <1>2, <1>5, <1>8, <1>9
<1>12. hour' \in Nat /\ \A e \in ledger : e.at \in Nat /\ e.at <= hour'
  BY <1>1
<1>13. /\ \A m \in Nat : DraftCost * Cardinality(Drafted(m))' <= Limit'
       /\ \A j \in DOMAIN PerHour : \A h \in Nat :
            Cardinality(Two(j, h))' <= PerHour[j] + (peak' - 1)
  BY <1>1, <1>2, <1>3, <1>4 DEF OverrunInv
<1>14. \A j \in DOMAIN PerHour :
         Cardinality(Two(j, hour))' + Cardinality(CheckedOf(j))' <= PerHour[j] + (peak' - 1)
  BY <1>1, <1>10
<1>15. Cardinality(Checked') <= peak' /\ (Checked' # {} => DraftCost <= Cap)
  BY <1>1, <1>2 DEF OverrunInv
<1> QED
  BY <1>1, <1>11, <1>12, <1>13, <1>14, <1>15 DEF OverrunInv

LEMMA OverrunInit == ASSUME DraftsInit PROVE OverrunInv
<1>0. DraftCost \in Nat /\ Cap \in Nat /\ \A j \in DOMAIN PerHour : PerHour[j] \in Nat
  BY ConstantsOfDrafts
<1>1. hour = 0 /\ ledger = {} /\ peak = 1
  BY DEF DraftsInit
<1>2. \A r \in AskedDrafts : request[r].phase = "new"
  BY DEF DraftsInit, NewRequest, AskedDrafts
<1>3. Checked = {} /\ \A j : CheckedOf(j) = {}
  BY <1>2 DEF Checked, CheckedOf, In, AskedDrafts
<1>4. (\A m : Drafted(m) = {}) /\ (\A j, h : Two(j, h) = {})
  BY <1>1 DEF Drafted, Two
<1>5. Cardinality({}) = 0 /\ IsFiniteSet({})
  BY FS_EmptySet
<1>6. Limit = Cap
  BY <1>0, <1>1 DEF Limit
<1>7. \A m : Cardinality(Drafted(m)) = 0
  BY <1>4, <1>5
<1>8. \A j, h : Cardinality(Two(j, h)) = 0
  BY <1>4, <1>5
<1>9. Cardinality(Checked) = 0 /\ \A j : Cardinality(CheckedOf(j)) = 0
  BY <1>3, <1>5
<1> QED
  BY <1>0, <1>1, <1>3, <1>5, <1>6, <1>7, <1>8, <1>9 DEF OverrunInv

LEMMA OverrunStep ==
  ASSUME OverrunInv, DraftInv, [DraftsNext]_draftsVars PROVE OverrunInv'
<1>1. DraftTypes
  BY DEF DraftInv
<1>2. ASSUME NEW r \in AskedDrafts,
             \/ Refuse(r) \/ CheckBudget(r) \/ Book(r) \/ Complete(r) \/ SelectDraft(r) \/ StoreDraft(r)
      PROVE  OverrunInv'
  BY <1>1, <1>2, CheckPasses, BookKeeps, OtherRequestSteps, NobodyChecked
<1>3. ASSUME (\E d \in DOMAIN drafts : \E s \in DraftStates : PatchDraft(d, s)) \/ UNCHANGED draftsVars
      PROVE  OverrunInv'
  <2>1. UNCHANGED <<hour, ledger, peak, request>>
    BY <1>3 DEF PatchDraft, draftsVars
  <2>2. Checked' = Checked
    BY <2>1 DEF Checked, In
  <2> QED
    BY <2>1, <2>2, NobodyChecked
<1> QED
  BY <1>2, <1>3, BookCheckKeeps, HourKeeps DEF DraftsNext, AskedDrafts, DraftStates

LEMMA OverrunImplies == ASSUME OverrunInv PROVE OverrunBounded
<1>0. DraftCost \in Nat /\ CheckCost \in Nat /\ Cap \in Nat
  BY ConstantsOfDrafts
<1>1. peak \in Nat \ {0} /\ IsFiniteSet(ledger)
  BY DEF OverrunInv
<1>2. ASSUME NEW m \in Nat PROVE SpentIn(m) <= Cap + (peak - 1) * DraftCost + Cost(Checks)
  <2>1. PICK S : S = {e \in ledger : Month(e.at) = m}
    OBVIOUS
  <2>2. S \ Checks = Drafted(m) /\ Checks \ Checks = {} /\ S \cap Checks \in SUBSET (Checks \cap Checks)
        /\ Checks \cap Checks \in SUBSET ledger
    BY <2>1 DEF Checks, Drafted
  <2>3. PICK a : a = Cardinality(S \cap Checks)
    OBVIOUS
  <2>4. PICK b : b = Cardinality(Checks \cap Checks)
    OBVIOUS
  <2>5. a \in Nat /\ b \in Nat /\ a <= b
    <3>1. IsFiniteSet(Checks \cap Checks)
      BY <1>1, <2>2, FS_Subset
    <3>2. PICK T : T = Checks \cap Checks
      OBVIOUS
    <3>3. PICK U : U = S \cap Checks
      OBVIOUS
    <3>4. Cardinality(U) <= Cardinality(T) /\ Cardinality(T) \in Nat /\ Cardinality(U) \in Nat
      BY <2>2, <3>1, <3>2, <3>3, FS_Subset, FS_CardinalityType
    <3> QED
      BY <2>3, <2>4, <3>2, <3>3, <3>4
  <2>6. PICK d \in Nat : d = Cardinality(Drafted(m))
    BY <1>1, BookedFinite
  <2>7. SpentIn(m) = DraftCost * d + CheckCost * a
    BY <2>1, <2>2, <2>3, <2>6 DEF SpentIn, Cost
  <2>8. Cost(Checks) = CheckCost * b
    <3>1. Cardinality(Checks \ Checks) = 0
      BY <2>2, FS_EmptySet
    <3>2. Cost(Checks) = DraftCost * 0 + CheckCost * b
      BY <2>4, <3>1 DEF Cost
    <3>3. CheckCost * b \in Int
      BY <1>0, <2>5
    <3> QED
      BY <1>0, <3>2, <3>3
  <2>9. CheckCost * a <= CheckCost * b
    BY <1>0, <2>5, Scale
  <2>10. DraftCost * d <= Cap + DraftCost * (peak - 1)
    BY <2>6 DEF OverrunInv, Limit
  <2>11. PICK n \in Nat \ {0} : n = peak
    BY <1>1
  <2>12. /\ DraftCost * (n - 1) = (n - 1) * DraftCost /\ DraftCost * (n - 1) \in Int
         /\ CheckCost * a \in Int /\ CheckCost * b \in Int /\ DraftCost * d \in Int
    BY <1>0, <2>5
  <2> QED
    BY <1>0, <2>7, <2>8, <2>9, <2>10, <2>11, <2>12
<1>3. ASSUME NEW j \in DOMAIN PerHour, NEW h \in Nat
      PROVE  Cardinality({e \in ledger : e.kind = j /\ e.at \in {h - 1, h}}) <= PerHour[j] + peak - 1
  <2>1. PICK t \in Nat : t = Cardinality(Two(j, h))
    BY <1>1, BookedFinite
  <2>2. t <= PerHour[j] + (peak - 1) /\ PerHour[j] \in Nat
    BY <2>1, ConstantsOfDrafts DEF OverrunInv
  <2>3. t = Cardinality({e \in ledger : e.kind = j /\ e.at \in {h - 1, h}})
    BY <2>1 DEF Two
  <2> QED
    BY <1>1, <2>1, <2>2, <2>3
<1>4. 0..Month(MaxHours) \subseteq Nat /\ \A h \in 0..hour : h \in Nat
  OBVIOUS
<1> QED
  BY <1>2, <1>3, <1>4 DEF OverrunBounded

\* For any number of requests, prices, limits and hours: a month's drafts pass the cap, and
\* an hour's drafts their limit, by no more than the requests that were between their check
\* and their booking at once, plus the engine checks.
THEOREM OverrunHolds == DraftsSpec => []OverrunBounded
<1>1. DraftsInit => OverrunInv
  BY OverrunInit
<1>2. OverrunInv /\ DraftInv /\ [DraftsNext]_draftsVars => OverrunInv'
  BY OverrunStep
<1>3. OverrunInv => OverrunBounded
  BY OverrunImplies
<1> QED
  BY DraftInit, DraftStep, <1>1, <1>2, <1>3, PTL DEF DraftsSpec
-----------------------------------------------------------------------------
(* Engine switches                                                           *)

\* What toggles depend on; runs and checks are not read by any of them.
ToggleRequests == [phase : {"new", "read", "done"}, engine : Codes, on : BOOLEAN,
             was : BOOLEAN, read : SUBSET Codes, gone : BOOLEAN]

SwitchTypes ==
    /\ raced \in BOOLEAN
    /\ enabled \subseteq Codes /\ approved \subseteq Codes /\ granted \subseteq Codes
    /\ toggle \in [Toggles -> ToggleRequests]

\* While nothing overlapped there is one request at most under way, and what it
\* read is what the tenant still has.
Alone ==
    ~raced =>
        /\ \A t, u \in Reading : t = u
        /\ \A t \in Reading : /\ ~toggle[t].gone
                              /\ toggle[t].read = approved
                              /\ toggle[t].was = (toggle[t].engine \in enabled)

SwitchInv == SwitchTypes /\ Alone /\ ApartForCause

LEMMA FirstEngine == Head(Engines) \in Codes
  BY EnginesAssumption DEF Codes, ToSet

LEMMA SwitchInit == EnginesInit => SwitchInv
  <1> SUFFICES ASSUME EnginesInit PROVE SwitchInv
    OBVIOUS
  <1>1. NewToggle \in ToggleRequests /\ NewToggle.phase = "new"
    BY FirstEngine DEF NewToggle, ToggleRequests
  <1>2. SwitchTypes
    BY <1>1, FirstEngine DEF EnginesInit, SwitchTypes
  <1>3. Reading = {}
    BY <1>1 DEF EnginesInit, Reading
  <1> QED BY <1>2, <1>3 DEF EnginesInit, SwitchInv, Alone, ApartForCause, OutOfStep

LEMMA ReadSafe ==
  ASSUME SwitchInv, NEW t \in Toggles, NEW e \in Codes, NEW on \in BOOLEAN,
         ReadToggle(t, e, on)
  PROVE  SwitchInv'
  <1>1. /\ enabled' = enabled /\ approved' = approved /\ granted' = granted
        /\ raced' = (raced \/ Reading # {})
        /\ toggle[t].phase = "new"
    BY DEF ReadToggle
  <1>2. /\ toggle'[t] = [phase |-> "read", engine |-> e, on |-> on, was |-> (e \in enabled),
                         read |-> approved, gone |-> FALSE]
        /\ \A u \in Toggles \ {t} : toggle'[u] = toggle[u]
    BY DEF ReadToggle, NewToggle, SwitchInv, SwitchTypes
  <1>3. SwitchTypes'
    <2>1. toggle'[t] \in ToggleRequests
      BY <1>2 DEF SwitchInv, SwitchTypes, ToggleRequests
    <2>2. toggle' \in [Toggles -> ToggleRequests]
      BY <1>2, <2>1 DEF ReadToggle, SwitchInv, SwitchTypes
    <2> QED BY <1>1, <2>2 DEF SwitchInv, SwitchTypes
  <1>4. Reading' = Reading \cup {t}
    BY <1>2 DEF Reading
  <1>5. Alone'
    <2> SUFFICES ASSUME ~raced, Reading = {} PROVE Alone'
      BY <1>1 DEF Alone
    <2>1. Reading' = {t}
      BY <1>4
    <2>2. /\ ~toggle'[t].gone /\ toggle'[t].read = approved
          /\ toggle'[t].was = (e \in enabled) /\ toggle'[t].engine = e
      BY <1>2
    <2> QED BY <1>1, <2>1, <2>2 DEF Alone
  <1>6. ApartForCause'
    BY <1>1 DEF SwitchInv, ApartForCause, OutOfStep
  <1> QED BY <1>3, <1>5, <1>6 DEF SwitchInv

LEMMA WriteSafe ==
  ASSUME SwitchInv, NEW t \in Toggles, WriteToggle(t)
  PROVE  SwitchInv'
  <1> DEFINE req == toggle[t]
             after == ApprovedAfter(req.read, req.engine, req.on)
  <1>1. t \in Reading /\ raced' = raced /\ granted' = granted \ {req.engine}
    BY DEF WriteToggle, Reading
  <1>2. /\ toggle'[t] = [NewToggle EXCEPT !.phase = "done"]
        /\ \A u \in Toggles \ {t} : toggle'[u] = toggle[u]
    BY DEF WriteToggle, SwitchInv, SwitchTypes
  <1>3. /\ after \subseteq Codes /\ req.engine \in Codes
        /\ enabled' \in {enabled, enabled \cup {req.engine}, enabled \ {req.engine}}
        /\ approved' \in {approved, after}
    BY DEF WriteToggle, ApprovedAfter, SwitchInv, SwitchTypes, ToggleRequests
  <1>4. SwitchTypes'
    <2>1. toggle'[t] \in ToggleRequests
      BY <1>2, FirstEngine DEF NewToggle, ToggleRequests
    <2>2. toggle' \in [Toggles -> ToggleRequests]
      BY <1>2, <2>1 DEF WriteToggle, SwitchInv, SwitchTypes
    <2> QED BY <1>1, <1>3, <2>2 DEF SwitchInv, SwitchTypes
  <1>5. Reading' = Reading \ {t}
    BY <1>2 DEF Reading, NewToggle
  <1>6. Alone'
    BY <1>1, <1>5 DEF SwitchInv, Alone
  <1>7. ApartForCause'
    <2> SUFFICES ASSUME ~raced PROVE OutOfStep' = granted'
      BY <1>1 DEF ApartForCause
    <2>1. /\ OutOfStep = granted /\ ~req.gone /\ req.read = approved
          /\ req.was = (req.engine \in enabled) /\ req.on \in BOOLEAN
      BY <1>1 DEF SwitchInv, Alone, ApartForCause, SwitchTypes, ToggleRequests, Reading
    <2>2. /\ enabled' = IF req.on = req.was THEN enabled
                        ELSE IF req.on THEN enabled \cup {req.engine}
                        ELSE enabled \ {req.engine}
          /\ approved' = IF after = req.read THEN approved ELSE after
      BY <2>1 DEF WriteToggle
    <2>3. CASE req.on
      <3>1. enabled' = enabled \cup {req.engine} /\ approved' = approved \cup {req.engine}
        BY <2>1, <2>2, <2>3 DEF ApprovedAfter
      <3> QED BY <1>1, <2>1, <3>1 DEF OutOfStep
    <2>4. CASE ~req.on
      <3>1. enabled' = enabled \ {req.engine} /\ approved' = approved \ {req.engine}
        BY <2>1, <2>2, <2>4 DEF ApprovedAfter
      <3> QED BY <1>1, <2>1, <3>1 DEF OutOfStep
    <2> QED BY <2>1, <2>3, <2>4
  <1> QED BY <1>4, <1>6, <1>7 DEF SwitchInv

LEMMA ImportSafe ==
  ASSUME SwitchInv, NEW S \in SUBSET Codes, ImportEngines(S)
  PROVE  SwitchInv'
  <1>1. /\ enabled' = S /\ approved' = S /\ granted' = {} /\ raced' = (Reading # {})
        /\ toggle' = [t \in Toggles |-> [toggle[t] EXCEPT !.gone = t \in Reading]]
    BY DEF ImportEngines
  <1>2. SwitchTypes'
    <2>1. \A t \in Toggles : [toggle[t] EXCEPT !.gone = t \in Reading] \in ToggleRequests
      <3>1. \A t \in Toggles, b \in BOOLEAN : [toggle[t] EXCEPT !.gone = b] \in ToggleRequests
        BY DEF SwitchInv, SwitchTypes, ToggleRequests
      <3>2. \A t \in Toggles : (t \in Reading) \in BOOLEAN
        OBVIOUS
      <3> QED BY Zenon, <3>1, <3>2
    <2> QED BY <1>1, <2>1 DEF SwitchInv, SwitchTypes
  <1>3. Reading' = Reading
    <2>1. \A t \in Toggles : toggle'[t].phase = toggle[t].phase
      BY <1>1 DEF SwitchInv, SwitchTypes, ToggleRequests
    <2> QED BY <2>1 DEF Reading
  <1>4. Alone' /\ ApartForCause'
    BY <1>1, <1>3 DEF Alone, ApartForCause, OutOfStep
  <1> QED BY <1>2, <1>4 DEF SwitchInv

LEMMA PatchSafe ==
  ASSUME SwitchInv, NEW S \in SUBSET Codes, PatchApproved(S)
  PROVE  SwitchInv'
  <1>1. /\ enabled' = enabled /\ approved' = S /\ granted' = OutOfStep' /\ raced' = (Reading # {})
        /\ toggle' = toggle /\ Reading' = Reading
    BY DEF PatchApproved, Reading
  <1>2. SwitchTypes'
    BY <1>1 DEF SwitchInv, SwitchTypes, OutOfStep
  <1>3. Alone' /\ ApartForCause'
    BY <1>1 DEF Alone, ApartForCause
  <1> QED BY <1>2, <1>3 DEF SwitchInv

LEMMA RestSafe ==
  ASSUME SwitchInv, UNCHANGED <<enabled, approved, toggle, granted, raced>>
  PROVE  SwitchInv'
  BY DEF SwitchInv, SwitchTypes, Alone, ApartForCause, OutOfStep, Reading

\* Unless writers overlap, an engine's switch and its approval part exactly
\* where a patch of the approvals put them apart and no toggle of the engine came
\* since (routes/admin.py, and the configuration import, read to commit).
THEOREM ApartKept == EnginesSpec => []ApartForCause
  <1>1. SwitchInv /\ [EnginesNext]_enginesVars => SwitchInv'
    <2> SUFFICES ASSUME SwitchInv, [EnginesNext]_enginesVars PROVE SwitchInv'
      OBVIOUS
    <2>1. CASE \E t \in Toggles : \E e \in Codes : \E on \in BOOLEAN : ReadToggle(t, e, on)
      BY <2>1, ReadSafe
    <2>2. CASE \E t \in Toggles : WriteToggle(t)
      BY <2>2, WriteSafe
    <2>3. CASE \E S \in SUBSET Codes : ImportEngines(S) \/ PatchApproved(S)
      BY <2>3, ImportSafe, PatchSafe
    <2>4. CASE \/ StartRun \/ StartSmoke \/ KillSmoke
               \/ \E i \in DOMAIN runs : FinishRun(i) \/ ResumeRun(i)
               \/ \E e \in Codes : CheckEngine(e)
      BY <2>4, RestSafe DEF StartRun, StartSmoke, KillSmoke, FinishRun, ResumeRun,
         CheckEngine
    <2>5. CASE UNCHANGED enginesVars
      BY <2>5, RestSafe DEF enginesVars
    <2> QED BY <2>1, <2>2, <2>3, <2>4, <2>5 DEF EnginesNext, SwitchesNext, ChecksNext
  <1>2. SwitchInv => ApartForCause
    BY DEF SwitchInv
  <1> QED BY SwitchInit, <1>1, <1>2, PTL DEF EnginesSpec
-----------------------------------------------------------------------------
(* The readiness verdict.  It weighs instants, so what makes it right is that *)
(* no check and no end of a run share one: whichever is newest stands alone.  *)

RunResults == UNION {[S -> RunOutcomes \cup {"withheld"}] : S \in SUBSET Codes}
RunEntries == [status : {"running", "complete", "failed"}, at : Nat, result : RunResults]

EvidenceTypes ==
    /\ clock \in Nat /\ runs \in Seq(RunEntries)
    /\ checks \in [Codes -> [status : CheckStatuses \cup {"none"}, at : Nat]]

\* Evidence is older than the clock, and a run's end is no check's instant.
Instants ==
    /\ clock > 0
    /\ \A i \in DOMAIN runs : /\ runs[i].at < clock
                              /\ runs[i].status # "running" => runs[i].at > 0
    /\ \A e \in Codes : /\ checks[e].at < clock
                        /\ checks[e].at = 0 <=> checks[e].status = "none"
    /\ \A e \in Codes : \A i \in DOMAIN runs : runs[i].at = checks[e].at => runs[i].at = 0

EvidenceInv == EvidenceTypes /\ Instants

LEMMA EligibleOn == Eligible \subseteq Codes \cap enabled \cap approved
  BY DEF Eligible, CapEngines, Codes, ToSet

LEMMA RunAt ==
  ASSUME EvidenceTypes, NEW j \in DOMAIN runs
  PROVE  runs[j].at \in Nat
  <1>1. runs[j] \in RunEntries
    BY DEF EvidenceTypes
  <1> QED BY <1>1 DEF RunEntries

LEMMA EvidenceInit == EnginesInit => EvidenceInv
  BY DEF EnginesInit, EvidenceInv, EvidenceTypes, Instants

\* A run begins without evidence.
LEMMA StartKeeps ==
  ASSUME EvidenceInv, StartRun
  PROVE  EvidenceInv'
  <1> DEFINE row == [status |-> "running", at |-> 0, result |-> [e \in Eligible |-> "withheld"]]
  <1>1. runs' = Append(runs, row) /\ UNCHANGED <<clock, checks>>
    BY DEF StartRun
  <1>2. row \in RunEntries
    <2>1. row.result \in RunResults
      BY EligibleOn DEF RunResults
    <2> QED BY <2>1 DEF RunEntries
  <1> HIDE DEF row
  <1>3. runs \in Seq(RunEntries)
    BY DEF EvidenceInv, EvidenceTypes
  <1>4. /\ runs' \in Seq(RunEntries)
        /\ \A i \in DOMAIN runs' : \/ i \in DOMAIN runs /\ runs'[i] = runs[i]
                                   \/ runs'[i] = row
    BY <1>1, <1>2, <1>3
  <1>5. row.at = 0 /\ row.status = "running"
    BY DEF row
  <1>6. EvidenceTypes'
    BY <1>1, <1>4 DEF EvidenceInv, EvidenceTypes
  <1>7. Instants'
    BY <1>1, <1>4, <1>5 DEF EvidenceInv, Instants
  <1> QED BY <1>6, <1>7 DEF EvidenceInv

\* A run ends at an instant of its own; a resumed one is no evidence.
LEMMA RunKeeps ==
  ASSUME EvidenceInv, NEW i \in DOMAIN runs, FinishRun(i) \/ ResumeRun(i)
  PROVE  EvidenceInv'
  <1>1. /\ runs \in Seq(RunEntries) /\ clock \in Nat
        /\ i \in 1..Len(runs) /\ runs[i] \in RunEntries
    BY DEF EvidenceInv, EvidenceTypes
  <1>2. PICK row : /\ runs' = [runs EXCEPT ![i] = row] /\ row \in RunEntries
                   /\ \/ /\ row.at = clock /\ clock' = clock + 1
                      \/ /\ row.at = runs[i].at /\ row.status = "running" /\ clock' = clock
    <2>1. CASE FinishRun(i)
      <3>1. PICK s \in {"complete", "failed"}, out \in [DOMAIN runs[i].result -> RunOutcomes] :
              runs' = [runs EXCEPT ![i] = [status |-> s, at |-> clock, result |-> out]]
        BY <2>1 DEF FinishRun
      <3>2. DOMAIN runs[i].result \in SUBSET Codes
        BY <1>1 DEF RunEntries, RunResults
      <3>3. out \in RunResults
        BY <3>2 DEF RunResults
      <3> DEFINE new == [status |-> s, at |-> clock, result |-> out]
      <3>4. new \in RunEntries /\ new.at = clock
        BY <1>1, <3>3 DEF RunEntries
      <3>5. clock' = clock + 1
        BY <2>1 DEF FinishRun, Tick
      <3> HIDE DEF new
      <3>6. runs' = [runs EXCEPT ![i] = new]
        BY <3>1 DEF new
      <3> QED BY <3>4, <3>5, <3>6
    <2>2. CASE ResumeRun(i)
      <3> DEFINE new == [runs[i] EXCEPT !.status = "running"]
      <3>1. runs' = [runs EXCEPT ![i] = new] /\ clock' = clock
        BY <2>2 DEF ResumeRun
      <3>2. new \in RunEntries /\ new.at = runs[i].at /\ new.status = "running"
        BY <1>1 DEF RunEntries
      <3> HIDE DEF new
      <3> QED BY <3>1, <3>2
    <2> QED BY <2>1, <2>2
  <1>3. checks' = checks
    BY DEF FinishRun, ResumeRun
  <1>4. /\ runs' \in Seq(RunEntries) /\ DOMAIN runs' = DOMAIN runs /\ runs'[i] = row
        /\ \A j \in DOMAIN runs : j # i => runs'[j] = runs[j]
    BY <1>1, <1>2
  <1>5. EvidenceTypes'
    BY <1>1, <1>2, <1>3, <1>4 DEF EvidenceInv, EvidenceTypes
  <1>6. Instants'
    <2>1. \A j \in DOMAIN runs : runs[j].at \in Nat
      BY RunAt DEF EvidenceInv
    <2>2. \A e \in Codes : checks[e].at \in Nat
      BY DEF EvidenceInv, EvidenceTypes
    <2> QED BY <1>1, <1>2, <1>3, <1>4, <2>1, <2>2 DEF EvidenceInv, Instants
  <1> QED BY <1>5, <1>6 DEF EvidenceInv

LEMMA CheckKeeps ==
  ASSUME EvidenceInv, NEW e \in Codes, CheckEngine(e)
  PROVE  EvidenceInv'
  <1>1. PICK s \in CheckStatuses : checks' = [checks EXCEPT ![e] = [status |-> s, at |-> clock]]
    BY DEF CheckEngine
  <1>2. clock' = clock + 1 /\ runs' = runs /\ clock \in Nat /\ s # "none"
    BY EnginesAssumption DEF CheckEngine, Tick, EvidenceInv, EvidenceTypes
  <1>3. EvidenceTypes'
    BY <1>1, <1>2 DEF EvidenceInv, EvidenceTypes
  <1>4. /\ checks'[e].at = clock /\ checks'[e].status = s
        /\ \A x \in Codes : x # e => checks'[x] = checks[x]
    BY <1>1 DEF EvidenceInv, EvidenceTypes
  <1>5. Instants'
    <2>1. \A j \in DOMAIN runs : runs[j].at \in Nat
      BY RunAt DEF EvidenceInv
    <2>2. \A x \in Codes : checks[x].at \in Nat
      BY DEF EvidenceInv, EvidenceTypes
    <2> QED BY <1>2, <1>4, <2>1, <2>2 DEF EvidenceInv, Instants
  <1> QED BY <1>3, <1>5 DEF EvidenceInv

LEMMA EvidenceStep == EvidenceInv /\ [EnginesNext]_enginesVars => EvidenceInv'
  <1> SUFFICES ASSUME EvidenceInv, [EnginesNext]_enginesVars PROVE EvidenceInv'
    OBVIOUS
  <1>1. CASE UNCHANGED <<clock, runs, checks>>
    BY <1>1 DEF EvidenceInv, EvidenceTypes, Instants
  <1> QED BY <1>1, StartKeeps, RunKeeps, CheckKeeps
          DEF EnginesNext, SwitchesNext, ChecksNext, ReadToggle, WriteToggle, ImportEngines,
              PatchApproved, StartSmoke, KillSmoke, enginesVars

\* The newest of distinct instants is the one the verdict weighs.
LEMMA VerdictRight ==
  ASSUME EvidenceInv
  PROVE  VerdictFollowsNewest
  <1> SUFFICES ASSUME NEW e \in Eligible, NEW x \in Evidence(e),
                      \A y \in Evidence(e) : y[1] =< x[1],
                      ~(x[3] # 0 /\ \E y \in Evidence(e) : y[3] > x[3])
               PROVE  Verdict(e) \in {"ready", "check_ok"} <=> x[2]
    BY DEF VerdictFollowsNewest
  <1>1. e \in Codes /\ e \in enabled \cap approved
    BY EligibleOn
  <1>2. /\ runs \in Seq(RunEntries) /\ RunsOf(e) \subseteq 1..Len(runs)
        /\ checks[e].at \in Nat /\ checks[e].status \in CheckStatuses \cup {"none"}
    BY <1>1 DEF EvidenceInv, EvidenceTypes, RunsOf
  <1>3. \A i \in RunsOf(e) :
          /\ <<runs[i].at, runs[i].result[e] = "ok", i>> \in Evidence(e)
          /\ runs[i].at \in Nat /\ runs[i].at # checks[e].at
          /\ runs[i].result[e] \in RunOutcomes \cup {"withheld"}
    <2> TAKE i \in RunsOf(e)
    <2>1. i \in DOMAIN runs /\ runs[i].status # "running" /\ e \in DOMAIN runs[i].result
      BY DEF RunsOf
    <2>2. runs[i] \in RunEntries
      BY <1>2, <2>1
    <2>3. runs[i].at \in Nat /\ runs[i].result[e] \in RunOutcomes \cup {"withheld"}
      BY <2>1, <2>2 DEF RunEntries, RunResults
    <2>4. runs[i].at # checks[e].at
      BY <1>1, <2>1, <2>3 DEF EvidenceInv, Instants
    <2>5. <<runs[i].at, runs[i].result[e] = "ok", i>> \in Evidence(e)
      BY <2>1 DEF Evidence
    <2> QED BY <2>3, <2>4, <2>5
  <1>4. IsFiniteSet(RunsOf(e)) /\ \A i \in RunsOf(e) : i \in Int
    <2>1. IsFiniteSet(1..Len(runs))
      BY <1>2, FS_Interval
    <2> QED BY <1>2, <2>1, FS_Subset
  <1>5. RunsOf(e) # {} => Max(RunsOf(e)) \in RunsOf(e) /\ \A i \in RunsOf(e) : i =< Max(RunsOf(e))
    BY <1>4, MaxBounds
  <1> DEFINE latest == Max(RunsOf(e))
  <1> HIDE DEF latest
  <1>6. CASE checks[e].at # 0 /\ x = <<checks[e].at, checks[e].status = "ok", 0>>
    <2>1. \A i \in RunsOf(e) : runs[i].at < checks[e].at
      <3> TAKE i \in RunsOf(e)
      <3>1. runs[i].at =< checks[e].at
        BY <1>3, <1>6
      <3>2. runs[i].at \in Nat /\ checks[e].at \in Nat /\ runs[i].at # checks[e].at
        BY <1>2, <1>3
      <3> QED BY <3>1, <3>2
    <2>2. Fresher(e)
      BY <1>5, <2>1 DEF Fresher
    <2>3. checks[e].status # "none"
      BY <1>1, <1>6 DEF EvidenceInv, Instants
    <2>4. Verdict(e) = CheckVerdict(checks[e].status)
      BY <1>1, <2>2, <2>3 DEF Verdict
    <2> QED BY <1>2, <1>6, <2>3, <2>4, EnginesAssumption DEF CheckVerdict
  <1>7. ASSUME NEW i \in RunsOf(e), x = <<runs[i].at, runs[i].result[e] = "ok", i>>
        PROVE  Verdict(e) \in {"ready", "check_ok"} <=> x[2]
    <2>1. \A j \in RunsOf(e) : j =< i
      <3> TAKE j \in RunsOf(e)
      <3>1. i # 0 /\ i \in Nat /\ j \in Nat
        BY <1>2
      <3>2. ~(j > i)
        BY <1>3, <1>7, <3>1
      <3> QED BY <3>1, <3>2
    <2>2. RunsOf(e) # {} /\ latest = i
      BY <1>4, <1>5, <2>1 DEF latest
    <2>3. ~(checks[e].status # "none" /\ Fresher(e))
      <3> SUFFICES ASSUME checks[e].status # "none" PROVE ~(checks[e].at > runs[i].at)
        BY <2>2 DEF Fresher, latest
      <3>1. checks[e].at # 0
        BY <1>1 DEF EvidenceInv, Instants
      <3>2. <<checks[e].at, checks[e].status = "ok", 0>> \in Evidence(e)
        BY <3>1 DEF Evidence
      <3> QED BY <1>2, <1>3, <1>7, <3>2
    <2>4. Verdict(e) = RunVerdict(runs[i].result[e])
      BY <1>1, <2>2, <2>3 DEF Verdict, latest
    <2> QED BY <1>3, <1>7, <2>4, EnginesAssumption DEF RunVerdict
  <1> QED BY <1>6, <1>7 DEF Evidence, RunsOf

\* For any engines, runs, resumes, checks and order of them, an engine is
\* called working exactly when its newest evidence says so.
THEOREM VerdictHolds == EnginesSpec => []VerdictFollowsNewest
  BY EvidenceInit, EvidenceStep, VerdictRight, PTL DEF EnginesSpec
-----------------------------------------------------------------------------
(* The waiting list                                                          *)

SignupPhases == {"new", "counted", "let in", "refused", "read", "done"}

WaitlistTypes ==
    /\ counter \in [hits : Nat, armed : BOOLEAN]
    /\ leaked \in BOOLEAN
    /\ signup \in [Signups -> [phase : SignupPhases, hits : Nat, seen : Nat]]
    /\ list \in [Emails -> [status : Statuses, submissions : Nat]]
    /\ moved \in [Emails -> Statuses]
    /\ saved \in [Emails -> Nat]

\* Two requests that have one row in hand were noticed; the only one that has
\* it knows what the row holds.
RowsInHand ==
    \A r \in InPhase({"read"}) : EmailOf[r] \notin clashed =>
        /\ signup[r].seen = list[EmailOf[r]].submissions
        /\ \A q \in InPhase({"read"}) : EmailOf[q] = EmailOf[r] => q = r

\* The requests whose hit was the key's first, and which have yet to arm it.
FirstHits == {r \in InPhase({"counted"}) : Arms(signup[r].hits)}

\* A key has one first hit, in hand or gone without its EXPIRE, never both.
OneFirstHit ==
    /\ counter.armed => counter.hits > 0
    /\ leaked => FirstHits = {}
    /\ \A q, r \in FirstHits : q = r

WaitlistInv == WaitlistTypes /\ RowsInHand /\ WaitlistHolds /\ OneFirstHit

USE WaitlistAssumption

LEMMA EmailKnown == \A r \in Signups : EmailOf[r] \in Emails
  BY DEF Emails

LEMMA PhaseKnown == \A phases : InPhase(phases) \subseteq Signups
  BY DEF InPhase

LEMMA WaitlistStarts == WaitlistInit => WaitlistInv
  <1> SUFFICES ASSUME WaitlistInit PROVE WaitlistInv
    OBVIOUS
  <1>1. WaitlistTypes
    BY DEF WaitlistInit, WaitlistTypes, NoRow, NoKey, Statuses, SignupPhases
  <1>2. RowsInHand
    BY DEF WaitlistInit, RowsInHand, InPhase
  <1>3. SignupsStand
    BY DEF WaitlistInit, SignupsStand, NoRow
  <1>4. WindowsEnd /\ OneFirstHit
    BY DEF WaitlistInit, WindowsEnd, OneFirstHit, FirstHits, InPhase, NoKey
  <1> QED BY <1>1, <1>2, <1>3, <1>4 DEF WaitlistInv, WaitlistHolds

\* A request that moves on to a phase in which it holds neither a row nor a
\* window, and takes nothing with it.
LEMMA RequestLeaves ==
  ASSUME WaitlistInv, NEW r \in Signups, NEW phase \in SignupPhases \ {"counted", "read"},
         signup' = Reaches(r, phase)
  PROVE  /\ signup' \in [Signups -> [phase : SignupPhases, hits : Nat, seen : Nat]]
         /\ InPhase({"read"})' \subseteq InPhase({"read"}) \ {r}
         /\ InPhase({"counted"})' = InPhase({"counted"}) \ {r}
         /\ \A q \in Signups : /\ signup'[q].seen = signup[q].seen
                               /\ signup'[q].hits = signup[q].hits
  BY ZenonT(30) DEF WaitlistInv, WaitlistTypes, Reaches, InPhase, SignupPhases

\* The rows do not notice.
LEMMA RowsKept ==
  ASSUME WaitlistInv, UNCHANGED <<list, moved, saved, clashed>>,
         InPhase({"read"})' \subseteq InPhase({"read"}),
         \A q \in Signups : signup'[q].seen = signup[q].seen
  PROVE  RowsInHand' /\ SignupsStand'
  <1>1. InPhase({"read"}) \subseteq Signups
    BY DEF InPhase
  <1>2. RowsInHand'
    BY <1>1 DEF WaitlistInv, RowsInHand
  <1>3. SignupsStand'
    BY DEF WaitlistInv, WaitlistHolds, SignupsStand
  <1> QED BY <1>2, <1>3

\* What the rate key and its first hits may do in one step: nothing; a hit; the
\* first hit armed; or the first hit, counted or not, gone without its EXPIRE.
LEMMA WindowStep ==
  ASSUME WaitlistInv, counter' \in [hits : Nat, armed : BOOLEAN], leaked' \in BOOLEAN,
         \/ UNCHANGED <<counter, leaked>> /\ FirstHits' = FirstHits
         \/ /\ counter'.hits = counter.hits + 1 /\ counter'.armed = counter.armed
            /\ \/ \E r : /\ FirstHits' = FirstHits \cup (IF counter.hits = 0 THEN {r} ELSE {})
                        /\ leaked' = leaked
               \/ /\ FirstHits' = FirstHits /\ (counter.hits = 0 => leaked')
                  /\ counter.hits # 0 => leaked' = leaked
         \/ \E r \in FirstHits : /\ FirstHits' = FirstHits \ {r}
                                 /\ counter'.hits = counter.hits
                                 /\ \/ counter'.armed /\ leaked' = leaked
                                    \/ ~counter'.armed /\ leaked'
         \/ counter.armed /\ counter' = NoKey /\ leaked' = leaked /\ FirstHits' = FirstHits
  PROVE  WindowsEnd' /\ OneFirstHit'
  <1>1. /\ counter.hits > 0 /\ ~counter.armed <=> leaked \/ FirstHits # {}
        /\ counter.hits \in Nat /\ counter.armed \in BOOLEAN /\ leaked \in BOOLEAN
        /\ counter.armed => counter.hits > 0
        /\ leaked => FirstHits = {}
        /\ \A q, r \in FirstHits : q = r
    BY DEF WaitlistInv, WaitlistHolds, WaitlistTypes, WindowsEnd, OneFirstHit, FirstHits
  <1>2. SUFFICES /\ counter'.hits > 0 /\ ~counter'.armed <=> leaked' \/ FirstHits' # {}
                 /\ counter'.armed => counter'.hits > 0
                 /\ leaked' => FirstHits' = {}
                 /\ \A q, r \in FirstHits' : q = r
    BY DEF WindowsEnd, OneFirstHit, FirstHits
  <1>3. CASE UNCHANGED <<counter, leaked>> /\ FirstHits' = FirstHits
    BY <1>1, <1>3
  <1>4. CASE /\ counter'.hits = counter.hits + 1 /\ counter'.armed = counter.armed
             /\ \E r : /\ FirstHits' = FirstHits \cup (IF counter.hits = 0 THEN {r} ELSE {})
                       /\ leaked' = leaked
    <2>1. PICK r : FirstHits' = FirstHits \cup (IF counter.hits = 0 THEN {r} ELSE {})
      BY <1>4
    <2>2. CASE counter.hits = 0
      BY <1>1, <1>4, <2>1, <2>2
    <2>3. CASE counter.hits # 0
      <3>1. FirstHits' = FirstHits /\ counter'.hits > 0 /\ counter.hits > 0
        BY <1>1, <1>4, <2>1, <2>3
      <3> QED BY <1>1, <1>4, <3>1
    <2> QED BY <2>2, <2>3
  <1>5. CASE /\ counter'.hits = counter.hits + 1 /\ counter'.armed = counter.armed
             /\ FirstHits' = FirstHits /\ (counter.hits = 0 => leaked')
             /\ counter.hits # 0 => leaked' = leaked
    <2>1. counter'.hits > 0
      BY <1>1, <1>5
    <2>2. CASE counter.hits = 0
      <3>1. ~(counter.hits > 0)
        BY <2>2
      <3>2. leaked' /\ ~counter.armed /\ FirstHits = {}
        BY <1>1, <1>5, <2>2, <3>1, Zenon
      <3> QED BY <1>5, <2>1, <3>2, Zenon
    <2>3. CASE counter.hits # 0
      <3>1. counter.hits > 0
        BY <1>1, <2>3
      <3>2. /\ leaked' = leaked /\ FirstHits' = FirstHits /\ counter'.armed = counter.armed
            /\ ~counter.armed <=> leaked \/ FirstHits # {}
        BY <1>1, <1>5, <2>3, <3>1, Zenon
      <3>3. (~counter'.armed <=> leaked' \/ FirstHits' # {}) /\ (leaked' => FirstHits' = {})
        BY <1>1, <3>2, Zenon
      <3> QED BY <1>1, <2>1, <3>2, <3>3, Zenon
    <2> QED BY <2>2, <2>3
  <1>6. CASE \E r \in FirstHits : /\ FirstHits' = FirstHits \ {r}
                                 /\ counter'.hits = counter.hits
                                 /\ \/ counter'.armed /\ leaked' = leaked
                                    \/ ~counter'.armed /\ leaked'
    BY <1>1, <1>6
  <1>7. CASE counter.armed /\ counter' = NoKey /\ leaked' = leaked /\ FirstHits' = FirstHits
    BY <1>1, <1>7 DEF NoKey
  <1> QED BY <1>3, <1>4, <1>5, <1>6, <1>7

\* A request that leaves its phase takes its first hit, if it had one, with it.
LEMMA FirstHitLeaves ==
  ASSUME WaitlistInv, NEW r \in Signups, NEW phase \in SignupPhases \ {"counted", "read"},
         signup' = Reaches(r, phase)
  PROVE  FirstHits' = FirstHits \ {r}
  <1>1. /\ InPhase({"counted"})' = InPhase({"counted"}) \ {r}
        /\ \A q \in InPhase({"counted"}) : signup'[q].hits = signup[q].hits
    BY RequestLeaves, PhaseKnown
  <1> QED BY <1>1 DEF FirstHits

LEMMA RequestStep ==
  ASSUME WaitlistInv, NEW r \in Signups,
         \/ DropSignup(r) \/ CountRequest(r) \/ JudgeRequest(r) \/ ExpireFails(r) \/ KillSignup(r)
  PROVE  WaitlistInv'
  <1> USE DEF WaitlistInv
  <1>a. /\ UNCHANGED <<list, moved, saved, clashed>>
        /\ counter \in [hits : Nat, armed : BOOLEAN] /\ leaked \in BOOLEAN
    BY DEF DropSignup, CountRequest, JudgeRequest, ExpireFails, KillSignup, WaitlistTypes
  <1>b. ASSUME NEW phase \in SignupPhases \ {"counted", "read"}, signup' = Reaches(r, phase)
        PROVE  /\ signup' \in [Signups -> [phase : SignupPhases, hits : Nat, seen : Nat]]
               /\ RowsInHand' /\ SignupsStand' /\ FirstHits' = FirstHits \ {r}
    BY <1>a, <1>b, RequestLeaves, RowsKept, FirstHitLeaves
  <1>c. signup[r].phase # "counted" => r \notin FirstHits
    BY DEF FirstHits, InPhase
  <1>d. SUFFICES /\ counter' \in [hits : Nat, armed : BOOLEAN] /\ leaked' \in BOOLEAN
                 /\ signup' \in [Signups -> [phase : SignupPhases, hits : Nat, seen : Nat]]
                 /\ RowsInHand' /\ SignupsStand' /\ WindowsEnd' /\ OneFirstHit'
    BY <1>a DEF WaitlistTypes, WaitlistHolds
  <1>1. CASE DropSignup(r)
    <2>1. /\ signup[r].phase # "counted" /\ signup' = Reaches(r, "done")
          /\ UNCHANGED <<counter, leaked>>
      BY <1>1 DEF DropSignup
    <2>2. FirstHits' = FirstHits
      BY <2>1, <1>b, <1>c DEF SignupPhases
    <2> QED BY <2>1, <2>2, <1>a, <1>b, WindowStep DEF SignupPhases
  <1>2. CASE CountRequest(r)
    <2>1. signup[r].phase = "new"
      BY <1>2 DEF CountRequest
    <2>2. CASE signup' = Reaches(r, "let in")
      <3>1. FirstHits' = FirstHits
        BY <2>1, <2>2, <1>b, <1>c DEF SignupPhases
      <3>3. signup'[r].phase = "let in"
        BY <2>2 DEF Reaches, WaitlistTypes
      <3>4. signup' # [signup EXCEPT ![r].phase = "counted", ![r].hits = counter.hits + 1]
        BY <3>3 DEF WaitlistTypes
      <3>2. \/ UNCHANGED <<counter, leaked>>
            \/ /\ counter' = [counter EXCEPT !.hits = counter.hits + 1]
               /\ leaked' = (leaked \/ counter.hits + 1 = 1)
        BY <1>2, <3>4 DEF CountRequest, Arms
      <3>5. /\ counter' \in [hits : Nat, armed : BOOLEAN] /\ leaked' \in BOOLEAN
            /\ \/ UNCHANGED <<counter, leaked>>
               \/ /\ counter'.hits = counter.hits + 1 /\ counter'.armed = counter.armed
                  /\ counter.hits = 0 => leaked'
                  /\ counter.hits # 0 => leaked' = leaked
        <4>1. CASE UNCHANGED <<counter, leaked>>
          BY <4>1, <1>a
        <4>2. CASE /\ counter' = [counter EXCEPT !.hits = counter.hits + 1]
                   /\ leaked' = (leaked \/ counter.hits + 1 = 1)
          <5>1. /\ counter' \in [hits : Nat, armed : BOOLEAN]
                /\ counter'.hits = counter.hits + 1 /\ counter'.armed = counter.armed
            BY <4>2, <1>a
          <5>2. CASE counter.hits = 0
            <6>1. counter.hits + 1 = 1
              BY <5>2
            <6>2. leaked'
              BY <4>2, <6>1, Zenon
            <6> QED BY <5>1, <5>2, <6>2, <1>a
          <5>3. CASE counter.hits # 0
            <6>1. ~(counter.hits + 1 = 1)
              BY <5>3, <1>a
            <6> QED BY <4>2, <5>1, <5>3, <6>1, <1>a
          <5> QED BY <5>2, <5>3
        <4> QED BY <3>2, <4>1, <4>2
      <3> QED BY <3>1, <3>5, <2>2, <1>b, WindowStep DEF SignupPhases
    <2>3. CASE /\ counter' = [counter EXCEPT !.hits = @ + 1]
               /\ signup' = [signup EXCEPT ![r].phase = "counted", ![r].hits = counter.hits + 1]
               /\ leaked' = leaked
      <3>1. /\ counter' \in [hits : Nat, armed : BOOLEAN]
            /\ counter'.hits = counter.hits + 1 /\ counter'.armed = counter.armed
        BY <2>3, <1>a
      <3>2. /\ signup' \in [Signups -> [phase : SignupPhases, hits : Nat, seen : Nat]]
            /\ signup'[r].phase = "counted" /\ signup'[r].hits = counter.hits + 1
            /\ \A q \in Signups \ {r} : signup'[q] = signup[q]
        BY <2>3, <3>1, ZenonT(30) DEF WaitlistTypes, SignupPhases
      <3>3. RowsInHand' /\ SignupsStand'
        <4>1. InPhase({"read"})' \subseteq InPhase({"read"})
          BY <3>2 DEF InPhase
        <4>2. \A q \in Signups : signup'[q].seen = signup[q].seen
          BY <2>3 DEF WaitlistTypes
        <4> QED BY <1>a, <4>1, <4>2, RowsKept
      <3>4. FirstHits' = FirstHits \cup (IF counter.hits = 0 THEN {r} ELSE {})
        BY <2>1, <3>2, <1>a DEF FirstHits, InPhase, Arms
      <3> QED BY <1>a, <2>3, <3>1, <3>2, <3>3, <3>4, WindowStep
    <2> QED BY <1>2, <2>2, <2>3 DEF CountRequest
  <1>3. CASE JudgeRequest(r)
    <2>1. leaked' = leaked /\ signup[r].phase = "counted"
      BY <1>3 DEF JudgeRequest
    <2>2. PICK phase \in {"refused", "let in"} : signup' = Reaches(r, phase)
      BY <1>3 DEF JudgeRequest
    <2>3. /\ counter' \in [hits : Nat, armed : BOOLEAN]
          /\ \/ /\ r \in FirstHits /\ counter'.armed /\ counter'.hits = counter.hits
             \/ r \notin FirstHits /\ counter' = counter
      BY <1>3, <2>1, <1>a DEF JudgeRequest, FirstHits, InPhase
    <2> QED BY <1>a, <1>b, <2>1, <2>2, <2>3, WindowStep DEF SignupPhases
  <1>4. CASE ExpireFails(r)
    <2>1. /\ r \in FirstHits /\ signup' = Reaches(r, "let in")
      BY <1>4 DEF ExpireFails, FirstHits, InPhase
    <2>2. PICK armed \in BOOLEAN : /\ counter' = [counter EXCEPT !.armed = armed]
                                   /\ leaked' = (leaked \/ ~armed)
      BY <1>4 DEF ExpireFails
    <2>3. /\ counter' \in [hits : Nat, armed : BOOLEAN] /\ leaked' \in BOOLEAN
          /\ counter'.hits = counter.hits
          /\ \/ counter'.armed /\ leaked' = leaked
             \/ ~counter'.armed /\ leaked'
      BY <2>2, <1>a
    <2> QED BY <1>b, <2>1, <2>3, WindowStep DEF SignupPhases
  <1>5. CASE KillSignup(r)
    <2>1. /\ signup' = Reaches(r, "done") /\ counter' = counter
          /\ leaked' = (leaked \/ r \in FirstHits)
      BY <1>5 DEF KillSignup, FirstHits, InPhase
    <2>2. r \in FirstHits => ~counter.armed
      BY DEF WaitlistHolds, WindowsEnd, FirstHits, InPhase
    <2> QED BY <1>a, <1>b, <2>1, <2>2, WindowStep DEF SignupPhases
  <1> QED BY <1>1, <1>2, <1>3, <1>4, <1>5

LEMMA ReadStep ==
  ASSUME WaitlistInv, NEW r \in Signups, ReadRow(r)
  PROVE  WaitlistInv'
  <1> USE DEF WaitlistInv
  <1>1. UNCHANGED <<counter, leaked, list, moved, saved>> /\ signup[r].phase = "let in"
    BY DEF ReadRow
  <1>2. /\ signup' \in [Signups -> [phase : SignupPhases, hits : Nat, seen : Nat]]
        /\ signup'[r].phase = "read" /\ signup'[r].seen = list[EmailOf[r]].submissions
        /\ \A q \in Signups \ {r} : signup'[q] = signup[q]
    BY EmailKnown DEF ReadRow, WaitlistTypes, SignupPhases
  <1>3. /\ InPhase({"read"})' = InPhase({"read"}) \cup {r}
        /\ InPhase({"counted"})' = InPhase({"counted"})
    BY <1>1, <1>2 DEF InPhase, WaitlistTypes
  <1>4. /\ clashed \subseteq clashed'
        /\ \A q \in InPhase({"read"}) : EmailOf[q] = EmailOf[r] => EmailOf[r] \in clashed'
    BY DEF ReadRow
  <1>5. RowsInHand'
    BY <1>1, <1>2, <1>3, <1>4 DEF RowsInHand, InPhase
  <1>6. WaitlistTypes' /\ SignupsStand'
    BY <1>1, <1>2, <1>4 DEF WaitlistTypes, WaitlistHolds, SignupsStand
  <1>7. WindowsEnd' /\ OneFirstHit'
    <2>1. FirstHits' = FirstHits
      BY <1>1, <1>2, <1>3 DEF FirstHits, InPhase
    <2> QED BY <1>1, <2>1, WindowStep DEF WaitlistTypes
  <1> QED BY <1>5, <1>6, <1>7 DEF WaitlistHolds

LEMMA SaveStep ==
  ASSUME WaitlistInv, NEW r \in Signups, SaveRow(r)
  PROVE  WaitlistInv'
  <1> USE DEF WaitlistInv
  <1> DEFINE e == EmailOf[r]
  <1>1. /\ UNCHANGED <<counter, leaked, moved, clashed>> /\ signup' = Reaches(r, "done")
        /\ r \in InPhase({"read"}) /\ e \in Emails /\ signup[r].seen \in Nat
    BY EmailKnown DEF SaveRow, InPhase, WaitlistTypes
  <1>2. /\ list' \in [Emails -> [status : Statuses, submissions : Nat]]
        /\ saved' \in [Emails -> Nat]
        /\ \A x \in Emails : list'[x].status = list[x].status
        /\ \A x \in Emails \ {e} : list'[x] = list[x] /\ saved'[x] = saved[x]
        /\ \/ list' = list /\ saved' = saved
           \/ list'[e].submissions = signup[r].seen + 1 /\ saved'[e] = saved[e] + 1
    <2>1. CASE signup[r].seen = 0 /\ list[e].submissions > 0
      BY <2>1 DEF SaveRow, WaitlistTypes
    <2>2. CASE ~(signup[r].seen = 0 /\ list[e].submissions > 0)
      <3>1. /\ list' = [list EXCEPT ![e] = [list[e] EXCEPT !.submissions = signup[r].seen + 1]]
            /\ saved' = [saved EXCEPT ![e] = @ + 1]
        BY <2>2 DEF SaveRow, Resubmitted
      <3> QED BY <1>1, <3>1 DEF WaitlistTypes
    <2> QED BY <2>1, <2>2
  <1>3. WaitlistTypes'
    BY <1>1, <1>2, RequestLeaves DEF SignupPhases, WaitlistTypes
  <1>4. WindowsEnd' /\ OneFirstHit'
    <2>1. r \notin FirstHits
      BY <1>1 DEF FirstHits, InPhase
    <2>2. FirstHits' = FirstHits
      BY <1>1, <2>1, FirstHitLeaves DEF SignupPhases
    <2> QED BY <1>1, <2>2, WindowStep DEF WaitlistTypes
  <1>6. RowsInHand'
    <2> SUFFICES ASSUME NEW q \in InPhase({"read"})', EmailOf[q] \notin clashed
                 PROVE  /\ signup'[q].seen = list'[EmailOf[q]].submissions
                        /\ \A p \in InPhase({"read"})' : EmailOf[p] = EmailOf[q] => p = q
      BY <1>1 DEF RowsInHand
    <2>1. /\ q \in InPhase({"read"}) /\ q # r /\ q \in Signups
          /\ InPhase({"read"})' \subseteq InPhase({"read"})
          /\ signup'[q].seen = signup[q].seen
      BY <1>1, RequestLeaves, PhaseKnown DEF SignupPhases
    <2>2. EmailOf[q] # e
      BY <1>1, <2>1 DEF RowsInHand
    <2>3. list'[EmailOf[q]] = list[EmailOf[q]]
      BY <1>2, <2>1, <2>2, EmailKnown
    <2> QED BY <2>1, <2>3 DEF RowsInHand
  <1>5. SignupsStand'
    <2> SUFFICES ASSUME NEW x \in Emails
                 PROVE  /\ list'[x].status = moved[x]
                        /\ x \notin clashed => list'[x].submissions = saved'[x]
      BY <1>1 DEF SignupsStand
    <2>1. list'[x].status = moved[x]
      BY <1>2 DEF WaitlistHolds, SignupsStand
    <2>2. ASSUME x \notin clashed PROVE list'[x].submissions = saved'[x]
      BY <1>1, <1>2, <2>2 DEF WaitlistHolds, SignupsStand, RowsInHand
    <2> QED BY <2>1, <2>2
  <1> QED BY <1>3, <1>4, <1>5, <1>6 DEF WaitlistHolds

LEMMA OtherStep ==
  ASSUME WaitlistInv,
         \/ WindowEnds
         \/ \E e \in Emails : \E s \in Statuses : MoveSignup(e, s)
         \/ UNCHANGED waitlistVars
  PROVE  WaitlistInv'
  <1> USE DEF WaitlistInv
  <1>1. CASE WindowEnds
    <2>1. /\ counter.armed /\ counter' = NoKey /\ UNCHANGED <<leaked, signup, list, moved, saved, clashed>>
      BY <1>1 DEF WindowEnds
    <2>2. counter' \in [hits : Nat, armed : BOOLEAN] /\ FirstHits' = FirstHits
      BY <2>1 DEF NoKey, FirstHits, InPhase
    <2>3. WindowsEnd' /\ OneFirstHit'
      BY <2>1, <2>2, WindowStep DEF WaitlistTypes
    <2> QED BY <2>1, <2>2, <2>3 DEF WaitlistTypes, RowsInHand, WaitlistHolds, SignupsStand, InPhase
  <1>2. ASSUME NEW e \in Emails, NEW s \in Statuses, MoveSignup(e, s) PROVE WaitlistInv'
    <2>1. UNCHANGED <<counter, leaked, signup, saved, clashed>>
      BY <1>2 DEF MoveSignup
    <2>2. /\ list' \in [Emails -> [status : Statuses, submissions : Nat]]
          /\ moved' \in [Emails -> Statuses]
          /\ \A x \in Emails : list'[x].submissions = list[x].submissions
          /\ \A x \in Emails : list'[x].status = moved'[x]
      BY <1>2 DEF MoveSignup, WaitlistTypes, WaitlistHolds, SignupsStand
    <2> QED BY <2>1, <2>2, EmailKnown DEF WaitlistTypes, RowsInHand, WaitlistHolds,
               SignupsStand, WindowsEnd, OneFirstHit, FirstHits, InPhase
  <1>3. CASE UNCHANGED waitlistVars
    BY <1>3 DEF waitlistVars, WaitlistTypes, RowsInHand, WaitlistHolds, SignupsStand,
                WindowsEnd, OneFirstHit, FirstHits, InPhase
  <1> QED BY <1>1, <1>2, <1>3

\* Whatever signs up, dies, fails, expires or is moved, the waiting list holds:
\* rows keep what is known of them, and only a first hit without its EXPIRE
\* leaves a rate key for good (routes/waitlist.py, api/waitlist_service.py).
THEOREM WaitlistKept == WaitlistSpec => []WaitlistHolds
  <1>1. WaitlistInv /\ [WaitlistNext]_waitlistVars => WaitlistInv'
    BY RequestStep, ReadStep, SaveStep, OtherStep DEF WaitlistNext
  <1>2. WaitlistInv => WaitlistHolds
    BY DEF WaitlistInv
  <1> QED BY WaitlistStarts, <1>1, <1>2, PTL DEF WaitlistSpec
-----------------------------------------------------------------------------
(* The page crawl.  ConflictsFollowPage is not inductive: the crawl knows    *)
(* facts by their ids long after it read them, while the fact sheet is       *)
(* written anew.  What makes it hold is that an id is never handed out       *)
(* twice, so that a known id means the fact the crawl knew or none; this is  *)
(* kept for the stored rows, for the pages of a crawl under way and for the  *)
(* sheet it read.                                                            *)

Brave == {"unasked", "absent", "indexed"}
PageReads == [http : Nat, price : Nat, noindex : BOOLEAN, dated : BOOLEAN, brave : Brave]
PageRows == [ok : BOOLEAN, http : Nat, noindex : BOOLEAN, dated : BOOLEAN, brave : Brave,
             conflicts : SUBSET Nat, checked : Nat, read : [price : Nat], known : SUBSET Nat]

CrawlTypes ==
  /\ now \in Nat /\ serves \in [Urls -> PageReads]
  /\ \A p \in DOMAIN crawled : crawled[p] \in PageRows

\* Ids are handed out once.
FactIds ==
  /\ lastFact \in Nat
  /\ \A f \in facts : f.id \in 1..lastFact
  /\ \A f, g \in facts : f.id = g.id => f = g

\* What a crawl found of a URL, by the ids it knew: as far as they name facts
\* that still stand, those it keeps are contradicted, and the contradicted ones
\* are all kept unless there was no more room.
Sound(conflicts, known, price) ==
  /\ known \subseteq 1..lastFact
  /\ \A f \in facts : f.id \in known =>
        /\ f.id \in conflicts => price # 0 /\ price # f.expected
        /\ price # 0 /\ price # f.expected =>
              f.id \in conflicts \/ Cardinality(conflicts) = MaxConflicts

\* The sheet a crawl under way has read.
SheetHeld ==
  /\ \A f \in crawler.facts : f.id \in 1..lastFact
  /\ \A f \in crawler.facts : \A g \in facts : f.id = g.id => f = g

\* A URL fetched and not yet stored.
Found(got) ==
  /\ got.page \in PageReads
  /\ got.conflicts \in SUBSET Nat /\ got.known \in SUBSET Nat

CrawlerHolds ==
  /\ crawler \in [phase : {"idle", "fetch", "store"}, facts : {crawler.facts},
                  todo : {crawler.todo}, parsed : {crawler.parsed}]
  /\ crawler.phase = "store" => crawler.todo \subseteq DOMAIN crawler.parsed
  /\ DOMAIN crawler.parsed \subseteq Urls
  /\ \A p \in DOMAIN crawler.parsed :
        /\ Found(crawler.parsed[p])
        /\ Sound(crawler.parsed[p].conflicts, crawler.parsed[p].known,
                 crawler.parsed[p].page.price)

RowsSound ==
  \A p \in DOMAIN crawled :
     Sound(crawled[p].conflicts, crawled[p].known, crawled[p].read.price)

CrawlInv == CrawlTypes /\ FactIds /\ SheetHeld /\ CrawlerHolds /\ RowsSound

LEMMA CrawlStarts == SiteInit => CrawlInv
  <1> SUFFICES ASSUME SiteInit PROVE CrawlInv
    OBVIOUS
  <1> USE DEF SiteInit
  <1>1. CrawlTypes
    BY SiteAssumption DEF CrawlTypes, PageReads, Brave
  <1>2. FactIds /\ RowsSound /\ SheetHeld
    BY DEF FactIds, RowsSound, SheetHeld, Idle
  <1>3. CrawlerHolds
    BY DEF CrawlerHolds, Idle
  <1> QED BY <1>1, <1>2, <1>3 DEF CrawlInv

\* Steps that leave facts, pages and crawl alone.
LEMMA CrawlRests ==
  ASSUME CrawlInv, UNCHANGED <<serves, facts, lastFact, crawled, crawler>>, now' \in Nat
  PROVE  CrawlInv'
  BY DEF CrawlInv, CrawlTypes, FactIds, SheetHeld, CrawlerHolds, RowsSound, Sound, Found

LEMMA OthersLeaveCrawl ==
  ASSUME CrawlInv, TrafficNext \/ UNCHANGED siteVars
  PROVE  CrawlInv'
  <1>1. now' \in Nat /\ UNCHANGED <<serves, facts, lastFact, crawled, crawler>>
    <2>1. now \in Nat
      BY DEF CrawlInv, CrawlTypes
    <2>2. CASE Screened
      <3>1. CASE HalfDayPasses
        BY <2>1, <3>1 DEF HalfDayPasses
      <3>2. ASSUME NEW S \in SUBSET Urls, Answered(S)
            PROVE  UNCHANGED <<now, serves, facts, lastFact, crawled, crawler>>
        BY <3>2 DEF Answered
      <3> QED BY <2>1, <2>2, <3>1, <3>2 DEF Screened
    <2>3. ASSUME NEW u \in Uploads,
                 \/ StartUpload(u) \/ ReadDays(u) \/ Flush(u) \/ FinishUpload(u)
                 \/ RefuseUpload(u) \/ AbortUpload(u)
          PROVE  UNCHANGED <<now, serves, facts, lastFact, crawled, crawler>>
      BY <2>3 DEF StartUpload, ReadDays, Flush, FinishUpload, RefuseUpload, AbortUpload
    <2>4. ASSUME NEW s \in DOMAIN Exports,
                 (\E x \in Exports[s] : ImportExport(s, x)) \/ ClearFirstParty(s)
          PROVE  UNCHANGED <<now, serves, facts, lastFact, crawled, crawler>>
      BY <2>4 DEF ImportExport, ClearFirstParty
    <2> QED BY <2>1, <2>2, <2>3, <2>4 DEF TrafficNext, siteVars
  <1> QED BY <1>1, CrawlRests

\* A new sheet: every fact in it is one that was there, or has an id above all
\* that were handed out.
LEMMA NewSheetSound ==
  ASSUME CrawlInv, lastFact' \in Nat, lastFact =< lastFact',
         \A f \in facts' : \/ f \in facts
                           \/ f.id \in (lastFact + 1)..lastFact',
         \A f, g \in facts' : f.id = g.id => f = g,
         UNCHANGED <<now, crawled, crawler, serves>>
  PROVE  CrawlInv'
  <1> USE DEF CrawlInv
  <1>0. lastFact \in Nat /\ 1..lastFact \subseteq 1..lastFact'
    BY DEF FactIds
  <1>1. ASSUME NEW K \in SUBSET (1..lastFact), NEW f \in facts', f.id \in K
        PROVE  f \in facts
    BY <1>0, <1>1
  <1>2. FactIds'
    BY <1>0 DEF FactIds
  <1>3. SheetHeld'
    <2> SUFFICES ASSUME NEW f \in crawler.facts
                 PROVE  /\ f.id \in 1..lastFact'
                        /\ \A g \in facts' : f.id = g.id => f = g
      BY DEF SheetHeld
    <2>1. f.id \in 1..lastFact
      BY DEF SheetHeld
    <2>2. ASSUME NEW g \in facts', f.id = g.id PROVE f = g
      BY <2>1, <2>2, <1>0 DEF SheetHeld
    <2> QED BY <2>1, <2>2, <1>0
  <1>4. \A C, K, n : Sound(C, K, n) => Sound(C, K, n)'
    BY <1>0, <1>1 DEF Sound
  <1>5. CrawlerHolds' /\ RowsSound'
    <2>1. RowsSound'
      BY <1>0, <1>1 DEF RowsSound, Sound
    <2>2. CrawlerHolds'
      BY <1>0, <1>1 DEF CrawlerHolds, Sound, Found
    <2> QED BY <2>1, <2>2
  <1> QED BY <1>2, <1>3, <1>5 DEF CrawlTypes

\* The fact sheet is edited by hand or written anew by an import.
LEMMA SheetStep ==
  ASSUME CrawlInv,
         \/ \E sheet \in FactSheets : \/ ImportFacts(sheet)
                                      \/ \E i \in DOMAIN sheet : CreateFact(sheet[i])
         \/ \E f \in facts : DeleteFact(f)
  PROVE  CrawlInv'
  <1>0. lastFact \in Nat /\ \A f \in facts : f.id \in 1..lastFact
    BY DEF CrawlInv, FactIds
  <1>1. ASSUME NEW sheet \in FactSheets, ImportFacts(sheet) PROVE CrawlInv'
    <2>1. sheet \in Seq([expected : Nat, active : BOOLEAN])
      BY SiteAssumption
    <2>2. Len(sheet) \in Nat /\ DOMAIN sheet = 1..Len(sheet)
      BY <2>1
    <2>3. lastFact' = lastFact + Len(sheet)
      BY <1>1 DEF ImportFacts
    <2>4. \A f \in facts' : \E i \in 1..Len(sheet) :
              f = NewFact(lastFact + i, sheet[i]) /\ f.id = lastFact + i
      BY <1>1, <2>2 DEF ImportFacts, NewFact
    <2>5. \A f \in facts' : f.id \in (lastFact + 1)..lastFact'
      BY <1>0, <2>2, <2>3, <2>4
    <2>6. \A f, g \in facts' : f.id = g.id => f = g
      <3> SUFFICES ASSUME NEW f \in facts', NEW g \in facts', f.id = g.id PROVE f = g
        OBVIOUS
      <3>1. PICK i \in 1..Len(sheet) :
              f = NewFact(lastFact + i, sheet[i]) /\ f.id = lastFact + i
        BY <2>4
      <3>2. PICK k \in 1..Len(sheet) :
              g = NewFact(lastFact + k, sheet[k]) /\ g.id = lastFact + k
        BY <2>4
      <3>3. i = k
        BY <1>0, <2>2, <3>1, <3>2
      <3> QED BY <3>1, <3>2, <3>3
    <2> QED BY <1>0, <1>1, <2>2, <2>3, <2>5, <2>6, NewSheetSound DEF ImportFacts
  <1>2. ASSUME NEW sheet \in FactSheets, NEW i \in DOMAIN sheet, CreateFact(sheet[i])
        PROVE  CrawlInv'
    <2>1. PICK h : h = NewFact(lastFact + 1, [sheet[i] EXCEPT !.active = TRUE])
      OBVIOUS
    <2>2. h.id = lastFact + 1
      BY <2>1 DEF NewFact
    <2>3. facts' = facts \cup {h} /\ lastFact' = lastFact + 1
      BY <1>2, <2>1 DEF CreateFact
    <2>4. \A f, g \in facts' : f.id = g.id => f = g
      BY <1>0, <2>2, <2>3 DEF CrawlInv, FactIds
    <2>5. UNCHANGED <<now, crawled, crawler, serves>>
      BY <1>2 DEF CreateFact
    <2> QED BY <1>0, <2>2, <2>3, <2>4, <2>5, NewSheetSound
  <1>3. ASSUME NEW d \in facts, DeleteFact(d) PROVE CrawlInv'
    <2>1. facts' \subseteq facts /\ lastFact' = lastFact
      BY <1>3 DEF DeleteFact
    <2>2. \A f, g \in facts' : f.id = g.id => f = g
      BY <2>1 DEF CrawlInv, FactIds
    <2> QED BY <1>0, <1>3, <2>1, <2>2, NewSheetSound DEF DeleteFact
  <1> QED BY <1>1, <1>2, <1>3

LEMMA PageEdited ==
  ASSUME CrawlInv, NEW p \in Urls, NEW served \in Serves, EditPage(p, served)
  PROVE  CrawlInv'
  <1>1. /\ UNCHANGED <<now, facts, lastFact, crawled, crawler>>
        /\ serves' \in [Urls -> PageReads]
    BY SiteAssumption DEF EditPage, CrawlInv, CrawlTypes, PageReads, Brave
  <1> QED BY <1>1 DEF CrawlInv, CrawlTypes, FactIds, SheetHeld, CrawlerHolds, RowsSound, Sound, Found

\* The crawl starts with the active facts, or is killed.
LEMMA CrawlBeginsOrDies ==
  ASSUME CrawlInv, StartCrawl \/ KillCrawl
  PROVE  CrawlInv'
  <1> USE DEF CrawlInv
  <1>1. UNCHANGED <<now, serves, facts, lastFact, crawled>>
    BY DEF StartCrawl, KillCrawl
  <1>2. \E phase \in {"idle", "fetch"}, sheet \in SUBSET facts : \E todo :
           crawler' = [phase |-> phase, facts |-> sheet, todo |-> todo, parsed |-> <<>>]
    <2>1. CASE KillCrawl
      <3>1. crawler' = [phase |-> "idle", facts |-> {}, todo |-> {}, parsed |-> <<>>]
        BY <2>1 DEF KillCrawl, Idle
      <3> QED BY <3>1
    <2>2. CASE StartCrawl
      <3>1. PICK sheet \in SUBSET facts : sheet = {f \in facts : f.active}
        OBVIOUS
      <3>2. PICK todo : todo = PowerPages
        OBVIOUS
      <3>3. crawler' = [Idle EXCEPT !.phase = "fetch", !.todo = todo, !.facts = sheet]
        BY <2>2, <3>1, <3>2 DEF StartCrawl
      <3>4. crawler' = [phase |-> "fetch", facts |-> sheet, todo |-> todo, parsed |-> <<>>]
        BY <3>3 DEF Idle
      <3> QED BY <3>4
    <2> QED BY <2>1, <2>2
  <1>3. /\ crawler'.parsed = <<>> /\ crawler'.facts \subseteq facts
        /\ crawler' \in [phase : {"idle", "fetch"}, facts : {crawler'.facts},
                         todo : {crawler'.todo}, parsed : {crawler'.parsed}]
        /\ crawler'.phase # "store"
    BY <1>2
  <1>4. CrawlTypes' /\ FactIds' /\ RowsSound'
    BY <1>1 DEF CrawlTypes, FactIds, RowsSound, Sound
  <1>5. SheetHeld'
    BY <1>1, <1>3 DEF SheetHeld, FactIds
  <1>6. CrawlerHolds'
    BY <1>3 DEF CrawlerHolds
  <1> QED BY <1>4, <1>5, <1>6

\* What a fetch finds is sound while the sheet it was checked against is held.
LEMMA FoundSound ==
  ASSUME SheetHeld, NEW price \in Nat, NEW D, NEW C \in SUBSET D, NEW K,
         C = D \/ Cardinality(C) = MaxConflicts,
         D = {f.id : f \in {g \in crawler.facts : price # 0 /\ price # g.expected}},
         K = {f.id : f \in crawler.facts}
  PROVE  Sound(C, K, price)
  BY DEF SheetHeld, Sound

LEMMA PageFetched ==
  ASSUME CrawlInv, NEW p \in Urls, FetchPage(p)
  PROVE  CrawlInv'
  <1> USE DEF CrawlInv
  <1>1. PICK s \in PageReads : s = serves[p]
    BY DEF CrawlTypes
  <1>2. PICK D : D = {f.id : f \in {g \in crawler.facts : s.price # 0 /\ s.price # g.expected}}
    OBVIOUS
  <1> DEFINE Fetched(conflicts) ==
               LET found == [page |-> serves[p], conflicts |-> conflicts,
                             known |-> {f.id : f \in crawler.facts}]
                   left == crawler.todo \ {p}
                   all == With(crawler.parsed, p, found)
               IN crawler' = [crawler EXCEPT !.parsed = all,
                                             !.todo = IF left = {} THEN DOMAIN all ELSE left,
                                             !.phase = IF left = {} THEN "store" ELSE "fetch"]
  <1>3. PICK C \in FactConflicts(serves[p], crawler.facts) : Fetched(C)
    BY DEF FetchPage
  <1>4. C \in SUBSET D /\ (C = D \/ Cardinality(C) = MaxConflicts)
    <2>1. Contradicted(serves[p], crawler.facts) = D
      BY <1>1, <1>2 DEF Contradicted, Contradicts
    <2>2. /\ Cardinality(D) =< MaxConflicts => C \in {D}
          /\ ~(Cardinality(D) =< MaxConflicts) =>
                 C \in {X \in SUBSET D : Cardinality(X) = MaxConflicts}
      BY Zenon, <1>3, <2>1 DEF FactConflicts
    <2> QED BY <2>2
  <1>5. PICK K : K = {f.id : f \in crawler.facts}
    OBVIOUS
  <1>6. PICK got : got = [page |-> s, conflicts |-> C, known |-> K]
    OBVIOUS
  <1>7. got.conflicts = C /\ got.known = K /\ got.page = s
    BY <1>6
  <1>8. PICK parsed : parsed = With(crawler.parsed, p, got)
    OBVIOUS
  <1>9. /\ DOMAIN parsed = {p} \cup DOMAIN crawler.parsed /\ parsed[p] = got
        /\ \A q \in DOMAIN crawler.parsed \ {p} : parsed[q] = crawler.parsed[q]
    BY <1>8 DEF With
  <1>10. PICK rest : rest = crawler.todo \ {p}
    OBVIOUS
  <1>11. crawler' = [crawler EXCEPT !.parsed = parsed,
                                    !.todo = IF rest = {} THEN DOMAIN parsed ELSE rest,
                                    !.phase = IF rest = {} THEN "store" ELSE "fetch"]
    BY <1>1, <1>5, <1>6, <1>8, <1>3, <1>10
  <1> HIDE DEF Fetched
  <1>12. UNCHANGED <<now, serves, facts, lastFact, crawled>>
    BY DEF FetchPage
  <1>13. crawler'.facts = crawler.facts /\ crawler'.parsed = parsed
    BY <1>11 DEF CrawlerHolds
  <1>14. Sound(C, K, s.price) /\ C \in SUBSET Nat /\ K \in SUBSET Nat
    <2>1. s.price \in Nat
      BY DEF PageReads
    <2>2. K \subseteq 1..lastFact /\ C \subseteq K
      BY <1>2, <1>5, <1>4 DEF SheetHeld
    <2>3. lastFact \in Nat
      BY DEF FactIds
    <2>4. Sound(C, K, s.price)
      BY <1>2, <1>5, <1>4, <2>1, FoundSound
    <2> QED BY <2>2, <2>3, <2>4
  <1>15. Found(got)
    BY <1>7, <1>14 DEF Found
  <1>16. CrawlerHolds'
    <2>1. crawler'.phase = "store" => crawler'.todo \subseteq DOMAIN parsed
      BY <1>11, <1>9 DEF CrawlerHolds
    <2>2. crawler' \in [phase : {"idle", "fetch", "store"}, facts : {crawler'.facts},
                        todo : {crawler'.todo}, parsed : {crawler'.parsed}]
      BY <1>9, <1>10, <1>11 DEF CrawlerHolds
    <2>3. DOMAIN parsed \subseteq Urls
      BY <1>9 DEF CrawlerHolds
    <2>4. ASSUME NEW q \in DOMAIN parsed
          PROVE  Found(parsed[q]) /\ Sound(parsed[q].conflicts, parsed[q].known, parsed[q].page.price)
      BY <1>7, <1>9, <1>14, <1>15 DEF CrawlerHolds
    <2> QED BY <1>12, <1>13, <2>1, <2>2, <2>3, <2>4 DEF CrawlerHolds, Sound, Found
  <1>17. CrawlTypes' /\ FactIds' /\ RowsSound' /\ SheetHeld'
    BY <1>12, <1>13 DEF CrawlTypes, FactIds, RowsSound, Sound, SheetHeld
  <1> QED BY <1>16, <1>17

\* A good fetch replaces what the last one found, a failed one keeps it.
LEMMA RowWritten ==
  ASSUME NEW old \in PageRows, NEW got, Found(got), now \in Nat
  PROVE  LET row == FetchedRow(old, got)
         IN  /\ row \in PageRows
             /\ \/ row.conflicts = old.conflicts /\ row.known = old.known
                   /\ row.read.price = old.read.price
                \/ row.conflicts = got.conflicts /\ row.known = got.known
                   /\ row.read.price = got.page.price
  <1>0. PICK page \in PageReads : page = got.page
    BY DEF Found
  <1>1. PICK row : row = [old EXCEPT !.ok = page.http < 400, !.http = page.http,
                                     !.checked = now \div 2]
    OBVIOUS
  <1>2. /\ row \in PageRows /\ row.conflicts = old.conflicts /\ row.known = old.known
        /\ row.read.price = old.read.price
    <2>1. page.http \in Nat /\ now \div 2 \in Nat /\ (page.http < 400) \in BOOLEAN
      BY DEF PageReads
    <2>2. PICK b \in BOOLEAN, d \in Nat :
             row = [old EXCEPT !.ok = b, !.http = page.http, !.checked = d]
      BY <1>1, <2>1, ZenonT(30)
    <2> QED BY <2>1, <2>2 DEF PageRows
  <1>3. CASE page.http >= 400
    BY <1>0, <1>1, <1>2, <1>3 DEF FetchedRow
  <1>4. CASE ~(page.http >= 400)
    <2>1. PICK new : new = [row EXCEPT !.noindex = page.noindex, !.dated = page.dated,
                                       !.brave = page.brave, !.conflicts = got.conflicts,
                                       !.read = [price |-> page.price], !.known = got.known]
      OBVIOUS
    <2>2. FetchedRow(old, got) = new
      BY <1>0, <1>1, <1>4, <2>1 DEF FetchedRow
    <2>3. /\ new \in PageRows /\ new.conflicts = got.conflicts /\ new.known = got.known
          /\ new.read.price = page.price
      BY <1>2, <2>1 DEF PageRows, PageReads, Found
    <2> QED BY <1>0, <2>2, <2>3
  <1> QED BY <1>3, <1>4

LEMMA PageStored ==
  ASSUME CrawlInv, NEW p \in Urls, StorePage(p)
  PROVE  CrawlInv'
  <1> USE DEF CrawlInv
  <1>1. PICK got : got = crawler.parsed[p]
    OBVIOUS
  <1>2. Found(got) /\ Sound(got.conflicts, got.known, got.page.price)
    BY <1>1 DEF StorePage, CrawlerHolds
  <1>3. PICK old : old = IF p \in DOMAIN crawled THEN crawled[p] ELSE BareRow
    OBVIOUS
  <1>4. old \in PageRows /\ Sound(old.conflicts, old.known, old.read.price)
    <2>1. CASE p \in DOMAIN crawled
      BY <1>3, <2>1 DEF CrawlTypes, RowsSound
    <2>2. CASE p \notin DOMAIN crawled
      <3>1. old = BareRow
        BY <1>3, <2>2
      <3>2. old \in PageRows
        <4>1. PICK read \in [price : Nat] : read = NeverRead
          BY DEF NeverRead
        <4>2. PICK brave \in Brave : brave = "unasked"
          BY DEF Brave
        <4>3. old = [ok |-> FALSE, http |-> 0, noindex |-> FALSE, dated |-> FALSE,
                     brave |-> brave, conflicts |-> {}, checked |-> 0, read |-> read,
                     known |-> {}]
          BY <3>1, <4>1, <4>2 DEF BareRow
        <4> QED BY <4>3 DEF PageRows
      <3>3. old.known = {}
        BY <3>1 DEF BareRow
      <3> QED BY <3>2, <3>3 DEF Sound
    <2> QED BY <2>1, <2>2
  <1>5. PICK row : row = FetchedRow(old, got)
    OBVIOUS
  <1>6. row \in PageRows /\ Sound(row.conflicts, row.known, row.read.price)
    BY <1>2, <1>4, <1>5, RowWritten DEF CrawlTypes, Sound
  <1>7. crawled' = With(crawled, p, row)
    BY <1>1, <1>3, <1>5 DEF StorePage
  <1>8. /\ DOMAIN crawled' = {p} \cup DOMAIN crawled /\ crawled'[p] = row
        /\ \A q \in DOMAIN crawled \ {p} : crawled'[q] = crawled[q]
    BY <1>7 DEF With
  <1>9. UNCHANGED <<now, serves, facts, lastFact>>
    BY DEF StorePage
  <1>10. CrawlTypes' /\ FactIds'
    BY <1>6, <1>8, <1>9 DEF CrawlTypes, FactIds
  <1>11. RowsSound'
    <2> SUFFICES ASSUME NEW q \in DOMAIN crawled'
                 PROVE  Sound(crawled'[q].conflicts, crawled'[q].known, crawled'[q].read.price)
      BY <1>9 DEF RowsSound, Sound
    <2>1. CASE q = p
      BY <1>6, <1>8, <2>1
    <2>2. CASE q # p
      BY <1>8, <2>2 DEF RowsSound
    <2> QED BY <2>1, <2>2
  <1>12. SheetHeld' /\ CrawlerHolds'
    <2>1. crawler' = IF crawler.todo = {p} THEN Idle ELSE [crawler EXCEPT !.todo = @ \ {p}]
      BY DEF StorePage
    <2>2. CASE crawler.todo = {p}
      BY <1>9, <2>1, <2>2 DEF Idle, SheetHeld, CrawlerHolds
    <2>3. CASE crawler.todo # {p}
      BY <1>9, <2>1, <2>3 DEF SheetHeld, CrawlerHolds, Sound, Found
    <2> QED BY <2>2, <2>3
  <1> QED BY <1>10, <1>11, <1>12

\* Whatever is crawled, imported, deleted or killed in between, and whichever of
\* a page's URLs is shown: a conflict with an active fact the crawl knew is one
\* the URL, as last read, states, and one it states is shown unless as many
\* others are kept (worker/page_crawl.py, api/own_pages_service.py).
THEOREM ConflictsHold == SiteSpec => []ConflictsFollowPage
  <1>1. CrawlInv /\ [SiteNext]_siteVars => CrawlInv'
    <2> SUFFICES ASSUME CrawlInv, [SiteNext]_siteVars PROVE CrawlInv'
      OBVIOUS
    <2>1. CASE TrafficNext \/ UNCHANGED siteVars
      BY <2>1, OthersLeaveCrawl
    <2>2. CASE CrawlNext
      <3>1. CASE Screened
        BY <3>1, OthersLeaveCrawl DEF TrafficNext
      <3> QED BY <2>2, <3>1, SheetStep, PageEdited, PageFetched, PageStored, CrawlBeginsOrDies
              DEF CrawlNext
    <2> QED BY <2>1, <2>2 DEF SiteNext
  <1>2. CrawlInv => ConflictsFollowPage
    <2> SUFFICES ASSUME CrawlInv, NEW p \in Pages, NEW url \in Freshest(p), NEW f \in facts,
                        f.active, f.id \in crawled[url].known
                 PROVE  /\ f \in LiveConflicts(crawled[url]) => Contradicts(crawled[url].read, f)
                        /\ Contradicts(crawled[url].read, f) =>
                              \/ f \in LiveConflicts(crawled[url])
                              \/ Cardinality(crawled[url].conflicts) = MaxConflicts
      BY Zenon DEF ConflictsFollowPage
    <2>1. url \in DOMAIN crawled
      BY DEF Freshest, UrlsOf
    <2>2. Sound(crawled[url].conflicts, crawled[url].known, crawled[url].read.price)
      BY <2>1 DEF CrawlInv, RowsSound
    <2>3. f \in LiveConflicts(crawled[url]) <=> f.id \in crawled[url].conflicts
      BY DEF LiveConflicts
    <2> QED BY <2>2, <2>3 DEF Contradicts, Sound
  <1> QED BY CrawlStarts, <1>1, <1>2, PTL DEF SiteSpec
-----------------------------------------------------------------------------
(* What the tenant uploads and imports.  ImportsCountOnce is not inductive:  *)
(* it needs, of an upload under way, that the rows it has flushed count the  *)
(* lines of the batches it has read, each once, and that the days it found   *)
(* in use hold those of every upload stored before it began (OpenRow).       *)

HitBag(B) == IsFiniteSet(DOMAIN B) /\ B \in [DOMAIN B -> Nat \ {0}]
CellsWith(B, key) == {c \in DOMAIN B : CellKey(c) = key}
HitsWith(B, key) == SumOver(B, CellsWith(B, key))
PathsIn(B) == {c[3] : c \in DOMAIN B} \ {OTHER_PATH}
DaysIn(B) == {c[1] : c \in DOMAIN B}

\* The lines and keys of the batches before the n-th.
ReadLines(u, n, key) == UNION {Lines(u, b, key) : b \in 1..(n - 1)}
ReadKeys(u, n) == UNION {BatchKeys(Logs[u][b]) : b \in 1..(n - 1)}

UploadRow(row) ==
  row \in [state : {"new", "open", "stored", "refused"}, next : {row.next}, paths : {row.paths},
           adds : {row.adds}, asked : BOOLEAN, before : {row.before}, days : {row.days},
           overlap : {row.overlap}, after : {row.after}]

OpenRow(u, row) ==
  /\ row.next \in 1..(Len(Logs[u]) + 1) /\ (row.asked \/ row.next = 1)
  /\ HitBag(row.adds)
  /\ \A key : HitsWith(row.adds, key) = Cardinality(ReadLines(u, row.next, key))
  /\ \A key \in ReadKeys(u, row.next) : key[1] \in row.days /\ key[1] \in DaysIn(row.adds)
  /\ IsFiniteSet(row.paths) /\ Cardinality(row.paths) =< MaxPaths
  /\ PathsIn(row.adds) \subseteq row.paths
  /\ row.asked => \A v \in row.after : AiDays(v) \subseteq row.before

UploadsHold ==
  /\ upload = [u \in Uploads |-> upload[u]]
  /\ \A u \in Uploads :
        /\ UploadRow(upload[u]) /\ upload[u].after \subseteq StoredLogs
        /\ upload[u].state = "new" => upload[u] = NewUpload
        /\ upload[u].state = "open" => OpenRow(u, upload[u])

StoredHold ==
  /\ IsFiniteSet(StoredLogs) /\ HitBag(hits)
  /\ \A key : HitsWith(hits, key) = Cardinality(UNION {LogLines(u, key) : u \in StoredLogs})
  /\ \A u \in StoredLogs : AiDays(u) \subseteq DaysIn(hits)
  /\ Cardinality(PathsIn(hits)) =< MaxPaths * Cardinality(StoredLogs)
  /\ DoubleCountTold

TrafficInv == UploadsHold /\ StoredHold /\ ExportsReplace

\* Bags add up, cell by cell.
LEMMA BagsAdd ==
  ASSUME NEW A, NEW B, HitBag(A), HitBag(B)
  PROVE  /\ HitBag(A (+) B) /\ DOMAIN (A (+) B) = DOMAIN A \cup DOMAIN B
         /\ \A key : HitsWith(A (+) B, key) = HitsWith(A, key) + HitsWith(B, key)
  <1>1. PICK C : C = A (+) B
    OBVIOUS
  <1>2. /\ DOMAIN C = DOMAIN A \cup DOMAIN B
        /\ \A c \in DOMAIN C : C[c] = (IF c \in DOMAIN A THEN A[c] ELSE 0)
                                      + (IF c \in DOMAIN B THEN B[c] ELSE 0)
        /\ C = [c \in DOMAIN C |-> C[c]]
    BY <1>1 DEF (+)
  <1>3. /\ IsFiniteSet(DOMAIN A) /\ IsFiniteSet(DOMAIN B) /\ IsFiniteSet(DOMAIN C)
        /\ \A c \in DOMAIN A : A[c] \in Nat \ {0}
        /\ \A c \in DOMAIN B : B[c] \in Nat \ {0}
    <2>1. /\ IsFiniteSet(DOMAIN A) /\ IsFiniteSet(DOMAIN B)
          /\ \A c \in DOMAIN A : A[c] \in Nat \ {0}
          /\ \A c \in DOMAIN B : B[c] \in Nat \ {0}
      BY DEF HitBag
    <2>2. IsFiniteSet(DOMAIN A \cup DOMAIN B)
      BY <2>1, FS_Union
    <2> QED BY <1>2, <2>1, <2>2
  <1>4. HitBag(C)
    BY <1>2, <1>3 DEF HitBag
  <1>5. ASSUME NEW key PROVE HitsWith(C, key) = HitsWith(A, key) + HitsWith(B, key)
    <2>1. PICK S : S = CellsWith(C, key)
      OBVIOUS
    <2>2. IsFiniteSet(S) /\ S \subseteq DOMAIN C
      BY <1>3, <2>1, FS_Subset DEF CellsWith
    <2>3. S \cap DOMAIN A = CellsWith(A, key) /\ S \cap DOMAIN B = CellsWith(B, key)
      BY <1>2, <2>1 DEF CellsWith
    <2>4. PICK f : f = [c \in S |-> IF c \in DOMAIN A THEN A[c] ELSE 0]
      OBVIOUS
    <2>5. PICK g : g = [c \in S |-> IF c \in DOMAIN B THEN B[c] ELSE 0]
      OBVIOUS
    <2>6. \A c \in S : f[c] \in Int /\ g[c] \in Int /\ C[c] = f[c] + g[c]
      BY <1>2, <1>3, <2>2, <2>4, <2>5
    <2>7. SumOver(C, S) = SumOver(f, S) + SumOver(g, S)
      BY <2>2, <2>6, SumAdds
    <2>8. SumOver(f, S) = SumOver(A, S \cap DOMAIN A)
      <3>1. \A c \in S : f[c] = IF c \in DOMAIN A THEN A[c] ELSE 0
        BY <2>4
      <3>2. \A c \in S \cap DOMAIN A : A[c] \in Int
        BY <1>3
      <3> QED BY <2>2, <3>1, <3>2, SumOfPart
    <2>9. SumOver(g, S) = SumOver(B, S \cap DOMAIN B)
      <3>1. \A c \in S : g[c] = IF c \in DOMAIN B THEN B[c] ELSE 0
        BY <2>5
      <3>2. \A c \in S \cap DOMAIN B : B[c] \in Int
        BY <1>3
      <3> QED BY <2>2, <3>1, <3>2, SumOfPart
    <2> QED BY <2>1, <2>3, <2>7, <2>8, <2>9 DEF HitsWith
  <1> QED BY <1>1, <1>2, <1>4, <1>5

LEMMA NoHits ==
  /\ HitBag(EmptyBag) /\ DOMAIN EmptyBag = {}
  /\ \A key : HitsWith(EmptyBag, key) = 0
  <1>1. DOMAIN EmptyBag = {} /\ EmptyBag \in [DOMAIN EmptyBag -> Nat \ {0}]
    BY DEF EmptyBag, SetToBag
  <1>2. \A key : CellsWith(EmptyBag, key) = {}
    BY <1>1 DEF CellsWith
  <1> QED BY <1>1, <1>2, SumEmpty, FS_EmptySet DEF HitBag, HitsWith

\* A batch, counted: each of its AI hits once, under its own key.
LEMMA BatchCounted ==
  ASSUME NEW batch, NEW n \in Nat, DOMAIN batch = 1..n, NEW kept
  PROVE  LET B == Counted(batch, kept)
         IN /\ HitBag(B) /\ PathsIn(B) \subseteq kept
            /\ \A key \in BatchKeys(batch) : key[1] \in DaysIn(B)
            /\ \A key : HitsWith(B, key)
                           = Cardinality({i \in AiLines(batch) : KeyOf(batch[i]) = key})
  <1>1. PICK I : I = AiLines(batch)
    OBVIOUS
  <1>2. IsFiniteSet(I)
    BY <1>1, FS_Interval, FS_Subset DEF AiLines
  <1>3. PICK F : F = [i \in I |-> CellOf(batch[i], kept)]
    OBVIOUS
  <1>4. PICK B : B = Counted(batch, kept)
    OBVIOUS
  <1>5. /\ DOMAIN B = {F[i] : i \in I} /\ B = [c \in DOMAIN B |-> B[c]]
        /\ \A c \in DOMAIN B : B[c] = Cardinality({i \in I : F[i] = c})
    <2>1. \A i \in I : F[i] = CellOf(batch[i], kept)
      BY <1>3
    <2>2. {CellOf(batch[i], kept) : i \in I} = {F[i] : i \in I}
      BY <2>1
    <2>3. \A c : {i \in I : CellOf(batch[i], kept) = c} = {i \in I : F[i] = c}
      BY <2>1
    <2> QED BY <1>1, <1>4, <2>2, <2>3 DEF Counted
  <1>6. IsFiniteSet(DOMAIN B)
    <2>1. PICK S : S = {F[i] : i \in I}
      OBVIOUS
    <2>2. IsFiniteSet(S)
      BY <1>2, <2>1, ImageFinite, Zenon
    <2> QED BY <1>5, <2>1, <2>2
  <1>7. ASSUME NEW c \in DOMAIN B PROVE B[c] \in Nat \ {0}
    <2>1. PICK S : S = {i \in I : F[i] = c}
      OBVIOUS
    <2>2. IsFiniteSet(S) /\ S # {}
      BY <1>2, <1>5, <1>7, <2>1, FS_Subset
    <2>3. Cardinality(S) \in Nat /\ Cardinality(S) # 0
      BY <2>2, FS_CardinalityType, FS_EmptySet
    <2> QED BY <1>5, <1>7, <2>1, <2>3
  <1>8. HitBag(B)
    BY <1>5, <1>6, <1>7 DEF HitBag
  <1>9. \A i \in I : /\ CellKey(F[i]) = KeyOf(batch[i])
                     /\ F[i][1] = batch[i].day
                     /\ F[i][3] # OTHER_PATH => F[i][3] \in kept
    BY <1>3 DEF CellOf, CellKey, KeyOf
  <1>10. PathsIn(B) \subseteq kept
    BY <1>5, <1>9 DEF PathsIn
  <1>11. ASSUME NEW key \in BatchKeys(batch) PROVE key[1] \in DaysIn(B)
    <2>1. PICK i \in I : key = KeyOf(batch[i])
      BY <1>1 DEF BatchKeys
    <2>2. key[1] = F[i][1] /\ F[i] \in DOMAIN B
      BY <1>5, <1>9, <2>1 DEF KeyOf
    <2> QED BY <2>2 DEF DaysIn
  <1>12. ASSUME NEW key
         PROVE  HitsWith(B, key) = Cardinality({i \in I : KeyOf(batch[i]) = key})
    <2>1. PICK S : S = CellsWith(B, key)
      OBVIOUS
    <2>2. S \subseteq DOMAIN B /\ IsFiniteSet(S)
      BY <1>6, <2>1, FS_Subset DEF CellsWith
    <2>3. \A c \in S : B[c] = Cardinality({i \in I : F[i] = c})
      BY <1>5, <2>2
    <2>4. SumOver(B, S) = Cardinality({i \in I : F[i] \in S})
      BY <1>2, <2>2, <2>3, SumOfFibers
    <2>5. {i \in I : F[i] \in S} = {i \in I : KeyOf(batch[i]) = key}
      BY <1>5, <1>9, <2>1 DEF CellsWith
    <2> QED BY <2>1, <2>4, <2>5 DEF HitsWith
  <1> QED BY <1>1, <1>4, <1>8, <1>10, <1>11, <1>12

\* The paths kept are those seen as the last of them came.
LEMMA PathsKept ==
  ASSUME NEW batch, NEW n \in Nat, DOMAIN batch = 1..n,
         NEW paths, IsFiniteSet(paths), Cardinality(paths) =< MaxPaths
  PROVE  /\ IsFiniteSet(KeptPaths(batch, paths)) /\ paths \subseteq KeptPaths(batch, paths)
         /\ Cardinality(KeptPaths(batch, paths)) =< MaxPaths
  <1> DEFINE seen(i) == paths \cup {batch[k].path : k \in {l \in AiLines(batch) : l =< i}}
             room == {i \in AiLines(batch) : Cardinality(seen(i)) =< MaxPaths}
             kept == KeptPaths(batch, paths)
  <1>1. kept = paths \cup {batch[i].path : i \in room}
    BY DEF KeptPaths
  <1>2. AiLines(batch) \subseteq 1..n /\ IsFiniteSet(AiLines(batch))
    BY FS_Interval, FS_Subset DEF AiLines
  <1>3. CASE room = {}
    <2>1. kept = paths
      BY <1>1, <1>3
    <2> QED BY <2>1
  <1>4. CASE room # {}
    <2>1. PICK m \in room : \A i \in room : i =< m
      <3>1. IsFiniteSet(room) /\ room \subseteq 1..n
        BY <1>2, FS_Subset
      <3> HIDE DEF room
      <3>2. \A i \in room : i \in Int
        BY <3>1
      <3> QED BY <1>4, <3>1, <3>2, MaxBounds
    <2>2. kept \subseteq seen(m) /\ Cardinality(seen(m)) =< MaxPaths
      BY <1>1, <2>1
    <2>3. IsFiniteSet(seen(m))
      <3>1. PICK S : S = {l \in AiLines(batch) : l =< m}
        OBVIOUS
      <3>2. PICK G : G = [k \in S |-> batch[k].path]
        OBVIOUS
      <3>3. IsFiniteSet(S)
        BY <1>2, <3>1, FS_Subset
      <3>4. {batch[k].path : k \in S} = {G[k] : k \in S}
        BY <3>2
      <3>5. IsFiniteSet({batch[k].path : k \in S})
        BY <3>3, <3>4, ImageFinite
      <3> QED BY <3>1, <3>5, FS_Union
    <2>4. IsFiniteSet(kept) /\ Cardinality(kept) =< Cardinality(seen(m))
      BY <2>2, <2>3, FS_Subset
    <2>5. Cardinality(kept) \in Nat /\ Cardinality(seen(m)) \in Nat
      BY <2>3, <2>4, FS_CardinalityType
    <2>6. Cardinality(kept) =< MaxPaths
      <3> HIDE DEF kept, seen
      <3> QED BY <2>2, <2>4, <2>5, SiteAssumption
    <2>7. paths \subseteq kept
      BY <1>1
    <2> QED BY <2>4, <2>6, <2>7
  <1> QED BY <1>3, <1>4

LEMMA LogTypes ==
  ASSUME NEW u \in Uploads
  PROVE  /\ Len(Logs[u]) \in Nat /\ DOMAIN Logs[u] = 1..Len(Logs[u])
         /\ \A b \in DOMAIN Logs[u] : \E n \in Nat : DOMAIN Logs[u][b] = 1..n
  <1>1. PICK H : Logs[u] \in Seq(Seq(H))
    BY SiteAssumption DEF Uploads
  <1>2. Len(Logs[u]) \in Nat /\ DOMAIN Logs[u] = 1..Len(Logs[u])
    BY <1>1
  <1>3. ASSUME NEW b \in DOMAIN Logs[u] PROVE \E n \in Nat : DOMAIN Logs[u][b] = 1..n
    <2>1. Logs[u][b] \in Seq(H)
      BY <1>1, <1>2, <1>3
    <2>2. Len(Logs[u][b]) \in Nat /\ DOMAIN Logs[u][b] = 1..Len(Logs[u][b])
      BY <2>1
    <2> QED BY <2>2
  <1> QED BY <1>2, <1>3

LEMMA LinesCount ==
  ASSUME NEW u \in Uploads, NEW b \in DOMAIN Logs[u], NEW key
  PROVE  /\ IsFiniteSet(Lines(u, b, key))
         /\ Cardinality(Lines(u, b, key))
              = Cardinality({i \in AiLines(Logs[u][b]) : KeyOf(Logs[u][b][i]) = key})
  <1>1. PICK I : I = {i \in AiLines(Logs[u][b]) : KeyOf(Logs[u][b][i]) = key}
    OBVIOUS
  <1>2. IsFiniteSet(I)
    <2>1. PICK n \in Nat : DOMAIN Logs[u][b] = 1..n
      BY LogTypes
    <2>2. I \subseteq 1..n
      BY <1>1, <2>1 DEF AiLines
    <2>3. IsFiniteSet(1..n)
      BY FS_Interval
    <2> QED BY <2>2, <2>3, FS_Subset
  <1>3. PICK G : G = [i \in I |-> <<u, b, i>>]
    OBVIOUS
  <1>4. PICK S : S = Lines(u, b, key)
    OBVIOUS
  <1>5. G \in Bijection(I, S)
    <2>1. S = {<<u, b, i>> : i \in I}
      BY <1>1, <1>4 DEF Lines
    <2>2. G \in [I -> S] /\ \A t \in S : \E i \in I : G[i] = t
      BY <1>3, <2>1
    <2>3. \A i, k \in I : G[i] = G[k] => i = k
      BY <1>3
    <2> QED BY <2>2, <2>3 DEF Bijection, Injection, Surjection, IsInjective
  <1>6. ExistsBijection(I, S)
    BY <1>5 DEF ExistsBijection
  <1>7. IsFiniteSet(S) /\ Cardinality(S) = Cardinality(I)
    BY <1>2, <1>6, FS_Bijection
  <1> QED BY <1>1, <1>4, <1>7

LEMMA ReadLinesFinite ==
  ASSUME NEW u \in Uploads, NEW n \in 1..(Len(Logs[u]) + 1), NEW key
  PROVE  IsFiniteSet(ReadLines(u, n, key))
  <1>1. Len(Logs[u]) \in Nat /\ DOMAIN Logs[u] = 1..Len(Logs[u])
    BY LogTypes
  <1>2. PICK m \in Nat : m = n - 1 /\ 1..m \subseteq DOMAIN Logs[u]
    BY <1>1
  <1>3. PICK G : G = [b \in 1..m |-> Lines(u, b, key)]
    OBVIOUS
  <1>4. IsFiniteSet({G[b] : b \in 1..m})
    <2>1. PICK D : D = 1..m
      OBVIOUS
    <2>2. IsFiniteSet(D)
      BY <2>1, FS_Interval
    <2>3. IsFiniteSet({G[b] : b \in D})
      BY <2>2, ImageFinite, Zenon
    <2> QED BY <2>1, <2>3
  <1>5. \A S \in {G[b] : b \in 1..m} : IsFiniteSet(S)
    BY <1>2, <1>3, LinesCount
  <1>6. ReadLines(u, n, key) = UNION {G[b] : b \in 1..m}
    BY <1>2, <1>3 DEF ReadLines
  <1>7. IsFiniteSet(UNION {G[b] : b \in 1..m})
    <2>1. PICK SS : SS = {G[b] : b \in 1..m}
      OBVIOUS
    <2> QED BY <1>4, <1>5, <2>1, FS_UNION
  <1> QED BY <1>6, <1>7

\* The lines of one more batch.
LEMMA ReadMore ==
  ASSUME NEW u \in Uploads, NEW n \in 1..Len(Logs[u]), NEW key
  PROVE  /\ ReadKeys(u, n + 1) = ReadKeys(u, n) \cup BatchKeys(Logs[u][n])
         /\ Cardinality(ReadLines(u, n + 1, key))
              = Cardinality(ReadLines(u, n, key))
                + Cardinality({i \in AiLines(Logs[u][n]) : KeyOf(Logs[u][n][i]) = key})
  <1>1. Len(Logs[u]) \in Nat /\ DOMAIN Logs[u] = 1..Len(Logs[u])
    BY LogTypes
  <1>2. /\ 1..((n + 1) - 1) = 1..(n - 1) \cup {n} /\ n \in DOMAIN Logs[u]
        /\ n \in 1..(Len(Logs[u]) + 1) /\ n \notin 1..(n - 1)
    BY <1>1
  <1>3. ReadKeys(u, n + 1) = ReadKeys(u, n) \cup BatchKeys(Logs[u][n])
    BY <1>2 DEF ReadKeys
  <1>4. PICK A, B : A = ReadLines(u, n, key) /\ B = Lines(u, n, key)
    OBVIOUS
  <1>5. IsFiniteSet(A) /\ IsFiniteSet(B)
    BY <1>2, <1>4, ReadLinesFinite, LinesCount
  <1>6. A \cup B = ReadLines(u, n + 1, key)
    BY <1>2, <1>4 DEF ReadLines
  <1>7. A \cap B = {}
    <2> SUFFICES ASSUME NEW t \in A, t \in B PROVE FALSE
      OBVIOUS
    <2>1. PICK b \in 1..(n - 1) : t \in Lines(u, b, key)
      BY <1>4 DEF ReadLines
    <2>2. t[2] = b /\ t[2] = n
      BY <1>4, <2>1 DEF Lines
    <2> QED BY <1>2, <2>1, <2>2
  <1>8. Cardinality(A \cup B) = Cardinality(A) + Cardinality(B)
    <2>1. Cardinality(A \cup B) = Cardinality(A) + Cardinality(B) - 0
      BY <1>5, <1>7, FS_Union, FS_EmptySet
    <2>2. Cardinality(A) \in Nat /\ Cardinality(B) \in Nat
      BY <1>5, FS_CardinalityType
    <2> QED BY <2>1, <2>2
  <1>9. Cardinality(B) = Cardinality({i \in AiLines(Logs[u][n]) : KeyOf(Logs[u][n][i]) = key})
    BY <1>2, <1>4, LinesCount
  <1> QED BY <1>3, <1>4, <1>6, <1>8, <1>9

\* A log read to its end.
LEMMA ReadAll ==
  ASSUME NEW u \in Uploads, NEW n \in 1..(Len(Logs[u]) + 1), n > Len(Logs[u])
  PROVE  /\ \A key : LogLines(u, key) = ReadLines(u, n, key) /\ IsFiniteSet(LogLines(u, key))
         /\ LogKeys(u) = ReadKeys(u, n)
  <1>1. Len(Logs[u]) \in Nat /\ DOMAIN Logs[u] = 1..Len(Logs[u])
    BY LogTypes
  <1>2. 1..(n - 1) = DOMAIN Logs[u]
    BY <1>1
  <1> QED BY <1>2, ReadLinesFinite DEF LogLines, LogKeys, ReadLines, ReadKeys

\* An upload moves and stores nothing.
LEMMA UploadMoves ==
  ASSUME UploadsHold, StoredHold, NEW u \in Uploads, NEW row,
         upload' = [upload EXCEPT ![u] = row], hits' = hits, upload[u].state # "stored",
         UploadRow(row), row.state \in {"open", "refused"}, row.after \subseteq StoredLogs,
         row.state = "open" => OpenRow(u, row)
  PROVE  UploadsHold' /\ StoredHold'
  <1>1. /\ upload' = [v \in Uploads |-> upload'[v]] /\ upload'[u] = row
        /\ \A v \in Uploads \ {u} : upload'[v] = upload[v]
    <2>1. upload = [v \in Uploads |-> upload[v]]
      BY DEF UploadsHold
    <2> QED BY <2>1
  <1>2. StoredLogs' = StoredLogs
    BY <1>1 DEF StoredLogs
  <1>3. UploadsHold'
    <2> SUFFICES ASSUME NEW v \in Uploads
                 PROVE  /\ UploadRow(upload'[v]) /\ upload'[v].after \subseteq StoredLogs
                        /\ upload'[v].state = "new" => upload'[v] = NewUpload
                        /\ upload'[v].state = "open" => OpenRow(v, upload'[v])
      BY <1>1, <1>2 DEF UploadsHold
    <2>1. CASE v = u
      BY <1>1, <2>1
    <2>2. CASE v # u
      BY <1>1, <2>2 DEF UploadsHold
    <2> QED BY <2>1, <2>2
  <1>4. DoubleCountTold'
    <2>1. \A v \in StoredLogs : upload'[v] = upload[v]
      BY <1>1 DEF StoredLogs
    <2> QED BY <1>2, <2>1 DEF StoredHold, DoubleCountTold
  <1>5. StoredHold'
    BY <1>2, <1>4 DEF StoredHold
  <1> QED BY <1>3, <1>5

\* The rows of an upload that has read nothing.
LEMMA FreshRows ==
  /\ NewUpload = [state |-> "new", next |-> 1, paths |-> {}, adds |-> EmptyBag,
                  asked |-> FALSE, before |-> {}, days |-> {}, overlap |-> {}, after |-> {}]
  /\ UploadRow(NewUpload)
  BY DEF NewUpload, UploadRow

LEMMA UploadStartKeeps ==
  ASSUME UploadsHold, StoredHold, NEW u \in Uploads, StartUpload(u)
  PROVE  UploadsHold' /\ StoredHold'
  <1>1. upload[u] = NewUpload /\ upload[u].state = "new"
    BY DEF UploadsHold, StartUpload
  <1>2. PICK row : row = [upload[u] EXCEPT !.state = "open", !.after = StoredLogs]
    OBVIOUS
  <1>3. /\ upload' = [upload EXCEPT ![u] = row] /\ hits' = hits
    BY <1>2 DEF StartUpload, StoredLogs, UploadsHold
  <1>4. /\ UploadRow(row) /\ row.state = "open" /\ row.after \subseteq StoredLogs
        /\ row.next = 1 /\ row.paths = {} /\ row.adds = EmptyBag /\ row.asked = FALSE
    <2>1. UploadRow(upload[u])
      BY DEF UploadsHold
    <2>2. /\ upload[u].next = 1 /\ upload[u].paths = {} /\ upload[u].adds = EmptyBag
          /\ upload[u].asked = FALSE
      BY <1>1 DEF NewUpload
    <2>3. /\ row.state = "open" /\ row.after = StoredLogs /\ row.next = upload[u].next
          /\ row.paths = upload[u].paths /\ row.adds = upload[u].adds
          /\ row.asked = upload[u].asked /\ UploadRow(row)
      BY <1>2, <2>1 DEF UploadRow
    <2> QED BY <2>2, <2>3
  <1>5. OpenRow(u, row)
    <2>1. row.next \in 1..(Len(Logs[u]) + 1) /\ row.next = 1
      BY <1>4, LogTypes
    <2>2. 1..(1 - 1) = {}
      OBVIOUS
    <2>3. \A key : ReadLines(u, 1, key) = {}
      BY <2>2 DEF ReadLines
    <2>4. ReadKeys(u, 1) = {}
      BY <2>2 DEF ReadKeys
    <2>5. HitBag(row.adds) /\ DOMAIN row.adds = {} /\ \A key : HitsWith(row.adds, key) = 0
      BY <1>4, NoHits
    <2>6. PathsIn(row.adds) = {}
      BY <2>5 DEF PathsIn
    <2>7. IsFiniteSet({}) /\ Cardinality({}) = 0 /\ MaxPaths \in Nat
      BY FS_EmptySet, SiteAssumption
    <2>8. row.paths = {} /\ ~row.asked
      BY <1>4
    <2>9. \A key : HitsWith(row.adds, key) = Cardinality(ReadLines(u, row.next, key))
      BY <2>1, <2>3, <2>5, <2>7
    <2>10. Cardinality(row.paths) =< MaxPaths
      BY <2>7, <2>8
    <2> QED BY <2>1, <2>4, <2>5, <2>6, <2>7, <2>8, <2>9, <2>10 DEF OpenRow
  <1> QED BY <1>1, <1>3, <1>4, <1>5, UploadMoves

\* A stored upload's days have data, and stay so.
LEMMA UploadReadDaysKeeps ==
  ASSUME UploadsHold, StoredHold, NEW u \in Uploads, ReadDays(u)
  PROVE  UploadsHold' /\ StoredHold'
  <1>1. /\ upload[u].state = "open" /\ OpenRow(u, upload[u]) /\ UploadRow(upload[u])
        /\ upload[u].after \subseteq StoredLogs
    BY DEF UploadsHold, ReadDays, Open
  <1>2. PICK row : row = [upload[u] EXCEPT !.asked = TRUE, !.before = DaysIn(hits)]
    OBVIOUS
  <1>3. upload' = [upload EXCEPT ![u] = row] /\ hits' = hits
    BY <1>2 DEF ReadDays, UploadsHold, DaysIn, BagToSet
  <1>4. /\ row.state = "open" /\ row.next = upload[u].next /\ row.paths = upload[u].paths
        /\ row.adds = upload[u].adds /\ row.asked /\ row.before = DaysIn(hits)
        /\ row.days = upload[u].days /\ row.after = upload[u].after /\ UploadRow(row)
    BY <1>1, <1>2 DEF UploadRow
  <1>5. \A v \in row.after : AiDays(v) \subseteq row.before
    BY <1>1, <1>4 DEF StoredHold
  <1>6. OpenRow(u, row)
    BY <1>1, <1>4, <1>5 DEF OpenRow
  <1> QED BY <1>1, <1>3, <1>4, <1>6, UploadMoves

LEMMA UploadFlushKeeps ==
  ASSUME UploadsHold, StoredHold, NEW u \in Uploads, Flush(u)
  PROVE  UploadsHold' /\ StoredHold'
  <1>1. PICK old : old = upload[u]
    OBVIOUS
  <1>2. /\ old.state = "open" /\ OpenRow(u, old) /\ UploadRow(old) /\ old.after \subseteq StoredLogs
        /\ old.asked /\ old.next =< Len(Logs[u])
    BY <1>1 DEF UploadsHold, Flush, Open, More
  <1>3. PICK n \in 1..Len(Logs[u]) : n = old.next
    BY <1>2, LogTypes DEF OpenRow
  <1>4. PICK batch, size : size \in Nat /\ batch = Logs[u][n] /\ DOMAIN batch = 1..size
    <2>1. n \in DOMAIN Logs[u]
      BY <1>3, LogTypes
    <2> QED BY <2>1, LogTypes
  <1>5. PICK kept, agg : kept = KeptPaths(batch, old.paths) /\ agg = Counted(batch, kept)
    OBVIOUS
  <1>6. PICK row : row = [old EXCEPT !.next = n + 1, !.paths = kept, !.adds = old.adds (+) agg,
                                     !.days = old.days \cup DaysIn(agg)]
    OBVIOUS
  <1>7. Ingested(u) = [agg |-> agg, paths |-> kept]
    BY <1>1, <1>3, <1>4, <1>5 DEF Ingested, Aggregated
  <1>8. upload' = [upload EXCEPT ![u] = row] /\ hits' = hits
    <2>1. Ingested(u).agg = agg /\ Ingested(u).paths = kept
      BY <1>7
    <2>2. PICK new : new = [upload[u] EXCEPT !.next = @ + 1, !.paths = kept, !.adds = @ (+) agg,
                                             !.days = @ \cup DaysIn(agg)]
      OBVIOUS
    <2>3. upload' = [upload EXCEPT ![u].next = @ + 1, ![u].paths = kept, ![u].adds = @ (+) agg,
                                   ![u].days = @ \cup DaysIn(agg)]
      BY <2>1 DEF Flush, DaysIn, BagToSet, DaysSoFar
    <2>4. upload' = [upload EXCEPT ![u] = new]
      BY <2>2, <2>3 DEF UploadsHold
    <2>5. new = row
      BY <1>1, <1>3, <1>6, <2>2
    <2> QED BY <2>4, <2>5 DEF Flush
  <1>9. /\ row.state = "open" /\ row.next = n + 1 /\ row.paths = kept
        /\ row.adds = old.adds (+) agg /\ row.asked /\ row.before = old.before
        /\ row.days = old.days \cup DaysIn(agg) /\ row.after = old.after /\ UploadRow(row)
    BY <1>2, <1>6 DEF UploadRow
  <1>10. /\ HitBag(agg) /\ PathsIn(agg) \subseteq kept
         /\ \A key \in BatchKeys(batch) : key[1] \in DaysIn(agg)
         /\ \A key : HitsWith(agg, key)
                        = Cardinality({i \in AiLines(batch) : KeyOf(batch[i]) = key})
    BY <1>4, <1>5, BatchCounted
  <1>11. /\ IsFiniteSet(kept) /\ old.paths \subseteq kept /\ Cardinality(kept) =< MaxPaths
    <2>1. IsFiniteSet(old.paths) /\ Cardinality(old.paths) =< MaxPaths
      BY <1>2 DEF OpenRow
    <2> QED BY <1>4, <1>5, <2>1, PathsKept
  <1>12. /\ HitBag(old.adds) /\ PathsIn(old.adds) \subseteq old.paths
         /\ \A key : HitsWith(old.adds, key) = Cardinality(ReadLines(u, n, key))
         /\ \A key \in ReadKeys(u, n) : key[1] \in old.days /\ key[1] \in DaysIn(old.adds)
         /\ \A v \in old.after : AiDays(v) \subseteq old.before
    BY <1>2, <1>3 DEF OpenRow
  <1>13. /\ HitBag(row.adds) /\ DOMAIN row.adds = DOMAIN old.adds \cup DOMAIN agg
         /\ \A key : HitsWith(row.adds, key) = HitsWith(old.adds, key) + HitsWith(agg, key)
    <2>1. PICK A : A = old.adds
      OBVIOUS
    <2>2. HitBag(A) /\ HitBag(agg)
      BY <1>10, <1>12, <2>1
    <2>3. /\ HitBag(A (+) agg) /\ DOMAIN (A (+) agg) = DOMAIN A \cup DOMAIN agg
          /\ \A key : HitsWith(A (+) agg, key) = HitsWith(A, key) + HitsWith(agg, key)
      BY <2>2, BagsAdd, Zenon
    <2>4. row.adds = A (+) agg
      BY <1>9, <2>1
    <2> QED BY <2>1, <2>3, <2>4, Zenon
  <1>14. DaysIn(row.adds) = DaysIn(old.adds) \cup DaysIn(agg)
    BY <1>13 DEF DaysIn
  <1>15. PathsIn(row.adds) \subseteq row.paths
    <2>1. PathsIn(row.adds) = PathsIn(old.adds) \cup PathsIn(agg)
      BY <1>13 DEF PathsIn
    <2> QED BY <1>9, <1>10, <1>11, <1>12, <2>1
  <1>16. \A key : HitsWith(row.adds, key) = Cardinality(ReadLines(u, n + 1, key))
    <2> SUFFICES ASSUME NEW key
                 PROVE  HitsWith(row.adds, key) = Cardinality(ReadLines(u, n + 1, key))
      OBVIOUS
    <2>1. Cardinality(ReadLines(u, n + 1, key))
            = Cardinality(ReadLines(u, n, key))
              + Cardinality({i \in AiLines(batch) : KeyOf(batch[i]) = key})
      BY <1>4, ReadMore
    <2>2. HitsWith(row.adds, key) = HitsWith(old.adds, key) + HitsWith(agg, key)
      BY <1>13
    <2>3. HitsWith(old.adds, key) = Cardinality(ReadLines(u, n, key))
      BY <1>12
    <2>4. HitsWith(agg, key) = Cardinality({i \in AiLines(batch) : KeyOf(batch[i]) = key})
      BY <1>10
    <2> QED BY <2>1, <2>2, <2>3, <2>4
  <1>17. \A key \in ReadKeys(u, n + 1) : key[1] \in row.days /\ key[1] \in DaysIn(row.adds)
    <2>1. ReadKeys(u, n + 1) = ReadKeys(u, n) \cup BatchKeys(batch)
      BY <1>4, ReadMore
    <2> QED BY <1>9, <1>10, <1>12, <1>14, <2>1
  <1>18. row.next \in 1..(Len(Logs[u]) + 1)
    BY <1>3, <1>9, LogTypes
  <1>19. OpenRow(u, row)
    BY <1>9, <1>11, <1>12, <1>13, <1>15, <1>16, <1>17, <1>18 DEF OpenRow
  <1> QED BY <1>1, <1>2, <1>8, <1>9, <1>19, UploadMoves

\* A refused or aborted upload leaves nothing behind.
LEMMA UploadRefusalKeeps ==
  ASSUME UploadsHold, StoredHold, NEW u \in Uploads, RefuseUpload(u) \/ AbortUpload(u)
  PROVE  UploadsHold' /\ StoredHold'
  <1>1. upload[u].state = "open"
    BY DEF RefuseUpload, AbortUpload, Blocks, Open
  <1>2. PICK row : row = [NewUpload EXCEPT !.state = "refused"]
    OBVIOUS
  <1>3. upload' = [upload EXCEPT ![u] = row] /\ hits' = hits
    BY <1>2 DEF RefuseUpload, AbortUpload, AfterRefusal
  <1>4. row.state = "refused" /\ row.after = {} /\ UploadRow(row)
    BY <1>2, FreshRows DEF UploadRow
  <1> QED BY <1>1, <1>3, <1>4, UploadMoves

LEMMA LogLinesFinite ==
  ASSUME NEW u \in Uploads, NEW key
  PROVE  IsFiniteSet(LogLines(u, key))
  <1>1. PICK m \in Nat : m = Len(Logs[u])
    BY LogTypes
  <1>2. m + 1 \in 1..(m + 1) /\ m + 1 > m
    BY <1>1
  <1>3. PICK n : n = m + 1
    OBVIOUS
  <1>4. n \in 1..(Len(Logs[u]) + 1) /\ n > Len(Logs[u])
    BY <1>1, <1>2, <1>3
  <1> QED BY <1>4, ReadAll

LEMMA StoredLines ==
  ASSUME NEW S, S \subseteq Uploads, IsFiniteSet(S), NEW key
  PROVE  IsFiniteSet(UNION {LogLines(v, key) : v \in S})
  <1>1. PICK G : G = [v \in S |-> LogLines(v, key)]
    OBVIOUS
  <1>2. PICK SS : SS = {G[v] : v \in S}
    OBVIOUS
  <1>3. IsFiniteSet(SS)
    BY <1>2, ImageFinite, Zenon
  <1>4. \A T \in SS : IsFiniteSet(T)
    BY <1>1, <1>2, LogLinesFinite
  <1>5. IsFiniteSet(UNION SS)
    BY <1>3, <1>4, FS_UNION
  <1>6. SS = {LogLines(v, key) : v \in S}
    BY <1>1, <1>2
  <1> QED BY <1>5, <1>6

\* The lines of one more log are none of those stored.
LEMMA OneMoreLog ==
  ASSUME NEW S, S \subseteq Uploads, IsFiniteSet(S), NEW u \in Uploads \ S, NEW key
  PROVE  Cardinality(UNION {LogLines(v, key) : v \in S \cup {u}})
           = Cardinality(UNION {LogLines(v, key) : v \in S}) + Cardinality(LogLines(u, key))
  <1>1. PICK A, B : A = UNION {LogLines(v, key) : v \in S} /\ B = LogLines(u, key)
    OBVIOUS
  <1>2. IsFiniteSet(A) /\ IsFiniteSet(B)
    BY <1>1, StoredLines, LogLinesFinite
  <1>3. A \cup B = UNION {LogLines(v, key) : v \in S \cup {u}}
    BY <1>1
  <1>4. A \cap B = {}
    <2> SUFFICES ASSUME NEW t \in A, t \in B PROVE FALSE
      OBVIOUS
    <2>1. PICK v \in S : t \in LogLines(v, key)
      BY <1>1
    <2>2. t[1] = v /\ t[1] = u
      BY <1>1, <2>1 DEF LogLines, Lines
    <2> QED BY <2>1, <2>2
  <1>5. Cardinality(A \cup B) = Cardinality(A) + Cardinality(B) - Cardinality(A \cap B)
    BY <1>2, FS_Union
  <1>6. Cardinality(A) \in Nat /\ Cardinality(B) \in Nat /\ Cardinality({}) = 0
    BY <1>2, FS_CardinalityType, FS_EmptySet
  <1>7. Cardinality(A \cup B) = Cardinality(A) + Cardinality(B)
    <2>1. Cardinality(A \cap B) = 0
      BY <1>4, <1>6, Zenon
    <2> QED BY <1>5, <1>6, <2>1
  <1> QED BY <1>1, <1>3, <1>7

LEMMA UploadFinishKeeps ==
  ASSUME UploadsHold, StoredHold, NEW u \in Uploads, FinishUpload(u)
  PROVE  UploadsHold' /\ StoredHold'
  <1>1. PICK old, adds : old = upload[u] /\ adds = old.adds
    OBVIOUS
  <1>2. /\ old.state = "open" /\ OpenRow(u, old) /\ UploadRow(old) /\ old.after \subseteq StoredLogs
        /\ ~(old.next =< Len(Logs[u])) /\ u \notin StoredLogs
    BY <1>1 DEF UploadsHold, FinishUpload, Open, More, StoredLogs
  <1>3. PICK row : row = [upload[u] EXCEPT !.state = "stored", !.adds = EmptyBag, !.paths = {},
                                           !.overlap = Told(u)]
    OBVIOUS
  <1>4. upload' = [upload EXCEPT ![u] = row] /\ hits' = hits (+) adds
    BY <1>1, <1>3 DEF FinishUpload, UploadsHold
  <1>5. /\ row.state = "stored" /\ row.after = old.after
        /\ u \notin Drained => row.overlap = old.days \cap old.before
        /\ UploadRow(row)
    BY <1>1, <1>2, <1>3 DEF UploadRow, Told
  <1>6. /\ upload' = [v \in Uploads |-> upload'[v]] /\ upload'[u] = row
        /\ \A v \in Uploads \ {u} : upload'[v] = upload[v]
    <2>1. upload = [v \in Uploads |-> upload[v]]
      BY DEF UploadsHold
    <2> QED BY <1>4, <2>1
  <1>7. StoredLogs' = StoredLogs \cup {u} /\ StoredLogs \subseteq Uploads
    BY <1>5, <1>6 DEF StoredLogs
  <1>8. UploadsHold'
    <2> SUFFICES ASSUME NEW v \in Uploads
                 PROVE  /\ UploadRow(upload'[v]) /\ upload'[v].after \subseteq StoredLogs'
                        /\ upload'[v].state = "new" => upload'[v] = NewUpload
                        /\ upload'[v].state = "open" => OpenRow(v, upload'[v])
      BY <1>6 DEF UploadsHold
    <2>1. CASE v = u
      BY <1>2, <1>5, <1>6, <1>7, <2>1
    <2>2. CASE v # u
      BY <1>6, <1>7, <2>2 DEF UploadsHold
    <2> QED BY <2>1, <2>2
  <1>9. /\ old.next \in 1..(Len(Logs[u]) + 1) /\ (old.asked \/ old.next = 1)
        /\ HitBag(adds) /\ HitBag(hits)
        /\ \A key : HitsWith(adds, key) = Cardinality(ReadLines(u, old.next, key))
        /\ \A key \in ReadKeys(u, old.next) : key[1] \in old.days /\ key[1] \in DaysIn(adds)
        /\ IsFiniteSet(old.paths) /\ Cardinality(old.paths) =< MaxPaths
        /\ PathsIn(adds) \subseteq old.paths
        /\ old.asked => \A v \in old.after : AiDays(v) \subseteq old.before
    BY <1>1, <1>2 DEF OpenRow, StoredHold
  <1>10. /\ \A key : LogLines(u, key) = ReadLines(u, old.next, key)
         /\ LogKeys(u) = ReadKeys(u, old.next)
    <2>1. old.next > Len(Logs[u])
      BY <1>2, <1>9, LogTypes
    <2> QED BY <1>9, <2>1, ReadAll
  <1>11. PICK all : all = hits (+) adds
    OBVIOUS
  <1>12. /\ HitBag(all) /\ DOMAIN all = DOMAIN hits \cup DOMAIN adds
         /\ \A key : HitsWith(all, key) = HitsWith(hits, key) + HitsWith(adds, key)
    <2>1. HitBag(hits) /\ HitBag(adds)
      BY <1>9
    <2>2. /\ HitBag(hits (+) adds) /\ DOMAIN (hits (+) adds) = DOMAIN hits \cup DOMAIN adds
          /\ \A key : HitsWith(hits (+) adds, key) = HitsWith(hits, key) + HitsWith(adds, key)
      BY <2>1, BagsAdd, Zenon
    <2> QED BY <1>11, <2>2, Zenon
  <1>13. IsFiniteSet(StoredLogs) /\ IsFiniteSet(StoredLogs')
    <2>1. IsFiniteSet(StoredLogs)
      BY DEF StoredHold
    <2>2. IsFiniteSet(StoredLogs \cup {u})
      BY <2>1, FS_AddElement
    <2> QED BY <1>7, <2>1, <2>2
  <1>14. ASSUME NEW key
         PROVE  HitsWith(all, key) = Cardinality(UNION {LogLines(v, key) : v \in StoredLogs'})
    <2>1. HitsWith(hits, key) = Cardinality(UNION {LogLines(v, key) : v \in StoredLogs})
      BY DEF StoredHold
    <2>2. HitsWith(adds, key) = Cardinality(LogLines(u, key))
      BY <1>9, <1>10
    <2>3. Cardinality(UNION {LogLines(v, key) : v \in StoredLogs \cup {u}})
            = Cardinality(UNION {LogLines(v, key) : v \in StoredLogs})
              + Cardinality(LogLines(u, key))
      BY <1>2, <1>7, <1>13, OneMoreLog
    <2>4. HitsWith(all, key) = HitsWith(hits, key) + HitsWith(adds, key)
      BY <1>12
    <2> QED BY <1>7, <2>1, <2>2, <2>3, <2>4
  <1>15. DaysIn(all) = DaysIn(hits) \cup DaysIn(adds) /\ PathsIn(all) = PathsIn(hits) \cup PathsIn(adds)
    BY <1>12 DEF DaysIn, PathsIn
  <1>16. AiDays(u) \subseteq DaysIn(adds) /\ AiDays(u) \subseteq old.days
    BY <1>9, <1>10 DEF AiDays
  <1>17. \A v \in StoredLogs' : AiDays(v) \subseteq DaysIn(all)
    BY <1>7, <1>15, <1>16 DEF StoredHold
  <1>18. Cardinality(PathsIn(all)) =< MaxPaths * Cardinality(StoredLogs')
    <2>1. PICK A, B : A = PathsIn(hits) /\ B = PathsIn(adds)
      OBVIOUS
    <2>2. IsFiniteSet(A)
      <3>1. PICK S, G : S = DOMAIN hits /\ G = [c \in S |-> c[3]]
        OBVIOUS
      <3>2. IsFiniteSet(S)
        BY <1>9, <3>1 DEF HitBag
      <3>3. IsFiniteSet({G[c] : c \in S})
        BY <3>2, ImageFinite, Zenon
      <3>4. A \subseteq {G[c] : c \in S}
        BY <2>1, <3>1 DEF PathsIn
      <3> QED BY <3>3, <3>4, FS_Subset
    <2>3. IsFiniteSet(B) /\ Cardinality(B) =< Cardinality(old.paths)
      BY <1>9, <2>1, FS_Subset
    <2>4. Cardinality(A \cup B) = Cardinality(A) + Cardinality(B) - Cardinality(A \cap B)
      BY <2>2, <2>3, FS_Union
    <2>5. IsFiniteSet(A \cap B)
      BY <2>2, FS_Subset
    <2>6. /\ Cardinality(A) \in Nat /\ Cardinality(B) \in Nat /\ Cardinality(A \cap B) \in Nat
          /\ Cardinality(old.paths) \in Nat /\ Cardinality(StoredLogs) \in Nat
      BY <1>9, <1>13, <2>2, <2>3, <2>5, FS_CardinalityType
    <2>7. Cardinality(StoredLogs') = Cardinality(StoredLogs) + 1
      BY <1>2, <1>7, <1>13, FS_AddElement
    <2>8. Cardinality(A) =< MaxPaths * Cardinality(StoredLogs)
      BY <2>1 DEF StoredHold
    <2>9. PICK k \in Nat, m \in Nat : k = Cardinality(StoredLogs) /\ m = MaxPaths
      BY <2>6, SiteAssumption
    <2>10. m * (k + 1) = m * k + m /\ m * k \in Nat
      BY <2>9
    <2>11. Cardinality(A \cup B) =< m * k + m
      <3>1. PICK q \in Nat : q = m * k
        BY <2>10
      <3>2. Cardinality(A) =< q /\ Cardinality(B) =< m
        BY <1>9, <2>3, <2>6, <2>8, <2>9, <3>1
      <3>3. Cardinality(A \cup B) =< q + m
        BY <2>4, <2>6, <2>9, <3>2
      <3> QED BY <3>1, <3>3
    <2> QED BY <1>15, <2>1, <2>7, <2>9, <2>10, <2>11
  <1>19. DoubleCountTold'
    <2> SUFFICES ASSUME NEW w \in StoredLogs' \ Drained, NEW v \in upload'[w].after
                 PROVE  AiDays(v) \cap AiDays(w) \subseteq upload'[w].overlap
      BY DEF DoubleCountTold, AiDays, LogKeys
    <2>1. CASE w # u
      <3>1. w \in StoredLogs \ Drained /\ upload'[w] = upload[w]
        BY <1>6, <1>7, <2>1
      <3> QED BY <3>1 DEF StoredHold, DoubleCountTold
    <2>2. CASE w = u /\ old.asked
      <3>1. AiDays(v) \subseteq old.before
        BY <1>5, <1>6, <1>9, <2>2
      <3> QED BY <1>5, <1>6, <1>16, <2>2, <3>1
    <2>3. CASE w = u /\ ~old.asked
      <3>1. 1..(1 - 1) = {}
        OBVIOUS
      <3>2. AiDays(u) = {}
        BY <1>9, <1>10, <2>3, <3>1 DEF AiDays, ReadKeys
      <3> QED BY <2>3, <3>2
    <2> QED BY <2>1, <2>2, <2>3
  <1>20. StoredHold'
    <2>1. all = hits'
      BY <1>4, <1>11
    <2>2. /\ IsFiniteSet(StoredLogs') /\ HitBag(hits')
          /\ \A key : HitsWith(hits', key) = Cardinality(UNION {LogLines(v, key) : v \in StoredLogs'})
      BY <1>12, <1>13, <1>14, <2>1
    <2>3. /\ \A v \in StoredLogs' : AiDays(v) \subseteq DaysIn(hits')
          /\ Cardinality(PathsIn(hits')) =< MaxPaths * Cardinality(StoredLogs')
      BY <1>17, <1>18, <2>1
    <2> QED BY <1>19, <2>2, <2>3 DEF StoredHold
  <1> QED BY <1>8, <1>20

\* A re-import replaces the cells it names, and they are its source's own.
LEMMA ExportsKept ==
  ASSUME ExportsReplace, NEW s \in DOMAIN Exports,
         (\E x \in Exports[s] : ImportExport(s, x)) \/ ClearFirstParty(s)
  PROVE  ExportsReplace'
  <1>1. ASSUME NEW x \in Exports[s], ImportExport(s, x) PROVE ExportsReplace'
    <2>1. PICK new : new = CellsOf(s, x)
      OBVIOUS
    <2>2. \A c \in DOMAIN new : c[1] = s
      BY <2>1 DEF CellsOf
    <2>3. imported' = Upserted(imported, new)
      BY <1>1, <2>1 DEF ImportExport
    <2>4. /\ DOMAIN imported' = DOMAIN imported \cup DOMAIN new
          /\ \A c \in DOMAIN new : imported'[c] = new[c]
          /\ \A c \in DOMAIN imported \ DOMAIN new : imported'[c] = imported[c]
      BY <2>3 DEF Upserted
    <2> SUFFICES ASSUME NEW c \in DOMAIN imported'
                 PROVE  \E y \in Exports[c[1]] : /\ c \in DOMAIN CellsOf(c[1], y)
                                                 /\ CellsOf(c[1], y)[c] = imported'[c]
      BY DEF ExportsReplace
    <2>5. CASE c \in DOMAIN new
      <3>1. c[1] = s /\ imported'[c] = new[c]
        BY <2>2, <2>4, <2>5
      <3> QED BY <2>1, <2>5, <3>1
    <2>6. CASE c \notin DOMAIN new
      <3>1. c \in DOMAIN imported /\ imported'[c] = imported[c]
        BY <2>4, <2>6
      <3> QED BY <3>1 DEF ExportsReplace
    <2> QED BY <2>5, <2>6
  <1>2. ASSUME ClearFirstParty(s) PROVE ExportsReplace'
    <2>1. /\ DOMAIN imported' \subseteq DOMAIN imported
          /\ \A c \in DOMAIN imported' : imported'[c] = imported[c]
      BY <1>2 DEF ClearFirstParty
    <2> SUFFICES ASSUME NEW c \in DOMAIN imported'
                 PROVE  \E y \in Exports[c[1]] : /\ c \in DOMAIN CellsOf(c[1], y)
                                                 /\ CellsOf(c[1], y)[c] = imported'[c]
      BY DEF ExportsReplace
    <2> QED BY <2>1 DEF ExportsReplace
  <1> QED BY <1>1, <1>2

\* What leaves hits, uploads and imports alone.
LEMMA TrafficStays ==
  ASSUME TrafficInv, UNCHANGED <<hits, upload, imported>>
  PROVE  TrafficInv'
  <1>1. UploadsHold'
    <2> SUFFICES ASSUME NEW v \in Uploads
                 PROVE  /\ UploadRow(upload'[v]) /\ upload'[v].after \subseteq StoredLogs'
                        /\ upload'[v].state = "new" => upload'[v] = NewUpload
                        /\ upload'[v].state = "open" => OpenRow(v, upload'[v])
      BY DEF TrafficInv, UploadsHold
    <2>1. StoredLogs' = StoredLogs
      BY DEF StoredLogs
    <2> QED BY <2>1 DEF TrafficInv, UploadsHold
  <1>2. StoredHold'
    <2>1. StoredLogs' = StoredLogs
      BY DEF StoredLogs
    <2>2. DoubleCountTold'
      BY <2>1 DEF TrafficInv, StoredHold, DoubleCountTold
    <2> QED BY <2>1, <2>2 DEF TrafficInv, StoredHold
  <1>3. ExportsReplace'
    BY DEF TrafficInv, ExportsReplace
  <1> QED BY <1>1, <1>2, <1>3 DEF TrafficInv

LEMMA TrafficStarts == SiteInit => TrafficInv
  <1> SUFFICES ASSUME SiteInit PROVE TrafficInv
    OBVIOUS
  <1>1. upload = [u \in Uploads |-> NewUpload] /\ hits = EmptyBag /\ imported = <<>>
    BY DEF SiteInit
  <1>2. StoredLogs = {}
    BY <1>1, FreshRows DEF StoredLogs
  <1>3. UploadsHold
    <2>1. NewUpload.state = "new" /\ NewUpload.after = {} /\ UploadRow(NewUpload)
      BY FreshRows
    <2> QED BY <1>1, <2>1 DEF UploadsHold
  <1>4. DoubleCountTold /\ IsFiniteSet(StoredLogs) /\ Cardinality(StoredLogs) = 0
    BY <1>2, FS_EmptySet DEF DoubleCountTold
  <1>5. HitBag(hits) /\ DOMAIN hits = {} /\ \A key : HitsWith(hits, key) = 0
    BY <1>1, NoHits
  <1>6. PathsIn(hits) = {}
    BY <1>5 DEF PathsIn
  <1>7. \A key : UNION {LogLines(u, key) : u \in StoredLogs} = {}
    BY <1>2
  <1>8. Cardinality(PathsIn(hits)) =< MaxPaths * Cardinality(StoredLogs)
    <2>1. Cardinality(PathsIn(hits)) = 0
      BY <1>6, FS_EmptySet
    <2> QED BY <1>4, <2>1, SiteAssumption
  <1>9. \A key : HitsWith(hits, key) = Cardinality(UNION {LogLines(u, key) : u \in StoredLogs})
    <2> SUFFICES ASSUME NEW key
                 PROVE  HitsWith(hits, key) = Cardinality(UNION {LogLines(u, key) : u \in StoredLogs})
      OBVIOUS
    <2>1. Cardinality(UNION {LogLines(u, key) : u \in StoredLogs}) = 0
      BY <1>7, FS_EmptySet, Zenon
    <2> QED BY <1>5, <2>1
  <1>10. StoredHold
    BY <1>2, <1>4, <1>5, <1>8, <1>9 DEF StoredHold
  <1>11. ExportsReplace
    BY <1>1 DEF ExportsReplace
  <1> QED BY <1>3, <1>10, <1>11 DEF TrafficInv

LEMMA TrafficKept == TrafficInv /\ [SiteNext]_siteVars => TrafficInv'
  <1> SUFFICES ASSUME TrafficInv, [SiteNext]_siteVars PROVE TrafficInv'
    OBVIOUS
  <1>1. UploadsHold /\ StoredHold /\ ExportsReplace
    BY DEF TrafficInv
  <1>2. ASSUME NEW u \in Uploads,
               \/ StartUpload(u) \/ ReadDays(u) \/ Flush(u) \/ FinishUpload(u)
               \/ RefuseUpload(u) \/ AbortUpload(u)
        PROVE  TrafficInv'
    <2>1. UploadsHold' /\ StoredHold'
      BY <1>1, <1>2, UploadStartKeeps, UploadReadDaysKeeps, UploadFlushKeeps, UploadFinishKeeps, UploadRefusalKeeps
    <2>2. imported' = imported
      BY <1>2 DEF StartUpload, ReadDays, Flush, FinishUpload, RefuseUpload, AbortUpload
    <2>3. ExportsReplace'
      BY <1>1, <2>2 DEF ExportsReplace
    <2> QED BY <2>1, <2>3 DEF TrafficInv
  <1>3. ASSUME NEW s \in DOMAIN Exports,
               (\E x \in Exports[s] : ImportExport(s, x)) \/ ClearFirstParty(s)
        PROVE  TrafficInv'
    <2>1. ExportsReplace'
      BY <1>1, <1>3, ExportsKept
    <2>2. hits' = hits /\ upload' = upload
      BY <1>3 DEF ImportExport, ClearFirstParty
    <2>3. StoredLogs' = StoredLogs
      BY <2>2 DEF StoredLogs
    <2>4. UploadsHold'
      <3> SUFFICES ASSUME NEW v \in Uploads
                   PROVE  /\ UploadRow(upload'[v]) /\ upload'[v].after \subseteq StoredLogs'
                          /\ upload'[v].state = "new" => upload'[v] = NewUpload
                          /\ upload'[v].state = "open" => OpenRow(v, upload'[v])
        BY <1>1, <2>2 DEF UploadsHold
      <3> QED BY <1>1, <2>2, <2>3 DEF UploadsHold
    <2>5. DoubleCountTold'
      BY <1>1, <2>2, <2>3 DEF StoredHold, DoubleCountTold
    <2>6. StoredHold'
      BY <1>1, <2>2, <2>3, <2>5 DEF StoredHold
    <2> QED BY <2>1, <2>4, <2>6 DEF TrafficInv
  <1>4. ASSUME Screened PROVE TrafficInv'
    <2>1. UNCHANGED <<hits, upload, imported>>
      BY <1>4 DEF Screened, HalfDayPasses, Answered
    <2> QED BY <2>1, TrafficStays
  <1>5. ASSUME CrawlNext PROVE TrafficInv'
    <2>1. UNCHANGED <<hits, upload, imported>>
      BY <1>5 DEF CrawlNext, ImportFacts, CreateFact, DeleteFact, EditPage, FetchPage, StorePage,
                  StartCrawl, KillCrawl, Screened, HalfDayPasses, Answered
    <2> QED BY <2>1, TrafficStays
  <1>6. ASSUME UNCHANGED siteVars PROVE TrafficInv'
    BY <1>6, TrafficStays DEF siteVars
  <1> QED BY <1>2, <1>3, <1>4, <1>5, <1>6 DEF SiteNext, TrafficNext

LEMMA TrafficHolds == SiteSpec => []TrafficInv
  <1> QED BY TrafficStarts, TrafficKept, PTL DEF SiteSpec

\* However uploads and imports are repeated, overlap, fail or are aborted, the
\* hits stored are the lines of the logs that were taken, each counted once;
\* one log names at most MaxPaths pages; a person's log that shares a day with
\* one stored before it began is told so; an imported value is one export's own
\* (ingest_stream, _upsert_cells, the first-party import).
THEOREM ImportsHold == SiteSpec => []ImportsCountOnce
  <1>1. TrafficInv => ImportsCountOnce
    <2> SUFFICES ASSUME TrafficInv PROVE ImportsCountOnce
      OBVIOUS
    <2>1. StoredHold /\ ExportsReplace /\ DoubleCountTold
      BY DEF TrafficInv, StoredHold
    <2>2. \A key : HitsOf({c \in BagToSet(hits) : CellKey(c) = key}) = HitsWith(hits, key)
      BY Zenon DEF HitsOf, SumOver, HitsWith, CellsWith, BagToSet
    <2>3. PathsIn(hits) = {c[3] : c \in BagToSet(hits)} \ {OTHER_PATH}
      BY DEF PathsIn, BagToSet
    <2>4. UploadsAddUp
      BY <2>1, <2>2, <2>3 DEF UploadsAddUp, StoredHold
    <2> QED BY <2>1, <2>4 DEF ImportsCountOnce
  <1> QED BY <1>1, TrafficHolds, PTL

\* A cited page AI Agents calls unfetched or failing is flagged for it on Your
\* Pages, whichever of its crawls is shown: the reads of a page are among its hits, so failing by the hits is
\* failing by the reads.
THEOREM ScreensHold == SiteSpec => []ScreensShareRisk
  <1>1. TrafficInv => ScreensShareRisk
    <2> SUFFICES ASSUME TrafficInv, AgentAnalytics.hasData PROVE ScreensShareRisk
      BY DEF ScreensShareRisk
    <2>1. /\ InWindow # {}
          /\ AgentAnalytics.unfetched = Unfetched /\ AgentAnalytics.erroring = Erroring
      BY DEF AgentAnalytics
    <2>2. \A S : HitsOf(S) = SumOver(hits, S)
      BY Zenon DEF HitsOf, SumOver
    <2>3. IsFiniteSet(DOMAIN hits) /\ \A c \in DOMAIN hits : hits[c] \in Nat
      BY DEF TrafficInv, StoredHold, HitBag
    <2>4. ASSUME NEW p \in AgentAnalytics.unfetched
          PROVE  "not read by AI search bots" \in BotFlags(p)
      <3>1. Cited(p) > 0 /\ OnPage(p) = {}
        BY <2>1, <2>4 DEF Unfetched
      <3>2. ReadBy(OnPage(p), {"search", "user"}) = {}
        BY <3>1 DEF ReadBy
      <3>3. HitsOf(ReadBy(OnPage(p), {"search", "user"})) = 0
        BY <2>2, <3>2, SumEmpty
      <3> QED BY <2>1, <3>1, <3>3 DEF BotFlags, BotReads
    <2>5. ASSUME NEW p \in AgentAnalytics.erroring
          PROVE  "errors for AI bots" \in BotFlags(p)
      <3>1. PICK errs : errs = BotErrors(p)
        OBVIOUS
      <3>2. PICK S, R : S = OnPage(p) /\ R = ReadBy(OnPage(p), {"search", "user"})
        OBVIOUS
      <3>3. errs > 0 /\ 20 * errs >= HitsOf(S)
        BY <2>1, <2>5, <3>1, <3>2 DEF Erroring, PageErrors, BotErrors
      <3>4. S \subseteq DOMAIN hits /\ R \subseteq S /\ Faults(S) \subseteq S
        BY <3>2 DEF OnPage, InWindow, BagToSet, ReadBy, Faults
      <3>5. IsFiniteSet(S) /\ IsFiniteSet(R) /\ IsFiniteSet(Faults(S))
        BY <2>3, <3>4, FS_Subset
      <3>6. HitsOf(R) =< HitsOf(S)
        BY <2>2, <2>3, <3>4, <3>5, SumOfLess
      <3>7. HitsOf(R) \in Nat /\ HitsOf(S) \in Nat /\ HitsOf(Faults(S)) \in Nat
        BY <2>2, <2>3, <3>4, <3>5, SumIsNat
      <3>8. errs \in Nat
        BY <3>1, <3>2, <3>7 DEF BotErrors
      <3>9. PICK reads \in Nat : reads = HitsOf(R)
        BY <3>7
      <3>10. errs > 0 /\ 20 * errs >= (IF reads > 0 THEN reads ELSE 1)
        BY <3>3, <3>6, <3>7, <3>8, <3>9
      <3> QED BY <3>1, <3>2, <3>9, <3>10 DEF BotFlags, BotReads
    <2>6. \A p \in Pages : \A F \in Flags(p) : BotFlags(p) \subseteq F
      BY DEF Flags
    <2>7. AgentAnalytics.unfetched \cup AgentAnalytics.erroring \subseteq Pages
      BY <2>1 DEF Unfetched, Erroring
    <2> QED BY <2>4, <2>5, <2>6, <2>7 DEF ScreensShareRisk
  <1> QED BY <1>1, TrafficHolds, PTL
-----------------------------------------------------------------------------
(* The mirror and the GA4 pull.  WarehouseKeepsUp is not inductive.  A       *)
(* watermark a job holds is as good as the committed one, and a page in      *)
(* hand covers every id up to its greatest (Below).  That nothing is copied  *)
(* twice needs that without a rerun one job works at a time, that it holds   *)
(* the committed watermark, and that only its page lies past it (Once).      *)

TableRows == [state : {"open", "stored", "deleted"}, skipped : BOOLEAN]
MirrorJobs == [phase : {"off", "mark", "read", "insert", "commit"}, table : 1..Len(Tables),
               mark : Nat, page : SUBSET Nat]

MirrorTypes ==
  /\ rows \in [TableNames -> Seq(TableRows)] /\ lastId \in [TableNames -> Nat]
  /\ mirror \in [Mirrors -> MirrorJobs] /\ redone \in BOOLEAN

\* Up to id n a table is mirrored, but for what was skipped or deleted, and
\* for the rows held.
Below(t, n, held) ==
  /\ n \in 0..Len(rows[t])
  /\ \A i \in 1..n : \/ rows[t][i].skipped
                     \/ rows[t][i].state = "deleted"
                     \/ rows[t][i].state = "stored" /\ (Copied(t, i) \/ i \in held)

HoldsMark(j) == mirror[j].phase \in {"read", "insert", "commit"}
HoldsPage(j) == mirror[j].phase \in {"insert", "commit"}
Unsent(j) == IF mirror[j].phase = "insert" THEN mirror[j].page ELSE {}

MarksHold ==
  /\ \A t \in TableNames : Below(t, lastId[t], {})
  /\ \A j \in Mirrors : mirror[j].phase = "read" => Below(At(j), mirror[j].mark, {})
  /\ \A j \in Mirrors : HoldsPage(j) =>
        /\ mirror[j].page # {} /\ IsFiniteSet(mirror[j].page)
        /\ Below(At(j), NewMark(j), Unsent(j))

Once ==
  /\ \A j, k \in Mirrors : mirror[j] # Off /\ mirror[k] # Off => j = k
  /\ \A j \in Mirrors : HoldsMark(j) => mirror[j].mark = lastId[At(j)]
  /\ \A j \in Mirrors : HoldsPage(j) => \A i \in mirror[j].page : i > mirror[j].mark
  /\ \A c \in DOMAIN copies : copies[c] = 1
  /\ \A t \in TableNames : \A i \in Nat : Copied(t, i) =>
        \/ i =< lastId[t]
        \/ \E j \in Mirrors : mirror[j].phase = "commit" /\ At(j) = t /\ i \in mirror[j].page

PullTypes ==
  pull \in [left : Seq(ToSet(Clients)), broken : BOOLEAN, pulled : SUBSET ToSet(Clients),
            refused : SUBSET ToSet(Clients)]

\* Until a write fails, every tenant is still to come, pulled or refused.
PullAccounts ==
  pull # Resting /\ ~pull.broken =>
     pull.pulled \cup pull.refused \cup ToSet(pull.left) = ToSet(Clients)

MirrorInv == MirrorTypes /\ MarksHold /\ (~redone => Once)
WarehouseInv == MirrorInv /\ PullTypes /\ PullAccounts

LEMMA TablesKnown ==
  /\ Tables \in Seq(TableNames) /\ Len(Tables) \in Nat \ {0}
  /\ \A k \in 1..Len(Tables) : Tables[k] \in TableNames
  <1>1. Tables \in Seq(TableNames) /\ Tables # <<>>
    BY WarehouseAssumption DEF TableNames
  <1>2. Len(Tables) \in Nat /\ DOMAIN Tables = 1..Len(Tables)
    BY <1>1
  <1> QED BY <1>1, <1>2

LEMMA JobTable ==
  ASSUME MirrorTypes, NEW j \in Mirrors
  PROVE  At(j) \in TableNames
  BY TablesKnown DEF MirrorTypes, MirrorJobs, At

LEMMA WarehouseStarts == WarehouseInit => WarehouseInv
  <1> SUFFICES ASSUME WarehouseInit PROVE WarehouseInv
    OBVIOUS
  <1> USE DEF WarehouseInit
  <1>1. Off \in MirrorJobs
    BY TablesKnown DEF Off, MirrorJobs
  <1>2. MirrorTypes
    <2>1. <<>> \in Seq(TableRows)
      OBVIOUS
    <2> QED BY <1>1, <2>1 DEF MirrorTypes
  <1>3. MarksHold
    <2>1. \A t \in TableNames : Below(t, lastId[t], {})
      BY DEF Below
    <2>2. \A j \in Mirrors : mirror[j].phase = "off"
      BY DEF Off
    <2> QED BY <2>1, <2>2 DEF MarksHold, HoldsPage
  <1>4. Once
    BY DEF Once, HoldsPage, HoldsMark, Off, Copied, BagIn, BagToSet, EmptyBag, SetToBag
  <1>5. PullTypes /\ PullAccounts
    <2>1. <<>> \in Seq(ToSet(Clients))
      OBVIOUS
    <2> QED BY <2>1 DEF PullTypes, PullAccounts, Resting
  <1> QED BY <1>2, <1>3, <1>4, <1>5 DEF WarehouseInv, MirrorInv

\* Rows only grow: a skipped row stays skipped, a deleted one deleted, a stored
\* one does not reopen; and no copy is taken back.
Grown ==
  /\ \A t \in TableNames : \A i \in 1..Len(rows[t]) :
        /\ rows[t][i].skipped => rows'[t][i].skipped
        /\ rows[t][i].state = "deleted" => rows'[t][i].state = "deleted"
        /\ rows[t][i].state = "stored" => rows'[t][i].state \in {"stored", "deleted"}
  /\ \A t \in TableNames : Len(rows[t]) =< Len(rows'[t])
  /\ DOMAIN copies \subseteq DOMAIN copies'

LEMMA BelowStays ==
  ASSUME MirrorTypes, MirrorTypes', Grown,
         NEW t \in TableNames, NEW n, NEW held, Below(t, n, held)
  PROVE  Below(t, n, held)'
  <1>1. Len(rows[t]) \in Nat /\ Len(rows'[t]) \in Nat /\ Len(rows[t]) =< Len(rows'[t])
    BY DEF MirrorTypes, Grown
  <1>2. n \in 0..Len(rows[t]) /\ n \in 0..Len(rows'[t])
    BY <1>1 DEF Below
  <1>3. ASSUME NEW i \in 1..n
        PROVE  \/ rows'[t][i].skipped
               \/ rows'[t][i].state = "deleted"
               \/ rows'[t][i].state = "stored" /\ (Copied(t, i)' \/ i \in held)
    <2>1. i \in 1..Len(rows[t])
      BY <1>1, <1>2
    <2>2. Copied(t, i) => Copied(t, i)'
      BY DEF Grown, Copied, BagIn, BagToSet
    <2> QED BY <1>3, <2>1, <2>2 DEF Below, Grown
  <1> QED BY <1>2, <1>3 DEF Below

\* The same of one table.
TableKept(s, u) ==
  /\ Len(s) =< Len(u)
  /\ \A i \in 1..Len(s) :
        /\ s[i].skipped => u[i].skipped
        /\ s[i].state = "deleted" => u[i].state = "deleted"
        /\ s[i].state = "stored" => u[i].state \in {"stored", "deleted"}

\* What the application writes.
LEMMA RowsWritten ==
  ASSUME MirrorInv, NEW t \in TableNames,
         \/ InsertRow(t)
         \/ \E i \in 1..MaxRow : CommitRow(t, i) \/ ReplaceRow(t, i)
  PROVE  MirrorInv' /\ pull' = pull
  <1> USE DEF MirrorInv
  <1>0. UNCHANGED <<lastId, copies, mirror, redone, pull>>
    BY DEF InsertRow, CommitRow, ReplaceRow
  <1>1. PICK s \in Seq(TableRows) : s = rows[t]
    BY DEF MirrorTypes
  <1>2. Len(s) \in Nat /\ DOMAIN s = 1..Len(s) /\ \A i \in 1..Len(s) : s[i] \in TableRows
    BY <1>1
  <1>3. \E u \in Seq(TableRows) : rows' = [rows EXCEPT ![t] = u] /\ TableKept(s, u)
    <2>1. CASE InsertRow(t)
      <3>1. PICK r \in TableRows : r = Row("open")
        BY DEF Row, TableRows
      <3>2. PICK u : u = Append(s, r)
        OBVIOUS
      <3>3. u \in Seq(TableRows) /\ Len(u) = Len(s) + 1 /\ \A i \in 1..Len(s) : u[i] = s[i]
        BY <1>2, <3>2, AppendProperties
      <3>4. rows' = [rows EXCEPT ![t] = u]
        BY <1>1, <2>1, <3>1, <3>2 DEF InsertRow
      <3>5. TableKept(s, u)
        BY <1>2, <3>3 DEF TableKept
      <3> QED BY <3>3, <3>4, <3>5
    <2>2. ASSUME NEW i \in 1..MaxRow, CommitRow(t, i) 
          PROVE  \E u \in Seq(TableRows) : rows' = [rows EXCEPT ![t] = u] /\ TableKept(s, u)
      <3>1. i \in 1..Len(s) /\ s[i].state = "open"
        BY <1>1, <1>2, <2>2 DEF CommitRow, Ids
      <3>2. PICK to \in {"stored", "deleted"} : rows' = [rows EXCEPT ![t][i].state = to]
        BY <2>2 DEF CommitRow
      <3>3. PICK u : u = [s EXCEPT ![i] = [@ EXCEPT !.state = to]]
        OBVIOUS
      <3>4. [s[i] EXCEPT !.state = to] \in TableRows
        BY <1>2, <3>1 DEF TableRows
      <3>5. u \in Seq(TableRows) /\ Len(u) = Len(s) /\ u[i] = [s[i] EXCEPT !.state = to]
            /\ \A k \in 1..Len(s) : k # i => u[k] = s[k]
        BY <1>2, <3>1, <3>3, <3>4
      <3>6. u[i].skipped = s[i].skipped
        BY <1>2, <3>1, <3>5 DEF TableRows
      <3>7. rows' = [rows EXCEPT ![t] = u]
        BY <1>1, <3>2, <3>3
      <3>8. \A k \in 1..Len(s) :
                /\ s[k].skipped => u[k].skipped
                /\ s[k].state = "deleted" => u[k].state = "deleted"
                /\ s[k].state = "stored" => u[k].state \in {"stored", "deleted"}
        BY <3>1, <3>5, <3>6
      <3>9. TableKept(s, u)
        BY <1>2, <3>5, <3>8 DEF TableKept
      <3> QED BY <3>5, <3>7, <3>9
    <2>3. ASSUME NEW i \in 1..MaxRow, ReplaceRow(t, i) 
          PROVE  \E u \in Seq(TableRows) : rows' = [rows EXCEPT ![t] = u] /\ TableKept(s, u)
      <3>1. i \in 1..Len(s) /\ s[i].state = "stored"
        BY <1>1, <1>2, <2>3 DEF ReplaceRow, Ids
      <3>2. PICK v : v = [s EXCEPT ![i] = [@ EXCEPT !.state = "deleted"]]
        OBVIOUS
      <3>3. [s[i] EXCEPT !.state = "deleted"] \in TableRows
        BY <1>2, <3>1 DEF TableRows
      <3>4. v \in Seq(TableRows) /\ Len(v) = Len(s) /\ v[i] = [s[i] EXCEPT !.state = "deleted"]
            /\ \A k \in 1..Len(s) : k # i => v[k] = s[k]
        BY <1>2, <3>1, <3>2, <3>3
      <3>5. v[i].skipped = s[i].skipped /\ v[i].state = "deleted"
        BY <1>2, <3>1, <3>4 DEF TableRows
      <3>6. PICK r \in TableRows : r = Row("stored")
        BY DEF Row, TableRows
      <3>7. PICK u : u = Append(v, r)
        OBVIOUS
      <3>8. u \in Seq(TableRows) /\ Len(u) = Len(s) + 1 /\ \A k \in 1..Len(s) : u[k] = v[k]
        <4>1. /\ u \in Seq(TableRows) /\ Len(u) = Len(v) + 1
              /\ \A k \in 1..Len(v) : u[k] = v[k]
          BY <3>4, <3>7, AppendProperties
        <4> QED BY <3>4, <4>1
      <3>9. rows' = [rows EXCEPT ![t] = u]
        BY <1>1, <2>3, <3>2, <3>6, <3>7 DEF ReplaceRow
      <3>10. \A k \in 1..Len(s) :
                /\ s[k].skipped => u[k].skipped
                /\ s[k].state = "deleted" => u[k].state = "deleted"
                /\ s[k].state = "stored" => u[k].state \in {"stored", "deleted"}
        BY <3>1, <3>4, <3>5, <3>8
      <3>11. TableKept(s, u)
        BY <1>2, <3>8, <3>10 DEF TableKept
      <3> QED BY <3>8, <3>9, <3>11
    <2> QED BY <2>1, <2>2, <2>3
  <1>4. MirrorTypes'
    BY <1>0, <1>3 DEF MirrorTypes
  <1>5. Grown
    BY <1>0, <1>1, <1>3 DEF Grown, MirrorTypes, TableKept
  <1>6. MarksHold'
    <2>1. \A k \in Mirrors : At(k)' = At(k) /\ At(k) \in TableNames
      BY <1>0, JobTable DEF At
    <2> QED BY <1>0, <1>4, <1>5, <2>1, BelowStays DEF MarksHold, HoldsPage, NewMark, Unsent
  <1>7. ~redone' => Once'
    BY <1>0 DEF Once, HoldsPage, HoldsMark, At, Copied
  <1> QED BY <1>0, <1>4, <1>6, <1>7

\* A job turns to a table, or ends: it holds neither mark nor page.
LEMMA JobPutsAside ==
  ASSUME MirrorInv, NEW j \in Mirrors, NEW job \in MirrorJobs,
         job.phase = "mark" \/ job = Off, mirror' = [mirror EXCEPT ![j] = job],
         UNCHANGED <<rows, copies>>, redone' \in BOOLEAN,
         lastId' \in [TableNames -> Nat], \A t \in TableNames : Below(t, lastId'[t], {}),
         ~redone' =>
            /\ ~redone /\ \A l \in Mirrors \ {j} : mirror[l] = Off
            /\ \A t \in TableNames : \A i \in Nat : Copied(t, i) => i =< lastId'[t]
  PROVE  MirrorInv'
  <1> USE DEF MirrorInv
  <1>1. Off.phase = "off"
    BY DEF Off
  <1>2. /\ mirror' \in [Mirrors -> MirrorJobs] /\ mirror'[j] = job
        /\ \A l \in Mirrors \ {j} : mirror'[l] = mirror[l]
    BY DEF MirrorTypes
  <1>3. MirrorTypes'
    BY <1>2 DEF MirrorTypes
  <1>4. /\ ~HoldsPage(j)' /\ ~HoldsMark(j)'
        /\ \A l \in Mirrors \ {j} : /\ At(l)' = At(l) /\ NewMark(l)' = NewMark(l)
                                   /\ Unsent(l)' = Unsent(l) /\ (HoldsPage(l)' = HoldsPage(l))
    BY <1>1, <1>2 DEF At, NewMark, Unsent, HoldsPage, HoldsMark
  <1>5. MarksHold'
    <2>1. \A x \in TableNames : Below(x, lastId[x], {})'
      BY DEF Below, Copied
    <2>2. ASSUME NEW l \in Mirrors, mirror'[l].phase = "read"
          PROVE  Below(At(l), mirror[l].mark, {})'
      <3>1. l # j
        BY <1>1, <1>2, <2>2
      <3> QED BY <1>2, <1>4, <2>2, <3>1 DEF MarksHold, Below, Copied
    <2>3. ASSUME NEW l \in Mirrors, HoldsPage(l)'
          PROVE  /\ mirror'[l].page # {} /\ IsFiniteSet(mirror'[l].page)
                 /\ Below(At(l), NewMark(l), Unsent(l))'
      <3>1. l # j
        BY <1>4, <2>3
      <3> QED BY <1>2, <1>4, <2>3, <3>1 DEF MarksHold, Below, Copied
    <2> QED BY <2>1, <2>2, <2>3 DEF MarksHold
  <1>6. ASSUME ~redone' PROVE Once'
    <2>0. Once /\ \A l \in Mirrors \ {j} : mirror[l] = Off
      BY <1>6
    <2>1. \A l \in Mirrors \ {j} : mirror'[l] = Off
      BY <1>2, <2>0
    <2>2. \A l \in Mirrors : ~HoldsPage(l)' /\ ~HoldsMark(l)'
      BY <1>1, <1>4, <2>1 DEF HoldsPage, HoldsMark
    <2>3. \A x \in TableNames : \A i \in Nat : Copied(x, i)' => i =< lastId'[x]
      BY <1>6 DEF Copied
    <2>4. \A c \in DOMAIN copies' : copies'[c] = 1
      BY <2>0 DEF Once
    <2>5. \A k, l \in Mirrors : mirror'[k] # Off /\ mirror'[l] # Off => k = l
      BY <2>1
    <2> QED BY <2>2, <2>3, <2>4, <2>5 DEF Once
  <1> QED BY <1>3, <1>5, <1>6

LEMMA TurningJob ==
  ASSUME NEW k \in 1..Len(Tables)
  PROVE  Turning(k) \in MirrorJobs /\ Turning(k).phase = "mark"
  <1>1. PICK job : job = Turning(k)
    OBVIOUS
  <1>2. job = [phase |-> "mark", table |-> k, mark |-> 0, page |-> {}]
    BY <1>1 DEF Turning, Off
  <1>3. job \in MirrorJobs /\ job.phase = "mark"
    BY <1>2 DEF MirrorJobs
  <1> QED BY <1>1, <1>3

\* Without a rerun, and with no job between page and watermark, nothing is
\* copied past the watermarks.
LEMMA NothingAhead ==
  ASSUME Once, \A j \in Mirrors : mirror[j].phase # "commit"
  PROVE  \A t \in TableNames : \A i \in Nat : Copied(t, i) => i =< lastId[t]
  BY DEF Once

LEMMA MirrorStarts ==
  ASSUME MirrorInv, NEW j \in Mirrors, StartMirror(j)
  PROVE  MirrorInv' /\ pull' = pull
  <1> USE DEF MirrorInv
  <1>0. UNCHANGED <<rows, lastId, copies, pull>> /\ mirror[j] = Off
        /\ mirror' = [mirror EXCEPT ![j] = Turning(1)]
    BY DEF StartMirror
  <1>1. Turning(1) \in MirrorJobs /\ Turning(1).phase = "mark"
    BY TablesKnown, TurningJob
  <1>2. /\ redone' \in BOOLEAN
        /\ ~redone' => ~redone /\ \A l \in Mirrors \ {j} : mirror[l] = Off
    BY DEF StartMirror, MirrorTypes
  <1>3. ASSUME ~redone'
        PROVE  \A t \in TableNames : \A i \in Nat : Copied(t, i) => i =< lastId'[t]
    <2>1. \A l \in Mirrors : mirror[l].phase # "commit"
      BY <1>0, <1>2, <1>3 DEF Off
    <2> QED BY <1>0, <1>2, <1>3, <2>1, NothingAhead
  <1>4. lastId' \in [TableNames -> Nat] /\ \A t \in TableNames : Below(t, lastId'[t], {})
    BY <1>0 DEF MirrorTypes, MarksHold
  <1> QED BY <1>0, <1>1, <1>2, <1>3, <1>4, JobPutsAside

\* The committed watermark is read.
LEMMA MarkRead ==
  ASSUME MirrorInv, NEW j \in Mirrors, ReadMark(j)
  PROVE  MirrorInv' /\ pull' = pull
  <1> USE DEF MirrorInv
  <1>0. UNCHANGED <<rows, lastId, copies, redone, pull>> /\ mirror[j].phase = "mark"
    BY DEF ReadMark
  <1>1. mirror[j] \in MirrorJobs
    BY DEF MirrorTypes
  <1>2. PICK t \in TableNames : t = At(j)
    BY JobTable
  <1>3. PICK mark \in Nat : mark = lastId[t]
    BY DEF MirrorTypes
  <1>4. PICK job \in MirrorJobs : /\ mirror' = [mirror EXCEPT ![j] = job]
                                  /\ job.phase = "read" /\ job.mark = mark
                                  /\ job.table = mirror[j].table
    <2>1. PICK job : job = [mirror[j] EXCEPT !.phase = "read", !.mark = mark]
      OBVIOUS
    <2>2. mirror' = [mirror EXCEPT ![j].phase = "read", ![j].mark = mark]
      BY <1>2, <1>3 DEF ReadMark
    <2>3. mirror' = [mirror EXCEPT ![j] = job]
      BY <2>1, <2>2 DEF MirrorTypes
    <2>4. /\ job \in MirrorJobs /\ job.phase = "read" /\ job.mark = mark
          /\ job.table = mirror[j].table
      BY <1>1, <2>1 DEF MirrorJobs
    <2> QED BY <2>3, <2>4
  <1>5. /\ mirror' \in [Mirrors -> MirrorJobs] /\ mirror'[j] = job
        /\ \A k \in Mirrors \ {j} : mirror'[k] = mirror[k]
    BY <1>4 DEF MirrorTypes
  <1>6. MirrorTypes'
    BY <1>0, <1>5 DEF MirrorTypes
  <1>7. \A k \in Mirrors : At(k)' = At(k)
    BY <1>4, <1>5 DEF At
  <1>8. MarksHold'
    <2>1. \A x \in TableNames : Below(x, lastId[x], {})'
      BY <1>0 DEF MarksHold, Below, Copied
    <2>2. ASSUME NEW k \in Mirrors, mirror'[k].phase = "read"
          PROVE  Below(At(k), mirror[k].mark, {})'
      <3>1. CASE k = j
        BY <1>0, <1>2, <1>3, <1>4, <1>5, <1>7, <2>1, <3>1
      <3>2. CASE k # j
        BY <1>0, <1>5, <1>7, <2>2, <3>2 DEF MarksHold, Below, Copied
      <3> QED BY <3>1, <3>2
    <2>3. ASSUME NEW k \in Mirrors, HoldsPage(k)'
          PROVE  /\ mirror'[k].page # {} /\ IsFiniteSet(mirror'[k].page)
                 /\ Below(At(k), NewMark(k), Unsent(k))'
      <3>1. k # j
        BY <1>4, <1>5, <2>3 DEF HoldsPage
      <3>2. mirror'[k] = mirror[k] /\ At(k)' = At(k) /\ NewMark(k)' = NewMark(k)
            /\ Unsent(k)' = Unsent(k) /\ HoldsPage(k)
        BY <1>5, <1>7, <2>3, <3>1 DEF HoldsPage, NewMark, Unsent
      <3> QED BY <1>0, <3>2 DEF MarksHold, Below, Copied
    <2> QED BY <2>1, <2>2, <2>3 DEF MarksHold
  <1>9. ASSUME ~redone' PROVE Once'
    <2>0. Once /\ mirror[j] # Off
      BY <1>0, <1>9 DEF Off
    <2>1. \A k \in Mirrors \ {j} : mirror[k] = Off /\ mirror'[k] = Off
      BY <1>5, <2>0 DEF Once
    <2>2. \A k \in Mirrors : mirror[k].phase # "commit" /\ ~HoldsPage(k)'
      BY <1>0, <1>4, <1>5, <2>1 DEF Off, HoldsPage
    <2>3. \A x \in TableNames : \A i \in Nat : Copied(x, i)' => i =< lastId'[x]
      BY <1>0, <2>0, <2>2, NothingAhead DEF Copied
    <2>4. \A k \in Mirrors : HoldsMark(k)' => mirror'[k].mark = lastId'[At(k)']
      BY <1>0, <1>2, <1>3, <1>4, <1>5, <1>7, <2>1 DEF HoldsMark, Off
    <2>5. \A c \in DOMAIN copies' : copies'[c] = 1
      BY <1>0, <2>0 DEF Once
    <2>6. \A k, l \in Mirrors : mirror'[k] # Off /\ mirror'[l] # Off => k = l
      BY <2>1
    <2> QED BY <2>2, <2>3, <2>4, <2>5, <2>6 DEF Once
  <1> QED BY <1>0, <1>6, <1>8, <1>9

\* The page read past a mark: it covers every stored row up to its greatest id.
LEMMA PageCovers ==
  ASSUME MirrorTypes, NEW t \in TableNames, NEW mark \in Nat, NEW page,
         page = NextPage(t, mark), page # {}
  PROVE  /\ IsFiniteSet(page) /\ page \subseteq 1..Len(rows[t]) /\ \A i \in page : i > mark
         /\ Max(page) \in page /\ \A i \in page : i =< Max(page)
         /\ \A i \in page : rows[t][i].state = "stored"
         /\ \A i \in 1..Len(rows[t]) :
               rows[t][i].state = "stored" /\ i > mark /\ i =< Max(page) => i \in page
  <1>1. PICK n \in Nat : n = Len(rows[t]) /\ DOMAIN rows[t] = 1..n
    BY DEF MirrorTypes
  <1>2. PICK past : past = {i \in Ids(t, {"stored"}) : i > mark}
    OBVIOUS
  <1>3. past \subseteq 1..n /\ \A i \in 1..n : i \in past <=> rows[t][i].state = "stored" /\ i > mark
    BY <1>1, <1>2 DEF Ids
  <1>4. IsFiniteSet(past)
    <2>1. IsFiniteSet(1..n)
      BY FS_Interval
    <2> QED BY <1>3, <2>1, FS_Subset
  <1>5. page = {i \in past : Cardinality({k \in past : k < i}) < BATCH_SIZE}
    BY <1>2 DEF NextPage
  <1>6. IsFiniteSet(page) /\ page \subseteq past
    BY <1>4, <1>5, FS_Subset
  <1>7. Max(page) \in page /\ \A i \in page : i =< Max(page)
    <2>1. page \subseteq 1..n
      BY <1>3, <1>6
    <2>2. \A i \in 1..n : i \in Int
      OBVIOUS
    <2>3. \A i \in page : i \in Int
      BY <2>1, <2>2
    <2> QED BY <1>6, <2>3, MaxBounds
  <1>8. ASSUME NEW i \in past, i =< Max(page) PROVE i \in page
    <2>1. PICK m \in past : m = Max(page) /\ Cardinality({k \in past : k < m}) < BATCH_SIZE
      BY <1>5, <1>7
    <2>2. {k \in past : k < i} \subseteq {k \in past : k < m}
      <3> SUFFICES ASSUME NEW k \in past, k < i PROVE k < m
        OBVIOUS
      <3>1. i \in Int /\ k \in Int /\ m \in Int /\ i =< m
        BY <1>3, <1>8, <2>1
      <3> QED BY <3>1
    <2>3. IsFiniteSet({k \in past : k < m})
      BY <1>4, FS_Subset
    <2>4. Cardinality({k \in past : k < i}) =< Cardinality({k \in past : k < m})
      BY <2>2, <2>3, FS_Subset
    <2>5. /\ Cardinality({k \in past : k < i}) \in Nat
          /\ Cardinality({k \in past : k < m}) \in Nat
      BY <2>2, <2>3, FS_Subset, FS_CardinalityType
    <2>6. Cardinality({k \in past : k < i}) < BATCH_SIZE
      BY <2>1, <2>4, <2>5, WarehouseAssumption
    <2> QED BY <1>5, <1>8, <2>6
  <1> QED BY <1>1, <1>3, <1>6, <1>7, <1>8

\* Nothing left past the mark: the job turns to the next table, or is done.
LEMMA TableDone ==
  ASSUME MirrorInv, NEW j \in Mirrors, ReadPage(j), NextPage(At(j), mirror[j].mark) = {}
  PROVE  MirrorInv'
  <1> USE DEF MirrorInv
  <1>0. UNCHANGED <<rows, lastId, copies, redone>> /\ mirror[j].phase = "read"
    BY DEF ReadPage
  <1>1. PICK k \in 1..Len(Tables) : k = mirror[j].table
    BY DEF MirrorTypes, MirrorJobs
  <1>2. PICK job : job = NextTable(mirror[j])
    OBVIOUS
  <1>3. mirror' = [mirror EXCEPT ![j] = job]
    BY <1>2 DEF ReadPage
  <1>4. job \in MirrorJobs /\ (job.phase = "mark" \/ job = Off)
    <2>1. CASE k = Len(Tables)
      BY <1>1, <1>2, <2>1, TablesKnown DEF Off, MirrorJobs, NextTable
    <2>2. CASE k # Len(Tables)
      <3>1. k + 1 \in 1..Len(Tables) /\ job = Turning(k + 1)
        BY <1>1, <1>2, <2>2, TablesKnown DEF NextTable
      <3> QED BY <3>1, TurningJob
    <2> QED BY <2>1, <2>2
  <1>5. redone' \in BOOLEAN /\ (~redone' => ~redone)
    BY <1>0 DEF MirrorTypes
  <1>6. ASSUME ~redone'
        PROVE  /\ \A l \in Mirrors \ {j} : mirror[l] = Off
               /\ \A t \in TableNames : \A i \in Nat : Copied(t, i) => i =< lastId'[t]
    <2>1. Once /\ mirror[j] # Off
      BY <1>0, <1>5, <1>6 DEF Off
    <2>2. \A l \in Mirrors \ {j} : mirror[l] = Off
      BY <2>1 DEF Once
    <2>3. \A l \in Mirrors : mirror[l].phase # "commit"
      BY <1>0, <2>2 DEF Off
    <2> QED BY <1>0, <2>1, <2>2, <2>3, NothingAhead
  <1>7. lastId' \in [TableNames -> Nat] /\ \A t \in TableNames : Below(t, lastId'[t], {})
    BY <1>0 DEF MirrorTypes, MarksHold
  <1> QED BY <1>0, <1>3, <1>4, <1>5, <1>6, <1>7, JobPutsAside

\* Passing over open rows changes nothing else of a table.
LEMMA PassedRows ==
  ASSUME NEW s \in Seq(TableRows), NEW page, NEW u, u = PassedOver(s, page)
  PROVE  /\ u \in Seq(TableRows) /\ Len(u) = Len(s) /\ TableKept(s, u)
         /\ \A i \in 1..Len(s) :
               /\ u[i].state = s[i].state
               /\ s[i].state = "open" /\ i < Max(page) => u[i].skipped
  <1>1. Len(s) \in Nat /\ DOMAIN s = 1..Len(s) /\ \A i \in 1..Len(s) : s[i] \in TableRows
    OBVIOUS
  <1>2. ASSUME NEW i \in 1..Len(s)
        PROVE  /\ u[i] \in TableRows /\ u[i].state = s[i].state
               /\ s[i].skipped => u[i].skipped
               /\ s[i].state = "open" /\ i < Max(page) => u[i].skipped
    <2>1. PICK r \in TableRows : r = s[i]
      BY <1>1
    <2>2. PICK b \in BOOLEAN : b = (r.skipped \/ (r.state = "open" /\ i < Max(page)))
      OBVIOUS
    <2>3. u[i] = [r EXCEPT !.skipped = b]
      BY <1>1, <2>1, <2>2 DEF PassedOver
    <2>4. u[i] \in TableRows /\ u[i].state = r.state /\ u[i].skipped = b
      BY <2>1, <2>3 DEF TableRows
    <2> QED BY <2>1, <2>2, <2>4
  <1>3. u = [i \in 1..Len(s) |-> u[i]]
    BY <1>1 DEF PassedOver
  <1>4. u \in Seq(TableRows) /\ Len(u) = Len(s)
    BY <1>1, <1>2, <1>3, IsASeq
  <1> QED BY <1>2, <1>4 DEF TableKept

\* A page is read: the rows still open below its last are passed over.
LEMMA PageRead ==
  ASSUME MirrorInv, NEW j \in Mirrors, ReadPage(j), NextPage(At(j), mirror[j].mark) # {}
  PROVE  MirrorInv'
  <1> USE DEF MirrorInv
  <1>0. UNCHANGED <<lastId, copies, redone>> /\ mirror[j].phase = "read"
    BY DEF ReadPage
  <1>1. mirror[j] \in MirrorJobs
    BY DEF MirrorTypes
  <1>2. PICK t \in TableNames : t = At(j)
    BY JobTable
  <1>3. PICK mark \in Nat : mark = mirror[j].mark
    BY <1>1 DEF MirrorJobs
  <1>4. PICK page : page = NextPage(t, mark)
    OBVIOUS
  <1>5. /\ IsFiniteSet(page) /\ page \subseteq 1..Len(rows[t]) /\ \A i \in page : i > mark
        /\ Max(page) \in page /\ \A i \in page : i =< Max(page)
        /\ \A i \in page : rows[t][i].state = "stored"
        /\ \A i \in 1..Len(rows[t]) :
              rows[t][i].state = "stored" /\ i > mark /\ i =< Max(page) => i \in page
    BY <1>2, <1>3, <1>4, PageCovers
  <1>6. PICK s \in Seq(TableRows) : s = rows[t]
    BY DEF MirrorTypes
  <1>7. PICK u : u = PassedOver(s, page)
    OBVIOUS
  <1>8. /\ u \in Seq(TableRows) /\ Len(u) = Len(s) /\ TableKept(s, u)
        /\ \A i \in 1..Len(s) :
              /\ u[i].state = s[i].state
              /\ s[i].state = "open" /\ i < Max(page) => u[i].skipped
    BY <1>7, PassedRows
  <1>9. rows' = [rows EXCEPT ![t] = u]
    BY <1>2, <1>3, <1>4, <1>6, <1>7 DEF ReadPage
  <1>10. PICK job \in MirrorJobs :
            /\ mirror' = [mirror EXCEPT ![j] = job]
            /\ job.phase = "insert" /\ job.page = page /\ job.mark = mark
            /\ job.table = mirror[j].table
    <2>1. PICK job : job = [mirror[j] EXCEPT !.phase = "insert", !.page = page]
      OBVIOUS
    <2>2. mirror' = [mirror EXCEPT ![j].phase = "insert", ![j].page = page]
      BY <1>2, <1>3, <1>4 DEF ReadPage
    <2>3. mirror' = [mirror EXCEPT ![j] = job]
      BY <2>1, <2>2 DEF MirrorTypes
    <2>4. page \in SUBSET Nat
      BY <1>5
    <2>5. /\ job \in MirrorJobs /\ job.phase = "insert" /\ job.page = page /\ job.mark = mark
          /\ job.table = mirror[j].table
      BY <1>1, <1>3, <2>1, <2>4 DEF MirrorJobs
    <2> QED BY <2>3, <2>5
  <1>11. /\ mirror' \in [Mirrors -> MirrorJobs] /\ mirror'[j] = job
         /\ \A l \in Mirrors \ {j} : mirror'[l] = mirror[l]
    BY <1>10 DEF MirrorTypes
  <1>12. MirrorTypes'
    BY <1>0, <1>8, <1>9, <1>11 DEF MirrorTypes
  <1>13. Grown
    <2>1. rows'[t] = u /\ \A x \in TableNames \ {t} : rows'[x] = rows[x]
      BY <1>9 DEF MirrorTypes
    <2>2. \A x \in TableNames : Len(rows[x]) \in Nat
      BY DEF MirrorTypes
    <2> QED BY <1>0, <1>6, <1>8, <2>1, <2>2, SMTT(20) DEF Grown, TableKept
  <1>14. \A l \in Mirrors : At(l)' = At(l)
    BY <1>10, <1>11 DEF At
  <1>15. Below(t, Max(page), page)'
    <2>1. rows'[t] = u
      BY <1>9 DEF MirrorTypes
    <2>2. Len(s) \in Nat /\ Max(page) \in 1..Len(s)
      <3>1. Max(page) \in 1..Len(rows[t])
        BY <1>5
      <3> QED BY <1>6, <3>1
    <2>3. Below(t, mark, {})'
      BY <1>0, <1>2, <1>3, <1>12, <1>13, BelowStays DEF MarksHold
    <2>4. ASSUME NEW i \in 1..Max(page)
          PROVE  \/ u[i].skipped \/ u[i].state = "deleted"
                 \/ u[i].state = "stored" /\ (Copied(t, i)' \/ i \in page)
      <3>0. i \in 1..Len(s) /\ s[i] \in TableRows
        BY <2>2
      <3>1. CASE i =< mark
        BY <2>1, <2>3, <3>1 DEF Below
      <3>2. CASE i > mark
        <4>1. CASE s[i].state = "open"
          <5>1. i # Max(page)
            BY <1>5, <1>6, <4>1
          <5> QED BY <1>8, <2>2, <3>0, <4>1, <5>1
        <4>2. CASE s[i].state = "stored"
          BY <1>5, <1>6, <1>8, <3>0, <3>2, <4>2
        <4>3. CASE s[i].state = "deleted"
          BY <1>8, <3>0, <4>3
        <4> QED BY <3>0, <4>1, <4>2, <4>3 DEF TableRows
      <3> QED BY <2>2, <3>1, <3>2
    <2> QED BY <1>8, <2>1, <2>2, <2>4 DEF Below
  <1>16. MarksHold'
    <2>1. \A x \in TableNames : Below(x, lastId[x], {})'
      BY <1>0, <1>12, <1>13, BelowStays DEF MarksHold
    <2>2. ASSUME NEW l \in Mirrors, mirror'[l].phase = "read"
          PROVE  Below(At(l), mirror[l].mark, {})'
      <3>1. l # j /\ mirror'[l] = mirror[l] /\ At(l)' = At(l) /\ At(l) \in TableNames
        BY <1>10, <1>11, <1>14, <2>2, JobTable
      <3> QED BY <1>12, <1>13, <2>2, <3>1, BelowStays DEF MarksHold
    <2>3. ASSUME NEW l \in Mirrors, HoldsPage(l)'
          PROVE  /\ mirror'[l].page # {} /\ IsFiniteSet(mirror'[l].page)
                 /\ Below(At(l), NewMark(l), Unsent(l))'
      <3>1. CASE l = j
        <4>1. NewMark(j)' = Max(page) /\ Unsent(j)' = page /\ At(j)' = t
          BY <1>2, <1>10, <1>11, <1>14 DEF NewMark, Unsent
        <4> QED BY <1>5, <1>10, <1>11, <1>15, <3>1, <4>1
      <3>2. CASE l # j
        <4>1. mirror'[l] = mirror[l] /\ At(l)' = At(l) /\ NewMark(l)' = NewMark(l)
              /\ Unsent(l)' = Unsent(l) /\ HoldsPage(l) /\ At(l) \in TableNames
          BY <1>11, <1>14, <2>3, <3>2, JobTable DEF HoldsPage, NewMark, Unsent
        <4>2. Below(At(l), NewMark(l), Unsent(l))
          BY <4>1 DEF MarksHold
        <4> QED BY <1>12, <1>13, <4>1, <4>2, BelowStays DEF MarksHold
      <3> QED BY <3>1, <3>2
    <2> QED BY <2>1, <2>2, <2>3 DEF MarksHold
  <1>17. ASSUME ~redone' PROVE Once'
    <2>0. Once /\ mirror[j] # Off /\ job # Off
      BY <1>0, <1>10, <1>17 DEF Off
    <2>1. \A l \in Mirrors \ {j} : mirror[l] = Off /\ mirror'[l] = Off
      BY <1>11, <2>0 DEF Once
    <2>2. \A l \in Mirrors : mirror[l].phase # "commit" /\ (HoldsPage(l)' => l = j)
      BY <1>0, <2>1 DEF Off, HoldsPage
    <2>3. \A x \in TableNames : \A i \in Nat : Copied(x, i)' => i =< lastId'[x]
      BY <1>0, <2>0, <2>2 DEF Once, Copied
    <2>4. mirror'[j].mark = lastId'[At(j)']
      BY <1>0, <1>2, <1>3, <1>10, <1>11, <1>14, <2>0 DEF Once, HoldsMark
    <2>7. \A l \in Mirrors : HoldsMark(l)' => l = j
      BY <2>1 DEF Off, HoldsMark
    <2>5. \A i \in mirror'[j].page : i > mirror'[j].mark
      BY <1>5, <1>10, <1>11
    <2>6. \A c \in DOMAIN copies' : copies'[c] = 1
      BY <1>0, <2>0 DEF Once
    <2> QED BY <2>1, <2>2, <2>3, <2>4, <2>5, <2>6, <2>7 DEF Once
  <1> QED BY <1>12, <1>16, <1>17

\* A page is sent, less what the warehouse knows for a repeat.
LEMMA PageSent ==
  ASSUME MirrorInv, NEW j \in Mirrors, InsertPage(j)
  PROVE  MirrorInv' /\ pull' = pull
  <1> USE DEF MirrorInv
  <1>0. UNCHANGED <<rows, lastId, redone, pull>> /\ mirror[j].phase = "insert"
    BY DEF InsertPage
  <1>1. mirror[j] \in MirrorJobs /\ HoldsPage(j) /\ HoldsMark(j) /\ mirror[j] # Off
    BY <1>0 DEF MirrorTypes, HoldsPage, HoldsMark, Off
  <1>2. PICK t \in TableNames : t = At(j)
    BY JobTable
  <1>3. PICK page \in SUBSET Nat : page = mirror[j].page
    BY <1>1 DEF MirrorJobs
  <1>4. PICK known \in SUBSET {i \in page : Copied(t, i)} :
           copies' = copies (+) SetToBag({t} \X (page \ known))
    BY <1>2, <1>3 DEF InsertPage
  <1>5. /\ DOMAIN copies' = DOMAIN copies \cup ({t} \X (page \ known))
        /\ \A c \in DOMAIN copies' :
              copies'[c] = (IF c \in DOMAIN copies THEN copies[c] ELSE 0)
                         + (IF c \in {t} \X (page \ known) THEN 1 ELSE 0)
    BY <1>4 DEF (+), SetToBag
  <1>6. PICK job \in MirrorJobs :
           /\ mirror' = [mirror EXCEPT ![j] = job]
           /\ job.phase = "commit" /\ job.page = page /\ job.mark = mirror[j].mark
           /\ job.table = mirror[j].table
    <2>1. PICK job : job = [mirror[j] EXCEPT !.phase = "commit"]
      OBVIOUS
    <2>2. mirror' = [mirror EXCEPT ![j] = job]
      BY <2>1 DEF InsertPage, MirrorTypes
    <2>3. /\ job \in MirrorJobs /\ job.phase = "commit" /\ job.page = page
          /\ job.mark = mirror[j].mark /\ job.table = mirror[j].table
      BY <1>1, <1>3, <2>1 DEF MirrorJobs
    <2> QED BY <2>2, <2>3
  <1>7. /\ mirror' \in [Mirrors -> MirrorJobs] /\ mirror'[j] = job
        /\ \A l \in Mirrors \ {j} : mirror'[l] = mirror[l]
    BY <1>6 DEF MirrorTypes
  <1>8. MirrorTypes'
    BY <1>0, <1>7 DEF MirrorTypes
  <1>9. Grown
    BY <1>0, <1>5 DEF Grown, MirrorTypes
  <1>10. \A l \in Mirrors : At(l)' = At(l) /\ NewMark(l)' = NewMark(l) /\ (HoldsPage(l)' = HoldsPage(l))
    BY <1>1, <1>3, <1>6, <1>7 DEF At, NewMark, HoldsPage
  <1>11. \A i \in Nat : Copied(t, i)' <=> Copied(t, i) \/ i \in page
    <2>1. \A i \in Nat : <<t, i>> \in {t} \X (page \ known) <=> i \in page \ known
      OBVIOUS
    <2>2. \A i \in known : Copied(t, i)
      OBVIOUS
    <2> QED BY <1>5, <2>1, <2>2 DEF Copied, BagIn, BagToSet
  <1>12. \A x \in TableNames \ {t} : \A i \in Nat : Copied(x, i)' <=> Copied(x, i)
    BY <1>5 DEF Copied, BagIn, BagToSet
  <1>13. MarksHold'
    <2>1. \A x \in TableNames : Below(x, lastId[x], {})'
      BY <1>0, <1>8, <1>9, BelowStays DEF MarksHold
    <2>2. ASSUME NEW l \in Mirrors, mirror'[l].phase = "read"
          PROVE  Below(At(l), mirror[l].mark, {})'
      <3>1. l # j /\ mirror'[l] = mirror[l] /\ At(l)' = At(l) /\ At(l) \in TableNames
        BY <1>6, <1>7, <1>10, <2>2, JobTable
      <3> QED BY <1>8, <1>9, <2>2, <3>1, BelowStays DEF MarksHold
    <2>3. ASSUME NEW l \in Mirrors, HoldsPage(l)'
          PROVE  /\ mirror'[l].page # {} /\ IsFiniteSet(mirror'[l].page)
                 /\ Below(At(l), NewMark(l), Unsent(l))'
      <3>0. HoldsPage(l) /\ mirror'[l].page = mirror[l].page /\ At(l) \in TableNames
        BY <1>3, <1>6, <1>7, <1>10, <2>3, JobTable
      <3>1. Below(At(l), NewMark(l), Unsent(l))
        BY <3>0 DEF MarksHold
      <3>2. PICK n, held : n = NewMark(l) /\ held = Unsent(l)
        OBVIOUS
      <3>3. Below(At(l), n, held)'
        BY <1>8, <1>9, <1>10, <3>0, <3>1, <3>2, BelowStays
      <3>4. CASE l = j
        <4>1. held = page /\ Unsent(j)' = {} /\ At(j)' = t
          BY <1>0, <1>2, <1>3, <1>6, <1>7, <1>10, <3>2, <3>4 DEF Unsent
        <4>2. n \in 0..Len(rows'[t]) /\ Len(rows'[t]) \in Nat
          BY <1>8, <3>3, <3>4, <4>1 DEF Below, MirrorTypes
        <4>3. Below(t, n, {})'
          BY <1>11, <3>3, <3>4, <4>1, <4>2 DEF Below
        <4> QED BY <1>10, <3>0, <3>2, <3>4, <4>1, <4>3 DEF MarksHold
      <3>5. CASE l # j
        <4>1. Unsent(l)' = held
          BY <1>7, <3>2, <3>5 DEF Unsent
        <4> QED BY <1>10, <3>0, <3>2, <3>3, <4>1 DEF MarksHold
      <3> QED BY <3>4, <3>5
    <2> QED BY <2>1, <2>2, <2>3 DEF MarksHold
  <1>14. ASSUME ~redone' PROVE Once'
    <2>0. Once /\ job # Off
      BY <1>0, <1>6, <1>14 DEF Off
    <2>1. \A l \in Mirrors \ {j} : mirror[l] = Off /\ mirror'[l] = Off
      BY <1>1, <1>7, <2>0 DEF Once
    <2>2. \A l \in Mirrors : mirror[l].phase # "commit"
      BY <1>0, <2>1 DEF Off
    <2>3. \A x \in TableNames : \A i \in Nat : Copied(x, i) => i =< lastId[x]
      BY <2>0, <2>2 DEF Once
    <2>4. \A i \in page : i > lastId[t]
      BY <1>1, <1>2, <1>3, <2>0 DEF Once
    <2>5. lastId[t] \in Nat
      BY DEF MirrorTypes
    <2>6. \A i \in page : ~Copied(t, i)
      BY <2>3, <2>4, <2>5
    <2>7. \A c \in {t} \X (page \ known) : c \notin DOMAIN copies
      <3> SUFFICES ASSUME NEW c \in {t} \X (page \ known) PROVE c \notin DOMAIN copies
        OBVIOUS
      <3>0. PICK new : new = page \ known
        OBVIOUS
      <3>1. PICK i \in new : c = <<t, i>>
        <4>1. c \in {t} \X new
          BY <3>0
        <4> QED BY <4>1
      <3> QED BY <2>6, <3>0, <3>1 DEF Copied, BagIn, BagToSet
    <2>8. \A c \in DOMAIN copies' : copies'[c] = 1
      BY <1>5, <2>0, <2>7 DEF Once
    <2>9. ASSUME NEW x \in TableNames, NEW i \in Nat, Copied(x, i)'
          PROVE  \/ i =< lastId'[x]
                 \/ \E l \in Mirrors : mirror'[l].phase = "commit" /\ At(l)' = x
                                         /\ i \in mirror'[l].page
      <3>1. CASE x = t /\ i \in page
        <4>1. mirror'[j].phase = "commit" /\ At(j)' = x /\ i \in mirror'[j].page
          BY <1>2, <1>6, <1>7, <1>10, <3>1
        <4> QED BY <4>1
      <3>2. CASE ~(x = t /\ i \in page)
        BY <1>0, <1>11, <1>12, <2>3, <2>9, <3>2
      <3> QED BY <3>1, <3>2
    <2>10. mirror'[j].mark = lastId'[At(j)'] /\ \A i \in mirror'[j].page : i > mirror'[j].mark
      BY <1>0, <1>1, <1>3, <1>6, <1>7, <1>10, <2>0 DEF Once
    <2>11. \A l \in Mirrors : HoldsPage(l)' \/ HoldsMark(l)' => l = j
      BY <2>1 DEF HoldsPage, HoldsMark, Off
    <2>12. \A k, l \in Mirrors : mirror'[k] # Off /\ mirror'[l] # Off => k = l
      BY <2>1
    <2>13. \A l \in Mirrors : HoldsMark(l)' => mirror'[l].mark = lastId'[At(l)']
      BY <2>10, <2>11
    <2>14. \A l \in Mirrors : HoldsPage(l)' => \A i \in mirror'[l].page : i > mirror'[l].mark
      BY <2>10, <2>11
    <2> QED BY <2>8, <2>9, <2>12, <2>13, <2>14 DEF Once
  <1> QED BY <1>0, <1>8, <1>13, <1>14

\* The watermark is committed, and the page with it.
LEMMA MarkCommitted ==
  ASSUME MirrorInv, NEW j \in Mirrors, CommitMark(j), ~(mirror[j].mark = 0 /\ lastId[At(j)] # 0)
  PROVE  MirrorInv'
  <1> USE DEF MirrorInv
  <1>0. UNCHANGED <<rows, copies, redone>> /\ mirror[j].phase = "commit"
    BY DEF CommitMark
  <1>1. /\ mirror[j] \in MirrorJobs /\ HoldsPage(j) /\ HoldsMark(j) /\ mirror[j] # Off
        /\ Unsent(j) = {}
    BY <1>0 DEF MirrorTypes, HoldsPage, HoldsMark, Off, Unsent
  <1>2. PICK t \in TableNames : t = At(j)
    BY JobTable
  <1>3. PICK n : n = NewMark(j)
    OBVIOUS
  <1>4. Below(t, n, {}) /\ n \in Nat
    <2>1. Below(t, n, {})
      BY <1>1, <1>2, <1>3 DEF MarksHold
    <2> QED BY <2>1 DEF Below
  <1>5. lastId' = [lastId EXCEPT ![t] = n]
    BY <1>2, <1>3 DEF CommitMark
  <1>6. lastId' \in [TableNames -> Nat] /\ lastId'[t] = n
        /\ \A x \in TableNames \ {t} : lastId'[x] = lastId[x]
    BY <1>4, <1>5 DEF MirrorTypes
  <1>7. PICK job \in MirrorJobs : job.phase = "mark" /\ mirror' = [mirror EXCEPT ![j] = job]
    <2>1. PICK k \in 1..Len(Tables) : k = mirror[j].table
      BY <1>1 DEF MirrorJobs
    <2>2. mirror' = [mirror EXCEPT ![j] = Turning(k)]
      BY <2>1 DEF CommitMark
    <2> QED BY <2>2, TurningJob
  <1>8. \A x \in TableNames : Below(x, lastId'[x], {})
    BY <1>4, <1>6 DEF MarksHold
  <1>9. ASSUME ~redone'
        PROVE  /\ ~redone /\ \A l \in Mirrors \ {j} : mirror[l] = Off
               /\ \A x \in TableNames : \A i \in Nat : Copied(x, i) => i =< lastId'[x]
    <2>0. Once /\ ~redone
      BY <1>0, <1>9
    <2>1. \A l \in Mirrors \ {j} : mirror[l] = Off
      BY <1>1, <2>0 DEF Once
    <2>2. PICK page \in SUBSET Nat : page = mirror[j].page
      BY <1>1 DEF MirrorJobs
    <2>3. n \in page /\ \A i \in page : i =< n
      <3>1. page # {} /\ IsFiniteSet(page) /\ \A i \in page : i \in Int
        BY <1>1, <2>2 DEF MarksHold
      <3>2. n = Max(page)
        BY <1>3, <2>2 DEF NewMark
      <3> QED BY <3>1, <3>2, MaxBounds
    <2>4. lastId[t] \in Nat /\ lastId[t] < n
      BY <1>1, <1>2, <2>0, <2>2, <2>3 DEF Once, MirrorTypes
    <2>5. ASSUME NEW x \in TableNames, NEW i \in Nat, Copied(x, i) PROVE i =< lastId'[x]
      <3>1. i =< lastId[x] \/ (x = t /\ i \in page)
        <4>1. ASSUME NEW l \in Mirrors, mirror[l].phase = "commit", At(l) = x,
                     i \in mirror[l].page
              PROVE  x = t /\ i \in page
          <5>1. l = j
            BY <2>1, <4>1 DEF Off
          <5> QED BY <1>2, <2>2, <4>1, <5>1
        <4> QED BY <2>0, <2>5, <4>1 DEF Once
      <3> QED BY <1>4, <1>6, <2>3, <2>4, <3>1
    <2> QED BY <2>0, <2>1, <2>5
  <1>10. redone' \in BOOLEAN
    BY <1>0 DEF MirrorTypes
  <1> QED BY <1>0, <1>6, <1>7, <1>8, <1>9, <1>10, JobPutsAside

\* A job ends: another one wrote the watermark's first row, or it failed.  One
\* that dies between page and watermark is a rerun.
LEMMA MirrorEnds ==
  ASSUME MirrorInv, NEW j \in Mirrors, mirror[j] # Off,
         mirror' = [mirror EXCEPT ![j] = Off], UNCHANGED <<rows, lastId, copies>>,
         redone' \in BOOLEAN, ~redone' => ~redone /\ mirror[j].phase # "commit"
  PROVE  MirrorInv'
  <1> USE DEF MirrorInv
  <1>1. Off \in MirrorJobs
    BY TablesKnown DEF Off, MirrorJobs
  <1>2. ASSUME ~redone'
        PROVE  /\ \A l \in Mirrors \ {j} : mirror[l] = Off
               /\ \A t \in TableNames : \A i \in Nat : Copied(t, i) => i =< lastId'[t]
    <2>1. \A l \in Mirrors \ {j} : mirror[l] = Off
      BY <1>2 DEF Once
    <2>2. \A l \in Mirrors : mirror[l].phase # "commit"
      BY <1>2, <2>1 DEF Off
    <2> QED BY <1>2, <2>1, <2>2, NothingAhead
  <1>3. lastId' \in [TableNames -> Nat] /\ \A t \in TableNames : Below(t, lastId'[t], {})
    BY DEF MirrorTypes, MarksHold
  <1> QED BY <1>1, <1>2, <1>3, JobPutsAside

LEMMA MirrorSteps ==
  ASSUME MirrorInv, NEW j \in Mirrors, StartMirror(j) \/ MirrorStep(j) \/ FailMirror(j)
  PROVE  MirrorInv' /\ pull' = pull
  <1>1. CASE StartMirror(j)
    BY <1>1, MirrorStarts
  <1>6. CASE ReadMark(j)
    BY <1>6, MarkRead
  <1>2. CASE ReadPage(j)
    BY <1>2, TableDone, PageRead DEF ReadPage
  <1>3. CASE InsertPage(j)
    BY <1>3, PageSent
  <1>4. CASE CommitMark(j)
    <2>1. pull' = pull
      BY <1>4 DEF CommitMark
    <2>2. CASE mirror[j].mark = 0 /\ lastId[At(j)] # 0
      <3>1. /\ mirror' = [mirror EXCEPT ![j] = Off]
            /\ UNCHANGED <<rows, lastId, copies, redone>> /\ mirror[j].phase = "commit"
        BY <1>4, <2>2 DEF CommitMark
      <3>2. mirror[j] # Off
        BY <3>1 DEF Off
      <3>3. redone
        <4>1. HoldsMark(j)
          BY <3>1 DEF HoldsMark
        <4> QED BY <2>2, <4>1 DEF MirrorInv, Once
      <3>4. redone' \in BOOLEAN /\ redone'
        BY <3>1, <3>3 DEF MirrorInv, MirrorTypes
      <3> QED BY <2>1, <3>1, <3>2, <3>4, MirrorEnds
    <2>3. CASE ~(mirror[j].mark = 0 /\ lastId[At(j)] # 0)
      BY <1>4, <2>1, <2>3, MarkCommitted
    <2> QED BY <2>2, <2>3
  <1>5. CASE FailMirror(j)
    <2>1. redone' \in BOOLEAN /\ (~redone' => ~redone /\ mirror[j].phase # "commit")
      BY <1>5, Zenon DEF FailMirror
    <2> QED BY <1>5, <2>1, MirrorEnds DEF FailMirror
  <1> QED BY <1>1, <1>2, <1>3, <1>4, <1>5, <1>6 DEF MirrorStep

\* The pull: one tenant after the other, and nothing of the mirror.
LEMMA PullSteps ==
  ASSUME PullTypes, PullAccounts, PullNext
  PROVE  PullTypes' /\ PullAccounts' /\ UNCHANGED <<rows, lastId, copies, mirror, redone>>
  <1> USE DEF PullTypes
  <1>1. UNCHANGED <<rows, lastId, copies, mirror, redone>>
    BY DEF PullNext, EnqueuePull, PullTenant
  <1>2. CASE EnqueuePull
    <2>1. Clients \in Seq(ToSet(Clients))
      BY WarehouseAssumption
    <2>2. pull' = [left |-> Clients, broken |-> FALSE, pulled |-> {}, refused |-> {}]
      BY <1>2 DEF EnqueuePull, Resting
    <2> QED BY <1>1, <2>1, <2>2 DEF PullAccounts
  <1>3. CASE PullTenant
    <2>1. PICK left \in Seq(ToSet(Clients)) : left = pull.left /\ left # <<>>
      BY <1>3 DEF PullTenant
    <2>2. PICK c \in ToSet(Clients) : c = Head(left)
      BY <2>1
    <2>3. PICK rest \in Seq(ToSet(Clients)) : rest = Tail(left)
      BY <2>1, HeadTailProperties
    <2>4. ToSet(left) = {c} \cup ToSet(rest)
      <3>1. /\ Len(left) \in Nat \ {0} /\ Len(rest) = Len(left) - 1
            /\ DOMAIN left = 1..Len(left) /\ DOMAIN rest = 1..Len(rest) /\ left[1] = c
            /\ \A i \in 1..Len(rest) : rest[i] = left[i + 1]
        BY <2>1, <2>2, <2>3
      <3>2. ASSUME NEW i \in DOMAIN left PROVE left[i] \in {c} \cup ToSet(rest)
        <4>1. CASE i = 1
          BY <3>1, <4>1
        <4>2. CASE i # 1
          <5>1. i - 1 \in 1..Len(rest) /\ rest[i - 1] = left[(i - 1) + 1]
            BY <3>1, <4>2
          <5>2. (i - 1) + 1 = i
            BY <3>1
          <5> QED BY <3>1, <5>1, <5>2 DEF ToSet
        <4> QED BY <4>1, <4>2
      <3>3. ASSUME NEW i \in DOMAIN rest PROVE rest[i] \in ToSet(left)
        <4>1. i + 1 \in DOMAIN left /\ rest[i] = left[i + 1]
          BY <3>1
        <4> QED BY <4>1 DEF ToSet
      <3>4. c \in ToSet(left)
        BY <3>1 DEF ToSet
      <3> QED BY <3>2, <3>3, <3>4 DEF ToSet
    <2>5. pull # Resting
      BY <2>1 DEF Resting
    <2>6. ~pull.broken => pull.pulled \cup pull.refused \cup {c} \cup ToSet(rest) = ToSet(Clients)
      BY <2>1, <2>4, <2>5 DEF PullAccounts
    <2>7. PICK broken \in BOOLEAN, pulled \in SUBSET ToSet(Clients),
               refused \in SUBSET ToSet(Clients) :
            /\ pull' = [left |-> rest, broken |-> broken, pulled |-> pulled, refused |-> refused]
            /\ ~broken => pulled \cup refused = pull.pulled \cup pull.refused \cup {c}
            /\ ~broken => ~pull.broken
      <3>1. pull = [left |-> left, broken |-> pull.broken, pulled |-> pull.pulled,
                    refused |-> pull.refused]
            /\ pull.broken \in BOOLEAN /\ pull.pulled \in SUBSET ToSet(Clients)
            /\ pull.refused \in SUBSET ToSet(Clients)
        BY <2>1
      <3>2. \/ /\ ~pull.broken
               /\ pull' = [pull EXCEPT !.left = rest, !.pulled = @ \cup {c}]
            \/ /\ ~pull.broken
               /\ pull' = [pull EXCEPT !.left = rest, !.refused = @ \cup {c}]
            \/ /\ ~pull.broken
               /\ pull' = [pull EXCEPT !.left = rest, !.refused = @ \cup {c}, !.broken = TRUE]
            \/ pull.broken /\ pull' = [pull EXCEPT !.left = rest]
        BY <1>3, <2>1, <2>2, <2>3 DEF PullTenant, AfterRefusedPull
      <3>3. CASE ~pull.broken /\ pull' = [pull EXCEPT !.left = rest, !.pulled = @ \cup {c}]
        <4>1. PICK pulled \in SUBSET ToSet(Clients) : pulled = pull.pulled \cup {c}
          BY <3>1
        <4>2. pull' = [left |-> rest, broken |-> FALSE, pulled |-> pulled,
                       refused |-> pull.refused]
          BY <3>1, <3>3, <4>1
        <4>3. pulled \cup pull.refused = pull.pulled \cup pull.refused \cup {c}
          BY <4>1
        <4> QED BY <3>1, <3>3, <4>2, <4>3
      <3>4. CASE ~pull.broken /\ pull' = [pull EXCEPT !.left = rest, !.refused = @ \cup {c}]
        <4>1. PICK refused \in SUBSET ToSet(Clients) : refused = pull.refused \cup {c}
          BY <3>1
        <4>2. pull' = [left |-> rest, broken |-> FALSE, pulled |-> pull.pulled,
                       refused |-> refused]
          BY <3>1, <3>4, <4>1
        <4>3. pull.pulled \cup refused = pull.pulled \cup pull.refused \cup {c}
          BY <4>1
        <4> QED BY <3>1, <3>4, <4>2, <4>3
      <3>5. CASE pull' = [pull EXCEPT !.left = rest, !.refused = @ \cup {c}, !.broken = TRUE]
        <4>1. PICK refused \in SUBSET ToSet(Clients) : refused = pull.refused \cup {c}
          BY <3>1
        <4>2. pull' = [left |-> rest, broken |-> TRUE, pulled |-> pull.pulled,
                       refused |-> refused]
          BY <3>1, <3>5, <4>1
        <4> QED BY <3>1, <4>2
      <3>6. CASE pull.broken /\ pull' = [pull EXCEPT !.left = rest]
        <4>1. pull' = [left |-> rest, broken |-> TRUE, pulled |-> pull.pulled,
                       refused |-> pull.refused]
          BY <3>1, <3>6
        <4> QED BY <3>1, <4>1
      <3> QED BY <3>2, <3>3, <3>4, <3>5, <3>6
    <2>8. PullTypes'
      BY <2>7
    <2>9. PullAccounts'
      BY <2>6, <2>7 DEF PullAccounts
    <2> QED BY <1>1, <2>8, <2>9
  <1> QED BY <1>2, <1>3 DEF PullNext

\* Whatever rows commit out of order, however jobs fail, die and overlap: no
\* stored row below a watermark is missing unless it was passed over, copies
\* double only for a rerun, and a tenant that was not pulled has a cause
\* (worker/mirror.py, worker/ga4_pull.py).
THEOREM WarehouseHolds == WarehouseSpec => []WarehouseKeepsUp
  <1>1. WarehouseInv /\ [WarehouseNext]_warehouseVars => WarehouseInv'
    <2> SUFFICES ASSUME WarehouseInv, [WarehouseNext]_warehouseVars PROVE WarehouseInv'
      OBVIOUS
    <2> USE DEF WarehouseInv
    <2>1. ASSUME MirrorInv', pull' = pull PROVE WarehouseInv'
      BY <2>1 DEF PullTypes, PullAccounts
    <2>2. ASSUME UNCHANGED <<rows, lastId, copies, mirror, redone>> PROVE MirrorInv'
      <3>1. MirrorTypes'
        BY <2>2 DEF MirrorInv, MirrorTypes
      <3>2. MarksHold'
        BY <2>2 DEF MirrorInv, MarksHold, Below, Copied, At, NewMark, Unsent, HoldsPage
      <3>3. ~redone' => Once'
        BY <2>2 DEF MirrorInv, Once, Copied, At, HoldsPage, HoldsMark
      <3> QED BY <3>1, <3>2, <3>3 DEF MirrorInv
    <2>3. CASE PullNext
      BY <2>2, <2>3, PullSteps
    <2>4. CASE MirrorNext
      <3>1. CASE EnqueueMirror
        BY <2>1, <2>2, <3>1 DEF EnqueueMirror
      <3> QED BY <2>1, <2>4, <3>1, RowsWritten, MirrorSteps DEF MirrorNext
    <2>5. CASE UNCHANGED warehouseVars
      BY <2>1, <2>2, <2>5 DEF warehouseVars
    <2> QED BY <2>3, <2>4, <2>5 DEF WarehouseNext
  <1>2. WarehouseInv => WarehouseKeepsUp
    <2> SUFFICES ASSUME WarehouseInv PROVE WarehouseKeepsUp
      OBVIOUS
    <2> USE DEF WarehouseInv, MirrorInv
    <2>1. NoGapBelowWatermark
      <3> SUFFICES ASSUME NEW t \in TableNames, NEW i \in Ids(t, {"stored"}),
                          i =< lastId[t], ~rows[t][i].skipped
                   PROVE  Copied(t, i)
        BY DEF NoGapBelowWatermark
      <3>1. i \in 1..Len(rows[t]) /\ rows[t][i].state = "stored" /\ lastId[t] \in Nat
        BY DEF Ids, MirrorTypes
      <3>2. i \in 1..lastId[t] /\ Below(t, lastId[t], {})
        BY <3>1 DEF MarksHold
      <3> QED BY <3>1, <3>2 DEF Below
    <2>2. CopiedOnceUnlessRedone
      BY DEF CopiedOnceUnlessRedone, Once, BagToSet
    <2>3. MissedPullsHaveCause
      <3> SUFFICES ASSUME pull.left = <<>>, ~pull.broken, pull # Resting
                   PROVE  pull.pulled \cup pull.refused = ToSet(Clients)
        BY DEF MissedPullsHaveCause
      <3>1. ToSet(pull.left) = {}
        BY DEF ToSet
      <3> QED BY <3>1 DEF PullAccounts
    <2> QED BY <2>1, <2>2, <2>3 DEF WarehouseKeepsUp
  <1> QED BY WarehouseStarts, <1>1, <1>2, PTL DEF WarehouseSpec

-----------------------------------------------------------------------------
(* Shards over many runs.  ShardScreensTrue is not inductive: which row is a *)
(* shard's newest changes with every harvest.  What makes it hold is that    *)
(* the rows of a shard, in the order they were made, show its re-probes in   *)
(* the order these were made (InOrder), that a re-probe keeps its own row    *)
(* while none is deleted (OwnRows), and that one run, and one harvest, makes *)
(* a shard one row (OneRow).                                                 *)

SoundReplies ==
  {x \in [run : Nat, q : Prompts, sf : Askers, subs : SUBSET Shards, at : 0..MaxDays] :
     \A k \in x.subs : QuestionOf[k] = x.q}
ProbeAnswers == [key : Shards, run : Nat, at : 0..MaxDays, seen : Findings]
ShardRecords == [id : Nat, run : Nat, key : Shards, created : 0..MaxDays,
                 seen : {"unchecked"} \cup Findings, status : {"", "ok", "carried"}, probe : Nat]

Resolved(row) == row.seen # "unchecked"

HistoryTypes ==
  /\ today \in 0..MaxDays /\ newest \in Nat
  /\ probes \in Seq(ProbeAnswers) /\ shardRows \in SUBSET ShardRecords

RowHolds(row) ==
  /\ row.id =< newest
  /\ ~Resolved(row) => row.status = ""
  /\ Resolved(row) => /\ row.probe \in DOMAIN probes
                      /\ probes[row.probe].key = row.key /\ probes[row.probe].seen = row.seen
  /\ row.status = "carried" => row.created - probes[row.probe].at =< ShardTtl

OneRow == \A a, b \in shardRows : a.key = b.key /\ (a.id = b.id \/ a.run = b.run) => a = b

InOrder ==
  \A a, b \in shardRows :
    a.key = b.key /\ a.key \notin late /\ a.id < b.id /\ Resolved(a) /\ Resolved(b)
      => a.probe =< b.probe

OwnRows ==
  \A p \in DOMAIN probes : probes[p].key \notin erased =>
    \E row \in shardRows : row.key = probes[p].key /\ row.status = "ok" /\ row.probe = p

ProbesInOrder ==
  /\ \A p \in DOMAIN probes : probes[p].at =< today
  /\ \A p, q \in DOMAIN probes : p =< q => probes[p].at =< probes[q].at

ShardsHold ==
  /\ HistoryTypes /\ (\A row \in shardRows : RowHolds(row))
  /\ OneRow /\ InOrder /\ OwnRows /\ ProbesInOrder

HistoryInv ==
  /\ replies \in Seq(SoundReplies) /\ outcomes \in Seq({"complete", "failed"})
  /\ probeJobs \in Seq(Nat) /\ ShardsHold

\* A set in some order: each member once.
LEMMA SetInOrder ==
  ASSUME NEW S, IsFiniteSet(S)
  PROVE  \E n \in Nat : /\ n = Cardinality(S) /\ SetToSeq(S) \in [1..n -> S]
                        /\ \A i, j \in 1..n : SetToSeq(S)[i] = SetToSeq(S)[j] => i = j
                        /\ \A x \in S : \E i \in 1..n : SetToSeq(S)[i] = x
  <1>1. PICK n \in Nat : ExistsBijection(1..n, S)
    BY FS_NatBijection
  <1>2. Cardinality(S) = n
    BY <1>1, FS_CountingElements
  <1>3. \E f \in [1..n -> S] : IsInjective(f)
    BY <1>1 DEF ExistsBijection, Bijection, Injection
  <1>4. PICK f : f = SetToSeq(S)
    OBVIOUS
  <1>5. f \in [1..n -> S] /\ IsInjective(f)
    BY <1>2, <1>3, <1>4 DEF SetToSeq
  <1>6. f \in Injection(1..n, S)
    BY <1>5 DEF Injection
  <1>7. f \in Surjection(1..n, S)
    <2>1. Cardinality(1..n) = n
      BY FS_Interval
    <2> QED BY <1>2, <1>6, <2>1, FS_Injection
  <1>8. \A i, j \in 1..n : f[i] = f[j] => i = j
    BY <1>5 DEF IsInjective
  <1>9. \A x \in S : \E i \in 1..n : f[i] = x
    BY <1>7 DEF Surjection
  <1> QED BY <1>2, <1>4, <1>5, <1>8, <1>9

LEMMA ShardTypes ==
  ASSUME ShardsHold
  PROVE  /\ today \in Nat /\ today =< MaxDays /\ MaxDays \in Nat /\ ShardTtl \in Nat
         /\ newest \in Nat /\ Len(probes) \in Nat /\ DOMAIN probes = 1..Len(probes)
         /\ \A p \in DOMAIN probes : probes[p] \in ProbeAnswers /\ probes[p].at \in Nat
         /\ \A row \in shardRows : /\ row \in ShardRecords /\ row.id \in Nat /\ row.id =< newest
                                   /\ row.created \in Nat /\ row.probe \in Nat
                                   /\ row.key \in Shards /\ row.run \in Nat
  <1>1. MaxDays \in Nat /\ ShardTtl \in Nat
    BY ShardHistoryAssumption
  <1>2. today \in Nat /\ today =< MaxDays /\ newest \in Nat
    BY <1>1 DEF ShardsHold, HistoryTypes
  <1>3. /\ Len(probes) \in Nat /\ DOMAIN probes = 1..Len(probes)
        /\ \A p \in DOMAIN probes : probes[p] \in ProbeAnswers
    BY DEF ShardsHold, HistoryTypes
  <1>4. \A p \in DOMAIN probes : probes[p].at \in Nat
    BY <1>1, <1>3 DEF ProbeAnswers
  <1>5. \A row \in shardRows : row \in ShardRecords /\ row.id =< newest
    BY DEF ShardsHold, HistoryTypes, RowHolds
  <1>6. \A row \in ShardRecords : /\ row.id \in Nat /\ row.created \in Nat /\ row.probe \in Nat
                                  /\ row.key \in Shards /\ row.run \in Nat
    <2> SUFFICES ASSUME NEW row \in ShardRecords
                 PROVE  /\ row.id \in Nat /\ row.created \in Nat /\ row.probe \in Nat
                        /\ row.key \in Shards /\ row.run \in Nat
      OBVIOUS
    <2>1. /\ row.id \in Nat /\ row.created \in 0..MaxDays /\ row.probe \in Nat
          /\ row.key \in Shards /\ row.run \in Nat
      BY DEF ShardRecords
    <2> QED BY <1>1, <2>1
  <1> QED BY <1>1, <1>2, <1>3, <1>4, <1>5, <1>6

\* The row last made of a set of rows.
LEMMA HighestRow ==
  ASSUME ShardsHold, NEW mine, mine \subseteq shardRows, mine # {}
  PROVE  Highest(mine) \in mine /\ \A row \in mine : row.id =< Highest(mine).id
  <1>1. /\ \A row \in mine : row.id \in 0..newest
        /\ newest \in Nat
    BY ShardTypes
  <1>2. PICK ids : ids = {row.id : row \in mine}
    OBVIOUS
  <1>3. IsFiniteSet(0..newest)
    BY <1>1, FS_Interval
  <1>4. ids \subseteq 0..newest /\ ids # {}
    BY <1>1, <1>2
  <1>5. IsFiniteSet(ids)
    BY <1>3, <1>4, FS_Subset
  <1>6. PICK m \in ids : \A n \in ids : n =< m
    <2>1. \A n \in ids : n \in Int
      BY <1>4
    <2> QED BY <1>4, <1>5, <2>1, GreatestExists
  <1>7. \E row \in mine : \A other \in mine : other.id =< row.id
    BY <1>2, <1>6
  <1> QED BY <1>7 DEF Highest

\* What a run brings.
LEMMA BroughtSound ==
  ASSUME HistoryInv, NEW r \in Nat, NEW cells \in SUBSET Asked,
         NEW subs \in [Asked -> SUBSET Shards]
  PROVE  Brought(r, subs, cells) \in Seq(SoundReplies)
  <1>1. IsFiniteSet(cells)
    <2>1. IsFiniteSet(Prompts)
      <3>1. PICK S : S = {QuestionOf[k] : k \in Shards}
        OBVIOUS
      <3>2. IsFiniteSet(S)
        BY <3>1, ShardHistoryAssumption, ImageFinite, Zenon
      <3> QED BY <3>1, <3>2 DEF Prompts
    <2>2. IsFiniteSet(Prompts \X Askers)
      BY <2>1, ShardHistoryAssumption, FS_Product
    <2>3. PICK G, P : P = Prompts \X Askers /\ G = [t \in P |-> [q |-> t[1], sf |-> t[2]]]
      OBVIOUS
    <2>4. IsFiniteSet({G[t] : t \in P})
      <3>1. IsFiniteSet(P)
        BY <2>2, <2>3
      <3> QED BY <3>1, ImageFinite, Zenon
    <2>5. Asked \subseteq {G[t] : t \in P}
      <3> SUFFICES ASSUME NEW c \in Asked PROVE \E t \in P : c = G[t]
        OBVIOUS
      <3>1. c = [q |-> c.q, sf |-> c.sf] /\ c.q \in Prompts /\ c.sf \in Askers
        BY DEF Asked
      <3>2. PICK t : t = <<c.q, c.sf>>
        OBVIOUS
      <3>3. t \in P /\ G[t] = [q |-> c.q, sf |-> c.sf]
        BY <2>3, <3>1, <3>2
      <3> QED BY <3>1, <3>3
    <2> QED BY <2>4, <2>5, FS_Subset
  <1>2. PICK order : order = SetToSeq(cells)
    OBVIOUS
  <1>3. PICK n \in Nat : order \in [1..n -> cells]
    BY <1>1, <1>2, SetInOrder
  <1>4. PICK new : new = [i \in DOMAIN order |-> Reply(r, order[i], subs[order[i]])]
    OBVIOUS
  <1>5. ASSUME NEW c \in cells PROVE Reply(r, c, subs[c]) \in SoundReplies
    BY DEF Reply, SoundReplies, Asked, HistoryInv, ShardsHold, HistoryTypes
  <1>6. new \in [1..n -> SoundReplies]
    BY <1>3, <1>4, <1>5
  <1>7. new \in Seq(SoundReplies)
    BY <1>6
  <1>8. replies \o new \in Seq(SoundReplies)
    BY <1>7 DEF HistoryInv
  <1> QED BY <1>2, <1>4, <1>8 DEF Brought

\* The row a harvest makes of a shard.
LEMMA RowMade ==
  ASSUME ShardsHold, NEW r \in Nat, NEW k \in Shards
  PROVE  \E row :
         /\ row = HarvestedRow(r, k)
         /\ row \in ShardRecords /\ row.id = newest + 1 /\ row.run = r /\ row.key = k
         /\ row.created = today /\ row.status # "ok"
         /\ Resolved(row) =>
              \E h \in Carried(r, k) : /\ \A o \in Carried(r, k) : o.id =< h.id
                                       /\ row.probe = h.probe /\ row.seen = h.seen
         /\ ~Resolved(row) => row.status = ""
  <1>1. PICK row : row = HarvestedRow(r, k)
    OBVIOUS
  <1>2. PICK bare : bare = [id |-> newest + 1, run |-> r, key |-> k, created |-> today,
                            seen |-> "unchecked", status |-> "", probe |-> NotAsked]
    OBVIOUS
  <1>3. bare \in ShardRecords
    <2>1. newest + 1 \in Nat /\ today \in 0..MaxDays
      BY ShardTypes
    <2> QED BY <1>2, <2>1 DEF ShardRecords, NotAsked
  <1>4. CASE Carried(r, k) = {}
    <2>1. row = bare
      BY <1>1, <1>2, <1>4 DEF HarvestedRow
    <2>2. /\ row.id = newest + 1 /\ row.run = r /\ row.key = k /\ row.created = today
          /\ row.status = "" /\ row.seen = "unchecked"
      <3>1. /\ bare.id = newest + 1 /\ bare.run = r /\ bare.key = k /\ bare.created = today
            /\ bare.status = "" /\ bare.seen = "unchecked"
        BY <1>2
      <3> QED BY <2>1, <3>1
    <2> QED BY <1>1, <1>3, <2>1, <2>2 DEF Resolved
  <1>5. CASE Carried(r, k) # {}
    <2>1. PICK h : h = Highest(Carried(r, k))
      OBVIOUS
    <2>2. Carried(r, k) \subseteq shardRows
      BY DEF Carried
    <2>3. h \in Carried(r, k) /\ \A o \in Carried(r, k) : o.id =< h.id
      BY <1>5, <2>1, <2>2, HighestRow
    <2>4. h \in ShardRecords /\ h.seen \in Findings
      BY <2>2, <2>3 DEF Carried, ShardsHold, HistoryTypes
    <2>5. row = [bare EXCEPT !.seen = h.seen, !.status = "carried", !.probe = h.probe]
      BY <1>1, <1>2, <1>5, <2>1 DEF HarvestedRow
    <2>6. /\ row \in ShardRecords /\ row.id = bare.id /\ row.run = bare.run /\ row.key = bare.key
          /\ row.created = bare.created /\ row.status = "carried" /\ row.seen = h.seen
          /\ row.probe = h.probe
      BY <1>3, <2>4, <2>5 DEF ShardRecords
    <2>7. bare.id = newest + 1 /\ bare.run = r /\ bare.key = k /\ bare.created = today
      BY <1>2
    <2>8. Resolved(row)
      BY <2>4, <2>6 DEF Resolved, Findings
    <2> QED BY <1>1, <2>3, <2>6, <2>7, <2>8
  <1> QED BY <1>4, <1>5

LEMMA ProcessedKeepsRows ==
  ASSUME ShardsHold, NEW r \in Nat, NEW rs \in Seq(SoundReplies), Processed(rs, r)
  PROVE  ShardsHold'
  <1>1. PICK issued : issued = Issued(rs, r)
    OBVIOUS
  <1>2. issued \subseteq Shards
    <2>1. \A i \in DOMAIN rs : rs[i].subs \subseteq Shards
      BY DEF SoundReplies
    <2> QED BY <1>1, <2>1 DEF Issued
  <1>3. PICK K : K = {l \in issued : ~\E row \in shardRows : row.run = r /\ row.key = l}
    OBVIOUS
  <1>4. PICK old : old = {row \in shardRows : row.run # r \/ row.key \in issued}
    OBVIOUS
  <1>5. /\ shardRows' = old \cup {HarvestedRow(r, k) : k \in K} /\ newest' = newest + 1
        /\ today' = today /\ probes' = probes /\ late' = late
        /\ erased' = erased \cup {row.key : row \in {x \in shardRows \ shardRows' : x.status = "ok"}}
    BY <1>1, <1>3, <1>4 DEF Processed, Harvest
  <1>6. /\ today \in 0..MaxDays /\ newest \in Nat /\ probes \in Seq(ProbeAnswers)
        /\ today \in Nat /\ MaxDays \in Nat /\ ShardTtl \in Nat
    BY ShardTypes DEF ShardsHold, HistoryTypes
  <1>7. \A row \in old : /\ row \in shardRows /\ row \in ShardRecords /\ row.id =< newest
                         /\ row.id \in Nat
    BY <1>4, ShardTypes
  <1>8. ASSUME NEW row \in shardRows', row \notin old
        PROVE  \E k \in K : row = HarvestedRow(r, k) /\ k \in Shards
    BY <1>2, <1>3, <1>5, <1>8
  <1>9. ASSUME NEW row \in shardRows', row \notin old
        PROVE  /\ row = HarvestedRow(r, row.key) /\ row.key \in K
               /\ row \in ShardRecords /\ row.id = newest + 1 /\ row.run = r
               /\ row.created = today /\ row.status # "ok" /\ (~Resolved(row) => row.status = "")
               /\ Resolved(row) => \E h \in Carried(r, row.key) :
                                      /\ \A o \in Carried(r, row.key) : o.id =< h.id
                                      /\ row.probe = h.probe /\ row.seen = h.seen
    <2>1. PICK k \in K : row = HarvestedRow(r, k) /\ k \in Shards
      BY <1>8, <1>9
    <2>2. r \in Nat /\ k \in Shards /\ ShardsHold
      BY <2>1
    <2>3. PICK made : /\ made = HarvestedRow(r, k)
                      /\ made \in ShardRecords /\ made.id = newest + 1 /\ made.run = r /\ made.key = k
                      /\ made.created = today /\ made.status # "ok"
                      /\ Resolved(made) =>
                           \E h \in Carried(r, k) : /\ \A o \in Carried(r, k) : o.id =< h.id
                                                    /\ made.probe = h.probe /\ made.seen = h.seen
                      /\ ~Resolved(made) => made.status = ""
      BY <2>2, RowMade
    <2>4. row = made
      BY <2>1, <2>3
    <2>5. row.key = k
      BY <2>3, <2>4
    <2> QED BY <2>1, <2>3, <2>4, <2>5
  <1>10. \A row \in shardRows' \ old : \A other \in shardRows :
           ~(other.run = r /\ other.key = row.key)
    BY <1>3, <1>9
  <1>11. HistoryTypes'
    <2>1. \A row \in shardRows' : row \in ShardRecords
      BY <1>7, <1>9
    <2> QED BY <1>5, <1>6, <2>1 DEF HistoryTypes
  <1>12. ASSUME NEW row \in shardRows' PROVE RowHolds(row)'
    <2>1. CASE row \in old
      <3>1. RowHolds(row) /\ row.id \in Nat /\ row.id =< newest
        BY <1>7, <2>1 DEF ShardsHold
      <3>2. row.id =< newest'
        BY <1>5, <1>6, <3>1
      <3>3. /\ ~Resolved(row) => row.status = ""
            /\ Resolved(row) => /\ row.probe \in DOMAIN probes'
                                /\ probes'[row.probe].key = row.key
                                /\ probes'[row.probe].seen = row.seen
            /\ row.status = "carried" => row.created - probes'[row.probe].at =< ShardTtl
        BY <1>5, <3>1 DEF RowHolds
      <3> QED BY <3>2, <3>3 DEF RowHolds, Resolved
    <2>2. CASE row \notin old
      <3>1. row.id =< newest'
        <4>1. row.id = newest + 1
          BY <1>9, <2>2
        <4> QED BY <1>5, <1>6, <4>1
      <3>2. CASE ~Resolved(row)
        BY <1>9, <2>2, <3>1, <3>2 DEF RowHolds, Resolved
      <3>3. CASE Resolved(row)
        <4>1. PICK h \in Carried(r, row.key) : row.probe = h.probe /\ row.seen = h.seen
          BY <1>9, <2>2, <3>3
        <4>2. /\ h \in shardRows /\ h.key = row.key /\ Resolved(h)
              /\ probes[h.probe].at >= today - ShardTtl
          BY <4>1 DEF Carried, Findings, Resolved
        <4>3. /\ h.probe \in DOMAIN probes /\ probes[h.probe].key = h.key
              /\ probes[h.probe].seen = h.seen
          BY <4>2 DEF ShardsHold, RowHolds
        <4>4. probes[h.probe].at \in Int
          BY <4>3, ShardTypes
        <4>5. row.created - probes[row.probe].at =< ShardTtl
          <5>1. row.created = today
            BY <1>9, <2>2
          <5> QED BY <1>6, <4>1, <4>2, <4>4, <5>1
        <4> QED BY <1>5, <3>1, <3>3, <4>1, <4>2, <4>3, <4>5 DEF RowHolds, Resolved
      <3> QED BY <3>2, <3>3
    <2> QED BY <2>1, <2>2
  <1>13. OneRow'
    <2> SUFFICES ASSUME NEW a \in shardRows', NEW b \in shardRows',
                        a.key = b.key, a.id = b.id \/ a.run = b.run
                 PROVE  a = b
      BY DEF OneRow
    <2>1. CASE a \in old /\ b \in old
      BY <1>7, <2>1 DEF ShardsHold, OneRow
    <2>2. CASE a \notin old /\ b \notin old
      <3>1. a = HarvestedRow(r, a.key) /\ b = HarvestedRow(r, b.key)
        BY <1>9, <2>2
      <3>2. PICK k : k = a.key
        OBVIOUS
      <3>3. a = HarvestedRow(r, k) /\ b = HarvestedRow(r, k)
        BY <3>1, <3>2
      <3> QED BY <3>3
    <2>3. ASSUME NEW x \in old, NEW y \in shardRows' \ old, x.key = y.key PROVE x.id # y.id /\ x.run # y.run
      <3>1. x.id \in Nat /\ x.id =< newest /\ y.id = newest + 1 /\ y.run = r
        BY <1>7, <1>9 DEF ShardRecords
      <3> QED BY <1>6, <1>7, <1>10, <2>3, <3>1
    <2> QED BY <2>1, <2>2, <2>3
  <1>14. InOrder'
    <2> SUFFICES ASSUME NEW a \in shardRows', NEW b \in shardRows', a.key = b.key,
                        a.key \notin late, a.id < b.id, Resolved(a), Resolved(b)
                 PROVE  a.probe =< b.probe
      BY <1>5 DEF InOrder, Resolved
    <2>1. CASE a \in old /\ b \in old
      BY <1>7, <2>1 DEF ShardsHold, InOrder
    <2>2. CASE a \notin old
      <3>1. a.id = newest + 1 /\ (b.id = newest + 1 \/ (b.id \in Nat /\ b.id =< newest))
        BY <1>7, <1>9, <2>2 DEF ShardRecords
      <3> QED BY <1>6, <3>1
    <2>3. CASE a \in old /\ b \notin old
      <3>1. PICK h \in Carried(r, b.key) :
              (\A o \in Carried(r, b.key) : o.id =< h.id) /\ b.probe = h.probe
        BY <1>9, <2>3
      <3>2. /\ h \in shardRows /\ h.key = b.key /\ Resolved(h) /\ ShardTtl > 0
            /\ probes[h.probe].at >= today - ShardTtl
        BY <3>1 DEF Carried, Findings, Resolved
      <3>3. a \in shardRows /\ a.run # r /\ a.seen \in Findings
        <4>1. a \in shardRows /\ a.run # r
          BY <1>7, <1>10, <2>3
        <4>2. a \in ShardRecords
          BY <4>1, ShardTypes
        <4>3. a.seen \in {"unchecked"} \cup Findings
          BY <4>2 DEF ShardRecords
        <4> QED BY <4>1, <4>3 DEF Resolved
      <3>4. /\ a.probe \in DOMAIN probes /\ h.probe \in DOMAIN probes
            /\ a.id \in Nat /\ h.id \in Nat /\ a.probe \in Nat /\ h.probe \in Nat
        BY <3>2, <3>3, ShardTypes DEF ShardsHold, RowHolds
      <3>5. CASE a \in Carried(r, b.key)
        <4>1. a.id =< h.id
          BY <3>1, <3>5
        <4>2. CASE a.id = h.id
          <5>1. a = h
            BY <3>2, <3>3, <4>2 DEF ShardsHold, OneRow
          <5> QED BY <3>1, <3>4, <5>1
        <4>3. CASE a.id # h.id
          <5>1. a.id < h.id
            BY <3>4, <4>1, <4>3
          <5>2. a.probe =< h.probe
            BY <3>2, <3>3, <5>1 DEF ShardsHold, InOrder
          <5> QED BY <3>1, <5>2
        <4> QED BY <4>2, <4>3
      <3>6. CASE a \notin Carried(r, b.key)
        <4>1. ~(probes[a.probe].at >= today - ShardTtl)
          BY <3>2, <3>3, <3>6 DEF Carried
        <4>2. probes[a.probe].at \in Int /\ probes[h.probe].at \in Int
          BY <3>4, ShardTypes
        <4>3. h.probe =< a.probe => probes[h.probe].at =< probes[a.probe].at
          BY <3>4 DEF ShardsHold, ProbesInOrder
        <4> QED BY <1>6, <3>1, <3>2, <3>4, <4>1, <4>2, <4>3
      <3> QED BY <3>5, <3>6
    <2> QED BY <2>1, <2>2, <2>3
  <1>15. OwnRows'
    <2> SUFFICES ASSUME NEW p \in DOMAIN probes, probes[p].key \notin erased'
                 PROVE  \E row \in shardRows' : row.key = probes[p].key /\ row.status = "ok" /\ row.probe = p
      BY <1>5 DEF OwnRows
    <2>1. PICK row \in shardRows : row.key = probes[p].key /\ row.status = "ok" /\ row.probe = p
      BY <1>5 DEF ShardsHold, OwnRows
    <2>2. row \in shardRows'
      BY <1>5, <2>1
    <2> QED BY <2>1, <2>2
  <1>16. ProbesInOrder'
    BY <1>5 DEF ShardsHold, ProbesInOrder
  <1> QED BY <1>11, <1>12, <1>13, <1>14, <1>15, <1>16 DEF ShardsHold

LEMMA ReprobeKeepsRows ==
  ASSUME HistoryInv, probeJobs # <<>>, NEW S \in SUBSET Shards, NEW found \in [S -> Findings],
         Reprobe(found)
  PROVE  ShardsHold'
  <1> USE DEF HistoryInv
  <1>1. PICK r : r = Head(probeJobs)
    OBVIOUS
  <1>2. r \in Nat
    BY <1>1
  <1>3. PICK order : order = SetToSeq(S)
    OBVIOUS
  <1>4. PICK n \in Nat : /\ order \in [1..n -> S]
                         /\ \A i, j \in 1..n : order[i] = order[j] => i = j
                         /\ \A k \in S : \E i \in 1..n : order[i] = k
    <2>1. IsFiniteSet(S)
      BY ShardHistoryAssumption, FS_Subset
    <2>2. PICK n \in Nat : /\ SetToSeq(S) \in [1..n -> S]
                           /\ \A i, j \in 1..n : SetToSeq(S)[i] = SetToSeq(S)[j] => i = j
                           /\ \A x \in S : \E i \in 1..n : SetToSeq(S)[i] = x
      BY <2>1, SetInOrder, Zenon
    <2> QED BY <1>3, <2>2
  <1>5. PICK new : new = [i \in DOMAIN order |-> [key |-> order[i], run |-> r, at |-> today,
                                                  seen |-> found[order[i]]]]
    OBVIOUS
  <1>6. PICK made : made = Probed(r, found)
    OBVIOUS
  <1>7. PICK L \in Nat : L = Len(probes) /\ DOMAIN probes = 1..L
    BY ShardTypes
  <1>8. PICK ref : ref = [k \in S |-> CHOOSE p \in DOMAIN made : p > L /\ made[p].key = k]
    OBVIOUS
  <1>9. PICK Was : Was = {row \in shardRows : row.run = r /\ row.key \in S}
    OBVIOUS
  <1>10. PICK Now : Now = [row \in shardRows |-> RowAfter(row, r, found, made)]
    OBVIOUS
  <1>11. /\ S \subseteq Unchecked(r) /\ probes' = made
         /\ shardRows' = {Now[row] : row \in shardRows}
         /\ late' = late \cup {k \in S : \E row, own \in shardRows :
                       row.key = k /\ own.key = k /\ own.run = r /\ own.id < row.id}
         /\ UNCHANGED <<today, newest, erased>> /\ made = probes \o new
    <2>1. DOMAIN found = S
      OBVIOUS
    <2>2. /\ S \subseteq Unchecked(r) /\ probes' = made
          /\ late' = late \cup {k \in S : \E row, own \in shardRows :
                       row.key = k /\ own.key = k /\ own.run = r /\ own.id < row.id}
          /\ UNCHANGED <<today, newest, erased>>
          /\ shardRows' = {RowAfter(row, r, found, made) : row \in shardRows}
      BY <1>1, <1>6, <2>1 DEF Reprobe
    <2>3. shardRows' = {Now[row] : row \in shardRows}
      BY <1>10, <2>2
    <2>4. made = probes \o new
      BY <1>3, <1>5, <1>6, <2>1 DEF Probed
    <2> QED BY <2>2, <2>3, <2>4
  <1>12. \A i \in 1..n : /\ new[i] \in ProbeAnswers /\ new[i].key = order[i] /\ order[i] \in S
                         /\ new[i].at = today /\ new[i].seen = found[order[i]]
    <2>1. today \in 0..MaxDays
      BY DEF ShardsHold, HistoryTypes
    <2> QED BY <1>2, <1>4, <1>5, <2>1 DEF ProbeAnswers
  <1>13. new \in Seq(ProbeAnswers) /\ Len(new) = n
    <2>1. DOMAIN new = 1..n
      BY <1>4, <1>5
    <2>2. new = [i \in 1..n |-> new[i]]
      BY <1>5, <2>1
    <2>3. new \in [1..n -> ProbeAnswers]
      BY <1>12, <2>1, <2>2
    <2> QED BY <2>1, <2>3
  <1>14. /\ made \in Seq(ProbeAnswers) /\ DOMAIN made = 1..(L + n)
         /\ \A p \in 1..L : made[p] = probes[p]
         /\ \A i \in 1..n : made[L + i] = new[i]
    <2>1. probes \in Seq(ProbeAnswers)
      BY DEF ShardsHold, HistoryTypes
    <2>2. made \in Seq(ProbeAnswers) /\ Len(made) = L + n /\ DOMAIN made = 1..(L + n)
      <3>1. made \in Seq(ProbeAnswers) /\ Len(made) = Len(probes) + Len(new)
        BY <1>11, <1>13, <2>1, ConcatProperties, Zenon
      <3>2. Len(made) = L + n
        BY <1>7, <1>13, <3>1
      <3> QED BY <3>1, <3>2
    <2>3. \A p \in 1..L : made[p] = probes[p]
      BY <1>7, <1>11, <1>13, <2>1
    <2>4. \A i \in 1..n : made[L + i] = new[i]
      BY <1>7, <1>11, <1>13, <2>1
    <2> QED BY <2>2, <2>3, <2>4
  <1>15. \A p \in DOMAIN made : p > L =>
           /\ p - L \in 1..n /\ made[p] = new[p - L]
           /\ made[p].key = order[p - L] /\ made[p].key \in S
           /\ made[p].at = today /\ made[p].seen = found[made[p].key]
    <2> SUFFICES ASSUME NEW p \in DOMAIN made, p > L
                 PROVE  /\ p - L \in 1..n /\ made[p] = new[p - L]
                        /\ made[p].key = order[p - L] /\ made[p].key \in S
                        /\ made[p].at = today /\ made[p].seen = found[made[p].key]
      OBVIOUS
    <2>1. PICK i : i = p - L
      OBVIOUS
    <2>2. i \in 1..n /\ L + i = p
      BY <1>14, <2>1
    <2>3. made[p] = new[i]
      BY <1>14, <2>2
    <2> QED BY <1>12, <2>1, <2>2, <2>3
  <1>16. \A k \in S : /\ ref[k] \in DOMAIN made /\ ref[k] > L /\ made[ref[k]].key = k
                      /\ made[ref[k]].seen = found[k] /\ ref[k] \in Nat
    <2> SUFFICES ASSUME NEW k \in S
                 PROVE  /\ ref[k] \in DOMAIN made /\ ref[k] > L /\ made[ref[k]].key = k
                        /\ made[ref[k]].seen = found[k] /\ ref[k] \in Nat
      OBVIOUS
    <2>1. PICK i \in 1..n : order[i] = k
      BY <1>4
    <2>2. L + i \in DOMAIN made /\ L + i > L
      BY <1>14, <2>1
    <2>6. made[L + i].key = k
      BY <1>12, <1>14, <2>1
    <2>3. \E p \in DOMAIN made : p > L /\ made[p].key = k
      BY <2>2, <2>6
    <2>4. ref[k] = CHOOSE p \in DOMAIN made : p > L /\ made[p].key = k
      BY <1>8
    <2>5. ref[k] \in DOMAIN made /\ ref[k] > L /\ made[ref[k]].key = k
      BY <2>3, <2>4
    <2> QED BY <1>14, <1>15, <2>5
  <1>17. ASSUME NEW p \in DOMAIN made, p > L PROVE p = ref[made[p].key]
    <2>1. PICK q : q = ref[made[p].key]
      OBVIOUS
    <2>2. made[p].key \in S /\ made[p].key = order[p - L] /\ p - L \in 1..n
      BY <1>15, <1>17
    <2>3. q \in DOMAIN made /\ q > L /\ made[q].key = made[p].key
      BY <1>16, <2>1, <2>2
    <2>4. q - L \in 1..n /\ order[q - L] = order[p - L]
      BY <1>15, <2>2, <2>3
    <2>5. q - L = p - L
      BY <1>4, <2>2, <2>4
    <2> QED BY <1>14, <2>1, <2>3, <2>5
  <1>18. ASSUME NEW row \in Was
         PROVE  /\ row \in shardRows /\ row.run = r /\ row.key \in S /\ ~Resolved(row)
                /\ Now[row] \in ShardRecords
                /\ Now[row].id = row.id /\ Now[row].run = row.run /\ Now[row].key = row.key
                /\ Now[row].created = row.created /\ Now[row].seen = found[row.key]
                /\ Now[row].status = "ok" /\ Now[row].probe = ref[row.key] /\ Resolved(Now[row])
    <2>1. row \in shardRows /\ row.run = r /\ row.key \in S /\ row \in ShardRecords
      BY <1>9, ShardTypes
    <2>2. PICK x \in shardRows : x.run = r /\ x.seen = "unchecked" /\ x.key = row.key
      BY <1>11, <2>1 DEF Unchecked
    <2>3. x = row
      BY <2>1, <2>2 DEF ShardsHold, OneRow
    <2>4. Now[row] = [row EXCEPT !.seen = found[row.key], !.status = "ok", !.probe = ref[row.key]]
      <3>1. DOMAIN found = S
        OBVIOUS
      <3>2. ref[row.key] = CHOOSE p \in DOMAIN made : p > Len(probes) /\ made[p].key = row.key
        BY <1>7, <1>8, <2>1
      <3> QED BY <1>10, <2>1, <3>1, <3>2 DEF RowAfter
    <2>5. found[row.key] \in Findings /\ ref[row.key] \in Nat
      BY <1>16, <2>1
    <2>6. /\ Now[row] \in ShardRecords
          /\ Now[row].id = row.id /\ Now[row].run = row.run /\ Now[row].key = row.key
          /\ Now[row].created = row.created /\ Now[row].seen = found[row.key]
          /\ Now[row].status = "ok" /\ Now[row].probe = ref[row.key]
      BY <2>1, <2>4, <2>5 DEF ShardRecords
    <2> QED BY <2>1, <2>2, <2>3, <2>5, <2>6 DEF Resolved, Findings
  <1>19. ASSUME NEW row \in shardRows, row \notin Was
         PROVE  Now[row] = row /\ ~(row.run = r /\ row.key \in S)
    BY <1>9, <1>10, <1>19 DEF RowAfter
  <1>20. ASSUME NEW row \in shardRows
         PROVE  /\ Now[row] \in ShardRecords /\ Now[row].id = row.id /\ Now[row].run = row.run
                /\ Now[row].key = row.key /\ Now[row].created = row.created
    BY <1>18, <1>19, ShardTypes
  <1>21. HistoryTypes'
    <2>1. \A x \in shardRows' : x \in ShardRecords
      BY <1>11, <1>20
    <2> QED BY <1>11, <1>14, <2>1 DEF ShardsHold, HistoryTypes
  <1>22. ASSUME NEW x \in shardRows' PROVE RowHolds(x)'
    <2>1. PICK row \in shardRows : x = Now[row]
      BY <1>11
    <2>2. RowHolds(row)
      BY DEF ShardsHold
    <2>3. CASE row \notin Was
      <3>1. x = row
        BY <1>19, <2>1, <2>3
      <3>2. CASE ~Resolved(row)
        BY <1>11, <2>2, <3>1, <3>2 DEF RowHolds, Resolved
      <3>3. CASE Resolved(row)
        <4>1. row.probe \in 1..L
          BY <1>7, <2>2, <3>3 DEF RowHolds
        <4>2. row.probe \in DOMAIN made /\ made[row.probe] = probes[row.probe]
          BY <1>14, <4>1
        <4> QED BY <1>11, <2>2, <3>1, <3>3, <4>2 DEF RowHolds, Resolved
      <3> QED BY <3>2, <3>3
    <2>4. CASE row \in Was
      <3>1. PICK k : k = row.key
        OBVIOUS
      <3>2. /\ k \in S /\ x.id = row.id /\ x.key = k /\ x.seen = found[k] /\ x.status = "ok"
            /\ x.probe = ref[k] /\ Resolved(x)
        BY <1>18, <2>1, <2>4, <3>1
      <3>3. ref[k] \in DOMAIN made /\ made[ref[k]].key = k /\ made[ref[k]].seen = found[k]
        BY <1>16, <3>2
      <3> QED BY <1>11, <2>2, <3>2, <3>3 DEF RowHolds, Resolved
    <2> QED BY <2>3, <2>4
  <1>23. OneRow'
    <2> SUFFICES ASSUME NEW a \in shardRows', NEW b \in shardRows',
                        a.key = b.key, a.id = b.id \/ a.run = b.run
                 PROVE  a = b
      BY DEF OneRow
    <2>1. PICK x \in shardRows, y \in shardRows : a = Now[x] /\ b = Now[y]
      BY <1>11
    <2>2. x.key = y.key /\ (x.id = y.id \/ x.run = y.run)
      BY <1>20, <2>1
    <2>3. x = y
      BY <2>2 DEF ShardsHold, OneRow
    <2> QED BY <2>1, <2>3
  <1>24. InOrder'
    <2> SUFFICES ASSUME NEW a \in shardRows', NEW b \in shardRows', a.key = b.key,
                        a.key \notin late', a.id < b.id, Resolved(a), Resolved(b)
                 PROVE  a.probe =< b.probe
      BY DEF InOrder, Resolved
    <2>1. PICK x \in shardRows, y \in shardRows : a = Now[x] /\ b = Now[y]
      BY <1>11
    <2>2. x.key = y.key /\ x.id < y.id /\ a.key = x.key
      BY <1>20, <2>1
    <2>3. x \notin Was
      <3>1. SUFFICES ASSUME x \in Was PROVE FALSE
        OBVIOUS
      <3>2. x.run = r /\ x.key \in S
        BY <1>18, <3>1
      <3> QED BY <1>11, <2>2, <3>2
    <2>4. a = x /\ a.probe \in 1..L
      <3>1. a = x
        BY <1>19, <2>1, <2>3
      <3> QED BY <1>7, <3>1 DEF ShardsHold, RowHolds
    <2>5. CASE y \in Was
      <3>1. b.probe = ref[y.key] /\ y.key \in S
        BY <1>18, <2>1, <2>5
      <3>2. b.probe > L /\ b.probe \in Nat
        BY <1>16, <3>1
      <3> QED BY <2>4, <3>2
    <2>6. CASE y \notin Was
      <3>1. b = y
        BY <1>19, <2>1, <2>6
      <3> QED BY <1>11, <2>2, <2>4, <3>1 DEF ShardsHold, InOrder
    <2> QED BY <2>5, <2>6
  <1>25. OwnRows'
    <2> SUFFICES ASSUME NEW p \in DOMAIN made, made[p].key \notin erased
                 PROVE  \E x \in shardRows' : x.key = made[p].key /\ x.status = "ok" /\ x.probe = p
      BY <1>11 DEF OwnRows
    <2>1. CASE p > L
      <3>1. PICK k : k = made[p].key
        OBVIOUS
      <3>2. k \in S
        BY <1>15, <2>1, <3>1
      <3>3. PICK row \in shardRows : row.run = r /\ row.key = k
        BY <1>11, <3>2 DEF Unchecked
      <3>4. row \in Was
        BY <1>9, <3>2, <3>3
      <3>5. Now[row].key = k /\ Now[row].status = "ok" /\ Now[row].probe = ref[k]
        BY <1>18, <3>3, <3>4
      <3>6. p = ref[k]
        BY <1>17, <2>1, <3>1
      <3> QED BY <1>11, <3>1, <3>3, <3>5, <3>6
    <2>2. CASE ~(p > L)
      <3>1. p \in DOMAIN probes /\ made[p] = probes[p]
        BY <1>7, <1>14, <2>2
      <3>2. PICK row \in shardRows : row.key = made[p].key /\ row.status = "ok" /\ row.probe = p
        BY <3>1 DEF ShardsHold, OwnRows
      <3>3. Resolved(row)
        BY <3>2 DEF ShardsHold, RowHolds
      <3>4. Now[row] = row
        BY <1>18, <1>19, <3>3
      <3> QED BY <1>11, <3>2, <3>4
    <2> QED BY <2>1, <2>2
  <1>26. ProbesInOrder'
    <2>1. \A p \in DOMAIN made : \/ p > L /\ made[p].at = today
                                 \/ p \in 1..L /\ made[p] = probes[p]
      BY <1>14, <1>15
    <2>2. today \in Nat /\ \A p \in 1..L : probes[p].at \in Nat /\ probes[p].at =< today
      BY <1>7, ShardTypes DEF ShardsHold, ProbesInOrder
    <2>3. \A p \in DOMAIN made : made[p].at =< today
      BY <2>1, <2>2
    <2>4. ASSUME NEW p \in DOMAIN made, NEW q \in DOMAIN made, p =< q
          PROVE  made[p].at =< made[q].at
      <3>1. CASE q > L
        <4>1. made[q].at = today
          BY <1>15, <3>1
        <4> QED BY <2>3, <4>1
      <3>2. CASE ~(q > L)
        <4>1. /\ p \in 1..L /\ q \in 1..L
              /\ made[p] = probes[p] /\ made[q] = probes[q]
          BY <1>14, <2>4, <3>2
        <4>2. probes[p].at =< probes[q].at
          BY <1>7, <2>4, <4>1 DEF ShardsHold, ProbesInOrder
        <4> QED BY <4>1, <4>2
      <3> QED BY <3>1, <3>2
    <2> QED BY <1>11, <2>3, <2>4 DEF ProbesInOrder
  <1> QED BY <1>21, <1>22, <1>23, <1>24, <1>25, <1>26 DEF ShardsHold

\* What leaves the rows and the probes alone keeps what holds of them.
LEMMA RowsUntouched ==
  ASSUME ShardsHold, UNCHANGED <<shardRows, newest, probes, late, erased>>,
         today' \in 0..MaxDays, today' >= today
  PROVE  ShardsHold'
  <1>1. today \in Nat /\ today' \in Nat /\ \A p \in DOMAIN probes : probes[p].at \in Nat
    BY ShardTypes
  <1>2. HistoryTypes'
    BY DEF ShardsHold, HistoryTypes
  <1>3. \A row \in shardRows' : RowHolds(row)'
    BY DEF ShardsHold, RowHolds, Resolved
  <1>4. OneRow' /\ InOrder' /\ OwnRows'
    BY DEF ShardsHold, OneRow, InOrder, OwnRows, Resolved
  <1>5. ProbesInOrder'
    BY <1>1 DEF ShardsHold, ProbesInOrder
  <1> QED BY <1>2, <1>3, <1>4, <1>5 DEF ShardsHold

THEOREM ShardHistoryInvariant == HistorySpec => []HistoryInv
  <1>1. HistoryInit => HistoryInv
    <2> SUFFICES ASSUME HistoryInit PROVE HistoryInv
      OBVIOUS
    <2>1. MaxDays \in Nat
      BY ShardHistoryAssumption
    <2>2. HistoryTypes
      BY <2>1 DEF HistoryInit, HistoryTypes
    <2>3. ProbesInOrder /\ OwnRows
      BY DEF HistoryInit, ProbesInOrder, OwnRows
    <2>4. OneRow /\ InOrder /\ \A row \in shardRows : RowHolds(row)
      BY DEF HistoryInit, OneRow, InOrder
    <2> QED BY <2>2, <2>3, <2>4 DEF HistoryInit, HistoryInv, ShardsHold
  <1>2. HistoryInv /\ [HistoryNext]_historyVars => HistoryInv'
    <2> SUFFICES ASSUME HistoryInv, [HistoryNext]_historyVars PROVE HistoryInv'
      OBVIOUS
    <2>1. /\ replies \in Seq(SoundReplies) /\ outcomes \in Seq({"complete", "failed"})
          /\ probeJobs \in Seq(Nat) /\ ShardsHold
      BY DEF HistoryInv
    <2>2. today \in 0..MaxDays /\ today \in Nat /\ MaxDays \in Nat
      BY <2>1, ShardTypes DEF ShardsHold, HistoryTypes
    <2>3. ASSUME NEW rs \in Seq(SoundReplies), NEW r \in Nat, Processed(rs, r),
                 outcomes' \in Seq({"complete", "failed"}),
                 probeJobs' \in {probeJobs, Append(probeJobs, r)}
          PROVE  HistoryInv'
      <3>1. ShardsHold'
        BY <2>1, <2>3, ProcessedKeepsRows
      <3>2. replies' \in Seq(SoundReplies)
        BY <2>3 DEF Processed
      <3>3. Append(probeJobs, r) \in Seq(Nat)
        BY <2>1, <2>3
      <3>4. probeJobs' \in Seq(Nat)
        BY <2>1, <2>3, <3>3
      <3> QED BY <2>3, <3>1, <3>2, <3>4 DEF HistoryInv
    <2>4. ASSUME NEW cells \in SUBSET Asked, NEW subs \in [Asked -> SUBSET Shards],
                 CompleteRun(cells, subs)
          PROVE  HistoryInv'
      <3>1. PICK r : r = Len(outcomes) + 1
        OBVIOUS
      <3>2. r \in Nat
        BY <2>1, <3>1
      <3>3. PICK rs : rs = Brought(r, subs, cells)
        OBVIOUS
      <3>4. rs \in Seq(SoundReplies)
        BY <3>2, <3>3, BroughtSound
      <3>5. outcomes' = Append(outcomes, "complete") /\ Processed(rs, r) /\ probeJobs' = Enqueued(rs, r)
        BY <2>4, <3>1, <3>3 DEF CompleteRun
      <3>6. outcomes' \in Seq({"complete", "failed"})
        BY <2>1, <3>5
      <3>7. probeJobs' \in {probeJobs, Append(probeJobs, r)}
        BY <3>5 DEF Enqueued
      <3> QED BY <2>3, <3>2, <3>4, <3>5, <3>6, <3>7
    <2>5. ASSUME NEW cells \in SUBSET Asked, NEW subs \in [Asked -> SUBSET Shards],
                 FailedRun(cells, subs)
          PROVE  HistoryInv'
      <3>1. PICK r : r = Len(outcomes) + 1
        OBVIOUS
      <3>2. r \in Nat
        BY <2>1, <3>1
      <3>3. Brought(r, subs, cells) \in Seq(SoundReplies)
        BY <3>2, BroughtSound
      <3>4. /\ outcomes' = Append(outcomes, "failed") /\ replies' = Brought(r, subs, cells)
            /\ UNCHANGED <<today, shardRows, newest, probes, probeJobs, late, erased>>
        BY <2>5, <3>1 DEF FailedRun
      <3>5. ShardsHold'
        BY <2>1, <2>2, <3>4, RowsUntouched
      <3> QED BY <2>1, <3>3, <3>4, <3>5 DEF HistoryInv
    <2>6. ASSUME NEW r \in DOMAIN outcomes, Reprocess(r) PROVE HistoryInv'
      <3>1. /\ r \in Nat /\ Processed(replies, r) /\ outcomes' = outcomes /\ probeJobs' = probeJobs
        BY <2>1, <2>6 DEF Reprocess
      <3> QED BY <2>1, <2>3, <3>1
    <2>7. ASSUME NEW r \in DOMAIN outcomes, NEW subs \in [Asked -> SUBSET Shards],
                 ResumeHistoryRun(r, subs)
          PROVE  HistoryInv'
      <3>1. r \in Nat
        BY <2>1
      <3>2. PICK missing : missing = {c \in Asked : ~\E i \in DOMAIN replies :
                       replies[i].run = r /\ replies[i].q = c.q /\ replies[i].sf = c.sf}
        OBVIOUS
      <3>3. PICK rs : rs = Brought(r, subs, missing)
        OBVIOUS
      <3>4. rs \in Seq(SoundReplies)
        BY <3>1, <3>2, <3>3, BroughtSound
      <3>5. /\ outcomes' = [outcomes EXCEPT ![r] = "complete"] /\ Processed(rs, r)
            /\ probeJobs' = Enqueued(rs, r)
        BY <2>7, <3>2, <3>3 DEF ResumeHistoryRun
      <3>6. outcomes' \in Seq({"complete", "failed"})
        BY <2>1, <3>5
      <3>7. probeJobs' \in {probeJobs, Append(probeJobs, r)}
        BY <3>5 DEF Enqueued
      <3> QED BY <2>3, <3>1, <3>4, <3>5, <3>6, <3>7
    <2>8. ASSUME probeJobs # <<>>, NEW S \in SUBSET Shards, NEW found \in [S -> Findings],
                 Reprobe(found)
          PROVE  HistoryInv'
      <3>1. ShardsHold'
        BY <2>8, ReprobeKeepsRows
      <3>2. probeJobs' = Tail(probeJobs) /\ UNCHANGED <<replies, outcomes>>
        BY <2>8 DEF Reprobe
      <3>3. probeJobs' \in Seq(Nat)
        BY <2>1, <2>8, <3>2
      <3> QED BY <2>1, <3>1, <3>2, <3>3 DEF HistoryInv
    <2>9. ASSUME NEW q \in Prompts, Flag(q) PROVE HistoryInv'
      <3>1. UNCHANGED <<today, replies, outcomes, shardRows, newest, probes, probeJobs, late, erased>>
        BY <2>9 DEF Flag
      <3>2. ShardsHold'
        BY <2>1, <2>2, <3>1, RowsUntouched
      <3> QED BY <2>1, <3>1, <3>2 DEF HistoryInv
    <2>10. CASE DayPasses
      <3>1. /\ UNCHANGED <<replies, outcomes, shardRows, newest, probes, probeJobs, late, erased>>
            /\ today < MaxDays /\ today' = today + 1
        BY <2>10 DEF DayPasses
      <3>2. today' \in 0..MaxDays /\ today' >= today
        BY <2>2, <3>1
      <3>3. ShardsHold'
        BY <2>1, <3>1, <3>2, RowsUntouched
      <3> QED BY <2>1, <3>1, <3>3 DEF HistoryInv
    <2>11. CASE UNCHANGED historyVars
      <3>1. UNCHANGED <<today, replies, outcomes, shardRows, newest, probes, probeJobs, late, erased>>
        BY <2>11 DEF historyVars
      <3>2. ShardsHold'
        BY <2>1, <2>2, <3>1, RowsUntouched
      <3> QED BY <2>1, <3>1, <3>2 DEF HistoryInv
    <2> QED BY <2>4, <2>5, <2>6, <2>7, <2>8, <2>9, <2>10, <2>11 DEF HistoryNext
  <1> QED BY <1>1, <1>2, PTL DEF HistorySpec

\* What the scorecard shows of a shard is the row last made of it.
LEMMA ScorecardRow ==
  ASSUME HistoryInv, NEW k \in Everything.reprobed
  PROVE  /\ k \in ShardsOf(LatestReplies(0, MaxDays + 1, branded))
         /\ \E top \in shardRows :
              /\ top.key = k /\ Resolved(top)
              /\ \A row \in shardRows : row.key = k => row.id =< top.id
              /\ Everything.shards[k].seen = top.seen /\ Everything.shards[k].probe = top.probe
              /\ Everything.shards[k].trend = Trend(top, MaxDays + 1)
  <1>1. PICK shards : shards = [j \in ShardsOf(LatestReplies(0, MaxDays + 1, branded)) |->
                                   Shown(j, 0, MaxDays + 1)]
    OBVIOUS
  <1>2. /\ Everything.shards = shards
        /\ Everything.reprobed = {j \in DOMAIN shards : shards[j].seen # "unchecked"}
    BY <1>1 DEF Everything, FanoutScorecard
  <1>3. /\ k \in ShardsOf(LatestReplies(0, MaxDays + 1, branded))
        /\ Everything.shards[k] = Shown(k, 0, MaxDays + 1)
        /\ Shown(k, 0, MaxDays + 1).seen # "unchecked"
    BY <1>1, <1>2
  <1>4. PICK mine : mine = RowsOf(k, 0, MaxDays + 1)
    OBVIOUS
  <1>5. mine = {row \in shardRows : row.key = k}
    <2>1. ShardsHold
      BY DEF HistoryInv
    <2>2. ASSUME NEW row \in shardRows PROVE During(row.created, 0, MaxDays + 1)
      <3>1. row \in ShardRecords /\ MaxDays \in Nat
        BY <2>1, ShardTypes
      <3>2. row.created \in 0..MaxDays
        BY <3>1 DEF ShardRecords
      <3> QED BY <3>1, <3>2 DEF During
    <2> QED BY <1>4, <2>2 DEF RowsOf
  <1>6. PICK top : top = Highest(mine)
    OBVIOUS
  <1>7. ~(mine = {} \/ top.seen = "unchecked")
    <2> SUFFICES ASSUME mine = {} \/ top.seen = "unchecked"
                 PROVE  Shown(k, 0, MaxDays + 1).seen = "unchecked"
      BY <1>3
    <2>1. Shown(k, 0, MaxDays + 1) = [seen |-> "unchecked", probe |-> NotAsked, trend |-> "none"]
      BY <1>4, <1>6 DEF Shown
    <2> QED BY <2>1
  <1>8. top \in mine /\ \A row \in mine : row.id =< top.id
    <2>1. ShardsHold /\ mine \subseteq shardRows /\ mine # {}
      BY <1>5, <1>7 DEF HistoryInv
    <2> QED BY <1>6, <2>1, HighestRow
  <1>9. Shown(k, 0, MaxDays + 1) =
          [seen |-> top.seen, probe |-> top.probe, trend |-> Trend(top, MaxDays + 1)]
    BY <1>4, <1>6, <1>7 DEF Shown
  <1>10. /\ Everything.shards[k].seen = top.seen /\ Everything.shards[k].probe = top.probe
         /\ Everything.shards[k].trend = Trend(top, MaxDays + 1)
    BY <1>3, <1>9
  <1> QED BY <1>3, <1>5, <1>7, <1>8, <1>10 DEF Resolved

\* The number every other of a set is below.
LEMMA MaxIs ==
  ASSUME NEW S \in SUBSET Nat, NEW m \in S, \A n \in S : n =< m
  PROVE  Max(S) = m
  <1>1. \A x \in S : (\A y \in S : x >= y) => x = m
    OBVIOUS
  <1>2. \A y \in S : m >= y
    OBVIOUS
  <1> QED BY <1>1, <1>2 DEF Max

LEMMA ScreensFromRows ==
  ASSUME HistoryInv
  PROVE  ShardScreensTrue
  <1>1. ShardsHold /\ replies \in Seq(SoundReplies)
    BY DEF HistoryInv
  <1>2. PICK B : B = LatestReplies(0, MaxDays + 1, branded)
    OBVIOUS
  <1>3. PICK E : E = Everything
    OBVIOUS
  <1>4. NewestShown
    <2> SUFFICES ASSUME NEW k \in E.reprobed, k \notin late, k \notin erased
                 PROVE  /\ E.shards[k].probe = Max(ProbesOf(k))
                        /\ E.shards[k].seen = probes[E.shards[k].probe].seen
      BY <1>3 DEF NewestShown
    <2>1. PICK top \in shardRows :
            /\ top.key = k /\ Resolved(top)
            /\ \A row \in shardRows : row.key = k => row.id =< top.id
            /\ E.shards[k].seen = top.seen /\ E.shards[k].probe = top.probe
      BY <1>3, ScorecardRow
    <2>2. /\ top.probe \in DOMAIN probes /\ probes[top.probe].key = k
          /\ probes[top.probe].seen = top.seen
      BY <1>1, <2>1 DEF ShardsHold, RowHolds
    <2>3. ProbesOf(k) \in SUBSET Nat /\ top.probe \in ProbesOf(k)
      BY <1>1, <2>2, ShardTypes DEF ProbesOf
    <2>4. ASSUME NEW p \in ProbesOf(k) PROVE p =< top.probe
      <3>1. p \in DOMAIN probes /\ probes[p].key = k
        BY DEF ProbesOf
      <3>2. PICK row \in shardRows : row.key = k /\ row.status = "ok" /\ row.probe = p
        BY <1>1, <3>1 DEF ShardsHold, OwnRows
      <3>3. Resolved(row)
        BY <1>1, <3>2 DEF ShardsHold, RowHolds
      <3>4. row.id =< top.id /\ row.id \in Nat /\ top.id \in Nat
        BY <1>1, <2>1, <3>2, ShardTypes
      <3>5. CASE row.id = top.id
        <4>1. row = top
          BY <1>1, <2>1, <3>2, <3>5 DEF ShardsHold, OneRow
        <4> QED BY <2>3, <3>2, <4>1
      <3>6. CASE row.id # top.id
        <4>1. row.id < top.id
          BY <3>4, <3>6
        <4> QED BY <1>1, <2>1, <3>2, <3>3, <4>1 DEF ShardsHold, InOrder
      <3> QED BY <3>5, <3>6
    <2>5. Max(ProbesOf(k)) = top.probe
      BY <2>3, <2>4, MaxIs
    <2> QED BY <2>1, <2>2, <2>5
  <1>5. TrendIsReal
    <2> SUFFICES ASSUME NEW k \in E.reprobed, k \notin erased
                 PROVE  LET s == E.shards[k]
                            earlier == {p \in ProbesOf(k) : p < s.probe}
                        IN  s.trend = IF earlier = {} THEN "none"
                              ELSE LET was == probes[Max(earlier)].seen = "you"
                                   IN  IF was = (s.seen = "you") THEN "steady"
                                       ELSE IF was THEN "lost" ELSE "won_back"
      BY <1>3 DEF TrendIsReal
    <2>1. PICK top \in shardRows :
            /\ top.key = k /\ Resolved(top)
            /\ E.shards[k].seen = top.seen /\ E.shards[k].probe = top.probe
            /\ E.shards[k].trend = Trend(top, MaxDays + 1)
      BY <1>3, ScorecardRow
    <2>2. PICK points : points = Points(k, MaxDays + 1)
      OBVIOUS
    <2>3. points = ProbesOf(k)
      <3>1. ASSUME NEW p \in points PROVE p \in ProbesOf(k)
        <4>1. PICK row \in shardRows : row.key = k /\ row.status = "ok" /\ row.probe = p
          BY <2>2 DEF Points
        <4>2. Resolved(row)
          BY <1>1, <4>1 DEF ShardsHold, RowHolds
        <4> QED BY <1>1, <4>1, <4>2 DEF ShardsHold, RowHolds, ProbesOf
      <3>2. ASSUME NEW p \in ProbesOf(k) PROVE p \in points
        <4>1. p \in DOMAIN probes /\ probes[p].key = k
          BY DEF ProbesOf
        <4>2. PICK row \in shardRows : row.key = k /\ row.status = "ok" /\ row.probe = p
          BY <1>1, <4>1 DEF ShardsHold, OwnRows
        <4>3. /\ probes[p].at =< today /\ probes[p].at \in Nat
              /\ today \in Nat /\ today =< MaxDays /\ MaxDays \in Nat
          BY <1>1, <4>1, ShardTypes DEF ShardsHold, ProbesInOrder
        <4>4. probes[p].at < MaxDays + 1
          BY <4>3
        <4> QED BY <2>2, <4>2, <4>4 DEF Points
      <3> QED BY <3>1, <3>2
    <2>4. top.probe \in points
      BY <1>1, <2>1, <2>3 DEF ShardsHold, RowHolds, ProbesOf
    <2>5. PICK before : before = {p \in points : p < top.probe}
      OBVIOUS
    <2>6. Trend(top, MaxDays + 1) =
            IF before = {} THEN "none"
            ELSE LET was == probes[Max(before)].seen = "you"
                     is == top.seen = "you"
                 IN  IF was = is THEN "steady" ELSE IF is THEN "won_back" ELSE "lost"
      <3>1. Points(top.key, MaxDays + 1) = points
        BY <2>1, <2>2
      <3> QED BY <2>4, <2>5, <3>1 DEF Trend
    <2>7. PICK last : last = probes[Max(before)].seen
      OBVIOUS
    <2>8. E.shards[k].trend = IF before = {} THEN "none"
            ELSE IF (last = "you") = (top.seen = "you") THEN "steady"
                 ELSE IF last = "you" THEN "lost" ELSE "won_back"
      BY <2>1, <2>6, <2>7
    <2>9. before = {p \in ProbesOf(k) : p < E.shards[k].probe}
      BY <2>1, <2>3, <2>5
    <2> QED BY <2>1, <2>7, <2>8, <2>9
  <1>6. ReplayAgrees
    <2> SUFFICES ASSUME NEW k \in E.reprobed, k \notin OutOfTurn
                 PROVE  FanoutReplay(0, MaxDays + 1)[k].probe = E.shards[k].probe
      BY <1>3 DEF ReplayAgrees
    <2>1. PICK top \in shardRows :
            /\ top.key = k /\ Resolved(top)
            /\ \A row \in shardRows : row.key = k => row.id =< top.id
            /\ E.shards[k].probe = top.probe
      BY <1>3, ScorecardRow
    <2>2. PICK mine : mine = {row \in shardRows : row.key = k /\ row.seen # "unchecked"}
      OBVIOUS
    <2>3. top \in mine
      BY <2>1, <2>2 DEF Resolved
    <2>4. ASSUME NEW row \in mine PROVE row.run =< top.run
      <3>1. /\ row \in shardRows /\ row.key = k /\ row.id =< top.id
            /\ row.id \in Nat /\ top.id \in Nat /\ row.run \in Nat /\ top.run \in Nat
        BY <1>1, <2>1, <2>2, ShardTypes
      <3>2. CASE row.id = top.id
        <4>1. row = top
          BY <1>1, <2>1, <3>1, <3>2 DEF ShardsHold, OneRow
        <4> QED BY <3>1, <4>1
      <3>3. CASE row.id # top.id
        <4>1. row.id < top.id
          BY <3>1, <3>3
        <4>2. ~(top.run < row.run)
          BY <2>1, <3>1, <4>1 DEF OutOfTurn
        <4> QED BY <3>1, <4>2
      <3> QED BY <3>2, <3>3
    <2>5. ASSUME NEW row \in mine, \A other \in mine : other.run =< row.run PROVE row = top
      <3>1. row \in shardRows /\ row.key = k /\ row.run \in Nat /\ top.run \in Nat
        BY <1>1, <2>1, <2>2, ShardTypes
      <3>2. row.run = top.run
        BY <2>3, <2>4, <2>5, <3>1
      <3> QED BY <1>1, <2>1, <3>1, <3>2 DEF ShardsHold, OneRow
    <2>6. (CHOOSE row \in mine : \A other \in mine : other.run =< row.run) = top
      BY <2>3, <2>4, <2>5
    <2>7. k \in ShardsOf(LatestReplies(0, MaxDays + 1, branded))
      BY <1>3, ScorecardRow
    <2>8. FanoutReplay(0, MaxDays + 1)[k] = [seen |-> top.seen, probe |-> top.probe]
      BY <2>2, <2>3, <2>6, <2>7 DEF FanoutReplay
    <2> QED BY <2>1, <2>8
  <1>7. CarriedAreFresh
    BY <1>1 DEF CarriedAreFresh, ShardsHold, RowHolds
  <1>8. EnginesAgree
    <2>1. PICK A : A = LatestReplies(0, MaxDays + 1, {})
      OBVIOUS
    <2>2. DOMAIN E.shards = ShardsOf(B) /\ E.engines = [k \in ShardsOf(B) |-> Issuers(k, B)]
      BY <1>2, <1>3 DEF Everything, FanoutScorecard
    <2>3. FanoutReport = [k \in ShardsOf(A) |-> Issuers(k, A)]
      BY <2>1 DEF FanoutReport
    <2>4. B \subseteq A
      BY <1>2, <2>1 DEF LatestReplies
    <2>5. \A i \in A, j \in A : /\ i \in DOMAIN replies
                                /\ \A k \in replies[i].subs : QuestionOf[k] = replies[i].q
      <3>1. \A i \in DOMAIN replies : replies[i] \in SoundReplies
        BY <1>1
      <3> QED BY <2>1, <3>1 DEF LatestReplies, SoundReplies
    <2>6. ASSUME NEW k \in ShardsOf(B), NEW i \in A, k \in replies[i].subs PROVE i \in B
      <3>1. PICK j \in B : k \in replies[j].subs
        BY DEF ShardsOf
      <3>2. replies[i].q = replies[j].q
        BY <2>4, <2>5, <2>6, <3>1
      <3>3. replies[i].q \notin branded
        BY <1>2, <3>1, <3>2 DEF LatestReplies
      <3> QED BY <1>2, <2>1, <2>6, <3>3 DEF LatestReplies
    <2>7. ASSUME NEW k \in ShardsOf(B) PROVE k \in ShardsOf(A) /\ Issuers(k, A) = Issuers(k, B)
      <3>1. k \in ShardsOf(A)
        BY <2>4 DEF ShardsOf
      <3>2. Issuers(k, A) = Issuers(k, B)
        BY <2>4, <2>6 DEF Issuers
      <3> QED BY <3>1, <3>2
    <2> QED BY <1>3, <2>2, <2>3, <2>7 DEF EnginesAgree
  <1> QED BY <1>4, <1>5, <1>6, <1>7, <1>8 DEF ShardScreensTrue

\* Whatever runs, failures, resumes, flags, days and second passes a tenant's
\* history holds, the fan-out screens (src/api/dashboards/fanout.py) show each
\* sub-search's latest re-probe, the engines that issued it, and a trend
\* against the re-probe before, for any shards, questions, surfaces and TTL.
THEOREM ShardScreensHold == HistorySpec => []ShardScreensTrue
  <1>1. HistoryInv => ShardScreensTrue
    BY ScreensFromRows
  <1> QED BY <1>1, ShardHistoryInvariant, PTL
=============================================================================
