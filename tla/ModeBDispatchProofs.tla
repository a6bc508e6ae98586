------------------------ MODULE ModeBDispatchProofs ------------------------
(* Theorems of ModeBDispatch for every work list, price, cap and threshold,  *)
(* and any number of kills and resumes: what the job books stays under the   *)
(* cap and what it hides from it is bounded, the breaker skips exactly the   *)
(* cells it should, and each cell is captured and counted once.              *)
EXTENDS ModeBDispatch, FiniteFacts, TLAPS

LEMMA Constants ==
  /\ Cap \in Nat /\ OtherSpend \in Nat /\ Threshold \in Nat \ {0}
  /\ ADone \in Nat /\ ACost \in Nat /\ MaxResumes \in Nat /\ MaxKills \in Nat
  /\ \A s \in Surfaces : Cost[s] \in Nat /\ Extra[s] \in Nat
  /\ \A i \in Items : SurfaceOf[i] \in Surfaces
  /\ IsFiniteSet(Surfaces) /\ Attempts \in Nat \ {0} /\ 0 \in 0 .. Attempts
BY ModeBAssumption

LEMMA OrderType ==
  ASSUME NEW o \in Orders
  PROVE  o \in Seq(Items) /\ \A m, n \in DOMAIN o : o[m] = o[n] => m = n
<1>1. Orders \subseteq Seq(Items) /\ IsInjective(o)
  BY ModeBAssumption
<1> QED
  BY <1>1 DEF IsInjective

-----------------------------------------------------------------------------
(* The cursor                                                                *)

LEMMA WorkType ==
  ASSUME TypeOK
  PROVE  /\ work \in Seq(Items) /\ Len(work) \in Nat /\ DOMAIN work = 1 .. Len(work)
         /\ \A n \in DOMAIN work : n \in Nat /\ work[n] \in Items
         /\ IsFiniteSet(DOMAIN work)
         /\ \A S \in SUBSET DOMAIN work : IsFiniteSet(S) /\ Cardinality(S) \in Nat
<1>1. work \in Seq(Items)
  <2>1. work \in Orders \/ work = <<>>
    BY DEF TypeOK
  <2>2. \A o \in Orders : o \in Seq(Items)
    BY OrderType
  <2>3. <<>> \in Seq(Items)
    OBVIOUS
  <2> QED
    BY <2>1, <2>2, <2>3
<1>2. Len(work) \in Nat /\ DOMAIN work = 1 .. Len(work)
  BY <1>1
<1>3. \A n \in DOMAIN work : n \in Nat /\ work[n] \in Items
  BY <1>1, <1>2
<1>4. IsFiniteSet(DOMAIN work)
  BY <1>2, FS_Interval
<1>5. \A S \in SUBSET DOMAIN work : IsFiniteSet(S) /\ Cardinality(S) \in Nat
  BY <1>4, FS_Subset, FS_CardinalityType
<1> QED
  BY <1>1, <1>2, <1>3, <1>4, <1>5

LEMMA PositionIsFirst ==
  ASSUME TypeOK, left # {}
  PROVE  /\ Position \in left /\ Position \in DOMAIN work /\ Position \in Nat
         /\ \A n \in left : Position <= n
         /\ Item \in Items /\ Surface \in Surfaces
         /\ Cost[Surface] \in Nat /\ Extra[Surface] \in Nat /\ fails[Surface] \in Nat
         /\ Cardinality(left) \in Nat /\ Cardinality(left \ {Position}) = Cardinality(left) - 1
<1>1. left \subseteq DOMAIN work
  BY DEF TypeOK
<1>2. IsFiniteSet(left) /\ Cardinality(left) \in Nat /\ \A n \in left : n \in Int
  BY <1>1, WorkType
<1>3. Position \in left /\ \A n \in left : Position <= n
  BY <1>2, MinBounds DEF Position
<1>4. Item \in Items
  BY <1>1, <1>3, WorkType DEF Item
<1>5. Surface \in Surfaces
  BY <1>4, ModeBAssumption DEF Surface
<1>6. Cost[Surface] \in Nat /\ Extra[Surface] \in Nat /\ fails[Surface] \in Nat
  BY <1>5, ModeBAssumption DEF TypeOK
<1>7. Cardinality(left \ {Position}) = Cardinality(left) - 1
  BY <1>2, <1>3, FS_RemoveElement
<1> QED
  BY <1>1, <1>2, <1>3, <1>4, <1>5, <1>6, <1>7, WorkType

\* A cell is on the list once; what has been recorded lies before what is left,
\* and what is neither left nor recorded was captured by an earlier attempt.
CursorWell ==
  /\ \A m, n \in DOMAIN work : work[m] = work[n] => m = n
  /\ \A n \in left : held[work[n]] = 0
  /\ \A n \in DOMAIN work, m \in left : outcome[work[n]] # "none" => n < m
  /\ \A n \in DOMAIN work : n \in left \/ held[work[n]] > 0 \/ outcome[work[n]] # "none"
  /\ \A i \in Items : held[i] <= 1
  /\ phase = "capture" => left # {}
  /\ phase = "closed" /\ ~counts.capped => left = {}
  /\ phase = "complete" /\ ~salvaged => left = {}

\* What the job has taken is booked, but for the capture in flight.
Booking ==
  /\ booked <= spent
  /\ phase \in {"loop", "closed"} => booked = spent
  /\ phase = "loop" => ~follow
  /\ phase = "capture" => spent = booked + Cost[Surface] /\ fails[Surface] < Threshold

CursorInv == TypeOK /\ CursorWell /\ Booking

LEMMA CursorInit == Init => CursorInv
<1> SUFFICES ASSUME Init PROVE CursorInv
  OBVIOUS
<1>1. DOMAIN work = {}
  BY DEF Init
<1>2. TypeOK
  <2>1. NoCounts \in Counts
    BY DEF NoCounts, Counts
  <2>2. <<>> \in Orders \cup {<<>>} /\ {} \in SUBSET DOMAIN work
    OBVIOUS
  <2>3. 0 \in 0 .. MaxResumes /\ 0 \in 0 .. MaxKills
    BY Constants
  <2> QED
    BY <2>1, <2>2, <2>3, Constants DEF Init, TypeOK
<1>3. CursorWell /\ Booking
  BY <1>1 DEF Init, CursorWell, Booking
<1> QED
  BY <1>2, <1>3 DEF CursorInv

-----------------------------------------------------------------------------
(* Steps and the cursor                                                      *)

LEMMA LoadFacts ==
  ASSUME TypeOK, NEW o \in Orders, Load(o)
  PROVE  LET todo == SkipDone(o) IN
         /\ o \in Seq(Items) /\ todo \in SUBSET DOMAIN o /\ Cardinality(todo) \in Nat
         /\ Len(o) - Cardinality(todo) \in Nat
         /\ \A m, n \in DOMAIN o : o[m] = o[n] => m = n
<1> DEFINE todo == SkipDone(o)
<1>1. o \in Seq(Items) /\ \A m, n \in DOMAIN o : o[m] = o[n] => m = n
  BY OrderType
<1>2. DOMAIN o = 1 .. Len(o) /\ Len(o) \in Nat
  BY <1>1
<1>3. IsFiniteSet(DOMAIN o) /\ Cardinality(DOMAIN o) = Len(o)
  <2>1. \A n \in Nat : IsFiniteSet(1 .. n) /\ Cardinality(1 .. n) = n
    BY FS_Interval
  <2> QED
    BY <1>2, <2>1
<1>4. todo \in SUBSET DOMAIN o
  BY DEF SkipDone
<1> HIDE DEF todo
<1>5. IsFiniteSet(todo) /\ Cardinality(todo) <= Len(o)
  BY <1>3, <1>4, FS_Subset
<1>6. Cardinality(todo) \in Nat
  BY <1>5, FS_CardinalityType
<1>7. Len(o) - Cardinality(todo) \in Nat
  BY <1>2, <1>5, <1>6
<1> QED
  BY <1>1, <1>4, <1>6, <1>7 DEF todo

\* What the steps do to the counters.
LEMMA CountsAdd ==
  ASSUME NEW c \in Counts, NEW k \in Nat, NEW l \in Nat
  PROVE  /\ [c EXCEPT !.planned = @ + k + l, !.completed = @ + k] \in Counts
         /\ [c EXCEPT !.completed = @ + 1] \in Counts
         /\ [c EXCEPT !.failed = @ + 1] \in Counts
         /\ [c EXCEPT !.blocked = @ + 1] \in Counts
         /\ [c EXCEPT !.withheld = @ + k, !.capped = TRUE] \in Counts
<1>1. /\ c.planned + k + l \in Nat /\ c.completed + k \in Nat /\ c.withheld + k \in Nat
      /\ c.completed + 1 \in Nat /\ c.failed + 1 \in Nat /\ c.blocked + 1 \in Nat
  BY DEF Counts
<1>2. [c EXCEPT !.planned = @ + k + l, !.completed = @ + k] \in Counts
  BY <1>1 DEF Counts
<1>3. [c EXCEPT !.completed = @ + 1] \in Counts
  BY <1>1 DEF Counts
<1>4. [c EXCEPT !.failed = @ + 1] \in Counts
  BY <1>1 DEF Counts
<1>5. [c EXCEPT !.blocked = @ + 1] \in Counts
  BY <1>1 DEF Counts
<1>6. [c EXCEPT !.withheld = @ + k, !.capped = TRUE] \in Counts
  BY <1>1 DEF Counts
<1> QED
  BY <1>2, <1>3, <1>4, <1>5, <1>6

LEMMA CursorLoad ==
  ASSUME CursorInv, NEW o \in Orders, Load(o)
  PROVE  CursorInv'
<1> DEFINE todo == SkipDone(o)
           already == Len(o) - Cardinality(todo)
<1>1. TypeOK /\ CursorWell
  BY DEF CursorInv
<1>2. /\ todo \in SUBSET DOMAIN o /\ Cardinality(todo) \in Nat /\ already \in Nat
      /\ \A m, n \in DOMAIN o : o[m] = o[n] => m = n
  BY <1>1, LoadFacts
<1>3. /\ phase' = "loop" /\ work' = o /\ left' = todo /\ follow' = FALSE
      /\ outcome' = [i \in Items |-> "none"] /\ fails' = [s \in Surfaces |-> 0]
      /\ tally' = [BaseCounts EXCEPT !.planned = @ + already + Cardinality(todo),
                                     !.completed = @ + already]
      /\ counts' = BaseCounts /\ month' = OtherSpend + runCost /\ spent' = 0 /\ booked' = 0
      /\ tries' = 0
      /\ UNCHANGED <<held, runCost, salvaged, billed, orphaned, retried, chained, resumes, kills>>
  BY DEF Load, history, bounds, row
<1>4. BaseCounts \in Counts
  <2>1. counts \in Counts
    BY <1>1 DEF TypeOK
  <2>2. AfterModeA \in Counts
    BY Constants DEF AfterModeA, NoCounts, Counts
  <2> QED
    BY <2>1, <2>2 DEF BaseCounts
<1>5. \A n \in DOMAIN o : n \in todo <=> held[o[n]] = 0
  BY DEF SkipDone
<1>6. \A n \in DOMAIN o : o[n] \in Items
  BY OrderType
<1> HIDE DEF todo, already
<1>7. tally' \in Counts
  BY <1>2, <1>3, <1>4, CountsAdd
<1>8. TypeOK'
  <2>1. work' \in Orders \cup {<<>>} /\ left' \in SUBSET DOMAIN work'
    BY <1>2, <1>3
  <2>2. /\ outcome' \in [Items -> Bad \cup {"none", "ok"}] /\ fails' \in [Surfaces -> Nat]
        /\ month' \in Nat
    <3>1. OtherSpend \in Nat /\ runCost \in Nat
      BY <1>1, Constants DEF TypeOK
    <3> QED
      BY <1>3, <3>1
  <2>3. tries' \in 0 .. Attempts
    BY <1>3, Constants
  <2> QED
    BY <1>1, <1>3, <1>4, <1>7, <2>1, <2>2, <2>3 DEF TypeOK
<1>9. CursorWell'
  <2>1. \A n \in DOMAIN o : outcome'[o[n]] = "none"
    BY <1>3, <1>6
  <2>2. \A n \in DOMAIN o : n \in todo \/ held[o[n]] > 0
    BY <1>1, <1>5, <1>6 DEF TypeOK
  <2> QED
    BY <1>1, <1>2, <1>3, <1>5, <2>1, <2>2 DEF CursorWell
<1>10. Booking'
  BY <1>3 DEF Booking
<1> QED
  BY <1>8, <1>9, <1>10 DEF CursorInv

\* The first cell left gets its record, and its answer if it brought one.
LEMMA CursorMoves ==
  ASSUME TypeOK, CursorWell, left # {}, NEW o \in Bad \cup {"ok"},
         outcome' = [outcome EXCEPT ![Item] = o],
         held' = IF o = "ok" THEN [held EXCEPT ![Item] = @ + 1] ELSE held,
         left' = left \ {Position}, work' = work, phase' = "loop"
  PROVE  CursorWell'
<1>1. /\ Position \in left /\ Position \in DOMAIN work /\ Item = work[Position] /\ Item \in Items
      /\ \A n \in left : Position <= n
      /\ left \in SUBSET DOMAIN work
  BY PositionIsFirst DEF Item, TypeOK
<1>2. /\ \A n \in DOMAIN work : n \in Nat /\ work[n] \in Items
      /\ \A i \in Items : held[i] \in Nat
  BY WorkType DEF TypeOK
<1>3. \A n \in DOMAIN work : n # Position => work[n] # Item
  BY <1>1 DEF CursorWell
<1>4. \A n \in DOMAIN work : n # Position =>
        outcome'[work[n]] = outcome[work[n]] /\ held'[work[n]] = held[work[n]]
  BY <1>1, <1>2, <1>3 DEF TypeOK
<1>5. /\ outcome'[Item] = o /\ o # "none" /\ held[Item] = 0 /\ held'[Item] <= 1
      /\ \A i \in Items : i # Item => held'[i] = held[i]
  BY <1>1, <1>2 DEF CursorWell, TypeOK, Bad
<1>6. \A m, n \in DOMAIN work : work[m] = work[n] => m = n
  BY DEF CursorWell
<1>7. \A n \in left' : held'[work[n]] = 0
  BY <1>1, <1>4 DEF CursorWell
<1>8. \A n \in DOMAIN work, m \in left' : outcome'[work[n]] # "none" => n < m
  <2> SUFFICES ASSUME NEW n \in DOMAIN work, NEW m \in left', outcome'[work[n]] # "none"
               PROVE  n < m
    OBVIOUS
  <2>1. m \in left /\ m # Position /\ m \in Nat /\ n \in Nat /\ Position <= m
    BY <1>1, <1>2
  <2>2. CASE n = Position
    BY <2>1, <2>2
  <2>3. CASE n # Position
    BY <1>4, <2>1, <2>3 DEF CursorWell
  <2> QED
    BY <2>2, <2>3
<1>9. \A n \in DOMAIN work : n \in left' \/ held'[work[n]] > 0 \/ outcome'[work[n]] # "none"
  BY <1>1, <1>4, <1>5 DEF CursorWell
<1>10. \A i \in Items : held'[i] <= 1
  BY <1>5 DEF CursorWell
<1> QED
  BY <1>6, <1>7, <1>8, <1>9, <1>10 DEF CursorWell

LEMMA CursorSkip ==
  ASSUME CursorInv, Skip
  PROVE  CursorInv'
<1>1. /\ phase = "loop" /\ left # {} /\ outcome' = [outcome EXCEPT ![Item] = "skipped"]
      /\ tally' = [tally EXCEPT !.failed = @ + 1] /\ counts' = tally'
      /\ left' = left \ {Position}
      /\ UNCHANGED <<phase, work, follow, tries, held, fails, runCost, month, spent, booked,
                     salvaged, billed, orphaned, retried, chained, resumes, kills>>
  BY DEF Skip, money, history, bounds
<1>2. TypeOK /\ CursorWell /\ Booking /\ "skipped" \in Bad
  BY DEF CursorInv, Bad
<1>3. CursorWell'
  BY <1>1, <1>2, CursorMoves
<1>4. TypeOK'
  <2>1. tally' \in Counts
    BY <1>1, <1>2, CountsAdd DEF TypeOK
  <2>2. outcome' \in [Items -> Bad \cup {"none", "ok"}]
    BY <1>1, <1>2 DEF TypeOK
  <2>3. left' \in SUBSET DOMAIN work'
    BY <1>1, <1>2 DEF TypeOK
  <2> QED
    BY <1>1, <1>2, <2>1, <2>2, <2>3 DEF TypeOK
<1>5. Booking'
  BY <1>1, <1>2 DEF Booking
<1> QED
  BY <1>3, <1>4, <1>5 DEF CursorInv

LEMMA CursorStart ==
  ASSUME CursorInv, StartCapture \/ SecondSearch \/ RetrySearch
  PROVE  CursorInv'
<1>1. TypeOK /\ CursorWell /\ Booking
  BY DEF CursorInv
<1>2. CASE StartCapture
  <2>1. /\ phase = "loop" /\ left # {} /\ ~Open /\ phase' = "capture" /\ tries' = 1
        /\ spent' = spent + Cost[Surface] /\ billed' = billed + Cost[Surface]
        /\ UNCHANGED <<work, left, follow, outcome, held, fails, tally, counts, runCost, month,
                       booked, salvaged, orphaned, retried, chained, resumes, kills>>
    BY <1>2 DEF StartCapture, record, row, bounds
  <2>2. /\ Cost[Surface] \in Nat /\ fails[Surface] \in Nat /\ Threshold \in Nat
        /\ 1 \in 0 .. Attempts
    BY <1>1, <2>1, PositionIsFirst, Constants
  <2>3. TypeOK'
    BY <1>1, <2>1, <2>2, SMTT(20) DEF TypeOK
  <2>4. CursorWell'
    BY <1>1, <2>1 DEF CursorWell
  <2>5. Surface' = Surface
    BY <2>1 DEF Surface, Item, Position
  <2>6. Booking'
    BY <1>1, <2>1, <2>2, <2>5 DEF Booking, Open, TypeOK
  <2> QED
    BY <2>3, <2>4, <2>6 DEF CursorInv
<1>3. CASE SecondSearch
  <2>1. /\ phase = "capture" /\ follow' = TRUE /\ tries' = 1 /\ billed' = billed + Extra[Surface]
        /\ UNCHANGED <<phase, work, left, outcome, held, fails, tally, counts, runCost, month,
                       spent, booked, salvaged, orphaned, retried, chained, resumes, kills>>
    BY <1>3 DEF SecondSearch, record, row, money, bounds
  <2>2. Extra[Surface] \in Nat /\ 1 \in 0 .. Attempts
    BY <1>1, <2>1, PositionIsFirst, Constants DEF CursorWell
  <2>3. TypeOK' /\ CursorWell'
    BY <1>1, <2>1, <2>2 DEF TypeOK, CursorWell
  <2>4. Surface' = Surface
    BY <2>1 DEF Surface, Item, Position
  <2>5. Booking'
    BY <1>1, <2>1, <2>4 DEF Booking
  <2> QED
    BY <2>3, <2>5 DEF CursorInv
<1>4. CASE RetrySearch
  <2>1. PICK bill \in {0, Price} :
          /\ phase = "capture" /\ tries < Attempts /\ tries' = tries + 1
          /\ billed' = billed + bill /\ retried' = retried + bill
          /\ UNCHANGED <<phase, work, left, follow, outcome, held, fails, tally, counts, runCost,
                         month, spent, booked, salvaged, orphaned, chained, resumes, kills>>
    BY <1>4 DEF RetrySearch, record, row, money, bounds
  <2>2. bill \in Nat
    <3>1. Extra[Surface] \in Nat /\ Cost[Surface] \in Nat
      BY <1>1, <2>1, PositionIsFirst DEF CursorWell
    <3> QED
      BY <3>1 DEF Price
  <2>3. tries' \in 0 .. Attempts
    BY <1>1, <2>1, Constants DEF TypeOK
  <2>4. TypeOK' /\ CursorWell'
    BY <1>1, <2>1, <2>2, <2>3 DEF TypeOK, CursorWell
  <2>5. Surface' = Surface
    BY <2>1 DEF Surface, Item, Position
  <2>6. Booking'
    BY <1>1, <2>1, <2>5 DEF Booking
  <2> QED
    BY <2>4, <2>6 DEF CursorInv
<1> QED
  BY <1>2, <1>3, <1>4

\* What a capture that ends books.
Total(o) == IF o = "ok" /\ follow THEN spent + Extra[Surface] ELSE spent

LEMMA EndFacts ==
  ASSUME CursorInv, NEW o \in {"ok", "blocked", "error"}, EndCapture(o)
  PROVE  /\ phase = "capture" /\ left # {} /\ phase' = "loop"
         /\ outcome' = [outcome EXCEPT ![Item] = o]
         /\ held' = IF o = "ok" THEN [held EXCEPT ![Item] = @ + 1] ELSE held
         /\ fails' = [fails EXCEPT ![Surface] = Failed(o)]
         /\ tally' = Counted(o) /\ counts' = tally'
         /\ runCost' = runCost + Total(o) - booked
         /\ spent' = Total(o) /\ booked' = Total(o)
         /\ left' = left \ {Position} /\ follow' = FALSE /\ tries' = 0
         /\ orphaned' = IF o # "ok" /\ follow THEN orphaned + Extra[Surface] ELSE orphaned
         /\ UNCHANGED <<work, month, salvaged, billed, retried, chained, resumes, kills>>
         /\ Total(o) \in Nat /\ Total(o) >= booked /\ runCost' \in Nat
         /\ Extra[Surface] \in Nat /\ Cost[Surface] \in Nat
<1>1. /\ phase = "capture" /\ phase' = "loop" /\ Save(o)
      /\ left' = left \ {Position} /\ follow' = FALSE /\ tries' = 0
      /\ orphaned' = IF o # "ok" /\ follow THEN orphaned + Extra[Surface] ELSE orphaned
      /\ UNCHANGED <<work, month, salvaged, billed, retried, chained, resumes, kills>>
  BY DEF EndCapture, bounds
<1>2. TypeOK /\ Booking /\ left # {}
  BY <1>1 DEF CursorInv, CursorWell
<1>3. /\ outcome' = [outcome EXCEPT ![Item] = o]
      /\ held' = IF o = "ok" THEN [held EXCEPT ![Item] = @ + 1] ELSE held
      /\ fails' = [fails EXCEPT ![Surface] = Failed(o)]
      /\ tally' = Counted(o) /\ counts' = tally'
      /\ runCost' = runCost + Total(o) - booked
      /\ spent' = Total(o) /\ booked' = Total(o)
  BY <1>1 DEF Save, Total
<1>4. /\ Extra[Surface] \in Nat /\ Cost[Surface] \in Nat
      /\ spent \in Nat /\ booked \in Nat /\ runCost \in Nat /\ booked <= spent
  BY <1>2, PositionIsFirst DEF TypeOK, Booking
<1>5. Total(o) \in Nat /\ Total(o) >= booked
  BY <1>4 DEF Total
<1>6. runCost' \in Nat
  BY <1>3, <1>4, <1>5
<1> QED
  BY <1>1, <1>2, <1>3, <1>4, <1>5, <1>6

LEMMA CursorEnd ==
  ASSUME CursorInv, NEW o \in {"ok", "blocked", "error"}, EndCapture(o)
  PROVE  CursorInv'
<1>1. TypeOK /\ CursorWell /\ o \in Bad \cup {"ok"}
  BY DEF CursorInv, Bad
<1>2. CursorWell'
  BY <1>1, EndFacts, CursorMoves
<1>3. TypeOK'
  <2>1. tally' \in Counts
    <3>1. tally \in Counts /\ tally' = Counted(o)
      BY <1>1, EndFacts DEF TypeOK
    <3> QED
      BY <3>1, CountsAdd DEF Counted
  <2>2. fails' \in [Surfaces -> Nat]
    <3>1. Surface \in Surfaces /\ fails[Surface] \in Nat
      BY <1>1, EndFacts, PositionIsFirst
    <3>2. Failed(o) \in Nat
      BY <3>1 DEF Failed
    <3> QED
      BY <1>1, <3>1, <3>2, EndFacts, ZenonT(30) DEF TypeOK
  <2>3. Item \in Items /\ left # {}
    BY <1>1, EndFacts, PositionIsFirst
  <2>4. outcome' \in [Items -> Bad \cup {"none", "ok"}] /\ held' \in [Items -> Nat]
    <3>1. /\ outcome' = [outcome EXCEPT ![Item] = o]
          /\ held' = IF o = "ok" THEN [held EXCEPT ![Item] = @ + 1] ELSE held
      BY EndFacts
    <3>2. outcome \in [Items -> Bad \cup {"none", "ok"}] /\ held \in [Items -> Nat]
      BY <1>1 DEF TypeOK
    <3> QED
      BY <1>1, <2>3, <3>1, <3>2
  <2>5. left' \in SUBSET DOMAIN work' /\ orphaned' \in Nat
    <3>1. left' = left \ {Position} /\ work' = work /\ Extra[Surface] \in Nat
      BY EndFacts
    <3>2. orphaned' = IF o # "ok" /\ follow THEN orphaned + Extra[Surface] ELSE orphaned
      BY EndFacts
    <3>3. left \in SUBSET DOMAIN work /\ orphaned \in Nat
      BY <1>1 DEF TypeOK
    <3> QED
      BY <3>1, <3>2, <3>3
  <2>6. /\ phase' = "loop" /\ follow' = FALSE /\ tries' = 0 /\ counts' = tally'
        /\ spent' \in Nat /\ booked' \in Nat /\ runCost' \in Nat
        /\ UNCHANGED <<work, month, salvaged, billed, retried, chained, resumes, kills>>
    BY EndFacts
  <2>7. tries' \in 0 .. Attempts
    BY <2>6, Constants
  <2> QED
    BY <1>1, <2>1, <2>2, <2>4, <2>5, <2>6, <2>7 DEF TypeOK
<1>4. Booking'
  <2>1. phase' = "loop" /\ booked' = spent' /\ follow' = FALSE /\ spent' \in Nat
    BY EndFacts
  <2> QED
    BY <2>1 DEF Booking
<1> QED
  BY <1>2, <1>3, <1>4 DEF CursorInv

LEMMA CursorClose ==
  ASSUME CursorInv, CloseDispatch
  PROVE  CursorInv'
<1>1. /\ phase = "loop" /\ phase' = "closed"
      /\ tally' = IF left = {} THEN tally
                  ELSE [tally EXCEPT !.withheld = @ + Cardinality(left), !.capped = TRUE]
      /\ counts' = tally' /\ runCost' = runCost + spent - booked /\ booked' = spent
      /\ UNCHANGED <<work, left, follow, tries, outcome, held, fails, month, spent, salvaged,
                     billed, orphaned, retried, chained, resumes, kills>>
  BY DEF CloseDispatch, cursor, record, history, bounds
<1>2. TypeOK /\ CursorWell /\ Booking
  BY DEF CursorInv
<1>3. tally' \in Counts
  <2>1. tally \in Counts /\ Cardinality(left) \in Nat
    BY <1>2, WorkType DEF TypeOK
  <2> QED
    BY <1>1, <2>1, CountsAdd
<1>4. TypeOK'
  BY <1>1, <1>2, <1>3 DEF TypeOK, Booking
<1>5. ~counts'.capped => left = {}
  <2>1. tally \in Counts
    BY <1>2 DEF TypeOK
  <2> QED
    BY <1>1, <2>1 DEF Counts
<1>6. CursorWell' /\ Booking'
  BY <1>1, <1>2, <1>5 DEF CursorWell, Booking, TypeOK
<1> QED
  BY <1>4, <1>6 DEF CursorInv

LEMMA CursorEnds ==
  ASSUME CursorInv, Finalize \/ Raise \/ Kill \/ Resume \/ UNCHANGED vars
  PROVE  CursorInv'
<1>1. UNCHANGED <<work, left, follow, tries, outcome, held, fails, tally, counts, runCost, month,
                  spent, booked, billed, orphaned, retried, chained>>
  BY DEF Finalize, Raise, Kill, Resume, vars, cursor, record, row, money, history, bounds
<1>2. TypeOK /\ CursorWell /\ Booking
  BY DEF CursorInv
<1>3. Verdict \in Ended /\ (Verdict = "complete" => ~counts.capped)
  BY DEF Verdict, Ended
<1>4. \/ UNCHANGED <<phase, salvaged>>
      \/ phase' = "pending"
      \/ phase = "closed" /\ phase' = Verdict /\ UNCHANGED salvaged
      \/ phase' \in Ended /\ (salvaged' \/ phase' = "failed")
  BY <1>3 DEF Finalize, Raise, Kill, Resume, vars, Ended
<1>5. salvaged' \in BOOLEAN /\ resumes' \in 0 .. MaxResumes /\ kills' \in 0 .. MaxKills
  <2>1. MaxResumes \in Nat /\ MaxKills \in Nat
    BY Constants
  <2>2. salvaged \in BOOLEAN /\ resumes \in 0 .. MaxResumes /\ kills \in 0 .. MaxKills
    BY <1>2 DEF TypeOK
  <2>3. salvaged' \in BOOLEAN
    BY <2>2 DEF Finalize, Raise, Kill, Resume, vars
  <2>4. /\ resumes' = resumes \/ (resumes < MaxResumes /\ resumes' = resumes + 1)
        /\ kills' = kills \/ (kills < MaxKills /\ kills' = kills + 1)
    BY DEF Finalize, Raise, Kill, Resume, vars, bounds
  <2> QED
    BY <2>1, <2>2, <2>3, <2>4
<1>6. TypeOK'
  BY <1>1, <1>2, <1>3, <1>4, <1>5 DEF TypeOK, Ended
<1>7. CursorWell'
  BY <1>1, <1>2, <1>3, <1>4 DEF CursorWell, Ended
<1>8. Booking'
  <2>1. phase' = phase \/ phase' \notin {"loop", "capture", "closed"}
    BY <1>3, <1>4 DEF Ended
  <2>2. Surface' = Surface
    BY <1>1 DEF Surface, Item, Position
  <2> QED
    BY <1>1, <1>2, <2>1, <2>2 DEF Booking
<1> QED
  BY <1>6, <1>7, <1>8 DEF CursorInv

LEMMA CursorStep == CursorInv /\ [Next]_vars => CursorInv'
  BY CursorLoad, CursorSkip, CursorStart, CursorEnd, CursorClose, CursorEnds DEF Next, Job

-----------------------------------------------------------------------------
(* Every cell is captured once and counted once                              *)

Recorded(c) == c.completed + c.failed + c.blocked + c.withheld

\* What the counters say: in the loop the planned cells are the recorded ones
\* and those left, and at the end of the loop the recorded ones.
CountsWell ==
  /\ phase = "pending" /\ resumes = 0 => counts = NoCounts
  /\ chained \/ resumes = 0 =>
       /\ phase \in {"loop", "capture"} => tally.planned = Recorded(tally) + Cardinality(left)
       /\ phase = "closed" => counts.planned = Recorded(counts)
       /\ phase \in {"complete", "capped"} /\ ~salvaged => counts.planned = Recorded(counts)

\* The counters at the start of a job, and when cells are withheld.
Started(c, k, l) == [c EXCEPT !.planned = @ + k + l, !.completed = @ + k]
Withheld(c, k) == [c EXCEPT !.withheld = @ + k, !.capped = TRUE]

LEMMA RecordedType ==
  ASSUME NEW c \in Counts
  PROVE  Recorded(c) \in Nat /\ c.planned \in Nat
BY DEF Recorded, Counts

LEMMA RecordedStart ==
  ASSUME NEW c \in Counts, NEW k \in Nat, NEW l \in Nat, NEW d, d = Started(c, k, l)
  PROVE  d.planned = c.planned + k + l /\ Recorded(d) = Recorded(c) + k
<1>1. /\ d.planned = c.planned + k + l /\ d.completed = c.completed + k
      /\ d.failed = c.failed /\ d.blocked = c.blocked /\ d.withheld = c.withheld
  BY DEF Counts, Started
<1>2. c.completed \in Nat /\ c.failed \in Nat /\ c.blocked \in Nat /\ c.withheld \in Nat
  BY DEF Counts
<1> QED
  BY <1>1, <1>2 DEF Recorded

LEMMA RecordedOne ==
  ASSUME NEW c \in Counts, NEW d,
         \/ d = [c EXCEPT !.completed = @ + 1]
         \/ d = [c EXCEPT !.failed = @ + 1]
         \/ d = [c EXCEPT !.blocked = @ + 1]
  PROVE  d.planned = c.planned /\ Recorded(d) = Recorded(c) + 1
<1>1. /\ d.planned = c.planned /\ d.withheld = c.withheld
      /\ \/ d.completed = c.completed + 1 /\ d.failed = c.failed /\ d.blocked = c.blocked
         \/ d.completed = c.completed /\ d.failed = c.failed + 1 /\ d.blocked = c.blocked
         \/ d.completed = c.completed /\ d.failed = c.failed /\ d.blocked = c.blocked + 1
  BY DEF Counts
<1>2. c.completed \in Nat /\ c.failed \in Nat /\ c.blocked \in Nat /\ c.withheld \in Nat
  BY DEF Counts
<1> QED
  BY <1>1, <1>2 DEF Recorded

LEMMA RecordedWithheld ==
  ASSUME NEW c \in Counts, NEW k \in Nat, NEW d, d = Withheld(c, k)
  PROVE  d.planned = c.planned /\ Recorded(d) = Recorded(c) + k
<1>1. /\ d.planned = c.planned /\ d.withheld = c.withheld + k
      /\ d.completed = c.completed /\ d.failed = c.failed /\ d.blocked = c.blocked
  BY DEF Counts, Withheld
<1>2. c.completed \in Nat /\ c.failed \in Nat /\ c.blocked \in Nat /\ c.withheld \in Nat
  BY DEF Counts
<1> QED
  BY <1>1, <1>2 DEF Recorded

\* The counters a job may start from add up.
LEMMA RecordedAtFirst ==
  /\ NoCounts \in Counts /\ NoCounts.planned = Recorded(NoCounts)
  /\ AfterModeA \in Counts /\ AfterModeA.planned = Recorded(AfterModeA)
<1>1. NoCounts \in Counts /\ NoCounts.planned = Recorded(NoCounts)
  BY DEF NoCounts, Counts, Recorded
<1>2. /\ NoCounts.failed = 0 /\ NoCounts.blocked = 0 /\ NoCounts.withheld = 0
  BY DEF NoCounts
<1>3. AfterModeA \in Counts
  BY <1>1, Constants DEF AfterModeA, Counts
<1>4. AfterModeA.planned = Recorded(AfterModeA)
  <2>1. /\ AfterModeA.planned = ADone /\ AfterModeA.completed = ADone
        /\ AfterModeA.failed = 0 /\ AfterModeA.blocked = 0 /\ AfterModeA.withheld = 0
    BY <1>1, <1>2 DEF AfterModeA, Counts
  <2> QED
    BY <2>1, Constants DEF Recorded
<1> QED
  BY <1>1, <1>3, <1>4

LEMMA CountsLoad ==
  ASSUME CursorInv, CountsWell, NEW o \in Orders, Load(o)
  PROVE  CountsWell'
<1> DEFINE todo == SkipDone(o)
           already == Len(o) - Cardinality(todo)
<1>1. TypeOK
  BY DEF CursorInv
<1>2. Cardinality(todo) \in Nat /\ already \in Nat
  BY <1>1, LoadFacts
<1>3. /\ phase = "pending" /\ phase' = "loop" /\ left' = todo
      /\ tally' = [BaseCounts EXCEPT !.planned = @ + already + Cardinality(todo),
                                     !.completed = @ + already]
      /\ UNCHANGED <<chained, resumes>>
  BY DEF Load, bounds
<1> HIDE DEF todo, already
<1>4. SUFFICES ASSUME chained \/ resumes = 0
               PROVE  tally'.planned = Recorded(tally') + Cardinality(left')
  BY <1>3 DEF CountsWell
<1>5. BaseCounts \in Counts /\ BaseCounts.planned = Recorded(BaseCounts)
  <2>1. CASE chained
    BY <2>1, RecordedAtFirst DEF BaseCounts
  <2>2. CASE ~chained
    <3>1. BaseCounts = NoCounts
      BY <1>3, <1>4, <2>2 DEF BaseCounts, CountsWell
    <3> QED
      BY <3>1, RecordedAtFirst
  <2> QED
    BY <2>1, <2>2
<1>6. /\ tally'.planned = BaseCounts.planned + already + Cardinality(todo)
      /\ Recorded(tally') = Recorded(BaseCounts) + already
  <2>1. tally' = Started(BaseCounts, already, Cardinality(todo))
    BY <1>3 DEF Started
  <2> QED
    BY <1>2, <1>5, <2>1, RecordedStart
<1>7. Recorded(BaseCounts) \in Nat
  BY <1>5, RecordedType
<1> QED
  BY <1>2, <1>3, <1>5, <1>6, <1>7

LEMMA CountsMove ==
  ASSUME CursorInv, CountsWell,
         Skip \/ \E o \in {"ok", "blocked", "error"} : EndCapture(o)
  PROVE  CountsWell'
<1>1. TypeOK /\ CursorWell /\ tally \in Counts
  BY DEF CursorInv, TypeOK
<1>2. /\ phase \in {"loop", "capture"} /\ left # {} /\ phase' = "loop"
      /\ left' = left \ {Position} /\ UNCHANGED <<chained, resumes>>
      /\ \/ tally' = [tally EXCEPT !.completed = @ + 1]
         \/ tally' = [tally EXCEPT !.failed = @ + 1]
         \/ tally' = [tally EXCEPT !.blocked = @ + 1]
  <2>1. CASE Skip
    BY <2>1 DEF Skip, bounds
  <2>2. CASE \E o \in {"ok", "blocked", "error"} : EndCapture(o)
    <3>1. PICK o \in {"ok", "blocked", "error"} : EndCapture(o)
      BY <2>2
    <3>2. /\ phase = "capture" /\ left # {} /\ phase' = "loop" /\ tally' = Counted(o)
          /\ left' = left \ {Position} /\ UNCHANGED <<chained, resumes>>
      BY <3>1, EndFacts
    <3> QED
      BY <3>2 DEF Counted
  <2> QED
    BY <2>1, <2>2
<1>3. tally'.planned = tally.planned /\ Recorded(tally') = Recorded(tally) + 1
  BY <1>1, <1>2, RecordedOne
<1>4. Cardinality(left') = Cardinality(left) - 1 /\ Cardinality(left) \in Nat
  BY <1>1, <1>2, PositionIsFirst
<1>5. Recorded(tally) \in Nat
  BY <1>1, RecordedType
<1> QED
  BY <1>2, <1>3, <1>4, <1>5 DEF CountsWell

LEMMA CountsClose ==
  ASSUME CursorInv, CountsWell, CloseDispatch
  PROVE  CountsWell'
<1>1. /\ phase = "loop" /\ phase' = "closed"
      /\ tally' = IF left = {} THEN tally
                  ELSE [tally EXCEPT !.withheld = @ + Cardinality(left), !.capped = TRUE]
      /\ counts' = tally' /\ UNCHANGED <<chained, resumes>>
  BY DEF CloseDispatch, bounds
<1>2. tally \in Counts /\ Cardinality(left) \in Nat /\ (left = {} => Cardinality(left) = 0)
  <2>1. TypeOK
    BY DEF CursorInv
  <2> QED
    BY <2>1, WorkType, FS_EmptySet DEF TypeOK
<1>3. Recorded(tally) \in Nat
  BY <1>2, RecordedType
<1>4. tally'.planned = tally.planned /\ Recorded(tally') = Recorded(tally) + Cardinality(left)
  <2>1. left # {} => tally' = Withheld(tally, Cardinality(left))
    BY <1>1 DEF Withheld
  <2> QED
    BY <1>1, <1>2, <1>3, <2>1, RecordedWithheld
<1> QED
  BY <1>1, <1>4 DEF CountsWell

LEMMA CountsStep == CursorInv /\ CountsWell /\ [Next]_vars => CountsWell'
<1> SUFFICES ASSUME CursorInv, CountsWell, [Next]_vars PROVE CountsWell'
  OBVIOUS
<1>1. CASE \E o \in Orders : Load(o)
  BY <1>1, CountsLoad
<1>2. CASE Skip \/ \E o \in {"ok", "blocked", "error"} : EndCapture(o)
  BY <1>2, CountsMove
<1>3. CASE StartCapture \/ SecondSearch \/ RetrySearch
  <2>1. /\ phase \in {"loop", "capture"} /\ phase' \in {"capture"}
        /\ UNCHANGED <<left, tally, chained, resumes>>
    BY <1>3 DEF StartCapture, SecondSearch, RetrySearch, bounds
  <2> QED
    BY <2>1 DEF CountsWell, Recorded
<1>4. CASE CloseDispatch
  BY <1>4, CountsClose
<1>5. CASE Finalize
  <2>1. phase = "closed" /\ phase' \in Ended /\ UNCHANGED <<left, tally, counts, chained, resumes>>
    BY <1>5 DEF Finalize, cursor, row, bounds, Verdict, Ended
  <2> QED
    BY <2>1 DEF CountsWell, Recorded, Ended
<1>6. CASE Raise
  BY <1>6 DEF Raise, CountsWell, Verdict
<1>7. CASE Kill
  BY <1>7 DEF Kill, CountsWell
<1>8. CASE Resume
  <2>1. resumes' # 0 /\ phase' = "pending"
    BY <1>8 DEF Resume, CursorInv, TypeOK
  <2> QED
    BY <2>1 DEF CountsWell
<1>9. CASE UNCHANGED vars
  BY <1>9 DEF vars, cursor, row, bounds, CountsWell, Recorded
<1> QED
  BY <1>1, <1>2, <1>3, <1>4, <1>5, <1>6, <1>7, <1>8, <1>9 DEF Next, Job

LEMMA CellsOnce == CursorInv /\ CountsWell => EachCellOnce
<1> SUFFICES ASSUME CursorInv, CountsWell PROVE EachCellOnce
  OBVIOUS
<1>1. TypeOK /\ CursorWell
  BY DEF CursorInv
<1>2. CapturedOnce
  BY <1>1 DEF CursorWell, CapturedOnce
<1>3. CountsAddUp
  BY DEF CountsWell, CountsAddUp, Recorded
<1>4. NothingMissed
  <2> SUFFICES ASSUME phase = "complete", ~salvaged, NEW i \in Range(work)
               PROVE  held[i] > 0 \/ outcome[i] # "none"
    BY DEF NothingMissed
  <2>1. PICK n \in DOMAIN work : i = work[n]
    BY DEF Range
  <2> QED
    BY <1>1, <2>1 DEF CursorWell
<1> QED
  BY <1>1, <1>2, <1>3, <1>4 DEF EachCellOnce

\* Whatever the work lists, the kills and the resumes: no cell is captured
\* twice, an attempt that can be trusted to add up does, and a run shown
\* complete without an error has a record of every cell of its work.
THEOREM CellsCapturedOnce == Spec => []EachCellOnce
<1>1. Init => CursorInv /\ CountsWell
  <2>1. Init => CountsWell
    BY DEF Init, CountsWell
  <2> QED
    BY <2>1, CursorInit
<1>2. (CursorInv /\ CountsWell) /\ [Next]_vars => (CursorInv /\ CountsWell)'
  BY CursorStep, CountsStep
<1>3. CursorInv /\ CountsWell => EachCellOnce
  BY CellsOnce
<1> QED
  BY <1>1, <1>2, <1>3, PTL DEF Spec

-----------------------------------------------------------------------------
(* Spend: what is booked stays under the cap, what is not stays bounded      *)

LEMMA WorstBounds ==
  Worst \in Nat /\ \A s \in Surfaces : Cost[s] + Extra[s] <= Worst
<1> DEFINE price == [s \in Surfaces |-> Cost[s] + Extra[s]]
           Prices == {Cost[s] + Extra[s] : s \in Surfaces}
           P == Prices \cup {0}
<1>1. \A s \in Surfaces : Cost[s] + Extra[s] \in Nat
  BY Constants
<1>2. \A n \in P : n \in Int /\ n >= 0
  BY <1>1
<1>3. price \in Surjection(Surfaces, Prices)
  BY Fun_IsSurj
<1>4. IsFiniteSet(Prices)
  BY <1>3, Constants, FS_Surjection
<1>5. IsFiniteSet(P)
  BY <1>4, FS_AddElement
<1>6. Worst = Max(P)
  BY DEF Worst
<1>7. P # {}
  OBVIOUS
<1>8. \A s \in Surfaces : Cost[s] + Extra[s] \in P
  OBVIOUS
<1> HIDE DEF P, Prices, price
<1>9. Max(P) \in P /\ \A n \in P : n <= Max(P)
  BY <1>2, <1>5, <1>7, MaxBounds
<1> QED
  BY <1>2, <1>6, <1>8, <1>9

Hidden == billed + (IF chained THEN ACost ELSE 0) - runCost - orphaned - retried
InFlight == Cost[Surface] + (IF follow THEN Extra[Surface] ELSE 0)

\* Each attempt hides at most the capture it was interrupted in.
HiddenWell ==
  /\ phase \in {"pending", "loop", "closed"} => Hidden <= resumes * Worst
  /\ phase = "capture" => Hidden <= resumes * Worst + InFlight
  /\ Hidden <= resumes * Worst + Worst

\* The retries billed so far, and those the search in flight may still send,
\* cost at most Attempts - 1 times what the searches themselves do.
Searches == billed - retried
RetriesWell ==
  /\ Searches \in Nat
  /\ retried <= (Attempts - 1) * Searches
  /\ phase = "capture" =>
       /\ tries \in 1 .. Attempts
       /\ retried + (Attempts - tries) * Price <= (Attempts - 1) * Searches

SpendInv == BookedUnderCap /\ HiddenWell /\ RetriesWell

\* A search more, by the price it is sent at.
LEMMA SearchSent ==
  ASSUME NEW m \in Nat, NEW n \in Nat, NEW price \in Nat, NEW k \in Nat, m <= k * n
  PROVE  m + k * price <= k * (n + price) /\ k * price \in Nat /\ k * (n + price) \in Int
<1>1. k * (n + price) = k * n + k * price
  OBVIOUS
<1>2. k * n \in Nat /\ k * price \in Nat
  OBVIOUS
<1> QED
  BY <1>1, <1>2

LEMMA HiddenType ==
  ASSUME TypeOK
  PROVE  Hidden \in Int /\ resumes * Worst \in Nat /\ resumes \in Nat
<1>1. billed \in Nat /\ runCost \in Nat /\ orphaned \in Nat /\ retried \in Nat /\ ACost \in Nat
  BY Constants DEF TypeOK
<1>2. resumes \in Nat
  BY Constants DEF TypeOK
<1>3. Hidden \in Int
  BY <1>1 DEF Hidden
<1>4. \A a, b \in Nat : a * b \in Nat
  OBVIOUS
<1> QED
  BY <1>2, <1>3, <1>4, WorstBounds

LEMMA SpendInit == Init => SpendInv
<1> SUFFICES ASSUME Init PROVE SpendInv
  OBVIOUS
<1>1. Hidden = 0 /\ phase = "pending" /\ resumes = 0
  BY Constants DEF Init, Hidden
<1>2. resumes * Worst = 0
  BY <1>1, WorstBounds
<1>3. RetriesWell
  <2>1. (Attempts - 1) * 0 = 0
    BY Constants
  <2> QED
    BY <1>1, <2>1 DEF Init, RetriesWell, Searches
<1> QED
  BY <1>1, <1>2, <1>3, WorstBounds DEF SpendInv, BookedUnderCap, HiddenWell

\* A search's first request leaves it its retries.
LEMMA FirstSent ==
  ASSUME TypeOK, RetriesWell, NEW price \in Nat, Price' = price, tries' = 1,
         billed' = billed + price, retried' = retried
  PROVE  RetriesWell'
<1>1. PICK n \in Nat, k \in Nat : n = Searches /\ k = Attempts - 1
  BY Constants DEF RetriesWell
<1>2. retried \in Nat /\ billed \in Nat /\ Attempts \in Nat \ {0}
  BY Constants DEF TypeOK
<1>3. Searches' = n + price /\ retried' = retried /\ Attempts - tries' = k
  BY <1>1, <1>2 DEF Searches
<1>4. retried <= k * n
  BY <1>1 DEF RetriesWell
<1>5. retried + k * price <= k * (n + price) /\ k * price \in Nat /\ k * (n + price) \in Int
  BY <1>2, <1>4, SearchSent
<1>6. /\ Searches' \in Nat /\ 1 \in 1 .. Attempts /\ retried <= k * (n + price)
  BY <1>1, <1>2, <1>3, <1>5
<1> QED
  BY <1>1, <1>3, <1>5, <1>6 DEF RetriesWell

\* A capture starts when its cost and its second search fit under the cap.
LEMMA SpendStart ==
  ASSUME CursorInv, SpendInv, StartCapture
  PROVE  SpendInv'
<1>1. /\ phase = "loop" /\ left # {} /\ Fits /\ phase' = "capture" /\ tries' = 1
      /\ spent' = spent + Cost[Surface] /\ billed' = billed + Cost[Surface]
      /\ UNCHANGED <<chained, work, left, follow, month, runCost, orphaned, retried, resumes>>
  BY DEF StartCapture, row, bounds
<1>2. TypeOK /\ ~follow
  BY <1>1 DEF CursorInv, Booking
<1>3. /\ Cost[Surface] \in Nat /\ Extra[Surface] \in Nat /\ Cost[Surface] + Extra[Surface] <= Worst
  BY <1>1, <1>2, PositionIsFirst, WorstBounds
<1>4. Surface' = Surface
  BY <1>1 DEF Surface, Item, Position
<1>5. BookedUnderCap'
  <2>1. PICK cost \in Nat, extra \in Nat : cost = Cost[Surface] /\ extra = Extra[Surface]
    BY <1>3
  <2>2. /\ phase' = "capture" /\ month' = month /\ spent' = spent + cost
        /\ Extra[Surface]' = extra /\ month + spent + cost + extra =< Cap
    BY <1>1, <1>4, <2>1 DEF Fits
  <2>3. month \in Nat /\ spent \in Nat /\ Cap \in Int
    BY <1>2, Constants DEF TypeOK
  <2>4. month' + spent' + extra =< MaxOf(Cap, month)
    BY <2>2, <2>3 DEF MaxOf
  <2> QED
    BY <2>2, <2>4 DEF BookedUnderCap, MaxOf
<1>6. Hidden' = Hidden + Cost[Surface] /\ InFlight' = Cost[Surface]
  <2>1. billed \in Nat /\ runCost \in Nat /\ orphaned \in Nat /\ retried \in Nat /\ ACost \in Nat
    BY <1>2, Constants DEF TypeOK
  <2>2. Hidden' = Hidden + Cost[Surface]
    BY <1>1, <1>3, <2>1 DEF Hidden
  <2>3. InFlight' = Cost[Surface]
    BY <1>1, <1>2, <1>3, <1>4 DEF InFlight
  <2> QED
    BY <2>2, <2>3
<1>7. Hidden <= resumes * Worst /\ (resumes * Worst)' = resumes * Worst
  BY <1>1 DEF SpendInv, HiddenWell
<1>8. HiddenWell'
  BY <1>1, <1>2, <1>3, <1>6, <1>7, HiddenType, WorstBounds DEF HiddenWell
<1>9. RetriesWell'
  <2>1. Price' = Cost[Surface]
    BY <1>1, <1>2, <1>4 DEF Price
  <2> QED
    BY <1>1, <1>2, <1>3, <2>1, FirstSent DEF SpendInv
<1> QED
  BY <1>5, <1>8, <1>9 DEF SpendInv

LEMMA SpendSecond ==
  ASSUME CursorInv, SpendInv, SecondSearch
  PROVE  SpendInv'
<1>1. /\ phase = "capture" /\ ~follow /\ follow' = TRUE /\ tries' = 1
      /\ billed' = billed + Extra[Surface]
      /\ UNCHANGED <<phase, chained, work, left, spent, month, runCost, orphaned, retried, resumes>>
  BY DEF SecondSearch, row, money, bounds
<1>2. TypeOK /\ left # {}
  BY <1>1 DEF CursorInv, CursorWell
<1>3. /\ Cost[Surface] \in Nat /\ Extra[Surface] \in Nat /\ Cost[Surface] + Extra[Surface] <= Worst
  BY <1>2, PositionIsFirst, WorstBounds
<1>4. Surface' = Surface
  BY <1>1 DEF Surface, Item, Position
<1>5. BookedUnderCap'
  BY <1>1, <1>4 DEF SpendInv, BookedUnderCap, MaxOf
<1>6. Hidden' = Hidden + Extra[Surface] /\ InFlight' = InFlight + Extra[Surface]
      /\ InFlight = Cost[Surface]
  BY <1>1, <1>2, <1>3, <1>4, Constants DEF Hidden, InFlight, TypeOK
<1>7. Hidden <= resumes * Worst + InFlight /\ (resumes * Worst)' = resumes * Worst
  BY <1>1 DEF SpendInv, HiddenWell
<1>8. HiddenWell'
  BY <1>1, <1>2, <1>3, <1>6, <1>7, HiddenType, WorstBounds DEF HiddenWell
<1>9. RetriesWell'
  <2>1. Price' = Extra[Surface]
    BY <1>1, <1>4 DEF Price
  <2> QED
    BY <1>1, <1>2, <1>3, <2>1, FirstSent DEF SpendInv
<1> QED
  BY <1>5, <1>8, <1>9 DEF SpendInv

\* A request sent again hides its price, and one retry less is left.
LEMMA SpendRetry ==
  ASSUME CursorInv, SpendInv, RetrySearch
  PROVE  SpendInv'
<1>1. PICK bill \in {0, Price} :
        /\ phase = "capture" /\ tries < Attempts /\ tries' = tries + 1
        /\ billed' = billed + bill /\ retried' = retried + bill
        /\ UNCHANGED <<phase, chained, work, left, follow, spent, month, runCost, orphaned, resumes>>
  BY DEF RetrySearch, row, money, bounds
<1>2. TypeOK /\ left # {} /\ RetriesWell
  BY <1>1 DEF CursorInv, CursorWell, SpendInv
<1>3. Cost[Surface] \in Nat /\ Extra[Surface] \in Nat
  BY <1>2, PositionIsFirst
<1>4. Surface' = Surface
  BY <1>1 DEF Surface, Item, Position
<1>5. PICK price \in Nat : price = Price
  BY <1>3 DEF Price
<1>6. Price' = price
  BY <1>1, <1>4, <1>5 DEF Price
<1>7. billed \in Nat /\ retried \in Nat /\ Attempts \in Nat /\ tries \in 1 .. Attempts
  BY <1>1, <1>2, Constants DEF TypeOK, RetriesWell
<1>8. BookedUnderCap'
  BY <1>1, <1>4 DEF SpendInv, BookedUnderCap, MaxOf
<1>9. HiddenWell'
  <2>1. Hidden' = Hidden /\ InFlight' = InFlight
    <3>1. InFlight' = InFlight
      BY <1>1, <1>4 DEF InFlight
    <3>2. bill \in Nat /\ runCost \in Nat /\ orphaned \in Nat /\ ACost \in Nat
      BY <1>2, <1>5, Constants DEF TypeOK
    <3> QED
      BY <1>1, <1>7, <3>1, <3>2 DEF Hidden
  <2> QED
    BY <1>1, <2>1 DEF SpendInv, HiddenWell
<1>10. RetriesWell'
  <2>1. PICK r \in Nat, b \in Nat : r = Attempts - tries' /\ b = bill /\ b <= price
    BY <1>1, <1>5, <1>7
  <2>2. Attempts - tries = r + 1
    BY <1>1, <1>7, <2>1
  <2>3. (r + 1) * price = r * price + price /\ r * price \in Nat
    OBVIOUS
  <2>4. retried' = retried + b /\ Searches' = Searches /\ tries' \in 1 .. Attempts
    BY <1>1, <1>7, <2>1 DEF Searches
  <2>5. PICK most \in Int : most = (Attempts - 1) * Searches
    <3>1. PICK k \in Int, n \in Int : k = Attempts - 1 /\ n = Searches
      BY <1>2, <1>7 DEF RetriesWell
    <3>2. k * n \in Int
      OBVIOUS
    <3> QED
      BY <3>1, <3>2
  <2>6. retried + (r + 1) * price <= most
    BY <1>1, <1>2, <1>5, <2>2, <2>5 DEF RetriesWell
  <2>7. retried + b + r * price <= most /\ retried + b <= most
    BY <1>7, <2>1, <2>3, <2>6
  <2> QED
    BY <1>2, <1>6, <2>1, <2>4, <2>5, <2>7 DEF RetriesWell
<1> QED
  BY <1>8, <1>9, <1>10 DEF SpendInv

\* The capture that ends is in the books, but for a second search it lost.
LEMMA SpendEnd ==
  ASSUME CursorInv, SpendInv, NEW o \in {"ok", "blocked", "error"}, EndCapture(o)
  PROVE  SpendInv'
<1>1. /\ phase = "capture" /\ left # {} /\ phase' = "loop"
      /\ runCost' = runCost + Total(o) - booked /\ spent' = Total(o)
      /\ orphaned' = IF o # "ok" /\ follow THEN orphaned + Extra[Surface] ELSE orphaned
      /\ UNCHANGED <<month, billed, retried, chained, resumes>>
      /\ Extra[Surface] \in Nat /\ Cost[Surface] \in Nat
  BY EndFacts
<1>2. TypeOK /\ spent = booked + Cost[Surface]
  BY <1>1 DEF CursorInv, Booking
<1>3. Total(o) = IF o = "ok" /\ follow THEN spent + Extra[Surface] ELSE spent
  BY DEF Total
<1>4. BookedUnderCap'
  <2>1. month + spent + Extra[Surface] <= MaxOf(Cap, month)
    BY <1>1 DEF SpendInv, BookedUnderCap
  <2>2. month \in Nat /\ spent \in Nat /\ MaxOf(Cap, month) \in Nat
    BY <1>2, Constants DEF TypeOK, MaxOf
  <2>3. month' + spent' <= MaxOf(Cap, month)
    BY <1>1, <1>3, <2>1, <2>2
  <2>4. MaxOf(Cap, month)' = MaxOf(Cap, month)
    BY <1>1 DEF MaxOf
  <2>5. month' + spent' + 0 = month' + spent'
    BY <1>1, <1>3, <2>2
  <2> QED
    BY <1>1, <2>3, <2>4, <2>5 DEF BookedUnderCap
<1>5. Hidden' = Hidden - InFlight
  <2>1. /\ billed \in Nat /\ runCost \in Nat /\ orphaned \in Nat /\ ACost \in Nat
        /\ retried \in Nat /\ spent \in Nat /\ booked \in Nat /\ follow \in BOOLEAN
    BY <1>2, Constants DEF TypeOK
  <2>2. runCost' + orphaned' = runCost + orphaned + InFlight
    BY <1>1, <1>2, <1>3, <2>1 DEF InFlight
  <2>3. runCost' \in Int /\ orphaned' \in Int /\ InFlight \in Int
    BY <1>1, <1>3, <2>1 DEF InFlight
  <2> QED
    BY <1>1, <2>1, <2>2, <2>3 DEF Hidden
<1>6. Hidden <= resumes * Worst + InFlight /\ (resumes * Worst)' = resumes * Worst
  BY <1>1 DEF SpendInv, HiddenWell
<1>7. InFlight \in Nat
  BY <1>1, <1>2 DEF InFlight, TypeOK
<1>8. HiddenWell'
  BY <1>1, <1>2, <1>5, <1>6, <1>7, HiddenType, WorstBounds DEF HiddenWell
<1>9. RetriesWell'
  BY <1>1 DEF SpendInv, RetriesWell, Searches
<1> QED
  BY <1>4, <1>8, <1>9 DEF SpendInv

LEMMA SpendRest ==
  ASSUME CursorInv, SpendInv,
         \/ \E o \in Orders : Load(o)
         \/ Skip \/ CloseDispatch \/ Finalize \/ Raise \/ Kill \/ Resume \/ UNCHANGED vars
  PROVE  SpendInv'
<1>1. TypeOK /\ Booking
  BY DEF CursorInv
<1>2. /\ UNCHANGED <<billed, orphaned, retried, chained>>
      /\ \/ runCost' = runCost
         \/ phase = "loop" /\ runCost' = runCost + spent - booked
  <2>1. CASE \E o \in Orders : Load(o)
    BY <2>1 DEF Load, history, bounds, row
  <2>2. CASE Skip \/ CloseDispatch
    BY <2>2 DEF Skip, CloseDispatch, history, bounds, row
  <2>3. CASE Finalize \/ Raise \/ Kill \/ Resume \/ UNCHANGED vars
    BY <2>3 DEF Finalize, Raise, Kill, Resume, vars, history, bounds, row
  <2> QED
    BY <2>1, <2>2, <2>3
<1>3. runCost' = runCost /\ Hidden' = Hidden
  <2>1. phase = "loop" => spent = booked
    BY <1>1 DEF Booking
  <2>2. runCost' = runCost
    BY <1>1, <1>2, <2>1 DEF TypeOK
  <2> QED
    BY <1>2, <2>2 DEF Hidden
<1>4. BookedUnderCap'
  <2>1. CASE \E o \in Orders : Load(o)
    <3>1. phase' = "loop" /\ spent' = 0 /\ month' \in Nat
      <4>1. phase' = "loop" /\ spent' = 0 /\ month' = OtherSpend + runCost
        BY <2>1 DEF Load
      <4> QED
        BY <1>1, <4>1, Constants DEF TypeOK
    <3>2. PICK m \in Nat : m = month'
      BY <3>1
    <3>3. PICK s : s = spent'
      OBVIOUS
    <3>4. Cap \in Nat
      BY Constants
    <3>5. m <= MaxOf(Cap, m)
      BY <3>4 DEF MaxOf
    <3>6. s = 0 /\ phase' # "capture"
      BY <3>1, <3>3
    <3>7. m + s + 0 <= MaxOf(Cap, m)
      BY <3>5, <3>6
    <3>8. (IF phase' = "capture" THEN Extra[Surface'] ELSE 0) = 0
      BY <3>6
    <3> QED
      BY <3>2, <3>3, <3>7, <3>8 DEF BookedUnderCap
  <2>2. CASE phase' \in {"loop", "capture"} /\ UNCHANGED <<phase, month, spent>>
    <3>1. phase = "capture" => Surface' = Surface
      BY <2>2 DEF Skip, CloseDispatch, Finalize, Raise, Kill, Resume, Load, vars, cursor,
                  Surface, Item, Position
    <3> QED
      BY <2>2, <3>1 DEF SpendInv, BookedUnderCap, MaxOf
  <2>3. CASE phase' \notin {"loop", "capture"}
    BY <2>3 DEF BookedUnderCap
  <2>4. Verdict \notin {"loop", "capture"}
    BY DEF Verdict
  <2> QED
    BY <2>1, <2>2, <2>3, <2>4
       DEF Skip, CloseDispatch, Finalize, Raise, Kill, Resume, vars, money
<1>5. HiddenWell'
  <2>1. CASE Resume
    <3>1. resumes' = resumes + 1 /\ phase' = "pending" /\ resumes \in Nat /\ Worst \in Nat
      BY <1>1, <2>1, HiddenType, WorstBounds DEF Resume
    <3>2. \A a, b \in Nat : (a + 1) * b = a * b + b /\ a * b \in Nat
      OBVIOUS
    <3>3. (resumes * Worst)' = resumes * Worst + Worst
      BY <3>1, <3>2
    <3>4. Hidden <= resumes * Worst + Worst /\ Hidden \in Int /\ resumes * Worst \in Nat
      BY <1>1, HiddenType DEF SpendInv, HiddenWell
    <3> QED
      BY <1>3, <3>1, <3>3, <3>4 DEF HiddenWell
  <2>2. CASE UNCHANGED resumes /\ phase' \notin {"pending", "loop", "capture", "closed"}
    BY <1>3, <2>2 DEF SpendInv, HiddenWell
  <2>3. CASE UNCHANGED resumes /\ phase \in {"pending", "loop"} /\ phase' \in {"loop", "closed"}
    BY <1>3, <2>3 DEF SpendInv, HiddenWell
  <2>4. CASE UNCHANGED vars
    BY <1>3, <2>4 DEF vars, cursor, bounds, SpendInv, HiddenWell, InFlight, Surface, Item, Position
  <2>5. Verdict \in Ended
    BY DEF Verdict, Ended
  <2> QED
    BY <2>1, <2>2, <2>3, <2>4, <2>5
       DEF Load, Skip, CloseDispatch, Finalize, Raise, Kill, bounds, Ended
<1>6. RetriesWell'
  <2>1. CASE UNCHANGED vars
    BY <1>2, <2>1 DEF vars, cursor, SpendInv, RetriesWell, Searches, Price, Surface, Item, Position
  <2>2. CASE phase' # "capture"
    BY <1>2, <2>2 DEF SpendInv, RetriesWell, Searches
  <2>3. Verdict # "capture"
    BY DEF Verdict
  <2> QED
    BY <2>1, <2>2, <2>3 DEF Load, Skip, CloseDispatch, Finalize, Raise, Kill, Resume
<1> QED
  BY <1>4, <1>5, <1>6 DEF SpendInv

LEMMA SpendStep == CursorInv /\ SpendInv /\ [Next]_vars => SpendInv'
  BY SpendStart, SpendSecond, SpendRetry, SpendEnd, SpendRest DEF Next, Job

\* For every price, cap and work list: what a run books keeps the month under
\* its cap, and what is hidden from the cap is at most the dearest capture of
\* each interrupted attempt, the second searches of captures that raised, and
\* the retries of searches, Attempts - 1 of each at most.
THEOREM SpendHolds == Spec => []SpendBounded
<1>1. Init => CursorInv /\ SpendInv
  BY CursorInit, SpendInit
<1>2. (CursorInv /\ SpendInv) /\ [Next]_vars => (CursorInv /\ SpendInv)'
  BY CursorStep, SpendStep
<1>3. CursorInv /\ SpendInv => SpendBounded
  <2> SUFFICES ASSUME CursorInv, SpendInv PROVE SpendBounded
    OBVIOUS
  <2>1. TypeOK /\ Hidden <= resumes * Worst + Worst
    BY DEF CursorInv, SpendInv, HiddenWell
  <2>2. /\ billed \in Nat /\ runCost \in Nat /\ orphaned \in Nat /\ resumes \in Nat
        /\ retried \in Nat
        /\ (IF chained THEN ACost ELSE 0) \in Nat /\ Worst \in Nat
    BY <2>1, Constants, WorstBounds DEF TypeOK
  <2>3. \A a, b \in Nat : (a + 1) * b = a * b + b /\ a * b \in Nat
    OBVIOUS
  <2>4. (resumes + 1) * Worst = resumes * Worst + Worst /\ resumes * Worst \in Nat
    BY <2>2, <2>3
  <2>5. HiddenSpendBounded
    BY <2>1, <2>2, <2>4 DEF HiddenSpendBounded, Hidden, SpendInv, RetriesWell, Searches
  <2> QED
    BY <2>5 DEF SpendBounded, SpendInv
<1> QED
  BY <1>1, <1>2, <1>3, PTL DEF Spec

-----------------------------------------------------------------------------
(* The circuit breaker                                                       *)

\* The cells of a surface tried since its last answer.
Streak(s) == {m \in Tried(s) : \A k \in Tried(s) : m <= k => outcome[work[k]] \in Bad}

\* The counter is the length of that streak, up to the threshold: cells that
\* are skipped lengthen the streak and leave the counter.
StreakWell ==
  phase \in {"loop", "capture"} =>
    \A s \in Surfaces :
      IF fails[s] < Threshold THEN Cardinality(Streak(s)) = fails[s]
      ELSE Cardinality(Streak(s)) >= Threshold

BreakerInv == BreakerExact /\ StreakWell

\* What the first cell left adds when its record is written: nothing to the
\* cells before it, and itself to the streak of its surface.
LEMMA StreakMoves ==
  ASSUME TypeOK, CursorWell, left # {}, NEW o \in Bad \cup {"ok"},
         outcome' = [outcome EXCEPT ![Item] = o], work' = work,
         NEW t, t = Surface, NEW p, p = Position
  PROVE  /\ p \in Tried(t)' /\ p \notin Tried(t) /\ outcome'[work'[p]] = o
         /\ \A s \in Surfaces : \A n \in Tried(s)' : n \in Tried(s) \/ (s = t /\ n = p)
         /\ \A s \in Surfaces : \A n \in Tried(s) :
              InVain(s, n)' = InVain(s, n) /\ outcome'[work'[n]] = outcome[work[n]]
         /\ InVain(t, p)' = Streak(t)
         /\ \A s \in Surfaces \ {t} : Streak(s)' = Streak(s)
         /\ Streak(t)' = IF o \in Bad THEN Streak(t) \cup {p} ELSE {}
<1>1. /\ p \in left /\ p \in DOMAIN work /\ p \in Nat /\ work[p] = Item /\ Item \in Items
      /\ SurfaceOf[work[p]] = t
  BY PositionIsFirst DEF Item, Surface
<1>2. \A n \in DOMAIN work : n \in Nat /\ work[n] \in Items
  BY WorkType
<1>3. o # "none" /\ outcome'[work[p]] = o
  BY <1>1 DEF TypeOK, Bad
<1>4. \A n \in DOMAIN work : n # p => outcome'[work[n]] = outcome[work[n]]
  <2>1. \A n \in DOMAIN work : n # p => work[n] # Item
    BY <1>1 DEF CursorWell
  <2> QED
    BY <1>2, <2>1 DEF TypeOK
<1>5. \A n \in DOMAIN work : outcome[work[n]] # "none" => n < p
  BY <1>1 DEF CursorWell
<1>6. outcome[work[p]] = "none"
  BY <1>1, <1>5
<1>7. \A s : \A n : /\ n \in Tried(s) => n \in DOMAIN work /\ n \in Nat /\ n < p /\ n # p
                  /\ n \in Tried(s)' <=> n \in Tried(s) \/ (s = t /\ n = p)
  BY <1>1, <1>2, <1>3, <1>4, <1>5, <1>6 DEF Tried
<1>8. \A s : \A n \in Tried(s) : InVain(s, n)' = InVain(s, n)
  <2> SUFFICES ASSUME NEW s, NEW n \in Tried(s) PROVE InVain(s, n)' = InVain(s, n)
    OBVIOUS
  <2>1. n < p /\ n \in Nat
    BY <1>7
  <2>2. \A m : m \in Tried(s)' /\ m < n <=> m \in Tried(s) /\ m < n
    BY <1>1, <1>7, <2>1
  <2>3. \A m : m \in Tried(s) => outcome'[work'[m]] = outcome[work[m]]
    BY <1>4, <1>7
  <2> HIDE DEF Tried
  <2>4. InVain(s, n)' =
          {m \in Tried(s)' : m < n /\ \A k \in Tried(s)' : m <= k /\ k < n => outcome'[work'[k]] \in Bad}
    BY DEF InVain, Bad
  <2>5. \A m : m \in InVain(s, n)' <=> m \in InVain(s, n)
    BY <2>2, <2>3, <2>4 DEF InVain
  <2> QED
    BY <2>4, <2>5 DEF InVain
<1>9. InVain(t, p)' = Streak(t)
  <2>1. InVain(t, p)' =
          {m \in Tried(t)' : m < p /\ \A k \in Tried(t)' : m <= k /\ k < p => outcome'[work'[k]] \in Bad}
    BY DEF InVain, Bad
  <2>2. \A m : m \in Tried(t)' /\ m < p <=> m \in Tried(t)
    BY <1>1, <1>7
  <2>3. \A m : m \in Tried(t) => outcome'[work'[m]] = outcome[work[m]]
    BY <1>4, <1>7
  <2>4. \A m : m \in InVain(t, p)' <=> m \in Streak(t)
    BY <2>1, <2>2, <2>3 DEF Streak
  <2> QED
    BY <2>1, <2>4 DEF Streak
<1>10. \A s : Streak(s)' = {m \in Tried(s)' : \A k \in Tried(s)' : m <= k => outcome'[work'[k]] \in Bad}
  BY DEF Streak, Bad
<1>11. \A s : s # t => Streak(s)' = Streak(s)
  <2> SUFFICES ASSUME NEW s, s # t PROVE Streak(s)' = Streak(s)
    OBVIOUS
  <2>1. \A m : m \in Tried(s)' <=> m \in Tried(s)
    BY <1>7
  <2>2. \A m : m \in Tried(s) => outcome'[work'[m]] = outcome[work[m]]
    BY <1>4, <1>7
  <2> QED
    BY <1>10, <2>1, <2>2 DEF Streak
<1>12. Streak(t)' = IF o \in Bad THEN Streak(t) \cup {p} ELSE {}
  <2>1. \A m : m \in Tried(t)' <=> m \in Tried(t) \/ m = p
    BY <1>7
  <2>2. \A m : m \in Tried(t) => outcome'[work'[m]] = outcome[work[m]] /\ m <= p /\ ~(p <= m)
    BY <1>1, <1>4, <1>7
  <2>3. outcome'[work'[p]] = o /\ p <= p
    BY <1>1, <1>3
  <2>4. \A m : m \in Streak(t)' <=> o \in Bad /\ (m \in Streak(t) \/ m = p)
    BY <1>10, <2>1, <2>2, <2>3 DEF Streak
  <2> QED
    BY <1>10, <2>4 DEF Streak
<1> QED
  BY <1>3, <1>4, <1>7, <1>8, <1>9, <1>11, <1>12

LEMMA StreakSize ==
  ASSUME TypeOK, NEW s
  PROVE  IsFiniteSet(Streak(s)) /\ Cardinality(Streak(s)) \in Nat
<1>1. Streak(s) \in SUBSET DOMAIN work
  BY DEF Streak, Tried
<1> QED
  BY <1>1, WorkType

\* Writing the record of the first cell left keeps the breaker exact.
LEMMA BreakerMoves ==
  ASSUME CursorInv, BreakerInv, left # {}, NEW o \in Bad \cup {"ok"},
         phase \in {"loop", "capture"},
         outcome' = [outcome EXCEPT ![Item] = o], work' = work,
         o = "skipped" <=> fails[Surface] >= Threshold,
         fails' = [fails EXCEPT ![Surface] =
                     IF o = "skipped" THEN @ ELSE IF o = "ok" THEN 0 ELSE @ + 1]
  PROVE  BreakerInv'
<1>1. TypeOK /\ CursorWell
  BY DEF CursorInv
<1>2. PICK t \in Surfaces : t = Surface
  BY <1>1, PositionIsFirst
<1>3. PICK p : p = Position
  OBVIOUS
<1>4. fails[t] \in Nat /\ Threshold \in Nat /\ Threshold > 0
  BY <1>1, <1>2, PositionIsFirst, Constants
<1>5. /\ p \in Tried(t)' /\ p \notin Tried(t) /\ outcome'[work'[p]] = o
      /\ \A s \in Surfaces : \A n \in Tried(s)' : n \in Tried(s) \/ (s = t /\ n = p)
      /\ \A s \in Surfaces : \A n \in Tried(s) :
           InVain(s, n)' = InVain(s, n) /\ outcome'[work'[n]] = outcome[work[n]]
      /\ InVain(t, p)' = Streak(t)
      /\ \A s \in Surfaces \ {t} : Streak(s)' = Streak(s)
      /\ Streak(t)' = IF o \in Bad THEN Streak(t) \cup {p} ELSE {}
  BY <1>1, <1>2, <1>3, StreakMoves
<1>6. /\ IsFiniteSet(Streak(t)) /\ Cardinality(Streak(t)) \in Nat
      /\ IF fails[t] < Threshold THEN Cardinality(Streak(t)) = fails[t]
         ELSE Cardinality(Streak(t)) >= Threshold
  BY <1>1, <1>2, StreakSize DEF BreakerInv, StreakWell
<1>7. BreakerExact'
  <2> SUFFICES ASSUME NEW s \in Surfaces, NEW n \in Tried(s)'
               PROVE  outcome'[work'[n]] = "skipped" <=> Cardinality(InVain(s, n)') >= Threshold
    BY DEF BreakerExact
  <2>1. CASE n \in Tried(s)
    BY <1>5, <2>1 DEF BreakerInv, BreakerExact
  <2>2. CASE s = t /\ n = p
    <3>1. Cardinality(InVain(s, n)') = Cardinality(Streak(t))
      BY <1>5, <2>2
    <3>2. o = "skipped" <=> Cardinality(Streak(t)) >= Threshold
      BY <1>2, <1>4, <1>6
    <3> QED
      BY <1>5, <2>2, <3>1, <3>2
  <2> QED
    BY <1>5, <2>1, <2>2
<1>8. fails' \in [Surfaces -> Nat] /\ \A s \in Surfaces \ {t} : fails'[s] = fails[s]
  BY <1>1, <1>2, <1>4 DEF TypeOK
<1>9. IF fails'[t] < Threshold THEN Cardinality(Streak(t)') = fails'[t]
      ELSE Cardinality(Streak(t)') >= Threshold
  <2>1. p \notin Streak(t)
    BY <1>5 DEF Streak
  <2>2. Cardinality(Streak(t) \cup {p}) = Cardinality(Streak(t)) + 1
    BY <1>6, <2>1, FS_AddElement
  <2>3. Cardinality({}) = 0
    BY FS_EmptySet
  <2>4. fails'[t] = IF o = "skipped" THEN fails[t] ELSE IF o = "ok" THEN 0 ELSE fails[t] + 1
    BY <1>1, <1>2 DEF TypeOK
  <2>5. CASE o = "ok"
    BY <1>4, <1>5, <2>3, <2>4, <2>5 DEF Bad
  <2>6. CASE o = "skipped"
    <3>1. fails[t] >= Threshold /\ fails'[t] = fails[t] /\ Streak(t)' = Streak(t) \cup {p}
      BY <1>2, <1>5, <2>4, <2>6 DEF Bad
    <3> QED
      BY <1>4, <1>6, <2>2, <3>1
  <2>7. CASE o \in {"blocked", "error"}
    <3>1. /\ ~(fails[t] >= Threshold) /\ fails'[t] = fails[t] + 1
          /\ Streak(t)' = Streak(t) \cup {p}
      BY <1>2, <1>5, <2>4, <2>7 DEF Bad
    <3> QED
      BY <1>4, <1>6, <2>2, <3>1
  <2> QED
    BY <2>5, <2>6, <2>7 DEF Bad
<1>10. StreakWell'
  <2>1. \A s \in Surfaces \ {t} :
          IF fails'[s] < Threshold THEN Cardinality(Streak(s)') = fails'[s]
          ELSE Cardinality(Streak(s)') >= Threshold
    BY <1>5, <1>8 DEF BreakerInv, StreakWell
  <2>2. \A s \in Surfaces :
          IF fails'[s] < Threshold THEN Cardinality(Streak(s)') = fails'[s]
          ELSE Cardinality(Streak(s)') >= Threshold
    BY <1>9, <2>1
  <2> QED
    BY <2>2 DEF StreakWell
<1> QED
  BY <1>7, <1>10 DEF BreakerInv

\* No other step touches what the breaker is judged by.
LEMMA BreakerStays ==
  ASSUME BreakerInv, UNCHANGED <<work, outcome>>,
         phase' \in {"loop", "capture"} => phase \in {"loop", "capture"} /\ UNCHANGED fails
  PROVE  BreakerInv'
<1>1. \A s : Tried(s)' = Tried(s) /\ Streak(s)' = Streak(s)
  BY DEF Tried, Streak, Bad
<1>2. \A s, n : InVain(s, n)' = InVain(s, n)
  BY DEF Tried, InVain, Bad
<1>3. BreakerExact'
  BY <1>1, <1>2 DEF BreakerInv, BreakerExact
<1>4. StreakWell'
  BY <1>1 DEF BreakerInv, StreakWell
<1> QED
  BY <1>3, <1>4 DEF BreakerInv

LEMMA BreakerLoad ==
  ASSUME CursorInv, NEW o \in Orders, Load(o)
  PROVE  BreakerInv'
<1>1. /\ work' = o /\ outcome' = [i \in Items |-> "none"]
      /\ fails' = [s \in Surfaces |-> 0]
  BY DEF Load
<1>2. \A n \in DOMAIN o : o[n] \in Items
  BY OrderType
<1>3. \A s : Tried(s)' = {}
  BY <1>1, <1>2 DEF Tried
<1>4. \A s : Streak(s)' = {}
  BY <1>3 DEF Streak
<1>5. BreakerExact'
  BY <1>3 DEF BreakerExact
<1>6. StreakWell'
  <2>1. \A s \in Surfaces : fails'[s] = 0 /\ Cardinality(Streak(s)') = 0
    BY <1>1, <1>4, FS_EmptySet
  <2> QED
    BY <2>1, Constants DEF StreakWell
<1> QED
  BY <1>5, <1>6 DEF BreakerInv

LEMMA BreakerStep == CursorInv /\ BreakerInv /\ [Next]_vars => BreakerInv'
<1> SUFFICES ASSUME CursorInv, BreakerInv, [Next]_vars PROVE BreakerInv'
  OBVIOUS
<1>1. TypeOK /\ Booking /\ CursorWell
  BY DEF CursorInv
<1>2. CASE \E o \in Orders : Load(o)
  BY <1>2, BreakerLoad
<1>3. CASE Skip
  <2>1. /\ phase = "loop" /\ left # {} /\ fails[Surface] >= Threshold /\ work' = work
        /\ outcome' = [outcome EXCEPT ![Item] = "skipped"] /\ fails' = fails
    BY <1>3 DEF Skip, Open
  <2>2. fails' = [fails EXCEPT ![Surface] = fails[Surface]]
    BY <1>1, <2>1, PositionIsFirst DEF TypeOK
  <2>3. "skipped" \in Bad
    BY DEF Bad
  <2> QED
    BY <2>1, <2>2, <2>3, BreakerMoves
<1>4. ASSUME NEW o \in {"ok", "blocked", "error"}, EndCapture(o)
      PROVE  BreakerInv'
  <2>1. /\ phase = "capture" /\ left # {} /\ work' = work
        /\ outcome' = [outcome EXCEPT ![Item] = o] /\ fails' = [fails EXCEPT ![Surface] = Failed(o)]
    BY <1>4, EndFacts
  <2>2. fails[Surface] < Threshold /\ fails[Surface] \in Nat /\ Threshold \in Nat
    BY <1>1, <2>1, PositionIsFirst, Constants DEF Booking
  <2>3. o \in Bad \cup {"ok"} /\ ~(o = "skipped")
    BY DEF Bad
  <2>4. fails' = [fails EXCEPT ![Surface] =
                    IF o = "skipped" THEN @ ELSE IF o = "ok" THEN 0 ELSE @ + 1]
    BY <2>1, <2>3 DEF Failed
  <2>5. o = "skipped" <=> fails[Surface] >= Threshold
    BY <2>2, <2>3
  <2> QED
    BY <2>1, <2>3, <2>4, <2>5, BreakerMoves
<1>5. CASE \/ StartCapture \/ SecondSearch \/ RetrySearch \/ CloseDispatch \/ Finalize
           \/ Raise \/ Kill \/ Resume \/ UNCHANGED vars
  <2>1. /\ UNCHANGED <<work, outcome, fails>>
        /\ phase' \in {"loop", "capture"} => phase \in {"loop", "capture"}
    BY <1>5 DEF StartCapture, SecondSearch, RetrySearch, CloseDispatch, Finalize, Raise, Kill,
                Resume, vars, cursor, record, Verdict
  <2> QED
    BY <2>1, BreakerStays
<1> QED
  BY <1>2, <1>3, <1>4, <1>5 DEF Next, Job

\* For every threshold and order of the cells: a cell is skipped exactly when
\* its surface has failed that often in a row, in this attempt.
THEOREM BreakerHolds == Spec => []BreakerExact
<1>1. Init => CursorInv /\ BreakerInv
  <2>1. Init => BreakerInv
    <3>1. Init => \A s : Tried(s) = {}
      BY DEF Init, Tried
    <3> QED
      BY <3>1 DEF Init, BreakerInv, BreakerExact, StreakWell
  <2> QED
    BY <2>1, CursorInit
<1>2. (CursorInv /\ BreakerInv) /\ [Next]_vars => (CursorInv /\ BreakerInv)'
  BY CursorStep, BreakerStep
<1>3. CursorInv /\ BreakerInv => BreakerExact
  BY DEF BreakerInv
<1> QED
  BY <1>1, <1>2, <1>3, PTL DEF Spec
=============================================================================
