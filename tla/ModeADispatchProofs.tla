------------------------ MODULE ModeADispatchProofs ------------------------
(* Theorems of ModeADispatch for every set of cells, every price, cap and    *)
(* number of calls in flight: the month's spend stays under the cap up to    *)
(* what calls cost beyond their estimates, reservations are exact, the run's  *)
(* cost accounts for every unit charged, and each cell is asked once.        *)
EXTENDS ModeADispatch, FiniteFacts, TLAPS

-----------------------------------------------------------------------------
(* Totals: what a total over a set gains and loses with its members          *)

Pile(f, i) == {i} \X (1..f[i])
Units(f, S) == UNION {Pile(f, i) : i \in S}

LEMMA PileCount ==
  ASSUME NEW f, NEW i, f[i] \in Nat
  PROVE  IsFiniteSet(Pile(f, i)) /\ Cardinality(Pile(f, i)) = f[i]
  <1>1. IsFiniteSet(1..f[i]) /\ Cardinality(1..f[i]) = f[i]
    BY FS_Interval, SMTT(20)
  <1>2. IsFiniteSet({i}) /\ Cardinality({i}) = 1
    BY FS_Singleton
  <1>3. /\ IsFiniteSet({i} \X (1..f[i]))
        /\ Cardinality({i} \X (1..f[i])) = 1 * f[i]
    BY <1>1, <1>2, FS_Product
  <1> QED BY <1>3 DEF Pile

LEMMA UnitsFinite ==
  ASSUME NEW S, IsFiniteSet(S), NEW f, \A i \in S : f[i] \in Nat
  PROVE  IsFiniteSet(Units(f, S))
  <1> DEFINE piles == {Pile(f, i) : i \in S}
             g == [i \in S |-> Pile(f, i)]
  <1>1. g \in [S -> piles] /\ \A p \in piles : \E i \in S : g[i] = p
    OBVIOUS
  <1>2. g \in Surjection(S, piles)
    BY <1>1, Fun_IsSurj
  <1>3. IsFiniteSet(piles)
    BY <1>2, FS_Surjection
  <1>4. \A p \in piles : IsFiniteSet(p)
    BY PileCount
  <1> QED BY <1>3, <1>4, FS_UNION DEF Units

LEMMA TotalType ==
  ASSUME NEW S, IsFiniteSet(S), NEW f, \A i \in S : f[i] \in Nat
  PROVE  Total(f, S) \in Nat /\ Total(f, S) = Cardinality(Units(f, S))
  BY UnitsFinite, FS_CardinalityType DEF Total, Units, Pile

LEMMA TotalNone ==
  ASSUME NEW f
  PROVE  Total(f, {}) = 0
  <1>1. UNION {{i} \X (1..f[i]) : i \in {}} = {}
    OBVIOUS
  <1> QED BY <1>1, FS_EmptySet DEF Total

LEMMA TotalUnion ==
  ASSUME NEW A, IsFiniteSet(A), NEW B, IsFiniteSet(B), A \cap B = {},
         NEW f, \A i \in A \cup B : f[i] \in Nat
  PROVE  Total(f, A \cup B) = Total(f, A) + Total(f, B)
  <1>1. IsFiniteSet(A \cup B)
    BY FS_Union
  <1>2. Units(f, A \cup B) = Units(f, A) \cup Units(f, B)
    BY DEF Units
  <1>3. Units(f, A) \cap Units(f, B) = {}
    <2> SUFFICES ASSUME NEW u \in Units(f, A), u \in Units(f, B) PROVE FALSE
      OBVIOUS
    <2>1. PICK i \in A : u \in Pile(f, i)
      BY DEF Units
    <2>2. PICK j \in B : u \in Pile(f, j)
      BY DEF Units
    <2>3. u[1] = i /\ u[1] = j
      BY <2>1, <2>2 DEF Pile
    <2> QED BY <2>3
  <1>4. /\ IsFiniteSet(Units(f, A)) /\ IsFiniteSet(Units(f, B))
        /\ Cardinality(Units(f, A)) \in Nat /\ Cardinality(Units(f, B)) \in Nat
    BY UnitsFinite, FS_CardinalityType
  <1>5. Cardinality(Units(f, A) \cup Units(f, B))
          = Cardinality(Units(f, A)) + Cardinality(Units(f, B)) - Cardinality({})
    BY <1>3, <1>4, FS_Union
  <1>6. Cardinality({}) = 0
    BY FS_EmptySet
  <1>7. /\ Total(f, A \cup B) = Cardinality(Units(f, A \cup B))
        /\ Total(f, A) = Cardinality(Units(f, A))
        /\ Total(f, B) = Cardinality(Units(f, B))
    BY <1>1, TotalType
  <1> DEFINE ca == Cardinality(Units(f, A))
             cb == Cardinality(Units(f, B))
  <1>8. Total(f, A \cup B) = ca + cb - 0
    BY <1>2, <1>5, <1>6, <1>7
  <1>9. ca \in Nat /\ cb \in Nat /\ Total(f, A) = ca /\ Total(f, B) = cb
    BY <1>4, <1>7
  <1> HIDE DEF ca, cb
  <1> QED BY <1>8, <1>9

LEMMA TotalOne ==
  ASSUME NEW f, NEW i, f[i] \in Nat
  PROVE  Total(f, {i}) = f[i]
  <1>1. Units(f, {i}) = Pile(f, i)
    BY DEF Units
  <1>2. IsFiniteSet({i})
    BY FS_Singleton
  <1> QED BY <1>1, <1>2, TotalType, PileCount

LEMMA TotalAdd ==
  ASSUME NEW S, IsFiniteSet(S), NEW i, i \notin S, NEW f, \A x \in S \cup {i} : f[x] \in Nat
  PROVE  Total(f, S \cup {i}) = Total(f, S) + f[i]
  <1>1. IsFiniteSet({i}) /\ S \cap {i} = {}
    BY FS_Singleton
  <1>2. Total(f, S \cup {i}) = Total(f, S) + Total(f, {i})
    BY <1>1, TotalUnion
  <1>3. Total(f, {i}) = f[i]
    BY TotalOne
  <1> QED BY <1>2, <1>3

LEMMA TotalRemove ==
  ASSUME NEW S, IsFiniteSet(S), NEW i \in S, NEW f, \A x \in S : f[x] \in Nat
  PROVE  Total(f, S \ {i}) = Total(f, S) - f[i]
  <1>1. (S \ {i}) \cup {i} = S
    OBVIOUS
  <1>2. IsFiniteSet(S \ {i})
    BY FS_RemoveElement
  <1>3. Total(f, S) = Total(f, S \ {i}) + f[i]
    BY <1>1, <1>2, TotalAdd
  <1>4. Total(f, S \ {i}) \in Nat /\ f[i] \in Nat
    BY <1>2, TotalType
  <1> QED BY <1>3, <1>4

LEMMA TotalSame ==
  ASSUME NEW S, NEW f, NEW g, \A i \in S : f[i] = g[i]
  PROVE  Total(f, S) = Total(g, S)
  <1>1. {{i} \X (1..f[i]) : i \in S} = {{i} \X (1..g[i]) : i \in S}
    OBVIOUS
  <1> QED BY <1>1 DEF Total

-----------------------------------------------------------------------------
(* The inductive invariant. The books need to know that the one transaction  *)
(* that is open read the cost it adds to, and that an attempt that ended has *)
(* nothing in flight whose answer could still arrive.                        *)

States == {"out", "waiting", "calling", "answered", "errored",
           "saved", "failed", "withheld", "gone"}

BookTypes ==
  /\ phase \in {"pending", "dispatch", "aborting"} \cup Ended
  /\ state \in [Items -> States]
  /\ price \in [Items -> Nat]
  /\ {runCost, month, spent, charged, lost} \subseteq Nat /\ reserved \in Int
  /\ DOMAIN seen = Items

OneSaves ==
  /\ saving \subseteq Unsaved
  /\ \A i, j \in saving : i = j
  /\ \A i \in saving : seen[i].cost = runCost

QuietWhenOver == phase \in {"pending"} \cup Ended => InFlight = {}

BookInv ==
  BookTypes /\ OneSaves /\ QuietWhenOver /\ SpendUnderCap /\ ReservationExact /\ LedgerBalances

USE ModeAAssumption DEF Ended, States

LEMMA InFinite ==
  ASSUME NEW S \in SUBSET Items
  PROVE  IsFiniteSet(S)
  BY FS_Subset

\* One item changes its state.
LEMMA MoveOne ==
  ASSUME state \in [Items -> States], NEW i \in Items, NEW t,
         state' = [state EXCEPT ![i] = t], NEW s
  PROVE  In(s)' = IF t \in s THEN In(s) \cup {i} ELSE In(s) \ {i}
  BY DEF In

LEMMA ExcessType ==
  ASSUME BookTypes
  PROVE  /\ Excess \in [Items -> Nat]
         /\ \A i \in Items : Excess[i] >= price[i] - Est[i]
  BY DEF BookTypes, Excess, MaxOf

LEMMA OverrunType ==
  ASSUME BookTypes
  PROVE  Overrun \in Nat
  <1>1. IsFiniteSet(In({"answered", "saved"}))
    BY InFinite DEF In
  <1> QED BY <1>1, ExcessType, TotalType DEF Overrun, In

LEMMA OverrunTypeAfter ==
  ASSUME BookTypes'
  PROVE  Overrun' \in Nat
  <1>1. IsFiniteSet(In({"answered", "saved"})')
    BY InFinite DEF In
  <1>2. Excess' \in [Items -> Nat]
    BY DEF BookTypes, Excess, MaxOf
  <1>3. \A x \in In({"answered", "saved"})' : Excess'[x] \in Nat
    BY <1>2 DEF In
  <1> QED BY <1>1, <1>3, TotalType DEF Overrun

LEMMA PriceOfType ==
  ASSUME BookTypes, NEW S \in SUBSET Items
  PROVE  PriceOf(S) \in Nat
  BY InFinite, TotalType DEF BookTypes, PriceOf

LEMMA BookInit == Init => BookInv
  <1> SUFFICES ASSUME Init PROVE BookInv
    OBVIOUS
  <1>1. \A s \in {{"calling"}, {"answered"}, {"errored"}, {"answered", "errored"}} : In(s) = {}
    BY DEF Init, In
  <1>2. BookTypes /\ OneSaves /\ QuietWhenOver
    BY <1>1 DEF Init, BookTypes, OneSaves, QuietWhenOver, InFlight, Calling, Unsaved
  <1>3. LedgerBalances
    <2>1. In({"answered"}) = {}
      BY <1>1
    <2>2. PriceOf(In({"answered"})) = 0
      BY <2>1, TotalNone DEF PriceOf
    <2> QED BY <2>2 DEF Init, LedgerBalances
  <1> QED BY <1>2, <1>3 DEF Init, BookInv, SpendUnderCap, ReservationExact

-----------------------------------------------------------------------------
(* Steps of the attempt                                                      *)

LEMMA BookLoad ==
  ASSUME BookInv, NEW S \in ActiveSets, Load(S)
  PROVE  BookInv'
  <1> DEFINE left == SkipDone(S \ CachedTwins(S))
  <1>1. /\ phase = "pending" /\ phase' = "dispatch"
        /\ state' = [i \in Items |-> IF i \in left THEN "waiting" ELSE "out"]
        /\ month' = OtherSpend + runCost /\ spent' = 0 /\ reserved' = 0
        /\ UNCHANGED <<price, runCost, saving, seen, charged, lost>>
    BY DEF Load
  <1> HIDE DEF left
  <1>2. /\ In({"calling"})' = {} /\ In({"answered"})' = {} /\ In({"answered", "saved"})' = {}
        /\ In({"answered", "errored"})' = {}
    BY <1>1 DEF In
  <1>3. In({"answered"}) = {} /\ saving = {}
    BY <1>1 DEF BookInv, OneSaves, QuietWhenOver, InFlight, Unsaved, In
  <1>4. BookTypes' /\ OneSaves' /\ QuietWhenOver'
    BY <1>1, <1>3 DEF BookInv, BookTypes, OneSaves, QuietWhenOver
  <1>5. SpendUnderCap'
    <2>1. Overrun' = 0
      BY <1>2, TotalNone DEF Overrun
    <2>2. month' \in Nat
      BY <1>4 DEF BookTypes
    <2> QED BY <1>1, <2>1, <2>2 DEF SpendUnderCap, MaxOf
  <1>6. ReservationExact'
    BY <1>1, <1>2, TotalNone DEF ReservationExact, Calling
  <1>7. LedgerBalances'
    <2>1. PriceOf(In({"answered"}))' = 0 /\ PriceOf(In({"answered"})) = 0
      BY <1>2, <1>3, TotalNone DEF PriceOf
    <2> QED BY <1>1, <2>1 DEF BookInv, LedgerBalances
  <1> QED BY <1>4, <1>5, <1>6, <1>7 DEF BookInv

LEMMA BookStartCall ==
  ASSUME BookInv, NEW i \in Items, NEW p \in PricesOf[i], StartCall(i, p)
  PROVE  BookInv'
  <1>1. /\ phase = "dispatch" /\ state[i] = "waiting" /\ Fits(i) /\ p \in Nat
        /\ state' = [state EXCEPT ![i] = "calling"] /\ price' = [price EXCEPT ![i] = p]
        /\ reserved' = reserved + Est[i]
        /\ UNCHANGED <<phase, runCost, month, spent, saving, seen, charged, lost>>
    BY DEF StartCall, row
  <1>2. BookTypes /\ OneSaves /\ SpendUnderCap /\ ReservationExact /\ LedgerBalances
    BY DEF BookInv
  <1>3. BookTypes'
    BY <1>1, <1>2 DEF BookTypes
  <1>4. /\ Calling' = Calling \cup {i} /\ i \notin Calling
        /\ In({"answered"})' = In({"answered"}) /\ i \notin In({"answered"})
        /\ Unsaved' = Unsaved
    BY <1>1, <1>2, MoveOne DEF BookTypes, Calling, Unsaved, In
  <1>5. OneSaves' /\ QuietWhenOver'
    BY <1>1, <1>2, <1>4 DEF OneSaves, QuietWhenOver
  <1>6. SpendUnderCap'
    <2>1. Overrun' \in Nat
      BY <1>3, OverrunTypeAfter
    <2>2. month + spent + reserved + Est[i] <= Cap /\ Est[i] \in Nat
      BY <1>1 DEF Fits
    <2> QED BY <1>1, <1>2, <2>1, <2>2 DEF BookTypes, SpendUnderCap, MaxOf
  <1>7. ReservationExact'
    <2>1. IsFiniteSet(Calling)
      BY InFinite DEF Calling, In
    <2>2. Total(Est, Calling \cup {i}) = Total(Est, Calling) + Est[i]
      BY <1>4, <2>1, TotalAdd DEF Calling, In
    <2> QED BY <1>1, <1>2, <1>4, <2>2 DEF ReservationExact
  <1>8. LedgerBalances'
    <2>1. \A x \in In({"answered"}) : price'[x] = price[x]
      BY <1>1, <1>2, <1>4 DEF BookTypes, In
    <2>2. PriceOf(In({"answered"}))' = PriceOf(In({"answered"}))
      BY <1>4, <2>1, TotalSame DEF PriceOf
    <2> QED BY <1>1, <1>2, <2>2 DEF LedgerBalances
  <1> QED BY <1>3, <1>5, <1>6, <1>7, <1>8 DEF BookInv

LEMMA BookWithhold ==
  ASSUME BookInv, NEW i \in Items, Withhold(i)
  PROVE  BookInv'
  <1>1. /\ phase = "dispatch" /\ state[i] = "waiting"
        /\ state' = [state EXCEPT ![i] = "withheld"]
        /\ UNCHANGED <<phase, price, runCost, month, spent, reserved, saving, seen, charged, lost>>
    BY DEF Withhold, row, attempt
  <1>2. BookTypes /\ OneSaves /\ SpendUnderCap /\ ReservationExact /\ LedgerBalances
    BY DEF BookInv
  <1>3. /\ Calling' = Calling /\ Unsaved' = Unsaved
        /\ In({"answered"})' = In({"answered"})
        /\ In({"answered", "saved"})' = In({"answered", "saved"})
    BY <1>1, <1>2, MoveOne DEF BookTypes, Calling, Unsaved, In
  <1>4. PriceOf(In({"answered"}))' = PriceOf(In({"answered"})) /\ Overrun' = Overrun
    BY <1>1, <1>3 DEF PriceOf, Overrun, Excess
  <1> QED BY <1>1, <1>2, <1>3, <1>4 DEF BookInv, BookTypes, OneSaves, QuietWhenOver,
          SpendUnderCap, ReservationExact, LedgerBalances

\* A call comes back: its reservation ends, and what it cost beyond its
\* estimate is the overrun it adds.
LEMMA BookReturnOk ==
  ASSUME BookInv, NEW i \in Items, ReturnOk(i)
  PROVE  BookInv'
  <1>1. /\ phase = "dispatch" /\ state[i] = "calling"
        /\ state' = [state EXCEPT ![i] = "answered"]
        /\ reserved' = reserved - Est[i] /\ spent' = spent + price[i]
        /\ charged' = charged + price[i]
        /\ UNCHANGED <<phase, price, runCost, month, saving, seen, lost>>
    BY DEF ReturnOk, row, attempt
  <1>2. /\ BookTypes /\ OneSaves /\ SpendUnderCap /\ ReservationExact /\ LedgerBalances
        /\ price[i] \in Nat /\ Est[i] \in Nat
    BY DEF BookInv, BookTypes
  <1>3. BookTypes'
    BY <1>1, <1>2 DEF BookTypes
  <1>4. /\ Calling' = Calling \ {i} /\ i \in Calling
        /\ In({"answered"})' = In({"answered"}) \cup {i} /\ i \notin In({"answered"})
        /\ In({"answered", "saved"})' = In({"answered", "saved"}) \cup {i}
        /\ i \notin In({"answered", "saved"})
        /\ Unsaved \subseteq Unsaved'
    BY <1>1, <1>2, MoveOne DEF BookTypes, Calling, Unsaved, In
  <1>5. OneSaves' /\ QuietWhenOver'
    BY <1>1, <1>2, <1>4 DEF OneSaves, QuietWhenOver
  <1>6. \A s : In(s) \subseteq Items /\ IsFiniteSet(In(s))
    BY InFinite DEF In
  <1>7. SpendUnderCap'
    <2>1. Overrun' = Overrun + Excess[i]
      <3>1. Excess' = Excess
        BY <1>1 DEF Excess
      <3>2. Total(Excess, In({"answered", "saved"}) \cup {i})
              = Total(Excess, In({"answered", "saved"})) + Excess[i]
        BY <1>2, <1>4, <1>6, ExcessType, TotalAdd
      <3> QED BY <1>4, <3>1, <3>2 DEF Overrun
    <2>2. Excess[i] \in Nat /\ Excess[i] >= price[i] - Est[i] /\ Overrun \in Nat
      BY <1>2, ExcessType, OverrunType
    <2>3. month + spent + reserved <= MaxOf(Cap, month) + Overrun
      BY <1>1, <1>2 DEF SpendUnderCap
    <2>4. MaxOf(Cap, month) \in Nat
      BY <1>2 DEF BookTypes, MaxOf
    <2> QED BY <1>1, <1>2, <2>1, <2>2, <2>3, <2>4 DEF BookTypes, SpendUnderCap
  <1>8. ReservationExact'
    <2>1. Total(Est, Calling \ {i}) = Total(Est, Calling) - Est[i]
      BY <1>4, <1>6, TotalRemove DEF Calling
    <2> QED BY <1>1, <1>2, <1>4, <2>1 DEF ReservationExact
  <1>9. LedgerBalances'
    <2>1. Total(price, In({"answered"}) \cup {i}) = Total(price, In({"answered"})) + price[i]
      BY <1>2, <1>4, <1>6, TotalAdd DEF BookTypes
    <2>2. Total(price, In({"answered"})) \in Nat
      BY <1>2, <1>6, PriceOfType DEF PriceOf
    <2>3. /\ PriceOf(In({"answered"})) \in Nat
          /\ PriceOf(In({"answered"}))' = PriceOf(In({"answered"})) + price[i]
      BY <1>1, <1>4, <2>1, <2>2 DEF PriceOf
    <2>4. runCost \in Nat /\ lost \in Nat
      BY <1>2 DEF BookTypes
    <2> QED BY <1>1, <1>2, <2>3, <2>4 DEF LedgerBalances
  <1> QED BY <1>3, <1>5, <1>7, <1>8, <1>9 DEF BookInv

LEMMA BookReturnError ==
  ASSUME BookInv, NEW i \in Items, ReturnError(i)
  PROVE  BookInv'
  <1>1. /\ phase = "dispatch" /\ state[i] = "calling"
        /\ state' = [state EXCEPT ![i] = "errored"] /\ reserved' = reserved - Est[i]
        /\ UNCHANGED <<phase, price, runCost, month, spent, saving, seen, charged, lost>>
    BY DEF ReturnError, row, attempt
  <1>2. BookTypes /\ OneSaves /\ SpendUnderCap /\ ReservationExact /\ LedgerBalances
    BY DEF BookInv
  <1>3. BookTypes'
    BY <1>1, <1>2 DEF BookTypes
  <1>4. /\ Calling' = Calling \ {i} /\ i \in Calling
        /\ In({"answered"})' = In({"answered"})
        /\ In({"answered", "saved"})' = In({"answered", "saved"})
        /\ Unsaved \subseteq Unsaved'
    BY <1>1, <1>2, MoveOne DEF BookTypes, Calling, Unsaved, In
  <1>5. OneSaves' /\ QuietWhenOver'
    BY <1>1, <1>2, <1>4 DEF OneSaves, QuietWhenOver
  <1>6. PriceOf(In({"answered"}))' = PriceOf(In({"answered"})) /\ Overrun' = Overrun
    BY <1>1, <1>4 DEF PriceOf, Overrun, Excess
  <1>7. SpendUnderCap'
    <2>1. month + spent + reserved <= MaxOf(Cap, month) + Overrun
      BY <1>1, <1>2 DEF SpendUnderCap
    <2>2. MaxOf(Cap, month) \in Nat /\ Overrun \in Nat /\ Est[i] \in Nat
      BY <1>2, OverrunType DEF BookTypes, MaxOf
    <2> QED BY <1>1, <1>2, <1>6, <2>1, <2>2 DEF BookTypes, SpendUnderCap
  <1>8. ReservationExact'
    <2>1. IsFiniteSet(Calling)
      BY InFinite DEF Calling, In
    <2>2. Total(Est, Calling \ {i}) = Total(Est, Calling) - Est[i]
      BY <1>4, <2>1, TotalRemove DEF Calling, In
    <2> QED BY <1>1, <1>2, <1>4, <2>2 DEF ReservationExact
  <1>9. LedgerBalances'
    BY <1>1, <1>2, <1>6 DEF LedgerBalances
  <1> QED BY <1>3, <1>5, <1>7, <1>8, <1>9 DEF BookInv

-----------------------------------------------------------------------------
(* Saving an answer                                                          *)

LEMMA BookPersistBegin ==
  ASSUME BookInv, NEW i \in Items, PersistBegin(i)
  PROVE  BookInv'
  <1>1. /\ i \in Unsaved /\ saving = {} /\ saving' = {i}
        /\ seen' = [seen EXCEPT ![i] = [counts |-> counts, cost |-> runCost]]
        /\ UNCHANGED <<phase, state, price, runCost, money, charged, lost>>
    BY DEF PersistBegin, attempt, row
  <1>2. UNCHANGED <<month, spent, reserved>>
    BY <1>1 DEF money
  <1>3. OneSaves'
    BY <1>1 DEF BookInv, BookTypes, OneSaves, Unsaved, In
  <1>4. \A s : In(s)' = In(s)
    BY <1>1 DEF In
  <1>5. /\ PriceOf(In({"answered"}))' = PriceOf(In({"answered"})) /\ Overrun' = Overrun
        /\ Calling' = Calling /\ InFlight' = InFlight
    BY <1>1, <1>4 DEF PriceOf, Overrun, Excess, Calling, InFlight, Unsaved
  <1> QED BY <1>1, <1>2, <1>3, <1>5 DEF BookInv, BookTypes, QuietWhenOver, SpendUnderCap,
          ReservationExact, LedgerBalances

\* The transaction adds to the cost it read, which nobody else has changed.
LEMMA BookPersistAnswer ==
  ASSUME BookInv, NEW i \in Items, PersistAnswer(i)
  PROVE  BookInv'
  <1>1. /\ i \in saving /\ state[i] = "answered" /\ state' = [state EXCEPT ![i] = "saved"]
        /\ runCost' = seen[i].cost + price[i] /\ EndSave({i})
        /\ UNCHANGED <<phase, price, month, spent, reserved, charged, lost>>
    BY DEF PersistAnswer, attempt, money
  <1>2. /\ BookTypes /\ OneSaves /\ QuietWhenOver /\ SpendUnderCap /\ ReservationExact
        /\ LedgerBalances /\ price[i] \in Nat
    BY DEF BookInv, BookTypes
  <1>3. runCost' = runCost + price[i] /\ saving' = {}
    BY <1>1, <1>2 DEF OneSaves, EndSave
  <1>4. BookTypes' /\ OneSaves'
    BY <1>1, <1>2, <1>3 DEF BookTypes, OneSaves, EndSave
  <1>5. /\ Calling' = Calling /\ Unsaved' \subseteq Unsaved
        /\ In({"answered"})' = In({"answered"}) \ {i} /\ i \in In({"answered"})
        /\ In({"answered", "saved"})' = In({"answered", "saved"})
    BY <1>1, <1>2, MoveOne DEF BookTypes, Calling, Unsaved, In
  <1>6. QuietWhenOver'
    BY <1>1, <1>2, <1>5 DEF QuietWhenOver, InFlight
  <1>7. Overrun' = Overrun
    BY <1>1, <1>5 DEF Overrun, Excess
  <1>8. LedgerBalances'
    <2>1. IsFiniteSet(In({"answered"}))
      BY InFinite DEF In
    <2>2. \A x \in In({"answered"}) : price[x] \in Nat
      BY <1>2 DEF BookTypes, In
    <2>3. Total(price, In({"answered"}) \ {i}) = Total(price, In({"answered"})) - price[i]
      BY <1>5, <2>1, <2>2, TotalRemove
    <2>4. /\ PriceOf(In({"answered"})) \in Nat
          /\ PriceOf(In({"answered"}))' = PriceOf(In({"answered"})) - price[i]
      BY <1>1, <1>5, <2>1, <2>2, <2>3, TotalType DEF PriceOf
    <2>5. runCost \in Nat /\ lost \in Nat
      BY <1>2 DEF BookTypes
    <2> QED BY <1>1, <1>2, <1>3, <2>4, <2>5 DEF LedgerBalances
  <1> QED BY <1>1, <1>2, <1>4, <1>5, <1>6, <1>7, <1>8
          DEF BookInv, SpendUnderCap, ReservationExact

LEMMA BookPersistError ==
  ASSUME BookInv, NEW i \in Items, PersistError(i)
  PROVE  BookInv'
  <1>1. /\ i \in saving /\ state[i] = "errored" /\ state' = [state EXCEPT ![i] = "failed"]
        /\ EndSave({i})
        /\ UNCHANGED <<phase, price, runCost, month, spent, reserved, charged, lost>>
    BY DEF PersistError, attempt, money
  <1>2. BookTypes /\ OneSaves /\ QuietWhenOver /\ SpendUnderCap /\ ReservationExact /\ LedgerBalances
    BY DEF BookInv
  <1>3. BookTypes' /\ OneSaves'
    BY <1>1, <1>2 DEF BookTypes, OneSaves, EndSave
  <1>4. /\ Calling' = Calling /\ Unsaved' \subseteq Unsaved
        /\ In({"answered"})' = In({"answered"})
        /\ In({"answered", "saved"})' = In({"answered", "saved"})
    BY <1>1, <1>2, MoveOne DEF BookTypes, Calling, Unsaved, In
  <1>5. QuietWhenOver'
    BY <1>1, <1>2, <1>4 DEF QuietWhenOver, InFlight
  <1>6. PriceOf(In({"answered"}))' = PriceOf(In({"answered"})) /\ Overrun' = Overrun
    BY <1>1, <1>4 DEF PriceOf, Overrun, Excess
  <1> QED BY <1>1, <1>2, <1>3, <1>4, <1>5, <1>6
          DEF BookInv, SpendUnderCap, ReservationExact, LedgerBalances

-----------------------------------------------------------------------------
(* The end of an attempt                                                     *)

LEMMA BookEnds ==
  ASSUME BookInv, Close \/ MarkRunFailed
  PROVE  BookInv'
  <1>1. /\ Finished /\ phase' \in Ended
        /\ UNCHANGED <<state, price, runCost, month, spent, reserved, saving, seen, charged, lost>>
    BY DEF Close, MarkRunFailed, Verdict, attempt, money, row
  <1>2. \A s : In(s)' = In(s)
    BY <1>1 DEF In
  <1>3. InFlight' = {} /\ Calling' = Calling /\ Unsaved' = Unsaved
    BY <1>1, <1>2 DEF Finished, InFlight, Calling, Unsaved
  <1>4. PriceOf(In({"answered"}))' = PriceOf(In({"answered"}))
    BY <1>1, <1>2 DEF PriceOf
  <1> QED BY <1>1, <1>3, <1>4 DEF BookInv, BookTypes, OneSaves, QuietWhenOver, SpendUnderCap,
          ReservationExact, LedgerBalances

\* What is thrown away was charged, and is lost if it was an answer.
LEMMA DropBooks ==
  ASSUME BookTypes, LedgerBalances, NEW S \in SUBSET Items, Drop(S), UNCHANGED <<price, runCost>>
  PROVE  /\ state' \in [Items -> States] /\ charged' \in Nat /\ lost' \in Nat
         /\ Calling' = Calling \ S /\ Unsaved' = Unsaved \ S
         /\ LedgerBalances'
  <1>1. /\ state' = [i \in Items |-> IF i \in S THEN "gone" ELSE state[i]]
        /\ charged' = charged + PriceOf(S \cap Calling)
        /\ lost' = lost + PriceOf(S \cap (Calling \cup In({"answered"})))
    BY DEF Drop
  <1>2. \A s : "gone" \notin s => In(s)' = In(s) \ S
    BY <1>1 DEF In
  <1>3. /\ Calling' = Calling \ S /\ Unsaved' = Unsaved \ S
        /\ In({"answered"})' = In({"answered"}) \ S
    BY <1>2 DEF Calling, Unsaved
  <1> DEFINE ans == In({"answered"})
             pc == PriceOf(S \cap Calling)
             pa == PriceOf(S \cap ans)
             rest == PriceOf(ans \ S)
  <1>4. /\ Calling \in SUBSET Items /\ ans \in SUBSET Items /\ Calling \cap ans = {}
    BY DEF Calling, In
  <1>5. pc \in Nat /\ pa \in Nat /\ rest \in Nat
    BY <1>4, PriceOfType
  <1>6. /\ IsFiniteSet(S \cap Calling) /\ IsFiniteSet(S \cap ans) /\ IsFiniteSet(ans \ S)
        /\ \A i \in Items : price[i] \in Nat
    BY <1>4, InFinite DEF BookTypes
  <1>7. PriceOf(S \cap (Calling \cup ans)) = pc + pa
    <2>1. S \cap (Calling \cup ans) = (S \cap Calling) \cup (S \cap ans)
      OBVIOUS
    <2>2. (S \cap Calling) \cap (S \cap ans) = {}
      BY <1>4
    <2>3. \A i \in (S \cap Calling) \cup (S \cap ans) : price[i] \in Nat
      BY <1>6
    <2> QED BY <1>6, <2>1, <2>2, <2>3, TotalUnion DEF PriceOf
  <1>8. PriceOf(ans) = pa + rest
    <2>1. ans = (S \cap ans) \cup (ans \ S) /\ (S \cap ans) \cap (ans \ S) = {}
      OBVIOUS
    <2>2. \A i \in (S \cap ans) \cup (ans \ S) : price[i] \in Nat
      BY <1>4, <1>6
    <2>3. Total(price, (S \cap ans) \cup (ans \ S)) = Total(price, S \cap ans) + Total(price, ans \ S)
      BY <1>6, <2>1, <2>2, TotalUnion
    <2> QED BY <2>1, <2>3 DEF PriceOf
  <1>9. PriceOf(In({"answered"}))' = rest
    BY <1>3 DEF PriceOf
  <1>10. /\ charged' = charged + pc /\ lost' = lost + (pc + pa)
         /\ charged = runCost + (pa + rest) + lost
    BY <1>1, <1>7, <1>8 DEF LedgerBalances
  <1>11. runCost \in Nat /\ charged \in Nat /\ lost \in Nat
    BY DEF BookTypes
  <1> HIDE DEF pc, pa, rest, ans
  <1>12. charged' = runCost + rest + lost' /\ charged' \in Nat /\ lost' \in Nat
    BY <1>5, <1>10, <1>11
  <1>13. LedgerBalances'
    BY <1>9, <1>12 DEF LedgerBalances
  <1>14. state' \in [Items -> States]
    BY <1>1 DEF BookTypes
  <1> QED BY <1>3, <1>12, <1>13, <1>14

LEMMA BookRaise ==
  ASSUME BookInv, NEW S \in SUBSET Unsaved, Raise(S)
  PROVE  BookInv'
  <1> DEFINE D == In({"waiting", "calling"}) \cup S
  <1>1. /\ phase' = "aborting" /\ Drop(D) /\ S \cap saving = {}
        /\ UNCHANGED <<price, runCost, month, spent, reserved, saving, seen>>
    BY DEF Raise, attempt, row, money
  <1>2. BookTypes /\ OneSaves /\ LedgerBalances
    BY DEF BookInv
  <1>3. D \in SUBSET Items /\ D \cap saving = {}
    BY <1>1, <1>2 DEF OneSaves, Unsaved, In
  <1> HIDE DEF D
  <1>4. /\ state' \in [Items -> States] /\ charged' \in Nat /\ lost' \in Nat
        /\ Unsaved' = Unsaved \ D /\ LedgerBalances'
    BY <1>1, <1>2, <1>3, DropBooks
  <1>5. BookTypes' /\ OneSaves'
    BY <1>1, <1>2, <1>3, <1>4 DEF BookTypes, OneSaves
  <1> QED BY <1>1, <1>4, <1>5 DEF BookInv, QuietWhenOver, SpendUnderCap, ReservationExact

LEMMA BookPersistFails ==
  ASSUME BookInv, NEW i \in Items, NEW S \in SUBSET Unsaved, PersistFails(i, S)
  PROVE  BookInv'
  <1> DEFINE D == In({"waiting", "calling"}) \cup S \cup {i}
  <1>1. /\ phase' = "aborting" /\ Drop(D) /\ EndSave({i}) /\ i \in saving
        /\ UNCHANGED <<price, runCost, month, spent, reserved>>
    BY DEF PersistFails, attempt, row, money
  <1>2. BookTypes /\ OneSaves /\ LedgerBalances
    BY DEF BookInv
  <1>3. D \in SUBSET Items
    BY DEF Unsaved, In
  <1> HIDE DEF D
  <1>4. /\ state' \in [Items -> States] /\ charged' \in Nat /\ lost' \in Nat
        /\ LedgerBalances'
    BY <1>1, <1>2, <1>3, DropBooks
  <1>5. saving' = {} /\ DOMAIN seen' = Items
    BY <1>1, <1>2 DEF OneSaves, EndSave
  <1>6. BookTypes' /\ OneSaves'
    BY <1>1, <1>2, <1>4, <1>5 DEF BookTypes, OneSaves
  <1> QED BY <1>1, <1>4, <1>6 DEF BookInv, QuietWhenOver, SpendUnderCap, ReservationExact

LEMMA BookKill ==
  ASSUME BookInv, Kill
  PROVE  BookInv'
  <1> DEFINE D == In({"waiting"}) \cup InFlight
  <1>1. /\ phase' = "failed" /\ Drop(D) /\ EndSave(Items)
        /\ UNCHANGED <<price, runCost, month, spent, reserved>>
    BY DEF Kill, attempt, row, money
  <1>2. BookTypes /\ OneSaves /\ LedgerBalances
    BY DEF BookInv
  <1>3. D \in SUBSET Items /\ Calling \subseteq D /\ Unsaved \subseteq D
    BY DEF InFlight, Calling, Unsaved, In
  <1> HIDE DEF D
  <1>4. /\ state' \in [Items -> States] /\ charged' \in Nat /\ lost' \in Nat
        /\ Calling' = {} /\ Unsaved' = {} /\ LedgerBalances'
    BY <1>1, <1>2, <1>3, DropBooks
  <1>5. saving' = {} /\ DOMAIN seen' = Items
    BY <1>1, <1>2 DEF OneSaves, Unsaved, In, EndSave
  <1>6. BookTypes' /\ OneSaves' /\ QuietWhenOver'
    BY <1>1, <1>2, <1>4, <1>5 DEF BookTypes, OneSaves, QuietWhenOver, InFlight
  <1> QED BY <1>1, <1>4, <1>6 DEF BookInv, SpendUnderCap, ReservationExact

LEMMA BookKept ==
  ASSUME BookInv, Resume \/ UNCHANGED vars
  PROVE  BookInv'
  <1>1. /\ phase' = phase \/ (phase = "failed" /\ phase' = "pending")
        /\ UNCHANGED <<state, price, runCost, month, spent, reserved, saving, seen, charged, lost>>
    BY DEF Resume, vars, attempt, row, money
  <1>2. \A s : In(s)' = In(s)
    BY <1>1 DEF In
  <1>3. /\ PriceOf(In({"answered"}))' = PriceOf(In({"answered"})) /\ Overrun' = Overrun
        /\ InFlight' = InFlight /\ Calling' = Calling /\ Unsaved' = Unsaved
    BY <1>1, <1>2 DEF PriceOf, Overrun, Excess, InFlight, Calling, Unsaved
  <1> QED BY <1>1, <1>3 DEF BookInv, BookTypes, OneSaves, QuietWhenOver, SpendUnderCap,
          ReservationExact, LedgerBalances

LEMMA BookStep == BookInv /\ [Next]_vars => BookInv'
  <1> SUFFICES ASSUME BookInv, [Next]_vars PROVE BookInv'
    OBVIOUS
  <1>1. CASE \E i \in Items : Dispatch(i)
    BY <1>1, BookStartCall, BookWithhold, BookReturnOk, BookReturnError DEF Dispatch
  <1>2. CASE \E i \in Items : Persist(i)
    BY <1>2, BookPersistBegin, BookPersistAnswer, BookPersistError DEF Persist
  <1>3. CASE (\E S \in ActiveSets : Load(S)) \/ Close \/ MarkRunFailed
    BY <1>3, BookLoad, BookEnds
  <1>4. CASE Disturbed
    BY <1>4, BookRaise, BookPersistFails, BookKill, BookKept DEF Disturbed
  <1>5. CASE UNCHANGED vars
    BY <1>5, BookKept
  <1> QED BY <1>1, <1>2, <1>3, <1>4, <1>5 DEF Next, Job

\* For any cells, prices, cap and concurrency, and through any failures, kills
\* and resumes: a dispatch goes past the month's cap only by what returned
\* calls cost beyond their estimates, its reservations are those of the calls
\* in flight, and each unit charged is booked, waits to be saved or was lost
\* with an interrupted call.
THEOREM BooksHold == Spec => []LedgerExact
  <1>1. BookInv => LedgerExact
    BY DEF BookInv, LedgerExact
  <1> QED BY BookInit, BookStep, <1>1, PTL DEF Spec

-----------------------------------------------------------------------------
(* Cells: samples of one cell, and what SkipDone chooses                     *)

LEMMA SamplesCount ==
  ASSUME NEW S \in SUBSET Items, NEW k
  PROVE  IsFiniteSet(Samples(S, k)) /\ Cardinality(Samples(S, k)) \in Nat
  <1>1. Samples(S, k) \subseteq Items
    BY DEF Samples
  <1> QED BY <1>1, InFinite, FS_CardinalityType

LEMMA SamplesGrow ==
  ASSUME NEW S \in SUBSET Items, NEW T \in SUBSET S, NEW k
  PROVE  Cardinality(Samples(T, k)) <= Cardinality(Samples(S, k))
  <1>1. Samples(T, k) \subseteq Samples(S, k) /\ IsFiniteSet(Samples(S, k))
    BY SamplesCount DEF Samples
  <1> QED BY <1>1, FS_Subset

LEMMA SamplesRemove ==
  ASSUME NEW S \in SUBSET Items, NEW i \in S, NEW k
  PROVE  Cardinality(Samples(S \ {i}, k)) =
           Cardinality(Samples(S, k)) - (IF KeyOf[i] = k THEN 1 ELSE 0)
  <1>1. IsFiniteSet(Samples(S, k)) /\ Cardinality(Samples(S, k)) \in Nat
    BY SamplesCount
  <1>2. CASE KeyOf[i] = k
    <2>1. i \in Samples(S, k)
      BY <1>2 DEF Samples
    <2>2. Samples(S \ {i}, k) = Samples(S, k) \ {i}
      BY <1>2 DEF Samples
    <2>3. Cardinality(Samples(S, k) \ {i}) = Cardinality(Samples(S, k)) - 1
      BY <1>1, <2>1, OneLess
    <2> QED BY <1>2, <2>2, <2>3
  <1>3. CASE KeyOf[i] # k
    <2>1. Samples(S \ {i}, k) = Samples(S, k)
      BY <1>3 DEF Samples
    <2> QED BY <1>1, <1>3, <2>1
  <1> QED BY <1>2, <1>3

\* How many samples of a cell are left to ask.
Need(work, k) ==
  LET n == Cardinality(Samples(work, k)) - held[k] IN IF n > 0 THEN n ELSE 0

\* There is a set to choose: for each cell as many of its samples as it needs.
LEMMA SkipDoneKeeps ==
  ASSUME NEW work \in SUBSET Items, held \in [Keys -> Nat]
  PROVE  /\ SkipDone(work) \in SUBSET work
         /\ \A k \in Keys : Cardinality(Samples(SkipDone(work), k)) = Need(work, k)
  <1> DEFINE pick(k) == CHOOSE T \in SUBSET Samples(work, k) : Cardinality(T) = Need(work, k)
             kept == {i \in work : i \in pick(KeyOf[i])}
             Right(S) == \A k \in Keys : Cardinality(Samples(S, k)) = Need(work, k)
  <1>1. \A k \in Keys : /\ pick(k) \in SUBSET Samples(work, k)
                        /\ Cardinality(pick(k)) = Need(work, k)
    <2> SUFFICES ASSUME NEW k \in Keys
                 PROVE  \E T \in SUBSET Samples(work, k) : Cardinality(T) = Need(work, k)
      OBVIOUS
    <2>1. IsFiniteSet(Samples(work, k)) /\ Cardinality(Samples(work, k)) \in Nat /\ held[k] \in Nat
      BY SamplesCount
    <2>2. Need(work, k) \in Nat /\ Need(work, k) <= Cardinality(Samples(work, k))
      BY <2>1 DEF Need
    <2> QED BY <2>1, <2>2, SubsetOfSize
  <1>2. \A k \in Keys : Samples(kept, k) = pick(k)
    <2> SUFFICES ASSUME NEW k \in Keys PROVE Samples(kept, k) = pick(k)
      OBVIOUS
    <2>1. pick(k) \in SUBSET Samples(work, k)
      BY <1>1
    <2> HIDE DEF pick
    <2> QED BY <2>1 DEF Samples
  <1>3. kept \in SUBSET work /\ Right(kept)
    BY <1>1, <1>2
  <1> HIDE DEF kept, pick
  <1>4. SkipDone(work) = CHOOSE S \in SUBSET work : Right(S)
    BY DEF SkipDone, Need
  <1>5. SkipDone(work) \in SUBSET work /\ Right(SkipDone(work))
    <2> HIDE DEF Right
    <2> QED BY <1>3, <1>4
  <1> QED BY <1>5

-----------------------------------------------------------------------------
(* The invariant of the cells: what is held and what an attempt still has in *)
(* hand never exceed the samples of a cell, and in a dispatch never fall     *)
(* short of the work but for calls that failed or were withheld.             *)

Pending == In({"waiting"}) \cup InFlight
Owed == Pending \cup In({"withheld", "failed"})
Work == active \ reused
Dearest == Max((UNION {PricesOf[i] : i \in Items}) \cup {0})

CellTypes ==
  /\ active \in SUBSET Items /\ reused \in SUBSET Twins
  /\ held \in [Keys -> Nat]
  /\ counts \in Counts /\ hitCap \in BOOLEAN
  /\ seen \in [Items -> [counts : Counts, cost : Nat]]
  /\ resumes \in 0..MaxResumes /\ kills \in 0..MaxKills

SavesRead == \A i \in saving : seen[i].counts = counts

NotTwice ==
  \A k \in Keys :
    held[k] + Cardinality(Samples(Pending, k)) <= Cardinality(Samples(Items, k))

\* What the counters say of a dispatch.
Tally ==
  /\ counts.planned =
       counts.completed + counts.failed + Cardinality(Pending \cup In({"withheld"}))
  /\ counts.withheld = 0
  /\ counts.failed = Cardinality(In({"failed"}))
  /\ ~hitCap => In({"withheld"}) = {}

Covered ==
  \A k \in Keys : held[k] + Cardinality(Samples(Owed, k)) >= Cardinality(Samples(Work, k))

CellInv ==
  /\ CellTypes /\ SavesRead /\ NotTwice
  /\ phase = "dispatch" => Tally /\ Covered
  /\ CountsAddUp /\ NothingMissed

LEMMA PendingIs == Pending = In({"waiting", "calling", "answered", "errored"})
  BY DEF Pending, InFlight, Calling, Unsaved, In

LEMMA CellSets ==
  /\ Pending \in SUBSET Items /\ Owed \in SUBSET Items
  /\ \A s : In(s) \in SUBSET Items /\ IsFiniteSet(In(s)) /\ Cardinality(In(s)) \in Nat
  /\ IsFiniteSet(Pending \cup In({"withheld"}))
  /\ Cardinality(Pending \cup In({"withheld"})) \in Nat
  <1>1. Pending \in SUBSET Items /\ Owed \in SUBSET Items
    BY PendingIs DEF Owed, In
  <1>2. \A s : In(s) \in SUBSET Items
    BY DEF In
  <1>3. \A S \in SUBSET Items : IsFiniteSet(S) /\ Cardinality(S) \in Nat
    BY InFinite, FS_CardinalityType
  <1> QED BY <1>1, <1>2, <1>3

\* Steps that touch neither the rows nor the counters nor what is in hand.
LEMMA CellsKept ==
  ASSUME CellInv, CellTypes', UNCHANGED <<held, counts, active, reused, state>>,
         phase' = "dispatch" => phase = "dispatch" /\ UNCHANGED hitCap,
         phase' \in {"complete", "capped"} => phase' = phase,
         SavesRead'
  PROVE  CellInv'
  <1>1. \A s : In(s)' = In(s)
    BY DEF In
  <1>2. Pending' = Pending /\ Owed' = Owed /\ Work' = Work
    BY <1>1 DEF Pending, Owed, Work, InFlight, Calling, Unsaved
  <1>3. NotTwice'
    BY <1>2 DEF CellInv, NotTwice
  <1>4. phase' = "dispatch" => Tally' /\ Covered'
    BY <1>1, <1>2 DEF CellInv, Tally, Covered
  <1>5. CountsAddUp' /\ NothingMissed'
    BY DEF CellInv, CountsAddUp, NothingMissed
  <1> QED BY <1>3, <1>4, <1>5 DEF CellInv

\* One item moves on and stays in hand.
LEMMA CellsMove ==
  ASSUME BookTypes, CellInv, phase = "dispatch", phase' = "dispatch", NEW i \in Items,
         NEW t \in {"calling", "answered", "errored"},
         state[i] \in {"waiting", "calling"}, state' = [state EXCEPT ![i] = t],
         UNCHANGED <<held, counts, active, reused, hitCap, saving, seen, resumes, kills>>
  PROVE  CellInv'
  <1>1. /\ Pending' = Pending /\ In({"withheld"})' = In({"withheld"})
        /\ In({"failed"})' = In({"failed"}) /\ In({"withheld", "failed"})' = In({"withheld", "failed"})
    <2>1. /\ In({"withheld"})' = In({"withheld"}) /\ In({"failed"})' = In({"failed"})
          /\ In({"withheld", "failed"})' = In({"withheld", "failed"})
      BY MoveOne DEF BookTypes, In
    <2>2. In({"waiting", "calling", "answered", "errored"})'
            = In({"waiting", "calling", "answered", "errored"})
      BY MoveOne DEF BookTypes, In
    <2>3. Pending' = In({"waiting", "calling", "answered", "errored"})'
      BY DEF Pending, InFlight, Calling, Unsaved, In
    <2> QED BY <2>1, <2>2, <2>3, PendingIs
  <1>2. Owed' = Owed /\ Work' = Work
    BY <1>1 DEF Owed, Work
  <1>3. NotTwice' /\ Tally' /\ Covered'
    BY <1>1, <1>2 DEF CellInv, NotTwice, Tally, Covered
  <1> QED BY <1>3 DEF CellInv, CellTypes, SavesRead, CountsAddUp, NothingMissed

\* The counters: what a save and the end of the job do to them.
LEMMA CountSaved ==
  ASSUME NEW c \in Counts, NEW d,
         d = [c EXCEPT !.completed = @ + 1] \/ d = [c EXCEPT !.failed = @ + 1]
  PROVE  /\ d \in Counts /\ d.planned = c.planned /\ d.withheld = c.withheld
         /\ \/ d = [c EXCEPT !.completed = @ + 1] /\ d.completed = c.completed + 1 /\ d.failed = c.failed
            \/ d = [c EXCEPT !.failed = @ + 1] /\ d.failed = c.failed + 1 /\ d.completed = c.completed
  <1>1. c.completed + 1 \in Nat /\ c.failed + 1 \in Nat
    BY DEF Counts
  <1>2. CASE d = [c EXCEPT !.completed = @ + 1]
    BY <1>1, <1>2 DEF Counts
  <1>3. CASE d = [c EXCEPT !.failed = @ + 1]
    BY <1>1, <1>3 DEF Counts
  <1> QED BY <1>2, <1>3

LEMMA CountFields ==
  ASSUME NEW c \in Counts
  PROVE  /\ c.planned \in Nat /\ c.completed \in Nat /\ c.failed \in Nat
         /\ c.withheld \in Nat /\ c.capped \in BOOLEAN
  BY DEF Counts

LEMMA CountFresh ==
  ASSUME NEW work \in SUBSET Items, NEW left \in SUBSET work
  PROVE  LET c == FreshCounts(work, left) IN
         /\ c \in Counts /\ c.failed = 0 /\ c.withheld = 0
         /\ c.planned = c.completed + Cardinality(left)
  <1> DEFINE already == Cardinality(work) - Cardinality(left)
             c == FreshCounts(work, left)
  <1>1. already \in Nat /\ Cardinality(left) \in Nat
    <2>1. IsFiniteSet(work) /\ IsFiniteSet(left) /\ Cardinality(left) <= Cardinality(work)
      BY InFinite, FS_Subset
    <2> QED BY <2>1, FS_CardinalityType
  <1>2. c = [planned |-> already + Cardinality(left), completed |-> already,
              failed |-> 0, withheld |-> 0, capped |-> FALSE]
    BY DEF FreshCounts
  <1> HIDE DEF already, c
  <1>3. /\ c \in Counts /\ c.planned = already + Cardinality(left) /\ c.completed = already
        /\ c.failed = 0 /\ c.withheld = 0
    BY <1>1, <1>2 DEF Counts
  <1> QED BY <1>3 DEF c

LEMMA CellsLoad ==
  ASSUME BookInv, CellInv, NEW S \in ActiveSets, Load(S)
  PROVE  CellInv'
  <1> DEFINE work == S \ CachedTwins(S)
             left == SkipDone(work)
  <1>1. CellTypes /\ S \in SUBSET Items /\ work \in SUBSET Items /\ CachedTwins(S) \in SUBSET Twins
    BY DEF CellInv, CachedTwins
  <1>2. /\ left \in SUBSET work
        /\ \A k \in Keys : Cardinality(Samples(left, k)) = Need(work, k)
    BY <1>1, SkipDoneKeeps DEF CellTypes
  <1>3. /\ phase = "pending" /\ phase' = "dispatch" /\ active' = S /\ reused' = CachedTwins(S)
        /\ state' = [i \in Items |-> IF i \in left THEN "waiting" ELSE "out"]
        /\ counts' = FreshCounts(work, left) /\ hitCap' = FALSE
        /\ UNCHANGED <<held, saving, seen, resumes, kills>>
    BY DEF Load, bounds
  <1>4. Work' = work
    BY <1>3 DEF Work
  <1> HIDE DEF left, work
  <1>5. /\ Pending' = left /\ In({"withheld"})' = {} /\ In({"failed"})' = {} /\ Owed' = left
    <2>1. In({"withheld"})' = {} /\ In({"failed"})' = {} /\ In({"withheld", "failed"})' = {}
      BY <1>3 DEF In
    <2>2. Pending' = left
      BY <1>1, <1>2, <1>3 DEF Pending, InFlight, Calling, Unsaved, In
    <2> QED BY <2>1, <2>2 DEF Owed
  <1>6. saving' = {}
    BY <1>3 DEF BookInv, OneSaves, QuietWhenOver, InFlight
  <1>7. /\ counts' \in Counts /\ counts'.failed = 0 /\ counts'.withheld = 0
        /\ counts'.planned = counts'.completed + Cardinality(left)
    BY <1>1, <1>2, <1>3, CountFresh
  <1>8. CellTypes'
    BY <1>1, <1>3, <1>7 DEF CellTypes
  <1>9. \A k \in Keys : /\ held[k] \in Nat /\ Cardinality(Samples(work, k)) \in Nat
                        /\ held[k] <= Cardinality(Samples(Items, k))
                        /\ Cardinality(Samples(work, k)) <= Cardinality(Samples(Items, k))
                        /\ Cardinality(Samples(Items, k)) \in Nat
    <2> SUFFICES ASSUME NEW k \in Keys
                 PROVE  /\ held[k] \in Nat /\ Cardinality(Samples(work, k)) \in Nat
                        /\ held[k] <= Cardinality(Samples(Items, k))
                        /\ Cardinality(Samples(work, k)) <= Cardinality(Samples(Items, k))
                        /\ Cardinality(Samples(Items, k)) \in Nat
      OBVIOUS
    <2>1. held[k] \in Nat
      BY <1>1 DEF CellTypes
    <2>2. /\ Cardinality(Samples(work, k)) \in Nat /\ Cardinality(Samples(Items, k)) \in Nat
          /\ Cardinality(Samples(Pending, k)) \in Nat
      BY <1>1, CellSets, SamplesCount
    <2>3. Cardinality(Samples(work, k)) <= Cardinality(Samples(Items, k))
      BY <1>1, SamplesGrow
    <2>4. held[k] + Cardinality(Samples(Pending, k)) <= Cardinality(Samples(Items, k))
      BY DEF CellInv, NotTwice
    <2> QED BY <2>1, <2>2, <2>3, <2>4
  <1>10. NotTwice'
    <2>1. \A k \in Keys : held[k] + Need(work, k) <= Cardinality(Samples(Items, k))
      BY <1>9 DEF Need
    <2> QED BY <1>2, <1>3, <1>5, <2>1 DEF NotTwice
  <1>11. Covered'
    <2>1. \A k \in Keys : held[k] + Need(work, k) >= Cardinality(Samples(work, k))
      BY <1>9 DEF Need
    <2> QED BY <1>2, <1>3, <1>4, <1>5, <2>1 DEF Covered
  <1>12. Tally'
    <2>1. Cardinality({}) = 0
      BY FS_EmptySet
    <2>2. Pending' \cup In({"withheld"})' = left
      BY <1>5
    <2>3. counts'.completed \in Nat /\ Cardinality(left) \in Nat
      BY <1>1, <1>2, <1>7, CountFields, InFinite, FS_CardinalityType
    <2>4. counts'.planned = counts'.completed + counts'.failed + Cardinality(left)
      BY <1>7, <2>3
    <2> QED BY <1>3, <1>5, <1>7, <2>1, <2>2, <2>4 DEF Tally
  <1>13. CountsAddUp' /\ NothingMissed'
    BY <1>3 DEF CountsAddUp, NothingMissed
  <1> QED BY <1>6, <1>8, <1>10, <1>11, <1>12, <1>13 DEF CellInv, SavesRead

LEMMA CellsCalls ==
  ASSUME BookInv, CellInv, NEW i \in Items,
         \/ \E p \in PricesOf[i] : StartCall(i, p)
         \/ ReturnOk(i) \/ ReturnError(i)
  PROVE  CellInv'
  <1>1. /\ phase = "dispatch" /\ phase' = "dispatch" /\ state[i] \in {"waiting", "calling"}
        /\ UNCHANGED <<held, counts, active, reused, hitCap, saving, seen, resumes, kills>>
    BY DEF StartCall, ReturnOk, ReturnError, row, attempt, bounds
  <1>2. \E t \in {"calling", "answered", "errored"} : state' = [state EXCEPT ![i] = t]
    BY DEF StartCall, ReturnOk, ReturnError
  <1>3. BookTypes
    BY DEF BookInv
  <1> QED BY <1>1, <1>2, <1>3, CellsMove

LEMMA CellsWithhold ==
  ASSUME BookInv, CellInv, NEW i \in Items, Withhold(i)
  PROVE  CellInv'
  <1>1. /\ phase = "dispatch" /\ phase' = "dispatch" /\ state[i] = "waiting"
        /\ state' = [state EXCEPT ![i] = "withheld"] /\ hitCap' = TRUE
        /\ UNCHANGED <<held, counts, active, reused, saving, seen, resumes, kills>>
    BY DEF Withhold, row, attempt, bounds
  <1>2. BookTypes
    BY DEF BookInv
  <1>3. /\ Pending' = Pending \ {i} /\ i \in Pending
        /\ In({"withheld"})' = In({"withheld"}) \cup {i} /\ In({"failed"})' = In({"failed"})
        /\ In({"withheld", "failed"})' = In({"withheld", "failed"}) \cup {i}
    <2>1. /\ In({"withheld"})' = In({"withheld"}) \cup {i} /\ In({"failed"})' = In({"failed"})
          /\ In({"withheld", "failed"})' = In({"withheld", "failed"}) \cup {i}
          /\ i \notin In({"failed"})
      BY <1>1, <1>2, MoveOne DEF BookTypes, In
    <2>2. /\ In({"waiting"})' = In({"waiting"}) \ {i} /\ Calling' = Calling /\ Unsaved' = Unsaved
          /\ i \in In({"waiting"}) /\ i \notin Calling /\ i \notin Unsaved
      BY <1>1, <1>2, MoveOne DEF BookTypes, Calling, Unsaved, In
    <2> QED BY <2>1, <2>2 DEF Pending, InFlight
  <1>4. /\ Owed' = Owed /\ Work' = Work
        /\ Pending' \cup In({"withheld"})' = Pending \cup In({"withheld"})
    BY <1>1, <1>3 DEF Owed, Work
  <1>5. NotTwice'
    <2> SUFFICES ASSUME NEW k \in Keys
                 PROVE  held[k] + Cardinality(Samples(Pending \ {i}, k)) <= Cardinality(Samples(Items, k))
      BY <1>1, <1>3 DEF NotTwice
    <2>1. Cardinality(Samples(Pending \ {i}, k)) <= Cardinality(Samples(Pending, k))
      BY CellSets, SamplesGrow
    <2>2. /\ held[k] \in Nat /\ Cardinality(Samples(Pending \ {i}, k)) \in Nat
          /\ Cardinality(Samples(Pending, k)) \in Nat /\ Cardinality(Samples(Items, k)) \in Nat
      BY CellSets, SamplesCount DEF CellInv, CellTypes
    <2> QED BY <2>1, <2>2 DEF CellInv, NotTwice
  <1>6. Tally' /\ Covered'
    BY <1>1, <1>3, <1>4 DEF CellInv, Tally, Covered
  <1> QED BY <1>1, <1>5, <1>6 DEF CellInv, CellTypes, SavesRead, CountsAddUp, NothingMissed

LEMMA SeenType ==
  ASSUME CellTypes, NEW S, EndSave(S)
  PROVE  seen' \in [Items -> [counts : Counts, cost : Nat]]
  <1>1. Unread \in [counts : Counts, cost : Nat]
    BY DEF Unread, NoCounts, Counts
  <1> QED BY <1>1 DEF CellTypes, EndSave

-----------------------------------------------------------------------------
(* Saves                                                                     *)

LEMMA CellsPersistBegin ==
  ASSUME BookInv, CellInv, NEW i \in Items, PersistBegin(i)
  PROVE  CellInv'
  <1>1. /\ i \in Unsaved /\ saving' = {i} /\ phase' = phase
        /\ seen' = [seen EXCEPT ![i] = [counts |-> counts, cost |-> runCost]]
        /\ UNCHANGED <<held, counts, active, reused, state, hitCap, resumes, kills>>
    BY DEF PersistBegin, row, attempt, money, bounds
  <1>2. counts \in Counts /\ runCost \in Nat /\ CellTypes
    BY DEF BookInv, BookTypes, CellInv, CellTypes
  <1>3. [counts |-> counts, cost |-> runCost] \in [counts : Counts, cost : Nat]
    BY <1>2
  <1>4. CellTypes'
    BY <1>1, <1>2, <1>3 DEF CellTypes
  <1>5. SavesRead'
    BY <1>1, <1>2 DEF SavesRead, CellTypes
  <1> QED BY <1>1, <1>4, <1>5, CellsKept

\* The item whose transaction commits was in hand and no longer is.
LEMMA Settles ==
  ASSUME BookInv, CellInv, NEW i \in Items, i \in saving, NEW t \in {"saved", "failed"},
         state' = [state EXCEPT ![i] = t]
  PROVE  /\ phase \in {"dispatch", "aborting"} /\ seen[i].counts = counts
         /\ i \in Pending /\ Pending' = Pending \ {i}
         /\ i \notin In({"withheld"}) /\ i \notin In({"failed"})
         /\ In({"withheld"})' = In({"withheld"})
         /\ t = "saved" => In({"failed"})' = In({"failed"}) /\ Owed' = Owed \ {i}
         /\ t = "failed" => In({"failed"})' = In({"failed"}) \cup {i} /\ Owed' = Owed
         /\ Cardinality(Pending' \cup In({"withheld"})')
              = Cardinality(Pending \cup In({"withheld"})) - 1
  <1>1. BookTypes /\ i \in Unsaved /\ seen[i].counts = counts
    BY DEF BookInv, OneSaves, CellInv, SavesRead
  <1>2. phase \in {"dispatch", "aborting"}
    BY <1>1 DEF BookInv, QuietWhenOver, InFlight, BookTypes
  <1>3. /\ state[i] \in {"answered", "errored"}
        /\ i \in Pending /\ i \notin In({"withheld"}) /\ i \notin In({"failed"})
        /\ i \notin In({"withheld", "failed"})
    BY <1>1 DEF Pending, InFlight, Unsaved, In
  <1>4. /\ In({"withheld"})' = In({"withheld"})
        /\ t = "saved" => In({"failed"})' = In({"failed"})
                          /\ In({"withheld", "failed"})' = In({"withheld", "failed"})
        /\ t = "failed" => In({"failed"})' = In({"failed"}) \cup {i}
                           /\ In({"withheld", "failed"})' = In({"withheld", "failed"}) \cup {i}
    BY <1>1, <1>3, MoveOne DEF BookTypes, In
  <1>5. Pending' = Pending \ {i}
    <2>1. In({"waiting", "calling", "answered", "errored"})'
            = In({"waiting", "calling", "answered", "errored"}) \ {i}
      <3> DEFINE s == {"waiting", "calling", "answered", "errored"}
      <3>1. state \in [Items -> States] /\ t \notin s
        BY <1>1 DEF BookTypes
      <3> HIDE DEF s
      <3>2. In(s)' = In(s) \ {i}
        BY <3>1 DEF In
      <3> QED BY <3>2 DEF s
    <2>2. Pending' = In({"waiting", "calling", "answered", "errored"})'
      BY DEF Pending, InFlight, Calling, Unsaved, In
    <2> QED BY <2>1, <2>2, PendingIs
  <1>6. /\ t = "saved" => Owed' = Owed \ {i}
        /\ t = "failed" => Owed' = Owed
    BY <1>3, <1>4, <1>5 DEF Owed
  <1>7. Pending' \cup In({"withheld"})' = (Pending \cup In({"withheld"})) \ {i}
    BY <1>3, <1>4, <1>5
  <1>8. Cardinality((Pending \cup In({"withheld"})) \ {i})
          = Cardinality(Pending \cup In({"withheld"})) - 1
    BY <1>3, CellSets, OneLess
  <1> QED BY <1>1, <1>2, <1>3, <1>4, <1>5, <1>6, <1>7, <1>8

LEMMA CellsPersistAnswer ==
  ASSUME BookInv, CellInv, NEW i \in Items, PersistAnswer(i)
  PROVE  CellInv'
  <1> DEFINE k0 == KeyOf[i]
  <1>1. /\ i \in saving /\ state' = [state EXCEPT ![i] = "saved"]
        /\ held' = [held EXCEPT ![k0] = @ + 1]
        /\ counts' = [seen[i].counts EXCEPT !.completed = @ + 1]
        /\ EndSave({i})
        /\ UNCHANGED <<phase, active, reused, hitCap, resumes, kills>>
    BY DEF PersistAnswer, attempt, money, bounds
  <1>2. /\ phase \in {"dispatch", "aborting"} /\ seen[i].counts = counts
        /\ i \in Pending /\ Pending' = Pending \ {i} /\ In({"withheld"})' = In({"withheld"})
        /\ In({"failed"})' = In({"failed"}) /\ Owed' = Owed \ {i}
        /\ Cardinality(Pending' \cup In({"withheld"})')
             = Cardinality(Pending \cup In({"withheld"})) - 1
    BY <1>1, Settles
  <1>3. CellTypes /\ counts \in Counts /\ held \in [Keys -> Nat] /\ k0 \in Keys
    BY DEF CellInv, CellTypes, Keys
  <1> HIDE DEF k0
  <1>4. \A k \in Keys : held[k] \in Nat /\ held'[k] = held[k] + (IF k0 = k THEN 1 ELSE 0)
    BY <1>1, <1>3
  <1>5. /\ counts' \in Counts /\ counts'.planned = counts.planned
        /\ counts'.withheld = counts.withheld /\ counts'.failed = counts.failed
        /\ counts'.completed = counts.completed + 1
    BY <1>1, <1>2, <1>3 DEF Counts
  <1>6. saving' = {}
    BY <1>1 DEF EndSave, BookInv, OneSaves
  <1>7. CellTypes' /\ SavesRead'
    <2>1. held' \in [Keys -> Nat]
      BY <1>1, <1>3
    <2>2. seen' \in [Items -> [counts : Counts, cost : Nat]]
      BY <1>1, <1>3, SeenType
    <2> QED BY <1>1, <1>3, <1>5, <1>6, <2>1, <2>2 DEF CellTypes, SavesRead
  <1>8. \A k \in Keys :
          /\ held'[k] + Cardinality(Samples(Pending', k)) = held[k] + Cardinality(Samples(Pending, k))
          /\ phase = "dispatch" =>
               held'[k] + Cardinality(Samples(Owed', k)) = held[k] + Cardinality(Samples(Owed, k))
    <2> SUFFICES ASSUME NEW k \in Keys
                 PROVE  /\ held'[k] + Cardinality(Samples(Pending \ {i}, k))
                              = held[k] + Cardinality(Samples(Pending, k))
                        /\ held'[k] + Cardinality(Samples(Owed \ {i}, k))
                              = held[k] + Cardinality(Samples(Owed, k))
      BY <1>2
    <2> DEFINE one == IF k0 = k THEN 1 ELSE 0
    <2>1. i \in Owed
      BY <1>2 DEF Owed
    <2>2. /\ Cardinality(Samples(Pending \ {i}, k)) = Cardinality(Samples(Pending, k)) - one
          /\ Cardinality(Samples(Owed \ {i}, k)) = Cardinality(Samples(Owed, k)) - one
      <3>1. Pending \in SUBSET Items /\ i \in Pending /\ Owed \in SUBSET Items /\ i \in Owed
        BY <1>2, <2>1, CellSets
      <3>2. Cardinality(Samples(Pending \ {i}, k)) = Cardinality(Samples(Pending, k)) - one
        BY <3>1, SamplesRemove DEF k0
      <3>3. Cardinality(Samples(Owed \ {i}, k)) = Cardinality(Samples(Owed, k)) - one
        BY <3>1, SamplesRemove DEF k0
      <3> QED BY <3>2, <3>3
    <2>3. /\ Cardinality(Samples(Pending, k)) \in Nat /\ Cardinality(Samples(Owed, k)) \in Nat
      BY CellSets, SamplesCount
    <2>4. one \in Nat /\ held[k] \in Nat /\ held'[k] = held[k] + one
      BY <1>4
    <2> HIDE DEF one
    <2> QED BY <2>2, <2>3, <2>4
  <1>9. NotTwice'
    BY <1>8 DEF CellInv, NotTwice
  <1>10. phase' = "dispatch" => Tally' /\ Covered'
    <2> SUFFICES ASSUME phase = "dispatch" PROVE Tally' /\ Covered'
      BY <1>1
    <2>1. Tally /\ Covered
      BY DEF CellInv
    <2>2. Work' = Work
      BY <1>1 DEF Work
    <2>3. Covered'
      BY <1>8, <2>1, <2>2 DEF Covered
    <2>4. /\ Cardinality(Pending \cup In({"withheld"})) \in Nat
          /\ counts.completed \in Nat /\ counts.failed \in Nat
      BY <1>3, CellSets, CountFields
    <2>5. counts.planned = counts.completed + counts.failed + Cardinality(Pending \cup In({"withheld"}))
      BY <2>1 DEF Tally
    <2>6. counts'.planned
            = counts'.completed + counts'.failed + Cardinality(Pending' \cup In({"withheld"})')
      BY <1>2, <1>5, <2>4, <2>5
    <2>7. Tally'
      BY <1>1, <1>2, <1>5, <2>1, <2>6 DEF Tally
    <2> QED BY <2>3, <2>7
  <1>11. CountsAddUp' /\ NothingMissed'
    BY <1>1, <1>2 DEF CountsAddUp, NothingMissed
  <1> QED BY <1>7, <1>9, <1>10, <1>11 DEF CellInv

LEMMA CellsPersistError ==
  ASSUME BookInv, CellInv, NEW i \in Items, PersistError(i)
  PROVE  CellInv'
  <1>1. /\ i \in saving /\ state' = [state EXCEPT ![i] = "failed"]
        /\ counts' = [seen[i].counts EXCEPT !.failed = @ + 1]
        /\ EndSave({i})
        /\ UNCHANGED <<phase, held, active, reused, hitCap, resumes, kills>>
    BY DEF PersistError, attempt, money, bounds
  <1>2. /\ phase \in {"dispatch", "aborting"} /\ seen[i].counts = counts
        /\ i \in Pending /\ Pending' = Pending \ {i} /\ In({"withheld"})' = In({"withheld"})
        /\ In({"failed"})' = In({"failed"}) \cup {i} /\ i \notin In({"failed"}) /\ Owed' = Owed
        /\ Cardinality(Pending' \cup In({"withheld"})')
             = Cardinality(Pending \cup In({"withheld"})) - 1
    BY <1>1, Settles
  <1>3. CellTypes /\ counts \in Counts
    BY DEF CellInv, CellTypes
  <1>4. /\ counts' \in Counts /\ counts'.planned = counts.planned
        /\ counts'.withheld = counts.withheld /\ counts'.completed = counts.completed
        /\ counts'.failed = counts.failed + 1
    BY <1>1, <1>2, <1>3 DEF Counts
  <1>5. saving' = {}
    BY <1>1 DEF EndSave, BookInv, OneSaves
  <1>6. CellTypes' /\ SavesRead'
    <2>1. seen' \in [Items -> [counts : Counts, cost : Nat]]
      BY <1>1, <1>3, SeenType
    <2> QED BY <1>1, <1>3, <1>4, <1>5, <2>1 DEF CellTypes, SavesRead
  <1>7. NotTwice'
    <2> SUFFICES ASSUME NEW k \in Keys
                 PROVE  held[k] + Cardinality(Samples(Pending \ {i}, k)) <= Cardinality(Samples(Items, k))
      BY <1>1, <1>2 DEF NotTwice
    <2>1. Cardinality(Samples(Pending \ {i}, k)) <= Cardinality(Samples(Pending, k))
      BY CellSets, SamplesGrow
    <2>2. /\ held[k] \in Nat /\ Cardinality(Samples(Pending \ {i}, k)) \in Nat
          /\ Cardinality(Samples(Pending, k)) \in Nat /\ Cardinality(Samples(Items, k)) \in Nat
      BY <1>3, CellSets, SamplesCount DEF CellTypes
    <2> QED BY <2>1, <2>2 DEF CellInv, NotTwice
  <1>8. phase' = "dispatch" => Tally' /\ Covered'
    <2> SUFFICES ASSUME phase = "dispatch" PROVE Tally' /\ Covered'
      BY <1>1
    <2>1. Tally /\ Covered
      BY DEF CellInv
    <2>2. Work' = Work
      BY <1>1 DEF Work
    <2>3. Covered'
      BY <1>1, <1>2, <2>1, <2>2 DEF Covered
    <2>4. /\ Cardinality(Pending \cup In({"withheld"})) \in Nat
          /\ counts.completed \in Nat /\ counts.failed \in Nat
      BY <1>3, CellSets, CountFields
    <2>5. counts.planned = counts.completed + counts.failed + Cardinality(Pending \cup In({"withheld"}))
      BY <2>1 DEF Tally
    <2>6. counts'.planned
            = counts'.completed + counts'.failed + Cardinality(Pending' \cup In({"withheld"})')
      BY <1>2, <1>4, <2>4, <2>5
    <2>7. Cardinality(In({"failed"}) \cup {i}) = Cardinality(In({"failed"})) + 1
      BY <1>2, CellSets, OneMore
    <2>8. Tally'
      BY <1>1, <1>2, <1>4, <2>1, <2>6, <2>7 DEF Tally
    <2> QED BY <2>3, <2>8
  <1>9. CountsAddUp' /\ NothingMissed'
    BY <1>1, <1>2 DEF CountsAddUp, NothingMissed
  <1> QED BY <1>6, <1>7, <1>8, <1>9 DEF CellInv

\* The end of the job: nothing is in hand, what the cap withheld is counted
\* and each reused twin is stored once.
LEMMA CellsClose ==
  ASSUME BookInv, CellInv, Close
  PROVE  CellInv'
  <1> DEFINE w == Cardinality(In({"withheld"}))
             over == hitCap \/ month + spent > Cap
             d == [counts EXCEPT !.withheld = @ + w]
             twinKeys == {KeyOf[i] : i \in reused}
  <1>1. /\ phase = "dispatch" /\ Pending = {} /\ counts' = [d EXCEPT !.capped = over]
        /\ phase' = Verdict(counts')
        /\ held' = [k \in Keys |-> IF held[k] = 0 /\ k \in twinKeys THEN 1 ELSE held[k]]
        /\ UNCHANGED <<active, reused, state, hitCap, saving, seen, resumes, kills>>
    BY Zenon DEF Close, Finished, Pending, attempt, money, bounds
  <1>2. /\ CellTypes /\ counts \in Counts /\ held \in [Keys -> Nat] /\ Tally /\ Covered
        /\ NotTwice /\ SavesRead /\ w \in Nat /\ over \in BOOLEAN /\ (hitCap => over)
    BY <1>1, CellSets DEF CellInv, CellTypes
  <1> HIDE DEF w, over
  <1>3. /\ d \in Counts /\ d.planned = counts.planned /\ d.completed = counts.completed
        /\ d.failed = counts.failed /\ d.withheld = counts.withheld + w
    BY <1>2 DEF Counts
  <1> HIDE DEF d
  <1>4. /\ counts' \in Counts /\ counts'.planned = counts.planned
        /\ counts'.completed = counts.completed /\ counts'.failed = counts.failed
        /\ counts'.withheld = counts.withheld + w /\ counts'.capped = over
    BY <1>1, <1>2, <1>3 DEF Counts
  <1>5. /\ phase' \in Ended
        /\ phase' = "complete" => ~over
    BY <1>1, <1>4 DEF Verdict
  <1>6. \A s : In(s)' = In(s)
    BY <1>1 DEF In
  <1>7. Pending' = {}
    BY <1>1, <1>6 DEF Pending, InFlight, Calling, Unsaved
  <1>8. \A k \in Keys : held[k] \in Nat /\ held'[k] \in Nat /\ held[k] <= held'[k]
    <2> SUFFICES ASSUME NEW k \in Keys PROVE held[k] \in Nat /\ held'[k] \in Nat /\ held[k] <= held'[k]
      OBVIOUS
    <2>1. held[k] \in Nat
      BY <1>2
    <2>2. held'[k] = IF held[k] = 0 /\ k \in twinKeys THEN 1 ELSE held[k]
      BY <1>1
    <2> QED BY <2>1, <2>2
  <1>9. CellTypes' /\ SavesRead'
    <2>1. saving = {}
      <3>1. Unsaved \subseteq Pending
        BY DEF Pending, InFlight
      <3> QED BY <1>1, <3>1 DEF BookInv, OneSaves
    <2>2. held' \in [Keys -> Nat]
      BY <1>1, <1>8
    <2> QED BY <1>1, <1>2, <1>4, <2>1, <2>2 DEF CellTypes, SavesRead
  <1>10. NotTwice'
    <2> SUFFICES ASSUME NEW k \in Keys
                 PROVE  held'[k] + Cardinality(Samples({}, k)) <= Cardinality(Samples(Items, k))
      BY <1>7 DEF NotTwice
    <2>1. /\ Cardinality(Samples({}, k)) = 0 /\ IsFiniteSet(Samples(Items, k))
          /\ Cardinality(Samples(Items, k)) \in Nat
      <3>1. Samples({}, k) = {}
        BY DEF Samples
      <3> QED BY <3>1, SamplesCount, FS_EmptySet
    <2>2. held[k] <= Cardinality(Samples(Items, k))
      BY <1>1, <1>2, <1>8, <2>1 DEF NotTwice
    <2>3. CASE held[k] = 0 /\ k \in twinKeys
      <3>1. PICK j \in reused : k = KeyOf[j]
        BY <2>3
      <3>2. j \in Samples(Items, k)
        BY <1>2, <3>1 DEF CellTypes, Samples
      <3>3. Cardinality(Samples(Items, k)) # 0
        BY <2>1, <3>2, FS_EmptySet
      <3>4. held'[k] = 1
        BY <1>1, <2>3
      <3> QED BY <2>1, <3>3, <3>4
    <2>4. CASE ~(held[k] = 0 /\ k \in twinKeys)
      <3>1. held'[k] = held[k]
        BY <1>1, <2>4
      <3> QED BY <1>8, <2>1, <2>2, <3>1
    <2> QED BY <2>3, <2>4
  <1>11. CountsAddUp'
    <2>1. counts.planned = counts.completed + counts.failed + w /\ counts.withheld = 0
      BY <1>1, <1>2 DEF Tally, w
    <2> QED BY <1>2, <1>4, <2>1 DEF CountsAddUp
  <1>12. NothingMissed'
    <2> SUFFICES ASSUME phase' = "complete", counts'.failed = 0, NEW i \in active
                 PROVE  held'[KeyOf[i]] >= Cardinality(Samples(active, KeyOf[i]))
      BY <1>1 DEF NothingMissed
    <2>0. PICK k : k = KeyOf[i]
      OBVIOUS
    <2>1. active \in SUBSET Items /\ reused \in SUBSET Twins /\ k \in Keys
      BY <1>2, <2>0 DEF CellTypes, Keys
    <2>2. Owed = {}
      <3>1. In({"withheld"}) = {}
        BY <1>2, <1>5 DEF Tally
      <3>2. Cardinality(In({"failed"})) = 0 /\ IsFiniteSet(In({"failed"}))
        BY <1>2, <1>4, CellSets DEF Tally
      <3>3. In({"failed"}) = {}
        BY <3>2, FS_EmptySet
      <3> QED BY <1>1, <3>1, <3>3 DEF Owed, In
    <2>3. held[k] >= Cardinality(Samples(Work, k))
      <3>1. Cardinality(Samples({}, k)) = 0
        BY FS_EmptySet DEF Samples
      <3>2. held[k] + Cardinality(Samples({}, k)) >= Cardinality(Samples(Work, k))
        BY <1>2, <2>1, <2>2 DEF Covered
      <3> QED BY <1>8, <2>1, <3>1, <3>2
    <2>4. CASE k \in twinKeys
      <3>1. PICK j \in reused : k = KeyOf[j]
        BY <2>4
      <3>2. Samples(active, k) \subseteq {j}
        BY <2>1, <3>1 DEF Samples
      <3>3. Cardinality(Samples(active, k)) <= 1 /\ Cardinality(Samples(active, k)) \in Nat
        <4>1. IsFiniteSet({j}) /\ Cardinality({j}) = 1
          BY FS_Singleton
        <4> QED BY <2>1, <3>2, <4>1, FS_Subset, SamplesCount
      <3>4. held'[k] >= 1
        <4>1. held'[k] = IF held[k] = 0 /\ k \in twinKeys THEN 1 ELSE held[k]
          BY <1>1, <2>1
        <4> QED BY <1>8, <2>1, <2>4, <4>1
      <3> QED BY <1>8, <2>0, <2>1, <3>3, <3>4
    <2>5. CASE k \notin twinKeys
      <3>1. Samples(active, k) = Samples(Work, k)
        BY <2>5 DEF Samples, Work
      <3>2. Cardinality(Samples(active, k)) \in Nat
        BY <2>1, SamplesCount
      <3>3. held[k] >= Cardinality(Samples(active, k))
        BY <2>3, <3>1
      <3>4. held[k] \in Nat /\ held'[k] \in Nat /\ held[k] <= held'[k]
        BY <1>8, <2>1
      <3>5. held'[k] >= Cardinality(Samples(active, k))
        BY <3>2, <3>3, <3>4
      <3> QED BY <2>0, <3>5
    <2> QED BY <2>4, <2>5
  <1> QED BY <1>5, <1>9, <1>10, <1>11, <1>12 DEF CellInv

\* What an exception or a kill throws away was in hand.
LEMMA CellsDrop ==
  ASSUME CellInv, CellTypes', SavesRead', NEW S \in SUBSET Items,
         state' = [i \in Items |-> IF i \in S THEN "gone" ELSE state[i]],
         UNCHANGED held, phase' \in {"aborting", "failed"}
  PROVE  CellInv'
  <1>1. Pending' \subseteq Pending
    <2>1. Pending' = In({"waiting", "calling", "answered", "errored"})'
      BY DEF Pending, InFlight, Calling, Unsaved, In
    <2>2. In({"waiting", "calling", "answered", "errored"})'
            \subseteq In({"waiting", "calling", "answered", "errored"})
      BY DEF In
    <2> QED BY <2>1, <2>2, PendingIs
  <1>2. NotTwice'
    <2> SUFFICES ASSUME NEW k \in Keys
                 PROVE  held[k] + Cardinality(Samples(Pending', k)) <= Cardinality(Samples(Items, k))
      BY DEF NotTwice
    <2>1. Pending \in SUBSET Items /\ Pending' \in SUBSET Pending /\ Pending' \in SUBSET Items
      BY <1>1, CellSets
    <2>2. PICK T : T = Pending'
      OBVIOUS
    <2>3. Cardinality(Samples(T, k)) <= Cardinality(Samples(Pending, k))
      BY <2>1, <2>2, SamplesGrow
    <2>4. /\ held[k] \in Nat /\ Cardinality(Samples(T, k)) \in Nat
          /\ Cardinality(Samples(Pending, k)) \in Nat /\ Cardinality(Samples(Items, k)) \in Nat
      BY <2>1, <2>2, SamplesCount DEF CellInv, CellTypes
    <2> QED BY <2>2, <2>3, <2>4 DEF CellInv, NotTwice
  <1>3. CountsAddUp' /\ NothingMissed'
    BY DEF CountsAddUp, NothingMissed
  <1> QED BY <1>2, <1>3 DEF CellInv

LEMMA CellsInit == Init => CellInv
  <1> SUFFICES ASSUME Init PROVE CellInv
    OBVIOUS
  <1>1. \A s : "out" \notin s => In(s) = {}
    BY DEF Init, In
  <1>2. NoCounts \in Counts
    BY DEF NoCounts, Counts
  <1>3. Unread \in [counts : Counts, cost : Nat]
    BY <1>2 DEF Unread
  <1>4. CellTypes /\ SavesRead
    <2>1. seen \in [Items -> [counts : Counts, cost : Nat]]
      BY <1>3 DEF Init
    <2>2. held \in [Keys -> Nat]
      BY DEF Init
    <2>3. /\ active = {} /\ reused = {} /\ saving = {} /\ hitCap = FALSE
          /\ counts = NoCounts /\ resumes = 0 /\ kills = 0
      BY DEF Init
    <2>4. MaxResumes \in Nat /\ MaxKills \in Nat
      OBVIOUS
    <2>5. resumes \in 0..MaxResumes /\ kills \in 0..MaxKills
      BY <2>3, <2>4
    <2> QED BY <1>2, <2>1, <2>2, <2>3, <2>5 DEF CellTypes, SavesRead
  <1>5. NotTwice
    <2> SUFFICES ASSUME NEW k \in Keys
                 PROVE  held[k] + Cardinality(Samples(Pending, k)) <= Cardinality(Samples(Items, k))
      BY DEF NotTwice
    <2>1. Samples(Pending, k) = {}
      BY <1>1, PendingIs DEF Samples
    <2>2. Cardinality(Samples(Pending, k)) = 0 /\ held[k] = 0
      BY <2>1, FS_EmptySet DEF Init
    <2>3. Cardinality(Samples(Items, k)) \in Nat
      BY SamplesCount
    <2> QED BY <2>2, <2>3
  <1>6. CountsAddUp /\ NothingMissed
    BY DEF Init, CountsAddUp, NothingMissed
  <1> QED BY <1>4, <1>5, <1>6 DEF CellInv, Init

LEMMA CellsThrown ==
  ASSUME BookInv, CellInv,
         \/ \E S \in SUBSET Unsaved : Raise(S) \/ \E i \in Items : PersistFails(i, S)
         \/ Kill
  PROVE  CellInv'
  <1>1. \E D : state' = [i \in Items |-> IF i \in D THEN "gone" ELSE state[i]]
    <2>1. \E D : Drop(D)
      BY DEF Raise, PersistFails, Kill
    <2> QED BY <2>1 DEF Drop
  <1>2. PICK D : state' = [i \in Items |-> IF i \in D THEN "gone" ELSE state[i]]
    BY <1>1
  <1>3. state' = [i \in Items |-> IF i \in D \cap Items THEN "gone" ELSE state[i]]
    BY <1>2
  <1>4. /\ phase' \in {"aborting", "failed"}
        /\ UNCHANGED <<held, counts, active, reused, hitCap, resumes>>
        /\ kills' = kills \/ (kills < MaxKills /\ kills' = kills + 1)
    BY DEF Raise, PersistFails, Kill, row, attempt, money, bounds
  <1>5. \/ UNCHANGED <<saving, seen>>
        \/ \E S : EndSave(S)
    BY DEF Raise, PersistFails, Kill
  <1>6. CellTypes /\ SavesRead
    BY DEF CellInv
  <1>7. seen' \in [Items -> [counts : Counts, cost : Nat]]
    BY <1>5, <1>6, SeenType DEF CellTypes
  <1>8. SavesRead'
    <2>1. CASE UNCHANGED <<saving, seen>>
      BY <1>4, <1>6, <2>1 DEF SavesRead
    <2>2. CASE \E S : EndSave(S)
      <3>1. PICK S : EndSave(S)
        BY <2>2
      <3>2. saving \subseteq Items
        BY DEF BookInv, OneSaves, Unsaved, In
      <3> QED BY <1>4, <1>6, <3>1, <3>2 DEF SavesRead, EndSave
    <2> QED BY <1>5, <2>1, <2>2
  <1>9. CellTypes'
    <2>1. kills' \in 0..MaxKills
      BY <1>4, <1>6 DEF CellTypes
    <2> QED BY <1>4, <1>6, <1>7, <2>1 DEF CellTypes
  <1> QED BY <1>3, <1>4, <1>8, <1>9, CellsDrop

LEMMA CellsRest ==
  ASSUME CellInv, MarkRunFailed \/ Resume \/ UNCHANGED vars
  PROVE  CellInv'
  <1>1. /\ UNCHANGED <<held, counts, active, reused, state, hitCap, saving, seen, kills>>
        /\ resumes' = resumes \/ (resumes < MaxResumes /\ resumes' = resumes + 1)
        /\ phase' = phase \/ phase' \in {"failed", "pending"}
    BY DEF MarkRunFailed, Resume, vars, row, attempt, money, bounds
  <1>2. CellTypes /\ SavesRead
    BY DEF CellInv
  <1>3. resumes' \in 0..MaxResumes
    BY <1>1, <1>2 DEF CellTypes
  <1>4. CellTypes' /\ SavesRead'
    BY <1>1, <1>2, <1>3 DEF CellTypes, SavesRead
  <1> QED BY <1>1, <1>4, CellsKept

LEMMA CellsStep == BookInv /\ CellInv /\ [Next]_vars => CellInv'
  <1> SUFFICES ASSUME BookInv, CellInv, [Next]_vars PROVE CellInv'
    OBVIOUS
  <1>1. CASE \E i \in Items : Dispatch(i)
    BY <1>1, CellsCalls, CellsWithhold DEF Dispatch
  <1>2. CASE \E i \in Items : Persist(i)
    BY <1>2, CellsPersistBegin, CellsPersistAnswer, CellsPersistError DEF Persist
  <1>3. CASE (\E S \in ActiveSets : Load(S)) \/ Close \/ MarkRunFailed
    BY <1>3, CellsLoad, CellsClose, CellsRest
  <1>4. CASE Disturbed
    BY <1>4, CellsThrown, CellsRest DEF Disturbed
  <1>5. CASE UNCHANGED vars
    BY <1>5, CellsRest
  <1> QED BY <1>1, <1>2, <1>3, <1>4, <1>5 DEF Next, Job

-----------------------------------------------------------------------------
(* Losses: what is at risk is in flight, so each interruption loses at most  *)
(* Concurrency of the dearest calls.                                         *)

Risk == In({"calling", "answered"})
OneLoss == Concurrency * Dearest

LossInv ==
  /\ \A i \in Items : price[i] <= Dearest
  /\ Cardinality(InFlight) <= Concurrency
  /\ phase \in {"pending", "dispatch"} => lost <= resumes * OneLoss
  /\ lost + PriceOf(Risk) <= resumes * OneLoss + OneLoss

LEMMA DearestBounds ==
  /\ Dearest \in Nat
  /\ \A i \in Items : \A p \in PricesOf[i] : p <= Dearest
  /\ OneLoss \in Nat
  <1> DEFINE sets == {PricesOf[i] : i \in Items}
             all == (UNION sets) \cup {0}
             g == [i \in Items |-> PricesOf[i]]
  <1>1. g \in [Items -> sets] /\ \A p \in sets : \E i \in Items : g[i] = p
    OBVIOUS
  <1>2. g \in Surjection(Items, sets)
    BY <1>1, Fun_IsSurj
  <1>3. IsFiniteSet(sets)
    BY <1>2, FS_Surjection
  <1>4. \A p \in sets : IsFiniteSet(p)
    OBVIOUS
  <1>5. IsFiniteSet(UNION sets)
    BY <1>3, <1>4, FS_UNION
  <1>6. IsFiniteSet({0})
    BY FS_Singleton
  <1>7. IsFiniteSet(all) /\ all # {}
    BY <1>5, <1>6, FS_Union
  <1>8. \A n \in all : n \in Nat
    OBVIOUS
  <1>9. \A i \in Items : \A p \in PricesOf[i] : p \in all
    OBVIOUS
  <1>10. Dearest = Max(all)
    BY Zenon DEF Dearest
  <1> HIDE DEF all
  <1>11. Dearest \in all /\ \A n \in all : n <= Dearest
    BY <1>7, <1>8, <1>10, MaxBounds
  <1>12. Dearest \in Nat
    BY <1>8, <1>11
  <1> QED BY <1>9, <1>11, <1>12 DEF OneLoss

LEMMA PriceBound ==
  ASSUME NEW S \in SUBSET Items, NEW f, \A i \in S : f[i] \in Nat /\ f[i] <= Dearest,
         Cardinality(S) <= Concurrency
  PROVE  Total(f, S) <= OneLoss
  <1>1. IsFiniteSet(S) /\ Cardinality(S) \in Nat /\ Dearest \in Nat
    BY InFinite, FS_CardinalityType, DearestBounds
  <1>2. Total(f, S) = Cardinality(Units(f, S))
    BY <1>1, TotalType
  <1>3. Units(f, S) \subseteq S \X (1..Dearest)
    <2> SUFFICES ASSUME NEW i \in S, NEW u \in Pile(f, i) PROVE u \in S \X (1..Dearest)
      BY DEF Units
    <2>1. f[i] \in Nat /\ f[i] <= Dearest
      OBVIOUS
    <2>2. 1..f[i] \subseteq 1..Dearest
      BY <1>1, <2>1
    <2> QED BY <2>2 DEF Pile
  <1>4. IsFiniteSet(1..Dearest) /\ Cardinality(1..Dearest) = Dearest
    <2>1. \A n \in Nat : IsFiniteSet(1..n) /\ Cardinality(1..n) = n
      BY FS_Interval
    <2> QED BY <1>1, <2>1
  <1>5. /\ IsFiniteSet(S \X (1..Dearest))
        /\ Cardinality(S \X (1..Dearest)) = Cardinality(S) * Dearest
    BY <1>1, <1>4, FS_Product
  <1>6. Cardinality(Units(f, S)) <= Cardinality(S) * Dearest
    BY <1>3, <1>5, FS_Subset
  <1>7. Cardinality(S) * Dearest <= Concurrency * Dearest
    BY <1>1
  <1>8. Cardinality(Units(f, S)) \in Nat
    BY <1>3, <1>5, FS_Subset, FS_CardinalityType
  <1>9. Cardinality(S) * Dearest \in Nat /\ Concurrency * Dearest \in Nat
    BY <1>1
  <1> QED BY <1>2, <1>6, <1>7, <1>8, <1>9 DEF OneLoss

\* The arithmetic of one more resume.
LEMMA LossGrows ==
  ASSUME NEW r \in Nat
  PROVE  /\ r * OneLoss \in Nat
         /\ (r + 1) * OneLoss = r * OneLoss + OneLoss
  <1>1. OneLoss \in Nat
    BY DearestBounds
  <1> QED BY <1>1

LEMMA RiskSets ==
  /\ Risk \in SUBSET Items /\ InFlight \in SUBSET Items /\ Risk \subseteq InFlight
  /\ Risk = Calling \cup In({"answered"})
  BY DEF Risk, InFlight, Calling, Unsaved, In

\* Steps that put nothing in flight and lose nothing.
LEMMA LossQuiet ==
  ASSUME BookTypes, LossInv, UNCHANGED <<price, lost, resumes>>,
         InFlight' \subseteq InFlight, Risk' \subseteq Risk,
         phase' \in {"pending", "dispatch"} => phase \in {"pending", "dispatch"},
         resumes \in Nat
  PROVE  LossInv'
  <1>1. PICK F, R : F = InFlight' /\ R = Risk'
    OBVIOUS
  <1>2. Cardinality(F) <= Cardinality(InFlight) /\ Cardinality(F) \in Nat
        /\ Cardinality(InFlight) \in Nat
    BY <1>1, RiskSets, InFinite, FS_Subset, FS_CardinalityType
  <1>3. PriceOf(Risk) = PriceOf(R) + PriceOf(Risk \ R) /\ PriceOf(R) \in Nat
        /\ PriceOf(Risk \ R) \in Nat
    <2>1. R \in SUBSET Items /\ (Risk \ R) \in SUBSET Items /\ Risk = R \cup (Risk \ R)
          /\ R \cap (Risk \ R) = {}
      BY <1>1, RiskSets
    <2>2. IsFiniteSet(R) /\ IsFiniteSet(Risk \ R)
      BY <2>1, InFinite
    <2>3. \A x \in R \cup (Risk \ R) : price[x] \in Nat
      BY <2>1 DEF BookTypes
    <2>4. Total(price, R \cup (Risk \ R)) = Total(price, R) + Total(price, Risk \ R)
      BY <2>1, <2>2, <2>3, TotalUnion
    <2> QED BY <2>1, <2>4, PriceOfType DEF PriceOf
  <1>4. PriceOf(Risk)' = PriceOf(R)
    BY <1>1 DEF PriceOf
  <1>5. resumes * OneLoss \in Nat /\ OneLoss \in Nat /\ lost \in Nat
    BY LossGrows, DearestBounds DEF BookTypes
  <1>6. lost + PriceOf(Risk) <= resumes * OneLoss + OneLoss
    BY DEF LossInv
  <1> DEFINE rb == resumes * OneLoss
             pr == PriceOf(R)
             pd == PriceOf(Risk \ R)
  <1>7. lost + (pr + pd) <= rb + OneLoss /\ rb \in Nat /\ pr \in Nat /\ pd \in Nat
    BY <1>3, <1>5, <1>6
  <1> HIDE DEF rb, pr, pd
  <1>8. lost + pr <= rb + OneLoss
    BY <1>5, <1>7
  <1>9. (lost + PriceOf(Risk) <= resumes * OneLoss + OneLoss)'
    BY <1>4, <1>8 DEF rb, pr, OneLoss, Dearest
  <1>10. Cardinality(InFlight)' <= Concurrency
    BY <1>1, <1>2 DEF LossInv
  <1> QED BY <1>9, <1>10 DEF LossInv, OneLoss, Dearest

LEMMA LossStartCall ==
  ASSUME BookInv, BookTypes', LossInv, resumes \in Nat,
         NEW i \in Items, NEW p \in PricesOf[i], StartCall(i, p)
  PROVE  LossInv'
  <1>1. /\ phase = "dispatch" /\ phase' = "dispatch" /\ state[i] = "waiting"
        /\ Cardinality(InFlight) < Concurrency
        /\ state' = [state EXCEPT ![i] = "calling"] /\ price' = [price EXCEPT ![i] = p]
        /\ UNCHANGED <<lost, resumes>>
    BY DEF StartCall, bounds
  <1>2. BookTypes
    BY DEF BookInv
  <1>3. /\ InFlight' = InFlight \cup {i} /\ i \notin InFlight
        /\ Risk' \in SUBSET (InFlight \cup {i})
    <2>1. /\ Calling' = Calling \cup {i} /\ i \notin Calling /\ i \notin Unsaved
          /\ Unsaved' = Unsaved
      BY <1>1, <1>2, MoveOne DEF BookTypes, Calling, Unsaved, In
    <2>2. InFlight' = InFlight \cup {i} /\ i \notin InFlight
      BY <2>1 DEF InFlight
    <2>3. Risk' \subseteq InFlight'
      BY DEF Risk, InFlight, Calling, Unsaved, In
    <2> QED BY <2>2, <2>3
  <1>4. PICK R : R = Risk'
    OBVIOUS
  <1>5. /\ IsFiniteSet(InFlight \cup {i}) /\ Cardinality(InFlight) \in Nat
        /\ Cardinality(InFlight \cup {i}) = Cardinality(InFlight) + 1
    BY <1>3, RiskSets, InFinite, OneMore
  <1>6. Cardinality(InFlight)' <= Concurrency
    BY <1>1, <1>3, <1>5
  <1>7. Cardinality(R) <= Concurrency
    <2>1. Cardinality(R) <= Cardinality(InFlight \cup {i}) /\ Cardinality(R) \in Nat
      BY <1>3, <1>4, <1>5, FS_Subset, FS_CardinalityType
    <2> QED BY <1>1, <1>5, <2>1
  <1>8. \A x \in Items : price'[x] \in Nat /\ price'[x] <= Dearest
    BY <1>1, <1>2, DearestBounds DEF BookTypes, LossInv
  <1>9. Total(price', R) <= OneLoss /\ Total(price', R) \in Nat
    <2>1. PICK f : f = price'
      OBVIOUS
    <2>2. R \in SUBSET Items /\ \A x \in R : f[x] \in Nat /\ f[x] <= Dearest
      BY <1>3, <1>4, <1>8, <2>1, RiskSets
    <2>3. Total(f, R) <= OneLoss
      BY <1>7, <2>2, PriceBound
    <2>4. Total(f, R) \in Nat
      BY <2>2, InFinite, TotalType
    <2> QED BY <2>1, <2>3, <2>4
  <1>10. PriceOf(Risk)' = Total(price', R)
    BY <1>4 DEF PriceOf
  <1>11. (lost + PriceOf(Risk) <= resumes * OneLoss + OneLoss)'
    <2> DEFINE rb == resumes * OneLoss
               t == Total(price', R)
    <2>1. lost <= rb /\ rb \in Nat /\ t \in Nat /\ t <= OneLoss /\ OneLoss \in Nat /\ lost \in Nat
      BY <1>1, <1>2, <1>9, LossGrows, DearestBounds DEF LossInv, BookTypes
    <2> HIDE DEF rb, t
    <2>2. lost + t <= rb + OneLoss
      BY <2>1
    <2> QED BY <1>1, <1>10, <2>2 DEF rb, t, OneLoss, Dearest
  <1> QED BY <1>1, <1>6, <1>8, <1>11 DEF LossInv, OneLoss, Dearest

\* What is thrown away was at risk.
LEMMA LossDrop ==
  ASSUME BookTypes, LossInv, resumes \in Nat, NEW S \in SUBSET Items, Drop(S),
         UNCHANGED <<price, resumes>>, phase' \in {"aborting", "failed"}
  PROVE  LossInv'
  <1>1. /\ state' = [i \in Items |-> IF i \in S THEN "gone" ELSE state[i]]
        /\ lost' = lost + PriceOf(S \cap Risk)
    BY RiskSets DEF Drop
  <1>2. Risk' = Risk \ S /\ InFlight' \subseteq InFlight
    BY <1>1 DEF Risk, InFlight, Calling, Unsaved, In
  <1>3. /\ Risk \ S \in SUBSET Items /\ S \cap Risk \in SUBSET Items
        /\ Risk = (S \cap Risk) \cup (Risk \ S) /\ (S \cap Risk) \cap (Risk \ S) = {}
    BY RiskSets
  <1>4. /\ PriceOf(Risk) = PriceOf(S \cap Risk) + PriceOf(Risk \ S)
        /\ PriceOf(S \cap Risk) \in Nat /\ PriceOf(Risk \ S) \in Nat
    <2>1. IsFiniteSet(S \cap Risk) /\ IsFiniteSet(Risk \ S)
      BY <1>3, InFinite
    <2>2. \A x \in (S \cap Risk) \cup (Risk \ S) : price[x] \in Nat
      BY <1>3 DEF BookTypes
    <2>3. Total(price, (S \cap Risk) \cup (Risk \ S))
            = Total(price, S \cap Risk) + Total(price, Risk \ S)
      BY <1>3, <2>1, <2>2, TotalUnion
    <2> QED BY <1>3, <2>3, PriceOfType DEF PriceOf
  <1>5. PriceOf(Risk)' = PriceOf(Risk \ S)
    BY <1>2 DEF PriceOf
  <1>6. PICK F : F = InFlight'
    OBVIOUS
  <1>7. Cardinality(F) <= Concurrency
    <2>1. /\ Cardinality(F) <= Cardinality(InFlight) /\ Cardinality(F) \in Nat
          /\ Cardinality(InFlight) \in Nat
      BY <1>2, <1>6, RiskSets, InFinite, FS_Subset, FS_CardinalityType
    <2> QED BY <2>1 DEF LossInv
  <1>8. (lost + PriceOf(Risk) <= resumes * OneLoss + OneLoss)'
    <2> DEFINE rb == resumes * OneLoss
               pg == PriceOf(S \cap Risk)
               pk == PriceOf(Risk \ S)
    <2>1. /\ lost + (pg + pk) <= rb + OneLoss /\ lost \in Nat /\ rb \in Nat /\ OneLoss \in Nat
          /\ pg \in Nat /\ pk \in Nat /\ lost' = lost + pg
      BY <1>1, <1>4, LossGrows, DearestBounds DEF LossInv, BookTypes
    <2> HIDE DEF rb, pg, pk
    <2>2. lost' + pk <= rb + OneLoss
      BY <2>1
    <2> QED BY <1>5, <2>2 DEF rb, pk, OneLoss, Dearest
  <1> QED BY <1>6, <1>7, <1>8 DEF LossInv, OneLoss, Dearest

LEMMA LossResume ==
  ASSUME BookTypes, LossInv, resumes \in Nat, Resume
  PROVE  LossInv'
  <1>1. resumes' = resumes + 1 /\ UNCHANGED <<price, state, lost>>
    BY DEF Resume, attempt
  <1>2. Risk' = Risk /\ InFlight' = InFlight
    BY <1>1 DEF Risk, InFlight, Calling, Unsaved, In
  <1>3. PriceOf(Risk)' = PriceOf(Risk) /\ PriceOf(Risk) \in Nat
    BY <1>1, <1>2, RiskSets, PriceOfType DEF PriceOf
  <1> DEFINE rb == resumes * OneLoss
             rn == (resumes + 1) * OneLoss
             pr == PriceOf(Risk)
  <1>4. /\ rn = rb + OneLoss /\ rb \in Nat /\ OneLoss \in Nat /\ pr \in Nat /\ lost \in Nat
        /\ lost + pr <= rb + OneLoss
    BY <1>3, LossGrows, DearestBounds DEF LossInv, BookTypes
  <1> HIDE DEF rb, rn, pr
  <1>5. lost <= rn /\ lost + pr <= rn + OneLoss
    BY <1>4
  <1>6. lost' <= (resumes * OneLoss)' /\ (lost + PriceOf(Risk) <= resumes * OneLoss + OneLoss)'
    BY <1>1, <1>3, <1>5 DEF rn, pr, OneLoss, Dearest
  <1> QED BY <1>1, <1>2, <1>6 DEF LossInv, OneLoss, Dearest

LEMMA LossInit == Init => LossInv
  <1> SUFFICES ASSUME Init PROVE LossInv
    OBVIOUS
  <1>1. Risk = {} /\ InFlight = {}
    BY DEF Init, Risk, InFlight, Calling, Unsaved, In
  <1>2. PriceOf(Risk) = 0 /\ Cardinality(InFlight) = 0
    BY <1>1, TotalNone, FS_EmptySet DEF PriceOf
  <1>3. OneLoss \in Nat /\ Dearest \in Nat /\ 0 * OneLoss = 0
    BY DearestBounds
  <1>4. resumes = 0 /\ lost = 0 /\ \A i \in Items : price[i] = 0
    BY DEF Init
  <1> QED BY <1>2, <1>3, <1>4 DEF LossInv

LEMMA LossStep == BookInv /\ CellInv /\ LossInv /\ [Next]_vars => LossInv'
  <1> SUFFICES ASSUME BookInv, CellInv, LossInv, [Next]_vars PROVE LossInv'
    OBVIOUS
  <1>1. BookTypes /\ BookTypes' /\ resumes \in Nat
    BY BookStep DEF BookInv, CellInv, CellTypes
  <1> DEFINE Quiet == /\ UNCHANGED <<price, lost, resumes>>
                      /\ InFlight' \subseteq InFlight /\ Risk' \subseteq Risk
                      /\ phase' \in {"pending", "dispatch"} => phase \in {"pending", "dispatch"}
  <1>2. Quiet => LossInv'
    BY <1>1, LossQuiet
  <1>3. ASSUME NEW S \in ActiveSets, Load(S) PROVE Quiet
    <2>1. /\ UNCHANGED <<price, lost, resumes>> /\ phase = "pending"
          /\ state' = [i \in Items |-> IF i \in SkipDone(S \ CachedTwins(S)) THEN "waiting" ELSE "out"]
      BY <1>3 DEF Load, bounds
    <2>2. InFlight' = {} /\ Risk' = {}
      BY <2>1 DEF Risk, InFlight, Calling, Unsaved, In
    <2> QED BY <2>1, <2>2
  <1>4. ASSUME NEW i \in Items, NEW p \in PricesOf[i], StartCall(i, p) PROVE LossInv'
    BY <1>1, <1>4, LossStartCall
  <1>5. ASSUME NEW i \in Items,
               \/ Withhold(i) \/ ReturnOk(i) \/ ReturnError(i)
               \/ PersistAnswer(i) \/ PersistError(i)
        PROVE  Quiet
    <2>1. UNCHANGED <<phase, price, lost, resumes>>
      BY <1>5 DEF Withhold, ReturnOk, ReturnError, PersistAnswer, PersistError, bounds, attempt
    <2>2. \/ state[i] = "waiting" /\ state' = [state EXCEPT ![i] = "withheld"]
          \/ state[i] = "calling" /\ state' = [state EXCEPT ![i] = "answered"]
          \/ state[i] = "calling" /\ state' = [state EXCEPT ![i] = "errored"]
          \/ state[i] = "answered" /\ state' = [state EXCEPT ![i] = "saved"]
          \/ state[i] = "errored" /\ state' = [state EXCEPT ![i] = "failed"]
      BY <1>5 DEF Withhold, ReturnOk, ReturnError, PersistAnswer, PersistError
    <2>3. InFlight' \subseteq InFlight /\ Risk' \subseteq Risk
      BY <1>1, <2>2 DEF BookTypes, Risk, InFlight, Calling, Unsaved, In
    <2> QED BY <2>1, <2>3
  <1>6. ASSUME \/ \E i \in Items : PersistBegin(i)
               \/ Close \/ MarkRunFailed \/ UNCHANGED vars
        PROVE  Quiet
    <2>1. /\ UNCHANGED <<state, price, lost, resumes>>
          /\ phase' \in {"pending", "dispatch"} => phase' = phase
      BY <1>6 DEF PersistBegin, Close, Verdict, MarkRunFailed, vars, attempt, bounds
    <2>2. InFlight' = InFlight /\ Risk' = Risk
      BY <2>1 DEF Risk, InFlight, Calling, Unsaved, In
    <2> QED BY <2>1, <2>2
  <1>7. ASSUME \/ \E S \in SUBSET Unsaved : Raise(S) \/ \E i \in Items : PersistFails(i, S)
               \/ Kill
        PROVE  LossInv'
    <2>1. \E D \in SUBSET Items : Drop(D)
      <3>1. /\ In({"waiting"}) \cup InFlight \in SUBSET Items
            /\ \A S \in SUBSET Unsaved : In({"waiting", "calling"}) \cup S \in SUBSET Items
        BY DEF InFlight, Calling, Unsaved, In
      <3>2. CASE \E S \in SUBSET Unsaved : Raise(S)
        BY <3>1, <3>2 DEF Raise
      <3>3. CASE \E S \in SUBSET Unsaved, i \in Items : PersistFails(i, S)
        <4>1. PICK S \in SUBSET Unsaved, i \in Items : PersistFails(i, S)
          BY <3>3
        <4>2. In({"waiting", "calling"}) \cup S \cup {i} \in SUBSET Items
          BY <3>1
        <4> QED BY <4>1, <4>2 DEF PersistFails
      <3>4. CASE Kill
        BY <3>1, <3>4 DEF Kill
      <3> QED BY <1>7, <3>2, <3>3, <3>4
    <2>2. UNCHANGED <<price, resumes>> /\ phase' \in {"aborting", "failed"}
      BY <1>7 DEF Raise, PersistFails, Kill, attempt, bounds
    <2> QED BY <1>1, <2>1, <2>2, LossDrop
  <1> HIDE DEF Quiet
  <1>8. CASE Job
    BY <1>2, <1>3, <1>4, <1>5, <1>6, <1>8 DEF Job, Dispatch, Persist
  <1>9. CASE Disturbed
    BY <1>1, <1>7, <1>9, LossResume DEF Disturbed
  <1> QED BY <1>2, <1>6, <1>8, <1>9 DEF Next

\* For any cells, prices and number of calls in flight, and through any
\* failures, kills and resumes: no cell is answered more often than it has
\* samples, an attempt that ran to its end accounts for each cell it planned,
\* a complete run without failed calls holds every sample its configuration
\* asks for, and an interruption loses at most what was in flight.
THEOREM CellsAskedOnce == Spec => []EachCellOnce
  <1> DEFINE All == BookInv /\ CellInv /\ LossInv
  <1>1. Init => All
    BY BookInit, CellsInit, LossInit
  <1>2. All /\ [Next]_vars => All'
    <2> SUFFICES ASSUME All, [Next]_vars PROVE All'
      OBVIOUS
    <2> QED BY BookStep, CellsStep, LossStep
  <1>3. All => EachCellOnce
    <2> SUFFICES ASSUME All PROVE EachCellOnce
      OBVIOUS
    <2>1. TypeOK
      <3>1. saving \in SUBSET Items
        BY DEF BookInv, OneSaves, Unsaved, In
      <3> QED BY <3>1 DEF BookInv, BookTypes, CellInv, CellTypes, TypeOK
    <2>2. AskedOnce
      <3> SUFFICES ASSUME NEW k \in Keys PROVE held[k] <= Cardinality(Samples(Items, k))
        BY DEF AskedOnce
      <3>1. held[k] + Cardinality(Samples(Pending, k)) <= Cardinality(Samples(Items, k))
        BY DEF CellInv, NotTwice
      <3>2. /\ held[k] \in Nat /\ Cardinality(Samples(Pending, k)) \in Nat
            /\ Cardinality(Samples(Items, k)) \in Nat
        BY CellSets, SamplesCount DEF CellInv, CellTypes
      <3> QED BY <3>1, <3>2
    <2>3. LossBounded
      <3> DEFINE rb == resumes * OneLoss
                 pr == PriceOf(Risk)
      <3>1. /\ lost + pr <= rb + OneLoss /\ pr \in Nat /\ rb \in Nat /\ lost \in Nat
            /\ resumes \in Nat /\ OneLoss \in Nat /\ (resumes + 1) * OneLoss = rb + OneLoss
        BY RiskSets, PriceOfType, LossGrows, DearestBounds
           DEF BookInv, BookTypes, CellInv, CellTypes, LossInv
      <3> HIDE DEF rb, pr
      <3>2. lost <= (resumes + 1) * OneLoss
        BY <3>1
      <3>3. (resumes + 1) * OneLoss = (resumes + 1) * Concurrency * Dearest
        BY <3>1, DearestBounds DEF OneLoss
      <3>4. lost <= (resumes + 1) * Concurrency * Dearest
        BY <3>2, <3>3
      <3> QED BY <3>4, Zenon DEF LossBounded, Dearest
    <2> QED BY <2>1, <2>2, <2>3 DEF CellInv, EachCellOnce
  <1> QED BY <1>1, <1>2, <1>3, PTL DEF Spec
=============================================================================
