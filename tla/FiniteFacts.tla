----------------------------- MODULE FiniteFacts -----------------------------
(* Facts about finite sets that the proofs of several components need:      *)
(* induction over subsets in the form of a smallest counterexample, least   *)
(* and greatest members, subsets of a given size, sizes that change by one  *)
(* member, and sums over a finite set.                                       *)
EXTENDS Integers, FiniteSetsExt, FunctionTheorems, FiniteSetTheorems, WellFoundedInduction, TLAPS

\* A family of subsets of a finite set has a member with no smaller member.
LEMMA SmallestMember ==
  ASSUME NEW S, IsFiniteSet(S), NEW F \in SUBSET (SUBSET S), F # {}
  PROVE  \E T \in F : \A U \in F : ~(U \subseteq T /\ U # T)
<1>1. F \subseteq FiniteSubsetsOf(S)
  BY FS_FiniteSubsetsOfFinite
<1>2. PICK T \in F : \A U \in F : ~(<<U, T>> \in StrictSubsetOrdering(S))
  BY <1>1, FS_StrictSubsetOrderingWellFounded, WFMin
<1>3. \A U \in F : ~(U \subseteq T /\ U # T)
  BY <1>2 DEF StrictSubsetOrdering
<1> QED
  BY <1>3

\* A non-empty finite set of integers has a greatest member.
LEMMA GreatestExists ==
  ASSUME NEW S, \A n \in S : n \in Int, IsFiniteSet(S), S # {}
  PROVE  \E m \in S : \A n \in S : n <= m
<1> DEFINE Bad == {T \in SUBSET S : T # {} /\ ~\E m \in T : \A n \in T : n <= m}
<1> SUFFICES ASSUME Bad # {} PROVE FALSE
  OBVIOUS
<1>1. Bad \in SUBSET (SUBSET S)
  OBVIOUS
<1>2. \E T \in Bad : \A U \in Bad : ~(U \subseteq T /\ U # T)
  <2> HIDE DEF Bad
  <2> QED
    BY <1>1, SmallestMember
<1>3. PICK T \in Bad : \A U \in Bad : ~(U \subseteq T /\ U # T)
  BY <1>2
<1>4. PICK x \in T : TRUE
  OBVIOUS
<1>5. T \in SUBSET S /\ x \in Int /\ \A n \in T : n \in Int
  OBVIOUS
<1>6. T \ {x} # {}
  BY <1>5
<1>7. T \ {x} \notin Bad
  BY <1>3, <1>4
<1>8. PICK m \in T \ {x} : \A n \in T \ {x} : n <= m
  BY <1>5, <1>6, <1>7
<1>9. \A n \in T : n <= m \/ n = x
  BY <1>8
<1>10. m \in Int
  BY <1>5
<1>11. ~(\A n \in T : n <= m) /\ ~(\A n \in T : n <= x)
  BY <1>4, <1>8
<1>12. ~(x <= m)
  BY <1>9, <1>11
<1>13. \A n \in T : n <= x
  BY <1>5, <1>9, <1>10, <1>12
<1> QED
  BY <1>11, <1>13

\* Max and Min of a finite set are members that bound it.
LEMMA MaxBounds ==
  ASSUME NEW S, \A n \in S : n \in Int, IsFiniteSet(S), S # {}
  PROVE  Max(S) \in S /\ \A n \in S : n <= Max(S)
<1>1. PICK m \in S : \A n \in S : m >= n
  BY GreatestExists
<1> QED
  BY <1>1 DEF Max

LEMMA MinBounds ==
  ASSUME NEW S, \A n \in S : n \in Int, IsFiniteSet(S), S # {}
  PROVE  Min(S) \in S /\ \A n \in S : Min(S) <= n
<1> DEFINE Neg == {-n : n \in S}
           neg == [n \in S |-> -n]
<1>1. Neg # {} /\ \A n \in Neg : n \in Int
  <2>1. \A n \in S : -n \in Int
    OBVIOUS
  <2> QED
    BY <2>1
<1>2. neg \in Surjection(S, Neg)
  BY Fun_IsSurj
<1>3. IsFiniteSet(Neg)
  BY <1>2, FS_Surjection
<1> HIDE DEF neg
<1>4. PICK m \in Neg : \A n \in Neg : n <= m
  <2> HIDE DEF Neg
  <2> QED
    BY <1>1, <1>3, GreatestExists
<1>5. PICK k \in S : m = -k
  BY <1>4
<1>6. \A n \in S : k <= n
  BY <1>4, <1>5
<1> QED
  BY <1>6 DEF Min

LEMMA TwoBounds ==
  ASSUME NEW a \in Int, NEW b \in Int
  PROVE  /\ Max({a, b}) \in {a, b} /\ a <= Max({a, b}) /\ b <= Max({a, b})
         /\ Min({a, b}) \in {a, b} /\ Min({a, b}) <= b
<1>1. IsFiniteSet({a}) /\ b \in {a, b} /\ a \in {a, b}
  BY FS_Singleton
<1>2. IsFiniteSet({a} \cup {b})
  BY <1>1, FS_AddElement
<1>3. {a} \cup {b} = {a, b}
  OBVIOUS
<1>4. IsFiniteSet({a, b})
  BY <1>2, <1>3, Zenon
<1>5. \A k \in {a, b} : k \in Int
  OBVIOUS
<1>6. Max({a, b}) \in {a, b} /\ \A k \in {a, b} : k <= Max({a, b})
  BY <1>1, <1>4, <1>5, MaxBounds
<1>7. Min({a, b}) \in {a, b} /\ \A k \in {a, b} : Min({a, b}) <= k
  BY <1>1, <1>4, <1>5, MinBounds
<1> QED
  BY <1>1, <1>6, <1>7

\* A finite set has subsets of every size up to its own.
LEMMA SubsetOfSize ==
  ASSUME NEW S, IsFiniteSet(S), NEW n \in Nat, n <= Cardinality(S)
  PROVE  \E T \in SUBSET S : Cardinality(T) = n
<1> DEFINE Big == {T \in SUBSET S : Cardinality(T) >= n}
<1>1. Big \in SUBSET (SUBSET S) /\ S \in Big
  OBVIOUS
<1>2. \E T \in Big : \A U \in Big : ~(U \subseteq T /\ U # T)
  <2> HIDE DEF Big
  <2> QED
    BY <1>1, SmallestMember
<1>3. PICK T \in Big : \A U \in Big : ~(U \subseteq T /\ U # T)
  BY <1>2
<1>4. IsFiniteSet(T) /\ Cardinality(T) \in Nat /\ Cardinality(T) >= n
  BY FS_Subset, FS_CardinalityType
<1>5. CASE T = {}
  BY <1>4, <1>5, FS_EmptySet
<1>6. CASE T # {}
  <2>1. PICK x \in T : TRUE
    BY <1>6
  <2>2. Cardinality(T \ {x}) = Cardinality(T) - 1
    BY <1>4, <2>1, FS_RemoveElement
  <2>3. T \ {x} \notin Big
    BY <1>3, <2>1
  <2>4. ~(Cardinality(T \ {x}) >= n)
    BY <2>3
  <2> QED
    BY <1>4, <2>2, <2>4
<1> QED
  BY <1>5, <1>6

\* Sizes that change by one member.
LEMMA OneLess ==
  ASSUME NEW S, IsFiniteSet(S), NEW x \in S
  PROVE  /\ IsFiniteSet(S \ {x}) /\ Cardinality(S) \in Nat /\ Cardinality(S) > 0
         /\ Cardinality(S \ {x}) = Cardinality(S) - 1
<1>1. IsFiniteSet(S \ {x}) /\ Cardinality(S \ {x}) = Cardinality(S) - 1
  BY FS_RemoveElement
<1>2. Cardinality(S) \in Nat /\ Cardinality(S \ {x}) \in Nat
  BY <1>1, FS_CardinalityType
<1> QED
  BY <1>1, <1>2

LEMMA OneMore ==
  ASSUME NEW S, IsFiniteSet(S), NEW x, x \notin S
  PROVE  /\ IsFiniteSet(S \cup {x}) /\ Cardinality(S) \in Nat
         /\ Cardinality(S \cup {x}) = Cardinality(S) + 1
  BY FS_AddElement, FS_CardinalityType

LEMMA PlusOne ==
  ASSUME NEW S, IsFiniteSet(S), NEW x
  PROVE  /\ IsFiniteSet(S \cup {x}) /\ Cardinality(S \cup {x}) \in Nat
         /\ Cardinality(S) \in Nat /\ Cardinality(S \cup {x}) <= Cardinality(S) + 1
<1>1. IsFiniteSet(S \cup {x}) /\ Cardinality(S) \in Nat
  BY FS_AddElement, FS_CardinalityType
<1>2. Cardinality(S \cup {x}) = Cardinality(S) \/ Cardinality(S \cup {x}) = Cardinality(S) + 1
  BY FS_AddElement
<1> QED
  BY <1>1, <1>2

-----------------------------------------------------------------------------
(* Sums over finite sets.  FoldSet is a recursive function over the subsets, *)
(* which exists and is unique, by smallest counterexamples; so a sum can be  *)
(* split at any member.                                                      *)

SumOver(f, S) == FoldSet(LAMBDA x, sum : sum + f[x], 0, S)
Picked(s) == CHOOSE x \in s : TRUE
SumStep(f, g, s) == IF s = {} THEN 0 ELSE g[s \ {Picked(s)}] + f[Picked(s)]
IsSum(f, T, g) == g = [s \in SUBSET T |-> SumStep(f, g, s)]

LEMMA PickedIn == ASSUME NEW s, s # {} PROVE Picked(s) \in s
BY DEF Picked

LEMMA SumIsChosen ==
  ASSUME NEW f, NEW S PROVE SumOver(f, S) = (CHOOSE g : IsSum(f, S, g))[S]
BY Zenon DEF SumOver, FoldSet, MapThenFoldSet, IsSum, SumStep, Picked

\* Two solutions of the recursion agree where both are defined.
LEMMA SumUnique ==
  ASSUME NEW f, NEW A, NEW B, NEW g, NEW h, IsSum(f, A, g), IsSum(f, B, h),
         NEW T, IsFiniteSet(T), T \subseteq A, T \subseteq B
  PROVE  g[T] = h[T]
<1> DEFINE Bad == {s \in SUBSET T : g[s] # h[s]}
<1> SUFFICES ASSUME Bad # {} PROVE FALSE
  OBVIOUS
<1>1. PICK s \in Bad : \A U \in Bad : ~(U \subseteq s /\ U # s)
  <2>1. Bad \in SUBSET (SUBSET T)
    OBVIOUS
  <2> HIDE DEF Bad
  <2> QED
    BY <2>1, SmallestMember
<1>2. s \in SUBSET A /\ s \in SUBSET B /\ g[s] # h[s]
  BY <1>1
<1>3. g[s] = SumStep(f, g, s) /\ h[s] = SumStep(f, h, s)
  BY <1>2 DEF IsSum
<1>4. CASE s = {}
  BY <1>2, <1>3, <1>4 DEF SumStep
<1>5. CASE s # {}
  <2>1. Picked(s) \in s
    BY <1>5, PickedIn
  <2>2. s \ {Picked(s)} \notin Bad
    BY <1>1, <2>1
  <2>3. g[s \ {Picked(s)}] = h[s \ {Picked(s)}]
    BY <1>1, <2>2
  <2> QED
    BY <1>2, <1>3, <1>5, <2>3 DEF SumStep
<1> QED
  BY <1>4, <1>5

LEMMA SumExists ==
  ASSUME NEW f, NEW S, IsFiniteSet(S) PROVE \E g : IsSum(f, S, g)
<1> DEFINE Bad == {T \in SUBSET S : ~\E g : IsSum(f, T, g)}
           val(s) == (CHOOSE h : IsSum(f, s, h))[s]
<1> SUFFICES ASSUME Bad # {} PROVE FALSE
  OBVIOUS
<1>1. PICK T \in Bad : \A U \in Bad : ~(U \subseteq T /\ U # T)
  <2>1. Bad \in SUBSET (SUBSET S)
    OBVIOUS
  <2> HIDE DEF Bad
  <2> QED
    BY <2>1, SmallestMember
<1>2. \A s \in SUBSET T : IsFiniteSet(s)
  BY <1>1, FS_Subset
<1>3. \A s \in SUBSET T : s # T => IsSum(f, s, CHOOSE h : IsSum(f, s, h))
  <2> SUFFICES ASSUME NEW s \in SUBSET T, s # T PROVE \E h : IsSum(f, s, h)
    OBVIOUS
  <2>1. s \in SUBSET S /\ s \notin Bad
    BY <1>1
  <2> QED
    BY <2>1
<1>4. \A s \in SUBSET T : s # T /\ s # {} => val(s) = val(s \ {Picked(s)}) + f[Picked(s)]
  <2> SUFFICES ASSUME NEW s \in SUBSET T, s # T, s # {}
               PROVE  val(s) = val(s \ {Picked(s)}) + f[Picked(s)]
    OBVIOUS
  <2>1. PICK t : t = s \ {Picked(s)}
    OBVIOUS
  <2>2. t \in SUBSET T /\ t # T /\ t \subseteq s
    BY <2>1
  <2>3. PICK h : h = CHOOSE k : IsSum(f, s, k)
    OBVIOUS
  <2>4. PICK j : j = CHOOSE k : IsSum(f, t, k)
    OBVIOUS
  <2>5. IsSum(f, s, h) /\ IsSum(f, t, j)
    BY <1>3, <2>2, <2>3, <2>4
  <2>6. h[t] = j[t]
    BY <1>2, <2>2, <2>5, SumUnique
  <2>7. h[s] = h[t] + f[Picked(s)]
    BY <2>1, <2>5 DEF IsSum, SumStep
  <2> QED
    BY <2>1, <2>3, <2>4, <2>6, <2>7
<1>5. T # {} => val({}) = 0
  <2> SUFFICES ASSUME T # {} PROVE val({}) = 0
    OBVIOUS
  <2>1. PICK h : h = CHOOSE k : IsSum(f, {}, k)
    OBVIOUS
  <2>2. IsSum(f, {}, h)
    BY <1>3, <2>1
  <2>3. h[{}] = 0
    BY <2>2 DEF IsSum, SumStep
  <2> QED
    BY <2>1, <2>3
<1> HIDE DEF val
<1> DEFINE top == IF T = {} THEN 0 ELSE val(T \ {Picked(T)}) + f[Picked(T)]
           g == [s \in SUBSET T |-> IF s = T THEN top ELSE val(s)]
<1>6. \A s \in SUBSET T : g[s] = SumStep(f, g, s)
  <2> SUFFICES ASSUME NEW s \in SUBSET T PROVE g[s] = SumStep(f, g, s)
    OBVIOUS
  <2>1. CASE s = {}
    BY <1>5, <2>1 DEF SumStep
  <2>2. CASE s # {}
    <3>1. PICK t : t = s \ {Picked(s)}
      OBVIOUS
    <3>2. t \in SUBSET T /\ t # T
      BY <2>2, <3>1, PickedIn
    <3>3. g[t] = val(t)
      BY <3>2
    <3>4. SumStep(f, g, s) = val(t) + f[Picked(s)]
      <4> HIDE DEF g
      <4> QED
        BY <2>2, <3>1, <3>3 DEF SumStep
    <3>5. CASE s = T
      BY <2>2, <3>1, <3>4, <3>5
    <3>6. CASE s # T
      BY <1>4, <2>2, <3>1, <3>4, <3>6
    <3> QED
      BY <3>5, <3>6
  <2> QED
    BY <2>1, <2>2
<1>7. g = [s \in SUBSET T |-> g[s]]
  OBVIOUS
<1>8. IsSum(f, T, g)
  <2> HIDE DEF g
  <2> QED
    BY <1>6, <1>7 DEF IsSum
<1>9. \E k : IsSum(f, T, k)
  <2> HIDE DEF g
  <2> QED
    BY <1>8
<1> QED
  BY <1>1, <1>9

LEMMA SumEmpty == ASSUME NEW f PROVE SumOver(f, {}) = 0
<1>1. PICK g : g = CHOOSE k : IsSum(f, {}, k)
  OBVIOUS
<1>2. IsSum(f, {}, g)
  BY <1>1, SumExists, FS_EmptySet
<1>3. g[{}] = 0
  BY <1>2 DEF IsSum, SumStep
<1> QED
  BY <1>1, <1>3, SumIsChosen

LEMMA SumPicks ==
  ASSUME NEW f, NEW S, IsFiniteSet(S), S # {}
  PROVE  SumOver(f, S) = SumOver(f, S \ {Picked(S)}) + f[Picked(S)]
<1>1. PICK T : T = S \ {Picked(S)}
  OBVIOUS
<1>2. T \subseteq S /\ IsFiniteSet(T)
  BY <1>1, FS_Subset
<1>3. PICK g : g = CHOOSE k : IsSum(f, S, k)
  OBVIOUS
<1>4. PICK h : h = CHOOSE k : IsSum(f, T, k)
  OBVIOUS
<1>5. IsSum(f, S, g) /\ IsSum(f, T, h)
  BY <1>2, <1>3, <1>4, SumExists
<1>6. g[T] = h[T]
  BY <1>2, <1>5, SumUnique
<1>7. g[S] = g[T] + f[Picked(S)]
  BY <1>1, <1>5 DEF IsSum, SumStep
<1>8. SumOver(f, S) = g[S] /\ SumOver(f, T) = h[T]
  BY <1>3, <1>4, SumIsChosen
<1> QED
  BY <1>1, <1>6, <1>7, <1>8

LEMMA SumIsInt ==
  ASSUME NEW f, NEW S, IsFiniteSet(S), \A x \in S : f[x] \in Int
  PROVE  SumOver(f, S) \in Int
<1> DEFINE Bad == {T \in SUBSET S : SumOver(f, T) \notin Int}
<1> SUFFICES ASSUME Bad # {} PROVE FALSE
  OBVIOUS
<1>1. PICK T \in Bad : \A U \in Bad : ~(U \subseteq T /\ U # T)
  <2>1. Bad \in SUBSET (SUBSET S)
    OBVIOUS
  <2> HIDE DEF Bad
  <2> QED
    BY <2>1, SmallestMember
<1>2. T # {}
  <2>1. SumOver(f, {}) \in Int
    BY SumEmpty
  <2>2. SumOver(f, T) \notin Int
    BY <1>1
  <2> QED
    BY <2>1, <2>2, Zenon
<1>3. Picked(T) \in T /\ IsFiniteSet(T)
  BY <1>1, <1>2, PickedIn, FS_Subset
<1>4. SumOver(f, T \ {Picked(T)}) \in Int
  BY <1>1, <1>3
<1>5. f[Picked(T)] \in Int
  BY <1>1, <1>3
<1>6. SumOver(f, T) = SumOver(f, T \ {Picked(T)}) + f[Picked(T)]
  BY <1>2, <1>3, SumPicks
<1>7. SumOver(f, T) \in Int
  <2> HIDE DEF Bad
  <2> QED
    BY <1>4, <1>5, <1>6
<1> QED
  BY <1>1, <1>7

\* A sum splits at any member.
LEMMA SumSplit ==
  ASSUME NEW f, NEW S, IsFiniteSet(S), \A x \in S : f[x] \in Int, NEW x \in S
  PROVE  SumOver(f, S) = SumOver(f, S \ {x}) + f[x]
<1> DEFINE Splits(T) == \A y \in T : SumOver(f, T) = SumOver(f, T \ {y}) + f[y]
           Bad == {T \in SUBSET S : ~Splits(T)}
<1> SUFFICES ASSUME Bad # {} PROVE FALSE
  OBVIOUS
<1>1. PICK T \in Bad : \A U \in Bad : ~(U \subseteq T /\ U # T)
  <2>1. Bad \in SUBSET (SUBSET S)
    OBVIOUS
  <2> HIDE DEF Bad
  <2> QED
    BY <2>1, SmallestMember
<1>2. T \subseteq S /\ IsFiniteSet(T) /\ \A U \in SUBSET T : IsFiniteSet(U)
  BY <1>1, FS_Subset
<1>3. PICK y \in T : SumOver(f, T) # SumOver(f, T \ {y}) + f[y]
  BY <1>1
<1>4. PICK p \in T : SumOver(f, T) = SumOver(f, T \ {p}) + f[p]
  BY <1>2, <1>3, SumPicks, PickedIn
<1>5. y # p
  BY <1>3, <1>4
<1>6. Splits(T \ {p}) /\ Splits(T \ {y})
  <2>1. T \ {p} \in SUBSET S /\ T \ {y} \in SUBSET S
    BY <1>2
  <2>2. T \ {p} \notin Bad /\ T \ {y} \notin Bad
    BY <1>1, <1>3, <1>4
  <2> QED
    BY <2>1, <2>2
<1>7. PICK W : W = (T \ {p}) \ {y}
  OBVIOUS
<1>8. W = (T \ {y}) \ {p} /\ y \in T \ {p} /\ p \in T \ {y} /\ W \in SUBSET T
  BY <1>5, <1>7
<1>9. SumOver(f, T \ {p}) = SumOver(f, W) + f[y] /\ SumOver(f, T \ {y}) = SumOver(f, W) + f[p]
  BY <1>6, <1>7, <1>8
<1>10. SumOver(f, W) \in Int /\ f[y] \in Int /\ f[p] \in Int
  <2>1. \A z \in W : f[z] \in Int
    BY <1>2, <1>8
  <2>2. SumOver(f, W) \in Int
    BY <1>2, <1>8, <2>1, SumIsInt
  <2> QED
    BY <1>2, <2>2
<1> QED
  BY <1>3, <1>4, <1>9, <1>10

LEMMA SumSame ==
  ASSUME NEW f, NEW g, NEW S, IsFiniteSet(S), \A x \in S : f[x] = g[x]
  PROVE  SumOver(f, S) = SumOver(g, S)
<1> DEFINE Bad == {T \in SUBSET S : SumOver(f, T) # SumOver(g, T)}
<1> SUFFICES ASSUME Bad # {} PROVE FALSE
  OBVIOUS
<1>1. PICK T \in Bad : \A U \in Bad : ~(U \subseteq T /\ U # T)
  <2>1. Bad \in SUBSET (SUBSET S)
    OBVIOUS
  <2> HIDE DEF Bad
  <2> QED
    BY <2>1, SmallestMember
<1>2. T # {}
  BY <1>1, SumEmpty
<1>3. Picked(T) \in T /\ IsFiniteSet(T)
  BY <1>1, <1>2, PickedIn, FS_Subset
<1>4. SumOver(f, T \ {Picked(T)}) = SumOver(g, T \ {Picked(T)})
  BY <1>1, <1>3
<1>5. f[Picked(T)] = g[Picked(T)]
  BY <1>1, <1>3
<1>6. /\ SumOver(f, T) = SumOver(f, T \ {Picked(T)}) + f[Picked(T)]
      /\ SumOver(g, T) = SumOver(g, T \ {Picked(T)}) + g[Picked(T)]
  BY <1>2, <1>3, SumPicks
<1> QED
  BY <1>1, <1>4, <1>5, <1>6

\* A sum moves by as much as one of its terms.
LEMMA SumMoves ==
  ASSUME NEW S, IsFiniteSet(S), NEW f, NEW g, NEW x \in S,
         \A y \in S : f[y] \in Int /\ g[y] \in Int, \A y \in S \ {x} : f[y] = g[y]
  PROVE  SumOver(g, S) = SumOver(f, S) + (g[x] - f[x])
<1>1. IsFiniteSet(S \ {x})
  BY FS_Subset
<1>2. SumOver(f, S \ {x}) = SumOver(g, S \ {x})
  BY <1>1, SumSame
<1>3. SumOver(f, S \ {x}) \in Int
  BY <1>1, SumIsInt
<1>4. SumOver(f, S) = SumOver(f, S \ {x}) + f[x] /\ SumOver(g, S) = SumOver(g, S \ {x}) + g[x]
  BY SumSplit
<1>5. f[x] \in Int /\ g[x] \in Int
  OBVIOUS
<1> QED
  BY <1>2, <1>3, <1>4, <1>5

LEMMA SumIsNat ==
  ASSUME NEW f, NEW S, IsFiniteSet(S), \A x \in S : f[x] \in Nat
  PROVE  SumOver(f, S) \in Nat
<1> DEFINE Bad == {T \in SUBSET S : SumOver(f, T) \notin Nat}
<1> SUFFICES ASSUME Bad # {} PROVE FALSE
  OBVIOUS
<1>1. PICK T \in Bad : \A U \in Bad : ~(U \subseteq T /\ U # T)
  <2>1. Bad \in SUBSET (SUBSET S)
    OBVIOUS
  <2> HIDE DEF Bad
  <2> QED
    BY <2>1, SmallestMember
<1>2. T # {}
  <2>1. SumOver(f, {}) \in Nat
    BY SumEmpty
  <2>2. SumOver(f, T) \notin Nat
    BY <1>1
  <2> QED
    BY <2>1, <2>2, Zenon
<1>3. Picked(T) \in T /\ IsFiniteSet(T)
  BY <1>1, <1>2, PickedIn, FS_Subset
<1>4. SumOver(f, T \ {Picked(T)}) \in Nat
  BY <1>1, <1>3
<1>5. f[Picked(T)] \in Nat
  BY <1>1, <1>3
<1>6. SumOver(f, T) = SumOver(f, T \ {Picked(T)}) + f[Picked(T)]
  BY <1>2, <1>3, SumPicks
<1>7. SumOver(f, T) \in Nat
  <2> HIDE DEF Bad
  <2> QED
    BY <1>4, <1>5, <1>6
<1> QED
  BY <1>1, <1>7

LEMMA SumZero ==
  ASSUME NEW f, NEW S, IsFiniteSet(S), \A x \in S : f[x] = 0
  PROVE  SumOver(f, S) = 0
<1> DEFINE Bad == {T \in SUBSET S : SumOver(f, T) # 0}
<1> SUFFICES ASSUME Bad # {} PROVE FALSE
  OBVIOUS
<1>1. PICK T \in Bad : \A U \in Bad : ~(U \subseteq T /\ U # T)
  <2>1. Bad \in SUBSET (SUBSET S)
    OBVIOUS
  <2> HIDE DEF Bad
  <2> QED
    BY <2>1, SmallestMember
<1>2. T # {}
  BY <1>1, SumEmpty
<1>3. Picked(T) \in T /\ IsFiniteSet(T)
  BY <1>1, <1>2, PickedIn, FS_Subset
<1>4. SumOver(f, T \ {Picked(T)}) = 0 /\ f[Picked(T)] = 0
  BY <1>1, <1>3
<1>5. SumOver(f, T) = SumOver(f, T \ {Picked(T)}) + f[Picked(T)]
  BY <1>2, <1>3, SumPicks
<1> QED
  BY <1>1, <1>4, <1>5
\* The values a function takes on a finite set are finitely many.
LEMMA ImageFinite ==
  ASSUME NEW F, NEW S, IsFiniteSet(S)
  PROVE  IsFiniteSet({F[x] : x \in S}) /\ Cardinality({F[x] : x \in S}) =< Cardinality(S)
<1> DEFINE T == {F[x] : x \in S}
           G == [x \in S |-> F[x]]
<1>1. G \in Surjection(S, T)
  BY DEF Surjection
<1> HIDE DEF G, T
<1>2. IsFiniteSet(T) /\ Cardinality(T) <= Cardinality(S)
  BY <1>1, FS_Surjection
<1> QED
  BY <1>2 DEF T

\* A term by term sum.
LEMMA SumAdds ==
  ASSUME NEW f, NEW g, NEW h, NEW S, IsFiniteSet(S),
         \A x \in S : f[x] \in Int /\ g[x] \in Int /\ h[x] = f[x] + g[x]
  PROVE  SumOver(h, S) = SumOver(f, S) + SumOver(g, S)
<1> DEFINE Bad == {T \in SUBSET S : SumOver(h, T) # SumOver(f, T) + SumOver(g, T)}
<1> SUFFICES ASSUME Bad # {} PROVE FALSE
  OBVIOUS
<1>1. PICK T \in Bad : \A U \in Bad : ~(U \subseteq T /\ U # T)
  <2>1. Bad \in SUBSET (SUBSET S)
    OBVIOUS
  <2> HIDE DEF Bad
  <2> QED
    BY <2>1, SmallestMember
<1>2. T # {}
  <2>1. /\ SumOver(h, {}) = 0 /\ SumOver(f, {}) = 0 /\ SumOver(g, {}) = 0
    BY SumEmpty
  <2>2. SumOver(h, T) # SumOver(f, T) + SumOver(g, T)
    BY <1>1
  <2> HIDE DEF Bad
  <2> QED
    BY <2>1, <2>2
<1>3a. PICK p \in T : p = Picked(T) /\ IsFiniteSet(T) /\ T \subseteq S
  BY <1>1, <1>2, PickedIn, FS_Subset
<1>3b. PICK U : U = T \ {p}
  OBVIOUS
<1>3. /\ p = Picked(T) /\ U = T \ {p} /\ U \subseteq T /\ IsFiniteSet(T) /\ IsFiniteSet(U)
      /\ T \subseteq S
  BY <1>3a, <1>3b, FS_Subset
<1>4. SumOver(h, U) = SumOver(f, U) + SumOver(g, U)
  BY <1>1, <1>3
<1>5. /\ SumOver(f, T) = SumOver(f, U) + f[p] /\ SumOver(g, T) = SumOver(g, U) + g[p]
      /\ SumOver(h, T) = SumOver(h, U) + h[p]
  BY <1>2, <1>3, SumPicks
<1>6. SumOver(f, U) \in Int /\ SumOver(g, U) \in Int
  BY <1>3, SumIsInt
<1>7. h[p] = f[p] + g[p] /\ f[p] \in Int /\ g[p] \in Int
  BY <1>3
<1>8. SumOver(h, T) # SumOver(f, T) + SumOver(g, T)
  BY <1>1
<1> HIDE DEF Bad
<1> QED
  BY <1>4, <1>5, <1>6, <1>7, <1>8

\* Zeros add nothing.
LEMMA SumOfPart ==
  ASSUME NEW f, NEW g, NEW S, NEW A, IsFiniteSet(S), \A x \in S \cap A : f[x] \in Int,
         \A x \in S : g[x] = IF x \in A THEN f[x] ELSE 0
  PROVE  SumOver(g, S) = SumOver(f, S \cap A)
<1> DEFINE Bad == {T \in SUBSET S : SumOver(g, T) # SumOver(f, T \cap A)}
<1> SUFFICES ASSUME Bad # {} PROVE FALSE
  BY Zenon
<1>1. PICK T \in Bad : \A U \in Bad : ~(U \subseteq T /\ U # T)
  <2>1. Bad \in SUBSET (SUBSET S)
    OBVIOUS
  <2> HIDE DEF Bad
  <2> QED
    BY <2>1, SmallestMember
<1>2. T # {}
  <2>1. {} \cap A = {} /\ SumOver(g, {}) = SumOver(f, {})
    BY SumEmpty
  <2>2. SumOver(g, T) # SumOver(f, T \cap A)
    BY <1>1
  <2> HIDE DEF Bad
  <2> QED
    BY <2>1, <2>2
<1>3a. PICK p \in T : p = Picked(T) /\ IsFiniteSet(T) /\ T \subseteq S
  BY <1>1, <1>2, PickedIn, FS_Subset
<1>3b. PICK U : U = T \ {p}
  OBVIOUS
<1>3. /\ p = Picked(T) /\ U = T \ {p} /\ U \subseteq T /\ IsFiniteSet(T) /\ IsFiniteSet(U)
      /\ T \subseteq S
  BY <1>3a, <1>3b, FS_Subset
<1>4. SumOver(g, U) = SumOver(f, U \cap A)
  BY <1>1, <1>3
<1>5. SumOver(g, T) = SumOver(g, U) + g[p] /\ g[p] = IF p \in A THEN f[p] ELSE 0
  BY <1>2, <1>3, SumPicks
<1>6. PICK V : V = T \cap A
  OBVIOUS
<1>7. IsFiniteSet(V) /\ IsFiniteSet(U \cap A) /\ \A x \in V : f[x] \in Int
  BY <1>3, <1>6, FS_Subset
<1>8. SumOver(f, U \cap A) \in Int
  BY <1>3, <1>7, SumIsInt
<1>9. CASE p \in A
  <2>1. SumOver(f, V) = SumOver(f, V \ {p}) + f[p] /\ V \ {p} = U \cap A
    BY <1>3, <1>6, <1>7, <1>9, SumSplit
  <2> QED
    BY <1>1, <1>4, <1>5, <1>6, <1>9, <2>1
<1>10. CASE p \notin A
  <2>1. V = U \cap A
    BY <1>3, <1>6, <1>10
  <2>2. SumOver(g, T) = SumOver(f, V)
    BY <1>4, <1>5, <1>8, <1>10, <2>1
  <2> QED
    BY <1>1, <1>6, <2>2
<1> QED
  BY <1>9, <1>10

\* A part's sum is at most the whole's, where no term is negative.
LEMMA SumOfLess ==
  ASSUME NEW f, NEW S, NEW A, IsFiniteSet(S), \A x \in S : f[x] \in Nat, A \subseteq S
  PROVE  SumOver(f, A) =< SumOver(f, S)
<1> DEFINE g == [x \in S |-> IF x \in A THEN f[x] ELSE 0]
           h == [x \in S |-> IF x \in A THEN 0 ELSE f[x]]
<1>1. SumOver(g, S) = SumOver(f, A)
  <2>1. S \cap A = A
    OBVIOUS
  <2>2. \A x \in S \cap A : f[x] \in Int
    OBVIOUS
  <2> QED
    BY <2>1, <2>2, SumOfPart
<1>2. \A x \in S : g[x] \in Int /\ h[x] \in Int /\ f[x] = g[x] + h[x] /\ h[x] \in Nat /\ g[x] \in Nat
  OBVIOUS
<1> HIDE DEF g, h
<1>3. SumOver(f, S) = SumOver(g, S) + SumOver(h, S)
  BY <1>2, SumAdds
<1>4. SumOver(h, S) \in Nat /\ SumOver(g, S) \in Nat
  BY <1>2, SumIsNat
<1> QED
  BY <1>1, <1>3, <1>4

\* Counting by value: how often a function takes each value of S adds up to
\* how often it takes one of them.
LEMMA SumOfFibers ==
  ASSUME NEW F, NEW I, IsFiniteSet(I), NEW S, IsFiniteSet(S), NEW g,
         \A c \in S : g[c] = Cardinality({i \in I : F[i] = c})
  PROVE  SumOver(g, S) = Cardinality({i \in I : F[i] \in S})
<1> DEFINE Of(T) == {i \in I : F[i] \in T}
           Bad == {T \in SUBSET S : SumOver(g, T) # Cardinality(Of(T))}
<1> SUFFICES ASSUME Bad # {} PROVE FALSE
  OBVIOUS
<1>1. PICK T \in Bad : \A U \in Bad : ~(U \subseteq T /\ U # T)
  <2>1. Bad \in SUBSET (SUBSET S)
    OBVIOUS
  <2> HIDE DEF Bad
  <2> QED
    BY <2>1, SmallestMember
<1>2. T # {}
  <2>1. Of({}) = {}
    OBVIOUS
  <2>2. SumOver(g, {}) = 0 /\ Cardinality(Of({})) = 0
    BY <2>1, SumEmpty, FS_EmptySet
  <2>3. SumOver(g, T) # Cardinality(Of(T))
    BY <1>1
  <2> HIDE DEF Bad, Of
  <2> QED
    BY <2>2, <2>3
<1>3a. PICK p \in T : p = Picked(T) /\ IsFiniteSet(T) /\ T \subseteq S
  BY <1>1, <1>2, PickedIn, FS_Subset
<1>3b. PICK U : U = T \ {p}
  OBVIOUS
<1>3. /\ p = Picked(T) /\ U = T \ {p} /\ U \subseteq T /\ IsFiniteSet(T) /\ IsFiniteSet(U)
      /\ T \subseteq S
  BY <1>3a, <1>3b, FS_Subset
<1>4. SumOver(g, U) = Cardinality(Of(U))
  BY <1>1, <1>3
<1>5. SumOver(g, T) = SumOver(g, U) + Cardinality({i \in I : F[i] = p})
  <2>1. SumOver(g, T) = SumOver(g, U) + g[p]
    BY <1>2, <1>3, SumPicks
  <2> QED
    BY <1>3, <2>1
<1>6. Cardinality(Of(T)) = Cardinality(Of(U)) + Cardinality({i \in I : F[i] = p})
  <2>1. PICK A, B : A = Of(U) /\ B = {i \in I : F[i] = p}
    OBVIOUS
  <2>2. IsFiniteSet(A) /\ IsFiniteSet(B)
    BY <2>1, FS_Subset
  <2>3. A \cup B = Of(T) /\ A \cap B = {}
    BY <1>3, <2>1
  <2>4. Cardinality(A \cup B) = Cardinality(A) + Cardinality(B) - 0
    BY <2>2, <2>3, FS_Union, FS_EmptySet
  <2>5. Cardinality(A) \in Nat /\ Cardinality(B) \in Nat
    BY <2>2, FS_CardinalityType
  <2>6. Cardinality(A \cup B) = Cardinality(A) + Cardinality(B)
    BY <2>4, <2>5
  <2> HIDE DEF Of, Bad
  <2> QED
    BY <2>1, <2>3, <2>6
<1> QED
  BY <1>1, <1>4, <1>5, <1>6
=============================================================================
