---------------------------- MODULE SumTheorems ----------------------------
(***************************************************************************)
(* Facts about SumFunctionOnSet(f, S), the sum of f[x] over x \in S, which *)
(* the ledgers of the model are written with.  The operator is a fold that *)
(* takes the elements of S in the order CHOOSE picks them; the lemmas show *)
(* that the order does not matter and that one entry can be taken out,     *)
(* added or changed.  Each is proved by a smallest counterexample: a       *)
(* non-empty set of subsets of a finite set has a minimal element.         *)
(***************************************************************************)
EXTENDS Functions, FiniteSetTheorems, WellFoundedInduction, TLAPS

\* The element a fold takes next, and the equation its steps satisfy.
Pick(s) == CHOOSE x \in s : TRUE

IsSum(g, f, S) ==
    g = [s \in SUBSET S |-> IF s = {} THEN 0
                                      ELSE f[Pick(s)] + g[s \ {Pick(s)}]]

LEMMA PickIsIn == ASSUME NEW s, s # {} PROVE Pick(s) \in s
BY DEF Pick

\* Among the subsets of a finite set that have a property, one is minimal.
LEMMA MinimalSubset ==
    ASSUME NEW S, IsFiniteSet(S), NEW B, B \subseteq SUBSET S, B # {}
    PROVE  \E s \in B : \A t \in B : ~ (t \subseteq s /\ t # s)
<1> DEFINE R == StrictSubsetOrdering(S)
<1>1. IsWellFoundedOn(R, FiniteSubsetsOf(S))
  BY FS_StrictSubsetOrderingWellFounded
<1>2. B \subseteq FiniteSubsetsOf(S)
  BY FS_Subset DEF FiniteSubsetsOf
<1> HIDE DEF R
<1>3. \E s \in B : \A t \in B : ~ (<<t, s>> \in R)
  BY <1>1, <1>2, WFMin
<1>4. \A s, t \in B : t \subseteq s /\ t # s => <<t, s>> \in R
  BY DEF R, StrictSubsetOrdering
<1> QED  BY <1>3, <1>4

LEMMA SumIsChosen ==
    ASSUME NEW f, NEW S
    PROVE  SumFunctionOnSet(f, S) = (CHOOSE g : IsSum(g, f, S))[S]
BY DEF SumFunctionOnSet, FoldFunctionOnSet, MapThenFoldSet, IsSum, Pick

\* The equation of the fold has at most one solution on a finite set.
LEMMA OneSum ==
    ASSUME NEW S, IsFiniteSet(S), NEW f, NEW g, NEW h,
           IsSum(g, f, S), IsSum(h, f, S)
    PROVE  g = h
<1> DEFINE B == {s \in SUBSET S : g[s] # h[s]}
<1>1. B = {}
  <2> SUFFICES ASSUME B # {} PROVE FALSE  OBVIOUS
  <2>0. B \subseteq SUBSET S  OBVIOUS
  <2>1. PICK s \in B : \A t \in B : ~ (t \subseteq s /\ t # s)
    <3> HIDE DEF B
    <3> QED  BY <2>0, MinimalSubset
  <2>2. s # {}
    BY DEF IsSum
  <2>3. Pick(s) \in s
    BY <2>2, PickIsIn
  <2>4. g[s \ {Pick(s)}] = h[s \ {Pick(s)}]
    BY <2>1, <2>3
  <2>5. g[s] = h[s]
    BY <2>2, <2>4 DEF IsSum
  <2> QED  BY <2>5
<1>2. g = [s \in SUBSET S |-> g[s]] /\ h = [s \in SUBSET S |-> h[s]]
  BY DEF IsSum
<1> QED  BY <1>1, <1>2

\* The sum over a non-empty set takes one picked element and sums the rest.
LEMMA SumStep ==
    ASSUME NEW S, IsFiniteSet(S), NEW f
    PROVE  SumFunctionOnSet(f, S) =
             IF S = {} THEN 0
             ELSE f[Pick(S)] + SumFunctionOnSet(f, S \ {Pick(S)})
<1> DEFINE G(s) == SumFunctionOnSet(f, s)
           Eq(s) == G(s) = IF s = {} THEN 0 ELSE f[Pick(s)] + G(s \ {Pick(s)})
           B == {s \in SUBSET S : ~ Eq(s)}
<1>1. B = {}
  <2> SUFFICES ASSUME B # {} PROVE FALSE  OBVIOUS
  <2>0. B \subseteq SUBSET S  OBVIOUS
  <2>1. PICK T \in B : \A t \in B : ~ (t \subseteq T /\ t # T)
    <3> HIDE DEF B
    <3> QED  BY <2>0, MinimalSubset
  <2> DEFINE h == [s \in SUBSET T |->
                     IF s = {} THEN 0
                     ELSE IF s = T THEN f[Pick(T)] + G(T \ {Pick(T)})
                     ELSE G(s)]
  <2>2. \A s \in SUBSET T : s # T => Eq(s)
    BY <2>1
  <2>3. G({}) = 0 \/ T = {}
    BY <2>2
  <2>4. \A s \in SUBSET T : s # {} => h[s] = f[Pick(s)] + h[s \ {Pick(s)}]
    <3> SUFFICES ASSUME NEW s \in SUBSET T, s # {}
                 PROVE  h[s] = f[Pick(s)] + h[s \ {Pick(s)}]
      OBVIOUS
    <3>1. Pick(s) \in s
      BY PickIsIn
    <3>2. s \ {Pick(s)} # T /\ s \ {Pick(s)} \in SUBSET T
      BY <3>1
    <3>3. h[s \ {Pick(s)}] = G(s \ {Pick(s)})
      BY <3>2, <2>3
    <3>4. h[s] = f[Pick(s)] + G(s \ {Pick(s)})
      BY <2>2
    <3> QED  BY <3>3, <3>4
  <2>5. IsSum(h, f, T)
    <3>1. h[{}] = 0
      OBVIOUS
    <3>2. h = [s \in SUBSET T |-> h[s]]
      OBVIOUS
    <3> HIDE DEF h
    <3> QED  BY <2>4, <3>1, <3>2 DEF IsSum
  <2>6. IsFiniteSet(T)
    BY FS_Subset
  <2> HIDE DEF h
  <2>7. IsSum(CHOOSE g : IsSum(g, f, T), f, T)
    BY <2>5
  <2>8. (CHOOSE g : IsSum(g, f, T)) = h
    BY <2>5, <2>6, <2>7, OneSum
  <2>9. G(T) = h[T]
    BY <2>8, SumIsChosen
  <2>10. Eq(T)
    BY <2>9 DEF h
  <2> QED  BY <2>10
<1>2. Eq(S)
  BY <1>1
<1> QED  BY <1>2

-----------------------------------------------------------------------------
\* A sum of integers is an integer; of naturals, a natural.
LEMMA SumInt ==
    ASSUME NEW S, IsFiniteSet(S), NEW f, \A x \in S : f[x] \in Int
    PROVE  SumFunctionOnSet(f, S) \in Int
<1> DEFINE G(s) == SumFunctionOnSet(f, s)
           B == {s \in SUBSET S : G(s) \notin Int}
<1>1. B = {}
  <2> SUFFICES ASSUME B # {} PROVE FALSE  OBVIOUS
  <2>0. B \subseteq SUBSET S  OBVIOUS
  <2>1. PICK T \in B : \A t \in B : ~ (t \subseteq T /\ t # T)
    <3> HIDE DEF B
    <3> QED  BY <2>0, MinimalSubset
  <2>2. G(T) = IF T = {} THEN 0 ELSE f[Pick(T)] + G(T \ {Pick(T)})
    BY FS_Subset, SumStep
  <2>3. T # {} => Pick(T) \in T
    BY PickIsIn
  <2> HIDE DEF G
  <2>4. T # {} => G(T \ {Pick(T)}) \in Int
    BY <2>1, <2>3
  <2> QED  BY <2>2, <2>3, <2>4
<1> QED  BY <1>1

LEMMA SumNat ==
    ASSUME NEW S, IsFiniteSet(S), NEW f, \A x \in S : f[x] \in Nat
    PROVE  SumFunctionOnSet(f, S) \in Nat
<1> DEFINE G(s) == SumFunctionOnSet(f, s)
           B == {s \in SUBSET S : G(s) \notin Nat}
<1>1. B = {}
  <2> SUFFICES ASSUME B # {} PROVE FALSE  OBVIOUS
  <2>0. B \subseteq SUBSET S  OBVIOUS
  <2>1. PICK T \in B : \A t \in B : ~ (t \subseteq T /\ t # T)
    <3> HIDE DEF B
    <3> QED  BY <2>0, MinimalSubset
  <2>2. G(T) = IF T = {} THEN 0 ELSE f[Pick(T)] + G(T \ {Pick(T)})
    BY FS_Subset, SumStep
  <2>3. T # {} => Pick(T) \in T
    BY PickIsIn
  <2> HIDE DEF G
  <2>4. T # {} => G(T \ {Pick(T)}) \in Nat
    BY <2>1, <2>3
  <2> QED  BY <2>2, <2>3, <2>4
<1> QED  BY <1>1

\* Functions that agree on a set have the same sum over it.
LEMMA SumAgree ==
    ASSUME NEW S, IsFiniteSet(S), NEW f, NEW g, \A x \in S : f[x] = g[x]
    PROVE  SumFunctionOnSet(f, S) = SumFunctionOnSet(g, S)
<1> DEFINE F(s) == SumFunctionOnSet(f, s)
           G(s) == SumFunctionOnSet(g, s)
           B == {s \in SUBSET S : F(s) # G(s)}
<1>1. B = {}
  <2> SUFFICES ASSUME B # {} PROVE FALSE  OBVIOUS
  <2>0. B \subseteq SUBSET S  OBVIOUS
  <2>1. PICK T \in B : \A t \in B : ~ (t \subseteq T /\ t # T)
    <3> HIDE DEF B
    <3> QED  BY <2>0, MinimalSubset
  <2>2. /\ F(T) = IF T = {} THEN 0 ELSE f[Pick(T)] + F(T \ {Pick(T)})
        /\ G(T) = IF T = {} THEN 0 ELSE g[Pick(T)] + G(T \ {Pick(T)})
    BY FS_Subset, SumStep
  <2>3. T # {} => Pick(T) \in T
    BY PickIsIn
  <2> HIDE DEF F, G
  <2>4. T # {} => F(T \ {Pick(T)}) = G(T \ {Pick(T)})
    BY <2>1, <2>3
  <2> QED  BY <2>2, <2>3, <2>4
<1> QED  BY <1>1

\* Any element may be taken out of a sum first, whatever CHOOSE picks.
LEMMA SumTakeOut ==
    ASSUME NEW S, IsFiniteSet(S), NEW f, \A x \in S : f[x] \in Int,
           NEW e \in S
    PROVE  SumFunctionOnSet(f, S) = f[e] + SumFunctionOnSet(f, S \ {e})
<1> DEFINE G(s) == SumFunctionOnSet(f, s)
           B == {s \in SUBSET S : \E x \in s : G(s) # f[x] + G(s \ {x})}
<1>1. B = {}
  <2> SUFFICES ASSUME B # {} PROVE FALSE  OBVIOUS
  <2>0. B \subseteq SUBSET S  OBVIOUS
  <2>1. PICK T \in B : \A t \in B : ~ (t \subseteq T /\ t # T)
    <3> HIDE DEF B
    <3> QED  BY <2>0, MinimalSubset
  <2>2. PICK x \in T : G(T) # f[x] + G(T \ {x})
    OBVIOUS
  <2> DEFINE p == Pick(T)
             U == (T \ {p}) \ {x}
  <2>3. p \in T
    BY PickIsIn
  <2>4. G(T) = f[p] + G(T \ {p})
    BY FS_Subset, SumStep
  <2>5. p # x
    BY <2>2, <2>4
  <2>6. IsFiniteSet(U) /\ U \subseteq S
    BY FS_Subset
  <2>7. G(U) \in Int
    BY <2>6, SumInt
  <2>8. \A V \in SUBSET S : V \subseteq T /\ V # T =>
           \A y \in V : G(V) = f[y] + G(V \ {y})
    BY <2>1
  <2> HIDE DEF p, G, B
  <2>9. G(T \ {p}) = f[x] + G(U)
    <3>1. T \ {p} \in SUBSET S /\ T \ {p} # T /\ x \in T \ {p}
      BY <2>3, <2>5, <2>0
    <3> QED  BY <3>1, <2>8
  <2>10. G(T \ {x}) = f[p] + G(U)
    <3>1. (T \ {x}) \ {p} = U
      OBVIOUS
    <3>2. T \ {x} \in SUBSET S /\ T \ {x} # T /\ p \in T \ {x}
      BY <2>3, <2>5, <2>0
    <3>3. G(T \ {x}) = f[p] + G((T \ {x}) \ {p})
      BY <3>2, <2>8
    <3> QED  BY <3>1, <3>3
  <2>11. f[p] \in Int /\ f[x] \in Int
    BY <2>0, <2>3
  <2> HIDE DEF U
  <2> QED  BY <2>2, <2>4, <2>7, <2>9, <2>10, <2>11
<1>2. S \notin B
  BY <1>1
<1> QED  BY <1>2

\* A new element adds its value to the sum.
LEMMA SumAdd ==
    ASSUME NEW S, IsFiniteSet(S), NEW e, e \notin S,
           NEW f, \A x \in S \cup {e} : f[x] \in Int
    PROVE  SumFunctionOnSet(f, S \cup {e}) = f[e] + SumFunctionOnSet(f, S)
<1>1. IsFiniteSet(S \cup {e})
  BY FS_AddElement
<1>2. (S \cup {e}) \ {e} = S
  OBVIOUS
<1> QED  BY <1>1, <1>2, SumTakeOut

\* Changing one entry changes the sum by the difference.
LEMMA SumChange ==
    ASSUME NEW S, IsFiniteSet(S), NEW f, NEW g, NEW e \in S,
           \A x \in S : f[x] \in Int, g[e] \in Int,
           \A x \in S \ {e} : g[x] = f[x]
    PROVE  SumFunctionOnSet(g, S) = SumFunctionOnSet(f, S) - f[e] + g[e]
<1> DEFINE R == S \ {e}
<1>1. IsFiniteSet(R)
  BY FS_Subset
<1>2. SumFunctionOnSet(f, S) = f[e] + SumFunctionOnSet(f, R)
  BY SumTakeOut
<1>3. SumFunctionOnSet(g, S) = g[e] + SumFunctionOnSet(g, R)
  BY SumTakeOut
<1>4. SumFunctionOnSet(g, R) = SumFunctionOnSet(f, R)
  BY <1>1, SumAgree
<1>5. SumFunctionOnSet(f, R) \in Int /\ f[e] \in Int
  BY <1>1, SumInt
<1> QED  BY <1>2, <1>3, <1>4, <1>5

\* Entries that are 0 add nothing: the sum over the others is the sum.
LEMMA SumZero ==
    ASSUME NEW S, IsFiniteSet(S), NEW f, \A x \in S : f[x] = 0
    PROVE  SumFunctionOnSet(f, S) = 0
<1> DEFINE G(s) == SumFunctionOnSet(f, s)
           B == {s \in SUBSET S : G(s) # 0}
<1>1. B = {}
  <2> SUFFICES ASSUME B # {} PROVE FALSE  OBVIOUS
  <2>0. B \subseteq SUBSET S  OBVIOUS
  <2>1. PICK T \in B : \A t \in B : ~ (t \subseteq T /\ t # T)
    <3> HIDE DEF B
    <3> QED  BY <2>0, MinimalSubset
  <2>2. G(T) = IF T = {} THEN 0 ELSE f[Pick(T)] + G(T \ {Pick(T)})
    BY FS_Subset, SumStep
  <2>3. T # {} => Pick(T) \in T
    BY PickIsIn
  <2> HIDE DEF G
  <2>4. T # {} => G(T \ {Pick(T)}) = 0
    BY <2>1, <2>3
  <2> QED  BY <2>2, <2>3, <2>4
<1> QED  BY <1>1

\* A sum of ones and zeros counts the ones.
LEMMA SumCounts ==
    ASSUME NEW S, IsFiniteSet(S), NEW f, \A x \in S : f[x] \in {0, 1}
    PROVE  SumFunctionOnSet(f, S) = Cardinality({x \in S : f[x] > 0})
<1> DEFINE G(s) == SumFunctionOnSet(f, s)
           N(s) == {x \in s : f[x] > 0}
           B == {s \in SUBSET S : G(s) # Cardinality(N(s))}
<1>1. B = {}
  <2> SUFFICES ASSUME B # {} PROVE FALSE  OBVIOUS
  <2>0. B \subseteq SUBSET S  OBVIOUS
  <2>1. PICK T \in B : \A t \in B : ~ (t \subseteq T /\ t # T)
    <3> HIDE DEF B
    <3> QED  BY <2>0, MinimalSubset
  <2>2. G(T) = IF T = {} THEN 0 ELSE f[Pick(T)] + G(T \ {Pick(T)})
    BY FS_Subset, SumStep
  <2>3. T = {} => N(T) = {}
    OBVIOUS
  <2>4. T # {}
    BY <2>2, <2>3, FS_EmptySet
  <2> DEFINE e == Pick(T)
             R == T \ {e}
  <2>5. e \in T
    BY <2>4, PickIsIn
  <2>6. G(R) = Cardinality(N(R))
    <3>1. R \in SUBSET S /\ R \subseteq T /\ R # T
      BY <2>5
    <3> HIDE DEF G, R, N
    <3> QED
      BY <2>1, <3>1
  <2>7. IsFiniteSet(N(R)) /\ e \notin N(R)
    BY FS_Subset
  <2>8. Cardinality(N(R)) \in Nat
        /\ Cardinality(N(R) \cup {e}) = Cardinality(N(R)) + 1
    BY <2>7, FS_CardinalityType, FS_AddElement
  <2>9. f[e] = 1 => N(T) = N(R) \cup {e}
    BY <2>5
  <2>10. f[e] = 0 => N(T) = N(R)
    BY <2>5
  <2>11. f[e] \in {0, 1}
    BY <2>5
  <2>12. G(T) # Cardinality(N(T))
    OBVIOUS
  <2>13. G(T) = f[e] + G(R)
    BY <2>2, <2>4
  <2> HIDE DEF G, N, R, e
  <2> QED
    BY <2>6, <2>8, <2>9, <2>10, <2>11, <2>12, <2>13
<1>2. S \in SUBSET S
  OBVIOUS
<1> HIDE DEF G, N
<1>3. G(S) = Cardinality(N(S))
  BY <1>1, <1>2
<1> QED
  BY <1>3 DEF G, N

\* A sum is monotone in its terms.
LEMMA SumMonotone ==
    ASSUME NEW S, IsFiniteSet(S), NEW f, NEW g,
           \A x \in S : f[x] \in Int /\ g[x] \in Int /\ f[x] <= g[x]
    PROVE  SumFunctionOnSet(f, S) <= SumFunctionOnSet(g, S)
<1> DEFINE F(s) == SumFunctionOnSet(f, s)
           G(s) == SumFunctionOnSet(g, s)
           B == {s \in SUBSET S : ~ (F(s) <= G(s))}
<1>1. B = {}
  <2> SUFFICES ASSUME B # {} PROVE FALSE  OBVIOUS
  <2>0. B \subseteq SUBSET S  OBVIOUS
  <2>1. PICK T \in B : \A t \in B : ~ (t \subseteq T /\ t # T)
    <3> HIDE DEF B
    <3> QED  BY <2>0, MinimalSubset
  <2> DEFINE U == T \ {Pick(T)}
  <2>2. /\ F(T) = IF T = {} THEN 0 ELSE f[Pick(T)] + F(U)
        /\ G(T) = IF T = {} THEN 0 ELSE g[Pick(T)] + G(U)
    BY FS_Subset, SumStep
  <2>3. T # {} => Pick(T) \in T
    BY PickIsIn
  <2>4. IsFiniteSet(U) /\ U \subseteq S
    BY FS_Subset
  <2>5. F(U) \in Int /\ G(U) \in Int
    BY <2>4, SumInt
  <2> HIDE DEF F, G
  <2>6. T # {} => F(U) <= G(U)
    BY <2>1, <2>3
  <2> HIDE DEF U
  <2> QED  BY <2>2, <2>3, <2>5, <2>6
<1> QED  BY <1>1

\* Of a sum of naturals, no part is more than the whole: not the sum over
\* a subset, not one entry.
LEMMA SumSubset ==
    ASSUME NEW S, IsFiniteSet(S), NEW f, \A x \in S : f[x] \in Nat,
           NEW T \in SUBSET S
    PROVE  SumFunctionOnSet(f, T) <= SumFunctionOnSet(f, S)
<1> DEFINE G(s) == SumFunctionOnSet(f, s)
           B == {s \in SUBSET S : T \subseteq s /\ ~ (G(T) <= G(s))}
<1>0. \A s \in SUBSET S : G(s) \in Nat
  BY FS_Subset, SumNat
<1>1. B = {}
  <2> SUFFICES ASSUME B # {} PROVE FALSE  OBVIOUS
  <2>0. B \subseteq SUBSET S  OBVIOUS
  <2>1. PICK U \in B : \A t \in B : ~ (t \subseteq U /\ t # U)
    <3> HIDE DEF B
    <3> QED  BY <2>0, MinimalSubset
  <2>2. U # T
    BY <1>0
  <2>3. PICK x \in U : x \notin T
    BY <2>2
  <2>4. G(U) = f[x] + G(U \ {x})
    <3>1. IsFiniteSet(U) /\ \A y \in U : f[y] \in Int
      BY FS_Subset
    <3> QED  BY <3>1, SumTakeOut
  <2>5. G(T) <= G(U \ {x})
    <3> HIDE DEF G
    <3> QED  BY <2>1, <2>3
  <2>6. f[x] \in Nat /\ G(U) \in Nat /\ G(U \ {x}) \in Nat /\ G(T) \in Nat
    BY <1>0
  <2> HIDE DEF G
  <2> QED  BY <2>4, <2>5, <2>6
<1>2. S \notin B
  BY <1>1
<1> QED  BY <1>2

LEMMA SumEntry ==
    ASSUME NEW S, IsFiniteSet(S), NEW f, \A x \in S : f[x] \in Nat,
           NEW e \in S
    PROVE  f[e] <= SumFunctionOnSet(f, S)
<1>1. IsFiniteSet(S \ {e})
  BY FS_Subset
<1>2. SumFunctionOnSet(f, S \ {e}) \in Nat
  BY <1>1, SumNat
<1> QED  BY <1>2, SumTakeOut

\* Entries outside T that are 0 add nothing.
LEMMA SumRestrict ==
    ASSUME NEW S, IsFiniteSet(S), NEW f, \A x \in S : f[x] \in Int,
           NEW T \in SUBSET S, \A x \in S \ T : f[x] = 0
    PROVE  SumFunctionOnSet(f, S) = SumFunctionOnSet(f, T)
<1> DEFINE G(s) == SumFunctionOnSet(f, s)
           B == {s \in SUBSET S : T \subseteq s /\ G(s) # G(T)}
<1>1. B = {}
  <2> SUFFICES ASSUME B # {} PROVE FALSE  OBVIOUS
  <2>0. B \subseteq SUBSET S  OBVIOUS
  <2>1. PICK U \in B : \A t \in B : ~ (t \subseteq U /\ t # U)
    <3> HIDE DEF B
    <3> QED  BY <2>0, MinimalSubset
  <2>2. PICK x \in U : x \notin T
    OBVIOUS
  <2>3. G(U) = f[x] + G(U \ {x})
    <3>1. IsFiniteSet(U) /\ \A y \in U : f[y] \in Int
      BY FS_Subset
    <3> QED  BY <3>1, SumTakeOut
  <2>4. f[x] = 0
    BY <2>2
  <2>5. G(U \ {x}) \in Int
    <3>1. IsFiniteSet(U \ {x}) /\ \A y \in U \ {x} : f[y] \in Int
      BY FS_Subset
    <3> QED  BY <3>1, SumInt
  <2>6. G(U \ {x}) = G(T)
    <3> HIDE DEF G
    <3> QED  BY <2>1, <2>2
  <2> HIDE DEF G
  <2>7. G(U) = G(T)
    BY <2>3, <2>4, <2>5, <2>6
  <2> QED  BY <2>7
<1>2. S \notin B
  BY <1>1
<1> QED  BY <1>2

\* The sum of term-by-term sums.
LEMMA SumPlus ==
    ASSUME NEW S, IsFiniteSet(S), NEW f, NEW g, NEW h,
           \A x \in S : f[x] \in Int /\ g[x] \in Int /\ h[x] = f[x] + g[x]
    PROVE  SumFunctionOnSet(h, S) = SumFunctionOnSet(f, S) + SumFunctionOnSet(g, S)
<1> DEFINE F(s) == SumFunctionOnSet(f, s)
           G(s) == SumFunctionOnSet(g, s)
           H(s) == SumFunctionOnSet(h, s)
           B == {s \in SUBSET S : H(s) # F(s) + G(s)}
<1>1. B = {}
  <2> SUFFICES ASSUME B # {} PROVE FALSE  OBVIOUS
  <2>0. B \subseteq SUBSET S  OBVIOUS
  <2>1. PICK T \in B : \A t \in B : ~ (t \subseteq T /\ t # T)
    <3> HIDE DEF B
    <3> QED  BY <2>0, MinimalSubset
  <2> DEFINE U == T \ {Pick(T)}
  <2>2. /\ F(T) = IF T = {} THEN 0 ELSE f[Pick(T)] + F(U)
        /\ G(T) = IF T = {} THEN 0 ELSE g[Pick(T)] + G(U)
        /\ H(T) = IF T = {} THEN 0 ELSE h[Pick(T)] + H(U)
    BY FS_Subset, SumStep
  <2>3. T # {} => Pick(T) \in T
    BY PickIsIn
  <2>4. IsFiniteSet(U) /\ U \subseteq S
    BY FS_Subset
  <2>5. F(U) \in Int /\ G(U) \in Int
    BY <2>4, SumInt
  <2> HIDE DEF F, G, H
  <2>6. T # {} => H(U) = F(U) + G(U)
    BY <2>1, <2>3
  <2> HIDE DEF U
  <2> QED  BY <2>2, <2>3, <2>5, <2>6
<1> QED  BY <1>1

\* A common factor of the terms is a factor of the sum.
LEMMA SumScale ==
    ASSUME NEW S, IsFiniteSet(S), NEW c \in Int, NEW f, NEW h,
           \A x \in S : f[x] \in Int /\ h[x] = c * f[x]
    PROVE  SumFunctionOnSet(h, S) = c * SumFunctionOnSet(f, S)
<1> DEFINE F(s) == SumFunctionOnSet(f, s)
           H(s) == SumFunctionOnSet(h, s)
           B == {s \in SUBSET S : H(s) # c * F(s)}
<1>1. B = {}
  <2> SUFFICES ASSUME B # {} PROVE FALSE  OBVIOUS
  <2>0. B \subseteq SUBSET S  OBVIOUS
  <2>1. PICK T \in B : \A t \in B : ~ (t \subseteq T /\ t # T)
    <3> HIDE DEF B
    <3> QED  BY <2>0, MinimalSubset
  <2> DEFINE p == Pick(T)
             U == T \ {p}
  <2>2. /\ F(T) = IF T = {} THEN 0 ELSE f[p] + F(U)
        /\ H(T) = IF T = {} THEN 0 ELSE h[p] + H(U)
    BY FS_Subset, SumStep
  <2>3. T # {} => p \in T
    BY PickIsIn
  <2>4. IsFiniteSet(U) /\ U \subseteq S
    BY FS_Subset
  <2>5. F(U) \in Int
    BY <2>4, SumInt
  <2>6. H(T) # c * F(T)
    OBVIOUS
  <2> HIDE DEF F, H
  <2>7. T # {} => H(U) = c * F(U)
    BY <2>1, <2>3
  <2>8. T # {} => f[p] \in Int /\ h[p] = c * f[p]
    BY <2>0, <2>3
  <2> HIDE DEF U, p, B
  <2>9. CASE T = {}
    BY <2>2, <2>6, <2>9
  <2>10. CASE T # {}
    <3>1. \A m, n \in Int : c * m + c * n = c * (m + n)
      OBVIOUS
    <3> QED  BY <2>2, <2>5, <2>6, <2>7, <2>8, <2>10, <3>1
  <2> QED  BY <2>9, <2>10
<1> QED  BY <1>1
============================================================================
