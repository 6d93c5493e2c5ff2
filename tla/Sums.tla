-------------------------------- MODULE Sums --------------------------------
(***************************************************************************)
(* Facts about the sum of a function over a finite set, in the form that     *)
(* MapThenSumSet of the community modules computes it: adding an element,    *)
(* changing one value, and the type of the sum.                              *)
(*                                                                         *)
(* Each is proved by way of a smallest set that would refute it: the strict  *)
(* subsets of a finite set are well founded.                                 *)
(***************************************************************************)
EXTENDS Integers, FiniteSetsExt, FiniteSetTheorems, WellFoundedInduction, TLAPS

\* Among some subsets of a finite set one has none of the others within it.
LEMMA SmallestSubset ==
    ASSUME NEW S, IsFiniteSet(S), NEW F, F \subseteq SUBSET S, F # {}
    PROVE  \E T \in F : \A U \in F : U \subseteq T => U = T
<1>1. IsWellFoundedOn(StrictSubsetOrdering(S), SUBSET S)
  BY FS_StrictSubsetOrderingWellFounded, FS_FiniteSubsetsOfFinite, Zenon
<1>2. PICK T \in F : \A U \in F : <<U, T>> \notin StrictSubsetOrdering(S)
  BY <1>1, WFMin, Zenon
<1>3. ASSUME NEW U \in F, U \subseteq T PROVE U = T
  <2>1. U \in SUBSET S /\ T \in SUBSET S
    OBVIOUS
  <2>2. SUFFICES ASSUME U # T PROVE <<U, T>> \in StrictSubsetOrdering(S)
    BY <1>2
  <2> QED BY <1>3, <2>1, <2>2 DEF StrictSubsetOrdering
<1> QED BY <1>3

---------------------------------------------------------------------------
(* The recursion behind MapThenSumSet *)

One(T) == CHOOSE x \in T : TRUE
Less(T) == T \ {One(T)}

\* The function g sums f over the subsets of S, an element at a time.
Adds(f, S, g) ==
    g = [T \in SUBSET S |-> IF T = {} THEN 0 ELSE f[One(T)] + g[Less(T)]]

SumOver(f, S) == (CHOOSE g : Adds(f, S, g))[S]

\* The sum that the community modules compute.
LEMMA SumOverIs ==
    ASSUME NEW f, NEW S
    PROVE  MapThenSumSet(LAMBDA s : f[s], S) = SumOver(f, S)
BY DEF SumOver, MapThenSumSet, MapThenFoldSet, Adds, One, Less

LEMMA LessIsLess ==
    ASSUME NEW T, T # {}
    PROVE  One(T) \in T /\ Less(T) \subseteq T /\ Less(T) # T
BY DEF One, Less

LEMMA AddsValue ==
    ASSUME NEW f, NEW S, NEW g, Adds(f, S, g), NEW T \in SUBSET S
    PROVE  g[T] = IF T = {} THEN 0 ELSE f[One(T)] + g[Less(T)]
BY DEF Adds

\* Two functions that sum f agree where both do.
LEMMA AddsAgree ==
    ASSUME NEW f, NEW S, IsFiniteSet(S), NEW U \in SUBSET S,
           NEW g, Adds(f, S, g), NEW h, Adds(f, U, h), NEW V \in SUBSET U
    PROVE  g[V] = h[V]
<1> DEFINE Bad == {T \in SUBSET U : g[T] # h[T]}
<1>1. SUFFICES ASSUME Bad # {} PROVE FALSE
  OBVIOUS
<1>2. IsFiniteSet(U)
  BY FS_Subset
<1>3. PICK T \in Bad : \A W \in Bad : W \subseteq T => W = T
  <2>1. Bad \subseteq SUBSET U
    OBVIOUS
  <2> HIDE DEF Bad
  <2> QED BY <1>1, <1>2, <2>1, SmallestSubset
<1>4. T \in SUBSET U /\ T \in SUBSET S /\ g[T] # h[T]
  OBVIOUS
<1>5. T # {}
  BY <1>4, AddsValue
<1>6. Less(T) \notin Bad
  BY <1>3, <1>5, LessIsLess
<1>7. Less(T) \in SUBSET U
  BY <1>4, <1>5, LessIsLess
<1>8. g[Less(T)] = h[Less(T)]
  BY <1>6, <1>7
<1>9. g[T] = f[One(T)] + g[Less(T)] /\ h[T] = f[One(T)] + h[Less(T)]
  BY <1>4, <1>5, AddsValue
<1> QED BY <1>4, <1>8, <1>9

\* A function that sums f over the subsets of S.
LEMMA AddsExists ==
    ASSUME NEW f, NEW S, IsFiniteSet(S)
    PROVE  \E g : Adds(f, S, g)
<1> DEFINE Bad == {T \in SUBSET S : ~\E g : Adds(f, T, g)}
<1>1. SUFFICES ASSUME Bad # {} PROVE FALSE
  OBVIOUS
<1>2. PICK T \in Bad : \A W \in Bad : W \subseteq T => W = T
  <2>1. Bad \subseteq SUBSET S
    OBVIOUS
  <2> HIDE DEF Bad
  <2> QED BY <1>1, <2>1, SmallestSubset
<1>3. T \in SUBSET S /\ IsFiniteSet(T) /\ ~\E g : Adds(f, T, g)
  BY FS_Subset
<1>4. ASSUME NEW W \in SUBSET T, W # T
      PROVE  Adds(f, W, CHOOSE g : Adds(f, W, g)) /\ IsFiniteSet(W)
  <2>1. W \notin Bad /\ W \in SUBSET S
    BY <1>2, <1>3, <1>4
  <2>2. \E g : Adds(f, W, g)
    BY <2>1
  <2> QED BY <1>3, <2>2, FS_Subset
<1>5. ASSUME NEW W \in SUBSET T, W # T
      PROVE  SumOver(f, W) = IF W = {} THEN 0 ELSE f[One(W)] + SumOver(f, Less(W))
  <2> DEFINE h == CHOOSE g : Adds(f, W, g)
  <2>1. Adds(f, W, h) /\ IsFiniteSet(W) /\ SumOver(f, W) = h[W]
    BY <1>4, <1>5 DEF SumOver
  <2> HIDE DEF h
  <2>2. h[W] = IF W = {} THEN 0 ELSE f[One(W)] + h[Less(W)]
    BY <2>1, AddsValue
  <2>3. CASE W = {}
    BY <2>1, <2>2, <2>3
  <2>4. CASE W # {}
    <3>1. Less(W) \in SUBSET W /\ Less(W) \in SUBSET T /\ Less(W) # T
      BY <1>5, <2>4, LessIsLess
    <3> DEFINE k == CHOOSE g : Adds(f, Less(W), g)
    <3>2. Adds(f, Less(W), k) /\ SumOver(f, Less(W)) = k[Less(W)]
      BY <1>4, <3>1 DEF SumOver
    <3> HIDE DEF k
    <3>3. h[Less(W)] = k[Less(W)]
      BY <2>1, <3>1, <3>2, AddsAgree
    <3> QED BY <2>1, <2>2, <2>4, <3>2, <3>3
  <2> QED BY <2>3, <2>4
<1> DEFINE g == [W \in SUBSET T |-> IF W = {} THEN 0 ELSE f[One(W)] + SumOver(f, Less(W))]
<1>6. ASSUME NEW W \in SUBSET T, W # {}
      PROVE  g[Less(W)] = SumOver(f, Less(W))
  <2>1. Less(W) \in SUBSET T /\ Less(W) # T
    BY <1>6, LessIsLess
  <2>2. SumOver(f, Less(W)) =
          IF Less(W) = {} THEN 0 ELSE f[One(Less(W))] + SumOver(f, Less(Less(W)))
    BY <1>5, <2>1
  <2> QED BY <2>1, <2>2
<1>7. g = [W \in SUBSET T |-> IF W = {} THEN 0 ELSE f[One(W)] + g[Less(W)]]
  <2>1. \A W \in SUBSET T : g[W] = IF W = {} THEN 0 ELSE f[One(W)] + g[Less(W)]
    BY <1>6
  <2>2. g = [W \in SUBSET T |-> g[W]]
    OBVIOUS
  <2> HIDE DEF g
  <2> QED BY <2>1, <2>2
<1>8. Adds(f, T, g)
  BY <1>7 DEF Adds
<1> QED BY <1>3, <1>8

LEMMA SumRecursion ==
    ASSUME NEW f, NEW S, IsFiniteSet(S)
    PROVE  SumOver(f, S) = IF S = {} THEN 0 ELSE f[One(S)] + SumOver(f, Less(S))
<1> DEFINE h == CHOOSE g : Adds(f, S, g)
<1>1. Adds(f, S, h) /\ SumOver(f, S) = h[S]
  BY AddsExists DEF SumOver
<1> HIDE DEF h
<1>2. h[S] = IF S = {} THEN 0 ELSE f[One(S)] + h[Less(S)]
  BY <1>1, AddsValue
<1>3. CASE S = {}
  BY <1>1, <1>2, <1>3
<1>4. CASE S # {}
  <2>1. Less(S) \in SUBSET S /\ IsFiniteSet(Less(S))
    BY <1>4, LessIsLess, FS_Subset
  <2> DEFINE k == CHOOSE g : Adds(f, Less(S), g)
  <2>2. Adds(f, Less(S), k) /\ SumOver(f, Less(S)) = k[Less(S)]
    BY <2>1, AddsExists DEF SumOver
  <2> HIDE DEF k
  <2>3. h[Less(S)] = k[Less(S)]
    BY <1>1, <2>1, <2>2, AddsAgree
  <2> QED BY <1>1, <1>2, <1>4, <2>2, <2>3
<1> QED BY <1>3, <1>4

---------------------------------------------------------------------------
(* What the proofs about sums use *)

LEMMA SumEmpty == ASSUME NEW f PROVE SumOver(f, {}) = 0
BY SumRecursion, FS_EmptySet

LEMMA SumInt ==
    ASSUME NEW S, IsFiniteSet(S), NEW f, \A s \in S : f[s] \in Int
    PROVE  SumOver(f, S) \in Int
<1> DEFINE Bad == {T \in SUBSET S : SumOver(f, T) \notin Int}
<1>1. SUFFICES ASSUME Bad # {} PROVE FALSE
  OBVIOUS
<1>2. PICK T \in Bad : \A W \in Bad : W \subseteq T => W = T
  <2>1. Bad \subseteq SUBSET S
    OBVIOUS
  <2> HIDE DEF Bad
  <2> QED BY <1>1, <2>1, SmallestSubset
<1>3. T \in SUBSET S /\ IsFiniteSet(T) /\ SumOver(f, T) \notin Int
  BY FS_Subset
<1>4. T # {}
  BY <1>3, SumEmpty
<1>5. One(T) \in T /\ Less(T) \in SUBSET T /\ Less(T) # T
  BY <1>4, LessIsLess
<1>6. Less(T) \notin Bad /\ Less(T) \in SUBSET S
  BY <1>2, <1>3, <1>5
<1>7. SumOver(f, Less(T)) \in Int /\ f[One(T)] \in Int
  BY <1>3, <1>5, <1>6
<1>8. SumOver(f, T) = f[One(T)] + SumOver(f, Less(T))
  BY <1>3, <1>4, SumRecursion
<1> QED BY <1>3, <1>7, <1>8

\* Any element may be counted first.
LEMMA SumTakeOne ==
    ASSUME NEW S, IsFiniteSet(S), NEW f, \A s \in S : f[s] \in Int, NEW x \in S
    PROVE  SumOver(f, S) = f[x] + SumOver(f, S \ {x})
<1> DEFINE Bad == {T \in SUBSET S : \E y \in T : SumOver(f, T) # f[y] + SumOver(f, T \ {y})}
<1>1. SUFFICES ASSUME Bad # {} PROVE FALSE
  OBVIOUS
<1>2. PICK T \in Bad : \A W \in Bad : W \subseteq T => W = T
  <2>1. Bad \subseteq SUBSET S
    OBVIOUS
  <2> HIDE DEF Bad
  <2> QED BY <1>1, <2>1, SmallestSubset
<1>3. PICK y \in T : SumOver(f, T) # f[y] + SumOver(f, T \ {y})
  OBVIOUS
<1>4. T \in SUBSET S /\ IsFiniteSet(T) /\ T # {}
  BY FS_Subset
<1> DEFINE z == One(T)
<1>5. z \in T /\ Less(T) = T \ {z} /\ SumOver(f, T) = f[z] + SumOver(f, T \ {z})
  BY <1>4, SumRecursion, LessIsLess DEF Less
<1> HIDE DEF z
<1>6. y # z
  BY <1>3, <1>5
<1>7. T \ {z} \notin Bad /\ T \ {z} \in SUBSET S /\ y \in T \ {z}
  BY <1>2, <1>4, <1>5, <1>6
<1>8. T \ {y} \notin Bad /\ T \ {y} \in SUBSET S /\ z \in T \ {y}
  BY <1>2, <1>4, <1>5, <1>6
<1>9. SumOver(f, T \ {z}) = f[y] + SumOver(f, (T \ {z}) \ {y})
  BY <1>7
<1>10. SumOver(f, T \ {y}) = f[z] + SumOver(f, (T \ {y}) \ {z})
  BY <1>8
<1>11. (T \ {z}) \ {y} = (T \ {y}) \ {z} /\ (T \ {z}) \ {y} \in SUBSET S
  BY <1>4
<1>12. SumOver(f, (T \ {z}) \ {y}) \in Int /\ f[y] \in Int /\ f[z] \in Int
  <2>1. IsFiniteSet((T \ {z}) \ {y})
    BY <1>11, FS_Subset
  <2> QED BY <1>4, <1>5, <1>11, <2>1, SumInt
<1> DEFINE rest == SumOver(f, (T \ {z}) \ {y})
<1>13. SumOver(f, T) = f[z] + (f[y] + rest) /\ SumOver(f, T \ {y}) = f[z] + rest /\ rest \in Int
  BY <1>5, <1>9, <1>10, <1>11, <1>12
<1> HIDE DEF rest
<1>14. f[z] + (f[y] + rest) = f[y] + (f[z] + rest)
  BY <1>12, <1>13
<1> QED BY <1>3, <1>13, <1>14

\* Functions that agree on a set have the same sum over it.
LEMMA SumSame ==
    ASSUME NEW S, IsFiniteSet(S), NEW f, NEW g, \A s \in S : f[s] = g[s]
    PROVE  SumOver(f, S) = SumOver(g, S)
<1> DEFINE Bad == {T \in SUBSET S : SumOver(f, T) # SumOver(g, T)}
<1>1. SUFFICES ASSUME Bad # {} PROVE FALSE
  OBVIOUS
<1>2. PICK T \in Bad : \A W \in Bad : W \subseteq T => W = T
  <2>1. Bad \subseteq SUBSET S
    OBVIOUS
  <2> HIDE DEF Bad
  <2> QED BY <1>1, <2>1, SmallestSubset
<1>3. T \in SUBSET S /\ IsFiniteSet(T) /\ SumOver(f, T) # SumOver(g, T)
  BY FS_Subset
<1>4. T # {}
  BY <1>3, SumEmpty
<1>5. One(T) \in T /\ Less(T) \in SUBSET T /\ Less(T) # T
  BY <1>4, LessIsLess
<1>6. Less(T) \notin Bad /\ Less(T) \in SUBSET S
  BY <1>2, <1>3, <1>5
<1>7. SumOver(f, Less(T)) = SumOver(g, Less(T)) /\ f[One(T)] = g[One(T)]
  BY <1>3, <1>5, <1>6
<1>8. SumOver(f, T) = f[One(T)] + SumOver(f, Less(T)) /\ SumOver(g, T) = g[One(T)] + SumOver(g, Less(T))
  BY <1>3, <1>4, SumRecursion
<1> QED BY <1>3, <1>7, <1>8

\* f and g differ at x only.
DifferAt(f, g, S, x) ==
    /\ x \in S
    /\ \A s \in S : f[s] \in Int /\ g[s] \in Int
    /\ \A s \in S \ {x} : f[s] = g[s]

\* The value at one point changes.
LEMMA SumChange ==
    ASSUME NEW S, IsFiniteSet(S), NEW f, NEW g, NEW x, DifferAt(f, g, S, x)
    PROVE  /\ SumOver(g, S) = SumOver(f, S) - f[x] + g[x]
           /\ SumOver(f, S) \in Int /\ SumOver(g, S) \in Int
<1> USE DEF DifferAt
<1>1. IsFiniteSet(S \ {x})
  BY FS_RemoveElement
<1>2. SumOver(f, S \ {x}) = SumOver(g, S \ {x}) /\ SumOver(f, S \ {x}) \in Int
  BY <1>1, SumSame, SumInt
<1>3. SumOver(f, S) = f[x] + SumOver(f, S \ {x}) /\ SumOver(g, S) = g[x] + SumOver(g, S \ {x})
  BY SumTakeOne
<1>4. SumOver(f, S) \in Int /\ SumOver(g, S) \in Int
  BY SumInt
<1> QED BY <1>2, <1>3, <1>4

\* A sum of naturals is no less than each of them.
LEMMA SumNat ==
    ASSUME NEW S, IsFiniteSet(S), NEW f, \A s \in S : f[s] \in Nat
    PROVE  SumOver(f, S) \in Nat /\ \A s \in S : f[s] <= SumOver(f, S)
<1>1. \A T \in SUBSET S : SumOver(f, T) \in Nat
  <2> DEFINE Bad == {T \in SUBSET S : SumOver(f, T) \notin Nat}
  <2>1. SUFFICES ASSUME Bad # {} PROVE FALSE
    OBVIOUS
  <2>2. PICK T \in Bad : \A W \in Bad : W \subseteq T => W = T
    <3>1. Bad \subseteq SUBSET S
      OBVIOUS
    <3> HIDE DEF Bad
    <3> QED BY <2>1, <3>1, SmallestSubset
  <2>3. T \in SUBSET S /\ IsFiniteSet(T) /\ SumOver(f, T) \notin Nat
    BY FS_Subset
  <2>4. T # {}
    BY <2>3, SumEmpty
  <2>5. One(T) \in T /\ Less(T) \in SUBSET T /\ Less(T) # T
    BY <2>4, LessIsLess
  <2>6. Less(T) \notin Bad /\ Less(T) \in SUBSET S
    BY <2>2, <2>3, <2>5
  <2>7. SumOver(f, Less(T)) \in Nat /\ f[One(T)] \in Nat
    BY <2>3, <2>5, <2>6
  <2>8. SumOver(f, T) = f[One(T)] + SumOver(f, Less(T))
    BY <2>3, <2>4, SumRecursion
  <2> QED BY <2>3, <2>7, <2>8
<1>2. ASSUME NEW s \in S PROVE f[s] <= SumOver(f, S)
  <2>1. SumOver(f, S) = f[s] + SumOver(f, S \ {s})
    BY SumTakeOne
  <2>2. SumOver(f, S \ {s}) \in Nat
    BY <1>1
  <2> QED BY <2>1, <2>2
<1> QED BY <1>1, <1>2

\* A sum of nothing but zeros.
LEMMA SumZero ==
    ASSUME NEW S, IsFiniteSet(S), NEW f, \A s \in S : f[s] = 0
    PROVE  SumOver(f, S) = 0
<1> DEFINE Bad == {T \in SUBSET S : SumOver(f, T) # 0}
<1>1. SUFFICES ASSUME Bad # {} PROVE FALSE
  OBVIOUS
<1>2. PICK T \in Bad : \A W \in Bad : W \subseteq T => W = T
  <2>1. Bad \subseteq SUBSET S
    OBVIOUS
  <2> HIDE DEF Bad
  <2> QED BY <1>1, <2>1, SmallestSubset
<1>3. T \in SUBSET S /\ IsFiniteSet(T) /\ SumOver(f, T) # 0
  BY FS_Subset
<1>4. T # {}
  BY <1>3, SumEmpty
<1>5. One(T) \in T /\ Less(T) \in SUBSET T /\ Less(T) # T
  BY <1>4, LessIsLess
<1>6. Less(T) \notin Bad /\ Less(T) \in SUBSET S
  BY <1>2, <1>3, <1>5
<1>7. SumOver(f, Less(T)) = 0 /\ f[One(T)] = 0
  BY <1>3, <1>5, <1>6
<1>8. SumOver(f, T) = f[One(T)] + SumOver(f, Less(T))
  BY <1>3, <1>4, SumRecursion
<1> QED BY <1>3, <1>7, <1>8
=============================================================================
