---------------------------- MODULE FoldTheorems ----------------------------
(***************************************************************************)
(* What the model's recursive functions compute.  The sums of the byte     *)
(* accounts: SumFunctionOnSet of the community modules folds over a finite *)
(* set by a recursive function on its subsets.  The walks of the           *)
(* filesystem: a recursive function on 0 .. n.  That these functions exist *)
(* and what their values are follows by the least counterexample: subsets  *)
(* of a finite set, and natural numbers, are well-founded.                 *)
(***************************************************************************)
EXTENDS Integers, FiniteSets, Functions, FiniteSetTheorems, WellFoundedInduction, TLAPS

Pick(s) == CHOOSE x \in s : TRUE

IsSum(g, f, S) ==
    g = [s \in SUBSET S |-> IF s = {} THEN 0 ELSE f[Pick(s)] + g[s \ {Pick(s)}]]

SumOf(f, S) == CHOOSE g : IsSum(g, f, S)

-----------------------------------------------------------------------------
(* The fold's recursive function. *)

(* The library's sum is a function that satisfies the recursion, if there    *)
(* is one.                                                                   *)
LEMMA SumIsChosen ==
    ASSUME NEW f, NEW S PROVE SumFunctionOnSet(f, S) = SumOf(f, S)[S]
BY DEF SumFunctionOnSet, FoldFunctionOnSet, MapThenFoldSet, SumOf, IsSum, Pick

(* Among subsets of a finite set there is a minimal one. *)
LEMMA SubsetMin ==
    ASSUME NEW S, IsFiniteSet(S), NEW T, T \subseteq SUBSET S, T # {}
    PROVE  \E x \in T : \A y \in T : y \subseteq x => y = x
<1>1. IsWellFoundedOn(StrictSubsetOrdering(S), SUBSET S)
    BY FS_StrictSubsetOrderingWellFounded, FS_FiniteSubsetsOfFinite
<1>2. \E x \in T : \A y \in T : ~(<<y, x>> \in StrictSubsetOrdering(S))
    BY <1>1, WFMin
<1> QED
    BY <1>2 DEF StrictSubsetOrdering

(* The element the fold takes is one of the set. *)
LEMMA PickIn == ASSUME NEW s, s # {} PROVE Pick(s) \in s
BY DEF Pick

(* What the recursion says of one subset. *)
LEMMA IsSumAt ==
    ASSUME NEW f, NEW S, NEW g, IsSum(g, f, S), NEW s \in SUBSET S
    PROVE  g[s] = IF s = {} THEN 0 ELSE f[Pick(s)] + g[s \ {Pick(s)}]
BY Zenon DEF IsSum

(* Two solutions agree on what both sum. *)
LEMMA SumUnique ==
    ASSUME NEW f, NEW u, NEW v, v \subseteq u, IsFiniteSet(v),
           NEW g, IsSum(g, f, v), NEW k, IsSum(k, f, u)
    PROVE  \A s \in SUBSET v : g[s] = k[s]
<1> DEFINE B == {s \in SUBSET v : g[s] # k[s]}
<1> SUFFICES ASSUME B # {} PROVE FALSE
    OBVIOUS
<1>0. B \subseteq SUBSET v
    OBVIOUS
<1>1. PICK s \in B : \A t \in B : t \subseteq s => t = s
  <2> HIDE DEF B
  <2> QED
      BY <1>0, SubsetMin
<1>2. g[s] = (IF s = {} THEN 0 ELSE f[Pick(s)] + g[s \ {Pick(s)}])
    BY IsSumAt
<1>3. k[s] = (IF s = {} THEN 0 ELSE f[Pick(s)] + k[s \ {Pick(s)}])
    BY IsSumAt
<1>4. s # {}
    BY <1>2, <1>3
<1>5. g[s \ {Pick(s)}] = k[s \ {Pick(s)}]
    BY <1>1, <1>4, PickIn
<1> QED
    BY <1>2, <1>3, <1>4, <1>5

(* The recursion has a solution: the least subset without one would get it   *)
(* from the solutions of its own subsets.                                    *)
LEMMA SumExists ==
    ASSUME NEW f, NEW S, IsFiniteSet(S)
    PROVE  IsSum(SumOf(f, S), f, S)
<1> DEFINE B == {T \in SUBSET S : ~IsSum(SumOf(f, T), f, T)}
<1> SUFFICES ASSUME B # {} PROVE FALSE
    OBVIOUS
<1>0. B \subseteq SUBSET S
    OBVIOUS
<1>1. PICK T \in B : \A U \in B : U \subseteq T => U = T
  <2> HIDE DEF B
  <2> QED
      BY <1>0, SubsetMin
<1>2. \A U \in SUBSET T : U # T => IsSum(SumOf(f, U), f, U)
    BY <1>1
<1>3. \A U \in SUBSET T : IsFiniteSet(U)
    BY FS_Subset
<1> DEFINE G(U) == SumOf(f, U)
           k == [s \in SUBSET T |-> IF s = {} THEN 0
                                    ELSE f[Pick(s)] + G(s \ {Pick(s)})[s \ {Pick(s)}]]
<1>4. ASSUME NEW u \in SUBSET T, u # T PROVE k[u] = G(u)[u]
  <2>1. IsSum(G(u), f, u)
      BY <1>2, <1>4
  <2>2. G(u)[u] = IF u = {} THEN 0 ELSE f[Pick(u)] + G(u)[u \ {Pick(u)}]
      BY <2>1, IsSumAt
  <2>3. CASE u = {}
      BY <2>2, <2>3
  <2>4. CASE u # {}
    <3> DEFINE v == u \ {Pick(u)}
    <3>1. v \in SUBSET T /\ v # T /\ v \subseteq u
        BY <2>4, PickIn
    <3>2. IsSum(G(v), f, v) /\ IsFiniteSet(v)
        BY <1>2, <1>3, <3>1
    <3>3. G(v)[v] = G(u)[v]
        BY <2>1, <3>1, <3>2, SumUnique
    <3>4. k[u] = f[Pick(u)] + G(v)[v]
        BY <2>4
    <3> QED
        BY <2>2, <2>4, <3>3, <3>4
  <2> QED
      BY <2>3, <2>4
<1>5. IsSum(k, f, T)
  <2>1. \A s \in SUBSET T :
          k[s] = IF s = {} THEN 0 ELSE f[Pick(s)] + k[s \ {Pick(s)}]
    <3> SUFFICES ASSUME NEW s \in SUBSET T, s # {}
                 PROVE  k[s] = f[Pick(s)] + k[s \ {Pick(s)}]
        OBVIOUS
    <3>1. s \ {Pick(s)} \in SUBSET T /\ s \ {Pick(s)} # T
        BY PickIn
    <3>2. k[s \ {Pick(s)}] = G(s \ {Pick(s)})[s \ {Pick(s)}]
        BY <1>4, <3>1
    <3> QED
        BY <3>2
  <2>2. k = [s \in SUBSET T |-> k[s]]
      OBVIOUS
  <2> HIDE DEF k
  <2>3. [s \in SUBSET T |-> k[s]]
          = [s \in SUBSET T |-> IF s = {} THEN 0 ELSE f[Pick(s)] + k[s \ {Pick(s)}]]
      BY <2>1
  <2> QED
      BY <2>2, <2>3 DEF IsSum
<1>6. IsSum(SumOf(f, T), f, T)
    BY <1>5 DEF SumOf
<1> QED
    BY <1>1, <1>6

-----------------------------------------------------------------------------
(* What the library's sum is. *)

(* Nothing sums to zero. *)
LEMMA SumEmpty == ASSUME NEW f PROVE SumFunctionOnSet(f, {}) = 0
<1>1. IsSum(SumOf(f, {}), f, {})
    BY SumExists, FS_EmptySet
<1> QED
    BY <1>1, IsSumAt, SumIsChosen

(* The fold takes one element after the other. *)
LEMMA SumUnfold ==
    ASSUME NEW f, NEW S, IsFiniteSet(S), S # {}
    PROVE  SumFunctionOnSet(f, S) = f[Pick(S)] + SumFunctionOnSet(f, S \ {Pick(S)})
<1> DEFINE T == S \ {Pick(S)}
<1>1. IsSum(SumOf(f, S), f, S) /\ IsSum(SumOf(f, T), f, T) /\ IsFiniteSet(T)
    BY SumExists, FS_Subset
<1>2. SumOf(f, S)[S] = f[Pick(S)] + SumOf(f, S)[T]
    BY <1>1, IsSumAt
<1>3. SumOf(f, T)[T] = SumOf(f, S)[T]
  <2>1. T \subseteq S
      OBVIOUS
  <2> HIDE DEF T
  <2> QED
      BY <1>1, <2>1, SumUnique
<1> QED
    BY <1>2, <1>3, SumIsChosen

(* A sum of naturals is a natural. *)
LEMMA SumNat ==
    ASSUME NEW f, NEW S, IsFiniteSet(S), \A x \in S : f[x] \in Nat
    PROVE  SumFunctionOnSet(f, S) \in Nat
<1> DEFINE B == {T \in SUBSET S : SumFunctionOnSet(f, T) \notin Nat}
<1> SUFFICES ASSUME B # {} PROVE FALSE
    OBVIOUS
<1>0. B \subseteq SUBSET S
    OBVIOUS
<1>1. PICK T \in B : \A U \in B : U \subseteq T => U = T
  <2> HIDE DEF B
  <2> QED
      BY <1>0, SubsetMin
<1>2. IsFiniteSet(T)
    BY FS_Subset
<1>3. T # {}
    BY SumEmpty
<1>4. Pick(T) \in T
    BY <1>3, PickIn
<1>5. SumFunctionOnSet(f, T \ {Pick(T)}) \in Nat
    BY <1>1, <1>4
<1>6. SumFunctionOnSet(f, T) = f[Pick(T)] + SumFunctionOnSet(f, T \ {Pick(T)})
    BY <1>2, <1>3, SumUnfold
<1> QED
    BY <1>4, <1>5, <1>6

(* Whichever element is taken first. *)
LEMMA SumRemove ==
    ASSUME NEW f, NEW S, IsFiniteSet(S), \A x \in S : f[x] \in Nat, NEW x \in S
    PROVE  SumFunctionOnSet(f, S) = f[x] + SumFunctionOnSet(f, S \ {x})
<1> DEFINE Sum(T) == SumFunctionOnSet(f, T)
           B == {T \in SUBSET S : \E y \in T : Sum(T) # f[y] + Sum(T \ {y})}
<1> SUFFICES ASSUME B # {} PROVE FALSE
    OBVIOUS
<1>0. B \subseteq SUBSET S
    OBVIOUS
<1>1. PICK T \in B : \A U \in B : U \subseteq T => U = T
  <2> HIDE DEF B
  <2> QED
      BY <1>0, SubsetMin
<1>2. \A U \in SUBSET S : IsFiniteSet(U) /\ Sum(U) \in Nat
    BY FS_Subset, SumNat
<1>3. PICK y \in T : Sum(T) # f[y] + Sum(T \ {y})
    OBVIOUS
<1> DEFINE z == Pick(T)
<1>4. z \in T /\ Sum(T) = f[z] + Sum(T \ {z})
    BY <1>2, PickIn, SumUnfold
<1>5. y # z
    BY <1>3, <1>4
<1>6. \A U \in SUBSET T : U # T => \A w \in U : Sum(U) = f[w] + Sum(U \ {w})
    BY <1>1
<1> HIDE DEF z, Sum
<1>7. Sum(T \ {z}) = f[y] + Sum((T \ {z}) \ {y})
    BY <1>4, <1>5, <1>6
<1>8. Sum(T \ {y}) = f[z] + Sum((T \ {y}) \ {z})
    BY <1>4, <1>5, <1>6
<1>9. (T \ {y}) \ {z} = (T \ {z}) \ {y} /\ (T \ {z}) \ {y} \in SUBSET S
    OBVIOUS
<1>10. f[y] \in Nat /\ f[z] \in Nat /\ Sum((T \ {z}) \ {y}) \in Nat
    BY <1>2, <1>4, <1>9
<1> QED
    BY <1>3, <1>4, <1>7, <1>8, <1>9, <1>10

(* One element more. *)
LEMMA SumAdd ==
    ASSUME NEW f, NEW S, IsFiniteSet(S), \A x \in S : f[x] \in Nat, NEW x, f[x] \in Nat, x \notin S
    PROVE  SumFunctionOnSet(f, S \cup {x}) = f[x] + SumFunctionOnSet(f, S)
<1>1. IsFiniteSet(S \cup {x}) /\ (S \cup {x}) \ {x} = S
    BY FS_AddElement
<1> QED
    BY <1>1, SumRemove

(* The sum depends on the values summed only. *)
LEMMA SumSame ==
    ASSUME NEW f, NEW g, NEW S, IsFiniteSet(S), \A x \in S : f[x] = g[x]
    PROVE  SumFunctionOnSet(f, S) = SumFunctionOnSet(g, S)
<1> DEFINE B == {T \in SUBSET S : SumFunctionOnSet(f, T) # SumFunctionOnSet(g, T)}
<1> SUFFICES ASSUME B # {} PROVE FALSE
    OBVIOUS
<1>0. B \subseteq SUBSET S
    OBVIOUS
<1>1. PICK T \in B : \A U \in B : U \subseteq T => U = T
  <2> HIDE DEF B
  <2> QED
      BY <1>0, SubsetMin
<1>2. T # {} /\ IsFiniteSet(T)
    BY SumEmpty, FS_Subset
<1>3. Pick(T) \in T
    BY <1>2, PickIn
<1>4. SumFunctionOnSet(f, T \ {Pick(T)}) = SumFunctionOnSet(g, T \ {Pick(T)})
    BY <1>1, <1>3
<1>5. SumFunctionOnSet(f, T) = f[Pick(T)] + SumFunctionOnSet(f, T \ {Pick(T)})
    BY <1>2, SumUnfold
<1>6. SumFunctionOnSet(g, T) = g[Pick(T)] + SumFunctionOnSet(g, T \ {Pick(T)})
    BY <1>2, SumUnfold
<1> QED
    BY <1>3, <1>4, <1>5, <1>6

(* One value changes. *)
LEMMA SumChange ==
    ASSUME NEW f, NEW g, NEW S, IsFiniteSet(S), NEW x \in S,
           \A y \in S : f[y] \in Nat /\ g[y] \in Nat,
           \A y \in S \ {x} : f[y] = g[y]
    PROVE  SumFunctionOnSet(f, S) - f[x] = SumFunctionOnSet(g, S) - g[x]
<1> DEFINE T == S \ {x}
<1>1. IsFiniteSet(T)
    BY FS_Subset
<1>2. /\ SumFunctionOnSet(f, S) = f[x] + SumFunctionOnSet(f, T)
      /\ SumFunctionOnSet(g, S) = g[x] + SumFunctionOnSet(g, T)
    BY SumRemove
<1>3. SumFunctionOnSet(f, T) = SumFunctionOnSet(g, T) /\ SumFunctionOnSet(f, T) \in Nat
    BY <1>1, SumSame, SumNat
<1> QED
    BY <1>2, <1>3

(* Part of a sum is no more than the sum. *)
LEMMA SumPart ==
    ASSUME NEW f, NEW S, IsFiniteSet(S), \A x \in S : f[x] \in Nat, NEW R, R \subseteq S
    PROVE  SumFunctionOnSet(f, R) <= SumFunctionOnSet(f, S)
<1> DEFINE Sum(T) == SumFunctionOnSet(f, T)
           B == {T \in SUBSET S : R \subseteq T /\ ~(Sum(R) <= Sum(T))}
<1> SUFFICES ASSUME B # {} PROVE FALSE
    OBVIOUS
<1>0. B \subseteq SUBSET S
    OBVIOUS
<1>1. PICK T \in B : \A U \in B : U \subseteq T => U = T
  <2> HIDE DEF B
  <2> QED
      BY <1>0, SubsetMin
<1>2. \A U \in SUBSET S : IsFiniteSet(U) /\ Sum(U) \in Nat
    BY FS_Subset, SumNat
<1>3. PICK y \in T : y \notin R
    BY <1>2
<1>4. Sum(T) = f[y] + Sum(T \ {y})
    BY <1>2, SumRemove
<1>5. T \ {y} \notin B
    BY <1>1
<1>6. Sum(R) <= Sum(T \ {y})
    BY <1>3, <1>5
<1> HIDE DEF Sum
<1>7. Sum(R) \in Nat /\ Sum(T \ {y}) \in Nat /\ f[y] \in Nat /\ Sum(T) \in Nat
    BY <1>2
<1>8. ~(Sum(R) <= Sum(T))
    BY DEF B
<1> QED
    BY <1>4, <1>6, <1>7, <1>8

(* A sum of n values of at most m is at most n * m. *)
LEMMA SumBound ==
    ASSUME NEW f, NEW S, IsFiniteSet(S), NEW m \in Nat, \A x \in S : f[x] \in 0..m
    PROVE  SumFunctionOnSet(f, S) <= Cardinality(S) * m
<1> DEFINE Sum(T) == SumFunctionOnSet(f, T)
           B == {T \in SUBSET S : ~(Sum(T) <= Cardinality(T) * m)}
<1> SUFFICES ASSUME B # {} PROVE FALSE
    OBVIOUS
<1>0. B \subseteq SUBSET S
    OBVIOUS
<1>1. PICK T \in B : \A U \in B : U \subseteq T => U = T
  <2> HIDE DEF B
  <2> QED
      BY <1>0, SubsetMin
<1>2. \A U \in SUBSET S : IsFiniteSet(U) /\ Sum(U) \in Nat /\ Cardinality(U) \in Nat
  <2>1. \A U \in SUBSET S : IsFiniteSet(U)
      BY FS_Subset
  <2>2. \A U \in SUBSET S : Cardinality(U) \in Nat
      BY <2>1, FS_CardinalityType
  <2> QED
      BY <2>1, <2>2, SumNat
<1>3. T # {}
    BY SumEmpty, FS_EmptySet
<1> DEFINE y == Pick(T)
           U == T \ {y}
<1>4. y \in T /\ Sum(T) = f[y] + Sum(U)
    BY <1>2, <1>3, PickIn, SumUnfold
<1>5. Cardinality(U) = Cardinality(T) - 1
    BY <1>2, <1>4, FS_RemoveElement
<1>6. Sum(U) <= Cardinality(U) * m
    BY <1>1, <1>4
<1>7. ~(Sum(T) <= Cardinality(T) * m)
    OBVIOUS
<1>8. Sum(U) \in Nat /\ f[y] \in 0..m /\ Cardinality(T) \in Nat /\ Cardinality(U) \in Nat
    BY <1>2, <1>4
<1> HIDE DEF Sum, y, U
<1>9. Cardinality(T) * m = Cardinality(U) * m + m
    BY <1>5, <1>8
<1> QED
    BY <1>4, <1>6, <1>7, <1>8, <1>9

(* The sum of sums. *)
LEMMA SumPlus ==
    ASSUME NEW f, NEW g, NEW h, NEW S, IsFiniteSet(S),
           \A x \in S : f[x] \in Nat /\ g[x] \in Nat /\ h[x] = f[x] + g[x]
    PROVE  SumFunctionOnSet(h, S) = SumFunctionOnSet(f, S) + SumFunctionOnSet(g, S)
<1> DEFINE F(T) == SumFunctionOnSet(f, T)
           G(T) == SumFunctionOnSet(g, T)
           H(T) == SumFunctionOnSet(h, T)
           B == {T \in SUBSET S : H(T) # F(T) + G(T)}
<1> SUFFICES ASSUME B # {} PROVE FALSE
    OBVIOUS
<1>0. B \subseteq SUBSET S
    OBVIOUS
<1>1. PICK T \in B : \A U \in B : U \subseteq T => U = T
  <2> HIDE DEF B
  <2> QED
      BY <1>0, SubsetMin
<1>2. T # {} /\ IsFiniteSet(T)
  <2>1. F({}) = 0 /\ G({}) = 0 /\ H({}) = 0
      BY SumEmpty
  <2>2. H({}) = F({}) + G({})
      BY <2>1
  <2>3. T # {}
      BY <2>2
  <2> QED
      BY <2>3, FS_Subset
<1> DEFINE y == Pick(T)
           U == T \ {y}
<1>3. y \in T /\ IsFiniteSet(U)
    BY <1>2, PickIn, FS_Subset
<1>4. H(T) = h[y] + H(U) /\ F(T) = f[y] + F(U) /\ G(T) = g[y] + G(U)
    BY <1>2, SumUnfold
<1>5. F(U) \in Nat /\ G(U) \in Nat
    BY <1>3, SumNat
<1>6. H(U) = F(U) + G(U)
    BY <1>1, <1>3
<1>7. H(T) # F(T) + G(T)
    OBVIOUS
<1>8. f[y] \in Nat /\ g[y] \in Nat /\ h[y] = f[y] + g[y]
    BY <1>3
<1> HIDE DEF F, G, H, y, U
<1> QED
    BY <1>4, <1>5, <1>6, <1>7, <1>8

(* Smaller values have a smaller sum. *)
LEMMA SumLeq ==
    ASSUME NEW f, NEW g, NEW S, IsFiniteSet(S),
           \A x \in S : f[x] \in Nat /\ g[x] \in Nat /\ f[x] <= g[x]
    PROVE  SumFunctionOnSet(f, S) <= SumFunctionOnSet(g, S)
<1> DEFINE h == [x \in S |-> g[x] - f[x]]
<1>1. \A x \in S : h[x] \in Nat /\ g[x] = f[x] + h[x]
    OBVIOUS
<1> HIDE DEF h
<1>2. SumFunctionOnSet(g, S) = SumFunctionOnSet(f, S) + SumFunctionOnSet(h, S)
    BY <1>1, SumPlus
<1>3. SumFunctionOnSet(f, S) \in Nat /\ SumFunctionOnSet(h, S) \in Nat
    BY <1>1, SumNat
<1> QED
    BY <1>2, <1>3

(* The sum over a part is the sum over the whole with zeros elsewhere. *)
LEMMA SumWhere ==
    ASSUME NEW f, NEW g, NEW S, IsFiniteSet(S), NEW R, R \subseteq S,
           \A x \in R : f[x] \in Nat /\ g[x] = f[x],
           \A x \in S \ R : g[x] = 0
    PROVE  SumFunctionOnSet(f, R) = SumFunctionOnSet(g, S)
<1> DEFINE F(T) == SumFunctionOnSet(f, T)
           G(T) == SumFunctionOnSet(g, T)
           B == {T \in SUBSET S : F(T \cap R) # G(T)}
<1>a. \A T \in SUBSET S : IsFiniteSet(T) /\ IsFiniteSet(T \cap R)
    BY FS_Subset
<1>b. \A T \in SUBSET S : F(T \cap R) \in Nat
    BY <1>a, SumNat
<1>c. S \cap R = R
    OBVIOUS
<1> SUFFICES ASSUME B # {} PROVE FALSE
    BY <1>c
<1>0. B \subseteq SUBSET S
    OBVIOUS
<1>1. PICK T \in B : \A U \in B : U \subseteq T => U = T
  <2> HIDE DEF B
  <2> QED
      BY <1>0, SubsetMin
<1>2. T # {} /\ IsFiniteSet(T)
  <2>1. {} \cap R = {}
      OBVIOUS
  <2> QED
      BY <2>1, <1>a, SumEmpty
<1> DEFINE y == Pick(T)
           U == T \ {y}
<1>3. y \in T
    BY <1>2, PickIn
<1>4. G(T) = g[y] + G(U)
    BY <1>2, SumUnfold
<1>5. F(U \cap R) = G(U)
    BY <1>1, <1>3
<1>6. F(U \cap R) \in Nat
    BY <1>b
<1>7. F(T \cap R) # G(T)
    OBVIOUS
<1>8. CASE y \in R
  <2>1. (T \cap R) \ {y} = U \cap R /\ y \in T \cap R /\ IsFiniteSet(T \cap R)
      BY <1>3, <1>8, <1>a
  <2>2. F(T \cap R) = f[y] + F((T \cap R) \ {y})
      BY <2>1, SumRemove
  <2>3. g[y] = f[y]
      BY <1>8
  <2> HIDE DEF F, G, y, U
  <2> QED
      BY <2>1, <2>2, <2>3, <1>4, <1>5, <1>7
<1>9. CASE y \notin R
  <2>1. T \cap R = U \cap R
      BY <1>9
  <2>2. g[y] = 0
      BY <1>3, <1>9
  <2> HIDE DEF F, G, y, U
  <2> QED
      BY <2>1, <2>2, <1>4, <1>5, <1>6, <1>7
<1> QED
    BY <1>8, <1>9

(* Summing over the values a function takes counts each once only. *)
LEMMA SumImage ==
    ASSUME NEW f, NEW q, NEW g, NEW S, IsFiniteSet(S),
           \A x \in S : g[x] \in Nat /\ g[x] = f[q[x]]
    PROVE  SumFunctionOnSet(f, {q[x] : x \in S}) <= SumFunctionOnSet(g, S)
<1> DEFINE I(T) == {q[x] : x \in T}
           F(T) == SumFunctionOnSet(f, I(T))
           G(T) == SumFunctionOnSet(g, T)
           B == {T \in SUBSET S : ~(F(T) <= G(T))}
<1> SUFFICES ASSUME B # {} PROVE FALSE
    OBVIOUS
<1>0. B \subseteq SUBSET S
    OBVIOUS
<1>1. PICK T \in B : \A U \in B : U \subseteq T => U = T
  <2> HIDE DEF B
  <2> QED
      BY <1>0, SubsetMin
<1>2. \A U \in SUBSET S : IsFiniteSet(U) /\ IsFiniteSet(I(U)) /\ F(U) \in Nat /\ G(U) \in Nat
  <2> TAKE U \in SUBSET S
  <2>1. IsFiniteSet(U)
      BY FS_Subset
  <2> DEFINE r == [x \in U |-> q[x]]
  <2>0. r \in Surjection(U, I(U))
      BY DEF Surjection
  <2>2. IsFiniteSet(I(U))
      BY <2>0, <2>1, FS_Surjection
  <2> QED
      BY <2>1, <2>2, SumNat
<1>3. T # {}
  <2>1. I({}) = {}
      OBVIOUS
  <2>2. F({}) = 0 /\ G({}) = 0
      BY <2>1, SumEmpty
  <2> QED
      BY <2>2
<1> DEFINE y == Pick(T)
           U == T \ {y}
<1>4. y \in T /\ G(T) = g[y] + G(U)
    BY <1>2, <1>3, PickIn, SumUnfold
<1>5. F(U) <= G(U)
    BY <1>1, <1>4
<1>6. ~(F(T) <= G(T))
    OBVIOUS
<1>7. I(T) = I(U) \cup {q[y]}
    BY <1>4
<1>8. U \in SUBSET S /\ T \in SUBSET S /\ y \in S /\ g[y] \in Nat /\ g[y] = f[q[y]]
    BY <1>4
<1>9. F(T) <= g[y] + F(U)
  <2>1. CASE q[y] \in I(U)
    <3>1. I(T) = I(U)
        BY <1>7, <2>1
    <3>2. F(T) = F(U)
        BY <3>1
    <3>3. F(U) \in Nat
        BY <1>2, <1>8
    <3> HIDE DEF F, y, U
    <3> QED
        BY <3>2, <3>3, <1>8
  <2>2. CASE q[y] \notin I(U)
    <3>1. IsFiniteSet(I(U)) /\ F(U) \in Nat
        BY <1>2, <1>8
    <3>2. \A z \in I(U) : f[z] \in Nat
        BY <1>8
    <3>3. f[q[y]] \in Nat
        BY <1>8
    <3>4. SumFunctionOnSet(f, I(U) \cup {q[y]}) = f[q[y]] + SumFunctionOnSet(f, I(U))
      <4> HIDE DEF I, U, y
      <4> QED
        BY <2>2, <3>1, <3>2, <3>3, SumAdd
    <3>5. F(T) = f[q[y]] + F(U)
        BY <1>7, <3>4
    <3> HIDE DEF F, y, U
    <3> QED
        BY <3>5, <3>1, <1>8
  <2> QED
      BY <2>1, <2>2
<1>10. F(T) \in Nat /\ F(U) \in Nat /\ G(U) \in Nat /\ G(T) \in Nat
    BY <1>2, <1>8
<1> HIDE DEF F, G, y, U
<1> QED
    BY <1>4, <1>5, <1>6, <1>8, <1>9, <1>10

(* A nonempty finite set of natural numbers has a greatest element. *)
LEMMA GreatestExists ==
    ASSUME NEW S, IsFiniteSet(S), S # {}
    PROVE  S \subseteq Nat => \E x \in S : \A y \in S : x >= y
<1> DEFINE up(x) == {y \in S : y >= x}
           B == {T \in SUBSET S : \E x \in S : T = up(x)}
<1>0. B \subseteq SUBSET S /\ \A x \in S : up(x) \in B
    OBVIOUS
<1>1. \E T \in B : \A U \in B : U \subseteq T => U = T
  <2>1. B # {} /\ B \subseteq SUBSET S
      BY <1>0
  <2> HIDE DEF B
  <2> QED
      BY <2>1, SubsetMin
<1>2. PICK x \in S : \A U \in B : U \subseteq up(x) => U = up(x)
    BY <1>1
<1> HAVE S \subseteq Nat
<1>3. ASSUME NEW y \in S, ~(x >= y) PROVE FALSE
  <2>1. x \in Nat /\ y \in Nat
      OBVIOUS
  <2>2. \A z \in Nat : z >= y => z >= x
      BY <1>3, <2>1
  <2>3. up(y) \subseteq up(x)
      BY <2>2
  <2>4. x \in up(x) /\ x \notin up(y)
      BY <1>3, <2>1
  <2> QED
      BY <1>2, <2>3, <2>4
<1> QED
    BY <1>3

-----------------------------------------------------------------------------
(* Walks. *)

(* A nonempty set of natural numbers has a least element. *)
LEMMA LeastExists ==
    ASSUME NEW T, T \subseteq Nat, T # {}
    PROVE  \E x \in T : \A y \in T : x <= y
<1> DEFINE R == OpToRel(<, Nat)
<1>1. IsWellFoundedOn(R, Nat)
    BY NatLessThanWellFounded, Zenon
<1>2. \A x, y \in Nat : y < x => <<y, x>> \in R
    BY DEF OpToRel
<1> HIDE DEF R
<1>3. \E x \in T : \A y \in T : ~(y < x)
  <2>1. \E x \in T : \A y \in T : ~(<<y, x>> \in R)
      BY <1>1, WFMin
  <2> QED
      BY <1>2, <2>1
<1>4. \A x, y \in T : ~(y < x) => x <= y
    OBVIOUS
<1> QED
    BY <1>3, <1>4

(* From a, n steps that stay in S: step k is the function G[k]. *)
IsWalk(w, S, a, n, G) ==
    w \in [0 .. n -> S] /\ w[0] = a /\ \A k \in 1 .. n : w[k] = G[k][w[k - 1]]

(* There is such a walk. *)
LEMMA WalkExists ==
    ASSUME NEW S, NEW a \in S, NEW n \in Nat, NEW G \in [1 .. n -> [S -> S]]
    PROVE  \E w : IsWalk(w, S, a, n, G)
<1> DEFINE B == {m \in 0 .. n : ~ \E w : IsWalk(w, S, a, m, G)}
<1> SUFFICES ASSUME B # {} PROVE FALSE
    OBVIOUS
<1>1. PICK m \in B : \A l \in B : m <= l
  <2>1. B \subseteq Nat
      OBVIOUS
  <2> HIDE DEF B
  <2> QED
      BY <2>1, LeastExists
<1>2. m # 0
  <2>1. IsWalk([k \in 0 .. 0 |-> a], S, a, 0, G)
      BY DEF IsWalk
  <2> QED
      BY <2>1
<1>3. m - 1 \in 0 .. n /\ m - 1 \notin B
    BY <1>1, <1>2
<1>4. PICK w : IsWalk(w, S, a, m - 1, G)
    BY <1>3
<1> DEFINE v == [k \in 0 .. m |-> IF k = m THEN G[m][w[m - 1]] ELSE w[k]]
<1>5. w[m - 1] \in S /\ m \in 1 .. n
    BY <1>2, <1>3, <1>4 DEF IsWalk
<1>6. G[m][w[m - 1]] \in S
    BY <1>5
<1>7. v \in [0 .. m -> S]
    BY <1>4, <1>6 DEF IsWalk
<1>8. v[0] = a /\ \A k \in 1 .. m : v[k] = G[k][v[k - 1]]
    BY <1>2, <1>4, <1>5 DEF IsWalk
<1>9. IsWalk(v, S, a, m, G)
    BY <1>7, <1>8 DEF IsWalk
<1> QED
    BY <1>9

(* What starts in S and takes steps that stay in S is always in S. *)
LEMMA WalkStays ==
    ASSUME NEW S, NEW n \in Nat, NEW w, w[0] \in S,
           \A k \in 1 .. n : w[k - 1] \in S => w[k] \in S
    PROVE  \A k \in 0 .. n : w[k] \in S
<1> DEFINE B == {k \in 0 .. n : w[k] \notin S}
<1> SUFFICES ASSUME B # {} PROVE FALSE
    OBVIOUS
<1>1. PICK m \in B : \A l \in B : m <= l
  <2>1. B \subseteq Nat
      OBVIOUS
  <2> HIDE DEF B
  <2> QED
      BY <2>1, LeastExists
<1>2. m \in 1 .. n /\ m - 1 \in 0 .. n
    OBVIOUS
<1>3. w[m - 1] \in S
    BY <1>1, <1>2
<1> QED
    BY <1>2, <1>3

(* What holds at 0 and is carried from each number to the next holds up to   *)
(* n.                                                                        *)
LEMMA StepsReachAll ==
    ASSUME NEW n \in Nat, NEW T, 0 \in T, \A k \in 1 .. n : k - 1 \in T => k \in T
    PROVE  0 .. n \subseteq T
<1> DEFINE w == [k \in 0 .. n |-> k]
<1>1. w[0] \in T /\ \A k \in 1 .. n : w[k - 1] \in T => w[k] \in T
    OBVIOUS
<1>2. \A k \in 0 .. n : w[k] = k
    OBVIOUS
<1> HIDE DEF w
<1> QED
    BY <1>1, <1>2, WalkStays
=============================================================================
