-------------------------------- MODULE SetSums --------------------------------
(****************************************************************************)
(* Sums over finite sets, which the models take from the community modules. *)
(* SumFunctionOnSet removes an element that CHOOSE picks until none is      *)
(* left; the lemmas say that any order gives the same, which is what a loop *)
(* over the elements relies on.                                             *)
(*                                                                          *)
(* The inductions are over the subsets of a finite set: of the subsets that *)
(* refute a lemma, SmallestSubset takes a smallest.                         *)
(****************************************************************************)
EXTENDS FiniteSetsExt, FiniteSetTheorems, TLAPS

\* The element of s that a fold takes first.
Pick(s) == CHOOSE x \in s : TRUE

\* sum is the recursive function that a sum over S is defined with.
IsSum(sum, f, S) ==
  sum = [s \in SUBSET S |-> IF s = {} THEN 0 ELSE f[Pick(s)] + sum[s \ {Pick(s)}]]

\* A nonempty set of subsets of a finite set has a member without a smaller one.
LEMMA SmallestSubset ==
  ASSUME NEW S, IsFiniteSet(S), NEW B \in SUBSET (SUBSET S), B # {}
  PROVE  \E s \in B : \A t \in B : t \subseteq s => t = s
<1>1. PICK s \in B : \A t \in B : <<t, s>> \notin StrictSubsetOrdering(S)
  BY FS_StrictSubsetOrderingWellFounded, FS_FiniteSubsetsOfFinite, WFMin
<1>2. \A t \in B : t \subseteq s => t = s
  BY <1>1 DEF StrictSubsetOrdering
<1> QED
  BY <1>2

\* Two such functions agree where both are defined.
LEMMA SumsAgree ==
  ASSUME NEW S, NEW T, NEW U, IsFiniteSet(U), U \subseteq S, U \subseteq T,
         NEW f, NEW g, NEW h, IsSum(g, f, S), IsSum(h, f, T)
  PROVE  g[U] = h[U]
<1> DEFINE B == {s \in SUBSET U : g[s] # h[s]}
<1>1. SUFFICES ASSUME B # {} PROVE FALSE
  OBVIOUS
<1>2. PICK s \in B : \A t \in B : t \subseteq s => t = s
  <2>1. B \in SUBSET (SUBSET U)
    OBVIOUS
  <2> HIDE DEF B
  <2> QED
    BY <1>1, <2>1, SmallestSubset
<1>3. s # {}
  BY <1>2 DEF IsSum
<1>4. Pick(s) \in s
  BY <1>3 DEF Pick
<1>5. g[s \ {Pick(s)}] = h[s \ {Pick(s)}]
  BY <1>2, <1>4
<1>6. s \in SUBSET S /\ s \in SUBSET T
  BY <1>2
<1>7. g[s] = f[Pick(s)] + g[s \ {Pick(s)}] /\ h[s] = f[Pick(s)] + h[s \ {Pick(s)}]
  BY <1>3, <1>6 DEF IsSum
<1> QED
  BY <1>2, <1>5, <1>7

\* The function that a sum over a finite set is defined with exists.
LEMMA SumExists ==
  ASSUME NEW S, IsFiniteSet(S), NEW f
  PROVE  \E g : IsSum(g, f, S)
<1> DEFINE B == {T \in SUBSET S : ~ \E g : IsSum(g, f, T)}
<1>1. SUFFICES ASSUME B # {} PROVE FALSE
  <2>1. S \in SUBSET S
    OBVIOUS
  <2> QED
    BY <2>1
<1>2. PICK T \in B : \A U \in B : U \subseteq T => U = T
  <2>1. B \in SUBSET (SUBSET S)
    OBVIOUS
  <2> HIDE DEF B
  <2> QED
    BY <1>1, <2>1, SmallestSubset
<1> DEFINE Smaller(r) == CHOOSE g : IsSum(g, f, r)
           Value(s) == IF s = {} THEN 0 ELSE f[Pick(s)] + Smaller(s \ {Pick(s)})[s \ {Pick(s)}]
           h == [s \in SUBSET T |-> Value(s)]
<1>3. ASSUME NEW r \in SUBSET T, r # T PROVE IsSum(Smaller(r), f, r)
  <2>1. r \in SUBSET S
    BY <1>2
  <2>2. r \notin B
    BY <1>2, <1>3
  <2>3. \E g : IsSum(g, f, r)
    BY <2>1, <2>2
  <2> QED
    BY <2>3
<1>4. ASSUME NEW r \in SUBSET T, r # T PROVE h[r] = Smaller(r)[r]
  <2>1. IsSum(Smaller(r), f, r)
    BY <1>3, <1>4
  <2>2. CASE r = {}
    <3>1. h[r] = 0
      BY <2>2
    <3>2. Smaller(r)[r] = 0
      <4> HIDE DEF Smaller
      <4> QED
        BY <2>1, <2>2 DEF IsSum
    <3> QED
      BY <3>1, <3>2
  <2>3. CASE r # {}
    <3> DEFINE q == r \ {Pick(r)}
    <3>1. Pick(r) \in r
      BY <2>3 DEF Pick
    <3>2. IsSum(Smaller(q), f, q)
      <4>1. q \in SUBSET T /\ q # T
        BY <3>1, <1>4
      <4> QED
        BY <4>1, <1>3
    <3>3. Smaller(r)[q] = Smaller(q)[q]
      <4>1. IsFiniteSet(q)
        BY <1>2, FS_Subset
      <4>2. q \subseteq r /\ q \subseteq q
        OBVIOUS
      <4> HIDE DEF Smaller, q
      <4> QED
        BY <4>1, <4>2, <2>1, <3>2, SumsAgree
    <3>4. h[r] = f[Pick(r)] + Smaller(q)[q]
      BY <2>3
    <3>5. Smaller(r)[r] = f[Pick(r)] + Smaller(r)[q]
      <4> HIDE DEF Smaller
      <4> QED
        BY <2>1, <2>3 DEF IsSum
    <3> QED
      BY <3>3, <3>4, <3>5
  <2> QED
    BY <2>2, <2>3
<1>5. IsSum(h, f, T)
  <2>1. ASSUME NEW s \in SUBSET T, s # {}
        PROVE  h[s] = f[Pick(s)] + h[s \ {Pick(s)}]
    <3> DEFINE q == s \ {Pick(s)}
    <3>1. q \in SUBSET T /\ q # T
      BY <2>1 DEF Pick
    <3>2. h[q] = Smaller(q)[q]
      BY <3>1, <1>4
    <3>3. h[s] = f[Pick(s)] + Smaller(q)[q]
      BY <2>1
    <3> QED
      BY <3>2, <3>3
  <2>2. h = [s \in SUBSET T |-> IF s = {} THEN 0 ELSE f[Pick(s)] + h[s \ {Pick(s)}]]
    <3>1. \A s \in SUBSET T : s = {} => h[s] = 0
      OBVIOUS
    <3>2. h \in [SUBSET T -> Range(h)] 
      BY DEF Range
    <3> HIDE DEF h
    <3> QED
      BY <2>1, <3>1, <3>2
  <2> QED
    BY <2>2 DEF IsSum
<1> QED
  BY <1>2, <1>5

\* A sum takes the element that is picked, and the sum over the others.
LEMMA SumUnfolds ==
  ASSUME NEW S, IsFiniteSet(S), NEW f
  PROVE  SumFunctionOnSet(f, S) =
           IF S = {} THEN 0 ELSE f[Pick(S)] + SumFunctionOnSet(f, S \ {Pick(S)})
<1> DEFINE Sum(s) == CHOOSE g : IsSum(g, f, s)
<1>1. \A s : SumFunctionOnSet(f, s) = Sum(s)[s]
  BY DEF SumFunctionOnSet, FoldFunctionOnSet, MapThenFoldSet, IsSum, Pick
<1>2. IsSum(Sum(S), f, S)
  BY SumExists
<1>3. CASE S = {}
  <2> HIDE DEF Sum
  <2> QED
    BY <1>1, <1>2, <1>3 DEF IsSum
<1>4. CASE S # {}
  <2> DEFINE r == S \ {Pick(S)}
  <2>1. IsFiniteSet(r)
    BY FS_RemoveElement
  <2>2. IsSum(Sum(r), f, r)
    <3> HIDE DEF r
    <3> QED
      BY <2>1, SumExists
  <2>3. Sum(S)[r] = Sum(r)[r]
    <3>1. r \subseteq S /\ r \subseteq r
      OBVIOUS
    <3> DEFINE g == Sum(S)
               h == Sum(r)
    <3>2. IsSum(g, f, S) /\ IsSum(h, f, r)
      BY <1>2, <2>2
    <3> HIDE DEF Sum, r, g, h
    <3>3. g[r] = h[r]
      BY <2>1, <3>1, <3>2, SumsAgree
    <3> QED
      BY <3>3 DEF g, h
  <2>4. Sum(S)[S] = f[Pick(S)] + Sum(S)[r]
    <3> HIDE DEF Sum
    <3> QED
      BY <1>2, <1>4 DEF IsSum
  <2> HIDE DEF Sum
  <2> QED
    BY <1>1, <1>4, <2>3, <2>4
<1> QED
  BY <1>3, <1>4

\* A sum of integers is one.
LEMMA SumIsInteger ==
  ASSUME NEW S, IsFiniteSet(S), NEW f, \A x \in S : f[x] \in Int
  PROVE  SumFunctionOnSet(f, S) \in Int
<1> DEFINE B == {T \in SUBSET S : SumFunctionOnSet(f, T) \notin Int}
<1>1. SUFFICES ASSUME B # {} PROVE FALSE
  <2>1. S \in SUBSET S
    OBVIOUS
  <2> QED
    BY <2>1
<1>2. PICK T \in B : \A U \in B : U \subseteq T => U = T
  <2>1. B \in SUBSET (SUBSET S)
    OBVIOUS
  <2> HIDE DEF B
  <2> QED
    BY <1>1, <2>1, SmallestSubset
<1>3. IsFiniteSet(T)
  BY <1>2, FS_Subset
<1>4. SumFunctionOnSet(f, T) =
        IF T = {} THEN 0 ELSE f[Pick(T)] + SumFunctionOnSet(f, T \ {Pick(T)})
  BY <1>3, SumUnfolds
<1>5. ASSUME T # {} PROVE FALSE
  <2>1. Pick(T) \in T
    BY <1>5 DEF Pick
  <2>2. SumFunctionOnSet(f, T \ {Pick(T)}) \in Int
    BY <1>2, <2>1
  <2>3. f[Pick(T)] \in Int
    BY <1>2, <2>1
  <2> QED
    BY <1>2, <1>4, <1>5, <2>2, <2>3
<1> QED
  BY <1>2, <1>4, <1>5

\* Any element may be taken first.
LEMMA SumTakesAny ==
  ASSUME NEW S, IsFiniteSet(S), NEW f, \A x \in S : f[x] \in Int
  PROVE  \A x \in S : SumFunctionOnSet(f, S) = f[x] + SumFunctionOnSet(f, S \ {x})
<1> DEFINE Holds(T) == \A x \in T : SumFunctionOnSet(f, T) = f[x] + SumFunctionOnSet(f, T \ {x})
           B == {T \in SUBSET S : ~ Holds(T)}
<1>1. SUFFICES ASSUME B # {} PROVE FALSE
  <2>1. S \in SUBSET S
    OBVIOUS
  <2>2. Holds(S)
    BY <2>1
  <2> QED
    BY <2>2
<1>2. PICK T \in B : \A U \in B : U \subseteq T => U = T
  <2>1. B \in SUBSET (SUBSET S)
    OBVIOUS
  <2> HIDE DEF B
  <2> QED
    BY <1>1, <2>1, SmallestSubset
<1>3. PICK x \in T : SumFunctionOnSet(f, T) # f[x] + SumFunctionOnSet(f, T \ {x})
  BY <1>2
<1> DEFINE p == Pick(T)
<1>4. p \in T
  BY <1>3 DEF Pick
<1>5. \A U \in SUBSET T : SumFunctionOnSet(f, U) \in Int
  <2> TAKE U \in SUBSET T
  <2>1. IsFiniteSet(U) /\ \A y \in U : f[y] \in Int
    BY <1>2, FS_Subset
  <2> QED
    BY <2>1, SumIsInteger
<1>6. SumFunctionOnSet(f, T) = f[p] + SumFunctionOnSet(f, T \ {p})
  <2>1. IsFiniteSet(T)
    BY <1>2, FS_Subset
  <2> QED
    BY <1>3, <2>1, SumUnfolds
<1>7. p # x
  BY <1>3, <1>6
<1>8. Holds(T \ {p}) /\ Holds(T \ {x})
  <2>1. T \ {p} \notin B /\ T \ {x} \notin B
    BY <1>2, <1>4
  <2> QED
    BY <1>2, <2>1
<1>9. SumFunctionOnSet(f, T \ {p}) = f[x] + SumFunctionOnSet(f, T \ {p, x})
  <2>1. (T \ {p}) \ {x} = T \ {p, x}
    OBVIOUS
  <2> HIDE DEF p
  <2> QED
    BY <1>3, <1>7, <1>8, <2>1
<1>10. SumFunctionOnSet(f, T \ {x}) = f[p] + SumFunctionOnSet(f, T \ {p, x})
  <2>1. (T \ {x}) \ {p} = T \ {p, x}
    OBVIOUS
  <2> HIDE DEF p
  <2> QED
    BY <1>4, <1>7, <1>8, <2>1
<1>11. /\ f[p] \in Int /\ f[x] \in Int
       /\ SumFunctionOnSet(f, T \ {p, x}) \in Int
  BY <1>2, <1>3, <1>4, <1>5
<1> QED
  BY <1>3, <1>6, <1>9, <1>10, <1>11

\* What a loop does that adds one element more.
LEMMA SumAdds ==
  ASSUME NEW S, IsFiniteSet(S), NEW x, x \notin S,
         NEW f, \A y \in S \cup {x} : f[y] \in Int
  PROVE  /\ IsFiniteSet(S \cup {x})
         /\ SumFunctionOnSet(f, S \cup {x}) = SumFunctionOnSet(f, S) + f[x]
         /\ SumFunctionOnSet(f, S) \in Int
<1>1. IsFiniteSet(S \cup {x})
  BY FS_AddElement
<1>2. SumFunctionOnSet(f, S \cup {x}) = f[x] + SumFunctionOnSet(f, (S \cup {x}) \ {x})
  BY <1>1, SumTakesAny
<1>3. SumFunctionOnSet(f, (S \cup {x}) \ {x}) = SumFunctionOnSet(f, S)
  <2>1. (S \cup {x}) \ {x} = S
    OBVIOUS
  <2> QED
    BY <2>1, Zenon
<1>4. SumFunctionOnSet(f, S) \in Int /\ f[x] \in Int
  BY SumIsInteger
<1> QED
  BY <1>1, <1>2, <1>3, <1>4

\* Induction over the subsets of a finite set, as a fact about a set of subsets.
LEMMA SubsetInduction ==
  ASSUME NEW S, IsFiniteSet(S), NEW G,
         {} \in G,
         \A T \in SUBSET S, x \in S : T \in G /\ x \notin T => T \cup {x} \in G
  PROVE  S \in G
<1> DEFINE B == {T \in SUBSET S : T \notin G}
<1>1. SUFFICES ASSUME B # {} PROVE FALSE
  <2>1. S \in SUBSET S
    OBVIOUS
  <2> QED
    BY <2>1
<1>2. PICK T \in B : \A U \in B : U \subseteq T => U = T
  <2>1. B \in SUBSET (SUBSET S)
    OBVIOUS
  <2> HIDE DEF B
  <2> QED
    BY <1>1, <2>1, SmallestSubset
<1>3. PICK x \in T : TRUE
  BY <1>2
<1>4. T \ {x} \in G
  BY <1>2, <1>3
<1>5. (T \ {x}) \cup {x} = T /\ x \in S /\ T \ {x} \in SUBSET S
  BY <1>2, <1>3
<1> QED
  BY <1>2, <1>4, <1>5

\* Nothing adds up to zero.
LEMMA SumOfNone ==
  ASSUME NEW f
  PROVE  SumFunctionOnSet(f, {}) = 0
<1>1. IsFiniteSet({})
  BY FS_EmptySet
<1> QED
  BY <1>1, SumUnfolds, Zenon

\* Larger summands have a larger sum; with no negative ones, so have more of them.
LEMMA SumGrows ==
  ASSUME NEW S, IsFiniteSet(S), NEW f, NEW g,
         \A x \in S : f[x] \in Nat /\ g[x] \in Nat /\ f[x] <= g[x]
  PROVE  /\ SumFunctionOnSet(f, S) \in Nat
         /\ SumFunctionOnSet(g, S) \in Nat
         /\ SumFunctionOnSet(f, S) <= SumFunctionOnSet(g, S)
<1> DEFINE Holds(T) == /\ SumFunctionOnSet(f, T) \in Nat
                       /\ SumFunctionOnSet(g, T) \in Nat
                       /\ SumFunctionOnSet(f, T) <= SumFunctionOnSet(g, T)
           G == {T \in SUBSET S : Holds(T)}
<1>1. {} \in G
  BY SumOfNone
<1>2. ASSUME NEW T \in SUBSET S, NEW x \in S, T \in G, x \notin T
      PROVE  T \cup {x} \in G
  <2>1. IsFiniteSet(T)
    BY FS_Subset
  <2>2. \A y \in T \cup {x} : f[y] \in Int /\ g[y] \in Int
    BY <1>2
  <2>3. /\ SumFunctionOnSet(f, T \cup {x}) = SumFunctionOnSet(f, T) + f[x]
        /\ SumFunctionOnSet(g, T \cup {x}) = SumFunctionOnSet(g, T) + g[x]
    BY <1>2, <2>1, <2>2, SumAdds
  <2>4. f[x] \in Nat /\ g[x] \in Nat /\ f[x] <= g[x] /\ Holds(T)
    BY <1>2
  <2> QED
    BY <2>3, <2>4
<1>3. S \in G
  <2> HIDE DEF G
  <2> QED
    BY <1>1, <1>2, SubsetInduction
<1> QED
  BY <1>3

\* Equal summands have equal sums.
LEMMA SumOfEquals ==
  ASSUME NEW S, IsFiniteSet(S), NEW f, NEW g, \A x \in S : f[x] = g[x] /\ f[x] \in Nat
  PROVE  SumFunctionOnSet(f, S) = SumFunctionOnSet(g, S)
<1>1. /\ SumFunctionOnSet(f, S) \in Nat /\ SumFunctionOnSet(g, S) \in Nat
      /\ SumFunctionOnSet(f, S) <= SumFunctionOnSet(g, S)
  BY SumGrows
<1>2. SumFunctionOnSet(g, S) <= SumFunctionOnSet(f, S)
  BY SumGrows
<1> QED
  BY <1>1, <1>2

\* More natural numbers have a larger sum, and zeros do not count.
LEMMA SumOfSubset ==
  ASSUME NEW S, IsFiniteSet(S), NEW f, \A x \in S : f[x] \in Nat, NEW R \in SUBSET S
  PROVE  /\ SumFunctionOnSet(f, R) \in Nat
         /\ SumFunctionOnSet(f, R) <= SumFunctionOnSet(f, S)
         /\ (\A x \in S \ R : f[x] = 0) => SumFunctionOnSet(f, R) = SumFunctionOnSet(f, S)
<1> DEFINE Holds(T) ==
             /\ SumFunctionOnSet(f, R) <= SumFunctionOnSet(f, R \cup T)
             /\ (\A x \in S \ R : f[x] = 0)
                  => SumFunctionOnSet(f, R) = SumFunctionOnSet(f, R \cup T)
           G == {T \in SUBSET (S \ R) : Holds(T)}
<1>1. \A T \in SUBSET S : IsFiniteSet(T) /\ SumFunctionOnSet(f, T) \in Nat
  <2> TAKE T \in SUBSET S
  <2>1. IsFiniteSet(T)
    BY FS_Subset
  <2>2. \A x \in T : f[x] \in Nat /\ f[x] <= f[x]
    OBVIOUS
  <2>3. SumFunctionOnSet(f, T) \in Nat
    BY <2>1, <2>2, SumGrows
  <2> QED
    BY <2>1, <2>3
<1>2. {} \in G
  <2>1. R \cup {} = R
    OBVIOUS
  <2>2. Holds({})
    BY <1>1, <2>1
  <2> QED
    BY <2>2
<1>3. ASSUME NEW T \in SUBSET (S \ R), NEW x \in S \ R, T \in G, x \notin T
      PROVE  T \cup {x} \in G
  <2> DEFINE U == R \cup T
  <2>1. U \in SUBSET S /\ x \notin U /\ R \cup (T \cup {x}) = U \cup {x}
    BY <1>3
  <2>2. IsFiniteSet(U) /\ \A y \in U \cup {x} : f[y] \in Int
    BY <1>1, <2>1
  <2>3. SumFunctionOnSet(f, U \cup {x}) = SumFunctionOnSet(f, U) + f[x]
    <3> HIDE DEF U
    <3> QED
      BY <2>1, <2>2, SumAdds
  <2>4. f[x] \in Nat /\ SumFunctionOnSet(f, U) \in Nat /\ SumFunctionOnSet(f, R) \in Nat
        /\ Holds(T)
    BY <1>1, <1>3, <2>1
  <2>5. Holds(T \cup {x})
    BY <2>1, <2>3, <2>4
  <2> QED
    BY <2>5
<1>4. S \ R \in G
  <2>1. IsFiniteSet(S \ R)
    BY FS_Difference
  <2> HIDE DEF G
  <2> QED
    BY <1>2, <1>3, <2>1, SubsetInduction
<1>5. R \cup (S \ R) = S
  OBVIOUS
<1> QED
  BY <1>1, <1>4, <1>5

\* A sum over what a one-to-one function names is a sum over its arguments.
LEMMA SumRenamed ==
  ASSUME NEW S, IsFiniteSet(S), NEW h, \A x, y \in S : h[x] = h[y] => x = y,
         NEW f, NEW g, \A x \in S : g[x] = f[h[x]] /\ g[x] \in Nat
  PROVE  SumFunctionOnSet(f, {h[x] : x \in S}) = SumFunctionOnSet(g, S)
<1> DEFINE Named(T) == {h[x] : x \in T}
           Holds(T) == /\ IsFiniteSet(Named(T))
                       /\ SumFunctionOnSet(f, Named(T)) = SumFunctionOnSet(g, T)
           G == {T \in SUBSET S : Holds(T)}
<1>1. {} \in G
  <2>1. Named({}) = {}
    OBVIOUS
  <2>2. Holds({})
    BY <2>1, SumOfNone, FS_EmptySet
  <2> QED
    BY <2>2
<1>2. ASSUME NEW T \in SUBSET S, NEW x \in S, T \in G, x \notin T
      PROVE  T \cup {x} \in G
  <2>1. Named(T \cup {x}) = Named(T) \cup {h[x]} /\ h[x] \notin Named(T)
    BY <1>2
  <2>2. IsFiniteSet(T) /\ \A y \in T \cup {x} : g[y] \in Int
    BY <1>2, FS_Subset
  <2>3. SumFunctionOnSet(g, T \cup {x}) = SumFunctionOnSet(g, T) + g[x]
    BY <1>2, <2>2, SumAdds
  <2>4. \A z \in Named(T) \cup {h[x]} : f[z] \in Int
    BY <1>2
  <2>5. Holds(T)
    BY <1>2
  <2>6. /\ IsFiniteSet(Named(T) \cup {h[x]})
        /\ SumFunctionOnSet(f, Named(T) \cup {h[x]}) = SumFunctionOnSet(f, Named(T)) + f[h[x]]
    <3> DEFINE N == Named(T)
               z == h[x]
    <3>1. IsFiniteSet(N) /\ z \notin N /\ \A y \in N \cup {z} : f[y] \in Int
      BY <2>1, <2>4, <2>5
    <3> HIDE DEF N, z
    <3>2. /\ IsFiniteSet(N \cup {z})
          /\ SumFunctionOnSet(f, N \cup {z}) = SumFunctionOnSet(f, N) + f[z]
      BY <3>1, SumAdds
    <3> QED
      BY <3>2 DEF N, z
  <2>7. Holds(T \cup {x})
    BY <2>1, <2>3, <2>5, <2>6
  <2> QED
    BY <2>7
<1>3. S \in G
  <2> HIDE DEF G
  <2> QED
    BY <1>1, <1>2, SubsetInduction
<1> QED
  BY <1>3

===============================================================================
