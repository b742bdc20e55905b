----------------------------- MODULE SumTheorems -----------------------------
(***************************************************************************)
(* Facts about SumFunctionOnSet of the community modules, for finite sets: *)
(* the recursion it is defined by has a solution, so that the sum of a set *)
(* is an element and the sum of the rest, whichever element that is.  And  *)
(* about counting: what goes up by one with each request that is through   *)
(* never passes their number.                                              *)
(***************************************************************************)
EXTENDS Functions, FiniteSetTheorems, WellFoundedInduction, TLAPS

-----------------------------------------------------------------------------
(* Induction over the subsets of a finite set, as a fact about sets.       *)

LEMMA SubsetInduction ==
    ASSUME NEW S, IsFiniteSet(S), NEW Good \in SUBSET (SUBSET S),
           \A T \in SUBSET S : (\A U \in SUBSET T : U # T => U \in Good) => T \in Good
    PROVE  Good = SUBSET S
<1>1. IsWellFoundedOn(StrictSubsetOrdering(S), SUBSET S)
      BY FS_StrictSubsetOrderingWellFounded, FS_FiniteSubsetsOfFinite
<1> DEFINE Bad == (SUBSET S) \ Good
<1>2. SUFFICES ASSUME Bad # {} PROVE FALSE
      OBVIOUS
<1>3. Bad \subseteq SUBSET S
      OBVIOUS
<1> HIDE DEF Bad
<1>4. PICK T \in Bad : \A U \in Bad : ~ (<<U, T>> \in StrictSubsetOrdering(S))
      BY <1>1, <1>2, <1>3, WFMin
<1> USE DEF Bad
<1>5. \A U \in SUBSET T : U # T => U \in Good
  <2>1. SUFFICES ASSUME NEW U \in SUBSET T, U # T, U \notin Good PROVE FALSE
        OBVIOUS
  <2>2. U \in Bad /\ T \in SUBSET S
        BY <2>1
  <2>3. <<U, T>> \in StrictSubsetOrdering(S)
        BY <2>1, <2>2 DEF StrictSubsetOrdering
  <2>4. QED BY <1>4, <2>2, <2>3
<1>6. QED BY <1>4, <1>5

-----------------------------------------------------------------------------
(* The recursion.                                                          *)

First(s) == CHOOSE x \in s : TRUE
Summing(g, f, S) ==
    g = [s \in SUBSET S |-> IF s = {} THEN 0 ELSE f[First(s)] + g[s \ {First(s)}]]
Summed(f, S) == (CHOOSE g : Summing(g, f, S))[S]

LEMMA SumIsSummed == \A f, S : SumFunctionOnSet(f, S) = Summed(f, S)
BY DEF SumFunctionOnSet, FoldFunctionOnSet, MapThenFoldSet, Summed, Summing, First

LEMMA FirstIsIn == \A s : s # {} => First(s) \in s
BY DEF First

\* Two solutions agree where both are defined.
LEMMA SummingUnique ==
    ASSUME NEW f, NEW S, IsFiniteSet(S), NEW T \in SUBSET S, NEW g, NEW h,
           Summing(g, f, S), Summing(h, f, T)
    PROVE  \A s \in SUBSET T : g[s] = h[s]
<1> DEFINE Good == {s \in SUBSET T : g[s] = h[s]}
<1>1. IsFiniteSet(T)
      BY FS_Subset
<1>2. ASSUME NEW s \in SUBSET T, \A u \in SUBSET s : u # s => u \in Good
      PROVE  s \in Good
  <2>1. CASE s = {}
        BY <2>1 DEF Summing
  <2>2. CASE s # {}
    <3>1. First(s) \in s
          BY <2>2, FirstIsIn
    <3>2. s \ {First(s)} \in SUBSET s /\ s \ {First(s)} # s
          BY <3>1
    <3>3. s \ {First(s)} \in Good
          BY <1>2, <3>2
    <3>4. /\ g[s] = f[First(s)] + g[s \ {First(s)}]
          /\ h[s] = f[First(s)] + h[s \ {First(s)}]
          BY <2>2 DEF Summing
    <3>5. QED BY <3>3, <3>4
  <2>3. QED BY <2>1, <2>2
<1>3. Good \in SUBSET (SUBSET T)
      OBVIOUS
<1> HIDE DEF Good
<1>4. Good = SUBSET T
      BY <1>1, <1>2, <1>3, SubsetInduction
<1>5. QED BY <1>4 DEF Good

LEMMA SummingExists ==
    ASSUME NEW f, NEW S, IsFiniteSet(S)
    PROVE  \A T \in SUBSET S : \E g : Summing(g, f, T)
<1> DEFINE Good == {T \in SUBSET S : \E g : Summing(g, f, T)}
<1>1. ASSUME NEW T \in SUBSET S, \A U \in SUBSET T : U # T => U \in Good
      PROVE  T \in Good
  <2> DEFINE Rest(s) == s \ {First(s)}
             h == [s \in SUBSET T |-> IF s = {} THEN 0 ELSE f[First(s)] + Summed(f, Rest(s))]
  <2>1. \A u \in SUBSET T : u # T => \E g : Summing(g, f, u)
        BY <1>1
  <2>2. \A u \in SUBSET T : u # T => Summing(CHOOSE g : Summing(g, f, u), f, u)
        BY <2>1
  <2>3. ASSUME NEW s \in SUBSET T, s # {}
        PROVE  h[Rest(s)] = Summed(f, Rest(s))
    <3> DEFINE u == Rest(s)
               g == CHOOSE k : Summing(k, f, u)
    <3>1. First(s) \in s
          BY <2>3, FirstIsIn
    <3>2. u \in SUBSET T /\ u # T
          BY <3>1
    <3>3. Summing(g, f, u) /\ Summed(f, u) = g[u]
          BY <2>2, <3>2 DEF Summed
    <3>4. CASE u = {}
      <4>1. g[u] = 0 /\ h[u] = 0
            BY <3>2, <3>3, <3>4 DEF Summing
      <4>2. QED BY <3>3, <4>1
    <3>5. CASE u # {}
      <4> DEFINE v == Rest(u)
                 k == CHOOSE m : Summing(m, f, v)
      <4>1. First(u) \in u
            BY <3>5, FirstIsIn
      <4>2. v \in SUBSET u /\ v \in SUBSET T /\ v # T
            BY <3>2, <4>1
      <4>3. Summing(k, f, v) /\ Summed(f, v) = k[v]
            BY <2>2, <4>2 DEF Summed
      <4>4. IsFiniteSet(u)
            BY <3>2, FS_Subset
      <4>5. g[v] = k[v]
        <5> HIDE DEF g, k, u, v
        <5>1. QED BY <3>3, <4>2, <4>3, <4>4, SummingUnique
      <4>6. g[u] = f[First(u)] + g[v]
            BY <3>3, <3>5 DEF Summing
      <4>7. h[u] = f[First(u)] + Summed(f, v)
            BY <3>2, <3>5
      <4>8. QED BY <3>3, <4>3, <4>5, <4>6, <4>7
    <3>6. QED BY <3>4, <3>5
  <2>4. Summing(h, f, T)
    <3>1. \A s \in SUBSET T : h[s] = IF s = {} THEN 0 ELSE f[First(s)] + h[Rest(s)]
          BY <2>3
    <3>2. h = [s \in SUBSET T |-> h[s]]
          OBVIOUS
    <3> HIDE DEF h
    <3>3. h = [s \in SUBSET T |-> IF s = {} THEN 0 ELSE f[First(s)] + h[Rest(s)]]
          BY <3>1, <3>2
    <3>4. QED BY <3>3 DEF Summing
  <2> HIDE DEF h
  <2>5. QED BY <2>4
<1>2. Good \in SUBSET (SUBSET S)
      OBVIOUS
<1> HIDE DEF Good
<1>3. Good = SUBSET S
      BY <1>1, <1>2, SubsetInduction
<1>4. QED BY <1>3 DEF Good

\* The sum of nothing, and of a set with a first element.
LEMMA SumOfFirst ==
    ASSUME NEW f, NEW S, IsFiniteSet(S)
    PROVE  SumFunctionOnSet(f, S) =
              IF S = {} THEN 0 ELSE f[First(S)] + SumFunctionOnSet(f, S \ {First(S)})
<1> DEFINE g == CHOOSE k : Summing(k, f, S)
           R == S \ {First(S)}
           h == CHOOSE k : Summing(k, f, R)
<1>1. Summing(g, f, S) /\ SumFunctionOnSet(f, S) = g[S]
      BY SummingExists, SumIsSummed DEF Summed
<1>2. Summing(h, f, R) /\ SumFunctionOnSet(f, R) = h[R]
      BY SummingExists, SumIsSummed DEF Summed
<1>3. R \in SUBSET S
      OBVIOUS
<1>4. g[R] = h[R]
  <2> HIDE DEF g, h, R
  <2>1. QED BY <1>1, <1>2, <1>3, SummingUnique
<1>5. g[S] = IF S = {} THEN 0 ELSE f[First(S)] + g[R]
      BY <1>1 DEF Summing
<1>6. QED BY <1>1, <1>2, <1>4, <1>5

-----------------------------------------------------------------------------
(* Sums of natural numbers.                                                *)

LEMMA SumOfNone == \A f : SumFunctionOnSet(f, {}) = 0
BY SumOfFirst, FS_EmptySet

LEMMA SumOfZeros ==
    ASSUME NEW f, NEW S, IsFiniteSet(S), \A x \in S : f[x] = 0
    PROVE  SumFunctionOnSet(f, S) = 0
<1> DEFINE Good == {T \in SUBSET S : SumFunctionOnSet(f, T) = 0}
<1>1. ASSUME NEW T \in SUBSET S, \A U \in SUBSET T : U # T => U \in Good
      PROVE  T \in Good
  <2>1. IsFiniteSet(T)
        BY FS_Subset
  <2>2. CASE T = {}
        BY <2>2, SumOfNone
  <2>3. CASE T # {}
    <3>1. First(T) \in T
          BY <2>3, FirstIsIn
    <3>2. T \ {First(T)} \in Good
          BY <1>1, <3>1
    <3>3. SumFunctionOnSet(f, T) = f[First(T)] + SumFunctionOnSet(f, T \ {First(T)})
          BY <2>1, <2>3, SumOfFirst
    <3>4. f[First(T)] = 0
          BY <3>1
    <3>5. QED BY <3>2, <3>3, <3>4
  <2>4. QED BY <2>2, <2>3
<1>2. Good \in SUBSET (SUBSET S)
      OBVIOUS
<1>3. Good = SUBSET S
  <2> HIDE DEF Good
  <2>1. QED BY <1>1, <1>2, SubsetInduction
<1>4. QED BY <1>3

LEMMA SumIsNat ==
    ASSUME NEW f, NEW S, IsFiniteSet(S), \A x \in S : f[x] \in Nat
    PROVE  SumFunctionOnSet(f, S) \in Nat
<1> DEFINE Good == {T \in SUBSET S : SumFunctionOnSet(f, T) \in Nat}
<1>1. ASSUME NEW T \in SUBSET S, \A U \in SUBSET T : U # T => U \in Good
      PROVE  T \in Good
  <2>1. IsFiniteSet(T)
        BY FS_Subset
  <2>2. CASE T = {}
        BY <2>2, SumOfNone
  <2>3. CASE T # {}
    <3>1. First(T) \in T
          BY <2>3, FirstIsIn
    <3>2. T \ {First(T)} \in Good
          BY <1>1, <3>1
    <3>3. SumFunctionOnSet(f, T) = f[First(T)] + SumFunctionOnSet(f, T \ {First(T)})
          BY <2>1, <2>3, SumOfFirst
    <3>4. QED BY <3>1, <3>2, <3>3
  <2>4. QED BY <2>2, <2>3
<1>2. Good \in SUBSET (SUBSET S)
      OBVIOUS
<1> HIDE DEF Good
<1>3. Good = SUBSET S
      BY <1>1, <1>2, SubsetInduction
<1>4. QED BY <1>3 DEF Good

LEMMA SumWithout ==
    ASSUME NEW f, NEW S, IsFiniteSet(S), \A x \in S : f[x] \in Nat
    PROVE  \A x \in S : SumFunctionOnSet(f, S) = f[x] + SumFunctionOnSet(f, S \ {x})
<1> DEFINE Good == {T \in SUBSET S :
              \A x \in T : SumFunctionOnSet(f, T) = f[x] + SumFunctionOnSet(f, T \ {x})}
<1>1. ASSUME NEW T \in SUBSET S, \A U \in SUBSET T : U # T => U \in Good
      PROVE  T \in Good
  <2>1. SUFFICES ASSUME NEW x \in T
                 PROVE  SumFunctionOnSet(f, T) = f[x] + SumFunctionOnSet(f, T \ {x})
        OBVIOUS
  <2> DEFINE c == First(T)
             both == T \ {c, x}
  <2>2. c \in T
        BY FirstIsIn
  <2>3. SumFunctionOnSet(f, T) = f[c] + SumFunctionOnSet(f, T \ {c})
        BY <2>2, FS_Subset, SumOfFirst
  <2>4. CASE x = c
        BY <2>3, <2>4
  <2>5. CASE x # c
    <3>1. T \ {c} \in Good /\ T \ {x} \in Good
          BY <1>1, <2>2
    <3>2. x \in T \ {c} /\ c \in T \ {x}
          BY <2>2, <2>5
    <3>3. (T \ {c}) \ {x} = both /\ (T \ {x}) \ {c} = both
          OBVIOUS
    <3>4. SumFunctionOnSet(f, T \ {c}) = f[x] + SumFunctionOnSet(f, (T \ {c}) \ {x})
          BY <3>1, <3>2
    <3>5. SumFunctionOnSet(f, T \ {x}) = f[c] + SumFunctionOnSet(f, (T \ {x}) \ {c})
          BY <3>1, <3>2
    <3>6. IsFiniteSet(both) /\ \A y \in both : f[y] \in Nat
          BY FS_Subset
    <3>7. SumFunctionOnSet(f, both) \in Nat /\ f[x] \in Nat /\ f[c] \in Nat
          BY <2>2, <3>6, SumIsNat
    <3> HIDE DEF both, c
    <3>8. QED BY <2>3, <3>3, <3>4, <3>5, <3>7
  <2>6. QED BY <2>4, <2>5
<1>2. Good \in SUBSET (SUBSET S)
      OBVIOUS
<1> HIDE DEF Good
<1>3. Good = SUBSET S
      BY <1>1, <1>2, SubsetInduction
<1>4. QED BY <1>3 DEF Good

LEMMA SumWith ==
    ASSUME NEW f, NEW S, IsFiniteSet(S), NEW x, x \notin S, \A y \in S \cup {x} : f[y] \in Nat
    PROVE  SumFunctionOnSet(f, S \cup {x}) = SumFunctionOnSet(f, S) + f[x]
<1>1. IsFiniteSet(S \cup {x}) /\ (S \cup {x}) \ {x} = S
      BY FS_AddElement
<1>2. SumFunctionOnSet(f, S \cup {x}) = f[x] + SumFunctionOnSet(f, (S \cup {x}) \ {x})
      BY <1>1, SumWithout
<1>3. SumFunctionOnSet(f, S) \in Nat /\ f[x] \in Nat
      BY SumIsNat
<1>4. QED BY <1>1, <1>2, <1>3

\* Functions that agree on a set have one sum.
LEMMA SumOfEqual ==
    ASSUME NEW f, NEW g, NEW S, IsFiniteSet(S), \A x \in S : f[x] = g[x]
    PROVE  SumFunctionOnSet(f, S) = SumFunctionOnSet(g, S)
<1> DEFINE Good == {T \in SUBSET S : SumFunctionOnSet(f, T) = SumFunctionOnSet(g, T)}
<1>1. ASSUME NEW T \in SUBSET S, \A U \in SUBSET T : U # T => U \in Good
      PROVE  T \in Good
  <2>1. IsFiniteSet(T)
        BY FS_Subset
  <2>2. CASE T = {}
        BY <2>2, SumOfNone
  <2>3. CASE T # {}
    <3>1. First(T) \in T
          BY <2>3, FirstIsIn
    <3>2. T \ {First(T)} \in Good
          BY <1>1, <3>1
    <3>3. /\ SumFunctionOnSet(f, T) = f[First(T)] + SumFunctionOnSet(f, T \ {First(T)})
          /\ SumFunctionOnSet(g, T) = g[First(T)] + SumFunctionOnSet(g, T \ {First(T)})
          BY <2>1, <2>3, SumOfFirst
    <3>4. QED BY <3>1, <3>2, <3>3
  <2>4. QED BY <2>2, <2>3
<1>2. Good \in SUBSET (SUBSET S)
      OBVIOUS
<1> HIDE DEF Good
<1>3. Good = SUBSET S
      BY <1>1, <1>2, SubsetInduction
<1>4. QED BY <1>3 DEF Good

\* A part adds up to no more than the whole.
LEMMA SumOfPart ==
    ASSUME NEW f, NEW S, IsFiniteSet(S), \A x \in S : f[x] \in Nat, NEW T \in SUBSET S
    PROVE  SumFunctionOnSet(f, T) <= SumFunctionOnSet(f, S)
<1> DEFINE Good == {U \in SUBSET S : SumFunctionOnSet(f, T) <= SumFunctionOnSet(f, T \cup U)}
<1>1. ASSUME NEW U \in SUBSET S, \A V \in SUBSET U : V # U => V \in Good
      PROVE  U \in Good
  <2>1. IsFiniteSet(T) /\ SumFunctionOnSet(f, T) \in Nat
        BY FS_Subset, SumIsNat
  <2>2. CASE U \subseteq T
    <3>1. T \cup U = T
          BY <2>2
    <3>2. QED BY <2>1, <3>1
  <2>3. ASSUME NEW x \in U, x \notin T PROVE U \in Good
    <3> DEFINE W == T \cup (U \ {x})
    <3>1. U \ {x} \in Good
          BY <1>1
    <3>2. W \in SUBSET S /\ x \notin W /\ T \cup U = W \cup {x}
          BY <2>3
    <3>3. IsFiniteSet(W) /\ (\A y \in W \cup {x} : f[y] \in Nat)
          BY <3>2, FS_Subset
    <3> HIDE DEF W
    <3>4. SumFunctionOnSet(f, W \cup {x}) = SumFunctionOnSet(f, W) + f[x]
          BY <3>2, <3>3, SumWith
    <3>5. SumFunctionOnSet(f, W) \in Nat
          BY <3>3, SumIsNat
    <3>6. SumFunctionOnSet(f, T) <= SumFunctionOnSet(f, W)
          BY <3>1 DEF W
    <3>7. QED BY <2>1, <3>2, <3>3, <3>4, <3>5, <3>6
  <2>4. QED BY <2>2, <2>3
<1>2. Good \in SUBSET (SUBSET S)
      OBVIOUS
<1> HIDE DEF Good
<1>3. Good = SUBSET S
      BY <1>1, <1>2, SubsetInduction
<1>4. T \cup S = S
      OBVIOUS
<1>5. QED BY <1>3, <1>4 DEF Good

\* Two parts that share nothing add up to the whole.
LEMMA SumOfUnion ==
    ASSUME NEW f, NEW S, IsFiniteSet(S), NEW T, IsFiniteSet(T), S \cap T = {},
           \A x \in S \cup T : f[x] \in Nat
    PROVE  SumFunctionOnSet(f, S \cup T) = SumFunctionOnSet(f, S) + SumFunctionOnSet(f, T)
<1> DEFINE Sum(U) == SumFunctionOnSet(f, U)
           Good   == {U \in SUBSET T : Sum(S \cup U) = Sum(S) + Sum(U)}
<1>1. Sum(S) \in Nat
      BY SumIsNat
<1>2. ASSUME NEW U \in SUBSET T, \A V \in SUBSET U : V # U => V \in Good
      PROVE  U \in Good
  <2>1. CASE U = {}
    <3>1. S \cup U = S /\ Sum(U) = 0
          BY <2>1, SumOfNone
    <3>2. Sum(S \cup U) = Sum(S)
          BY <3>1
    <3> HIDE DEF Sum
    <3>3. Sum(S \cup U) = Sum(S) + Sum(U)
          BY <1>1, <3>1, <3>2
    <3>4. QED BY <3>3
  <2>2. ASSUME NEW x \in U PROVE U \in Good
    <3> DEFINE V == U \ {x}
               W == S \cup V
    <3>1. Sum(W) = Sum(S) + Sum(V)
      <4>1. V \in Good
            BY <1>2
      <4>2. QED BY <4>1
    <3>2. /\ x \notin V /\ x \notin W /\ U = V \cup {x} /\ S \cup U = W \cup {x}
          /\ IsFiniteSet(V) /\ IsFiniteSet(W) /\ f[x] \in Nat
          /\ (\A y \in V \cup {x} : f[y] \in Nat) /\ (\A y \in W \cup {x} : f[y] \in Nat)
      <4>1. IsFiniteSet(V)
            BY FS_Subset
      <4>2. IsFiniteSet(S \cup V)
            BY <4>1, FS_Union
      <4>3. QED BY <4>1, <4>2
    <3> HIDE DEF V, W
    <3>3. Sum(V \cup {x}) = Sum(V) + f[x] /\ Sum(W \cup {x}) = Sum(W) + f[x]
          BY <3>2, SumWith
    <3>4. Sum(V) \in Nat
          BY <3>2, SumIsNat
    <3> HIDE DEF Sum
    <3> DEFINE a == Sum(S)
               b == Sum(V)
               c == f[x]
    <3>5. Sum(S \cup U) = (a + b) + c /\ Sum(U) = b + c
          BY <3>1, <3>2, <3>3
    <3>6. a \in Nat /\ b \in Nat /\ c \in Nat
          BY <1>1, <3>2, <3>4
    <3>7. Sum(S \cup U) = Sum(S) + Sum(U)
      <4>1. Sum(S) = a
            OBVIOUS
      <4> HIDE DEF a, b, c
      <4>2. QED BY <3>5, <3>6, <4>1
    <3>8. QED BY <3>7
  <2>3. QED BY <2>1, <2>2
<1>3. Good \in SUBSET (SUBSET T)
      OBVIOUS
<1> HIDE DEF Good
<1>4. Good = SUBSET T
      BY <1>2, <1>3, SubsetInduction
<1>5. QED BY <1>4 DEF Good

\* Renaming what is summed: e is one to one, and x is worth what e[x] is.
LEMMA SumRenamed ==
    ASSUME NEW f, NEW g, NEW S, IsFiniteSet(S), NEW e,
           \A x, y \in S : e[x] = e[y] => x = y,
           \A x \in S : f[x] = g[e[x]] /\ f[x] \in Nat
    PROVE  SumFunctionOnSet(f, S) = SumFunctionOnSet(g, {e[x] : x \in S})
<1> DEFINE Named(U) == {e[x] : x \in U}
           Good == {U \in SUBSET S : /\ IsFiniteSet(Named(U))
                                     /\ SumFunctionOnSet(f, U) = SumFunctionOnSet(g, Named(U))}
<1>1. ASSUME NEW U \in SUBSET S, \A V \in SUBSET U : V # U => V \in Good
      PROVE  U \in Good
  <2>1. CASE U = {}
    <3>1. Named(U) = {}
          BY <2>1
    <3>2. QED BY <2>1, <3>1, SumOfNone, FS_EmptySet
  <2>2. ASSUME NEW x \in U PROVE U \in Good
    <3> DEFINE V == U \ {x}
               n == e[x]
               N == Named(V)
    <3>1. IsFiniteSet(N) /\ SumFunctionOnSet(f, V) = SumFunctionOnSet(g, N)
          BY <1>1
    <3>2. /\ x \notin V /\ U = V \cup {x} /\ V \in SUBSET S
          /\ n \notin N /\ Named(U) = N \cup {n} /\ f[x] = g[n]
          OBVIOUS
    <3>3. IsFiniteSet(V) /\ \A y \in V \cup {x} : f[y] \in Nat
          BY FS_Subset
    <3>4. \A y \in N \cup {n} : g[y] \in Nat
          OBVIOUS
    <3> HIDE DEF V, N, n
    <3>5. SumFunctionOnSet(f, V \cup {x}) = SumFunctionOnSet(f, V) + f[x]
          BY <3>2, <3>3, SumWith
    <3>6. SumFunctionOnSet(g, N \cup {n}) = SumFunctionOnSet(g, N) + g[n]
          BY <3>1, <3>2, <3>4, SumWith
    <3>7. IsFiniteSet(N \cup {n})
          BY <3>1, FS_AddElement
    <3> HIDE DEF Named
    <3>8. QED BY <3>1, <3>2, <3>5, <3>6, <3>7
  <2>3. QED BY <2>1, <2>2
<1>2. Good \in SUBSET (SUBSET S)
      OBVIOUS
<1> HIDE DEF Good
<1>3. Good = SUBSET S
      BY <1>1, <1>2, SubsetInduction
<1>4. QED BY <1>3 DEF Good

\* Where each number is at least as large, so is the sum.
LEMMA SumOfLarger ==
    ASSUME NEW f, NEW g, NEW S, IsFiniteSet(S),
           \A x \in S : f[x] \in Nat /\ g[x] \in Nat /\ f[x] <= g[x]
    PROVE  SumFunctionOnSet(f, S) <= SumFunctionOnSet(g, S)
<1> DEFINE Good == {T \in SUBSET S : SumFunctionOnSet(f, T) <= SumFunctionOnSet(g, T)}
<1>1. ASSUME NEW T \in SUBSET S, \A U \in SUBSET T : U # T => U \in Good
      PROVE  T \in Good
  <2>1. IsFiniteSet(T)
        BY FS_Subset
  <2>2. CASE T = {}
        BY <2>2, SumOfNone
  <2>3. CASE T # {}
    <3> DEFINE R == T \ {First(T)}
    <3>1. First(T) \in T
          BY <2>3, FirstIsIn
    <3>2. R \in Good
          BY <1>1, <3>1
    <3>3. /\ SumFunctionOnSet(f, T) = f[First(T)] + SumFunctionOnSet(f, R)
          /\ SumFunctionOnSet(g, T) = g[First(T)] + SumFunctionOnSet(g, R)
          BY <2>1, <2>3, SumOfFirst
    <3>4. SumFunctionOnSet(f, R) \in Nat /\ SumFunctionOnSet(g, R) \in Nat
      <4>1. IsFiniteSet(R) /\ \A x \in R : f[x] \in Nat /\ g[x] \in Nat
            BY <2>1, FS_Subset
      <4>2. QED BY <4>1, SumIsNat
    <3>5. QED BY <3>1, <3>2, <3>3, <3>4
  <2>4. QED BY <2>2, <2>3
<1>2. Good \in SUBSET (SUBSET S)
      OBVIOUS
<1> HIDE DEF Good
<1>3. Good = SUBSET S
      BY <1>1, <1>2, SubsetInduction
<1>4. QED BY <1>3 DEF Good

-----------------------------------------------------------------------------
(* Counts of what is through.                                              *)

\* A count that is within the number of those that are through, and goes up by
\* one at most where one more is, stays within it.
LEMMA CountsWhoIsThrough ==
    ASSUME NEW S, IsFiniteSet(S), NEW A \in SUBSET S, NEW B \in SUBSET S, A \subseteq B,
           NEW n \in Nat, n <= Cardinality(A), NEW k \in Nat, k <= n \/ (k = n + 1 /\ A # B)
    PROVE  k <= Cardinality(B)
<1>1. IsFiniteSet(A) /\ IsFiniteSet(B)
      BY FS_Subset
<1>2. Cardinality(A) \in Nat /\ Cardinality(B) \in Nat /\ Cardinality(A) <= Cardinality(B)
      BY <1>1, FS_Subset, FS_CardinalityType
<1>3. ASSUME A # B PROVE Cardinality(A) + 1 <= Cardinality(B)
  <2>1. PICK x : x \in B \ A
        BY <1>3
  <2>2. IsFiniteSet(A \cup {x}) /\ Cardinality(A \cup {x}) = Cardinality(A) + 1
        BY <1>1, <2>1, FS_AddElement
  <2>3. A \cup {x} \subseteq B
        BY <2>1
  <2>4. Cardinality(A \cup {x}) <= Cardinality(B)
        BY <1>1, <2>3, FS_Subset
  <2>5. QED BY <2>2, <2>4
<1>4. QED BY <1>2, <1>3

\* Those that are through are no more than all.
LEMMA NoMoreThanAll ==
    ASSUME NEW S, IsFiniteSet(S), NEW A \in SUBSET S
    PROVE  /\ Cardinality(A) \in Nat /\ Cardinality(S) \in Nat
           /\ Cardinality(A) <= Cardinality(S)
BY FS_Subset, FS_CardinalityType
=============================================================================
