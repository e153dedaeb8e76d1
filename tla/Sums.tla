------------------------------- MODULE Sums -------------------------------
(* Laws of SumFunctionOnSet of the community module Functions, for finite    *)
(* sets of indices and integer values.  The operator is a recursive function *)
(* over subsets; that it exists, and that the order in which it takes the    *)
(* indices does not matter, is shown by looking at a smallest                *)
(* counterexample.                                                           *)
EXTENDS Integers, Functions, FiniteSets, FiniteSetTheorems, WellFoundedInduction, TLAPS

\* A nonempty set of naturals has a least member.
LEMMA LeastNat ==
    ASSUME NEW S, S \subseteq Nat, S # {}
    PROVE  \E n \in S : \A m \in S : n <= m
<1>. DEFINE R == OpToRel(<, Nat)
<1>1. IsWellFoundedOn(R, Nat)
  BY NatLessThanWellFounded
<1>2. \A x, y \in Nat : <<x, y>> \in R <=> x < y
  BY DEF OpToRel
<1>. HIDE DEF R
<1>3. PICK n \in S : \A m \in S : ~ (<<m, n>> \in R)
  BY <1>1, WFMin
<1>4. \A m \in S : ~(m < n)
  BY <1>2, <1>3, Zenon
<1>. QED
  BY <1>4

\* The index a sum takes first, and what one unfolding of it computes.
First(s) == CHOOSE x \in s : TRUE
Unfold(f, g, s) == IF s = {} THEN 0 ELSE f[First(s)] + g[s \ {First(s)}]

Iter(f, S) == CHOOSE g : g = [s \in SUBSET S |-> Unfold(f, g, s)]

\* SumFunctionOnSet is the recursive function Iter, applied to the whole set.
LEMMA SumIsIter ==
    ASSUME NEW f, NEW S
    PROVE  SumFunctionOnSet(f, S) = Iter(f, S)[S]
BY DEF SumFunctionOnSet, FoldFunctionOnSet, MapThenFoldSet, Iter, Unfold, First

\* Taking the first index leaves a smaller finite set.
LEMMA TakeFirst ==
    ASSUME NEW s, IsFiniteSet(s), s # {}
    PROVE  /\ First(s) \in s
           /\ IsFiniteSet(s \ {First(s)})
           /\ Cardinality(s \ {First(s)}) = Cardinality(s) - 1
<1>1. First(s) \in s
  BY DEF First
<1>. QED
  BY <1>1, FS_RemoveElement

\* A collection of subsets of a finite set has a minimal member: the form in
\* which the laws below use induction.
LEMMA MinimalSubset ==
    ASSUME NEW S, IsFiniteSet(S), NEW B, B \subseteq SUBSET S, B # {}
    PROVE  \E s \in B : IsFiniteSet(s) /\ \A x \in s : s \ {x} \notin B
<1>. DEFINE N == {Cardinality(s) : s \in B}
<1>1. \A s \in B : IsFiniteSet(s) /\ Cardinality(s) \in Nat
  BY FS_Subset, FS_CardinalityType
<1>2. PICK n \in N : \A m \in N : n <= m
  <2>1. N \subseteq Nat /\ N # {}
    BY <1>1
  <2>. HIDE DEF N
  <2>. QED
    BY <2>1, LeastNat
<1>3. PICK s \in B : Cardinality(s) = n
  BY <1>2
<1>4. ASSUME NEW x \in s PROVE s \ {x} \notin B
  <2>1. Cardinality(s \ {x}) = Cardinality(s) - 1
    BY <1>1, <1>4, FS_RemoveElement
  <2>. QED
    BY <1>1, <1>2, <1>3, <2>1
<1>. QED
  BY <1>1, <1>3, <1>4

\* The recursion has a solution on the subsets of at most n elements.
Small(S, n) == {s \in SUBSET S : Cardinality(s) <= n}
Solved(f, S, n) == \E g : g = [s \in Small(S, n) |-> Unfold(f, g, s)]

\* A set has a solution when the set without its first index has one.
LEMMA SolvedNext ==
    ASSUME NEW f, NEW S, IsFiniteSet(S), NEW n \in Nat, Solved(f, S, n)
    PROVE  Solved(f, S, n + 1)
<1>1. PICK g : g = [s \in Small(S, n) |-> Unfold(f, g, s)]
  BY DEF Solved
<1>. DEFINE k == [s \in Small(S, n + 1) |-> Unfold(f, g, s)]
<1>2. ASSUME NEW s \in Small(S, n + 1) PROVE k[s] = Unfold(f, k, s)
  <2>1. CASE s = {}
    BY <2>1 DEF Unfold
  <2>2. CASE s # {}
    <3>. DEFINE t == s \ {First(s)}
    <3>1. IsFiniteSet(s) /\ Cardinality(s) \in Nat /\ Cardinality(s) <= n + 1 /\ s \subseteq S
      BY FS_Subset, FS_CardinalityType DEF Small
    <3>2. Cardinality(t) = Cardinality(s) - 1
      BY <2>2, <3>1, TakeFirst
    <3>3. t \in Small(S, n) /\ t \in Small(S, n + 1)
      BY <3>1, <3>2 DEF Small
    <3>4. g[t] = Unfold(f, g, t)
      BY <1>1, <3>3, Zenon
    <3>5. k[t] = Unfold(f, g, t)
      BY <3>3
    <3>6. k[s] = f[First(s)] + g[t]
      BY <2>2 DEF Unfold
    <3>. QED
      BY <2>2, <3>4, <3>5, <3>6 DEF Unfold
  <2>. QED
    BY <2>1, <2>2
<1>3. k = [s \in Small(S, n + 1) |-> k[s]]
  OBVIOUS
<1>. HIDE DEF k
<1>4. k = [s \in Small(S, n + 1) |-> Unfold(f, k, s)]
  BY <1>2, <1>3
<1>. QED
  BY <1>4 DEF Solved

\* Every subset of a finite set has a solution.
LEMMA AllSolved ==
    ASSUME NEW f, NEW S, IsFiniteSet(S), NEW n \in Nat
    PROVE  Solved(f, S, n)
<1>. DEFINE B == {m \in Nat : ~Solved(f, S, m)}
<1>1. SUFFICES ASSUME B # {} PROVE FALSE
  OBVIOUS
<1>2. PICK m \in B : \A i \in B : m <= i
  BY <1>1, LeastNat
<1>3. CASE m = 0
  <2>. DEFINE g == [s \in Small(S, 0) |-> 0]
  <2>1. ASSUME NEW s \in Small(S, 0) PROVE s = {}
    <3>1. IsFiniteSet(s) /\ Cardinality(s) \in Nat /\ Cardinality(s) <= 0
      BY FS_Subset, FS_CardinalityType DEF Small
    <3>. QED
      BY <3>1, FS_EmptySet
  <2>2. g = [s \in Small(S, 0) |-> Unfold(f, g, s)]
    BY <2>1 DEF Unfold
  <2>. QED
    BY <1>3, <2>2 DEF Solved
<1>4. CASE m # 0
  <2>1. m - 1 \in Nat /\ m - 1 \notin B
    BY <1>2, <1>4
  <2>2. Solved(f, S, m - 1)
    BY <2>1
  <2>3. Solved(f, S, (m - 1) + 1)
    BY <2>1, <2>2, SolvedNext
  <2>4. (m - 1) + 1 = m
    OBVIOUS
  <2>. QED
    BY <2>3, <2>4
<1>. QED
  BY <1>3, <1>4

\* Iter satisfies its defining equation, so it may be unfolded.
LEMMA IterUnfolds ==
    ASSUME NEW f, NEW S, IsFiniteSet(S)
    PROVE  \A s \in SUBSET S : Iter(f, S)[s] = Unfold(f, Iter(f, S), s)
<1>1. Cardinality(S) \in Nat /\ Small(S, Cardinality(S)) = SUBSET S
  BY FS_Subset, FS_CardinalityType DEF Small
<1>2. \E g : g = [s \in SUBSET S |-> Unfold(f, g, s)]
  <2>1. Solved(f, S, Cardinality(S))
    BY <1>1, AllSolved
  <2>. QED
    BY <1>1, <2>1 DEF Solved
<1>3. Iter(f, S) = [s \in SUBSET S |-> Unfold(f, Iter(f, S), s)]
  BY <1>2, Zenon DEF Iter
<1>. QED
  BY <1>3, Zenon

\* Only the values at the indices summed matter.
LEMMA IterAgrees ==
    ASSUME NEW f, NEW g, NEW S, NEW T, IsFiniteSet(S), IsFiniteSet(T),
           NEW u, u \subseteq S, u \subseteq T, \A x \in u : f[x] = g[x]
    PROVE  Iter(f, S)[u] = Iter(g, T)[u]
<1>. DEFINE B == {s \in SUBSET u : Iter(f, S)[s] # Iter(g, T)[s]}
<1>1. SUFFICES ASSUME B # {} PROVE FALSE
  OBVIOUS
<1>2. IsFiniteSet(u)
  BY FS_Subset
<1>3. PICK s \in B : IsFiniteSet(s) /\ \A x \in s : s \ {x} \notin B
  BY <1>1, <1>2, MinimalSubset
<1>4. Iter(f, S)[s] = Unfold(f, Iter(f, S), s) /\ Iter(g, T)[s] = Unfold(g, Iter(g, T), s)
  BY IterUnfolds
<1>5. CASE s = {}
  BY <1>4, <1>5 DEF Unfold
<1>6. CASE s # {}
  <2>1. First(s) \in s
    BY <1>3, <1>6, TakeFirst
  <2>2. Iter(f, S)[s \ {First(s)}] = Iter(g, T)[s \ {First(s)}]
    BY <1>3, <2>1
  <2>3. f[First(s)] = g[First(s)]
    BY <2>1
  <2>. QED
    BY <1>4, <1>6, <2>2, <2>3 DEF Unfold
<1>. QED
  BY <1>5, <1>6

---------------------------------------------------------------------------
(* The laws *)

\* A sum depends only on the values at its indices.
LEMMA SumAgrees ==
    ASSUME NEW f, NEW g, NEW S, IsFiniteSet(S), \A x \in S : f[x] = g[x]
    PROVE  SumFunctionOnSet(f, S) = SumFunctionOnSet(g, S)
BY SumIsIter, IterAgrees

\* The sum over no index.
LEMMA SumEmpty ==
    ASSUME NEW f
    PROVE  SumFunctionOnSet(f, {}) = 0
<1>1. Iter(f, {})[{}] = Unfold(f, Iter(f, {}), {})
  BY FS_EmptySet, IterUnfolds
<1>. QED
  BY <1>1, SumIsIter DEF Unfold

\* A sum is the value at the first index and the sum of the others.
LEMMA SumFirst ==
    ASSUME NEW f, NEW S, IsFiniteSet(S), S # {}
    PROVE  SumFunctionOnSet(f, S)
             = f[First(S)] + SumFunctionOnSet(f, S \ {First(S)})
<1>. DEFINE T == S \ {First(S)}
<1>1. IsFiniteSet(T)
  BY TakeFirst
<1>2. Iter(f, S)[S] = f[First(S)] + Iter(f, S)[T]
  BY IterUnfolds DEF Unfold
<1>3. Iter(f, S)[T] = Iter(f, T)[T]
  BY <1>1, IterAgrees
<1>. QED
  BY <1>2, <1>3, SumIsIter

\* A sum of integers is one, and a sum of naturals is one.
LEMMA SumType ==
    ASSUME NEW f, NEW S, IsFiniteSet(S), NEW N \in {Nat, Int}, \A x \in S : f[x] \in N
    PROVE  SumFunctionOnSet(f, S) \in N
<1>. DEFINE B == {s \in SUBSET S : SumFunctionOnSet(f, s) \notin N}
<1>1. SUFFICES ASSUME B # {} PROVE FALSE
  OBVIOUS
<1>2. PICK s \in B : IsFiniteSet(s) /\ \A x \in s : s \ {x} \notin B
  BY <1>1, MinimalSubset
<1>3. CASE s = {}
  BY <1>3, SumEmpty
<1>4. CASE s # {}
  <2>1. First(s) \in s
    BY <1>2, <1>4, TakeFirst
  <2>2. f[First(s)] \in N /\ SumFunctionOnSet(f, s \ {First(s)}) \in N
    BY <1>2, <2>1
  <2>. QED
    BY <1>2, <1>4, <2>2, SumFirst
<1>. QED
  BY <1>3, <1>4

\* Any index may be taken out.
LEMMA SumRemove ==
    ASSUME NEW f, NEW S, IsFiniteSet(S), \A x \in S : f[x] \in Int, NEW y \in S
    PROVE  SumFunctionOnSet(f, S) = f[y] + SumFunctionOnSet(f, S \ {y})
<1>. DEFINE P(s, z) == SumFunctionOnSet(f, s) = f[z] + SumFunctionOnSet(f, s \ {z})
            B == {s \in SUBSET S : \E z \in s : ~P(s, z)}
<1>1. SUFFICES ASSUME B # {} PROVE FALSE
  OBVIOUS
<1>2. PICK s \in B : IsFiniteSet(s) /\ \A x \in s : s \ {x} \notin B
  <2>. HIDE DEF P
  <2>. QED
    BY <1>1, MinimalSubset
<1>3. PICK z \in s : ~P(s, z)
  BY <1>2
<1>. DEFINE i == First(s)
<1>4. i \in s /\ P(s, i)
  BY <1>2, <1>3, TakeFirst, SumFirst
<1>5. z # i
  BY <1>3, <1>4
<1>6. P(s \ {i}, z) /\ P(s \ {z}, i)
  <2>1. s \ {i} \in SUBSET S /\ s \ {i} \notin B /\ s \ {z} \in SUBSET S /\ s \ {z} \notin B
    BY <1>2, <1>3, <1>4
  <2>2. z \in s \ {i} /\ i \in s \ {z}
    BY <1>3, <1>4, <1>5
  <2>. HIDE DEF P, i
  <2>. QED
    BY <2>1, <2>2
<1>7. (s \ {i}) \ {z} = (s \ {z}) \ {i}
  OBVIOUS
<1>. DEFINE r == SumFunctionOnSet(f, (s \ {z}) \ {i})
<1>8. f[i] \in Int /\ f[z] \in Int
  BY <1>3, <1>4
<1>9. r \in Int
  <2>1. IsFiniteSet((s \ {z}) \ {i})
    BY <1>2, FS_Subset
  <2>. QED
    BY <2>1, SumType
<1>10. SumFunctionOnSet(f, s) = f[i] + (f[z] + r) /\ SumFunctionOnSet(f, s \ {z}) = f[i] + r
  BY <1>4, <1>6, <1>7
<1>. QED
  BY <1>3, <1>8, <1>9, <1>10

\* A new index adds its value.
LEMMA SumAdd ==
    ASSUME NEW f, NEW S, IsFiniteSet(S), NEW y, y \notin S, \A x \in S \cup {y} : f[x] \in Int
    PROVE  SumFunctionOnSet(f, S \cup {y}) = SumFunctionOnSet(f, S) + f[y]
<1>1. IsFiniteSet(S \cup {y}) /\ (S \cup {y}) \ {y} = S
  BY FS_AddElement
<1>2. SumFunctionOnSet(f, S \cup {y}) = f[y] + SumFunctionOnSet(f, S)
  BY <1>1, SumRemove
<1>3. SumFunctionOnSet(f, S) \in Int
  BY SumType
<1>. QED
  BY <1>2, <1>3

\* Two functions that differ at one index.
LEMMA SumChange ==
    ASSUME NEW f, NEW g, NEW S, IsFiniteSet(S), NEW y \in S,
           \A x \in S : f[x] \in Int /\ g[x] \in Int,
           \A x \in S \ {y} : g[x] = f[x]
    PROVE  SumFunctionOnSet(g, S) = SumFunctionOnSet(f, S) + (g[y] - f[y])
<1>1. IsFiniteSet(S \ {y})
  BY FS_Subset
<1>2. SumFunctionOnSet(f, S \ {y}) \in Int
  BY <1>1, SumType
<1>3. SumFunctionOnSet(g, S \ {y}) = SumFunctionOnSet(f, S \ {y})
  BY <1>1, SumAgrees
<1>4. /\ SumFunctionOnSet(f, S) = f[y] + SumFunctionOnSet(f, S \ {y})
      /\ SumFunctionOnSet(g, S) = g[y] + SumFunctionOnSet(g, S \ {y})
  BY SumRemove
<1>. QED
  BY <1>2, <1>3, <1>4

\* Larger values have the larger sum.
LEMMA SumMonotone ==
    ASSUME NEW f, NEW g, NEW S, IsFiniteSet(S),
           \A x \in S : f[x] \in Int /\ g[x] \in Int /\ f[x] <= g[x]
    PROVE  SumFunctionOnSet(f, S) <= SumFunctionOnSet(g, S)
<1>. DEFINE B == {s \in SUBSET S : ~(SumFunctionOnSet(f, s) <= SumFunctionOnSet(g, s))}
<1>1. SUFFICES ASSUME B # {} PROVE FALSE
  OBVIOUS
<1>2. PICK s \in B : IsFiniteSet(s) /\ \A x \in s : s \ {x} \notin B
  BY <1>1, MinimalSubset
<1>3. CASE s = {}
  BY <1>3, SumEmpty
<1>4. CASE s # {}
  <2>. DEFINE i == First(s)
  <2>1. i \in s /\ IsFiniteSet(s \ {i})
    BY <1>2, <1>4, TakeFirst
  <2>2. SumFunctionOnSet(f, s \ {i}) <= SumFunctionOnSet(g, s \ {i})
    BY <1>2, <2>1
  <2>3. SumFunctionOnSet(f, s \ {i}) \in Int /\ SumFunctionOnSet(g, s \ {i}) \in Int
    BY <2>1, SumType
  <2>4. /\ SumFunctionOnSet(f, s) = f[i] + SumFunctionOnSet(f, s \ {i})
        /\ SumFunctionOnSet(g, s) = g[i] + SumFunctionOnSet(g, s \ {i})
    BY <1>2, <1>4, SumFirst
  <2>5. f[i] \in Int /\ g[i] \in Int /\ f[i] <= g[i]
    BY <2>1
  <2>. HIDE DEF i
  <2>. QED
    BY <2>2, <2>3, <2>4, <2>5
<1>. QED
  BY <1>3, <1>4

\* Sums over disjoint sets add up.
LEMMA SumUnion ==
    ASSUME NEW f, NEW S, NEW T, IsFiniteSet(S), IsFiniteSet(T), S \cap T = {},
           \A x \in S \cup T : f[x] \in Int
    PROVE  SumFunctionOnSet(f, S \cup T) = SumFunctionOnSet(f, S) + SumFunctionOnSet(f, T)
<1>. DEFINE P(t) == SumFunctionOnSet(f, S \cup t) = SumFunctionOnSet(f, S) + SumFunctionOnSet(f, t)
            B == {t \in SUBSET T : ~P(t)}
<1>1. SUFFICES ASSUME B # {} PROVE FALSE
  OBVIOUS
<1>2. PICK t \in B : IsFiniteSet(t) /\ \A x \in t : t \ {x} \notin B
  <2>. HIDE DEF P
  <2>. QED
    BY <1>1, MinimalSubset
<1>3. SumFunctionOnSet(f, S) \in Int
  BY SumType
<1>4. CASE t = {}
  <2>1. S \cup t = S
    BY <1>4
  <2>. QED
    BY <1>2, <1>3, <1>4, <2>1, SumEmpty
<1>5. CASE t # {}
  <2>1. PICK y \in t : TRUE
    BY <1>5
  <2>. DEFINE r == t \ {y}
  <2>2. P(r)
    BY <1>2, <2>1
  <2>3. IsFiniteSet(r) /\ IsFiniteSet(S \cup r) /\ y \notin S \cup r
    BY <1>2, <2>1, FS_Subset, FS_Union
  <2>4. (S \cup r) \cup {y} = S \cup t /\ r \cup {y} = t
    BY <2>1
  <2>5. SumFunctionOnSet(f, S \cup t) = SumFunctionOnSet(f, S \cup r) + f[y]
    BY <2>3, <2>4, SumAdd
  <2>6. SumFunctionOnSet(f, t) = SumFunctionOnSet(f, r) + f[y]
    BY <2>3, <2>4, SumAdd
  <2>7. SumFunctionOnSet(f, r) \in Int /\ f[y] \in Int
    BY <2>1, <2>3, SumType
  <2>. QED
    BY <1>2, <1>3, <2>2, <2>5, <2>6, <2>7
<1>. QED
  BY <1>4, <1>5

\* A sum may be taken over other names h of its indices.
LEMMA SumReindex ==
    ASSUME NEW f, NEW g, NEW h, NEW S, IsFiniteSet(S), IsFiniteSet({h[x] : x \in S}),
           \A x \in S : f[x] \in Int /\ g[h[x]] = f[x],
           \A x, y \in S : h[x] = h[y] => x = y
    PROVE  SumFunctionOnSet(g, {h[x] : x \in S}) = SumFunctionOnSet(f, S)
<1>. DEFINE P(t) == SumFunctionOnSet(g, {h[x] : x \in t}) = SumFunctionOnSet(f, t)
            B == {t \in SUBSET S : ~P(t)}
<1>1. SUFFICES ASSUME B # {} PROVE FALSE
  OBVIOUS
<1>2. PICK t \in B : IsFiniteSet(t) /\ \A x \in t : t \ {x} \notin B
  <2>. HIDE DEF P
  <2>. QED
    BY <1>1, MinimalSubset
<1>3. CASE t = {}
  <2>1. {h[x] : x \in t} = {}
    BY <1>3
  <2>. QED
    BY <1>2, <1>3, <2>1, SumEmpty
<1>4. CASE t # {}
  <2>1. PICK y \in t : TRUE
    BY <1>4
  <2>. DEFINE r == t \ {y}
              H == {h[x] : x \in r}
  <2>2. P(r)
    BY <1>2, <2>1
  <2>3. IsFiniteSet(r) /\ y \notin r /\ r \cup {y} = t
    BY <1>2, <2>1, FS_Subset
  <2>4. IsFiniteSet(H)
    <3>1. H \subseteq {h[x] : x \in S}
      OBVIOUS
    <3>. QED
      BY <3>1, FS_Subset
  <2>5. h[y] \notin H /\ H \cup {h[y]} = {h[x] : x \in t}
    BY <2>1
  <2>6. \A x \in H \cup {h[y]} : g[x] \in Int
    BY <2>1
  <2>. HIDE DEF H
  <2>7. SumFunctionOnSet(g, H \cup {h[y]}) = SumFunctionOnSet(g, H) + g[h[y]]
    BY <2>4, <2>5, <2>6, SumAdd
  <2>8. SumFunctionOnSet(f, t) = SumFunctionOnSet(f, r) + f[y]
    <3>1. \A x \in r \cup {y} : f[x] \in Int
      BY <2>1
    <3>2. SumFunctionOnSet(f, r \cup {y}) = SumFunctionOnSet(f, r) + f[y]
      BY <2>3, <3>1, SumAdd
    <3>. QED
      BY <2>3, <3>2
  <2>. QED
    BY <1>2, <2>1, <2>2, <2>5, <2>7, <2>8 DEF H
<1>. QED
  BY <1>3, <1>4

\* A sum of zeros, and a bound on one of several naturals.
LEMMA SumZero ==
    ASSUME NEW f, NEW S, IsFiniteSet(S), \A x \in S : f[x] = 0
    PROVE  SumFunctionOnSet(f, S) = 0
<1>. DEFINE B == {s \in SUBSET S : SumFunctionOnSet(f, s) # 0}
<1>1. SUFFICES ASSUME B # {} PROVE FALSE
  OBVIOUS
<1>2. PICK s \in B : IsFiniteSet(s) /\ \A x \in s : s \ {x} \notin B
  BY <1>1, MinimalSubset
<1>3. CASE s = {}
  BY <1>2, <1>3, SumEmpty
<1>4. CASE s # {}
  <2>1. First(s) \in s
    BY <1>2, <1>4, TakeFirst
  <2>2. f[First(s)] = 0 /\ SumFunctionOnSet(f, s \ {First(s)}) = 0
    BY <1>2, <2>1
  <2>. QED
    BY <1>2, <1>4, <2>2, SumFirst
<1>. QED
  BY <1>3, <1>4

\* A sum of naturals is at least each of its values.
LEMMA SumAtLeast ==
    ASSUME NEW f, NEW S, IsFiniteSet(S), \A x \in S : f[x] \in Nat, NEW y \in S
    PROVE  f[y] <= SumFunctionOnSet(f, S)
<1>1. IsFiniteSet(S \ {y})
  BY FS_Subset
<1>2. SumFunctionOnSet(f, S \ {y}) \in Nat
  BY <1>1, SumType
<1>3. SumFunctionOnSet(f, S) = f[y] + SumFunctionOnSet(f, S \ {y})
  BY SumRemove
<1>. QED
  BY <1>2, <1>3
===========================================================================
