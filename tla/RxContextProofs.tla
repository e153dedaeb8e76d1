-------------------------- MODULE RxContextProofs --------------------------
(***************************************************************************)
(* Theorems about RxContext, for any keys, times, sizes, limits, hash and   *)
(* number of slots.                                                         *)
(*                                                                          *)
(* IInv is the inductive invariant.  ListOK says of a context that its list *)
(* is sorted, without repetition, within both limits and counted exactly,   *)
(* that the tail names the last entry, and that every entry is identified,  *)
(* not younger than the watermark and without evidence in the table;        *)
(* InWindow adds that no entry is stale.  There is one lemma for each of    *)
(* Expire, the release by evidence, the eviction, and the insertion, which  *)
(* says that it keeps ListOK and what it moves; the steps of the callers    *)
(* follow from them.                                                        *)
(***************************************************************************)
EXTENDS RxContext, Sums, SequenceTheorems, FunctionTheorems

-----------------------------------------------------------------------------
(* Lists.  h places the entries of a in s, in order; a and b split s if each *)
(* entry of s has its place in one of them.                                  *)

Embeds(h, a, s) ==
    /\ h \in [DOMAIN a -> DOMAIN s]
    /\ \A i, j \in DOMAIN a : i < j => h[i] < h[j]
    /\ \A i \in DOMAIN a : a[i] = s[h[i]]

Splits(g, h, s, a, b) ==
    /\ Embeds(g, a, s) /\ Embeds(h, b, s)
    /\ \A i \in DOMAIN a, j \in DOMAIN b : g[i] # h[j]
    /\ \A n \in DOMAIN s : (\E i \in DOMAIN a : g[i] = n) \/ (\E j \in DOMAIN b : h[j] = n)

Places(h, a) == {h[i] : i \in DOMAIN a}

Split(s, a, b) == \E g, h : Splits(g, h, s, a, b)

Sorted(s) == \A i, j \in DOMAIN s : i < j => s[i].ts <= s[j].ts
Distinct(s) == \A i, j \in DOMAIN s : s[i].id = s[j].id => i = j

\* The fields of an event are numbers.
LEMMA EventTypes ==
    ASSUME NEW e \in Events
    PROVE  /\ e.id \in 1..MaxFeeds /\ e.id \in Nat /\ e.id # NoEntry /\ e.ts \in Times /\ e.ts \in Nat
           /\ e.key \in Keys /\ e.key \in Nat /\ e.gen \in Generations /\ e.gen \in Nat
           /\ e.size \in Nat /\ e.size > 0 /\ e.size \in Int
<1>1. e.id \in 1..MaxFeeds /\ e.ts \in Times /\ e.key \in Keys /\ e.gen \in Generations /\ e.size \in Sizes
  BY DEF Events
<1>2. e.id \in Nat /\ e.id # NoEntry
  BY <1>1, CapAssumption DEF NoEntry
<1>3. e.size \in Nat /\ e.size # 0
  BY <1>1, SizeAssumption, Zenon
<1>4. e.ts \in Nat /\ e.key \in Nat /\ e.gen \in Nat
  BY <1>1, TimeAssumption, KeyAssumption
<1>. QED
  BY <1>1, <1>2, <1>3, <1>4

\* A list's positions are a finite set of as many members as it is long.
LEMMA Positions ==
    ASSUME NEW T, NEW s \in Seq(T)
    PROVE  /\ DOMAIN s = 1..Len(s) /\ Len(s) \in Nat
           /\ IsFiniteSet(DOMAIN s) /\ Cardinality(DOMAIN s) = Len(s)
<1>1. DOMAIN s = 1..Len(s) /\ Len(s) \in Nat
  OBVIOUS
<1>2. IsFiniteSet(1..Len(s)) /\ Cardinality(1..Len(s)) = Len(s)
  BY <1>1, FS_Interval, SMTT(40)
<1>. QED
  BY <1>1, <1>2

\* A place is taken by one entry.
LEMMA EmbedsInjective ==
    ASSUME NEW T, NEW a \in Seq(T), NEW s \in Seq(T), NEW h, Embeds(h, a, s)
    PROVE  \A i, j \in DOMAIN a : h[i] = h[j] => i = j
<1>1. DOMAIN a \subseteq Int /\ DOMAIN s \subseteq Int
  BY Positions
<1>2. \A i \in DOMAIN a : h[i] \in DOMAIN s
  BY DEF Embeds
<1>3. \A i, j \in DOMAIN a : i < j => h[i] < h[j]
  BY DEF Embeds
<1>. HIDE DEF Embeds
<1>4. ASSUME NEW i \in DOMAIN a, NEW j \in DOMAIN a, h[i] = h[j] PROVE i = j
  <2>1. i \in Int /\ j \in Int /\ h[i] \in Int
    BY <1>1, <1>2
  <2>2. ~(i < j) /\ ~(j < i)
    BY <2>1, <1>3, <1>4
  <2>. QED
    BY <2>1, <2>2
<1>. QED
  BY <1>4

\* The places are as many as the entries.
LEMMA PlacesCardinality ==
    ASSUME NEW s \in Seq(Events), NEW a \in Seq(Events), NEW h, Embeds(h, a, s)
    PROVE  Places(h, a) \subseteq DOMAIN s /\ Cardinality(Places(h, a)) = Len(a)
<1>. DEFINE A == {h[i] : i \in DOMAIN a}
<1>0. A = Places(h, a)
  BY DEF Places
<1>1. \A i, j \in DOMAIN a : h[i] = h[j] => i = j
  BY EmbedsInjective
<1>2. h \in [DOMAIN a -> A] /\ A \subseteq DOMAIN s
  BY DEF Embeds
<1>3. h \in Bijection(DOMAIN a, A)
  BY <1>1, <1>2, Fun_IsBij
<1>4. Cardinality(A) = Cardinality(DOMAIN a)
  BY <1>3, Positions, FS_Bijection DEF ExistsBijection
<1>5. Cardinality(DOMAIN a) = Len(a)
  BY Positions
<1>. QED
  BY <1>0, <1>2, <1>4, <1>5

\* The places of a and b in s.
LEMMA SplitPlaces ==
    ASSUME NEW s \in Seq(Events), NEW a \in Seq(Events), NEW b \in Seq(Events), NEW g, NEW h,
           Splits(g, h, s, a, b)
    PROVE  /\ Places(g, a) \cup Places(h, b) = DOMAIN s
           /\ Places(g, a) \cap Places(h, b) = {}
           /\ IsFiniteSet(Places(g, a)) /\ IsFiniteSet(Places(h, b))
<1>1. Places(g, a) \subseteq DOMAIN s /\ Places(h, b) \subseteq DOMAIN s
  BY PlacesCardinality DEF Splits
<1>2. Places(g, a) \cap Places(h, b) = {}
  BY ZenonT(40) DEF Splits, Places
<1>3. DOMAIN s \subseteq Places(g, a) \cup Places(h, b)
  BY Zenon DEF Splits, Places
<1>4. IsFiniteSet(Places(g, a)) /\ IsFiniteSet(Places(h, b))
  BY <1>1, Positions, FS_Subset
<1>. QED
  BY <1>1, <1>2, <1>3, <1>4

\* The cardinality of a disjoint union.
LEMMA DisjointCardinality ==
    ASSUME NEW A, NEW B, IsFiniteSet(A), IsFiniteSet(B), A \cap B = {}
    PROVE  Cardinality(A \cup B) = Cardinality(A) + Cardinality(B)
<1>1. Cardinality(A) \in Nat /\ Cardinality(B) \in Nat
  BY FS_CardinalityType
<1>2. Cardinality(A \cup B) = Cardinality(A) + Cardinality(B) - 0
  BY FS_Union, FS_EmptySet
<1>. QED
  BY <1>1, <1>2

\* The parts of a list are as long as the list.
LEMMA SplitLen ==
    ASSUME NEW s \in Seq(Events), NEW a \in Seq(Events), NEW b \in Seq(Events), Split(s, a, b)
    PROVE  Len(s) = Len(a) + Len(b)
<1>1. PICK g, h : Splits(g, h, s, a, b)
  BY DEF Split
<1>. DEFINE A == Places(g, a)
            B == Places(h, b)
<1>2. A \cup B = DOMAIN s /\ A \cap B = {} /\ IsFiniteSet(A) /\ IsFiniteSet(B)
  BY <1>1, SplitPlaces, ZenonT(40)
<1>4. Cardinality(A) = Len(a)
  BY <1>1, PlacesCardinality DEF Splits
<1>5. Cardinality(B) = Len(b)
  BY <1>1, PlacesCardinality DEF Splits
<1>. HIDE DEF A, B
<1>3. Cardinality(DOMAIN s) = Len(a) + Len(b)
  <2>1. Cardinality(A \cup B) = Cardinality(A) + Cardinality(B)
    BY <1>2, DisjointCardinality
  <2>. QED
    BY <1>2, <1>4, <1>5, <2>1
<1>. QED
  BY <1>3, Positions

\* The bytes of a part, summed over its places in the list.
LEMMA PartBytes ==
    ASSUME NEW s \in Seq(Events), NEW a \in Seq(Events), NEW h, Embeds(h, a, s)
    PROVE  SumFunctionOnSet([i \in DOMAIN s |-> s[i].size], Places(h, a)) = BytesOf(a)
<1>. DEFINE f == [i \in DOMAIN a |-> a[i].size]
            k == [i \in DOMAIN s |-> s[i].size]
            A == {h[i] : i \in DOMAIN a}
<1>1. \A i \in DOMAIN a : h[i] \in DOMAIN s /\ a[i] = s[h[i]]
  BY DEF Embeds
<1>2. \A i, j \in DOMAIN a : h[i] = h[j] => i = j
  BY EmbedsInjective
<1>3. IsFiniteSet(DOMAIN a) /\ IsFiniteSet(A)
  BY <1>1, Positions, FS_Subset
<1>4. \A i \in DOMAIN a : f[i] \in Int /\ k[h[i]] = f[i]
  <2>1. \A i \in DOMAIN a : a[i] \in Events
    OBVIOUS
  <2>2. \A e \in Events : e.size \in Int
    BY EventTypes
  <2>. QED
    BY <1>1, <2>1, <2>2
<1>5. DOMAIN f = DOMAIN a
  OBVIOUS
<1>. HIDE DEF f, k
<1>6. SumFunctionOnSet(k, A) = SumFunctionOnSet(f, DOMAIN a)
  BY <1>2, <1>3, <1>4, SumReindex
<1>7. BytesOf(a) = SumFunctionOnSet(f, DOMAIN a)
  BY <1>5 DEF BytesOf, SumFunction, f
<1>. QED
  BY <1>6, <1>7 DEF k, Places

\* The parts of a list take the bytes of the list.
LEMMA SplitBytes ==
    ASSUME NEW s \in Seq(Events), NEW a \in Seq(Events), NEW b \in Seq(Events), Split(s, a, b)
    PROVE  BytesOf(s) = BytesOf(a) + BytesOf(b)
<1>1. PICK g, h : Splits(g, h, s, a, b)
  BY DEF Split
<1>. DEFINE A == Places(g, a)
            B == Places(h, b)
            k == [i \in DOMAIN s |-> s[i].size]
<1>2. A \cup B = DOMAIN s /\ A \cap B = {} /\ IsFiniteSet(A) /\ IsFiniteSet(B)
  BY <1>1, SplitPlaces
<1>3. \A i \in DOMAIN s : k[i] \in Int
  <2>1. \A i \in DOMAIN s : s[i] \in Events
    OBVIOUS
  <2>. QED
    BY <2>1, EventTypes
<1>4. SumFunctionOnSet(k, A) = BytesOf(a) /\ SumFunctionOnSet(k, B) = BytesOf(b)
  BY <1>1, PartBytes DEF Splits
<1>5. BytesOf(s) = SumFunctionOnSet(k, DOMAIN s)
  BY DEF BytesOf, SumFunction
<1>. HIDE DEF A, B, k
<1>6. SumFunctionOnSet(k, DOMAIN s) = SumFunctionOnSet(k, A) + SumFunctionOnSet(k, B)
  BY <1>2, <1>3, SumUnion
<1>. QED
  BY <1>4, <1>5, <1>6

\* The bytes of a list are a natural number; of the empty list, zero.
LEMMA BytesType ==
    ASSUME NEW s \in Seq(Events)
    PROVE  BytesOf(s) \in Nat
<1>. DEFINE k == [i \in DOMAIN s |-> s[i].size]
<1>1. \A i \in DOMAIN s : k[i] \in Nat
  <2>1. \A i \in DOMAIN s : s[i] \in Events
    OBVIOUS
  <2>. QED
    BY <2>1, EventTypes
<1>2. BytesOf(s) = SumFunctionOnSet(k, DOMAIN s) /\ IsFiniteSet(DOMAIN s)
  BY Positions DEF BytesOf, SumFunction
<1>. HIDE DEF k
<1>. QED
  BY <1>1, <1>2, SumType

\* An empty list takes no bytes.
LEMMA BytesEmpty == BytesOf(<<>>) = 0
<1>1. DOMAIN [i \in DOMAIN <<>> |-> <<>>[i].size] = {}
  OBVIOUS
<1>. QED
  BY <1>1, SumEmpty DEF BytesOf, SumFunction

\* Within a set of positions, the rank of a position is the number of those up
\* to it.
Rank(at, i) == Cardinality({j \in at : j <= i})

\* Ranks grow with the positions, from 1 to their number.
LEMMA RankGrows ==
    ASSUME NEW at, at \subseteq Int, IsFiniteSet(at)
    PROVE  /\ \A i \in at : Rank(at, i) \in 1..Cardinality(at)
           /\ \A i, j \in at : i < j => Rank(at, i) < Rank(at, j)
<1>. DEFINE Up(i) == {j \in at : j <= i}
<1>1. ASSUME NEW i \in at
      PROVE  /\ IsFiniteSet(Up(i)) /\ i \in Up(i) /\ Cardinality(Up(i)) \in Nat
             /\ Cardinality(Up(i)) <= Cardinality(at) /\ Cardinality(Up(i)) # 0
  <2>1. Up(i) \in SUBSET at /\ i \in Up(i)
    BY <1>1
  <2>2. IsFiniteSet(Up(i)) /\ Cardinality(Up(i)) <= Cardinality(at)
    BY <2>1, FS_Subset
  <2>. QED
    BY <2>1, <2>2, FS_CardinalityType, FS_EmptySet
<1>2. ASSUME NEW i \in at, NEW j \in at, i < j
      PROVE  Cardinality(Up(i)) < Cardinality(Up(j))
  <2>1. Up(i) \in SUBSET Up(j)
    <3>1. ASSUME NEW x \in at, x <= i PROVE x <= j
      <4>1. x \in Int /\ i \in Int /\ j \in Int
        OBVIOUS
      <4>. QED
        BY <1>2, <3>1, <4>1
    <3>. QED
      BY <3>1
  <2>2. Up(i) # Up(j)
    BY <1>2
  <2>3. /\ Cardinality(Up(i)) <= Cardinality(Up(j))
        /\ Cardinality(Up(j)) = Cardinality(Up(i)) => Up(j) = Up(i)
    BY <1>1, <2>1, FS_Subset
  <2>4. Cardinality(Up(i)) \in Nat /\ Cardinality(Up(j)) \in Nat
    BY <1>1
  <2>. QED
    BY <2>2, <2>3, <2>4
<1>3. Cardinality(at) \in Nat
  BY FS_CardinalityType
<1>. QED
  BY <1>1, <1>2, <1>3 DEF Rank

\* The positions of a set in their order: place n has rank n.
Nth(at) == [n \in 1..Cardinality(at) |-> CHOOSE i \in at : Rank(at, i) = n]

\* Nth counts the members of a set of positions in order.
LEMMA NthOrders ==
    ASSUME NEW at, at \subseteq Int, IsFiniteSet(at)
    PROVE  /\ Nth(at) \in [1..Cardinality(at) -> at]
           /\ \A m, n \in 1..Cardinality(at) : m < n => Nth(at)[m] < Nth(at)[n]
           /\ \A i \in at : Rank(at, i) \in 1..Cardinality(at) /\ Nth(at)[Rank(at, i)] = i
<1>. DEFINE f == [i \in at |-> Rank(at, i)]
            N == 1..Cardinality(at)
<1>1. /\ \A i \in at : Rank(at, i) \in N
      /\ \A i, j \in at : i < j => Rank(at, i) < Rank(at, j)
  BY RankGrows
<1>2. Cardinality(at) \in Nat
  BY FS_CardinalityType
<1>3. IsFiniteSet(N) /\ Cardinality(N) = Cardinality(at)
  <2>1. ASSUME NEW c \in Nat PROVE IsFiniteSet(1..c) /\ Cardinality(1..c) = c
    BY FS_Interval, SMT
  <2>. QED
    BY <1>2, <2>1
<1>4. \A i, j \in at : Rank(at, i) = Rank(at, j) => i = j
  <2>1. ASSUME NEW i \in at, NEW j \in at, Rank(at, i) = Rank(at, j) PROVE i = j
    <3>1. i \in Int /\ j \in Int /\ Rank(at, i) \in Int
      BY <1>1, <1>2
    <3>2. ~(i < j) /\ ~(j < i)
      BY <1>1, <2>1, <3>1
    <3>. QED
      BY <3>1, <3>2
  <2>. QED
    BY <2>1
<1>5. f \in [at -> N] /\ \A i, j \in at : f[i] = f[j] => i = j
  BY <1>1, <1>4
<1>6. f \in Injection(at, N)
  BY <1>5, Fun_IsInj
<1>7. f \in Surjection(at, N)
  BY <1>3, <1>6, FS_Injection
<1>8. \A n \in N : \E i \in at : Rank(at, i) = n
  <2>1. \A n \in N : \E i \in at : f[i] = n
    BY <1>7 DEF Surjection
  <2>. QED
    BY <2>1
<1>9. \A n \in N : Nth(at)[n] \in at /\ Rank(at, Nth(at)[n]) = n
  BY <1>8, Zenon DEF Nth
<1>10. Nth(at) \in [N -> at]
  BY <1>9 DEF Nth
<1>11. ASSUME NEW m \in N, NEW n \in N, m < n PROVE Nth(at)[m] < Nth(at)[n]
  <2>1. Nth(at)[m] \in at /\ Nth(at)[n] \in at
    BY <1>9
  <2>2. Rank(at, Nth(at)[m]) = m /\ Rank(at, Nth(at)[n]) = n
    BY <1>9
  <2>3. m \in Int /\ n \in Int /\ Nth(at)[m] \in Int /\ Nth(at)[n] \in Int
    <3>1. m \in Int /\ n \in Int
      BY <1>2
    <3>2. Nth(at)[m] \in Int /\ Nth(at)[n] \in Int
      BY <2>1, Zenon
    <3>. QED
      BY <3>1, <3>2
  <2>5. Nth(at)[n] < Nth(at)[m] => n < m
    BY <1>1, <2>1, <2>2
  <2>4. Nth(at)[m] # Nth(at)[n] /\ ~(Nth(at)[n] < Nth(at)[m])
    BY <1>11, <2>2, <2>3, <2>5
  <2>. QED
    BY <2>3, <2>4
<1>12. \A i \in at : Nth(at)[Rank(at, i)] = i
  BY <1>1, <1>4, <1>9
<1>. QED
  BY <1>1, <1>10, <1>11, <1>12

\* Entries keeps the order of the list.
LEMMA EntriesEmbed ==
    ASSUME NEW s \in Seq(Events), NEW at, at \subseteq DOMAIN s
    PROVE  /\ Entries(s, at) \in Seq(Events)
           /\ Embeds(Nth(at), Entries(s, at), s)
           /\ \A i \in DOMAIN Entries(s, at) : Nth(at)[i] \in at
           /\ \A i \in at : \E n \in DOMAIN Entries(s, at) : Nth(at)[n] = i
<1>1. at \subseteq Int /\ IsFiniteSet(at) /\ Cardinality(at) \in Nat
  BY Positions, FS_Subset, FS_CardinalityType
<1>2. Entries(s, at) = [n \in 1..Cardinality(at) |-> s[Nth(at)[n]]]
  BY DEF Entries, Nth, Rank
<1>3. DOMAIN Entries(s, at) = 1..Cardinality(at)
  BY <1>2
<1>4. \A n \in 1..Cardinality(at) : Nth(at)[n] \in at
  BY <1>1, NthOrders
<1>5. \A n \in 1..Cardinality(at) : s[Nth(at)[n]] \in Events
  BY <1>4
<1>6. Entries(s, at) \in [1..Cardinality(at) -> Events]
  BY <1>2, <1>5
<1>7. Entries(s, at) \in Seq(Events)
  BY <1>1, <1>6
<1>8. Embeds(Nth(at), Entries(s, at), s)
  BY <1>1, <1>2, <1>3, NthOrders DEF Embeds
<1>9. \A i \in at : \E n \in DOMAIN Entries(s, at) : Nth(at)[n] = i
  BY <1>1, <1>3, NthOrders
<1>. QED
  BY <1>3, <1>4, <1>7, <1>8, <1>9

\* The entries at some positions and those at the others split a list.
LEMMA EntriesSplit ==
    ASSUME NEW s \in Seq(Events), NEW at, at \subseteq DOMAIN s
    PROVE  Split(s, Entries(s, at), Entries(s, DOMAIN s \ at))
<1>. DEFINE bt == DOMAIN s \ at
            a == Entries(s, at)
            b == Entries(s, bt)
<1>1. /\ Embeds(Nth(at), a, s) /\ \A i \in DOMAIN a : Nth(at)[i] \in at
      /\ \A i \in at : \E n \in DOMAIN a : Nth(at)[n] = i
  BY EntriesEmbed
<1>2. /\ Embeds(Nth(bt), b, s) /\ \A i \in DOMAIN b : Nth(bt)[i] \in bt
      /\ \A i \in bt : \E n \in DOMAIN b : Nth(bt)[n] = i
  BY EntriesEmbed
<1>. HIDE DEF a, b
<1>3. Splits(Nth(at), Nth(bt), s, a, b)
  BY <1>1, <1>2 DEF Splits
<1>. QED
  BY <1>3 DEF Split, a, b

\* A list is split by cutting it in two.
LEMMA HeadsSplit ==
    ASSUME NEW s \in Seq(Events), NEW k \in 0..Len(s)
    PROVE  LET a == SubSeq(s, 1, k)
               b == SubSeq(s, k + 1, Len(s))
           IN  /\ a \in Seq(Events) /\ Len(a) = k /\ \A i \in 1..k : a[i] = s[i]
               /\ b \in Seq(Events) /\ Len(b) = Len(s) - k
               /\ \A i \in 1..Len(s) - k : b[i] = s[k + i]
               /\ Split(s, a, b)
<1>. DEFINE a == SubSeq(s, 1, k)
            b == SubSeq(s, k + 1, Len(s))
            g == [i \in 1..k |-> i]
            h == [i \in 1..Len(s) - k |-> k + i]
<1>1. a \in Seq(Events) /\ Len(a) = k /\ \A i \in 1..k : a[i] = s[i]
  OBVIOUS
<1>2. b \in Seq(Events) /\ Len(b) = Len(s) - k /\ \A i \in 1..Len(s) - k : b[i] = s[k + i]
  <2>1. b \in Seq(Events) /\ Len(b) = Len(s) - k
    OBVIOUS
  <2>2. ASSUME NEW i \in 1..Len(s) - k PROVE b[i] = s[k + i]
    <3>1. b[i] = s[k + 1 + i - 1]
      BY SubSeqProperties
    <3>. QED
      BY <3>1
  <2>. QED
    BY <2>1, <2>2
<1>3. DOMAIN a = 1..k /\ DOMAIN b = 1..Len(s) - k /\ DOMAIN s = 1..Len(s) /\ Len(s) \in Nat
  BY <1>1, <1>2
<1>. HIDE DEF a, b
<1>4. Embeds(g, a, s)
  BY <1>1, <1>3 DEF Embeds
<1>5. Embeds(h, b, s)
  BY <1>2, <1>3 DEF Embeds
<1>6. \A i \in 1..k, j \in 1..Len(s) - k : g[i] # h[j]
  OBVIOUS
<1>7. \A n \in DOMAIN s : (\E i \in 1..k : g[i] = n) \/ (\E j \in 1..Len(s) - k : h[j] = n)
  <2>1. ASSUME NEW n \in 1..Len(s), n <= k PROVE n \in 1..k /\ g[n] = n
    BY <2>1
  <2>2. ASSUME NEW n \in 1..Len(s), ~(n <= k) PROVE n - k \in 1..Len(s) - k /\ h[n - k] = n
    BY <2>2, <1>3
  <2>. QED
    BY <1>3, <2>1, <2>2
<1>8. Splits(g, h, s, a, b)
  BY <1>3, <1>4, <1>5, <1>6, <1>7 DEF Splits
<1>9. Split(s, a, b)
  BY <1>8 DEF Split
<1>. QED
  BY <1>1, <1>2, <1>9 DEF a, b

\* t is s with e put in after the first k entries.
PutAfter(t, s, k, e) ==
    /\ Len(t) = Len(s) + 1
    /\ \A i \in DOMAIN t :
          \/ i = k + 1 /\ t[i] = e
          \/ i < k + 1 /\ i \in DOMAIN s /\ t[i] = s[i]
          \/ i > k + 1 /\ i - 1 \in DOMAIN s /\ t[i] = s[i - 1]

\* InsertAt puts e after the first k entries, and the list with it is split into
\* e and the list without.
LEMMA InsertSplit ==
    ASSUME NEW s \in Seq(Events), NEW k \in 0..Len(s), NEW e \in Events
    PROVE  /\ InsertAt(s, k + 1, e) \in Seq(Events)
           /\ PutAfter(InsertAt(s, k + 1, e), s, k, e)
           /\ Split(InsertAt(s, k + 1, e), <<e>>, s)
<1>. DEFINE t == InsertAt(s, k + 1, e)
            a == SubSeq(s, 1, k)
            b == SubSeq(s, k + 1, Len(s))
            g == [i \in 1..1 |-> k + 1]
            h == [i \in 1..Len(s) |-> IF i <= k THEN i ELSE i + 1]
<1>1. a \in Seq(Events) /\ Len(a) = k /\ \A i \in 1..k : a[i] = s[i]
  BY HeadsSplit
<1>2. b \in Seq(Events) /\ Len(b) = Len(s) - k /\ \A i \in 1..Len(s) - k : b[i] = s[k + i]
  BY HeadsSplit
<1>3. t = a \o <<e>> \o b
  <2>1. ASSUME NEW i, NEW j, j = i - 1
        PROVE  InsertAt(s, i, e) = SubSeq(s, 1, j) \o <<e>> \o SubSeq(s, i, Len(s))
    BY <2>1 DEF InsertAt
  <2>2. k = (k + 1) - 1
    OBVIOUS
  <2>. QED
    BY <2>1, <2>2, Zenon
<1>. HIDE DEF t, a, b
<1>. DEFINE c == a \o <<e>>
<1>4. c \in Seq(Events) /\ Len(c) = k + 1 /\ (\A i \in 1..k : c[i] = s[i]) /\ c[k + 1] = e
  <2>1. c \in Seq(Events) /\ Len(c) = k + 1
    BY <1>1
  <2>2. \A i \in 1..k : c[i] = a[i]
    BY <1>1
  <2>3. c[k + 1] = e
    BY <1>1
  <2>. QED
    BY <1>1, <2>1, <2>2, <2>3
<1>5. t = c \o b
  BY <1>3
<1>. HIDE DEF c
<1>6. t \in Seq(Events) /\ Len(t) = Len(s) + 1
  BY <1>2, <1>4, <1>5
<1>7. \A i \in 1..k + 1 : t[i] = c[i]
  BY <1>2, <1>4, <1>5
<1>8. \A i \in k + 2..Len(t) : t[i] = s[i - 1]
  <2>1. ASSUME NEW i \in k + 2..Len(t) PROVE t[i] = s[i - 1]
    <3>1. t[i] = b[i - (k + 1)]
      BY <1>2, <1>4, <1>5, <1>6
    <3>2. i - (k + 1) \in 1..Len(s) - k /\ k + (i - (k + 1)) = i - 1
      BY <1>6
    <3>. QED
      BY <3>1, <3>2, <1>2
  <2>. QED
    BY <2>1
<1>9. \A i \in 1..Len(t) : t[i] = IF i <= k THEN s[i] ELSE IF i = k + 1 THEN e ELSE s[i - 1]
  BY <1>4, <1>6, <1>7, <1>8
<1>10. /\ DOMAIN t = 1..Len(s) + 1 /\ DOMAIN s = 1..Len(s) /\ Len(s) \in Nat
       /\ DOMAIN <<e>> = 1..1 /\ <<e>>[1] = e
  BY <1>6
<1>11. Embeds(g, <<e>>, t)
  <2>1. g \in [DOMAIN <<e>> -> DOMAIN t]
    BY <1>10
  <2>2. \A i \in DOMAIN <<e>> : i = 1
    BY <1>10
  <2>3. <<e>>[1] = t[g[1]]
    BY <1>4, <1>7, <1>10
  <2>. QED
    BY <2>1, <2>2, <2>3 DEF Embeds
<1>12. Embeds(h, s, t)
  <2>1. \A i \in 1..Len(s) : h[i] \in 1..Len(s) + 1 /\ t[h[i]] = s[i]
    BY <1>6, <1>9, <1>10
  <2>2. \A i, j \in 1..Len(s) : i < j => h[i] < h[j]
    BY <1>10
  <2>. QED
    BY <1>10, <2>1, <2>2 DEF Embeds
<1>13. \A i \in DOMAIN <<e>>, j \in DOMAIN s : g[i] # h[j]
  BY <1>10
<1>14. ASSUME NEW n \in DOMAIN t
       PROVE  (\E i \in DOMAIN <<e>> : g[i] = n) \/ (\E j \in DOMAIN s : h[j] = n)
  <2>1. CASE n = k + 1
    BY <2>1, <1>10
  <2>2. CASE n <= k
    <3>1. n \in DOMAIN s /\ h[n] = n
      BY <2>2, <1>10
    <3>. QED
      BY <3>1
  <2>3. CASE n > k + 1
    <3>1. n - 1 \in DOMAIN s /\ h[n - 1] = n
      BY <2>3, <1>10
    <3>. QED
      BY <3>1
  <2>. QED
    BY <2>1, <2>2, <2>3, <1>10
<1>15. Splits(g, h, t, <<e>>, s)
  BY <1>11, <1>12, <1>13, <1>14 DEF Splits
<1>16. Split(t, <<e>>, s)
  BY <1>15 DEF Split
<1>17. PutAfter(t, s, k, e)
  <2>1. ASSUME NEW i \in DOMAIN t
        PROVE  \/ i = k + 1 /\ t[i] = e
               \/ i < k + 1 /\ i \in DOMAIN s /\ t[i] = s[i]
               \/ i > k + 1 /\ i - 1 \in DOMAIN s /\ t[i] = s[i - 1]
    BY <1>6, <1>9, <1>10
  <2>. QED
    BY <1>6, <2>1 DEF PutAfter
<1>. QED
  BY <1>6, <1>16, <1>17 DEF t

-----------------------------------------------------------------------------
(* The context.                                                              *)

ContextType ==
    [list : Seq(Events), tail : 0..MaxFeeds, owners : [0..Slots - 1 -> Owners],
     count : Nat, bytes : Nat, watermark : Nat,
     replayed : Nat, expired : Nat, capacity_dropped : Nat, unresolved : Nat]

LastId(s) == IF s = <<>> THEN NoEntry ELSE s[Len(s)].id

\* A held entry: it may be expired later but never by a clock behind it, its skb
\* is identified, and the table has no evidence for it.
Held(c, p) ==
    /\ c.watermark >= p.ts /\ Identified(p)
    /\ ~Matches(p, c.owners[SlotOf(p)])

ListOK(c) ==
    /\ c \in ContextType
    /\ Sorted(c.list) /\ Distinct(c.list)
    /\ c.tail = LastId(c.list)
    /\ c.count = Len(c.list) /\ c.count <= MaxEvents
    /\ c.bytes = BytesOf(c.list) /\ c.bytes <= MaxBytes
    /\ \A i \in DOMAIN c.list : Held(c, c.list[i])

InWindow(c) == \A i \in DOMAIN c.list : c.watermark - c.list[i].ts <= Window

\* Where the events fed as pending are.
Accounted(c) == c.replayed + c.expired + c.capacity_dropped + c.unresolved + Len(c.list)

\* Each entry of t is an entry of s.
Within(t, s) == \A i \in DOMAIN t : \E j \in DOMAIN s : t[i] = s[j]

\* The greatest and the least member of a finite set of positions.
LEMMA MaxMember ==
    ASSUME NEW n \in Nat, NEW S, S \subseteq 0..n, S # {}
    PROVE  Max(S) \in S /\ \A x \in S : Max(S) >= x
<1>. DEFINE D == {n - x : x \in S}
<1>0. \A x \in S : x \in Nat /\ x <= n
  OBVIOUS
<1>1. D \subseteq Nat /\ D # {}
  <2>1. \A x \in S : n - x \in Nat
    BY <1>0
  <2>. QED
    BY <2>1, Zenon
<1>2. PICK d \in D : \A m \in D : d <= m
  <2>. HIDE DEF D
  <2>. QED
    BY <1>1, LeastNat
<1>3. PICK x \in S : d = n - x
  BY <1>2
<1>4. \A y \in S : x >= y
  <2>1. ASSUME NEW y \in S PROVE x >= y
    <3>1. n - y \in D
      OBVIOUS
    <3>2. n - x <= n - y
      BY <1>2, <1>3, <3>1, Zenon
    <3>3. x \in Int /\ y \in Int
      BY <1>0
    <3>. QED
      BY <3>2, <3>3
  <2>. QED
    BY <2>1
<1>. QED
  BY <1>4, Zenon DEF Max

\* The least member of a nonempty set of naturals.
LEMMA MinMember ==
    ASSUME NEW S, S \subseteq Nat, S # {}
    PROVE  Min(S) \in S /\ \A x \in S : Min(S) <= x
<1>1. PICK x \in S : \A y \in S : x <= y
  BY LeastNat
<1>2. \A y \in S : x =< y
  BY <1>1
<1>. QED
  BY <1>2, Zenon DEF Min

\* The longest prefix whose positions are all in G ends before one that is not.
LEMMA LongestPrefix ==
    ASSUME NEW n \in Nat, NEW G, NEW k, k = Max({j \in 0..n : \A i \in 1..j : i \in G})
    PROVE  k \in 0..n /\ (\A i \in 1..k : i \in G) /\ (k < n => k + 1 \notin G)
<1>. DEFINE S == {j \in 0..n : \A i \in 1..j : i \in G}
<1>1. 0 \in S /\ S \subseteq 0..n
  OBVIOUS
<1>2. k \in S /\ \A x \in S : k >= x
  BY <1>1, MaxMember
<1>3. k \in 0..n /\ \A i \in 1..k : i \in G
  BY <1>2
<1>4. ASSUME k < n, k + 1 \in G PROVE FALSE
  <2>1. k + 1 \in 0..n /\ \A i \in 1..k + 1 : i \in G
    BY <1>3, <1>4
  <2>2. k + 1 \in S
    BY <2>1
  <2>3. k >= k + 1
    BY <1>2, <2>2, Zenon
  <2>. QED
    BY <1>3, <2>3
<1>. QED
  BY <1>3, <1>4

\* A part of a list is as well ordered as the list.
LEMMA PartOrder ==
    ASSUME NEW s \in Seq(Events), NEW a \in Seq(Events), NEW h, Embeds(h, a, s),
           Sorted(s), Distinct(s)
    PROVE  Sorted(a) /\ Distinct(a) /\ Within(a, s)
<1>1. \A i \in DOMAIN a : h[i] \in DOMAIN s /\ a[i] = s[h[i]]
  BY DEF Embeds
<1>2. \A i, j \in DOMAIN a : i < j => h[i] < h[j]
  BY DEF Embeds
<1>3. \A i, j \in DOMAIN a : h[i] = h[j] => i = j
  BY EmbedsInjective
<1>4. Sorted(a)
  BY <1>1, <1>2 DEF Sorted
<1>5. Distinct(a)
  <2>1. ASSUME NEW i \in DOMAIN a, NEW j \in DOMAIN a, a[i].id = a[j].id PROVE i = j
    <3>1. h[i] \in DOMAIN s /\ h[j] \in DOMAIN s /\ s[h[i]].id = s[h[j]].id
      BY <1>1, <2>1
    <3>2. h[i] = h[j]
      BY <3>1 DEF Distinct
    <3>. QED
      BY <1>3, <3>2
  <2>. QED
    BY <2>1 DEF Distinct
<1>6. Within(a, s)
  BY <1>1 DEF Within
<1>. QED
  BY <1>4, <1>5, <1>6

\* No entry of a list is in both parts.
LEMMA PartsApart ==
    ASSUME NEW s \in Seq(Events), NEW a \in Seq(Events), NEW b \in Seq(Events),
           Split(s, a, b), Distinct(s)
    PROVE  \A i \in DOMAIN a, j \in DOMAIN b : a[i].id # b[j].id
<1>1. PICK g, h : Splits(g, h, s, a, b)
  BY DEF Split
<1>2. \A i \in DOMAIN a : g[i] \in DOMAIN s /\ a[i] = s[g[i]]
  BY <1>1 DEF Splits, Embeds
<1>3. \A i \in DOMAIN b : h[i] \in DOMAIN s /\ b[i] = s[h[i]]
  BY <1>1 DEF Splits, Embeds
<1>4. \A i \in DOMAIN a, j \in DOMAIN b : g[i] # h[j]
  BY <1>1 DEF Splits
<1>. QED
  BY <1>2, <1>3, <1>4 DEF Distinct

\* rx_context_remove: what it leaves of the context.
LEMMA RemoveFields ==
    ASSUME NEW c \in ContextType, NEW gone \in Seq(Events), NEW left \in Seq(Events),
           Split(c.list, gone, left), c.count = Len(c.list), c.bytes = BytesOf(c.list)
    PROVE  LET d == RemoveAll(c, gone, left)
           IN  /\ d \in ContextType /\ d.list = left
               /\ d.count = Len(left) /\ d.bytes = BytesOf(left)
               /\ d.count <= c.count /\ d.bytes <= c.bytes
               /\ d.tail = IF gone # <<>> /\ left = <<>> THEN NoEntry ELSE c.tail
               /\ d.owners = c.owners /\ d.watermark = c.watermark
               /\ d.replayed = c.replayed /\ d.expired = c.expired
               /\ d.capacity_dropped = c.capacity_dropped /\ d.unresolved = c.unresolved
<1>. DEFINE d == RemoveAll(c, gone, left)
            n == c.count - Len(gone)
            b == c.bytes - BytesOf(gone)
            t == IF gone # <<>> /\ left = <<>> THEN NoEntry ELSE c.tail
<1>1. c.list \in Seq(Events) /\ c.tail \in 0..MaxFeeds
  BY DEF ContextType
<1>2. Len(c.list) = Len(gone) + Len(left) /\ BytesOf(c.list) = BytesOf(gone) + BytesOf(left)
  BY <1>1, SplitLen, SplitBytes
<1>3. BytesOf(gone) \in Nat /\ BytesOf(left) \in Nat /\ Len(gone) \in Nat /\ Len(left) \in Nat
  BY BytesType
<1>4. n = Len(left) /\ b = BytesOf(left) /\ n <= c.count /\ b <= c.bytes
  BY <1>2, <1>3
<1>5. n \in Nat /\ b \in Nat
  BY <1>3, <1>4
<1>6. t \in 0..MaxFeeds
  BY <1>1, CapAssumption DEF NoEntry
<1>7. d = [c EXCEPT !.list = left, !.count = n, !.bytes = b, !.tail = t]
  BY DEF RemoveAll, ContextType
<1>. HIDE DEF d, n, b, t
<1>8. /\ d \in ContextType /\ d.list = left /\ d.count = n /\ d.bytes = b /\ d.tail = t
      /\ d.owners = c.owners /\ d.watermark = c.watermark
      /\ d.replayed = c.replayed /\ d.expired = c.expired
      /\ d.capacity_dropped = c.capacity_dropped /\ d.unresolved = c.unresolved
  BY <1>5, <1>6, <1>7 DEF ContextType
<1>. QED
  BY <1>4, <1>8 DEF d, t

\* Taking entries off the head keeps the list in order.
LEMMA RemoveHeadsOK ==
    ASSUME NEW c, ListOK(c), NEW k \in 0..Len(c.list)
    PROVE  LET d == RemoveHeads(c, k)
           IN  /\ ListOK(d) /\ Within(d.list, c.list)
               /\ Len(d.list) = Len(c.list) - k
               /\ \A i \in DOMAIN d.list : k + i \in DOMAIN c.list /\ d.list[i] = c.list[k + i]
               /\ InWindow(c) => InWindow(d)
               /\ d.owners = c.owners /\ d.watermark = c.watermark
               /\ d.replayed = c.replayed /\ d.expired = c.expired
               /\ d.capacity_dropped = c.capacity_dropped /\ d.unresolved = c.unresolved
<1>. DEFINE d == RemoveHeads(c, k)
            gone == SubSeq(c.list, 1, k)
            left == SubSeq(c.list, k + 1, Len(c.list))
<1>0. /\ c \in ContextType /\ Sorted(c.list) /\ Distinct(c.list) /\ c.tail = LastId(c.list)
      /\ c.count = Len(c.list) /\ c.count <= MaxEvents
      /\ c.bytes = BytesOf(c.list) /\ c.bytes <= MaxBytes
      /\ \A i \in DOMAIN c.list : Held(c, c.list[i])
  BY DEF ListOK
<1>1. c.list \in Seq(Events) /\ c.count \in Nat /\ c.bytes \in Nat /\ Len(c.list) \in Nat
  BY <1>0 DEF ContextType
<1>2. /\ gone \in Seq(Events) /\ Len(gone) = k
      /\ left \in Seq(Events) /\ Len(left) = Len(c.list) - k
      /\ \A i \in 1..Len(c.list) - k : left[i] = c.list[k + i]
      /\ Split(c.list, gone, left)
  BY <1>1, HeadsSplit
<1>3. d = RemoveAll(c, gone, left)
  BY DEF RemoveHeads
<1>. HIDE DEF d, gone, left
<1>4. /\ d \in ContextType /\ d.list = left
      /\ d.count = Len(left) /\ d.bytes = BytesOf(left)
      /\ d.count <= c.count /\ d.bytes <= c.bytes
      /\ d.tail = IF gone # <<>> /\ left = <<>> THEN NoEntry ELSE c.tail
      /\ d.owners = c.owners /\ d.watermark = c.watermark
      /\ d.replayed = c.replayed /\ d.expired = c.expired
      /\ d.capacity_dropped = c.capacity_dropped /\ d.unresolved = c.unresolved
  BY <1>0, <1>2, <1>3, RemoveFields
<1>5. Sorted(left) /\ Distinct(left) /\ Within(left, c.list)
  BY <1>0, <1>1, <1>2, PartOrder DEF Split, Splits
<1>6. \A i \in DOMAIN left : k + i \in DOMAIN c.list /\ left[i] = c.list[k + i]
  <2>1. DOMAIN left = 1..Len(c.list) - k /\ DOMAIN c.list = 1..Len(c.list)
    BY <1>1, <1>2
  <2>2. \A i \in 1..Len(c.list) - k : k + i \in 1..Len(c.list)
    BY <1>1
  <2>. QED
    BY <1>2, <2>1, <2>2
<1>7. d.tail = LastId(left)
  <2>1. CASE left = <<>> /\ gone # <<>>
    BY <2>1, <1>4 DEF LastId
  <2>2. CASE left = <<>> /\ gone = <<>>
    <3>1. Len(c.list) = 0
      BY <2>2, <1>1, <1>2
    <3>2. c.list = <<>>
      BY <1>1, <3>1
    <3>. QED
      BY <2>2, <3>2, <1>0, <1>4 DEF LastId
  <2>3. CASE left # <<>>
    <3>1. Len(left) \in DOMAIN left /\ Len(c.list) # 0
      BY <2>3, <1>1, <1>2
    <3>2. left[Len(left)] = c.list[Len(c.list)]
      <4>1. left[Len(left)] = c.list[k + Len(left)]
        BY <1>6, <3>1
      <4>2. k + Len(left) = Len(c.list)
        BY <1>1, <1>2
      <4>. QED
        BY <4>1, <4>2
    <3>3. c.list # <<>>
      BY <3>1
    <3>. QED
      BY <2>3, <3>2, <3>3, <1>0, <1>4 DEF LastId
  <2>. QED
    BY <2>1, <2>2, <2>3
<1>8. \A i \in DOMAIN d.list : Held(d, d.list[i])
  <2>1. \A i \in DOMAIN d.list : Held(c, d.list[i])
    BY <1>0, <1>4, <1>6
  <2>. QED
    BY <2>1, <1>4 DEF Held
<1>9. d.count <= MaxEvents /\ d.bytes <= MaxBytes
  <2>1. d.count \in Nat /\ d.bytes \in Nat
    BY <1>4 DEF ContextType
  <2>. QED
    BY <1>0, <1>1, <1>4, <2>1, CapAssumption
<1>10. ListOK(d)
  BY <1>4, <1>5, <1>7, <1>8, <1>9 DEF ListOK
<1>11. InWindow(c) => InWindow(d)
  BY <1>4, <1>6 DEF InWindow
<1>. QED
  BY <1>2, <1>4, <1>5, <1>6, <1>10, <1>11 DEF d

\* rx_context_expire leaves exactly the entries within the window: the list is
\* in time order, so the first that is not stale ends the walk rightly.
LEMMA ExpireOK ==
    ASSUME NEW c, ListOK(c), NEW ts \in Nat
    PROVE  LET d == Expire(c, ts)
           IN  /\ ListOK(d) /\ InWindow(d) /\ Within(d.list, c.list)
               /\ d.watermark >= ts /\ d.owners = c.owners
               /\ Accounted(d) = Accounted(c)
<1>. DEFINE w == Watermark(c, ts)
            n == Len(c.list)
            G == {i \in 1..n : Stale(c.list[i], w)}
            k == Max({j \in 0..n : \A i \in 1..j : Stale(c.list[i], w)})
            r == RemoveHeads(c, k)
            d == Expire(c, ts)
<1>1. c \in ContextType /\ Sorted(c.list) /\ \A i \in DOMAIN c.list : Held(c, c.list[i])
  BY DEF ListOK
<1>2. c.list \in Seq(Events) /\ n \in Nat /\ DOMAIN c.list = 1..n /\ c.watermark \in Nat /\ c.expired \in Nat
  BY <1>1 DEF ContextType
<1>3. w \in Nat /\ w >= ts /\ w >= c.watermark
  BY <1>2 DEF Watermark
<1>4. k \in 0..n /\ (\A i \in 1..k : i \in G) /\ (k < n => k + 1 \notin G)
  <2>1. {j \in 0..n : \A i \in 1..j : Stale(c.list[i], w)} = {j \in 0..n : \A i \in 1..j : i \in G}
    <3>1. \A j \in 0..n : (\A i \in 1..j : Stale(c.list[i], w)) <=> (\A i \in 1..j : i \in G)
      <4>1. \A j \in 0..n : \A i \in 1..j : i \in 1..n
        BY <1>2
      <4>. HIDE DEF n
      <4>. QED
        BY <4>1
    <3>. QED
      BY <3>1
  <2>. HIDE DEF G, n
  <2>. QED
    BY <1>2, <2>1, LongestPrefix
<1>5. d = [r EXCEPT !.watermark = w, !.expired = @ + k]
  BY DEF Expire
<1>. HIDE DEF d, r, k, w
<1>6. /\ ListOK(r) /\ Within(r.list, c.list) /\ Len(r.list) = n - k
      /\ \A i \in DOMAIN r.list : k + i \in DOMAIN c.list /\ r.list[i] = c.list[k + i]
      /\ r.owners = c.owners /\ r.watermark = c.watermark
      /\ r.replayed = c.replayed /\ r.expired = c.expired
      /\ r.capacity_dropped = c.capacity_dropped /\ r.unresolved = c.unresolved
  BY <1>4, RemoveHeadsOK DEF r
<1>7. r \in ContextType
  BY <1>6 DEF ListOK
<1>8. /\ d \in ContextType /\ d.list = r.list /\ d.tail = r.tail /\ d.count = r.count
      /\ d.bytes = r.bytes /\ d.owners = r.owners /\ d.watermark = w
      /\ d.expired = r.expired + k
      /\ d.replayed = r.replayed /\ d.capacity_dropped = r.capacity_dropped
      /\ d.unresolved = r.unresolved
  <2>1. r.expired + k \in Nat
    BY <1>2, <1>4, <1>6
  <2>. DEFINE x == r.expired + k
  <2>2. d = [r EXCEPT !.watermark = w, !.expired = x]
    BY <1>5, <1>7 DEF ContextType
  <2>. HIDE DEF x
  <2>3. /\ d \in ContextType /\ d.list = r.list /\ d.tail = r.tail /\ d.count = r.count
        /\ d.bytes = r.bytes /\ d.owners = r.owners /\ d.watermark = w
        /\ d.expired = x
        /\ d.replayed = r.replayed /\ d.capacity_dropped = r.capacity_dropped
        /\ d.unresolved = r.unresolved
    BY <1>3, <1>7, <2>1, <2>2 DEF ContextType, x
  <2>. QED
    BY <2>3 DEF x
<1>9. ASSUME NEW i \in DOMAIN d.list
      PROVE  Held(d, d.list[i]) /\ d.watermark - d.list[i].ts <= Window
  <2>1. k + i \in DOMAIN c.list /\ d.list[i] = c.list[k + i] /\ i \in DOMAIN r.list
    BY <1>6, <1>8, <1>9
  <2>2. i \in Nat /\ i >= 1 /\ k < n /\ k + 1 \in DOMAIN c.list
    <3>1. r.list \in Seq(Events)
      BY <1>7 DEF ContextType
    <3>. QED
      BY <1>2, <1>4, <1>6, <2>1, <3>1, SMTT(40)
  <2>3. c.list[k + 1] \in Events /\ c.list[k + i] \in Events
    BY <1>2, <2>1, <2>2
  <2>4. c.list[k + 1].ts \in Nat /\ c.list[k + i].ts \in Nat
    BY <2>3, EventTypes
  <2>5. c.list[k + 1].ts <= c.list[k + i].ts
    <3>1. CASE i = 1
      BY <3>1, <2>4
    <3>2. CASE i > 1
      <4>1. k + 1 < k + i
        BY <3>2, <1>4, <2>2
      <4>. QED
        BY <4>1, <1>1, <2>1, <2>2 DEF Sorted
    <3>. QED
      BY <3>1, <3>2, <2>2
  <2>6. ~Stale(c.list[k + 1], w)
    BY <1>2, <1>4, <2>2
  <2>7. Held(c, c.list[k + i])
    BY <1>1, <2>1
  <2>8. Held(d, d.list[i])
    BY <1>2, <1>3, <1>6, <1>8, <2>1, <2>4, <2>7 DEF Held
  <2>9. c.watermark >= c.list[k + i].ts
    BY <2>7 DEF Held
  <2>10. w - c.list[k + i].ts <= Window
    <3>. DEFINE t1 == c.list[k + 1].ts
                t2 == c.list[k + i].ts
    <3>1. ~(w >= t1 /\ w - t1 > Window)
      BY <2>6 DEF Stale
    <3>2. t1 \in Nat /\ t2 \in Nat /\ t1 <= t2 /\ w \in Nat /\ Window \in Nat
      BY <1>3, <2>4, <2>5, TimeAssumption
    <3>. HIDE DEF t1, t2
    <3>3. w - t2 <= Window
      BY <3>1, <3>2
    <3>. QED
      BY <3>3 DEF t2
  <2>. QED
    BY <1>8, <2>1, <2>8, <2>10
<1>10. ListOK(d)
  BY <1>6, <1>8, <1>9 DEF ListOK
<1>11. InWindow(d)
  BY <1>9 DEF InWindow
<1>12. Accounted(d) = Accounted(c)
  <2>1. /\ c.replayed \in Nat /\ c.expired \in Nat /\ c.capacity_dropped \in Nat
        /\ c.unresolved \in Nat
    BY <1>1 DEF ContextType
  <2>2. Len(d.list) = n - k
    BY <1>6, <1>8
  <2>3. /\ d.replayed = c.replayed /\ d.expired = c.expired + k
        /\ d.capacity_dropped = c.capacity_dropped /\ d.unresolved = c.unresolved
    BY <1>6, <1>8
  <2>4. Accounted(d) = c.replayed + (c.expired + k) + c.capacity_dropped + c.unresolved + (n - k)
    BY <2>2, <2>3 DEF Accounted
  <2>5. Accounted(c) = c.replayed + c.expired + c.capacity_dropped + c.unresolved + n
    BY DEF Accounted
  <2>6. k \in Int /\ n \in Int
    BY <1>2, <1>4
  <2>. HIDE DEF n
  <2>. QED
    BY <2>1, <2>4, <2>5, <2>6
<1>13. Within(d.list, c.list) /\ d.watermark >= ts /\ d.owners = c.owners
  BY <1>3, <1>6, <1>8
<1>. QED
  BY <1>10, <1>11, <1>12, <1>13 DEF d

\* The entries evidence e releases, those it leaves, and the context then.
Matching(c, e) == Entries(c.list, MatchedBy(c, e))
Left(c, e) == Entries(c.list, DOMAIN c.list \ MatchedBy(c, e))
Released(c, e) ==
    [RemoveAll(c, Matching(c, e), Left(c, e)) EXCEPT
       !.tail = RebuildTail(c, Left(c, e)),
       !.owners[SlotOf(e)] = Remember(c, e),
       !.replayed = @ + Len(Matching(c, e))]

\* What the release does to the list, and which entries it hands over.
ReleaseOK(c, e) ==
    /\ ListOK(Released(c, e)) /\ InWindow(Released(c, e))
    /\ Within(Released(c, e).list, c.list)
    /\ Accounted(Released(c, e)) = Accounted(c)
    /\ \A s \in 0..Slots - 1 : Released(c, e).owners[s] \in {c.owners[s], OwnerOf(e)}
    /\ Matching(c, e) \in Seq(Events) /\ Distinct(Matching(c, e))
    /\ Within(Matching(c, e), c.list)
    /\ \A i \in DOMAIN Matching(c, e) :
          Matches(Matching(c, e)[i], OwnerOf(e)) /\ Identified(Matching(c, e)[i])
    /\ \A i \in DOMAIN Matching(c, e), j \in DOMAIN Released(c, e).list :
          Matching(c, e)[i].id # Released(c, e).list[j].id

\* Evidence e releases the entries it matches and keeps the others in order; the
\* table then has no evidence for any of them.
LEMMA EvidenceOK ==
    ASSUME NEW c, ListOK(c), InWindow(c), NEW e \in Events
    PROVE  ReleaseOK(c, e)
<1>. DEFINE es == Matching(c, e)
            left == Left(c, e)
            d == Released(c, e)
            at == MatchedBy(c, e)
            bt == DOMAIN c.list \ at
            r == RemoveAll(c, es, left)
<1>0. es = Entries(c.list, at) /\ left = Entries(c.list, bt)
  BY DEF Matching, Left
<1>1. /\ c \in ContextType /\ Sorted(c.list) /\ Distinct(c.list)
      /\ c.count = Len(c.list) /\ c.count <= MaxEvents
      /\ c.bytes = BytesOf(c.list) /\ c.bytes <= MaxBytes
      /\ \A i \in DOMAIN c.list : Held(c, c.list[i])
  BY DEF ListOK
<1>2. /\ c.list \in Seq(Events) /\ c.owners \in [0..Slots - 1 -> Owners] /\ c.replayed \in Nat
      /\ c.expired \in Nat /\ c.capacity_dropped \in Nat /\ c.unresolved \in Nat
      /\ c.count \in Nat /\ c.bytes \in Nat
  BY <1>1 DEF ContextType
<1>3. at \subseteq DOMAIN c.list /\ bt \subseteq DOMAIN c.list
  BY DEF MatchedBy
<1>4. d = [r EXCEPT !.tail = RebuildTail(c, left), !.owners[SlotOf(e)] = Remember(c, e),
                    !.replayed = @ + Len(es)]
  BY DEF Released
<1>. HIDE DEF es, left, d
<1>5. /\ es \in Seq(Events) /\ Embeds(Nth(at), es, c.list)
      /\ \A i \in DOMAIN es : Nth(at)[i] \in at
  BY <1>0, <1>2, <1>3, EntriesEmbed
<1>6. /\ left \in Seq(Events) /\ Embeds(Nth(bt), left, c.list)
      /\ \A i \in DOMAIN left : Nth(bt)[i] \in bt
  BY <1>0, <1>2, <1>3, EntriesEmbed
<1>7. Split(c.list, es, left)
  BY <1>0, <1>2, <1>3, EntriesSplit
<1>8. Sorted(left) /\ Distinct(left) /\ Within(left, c.list) /\ Distinct(es) /\ Within(es, c.list)
  BY <1>1, <1>2, <1>5, <1>6, PartOrder
<1>9. ASSUME NEW i \in DOMAIN es
      PROVE  Matches(es[i], OwnerOf(e)) /\ Identified(es[i])
  <2>1. Nth(at)[i] \in at /\ es[i] = c.list[Nth(at)[i]]
    BY <1>5 DEF Embeds
  <2>. QED
    BY <2>1, <1>1, <1>3 DEF MatchedBy, Held
<1>10. ASSUME NEW i \in DOMAIN left
       PROVE  /\ left[i] \in Events /\ ~Matches(left[i], OwnerOf(e)) /\ Held(c, left[i])
              /\ c.watermark - left[i].ts <= Window
  <2>1. Nth(bt)[i] \in bt /\ left[i] = c.list[Nth(bt)[i]]
    BY <1>6 DEF Embeds
  <2>2. left[i] \in Events
    BY <1>6
  <2>. QED
    BY <2>1, <2>2, <1>1, <1>3 DEF MatchedBy, InWindow
<1>. HIDE DEF at, bt, r
<1>11. /\ r \in ContextType /\ r.list = left
       /\ r.count = Len(left) /\ r.bytes = BytesOf(left)
       /\ r.count <= c.count /\ r.bytes <= c.bytes
       /\ r.owners = c.owners /\ r.watermark = c.watermark
       /\ r.replayed = c.replayed /\ r.expired = c.expired
       /\ r.capacity_dropped = c.capacity_dropped /\ r.unresolved = c.unresolved
  BY <1>1, <1>5, <1>6, <1>7, RemoveFields DEF r
<1>. DEFINE t == RebuildTail(c, left)
            o == [c.owners EXCEPT ![SlotOf(e)] = Remember(c, e)]
            x == c.replayed + Len(es)
<1>12. t = LastId(left) /\ t \in 0..MaxFeeds
  <2>1. t = LastId(left)
    BY DEF RebuildTail, LastId
  <2>2. CASE left = <<>>
    BY <2>1, <2>2, CapAssumption DEF LastId, NoEntry
  <2>3. CASE left # <<>>
    <3>1. Len(left) \in DOMAIN left
      BY <1>6, <2>3
    <3>2. left[Len(left)].id \in 1..MaxFeeds
      BY <1>10, <3>1, EventTypes
    <3>. QED
      BY <2>1, <2>3, <3>2, CapAssumption DEF LastId
  <2>. QED
    BY <2>2, <2>3, <2>1
<1>13. SlotOf(e) \in 0..Slots - 1
  BY SlotAssumption, EventTypes DEF SlotOf
<1>14. Remember(c, e) \in {c.owners[SlotOf(e)], OwnerOf(e)}
  BY DEF Remember
<1>15. OwnerOf(e) \in Owners
  BY EventTypes, CapAssumption DEF OwnerOf, Owners
<1>16. o \in [0..Slots - 1 -> Owners]
  BY <1>2, <1>13, <1>14, <1>15
<1>17. x \in Nat
  BY <1>2, <1>5
<1>18. d = [r EXCEPT !.tail = t, !.owners = o, !.replayed = x]
  BY <1>4, <1>11 DEF ContextType
<1>. HIDE DEF t, o, x
<1>19. /\ d \in ContextType /\ d.list = left /\ d.tail = t /\ d.count = r.count
       /\ d.bytes = r.bytes /\ d.owners = o /\ d.watermark = c.watermark /\ d.replayed = x
       /\ d.expired = c.expired /\ d.capacity_dropped = c.capacity_dropped
       /\ d.unresolved = c.unresolved
  BY <1>11, <1>12, <1>16, <1>17, <1>18 DEF ContextType
<1>20. ASSUME NEW i \in DOMAIN d.list PROVE Held(d, d.list[i])
  <2>. DEFINE p == left[i]
  <2>1. i \in DOMAIN left /\ p \in Events /\ ~Matches(p, OwnerOf(e)) /\ Held(c, p)
    BY <1>10, <1>19, <1>20
  <2>. HIDE DEF p
  <2>2. SlotOf(p) \in 0..Slots - 1
    BY <2>1, SlotAssumption, EventTypes DEF SlotOf
  <2>3. o[SlotOf(p)] \in {c.owners[SlotOf(p)], OwnerOf(e)}
    BY <1>2, <1>13, <1>14, <2>2 DEF o
  <2>4. ~Matches(p, o[SlotOf(p)])
    BY <2>1, <2>3 DEF Held
  <2>5. d.list[i] = p
    BY <1>19 DEF p
  <2>. QED
    BY <1>19, <2>1, <2>4, <2>5 DEF Held
<1>21. d.count <= MaxEvents /\ d.bytes <= MaxBytes
  <2>1. r.count \in Nat /\ r.bytes \in Nat
    BY <1>11 DEF ContextType
  <2>. QED
    BY <1>1, <1>2, <1>11, <1>19, <2>1, CapAssumption
<1>22. ListOK(d)
  BY <1>8, <1>11, <1>12, <1>19, <1>20, <1>21 DEF ListOK
<1>23. InWindow(d)
  BY <1>10, <1>19 DEF InWindow
<1>24. Accounted(d) = Accounted(c)
  <2>1. Len(c.list) = Len(es) + Len(left)
    BY <1>2, <1>5, <1>6, <1>7, SplitLen
  <2>2. Len(es) \in Nat /\ Len(left) \in Nat
    BY <1>5, <1>6
  <2>3. Accounted(d) = (c.replayed + Len(es)) + c.expired + c.capacity_dropped + c.unresolved + Len(left)
    BY <1>19 DEF Accounted, x
  <2>4. Accounted(c) = c.replayed + c.expired + c.capacity_dropped + c.unresolved + (Len(es) + Len(left))
    BY <2>1 DEF Accounted
  <2>. QED
    BY <1>2, <2>2, <2>3, <2>4, SMTT(40)
<1>25. \A s \in 0..Slots - 1 : d.owners[s] \in {c.owners[s], OwnerOf(e)}
  <2>1. ASSUME NEW s \in 0..Slots - 1 PROVE o[s] \in {c.owners[s], OwnerOf(e)}
    <3>1. CASE s = SlotOf(e)
      BY <3>1, <1>2, <1>13, <1>14 DEF o
    <3>2. CASE s # SlotOf(e)
      BY <3>2, <1>2 DEF o
    <3>. QED
      BY <3>1, <3>2
  <2>. QED
    BY <1>19, <2>1
<1>26. \A i \in DOMAIN es, j \in DOMAIN d.list : es[i].id # d.list[j].id
  BY <1>1, <1>2, <1>5, <1>6, <1>7, <1>19, PartsApart
<1>. QED
  BY <1>5, <1>8, <1>9, <1>19, <1>22, <1>23, <1>24, <1>25, <1>26 DEF es, d, ReleaseOK

\* The tail pointer names the last entry, and no other has its number.
LEMMA TailIsLast ==
    ASSUME NEW c, ListOK(c)
    PROVE  /\ c.tail = NoEntry <=> c.list = <<>>
           /\ c.list # <<>> => TailAt(c) = Len(c.list) /\ Len(c.list) \in DOMAIN c.list
           /\ ~Dangling(c)
<1>. DEFINE at == {i \in DOMAIN c.list : c.list[i].id = c.tail}
<1>1. c.list \in Seq(Events) /\ Distinct(c.list) /\ c.tail = LastId(c.list) /\ Len(c.list) \in Nat
  BY DEF ListOK, ContextType
<1>2. CASE c.list = <<>>
  <2>1. c.tail = NoEntry
    BY <1>1, <1>2 DEF LastId
  <2>. QED
    BY <1>2, <2>1 DEF Dangling
<1>3. CASE c.list # <<>>
  <2>1. Len(c.list) \in DOMAIN c.list /\ Len(c.list) # 0 /\ c.tail = c.list[Len(c.list)].id
    BY <1>1, <1>3 DEF LastId
  <2>2. c.list[Len(c.list)] \in Events
    BY <1>1, <2>1
  <2>3. c.tail # NoEntry
    BY <2>1, <2>2, EventTypes
  <2>4. at = {Len(c.list)}
    BY <2>1, <1>1 DEF Distinct
  <2>5. Max(at) = Len(c.list)
    <3>1. at \subseteq 0..Len(c.list) /\ at # {}
      BY <2>4, <1>1
    <3>2. Max(at) \in at
      <4>. HIDE DEF at
      <4>. QED
        BY <3>1, <1>1, MaxMember
    <3>. QED
      BY <2>4, <3>2
  <2>6. TailAt(c) = Len(c.list)
    BY <2>4, <2>5 DEF TailAt
  <2>. QED
    BY <1>3, <2>1, <2>3, <2>6 DEF Dangling
<1>. QED
  BY <1>2, <1>3

\* Appending at the tail and linking before the first later entry both put e
\* after all the entries that are not later.
LEMMA InsertList ==
    ASSUME NEW c, ListOK(c), NEW e \in Events
    PROVE  \E k \in 0..Len(c.list) :
              /\ Insert(c, e) = [c EXCEPT !.list = InsertAt(c.list, k + 1, e), !.count = @ + 1,
                                          !.bytes = @ + e.size,
                                          !.tail = IF k = Len(c.list) THEN e.id ELSE @]
              /\ \A i \in 1..k : c.list[i].ts <= e.ts
              /\ \A i \in k + 1..Len(c.list) : e.ts <= c.list[i].ts
<1>. DEFINE s == c.list
            n == Len(c.list)
            New(t, l) == [c EXCEPT !.list = t, !.count = @ + 1, !.bytes = @ + e.size, !.tail = l]
<1>1. s \in Seq(Events) /\ n \in Nat /\ DOMAIN s = 1..n /\ Sorted(s)
  BY DEF ListOK, ContextType
<1>2. /\ c.tail = NoEntry <=> s = <<>>
      /\ s # <<>> => TailAt(c) = n /\ n \in 1..n
  BY <1>1, TailIsLast
<1>3. e.ts \in Nat /\ \A i \in 1..n : s[i].ts \in Nat
  <2>1. \A i \in 1..n : s[i] \in Events
    BY <1>1
  <2>. QED
    BY <2>1, EventTypes
<1>4. InsertAt(s, n + 1, e) = Append(s, e)
  <2>. DEFINE t == InsertAt(s, n + 1, e)
  <2>0. n \in 0..Len(s)
    BY <1>1
  <2>1. t \in Seq(Events) /\ PutAfter(t, s, n, e)
    BY <1>1, <2>0, InsertSplit
  <2>2. Append(s, e) \in Seq(Events) /\ Len(Append(s, e)) = n + 1
    BY <1>1
  <2>3. \A i \in 1..n + 1 : Append(s, e)[i] = IF i <= n THEN s[i] ELSE e
    BY <1>1
  <2>. HIDE DEF t
  <2>4. Len(t) = n + 1 /\ \A i \in 1..Len(t) : t[i] = Append(s, e)[i]
    <3>1. Len(t) = n + 1 /\ DOMAIN t = 1..n + 1
      BY <1>1, <2>1 DEF PutAfter
    <3>2. ASSUME NEW i \in 1..n + 1 PROVE t[i] = Append(s, e)[i]
      BY <1>1, <2>1, <2>3, <3>1 DEF PutAfter
    <3>. QED
      BY <3>1, <3>2
  <2>5. t = Append(s, e)
    BY <2>1, <2>2, <2>4, SeqEqual
  <2>. QED
    BY <2>5 DEF t
<1>5. CASE s = <<>>
  <2>1. n = 0 /\ Append(s, e) = <<e>>
    BY <1>5
  <2>2. Insert(c, e) = New(<<e>>, e.id)
    BY <1>2, <1>5 DEF Insert
  <2>3. Insert(c, e) = New(InsertAt(s, n + 1, e), IF n = n THEN e.id ELSE c.tail)
    BY <1>4, <2>1, <2>2
  <2>. QED
    BY <2>1, <2>3
<1>6. CASE s # <<>> /\ s[n].ts <= e.ts
  <2>1. SubSeq(s, 1, n) = s
    <3>1. SubSeq(s, 1, n) \in Seq(Events) /\ Len(SubSeq(s, 1, n)) = n
      BY <1>1
    <3>2. \A i \in 1..n : SubSeq(s, 1, n)[i] = s[i]
      BY <1>1
    <3>. QED
      BY <1>1, <3>1, <3>2, SeqEqual
  <2>2. Insert(c, e) = New(Append(s, e), e.id)
    BY <1>2, <1>6, <2>1 DEF Insert
  <2>3. Insert(c, e) = New(InsertAt(s, n + 1, e), IF n = n THEN e.id ELSE c.tail)
    BY <1>4, <2>2
  <2>4. \A i \in 1..n : s[i].ts <= e.ts
    <3>1. ASSUME NEW i \in 1..n PROVE s[i].ts <= s[n].ts
      <4>1. CASE i = n
        BY <4>1, <1>3
      <4>2. CASE i < n
        BY <4>2, <1>1, <1>2, <1>6 DEF Sorted
      <4>. QED
        BY <1>1, <4>1, <4>2
    <3>. QED
      BY <1>2, <1>3, <1>6, <3>1
  <2>5. n \in 0..n /\ \A i \in n + 1..n : e.ts <= s[i].ts
    BY <1>1
  <2>. QED
    BY <2>3, <2>4, <2>5
<1>7. CASE s # <<>> /\ ~(s[n].ts <= e.ts)
  <2>. DEFINE G == {i \in 1..n : s[i].ts <= e.ts}
              k == Max({j \in 0..n : \A i \in 1..j : s[i].ts <= e.ts})
  <2>1. k \in 0..n /\ (\A i \in 1..k : i \in G) /\ (k < n => k + 1 \notin G)
    <3>1. {j \in 0..n : \A i \in 1..j : s[i].ts <= e.ts} = {j \in 0..n : \A i \in 1..j : i \in G}
      <4>1. \A j \in 0..n : \A i \in 1..j : i \in 1..n
        BY <1>1
      <4>2. \A j \in 0..n : (\A i \in 1..j : s[i].ts <= e.ts) <=> (\A i \in 1..j : i \in G)
        <5>. HIDE DEF n, s
        <5>. QED
          BY <4>1
      <4>. QED
        BY <4>2
    <3>. HIDE DEF G, n, s
    <3>. QED
      BY <1>1, <3>1, LongestPrefix
  <2>2. Insert(c, e) = New(InsertAt(s, k + 1, e), c.tail)
    BY <1>2, <1>7 DEF Insert
  <2>. HIDE DEF k
  <2>3. k < n
    BY <1>1, <1>2, <1>7, <2>1
  <2>4. Insert(c, e) = New(InsertAt(s, k + 1, e), IF k = n THEN e.id ELSE c.tail)
    <3>1. k # n
      BY <1>1, <2>1, <2>3
    <3>2. (IF k = n THEN e.id ELSE c.tail) = c.tail
      BY <3>1
    <3>. QED
      BY <2>2, <3>2
  <2>5. \A i \in 1..k : s[i].ts <= e.ts
    BY <2>1
  <2>6. ASSUME NEW i \in k + 1..n PROVE e.ts <= s[i].ts
    <3>1. i \in 1..n /\ k + 1 \in 1..n
      BY <1>1, <2>1, <2>3
    <3>2. e.ts <= s[k + 1].ts
      BY <1>3, <2>1, <2>3, <3>1
    <3>3. s[k + 1].ts <= s[i].ts
      <4>1. CASE i = k + 1
        BY <4>1, <1>3, <3>1
      <4>2. CASE k + 1 < i
        BY <4>2, <1>1, <3>1 DEF Sorted
      <4>. QED
        BY <2>1, <3>1, <4>1, <4>2
    <3>. QED
      BY <1>3, <3>1, <3>2, <3>3
  <2>. QED
    BY <2>1, <2>4, <2>5, <2>6
<1>. QED
  BY <1>5, <1>6, <1>7

\* A new entry that fits, that the table has no evidence for and that is within
\* the window is held in its place.
LEMMA InsertOK ==
    ASSUME NEW c, ListOK(c), InWindow(c), NEW e \in Events, Held(c, e),
           c.watermark - e.ts <= Window, HasRoom(c.count, c.bytes, e),
           \A i \in DOMAIN c.list : c.list[i].id # e.id
    PROVE  LET d == Insert(c, e)
           IN  /\ ListOK(d) /\ InWindow(d) /\ d.owners = c.owners
               /\ Accounted(d) = Accounted(c) + 1
               /\ \A i \in DOMAIN d.list :
                     d.list[i] = e \/ \E j \in DOMAIN c.list : d.list[i] = c.list[j]
<1>1. /\ c \in ContextType /\ Sorted(c.list) /\ Distinct(c.list) /\ c.tail = LastId(c.list)
      /\ c.count = Len(c.list) /\ c.bytes = BytesOf(c.list)
      /\ \A i \in DOMAIN c.list : Held(c, c.list[i])
  BY DEF ListOK
<1>2. PICK k \in 0..Len(c.list) :
        /\ Insert(c, e) = [c EXCEPT !.list = InsertAt(c.list, k + 1, e), !.count = @ + 1,
                                    !.bytes = @ + e.size,
                                    !.tail = IF k = Len(c.list) THEN e.id ELSE @]
        /\ \A i \in 1..k : c.list[i].ts <= e.ts
        /\ \A i \in k + 1..Len(c.list) : e.ts <= c.list[i].ts
  BY InsertList
<1>. DEFINE s == c.list
            n == Len(c.list)
            t == InsertAt(c.list, k + 1, e)
            l == IF k = n THEN e.id ELSE c.tail
            d == Insert(c, e)
            q == c.count + 1
            b == c.bytes + e.size
<1>3. /\ s \in Seq(Events) /\ n \in Nat /\ DOMAIN s = 1..n /\ c.tail \in 0..MaxFeeds
      /\ c.count \in Nat /\ c.bytes \in Nat /\ c.replayed \in Nat /\ c.expired \in Nat
      /\ c.capacity_dropped \in Nat /\ c.unresolved \in Nat
  BY <1>1 DEF ContextType
<1>4. t \in Seq(Events) /\ Len(t) = n + 1 /\ PutAfter(t, s, k, e) /\ Split(t, <<e>>, s)
  <2>1. t \in Seq(Events) /\ PutAfter(t, s, k, e) /\ Split(t, <<e>>, s)
    BY <1>3, InsertSplit
  <2>. QED
    BY <2>1 DEF PutAfter
<1>5. DOMAIN t = 1..n + 1 /\ k \in Nat /\ k <= n
  BY <1>3, <1>4
<1>6. e.id \in 1..MaxFeeds /\ e.size \in Nat /\ e.ts \in Nat
  BY EventTypes
<1>7. l \in 0..MaxFeeds /\ q \in Nat /\ b \in Nat
  <2>1. l \in 0..MaxFeeds
    BY <1>3, <1>6, CapAssumption
  <2>2. q \in Nat /\ b \in Nat
    BY <1>3, <1>6, SMTT(40)
  <2>. QED
    BY <2>1, <2>2
<1>8. d = [c EXCEPT !.list = t, !.count = q, !.bytes = b, !.tail = l]
  BY <1>1, <1>2 DEF ContextType
<1>. HIDE DEF t, l, d, q, b
<1>9. /\ d \in ContextType /\ d.list = t /\ d.count = q /\ d.bytes = b /\ d.tail = l
      /\ d.owners = c.owners /\ d.watermark = c.watermark
      /\ d.replayed = c.replayed /\ d.expired = c.expired
      /\ d.capacity_dropped = c.capacity_dropped /\ d.unresolved = c.unresolved
  BY <1>1, <1>4, <1>7, <1>8 DEF ContextType
<1>10. q = Len(t) /\ q <= MaxEvents
  BY <1>1, <1>3, <1>4, CapAssumption DEF q, HasRoom
<1>11. b = BytesOf(t) /\ b <= MaxBytes
  <2>1. BytesOf(t) = BytesOf(<<e>>) + BytesOf(s)
    <3>1. <<e>> \in Seq(Events)
      OBVIOUS
    <3>. QED
      BY <1>3, <1>4, <3>1, SplitBytes
  <2>2. BytesOf(<<e>>) = e.size
    <3>. DEFINE f == [i \in DOMAIN <<e>> |-> <<e>>[i].size]
    <3>1. DOMAIN f = {} \cup {1} /\ f[1] = e.size /\ DOMAIN f = DOMAIN <<e>>
      OBVIOUS
    <3>2. BytesOf(<<e>>) = SumFunctionOnSet(f, DOMAIN f)
      BY DEF BytesOf, SumFunction
    <3>. HIDE DEF f
    <3>3. SumFunctionOnSet(f, {} \cup {1}) = SumFunctionOnSet(f, {}) + f[1]
      <4>1. f[1] \in Int
        BY <1>6, <3>1
      <4>2. \A x \in {} \cup {1} : f[x] \in Int
        BY <4>1
      <4>3. 1 \notin {} /\ IsFiniteSet({})
        BY FS_EmptySet
      <4>. QED
        BY <4>2, <4>3, SumAdd, Zenon
    <3>. QED
      BY <1>6, <3>1, <3>2, <3>3, SumEmpty
  <2>. QED
    BY <1>1, <1>3, <1>6, <2>1, <2>2 DEF b, HasRoom
<1>12. l = LastId(t)
  <2>1. t # <<>> /\ LastId(t) = t[n + 1].id
    BY <1>3, <1>4 DEF LastId
  <2>2. CASE k = n
    <3>1. n + 1 \in DOMAIN t /\ n + 1 = k + 1
      BY <2>2, <1>3, <1>5
    <3>2. t[n + 1] = e
      BY <1>3, <1>4, <3>1 DEF PutAfter
    <3>. QED
      BY <2>1, <2>2, <3>2 DEF l
  <2>3. CASE k # n
    <3>1. k < n /\ n + 1 \in DOMAIN t /\ n + 1 > k + 1 /\ (n + 1) - 1 = n
      BY <2>3, <1>3, <1>5
    <3>2. t[n + 1] = s[n]
      <4>1. ASSUME NEW i \in DOMAIN t, i > k + 1, NEW j, j = i - 1 PROVE t[i] = s[j]
        <5>1. i \in Int
          BY <1>5
        <5>. QED
          BY <1>4, <1>5, <4>1, <5>1 DEF PutAfter
      <4>. QED
        BY <3>1, <4>1
    <3>3. c.tail = s[n].id
      BY <1>1, <1>3, <1>5, <3>1 DEF LastId
    <3>. QED
      BY <2>1, <2>3, <3>2, <3>3 DEF l
  <2>. QED
    BY <2>2, <2>3
<1>13. ASSUME NEW i \in DOMAIN t
       PROVE  \/ i = k + 1 /\ t[i] = e
              \/ i < k + 1 /\ i \in DOMAIN s /\ i <= k /\ t[i] = s[i]
              \/ i > k + 1 /\ i - 1 \in DOMAIN s /\ k + 1 <= i - 1 /\ t[i] = s[i - 1]
  <2>1. i \in Int
    BY <1>5
  <2>. QED
    BY <1>4, <1>5, <2>1 DEF PutAfter
<1>14. \A i \in DOMAIN t : t[i] = e \/ \E j \in DOMAIN s : t[i] = s[j]
  BY <1>13
<1>15. Sorted(t)
  <2>1. ASSUME NEW i \in DOMAIN t, NEW j \in DOMAIN t, i < j PROVE t[i].ts <= t[j].ts
    <3>1. i \in Int /\ j \in Int
      BY <1>3, <1>5
    <3>2. CASE j = k + 1 /\ t[j] = e
      <4>1. i \in 1..k /\ t[i] = s[i]
        BY <1>3, <1>5, <2>1, <3>1, <3>2, <1>13
      <4>. QED
        BY <1>2, <3>2, <4>1
    <3>3. CASE j < k + 1 /\ j \in DOMAIN s /\ t[j] = s[j]
      <4>1. i \in DOMAIN s /\ t[i] = s[i]
        BY <1>5, <2>1, <3>1, <3>3, <1>13
      <4>. QED
        BY <1>1, <2>1, <3>3, <4>1 DEF Sorted
    <3>4. CASE j > k + 1 /\ j - 1 \in DOMAIN s /\ k + 1 <= j - 1 /\ t[j] = s[j - 1]
      <4>1. CASE i = k + 1 /\ t[i] = e
        <5>1. j - 1 \in k + 1..n
          BY <1>3, <1>5, <3>1, <3>4
        <5>. QED
          BY <1>2, <3>4, <4>1, <5>1
      <4>2. CASE i < k + 1 /\ i \in DOMAIN s /\ i <= k /\ t[i] = s[i]
        <5>1. i < j - 1
          BY <1>5, <3>1, <3>4, <4>2
        <5>. QED
          BY <1>1, <3>4, <4>2, <5>1 DEF Sorted
      <4>3. CASE i > k + 1 /\ i - 1 \in DOMAIN s /\ t[i] = s[i - 1]
        <5>1. i - 1 < j - 1
          BY <2>1, <3>1
        <5>. QED
          BY <1>1, <3>4, <4>3, <5>1 DEF Sorted
      <4>. QED
        BY <1>13, <4>1, <4>2, <4>3
    <3>. QED
      BY <1>13, <3>2, <3>3, <3>4
  <2>. QED
    BY <2>1 DEF Sorted
<1>16. Distinct(t)
  <2>0. \A i, j \in DOMAIN s : s[i].id = s[j].id => i = j
    BY <1>1 DEF Distinct
  <2>1. ASSUME NEW i \in DOMAIN t, NEW j \in DOMAIN t, t[i].id = t[j].id PROVE i = j
    <3>1. i \in Int /\ j \in Int
      BY <1>3, <1>5
    <3>2. CASE t[i] = e
      BY <2>1, <3>1, <3>2, <1>13
    <3>3. CASE t[j] = e
      BY <2>1, <3>1, <3>3, <1>13
    <3>4. CASE t[i] # e /\ t[j] # e
      <4>1. CASE i < k + 1 /\ j < k + 1
        BY <2>0, <2>1, <3>1, <3>4, <4>1, <1>5, <1>13
      <4>2. CASE i < k + 1 /\ j > k + 1
        <5>1. i = j - 1
          BY <2>0, <2>1, <3>1, <3>4, <4>2, <1>5, <1>13
        <5>. QED
          BY <3>1, <4>2, <5>1, <1>5
      <4>3. CASE i > k + 1 /\ j < k + 1
        <5>1. i - 1 = j
          BY <2>0, <2>1, <3>1, <3>4, <4>3, <1>5, <1>13
        <5>. QED
          BY <3>1, <4>3, <5>1, <1>5
      <4>4. CASE i > k + 1 /\ j > k + 1
        <5>1. i - 1 = j - 1
          BY <2>0, <2>1, <3>1, <3>4, <4>4, <1>5, <1>13
        <5>. QED
          BY <3>1, <5>1
      <4>. QED
        BY <1>13, <3>4, <4>1, <4>2, <4>3, <4>4
    <3>. QED
      BY <3>2, <3>3, <3>4
  <2>. QED
    BY <2>1 DEF Distinct
<1>17. \A i \in DOMAIN d.list : Held(d, d.list[i]) /\ d.watermark - d.list[i].ts <= Window
  <2>1. \A p : Held(c, p) => Held(d, p)
    BY <1>9 DEF Held
  <2>. QED
    BY <1>1, <1>9, <1>14, <2>1 DEF InWindow
<1>18. ListOK(d)
  BY <1>9, <1>10, <1>11, <1>12, <1>15, <1>16, <1>17 DEF ListOK
<1>19. InWindow(d)
  BY <1>17 DEF InWindow
<1>20. Accounted(d) = Accounted(c) + 1
  <2>1. Accounted(d) = c.replayed + c.expired + c.capacity_dropped + c.unresolved + (n + 1)
    BY <1>4, <1>9 DEF Accounted
  <2>2. Accounted(c) = c.replayed + c.expired + c.capacity_dropped + c.unresolved + n
    BY DEF Accounted
  <2>. HIDE DEF n
  <2>. QED
    BY <1>3, <2>1, <2>2, SMTT(40)
<1>. QED
  BY <1>9, <1>14, <1>18, <1>19, <1>20 DEF d

\* Evictions make room for every event that is not oversized: at the latest an
\* empty list has room.
LEMMA EvictOK ==
    ASSUME NEW c, ListOK(c), InWindow(c), NEW e \in Events, ~Oversized(e)
    PROVE  LET k == Min(Evict(c, e))
               d == [RemoveHeads(c, k) EXCEPT !.capacity_dropped = @ + k]
           IN  /\ Evict(c, e) # {} /\ ListOK(d) /\ InWindow(d) /\ Within(d.list, c.list)
               /\ d.owners = c.owners /\ d.watermark = c.watermark
               /\ HasRoom(d.count, d.bytes, e)
               /\ Accounted(d) = Accounted(c)
<1>. DEFINE n == Len(c.list)
            all == RemoveHeads(c, n)
            k == Min(Evict(c, e))
            r == RemoveHeads(c, k)
            d == [r EXCEPT !.capacity_dropped = @ + k]
<1>1. /\ c \in ContextType /\ c.list \in Seq(Events) /\ n \in Nat
      /\ c.replayed \in Nat /\ c.expired \in Nat /\ c.capacity_dropped \in Nat /\ c.unresolved \in Nat
  BY DEF ListOK, ContextType
<1>2. e.size \in Nat /\ e.size <= MaxBytes
  BY EventTypes, CapAssumption DEF Oversized
<1>3. n \in Evict(c, e)
  <2>1. ListOK(all) /\ Len(all.list) = n - n
    BY <1>1, RemoveHeadsOK
  <2>. HIDE DEF all
  <2>2. all.list \in Seq(Events) /\ Len(all.list) = 0
    BY <1>1, <2>1 DEF ListOK, ContextType
  <2>3. all.list = <<>>
    BY <2>2
  <2>4. all.count = 0 /\ all.bytes = 0
    BY <2>1, <2>2, <2>3, BytesEmpty DEF ListOK
  <2>5. HasRoom(all.count, all.bytes, e)
    BY <1>2, <2>4, CapAssumption DEF HasRoom
  <2>6. n \in 0..n
    BY <1>1
  <2>. QED
    BY <2>5, <2>6 DEF Evict, all
<1>4. k \in Evict(c, e)
  <2>1. Evict(c, e) \subseteq Nat
    BY <1>1 DEF Evict
  <2>. QED
    BY <1>3, <2>1, MinMember
<1>5. k \in 0..n /\ HasRoom(r.count, r.bytes, e)
  BY <1>4 DEF Evict
<1>. HIDE DEF k
<1>6. /\ ListOK(r) /\ Within(r.list, c.list) /\ Len(r.list) = n - k /\ InWindow(r)
      /\ r.owners = c.owners /\ r.watermark = c.watermark
      /\ r.replayed = c.replayed /\ r.expired = c.expired
      /\ r.capacity_dropped = c.capacity_dropped /\ r.unresolved = c.unresolved
  BY <1>5, RemoveHeadsOK
<1>. HIDE DEF r
<1>7. r \in ContextType /\ k \in Nat
  BY <1>1, <1>5, <1>6 DEF ListOK
<1>. DEFINE x == r.capacity_dropped + k
<1>8. x \in Nat /\ d = [r EXCEPT !.capacity_dropped = x]
  BY <1>1, <1>6, <1>7, SMTT(40) DEF ContextType
<1>. HIDE DEF x, d
<1>9. /\ d \in ContextType /\ d.list = r.list /\ d.tail = r.tail /\ d.count = r.count
      /\ d.bytes = r.bytes /\ d.owners = r.owners /\ d.watermark = r.watermark
      /\ d.expired = r.expired /\ d.replayed = r.replayed /\ d.capacity_dropped = x
      /\ d.unresolved = r.unresolved
  BY <1>7, <1>8 DEF ContextType
<1>10. \A p : Held(r, p) => Held(d, p)
  BY <1>9 DEF Held
<1>11. ListOK(d) /\ InWindow(d)
  BY <1>6, <1>9, <1>10 DEF ListOK, InWindow
<1>12. Accounted(d) = Accounted(c)
  <2>1. Accounted(d) = c.replayed + c.expired + (c.capacity_dropped + k) + c.unresolved + (n - k)
    BY <1>6, <1>9 DEF Accounted, x
  <2>2. Accounted(c) = c.replayed + c.expired + c.capacity_dropped + c.unresolved + n
    BY DEF Accounted
  <2>. HIDE DEF n
  <2>. QED
    BY <1>1, <1>7, <2>1, <2>2
<1>. QED
  BY <1>3, <1>5, <1>6, <1>9, <1>11, <1>12 DEF d, r, k

\* d differs from c in that one more event was counted.
OneMore(c, d) ==
    /\ d \in ContextType /\ d.list = c.list /\ d.tail = c.tail /\ d.count = c.count
    /\ d.bytes = c.bytes /\ d.owners = c.owners /\ d.watermark = c.watermark
    /\ d.replayed + d.expired + d.capacity_dropped + d.unresolved
         = c.replayed + c.expired + c.capacity_dropped + c.unresolved + 1

\* Each way an event leaves the list alone counts it once.
LEMMA OneMoreCounted ==
    ASSUME NEW c \in ContextType
    PROVE  /\ OneMore(c, [c EXCEPT !.unresolved = @ + 1])
           /\ OneMore(c, [c EXCEPT !.expired = @ + 1])
           /\ OneMore(c, [c EXCEPT !.capacity_dropped = @ + 1])
           /\ OneMore(c, [c EXCEPT !.replayed = @ + 1])
<1>0. /\ c.replayed \in Nat /\ c.expired \in Nat /\ c.capacity_dropped \in Nat
      /\ c.unresolved \in Nat
  BY DEF ContextType
<1>1. OneMore(c, [c EXCEPT !.unresolved = @ + 1])
  <2>. DEFINE x == c.unresolved + 1
              d == [c EXCEPT !.unresolved = x]
  <2>1. x \in Nat
    BY <1>0
  <2>2. d = [c EXCEPT !.unresolved = @ + 1]
    BY DEF ContextType
  <2>. HIDE DEF x
  <2>3. /\ d \in ContextType /\ d.list = c.list /\ d.tail = c.tail /\ d.count = c.count
        /\ d.bytes = c.bytes /\ d.owners = c.owners /\ d.watermark = c.watermark
        /\ d.unresolved = x
        /\ d.expired = c.expired /\ d.capacity_dropped = c.capacity_dropped /\ d.replayed = c.replayed
    BY <2>1 DEF ContextType
  <2>. HIDE DEF d
  <2>4. d.replayed + d.expired + d.capacity_dropped + d.unresolved
          = c.replayed + c.expired + c.capacity_dropped + c.unresolved + 1
    BY <1>0, <2>3 DEF x
  <2>5. OneMore(c, d)
    BY <2>3, <2>4 DEF OneMore
  <2>. QED
    BY <2>2, <2>5
<1>2. OneMore(c, [c EXCEPT !.expired = @ + 1])
  <2>. DEFINE x == c.expired + 1
              d == [c EXCEPT !.expired = x]
  <2>1. x \in Nat
    BY <1>0
  <2>2. d = [c EXCEPT !.expired = @ + 1]
    BY DEF ContextType
  <2>. HIDE DEF x
  <2>3. /\ d \in ContextType /\ d.list = c.list /\ d.tail = c.tail /\ d.count = c.count
        /\ d.bytes = c.bytes /\ d.owners = c.owners /\ d.watermark = c.watermark
        /\ d.expired = x
        /\ d.unresolved = c.unresolved /\ d.capacity_dropped = c.capacity_dropped /\ d.replayed = c.replayed
    BY <2>1 DEF ContextType
  <2>. HIDE DEF d
  <2>4. d.replayed + d.expired + d.capacity_dropped + d.unresolved
          = c.replayed + c.expired + c.capacity_dropped + c.unresolved + 1
    BY <1>0, <2>3 DEF x
  <2>5. OneMore(c, d)
    BY <2>3, <2>4 DEF OneMore
  <2>. QED
    BY <2>2, <2>5
<1>3. OneMore(c, [c EXCEPT !.capacity_dropped = @ + 1])
  <2>. DEFINE x == c.capacity_dropped + 1
              d == [c EXCEPT !.capacity_dropped = x]
  <2>1. x \in Nat
    BY <1>0
  <2>2. d = [c EXCEPT !.capacity_dropped = @ + 1]
    BY DEF ContextType
  <2>. HIDE DEF x
  <2>3. /\ d \in ContextType /\ d.list = c.list /\ d.tail = c.tail /\ d.count = c.count
        /\ d.bytes = c.bytes /\ d.owners = c.owners /\ d.watermark = c.watermark
        /\ d.capacity_dropped = x
        /\ d.unresolved = c.unresolved /\ d.expired = c.expired /\ d.replayed = c.replayed
    BY <2>1 DEF ContextType
  <2>. HIDE DEF d
  <2>4. d.replayed + d.expired + d.capacity_dropped + d.unresolved
          = c.replayed + c.expired + c.capacity_dropped + c.unresolved + 1
    BY <1>0, <2>3 DEF x
  <2>5. OneMore(c, d)
    BY <2>3, <2>4 DEF OneMore
  <2>. QED
    BY <2>2, <2>5
<1>4. OneMore(c, [c EXCEPT !.replayed = @ + 1])
  <2>. DEFINE x == c.replayed + 1
              d == [c EXCEPT !.replayed = x]
  <2>1. x \in Nat
    BY <1>0
  <2>2. d = [c EXCEPT !.replayed = @ + 1]
    BY DEF ContextType
  <2>. HIDE DEF x
  <2>3. /\ d \in ContextType /\ d.list = c.list /\ d.tail = c.tail /\ d.count = c.count
        /\ d.bytes = c.bytes /\ d.owners = c.owners /\ d.watermark = c.watermark
        /\ d.replayed = x
        /\ d.unresolved = c.unresolved /\ d.expired = c.expired /\ d.capacity_dropped = c.capacity_dropped
    BY <2>1 DEF ContextType
  <2>. HIDE DEF d
  <2>4. d.replayed + d.expired + d.capacity_dropped + d.unresolved
          = c.replayed + c.expired + c.capacity_dropped + c.unresolved + 1
    BY <1>0, <2>3 DEF x
  <2>5. OneMore(c, d)
    BY <2>3, <2>4 DEF OneMore
  <2>. QED
    BY <2>2, <2>5
<1>. QED
  BY <1>1, <1>2, <1>3, <1>4

\* A counter of the context is increased: the event that was fed is accounted,
\* and the list is as it was.
LEMMA CountedOK ==
    ASSUME NEW c, ListOK(c), InWindow(c), NEW d, OneMore(c, d)
    PROVE  /\ ListOK(d) /\ InWindow(d) /\ d.list = c.list /\ d.owners = c.owners
           /\ Accounted(d) = Accounted(c) + 1
<1>1. c \in ContextType
  BY DEF ListOK
<1>2. /\ c.list \in Seq(Events) /\ Len(c.list) \in Nat
      /\ c.replayed \in Nat /\ c.expired \in Nat /\ c.capacity_dropped \in Nat /\ c.unresolved \in Nat
  BY <1>1 DEF ContextType
<1>3. /\ d \in ContextType /\ d.list = c.list /\ d.tail = c.tail /\ d.count = c.count
      /\ d.bytes = c.bytes /\ d.owners = c.owners /\ d.watermark = c.watermark
  BY DEF OneMore
<1>4. d.replayed + d.expired + d.capacity_dropped + d.unresolved
        = c.replayed + c.expired + c.capacity_dropped + c.unresolved + 1
  BY DEF OneMore
<1>5. Accounted(d) = Accounted(c) + 1
  <2>1. /\ d.replayed \in Nat /\ d.expired \in Nat /\ d.capacity_dropped \in Nat
        /\ d.unresolved \in Nat
    BY <1>3 DEF ContextType
  <2>. DEFINE sd == d.replayed + d.expired + d.capacity_dropped + d.unresolved
              sc == c.replayed + c.expired + c.capacity_dropped + c.unresolved
  <2>2. sc \in Nat /\ sd = sc + 1
    BY <1>2, <1>4
  <2>. DEFINE n == Len(c.list)
  <2>3. Accounted(d) = sd + n /\ Accounted(c) = sc + n /\ n \in Nat
    BY <1>2, <1>3 DEF Accounted
  <2>. HIDE DEF sd, sc, n
  <2>. QED
    BY <2>2, <2>3
<1>6. \A p : Held(c, p) => Held(d, p)
  BY <1>3 DEF Held
<1>7. ListOK(d) /\ InWindow(d)
  BY <1>3, <1>6 DEF ListOK, InWindow
<1>. QED
  BY <1>3, <1>5, <1>7

-----------------------------------------------------------------------------
(* The inductive invariant.                                                  *)

\* The calls of the exporter for es, and the numbers of the events written.
Calls(es, o) == {<<es[i], o>> : i \in DOMAIN es}
EmittedIds(E) == {pair[1].id : pair \in E}

\* Numbers are given once: what is held or written was fed.
InvNumbers ==
    /\ \A i \in DOMAIN ctx.list : ctx.list[i].id <= feeds
    /\ \A pair \in emitted : pair[1].id <= feeds

InvEmitted ==
    /\ IsFiniteSet(EmittedIds(emitted)) /\ Cardinality(EmittedIds(emitted)) = emissions
    /\ \A pair \in emitted, i \in DOMAIN ctx.list : pair[1].id # ctx.list[i].id

\* The table holds evidence only.
InvOwners == \A s \in 0..Slots - 1 : ctx.owners[s] = NoOwner \/ ctx.owners[s] \in evidence

IInv ==
    /\ TypeOK /\ ~broken
    /\ ListOK(ctx) /\ InWindow(ctx)
    /\ quarantined = Accounted(ctx)
    /\ InvNumbers /\ InvEmitted /\ InvOwners
    /\ ReleasedByEvidence

\* The exporter called for es adds their numbers.
LEMMA EmitNumbers ==
    ASSUME NEW E, IsFiniteSet(EmittedIds(E)), NEW es \in Seq(Events), Distinct(es), NEW o,
           \A pair \in E, i \in DOMAIN es : pair[1].id # es[i].id,
           NEW F, F = E \cup Calls(es, o)
    PROVE  /\ IsFiniteSet(EmittedIds(F))
           /\ Cardinality(EmittedIds(F)) = Cardinality(EmittedIds(E)) + Len(es)
<1>. DEFINE N == {es[i].id : i \in DOMAIN es}
            f == [i \in DOMAIN es |-> es[i].id]
<1>1. EmittedIds(F) = EmittedIds(E) \cup N
  <2>1. \A x \in EmittedIds(F) : x \in EmittedIds(E) \cup N
    BY DEF EmittedIds, Calls
  <2>2. EmittedIds(E) \subseteq EmittedIds(F)
    BY DEF EmittedIds
  <2>3. ASSUME NEW i \in DOMAIN es PROVE es[i].id \in EmittedIds(F)
    <3>1. <<es[i], o>> \in F /\ <<es[i], o>>[1] = es[i]
      BY DEF Calls
    <3>. QED
      BY <3>1 DEF EmittedIds
  <2>. QED
    BY <2>1, <2>2, <2>3
<1>2. EmittedIds(E) \cap N = {}
  BY DEF EmittedIds
<1>3. f \in [DOMAIN es -> N] /\ \A i, j \in DOMAIN es : f[i] = f[j] => i = j
  BY DEF Distinct
<1>4. \A x \in N : \E i \in DOMAIN es : f[i] = x
  OBVIOUS
<1>5. f \in Bijection(DOMAIN es, N)
  <2>. HIDE DEF f, N
  <2>. QED
    BY <1>3, <1>4, Fun_IsBij
<1>6. IsFiniteSet(DOMAIN es) /\ Cardinality(DOMAIN es) = Len(es)
  BY Positions
<1>. HIDE DEF N, f
<1>7. IsFiniteSet(N) /\ Cardinality(N) = Cardinality(DOMAIN es)
  BY <1>5, <1>6, FS_Bijection DEF ExistsBijection
<1>8. IsFiniteSet(EmittedIds(E) \cup N)
  BY <1>7, FS_Union
<1>9. Cardinality(EmittedIds(E) \cup N) = Cardinality(EmittedIds(E)) + Cardinality(N)
  BY <1>2, <1>7, DisjointCardinality
<1>. QED
  BY <1>1, <1>6, <1>7, <1>8, <1>9

\* The parts of the invariant follow in every step from what the step does to the
\* list, to the table and to the record of the emitted events.
LEMMA StepPreserves ==
    ASSUME IInv,
           ListOK(ctx'), InWindow(ctx'), ~broken', broken' \in BOOLEAN, open' \in BOOLEAN,
           feeds' \in 0..MaxFeeds, feeds <= feeds',
           quarantined' = Accounted(ctx'), quarantined' \in 0..feeds',
           \A i \in DOMAIN ctx'.list :
              \/ \E j \in DOMAIN ctx.list : ctx'.list[i] = ctx.list[j]
              \/ feeds < ctx'.list[i].id /\ ctx'.list[i].id <= feeds',
           evidence \subseteq evidence', evidence' \subseteq Owners,
           \A s \in 0..Slots - 1 : ctx'.owners[s] = NoOwner \/ ctx'.owners[s] \in evidence',
           NEW es \in Seq(Events), NEW o, o \in evidence' \/ es = <<>>, Distinct(es),
           \A i \in DOMAIN es : /\ Matches(es[i], o) /\ Identified(es[i])
                                /\ es[i].id <= feeds'
                                /\ \A pair \in emitted : pair[1].id # es[i].id
                                /\ \A j \in DOMAIN ctx'.list : es[i].id # ctx'.list[j].id,
           emitted' = emitted \cup Calls(es, o),
           emissions' = emissions + Len(es)
    PROVE  IInv'
<1>1. TypeOK /\ InvNumbers /\ InvEmitted /\ ReleasedByEvidence
  BY DEF IInv
<1>2. feeds \in Nat /\ feeds' \in Nat /\ emissions \in Nat /\ emitted \subseteq Events \X Owners
  BY <1>1, CapAssumption DEF TypeOK
<1>3. \A i \in DOMAIN es : es[i] \in Events /\ o \in Owners /\ es[i].id \in Nat
  BY EventTypes
<1>4. \A pair \in emitted' : \/ pair \in emitted
                             \/ \E i \in DOMAIN es : pair = <<es[i], o>>
  BY DEF Calls
<1>5. \A pair \in emitted : pair[1].id \in Nat
  BY <1>2, EventTypes
<1>6. emitted' \subseteq Events \X Owners
  BY <1>2, <1>3, <1>4
<1>7. Len(es) \in Nat
  OBVIOUS
<1>8. TypeOK'
  <2>1. ctx' \in ContextType
    BY DEF ListOK
  <2>2. emissions' \in Nat
    BY <1>2, <1>7
  <2>. QED
    BY <1>6, <2>1, <2>2 DEF TypeOK, ContextType
<1>9. InvNumbers'
  <2>0. ctx.list \in Seq(Events) /\ ctx'.list \in Seq(Events)
    BY DEF IInv, ListOK, ContextType
  <2>1. ASSUME NEW i \in DOMAIN ctx'.list PROVE ctx'.list[i].id <= feeds'
    <3>1. CASE \E j \in DOMAIN ctx.list : ctx'.list[i] = ctx.list[j]
      <4>1. PICK j \in DOMAIN ctx.list : ctx'.list[i] = ctx.list[j]
        BY <3>1
      <4>2. ctx.list[j].id <= feeds /\ ctx.list[j].id \in Nat
        BY <1>1, <2>0, EventTypes DEF InvNumbers
      <4>. QED
        BY <1>2, <4>1, <4>2
    <3>. QED
      BY <3>1
  <2>2. ASSUME NEW pair \in emitted' PROVE pair[1].id <= feeds'
    <3>1. CASE pair \in emitted
      <4>1. pair[1].id <= feeds
        BY <1>1, <3>1 DEF InvNumbers
      <4>. QED
        BY <1>2, <1>5, <3>1, <4>1
    <3>. QED
      BY <1>4, <3>1
  <2>. QED
    BY <2>1, <2>2 DEF InvNumbers
<1>10. InvEmitted'
  <2>1. IsFiniteSet(EmittedIds(emitted)) /\ Cardinality(EmittedIds(emitted)) = emissions
    BY <1>1 DEF InvEmitted
  <2>2. /\ IsFiniteSet(EmittedIds(emitted'))
        /\ Cardinality(EmittedIds(emitted')) = Cardinality(EmittedIds(emitted)) + Len(es)
    <3>1. \A pair \in emitted, i \in DOMAIN es : pair[1].id # es[i].id
      OBVIOUS
    <3>. QED
      BY <2>1, <3>1, EmitNumbers
  <2>3. ASSUME NEW pair \in emitted', NEW i \in DOMAIN ctx'.list
        PROVE  pair[1].id # ctx'.list[i].id
    <3>1. CASE pair \in emitted
      <4>1. CASE \E j \in DOMAIN ctx.list : ctx'.list[i] = ctx.list[j]
        BY <3>1, <4>1, <1>1 DEF InvEmitted
      <4>2. CASE feeds < ctx'.list[i].id
        <5>1. pair[1].id <= feeds /\ pair[1].id \in Nat
          BY <1>1, <1>5, <3>1 DEF InvNumbers
        <5>. QED
          BY <1>2, <4>2, <5>1
      <4>. QED
        BY <4>1, <4>2
    <3>. QED
      BY <1>4, <3>1
  <2>. QED
    BY <2>1, <2>2, <2>3 DEF InvEmitted, EmittedIds
<1>11. InvOwners'
  BY DEF InvOwners
<1>12. ReleasedByEvidence'
  <2>1. ASSUME NEW pair \in emitted'
        PROVE  /\ pair[2] \in evidence'
               /\ pair[2].key = pair[1].key /\ pair[2].gen = pair[1].gen /\ Identified(pair[1])
               /\ pair[2].ts >= pair[1].ts /\ pair[2].ts - pair[1].ts <= Window
    <3>1. CASE pair \in emitted
      BY <3>1, <1>1 DEF ReleasedByEvidence
    <3>2. CASE \E i \in DOMAIN es : pair = <<es[i], o>>
      <4>1. PICK i \in DOMAIN es : pair = <<es[i], o>>
        BY <3>2
      <4>2. es # <<>> /\ pair[1] = es[i] /\ pair[2] = o
        BY <4>1
      <4>. QED
        BY <4>2 DEF Matches
    <3>. QED
      BY <1>4, <3>1, <3>2
  <2>. QED
    BY <2>1 DEF ReleasedByEvidence
<1>. QED
  BY <1>8, <1>9, <1>10, <1>11, <1>12 DEF IInv

\* The invariant holds initially.
LEMMA InitIInv == Init => IInv
<1>. SUFFICES ASSUME Init PROVE IInv
  OBVIOUS
<1>0. NoOwner \in Owners
  BY CapAssumption DEF NoOwner, Owners, NoEntry
<1>1. /\ ctx \in ContextType /\ ctx.list = <<>> /\ ctx.tail = NoEntry /\ ctx.count = 0 /\ ctx.bytes = 0
      /\ ctx.replayed = 0 /\ ctx.expired = 0 /\ ctx.capacity_dropped = 0 /\ ctx.unresolved = 0
      /\ ctx.owners = [s \in 0..Slots - 1 |-> NoOwner]
  BY <1>0, CapAssumption DEF Init, ContextType, NoEntry
<1>2. TypeOK
  <2>1. feeds = 0 /\ quarantined = 0 /\ emissions = 0 /\ evidence = {} /\ emitted = {}
    BY DEF Init
  <2>2. feeds \in 0..MaxFeeds /\ quarantined \in 0..feeds /\ emissions \in Nat
    BY <2>1, CapAssumption
  <2>3. broken \in BOOLEAN /\ open \in BOOLEAN
    BY DEF Init
  <2>4. evidence \subseteq Owners /\ emitted \subseteq Events \X Owners
    BY <2>1
  <2>. QED
    BY <1>1, <2>2, <2>3, <2>4 DEF TypeOK, ContextType
<1>3. ListOK(ctx) /\ InWindow(ctx)
  <2>1. DOMAIN ctx.list = {} /\ Len(ctx.list) = 0
    BY <1>1
  <2>2. BytesOf(ctx.list) = 0
    BY <1>1, BytesEmpty
  <2>. QED
    BY <1>1, <2>1, <2>2, CapAssumption DEF ListOK, InWindow, Sorted, Distinct, LastId
<1>4. quarantined = Accounted(ctx)
  BY <1>1 DEF Init, Accounted
<1>5. InvNumbers /\ InvEmitted /\ InvOwners /\ ReleasedByEvidence
  <2>1. EmittedIds({}) = {}
    BY DEF EmittedIds
  <2>2. feeds = 0 /\ emissions = 0 /\ evidence = {} /\ emitted = {} /\ DOMAIN ctx.list = {}
    BY <1>1 DEF Init
  <2>3. IsFiniteSet(EmittedIds(emitted)) /\ Cardinality(EmittedIds(emitted)) = emissions
    BY <2>1, <2>2, FS_EmptySet
  <2>4. InvNumbers /\ InvEmitted /\ ReleasedByEvidence
    BY <2>2, <2>3 DEF InvNumbers, InvEmitted, ReleasedByEvidence
  <2>5. InvOwners
    BY <1>1 DEF InvOwners
  <2>. QED
    BY <2>4, <2>5
<1>. QED
  BY <1>2, <1>3, <1>4, <1>5 DEF Init, IInv

\* What a step that writes no event of the list keeps.
LEMMA QuietStep ==
    ASSUME IInv,
           ListOK(ctx'), InWindow(ctx'), ~broken', broken' \in BOOLEAN, open' \in BOOLEAN,
           feeds' \in 0..MaxFeeds, feeds <= feeds',
           quarantined' = Accounted(ctx'), quarantined' \in 0..feeds',
           \A i \in DOMAIN ctx'.list :
              \/ \E j \in DOMAIN ctx.list : ctx'.list[i] = ctx.list[j]
              \/ feeds < ctx'.list[i].id /\ ctx'.list[i].id <= feeds',
           evidence' = evidence,
           \A s \in 0..Slots - 1 : ctx'.owners[s] = NoOwner \/ ctx'.owners[s] \in evidence,
           NoEmit
    PROVE  IInv'
<1>. DEFINE es == <<>>
<1>1. es \in Seq(Events) /\ Distinct(es) /\ DOMAIN es = {} /\ Len(es) = 0
  BY DEF Distinct
<1>2. emissions \in Nat /\ evidence \subseteq Owners
  BY DEF IInv, TypeOK
<1>3. emitted' = emitted \cup Calls(es, 0) /\ emissions' = emissions + Len(es)
  BY <1>1, <1>2 DEF NoEmit, Calls
<1>4. evidence \subseteq evidence' /\ evidence' \subseteq Owners
  BY <1>2
<1>5. \A i \in DOMAIN es : /\ Matches(es[i], 0) /\ Identified(es[i])
                           /\ es[i].id <= feeds'
                           /\ \A pair \in emitted : pair[1].id # es[i].id
                           /\ \A j \in DOMAIN ctx'.list : es[i].id # ctx'.list[j].id
  BY <1>1
<1>6. 0 \in evidence' \/ es = <<>>
  OBVIOUS
<1>. HIDE DEF es
<1>. QED
  BY <1>1, <1>3, <1>4, <1>5, <1>6, StepPreserves

\* The context after rx_context_expire, as it is used below.
LEMMA Expired ==
    ASSUME IInv, NEW ts \in Nat, NEW c, c = Expire(ctx, ts)
    PROVE  /\ ListOK(c) /\ InWindow(c) /\ c.watermark >= ts /\ c.owners = ctx.owners
           /\ Accounted(c) = Accounted(ctx) /\ Within(c.list, ctx.list)
           /\ \A i \in DOMAIN c.list : c.list[i].id <= feeds /\ c.list[i].id \in Nat
           /\ \A pair \in emitted, i \in DOMAIN c.list : pair[1].id # c.list[i].id
<1>1. ListOK(ctx) /\ InvNumbers /\ InvEmitted
  BY DEF IInv
<1>2. /\ ListOK(c) /\ InWindow(c) /\ c.watermark >= ts /\ c.owners = ctx.owners
      /\ Accounted(c) = Accounted(ctx) /\ Within(c.list, ctx.list)
  BY <1>1, ExpireOK
<1>3. \A i \in DOMAIN c.list : \E j \in DOMAIN ctx.list : c.list[i] = ctx.list[j]
  BY <1>2 DEF Within
<1>4. ctx.list \in Seq(Events)
  BY <1>1 DEF ListOK, ContextType
<1>5. \A i \in DOMAIN c.list : c.list[i].id <= feeds /\ c.list[i].id \in Nat
  BY <1>1, <1>3, <1>4, EventTypes DEF InvNumbers
<1>6. \A pair \in emitted, i \in DOMAIN c.list : pair[1].id # c.list[i].id
  BY <1>1, <1>3 DEF InvEmitted
<1>. QED
  BY <1>2, <1>5, <1>6

\* Counters and types used in every step.
LEMMA Numbers ==
    ASSUME IInv
    PROVE  /\ feeds \in 0..MaxFeeds /\ feeds \in Nat /\ quarantined \in Nat /\ quarantined <= feeds
           /\ emissions \in Nat /\ evidence \subseteq Owners /\ quarantined = Accounted(ctx)
           /\ broken = FALSE /\ open \in BOOLEAN
           /\ \A pair \in emitted : pair[1].id \in Nat /\ pair[1].id <= feeds
           /\ \A s \in 0..Slots - 1 : ctx.owners[s] = NoOwner \/ ctx.owners[s] \in evidence
<1>1. TypeOK /\ ~broken /\ quarantined = Accounted(ctx) /\ InvNumbers /\ InvOwners
  BY DEF IInv
<1>2. feeds \in 0..MaxFeeds /\ quarantined \in 0..feeds /\ emitted \subseteq Events \X Owners
  BY <1>1 DEF TypeOK
<1>3. feeds \in Nat /\ quarantined \in Nat /\ quarantined <= feeds
  BY <1>2, CapAssumption
<1>4. \A pair \in emitted : pair[1].id \in Nat /\ pair[1].id <= feeds
  BY <1>1, <1>2, EventTypes DEF InvNumbers
<1>. QED
  BY <1>1, <1>2, <1>3, <1>4 DEF TypeOK, InvOwners

\* rx_context_feed of an event without an owner.
LEMMA FeedUnownedStep ==
    ASSUME IInv, NEW e \in Events, e.id = feeds + 1, FeedUnowned(e)
    PROVE  IInv'
<1>. DEFINE c == Expire(ctx, e.ts)
<1>1. /\ feeds \in 0..MaxFeeds /\ feeds \in Nat /\ quarantined \in Nat /\ quarantined <= feeds
      /\ emissions \in Nat /\ evidence \subseteq Owners /\ quarantined = Accounted(ctx)
      /\ broken = FALSE /\ open \in BOOLEAN
      /\ \A pair \in emitted : pair[1].id \in Nat /\ pair[1].id <= feeds
      /\ \A s \in 0..Slots - 1 : ctx.owners[s] = NoOwner \/ ctx.owners[s] \in evidence
  BY Numbers
<1>2. e.ts \in Nat /\ e.id \in 1..MaxFeeds /\ e.id \in Nat
  BY EventTypes
<1>3. /\ feeds' = e.id /\ quarantined' = quarantined + 1 /\ open' = open /\ evidence' = evidence
      /\ Identified(e) => FeedPending(c, e)
      /\ ~Identified(e) => ctx' = [c EXCEPT !.unresolved = @ + 1] /\ NoEmit /\ UNCHANGED broken
  BY DEF FeedUnowned
<1>4. feeds' \in 0..MaxFeeds /\ feeds <= feeds' /\ quarantined' \in 0..feeds'
  BY <1>1, <1>2, <1>3
<1>5. c = Expire(ctx, e.ts)
  OBVIOUS
<1>. HIDE DEF c
<1>6. /\ ListOK(c) /\ InWindow(c) /\ c.watermark >= e.ts /\ c.owners = ctx.owners
      /\ Accounted(c) = Accounted(ctx) /\ Within(c.list, ctx.list)
      /\ \A i \in DOMAIN c.list : c.list[i].id <= feeds /\ c.list[i].id \in Nat
      /\ \A pair \in emitted, i \in DOMAIN c.list : pair[1].id # c.list[i].id
  BY <1>2, <1>5, Expired
<1>7. c \in ContextType
  BY <1>6 DEF ListOK
<1>8. Accounted(c) \in Nat
  BY <1>1, <1>6
<1>9. ASSUME OneMore(c, ctx'), NoEmit, broken' = broken PROVE IInv'
  <2>1. /\ ListOK(ctx') /\ InWindow(ctx') /\ ctx'.list = c.list /\ ctx'.owners = c.owners
        /\ Accounted(ctx') = Accounted(c) + 1
    BY <1>6, <1>9, CountedOK
  <2>2. \A i \in DOMAIN ctx'.list : \E j \in DOMAIN ctx.list : ctx'.list[i] = ctx.list[j]
    BY <1>6, <2>1 DEF Within
  <2>3. quarantined' = Accounted(ctx')
    BY <1>1, <1>3, <1>6, <2>1
  <2>4. \A s \in 0..Slots - 1 : ctx'.owners[s] = NoOwner \/ ctx'.owners[s] \in evidence
    BY <1>1, <1>6, <2>1
  <2>5. ~broken' /\ broken' \in BOOLEAN /\ open' \in BOOLEAN
    BY <1>1, <1>3, <1>9
  <2>. QED
    BY <1>3, <1>4, <1>9, <2>1, <2>2, <2>3, <2>4, <2>5, QuietStep
<1>10. CASE ~Identified(e)
  BY <1>3, <1>7, <1>9, <1>10, OneMoreCounted
<1>11. CASE Identified(e) /\ Stale(e, c.watermark) /\ ctx' = [c EXCEPT !.expired = @ + 1] /\ NoEmit /\ broken' = broken
  BY <1>7, <1>9, <1>11, OneMoreCounted
<1>12. CASE ctx' = Drop(c) /\ NoEmit /\ broken' = broken
  BY <1>7, <1>9, <1>12, OneMoreCounted DEF Drop
<1>13. SlotOf(e) \in 0..Slots - 1
  BY SlotAssumption, EventTypes DEF SlotOf
<1>14. CASE /\ Identified(e) /\ Matches(e, c.owners[SlotOf(e)])
            /\ ctx' = [c EXCEPT !.replayed = @ + 1]
            /\ Emit(<<e>>, c.owners[SlotOf(e)]) /\ broken' = broken
  <2>. DEFINE o == c.owners[SlotOf(e)]
              es == <<e>>
  <2>1. /\ ListOK(ctx') /\ InWindow(ctx') /\ ctx'.list = c.list /\ ctx'.owners = c.owners
        /\ Accounted(ctx') = Accounted(c) + 1
    BY <1>6, <1>7, <1>14, OneMoreCounted, CountedOK
  <2>2. \A i \in DOMAIN ctx'.list : \E j \in DOMAIN ctx.list : ctx'.list[i] = ctx.list[j]
    BY <1>6, <2>1 DEF Within
  <2>3. quarantined' = Accounted(ctx')
    BY <1>1, <1>3, <1>6, <2>1
  <2>4. \A s \in 0..Slots - 1 : ctx'.owners[s] = NoOwner \/ ctx'.owners[s] \in evidence'
    BY <1>1, <1>3, <1>6, <2>1
  <2>5. ~broken' /\ broken' \in BOOLEAN /\ open' \in BOOLEAN
    BY <1>1, <1>3, <1>14
  <2>6. o \in evidence'
    <3>1. o.key = e.key /\ e.key # 0
      BY <1>14 DEF Matches, Identified
    <3>2. o # NoOwner
      BY <3>1 DEF NoOwner
    <3>. QED
      BY <1>1, <1>3, <1>6, <1>13, <3>2
  <2>7. es \in Seq(Events) /\ DOMAIN es = {1} /\ es[1] = e /\ Len(es) = 1 /\ Distinct(es)
    BY DEF Distinct
  <2>8. \A i \in DOMAIN es : /\ Matches(es[i], o) /\ Identified(es[i])
                             /\ es[i].id <= feeds'
                             /\ \A pair \in emitted : pair[1].id # es[i].id
                             /\ \A j \in DOMAIN ctx'.list : es[i].id # ctx'.list[j].id
    <3>1. e.id <= feeds'
      BY <1>2, <1>3
    <3>2. \A pair \in emitted : pair[1].id # e.id
      BY <1>1
    <3>3. \A j \in DOMAIN ctx'.list : e.id # ctx'.list[j].id
      BY <1>1, <1>6, <2>1
    <3>. QED
      BY <1>14, <2>7, <3>1, <3>2, <3>3
  <2>9. emitted' = emitted \cup Calls(es, o) /\ emissions' = emissions + Len(es)
    BY <1>14 DEF Emit, Calls
  <2>10. evidence \subseteq evidence' /\ evidence' \subseteq Owners
    BY <1>1, <1>3
  <2>. HIDE DEF es, o
  <2>. QED
    BY <1>3, <1>4, <2>1, <2>2, <2>3, <2>4, <2>5, <2>6, <2>7, <2>8, <2>9, <2>10, StepPreserves
<1>15. CASE /\ Identified(e) /\ ~Stale(e, c.watermark) /\ ~Oversized(e)
            /\ ~Matches(e, c.owners[SlotOf(e)])
            /\ LET evicted(k) == [RemoveHeads(c, k) EXCEPT !.capacity_dropped = @ + k]
               IN  IF Evict(c, e) = {} \/ Dangling(evicted(Min(Evict(c, e))))
                   THEN broken' = TRUE /\ UNCHANGED ctx
                   ELSE ctx' = Insert(evicted(Min(Evict(c, e))), e) /\ UNCHANGED broken
            /\ NoEmit
  <2>. DEFINE k == Min(Evict(c, e))
              d == [RemoveHeads(c, k) EXCEPT !.capacity_dropped = @ + k]
  <2>1. /\ Evict(c, e) # {} /\ ListOK(d) /\ InWindow(d) /\ Within(d.list, c.list)
        /\ d.owners = c.owners /\ d.watermark = c.watermark
        /\ HasRoom(d.count, d.bytes, e)
        /\ Accounted(d) = Accounted(c)
    BY <1>6, <1>15, EvictOK
  <2>2. ~Dangling(d)
    BY <2>1, TailIsLast
  <2>3. ctx' = Insert(d, e) /\ broken' = broken
    BY <1>15, <2>1, <2>2
  <2>. HIDE DEF d
  <2>4. c.watermark \in Nat
    BY <1>7 DEF ContextType
  <2>5. Held(d, e) /\ d.watermark - e.ts <= Window
    BY <1>2, <1>6, <1>15, <2>1, <2>4, TimeAssumption DEF Held, Stale
  <2>6. \A i \in DOMAIN d.list : \E j \in DOMAIN ctx.list : d.list[i] = ctx.list[j]
    BY <1>6, <2>1 DEF Within
  <2>7. \A i \in DOMAIN d.list : d.list[i].id # e.id
    BY <1>1, <1>6, <2>1 DEF Within
  <2>8. /\ ListOK(ctx') /\ InWindow(ctx') /\ ctx'.owners = d.owners
        /\ Accounted(ctx') = Accounted(d) + 1
        /\ \A i \in DOMAIN ctx'.list :
              ctx'.list[i] = e \/ \E j \in DOMAIN d.list : ctx'.list[i] = d.list[j]
    BY <2>1, <2>3, <2>5, <2>7, InsertOK
  <2>9. quarantined' = Accounted(ctx')
    BY <1>1, <1>3, <1>6, <2>1, <2>8
  <2>10. \A i \in DOMAIN ctx'.list :
            \/ \E j \in DOMAIN ctx.list : ctx'.list[i] = ctx.list[j]
            \/ feeds < ctx'.list[i].id /\ ctx'.list[i].id <= feeds'
    <3>1. feeds < e.id /\ e.id <= feeds'
      BY <1>1, <1>2, <1>3
    <3>. QED
      BY <2>6, <2>8, <3>1
  <2>11. \A s \in 0..Slots - 1 : ctx'.owners[s] = NoOwner \/ ctx'.owners[s] \in evidence
    BY <1>1, <1>6, <2>1, <2>8
  <2>12. ~broken' /\ broken' \in BOOLEAN /\ open' \in BOOLEAN
    BY <1>1, <1>3, <2>3
  <2>. QED
    BY <1>3, <1>4, <1>15, <2>8, <2>9, <2>10, <2>11, <2>12, QuietStep
<1>16. Identified(e) => FeedPending(c, e)
  BY <1>3
<1>. QED
  BY <1>10, <1>11, <1>12, <1>14, <1>15, <1>16 DEF FeedPending

\* rx_context_feed of an event of the target, with a socket or without.
LEMMA FeedOwnedStep ==
    ASSUME IInv, NEW e \in Events, e.id = feeds + 1, NEW socket \in BOOLEAN, FeedOwned(e, socket)
    PROVE  IInv'
<1>. DEFINE c == Expire(ctx, e.ts)
<1>1. /\ feeds \in 0..MaxFeeds /\ feeds \in Nat /\ quarantined \in Nat /\ quarantined <= feeds
      /\ emissions \in Nat /\ evidence \subseteq Owners /\ quarantined = Accounted(ctx)
      /\ broken = FALSE /\ open \in BOOLEAN
      /\ \A pair \in emitted : pair[1].id \in Nat /\ pair[1].id <= feeds
      /\ \A s \in 0..Slots - 1 : ctx.owners[s] = NoOwner \/ ctx.owners[s] \in evidence
  BY Numbers
<1>2. e.ts \in Nat /\ e.id \in 1..MaxFeeds /\ e.id \in Nat
  BY EventTypes
<1>3. /\ feeds' = e.id /\ quarantined' = quarantined /\ open' = open /\ broken' = broken
      /\ Identified(e) /\ socket => FeedEvidence(c, e) /\ evidence' = evidence \cup {OwnerOf(e)}
      /\ ~(Identified(e) /\ socket) => ctx' = c /\ NoEmit /\ evidence' = evidence
  BY DEF FeedOwned
<1>4. feeds' \in 0..MaxFeeds /\ feeds <= feeds' /\ quarantined' \in 0..feeds'
  BY <1>1, <1>2, <1>3
<1>5. c = Expire(ctx, e.ts)
  OBVIOUS
<1>. HIDE DEF c
<1>6. /\ ListOK(c) /\ InWindow(c) /\ c.watermark >= e.ts /\ c.owners = ctx.owners
      /\ Accounted(c) = Accounted(ctx) /\ Within(c.list, ctx.list)
      /\ \A i \in DOMAIN c.list : c.list[i].id <= feeds /\ c.list[i].id \in Nat
      /\ \A pair \in emitted, i \in DOMAIN c.list : pair[1].id # c.list[i].id
  BY <1>2, <1>5, Expired
<1>7. ~broken' /\ broken' \in BOOLEAN /\ open' \in BOOLEAN
  BY <1>1, <1>3
<1>8. CASE ~(Identified(e) /\ socket)
  <2>1. ctx' = c /\ NoEmit /\ evidence' = evidence
    BY <1>3, <1>8
  <2>2. \A i \in DOMAIN ctx'.list : \E j \in DOMAIN ctx.list : ctx'.list[i] = ctx.list[j]
    BY <1>6, <2>1 DEF Within
  <2>3. quarantined' = Accounted(ctx')
    BY <1>1, <1>3, <1>6, <2>1
  <2>4. \A s \in 0..Slots - 1 : ctx'.owners[s] = NoOwner \/ ctx'.owners[s] \in evidence
    BY <1>1, <1>6, <2>1
  <2>5. ListOK(ctx') /\ InWindow(ctx')
    BY <1>6, <2>1
  <2>. QED
    BY <1>4, <1>7, <2>1, <2>2, <2>3, <2>4, <2>5, QuietStep
<1>9. CASE Identified(e) /\ socket
  <2>. DEFINE es == Matching(c, e)
              o == OwnerOf(e)
  <2>1. FeedEvidence(c, e) /\ evidence' = evidence \cup {o}
    BY <1>3, <1>9
  <2>2. ctx' = Released(c, e) /\ Emit(es, o)
    BY <2>1 DEF FeedEvidence, Released, Matching, Left
  <2>3. /\ ListOK(ctx') /\ InWindow(ctx') /\ Within(ctx'.list, c.list)
        /\ Accounted(ctx') = Accounted(c)
        /\ \A s \in 0..Slots - 1 : ctx'.owners[s] \in {c.owners[s], o}
        /\ es \in Seq(Events) /\ Distinct(es) /\ Within(es, c.list)
        /\ \A i \in DOMAIN es : Matches(es[i], o) /\ Identified(es[i])
        /\ \A i \in DOMAIN es, j \in DOMAIN ctx'.list : es[i].id # ctx'.list[j].id
    <3>. DEFINE d == Released(c, e)
    <3>1. /\ ListOK(d) /\ InWindow(d) /\ Within(d.list, c.list)
          /\ Accounted(d) = Accounted(c)
          /\ \A s \in 0..Slots - 1 : d.owners[s] \in {c.owners[s], OwnerOf(e)}
          /\ Matching(c, e) \in Seq(Events) /\ Distinct(Matching(c, e)) /\ Within(Matching(c, e), c.list)
          /\ \A i \in DOMAIN Matching(c, e) : Matches(Matching(c, e)[i], OwnerOf(e)) /\ Identified(Matching(c, e)[i])
          /\ \A i \in DOMAIN Matching(c, e), j \in DOMAIN d.list : Matching(c, e)[i].id # d.list[j].id
      <4>1. ReleaseOK(c, e)
        BY <1>6, EvidenceOK
      <4>. QED
        BY <4>1 DEF ReleaseOK
    <3>2. ctx' = d
      BY <2>2
    <3>. HIDE DEF d
    <3>. QED
      BY <3>1, <3>2
  <2>4. emitted' = emitted \cup Calls(es, o) /\ emissions' = emissions + Len(es)
    BY <2>2 DEF Emit, Calls
  <2>5. o \in Owners
    BY EventTypes, CapAssumption DEF OwnerOf, Owners
  <2>. HIDE DEF es, o
  <2>6. o \in evidence' /\ evidence \subseteq evidence' /\ evidence' \subseteq Owners
    BY <1>1, <2>1, <2>5
  <2>7. \A i \in DOMAIN ctx'.list : \E j \in DOMAIN ctx.list : ctx'.list[i] = ctx.list[j]
    BY <1>6, <2>3 DEF Within
  <2>8. quarantined' = Accounted(ctx')
    BY <1>1, <1>3, <1>6, <2>3
  <2>9. \A s \in 0..Slots - 1 : ctx'.owners[s] = NoOwner \/ ctx'.owners[s] \in evidence'
    BY <1>1, <1>6, <2>3, <2>6
  <2>10. ASSUME NEW i \in DOMAIN es
         PROVE  es[i].id <= feeds' /\ \A pair \in emitted : pair[1].id # es[i].id
    <3>1. PICK j \in DOMAIN c.list : es[i] = c.list[j]
      BY <2>3 DEF Within
    <3>2. c.list[j].id <= feeds /\ c.list[j].id \in Nat
      BY <1>6
    <3>3. es[i].id <= feeds'
      BY <1>1, <1>2, <1>3, <3>1, <3>2
    <3>. QED
      BY <1>6, <3>1, <3>3
  <2>11. \A i \in DOMAIN es : /\ Matches(es[i], o) /\ Identified(es[i])
                              /\ es[i].id <= feeds'
                              /\ \A pair \in emitted : pair[1].id # es[i].id
                              /\ \A j \in DOMAIN ctx'.list : es[i].id # ctx'.list[j].id
    BY <2>3, <2>10
  <2>. QED
    BY <1>4, <1>7, <2>3, <2>4, <2>6, <2>7, <2>8, <2>9, <2>11, StepPreserves
<1>. QED
  BY <1>8, <1>9

\* perfetto_export_tick expires entries and writes none.
LEMMA TickStep ==
    ASSUME IInv, NEW now \in Times, PerfettoExportTick(now)
    PROVE  IInv'
<1>1. /\ feeds \in 0..MaxFeeds /\ feeds \in Nat /\ quarantined \in Nat /\ quarantined <= feeds
      /\ quarantined = Accounted(ctx) /\ broken = FALSE /\ open \in BOOLEAN
      /\ \A s \in 0..Slots - 1 : ctx.owners[s] = NoOwner \/ ctx.owners[s] \in evidence
  BY Numbers
<1>2. /\ ctx' = Expire(ctx, now) /\ broken' = broken /\ open' = open /\ feeds' = feeds
      /\ quarantined' = quarantined /\ evidence' = evidence /\ NoEmit
  BY DEF PerfettoExportTick, history, NoEmit
<1>3. now \in Nat
  BY TimeAssumption
<1>4. /\ ListOK(ctx') /\ InWindow(ctx') /\ ctx'.owners = ctx.owners
      /\ Accounted(ctx') = Accounted(ctx) /\ Within(ctx'.list, ctx.list)
  BY <1>2, <1>3, Expired
<1>5. \A i \in DOMAIN ctx'.list : \E j \in DOMAIN ctx.list : ctx'.list[i] = ctx.list[j]
  BY <1>4 DEF Within
<1>6. feeds' \in 0..MaxFeeds /\ feeds <= feeds' /\ quarantined' \in 0..feeds'
  BY <1>1, <1>2
<1>7. ~broken' /\ broken' \in BOOLEAN /\ open' \in BOOLEAN
  BY <1>1, <1>2
<1>8. quarantined' = Accounted(ctx')
  BY <1>1, <1>2, <1>4
<1>9. \A s \in 0..Slots - 1 : ctx'.owners[s] = NoOwner \/ ctx'.owners[s] \in evidence
  BY <1>1, <1>4
<1>. QED
  BY <1>2, <1>4, <1>5, <1>6, <1>7, <1>8, <1>9, QuietStep

\* perfetto_export_close: what is still held becomes unresolved.
LEMMA CloseStep ==
    ASSUME IInv, PerfettoExportClose
    PROVE  IInv'
<1>. DEFINE n == Len(ctx.list)
            r == RemoveHeads(ctx, n)
            o == [s \in 0..Slots - 1 |-> NoOwner]
            x == r.unresolved + n
<1>1. /\ feeds \in 0..MaxFeeds /\ feeds \in Nat /\ quarantined \in Nat /\ quarantined <= feeds
      /\ quarantined = Accounted(ctx) /\ broken = FALSE /\ open \in BOOLEAN
  BY Numbers
<1>2. /\ ctx' = [r EXCEPT !.unresolved = @ + n, !.owners = o]
      /\ broken' = broken /\ open' = FALSE /\ feeds' = feeds
      /\ quarantined' = quarantined /\ evidence' = evidence /\ NoEmit
  BY DEF PerfettoExportClose, history, NoEmit
<1>3. ListOK(ctx)
  BY DEF IInv
<1>4. /\ ctx.list \in Seq(Events) /\ n \in Nat /\ n \in 0..n
      /\ ctx.replayed \in Nat /\ ctx.expired \in Nat /\ ctx.capacity_dropped \in Nat
      /\ ctx.unresolved \in Nat
  BY <1>3 DEF ListOK, ContextType
<1>5. /\ ListOK(r) /\ Len(r.list) = n - n
      /\ r.replayed = ctx.replayed /\ r.expired = ctx.expired
      /\ r.capacity_dropped = ctx.capacity_dropped /\ r.unresolved = ctx.unresolved
  BY <1>3, <1>4, RemoveHeadsOK
<1>. HIDE DEF r
<1>6. r \in ContextType /\ r.list \in Seq(Events)
  BY <1>5 DEF ListOK, ContextType
<1>7. Len(r.list) = 0
  BY <1>4, <1>5
<1>8. DOMAIN r.list = {} /\ r.list = <<>>
  BY <1>6, <1>7
<1>9. NoOwner \in Owners
  BY CapAssumption DEF NoOwner, Owners, NoEntry
<1>10. x \in Nat /\ o \in [0..Slots - 1 -> Owners]
  BY <1>4, <1>5, <1>9
<1>11. ctx' = [r EXCEPT !.unresolved = x, !.owners = o]
  BY <1>2, <1>6 DEF ContextType
<1>. HIDE DEF x, o
<1>12. /\ ctx' \in ContextType /\ ctx'.list = r.list /\ ctx'.tail = r.tail
       /\ ctx'.count = r.count /\ ctx'.bytes = r.bytes /\ ctx'.owners = o
       /\ ctx'.unresolved = x /\ ctx'.replayed = r.replayed /\ ctx'.expired = r.expired
       /\ ctx'.capacity_dropped = r.capacity_dropped
  BY <1>6, <1>10, <1>11 DEF ContextType
<1>13. ListOK(ctx') /\ InWindow(ctx')
  BY <1>5, <1>8, <1>12 DEF ListOK, InWindow
<1>14. Accounted(ctx') = Accounted(ctx)
  <2>1. Accounted(ctx') = ctx.replayed + ctx.expired + ctx.capacity_dropped + (ctx.unresolved + n) + 0
    BY <1>5, <1>7, <1>12 DEF Accounted, x
  <2>2. Accounted(ctx) = ctx.replayed + ctx.expired + ctx.capacity_dropped + ctx.unresolved + n
    BY DEF Accounted
  <2>. HIDE DEF n
  <2>. QED
    BY <1>4, <2>1, <2>2
<1>15. \A i \in DOMAIN ctx'.list : \E j \in DOMAIN ctx.list : ctx'.list[i] = ctx.list[j]
  BY <1>8, <1>12
<1>16. feeds' \in 0..MaxFeeds /\ feeds <= feeds' /\ quarantined' \in 0..feeds'
  BY <1>1, <1>2
<1>17. ~broken' /\ broken' \in BOOLEAN /\ open' \in BOOLEAN
  BY <1>1, <1>2
<1>18. quarantined' = Accounted(ctx')
  BY <1>1, <1>2, <1>14
<1>19. \A s \in 0..Slots - 1 : ctx'.owners[s] = NoOwner \/ ctx'.owners[s] \in evidence
  BY <1>12 DEF o
<1>. QED
  BY <1>2, <1>13, <1>15, <1>16, <1>17, <1>18, <1>19, QuietStep

\* Every call keeps the invariant.
LEMMA NextIInv == IInv /\ [Next]_vars => IInv'
<1>. SUFFICES ASSUME IInv, [Next]_vars PROVE IInv'
  OBVIOUS
<1>1. ASSUME NEW e \in {x \in Events : x.id = feeds + 1}, FeedUnowned(e) PROVE IInv'
  BY <1>1, FeedUnownedStep
<1>2. ASSUME NEW e \in {x \in Events : x.id = feeds + 1 /\ x.size = Min(Sizes)},
             NEW socket \in BOOLEAN, FeedOwned(e, socket)
      PROVE  IInv'
  BY <1>2, FeedOwnedStep
<1>3. ASSUME NEW now \in Times, PerfettoExportTick(now) PROVE IInv'
  BY <1>3, TickStep
<1>4. ASSUME PerfettoExportClose PROVE IInv'
  BY <1>4, CloseStep
<1>5. ASSUME UNCHANGED vars PROVE IInv'
  BY <1>5 DEF vars, history, IInv, TypeOK, InvNumbers, InvEmitted, InvOwners, ReleasedByEvidence
<1>. QED
  BY <1>1, <1>2, <1>3, <1>4, <1>5 DEF Next

\* The invariant holds in every reachable state.
LEMMA SpecIInv == Spec => []IInv
<1>1. Init => IInv
  BY InitIInv
<1>2. IInv /\ [Next]_vars => IInv'
  BY NextIInv
<1>. QED
  BY <1>1, <1>2, PTL DEF Spec

-----------------------------------------------------------------------------

\* The fields of struct rx_context keep their types; no counter goes below
\* zero, however entries are removed.
THEOREM TypeCorrect == Spec => []TypeOK
<1>1. IInv => TypeOK
  BY DEF IInv
<1>. QED
  BY <1>1, SpecIInv, PTL

\* The list stays sorted and within both limits, its counters and its tail
\* pointer exact, and expiry at the head misses no stale entry; rx_context_feed
\* follows no NULL or freed pointer.
THEOREM ListStaysIntact == Spec => []ListIntact
<1>1. IInv => ListIntact
  BY DEF IInv, ListOK, InWindow, ListIntact, Sorted, LastId, Held
<1>. QED
  BY <1>1, SpecIInv, PTL

\* The four counters written at the end and the list account for every event
\* fed as pending, and none is written twice or written and held.
THEOREM PendingIsAccounted == Spec => []PendingAccounted
<1>1. IInv => PendingAccounted
  BY DEF IInv, PendingAccounted, Accounted, InvEmitted, EmittedIds
<1>. QED
  BY <1>1, SpecIInv, PTL

\* What is released is released by direct evidence of its own skb, within the
\* window, for any hash and any number of slots.
THEOREM OnlyEvidenceReleases == Spec => []ReleasedByEvidence
<1>1. IInv => ReleasedByEvidence
  BY DEF IInv
<1>. QED
  BY <1>1, SpecIInv, PTL

\* An entry stays in the list only while the table has no evidence for it.
THEOREM NothingWaitsInVain == Spec => []NoneWaitsInVain
<1>1. IInv => NoneWaitsInVain
  BY DEF IInv, ListOK, Held, NoneWaitsInVain
<1>. QED
  BY <1>1, SpecIInv, PTL

=============================================================================
