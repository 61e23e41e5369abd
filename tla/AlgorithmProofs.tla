-------------------------- MODULE AlgorithmProofs --------------------------
(***************************************************************************)
(* Facts about sequences that the proofs about headers, cookies and        *)
(* extractions need, and the proofs about the algorithms on URLs,          *)
(* documents and ratings.  Induction is over sets of numbers, which have   *)
(* least elements because strict inclusion of finite sets is well founded. *)
(***************************************************************************)
EXTENDS Algorithms, Subsequences, SequencesExt, FiniteSetTheorems, SequenceTheorems, WellFoundedInduction, TLAPS

\* Every set of numbers has a least one.
LEMMA LeastNumber ==
    ASSUME NEW T \in SUBSET Nat, T # {}
    PROVE  \E n \in T : \A m \in T : n <= m
<1> DEFINE Below(n) == {m \in Nat : m < n}
           B == {Below(n) : n \in T}
           R == StrictSubsetOrdering(Nat)
<1>1. B \subseteq FiniteSubsetsOf(Nat) /\ B # {}
  <2>1. ASSUME NEW n \in T PROVE Below(n) \in FiniteSubsetsOf(Nat)
    <3>1. IsFiniteSet(Below(n))
      BY FS_BoundedSetOfNaturals, n \in Nat, \A s \in Below(n) : s <= n, Below(n) \in SUBSET Nat
    <3> QED BY <3>1 DEF FiniteSubsetsOf
  <2> QED BY <2>1
<1>2. PICK b \in B : \A c \in B : ~(<<c, b>> \in R)
  <2>1. IsWellFoundedOn(R, FiniteSubsetsOf(Nat))
    BY FS_StrictSubsetOrderingWellFounded
  <2> HIDE DEF R, B
  <2> QED BY <1>1, <2>1, WFMin
<1>3. PICK n \in T : b = Below(n)
  BY <1>2
<1>4. ASSUME NEW m \in T, m < n PROVE FALSE
  <2>1. <<Below(m), Below(n)>> \in R
    <3>1. Below(m) \subseteq Below(n) /\ m \in Below(n) /\ m \notin Below(m)
      BY <1>4
    <3>2. Below(m) \in SUBSET Nat /\ Below(n) \in SUBSET Nat
      OBVIOUS
    <3> HIDE DEF Below
    <3> QED BY <3>1, <3>2 DEF StrictSubsetOrdering
  <2> QED BY <1>2, <1>3, <2>1
<1> QED BY <1>4

\* Induction, for properties that are given as sets.
LEMMA SetInduction ==
    ASSUME NEW T \in SUBSET Nat, 0 \in T, \A n \in T : n + 1 \in T
    PROVE  T = Nat
<1> SUFFICES ASSUME T # Nat PROVE FALSE
  OBVIOUS
<1>1. PICK n \in Nat \ T : \A m \in Nat \ T : n <= m
  BY LeastNumber
<1> QED BY <1>1, n # 0, n - 1 \in Nat, n - 1 \in T

\* Min returns the least number.
LEMMA LeastIs ==
    ASSUME NEW S \in SUBSET Nat
    PROVE  /\ S # {} => Documents!Min(S) \in S /\ \A d \in S : Documents!Min(S) <= d
           /\ \A c \in S : (\A d \in S : c <= d) => Documents!Min(S) = c
<1>1. ASSUME S # {} PROVE Documents!Min(S) \in S /\ \A d \in S : Documents!Min(S) <= d
  <2>1. \E c \in S : \A d \in S : c <= d
    BY <1>1, LeastNumber
  <2> QED BY <2>1, Zenon DEF Documents!Min
<1>2. ASSUME NEW c \in S, \A d \in S : c <= d PROVE Documents!Min(S) = c
  <2>1. PICK b \in S : b = Documents!Min(S) /\ \A d \in S : b <= d
    BY <1>1
  <2>2. b <= c /\ c <= b /\ b \in Nat /\ c \in Nat
    BY <1>2, <2>1
  <2> QED BY <2>1, <2>2
<1> QED BY <1>1, <1>2

\* The library's operator is the same here and there.
LEMMA SameLeast == ASSUME NEW S PROVE Addresses!Min(S) = Documents!Min(S)
  BY Zenon DEF Addresses!Min, Documents!Min

-----------------------------------------------------------------------------
(* Entries *)

\* f is the recursion of Entries, over N elements.
Solves(f, s, I, N) ==
    f = [n \in 0..N |-> IF n = 0 THEN <<>>
                        ELSE IF n \in I THEN Append(f[n - 1], s[n]) ELSE f[n - 1]]

\* The recursion of Entries has a solution.
LEMMA SolutionExists ==
    ASSUME NEW s, NEW I, NEW N \in Nat
    PROVE  \E f : Solves(f, s, I, N)
<1> DEFINE T == {k \in Nat : \E f : Solves(f, s, I, k)}
<1>1. 0 \in T
  <2>1. Solves([n \in 0..0 |-> <<>>], s, I, 0)
    BY DEF Solves
  <2> QED BY <2>1
<1>2. ASSUME NEW k \in T PROVE k + 1 \in T
  <2>1. PICK f : Solves(f, s, I, k)
    OBVIOUS
  <2> DEFINE g == [n \in 0..(k + 1) |-> IF n <= k THEN f[n]
                    ELSE IF n \in I THEN Append(f[n - 1], s[n]) ELSE f[n - 1]]
  <2>2. \A n \in 0..(k + 1) : n # 0 => g[n - 1] = f[n - 1]
    OBVIOUS
  <2>3. ASSUME NEW n \in 0..(k + 1)
        PROVE  g[n] = IF n = 0 THEN <<>>
                      ELSE IF n \in I THEN Append(g[n - 1], s[n]) ELSE g[n - 1]
    <3>1. CASE n <= k
      <4>1. n \in 0..k /\ g[n] = f[n]
        BY <3>1
      <4>2. f[n] = IF n = 0 THEN <<>>
                      ELSE IF n \in I THEN Append(f[n - 1], s[n]) ELSE f[n - 1]
        BY <2>1, <4>1 DEF Solves
      <4> HIDE DEF g
      <4> QED BY <2>2, <4>1, <4>2
    <3>2. CASE n = k + 1
      <4>1. n # 0 /\ g[n] = IF n \in I THEN Append(f[n - 1], s[n]) ELSE f[n - 1]
        BY <3>2
      <4> HIDE DEF g
      <4> QED BY <2>2, <4>1
    <3> QED BY <3>1, <3>2
  <2>4. g = [n \in 0..(k + 1) |-> g[n]]
    OBVIOUS
  <2> HIDE DEF g
  <2>5. Solves(g, s, I, k + 1)
    BY <2>3, <2>4 DEF Solves
  <2> QED BY <2>5
<1>3. T = Nat
  <2>1. T \in SUBSET Nat
    OBVIOUS
  <2> HIDE DEF T
  <2> QED BY <1>1, <1>2, <2>1, SetInduction
<1> QED BY <1>3

\* Entries is the last of the prefixes it goes through.
LEMMA EntriesByPrefix ==
    ASSUME NEW X, NEW s \in Seq(X), NEW I
    PROVE  \E f : Solves(f, s, I, Len(s)) /\ Entries(s, I) = f[Len(s)]
<1>1. Len(s) \in Nat
  OBVIOUS
<1>2. \E f : Solves(f, s, I, Len(s))
  BY <1>1, SolutionExists
<1> DEFINE taken == CHOOSE f : Solves(f, s, I, Len(s))
<1>3. Solves(taken, s, I, Len(s))
  BY <1>2, Zenon
<1>4. Entries(s, I) = taken[Len(s)]
  BY Zenon DEF Entries, Solves
<1> HIDE DEF taken
<1> QED BY <1>3, <1>4

\* t has the elements of s at the indexes of I, in their order; e says where each is from.
Embeds(e, t, s, I) ==
    /\ e \in [1..Len(t) -> I]
    /\ \A i \in I : \E k \in 1..Len(t) : e[k] = i
    /\ \A j, k \in 1..Len(t) : j < k => e[j] < e[k]
    /\ \A k \in 1..Len(t) : t[k] = s[e[k]]

\* One more index is taken.
LEMMA EmbedsOneMore ==
    ASSUME NEW X, NEW s \in Seq(X), NEW I \in SUBSET DOMAIN s, NEW t \in Seq(X), NEW e,
           Embeds(e, t, s, I), NEW i \in DOMAIN s, \A j \in I : j < i
    PROVE  \E d : Embeds(d, Append(t, s[i]), s, I \cup {i})
<1> DEFINE u == Append(t, s[i])
           d == [k \in 1..Len(u) |-> IF k = Len(u) THEN i ELSE e[k]]
           J == I \cup {i}
<1>1. /\ Len(t) \in Nat /\ Len(u) = Len(t) + 1 /\ u[Len(u)] = s[i]
      /\ \A k \in 1..Len(t) : u[k] = t[k] /\ k \in 1..Len(u) /\ k # Len(u)
  OBVIOUS
<1> HIDE DEF u
<1>2. \A k \in 1..Len(u) : k = Len(u) \/ k \in 1..Len(t)
  BY <1>1
<1>3. d[Len(u)] = i /\ \A k \in 1..Len(t) : d[k] = e[k]
  BY <1>1
<1>4. d \in [1..Len(u) -> J]
  BY <1>1, <1>2 DEF Embeds
<1>5. \A j \in J : \E k \in 1..Len(u) : d[k] = j
  BY <1>1, <1>3 DEF Embeds
<1>6. ASSUME NEW j \in 1..Len(u), NEW k \in 1..Len(u), j < k PROVE d[j] < d[k]
  <2>1. j \in 1..Len(t)
    BY <1>1, <1>6
  <2>2. CASE k = Len(u)
    BY <1>1, <1>3, <2>1, <2>2 DEF Embeds
  <2>3. CASE k \in 1..Len(t)
    BY <1>3, <1>6, <2>1, <2>3 DEF Embeds
  <2> QED BY <1>2, <2>2, <2>3
<1>7. \A k \in 1..Len(u) : u[k] = s[d[k]]
  BY <1>1, <1>2, <1>3 DEF Embeds
<1> HIDE DEF d, J
<1>8. Embeds(d, u, s, J)
  BY <1>4, <1>5, <1>6, <1>7 DEF Embeds
<1> QED BY <1>8 DEF u, J

\* What Entries is.
LEMMA EntriesAre ==
    ASSUME NEW X, NEW s \in Seq(X), NEW I \in SUBSET DOMAIN s
    PROVE  Entries(s, I) \in Seq(X) /\ \E e : Embeds(e, Entries(s, I), s, I)
<1>1. PICK f : Solves(f, s, I, Len(s)) /\ Entries(s, I) = f[Len(s)]
  BY EntriesByPrefix
<1> DEFINE Upto(n) == {i \in I : i <= n}
           T == {n \in Nat : n <= Len(s) =>
                   f[n] \in Seq(X) /\ \E e : Embeds(e, f[n], s, Upto(n))}
<1>2. Len(s) \in Nat /\ DOMAIN s = 1..Len(s)
  OBVIOUS
<1>3. 0 \in T
  <2>1. f[0] = <<>>
    BY <1>1, <1>2 DEF Solves
  <2>2. <<>> \in Seq(X) /\ Len(<<>>) = 0
    OBVIOUS
  <2>3. Upto(0) = {}
    BY <1>2
  <2>4. Embeds(<<>>, <<>>, s, {})
    <3>1. <<>> = [k \in 1..0 |-> s[k]]
      OBVIOUS
    <3>2. <<>> \in [1..0 -> {}]
      OBVIOUS
    <3> QED BY <2>2, <3>2 DEF Embeds
  <2> HIDE DEF Upto
  <2> QED BY <2>1, <2>2, <2>3, <2>4
<1>4. ASSUME NEW n \in T PROVE n + 1 \in T
  <2> HIDE DEF Upto
  <2> SUFFICES ASSUME n + 1 <= Len(s)
               PROVE  f[n + 1] \in Seq(X) /\ \E e : Embeds(e, f[n + 1], s, Upto(n + 1))
    OBVIOUS
  <2>1. n \in Nat /\ n + 1 \in DOMAIN s /\ n + 1 \in 0..Len(s) /\ (n + 1) - 1 = n /\ n + 1 # 0 /\ n <= Len(s)
    BY <1>2
  <2>2. PICK e : f[n] \in Seq(X) /\ Embeds(e, f[n], s, Upto(n))
    BY <2>1
  <2>3. f[n + 1] = IF n + 1 \in I THEN Append(f[n], s[n + 1]) ELSE f[n]
    BY <1>1, <2>1 DEF Solves
  <2>4. Upto(n) \in SUBSET DOMAIN s /\ \A j \in Upto(n) : j < n + 1
    BY <1>2, <2>1 DEF Upto
  <2>5. Upto(n + 1) = IF n + 1 \in I THEN Upto(n) \cup {n + 1} ELSE Upto(n)
    BY <1>2, <2>1 DEF Upto
  <2>6. s[n + 1] \in X
    BY <2>1
  <2>7. CASE n + 1 \in I
    <3>1. f[n + 1] \in Seq(X)
      BY <2>2, <2>3, <2>6, <2>7
    <3>2. \E d : Embeds(d, Append(f[n], s[n + 1]), s, Upto(n) \cup {n + 1})
      BY <2>1, <2>2, <2>4, EmbedsOneMore
    <3> QED BY <2>3, <2>5, <2>7, <3>1, <3>2
  <2>8. CASE n + 1 \notin I
    BY <2>2, <2>3, <2>5, <2>8
  <2> QED BY <2>7, <2>8
<1>5. T = Nat
  <2>1. T \in SUBSET Nat
    OBVIOUS
  <2> HIDE DEF T
  <2> QED BY <1>3, <1>4, <2>1, SetInduction
<1>6. f[Len(s)] \in Seq(X) /\ \E e : Embeds(e, f[Len(s)], s, Upto(Len(s)))
  <2>1. Len(s) \in T
    BY <1>2, <1>5
  <2> HIDE DEF Upto
  <2> QED BY <1>2, <2>1
<1>7. Upto(Len(s)) = I
  BY <1>2
<1> HIDE DEF Upto
<1> QED BY <1>1, <1>6, <1>7

\* No index, no element; one index, its element.
LEMMA FewEntries ==
    ASSUME NEW X, NEW s \in Seq(X)
    PROVE  /\ Entries(s, {}) = <<>>
           /\ \A i \in DOMAIN s : Entries(s, {i}) = <<s[i]>>
<1>1. Entries(s, {}) = <<>>
  <2>1. PICK e : Entries(s, {}) \in Seq(X) /\ Embeds(e, Entries(s, {}), s, {})
    BY EntriesAre
  <2>2. Len(Entries(s, {})) = 0
    BY <2>1 DEF Embeds
  <2> QED BY <2>1, <2>2
<1>2. ASSUME NEW i \in DOMAIN s PROVE Entries(s, {i}) = <<s[i]>>
  <2> DEFINE t == Entries(s, {i})
  <2>1. PICK e : t \in Seq(X) /\ Embeds(e, t, s, {i})
    BY EntriesAre
  <2> HIDE DEF t
  <2>2. Len(t) \in Nat /\ \A k \in 1..Len(t) : e[k] = i
    BY <2>1 DEF Embeds
  <2>3. PICK k \in 1..Len(t) : e[k] = i
    BY <2>1 DEF Embeds
  <2>4. Len(t) = 1
    <3>1. 1 \in 1..Len(t) /\ Len(t) \in 1..Len(t) /\ 1 <= Len(t)
      BY <2>2, <2>3
    <3>2. e[1] = i /\ e[Len(t)] = i /\ i \in Nat
      BY <2>2, <3>1
    <3>3. ~(1 < Len(t))
      BY <2>1, <3>1, <3>2 DEF Embeds
    <3>4. \A n \in Nat : 1 <= n /\ ~(1 < n) => n = 1
      OBVIOUS
    <3> QED BY <2>2, <3>1, <3>3, <3>4
  <2>5. t[1] = s[i]
    BY <2>1, <2>2, <2>4 DEF Embeds
  <2> QED BY <2>1, <2>4, <2>5 DEF t
<1> QED BY <1>1, <1>2

\* e says of which index each element of t is: one of I, each of I once.
Places(e, t, s, I) ==
    /\ e \in [DOMAIN t -> I]
    /\ \A i \in I : \E k \in DOMAIN t : e[k] = i
    /\ \A j, k \in DOMAIN t : e[j] = e[k] => j = k
    /\ \A k \in DOMAIN t : t[k] = s[e[k]]

\* Every element is an element of s at one of the indexes, each index has its place,
\* and no two places are of one index.
LEMMA EntriesByIndex ==
    ASSUME NEW X, NEW s \in Seq(X), NEW I \in SUBSET DOMAIN s
    PROVE  Entries(s, I) \in Seq(X) /\ \E e : Places(e, Entries(s, I), s, I)
<1> DEFINE t == Entries(s, I)
<1>1. PICK e : t \in Seq(X) /\ Embeds(e, t, s, I)
  BY EntriesAre
<1> HIDE DEF t
<1>2. DOMAIN t = 1..Len(t) /\ Len(t) \in Nat
  BY <1>1
<1>3. ASSUME NEW j \in DOMAIN t, NEW k \in DOMAIN t, e[j] = e[k] PROVE j = k
  <2>1. e[j] \in Nat /\ e[k] \in Nat
    BY <1>1, <1>2 DEF Embeds
  <2>2. ~(e[j] < e[k]) /\ ~(e[k] < e[j])
    BY <1>3, <2>1
  <2>3. ~(j < k) /\ ~(k < j)
    BY <1>1, <1>2, <2>2 DEF Embeds
  <2> QED BY <1>2, <2>3
<1>4. t \in Seq(X)
  BY <1>1
<1>5. /\ e \in [DOMAIN t -> I]
      /\ \A i \in I : \E k \in DOMAIN t : e[k] = i
      /\ \A k \in DOMAIN t : t[k] = s[e[k]]
  BY <1>1, <1>2 DEF Embeds
<1> QED BY <1>3, <1>4, <1>5 DEF Places, t

-----------------------------------------------------------------------------
(* FlattenSeq *)

\* f is the recursion of FlattenSeq, over N sequences.
Flattens(f, s, N) == f = [i \in 1..N |-> IF i = 1 THEN s[i] ELSE f[i - 1] \o s[i]]

\* The recursion of FlattenSeq has a solution.
LEMMA FlattensExists ==
    ASSUME NEW s, NEW N \in Nat
    PROVE  \E f : Flattens(f, s, N)
<1> DEFINE T == {k \in Nat : \E f : Flattens(f, s, k)}
<1>1. 0 \in T
  <2>1. Flattens([i \in 1..0 |-> <<>>], s, 0)
    BY DEF Flattens
  <2> QED BY <2>1
<1>2. ASSUME NEW k \in T PROVE k + 1 \in T
  <2>1. PICK f : Flattens(f, s, k)
    OBVIOUS
  <2> DEFINE g == [i \in 1..(k + 1) |-> IF i <= k THEN f[i]
                                       ELSE IF i = 1 THEN s[i] ELSE f[i - 1] \o s[i]]
  <2>2. \A i \in 1..(k + 1) : i # 1 => g[i - 1] = f[i - 1]
    OBVIOUS
  <2>3. ASSUME NEW i \in 1..(k + 1)
        PROVE  g[i] = IF i = 1 THEN s[i] ELSE g[i - 1] \o s[i]
    <3>1. CASE i <= k
      <4>1. i \in 1..k /\ g[i] = f[i]
        BY <3>1
      <4>2. f[i] = IF i = 1 THEN s[i] ELSE f[i - 1] \o s[i]
        BY <2>1, <4>1 DEF Flattens
      <4> HIDE DEF g
      <4> QED BY <2>2, <4>1, <4>2
    <3>2. CASE i = k + 1
      <4>1. g[i] = IF i = 1 THEN s[i] ELSE f[i - 1] \o s[i]
        BY <3>2
      <4> HIDE DEF g
      <4> QED BY <2>2, <4>1
    <3> QED BY <3>1, <3>2
  <2>4. g = [i \in 1..(k + 1) |-> g[i]]
    OBVIOUS
  <2> HIDE DEF g
  <2>5. Flattens(g, s, k + 1)
    BY <2>3, <2>4 DEF Flattens
  <2> QED BY <2>5
<1>3. T = Nat
  <2>1. T \in SUBSET Nat
    OBVIOUS
  <2> HIDE DEF T
  <2> QED BY <1>1, <1>2, <2>1, SetInduction
<1> QED BY <1>3

\* FlattenSeq is the last of the prefixes it goes through.
LEMMA FlattenByPrefix ==
    ASSUME NEW s, Len(s) \in Nat \ {0}
    PROVE  \E f : Flattens(f, s, Len(s)) /\ FlattenSeq(s) = f[Len(s)]
<1>1. \E f : Flattens(f, s, Len(s))
  BY FlattensExists
<1> DEFINE flatten == CHOOSE f : Flattens(f, s, Len(s))
<1>2. Flattens(flatten, s, Len(s))
  BY <1>1, Zenon
<1>3. FlattenSeq(s) = flatten[Len(s)]
  <2>1. Len(s) # 0
    OBVIOUS
  <2> QED BY <2>1, Zenon DEF FlattenSeq, Flattens
<1> HIDE DEF flatten
<1> QED BY <1>2, <1>3

\* What is put together has all the elements, and no others.
LEMMA FlattenMembers ==
    ASSUME NEW X, NEW N \in Nat, NEW s \in [1..N -> Seq(X)]
    PROVE  /\ FlattenSeq(s) \in Seq(X)
           /\ \A i \in 1..N : \A k \in DOMAIN s[i] :
                \E j \in DOMAIN FlattenSeq(s) : FlattenSeq(s)[j] = s[i][k]
<1>1. s \in Seq(Seq(X)) /\ Len(s) = N
  OBVIOUS
<1>2. CASE N = 0
  <2>1. FlattenSeq(s) = s /\ s = <<>>
    BY <1>1, <1>2 DEF FlattenSeq
  <2> QED BY <1>2, <2>1
<1>3. CASE N # 0
  <2>1. PICK f : Flattens(f, s, N) /\ FlattenSeq(s) = f[N]
    BY <1>1, <1>3, FlattenByPrefix
  <2>2. \A i \in 1..N : f[i] = IF i = 1 THEN s[i] ELSE f[i - 1] \o s[i]
    BY <2>1 DEF Flattens
  <2> DEFINE Has(t, i) == \A k \in DOMAIN s[i] : \E j \in DOMAIN t : t[j] = s[i][k]
             T == {n \in Nat : n \in 1..N => f[n] \in Seq(X) /\ \A i \in 1..n : Has(f[n], i)}
  <2>3. 0 \in T
    OBVIOUS
  <2>4. ASSUME NEW n \in T PROVE n + 1 \in T
    <3> DEFINE m == n + 1
    <3>1. n \in Nat /\ m \in Nat /\ m - 1 = n /\ (m \in 1..N /\ m # 1 => n \in 1..N)
          /\ 1..m = (1..n) \cup {m}
      OBVIOUS
    <3>2. n \in 1..N => f[n] \in Seq(X) /\ \A i \in 1..n : Has(f[n], i)
      OBVIOUS
    <3> HIDE DEF m, T
    <3>3. ASSUME m \in 1..N PROVE f[m] \in Seq(X) /\ \A i \in 1..m : Has(f[m], i)
      <4>1. s[m] \in Seq(X)
        BY <3>3
      <4>2. CASE m = 1
        <5>1. f[m] = s[m]
          BY <2>2, <3>3, <4>2
        <5>2. Has(s[m], m)
          OBVIOUS
        <5> QED BY <4>1, <4>2, <5>1, <5>2
      <4>3. CASE m # 1
        <5>1. f[n] \in Seq(X) /\ \A i \in 1..n : Has(f[n], i)
          BY <3>1, <3>2, <3>3, <4>3
        <5>2. f[m] = f[n] \o s[m]
          BY <2>2, <3>1, <3>3, <4>3
        <5> DEFINE t == f[n] \o s[m]
                   A == Len(f[n])
                   B == Len(s[m])
        <5>3. /\ A \in Nat /\ B \in Nat /\ DOMAIN f[n] = 1..A /\ DOMAIN s[m] = 1..B
              /\ t \in Seq(X) /\ DOMAIN t = 1..(A + B)
              /\ \A j \in 1..A : t[j] = f[n][j]
              /\ \A j \in 1..B : t[A + j] = s[m][j]
          <6>1. f[n] \in Seq(X) /\ s[m] \in Seq(X)
            BY <4>1, <5>1
          <6>2. /\ t \in Seq(X) /\ Len(t) = A + B
                /\ \A j \in 1..(A + B) : t[j] = IF j <= A THEN f[n][j] ELSE s[m][j - A]
            BY Zenon, <6>1, ConcatProperties
          <6>3. A \in Nat /\ B \in Nat /\ DOMAIN f[n] = 1..A /\ DOMAIN s[m] = 1..B
            BY <6>1
          <6>4. DOMAIN t = 1..(A + B)
            BY <6>2
          <6> HIDE DEF t, A, B
          <6>5. \A j \in 1..A : t[j] = f[n][j]
            BY <6>2, <6>3
          <6>6. ASSUME NEW j \in 1..B PROVE t[A + j] = s[m][j]
            <7>1. A + j \in 1..(A + B) /\ ~(A + j <= A) /\ (A + j) - A = j
              BY <6>3
            <7> QED BY <6>2, <7>1
          <6> QED BY <6>2, <6>3, <6>4, <6>5, <6>6
        <5> HIDE DEF t, A, B
        <5>4. \A i \in 1..n : Has(t, i)
          <6> SUFFICES ASSUME NEW i \in 1..n, NEW k \in DOMAIN s[i]
                       PROVE  \E j \in DOMAIN t : t[j] = s[i][k]
            OBVIOUS
          <6>1. PICK j \in DOMAIN f[n] : f[n][j] = s[i][k]
            BY <5>1
          <6>2. j \in DOMAIN t /\ t[j] = s[i][k]
            BY <5>3, <6>1
          <6> QED BY <6>2
        <5>5. Has(t, m)
          <6> SUFFICES ASSUME NEW k \in DOMAIN s[m] PROVE \E j \in DOMAIN t : t[j] = s[m][k]
            OBVIOUS
          <6>1. k \in 1..B /\ k \in Nat
            BY <5>3
          <6>2. A + k \in 1..(A + B)
            BY <5>3, <6>1
          <6> QED BY <5>3, <6>1, <6>2
        <5>6. f[m] = t
          BY <5>2 DEF t
        <5> HIDE DEF Has
        <5> QED BY <3>1, <5>3, <5>4, <5>5, <5>6
      <4> QED BY <4>2, <4>3
    <3> QED BY <3>1, <3>3 DEF m, T
  <2>5. T = Nat
    <3>1. T \in SUBSET Nat
      OBVIOUS
    <3> HIDE DEF T
    <3> QED BY <2>3, <2>4, <3>1, SetInduction
  <2>6. N \in T
    BY <2>5
  <2>7. f[N] \in Seq(X) /\ \A i \in 1..N : Has(f[N], i)
    BY <1>3, <2>6
  <2> HIDE DEF T
  <2> QED BY <2>1, <2>7
<1> QED BY <1>2, <1>3

-----------------------------------------------------------------------------
(***************************************************************************)
(* For any components, the views of a ParsedUrl cut each component out of  *)
(* the URL.  The argument is where a text stands in another one: a URL is  *)
(* five texts in a row, the host stands in the second behind as many bytes *)
(* as HostOffset counts, and what stands somewhere is what is cut out.     *)
(***************************************************************************)

\* Part is what a text has after its first at bytes.
Stands(text, at, part) ==
    \A i \in 1..Len(part) : at + i \in 1..Len(text) /\ text[at + i] = part[i]

\* A concatenation has both of its texts.
LEMMA ConcatenationHasBoth ==
    ASSUME NEW a \in Texts, NEW b \in Texts
    PROVE  /\ a \o b \in Texts /\ Len(a \o b) = Len(a) + Len(b)
           /\ Len(a) \in Nat /\ Len(b) \in Nat
           /\ Stands(a \o b, 0, a) /\ Stands(a \o b, Len(a), b)
<1>1. /\ a \o b \in Texts /\ Len(a \o b) = Len(a) + Len(b)
      /\ \A i \in 1 .. Len(a) + Len(b) : (a \o b)[i] = IF i <= Len(a) THEN a[i] ELSE b[i - Len(a)]
  BY ConcatProperties, ZenonT(60) DEF Texts
<1>2. Len(a) \in Nat /\ Len(b) \in Nat
  BY DEF Texts
<1> DEFINE ab == a \o b
<1> HIDE DEF ab
<1>3. /\ Len(ab) = Len(a) + Len(b)
      /\ \A i \in 1 .. Len(a) + Len(b) : ab[i] = IF i <= Len(a) THEN a[i] ELSE b[i - Len(a)]
  BY <1>1 DEF ab
<1>4. Stands(ab, 0, a)
  BY <1>2, <1>3 DEF Stands
<1>5. Stands(ab, Len(a), b)
  <2> SUFFICES ASSUME NEW i \in 1..Len(b)
               PROVE  Len(a) + i \in 1..Len(ab) /\ ab[Len(a) + i] = b[i]
    BY DEF Stands
  <2>1. Len(a) + i \in 1..(Len(a) + Len(b)) /\ ~(Len(a) + i <= Len(a)) /\ (Len(a) + i) - Len(a) = i
    BY <1>2
  <2> QED BY <1>3, <2>1
<1> QED BY <1>1, <1>2, <1>4, <1>5 DEF ab

\* What stands in a part of a text stands in the text.
LEMMA StandsWithin ==
    ASSUME NEW text \in Texts, NEW a \in Texts, NEW b \in Texts, NEW m \in Nat, NEW n \in Nat,
           Stands(text, m, a), Stands(a, n, b)
    PROVE  Stands(text, m + n, b)
<1> SUFFICES ASSUME NEW i \in 1..Len(b)
             PROVE  (m + n) + i \in 1..Len(text) /\ text[(m + n) + i] = b[i]
  BY DEF Stands
<1>1. n + i \in 1..Len(a) /\ a[n + i] = b[i]
  BY DEF Stands
<1>2. m + (n + i) \in 1..Len(text) /\ text[m + (n + i)] = a[n + i]
  BY <1>1 DEF Stands
<1>3. i \in Int /\ m + (n + i) = (m + n) + i
  BY DEF Texts
<1> QED BY <1>1, <1>2, <1>3

\* What stands somewhere is what is cut out there.
LEMMA StandsIsCut ==
    ASSUME NEW text \in Texts, NEW at \in Nat, NEW b \in Texts, Stands(text, at, b)
    PROVE  SubSeq(text, at + 1, at + Len(b)) = b
<1> DEFINE s == SubSeq(text, at + 1, at + Len(b))
<1>1. Len(b) \in Nat /\ Len(text) \in Nat
  BY DEF Texts
<1>2. \A i \in 1..Len(b) : at + i \in 1..Len(text) /\ text[at + i] = b[i]
  BY DEF Stands
<1>3. s \in Seq(0..255) /\ Len(s) = Len(b) /\ \A i \in 1..Len(b) : s[i] = text[at + i]
  <2>1. CASE Len(b) = 0
    BY <1>1, <2>1 DEF Texts
  <2>2. CASE Len(b) > 0
    <3>1. at + 1 \in 1..Len(text) /\ at + Len(b) \in 1..Len(text)
      BY <1>1, <1>2, <2>2
    <3>2. PICK n \in Nat : n = Len(b)
      BY <1>1
    <3>3. text \in Seq(0..255) /\ (at + n) - (at + 1) + 1 = n
      BY <3>2 DEF Texts
    <3>4. /\ SubSeq(text, at + 1, at + n) \in Seq(0..255)
          /\ Len(SubSeq(text, at + 1, at + n)) = n
          /\ \A i \in 1..n : SubSeq(text, at + 1, at + n)[i] = text[at + i]
      <4>0. PICK lo, hi \in Int : lo = at + 1 /\ hi = at + n
        OBVIOUS
      <4>1. lo <= hi /\ \A i \in lo..hi : text[i] \in 0..255
        <5>1. PICK m \in Nat : m = Len(text)
          BY <1>1
        <5>2. \A i \in 1..m : text[i] \in 0..255
          BY <3>3, <5>1
        <5>3. 1 <= lo /\ lo <= hi /\ hi <= m
          BY <2>2, <3>1, <3>2, <4>0, <5>1
        <5> QED BY <5>2, <5>3
      <4>2. \A i : (at + 1) + i - 1 = at + i \/ i \notin 1..n
        OBVIOUS
      <4> DEFINE c == SubSeq(text, lo, hi)
      <4>3. /\ c \in Seq(0..255)
            /\ Len(c) = IF lo <= hi THEN hi - lo + 1 ELSE 0
            /\ \A i \in 1..(hi - lo + 1) : c[i] = text[lo + i - 1]
        <5> DEFINE Byte == 0..255
        <5>1. \A i \in lo..hi : text[i] \in Byte
          BY <4>1
        <5> HIDE DEF Byte
        <5>2. /\ c \in Seq(Byte)
              /\ Len(c) = IF lo <= hi THEN hi - lo + 1 ELSE 0
              /\ \A i \in 1..(hi - lo + 1) : c[i] = text[lo + i - 1]
          BY <5>1, SubSeqProperties
        <5> QED BY <5>2 DEF Byte
      <4> HIDE DEF c
      <4>4. c \in Seq(0..255) /\ Len(c) = n /\ \A i \in 1..n : c[i] = text[at + i]
        BY <4>0, <4>1, <4>2, <4>3
      <4> QED BY <4>0, <4>4 DEF c
    <3> QED BY <3>2, <3>4
  <2> QED BY <1>1, <2>1, <2>2
<1> HIDE DEF s
<1>4. s = b
  BY <1>2, <1>3, SeqEqual DEF Texts
<1> QED BY <1>4 DEF s

\* Five texts stand one behind the other, and nothing else.
InARow(text, a, b, c, d, e) ==
    /\ text \in Texts /\ Len(text) = Len(a) + Len(b) + Len(c) + Len(d) + Len(e)
    /\ Stands(text, 0, a)
    /\ Stands(text, Len(a), b)
    /\ Stands(text, Len(a) + Len(b), c)
    /\ Stands(text, Len(a) + Len(b) + Len(c), d)
    /\ Stands(text, Len(a) + Len(b) + Len(c) + Len(d), e)

\* A concatenation of five texts.
LEMMA ConcatenationIsInARow ==
    ASSUME NEW a \in Texts, NEW b \in Texts, NEW c \in Texts, NEW d \in Texts, NEW e \in Texts
    PROVE  InARow((((a \o b) \o c) \o d) \o e, a, b, c, d, e)
<1>0. PICK text : text = (((a \o b) \o c) \o d) \o e
  OBVIOUS
<1>1. PICK ab \in Texts : ab = a \o b
  BY ConcatenationHasBoth
<1>2. PICK abc \in Texts : abc = ab \o c
  BY ConcatenationHasBoth
<1>3. PICK abcd \in Texts : abcd = abc \o d
  BY ConcatenationHasBoth
<1>4. text = abcd \o e /\ text \in Texts
  BY <1>0, <1>1, <1>2, <1>3, ConcatenationHasBoth, Zenon
<1>5. Len(ab) = Len(a) + Len(b) /\ Stands(ab, 0, a) /\ Stands(ab, Len(a), b) /\ Len(a) \in Nat /\ Len(b) \in Nat
  BY <1>1, ConcatenationHasBoth, Zenon
<1>6. Len(abc) = Len(ab) + Len(c) /\ Stands(abc, 0, ab) /\ Stands(abc, Len(ab), c) /\ Len(ab) \in Nat /\ Len(c) \in Nat
  BY <1>2, ConcatenationHasBoth, Zenon
<1>7. Len(abcd) = Len(abc) + Len(d) /\ Stands(abcd, 0, abc) /\ Stands(abcd, Len(abc), d) /\ Len(abc) \in Nat /\ Len(d) \in Nat
  BY <1>3, ConcatenationHasBoth, Zenon
<1>8. Len(text) = Len(abcd) + Len(e) /\ Stands(text, 0, abcd) /\ Stands(text, Len(abcd), e) /\ Len(abcd) \in Nat /\ Len(e) \in Nat
  BY <1>4, ConcatenationHasBoth, Zenon
<1>9. ASSUME NEW x \in Texts, NEW y \in Texts, NEW n \in Nat, Stands(text, 0, x), Stands(x, n, y)
      PROVE  Stands(text, n, y)
  <2>1. Stands(text, 0 + n, y)
    BY <1>4, <1>9, StandsWithin, 0 \in Nat, Zenon
  <2> QED BY <2>1, 0 + n = n
<1>10. Stands(text, 0, abc) /\ Stands(text, Len(abc), d)
  BY <1>7, <1>8, <1>9, 0 \in Nat, Zenon
<1>11. Stands(text, 0, ab) /\ Stands(text, Len(ab), c)
  BY <1>6, <1>9, <1>10, 0 \in Nat, Zenon
<1>12. Stands(text, 0, a) /\ Stands(text, Len(a), b)
  BY <1>5, <1>9, <1>11, 0 \in Nat, Zenon
<1>13. InARow(text, a, b, c, d, e)
  BY <1>4, <1>5, <1>6, <1>7, <1>8, <1>10, <1>11, <1>12 DEF InARow
<1> QED BY <1>0, <1>13, Zenon

\* What an optional part adds to a URL.
LEMMA OptIs ==
    ASSUME NEW part \in Optionals, NEW mark \in Texts, Len(mark) = 1
    PROVE  /\ Addresses!Opt(mark, part) \in Texts
           /\ part = <<>> => Len(Addresses!Opt(mark, part)) = 0
           /\ part # <<>> => /\ part[1] \in Texts /\ Len(part[1]) \in Nat
                            /\ Stands(Addresses!Opt(mark, part), 1, part[1])
                            /\ Len(Addresses!Opt(mark, part)) = 1 + Len(part[1])
<1>1. CASE part = <<>>
  BY <1>1 DEF Addresses!Opt, Texts
<1>2. CASE part # <<>>
  <2>1. PICK t \in Texts : part = <<t>>
    <3>1. part \in Seq(Texts) /\ Len(part) = 1
      <4>1. part \in Seq(Texts) /\ Len(part) <= 1
        BY DEF Optionals
      <4> QED BY <1>2, <4>1
    <3>2. part[1] \in Texts /\ part = <<part[1]>>
      BY <3>1
    <3> QED BY <3>2
  <2>2. part[1] = t
    BY <2>1
  <2>3. Addresses!Opt(mark, part) = mark \o t
    BY <1>2, <2>2 DEF Addresses!Opt
  <2> QED BY <1>2, <2>2, <2>3, ConcatenationHasBoth, Zenon
<1> QED BY <1>1, <1>2

\* A view is the component that stands at its offset.
LEMMA ViewIs ==
    ASSUME NEW u, Addresses!Href(u) \in Texts, NEW part, NEW at \in Nat, NEW b \in Texts, Stands(Addresses!Href(u), at, b),
           Addresses!Parts(u)[part] = [offset |-> at, length |-> Len(b)]
    PROVE  Addresses!View(u, part) = b
<1>1. SubSeq(Addresses!Href(u), at + 1, at + Len(b)) = b
  BY StandsIsCut
<1> QED BY <1>1 DEF Addresses!View
\* What stands between "//" and the host, of the length that HostOffset counts.
LEMMA CredentialsAre ==
    ASSUME NEW u \in Components
    PROVE  \E cred \in Texts :
             /\ cred = IF u.user = <<>> /\ u.password = <<>> THEN <<>>
                       ELSE (u.user \o (IF u.password = <<>> THEN <<>> ELSE <<58>> \o u.password)) \o <<64>>
             /\ Addresses!HostOffset(u) = (Len(u.scheme) + 3) + Len(cred)
<1>1. u.user \in Texts /\ u.password \in Texts
  BY DEF Components
<1>2. Len(u.scheme) \in Nat /\ Len(u.user) \in Nat /\ Len(u.password) \in Nat
  BY DEF Components, Texts
<1>3. <<>> \in Texts /\ <<58>> \in Texts /\ <<64>> \in Texts
  BY DEF Texts
<1>4. Len(<<>>) = 0 /\ Len(<<58>>) = 1 /\ Len(<<64>>) = 1
  OBVIOUS
<1>5. CASE u.user = <<>> /\ u.password = <<>>
  <2>1. Addresses!HostOffset(u) = (Len(u.scheme) + 3) + Len(<<>>)
    BY <1>2, <1>4, <1>5 DEF Addresses!HostOffset
  <2> QED BY <1>3, <1>5, <2>1, Zenon
<1>6. CASE ~(u.user = <<>> /\ u.password = <<>>)
  <2> DEFINE long == IF u.password = <<>> THEN 0 ELSE 1
  <2>1. PICK p \in Texts :
          /\ p = IF u.password = <<>> THEN <<>> ELSE <<58>> \o u.password
          /\ Len(p) = Len(u.password) + long
    <3>1. CASE u.password = <<>>
      BY <1>3, <1>4, <3>1
    <3>2. CASE u.password # <<>>
      <4>1. <<58>> \o u.password \in Texts /\ Len(<<58>> \o u.password) = Len(<<58>>) + Len(u.password)
        BY <1>1, <1>3, ConcatenationHasBoth, Zenon
      <4>2. PICK q \in Texts : q = <<58>> \o u.password /\ Len(q) = Len(<<58>>) + Len(u.password)
        BY <4>1, Zenon
      <4>3. Len(q) = Len(<<58>>) + Len(u.password)
        BY <4>2, Zenon
      <4>4. Len(q) = Len(u.password) + long
        BY <1>2, <1>4, <3>2, <4>3
      <4> QED BY <3>2, <4>2, <4>4, Zenon
    <3> QED BY <3>1, <3>2
  <2>2. Len(p) = Len(u.password) + long
    BY <2>1, Zenon
  <2>3. PICK up \in Texts : up = u.user \o p /\ Len(up) = Len(u.user) + Len(p)
    BY <1>1, ConcatenationHasBoth, Zenon
  <2>4. Len(up) = Len(u.user) + Len(p)
    BY <2>3, Zenon
  <2>5. PICK c \in Texts : c = up \o <<64>> /\ Len(c) = Len(up) + Len(<<64>>)
    BY <1>3, ConcatenationHasBoth, Zenon
  <2>6. Len(c) = Len(up) + Len(<<64>>)
    BY <2>5, Zenon
  <2>7. c = (u.user \o (IF u.password = <<>> THEN <<>> ELSE <<58>> \o u.password)) \o <<64>>
    BY <2>1, <2>3, <2>5, Zenon
  <2>8. c = IF u.user = <<>> /\ u.password = <<>> THEN <<>>
            ELSE (u.user \o (IF u.password = <<>> THEN <<>> ELSE <<58>> \o u.password)) \o <<64>>
    BY <1>6, <2>7, Zenon
  <2>9. Addresses!HostOffset(u) = (Len(u.scheme) + 3) + Len(c)
    <3>1. PICK lu, lp \in Nat : lu = Len(u.user) /\ lp = Len(u.password)
      BY <1>2
    <3>2. long \in {0, 1}
      OBVIOUS
    <3> HIDE DEF long
    <3>3. PICK l \in {0, 1} : l = long
      BY <3>2
    <3>4. Len(c) = (lu + (lp + l)) + 1
      BY <1>4, <2>2, <2>4, <2>6, <3>1, <3>3, Zenon
    <3>5. Addresses!HostOffset(u) = (Len(u.scheme) + 3) + (lu + lp + 1 + l)
      <4>1. Addresses!HostOffset(u) = (Len(u.scheme) + 3) + (Len(u.user) + Len(u.password) + 1 + long)
        BY <1>6 DEF Addresses!HostOffset, long
      <4> QED BY <3>1, <3>3, <4>1, Zenon
    <3>6. (lu + (lp + l)) + 1 = lu + lp + 1 + l
      OBVIOUS
    <3> QED BY <3>4, <3>5, <3>6, Zenon
  <2> QED BY <2>8, <2>9, Zenon
<1> QED BY <1>5, <1>6

\* The whole of a URL, as five texts one behind the other.
LEMMA HrefIs ==
    ASSUME NEW u \in Components
    PROVE  \E s, H, Q, F \in Texts :
             /\ Addresses!Href(u) = (((s \o H) \o u.path) \o Q) \o F
             /\ Len(s) = Len(u.scheme) + 1 /\ Stands(s, 0, u.scheme)
             /\ u.host # <<>> =>
                  /\ u.host[1] \in Texts
                  /\ \E n \in Nat : Addresses!HostOffset(u) = Len(s) + n /\ Stands(H, n, u.host[1])
             /\ Q = Addresses!Opt(<<63>>, u.query) /\ F = Addresses!Opt(<<35>>, u.fragment)
<1>1. /\ u.scheme \in Texts /\ u.host \in Optionals /\ u.port \in Optionals
      /\ u.query \in Optionals /\ u.fragment \in Optionals
  BY DEF Components
<1>2. Len(u.scheme) \in Nat
  BY DEF Components, Texts
<1>3. /\ <<58>> \in Texts /\ <<63>> \in Texts /\ <<35>> \in Texts /\ <<47, 47>> \in Texts /\ <<>> \in Texts
  BY DEF Texts
<1>4. Len(<<58>>) = 1 /\ Len(<<63>>) = 1 /\ Len(<<35>>) = 1 /\ Len(<<47, 47>>) = 2
  OBVIOUS
<1>5. PICK cred \in Texts :
        /\ cred = IF u.user = <<>> /\ u.password = <<>> THEN <<>>
                  ELSE (u.user \o (IF u.password = <<>> THEN <<>> ELSE <<58>> \o u.password)) \o <<64>>
        /\ Addresses!HostOffset(u) = (Len(u.scheme) + 3) + Len(cred)
  BY CredentialsAre, Zenon
<1>6. Addresses!HostOffset(u) = (Len(u.scheme) + 3) + Len(cred)
  BY <1>5, Zenon
<1>7. Len(cred) \in Nat
  BY DEF Texts
<1>8. /\ Addresses!Opt(<<58>>, u.port) \in Texts /\ Addresses!Opt(<<63>>, u.query) \in Texts /\ Addresses!Opt(<<35>>, u.fragment) \in Texts
  BY <1>1, <1>3, <1>4, OptIs
<1>9. PICK port \in Texts : port = Addresses!Opt(<<58>>, u.port)
  BY <1>8
<1>10. PICK s \in Texts : s = u.scheme \o <<58>> /\ Len(s) = Len(u.scheme) + Len(<<58>>) /\ Stands(s, 0, u.scheme)
  BY <1>1, <1>3, ConcatenationHasBoth, Zenon
<1>11. Len(s) = Len(u.scheme) + Len(<<58>>) /\ Stands(s, 0, u.scheme)
  BY <1>10, Zenon
<1>12. Len(s) = Len(u.scheme) + 1 /\ Addresses!HostOffset(u) = Len(s) + (2 + Len(cred)) /\ 2 + Len(cred) \in Nat
  <2>1. PICK ls, lc \in Nat : ls = Len(u.scheme) /\ lc = Len(cred)
    BY <1>2, <1>7
  <2>2. Len(s) = ls + 1 /\ Addresses!HostOffset(u) = (ls + 3) + lc
    BY <1>4, <1>6, <1>11, <2>1, Zenon
  <2>3. (ls + 3) + lc = (ls + 1) + (2 + lc) /\ 2 + lc \in Nat
    OBVIOUS
  <2> QED BY <2>1, <2>2, <2>3, Zenon
<1>13. PICK H \in Texts :
         /\ H = IF u.host = <<>> THEN <<>> ELSE ((<<47, 47>> \o cred) \o u.host[1]) \o port
         /\ u.host # <<>> => u.host[1] \in Texts /\ Stands(H, 2 + Len(cred), u.host[1])
  <2>1. CASE u.host = <<>>
    BY <1>3, <2>1, Zenon
  <2>2. CASE u.host # <<>>
    <3>1. PICK host \in Texts : host = u.host[1]
      BY <1>1, <1>3, <1>4, <2>2, OptIs
    <3>10. <<47, 47>> \o cred \in Texts /\ Len(<<47, 47>> \o cred) = Len(<<47, 47>>) + Len(cred)
      <4>1. <<47, 47>> \in Texts
        BY <1>3, Zenon
      <4> QED BY <4>1, ConcatenationHasBoth, Zenon
    <3>2. PICK x \in Texts : x = <<47, 47>> \o cred /\ Len(x) = Len(<<47, 47>>) + Len(cred)
      BY <3>10, Zenon
    <3>3. Len(x) = Len(<<47, 47>>) + Len(cred)
      BY <3>2, Zenon
    <3>4. PICK y \in Texts : y = x \o host /\ Stands(y, Len(x), host)
      BY ConcatenationHasBoth, Zenon
    <3>5. PICK h \in Texts : h = y \o port /\ Stands(h, 0, y)
      BY ConcatenationHasBoth, Zenon
    <3>6. Len(x) = 2 + Len(cred) /\ Len(x) \in Nat /\ 0 + Len(x) = Len(x)
      BY <1>4, <1>7, <3>3
    <3>7. Stands(h, 0 + Len(x), host)
      BY <3>4, <3>5, <3>6, 0 \in Nat, StandsWithin, Zenon
    <3>8. h = IF u.host = <<>> THEN <<>> ELSE ((<<47, 47>> \o cred) \o u.host[1]) \o port
      BY <2>2, <3>1, <3>2, <3>4, <3>5, Zenon
    <3>9. Stands(h, 2 + Len(cred), u.host[1]) /\ u.host[1] \in Texts
      BY <3>1, <3>6, <3>7, Zenon
    <3> QED BY <3>8, <3>9, Zenon
  <2> QED BY <2>1, <2>2
<1>14. PICK Q \in Texts : Q = Addresses!Opt(<<63>>, u.query)
  BY <1>8
<1>15. PICK F \in Texts : F = Addresses!Opt(<<35>>, u.fragment)
  BY <1>8
<1>16. Addresses!Href(u) = (((s \o H) \o u.path) \o Q) \o F
  <2>1. Addresses!Href(u) = ((((u.scheme \o <<58>>)
                        \o (IF u.host = <<>> THEN <<>>
                            ELSE ((<<47, 47>>
                                   \o (IF u.user = <<>> /\ u.password = <<>> THEN <<>>
                                       ELSE (u.user \o (IF u.password = <<>> THEN <<>> ELSE <<58>> \o u.password))
                                            \o <<64>>)) \o u.host[1]) \o Addresses!Opt(<<58>>, u.port)))
                       \o u.path) \o Addresses!Opt(<<63>>, u.query)) \o Addresses!Opt(<<35>>, u.fragment)
    BY Zenon DEF Addresses!Href
  <2> QED BY <1>5, <1>9, <1>10, <1>13, <1>14, <1>15, <2>1, Zenon
<1>17. u.host # <<>> =>
         /\ u.host[1] \in Texts
         /\ \E n \in Nat : Addresses!HostOffset(u) = Len(s) + n /\ Stands(H, n, u.host[1])
  BY <1>12, <1>13, Zenon
<1> QED BY <1>11, <1>12, <1>14, <1>15, <1>16, <1>17, Zenon

\* The views of a URL (ParsedUrl's scheme, host, path, query and fragment) are its components,
\* whichever of them there are, with or without credentials and a port.
THEOREM UrlsAreTheirParts ==
    \A u \in Components : Addresses!PartsAreExact(u)
<1> SUFFICES ASSUME NEW u \in Components PROVE Addresses!PartsAreExact(u)
  OBVIOUS
<1> DEFINE At(offset, n) == [offset |-> offset, length |-> n]
<1>1. /\ u.scheme \in Texts /\ u.path \in Texts /\ u.query \in Optionals /\ u.fragment \in Optionals
  BY DEF Components
<1>2. Len(u.scheme) \in Nat /\ Len(u.path) \in Nat
  BY <1>1 DEF Texts
<1>3. <<63>> \in Texts /\ <<35>> \in Texts /\ Len(<<63>>) = 1 /\ Len(<<35>>) = 1
  BY DEF Texts
<1>4. PICK s, H, Q, F \in Texts :
        /\ Addresses!Href(u) = (((s \o H) \o u.path) \o Q) \o F
        /\ Len(s) = Len(u.scheme) + 1 /\ Stands(s, 0, u.scheme)
        /\ u.host # <<>> =>
             /\ u.host[1] \in Texts
             /\ \E n \in Nat : Addresses!HostOffset(u) = Len(s) + n /\ Stands(H, n, u.host[1])
        /\ Q = Addresses!Opt(<<63>>, u.query) /\ F = Addresses!Opt(<<35>>, u.fragment)
  BY HrefIs, Zenon
<1>5. /\ Len(s) = Len(u.scheme) + 1 /\ Stands(s, 0, u.scheme)
      /\ u.host # <<>> =>
           /\ u.host[1] \in Texts
           /\ \E n \in Nat : Addresses!HostOffset(u) = Len(s) + n /\ Stands(H, n, u.host[1])
  BY <1>4, Zenon
<1>6. Len(s) \in Nat /\ Len(H) \in Nat
  BY DEF Texts
<1>7. PICK q, f \in Nat, mq, mf \in {0, 1} :
        /\ q = IF u.query = <<>> THEN 0 ELSE Len(u.query[1])
        /\ f = IF u.fragment = <<>> THEN 0 ELSE Len(u.fragment[1])
        /\ mq = IF u.query = <<>> THEN 0 ELSE 1
        /\ mf = IF u.fragment = <<>> THEN 0 ELSE 1
  BY <1>1, <1>3, OptIs
<1>8. /\ Len(Q) = mq + q
      /\ u.query # <<>> => u.query[1] \in Texts /\ Stands(Q, 1, u.query[1])
  <2>1. Q = Addresses!Opt(<<63>>, u.query)
    BY <1>4, Zenon
  <2> QED BY <1>1, <1>3, <1>7, <2>1, OptIs
<1>9. /\ Len(F) = mf + f
      /\ u.fragment # <<>> => u.fragment[1] \in Texts /\ Stands(F, 1, u.fragment[1])
  <2>1. F = Addresses!Opt(<<35>>, u.fragment)
    BY <1>4, Zenon
  <2> QED BY <1>1, <1>3, <1>7, <2>1, OptIs
<1>10. PICK href : href = Addresses!Href(u)
  OBVIOUS
<1>11. /\ href \in Texts /\ Len(href) = Len(s) + Len(H) + Len(u.path) + Len(Q) + Len(F)
       /\ Stands(href, 0, s)
       /\ Stands(href, Len(s), H)
       /\ Stands(href, Len(s) + Len(H), u.path)
       /\ Stands(href, Len(s) + Len(H) + Len(u.path), Q)
       /\ Stands(href, Len(s) + Len(H) + Len(u.path) + Len(Q), F)
  <2>1. href = (((s \o H) \o u.path) \o Q) \o F
    BY <1>4, <1>10, Zenon
  <2>2. InARow((((s \o H) \o u.path) \o Q) \o F, s, H, u.path, Q, F)
    BY <1>1, ConcatenationIsInARow, Zenon
  <2> QED BY <2>1, <2>2, Zenon DEF InARow
<1>12. PICK path, query, fragment \in Nat :
         /\ path = Len(s) + Len(H)
         /\ path = Len(href) - Len(u.path) - q - f - mq - mf
         /\ query = path + Len(u.path) + mq
         /\ fragment = query + q + mf
         /\ (path + Len(u.path)) + 1 = query \/ mq = 0
         /\ (path + Len(u.path) + Len(Q)) + 1 = fragment \/ mf = 0
         /\ path + Len(u.path) \in Nat /\ path + Len(u.path) + Len(Q) \in Nat
  <2>1. PICK ls, lh, lp \in Nat : ls = Len(s) /\ lh = Len(H) /\ lp = Len(u.path)
    BY <1>2, <1>6
  <2>2. PICK lq, lf \in Nat : lq = Len(Q) /\ lf = Len(F) /\ lq = mq + q /\ lf = mf + f
    BY <1>7, <1>8, <1>9
  <2>3. Len(href) = ls + lh + lp + lq + lf
    BY <1>11, <2>1, <2>2, Zenon
  <2> DEFINE path == ls + lh
             query == path + lp + mq
             fragment == query + q + mf
  <2>4. /\ path \in Nat /\ query \in Nat /\ fragment \in Nat
        /\ path = Len(href) - lp - q - f - mq - mf
        /\ (path + lp) + 1 = query \/ mq = 0
        /\ (path + lp + lq) + 1 = fragment \/ mf = 0
        /\ path + lp \in Nat /\ path + lp + lq \in Nat
    BY <2>2, <2>3
  <2> HIDE DEF path
  <2>5. path = Len(s) + Len(H)
    BY <2>1 DEF path
  <2> QED BY <2>1, <2>2, <2>4, <2>5, Zenon
<1>13. /\ Addresses!Parts(u)["scheme"] = At(0, Len(u.scheme))
       /\ Addresses!Parts(u)["host"] = IF u.host = <<>> THEN At(0, 0) ELSE At(Addresses!HostOffset(u), Len(u.host[1]))
       /\ Addresses!Parts(u)["path"] = At(path, Len(u.path))
       /\ Addresses!Parts(u)["query"] = At(query, q)
       /\ Addresses!Parts(u)["fragment"] = At(fragment, f)
  <2>1. Addresses!Parts(u) = [scheme |-> At(0, Len(u.scheme)),
                      host |-> IF u.host = <<>> THEN At(0, 0) ELSE At(Addresses!HostOffset(u), Len(u.host[1])),
                      path |-> At(path, Len(u.path)),
                      query |-> At(query, q),
                      fragment |-> At(fragment, f)]
    BY <1>7, <1>10, <1>12, Zenon DEF Addresses!Parts
  <2> HIDE DEF At
  <2> QED BY <2>1
<1>14. ASSUME NEW part, NEW at \in Nat, NEW b \in Texts, Stands(href, at, b),
              Addresses!Parts(u)[part] = At(at, Len(b))
       PROVE  Addresses!View(u, part) = b
  BY <1>10, <1>11, <1>14, ViewIs
<1>15. ASSUME NEW part, NEW at \in Nat, Addresses!Parts(u)[part] = At(at, 0)
       PROVE  Addresses!View(u, part) = <<>>
  <2>1. Stands(href, at, <<>>) /\ <<>> \in Texts /\ Len(<<>>) = 0
    BY DEF Stands, Texts
  <2> QED BY <1>14, <1>15, <2>1, Zenon
<1>16. ASSUME NEW a \in Texts, NEW b \in Texts, NEW m \in Nat, NEW n \in Nat, Stands(href, m, a), Stands(a, n, b)
       PROVE  Stands(href, m + n, b)
  BY <1>11, <1>16, StandsWithin, Zenon
<1>17. Addresses!View(u, "scheme") = u.scheme
  <2>1. Stands(href, 0 + 0, u.scheme)
    BY <1>1, <1>5, <1>11, <1>16, 0 \in Nat, Zenon
  <2>2. Stands(href, 0, u.scheme)
    BY <2>1, 0 + 0 = 0, Zenon
  <2> QED BY <1>1, <1>13, <1>14, <2>2, 0 \in Nat, Zenon
<1>18. Addresses!View(u, "path") = u.path
  <2>1. Stands(href, path, u.path)
    <3>1. Stands(href, Len(s) + Len(H), u.path) /\ path = Len(s) + Len(H)
      BY <1>11, <1>12
    <3> QED BY <3>1, Zenon
  <2>2. path \in Nat
    BY <1>12
  <2>3. Addresses!Parts(u)["path"] = At(path, Len(u.path))
    BY <1>13
  <2>4. u.path \in Texts
    BY <1>1
  <2> QED BY <1>14, <2>1, <2>2, <2>3, <2>4, ZenonT(30)
<1>19. Addresses!View(u, "host") = IF u.host = <<>> THEN <<>> ELSE u.host[1]
  <2>1. CASE u.host = <<>>
    BY <1>13, <1>15, <2>1
  <2>2. CASE u.host # <<>>
    <3>1. PICK n \in Nat : Addresses!HostOffset(u) = Len(s) + n /\ Stands(H, n, u.host[1])
      BY <1>5, <2>2, Zenon
    <3>2. Stands(href, Addresses!HostOffset(u), u.host[1])
      BY <1>5, <1>6, <1>11, <1>16, <2>2, <3>1, Zenon
    <3>3. Addresses!HostOffset(u) \in Nat
      BY <1>6, <3>1
    <3> QED BY <1>5, <1>13, <1>14, <2>2, <3>2, <3>3, Zenon
  <2> QED BY <2>1, <2>2
<1>20. Addresses!View(u, "query") = IF u.query = <<>> THEN <<>> ELSE u.query[1]
  <2>1. CASE u.query = <<>>
    BY <1>7, <1>13, <1>15, <2>1, Zenon
  <2>2. CASE u.query # <<>>
    <3>1. (path + Len(u.path)) + 1 = query /\ q = Len(u.query[1])
      <4>1. mq = 1 /\ q = Len(u.query[1])
        BY <1>7, <2>2, Zenon
      <4>2. (path + Len(u.path)) + 1 = query \/ mq = 0
        BY <1>12, Zenon
      <4>3. 1 # 0
        OBVIOUS
      <4> QED BY <4>1, <4>2, <4>3, Zenon
    <3>2. Stands(href, path + Len(u.path), Q)
      BY <1>11, <1>12, Zenon
    <3>3. Stands(href, query, u.query[1])
      <4>1. path + Len(u.path) \in Nat /\ Q \in Texts /\ u.query[1] \in Texts /\ Stands(Q, 1, u.query[1])
        BY <1>8, <1>12, <2>2, Zenon
      <4>2. Stands(href, (path + Len(u.path)) + 1, u.query[1])
        <5>1. PICK m \in Nat : m = path + Len(u.path)
          BY <4>1, Zenon
        <5>2. Stands(href, m, Q)
          BY <3>2, <5>1, Zenon
        <5>3. Stands(href, m + 1, u.query[1])
          BY <1>16, <4>1, <5>2, 1 \in Nat, Zenon
        <5> QED BY <5>1, <5>3, Zenon
      <4> QED BY <3>1, <4>2, Zenon
    <3> QED BY <1>8, <1>13, <1>14, <2>2, <3>1, <3>3, Zenon
  <2> QED BY <2>1, <2>2
<1>21. Addresses!View(u, "fragment") = IF u.fragment = <<>> THEN <<>> ELSE u.fragment[1]
  <2>1. CASE u.fragment = <<>>
    BY <1>7, <1>13, <1>15, <2>1, Zenon
  <2>2. CASE u.fragment # <<>>
    <3>1. (path + Len(u.path) + Len(Q)) + 1 = fragment /\ f = Len(u.fragment[1])
      <4>1. mf = 1 /\ f = Len(u.fragment[1])
        BY <1>7, <2>2, Zenon
      <4>2. (path + Len(u.path) + Len(Q)) + 1 = fragment \/ mf = 0
        BY <1>12, Zenon
      <4>3. 1 # 0
        OBVIOUS
      <4> QED BY <4>1, <4>2, <4>3, Zenon
    <3>2. Stands(href, path + Len(u.path) + Len(Q), F)
      BY <1>11, <1>12, Zenon
    <3>3. Stands(href, fragment, u.fragment[1])
      <4>1. path + Len(u.path) + Len(Q) \in Nat /\ u.fragment[1] \in Texts /\ Stands(F, 1, u.fragment[1])
        BY <1>9, <1>12, <2>2, Zenon
      <4>2. Stands(href, (path + Len(u.path) + Len(Q)) + 1, u.fragment[1])
        BY <1>16, <3>2, <4>1, 1 \in Nat, Zenon
      <4> QED BY <3>1, <4>2, Zenon
    <3> QED BY <1>9, <1>13, <1>14, <2>2, <3>1, <3>3, Zenon
  <2> QED BY <2>1, <2>2
<1> QED BY <1>17, <1>18, <1>19, <1>20, <1>21 DEF Addresses!PartsAreExact

-----------------------------------------------------------------------------
(***************************************************************************)
(* For any bytes, what is encoded decodes to what it was.  A text encoded  *)
(* is put together of pieces, one for each byte, and its decoding is read  *)
(* piece by piece (DecodingStep); a percent sign that a URI keeps starts   *)
(* an escape before the encoding exactly if it starts one after it.        *)
(***************************************************************************)

\* The library's operator is the same here and there.
LEMMA FlattenIs == ASSUME NEW s PROVE Addresses!FlattenSeq(s) = FlattenSeq(s)
  BY Zenon DEF Addresses!FlattenSeq, FlattenSeq

\* A recursion that goes on from later numbers, and stops behind L at the latest; it puts a text
\* together on the way, or looks for something.
Recurses(f, Stop, head, next, joins) ==
    f = [i \in Nat |-> IF i \in Stop THEN head[i] ELSE IF joins THEN head[i] \o f[next[i]] ELSE f[next[i]]]

LEMMA RecursionExists ==
    ASSUME NEW Stop, NEW head, NEW next, NEW joins, NEW L \in Nat,
           \A i \in Nat : i > L => i \in Stop,
           \A i \in Nat : next[i] \in Nat /\ next[i] > i
    PROVE  \E f : Recurses(f, Stop, head, next, joins)
<1> DEFINE From(f, i) == IF i \in Stop THEN head[i] ELSE IF joins THEN head[i] \o f[next[i]] ELSE f[next[i]]
           Has(f, k) == \A i \in Nat : i + k > L => f[i] = From(f, i)
           T == {k \in Nat : \E f : Has(f, k)}
<1>1. 0 \in T
  <2> DEFINE f == [i \in Nat |-> head[i]]
  <2>1. Has(f, 0)
    OBVIOUS
  <2> QED BY <2>1
<1>2. ASSUME NEW k \in T PROVE k + 1 \in T
  <2>1. PICK f : Has(f, k)
    OBVIOUS
  <2> DEFINE g == [i \in Nat |-> IF i + k > L THEN f[i] ELSE From(f, i)]
  <2>2. ASSUME NEW i \in Nat, i + (k + 1) > L PROVE g[i] = From(g, i)
    <3>1. next[i] \in Nat /\ next[i] + k > L
      BY <2>2
    <3>2. g[next[i]] = f[next[i]]
      BY <3>1
    <3>3. From(g, i) = From(f, i)
      <4> HIDE DEF g
      <4> QED BY <3>2
    <3>4. g[i] = From(f, i)
      <4> HIDE DEF From
      <4> QED BY <2>1
    <3> HIDE DEF g, From
    <3> QED BY <3>3, <3>4
  <2> HIDE DEF g, From
  <2>3. Has(g, k + 1)
    BY <2>2
  <2> HIDE DEF Has
  <2> QED BY <2>3
<1>3. T = Nat
  <2>1. T \in SUBSET Nat
    OBVIOUS
  <2> HIDE DEF T
  <2> QED BY <1>1, <1>2, <2>1, SetInduction
<1>4. PICK f : Has(f, L + 1)
  BY <1>3
<1> DEFINE g == [i \in Nat |-> f[i]]
<1>5. ASSUME NEW i \in Nat PROVE g[i] = From(g, i)
  <2>1. f[i] = From(f, i)
    BY <1>4
  <2>2. From(g, i) = From(f, i)
    OBVIOUS
  <2> HIDE DEF From
  <2> QED BY <2>1, <2>2
<1>6. g = [i \in Nat |-> g[i]]
  OBVIOUS
<1> HIDE DEF g
<1>7. Recurses(g, Stop, head, next, joins)
  BY <1>5, <1>6 DEF Recurses
<1> QED BY <1>7

\* The first n of the pieces make up t: piece i stands behind p[i - 1] elements.
Pieces(p, t, c, n) ==
    /\ p \in [0..n -> Nat] /\ p[0] = 0 /\ p[n] = Len(t)
    /\ \A i \in 1..n : p[i] = p[i - 1] + Len(c[i]) /\ p[i] <= p[n]
    /\ \A i \in 1..n : \A k \in 1..Len(c[i]) : t[p[i - 1] + k] = c[i][k]

\* One more piece.
LEMMA OneMorePiece ==
    ASSUME NEW X, NEW n \in Nat, NEW c, NEW t \in Seq(X), NEW p, Pieces(p, t, c, n),
           \A i \in 1..n : c[i] \in Seq(X), NEW d \in Seq(X), c[n + 1] = d
    PROVE  t \o d \in Seq(X) /\ \E q : Pieces(q, t \o d, c, n + 1)
<1> DEFINE u == t \o d
           q == [i \in 0..(n + 1) |-> IF i = n + 1 THEN p[n] + Len(d) ELSE p[i]]
<1>1. /\ u \in Seq(X) /\ Len(u) = Len(t) + Len(d)
      /\ \A j \in 1..(Len(t) + Len(d)) : u[j] = IF j <= Len(t) THEN t[j] ELSE d[j - Len(t)]
  BY ConcatProperties, ZenonT(30)
<1>2. Len(t) \in Nat /\ Len(d) \in Nat /\ Len(c[n + 1]) = Len(d)
  OBVIOUS
<1>3. /\ \A i \in 0..n : q[i] = p[i] /\ p[i] \in Nat
      /\ q[n + 1] = p[n] + Len(d) /\ q \in [0..(n + 1) -> Nat]
      /\ p[n] = Len(t) /\ p[0] = 0
  BY <1>2 DEF Pieces
<1>4. \A i \in 1..n : i \in 0..n /\ i - 1 \in 0..n /\ (n + 1) - 1 = n /\ n \in 0..n
  OBVIOUS
<1> HIDE DEF u, q
<1>5. ASSUME NEW i \in 1..(n + 1)
      PROVE  q[i] = q[i - 1] + Len(c[i]) /\ q[i] <= q[n + 1]
  <2>1. CASE i = n + 1
    <3>1. i - 1 = n /\ n \in 0..n
      BY <2>1
    <3>2. q[n] = p[n] /\ q[n + 1] = p[n] + Len(d) /\ Len(c[n + 1]) = Len(d) /\ q[n + 1] \in Nat
      BY <1>2, <1>3, <3>1
    <3>3. q[i - 1] = q[n]
      BY <3>1, Zenon
    <3>4. q[i] = q[n + 1] /\ Len(c[i]) = Len(c[n + 1])
      BY <2>1, Zenon
    <3> QED BY <3>2, <3>3, <3>4
  <2>2. CASE i # n + 1
    <3>1. i \in 1..n /\ q[i - 1] = p[i - 1] /\ q[i] = p[i]
      BY <1>3, <2>2
    <3>2. p[i] = p[i - 1] + Len(c[i]) /\ p[i] <= p[n] /\ p[i] \in Nat /\ p[n] \in Nat
      BY <1>3, <3>1 DEF Pieces
    <3> QED BY <1>2, <1>3, <3>1, <3>2
  <2> QED BY <2>1, <2>2
<1>6. ASSUME NEW i \in 1..(n + 1), NEW k \in 1..Len(c[i]) PROVE u[q[i - 1] + k] = c[i][k]
  <2>1. CASE i = n + 1
    <3>1. q[i - 1] = Len(t) /\ k \in 1..Len(d) /\ c[i][k] = d[k]
      <4>1. i - 1 = n /\ n \in 0..n
        BY <2>1
      <4>2. q[i - 1] = p[n]
        BY <1>3, <4>1
      <4>3. c[i] = d
        BY <2>1, Zenon
      <4> QED BY <1>3, <4>2, <4>3
    <3>2. Len(t) + k \in 1..(Len(t) + Len(d)) /\ ~(Len(t) + k <= Len(t)) /\ (Len(t) + k) - Len(t) = k
      BY <1>2, <3>1
    <3> QED BY <1>1, <3>1, <3>2
  <2>2. CASE i # n + 1
    <3>1. i \in 1..n /\ q[i - 1] = p[i - 1] /\ i - 1 \in 0..n
      BY <1>3, <2>2
    <3>2. c[i] \in Seq(X) /\ Len(c[i]) \in Nat
      BY <3>1
    <3>3. /\ t[p[i - 1] + k] = c[i][k] /\ p[i] = p[i - 1] + Len(c[i]) /\ p[i] <= p[n]
          /\ p[i] \in Nat /\ p[i - 1] \in Nat /\ p[n] = Len(t)
      <4>1. \A k1 \in 1..Len(c[i]) : t[p[i - 1] + k1] = c[i][k1]
        BY <3>1, Zenon DEF Pieces
      <4>2. p[i] = p[i - 1] + Len(c[i]) /\ p[i] <= p[n] /\ p[n] = Len(t) /\ p \in [0..n -> Nat]
        BY <3>1, Zenon DEF Pieces
      <4>3. i \in 0..n /\ i - 1 \in 0..n /\ n \in 0..n
        BY <3>1
      <4>4. p[i] \in Nat /\ p[i - 1] \in Nat
        BY <4>2, <4>3
      <4> QED BY <4>1, <4>2, <4>4
    <3>4. k \in Nat /\ 1 <= k /\ k <= Len(c[i])
      BY <3>2
    <3>5. \A a, l, b, z, e \in Nat : b = a + l /\ b <= z /\ k <= l => a + k \in 1..(z + e) /\ a + k <= z
      BY <3>4
    <3>6. p[i - 1] + k \in 1..(Len(t) + Len(d)) /\ p[i - 1] + k <= Len(t)
      BY <1>2, <3>2, <3>3, <3>4, <3>5
    <3> QED BY <1>1, <3>1, <3>3, <3>6
  <2> QED BY <2>1, <2>2
<1>7. Pieces(q, u, c, n + 1)
  <2>1. q[0] = 0
    BY <1>3
  <2>2. q[n + 1] = Len(u)
    BY <1>1, <1>3
  <2> QED BY <1>3, <1>5, <1>6, <2>1, <2>2 DEF Pieces
<1> QED BY <1>1, <1>7 DEF u

\* What is put together of pieces: they stand one behind the other in it.
LEMMA FlattenPieces ==
    ASSUME NEW X, NEW N \in Nat, NEW c \in [1..N -> Seq(X)]
    PROVE  FlattenSeq(c) \in Seq(X) /\ \E p : Pieces(p, FlattenSeq(c), c, N)
<1>1. c \in Seq(Seq(X)) /\ Len(c) = N
  OBVIOUS
<1>2. /\ <<>> \in Seq(X) /\ Len(<<>>) = 0
      /\ Pieces([i \in 0..0 |-> 0], <<>>, c, 0)
  BY DEF Pieces
<1>3. CASE N = 0
  <2>1. c = <<>> /\ FlattenSeq(c) = c
    BY <1>1, <1>3 DEF FlattenSeq
  <2> QED BY <1>2, <1>3, <2>1
<1>4. CASE N # 0
  <2>1. PICK f : Flattens(f, c, N) /\ FlattenSeq(c) = f[N]
    BY <1>1, <1>4, FlattenByPrefix
  <2> DEFINE Made(n, t) == t \in Seq(X) /\ \E p : Pieces(p, t, c, n)
             T == {n \in Nat : n <= N => \E t : Made(n, t) /\ (n # 0 => t = f[n])}
  <2>2. 0 \in T
    BY <1>2
  <2>3. ASSUME NEW n \in T PROVE n + 1 \in T
    <3> SUFFICES ASSUME n + 1 <= N PROVE \E t : Made(n + 1, t) /\ t = f[n + 1]
      OBVIOUS
    <3>1. n \in Nat /\ n <= N /\ n + 1 \in 1..N /\ (n + 1) - 1 = n /\ \A i \in 1..n : i \in 1..N
      OBVIOUS
    <3>2. PICK t : Made(n, t) /\ (n # 0 => t = f[n])
      BY <3>1
    <3>3. PICK d \in Seq(X) : c[n + 1] = d
      BY <3>1
    <3>4. \A i \in 1..n : c[i] \in Seq(X)
      BY <3>1
    <3>5. PICK p : t \in Seq(X) /\ Pieces(p, t, c, n)
      BY <3>2
    <3>6. t \o d \in Seq(X) /\ \E q : Pieces(q, t \o d, c, n + 1)
      BY <3>1, <3>3, <3>4, <3>5, OneMorePiece
    <3>7. t \o d = f[n + 1]
      <4>1. f[n + 1] = IF n + 1 = 1 THEN c[n + 1] ELSE f[n] \o c[n + 1]
        BY <2>1, <3>1 DEF Flattens
      <4>2. CASE n = 0
        <5>1. t = <<>>
          BY <3>5, <4>2 DEF Pieces
        <5> QED BY <3>3, <4>1, <4>2, <5>1
      <4>3. CASE n # 0
        <5>1. f[n + 1] = f[n] \o c[n + 1]
          <6>1. n + 1 # 1
            BY <3>1, <4>3
          <6> QED BY <4>1, <6>1, Zenon
        <5>2. f[n] = t /\ c[n + 1] = d
          BY <3>2, <3>3, <4>3
        <5> QED BY <5>1, <5>2, Zenon
      <4> QED BY <4>2, <4>3
    <3> QED BY <3>6, <3>7
  <2>4. T = Nat
    <3>1. T \in SUBSET Nat
      OBVIOUS
    <3> HIDE DEF T
    <3> QED BY <2>2, <2>3, <3>1, SetInduction
  <2>5. N \in T
    BY <2>4
  <2>6. PICK t : Made(N, t) /\ t = f[N]
    BY <1>4, <2>5
  <2> QED BY <2>1, <2>6
<1> QED BY <1>3, <1>4

Byte == 0..255

\* A byte as the encoder writes it.
Piece(c, kept) == IF c \in kept THEN <<c>> ELSE Addresses!Escaped(c)

\* A hexadecimal digit is one of the bytes no encoder escapes, and reads as what it was written for.
LEMMA HexIs ==
    ASSUME NEW n \in 0..15
    PROVE  /\ Addresses!Hex(n) \in Addresses!Unreserved /\ Addresses!Hex(n) # Addresses!Percent
           /\ Addresses!HexDigit(Addresses!Hex(n)) = n
  BY DEF Addresses!Hex, Addresses!HexDigit, Addresses!Unreserved, Addresses!Digits, Addresses!Upper, Addresses!Percent

LEMMA HexDigitsAreKept ==
    ASSUME NEW c, Addresses!HexDigit(c) >= 0
    PROVE  c \in Addresses!Unreserved /\ c # Addresses!Percent
  BY DEF Addresses!HexDigit, Addresses!Unreserved, Addresses!Digits, Addresses!Upper, Addresses!LowerCase, Addresses!Percent

\* An escape has three bytes, which read as the byte it stands for.
LEMMA EscapedIs ==
    ASSUME NEW c \in Byte
    PROVE  /\ Addresses!Escaped(c) \in Seq(Addresses!Unreserved \cup {Addresses!Percent}) /\ Len(Addresses!Escaped(c)) = 3
           /\ Addresses!Escaped(c)[1] = Addresses!Percent
           /\ Addresses!HexDigit(Addresses!Escaped(c)[2]) >= 0 /\ Addresses!HexDigit(Addresses!Escaped(c)[3]) >= 0
           /\ Addresses!HexDigit(Addresses!Escaped(c)[2]) * 16 + Addresses!HexDigit(Addresses!Escaped(c)[3]) = c
<1>1. PICK a \in 0..15 : a = c \div 16
  BY DEF Byte
<1>2. PICK b \in 0..15 : b = c % 16
  BY DEF Byte
<1>3. a * 16 + b = c
  BY <1>1, <1>2 DEF Byte
<1>4. Addresses!Escaped(c) = <<Addresses!Percent, Addresses!Hex(a), Addresses!Hex(b)>>
  BY <1>1, <1>2 DEF Addresses!Escaped
<1>5. /\ Addresses!Hex(a) \in Addresses!Unreserved /\ Addresses!Hex(b) \in Addresses!Unreserved
      /\ Addresses!HexDigit(Addresses!Hex(a)) = a /\ Addresses!HexDigit(Addresses!Hex(b)) = b
  BY HexIs
<1>6. /\ Addresses!Escaped(c) \in Seq(Addresses!Unreserved \cup {Addresses!Percent}) /\ Len(Addresses!Escaped(c)) = 3
      /\ Addresses!Escaped(c)[1] = Addresses!Percent /\ Addresses!Escaped(c)[2] = Addresses!Hex(a) /\ Addresses!Escaped(c)[3] = Addresses!Hex(b)
  BY <1>4, <1>5
<1>7. a >= 0 /\ b >= 0
  OBVIOUS
<1> QED BY <1>3, <1>5, <1>6, <1>7

\* Where the bytes of s are in their encoding e: byte i is written behind p[i - 1] bytes.
Encodes(p, e, s, kept) ==
    /\ p \in [0..Len(s) -> Nat] /\ p[0] = 0 /\ p[Len(s)] = Len(e)
    /\ \A i \in 1..Len(s) :
         /\ p[i] <= Len(e)
         /\ s[i] \in kept => p[i] = p[i - 1] + 1 /\ e[p[i - 1] + 1] = s[i]
         /\ s[i] \notin kept => /\ p[i] = p[i - 1] + 3
                                /\ e[p[i - 1] + 1] = Addresses!Percent
                                /\ Addresses!HexDigit(e[p[i - 1] + 2]) >= 0 /\ Addresses!HexDigit(e[p[i - 1] + 3]) >= 0
                                /\ Addresses!HexDigit(e[p[i - 1] + 2]) * 16 + Addresses!HexDigit(e[p[i - 1] + 3]) = s[i]

LEMMA EncodedIs ==
    ASSUME NEW kept, NEW s \in Seq(Byte)
    PROVE  /\ Addresses!EncodeUnless(s, kept) \in Seq((kept \cap Byte) \cup Addresses!Unreserved \cup {Addresses!Percent})
           /\ \E p : Encodes(p, Addresses!EncodeUnless(s, kept), s, kept)
<1> DEFINE X == (kept \cap Byte) \cup Addresses!Unreserved \cup {Addresses!Percent}
           N == Len(s)
           c == [i \in 1..N |-> Piece(s[i], kept)]
           e == FlattenSeq(c)
<1>1. N \in Nat /\ DOMAIN s = 1..N /\ \A i \in 1..N : s[i] \in Byte
  OBVIOUS
<1>2. Addresses!EncodeUnless(s, kept) = e
  <2>1. Addresses!EncodeUnless(s, kept) = Addresses!FlattenSeq([i \in DOMAIN s |-> IF s[i] \in kept THEN <<s[i]>> ELSE Addresses!Escaped(s[i])])
    BY DEF Addresses!EncodeUnless
  <2>2. [i \in DOMAIN s |-> IF s[i] \in kept THEN <<s[i]>> ELSE Addresses!Escaped(s[i])] = c
    BY <1>1 DEF Piece
  <2> HIDE DEF c
  <2> QED BY <2>1, <2>2, FlattenIs, Zenon
<1>3. ASSUME NEW i \in 1..N, s[i] \in kept
      PROVE  c[i] \in Seq(X) /\ Len(c[i]) = 1 /\ c[i][1] = s[i]
  <2>1. s[i] \in X
    BY <1>1, <1>3
  <2>2. c[i] = <<s[i]>>
    BY <1>3 DEF Piece
  <2> HIDE DEF c, X
  <2> QED BY <2>1, <2>2
<1>4. ASSUME NEW i \in 1..N, s[i] \notin kept
      PROVE  /\ c[i] \in Seq(X) /\ Len(c[i]) = 3 /\ c[i][1] = Addresses!Percent
             /\ Addresses!HexDigit(c[i][2]) >= 0 /\ Addresses!HexDigit(c[i][3]) >= 0
             /\ Addresses!HexDigit(c[i][2]) * 16 + Addresses!HexDigit(c[i][3]) = s[i]
  <2>1. c[i] = Addresses!Escaped(s[i]) /\ s[i] \in Byte
    BY <1>1, <1>4 DEF Piece
  <2> HIDE DEF c
  <2>2. Addresses!Escaped(s[i]) \in Seq(Addresses!Unreserved \cup {Addresses!Percent})
    BY <2>1, EscapedIs
  <2>3. Addresses!Escaped(s[i]) \in Seq(X)
    <3>1. (Addresses!Unreserved \cup {Addresses!Percent}) \subseteq X
      OBVIOUS
    <3> HIDE DEF X
    <3> QED BY <2>2, <3>1, SeqMonotonic
  <2> QED BY <2>1, <2>3, EscapedIs, Zenon
<1>5. c \in [1..N -> Seq(X)]
  <2>1. \A i \in 1..N : c[i] \in Seq(X)
    BY <1>3, <1>4
  <2> HIDE DEF X, Piece
  <2> QED BY <2>1
<1> HIDE DEF c, e, X, N
<1>6. e \in Seq(X) /\ \E p : Pieces(p, e, c, N)
  BY <1>1, <1>5, FlattenPieces DEF e
<1>7. PICK p : Pieces(p, e, c, N)
  BY <1>6
<1>8. ASSUME NEW i \in 1..N
      PROVE  /\ p[i] <= Len(e) /\ p[i] = p[i - 1] + Len(c[i])
             /\ \A k \in 1..Len(c[i]) : e[p[i - 1] + k] = c[i][k]
  BY <1>7 DEF Pieces
<1>9. Encodes(p, e, s, kept)
  <2>1. ASSUME NEW i \in 1..N, s[i] \in kept
        PROVE  p[i] = p[i - 1] + 1 /\ e[p[i - 1] + 1] = s[i]
    BY <1>3, <1>8, <2>1, 1 \in 1..1
  <2>2. ASSUME NEW i \in 1..N, s[i] \notin kept
        PROVE  /\ p[i] = p[i - 1] + 3
               /\ e[p[i - 1] + 1] = Addresses!Percent
               /\ Addresses!HexDigit(e[p[i - 1] + 2]) >= 0 /\ Addresses!HexDigit(e[p[i - 1] + 3]) >= 0
               /\ Addresses!HexDigit(e[p[i - 1] + 2]) * 16 + Addresses!HexDigit(e[p[i - 1] + 3]) = s[i]
    <3>1. /\ e[p[i - 1] + 1] = c[i][1] /\ e[p[i - 1] + 2] = c[i][2] /\ e[p[i - 1] + 3] = c[i][3]
          /\ p[i] = p[i - 1] + 3
      <4>1. Len(c[i]) = 3
        BY <1>4, <2>2, Zenon
      <4>2. p[i] = p[i - 1] + 3 /\ \A k \in 1..3 : e[p[i - 1] + k] = c[i][k]
        BY <1>8, <4>1, Zenon
      <4>3. 1 \in 1..3 /\ 2 \in 1..3 /\ 3 \in 1..3
        OBVIOUS
      <4> QED BY <4>2, <4>3, Zenon
    <3> QED BY <1>4, <2>2, <3>1, Zenon
  <2> QED BY <1>7, <1>8, <2>1, <2>2 DEF Encodes, Pieces, N
<1> QED BY <1>2, <1>6, <1>9, Zenon DEF X

\* What the decoder takes for an escape.
IsEscape(v, i) ==
    /\ v[i] = Addresses!Percent
    /\ i + 2 <= Len(v)
    /\ Addresses!HexDigit(v[i+1]) >= 0 /\ Addresses!HexDigit(v[i+2]) >= 0

\* f is the recursion of UrlDecode.
Decodes(f, v) ==
    f = [i \in Nat |->
            IF i > Len(v) THEN <<>>
            ELSE IF IsEscape(v, i) THEN <<Addresses!HexDigit(v[i+1]) * 16 + Addresses!HexDigit(v[i+2])>> \o f[i + 3]
            ELSE <<v[i]>> \o f[i + 1]]

\* The recursion of UrlDecode has a solution, of which it is the first value.
LEMMA DecodedIs ==
    ASSUME NEW v, Len(v) \in Nat
    PROVE  \E f : Decodes(f, v) /\ Addresses!UrlDecode(v) = f[1]
<1> DEFINE L == Len(v)
           byte(i) == Addresses!HexDigit(v[i+1]) * 16 + Addresses!HexDigit(v[i+2])
           Stop == {i \in Nat : i > L}
           head == [i \in Nat |-> IF i > L THEN <<>> ELSE IF IsEscape(v, i) THEN <<byte(i)>> ELSE <<v[i]>>]
           next == [i \in Nat |-> IF IsEscape(v, i) THEN i + 3 ELSE i + 1]
<1>1. \A i \in Nat : next[i] \in Nat /\ next[i] > i
  OBVIOUS
<1>2. \A i \in Nat : i > L => i \in Stop
  OBVIOUS
<1>3. PICK f : Recurses(f, Stop, head, next, TRUE)
  <2> HIDE DEF head, next, Stop
  <2> QED BY <1>1, <1>2, RecursionExists
<1> DEFINE From(i) == IF i > L THEN <<>> ELSE IF IsEscape(v, i) THEN <<byte(i)>> \o f[i + 3] ELSE <<v[i]>> \o f[i + 1]
<1>4. ASSUME NEW i \in Nat
      PROVE  (IF i \in Stop THEN head[i] ELSE IF TRUE THEN head[i] \o f[next[i]] ELSE f[next[i]]) = From(i)
  <2> HIDE DEF IsEscape, byte
  <2>1. i \in Stop <=> i > L
    OBVIOUS
  <2>2. CASE i > L
    BY <2>1, <2>2
  <2>3. CASE ~(i > L) /\ IsEscape(v, i)
    <3>1. head[i] = <<byte(i)>> /\ next[i] = i + 3
      BY <2>3
    <3> HIDE DEF head, next, Stop
    <3> QED BY <2>1, <2>3, <3>1, Zenon
  <2>4. CASE ~(i > L) /\ ~IsEscape(v, i)
    <3>1. head[i] = <<v[i]>> /\ next[i] = i + 1
      BY <2>4
    <3> HIDE DEF head, next, Stop
    <3> QED BY <2>1, <2>4, <3>1, Zenon
  <2> QED BY <2>2, <2>3, <2>4
<1>5. [i \in Nat |-> IF i \in Stop THEN head[i] ELSE IF TRUE THEN head[i] \o f[next[i]] ELSE f[next[i]]]
        = [i \in Nat |-> From(i)]
  <2> HIDE DEF head, next, Stop, From
  <2> QED BY <1>4, Zenon
<1>6. Decodes(f, v)
  <2>1. f = [i \in Nat |-> From(i)]
    BY <1>3, <1>5, Zenon DEF Recurses
  <2> QED BY <2>1, Zenon DEF Decodes
<1>7. \E g : Decodes(g, v)
  BY <1>6
<1> DEFINE g == CHOOSE g : Decodes(g, v)
<1>8. Decodes(g, v)
  BY <1>7, Zenon
<1>9. Addresses!UrlDecode(v) = g[1]
  BY Zenon DEF Addresses!UrlDecode, Decodes, IsEscape
<1> HIDE DEF g
<1> QED BY <1>8, <1>9

\* What is decoded from where a byte was written on.
LEMMA DecodingStep ==
    ASSUME NEW f, NEW v, Decodes(f, v), NEW i \in Nat
    PROVE  /\ i > Len(v) => f[i] = <<>>
           /\ ~(i > Len(v)) /\ IsEscape(v, i) =>
                f[i] = <<Addresses!HexDigit(v[i+1]) * 16 + Addresses!HexDigit(v[i+2])>> \o f[i + 3]
           /\ ~(i > Len(v)) /\ ~IsEscape(v, i) => f[i] = <<v[i]>> \o f[i + 1]
<1>1. f[i] = IF i > Len(v) THEN <<>>
             ELSE IF IsEscape(v, i) THEN <<Addresses!HexDigit(v[i+1]) * 16 + Addresses!HexDigit(v[i+2])>> \o f[i + 3]
             ELSE <<v[i]>> \o f[i + 1]
  BY Zenon DEF Decodes
<1> QED BY <1>1, Zenon

\* Decoding undoes the encoding of a component.
LEMMA ComponentComesBack ==
    ASSUME NEW kept, Addresses!Percent \notin kept, NEW s \in Seq(Byte)
    PROVE  Addresses!UrlDecode(Addresses!EncodeUnless(s, kept)) = s
<1> DEFINE e == Addresses!EncodeUnless(s, kept)
           N == Len(s)
<1>1. PICK p : Encodes(p, e, s, kept)
  BY EncodedIs
<1>2. N \in Nat /\ DOMAIN s = 1..N /\ Len(e) \in Nat
  <2>1. p[N] \in Nat /\ p[N] = Len(e)
    BY <1>1 DEF Encodes
  <2> QED BY <2>1
<1>3. PICK f : Decodes(f, e) /\ Addresses!UrlDecode(e) = f[1]
  BY <1>2, DecodedIs
<1> HIDE DEF e, N
<1> DEFINE T == {k \in Nat : k <= N => f[p[N - k] + 1] = SubSeq(s, (N - k) + 1, N)}
<1>4. \A i \in 0..N : p[i] \in Nat
  BY <1>1 DEF Encodes, N
<1>5. 0 \in T
  <2>1. N - 0 = N /\ p[N] = Len(e) /\ p[N] + 1 \in Nat /\ p[N] + 1 > Len(e)
    BY <1>1, <1>2, <1>4 DEF Encodes, N
  <2>2. f[p[N] + 1] = <<>>
    BY <1>3, <2>1, DecodingStep
  <2>3. SubSeq(s, N + 1, N) = <<>>
    BY <1>2, SubSeqEmpty
  <2> QED BY <2>1, <2>2, <2>3
<1>6. ASSUME NEW k \in T PROVE k + 1 \in T
  <2> SUFFICES ASSUME k + 1 <= N PROVE f[p[N - (k + 1)] + 1] = SubSeq(s, (N - (k + 1)) + 1, N)
    OBVIOUS
  <2>1. PICK i \in 1..N : i = N - k
    BY <1>2
  <2>2. N - (k + 1) = i - 1 /\ (i - 1) + 1 = i /\ i - 1 \in 0..N /\ i \in 0..N /\ i + 1 = (N - k) + 1
    BY <1>2, <2>1
  <2>3. f[p[i] + 1] = SubSeq(s, i + 1, N)
    BY <1>2, <2>1, <2>2
  <2> HIDE DEF T
  <2>4. SubSeq(s, i, N) = <<s[i]>> \o SubSeq(s, i + 1, N)
    <3>1. i \in 1..Len(s) /\ N \in i..Len(s)
      BY <1>2 DEF N
    <3> QED BY <3>1, SubSeqRecursiveFirst
  <2>5. PICK at \in Nat : at = p[i - 1]
    BY <1>4, <2>2
  <2>6. f[at + 1] = <<s[i]>> \o f[p[i] + 1]
    <3>1. CASE s[i] \in kept
      <4>1. p[i] = at + 1 /\ e[at + 1] = s[i] /\ p[i] <= Len(e)
        BY <1>1, <2>5, <3>1 DEF Encodes, N
      <4>2. ~IsEscape(e, at + 1) /\ ~(at + 1 > Len(e)) /\ at + 1 \in Nat /\ p[i] + 1 = (at + 1) + 1
        BY <1>2, <3>1, <4>1 DEF IsEscape
      <4>3. f[at + 1] = <<e[at + 1]>> \o f[(at + 1) + 1]
        BY <1>3, <4>2, DecodingStep
      <4> QED BY <4>1, <4>2, <4>3, Zenon
    <3>2. CASE s[i] \notin kept
      <4>1. /\ p[i] = at + 3 /\ e[at + 1] = Addresses!Percent /\ p[i] <= Len(e)
            /\ Addresses!HexDigit(e[at + 2]) >= 0 /\ Addresses!HexDigit(e[at + 3]) >= 0
            /\ Addresses!HexDigit(e[at + 2]) * 16 + Addresses!HexDigit(e[at + 3]) = s[i]
        BY <1>1, <2>5, <3>2 DEF Encodes, N
      <4>2. (at + 1) + 1 = at + 2 /\ (at + 1) + 2 = at + 3 /\ p[i] + 1 = (at + 1) + 3 /\ at + 1 \in Nat
        BY <4>1
      <4>3. IsEscape(e, at + 1) /\ ~(at + 1 > Len(e))
        BY <1>2, <4>1, <4>2 DEF IsEscape
      <4>4. f[at + 1] = <<Addresses!HexDigit(e[(at + 1) + 1]) * 16 + Addresses!HexDigit(e[(at + 1) + 2])>> \o f[(at + 1) + 3]
        BY <1>3, <4>2, <4>3, DecodingStep
      <4>5. f[at + 1] = <<Addresses!HexDigit(e[at + 2]) * 16 + Addresses!HexDigit(e[at + 3])>> \o f[p[i] + 1]
        BY <4>2, <4>4, Zenon
      <4> QED BY <4>1, <4>5, Zenon
    <3> QED BY <3>1, <3>2
  <2> QED BY <2>2, <2>3, <2>4, <2>5, <2>6, Zenon
<1>7. T = Nat
  <2>1. T \in SUBSET Nat
    OBVIOUS
  <2> HIDE DEF T
  <2> QED BY <1>5, <1>6, <2>1, SetInduction
<1>8. f[p[0] + 1] = SubSeq(s, 1, N)
  <2>1. N \in T
    BY <1>2, <1>7
  <2>2. N - N = 0 /\ 0 + 1 = 1 /\ N <= N
    BY <1>2
  <2> QED BY <2>1, <2>2
<1>9. p[0] + 1 = 1 /\ SubSeq(s, 1, N) = s
  BY <1>1, SubSeqFull DEF Encodes, N
<1> QED BY <1>3, <1>8, <1>9 DEF e

\* Escaping what is not kept changes nothing of what a text decodes to.
LEMMA UriDecodesAlike ==
    ASSUME NEW kept, Addresses!Percent \in kept, Addresses!Unreserved \subseteq kept, NEW s \in Seq(Byte)
    PROVE  Addresses!UrlDecode(Addresses!EncodeUnless(s, kept)) = Addresses!UrlDecode(s)
<1> DEFINE e == Addresses!EncodeUnless(s, kept)
           N == Len(s)
<1>1. PICK p : Encodes(p, e, s, kept)
  BY EncodedIs
<1>2. N \in Nat /\ DOMAIN s = 1..N /\ Len(e) \in Nat
  <2>1. p[N] \in Nat /\ p[N] = Len(e)
    BY <1>1 DEF Encodes
  <2> QED BY <2>1
<1>3. PICK f : Decodes(f, e) /\ Addresses!UrlDecode(e) = f[1]
  BY <1>2, DecodedIs
<1>4. PICK g : Decodes(g, s) /\ Addresses!UrlDecode(s) = g[1]
  BY <1>2, DecodedIs
<1> HIDE DEF e
<1>5. /\ \A i \in 0..N : p[i] \in Nat
      /\ p[0] = 0 /\ p[N] = Len(e)
      /\ \A i \in 1..N :
           /\ p[i] <= Len(e)
           /\ s[i] \in kept => p[i] = p[i - 1] + 1 /\ e[p[i - 1] + 1] = s[i]
           /\ s[i] \notin kept => /\ p[i] = p[i - 1] + 3
                                  /\ e[p[i - 1] + 1] = Addresses!Percent
                                  /\ Addresses!HexDigit(e[p[i - 1] + 2]) >= 0 /\ Addresses!HexDigit(e[p[i - 1] + 3]) >= 0
                                  /\ Addresses!HexDigit(e[p[i - 1] + 2]) * 16 + Addresses!HexDigit(e[p[i - 1] + 3]) = s[i]
  BY <1>1 DEF Encodes
<1> HIDE DEF N
<1> DEFINE T == {k \in Nat : \A i \in 1..(N + 1) : i + k > N => f[p[i - 1] + 1] = g[i]}
<1>6. 0 \in T
  <2> SUFFICES ASSUME NEW i \in 1..(N + 1), i + 0 > N PROVE f[p[i - 1] + 1] = g[i]
    OBVIOUS
  <2>1. i = N + 1 /\ i - 1 = N /\ N + 1 \in Nat /\ N + 1 > N
    BY <1>2
  <2>2. p[N] + 1 \in Nat /\ p[N] + 1 > Len(e)
    BY <1>2, <1>5
  <2>3. f[p[N] + 1] = <<>>
    BY <1>3, <2>2, DecodingStep
  <2>4. g[N + 1] = <<>>
    BY <1>4, <2>1, DecodingStep DEF N
  <2> QED BY <2>1, <2>3, <2>4, Zenon
<1>7. ASSUME NEW k \in T PROVE k + 1 \in T
  <2> SUFFICES ASSUME NEW i \in 1..(N + 1), i + (k + 1) > N PROVE f[p[i - 1] + 1] = g[i]
    OBVIOUS
  <2>1. CASE i + k > N
    BY <2>1
  <2>2. CASE ~(i + k > N)
    <3>1. i \in 1..N /\ i - 1 \in 0..N /\ i \in Nat /\ i \in 0..N /\ i = N - k
      BY <1>2, <2>2
    <3>2. ASSUME NEW j \in 1..(N + 1), j > i PROVE f[p[j - 1] + 1] = g[j]
      BY <1>2, <3>1, <3>2
    <3> HIDE DEF T
    <3>3. PICK at \in Nat : at = p[i - 1]
      BY <1>5, <3>1
    <3>4. /\ p[i] <= Len(e) /\ p[i] \in Nat
          /\ s[i] \in kept => p[i] = at + 1 /\ e[at + 1] = s[i]
          /\ s[i] \notin kept => /\ p[i] = at + 3 /\ e[at + 1] = Addresses!Percent
                                 /\ Addresses!HexDigit(e[at + 2]) >= 0 /\ Addresses!HexDigit(e[at + 3]) >= 0
                                 /\ Addresses!HexDigit(e[at + 2]) * 16 + Addresses!HexDigit(e[at + 3]) = s[i]
      BY <1>5, <3>1, <3>3
    <3>5. at + 1 \in Nat /\ (at + 1) + 1 = at + 2 /\ (at + 1) + 2 = at + 3 /\ (at + 1) + 3 = at + 4
      OBVIOUS
    <3>6. f[p[i] + 1] = g[i + 1]
      <4>1. i + 1 \in 1..(N + 1) /\ i + 1 > i /\ (i + 1) - 1 = i
        BY <1>2, <3>1
      <4>2. f[p[(i + 1) - 1] + 1] = g[i + 1]
        BY <3>2, <4>1
      <4> QED BY <4>1, <4>2, Zenon
    \* The byte behind this one, and how much of it there is.
    <3>7. ASSUME i + 1 <= N
          PROVE  /\ s[i + 1] \in kept => p[i + 1] = p[i] + 1 /\ e[p[i] + 1] = s[i + 1]
                 /\ s[i + 1] \notin kept => e[p[i] + 1] = Addresses!Percent
                 /\ p[i + 1] <= Len(e)
      <4>1. i + 1 \in 1..N /\ (i + 1) - 1 = i
        BY <1>2, <3>1, <3>7
      <4> QED BY <1>5, <4>1
    <3>8. ASSUME i + 2 <= N
          PROVE  /\ s[i + 2] \in kept => p[i + 2] = p[i + 1] + 1 /\ e[p[i + 1] + 1] = s[i + 2]
                 /\ s[i + 2] \notin kept => e[p[i + 1] + 1] = Addresses!Percent
                 /\ p[i + 2] <= Len(e)
      <4>1. i + 2 \in 1..N /\ (i + 2) - 1 = i + 1
        BY <1>2, <3>1, <3>8
      <4> QED BY <1>5, <4>1
    <3>9. CASE s[i] \notin kept
      <4>1. IsEscape(e, at + 1) /\ ~(at + 1 > Len(e))
        BY <1>2, <3>4, <3>5, <3>9 DEF IsEscape
      <4>2. ~IsEscape(s, i) /\ ~(i > Len(s))
        BY <1>2, <3>1, <3>9 DEF IsEscape, N
      <4>3. f[at + 1] = <<Addresses!HexDigit(e[(at + 1) + 1]) * 16 + Addresses!HexDigit(e[(at + 1) + 2])>> \o f[(at + 1) + 3]
        BY <1>3, <3>5, <4>1, DecodingStep
      <4>4. p[i] + 1 = at + 4
        BY <3>4, <3>9
      <4>5. f[at + 1] = <<Addresses!HexDigit(e[at + 2]) * 16 + Addresses!HexDigit(e[at + 3])>> \o f[p[i] + 1]
        BY <3>5, <4>3, <4>4, Zenon
      <4>6. g[i] = <<s[i]>> \o g[i + 1]
        BY <1>4, <3>1, <4>2, DecodingStep
      <4> QED BY <3>3, <3>4, <3>6, <3>9, <4>5, <4>6, Zenon
    <3>10. CASE s[i] \in kept /\ IsEscape(s, i)
      <4>1. i + 1 <= N /\ i + 2 <= N /\ s[i] = Addresses!Percent
            /\ Addresses!HexDigit(s[i + 1]) >= 0 /\ Addresses!HexDigit(s[i + 2]) >= 0
        BY <1>2, <3>1, <3>10 DEF IsEscape, N
      <4>2. s[i + 1] \in kept /\ s[i + 2] \in kept
        BY <4>1, HexDigitsAreKept
      <4>3. p[i] = at + 1 /\ p[i + 1] = at + 2 /\ p[i + 2] = at + 3
        BY <3>4, <3>5, <3>7, <3>8, <3>10, <4>1, <4>2
      <4>4. e[at + 1] = s[i] /\ e[at + 2] = s[i + 1] /\ e[at + 3] = s[i + 2] /\ at + 3 <= Len(e)
        BY <3>4, <3>5, <3>7, <3>8, <3>10, <4>1, <4>2, <4>3
      <4>5. IsEscape(e, at + 1) /\ ~(at + 1 > Len(e))
        BY <1>2, <3>5, <4>1, <4>4 DEF IsEscape
      <4>6. f[at + 1] = <<Addresses!HexDigit(e[(at + 1) + 1]) * 16 + Addresses!HexDigit(e[(at + 1) + 2])>> \o f[(at + 1) + 3]
        BY <1>3, <3>5, <4>5, DecodingStep
      <4>7. f[at + 1] = <<Addresses!HexDigit(s[i + 1]) * 16 + Addresses!HexDigit(s[i + 2])>> \o f[at + 4]
        BY <3>5, <4>4, <4>6, Zenon
      <4>8. f[at + 4] = g[i + 3]
        <5>1. i + 3 \in 1..(N + 1) /\ i + 3 > i /\ (i + 3) - 1 = i + 2 /\ (at + 3) + 1 = at + 4
          BY <1>2, <3>1, <4>1
        <5>2. f[p[(i + 3) - 1] + 1] = g[i + 3]
          BY <3>2, <5>1
        <5> QED BY <4>3, <5>1, <5>2, Zenon
      <4>9. g[i] = <<Addresses!HexDigit(s[i + 1]) * 16 + Addresses!HexDigit(s[i + 2])>> \o g[i + 3]
        <5>1. ~(i > Len(s))
          BY <1>2, <3>1 DEF N
        <5> QED BY <1>4, <3>1, <3>10, <5>1, DecodingStep
      <4> QED BY <3>3, <4>7, <4>8, <4>9, Zenon
    <3>11. CASE s[i] \in kept /\ ~IsEscape(s, i)
      <4>1. p[i] = at + 1 /\ e[at + 1] = s[i] /\ ~(at + 1 > Len(e)) /\ ~(i > Len(s))
        BY <1>2, <3>1, <3>4, <3>11 DEF N
      <4>2. ~IsEscape(e, at + 1)
        <5> SUFFICES ASSUME IsEscape(e, at + 1) PROVE FALSE
          OBVIOUS
        <5>1. /\ s[i] = Addresses!Percent /\ at + 3 <= Len(e)
              /\ Addresses!HexDigit(e[at + 2]) >= 0 /\ Addresses!HexDigit(e[at + 3]) >= 0
          BY <3>5, <4>1 DEF IsEscape
        <5>2. e[at + 2] # Addresses!Percent /\ e[at + 3] # Addresses!Percent
          BY <5>1, HexDigitsAreKept
        <5>3. i + 1 <= N
          <6> SUFFICES ASSUME i = N PROVE FALSE
            BY <1>2, <3>1
          <6> QED BY <1>5, <4>1, <5>1
        <5>4. p[i] + 1 = at + 2
          BY <4>1
        <5>5. s[i + 1] \in kept /\ p[i + 1] = at + 2 /\ e[at + 2] = s[i + 1]
          BY <3>7, <5>2, <5>3, <5>4
        <5>6. i + 2 <= N
          <6> SUFFICES ASSUME i + 1 = N PROVE FALSE
            BY <1>2, <3>1, <5>3
          <6> QED BY <1>5, <5>1, <5>5
        <5>7. p[i + 1] + 1 = at + 3
          BY <5>5
        <5>8. e[at + 3] = s[i + 2]
          BY <3>8, <5>2, <5>6, <5>7
        <5> QED BY <3>11, <5>1, <5>5, <5>6, <5>8 DEF IsEscape, N
      <4>3. f[at + 1] = <<e[at + 1]>> \o f[(at + 1) + 1]
        BY <1>3, <3>5, <4>1, <4>2, DecodingStep
      <4>4. g[i] = <<s[i]>> \o g[i + 1]
        BY <1>4, <3>1, <3>11, <4>1, DecodingStep
      <4>5. f[at + 1] = <<s[i]>> \o f[p[i] + 1]
        BY <4>1, <4>3, Zenon
      <4> QED BY <3>3, <3>6, <4>4, <4>5, Zenon
    <3> QED BY <3>9, <3>10, <3>11
  <2> QED BY <2>1, <2>2
<1>8. T = Nat
  <2>1. T \in SUBSET Nat
    OBVIOUS
  <2> HIDE DEF T
  <2> QED BY <1>6, <1>7, <2>1, SetInduction
<1>9. f[p[0] + 1] = g[1]
  <2>1. N \in T
    <3> HIDE DEF T
    <3> QED BY <1>2, <1>8
  <2>2. 1 \in 1..(N + 1) /\ 1 + N > N /\ 1 - 1 = 0
    BY <1>2
  <2> QED BY <2>1, <2>2
<1>10. p[0] + 1 = 1
  BY <1>5
<1> QED BY <1>3, <1>4, <1>9, <1>10, Zenon DEF e

\* A text that is kept as it is encodes to itself.
LEMMA KeptIsUnchanged ==
    ASSUME NEW kept, NEW s \in Seq(Byte), \A i \in 1..Len(s) : s[i] \in kept
    PROVE  Addresses!EncodeUnless(s, kept) = s
<1> DEFINE e == Addresses!EncodeUnless(s, kept)
           N == Len(s)
           X == (kept \cap Byte) \cup Addresses!Unreserved \cup {Addresses!Percent}
<1>1. e \in Seq(X)
  BY EncodedIs
<1>2. PICK p : Encodes(p, e, s, kept)
  BY EncodedIs
<1>3. N \in Nat /\ DOMAIN s = 1..N
  OBVIOUS
<1> HIDE DEF e, X
<1>4. /\ p[0] = 0 /\ p[N] = Len(e)
      /\ \A i \in 1..N : p[i] = p[i - 1] + 1 /\ e[p[i - 1] + 1] = s[i]
  BY <1>2 DEF Encodes
<1> HIDE DEF N
<1> DEFINE T == {i \in Nat : i <= N => p[i] = i}
<1>5. 0 \in T
  BY <1>4
<1>6. ASSUME NEW i \in T PROVE i + 1 \in T
  <2> SUFFICES ASSUME i + 1 <= N PROVE p[i + 1] = i + 1
    OBVIOUS
  <2>1. p[i] = i /\ i + 1 \in 1..N /\ (i + 1) - 1 = i
    BY <1>3
  <2> QED BY <1>4, <2>1
<1>7. T = Nat
  <2>1. T \in SUBSET Nat
    OBVIOUS
  <2> HIDE DEF T
  <2> QED BY <1>5, <1>6, <2>1, SetInduction
<1>8. \A i \in 0..N : p[i] = i
  <2> TAKE i \in 0..N
  <2>1. i \in T /\ i <= N
    BY <1>3, <1>7
  <2> QED BY <2>1
<1>9. Len(e) = N
  BY <1>3, <1>4, <1>8
<1>10. ASSUME NEW i \in 1..N PROVE e[i] = s[i]
  <2>1. i - 1 \in 0..N /\ (i - 1) + 1 = i
    BY <1>3
  <2>2. p[i - 1] = i - 1 /\ e[p[i - 1] + 1] = s[i]
    BY <1>4, <1>8, <2>1
  <2> QED BY <2>1, <2>2
<1>11. s \in Seq(X \cup Byte) /\ e \in Seq(X \cup Byte)
  BY <1>1, SeqMonotonic
<1>12. Len(s) = Len(e) /\ \A i \in 1..Len(s) : s[i] = e[i]
  BY <1>9, <1>10 DEF N
<1>13. s = e
  BY <1>11, <1>12, SeqEqual
<1> QED BY <1>13 DEF e

\* Whatever bytes are encoded: they come back, a URI decodes as if it had not been encoded and
\* is encoded only once, and only unreserved bytes and percent signs are left (url_encode,
\* url_encode_uri and url_decode).
THEOREM EncodedComesBack == \A value \in Seq(Byte) : Addresses!EncodingRoundTrips(value)
<1> SUFFICES ASSUME NEW value \in Seq(Byte) PROVE Addresses!EncodingRoundTrips(value)
  OBVIOUS
<1> DEFINE K == Addresses!Unreserved \cup Addresses!Reserved
<1>1. Addresses!Percent \notin Addresses!Unreserved /\ Addresses!Percent \in K /\ Addresses!Unreserved \subseteq K
  BY DEF Addresses!Percent, Addresses!Unreserved, Addresses!Reserved, Addresses!Digits, Addresses!Upper, Addresses!LowerCase
<1>2. K \subseteq Byte
  BY DEF Addresses!Percent, Addresses!Unreserved, Addresses!Reserved, Addresses!Digits, Addresses!Upper, Addresses!LowerCase, Byte
<1> HIDE DEF K
<1>3. /\ Addresses!UrlEncode(value) = Addresses!EncodeUnless(value, Addresses!Unreserved)
      /\ \A v : Addresses!UrlEncodeUri(v) = Addresses!EncodeUnless(v, K)
  BY Zenon DEF Addresses!UrlEncode, Addresses!UrlEncodeUri, K
<1>4. Addresses!UrlDecode(Addresses!UrlEncode(value)) = value
  BY <1>1, <1>3, ComponentComesBack
<1>5. Addresses!UrlDecode(Addresses!UrlEncodeUri(value)) = Addresses!UrlDecode(value)
  BY <1>1, <1>3, UriDecodesAlike
<1>6. Addresses!UrlEncodeUri(Addresses!UrlEncodeUri(value)) = Addresses!UrlEncodeUri(value)
  <2> DEFINE w == Addresses!EncodeUnless(value, K)
  <2>1. w \in Seq((K \cap Byte) \cup Addresses!Unreserved \cup {Addresses!Percent})
    BY EncodedIs
  <2>2. (K \cap Byte) \cup Addresses!Unreserved \cup {Addresses!Percent} = K
    BY <1>1, <1>2
  <2> HIDE DEF w
  <2>3. w \in Seq(K) /\ w \in Seq(Byte)
    BY <1>2, <2>1, <2>2, SeqMonotonic
  <2>4. Addresses!EncodeUnless(w, K) = w
    <3>1. \A i \in 1..Len(w) : w[i] \in K
      BY <2>3
    <3> QED BY <2>3, <3>1, KeptIsUnchanged
  <2> QED BY <1>3, <2>4 DEF w
<1>7. \A i \in DOMAIN Addresses!UrlEncode(value) : Addresses!UrlEncode(value)[i] \in Addresses!Unreserved \cup {Addresses!Percent}
  <2> DEFINE w == Addresses!UrlEncode(value)
  <2>1. w \in Seq((Addresses!Unreserved \cap Byte) \cup Addresses!Unreserved \cup {Addresses!Percent})
    BY <1>3, EncodedIs
  <2>2. (Addresses!Unreserved \cap Byte) \cup Addresses!Unreserved \cup {Addresses!Percent} = Addresses!Unreserved \cup {Addresses!Percent}
    OBVIOUS
  <2> HIDE DEF w
  <2>3. w \in Seq(Addresses!Unreserved \cup {Addresses!Percent})
    BY <2>1, <2>2
  <2>4. \A i \in DOMAIN w : w[i] \in Addresses!Unreserved \cup {Addresses!Percent}
    BY <2>3
  <2> QED BY <2>4 DEF w
<1> QED BY <1>4, <1>5, <1>6, <1>7 DEF Addresses!EncodingRoundTrips

-----------------------------------------------------------------------------
(***************************************************************************)
(* A reference is the run of bytes behind the first place of its marker.   *)
(* A query is its pairs one behind the other (LaidOut): the marker of a    *)
(* key stands at the end of a pair's key, and at its start exactly if that *)
(* is the key (MarkerIsInPair), so that the recursion of NumericAfter goes *)
(* on from pair to pair until one has the key (ReadsOn).                   *)
(***************************************************************************)

\* The least number of a set, as Min of the scanners returns it.
LEMMA LeastOf ==
    ASSUME NEW S \in SUBSET Nat
    PROVE  /\ S # {} => Addresses!Min(S) \in S /\ \A d \in S : Addresses!Min(S) <= d
           /\ \A c \in S : (\A d \in S : c <= d) => Addresses!Min(S) = c
<1>1. Addresses!Min(S) = Documents!Min(S)
  BY SameLeast
<1>2. /\ S # {} => Documents!Min(S) \in S /\ \A d \in S : Documents!Min(S) <= d
      /\ \A c \in S : (\A d \in S : c <= d) => Documents!Min(S) = c
  BY LeastIs
<1> QED BY <1>1, <1>2, Zenon

\* What a scanner reads from a place on: the longest run of bytes of a set.
LEMMA RunIs ==
    ASSUME NEW text \in Texts, NEW at \in Nat, NEW run \in Texts, Stands(text, at, run), NEW S,
           \A i \in 1..Len(run) : run[i] \in S,
           \/ at + Len(run) = Len(text)
           \/ at + Len(run) < Len(text) /\ text[at + Len(run) + 1] \notin S
    PROVE  Addresses!RunOf(text, at + 1, S) = run
<1> DEFINE Stops == {j \in (at + 1)..Len(text) : text[j] \notin S} \cup {Len(text) + 1}
<1>1. PICK n, m \in Nat : n = Len(run) /\ m = Len(text)
  BY DEF Texts
<1>2. \A i \in 1..n : at + i \in 1..m /\ text[at + i] \in S
  BY <1>1 DEF Stands
<1>3. at + n = m \/ (at + n < m /\ text[at + n + 1] \notin S)
  BY <1>1
<1>4. Stops = {j \in (at + 1)..m : text[j] \notin S} \cup {m + 1}
  BY <1>1
<1>5. Stops \in SUBSET Nat /\ at + n + 1 \in Stops
  <2> HIDE DEF Stops
  <2> QED BY <1>3, <1>4
<1>6. ASSUME NEW d \in Stops PROVE at + n + 1 <= d
  <2>1. CASE d = m + 1
    BY <1>3, <2>1
  <2>2. CASE d # m + 1
    <3>1. d \in (at + 1)..m /\ text[d] \notin S
      <4> HIDE DEF Stops
      <4> QED BY <1>4, <2>2
    <3>2. ASSUME d - at \in 1..n PROVE FALSE
      <4>1. at + (d - at) = d
        BY <3>1
      <4> QED BY <1>2, <3>1, <3>2, <4>1
    <3> QED BY <3>1, <3>2
  <2> QED BY <2>1, <2>2
<1>7. Addresses!Min(Stops) = at + n + 1
  <2> HIDE DEF Stops
  <2> QED BY <1>5, <1>6, LeastOf
<1>8. Addresses!RunOf(text, at + 1, S) = SubSeq(text, at + 1, (at + n + 1) - 1)
  <2>1. Addresses!RunOf(text, at + 1, S) = SubSeq(text, at + 1, Addresses!Min(Stops) - 1)
    BY Zenon DEF Addresses!RunOf
  <2> HIDE DEF Stops
  <2> QED BY <1>7, <2>1, Zenon
<1>9. (at + n + 1) - 1 = at + n
  OBVIOUS
<1>10. SubSeq(text, at + 1, at + Len(run)) = run
  BY StandsIsCut
<1> QED BY <1>1, <1>8, <1>9, <1>10, Zenon

\* Where a marker is found.
LEMMA MarkersAre ==
    ASSUME NEW text \in Texts, NEW marker \in Texts, marker # <<>>
    PROVE  /\ Addresses!Finds(text, marker) \in SUBSET (1..Len(text))
           /\ \A at \in Nat : at + 1 \in Addresses!Finds(text, marker) <=> Stands(text, at, marker)
<1>1. PICK n, m \in Nat : n = Len(marker) /\ m = Len(text) /\ n # 0
  BY DEF Texts
<1>2. Addresses!Finds(text, marker) = {i \in 1..(m - n + 1) : SubSeq(text, i, i + n - 1) = marker}
  BY <1>1, Zenon DEF Addresses!Finds
<1>3. ASSUME NEW at \in Nat, at + 1 \in 1..(m - n + 1), SubSeq(text, at + 1, (at + 1) + n - 1) = marker
      PROVE  Stands(text, at, marker)
  <2>1. PICK lo, hi \in 1..m : lo = at + 1 /\ hi = (at + 1) + n - 1 /\ lo <= hi /\ hi = at + n
    <3>1. n # 0 /\ n \in Nat /\ m \in Nat
      BY <1>1
    <3>2. at + 1 \in 1..m /\ (at + 1) + n - 1 \in 1..m /\ at + 1 <= (at + 1) + n - 1 /\ (at + 1) + n - 1 = at + n
      BY <1>3, <3>1
    <3> QED BY <3>2
  <2>2. \A i \in lo..hi : text[i] \in 0..255
    <3>1. \A i \in 1..m : text[i] \in 0..255
      BY <1>1 DEF Texts
    <3>2. \A i \in lo..hi : i \in 1..m
      BY <2>1
    <3> QED BY <3>1, <3>2, Zenon
  <2>3. \A i \in 1..(hi - lo + 1) : SubSeq(text, lo, hi)[i] = text[lo + i - 1]
    <3> DEFINE Byte1 == 0..255
    <3>1. \A i \in lo..hi : text[i] \in Byte1
      BY <2>2
    <3> HIDE DEF Byte1
    <3> QED BY <3>1, SubSeqProperties
  <2>4. SubSeq(text, lo, hi) = marker
    BY <1>3, <2>1
  <2>5. ASSUME NEW i \in 1..n PROVE at + i \in 1..m /\ text[at + i] = marker[i]
    <3>1. i \in 1..(hi - lo + 1) /\ lo + i - 1 = at + i /\ at + i \in 1..m
      BY <1>1, <2>1
    <3> QED BY <2>3, <2>4, <3>1
  <2> QED BY <1>1, <2>5 DEF Stands
<1>4. ASSUME NEW at \in Nat, Stands(text, at, marker)
      PROVE  at + 1 \in 1..(m - n + 1) /\ SubSeq(text, at + 1, (at + 1) + n - 1) = marker
  <2>1. at + n \in 1..m
    BY <1>1, <1>4 DEF Stands
  <2>2. at + 1 \in 1..(m - n + 1) /\ (at + 1) + n - 1 = at + n
    BY <1>1, <2>1
  <2>3. SubSeq(text, at + 1, at + Len(marker)) = marker
    BY <1>4, StandsIsCut
  <2> QED BY <1>1, <2>2, <2>3, Zenon
<1>5. ASSUME NEW at \in Nat PROVE at + 1 \in Addresses!Finds(text, marker) <=> Stands(text, at, marker)
  BY <1>2, <1>3, <1>4
<1>6. Addresses!Finds(text, marker) \in SUBSET (1..Len(text))
  <2>1. \A i \in 1..(m - n + 1) : i \in 1..m
    BY <1>1
  <2> QED BY <1>1, <1>2, <2>1
<1> QED BY <1>5, <1>6

\* f is the recursion of NumericAfter.
Later(text, marker, start) == {i \in Addresses!Finds(text, marker) : i >= start}
Counts(text, i, boundary) == ~boundary \/ i = 1 \/ text[i-1] \in {38, 63}
DigitsAt(text, i) == Addresses!RunOf(text, i, Addresses!Digits)
Reads(f, text, marker, boundary) ==
    f = [start \in Nat |->
           IF Later(text, marker, start) = {} THEN <<>>
           ELSE IF /\ Counts(text, Addresses!Min(Later(text, marker, start)), boundary)
                   /\ DigitsAt(text, Addresses!Min(Later(text, marker, start)) + Len(marker)) # <<>>
                THEN <<Addresses!ValueOfDigits(DigitsAt(text, Addresses!Min(Later(text, marker, start)) + Len(marker)))>>
                ELSE f[Addresses!Min(Later(text, marker, start)) + Len(marker)]]

\* The recursion of NumericAfter has a solution, of which it is the first value.
LEMMA NumericIs ==
    ASSUME NEW text \in Texts, NEW marker \in Texts, marker # <<>>, NEW boundary \in BOOLEAN
    PROVE  \E f : Reads(f, text, marker, boundary) /\ Addresses!NumericAfter(text, marker, boundary) = f[1]
<1> DEFINE later(s) == Later(text, marker, s)
           at(s) == Addresses!Min(later(s)) + Len(marker)
           read(s) == Counts(text, Addresses!Min(later(s)), boundary) /\ DigitsAt(text, at(s)) # <<>>
           value(s) == <<Addresses!ValueOfDigits(DigitsAt(text, at(s)))>>
           Stop == {s \in Nat : later(s) = {} \/ read(s)}
           head == [s \in Nat |-> IF later(s) = {} THEN <<>> ELSE value(s)]
           next == [s \in Nat |-> IF later(s) = {} THEN s + 1 ELSE at(s)]
<1>1. PICK n, m \in Nat : n = Len(marker) /\ m = Len(text) /\ n # 0
  BY DEF Texts
<1>2. Addresses!Finds(text, marker) \in SUBSET (1..m)
  BY <1>1, MarkersAre
<1>3. \A s \in Nat : later(s) # {} => Addresses!Min(later(s)) \in Nat /\ Addresses!Min(later(s)) >= s /\ Addresses!Min(later(s)) <= m
  <2> SUFFICES ASSUME NEW s \in Nat, later(s) # {}
               PROVE  Addresses!Min(later(s)) \in Nat /\ Addresses!Min(later(s)) >= s /\ Addresses!Min(later(s)) <= m
    OBVIOUS
  <2>1. later(s) \in SUBSET Nat /\ \A i \in later(s) : i >= s /\ i <= m
    BY <1>2 DEF Later
  <2>2. Addresses!Min(later(s)) \in later(s)
    <3> HIDE DEF later
    <3> QED BY <2>1, LeastOf
  <2> QED BY <2>1, <2>2
<1>4. \A s \in Nat : s > m => s \in Stop
  <2> SUFFICES ASSUME NEW s \in Nat, s > m, later(s) # {} PROVE FALSE
    OBVIOUS
  <2> QED BY <1>3
<1>5. \A s \in Nat : next[s] \in Nat /\ next[s] > s
  <2> SUFFICES ASSUME NEW s \in Nat PROVE next[s] \in Nat /\ next[s] > s
    OBVIOUS
  <2>1. CASE later(s) = {}
    BY <2>1
  <2>2. CASE later(s) # {}
    <3>1. PICK c \in Nat : c = Addresses!Min(later(s)) /\ c >= s
      BY <1>3, <2>2
    <3>2. next[s] = c + n
      BY <1>1, <2>2, <3>1, Zenon
    <3> QED BY <1>1, <3>1, <3>2
  <2> QED BY <2>1, <2>2
<1>6. PICK f : Recurses(f, Stop, head, next, FALSE)
  <2> HIDE DEF head, next, Stop
  <2> QED BY <1>4, <1>5, RecursionExists
<1> DEFINE From(s) == IF later(s) = {} THEN <<>> ELSE IF read(s) THEN value(s) ELSE f[at(s)]
<1>7. ASSUME NEW s \in Nat
      PROVE  (IF s \in Stop THEN head[s] ELSE IF FALSE THEN head[s] \o f[next[s]] ELSE f[next[s]]) = From(s)
  <2>1. /\ s \in Stop <=> later(s) = {} \/ read(s)
        /\ head[s] = IF later(s) = {} THEN <<>> ELSE value(s)
        /\ next[s] = IF later(s) = {} THEN s + 1 ELSE at(s)
    BY Zenon
  <2> HIDE DEF Stop, head, next, later, at, read, value
  <2> QED BY <2>1, Zenon
<1>8. [s \in Nat |-> IF s \in Stop THEN head[s] ELSE IF FALSE THEN head[s] \o f[next[s]] ELSE f[next[s]]]
        = [s \in Nat |-> From(s)]
  <2> HIDE DEF head, next, Stop, From
  <2> QED BY <1>7, Zenon
<1>9. Reads(f, text, marker, boundary)
  <2>1. f = [s \in Nat |-> From(s)]
    BY <1>6, <1>8, Zenon DEF Recurses
  <2> QED BY <2>1, Zenon DEF Reads
<1>10. \E g : Reads(g, text, marker, boundary)
  BY <1>9
<1> DEFINE g == CHOOSE g : Reads(g, text, marker, boundary)
<1>11. Reads(g, text, marker, boundary)
  BY <1>10, Zenon
<1>12. Addresses!NumericAfter(text, marker, boundary) = g[1]
  BY Zenon DEF Addresses!NumericAfter, Reads, Later, Counts, DigitsAt
<1> HIDE DEF g
<1> QED BY <1>11, <1>12

\* A step of that recursion.
ReadsAt(f, text, marker, boundary, start) ==
    LET i == Addresses!Min(Later(text, marker, start))
        digits == DigitsAt(text, i + Len(marker))
    IN  f[start] = IF Later(text, marker, start) = {} THEN <<>>
                   ELSE IF Counts(text, i, boundary) /\ digits # <<>> THEN <<Addresses!ValueOfDigits(digits)>>
                   ELSE f[i + Len(marker)]

LEMMA ReadingStep ==
    ASSUME NEW f, NEW text, NEW marker, NEW boundary \in BOOLEAN, Reads(f, text, marker, boundary), NEW start \in Nat
    PROVE  ReadsAt(f, text, marker, boundary, start)
<1>1. f[start] =
           IF Later(text, marker, start) = {} THEN <<>>
           ELSE IF /\ Counts(text, Addresses!Min(Later(text, marker, start)), boundary)
                   /\ DigitsAt(text, Addresses!Min(Later(text, marker, start)) + Len(marker)) # <<>>
                THEN <<Addresses!ValueOfDigits(DigitsAt(text, Addresses!Min(Later(text, marker, start)) + Len(marker)))>>
                ELSE f[Addresses!Min(Later(text, marker, start)) + Len(marker)]
  BY Zenon DEF Reads
<1> QED BY <1>1, Zenon DEF ReadsAt

\* Four texts stand one behind the other.
FourIn(text, a, b, c, d) ==
    /\ text \in Texts /\ text = ((a \o b) \o c) \o d
    /\ Len(text) = ((Len(a) + Len(b)) + Len(c)) + Len(d)
    /\ Stands(text, 0, a) /\ Stands(text, Len(a), b) /\ Stands(text, Len(a) + Len(b), c)
    /\ Stands(text, (Len(a) + Len(b)) + Len(c), d)

LEMMA FourInARow ==
    ASSUME NEW a \in Texts, NEW b \in Texts, NEW c \in Texts, NEW d \in Texts
    PROVE  \E text : FourIn(text, a, b, c, d)
<1>1. PICK ab \in Texts : ab = a \o b
  BY ConcatenationHasBoth
<1>2. PICK abc \in Texts : abc = ab \o c
  BY ConcatenationHasBoth
<1>3. PICK text \in Texts : text = abc \o d
  BY ConcatenationHasBoth
<1>4. Len(ab) = Len(a) + Len(b) /\ Stands(ab, 0, a) /\ Stands(ab, Len(a), b) /\ Len(a) \in Nat /\ Len(b) \in Nat
  BY <1>1, ConcatenationHasBoth, Zenon
<1>5. Len(abc) = Len(ab) + Len(c) /\ Stands(abc, 0, ab) /\ Stands(abc, Len(ab), c) /\ Len(ab) \in Nat
  BY <1>2, ConcatenationHasBoth, Zenon
<1>6. Len(text) = Len(abc) + Len(d) /\ Stands(text, 0, abc) /\ Stands(text, Len(abc), d) /\ Len(abc) \in Nat
  BY <1>3, ConcatenationHasBoth, Zenon
<1>7. ASSUME NEW x \in Texts, NEW y \in Texts, NEW n \in Nat, Stands(text, 0, x), Stands(x, n, y)
      PROVE  Stands(text, n, y)
  <2>1. Stands(text, 0 + n, y)
    BY <1>7, StandsWithin, 0 \in Nat, Zenon
  <2> QED BY <2>1, 0 + n = n
<1>8. Stands(text, 0, ab) /\ Stands(text, Len(ab), c)
  BY <1>5, <1>6, <1>7, 0 \in Nat, Zenon
<1>9. Stands(text, 0, a) /\ Stands(text, Len(a), b)
  BY <1>4, <1>7, <1>8, 0 \in Nat, Zenon
<1>10. text = ((a \o b) \o c) \o d
  BY <1>1, <1>2, <1>3, Zenon
<1>11. /\ Len(text) = ((Len(a) + Len(b)) + Len(c)) + Len(d)
       /\ Stands(text, Len(a) + Len(b), c)
       /\ Stands(text, (Len(a) + Len(b)) + Len(c), d)
  BY <1>4, <1>5, <1>6, <1>8, Zenon
<1> QED BY <1>9, <1>10, <1>11, Zenon DEF FourIn

\* Whatever stands around it, a reference is read up to its delimiter (segment_after), and as
\* a number if it has but digits (numeric_after).
THEOREM ReferencesAreRead ==
    ASSUME NEW before, NEW marker, NEW ref, NEW after, NEW delims,
           IsReference(before, marker, ref, after, delims)
    PROVE  Addresses!ReferenceIsRead(before, marker, ref, after, delims)
<1>1. /\ before \in Texts /\ marker \in Texts /\ ref \in Texts /\ after \in Texts
      /\ marker # <<>> /\ delims \cap Addresses!Digits = {}
      /\ \A i \in DOMAIN ref : ref[i] \notin delims
      /\ after = <<>> \/ after[1] \in delims
      /\ \A i \in Addresses!Finds(((before \o marker) \o ref) \o after, marker) : i > Len(before)
  BY DEF IsReference
<1>0. PICK row : FourIn(row, before, marker, ref, after)
  BY <1>1, FourInARow
<1>2. PICK text \in Texts :
        /\ text = ((before \o marker) \o ref) \o after
        /\ Len(text) = ((Len(before) + Len(marker)) + Len(ref)) + Len(after)
        /\ Stands(text, Len(before), marker) /\ Stands(text, Len(before) + Len(marker), ref)
        /\ Stands(text, (Len(before) + Len(marker)) + Len(ref), after)
  BY <1>0, Zenon DEF FourIn
<1>3. PICK b, n, r, a, m \in Nat :
        /\ b = Len(before) /\ n = Len(marker) /\ r = Len(ref) /\ a = Len(after) /\ m = Len(text)
        /\ b + n \in Nat
  BY <1>1 DEF Texts
<1>4. /\ Stands(text, b, marker) /\ Stands(text, b + n, ref) /\ Stands(text, (b + n) + r, after)
      /\ m = ((b + n) + r) + a
  BY <1>2, <1>3, Zenon
<1> DEFINE S == Addresses!Finds(text, marker)
<1>5. S \in SUBSET Nat /\ b + 1 \in S /\ \A i \in S : b + 1 <= i
  <2>1. S \in SUBSET (1..m) /\ b + 1 \in S
    BY <1>1, <1>3, <1>4, MarkersAre
  <2>2. \A i \in S : i > b
    BY <1>1, <1>2, <1>3, Zenon
  <2> HIDE DEF S
  <2> QED BY <2>1, <2>2
<1>6. Addresses!Min(S) = b + 1 /\ S # {}
  <2> HIDE DEF S
  <2> QED BY <1>5, LeastOf
<1>7. ASSUME NEW kept, \A i \in 1..r : ref[i] \in kept, kept \cap delims = {}
      PROVE  Addresses!RunOf(text, (b + n) + 1, kept) = ref
  <2>1. CASE a = 0
    <3>1. (b + n) + Len(ref) = Len(text)
      BY <1>3, <1>4, <2>1
    <3>2. \A i \in 1..Len(ref) : ref[i] \in kept
      BY <1>3, <1>7
    <3>3. Stands(text, b + n, ref) /\ b + n \in Nat /\ ref \in Texts
      BY <1>1, <1>3, <1>4
    <3> QED BY <3>1, <3>2, <3>3, RunIs
  <2>2. CASE a # 0
    <3>1. after[1] \in delims /\ 1 \in 1..Len(after)
      BY <1>1, <1>3, <2>2
    <3>2. text[((b + n) + r) + 1] = after[1]
      BY <1>4, <3>1, Zenon DEF Stands
    <3>3. (b + n) + Len(ref) < Len(text) /\ text[(b + n) + Len(ref) + 1] \notin kept
      BY <1>3, <1>4, <1>7, <2>2, <3>1, <3>2
    <3>4. \A i \in 1..Len(ref) : ref[i] \in kept
      BY <1>3, <1>7
    <3>5. Stands(text, b + n, ref) /\ b + n \in Nat /\ ref \in Texts
      BY <1>1, <1>3, <1>4
    <3> QED BY <3>3, <3>4, <3>5, RunIs
  <2> QED BY <2>1, <2>2
<1>8. Addresses!RunOf(text, (b + n) + 1, (0..255) \ delims) = ref
  <2>1. \A i \in 1..r : ref[i] \in (0..255) \ delims
    <3>1. \A i \in 1..r : ref[i] \in 0..255 /\ i \in DOMAIN ref
      BY <1>1, <1>3 DEF Texts
    <3> QED BY <1>1, <3>1
  <2>2. ((0..255) \ delims) \cap delims = {}
    OBVIOUS
  <2> QED BY <1>7, <2>1, <2>2
<1>9. (b + 1) + n = (b + n) + 1
  OBVIOUS
<1>10. Addresses!SegmentAfter(text, marker, delims) = IF ref = <<>> THEN <<>> ELSE <<ref>>
  <2>1. Addresses!SegmentAfter(text, marker, delims)
          = IF S = {} \/ Addresses!RunOf(text, Addresses!Min(S) + Len(marker), (0..255) \ delims) = <<>> THEN <<>>
            ELSE <<Addresses!RunOf(text, Addresses!Min(S) + Len(marker), (0..255) \ delims)>>
    BY Zenon DEF Addresses!SegmentAfter
  <2> HIDE DEF S
  <2> QED BY <1>3, <1>6, <1>8, <1>9, <2>1, Zenon
<1>11. ASSUME ref # <<>>, Addresses!AllDigits(ref)
       PROVE  Addresses!NumericAfter(text, marker, FALSE) = <<Addresses!ValueOfDigits(ref)>>
  <2>0. PICK no \in BOOLEAN : no = FALSE
    OBVIOUS
  <2>1. PICK f : Reads(f, text, marker, no) /\ Addresses!NumericAfter(text, marker, no) = f[1]
    BY <1>1, NumericIs
  <2>2. Later(text, marker, 1) = S
    <3>1. \A i \in S : i >= 1
      <4> HIDE DEF S
      <4> QED BY <1>5
    <3> QED BY <3>1 DEF Later
  <2>3. DigitsAt(text, (b + 1) + Len(marker)) = ref
    <3>1. \A i \in 1..r : ref[i] \in Addresses!Digits
      <4>1. \A i \in 1..r : i \in DOMAIN ref
        BY <1>1, <1>3 DEF Texts
      <4> QED BY <1>11, <4>1 DEF Addresses!AllDigits
    <3>2. Addresses!Digits \cap delims = {}
      BY <1>1
    <3>3. Addresses!RunOf(text, (b + n) + 1, Addresses!Digits) = ref
      BY <1>7, <3>1, <3>2
    <3> QED BY <1>3, <1>9, <3>3, Zenon DEF DigitsAt
  <2>4. Counts(text, b + 1, no)
    BY <2>0 DEF Counts
  <2> HIDE DEF S
  <2>5. f[1] = IF Counts(text, b + 1, no) /\ DigitsAt(text, (b + 1) + Len(marker)) # <<>>
               THEN <<Addresses!ValueOfDigits(DigitsAt(text, (b + 1) + Len(marker)))>>
               ELSE f[(b + 1) + Len(marker)]
    <3>1. Later(text, marker, 1) # {} /\ Addresses!Min(Later(text, marker, 1)) = b + 1
      BY <1>6, <2>2, Zenon
    <3>2. Reads(f, text, marker, no)
      BY <2>1, Zenon
    <3>3. ReadsAt(f, text, marker, no, 1)
      BY <3>2, ReadingStep, 1 \in Nat
    <3> QED BY <3>1, <3>3, Zenon DEF ReadsAt
  <2> QED BY <1>11, <2>0, <2>1, <2>3, <2>4, <2>5, Zenon
<1> HIDE DEF S
<1>12. /\ Addresses!SegmentAfter(text, marker, delims) = IF ref = <<>> THEN <<>> ELSE <<ref>>
       /\ /\ Addresses!SegmentAfter(text, marker, delims) # <<>>
          /\ Addresses!AllDigits(Addresses!SegmentAfter(text, marker, delims)[1])
          => Addresses!NumericAfter(text, marker, FALSE) = <<Addresses!ValueOfDigits(ref)>>
  <2>1. CASE ref = <<>>
    BY <1>10, <2>1, Zenon
  <2>2. CASE ref # <<>>
    <3>1. Addresses!SegmentAfter(text, marker, delims) = <<ref>>
      BY <1>10, <2>2, Zenon
    <3>2. <<ref>>[1] = ref
      OBVIOUS
    <3> QED BY <1>10, <1>11, <2>2, <3>1, <3>2, Zenon
  <2> QED BY <2>1, <2>2
<1> QED BY <1>2, <1>12, Zenon DEF Addresses!ReferenceIsRead

\* The value of one digit.
LEMMA OneDigit ==
    ASSUME NEW v \in 0..9
    PROVE  Addresses!ValueOfDigits(<<48 + v>>) = v
<1> DEFINE digits == <<48 + v>>
           last(s) == Addresses!Max(s)
           Is(h) == h = [s \in SUBSET (DOMAIN digits) |->
                           IF s = {} THEN 0 ELSE h[s \ {last(s)}] * 10 + (digits[last(s)] - 48)]
<1>1. DOMAIN digits = {1} /\ digits[1] = 48 + v
  OBVIOUS
<1>2. Addresses!Max({1}) = 1
  BY DEF Addresses!Max
<1> DEFINE g == [s \in SUBSET (DOMAIN digits) |-> IF s = {} THEN 0 ELSE v]
<1>3. \A s \in SUBSET (DOMAIN digits) : s = {} \/ s = {1}
  BY <1>1
<1>4. Is(g)
  <2>1. ASSUME NEW s \in SUBSET (DOMAIN digits)
        PROVE  (IF s = {} THEN 0 ELSE v) = IF s = {} THEN 0 ELSE g[s \ {last(s)}] * 10 + (digits[last(s)] - 48)
    <3>1. CASE s = {1}
      <4>1. last(s) = 1 /\ s \ {1} = {} /\ {} \in SUBSET (DOMAIN digits)
        BY <1>2, <3>1
      <4>2. g[{}] = 0
        BY <4>1
      <4> HIDE DEF g, digits, last
      <4>3. g[s \ {last(s)}] = 0 /\ digits[last(s)] = 48 + v
        BY <1>1, <4>1, <4>2
      <4> QED BY <3>1, <4>3
    <3> QED BY <1>3, <3>1
  <2> HIDE DEF digits, last
  <2> QED BY <2>1
<1> DEFINE h == CHOOSE h : Is(h)
<1>5. Is(h)
  <2> HIDE DEF Is
  <2>1. \E q : Is(q)
    BY <1>4
  <2> QED BY <2>1, Zenon
<1>6. Addresses!ValueOfDigits(digits) = h[DOMAIN digits]
  <2> HIDE DEF digits
  <2> QED BY Zenon DEF Addresses!ValueOfDigits, Addresses!FoldLeft, Addresses!MapThenFoldSet
<1> HIDE DEF h
<1>7. h[{}] = 0 /\ h[{1}] = h[{}] * 10 + ((48 + v) - 48)
  <2>1. last({1}) = 1 /\ {1} \ {1} = {} /\ {1} # {} /\ {} \in SUBSET (DOMAIN digits) /\ {1} \in SUBSET (DOMAIN digits)
    BY <1>1, <1>2
  <2> HIDE DEF digits, last
  <2>2. h[{1}] = IF {1} = {} THEN 0 ELSE h[{1} \ {last({1})}] * 10 + (digits[last({1})] - 48)
    BY <1>5, <2>1, Zenon
  <2>3. h[{}] = IF {} = {} THEN 0 ELSE h[{} \ {last({})}] * 10 + (digits[last({})] - 48)
    BY <1>5, <2>1, Zenon
  <2> QED BY <1>1, <2>1, <2>2, <2>3
<1> QED BY <1>1, <1>6, <1>7

LEMMA KeyIs ==
    ASSUME NEW key, IsKey(key)
    PROVE  key \in Texts /\ \A i \in 1..Len(key) : key[i] \notin {38, 61, 63}
<1>1. key \in Seq(Byte) /\ Len(key) \in Nat /\ \A i \in 1..Len(key) : key[i] \in KeyBytes
  <2>1. KeyBytes \subseteq Byte
    BY DEF KeyBytes, Byte
  <2>2. key \in Seq(KeyBytes)
    BY DEF IsKey
  <2>3. Len(key) \in Nat /\ \A i \in 1..Len(key) : key[i] \in KeyBytes
    BY <2>2
  <2>4. Seq(KeyBytes) \subseteq Seq(Byte)
    BY <2>1, SeqMonotonic
  <2> QED BY <2>2, <2>3, <2>4
<1> QED BY <1>1 DEF Texts, KeyBytes, Byte

\* Where the m-th pair of a query is in its text: behind from bytes, its key behind at bytes,
\* its last byte at to.
IsPair(text, key, value, m, from, at, to) ==
    /\ key \in Texts /\ \A i \in 1..Len(key) : key[i] \notin {38, 61, 63}
    /\ value \in 0..9
    /\ m = 1 => at = from
    /\ m # 1 => at = from + 1 /\ text[at] = 38
    /\ Stands(text, at, key)
    /\ to = (at + Len(key)) + 2 /\ to <= Len(text)
    /\ text[(at + Len(key)) + 1] = 61 /\ text[to] = 48 + value

\* The pairs of a query in its text.
LaidOut(text, query, N, z, b) ==
    /\ text \in Texts /\ N \in Nat /\ DOMAIN query = 1..N
    /\ z \in [0..N -> Nat] /\ b \in [1..N -> Nat]
    /\ z[0] = 0 /\ z[N] = Len(text)
    /\ \A m \in 1..N : IsPair(text, query[m].key, query[m].value, m, z[m-1], b[m], z[m])

PairText(key, value, m) == (((IF m = 1 THEN <<>> ELSE <<38>>) \o key) \o <<61>>) \o <<48 + value>>
PairOf(query, i) == PairText(query[i].key, query[i].value, i)
QueryText(query) == FlattenSeq([i \in DOMAIN query |-> PairOf(query, i)])

\* Where the parts of a pair are, in a text that has the pair behind from bytes.
LEMMA PairIs ==
    ASSUME NEW key \in Seq(KeyBytes), NEW value \in 0..9, NEW m \in Nat,
           NEW pair, pair = PairText(key, value, m)
    PROVE  /\ pair \in Texts
           /\ \A text \in Texts : \A from \in Nat :
                Stands(text, from, pair) /\ from + Len(pair) <= Len(text) =>
                   \E at \in Nat : IsPair(text, key, value, m, from, at, from + Len(pair))
<1> DEFINE amp == IF m = 1 THEN <<>> ELSE <<38>>
           skip == IF m = 1 THEN 0 ELSE 1
<1>1. key \in Texts /\ \A i \in 1..Len(key) : key[i] \notin {38, 61, 63}
  BY KeyIs DEF IsKey
<1>2. amp \in Texts /\ Len(amp) = skip /\ (m # 1 => amp[1] = 38) /\ skip \in {0, 1}
  <2>1. CASE m = 1
    BY <2>1 DEF Texts
  <2>2. CASE m # 1
    <3>1. amp = <<38>> /\ skip = 1
      BY <2>2
    <3> HIDE DEF amp, skip
    <3> QED BY <3>1 DEF Texts
  <2> QED BY <2>1, <2>2
<1>3. <<61>> \in Texts /\ <<48 + value>> \in Texts /\ Len(<<61>>) = 1 /\ Len(<<48 + value>>) = 1
  <2>1. 48 + value \in 0..255
    OBVIOUS
  <2> QED BY <2>1 DEF Texts
<1>4. <<61>>[1] = 61 /\ <<48 + value>>[1] = 48 + value
  OBVIOUS
<1>5. m = 1 => skip = 0
  OBVIOUS
<1>6. m # 1 => skip = 1
  OBVIOUS
<1>7. pair = ((amp \o key) \o <<61>>) \o <<48 + value>>
  BY DEF PairText
<1> HIDE DEF amp, skip
<1>8. PICK k, l \in Nat : k = Len(key) /\ l = skip
  BY <1>1, <1>2 DEF Texts
<1>9. /\ pair \in Texts
      /\ Len(pair) = ((Len(amp) + Len(key)) + Len(<<61>>)) + Len(<<48 + value>>)
      /\ Stands(pair, 0, amp) /\ Stands(pair, Len(amp), key) /\ Stands(pair, Len(amp) + Len(key), <<61>>)
      /\ Stands(pair, (Len(amp) + Len(key)) + Len(<<61>>), <<48 + value>>)
  <2>1. PICK t : FourIn(t, amp, key, <<61>>, <<48 + value>>)
    BY <1>1, <1>2, <1>3, FourInARow
  <2>2. t = pair
    BY <1>7, <2>1, Zenon DEF FourIn
  <2> QED BY <2>1, <2>2, Zenon DEF FourIn
<1>10. /\ Len(pair) = ((l + k) + 1) + 1
       /\ Stands(pair, 0, amp) /\ Stands(pair, l, key) /\ Stands(pair, l + k, <<61>>)
       /\ Stands(pair, (l + k) + 1, <<48 + value>>)
  BY <1>2, <1>3, <1>8, <1>9, Zenon
<1>11. l + k \in Nat /\ (l + k) + 1 \in Nat
  OBVIOUS
<1>12. ASSUME NEW text \in Texts, NEW from \in Nat, Stands(text, from, pair), from + Len(pair) <= Len(text)
       PROVE  \E at \in Nat : IsPair(text, key, value, m, from, at, from + Len(pair))
  <2>1. /\ Stands(text, from + 0, amp) /\ Stands(text, from + l, key) /\ Stands(text, from + (l + k), <<61>>)
        /\ Stands(text, from + ((l + k) + 1), <<48 + value>>)
    <3>1. \A part \in Texts : \A n \in Nat : Stands(pair, n, part) => Stands(text, from + n, part)
      BY <1>9, <1>12, StandsWithin, Zenon
    <3>2. amp \in Texts /\ key \in Texts /\ <<61>> \in Texts /\ <<48 + value>> \in Texts
      BY <1>1, <1>2, <1>3, Zenon
    <3> QED BY <1>10, <1>11, <3>1, <3>2, 0 \in Nat, Zenon
  <2>2. m # 1 => text[(from + 0) + 1] = 38
    <3>1. ASSUME m # 1 PROVE 1 \in 1..Len(amp)
      BY <1>2, <1>6, <3>1
    <3> QED BY <1>2, <2>1, <3>1, Zenon DEF Stands
  <2>3. text[(from + (l + k)) + 1] = 61 /\ text[(from + ((l + k) + 1)) + 1] = 48 + value
    <3>1. 1 \in 1..Len(<<61>>) /\ 1 \in 1..Len(<<48 + value>>)
      BY <1>3
    <3> QED BY <1>4, <2>1, <3>1, Zenon DEF Stands
  <2>4. PICK at, to \in Nat : at = from + l /\ to = from + Len(pair)
    <3>1. Len(pair) = ((l + k) + 1) + 1
      BY <1>10, Zenon
    <3>2. ((l + k) + 1) + 1 \in Nat
      OBVIOUS
    <3>3. PICK n \in Nat : n = Len(pair)
      BY <3>1, <3>2, Zenon
    <3>4. from + l \in Nat /\ from + n \in Nat /\ from + n = from + Len(pair)
      BY <3>3
    <3> QED BY <3>4, Zenon
  <2>5. /\ (from + (l + k)) + 1 = (at + k) + 1 /\ to = (at + k) + 2 /\ (from + ((l + k) + 1)) + 1 = to
        /\ (l = 1 => (from + 0) + 1 = at) /\ (l = 0 => at = from) /\ (l = 1 => at = from + 1)
    BY <1>10, <2>4
  <2>6. m = 1 => at = from
    BY <1>5, <1>8, <2>5
  <2>7. m # 1 => at = from + 1 /\ text[at] = 38
    BY <1>6, <1>8, <2>2, <2>5
  <2>8. Stands(text, at, key) /\ text[(at + k) + 1] = 61 /\ text[to] = 48 + value
    BY <2>1, <2>3, <2>4, <2>5, Zenon
  <2>9. to <= Len(text)
    BY <1>12, <2>4
  <2>10. IsPair(text, key, value, m, from, at, to)
    BY <1>1, <1>8, <2>5, <2>6, <2>7, <2>8, <2>9, Zenon DEF IsPair
  <2> QED BY <2>4, <2>10, Zenon
<1> QED BY <1>9, <1>12

\* The text of a query has its pairs one behind the other.
LEMMA QueryIsLaidOut ==
    ASSUME NEW query, IsQuery(query)
    PROVE  \E N, z, b : LaidOut(QueryText(query), query, N, z, b)
<1>1. PICK N \in Nat : N = Len(query) /\ DOMAIN query = 1..N
  BY DEF IsQuery
<1>2. \A i \in 1..N : query[i].key \in Seq(KeyBytes) /\ query[i].value \in 0..9
  <2> DEFINE K == Seq(KeyBytes)
             R == [key : K, value : 0..9]
  <2>1. \A r \in R : r.key \in K /\ r.value \in 0..9
    <3> HIDE DEF K
    <3> QED OBVIOUS
  <2>2. query \in Seq(R)
    BY DEF IsQuery
  <2> HIDE DEF R
  <2>3. \A i \in 1..N : query[i] \in R
    BY <1>1, <2>2
  <2> HIDE DEF K
  <2>4. \A i \in 1..N : query[i].key \in K /\ query[i].value \in 0..9
    BY <2>1, <2>3, Zenon
  <2> QED BY <2>4 DEF K
<1> DEFINE c == [i \in 1..N |-> PairOf(query, i)]
<1>3. ASSUME NEW i \in 1..N
      PROVE  /\ c[i] \in Texts
             /\ \A text \in Texts : \A from \in Nat :
                  Stands(text, from, c[i]) /\ from + Len(c[i]) <= Len(text) =>
                    \E at \in Nat : IsPair(text, query[i].key, query[i].value, i, from, at, from + Len(c[i]))
  <2>1. c[i] = PairText(query[i].key, query[i].value, i)
    BY Zenon DEF PairOf
  <2>2. query[i].key \in Seq(KeyBytes) /\ query[i].value \in 0..9 /\ i \in Nat
    BY <1>2
  <2> HIDE DEF c
  <2> QED BY <2>1, <2>2, PairIs, Zenon
<1>4. QueryText(query) = FlattenSeq(c)
  BY <1>1, Zenon DEF QueryText
<1>5. c \in [1..N -> Texts]
  <2>1. \A i \in 1..N : c[i] \in Texts
    BY <1>3
  <2>2. c = [i \in 1..N |-> c[i]]
    BY Zenon
  <2> HIDE DEF c
  <2> QED BY <2>1, <2>2
<1> HIDE DEF c
<1>6. PICK text \in Texts : text = QueryText(query) /\ \E p : Pieces(p, text, c, N)
  BY <1>4, <1>5, FlattenPieces DEF Texts
<1>7. PICK z : Pieces(z, text, c, N)
  BY <1>6
<1>8. /\ z \in [0..N -> Nat] /\ z[0] = 0 /\ z[N] = Len(text)
      /\ \A i \in 1..N : z[i] = z[i - 1] + Len(c[i]) /\ z[i] <= z[N]
      /\ \A i \in 1..N : \A k \in 1..Len(c[i]) : text[z[i - 1] + k] = c[i][k]
  BY <1>7, Zenon DEF Pieces
<1>9. ASSUME NEW i \in 1..N
      PROVE  \E at \in Nat : IsPair(text, query[i].key, query[i].value, i, z[i - 1], at, z[i])
  <2>1. z[i - 1] \in Nat /\ z[i] = z[i - 1] + Len(c[i]) /\ z[i] <= Len(text) /\ z[i] \in Nat
    BY <1>8
  <2>2. PICK k, from, m \in Nat : k = Len(c[i]) /\ from = z[i - 1] /\ m = Len(text) /\ from + k <= m
    <3>1. Len(c[i]) \in Nat /\ Len(text) \in Nat
      BY <1>5 DEF Texts
    <3> QED BY <2>1, <3>1
  <2>3. Stands(text, from, c[i])
    <3>1. ASSUME NEW j \in 1..k PROVE from + j \in 1..m /\ text[from + j] = c[i][j]
      <4>1. text[z[i - 1] + j] = c[i][j]
        BY <1>8, <2>2, Zenon
      <4>2. from + j \in 1..m
        BY <2>2
      <4> QED BY <2>2, <4>1, <4>2, Zenon
    <3> QED BY <2>2, <3>1, Zenon DEF Stands
  <2>4. from + Len(c[i]) <= Len(text)
    BY <2>1, <2>2
  <2>5. \E at \in Nat : IsPair(text, query[i].key, query[i].value, i, from, at, from + Len(c[i]))
    BY <1>3, <2>3, <2>4, Zenon
  <2> QED BY <2>1, <2>2, <2>5, Zenon
<1> DEFINE place(i) == CHOOSE at : at \in Nat /\ IsPair(text, query[i].key, query[i].value, i, z[i - 1], at, z[i])
           b == [i \in 1..N |-> place(i)]
<1>10. \A i \in 1..N : b[i] \in Nat /\ IsPair(text, query[i].key, query[i].value, i, z[i - 1], b[i], z[i])
  <2> SUFFICES ASSUME NEW i \in 1..N
               PROVE  b[i] \in Nat /\ IsPair(text, query[i].key, query[i].value, i, z[i - 1], b[i], z[i])
    OBVIOUS
  <2>1. b[i] = CHOOSE at : at \in Nat /\ IsPair(text, query[i].key, query[i].value, i, z[i - 1], at, z[i])
    BY Zenon
  <2>2. \E at : at \in Nat /\ IsPair(text, query[i].key, query[i].value, i, z[i - 1], at, z[i])
    BY <1>9, Zenon
  <2> DEFINE Fits(at) == at \in Nat /\ IsPair(text, query[i].key, query[i].value, i, z[i - 1], at, z[i])
             a == CHOOSE at : Fits(at)
  <2>3. Fits(a)
    <3>1. \E at : Fits(at)
      BY <2>2
    <3> HIDE DEF Fits
    <3> QED BY <3>1, Zenon
  <2>4. b[i] = a
    BY <2>1, Zenon
  <2> HIDE DEF Fits, b, a
  <2>5. Fits(b[i])
    BY <2>3, <2>4, Zenon
  <2> QED BY <2>5 DEF Fits
<1>11. b = [i \in 1..N |-> b[i]]
  <2> HIDE DEF place
  <2> QED BY Zenon
<1> HIDE DEF b
<1>12. b \in [1..N -> Nat]
  BY <1>10, <1>11
<1>13. LaidOut(text, query, N, z, b)
  BY <1>1, <1>8, <1>10, <1>12, Zenon DEF LaidOut
<1> QED BY <1>6, <1>13, Zenon

\* A pair is not empty, and its key is in it.
LEMMA PairPlaces ==
    ASSUME NEW text, NEW query, NEW N, NEW z, NEW b, LaidOut(text, query, N, z, b), NEW m \in 1..N
    PROVE  /\ IsPair(text, query[m].key, query[m].value, m, z[m - 1], b[m], z[m])
           /\ query[m].key \in Texts /\ Len(query[m].key) \in Nat
           /\ z[m - 1] \in Nat /\ z[m] \in Nat /\ b[m] \in Nat /\ Len(text) \in Nat
           /\ z[m - 1] <= b[m] /\ b[m] < z[m] /\ z[m] <= Len(text)
           /\ z[m] = (b[m] + Len(query[m].key)) + 2
<1>1. IsPair(text, query[m].key, query[m].value, m, z[m - 1], b[m], z[m])
  BY DEF LaidOut
<1>2. query[m].key \in Texts /\ Len(query[m].key) \in Nat
  BY <1>1 DEF IsPair, Texts
<1>3. z[m - 1] \in Nat /\ z[m] \in Nat /\ b[m] \in Nat /\ Len(text) \in Nat
  <2>1. N \in Nat /\ z \in [0..N -> Nat] /\ b \in [1..N -> Nat] /\ text \in Texts
    BY DEF LaidOut
  <2>2. m - 1 \in 0..N /\ m \in 0..N
    BY <2>1
  <2> QED BY <2>1, <2>2 DEF Texts
<1>4. /\ m = 1 => b[m] = z[m - 1]
      /\ m # 1 => b[m] = z[m - 1] + 1
      /\ z[m] = (b[m] + Len(query[m].key)) + 2 /\ z[m] <= Len(text)
  BY <1>1 DEF IsPair
<1>5. z[m - 1] <= b[m]
  BY <1>3, <1>4
<1>6. b[m] < z[m]
  BY <1>2, <1>3, <1>4
<1> QED BY <1>1, <1>2, <1>3, <1>4, <1>5, <1>6

\* Pairs follow one another, and leave no byte out.
LEMMA PairsFollow ==
    ASSUME NEW text, NEW query, NEW N, NEW z, NEW b, LaidOut(text, query, N, z, b)
    PROVE  /\ \A n, m \in 0..N : n <= m => z[n] <= z[m]
           /\ \A j \in 1..Len(text) : \E m \in 1..N : z[m - 1] < j /\ j <= z[m]
<1>1. N \in Nat /\ z \in [0..N -> Nat] /\ z[0] = 0 /\ z[N] = Len(text)
  BY DEF LaidOut
<1>2. \A m \in 1..N : z[m - 1] <= z[m]
  <2> SUFFICES ASSUME NEW m \in 1..N PROVE z[m - 1] <= z[m]
    OBVIOUS
  <2>1. z[m - 1] \in Nat /\ z[m] \in Nat /\ b[m] \in Nat /\ z[m - 1] <= b[m] /\ b[m] < z[m]
    BY PairPlaces
  <2> QED BY <2>1
<1> DEFINE T == {d \in Nat : \A n \in 0..N : n + d <= N => z[n] <= z[n + d]}
<1>3. 0 \in T
  BY <1>1
<1>4. ASSUME NEW d \in T PROVE d + 1 \in T
  <2> SUFFICES ASSUME NEW n \in 0..N, n + (d + 1) <= N PROVE z[n] <= z[n + (d + 1)]
    BY <1>1
  <2>1. d \in Nat /\ n + d \in 0..N /\ n + (d + 1) \in 1..N /\ (n + (d + 1)) - 1 = n + d /\ n + (d + 1) \in 0..N
    BY <1>1
  <2>2. z[n] <= z[n + d]
    BY <2>1
  <2>3. z[n + d] <= z[n + (d + 1)]
    BY <1>2, <2>1
  <2>4. z[n] \in Nat /\ z[n + d] \in Nat /\ z[n + (d + 1)] \in Nat
    BY <1>1, <2>1
  <2> QED BY <2>2, <2>3, <2>4
<1>5. T = Nat
  <2>1. T \in SUBSET Nat
    OBVIOUS
  <2> HIDE DEF T
  <2> QED BY <1>3, <1>4, <2>1, SetInduction
<1>6. ASSUME NEW n \in 0..N, NEW m \in 0..N, n <= m PROVE z[n] <= z[m]
  <2>1. m - n \in Nat /\ n + (m - n) = m /\ n + (m - n) <= N
    BY <1>1, <1>6
  <2>2. m - n \in T
    BY <1>5, <2>1
  <2>3. z[n] <= z[n + (m - n)]
    BY <2>1, <2>2
  <2> QED BY <2>1, <2>3
<1>7. ASSUME NEW j \in 1..Len(text) PROVE \E m \in 1..N : z[m - 1] < j /\ j <= z[m]
  <2> DEFINE R == {m \in 0..N : j <= z[m]}
  <2>1. N \in R /\ R \in SUBSET Nat /\ 0 \notin R
    BY <1>1
  <2>2. PICK m \in R : \A k \in R : m <= k
    <3> HIDE DEF R
    <3> QED BY <2>1, LeastNumber
  <2>3. m \in 1..N /\ m - 1 \in 0..N /\ m - 1 \notin R
    <3>1. m # 0 /\ m \in 0..N
      BY <2>1
    <3>2. m - 1 \in 0..N /\ m \in 1..N /\ ~(m <= m - 1)
      BY <1>1, <3>1
    <3> HIDE DEF R
    <3> QED BY <2>2, <3>2
  <2>4. z[m - 1] \in Nat /\ j \in Nat
    BY <1>1, <2>3
  <2> QED BY <2>3, <2>4
<1> QED BY <1>6, <1>7

\* What a marker that stands somewhere consists of.
LEMMA MarkerStands ==
    ASSUME NEW text \in Texts, NEW key \in Texts, NEW at \in Nat
    PROVE  /\ key \o <<61>> \in Texts /\ key \o <<61>> # <<>> /\ Len(key \o <<61>>) = Len(key) + 1
           /\ Stands(text, at, key \o <<61>>) <=>
                Stands(text, at, key) /\ (at + Len(key)) + 1 <= Len(text) /\ text[(at + Len(key)) + 1] = 61
<1>1. <<61>> \in Texts /\ Len(<<61>>) = 1 /\ <<61>>[1] = 61
  BY DEF Texts
<1>2. PICK marker \in Texts : marker = key \o <<61>>
  BY <1>1, ConcatenationHasBoth
<1>3. Len(marker) = Len(key) + 1 /\ Stands(marker, 0, key) /\ Stands(marker, Len(key), <<61>>)
  <2>1. PICK equals \in Texts : equals = <<61>>
    BY <1>1
  <2>2. marker = key \o equals
    BY <1>2, <2>1
  <2>3. Len(marker) = Len(key) + Len(equals) /\ Stands(marker, 0, key) /\ Stands(marker, Len(key), equals)
    BY <2>2, ConcatenationHasBoth, Zenon
  <2> QED BY <1>1, <2>1, <2>3, Zenon
<1>4. PICK k, m \in Nat : k = Len(key) /\ m = Len(text)
  BY DEF Texts
<1>5. Len(marker) = k + 1 /\ (\A i \in 1..k : marker[i] = key[i]) /\ marker[k + 1] = 61
  <2>1. \A i \in 1..k : marker[0 + i] = key[i] /\ 0 + i = i
    BY <1>3, <1>4 DEF Stands
  <2>2. marker[k + 1] = <<61>>[1]
    <3>1. 1 \in 1..Len(<<61>>)
      BY <1>1
    <3> QED BY <1>3, <1>4, <3>1, Zenon DEF Stands
  <2> QED BY <1>1, <1>3, <1>4, <2>1, <2>2
<1>6. Stands(text, at, marker) <=>
        Stands(text, at, key) /\ (at + k) + 1 <= m /\ text[(at + k) + 1] = 61
  <2>1. ASSUME Stands(text, at, marker)
        PROVE  Stands(text, at, key) /\ (at + k) + 1 <= m /\ text[(at + k) + 1] = 61
    <3>1. \A i \in 1..(k + 1) : at + i \in 1..m /\ text[at + i] = marker[i]
      BY <1>4, <1>5, <2>1 DEF Stands
    <3>2. \A i \in 1..k : at + i \in 1..m /\ text[at + i] = key[i]
      BY <1>5, <3>1
    <3>3. k + 1 \in 1..(k + 1) /\ at + (k + 1) = (at + k) + 1
      OBVIOUS
    <3>4. (at + k) + 1 \in 1..m /\ text[(at + k) + 1] = 61
      BY <1>5, <3>1, <3>3
    <3> QED BY <1>4, <3>2, <3>4 DEF Stands
  <2>2. ASSUME Stands(text, at, key), (at + k) + 1 <= m, text[(at + k) + 1] = 61
        PROVE  Stands(text, at, marker)
    <3> SUFFICES ASSUME NEW i \in 1..(k + 1) PROVE at + i \in 1..m /\ text[at + i] = marker[i]
      BY <1>4, <1>5 DEF Stands
    <3>1. CASE i = k + 1
      <4>1. at + i = (at + k) + 1 /\ (at + k) + 1 \in 1..m
        BY <2>2, <3>1
      <4> QED BY <1>5, <2>2, <3>1, <4>1, Zenon
    <3>2. CASE i # k + 1
      <4>1. i \in 1..k
        BY <3>2
      <4> QED BY <1>4, <1>5, <2>2, <4>1, Zenon DEF Stands
    <3> QED BY <3>1, <3>2
  <2> QED BY <2>1, <2>2
<1>7. marker # <<>>
  BY <1>5
<1> QED BY <1>2, <1>3, <1>4, <1>6, <1>7, Zenon

\* The marker of a key stands in a text.
MarkerAt(text, at, key) == Stands(text, at, key \o <<61>>)

\* Where the marker of a key is found: at the end of a key, and at its start exactly if it is the key.
LEMMA MarkerIsInPair ==
    ASSUME NEW text, NEW query, NEW N, NEW z, NEW b, LaidOut(text, query, N, z, b),
           NEW key, IsKey(key), NEW at \in Nat, MarkerAt(text, at, key)
    PROVE  \E m \in 1..N : /\ (at + Len(key)) + 2 = z[m] /\ b[m] <= at
                           /\ at = b[m] <=> query[m].key = key
                           /\ at # b[m] => at \in Nat \ {0} /\ text[at] \notin {38, 63}
<1>1. text \in Texts /\ key \in Texts /\ \A i \in 1..Len(key) : key[i] \notin {38, 61, 63}
  BY KeyIs DEF LaidOut
<1>2. PICK k, l \in Nat : k = Len(key) /\ l = Len(text)
  BY <1>1 DEF Texts
<1>3. Stands(text, at, key) /\ (at + k) + 1 <= l /\ text[(at + k) + 1] = 61
  <2>1. Stands(text, at, key) /\ (at + Len(key)) + 1 <= Len(text) /\ text[(at + Len(key)) + 1] = 61
    BY <1>1, MarkerStands DEF MarkerAt
  <2> QED BY <1>2, <2>1, Zenon
<1>4. (at + k) + 1 \in 1..l
  BY <1>3
<1>5. PICK m \in 1..N : z[m - 1] < (at + k) + 1 /\ (at + k) + 1 <= z[m]
  BY <1>2, <1>4, PairsFollow
<1> DEFINE own == query[m].key
<1>6. /\ IsPair(text, own, query[m].value, m, z[m - 1], b[m], z[m])
      /\ own \in Texts /\ Len(own) \in Nat
      /\ z[m - 1] \in Nat /\ z[m] \in Nat /\ b[m] \in Nat
      /\ z[m - 1] <= b[m] /\ b[m] < z[m] /\ z[m] <= Len(text)
      /\ z[m] = (b[m] + Len(own)) + 2
  BY PairPlaces
<1> HIDE DEF own
<1>7. PICK from, start, end, o \in Nat : from = z[m - 1] /\ start = b[m] /\ end = z[m] /\ o = Len(own)
  BY <1>6
<1>8. /\ end = (start + o) + 2 /\ from <= start /\ from < (at + k) + 1 /\ (at + k) + 1 <= end
      /\ m = 1 => start = from
      /\ m # 1 => start = from + 1 /\ text[start] = 38
      /\ \A i \in 1..o : own[i] \notin {38, 61, 63} /\ text[start + i] = own[i]
      /\ text[(start + o) + 1] = 61 /\ text[end] \in 48..57
  <2>1. end = (start + o) + 2 /\ from <= start /\ from < (at + k) + 1 /\ (at + k) + 1 <= end
    BY <1>5, <1>6, <1>7
  <2>2. /\ m = 1 => start = from
        /\ m # 1 => start = from + 1 /\ text[start] = 38
        /\ text[(start + o) + 1] = 61
    BY <1>6, <1>7, Zenon DEF IsPair
  <2>3. \A i \in 1..o : own[i] \notin {38, 61, 63}
    BY <1>6, <1>7, Zenon DEF IsPair
  <2>4. \A i \in 1..o : text[start + i] = own[i]
    BY <1>6, <1>7, Zenon DEF IsPair, Stands
  <2>5. text[end] = 48 + query[m].value /\ query[m].value \in 0..9
    BY <1>6, <1>7, Zenon DEF IsPair
  <2>6. text[end] \in 48..57
    BY <2>5
  <2> QED BY <2>1, <2>2, <2>3, <2>4, <2>6
<1>9. (at + k) + 1 = (start + o) + 1
  <2>1. CASE (at + k) + 1 = end
    BY <1>3, <1>8, <2>1
  <2>2. CASE (at + k) + 1 <= start
    <3>1. m # 1 /\ (at + k) + 1 = start
      BY <1>8, <2>2
    <3> QED BY <1>3, <1>8, <3>1
  <2>3. CASE (at + k) + 1 > start /\ (at + k) + 1 <= start + o
    <3>1. PICK i \in 1..o : start + i = (at + k) + 1
      <4>1. ((at + k) + 1) - start \in 1..o /\ start + (((at + k) + 1) - start) = (at + k) + 1
        BY <2>3
      <4> QED BY <4>1, Zenon
    <3>2. own[i] # 61 /\ text[start + i] = own[i]
      BY <1>8
    <3> QED BY <1>3, <3>1, <3>2
  <2> QED BY <1>8, <2>1, <2>2, <2>3
<1>10. start <= at
  <2> SUFFICES ASSUME at < start PROVE FALSE
    OBVIOUS
  <2>1. m # 1 => text[start] = 38
    BY <1>8
  <2>2. ASSUME m = 1 PROVE FALSE
    <3>1. z[0] = 0
      BY DEF LaidOut
    <3>2. from = 0
      <4>1. m - 1 = 0
        BY <2>2
      <4> QED BY <1>7, <3>1, <4>1, Zenon
    <3> QED BY <1>8, <2>2, <3>2
  <2>3. PICK i \in 1..k : at + i = start
    <3>1. start - at \in 1..k /\ at + (start - at) = start
      BY <1>9
    <3> QED BY <3>1, Zenon
  <2>4. text[at + i] = key[i] /\ key[i] # 38
    <3>1. \A j \in 1..k : text[at + j] = key[j]
      BY <1>2, <1>3, Zenon DEF Stands
    <3> QED BY <1>1, <1>2, <3>1
  <2> QED BY <2>1, <2>2, <2>3, <2>4, Zenon
<1>11. at = start <=> own = key
  <2>1. ASSUME own = key PROVE at = start
    <3>1. o = k
      BY <1>2, <1>7, <2>1, Zenon
    <3> QED BY <1>9, <3>1
  <2>2. ASSUME at = start PROVE own = key
    <3>1. k = o
      BY <1>9, <2>2
    <3>2. \A i \in 1..k : text[at + i] = key[i]
      BY <1>2, <1>3, Zenon DEF Stands
    <3>3. \A i \in 1..k : own[i] = key[i]
      BY <1>8, <2>2, <3>1, <3>2
    <3>4. own \in Seq(0..255) /\ key \in Seq(0..255) /\ Len(own) = Len(key)
      BY <1>1, <1>2, <1>6, <1>7, <3>1 DEF Texts
    <3> QED BY <1>2, <3>3, <3>4, SeqEqual
  <2> QED BY <2>1, <2>2
<1>12. ASSUME at # start PROVE at \in Nat \ {0} /\ text[at] \notin {38, 63}
  <2>1. PICK i \in 1..o : start + i = at
    <3>1. at - start \in 1..o /\ start + (at - start) = at
      BY <1>9, <1>10, <1>12
    <3> QED BY <3>1, Zenon
  <2>2. text[at] = own[i] /\ own[i] \notin {38, 61, 63}
    BY <1>8, <2>1
  <2> QED BY <2>1, <2>2
<1>13. (at + k) + 2 = end
  BY <1>8, <1>9
<1> QED BY <1>2, <1>7, <1>10, <1>11, <1>12, <1>13, Zenon DEF own

\* The marker of a key stands where the key is the key of a pair.
LEMMA KeyIsMarked ==
    ASSUME NEW text, NEW query, NEW N, NEW z, NEW b, LaidOut(text, query, N, z, b),
           NEW key, NEW m \in 1..N, query[m].key = key
    PROVE  Stands(text, b[m], key \o <<61>>)
<1>1. /\ IsPair(text, key, query[m].value, m, z[m - 1], b[m], z[m])
      /\ key \in Texts /\ Len(key) \in Nat /\ b[m] \in Nat /\ z[m] \in Nat
      /\ z[m] <= Len(text) /\ z[m] = (b[m] + Len(key)) + 2 /\ Len(text) \in Nat
  BY PairPlaces
<1>2. text \in Texts
  BY DEF LaidOut
<1>3. Stands(text, b[m], key) /\ text[(b[m] + Len(key)) + 1] = 61
  BY <1>1, Zenon DEF IsPair
<1>4. (b[m] + Len(key)) + 1 <= Len(text)
  BY <1>1
<1> QED BY <1>1, <1>2, <1>3, <1>4, MarkerStands

\* The number behind a key is a digit.
LEMMA NumberIs ==
    ASSUME NEW text, NEW query, NEW N, NEW z, NEW b, LaidOut(text, query, N, z, b), NEW m \in 1..N
    PROVE  DigitsAt(text, z[m]) = <<48 + query[m].value>>
<1>1. /\ IsPair(text, query[m].key, query[m].value, m, z[m - 1], b[m], z[m])
      /\ query[m].key \in Texts /\ Len(query[m].key) \in Nat
      /\ b[m] \in Nat /\ z[m] \in Nat /\ Len(text) \in Nat
      /\ z[m] <= Len(text) /\ z[m] = (b[m] + Len(query[m].key)) + 2
  BY PairPlaces
<1>2. text \in Texts /\ N \in Nat /\ z[N] = Len(text)
  BY DEF LaidOut
<1>3. PICK v \in 0..9 : v = query[m].value
  BY <1>1 DEF IsPair
<1> DEFINE run == <<48 + v>>
<1>4. run \in Texts /\ Len(run) = 1 /\ run[1] = 48 + v /\ 48 + v \in Addresses!Digits
  <2>1. 48 + v \in 0..255
    OBVIOUS
  <2> QED BY <2>1 DEF Texts, Addresses!Digits
<1> HIDE DEF run
<1>5. PICK at \in Nat : at + 1 = z[m]
  <2>1. z[m] - 1 \in Nat /\ (z[m] - 1) + 1 = z[m]
    BY <1>1
  <2> QED BY <2>1
<1>6. text[at + 1] = 48 + v
  BY <1>1, <1>3, <1>5, Zenon DEF IsPair
<1>7. Stands(text, at, run)
  <2> SUFFICES ASSUME NEW i \in 1..Len(run) PROVE at + i \in 1..Len(text) /\ text[at + i] = run[i]
    BY DEF Stands
  <2>1. i = 1
    BY <1>4
  <2> QED BY <1>1, <1>4, <1>5, <1>6, <2>1
<1>8. \/ at + Len(run) = Len(text)
      \/ at + Len(run) < Len(text) /\ text[at + Len(run) + 1] \notin Addresses!Digits
  <2>1. CASE m = N
    BY <1>2, <1>4, <1>5, <2>1
  <2>2. CASE m # N
    <3>1. m + 1 \in 1..N /\ (m + 1) - 1 = m /\ m + 1 # 1
      BY <1>2, <2>2
    <3>2. /\ IsPair(text, query[m + 1].key, query[m + 1].value, m + 1, z[(m + 1) - 1], b[m + 1], z[m + 1])
          /\ b[m + 1] \in Nat /\ z[m + 1] \in Nat /\ b[m + 1] < z[m + 1] /\ z[m + 1] <= Len(text)
      BY <3>1, PairPlaces
    <3>3. b[m + 1] = z[m] + 1 /\ text[b[m + 1]] = 38
      BY <3>1, <3>2, Zenon DEF IsPair
    <3>4. at + Len(run) = z[m] /\ z[m] < Len(text)
      BY <1>1, <1>4, <1>5, <3>2, <3>3
    <3>5. text[at + Len(run) + 1] = 38
      BY <3>3, <3>4, Zenon
    <3>6. 38 \notin Addresses!Digits
      BY DEF Addresses!Digits
    <3> QED BY <3>4, <3>5, <3>6
  <2> QED BY <2>1, <2>2
<1>9. \A i \in 1..Len(run) : run[i] \in Addresses!Digits
  BY <1>4
<1>10. Addresses!RunOf(text, at + 1, Addresses!Digits) = run
  BY <1>2, <1>4, <1>7, <1>8, <1>9, RunIs
<1> QED BY <1>3, <1>5, <1>10, Zenon DEF DigitsAt, run

\* What reading a key from behind the n-th pair on yields: the number of the next pair that has it.
NamedBehind(query, key, n) == {m \in DOMAIN query : m > n /\ query[m].key = key}
ReadBehind(query, key, n) ==
    IF NamedBehind(query, key, n) = {} THEN <<>> ELSE <<query[Addresses!Min(NamedBehind(query, key, n))].value>>

\* Reading from behind a pair is known from each of the pairs behind it.
KnownBehind(f, query, key, N, z, n) == \A m \in 1..N : m > n => f[z[m]] = ReadBehind(query, key, m)
ReadsKey(f, text, key) == \E yes \in BOOLEAN : yes = TRUE /\ Reads(f, text, key \o <<61>>, yes)
BehindPair(start, z, n) == start = IF n = 0 THEN 1 ELSE z[n]

\* Reading goes on from pair to pair.
LEMMA ReadsOn ==
    ASSUME NEW text, NEW query, NEW N, NEW z, NEW b, LaidOut(text, query, N, z, b),
           NEW key, IsKey(key), NEW f, ReadsKey(f, text, key),
           NEW n \in 0..N, NEW start \in Nat, BehindPair(start, z, n), KnownBehind(f, query, key, N, z, n)
    PROVE  f[start] = ReadBehind(query, key, n)
<1> DEFINE marker == key \o <<61>>
           L == Later(text, marker, start)
<1>1. text \in Texts /\ key \in Texts /\ N \in Nat /\ DOMAIN query = 1..N /\ z \in [0..N -> Nat] /\ z[0] = 0
  BY KeyIs DEF LaidOut
<1>0. start = IF n = 0 THEN 1 ELSE z[n]
  BY Zenon DEF BehindPair
<1>11. PICK yes \in BOOLEAN : yes = TRUE /\ Reads(f, text, key \o <<61>>, yes)
  BY Zenon DEF ReadsKey
<1>2. marker \in Texts /\ marker # <<>> /\ Len(marker) = Len(key) + 1
  BY <1>1, MarkerStands, 0 \in Nat
<1>3. PICK k \in Nat : k = Len(key)
  BY <1>1 DEF Texts
<1>4. \A at \in Nat : at + 1 \in L <=> Stands(text, at, marker) /\ at + 1 >= start
  BY <1>1, <1>2, MarkersAre DEF Later
<1>5. L \in SUBSET Nat /\ \A i \in L : i - 1 \in Nat /\ (i - 1) + 1 = i
  <2>1. Addresses!Finds(text, marker) \in SUBSET (1..Len(text))
    BY <1>1, <1>2, MarkersAre
  <2> QED BY <2>1 DEF Later
<1> HIDE DEF marker, L
\* Only pairs behind the n-th one have a marker there, and all that have the key do.
<1>6. ASSUME NEW at \in Nat, at + 1 \in L
      PROVE  \E m \in 1..N : /\ m > n /\ (at + k) + 2 = z[m] /\ b[m] <= at
                             /\ at = b[m] <=> query[m].key = key
                             /\ at # b[m] => at \in Nat \ {0} /\ text[at] \notin {38, 63}
  <2>1. Stands(text, at, key \o <<61>>) /\ at + 1 >= start
    BY <1>4, <1>6 DEF marker
  <2>2. PICK m \in 1..N : /\ (at + Len(key)) + 2 = z[m] /\ b[m] <= at
                          /\ at = b[m] <=> query[m].key = key
                          /\ at # b[m] => at \in Nat \ {0} /\ text[at] \notin {38, 63}
    BY <2>1, MarkerIsInPair DEF MarkerAt
  <2>3. m > n
    <3>1. CASE n = 0
      BY <3>1
    <3>2. CASE n # 0
      <4>1. z[n] \in Nat /\ z[m] \in Nat /\ m \in 0..N
        BY <1>1
      <4>2. z[m] > z[n]
        BY <1>0, <1>3, <2>1, <2>2, <3>2, <4>1
      <4>3. m <= n => z[m] <= z[n]
        BY <4>1, PairsFollow
      <4> QED BY <4>1, <4>2, <4>3
    <3> QED BY <3>1, <3>2
  <2> QED BY <1>3, <2>2, <2>3, Zenon
<1>7. ASSUME NEW m \in 1..N, m > n, query[m].key = key PROVE b[m] + 1 \in L /\ b[m] \in Nat
  <2>1. Stands(text, b[m], marker)
    BY <1>7, KeyIsMarked DEF marker
  <2>2. b[m] \in Nat /\ z[m - 1] <= b[m] /\ z[m - 1] \in Nat
    BY PairPlaces
  <2>3. b[m] + 1 >= start
    <3>1. CASE n = 0
      BY <1>0, <2>2, <3>1
    <3>2. CASE n # 0
      <4>1. m - 1 \in 0..N /\ n <= m - 1
        BY <1>1, <1>7
      <4>2. z[n] <= z[m - 1] /\ z[n] \in Nat
        BY <1>1, <4>1, PairsFollow
      <4> QED BY <1>0, <2>2, <3>2, <4>2
    <3> QED BY <3>1, <3>2
  <2> QED BY <1>4, <2>1, <2>2, <2>3
<1>8. /\ L = {} => f[start] = <<>>
      /\ L # {} => f[start] = LET i == Addresses!Min(L)
                             IN  IF Counts(text, i, yes) /\ DigitsAt(text, i + Len(marker)) # <<>>
                                 THEN <<Addresses!ValueOfDigits(DigitsAt(text, i + Len(marker)))>>
                                 ELSE f[i + Len(marker)]
  <2>1. Reads(f, text, marker, yes)
    BY <1>11, Zenon DEF marker
  <2>2. L = Later(text, marker, start)
    BY Zenon DEF L, marker
  <2>3. ReadsAt(f, text, marker, yes, start)
    BY <2>1, ReadingStep
  <2> QED BY <2>2, <2>3, Zenon DEF ReadsAt
<1>9. CASE L = {}
  <2>1. NamedBehind(query, key, n) = {}
    BY <1>1, <1>7, <1>9 DEF NamedBehind
  <2> QED BY <1>8, <1>9, <2>1 DEF ReadBehind
<1>10. CASE L # {}
  <2>1. Addresses!Min(L) \in L /\ \A d \in L : Addresses!Min(L) <= d
    BY <1>5, <1>10, LeastOf
  <2>2. PICK i \in L : i = Addresses!Min(L) /\ \A d \in L : i <= d
    BY <2>1
  <2>3. PICK at \in Nat : at + 1 = i
    BY <1>5, Zenon
  <2>4. PICK m \in 1..N : /\ m > n /\ (at + k) + 2 = z[m] /\ b[m] <= at
                          /\ at = b[m] <=> query[m].key = key
                          /\ at # b[m] => at \in Nat \ {0} /\ text[at] \notin {38, 63}
    BY <1>6, <2>3
  <2>5. i + Len(marker) = z[m]
    BY <1>2, <1>3, <2>3, <2>4
  <2>6. f[start] = IF Counts(text, i, yes) /\ DigitsAt(text, z[m]) # <<>>
                   THEN <<Addresses!ValueOfDigits(DigitsAt(text, z[m]))>> ELSE f[z[m]]
    BY <1>8, <1>10, <2>2, <2>5, Zenon
  <2>7. PICK v \in 0..9 : v = query[m].value /\ DigitsAt(text, z[m]) = <<48 + v>>
    <3>1. query[m].value \in 0..9
      BY PairPlaces DEF IsPair
    <3>2. DigitsAt(text, z[m]) = <<48 + query[m].value>>
      BY NumberIs
    <3> QED BY <3>1, <3>2
  <2>8. <<48 + v>> # <<>> /\ Addresses!ValueOfDigits(<<48 + v>>) = v
    BY OneDigit
  \* No pair before the m-th one has the key.
  <2>9. ASSUME NEW j \in NamedBehind(query, key, n) PROVE j >= m
    <3> SUFFICES ASSUME j < m PROVE FALSE
      BY <1>1 DEF NamedBehind
    <3>1. j \in 1..N /\ j > n /\ query[j].key = key
      BY <1>1 DEF NamedBehind
    <3>2. b[j] + 1 \in L /\ b[j] \in Nat
      BY <1>7, <3>1
    <3>3. at + 1 <= b[j] + 1
      BY <2>2, <2>3, <3>2
    <3>4. b[j] < z[j] /\ z[j] \in Nat
      BY <3>1, PairPlaces
    <3>5. z[m - 1] <= b[m] /\ z[m - 1] \in Nat /\ b[m] \in Nat
      BY PairPlaces
    <3>6. z[j] <= z[m - 1]
      <4>1. j \in 0..N /\ m - 1 \in 0..N /\ j <= m - 1
        BY <1>1, <3>1
      <4> QED BY <4>1, PairsFollow
    <3> QED BY <2>4, <3>2, <3>3, <3>4, <3>5, <3>6
  <2>10. CASE at = b[m]
    <3>1. query[m].key = key
      BY <2>4, <2>10
    <3>2. Counts(text, i, yes)
      <4>1. IsPair(text, query[m].key, query[m].value, m, z[m - 1], b[m], z[m]) /\ b[m] \in Nat
        BY PairPlaces
      <4>2. CASE m = 1
        <5>1. b[m] = z[m - 1] /\ m - 1 = 0
          BY <4>1, <4>2 DEF IsPair
        <5>2. i = 1
          BY <1>1, <2>3, <2>10, <5>1
        <5> QED BY <1>11, <5>2 DEF Counts
      <4>3. CASE m # 1
        <5>1. text[at] = 38
          BY <2>10, <4>1, <4>3, Zenon DEF IsPair
        <5>2. i - 1 = at
          BY <2>3
        <5> QED BY <1>11, <5>1, <5>2 DEF Counts
      <4> QED BY <4>2, <4>3
    <3>3. f[start] = <<query[m].value>>
      BY <2>6, <2>7, <2>8, <3>2, Zenon
    <3>4. m \in NamedBehind(query, key, n)
      BY <1>1, <2>4, <3>1 DEF NamedBehind
    <3>5. Addresses!Min(NamedBehind(query, key, n)) = m
      <4>1. NamedBehind(query, key, n) \in SUBSET Nat
        BY <1>1 DEF NamedBehind
      <4>2. \A j \in NamedBehind(query, key, n) : m <= j
        BY <2>9, <4>1
      <4> QED BY <3>4, <4>1, <4>2, LeastOf
    <3> QED BY <3>3, <3>4, <3>5, Zenon DEF ReadBehind
  <2>11. CASE at # b[m]
    <3>1. ~Counts(text, i, yes)
      <4>1. at # 0 /\ text[at] \notin {38, 63} /\ i - 1 = at /\ i # 1
        BY <2>3, <2>4, <2>11
      <4> QED BY <1>11, <4>1 DEF Counts
    <3>2. f[start] = f[z[m]]
      BY <2>6, <3>1, Zenon
    <3>3. f[z[m]] = ReadBehind(query, key, m)
      BY <2>4 DEF KnownBehind
    <3>4. NamedBehind(query, key, n) = NamedBehind(query, key, m)
      <4>1. \A j \in NamedBehind(query, key, n) : j > m
        <5> SUFFICES ASSUME NEW j \in NamedBehind(query, key, n) PROVE j > m
          OBVIOUS
        <5>1. j >= m /\ j \in Nat /\ query[j].key = key
          BY <1>1, <2>9 DEF NamedBehind
        <5>2. query[m].key # key
          BY <2>4, <2>11
        <5>3. j # m
          BY <5>1, <5>2
        <5> QED BY <5>1, <5>3
      <4> QED BY <1>1, <2>4, <4>1 DEF NamedBehind
    <3> QED BY <3>2, <3>3, <3>4, Zenon DEF ReadBehind
  <2> QED BY <2>10, <2>11
<1> QED BY <1>9, <1>10

\* Whatever keys a query has, reading one yields the number of the first pair that has this very
\* key, and never the number behind a key that ends like it (numeric_after with a boundary).
THEOREM KeysAreRead ==
    ASSUME NEW query, IsQuery(query), NEW key, IsKey(key)
    PROVE  Addresses!KeyIsRead(query, key)
<1> DEFINE marker == key \o <<61>>
<1>1. PICK N, z, b : LaidOut(QueryText(query), query, N, z, b)
  BY QueryIsLaidOut
<1>2. PICK text : text = QueryText(query)
  OBVIOUS
<1>3. LaidOut(text, query, N, z, b)
  BY <1>1, <1>2, Zenon
<1>4. text \in Texts /\ N \in Nat /\ DOMAIN query = 1..N /\ z \in [0..N -> Nat]
  BY <1>3 DEF LaidOut
<1>5. marker \in Texts /\ marker # <<>>
  <2>1. key \in Texts
    BY KeyIs
  <2> QED BY <1>4, <2>1, MarkerStands, 0 \in Nat
<1>6. PICK yes \in BOOLEAN : yes = TRUE
  OBVIOUS
<1>7. PICK f : Reads(f, text, marker, yes) /\ Addresses!NumericAfter(text, marker, yes) = f[1]
  <2> HIDE DEF marker
  <2> QED BY <1>4, <1>5, NumericIs
<1>8. ASSUME NEW n \in 0..N, NEW start \in Nat, BehindPair(start, z, n), KnownBehind(f, query, key, N, z, n)
      PROVE  f[start] = ReadBehind(query, key, n)
  <2>1. ReadsKey(f, text, key)
    BY <1>6, <1>7, Zenon DEF ReadsKey
  <2> HIDE DEF marker
  <2> QED BY <1>3, <1>6, <1>8, <2>1, ReadsOn
<1>9. \A m \in 1..N : f[z[m]] = ReadBehind(query, key, m)
  <2> DEFINE Wrong == {d \in 0..N : \E m \in 1..N : m + d = N /\ f[z[m]] # ReadBehind(query, key, m)}
  <2>1. Wrong = {}
    <3> SUFFICES ASSUME Wrong # {} PROVE FALSE
      OBVIOUS
    <3>1. PICK d \in Wrong : \A e \in Wrong : d <= e
      <4>1. Wrong \in SUBSET Nat
        BY <1>4
      <4> HIDE DEF Wrong
      <4> QED BY <4>1, LeastNumber
    <3>2. PICK n \in 1..N : n + d = N /\ f[z[n]] # ReadBehind(query, key, n)
      OBVIOUS
    <3>3. \A m \in 1..N : m > n => f[z[m]] = ReadBehind(query, key, m)
      <4> SUFFICES ASSUME NEW m \in 1..N, m > n, f[z[m]] # ReadBehind(query, key, m) PROVE FALSE
        OBVIOUS
      <4>1. N - m \in 0..N /\ m + (N - m) = N /\ N - m < d
        BY <1>4, <3>2
      <4>2. N - m \in Wrong
        BY <4>1
      <4>3. d \in Nat /\ d <= N - m
        BY <3>1, <4>2
      <4> QED BY <1>4, <4>1, <4>3
    <3>4. n \in 0..N /\ n # 0 /\ z[n] \in Nat
      BY <1>4
    <3>5. f[z[n]] = ReadBehind(query, key, n)
      BY <1>8, <3>3, <3>4 DEF BehindPair, KnownBehind
    <3> QED BY <3>2, <3>5
  <2>2. \A m \in 1..N : N - m \in 0..N /\ m + (N - m) = N
    BY <1>4
  <2> QED BY <2>1, <2>2
<1>10. f[1] = ReadBehind(query, key, 0)
  <2>1. 0 \in 0..N /\ 1 \in Nat
    BY <1>4
  <2>2. BehindPair(1, z, 0) /\ KnownBehind(f, query, key, N, z, 0)
    BY <1>9 DEF BehindPair, KnownBehind
  <2> QED BY <1>8, <2>1, <2>2
<1>11. NamedBehind(query, key, 0) = {i \in DOMAIN query : query[i].key = key}
  BY <1>4 DEF NamedBehind
<1>12. Addresses!FlattenSeq([i \in DOMAIN query |-> PairOf(query, i)]) = text
  BY <1>2, FlattenIs, Zenon DEF QueryText
<1>13. Addresses!KeyIsRead(query, key) <=>
         Addresses!NumericAfter(text, marker, TRUE) = ReadBehind(query, key, 0)
  BY <1>11, <1>12, Zenon DEF Addresses!KeyIsRead, PairOf, PairText, ReadBehind
<1> QED BY <1>6, <1>7, <1>10, <1>13, Zenon

-----------------------------------------------------------------------------
(***************************************************************************)
(* For any document, its walks see what they should.  Its nodes have       *)
(* numbers in document order, so that what is below a node are the numbers *)
(* behind it as long as their parents are not before it (IsBelow), and     *)
(* each step of a walk leads to the next of those numbers (StepsAre).  A   *)
(* walk is a recursion along such steps (WalksOn): one that skips nodes    *)
(* stops at the next number which it looks for (FollowingSkips), and one   *)
(* that collects them has a list of the numbers (FollowingLists); there is *)
(* one list of a set of numbers (ListsAreOne).                             *)
(***************************************************************************)

\* The model of documents.
\* A parent comes before its children.
LEMMA OrderIs ==
    ASSUME NEW n \in Nat, NEW p \in Orders(n)
    PROVE  /\ \A i \in 1..n : p[i] \in 0..n /\ p[i] \in Nat /\ p[i] < i
           /\ \A i, j \in 1..n : p[i] < j /\ j < i => p[j] >= p[i]
  BY DEF Orders

\* Node m is below node r.
IsBelow(p, r, m) == r < m /\ \A k \in (r + 1)..m : p[k] >= r

\* What is below a node is its children and what is below those.
LEMMA BelowByParent ==
    ASSUME NEW n \in Nat, NEW p \in Orders(n), NEW r \in 1..n, NEW m \in 1..n
    PROVE  IsBelow(p, r, m) <=> (p[m] = r \/ IsBelow(p, r, p[m]))
<1>1. p[m] \in Nat /\ p[m] < m
  BY OrderIs
<1>2. \A k \in 1..n : p[k] \in Nat /\ (p[m] < k /\ k < m => p[k] >= p[m])
  BY OrderIs
<1>3. ASSUME IsBelow(p, r, m) PROVE p[m] = r \/ IsBelow(p, r, p[m])
  BY <1>1, <1>3 DEF IsBelow
<1>4. ASSUME p[m] = r PROVE IsBelow(p, r, m)
  BY <1>1, <1>2, <1>4 DEF IsBelow
<1>5. ASSUME IsBelow(p, r, p[m]) PROVE IsBelow(p, r, m)
  <2>1. r < p[m] /\ \A k \in (r + 1)..p[m] : p[k] >= r
    BY <1>5 DEF IsBelow
  <2>2. ASSUME NEW k \in (r + 1)..m PROVE p[k] >= r
    <3>1. k \in 1..n
      OBVIOUS
    <3>2. CASE k <= p[m]
      BY <2>1, <3>2, <1>1
    <3>3. CASE p[m] < k /\ k < m
      BY <2>1, <3>1, <3>3, <1>1, <1>2
    <3>4. CASE k = m
      BY <2>1, <3>4, <1>1
    <3> QED BY <1>1, <3>2, <3>3, <3>4
  <2> QED BY <1>1, <2>1, <2>2 DEF IsBelow
<1> QED BY <1>3, <1>4, <1>5

\* above is the recursion of Ancestors.
Climbs(above, n, p) ==
    above = [m \in 1..n \cup {0} |-> IF m = 0 THEN {} ELSE {p[m]} \cup above[p[m]]]

\* Ancestors has a solution: the nodes that a node is below.
LEMMA ClimbExists ==
    ASSUME NEW n \in Nat, NEW p \in Orders(n)
    PROVE  \E above : Climbs(above, n, p)
<1> DEFINE above == [m \in 1..n \cup {0} |-> IF m = 0 THEN {} ELSE {0} \cup {r \in 1..n : IsBelow(p, r, m)}]
<1>1. ASSUME NEW m \in 1..n PROVE above[m] = {p[m]} \cup above[p[m]]
  <2>1. p[m] \in 1..n \cup {0} /\ m # 0
    BY OrderIs
  <2>2. \A r \in 1..n : IsBelow(p, r, m) <=> (p[m] = r \/ IsBelow(p, r, p[m]))
    BY BelowByParent
  <2>3. CASE p[m] = 0
    <3>1. \A r \in 1..n : ~IsBelow(p, r, 0)
      BY DEF IsBelow
    <3> QED BY <2>1, <2>2, <2>3, <3>1
  <2>4. CASE p[m] # 0
    BY <2>1, <2>2, <2>4
  <2> QED BY <2>3, <2>4
<1>2. above[0] = {}
  OBVIOUS
<1>3. \A m \in 1..n \cup {0} : above[m] = IF m = 0 THEN {} ELSE {p[m]} \cup above[p[m]]
  <2> HIDE DEF above
  <2> QED BY <1>1, <1>2
<1>4. above = [m \in 1..n \cup {0} |-> above[m]]
  OBVIOUS
<1> HIDE DEF above
<1>5. Climbs(above, n, p)
  BY <1>3, <1>4, Zenon DEF Climbs
<1> QED BY <1>5

\* The ancestors of a node are those which it is below.
LEMMA AncestorsAre ==
    ASSUME NEW doc, NEW n, NEW p, HasTree(doc, n, p), NEW m \in 1..n
    PROVE  Documents!Ancestors(doc, m) = {r \in 1..n : IsBelow(p, r, m)}
<1> USE DEF HasTree
<1> DEFINE above == CHOOSE f : Climbs(f, n, p)
<1>1. Climbs(above, n, p)
  BY ClimbExists, Zenon
<1>2. Documents!Ancestors(doc, m) = above[m] \ {0}
  <2>1. Documents!Nodes(doc) = 1..n
    BY DEF Documents!Nodes, Orders
  <2> QED BY <2>1, Zenon DEF Documents!Ancestors, Documents!Null, Climbs
<1> HIDE DEF above
<1>3. above[0] = {} /\ \A k \in 1..n : above[k] = {p[k]} \cup above[p[k]]
  <2>1. \A k \in 1..n \cup {0} : above[k] = IF k = 0 THEN {} ELSE {p[k]} \cup above[p[k]]
    BY <1>1 DEF Climbs
  <2>2. \A k \in 1..n : k # 0
    OBVIOUS
  <2> QED BY <2>1, <2>2
<1> DEFINE P(k) == k \in 1..n => above[k] \ {0} = {r \in 1..n : IsBelow(p, r, k)}
           T == {k \in Nat : \A j \in 0..k : P(j)}
<1>4. 0 \in T
  OBVIOUS
<1>5. ASSUME NEW k \in T PROVE k + 1 \in T
  <2>1. \A j \in 0..k : P(j)
    OBVIOUS
  <2>2. ASSUME k + 1 \in 1..n
        PROVE  above[k + 1] \ {0} = {r \in 1..n : IsBelow(p, r, k + 1)}
    <3>1. PICK q \in 0..n : q = p[k + 1] /\ q \in 0..k
      BY <2>2, OrderIs
    <3>2. above[k + 1] = {q} \cup above[q]
      BY <1>3, <2>2, <3>1
    <3>3. \A r \in 1..n : IsBelow(p, r, k + 1) <=> (q = r \/ IsBelow(p, r, q))
      BY <2>2, <3>1, BelowByParent
    <3>4. above[q] \ {0} = {r \in 1..n : IsBelow(p, r, q)}
      <4>1. CASE q = 0
        <5>1. \A r \in 1..n : ~IsBelow(p, r, 0)
          BY DEF IsBelow
        <5> QED BY <1>3, <4>1, <5>1
      <4>2. CASE q # 0
        BY <2>1, <3>1, <4>2
      <4> QED BY <4>1, <4>2
    <3> QED BY <3>1, <3>2, <3>3, <3>4
  <2>3. P(k + 1)
    BY <2>2
  <2> HIDE DEF P
  <2>4. \A j \in 0..(k + 1) : j \in 0..k \/ j = k + 1
    OBVIOUS
  <2> QED BY <2>1, <2>3, <2>4
<1>6. T = Nat
  <2>1. T \in SUBSET Nat
    OBVIOUS
  <2> HIDE DEF T
  <2> QED BY <1>4, <1>5, <2>1, SetInduction
<1>7. P(m)
  <2> HIDE DEF P
  <2>1. m \in Nat /\ m \in 0..m
    OBVIOUS
  <2> QED BY <1>6, <2>1
<1> QED BY <1>2, <1>7

\* The least number of S above m, and the greatest below it; 0 if there is none.
NextOf(S, m) ==
    IF \E c \in S : c > m THEN CHOOSE c \in S : c > m /\ \A d \in S : d > m => c <= d ELSE 0
LastOf(S, m) ==
    IF \E c \in S : c < m THEN CHOOSE c \in S : c < m /\ \A d \in S : d < m => c >= d ELSE 0

\* Max returns the greatest number.
LEMMA GreatestIs ==
    ASSUME NEW n \in Nat, NEW S \in SUBSET (0..n)
    PROVE  /\ S # {} => Documents!Max(S) \in S /\ \A d \in S : Documents!Max(S) >= d
           /\ \A c \in S : (\A d \in S : c >= d) => Documents!Max(S) = c
<1>1. ASSUME S # {} PROVE Documents!Max(S) \in S /\ \A d \in S : Documents!Max(S) >= d
  <2> DEFINE R == {n - k : k \in S}
  <2>1. R \in SUBSET Nat /\ R # {}
    <3>1. \A k \in S : k \in 0..n /\ n - k \in Nat
      OBVIOUS
    <3> QED BY <1>1, <3>1
  <2>2. PICK r \in R : \A q \in R : r <= q
    <3> HIDE DEF R
    <3> QED BY <2>1, LeastNumber
  <2>3. PICK c \in S : r = n - c
    OBVIOUS
  <2>4. ASSUME NEW d \in S PROVE c >= d
    <3>1. n - c <= n - d
      BY <2>2, <2>3
    <3>2. c \in Nat /\ d \in Nat
      OBVIOUS
    <3> QED BY <3>1, <3>2
  <2>5. \E a \in S : \A d \in S : a >= d
    BY <2>4
  <2> QED BY <2>5, Zenon DEF Documents!Max
<1>2. ASSUME NEW c \in S, \A d \in S : c >= d PROVE Documents!Max(S) = c
  <2>1. PICK b \in S : b = Documents!Max(S) /\ \A d \in S : b >= d
    BY <1>1
  <2>2. b >= c /\ c >= b /\ b \in Nat /\ c \in Nat
    BY <1>2, <2>1
  <2> QED BY <2>1, <2>2
<1> QED BY <1>1, <1>2

\* The next number of a set is the least of those above, or 0.
LEMMA NextIs ==
    ASSUME NEW S \in SUBSET Nat, NEW m \in Nat
    PROVE  /\ (\E c \in S : c > m) => /\ NextOf(S, m) \in S /\ NextOf(S, m) > m
                                      /\ \A d \in S : d > m => NextOf(S, m) <= d
           /\ ~(\E c \in S : c > m) => NextOf(S, m) = 0
           /\ \A c \in S : c > m /\ (\A d \in S : d > m => c <= d) => NextOf(S, m) = c
<1> DEFINE U0 == {c \in S : c > m}
<1>1. ASSUME \E c \in S : c > m PROVE \E c \in S : c > m /\ \A d \in S : d > m => c <= d
  <2>1. U0 # {} /\ U0 \in SUBSET Nat
    BY <1>1
  <2>2. PICK c \in U0 : \A d \in U0 : c <= d
    <3> HIDE DEF U0
    <3> QED BY <2>1, LeastNumber
  <2> QED BY <2>2
<1>2. ASSUME \E c \in S : c > m
      PROVE  NextOf(S, m) \in S /\ NextOf(S, m) > m /\ \A d \in S : d > m => NextOf(S, m) <= d
  BY <1>1, <1>2, Zenon DEF NextOf
<1>3. ASSUME NEW c \in S, c > m, \A d \in S : d > m => c <= d PROVE NextOf(S, m) = c
  <2>1. PICK b \in S : b = NextOf(S, m) /\ b > m /\ \A d \in S : d > m => b <= d
    BY <1>2, <1>3
  <2>2. b <= c /\ c <= b /\ b \in Nat /\ c \in Nat
    BY <1>3, <2>1
  <2> QED BY <2>1, <2>2
<1>4. ASSUME ~(\E c \in S : c > m) PROVE NextOf(S, m) = 0
  BY <1>4, Zenon DEF NextOf
<1> QED BY <1>2, <1>3, <1>4

\* The number before is the greatest of those below, or 0.
LEMMA LastIs ==
    ASSUME NEW n \in Nat, NEW S \in SUBSET (1..n), NEW m \in Nat
    PROVE  /\ (\E c \in S : c < m) => /\ LastOf(S, m) \in S /\ LastOf(S, m) < m
                                      /\ \A d \in S : d < m => LastOf(S, m) >= d
           /\ ~(\E c \in S : c < m) => LastOf(S, m) = 0
           /\ \A c \in S : c < m /\ (\A d \in S : d < m => c >= d) => LastOf(S, m) = c
<1> DEFINE U0 == {c \in S : c < m}
<1>1. ASSUME \E c \in S : c < m PROVE \E c \in S : c < m /\ \A d \in S : d < m => c >= d
  <2>1. U0 # {} /\ U0 \in SUBSET (0..n)
    <3>1. \A c \in S : c \in 0..n
      OBVIOUS
    <3> QED BY <1>1, <3>1
  <2>2. Documents!Max(U0) \in U0 /\ \A d \in U0 : Documents!Max(U0) >= d
    <3> HIDE DEF U0
    <3> QED BY <2>1, GreatestIs
  <2> QED BY <2>2
<1>2. ASSUME \E c \in S : c < m
      PROVE  LastOf(S, m) \in S /\ LastOf(S, m) < m /\ \A d \in S : d < m => LastOf(S, m) >= d
  BY <1>1, <1>2, Zenon DEF LastOf
<1>3. ASSUME NEW c \in S, c < m, \A d \in S : d < m => c >= d PROVE LastOf(S, m) = c
  <2>1. PICK b \in S : b = LastOf(S, m) /\ b < m /\ \A d \in S : d < m => b >= d
    BY <1>2, <1>3
  <2>2. b >= c /\ c >= b /\ b \in Nat /\ c \in Nat
    BY <1>3, <2>1
  <2> QED BY <2>1, <2>2
<1>4. ASSUME ~(\E c \in S : c < m) PROVE LastOf(S, m) = 0
  BY <1>4, Zenon DEF LastOf
<1> QED BY <1>2, <1>3, <1>4

\* The children of a node, or the topmost nodes.
ChildrenOf(n, p, m) == {c \in 1..n : p[c] = m}

\* The links of a node lead to its first child and to the siblings next to it.
LEMMA LinksAre ==
    ASSUME NEW doc, NEW n, NEW p, HasTree(doc, n, p), NEW m \in 1..n
    PROVE  /\ Documents!Links(doc).first_child[m] = NextOf(ChildrenOf(n, p, m), m)
           /\ Documents!Links(doc).next[m] = NextOf(ChildrenOf(n, p, p[m]), m)
           /\ Documents!Links(doc).prev[m] = LastOf(ChildrenOf(n, p, p[m]), m)
<1> USE DEF HasTree
<1> DEFINE children == [k \in Documents!Nodes(doc) \cup {Documents!Null} |-> {c \in Documents!Nodes(doc) : doc.parent[c] = k}]
           least(S) == IF S = {} THEN Documents!Null ELSE Documents!Min(S)
           beside(k) == children[doc.parent[k]]
           C(k) == ChildrenOf(n, p, k)
<1>1. Documents!Nodes(doc) = 1..n /\ Documents!Null = 0 /\ doc.parent = p
  BY DEF Documents!Nodes, Orders, Documents!Null
<1>2. \A k \in 1..n : p[k] \in 0..n /\ p[k] < k
  BY OrderIs
<1>3. \A k \in 1..n \cup {0} : children[k] = C(k)
  BY <1>1 DEF ChildrenOf
<1>4. children[m] = C(m) /\ beside(m) = C(p[m])
  <2>1. m \in 1..n \cup {0} /\ p[m] \in 1..n \cup {0}
    BY <1>2
  <2>2. beside(m) = children[p[m]]
    BY <1>1
  <2> HIDE DEF children, C, beside
  <2> QED BY <1>3, <2>1, <2>2
<1>5. /\ Documents!Links(doc).first_child[m] = least(children[m])
      /\ Documents!Links(doc).next[m] = least({c \in beside(m) : c > m})
      /\ Documents!Links(doc).prev[m] = Documents!Max({c \in beside(m) : c < m} \cup {0})
  BY <1>1 DEF Documents!Links
<1>6. C(m) \in SUBSET (1..n) /\ C(p[m]) \in SUBSET (1..n) /\ \A c \in C(m) : c > m
  BY <1>2 DEF ChildrenOf
<1> HIDE DEF children, C
<1>7. ASSUME NEW S \in SUBSET (1..n) PROVE least({c \in S : c > m}) = NextOf(S, m)
  <2> DEFINE V == {c \in S : c > m}
  <2>1. S \in SUBSET Nat /\ V \in SUBSET Nat
    <3>1. \A c \in S : c \in 1..n /\ c \in Nat
      OBVIOUS
    <3> QED BY <3>1
  <2>2. CASE V = {}
    <3>1. ~(\E c \in S : c > m)
      BY <2>2
    <3>2. NextOf(S, m) = 0
      BY <2>1, <3>1, NextIs
    <3> QED BY <1>1, <2>2, <3>2
  <2>3. CASE V # {}
    <3>1. Documents!Min(V) \in V /\ \A d \in V : Documents!Min(V) <= d
      <4> HIDE DEF V
      <4> QED BY <2>1, <2>3, LeastIs
    <3>2. PICK b \in S : b = Documents!Min(V) /\ b > m /\ \A d \in S : d > m => b <= d
      BY <3>1
    <3>3. NextOf(S, m) = b
      BY <2>1, <3>2, NextIs
    <3> QED BY <2>3, <3>2, <3>3
  <2> QED BY <2>2, <2>3
<1>8. ASSUME NEW S \in SUBSET (1..n) PROVE Documents!Max({c \in S : c < m} \cup {0}) = LastOf(S, m)
  <2> DEFINE V == {c \in S : c < m} \cup {0}
  <2>1. V \in SUBSET (0..n) /\ V # {}
    <3>1. \A c \in S : c \in 0..n
      OBVIOUS
    <3>2. 0 \in 0..n
      OBVIOUS
    <3> QED BY <3>1, <3>2
  <2>2. Documents!Max(V) \in V /\ \A d \in V : Documents!Max(V) >= d
    <3> HIDE DEF V
    <3> QED BY <2>1, GreatestIs
  <2>3. CASE \E c \in S : c < m
    <3>1. \A c \in S : c \in 1..n /\ c > 0
      OBVIOUS
    <3>2. PICK b \in V : b = Documents!Max(V) /\ \A d \in V : b >= d
      BY <2>2
    <3>3. \A d \in S : d < m => b >= d
      BY <3>2
    <3>4. b # 0
      BY <2>3, <3>1, <3>3
    <3>5. b \in S /\ b < m
      BY <3>2, <3>4
    <3>6. LastOf(S, m) = b
      BY <3>3, <3>5, LastIs, m \in Nat
    <3> QED BY <3>2, <3>6
  <2>4. CASE ~\E c \in S : c < m
    <3>1. Documents!Max(V) = 0
      BY <2>2, <2>4
    <3>2. LastOf(S, m) = 0
      BY <2>4, LastIs, m \in Nat
    <3> QED BY <3>1, <3>2
  <2> QED BY <2>3, <2>4
<1>9. {c \in C(m) : c > m} = C(m)
  BY <1>6
<1> HIDE DEF least
<1>10. least(C(m)) = NextOf(C(m), m)
  BY <1>6, <1>7, <1>9
<1> QED BY <1>4, <1>5, <1>6, <1>7, <1>8, <1>10 DEF C

-----------------------------------------------------------------------------
\* The next sibling is what follows all that is below a node.
LEMMA FirstChildIs ==
    ASSUME NEW n \in Nat, NEW p \in Orders(n), NEW m \in 1..n
    PROVE  NextOf(ChildrenOf(n, p, m), m) = IF m < n /\ p[m + 1] = m THEN m + 1 ELSE 0
<1> DEFINE S == ChildrenOf(n, p, m)
<1>1. S \in SUBSET Nat /\ m \in Nat
  BY DEF ChildrenOf
<1>2. \A c \in S : c \in 1..n /\ p[c] = m
  BY DEF ChildrenOf
<1>3. CASE m < n /\ p[m + 1] = m
  <2>1. m + 1 \in S /\ m + 1 > m /\ \A d \in S : d > m => m + 1 <= d
    BY <1>1, <1>3 DEF ChildrenOf
  <2>2. NextOf(S, m) = m + 1
    <3> HIDE DEF S
    <3> QED BY <1>1, <2>1, NextIs
  <2> QED BY <1>3, <2>2
<1>4. CASE ~(m < n /\ p[m + 1] = m)
  <2>1. ASSUME NEW c \in S, c > m PROVE FALSE
    <3>1. c \in 1..n /\ p[c] = m /\ m + 1 \in 1..n /\ p[m + 1] < m + 1 /\ p[m + 1] \in Nat
      BY <1>2, <2>1, OrderIs
    <3>2. c # m + 1 => p[m + 1] >= p[c]
      BY <2>1, <3>1, OrderIs
    <3> QED BY <1>4, <3>1, <3>2
  <2>2. NextOf(S, m) = 0
    <3> HIDE DEF S
    <3> QED BY <1>1, <2>1, NextIs
  <2> QED BY <1>4, <2>2
<1> QED BY <1>3, <1>4

\* The next sibling of a node whose last descendant is e, itself or a node below it.
LEMMA SiblingIs ==
    ASSUME NEW n \in Nat, NEW p \in Orders(n), NEW m \in 1..n, NEW e \in m..n,
           e = m \/ IsBelow(p, m, e), e < n => p[e + 1] < m
    PROVE  /\ NextOf(ChildrenOf(n, p, p[m]), m) = IF e < n /\ p[e + 1] = p[m] THEN e + 1 ELSE 0
           /\ e < n => p[e + 1] <= p[m]
<1> DEFINE S == ChildrenOf(n, p, p[m])
<1>1. S \in SUBSET Nat /\ m \in Nat /\ \A c \in S : c \in 1..n /\ p[c] = p[m]
  BY DEF ChildrenOf
<1>2. \A k \in (m + 1)..e : p[k] >= m
  BY DEF IsBelow
<1>3. p[m] \in Nat /\ p[m] < m
  BY OrderIs
<1>4. ASSUME NEW c \in S, c > m PROVE c > e
  <2>1. p[c] = p[m] /\ c \in 1..n
    BY <1>1
  <2> QED BY <1>2, <1>3, <1>4, <2>1
<1>5. ASSUME e < n PROVE p[e + 1] <= p[m]
  <2>1. e + 1 \in 1..n /\ p[e + 1] < m /\ p[e + 1] \in Nat
    BY <1>5, OrderIs
  <2>2. p[e + 1] < m /\ m < e + 1 => p[m] >= p[e + 1]
    BY <2>1, OrderIs
  <2> QED BY <2>1, <2>2
<1>6. CASE e < n /\ p[e + 1] = p[m]
  <2>1. e + 1 \in S /\ e + 1 > m /\ \A d \in S : d > m => e + 1 <= d
    BY <1>1, <1>4, <1>6 DEF ChildrenOf
  <2>2. NextOf(S, m) = e + 1
    <3> HIDE DEF S
    <3> QED BY <1>1, <2>1, NextIs
  <2> QED BY <1>5, <1>6, <2>2
<1>7. CASE ~(e < n /\ p[e + 1] = p[m])
  <2>1. ASSUME NEW c \in S, c > m PROVE FALSE
    <3>1. c \in 1..n /\ p[c] = p[m] /\ c > e /\ e + 1 \in 1..n
      BY <1>1, <1>4, <2>1
    <3>2. p[e + 1] <= p[m] /\ p[e + 1] \in Nat
      BY <1>5, <3>1, OrderIs
    <3>3. c # e + 1 => p[e + 1] >= p[c]
      BY <1>3, <3>1, OrderIs
    <3> QED BY <1>3, <1>7, <3>1, <3>2, <3>3
  <2>2. NextOf(S, m) = 0
    <3> HIDE DEF S
    <3> QED BY <1>1, <2>1, NextIs
  <2> QED BY <1>5, <1>7, <2>2
<1> QED BY <1>6, <1>7

\* f goes on from k to g[k] until it comes to Stop, and lists the numbers before that or
\* returns the one it has come to.
WalksOn(f, D, Stop, g, mode) ==
    f = [k \in D |-> IF k \in Stop THEN IF mode = "all" THEN <<>> ELSE k
                     ELSE IF mode = "all" THEN <<k>> \o f[g[k]] ELSE f[g[k]]]

\* Such a recursion has a solution if each step has a lower rank.
LEMMA FollowingEnds ==
    ASSUME NEW D, NEW Stop, NEW g, NEW mode, NEW L \in Nat, NEW rank \in [D -> 0..L],
           \A k \in D \ Stop : g[k] \in D /\ rank[g[k]] < rank[k]
    PROVE  \E f : WalksOn(f, D, Stop, g, mode)
<1> DEFINE Rhs(f, k) == IF k \in Stop THEN IF mode = "all" THEN <<>> ELSE k
                        ELSE IF mode = "all" THEN <<k>> \o f[g[k]] ELSE f[g[k]]
           Good(f, j) == \A k \in D : rank[k] < j => f[k] = Rhs(f, k)
           T == {j \in Nat : \E f : Good(f, j)}
<1>1. 0 \in T
  <2>1. \A k \in D : ~(rank[k] < 0)
    OBVIOUS
  <2>2. Good(rank, 0)
    BY <2>1
  <2> HIDE DEF Good
  <2> QED BY <2>2
<1>2. ASSUME NEW j \in T PROVE j + 1 \in T
  <2>1. PICK f : Good(f, j)
    OBVIOUS
  <2> DEFINE h == [k \in D |-> IF rank[k] < j THEN f[k] ELSE Rhs(f, k)]
  <2>2. ASSUME NEW k \in D, rank[k] < j + 1 PROVE h[k] = Rhs(h, k)
    <3>1. h[k] = Rhs(f, k)
      <4>1. CASE rank[k] < j
        <5>1. f[k] = Rhs(f, k) /\ h[k] = f[k]
          BY <2>1, <4>1, Zenon
        <5> QED BY <5>1, Zenon
      <4>2. CASE ~(rank[k] < j)
        BY <4>2, Zenon
      <4> QED BY <4>1, <4>2
    <3>2. ASSUME k \notin Stop PROVE h[g[k]] = f[g[k]]
      <4>1. g[k] \in D /\ rank[g[k]] < rank[k] /\ rank[g[k]] \in Nat /\ rank[k] \in Nat /\ j \in Nat
        BY <3>2
      <4>2. rank[g[k]] < j
        BY <2>2, <4>1
      <4> HIDE DEF Rhs
      <4> QED BY <4>1, <4>2, Zenon
    <3>3. Rhs(h, k) = Rhs(f, k)
      <4> HIDE DEF h
      <4> QED BY <3>2, Zenon
    <3> QED BY <3>1, <3>3, Zenon
  <2>3. Good(h, j + 1)
    <3> HIDE DEF h, Rhs
    <3> QED BY <2>2
  <2> HIDE DEF Good, h
  <2> QED BY <2>3
<1>3. T = Nat
  <2>1. T \in SUBSET Nat
    OBVIOUS
  <2> HIDE DEF T
  <2> QED BY <1>1, <1>2, <2>1, SetInduction
<1>4. PICK f : Good(f, L + 1)
  <2>1. L + 1 \in T
    <3> HIDE DEF T
    <3> QED BY <1>3
  <2> HIDE DEF Good
  <2> QED BY <2>1
<1> DEFINE h == [k \in D |-> f[k]]
<1>5. ASSUME NEW k \in D PROVE h[k] = Rhs(h, k)
  <2>1. rank[k] < L + 1
    OBVIOUS
  <2>2. f[k] = Rhs(f, k)
    BY <1>4, <2>1, Zenon
  <2>3. k \notin Stop => h[g[k]] = f[g[k]]
    BY Zenon
  <2>4. Rhs(h, k) = Rhs(f, k)
    <3> HIDE DEF h
    <3> QED BY <2>3, Zenon
  <2>5. h[k] = f[k]
    BY Zenon
  <2> QED BY <2>2, <2>4, <2>5, Zenon
<1>6. h = [k \in D |-> h[k]]
  BY Zenon
<1>7. WalksOn(h, D, Stop, g, mode)
  <2>1. h = [k \in D |-> Rhs(h, k)]
    <3> HIDE DEF h, Rhs
    <3> QED BY <1>5, <1>6, Zenon
  <2> HIDE DEF h
  <2> QED BY <2>1, Zenon DEF WalksOn
<1> QED BY <1>7

\* What is below a node that is below another one is below that.
LEMMA BelowTransitive ==
    ASSUME NEW n \in Nat, NEW p \in Orders(n), NEW r \in 1..n, NEW x \in 1..n, NEW m \in 1..n,
           IsBelow(p, r, x), IsBelow(p, x, m)
    PROVE  IsBelow(p, r, m)
<1>1. r < x /\ x < m /\ (\A k \in (r + 1)..x : p[k] >= r) /\ \A k \in (x + 1)..m : p[k] >= x
  BY DEF IsBelow
<1>2. \A k \in 1..n : p[k] \in Nat
  BY OrderIs
<1>3. ASSUME NEW k \in (r + 1)..m PROVE p[k] >= r
  <2>1. k \in 1..n /\ p[k] \in Nat
    BY <1>2
  <2>2. CASE k <= x
    BY <1>1, <2>2
  <2>3. CASE ~(k <= x)
    <3>1. p[k] >= x
      BY <1>1, <2>3
    <3> QED BY <1>1, <2>1, <3>1
  <2> QED BY <2>2, <2>3
<1> QED BY <1>1, <1>3 DEF IsBelow

\* f is the recursion of WalkNext and NodeNext: on from a node to the nearest one around it
\* that has a sibling.
Rises(f, doc, root) ==
    f = [n \in Documents!Nodes(doc) \cup {Documents!Null} |->
           IF n # Documents!Null /\ Documents!Links(doc).next[n] = Documents!Null /\ n # root
           THEN f[doc.parent[n]] ELSE n]

\* The recursion that climbs has a solution, because parents come before their children.
LEMMA RiseExists ==
    ASSUME NEW doc, NEW n, NEW p, HasTree(doc, n, p), NEW root
    PROVE  \E f : Rises(f, doc, root)
<1> USE DEF HasTree
<1> DEFINE D == Documents!Nodes(doc) \cup {Documents!Null}
           Stop == {k \in D : ~(k # Documents!Null /\ Documents!Links(doc).next[k] = Documents!Null /\ k # root)}
           rank == [k \in D |-> k]
<1>1. D = 0..n /\ Documents!Null = 0 /\ doc.parent = p
  BY DEF Documents!Nodes, Orders, Documents!Null
<1>2. rank \in [D -> 0..n]
  BY <1>1
<1>3. \A k \in D \ Stop : p[k] \in D /\ rank[p[k]] < rank[k]
  <2>1. \A k \in D \ Stop : k \in 1..n
    BY <1>1
  <2>2. \A k \in 1..n : p[k] \in 0..n /\ p[k] < k
    BY OrderIs
  <2> HIDE DEF Stop
  <2> QED BY <1>1, <2>1, <2>2
<1> HIDE DEF rank
<1>4. PICK f : WalksOn(f, D, Stop, p, "end")
  <2> HIDE DEF D, Stop
  <2> QED BY <1>2, <1>3, FollowingEnds
<1>5. f = [k \in D |-> IF k \in Stop THEN k ELSE f[p[k]]]
  BY <1>4, Zenon DEF WalksOn
<1>6. [k \in D |-> IF k \in Stop THEN k ELSE f[p[k]]]
        = [k \in D |-> IF k # Documents!Null /\ Documents!Links(doc).next[k] = Documents!Null /\ k # root
                       THEN f[doc.parent[k]] ELSE k]
  <2>1. ASSUME NEW k \in D
        PROVE  (IF k \in Stop THEN k ELSE f[p[k]])
                 = IF k # Documents!Null /\ Documents!Links(doc).next[k] = Documents!Null /\ k # root
                   THEN f[doc.parent[k]] ELSE k
    <3>1. doc.parent[k] = p[k]
      BY <1>1
    <3> QED BY <3>1, Zenon
  <2> HIDE DEF D, Stop
  <2> QED BY <2>1
<1>7. Rises(f, doc, root)
  BY <1>5, <1>6, Zenon DEF Rises
<1> QED BY <1>7

\* The next sibling of a node, or 0.
Sibling(n, p, m) == NextOf(ChildrenOf(n, p, p[m]), m)

\* One step of the climb.
LEMMA RiseStep ==
    ASSUME NEW doc, NEW n, NEW p, HasTree(doc, n, p), NEW root, NEW up, Rises(up, doc, root)
    PROVE  /\ up[0] = 0
           /\ \A k \in 1..n : up[k] = IF Sibling(n, p, k) = 0 /\ k # root THEN up[p[k]] ELSE k
<1>1. Documents!Nodes(doc) = 1..n /\ Documents!Null = 0 /\ doc.parent = p
  BY DEF Documents!Nodes, Orders, Documents!Null, HasTree
<1>2. \A k \in 1..n \cup {0} :
         up[k] = IF k # 0 /\ Documents!Links(doc).next[k] = 0 /\ k # root THEN up[p[k]] ELSE k
  BY <1>1, Zenon DEF Rises
<1>3. \A k \in 1..n : Documents!Links(doc).next[k] = Sibling(n, p, k)
  BY LinksAre DEF Sibling
<1>4. 0 \in 1..n \cup {0} /\ \A k \in 1..n : k # 0 /\ k \in 1..n \cup {0}
  OBVIOUS
<1>5. up[0] = 0
  BY <1>2, <1>4, Zenon
<1>6. ASSUME NEW k \in 1..n PROVE up[k] = IF Sibling(n, p, k) = 0 /\ k # root THEN up[p[k]] ELSE k
  <2>1. up[k] = IF k # 0 /\ Documents!Links(doc).next[k] = 0 /\ k # root THEN up[p[k]] ELSE k
    BY <1>2, <1>4, Zenon
  <2> QED BY <1>3, <1>4, <2>1, Zenon
<1> QED BY <1>5, <1>6

\* Where a rise ends: at the root, at nothing, or at a node with a sibling.
LEMMA RiseEnds ==
    ASSUME NEW doc, NEW n, NEW p, HasTree(doc, n, p), NEW root, NEW up, Rises(up, doc, root),
           NEW m \in 1..n
    PROVE  \/ up[m] = 0
           \/ /\ up[m] \in 1..n
              /\ up[m] = m \/ IsBelow(p, up[m], m)
              /\ Sibling(n, p, up[m]) # 0 \/ up[m] = root
<1> DEFINE P(k) == k \in 1..n => \/ up[k] = 0
                                 \/ /\ up[k] \in 1..n
                                    /\ up[k] = k \/ IsBelow(p, up[k], k)
                                    /\ Sibling(n, p, up[k]) # 0 \/ up[k] = root
           T == {k \in Nat : \A j \in 0..k : P(j)}
<1>1. n \in Nat /\ p \in Orders(n)
  BY DEF HasTree
<1>6. /\ up[0] = 0
        /\ \A k \in 1..n : up[k] = IF Sibling(n, p, k) = 0 /\ k # root THEN up[p[k]] ELSE k
  BY RiseStep
<1>2. 0 \in T
  OBVIOUS
<1>3. ASSUME NEW k \in T PROVE k + 1 \in T
  <2>1. \A j \in 0..k : P(j)
    OBVIOUS
  <2>2. P(k + 1)
    <3> SUFFICES ASSUME k + 1 \in 1..n
                 PROVE  \/ up[k + 1] = 0
                        \/ /\ up[k + 1] \in 1..n
                           /\ up[k + 1] = k + 1 \/ IsBelow(p, up[k + 1], k + 1)
                           /\ Sibling(n, p, up[k + 1]) # 0 \/ up[k + 1] = root
      OBVIOUS
    <3>1. PICK q \in 0..n : q = p[k + 1] /\ q \in 0..k
      BY <1>1, OrderIs
    <3>2. CASE ~(Sibling(n, p, k + 1) = 0 /\ k + 1 # root)
      <4>1. up[k + 1] = k + 1
        BY <3>2, <1>6, Zenon
      <4> QED BY <3>2, <4>1
    <3>3. CASE Sibling(n, p, k + 1) = 0 /\ k + 1 # root
      <4>1. up[k + 1] = up[q]
        BY <3>1, <3>3, <1>6, Zenon
      <4>2. CASE q = 0
        <5>1. up[q] = 0
          BY <4>2, <1>6, Zenon
        <5> QED BY <4>1, <5>1
      <4>3. CASE q # 0
        <5>1. q \in 1..n /\ P(q)
          BY <2>1, <3>1, <4>3
        <5>2. IsBelow(p, q, k + 1)
          BY <1>1, <3>1, <5>1, BelowByParent
        <5>3. CASE up[q] = 0
          BY <4>1, <5>3
        <5>4. CASE up[q] # 0
          <6>1. /\ up[q] \in 1..n
                /\ up[q] = q \/ IsBelow(p, up[q], q)
                /\ Sibling(n, p, up[q]) # 0 \/ up[q] = root
            BY <5>1, <5>4
          <6>2. IsBelow(p, up[q], k + 1)
            <7>1. PICK a \in 1..n : a = up[q]
              BY <6>1
            <7>2. a = q \/ IsBelow(p, a, q)
              BY <6>1, <7>1
            <7>3. IsBelow(p, a, k + 1)
              BY <1>1, <5>1, <5>2, <7>2, BelowTransitive
            <7> QED BY <7>1, <7>3
          <6> QED BY <4>1, <6>1, <6>2
        <5> QED BY <5>3, <5>4
      <4> QED BY <4>2, <4>3
    <3> QED BY <3>2, <3>3
  <2> HIDE DEF P
  <2>3. \A j \in 0..(k + 1) : j \in 0..k \/ j = k + 1
    OBVIOUS
  <2> QED BY <2>1, <2>2, <2>3
<1>4. T = Nat
  <2>1. T \in SUBSET Nat
    OBVIOUS
  <2> HIDE DEF T
  <2> QED BY <1>2, <1>3, <2>1, SetInduction
<1>5. P(m)
  <2> HIDE DEF P
  <2>1. m \in Nat /\ m \in 0..m
    OBVIOUS
  <2> QED BY <1>4, <2>1
<1> QED BY <1>5

\* From a node below the root which has no children: to the node whose sibling comes next, or
\* to the root.
LEMMA RiseBelow ==
    ASSUME NEW doc, NEW n, NEW p, HasTree(doc, n, p), NEW root \in 1..n, NEW up, Rises(up, doc, root),
           NEW m \in 1..n, IsBelow(p, root, m), m < n => p[m + 1] < m
    PROVE  IF m < n /\ IsBelow(p, root, m + 1)
           THEN up[m] \in 1..n /\ up[m] # root /\ Sibling(n, p, up[m]) = m + 1
           ELSE up[m] = root
<1> DEFINE Goes == m < n /\ p[m + 1] >= root
           Q(x) == /\ x \in 1..n
                   /\ x = m \/ IsBelow(p, x, m)
                   /\ x = root \/ IsBelow(p, root, x)
                   /\ m < n => p[m + 1] < x
           R(x) == IF Goes THEN up[x] \in 1..n /\ up[x] # root /\ Sibling(n, p, up[x]) = m + 1
                   ELSE up[x] = root
           T == {k \in Nat : \A j \in 0..k : Q(j) => R(j)}
<1>1. n \in Nat /\ p \in Orders(n) /\ root \in Nat /\ m \in Nat
  BY DEF HasTree
<1>8. /\ up[0] = 0
        /\ \A k \in 1..n : up[k] = IF Sibling(n, p, k) = 0 /\ k # root THEN up[p[k]] ELSE k
  BY RiseStep
<1>2. 0 \in T
  <2>1. ~Q(0)
    BY <1>1
  <2> HIDE DEF Q, R
  <2> QED BY <2>1
<1>3. ASSUME NEW k \in T PROVE k + 1 \in T
  <2>1. \A j \in 0..k : Q(j) => R(j)
    OBVIOUS
  <2>2. ASSUME Q(k + 1) PROVE R(k + 1)
    <3>1. PICK x \in 1..n : x = k + 1
      BY <2>2
    <3>2. /\ x = m \/ IsBelow(p, x, m)
          /\ x = root \/ IsBelow(p, root, x)
          /\ m < n => p[m + 1] < x
      BY <2>2, <3>1
    <3>3. PICK q \in 0..n : q = p[x] /\ q < x
      BY <1>1, OrderIs
    <3>4. m < n => p[m + 1] \in Nat
      BY <1>1, OrderIs
    <3>5. CASE x = root
      <4>1. up[x] = x
        BY <3>5, <1>8, Zenon
      <4>2. ~Goes
        BY <1>1, <3>2, <3>4, <3>5
      <4> QED BY <3>1, <3>5, <4>1, <4>2
    <3>6. CASE x # root
      <4>1. q = root \/ IsBelow(p, root, q)
        BY <1>1, <3>2, <3>3, <3>6, BelowByParent
      <4>2. q \in 1..n /\ q >= root
        BY <1>1, <4>1 DEF IsBelow
      <4>3. m \in x..n
        BY <3>2, <1>1 DEF IsBelow
      <4>4. /\ Sibling(n, p, x) = IF m < n /\ p[m + 1] = q THEN m + 1 ELSE 0
            /\ m < n => p[m + 1] <= q
        BY <1>1, <3>2, <3>3, <4>3, SiblingIs DEF Sibling
      <4>5. CASE m < n /\ p[m + 1] = q
        <5>1. Sibling(n, p, x) = m + 1 /\ m + 1 # 0
          BY <1>1, <4>4, <4>5
        <5>2. up[x] = x
          BY <5>1, <1>8, Zenon
        <5>3. Goes
          BY <4>2, <4>5
        <5> QED BY <3>1, <3>6, <5>1, <5>2, <5>3
      <4>6. CASE ~(m < n /\ p[m + 1] = q)
        <5>1. Sibling(n, p, x) = 0
          BY <4>4, <4>6
        <5>2. up[x] = up[q]
          BY <3>3, <3>6, <5>1, <1>8, Zenon
        <5>3. IsBelow(p, q, x)
          BY <1>1, <3>3, <4>2, BelowByParent
        <5>4. IsBelow(p, q, m)
          BY <1>1, <3>2, <4>2, <5>3, BelowTransitive
        <5>5. m < n => p[m + 1] < q
          BY <3>4, <4>4, <4>6
        <5>6. Q(q)
          BY <4>1, <4>2, <5>4, <5>5
        <5>7. q \in 0..k
          BY <3>1, <3>3
        <5>8. R(q)
          <6> HIDE DEF Q, R
          <6> QED BY <2>1, <5>6, <5>7
        <5> QED BY <3>1, <5>2, <5>8
      <4> QED BY <4>5, <4>6
    <3> QED BY <3>5, <3>6
  <2> HIDE DEF Q, R
  <2>3. \A j \in 0..(k + 1) : j \in 0..k \/ j = k + 1
    OBVIOUS
  <2> QED BY <2>1, <2>2, <2>3
<1>4. T = Nat
  <2>1. T \in SUBSET Nat
    OBVIOUS
  <2> HIDE DEF T
  <2> QED BY <1>2, <1>3, <2>1, SetInduction
<1>5. Q(m) => R(m)
  <2> HIDE DEF Q, R
  <2>1. m \in Nat /\ m \in 0..m
    OBVIOUS
  <2> QED BY <1>4, <2>1
<1>6. Q(m)
  OBVIOUS
<1>7. m < n => (IsBelow(p, root, m + 1) <=> p[m + 1] >= root)
  BY <1>1 DEF IsBelow
<1> QED BY <1>5, <1>6, <1>7

\* The first child of a node, or 0.
FirstChild(n, p, m) == NextOf(ChildrenOf(n, p, m), m)

\* A sibling comes after everything that is below a node.
LEMMA SiblingComesLater ==
    ASSUME NEW n \in Nat, NEW p \in Orders(n), NEW a \in 1..n, NEW m \in 1..n,
           a = m \/ IsBelow(p, a, m), Sibling(n, p, a) # 0
    PROVE  Sibling(n, p, a) \in (m + 1)..n
<1> DEFINE S == ChildrenOf(n, p, p[a])
<1>1. S \in SUBSET Nat /\ a \in Nat /\ \A c \in S : c \in 1..n /\ p[c] = p[a]
  BY DEF ChildrenOf
<1>2. PICK c \in S : c = Sibling(n, p, a) /\ c > a
  <2>1. NextOf(S, a) # 0
    BY DEF Sibling
  <2> HIDE DEF S
  <2>2. NextOf(S, a) \in S /\ NextOf(S, a) > a
    BY <1>1, <2>1, NextIs
  <2> QED BY <2>2 DEF S, Sibling
<1>3. c \in 1..n /\ p[c] = p[a] /\ p[a] < a /\ p[a] \in Nat
  BY <1>1, OrderIs
<1>4. ASSUME IsBelow(p, a, m) PROVE c > m
  <2>1. \A k \in (a + 1)..m : p[k] >= a
    BY <1>4 DEF IsBelow
  <2> QED BY <1>2, <1>3, <2>1
<1> QED BY <1>2, <1>3, <1>4

\* Both iterators, from any node: from a node below the root to the next number if that is
\* below it too, and in any case forwards.
LEMMA StepsAre ==
    ASSUME NEW doc, NEW n, NEW p, HasTree(doc, n, p), NEW root \in 1..n, NEW m \in 1..n
    PROVE  /\ Documents!NodeNext(doc, root, m) \in {0} \cup (m + 1)..n
           /\ Documents!WalkNext(doc, root, m) \in {0} \cup (m + 1)..n
           /\ IsBelow(p, root, m) =>
                LET next == IF m < n /\ IsBelow(p, root, m + 1) THEN m + 1 ELSE 0
                IN  Documents!NodeNext(doc, root, m) = next /\ Documents!WalkNext(doc, root, m) = next
<1> DEFINE up == CHOOSE f : Rises(f, doc, root)
           first == FirstChild(n, p, m)
           above == up[m]
           beside == Sibling(n, p, above)
<1>1. n \in Nat /\ p \in Orders(n) /\ Documents!Nodes(doc) = 1..n /\ Documents!Null = 0 /\ doc.parent = p
  BY DEF Documents!Nodes, Orders, Documents!Null, HasTree
<1>2. Rises(up, doc, root)
  <2>1. \E f : Rises(f, doc, root)
    BY RiseExists
  <2> QED BY <2>1, Zenon
<1>3. Documents!Links(doc).first_child[m] = first /\ \A k \in 1..n : Documents!Links(doc).next[k] = Sibling(n, p, k)
  BY LinksAre DEF Sibling, FirstChild
<1>4. /\ Documents!NodeNext(doc, root, m)
           = IF Documents!Links(doc).first_child[m] # Documents!Null THEN Documents!Links(doc).first_child[m]
             ELSE LET a == IF above = root THEN Documents!Null ELSE above
                  IN  IF a # Documents!Null /\ Documents!Links(doc).next[a] # Documents!Null THEN Documents!Links(doc).next[a] ELSE a
      /\ Documents!WalkNext(doc, root, m)
           = LET reached == IF Documents!Links(doc).first_child[m] # Documents!Null THEN Documents!Links(doc).first_child[m]
                            ELSE IF above \notin {root, Documents!Null} THEN Documents!Links(doc).next[above] ELSE above
             IN  IF reached = root THEN Documents!Null ELSE reached
  BY Zenon DEF Documents!NodeNext, Documents!WalkNext, Rises
<1> HIDE DEF up
<1>5. \/ above = 0
      \/ above \in 1..n /\ (above = m \/ IsBelow(p, above, m)) /\ (beside # 0 \/ above = root)
  BY <1>2, RiseEnds
<1>6. first = IF m < n /\ p[m + 1] = m THEN m + 1 ELSE 0
  BY <1>1, FirstChildIs DEF FirstChild
<1>7. root # 0 /\ m \in Nat /\ root \in Nat
  OBVIOUS
<1> DEFINE node == Documents!NodeNext(doc, root, m)
           walk == Documents!WalkNext(doc, root, m)
<1>8. CASE first # 0
  <2>1. node = first /\ walk = IF first = root THEN 0 ELSE first
    BY <1>1, <1>3, <1>4, <1>8
  <2>2. first = m + 1 /\ m < n /\ p[m + 1] = m
    BY <1>6, <1>8
  <2>3. ASSUME IsBelow(p, root, m)
        PROVE  IsBelow(p, root, m + 1) /\ first # root
    <3>1. IsBelow(p, m, m + 1)
      BY <2>2 DEF IsBelow
    <3>2. m + 1 \in 1..n
      BY <1>1, <2>2
    <3> QED BY <1>1, <2>2, <2>3, <3>1, <3>2, BelowTransitive DEF IsBelow
  <2>4. m + 1 \in (m + 1)..n
    BY <1>1, <2>2
  <2> HIDE DEF first, node, walk
  <2>5. node \in {0} \cup (m + 1)..n /\ walk \in {0} \cup (m + 1)..n
    BY <2>1, <2>2, <2>4
  <2>6. ASSUME IsBelow(p, root, m)
        PROVE  LET next == IF m < n /\ IsBelow(p, root, m + 1) THEN m + 1 ELSE 0
               IN  node = next /\ walk = next
    BY <2>1, <2>2, <2>3, <2>6
  <2> QED BY <2>5, <2>6 DEF node, walk
<1>9. CASE first = 0
  <2>1. /\ node = IF above = root \/ above = 0 THEN 0 ELSE beside
        /\ walk = IF above = root \/ above = 0 \/ beside = root THEN 0 ELSE beside
    <3>1. CASE above = root \/ above = 0
      BY <1>1, <1>3, <1>4, <1>7, <1>9, <3>1
    <3>2. CASE ~(above = root \/ above = 0)
      <4>1. above \in 1..n /\ beside # 0
        BY <1>5, <3>2
      <4>2. Documents!Links(doc).next[above] = beside
        BY <1>3, <4>1
      <4> HIDE DEF above, beside
      <4> QED BY <1>1, <1>3, <1>4, <1>9, <3>2, <4>1, <4>2
    <3> QED BY <3>1, <3>2
  <2>2. ASSUME above # root, above # 0 PROVE beside \in (m + 1)..n
    <3>1. PICK a \in 1..n : a = above
      BY <1>5, <2>2
    <3>2. (a = m \/ IsBelow(p, a, m)) /\ Sibling(n, p, a) # 0
      BY <1>5, <2>2, <3>1
    <3>3. Sibling(n, p, a) \in (m + 1)..n
      BY <1>1, <3>2, SiblingComesLater
    <3> QED BY <3>1, <3>3
  <2>3. ASSUME IsBelow(p, root, m)
        PROVE  LET next == IF m < n /\ IsBelow(p, root, m + 1) THEN m + 1 ELSE 0
               IN  node = next /\ walk = next
    <3>1. m < n => p[m + 1] < m
      <4>1. m < n => p[m + 1] < m + 1 /\ p[m + 1] \in Nat
        BY <1>1, OrderIs
      <4> QED BY <1>6, <1>9, <4>1
    <3>2. IF m < n /\ IsBelow(p, root, m + 1)
          THEN above \in 1..n /\ above # root /\ beside = m + 1
          ELSE above = root
      BY <1>2, <2>3, <3>1, RiseBelow
    <3>3. m + 1 # root
      BY <1>7, <2>3 DEF IsBelow
    <3> HIDE DEF above, beside, node, walk
    <3>4. CASE m < n /\ IsBelow(p, root, m + 1)
      <4>1. above \in 1..n /\ above # root /\ beside = m + 1
        BY <3>2, <3>4, Zenon
      <4>2. above # 0
        BY <4>1
      <4> QED BY <2>1, <3>3, <3>4, <4>1, <4>2
    <3>5. CASE ~(m < n /\ IsBelow(p, root, m + 1))
      BY <2>1, <3>2, <3>5
    <3> QED BY <3>4, <3>5
  <2> HIDE DEF above, beside, node, walk
  <2>4. node \in {0} \cup (m + 1)..n /\ walk \in {0} \cup (m + 1)..n
    BY <2>1, <2>2
  <2> QED BY <2>3, <2>4 DEF node, walk
<1> QED BY <1>8, <1>9

\* s has the numbers of S, from the least to the greatest.
ListsAll(s, S) ==
    /\ s \in Seq(S)
    /\ \A i, j \in 1..Len(s) : i < j => s[i] < s[j]
    /\ \A x \in S : \E i \in 1..Len(s) : s[i] = x

\* Two lists of the same numbers agree as far as the first one goes.
LEMMA ListsStartAlike ==
    ASSUME NEW S \in SUBSET Nat, NEW s, NEW t, ListsAll(s, S), ListsAll(t, S)
    PROVE  Len(s) <= Len(t) /\ \A i \in 1..Len(s) : s[i] = t[i]
<1> DEFINE T == {k \in Nat : k <= Len(s) => k <= Len(t) /\ \A i \in 1..k : s[i] = t[i]}
<1>1. /\ s \in Seq(S) /\ t \in Seq(S)
      /\ \A i, j \in 1..Len(s) : i < j => s[i] < s[j]
      /\ \A i, j \in 1..Len(t) : i < j => t[i] < t[j]
      /\ \A x \in S : (\E i \in 1..Len(s) : s[i] = x) /\ (\E i \in 1..Len(t) : t[i] = x)
  BY DEF ListsAll
<1>2. /\ Len(s) \in Nat /\ \A i \in 1..Len(s) : s[i] \in S /\ s[i] \in Nat
      /\ Len(t) \in Nat /\ \A i \in 1..Len(t) : t[i] \in S /\ t[i] \in Nat
  <2>1. \A r \in Seq(S) : Len(r) \in Nat /\ \A i \in 1..Len(r) : r[i] \in S
    OBVIOUS
  <2>2. \A x \in S : x \in Nat
    OBVIOUS
  <2> QED BY <1>1, <2>1, <2>2, Zenon
<1>3. 0 \in T
  BY <1>2
<1>4. ASSUME NEW k \in T PROVE k + 1 \in T
  <2> SUFFICES ASSUME k + 1 <= Len(s)
               PROVE  k + 1 <= Len(t) /\ \A i \in 1..(k + 1) : s[i] = t[i]
    OBVIOUS
  <2>1. k <= Len(t) /\ (\A i \in 1..k : s[i] = t[i]) /\ k \in Nat /\ k + 1 \in 1..Len(s)
    BY <1>2
  <2>2. PICK j \in 1..Len(t) : t[j] = s[k + 1]
    BY <1>1, <1>2, <2>1
  <2>3. j > k
    <3>1. ASSUME j <= k PROVE FALSE
      <4>1. j \in 1..k /\ j \in 1..Len(s) /\ j < k + 1
        BY <1>2, <2>1, <3>1
      <4>2. s[j] = t[j] /\ s[j] < s[k + 1]
        BY <1>1, <2>1, <4>1
      <4> QED BY <1>2, <2>1, <2>2, <4>2
    <3> QED BY <2>1, <3>1
  <2>4. k + 1 \in 1..Len(t)
    BY <1>2, <2>1, <2>3
  <2>5. PICK i \in 1..Len(s) : s[i] = t[k + 1]
    BY <1>1, <1>2, <2>4
  <2>6. i > k
    <3>1. ASSUME i <= k PROVE FALSE
      <4>1. i \in 1..k /\ i \in 1..Len(t) /\ i < k + 1
        BY <1>2, <2>1, <3>1
      <4>2. s[i] = t[i] /\ t[i] < t[k + 1]
        BY <1>1, <2>1, <2>4, <4>1
      <4> QED BY <1>2, <2>4, <2>5, <4>2
    <3> QED BY <2>1, <3>1
  <2>7. t[k + 1] <= t[j]
    <3>1. k + 1 = j \/ k + 1 < j
      BY <2>1, <2>3
    <3> QED BY <1>1, <1>2, <2>4, <3>1
  <2>8. s[k + 1] <= s[i]
    <3>1. k + 1 = i \/ k + 1 < i
      BY <2>1, <2>6
    <3> QED BY <1>1, <1>2, <2>1, <3>1
  <2>9. s[k + 1] = t[k + 1]
    BY <1>2, <2>1, <2>2, <2>4, <2>5, <2>7, <2>8
  <2> QED BY <2>1, <2>4, <2>9
<1>5. T = Nat
  <2>1. T \in SUBSET Nat
    OBVIOUS
  <2> HIDE DEF T
  <2> QED BY <1>3, <1>4, <2>1, SetInduction
<1>6. Len(s) \in T
  <2> HIDE DEF T
  <2> QED BY <1>2, <1>5
<1> QED BY <1>2, <1>6

\* A set of numbers has one list.
LEMMA ListsAreOne ==
    ASSUME NEW S \in SUBSET Nat, NEW s, NEW t, ListsAll(s, S), ListsAll(t, S)
    PROVE  s = t
<1>1. s \in Seq(S) /\ t \in Seq(S) /\ Len(s) \in Nat /\ Len(t) \in Nat
  BY DEF ListsAll
<1>2. Len(s) <= Len(t) /\ \A i \in 1..Len(s) : s[i] = t[i]
  BY ListsStartAlike
<1>4. Len(t) <= Len(s)
  BY ListsStartAlike
<1>3. Len(s) = Len(t)
  BY <1>1, <1>2, <1>4
<1> QED BY <1>1, <1>2, <1>3, SeqEqual

\* The empty sequence lists no numbers.
LEMMA NothingIsListed == ListsAll(<<>>, {})
  BY DEF ListsAll

\* A number in front of the list of those above it.
LEMMA ListsMore ==
    ASSUME NEW S \in SUBSET Nat, NEW s, NEW m \in S, ListsAll(s, {x \in S : x > m})
    PROVE  ListsAll(<<m>> \o s, {x \in S : x >= m})
<1> DEFINE A == {x \in S : x > m}
           B == {x \in S : x >= m}
           t == <<m>> \o s
<1>1. /\ s \in Seq(A)
      /\ \A i, j \in 1..Len(s) : i < j => s[i] < s[j]
      /\ \A x \in A : \E i \in 1..Len(s) : s[i] = x
  BY DEF ListsAll
<1>2. A \subseteq B /\ B = A \cup {m} /\ m \in B /\ m \in Nat
  <2>1. \A x \in S : x \in Nat /\ (x >= m <=> x > m \/ x = m)
    OBVIOUS
  <2> QED BY <2>1
<1>3. \A x \in A : x > m
  OBVIOUS
<1> HIDE DEF A, B
<1>4. s \in Seq(B) /\ <<m>> \in Seq(B) /\ Len(<<m>>) = 1 /\ <<m>>[1] = m
  BY <1>1, <1>2, SeqMonotonic
<1>5. /\ t \in Seq(B) /\ Len(t) = Len(<<m>>) + Len(s)
      /\ \A i \in 1..(Len(<<m>>) + Len(s)) : t[i] = IF i <= Len(<<m>>) THEN <<m>>[i] ELSE s[i - Len(<<m>>)]
  BY <1>4, ConcatProperties, Zenon
<1> HIDE DEF t
<1>6. PICK N \in Nat : N = Len(s)
  BY <1>1
<1>7. Len(t) = N + 1 /\ t[1] = m /\ \A i \in 1..N : t[i + 1] = s[i]
  <2>1. Len(t) = 1 + N /\ \A i \in 1..(1 + N) : t[i] = IF i <= 1 THEN <<m>>[i] ELSE s[i - 1]
    BY <1>4, <1>5, <1>6, Zenon
  <2>2. t[1] = m
    BY <1>4, <2>1
  <2>3. ASSUME NEW i \in 1..N PROVE t[i + 1] = s[i]
    <3>1. i + 1 \in 1..(1 + N) /\ ~(i + 1 <= 1) /\ (i + 1) - 1 = i
      OBVIOUS
    <3> QED BY <2>1, <3>1
  <2> QED BY <2>1, <2>2, <2>3
<1>8. ASSUME NEW i \in 1..(N + 1), NEW j \in 1..(N + 1), i < j PROVE t[i] < t[j]
  <2>1. PICK k \in 1..N : j = k + 1
    <3>1. j - 1 \in 1..N /\ j = (j - 1) + 1
      BY <1>8
    <3> QED BY <3>1
  <2>2. t[j] = s[k] /\ s[k] \in A
    BY <1>1, <1>6, <1>7, <2>1
  <2>3. CASE i = 1
    BY <1>3, <1>7, <2>2, <2>3
  <2>4. CASE i # 1
    <3>1. PICK h \in 1..N : i = h + 1 /\ h < k
      <4>1. i - 1 \in 1..N /\ i = (i - 1) + 1 /\ i - 1 < k
        BY <1>8, <2>1, <2>4
      <4> QED BY <4>1
    <3>2. t[i] = s[h] /\ s[h] < s[k]
      BY <1>1, <1>6, <1>7, <3>1
    <3> QED BY <2>2, <3>2
  <2> QED BY <2>3, <2>4
<1>9. ASSUME NEW x \in B PROVE \E i \in 1..(N + 1) : t[i] = x
  <2>1. CASE x = m
    BY <1>7, <2>1
  <2>2. CASE x # m
    <3>1. PICK i \in 1..N : s[i] = x
      BY <1>1, <1>2, <1>6, <2>2
    <3>2. i + 1 \in 1..(N + 1) /\ t[i + 1] = x
      BY <1>7, <3>1
    <3> QED BY <3>2
  <2> QED BY <2>1, <2>2
<1>10. ListsAll(t, B)
  BY <1>5, <1>7, <1>8, <1>9 DEF ListsAll
<1> QED BY <1>10 DEF t, B

\* What is left of a list lists what is left of its numbers.
LEMMA ListsFewer ==
    ASSUME NEW S \in SUBSET Nat, NEW s, ListsAll(s, S), NEW I \in SUBSET DOMAIN s
    PROVE  ListsAll(Entries(s, I), {s[i] : i \in I})
<1> DEFINE t == Entries(s, I)
           B == {s[i] : i \in I}
<1>1. s \in Seq(S) /\ DOMAIN s = 1..Len(s) /\ Len(s) \in Nat
  BY DEF ListsAll
<1>2. PICK e : t \in Seq(S) /\ Embeds(e, t, s, I)
  BY <1>1, EntriesAre
<1> HIDE DEF t
<1>3. /\ e \in [1..Len(t) -> I]
      /\ \A i \in I : \E k \in 1..Len(t) : e[k] = i
      /\ \A j, k \in 1..Len(t) : j < k => e[j] < e[k]
      /\ \A k \in 1..Len(t) : t[k] = s[e[k]]
  BY <1>2 DEF Embeds
<1>4. t \in Seq(B)
  <2>1. \A k \in 1..Len(t) : t[k] \in B
    BY <1>3
  <2>2. Len(t) \in Nat /\ t = [k \in 1..Len(t) |-> t[k]]
    BY <1>2
  <2> HIDE DEF B
  <2>3. t \in [1..Len(t) -> B]
    BY <2>1, <2>2
  <2> QED BY <2>2, <2>3
<1>5. ASSUME NEW j \in 1..Len(t), NEW k \in 1..Len(t), j < k PROVE t[j] < t[k]
  <2>1. e[j] \in 1..Len(s) /\ e[k] \in 1..Len(s) /\ e[j] < e[k]
    BY <1>1, <1>3, <1>5
  <2>2. s[e[j]] < s[e[k]]
    BY <2>1 DEF ListsAll
  <2> QED BY <1>3, <2>2
<1>6. ASSUME NEW x \in B PROVE \E k \in 1..Len(t) : t[k] = x
  <2>1. PICK i \in I : x = s[i]
    OBVIOUS
  <2>2. PICK k \in 1..Len(t) : e[k] = i
    BY <1>3
  <2> QED BY <1>3, <2>1, <2>2
<1> HIDE DEF B
<1>7. ListsAll(t, B)
  BY <1>4, <1>5, <1>6 DEF ListsAll
<1> QED BY <1>7 DEF t, B

\* f is a recursion which goes on from each number of S to the next one, or the one before.
GoesOn(f, g, n, Stop, mode, S) ==
    /\ n \in Nat /\ S \in SUBSET (1..n) /\ 0 \in Stop
    /\ WalksOn(f, 0..n, Stop, g, mode)
    /\ \A m \in S : g[m] = NextOf(S, m)
GoesBack(f, g, n, Stop, mode, S) ==
    /\ n \in Nat /\ S \in SUBSET (1..n) /\ 0 \in Stop
    /\ WalksOn(f, 0..n, Stop, g, mode)
    /\ \A m \in S : g[m] = LastOf(S, m)

\* A recursion that goes on to the next number of S lists S.
LEMMA FollowingLists ==
    ASSUME NEW n, NEW S, NEW f, NEW g, GoesOn(f, g, n, {0}, "all", S), NEW b0 \in Nat
    PROVE  ListsAll(f[NextOf(S, b0)], {x \in S : x > b0})
<1> /\ n \in Nat /\ S \in SUBSET (1..n)
    /\ WalksOn(f, 0..n, {0}, g, "all")
    /\ \A m \in S : g[m] = NextOf(S, m)
  BY Zenon DEF GoesOn
<1> DEFINE Above(b) == {x \in S : x > b}
           C(b) == ListsAll(f[NextOf(S, b)], Above(b))
           T == {j \in Nat : \A b \in Nat : b + j >= n => C(b)}
<1>1. S \in SUBSET Nat /\ \A x \in S : x \in 1..n /\ x \in Nat /\ x # 0 /\ x \in 0..n
  <2>1. \A x \in S : x \in 1..n
    OBVIOUS
  <2> QED BY <2>1
<1>2. f[0] = <<>> /\ \A m \in S : f[m] = <<m>> \o f[NextOf(S, m)]
  <2>1. \A k \in 0..n : f[k] = IF k \in {0} THEN <<>> ELSE <<k>> \o f[g[k]]
    BY Zenon DEF WalksOn
  <2>2. 0 \in 0..n
    OBVIOUS
  <2>3. f[0] = <<>>
    BY <2>1, <2>2, Zenon
  <2>4. ASSUME NEW m \in S PROVE f[m] = <<m>> \o f[NextOf(S, m)]
    <3>1. m \in 0..n /\ m \notin {0}
      BY <1>1
    <3>2. f[m] = <<m>> \o f[g[m]]
      BY <2>1, <3>1, Zenon
    <3> QED BY <3>2, Zenon
  <2> QED BY <2>3, <2>4
<1>3. ASSUME NEW b \in Nat, Above(b) = {} PROVE C(b)
  <2>1. NextOf(S, b) = 0
    BY <1>1, <1>3, NextIs
  <2> HIDE DEF Above
  <2> QED BY <1>2, <1>3, <2>1, NothingIsListed
<1>4. 0 \in T
  <2>1. ASSUME NEW b \in Nat, b + 0 >= n PROVE Above(b) = {}
    <3>1. \A x \in S : ~(x > b)
      BY <1>1, <2>1
    <3> QED BY <3>1
  <2> HIDE DEF C, Above
  <2> QED BY <1>3, <2>1
<1>5. ASSUME NEW j \in T PROVE j + 1 \in T
  <2>1. \A b \in Nat : b + j >= n => C(b)
    OBVIOUS
  <2>2. ASSUME NEW b \in Nat, b + (j + 1) >= n, Above(b) # {} PROVE C(b)
    <3> DEFINE c == NextOf(S, b)
    <3>0. \E x \in S : x > b
      BY <2>2
    <3>1. c \in S /\ c > b /\ \A d \in S : d > b => c <= d
      BY <1>1, <3>0, NextIs, Zenon
    <3> HIDE DEF c
    <3>2. c \in Nat /\ c + j >= n
      BY <1>1, <2>2, <3>1, j \in Nat
    <3>3. ListsAll(f[NextOf(S, c)], {x \in S : x > c})
      BY <2>1, <3>2
    <3>4. ListsAll(<<c>> \o f[NextOf(S, c)], {x \in S : x >= c})
      BY <1>1, <3>1, <3>3, ListsMore
    <3>5. {x \in S : x >= c} = Above(b)
      <4>1. \A x \in S : x >= c <=> x > b
        BY <1>1, <3>1
      <4> QED BY <4>1
    <3>6. f[NextOf(S, b)] = <<c>> \o f[NextOf(S, c)]
      BY <1>2, <3>1, Zenon DEF c
    <3> HIDE DEF Above
    <3> QED BY <3>4, <3>5, <3>6, Zenon
  <2>3. \A b \in Nat : b + (j + 1) >= n => C(b)
    <3> HIDE DEF C, Above
    <3> QED BY <1>3, <2>2
  <2> HIDE DEF C
  <2> QED BY <2>3
<1>6. T = Nat
  <2>1. T \in SUBSET Nat
    OBVIOUS
  <2> HIDE DEF T
  <2> QED BY <1>4, <1>5, <2>1, SetInduction
<1>7. \A b \in Nat : b + n >= n => C(b)
  <2>1. n \in T
    <3> HIDE DEF T
    <3> QED BY <1>6
  <2> HIDE DEF C
  <2> QED BY <2>1
<1>8. C(b0)
  <2>1. b0 + n >= n
    OBVIOUS
  <2> HIDE DEF C
  <2> QED BY <1>7, <2>1
<1> QED BY <1>8

\* Two numbers with the same numbers of a set above them have the same next one.
LEMMA NextsAlike ==
    ASSUME NEW S \in SUBSET Nat, NEW b \in Nat, NEW c \in Nat, \A x \in S : x > b <=> x > c
    PROVE  NextOf(S, b) = NextOf(S, c)
<1>1. CASE \E x \in S : x > b
  <2>1. PICK a \in S : a = NextOf(S, b) /\ a > b /\ \A d \in S : d > b => a <= d
    <3>1. NextOf(S, b) \in S /\ NextOf(S, b) > b /\ \A d \in S : d > b => NextOf(S, b) <= d
      BY <1>1, NextIs, Zenon
    <3> QED BY <3>1, Zenon
  <2>2. NextOf(S, c) = a
    <3>1. a > c /\ \A d \in S : d > c => a <= d
      BY <2>1
    <3> QED BY <3>1, NextIs, Zenon
  <2> QED BY <2>1, <2>2
<1>2. CASE ~(\E x \in S : x > b)
  <2>1. NextOf(S, b) = 0
    BY <1>2, NextIs
  <2>2. NextOf(S, c) = 0
    BY <1>2, NextIs
  <2> QED BY <2>1, <2>2
<1> QED BY <1>1, <1>2

\* Two numbers with the same numbers of a set below them have the same one before.
LEMMA LastsAlike ==
    ASSUME NEW n \in Nat, NEW S \in SUBSET (1..n), NEW b \in Nat, NEW c \in Nat,
           \A x \in S : x < b <=> x < c
    PROVE  LastOf(S, b) = LastOf(S, c)
<1>1. CASE \E x \in S : x < b
  <2>1. PICK a \in S : a = LastOf(S, b) /\ a < b /\ \A d \in S : d < b => a >= d
    BY <1>1, LastIs
  <2>2. LastOf(S, c) = a
    BY <2>1, LastIs
  <2> QED BY <2>1, <2>2
<1>2. CASE ~(\E x \in S : x < b)
  <2>1. LastOf(S, b) = 0
    BY <1>2, LastIs
  <2>2. LastOf(S, c) = 0
    BY <1>2, LastIs
  <2> QED BY <2>1, <2>2
<1> QED BY <1>1, <1>2

\* What f makes of the next number of J is the next one of I; the same for the one before.
Finds(f, J, I) == \A b \in Nat : f[NextOf(J, b)] = NextOf(I, b)
FindsBack(f, J, I) == \A b \in Nat : f[LastOf(J, b)] = LastOf(I, b)

\* A recursion that goes on to the next number of J stops at the next one that is to be
\* stopped at.
LEMMA FollowingSkips ==
    ASSUME NEW n, NEW J, NEW f, NEW g, NEW Stop, GoesOn(f, g, n, Stop, "end", J)
    PROVE  Finds(f, J, J \cap Stop)
<1> /\ n \in Nat /\ J \in SUBSET (1..n) /\ 0 \in Stop
    /\ WalksOn(f, 0..n, Stop, g, "end")
    /\ \A m \in J : g[m] = NextOf(J, m)
  BY Zenon DEF GoesOn
<1> DEFINE I == J \cap Stop
           C(b) == f[NextOf(J, b)] = NextOf(I, b)
           T == {j \in Nat : \A b \in Nat : b + j >= n => C(b)}
<1>1. J \in SUBSET Nat /\ I \in SUBSET Nat /\ \A x \in J : x \in 1..n /\ x \in Nat
  <2>1. \A x \in J : x \in 1..n /\ x \in Nat
    OBVIOUS
  <2> QED BY <2>1, Zenon
<1>2. f[0] = 0 /\ \A k \in 1..n : f[k] = IF k \in Stop THEN k ELSE f[g[k]]
  <2>1. \A k \in 0..n : f[k] = IF k \in Stop THEN k ELSE f[g[k]]
    BY Zenon DEF WalksOn
  <2>2. 0 \in 0..n /\ \A k \in 1..n : k \in 0..n
    OBVIOUS
  <2> QED BY <2>1, <2>2, Zenon
<1>3. ASSUME NEW b \in Nat, \A x \in J : ~(x > b) PROVE C(b)
  <2>1. NextOf(J, b) = 0
    BY <1>1, <1>3, NextIs, Zenon
  <2>2. \A x \in I : ~(x > b)
    BY <1>3, Zenon
  <2> HIDE DEF I
  <2>3. NextOf(I, b) = 0
    BY <1>1, <2>2, NextIs, Zenon
  <2> QED BY <1>2, <2>1, <2>3
<1>4. 0 \in T
  <2>1. ASSUME NEW b \in Nat, b + 0 >= n PROVE \A x \in J : ~(x > b)
    BY <1>1, <2>1
  <2> HIDE DEF C
  <2> QED BY <1>3, <2>1
<1>5. ASSUME NEW j \in T PROVE j + 1 \in T
  <2>1. \A b \in Nat : b + j >= n => C(b)
    OBVIOUS
  <2>2. ASSUME NEW b \in Nat, b + (j + 1) >= n, ~(\A x \in J : ~(x > b)) PROVE C(b)
    <3> DEFINE c == NextOf(J, b)
    <3>0. \E x \in J : x > b
      BY <2>2
    <3>1. c \in J /\ c > b /\ \A d \in J : d > b => c <= d
      BY <1>1, <3>0, NextIs, Zenon
    <3> HIDE DEF c
    <3>2. c \in Nat /\ c \in 1..n /\ c + j >= n
      BY <1>1, <2>2, <3>1, j \in Nat
    <3>3. \A x \in I : x \in Nat /\ (x > b => x >= c)
      BY <1>1, <3>1
    <3>4. CASE c \in Stop
      <4>1. f[c] = c
        BY <1>2, <3>2, <3>4
      <4>2. c \in I /\ c > b /\ \A d \in I : d > b => c <= d
        BY <3>1, <3>4
      <4>3. NextOf(I, b) = c
        <5>1. I \in SUBSET Nat /\ b \in Nat
          BY <1>1
        <5> HIDE DEF I
        <5>2. \A x \in I : x > b /\ (\A d \in I : d > b => x <= d) => NextOf(I, b) = x
          BY <5>1, NextIs, Zenon
        <5> QED BY <4>2, <5>2, Zenon
      <4> QED BY <4>1, <4>3 DEF c
    <3>5. CASE c \notin Stop
      <4>1. f[c] = f[NextOf(J, c)]
        BY <1>2, <3>1, <3>2, <3>5
      <4>2. f[NextOf(J, c)] = NextOf(I, c)
        BY <2>1, <3>2
      <4>3. \A x \in I : x > b <=> x > c
        BY <3>1, <3>2, <3>3, <3>5
      <4>4. NextOf(I, b) = NextOf(I, c)
        <5> HIDE DEF I
        <5> QED BY <1>1, <3>2, <4>3, NextsAlike
      <4> QED BY <4>1, <4>2, <4>4 DEF c
    <3> QED BY <3>4, <3>5
  <2>3. \A b \in Nat : b + (j + 1) >= n => C(b)
    <3> HIDE DEF C
    <3> QED BY <1>3, <2>2
  <2> HIDE DEF C
  <2> QED BY <2>3
<1>6. T = Nat
  <2>1. T \in SUBSET Nat
    OBVIOUS
  <2> HIDE DEF T
  <2> QED BY <1>4, <1>5, <2>1, SetInduction
<1>7. \A b \in Nat : b + n >= n => C(b)
  <2>1. n \in T
    <3> HIDE DEF T
    <3> QED BY <1>6
  <2> HIDE DEF C
  <2> QED BY <2>1
<1>8. ASSUME NEW b0 \in Nat PROVE C(b0)
  <2>1. b0 + n >= n
    OBVIOUS
  <2> HIDE DEF C
  <2> QED BY <1>7, <2>1
<1> QED BY <1>8 DEF Finds

\* The same backwards.
LEMMA FollowingSkipsBack ==
    ASSUME NEW n, NEW J, NEW f, NEW g, NEW Stop, GoesBack(f, g, n, Stop, "end", J)
    PROVE  FindsBack(f, J, J \cap Stop)
<1> /\ n \in Nat /\ J \in SUBSET (1..n) /\ 0 \in Stop
    /\ WalksOn(f, 0..n, Stop, g, "end")
    /\ \A m \in J : g[m] = LastOf(J, m)
  BY Zenon DEF GoesBack
<1> DEFINE I == J \cap Stop
           C(b) == f[LastOf(J, b)] = LastOf(I, b)
           T == {j \in Nat : \A b \in 0..j : C(b)}
<1>1. J \in SUBSET (1..n) /\ I \in SUBSET (1..n) /\ \A x \in J : x \in 1..n /\ x \in Nat
  <2>1. \A x \in J : x \in 1..n /\ x \in Nat
    OBVIOUS
  <2> QED BY <2>1, Zenon
<1>2. f[0] = 0 /\ \A k \in 1..n : f[k] = IF k \in Stop THEN k ELSE f[g[k]]
  <2>1. \A k \in 0..n : f[k] = IF k \in Stop THEN k ELSE f[g[k]]
    BY Zenon DEF WalksOn
  <2>2. 0 \in 0..n /\ \A k \in 1..n : k \in 0..n
    OBVIOUS
  <2> QED BY <2>1, <2>2, Zenon
<1>3. ASSUME NEW b \in Nat, \A x \in J : ~(x < b) PROVE C(b)
  <2>1. LastOf(J, b) = 0
    BY <1>1, <1>3, LastIs
  <2>2. \A x \in I : ~(x < b)
    BY <1>3
  <2> HIDE DEF I
  <2>3. LastOf(I, b) = 0
    BY <1>1, <2>2, LastIs
  <2> QED BY <1>2, <2>1, <2>3
<1>4. 0 \in T
  <2>1. \A x \in J : ~(x < 0)
    BY <1>1
  <2>2. C(0)
    <3> HIDE DEF C
    <3> QED BY <1>3, <2>1
  <2>3. 0..0 = {0}
    OBVIOUS
  <2> HIDE DEF C
  <2> QED BY <2>2, <2>3
<1>5. ASSUME NEW j \in T PROVE j + 1 \in T
  <2>1. \A b \in 0..j : C(b)
    OBVIOUS
  <2>2. ASSUME ~(\A x \in J : ~(x < j + 1)) PROVE C(j + 1)
    <3>0. j + 1 \in Nat
      OBVIOUS
    <3>1. PICK c \in J : c = LastOf(J, j + 1) /\ c < j + 1 /\ \A d \in J : d < j + 1 => c >= d
      <4>1. \E x \in J : x < j + 1
        BY <2>2
      <4>2. LastOf(J, j + 1) \in J /\ LastOf(J, j + 1) < j + 1 /\ \A d \in J : d < j + 1 => LastOf(J, j + 1) >= d
        BY <1>1, <3>0, <4>1, LastIs
      <4> QED BY <4>2
    <3>2. c \in Nat /\ c \in 1..n /\ c \in 0..j
      BY <1>1, <2>2, <3>1, j \in Nat
    <3>3. \A x \in I : x \in Nat /\ (x < j + 1 => x <= c)
      BY <1>1, <3>1
    <3>4. CASE c \in Stop
      <4>1. f[c] = c
        BY <1>2, <3>2, <3>4
      <4>2. c \in I /\ c < j + 1 /\ \A d \in I : d < j + 1 => c >= d
        BY <3>1, <3>4
      <4>3. LastOf(I, j + 1) = c
        <5> HIDE DEF I
        <5> QED BY <1>1, <3>0, <4>2, LastIs
      <4> QED BY <3>1, <4>1, <4>3
    <3>5. CASE c \notin Stop
      <4>1. f[c] = f[LastOf(J, c)]
        BY <1>2, <3>2, <3>5
      <4>2. f[LastOf(J, c)] = LastOf(I, c)
        BY <2>1, <3>2
      <4>3. \A x \in I : x < j + 1 <=> x < c
        BY <3>1, <3>2, <3>3, <3>5
      <4>4. LastOf(I, j + 1) = LastOf(I, c)
        <5> HIDE DEF I
        <5> QED BY <1>1, <3>0, <3>2, <4>3, LastsAlike
      <4> QED BY <3>1, <4>1, <4>2, <4>4
    <3> QED BY <3>4, <3>5
  <2>3. C(j + 1)
    <3>1. j + 1 \in Nat
      OBVIOUS
    <3> HIDE DEF C
    <3> QED BY <1>3, <2>2, <3>1
  <2>4. \A b \in 0..(j + 1) : b \in 0..j \/ b = j + 1
    OBVIOUS
  <2> HIDE DEF C
  <2> QED BY <2>1, <2>3, <2>4
<1>6. T = Nat
  <2>1. T \in SUBSET Nat
    OBVIOUS
  <2> HIDE DEF T
  <2> QED BY <1>4, <1>5, <2>1, SetInduction
<1>7. ASSUME NEW b0 \in Nat PROVE C(b0)
  <2>1. b0 \in T /\ b0 \in 0..b0
    <3> HIDE DEF T
    <3> QED BY <1>6
  <2> HIDE DEF C
  <2> QED BY <2>1
<1> QED BY <1>7 DEF FindsBack

\* The numbers of S in their order.
OrderOf(n, S) == Entries([k \in 1..n |-> k], S)

\* OrderOf(n, S) lists S.
LEMMA NumbersAreListed ==
    ASSUME NEW n \in Nat, NEW S \in SUBSET (1..n)
    PROVE  ListsAll(OrderOf(n, S), S)
<1> DEFINE ids == [k \in 1..n |-> k]
<1>1. ids \in Seq(1..n) /\ Len(ids) = n /\ DOMAIN ids = 1..n /\ \A k \in 1..n : ids[k] = k
  OBVIOUS
<1> HIDE DEF ids
<1>2. ListsAll(ids, 1..n)
  BY <1>1 DEF ListsAll
<1>3. {ids[k] : k \in S} = S
  BY <1>1
<1>4. ListsAll(Entries(ids, S), {ids[k] : k \in S})
  <2>1. 1..n \in SUBSET Nat
    OBVIOUS
  <2>2. S \in SUBSET DOMAIN ids
    BY <1>1
  <2> QED BY <1>2, <2>1, <2>2, ListsFewer
<1> QED BY <1>3, <1>4 DEF OrderOf, ids

\* Whatever lists the same numbers is their list.
LEMMA OrdersAre ==
    ASSUME NEW n \in Nat, NEW S \in SUBSET (1..n), NEW s, ListsAll(s, S)
    PROVE  s = OrderOf(n, S)
<1>1. S \in SUBSET Nat
  <2>1. \A x \in S : x \in Nat
    OBVIOUS
  <2> QED BY <2>1
<1> QED BY <1>1, NumbersAreListed, ListsAreOne

\* Before an entry of a list is the entry before it.
LEMMA LastInList ==
    ASSUME NEW n \in Nat, NEW S \in SUBSET (1..n), NEW s, ListsAll(s, S), NEW i \in 1..Len(s)
    PROVE  LastOf(S, s[i]) = IF i = 1 THEN 0 ELSE s[i - 1]
<1>1. /\ s \in Seq(S) /\ Len(s) \in Nat
      /\ \A j, k \in 1..Len(s) : j < k => s[j] < s[k]
      /\ \A x \in S : \E k \in 1..Len(s) : s[k] = x
  BY DEF ListsAll
<1>2. \A k \in 1..Len(s) : s[k] \in S /\ s[k] \in 1..n /\ s[k] \in Nat
  <2>1. \A k \in 1..Len(s) : s[k] \in S
    BY <1>1
  <2>2. \A x \in S : x \in 1..n /\ x \in Nat
    OBVIOUS
  <2> QED BY <2>1, <2>2, Zenon
<1>3. ASSUME NEW d \in S, d < s[i] PROVE \E k \in 1..Len(s) : s[k] = d /\ k < i
  <2>1. PICK k \in 1..Len(s) : s[k] = d
    BY <1>1
  <2>2. k < i
    <3>1. ASSUME i < k PROVE FALSE
      <4>1. s[i] < s[k]
        BY <1>1, <3>1
      <4> QED BY <1>2, <1>3, <2>1, <4>1
    <3>2. k # i
      BY <1>2, <1>3, <2>1
    <3> QED BY <3>1, <3>2
  <2> QED BY <2>1, <2>2
<1>4. CASE i = 1
  <2>1. ~(\E d \in S : d < s[i])
    <3>1. \A k \in 1..Len(s) : ~(k < 1)
      OBVIOUS
    <3> QED BY <1>3, <1>4, <3>1
  <2>2. LastOf(S, s[i]) = 0
    BY <1>2, <2>1, LastIs
  <2> QED BY <1>4, <2>2
<1>5. CASE i # 1
  <2>1. PICK h \in 1..Len(s) : h = i - 1 /\ h < i
    BY <1>1, <1>5
  <2>2. s[h] \in S /\ s[h] < s[i]
    BY <1>1, <1>2, <2>1
  <2>3. ASSUME NEW d \in S, d < s[i] PROVE s[h] >= d
    <3>1. PICK k \in 1..Len(s) : s[k] = d /\ k < i
      BY <1>3, <2>3
    <3>2. k = h \/ k < h
      BY <2>1, <3>1
    <3>3. s[k] \in Nat /\ s[h] \in Nat /\ (k < h => s[k] < s[h])
      BY <1>1, <1>2
    <3> QED BY <3>1, <3>2, <3>3
  <2>4. LastOf(S, s[i]) = s[h]
    BY <1>2, <2>2, <2>3, LastIs
  <2> QED BY <1>5, <2>1, <2>4
<1> QED BY <1>4, <1>5

\* A recursion that only goes forwards never comes back.
LEMMA FollowingBounds ==
    ASSUME NEW n \in Nat, NEW f, NEW g, NEW Stop, 0 \in Stop, WalksOn(f, 0..n, Stop, g, "end"),
           \A k \in 1..n : g[k] \in {0} \cup (k + 1)..n, NEW c0 \in 0..n
    PROVE  f[c0] \in {0} \cup c0..n
<1> DEFINE C(c) == f[c] \in {0} \cup c..n
           T == {j \in Nat : \A c \in 1..n : c + j >= n + 1 => C(c)}
<1>1. f[0] = 0 /\ \A k \in 1..n : f[k] = IF k \in Stop THEN k ELSE f[g[k]]
  <2>1. \A k \in 0..n : f[k] = IF k \in Stop THEN k ELSE f[g[k]]
    BY Zenon DEF WalksOn
  <2>2. 0 \in 0..n /\ \A k \in 1..n : k \in 0..n
    OBVIOUS
  <2> QED BY <2>1, <2>2, Zenon
<1>2. 0 \in T
  <2>1. \A c \in 1..n : ~(c + 0 >= n + 1)
    OBVIOUS
  <2> HIDE DEF C
  <2> QED BY <2>1
<1>3. ASSUME NEW j \in T PROVE j + 1 \in T
  <2>1. \A c \in 1..n : c + j >= n + 1 => C(c)
    OBVIOUS
  <2>2. ASSUME NEW c \in 1..n, c + (j + 1) >= n + 1 PROVE C(c)
    <3>1. CASE c \in Stop
      BY <1>1, <3>1
    <3>2. CASE c \notin Stop
      <4>1. f[c] = f[g[c]]
        BY <1>1, <3>2
      <4>2. PICK d \in {0} \cup (c + 1)..n : d = g[c]
        OBVIOUS
      <4>3. CASE d = 0
        BY <1>1, <4>1, <4>2, <4>3
      <4>4. CASE d # 0
        <5>1. d \in 1..n /\ d + j >= n + 1 /\ d > c
          BY <2>2, <4>2, <4>4, j \in Nat
        <5>2. f[d] \in {0} \cup d..n
          BY <2>1, <5>1
        <5> QED BY <4>1, <4>2, <5>1, <5>2
      <4> QED BY <4>3, <4>4
    <3> QED BY <3>1, <3>2
  <2> HIDE DEF C
  <2> QED BY <2>2
<1>4. T = Nat
  <2>1. T \in SUBSET Nat
    OBVIOUS
  <2> HIDE DEF T
  <2> QED BY <1>2, <1>3, <2>1, SetInduction
<1>5. \A c \in 1..n : C(c)
  <2>1. n \in T /\ \A c \in 1..n : c + n >= n + 1
    <3> HIDE DEF T
    <3> QED BY <1>4
  <2> HIDE DEF C
  <2> QED BY <2>1
<1>6. CASE c0 = 0
  BY <1>1, <1>6
<1>7. CASE c0 # 0
  <2>1. c0 \in 1..n
    BY <1>7
  <2>2. C(c0)
    <3> HIDE DEF C
    <3> QED BY <1>5, <2>1
  <2> QED BY <2>2
<1> QED BY <1>6, <1>7

\* A recursion that only goes forwards, or only backwards, has a solution.
LEMMA ForwardsEnds ==
    ASSUME NEW n \in Nat, NEW g, NEW Stop, 0 \in Stop, NEW mode,
           \A k \in 1..n : g[k] \in {0} \cup (k + 1)..n
    PROVE  \E f : WalksOn(f, 0..n, Stop, g, mode)
<1> DEFINE rank == [k \in 0..n |-> IF k = 0 THEN 0 ELSE n + 1 - k]
<1>1. rank \in [0..n -> 0..(n + 1)]
  OBVIOUS
<1>2. ASSUME NEW k \in (0..n) \ Stop PROVE g[k] \in 0..n /\ rank[g[k]] < rank[k]
  <2>1. k \in 1..n
    OBVIOUS
  <2>2. PICK d \in {0} \cup (k + 1)..n : d = g[k]
    BY <2>1
  <2>3. rank[d] < rank[k] /\ d \in 0..n
    BY <2>1
  <2> HIDE DEF rank
  <2> QED BY <2>2, <2>3
<1> HIDE DEF rank
<1>3. n + 1 \in Nat
  OBVIOUS
<1> QED BY <1>1, <1>2, <1>3, FollowingEnds

\* The same backwards.
LEMMA BackwardsEnds ==
    ASSUME NEW n \in Nat, NEW g, NEW Stop, 0 \in Stop, NEW mode,
           \A k \in 1..n : g[k] \in 0..n /\ g[k] < k
    PROVE  \E f : WalksOn(f, 0..n, Stop, g, mode)
<1> DEFINE rank == [k \in 0..n |-> k]
<1>1. rank \in [0..n -> 0..n]
  OBVIOUS
<1>2. ASSUME NEW k \in (0..n) \ Stop PROVE g[k] \in 0..n /\ rank[g[k]] < rank[k]
  <2>1. k \in 1..n
    OBVIOUS
  <2>2. PICK d \in 0..n : d = g[k] /\ d < k
    BY <2>1
  <2>3. rank[d] < rank[k]
    BY <2>1, <2>2
  <2> HIDE DEF rank
  <2> QED BY <2>2, <2>3
<1> HIDE DEF rank
<1> QED BY <1>1, <1>2, FollowingEnds

\* What is below a node, the elements there, and its children which are elements.
BelowOf(n, p, view) == {m \in 1..n : IsBelow(p, view, m)}
ElementsOf(doc, n, p, view) == {m \in BelowOf(n, p, view) : Documents!IsElement(doc, m)}
ElementChildren(doc, n, p, view) == {m \in ElementsOf(doc, n, p, view) : p[m] = view}

\* What is below a view: nothing for an invalid one.
LEMMA BelowAre ==
    ASSUME NEW doc, NEW n, NEW p, HasTree(doc, n, p)
    PROVE  /\ Documents!Below(doc, 0) = {}
           /\ \A view \in 1..n : Documents!Below(doc, view) = BelowOf(n, p, view)
<1>1. n \in Nat /\ p \in Orders(n) /\ Documents!Nodes(doc) = 1..n
  BY DEF Documents!Nodes, Orders, HasTree
<1>2. \A m \in 1..n : Documents!Ancestors(doc, m) = {r \in 1..n : IsBelow(p, r, m)}
  BY AncestorsAre
<1> QED BY <1>1, <1>2 DEF Documents!Below, BelowOf

\* What follows a node below the root, and the root itself, is the next number or nothing.
LEMMA NextBelow ==
    ASSUME NEW n \in Nat, NEW p \in Orders(n), NEW view \in 1..n, NEW m \in 1..n,
           m = view \/ IsBelow(p, view, m)
    PROVE  NextOf(BelowOf(n, p, view), m) = IF m < n /\ IsBelow(p, view, m + 1) THEN m + 1 ELSE 0
<1> DEFINE S == BelowOf(n, p, view)
<1>1. S \in SUBSET Nat /\ m \in Nat
  BY DEF BelowOf
<1>2. CASE m < n /\ IsBelow(p, view, m + 1)
  <2>1. m + 1 \in S /\ m + 1 > m /\ \A d \in S : d > m => m + 1 <= d
    BY <1>1, <1>2 DEF BelowOf
  <2>2. NextOf(S, m) = m + 1
    <3> HIDE DEF S
    <3> QED BY <1>1, <2>1, NextIs
  <2> QED BY <1>2, <2>2
<1>3. CASE ~(m < n /\ IsBelow(p, view, m + 1))
  <2>1. ASSUME NEW d \in S, d > m PROVE FALSE
    <3>1. d \in 1..n /\ view < d /\ \A k \in (view + 1)..d : p[k] >= view
      BY DEF BelowOf, IsBelow
    <3>2. m >= view
      BY DEF IsBelow
    <3>3. m < n /\ view < m + 1 /\ \A k \in (view + 1)..(m + 1) : p[k] >= view
      BY <2>1, <3>1, <3>2
    <3> QED BY <1>3, <3>3 DEF IsBelow
  <2>2. NextOf(S, m) = 0
    <3> HIDE DEF S
    <3> QED BY <1>1, <2>1, NextIs
  <2> QED BY <1>3, <2>2
<1> QED BY <1>2, <1>3

\* The first child of a node is the first number below it.
LEMMA FirstBelow ==
    ASSUME NEW n \in Nat, NEW p \in Orders(n), NEW view \in 1..n
    PROVE  FirstChild(n, p, view) = NextOf(BelowOf(n, p, view), view)
<1>1. FirstChild(n, p, view) = IF view < n /\ p[view + 1] = view THEN view + 1 ELSE 0
  BY FirstChildIs DEF FirstChild
<1>2. NextOf(BelowOf(n, p, view), view) = IF view < n /\ IsBelow(p, view, view + 1) THEN view + 1 ELSE 0
  BY NextBelow
<1>3. ASSUME view < n PROVE IsBelow(p, view, view + 1) <=> p[view + 1] = view
  <2>1. p[view + 1] \in Nat /\ p[view + 1] < view + 1
    BY <1>3, OrderIs
  <2> QED BY <2>1 DEF IsBelow
<1> QED BY <1>1, <1>2, <1>3

\* f is the recursion of NodeWalk.
NodesFrom(f, doc, view) ==
    f = [n \in Documents!Nodes(doc) \cup {Documents!Null} |->
           IF n = Documents!Null THEN <<>> ELSE <<n>> \o f[Documents!NodeNext(doc, view, n)]]

\* DOMNodeWalkIterator visits what is below its root, in document order.
LEMMA NodeWalkIs ==
    ASSUME NEW doc, NEW n, NEW p, HasTree(doc, n, p), NEW view \in 1..n
    PROVE  Documents!NodeWalk(doc, view) = OrderOf(n, BelowOf(n, p, view))
<1> DEFINE g == [k \in 0..n |-> Documents!NodeNext(doc, view, k)]
           S == BelowOf(n, p, view)
<1>1. n \in Nat /\ p \in Orders(n) /\ Documents!Nodes(doc) \cup {Documents!Null} = 0..n /\ Documents!Null = 0
  BY DEF Documents!Nodes, Orders, HasTree, Documents!Null
<1>2. \A k \in 1..n : g[k] = Documents!NodeNext(doc, view, k) /\ g[k] \in {0} \cup (k + 1)..n
  <2>1. \A k \in 1..n : Documents!NodeNext(doc, view, k) \in {0} \cup (k + 1)..n
    BY StepsAre
  <2> QED BY <1>1, <2>1
<1> HIDE DEF g
<1>3. ASSUME NEW f PROVE NodesFrom(f, doc, view) <=> WalksOn(f, 0..n, {0}, g, "all")
  <2>1. ASSUME NEW k \in 0..n
        PROVE  (IF k = 0 THEN <<>> ELSE <<k>> \o f[Documents!NodeNext(doc, view, k)])
                 = IF k \in {0} THEN IF "all" = "all" THEN <<>> ELSE k ELSE IF "all" = "all" THEN <<k>> \o f[g[k]] ELSE f[g[k]]
    <3>1. k = 0 \/ k \in 1..n
      BY <1>1
    <3> QED BY <1>2, <3>1, Zenon
  <2>2. [k \in 0..n |-> IF k = 0 THEN <<>> ELSE <<k>> \o f[Documents!NodeNext(doc, view, k)]]
          = [k \in 0..n |-> IF k \in {0} THEN IF "all" = "all" THEN <<>> ELSE k ELSE IF "all" = "all" THEN <<k>> \o f[g[k]] ELSE f[g[k]]]
    BY <2>1, Zenon
  <2> QED BY <1>1, <2>2, Zenon DEF NodesFrom, WalksOn
<1> DEFINE h == CHOOSE f : NodesFrom(f, doc, view)
<1>4. WalksOn(h, 0..n, {0}, g, "all")
  <2>1. \E f : WalksOn(f, 0..n, {0}, g, "all")
    BY <1>1, <1>2, ForwardsEnds
  <2>2. \E f : NodesFrom(f, doc, view)
    BY <1>3, <2>1, Zenon
  <2>3. NodesFrom(h, doc, view)
    BY <2>2, Zenon
  <2> HIDE DEF h
  <2> QED BY <1>3, <2>3, Zenon
<1>5. Documents!NodeWalk(doc, view) = h[Documents!Links(doc).first_child[view]]
  <2>1. view # Documents!Null
    BY <1>1
  <2> QED BY <2>1, Zenon DEF Documents!NodeWalk, NodesFrom
<1> HIDE DEF h
<1>6. Documents!Links(doc).first_child[view] = NextOf(S, view)
  BY <1>1, LinksAre, FirstBelow DEF FirstChild
<1>7. S \in SUBSET (1..n) /\ {x \in S : x > view} = S
  BY DEF BelowOf, IsBelow
<1>8. \A m \in S : g[m] = NextOf(S, m)
  <2> SUFFICES ASSUME NEW m \in S PROVE g[m] = NextOf(S, m)
    OBVIOUS
  <2>1. m \in 1..n /\ IsBelow(p, view, m)
    BY DEF BelowOf
  <2>2. g[m] = IF m < n /\ IsBelow(p, view, m + 1) THEN m + 1 ELSE 0
    BY <1>2, <2>1, StepsAre
  <2> QED BY <1>1, <2>1, <2>2, NextBelow
<1> HIDE DEF S
<1>9. view \in Nat
  OBVIOUS
<1>10. ListsAll(h[NextOf(S, view)], {x \in S : x > view})
  <2>1. GoesOn(h, g, n, {0}, "all", S)
    BY <1>1, <1>4, <1>7, <1>8, Zenon DEF GoesOn
  <2> QED BY <1>9, <2>1, FollowingLists
<1>11. Documents!NodeWalk(doc, view) = OrderOf(n, S)
  BY <1>1, <1>5, <1>6, <1>7, <1>10, OrdersAre
<1> QED BY <1>11 DEF S

\* f is the recursion of WalkUntilElement.
WalksToElement(f, doc, view) ==
    f = [n \in Documents!Nodes(doc) \cup {Documents!Null} |->
           IF n \in {Documents!Null, view} \/ Documents!IsElement(doc, n) THEN n ELSE f[Documents!WalkNext(doc, view, n)]]

\* walk_until_element stops at the next element below the root, and never goes back.
LEMMA WalkUntilElementIs ==
    ASSUME NEW doc, NEW n, NEW p, HasTree(doc, n, p), NEW view \in 1..n
    PROVE  /\ \A b \in Nat : Documents!WalkUntilElement(doc, view, NextOf(BelowOf(n, p, view), b))
                               = NextOf(ElementsOf(doc, n, p, view), b)
           /\ Documents!WalkUntilElement(doc, view, 0) = 0
           /\ \A c \in 1..n : Documents!WalkUntilElement(doc, view, c) \in {0} \cup c..n
<1> DEFINE g == [k \in 0..n |-> Documents!WalkNext(doc, view, k)]
           S == BelowOf(n, p, view)
           Stop == {k \in 0..n : k \in {0, view} \/ Documents!IsElement(doc, k)}
<1>1. n \in Nat /\ p \in Orders(n) /\ Documents!Nodes(doc) \cup {Documents!Null} = 0..n /\ Documents!Null = 0
  BY DEF Documents!Nodes, Orders, HasTree, Documents!Null
<1>2. \A k \in 1..n : g[k] = Documents!WalkNext(doc, view, k) /\ g[k] \in {0} \cup (k + 1)..n
  <2>1. \A k \in 1..n : Documents!WalkNext(doc, view, k) \in {0} \cup (k + 1)..n
    BY StepsAre
  <2> QED BY <1>1, <2>1
<1>3. /\ 0 \in Stop
      /\ \A k \in 0..n : k \in Stop <=> k \in {0, view} \/ Documents!IsElement(doc, k)
      /\ \A k \in 0..n : k \notin Stop => k \in 1..n
  BY <1>1
<1>4. S \in SUBSET (1..n) /\ S \cap Stop = ElementsOf(doc, n, p, view)
  BY <1>1 DEF BelowOf, ElementsOf, IsBelow
<1> HIDE DEF g, Stop
<1>5. ASSUME NEW f PROVE WalksToElement(f, doc, view) <=> WalksOn(f, 0..n, Stop, g, "end")
  <2>1. ASSUME NEW k \in 0..n
        PROVE  (IF k \in {0, view} \/ Documents!IsElement(doc, k) THEN k ELSE f[Documents!WalkNext(doc, view, k)])
                 = IF k \in Stop THEN IF "end" = "all" THEN <<>> ELSE k ELSE IF "end" = "all" THEN <<k>> \o f[g[k]] ELSE f[g[k]]
    BY <1>2, <1>3
  <2>2. [k \in 0..n |-> IF k \in {0, view} \/ Documents!IsElement(doc, k) THEN k ELSE f[Documents!WalkNext(doc, view, k)]]
          = [k \in 0..n |-> IF k \in Stop THEN IF "end" = "all" THEN <<>> ELSE k ELSE IF "end" = "all" THEN <<k>> \o f[g[k]] ELSE f[g[k]]]
    BY <2>1, Zenon
  <2> QED BY <1>1, <2>2, Zenon DEF WalksToElement, WalksOn
<1> DEFINE h == CHOOSE f : WalksToElement(f, doc, view)
<1>6. WalksOn(h, 0..n, Stop, g, "end")
  <2>1. \E f : WalksOn(f, 0..n, Stop, g, "end")
    BY <1>1, <1>2, <1>3, ForwardsEnds
  <2>2. \E f : WalksToElement(f, doc, view)
    BY <1>5, <2>1, Zenon
  <2>3. WalksToElement(h, doc, view)
    BY <2>2, Zenon
  <2> HIDE DEF h
  <2> QED BY <1>5, <2>3, Zenon
<1>7. \A c : Documents!WalkUntilElement(doc, view, c) = h[c]
  BY Zenon DEF Documents!WalkUntilElement, WalksToElement
<1> HIDE DEF h
<1>8. \A m \in S : g[m] = NextOf(S, m)
  <2> SUFFICES ASSUME NEW m \in S PROVE g[m] = NextOf(S, m)
    OBVIOUS
  <2>1. m \in 1..n /\ IsBelow(p, view, m)
    BY DEF BelowOf
  <2>2. g[m] = IF m < n /\ IsBelow(p, view, m + 1) THEN m + 1 ELSE 0
    BY <1>2, <2>1, StepsAre
  <2> QED BY <1>1, <2>1, <2>2, NextBelow
<1>9. GoesOn(h, g, n, Stop, "end", S)
  <2> HIDE DEF S
  <2> QED BY <1>1, <1>3, <1>4, <1>6, <1>8, Zenon DEF GoesOn
<1> HIDE DEF S
<1>12. \A b \in Nat : h[NextOf(S, b)] = NextOf(S \cap Stop, b)
  <2>1. Finds(h, S, S \cap Stop)
    BY <1>9, FollowingSkips
  <2> QED BY <2>1, Zenon DEF Finds
<1>13. \A b \in Nat : Documents!WalkUntilElement(doc, view, NextOf(S, b)) = NextOf(ElementsOf(doc, n, p, view), b)
  BY <1>4, <1>7, <1>12, Zenon
<1>10. ASSUME NEW c \in 1..n PROVE Documents!WalkUntilElement(doc, view, c) \in {0} \cup c..n
  <2>1. h[c] \in {0} \cup c..n
    BY <1>1, <1>2, <1>3, <1>6, FollowingBounds
  <2> QED BY <1>7, <2>1
<1>11. h[0] = 0
  <2>1. 0 \in 0..n
    BY <1>1
  <2> QED BY <1>3, <1>6, <2>1, Zenon DEF WalksOn
<1> QED BY <1>7, <1>10, <1>11, <1>13 DEF S

\* f is the recursion of ElementWalk.
ElementsFrom(f, doc, view) ==
    f = [n \in Documents!Nodes(doc) \cup {Documents!Null} |->
           IF n = Documents!Null THEN <<>>
           ELSE <<n>> \o f[Documents!WalkUntilElement(doc, view, Documents!WalkNext(doc, view, n))]]

\* DOMElementWalkIterator visits the elements below its root, in document order.
LEMMA ElementWalkIs ==
    ASSUME NEW doc, NEW n, NEW p, HasTree(doc, n, p), NEW view \in 1..n
    PROVE  Documents!ElementWalk(doc, view) = OrderOf(n, ElementsOf(doc, n, p, view))
<1> DEFINE step(k) == Documents!WalkUntilElement(doc, view, Documents!WalkNext(doc, view, k))
           g == [k \in 0..n |-> step(k)]
           S == ElementsOf(doc, n, p, view)
<1>1. n \in Nat /\ p \in Orders(n) /\ Documents!Nodes(doc) \cup {Documents!Null} = 0..n /\ Documents!Null = 0
  BY DEF Documents!Nodes, Orders, HasTree, Documents!Null
<1>2. \A k \in 1..n : step(k) \in {0} \cup (k + 1)..n
  <2> SUFFICES ASSUME NEW k \in 1..n PROVE step(k) \in {0} \cup (k + 1)..n
    OBVIOUS
  <2>1. PICK c \in {0} \cup (k + 1)..n : c = Documents!WalkNext(doc, view, k)
    BY StepsAre
  <2>2. /\ Documents!WalkUntilElement(doc, view, 0) = 0
        /\ \A d \in 1..n : Documents!WalkUntilElement(doc, view, d) \in {0} \cup d..n
    BY WalkUntilElementIs
  <2>3. PICK e : e = Documents!WalkUntilElement(doc, view, c)
    OBVIOUS
  <2>4. ASSUME c = 0 PROVE e \in {0} \cup (k + 1)..n
    BY <2>2, <2>3, <2>4
  <2>5. ASSUME c # 0 PROVE e \in {0} \cup (k + 1)..n
    <3>1. c \in 1..n /\ c >= k + 1
      BY <2>5, <1>1
    <3>2. e \in {0} \cup c..n
      BY <2>2, <2>3, <3>1
    <3> QED BY <3>1, <3>2
  <2>6. Documents!WalkUntilElement(doc, view, c) \in {0} \cup (k + 1)..n
    BY <2>3, <2>4, <2>5, Zenon
  <2> QED BY <2>1, <2>6, Zenon
<1>3. \A k \in 1..n : g[k] = step(k) /\ g[k] \in {0} \cup (k + 1)..n
  <2> HIDE DEF step
  <2> QED BY <1>1, <1>2
<1> HIDE DEF g
<1>4. ASSUME NEW f PROVE ElementsFrom(f, doc, view) <=> WalksOn(f, 0..n, {0}, g, "all")
  <2>1. ASSUME NEW k \in 0..n
        PROVE  (IF k = 0 THEN <<>> ELSE <<k>> \o f[step(k)])
                 = IF k \in {0} THEN IF "all" = "all" THEN <<>> ELSE k ELSE IF "all" = "all" THEN <<k>> \o f[g[k]] ELSE f[g[k]]
    <3> HIDE DEF step
    <3>1. k = 0 \/ k \in 1..n
      BY <1>1
    <3> QED BY <1>3, <3>1, Zenon
  <2>2. [k \in 0..n |-> IF k = 0 THEN <<>> ELSE <<k>> \o f[step(k)]]
          = [k \in 0..n |-> IF k \in {0} THEN IF "all" = "all" THEN <<>> ELSE k ELSE IF "all" = "all" THEN <<k>> \o f[g[k]] ELSE f[g[k]]]
    <3> HIDE DEF step
    <3> QED BY <2>1, Zenon
  <2> QED BY <1>1, <2>2, Zenon DEF ElementsFrom, WalksOn
<1> DEFINE h == CHOOSE f : ElementsFrom(f, doc, view)
<1>5. WalksOn(h, 0..n, {0}, g, "all")
  <2>1. \E f : WalksOn(f, 0..n, {0}, g, "all")
    <3> HIDE DEF step
    <3> QED BY <1>1, <1>3, ForwardsEnds
  <2>2. \E f : ElementsFrom(f, doc, view)
    BY <1>4, <2>1, Zenon
  <2>3. ElementsFrom(h, doc, view)
    BY <2>2, Zenon
  <2> HIDE DEF h
  <2> QED BY <1>4, <2>3, Zenon
<1>6. Documents!ElementWalk(doc, view) = h[Documents!WalkUntilElement(doc, view, Documents!Links(doc).first_child[view])]
  <2>1. view # Documents!Null
    BY <1>1
  <2> QED BY <2>1, Zenon DEF Documents!ElementWalk, ElementsFrom
<1> HIDE DEF h
<1>7. Documents!Links(doc).first_child[view] = NextOf(BelowOf(n, p, view), view)
  BY <1>1, LinksAre, FirstBelow DEF FirstChild
<1>8. \A b \in Nat : Documents!WalkUntilElement(doc, view, NextOf(BelowOf(n, p, view), b)) = NextOf(S, b)
  BY WalkUntilElementIs
<1>9. S \in SUBSET (1..n) /\ {x \in S : x > view} = S /\ \A m \in S : m \in 1..n /\ m \in Nat /\ IsBelow(p, view, m)
  BY DEF BelowOf, ElementsOf, IsBelow
<1> HIDE DEF S
<1>10. \A m \in S : g[m] = NextOf(S, m)
  <2> SUFFICES ASSUME NEW m \in S PROVE g[m] = NextOf(S, m)
    OBVIOUS
  <2>1. Documents!WalkNext(doc, view, m) = IF m < n /\ IsBelow(p, view, m + 1) THEN m + 1 ELSE 0
    BY <1>9, StepsAre
  <2>2. Documents!WalkNext(doc, view, m) = NextOf(BelowOf(n, p, view), m)
    BY <1>1, <1>9, <2>1, NextBelow
  <2> QED BY <1>3, <1>8, <1>9, <2>2, Zenon
<1>11. view \in Nat
  OBVIOUS
<1>12. ListsAll(h[NextOf(S, view)], {x \in S : x > view})
  <2>1. GoesOn(h, g, n, {0}, "all", S)
    BY <1>1, <1>5, <1>9, <1>10, Zenon DEF GoesOn
  <2> QED BY <1>11, <2>1, FollowingLists
<1>13. Documents!ElementWalk(doc, view) = h[NextOf(S, view)]
  BY <1>6, <1>7, <1>8, <1>11, Zenon
<1>14. Documents!ElementWalk(doc, view) = OrderOf(n, S)
  BY <1>1, <1>9, <1>12, <1>13, OrdersAre
<1> QED BY <1>14 DEF S

\* The links to the siblings go forwards, or backwards, along the children of a node.
LEMMA SiblingsAre ==
    ASSUME NEW doc, NEW n, NEW p, HasTree(doc, n, p), NEW m \in 1..n
    PROVE  /\ Documents!Links(doc).next[m] = NextOf(ChildrenOf(n, p, p[m]), m)
           /\ Documents!Links(doc).prev[m] = LastOf(ChildrenOf(n, p, p[m]), m)
           /\ Documents!Links(doc).next[m] \in {0} \cup (m + 1)..n
           /\ Documents!Links(doc).prev[m] \in 0..n /\ Documents!Links(doc).prev[m] < m
<1> DEFINE S == ChildrenOf(n, p, p[m])
<1>1. n \in Nat /\ p \in Orders(n)
  BY DEF HasTree
<1>2. S \in SUBSET (1..n) /\ S \in SUBSET Nat /\ m \in Nat /\ \A c \in S : c \in 1..n
  BY <1>1 DEF ChildrenOf
<1>3. Documents!Links(doc).next[m] = NextOf(S, m) /\ Documents!Links(doc).prev[m] = LastOf(S, m)
  BY LinksAre
<1> HIDE DEF S
<1>4. NextOf(S, m) \in {0} \cup (m + 1)..n
  <2>1. CASE \E c \in S : c > m
    <3>1. PICK c \in S : c = NextOf(S, m) /\ c > m
      BY <1>2, <2>1, NextIs
    <3> QED BY <1>2, <3>1
  <2>2. CASE ~(\E c \in S : c > m)
    BY <1>2, <2>2, NextIs
  <2> QED BY <2>1, <2>2
<1>5. LastOf(S, m) \in 0..n /\ LastOf(S, m) < m
  <2>1. CASE \E c \in S : c < m
    <3>1. PICK c \in S : c = LastOf(S, m) /\ c < m
      BY <1>1, <1>2, <2>1, LastIs
    <3> QED BY <1>2, <3>1
  <2>2. CASE ~(\E c \in S : c < m)
    <3>1. LastOf(S, m) = 0
      BY <1>1, <1>2, <2>2, LastIs
    <3> QED BY <1>1, <3>1
  <2> QED BY <2>1, <2>2
<1> QED BY <1>3, <1>4, <1>5 DEF S

\* f is the recursion of UntilElement.
SkipsToElement(f, doc, links) ==
    f = [n \in Documents!Nodes(doc) \cup {Documents!Null} |->
           IF n = Documents!Null \/ Documents!IsElement(doc, n) THEN n ELSE f[links[n]]]

\* Where UntilElement stops.
ElementStops(doc, n) == {k \in 0..n : k = 0 \/ Documents!IsElement(doc, k)}

\* UntilElement is a recursion along the links which it is given.
LEMMA UntilElementFollows ==
    ASSUME NEW doc, NEW n, NEW p, HasTree(doc, n, p), NEW links,
           \E f : WalksOn(f, 0..n, ElementStops(doc, n), links, "end")
    PROVE  \E f : /\ WalksOn(f, 0..n, ElementStops(doc, n), links, "end")
                  /\ \A c : Documents!UntilElement(doc, links, c) = f[c]
<1> DEFINE Stop == ElementStops(doc, n)
<1>1. Documents!Nodes(doc) \cup {Documents!Null} = 0..n /\ Documents!Null = 0
  BY DEF Documents!Nodes, Orders, HasTree, Documents!Null
<1>2. \A k \in 0..n : k \in Stop <=> k = 0 \/ Documents!IsElement(doc, k)
  BY DEF ElementStops
<1> HIDE DEF Stop
<1>3. ASSUME NEW f PROVE SkipsToElement(f, doc, links) <=> WalksOn(f, 0..n, Stop, links, "end")
  <2>1. ASSUME NEW k \in 0..n
        PROVE  (IF k = 0 \/ Documents!IsElement(doc, k) THEN k ELSE f[links[k]])
                 = IF k \in Stop THEN IF "end" = "all" THEN <<>> ELSE k ELSE IF "end" = "all" THEN <<k>> \o f[links[k]] ELSE f[links[k]]
    BY <1>2
  <2>2. [k \in 0..n |-> IF k = 0 \/ Documents!IsElement(doc, k) THEN k ELSE f[links[k]]]
          = [k \in 0..n |-> IF k \in Stop THEN IF "end" = "all" THEN <<>> ELSE k ELSE IF "end" = "all" THEN <<k>> \o f[links[k]] ELSE f[links[k]]]
    BY <2>1, Zenon
  <2> QED BY <1>1, <2>2, Zenon DEF SkipsToElement, WalksOn
<1> DEFINE h == CHOOSE f : SkipsToElement(f, doc, links)
<1>4. SkipsToElement(h, doc, links)
  <2>1. \E f : SkipsToElement(f, doc, links)
    BY <1>3, Zenon DEF Stop
  <2> QED BY <2>1, Zenon
<1>5. \A c : Documents!UntilElement(doc, links, c) = h[c]
  BY Zenon DEF Documents!UntilElement, SkipsToElement
<1> HIDE DEF h
<1>6. WalksOn(h, 0..n, Stop, links, "end")
  BY <1>3, <1>4, Zenon
<1> QED BY <1>5, <1>6, Zenon DEF Stop

\* From a child on to the next one that is an element, and back to the one before.
LEMMA UntilElementIs ==
    ASSUME NEW doc, NEW n, NEW p, HasTree(doc, n, p), NEW view \in 1..n
    PROVE  LET next == Documents!Links(doc).next
               prev == Documents!Links(doc).prev
               J == ChildrenOf(n, p, view)
               E == ElementChildren(doc, n, p, view)
           IN  /\ \A b \in Nat : Documents!UntilElement(doc, next, NextOf(J, b)) = NextOf(E, b)
               /\ \A b \in Nat : Documents!UntilElement(doc, prev, LastOf(J, b)) = LastOf(E, b)
               /\ Documents!UntilElement(doc, next, 0) = 0
               /\ \A c \in 1..n : Documents!UntilElement(doc, next, c) \in {0} \cup c..n
<1> DEFINE next == Documents!Links(doc).next
           prev == Documents!Links(doc).prev
           J == ChildrenOf(n, p, view)
           E == ElementChildren(doc, n, p, view)
           Stop == ElementStops(doc, n)
<1>1. n \in Nat /\ p \in Orders(n)
  BY DEF HasTree
<1>2. 0 \in Stop /\ J \in SUBSET (1..n) /\ \A m \in J : m \in 1..n /\ p[m] = view
  BY <1>1 DEF ElementStops, ChildrenOf
<1>3. J \cap Stop = E
  <2>1. \A m \in 1..n : p[m] = view => IsBelow(p, view, m)
    BY <1>1, BelowByParent
  <2> QED BY <1>1, <2>1 DEF ElementStops, ChildrenOf, ElementChildren, ElementsOf, BelowOf
<1>4. \A m \in 1..n : /\ next[m] = NextOf(ChildrenOf(n, p, p[m]), m)
                      /\ prev[m] = LastOf(ChildrenOf(n, p, p[m]), m)
                      /\ next[m] \in {0} \cup (m + 1)..n
                      /\ prev[m] \in 0..n /\ prev[m] < m
  BY SiblingsAre
<1>5. \A m \in J : next[m] = NextOf(J, m) /\ prev[m] = LastOf(J, m)
  BY <1>2, <1>4, Zenon
<1> HIDE DEF next, prev, J, E, Stop
<1>6. PICK f : WalksOn(f, 0..n, Stop, next, "end") /\ \A c : Documents!UntilElement(doc, next, c) = f[c]
  <2>1. \E f : WalksOn(f, 0..n, Stop, next, "end")
    BY <1>1, <1>2, <1>4, ForwardsEnds
  <2> QED BY <2>1, UntilElementFollows DEF Stop
<1>7. PICK h : WalksOn(h, 0..n, Stop, prev, "end") /\ \A c : Documents!UntilElement(doc, prev, c) = h[c]
  <2>1. \E h : WalksOn(h, 0..n, Stop, prev, "end")
    BY <1>1, <1>2, <1>4, BackwardsEnds
  <2> QED BY <2>1, UntilElementFollows DEF Stop
<1>8. \A b \in Nat : Documents!UntilElement(doc, next, NextOf(J, b)) = NextOf(E, b)
  <2>1. GoesOn(f, next, n, Stop, "end", J)
    BY <1>1, <1>2, <1>5, <1>6, Zenon DEF GoesOn
  <2>2. Finds(f, J, J \cap Stop)
    BY <2>1, FollowingSkips
  <2> QED BY <1>3, <1>6, <2>2, Zenon DEF Finds
<1>9. \A b \in Nat : Documents!UntilElement(doc, prev, LastOf(J, b)) = LastOf(E, b)
  <2>1. GoesBack(h, prev, n, Stop, "end", J)
    BY <1>1, <1>2, <1>5, <1>7, Zenon DEF GoesBack
  <2>2. FindsBack(h, J, J \cap Stop)
    BY <2>1, FollowingSkipsBack
  <2> QED BY <1>3, <1>7, <2>2, Zenon DEF FindsBack
<1>10. f[0] = 0
  <2>1. 0 \in 0..n
    BY <1>1
  <2> QED BY <1>2, <1>6, <2>1, Zenon DEF WalksOn
<1>11. ASSUME NEW c \in 1..n PROVE f[c] \in {0} \cup c..n
  <2>1. c \in 0..n
    OBVIOUS
  <2> QED BY <1>1, <1>2, <1>4, <1>6, <2>1, FollowingBounds
<1>12. Documents!UntilElement(doc, next, 0) = 0 /\ \A c \in 1..n : Documents!UntilElement(doc, next, c) \in {0} \cup c..n
  BY <1>6, <1>10, <1>11
<1> QED BY <1>8, <1>9, <1>12 DEF next, prev, J, E

\* f is the recursion of ChildElements.
ChildrenFrom(f, doc) ==
    f = [n \in Documents!Nodes(doc) \cup {Documents!Null} |->
           IF n = Documents!Null THEN <<>>
           ELSE <<n>> \o f[Documents!UntilElement(doc, Documents!Links(doc).next, Documents!Links(doc).next[n])]]

\* DOMElementIterator visits the children that are elements, forwards and backwards.
LEMMA ChildElementsAre ==
    ASSUME NEW doc, NEW n, NEW p, HasTree(doc, n, p), NEW view \in 1..n
    PROVE  /\ Documents!ChildElements(doc, view) = OrderOf(n, ElementChildren(doc, n, p, view))
           /\ \A m \in ElementChildren(doc, n, p, view) :
                 Documents!PreviousElement(doc, m) = LastOf(ElementChildren(doc, n, p, view), m)
<1> DEFINE next == Documents!Links(doc).next
           prev == Documents!Links(doc).prev
           J == ChildrenOf(n, p, view)
           S == ElementChildren(doc, n, p, view)
           step(k) == Documents!UntilElement(doc, next, next[k])
           g == [k \in 0..n |-> step(k)]
<1>1. n \in Nat /\ p \in Orders(n) /\ Documents!Nodes(doc) \cup {Documents!Null} = 0..n /\ Documents!Null = 0
  BY DEF Documents!Nodes, Orders, HasTree, Documents!Null
<1>2. /\ \A b \in Nat : Documents!UntilElement(doc, next, NextOf(J, b)) = NextOf(S, b)
      /\ \A b \in Nat : Documents!UntilElement(doc, prev, LastOf(J, b)) = LastOf(S, b)
      /\ Documents!UntilElement(doc, next, 0) = 0
      /\ \A c \in 1..n : Documents!UntilElement(doc, next, c) \in {0} \cup c..n
  BY UntilElementIs
<1>3. \A m \in 1..n : /\ next[m] = NextOf(ChildrenOf(n, p, p[m]), m)
                      /\ prev[m] = LastOf(ChildrenOf(n, p, p[m]), m)
                      /\ next[m] \in {0} \cup (m + 1)..n
  BY SiblingsAre
<1>4. /\ S \in SUBSET (1..n) /\ {x \in S : x > view} = S
      /\ \A m \in S : m \in 1..n /\ m \in Nat /\ p[m] = view
  BY DEF BelowOf, ElementsOf, ElementChildren, IsBelow
<1>5. \A m \in S : next[m] = NextOf(J, m) /\ prev[m] = LastOf(J, m)
  BY <1>3, <1>4, Zenon
<1>6. next = Documents!Links(doc).next /\ prev = Documents!Links(doc).prev
  OBVIOUS
<1> HIDE DEF next, prev
<1>7. \A k \in 1..n : step(k) \in {0} \cup (k + 1)..n
  <2> SUFFICES ASSUME NEW k \in 1..n PROVE step(k) \in {0} \cup (k + 1)..n
    OBVIOUS
  <2>1. PICK c \in {0} \cup (k + 1)..n : c = next[k]
    BY <1>3
  <2>2. PICK e : e = Documents!UntilElement(doc, next, c)
    OBVIOUS
  <2>3. ASSUME c = 0 PROVE e \in {0} \cup (k + 1)..n
    BY <1>2, <2>2, <2>3
  <2>4. ASSUME c # 0 PROVE e \in {0} \cup (k + 1)..n
    <3>1. c \in 1..n /\ c >= k + 1
      BY <2>4, <1>1
    <3>2. e \in {0} \cup c..n
      BY <1>2, <2>2, <3>1
    <3> QED BY <3>1, <3>2
  <2> QED BY <2>1, <2>2, <2>3, <2>4, Zenon
<1>8. \A k \in 1..n : g[k] = step(k) /\ g[k] \in {0} \cup (k + 1)..n
  <2> HIDE DEF step
  <2> QED BY <1>1, <1>7
<1> HIDE DEF g
<1>9. ASSUME NEW f PROVE ChildrenFrom(f, doc) <=> WalksOn(f, 0..n, {0}, g, "all")
  <2>1. ASSUME NEW k \in 0..n
        PROVE  (IF k = 0 THEN <<>> ELSE <<k>> \o f[step(k)])
                 = IF k \in {0} THEN IF "all" = "all" THEN <<>> ELSE k ELSE IF "all" = "all" THEN <<k>> \o f[g[k]] ELSE f[g[k]]
    <3> HIDE DEF step
    <3>1. k = 0 \/ k \in 1..n
      BY <1>1
    <3> QED BY <1>8, <3>1, Zenon
  <2>2. [k \in 0..n |-> IF k = 0 THEN <<>> ELSE <<k>> \o f[step(k)]]
          = [k \in 0..n |-> IF k \in {0} THEN IF "all" = "all" THEN <<>> ELSE k ELSE IF "all" = "all" THEN <<k>> \o f[g[k]] ELSE f[g[k]]]
    <3> HIDE DEF step
    <3> QED BY <2>1, Zenon
  <2> QED BY <1>1, <1>6, <2>2, Zenon DEF ChildrenFrom, WalksOn
<1> DEFINE h == CHOOSE f : ChildrenFrom(f, doc)
<1>10. WalksOn(h, 0..n, {0}, g, "all")
  <2>1. \E f : WalksOn(f, 0..n, {0}, g, "all")
    <3> HIDE DEF step
    <3> QED BY <1>1, <1>8, ForwardsEnds
  <2>2. \E f : ChildrenFrom(f, doc)
    BY <1>9, <2>1, Zenon
  <2>3. ChildrenFrom(h, doc)
    BY <2>2, Zenon
  <2> HIDE DEF h
  <2> QED BY <1>9, <2>3, Zenon
<1>11. Documents!ChildElements(doc, view) = h[Documents!UntilElement(doc, next, Documents!Links(doc).first_child[view])]
  <2>1. view # Documents!Null
    BY <1>1
  <2> QED BY <2>1, <1>6, Zenon DEF Documents!ChildElements, ChildrenFrom
<1> HIDE DEF h
<1>12. Documents!Links(doc).first_child[view] = NextOf(J, view)
  BY LinksAre
<1> HIDE DEF J, S
<1>13. \A m \in S : g[m] = NextOf(S, m)
  BY <1>2, <1>4, <1>5, <1>8, Zenon
<1>14. view \in Nat
  OBVIOUS
<1>15. ListsAll(h[NextOf(S, view)], {x \in S : x > view})
  <2>1. GoesOn(h, g, n, {0}, "all", S)
    BY <1>1, <1>4, <1>10, <1>13, Zenon DEF GoesOn
  <2> QED BY <1>14, <2>1, FollowingLists
<1>16. Documents!ChildElements(doc, view) = h[NextOf(S, view)]
  BY <1>2, <1>11, <1>12, <1>14, Zenon
<1>17. Documents!ChildElements(doc, view) = OrderOf(n, S)
  BY <1>1, <1>4, <1>15, <1>16, OrdersAre
<1>18. \A m \in S : Documents!PreviousElement(doc, m) = LastOf(S, m)
  BY <1>2, <1>4, <1>5, <1>6, Zenon DEF Documents!PreviousElement
<1> QED BY <1>17, <1>18 DEF S

\* The nodes of a set in document order.
LEMMA InOrderIs ==
    ASSUME NEW doc, NEW n, NEW p, HasTree(doc, n, p), NEW S
    PROVE  Documents!InOrder(doc, S) = OrderOf(n, S)
<1>1. Documents!Nodes(doc) = 1..n
  BY DEF Documents!Nodes, Orders, HasTree
<1>2. \A s, I : Documents!Entries(s, I) = Entries(s, I)
  BY Zenon DEF Documents!Entries, Entries
<1> QED BY <1>1, <1>2, Zenon DEF Documents!InOrder, OrderOf

\* The walks of a document see what they should: below a view all nodes, all elements, and
\* the children that are elements, each once and in document order; and back from a child
\* that is an element is the one before it.
THEOREM DocumentWalksAreWhole ==
    \A doc, n, p : HasTree(doc, n, p) => \A view \in 0..n : Documents!WalkIsWhole(doc, view)
<1> SUFFICES ASSUME NEW doc, NEW n, NEW p, HasTree(doc, n, p), NEW view \in 0..n
             PROVE  Documents!WalkIsWhole(doc, view)
  OBVIOUS
<1> DEFINE below == Documents!Below(doc, view)
           elements == Documents!ElementsBelow(doc, view)
           own == {m \in elements : doc.parent[m] = view}
<1>1. n \in Nat /\ p \in Orders(n) /\ doc.parent = p /\ Documents!Null = 0
  BY DEF HasTree, Documents!Null
<1>2. \A S : Documents!InOrder(doc, S) = OrderOf(n, S)
  BY InOrderIs
<1>3. CASE view = 0
  <2>1. below = {}
    BY <1>3, BelowAre
  <2>2. elements = {} /\ own = {}
    BY <2>1 DEF Documents!ElementsBelow
  <2>3. OrderOf(n, {}) = <<>>
    <3>1. {} \in SUBSET (1..n)
      OBVIOUS
    <3> QED BY <1>1, <3>1, NothingIsListed, OrdersAre
  <2>4. Documents!NodeWalk(doc, view) = <<>> /\ Documents!ElementWalk(doc, view) = <<>> /\ Documents!ChildElements(doc, view) = <<>>
    <3>1. view = Documents!Null
      BY <1>1, <1>3
    <3> QED BY <3>1, Zenon DEF Documents!NodeWalk, Documents!ElementWalk, Documents!ChildElements
  <2>5. \A i \in DOMAIN <<>> : FALSE
    OBVIOUS
  <2> HIDE DEF below, elements, own
  <2>6. Documents!InOrder(doc, below) = <<>> /\ Documents!InOrder(doc, elements) = <<>> /\ Documents!InOrder(doc, own) = <<>>
    BY <1>2, <2>1, <2>2, <2>3, Zenon
  <2> QED BY <2>4, <2>5, <2>6, Zenon DEF Documents!WalkIsWhole, below, elements, own
<1>4. CASE view # 0
  <2>1. view \in 1..n
    BY <1>4
  <2>2. below = BelowOf(n, p, view)
    BY <2>1, BelowAre
  <2>3. elements = ElementsOf(doc, n, p, view)
    BY <2>2 DEF Documents!ElementsBelow, ElementsOf
  <2>4. own = ElementChildren(doc, n, p, view)
    BY <1>1, <2>3 DEF ElementChildren
  <2> DEFINE S == ElementChildren(doc, n, p, view)
             children == OrderOf(n, S)
  <2>5. /\ Documents!NodeWalk(doc, view) = OrderOf(n, BelowOf(n, p, view))
        /\ Documents!ElementWalk(doc, view) = OrderOf(n, ElementsOf(doc, n, p, view))
    BY <2>1, NodeWalkIs, ElementWalkIs
  <2>6. /\ Documents!ChildElements(doc, view) = OrderOf(n, S)
        /\ \A m \in S : Documents!PreviousElement(doc, m) = LastOf(S, m)
    BY <2>1, ChildElementsAre
  <2>7. S \in SUBSET (1..n)
    BY DEF ElementChildren, ElementsOf, BelowOf
  <2> HIDE DEF S, below, elements, own
  <2>8. ListsAll(children, S)
    BY <1>1, <2>7, NumbersAreListed
  <2> HIDE DEF children
  <2>9. DOMAIN children = 1..Len(children) /\ \A i \in 1..Len(children) : children[i] \in S
    BY <2>8 DEF ListsAll
  <2>10. \A i \in 1..Len(children) : LastOf(S, children[i]) = IF i = 1 THEN 0 ELSE children[i - 1]
    BY <1>1, <2>7, <2>8, LastInList
  <2>11. \A i \in DOMAIN children :
            Documents!PreviousElement(doc, children[i]) = IF i = 1 THEN Documents!Null ELSE children[i - 1]
    BY <1>1, <2>6, <2>9, <2>10, Zenon
  <2>12. /\ Documents!NodeWalk(doc, view) = Documents!InOrder(doc, below)
         /\ Documents!ElementWalk(doc, view) = Documents!InOrder(doc, elements)
         /\ Documents!ChildElements(doc, view) = Documents!InOrder(doc, own)
         /\ Documents!InOrder(doc, own) = children
    BY <1>2, <2>2, <2>3, <2>4, <2>5, <2>6, Zenon DEF S, children
  <2> QED BY <2>11, <2>12, Zenon DEF Documents!WalkIsWhole, own, elements, below
<1> QED BY <1>3, <1>4

\* The first of some entries is the one at the least index.
LEMMA FirstEntry ==
    ASSUME NEW X, NEW s \in Seq(X), NEW I \in SUBSET DOMAIN s
    PROVE  /\ I = {} => Entries(s, I) = <<>>
           /\ I # {} => Entries(s, I) # <<>> /\ Documents!Min(I) \in I /\ Head(Entries(s, I)) = s[Documents!Min(I)]
<1> DEFINE t == Entries(s, I)
<1>1. PICK e : t \in Seq(X) /\ Embeds(e, t, s, I)
  BY EntriesAre
<1> HIDE DEF t
<1>2. /\ e \in [1..Len(t) -> I]
      /\ \A i \in I : \E k \in 1..Len(t) : e[k] = i
      /\ \A j, k \in 1..Len(t) : j < k => e[j] < e[k]
      /\ \A k \in 1..Len(t) : t[k] = s[e[k]]
  BY <1>1 DEF Embeds
<1>3. I \in SUBSET Nat
  OBVIOUS
<1>4. PICK N \in Nat : N = Len(t)
  BY <1>1
<1>5. ASSUME I = {} PROVE t = <<>>
  <2>1. ~(\E k \in 1..N : TRUE)
    BY <1>2, <1>4, <1>5
  <2>2. N = 0
    BY <2>1
  <2>3. <<>> \in Seq(X) /\ Len(<<>>) = 0 /\ \A k \in 1..0 : t[k] = <<>>[k]
    OBVIOUS
  <2> QED BY <1>1, <1>4, <2>2, <2>3, SeqEqual
<1>6. ASSUME I # {} PROVE t # <<>> /\ Documents!Min(I) \in I /\ Head(t) = s[Documents!Min(I)]
  <2>1. Documents!Min(I) \in I /\ \A d \in I : Documents!Min(I) <= d
    BY <1>3, <1>6, LeastIs
  <2>2. PICK m \in I : m = Documents!Min(I) /\ \A d \in I : m <= d
    BY <2>1
  <2>3. PICK k \in 1..N : e[k] = m
    BY <1>2, <1>4
  <2>4. 1 \in 1..N
    BY <2>3
  <2>5. e[1] \in I /\ (1 < k => e[1] < e[k])
    BY <1>2, <1>4, <2>3, <2>4
  <2>6. k = 1
    <3>1. PICK a \in I : a = e[1]
      BY <2>5
    <3>2. m <= a /\ (1 < k => a < m)
      BY <2>2, <2>3, <2>5, <3>1
    <3> QED BY <1>3, <3>2
  <2>7. Len(t) # 0 /\ Head(t) = t[1]
    BY <1>1, <1>4, <2>4
  <2>8. t[1] = s[m]
    BY <1>2, <1>4, <2>3, <2>4, <2>6
  <2>9. t # <<>>
    BY <1>1, <2>7
  <2> QED BY <2>2, <2>7, <2>8, <2>9
<1> QED BY <1>5, <1>6 DEF t

\* INSTANCE's Entries is the same operator.
LEMMA SameEntries == \A s, I : Documents!Entries(s, I) = Entries(s, I)
  BY Zenon DEF Documents!Entries, Entries

\* The attributes of a name, and the value of the first one.
AttributesOf(doc, m, name) ==
    LET attrs == doc.node[m].attrs
    IN  Documents!Entries(attrs, {i \in DOMAIN attrs : attrs[i].name = name})
FirstValue(doc, m, name) ==
    IF AttributesOf(doc, m, name) = <<>> THEN <<>> ELSE Head(AttributesOf(doc, m, name)).value

\* The first attribute of a name, if there is one: find_attr finds it, and the search promises it.
LEMMA FirstAttribute ==
    ASSUME NEW doc, NEW n \in Nat, NEW Names, NEW Char, HasAttributes(doc, n, Names, Char),
           NEW m \in 1..n, NEW name
    PROVE  /\ Documents!FindAttr(doc, m, name) = IF AttributesOf(doc, m, name) = <<>> THEN <<>>
                                            ELSE <<Head(AttributesOf(doc, m, name))>>
           /\ Documents!ValueOf(doc, m, name) = FirstValue(doc, m, name)
           /\ FirstValue(doc, m, name) \in Seq(Char)
<1> DEFINE attrs == doc.node[m].attrs
           I == {i \in DOMAIN attrs : attrs[i].name = name}
           values == Documents!Entries(attrs, I)
           X == [name : Names, value : Seq(Char)]
<1>1. attrs \in Seq(X) /\ I \in SUBSET DOMAIN attrs
  BY DEF HasAttributes
<1>2. values = Entries(attrs, I)
  BY SameEntries
<1>3. m # Documents!Null
  BY DEF Documents!Null
<1>4. Documents!FindAttr(doc, m, name) = IF I = {} THEN <<>> ELSE <<attrs[Documents!Min(I)]>>
  BY <1>3, Zenon DEF Documents!FindAttr
<1>5. \A i \in I : i \in DOMAIN attrs
  OBVIOUS
<1> HIDE DEF attrs, I, values, X
<1>6. /\ I = {} => values = <<>>
      /\ I # {} => values # <<>> /\ Documents!Min(I) \in I /\ Head(values) = attrs[Documents!Min(I)]
  BY <1>1, <1>2, FirstEntry
<1>7. Documents!FindAttr(doc, m, name) = IF values = <<>> THEN <<>> ELSE <<Head(values)>>
  BY <1>4, <1>6, Zenon
<1>8. Documents!ValueOf(doc, m, name) = IF values = <<>> THEN <<>> ELSE Head(values).value
  <2>1. CASE values = <<>>
    <3>1. Documents!FindAttr(doc, m, name) = <<>>
      BY <1>7, <2>1, Zenon
    <3> QED BY <2>1, <3>1, Zenon DEF Documents!ValueOf
  <2>2. CASE values # <<>>
    <3>1. Documents!FindAttr(doc, m, name) = <<Head(values)>>
      BY <1>7, <2>2, Zenon
    <3>2. <<Head(values)>> # <<>> /\ <<Head(values)>>[1] = Head(values)
      OBVIOUS
    <3>3. Documents!ValueOf(doc, m, name) = <<Head(values)>>[1].value
      BY <3>1, <3>2, Zenon DEF Documents!ValueOf
    <3> QED BY <2>2, <3>2, <3>3, Zenon
  <2> QED BY <2>1, <2>2
<1>9. ASSUME values # <<>> PROVE Head(values).value \in Seq(Char)
  <2>1. I # {}
    BY <1>6, <1>9
  <2>2. Documents!Min(I) \in DOMAIN attrs
    BY <1>5, <1>6, <2>1
  <2>3. attrs[Documents!Min(I)] \in X
    BY <1>1, <2>2
  <2>4. Head(values) \in X
    BY <1>6, <2>1, <2>3
  <2> QED BY <2>4 DEF X
<1>10. <<>> \in Seq(Char)
  OBVIOUS
<1> QED BY <1>7, <1>8, <1>9, <1>10, Zenon DEF values, I, attrs, AttributesOf, FirstValue

\* Where the run of a text that begins at i stops: at a blank or behind the text.
StopAt(full, i) ==
    Documents!Min({j \in i..Len(full) : full[j] \in Documents!Blanks} \cup {Len(full) + 1})

\* A run of a text that begins at i or behind a later blank.
HasRunFrom(full, name, i) ==
    \E a \in i..Len(full) :
        (a = i \/ full[a - 1] \in Documents!Blanks) /\ SubSeq(full, a, StopAt(full, a) - 1) = name

\* A run goes on up to the first blank.
LEMMA StopIs ==
    ASSUME NEW Char, NEW full \in Seq(Char), NEW i \in 1..(Len(full) + 1)
    PROVE  /\ StopAt(full, i) \in i..(Len(full) + 1)
           /\ \A k \in i..(StopAt(full, i) - 1) : full[k] \notin Documents!Blanks
           /\ StopAt(full, i) <= Len(full) => full[StopAt(full, i)] \in Documents!Blanks
           /\ \A e \in i..(Len(full) + 1) :
                 /\ \A k \in i..(e - 1) : full[k] \notin Documents!Blanks
                 /\ e <= Len(full) => full[e] \in Documents!Blanks
                 => StopAt(full, i) = e
<1>1. PICK N \in Nat : N = Len(full)
  OBVIOUS
<1> DEFINE B == {j \in i..N : full[j] \in Documents!Blanks} \cup {N + 1}
<1>2. B \in SUBSET Nat /\ B # {} /\ \A d \in B : d \in i..(N + 1)
  BY <1>1
<1>3. \A d \in B : d <= N => full[d] \in Documents!Blanks
  OBVIOUS
<1>4. \A k \in i..N : full[k] \in Documents!Blanks => k \in B
  OBVIOUS
<1>5. N + 1 \in B
  OBVIOUS
<1>6. StopAt(full, i) = Documents!Min(B)
  BY <1>1 DEF StopAt
<1> HIDE DEF B
<1>7. PICK c \in B : c = Documents!Min(B) /\ \A d \in B : c <= d
  <2>1. Documents!Min(B) \in B /\ \A d \in B : Documents!Min(B) <= d
    BY <1>2, LeastIs
  <2> QED BY <2>1
<1>8. ASSUME NEW k \in i..(c - 1) PROVE full[k] \notin Documents!Blanks
  <2>1. k \in i..N /\ ~(c <= k)
    BY <1>1, <1>2, <1>7
  <2> QED BY <1>4, <1>7, <2>1
<1>9. ASSUME NEW e \in i..(N + 1), \A k \in i..(e - 1) : full[k] \notin Documents!Blanks,
             e <= N => full[e] \in Documents!Blanks
      PROVE  c = e
  <2>1. e \in B
    <3>1. CASE e <= N
      BY <1>4, <1>9, <3>1
    <3>2. CASE e = N + 1
      BY <1>5, <3>2
    <3> QED BY <1>1, <3>1, <3>2
  <2>2. c <= e
    BY <1>7, <2>1
  <2>3. ASSUME c < e PROVE FALSE
    <3>1. c \in i..(e - 1) /\ c <= N
      BY <1>1, <1>2, <1>7, <2>3
    <3> QED BY <1>3, <1>7, <1>9, <3>1
  <2> QED BY <1>1, <1>2, <1>7, <2>2, <2>3
<1> QED BY <1>1, <1>2, <1>3, <1>6, <1>7, <1>8, <1>9

\* One step of contains_class.
LEMMA RunsFrom ==
    ASSUME NEW Char, NEW full \in Seq(Char), NEW name, NEW i \in 1..(Len(full) + 1)
    PROVE  HasRunFrom(full, name, i) <=>
             /\ i <= Len(full)
             /\ \/ SubSeq(full, i, StopAt(full, i) - 1) = name
                \/ StopAt(full, i) <= Len(full) /\ HasRunFrom(full, name, StopAt(full, i) + 1)
<1>1. PICK N \in Nat : N = Len(full)
  OBVIOUS
<1>2. PICK c \in i..(N + 1) : /\ c = StopAt(full, i)
                              /\ \A k \in i..(c - 1) : full[k] \notin Documents!Blanks
                              /\ c <= N => full[c] \in Documents!Blanks
  <2>1. /\ StopAt(full, i) \in i..(Len(full) + 1)
        /\ \A k \in i..(StopAt(full, i) - 1) : full[k] \notin Documents!Blanks
        /\ StopAt(full, i) <= Len(full) => full[StopAt(full, i)] \in Documents!Blanks
    BY StopIs
  <2> QED BY <1>1, <2>1
<1> DEFINE Is(a) == SubSeq(full, a, StopAt(full, a) - 1) = name
<1>3. HasRunFrom(full, name, i) <=> \E a \in i..N : (a = i \/ full[a - 1] \in Documents!Blanks) /\ Is(a)
  BY <1>1 DEF HasRunFrom
<1>4. HasRunFrom(full, name, c + 1)
        <=> \E a \in (c + 1)..N : (a = c + 1 \/ full[a - 1] \in Documents!Blanks) /\ Is(a)
  BY <1>1 DEF HasRunFrom
<1>5. (SubSeq(full, i, StopAt(full, i) - 1) = name) <=> Is(i)
  OBVIOUS
<1> HIDE DEF Is
<1>6. ASSUME NEW a \in i..N, full[a - 1] \in Documents!Blanks, a # i PROVE c <= N /\ a \in (c + 1)..N
  <2>1. a - 1 \in i..N
    BY <1>6, <1>1
  <2>2. ~(a - 1 \in i..(c - 1))
    BY <1>2, <1>6
  <2> QED BY <1>1, <2>1, <2>2
<1>7. ASSUME c <= N, NEW a \in (c + 1)..N, a = c + 1 \/ full[a - 1] \in Documents!Blanks
      PROVE  a \in i..N /\ full[a - 1] \in Documents!Blanks
  <2>1. a = c + 1 => a - 1 = c
    BY <1>1
  <2> QED BY <1>1, <1>2, <1>7, <2>1
<1>8. i <= N => i \in i..N
  BY <1>1
<1>9. \A a \in i..N : i <= N
  BY <1>1
<1> QED BY <1>1, <1>2, <1>3, <1>4, <1>5, <1>6, <1>7, <1>8, <1>9

\* f is the recursion of contains_class.
ClassFrom(f, full, name) ==
    f = [i \in 1..(Len(full) + 1) |->
           LET blanks == {j \in i..Len(full) : full[j] \in Documents!Blanks}
               stop == Documents!Min(blanks \cup {Len(full) + 1})
           IN  /\ i <= Len(full)
               /\ \/ SubSeq(full, i, stop - 1) = name
                  \/ blanks # {} /\ f[stop + 1]]

\* contains_class looks at every run.
LEMMA ContainsClassIs ==
    ASSUME NEW Char, NEW full \in Seq(Char), NEW name
    PROVE  Documents!ContainsClass(full, name) <=> HasRunFrom(full, name, 1)
<1> DEFINE N == Len(full)
           D == 1..(N + 1)
           blanks(i) == {j \in i..Len(full) : full[j] \in Documents!Blanks}
           Rhs(f, i) == /\ i <= Len(full)
                        /\ \/ SubSeq(full, i, StopAt(full, i) - 1) = name
                           \/ blanks(i) # {} /\ f[StopAt(full, i) + 1]
           R(i) == HasRunFrom(full, name, i)
<1>1. N \in Nat
  OBVIOUS
<1>2. ASSUME NEW f PROVE ClassFrom(f, full, name) <=> f = [i \in D |-> Rhs(f, i)]
  BY Zenon DEF ClassFrom, StopAt
<1>3. \A i \in D : StopAt(full, i) \in i..(N + 1)
  BY StopIs
<1>4. ASSUME NEW i \in D PROVE blanks(i) # {} <=> StopAt(full, i) <= N
  <2>1. PICK c \in i..(N + 1) : /\ c = StopAt(full, i)
                                /\ \A k \in i..(c - 1) : full[k] \notin Documents!Blanks
                                /\ c <= N => full[c] \in Documents!Blanks
    <3>1. /\ StopAt(full, i) \in i..(N + 1)
          /\ \A k \in i..(StopAt(full, i) - 1) : full[k] \notin Documents!Blanks
          /\ StopAt(full, i) <= N => full[StopAt(full, i)] \in Documents!Blanks
      BY StopIs
    <3> QED BY <3>1
  <2>2. ASSUME NEW k \in blanks(i) PROVE c <= N
    <3>1. k \in i..N /\ ~(k \in i..(c - 1))
      BY <2>1
    <3> QED BY <1>1, <3>1
  <2>3. c <= N => c \in blanks(i)
    BY <2>1
  <2> QED BY <2>1, <2>2, <2>3
<1>5. \A i \in D : R(i) <=> /\ i <= N
                            /\ \/ SubSeq(full, i, StopAt(full, i) - 1) = name
                               \/ StopAt(full, i) <= N /\ R(StopAt(full, i) + 1)
  BY RunsFrom
<1> HIDE DEF blanks, R
<1>6. \E f : ClassFrom(f, full, name)
  <2> DEFINE f0 == [i \in D |-> R(i)]
  <2>1. ASSUME NEW i \in D PROVE R(i) <=> Rhs(f0, i)
    <3>1. StopAt(full, i) <= N => StopAt(full, i) + 1 \in D
      BY <1>1, <1>3
    <3>2. StopAt(full, i) <= N => f0[StopAt(full, i) + 1] = R(StopAt(full, i) + 1)
      BY <3>1, Zenon
    <3> HIDE DEF f0
    <3> QED BY <1>4, <1>5, <3>2
  <2>2. \A i \in D : R(i) = Rhs(f0, i)
    <3>1. \A i \in D : R(i) \in BOOLEAN /\ Rhs(f0, i) \in BOOLEAN
      BY DEF R, HasRunFrom
    <3> HIDE DEF Rhs, f0
    <3> QED BY <2>1, <3>1, Zenon
  <2>3. f0 = [i \in D |-> Rhs(f0, i)]
    <3> HIDE DEF Rhs
    <3>1. [i \in D |-> R(i)] = [i \in D |-> Rhs(f0, i)]
      <4> HIDE DEF f0
      <4> QED BY <2>2, Zenon
    <3> QED BY <3>1, Zenon
  <2> HIDE DEF f0, Rhs
  <2> QED BY <1>2, <2>3, Zenon
<1> DEFINE h == CHOOSE f : ClassFrom(f, full, name)
<1>7. \A i \in D : h[i] = Rhs(h, i)
  <2>1. ClassFrom(h, full, name)
    BY <1>6, Zenon
  <2> HIDE DEF h
  <2>2. h = [i \in D |-> Rhs(h, i)]
    BY <1>2, <2>1, Zenon
  <2> HIDE DEF Rhs
  <2> QED BY <2>2, Zenon
<1>8. Documents!ContainsClass(full, name) = h[1]
  BY Zenon DEF Documents!ContainsClass, ClassFrom
<1> HIDE DEF h
<1> DEFINE Agree(i) == h[i] <=> R(i)
           T == {j \in Nat : \A i \in D : i + j >= N + 1 => Agree(i)}
<1>9. \A i \in D : (StopAt(full, i) <= N => Agree(StopAt(full, i) + 1)) => Agree(i)
  <2> SUFFICES ASSUME NEW i \in D, StopAt(full, i) <= N => Agree(StopAt(full, i) + 1) PROVE Agree(i)
    OBVIOUS
  <2>1. h[i] <=> /\ i <= N
                 /\ \/ SubSeq(full, i, StopAt(full, i) - 1) = name
                    \/ blanks(i) # {} /\ h[StopAt(full, i) + 1]
    BY <1>7
  <2> QED BY <1>4, <1>5, <2>1
<1>10. \A i \in D : StopAt(full, i) <= N => StopAt(full, i) + 1 \in D /\ StopAt(full, i) + 1 > i
  BY <1>1, <1>3
<1> HIDE DEF Agree
<1>11. 0 \in T
  <2>1. ASSUME NEW i \in D, i + 0 >= N + 1 PROVE Agree(i)
    <3>1. PICK c \in i..(N + 1) : c = StopAt(full, i)
      BY <1>3
    <3>2. ~(c <= N)
      BY <1>1, <2>1
    <3> QED BY <1>9, <3>1, <3>2
  <2> QED BY <2>1
<1>12. ASSUME NEW j \in T PROVE j + 1 \in T
  <2>1. j \in Nat /\ \A i \in D : i + j >= N + 1 => Agree(i)
    OBVIOUS
  <2>2. ASSUME NEW i \in D, i + (j + 1) >= N + 1 PROVE Agree(i)
    <3>1. PICK c \in i..(N + 1) : c = StopAt(full, i)
      BY <1>3
    <3>2. ASSUME c <= N PROVE Agree(c + 1)
      <4>1. c + 1 \in D /\ (c + 1) + j >= N + 1
        BY <1>1, <2>1, <2>2, <3>2
      <4> QED BY <2>1, <4>1
    <3> QED BY <1>9, <3>1, <3>2
  <2> QED BY <2>1, <2>2
<1>13. T = Nat
  <2>1. T \in SUBSET Nat
    OBVIOUS
  <2> HIDE DEF T
  <2> QED BY <1>11, <1>12, <2>1, SetInduction
<1>14. Agree(1)
  <2>1. N \in T
    <3> HIDE DEF T
    <3> QED BY <1>1, <1>13
  <2>2. 1 \in D /\ 1 + N >= N + 1
    BY <1>1
  <2> QED BY <2>1, <2>2
<1> QED BY <1>8, <1>14 DEF Agree, R

\* What contains_class finds is a class of the element, for a name that is not empty.
LEMMA ClassesAreFound ==
    ASSUME NEW Char, NEW full \in Seq(Char), NEW name, name # <<>>
    PROVE  Documents!ContainsClass(full, name) <=> name \in Documents!Classes(full)
<1> DEFINE run(i, j) == \A k \in i..j : full[k] \notin Documents!Blanks
           W(a, b) == /\ a <= b /\ run(a, b)
                      /\ a = 1 \/ ~run(a - 1, b)
                      /\ b = Len(full) \/ ~run(a, b + 1)
<1>1. PICK N \in Nat : N = Len(full) /\ DOMAIN full = 1..N
  OBVIOUS
<1>2. name \in Documents!Classes(full) <=> \E a, b \in 1..N : W(a, b) /\ SubSeq(full, a, b) = name
  <2>1. name \in Documents!Classes(full)
          <=> \E q \in (1..N) \X (1..N) : W(q[1], q[2]) /\ SubSeq(full, q[1], q[2]) = name
    BY <1>1 DEF Documents!Classes
  <2> HIDE DEF W
  <2>2. \A a, b \in 1..N : <<a, b>> \in (1..N) \X (1..N) /\ <<a, b>>[1] = a /\ <<a, b>>[2] = b
    OBVIOUS
  <2>3. \A q \in (1..N) \X (1..N) : q[1] \in 1..N /\ q[2] \in 1..N
    OBVIOUS
  <2>4. ASSUME NEW a \in 1..N, NEW b \in 1..N, W(a, b), SubSeq(full, a, b) = name
        PROVE  \E q \in (1..N) \X (1..N) : W(q[1], q[2]) /\ SubSeq(full, q[1], q[2]) = name
    <3>1. W(<<a, b>>[1], <<a, b>>[2]) /\ SubSeq(full, <<a, b>>[1], <<a, b>>[2]) = name
      BY <2>2, <2>4, Zenon
    <3> QED BY <2>2, <3>1, Zenon
  <2> QED BY <2>1, <2>3, <2>4, Zenon
<1>3. ASSUME NEW a \in 1..N, NEW b \in 1..N
      PROVE  W(a, b) <=> /\ a <= b /\ run(a, b)
                         /\ a = 1 \/ full[a - 1] \in Documents!Blanks
                         /\ b = N \/ full[b + 1] \in Documents!Blanks
  <2>1. ASSUME run(a, b) PROVE ~run(a - 1, b) <=> a <= b + 1 /\ full[a - 1] \in Documents!Blanks
    <3>1. ASSUME NEW k \in (a - 1)..b PROVE k = a - 1 \/ k \in a..b
      OBVIOUS
    <3>2. a <= b + 1 <=> a - 1 \in (a - 1)..b
      OBVIOUS
    <3>3. \A k \in (a - 1)..b : a - 1 \in (a - 1)..b
      OBVIOUS
    <3>4. run(a - 1, b) <=> \A k \in (a - 1)..b : full[k] \notin Documents!Blanks
      OBVIOUS
    <3>5. \A k \in a..b : full[k] \notin Documents!Blanks
      BY <2>1
    <3> HIDE DEF run
    <3> QED BY <3>1, <3>2, <3>3, <3>4, <3>5
  <2>2. ASSUME run(a, b), a <= b PROVE ~run(a, b + 1) <=> full[b + 1] \in Documents!Blanks
    <3>1. ASSUME NEW k \in a..(b + 1) PROVE k = b + 1 \/ k \in a..b
      OBVIOUS
    <3>2. b + 1 \in a..(b + 1)
      BY <2>2
    <3>3. run(a, b + 1) <=> \A k \in a..(b + 1) : full[k] \notin Documents!Blanks
      OBVIOUS
    <3>4. \A k \in a..b : full[k] \notin Documents!Blanks
      BY <2>2
    <3> HIDE DEF run
    <3> QED BY <3>1, <3>2, <3>3, <3>4
  <2>3. a <= b => a <= b + 1
    OBVIOUS
  <2>4. W(a, b) <=> /\ a <= b /\ run(a, b)
                    /\ a = 1 \/ ~run(a - 1, b)
                    /\ b = N \/ ~run(a, b + 1)
    BY <1>1
  <2> HIDE DEF W, run
  <2> QED BY <2>1, <2>2, <2>3, <2>4
<1>4. HasRunFrom(full, name, 1) <=>
        \E a \in 1..N : (a = 1 \/ full[a - 1] \in Documents!Blanks) /\ SubSeq(full, a, StopAt(full, a) - 1) = name
  BY <1>1 DEF HasRunFrom
<1>5. ASSUME NEW a \in 1..N, a = 1 \/ full[a - 1] \in Documents!Blanks, SubSeq(full, a, StopAt(full, a) - 1) = name
      PROVE  \E b \in 1..N : W(a, b) /\ SubSeq(full, a, b) = name
  <2>1. PICK c \in a..(N + 1) : /\ c = StopAt(full, a)
                                /\ \A k \in a..(c - 1) : full[k] \notin Documents!Blanks
                                /\ c <= N => full[c] \in Documents!Blanks
    <3>1. a \in 1..(Len(full) + 1)
      BY <1>1
    <3>2. /\ StopAt(full, a) \in a..(Len(full) + 1)
          /\ \A k \in a..(StopAt(full, a) - 1) : full[k] \notin Documents!Blanks
          /\ StopAt(full, a) <= Len(full) => full[StopAt(full, a)] \in Documents!Blanks
      BY <3>1, StopIs
    <3> QED BY <1>1, <3>2
  <2>2. c # a
    <3>1. ASSUME c = a PROVE FALSE
      <4>1. SubSeq(full, a, a - 1) = <<>>
        OBVIOUS
      <4> QED BY <1>5, <2>1, <3>1, <4>1
    <3> QED BY <3>1
  <2>3. PICK b \in 1..N : b = c - 1 /\ a <= b
    BY <1>1, <2>1, <2>2
  <2>4. run(a, b)
    BY <2>1, <2>3
  <2>5. b = N \/ full[b + 1] \in Documents!Blanks
    BY <1>1, <2>1, <2>3
  <2>6. W(a, b)
    <3> HIDE DEF W, run
    <3> QED BY <1>3, <1>5, <2>3, <2>4, <2>5
  <2> QED BY <1>5, <2>1, <2>3, <2>6, Zenon
<1>6. ASSUME NEW a \in 1..N, NEW b \in 1..N, W(a, b)
      PROVE  (a = 1 \/ full[a - 1] \in Documents!Blanks) /\ StopAt(full, a) - 1 = b
  <2>1. /\ a <= b /\ \A k \in a..b : full[k] \notin Documents!Blanks
        /\ a = 1 \/ full[a - 1] \in Documents!Blanks
        /\ b = N \/ full[b + 1] \in Documents!Blanks
    BY <1>3, <1>6
  <2>2. PICK e \in a..(N + 1) : e = b + 1
    BY <1>1, <2>1
  <2>3. (\A k \in a..(e - 1) : full[k] \notin Documents!Blanks) /\ (e <= N => full[e] \in Documents!Blanks)
    BY <1>1, <2>1, <2>2
  <2>4. StopAt(full, a) = e
    <3>1. a \in 1..(Len(full) + 1)
      BY <1>1
    <3> QED BY <1>1, <2>3, <3>1, StopIs
  <2> QED BY <2>1, <2>2, <2>4
<1> HIDE DEF W
<1>7. HasRunFrom(full, name, 1) <=> \E a, b \in 1..N : W(a, b) /\ SubSeq(full, a, b) = name
  BY <1>4, <1>5, <1>6, Zenon
<1> QED BY <1>2, <1>7, ContainsClassIs, Zenon

AreSteps(steps, Char) == \A s \in steps : IsStep(s, Char)

\* get_attr_value_predicate, find_attr and contains_class match what the step asks for.
LEMMA MatchesSatisfy ==
    ASSUME NEW doc, NEW n, NEW p, NEW Names, NEW Char, HasElements(doc, n, p, Names, Char),
           NEW m \in 1..n, NEW by, IsStep(by, Char)
    PROVE  Documents!Matches(doc, m, by) <=> Documents!Satisfies(doc, m, by)
<1>1. n \in Nat /\ HasAttributes(doc, n, Names, Char)
  BY DEF HasElements, HasTree
<1>2. CASE by.what = "tag"
  BY <1>2 DEF Documents!Matches, Documents!Satisfies
<1>3. CASE by.what # "tag"
  <2> DEFINE attrs == doc.node[m].attrs
             values(name) == AttributesOf(doc, m, name)
             value(name) == FirstValue(doc, m, name)
  <2>1. /\ Documents!FindAttr(doc, m, by.attr) = IF values(by.attr) = <<>> THEN <<>> ELSE <<Head(values(by.attr))>>
        /\ Documents!ValueOf(doc, m, by.attr) = value(by.attr)
        /\ value(by.attr) \in Seq(Char)
    BY <1>1, FirstAttribute
  <2>2. Documents!Satisfies(doc, m, by)
          <=> IF by.attr = "class" /\ by.ignore THEN by.value \in Documents!Classes(value(by.attr))
              ELSE value(by.attr) = by.value /\ (values(by.attr) # <<>> \/ by.attr \in {"class", "id"})
    BY <1>3, Zenon DEF Documents!Satisfies, AttributesOf, FirstValue
  <2>3. Documents!Matches(doc, m, by) <=> Documents!AttrMatches(doc, m, by.attr, by.value, by.ignore)
    BY <1>3 DEF Documents!Matches
  <2>0. value(by.attr) = IF values(by.attr) = <<>> THEN <<>> ELSE Head(values(by.attr)).value
    BY DEF FirstValue
  <2> HIDE DEF values, value
  <2>4. CASE by.attr = "class" /\ by.ignore
    <3>1. by.value # <<>>
      BY <1>3, <2>4 DEF IsStep
    <3> DEFINE v == value(by.attr)
    <3>2. v \in Seq(Char)
      BY <2>1
    <3>3. Documents!AttrMatches(doc, m, by.attr, by.value, by.ignore) <=> Documents!ContainsClass(v, by.value)
      BY <2>1, <2>4 DEF Documents!AttrMatches
    <3> HIDE DEF v
    <3>4. Documents!ContainsClass(v, by.value) <=> by.value \in Documents!Classes(v)
      BY <3>1, <3>2, ClassesAreFound
    <3> QED BY <2>2, <2>3, <2>4, <3>3, <3>4 DEF v
  <2>5. CASE ~(by.attr = "class" /\ by.ignore) /\ by.attr \in {"class", "id"}
    <3>1. Documents!AttrMatches(doc, m, by.attr, by.value, by.ignore) <=> value(by.attr) = by.value
      BY <2>1, <2>5 DEF Documents!AttrMatches
    <3> QED BY <2>2, <2>3, <2>5, <3>1
  <2>6. CASE by.attr \notin {"class", "id"}
    <3>1. Documents!AttrMatches(doc, m, by.attr, by.value, by.ignore)
            <=> \E i \in DOMAIN Documents!FindAttr(doc, m, by.attr) : Documents!FindAttr(doc, m, by.attr)[i].value = by.value
      BY <2>6 DEF Documents!AttrMatches
    <3>2. CASE values(by.attr) = <<>>
      <4>1. Documents!FindAttr(doc, m, by.attr) = <<>> /\ \A i \in DOMAIN <<>> : FALSE
        BY <2>1, <3>2
      <4> QED BY <2>2, <2>3, <2>6, <3>1, <3>2, <4>1
    <3>3. CASE values(by.attr) # <<>>
      <4> DEFINE a == Head(values(by.attr))
      <4>1. Documents!FindAttr(doc, m, by.attr) = <<a>>
        BY <2>1, <3>3
      <4>2. DOMAIN <<a>> = {1} /\ <<a>>[1] = a
        OBVIOUS
      <4>3. value(by.attr) = a.value
        BY <2>0, <3>3
      <4> HIDE DEF a
      <4>4. Documents!AttrMatches(doc, m, by.attr, by.value, by.ignore) <=> a.value = by.value
        BY <3>1, <4>1, <4>2
      <4> QED BY <2>2, <2>3, <2>6, <3>3, <4>3, <4>4
    <3> QED BY <3>2, <3>3
  <2> QED BY <2>4, <2>5, <2>6
<1> QED BY <1>2, <1>3

\* The elements below a view that one of some steps asks for.
Hits(doc, n, p, view, steps) ==
    {e \in ElementsOf(doc, n, p, view) : \E s \in steps : Documents!Satisfies(doc, e, s)}

\* Where a sequence has an element of K.
PlacesIn(s, K) == {i \in DOMAIN s : s[i] \in K}

\* What is left of a walk when only the elements in K are kept.
WalkKeeps(doc, n, p, view, K) ==
    LET walk == Documents!ElementWalk(doc, view)
        I == PlacesIn(walk, K)
        hits == ElementsOf(doc, n, p, view) \cap K
    IN  /\ walk \in Seq(1..n)
        /\ ListsAll(Entries(walk, I), hits)
        /\ Entries(walk, I) = OrderOf(n, hits)

\* The ones that are left are listed in order.
LEMMA WalkKept ==
    ASSUME NEW doc, NEW n, NEW p, HasTree(doc, n, p), NEW view \in 1..n, NEW K \in SUBSET (1..n)
    PROVE  WalkKeeps(doc, n, p, view, K)
<1> DEFINE walk == Documents!ElementWalk(doc, view)
           I == PlacesIn(walk, K)
           S == ElementsOf(doc, n, p, view)
<1>1. n \in Nat /\ S \in SUBSET (1..n) /\ S \in SUBSET Nat
  BY DEF HasTree, ElementsOf, BelowOf
<1>2. walk = OrderOf(n, S)
  BY ElementWalkIs
<1> HIDE DEF walk, S
<1>3. ListsAll(walk, S)
  BY <1>1, <1>2, NumbersAreListed
<1>4. walk \in Seq(S) /\ DOMAIN walk = 1..Len(walk) /\ \A x \in S : \E i \in 1..Len(walk) : walk[i] = x
  BY <1>3 DEF ListsAll
<1>5. walk \in Seq(1..n)
  BY <1>1, <1>4, SeqMonotonic
<1>6. {walk[i] : i \in I} = S \cap K
  <2>0. I = {i \in DOMAIN walk : walk[i] \in K}
    BY DEF PlacesIn
  <2>1. \A i \in I : walk[i] \in S \cap K
    BY <1>4, <2>0
  <2>2. ASSUME NEW x \in S \cap K PROVE \E i \in I : walk[i] = x
    <3>1. PICK i \in 1..Len(walk) : walk[i] = x
      BY <1>4
    <3>2. i \in I
      BY <1>4, <2>0, <3>1
    <3> QED BY <3>1, <3>2
  <2> HIDE DEF I
  <2> QED BY <2>1, <2>2
<1>7. I \in SUBSET DOMAIN walk
  BY DEF PlacesIn
<1> HIDE DEF I
<1>8. ListsAll(Entries(walk, I), S \cap K)
  BY <1>1, <1>3, <1>6, <1>7, ListsFewer
<1>9. Entries(walk, I) = OrderOf(n, S \cap K)
  <2>1. S \cap K \in SUBSET (1..n)
    BY <1>1
  <2> QED BY <1>1, <1>8, <2>1, OrdersAre
<1> QED BY <1>5, <1>8, <1>9, Zenon DEF WalkKeeps, I, S, walk

\* Where a walk has an element that one of some steps matches.
MatchPlaces(doc, view, steps) ==
    LET walk == Documents!ElementWalk(doc, view)
    IN  {i \in DOMAIN walk : \E s \in steps : Documents!Matches(doc, walk[i], s)}

\* All elements that match, and the first of them.
LEMMA SearchesAre ==
    ASSUME NEW doc, NEW n, NEW p, NEW Names, NEW Char, HasElements(doc, n, p, Names, Char),
           NEW view \in 1..n, NEW steps, AreSteps(steps, Char)
    PROVE  LET walk == Documents!ElementWalk(doc, view)
               I == MatchPlaces(doc, view, steps)
               hits == OrderOf(n, Hits(doc, n, p, view, steps))
           IN  /\ Entries(walk, I) = hits
               /\ I \subseteq 1..Len(walk) /\ DOMAIN walk = 1..Len(walk)
               /\ I = {} => hits = <<>>
               /\ I # {} => /\ hits # <<>> /\ Documents!Min(I) \in I /\ Documents!Min(I) \in 1..Len(walk)
                            /\ Head(hits) = walk[Documents!Min(I)]
                            /\ Head(hits) \in Hits(doc, n, p, view, steps) /\ Head(hits) \in 1..n
<1> DEFINE walk == Documents!ElementWalk(doc, view)
           I == {i \in DOMAIN walk : \E s \in steps : Documents!Matches(doc, walk[i], s)}
           K == {m \in 1..n : \E s \in steps : Documents!Satisfies(doc, m, s)}
           S == ElementsOf(doc, n, p, view)
           hits == OrderOf(n, Hits(doc, n, p, view, steps))
<1>1. n \in Nat /\ HasTree(doc, n, p) /\ S \in SUBSET (1..n)
  BY DEF HasElements, HasTree, ElementsOf, BelowOf
<1>2. Hits(doc, n, p, view, steps) = S \cap K
  BY <1>1 DEF Hits
<1>3. \A m \in 1..n : \A s \in steps : Documents!Matches(doc, m, s) <=> Documents!Satisfies(doc, m, s)
  BY MatchesSatisfy DEF AreSteps
<1> HIDE DEF S
<1>4. /\ walk \in Seq(1..n)
      /\ ListsAll(Entries(walk, PlacesIn(walk, K)), S \cap K)
      /\ Entries(walk, PlacesIn(walk, K)) = OrderOf(n, S \cap K)
  <2>1. K \in SUBSET (1..n)
    OBVIOUS
  <2> HIDE DEF K
  <2>2. WalkKeeps(doc, n, p, view, K)
    BY <1>1, <2>1, WalkKept
  <2> QED BY <2>2, Zenon DEF WalkKeeps, S
<1> HIDE DEF walk
<1>5. DOMAIN walk = 1..Len(walk) /\ \A i \in DOMAIN walk : walk[i] \in 1..n
  <2> HIDE DEF K
  <2>1. walk \in Seq(1..n)
    BY <1>4
  <2>2. \A X : \A s \in Seq(X) : DOMAIN s = 1..Len(s) /\ \A i \in DOMAIN s : s[i] \in X
    OBVIOUS
  <2> QED BY <2>1, <2>2, Zenon
<1>6. I = PlacesIn(walk, K)
  BY <1>3, <1>5 DEF PlacesIn
<1>7. I \in SUBSET DOMAIN walk /\ \A i \in I : walk[i] \in K
  BY <1>6 DEF PlacesIn
<1> HIDE DEF I, K
<1>8. Entries(walk, I) = hits /\ ListsAll(hits, S \cap K)
  BY <1>2, <1>4, <1>6, Zenon
<1>9. /\ I = {} => hits = <<>>
      /\ I # {} => hits # <<>> /\ Documents!Min(I) \in I /\ Head(hits) = walk[Documents!Min(I)]
  <2>1. /\ I = {} => Entries(walk, I) = <<>>
        /\ I # {} => Entries(walk, I) # <<>> /\ Documents!Min(I) \in I /\ Head(Entries(walk, I)) = walk[Documents!Min(I)]
    BY <1>4, <1>7, FirstEntry
  <2> HIDE DEF hits
  <2> QED BY <1>8, <2>1, Zenon
<1>10. ASSUME I # {} PROVE Head(hits) \in S \cap K
  <2> HIDE DEF hits
  <2>1. hits \in Seq(S \cap K)
    BY <1>8 DEF ListsAll
  <2> QED BY <1>9, <1>10, <2>1
<1>11. S \cap K \subseteq 1..n
  BY <1>1
<1> HIDE DEF hits
<1> QED BY <1>2, <1>5, <1>7, <1>8, <1>9, <1>10, <1>11 DEF walk, I, hits, MatchPlaces

\* The first of a sequence of nodes, or none.
FirstOf(s) == IF s = <<>> THEN 0 ELSE Head(s)

\* query_all() and query() see the elements that one of the selectors matches.
LEMMA QueriesAre ==
    ASSUME NEW doc, NEW n, NEW p, NEW Names, NEW Char, HasElements(doc, n, p, Names, Char),
           NEW view \in 1..n, NEW steps, AreSteps(steps, Char)
    PROVE  /\ Documents!QueryAll(doc, view, steps) = OrderOf(n, Hits(doc, n, p, view, steps))
           /\ Documents!Query(doc, view, steps) = FirstOf(OrderOf(n, Hits(doc, n, p, view, steps)))
<1> DEFINE walk == Documents!ElementWalk(doc, view)
           I == MatchPlaces(doc, view, steps)
           hits == OrderOf(n, Hits(doc, n, p, view, steps))
<1>1. Entries(walk, I) = hits
  BY SearchesAre
<1>2. Documents!QueryAll(doc, view, steps) = hits
  <2>1. Documents!QueryAll(doc, view, steps) = Documents!Entries(walk, I)
    BY Zenon DEF Documents!Where, Documents!QueryAll, MatchPlaces
  <2> HIDE DEF walk, I, hits
  <2> QED BY <1>1, <2>1, SameEntries, Zenon
<1> HIDE DEF hits
<1>3. Documents!Query(doc, view, steps) = FirstOf(hits)
  BY <1>2, Zenon DEF Documents!Query, FirstOf, Documents!Null
<1> QED BY <1>2, <1>3 DEF hits

\* find_all() and find() see the elements that the step matches.
LEMMA FindsAre ==
    ASSUME NEW doc, NEW n, NEW p, NEW Names, NEW Char, HasElements(doc, n, p, Names, Char),
           NEW view \in 1..n, NEW by, IsStep(by, Char)
    PROVE  /\ Documents!FindAll(doc, view, by) = OrderOf(n, Hits(doc, n, p, view, {by}))
           /\ Documents!Find(doc, view, by) = FirstOf(OrderOf(n, Hits(doc, n, p, view, {by})))
           /\ Documents!Find(doc, view, by) \in 0..n
<1> DEFINE one == {by}
           walk == Documents!ElementWalk(doc, view)
           I == MatchPlaces(doc, view, one)
           J == {i \in DOMAIN walk : Documents!Matches(doc, walk[i], by)}
           hits == OrderOf(n, Hits(doc, n, p, view, one))
<1>1. AreSteps(one, Char)
  BY DEF AreSteps
<1>0. J = MatchPlaces(doc, view, one)
  BY DEF MatchPlaces
<1> HIDE DEF one
<1>2. /\ Entries(walk, I) = hits
      /\ DOMAIN walk = 1..Len(walk)
      /\ I = {} => hits = <<>>
      /\ I # {} => /\ hits # <<>> /\ Documents!Min(I) \in 1..Len(walk)
                   /\ Head(hits) = walk[Documents!Min(I)] /\ Head(hits) \in 1..n
  BY <1>1, SearchesAre
<1>3. I = J
  BY <1>0
<1>4. Documents!FindAll(doc, view, by) = hits
  <2>1. Documents!FindAll(doc, view, by) = Documents!Entries(walk, J)
    BY Zenon DEF Documents!Where, Documents!FindAll
  <2> HIDE DEF walk, I, J, hits
  <2> QED BY <1>2, <1>3, <2>1, SameEntries, Zenon
<1>5. Documents!Find(doc, view, by) = IF J # {} THEN walk[Documents!Min(J)] ELSE 0
  <2> DEFINE hit == IF J # {} THEN Documents!Min(J) ELSE 0
  <2>1. Documents!SelectInSeq(walk, LAMBDA m : Documents!Matches(doc, m, by)) = hit
    BY <1>2, Zenon DEF Documents!SelectInSeq
  <2>2. Documents!Find(doc, view, by) = IF hit = 0 THEN 0 ELSE walk[hit]
    BY <2>1, Zenon DEF Documents!Find, Documents!Null
  <2>3. J # {} => hit \in 1..Len(walk)
    BY <1>2, <1>3, Zenon
  <2>4. J # {} => hit # 0
    <3> HIDE DEF hit, J, walk
    <3> QED BY <2>3
  <2> HIDE DEF J, walk
  <2> QED BY <2>2, <2>4, Zenon
<1> HIDE DEF walk, I, J, hits
<1>6. Documents!Find(doc, view, by) = FirstOf(hits)
  BY <1>2, <1>3, <1>5, Zenon DEF FirstOf
<1>7. Documents!Find(doc, view, by) \in 0..n
  <2>1. CASE J = {}
    <3>1. Documents!Find(doc, view, by) = 0 /\ 0 \in 0..n
      BY <1>5, <2>1 DEF HasElements, HasTree
    <3> QED BY <3>1
  <2>2. CASE J # {}
    <3>1. Documents!Find(doc, view, by) = Head(hits) /\ Head(hits) \in 1..n
      BY <1>2, <1>3, <1>5, <2>2, Zenon
    <3> QED BY <3>1
  <2> QED BY <2>1, <2>2
<1> QED BY <1>4, <1>6, <1>7 DEF hits, one

\* In an invalid view there is nothing to find.
LEMMA NothingIsFound ==
    ASSUME NEW doc, NEW by, NEW steps
    PROVE  /\ Documents!FindAll(doc, 0, by) = <<>> /\ Documents!Find(doc, 0, by) = 0
           /\ Documents!QueryAll(doc, 0, steps) = <<>> /\ Documents!Query(doc, 0, steps) = 0
<1> DEFINE walk == Documents!ElementWalk(doc, 0)
<1>1. walk = <<>>
  BY Zenon DEF Documents!ElementWalk, Documents!Null
<1>2. walk \in Seq({}) /\ DOMAIN walk = {} /\ Len(walk) = 0
  <2>1. <<>> \in Seq({}) /\ DOMAIN <<>> = {} /\ Len(<<>>) = 0
    OBVIOUS
  <2> QED BY <1>1, <2>1, Zenon
<1> HIDE DEF walk
<1>3. \A I \in SUBSET DOMAIN walk : Documents!Entries(walk, I) = <<>>
  <2>1. \A I \in SUBSET DOMAIN walk : I = {} /\ {} \in SUBSET DOMAIN walk
    BY <1>2
  <2>2. Entries(walk, {}) = <<>>
    <3>1. {} \in SUBSET DOMAIN walk
      OBVIOUS
    <3> QED BY <1>2, <3>1, FirstEntry
  <2> QED BY <2>1, <2>2, SameEntries, Zenon
<1>4. Documents!FindAll(doc, 0, by) = <<>>
  <2>1. Documents!FindAll(doc, 0, by) = Documents!Entries(walk, {i \in DOMAIN walk : Documents!Matches(doc, walk[i], by)})
    BY Zenon DEF Documents!Where, Documents!FindAll, walk
  <2> QED BY <1>3, <2>1
<1>5. Documents!QueryAll(doc, 0, steps) = <<>>
  <2>1. Documents!QueryAll(doc, 0, steps)
          = Documents!Entries(walk, {i \in DOMAIN walk : \E s \in steps : Documents!Matches(doc, walk[i], s)})
    BY Zenon DEF Documents!Where, Documents!QueryAll, walk
  <2> QED BY <1>3, <2>1
<1>6. Documents!Query(doc, 0, steps) = 0
  BY <1>5, Zenon DEF Documents!Query, Documents!Null
<1>7. Documents!Find(doc, 0, by) = 0
  <2>1. {i \in 1..Len(walk) : Documents!Matches(doc, walk[i], by)} = {}
    BY <1>2
  <2>2. Documents!SelectInSeq(walk, LAMBDA m : Documents!Matches(doc, m, by)) = 0
    BY <2>1, Zenon DEF Documents!SelectInSeq
  <2> QED BY <2>2, Zenon DEF Documents!Find, Documents!Null, walk
<1> QED BY <1>4, <1>5, <1>6, <1>7

\* iter is the recursion of a chain of two finds, over the indexes that are left.
Chains(iter, doc, view, s) ==
    iter = [t \in SUBSET DOMAIN s |->
              IF t = {} THEN view
              ELSE LET x == Documents!Max(t)
                   IN  IF iter[t \ {x}] = Documents!Null THEN Documents!Null
                       ELSE Documents!Find(doc, iter[t \ {x}], s[x])]

\* DOMElementFinder: the second find starts where the first one has come to.
LEMMA ChainEnds ==
    ASSUME NEW doc, NEW view, NEW by, NEW also
    PROVE  LET then(v, step) == IF v = Documents!Null THEN Documents!Null ELSE Documents!Find(doc, v, step)
           IN  Documents!FinderFind(doc, view, <<by, also>>) = then(then(view, by), also)
<1> DEFINE s == <<by, also>>
           then(v, step) == IF v = Documents!Null THEN Documents!Null ELSE Documents!Find(doc, v, step)
           D == SUBSET DOMAIN s
           Rhs(f, t) == IF t = {} THEN view
                        ELSE IF f[t \ {Documents!Max(t)}] = Documents!Null THEN Documents!Null
                             ELSE Documents!Find(doc, f[t \ {Documents!Max(t)}], s[Documents!Max(t)])
<1>1. DOMAIN s = {1, 2} /\ s[1] = by /\ s[2] = also
  OBVIOUS
<1>2. \A t \in D : t = {} \/ t = {1} \/ t = {2} \/ t = {1, 2}
  BY <1>1
<1>3. {} \in D /\ {1} \in D /\ {2} \in D /\ {1, 2} \in D
  BY <1>1
<1>4. Documents!Max({1}) = 1 /\ Documents!Max({2}) = 2 /\ Documents!Max({1, 2}) = 2
  <2>1. 2 \in Nat /\ {1} \in SUBSET (0..2) /\ {2} \in SUBSET (0..2) /\ {1, 2} \in SUBSET (0..2)
    OBVIOUS
  <2>2. Documents!Max({1}) = 1
    BY <2>1, GreatestIs
  <2>3. Documents!Max({2}) = 2
    BY <2>1, GreatestIs
  <2>4. Documents!Max({1, 2}) = 2
    BY <2>1, GreatestIs
  <2> QED BY <2>2, <2>3, <2>4
<1>5. {1} \ {1} = {} /\ {2} \ {2} = {} /\ {1, 2} \ {2} = {1} /\ {1} # {} /\ {2} # {} /\ {1, 2} # {}
      /\ {1} # {2} /\ {1, 2} # {1} /\ {1, 2} # {2}
  OBVIOUS
<1> HIDE DEF s, D
<1>6. \E f : f = [t \in D |-> Rhs(f, t)]
  <2> DEFINE a == then(view, by)
             f0 == [t \in D |-> IF t = {} THEN view ELSE IF t = {1} THEN a
                                ELSE IF t = {2} THEN then(view, also) ELSE then(a, also)]
  <2>1. f0[{}] = view /\ f0[{1}] = a /\ f0[{2}] = then(view, also) /\ f0[{1, 2}] = then(a, also)
    <3> HIDE DEF a, then
    <3> QED BY <1>3, <1>5, Zenon
  <2> HIDE DEF a, f0
  <2>2. Rhs(f0, {}) = view
    OBVIOUS
  <2>3. Rhs(f0, {1}) = then(view, by)
    BY <1>1, <1>4, <1>5, <2>1, Zenon
  <2>4. Rhs(f0, {2}) = then(view, also)
    BY <1>1, <1>4, <1>5, <2>1, Zenon
  <2>5. Rhs(f0, {1, 2}) = then(a, also)
    BY <1>1, <1>4, <1>5, <2>1, Zenon
  <2> HIDE DEF Rhs, then
  <2>6. \A t \in D : f0[t] = Rhs(f0, t)
    BY <1>2, <2>1, <2>2, <2>3, <2>4, <2>5, Zenon DEF a
  <2>7. f0 = [t \in D |-> f0[t]]
    BY DEF f0
  <2>8. [t \in D |-> f0[t]] = [t \in D |-> Rhs(f0, t)]
    BY <2>6, Zenon
  <2> QED BY <2>7, <2>8, Zenon
<1>7. ASSUME NEW f PROVE Chains(f, doc, view, s) <=> f = [t \in D |-> Rhs(f, t)]
  BY Zenon DEF Chains, D
<1> DEFINE h == CHOOSE f : Chains(f, doc, view, s)
<1>8. h = [t \in D |-> Rhs(h, t)]
  <2> HIDE DEF Rhs
  <2>1. \E f : Chains(f, doc, view, s)
    BY <1>6, <1>7, Zenon
  <2>2. Chains(h, doc, view, s)
    BY <2>1, Zenon
  <2> HIDE DEF h
  <2> QED BY <1>7, <2>2, Zenon
<1>9. Documents!FinderFind(doc, view, s) = h[DOMAIN s]
  BY Zenon DEF Documents!FinderFind, Documents!FoldLeft, Documents!MapThenFoldSet, Chains
<1> HIDE DEF h
<1>10. h[{}] = view /\ h[{1}] = Rhs(h, {1}) /\ h[{1, 2}] = Rhs(h, {1, 2})
  <2>1. \A t \in D : h[t] = Rhs(h, t)
    <3> HIDE DEF Rhs
    <3> QED BY <1>8, Zenon
  <2> QED BY <1>3, <2>1, Zenon
<1>11. h[{1}] = then(view, by)
  BY <1>1, <1>4, <1>5, <1>10, Zenon
<1>12. h[{1, 2}] = then(h[{1}], also)
  BY <1>1, <1>4, <1>5, <1>10, Zenon
<1> QED BY <1>1, <1>9, <1>11, <1>12, Zenon DEF s

\* Every way to search a document sees the same elements: find_all() and query_all() list those
\* that match, below the view and in document order, find() and query() return the first of
\* them, a chain of finds goes on from there, and in an invalid view nothing is found.
THEOREM SearchesAreExact ==
    \A Names, Char, doc, n, p, by, also :
        HasElements(doc, n, p, Names, Char) /\ IsStep(by, Char) /\ IsStep(also, Char)
        => \A view \in 0..n : Documents!FindersAgree(doc, view, by, also)
<1> SUFFICES ASSUME NEW Names, NEW Char, NEW doc, NEW n, NEW p, NEW by, NEW also,
                    HasElements(doc, n, p, Names, Char), IsStep(by, Char), IsStep(also, Char),
                    NEW view \in 0..n
             PROVE  Documents!FindersAgree(doc, view, by, also)
  OBVIOUS
<1> DEFINE hits(v, steps) ==
             Documents!InOrder(doc, {e \in Documents!ElementsBelow(doc, v) : \E s \in steps : Documents!Satisfies(doc, e, s)})
           first(v, steps) == IF hits(v, steps) = <<>> THEN Documents!Null ELSE Head(hits(v, steps))
           then(v, step) == IF v = Documents!Null THEN Documents!Null ELSE Documents!Find(doc, v, step)
           one == {by}
           other == {also}
           both == {by, also}
<1>1. HasTree(doc, n, p) /\ n \in Nat /\ Documents!Null = 0
  BY DEF HasElements, HasTree, Documents!Null
<1>2. AreSteps(one, Char) /\ AreSteps(other, Char) /\ AreSteps(both, Char)
  BY DEF AreSteps
<1>3. ASSUME NEW v \in 1..n, NEW steps
      PROVE  hits(v, steps) = OrderOf(n, Hits(doc, n, p, v, steps))
  <2>1. Documents!ElementsBelow(doc, v) = ElementsOf(doc, n, p, v)
    BY <1>1, BelowAre DEF Documents!ElementsBelow, ElementsOf
  <2>2. {e \in Documents!ElementsBelow(doc, v) : \E s \in steps : Documents!Satisfies(doc, e, s)} = Hits(doc, n, p, v, steps)
    BY <2>1, Zenon DEF Hits
  <2> QED BY <1>1, <2>2, InOrderIs
<1>4. ASSUME NEW v \in 1..n, NEW step, IsStep(step, Char)
      PROVE  /\ Documents!FindAll(doc, v, step) = hits(v, {step})
             /\ Documents!Find(doc, v, step) = first(v, {step})
             /\ Documents!Find(doc, v, step) \in 0..n
  <2>1. hits(v, {step}) = OrderOf(n, Hits(doc, n, p, v, {step}))
    BY <1>3
  <2> HIDE DEF hits
  <2>2. /\ Documents!FindAll(doc, v, step) = OrderOf(n, Hits(doc, n, p, v, {step}))
        /\ Documents!Find(doc, v, step) = FirstOf(OrderOf(n, Hits(doc, n, p, v, {step})))
        /\ Documents!Find(doc, v, step) \in 0..n
    BY <1>4, FindsAre
  <2> QED BY <1>1, <2>1, <2>2, Zenon DEF FirstOf
<1>5. ASSUME NEW v \in 1..n
      PROVE  Documents!QueryAll(doc, v, both) = hits(v, both) /\ Documents!Query(doc, v, both) = first(v, both)
  <2>1. hits(v, both) = OrderOf(n, Hits(doc, n, p, v, both))
    BY <1>3
  <2> HIDE DEF hits, both
  <2>2. /\ Documents!QueryAll(doc, v, both) = OrderOf(n, Hits(doc, n, p, v, both))
        /\ Documents!Query(doc, v, both) = FirstOf(OrderOf(n, Hits(doc, n, p, v, both)))
    BY <1>2, QueriesAre
  <2> QED BY <1>1, <2>1, <2>2, Zenon DEF FirstOf
<1>6. Documents!FinderFind(doc, view, <<by, also>>) = then(then(view, by), also)
  BY ChainEnds
<1>7. CASE view = 0
  <2>1. /\ Documents!FindAll(doc, 0, by) = <<>> /\ Documents!Find(doc, 0, by) = 0
        /\ Documents!Query(doc, 0, {by, also}) = 0
    BY NothingIsFound
  <2>2. then(then(view, by), also) = 0
    BY <1>1, <1>7
  <2> HIDE DEF then, hits, first
  <2> QED BY <1>1, <1>6, <1>7, <2>1, <2>2, Zenon DEF Documents!FindersAgree
<1>8. CASE view # 0
  <2>1. view \in 1..n
    BY <1>8
  <2>2. /\ Documents!FindAll(doc, view, by) = hits(view, {by})
        /\ Documents!Find(doc, view, by) = first(view, {by})
        /\ Documents!Find(doc, view, by) \in 0..n
    BY <1>4, <2>1
  <2>3. /\ Documents!QueryAll(doc, view, {by, also}) = hits(view, {by, also})
        /\ Documents!Query(doc, view, {by, also}) = first(view, {by, also})
    BY <1>5, <2>1
  <2> DEFINE w == first(view, {by})
  <2>4. then(view, by) = w /\ w \in 0..n
    <3> HIDE DEF first, hits
    <3> QED BY <1>1, <1>8, <2>2
  <2>5. then(w, also) = IF w = Documents!Null THEN Documents!Null ELSE first(w, {also})
    <3> HIDE DEF w
    <3>1. CASE w = 0
      BY <1>1, <3>1, Zenon
    <3>2. CASE w # 0
      <4>1. w \in 1..n
        BY <2>4, <3>2
      <4>2. Documents!Find(doc, w, also) = first(w, {also})
        BY <1>4, <4>1
      <4> HIDE DEF first, hits
      <4> QED BY <1>1, <3>2, <4>2
    <3> QED BY <3>1, <3>2
  <2>6. Documents!FinderFind(doc, view, <<by, also>>)
          = IF first(view, {by}) = Documents!Null THEN Documents!Null ELSE first(first(view, {by}), {also})
    <3> HIDE DEF then, w
    <3>1. then(then(view, by), also) = then(w, also)
      BY <2>4, Zenon
    <3> HIDE DEF first, hits
    <3> QED BY <1>6, <2>5, <3>1, Zenon DEF w
  <2>7. view # Documents!Null
    BY <1>1, <1>8
  <2> QED BY <2>2, <2>3, <2>6, <2>7, Zenon DEF Documents!FindersAgree
<1> QED BY <1>7, <1>8

-----------------------------------------------------------------------------
(***************************************************************************)
(* For any votes, a histogram rates as the list of its votes does.  The    *)
(* sums of Rating::from_distribution are folds, taken in turn here (Adds). *)
(* Where the votes of a bucket end in the list, the places are the votes   *)
(* so far and the sum is what they weigh (VotesAreListed).                 *)
(***************************************************************************)

\* Of a set of positions from 1 on, the last one.
LEMMA LastPosition ==
    ASSUME NEW N \in Nat, NEW s \in SUBSET (1..N)
    PROVE  /\ s # {} => Measured!Max(s) \in s
           /\ \A n \in 1..N : n \in s /\ s \subseteq 1..n => Measured!Max(s) = n
<1>1. Measured!Max(s) = Documents!Max(s)
  BY Zenon DEF Measured!Max, Documents!Max
<1>2. s # {} => Documents!Max(s) \in s /\ \A d \in s : d <= Documents!Max(s)
  BY GreatestIs
<1>3. ASSUME NEW n \in 1..N, n \in s, s \subseteq 1..n PROVE Documents!Max(s) = n
  <2>1. Documents!Max(s) \in 1..n /\ n <= Documents!Max(s)
    BY <1>2, <1>3
  <2> QED BY <2>1
<1> QED BY <1>1, <1>2, <1>3, Zenon

\* A fold over positions, the last one outermost, as the library computes it.
Folds(h, N, b) ==
    h = [s \in SUBSET (1..N) |->
           IF s = {} THEN 0
           ELSE h[s \ {Measured!Max(s)}] + b[Measured!Max(s)]]

\* There is one.
LEMMA FoldExists ==
    ASSUME NEW N \in Nat, NEW b
    PROVE  \E h : Folds(h, N, b)
<1> DEFINE T == {k \in Nat : \E h : Folds(h, k, b)}
<1>1. 0 \in T
  <2>1. Folds([s \in SUBSET (1..0) |-> 0], 0, b)
    <3>1. \A s \in SUBSET (1..0) : s = {}
      OBVIOUS
    <3> QED BY <3>1 DEF Folds
  <2> QED BY <2>1
<1>2. ASSUME NEW k \in T PROVE k + 1 \in T
  <2>1. PICK h : Folds(h, k, b)
    OBVIOUS
  <2>2. k \in Nat /\ k + 1 \in Nat
    OBVIOUS
  <2> DEFINE more(f, s) == f[s \ {Measured!Max(s)}] + b[Measured!Max(s)]
             g == [s \in SUBSET (1..(k + 1)) |->
                     IF k + 1 \in s THEN h[s \ {k + 1}] + b[k + 1] ELSE h[s]]
  <2>3. \A s \in SUBSET (1..k) : g[s] = h[s]
    <3> SUFFICES ASSUME NEW s \in SUBSET (1..k) PROVE g[s] = h[s]
      OBVIOUS
    <3>1. s \in SUBSET (1..(k + 1)) /\ k + 1 \notin s
      BY <2>2
    <3> QED BY <3>1
  <2>4. ASSUME NEW s \in SUBSET (1..(k + 1)) PROVE g[s] = IF s = {} THEN 0 ELSE more(g, s)
    <3>1. CASE k + 1 \in s
      <4>1. Measured!Max(s) = k + 1
        <5>1. k + 1 \in 1..(k + 1)
          BY <2>2
        <5> QED BY <2>2, <3>1, <5>1, LastPosition
      <4>2. s \ {k + 1} \in SUBSET (1..k) /\ s # {}
        BY <2>2, <3>1
      <4>3. g[s] = h[s \ {k + 1}] + b[k + 1]
        BY <3>1
      <4>4. g[s \ {k + 1}] = h[s \ {k + 1}]
        BY <2>3, <4>2
      <4> HIDE DEF g
      <4> QED BY <4>1, <4>2, <4>3, <4>4, Zenon
    <3>2. CASE k + 1 \notin s
      <4>1. s \in SUBSET (1..k)
        BY <2>2, <3>2
      <4>2. g[s] = h[s]
        BY <2>3, <4>1
      <4>3. h[s] = IF s = {} THEN 0 ELSE more(h, s)
        BY <2>1, <4>1, Zenon DEF Folds
      <4>4. s # {} => s \ {Measured!Max(s)} \in SUBSET (1..k)
        BY <4>1
      <4>5. s # {} => g[s \ {Measured!Max(s)}] = h[s \ {Measured!Max(s)}]
        <5> HIDE DEF g
        <5> QED BY <2>3, <4>4, Zenon
      <4> HIDE DEF g
      <4> QED BY <4>2, <4>3, <4>5, Zenon
    <3> QED BY <3>1, <3>2
  <2>5. g = [s \in SUBSET (1..(k + 1)) |-> g[s]]
    BY Zenon
  <2>6. g = [s \in SUBSET (1..(k + 1)) |-> IF s = {} THEN 0 ELSE more(g, s)]
    <3> HIDE DEF g, more
    <3> QED BY <2>4, <2>5, Zenon
  <2>7. Folds(g, k + 1, b)
    <3> HIDE DEF g
    <3> QED BY <2>6, Zenon DEF Folds
  <2> HIDE DEF g
  <2> QED BY <2>2, <2>7
<1>3. T = Nat
  <2>1. T \in SUBSET Nat
    OBVIOUS
  <2> HIDE DEF T
  <2> QED BY <1>1, <1>2, <2>1, SetInduction
<1> QED BY <1>3

\* The same, one position after the other.
Adds(g, N, b) == g = [n \in 0..N |-> IF n = 0 THEN 0 ELSE g[n - 1] + b[n]]

\* A fold is the last of them.
LEMMA FoldsInTurn ==
    ASSUME NEW N \in Nat, NEW b, NEW h, Folds(h, N, b)
    PROVE  \E g : Adds(g, N, b) /\ h[1..N] = g[N]
<1> DEFINE g == [n \in 0..N |-> h[1..n]]
<1>1. ASSUME NEW n \in 0..N PROVE g[n] = IF n = 0 THEN 0 ELSE g[n - 1] + b[n]
  <2>1. g[n] = h[1..n] /\ 1..n \in SUBSET (1..N)
    OBVIOUS
  <2>2. CASE n = 0
    <3>1. 1..n = {}
      BY <2>2
    <3>2. h[1..n] = 0
      BY <2>1, <3>1, Zenon DEF Folds
    <3> QED BY <2>1, <2>2, <3>2
  <2>3. CASE n # 0
    <3>1. n \in 1..N /\ n \in 1..n /\ 1..n # {} /\ n - 1 \in 0..N /\ (1..n) \ {n} = 1..(n - 1)
      BY <2>3
    <3>2. Measured!Max(1..n) = n
      BY <2>1, <3>1, LastPosition
    <3>3. h[1..n] = h[(1..n) \ {Measured!Max(1..n)}] + b[Measured!Max(1..n)]
      BY <2>1, <3>1, Zenon DEF Folds
    <3>4. g[n - 1] = h[1..(n - 1)]
      BY <3>1
    <3> HIDE DEF g
    <3> QED BY <2>1, <2>3, <3>1, <3>2, <3>3, <3>4, Zenon
  <2> QED BY <2>2, <2>3
<1>2. g = [n \in 0..N |-> g[n]] /\ g[N] = h[1..N]
  <2>1. N \in 0..N
    OBVIOUS
  <2> QED BY <2>1, Zenon
<1> HIDE DEF g
<1>3. g = [n \in 0..N |-> IF n = 0 THEN 0 ELSE g[n - 1] + b[n]]
  BY <1>1, <1>2, Zenon
<1> QED BY <1>2, <1>3, Zenon DEF Adds

\* What one such recursion yields.
LEMMA AddingSteps ==
    ASSUME NEW N \in Nat, NEW b, NEW g, Adds(g, N, b),
           \A i \in 1..N : b[i] \in Int
    PROVE  /\ g[0] = 0
           /\ \A n \in 1..N : g[n] = g[n - 1] + b[n]
           /\ \A n \in 0..N : g[n] \in Int
<1>1. g[0] = 0
  <2>1. 0 \in 0..N
    OBVIOUS
  <2> QED BY <2>1, Zenon DEF Adds
<1>2. ASSUME NEW n \in 1..N PROVE g[n] = g[n - 1] + b[n]
  <2>1. n \in 0..N /\ n # 0
    OBVIOUS
  <2> QED BY <2>1, Zenon DEF Adds
<1> DEFINE T == {n \in Nat : n <= N => g[n] \in Int}
<1>3. 0 \in T
  BY <1>1
<1>4. ASSUME NEW n \in T PROVE n + 1 \in T
  <2> SUFFICES ASSUME n + 1 <= N PROVE g[n + 1] \in Int
    OBVIOUS
  <2>1. n \in Nat /\ n + 1 \in 1..N /\ (n + 1) - 1 = n /\ g[n] \in Int
    OBVIOUS
  <2>2. g[n + 1] = g[n] + b[n + 1]
    BY <1>2, <2>1
  <2>3. b[n + 1] \in Int
    BY <2>1
  <2>4. g[n] + b[n + 1] \in Int
    BY <2>1, <2>3
  <2> QED BY <2>2, <2>4
<1>5. T = Nat
  <2>1. T \in SUBSET Nat
    OBVIOUS
  <2> HIDE DEF T
  <2> QED BY <1>3, <1>4, <2>1, SetInduction
<1>6. \A n \in 0..N : g[n] \in Int
  BY <1>5
<1> QED BY <1>1, <1>2, <1>6

\* So is the sum of the weighted votes.
LEMMA WeightedInTurn ==
    ASSUME NEW votes \in Seq(Nat)
    PROVE  \E g : /\ Adds(g, Len(votes), [i \in DOMAIN votes |-> i * votes[i]])
                  /\ Measured!Weighted(votes) = g[Len(votes)]
<1> DEFINE ids == [i \in DOMAIN votes |-> i]
           b == [i \in DOMAIN votes |-> i * votes[i]]
           Iter(h) == h = [s \in SUBSET DOMAIN ids |->
                             IF s = {} THEN 0
                             ELSE h[s \ {Measured!Max(s)}] + ids[Measured!Max(s)] * votes[ids[Measured!Max(s)]]]
<1>1. Measured!Weighted(votes) = (CHOOSE h : Iter(h))[DOMAIN ids]
  BY Zenon DEF Measured!Weighted, Measured!FoldLeftDomain, Measured!FoldLeft, Measured!MapThenFoldSet
<1>2. PICK N \in Nat : N = Len(votes) /\ DOMAIN votes = 1..N /\ DOMAIN ids = 1..N
  OBVIOUS
<1>3. ASSUME NEW h PROVE Iter(h) <=> Folds(h, N, b)
  <2>1. ASSUME NEW s \in SUBSET (1..N), s # {}
        PROVE  h[s \ {Measured!Max(s)}] + b[Measured!Max(s)]
                 = h[s \ {Measured!Max(s)}] + ids[Measured!Max(s)] * votes[ids[Measured!Max(s)]]
    <3>1. PICK x \in 1..N : x = Measured!Max(s)
      BY <2>1, LastPosition
    <3>2. b[x] = x * votes[x] /\ ids[x] = x
      BY <1>2
    <3> QED BY <3>1, <3>2, Zenon
  <2>2. SUBSET DOMAIN ids = SUBSET (1..N)
    BY <1>2, Zenon
  <2> HIDE DEF ids, b
  <2> QED BY <2>1, <2>2, Zenon DEF Folds
<1> HIDE DEF Iter, b
<1>4. \E h : Folds(h, N, b)
  BY FoldExists
<1>5. PICK h : Iter(h) /\ Measured!Weighted(votes) = h[DOMAIN ids]
  BY <1>1, <1>3, <1>4, Zenon
<1>6. Folds(h, N, b)
  BY <1>3, <1>5
<1>7. \E g : Adds(g, N, b) /\ h[1..N] = g[N]
  BY <1>6, FoldsInTurn
<1> QED BY <1>2, <1>5, <1>7, Zenon DEF b

\* A sum is the last of the sums that lead to it.
LEMMA SumInTurn ==
    ASSUME NEW t \in Seq(Nat)
    PROVE  \E g : /\ Adds(g, Len(t), t)
                  /\ Measured!FoldLeft(+, 0, t) = g[Len(t)]
<1> DEFINE Iter(h) == h = [s \in SUBSET DOMAIN t |->
                             IF s = {} THEN 0
                             ELSE h[s \ {Measured!Max(s)}] + t[Measured!Max(s)]]
<1>1. Measured!FoldLeft(+, 0, t) = (CHOOSE h : Iter(h))[DOMAIN t]
  BY Zenon DEF Measured!FoldLeft, Measured!MapThenFoldSet
<1>2. PICK N \in Nat : N = Len(t) /\ DOMAIN t = 1..N
  OBVIOUS
<1>3. ASSUME NEW h PROVE Iter(h) <=> Folds(h, N, t)
  <2>2. SUBSET DOMAIN t = SUBSET (1..N)
    BY <1>2, Zenon
  <2> QED BY <2>2, Zenon DEF Folds
<1> HIDE DEF Iter
<1>4. \E h : Folds(h, N, t)
  BY FoldExists
<1>5. PICK h : Iter(h) /\ Measured!FoldLeft(+, 0, t) = h[DOMAIN t]
  BY <1>1, <1>3, <1>4, Zenon
<1>6. Folds(h, N, t)
  BY <1>3, <1>5
<1>7. \E g : Adds(g, N, t) /\ h[1..N] = g[N]
  BY <1>6, FoldsInTurn
<1> QED BY <1>2, <1>5, <1>7, Zenon

\* Running sums.
Sums(g, t, N) ==
    /\ g[0] = 0 /\ \A n \in 0..N : g[n] \in Nat
    /\ \A n \in 0..(N - 1) : g[n + 1] = g[n] + t[n + 1]

\* What was added in turn are running sums.
LEMMA AddingSums ==
    ASSUME NEW N \in Nat, NEW t \in [1..N -> Nat], NEW g, Adds(g, N, t)
    PROVE  Sums(g, t, N)
<1>1. /\ g[0] = 0
      /\ \A n \in 1..N : g[n] = g[n - 1] + t[n]
      /\ \A n \in 0..N : g[n] \in Int
  <2>1. 0 \in Int /\ \A i \in 1..N : t[i] \in Int
    OBVIOUS
  <2> QED BY <2>1, AddingSteps
<1>2. ASSUME NEW n \in 0..(N - 1) PROVE g[n + 1] = g[n] + t[n + 1]
  <2>1. n + 1 \in 1..N /\ (n + 1) - 1 = n
    OBVIOUS
  <2> QED BY <1>1, <2>1, Zenon
<1> DEFINE T == {n \in Nat : n <= N => g[n] \in Nat}
<1>3. 0 \in T
  BY <1>1
<1>4. ASSUME NEW n \in T PROVE n + 1 \in T
  <2> SUFFICES ASSUME n + 1 <= N PROVE g[n + 1] \in Nat
    OBVIOUS
  <2>1. n \in 0..(N - 1) /\ n + 1 \in 1..N /\ g[n] \in Nat
    OBVIOUS
  <2>2. g[n + 1] = g[n] + t[n + 1] /\ t[n + 1] \in Nat
    BY <1>2, <2>1
  <2> QED BY <2>1, <2>2
<1>5. T = Nat
  <2>1. T \in SUBSET Nat
    OBVIOUS
  <2> HIDE DEF T
  <2> QED BY <1>3, <1>4, <2>1, SetInduction
<1>6. \A n \in 0..N : g[n] \in Nat
  BY <1>5
<1> QED BY <1>1, <1>2, <1>6 DEF Sums

\* Products that a step adds to.
LEMMA OneMoreTime ==
    ASSUME NEW s \in Nat, NEW n \in Nat, NEW k \in Nat
    PROVE  (s + (n * k)) + n = s + (n * (k + 1))
OBVIOUS

\* A mean that is at most N stays so with votes of at most N.
LEMMA MoreAtMost ==
    ASSUME NEW N \in Nat, NEW w \in Nat, NEW g \in Nat, NEW m \in Nat, NEW x \in Nat, w <= N * g, m <= N
    PROVE  w + (m * x) <= N * (g + x)
<1>1. PICK d \in Nat : N = m + d
  BY N - m \in Nat, N = m + (N - m)
<1>2. N * (g + x) = (N * g) + (N * x)
  OBVIOUS
<1>3. N * x = (m * x) + (d * x)
  BY <1>1
<1>4. PICK mx \in Nat, dx \in Nat, ng \in Nat : mx = m * x /\ dx = d * x /\ ng = N * g
  <2>1. m * x \in Nat /\ d * x \in Nat /\ N * g \in Nat
    OBVIOUS
  <2> QED BY <2>1, Zenon
<1>5. N * (g + x) = ng + (mx + dx)
  BY <1>2, <1>3, <1>4, Zenon
<1>6. w <= ng
  BY <1>4
<1>7. w + mx <= ng + (mx + dx)
  BY <1>6
<1> QED BY <1>4, <1>5, <1>7, Zenon

\* A list that has each vote as often as it was given, in pieces c.
ListsVotes(list, c, votes, N) ==
    /\ votes \in [1..N -> Nat] /\ c \in [1..N -> Seq(Nat)]
    /\ \A i \in 1..N : Len(c[i]) = votes[i] /\ \A k \in 1..votes[i] : c[i][k] = i
    /\ list \in Seq(Nat) /\ \E p : Pieces(p, list, c, N)

\* The sums of the votes, of what they weigh and of what the list has.
CountsVotes(gv, gw, gl, votes, list, N) ==
    /\ Sums(gv, votes, N)
    /\ Sums(gw, [i \in 1..N |-> i * votes[i]], N)
    /\ Sums(gl, list, Len(list))

\* Its places are the votes so far, and its sum so far is weighted.
LEMMA VotesAreListed ==
    ASSUME NEW N \in Nat, NEW votes, NEW c, NEW list, ListsVotes(list, c, votes, N),
           NEW gv, NEW gw, NEW gl, CountsVotes(gv, gw, gl, votes, list, N)
    PROVE  /\ gv[N] = Len(list) /\ gl[Len(list)] = gw[N]
           /\ gw[N] <= N * gv[N]
           /\ gv[N] \in Nat /\ gw[N] \in Nat
<1>0. /\ votes \in [1..N -> Nat] /\ c \in [1..N -> Seq(Nat)]
      /\ \A i \in 1..N : Len(c[i]) = votes[i] /\ \A k \in 1..votes[i] : c[i][k] = i
      /\ list \in Seq(Nat)
  BY DEF ListsVotes
<1>p. PICK p : Pieces(p, list, c, N)
  BY DEF ListsVotes
<1> DEFINE w == [i \in 1..N |-> i * votes[i]]
<1>s. Sums(gv, votes, N) /\ Sums(gw, w, N) /\ Sums(gl, list, Len(list))
  BY Zenon DEF CountsVotes
<1> DEFINE T == {n \in Nat : n <= N => p[n] = gv[n] /\ gl[p[n]] = gw[n] /\ gw[n] <= N * gv[n]}
<1>1. /\ gv[0] = 0 /\ gw[0] = 0 /\ gl[0] = 0
      /\ \A n \in 0..N : gv[n] \in Nat /\ gw[n] \in Nat
      /\ \A n \in 0..Len(list) : gl[n] \in Nat
  BY <1>s, Zenon DEF Sums
<1>2. /\ p \in [0..N -> Nat] /\ p[0] = 0 /\ p[N] = Len(list)
      /\ \A i \in 1..N : p[i] = p[i - 1] + Len(c[i]) /\ p[i] <= p[N]
      /\ \A i \in 1..N : \A k \in 1..Len(c[i]) : list[p[i - 1] + k] = c[i][k]
  BY <1>p, Zenon DEF Pieces
<1>3. 0 \in T
  BY <1>1, <1>2
<1>4. ASSUME NEW n \in T PROVE n + 1 \in T
  <2> SUFFICES ASSUME n + 1 <= N
               PROVE  p[n + 1] = gv[n + 1] /\ gl[p[n + 1]] = gw[n + 1] /\ gw[n + 1] <= N * gv[n + 1]
    OBVIOUS
  <2>1. /\ n \in Nat /\ n \in 0..N /\ n \in 0..(N - 1) /\ n + 1 \in 1..N /\ (n + 1) - 1 = n
        /\ p[n] = gv[n] /\ gl[p[n]] = gw[n] /\ gw[n] <= N * gv[n]
    OBVIOUS
  <2>2. PICK v \in Nat : v = votes[n + 1]
    BY <1>0, <2>1
  <2>3. gv[n + 1] = gv[n] + v
    BY <2>1, <2>2, <1>s, Zenon DEF Sums
  <2>4. gw[n + 1] = gw[n] + ((n + 1) * v)
    <3>1. gw[n + 1] = gw[n] + w[n + 1]
      BY <2>1, <1>s, Zenon DEF Sums
    <3> HIDE DEF T
    <3> QED BY <2>1, <2>2, <3>1
  <2>5. p[n + 1] = p[n] + v /\ p[n + 1] <= Len(list)
    BY <1>0, <1>2, <2>1, <2>2
  <2>6. \A k \in 1..v : list[p[n] + k] = n + 1
    <3> SUFFICES ASSUME NEW k \in 1..v PROVE list[p[n] + k] = n + 1
      OBVIOUS
    <3>1. Len(c[n + 1]) = v /\ c[n + 1][k] = n + 1
      BY <1>0, <2>1, <2>2
    <3>2. list[p[(n + 1) - 1] + k] = c[n + 1][k]
      BY <1>2, <2>1, <3>1
    <3> QED BY <2>1, <3>1, <3>2, Zenon
  <2>7. PICK at \in Nat : at = p[n]
    BY <1>2, <2>1
  <2>8. PICK L \in Nat : L = Len(list) /\ at + v <= L
    BY <1>0, <2>5, <2>7
  <2> DEFINE S == {k \in Nat : k <= v => gl[at + k] = gw[n] + ((n + 1) * k)}
  <2>9. 0 \in S
    <3>1. gl[at + 0] = gw[n]
      BY <2>1, <2>7
    <3>2. gw[n] \in Nat
      BY <1>1, <2>1
    <3> QED BY <3>1, <3>2
  <2>10. ASSUME NEW k \in S PROVE k + 1 \in S
    <3> SUFFICES ASSUME k + 1 <= v PROVE gl[at + (k + 1)] = gw[n] + ((n + 1) * (k + 1))
      OBVIOUS
    <3>1. k \in Nat /\ k + 1 \in 1..v /\ gl[at + k] = gw[n] + ((n + 1) * k)
      OBVIOUS
    <3>2. at + k \in 0..(L - 1) /\ (at + k) + 1 = at + (k + 1)
      BY <2>8, <3>1
    <3>3. gl[(at + k) + 1] = gl[at + k] + list[(at + k) + 1]
      BY <2>8, <3>2, <1>s, Zenon DEF Sums
    <3>4. list[at + (k + 1)] = n + 1
      BY <2>6, <2>7, <3>1
    <3>5. gl[at + (k + 1)] = (gw[n] + ((n + 1) * k)) + (n + 1)
      BY <3>1, <3>2, <3>3, <3>4, Zenon
    <3>6. PICK x \in Nat, m \in Nat : x = gw[n] /\ m = n + 1
      BY <1>1, <2>1
    <3>7. (x + (m * k)) + m = x + (m * (k + 1))
      BY <3>1, OneMoreTime
    <3> QED BY <3>5, <3>6, <3>7, Zenon
  <2>11. S = Nat
    <3>1. S \in SUBSET Nat
      OBVIOUS
    <3> HIDE DEF S
    <3> QED BY <2>9, <2>10, <3>1, SetInduction
  <2>12. gl[at + v] = gw[n] + ((n + 1) * v)
    <3>1. v \in S /\ v <= v
      <4> HIDE DEF S
      <4> QED BY <2>11
    <3> QED BY <3>1, Zenon
  <2>13. gl[p[n + 1]] = gw[n + 1] /\ p[n + 1] = gv[n + 1]
    BY <2>1, <2>3, <2>4, <2>5, <2>7, <2>12, Zenon
  <2>14. gw[n + 1] <= N * gv[n + 1]
    <3>1. gw[n] \in Nat /\ gv[n] \in Nat /\ n + 1 \in Nat /\ n + 1 <= N
      BY <1>1, <2>1
    <3>2. gw[n] + ((n + 1) * v) <= N * (gv[n] + v)
      BY <2>1, <3>1, MoreAtMost, Zenon
    <3> QED BY <2>3, <2>4, <3>2, Zenon
  <2> QED BY <2>13, <2>14
<1>5. T = Nat
  <2>1. T \in SUBSET Nat
    OBVIOUS
  <2> HIDE DEF T
  <2> QED BY <1>3, <1>4, <2>1, SetInduction
<1>6. N \in T
  BY <1>5
<1> QED BY <1>1, <1>2, <1>6

\* For any votes (which an int can count): the rating of a histogram is that of the list of
\* its votes on average, is never above ten and has the votes themselves; more than ten
\* buckets are an error.
THEOREM RatingsAreMeans == \A votes \in Seq(Nat) : Measured!RatingIsTheMean(votes)
<1> SUFFICES ASSUME NEW votes \in Seq(Nat) PROVE Measured!RatingIsTheMean(votes)
  OBVIOUS
<1>1. PICK N \in Nat : N = Len(votes) /\ DOMAIN votes = 1..N /\ votes \in [1..N -> Nat]
  OBVIOUS
<1> DEFINE c == [i \in DOMAIN votes |-> [k \in 1..votes[i] |-> i]]
           list == Measured!FlattenSeq(c)
           w == [i \in DOMAIN votes |-> i * votes[i]]
           W == Measured!Weighted(votes)
           V == Measured!Voters(votes)
<1>2. /\ c \in [1..N -> Seq(Nat)]
      /\ \A i \in 1..N : Len(c[i]) = votes[i] /\ \A k \in 1..votes[i] : c[i][k] = i
  <2> SUFFICES ASSUME NEW i \in 1..N
               PROVE c[i] \in Seq(Nat) /\ Len(c[i]) = votes[i] /\ \A k \in 1..votes[i] : c[i][k] = i
    BY <1>1
  <2>1. c[i] = [k \in 1..votes[i] |-> i] /\ votes[i] \in Nat
    BY <1>1
  <2> HIDE DEF c
  <2> QED BY <2>1
<1>3. list = FlattenSeq(c)
  BY Zenon DEF Measured!FlattenSeq, FlattenSeq
<1>4. list \in Seq(Nat) /\ \E p : Pieces(p, list, c, N)
  <2>1. FlattenSeq(c) \in Seq(Nat) /\ \E p : Pieces(p, FlattenSeq(c), c, N)
    <3> HIDE DEF c
    <3> QED BY <1>2, FlattenPieces
  <2> QED BY <1>3, <2>1, Zenon
<1>5. PICK p : Pieces(p, list, c, N)
  BY <1>4
<1>6. PICK gw : Sums(gw, w, N) /\ W = gw[N]
  <2>1. PICK g : Adds(g, N, w) /\ W = g[N]
    BY <1>1, WeightedInTurn, Zenon
  <2>2. w \in [1..N -> Nat]
    BY <1>1
  <2> HIDE DEF w
  <2> QED BY <2>1, <2>2, AddingSums, Zenon
<1>7. PICK gv : Sums(gv, votes, N) /\ V = gv[N]
  <2>1. PICK g : Adds(g, N, votes) /\ V = g[N]
    BY <1>1, SumInTurn, Zenon DEF Measured!Voters
  <2> QED BY <1>1, <2>1, AddingSums, Zenon
<1>8. PICK gl : Sums(gl, list, Len(list)) /\ Measured!FoldLeft(+, 0, list) = gl[Len(list)]
  <2> HIDE DEF list
  <2>1. PICK L \in Nat : L = Len(list) /\ DOMAIN list = 1..L /\ list \in [1..L -> Nat]
    BY <1>4
  <2>2. PICK g : Adds(g, L, list) /\ Measured!FoldLeft(+, 0, list) = g[L]
    BY <1>4, <2>1, SumInTurn, Zenon
  <2> QED BY <2>1, <2>2, AddingSums, Zenon
<1> HIDE DEF c, list, W, V
<1>9. V = Len(list) /\ Measured!FoldLeft(+, 0, list) = W /\ W <= N * V /\ V \in Nat /\ W \in Nat
  <2>1. w = [i \in 1..N |-> i * votes[i]]
    BY <1>1
  <2>3. /\ gv[N] = Len(list) /\ gl[Len(list)] = gw[N] /\ gw[N] <= N * gv[N] /\ gv[N] \in Nat /\ gw[N] \in Nat
    <3>1. ListsVotes(list, c, votes, N)
      BY <1>1, <1>2, <1>4, <1>5, Zenon DEF ListsVotes
    <3>2. CountsVotes(gv, gw, gl, votes, list, N)
      BY <1>6, <1>7, <1>8, <2>1, Zenon DEF CountsVotes
    <3> QED BY <3>1, <3>2, VotesAreListed
  <2> QED BY <1>6, <1>7, <1>8, <2>3, Zenon
<1> DEFINE rating == Measured!FromDistribution(votes)
           mean == Measured!FromScore(W, N * V, <<V>>)
<1>10. N > 10 => rating = "logic_error"
  BY <1>1 DEF Measured!FromDistribution
<1>11. ASSUME ~(N > 10)
       PROVE  /\ Measured!SameRatio(rating.score, mean.score)
              /\ rating.raters = mean.raters
              /\ Measured!AtMost(rating.score, 10)
              /\ rating.distribution = <<votes>>
  <2> DEFINE stored == [i \in 1..10 |-> IF i <= N THEN votes[i] ELSE 0]
  <2>1. /\ rating.score = Measured!Ratio(W * 10, V * N)
        /\ rating.raters = <<V>>
        /\ rating.distribution = <<SubSeq(stored, 1, N)>>
    BY <1>1, <1>11 DEF Measured!FromDistribution, W, V
  <2>2. mean.score = Measured!Ratio(W * 10, N * V) /\ mean.raters = <<V>>
    BY DEF Measured!FromScore
  <2>3. V * N = N * V /\ N * V \in Nat /\ W * 10 \in Nat
    <3>1. \A x, y \in Nat : x * y = y * x /\ x * y \in Nat
      OBVIOUS
    <3>2. 10 \in Nat
      OBVIOUS
    <3> QED BY <1>9, <3>1, <3>2, Zenon
  <2>4. rating.score = mean.score
    BY <2>1, <2>2, <2>3, Zenon
  <2>5. PICK q : q = rating.score /\ q.num \in Nat /\ q.den \in Nat /\ q.num <= 10 * q.den
    <3>1. PICK x \in Nat : x = N * V
      BY <2>3
    <3>2. rating.score = Measured!Ratio(W * 10, x)
      BY <2>1, <2>3, <3>1, Zenon
    <3>3. W <= x
      BY <1>9, <3>1
    <3> DEFINE r == Measured!Ratio(W * 10, x)
    <3>4. PICK y \in Nat : y = W
      BY <1>9
    <3>5. r = IF x = 0 THEN [num |-> 0, den |-> 1] ELSE [num |-> y * 10, den |-> x]
      BY <3>4, Zenon DEF Measured!Ratio
    <3>6. y <= x
      BY <3>3, <3>4
    <3> HIDE DEF rating, r
    <3>7. r.num \in Nat /\ r.den \in Nat /\ r.num <= 10 * r.den
      BY <3>5, <3>6
    <3>8. rating.score = r
      BY <3>2, Zenon DEF r
    <3> QED BY <3>7, <3>8
  <2>6. SubSeq(stored, 1, N) = votes
    BY <1>1, <1>11
  <2> HIDE DEF rating, mean
  <2>7. Measured!SameRatio(rating.score, mean.score)
    BY <2>4, <2>5 DEF Measured!SameRatio
  <2>8. Measured!AtMost(rating.score, 10)
    BY <2>5 DEF Measured!AtMost
  <2> QED BY <2>1, <2>2, <2>6, <2>7, <2>8, Zenon
<1> HIDE DEF rating, mean
<1>12. IF N > 10 THEN rating = "logic_error"
       ELSE /\ Measured!SameRatio(rating.score, mean.score)
            /\ rating.raters = mean.raters
            /\ Measured!AtMost(rating.score, 10)
            /\ rating.distribution = <<votes>>
  BY <1>10, <1>11
<1> QED BY <1>1, <1>9, <1>12, Zenon DEF Measured!RatingIsTheMean, rating, mean, list, c

=============================================================================
