-------------------------- MODULE RoutingTableProofs --------------------------
(***************************************************************************)
(* The routing table of Kademlia, for any contacts, addresses and depth of  *)
(* the tree: the leaves divide the distances, every contact is once in its  *)
(* leaf, the counts per address and the set of all contacts are those of    *)
(* the bins, nobody but the dead leaves, contacts are verified by answers   *)
(* from where they are, and lookups find the nearest.                       *)
(*                                                                          *)
(* A zone is a word of bits, so the first part is about words and prefixes. *)
(* The parts after it are about the operators of the tree, for any bins;    *)
(* each action then keeps the invariant because its operators do.           *)
(***************************************************************************)
EXTENDS RoutingTable, FiniteSetTheorems, SequenceTheorems, WellFoundedInduction,
        TLAPS

\* A non-empty set of naturals has a least element.
LEMMA LeastNatural ==
  ASSUME NEW T \in SUBSET Nat, T # {}
  PROVE  \E m \in T : \A k \in T : m <= k
<1> DEFINE less == OpToRel(<, Nat)
<1>1. less = {p \in Nat \X Nat : p[1] < p[2]}
  BY DEF OpToRel
<1>2. PICK m \in T : \A k \in T : <<k, m>> \notin less
  BY NatLessThanWellFounded, WFMin
<1>3. ASSUME NEW k \in T PROVE m <= k
  <2>1. <<k, m>> \in Nat \X Nat /\ <<k, m>> \notin less
    BY <1>2
  <2>2. ~ (k < m)
    BY <2>1, <1>1
  <2> QED BY <2>2
<1> QED BY <1>3

\* ... and a bounded one has a greatest.
LEMMA GreatestNatural ==
  ASSUME NEW n \in Nat, NEW T \in SUBSET 0..n, T # {}
  PROVE  \E m \in T : \A k \in T : k <= m
<1> DEFINE U == {n - k : k \in T}
<1>0. \A k \in T : k \in 0..n /\ n - k \in Nat
  OBVIOUS
<1>1. U \in SUBSET Nat /\ U # {}
  BY <1>0
<1>2. PICK u \in U : \A v \in U : u <= v
  <2> HIDE DEF U
  <2> QED BY <1>1, LeastNatural
<1>3. n - u \in T
  <2>1. PICK k \in T : u = n - k
    OBVIOUS
  <2> QED BY <1>0, <2>1
<1>4. ASSUME NEW k \in T PROVE k <= n - u
  <2>1. n - k \in U
    OBVIOUS
  <2>2. u <= n - k
    BY <1>2, <2>1
  <2> QED BY <2>2, <1>0, <1>1
<1> QED BY <1>3, <1>4

LEMMA LevelsAreNatural == MaxLevel \in Nat /\ MaxLevel > 0
BY RoutingAssumption

-----------------------------------------------------------------------------
(***************************************************************************)
(* Words.                                                                   *)
(***************************************************************************)
\* The words of length n: the zones of level n.
Word(n) == [1..n -> {0, 1}]
Words   == UNION {Word(n) : n \in 0..MaxLevel}

\* A word is a sequence of its length.
LEMMA WordIs ==
  ASSUME NEW n \in Nat, NEW w \in Word(n)
  PROVE  /\ w \in Seq({0, 1}) /\ Len(w) = n /\ DOMAIN w = 1..n
         /\ \A i \in 1..n : w[i] \in {0, 1}
<1>1. w \in Seq({0, 1}) /\ DOMAIN w = 1..n
  BY SeqDef DEF Word
<1>2. Len(w) = n
  BY <1>1, LenProperties
<1> QED BY <1>1, <1>2 DEF Word

LEMMA WordEqual ==
  ASSUME NEW n \in Nat, NEW v \in Word(n), NEW w \in Word(n),
         \A i \in 1..n : v[i] = w[i]
  PROVE  v = w
BY DEF Word

LEMMA RootIs == Root \in Word(0) /\ \A w \in Word(0) : w = Root
<1>1. Root \in Word(0)
  BY DEF Root, Word
<1> QED BY <1>1, WordEqual

\* The first m bits of w.
LEMMA PrefixIs ==
  ASSUME NEW n \in Nat, NEW w \in Word(n), NEW m \in 0..n
  PROVE  /\ Prefix(w, m) \in Word(m)
         /\ \A i \in 1..m : Prefix(w, m)[i] = w[i]
<1>1. \A i \in 1..m : w[i] \in {0, 1}
  BY WordIs
<1>2. /\ SubSeq(w, 1, m) \in Seq({0, 1}) /\ Len(SubSeq(w, 1, m)) = m
      /\ \A i \in 1..m : SubSeq(w, 1, m)[i] = w[i]
  BY <1>1, SubSeqProperties
<1>3. SubSeq(w, 1, m) \in [1..m -> {0, 1}]
  BY <1>2, LenProperties
<1> QED BY <1>2, <1>3 DEF Prefix, Word

\* z covers w if it is a prefix of it.
LEMMA CoversIs ==
  ASSUME NEW m \in Nat, NEW z \in Word(m), NEW n \in Nat, NEW w \in Word(n)
  PROVE  Covers(z, w) <=> m <= n /\ \A i \in 1..m : z[i] = w[i]
<1>1. Len(z) = m /\ Len(w) = n
  BY WordIs
<1>2. CASE m <= n
  <2>1. Prefix(w, m) \in Word(m) /\ \A i \in 1..m : Prefix(w, m)[i] = w[i]
    BY <1>2, PrefixIs
  <2>2. Prefix(w, m) = z <=> \A i \in 1..m : z[i] = w[i]
    <3>1. ASSUME \A i \in 1..m : z[i] = w[i] PROVE Prefix(w, m) = z
      BY <2>1, <3>1, WordEqual
    <3> QED BY <2>1, <3>1
  <2> QED BY <1>1, <1>2, <2>2 DEF Covers
<1>3. CASE ~(m <= n)
  BY <1>1, <1>3 DEF Covers
<1> QED BY <1>2, <1>3

\* The word that parts from w at bit m.
LEMMA SiblingIs ==
  ASSUME NEW n \in Nat, NEW w \in Word(n), NEW m \in 1..n
  PROVE  /\ Sibling(w, m) \in Word(m)
         /\ \A i \in 1..m - 1 : Sibling(w, m)[i] = w[i]
         /\ Sibling(w, m)[m] = 1 - w[m]
<1>1. Prefix(w, m) \in Word(m) /\ \A i \in 1..m : Prefix(w, m)[i] = w[i]
  BY PrefixIs
<1>2. w[m] \in {0, 1}
  BY WordIs
<1> HIDE DEF Prefix
<1> QED BY <1>1, <1>2 DEF Sibling, Word

\* The two halves of a zone.
LEMMA HalfIs ==
  ASSUME NEW n \in Nat, NEW w \in Word(n), NEW b \in {0, 1}
  PROVE  /\ Append(w, b) \in Word(n + 1)
         /\ \A i \in 1..n : Append(w, b)[i] = w[i]
         /\ Append(w, b)[n + 1] = b
<1>1. w \in Seq({0, 1}) /\ Len(w) = n
  BY WordIs
<1>2. /\ Append(w, b) \in Seq({0, 1}) /\ Len(Append(w, b)) = n + 1
      /\ \A i \in 1..n : Append(w, b)[i] = w[i]
      /\ Append(w, b)[n + 1] = b
  BY <1>1, AppendProperties
<1>3. Append(w, b) \in [1..n + 1 -> {0, 1}]
  BY <1>2, LenProperties
<1> QED BY <1>2, <1>3 DEF Word

\* The identifiers are words of the full length.
LEMMA IdIs == \A d \in Ids : d \in Word(MaxLevel)
BY RoutingAssumption DEF Word, Bits

\* A zone has a level.
LEMMA ZoneIs ==
  ASSUME NEW z \in Words
  PROVE  /\ Len(z) \in 0..MaxLevel /\ z \in Word(Len(z))
<1>1. PICK n \in 0..MaxLevel : z \in Word(n)
  BY DEF Words
<1>2. Len(z) = n
  BY <1>1, LevelsAreNatural, WordIs
<1> QED BY <1>1, <1>2

-----------------------------------------------------------------------------
(***************************************************************************)
(* The entries of a bin.                                                    *)
(***************************************************************************)
\* Nobody is twice in q.
Distinct(q) == \A i, j \in DOMAIN q : q[i] = q[j] => i = j

LEMMA EntriesIs ==
  ASSUME NEW A, NEW q \in Seq(A)
  PROVE  /\ DOMAIN q = 1..Len(q) /\ Len(q) \in Nat
         /\ Entries(q) = {q[i] : i \in 1..Len(q)}
         /\ Entries(q) \subseteq A
BY LenProperties DEF Entries

LEMMA EmptyBin == <<>> \in Seq(Ids) /\ Len(<<>>) = 0 /\ Entries(<<>>) = {} /\ Distinct(<<>>)
BY EmptySeq DEF Entries, Distinct

\* In a bin without duplicates there are as many entries as places.
LEMMA PlacesCount ==
  ASSUME NEW A, NEW q \in Seq(A)
  PROVE  /\ IsFiniteSet(Entries(q))
         /\ Distinct(q) <=> Len(q) = Cardinality(Entries(q))
<1>1. q \in [1..Len(q) -> Entries(q)] /\ DOMAIN q = 1..Len(q) /\ Len(q) \in Nat
  BY LenProperties, EntriesIs
<1>2. q \in Surjection(1..Len(q), Entries(q))
  BY <1>1, EntriesIs DEF Surjection
<1>3. IsFiniteSet(1..Len(q)) /\ Cardinality(1..Len(q)) = Len(q)
  <2>1. Len(q) \in Int /\ 1 \in Int
    BY <1>1
  <2>2. Cardinality(1..Len(q)) = IF 1 > Len(q) THEN 0 ELSE Len(q) - 1 + 1
    BY <2>1, FS_Interval
  <2>3. IsFiniteSet(1..Len(q))
    BY <2>1, FS_Interval
  <2> QED BY <1>1, <2>2, <2>3
<1>4. /\ IsFiniteSet(Entries(q))
      /\ Cardinality(Entries(q)) = Cardinality(1..Len(q)) <=> q \in Injection(1..Len(q), Entries(q))
  BY <1>2, <1>3, FS_Surjection
<1>5. q \in Injection(1..Len(q), Entries(q)) <=> Distinct(q)
  BY <1>1 DEF Injection, IsInjective, Distinct
<1> QED BY <1>3, <1>4, <1>5

LEMMA AppendIs ==
  ASSUME NEW A, NEW q \in Seq(A), NEW d \in A
  PROVE  /\ Append(q, d) \in Seq(A) /\ Len(Append(q, d)) = Len(q) + 1
         /\ Entries(Append(q, d)) = Entries(q) \cup {d}
         /\ Distinct(q) /\ d \notin Entries(q) => Distinct(Append(q, d))
<1> DEFINE p == Append(q, d)
<1>1. /\ p \in Seq(A) /\ Len(p) = Len(q) + 1
      /\ \A i \in 1..Len(q) : p[i] = q[i]
      /\ p[Len(q) + 1] = d
  BY AppendProperties
<1>2. /\ Entries(q) = {q[i] : i \in 1..Len(q)} /\ DOMAIN q = 1..Len(q) /\ Len(q) \in Nat
      /\ Entries(p) = {p[i] : i \in 1..Len(p)} /\ DOMAIN p = 1..Len(p)
  BY <1>1, EntriesIs
<1> HIDE DEF p
<1>3. Entries(p) = Entries(q) \cup {d}
  <2>1. 1..Len(p) = (1..Len(q)) \cup {Len(q) + 1}
    BY <1>1, <1>2
  <2> QED BY <1>1, <1>2, <2>1
<1>4. ASSUME Distinct(q), d \notin Entries(q) PROVE Distinct(p)
  BY <1>1, <1>2, <1>4 DEF Distinct
<1> QED BY <1>1, <1>3, <1>4 DEF p

LEMMA ConcatIs ==
  ASSUME NEW A, NEW p \in Seq(A), NEW q \in Seq(A)
  PROVE  /\ p \o q \in Seq(A) /\ Len(p \o q) = Len(p) + Len(q)
         /\ Entries(p \o q) = Entries(p) \cup Entries(q)
         /\ Distinct(p) /\ Distinct(q) /\ Entries(p) \cap Entries(q) = {} => Distinct(p \o q)
<1> DEFINE r == p \o q
<1>1. /\ r \in Seq(A) /\ Len(r) = Len(p) + Len(q)
      /\ \A i \in 1..Len(p) + Len(q) : r[i] = IF i <= Len(p) THEN p[i] ELSE q[i - Len(p)]
  BY ConcatProperties
<1>2. /\ Entries(q) = {q[i] : i \in 1..Len(q)} /\ DOMAIN q = 1..Len(q) /\ Len(q) \in Nat
      /\ Entries(p) = {p[i] : i \in 1..Len(p)} /\ DOMAIN p = 1..Len(p) /\ Len(p) \in Nat
      /\ Entries(r) = {r[i] : i \in 1..Len(r)} /\ DOMAIN r = 1..Len(r)
  BY <1>1, EntriesIs
<1> HIDE DEF r
<1>3. \A i \in 1..Len(p) : i \in 1..Len(r) /\ r[i] = p[i]
  BY <1>1, <1>2
<1>4. \A i \in 1..Len(q) : i + Len(p) \in 1..Len(r) /\ r[i + Len(p)] = q[i]
  BY <1>1, <1>2
<1>5. \A i \in 1..Len(r) :
         \/ i \in 1..Len(p) /\ r[i] = p[i]
         \/ i - Len(p) \in 1..Len(q) /\ r[i] = q[i - Len(p)]
  BY <1>1, <1>2
<1>6. Entries(r) = Entries(p) \cup Entries(q)
  BY <1>2, <1>3, <1>4, <1>5
<1>7. ASSUME Distinct(p), Distinct(q), Entries(p) \cap Entries(q) = {} PROVE Distinct(r)
  <2> SUFFICES ASSUME NEW i \in 1..Len(r), NEW j \in 1..Len(r), r[i] = r[j] PROVE i = j
    BY <1>2 DEF Distinct
  <2>1. CASE i \in 1..Len(p) /\ r[i] = p[i]
    <3>1. ~(j - Len(p) \in 1..Len(q) /\ r[j] = q[j - Len(p)])
      BY <1>2, <1>7, <2>1
    <3>2. j \in 1..Len(p) /\ r[j] = p[j]
      BY <1>5, <3>1
    <3> QED BY <1>2, <1>7, <2>1, <3>2 DEF Distinct
  <2>2. CASE i - Len(p) \in 1..Len(q) /\ r[i] = q[i - Len(p)]
    <3>1. ~(j \in 1..Len(p) /\ r[j] = p[j])
      BY <1>2, <1>7, <2>2
    <3>2. j - Len(p) \in 1..Len(q) /\ r[j] = q[j - Len(p)]
      BY <1>5, <3>1
    <3>3. i - Len(p) = j - Len(p)
      BY <1>2, <1>7, <2>2, <3>2 DEF Distinct
    <3> QED BY <1>1, <1>2, <3>3
  <2> QED BY <1>5, <2>1, <2>2
<1> QED BY <1>1, <1>6, <1>7 DEF r

\* PushToBottom moves an entry and keeps them all.
LEMMA PushIs ==
  ASSUME NEW A, NEW q \in Seq(A), NEW d \in Entries(q)
  PROVE  /\ PushToBottom(q, d) \in Seq(A) /\ Len(PushToBottom(q, d)) = Len(q)
         /\ Entries(PushToBottom(q, d)) = Entries(q)
         /\ Distinct(q) => Distinct(PushToBottom(q, d))
<1>1. DOMAIN q = 1..Len(q) /\ Len(q) \in Nat /\ Entries(q) = {q[i] : i \in 1..Len(q)}
      /\ Entries(q) \subseteq A
  BY EntriesIs
<1> DEFINE n == Len(q)
           i == CHOOSE i \in DOMAIN q : q[i] = d
           p == PushToBottom(q, d)
<1>2. i \in 1..n /\ q[i] = d
  BY <1>1
<1>3. p = [j \in 1..n |-> IF j < i THEN q[j] ELSE IF j < n THEN q[j + 1] ELSE d]
  BY <1>1 DEF PushToBottom
<1>4. n \in Nat /\ DOMAIN q = 1..n /\ Entries(q) = {q[j] : j \in 1..n}
  BY <1>1
<1>5. d \in A /\ \A j \in 1..n : q[j] \in A
  BY <1>1
<1> HIDE DEF n, i, p
<1>6. /\ \A j \in 1..n : j < i => p[j] = q[j]
      /\ \A j \in 1..n : ~(j < i) /\ j < n => p[j] = q[j + 1] /\ j + 1 \in 1..n
      /\ p[n] = d /\ n \in 1..n
      /\ DOMAIN p = 1..n
  BY <1>2, <1>3, <1>4
<1>7. p \in [1..n -> A]
  <2>1. \A j \in 1..n : p[j] \in A
    BY <1>2, <1>4, <1>5, <1>6
  <2> QED BY <1>3, <2>1
<1>8. p \in Seq(A) /\ Len(p) = n
  <2>1. p \in Seq(A)
    BY <1>4, <1>7, SeqDef
  <2> QED BY <1>4, <1>6, <2>1, LenProperties
<1>9. Entries(p) = {p[j] : j \in 1..n}
  BY <1>8, EntriesIs
<1>10. \A j \in 1..n : \E k \in 1..n : p[j] = q[k]
  BY <1>2, <1>4, <1>6
<1>11. \A k \in 1..n : \E j \in 1..n : p[j] = q[k]
  <2> SUFFICES ASSUME NEW k \in 1..n PROVE \E j \in 1..n : p[j] = q[k]
    OBVIOUS
  <2>1. CASE k < i
    BY <1>6, <2>1
  <2>2. CASE k = i
    BY <1>2, <1>6, <2>2
  <2>3. CASE k > i
    <3>1. k - 1 \in 1..n /\ ~(k - 1 < i) /\ k - 1 < n /\ (k - 1) + 1 = k
      BY <1>2, <1>4, <2>3
    <3> QED BY <1>6, <3>1
  <2> QED BY <1>2, <1>4, <2>1, <2>2, <2>3
<1>12. Entries(p) = Entries(q)
  <2>1. ASSUME NEW e \in Entries(p) PROVE e \in Entries(q)
    <3>1. PICK j \in 1..n : e = p[j]
      BY <1>9
    <3> QED BY <1>4, <1>10, <3>1
  <2>2. ASSUME NEW e \in Entries(q) PROVE e \in Entries(p)
    <3>1. PICK k \in 1..n : e = q[k]
      BY <1>4
    <3> QED BY <1>9, <1>11, <3>1
  <2> QED BY <2>1, <2>2
<1>13. ASSUME Distinct(q) PROVE Distinct(p)
  <2>1. Len(q) = Cardinality(Entries(q))
    BY <1>13, PlacesCount
  <2>2. Len(p) = Cardinality(Entries(p))
    BY <1>8, <1>12, <2>1 DEF n
  <2> QED BY <1>8, <2>2, PlacesCount
<1> QED BY <1>8, <1>12, <1>13 DEF p, n

\* What the recursion of Filter does, up to place n, with a candidate for its function.
FilteringTo(q, S, n, f) ==
  [i \in 0..n |-> IF i = 0 THEN <<>>
                  ELSE IF q[i] \in S THEN Append(f[i - 1], q[i])
                  ELSE f[i - 1]]

\* There is a function that Filter's recursion defines.
LEMMA FilterExists ==
  ASSUME NEW q, NEW S, NEW n \in Nat
  PROVE  \E f : f = FilteringTo(q, S, n, f)
<1> DEFINE Solves(f, m) == f = FilteringTo(q, S, m, f)
           Unsolved == {m \in Nat : ~\E f : Solves(f, m)}
<1> SUFFICES ASSUME Unsolved # {} PROVE FALSE
  OBVIOUS
<1>1. Unsolved \in SUBSET Nat
  OBVIOUS
<1>2. PICK m \in Unsolved : \A k \in Unsolved : m <= k
  <2> HIDE DEF Unsolved
  <2> QED BY <1>1, LeastNatural
<1>3. m \in Nat /\ ~\E f : Solves(f, m)
  OBVIOUS
<1>4. CASE m = 0
  <2> DEFINE g == [k \in 0..0 |-> <<>>]
  <2>1. g = FilteringTo(q, S, 0, g)
    BY DEF FilteringTo
  <2> QED BY <1>3, <1>4, <2>1
<1>5. CASE m # 0
  <2>1. m - 1 \in Nat /\ m - 1 \notin Unsolved
    <3> HIDE DEF Unsolved
    <3> QED BY <1>2, <1>3, <1>5
  <2>2. PICK f : Solves(f, m - 1)
    BY <2>1
  <2> DEFINE last == IF q[m] \in S THEN Append(f[m - 1], q[m]) ELSE f[m - 1]
             g == [k \in 0..m |-> IF k = m THEN last ELSE f[k]]
             h == FilteringTo(q, S, m, g)
  <2>3. ASSUME NEW k \in 0..m PROVE g[k] = h[k]
    <3>1. CASE k = m
      <4>1. m - 1 \in 0..m /\ m - 1 # m
        BY <1>3, <2>1
      <4>2. g[m - 1] = f[m - 1]
        BY <4>1
      <4>3. g[k] = last
        BY <3>1
      <4>4. h[k] = IF q[m] \in S THEN Append(g[m - 1], q[m]) ELSE g[m - 1]
        BY <3>1, <1>5 DEF FilteringTo
      <4> HIDE DEF g, h
      <4> QED BY <4>2, <4>3, <4>4
    <3>2. CASE k # m
      <4>1. k \in 0..m - 1 /\ g[k] = f[k]
        BY <1>3, <3>2
      <4>2. f[k] = IF k = 0 THEN <<>> ELSE IF q[k] \in S THEN Append(f[k - 1], q[k])
                   ELSE f[k - 1]
        BY <2>2, <4>1 DEF FilteringTo
      <4>3. k # 0 => k - 1 \in 0..m /\ k - 1 # m
        BY <1>3, <3>2
      <4>4. k # 0 => g[k - 1] = f[k - 1]
        BY <4>3
      <4>5. h[k] = IF k = 0 THEN <<>> ELSE IF q[k] \in S THEN Append(g[k - 1], q[k])
                   ELSE g[k - 1]
        BY DEF FilteringTo
      <4> HIDE DEF g, h
      <4> QED BY <4>1, <4>2, <4>4, <4>5
    <3> QED BY <3>1, <3>2
  <2>4. g = h
    <3>1. g = [k \in 0..m |-> g[k]] /\ h = [k \in 0..m |-> h[k]]
      BY DEF FilteringTo
    <3> HIDE DEF g, h
    <3> QED BY <2>3, <3>1
  <2>5. Solves(g, m)
    BY <2>4
  <2> QED BY <1>3, <2>5
<1> QED BY <1>4, <1>5

\* Filter keeps the entries that are in U, each as often as it is in q.
LEMMA FilterIs ==
  ASSUME NEW A, NEW q \in Seq(A), NEW U
  PROVE  /\ Filter(q, U) \in Seq(A)
         /\ Entries(Filter(q, U)) = Entries(q) \cap U
         /\ Distinct(q) => Distinct(Filter(q, U))
<1> DEFINE n == Len(q)
           F == CHOOSE f : f = FilteringTo(q, U, n, f)
<1>1. Filter(q, U) = F[n]
  BY DEF Filter, FilteringTo
<1>2. n \in Nat /\ DOMAIN q = 1..n /\ Entries(q) = {q[i] : i \in 1..n} /\ \A i \in 1..n : q[i] \in A
  BY EntriesIs
<1>3. F = FilteringTo(q, U, n, F)
  BY <1>2, FilterExists
<1> HIDE DEF F, n
<1>4. F[0] = <<>>
  <2>1. 0 \in 0..n
    BY <1>2
  <2>2. FilteringTo(q, U, n, F)[0] = <<>>
    BY <2>1 DEF FilteringTo
  <2> QED BY <1>3, <2>2
<1>5. \A i \in 1..n : F[i] = IF q[i] \in U THEN Append(F[i - 1], q[i]) ELSE F[i - 1]
  <2> SUFFICES ASSUME NEW i \in 1..n
               PROVE  F[i] = IF q[i] \in U THEN Append(F[i - 1], q[i]) ELSE F[i - 1]
    OBVIOUS
  <2>1. i \in 0..n /\ i # 0
    BY <1>2
  <2>2. FilteringTo(q, U, n, F)[i] = IF q[i] \in U THEN Append(F[i - 1], q[i]) ELSE F[i - 1]
    BY <2>1 DEF FilteringTo
  <2> QED BY <1>3, <2>2
<1> DEFINE Kept(k) == /\ F[k] \in Seq(A)
                      /\ Entries(F[k]) = {q[i] : i \in 1..k} \cap U
                      /\ Distinct(q) => Distinct(F[k])
           Bad == {k \in 0..n : ~Kept(k)}
<1>6. Kept(0)
  <2>1. {q[i] : i \in 1..0} = {}
    OBVIOUS
  <2>2. <<>> \in Seq(A) /\ Entries(<<>>) = {} /\ Distinct(<<>>)
    BY EmptySeq, EmptyBin
  <2> QED BY <1>4, <2>1, <2>2
<1>7. ASSUME NEW k \in 1..n, Kept(k - 1) PROVE Kept(k)
  <2>1. 1..k = (1..k - 1) \cup {k} /\ k \notin 1..k - 1 /\ 1..k - 1 \subseteq 1..n
    BY <1>2
  <2>2. {q[i] : i \in 1..k} = {q[i] : i \in 1..k - 1} \cup {q[k]}
    BY <2>1
  <2>3. CASE q[k] \in U
    <3>1. F[k] = Append(F[k - 1], q[k]) /\ q[k] \in A
      BY <1>2, <1>5, <2>3
    <3>2. Distinct(q) => q[k] \notin {q[i] : i \in 1..k - 1}
      BY <1>2, <2>1 DEF Distinct
    <3>3. Distinct(q) => q[k] \notin Entries(F[k - 1])
      BY <1>7, <3>2
    <3>4. F[k - 1] \in Seq(A) /\ (Distinct(q) => Distinct(F[k - 1]))
      BY <1>7
    <3>5. /\ Append(F[k - 1], q[k]) \in Seq(A)
          /\ Entries(Append(F[k - 1], q[k])) = Entries(F[k - 1]) \cup {q[k]}
          /\ Distinct(F[k - 1]) /\ q[k] \notin Entries(F[k - 1]) =>
               Distinct(Append(F[k - 1], q[k]))
      BY <3>1, <3>4, AppendIs
    <3>6. Entries(F[k]) = {q[i] : i \in 1..k} \cap U
      BY <1>7, <2>2, <2>3, <3>1, <3>5
    <3> QED BY <3>1, <3>3, <3>4, <3>5, <3>6
  <2>4. CASE q[k] \notin U
    <3>1. F[k] = F[k - 1]
      BY <1>5, <2>4
    <3>2. Entries(F[k]) = {q[i] : i \in 1..k} \cap U
      BY <1>7, <2>2, <2>4, <3>1
    <3> QED BY <1>7, <3>1, <3>2
  <2> QED BY <2>3, <2>4
<1>8. ASSUME Bad # {} PROVE FALSE
  <2>1. Bad \in SUBSET Nat
    OBVIOUS
  <2>2. PICK k \in Bad : \A j \in Bad : k <= j
    <3> HIDE DEF Bad
    <3> QED BY <1>8, <2>1, LeastNatural
  <2>3. k \in 0..n /\ ~Kept(k)
    OBVIOUS
  <2>4. k # 0
    BY <1>6, <2>3
  <2>5. k \in 1..n /\ k - 1 \in 0..n /\ k - 1 < k
    BY <1>2, <2>3, <2>4
  <2>6. k - 1 \notin Bad
    <3> HIDE DEF Bad
    <3> QED BY <2>2, <2>5
  <2>7. Kept(k - 1)
    BY <2>5, <2>6
  <2> HIDE DEF Kept
  <2> QED BY <1>7, <2>3, <2>5, <2>7
<1>9. Kept(n)
  <2>1. n \in 0..n
    BY <1>2
  <2> QED BY <1>8, <2>1
<1> QED BY <1>1, <1>2, <1>9

-----------------------------------------------------------------------------
(***************************************************************************)
(* The tree.                                                                *)
(***************************************************************************)
\* The zones of L divide the distances between them.
Divides(L) ==
  /\ L \subseteq Words
  /\ \A d \in Word(MaxLevel) : \E z \in L : Covers(z, d)
  /\ \A d \in Word(MaxLevel) : \A x, z \in L : Covers(x, d) /\ Covers(z, d) => x = z

\* A bin that zone z may have.
Bin(z, q) ==
  /\ q \in Seq(Ids) /\ Distinct(q) /\ Len(q) <= K
  /\ \A d \in Entries(q) : Covers(z, d)

\* EachInItsZone, of any bins.
Tree(B) ==
  /\ Divides(DOMAIN B)
  /\ \A z \in DOMAIN B : Bin(z, B[z])
  /\ \A p \in Branches(B) : MaySplit(p)

\* Every zone holds some distance.
LEMMA SomeDistance ==
  ASSUME NEW n \in 0..MaxLevel, NEW z \in Word(n)
  PROVE  \E d \in Word(MaxLevel) : Covers(z, d)
<1> DEFINE d == [i \in 1..MaxLevel |-> IF i <= n THEN z[i] ELSE 0]
<1>1. n \in Nat /\ n <= MaxLevel /\ MaxLevel \in Nat
  BY LevelsAreNatural
<1>2. d \in Word(MaxLevel)
  BY <1>1, WordIs DEF Word
<1>3. \A i \in 1..n : z[i] = d[i]
  BY <1>1
<1>4. Covers(z, d)
  BY <1>1, <1>2, <1>3, CoversIs
<1> QED BY <1>2, <1>4

\* A prefix of a prefix covers what that covers.
LEMMA CoversTransitive ==
  ASSUME NEW x \in Words, NEW z \in Words, NEW d \in Word(MaxLevel),
         Covers(x, z), Covers(z, d)
  PROVE  Covers(x, d)
<1> DEFINE m == Len(x)
           n == Len(z)
<1>1. m \in Nat /\ n \in Nat /\ x \in Word(m) /\ z \in Word(n) /\ MaxLevel \in Nat
  BY ZoneIs, LevelsAreNatural
<1> HIDE DEF m, n
<1>2. m <= n /\ \A i \in 1..m : x[i] = z[i]
  BY <1>1, CoversIs
<1>3. n <= MaxLevel /\ \A i \in 1..n : z[i] = d[i]
  BY <1>1, CoversIs
<1>4. m <= MaxLevel /\ \A i \in 1..m : x[i] = d[i]
  BY <1>1, <1>2, <1>3
<1> QED BY <1>1, <1>4, CoversIs

\* Of two zones that hold one distance the larger covers the smaller.
LEMMA CoversCompare ==
  ASSUME NEW x \in Words, NEW z \in Words, NEW d \in Word(MaxLevel),
         Covers(x, d), Covers(z, d), Len(x) <= Len(z)
  PROVE  Covers(x, z) /\ Prefix(z, Len(x)) = x
<1> DEFINE m == Len(x)
           n == Len(z)
<1>1. m \in Nat /\ n \in Nat /\ x \in Word(m) /\ z \in Word(n) /\ MaxLevel \in Nat /\ m <= n
  BY ZoneIs, LevelsAreNatural
<1>2. Covers(x, z)
  <2> HIDE DEF m, n
  <2>1. m <= MaxLevel /\ \A i \in 1..m : x[i] = d[i]
    BY <1>1, CoversIs
  <2>2. n <= MaxLevel /\ \A i \in 1..n : z[i] = d[i]
    BY <1>1, CoversIs
  <2>3. \A i \in 1..m : x[i] = z[i]
    BY <1>1, <2>1, <2>2
  <2> QED BY <1>1, <2>3, CoversIs
<1> QED BY <1>2 DEF Covers

\* No leaf is inside another.
LEMMA NoLeafAbove ==
  ASSUME NEW L, Divides(L), NEW x \in L, NEW z \in L, Covers(x, z)
  PROVE  x = z
<1>1. x \in Words /\ z \in Words /\ Len(z) \in 0..MaxLevel /\ z \in Word(Len(z))
  BY ZoneIs DEF Divides
<1>2. PICK d \in Word(MaxLevel) : Covers(z, d)
  BY <1>1, SomeDistance
<1>3. Covers(x, d)
  BY <1>1, <1>2, CoversTransitive
<1> QED BY <1>2, <1>3 DEF Divides

\* LeafOf is the one leaf whose zone holds d.
LEMMA LeafIs ==
  ASSUME NEW B, Divides(DOMAIN B), NEW d \in Word(MaxLevel)
  PROVE  /\ LeafOf(B, d) \in DOMAIN B /\ Covers(LeafOf(B, d), d)
         /\ \A x \in DOMAIN B : Covers(x, d) => x = LeafOf(B, d)
<1>1. \E z \in DOMAIN B : Covers(z, d)
  BY DEF Divides
<1>2. LeafOf(B, d) \in DOMAIN B /\ Covers(LeafOf(B, d), d)
  BY <1>1 DEF LeafOf
<1> QED BY <1>2 DEF Divides

\* An entry is in the leaf of its distance.
LEMMA EntryLeaf ==
  ASSUME NEW B, Tree(B), NEW z \in DOMAIN B, NEW d \in Entries(B[z])
  PROVE  d \in Ids /\ d \in Word(MaxLevel) /\ Covers(z, d) /\ z = LeafOf(B, d)
<1>1. B[z] \in Seq(Ids) /\ Covers(z, d)
  BY DEF Tree, Bin
<1>2. d \in Ids
  BY <1>1, EntriesIs
<1> QED BY <1>1, <1>2, IdIs, LeafIs DEF Tree

LEMMA InTableIs ==
  ASSUME NEW B, Tree(B)
  PROVE  /\ InTable(B) \subseteq Ids
         /\ \A d \in Ids : d \in InTable(B) <=> d \in Entries(B[LeafOf(B, d)])
<1>1. \A z \in DOMAIN B : \A d \in Entries(B[z]) : d \in Ids /\ z = LeafOf(B, d)
  BY EntryLeaf
<1>2. \A d \in Ids : LeafOf(B, d) \in DOMAIN B
  BY IdIs, LeafIs DEF Tree
<1> QED BY <1>1, <1>2 DEF InTable

-----------------------------------------------------------------------------
(***************************************************************************)
(* Splitting.                                                               *)
(***************************************************************************)
\* No address is counted more often than it may be.
Counts == [Addresses -> 0..MaxPerAddress]

\* Every entry is taken by the bin that it moves to.
LEMMA MovedIs ==
  ASSUME NEW T \in Counts, NEW C \in [Ids -> Contact], NEW q \in Seq(Ids)
  PROVE  /\ Moved(T, C, q) \in Seq(Ids) /\ Entries(Moved(T, C, q)) = Entries(q)
         /\ Distinct(q) => Distinct(Moved(T, C, q))
<1>1. Entries(q) \subseteq Ids
  BY EntriesIs
<1>2. \A d \in Entries(q) : Released(T, C, d)
  BY <1>1 DEF Released, Counts, MaxPerAddress, Contact
<1>3. {d \in Entries(q) : Released(T, C, d)} = Entries(q)
  BY <1>2
<1>4. Moved(T, C, q) = Filter(q, Entries(q))
  BY <1>3 DEF Moved
<1>5. /\ Filter(q, Entries(q)) \in Seq(Ids)
      /\ Entries(Filter(q, Entries(q))) = Entries(q) \cap Entries(q)
      /\ Distinct(q) => Distinct(Filter(q, Entries(q)))
  BY FilterIs
<1> QED BY <1>4, <1>5

\* A half is handed the entries that it covers.
LEMMA HandedIs ==
  ASSUME NEW T \in Counts, NEW C \in [Ids -> Contact], NEW z, NEW q, Bin(z, q), NEW x
  PROVE  /\ Entries(Handed(T, C, q, x)) = {d \in Entries(q) : Covers(x, d)}
         /\ Bin(x, Handed(T, C, q, x))
<1> DEFINE S == {d \in Entries(q) : Covers(x, d)}
           r == Filter(q, S)
           p == Moved(T, C, r)
<1>1. q \in Seq(Ids) /\ Distinct(q) /\ Len(q) <= K /\ S \subseteq Entries(q)
  BY DEF Bin
<1>2. r \in Seq(Ids) /\ Entries(r) = Entries(q) \cap S /\ Distinct(r)
  BY <1>1, FilterIs
<1>3. p \in Seq(Ids) /\ Entries(p) = S /\ Distinct(p)
  BY <1>1, <1>2, MovedIs
<1>4. Handed(T, C, q, x) = p
  BY DEF Handed
<1> HIDE DEF p, r
<1>5. Len(p) <= K
  <2>1. Len(p) = Cardinality(S) /\ Len(q) = Cardinality(Entries(q)) /\ IsFiniteSet(Entries(q))
    BY <1>1, <1>3, PlacesCount
  <2>2. Cardinality(S) <= Cardinality(Entries(q))
    BY <1>1, <2>1, FS_Subset
  <2>3. Len(p) \in Nat /\ Len(q) \in Nat /\ K \in Nat
    BY <1>1, <1>3, EntriesIs, RoutingAssumption
  <2> QED BY <1>1, <2>1, <2>2, <2>3
<1>6. \A d \in Entries(p) : Covers(x, d)
  BY <1>3
<1> QED BY <1>3, <1>4, <1>5, <1>6 DEF Bin

\* The zones into which a leaf of level k is split on the way of d to level n.
Splits(d, k, n) == {Prefix(d, n)} \cup {Sibling(d, m) : m \in k + 1..n}

\* A zone of Splits parts from d at its last bit, if at all.
LEMMA SplitsAre ==
  ASSUME NEW d \in Word(MaxLevel), NEW k \in Nat, NEW n \in k..MaxLevel,
         NEW x \in Splits(d, k, n)
  PROVE  \E m \in k..n :
           /\ m \in 0..MaxLevel /\ x \in Word(m)
           /\ \A i \in 1..m - 1 : x[i] = d[i]
           /\ \/ m = n /\ x = Prefix(d, n) /\ \A i \in 1..n : x[i] = d[i]
              \/ m \in k + 1..n /\ x = Sibling(d, m) /\ x[m] = 1 - d[m]
<1>1. MaxLevel \in Nat /\ n \in Nat /\ n \in 0..MaxLevel
  BY LevelsAreNatural
<1>2. CASE x = Prefix(d, n)
  <2>1. x \in Word(n) /\ \A i \in 1..n : x[i] = d[i]
    BY <1>1, <1>2, PrefixIs
  <2> QED BY <1>1, <1>2, <2>1
<1>3. CASE x # Prefix(d, n)
  <2>1. PICK m \in k + 1..n : x = Sibling(d, m)
    BY <1>3 DEF Splits
  <2>2. m \in 1..MaxLevel
    BY <1>1
  <2>3. x \in Word(m) /\ (\A i \in 1..m - 1 : x[i] = d[i]) /\ x[m] = 1 - d[m]
    BY <1>1, <2>1, <2>2, SiblingIs
  <2> QED BY <1>1, <2>1, <2>2, <2>3
<1> QED BY <1>2, <1>3

\* They divide the zone of level k where d is.
LEMMA SplitsDivide ==
  ASSUME NEW d \in Word(MaxLevel), NEW k \in Nat, NEW z \in Word(k), Covers(z, d),
         NEW n \in k..MaxLevel, NEW e \in Word(MaxLevel)
  PROVE  /\ Covers(z, e) => \E x \in Splits(d, k, n) : Covers(x, e)
         /\ \A x \in Splits(d, k, n) : Covers(x, e) => Covers(z, e)
         /\ \A x, y \in Splits(d, k, n) : Covers(x, e) /\ Covers(y, e) => x = y
<1>1. MaxLevel \in Nat /\ n \in Nat /\ k <= MaxLevel /\ n \in 0..MaxLevel
  BY LevelsAreNatural
<1>2. \A i \in 1..k : z[i] = d[i]
  BY <1>1, CoversIs
<1>3. \A i \in 1..MaxLevel : d[i] \in {0, 1} /\ e[i] \in {0, 1}
  BY <1>1, WordIs
<1>4. Covers(z, e) <=> \A i \in 1..k : e[i] = d[i]
  <2>1. Covers(z, e) <=> \A i \in 1..k : z[i] = e[i]
    BY <1>1, CoversIs
  <2> QED BY <1>2, <2>1
<1>5. ASSUME NEW x \in Splits(d, k, n), Covers(x, e)
      PROVE  \/ x = Prefix(d, n) /\ \A i \in 1..n : e[i] = d[i]
             \/ \E m \in k + 1..n : /\ x = Sibling(d, m) /\ e[m] = 1 - d[m]
                                    /\ \A i \in 1..m - 1 : e[i] = d[i]
  <2>1. PICK m \in k..n :
           /\ m \in 0..MaxLevel /\ x \in Word(m)
           /\ \A i \in 1..m - 1 : x[i] = d[i]
           /\ \/ m = n /\ x = Prefix(d, n) /\ \A i \in 1..n : x[i] = d[i]
              \/ m \in k + 1..n /\ x = Sibling(d, m) /\ x[m] = 1 - d[m]
    BY SplitsAre
  <2>2. \A i \in 1..m : x[i] = e[i]
    <3>1. m \in Nat
      BY <1>1
    <3> QED BY <1>1, <1>5, <2>1, <3>1, CoversIs
  <2>3. CASE m = n /\ x = Prefix(d, n) /\ \A i \in 1..n : x[i] = d[i]
    BY <2>2, <2>3
  <2>4. CASE m \in k + 1..n /\ x = Sibling(d, m) /\ x[m] = 1 - d[m]
    <3>1. m \in 1..m /\ \A i \in 1..m - 1 : i \in 1..m
      BY <1>1, <2>4
    <3> QED BY <2>1, <2>2, <2>4, <3>1
  <2> QED BY <2>1, <2>3, <2>4
<1>6. ASSUME Covers(z, e) PROVE \E x \in Splits(d, k, n) : Covers(x, e)
  <2>1. CASE \A i \in 1..n : e[i] = d[i]
    <3>1. Prefix(d, n) \in Word(n) /\ \A i \in 1..n : Prefix(d, n)[i] = d[i]
      BY <1>1, PrefixIs
    <3>2. Covers(Prefix(d, n), e)
      BY <1>1, <2>1, <3>1, CoversIs
    <3> QED BY <3>2 DEF Splits
  <2>2. CASE ~\A i \in 1..n : e[i] = d[i]
    <3> DEFINE D == {i \in 1..n : e[i] # d[i]}
    <3>1. D \in SUBSET Nat /\ D # {}
      BY <2>2
    <3>2. PICK m \in D : \A i \in D : m <= i
      <4> HIDE DEF D
      <4> QED BY <3>1, LeastNatural
    <3>3. m \in 1..n /\ e[m] # d[m]
      OBVIOUS
    <3>4. \A i \in 1..m - 1 : e[i] = d[i]
      <4> SUFFICES ASSUME NEW i \in 1..m - 1, e[i] # d[i] PROVE FALSE
        OBVIOUS
      <4>1. i \in D /\ ~(m <= i)
        BY <1>1, <3>3
      <4> QED BY <3>2, <4>1
    <3>5. m \in k + 1..n
      BY <1>1, <1>4, <1>6, <3>3
    <3>6. m \in 1..MaxLevel /\ m \in Nat /\ m <= MaxLevel
      BY <1>1, <3>3
    <3>7. e[m] = 1 - d[m]
      BY <1>3, <3>3, <3>6
    <3>8. /\ Sibling(d, m) \in Word(m) /\ Sibling(d, m)[m] = 1 - d[m]
          /\ \A i \in 1..m - 1 : Sibling(d, m)[i] = d[i]
      BY <1>1, <3>6, SiblingIs
    <3>9. \A i \in 1..m : Sibling(d, m)[i] = e[i]
      BY <3>4, <3>6, <3>7, <3>8
    <3>10. Covers(Sibling(d, m), e)
      BY <1>1, <3>6, <3>8, <3>9, CoversIs
    <3> QED BY <3>5, <3>10 DEF Splits
  <2> QED BY <2>1, <2>2
<1>7. ASSUME NEW x \in Splits(d, k, n), Covers(x, e) PROVE Covers(z, e)
  <2>1. CASE x = Prefix(d, n) /\ \A i \in 1..n : e[i] = d[i]
    BY <1>1, <1>4, <2>1
  <2>2. CASE \E m \in k + 1..n : /\ x = Sibling(d, m) /\ e[m] = 1 - d[m]
                                 /\ \A i \in 1..m - 1 : e[i] = d[i]
    BY <1>1, <1>4, <2>2
  <2> QED BY <1>5, <1>7, <2>1, <2>2
<1>8. ASSUME NEW x \in Splits(d, k, n), NEW y \in Splits(d, k, n), Covers(x, e), Covers(y, e)
      PROVE  x = y
  <2> DEFINE At(w, m) == /\ w = Sibling(d, m) /\ e[m] = 1 - d[m]
                         /\ \A i \in 1..m - 1 : e[i] = d[i]
             Same(w) == w = Prefix(d, n) /\ \A i \in 1..n : e[i] = d[i]
  <2>1. (Same(x) \/ \E m \in k + 1..n : At(x, m)) /\ (Same(y) \/ \E m \in k + 1..n : At(y, m))
    BY <1>5, <1>8
  <2>2. \A m \in k + 1..n : m \in 1..n /\ 1 - d[m] # d[m]
    BY <1>1, <1>3
  <2>3. ASSUME NEW m \in k + 1..n, NEW l \in k + 1..n, At(x, m), At(y, l) PROVE m = l
    <3>1. ~(m < l)
      BY <1>1, <2>2, <2>3
    <3>2. ~(l < m)
      BY <1>1, <2>2, <2>3
    <3> QED BY <1>1, <3>1, <3>2
  <2>4. CASE Same(x) /\ Same(y)
    BY <2>4
  <2>5. CASE \E m, l \in k + 1..n : At(x, m) /\ At(y, l)
    BY <2>3, <2>5
  <2> QED BY <2>1, <2>2, <2>4, <2>5
<1> QED BY <1>6, <1>7, <1>8

\* Where Add's splitting stops: every zone it passes may split.
LEMMA SplitLevelIs ==
  ASSUME NEW B, Tree(B), NEW d \in Ids
  PROVE  /\ Len(LeafOf(B, d)) \in 0..MaxLevel
         /\ SplitLevel(B, d) \in Len(LeafOf(B, d))..MaxLevel
         /\ \A m \in Len(LeafOf(B, d))..SplitLevel(B, d) - 1 : MaySplit(Prefix(d, m))
<1> DEFINE z == LeafOf(B, d)
           k == Len(z)
           Stops(n) == \/ Cardinality({e \in Entries(B[z]) : Covers(Prefix(d, n), e)}) < K
                       \/ ~MaySplit(Prefix(d, n))
           S == {n \in k..MaxLevel : Stops(n)}
<1>1. d \in Word(MaxLevel) /\ MaxLevel \in Nat
  BY IdIs, LevelsAreNatural
<1>2. k \in 0..MaxLevel
  <2>1. z \in Words
    BY <1>1, LeafIs DEF Tree, Divides
  <2> QED BY <2>1, ZoneIs
<1>3. Stops(MaxLevel)
  <2>1. MaxLevel \in 0..MaxLevel
    BY <1>1
  <2>2. Prefix(d, MaxLevel) \in Word(MaxLevel)
    BY <1>1, <2>1, PrefixIs
  <2>3. Len(Prefix(d, MaxLevel)) = MaxLevel
    BY <1>1, <2>2, WordIs
  <2> QED BY <1>1, <2>3 DEF MaySplit
<1> HIDE DEF Stops
<1>4. S \in SUBSET Nat /\ S # {}
  BY <1>1, <1>2, <1>3
<1>5. PICK n \in S : \A m \in S : n <= m
  <2> HIDE DEF S
  <2> QED BY <1>4, LeastNatural
<1>6. n \in k..MaxLevel /\ Stops(n) /\ \A m \in k..n - 1 : ~Stops(m)
  <2>1. n \in k..MaxLevel /\ Stops(n)
    BY <1>5
  <2>2. ASSUME NEW m \in k..n - 1, Stops(m) PROVE FALSE
    <3>1. m \in k..MaxLevel /\ ~(n <= m)
      BY <1>1, <1>2, <2>1
    <3>2. m \in S
      BY <2>2, <3>1
    <3> QED BY <1>5, <3>1, <3>2
  <2> QED BY <2>1, <2>2
<1>7. SplitLevel(B, d) = CHOOSE l \in k..MaxLevel : Stops(l) /\ \A m \in k..l - 1 : ~Stops(m)
  BY DEF SplitLevel, Stops
<1>8. /\ SplitLevel(B, d) \in k..MaxLevel
      /\ \A m \in k..SplitLevel(B, d) - 1 : ~Stops(m)
  BY <1>6, <1>7
<1> QED BY <1>2, <1>8 DEF Stops

\* The zones after a split.
SplitZones(B, d) ==
  (DOMAIN B \ {LeafOf(B, d)}) \cup Splits(d, Len(LeafOf(B, d)), SplitLevel(B, d))

\* They divide the distances, and all zones above them may split.
LEMMA SplitZonesDivide ==
  ASSUME NEW B, Tree(B), NEW d \in Ids
  PROVE  Divides(SplitZones(B, d))
<1> DEFINE z == LeafOf(B, d)
           k == Len(z)
           n == SplitLevel(B, d)
           new == Splits(d, k, n)
           L == SplitZones(B, d)
<1>1. d \in Word(MaxLevel) /\ z \in DOMAIN B /\ Covers(z, d)
  BY IdIs, LeafIs DEF Tree
<1>2. k \in Nat /\ z \in Word(k) /\ n \in k..MaxLevel
  <2>1. z \in Words
    BY <1>1 DEF Tree, Divides
  <2> QED BY <2>1, ZoneIs, SplitLevelIs
<1>3. L = (DOMAIN B \ {z}) \cup new
  BY DEF SplitZones
<1>4. /\ DOMAIN B \subseteq Words
      /\ \A e \in Word(MaxLevel) : \E x \in DOMAIN B : Covers(x, e)
      /\ \A e \in Word(MaxLevel) : \A x, y \in DOMAIN B : Covers(x, e) /\ Covers(y, e) => x = y
  BY DEF Tree, Divides
<1> HIDE DEF z, k, n, new, L
<1>5. /\ \A e \in Word(MaxLevel) : Covers(z, e) => \E x \in new : Covers(x, e)
      /\ \A e \in Word(MaxLevel) : \A x \in new : Covers(x, e) => Covers(z, e)
      /\ \A e \in Word(MaxLevel) : \A x, y \in new : Covers(x, e) /\ Covers(y, e) => x = y
  BY <1>1, <1>2, SplitsDivide DEF new
<1>6. new \subseteq Words
  <2> SUFFICES ASSUME NEW x \in new PROVE x \in Words
    OBVIOUS
  <2>1. \E m \in k..n : m \in 0..MaxLevel /\ x \in Word(m)
    BY <1>1, <1>2, SplitsAre DEF new
  <2> QED BY <2>1 DEF Words
<1>7. L \subseteq Words
  BY <1>3, <1>4, <1>6
<1>8. ASSUME NEW e \in Word(MaxLevel) PROVE \E x \in L : Covers(x, e)
  BY <1>3, <1>4, <1>5
<1>9. ASSUME NEW e \in Word(MaxLevel), NEW x \in L, NEW y \in L, Covers(x, e), Covers(y, e)
      PROVE  x = y
  <2>1. CASE x \in new /\ y \in new
    BY <1>5, <1>9, <2>1
  <2>2. CASE x \notin new /\ y \notin new
    BY <1>3, <1>4, <1>9, <2>2
  <2>3. CASE x \in new /\ y \notin new
    <3>1. Covers(z, e) /\ y \in DOMAIN B /\ y # z
      BY <1>3, <1>5, <1>9, <2>3
    <3> QED BY <1>1, <1>4, <1>9, <3>1
  <2>4. CASE x \notin new /\ y \in new
    <3>1. Covers(z, e) /\ x \in DOMAIN B /\ x # z
      BY <1>3, <1>5, <1>9, <2>4
    <3> QED BY <1>1, <1>4, <1>9, <3>1
  <2> QED BY <2>1, <2>2, <2>3, <2>4
<1>10. Divides(L)
  BY <1>7, <1>8, <1>9 DEF Divides
<1> QED BY <1>10 DEF L

\* Zones above a leaf.
LEMMA BranchIs ==
  ASSUME NEW B, NEW p
  PROVE  p \in Branches(B) <=> \E z \in DOMAIN B : \E n \in 0..Len(z) - 1 : p = Prefix(z, n)
BY DEF Branches

\* A prefix of a prefix.
LEMMA PrefixOfPrefix ==
  ASSUME NEW n \in Nat, NEW w \in Word(n), NEW m \in 0..n, NEW i \in 0..m
  PROVE  Prefix(Prefix(w, m), i) = Prefix(w, i)
<1>1. m \in Nat /\ i \in 0..n /\ i \in Nat
  OBVIOUS
<1>2. Prefix(w, m) \in Word(m) /\ \A j \in 1..m : Prefix(w, m)[j] = w[j]
  BY PrefixIs
<1>3. Prefix(w, i) \in Word(i) /\ \A j \in 1..i : Prefix(w, i)[j] = w[j]
  BY <1>1, PrefixIs
<1>4. /\ Prefix(Prefix(w, m), i) \in Word(i)
      /\ \A j \in 1..i : Prefix(Prefix(w, m), i)[j] = Prefix(w, m)[j]
  BY <1>1, <1>2, PrefixIs
<1>5. \A j \in 1..i : Prefix(Prefix(w, m), i)[j] = Prefix(w, i)[j]
  BY <1>2, <1>3, <1>4
<1> QED BY <1>1, <1>3, <1>4, <1>5, WordEqual

\* Two words that agree on i bits have the same prefix of i bits.
LEMMA SamePrefix ==
  ASSUME NEW m \in Nat, NEW v \in Word(m), NEW n \in Nat, NEW w \in Word(n),
         NEW i \in 0..m, i <= n, \A j \in 1..i : v[j] = w[j]
  PROVE  Prefix(v, i) = Prefix(w, i)
<1>1. i \in 0..n /\ i \in Nat
  OBVIOUS
<1>2. /\ Prefix(v, i) \in Word(i) /\ Prefix(w, i) \in Word(i)
      /\ \A j \in 1..i : Prefix(v, i)[j] = v[j]
      /\ \A j \in 1..i : Prefix(w, i)[j] = w[j]
  BY <1>1, PrefixIs
<1> QED BY <1>1, <1>2, WordEqual

LEMMA SplitBranches ==
  ASSUME NEW B, Tree(B), NEW d \in Ids, NEW x \in SplitZones(B, d), NEW i \in 0..Len(x) - 1
  PROVE  MaySplit(Prefix(x, i))
<1> DEFINE z == LeafOf(B, d)
           k == Len(z)
           n == SplitLevel(B, d)
<1>1. d \in Word(MaxLevel) /\ z \in DOMAIN B /\ Covers(z, d) /\ MaxLevel \in Nat
  BY IdIs, LeafIs, LevelsAreNatural DEF Tree
<1>2. /\ k \in Nat /\ k <= MaxLevel /\ z \in Word(k) /\ n \in k..MaxLevel
      /\ \A m \in k..n - 1 : MaySplit(Prefix(d, m))
  <2>1. z \in Words
    BY <1>1 DEF Tree, Divides
  <2> QED BY <2>1, ZoneIs, SplitLevelIs
<1>3. x \in DOMAIN B \/ x \in Splits(d, k, n)
  BY DEF SplitZones
<1> HIDE DEF z, k, n
<1>4. \A y \in DOMAIN B : \A j \in 0..Len(y) - 1 : MaySplit(Prefix(y, j))
  BY BranchIs DEF Tree
<1>5. CASE x \in Splits(d, k, n)
  <2>1. PICK m \in k..n :
           /\ m \in 0..MaxLevel /\ x \in Word(m)
           /\ \A j \in 1..m - 1 : x[j] = d[j]
    BY <1>1, <1>2, <1>5, SplitsAre
  <2>2. Len(x) = m /\ m \in Nat
    BY <1>1, <2>1, WordIs
  <2>3. i \in 0..m /\ i <= MaxLevel /\ i < n /\ \A j \in 1..i : x[j] = d[j]
    BY <1>1, <1>2, <2>1, <2>2
  <2>4. Prefix(x, i) = Prefix(d, i)
    BY <1>1, <2>1, <2>2, <2>3, SamePrefix
  <2>5. CASE i < k
    <3>1. i \in 0..k - 1 /\ i \in 0..k /\ \A j \in 1..k : z[j] = d[j]
      BY <1>1, <1>2, <2>2, <2>5, CoversIs
    <3>2. Prefix(z, i) = Prefix(d, i)
      BY <1>1, <1>2, <2>3, <3>1, SamePrefix
    <3>3. i \in 0..Len(z) - 1
      BY <3>1 DEF k
    <3> QED BY <1>1, <1>4, <2>4, <3>2, <3>3
  <2>6. CASE ~(i < k)
    <3>1. i \in k..n - 1
      BY <1>2, <2>2, <2>3, <2>6
    <3> QED BY <1>2, <2>4, <3>1
  <2> QED BY <2>5, <2>6
<1> QED BY <1>3, <1>4, <1>5

\* Whatever the bins: Add may split a leaf to any depth, and the tree is a tree
\* with the same contacts.
LEMMA SplitKeeps ==
  ASSUME NEW B, Tree(B), NEW T \in Counts, NEW C \in [Ids -> Contact], NEW d \in Ids
  PROVE  Tree(Split(B, T, C, d)) /\ InTable(Split(B, T, C, d)) = InTable(B)
<1> DEFINE z == LeafOf(B, d)
           k == Len(z)
           n == SplitLevel(B, d)
           new == Splits(d, k, n)
           L == SplitZones(B, d)
           S == Split(B, T, C, d)
<1>1. CASE n = k
  BY <1>1 DEF Split
<1>2. CASE n # k
  <2>1. S = [x \in L |-> IF x \in new THEN Handed(T, C, B[z], x) ELSE B[x]]
    BY <1>2 DEF Split, SplitZones, Splits
  <2>2. L = (DOMAIN B \ {z}) \cup new
    BY DEF SplitZones
  <2>3. z \in DOMAIN B /\ Covers(z, d) /\ d \in Word(MaxLevel) /\ Bin(z, B[z])
    BY IdIs, LeafIs DEF Tree
  <2>4. k \in Nat /\ z \in Word(k) /\ n \in k..MaxLevel
    <3>1. z \in Words
      BY <2>3 DEF Tree, Divides
    <3> QED BY <3>1, ZoneIs, SplitLevelIs
  <2>5. Divides(L) /\ \A x \in L : \A i \in 0..Len(x) - 1 : MaySplit(Prefix(x, i))
    BY SplitZonesDivide, SplitBranches
  <2> HIDE DEF z, k, n, new, L, S
  <2>6. \A x \in new : /\ Entries(Handed(T, C, B[z], x)) = {e \in Entries(B[z]) : Covers(x, e)}
                       /\ Bin(x, Handed(T, C, B[z], x))
    BY <2>3, HandedIs
  <2>7. \A x \in L : Bin(x, S[x])
    BY <2>1, <2>2, <2>6 DEF Tree
  <2>8. DOMAIN S = L
    BY <2>1
  <2>9. Tree(S)
    BY <2>5, <2>7, <2>8, BranchIs DEF Tree
  <2>10. ASSUME NEW e \in InTable(S) PROVE e \in InTable(B)
    <3>1. PICK x \in L : e \in Entries(S[x])
      BY <2>8 DEF InTable
    <3>2. CASE x \in new
      BY <2>1, <2>3, <2>6, <3>1, <3>2 DEF InTable
    <3>3. CASE x \notin new
      BY <2>1, <2>2, <3>1, <3>3 DEF InTable
    <3> QED BY <3>2, <3>3
  <2>11. ASSUME NEW e \in InTable(B) PROVE e \in InTable(S)
    <3>1. PICK x \in DOMAIN B : e \in Entries(B[x])
      BY DEF InTable
    <3>2. e \in Word(MaxLevel) /\ Covers(x, e)
      BY <3>1, EntryLeaf
    <3>3. \A w \in new : Covers(w, e) => Covers(z, e)
      BY <2>3, <2>4, <3>2, SplitsDivide DEF new
    <3>4. CASE x = z
      <4>1. PICK w \in new : Covers(w, e)
        BY <2>3, <2>4, <3>2, <3>4, SplitsDivide DEF new
      <4>2. w \in L /\ e \in Entries(S[w])
        BY <2>1, <2>2, <2>6, <3>1, <3>4, <4>1
      <4> QED BY <2>8, <4>2 DEF InTable
    <3>5. CASE x # z
      <4>1. ~Covers(z, e)
        BY <2>3, <3>1, <3>2, <3>5 DEF Tree, Divides
      <4>2. x \in L
        BY <2>2, <3>5
      <4>3. x \notin new
        BY <3>2, <3>3, <4>1
      <4>4. S[x] = B[x]
        BY <2>1, <4>2, <4>3
      <4> QED BY <2>8, <3>1, <4>2, <4>4 DEF InTable
    <3> QED BY <3>4, <3>5
  <2>12. InTable(S) = InTable(B)
    BY <2>10, <2>11
  <2> QED BY <2>9, <2>12 DEF S
<1> QED BY <1>1, <1>2


-----------------------------------------------------------------------------
(***************************************************************************)
(* Merging.                                                                 *)
(***************************************************************************)
\* What the recursion of Flattened does, from level m down the tree, with a
\* candidate for its function.
FlatteningFrom(B, m, f) ==
  [n \in m..MaxLevel |->
     [q \in [1..n -> {0, 1}] |->
        IF q \in DOMAIN B THEN B[q]
        ELSE IF n = MaxLevel THEN <<>>
        ELSE f[n + 1][Append(q, 0)] \o f[n + 1][Append(q, 1)]]]

\* There is a function that Flattened's recursion defines.
LEMMA FlattenedExists ==
  ASSUME NEW B, NEW k \in 0..MaxLevel
  PROVE  \E f : f = FlatteningFrom(B, k, f)
<1> DEFINE Unsolved == {m \in 0..MaxLevel : ~\E f : f = FlatteningFrom(B, m, f)}
<1> SUFFICES ASSUME Unsolved # {} PROVE FALSE
  OBVIOUS
<1>1. PICK m \in Unsolved : \A l \in Unsolved : l <= m
  <2>1. Unsolved \in SUBSET (0..MaxLevel)
    OBVIOUS
  <2> HIDE DEF Unsolved
  <2> QED BY <2>1, LevelsAreNatural, GreatestNatural
<1>2. m \in 0..MaxLevel /\ ~\E f : f = FlatteningFrom(B, m, f)
  OBVIOUS
<1>3. MaxLevel \in Nat
  BY LevelsAreNatural
<1>4. CASE m = MaxLevel
  <2> DEFINE g == [n \in m..MaxLevel |->
                     [q \in [1..n -> {0, 1}] |-> IF q \in DOMAIN B THEN B[q] ELSE <<>>]]
             h == FlatteningFrom(B, m, g)
  <2>1. ASSUME NEW n \in m..MaxLevel PROVE g[n] = h[n]
    <3>1. n = MaxLevel
      BY <1>3, <1>4
    <3> DEFINE W == [1..n -> {0, 1}]
    <3>2. g[n] = [q \in W |-> IF q \in DOMAIN B THEN B[q] ELSE <<>>]
      OBVIOUS
    <3>3. h[n] = [q \in W |-> IF q \in DOMAIN B THEN B[q] ELSE IF n = MaxLevel THEN <<>>
                              ELSE g[n + 1][Append(q, 0)] \o g[n + 1][Append(q, 1)]]
      BY DEF FlatteningFrom
    <3>4. \A q \in W : g[n][q] = h[n][q]
      BY <3>1, <3>2, <3>3
    <3>5. g[n] = [q \in W |-> g[n][q]] /\ h[n] = [q \in W |-> h[n][q]]
      BY <3>2, <3>3
    <3> HIDE DEF g, h, W
    <3> QED BY <3>4, <3>5
  <2>2. g = h
    <3>1. g = [n \in m..MaxLevel |-> g[n]] /\ h = [n \in m..MaxLevel |-> h[n]]
      BY DEF FlatteningFrom
    <3> HIDE DEF g, h
    <3> QED BY <2>1, <3>1
  <2> QED BY <1>2, <2>2
<1>5. CASE m # MaxLevel
  <2>1. m + 1 \in 0..MaxLevel /\ m + 1 \notin Unsolved
    <3>1. m + 1 \in 0..MaxLevel /\ ~(m + 1 <= m)
      BY <1>2, <1>3, <1>5
    <3> HIDE DEF Unsolved
    <3> QED BY <1>1, <3>1
  <2>2. PICK f : f = FlatteningFrom(B, m + 1, f)
    BY <2>1
  <2> DEFINE top == [q \in [1..m -> {0, 1}] |->
                       IF q \in DOMAIN B THEN B[q]
                       ELSE f[m + 1][Append(q, 0)] \o f[m + 1][Append(q, 1)]]
             g == [n \in m..MaxLevel |-> IF n = m THEN top ELSE f[n]]
             h == FlatteningFrom(B, m, g)
  <2>3. ASSUME NEW n \in m..MaxLevel PROVE g[n] = h[n]
    <3>1. CASE n = m
      <4>1. g[m + 1] = f[m + 1]
        <5>1. m + 1 \in m..MaxLevel /\ m + 1 # m
          BY <1>2, <1>3, <2>1
        <5> QED BY <5>1
      <4>2. g[n] = top
        BY <3>1
      <4> DEFINE W == [1..m -> {0, 1}]
      <4>3. h[n] = [q \in W |-> IF q \in DOMAIN B THEN B[q] ELSE IF m = MaxLevel THEN <<>>
                                ELSE g[m + 1][Append(q, 0)] \o g[m + 1][Append(q, 1)]]
        BY <3>1 DEF FlatteningFrom
      <4>4. top = [q \in W |-> top[q]] /\ h[n] = [q \in W |-> h[n][q]]
        BY <4>3
      <4>5. \A q \in W : top[q] = IF q \in DOMAIN B THEN B[q]
                                 ELSE f[m + 1][Append(q, 0)] \o f[m + 1][Append(q, 1)]
        OBVIOUS
      <4> HIDE DEF g, h, top, W
      <4>6. \A q \in W : top[q] = h[n][q]
        BY <1>5, <4>1, <4>3, <4>5
      <4> QED BY <4>2, <4>4, <4>6
    <3>2. CASE n # m
      <4>1. n \in m + 1..MaxLevel /\ g[n] = f[n]
        BY <1>2, <1>3, <3>2
      <4>2. f[n] = [q \in [1..n -> {0, 1}] |->
                      IF q \in DOMAIN B THEN B[q]
                      ELSE IF n = MaxLevel THEN <<>>
                      ELSE f[n + 1][Append(q, 0)] \o f[n + 1][Append(q, 1)]]
        <5>1. FlatteningFrom(B, m + 1, f)[n]
                = [q \in [1..n -> {0, 1}] |->
                     IF q \in DOMAIN B THEN B[q]
                     ELSE IF n = MaxLevel THEN <<>>
                     ELSE f[n + 1][Append(q, 0)] \o f[n + 1][Append(q, 1)]]
          BY <4>1 DEF FlatteningFrom
        <5> QED BY <2>2, <5>1
      <4>3. n # MaxLevel => g[n + 1] = f[n + 1]
        <5>1. n # MaxLevel => n + 1 \in m..MaxLevel /\ n + 1 # m
          BY <1>2, <1>3, <4>1
        <5> QED BY <5>1
      <4>4. h[n] = [q \in [1..n -> {0, 1}] |->
                      IF q \in DOMAIN B THEN B[q]
                      ELSE IF n = MaxLevel THEN <<>>
                      ELSE g[n + 1][Append(q, 0)] \o g[n + 1][Append(q, 1)]]
        BY DEF FlatteningFrom
      <4> HIDE DEF g, h
      <4> QED BY <4>1, <4>2, <4>3, <4>4
    <3> QED BY <3>1, <3>2
  <2>4. g = h
    <3>1. g = [n \in m..MaxLevel |-> g[n]] /\ h = [n \in m..MaxLevel |-> h[n]]
      BY DEF FlatteningFrom
    <3> HIDE DEF g, h
    <3> QED BY <2>3, <3>1
  <2> QED BY <1>2, <2>4
<1> QED BY <1>4, <1>5

\* The leaves in zone q, and their entries.
LeavesBelow(B, q)  == {z \in DOMAIN B : Covers(q, z)}
EntriesBelow(B, q) == UNION {Entries(B[z]) : z \in LeavesBelow(B, q)}

\* The leaves below a leaf, below the last level and below the others.
LEMMA LeavesBelowIs ==
  ASSUME NEW B, Tree(B), NEW n \in 0..MaxLevel, NEW q \in Word(n)
  PROVE  /\ q \in DOMAIN B => LeavesBelow(B, q) = {q}
         /\ q \notin DOMAIN B /\ n = MaxLevel => LeavesBelow(B, q) = {}
         /\ q \notin DOMAIN B /\ n # MaxLevel =>
              LeavesBelow(B, q) = LeavesBelow(B, Append(q, 0)) \cup LeavesBelow(B, Append(q, 1))
<1>1. /\ MaxLevel \in Nat /\ n \in Nat /\ n <= MaxLevel
      /\ \A z \in DOMAIN B : Len(z) \in Nat /\ Len(z) <= MaxLevel /\ z \in Word(Len(z))
  <2>1. \A z \in DOMAIN B : z \in Words
    BY DEF Tree, Divides
  <2> QED BY <2>1, LevelsAreNatural, ZoneIs
<1>2. ASSUME NEW z \in DOMAIN B
      PROVE  Covers(q, z) <=> n <= Len(z) /\ \A i \in 1..n : q[i] = z[i]
  BY <1>1, CoversIs
<1>3. ASSUME NEW z \in DOMAIN B, Covers(q, z), Len(z) <= n PROVE z = q
  <2>1. Len(z) = n /\ \A i \in 1..n : z[i] = q[i]
    BY <1>1, <1>2, <1>3
  <2> QED BY <1>1, <2>1, WordEqual
<1>4. ASSUME q \in DOMAIN B PROVE LeavesBelow(B, q) = {q}
  <2>1. Divides(DOMAIN B)
    BY DEF Tree
  <2>2. \A z \in DOMAIN B : Covers(q, z) => z = q
    BY <1>4, <2>1, NoLeafAbove
  <2>3. Covers(q, q)
    BY <1>1, <1>4, CoversIs
  <2> QED BY <1>4, <2>2, <2>3 DEF LeavesBelow
<1>5. ASSUME q \notin DOMAIN B, n = MaxLevel PROVE LeavesBelow(B, q) = {}
  BY <1>1, <1>3, <1>5 DEF LeavesBelow
<1>6. ASSUME q \notin DOMAIN B, n # MaxLevel
      PROVE  LeavesBelow(B, q) = LeavesBelow(B, Append(q, 0)) \cup LeavesBelow(B, Append(q, 1))
  <2>1. \A b \in {0, 1} : /\ Append(q, b) \in Word(n + 1)
                          /\ \A i \in 1..n : Append(q, b)[i] = q[i]
                          /\ Append(q, b)[n + 1] = b
    BY <1>1, HalfIs
  <2>2. ASSUME NEW b \in {0, 1}, NEW z \in DOMAIN B
        PROVE  Covers(Append(q, b), z)
                 <=> n + 1 <= Len(z) /\ \A i \in 1..n + 1 : Append(q, b)[i] = z[i]
    <3> DEFINE x == Append(q, b)
               m == n + 1
    <3>1. m \in Nat /\ x \in Word(m) /\ Len(z) \in Nat /\ z \in Word(Len(z))
      BY <1>1, <2>1
    <3> HIDE DEF x, m
    <3>2. Covers(x, z) <=> m <= Len(z) /\ \A i \in 1..m : x[i] = z[i]
      BY <3>1, CoversIs
    <3> QED BY <3>2 DEF x, m
  <2>3. ASSUME NEW z \in DOMAIN B, Covers(q, z)
        PROVE  Covers(Append(q, 0), z) \/ Covers(Append(q, 1), z)
    <3>1. n + 1 <= Len(z) /\ \A i \in 1..n : q[i] = z[i]
      BY <1>1, <1>2, <1>3, <1>6, <2>3
    <3>2. z[n + 1] \in {0, 1}
      <4>1. z \in Word(Len(z)) /\ n + 1 \in 1..Len(z) /\ Len(z) \in Nat
        BY <1>1, <3>1
      <4> QED BY <4>1, WordIs
    <3>3. \A i \in 1..n + 1 : Append(q, z[n + 1])[i] = z[i]
      <4>1. \A i \in 1..n + 1 : i \in 1..n \/ i = n + 1
        BY <1>1
      <4> QED BY <2>1, <3>1, <3>2, <4>1
    <3>4. Covers(Append(q, z[n + 1]), z)
      BY <2>2, <3>1, <3>2, <3>3
    <3> QED BY <3>2, <3>4
  <2>4. ASSUME NEW z \in DOMAIN B, NEW b \in {0, 1}, Covers(Append(q, b), z)
        PROVE  Covers(q, z)
    <3>1. n <= Len(z) /\ \A i \in 1..n : i \in 1..n + 1
      BY <1>1, <2>2, <2>4
    <3>2. \A i \in 1..n : q[i] = z[i]
      BY <2>1, <2>2, <2>4, <3>1
    <3> QED BY <1>2, <3>1, <3>2
  <2> QED BY <2>3, <2>4 DEF LeavesBelow
<1> QED BY <1>4, <1>5, <1>6

\* The two halves of a zone hold different entries.
LEMMA HalvesDiffer ==
  ASSUME NEW B, Tree(B), NEW n \in 0..MaxLevel, n # MaxLevel, NEW q \in Word(n)
  PROVE  EntriesBelow(B, Append(q, 0)) \cap EntriesBelow(B, Append(q, 1)) = {}
<1>1. MaxLevel \in Nat /\ n \in Nat /\ n + 1 \in 0..MaxLevel
  BY LevelsAreNatural
<1>2. \A b \in {0, 1} : Append(q, b) \in Word(n + 1) /\ Append(q, b)[n + 1] = b
  BY <1>1, HalfIs
<1>3. ASSUME NEW b \in {0, 1}, NEW d \in EntriesBelow(B, Append(q, b))
      PROVE  d[n + 1] = b
  <2>1. PICK z \in LeavesBelow(B, Append(q, b)) : d \in Entries(B[z])
    BY DEF EntriesBelow
  <2>2. z \in DOMAIN B /\ Covers(Append(q, b), z)
    BY <2>1 DEF LeavesBelow
  <2>3. d \in Word(MaxLevel) /\ Covers(z, d)
    BY <2>1, <2>2, EntryLeaf
  <2>4. Append(q, b) \in Words /\ z \in Words
    BY <1>1, <1>2, <2>2 DEF Words, Tree, Divides
  <2>5. Covers(Append(q, b), d)
    BY <2>2, <2>3, <2>4, CoversTransitive
  <2> DEFINE x == Append(q, b)
             m == n + 1
  <2>6. x \in Word(m) /\ Covers(x, d) /\ x[m] = b /\ m \in Nat /\ m > 0
    <3>1. n + 1 \in Nat /\ n + 1 > 0
      BY <1>1
    <3> QED BY <1>2, <2>5, <3>1
  <2> HIDE DEF x, m
  <2>7. \A i \in 1..m : x[i] = d[i]
    BY <1>1, <2>3, <2>6, CoversIs
  <2>8. d[m] = b
    <3>1. m \in 1..m
      BY <2>6
    <3> QED BY <2>6, <2>7, <3>1
  <2> QED BY <2>8 DEF m
<1>4. ASSUME NEW d \in EntriesBelow(B, Append(q, 0)), d \in EntriesBelow(B, Append(q, 1))
      PROVE  FALSE
  <2>1. d[n + 1] = 0
    BY <1>3
  <2>2. d[n + 1] = 1
    BY <1>3, <1>4
  <2> QED BY <2>1, <2>2
<1> QED BY <1>4

\* Flattened collects the entries of all leaves of a zone.
LEMMA FlattenedIs ==
  ASSUME NEW B, Tree(B), NEW l \in 0..MaxLevel, NEW p \in Word(l)
  PROVE  /\ Flattened(B, p) \in Seq(Ids) /\ Distinct(Flattened(B, p))
         /\ Entries(Flattened(B, p)) = EntriesBelow(B, p)
<1> DEFINE F == CHOOSE f : f = FlatteningFrom(B, 0, f)
<1>1. MaxLevel \in Nat /\ 0 \in 0..MaxLevel /\ l \in Nat
  BY LevelsAreNatural
<1>2. Flattened(B, p) = F[l][p]
  <2>1. Len(p) = l
    BY <1>1, WordIs
  <2> QED BY <2>1 DEF Flattened, FlatteningFrom
<1>3. F = FlatteningFrom(B, 0, F)
  BY <1>1, FlattenedExists
<1> HIDE DEF F
<1>4. ASSUME NEW n \in 0..MaxLevel, NEW q \in Word(n)
      PROVE  F[n][q] = IF q \in DOMAIN B THEN B[q]
                       ELSE IF n = MaxLevel THEN <<>>
                       ELSE F[n + 1][Append(q, 0)] \o F[n + 1][Append(q, 1)]
  <2>1. FlatteningFrom(B, 0, F)[n][q]
          = IF q \in DOMAIN B THEN B[q]
            ELSE IF n = MaxLevel THEN <<>>
            ELSE F[n + 1][Append(q, 0)] \o F[n + 1][Append(q, 1)]
    BY DEF FlatteningFrom, Word
  <2> QED BY <1>3, <2>1
<1> DEFINE Good(n, q) == /\ F[n][q] \in Seq(Ids) /\ Distinct(F[n][q])
                         /\ Entries(F[n][q]) = EntriesBelow(B, q)
           Bad == {n \in 0..MaxLevel : ~\A q \in Word(n) : Good(n, q)}
<1>5. ASSUME NEW n \in 0..MaxLevel, NEW q \in Word(n),
             n # MaxLevel => \A r \in Word(n + 1) : Good(n + 1, r)
      PROVE  Good(n, q)
  <2>1. CASE q \in DOMAIN B
    <3>1. F[n][q] = B[q] /\ LeavesBelow(B, q) = {q}
      BY <1>4, <2>1, LeavesBelowIs
    <3>2. Bin(q, B[q])
      BY <2>1 DEF Tree
    <3>3. EntriesBelow(B, q) = Entries(B[q])
      BY <3>1 DEF EntriesBelow
    <3> QED BY <3>1, <3>2, <3>3 DEF Bin
  <2>2. CASE q \notin DOMAIN B /\ n = MaxLevel
    <3>1. F[n][q] = <<>> /\ LeavesBelow(B, q) = {}
      BY <1>4, <2>2, LeavesBelowIs
    <3>2. EntriesBelow(B, q) = {}
      BY <3>1 DEF EntriesBelow
    <3> QED BY <3>1, <3>2, EmptyBin
  <2>3. CASE q \notin DOMAIN B /\ n # MaxLevel
    <3> DEFINE left  == F[n + 1][Append(q, 0)]
               right == F[n + 1][Append(q, 1)]
    <3>1. F[n][q] = left \o right
      BY <1>4, <2>3
    <3>2. Append(q, 0) \in Word(n + 1) /\ Append(q, 1) \in Word(n + 1)
      BY <1>1, HalfIs
    <3>3. /\ left \in Seq(Ids) /\ Distinct(left) /\ Entries(left) = EntriesBelow(B, Append(q, 0))
          /\ right \in Seq(Ids) /\ Distinct(right)
          /\ Entries(right) = EntriesBelow(B, Append(q, 1))
      BY <1>5, <2>3, <3>2
    <3>4. EntriesBelow(B, Append(q, 0)) \cap EntriesBelow(B, Append(q, 1)) = {}
      BY <2>3, HalvesDiffer
    <3>5. LeavesBelow(B, q) = LeavesBelow(B, Append(q, 0)) \cup LeavesBelow(B, Append(q, 1))
      BY <2>3, LeavesBelowIs
    <3>6. EntriesBelow(B, q) = EntriesBelow(B, Append(q, 0)) \cup EntriesBelow(B, Append(q, 1))
      BY <3>5 DEF EntriesBelow
    <3> HIDE DEF left, right
    <3>7. /\ left \o right \in Seq(Ids)
          /\ Entries(left \o right) = Entries(left) \cup Entries(right)
          /\ Distinct(left \o right)
      BY <3>3, <3>4, ConcatIs
    <3> QED BY <3>1, <3>3, <3>6, <3>7
  <2> QED BY <2>1, <2>2, <2>3
<1> HIDE DEF Good
<1>6. ASSUME Bad # {} PROVE FALSE
  <2>1. Bad \in SUBSET (0..MaxLevel)
    OBVIOUS
  <2>2. PICK n \in Bad : \A m \in Bad : m <= n
    <3> HIDE DEF Bad
    <3> QED BY <1>1, <1>6, <2>1, GreatestNatural
  <2>3. n \in 0..MaxLevel /\ ~\A q \in Word(n) : Good(n, q)
    OBVIOUS
  <2>4. ASSUME n # MaxLevel PROVE \A r \in Word(n + 1) : Good(n + 1, r)
    <3>1. n + 1 \in 0..MaxLevel /\ ~(n + 1 <= n)
      BY <1>1, <2>3, <2>4
    <3>2. n + 1 \notin Bad
      <4> HIDE DEF Bad
      <4> QED BY <2>2, <3>1
    <3> QED BY <3>1, <3>2
  <2> QED BY <1>5, <2>3, <2>4
<1>7. Good(l, p)
  BY <1>6
<1> QED BY <1>2, <1>7 DEF Good

\* The zones after merging: the leaves that stay, and the branches that merge.
KeptZone(B, x)  == \A n \in 0..Len(x) - 1 : ~Merges(B, Prefix(x, n))
KeptLeaves(B)   == {z \in DOMAIN B : KeptZone(B, z)}
MergedZones(B)  == {p \in Branches(B) : Merges(B, p) /\ KeptZone(B, p)}

LEMMA ConsolidatedIs ==
  ASSUME NEW B, NEW T, NEW C
  PROVE  Consolidated(B, T, C) =
           [x \in KeptLeaves(B) \cup MergedZones(B) |->
              IF x \in KeptLeaves(B) THEN B[x] ELSE Moved(T, C, Flattened(B, x))]
BY DEF Consolidated, KeptLeaves, MergedZones, KeptZone

\* A branch is above some leaf, and is no leaf.
LEMMA BranchAbove ==
  ASSUME NEW B, Tree(B), NEW p \in Branches(B)
  PROVE  \E z \in DOMAIN B : \E n \in 0..Len(z) - 1 :
           /\ z \in Word(Len(z)) /\ Len(z) \in 0..MaxLevel
           /\ p = Prefix(z, n) /\ p \in Word(n) /\ Len(p) = n /\ n \in 0..MaxLevel
           /\ Covers(p, z) /\ p \in Words /\ z \in Words /\ p \notin DOMAIN B
<1>1. PICK z \in DOMAIN B : \E n \in 0..Len(z) - 1 : p = Prefix(z, n)
  BY BranchIs
<1>2. PICK n \in 0..Len(z) - 1 : p = Prefix(z, n)
  BY <1>1
<1>3. z \in Words /\ Divides(DOMAIN B)
  BY DEF Tree, Divides
<1>4. Len(z) \in 0..MaxLevel /\ z \in Word(Len(z)) /\ MaxLevel \in Nat
  BY <1>3, ZoneIs, LevelsAreNatural
<1>5. n \in 0..Len(z) /\ n \in Nat /\ n \in 0..MaxLevel /\ Len(z) \in Nat /\ n < Len(z)
  BY <1>4
<1>6. p \in Word(n) /\ \A i \in 1..n : p[i] = z[i]
  BY <1>2, <1>4, <1>5, PrefixIs
<1>7. Len(p) = n /\ Covers(p, z)
  BY <1>4, <1>5, <1>6, WordIs, CoversIs
<1>8. p \in Words
  BY <1>5, <1>6 DEF Words
<1>9. p \notin DOMAIN B
  BY <1>3, <1>5, <1>7, NoLeafAbove
<1> QED BY <1>2, <1>3, <1>4, <1>5, <1>6, <1>7, <1>8, <1>9

\* What Merges counts are the entries of the leaves that Flattened collects.
LEMMA UnderIs ==
  ASSUME NEW B, Tree(B), NEW p \in Branches(B)
  PROVE  Under(B, p) = EntriesBelow(B, p)
<1>1. PICK z \in DOMAIN B : \E n \in 0..Len(z) - 1 :
           /\ z \in Word(Len(z)) /\ Len(z) \in 0..MaxLevel
           /\ p = Prefix(z, n) /\ p \in Word(n) /\ Len(p) = n /\ n \in 0..MaxLevel
           /\ Covers(p, z) /\ p \in Words /\ z \in Words /\ p \notin DOMAIN B
  BY BranchAbove
<1>2. Divides(DOMAIN B) /\ MaxLevel \in Nat
  BY LevelsAreNatural DEF Tree
<1>3. ASSUME NEW d \in Under(B, p) PROVE d \in EntriesBelow(B, p)
  <2>1. PICK x \in DOMAIN B : d \in Entries(B[x])
    BY DEF Under, InTable
  <2>2. d \in Word(MaxLevel) /\ Covers(x, d) /\ Covers(p, d)
    BY <2>1, EntryLeaf DEF Under
  <2>3. x \in Words /\ Len(x) \in 0..MaxLevel
    BY <1>2, ZoneIs DEF Divides
  <2>4. Len(p) <= Len(x) => Covers(p, x)
    BY <1>1, <2>2, <2>3, CoversCompare
  <2>5. ~(Len(p) <= Len(x)) => Covers(x, p)
    <3>1. ~(Len(p) <= Len(x)) => Len(x) <= Len(p)
      BY <1>1, <1>2, <2>3
    <3> QED BY <1>1, <2>2, <2>3, <3>1, CoversCompare
  <2>6. ASSUME Covers(x, p), ~(Len(p) <= Len(x)) PROVE FALSE
    <3>1. PICK e \in Word(MaxLevel) : Covers(z, e)
      BY <1>1, SomeDistance
    <3>2. Covers(p, e)
      BY <1>1, <3>1, CoversTransitive
    <3>3. Covers(x, e)
      BY <1>1, <2>3, <2>6, <3>2, CoversTransitive
    <3>4. x = z
      BY <1>2, <3>1, <3>3 DEF Divides
    <3> QED BY <1>1, <1>2, <2>6, <3>4
  <2>7. Covers(p, x)
    BY <2>4, <2>5, <2>6
  <2> QED BY <2>1, <2>7 DEF EntriesBelow, LeavesBelow
<1>4. ASSUME NEW d \in EntriesBelow(B, p) PROVE d \in Under(B, p)
  <2>1. PICK x \in DOMAIN B : d \in Entries(B[x]) /\ Covers(p, x)
    BY DEF EntriesBelow, LeavesBelow
  <2>2. d \in Word(MaxLevel) /\ Covers(x, d)
    BY <2>1, EntryLeaf
  <2>3. x \in Words
    BY <1>2 DEF Divides
  <2>4. Covers(p, d)
    BY <1>1, <2>1, <2>2, <2>3, CoversTransitive
  <2> QED BY <2>1, <2>4 DEF Under, InTable
<1> QED BY <1>3, <1>4

\* A branch that merges gets a bin that holds all it had.
LEMMA MergedBin ==
  ASSUME NEW B, Tree(B), NEW T \in Counts, NEW C \in [Ids -> Contact],
         NEW p \in Branches(B), Merges(B, p)
  PROVE  /\ Bin(p, Moved(T, C, Flattened(B, p)))
         /\ Entries(Moved(T, C, Flattened(B, p))) = Under(B, p)
<1> DEFINE r == Flattened(B, p)
           q == Moved(T, C, r)
<1>1. PICK n \in 0..MaxLevel : p \in Word(n)
  BY BranchAbove
<1>2. r \in Seq(Ids) /\ Distinct(r) /\ Entries(r) = Under(B, p)
  BY <1>1, FlattenedIs, UnderIs
<1> HIDE DEF r
<1>3. q \in Seq(Ids) /\ Distinct(q) /\ Entries(q) = Under(B, p)
  BY <1>2, MovedIs
<1> HIDE DEF q
<1>4. Len(q) <= K
  <2>1. Len(q) = Cardinality(Under(B, p)) /\ Len(q) \in Nat
    BY <1>3, PlacesCount, EntriesIs
  <2>2. K \in Nat
    BY RoutingAssumption
  <2>3. Cardinality(Under(B, p)) < K \div 2
    BY DEF Merges
  <2> HIDE DEF Merges
  <2> QED BY <2>1, <2>2, <2>3
<1>5. \A d \in Entries(q) : Covers(p, d)
  BY <1>3 DEF Under
<1> QED BY <1>3, <1>4, <1>5 DEF Bin, q, r

\* On the way to a leaf either the leaf stays or one branch merges.
LEMMA KeptAbove ==
  ASSUME NEW B, Tree(B), NEW z \in DOMAIN B, ~KeptZone(B, z)
  PROVE  \E p \in MergedZones(B) : Covers(p, z)
<1>1. z \in Words /\ Len(z) \in 0..MaxLevel /\ z \in Word(Len(z)) /\ MaxLevel \in Nat
  <2>1. z \in Words
    BY DEF Tree, Divides
  <2> QED BY <2>1, ZoneIs, LevelsAreNatural
<1> DEFINE D == {n \in 0..Len(z) - 1 : Merges(B, Prefix(z, n))}
<1>2. D \in SUBSET Nat /\ D # {}
  BY <1>1 DEF KeptZone
<1>3. PICK n \in D : \A m \in D : n <= m
  <2> HIDE DEF D
  <2> QED BY <1>2, LeastNatural
<1>4. n \in 0..Len(z) - 1 /\ Merges(B, Prefix(z, n))
  OBVIOUS
<1>5. Prefix(z, n) \in Branches(B)
  BY <1>4, BranchIs
<1>6. n \in 0..Len(z) /\ n \in Nat /\ Len(z) \in Nat
  BY <1>1, <1>4
<1>7. Prefix(z, n) \in Word(n) /\ \A i \in 1..n : Prefix(z, n)[i] = z[i]
  BY <1>1, <1>6, PrefixIs
<1>8. Len(Prefix(z, n)) = n
  BY <1>6, <1>7, WordIs
<1>9. KeptZone(B, Prefix(z, n))
  <2> SUFFICES ASSUME NEW m \in 0..n - 1 PROVE ~Merges(B, Prefix(Prefix(z, n), m))
    BY <1>8 DEF KeptZone
  <2>1. m \in 0..n /\ m \in 0..Len(z) - 1 /\ ~(n <= m)
    BY <1>4, <1>6
  <2>2. Prefix(Prefix(z, n), m) = Prefix(z, m)
    BY <1>1, <1>6, <2>1, PrefixOfPrefix
  <2>3. m \notin D
    <3> HIDE DEF D
    <3> QED BY <1>3, <2>1
  <2> QED BY <2>1, <2>2, <2>3
<1>10. Covers(Prefix(z, n), z)
  BY <1>1, <1>4, <1>6, <1>7, CoversIs
<1> QED BY <1>4, <1>5, <1>9, <1>10 DEF MergedZones

\* A zone that stays is below no zone that merges.
LEMMA KeptApart ==
  ASSUME NEW B, Tree(B),
         NEW x \in KeptLeaves(B) \cup MergedZones(B),
         NEW y \in KeptLeaves(B) \cup MergedZones(B),
         NEW d \in Word(MaxLevel), Covers(x, d), Covers(y, d), Len(x) <= Len(y)
  PROVE  x = y
<1>1. /\ \A z \in DOMAIN B : z \in Words
      /\ \A p \in Branches(B) : p \in Words /\ p \notin DOMAIN B
      /\ Divides(DOMAIN B)
  <2>1. Divides(DOMAIN B) /\ DOMAIN B \subseteq Words
    BY DEF Tree, Divides
  <2> QED BY <2>1, BranchAbove
<1>2. x \in Words /\ y \in Words /\ KeptZone(B, x) /\ KeptZone(B, y)
  BY <1>1 DEF KeptLeaves, MergedZones
<1>3. Len(x) \in 0..MaxLevel /\ Len(y) \in 0..MaxLevel /\ x \in Word(Len(x))
      /\ y \in Word(Len(y)) /\ MaxLevel \in Nat
  BY <1>2, ZoneIs, LevelsAreNatural
<1>4. Covers(x, y) /\ Prefix(y, Len(x)) = x
  BY <1>2, CoversCompare
<1>5. CASE Len(x) = Len(y)
  <2>1. Len(x) \in Nat /\ \A i \in 1..Len(x) : x[i] = y[i]
    BY <1>3, <1>4, CoversIs
  <2> QED BY <1>3, <1>5, <2>1, WordEqual
<1>6. CASE Len(x) # Len(y)
  <2>1. Len(x) \in 0..Len(y) - 1
    BY <1>3, <1>6
  <2>2. ~Merges(B, x)
    BY <1>2, <1>4, <2>1 DEF KeptZone
  <2>3. x \in DOMAIN B
    BY <2>2 DEF KeptLeaves, MergedZones
  <2>4. CASE y \in DOMAIN B
    BY <1>1, <1>4, <2>3, <2>4, NoLeafAbove
  <2>5. CASE y \notin DOMAIN B
    <3>1. y \in Branches(B)
      BY <2>5 DEF KeptLeaves, MergedZones
    <3>2. PICK z \in DOMAIN B : \E n \in 0..Len(z) - 1 :
              Len(z) \in 0..MaxLevel /\ Len(y) = n /\ Covers(y, z) /\ z \in Words
      BY <3>1, BranchAbove
    <3>3. PICK e \in Word(MaxLevel) : Covers(z, e)
      BY <1>1, ZoneIs, SomeDistance
    <3>4. Covers(y, e)
      BY <1>2, <3>2, <3>3, CoversTransitive
    <3>5. Covers(x, e)
      BY <1>2, <1>4, <3>4, CoversTransitive
    <3>6. x = z
      BY <1>1, <2>3, <3>3, <3>5 DEF Divides
    <3> QED BY <1>3, <3>2, <3>6
  <2> QED BY <2>4, <2>5
<1> QED BY <1>5, <1>6

\* Consolidate may merge any branches, and the tree is a tree with the same
\* contacts.
LEMMA ConsolidatedKeeps ==
  ASSUME NEW B, Tree(B), NEW T \in Counts, NEW C \in [Ids -> Contact]
  PROVE  Tree(Consolidated(B, T, C)) /\ InTable(Consolidated(B, T, C)) = InTable(B)
<1> DEFINE leaves == KeptLeaves(B)
           branches == MergedZones(B)
           L == leaves \cup branches
           S == Consolidated(B, T, C)
<1>1. S = [x \in L |-> IF x \in leaves THEN B[x] ELSE Moved(T, C, Flattened(B, x))]
  BY ConsolidatedIs
<1>2. DOMAIN S = L
  BY <1>1
<1>3. leaves \subseteq DOMAIN B /\ branches \subseteq Branches(B)
      /\ \A p \in branches : Merges(B, p)
  BY DEF KeptLeaves, MergedZones
<1>4. \A p \in Branches(B) : p \in Words /\ p \notin DOMAIN B
  BY BranchAbove
<1>5. L \subseteq Words
  <2>1. DOMAIN B \subseteq Words
    BY DEF Tree, Divides
  <2> QED BY <1>3, <1>4, <2>1
<1> HIDE DEF S
<1>6. \A x \in branches : /\ Bin(x, S[x]) /\ Entries(S[x]) = Under(B, x)
  <2> SUFFICES ASSUME NEW x \in branches
               PROVE  Bin(x, S[x]) /\ Entries(S[x]) = Under(B, x)
    OBVIOUS
  <2>1. x \in Branches(B) /\ Merges(B, x) /\ x \notin leaves /\ x \in L
    BY <1>3, <1>4
  <2>2. S[x] = Moved(T, C, Flattened(B, x))
    BY <1>1, <2>1
  <2> QED BY <2>1, <2>2, MergedBin
<1>7. \A x \in leaves : Bin(x, S[x]) /\ S[x] = B[x]
  BY <1>1, <1>3 DEF Tree
<1>8. \A x \in L : Bin(x, S[x])
  BY <1>6, <1>7
<1>9. ASSUME NEW d \in Word(MaxLevel) PROVE \E x \in L : Covers(x, d)
  <2>1. PICK z \in DOMAIN B : Covers(z, d)
    BY DEF Tree, Divides
  <2>2. CASE KeptZone(B, z)
    BY <2>1, <2>2 DEF KeptLeaves
  <2>3. CASE ~KeptZone(B, z)
    <3>1. PICK p \in branches : Covers(p, z)
      BY <2>3, KeptAbove
    <3>2. p \in Words /\ z \in Words
      BY <1>3, <1>4 DEF Tree, Divides
    <3>3. Covers(p, d)
      BY <2>1, <3>1, <3>2, CoversTransitive
    <3> QED BY <3>3
  <2> QED BY <2>2, <2>3
<1>10. ASSUME NEW d \in Word(MaxLevel), NEW x \in L, NEW y \in L, Covers(x, d), Covers(y, d)
       PROVE  x = y
  <2>1. Len(x) \in 0..MaxLevel /\ Len(y) \in 0..MaxLevel
    BY <1>5, ZoneIs
  <2>2. Len(x) <= Len(y) \/ Len(y) <= Len(x)
    BY <2>1, LevelsAreNatural
  <2>3. CASE Len(x) <= Len(y)
    BY <1>10, <2>3, KeptApart
  <2>4. CASE Len(y) <= Len(x)
    <3>1. y = x
      BY <1>10, <2>4, KeptApart
    <3> QED BY <3>1
  <2> QED BY <2>2, <2>3, <2>4
<1>11. Divides(L)
  BY <1>5, <1>9, <1>10 DEF Divides
<1>12. ASSUME NEW x \in L, NEW i \in 0..Len(x) - 1 PROVE MaySplit(Prefix(x, i))
  <2>1. CASE x \in leaves
    BY <1>3, <2>1, BranchIs DEF Tree
  <2>2. CASE x \in branches
    <3>1. PICK z \in DOMAIN B : \E n \in 0..Len(z) - 1 :
              /\ z \in Word(Len(z)) /\ Len(z) \in 0..MaxLevel /\ x = Prefix(z, n) /\ Len(x) = n
      BY <1>3, <2>2, BranchAbove
    <3>2. PICK n \in 0..Len(z) - 1 : x = Prefix(z, n) /\ Len(x) = n
      BY <3>1
    <3>3. /\ Len(z) \in Nat /\ n \in 0..Len(z) /\ i \in 0..n /\ i \in 0..Len(z) - 1
      BY <3>1, <3>2, LevelsAreNatural
    <3>4. Prefix(x, i) = Prefix(z, i)
      BY <3>1, <3>2, <3>3, PrefixOfPrefix
    <3> QED BY <3>3, <3>4, BranchIs DEF Tree
  <2> QED BY <2>1, <2>2
<1>13. \A p \in Branches(S) : MaySplit(p)
  BY <1>2, <1>12, BranchIs
<1>14. Tree(S)
  BY <1>2, <1>8, <1>11, <1>13 DEF Tree
<1>15. ASSUME NEW d \in InTable(S) PROVE d \in InTable(B)
  <2>1. PICK x \in L : d \in Entries(S[x])
    BY <1>2 DEF InTable
  <2>2. CASE x \in leaves
    BY <1>3, <1>7, <2>1, <2>2 DEF InTable
  <2>3. CASE x \in branches
    BY <1>6, <2>1, <2>3 DEF Under
  <2> QED BY <2>2, <2>3
<1>16. ASSUME NEW d \in InTable(B) PROVE d \in InTable(S)
  <2>1. PICK z \in DOMAIN B : d \in Entries(B[z])
    BY DEF InTable
  <2>2. d \in Word(MaxLevel) /\ Covers(z, d)
    BY <2>1, EntryLeaf
  <2>3. CASE KeptZone(B, z)
    <3>1. z \in leaves
      BY <2>3 DEF KeptLeaves
    <3> QED BY <1>2, <1>7, <2>1, <3>1 DEF InTable
  <2>4. CASE ~KeptZone(B, z)
    <3>1. PICK p \in branches : Covers(p, z)
      BY <2>4, KeptAbove
    <3>2. p \in Words /\ z \in Words
      BY <1>3, <1>4 DEF Tree, Divides
    <3>3. d \in Under(B, p)
      BY <2>2, <3>1, <3>2, CoversTransitive DEF Under
    <3> QED BY <1>2, <1>6, <3>1, <3>3 DEF InTable
  <2> QED BY <2>3, <2>4
<1>17. InTable(S) = InTable(B)
  BY <1>15, <1>16
<1> QED BY <1>14, <1>17 DEF S

-----------------------------------------------------------------------------
(***************************************************************************)
(* The counts per address.                                                  *)
(***************************************************************************)
Holders(S, C, a) == {d \in S : C[d].addr = a}

\* T counts the contacts of S at every address.
Counted(T, S, C) ==
  T \in Counts /\ \A a \in Addresses : T[a] = Cardinality(Holders(S, C, a))

LEMMA HoldersFinite ==
  ASSUME NEW S \in SUBSET Ids, NEW C, NEW a
  PROVE  IsFiniteSet(S) /\ IsFiniteSet(Holders(S, C, a)) /\ Cardinality(Holders(S, C, a)) \in Nat
<1>1. IsFiniteSet(S) /\ Holders(S, C, a) \subseteq S
  BY RoutingAssumption, FS_Subset DEF Holders
<1> QED BY <1>1, FS_Subset, FS_CardinalityType

\* The counts are those of the addresses only.
LEMMA CountedSame ==
  ASSUME NEW T, NEW S \in SUBSET Ids, NEW C, Counted(T, S, C), NEW D,
         \A d \in S : D[d].addr = C[d].addr
  PROVE  Counted(T, S, D)
<1>1. \A a \in Addresses : Holders(S, D, a) = Holders(S, C, a)
  BY DEF Holders
<1> QED BY <1>1 DEF Counted

\* Nobody is gone: nothing changes.
LEMMA TrackedNobody ==
  ASSUME NEW T \in Counts, NEW C
  PROVE  TrackedAfter(T, C, {}) = T
<1>1. \A a \in Addresses : {d \in {} : C[d].addr = a} = {}
  OBVIOUS
<1>2. TrackedAfter(T, C, {}) = [a \in Addresses |-> T[a] - 0]
  <2>1. \A a \in Addresses : Cardinality({d \in {} : C[d].addr = a}) = 0
    BY <1>1, FS_EmptySet
  <2> QED BY <2>1 DEF TrackedAfter
<1>3. \A a \in Addresses : T[a] \in 0..MaxPerAddress
  BY DEF Counts
<1>4. \A a \in Addresses : T[a] - 0 = T[a]
  BY <1>3 DEF MaxPerAddress
<1> QED BY <1>2, <1>4 DEF Counts

\* Those who are gone are no longer counted.
LEMMA TrackedGone ==
  ASSUME NEW T, NEW S \in SUBSET Ids, NEW C, Counted(T, S, C), NEW gone \in SUBSET S
  PROVE  Counted(TrackedAfter(T, C, gone), S \ gone, C)
<1> DEFINE U == TrackedAfter(T, C, gone)
<1>1. ASSUME NEW a \in Addresses
      PROVE  U[a] = Cardinality(Holders(S \ gone, C, a)) /\ U[a] \in 0..MaxPerAddress
  <2>1. IsFiniteSet(Holders(S, C, a)) /\ IsFiniteSet(Holders(gone, C, a))
        /\ Cardinality(Holders(S, C, a)) \in Nat /\ Cardinality(Holders(gone, C, a)) \in Nat
        /\ Cardinality(Holders(S \ gone, C, a)) \in Nat
    BY HoldersFinite
  <2>2. /\ Holders(S \ gone, C, a) = Holders(S, C, a) \ Holders(gone, C, a)
        /\ Holders(S, C, a) \cap Holders(gone, C, a) = Holders(gone, C, a)
    BY DEF Holders
  <2>3. Cardinality(Holders(S, C, a) \ Holders(gone, C, a))
          = Cardinality(Holders(S, C, a)) - Cardinality(Holders(S, C, a) \cap Holders(gone, C, a))
    BY <2>1, FS_Difference
  <2>4. U[a] = T[a] - Cardinality(Holders(gone, C, a))
    BY DEF TrackedAfter, Holders
  <2>5. T[a] = Cardinality(Holders(S, C, a)) /\ T[a] \in 0..1
    BY DEF Counted, Counts, MaxPerAddress
  <2>6. U[a] = Cardinality(Holders(S \ gone, C, a))
    BY <2>2, <2>3, <2>4, <2>5
  <2>7. U[a] \in 0..1
    BY <2>1, <2>4, <2>5, <2>6
  <2> QED BY <2>6, <2>7 DEF MaxPerAddress
<1>2. U = [a \in Addresses |-> U[a]]
  BY DEF TrackedAfter
<1> HIDE DEF U
<1>3. U \in Counts
  BY <1>1, <1>2 DEF Counts
<1> QED BY <1>1, <1>3 DEF Counted, U

\* A new contact is counted at its address.
LEMMA TrackedNew ==
  ASSUME NEW T, NEW S \in SUBSET Ids, NEW C, Counted(T, S, C),
         NEW d \in Ids, d \notin S, NEW D, NEW a \in Addresses, D[d].addr = a,
         \A e \in S : D[e].addr = C[e].addr, T[a] < MaxPerAddress
  PROVE  Counted([T EXCEPT ![a] = @ + 1], S \cup {d}, D)
<1> DEFINE U == [T EXCEPT ![a] = @ + 1]
<1>1. T \in [Addresses -> 0..1] /\ T[a] = 0
  BY DEF Counted, Counts, MaxPerAddress
<1>2. \A b \in Addresses : T[b] = Cardinality(Holders(S, C, b))
  BY DEF Counted
<1>3. U \in Counts /\ U[a] = T[a] + 1 /\ \A b \in Addresses : b # a => U[b] = T[b]
  BY <1>1 DEF Counts, MaxPerAddress
<1> HIDE DEF U
<1>4. ASSUME NEW b \in Addresses, b # a PROVE U[b] = Cardinality(Holders(S \cup {d}, D, b))
  <2>1. Holders(S \cup {d}, D, b) = Holders(S, C, b)
    BY <1>4 DEF Holders
  <2> QED BY <1>2, <1>3, <1>4, <2>1
<1>5. U[a] = Cardinality(Holders(S \cup {d}, D, a))
  <2>1. Holders(S \cup {d}, D, a) = Holders(S, C, a) \cup {d} /\ d \notin Holders(S, C, a)
    BY DEF Holders
  <2>2. IsFiniteSet(Holders(S, C, a))
    BY HoldersFinite
  <2>3. Cardinality(Holders(S, C, a) \cup {d}) = Cardinality(Holders(S, C, a)) + 1
    BY <2>1, <2>2, FS_AddElement
  <2> QED BY <1>2, <1>3, <2>1, <2>3
<1> QED BY <1>3, <1>4, <1>5 DEF Counted, U

\* A contact that moves takes its count along.
LEMMA TrackedMoved ==
  ASSUME NEW T, NEW S \in SUBSET Ids, NEW C \in [Ids -> Contact], Counted(T, S, C),
         NEW d \in S, NEW a \in Addresses, NEW D, D[d].addr = a,
         \A e \in S : e # d => D[e].addr = C[e].addr, MayMove(T, C[d], a)
  PROVE  Counted(Retracked(T, C[d].addr, a), S, D)
<1> DEFINE o == C[d].addr
           U == Retracked(T, o, a)
<1>1. o \in Addresses
  BY DEF Contact
<1>2. CASE o = a
  <2>1. U = T
    BY <1>2 DEF Retracked
  <2>2. \A e \in S : D[e].addr = C[e].addr
    BY <1>2
  <2> QED BY <2>1, <2>2, CountedSame
<1>3. CASE o # a
  <2> DEFINE R == S \ {d}
             V == TrackedAfter(T, C, {d})
  <2>1. Counted(V, R, C)
    BY TrackedGone
  <2>2. \A b \in Addresses : V[b] = T[b] - Cardinality({e \in {d} : C[e].addr = b})
    BY DEF TrackedAfter
  <2>3. V[o] = T[o] - 1 /\ \A b \in Addresses : b # o => V[b] = T[b]
    <3>1. {e \in {d} : C[e].addr = o} = {d} /\ \A b : b # o => {e \in {d} : C[e].addr = b} = {}
      OBVIOUS
    <3>2. Cardinality({d}) = 1 /\ Cardinality({}) = 0
      BY FS_Singleton, FS_EmptySet
    <3>3. \A b \in Addresses : T[b] \in 0..1
      BY DEF Counted, Counts, MaxPerAddress
    <3>4. V[o] = T[o] - 1
      BY <1>1, <2>2, <3>1, <3>2
    <3>5. ASSUME NEW b \in Addresses, b # o PROVE V[b] = T[b]
      <4>1. {e \in {d} : C[e].addr = b} = {}
        BY <3>5
      <4>2. V[b] = T[b] - Cardinality({e \in {d} : C[e].addr = b})
        BY <2>2
      <4>3. V[b] = T[b] - 0
        BY <3>2, <4>1, <4>2
      <4> QED BY <3>3, <4>3
    <3> QED BY <3>4, <3>5
  <2>4. V[a] < MaxPerAddress
    BY <1>3, <2>3 DEF MayMove
  <2> HIDE DEF V, R
  <2>5. Counted([V EXCEPT ![a] = @ + 1], R \cup {d}, D)
    <3>1. R \in SUBSET Ids /\ d \in Ids /\ d \notin R /\ \A e \in R : D[e].addr = C[e].addr
      BY DEF R
    <3> QED BY <2>1, <2>4, <3>1, TrackedNew
  <2>6. R \cup {d} = S
    BY DEF R
  <2>7. [V EXCEPT ![a] = @ + 1] = U
    <3>1. U = [T EXCEPT ![o] = @ - 1, ![a] = @ + 1]
      BY <1>3 DEF Retracked
    <3>2. T \in [Addresses -> 0..1] /\ V \in [Addresses -> 0..1]
      BY <2>1 DEF Counted, Counts, MaxPerAddress
    <3>3. \A b \in Addresses : U[b] = [V EXCEPT ![a] = @ + 1][b]
      BY <1>1, <1>3, <2>3, <3>1, <3>2
    <3> HIDE DEF U, o
    <3>4. U = [b \in Addresses |-> U[b]]
      BY <3>1, <3>2
    <3> QED BY <3>2, <3>3, <3>4
  <2> QED BY <2>5, <2>6, <2>7
<1> QED BY <1>2, <1>3

-----------------------------------------------------------------------------
(***************************************************************************)
(* The invariant.                                                           *)
(***************************************************************************)
\* The bins B, the data C of the contacts, the counts T and the set of all
\* contacts agree, and the bins are those of a tree.
Agrees(B, C, T, all) ==
  /\ Tree(B)
  /\ C \in [Ids -> Contact]
  /\ all = InTable(B)
  /\ Counted(T, InTable(B), C)

Inv == Agrees(bins, contact, tracked, known)

\* A packet is a packet.
LEMMA PacketsAre == Greetings \subseteq Packet /\ Mentions \subseteq Packet /\ Saved \subseteq Packet
BY RoutingAssumption

LEMMA BlankIs == Blank \in Contact
<1>1. (CHOOSE a \in Addresses : TRUE) \in Addresses
  BY RoutingAssumption
<1> QED BY <1>1 DEF Blank, Contact, Dead

\* One bin changes: the others and the zones stay.
LEMMA OneBin ==
  ASSUME NEW B, Tree(B), NEW z \in DOMAIN B, NEW q, Bin(z, q)
  PROVE  /\ Tree([B EXCEPT ![z] = q])
         /\ InTable([B EXCEPT ![z] = q]) = (InTable(B) \ Entries(B[z])) \cup Entries(q)
<1> DEFINE S == [B EXCEPT ![z] = q]
<1>1. DOMAIN S = DOMAIN B /\ S[z] = q /\ \A x \in DOMAIN B : x # z => S[x] = B[x]
  OBVIOUS
<1> HIDE DEF S
<1>2. Branches(S) = Branches(B)
  BY <1>1 DEF Branches
<1>3. Tree(S)
  BY <1>1, <1>2 DEF Tree
<1>4. \A x \in DOMAIN B : x # z => Entries(B[x]) \cap Entries(B[z]) = {}
  <2> SUFFICES ASSUME NEW x \in DOMAIN B, NEW d \in Entries(B[x]), d \in Entries(B[z])
               PROVE  x = z
    OBVIOUS
  <2> QED BY EntryLeaf
<1>5. ASSUME NEW d \in InTable(S) PROVE d \in (InTable(B) \ Entries(B[z])) \cup Entries(q)
  <2>1. PICK x \in DOMAIN B : d \in Entries(S[x])
    BY <1>1 DEF InTable
  <2> QED BY <1>1, <1>4, <2>1 DEF InTable
<1>6. ASSUME NEW d \in (InTable(B) \ Entries(B[z])) \cup Entries(q) PROVE d \in InTable(S)
  <2>1. CASE d \in Entries(q)
    BY <1>1, <2>1 DEF InTable
  <2>2. CASE d \notin Entries(q)
    <3>1. PICK x \in DOMAIN B : d \in Entries(B[x]) /\ x # z
      BY <2>2 DEF InTable
    <3> QED BY <1>1, <3>1 DEF InTable
  <2> QED BY <2>1, <2>2
<1> QED BY <1>3, <1>5, <1>6 DEF S

\* An entry goes to the bottom of its bin.
LEMMA AlivePushes ==
  ASSUME NEW B, Tree(B), NEW d \in InTable(B)
  PROVE  LET S == [B EXCEPT ![LeafOf(B, d)] = PushToBottom(@, d)]
         IN  Tree(S) /\ InTable(S) = InTable(B)
<1> DEFINE z == LeafOf(B, d)
           q == PushToBottom(B[z], d)
<1>1. d \in Ids /\ d \in Entries(B[z]) /\ z \in DOMAIN B
  <2>1. d \in Ids
    BY InTableIs
  <2> QED BY <2>1, InTableIs, IdIs, LeafIs DEF Tree
<1>2. Bin(z, B[z])
  BY <1>1 DEF Tree
<1>3. q \in Seq(Ids) /\ Len(q) = Len(B[z]) /\ Entries(q) = Entries(B[z]) /\ Distinct(q)
  BY <1>1, <1>2, PushIs DEF Bin
<1> HIDE DEF q
<1>4. Bin(z, q)
  BY <1>2, <1>3 DEF Bin
<1>5. Entries(B[z]) \subseteq InTable(B)
  BY <1>1 DEF InTable
<1>6. /\ Tree([B EXCEPT ![z] = q])
      /\ InTable([B EXCEPT ![z] = q]) = (InTable(B) \ Entries(B[z])) \cup Entries(q)
  BY <1>1, <1>4, OneBin
<1> QED BY <1>3, <1>5, <1>6 DEF q

-----------------------------------------------------------------------------
(***************************************************************************)
(* Add.                                                                     *)
(***************************************************************************)
\* Nobody leaves the table.
Stays == InTable(bins) \subseteq InTable(bins')

\* A contact that becomes verified at an address has it from packet p.
Carried(p) ==
  \A d \in InTable(bins') :
    contact'[d].verified
      /\ ~(d \in InTable(bins) /\ contact[d].verified /\ contact[d].addr = contact'[d].addr)
    => p.id = d /\ p.verified

LEMMA InsertKeeps ==
  ASSUME Inv, NEW p \in Packet, NEW hello \in BOOLEAN, Insert(p, hello)
  PROVE  Inv' /\ Stays /\ Carried(p)
<1> DEFINE d == p.id
           B == Split(bins, tracked, contact, d)
           T == TrackedAfter(tracked, contact, InTable(bins) \ InTable(B))
           z == LeafOf(B, d)
           e == NewContact(p, hello)
<1>1. d \in Ids /\ p.addr \in Addresses /\ e \in Contact /\ e.addr = p.addr
      /\ e.verified = p.verified
  BY DEF Packet, NewContact, Contact, Dead
<1>2. Tree(bins) /\ tracked \in Counts /\ contact \in [Ids -> Contact]
      /\ known = InTable(bins) /\ Counted(tracked, InTable(bins), contact)
  BY DEF Inv, Agrees, Counted
<1>3. Tree(B) /\ InTable(B) = InTable(bins)
  BY <1>1, <1>2, SplitKeeps
<1>4. T = tracked
  <2>1. InTable(bins) \ InTable(B) = {}
    BY <1>3
  <2> QED BY <1>2, <2>1, TrackedNobody
<1>5. d \notin InTable(bins)
  <2>1. d \notin Entries(bins[LeafOf(bins, d)])
    BY DEF Insert
  <2> QED BY <1>1, <1>2, <2>1, InTableIs
<1>6. \/ /\ Len(B[z]) < K /\ T[p.addr] < MaxPerAddress
         /\ bins' = [B EXCEPT ![z] = Append(@, d)]
         /\ contact' = [contact EXCEPT ![d] = e]
         /\ tracked' = [T EXCEPT ![p.addr] = @ + 1]
         /\ known' = known \cup {d}
      \/ bins' = B /\ tracked' = T /\ UNCHANGED <<contact, known>>
  BY DEF Insert
<1> HIDE DEF B, T
<1>7. CASE bins' = B /\ tracked' = T /\ UNCHANGED <<contact, known>>
  BY <1>2, <1>3, <1>4, <1>7 DEF Inv, Agrees, Stays, Carried
<1>8. CASE /\ Len(B[z]) < K /\ T[p.addr] < MaxPerAddress
           /\ bins' = [B EXCEPT ![z] = Append(@, d)]
           /\ contact' = [contact EXCEPT ![d] = e]
           /\ tracked' = [T EXCEPT ![p.addr] = @ + 1]
           /\ known' = known \cup {d}
  <2> DEFINE q == Append(B[z], d)
  <2>1. z \in DOMAIN B /\ Covers(z, d) /\ d \notin Entries(B[z]) /\ Bin(z, B[z])
    <3>1. z \in DOMAIN B /\ Covers(z, d)
      BY <1>1, <1>3, IdIs, LeafIs DEF Tree
    <3> QED BY <1>3, <1>5, <3>1 DEF Tree, InTable
  <2>2. /\ q \in Seq(Ids) /\ Len(q) = Len(B[z]) + 1 /\ Entries(q) = Entries(B[z]) \cup {d}
        /\ Distinct(q)
    BY <1>1, <2>1, AppendIs DEF Bin
  <2> HIDE DEF q
  <2>3. Bin(z, q)
    <3>1. Len(q) <= K
      BY <1>8, <2>1, <2>2, EntriesIs, RoutingAssumption DEF Bin
    <3> QED BY <2>1, <2>2, <3>1 DEF Bin
  <2>4. bins' = [B EXCEPT ![z] = q]
    BY <1>8 DEF q
  <2>5. Tree(bins') /\ InTable(bins') = (InTable(B) \ Entries(B[z])) \cup Entries(q)
    <3> HIDE DEF z
    <3>0. Tree(B) /\ z \in DOMAIN B /\ Bin(z, q)
      BY <1>3, <2>1, <2>3
    <3> HIDE DEF d, e
    <3>1. /\ Tree([B EXCEPT ![z] = q])
          /\ InTable([B EXCEPT ![z] = q]) = (InTable(B) \ Entries(B[z])) \cup Entries(q)
      BY <3>0, OneBin
    <3> QED BY <2>4, <3>1
  <2>6. InTable(bins') = InTable(bins) \cup {d}
    <3>1. Entries(B[z]) \subseteq InTable(B)
      BY <2>1 DEF InTable
    <3> QED BY <1>3, <2>2, <2>5, <3>1
  <2> HIDE DEF e, d, z
  <2>7. /\ contact' \in [Ids -> Contact] /\ contact'[d] = e
        /\ \A x \in Ids : x # d => contact'[x] = contact[x]
    BY <1>1, <1>2, <1>8
  <2>8. InTable(bins) \subseteq Ids
    BY <1>2, InTableIs
  <2>9. Counted(tracked', InTable(bins) \cup {d}, contact')
    <3>1. contact'[d].addr = p.addr /\ \A x \in InTable(bins) : contact'[x].addr = contact[x].addr
      BY <1>1, <1>5, <2>7, <2>8
    <3>2. tracked' = [tracked EXCEPT ![p.addr] = @ + 1] /\ tracked[p.addr] < MaxPerAddress
      BY <1>4, <1>8
    <3> QED BY <1>1, <1>2, <1>5, <2>8, <3>1, <3>2, TrackedNew
  <2>10. Inv'
    BY <1>2, <1>8, <2>5, <2>6, <2>7, <2>9 DEF Inv, Agrees
  <2>11. Stays
    BY <2>6 DEF Stays
  <2>12. Carried(p)
    BY <1>1, <1>5, <2>6, <2>7, <2>8 DEF Carried, d
  <2> QED BY <2>10, <2>11, <2>12
<1> QED BY <1>6, <1>7, <1>8

\* A contact that takes an update is in the table, and stays.
LEMMA SetAliveKeeps ==
  ASSUME Inv, NEW d \in InTable(bins), SetAlive(d)
  PROVE  Tree(bins') /\ InTable(bins') = InTable(bins)
BY AlivePushes DEF SetAlive, Inv, Agrees

\* The data of one contact of the table changes.
LEMMA OneContact ==
  ASSUME Inv, NEW d \in InTable(bins), NEW e \in Contact,
         Tree(bins'), InTable(bins') = InTable(bins), known' = known,
         contact' = [contact EXCEPT ![d] = e],
         \/ tracked' = tracked /\ e.addr = contact[d].addr
         \/ /\ MayMove(tracked, contact[d], e.addr)
            /\ tracked' = Retracked(tracked, contact[d].addr, e.addr)
  PROVE  Inv'
<1>1. Tree(bins) /\ contact \in [Ids -> Contact]
      /\ known = InTable(bins) /\ Counted(tracked, InTable(bins), contact)
  BY DEF Inv, Agrees
<1>2. InTable(bins) \subseteq Ids
  BY <1>1, InTableIs
<1>3. /\ contact' \in [Ids -> Contact] /\ contact'[d] = e
      /\ \A x \in InTable(bins) : x # d => contact'[x] = contact[x]
  BY <1>1, <1>2
<1>4. e.addr \in Addresses
  BY DEF Contact
<1>5. Counted(tracked', InTable(bins), contact')
  <2>1. CASE tracked' = tracked /\ e.addr = contact[d].addr
    <3>1. \A x \in InTable(bins) : contact'[x].addr = contact[x].addr
      BY <1>3, <2>1
    <3> QED BY <1>1, <1>2, <2>1, <3>1, CountedSame
  <2>2. CASE /\ MayMove(tracked, contact[d], e.addr)
             /\ tracked' = Retracked(tracked, contact[d].addr, e.addr)
    <3>1. /\ contact'[d].addr = e.addr
          /\ \A x \in InTable(bins) : x # d => contact'[x].addr = contact[x].addr
      BY <1>3
    <3> QED BY <1>1, <1>2, <1>4, <2>2, <3>1, TrackedMoved
  <2> QED BY <2>1, <2>2
<1> QED BY <1>1, <1>3, <1>5 DEF Inv, Agrees

LEMMA UpdateKeeps ==
  ASSUME Inv, NEW p \in Packet, NEW hello \in BOOLEAN, Update(p, hello)
  PROVE  Inv' /\ Stays /\ Carried(p)
<1> DEFINE d == p.id
           e == contact[d]
<1>1. Tree(bins) /\ contact \in [Ids -> Contact] /\ known' = known
  BY DEF Inv, Agrees, Update
<1>2. InTable(bins) \subseteq Ids
  BY <1>1, InTableIs
<1>3. d \in Ids /\ p.addr \in Addresses /\ p.version \in Nat /\ p.key \in Nat /\ p.verified \in BOOLEAN
  BY DEF Packet
<1>4. d \in InTable(bins)
  <2>1. d \in Entries(bins[LeafOf(bins, d)])
    BY DEF Update
  <2> QED BY <1>1, <1>3, <2>1, InTableIs
<1>5. e \in Contact
  BY <1>1, <1>3
<1>6. ASSUME NEW f, contact' = [contact EXCEPT ![d] = f], InTable(bins') = InTable(bins),
             f.verified => p.verified \/ (e.verified /\ f.addr = e.addr)
      PROVE  Stays /\ Carried(p)
  <2>1. contact'[d] = f /\ \A x \in InTable(bins) : x # d => contact'[x] = contact[x]
    BY <1>1, <1>2, <1>3, <1>6
  <2> QED BY <1>6, <2>1 DEF Stays, Carried
<1>7. CASE Refresh(p)
  <2>1. PICK age \in Ages : contact' = [contact EXCEPT ![d] = UpdateType(e, age)]
    BY <1>7 DEF Refresh
  <2> DEFINE f == UpdateType(e, age)
  <2>2. f \in Contact /\ f.addr = e.addr /\ f.verified = e.verified
    <3>1. age \in 0..4
      BY RoutingAssumption
    <3> QED BY <1>5, <3>1 DEF UpdateType, Contact, Dead
  <2>3. Tree(bins') /\ InTable(bins') = InTable(bins) /\ tracked' = tracked
    BY <1>4, <1>7, SetAliveKeeps DEF Refresh
  <2> HIDE DEF f
  <2>4. contact' = [contact EXCEPT ![d] = f]
    BY <2>1 DEF f
  <2>5. Inv'
    BY <1>1, <1>4, <2>2, <2>3, <2>4, OneContact
  <2> QED BY <1>6, <2>2, <2>3, <2>4, <2>5
<1>8. ASSUME NEW f, f = SetIPAddress(e, p.addr)
      PROVE  /\ f \in Contact /\ f.addr = p.addr
             /\ f.verified => e.verified /\ f.addr = e.addr
  <2>1. CASE e.addr = p.addr
    BY <1>5, <1>8, <2>1 DEF SetIPAddress
  <2>2. CASE e.addr # p.addr
    BY <1>3, <1>5, <1>8, <2>2 DEF SetIPAddress, Contact
  <2> QED BY <2>1, <2>2
<1>9. CASE FullUpdate(p, hello)
  <2>1. PICK age \in Ages :
           contact' = [contact EXCEPT ![d] = UpdateType(Updated(e, p, hello), age)]
    BY <1>9 DEF FullUpdate
  <2> DEFINE g == SetIPAddress(e, p.addr)
             f == UpdateType(Updated(e, p, hello), age)
  <2>2. /\ g \in Contact /\ g.addr = p.addr
        /\ g.verified => e.verified /\ g.addr = e.addr
    BY <1>8
  <2>3. /\ f \in Contact /\ f.addr = p.addr
        /\ f.verified => p.verified \/ g.verified
    <3>1. age \in 0..4
      BY RoutingAssumption
    <3>2. f = [g EXCEPT !.version = p.version, !.key = p.key,
                 !.verified = @ \/ p.verified, !.hello = @ \/ hello,
                 !.type = age, !.expires = "ahead"]
      <4> HIDE DEF g
      <4>1. Updated(e, p, hello) = [g EXCEPT !.version = p.version, !.key = p.key,
                                      !.verified = @ \/ p.verified, !.hello = @ \/ hello]
        BY DEF Updated, g
      <4> QED BY <2>2, <4>1 DEF UpdateType, Contact
    <3> HIDE DEF g, f
    <3> QED BY <1>3, <2>2, <3>1, <3>2 DEF Contact, Dead
  <2>4. Tree(bins') /\ InTable(bins') = InTable(bins)
    BY <1>4, <1>9, SetAliveKeeps DEF FullUpdate
  <2> HIDE DEF f, g
  <2>5. contact' = [contact EXCEPT ![d] = f]
    BY <2>1 DEF f
  <2>6. MayMove(tracked, e, f.addr) /\ tracked' = Retracked(tracked, e.addr, f.addr)
    BY <1>9, <2>3 DEF FullUpdate
  <2>7. Inv'
    BY <1>1, <1>4, <2>3, <2>4, <2>5, <2>6, OneContact
  <2>8. f.verified => p.verified \/ (e.verified /\ f.addr = e.addr)
    BY <2>2, <2>3
  <2> QED BY <1>6, <2>4, <2>5, <2>7, <2>8
<1>10. CASE MoveOnly(p)
  <2> DEFINE f == SetIPAddress(e, p.addr)
  <2>1. /\ f \in Contact /\ f.addr = p.addr
        /\ f.verified => e.verified /\ f.addr = e.addr
    BY <1>8
  <2>2. Tree(bins') /\ InTable(bins') = InTable(bins) /\ contact' = [contact EXCEPT ![d] = f]
    BY <1>1, <1>10 DEF MoveOnly
  <2>3. MayMove(tracked, e, p.addr) /\ tracked' = Retracked(tracked, e.addr, p.addr)
    BY <1>10 DEF MoveOnly
  <2> HIDE DEF f
  <2>4. Inv'
    BY <1>1, <1>4, <2>1, <2>2, <2>3, OneContact
  <2> QED BY <1>6, <2>1, <2>2, <2>4
<1>11. CASE Rejected(p) /\ UNCHANGED <<bins, contact, tracked>>
  <2>1. Inv'
    BY <1>1, <1>11 DEF Inv
  <2> QED BY <1>11, <2>1 DEF Stays, Carried
<1> QED BY <1>7, <1>9, <1>10, <1>11 DEF Update

-----------------------------------------------------------------------------
(***************************************************************************)
(* The small timer.                                                         *)
(***************************************************************************)
\* A set of places cut off where there are most of them has at most that many.
LEMMA AtMost ==
  ASSUME NEW n \in Nat, NEW due \in SUBSET (1..n), NEW most \in Nat
  PROVE  LET I == {i \in due : Cardinality({j \in due : j <= i}) <= most}
         IN  IsFiniteSet(I) /\ Cardinality(I) <= most
<1> DEFINE Until(i) == Cardinality({j \in due : j <= i})
           I == {i \in due : Until(i) <= most}
<1> HIDE DEF Until
<1>1. IsFiniteSet(due) /\ IsFiniteSet(I)
  <2>1. IsFiniteSet(1..n)
    BY FS_Interval
  <2> QED BY <2>1, FS_Subset
<1>0. SUFFICES Cardinality(I) <= most
  BY <1>0, <1>1 DEF Until
<1>2. CASE I = {}
  <2> HIDE DEF I
  <2>1. Cardinality(I) = 0
    BY <1>2, FS_EmptySet
  <2> QED BY <2>1
<1>3. CASE I # {}
  <2>1. I \in SUBSET (0..n)
    <3>1. I \subseteq 1..n
      OBVIOUS
    <3>2. 1..n \subseteq 0..n
      OBVIOUS
    <3> HIDE DEF I
    <3> QED BY <3>1, <3>2
  <2>2. PICK i \in I : \A j \in I : j <= i
    <3> HIDE DEF I
    <3> QED BY <1>3, <2>1, GreatestNatural
  <2> DEFINE D == {j \in due : j <= i}
  <2>3. I \subseteq D /\ IsFiniteSet(D) /\ Cardinality(D) <= most
    <3>1. I \subseteq D
      BY <2>2
    <3>2. IsFiniteSet(D)
      BY <1>1, FS_Subset
    <3> QED BY <3>1, <3>2 DEF Until
  <2>4. Cardinality(I) <= Cardinality(D) /\ Cardinality(I) \in Nat /\ Cardinality(D) \in Nat
    <3> HIDE DEF D, I
    <3> QED BY <1>1, <2>3, FS_Subset, FS_CardinalityType
  <2> HIDE DEF D, I
  <2>5. Cardinality(I) <= most
    BY <2>3, <2>4
  <2> QED BY <2>5
<1> QED BY <1>2, <1>3

\* The small timer removes dead and overdue entries, and no more than there are
\* contacts above those to keep.
LEMMA RemovedIs ==
  ASSUME Inv, NEW z \in DOMAIN bins
  PROVE  /\ Removed(z) \subseteq Entries(bins[z])
         /\ \A d \in Removed(z) : contact[d].type = Dead /\ contact[d].expires = "due"
         /\ Removed(z) # {} => Cardinality(known \ Removed(z)) >= Keep
<1> DEFINE q    == bins[z]
           due  == {i \in DOMAIN q : contact[q[i]].type = Dead /\ contact[q[i]].expires = "due"}
           most == IF Cardinality(known) > Keep THEN Cardinality(known) - Keep ELSE 0
           I    == {i \in due : Cardinality({j \in due : j <= i}) <= most}
           gone == {q[i] : i \in I}
<1>1. Removed(z) = gone
  BY DEF Removed
<1>2. /\ q \in Seq(Ids) /\ DOMAIN q = 1..Len(q) /\ Len(q) \in Nat
      /\ Entries(q) = {q[i] : i \in 1..Len(q)}
  <2>1. q \in Seq(Ids)
    BY DEF Inv, Agrees, Tree, Bin
  <2> QED BY <2>1, EntriesIs
<1>3. /\ known \subseteq Ids /\ IsFiniteSet(known) /\ Cardinality(known) \in Nat /\ Keep \in Nat
      /\ Entries(q) \subseteq known
  <2>1. known \subseteq Ids /\ Entries(q) \subseteq known
    BY InTableIs DEF Inv, Agrees, InTable
  <2>2. IsFiniteSet(known)
    BY <2>1, RoutingAssumption, FS_Subset
  <2> QED BY <2>1, <2>2, FS_CardinalityType, RoutingAssumption
<1>4. most \in Nat /\ due \in SUBSET (1..Len(q))
  BY <1>2, <1>3
<1>5. gone \subseteq Entries(q)
  BY <1>2
<1>6. \A d \in gone : contact[d].type = Dead /\ contact[d].expires = "due"
  OBVIOUS
<1>7. IsFiniteSet(I) /\ Cardinality(I) <= most
  <2> HIDE DEF due, most
  <2> QED BY <1>2, <1>4, AtMost
<1> HIDE DEF I
<1>8. IsFiniteSet(gone) /\ Cardinality(gone) <= Cardinality(I)
  <2> DEFINE f == [i \in I |-> q[i]]
  <2>1. f \in Surjection(I, gone)
    BY DEF Surjection
  <2> HIDE DEF f, gone
  <2> QED BY <1>7, <2>1, FS_Surjection
<1>9. ASSUME gone # {} PROVE Cardinality(known \ gone) >= Keep
  <2>1. gone \subseteq known /\ known \cap gone = gone
    BY <1>3, <1>5
  <2> HIDE DEF gone, q
  <2>2. Cardinality(known \ gone) = Cardinality(known) - Cardinality(known \cap gone)
    BY <1>3, <1>8, FS_Difference
  <2>3. Cardinality(gone) \in Nat /\ Cardinality(gone) # 0 /\ Cardinality(I) \in Nat
    BY <1>7, <1>8, <1>9, FS_CardinalityType, FS_EmptySet
  <2>4. Cardinality(gone) <= most /\ most # 0
    <3> HIDE DEF most
    <3> QED BY <1>4, <1>7, <1>8, <2>3
  <2>5. most = Cardinality(known) - Keep
    BY <2>4
  <2> HIDE DEF most, due
  <2>6. Cardinality(known \ gone) = Cardinality(known) - Cardinality(gone)
    BY <2>1, <2>2
  <2> QED BY <1>3, <2>3, <2>4, <2>5, <2>6
<1> QED BY <1>1, <1>5, <1>6, <1>9

LEMMA CheckingIs ==
  ASSUME NEW e \in Contact, e.type # Dead
  PROVE  /\ CheckingType(e) \in Contact
         /\ CheckingType(e).addr = e.addr /\ CheckingType(e).verified = e.verified
<1>1. e.type \in 0..4 /\ e.type # 4
  BY DEF Contact, Dead
<1>2. e.type + 1 \in 0..4
  BY <1>1
<1> DEFINE n == e.type + 1
<1>3. CheckingType(e) = [e EXCEPT !.type = n, !.expires = "ahead"]
  BY DEF CheckingType
<1> HIDE DEF n
<1>4. [e EXCEPT !.type = n, !.expires = "ahead"] \in Contact
  BY <1>2 DEF Contact, Dead, n
<1> QED BY <1>3, <1>4 DEF Contact

\* What a step of the timer does to the contacts.
LEMMA SmallTimerKeeps ==
  ASSUME Inv, NEW z, OnSmallTimer(z)
  PROVE  /\ Inv'
         /\ LET gone == InTable(bins) \ InTable(bins')
            IN  /\ \A d \in gone : contact[d].type = Dead /\ contact[d].expires = "due"
                /\ gone # {} => Cardinality(known') >= Keep
         /\ InTable(bins') \subseteq InTable(bins)
         /\ \A d \in InTable(bins') : /\ contact'[d].verified = contact[d].verified
                                      /\ contact'[d].addr = contact[d].addr
<1> DEFINE gone == Removed(z)
           q    == Filter(bins[z], Entries(bins[z]) \ gone)
           C    == [d \in Ids |->
                      IF d \in gone THEN Blank
                      ELSE IF d \in Entries(bins[z]) /\ contact[d].expires = "unset"
                      THEN [contact[d] EXCEPT !.expires = "ahead"] ELSE contact[d]]
           c    == Head(q)
           ping == q # <<>> /\ C[c].expires = "due" /\ C[c].type # Dead
           r    == IF q = <<>> \/ ping THEN q ELSE PushToBottom(q, c)
<1>1. /\ z \in DOMAIN bins /\ known' = known \ gone
      /\ tracked' = TrackedAfter(tracked, contact, gone)
      /\ bins' = [bins EXCEPT ![z] = r]
      /\ contact' = IF ping THEN [C EXCEPT ![c] = CheckingType(@)] ELSE C
  BY DEF OnSmallTimer
<1>2. Tree(bins) /\ contact \in [Ids -> Contact] /\ known = InTable(bins)
      /\ Counted(tracked, InTable(bins), contact) /\ Bin(z, bins[z])
  BY <1>1 DEF Inv, Agrees, Tree
<1>3. /\ gone \subseteq Entries(bins[z])
      /\ \A d \in gone : contact[d].type = Dead /\ contact[d].expires = "due"
      /\ gone # {} => Cardinality(known') >= Keep
  BY <1>1, RemovedIs
<1>4. InTable(bins) \subseteq Ids /\ Entries(bins[z]) \subseteq InTable(bins)
  BY <1>1, <1>2, InTableIs DEF InTable
<1> HIDE DEF gone
<1>5. q \in Seq(Ids) /\ Entries(q) = Entries(bins[z]) \ gone /\ Distinct(q)
  <2> DEFINE U == Entries(bins[z]) \ gone
  <2>1. bins[z] \in Seq(Ids) /\ Distinct(bins[z])
    BY <1>2 DEF Bin
  <2> HIDE DEF U
  <2>2. /\ Filter(bins[z], U) \in Seq(Ids)
        /\ Entries(Filter(bins[z], U)) = Entries(bins[z]) \cap U
        /\ Distinct(Filter(bins[z], U))
    BY <2>1, FilterIs
  <2>3. Entries(bins[z]) \cap U = U
    BY DEF U
  <2> QED BY <2>2, <2>3 DEF U
<1>6. ASSUME NEW d \in Ids
      PROVE  /\ C[d] \in Contact
             /\ d \notin gone => C[d].addr = contact[d].addr /\ C[d].verified = contact[d].verified
  <2>1. contact[d] \in Contact
    BY <1>2
  <2>2. CASE d \in gone
    BY <2>2, BlankIs
  <2>3. CASE d \notin gone /\ d \in Entries(bins[z]) /\ contact[d].expires = "unset"
    <3>1. C[d] = [contact[d] EXCEPT !.expires = "ahead"]
      BY <2>3
    <3> HIDE DEF C
    <3> QED BY <2>1, <2>3, <3>1 DEF Contact
  <2>4. CASE d \notin gone /\ ~(d \in Entries(bins[z]) /\ contact[d].expires = "unset")
    <3>1. C[d] = contact[d]
      BY <2>4
    <3> QED BY <2>1, <3>1
  <2> QED BY <2>2, <2>3, <2>4
<1>7. C \in [Ids -> Contact]
  <2>1. C = [d \in Ids |-> C[d]]
    OBVIOUS
  <2> HIDE DEF C
  <2> QED BY <1>6, <2>1
<1> HIDE DEF q, C
<1>8. ASSUME q # <<>> PROVE c \in Entries(q)
  <2>1. c = q[1] /\ 1 \in 1..Len(q)
    BY <1>5, <1>8, HeadTailProperties, EmptySeq, LenProperties
  <2> QED BY <1>5, <2>1, EntriesIs
<1>9. r \in Seq(Ids) /\ Len(r) = Len(q) /\ Entries(r) = Entries(q) /\ Distinct(r)
  <2>1. CASE q = <<>> \/ ping
    BY <1>5, <2>1
  <2>2. CASE ~(q = <<>> \/ ping)
    <3>1. /\ PushToBottom(q, c) \in Seq(Ids) /\ Len(PushToBottom(q, c)) = Len(q)
          /\ Entries(PushToBottom(q, c)) = Entries(q)
          /\ Distinct(PushToBottom(q, c))
      <4> HIDE DEF c
      <4> QED BY <1>5, <1>8, <2>2, PushIs
    <3> QED BY <2>2, <3>1
  <2> QED BY <2>1, <2>2
<1> HIDE DEF r
<1>10. Bin(z, r)
  <2>1. /\ Len(r) = Cardinality(Entries(r)) /\ Len(bins[z]) = Cardinality(Entries(bins[z]))
        /\ IsFiniteSet(Entries(bins[z])) /\ Len(r) \in Nat /\ Len(bins[z]) \in Nat
        /\ Len(bins[z]) <= K /\ K \in Nat
    BY <1>2, <1>9, PlacesCount, EntriesIs, RoutingAssumption DEF Bin
  <2>2. Entries(r) \subseteq Entries(bins[z])
    BY <1>5, <1>9
  <2>3. Cardinality(Entries(r)) <= Cardinality(Entries(bins[z]))
    BY <2>1, <2>2, FS_Subset
  <2>4. Len(r) <= K
    BY <2>1, <2>3
  <2> QED BY <1>2, <1>9, <2>2, <2>4 DEF Bin
<1>11. Tree(bins') /\ InTable(bins') = InTable(bins) \ gone
  <2>1. /\ Tree([bins EXCEPT ![z] = r])
        /\ InTable([bins EXCEPT ![z] = r]) = (InTable(bins) \ Entries(bins[z])) \cup Entries(r)
    BY <1>1, <1>2, <1>10, OneBin
  <2> QED BY <1>1, <1>3, <1>4, <1>5, <1>9, <2>1
<1>12. /\ contact' \in [Ids -> Contact]
       /\ \A d \in Ids : contact'[d].addr = C[d].addr /\ contact'[d].verified = C[d].verified
  <2>1. CASE ping
    <3>1. c \in Ids
      BY <1>5, <1>8, <2>1, EntriesIs
    <3> DEFINE e == CheckingType(C[c])
    <3>2. e \in Contact /\ e.addr = C[c].addr /\ e.verified = C[c].verified
      <4>1. C[c] \in Contact /\ C[c].type # Dead
        BY <1>6, <2>1, <3>1
      <4> QED BY <4>1, CheckingIs
    <3>3. contact' = [C EXCEPT ![c] = e]
      BY <1>1, <2>1
    <3> HIDE DEF e, c
    <3> QED BY <1>7, <3>1, <3>2, <3>3
  <2>2. CASE ~ping
    BY <1>1, <1>7, <2>2
  <2> QED BY <2>1, <2>2
<1>13. Counted(tracked', InTable(bins'), contact')
  <2>1. Counted(tracked', InTable(bins) \ gone, contact)
    BY <1>1, <1>2, <1>3, <1>4, TrackedGone
  <2>2. \A d \in InTable(bins) \ gone : contact'[d].addr = contact[d].addr
    BY <1>4, <1>6, <1>12
  <2> QED BY <1>4, <1>11, <2>1, <2>2, CountedSame
<1>14. Inv'
  BY <1>1, <1>2, <1>11, <1>12, <1>13 DEF Inv, Agrees
<1>15. InTable(bins) \ InTable(bins') = gone
  BY <1>3, <1>4, <1>11
<1>16. \A d \in InTable(bins') : /\ contact'[d].verified = contact[d].verified
                                 /\ contact'[d].addr = contact[d].addr
  BY <1>4, <1>6, <1>11, <1>12
<1> QED BY <1>3, <1>11, <1>14, <1>15, <1>16

-----------------------------------------------------------------------------
(***************************************************************************)
(* The other steps.                                                         *)
(***************************************************************************)
IInv ==
  /\ Inv
  /\ challenged \subseteq Ids \X Addresses
  /\ phase \in {"loading", "verified", "running"}

\* OnlyTheDeadLeave and VerifiedByChallenge, of one step.
DeadLeave ==
  phase = "running" /\ phase' = "running" =>
    LET gone == InTable(bins) \ InTable(bins')
    IN  /\ \A d \in gone : contact[d].type = Dead /\ contact[d].expires = "due"
        /\ gone # {} => Cardinality(known') >= Keep

ByChallenge ==
  phase = "running" =>
    \A d \in InTable(bins') :
      contact'[d].verified
        /\ ~(d \in InTable(bins) /\ contact[d].verified
               /\ contact[d].addr = contact'[d].addr)
      => \/ \E e \in Ids : <<e, contact'[d].addr>> \in challenged \ challenged'
         \/ \E p \in Greetings \cup Mentions : p.id = d /\ p.verified

LEMMA StayingIsFine == Stays => DeadLeave
BY DEF Stays, DeadLeave

LEMMA CarriedIsFine ==
  ASSUME NEW p \in Greetings \cup Mentions, Carried(p)
  PROVE  ByChallenge
BY DEF Carried, ByChallenge

\* The tree at the start: the root.
LEMMA RootTree ==
  LET B == [z \in {Root} |-> <<>>] IN Tree(B) /\ InTable(B) = {}
<1> DEFINE B == [z \in {Root} |-> <<>>]
<1>1. DOMAIN B = {Root} /\ B[Root] = <<>>
  OBVIOUS
<1> HIDE DEF B
<1>2. Root \in Word(0) /\ 0 \in 0..MaxLevel /\ MaxLevel \in Nat
  BY RootIs, LevelsAreNatural
<1>3. Len(Root) = 0
  BY EmptyBin DEF Root
<1>4. \A d \in Word(MaxLevel) : Covers(Root, d)
  BY <1>2, CoversIs
<1>5. Divides({Root})
  BY <1>2, <1>4 DEF Divides, Words
<1>6. Bin(Root, <<>>)
  BY EmptyBin, RoutingAssumption DEF Bin
<1>7. Branches(B) = {}
  BY <1>1, <1>3, BranchIs
<1>8. Tree(B)
  BY <1>1, <1>5, <1>6, <1>7 DEF Tree
<1>9. InTable(B) = {}
  BY <1>1, EmptyBin DEF InTable
<1> QED BY <1>8, <1>9 DEF B

LEMMA NobodyCounted == \A C : Counted([a \in Addresses |-> 0], {}, C)
<1>1. [a \in Addresses |-> 0] \in Counts
  BY DEF Counts, MaxPerAddress
<1>2. \A C : \A a \in Addresses : Holders({}, C, a) = {}
  BY DEF Holders
<1> QED BY <1>1, <1>2, FS_EmptySet DEF Counted

LEMMA InitKeeps == Init => IInv
<1> SUFFICES ASSUME Init PROVE IInv
  OBVIOUS
<1>1. Tree(bins) /\ InTable(bins) = {}
  BY RootTree DEF Init
<1>2. contact \in [Ids -> Contact]
  BY BlankIs DEF Init
<1>3. Counted(tracked, {}, contact)
  BY NobodyCounted DEF Init
<1>4. Inv
  BY <1>1, <1>2, <1>3 DEF Init, Inv, Agrees
<1> QED BY <1>4 DEF Init, IInv

\* The data of contacts change, and no address does.
LEMMA SameAddresses ==
  ASSUME Inv, bins' = bins, tracked' = tracked, known' = known,
         contact' \in [Ids -> Contact],
         \A d \in InTable(bins) : contact'[d].addr = contact[d].addr
  PROVE  Inv'
<1>1. InTable(bins) \subseteq Ids
  BY InTableIs DEF Inv, Agrees
<1>2. Counted(tracked, InTable(bins), contact')
  BY <1>1, CountedSame DEF Inv, Agrees
<1> QED BY <1>2 DEF Inv, Agrees

LEMMA VerifyKeeps ==
  ASSUME IInv, NEW d \in Ids, NEW a \in Addresses, Verify(d, a),
         UNCHANGED <<bins, tracked, known, phase>>
  PROVE  /\ Inv' /\ Stays
         /\ \A x \in InTable(bins') :
              contact'[x].verified /\ ~(contact[x].verified /\ contact[x].addr = contact'[x].addr)
              => contact'[x].addr = a
<1>1. contact \in [Ids -> Contact] /\ InTable(bins) \subseteq Ids
  BY InTableIs DEF IInv, Inv, Agrees
<1>2. CASE d \in InTable(bins) /\ contact[d].addr = a
  <2> DEFINE e == [contact[d] EXCEPT !.verified = TRUE]
  <2>1. contact[d] \in Contact
    BY <1>1
  <2>2. e \in Contact /\ e.addr = contact[d].addr
    BY <2>1 DEF Contact
  <2>3. contact' = [contact EXCEPT ![d] = e]
    BY <1>2 DEF Verify
  <2> HIDE DEF e
  <2>4. /\ contact' \in [Ids -> Contact] /\ contact'[d] = e
        /\ \A x \in Ids : x # d => contact'[x] = contact[x]
    BY <1>1, <2>2, <2>3
  <2>5. Inv'
    BY <1>1, <2>2, <2>4, SameAddresses DEF IInv
  <2> QED BY <1>1, <1>2, <2>2, <2>4, <2>5 DEF Stays
<1>3. CASE ~(d \in InTable(bins) /\ contact[d].addr = a)
  <2>1. contact' = contact
    BY <1>3 DEF Verify
  <2> QED BY <1>1, <2>1, SameAddresses DEF Stays, IInv
<1> QED BY <1>2, <1>3

LEMMA HelloKeeps ==
  ASSUME IInv, NEW p \in Greetings, Hello(p)
  PROVE  IInv' /\ DeadLeave /\ ByChallenge
<1>1. p \in Packet
  BY PacketsAre
<1>2. Inv' /\ Stays /\ Carried(p)
  BY <1>1, InsertKeeps, UpdateKeeps DEF Hello, IInv
<1>3. challenged' \subseteq Ids \X Addresses /\ phase' = phase
  <2>1. <<p.id, p.from>> \in Ids \X Addresses
    BY <1>1 DEF Packet
  <2>2. challenged' = challenged \cup {<<p.id, p.from>>} \/ challenged' = challenged
    BY DEF Hello
  <2>3. phase' = phase
    BY DEF Hello
  <2> QED BY <2>1, <2>2, <2>3 DEF IInv
<1>4. IInv'
  BY <1>2, <1>3 DEF IInv
<1> QED BY <1>2, <1>4, StayingIsFine, CarriedIsFine

LEMMA BootstrapKeeps ==
  ASSUME IInv, NEW p \in Greetings, BootstrapSender(p)
  PROVE  IInv' /\ DeadLeave /\ ByChallenge
<1>1. Inv' /\ Stays /\ Carried(p)
  BY PacketsAre, InsertKeeps, UpdateKeeps DEF BootstrapSender, IInv
<1>2. IInv'
  BY <1>1 DEF BootstrapSender, IInv
<1> QED BY <1>1, <1>2, StayingIsFine, CarriedIsFine

LEMMA MentionedKeeps ==
  ASSUME IInv, NEW p \in Mentions, Mentioned(p)
  PROVE  IInv' /\ DeadLeave /\ ByChallenge
<1>1. Inv' /\ Stays /\ Carried(p)
  BY PacketsAre, InsertKeeps DEF Mentioned, IInv
<1>2. IInv'
  BY <1>1 DEF Mentioned, IInv
<1> QED BY <1>1, <1>2, StayingIsFine, CarriedIsFine

LEMMA LoadKeeps ==
  ASSUME IInv, NEW p \in Saved, Load(p)
  PROVE  IInv' /\ DeadLeave /\ ByChallenge
<1>1. Inv' /\ Stays
  BY PacketsAre, InsertKeeps DEF Load, IInv
<1>2. phase' \in {"loading", "verified", "running"} /\ challenged' = challenged
  BY DEF Load, IInv
<1>3. phase # "running"
  BY DEF Load
<1> QED BY <1>1, <1>2, <1>3, StayingIsFine DEF IInv, ByChallenge

LEMMA AnsweredKeeps ==
  ASSUME IInv, NEW d \in Ids, NEW a \in Addresses,
         ChallengeAnswered(d, a) \/ HelloAck(d, a)
  PROVE  IInv' /\ DeadLeave /\ ByChallenge
<1>1. /\ Verify(d, a) /\ UNCHANGED <<bins, tracked, known, phase>>
      /\ \E e \in Ids : <<e, a>> \in challenged /\ challenged' = challenged \ {<<e, a>>}
  BY DEF ChallengeAnswered, HelloAck
<1>2. /\ Inv' /\ Stays
      /\ \A x \in InTable(bins') :
           contact'[x].verified /\ ~(contact[x].verified /\ contact[x].addr = contact'[x].addr)
           => contact'[x].addr = a
  BY <1>1, VerifyKeeps
<1>3. PICK e \in Ids : <<e, a>> \in challenged /\ challenged' = challenged \ {<<e, a>>}
  BY <1>1
<1>4. <<e, a>> \in challenged \ challenged'
  BY <1>3
<1>5. IInv'
  BY <1>1, <1>2, <1>3 DEF IInv
<1>6. ByChallenge
  <2> SUFFICES ASSUME NEW x \in InTable(bins'), contact'[x].verified,
                      ~(x \in InTable(bins) /\ contact[x].verified
                          /\ contact[x].addr = contact'[x].addr)
               PROVE  \E y \in Ids : <<y, contact'[x].addr>> \in challenged \ challenged'
    BY DEF ByChallenge
  <2>1. bins' = bins
    BY <1>1
  <2>2. contact'[x].addr = a
    BY <1>2, <2>1
  <2> QED BY <1>4, <2>2
<1> QED BY <1>2, <1>5, <1>6, StayingIsFine

LEMMA ExpiresKeeps ==
  ASSUME IInv, NEW d, NEW a, ChallengeExpires(d, a)
  PROVE  IInv' /\ DeadLeave /\ ByChallenge
<1>1. /\ challenged' \subseteq challenged
      /\ UNCHANGED <<bins, contact, tracked, known, phase>>
  BY DEF ChallengeExpires
<1>2. Inv'
  BY <1>1 DEF Inv, IInv
<1> QED BY <1>1, <1>2 DEF IInv, DeadLeave, ByChallenge

LEMMA TimerKeeps ==
  ASSUME IInv, NEW z, OnSmallTimer(z)
  PROVE  IInv' /\ DeadLeave /\ ByChallenge
<1>1. UNCHANGED <<challenged, phase>>
  BY DEF OnSmallTimer
<1>2. Inv
  BY DEF IInv
<1>3. IInv'
  BY <1>1, <1>2, SmallTimerKeeps DEF IInv
<1>4. DeadLeave
  BY <1>2, SmallTimerKeeps DEF DeadLeave
<1>5. ByChallenge
  BY <1>2, SmallTimerKeeps DEF ByChallenge
<1> QED BY <1>3, <1>4, <1>5

LEMMA ConsolidateKeeps ==
  ASSUME IInv, Consolidate
  PROVE  IInv' /\ DeadLeave /\ ByChallenge
<1> DEFINE B == Consolidated(bins, tracked, contact)
<1>1. Tree(bins) /\ contact \in [Ids -> Contact] /\ Counted(tracked, InTable(bins), contact)
      /\ tracked \in Counts
  BY DEF IInv, Inv, Agrees, Counted
<1>2. Tree(B) /\ InTable(B) = InTable(bins)
  BY <1>1, ConsolidatedKeeps
<1>3. /\ bins' = B /\ UNCHANGED <<contact, known, challenged, phase>>
      /\ tracked' = TrackedAfter(tracked, contact, InTable(bins) \ InTable(B))
  BY DEF Consolidate
<1> HIDE DEF B
<1>4. tracked' = tracked
  <2>1. InTable(bins) \ InTable(B) = {}
    BY <1>2
  <2> QED BY <1>1, <1>3, <2>1, TrackedNobody
<1>5. Inv' /\ Stays
  BY <1>2, <1>3, <1>4 DEF IInv, Inv, Agrees, Stays
<1>6. IInv'
  BY <1>3, <1>5 DEF IInv
<1>7. ByChallenge
  BY <1>2, <1>3 DEF ByChallenge
<1> QED BY <1>5, <1>6, <1>7, StayingIsFine

LEMMA ExpireKeeps ==
  ASSUME IInv, NEW d \in Ids, Expire(d)
  PROVE  IInv' /\ DeadLeave /\ ByChallenge
<1>1. contact \in [Ids -> Contact] /\ InTable(bins) \subseteq Ids
  BY InTableIs DEF IInv, Inv, Agrees
<1> DEFINE e == [contact[d] EXCEPT !.expires = "due"]
<1>2. contact' = [contact EXCEPT ![d] = e] /\ UNCHANGED <<bins, tracked, known, challenged, phase>>
  BY DEF Expire
<1>3. contact[d] \in Contact
  BY <1>1
<1>4. e \in Contact /\ e.addr = contact[d].addr /\ e.verified = contact[d].verified
  BY <1>3 DEF Contact
<1> HIDE DEF e
<1>5. /\ contact' \in [Ids -> Contact]
      /\ \A x \in Ids : /\ contact'[x].addr = contact[x].addr
                        /\ contact'[x].verified = contact[x].verified
  BY <1>1, <1>2, <1>4
<1>6. Inv'
  BY <1>1, <1>2, <1>5, SameAddresses DEF IInv
<1>7. ByChallenge
  BY <1>1, <1>2, <1>5 DEF ByChallenge
<1>8. Stays
  BY <1>2 DEF Stays
<1> QED BY <1>2, <1>6, <1>7, <1>8, StayingIsFine DEF IInv

LEMMA LoadedKeeps ==
  ASSUME IInv, Loaded
  PROVE  IInv' /\ DeadLeave /\ ByChallenge
<1>1. contact \in [Ids -> Contact] /\ InTable(bins) \subseteq Ids
  BY InTableIs DEF IInv, Inv, Agrees
<1>2. /\ phase # "running" /\ phase' = "running" /\ UNCHANGED <<bins, tracked, known, challenged>>
      /\ \/ contact' = contact
         \/ contact' = [d \in Ids |-> IF d \in InTable(bins)
                                      THEN [contact[d] EXCEPT !.verified = TRUE]
                                      ELSE contact[d]]
  BY DEF Loaded
<1>3. contact' \in [Ids -> Contact] /\ \A x \in Ids : contact'[x].addr = contact[x].addr
  <2>1. CASE contact' = contact
    BY <1>1, <2>1
  <2>2. CASE contact' = [d \in Ids |-> IF d \in InTable(bins)
                                       THEN [contact[d] EXCEPT !.verified = TRUE]
                                       ELSE contact[d]]
    <3>1. ASSUME NEW d \in Ids PROVE contact'[d] \in Contact /\ contact'[d].addr = contact[d].addr
      <4>1. contact[d] \in Contact
        BY <1>1
      <4>2. contact'[d] = contact[d] \/ contact'[d] = [contact[d] EXCEPT !.verified = TRUE]
        BY <2>2
      <4> QED BY <4>1, <4>2 DEF Contact
    <3>2. contact' = [d \in Ids |-> contact'[d]]
      BY <2>2
    <3> QED BY <3>1, <3>2
  <2> QED BY <1>2, <2>1, <2>2
<1>4. Inv'
  BY <1>1, <1>2, <1>3, SameAddresses DEF IInv
<1> QED BY <1>2, <1>4 DEF IInv, DeadLeave, ByChallenge

LEMMA RestartKeeps ==
  ASSUME IInv, Restart
  PROVE  IInv' /\ DeadLeave /\ ByChallenge
<1>1. Tree(bins') /\ InTable(bins') = {}
  BY RootTree DEF Restart
<1>2. contact' \in [Ids -> Contact]
  BY BlankIs DEF Restart
<1>3. Counted(tracked', {}, contact')
  <2>1. InTable(bins) \subseteq Ids /\ Counted(tracked, InTable(bins), contact)
    BY InTableIs DEF IInv, Inv, Agrees
  <2>2. tracked' = TrackedAfter(tracked, contact, InTable(bins))
    BY DEF Restart
  <2>3. Counted(tracked', InTable(bins) \ InTable(bins), contact)
    BY <2>1, <2>2, TrackedGone
  <2>4. InTable(bins) \ InTable(bins) = {}
    OBVIOUS
  <2>5. Counted(tracked', {}, contact)
    BY <2>3, <2>4
  <2> QED BY <2>5, CountedSame
<1>4. Inv'
  BY <1>1, <1>2, <1>3 DEF Inv, Agrees, Restart
<1>5. IInv'
  BY <1>4 DEF IInv, Restart
<1> QED BY <1>1, <1>5 DEF DeadLeave, ByChallenge, Restart

LEMMA StepKeeps ==
  ASSUME IInv, [Next]_vars
  PROVE  IInv' /\ DeadLeave /\ ([ByChallenge]_vars)
<1>1. CASE UNCHANGED vars
  <2>1. IInv'
    BY <1>1 DEF IInv, Inv, vars
  <2> QED BY <1>1, <2>1 DEF DeadLeave, vars
<1>2. ASSUME NEW p \in Greetings, Hello(p) \/ BootstrapSender(p)
      PROVE  IInv' /\ DeadLeave /\ ByChallenge
  BY <1>2, HelloKeeps, BootstrapKeeps
<1>3. ASSUME NEW p \in Mentions, Mentioned(p) PROVE IInv' /\ DeadLeave /\ ByChallenge
  BY <1>3, MentionedKeeps
<1>4. ASSUME NEW d \in Ids, NEW a \in Addresses,
             ChallengeAnswered(d, a) \/ HelloAck(d, a) \/ ChallengeExpires(d, a)
      PROVE  IInv' /\ DeadLeave /\ ByChallenge
  BY <1>4, AnsweredKeeps, ExpiresKeeps
<1>5. ASSUME NEW z \in Zones, OnSmallTimer(z) PROVE IInv' /\ DeadLeave /\ ByChallenge
  BY <1>5, TimerKeeps
<1>6. ASSUME NEW d \in Ids, Expire(d) PROVE IInv' /\ DeadLeave /\ ByChallenge
  BY <1>6, ExpireKeeps
<1>7. ASSUME NEW p \in Saved, Load(p) PROVE IInv' /\ DeadLeave /\ ByChallenge
  BY <1>7, LoadKeeps
<1> QED BY <1>1, <1>2, <1>3, <1>4, <1>5, <1>6, <1>7, ConsolidateKeeps, LoadedKeeps,
           RestartKeeps DEF Next

LEMMA Invariance == Spec => []IInv
<1>1. IInv /\ [Next]_vars => IInv'
  BY StepKeeps
<1> QED BY <1>1, InitKeeps, PTL DEF Spec

LEMMA IInvIsEnough == IInv => TableWellFormed /\ EachInItsZone
<1> SUFFICES ASSUME IInv PROVE TableWellFormed /\ EachInItsZone
  OBVIOUS
<1>1. /\ Tree(bins) /\ contact \in [Ids -> Contact] /\ known = InTable(bins)
      /\ tracked \in Counts
      /\ \A a \in Addresses : tracked[a] = Cardinality(Holders(InTable(bins), contact, a))
  BY DEF IInv, Inv, Agrees, Counted
<1>2. \A z \in DOMAIN bins : \E n \in 0..MaxLevel : z \in [1..n -> {0, 1}]
  BY <1>1 DEF Tree, Divides, Words, Word
<1>3. \A z \in DOMAIN bins :
        /\ bins[z] \in Seq(Ids) /\ Distinct(bins[z]) /\ Len(bins[z]) <= K
        /\ \A d \in Entries(bins[z]) : Covers(z, d)
  BY <1>1 DEF Tree, Bin
<1>4. known \subseteq Ids
  BY <1>1, InTableIs
<1>5. TypeOK
  BY <1>1, <1>2, <1>3, <1>4 DEF TypeOK, IInv, Counts
<1>6. TrackingAgrees
  BY <1>1 DEF TrackingAgrees, Holders
<1>7. \A d \in [Bits -> {0, 1}] : \E z \in DOMAIN bins :
         Covers(z, d) /\ \A x \in DOMAIN bins : Covers(x, d) => x = z
  BY <1>1 DEF Tree, Divides, Word, Bits
<1>8. \A z \in DOMAIN bins : Len(bins[z]) = Cardinality(Entries(bins[z]))
  BY <1>3, PlacesCount
<1>9. EachInItsZone
  BY <1>1, <1>3, <1>7, <1>8 DEF EachInItsZone, Tree
<1> QED BY <1>5, <1>6, <1>9 DEF TableWellFormed

-----------------------------------------------------------------------------
(***************************************************************************)
(* Distances.                                                               *)
(***************************************************************************)
\* What the recursion of Value does, with a candidate for its function.
ValueTo(z, n, f) == [i \in 0..n |-> IF i = 0 THEN 0 ELSE 2 * f[i - 1] + z[i]]

\* There is a function that Value's recursion defines.
LEMMA ValueExists ==
  ASSUME NEW z, NEW n \in Nat
  PROVE  \E f : f = ValueTo(z, n, f)
<1> DEFINE Unsolved == {m \in Nat : ~\E f : f = ValueTo(z, m, f)}
<1> SUFFICES ASSUME Unsolved # {} PROVE FALSE
  OBVIOUS
<1>1. Unsolved \in SUBSET Nat
  OBVIOUS
<1>2. PICK m \in Unsolved : \A k \in Unsolved : m <= k
  <2> HIDE DEF Unsolved
  <2> QED BY <1>1, LeastNatural
<1>3. m \in Nat /\ ~\E f : f = ValueTo(z, m, f)
  OBVIOUS
<1>4. CASE m = 0
  <2> DEFINE g == [k \in 0..0 |-> 0]
  <2>1. g = ValueTo(z, 0, g)
    BY DEF ValueTo
  <2> QED BY <1>3, <1>4, <2>1
<1>5. CASE m # 0
  <2>1. m - 1 \in Nat /\ m - 1 \notin Unsolved
    <3> HIDE DEF Unsolved
    <3> QED BY <1>2, <1>3, <1>5
  <2>2. PICK f : f = ValueTo(z, m - 1, f)
    BY <2>1
  <2> DEFINE last == 2 * f[m - 1] + z[m]
             g == [k \in 0..m |-> IF k = m THEN last ELSE f[k]]
             h == ValueTo(z, m, g)
  <2>3. ASSUME NEW k \in 0..m PROVE g[k] = h[k]
    <3>1. CASE k = m
      <4>1. m - 1 \in 0..m /\ m - 1 # m
        BY <1>3, <2>1
      <4>2. g[m - 1] = f[m - 1]
        BY <4>1
      <4>3. g[k] = last
        BY <3>1
      <4>4. h[k] = 2 * g[m - 1] + z[m]
        BY <3>1, <1>5 DEF ValueTo
      <4> HIDE DEF g, h
      <4> QED BY <4>2, <4>3, <4>4
    <3>2. CASE k # m
      <4>1. k \in 0..m - 1 /\ g[k] = f[k]
        BY <1>3, <3>2
      <4>2. f[k] = IF k = 0 THEN 0 ELSE 2 * f[k - 1] + z[k]
        BY <2>2, <4>1 DEF ValueTo
      <4>3. k # 0 => k - 1 \in 0..m /\ k - 1 # m
        BY <1>3, <3>2
      <4>4. k # 0 => g[k - 1] = f[k - 1]
        BY <4>3
      <4>5. h[k] = IF k = 0 THEN 0 ELSE 2 * g[k - 1] + z[k]
        BY DEF ValueTo
      <4> HIDE DEF g, h
      <4> QED BY <4>1, <4>2, <4>4, <4>5
    <3> QED BY <3>1, <3>2
  <2>4. g = h
    <3>1. g = [k \in 0..m |-> g[k]] /\ h = [k \in 0..m |-> h[k]]
      BY DEF ValueTo
    <3> HIDE DEF g, h
    <3> QED BY <2>3, <3>1
  <2> QED BY <1>3, <2>4
<1> QED BY <1>4, <1>5

\* The value of every prefix of z.
Values(z) == CHOOSE f : f = ValueTo(z, Len(z), f)

LEMMA ValuesAre ==
  ASSUME NEW n \in Nat, NEW z \in Word(n)
  PROVE  /\ Value(z) = Values(z)[n]
         /\ Values(z)[0] = 0
         /\ \A i \in 1..n : Values(z)[i] = 2 * Values(z)[i - 1] + z[i]
         /\ \A i \in 0..n : Values(z)[i] \in Nat
<1>1. Len(z) = n /\ \A i \in 1..n : z[i] \in {0, 1}
  BY WordIs
<1> DEFINE f == Values(z)
<1>2. f = ValueTo(z, n, f)
  BY <1>1, ValueExists DEF Values
<1>3. Value(z) = f[n]
  BY <1>1 DEF Value, Values, ValueTo
<1> HIDE DEF f
<1>4. f[0] = 0
  <2>1. 0 \in 0..n
    OBVIOUS
  <2>2. ValueTo(z, n, f)[0] = 0
    BY <2>1 DEF ValueTo
  <2> QED BY <1>2, <2>2
<1>5. \A i \in 1..n : f[i] = 2 * f[i - 1] + z[i]
  <2> SUFFICES ASSUME NEW i \in 1..n PROVE f[i] = 2 * f[i - 1] + z[i]
    OBVIOUS
  <2>1. i \in 0..n /\ i # 0
    OBVIOUS
  <2>2. ValueTo(z, n, f)[i] = 2 * f[i - 1] + z[i]
    BY <2>1 DEF ValueTo
  <2> QED BY <1>2, <2>2
<1>6. ASSUME NEW k \in 0..n, f[k] \notin Nat PROVE FALSE
  <2> DEFINE Bad == {i \in 0..n : f[i] \notin Nat}
  <2>1. Bad \in SUBSET Nat /\ Bad # {}
    BY <1>6
  <2>2. PICK i \in Bad : \A j \in Bad : i <= j
    <3> HIDE DEF Bad
    <3> QED BY <2>1, LeastNatural
  <2>3. i \in 0..n /\ f[i] \notin Nat
    OBVIOUS
  <2>4. i # 0
    BY <1>4, <2>3
  <2>5. i \in 1..n /\ i - 1 \in 0..n /\ ~(i <= i - 1)
    BY <2>3, <2>4
  <2>6. i - 1 \notin Bad
    <3> HIDE DEF Bad
    <3> QED BY <2>2, <2>5
  <2>7. f[i - 1] \in Nat
    BY <2>5, <2>6
  <2>8. z[i] \in Nat
    BY <1>1, <2>5
  <2>9. 2 * f[i - 1] + z[i] \in Nat
    BY <2>7, <2>8
  <2> QED BY <1>5, <2>3, <2>5, <2>9
<1> QED BY <1>3, <1>4, <1>5, <1>6 DEF f

\* The first bit in which two words differ decides which one is less.
LEMMA FirstBitDecides ==
  ASSUME NEW n \in Nat, NEW x \in Word(n), NEW y \in Word(n), NEW k \in 1..n,
         \A i \in 1..k - 1 : x[i] = y[i], x[k] = 0, y[k] = 1
  PROVE  Value(x) < Value(y)
<1> DEFINE f == Values(x)
           g == Values(y)
<1>1. /\ Value(x) = f[n] /\ f[0] = 0 /\ \A i \in 0..n : f[i] \in Nat
      /\ \A i \in 1..n : f[i] = 2 * f[i - 1] + x[i]
  BY ValuesAre
<1>2. /\ Value(y) = g[n] /\ g[0] = 0 /\ \A i \in 0..n : g[i] \in Nat
      /\ \A i \in 1..n : g[i] = 2 * g[i - 1] + y[i]
  BY ValuesAre
<1>3. \A i \in 1..n : x[i] \in {0, 1} /\ y[i] \in {0, 1}
  BY WordIs
<1> HIDE DEF f, g
<1> DEFINE Right(j) == IF j < k THEN f[j] = g[j] ELSE f[j] < g[j]
           Bad == {j \in 0..n : ~Right(j)}
<1>4. ASSUME NEW j \in 1..n, Right(j - 1) PROVE Right(j)
  <2>1. /\ f[j] = 2 * f[j - 1] + x[j] /\ g[j] = 2 * g[j - 1] + y[j]
        /\ x[j] \in {0, 1} /\ y[j] \in {0, 1}
    BY <1>1, <1>2, <1>3
  <2>2. j - 1 \in 0..n
    OBVIOUS
  <2>3. f[j - 1] \in Nat /\ g[j - 1] \in Nat
    BY <1>1, <1>2, <2>2
  <2>4. CASE j < k
    <3>1. f[j - 1] = g[j - 1] /\ x[j] = y[j]
      BY <1>4, <2>4
    <3> QED BY <2>1, <2>4, <3>1
  <2>5. CASE j = k
    <3>1. f[j - 1] = g[j - 1]
      BY <1>4, <2>5
    <3>2. f[j] = 2 * f[j - 1] /\ g[j] = 2 * f[j - 1] + 1
      BY <2>1, <2>3, <2>5, <3>1
    <3>3. f[j] < g[j]
      BY <2>3, <3>2
    <3> QED BY <2>5, <3>3
  <2>6. CASE j > k
    <3>1. f[j - 1] < g[j - 1]
      BY <1>4, <2>6
    <3>2. f[j] < g[j]
      BY <2>1, <2>3, <3>1
    <3> QED BY <2>6, <3>2
  <2> QED BY <2>4, <2>5, <2>6
<1>5. Right(0)
  BY <1>1, <1>2
<1> HIDE DEF Right
<1>6. ASSUME Bad # {} PROVE FALSE
  <2>1. Bad \in SUBSET Nat
    OBVIOUS
  <2>2. PICK j \in Bad : \A i \in Bad : j <= i
    <3> HIDE DEF Bad
    <3> QED BY <1>6, <2>1, LeastNatural
  <2>3. j \in 0..n /\ ~Right(j)
    OBVIOUS
  <2>4. j # 0
    BY <1>5, <2>3
  <2>5. j \in 1..n /\ j - 1 \in 0..n /\ ~(j <= j - 1)
    BY <2>3, <2>4
  <2>6. j - 1 \notin Bad
    <3> HIDE DEF Bad
    <3> QED BY <2>2, <2>5
  <2> QED BY <1>4, <2>3, <2>5, <2>6
<1>7. Right(n)
  <2>1. n \in 0..n
    OBVIOUS
  <2> QED BY <1>6, <2>1
<1> QED BY <1>1, <1>2, <1>7 DEF Right

\* Of two contacts the one that agrees with the target at the first bit where
\* they differ is nearer.
LEMMA NearerIs ==
  ASSUME NEW t \in Word(MaxLevel), NEW d \in Word(MaxLevel), NEW e \in Word(MaxLevel),
         NEW k \in 1..MaxLevel, \A i \in 1..k - 1 : d[i] = e[i], d[k] = t[k], e[k] = 1 - t[k]
  PROVE  Far(d, t) < Far(e, t)
<1> DEFINE x == [i \in Bits |-> (d[i] + t[i]) % 2]
           y == [i \in Bits |-> (e[i] + t[i]) % 2]
<1>1. MaxLevel \in Nat /\ Bits = 1..MaxLevel
  BY LevelsAreNatural DEF Bits
<1>2. \A i \in 1..MaxLevel : d[i] \in {0, 1} /\ e[i] \in {0, 1} /\ t[i] \in {0, 1}
  BY <1>1, WordIs
<1>3. \A a, b \in {0, 1} : (a + b) % 2 = IF a = b THEN 0 ELSE 1
  <2>1. (0 + 0) % 2 = 0 /\ (0 + 1) % 2 = 1 /\ (1 + 0) % 2 = 1 /\ (1 + 1) % 2 = 0
    OBVIOUS
  <2> QED BY <2>1
<1>4. \A i \in 1..MaxLevel : /\ x[i] = IF d[i] = t[i] THEN 0 ELSE 1
                             /\ y[i] = IF e[i] = t[i] THEN 0 ELSE 1
  BY <1>1, <1>2, <1>3
<1>5. x \in Word(MaxLevel) /\ y \in Word(MaxLevel)
  <2>1. x = [i \in 1..MaxLevel |-> x[i]] /\ y = [i \in 1..MaxLevel |-> y[i]]
    BY <1>1
  <2> HIDE DEF x, y
  <2> QED BY <1>4, <2>1 DEF Word
<1>6. Far(d, t) = Value(x) /\ Far(e, t) = Value(y)
  BY DEF Far
<1> HIDE DEF x, y
<1>7. /\ \A i \in 1..k - 1 : x[i] = y[i]
      /\ x[k] = 0 /\ y[k] = 1
  <2>1. \A i \in 1..k - 1 : i \in 1..MaxLevel
    BY <1>1
  <2>2. e[k] # t[k]
    BY <1>2
  <2> QED BY <1>4, <2>1, <2>2
<1> QED BY <1>1, <1>5, <1>6, <1>7, FirstBitDecides

LEMMA FarIs ==
  ASSUME NEW t \in Word(MaxLevel), NEW d \in Word(MaxLevel)
  PROVE  Far(d, t) \in Nat
<1> DEFINE x == [i \in Bits |-> (d[i] + t[i]) % 2]
<1>1. MaxLevel \in Nat /\ Bits = 1..MaxLevel
  BY LevelsAreNatural DEF Bits
<1>2. \A i \in 1..MaxLevel : d[i] \in {0, 1} /\ t[i] \in {0, 1}
  BY <1>1, WordIs
<1>3. \A i \in 1..MaxLevel : (d[i] + t[i]) % 2 \in {0, 1}
  BY <1>2
<1>4. x \in Word(MaxLevel)
  BY <1>1, <1>3 DEF Word
<1> HIDE DEF x
<1>5. Value(x) \in Nat
  <2>1. Value(x) = Values(x)[MaxLevel] /\ \A i \in 0..MaxLevel : Values(x)[i] \in Nat
    BY <1>1, <1>4, ValuesAre
  <2>2. MaxLevel \in 0..MaxLevel
    BY <1>1
  <2> QED BY <2>1, <2>2
<1> QED BY <1>5 DEF Far, x

-----------------------------------------------------------------------------
(***************************************************************************)
(* The nearest.                                                             *)
(***************************************************************************)
\* Those of S that are nearer to t than d.
Nearer(S, d, t) == {e \in S : Far(e, t) < Far(d, t)}

LEMMA NearestIs ==
  ASSUME NEW S, NEW t, NEW n
  PROVE  /\ Nearest(S, t, n) \subseteq S
         /\ \A d \in S : d \in Nearest(S, t, n) <=> Cardinality(Nearer(S, d, t)) < n
BY DEF Nearest, Nearer

LEMMA NearerGrows ==
  ASSUME NEW S \in SUBSET Ids, NEW t, NEW d, NEW c, NEW R, NEW Q,
         R = Nearer(Q, c, t), Q \subseteq S, R \subseteq Nearer(S, d, t)
  PROVE  /\ Cardinality(R) <= Cardinality(Nearer(S, d, t))
         /\ Cardinality(R) \in Nat /\ Cardinality(Nearer(S, d, t)) \in Nat
<1>1. IsFiniteSet(Nearer(S, d, t))
  <2>1. Nearer(S, d, t) \subseteq Ids
    BY DEF Nearer
  <2> QED BY <2>1, RoutingAssumption, FS_Subset
<1> QED BY <1>1, FS_Subset, FS_CardinalityType

\* The nearest of a set whose nearest were found before and of another one.
LEMMA NearestOfNearest ==
  ASSUME NEW A \in SUBSET Ids, NEW B \in SUBSET Ids, NEW t \in Word(MaxLevel), NEW n \in Nat
  PROVE  Nearest(Nearest(A, t, n) \cup B, t, n) = Nearest(A \cup B, t, n)
<1> DEFINE N == Nearest(A, t, n)
           M == N \cup B
           W == A \cup B
<1>1. N \subseteq A /\ \A d \in A : d \in N <=> Cardinality(Nearer(A, d, t)) < n
  BY NearestIs
<1>2. \A d \in Ids : Far(d, t) \in Nat
  BY IdIs, FarIs
<1> HIDE DEF N
<1>3. M \subseteq W /\ M \in SUBSET Ids /\ W \in SUBSET Ids
  BY <1>1
<1> HIDE DEF M, W
<1>4. ASSUME NEW d \in Nearest(W, t, n) PROVE d \in Nearest(M, t, n)
  <2>1. d \in W /\ Cardinality(Nearer(W, d, t)) < n
    BY NearestIs
  <2>2. d \in M
    <3>1. CASE d \in A
      <4>1. Nearer(A, d, t) \subseteq Nearer(W, d, t) /\ A \subseteq W
        BY DEF Nearer, W
      <4>2. /\ Cardinality(Nearer(A, d, t)) <= Cardinality(Nearer(W, d, t))
            /\ Cardinality(Nearer(A, d, t)) \in Nat /\ Cardinality(Nearer(W, d, t)) \in Nat
        BY <1>3, <4>1, NearerGrows
      <4>3. Cardinality(Nearer(A, d, t)) < n
        BY <2>1, <4>2
      <4> QED BY <1>1, <3>1, <4>3 DEF M
    <3>2. CASE d \notin A
      BY <2>1, <3>2 DEF M, W
    <3> QED BY <3>1, <3>2
  <2>3. Nearer(M, d, t) \subseteq Nearer(W, d, t)
    BY <1>3 DEF Nearer
  <2>4. /\ Cardinality(Nearer(M, d, t)) <= Cardinality(Nearer(W, d, t))
        /\ Cardinality(Nearer(M, d, t)) \in Nat /\ Cardinality(Nearer(W, d, t)) \in Nat
    BY <1>3, <2>3, NearerGrows
  <2>5. Cardinality(Nearer(M, d, t)) < n
    BY <2>1, <2>4
  <2> QED BY <2>2, <2>5, NearestIs
<1>5. ASSUME NEW d \in Nearest(M, t, n) PROVE d \in Nearest(W, t, n)
  <2>1. d \in M /\ d \in W /\ d \in Ids /\ Cardinality(Nearer(M, d, t)) < n
    BY <1>3, NearestIs
  <2> DEFINE lost == {a \in A : a \notin N /\ Far(a, t) < Far(d, t)}
             dist == {Far(a, t) : a \in lost}
  <2>2. CASE lost = {}
    <3>1. Nearer(W, d, t) = Nearer(M, d, t)
      <4>1. \A a \in A : Far(a, t) < Far(d, t) => a \in N
        BY <2>2
      <4> HIDE DEF lost, dist
      <4> QED BY <1>3, <4>1 DEF Nearer, M, W
    <3> QED BY <2>1, <3>1, NearestIs
  <2>3. CASE lost # {}
    <3>1. dist \in SUBSET Nat /\ dist # {}
      BY <1>2, <2>3
    <3>2. PICK m \in dist : \A k \in dist : m <= k
      <4> HIDE DEF dist
      <4> QED BY <3>1, LeastNatural
    <3>3. PICK a \in lost : m = Far(a, t)
      OBVIOUS
    <3>4. a \in A /\ a \notin N /\ Far(a, t) < Far(d, t) /\ a \in Ids
      OBVIOUS
    <3>5. \A e \in A : Far(e, t) < Far(a, t) => e \in N
      <4> SUFFICES ASSUME NEW e \in A, Far(e, t) < Far(a, t), e \notin N PROVE FALSE
        OBVIOUS
      <4>1. Far(e, t) \in Nat /\ Far(a, t) \in Nat /\ Far(d, t) \in Nat
        BY <1>2, <2>1, <3>4
      <4>2. Far(e, t) < Far(d, t)
        BY <3>4, <4>1
      <4>3. Far(e, t) \in dist
        BY <4>2
      <4>4. m <= Far(e, t)
        <5> HIDE DEF dist, lost
        <5> QED BY <3>2, <4>3
      <4> QED BY <3>3, <4>1, <4>4
    <3> HIDE DEF lost, dist
    <3>6. Nearer(A, a, t) \subseteq Nearer(M, d, t)
      <4>1. \A e \in A : Far(e, t) < Far(a, t) => Far(e, t) < Far(d, t)
        <5>1. Far(a, t) \in Nat /\ Far(d, t) \in Nat /\ \A e \in A : Far(e, t) \in Nat
          BY <1>2, <2>1, <3>4
        <5> QED BY <3>4, <5>1
      <4> QED BY <3>5, <4>1 DEF Nearer, M
    <3>7. IsFiniteSet(Nearer(M, d, t))
      <4>1. Nearer(M, d, t) \subseteq Ids
        BY <1>3 DEF Nearer
      <4> QED BY <4>1, RoutingAssumption, FS_Subset
    <3>8. /\ Cardinality(Nearer(A, a, t)) <= Cardinality(Nearer(M, d, t))
          /\ Cardinality(Nearer(A, a, t)) \in Nat /\ Cardinality(Nearer(M, d, t)) \in Nat
      BY <3>6, <3>7, FS_Subset, FS_CardinalityType
    <3>9. Cardinality(Nearer(A, a, t)) < n
      BY <2>1, <3>8
    <3> QED BY <1>1, <3>4, <3>9
  <2> QED BY <2>2, <2>3
<1>6. Nearest(M, t, n) = Nearest(W, t, n)
  BY <1>4, <1>5
<1> QED BY <1>6 DEF M, N, W

\* When n are found, those that are further away than all do not matter.
LEMMA NearestAreEnough ==
  ASSUME NEW A \in SUBSET Ids, NEW B \in SUBSET Ids, NEW t \in Word(MaxLevel), NEW n \in Nat,
         \A a \in A, b \in B : Far(a, t) < Far(b, t),
         Cardinality(Nearest(A, t, n)) >= n
  PROVE  Nearest(A \cup B, t, n) = Nearest(A, t, n)
<1> DEFINE W == A \cup B
<1>1. \A d \in Ids : Far(d, t) \in Nat
  BY IdIs, FarIs
<1>2. W \in SUBSET Ids
  OBVIOUS
<1>3. ASSUME NEW d \in A PROVE Nearer(W, d, t) = Nearer(A, d, t)
  <2>1. \A b \in B : ~(Far(b, t) < Far(d, t))
    <3>1. Far(d, t) \in Nat /\ \A b \in B : Far(b, t) \in Nat
      BY <1>1
    <3> QED BY <3>1
  <2> QED BY <2>1 DEF Nearer
<1>4. ASSUME NEW d \in B, d \in Nearest(W, t, n) PROVE FALSE
  <2>1. Cardinality(Nearer(W, d, t)) < n
    BY <1>4, NearestIs
  <2>2. Nearest(A, t, n) \subseteq Nearer(W, d, t)
    BY NearestIs DEF Nearer
  <2>3. IsFiniteSet(Nearer(W, d, t))
    <3>1. Nearer(W, d, t) \subseteq Ids
      BY <1>2 DEF Nearer
    <3> QED BY <3>1, RoutingAssumption, FS_Subset
  <2>4. /\ Cardinality(Nearest(A, t, n)) <= Cardinality(Nearer(W, d, t))
        /\ Cardinality(Nearest(A, t, n)) \in Nat /\ Cardinality(Nearer(W, d, t)) \in Nat
    BY <2>2, <2>3, FS_Subset, FS_CardinalityType
  <2> QED BY <2>1, <2>4
<1>5. ASSUME NEW d \in Nearest(W, t, n) PROVE d \in Nearest(A, t, n)
  <2>1. d \in W /\ Cardinality(Nearer(W, d, t)) < n
    BY NearestIs
  <2>2. d \in A
    BY <1>4, <2>1
  <2> QED BY <1>3, <2>1, <2>2, NearestIs
<1>6. ASSUME NEW d \in Nearest(A, t, n) PROVE d \in Nearest(W, t, n)
  <2>1. d \in A /\ d \in W /\ Cardinality(Nearer(A, d, t)) < n
    BY NearestIs
  <2> HIDE DEF W
  <2> QED BY <1>3, <2>1, NearestIs
<1> QED BY <1>5, <1>6

-----------------------------------------------------------------------------
(***************************************************************************)
(* The lookup.                                                              *)
(***************************************************************************)
\* The usable entries of a zone.
UsableBelow(q, maxType) == {d \in EntriesBelow(bins, q) : Usable(d, maxType)}

\* One step of GetClosestToTarget's recursion, with what it finds one level down.
Getting(t, n, maxType, k, q, R, f) ==
  IF q \in DOMAIN bins \/ k = MaxLevel
  THEN Nearest(R \cup {d \in Entries(bins[q]) : Usable(d, maxType)}, t, n)
  ELSE LET S == f[Append(q, Side(t, k))][R]
       IN  IF Cardinality(S) >= n THEN S ELSE f[Append(q, 1 - Side(t, k))][S]

\* What it does from level m down the tree, with a candidate for its function.
GettingFrom(t, n, maxType, m, f) ==
  [k \in m..MaxLevel |->
     [q \in [1..k -> {0, 1}] |-> [R \in SUBSET Ids |->
        Getting(t, n, maxType, k, q, R, f[k + 1])]]]

LEMMA GettingExists ==
  ASSUME NEW t, NEW n, NEW maxType, NEW k \in 0..MaxLevel
  PROVE  \E f : f = GettingFrom(t, n, maxType, k, f)
<1> DEFINE Unsolved == {m \in 0..MaxLevel : ~\E f : f = GettingFrom(t, n, maxType, m, f)}
<1> SUFFICES ASSUME Unsolved # {} PROVE FALSE
  OBVIOUS
<1>1. PICK m \in Unsolved : \A l \in Unsolved : l <= m
  <2>1. Unsolved \in SUBSET (0..MaxLevel)
    OBVIOUS
  <2> HIDE DEF Unsolved
  <2> QED BY <2>1, LevelsAreNatural, GreatestNatural
<1>2. m \in 0..MaxLevel /\ ~\E f : f = GettingFrom(t, n, maxType, m, f)
  OBVIOUS
<1>3. MaxLevel \in Nat
  BY LevelsAreNatural
<1> HIDE DEF Getting
<1>4. CASE m = MaxLevel
  <2> DEFINE g == [j \in m..MaxLevel |-> [q \in [1..j -> {0, 1}] |-> [R \in SUBSET Ids |->
                     Getting(t, n, maxType, j, q, R, <<>>)]]]
             h == GettingFrom(t, n, maxType, m, g)
  <2>1. ASSUME NEW j \in m..MaxLevel PROVE g[j] = h[j]
    <3>1. j = MaxLevel
      BY <1>3, <1>4
    <3>2. \A q, R : Getting(t, n, maxType, j, q, R, g[j + 1])
                      = Getting(t, n, maxType, j, q, R, <<>>)
      BY <3>1 DEF Getting
    <3>3. h[j] = [q \in [1..j -> {0, 1}] |-> [R \in SUBSET Ids |->
                    Getting(t, n, maxType, j, q, R, g[j + 1])]]
      BY DEF GettingFrom
    <3>4. g[j] = [q \in [1..j -> {0, 1}] |-> [R \in SUBSET Ids |->
                    Getting(t, n, maxType, j, q, R, <<>>)]]
      OBVIOUS
    <3> HIDE DEF g, h
    <3> QED BY <3>2, <3>3, <3>4
  <2>2. g = h
    <3>1. g = [j \in m..MaxLevel |-> g[j]] /\ h = [j \in m..MaxLevel |-> h[j]]
      BY DEF GettingFrom
    <3> HIDE DEF g, h
    <3> QED BY <2>1, <3>1
  <2> QED BY <1>2, <2>2
<1>5. CASE m # MaxLevel
  <2>1. m + 1 \in 0..MaxLevel /\ m + 1 \notin Unsolved
    <3>1. m + 1 \in 0..MaxLevel /\ ~(m + 1 <= m)
      BY <1>2, <1>3, <1>5
    <3> HIDE DEF Unsolved
    <3> QED BY <1>1, <3>1
  <2>2. PICK f : f = GettingFrom(t, n, maxType, m + 1, f)
    BY <2>1
  <2> DEFINE top == [q \in [1..m -> {0, 1}] |-> [R \in SUBSET Ids |->
                       Getting(t, n, maxType, m, q, R, f[m + 1])]]
             g == [j \in m..MaxLevel |-> IF j = m THEN top ELSE f[j]]
             h == GettingFrom(t, n, maxType, m, g)
  <2>3. ASSUME NEW j \in m..MaxLevel PROVE g[j] = h[j]
    <3>1. CASE j = m
      <4>1. g[m + 1] = f[m + 1]
        <5>1. m + 1 \in m..MaxLevel /\ m + 1 # m
          BY <1>2, <1>3, <2>1
        <5> QED BY <5>1
      <4>2. h[j] = [q \in [1..m -> {0, 1}] |-> [R \in SUBSET Ids |->
                      Getting(t, n, maxType, m, q, R, g[m + 1])]]
        BY <3>1 DEF GettingFrom
      <4>3. g[j] = top
        BY <3>1
      <4> HIDE DEF g, h
      <4> QED BY <4>1, <4>2, <4>3
    <3>2. CASE j # m
      <4>1. j \in m + 1..MaxLevel /\ g[j] = f[j]
        BY <1>2, <1>3, <3>2
      <4>2. f[j] = [q \in [1..j -> {0, 1}] |-> [R \in SUBSET Ids |->
                      Getting(t, n, maxType, j, q, R, f[j + 1])]]
        <5>1. GettingFrom(t, n, maxType, m + 1, f)[j]
                = [q \in [1..j -> {0, 1}] |-> [R \in SUBSET Ids |->
                     Getting(t, n, maxType, j, q, R, f[j + 1])]]
          BY <4>1 DEF GettingFrom
        <5> QED BY <2>2, <5>1
      <4>3. h[j] = [q \in [1..j -> {0, 1}] |-> [R \in SUBSET Ids |->
                      Getting(t, n, maxType, j, q, R, g[j + 1])]]
        BY DEF GettingFrom
      <4>4. CASE j # MaxLevel
        <5>1. j + 1 \in m..MaxLevel /\ j + 1 # m
          BY <1>2, <1>3, <4>1, <4>4
        <5>2. g[j + 1] = f[j + 1]
          BY <5>1
        <5> HIDE DEF g, h
        <5> QED BY <4>1, <4>2, <4>3, <5>2
      <4>5. CASE j = MaxLevel
        <5>1. \A q, R : Getting(t, n, maxType, j, q, R, g[j + 1])
                          = Getting(t, n, maxType, j, q, R, f[j + 1])
          BY <4>5 DEF Getting
        <5> HIDE DEF g, h
        <5> QED BY <4>1, <4>2, <4>3, <5>1
      <4> QED BY <4>4, <4>5
    <3> QED BY <3>1, <3>2
  <2>4. g = h
    <3>1. g = [j \in m..MaxLevel |-> g[j]] /\ h = [j \in m..MaxLevel |-> h[j]]
      BY DEF GettingFrom
    <3> HIDE DEF g, h
    <3> QED BY <2>3, <3>1
  <2> QED BY <1>2, <2>4
<1> QED BY <1>4, <1>5

\* Every leaf that holds a distance of q is in q.
Reached(q) ==
  \A z \in DOMAIN bins, d \in Word(MaxLevel) : Covers(q, d) /\ Covers(z, d) => Covers(q, z)

\* The halves of a zone that is no leaf, and their contacts.
LEMMA HalvesReached ==
  ASSUME Tree(bins), NEW k \in 0..MaxLevel, NEW q \in Word(k), Reached(q), q \notin DOMAIN bins,
         NEW b \in {0, 1}
  PROVE  k # MaxLevel /\ Reached(Append(q, b))
<1>1. /\ MaxLevel \in Nat /\ k \in Nat /\ k <= MaxLevel /\ Divides(DOMAIN bins)
      /\ \A z \in DOMAIN bins : z \in Words /\ Len(z) \in 0..MaxLevel /\ z \in Word(Len(z))
  <2>1. Divides(DOMAIN bins) /\ \A z \in DOMAIN bins : z \in Words
    BY DEF Tree, Divides
  <2> QED BY <2>1, ZoneIs, LevelsAreNatural
<1>2. ASSUME NEW z \in DOMAIN bins, Covers(q, z) PROVE k + 1 <= Len(z)
  <2>1. k <= Len(z) /\ \A i \in 1..k : q[i] = z[i]
    BY <1>1, <1>2, CoversIs
  <2>2. k # Len(z)
    <3> SUFFICES ASSUME k = Len(z) PROVE FALSE
      OBVIOUS
    <3>1. q = z
      BY <1>1, <2>1, WordEqual
    <3> QED BY <3>1
  <2> QED BY <1>1, <2>1, <2>2
<1>3. k # MaxLevel
  <2>1. PICK d \in Word(MaxLevel) : Covers(q, d)
    BY SomeDistance
  <2>2. PICK z \in DOMAIN bins : Covers(z, d)
    BY <1>1 DEF Divides
  <2>3. Covers(q, z)
    BY <2>1, <2>2 DEF Reached
  <2>4. k + 1 <= Len(z)
    BY <1>2, <2>3
  <2> QED BY <1>1, <2>4
<1> DEFINE h == Append(q, b)
<1>4. /\ h \in Word(k + 1) /\ k + 1 \in 0..MaxLevel
      /\ \A i \in 1..k : h[i] = q[i]
  <2>1. h \in Word(k + 1) /\ \A i \in 1..k : h[i] = q[i]
    BY <1>1, HalfIs
  <2>2. k + 1 \in 0..MaxLevel
    BY <1>1, <1>3
  <2> QED BY <2>1, <2>2
<1> HIDE DEF h
<1>5. h \in Words /\ q \in Words /\ Len(h) = k + 1
  BY <1>1, <1>4, WordIs DEF Words
<1>6. Covers(q, h)
  <2>1. k + 1 \in Nat /\ k <= k + 1 /\ \A i \in 1..k : q[i] = h[i]
    BY <1>1, <1>4
  <2> QED BY <1>1, <1>4, <2>1, CoversIs
<1>7. ASSUME NEW z \in DOMAIN bins, NEW d \in Word(MaxLevel), Covers(h, d), Covers(z, d)
      PROVE  Covers(h, z)
  <2>1. Covers(q, d)
    BY <1>5, <1>6, <1>7, CoversTransitive
  <2>2. Covers(q, z)
    BY <1>7, <2>1 DEF Reached
  <2>3. Len(h) <= Len(z)
    BY <1>2, <1>5, <2>2
  <2> QED BY <1>1, <1>5, <1>7, <2>3, CoversCompare
<1>8. Reached(h)
  BY <1>7 DEF Reached
<1> QED BY <1>3, <1>8 DEF h

\* An entry of a zone is a distance of it.
LEMMA BelowIs ==
  ASSUME Tree(bins), NEW k \in 0..MaxLevel, NEW q \in Word(k), NEW d \in EntriesBelow(bins, q)
  PROVE  d \in Ids /\ d \in Word(MaxLevel) /\ Covers(q, d) /\ \A i \in 1..k : q[i] = d[i]
<1>1. PICK z \in DOMAIN bins : d \in Entries(bins[z]) /\ Covers(q, z)
  BY DEF EntriesBelow, LeavesBelow
<1>2. d \in Ids /\ d \in Word(MaxLevel) /\ Covers(z, d)
  BY <1>1, EntryLeaf
<1>3. q \in Words /\ z \in Words
  BY DEF Words, Tree, Divides
<1>4. Covers(q, d)
  BY <1>1, <1>2, <1>3, CoversTransitive
<1> QED BY <1>2, <1>4, CoversIs, LevelsAreNatural

\* All of R is nearer to t than anything in zone q.
AllNearer(R, t, q) ==
  \A r \in R, d \in Word(MaxLevel) : Covers(q, d) => Far(r, t) < Far(d, t)

\* The half where the target is holds the nearer contacts.
LEMMA SideIsNearer ==
  ASSUME Tree(bins), NEW t \in Word(MaxLevel), NEW k \in 0..MaxLevel, k # MaxLevel,
         NEW q \in Word(k), NEW r \in Word(MaxLevel), NEW d \in Word(MaxLevel),
         Covers(Append(q, Side(t, k)), r), Covers(Append(q, 1 - Side(t, k)), d)
  PROVE  Far(r, t) < Far(d, t)
<1>1. MaxLevel \in Nat /\ k \in Nat /\ k + 1 \in 1..MaxLevel /\ k + 1 \in Nat
  BY LevelsAreNatural
<1>2. Side(t, k) = t[k + 1] /\ Side(t, k) \in {0, 1} /\ 1 - Side(t, k) \in {0, 1}
  <2>1. t[k + 1] \in {0, 1}
    BY <1>1, WordIs
  <2> QED BY <2>1 DEF Side
<1>3. ASSUME NEW b \in {0, 1}, NEW e \in Word(MaxLevel), Covers(Append(q, b), e)
      PROVE  e[k + 1] = b /\ \A i \in 1..k : e[i] = q[i]
  <2> DEFINE h == Append(q, b)
             m == k + 1
  <2>1. h \in Word(m) /\ (\A i \in 1..k : h[i] = q[i]) /\ h[m] = b
    BY <1>1, HalfIs
  <2>2. m \in Nat /\ m \in 1..m /\ \A i \in 1..k : i \in 1..m
    BY <1>1
  <2>3. Covers(h, e)
    BY <1>3
  <2> HIDE DEF h, m
  <2>4. \A i \in 1..m : h[i] = e[i]
    BY <1>1, <2>1, <2>2, <2>3, CoversIs
  <2>5. e[m] = b /\ \A i \in 1..k : e[i] = q[i]
    BY <2>1, <2>2, <2>4
  <2> QED BY <2>5 DEF m
<1>4. /\ r[k + 1] = t[k + 1] /\ d[k + 1] = 1 - t[k + 1]
      /\ \A i \in 1..k : r[i] = q[i] /\ d[i] = q[i]
  BY <1>2, <1>3
<1>5. \A i \in 1..(k + 1) - 1 : r[i] = d[i]
  BY <1>1, <1>4
<1> QED BY <1>1, <1>4, <1>5, NearerIs

\* GetClosestToTarget finds the nearest usable contacts, whatever the tree.
LEMMA LookupIs ==
  ASSUME Tree(bins), NEW t \in Word(MaxLevel), NEW n \in Nat, NEW maxType
  PROVE  GetClosestToTarget(t, n, maxType)
           = Nearest({d \in InTable(bins) : Usable(d, maxType)}, t, n)
<1> DEFINE F == CHOOSE f : f = GettingFrom(t, n, maxType, 0, f)
           U(q) == UsableBelow(q, maxType)
<1>0. \A B \in SUBSET Ids : \A A \in SUBSET Ids :
        Nearest(Nearest(A, t, n) \cup B, t, n) = Nearest(A \cup B, t, n)
  BY NearestOfNearest
<1>1. MaxLevel \in Nat /\ 0 \in 0..MaxLevel
  BY LevelsAreNatural
<1>2. GetClosestToTarget(t, n, maxType) = F[0][Root][{}]
  BY DEF GetClosestToTarget, GettingFrom, Getting
<1>3. F = GettingFrom(t, n, maxType, 0, F)
  BY <1>1, GettingExists
<1> HIDE DEF F
<1>4. ASSUME NEW k \in 0..MaxLevel, NEW q \in Word(k), NEW R \in SUBSET Ids
      PROVE  F[k][q][R] = Getting(t, n, maxType, k, q, R, F[k + 1])
  <2>1. GettingFrom(t, n, maxType, 0, F)[k][q][R] = Getting(t, n, maxType, k, q, R, F[k + 1])
    <3> HIDE DEF Getting
    <3> QED BY DEF GettingFrom, Word
  <2> QED BY <1>3, <2>1
<1> DEFINE Finds(k) ==
             \A q \in Word(k) : \A R \in SUBSET Ids :
               Reached(q) /\ AllNearer(R, t, q) => F[k][q][R] = Nearest(R \cup U(q), t, n)
           Bad == {k \in 0..MaxLevel : ~Finds(k)}
<1>5. ASSUME NEW k \in 0..MaxLevel, k # MaxLevel => Finds(k + 1),
             NEW q \in Word(k), NEW R \in SUBSET Ids, Reached(q), AllNearer(R, t, q)
      PROVE  F[k][q][R] = Nearest(R \cup U(q), t, n)
  <2>1. CASE q \in DOMAIN bins
    <3>1. EntriesBelow(bins, q) = Entries(bins[q])
      <4>1. LeavesBelow(bins, q) = {q}
        BY <2>1, LeavesBelowIs
      <4> QED BY <4>1 DEF EntriesBelow
    <3>2. F[k][q][R] = Nearest(R \cup {d \in Entries(bins[q]) : Usable(d, maxType)}, t, n)
      BY <1>4, <2>1 DEF Getting
    <3> QED BY <3>1, <3>2 DEF UsableBelow
  <2>2. CASE q \notin DOMAIN bins
    <3> DEFINE s == Side(t, k)
               near == Append(q, s)
               far == Append(q, 1 - s)
               S == F[k + 1][near][R]
    <3>1. s \in {0, 1} /\ 1 - s \in {0, 1} /\ k # MaxLevel /\ k + 1 \in 0..MaxLevel /\ k \in Nat
      <4>1. k # MaxLevel
        BY <1>5, <2>2, HalvesReached
      <4>2. k + 1 \in 0..MaxLevel /\ k \in Nat /\ k + 1 \in 1..MaxLevel
        BY <1>1, <4>1
      <4>3. t[k + 1] \in {0, 1}
        BY <1>1, <4>2, WordIs
      <4> QED BY <4>1, <4>2, <4>3 DEF Side
    <3>2. F[k][q][R] = IF Cardinality(S) >= n THEN S ELSE F[k + 1][far][S]
      BY <1>4, <2>2, <3>1 DEF Getting
    <3>3. /\ near \in Word(k + 1) /\ far \in Word(k + 1) /\ Reached(near) /\ Reached(far)
      BY <1>5, <2>2, <3>1, HalfIs, HalvesReached
    <3>4. EntriesBelow(bins, q) = EntriesBelow(bins, near) \cup EntriesBelow(bins, far)
      <4>1. LeavesBelow(bins, q) = LeavesBelow(bins, Append(q, 0)) \cup LeavesBelow(bins, Append(q, 1))
        BY <2>2, <3>1, LeavesBelowIs
      <4>2. LeavesBelow(bins, q) = LeavesBelow(bins, near) \cup LeavesBelow(bins, far)
        BY <3>1, <4>1
      <4> QED BY <4>2 DEF EntriesBelow
    <3>5. \A r, d \in Word(MaxLevel) : Covers(near, r) /\ Covers(far, d) => Far(r, t) < Far(d, t)
      BY <3>1, SideIsNearer
    <3>6. \A d \in Word(MaxLevel) : Covers(near, d) \/ Covers(far, d) => Covers(q, d)
      <4> SUFFICES ASSUME NEW b \in {0, 1}, NEW d \in Word(MaxLevel), Covers(Append(q, b), d)
                   PROVE  Covers(q, d)
        BY <3>1
      <4>1. /\ Append(q, b) \in Word(k + 1) /\ k + 1 \in Nat /\ k <= k + 1
            /\ \A i \in 1..k : q[i] = Append(q, b)[i]
        <5>1. Append(q, b) \in Word(k + 1) /\ \A i \in 1..k : Append(q, b)[i] = q[i]
          BY <3>1, HalfIs
        <5>2. k + 1 \in Nat /\ k <= k + 1
          BY <3>1
        <5> QED BY <5>1, <5>2
      <4>2. Covers(q, Append(q, b))
        BY <3>1, <4>1, CoversIs
      <4>3. q \in Words /\ Append(q, b) \in Words
        BY <3>1, <4>1 DEF Words
      <4> QED BY <4>2, <4>3, CoversTransitive
    <3> HIDE DEF s, near, far, S
    <3>7. U(q) = U(near) \cup U(far)
      BY <3>4 DEF UsableBelow
    <3>8. /\ \A d \in U(near) : d \in Ids /\ d \in Word(MaxLevel) /\ Covers(near, d)
          /\ \A d \in U(far) : d \in Ids /\ d \in Word(MaxLevel) /\ Covers(far, d)
      BY <3>1, <3>3, BelowIs DEF UsableBelow
    <3> HIDE DEF U
    <3>9. S = Nearest(R \cup U(near), t, n)
      <4>1. AllNearer(R, t, near)
        BY <1>5, <3>6 DEF AllNearer
      <4> QED BY <1>5, <3>1, <3>3, <4>1 DEF S
    <3>10. R \cup U(near) \in SUBSET Ids /\ U(far) \in SUBSET Ids /\ S \subseteq R \cup U(near)
      BY <3>8, <3>9, NearestIs
    <3>11. \A a \in R \cup U(near), d \in Word(MaxLevel) : Covers(far, d) => Far(a, t) < Far(d, t)
      BY <1>5, <3>5, <3>6, <3>8 DEF AllNearer
    <3>12. CASE Cardinality(S) >= n
      <4>1. \A a \in R \cup U(near), b \in U(far) : Far(a, t) < Far(b, t)
        BY <3>8, <3>11
      <4>2. Nearest((R \cup U(near)) \cup U(far), t, n) = Nearest(R \cup U(near), t, n)
        BY <3>9, <3>10, <3>12, <4>1, NearestAreEnough
      <4>3. (R \cup U(near)) \cup U(far) = R \cup U(q)
        BY <3>7
      <4> QED BY <3>2, <3>9, <3>12, <4>2, <4>3
    <3>13. CASE ~(Cardinality(S) >= n)
      <4>1. AllNearer(S, t, far) /\ S \in SUBSET Ids
        BY <3>10, <3>11 DEF AllNearer
      <4>2. F[k + 1][far][S] = Nearest(S \cup U(far), t, n)
        BY <1>5, <3>1, <3>3, <4>1
      <4>3. Nearest(S \cup U(far), t, n) = Nearest((R \cup U(near)) \cup U(far), t, n)
        <5>1. R \cup U(near) \in SUBSET Ids /\ U(far) \in SUBSET Ids
              /\ S = Nearest(R \cup U(near), t, n)
          BY <3>9, <3>10
        <5>2. PICK N, A, B : N = S /\ A = R \cup U(near) /\ B = U(far)
          OBVIOUS
        <5>3. A \in SUBSET Ids /\ B \in SUBSET Ids /\ N = Nearest(A, t, n)
          BY <5>1, <5>2
        <5>4. Nearest(N \cup B, t, n) = Nearest(A \cup B, t, n)
          BY <1>0, <5>3, Zenon
        <5> QED BY <5>2, <5>4
      <4>4. (R \cup U(near)) \cup U(far) = R \cup U(q)
        BY <3>7
      <4> QED BY <3>2, <3>13, <4>2, <4>3, <4>4
    <3> QED BY <3>12, <3>13
  <2> QED BY <2>1, <2>2
<1> HIDE DEF U
<1>6. ASSUME Bad # {} PROVE FALSE
  <2>1. Bad \in SUBSET (0..MaxLevel)
    OBVIOUS
  <2>2. PICK k \in Bad : \A m \in Bad : m <= k
    <3> HIDE DEF Bad
    <3> QED BY <1>1, <1>6, <2>1, GreatestNatural
  <2>3. k \in 0..MaxLevel /\ ~Finds(k)
    OBVIOUS
  <2>4. ASSUME k # MaxLevel PROVE Finds(k + 1)
    <3>1. k + 1 \in 0..MaxLevel /\ ~(k + 1 <= k)
      BY <1>1, <2>3, <2>4
    <3>2. k + 1 \notin Bad
      <4> HIDE DEF Bad
      <4> QED BY <2>2, <3>1
    <3> QED BY <3>1, <3>2
  <2> QED BY <1>5, <2>3, <2>4
<1>7. Finds(0)
  BY <1>1, <1>6
<1>8. Root \in Word(0) /\ \A z \in DOMAIN bins : Covers(Root, z)
  <2>1. \A z \in DOMAIN bins : Len(z) \in Nat /\ z \in Word(Len(z))
    BY ZoneIs DEF Tree, Divides
  <2> QED BY <2>1, RootIs, CoversIs
<1>9. Reached(Root) /\ AllNearer({}, t, Root)
  BY <1>8 DEF Reached, AllNearer
<1>10. F[0][Root][{}] = Nearest({} \cup U(Root), t, n)
  BY <1>7, <1>8, <1>9
<1>11. EntriesBelow(bins, Root) = InTable(bins)
  BY <1>8 DEF EntriesBelow, LeavesBelow, InTable
<1>12. {} \cup U(Root) = {d \in InTable(bins) : Usable(d, maxType)}
  BY <1>11 DEF U, UsableBelow
<1> QED BY <1>2, <1>10, <1>12

-----------------------------------------------------------------------------
(***************************************************************************)
(* The theorems.                                                            *)
(***************************************************************************)
\* Through every split, merge, update, move to another address, timer and
\* restart, the counts per address, the set of all contacts and the bins
\* hold the same contacts, and no address has two, for any depth and bin size.
THEOREM TableStaysWellFormed == Spec => []TableWellFormed
<1>1. IInv => TableWellFormed
  BY IInvIsEnough
<1> QED BY <1>1, Invariance, PTL

\* However the tree splits and merges, its leaves divide the distances, and a
\* contact is once in the bin where a search for it ends.
THEOREM EachStaysInItsZone == Spec => []EachInItsZone
<1>1. IInv => EachInItsZone
  BY IInvIsEnough
<1> QED BY <1>1, Invariance, PTL

\* But for a restart nobody leaves the table who is not dead and overdue, and
\* the small timer never takes it below the number of contacts to keep.
THEOREM NobodyElseLeaves == Spec => OnlyTheDeadLeave
<1>1. IInv /\ [Next]_vars => DeadLeave
  BY StepKeeps
<1> QED BY <1>1, Invariance, PTL DEF Spec, OnlyTheDeadLeave, DeadLeave

\* A contact becomes verified at an address by an answer from there, or by a
\* message that carries the flag, in any order of updates, moves and answers.
THEOREM AnswersVerify == Spec => VerifiedByChallenge
<1>1. IInv /\ [Next]_vars => [ByChallenge]_vars
  BY StepKeeps
<1> QED BY <1>1, Invariance, PTL DEF Spec, VerifiedByChallenge, ByChallenge

\* In every state GetClosestToTarget returns exactly the n nearest contacts
\* of type maxType or better, for any target, n and maxType, so asking the
\* nearer half of every zone first skips nobody it should return.
THEOREM LookupsAreExact ==
  Spec => [](\A t \in Word(MaxLevel), n \in Nat, maxType \in Nat :
               GetClosestToTarget(t, n, maxType)
                 = Nearest({d \in InTable(bins) : Usable(d, maxType)}, t, n))
<1> DEFINE Exact == \A t \in Word(MaxLevel), n \in Nat, maxType \in Nat :
                      GetClosestToTarget(t, n, maxType)
                        = Nearest({d \in InTable(bins) : Usable(d, maxType)}, t, n)
<1>1. IInv => Exact
  BY LookupIs DEF IInv, Inv, Agrees
<1>2. Spec => []Exact
  <2> HIDE DEF Exact
  <2> QED BY <1>1, Invariance, PTL
<1> QED BY <1>2

\* However the tree has split and merged, asking the nearer half of every zone
\* first and the other one only when that is not enough finds the nearest usable
\* contacts, for any target.
THEOREM LookupsFindTheClosest == Spec => []ClosestFound
<1>1. ASSUME IInv PROVE ClosestFound
  <2>1. Tree(bins)
    BY <1>1 DEF IInv, Inv, Agrees
  <2>2. \A t \in [Bits -> {0, 1}] : t \in Word(MaxLevel)
    BY DEF Bits, Word
  <2>3. ASSUME NEW t \in Word(MaxLevel), NEW n \in {1, 3}
        PROVE  GetClosestToTarget(t, n, 3)
                 = Nearest({d \in InTable(bins) : Usable(d, 3)}, t, n)
    <3>1. n \in Nat
      OBVIOUS
    <3> QED BY <2>1, <3>1, LookupIs
  <2> QED BY <2>2, <2>3 DEF ClosestFound
<1> QED BY <1>1, Invariance, PTL
=============================================================================
