------------------------ MODULE ThreadSchedulerProofs ------------------------
(***************************************************************************)
(* The scheduler implements TaskService, and the invariants its run checks  *)
(* hold for all tasks, descriptions and priorities.                         *)
(*                                                                          *)
(* The lemmas come in three groups: what sorting does to a list of tasks,   *)
(* what AddTask and CheckAICHHashes do to the scheduler, and what the       *)
(* lists mean to TaskService.  IInv is the inductive invariant.             *)
(***************************************************************************)
EXTENDS ThreadScheduler, FiniteSetTheorems, FunctionTheorems, SequenceTheorems,
        TLAPS

-----------------------------------------------------------------------------
(***************************************************************************)
(* Sorting.                                                                 *)
(***************************************************************************)
\* f is the permutation by which s becomes w.
Permutes(f, s, w) ==
  /\ f \in Bijection(1..Len(s), 1..Len(s))
  /\ w \in Seq(Tasks) /\ Len(w) = Len(s)
  /\ \A k \in 1..Len(s) : w[k] = s[f[k]]

\* Goes is a total order of the entries.
LEMMA GoesIsTotal ==
  ASSUME NEW s \in Seq(Tasks),
         NEW i \in 1..Len(s), NEW j \in 1..Len(s), NEW k \in 1..Len(s)
  PROVE  /\ ~Goes(s, i, i)
         /\ i # j => Goes(s, i, j) \/ Goes(s, j, i)
         /\ Goes(s, i, j) => ~Goes(s, j, i)
         /\ Goes(s, i, j) /\ Goes(s, j, k) => Goes(s, i, k)
<1>1. Priority[s[i]] \in Nat /\ Priority[s[j]] \in Nat /\ Priority[s[k]] \in Nat
  BY TasksAssumption, ElementOfSeq
<1>2. i \in Int /\ j \in Int /\ k \in Int
  BY LenProperties
<1> QED BY <1>1, <1>2 DEF Goes

\* An entry that goes before another has a smaller place, and places count up
\* to the length of the list.
LEMMA PlaceGrows ==
  ASSUME NEW s \in Seq(Tasks), NEW i \in 1..Len(s)
  PROVE  /\ Place(s, i) \in 1..Len(s)
         /\ \A j \in 1..Len(s) : Goes(s, i, j) => Place(s, i) < Place(s, j)
<1> DEFINE All == 1..Len(s)
           Before(x) == {y \in All : Goes(s, y, x)}
<1>1. Len(s) \in Nat
  BY LenProperties
<1>2. IsFiniteSet(All) /\ Cardinality(All) = Len(s)
  <2>1. IsFiniteSet(All) /\ Cardinality(All) = IF 1 > Len(s) THEN 0 ELSE Len(s) - 1 + 1
    BY <1>1, FS_Interval
  <2> QED BY <2>1, <1>1
<1>3. ASSUME NEW x \in All
      PROVE  IsFiniteSet(Before(x)) /\ Cardinality(Before(x)) \in Nat
  BY <1>2, FS_Subset, FS_CardinalityType
<1>4. Cardinality(Before(i)) < Len(s)
  <2>1. Before(i) \in SUBSET All /\ i \in All /\ i \notin Before(i)
    BY GoesIsTotal
  <2>2. Cardinality(Before(i)) <= Len(s) /\ Cardinality(Before(i)) # Len(s)
    BY <2>1, <1>2, FS_Subset
  <2> HIDE DEF Before
  <2> QED BY <2>2, <1>1, <1>3
<1>5. ASSUME NEW j \in All, Goes(s, i, j)
      PROVE  Cardinality(Before(i)) < Cardinality(Before(j))
  <2>1. Before(i) \in SUBSET Before(j)
    BY <1>5, GoesIsTotal
  <2>2. i \in Before(j) /\ i \notin Before(i)
    BY <1>5, GoesIsTotal
  <2>3. /\ Cardinality(Before(i)) <= Cardinality(Before(j))
        /\ Cardinality(Before(i)) # Cardinality(Before(j))
    BY <2>1, <2>2, <1>3, FS_Subset
  <2> HIDE DEF Before
  <2> QED BY <2>3, <1>3
<1>6. \A x \in All : Place(s, x) = Cardinality(Before(x)) + 1
  BY DEF Place
<1> HIDE DEF Before
<1>7. Place(s, i) \in 1..Len(s)
  BY <1>1, <1>3, <1>4, <1>6
<1>8. \A j \in All : Goes(s, i, j) => Place(s, i) < Place(s, j)
  BY <1>3, <1>5, <1>6
<1> QED BY <1>7, <1>8

\* Sorting permutes the list, and brings it into the order of Goes.
LEMMA ResortedProperties ==
  ASSUME NEW s \in Seq(Tasks)
  PROVE  \E f : /\ Permutes(f, s, Resorted(s))
                /\ \A k, l \in 1..Len(s) : k < l => Goes(s, f[k], f[l])
<1> DEFINE All == 1..Len(s)
           g == [i \in All |-> Place(s, i)]
           f == [k \in All |-> CHOOSE i \in All : Place(s, i) = k]
<1>1. Len(s) \in Nat /\ IsFiniteSet(All)
  BY LenProperties, FS_Interval
<1>2. g \in [All -> All]
  BY PlaceGrows
<1>3. ASSUME NEW i \in All, NEW j \in All, i # j
      PROVE  Place(s, i) # Place(s, j)
  <2>1. Place(s, i) \in Nat /\ Place(s, j) \in Nat
    BY PlaceGrows, <1>1
  <2>2. Place(s, i) < Place(s, j) \/ Place(s, j) < Place(s, i)
    BY <1>3, GoesIsTotal, PlaceGrows
  <2> QED BY <2>1, <2>2
<1>4. g \in Injection(All, All)
  BY <1>2, <1>3 DEF Injection, IsInjective
<1>5. g \in Surjection(All, All)
  BY <1>4, <1>1, FS_Injection
<1>6. ASSUME NEW k \in All
      PROVE  f[k] \in All /\ Place(s, f[k]) = k
  <2>1. \E i \in All : Place(s, i) = k
    BY <1>5 DEF Surjection
  <2> QED BY <2>1
<1>7. f \in [All -> All]
  BY <1>6
<1>8. f \in Injection(All, All)
  BY <1>6, <1>7 DEF Injection, IsInjective
<1>9. f \in Bijection(All, All)
  BY <1>8, <1>1, FS_Injection DEF Bijection
<1>10. Resorted(s) = [k \in All |-> s[f[k]]]
  BY DEF Resorted
<1>11. Resorted(s) \in [All -> Tasks]
  BY <1>10, <1>6, ElementOfSeq
<1>12. Resorted(s) \in Seq(Tasks) /\ Len(Resorted(s)) = Len(s)
  BY <1>11, <1>1
<1>13. Permutes(f, s, Resorted(s))
  BY <1>9, <1>10, <1>12 DEF Permutes
<1>14. ASSUME NEW k \in All, NEW l \in All, k < l
       PROVE  Goes(s, f[k], f[l])
  <2>1. f[k] # f[l]
    BY <1>6, <1>14, <1>1
  <2>2. ~Goes(s, f[l], f[k])
    <3>1. SUFFICES ASSUME Goes(s, f[l], f[k]) PROVE FALSE
      OBVIOUS
    <3>2. l < k
      BY <3>1, <1>6, PlaceGrows
    <3> QED BY <3>2, <1>14, <1>1
  <2> QED BY <2>1, <2>2, <1>6, GoesIsTotal
<1> QED BY <1>13, <1>14

-----------------------------------------------------------------------------
(***************************************************************************)
(* The lists and what they mean to TaskService.                             *)
(***************************************************************************)
\* The tasks of s have different descriptions.
Distinct(s) == \A i, j \in 1..Len(s) : i # j => Desc[s[i]] # Desc[s[j]]

\* Pairs of one priority, the earlier entry first.
Order(s) ==
  {r \in Tasks \X Tasks :
     /\ Priority[r[1]] = Priority[r[2]]
     /\ \E i, j \in 1..Len(s) : i < j /\ r = <<s[i], s[j]>>}

\* In order of priority.
Ranked(s) ==
  \A i, j \in 1..Len(s) : i < j => Priority[s[i]] >= Priority[s[j]]

\* What tasks p at the end of a list add to it.
LEMMA Appending ==
  ASSUME NEW s \in Seq(Tasks), NEW p \in Seq(Tasks)
  PROVE  /\ Listed(s \o p) = Listed(s) \cup Listed(p)
         /\ Order(s \o p) =
              {r \in Tasks \X Tasks :
                 /\ Priority[r[1]] = Priority[r[2]]
                 /\ \/ r \in Order(s)
                    \/ r[1] \in Listed(s) /\ r[2] \in Listed(p)
                    \/ \E i, j \in 1..Len(p) : i < j /\ r = <<p[i], p[j]>>}
         /\ Distinct(s \o p) <=>
              /\ Distinct(s) /\ Distinct(p)
              /\ \A t \in Listed(s), u \in Listed(p) : Desc[t] # Desc[u]
<1> DEFINE w == s \o p
           m == Len(s)
           n == Len(p)
<1>1. /\ w \in Seq(Tasks) /\ m \in Nat /\ n \in Nat /\ Len(w) = m + n
      /\ \A i \in 1..(m + n) : w[i] = IF i <= m THEN s[i] ELSE p[i - m]
  BY ConcatProperties, LenProperties
<1> HIDE DEF w, m, n
<1>2. \A i \in 1..m : i \in 1..(m + n) /\ w[i] = s[i]
  BY <1>1
<1>3. \A i \in 1..n : m + i \in 1..(m + n) /\ w[m + i] = p[i]
  BY <1>1
<1>4. \A i \in 1..(m + n) : i \in 1..m \/ \E k \in 1..n : i = m + k
  <2>1. TAKE i \in 1..(m + n)
  <2>2. i \in 1..m \/ (i - m \in 1..n /\ i = m + (i - m))
    BY <1>1
  <2> QED BY <2>2
<1>5. Listed(w) = Listed(s) \cup Listed(p)
  <2>1. Listed(w) = {w[i] : i \in 1..(m + n)}
    BY <1>1 DEF Listed
  <2>2. Listed(s) = {s[i] : i \in 1..m} /\ Listed(p) = {p[i] : i \in 1..n}
    BY DEF Listed, m, n
  <2>3. ASSUME NEW i \in 1..(m + n) PROVE w[i] \in Listed(s) \cup Listed(p)
    <3>1. CASE i \in 1..m
      BY <3>1, <2>2, <1>2
    <3>2. ASSUME NEW k \in 1..n, i = m + k PROVE w[i] \in Listed(p)
      BY <3>2, <2>2, <1>3
    <3> QED BY <3>1, <3>2, <1>4
  <2>4. \A i \in 1..m : s[i] \in Listed(w)
    BY <2>1, <1>2
  <2>5. ASSUME NEW k \in 1..n PROVE p[k] \in Listed(w)
    BY <2>1, <1>3
  <2> QED BY <2>1, <2>2, <2>3, <2>4, <2>5
<1>6. ASSUME NEW r \in Tasks \X Tasks
      PROVE  (\E i, j \in 1..(m + n) : i < j /\ r = <<w[i], w[j]>>) <=>
             \/ \E i, j \in 1..m : i < j /\ r = <<s[i], s[j]>>
             \/ r[1] \in Listed(s) /\ r[2] \in Listed(p)
             \/ \E i, j \in 1..n : i < j /\ r = <<p[i], p[j]>>
  <2>1. ASSUME NEW i \in 1..(m + n), NEW j \in 1..(m + n), i < j,
               r = <<w[i], w[j]>>
        PROVE  \/ \E a, b \in 1..m : a < b /\ r = <<s[a], s[b]>>
               \/ r[1] \in Listed(s) /\ r[2] \in Listed(p)
               \/ \E a, b \in 1..n : a < b /\ r = <<p[a], p[b]>>
    <3>1. CASE j \in 1..m
      <4>1. i \in 1..m
        BY <2>1, <3>1, <1>1
      <4> QED BY <4>1, <3>1, <2>1, <1>2
    <3>2. CASE \E k \in 1..n : j = m + k
      <4>1. PICK k \in 1..n : j = m + k
        BY <3>2
      <4>2. CASE i \in 1..m
        BY <4>1, <4>2, <2>1, <1>2, <1>3 DEF Listed, m, n
      <4>3. CASE \E l \in 1..n : i = m + l
        <5>1. PICK l \in 1..n : i = m + l
          BY <4>3
        <5>2. l < k
          BY <5>1, <4>1, <2>1, <1>1
        <5> QED BY <5>1, <5>2, <4>1, <2>1, <1>3
      <4> QED BY <4>2, <4>3, <1>4
    <3> QED BY <3>1, <3>2, <1>4
  <2>2. ASSUME NEW i \in 1..m, NEW j \in 1..m, i < j, r = <<s[i], s[j]>>
        PROVE  \E a, b \in 1..(m + n) : a < b /\ r = <<w[a], w[b]>>
    BY <2>2, <1>2
  <2>3. ASSUME r[1] \in Listed(s), r[2] \in Listed(p)
        PROVE  \E a, b \in 1..(m + n) : a < b /\ r = <<w[a], w[b]>>
    <3>1. PICK i \in 1..m : r[1] = s[i]
      BY <2>3 DEF Listed, m
    <3>2. PICK k \in 1..n : r[2] = p[k]
      BY <2>3 DEF Listed, n
    <3>3. i < m + k
      BY <1>1
    <3>4. r = <<w[i], w[m + k]>>
      BY <3>1, <3>2, <1>2, <1>3
    <3> QED BY <3>3, <3>4, <1>2, <1>3
  <2>4. ASSUME NEW i \in 1..n, NEW j \in 1..n, i < j, r = <<p[i], p[j]>>
        PROVE  \E a, b \in 1..(m + n) : a < b /\ r = <<w[a], w[b]>>
    <3>1. m + i < m + j
      BY <2>4, <1>1
    <3> QED BY <3>1, <2>4, <1>3
  <2> QED BY <2>1, <2>2, <2>3, <2>4
<1>7. Order(w) = {r \in Tasks \X Tasks :
                 /\ Priority[r[1]] = Priority[r[2]]
                 /\ \/ r \in Order(s)
                    \/ r[1] \in Listed(s) /\ r[2] \in Listed(p)
                    \/ \E i, j \in 1..Len(p) : i < j /\ r = <<p[i], p[j]>>}
  <2>1. ASSUME NEW r \in Tasks \X Tasks, Priority[r[1]] = Priority[r[2]]
        PROVE  r \in Order(w) <=> \E i, j \in 1..(m + n) : i < j /\ r = <<w[i], w[j]>>
    BY <2>1, <1>1 DEF Order
  <2>2. ASSUME NEW r \in Tasks \X Tasks, Priority[r[1]] = Priority[r[2]]
        PROVE  r \in Order(s) <=> \E i, j \in 1..m : i < j /\ r = <<s[i], s[j]>>
    BY <2>2 DEF Order, m
  <2>3. \A r \in Order(w) : r \in Tasks \X Tasks /\ Priority[r[1]] = Priority[r[2]]
    BY DEF Order
  <2> DEFINE In(r) == \/ r \in Order(s)
                      \/ r[1] \in Listed(s) /\ r[2] \in Listed(p)
                      \/ \E i, j \in 1..Len(p) : i < j /\ r = <<p[i], p[j]>>
  <2>4. ASSUME NEW r \in Tasks \X Tasks, Priority[r[1]] = Priority[r[2]]
        PROVE  r \in Order(w) <=> In(r)
    BY <2>1, <2>2, <2>4, <1>6 DEF n
  <2> HIDE DEF In
  <2>5. Order(w) = {r \in Tasks \X Tasks : Priority[r[1]] = Priority[r[2]] /\ In(r)}
    BY <2>3, <2>4
  <2> QED BY <2>5 DEF In
<1>8. Distinct(w) => Distinct(s) /\ Distinct(p)
  <2>1. SUFFICES ASSUME Distinct(w) PROVE Distinct(s) /\ Distinct(p)
    OBVIOUS
  <2>2. Distinct(s)
    BY <2>1, <1>1, <1>2 DEF Distinct, m
  <2>3. \A i, j \in 1..n : i # j => m + i # m + j
    BY <1>1
  <2>4. Distinct(p)
    <3>1. ASSUME NEW i \in 1..n, NEW j \in 1..n, i # j
          PROVE  Desc[p[i]] # Desc[p[j]]
      <4>1. Desc[w[m + i]] # Desc[w[m + j]]
        BY <2>1, <2>3, <3>1, <1>1, <1>3 DEF Distinct
      <4> QED BY <4>1, <1>3
    <3> QED BY <3>1 DEF Distinct, n
  <2> QED BY <2>2, <2>4
<1>9. Distinct(w) => \A t \in Listed(s), u \in Listed(p) : Desc[t] # Desc[u]
  <2>1. \A i \in 1..m, k \in 1..n : i # m + k
    BY <1>1
  <2> QED BY <2>1, <1>1, <1>2, <1>3 DEF Distinct, Listed, m, n
<1>10. ASSUME Distinct(s), Distinct(p),
              \A t \in Listed(s), u \in Listed(p) : Desc[t] # Desc[u]
       PROVE  Distinct(w)
  <2>1. SUFFICES ASSUME NEW i \in 1..(m + n), NEW j \in 1..(m + n), i # j
                 PROVE  Desc[w[i]] # Desc[w[j]]
    BY <1>1 DEF Distinct
  <2>2. \A x \in 1..m : w[x] \in Listed(s)
    BY <1>2 DEF Listed, m
  <2>3. \A x \in 1..n : w[m + x] \in Listed(p)
    BY <1>3 DEF Listed, n
  <2>4. CASE i \in 1..m /\ j \in 1..m
    BY <2>4, <2>1, <1>2, <1>10 DEF Distinct, m
  <2>5. ASSUME NEW k \in 1..n, NEW l \in 1..n, i = m + k, j = m + l
        PROVE  Desc[w[i]] # Desc[w[j]]
    <3>1. k # l
      BY <2>5, <2>1
    <3> QED BY <3>1, <2>5, <1>3, <1>10 DEF Distinct, n
  <2> QED BY <2>2, <2>3, <2>4, <2>5, <1>4, <1>10
<1> QED BY <1>5, <1>7, <1>8, <1>9, <1>10 DEF w

\* Sorting a list changes neither its tasks nor the order of those that have
\* the same priority.
LEMMA Resorting ==
  ASSUME NEW s \in Seq(Tasks), Distinct(s)
  PROVE  /\ Resorted(s) \in Seq(Tasks) /\ Len(Resorted(s)) = Len(s)
         /\ Listed(Resorted(s)) = Listed(s)
         /\ Order(Resorted(s)) = Order(s)
         /\ Distinct(Resorted(s)) /\ Ranked(Resorted(s))
<1> DEFINE w == Resorted(s)
           All == 1..Len(s)
<1>1. PICK f : /\ Permutes(f, s, w)
               /\ \A k, l \in All : k < l => Goes(s, f[k], f[l])
  BY ResortedProperties
<1> HIDE DEF w
<1>2. w \in Seq(Tasks) /\ Len(w) = Len(s) /\ \A k \in All : w[k] = s[f[k]]
  BY <1>1 DEF Permutes
<1>3. /\ \A k \in All : f[k] \in All
      /\ \A k, l \in All : k # l => f[k] # f[l]
      /\ \A i \in All : \E k \in All : f[k] = i
  BY <1>1 DEF Permutes, Bijection, Injection, Surjection, IsInjective
<1>4. All \subseteq Int /\ \A i \in All : Priority[s[i]] \in Nat
  BY TasksAssumption, ElementOfSeq, LenProperties
<1>5. Listed(w) = Listed(s)
  <2>1. Listed(w) = {w[k] : k \in All} /\ Listed(s) = {s[k] : k \in All}
    BY <1>2 DEF Listed
  <2>2. ASSUME NEW k \in All PROVE w[k] \in Listed(s)
    <3>1. f[k] \in All /\ w[k] = s[f[k]]
      BY <1>2, <1>3
    <3> QED BY <3>1, <2>1
  <2>3. ASSUME NEW i \in All PROVE s[i] \in Listed(w)
    <3>1. PICK k \in All : f[k] = i
      BY <1>3
    <3> QED BY <3>1, <2>1, <1>2
  <2> QED BY <2>1, <2>2, <2>3
<1>6. Distinct(w)
  <2>1. ASSUME NEW k \in All, NEW l \in All, k # l
        PROVE  Desc[w[k]] # Desc[w[l]]
    <3>1. f[k] \in All /\ f[l] \in All /\ f[k] # f[l]
      BY <2>1, <1>3
    <3>2. Desc[s[f[k]]] # Desc[s[f[l]]]
      BY <3>1 DEF Distinct
    <3> QED BY <3>2, <1>2
  <2> QED BY <2>1, <1>2 DEF Distinct
<1>7. Ranked(w)
  <2>1. ASSUME NEW k \in All, NEW l \in All, k < l
        PROVE  Priority[w[k]] >= Priority[w[l]]
    <3>1. f[k] \in All /\ f[l] \in All /\ Goes(s, f[k], f[l])
      BY <2>1, <1>1, <1>3
    <3>2. Priority[s[f[k]]] >= Priority[s[f[l]]]
      BY <3>1, <1>4 DEF Goes
    <3> QED BY <3>2, <1>2
  <2> QED BY <2>1, <1>2 DEF Ranked
<1>8. ASSUME NEW r \in Tasks \X Tasks, Priority[r[1]] = Priority[r[2]]
      PROVE  (\E k, l \in All : k < l /\ r = <<w[k], w[l]>>) <=>
             (\E i, j \in All : i < j /\ r = <<s[i], s[j]>>)
  <2>1. ASSUME NEW k \in All, NEW l \in All, k < l, r = <<w[k], w[l]>>
        PROVE  \E i, j \in All : i < j /\ r = <<s[i], s[j]>>
    <3>1. Goes(s, f[k], f[l]) /\ f[k] \in All /\ f[l] \in All
      BY <2>1, <1>1, <1>3
    <3>2. r = <<s[f[k]], s[f[l]]>>
      BY <2>1, <1>2
    <3>3. f[k] < f[l]
      BY <3>1, <3>2, <1>8, <1>4 DEF Goes
    <3> QED BY <3>1, <3>2, <3>3
  <2>2. ASSUME NEW i \in All, NEW j \in All, i < j, r = <<s[i], s[j]>>
        PROVE  \E k, l \in All : k < l /\ r = <<w[k], w[l]>>
    <3>1. PICK k \in All, l \in All : f[k] = i /\ f[l] = j
      BY <1>3
    <3>2. r = <<w[k], w[l]>> /\ Priority[s[i]] = Priority[s[j]]
      BY <3>1, <2>2, <1>2, <1>8
    <3>3. ~Goes(s, j, i)
      BY <3>2, <2>2, <1>4 DEF Goes
    <3>4. ~(l < k) /\ k # l
      BY <3>1, <3>3, <2>2, <1>1, <1>4
    <3> QED BY <3>2, <3>4, <1>4
  <2> QED BY <2>1, <2>2
<1>9. Order(w) = Order(s)
  BY <1>2, <1>8 DEF Order
<1> QED BY <1>2, <1>5, <1>6, <1>7, <1>9 DEF w

\* The first task of a list in order is one TaskService may begin, and the rest
\* of the list is what then waits.
LEMMA TakingFirst ==
  ASSUME NEW s \in Seq(Tasks), s # <<>>, Distinct(s), Ranked(s)
  PROVE  /\ Head(s) \in Listed(s) /\ Head(s) \in Tasks
         /\ \A u \in Listed(s) :
              Priority[u] <= Priority[Head(s)] /\ <<u, Head(s)>> \notin Order(s)
         /\ Tail(s) \in Seq(Tasks)
         /\ Listed(Tail(s)) = Listed(s) \ {Head(s)}
         /\ \A u \in Listed(Tail(s)) : Desc[u] # Desc[Head(s)]
         /\ Order(Tail(s)) = {r \in Order(s) : r[1] # Head(s) /\ r[2] # Head(s)}
         /\ Distinct(Tail(s)) /\ Ranked(Tail(s))
<1> DEFINE n == Len(s)
           h == s[1]
           w == Tail(s)
<1>1. n \in Nat /\ n >= 1
  BY EmptySeq, LenProperties
<1>2. Head(s) = h /\ h \in Tasks
  BY <1>1, ElementOfSeq
<1>3. /\ w \in Seq(Tasks) /\ Len(w) = n - 1
      /\ \A i \in 1..(n - 1) : w[i] = s[i + 1]
  BY HeadTailProperties
<1> HIDE DEF w
<1>4. \A i \in 1..n : i = 1 \/ (i - 1 \in 1..(n - 1) /\ (i - 1) + 1 = i)
  BY <1>1
<1>5. \A i \in 1..(n - 1) : i + 1 \in 1..n /\ i + 1 # 1
  BY <1>1
<1>6. \A i \in 1..n : s[i] = h => i = 1
  BY <1>1 DEF Distinct
<1>7. /\ Listed(s) = {s[i] : i \in 1..n}
      /\ Listed(w) = {w[i] : i \in 1..(n - 1)}
  BY <1>3 DEF Listed
<1>8. h \in Listed(s)
  BY <1>1, <1>7
<1>9. ASSUME NEW u \in Listed(s)
      PROVE  Priority[u] <= Priority[h] /\ <<u, h>> \notin Order(s)
  <2>1. PICK i \in 1..n : u = s[i]
    BY <1>7
  <2>2. Priority[u] \in Nat /\ Priority[h] \in Nat
    BY <2>1, <1>2, TasksAssumption, ElementOfSeq
  <2>3. Priority[u] <= Priority[h]
    <3>1. CASE i = 1
      BY <3>1, <2>1, <2>2
    <3>2. CASE i # 1
      <4>1. 1 \in 1..n /\ 1 < i
        BY <3>2, <1>1
      <4>2. Priority[s[1]] >= Priority[s[i]]
        BY <4>1 DEF Ranked
      <4> QED BY <4>2, <2>1, <2>2
    <3> QED BY <3>1, <3>2
  <2>4. ASSUME NEW k \in 1..n, NEW l \in 1..n, k < l, <<u, h>> = <<s[k], s[l]>>
        PROVE  FALSE
    <3>1. l = 1
      BY <2>4, <1>6
    <3> QED BY <3>1, <2>4, <1>1
  <2> QED BY <2>3, <2>4 DEF Order
<1>10. Listed(w) = Listed(s) \ {h}
  <2>1. ASSUME NEW i \in 1..(n - 1) PROVE w[i] \in Listed(s) \ {h}
    BY <1>3, <1>5, <1>6, <1>7
  <2>2. ASSUME NEW i \in 1..n, s[i] # h PROVE s[i] \in Listed(w)
    <3>1. i - 1 \in 1..(n - 1) /\ w[i - 1] = s[i]
      BY <2>2, <1>3, <1>4
    <3> QED BY <3>1, <1>7
  <2> QED BY <2>1, <2>2, <1>7
<1>11. \A u \in Listed(w) : Desc[u] # Desc[h]
  <2>1. ASSUME NEW i \in 1..(n - 1) PROVE Desc[w[i]] # Desc[h]
    <3>1. w[i] = s[i + 1] /\ i + 1 \in 1..n /\ 1 \in 1..n /\ i + 1 # 1
      BY <1>1, <1>3, <1>5
    <3> QED BY <3>1 DEF Distinct
  <2> QED BY <2>1, <1>7
<1>12. ASSUME NEW r \in Tasks \X Tasks
       PROVE  (\E i, j \in 1..(n - 1) : i < j /\ r = <<w[i], w[j]>>) <=>
              /\ r[1] # h /\ r[2] # h
              /\ \E i, j \in 1..n : i < j /\ r = <<s[i], s[j]>>
  <2>1. ASSUME NEW i \in 1..(n - 1), NEW j \in 1..(n - 1), i < j,
               r = <<w[i], w[j]>>
        PROVE  /\ r[1] # h /\ r[2] # h
               /\ \E a, b \in 1..n : a < b /\ r = <<s[a], s[b]>>
    <3>1. r = <<s[i + 1], s[j + 1]>> /\ i + 1 < j + 1
      BY <2>1, <1>1, <1>3
    <3> QED BY <3>1, <1>5, <1>6
  <2>2. ASSUME NEW i \in 1..n, NEW j \in 1..n, i < j, r = <<s[i], s[j]>>,
               r[1] # h, r[2] # h
        PROVE  \E a, b \in 1..(n - 1) : a < b /\ r = <<w[a], w[b]>>
    <3>1. i # 1 /\ j # 1
      BY <2>2
    <3>2. /\ i - 1 \in 1..(n - 1) /\ w[i - 1] = s[i]
          /\ j - 1 \in 1..(n - 1) /\ w[j - 1] = s[j]
      BY <3>1, <1>3, <1>4
    <3>3. i - 1 < j - 1
      BY <2>2, <1>1
    <3> QED BY <3>2, <3>3, <2>2
  <2> QED BY <2>1, <2>2
<1>13. Order(w) = {r \in Order(s) : r[1] # h /\ r[2] # h}
  BY <1>3, <1>12 DEF Order
<1>14. Distinct(w)
  <2>1. ASSUME NEW i \in 1..(n - 1), NEW j \in 1..(n - 1), i # j
        PROVE  Desc[w[i]] # Desc[w[j]]
    <3>1. i + 1 # j + 1
      BY <2>1, <1>1
    <3> QED BY <3>1, <1>3, <1>5 DEF Distinct
  <2> QED BY <2>1, <1>3 DEF Distinct
<1>15. Ranked(w)
  <2>1. ASSUME NEW i \in 1..(n - 1), NEW j \in 1..(n - 1), i < j
        PROVE  Priority[w[i]] >= Priority[w[j]]
    <3>1. i + 1 < j + 1
      BY <2>1, <1>1
    <3> QED BY <3>1, <1>3, <1>5 DEF Ranked
  <2> QED BY <2>1, <1>3 DEF Ranked
<1> QED BY <1>2, <1>3, <1>8, <1>9, <1>10, <1>11, <1>13, <1>14, <1>15 DEF w

-----------------------------------------------------------------------------
(***************************************************************************)
(* The inductive invariant.  DescsAgree and CleanIsSorted are inductive but *)
(* for the list they are about; NoLostWakeup needs to know where the        *)
(* coroutine stands when it has ended, and that only a running scheduler    *)
(* has bound RunIdle.                                                       *)
(***************************************************************************)
\* m_taskDescs agrees with the tasks held.
Books(Q) ==
  /\ Distinct(Q.tasks)
  /\ Q.current # NoTask => \A t \in Listed(Q.tasks) : Desc[t] # Desc[Q.current]
  /\ Q.descs = {Desc[t] : t \in Listed(Q.tasks) \cup ({Q.current} \ {NoTask})}

\* m_tasksDirty tells whether the list has to be sorted.
Sorting(Q) ==
  /\ Q.dirty => Q.tasks # <<>>
  /\ ~Q.dirty => Ranked(Q.tasks)

\* The coroutine gets the idle events it needs.
Awake(Q) ==
  /\ Q.current = NoTask <=> Q.pc = "entry"
  /\ Q.ended => Q.pc = "entry" /\ Q.tasks = <<>> /\ Q.running
  /\ Q.pc # "entry" => Q.bound > 0
  /\ Q.bound > 0 => Q.running
  /\ Q.running => ~Q.terminated
  /\ Q.running /\ Q.tasks # <<>> => Q.bound > 0

Good(Q) == Q \in State /\ Books(Q) /\ Sorting(Q)

IInv == Good(q) /\ Awake(q)

\* The tasks p may join those Q holds.
Welcome(p, Q) ==
  /\ p \in Seq(Tasks) /\ Distinct(p)
  /\ \A t \in Listed(p) : Desc[t] \notin Q.descs

\* Pushing tasks that are not held keeps the books.
LEMMA PushKeeps ==
  ASSUME NEW Q, Good(Q), NEW p, Welcome(p, Q)
  PROVE  /\ Good(Push(Q, p))
         /\ Push(Q, p).tasks = Q.tasks \o p
         /\ Push(Q, p).descs = Q.descs \cup {Desc[t] : t \in Listed(p)}
         /\ Push(Q, p).current = Q.current /\ Push(Q, p).pc = Q.pc
         /\ Push(Q, p).ended = Q.ended /\ Push(Q, p).bound = Q.bound
         /\ Push(Q, p).running = Q.running
         /\ Push(Q, p).terminated = Q.terminated
<1> DEFINE P == Push(Q, p)
<1>1. Q \in State /\ p \in Seq(Tasks) /\ Q.tasks \in Seq(Tasks)
  BY DEF Good, State, Welcome
<1>2. /\ Q.tasks \o p \in Seq(Tasks)
      /\ Listed(Q.tasks \o p) = Listed(Q.tasks) \cup Listed(p)
      /\ p = <<>> => Q.tasks \o p = Q.tasks
      /\ p # <<>> => Q.tasks \o p # <<>>
  BY <1>1, Appending, ConcatProperties, ConcatEmptySeq, ConcatEqualIffEmpty
<1>3. Listed(p) \subseteq Tasks
  BY <1>1, ElementOfSeq DEF Listed
<1>4. {Desc[t] : t \in Listed(p)} \in SUBSET Descs
  BY <1>3, TasksAssumption
<1>5. /\ P.tasks = Q.tasks \o p
      /\ P.dirty = (Q.dirty \/ p # <<>>)
      /\ P.descs = Q.descs \cup {Desc[t] : t \in Listed(p)}
      /\ P.current = Q.current /\ P.pc = Q.pc /\ P.ended = Q.ended
      /\ P.bound = Q.bound /\ P.running = Q.running
      /\ P.terminated = Q.terminated
  BY <1>1 DEF Push, State
<1>6. P \in State
  BY <1>1, <1>2, <1>4 DEF Push, State
<1>7. \A t \in Listed(Q.tasks) : Desc[t] \in Q.descs
  BY DEF Good, Books
<1>8. Q.current # NoTask => Desc[Q.current] \in Q.descs
  BY DEF Good, Books
<1>9. Distinct(Q.tasks \o p)
  <2>1. \A t \in Listed(Q.tasks), u \in Listed(p) : Desc[t] # Desc[u]
    BY <1>7 DEF Welcome
  <2> QED BY <2>1, <1>1, Appending DEF Good, Books, Welcome
<1>10. Books(P)
  <2>1. P.current # NoTask => \A t \in Listed(P.tasks) : Desc[t] # Desc[P.current]
    BY <1>2, <1>5, <1>8 DEF Good, Books, Welcome
  <2>2. P.descs = {Desc[t] : t \in Listed(P.tasks) \cup ({P.current} \ {NoTask})}
    BY <1>2, <1>5 DEF Good, Books
  <2> QED BY <2>1, <2>2, <1>5, <1>9 DEF Books
<1>11. Sorting(P)
  BY <1>2, <1>5 DEF Good, Sorting
<1> HIDE DEF P
<1>12. Good(P)
  BY <1>6, <1>10, <1>11 DEF Good
<1> QED BY <1>5, <1>12 DEF P

\* Starting the coroutine changes only whether it has ended and is bound.
LEMMA WakingKeeps ==
  ASSUME NEW Q, Good(Q)
  PROVE  LET R == CreateSchedulerThread(Q) IN
         /\ Good(R)
         /\ R.tasks = Q.tasks /\ R.descs = Q.descs
         /\ R.current = Q.current /\ R.pc = Q.pc
         /\ R.running = Q.running /\ R.terminated = Q.terminated
         /\ Q.pc # "entry" /\ ~Q.ended => R = Q
         /\ Q.tasks = <<>> => R = Q
         /\ Q.pc = "entry" /\ Q.tasks # <<>> => ~R.ended /\ R.bound > 0
<1> DEFINE R == CreateSchedulerThread(Q)
           W == [Q EXCEPT !.ended = FALSE, !.bound = @ + 1]
<1>1. Q \in State /\ Q.bound \in Nat
  BY DEF Good, State
<1>2. CASE IsAlive(Q) \/ Q.tasks = <<>>
  <2>1. R = Q
    BY <1>2 DEF CreateSchedulerThread
  <2>2. ~(Q.pc = "entry" /\ Q.tasks # <<>>)
    BY <1>2 DEF IsAlive
  <2> QED BY <2>1, <2>2
<1>3. CASE ~(IsAlive(Q) \/ Q.tasks = <<>>)
  <2>1. R = W
    BY <1>3 DEF CreateSchedulerThread
  <2>6. Q.bound + 1 \in Nat /\ FALSE \in BOOLEAN
    BY <1>1
  <2>7. W \in State
    BY <2>6, <1>1 DEF State
  <2>2. /\ W \in State
        /\ W.tasks = Q.tasks /\ W.dirty = Q.dirty /\ W.descs = Q.descs
        /\ W.current = Q.current /\ W.pc = Q.pc /\ W.ended = FALSE
        /\ W.bound = Q.bound + 1 /\ W.running = Q.running
        /\ W.terminated = Q.terminated
    BY <2>7, <1>1 DEF State
  <2> HIDE DEF W
  <2>3. Good(W)
    BY <2>2 DEF Good, Books, Sorting
  <2>4. ~(Q.pc # "entry" /\ ~Q.ended) /\ Q.tasks # <<>>
    BY <1>3 DEF IsAlive
  <2>5. W.bound > 0
    BY <1>1, <2>2
  <2> HIDE DEF R
  <2> QED BY <2>1, <2>2, <2>3, <2>4, <2>5 DEF R
<1> QED BY <1>2, <1>3

\* A single task that is not held is welcome.
LEMMA OneIsWelcome ==
  ASSUME NEW Q, NEW t \in Tasks, Desc[t] \notin Q.descs
  PROVE  Welcome(<<t>>, Q) /\ Listed(<<t>>) = {t}
<1>1. <<t>> \in Seq(Tasks) /\ Len(<<t>>) = 1 /\ <<t>>[1] = t
  OBVIOUS
<1>2. 1..Len(<<t>>) = {1}
  BY <1>1
<1>3. Listed(<<t>>) = {t}
  BY <1>1, <1>2 DEF Listed
<1>4. Distinct(<<t>>)
  BY <1>2 DEF Distinct
<1> QED BY <1>1, <1>3, <1>4 DEF Welcome

\* AddTask discards the task or appends it, and then the coroutine is due.
LEMMA AddTaskKeeps ==
  ASSUME NEW Q, Good(Q), Awake(Q), NEW t \in Tasks
  PROVE  LET R == AddTask(Q, t) IN
         \/ (Q.terminated \/ Desc[t] \in Q.descs) /\ R = Q
         \/ /\ ~Q.terminated /\ Desc[t] \notin Q.descs
            /\ Good(R) /\ Awake(R)
            /\ R.tasks = Q.tasks \o <<t>>
            /\ R.current = Q.current /\ R.pc = Q.pc
            /\ R.running = Q.running /\ R.terminated = Q.terminated
<1> DEFINE P == Push(Q, <<t>>)
           W == CreateSchedulerThread(P)
           R == AddTask(Q, t)
<1>1. SUFFICES ASSUME ~Q.terminated, Desc[t] \notin Q.descs
               PROVE  /\ Good(R) /\ Awake(R)
                      /\ R.tasks = Q.tasks \o <<t>>
                      /\ R.current = Q.current /\ R.pc = Q.pc
                      /\ R.running = Q.running /\ R.terminated = Q.terminated
  BY DEF AddTask
<1>2. /\ Good(P)
      /\ P.tasks = Q.tasks \o <<t>>
      /\ P.current = Q.current /\ P.pc = Q.pc
      /\ P.ended = Q.ended /\ P.bound = Q.bound
      /\ P.running = Q.running /\ P.terminated = Q.terminated
  BY <1>1, OneIsWelcome, PushKeeps
<1>3. P.tasks # <<>>
  <2>1. Q.tasks \in Seq(Tasks) /\ <<t>> \in Seq(Tasks) /\ <<t>> # <<>>
    BY DEF Good, State
  <2> QED BY <2>1, <1>2, ConcatEqualIffEmpty
<1>4. Q.pc \in {"entry", "working", "done"}
  BY DEF Good, State
<1>5. CASE Q.running
  <2>1. R = W
    BY <1>1, <1>5 DEF AddTask
  <2> HIDE DEF P, R
  <2>2. /\ Good(W) /\ W.tasks = P.tasks
        /\ W.current = P.current /\ W.pc = P.pc
        /\ W.running = P.running /\ W.terminated = P.terminated
        /\ P.pc # "entry" /\ ~P.ended => W = P
        /\ P.pc = "entry" => ~W.ended /\ W.bound > 0
    BY <1>2, <1>3, WakingKeeps
  <2> HIDE DEF W
  <2>3. Awake(W)
    <3>1. CASE P.pc = "entry"
      BY <3>1, <2>2, <1>2, <1>5 DEF Awake
    <3>2. CASE P.pc # "entry"
      BY <3>2, <2>2, <1>2, <1>5 DEF Awake
    <3> QED BY <3>1, <3>2
  <2> QED BY <2>1, <2>2, <2>3, <1>2
<1>6. CASE ~Q.running
  <2>1. R = P
    BY <1>1, <1>6 DEF AddTask
  <2> HIDE DEF P, R
  <2>2. ~Q.ended
    BY <1>6 DEF Awake
  <2>3. Awake(P)
    BY <1>2, <1>6, <2>2 DEF Awake
  <2> QED BY <2>1, <2>3, <1>2
<1> QED BY <1>5, <1>6

\* The loop is left with nothing to do, or begins the first task of a list with
\* the same tasks, in the order in which they are due.
LEMMA LoopKeeps ==
  ASSUME NEW Q, Good(Q), Q.current = NoTask, Q.running, ~Q.terminated,
         Q.bound > 0, Q.ended => Q.tasks = <<>>
  PROVE  LET R == Loop(Q) IN
         /\ Good(R) /\ Awake(R)
         /\ R.descs = Q.descs
         /\ R.running = Q.running /\ R.terminated = Q.terminated
         /\ \/ Q.tasks = <<>> /\ R.tasks = <<>> /\ R.current = NoTask
            \/ \E s \in Seq(Tasks) :
                 /\ s # <<>> /\ Distinct(s) /\ Ranked(s)
                 /\ Listed(s) = Listed(Q.tasks) /\ Order(s) = Order(Q.tasks)
                 /\ R.tasks = Tail(s) /\ R.current = Head(s) /\ R.pc = "working"
<1> DEFINE R == Loop(Q)
           s == IF Q.dirty THEN Resorted(Q.tasks) ELSE Q.tasks
           S == Select(Q, s)
           L == Leave(Q)
<1>1. Q \in State /\ Q.tasks \in Seq(Tasks) /\ Q.bound \in Nat /\ Distinct(Q.tasks)
  BY DEF Good, State, Books
<1>2. CASE ~Q.dirty /\ Q.tasks = <<>>
  <2>1. R = L
    BY <1>2 DEF Loop
  <2>2. Q.bound - 1 \in Nat /\ TRUE \in BOOLEAN
    BY <1>1
  <2>3. L \in State
    BY <1>1, <2>2 DEF Leave, State
  <2>4. /\ L.tasks = Q.tasks /\ L.dirty = Q.dirty /\ L.descs = Q.descs
        /\ L.current = Q.current /\ L.pc = "entry" /\ L.ended = TRUE
        /\ L.running = Q.running /\ L.terminated = Q.terminated
    BY <1>1 DEF Leave, State
  <2> HIDE DEF L, R
  <2>5. Good(L)
    BY <2>3, <2>4 DEF Good, Books, Sorting
  <2>6. Awake(L)
    BY <2>4, <1>2 DEF Awake
  <2> QED BY <2>1, <2>4, <2>5, <2>6, <1>2 DEF R
<1>3. CASE ~(~Q.dirty /\ Q.tasks = <<>>)
  <2>1. R = S
    BY <1>3 DEF Loop
  <2>2. Q.tasks # <<>>
    BY <1>3 DEF Good, Sorting
  <2>3. /\ s \in Seq(Tasks) /\ Len(s) = Len(Q.tasks)
        /\ Listed(s) = Listed(Q.tasks) /\ Order(s) = Order(Q.tasks)
        /\ Distinct(s) /\ Ranked(s)
    <3>1. CASE Q.dirty
      BY <3>1, <1>1, Resorting
    <3>2. CASE ~Q.dirty
      BY <3>2, <1>1 DEF Good, Sorting
    <3> QED BY <3>1, <3>2
  <2>4. s # <<>>
    BY <2>2, <2>3, <1>1, EmptySeq
  <2> HIDE DEF s
  <2>5. /\ Head(s) \in Listed(s) /\ Head(s) \in Tasks
        /\ Tail(s) \in Seq(Tasks)
        /\ Listed(Tail(s)) = Listed(s) \ {Head(s)}
        /\ \A u \in Listed(Tail(s)) : Desc[u] # Desc[Head(s)]
        /\ Distinct(Tail(s)) /\ Ranked(Tail(s))
    BY <2>3, <2>4, TakingFirst
  <2>6. S \in State
    BY <1>1, <2>5 DEF Select, State
  <2>7. /\ S.tasks = Tail(s) /\ S.dirty = FALSE /\ S.descs = Q.descs
        /\ S.current = Head(s) /\ S.pc = "working" /\ S.ended = Q.ended
        /\ S.bound = Q.bound /\ S.running = Q.running
        /\ S.terminated = Q.terminated
    BY <1>1 DEF Select, State
  <2>8. Head(s) # NoTask
    BY <2>5, TasksAssumption
  <2> HIDE DEF S, R
  <2>9. Books(S)
    <3>1. Q.descs = {Desc[t] : t \in Listed(s)}
      BY <2>3 DEF Good, Books
    <3>2. Listed(S.tasks) \cup ({S.current} \ {NoTask}) = Listed(s)
      BY <2>5, <2>7, <2>8
    <3>3. S.descs = {Desc[t] : t \in Listed(S.tasks) \cup ({S.current} \ {NoTask})}
      BY <3>1, <3>2, <2>7
    <3> QED BY <3>3, <2>5, <2>7 DEF Books
  <2>10. Sorting(S)
    BY <2>5, <2>7 DEF Sorting
  <2>11. Awake(S)
    BY <2>2, <2>7, <2>8 DEF Awake
  <2>12. Good(S)
    BY <2>6, <2>9, <2>10 DEF Good
  <2> QED BY <2>1, <2>3, <2>4, <2>7, <2>11, <2>12 DEF R
<1> QED BY <1>2, <1>3

\* CheckAICHHashes pushes some of the tasks it may find necessary.
LEMMA CheckAICHHashesPushes ==
  ASSUME NEW Q, NEW P \in CheckAICHHashes(Q)
  PROVE  \E T \in SUBSET Unhashed : \E p \in Orders(T) :
           P = Push(Q, p) /\ Welcome(p, Q)
<1>1. PICK T \in SUBSET {t \in Unhashed : Desc[t] \notin Q.descs} :
         \E p \in Orders(T) : P = Push(Q, p)
  BY DEF CheckAICHHashes
<1>9. PICK p \in Orders(T) : P = Push(Q, p)
  BY <1>1
<1>2. IsFiniteSet(T) /\ Cardinality(T) \in Nat
  BY TasksAssumption, FS_Subset, FS_CardinalityType
<1>3. /\ p \in [1..Cardinality(T) -> T]
      /\ \A i, j \in 1..Cardinality(T) : i # j => p[i] # p[j]
  BY <1>9 DEF Orders
<1>4. p \in Seq(Tasks) /\ Len(p) = Cardinality(T)
  BY <1>2, <1>3, TasksAssumption
<1>5. \A t, u \in T : t # u => Desc[t] # Desc[u]
  BY TasksAssumption
<1>6. Distinct(p)
  BY <1>3, <1>4, <1>5 DEF Distinct
<1>7. \A t \in Listed(p) : Desc[t] \notin Q.descs
  BY <1>3, <1>4 DEF Listed
<1>8. Welcome(p, Q)
  BY <1>4, <1>6, <1>7 DEF Welcome
<1> QED BY <1>8, <1>9

\* When the entry of the finished task is erased CAICHSyncTask may join the
\* tasks held, and it does after the last hashing task.
LEMMA CleanupKeeps ==
  ASSUME NEW Q, Good(Q), Awake(Q), Q.pc = "done"
  PROVE  LET C == Cleanup(Q) IN
         /\ Good(C) /\ C.current = NoTask
         /\ C.bound > 0 /\ ~C.ended
         /\ C.running = Q.running /\ C.terminated = Q.terminated
         /\ C.running /\ ~C.terminated
         /\ \E p \in {<<>>, <<Sync>>} :
              /\ p \in Seq(Tasks) /\ Distinct(p)
              /\ \A i \in 1..Len(p) : \A u \in Listed(Q.tasks) : Desc[p[i]] # Desc[u]
              /\ C.tasks = Q.tasks \o p
         /\ Desc[Q.current] \in Hashing =>
              C.descs \cap Hashing # {} \/ Desc[Sync] \in C.descs
<1> DEFINE P == [Q EXCEPT !.descs = @ \ {Desc[Q.current]}, !.current = NoTask]
           A == AddTask(P, Sync)
           C == Cleanup(Q)
<1>1. Q \in State /\ Q.tasks \in Seq(Tasks) /\ Sync \in Tasks
  BY TasksAssumption DEF Good, State
<1>2. /\ Q.current # NoTask /\ Q.running /\ ~Q.terminated
      /\ Q.bound > 0 /\ ~Q.ended
  BY DEF Awake
<1>3. /\ P \in State
      /\ P.tasks = Q.tasks /\ P.dirty = Q.dirty
      /\ P.descs = Q.descs \ {Desc[Q.current]}
      /\ P.current = NoTask /\ P.pc = Q.pc /\ P.ended = Q.ended
      /\ P.bound = Q.bound /\ P.running = Q.running
      /\ P.terminated = Q.terminated
  BY <1>1 DEF State
<1>4. C = IF Desc[Q.current] \in Hashing /\ P.descs \cap Hashing = {} THEN A ELSE P
  BY DEF Cleanup
<1> HIDE DEF P, A, C
<1>5. P.descs = {Desc[t] : t \in Listed(P.tasks)}
  BY <1>2, <1>3 DEF Good, Books
<1>6. Good(P)
  <2>1. Books(P)
    BY <1>3, <1>5 DEF Good, Books
  <2>2. Sorting(P)
    BY <1>3 DEF Good, Sorting
  <2> QED BY <2>1, <2>2, <1>3 DEF Good
<1>7. Q.tasks \o <<>> = Q.tasks /\ <<>> \in Seq(Tasks)
  BY <1>1, ConcatEmptySeq
<1>8. ASSUME C = P
      PROVE  \E p \in {<<>>, <<Sync>>} :
               /\ p \in Seq(Tasks) /\ Distinct(p)
               /\ \A i \in 1..Len(p) : \A u \in Listed(Q.tasks) : Desc[p[i]] # Desc[u]
               /\ C.tasks = Q.tasks \o p
  <2>1. \A i, j \in 1..Len(<<>>) : FALSE
    OBVIOUS
  <2>2. Distinct(<<>>)
    BY <2>1 DEF Distinct
  <2> QED BY <1>3, <1>7, <1>8, <2>1, <2>2
<1>9. CASE ~(Desc[Q.current] \in Hashing /\ P.descs \cap Hashing = {})
  <2>1. C = P
    BY <1>4, <1>9
  <2> QED BY <2>1, <1>2, <1>3, <1>6, <1>8, <1>9 DEF C
<1>10. CASE Desc[Sync] \in P.descs
  <2>1. A = P
    BY <1>10 DEF A, AddTask
  <2>2. C = P
    BY <2>1, <1>4
  <2> QED BY <2>2, <1>2, <1>3, <1>6, <1>8, <1>10 DEF C
<1>11. CASE /\ Desc[Q.current] \in Hashing /\ P.descs \cap Hashing = {}
            /\ Desc[Sync] \notin P.descs
  <2> DEFINE B == Push(P, <<Sync>>)
  <2>1. Welcome(<<Sync>>, P) /\ Listed(<<Sync>>) = {Sync}
    BY <1>1, <1>11, OneIsWelcome
  <2>2. /\ Good(B) /\ B.tasks = P.tasks \o <<Sync>>
        /\ B.descs = P.descs \cup {Desc[t] : t \in Listed(<<Sync>>)}
        /\ B.current = P.current /\ B.pc = P.pc /\ B.ended = P.ended
        /\ B.bound = P.bound /\ B.running = P.running
        /\ B.terminated = P.terminated
    BY <2>1, <1>6, PushKeeps
  <2>3. A = CreateSchedulerThread(B)
    BY <1>11, <1>2, <1>3 DEF A, AddTask
  <2> HIDE DEF B
  <2>4. CreateSchedulerThread(B) = B
    BY <2>2, <1>2, <1>3 DEF CreateSchedulerThread, IsAlive
  <2>5. C = B
    BY <2>3, <2>4, <1>4, <1>11
  <2>6. Desc[Sync] \in C.descs
    BY <2>1, <2>2, <2>5
  <2>7. \A i \in 1..Len(<<Sync>>) : \A u \in Listed(Q.tasks) : Desc[<<Sync>>[i]] # Desc[u]
    <3>1. \A u \in Listed(Q.tasks) : Desc[Sync] # Desc[u]
      BY <1>3, <1>5, <1>11
    <3>2. \A i \in 1..Len(<<Sync>>) : <<Sync>>[i] = Sync
      OBVIOUS
    <3> QED BY <3>1, <3>2
  <2>8. \E p \in {<<>>, <<Sync>>} :
          /\ p \in Seq(Tasks) /\ Distinct(p)
          /\ \A i \in 1..Len(p) : \A u \in Listed(Q.tasks) : Desc[p[i]] # Desc[u]
          /\ C.tasks = Q.tasks \o p
    BY <2>1, <2>2, <2>5, <2>7, <1>3 DEF Welcome
  <2> QED BY <2>2, <2>5, <2>6, <2>8, <1>2, <1>3 DEF C
<1> QED BY <1>9, <1>10, <1>11

\* A task that ends may have pushed some, and is the current one until cleanup.
LEMMA FinishedKeeps ==
  ASSUME NEW Q, Good(Q), Awake(Q), Q.pc = "working", NEW R \in Finished(Q)
  PROVE  /\ Good(R) /\ Awake(R)
         /\ R.current = Q.current /\ Q.current # NoTask /\ R.pc = "done"
         /\ R.running = Q.running /\ R.terminated = Q.terminated
         /\ ~Q.terminated
         /\ \/ R.tasks = Q.tasks
            \/ \E T \in SUBSET Unhashed : \E p \in Orders(T) :
                 Welcome(p, Q) /\ R.tasks = Q.tasks \o p
<1>1. PICK P \in (IF Q.current = Sync THEN CheckAICHHashes(Q) ELSE {Q}) :
         R = [P EXCEPT !.pc = "done"]
  BY DEF Finished
<1>2. /\ Good(P)
      /\ P.current = Q.current /\ P.pc = Q.pc
      /\ P.ended = Q.ended /\ P.bound = Q.bound
      /\ P.running = Q.running /\ P.terminated = Q.terminated
      /\ \/ P.tasks = Q.tasks
         \/ \E T \in SUBSET Unhashed : \E p \in Orders(T) :
              Welcome(p, Q) /\ P.tasks = Q.tasks \o p
  <2>1. CASE P = Q
    BY <2>1
  <2>2. CASE P \in CheckAICHHashes(Q)
    <3>1. PICK T \in SUBSET Unhashed :
             \E p \in Orders(T) : P = Push(Q, p) /\ Welcome(p, Q)
      BY <2>2, CheckAICHHashesPushes
    <3>2. PICK p \in Orders(T) : P = Push(Q, p) /\ Welcome(p, Q)
      BY <3>1
    <3>3. /\ Good(P) /\ P.tasks = Q.tasks \o p
          /\ P.current = Q.current /\ P.pc = Q.pc
          /\ P.ended = Q.ended /\ P.bound = Q.bound
          /\ P.running = Q.running /\ P.terminated = Q.terminated
      BY <3>2, PushKeeps
    <3> QED BY <3>2, <3>3
  <2> QED BY <2>1, <2>2
<1>3. P \in State
  BY <1>2 DEF Good
<1>4. /\ R \in State
      /\ R.tasks = P.tasks /\ R.dirty = P.dirty /\ R.descs = P.descs
      /\ R.current = P.current /\ R.pc = "done" /\ R.ended = P.ended
      /\ R.bound = P.bound /\ R.running = P.running
      /\ R.terminated = P.terminated
  BY <1>1, <1>3 DEF State
<1>5. Good(R)
  BY <1>2, <1>4 DEF Good, Books, Sorting
<1>6. Awake(R)
  BY <1>2, <1>4 DEF Awake
<1>7. Q.current # NoTask /\ ~Q.terminated
  BY DEF Awake
<1> QED BY <1>2, <1>4, <1>5, <1>6, <1>7

-----------------------------------------------------------------------------
\* A new scheduler, and the lack of one, are in order.
LEMMA BlankIsGood ==
  ASSUME NEW B \in State,
         B.tasks = <<>>, B.dirty = FALSE, B.descs = {}, B.current = NoTask,
         B.pc = "entry", B.ended = FALSE, B.bound = 0, B.running = FALSE
  PROVE  Good(B) /\ Awake(B)
<1>1. \A i, j \in 1..Len(<<>>) : FALSE
  OBVIOUS
<1>2. Listed(B.tasks) = {}
  BY <1>1 DEF Listed
<1>3. Books(B)
  BY <1>1, <1>2 DEF Books, Distinct
<1>4. Sorting(B)
  BY <1>1 DEF Sorting, Ranked
<1>5. Awake(B)
  BY DEF Awake
<1> QED BY <1>3, <1>4, <1>5 DEF Good

\* So are the first state and the one Terminate leaves.
LEMMA BlankFields ==
  /\ Blank \in State
  /\ Blank.tasks = <<>> /\ Blank.dirty = FALSE /\ Blank.descs = {}
  /\ Blank.current = NoTask /\ Blank.pc = "entry" /\ Blank.ended = FALSE
  /\ Blank.bound = 0 /\ Blank.running = FALSE /\ Blank.terminated = FALSE
<1>1. <<>> \in Seq(Tasks) /\ {} \in SUBSET Descs /\ 0 \in Nat
  OBVIOUS
<1> QED BY <1>1 DEF Blank, State

LEMMA InitGood == Init => IInv
BY BlankFields, BlankIsGood DEF Init, IInv

LEMMA TerminateLeavesBlank ==
  Terminate =>
    /\ q' \in State
    /\ q'.tasks = <<>> /\ q'.dirty = FALSE /\ q'.descs = {}
    /\ q'.current = NoTask /\ q'.pc = "entry" /\ q'.ended = FALSE
    /\ q'.bound = 0 /\ q'.running = FALSE /\ q'.terminated = TRUE
<1>1. \A B \in State : LET T == [B EXCEPT !.terminated = TRUE] IN
        /\ T \in State
        /\ T.tasks = B.tasks /\ T.dirty = B.dirty /\ T.descs = B.descs
        /\ T.current = B.current /\ T.pc = B.pc /\ T.ended = B.ended
        /\ T.bound = B.bound /\ T.running = B.running /\ T.terminated = TRUE
  BY DEF State
<1> QED BY <1>1, BlankFields DEF Terminate

\* Every step keeps the invariant.
LEMMA NextKeeps == IInv /\ [Next]_q => IInv'
<1> SUFFICES ASSUME IInv, [Next]_q PROVE Good(q') /\ Awake(q')
  BY DEF IInv, Good, Awake, Books, Sorting, Distinct, Ranked, Listed
<1>1. Good(q) /\ Awake(q) /\ q \in State
  BY DEF IInv, Good
<1>2. CASE UNCHANGED q
  BY <1>1, <1>2
<1>3. ASSUME NEW t \in Tasks, Add(t) PROVE Good(q') /\ Awake(q')
  BY <1>1, <1>3, AddTaskKeeps DEF Add
<1>4. CASE Start
  <2> DEFINE P == [q EXCEPT !.running = TRUE]
             W == CreateSchedulerThread(P)
  <2>1. /\ P \in State
        /\ P.tasks = q.tasks /\ P.dirty = q.dirty /\ P.descs = q.descs
        /\ P.current = q.current /\ P.pc = q.pc /\ P.ended = q.ended
        /\ P.bound = q.bound /\ P.running = TRUE /\ P.terminated = q.terminated
    BY <1>1 DEF State
  <2>2. q' = W /\ ~q.running /\ ~q.terminated
    BY <1>4 DEF Start
  <2> HIDE DEF P
  <2>3. Good(P)
    BY <2>1, <1>1 DEF Good, Books, Sorting
  <2>4. /\ Good(W) /\ W.tasks = P.tasks
        /\ W.current = P.current /\ W.pc = P.pc
        /\ W.running = P.running /\ W.terminated = P.terminated
        /\ P.tasks = <<>> => W = P
        /\ P.pc = "entry" /\ P.tasks # <<>> => ~W.ended /\ W.bound > 0
    BY <2>3, WakingKeeps
  <2>5. P.pc = "entry" /\ ~P.ended /\ P.current = NoTask
    BY <2>1, <2>2, <1>1 DEF Awake
  <2> HIDE DEF W
  <2>6. Awake(W)
    <3>1. CASE P.tasks = <<>>
      BY <3>1, <2>1, <2>2, <2>4, <2>5 DEF Awake
    <3>2. CASE P.tasks # <<>>
      BY <3>2, <2>1, <2>2, <2>4, <2>5 DEF Awake
    <3> QED BY <3>1, <3>2
  <2> QED BY <2>2, <2>4, <2>6
<1>5. CASE Terminate
  BY <1>5, TerminateLeavesBlank, BlankIsGood
<1>6. CASE Enter
  <2>1. q.current = NoTask /\ q.running /\ ~q.terminated /\ q.bound > 0
        /\ (q.ended => q.tasks = <<>>)
    BY <1>6, <1>1 DEF Enter, Awake
  <2> QED BY <2>1, <1>1, <1>6, LoopKeeps DEF Enter
<1>7. CASE Finish
  BY <1>1, <1>7, FinishedKeeps DEF Finish
<1>8. CASE GoOn
  <2> DEFINE C == Cleanup(q)
  <2>1. q.pc = "done" /\ q' = Loop(C)
    BY <1>8 DEF GoOn
  <2>2. /\ Good(C) /\ C.current = NoTask /\ C.bound > 0 /\ ~C.ended
        /\ C.running /\ ~C.terminated
    BY <2>1, <1>1, CleanupKeeps
  <2> HIDE DEF C
  <2> QED BY <2>1, <2>2, LoopKeeps
<1> QED BY <1>2, <1>3, <1>4, <1>5, <1>6, <1>7, <1>8 DEF Next, RunIdle

\* The invariant holds throughout.
LEMMA Invariance == Spec => []IInv
BY InitGood, NextKeeps, PTL DEF Spec

-----------------------------------------------------------------------------
(***************************************************************************)
(* The invariants that the run checks.                                      *)
(***************************************************************************)
\* Every field of the scheduler keeps its type; RunIdle is never unbound more
\* often than it was bound.
THEOREM TypesHold == Spec => []TypeOK
<1>1. IInv => TypeOK
  BY DEF IInv, Good, TypeOK
<1> QED BY <1>1, Invariance, PTL

\* A task that has been added gets the idle events it needs.
THEOREM NoWakeupIsLost == Spec => []NoLostWakeup
<1>1. IInv => NoLostWakeup
  BY DEF IInv, Awake, NoLostWakeup
<1> QED BY <1>1, Invariance, PTL

\* The loop may take the first task of an unmarked list, and finds one in a
\* marked list.
THEOREM CleanListIsSorted == Spec => []CleanIsSorted
<1>1. IInv => CleanIsSorted
  BY DEF IInv, Good, Sorting, Ranked, CleanIsSorted
<1> QED BY <1>1, Invariance, PTL

\* A list of tasks with different descriptions has as many tasks.
LEMMA DistinctCount ==
  ASSUME NEW s \in Seq(Tasks), Distinct(s)
  PROVE  IsFiniteSet(Listed(s)) /\ Cardinality(Listed(s)) = Len(s)
<1> DEFINE f == [i \in 1..Len(s) |-> s[i]]
<1>1. Len(s) \in Nat
  BY LenProperties
<1>2. f \in [1..Len(s) -> Listed(s)]
  BY DEF Listed
<1>3. \A i, j \in 1..Len(s) : f[i] = f[j] => i = j
  BY DEF Distinct
<1>4. \A t \in Listed(s) : \E i \in 1..Len(s) : f[i] = t
  BY DEF Listed
<1>5. f \in Bijection(1..Len(s), Listed(s))
  BY <1>2, <1>3, <1>4 DEF Bijection, Injection, Surjection, IsInjective
<1>6. ExistsBijection(1..Len(s), Listed(s))
  BY <1>5 DEF ExistsBijection
<1> QED BY <1>1, <1>6, FS_CountingElements, FS_NatBijection

\* m_taskDescs and the tasks held agree, so the wxFAIL is not reached.
THEOREM DescsAlwaysAgree == Spec => []DescsAgree
<1>1. IInv => DescsAgree
  <2> SUFFICES ASSUME IInv PROVE DescsAgree
    OBVIOUS
  <2> DEFINE W == Listed(q.tasks)
             H == W \cup ({q.current} \ {NoTask})
  <2>1. /\ q.tasks \in Seq(Tasks) /\ q.current \in Tasks \cup {NoTask}
        /\ Distinct(q.tasks) /\ q.descs = {Desc[t] : t \in H}
        /\ q.current # NoTask => \A t \in W : Desc[t] # Desc[q.current]
    BY DEF IInv, Good, Books, State
  <2>2. IsFiniteSet(W) /\ Cardinality(W) = Len(q.tasks) /\ Len(q.tasks) \in Nat
    BY <2>1, DistinctCount, LenProperties
  <2>3. \A t, u \in W : Desc[t] = Desc[u] => t = u
    BY <2>1 DEF Distinct, Listed
  <2> HIDE DEF W
  <2>4. /\ IsFiniteSet(H)
        /\ Cardinality(H) = Len(q.tasks) + (IF q.current = NoTask THEN 0 ELSE 1)
    <3>1. CASE q.current = NoTask
      <4>1. H = W
        BY <3>1
      <4> HIDE DEF H
      <4> QED BY <4>1, <3>1, <2>2
    <3>2. CASE q.current # NoTask
      <4>1. H = W \cup {q.current} /\ q.current \notin W
        BY <3>2, <2>1
      <4> HIDE DEF H
      <4> QED BY <4>1, <3>2, <2>2, FS_AddElement
    <3> QED BY <3>1, <3>2
  <2>5. \A t, u \in H : Desc[t] = Desc[u] => t = u
    BY <2>1, <2>3
  <2>6. Cardinality(q.descs) = Cardinality(H)
    <3> DEFINE g == [t \in H |-> Desc[t]]
    <3>1. g \in Bijection(H, q.descs)
      <4>1. g \in [H -> q.descs]
        BY <2>1
      <4>2. \A t, u \in H : g[t] = g[u] => t = u
        BY <2>5
      <4>3. \A d \in q.descs : \E t \in H : g[t] = d
        BY <2>1
      <4> QED BY <4>1, <4>2, <4>3 DEF Bijection, Injection, Surjection, IsInjective
    <3>2. ExistsBijection(H, q.descs)
      BY <3>1 DEF ExistsBijection
    <3> QED BY <3>2, <2>4, FS_Bijection
  <2> QED BY <2>1, <2>4, <2>6 DEF DescsAgree, W
<1> QED BY <1>1, Invariance, PTL

\* The list, the descriptions and the mark agree, whatever is added, taken,
\* suspended or terminated.
THEOREM SchedulerStaysWellFormed == Spec => []SchedulerWellFormed
<1>1. TypeOK /\ DescsAgree /\ CleanIsSorted => SchedulerWellFormed
  BY DEF SchedulerWellFormed
<1> QED BY <1>1, TypesHold, DescsAlwaysAgree, CleanListIsSorted, PTL

\* The last hashing task is followed by CAICHSyncTask.
THEOREM LastHashIsFollowed == Spec => LastHashCallsSync
<1> DEFINE Follows ==
      /\ q.current # NoTask /\ Desc[q.current] \in Hashing
      /\ q'.current # q.current /\ ~q'.terminated
      => q'.descs \cap Hashing # {} \/ Desc[Sync] \in q'.descs
<1>1. IInv /\ [Next]_q => [Follows]_q
  <2> SUFFICES ASSUME IInv, Next,
                      q.current # NoTask, Desc[q.current] \in Hashing,
                      q'.current # q.current, ~q'.terminated
               PROVE  q'.descs \cap Hashing # {} \/ Desc[Sync] \in q'.descs
    OBVIOUS
  <2>1. Good(q) /\ Awake(q) /\ q \in State
    BY DEF IInv, Good
  <2>2. ASSUME NEW t \in Tasks, Add(t) PROVE FALSE
    BY <2>1, <2>2, AddTaskKeeps DEF Add
  <2>3. ~Start
    BY <2>1 DEF Start, Awake
  <2>4. ~Terminate
    BY TerminateLeavesBlank
  <2>5. ~Enter
    BY <2>1 DEF Enter, Awake
  <2>6. ~Finish
    BY <2>1, FinishedKeeps DEF Finish
  <2>7. CASE GoOn
    <3> DEFINE C == Cleanup(q)
    <3>1. q.pc = "done" /\ q' = Loop(C)
      BY <2>7 DEF GoOn
    <3>2. /\ Good(C) /\ C.current = NoTask /\ C.bound > 0 /\ ~C.ended
          /\ C.running /\ ~C.terminated
          /\ C.descs \cap Hashing # {} \/ Desc[Sync] \in C.descs
      BY <3>1, <2>1, CleanupKeeps
    <3> HIDE DEF C
    <3>3. q'.descs = C.descs
      BY <3>1, <3>2, LoopKeeps
    <3> QED BY <3>2, <3>3
  <2> QED BY <2>2, <2>3, <2>4, <2>5, <2>6, <2>7 DEF Next, RunIdle
<1> QED BY <1>1, Invariance, PTL DEF Spec, LastHashCallsSync

-----------------------------------------------------------------------------
(***************************************************************************)
(* The scheduler keeps the promises of TaskService: every step of the code  *)
(* is one of the service, or changes nothing that shows.                    *)
(***************************************************************************)
Phase(Q) ==
  IF Q.terminated THEN "closed" ELSE IF Q.running THEN "running" ELSE "suspended"

Together ==
  {<<>>} \cup {<<t>> : t \in Tasks} \cup UNION {Orders(T) : T \in SUBSET Unhashed}

\* Nothing shows of a step that leaves the tasks and the scheduler's state.
LEMMA ServiceStutters ==
  /\ q'.tasks = q.tasks /\ q'.current = q.current
  /\ q'.running = q.running /\ q'.terminated = q.terminated
  => UNCHANGED Service!vars
BY DEF Service!vars, Listed

\* Tasks that are pushed are accepted by the service.
LEMMA PushIsAccept ==
  ASSUME Good(q), NEW p \in Together, Welcome(p, q), ~q.terminated,
         q'.tasks = q.tasks \o p, q'.current = q.current,
         q'.running = q.running, q'.terminated = q.terminated
  PROVE  Service!Next
<1>1. q.tasks \in Seq(Tasks) /\ p \in Seq(Tasks)
  BY DEF Good, State, Welcome
<1>2. /\ Listed(q'.tasks) = Listed(q.tasks) \cup Listed(p)
      /\ Order(q'.tasks) =
           {r \in Tasks \X Tasks :
              /\ Priority[r[1]] = Priority[r[2]]
              /\ \/ r \in Order(q.tasks)
                 \/ r[1] \in Listed(q.tasks) /\ r[2] \in Listed(p)
                 \/ \E i, j \in 1..Len(p) : i < j /\ r = <<p[i], p[j]>>}
  BY <1>1, Appending
<1>3. Phase(q) # "closed" /\ Phase(q') = Phase(q)
  BY DEF Phase
<1>4. \A i \in 1..Len(p) : \A u \in Listed(q.tasks) \cup ({q.current} \ {NoTask}) :
        Desc[p[i]] # Desc[u]
  BY DEF Good, Books, Welcome, Listed
<1>5. \A i, j \in 1..Len(p) : i # j => Desc[p[i]] # Desc[p[j]]
  BY DEF Welcome, Distinct
<1>6. Service!Fresh(p, Listed(q.tasks) \cup ({q.current} \ {NoTask}))
  BY <1>4, <1>5 DEF Service!Fresh
<1>7. Listed(q'.tasks) = Service!Joined(p)
  BY <1>2 DEF Service!Joined, Service!Listed, Listed
<1>8. Order(q'.tasks) = Service!Behind(p)
  BY <1>2 DEF Service!Behind, Service!Listed, Listed, Order
<1>9. Service!Accept(p)
  BY <1>3, <1>6, <1>7, <1>8 DEF Service!Accept, Order, Phase
<1> QED BY <1>9 DEF Service!Next, Together

\* A task that is taken from the head of the list is one the service may begin.
LEMMA TakeIsBegin ==
  ASSUME Good(q), q.running, ~q.terminated,
         NEW p \in Together, p \in Seq(Tasks), Distinct(p),
         \A i \in 1..Len(p) : \A u \in Listed(q.tasks) : Desc[p[i]] # Desc[u],
         NEW s \in Seq(Tasks), s # <<>>, Distinct(s), Ranked(s),
         Listed(s) = Listed(q.tasks \o p), Order(s) = Order(q.tasks \o p),
         q'.tasks = Tail(s), q'.current = Head(s),
         q'.running = q.running, q'.terminated = q.terminated
  PROVE  Service!Next
<1> DEFINE h == Head(s)
<1>1. q.tasks \in Seq(Tasks)
  BY DEF Good, State
<1>2. /\ Listed(q.tasks \o p) = Listed(q.tasks) \cup Listed(p)
      /\ Order(q.tasks \o p) =
           {r \in Tasks \X Tasks :
              /\ Priority[r[1]] = Priority[r[2]]
              /\ \/ r \in Order(q.tasks)
                 \/ r[1] \in Listed(q.tasks) /\ r[2] \in Listed(p)
                 \/ \E i, j \in 1..Len(p) : i < j /\ r = <<p[i], p[j]>>}
  BY <1>1, Appending
<1>3. /\ h \in Listed(s) /\ h \in Tasks
      /\ \A u \in Listed(s) : Priority[u] <= Priority[h] /\ <<u, h>> \notin Order(s)
      /\ Listed(Tail(s)) = Listed(s) \ {h}
      /\ Order(Tail(s)) = {r \in Order(s) : r[1] # h /\ r[2] # h}
  BY TakingFirst
<1> HIDE DEF h
<1>4. Phase(q) = "running" /\ Phase(q') = Phase(q)
  BY DEF Phase
<1>5. Service!Fresh(p, Listed(q.tasks))
  BY DEF Service!Fresh, Distinct
<1>6. Listed(s) = Service!Joined(p)
  BY <1>2 DEF Service!Joined, Service!Listed, Listed
<1>7. Order(s) = Service!Behind(p)
  BY <1>2 DEF Service!Behind, Service!Listed, Listed, Order
<1>8. /\ q'.current = h
      /\ Listed(q'.tasks) = Service!Joined(p) \ {h}
      /\ Order(q'.tasks) = {r \in Service!Behind(p) : r[1] # h /\ r[2] # h}
  BY <1>3, <1>6, <1>7 DEF h
<1>9. /\ h \in Service!Joined(p)
      /\ \A u \in Service!Joined(p) :
           Priority[u] <= Priority[h] /\ <<u, h>> \notin Service!Behind(p)
  BY <1>3, <1>6, <1>7
<1>10. Service!Begin(p, h)
  BY <1>4, <1>5, <1>8, <1>9 DEF Service!Begin, Order, Phase
<1> QED BY <1>3, <1>10 DEF Service!Next, Together

\* What the loop does to a scheduler that has just received p is a step of the
\* service.
LEMMA LoopIsService ==
  ASSUME Good(q), q.running, ~q.terminated,
         NEW p \in {<<>>, <<Sync>>}, p \in Seq(Tasks), Distinct(p),
         \A i \in 1..Len(p) : \A u \in Listed(q.tasks) : Desc[p[i]] # Desc[u],
         NEW Q, Good(Q), Q.current = NoTask, Q.bound > 0,
         Q.ended => Q.tasks = <<>>,
         Q.running, ~Q.terminated, Q.tasks = q.tasks \o p, q' = Loop(Q)
  PROVE  Service!Next
<1>1. p \in Together
  BY TasksAssumption DEF Together
<1>2. /\ q'.running = Q.running /\ q'.terminated = Q.terminated
      /\ \/ Q.tasks = <<>> /\ q'.tasks = <<>> /\ q'.current = NoTask
         \/ \E s \in Seq(Tasks) :
              /\ s # <<>> /\ Distinct(s) /\ Ranked(s)
              /\ Listed(s) = Listed(Q.tasks) /\ Order(s) = Order(Q.tasks)
              /\ q'.tasks = Tail(s) /\ q'.current = Head(s)
  BY LoopKeeps
<1>3. /\ q.running \in BOOLEAN /\ q.terminated \in BOOLEAN
      /\ Q.running \in BOOLEAN /\ Q.terminated \in BOOLEAN
      /\ q.tasks \in Seq(Tasks)
  BY DEF Good, State
<1>4. q'.running = q.running /\ q'.terminated = q.terminated
  BY <1>2, <1>3
<1>5. CASE Q.tasks = <<>> /\ q'.tasks = <<>> /\ q'.current = NoTask
  <2>1. q.tasks = <<>>
    <3>1. q.tasks \o p = <<>>
      BY <1>5
    <3>2. q.tasks \o p = <<>> <=> q.tasks = <<>> /\ p = <<>>
      BY <1>3, ConcatEqualIffEmpty
    <3> QED BY <3>1, <3>2
  <2>2. \A i, j \in 1..Len(<<>>) : FALSE
    OBVIOUS
  <2>3. Listed(q.tasks) = {} /\ q'.tasks = q.tasks
    BY <2>1, <2>2, <1>5 DEF Listed
  <2>4. Phase(q) = "running" /\ Phase(q') = Phase(q)
    BY <1>4 DEF Phase
  <2>5. Service!Rest
    BY <2>3, <2>4, <1>5 DEF Service!Rest, Phase, Listed
  <2> QED BY <2>5 DEF Service!Next
<1>6. ASSUME NEW s \in Seq(Tasks), s # <<>>, Distinct(s), Ranked(s),
             Listed(s) = Listed(Q.tasks), Order(s) = Order(Q.tasks),
             q'.tasks = Tail(s), q'.current = Head(s)
      PROVE  Service!Next
  BY <1>1, <1>4, <1>6, TakeIsBegin
<1> QED BY <1>2, <1>5, <1>6

LEMMA NextIsService == IInv /\ [Next]_q => [Service!Next]_(Service!vars)
<1> SUFFICES ASSUME IInv, [Next]_q
             PROVE  Service!Next \/ UNCHANGED Service!vars
  OBVIOUS
<1>1. Good(q) /\ Awake(q) /\ q \in State
  BY DEF IInv, Good
<1>2. CASE UNCHANGED q
  BY <1>2, ServiceStutters
<1>3. ASSUME NEW t \in Tasks, Add(t)
      PROVE  Service!Next \/ UNCHANGED Service!vars
  <2>1. q' = AddTask(q, t)
    BY <1>3 DEF Add
  <2>2. CASE q' = q
    BY <2>2, ServiceStutters
  <2>3. CASE /\ ~q.terminated /\ Desc[t] \notin q.descs
             /\ q'.tasks = q.tasks \o <<t>> /\ q'.current = q.current
             /\ q'.running = q.running /\ q'.terminated = q.terminated
    <3>1. Welcome(<<t>>, q) /\ <<t>> \in Together
      BY <2>3, OneIsWelcome DEF Together
    <3> QED BY <3>1, <2>3, <1>1, PushIsAccept
  <2> QED BY <2>1, <2>2, <2>3, <1>1, AddTaskKeeps
<1>4. CASE Start
  <2> DEFINE P == [q EXCEPT !.running = TRUE]
  <2>1. /\ P \in State
        /\ P.tasks = q.tasks /\ P.dirty = q.dirty /\ P.descs = q.descs
        /\ P.current = q.current /\ P.running = TRUE
        /\ P.terminated = q.terminated
    BY <1>1 DEF State
  <2>2. q' = CreateSchedulerThread(P) /\ ~q.running /\ ~q.terminated
    BY <1>4 DEF Start
  <2> HIDE DEF P
  <2>3. Good(P)
    BY <2>1, <1>1 DEF Good, Books, Sorting
  <2>4. /\ q'.tasks = q.tasks /\ q'.current = q.current
        /\ q'.running = TRUE /\ q'.terminated = q.terminated
    BY <2>1, <2>2, <2>3, WakingKeeps
  <2>5. Phase(q) = "suspended" /\ Phase(q') = "running"
    BY <2>2, <2>4 DEF Phase
  <2>6. Service!Start
    BY <2>4, <2>5 DEF Service!Start, Phase, Listed
  <2> QED BY <2>6 DEF Service!Next
<1>5. CASE Terminate
  <2>1. q'.tasks = <<>> /\ q'.current = NoTask /\ q'.terminated = TRUE
    BY <1>5, TerminateLeavesBlank
  <2>2. \A i, j \in 1..Len(<<>>) : FALSE
    OBVIOUS
  <2>3. Listed(q'.tasks) = {} /\ Order(q'.tasks) = {} /\ Phase(q') = "closed"
    BY <2>1, <2>2 DEF Listed, Order, Phase
  <2>4. Service!Terminate
    BY <2>1, <2>3 DEF Service!Terminate, Order, Phase
  <2> QED BY <2>4 DEF Service!Next
<1>6. CASE Enter
  <2>1. /\ q.current = NoTask /\ q.running /\ ~q.terminated /\ q.bound > 0
        /\ q.ended => q.tasks = <<>>
    BY <1>6, <1>1 DEF Enter, Awake
  <2>2. \A i, j \in 1..Len(<<>>) : FALSE
    OBVIOUS
  <2>3. <<>> \in Seq(Tasks) /\ Distinct(<<>>)
    BY <2>2 DEF Distinct
  <2>4. q.tasks = q.tasks \o <<>>
    BY <1>1, ConcatEmptySeq DEF State
  <2> QED BY <2>1, <2>2, <2>3, <2>4, <1>1, <1>6, LoopIsService DEF Enter
<1>7. CASE Finish
  <2>1. q.pc = "working" /\ q' \in Finished(q)
    BY <1>7 DEF Finish
  <2>2. /\ q'.current = q.current /\ q'.running = q.running
        /\ q'.terminated = q.terminated /\ ~q.terminated
        /\ \/ q'.tasks = q.tasks
           \/ \E T \in SUBSET Unhashed : \E p \in Orders(T) :
                Welcome(p, q) /\ q'.tasks = q.tasks \o p
    BY <2>1, <1>1, FinishedKeeps
  <2>3. CASE q'.tasks = q.tasks
    BY <2>2, <2>3, ServiceStutters
  <2>4. ASSUME NEW T \in SUBSET Unhashed, NEW p \in Orders(T),
               Welcome(p, q), q'.tasks = q.tasks \o p
        PROVE  Service!Next
    <3>1. p \in Together
      BY DEF Together
    <3> QED BY <3>1, <2>2, <2>4, <1>1, PushIsAccept
  <2> QED BY <2>2, <2>3, <2>4
<1>8. CASE GoOn
  <2> DEFINE C == Cleanup(q)
  <2>1. q.pc = "done" /\ q' = Loop(C)
    BY <1>8 DEF GoOn
  <2>2. /\ Good(C) /\ C.current = NoTask /\ C.bound > 0 /\ ~C.ended
        /\ C.running /\ ~C.terminated
        /\ C.running = q.running /\ C.terminated = q.terminated
    BY <2>1, <1>1, CleanupKeeps
  <2>3. PICK p \in {<<>>, <<Sync>>} :
           /\ p \in Seq(Tasks) /\ Distinct(p)
           /\ \A i \in 1..Len(p) : \A u \in Listed(q.tasks) : Desc[p[i]] # Desc[u]
           /\ C.tasks = q.tasks \o p
    BY <2>1, <1>1, CleanupKeeps
  <2> HIDE DEF C
  <2>4. q.running /\ ~q.terminated
    BY <2>2
  <2> QED BY <2>1, <2>2, <2>3, <2>4, <1>1, LoopIsService
<1> QED BY <1>2, <1>3, <1>4, <1>5, <1>6, <1>7, <1>8 DEF Next, RunIdle

\* The scheduler refines the service.
THEOREM SchedulerKeepsService == Spec => ServiceKept
<1>1. Init => Service!Init
  <2>1. \A i, j \in 1..Len(<<>>) : FALSE
    OBVIOUS
  <2>2. ASSUME q.tasks = <<>>, q.current = NoTask, q.running = FALSE,
               q.terminated = FALSE
        PROVE  Service!Init
    BY <2>1, <2>2 DEF Service!Init, Listed
  <2> QED BY <2>2, BlankFields DEF Init
<1> QED BY <1>1, NextIsService, Invariance, PTL DEF Spec, ServiceKept, Service!Spec

=============================================================================
