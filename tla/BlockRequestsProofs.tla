------------------------- MODULE BlockRequestsProofs -------------------------
(***************************************************************************)
(* What holds of the block requests of a file of any size, with any number  *)
(* of sources: requests are blocks, no byte is asked for twice at a time,   *)
(* what is asked for is missing, and bytes are withheld only by a source    *)
(* that is downloading and holds the block.                                 *)
(*                                                                          *)
(* The handlers are compositions of operators of the state, so the proof    *)
(* goes operator by operator: each keeps Good, and either asks for nothing  *)
(* new or only for what is Fresh.  The rounds of GetNextRequestedBlock are  *)
(* a recursive function; what holds after each is shown by a least          *)
(* counterexample.                                                          *)
(***************************************************************************)
EXTENDS BlockRequests, SequenceTheorems, WellFoundedInduction, TLAPS

-----------------------------------------------------------------------------
(***************************************************************************)
(* Arithmetic of parts and blocks.                                          *)
(***************************************************************************)
\* A set of numbers that is not empty has a least one.
LEMMA LeastNatural ==
  ASSUME NEW T \in SUBSET Nat, T # {}
  PROVE  \E m \in T : \A k \in T : m <= k
<1> DEFINE less == OpToRel(<, Nat)
<1>1. less = {p \in Nat \X Nat : p[1] < p[2]}
  BY DEF OpToRel
<1>2. PICK m \in T : \A k \in T : <<k, m>> \notin less
  BY NatLessThanWellFounded, WFMin
<1>3. ASSUME NEW k \in T PROVE m <= k
  <2>1. <<k, m>> \in Nat \X Nat /\ <<k, m>> \notin less
    BY <1>2
  <2>2. ~ (k < m)
    BY <2>1, <1>1
  <2> QED BY <2>2
<1> QED BY <1>3

\* Division leaves a remainder that is less than the divisor.
LEMMA Division ==
  ASSUME NEW a \in Nat, NEW b \in Nat \ {0}
  PROVE  /\ a \div b \in Nat
         /\ (a \div b) * b <= a
         /\ a < (a \div b) * b + b
OBVIOUS

\* Less before multiplication is less after it.
LEMMA Multiples ==
  ASSUME NEW a \in Int, NEW b \in Int, NEW c \in Nat, a <= b
  PROVE  a * c <= b * c
OBVIOUS

\* The quotient is the only number of which that is true.
LEMMA Quotient ==
  ASSUME NEW a \in Nat, NEW b \in Nat \ {0}, NEW k \in Nat,
         k * b <= a, a < k * b + b
  PROVE  a \div b = k
<1> DEFINE d == a \div b
<1>1. d \in Nat /\ d * b <= a /\ a < d * b + b
  BY Division
<1> HIDE DEF d
<1>2. CASE d < k
  <2>1. (d + 1) * b <= k * b
    BY <1>1, <1>2, Multiples
  <2>2. (d + 1) * b = d * b + b
    BY <1>1
  <2>3. k * b \in Int /\ d * b \in Int
    BY <1>1
  <2> QED BY <1>1, <2>1, <2>2, <2>3
<1>3. CASE k < d
  <2>1. (k + 1) * b <= d * b
    BY <1>1, <1>3, Multiples
  <2>2. (k + 1) * b = k * b + b
    OBVIOUS
  <2>3. k * b \in Int /\ d * b \in Int
    BY <1>1
  <2> QED BY <1>1, <2>1, <2>2, <2>3
<1> QED BY <1>1, <1>2, <1>3 DEF d

\* The units of a part are units of the file, and in no other part.
LEMMA PartsCover ==
  ASSUME NEW p \in Parts
  PROVE  /\ PartStart(p) \in Nat /\ PartEnd(p) \in Int
         /\ PartEnd(p) <= FileSize - 1 /\ PartEnd(p) < PartStart(p) + PartSize
         /\ \A n \in PartRange(p) : n \in Positions /\ PartOf(n) = p
<1>1. /\ FileSize \in Nat \ {0} /\ PartSize \in Nat \ {0} /\ p \in Nat
  BY BlocksAssumption, Division DEF Parts
<1> DEFINE a == p * PartSize
<1>2. a \in Nat /\ (p + 1) * PartSize = a + PartSize
  BY <1>1
<1>3. PartStart(p) = a /\ PartEnd(p) = IF a + PartSize <= FileSize THEN a + PartSize - 1
                                       ELSE FileSize - 1
  <2>1. PartStart(p) = a
    BY DEF PartStart
  <2> HIDE DEF a
  <2> QED BY <1>1, <1>2, <2>1 DEF PartEnd
<1> HIDE DEF a
<1>4. ASSUME NEW n \in PartRange(p) PROVE n \in Positions /\ PartOf(n) = p
  <2>1. n \in Nat /\ a <= n /\ n < a + PartSize /\ n <= FileSize - 1
    BY <1>1, <1>2, <1>3, <1>4 DEF PartRange
  <2>2. n \div PartSize = p
    BY <1>1, <2>1, Quotient DEF a
  <2> QED BY <2>1, <2>2, <1>1 DEF Positions, PartOf
<1> QED BY <1>1, <1>2, <1>3, <1>4

\* Every unit of the file is in a part.
LEMMA PositionInPart ==
  ASSUME NEW n \in Positions
  PROVE  PartOf(n) \in Parts /\ n \in PartRange(PartOf(n))
<1>1. /\ FileSize \in Nat \ {0} /\ PartSize \in Nat \ {0} /\ n \in Nat /\ n <= FileSize - 1
  BY BlocksAssumption DEF Positions
<1> DEFINE d == n \div PartSize
           e == (FileSize - 1) \div PartSize
<1>2. d \in Nat /\ d * PartSize <= n /\ n < d * PartSize + PartSize
  BY <1>1, Division
<1>3. e \in Nat /\ e * PartSize <= FileSize - 1 /\ FileSize - 1 < e * PartSize + PartSize
  BY <1>1, Division
<1> HIDE DEF d, e
<1>4. d <= e
  <2>1. SUFFICES ASSUME e + 1 <= d PROVE FALSE
    BY <1>2, <1>3
  <2>2. (e + 1) * PartSize <= d * PartSize
    BY <1>1, <1>2, <1>3, <2>1, Multiples
  <2>3. (e + 1) * PartSize = e * PartSize + PartSize
    BY <1>1, <1>3
  <2>4. e * PartSize \in Int /\ d * PartSize \in Int
    BY <1>1, <1>2, <1>3
  <2> QED BY <1>1, <1>2, <1>3, <2>2, <2>3, <2>4
<1>5. (d + 1) * PartSize = d * PartSize + PartSize /\ d * PartSize \in Nat
  BY <1>1, <1>2
<1> QED BY <1>1, <1>2, <1>3, <1>4, <1>5 DEF PartOf, Parts, d, e, PartRange, PartStart, PartEnd

\* A block does not reach beyond its part, and has BlockSize units at most.
LEMMA BlockFits ==
  ASSUME NEW n \in Positions
  PROVE  /\ BlockLimit(n) \in Nat /\ n <= BlockLimit(n)
         /\ BlockLimit(n) - n < BlockSize
         /\ BlockLimit(n) <= PartEnd(PartOf(n))
<1> DEFINE p == PartOf(n)
           k == (n - PartStart(p)) \div BlockSize
<1>1. p \in Parts /\ n \in PartRange(p) /\ n \in Nat
  BY PositionInPart DEF Positions
<1>2. PartStart(p) \in Nat /\ PartEnd(p) \in Int
  BY <1>1, PartsCover
<1>3. PartStart(p) <= n /\ n <= PartEnd(p) /\ BlockSize \in Nat \ {0}
  BY <1>1, <1>2, BlocksAssumption DEF PartRange
<1> HIDE DEF p
<1>4. n - PartStart(p) \in Nat
  BY <1>1, <1>2, <1>3
<1>5. k \in Nat /\ k * BlockSize <= n - PartStart(p) /\ n - PartStart(p) < k * BlockSize + BlockSize
  BY <1>3, <1>4, Division
<1> HIDE DEF k
<1>6. BlockSize * (k + 1) = k * BlockSize + BlockSize /\ k * BlockSize \in Nat
  BY <1>3, <1>5
<1>7. BlockLimit(n) = LET b == PartStart(p) + BlockSize * (k + 1) - 1
                      IN  IF b > PartEnd(p) THEN PartEnd(p) ELSE b
  BY DEF BlockLimit, p, k
<1> QED BY <1>1, <1>2, <1>3, <1>5, <1>6, <1>7 DEF p

\* Where in a gap a request that begins at n ends: within the gap and the block.
LEMMA CutWithin ==
  ASSUME NEW S, NEW n \in Positions, n \in S.gaps
  PROVE  /\ CutAtBlock(S, n) \in n..BlockLimit(n)
         /\ n..CutAtBlock(S, n) \subseteq S.gaps
<1> DEFINE T == {m \in n..BlockLimit(n) : m = BlockLimit(n) \/ m + 1 \notin S.gaps}
<1>1. n \in Nat /\ BlockLimit(n) \in Nat /\ n <= BlockLimit(n)
  BY BlockFits DEF Positions
<1>2. T \in SUBSET Nat /\ T # {}
  BY <1>1
<1>3. PICK m \in T : \A k \in T : m <= k
  <2> HIDE DEF T
  <2> QED BY <1>2, LeastNatural
<1>4. n..m \subseteq S.gaps
  <2>1. SUFFICES ASSUME NEW k \in n..m PROVE k \in S.gaps
    OBVIOUS
  <2>2. CASE k = n
    BY <2>2
  <2>3. CASE k # n
    <3>1. k - 1 \in n..BlockLimit(n) /\ k - 1 < m
      BY <1>1, <1>3, <2>1, <2>3
    <3>2. k - 1 \notin T
      BY <3>1, <1>3, <1>1
    <3> QED BY <3>1, <3>2
  <2> QED BY <2>2, <2>3
<1>5. m \in n..BlockLimit(n) /\ (m = BlockLimit(n) \/ m + 1 \notin S.gaps)
  BY <1>3
<1> QED BY <1>4, <1>5 DEF CutAtBlock

-----------------------------------------------------------------------------
(***************************************************************************)
(* The invariant.                                                           *)
(***************************************************************************)
\* An entry of m_requestedblocks_list, and of a source's m_PendingBlocks_list.
Entry   == [owner : Clients, start : Positions, end : Positions]
Pending == [start : Positions, end : Positions, err : BOOLEAN]

\* A range within a block.
Fits(b) ==
  /\ b.start <= b.end /\ b.end - b.start < BlockSize
  /\ PartOf(b.start) = PartOf(b.end)

\* The owner of entry e holds such a block.
Alive(S, e) == \E i \in DOMAIN S.pending[e.owner] :
                 /\ S.pending[e.owner][i].start = e.start
                 /\ S.pending[e.owner][i].end = e.end

\* What is true of source c: it holds blocks, no more than it may and only while
\* it is downloading, and was last asked for a part that it has.
Behaves(S, c) ==
  /\ Len(S.pending[c]) <= MaxBlocks
  /\ \A i \in DOMAIN S.pending[c] : Fits(S.pending[c][i])
  /\ S.last[c] \in Available[c] \cup {NoPart}
  /\ S.pending[c] # <<>> => S.ds[c] = "downloading"

\* Two entries have no unit in common.
Disjoint(d, e) == e.end < d.start \/ d.end < e.start
Apart(S) == \A d, e \in S.requested : d = e \/ Disjoint(d, e)

\* Each entry is of a source that is downloading and holds the block.
Listed(S) == \A e \in S.requested : S.ds[e.owner] = "downloading" /\ Alive(S, e)

\* The state of the file and its sources as long as there is something to ask for.
Good(S) ==
  /\ S \in State
  /\ \A c \in Clients : Behaves(S, c)
  /\ Apart(S) /\ Listed(S)

\* A source that downloads has a block to send.
Works(S, c) == S.ds[c] = "downloading" => S.pending[c] # <<>>

\* When the file is complete the entries that are left have no owner.
IInv ==
  /\ s \in State /\ status \in Statuses
  /\ status # "done" => Good(s)
  /\ status = "done" => \A c \in Clients : s.pending[c] = <<>> /\ s.ds[c] # "downloading"
  /\ Apart(s)
  /\ \A c \in Clients : Behaves(s, c)
  /\ ~DropSlow => \A c \in Clients : Works(s, c)

\* What is asked for anew: missing, of a part the source has, and of nobody else.
Fresh(S, e) ==
  /\ e.start..e.end \subseteq S.gaps
  /\ PartOf(e.start) \in Available[e.owner]
  /\ \A d \in S.requested \ {e} : Disjoint(d, e)

\* From S to T nothing was asked for, or only what is missing.
Asks(S, T) ==
  /\ T.gaps = S.gaps
  /\ \A e \in T.requested \ S.requested : Fresh(T, e)

\* The fields of a state.
LEMMA StateType ==
  ASSUME NEW S \in State
  PROVE  /\ S.gaps \in SUBSET Positions /\ S.requested \in SUBSET Entry
         /\ S.pending \in [Clients -> Seq(Pending)]
         /\ S.last \in [Clients -> Parts \cup {NoPart}]
         /\ S.ds \in [Clients -> {"none", "onqueue", "downloading", "noneeded"}]
         /\ S.changed \in SUBSET Parts /\ S.corrupt \in SUBSET Parts
         /\ S.aich \in SUBSET Parts /\ S.wrong \in SUBSET Positions
BY DEF State, Entry, Pending

\* Asking nothing.
LEMMA AsksNothing ==
  ASSUME NEW S, NEW T, T.gaps = S.gaps, T.requested \subseteq S.requested
  PROVE  Asks(S, T)
BY DEF Asks

\* What is new after two steps was new after the first, and is still so, or is
\* new after the second.
LEMMA AsksTransitive ==
  ASSUME NEW S, NEW T, NEW U, Asks(S, T), Asks(T, U)
  PROVE  Asks(S, U)
<1>1. ASSUME NEW e \in U.requested \ S.requested PROVE Fresh(U, e)
  <2>1. CASE e \notin T.requested
    BY <1>1, <2>1 DEF Asks
  <2>2. CASE e \in T.requested
    <3>1. Fresh(T, e)
      BY <1>1, <2>2 DEF Asks
    <3>2. ASSUME NEW d \in U.requested \ {e} PROVE Disjoint(d, e)
      <4>1. CASE d \in T.requested
        BY <4>1, <3>1, <3>2 DEF Fresh
      <4>2. CASE d \notin T.requested
        <5>1. Fresh(U, d)
          BY <4>2, <3>2 DEF Asks
        <5>2. Disjoint(e, d)
          BY <5>1, <1>1, <3>2 DEF Fresh
        <5> QED BY <5>2 DEF Disjoint
      <4> QED BY <4>1, <4>2
    <3> QED BY <3>1, <3>2 DEF Fresh, Asks
  <2> QED BY <2>1, <2>2
<1> QED BY <1>1 DEF Asks

-----------------------------------------------------------------------------
(***************************************************************************)
(* Choosing a block.                                                        *)
(***************************************************************************)
\* GetNextEmptyBlockInPart finds a block of the part, missing and not asked for.
LEMMA FoundIsFree ==
  ASSUME NEW S \in State, NEW p \in Parts, FirstFree(S, p) # None
  PROVE  LET b == FirstFree(S, p)
         IN  /\ b.start \in Positions /\ b.end \in Positions /\ Fits(b)
             /\ b.start..b.end \subseteq S.gaps
             /\ PartOf(b.start) = p
             /\ ~IsAlreadyRequested(S, b.start, b.end)
<1> DEFINE Free == {n \in Begins(S, p) : ~IsAlreadyRequested(S, n, CutAtBlock(S, n))}
           a    == CHOOSE n \in Free : \A m \in Free : n <= m
           e    == CutAtBlock(S, a)
<1>1. Free # {} /\ FirstFree(S, p) = [start |-> a, end |-> e]
  BY DEF FirstFree
<1>2. Free \in SUBSET Nat
  BY PartsCover DEF Begins, Positions
<1>3. a \in Free
  <2>1. \E n \in Free : \A m \in Free : n <= m
    <3> HIDE DEF Free
    <3> QED BY <1>1, <1>2, LeastNatural
  <2> QED BY <2>1
<1>4. a \in S.gaps /\ a \in PartRange(p) /\ ~IsAlreadyRequested(S, a, e)
  BY <1>3 DEF Begins
<1> HIDE DEF Free, a
<1>5. a \in Positions /\ PartOf(a) = p /\ a \in Nat
  BY <1>4, PartsCover DEF Positions
<1>6. e \in a..BlockLimit(a) /\ a..e \subseteq S.gaps
  BY <1>4, <1>5, CutWithin
<1> HIDE DEF e
<1>7. /\ BlockLimit(a) \in Nat /\ BlockLimit(a) - a < BlockSize
      /\ BlockLimit(a) <= PartEnd(p) /\ BlockSize \in Nat
  BY <1>5, BlockFits, BlocksAssumption
<1>8. a <= e /\ e - a < BlockSize /\ e \in PartRange(p)
  BY <1>4, <1>5, <1>6, <1>7, PartsCover DEF PartRange
<1>9. e \in Positions /\ PartOf(e) = p
  BY <1>8, PartsCover
<1> QED BY <1>1, <1>4, <1>5, <1>6, <1>8, <1>9 DEF Fits

\* No part is -1.
LEMMA NoPartIsNone == NoPart \notin Parts
BY BlocksAssumption, Division DEF NoPart, Parts

\* A block more.
LEMMA RequestKeeps ==
  ASSUME NEW S, NEW c \in Clients, NEW p \in Chunks(S, c),
         Good(S), S.ds[c] = "downloading", Len(S.pending[c]) < MaxBlocks
  PROVE  LET T == Request(S, c, p)
         IN  /\ Good(T) /\ Asks(S, T) /\ T.ds = S.ds
             /\ Len(T.pending[c]) = Len(S.pending[c]) + 1
             /\ \A d \in Clients \ {c} : T.pending[d] = S.pending[d]
<1> DEFINE b  == FirstFree(S, p)
           e0 == [owner |-> c, start |-> b.start, end |-> b.end]
           p0 == [start |-> b.start, end |-> b.end, err |-> FALSE]
           T  == Request(S, c, p)
<1>1. S \in State
  BY DEF Good
<1>2. p \in Parts /\ FirstFree(S, p) # None
  BY <1>1, StateType DEF Chunks
<1>3. p \in Available[c]
  <2>1. S.last[c] \in Available[c] \cup {NoPart}
    BY DEF Good, Behaves
  <2> QED BY <2>1, <1>2, NoPartIsNone DEF Chunks
<1>4. /\ b.start \in Positions /\ b.end \in Positions /\ Fits(b)
      /\ b.start..b.end \subseteq S.gaps
      /\ PartOf(b.start) = p
      /\ ~IsAlreadyRequested(S, b.start, b.end)
  BY <1>1, <1>2, FoundIsFree
<1>5. T = [S EXCEPT !.last[c] = p, !.requested = @ \cup {e0}, !.pending[c] = Append(@, p0)]
  BY DEF Request
<1> HIDE DEF b, T
<1>6. e0 \in Entry /\ p0 \in Pending /\ Fits(p0)
  BY <1>4 DEF Entry, Pending, Fits
<1>7. e0.owner = c /\ e0.start = b.start /\ e0.end = b.end
      /\ p0.start = b.start /\ p0.end = b.end
  OBVIOUS
<1> HIDE DEF e0, p0
<1>8. S.pending[c] \in Seq(Pending) /\ S.pending \in [Clients -> Seq(Pending)]
      /\ S.last \in [Clients -> Parts \cup {NoPart}]
  BY <1>1, StateType
<1>9. Append(S.pending[c], p0) \in Seq(Pending)
  BY <1>6, <1>8
<1>10. /\ T \in State /\ T.gaps = S.gaps /\ T.requested = S.requested \cup {e0}
       /\ T.pending = [S.pending EXCEPT ![c] = Append(S.pending[c], p0)]
       /\ T.last = [S.last EXCEPT ![c] = p] /\ T.ds = S.ds
  <2>1. /\ T.gaps = S.gaps /\ T.requested = S.requested \cup {e0}
        /\ T.pending = [S.pending EXCEPT ![c] = Append(S.pending[c], p0)]
        /\ T.last = [S.last EXCEPT ![c] = p] /\ T.ds = S.ds
    BY <1>1, <1>5 DEF State
  <2>2. /\ [S.pending EXCEPT ![c] = Append(S.pending[c], p0)] \in [Clients -> Seq(Pending)]
        /\ [S.last EXCEPT ![c] = p] \in [Clients -> Parts \cup {NoPart}]
        /\ S.requested \cup {e0} \in SUBSET Entry
    BY <1>1, <1>2, <1>6, <1>8, <1>9, StateType
  <2>3. T \in State
    BY <1>1, <1>5, <2>2 DEF State, Entry, Pending
  <2> QED BY <2>1, <2>3
<1>11. /\ T.pending[c] = Append(S.pending[c], p0) /\ T.last[c] = p
       /\ \A d \in Clients \ {c} : T.pending[d] = S.pending[d] /\ T.last[d] = S.last[d]
  BY <1>8, <1>10
<1>12. /\ Len(T.pending[c]) = Len(S.pending[c]) + 1 /\ Len(S.pending[c]) \in Nat
       /\ \A i \in DOMAIN S.pending[c] : /\ i \in DOMAIN T.pending[c]
                                          /\ T.pending[c][i] = S.pending[c][i]
       /\ Len(T.pending[c]) \in DOMAIN T.pending[c]
       /\ T.pending[c][Len(T.pending[c])] = p0
       /\ \A i \in DOMAIN T.pending[c] : i \in DOMAIN S.pending[c] \/ T.pending[c][i] = p0
  BY <1>6, <1>8, <1>11
<1>13. ASSUME NEW d \in Clients PROVE Behaves(T, d)
  <2>1. Behaves(S, d)
    BY DEF Good
  <2>2. CASE d # c
    BY <2>1, <2>2, <1>10, <1>11 DEF Behaves
  <2>3. CASE d = c
    <3>1. Len(T.pending[c]) <= MaxBlocks
      BY <1>12, BlocksAssumption
    <3>2. \A i \in DOMAIN T.pending[c] : Fits(T.pending[c][i])
      BY <2>1, <2>3, <1>6, <1>12 DEF Behaves
    <3> QED BY <2>3, <3>1, <3>2, <1>3, <1>10, <1>11 DEF Behaves
  <2> QED BY <2>2, <2>3
<1>14. ASSUME NEW d \in S.requested PROVE Disjoint(d, e0)
  <2>1. ~(b.start <= d.end /\ b.end >= d.start)
    BY <1>4 DEF IsAlreadyRequested
  <2>2. d.start \in Int /\ d.end \in Int /\ b.start \in Int /\ b.end \in Int
    BY <1>1, <1>4, StateType DEF Entry, Positions
  <2> QED BY <2>1, <2>2, <1>7 DEF Disjoint
<1>15. Apart(T)
  <2>1. \A d \in S.requested : Disjoint(e0, d)
    BY <1>14 DEF Disjoint
  <2> QED BY <2>1, <1>10, <1>14 DEF Good, Apart
<1>16. Listed(T)
  <2> SUFFICES ASSUME NEW e \in T.requested PROVE T.ds[e.owner] = "downloading" /\ Alive(T, e)
    BY DEF Listed
  <2>1. CASE e = e0
    BY <2>1, <1>7, <1>10, <1>12 DEF Alive
  <2>2. CASE e \in S.requested
    <3>1. S.ds[e.owner] = "downloading" /\ Alive(S, e) /\ e.owner \in Clients
      BY <2>2, <1>1, StateType DEF Good, Listed, Entry
    <3>2. PICK i \in DOMAIN S.pending[e.owner] :
             S.pending[e.owner][i].start = e.start /\ S.pending[e.owner][i].end = e.end
      BY <3>1 DEF Alive
    <3>3. i \in DOMAIN T.pending[e.owner] /\ T.pending[e.owner][i] = S.pending[e.owner][i]
      BY <3>1, <3>2, <1>11, <1>12
    <3> QED BY <3>1, <3>2, <3>3, <1>10 DEF Alive
  <2> QED BY <2>1, <2>2, <1>10
<1>17. Asks(S, T)
  <2>1. Fresh(T, e0)
    <3>1. \A d \in T.requested \ {e0} : Disjoint(d, e0)
      BY <1>10, <1>14
    <3>2. e0.start..e0.end \subseteq T.gaps /\ PartOf(e0.start) \in Available[e0.owner]
      BY <1>3, <1>4, <1>7, <1>10
    <3> QED BY <3>1, <3>2 DEF Fresh
  <2> QED BY <2>1, <1>10 DEF Asks
<1>18. Good(T)
  BY <1>10, <1>13, <1>15, <1>16 DEF Good
<1> QED BY <1>10, <1>11, <1>12, <1>17, <1>18 DEF T

\* One round: a block more, or c is told that it was asked for no part.
LEMMA RoundKeeps ==
  ASSUME NEW S, NEW c \in Clients, NEW T \in Round(S, c),
         Good(S), S.ds[c] = "downloading", Len(S.pending[c]) < MaxBlocks
  PROVE  /\ Good(T) /\ Asks(S, T) /\ T.ds = S.ds
         /\ Len(T.pending[c]) <= Len(S.pending[c]) + 1
         /\ \A d \in Clients \ {c} : T.pending[d] = S.pending[d]
<1>1. S \in State /\ Len(S.pending[c]) \in Nat
  BY StateType DEF Good
<1>2. CASE Chunks(S, c) # {}
  <2>1. PICK p \in Chunks(S, c) : T = Request(S, c, p)
    BY <1>2 DEF Round
  <2> QED BY <1>1, <2>1, RequestKeeps
<1>3. CASE Chunks(S, c) = {}
  <2>1. T = [S EXCEPT !.last[c] = NoPart]
    BY <1>3 DEF Round
  <2>2. /\ T.gaps = S.gaps /\ T.requested = S.requested /\ T.pending = S.pending
        /\ T.ds = S.ds /\ T.last = [S.last EXCEPT ![c] = NoPart]
    BY <1>1, <2>1 DEF State
  <2>3. T \in State
    BY <1>1, <2>1 DEF State
  <2>4. \A d \in Clients : T.last[d] \in {S.last[d], NoPart}
    BY <1>1, <2>2, StateType
  <2>5. \A d \in Clients : Behaves(T, d)
    BY <2>2, <2>4 DEF Good, Behaves
  <2>6. Good(T)
    BY <2>2, <2>3, <2>5 DEF Good, Apart, Listed, Alive
  <2> QED BY <1>1, <2>2, <2>6, AsksNothing
<1> QED BY <1>2, <1>3

\* The equation of the recursive function Rounds, for n rounds.
Unrolled(S, c, n, f) ==
  [k \in 0..n |-> IF k = 0 THEN {S} ELSE AfterRound(f[k - 1], c)]

\* The recursive function is defined: some function satisfies its equation.
LEMMA RoundsExist ==
  ASSUME NEW S, NEW c, NEW n \in Nat
  PROVE  \E f : f = Unrolled(S, c, n, f)
<1> DEFINE Solves(f, m) == f = Unrolled(S, c, m, f)
           Unsolved == {m \in Nat : ~\E f : Solves(f, m)}
<1> SUFFICES ASSUME Unsolved # {} PROVE FALSE
  OBVIOUS
<1>1. Unsolved \in SUBSET Nat
  OBVIOUS
<1>2. PICK m \in Unsolved : \A k \in Unsolved : m <= k
  <2> HIDE DEF Unsolved
  <2> QED BY <1>1, LeastNatural
<1>3. m \in Nat /\ ~\E f : Solves(f, m)
  OBVIOUS
<1>4. CASE m = 0
  <2> DEFINE g == [k \in 0..0 |-> {S}]
  <2>1. g = Unrolled(S, c, 0, g)
    BY DEF Unrolled
  <2> QED BY <1>3, <1>4, <2>1
<1>5. CASE m # 0
  <2>1. m - 1 \in Nat /\ m - 1 \notin Unsolved
    <3> HIDE DEF Unsolved
    <3> QED BY <1>2, <1>3, <1>5
  <2>2. PICK f : Solves(f, m - 1)
    BY <2>1
  <2> DEFINE g == [k \in 0..m |-> IF k = m THEN AfterRound(f[m - 1], c) ELSE f[k]]
             h == Unrolled(S, c, m, g)
  <2>3. ASSUME NEW k \in 0..m PROVE g[k] = h[k]
    <3>1. CASE k = m
      <4>1. m - 1 \in 0..m /\ m - 1 # m
        BY <1>3, <2>1
      <4>2. g[m - 1] = f[m - 1]
        BY <4>1
      <4>3. g[k] = AfterRound(f[m - 1], c)
        BY <3>1
      <4>4. h[k] = AfterRound(g[m - 1], c)
        BY <3>1, <1>5 DEF Unrolled
      <4> QED BY <4>2, <4>3, <4>4
    <3>2. CASE k # m
      <4>1. k \in 0..m - 1 /\ g[k] = f[k]
        BY <1>3, <3>2
      <4>2. f[k] = IF k = 0 THEN {S} ELSE AfterRound(f[k - 1], c)
        BY <2>2, <4>1 DEF Unrolled
      <4>3. k # 0 => k - 1 \in 0..m /\ k - 1 # m
        BY <1>3, <3>2
      <4>4. k # 0 => g[k - 1] = f[k - 1]
        BY <4>3
      <4>5. h[k] = IF k = 0 THEN {S} ELSE AfterRound(g[k - 1], c)
        BY DEF Unrolled
      <4> HIDE DEF g, h
      <4> QED BY <4>1, <4>2, <4>4, <4>5
    <3> QED BY <3>1, <3>2
  <2>4. g = h
    <3>1. g = [k \in 0..m |-> g[k]] /\ h = [k \in 0..m |-> h[k]]
      BY DEF Unrolled
    <3> HIDE DEF g, h
    <3> QED BY <2>3, <3>1
  <2>5. Solves(g, m)
    BY <2>4
  <2> QED BY <1>3, <2>5
<1> QED BY <1>4, <1>5

\* What the rounds are: none, and one more.
LEMMA RoundsUnfold ==
  ASSUME NEW S, NEW c, NEW n \in Nat
  PROVE  /\ Rounds(S, c, n)[0] = {S}
         /\ \A k \in 1..n : Rounds(S, c, n)[k] = AfterRound(Rounds(S, c, n)[k - 1], c)
<1> DEFINE R == CHOOSE f : f = Unrolled(S, c, n, f)
<1>1. Rounds(S, c, n) = R
  BY DEF Rounds, Unrolled
<1>2. R = Unrolled(S, c, n, R)
  BY RoundsExist
<1> HIDE DEF R
<1>3. R[0] = {S}
  <2>1. R[0] = Unrolled(S, c, n, R)[0]
    BY <1>2
  <2> QED BY <2>1 DEF Unrolled
<1>4. ASSUME NEW k \in 1..n PROVE R[k] = AfterRound(R[k - 1], c)
  <2>1. R[k] = Unrolled(S, c, n, R)[k]
    BY <1>2
  <2> QED BY <2>1 DEF Unrolled
<1> QED BY <1>1, <1>3, <1>4

\* GetNextRequestedBlock, as long as it is asked for no more than c may hold.
LEMMA AskingKeeps ==
  ASSUME NEW S, NEW c \in Clients, NEW n \in Nat,
         Good(S), S.ds[c] = "downloading", Len(S.pending[c]) + n <= MaxBlocks,
         NEW U \in GetNextRequestedBlock(S, c, n)
  PROVE  /\ Good(U) /\ Asks(S, U) /\ U.ds = S.ds
         /\ \A d \in Clients \ {c} : U.pending[d] = S.pending[d]
<1> DEFINE R == Rounds(S, c, n)
           Kept(T, k) == /\ Good(T) /\ Asks(S, T) /\ T.ds = S.ds
                         /\ Len(T.pending[c]) <= Len(S.pending[c]) + k
                         /\ \A d \in Clients \ {c} : T.pending[d] = S.pending[d]
           Bad == {k \in 0..n : ~\A T \in R[k] : Kept(T, k)}
<1>1. R[0] = {S} /\ \A k \in 1..n : R[k] = AfterRound(R[k - 1], c)
  BY RoundsUnfold
<1>2. U \in R[n]
  BY DEF GetNextRequestedBlock
<1>3. Len(S.pending[c]) \in Nat /\ MaxBlocks \in Nat
  BY StateType, BlocksAssumption DEF Good
<1> HIDE DEF R
<1>4. ASSUME Bad # {} PROVE FALSE
  <2>1. Bad \in SUBSET Nat
    OBVIOUS
  <2>2. PICK k \in Bad : \A j \in Bad : k <= j
    <3> HIDE DEF Bad
    <3> QED BY <1>4, <2>1, LeastNatural
  <2>3. k \in 0..n
    OBVIOUS
  <2>4. PICK T \in R[k] : ~Kept(T, k)
    OBVIOUS
  <2>5. CASE k = 0
    <3>1. T = S
      BY <1>1, <2>3, <2>4, <2>5
    <3>2. Kept(T, k)
      BY <1>3, <2>5, <3>1, AsksNothing
    <3> QED BY <2>4, <3>2
  <2>6. CASE k # 0
    <3>1. k - 1 \in 0..n /\ k - 1 < k
      BY <2>3, <2>6
    <3>2. PICK W \in R[k - 1] : T \in Round(W, c)
      <4>1. T \in AfterRound(R[k - 1], c)
        BY <1>1, <2>3, <2>4, <2>6
      <4> QED BY <4>1 DEF AfterRound
    <3>3. k - 1 \notin Bad
      BY <2>2, <2>3, <3>1
    <3>4. Kept(W, k - 1)
      BY <3>1, <3>2, <3>3
    <3>5. Good(W) /\ Asks(S, W) /\ W.ds = S.ds /\ Len(W.pending[c]) \in Nat
          /\ Len(W.pending[c]) <= Len(S.pending[c]) + (k - 1)
          /\ \A d \in Clients \ {c} : W.pending[d] = S.pending[d]
      BY <3>4, StateType DEF Good
    <3>6. Len(W.pending[c]) < MaxBlocks
      BY <1>3, <2>3, <2>6, <3>5
    <3>7. /\ Good(T) /\ Asks(W, T) /\ T.ds = W.ds
          /\ Len(T.pending[c]) <= Len(W.pending[c]) + 1
          /\ \A d \in Clients \ {c} : T.pending[d] = W.pending[d]
      BY <3>2, <3>5, <3>6, RoundKeeps
    <3>8. Len(T.pending[c]) \in Nat
      BY <3>7, StateType DEF Good
    <3>9. Kept(T, k)
      <4>1. Asks(S, T)
        BY <3>5, <3>7, AsksTransitive
      <4>2. Len(T.pending[c]) <= Len(S.pending[c]) + k
        <5>1. /\ Len(W.pending[c]) \in Nat /\ Len(T.pending[c]) \in Nat
              /\ Len(W.pending[c]) <= Len(S.pending[c]) + (k - 1)
              /\ Len(T.pending[c]) <= Len(W.pending[c]) + 1
          BY <3>5, <3>7, <3>8
        <5>2. k \in Nat
          BY <2>3
        <5>3. ASSUME NEW x \in Nat, NEW y \in Nat, NEW z \in Nat,
                     x <= y + 1, y <= z + (k - 1)
              PROVE  x <= z + k
          BY <5>2, <5>3
        <5> HIDE DEF Kept, Bad
        <5> QED BY <1>3, <5>1, <5>3
      <4> QED BY <3>5, <3>7, <4>1, <4>2
    <3> QED BY <2>4, <3>9
  <2> QED BY <2>5, <2>6
<1>5. \A T \in R[n] : Kept(T, n)
  BY <1>4
<1> QED BY <1>2, <1>5

-----------------------------------------------------------------------------
(***************************************************************************)
(* Sending requests.                                                        *)
(***************************************************************************)
\* A state that differs in content and in what it no longer asks for.
Passive(S, T) ==
  /\ T \in State /\ T.requested \subseteq S.requested
  /\ T.pending = S.pending /\ T.last = S.last /\ T.ds = S.ds

\* Such a state is good.
LEMMA PassiveKeeps ==
  ASSUME NEW S, NEW T, Good(S), Passive(S, T)
  PROVE  Good(T) /\ \A c \in Clients : Works(S, c) => Works(T, c)
<1>1. \A c \in Clients : Behaves(T, c)
  BY DEF Good, Passive, Behaves
<1>2. Apart(T) /\ Listed(T)
  BY DEF Good, Passive, Apart, Listed, Alive
<1> QED BY <1>1, <1>2 DEF Good, Passive, Works

\* Sending changes nothing but the marks of errors.
LEMMA SentKeeps ==
  ASSUME NEW S, NEW c \in Clients, Good(S)
  PROVE  LET T == Sent(S, c)
         IN  /\ Good(T) /\ Asks(S, T) /\ T.ds = S.ds
             /\ T.pending[c] = <<>> => S.pending[c] = <<>>
             /\ \A d \in Clients \ {c} : T.pending[d] = S.pending[d]
<1> DEFINE q == S.pending[c]
           r == [i \in DOMAIN q |-> [q[i] EXCEPT !.err = FALSE]]
           T == Sent(S, c)
<1>1. S \in State /\ q \in Seq(Pending) /\ S.pending \in [Clients -> Seq(Pending)]
  BY StateType DEF Good
<1>2. DOMAIN q = 1..Len(q) /\ Len(q) \in Nat /\ \A i \in 1..Len(q) : q[i] \in Pending
  BY <1>1
<1>3. ASSUME NEW i \in 1..Len(q)
      PROVE  r[i] \in Pending /\ r[i].start = q[i].start /\ r[i].end = q[i].end
  BY <1>2 DEF Pending
<1>4. T = [S EXCEPT !.pending[c] = r]
  BY DEF Sent
<1> HIDE DEF q, T
<1>5. r \in Seq(Pending) /\ Len(r) = Len(q) /\ DOMAIN r = DOMAIN q
  <2>1. r \in [1..Len(q) -> Pending]
    BY <1>2, <1>3
  <2> HIDE DEF r
  <2> QED BY <2>1, <1>2
<1> HIDE DEF r
<1>6. /\ T \in State /\ T.gaps = S.gaps /\ T.requested = S.requested /\ T.ds = S.ds
      /\ T.last = S.last /\ T.pending = [S.pending EXCEPT ![c] = r]
  <2>1. [S.pending EXCEPT ![c] = r] \in [Clients -> Seq(Pending)]
    BY <1>1, <1>5
  <2> QED BY <2>1, <1>1, <1>4 DEF State, Pending
<1>7. T.pending[c] = r /\ \A d \in Clients \ {c} : T.pending[d] = S.pending[d]
  BY <1>1, <1>6
<1>8. ASSUME NEW d \in Clients PROVE Behaves(T, d)
  <2>1. Behaves(S, d)
    BY DEF Good
  <2>2. CASE d # c
    BY <2>1, <2>2, <1>6, <1>7 DEF Behaves
  <2>3. CASE d = c
    <3>1. \A i \in DOMAIN r : Fits(r[i])
      BY <2>1, <2>3, <1>2, <1>3, <1>5 DEF Behaves, Fits, q
    <3>2. r # <<>> => q # <<>>
      BY <1>1, <1>5
    <3> QED BY <2>1, <2>3, <3>1, <3>2, <1>5, <1>6, <1>7 DEF Behaves, q
  <2> QED BY <2>2, <2>3
<1>9. Listed(T)
  <2> SUFFICES ASSUME NEW e \in T.requested PROVE T.ds[e.owner] = "downloading" /\ Alive(T, e)
    BY DEF Listed
  <2>1. e.owner \in Clients /\ S.ds[e.owner] = "downloading" /\ Alive(S, e)
    BY <1>1, <1>6, StateType DEF Good, Listed, Entry
  <2>2. PICK i \in DOMAIN S.pending[e.owner] :
           S.pending[e.owner][i].start = e.start /\ S.pending[e.owner][i].end = e.end
    BY <2>1 DEF Alive
  <2>3. /\ i \in DOMAIN T.pending[e.owner]
        /\ T.pending[e.owner][i].start = e.start /\ T.pending[e.owner][i].end = e.end
    <3>1. CASE e.owner = c
      BY <3>1, <2>2, <1>2, <1>3, <1>5, <1>7 DEF q
    <3>2. CASE e.owner # c
      BY <3>2, <2>1, <2>2, <1>7
    <3> QED BY <3>1, <3>2
  <2> QED BY <2>1, <2>3, <1>6 DEF Alive
<1>10. r = <<>> => q = <<>>
  BY <1>1, <1>5
<1>11. Good(T)
  BY <1>6, <1>8, <1>9 DEF Good, Apart
<1>12. Asks(S, T)
  BY <1>6, AsksNothing
<1> QED BY <1>6, <1>7, <1>10, <1>11, <1>12 DEF T, q

\* Nobody but c gains or loses blocks.
OthersKeep(S, T, c) == \A x \in Clients \ {c} : T.pending[x] = S.pending[x]

\* A source whose state changes keeps its blocks only if it goes on downloading.
LEMMA StateChangeKeeps ==
  ASSUME NEW S, NEW c \in Clients, NEW d \in {"onqueue", "downloading", "noneeded"}, Good(S)
  PROVE  LET T == SetDownloadState(S, c, d)
         IN  /\ Good(T) /\ Asks(S, T) /\ T.requested \subseteq S.requested
             /\ T.ds = [S.ds EXCEPT ![c] = d]
             /\ S.ds[c] # "downloading" \/ d # "downloading" => T.pending[c] = <<>>
             /\ OthersKeep(S, T, c)
<1> DEFINE T == SetDownloadState(S, c, d)
           R == ClearDownloadBlockRequests(S, c)
           Covers(e) == \E i \in DOMAIN S.pending[c] :
                          e.start <= S.pending[c][i].start /\ e.end >= S.pending[c][i].end
<1>1. /\ S \in State /\ S.ds \in [Clients -> {"none", "onqueue", "downloading", "noneeded"}]
      /\ S.pending \in [Clients -> Seq(Pending)] /\ S.requested \in SUBSET Entry
  BY StateType DEF Good
<1>2. CASE S.ds[c] = "downloading" /\ d # "downloading"
  <2>1. T = [R EXCEPT !.ds[c] = d]
    BY <1>2 DEF SetDownloadState
  <2>2. R = [S EXCEPT !.requested = {e \in @ : ~Covers(e)}, !.pending[c] = <<>>]
    BY DEF ClearDownloadBlockRequests
  <2> DEFINE Q == {e \in S.requested : ~Covers(e)}
  <2>3. Q \subseteq S.requested /\ \A e \in Q : ~Covers(e)
    OBVIOUS
  <2>4. R = [S EXCEPT !.requested = Q, !.pending[c] = <<>>]
    BY <2>2, <1>1 DEF State
  <2> HIDE DEF R, T, Q
  <2>5. /\ T \in State /\ T.gaps = S.gaps /\ T.requested = Q /\ T.last = S.last
        /\ T.ds = [S.ds EXCEPT ![c] = d] /\ T.pending = [S.pending EXCEPT ![c] = <<>>]
    <3>1. /\ [S.pending EXCEPT ![c] = <<>>] \in [Clients -> Seq(Pending)]
          /\ [S.ds EXCEPT ![c] = d] \in [Clients -> {"none", "onqueue", "downloading", "noneeded"}]
          /\ Q \in SUBSET Entry
      BY <1>1, <2>3
    <3>2. T = [S EXCEPT !.requested = Q, !.pending = [S.pending EXCEPT ![c] = <<>>],
                        !.ds = [S.ds EXCEPT ![c] = d]]
      BY <1>1, <2>1, <2>4 DEF State
    <3> QED BY <3>1, <3>2, <1>1 DEF State, Pending, Entry
  <2>6. /\ T.pending[c] = <<>> /\ T.ds[c] = d
        /\ \A x \in Clients \ {c} : T.pending[x] = S.pending[x] /\ T.ds[x] = S.ds[x]
    BY <1>1, <2>5
  <2>7. ASSUME NEW x \in Clients PROVE Behaves(T, x)
    <3>1. Behaves(S, x)
      BY DEF Good
    <3>2. CASE x # c
      BY <3>1, <3>2, <2>5, <2>6 DEF Behaves
    <3>3. CASE x = c
      <4>1. Len(<<>>) = 0 /\ DOMAIN <<>> = {} /\ MaxBlocks \in Nat
        BY BlocksAssumption
      <4> QED BY <3>1, <3>3, <4>1, <2>5, <2>6 DEF Behaves
    <3> QED BY <3>2, <3>3
  <2>8. Listed(T)
    <3> SUFFICES ASSUME NEW e \in T.requested PROVE T.ds[e.owner] = "downloading" /\ Alive(T, e)
      BY DEF Listed
    <3>1. e \in S.requested /\ ~Covers(e) /\ e \in Entry
      BY <1>1, <2>3, <2>5
    <3> HIDE DEF Covers
    <3>2. S.ds[e.owner] = "downloading" /\ Alive(S, e)
      BY <3>1 DEF Good, Listed
    <3>3. e.owner # c
      <4>1. SUFFICES ASSUME e.owner = c PROVE FALSE
        OBVIOUS
      <4>2. PICK i \in DOMAIN S.pending[c] :
               S.pending[c][i].start = e.start /\ S.pending[c][i].end = e.end
        BY <3>2, <4>1 DEF Alive
      <4>3. e.start \in Int /\ e.end \in Int
        BY <3>1 DEF Entry, Positions
      <4>4. e.start <= S.pending[c][i].start /\ e.end >= S.pending[c][i].end
        BY <4>2, <4>3
      <4> QED BY <3>1, <4>4 DEF Covers
    <3>4. T.pending[e.owner] = S.pending[e.owner] /\ T.ds[e.owner] = S.ds[e.owner]
      BY <3>1, <3>3, <2>6 DEF Entry
    <3> QED BY <3>2, <3>4 DEF Alive
  <2>9. Good(T)
    BY <2>3, <2>5, <2>7, <2>8 DEF Good, Apart
  <2>10. Asks(S, T)
    BY <2>3, <2>5, AsksNothing
  <2> QED BY <2>3, <2>5, <2>6, <2>9, <2>10 DEF T, OthersKeep
<1>3. CASE ~(S.ds[c] = "downloading" /\ d # "downloading")
  <2>1. T = [S EXCEPT !.ds[c] = d]
    BY <1>3 DEF SetDownloadState
  <2> HIDE DEF T
  <2>2. /\ T \in State /\ T.gaps = S.gaps /\ T.requested = S.requested /\ T.last = S.last
        /\ T.ds = [S.ds EXCEPT ![c] = d] /\ T.pending = S.pending
    BY <1>1, <2>1 DEF State
  <2>3. T.ds[c] = d /\ \A x \in Clients \ {c} : T.ds[x] = S.ds[x]
    BY <1>1, <2>2
  <2>4. S.ds[c] # "downloading" => S.pending[c] = <<>>
    BY DEF Good, Behaves
  <2>5. ASSUME NEW x \in Clients PROVE Behaves(T, x)
    BY <1>3, <2>2, <2>3, <2>4 DEF Good, Behaves
  <2>6. Listed(T)
    <3> SUFFICES ASSUME NEW e \in T.requested PROVE T.ds[e.owner] = "downloading" /\ Alive(T, e)
      BY DEF Listed
    <3>1. S.ds[e.owner] = "downloading" /\ Alive(S, e) /\ e.owner \in Clients
      BY <1>1, <2>2 DEF Good, Listed, Entry
    <3> QED BY <3>1, <1>3, <2>2, <2>3 DEF Alive
  <2>7. Good(T)
    BY <2>2, <2>5, <2>6 DEF Good, Apart
  <2>8. Asks(S, T)
    BY <2>2, AsksNothing
  <2> QED BY <1>3, <2>2, <2>4, <2>7, <2>8 DEF T, OthersKeep
<1> QED BY <1>2, <1>3

\* A source that finds nothing is not needed, unless it takes a slower one's place.
LEMMA DropKeeps ==
  ASSUME NEW S, NEW c \in Clients, NEW U \in Drop(S, c),
         Good(S), S.ds[c] = "downloading", S.pending[c] = <<>>
  PROVE  /\ Good(U) /\ Asks(S, U)
         /\ ~DropSlow /\ (\A d \in Clients \ {c} : Works(S, d)) =>
              \A d \in Clients : Works(U, d)
<1>1. S.ds \in [Clients -> {"none", "onqueue", "downloading", "noneeded"}]
  BY StateType DEF Good
<1>2. CASE U = SetDownloadState(S, c, "noneeded")
  <2>1. /\ Good(U) /\ Asks(S, U) /\ U.ds = [S.ds EXCEPT ![c] = "noneeded"]
        /\ \A d \in Clients \ {c} : U.pending[d] = S.pending[d]
    <3> DEFINE T == SetDownloadState(S, c, "noneeded")
    <3>1. /\ Good(T) /\ Asks(S, T) /\ T.ds = [S.ds EXCEPT ![c] = "noneeded"]
          /\ OthersKeep(S, T, c)
      BY StateChangeKeeps
    <3> HIDE DEF T
    <3>2. U = T
      BY <1>2 DEF T
    <3> QED BY <3>1, <3>2 DEF OthersKeep
  <2>2. U.ds[c] = "noneeded" /\ \A d \in Clients \ {c} : U.ds[d] = S.ds[d]
    BY <1>1, <2>1
  <2> QED BY <2>1, <2>2 DEF Works
<1>3. CASE U # SetDownloadState(S, c, "noneeded")
  <2>1. PICK d \in Clients \ {c} :
           /\ DropSlow
           /\ U \in GetNextRequestedBlock(SetDownloadState(S, d, "noneeded"), c, MaxBlocks)
    BY <1>3 DEF Drop
  <2> DEFINE T == SetDownloadState(S, d, "noneeded")
  <2>2. /\ Good(T) /\ Asks(S, T) /\ T.ds = [S.ds EXCEPT ![d] = "noneeded"]
        /\ OthersKeep(S, T, d)
    BY StateChangeKeeps
  <2>3. U \in GetNextRequestedBlock(T, c, MaxBlocks)
    BY <2>1
  <2> HIDE DEF T
  <2>4. T.ds[c] = "downloading" /\ T.pending[c] = <<>>
    BY <1>1, <2>1, <2>2 DEF OthersKeep
  <2>5. Len(T.pending[c]) + MaxBlocks <= MaxBlocks /\ MaxBlocks \in Nat
    BY <2>4, BlocksAssumption
  <2>6. Good(U) /\ Asks(T, U)
    BY <2>2, <2>3, <2>4, <2>5, AskingKeeps
  <2> QED BY <2>1, <2>2, <2>6, AsksTransitive
<1> QED BY <1>2, <1>3

\* SendBlockRequests asks for what is missing, and leaves a source with something
\* to send.
LEMMA SendingKeeps ==
  ASSUME NEW S, NEW c \in Clients, NEW U \in SendBlockRequests(S, c),
         Good(S), S.ds[c] = "downloading"
  PROVE  /\ Good(U) /\ Asks(S, U)
         /\ ~DropSlow /\ (\A d \in Clients \ {c} : Works(S, d)) =>
              \A d \in Clients : Works(U, d)
<1>1. CASE c \in Tagged /\ S.pending[c] # <<>>
  <2>1. U = S
    BY <1>1 DEF SendBlockRequests
  <2> QED BY <1>1, <2>1, AsksNothing DEF Works
<1>2. CASE ~(c \in Tagged /\ S.pending[c] # <<>>)
  <2> DEFINE n == MaxBlocks - Len(S.pending[c])
  <2>1. PICK T \in GetNextRequestedBlock(S, c, n) :
           U \in IF T.pending[c] = <<>> THEN Drop(T, c) ELSE {Sent(T, c)}
    BY <1>2 DEF SendBlockRequests
  <2>2. n \in Nat /\ Len(S.pending[c]) + n <= MaxBlocks
    <3>1. Len(S.pending[c]) \in Nat /\ Len(S.pending[c]) <= MaxBlocks /\ MaxBlocks \in Nat
      BY StateType, BlocksAssumption DEF Good, Behaves
    <3> QED BY <3>1
  <2> HIDE DEF n
  <2>3. /\ Good(T) /\ Asks(S, T) /\ T.ds = S.ds
        /\ \A d \in Clients \ {c} : T.pending[d] = S.pending[d]
    BY <2>1, <2>2, AskingKeeps
  <2>4. (\A d \in Clients \ {c} : Works(S, d)) => \A d \in Clients \ {c} : Works(T, d)
    BY <2>3 DEF Works
  <2>5. CASE T.pending[c] = <<>>
    <3>1. U \in Drop(T, c)
      BY <2>1, <2>5
    <3>2. /\ Good(U) /\ Asks(T, U)
          /\ ~DropSlow /\ (\A d \in Clients \ {c} : Works(T, d)) =>
               \A d \in Clients : Works(U, d)
      BY <3>1, <2>3, <2>5, DropKeeps
    <3> QED BY <3>2, <2>3, <2>4, AsksTransitive
  <2>6. CASE T.pending[c] # <<>>
    <3>1. U = Sent(T, c)
      BY <2>1, <2>6
    <3>2. /\ Good(U) /\ Asks(T, U) /\ U.ds = T.ds /\ U.pending[c] # <<>>
          /\ \A d \in Clients \ {c} : U.pending[d] = T.pending[d]
      BY <3>1, <2>3, <2>6, SentKeeps
    <3>3. (\A d \in Clients \ {c} : Works(T, d)) => \A d \in Clients : Works(U, d)
      BY <3>2 DEF Works
    <3> QED BY <3>2, <3>3, <2>3, <2>4, AsksTransitive
  <2> QED BY <2>5, <2>6
<1> QED BY <1>1, <1>2

-----------------------------------------------------------------------------
(***************************************************************************)
(* Writing and recovering.                                                  *)
(***************************************************************************)
\* The units of any parts are units of the file.
LEMMA PartsAreUnits ==
  ASSUME NEW Q \in SUBSET Parts
  PROVE  UNION {PartRange(p) : p \in Q} \subseteq Positions
BY PartsCover

\* FlushBuffer changes what is known of the content, and drops requests.
LEMMA FlushPassive ==
  ASSUME NEW S \in State, NEW arrived
  PROVE  Passive(S, FlushBuffer(S, arrived))
<1> DEFINE Full   == {p \in S.changed : IsComplete(S, p)}
           Bad    == {p \in Full : ~IsRight(S, p)}
           Healed == {p \in (S.changed \cap S.corrupt) \ Full : IsRight(S, p)}
           Covers(e, p) == e.start <= PartStart(p) /\ e.end >= PartEnd(p)
           gaps == (S.gaps \cup UNION {PartRange(p) : p \in Bad})
                     \ UNION {PartRange(p) : p \in Healed}
           requested == {e \in S.requested : \A p \in Healed : ~Covers(e, p)}
           corrupt == (S.corrupt \cup Bad) \ ((Full \ Bad) \cup Healed)
           aich == IF arrived THEN S.aich ELSE S.aich \cup Bad
           T == FlushBuffer(S, arrived)
<1>1. S.gaps \in SUBSET Positions /\ S.changed \in SUBSET Parts
      /\ S.corrupt \in SUBSET Parts /\ S.aich \in SUBSET Parts
  BY StateType
<1>2. Bad \in SUBSET Parts /\ requested \subseteq S.requested
      /\ corrupt \in SUBSET Parts /\ aich \in SUBSET Parts
  BY <1>1
<1>3. gaps \in SUBSET Positions
  <2>1. UNION {PartRange(p) : p \in Bad} \subseteq Positions
    <3> HIDE DEF Bad
    <3> QED BY <1>2, PartsAreUnits
  <2> QED BY <2>1, <1>1
<1>4. T = [S EXCEPT !.gaps = gaps, !.requested = requested, !.corrupt = corrupt,
                    !.aich = aich, !.changed = {}]
  <2>1. T = [S EXCEPT !.gaps = (@ \cup UNION {PartRange(p) : p \in Bad})
                                 \ UNION {PartRange(p) : p \in Healed},
                      !.requested = {e \in @ : \A p \in Healed : ~Covers(e, p)},
                      !.corrupt = (@ \cup Bad) \ ((Full \ Bad) \cup Healed),
                      !.aich    = IF arrived THEN @ ELSE @ \cup Bad,
                      !.changed = {}]
    BY DEF FlushBuffer
  <2> HIDE DEF T, Full, Bad, Healed, Covers
  <2> QED BY <2>1 DEF State
<1> HIDE DEF T, gaps, requested, corrupt, aich, Full, Bad, Healed, Covers
<1>5. T \in State
  BY <1>2, <1>3, <1>4 DEF State
<1>6. /\ T.requested = requested /\ T.pending = S.pending
      /\ T.last = S.last /\ T.ds = S.ds
  BY <1>4 DEF State
<1> QED BY <1>2, <1>5, <1>6 DEF Passive, T

\* WriteToBuffer, of units of one part.
LEMMA WritePassive ==
  ASSUME NEW S \in State, NEW a \in Positions, NEW b \in Positions, NEW good \in BOOLEAN
  PROVE  Passive(S, WriteToBuffer(S, a, b, good))
<1> DEFINE gaps == S.gaps \ (a..b)
           changed == S.changed \cup {PartOf(a)}
           wrong == IF good THEN S.wrong \ (a..b) ELSE S.wrong \cup a..b
           R == [S EXCEPT !.gaps = gaps, !.changed = changed, !.wrong = wrong]
<1>1. S.gaps \in SUBSET Positions /\ S.changed \in SUBSET Parts /\ S.wrong \in SUBSET Positions
  BY StateType
<1>2. PartOf(a) \in Parts /\ a..b \subseteq Positions
  BY PositionInPart, BlocksAssumption DEF Positions
<1>3. gaps \in SUBSET Positions /\ changed \in SUBSET Parts /\ wrong \in SUBSET Positions
  BY <1>1, <1>2
<1>4. WriteToBuffer(S, a, b, good) = IF R.gaps = {} THEN FlushBuffer(R, FALSE) ELSE R
  <2> DEFINE X == [S EXCEPT !.gaps = @ \ (a..b), !.changed = @ \cup {PartOf(a)},
                     !.wrong = IF good THEN @ \ (a..b) ELSE @ \cup a..b]
  <2>1. X = R
    BY DEF State
  <2>2. WriteToBuffer(S, a, b, good) = IF X.gaps = {} THEN FlushBuffer(X, FALSE) ELSE X
    BY DEF WriteToBuffer
  <2> HIDE DEF X, R
  <2> QED BY <2>1, <2>2
<1> HIDE DEF gaps, changed, wrong
<1>5. Passive(S, R)
  BY <1>3 DEF Passive, State
<1> HIDE DEF R
<1>6. Passive(R, FlushBuffer(R, FALSE))
  BY <1>5, FlushPassive DEF Passive
<1> QED BY <1>4, <1>5, <1>6 DEF Passive

\* AICHRecoveryDataAvailable of an incomplete part.
LEMMA RecoveredPassive ==
  ASSUME NEW S \in State, NEW p \in Parts
  PROVE  Passive(S, Recovered(S, p))
<1> DEFINE Right == {n \in PartRange(p) :
                       /\ (n - PartStart(p)) % BlockSize = 0
                       /\ n..BlockLimit(n) \cap S.wrong = {}}
           Drops(e) == \E n \in Right :
                         e.start <= PartStart(p) /\ e.end >= PartStart(p) + (BlockLimit(n) - n)
           gaps == S.gaps \ UNION {n..BlockLimit(n) : n \in Right}
           requested == {e \in S.requested : ~Drops(e)}
           T == [S EXCEPT !.gaps = gaps, !.requested = requested]
           U == Recovered(S, p)
<1>1. S.gaps \in SUBSET Positions /\ S.requested \in SUBSET Entry /\ S.corrupt \in SUBSET Parts
  BY StateType
<1>2. gaps \in SUBSET Positions /\ requested \subseteq S.requested
  BY <1>1
<1>3. U = IF IsComplete(T, p) /\ ~IsRight(T, p)
          THEN [T EXCEPT !.gaps = @ \cup PartRange(p)]
          ELSE [T EXCEPT !.corrupt = @ \ {p}]
  <2> DEFINE X == [S EXCEPT !.gaps = @ \ UNION {n..BlockLimit(n) : n \in Right},
                            !.requested = {e \in @ : ~Drops(e)}]
  <2>1. X = T
    <3> HIDE DEF Right, Drops
    <3> QED BY DEF State
  <2>2. U = IF IsComplete(X, p) /\ ~IsRight(X, p)
            THEN [X EXCEPT !.gaps = @ \cup PartRange(p)]
            ELSE [X EXCEPT !.corrupt = @ \ {p}]
    BY DEF Recovered
  <2> HIDE DEF X, T, U
  <2> QED BY <2>1, <2>2
<1> HIDE DEF gaps, requested, U
<1>4. Passive(S, T) /\ T.corrupt = S.corrupt
  BY <1>1, <1>2 DEF Passive, State, Entry
<1> HIDE DEF T
<1>5. PartRange(p) \subseteq Positions /\ T.gaps \in SUBSET Positions
  BY <1>4, PartsCover, StateType DEF Passive
<1>6. Passive(T, [T EXCEPT !.gaps = @ \cup PartRange(p)])
  BY <1>4, <1>5 DEF Passive, State
<1>7. Passive(T, [T EXCEPT !.corrupt = @ \ {p}])
  BY <1>1, <1>4 DEF Passive, State
<1>8. U = [T EXCEPT !.gaps = @ \cup PartRange(p)] \/ U = [T EXCEPT !.corrupt = @ \ {p}]
  BY <1>3
<1> QED BY <1>4, <1>6, <1>7, <1>8 DEF Passive, U

\* Two such changes make one.
LEMMA PassiveTransitive ==
  ASSUME NEW S, NEW T, NEW U, Passive(S, T), Passive(T, U)
  PROVE  Passive(S, U)
BY DEF Passive

-----------------------------------------------------------------------------
(***************************************************************************)
(* The actions.                                                             *)
(***************************************************************************)
\* What the invariant says but for completed files.
Running(S) == Good(S) /\ (~DropSlow => \A c \in Clients : Works(S, c))

\* Nothing was asked for, or only what is missing.
New(S, T) == \A e \in T.requested \ S.requested : Fresh(T, e)

\* Dropping requests and then asking adds what asking adds.
LEMMA DropsThenAsks ==
  ASSUME NEW S, NEW T, NEW U, T.requested \subseteq S.requested, Asks(T, U)
  PROVE  New(S, U)
BY DEF New, Asks

\* Before the file is complete the invariant is Running.
LEMMA InvIsRunning ==
  ASSUME status \in Statuses, status # "done"
  PROVE  IInv <=> Running(s)
BY DEF IInv, Running, Good

\* ... and after a step.
LEMMA RunningIsInv ==
  ASSUME status' \in Statuses, status' # "done", Running(s')
  PROVE  IInv'
BY DEF IInv, Running, Good

\* A pending block that is taken off the list: the others stay, in their order.
LEMMA WithoutOne ==
  ASSUME NEW T, NEW q \in Seq(T), NEW i \in DOMAIN q
  PROVE  /\ Without(q, i) \in Seq(T) /\ Len(Without(q, i)) = Len(q) - 1
         /\ \A k \in 1..Len(q) - 1 : Without(q, i)[k] = IF k < i THEN q[k] ELSE q[k + 1]
<1> DEFINE a == SubSeq(q, 1, i - 1)
           b == SubSeq(q, i + 1, Len(q))
<1>1. i \in 1..Len(q) /\ Len(q) \in Nat
  OBVIOUS
<1>2. /\ a \in Seq(T) /\ Len(a) = i - 1
      /\ \A k \in 1..i - 1 : a[k] = q[k]
  BY <1>1
<1>3. /\ b \in Seq(T) /\ Len(b) = Len(q) - i
      /\ \A k \in 1..Len(q) - i : b[k] = q[k + i]
  BY <1>1
<1> HIDE DEF a, b
<1>4. /\ a \o b \in Seq(T) /\ Len(a \o b) = Len(a) + Len(b)
      /\ \A k \in 1..Len(a) + Len(b) : (a \o b)[k] = IF k <= Len(a) THEN a[k] ELSE b[k - Len(a)]
  BY <1>2, <1>3, ConcatProperties
<1>5. Without(q, i) = a \o b
  BY DEF Without, a, b
<1>6. ASSUME NEW k \in 1..Len(q) - 1
      PROVE  (a \o b)[k] = IF k < i THEN q[k] ELSE q[k + 1]
  <2>1. CASE k < i
    <3>1. k \in 1..Len(a) + Len(b) /\ k <= Len(a) /\ k \in 1..i - 1
      BY <1>1, <1>2, <1>3, <2>1
    <3>2. (a \o b)[k] = a[k]
      BY <3>1, <1>4
    <3> QED BY <3>1, <3>2, <1>2, <2>1
  <2>2. CASE ~(k < i)
    <3>1. k \in 1..Len(a) + Len(b) /\ ~(k <= Len(a)) /\ k - Len(a) \in 1..Len(q) - i
      BY <1>1, <1>2, <1>3, <2>2
    <3>2. (a \o b)[k] = b[k - Len(a)]
      BY <3>1, <1>4
    <3>3. (k - Len(a)) + i = k + 1
      BY <1>1, <1>2
    <3> QED BY <3>1, <3>2, <3>3, <1>3, <2>2
  <2> QED BY <2>1, <2>2
<1>7. Len(a) + Len(b) = Len(q) - 1
  BY <1>1, <1>2, <1>3
<1> QED BY <1>4, <1>5, <1>6, <1>7

\* The state once the i-th block of c has arrived: it is taken off both lists.
Arrived(S, c, i) ==
  LET blk == S.pending[c][i]
  IN  [RemoveBlockFromList(S, blk.start, blk.end) EXCEPT !.pending[c] = Without(@, i)]

\* The other requests are still of those that hold their blocks.
LEMMA ArrivedKeeps ==
  ASSUME NEW S, NEW c \in Clients, NEW i \in DOMAIN S.pending[c], Good(S)
  PROVE  LET T == Arrived(S, c, i)
         IN  /\ Good(T) /\ T.requested \subseteq S.requested /\ T.ds = S.ds
             /\ OthersKeep(S, T, c)
<1> DEFINE q   == S.pending[c]
           blk == q[i]
           r   == Without(q, i)
           Q   == {e \in S.requested : ~(e.start <= blk.start /\ e.end >= blk.end)}
           R   == RemoveBlockFromList(S, blk.start, blk.end)
           T   == Arrived(S, c, i)
<1>1. /\ S \in State /\ S.pending \in [Clients -> Seq(Pending)] /\ q \in Seq(Pending)
      /\ S.requested \in SUBSET Entry
  BY StateType DEF Good
<1>2. /\ r \in Seq(Pending) /\ Len(r) = Len(q) - 1
      /\ \A k \in 1..Len(q) - 1 : r[k] = IF k < i THEN q[k] ELSE q[k + 1]
  BY <1>1, WithoutOne
<1>3. /\ Len(q) \in Nat /\ i \in 1..Len(q) /\ DOMAIN q = 1..Len(q)
      /\ DOMAIN r = 1..Len(q) - 1
  BY <1>1, <1>2
<1>4. T = [S EXCEPT !.requested = Q, !.pending = [S.pending EXCEPT ![c] = r]]
  BY <1>1 DEF Arrived, RemoveBlockFromList, State
<1>5. Q \subseteq S.requested
      /\ \A e \in Q : e \in S.requested /\ ~(e.start <= blk.start /\ e.end >= blk.end)
  OBVIOUS
<1> HIDE DEF r, Q, R, T
<1>6. /\ T \in State /\ T.requested = Q /\ T.last = S.last /\ T.ds = S.ds
      /\ T.pending = [S.pending EXCEPT ![c] = r]
  <2>1. [S.pending EXCEPT ![c] = r] \in [Clients -> Seq(Pending)] /\ Q \in SUBSET Entry
    BY <1>1, <1>2, <1>5
  <2> QED BY <2>1, <1>1, <1>4 DEF State, Pending, Entry
<1>7. T.pending[c] = r /\ \A d \in Clients \ {c} : T.pending[d] = S.pending[d]
  BY <1>1, <1>6
<1>8. ASSUME NEW d \in Clients PROVE Behaves(T, d)
  <2>1. Behaves(S, d)
    BY DEF Good
  <2>2. CASE d # c
    BY <2>1, <2>2, <1>6, <1>7 DEF Behaves
  <2>3. CASE d = c
    <3>1. \A k \in DOMAIN r : Fits(r[k])
      <4> SUFFICES ASSUME NEW k \in DOMAIN r PROVE Fits(r[k])
        OBVIOUS
      <4>1. (r[k] = q[k] /\ k \in DOMAIN q) \/ (r[k] = q[k + 1] /\ k + 1 \in DOMAIN q)
        BY <1>2, <1>3
      <4> HIDE DEF q
      <4> QED BY <4>1, <2>1, <2>3 DEF Behaves, q
    <3>2. Len(r) <= MaxBlocks /\ q # <<>>
      BY <2>1, <2>3, <1>2, <1>3, BlocksAssumption DEF Behaves
    <3> QED BY <2>1, <2>3, <3>1, <3>2, <1>6, <1>7 DEF Behaves
  <2> QED BY <2>2, <2>3
<1>9. Listed(T)
  <2> SUFFICES ASSUME NEW e \in T.requested PROVE T.ds[e.owner] = "downloading" /\ Alive(T, e)
    BY DEF Listed
  <2>1. /\ e \in S.requested /\ ~(e.start <= blk.start /\ e.end >= blk.end)
        /\ e.owner \in Clients /\ e.start \in Int /\ e.end \in Int
    BY <1>1, <1>5, <1>6 DEF Entry, Positions
  <2>2. S.ds[e.owner] = "downloading" /\ Alive(S, e)
    BY <2>1 DEF Good, Listed
  <2>3. PICK j \in DOMAIN S.pending[e.owner] :
           S.pending[e.owner][j].start = e.start /\ S.pending[e.owner][j].end = e.end
    BY <2>2 DEF Alive
  <2>4. CASE e.owner = c
    <3>1. j # i
      BY <2>1, <2>3, <2>4
    <3>2. j \in 1..Len(q) /\ q[j].start = e.start /\ q[j].end = e.end
      BY <2>3, <2>4, <1>3
    <3>3. \E k \in DOMAIN r : r[k] = q[j]
      <4>1. CASE j < i
        <5>1. j \in 1..Len(q) - 1
          BY <4>1, <3>2, <1>3
        <5>2. r[j] = q[j]
          BY <5>1, <4>1, <1>2
        <5> QED BY <5>1, <5>2, <1>3
      <4>2. CASE i < j
        <5>1. j - 1 \in 1..Len(q) - 1 /\ ~(j - 1 < i) /\ (j - 1) + 1 = j
          BY <4>2, <3>2, <1>3
        <5>2. r[j - 1] = q[j]
          BY <5>1, <1>2
        <5> QED BY <5>1, <5>2, <1>3
      <4> QED BY <4>1, <4>2, <3>1, <3>2, <1>3
    <3> QED BY <2>2, <2>4, <3>2, <3>3, <1>6, <1>7 DEF Alive
  <2>5. CASE e.owner # c
    BY <2>1, <2>2, <2>5, <1>6, <1>7 DEF Alive
  <2> QED BY <2>4, <2>5
<1>10. Good(T)
  BY <1>5, <1>6, <1>8, <1>9 DEF Good, Apart
<1> QED BY <1>5, <1>6, <1>7, <1>10 DEF T, OthersKeep

\* OP_ACCEPTUPLOADREQ.
LEMMA SlotGrantedKeeps ==
  ASSUME IInv, NEW c \in Clients, SlotGranted(c)
  PROVE  IInv' /\ New(s, s')
<1>1. s.ds[c] = "onqueue" /\ status = "ready" /\ status' = "ready" /\ "ready" \in Statuses
  BY DEF SlotGranted, Statuses
<1>2. Running(s) /\ Good(s)
  BY <1>1, InvIsRunning DEF Running
<1> DEFINE R == SetDownloadState(s, c, "downloading")
           T == [R EXCEPT !.last[c] = NoPart]
<1>3. s' \in SendBlockRequests(T, c)
  BY DEF SlotGranted
<1>4. /\ Good(R) /\ Asks(s, R) /\ R.requested \subseteq s.requested
      /\ R.ds = [s.ds EXCEPT ![c] = "downloading"]
      /\ OthersKeep(s, R, c)
  BY <1>2, StateChangeKeeps
<1> HIDE DEF R
<1>5. /\ T \in State /\ T.gaps = R.gaps /\ T.requested = R.requested /\ T.pending = R.pending
      /\ T.ds = R.ds /\ T.last = [R.last EXCEPT ![c] = NoPart]
      /\ R.last \in [Clients -> Parts \cup {NoPart}]
  BY <1>4 DEF Good, State
<1> HIDE DEF T
<1>6. \A d \in Clients : T.last[d] \in {R.last[d], NoPart}
  BY <1>5
<1>7. Good(T)
  <2>1. \A d \in Clients : Behaves(T, d)
    BY <1>4, <1>5, <1>6 DEF Good, Behaves
  <2> QED BY <2>1, <1>4, <1>5 DEF Good, Apart, Listed, Alive
<1>8. T.ds[c] = "downloading" /\ \A d \in Clients \ {c} : T.ds[d] = s.ds[d]
  BY <1>2, <1>4, <1>5, StateType DEF Good
<1>9. ~DropSlow => \A d \in Clients \ {c} : Works(T, d)
  BY <1>2, <1>4, <1>5, <1>8 DEF Running, Works, OthersKeep
<1>10. /\ Good(s') /\ Asks(T, s')
       /\ ~DropSlow /\ (\A d \in Clients \ {c} : Works(T, d))
            => \A d \in Clients : Works(s', d)
  BY <1>3, <1>7, <1>8, SendingKeeps
<1>11. Running(s')
  BY <1>9, <1>10 DEF Running
<1>12. New(s, s')
  <2>1. T.requested \subseteq s.requested
    BY <1>4, <1>5
  <2> QED BY <2>1, <1>10, DropsThenAsks
<1> QED BY <1>1, <1>11, <1>12, RunningIsInv

\* ProcessBlockPacket.
LEMMA DataKeeps ==
  ASSUME IInv, NEW c \in Clients, NEW i \in DOMAIN s.pending[c],
         NEW a \in Positions, NEW b \in Positions, NEW good \in BOOLEAN,
         Data(c, i, a, b, good)
  PROVE  IInv' /\ New(s, s')
<1> DEFINE R   == WriteToBuffer(s, a, b, good)
           blk == s.pending[c][i]
<1>1. status = "ready" /\ status' \in {"ready", "hashing"} /\ {"ready", "hashing"} \subseteq Statuses
  BY DEF Data, HashIfWhole, Statuses
<1>2. Running(s) /\ Good(s) /\ s \in State
  BY <1>1, InvIsRunning DEF Running, Good
<1>3. IF b = blk.end
      THEN s' \in SendBlockRequests([RemoveBlockFromList(R, blk.start, blk.end) EXCEPT
                                       !.pending[c] = Without(@, i)], c)
      ELSE s' = R
  BY DEF Data
<1>4. Passive(s, R)
  BY <1>2, WritePassive
<1> HIDE DEF R
<1>5. Good(R) /\ \A d \in Clients : Works(s, d) => Works(R, d)
  BY <1>2, <1>4, PassiveKeeps
<1>6. /\ R.requested \subseteq s.requested /\ R.pending = s.pending /\ R.ds = s.ds
  BY <1>4 DEF Passive
<1>7. CASE b # blk.end
  <2>1. s' = R
    BY <1>3, <1>7
  <2>2. Running(s')
    BY <2>1, <1>2, <1>5 DEF Running
  <2>3. New(s, s')
    BY <2>1, <1>6 DEF New
  <2> QED BY <2>2, <2>3, <1>1, RunningIsInv
<1>8. CASE b = blk.end
  <2> DEFINE T == Arrived(R, c, i)
  <2>1. s' \in SendBlockRequests(T, c)
    BY <1>3, <1>6, <1>8 DEF Arrived
  <2>2. /\ Good(T) /\ T.requested \subseteq R.requested /\ T.ds = R.ds
        /\ OthersKeep(R, T, c)
    <3>1. i \in DOMAIN R.pending[c]
      BY <1>6
    <3> QED BY <3>1, <1>5, ArrivedKeeps
  <2> HIDE DEF T
  <2>3. s.ds[c] = "downloading"
    <3>1. s.pending[c] # <<>>
      OBVIOUS
    <3> QED BY <3>1, <1>2 DEF Good, Behaves
  <2>4. ~DropSlow => \A d \in Clients \ {c} : Works(T, d)
    BY <2>2, <1>2, <1>5 DEF Running, Works, OthersKeep
  <2>5. /\ Good(s') /\ Asks(T, s')
        /\ ~DropSlow /\ (\A d \in Clients \ {c} : Works(T, d))
             => \A d \in Clients : Works(s', d)
    BY <2>1, <2>2, <2>3, <1>6, SendingKeeps
  <2>6. Running(s')
    BY <2>4, <2>5 DEF Running
  <2>7. New(s, s')
    <3>1. T.requested \subseteq s.requested
      BY <2>2, <1>6
    <3> QED BY <3>1, <2>5, DropsThenAsks
  <2> QED BY <2>6, <2>7, <1>1, RunningIsInv
<1> QED BY <1>7, <1>8

\* A step that only drops requests, and changes the content.
LEMMA PassiveStep ==
  ASSUME IInv, status \in Statuses, status # "done", status' \in Statuses, status' # "done",
         Passive(s, s')
  PROVE  IInv' /\ New(s, s')
<1>1. Running(s)
  BY InvIsRunning
<1>2. Good(s') /\ \A c \in Clients : Works(s, c) => Works(s', c)
  BY <1>1, PassiveKeeps DEF Running
<1>3. Running(s')
  BY <1>1, <1>2 DEF Running
<1> QED BY <1>3, RunningIsInv DEF New, Passive

\* Broken packets and zip streams.
LEMMA BrokenKeeps ==
  ASSUME IInv, NEW c \in Clients, NEW i \in DOMAIN s.pending[c], NEW a \in Positions,
         Malformed(c, i, a) \/ ZipError(c, i, a)
  PROVE  IInv' /\ New(s, s')
<1> DEFINE blk == s.pending[c][i]
           R == RemoveBlockFromList(s, blk.start, blk.end)
<1>1. status = "ready" /\ status' = "ready" /\ "ready" \in Statuses
  BY DEF Malformed, ZipError, Statuses
<1>2. Running(s) /\ Good(s) /\ s \in State
  BY <1>1, InvIsRunning DEF Running, Good
<1>3. Passive(s, R) /\ R.gaps = s.gaps
  BY <1>2 DEF Passive, RemoveBlockFromList, State
<1>4. CASE Malformed(c, i, a)
  <2>1. s' = R
    BY <1>4 DEF Malformed
  <2> QED BY <2>1, <1>1, <1>3, PassiveStep
<1>5. CASE ZipError(c, i, a)
  <2> DEFINE q == s.pending[c]
             r == [q EXCEPT ![i].err = TRUE]
  <2>1. s' = [R EXCEPT !.pending[c][i].err = TRUE]
    BY <1>5 DEF ZipError
  <2> HIDE DEF R
  <2>2. /\ R \in State /\ R.requested \subseteq s.requested /\ R.pending = s.pending
        /\ R.last = s.last /\ R.ds = s.ds /\ Good(R)
        /\ \A d \in Clients : Works(s, d) => Works(R, d)
    BY <1>2, <1>3, PassiveKeeps DEF Passive
  <2>3. /\ q \in Seq(Pending) /\ i \in DOMAIN q /\ s.pending \in [Clients -> Seq(Pending)]
        /\ DOMAIN q = 1..Len(q) /\ Len(q) \in Nat
    BY <1>2, StateType
  <2>4. ASSUME NEW j \in DOMAIN q
        PROVE  q[j] \in Pending /\ [q[j] EXCEPT !.err = TRUE] \in Pending
               /\ [q[j] EXCEPT !.err = TRUE].start = q[j].start
               /\ [q[j] EXCEPT !.err = TRUE].end = q[j].end
    <3>1. q[j] \in Pending
      <4> HIDE DEF q
      <4> QED BY <2>3
    <3> HIDE DEF q
    <3> QED BY <3>1 DEF Pending
  <2>5. r = [j \in 1..Len(q) |-> IF j = i THEN [q[j] EXCEPT !.err = TRUE] ELSE q[j]]
    BY <2>3
  <2>6. s' = [R EXCEPT !.pending = [s.pending EXCEPT ![c] = r]]
    BY <2>1, <2>2 DEF State
  <2> HIDE DEF q, r
  <2>7. ASSUME NEW j \in 1..Len(q)
        PROVE  r[j] \in Pending /\ r[j].start = q[j].start /\ r[j].end = q[j].end
    BY <2>3, <2>4, <2>5
  <2>8. r \in Seq(Pending) /\ Len(r) = Len(q) /\ DOMAIN r = DOMAIN q
    <3>1. r \in [1..Len(q) -> Pending]
      BY <2>5, <2>7
    <3> QED BY <3>1, <2>3
  <2>9. /\ s' \in State /\ s'.requested = R.requested /\ s'.last = R.last /\ s'.ds = R.ds
        /\ s'.pending = [s.pending EXCEPT ![c] = r]
    <3>1. [s.pending EXCEPT ![c] = r] \in [Clients -> Seq(Pending)]
      BY <2>3, <2>8
    <3> QED BY <3>1, <2>2, <2>6 DEF State, Pending
  <2>10. s'.pending[c] = r /\ \A d \in Clients \ {c} : s'.pending[d] = s.pending[d]
    BY <2>3, <2>9
  <2>11. r = <<>> <=> q = <<>>
    BY <2>3, <2>8
  <2>12. ASSUME NEW d \in Clients PROVE Behaves(s', d)
    <3>1. Behaves(R, d)
      BY <2>2 DEF Good
    <3>2. CASE d # c
      BY <3>1, <3>2, <2>2, <2>9, <2>10 DEF Behaves
    <3>3. CASE d = c
      <4>1. \A j \in DOMAIN r : Fits(r[j])
        BY <3>1, <3>3, <2>2, <2>3, <2>7, <2>8 DEF Behaves, Fits, q
      <4> QED BY <3>1, <3>3, <4>1, <2>2, <2>8, <2>9, <2>10, <2>11 DEF Behaves, q
    <3> QED BY <3>2, <3>3
  <2>13. Listed(s')
    <3> SUFFICES ASSUME NEW e \in s'.requested
                 PROVE  s'.ds[e.owner] = "downloading" /\ Alive(s', e)
      BY DEF Listed
    <3>1. e.owner \in Clients /\ R.ds[e.owner] = "downloading" /\ Alive(R, e)
      BY <2>2, <2>9, StateType DEF Good, Listed, Entry
    <3>2. PICK j \in DOMAIN s.pending[e.owner] :
             s.pending[e.owner][j].start = e.start /\ s.pending[e.owner][j].end = e.end
      BY <3>1, <2>2 DEF Alive
    <3>3. CASE e.owner # c
      BY <3>1, <3>2, <3>3, <2>9, <2>10 DEF Alive
    <3>4. CASE e.owner = c
      <4>1. j \in DOMAIN r /\ r[j].start = e.start /\ r[j].end = e.end
        BY <3>2, <3>4, <2>3, <2>7, <2>8 DEF q
      <4> QED BY <3>1, <3>4, <4>1, <2>9, <2>10 DEF Alive
    <3> QED BY <3>3, <3>4
  <2>14. Good(s')
    BY <2>2, <2>9, <2>12, <2>13 DEF Good, Apart
  <2>15. ~DropSlow => \A d \in Clients : Works(s', d)
    BY <1>2, <2>2, <2>9, <2>10, <2>11 DEF Running, Works, q
  <2>16. Running(s')
    BY <2>14, <2>15 DEF Running
  <2>17. New(s, s')
    BY <2>2, <2>9 DEF New
  <2> QED BY <2>16, <2>17, <1>1, RunningIsInv
<1> QED BY <1>4, <1>5

\* A source goes back to the line.
LEMMA RestsKeeps ==
  ASSUME IInv, NEW c \in Clients, Ends(c) \/ Requeued(c)
  PROVE  IInv' /\ New(s, s')
<1>1. status' = status /\ status \in Statuses
  BY DEF Ends, Requeued, IInv
<1>2. s \in State /\ s.ds \in [Clients -> {"none", "onqueue", "downloading", "noneeded"}]
  BY StateType DEF IInv
<1>3. status # "done"
  BY DEF Ends, Requeued, IInv
<1>4. Running(s) /\ Good(s)
  BY <1>1, <1>3, InvIsRunning DEF Running
<1>5. s' = SetDownloadState(s, c, "onqueue")
  <2>1. CASE Ends(c)
    BY <2>1 DEF Ends
  <2>2. CASE Requeued(c)
    BY <2>2 DEF Requeued, SetDownloadState
  <2> QED BY <2>1, <2>2
<1> DEFINE T == SetDownloadState(s, c, "onqueue")
<1>6. /\ Good(T) /\ T.requested \subseteq s.requested
      /\ T.ds = [s.ds EXCEPT ![c] = "onqueue"] /\ OthersKeep(s, T, c)
  BY <1>4, StateChangeKeeps
<1> HIDE DEF T
<1>7. T.ds[c] = "onqueue" /\ \A d \in Clients \ {c} : T.ds[d] = s.ds[d]
  BY <1>2, <1>6
<1>8. Running(T)
  BY <1>4, <1>6, <1>7 DEF Running, Works, OthersKeep
<1>9. s' = T
  BY <1>5 DEF T
<1>10. Running(s') /\ New(s, s')
  BY <1>6, <1>8, <1>9 DEF New
<1> QED BY <1>1, <1>3, <1>10, RunningIsInv

\* Process, and AICH data.
LEMMA ContentKeeps ==
  ASSUME IInv, Flush \/ \E p \in Parts : AICHRecoveryDataAvailable(p)
  PROVE  IInv' /\ New(s, s')
<1>1. /\ status \in Statuses /\ status # "done" /\ status' \in Statuses /\ status' # "done"
  BY DEF Flush, AICHRecoveryDataAvailable, HashIfWhole, Statuses
<1>2. s \in State
  BY DEF IInv
<1>3. CASE Flush
  BY <1>1, <1>2, <1>3, FlushPassive, PassiveStep DEF Flush
<1>4. ASSUME NEW p \in Parts, AICHRecoveryDataAvailable(p) PROVE Passive(s, s')
  <2> DEFINE R == IF s.changed = {} THEN s ELSE FlushBuffer(s, TRUE)
             Q == [R EXCEPT !.aich = @ \ {p}]
  <2>1. s' = IF IsComplete(Q, p) THEN Q ELSE Recovered(Q, p)
    BY <1>4 DEF AICHRecoveryDataAvailable
  <2>2. Passive(s, R)
    BY <1>2, FlushPassive DEF Passive
  <2> HIDE DEF R
  <2>3. Passive(R, Q)
    BY <2>2 DEF Passive, State
  <2> HIDE DEF Q
  <2>4. Passive(Q, Recovered(Q, p))
    BY <2>3, RecoveredPassive DEF Passive
  <2> QED BY <2>1, <2>2, <2>3, <2>4, PassiveTransitive
<1> QED BY <1>1, <1>3, <1>4, PassiveStep

\* The user pauses and resumes the file.
LEMMA UserKeeps ==
  ASSUME IInv, Pause \/ Resume
  PROVE  IInv' /\ New(s, s')
<1>1. /\ status \in Statuses /\ status # "done" /\ status' \in Statuses /\ status' # "done"
  BY DEF Pause, Resume, Statuses
<1>2. Running(s) /\ Good(s) /\ s \in State
  BY <1>1, InvIsRunning DEF Running, Good
<1>3. CASE Resume
  <2>1. s' = s
    BY <1>3 DEF Resume
  <2> QED BY <2>1, <1>1, <1>2, RunningIsInv DEF New
<1>4. CASE Pause
  <2> DEFINE D == {c \in Clients : s.ds[c] = "downloading"}
             Covers(e) == \E c \in D : \E i \in DOMAIN s.pending[c] :
                            e.start <= s.pending[c][i].start /\ e.end >= s.pending[c][i].end
             Q == {e \in s.requested : ~Covers(e)}
             pending == [c \in Clients |-> IF c \in D THEN <<>> ELSE s.pending[c]]
             ds == [c \in Clients |-> IF c \in D THEN "onqueue" ELSE s.ds[c]]
  <2>1. /\ s.requested \in SUBSET Entry /\ s.pending \in [Clients -> Seq(Pending)]
        /\ s.ds \in [Clients -> {"none", "onqueue", "downloading", "noneeded"}]
    BY <1>2, StateType
  <2>2. s' = [s EXCEPT !.requested = Q, !.pending = pending, !.ds = ds]
    BY <1>2, <1>4 DEF Pause, AllQueued, State
  <2>3. Q = {}
    <3> SUFFICES ASSUME NEW e \in s.requested PROVE Covers(e)
      OBVIOUS
    <3>1. /\ e.owner \in Clients /\ e.start \in Int /\ e.end \in Int
          /\ s.ds[e.owner] = "downloading" /\ Alive(s, e)
      BY <1>2, <2>1 DEF Good, Listed, Entry, Positions
    <3>2. PICK i \in DOMAIN s.pending[e.owner] :
             s.pending[e.owner][i].start = e.start /\ s.pending[e.owner][i].end = e.end
      BY <3>1 DEF Alive
    <3>3. e.start <= s.pending[e.owner][i].start /\ e.end >= s.pending[e.owner][i].end
      BY <3>1, <3>2
    <3> QED BY <3>1, <3>2, <3>3
  <2>4. /\ pending \in [Clients -> Seq(Pending)]
        /\ ds \in [Clients -> {"none", "onqueue", "downloading", "noneeded"}]
    BY <2>1
  <2>5. \A c \in Clients : pending[c] = <<>> /\ ds[c] # "downloading"
    BY <1>2 DEF Good, Behaves
  <2> HIDE DEF Q, pending, ds
  <2>6. /\ s' \in State /\ s'.requested = {} /\ s'.pending = pending /\ s'.ds = ds
        /\ s'.last = s.last
    BY <1>2, <2>2, <2>3, <2>4 DEF State, Pending
  <2>7. ASSUME NEW c \in Clients PROVE Behaves(s', c)
    <3>1. Len(<<>>) = 0 /\ DOMAIN <<>> = {} /\ MaxBlocks \in Nat
      BY BlocksAssumption
    <3> QED BY <3>1, <1>2, <2>5, <2>6 DEF Good, Behaves
  <2>8. Running(s')
    BY <2>5, <2>6, <2>7 DEF Running, Good, Apart, Listed, Works
  <2> QED BY <2>6, <2>8, <1>1, RunningIsInv DEF New
<1> QED BY <1>3, <1>4

\* The file is complete: entries that are left belong to nobody.
LEMMA CompletionKeeps ==
  ASSUME IInv, HashFinished
  PROVE  IInv' /\ New(s, s')
<1>1. status = "hashing" /\ status' = "done" /\ "done" \in Statuses
  BY DEF HashFinished, Statuses
<1>2. s \in State /\ Apart(s) /\ \A c \in Clients : Behaves(s, c)
  BY DEF IInv
<1>3. s' = [s EXCEPT !.pending = [c \in Clients |-> <<>>], !.ds = [c \in Clients |-> "none"]]
  BY DEF HashFinished
<1>4. /\ s' \in State /\ s'.requested = s.requested /\ s'.last = s.last
      /\ s'.pending = [c \in Clients |-> <<>>] /\ s'.ds = [c \in Clients |-> "none"]
  <2> DEFINE P == [c \in Clients |-> <<>>]
             D == [c \in Clients |-> "none"]
  <2>1. /\ P \in [Clients -> Seq(Pending)]
        /\ D \in [Clients -> {"none", "onqueue", "downloading", "noneeded"}]
    OBVIOUS
  <2>2. s' = [s EXCEPT !.pending = P, !.ds = D]
    BY <1>3
  <2> HIDE DEF P, D
  <2>3. /\ s' \in State /\ s'.requested = s.requested /\ s'.last = s.last
        /\ s'.pending = P /\ s'.ds = D
    BY <2>1, <2>2, <1>2 DEF State, Pending
  <2> QED BY <2>3 DEF P, D
<1>5. ASSUME NEW c \in Clients PROVE Behaves(s', c)
  <2>1. Len(<<>>) = 0 /\ DOMAIN <<>> = {} /\ MaxBlocks \in Nat
    BY BlocksAssumption
  <2> QED BY <2>1, <1>2, <1>4 DEF Behaves
<1> QED BY <1>1, <1>2, <1>4, <1>5 DEF IInv, Apart, Works, New

-----------------------------------------------------------------------------
(***************************************************************************)
(* The theorems.                                                            *)
(***************************************************************************)
\* At first all is missing and nothing is asked for.
LEMMA InitKeeps == Init => IInv
<1> SUFFICES ASSUME Init PROVE IInv
  OBVIOUS
<1>1. status = "ready" /\ "ready" \in Statuses
  BY DEF Init, Statuses
<1>2. s \in State
  BY DEF Init, State
<1>3. /\ s.requested = {} /\ \A c \in Clients : /\ s.pending[c] = <<>> /\ s.last[c] = NoPart
                                                /\ s.ds[c] = "onqueue"
  BY DEF Init
<1>4. ASSUME NEW c \in Clients PROVE Behaves(s, c)
  <2>1. Len(<<>>) = 0 /\ DOMAIN <<>> = {} /\ MaxBlocks \in Nat
    BY BlocksAssumption
  <2> QED BY <2>1, <1>3 DEF Behaves
<1>5. Running(s)
  BY <1>2, <1>3, <1>4 DEF Running, Good, Apart, Listed, Works
<1> QED BY <1>1, <1>5, InvIsRunning

\* Every step keeps the invariant, and asks only for what is missing.
LEMMA NextKeeps ==
  ASSUME IInv, Next
  PROVE  IInv' /\ New(s, s')
<1>1. ASSUME NEW c \in Clients, SlotGranted(c) PROVE IInv' /\ New(s, s')
  BY <1>1, SlotGrantedKeeps
<1>2. ASSUME NEW c \in Clients, Ends(c) \/ Requeued(c) PROVE IInv' /\ New(s, s')
  BY <1>2, RestsKeeps
<1>3. ASSUME NEW c \in Clients, NEW i \in DOMAIN s.pending[c], NEW a \in Positions,
             Malformed(c, i, a) \/ ZipError(c, i, a)
      PROVE  IInv' /\ New(s, s')
  BY <1>3, BrokenKeeps
<1>4. ASSUME NEW c \in Clients, NEW i \in DOMAIN s.pending[c], NEW a \in Positions,
             NEW b \in Positions, NEW good \in BOOLEAN, Data(c, i, a, b, good)
      PROVE  IInv' /\ New(s, s')
  BY <1>4, DataKeeps
<1>5. CASE FileNext
  BY <1>5, ContentKeeps, UserKeeps, CompletionKeeps DEF FileNext
<1>6. CASE SourceNext
  BY <1>1, <1>2, <1>3, <1>4, <1>6 DEF SourceNext
<1> QED BY <1>5, <1>6 DEF Next

\* The invariant is one.
LEMMA Invariance == Spec => []IInv
<1>1. IInv /\ [Next]_vars => IInv'
  <2> SUFFICES ASSUME IInv, [Next]_vars PROVE IInv'
    OBVIOUS
  <2>1. CASE Next
    BY <2>1, NextKeeps
  <2>2. CASE UNCHANGED vars
    BY <2>2 DEF vars, IInv, Good, Behaves, Apart, Listed, Alive, Works
  <2> QED BY <2>1, <2>2
<1> QED BY <1>1, InitKeeps, PTL DEF Spec

\* Whatever the sources send and however they vanish, requests are blocks, none
\* has more than it may, and until the file is complete bytes are withheld only
\* by a source that is downloading and holds the block the list points to.
THEOREM OnlySendersWithhold == Spec => []RequestsWellFormed
<1>1. IInv => RequestsWellFormed
  <2> SUFFICES ASSUME IInv PROVE RequestsWellFormed
    OBVIOUS
  <2>1. TypeOK
    BY DEF IInv, TypeOK, Behaves, Fits
  <2>2. BlockedOnlyBySenders
    BY DEF IInv, Good, Listed, Alive, Live, BlockedOnlyBySenders
  <2> QED BY <2>1, <2>2 DEF RequestsWellFormed
<1> QED BY <1>1, Invariance, PTL

\* Unless slow sources are dropped, a source downloads if and only if it has a
\* block to send.
THEOREM EverySenderHasWork == Spec => []SendersHaveWork
<1>1. IInv => SendersHaveWork
  <2> SUFFICES ASSUME IInv, ~DropSlow, NEW c \in Clients
               PROVE  s.ds[c] = "downloading" <=> s.pending[c] # <<>>
    BY DEF SendersHaveWork
  <2> QED BY DEF IInv, Works, Behaves
<1> QED BY <1>1, Invariance, PTL

\* No byte is asked for that is there, that the source lacks, or that another
\* request covers: whatever took entries off the list meanwhile.
THEOREM OnlyMissingIsAsked == Spec => NewRequestsAreMissing
<1>1. IInv /\ [Next]_vars =>
        [\A e \in s'.requested \ s.requested :
           /\ e.start..e.end \subseteq s'.gaps
           /\ PartOf(e.start) \in Available[e.owner]
           /\ \A d \in s'.requested \ {e} : e.end < d.start \/ d.end < e.start]_vars
  <2> SUFFICES ASSUME IInv, Next
               PROVE  \A e \in s'.requested \ s.requested :
                        /\ e.start..e.end \subseteq s'.gaps
                        /\ PartOf(e.start) \in Available[e.owner]
                        /\ \A d \in s'.requested \ {e} : e.end < d.start \/ d.end < e.start
    OBVIOUS
  <2> QED BY NextKeeps DEF New, Fresh, Disjoint
<1> QED BY <1>1, Invariance, PTL DEF Spec, NewRequestsAreMissing

\* At no time does the list ask two sources, or one source twice, for one byte.
THEOREM NoByteIsAskedTwice == Spec => []Apart(s)
<1>1. IInv => Apart(s)
  BY DEF IInv
<1> QED BY <1>1, Invariance, PTL
=============================================================================
