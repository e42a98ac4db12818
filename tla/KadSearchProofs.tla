--------------------------- MODULE KadSearchProofs ---------------------------
(***************************************************************************)
(* A search keeps its maps in order whatever the network answers, and ends  *)
(* with the nearest peers.                                                  *)
(*                                                                          *)
(* SearchWellFormed and NearestKept are not inductive: that a peer is       *)
(* passed over only for the sake of nearer ones needs the completed list to *)
(* be full by then.  Counted says so; it holds because, but for values,     *)
(* completedPeers counts the peers of best_complete until that is full.     *)
(***************************************************************************)
EXTENDS KadSearch, FiniteSetTheorems, WellFoundedInduction, TLAPS

Max == MaxCompleted[kind]

\* completedPeers counts the completed peers as long as the list has room, and
\* nobody is passed over before it is full.
Counted ==
  kind # "VALUE" =>
    /\ Cardinality(best_complete) = IF completedPeers < Max THEN completedPeers ELSE Max
    /\ trash # {} => completedPeers >= Max

\* The parts of the invariant: the maps, and the scalars.
MapTypes ==
  /\ known \in SUBSET Peers /\ ask_for_contacts \in SUBSET Peers
  /\ ask_for_data \in SUBSET Peers /\ charged \in SUBSET Peers
  /\ best_complete \in SUBSET Peers
  /\ trash \in SUBSET Peers /\ killed \in SUBSET Peers
  /\ Cardinality(best_complete) <= Max

ScalarTypes ==
  /\ kind \in Kinds /\ alive \in BOOLEAN
  /\ results_count \in [Peers -> Nat]
  /\ searchResults \in Nat /\ completedPeers \in Nat
  /\ activity \in {"recent", "quiet", "over"} /\ traffic \in 0..Traffic

Maps == MapTypes /\ EveryoneIsSomewhere /\ NearestKept /\ Counted

IInv == ScalarTypes /\ Maps

LEMMA IInvIsEnough == IInv <=> SearchWellFormed /\ NearestKept /\ Counted
BY DEF IInv, ScalarTypes, Maps, MapTypes, SearchWellFormed, TypeOK, Max
-----------------------------------------------------------------------------
(***************************************************************************)
(* The ends of a map.                                                       *)
(***************************************************************************)
LEMMA LeastNatural ==
  ASSUME NEW T \in SUBSET Nat, T # {}
  PROVE  \E m \in T : \A k \in T : m <= k
<1> DEFINE less == OpToRel(<, Nat)
<1>1. less = {p \in Nat \X Nat : p[1] < p[2]}
  BY DEF OpToRel
<1>2. PICK m \in T : \A k \in T : <<k, m>> \notin less
  BY NatLessThanWellFounded, WFMin
<1>3. ASSUME NEW k \in T PROVE m <= k
  <2>1. <<k, m>> \in Nat \X Nat /\ <<k, m>> \notin less
    BY <1>2
  <2>2. ~ (k < m)
    BY <2>1, <1>1
  <2> QED BY <2>2
<1> QED BY <1>3

LEMMA FinitePart ==
  ASSUME NEW S \in SUBSET Peers
  PROVE  IsFiniteSet(S) /\ Cardinality(S) \in Nat
BY SearchAssumption, FS_Subset, FS_CardinalityType

\* A set without a greatest element would have a smallest one like it, and so
\* has it without one of its elements.
LEMMA GreatestPeer ==
  ASSUME NEW S \in SUBSET Peers, S # {}
  PROVE  \E m \in S : \A k \in S : k <= m
<1> DEFINE Endless == {U \in SUBSET Peers : U # {} /\ \A m \in U : \E k \in U : ~ (k <= m)}
           sizes   == {Cardinality(U) : U \in Endless}
<1>1. SUFFICES ASSUME Endless # {} PROVE FALSE
  OBVIOUS
<1>2. sizes \in SUBSET Nat /\ sizes # {}
  BY <1>1, FinitePart
<1>3. PICK n \in sizes : \A k \in sizes : n <= k
  <2> HIDE DEF sizes
  <2> QED BY <1>2, LeastNatural
<1>4. PICK U \in Endless : Cardinality(U) = n
  BY <1>3
<1>5. PICK x \in U : TRUE
  BY <1>4
<1>6. IsFiniteSet(U) /\ Cardinality(U \ {x}) = Cardinality(U) - 1
      /\ Cardinality(U) \in Nat
  BY <1>4, <1>5, FinitePart, FS_RemoveElement
<1>7. U \ {x} \notin Endless
  <2>1. SUFFICES ASSUME U \ {x} \in Endless PROVE FALSE
    OBVIOUS
  <2>2. Cardinality(U \ {x}) \in sizes
    BY <2>1
  <2> QED BY <2>2, <1>3, <1>4, <1>6
<1>8. U \in SUBSET Nat
  BY <1>4, SearchAssumption
<1>9. CASE U \ {x} = {}
  BY <1>4, <1>5, <1>8, <1>9
<1>10. CASE U \ {x} # {}
  <2>1. PICK m \in U \ {x} : \A k \in U \ {x} : k <= m
    BY <1>7, <1>10, <1>4
  <2>2. PICK k \in U : ~ (k <= (IF m <= x THEN x ELSE m))
    BY <1>4, <1>5, <2>1
  <2> QED BY <2>1, <2>2, <1>5, <1>8
<1> QED BY <1>9, <1>10

LEMMA NearestIsLeast ==
  ASSUME NEW S \in SUBSET Peers, S # {}
  PROVE  Nearest(S) \in S /\ \A d \in S : Nearest(S) <= d
<1>1. \E c \in S : \A d \in S : c <= d
  BY LeastNatural, SearchAssumption
<1> QED BY <1>1 DEF Nearest

LEMMA FurthestIsGreatest ==
  ASSUME NEW S \in SUBSET Peers, S # {}
  PROVE  Furthest(S) \in S /\ \A d \in S : d <= Furthest(S)
BY GreatestPeer DEF Furthest

LEMMA MaxIsPositive ==
  ASSUME kind \in Kinds
  PROVE  Max \in Nat \ {0}
BY SearchAssumption DEF Max

\* What is left of a list that has at most one peer too many.
LEMMA TrimmedFits ==
  ASSUME kind \in Kinds, NEW S \in SUBSET Peers, Cardinality(S) <= Max + 1
  PROVE  /\ Trimmed(S) \in SUBSET S
         /\ Cardinality(Trimmed(S)) <= Max
         /\ Cardinality(S) <= Max => Trimmed(S) = S
         /\ Cardinality(S) = Max + 1 =>
              /\ Trimmed(S) = S \ {Furthest(S)}
              /\ Furthest(S) \in S /\ \A d \in S : d <= Furthest(S)
              /\ Cardinality(Trimmed(S)) = Max
<1>1. Max \in Nat \ {0} /\ IsFiniteSet(S) /\ Cardinality(S) \in Nat
  BY MaxIsPositive, FinitePart
<1>2. CASE Cardinality(S) <= Max
  BY <1>1, <1>2 DEF Trimmed, Max
<1>3. CASE Cardinality(S) = Max + 1
  <2>1. S # {}
    BY <1>1, <1>3, FS_EmptySet
  <2>2. Furthest(S) \in S /\ \A d \in S : d <= Furthest(S)
    BY <2>1, FurthestIsGreatest
  <2>3. Trimmed(S) = S \ {Furthest(S)}
    BY <1>1, <1>3 DEF Trimmed, Max
  <2>4. Cardinality(S \ {Furthest(S)}) = Cardinality(S) - 1
    BY <1>1, <2>2, FS_RemoveElement
  <2> QED BY <1>1, <1>3, <2>2, <2>3, <2>4
<1> QED BY <1>1, <1>2, <1>3
-----------------------------------------------------------------------------
(***************************************************************************)
(* The steps keep the maps in order.                                        *)
(***************************************************************************)
\* A search with empty maps.
LEMMA EmptyMaps ==
  ASSUME kind \in Kinds,
         known = {}, ask_for_contacts = {}, ask_for_data = {}, charged = {},
         best_complete = {}, trash = {}, killed = {}, completedPeers = 0
  PROVE  Maps
<1>1. Max \in Nat \ {0} /\ Cardinality(best_complete) = 0
  BY MaxIsPositive, FS_EmptySet
<1>2. MapTypes
  BY <1>1 DEF MapTypes
<1>3. EveryoneIsSomewhere
  BY DEF EveryoneIsSomewhere, Waiting
<1>4. NearestKept
  BY DEF NearestKept
<1>5. Counted
  BY <1>1 DEF Counted
<1> QED BY <1>2, <1>3, <1>4, <1>5 DEF Maps

LEMMA InitKeeps == Init => IInv
<1> SUFFICES ASSUME Init PROVE IInv
  OBVIOUS
<1>1. ScalarTypes
  BY SearchAssumption DEF Init, ScalarTypes
<1>2. Max \in Nat \ {0} /\ Cardinality(best_complete) = 0
  BY MaxIsPositive, FS_EmptySet DEF Init
<1>3. MapTypes
  BY <1>2, SearchAssumption DEF Init, MapTypes
<1>4. EveryoneIsSomewhere
  BY DEF Init, EveryoneIsSomewhere, Waiting
<1>5. NearestKept /\ Counted
  BY <1>2 DEF Init, NearestKept, Counted
<1> QED BY <1>1, <1>3, <1>4, <1>5 DEF IInv, Maps

LEMMA EndKeeps ==
  ASSUME IInv, End
  PROVE  IInv'
<1>1. ScalarTypes'
  <2>1. Traffic \in Nat /\ kind \in Kinds
    BY SearchAssumption DEF IInv, ScalarTypes
  <2>2. results_count' \in [Peers -> Nat] /\ traffic' \in 0..Traffic
    BY <2>1 DEF End
  <2> QED BY <2>1, <2>2 DEF ScalarTypes, End
<1>2. Maps'
  <2>1. kind' \in Kinds
    BY DEF IInv, ScalarTypes, End
  <2>2. Max' \in Nat \ {0} /\ Cardinality(best_complete') = 0
    BY <2>1, SearchAssumption, FS_EmptySet DEF End, Max
  <2>3. MapTypes'
    BY <2>2 DEF MapTypes, End
  <2>4. EveryoneIsSomewhere' /\ NearestKept'
    BY DEF EveryoneIsSomewhere, Waiting, NearestKept, End
  <2>5. Counted'
    BY <2>2 DEF Counted, End
  <2> QED BY <2>3, <2>4, <2>5 DEF Maps
<1> QED BY <1>1, <1>2 DEF IInv

\* When the list is full of a search other than for values, the peers that
\* are too far are beyond all those in it.
LEMMA TooFarIsBeyond ==
  ASSUME IInv, kind # "VALUE", NEW worst \in Worst, NEW c \in Peers, TooFar(c, worst)
  PROVE  \A b \in best_complete : b <= c
<1>1. best_complete \in SUBSET Peers
  BY DEF IInv, Maps, MapTypes
<1>2. SUFFICES ASSUME best_complete # {} PROVE \A b \in best_complete : b <= c
  OBVIOUS
<1>3. worst = Furthest(best_complete)
  BY <1>2 DEF Worst
<1>4. worst \in best_complete /\ \A b \in best_complete : b <= worst
  BY <1>1, <1>2, <1>3, FurthestIsGreatest
<1>5. c >= worst
  BY DEF TooFar
<1> QED BY <1>1, <1>4, <1>5, SearchAssumption

\* JumpStart asks the nearest peer of a map, or passes the furthest one over.
LEMMA AskKeeps ==
  ASSUME IInv, NEW c, Charge(c),
         UNCHANGED <<kind, alive, known, best_complete, killed, counts, traffic>>,
         \/ /\ c \in ask_for_data /\ ask_for_data' = ask_for_data \ {c}
            /\ UNCHANGED ask_for_contacts
         \/ /\ c \in ask_for_contacts /\ ask_for_contacts' = ask_for_contacts \ {c}
            /\ UNCHANGED ask_for_data
  PROVE  IInv'
<1>1. ScalarTypes'
  BY DEF IInv, ScalarTypes, Charge, counts
<1>2. MapTypes'
  BY DEF IInv, Maps, MapTypes, Charge, Max
<1>3. EveryoneIsSomewhere'
  BY DEF IInv, Maps, EveryoneIsSomewhere, Waiting, Charge
<1>4. NearestKept'
  BY DEF IInv, Maps, NearestKept, Charge
<1>5. Counted'
  BY DEF IInv, Maps, Counted, Charge, Max, counts
<1> QED BY <1>1, <1>2, <1>3, <1>4, <1>5 DEF IInv, Maps

LEMMA PassOverKeeps ==
  ASSUME IInv, NEW S \in SUBSET Peers, S # {}, PassOver(S),
         NEW worst \in Worst, TooFar(Nearest(S), worst),
         UNCHANGED <<kind, alive, known, best_complete, killed, counts, traffic>>,
         \/ /\ S = ask_for_data /\ ask_for_data' = S \ {Furthest(S)}
            /\ UNCHANGED ask_for_contacts
         \/ /\ S = ask_for_contacts /\ ask_for_contacts' = S \ {Furthest(S)}
            /\ UNCHANGED ask_for_data
  PROVE  IInv'
<1> DEFINE far == Furthest(S)
<1>1. far \in S /\ \A d \in S : d <= far
  BY FurthestIsGreatest
<1>2. Nearest(S) \in S
  BY NearestIsLeast
<1>3. trash' = trash \cup {far} /\ UNCHANGED <<charged, activity>>
  BY DEF PassOver
<1>4. kind # "VALUE" => \A b \in best_complete : b <= far
  <2>1. SUFFICES ASSUME kind # "VALUE", NEW b \in best_complete PROVE b <= far
    OBVIOUS
  <2>2. b <= Nearest(S)
    BY <1>2, <2>1, TooFarIsBeyond
  <2>3. b \in Nat /\ Nearest(S) \in Nat /\ far \in Nat
    BY <1>1, <1>2, SearchAssumption DEF IInv, Maps, MapTypes
  <2> QED BY <1>1, <1>2, <2>2, <2>3
<1> HIDE DEF far
<1>5. ScalarTypes'
  BY <1>3 DEF IInv, ScalarTypes, counts
<1>6. MapTypes'
  BY <1>1, <1>3 DEF IInv, Maps, MapTypes, Max
<1>7. EveryoneIsSomewhere'
  BY <1>1, <1>3 DEF IInv, Maps, EveryoneIsSomewhere, Waiting, far
<1>8. NearestKept'
  BY <1>3, <1>4 DEF IInv, Maps, NearestKept
<1>9. Counted'
  BY <1>3 DEF IInv, Maps, Counted, TooFar, Max, counts
<1> QED BY <1>5, <1>6, <1>7, <1>8, <1>9 DEF IInv, Maps

LEMMA ProceedKeeps ==
  ASSUME IInv, NEW worst \in Worst, Proceed(worst)
  PROVE  IInv'
<1>1. ask_for_data \in SUBSET Peers /\ ask_for_contacts \in SUBSET Peers
  BY DEF IInv, Maps, MapTypes
<1>2. UNCHANGED <<kind, alive, known, best_complete, killed, counts, traffic>>
  BY DEF Proceed
<1>3. CASE NextIsData
  <2>1. ask_for_data # {} /\ Nearest(ask_for_data) \in ask_for_data
    BY <1>1, <1>3, NearestIsLeast DEF NextIsData
  <2>2. CASE TooFar(Nearest(ask_for_data), worst)
    <3>1. /\ PassOver(ask_for_data)
          /\ ask_for_data' = ask_for_data \ {Furthest(ask_for_data)}
          /\ UNCHANGED ask_for_contacts
      BY <1>3, <2>2 DEF Proceed
    <3> QED BY <1>1, <1>2, <2>1, <2>2, <3>1, PassOverKeeps
  <2>3. CASE ~ TooFar(Nearest(ask_for_data), worst)
    <3>1. /\ Charge(Nearest(ask_for_data))
          /\ ask_for_data' = ask_for_data \ {Nearest(ask_for_data)}
          /\ UNCHANGED ask_for_contacts
      BY <1>3, <2>3 DEF Proceed
    <3> QED BY <1>2, <2>1, <3>1, AskKeeps
  <2> QED BY <2>2, <2>3
<1>4. CASE ~ NextIsData
  <2>1. ask_for_contacts # {}
    BY <1>4 DEF Proceed
  <2>2. Nearest(ask_for_contacts) \in ask_for_contacts
    BY <1>1, <2>1, NearestIsLeast
  <2>3. CASE TooFar(Nearest(ask_for_contacts), worst)
    <3>1. /\ PassOver(ask_for_contacts)
          /\ ask_for_contacts' = ask_for_contacts \ {Furthest(ask_for_contacts)}
          /\ UNCHANGED ask_for_data
      BY <1>4, <2>3 DEF Proceed
    <3> QED BY <1>1, <1>2, <2>1, <2>3, <3>1, PassOverKeeps
  <2>4. CASE ~ TooFar(Nearest(ask_for_contacts), worst)
    <3>1. /\ Charge(Nearest(ask_for_contacts))
          /\ ask_for_contacts' = ask_for_contacts \ {Nearest(ask_for_contacts)}
          /\ UNCHANGED ask_for_data
      BY <1>4, <2>4 DEF Proceed
    <3> QED BY <1>2, <2>2, <3>1, AskKeeps
  <2> QED BY <2>3, <2>4
<1> QED BY <1>3, <1>4

LEMMA JumpStartKeeps ==
  ASSUME IInv, JumpStart
  PROVE  IInv'
<1>1. PICK worst \in Worst :
        IF Satisfied(worst) \/ Exhausted THEN End ELSE Proceed(worst)
  BY DEF JumpStart
<1> QED BY <1>1, EndKeeps, ProceedKeeps
-----------------------------------------------------------------------------
\* What AddToCompletedPeers does, however many results the peer has sent.
Completes(p) ==
  LET B == best_complete \cup {p}
  IN  /\ best_complete' = Trimmed(B)
      /\ trash' = trash \cup (B \ Trimmed(B))
      /\ charged' \in {charged, charged \ {p}}
      /\ kind # "VALUE" => charged' = charged \ {p}
      /\ completedPeers' = completedPeers + 1

\* A peer is complete: it joins the list, and the furthest one leaves it when
\* that has no room.
LEMMA CompleteKeeps ==
  ASSUME IInv, NEW p \in charged, NEW X \in SUBSET Peers, Completes(p),
         known' = known \cup X, ask_for_contacts' = ask_for_contacts \cup (X \ known),
         UNCHANGED <<kind, ask_for_data, killed>>
  PROVE  Maps'
<1> DEFINE B == best_complete \cup {p}
<1>1. /\ B \in SUBSET Peers /\ B \ best_complete \subseteq {p}
      /\ kind \in Kinds /\ completedPeers \in Nat /\ p \in Peers
      /\ IsFiniteSet(best_complete) /\ Cardinality(best_complete) \in Nat
      /\ Max \in Nat \ {0}
  BY FinitePart, MaxIsPositive DEF IInv, ScalarTypes, Maps, MapTypes
<1>2. Cardinality(B) = IF p \in best_complete THEN Cardinality(best_complete)
                       ELSE Cardinality(best_complete) + 1
  BY <1>1, FS_AddElement
<1>3. Cardinality(best_complete) <= Max /\ Cardinality(B) <= Max + 1
  BY <1>1, <1>2 DEF IInv, Maps, MapTypes
<1>4. /\ Trimmed(B) \in SUBSET B
      /\ Cardinality(Trimmed(B)) <= Max
      /\ Cardinality(B) <= Max => Trimmed(B) = B
      /\ Cardinality(B) = Max + 1 =>
           /\ Trimmed(B) = B \ {Furthest(B)}
           /\ Furthest(B) \in B /\ \A d \in B : d <= Furthest(B)
           /\ Cardinality(Trimmed(B)) = Max
  BY <1>1, <1>3, TrimmedFits
<1>5. /\ best_complete' = Trimmed(B)
      /\ trash' = trash \cup (B \ Trimmed(B))
      /\ charged' \in {charged, charged \ {p}}
      /\ kind # "VALUE" => charged' = charged \ {p}
      /\ completedPeers' = completedPeers + 1
  BY DEF Completes
<1>6. kind # "VALUE" => p \notin best_complete
  BY DEF IInv, Maps, EveryoneIsSomewhere, Waiting
<1>7. Max' = Max
  BY DEF Max
<1> HIDE DEF B
<1>8. MapTypes'
  BY <1>1, <1>4, <1>5, <1>7 DEF IInv, Maps, MapTypes
<1>9. EveryoneIsSomewhere'
  <2>1. known' = Waiting' \cup best_complete' \cup trash' \cup killed'
    BY <1>4, <1>5 DEF IInv, Maps, EveryoneIsSomewhere, Waiting, B
  <2>2. /\ ask_for_contacts' \cap (ask_for_data' \cup charged') = {}
        /\ ask_for_data' \cap charged' = {}
    BY <1>5 DEF IInv, Maps, EveryoneIsSomewhere, Waiting
  <2>3. ASSUME kind # "VALUE"
        PROVE  /\ Waiting' \cap (best_complete' \cup trash' \cup killed') = {}
               /\ best_complete' \cap (trash' \cup killed') = {}
    <3>1. best_complete' \cup trash' = best_complete \cup trash \cup {p}
          /\ best_complete' \cap trash' = {}
      BY <1>4, <1>5, <1>6, <2>3 DEF IInv, Maps, EveryoneIsSomewhere, Waiting, B
    <3>2. charged' = charged \ {p} /\ p \notin ask_for_contacts'
          /\ p \notin ask_for_data' /\ p \notin killed'
      BY <1>5, <2>3 DEF IInv, Maps, EveryoneIsSomewhere, Waiting
    <3>3. Waiting' \cap (best_complete' \cup trash' \cup killed') = {}
      BY <3>1, <3>2, <2>3 DEF IInv, Maps, EveryoneIsSomewhere, Waiting
    <3>4. best_complete' \cap killed' = {}
      BY <1>4, <1>5, <3>2, <2>3 DEF IInv, Maps, EveryoneIsSomewhere, Waiting, B
    <3> QED BY <3>1, <3>3, <3>4
  <2> QED BY <2>1, <2>2, <2>3 DEF EveryoneIsSomewhere
<1>10. ASSUME kind # "VALUE" PROVE NearestKept' /\ Counted'
  <2>1. /\ Cardinality(best_complete) = IF completedPeers < Max THEN completedPeers ELSE Max
        /\ trash # {} => completedPeers >= Max
        /\ \A c \in trash, b \in best_complete : b <= c
        /\ Cardinality(B) = Cardinality(best_complete) + 1
    BY <1>2, <1>6, <1>10 DEF IInv, Maps, Counted, NearestKept
  <2>2. CASE completedPeers < Max
    <3>1. Cardinality(B) = completedPeers + 1 /\ completedPeers + 1 <= Max
      BY <1>1, <2>1, <2>2
    <3>2. best_complete' = B /\ trash' = {} /\ completedPeers' = completedPeers + 1
      BY <1>1, <1>4, <1>5, <2>1, <2>2, <3>1
    <3>3. Cardinality(best_complete') = completedPeers + 1
      BY <3>1, <3>2
    <3> QED BY <1>1, <1>7, <3>1, <3>2, <3>3 DEF NearestKept, Counted
  <2>3. CASE completedPeers >= Max
    <3>1. Cardinality(B) = Max + 1
      BY <1>1, <2>1, <2>3
    <3>2. /\ best_complete' = B \ {Furthest(B)} /\ trash' = trash \cup {Furthest(B)}
          /\ Furthest(B) \in B /\ \A d \in B : d <= Furthest(B)
          /\ Cardinality(best_complete') = Max
      BY <1>4, <1>5, <3>1
    <3>3. ASSUME NEW c \in trash', NEW b \in best_complete' PROVE b <= c
      <4>1. b \in Nat /\ c \in Nat /\ Furthest(B) \in Nat
        BY <1>1, <3>2, <3>3, SearchAssumption DEF IInv, Maps, MapTypes
      <4>2. CASE c = Furthest(B)
        BY <3>2, <4>2
      <4>3. CASE c \in trash /\ b \in best_complete
        BY <2>1, <4>3
      <4>4. CASE c \in trash /\ b = p
        <5>1. Furthest(B) \in best_complete /\ b <= Furthest(B)
          BY <3>2, <4>4 DEF B
        <5> QED BY <2>1, <4>1, <4>4, <5>1
      <4> QED BY <3>2, <4>2, <4>3, <4>4 DEF B
    <3>4. Counted'
      BY <1>1, <1>5, <1>7, <2>3, <3>2 DEF Counted
    <3> QED BY <3>3, <3>4 DEF NearestKept
  <2> QED BY <1>1, <2>2, <2>3
<1>11. NearestKept' /\ Counted'
  BY <1>10 DEF NearestKept, Counted
<1> QED BY <1>8, <1>9, <1>11 DEF Maps

\* The same when the answer brings no contacts.
LEMMA CompleteKeepsKnown ==
  ASSUME IInv, NEW p \in charged, Completes(p),
         UNCHANGED <<kind, known, ask_for_contacts, ask_for_data, killed>>
  PROVE  Maps'
<1>1. PICK X \in SUBSET Peers : X = {}
  OBVIOUS
<1>2. known' = known \cup X /\ ask_for_contacts' = ask_for_contacts \cup (X \ known)
  BY <1>1
<1> QED BY <1>2, CompleteKeeps

\* An answer costs one of those that are to come.
LEMMA ArrivesKeeps ==
  ASSUME IInv, Arrives
  PROVE  /\ kind' = kind /\ kind' \in Kinds /\ alive' \in BOOLEAN
         /\ activity' \in {"recent", "quiet", "over"} /\ traffic' \in 0..Traffic
BY SearchAssumption DEF IInv, ScalarTypes, Arrives

LEMMA NotAskedKeeps ==
  ASSUME IInv, NEW p, NotAsked(p)
  PROVE  IInv'
<1>1. ScalarTypes'
  BY ArrivesKeeps DEF NotAsked, counts, IInv, ScalarTypes
<1>2. Maps'
  BY ArrivesKeeps DEF NotAsked, peers, counts, IInv, Maps, MapTypes, Max,
     EveryoneIsSomewhere, Waiting, NearestKept, Counted
<1> QED BY <1>1, <1>2 DEF IInv

LEMMA TooManyKeeps ==
  ASSUME IInv, NEW p, TooMany(p)
  PROVE  IInv'
<1>1. ScalarTypes'
  BY ArrivesKeeps DEF TooMany, counts, IInv, ScalarTypes
<1>2. MapTypes'
  BY ArrivesKeeps DEF TooMany, IInv, Maps, MapTypes, Max
<1>3. EveryoneIsSomewhere'
  BY ArrivesKeeps DEF TooMany, IInv, Maps, EveryoneIsSomewhere, Waiting
<1>4. NearestKept' /\ Counted'
  BY ArrivesKeeps DEF TooMany, counts, IInv, Maps, NearestKept, Counted, Max
<1> QED BY <1>1, <1>2, <1>3, <1>4 DEF IInv, Maps

LEMMA ProcessPublishResultKeeps ==
  ASSUME IInv, NEW p, ProcessPublishResult(p)
  PROVE  IInv'
<1>1. ScalarTypes'
  BY ArrivesKeeps DEF ProcessPublishResult, IInv, ScalarTypes
<1>2. /\ p \in charged /\ Completes(p)
      /\ UNCHANGED <<kind, known, ask_for_contacts, ask_for_data, killed>>
  BY ArrivesKeeps DEF ProcessPublishResult, AddToCompletedPeers, Completes
<1>3. Maps'
  BY <1>2, CompleteKeepsKnown
<1> QED BY <1>1, <1>3 DEF IInv

LEMMA ProcessSearchResultListKeeps ==
  ASSUME IInv, NEW p, NEW n \in Counts, NEW taken \in 0..n, NEW whole \in BOOLEAN,
         ProcessSearchResultList(p, n, taken, whole)
  PROVE  IInv'
<1>1. n \in Nat /\ taken \in Nat /\ p \in Peers
  BY SearchAssumption DEF ProcessSearchResultList, IInv, Maps, MapTypes
<1>2. ScalarTypes'
  <2>1. results_count' \in [Peers -> Nat]
    <3>1. results_count \in [Peers -> Nat] /\ results_count[p] + n \in Nat
      BY <1>1 DEF IInv, ScalarTypes
    <3> QED BY <1>1, <3>1 DEF ProcessSearchResultList
  <2>2. searchResults' \in Nat /\ completedPeers' \in Nat
    BY <1>1 DEF ProcessSearchResultList, IInv, ScalarTypes
  <2> QED BY <2>1, <2>2, ArrivesKeeps DEF ProcessSearchResultList, ScalarTypes
<1>3. CASE whole
  <2>1. /\ p \in charged /\ Completes(p)
        /\ UNCHANGED <<kind, known, ask_for_contacts, ask_for_data, killed>>
    BY <1>3, ArrivesKeeps DEF ProcessSearchResultList, AddToCompletedPeers, Completes
  <2>2. Maps'
    BY <2>1, CompleteKeepsKnown
  <2> QED BY <1>2, <2>2 DEF IInv
<1>4. CASE ~ whole
  <2>1. UNCHANGED <<kind, known, ask_for_contacts, ask_for_data, charged,
                    best_complete, trash, killed, completedPeers>>
    BY <1>4, ArrivesKeeps DEF ProcessSearchResultList
  <2>2. Maps'
    BY <2>1 DEF IInv, Maps, MapTypes, Max, EveryoneIsSomewhere, Waiting,
       NearestKept, Counted
  <2> QED BY <1>2, <2>2 DEF IInv
<1> QED BY <1>3, <1>4

LEMMA ProcessResponseKeeps ==
  ASSUME IInv, NEW p \in Peers, NEW contacts \in SUBSET (Peers \ {p}),
         ProcessResponse(p, contacts)
  PROVE  IInv'
<1>1. Arrives /\ p \in charged /\ UNCHANGED <<killed, results_count, kind>>
  BY DEF ProcessResponse, Arrives
<1>2. PICK X \in SUBSET (Peers \ {p}) :
        known' = known \cup X /\ ask_for_contacts' = ask_for_contacts \cup (X \ known)
  <2>1. CASE kind = "NODE"
    <3>1. /\ known' = known \cup {}
          /\ ask_for_contacts' = ask_for_contacts \cup ({} \ known)
      BY <2>1 DEF ProcessResponse
    <3> QED BY <3>1
  <2>2. CASE kind # "NODE"
    BY <2>2 DEF ProcessResponse
  <2> QED BY <2>1, <2>2
<1>3. CASE kind \in {"NODE", "NODECOMPLETE"}
  <2>1. /\ searchResults' = searchResults + 1 /\ completedPeers' = completedPeers + 1
        /\ Completes(p) /\ UNCHANGED ask_for_data
    BY <1>3 DEF ProcessResponse, AddToCompletedPeers, Completes
  <2>2. ScalarTypes'
    BY <1>1, <2>1, ArrivesKeeps DEF IInv, ScalarTypes
  <2>3. Maps'
    BY <1>1, <1>2, <2>1, CompleteKeeps
  <2> QED BY <2>2, <2>3 DEF IInv
<1>4. CASE kind \notin {"NODE", "NODECOMPLETE"}
  <2>1. /\ charged' = charged \ {p} /\ ask_for_data' = ask_for_data \cup {p}
        /\ UNCHANGED <<best_complete, trash, searchResults, completedPeers>>
    BY <1>4 DEF ProcessResponse
  <2>2. ScalarTypes'
    BY <1>1, <2>1, ArrivesKeeps DEF IInv, ScalarTypes
  <2>3. MapTypes'
    BY <1>1, <1>2, <2>1 DEF IInv, Maps, MapTypes, Max
  <2>4. EveryoneIsSomewhere'
    BY <1>1, <1>2, <2>1 DEF IInv, Maps, EveryoneIsSomewhere, Waiting
  <2>5. NearestKept' /\ Counted'
    BY <1>1, <2>1 DEF IInv, Maps, NearestKept, Counted, Max
  <2> QED BY <2>2, <2>3, <2>4, <2>5 DEF IInv, Maps
<1> QED BY <1>3, <1>4

LEMMA PassKeeps ==
  ASSUME IInv, Pass
  PROVE  IInv'
<1>1. ScalarTypes'
  BY DEF Pass, counts, IInv, ScalarTypes
<1>2. Maps'
  BY DEF Pass, peers, counts, IInv, Maps, MapTypes, Max,
     EveryoneIsSomewhere, Waiting, NearestKept, Counted
<1> QED BY <1>1, <1>2 DEF IInv

LEMMA StutterKeeps ==
  ASSUME IInv, UNCHANGED vars
  PROVE  IInv'
<1>1. ScalarTypes'
  BY DEF vars, counts, IInv, ScalarTypes
<1>2. Maps'
  BY DEF vars, peers, counts, IInv, Maps, MapTypes, Max,
     EveryoneIsSomewhere, Waiting, NearestKept, Counted
<1> QED BY <1>1, <1>2 DEF IInv

LEMMA NextKeeps ==
  ASSUME IInv, [Next]_vars
  PROVE  IInv'
<1>1. CASE JumpStart
  BY <1>1, JumpStartKeeps
<1>2. CASE StopSearch
  BY <1>2, EndKeeps DEF StopSearch
<1>3. CASE Pass
  BY <1>3, PassKeeps
<1>4. ASSUME NEW p \in Peers, NotAsked(p) PROVE IInv'
  BY <1>4, NotAskedKeeps
<1>5. ASSUME NEW p \in Peers, TooMany(p) PROVE IInv'
  BY <1>5, TooManyKeeps
<1>6. ASSUME NEW p \in Peers, ProcessPublishResult(p) PROVE IInv'
  BY <1>6, ProcessPublishResultKeeps
<1>7. ASSUME NEW p \in Peers, NEW contacts \in SUBSET (Peers \ {p}),
             ProcessResponse(p, contacts)
      PROVE  IInv'
  BY <1>7, ProcessResponseKeeps
<1>8. ASSUME NEW p \in Peers, NEW n \in Counts, NEW taken \in 0..n,
             NEW whole \in BOOLEAN, ProcessSearchResultList(p, n, taken, whole)
      PROVE  IInv'
  BY <1>8, ProcessSearchResultListKeeps
<1>9. CASE UNCHANGED vars
  BY <1>9, StutterKeeps
<1> QED BY <1>1, <1>2, <1>3, <1>4, <1>5, <1>6, <1>7, <1>8, <1>9 DEF Next

LEMMA Invariance == Spec => []IInv
<1>1. Init => IInv
  BY InitKeeps
<1>2. IInv /\ [Next]_vars => IInv'
  BY NextKeeps
<1> QED BY <1>1, <1>2, PTL DEF Spec
-----------------------------------------------------------------------------
(***************************************************************************)
(* The theorems.                                                            *)
(***************************************************************************)
\* Whatever arrives, and in whatever order, the maps of CSearch keep their
\* types and bounds, and each known peer is in exactly the stage that the
\* next step expects it in, in searches of any number of peers.
THEOREM MapsKeepEveryone == Spec => []SearchWellFormed
<1>1. IInv => SearchWellFormed
  BY IInvIsEnough
<1> QED BY <1>1, Invariance, PTL

\* No answer and no delay makes a search pass a peer over for one further away.
THEOREM NearestAreKept == Spec => []NearestKept
<1>1. IInv => NearestKept
  BY IInvIsEnough
<1> QED BY <1>1, Invariance, PTL

\* A search that publishes or looks for nodes, and ends because enough peers
\* have answered, ends with the nearest peers it knows.
THEOREM EndIsNearest == Spec => EndsWithTheNearest
<1>1. ASSUME IInv, JumpStart, ~ alive', kind \in {"NODECOMPLETE", "STORE"}, ~ Exhausted,
             NEW c \in known \ killed, NEW b \in best_complete, c < b
      PROVE  c \in best_complete
  <2>1. PICK worst \in Worst :
          IF Satisfied(worst) \/ Exhausted THEN End ELSE Proceed(worst)
    BY <1>1 DEF JumpStart
  <2>2. Satisfied(worst)
    BY <1>1, <2>1 DEF JumpStart, Proceed
  <2>3. best_complete \in SUBSET Peers /\ known \in SUBSET Peers
    BY <1>1 DEF IInv, Maps, MapTypes
  <2>4. worst \in best_complete /\ b <= worst
    BY <2>3, FurthestIsGreatest DEF Worst
  <2>5. c \in Nat /\ b \in Nat /\ worst \in Nat
    BY <2>3, <2>4, SearchAssumption
  <2>6. c \notin Waiting
    BY <1>1, <2>2, <2>4, <2>5 DEF Satisfied
  <2>7. c \notin trash
    BY <1>1, <2>5 DEF IInv, Maps, NearestKept
  <2> QED BY <1>1, <2>6, <2>7 DEF IInv, Maps, EveryoneIsSomewhere
<1>2. IInv => (JumpStart /\ ~ alive' /\ kind \in {"NODECOMPLETE", "STORE"} /\ ~ Exhausted =>
        \A c \in known \ killed : (\E b \in best_complete : c < b) => c \in best_complete)
  BY <1>1
<1> QED BY <1>2, Invariance, PTL DEF EndsWithTheNearest
=============================================================================
