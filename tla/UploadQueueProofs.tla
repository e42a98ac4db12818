-------------------------- MODULE UploadQueueProofs --------------------------
(***************************************************************************)
(* The upload queue keeps its books: the counters in theStats equal the     *)
(* lengths of the lists, and the number of slots never exceeds the          *)
(* configured one by more than the LowID slot; and, in the second part, its *)
(* lists agree with the client objects.                                     *)
(*                                                                          *)
(* Handlers nest, so the proof is about state records: each C++ function    *)
(* either only removes and counts what it removes (Gentle), or also lets    *)
(* one client in (Admits).  The two notions compose, and a handler keeps    *)
(* the invariant Ledger because of the notion its calls add up to.          *)
(***************************************************************************)
EXTENDS UploadQueue, FiniteSetTheorems, SequenceTheorems, WellFoundedInduction,
        TLAPS

\* A non-empty set of naturals has a least element: what Position and Best choose.
LEMMA LeastNatural ==
  ASSUME NEW T \in SUBSET Nat, T # {}
  PROVE  \E m \in T : \A k \in T : m <= k
<1> DEFINE less == OpToRel(<, Nat)
<1>1. less = {p \in Nat \X Nat : p[1] < p[2]}
  BY DEF OpToRel
<1>2. PICK m \in T : \A k \in T : <<k, m>> \notin less
  BY NatLessThanWellFounded, WFMin
<1>3. ASSUME NEW k \in T PROVE m <= k
  <2>1. <<k, m>> \in Nat \X Nat /\ <<k, m>> \notin less
    BY <1>2
  <2>2. ~ (k < m)
    BY <2>1, <1>1
  <2> QED BY <2>2
<1> QED BY <1>3

\* Sets of clients are finite.
LEMMA FinitePart ==
  ASSUME NEW D \in SUBSET Clients
  PROVE  IsFiniteSet(D) /\ Cardinality(D) \in Nat
BY ClientsAssumption, FS_Subset, FS_CardinalityType

-----------------------------------------------------------------------------
\* From S to T a counter changes exactly as much as the list it counts.
Conserves(S, T) ==
  /\ T.nWaiting - Len(T.waiting) = S.nWaiting - Len(S.waiting)
  /\ T.nUploading - Cardinality(T.uploading) =
     S.nUploading - Cardinality(S.uploading)

\* No client gains a slot, and the LowID alternation stays.
Shrinks(S, T) == T.uploading \subseteq S.uploading /\ T.lastHighID = S.lastHighID

\* The step every removal amounts to.
Gentle(S, T) == T \in State /\ Conserves(S, T) /\ Shrinks(S, T)

\* The types of the fields the counting is about.
LEMMA StateTypes ==
  ASSUME NEW S \in State
  PROVE  /\ S.waiting \in Seq(Clients)
         /\ Len(S.waiting) \in Nat
         /\ S.uploading \in SUBSET Clients
         /\ Cardinality(S.uploading) \in Nat
         /\ S.nWaiting \in Int
         /\ S.nUploading \in Int
BY FinitePart, LenProperties DEF State

\* Gentle is reflexive ...
LEMMA GentleRefl ==
  ASSUME NEW S \in State
  PROVE  Gentle(S, S)
BY StateTypes DEF Gentle, Conserves, Shrinks

\* ... and transitive, so that it passes through nested calls.
LEMMA GentleTrans ==
  ASSUME NEW R \in State, NEW S, NEW T, Gentle(R, S), Gentle(S, T)
  PROVE  Gentle(R, T)
<1>1. S \in State /\ T \in State
  BY DEF Gentle
<1> QED BY <1>1 DEF Gentle, Conserves, Shrinks

\* RemoveFromUploadQueue and the loop of SuspendUpload.
LEMMA LeaveUploadGentle ==
  ASSUME NEW S \in State, NEW D \in SUBSET Clients
  PROVE  Gentle(S, LeaveUpload(S, D))
<1> DEFINE T == LeaveUpload(S, D)
<1>1. /\ Cardinality(S.uploading \cap D) \in Nat
      /\ Cardinality(S.uploading \ D) =
           Cardinality(S.uploading) - Cardinality(S.uploading \cap D)
  BY FinitePart, FS_Difference, StateTypes
<1>2. S.nUploading - Cardinality(S.uploading \cap D) \in Int
  BY <1>1, StateTypes
<1>3. [c \in Clients |-> IF c \in S.uploading \cap D THEN "none" ELSE S.up[c]]
        \in [Clients -> UpStates]
  BY DEF State, UpStates
<1>4. T \in State
  BY <1>2, <1>3 DEF LeaveUpload, State
<1>5. /\ T.uploading = S.uploading \ D
      /\ T.nUploading = S.nUploading - Cardinality(S.uploading \cap D)
      /\ T.waiting = S.waiting /\ T.nWaiting = S.nWaiting
      /\ T.lastHighID = S.lastHighID
  BY DEF LeaveUpload, State
<1> QED BY <1>1, <1>4, <1>5, StateTypes DEF Gentle, Conserves, Shrinks

\* The end of Safe_Delete touches neither list.
LEMMA ForgetGentle ==
  ASSUME NEW S \in State, NEW D \in SUBSET Clients
  PROVE  Gentle(S, Forget(S, D))
<1> DEFINE T == Forget(S, D)
<1>1. T \in State
  BY DEF Forget, State, UpStates, DownStates, Sockets
<1>2. /\ T.uploading = S.uploading /\ T.nUploading = S.nUploading
      /\ T.waiting = S.waiting /\ T.nWaiting = S.nWaiting
      /\ T.lastHighID = S.lastHighID
  BY DEF Forget, State
<1> QED BY <1>1, <1>2, StateTypes DEF Gentle, Conserves, Shrinks

\* Position finds the client it is asked for.
LEMMA PositionProperties ==
  ASSUME NEW S \in State, NEW c \in Clients, InWaiting(S, c)
  PROVE  /\ Position(S, c) \in 1..Len(S.waiting)
         /\ S.waiting[Position(S, c)] = c
<1> DEFINE H == {i \in 1..Len(S.waiting) : S.waiting[i] = c}
<1>1. H \in SUBSET Nat /\ H # {}
  BY StateTypes DEF InWaiting
<1>2. PICK m \in H : \A k \in H : m <= k
  BY <1>1, LeastNatural
<1>3. \A j \in 1..(m - 1) : S.waiting[j] # c
  BY <1>2, StateTypes
<1> QED BY <1>2, <1>3 DEF Position

\* Erasing one element of a std::list.
LEMMA RemoveAtProperties ==
  ASSUME NEW q \in Seq(Clients), NEW i \in 1..Len(q)
  PROVE  /\ RemoveAt(q, i) \in Seq(Clients)
         /\ Len(RemoveAt(q, i)) = Len(q) - 1
         /\ \A k \in 1..(Len(q) - 1) :
              RemoveAt(q, i)[k] = IF k < i THEN q[k] ELSE q[k + 1]
<1>1. Len(q) - 1 \in Nat
  BY LenProperties
<1>2. RemoveAt(q, i) \in [1..(Len(q) - 1) -> Clients]
  BY <1>1, LenProperties, ElementOfSeq DEF RemoveAt
<1>3. RemoveAt(q, i) \in Seq(Clients)
  BY <1>1, <1>2, SeqDef
<1>4. DOMAIN RemoveAt(q, i) = 1..Len(RemoveAt(q, i)) /\ Len(RemoveAt(q, i)) \in Nat
  BY <1>3, LenProperties
<1>5. Len(RemoveAt(q, i)) = Len(q) - 1
  BY <1>1, <1>2, <1>4
<1> QED BY <1>3, <1>5 DEF RemoveAt

\* New ranks touch no list.
LEMMA RenumberGentle ==
  ASSUME NEW S \in State, NEW i \in Nat \ {0}
  PROVE  Gentle(S, Renumber(S, i))
<1> DEFINE T == Renumber(S, i)
           f == [c \in Clients |->
                   IF \E k \in i..Len(S.waiting) : S.waiting[k] = c
                   THEN Position(S, c) ELSE S.rank[c]]
<1>1. f \in [Clients -> Nat]
  <2>1. ASSUME NEW c \in Clients PROVE f[c] \in Nat
    <3>1. CASE \E k \in i..Len(S.waiting) : S.waiting[k] = c
      <4>1. InWaiting(S, c)
        BY <3>1, StateTypes DEF InWaiting
      <4> QED BY <3>1, <4>1, PositionProperties, StateTypes
    <3>2. CASE ~ \E k \in i..Len(S.waiting) : S.waiting[k] = c
      BY <3>2 DEF State
    <3> QED BY <3>1, <3>2
  <2> QED BY <2>1
<1>2. T = [S EXCEPT !.rank = f]
  BY DEF Renumber
<1>3. T \in State
  BY <1>1, <1>2 DEF State
<1>4. /\ T.uploading = S.uploading /\ T.nUploading = S.nUploading
      /\ T.waiting = S.waiting /\ T.nWaiting = S.nWaiting
      /\ T.lastHighID = S.lastHighID
  BY <1>2 DEF State
<1> QED BY <1>3, <1>4, StateTypes DEF Gentle, Conserves, Shrinks

\* RemoveFromWaitingQueue(iterator) counts what it erases.
LEMMA TakeFromWaitingGentle ==
  ASSUME NEW S \in State, NEW i \in 1..Len(S.waiting)
  PROVE  Gentle(S, TakeFromWaiting(S, i))
<1> DEFINE T == TakeFromWaiting(S, i)
           c == S.waiting[i]
<1>1. c \in Clients
  BY StateTypes, ElementOfSeq
<1>2. /\ RemoveAt(S.waiting, i) \in Seq(Clients)
      /\ Len(RemoveAt(S.waiting, i)) = Len(S.waiting) - 1
  BY StateTypes, RemoveAtProperties
<1>3. S.nWaiting - 1 \in Int
  BY StateTypes
<1> DEFINE b == IF IsBanned(S, c) THEN S.banned \ {c} ELSE S.banned
           q == RemoveAt(S.waiting, i)
<1>4. T \in State
  <2>1. T = [S EXCEPT !.waiting = q, !.nWaiting = @ - 1, !.banned = b,
                      !.up[c] = "none", !.rank[c] = 0]
    BY DEF TakeFromWaiting
  <2>2. b \in SUBSET Clients
    BY DEF State
  <2> HIDE DEF T, b, q, c
  <2> QED BY <1>1, <1>2, <1>3, <2>1, <2>2 DEF State, UpStates, q
<1>5. /\ T.uploading = S.uploading /\ T.nUploading = S.nUploading
      /\ T.waiting = RemoveAt(S.waiting, i) /\ T.nWaiting = S.nWaiting - 1
      /\ T.lastHighID = S.lastHighID
  BY DEF TakeFromWaiting, State
<1>6. S.nWaiting \in Int /\ Len(S.waiting) \in Nat
  BY StateTypes
<1> HIDE DEF T
<1>7. Conserves(S, T)
  BY <1>2, <1>5, <1>6 DEF Conserves
<1> QED BY <1>4, <1>5, <1>7 DEF Gentle, Shrinks, T

\* RemoveFromWaitingQueue(client), found or not.
LEMMA RemoveFromWaitingQueueGentle ==
  ASSUME NEW S \in State, NEW c \in Clients
  PROVE  Gentle(S, RemoveFromWaitingQueue(S, c))
<1>1. CASE InWaiting(S, c)
  <2> DEFINE i == Position(S, c)
  <2>1. i \in 1..Len(S.waiting) /\ i \in Nat \ {0}
    BY <1>1, PositionProperties, StateTypes
  <2>2. Gentle(S, TakeFromWaiting(S, i))
    BY <2>1, TakeFromWaitingGentle
  <2>3. Gentle(TakeFromWaiting(S, i), Renumber(TakeFromWaiting(S, i), i))
    BY <2>1, <2>2, RenumberGentle DEF Gentle
  <2> QED BY <1>1, <2>2, <2>3, GentleTrans DEF RemoveFromWaitingQueue
<1>2. CASE ~InWaiting(S, c)
  BY <1>2, GentleRefl DEF RemoveFromWaitingQueue
<1> QED BY <1>1, <1>2

\* Safe_Delete, of a live or a dying client.
LEMMA SafeDeleteGentle ==
  ASSUME NEW S \in State, NEW c \in Clients
  PROVE  Gentle(S, SafeDelete(S, c))
<1>1. CASE c \notin S.alive
  BY <1>1, GentleRefl DEF SafeDelete
<1>2. CASE c \in S.alive
  <2> DEFINE R == RemoveFromUploadQueue(S, c)
             Q == RemoveFromWaitingQueue(R, c)
  <2>1. Gentle(S, R)
    BY LeaveUploadGentle DEF RemoveFromUploadQueue
  <2>2. Gentle(R, Q)
    BY <2>1, RemoveFromWaitingQueueGentle DEF Gentle
  <2>3. Gentle(Q, Forget(Q, {c}))
    BY <2>2, ForgetGentle DEF Gentle
  <2>4. Gentle(S, Q)
    BY <2>1, <2>2, GentleTrans
  <2> QED BY <1>2, <2>3, <2>4, GentleTrans DEF SafeDelete
<1> QED BY <1>1, <1>2

\* Disconnected, whatever the states of the client are.
LEMMA AfterDisconnectGentle ==
  ASSUME NEW S \in State, NEW c \in Clients
  PROVE  Gentle(S, AfterDisconnect(S, c))
<1> DEFINE R == IF S.up[c] = "uploading" THEN RemoveFromUploadQueue(S, c) ELSE S
           T == AfterDisconnect(S, c)
<1>1. Gentle(S, R)
  BY GentleRefl, LeaveUploadGentle DEF RemoveFromUploadQueue
<1>2. R \in State
  BY <1>1 DEF Gentle
<1>3. T = [R EXCEPT !.sock[c] = "none",
                    !.down[c] = CASE @ = "downloading" -> "onqueue"
                                  [] @ = "connected"   -> "none"
                                  [] OTHER             -> @]
  BY DEF AfterDisconnect
<1> HIDE DEF R, T
<1>4. T \in State
  BY <1>2, <1>3 DEF State, DownStates, Sockets
<1>5. /\ T.uploading = R.uploading /\ T.nUploading = R.nUploading
      /\ T.waiting = R.waiting /\ T.nWaiting = R.nWaiting
      /\ T.lastHighID = R.lastHighID
  BY <1>2, <1>3 DEF State
<1>6. Gentle(R, T)
  BY <1>2, <1>4, <1>5, StateTypes DEF Gentle, Conserves, Shrinks
<1> QED BY <1>1, <1>6, GentleTrans DEF T

\* Disconnected and the Safe_Delete that may follow.
LEMMA DisconnectGentle ==
  ASSUME NEW S \in State, NEW c \in Clients
  PROVE  Gentle(S, Disconnect(S, c))
<1>1. Gentle(S, AfterDisconnect(S, c)) /\ AfterDisconnect(S, c) \in State
  BY AfterDisconnectGentle DEF Gentle
<1>2. Gentle(S, SafeDelete(AfterDisconnect(S, c), c))
  BY <1>1, SafeDeleteGentle, GentleTrans
<1> QED BY <1>1, <1>2, GentleRefl DEF Disconnect

\* ConnectionEstablished changes states, not lists.
LEMMA ConnectionEstablishedGentle ==
  ASSUME NEW S \in State, NEW c \in Clients
  PROVE  Gentle(S, ConnectionEstablished(S, c))
<1> DEFINE T == ConnectionEstablished(S, c)
<1>1. T \in State
  BY DEF ConnectionEstablished, State, UpStates, DownStates
<1>2. /\ T.uploading = S.uploading /\ T.nUploading = S.nUploading
      /\ T.waiting = S.waiting /\ T.nWaiting = S.nWaiting
      /\ T.lastHighID = S.lastHighID
  BY DEF ConnectionEstablished, State
<1> QED BY <1>1, <1>2, StateTypes DEF Gentle, Conserves, Shrinks

\* TryToConnect, also when it deletes the client.
LEMMA TryToConnectGentle ==
  ASSUME NEW S \in State, NEW c \in Clients
  PROVE  Gentle(S, TryToConnect(S, c))
<1> DEFINE T == [S EXCEPT !.sock[c] = "opening"]
<1>1. T \in State
  BY DEF State, Sockets
<1>2. /\ T.uploading = S.uploading /\ T.nUploading = S.nUploading
      /\ T.waiting = S.waiting /\ T.nWaiting = S.nWaiting
      /\ T.lastHighID = S.lastHighID
  BY DEF State
<1>3. Gentle(S, T)
  BY <1>1, <1>2, StateTypes DEF Gentle, Conserves, Shrinks
<1> QED BY <1>3, DisconnectGentle, ConnectionEstablishedGentle DEF TryToConnect

-----------------------------------------------------------------------------
\* A step that may also put c, and nobody else, in m_uploadinglist.
Admits(S, T, c) ==
  /\ T \in State
  /\ Conserves(S, T)
  /\ T.uploading \subseteq S.uploading \cup {c}
  /\ T.lastHighID = S.lastHighID

\* Entering m_uploadinglist is counted.
LEMMA EnlistAdmits ==
  ASSUME NEW S \in State, NEW c \in Clients \ S.uploading
  PROVE  Admits(S, Enlist(S, c), c)
<1> DEFINE T == Enlist(S, c)
<1>1. S.nUploading + 1 \in Int
  BY StateTypes
<1>2. T \in State
  BY <1>1 DEF Enlist, State
<1>3. Cardinality(S.uploading \cup {c}) = Cardinality(S.uploading) + 1
  BY FinitePart, StateTypes, FS_AddElement
<1>4. /\ T.uploading = S.uploading \cup {c} /\ T.nUploading = S.nUploading + 1
      /\ T.waiting = S.waiting /\ T.nWaiting = S.nWaiting
      /\ T.lastHighID = S.lastHighID
  BY DEF Enlist, State
<1> QED BY <1>2, <1>3, <1>4, StateTypes DEF Admits, Conserves

\* Removals may precede the entry ...
LEMMA GentleAdmits ==
  ASSUME NEW R \in State, NEW S, NEW T, NEW c, Gentle(R, S), Admits(S, T, c)
  PROVE  Admits(R, T, c)
<1>1. S \in State /\ T \in State
  BY DEF Gentle, Admits
<1> QED BY <1>1 DEF Gentle, Admits, Conserves, Shrinks

\* ... and the entry may fail.
LEMMA GentleIsAdmits ==
  ASSUME NEW S, NEW T, NEW c, Gentle(S, T)
  PROVE  Admits(S, T, c)
BY DEF Gentle, Admits, Shrinks

\* AddUpNextClient, for a client that is connected, dialled or lost.
LEMMA GiveSlotAdmits ==
  ASSUME NEW S \in State, NEW c \in Clients
  PROVE  Admits(S, GiveSlot(S, c), c)
<1> DEFINE Up(u) == [S EXCEPT !.up[c] = u]
<1>1. ASSUME NEW u \in UpStates PROVE Gentle(S, Up(u)) /\ Up(u) \in State
  <2>1. Up(u) \in State
    BY DEF State
  <2>2. /\ Up(u).uploading = S.uploading /\ Up(u).nUploading = S.nUploading
        /\ Up(u).waiting = S.waiting /\ Up(u).nWaiting = S.nWaiting
        /\ Up(u).lastHighID = S.lastHighID
    BY DEF State
  <2> QED BY <2>1, <2>2, StateTypes DEF Gentle, Conserves, Shrinks
<1>2. "uploading" \in UpStates /\ "connecting" \in UpStates
  BY DEF UpStates
<1>3. CASE c \in S.uploading
  BY <1>3, GentleRefl, GentleIsAdmits DEF GiveSlot
<1>4. CASE c \notin S.uploading /\ IsConnected(S, c)
  <2> DEFINE U == Up("uploading")
  <2>1. Gentle(S, U) /\ U \in State
    BY <1>1, <1>2
  <2>2. c \notin U.uploading
    BY <1>4, <2>1 DEF Gentle, Shrinks
  <2>3. Admits(U, Enlist(U, c), c)
    BY <2>1, <2>2, EnlistAdmits
  <2> QED BY <1>4, <2>1, <2>3, GentleAdmits DEF GiveSlot
<1>5. CASE c \notin S.uploading /\ ~IsConnected(S, c)
  <2> DEFINE U == Up("connecting")
             T == TryToConnect(U, c)
  <2>1. Gentle(S, U) /\ U \in State
    BY <1>1, <1>2
  <2>2. Gentle(U, T) /\ T \in State
    BY <2>1, TryToConnectGentle DEF Gentle
  <2>3. Gentle(S, T)
    BY <2>1, <2>2, GentleTrans
  <2>4. c \notin T.uploading
    BY <1>5, <2>3 DEF Gentle, Shrinks
  <2>5. Admits(S, Enlist(T, c), c)
    BY <2>2, <2>3, <2>4, EnlistAdmits, GentleAdmits
  <2>6. GiveSlot(S, c) = IF c \in T.alive THEN Enlist(T, c) ELSE T
    BY <1>5 DEF GiveSlot
  <2> QED BY <2>3, <2>5, <2>6, GentleIsAdmits
<1> QED BY <1>3, <1>4, <1>5

\* The directadd branch, which may refuse the file.
LEMMA AddDirectlyAdmits ==
  ASSUME NEW S \in State, NEW c \in Clients
  PROVE  Admits(S, AddDirectly(S, c), c)
BY GentleRefl, GentleIsAdmits, GiveSlotAdmits DEF AddDirectly

-----------------------------------------------------------------------------
\* The second pass finds a position, or the end of the list.
LEMMA BestProperties ==
  ASSUME NEW S \in State
  PROVE  /\ Best(S) \in 1..(Len(S.waiting) + 1)
         /\ Best(S) <= Len(S.waiting) => ~Unreached(S, S.waiting[Best(S)])
         /\ \A j \in 1..(Best(S) - 1) : Unreached(S, S.waiting[j])
<1> DEFINE n == Len(S.waiting)
           H == {i \in 1..(n + 1) : i <= n => ~Unreached(S, S.waiting[i])}
<1>1. n \in Nat
  BY StateTypes
<1>2. n + 1 \in H /\ H \in SUBSET Nat
  BY <1>1
<1>3. PICK m \in H : \A k \in H : m <= k
  BY <1>2, LeastNatural
<1>4. ASSUME NEW j \in 1..(m - 1) PROVE Unreached(S, S.waiting[j])
  <2>1. j \in 1..n /\ j < m
    BY <1>1, <1>3
  <2>2. j \notin H
    BY <1>1, <1>3, <2>1
  <2> QED BY <2>1, <2>2
<1>5. /\ m \in 1..(n + 1)
      /\ m <= n => ~Unreached(S, S.waiting[m])
  BY <1>3
<1> HIDE DEF H
<1> QED BY <1>4, <1>5 DEF Best

\* The first pass of the sort, as far as every purge and order have it in common.
LEMMA PurgeAndSortGentle ==
  ASSUME NEW S \in State, NEW K \in SUBSET (1..Len(S.waiting)),
         NEW p \in Orders(S, K)
  PROVE  Gentle(S, PurgeAndSort(S, K, p))
<1> DEFINE n == Cardinality(K)
           P == {S.waiting[i] : i \in (1..Len(S.waiting)) \ K}
           w == [i \in 1..n |-> S.waiting[p[i]]]
           up == [c \in Clients |-> IF c \in P THEN "none" ELSE S.up[c]]
           rank == [c \in Clients |-> IF c \in P THEN 0 ELSE S.rank[c]]
           ban == S.banned \ {c \in P : IsBanned(S, c)}
           Q == [S EXCEPT !.waiting  = w,
                          !.nWaiting = @ - (Len(S.waiting) - n),
                          !.banned   = ban,
                          !.up       = up,
                          !.rank     = rank]
           O == Orphans(Q, P)
<1>1. n \in Nat
  <2>1. IsFiniteSet(1..Len(S.waiting))
    BY FS_Interval, StateTypes
  <2> QED BY <2>1, FS_Subset, FS_CardinalityType
<1>2. p \in [1..n -> K]
  BY DEF Orders
<1>3. w \in [1..n -> Clients]
  BY <1>2, StateTypes, ElementOfSeq
<1>4. w \in Seq(Clients) /\ Len(w) = n
  <2>1. w \in Seq(Clients)
    BY <1>1, <1>3, SeqDef
  <2>2. Len(w) \in Nat /\ DOMAIN w = 1..Len(w)
    BY <2>1, LenProperties
  <2> QED BY <1>1, <2>1, <2>2
<1>5. P \in SUBSET Clients
  BY StateTypes, ElementOfSeq
<1>6. /\ up \in [Clients -> UpStates] /\ rank \in [Clients -> Nat]
      /\ ban \in SUBSET Clients
  BY DEF State, UpStates
<1>7. S.nWaiting - (Len(S.waiting) - n) \in Int
  BY <1>1, StateTypes
<1> HIDE DEF w, up, rank, ban
<1>8. Q \in State
  BY <1>4, <1>6, <1>7 DEF State
<1>9. /\ Q.uploading = S.uploading /\ Q.nUploading = S.nUploading
      /\ Q.waiting = w /\ Q.nWaiting = S.nWaiting - (Len(S.waiting) - n)
      /\ Q.lastHighID = S.lastHighID
  BY DEF State
<1>10. Gentle(S, Q)
  BY <1>1, <1>4, <1>8, <1>9, StateTypes DEF Gentle, Conserves, Shrinks
<1>11. O \in SUBSET Clients
  BY <1>5 DEF Orphans
<1>12. PurgeAndSort(S, K, p) = Forget(LeaveUpload(Q, O), O)
  BY DEF PurgeAndSort, w, up, rank, ban
<1> HIDE DEF Q, O
<1>13. Gentle(Q, LeaveUpload(Q, O)) /\ LeaveUpload(Q, O) \in State
  BY <1>8, <1>11, LeaveUploadGentle DEF Gentle
<1>14. Gentle(LeaveUpload(Q, O), Forget(LeaveUpload(Q, O), O))
  BY <1>11, <1>13, ForgetGentle
<1> QED BY <1>10, <1>12, <1>13, <1>14, GentleTrans

\* The second pass only ranks and marks.
LEMMA RankAndMarkGentle ==
  ASSUME NEW S \in State
  PROVE  Gentle(S, RankAndMark(S))
<1> DEFINE ahead == {S.waiting[i] : i \in 1..(Best(S) - 1)}
           all   == {S.waiting[i] : i \in 1..Len(S.waiting)}
           M     == [S EXCEPT !.addNext = (@ \ all) \cup ahead]
<1>1. ahead \in SUBSET Clients
  BY BestProperties, StateTypes, ElementOfSeq
<1>2. (S.addNext \ all) \cup ahead \in SUBSET Clients
  BY <1>1 DEF State
<1>3. M \in State
  BY <1>2 DEF State
<1>4. /\ M.uploading = S.uploading /\ M.nUploading = S.nUploading
      /\ M.waiting = S.waiting /\ M.nWaiting = S.nWaiting
      /\ M.lastHighID = S.lastHighID
  BY DEF State
<1>5. Gentle(S, M)
  BY <1>3, <1>4, StateTypes DEF Gentle, Conserves, Shrinks
<1>6. RankAndMark(S) = Renumber(M, 1)
  BY DEF RankAndMark
<1> QED BY <1>3, <1>5, <1>6, RenumberGentle, GentleTrans

\* The first pass removes, and counts what it removes.
LEMMA SortedGentle ==
  ASSUME NEW S \in State, NEW T \in Sorted(S)
  PROVE  Gentle(S, T)
<1> DEFINE K == {i \in 1..Len(S.waiting) : ~Purgeable(S, S.waiting[i])}
<1>1. PICK p \in Orders(S, K) : T = RankAndMark(PurgeAndSort(S, K, p))
  BY DEF Sorted
<1>2. Gentle(S, PurgeAndSort(S, K, p)) /\ PurgeAndSort(S, K, p) \in State
  BY PurgeAndSortGentle DEF Gentle
<1> QED BY <1>1, <1>2, RankAndMarkGentle, GentleTrans

-----------------------------------------------------------------------------
(***************************************************************************)
(* What the type of the state, the counters and the slot bound amount to.   *)
(***************************************************************************)
Counted(S) == S.nWaiting = Len(S.waiting) /\ S.nUploading = Cardinality(S.uploading)

\* ExtraSlotBound, of a state record.
Bounded(S) ==
  /\ Cardinality(S.uploading) <= MaxSlots + 1
  /\ Cardinality(S.uploading) > MaxSlots => ~S.lastHighID

\* The invariant, of a state record.
Ledger(S) == S \in State /\ Counted(S) /\ Bounded(S)

\* Removals keep the invariant.
LEMMA GentleKeepsLedger ==
  ASSUME NEW S, Ledger(S), NEW T, Gentle(S, T)
  PROVE  Ledger(T)
<1>1. S \in State /\ T \in State
  BY DEF Gentle, Ledger
<1>2. Cardinality(T.uploading) <= Cardinality(S.uploading)
  <2>1. T.uploading \in SUBSET S.uploading /\ IsFiniteSet(S.uploading)
    BY <1>1, FinitePart, StateTypes DEF Gentle, Shrinks
  <2> QED BY <2>1, FS_Subset
<1> QED
  BY <1>1, <1>2, StateTypes, ConstantsAssumption
  DEF Gentle, Conserves, Shrinks, Ledger, Counted, Bounded

\* One more slot costs at most one.
LEMMA AdmitsCount ==
  ASSUME NEW S \in State, NEW T, NEW c \in Clients, Admits(S, T, c)
  PROVE  Cardinality(T.uploading) <= Cardinality(S.uploading) + 1
<1>1. IsFiniteSet(S.uploading)
  BY FinitePart, StateTypes
<1>2. /\ IsFiniteSet(S.uploading \cup {c})
      /\ Cardinality(S.uploading \cup {c}) <= Cardinality(S.uploading) + 1
  <2>1. /\ IsFiniteSet(S.uploading \cup {c})
        /\ Cardinality(S.uploading \cup {c}) =
             IF c \in S.uploading THEN Cardinality(S.uploading)
             ELSE Cardinality(S.uploading) + 1
    BY <1>1, FS_AddElement
  <2>2. Cardinality(S.uploading) \in Nat
    BY StateTypes
  <2> QED BY <2>1, <2>2
<1>3. T.uploading \in SUBSET (S.uploading \cup {c})
  BY DEF Admits
<1>4. Cardinality(T.uploading) <= Cardinality(S.uploading \cup {c})
  BY <1>2, <1>3, FS_Subset
<1>5. T \in State
  BY DEF Admits
<1>6. Cardinality(S.uploading \cup {c}) \in Nat
  BY <1>2, FS_CardinalityType
<1> QED BY <1>2, <1>4, <1>5, <1>6, StateTypes

\* An entry keeps it when a slot is free.
LEMMA AdmitsKeepsLedger ==
  ASSUME NEW S, Ledger(S), NEW T, NEW c \in Clients, Admits(S, T, c),
         Cardinality(S.uploading) < MaxSlots
  PROVE  Ledger(T)
<1>1. S \in State /\ T \in State
  BY DEF Admits, Ledger
<1>2. Cardinality(T.uploading) <= MaxSlots
  BY <1>1, AdmitsCount, StateTypes, ConstantsAssumption
<1> QED
  BY <1>1, <1>2, StateTypes, ConstantsAssumption
  DEF Admits, Conserves, Ledger, Counted, Bounded

\* The best client gets one of the free slots.
LEMMA AddUpNextClientLedger ==
  ASSUME NEW S, Ledger(S), Cardinality(S.uploading) < MaxSlots,
         NEW T \in AddUpNextClient(S)
  PROVE  Ledger(T)
<1>1. S \in State
  BY DEF Ledger
<1>2. PICK Q \in Sorted(S) :
        T = IF Best(Q) > Len(Q.waiting) THEN Q
            ELSE GiveSlot(
                   [Renumber(TakeFromWaiting(Q, Best(Q)), Best(Q))
                      EXCEPT !.lastHighID = TRUE], Q.waiting[Best(Q)])
  BY DEF AddUpNextClient
<1>3. Gentle(S, Q) /\ Q \in State /\ Ledger(Q)
  BY <1>1, SortedGentle, GentleKeepsLedger DEF Gentle
<1>4. CASE Best(Q) > Len(Q.waiting)
  BY <1>2, <1>3, <1>4
<1>5. CASE ~(Best(Q) > Len(Q.waiting))
  <2> DEFINE b == Best(Q)
             c == Q.waiting[b]
             R == Renumber(TakeFromWaiting(Q, b), b)
             H == [R EXCEPT !.lastHighID = TRUE]
  <2>1. b \in 1..Len(Q.waiting) /\ b \in Nat \ {0}
    BY <1>3, <1>5, BestProperties, StateTypes
  <2>2. c \in Clients
    BY <1>3, <2>1, StateTypes, ElementOfSeq
  <2>3. Gentle(Q, TakeFromWaiting(Q, b)) /\ TakeFromWaiting(Q, b) \in State
    BY <1>3, <2>1, TakeFromWaitingGentle DEF Gentle
  <2>4. Gentle(TakeFromWaiting(Q, b), R)
    BY <2>1, <2>3, RenumberGentle
  <2>5. Gentle(S, R)
    BY <1>1, <1>3, <2>3, <2>4, GentleTrans
  <2>6. R \in State /\ Ledger(R) /\ R.uploading \subseteq S.uploading
    BY <2>5, GentleKeepsLedger DEF Gentle, Shrinks
  <2>7. Cardinality(R.uploading) < MaxSlots
    <3>1. IsFiniteSet(S.uploading) /\ R.uploading \in SUBSET S.uploading
      BY <1>1, <2>6, FinitePart, StateTypes
    <3>2. Cardinality(R.uploading) <= Cardinality(S.uploading)
      BY <3>1, FS_Subset
    <3> QED BY <1>1, <2>6, <3>2, StateTypes, ConstantsAssumption
  <2> HIDE DEF R
  <2>8. /\ H \in State
        /\ H.uploading = R.uploading /\ H.nUploading = R.nUploading
        /\ H.waiting = R.waiting /\ H.nWaiting = R.nWaiting
    BY <2>6 DEF State
  <2>9. Ledger(H)
    BY <2>6, <2>7, <2>8, StateTypes, ConstantsAssumption
    DEF Ledger, Counted, Bounded
  <2>10. T = GiveSlot(H, c)
    BY <1>2, <1>5 DEF R
  <2> QED BY <2>2, <2>7, <2>8, <2>9, <2>10, GiveSlotAdmits, AdmitsKeepsLedger
<1> QED BY <1>4, <1>5

\* The extra slot is given once, because lastupslotHighID is then reset.
LEMMA ClaimSlotLedger ==
  ASSUME NEW S, Ledger(S), NEW c \in Clients
  PROVE  Ledger(ClaimSlot(S, c))
<1> DEFINE may == /\ c \in S.addNext
                  /\ Cardinality(S.uploading) <
                       MaxSlots + (IF S.lastHighID THEN 1 ELSE 0)
           U == [S EXCEPT !.addNext = @ \ {c}]
           R == RemoveFromWaitingQueue(U, c)
           A == AddDirectly(R, c)
           T == [A EXCEPT !.lastHighID = FALSE]
<1>1. S \in State
  BY DEF Ledger
<1>2. CASE ~may
  BY <1>2 DEF ClaimSlot
<1>3. CASE may
  <2>1. /\ U \in State
        /\ U.uploading = S.uploading /\ U.nUploading = S.nUploading
        /\ U.waiting = S.waiting /\ U.nWaiting = S.nWaiting
        /\ U.lastHighID = S.lastHighID
    BY <1>1 DEF State
  <2>2. Gentle(S, U)
    BY <1>1, <2>1, StateTypes DEF Gentle, Conserves, Shrinks
  <2>3. Gentle(U, R)
    BY <2>1, RemoveFromWaitingQueueGentle
  <2>4. Gentle(S, R) /\ R \in State
    BY <1>1, <2>2, <2>3, GentleTrans DEF Gentle
  <2> HIDE DEF R
  <2>10. Admits(R, A, c)
    BY <2>4, AddDirectlyAdmits
  <2> HIDE DEF A
  <2>5. Admits(S, A, c) /\ A \in State
    BY <1>1, <2>4, <2>10, GentleAdmits DEF Admits
  <2>6. Cardinality(A.uploading) <= MaxSlots + 1
    <3>1. Cardinality(A.uploading) <= Cardinality(S.uploading) + 1
      BY <1>1, <2>5, AdmitsCount
    <3>2. Cardinality(S.uploading) < MaxSlots + 1
      BY <1>1, <1>3, StateTypes, ConstantsAssumption
    <3> QED BY <1>1, <2>5, <3>1, <3>2, StateTypes, ConstantsAssumption
  <2>7. ClaimSlot(S, c) = T
    BY <1>3 DEF ClaimSlot, A, R
  <2>8. /\ T \in State /\ T.lastHighID = FALSE
        /\ T.uploading = A.uploading /\ T.nUploading = A.nUploading
        /\ T.waiting = A.waiting /\ T.nWaiting = A.nWaiting
    BY <2>5 DEF State
  <2> QED
    BY <1>1, <2>5, <2>6, <2>7, <2>8, StateTypes
    DEF Ledger, Counted, Bounded, Admits, Conserves
<1> QED BY <1>2, <1>3

\* A newcomer is uploaded to, queued or refused.
LEMMA EnqueueLedger ==
  ASSUME NEW S, Ledger(S), NEW c \in Clients, NEW crowded,
         NEW T \in Enqueue(S, c, crowded)
  PROVE  Ledger(T)
<1> DEFINE no == crowded \/ S.up[c] = "uploading" \/ Len(S.waiting) >= QueueSize
           now == /\ Len(S.waiting) = 0
                  /\ ~S.recent
                  /\ Cardinality(S.uploading) < MaxSlots
                  /\ ~TooManySockets(S)
<1>1. S \in State
  BY DEF Ledger
<1>2. CASE no
  BY <1>2 DEF Enqueue
<1>3. CASE ~no /\ now
  <2> DEFINE A == AddDirectly(S, c)
  <2>1. Admits(S, A, c)
    BY <1>1, AddDirectlyAdmits
  <2>2. Ledger(A) /\ A \in State
    BY <1>3, <2>1, AdmitsKeepsLedger DEF Ledger
  <2>3. T = [A EXCEPT !.recent = TRUE]
    BY <1>3 DEF Enqueue
  <2> HIDE DEF A
  <2>4. /\ T \in State /\ T.lastHighID = A.lastHighID
        /\ T.uploading = A.uploading /\ T.nUploading = A.nUploading
        /\ T.waiting = A.waiting /\ T.nWaiting = A.nWaiting
    BY <2>2, <2>3 DEF State
  <2> QED BY <2>2, <2>4 DEF Ledger, Counted, Bounded
<1>4. CASE ~no /\ ~now
  <2> DEFINE U == [S EXCEPT !.waiting = Append(@, c)]
  <2>1. PICK Q \in Sorted(U) :
          T = [Q EXCEPT !.nWaiting = @ + 1, !.up[c] = "queued"]
    BY <1>4 DEF Enqueue
  <2>2. Append(S.waiting, c) \in Seq(Clients) /\ Len(Append(S.waiting, c)) = Len(S.waiting) + 1
    BY <1>1, StateTypes, AppendProperties
  <2>3. /\ U \in State /\ U.lastHighID = S.lastHighID
        /\ U.uploading = S.uploading /\ U.nUploading = S.nUploading
        /\ U.nWaiting = S.nWaiting /\ U.waiting = Append(S.waiting, c)
    BY <1>1, <2>2 DEF State
  <2>4. Gentle(U, Q) /\ Q \in State
    BY <2>3, SortedGentle DEF Gentle
  <2>5. Q.nWaiting + 1 \in Int
    BY <2>4, StateTypes
  <2>6. /\ T \in State /\ T.lastHighID = Q.lastHighID
        /\ T.uploading = Q.uploading /\ T.nUploading = Q.nUploading
        /\ T.waiting = Q.waiting /\ T.nWaiting = Q.nWaiting + 1
    BY <2>1, <2>4, <2>5 DEF State, UpStates
  <2>7. Cardinality(Q.uploading) <= Cardinality(S.uploading)
    <3>1. Q.uploading \in SUBSET S.uploading /\ IsFiniteSet(S.uploading)
      BY <1>1, <2>3, <2>4, FinitePart, StateTypes DEF Gentle, Shrinks
    <3> QED BY <3>1, FS_Subset
  <2>8. Counted(T)
    <3>1. /\ Q.nWaiting - Len(Q.waiting) = U.nWaiting - Len(U.waiting)
          /\ Q.nUploading - Cardinality(Q.uploading) =
             U.nUploading - Cardinality(U.uploading)
      BY <2>4 DEF Gentle, Conserves
    <3>2. /\ Len(Q.waiting) \in Nat /\ Q.nWaiting \in Int
          /\ Cardinality(Q.uploading) \in Nat /\ Q.nUploading \in Int
      BY <2>4, StateTypes
    <3>3. /\ U.nWaiting - Len(U.waiting) = -1
          /\ U.nUploading - Cardinality(U.uploading) = 0
      <4>1. Len(S.waiting) \in Nat /\ Cardinality(S.uploading) \in Nat
        BY <1>1, StateTypes
      <4>2. S.nWaiting = Len(S.waiting) /\ S.nUploading = Cardinality(S.uploading)
        BY DEF Ledger, Counted
      <4> QED BY <2>2, <2>3, <4>1, <4>2
    <3> HIDE DEF U
    <3> QED BY <2>6, <3>1, <3>2, <3>3 DEF Counted
  <2> HIDE DEF U
  <2>9. Bounded(T)
    <3>1. Cardinality(T.uploading) <= Cardinality(S.uploading)
      BY <2>6, <2>7
    <3>2. T.lastHighID = S.lastHighID
      BY <2>3, <2>4, <2>6 DEF Gentle, Shrinks
    <3>3. /\ Cardinality(S.uploading) \in Nat /\ MaxSlots \in Nat
          /\ Cardinality(T.uploading) \in Nat
      BY <1>1, <2>6, StateTypes, ConstantsAssumption
    <3>4. Bounded(S)
      BY DEF Ledger
    <3> QED BY <3>1, <3>2, <3>3, <3>4 DEF Bounded
  <2> QED BY <2>6, <2>8, <2>9 DEF Ledger
<1> QED BY <1>2, <1>3, <1>4

\* Both ways of AddClientToQueue.
LEMMA QueueOrClaimLedger ==
  ASSUME NEW S, Ledger(S), NEW c \in Clients, NEW crowded,
         NEW T \in QueueOrClaim(S, c, crowded)
  PROVE  Ledger(T)
BY EnqueueLedger, ClaimSlotLedger DEF QueueOrClaim

\* AddClientToQueue, the twins it evicts included.
LEMMA AddClientToQueueLedger ==
  ASSUME NEW S0, Ledger(S0), NEW c \in Clients, NEW crowded,
         NEW T \in AddClientToQueue(S0, c, crowded)
  PROVE  Ledger(T)
<1> DEFINE S == [S0 EXCEPT !.stale = @ \ {c}]
<1>1. S0 \in State
  BY DEF Ledger
<1>2. /\ S \in State /\ S.lastHighID = S0.lastHighID
      /\ S.uploading = S0.uploading /\ S.nUploading = S0.nUploading
      /\ S.nWaiting = S0.nWaiting /\ S.waiting = S0.waiting
  BY <1>1 DEF State
<1>3. Ledger(S)
  BY <1>2 DEF Ledger, Counted, Bounded
<1> HIDE DEF S
<1>4. CASE IsBanned(S0, c)
  BY <1>4 DEF AddClientToQueue
<1>5. CASE T \in QueueOrClaim(S, c, crowded)
  BY <1>3, <1>5, QueueOrClaimLedger
<1>6. ASSUME NEW d \in Clashing(S, c),
             T \in IF c \in Identified THEN QueueOrClaim(EvictTwin(S, d), c, crowded)
                   ELSE {RejectTwin(EvictTwin(S, d), c)}
      PROVE  Ledger(T)
  <2> DEFINE R == EvictTwin(S, d)
  <2>1. d \in Clients
    BY DEF Clashing
  <2>2. Gentle(S, R)
    <3> DEFINE Q == RemoveFromWaitingQueue(S, d)
    <3>1. Gentle(S, Q) /\ Q \in State
      BY <1>2, <2>1, RemoveFromWaitingQueueGentle DEF Gentle
    <3>2. Gentle(S, Disconnect(Q, d))
      BY <1>2, <2>1, <3>1, DisconnectGentle, GentleTrans
    <3> QED BY <1>2, <3>1, <3>2, GentleRefl DEF EvictTwin
  <2>3. Ledger(R) /\ R \in State
    BY <1>3, <2>2, GentleKeepsLedger DEF Gentle
  <2>4. Ledger(RejectTwin(R, c))
    BY <2>3, DisconnectGentle, GentleKeepsLedger DEF RejectTwin
  <2> QED BY <1>6, <2>3, <2>4, QueueOrClaimLedger
<1>7. \/ IsBanned(S0, c)
      \/ T \in QueueOrClaim(S, c, crowded)
      \/ \E d \in Clashing(S, c) :
           T \in IF c \in Identified THEN QueueOrClaim(EvictTwin(S, d), c, crowded)
                 ELSE {RejectTwin(EvictTwin(S, d), c)}
  BY DEF AddClientToQueue, S
<1> QED BY <1>4, <1>5, <1>6, <1>7

\* Nothing the invariant speaks of differs.
Untouched(S, T) ==
  /\ T.uploading = S.uploading /\ T.nUploading = S.nUploading
  /\ T.waiting = S.waiting /\ T.nWaiting = S.nWaiting
  /\ T.lastHighID = S.lastHighID

\* Such a step keeps the invariant.
LEMMA UntouchedLedger ==
  ASSUME NEW S, Ledger(S), NEW T \in State, Untouched(S, T)
  PROVE  Ledger(T)
BY DEF Untouched, Ledger, Counted, Bounded

\* A block that is sent, or fails and costs the slot.
LEMMA CreateNextBlockPackageLedger ==
  ASSUME NEW S, Ledger(S), NEW c \in Clients, NEW failed \in BOOLEAN,
         NEW T \in CreateNextBlockPackage(S, c, failed)
  PROVE  Ledger(T)
<1> DEFINE fed == {S} \cup {[S EXCEPT !.file[c] = f] : f \in S.shared}
<1>1. S \in State
  BY DEF Ledger
<1>2. ASSUME NEW R \in fed PROVE R \in State /\ Ledger(R)
  <2>1. CASE R = S
    BY <1>1, <2>1
  <2>2. ASSUME NEW f \in S.shared, R = [S EXCEPT !.file[c] = f]
        PROVE  R \in State /\ Untouched(S, R)
    BY <1>1, <2>2 DEF State, Untouched
  <2> QED BY <2>1, <2>2, UntouchedLedger
<1>3. ASSUME NEW R \in fed, NEW F PROVE Ledger(RemoveFromUploadQueue([R EXCEPT !.shared = @ \ F], c))
  <2> DEFINE Q == [R EXCEPT !.shared = @ \ F]
  <2>0. R \in State /\ Ledger(R)
    BY <1>2
  <2> HIDE DEF fed
  <2>1. Q \in State /\ Untouched(R, Q)
    BY <2>0 DEF State, Untouched
  <2>2. Ledger(Q)
    BY <2>0, <2>1, UntouchedLedger
  <2> QED
    BY <2>1, <2>2, LeaveUploadGentle, GentleKeepsLedger DEF RemoveFromUploadQueue
<1>4. CASE ~failed
  <2>1. T \in fed
    BY <1>4 DEF CreateNextBlockPackage
  <2> QED BY <1>2, <2>1
<1>5. CASE failed
  <2> DEFINE lost == {{}} \cup {{f} : f \in S.shared}
             drop(R, F) == RemoveFromUploadQueue([R EXCEPT !.shared = @ \ F], c)
  <2>0. T \in UNION {{drop(R, F) : F \in lost} : R \in fed}
    BY <1>5 DEF CreateNextBlockPackage
  <2> HIDE DEF fed, lost, drop
  <2>1. PICK R \in fed, F \in lost : T = drop(R, F)
    BY <2>0
  <2> USE DEF drop
  <2> QED BY <1>3, <2>1
<1> QED BY <1>4, <1>5

\* Sending, failing and kicking.
LEMMA SendBlockDataLedger ==
  ASSUME NEW S, Ledger(S), NEW c \in Clients, NEW outcome, NEW crowded,
         NEW T \in SendBlockData(S, c, outcome, crowded)
  PROVE  Ledger(T)
<1> DEFINE K == [S EXCEPT !.kicking = FALSE]
<1>1. S \in State
  BY DEF Ledger
<1>2. /\ K \in State /\ K.lastHighID = S.lastHighID
      /\ K.uploading = S.uploading /\ K.nUploading = S.nUploading
      /\ K.nWaiting = S.nWaiting /\ K.waiting = S.waiting
  BY <1>1 DEF State
<1>3. Ledger(K)
  BY <1>2 DEF Ledger, Counted, Bounded
<1> HIDE DEF K
<1>4. Ledger(RemoveFromUploadQueue(K, c)) /\ Ledger(RemoveFromUploadQueue(S, c))
  BY <1>1, <1>2, <1>3, LeaveUploadGentle, GentleKeepsLedger
  DEF RemoveFromUploadQueue
<1> QED
  BY <1>4, AddClientToQueueLedger, CreateNextBlockPackageLedger
  DEF SendBlockData, K

-----------------------------------------------------------------------------
(***************************************************************************)
(* The steps.                                                               *)
(***************************************************************************)
LEMMA ProcessSlotsLedger ==
  ASSUME Ledger(s), ProcessSlots
  PROVE  Ledger(s') /\ todo' \subseteq Clients
<1> DEFINE K(k) == [s EXCEPT !.kicking = k]
           N == [s EXCEPT !.kicking = FALSE, !.recent = TRUE]
<1>1. s \in State
  BY DEF Ledger
<1>2. ASSUME NEW k \in BOOLEAN PROVE Ledger(K(k))
  <2>1. K(k) \in State
    BY <1>1 DEF State
  <2>2. Untouched(s, K(k))
    BY <1>1 DEF State, Untouched
  <2> QED BY <2>1, <2>2, UntouchedLedger
<1>3. N \in State /\ Untouched(s, N)
  BY <1>1 DEF State, Untouched
<1>4. Ledger(N)
  BY <1>3, UntouchedLedger
<1>5. \/ s' = K(FALSE) \/ s' = K(TRUE)
      \/ Cardinality(s.uploading) < MaxSlots /\ s' \in AddUpNextClient(N)
  BY DEF ProcessSlots
<1>6. Ledger(s')
  <2>1. CASE s' = K(FALSE) \/ s' = K(TRUE)
    BY <1>2, <2>1
  <2>2. CASE Cardinality(s.uploading) < MaxSlots /\ s' \in AddUpNextClient(N)
    <3>1. N.uploading = s.uploading
      BY <1>3 DEF Untouched
    <3> HIDE DEF N
    <3> QED BY <1>4, <2>2, <3>1, AddUpNextClientLedger
  <2> QED BY <1>5, <2>1, <2>2
<1>7. todo' = s'.uploading
  BY DEF ProcessSlots
<1> QED BY <1>6, <1>7, StateTypes DEF Ledger

\* One round of the loop of Process.
LEMMA ProcessFeedLedger ==
  ASSUME Ledger(s), todo \subseteq Clients, NEW c \in Clients, ProcessFeed(c)
  PROVE  Ledger(s') /\ todo' \subseteq Clients
<1>1. s \in State
  BY DEF Ledger
<1>2. PICK outcome, crowded :
        s' \in IF s.sock[c] = "none"
               THEN {Disconnect(RemoveFromUploadQueue(s, c), c)}
               ELSE SendBlockData(s, c, outcome, crowded)
  BY DEF ProcessFeed
<1>3. Ledger(Disconnect(RemoveFromUploadQueue(s, c), c))
  <2> DEFINE R == RemoveFromUploadQueue(s, c)
  <2>1. Gentle(s, R) /\ R \in State
    BY <1>1, LeaveUploadGentle DEF RemoveFromUploadQueue, Gentle
  <2>2. Gentle(s, Disconnect(R, c))
    BY <1>1, <2>1, DisconnectGentle, GentleTrans
  <2> QED BY <2>2, GentleKeepsLedger
<1>4. Ledger(s')
  BY <1>2, <1>3, SendBlockDataLedger
<1>5. todo' \subseteq Clients
  BY DEF ProcessFeed
<1> QED BY <1>4, <1>5

\* Sorting by itself.
LEMMA SortLedger ==
  ASSUME Ledger(s), s' \in {s} \cup Sorted(s)
  PROVE  Ledger(s')
BY SortedGentle, GentleKeepsLedger DEF Ledger

\* Connections that come, go or are asked for.
LEMMA ConnectionStepsLedger ==
  ASSUME Ledger(s), NEW c \in Clients,
         Hello(c) \/ HelloAnswer(c) \/ SocketLost(c) \/ AskForDownload(c)
  PROVE  Ledger(s')
<1> DEFINE Opened(d) == [s EXCEPT !.sock[d] = "open", !.lowID = @ \ {d}]
           created == [s EXCEPT !.alive = @ \cup {c}, !.sock[c] = "open"]
           refused == [created EXCEPT !.banned = @ \cup {c}, !.up[c] = "banned"]
           asked == [s EXCEPT !.alive = @ \cup {c}, !.down[c] = "connecting"]
           full == [asked EXCEPT !.down[c] = "onqueue"]
<1>1. s \in State
  BY DEF Ledger
<1>2. ASSUME NEW d \in Clients PROVE Ledger(ConnectionEstablished(Opened(d), d))
  <2>1. Opened(d) \in State /\ Untouched(s, Opened(d))
    BY <1>1 DEF State, Sockets, Untouched
  <2> QED
    BY <2>1, UntouchedLedger, ConnectionEstablishedGentle, GentleKeepsLedger
<1>3. created \in State /\ Untouched(s, created)
  BY <1>1 DEF State, Sockets, Untouched
<1>4. refused \in State /\ Untouched(created, refused)
  BY <1>3 DEF State, UpStates, Untouched
<1>5. Ledger(created) /\ Ledger(refused)
  BY <1>3, <1>4, UntouchedLedger
<1>6. asked \in State /\ Untouched(s, asked)
  BY <1>1 DEF State, DownStates, Untouched
<1>7. full \in State /\ Untouched(asked, full)
  BY <1>6 DEF State, DownStates, Untouched
<1>8. Ledger(asked) /\ Ledger(full)
  BY <1>6, <1>7, UntouchedLedger
<1>9. Ledger(TryToConnect(asked, c))
  BY <1>6, <1>8, TryToConnectGentle, GentleKeepsLedger
<1>10. Ledger(Disconnect(s, c))
  BY <1>1, DisconnectGentle, GentleKeepsLedger
<1>11. CASE Hello(c)
  <2>1. \/ \E d \in Clients : s' = ConnectionEstablished(Opened(d), d)
        \/ s' = created \/ s' = refused
    BY <1>11 DEF Hello, Handler
  <2> QED BY <1>2, <1>5, <2>1
<1>12. CASE HelloAnswer(c)
  BY <1>2, <1>12 DEF HelloAnswer, Handler
<1>13. CASE SocketLost(c)
  BY <1>10, <1>13 DEF SocketLost, Handler
<1>14. CASE AskForDownload(c)
  BY <1>8, <1>9, <1>14 DEF AskForDownload, Handler
<1> QED BY <1>11, <1>12, <1>13, <1>14

\* A client asks for a file, or for an upload.
LEMMA RequestStepsLedger ==
  ASSUME Ledger(s), NEW c \in Clients, NEW f \in Files, NEW crowded,
         RequestFile(c, f) \/ StartUploadReq(c, f, crowded)
  PROVE  Ledger(s')
<1> DEFINE Asks == [s EXCEPT !.file[c] = f]
<1>1. s \in State
  BY DEF Ledger
<1>2. Asks \in State /\ Untouched(s, Asks)
  BY <1>1 DEF State, Untouched
<1>3. Ledger(Asks)
  BY <1>2, UntouchedLedger
<1>4. CASE RequestFile(c, f)
  BY <1>3, <1>4 DEF RequestFile, Handler
<1>5. CASE StartUploadReq(c, f, crowded)
  <2>1. s' \in AddClientToQueue(Asks, c, crowded)
    BY <1>5 DEF StartUploadReq, Handler
  <2> HIDE DEF Asks
  <2> QED BY <1>3, <2>1, AddClientToQueueLedger
<1> QED BY <1>4, <1>5

\* A client is taken off its slot, or deleted.
LEMMA RemovalStepsLedger ==
  ASSUME Ledger(s), NEW c \in Clients,
         StopUpload(c) \/ CleanUpClientList(c) \/ FilterQueues(c)
  PROVE  Ledger(s')
<1>1. s \in State
  BY DEF Ledger
<1>2. Gentle(s, RemoveFromUploadQueue(s, c))
  BY <1>1, LeaveUploadGentle DEF RemoveFromUploadQueue
<1>3. Gentle(s, SafeDelete(AfterDisconnect(s, c), c))
  BY <1>1, AfterDisconnectGentle, SafeDeleteGentle, GentleTrans DEF Gentle
<1>4. Gentle(s, s')
  BY <1>2, <1>3 DEF StopUpload, CleanUpClientList, FilterQueues, Handler
<1> QED BY <1>4, GentleKeepsLedger

\* What else happens to one client.
LEMMA OtherClientStepsLedger ==
  ASSUME Ledger(s), NEW c \in Clients,
         \/ ReaskFilePing(c) \/ ChangeClientID(c) \/ SourceAnswers(c)
         \/ SourceDropped(c) \/ ProtocolError(c)
         \/ Ban(c) \/ BanCorrupter(c) \/ BanExpires(c) \/ HourPasses(c)
  PROVE  Ledger(s')
<1>1. s \in State
  BY DEF Ledger
<1>2. CASE ReaskFilePing(c) \/ HourPasses(c)
  <2>1. PICK D \in {s.stale \ {c}, s.stale \cup {c}} : s' = [s EXCEPT !.stale = D]
    BY <1>2 DEF ReaskFilePing, HourPasses, Handler, Elapses
  <2>2. D \in SUBSET Clients
    BY <1>1, <2>1 DEF State
  <2>3. s' \in State /\ Untouched(s, s')
    BY <1>1, <2>1, <2>2 DEF State, Untouched
  <2> QED BY <2>3, UntouchedLedger
<1>3. CASE ChangeClientID(c)
  <2> DEFINE T == [s EXCEPT !.lowID = @ \cup {c}]
  <2>1. s' = T
    BY <1>3 DEF ChangeClientID, Handler
  <2>2. T \in State /\ Untouched(s, T)
    BY <1>1 DEF State, Untouched
  <2> QED BY <2>1, <2>2, UntouchedLedger
<1>4. CASE SourceAnswers(c)
  <2> DEFINE T == [s EXCEPT !.down[c] =
                     IF @ = "onqueue" THEN "downloading" ELSE "onqueue"]
  <2>1. T \in State /\ Untouched(s, T)
    BY <1>1 DEF State, DownStates, Untouched
  <2>2. s' = T
    BY <1>4 DEF SourceAnswers, Handler
  <2> QED BY <2>1, <2>2, UntouchedLedger
<1>5. MarkBanned(s, c) \in State /\ Untouched(s, MarkBanned(s, c))
  BY <1>1 DEF MarkBanned, State, UpStates, Untouched
<1>6. Ledger(MarkBanned(s, c))
  BY <1>5, UntouchedLedger
<1>7. CASE Ban(c)
  BY <1>6, <1>7 DEF Ban, Handler
<1>8. CASE BanExpires(c)
  BY <1>1, <1>8, UntouchedLedger DEF BanExpires, Elapses, State, Untouched
<1>9. ASSUME NEW S \in State, Ledger(S), NEW d \in {"none", "failed"}
      PROVE  LET T == [S EXCEPT !.down[c] = d]
             IN  Ledger(T) /\ Ledger(Disconnect(T, c))
  <2> DEFINE T == [S EXCEPT !.down[c] = d]
  <2>1. T \in State /\ Untouched(S, T)
    BY <1>9 DEF State, DownStates, Untouched
  <2>2. Ledger(T)
    BY <1>9, <2>1, UntouchedLedger
  <2> HIDE DEF T
  <2>3. Ledger(Disconnect(T, c))
    BY <2>1, <2>2, DisconnectGentle, GentleKeepsLedger
  <2> QED BY <2>2, <2>3 DEF T
<1>10. CASE SourceDropped(c)
  <2> DEFINE T == [s EXCEPT !.down[c] = "none"]
  <2>1. s' = T \/ s' = Disconnect(T, c)
    BY <1>10 DEF SourceDropped, Handler
  <2> QED BY <1>1, <1>9, <2>1
<1>11. CASE ProtocolError(c)
  <2> DEFINE T == [s EXCEPT !.down[c] = "failed"]
  <2>1. s' = Disconnect(T, c)
    BY <1>11 DEF ProtocolError, Handler
  <2> QED BY <1>1, <1>9, <2>1
<1>12. CASE BanCorrupter(c)
  <2> DEFINE T == [MarkBanned(s, c) EXCEPT !.down[c] = "failed"]
  <2>1. s' = Disconnect(T, c)
    BY <1>12 DEF BanCorrupter, Handler
  <2> QED BY <1>5, <1>6, <1>9, <2>1
<1> QED BY <1>2, <1>3, <1>4, <1>7, <1>8, <1>10, <1>11, <1>12

\* The clients that SuspendUpload moves are counted on both sides.
LEMMA PerformFileCompleteLedger ==
  ASSUME Ledger(s), NEW f \in Files, PerformFileComplete(f)
  PROVE  Ledger(s')
<1> DEFINE U == Uploaders(s, f)
           n == Cardinality(U)
           R == LeaveUpload(s, U)
           up(V) == [c \in Clients |-> IF c \in U THEN "queued" ELSE V[c]]
<1>1. s \in State
  BY DEF Ledger
<1>2. U \in SUBSET Clients /\ n \in Nat
  BY <1>1, StateTypes, FinitePart DEF Uploaders
<1>3. Gentle(s, R) /\ R \in State
  BY <1>1, <1>2, LeaveUploadGentle DEF Gentle
<1>4. Ledger(R)
  BY <1>3, GentleKeepsLedger
<1>5. PICK q \in [1..n -> U] :
        s' = [R EXCEPT !.suspended = @ \cup {f},
                       !.waiting   = @ \o q,
                       !.nWaiting  = @ + n,
                       !.up = up(@)]
  BY DEF PerformFileComplete, Handler
<1>6. q \in Seq(Clients) /\ Len(q) = n
  <2>1. q \in [1..n -> Clients]
    BY <1>2, <1>5
  <2>2. q \in Seq(Clients)
    BY <1>2, <2>1, SeqDef
  <2>3. Len(q) \in Nat /\ DOMAIN q = 1..Len(q)
    BY <2>2, LenProperties
  <2> QED BY <1>2, <2>1, <2>2, <2>3
<1> HIDE DEF R, n, U
<1>7. R.waiting \o q \in Seq(Clients) /\ Len(R.waiting \o q) = Len(R.waiting) + n
  <2>1. R.waiting \in Seq(Clients)
    BY <1>3, StateTypes
  <2> QED BY <1>6, <2>1, ConcatProperties
<1>8. R.nWaiting + n \in Int
  BY <1>2, <1>3, StateTypes
<1>9. up(R.up) \in [Clients -> UpStates]
  BY <1>3 DEF State, UpStates
<1>10. s' \in State
  BY <1>3, <1>5, <1>7, <1>8, <1>9 DEF State
<1>11. /\ s'.uploading = R.uploading /\ s'.nUploading = R.nUploading
       /\ s'.waiting = R.waiting \o q /\ s'.nWaiting = R.nWaiting + n
       /\ s'.lastHighID = R.lastHighID
  BY <1>3, <1>5 DEF State
<1>12. R.nWaiting = Len(R.waiting) /\ R.nUploading = Cardinality(R.uploading)
  BY <1>4 DEF Ledger, Counted
<1>13. Counted(s')
  BY <1>7, <1>11, <1>12 DEF Counted
<1>14. Bounded(s')
  BY <1>4, <1>11 DEF Ledger, Bounded
<1> QED BY <1>10, <1>13, <1>14 DEF Ledger

\* What happens to a file.
LEMMA FileStepLedger ==
  ASSUME Ledger(s), NEW f \in Files, FileStep(f)
  PROVE  Ledger(s')
<1>1. s \in State
  BY DEF Ledger
<1>2. CASE CompleteFileEnded(f)
  <2> DEFINE T == [s EXCEPT !.suspended = @ \ {f}, !.shared = @ \cup {f}]
  <2>1. T \in State /\ Untouched(s, T)
    BY <1>1 DEF State, Untouched
  <2> QED BY <1>2, <2>1, UntouchedLedger DEF CompleteFileEnded, Handler
<1>3. CASE Unshare(f)
  <2> DEFINE T == [s EXCEPT !.shared = @ \ {f}]
  <2>1. T \in State /\ Untouched(s, T)
    BY <1>1 DEF State, Untouched
  <2> QED BY <1>3, <2>1, UntouchedLedger DEF Unshare, Handler
<1>4. CASE Share(f)
  <2> DEFINE T == [s EXCEPT !.shared = @ \cup {f}]
  <2>1. T \in State /\ Untouched(s, T)
    BY <1>1 DEF State, Untouched
  <2> QED BY <1>4, <2>1, UntouchedLedger DEF Share, Handler
<1>5. CASE DeleteFile(f)
  <2> DEFINE R == LeaveUpload(s, Uploaders(s, f))
             file(V) == [c \in Clients |-> IF V[c] = f THEN NoFile ELSE V[c]]
             T == [R EXCEPT !.shared = @ \ {f}, !.file = file(@)]
  <2>1. Uploaders(s, f) \in SUBSET Clients
    BY <1>1, StateTypes DEF Uploaders
  <2>2. Ledger(R) /\ R \in State
    BY <1>1, <2>1, LeaveUploadGentle, GentleKeepsLedger DEF Gentle
  <2>3. s' = T
    BY <1>5 DEF DeleteFile, Handler
  <2> HIDE DEF R
  <2>4. file(R.file) \in [Clients -> Files \cup {NoFile}]
    BY <2>2 DEF State
  <2>5. T \in State /\ Untouched(R, T)
    BY <2>2, <2>4 DEF State, Untouched
  <2> QED BY <2>2, <2>3, <2>5, UntouchedLedger
<1> QED
  BY <1>2, <1>3, <1>4, <1>5, PerformFileCompleteLedger DEF FileStep

-----------------------------------------------------------------------------
(***************************************************************************)
(* The three invariants.                                                    *)
(***************************************************************************)
LedgerInv == Ledger(s) /\ feeding \in BOOLEAN /\ todo \subseteq Clients

\* At the start both lists are empty.
LEMMA InitLedger == Init => LedgerInv
<1> SUFFICES ASSUME Init PROVE LedgerInv
  OBVIOUS
<1>1. <<>> \in Seq(Clients) /\ Len(<<>>) = 0
  BY EmptySeq
<1>2. s \in State
  BY <1>1 DEF Init, State, UpStates, DownStates, Sockets
<1>3. /\ s.waiting = <<>> /\ s.nWaiting = 0
      /\ s.uploading = {} /\ s.nUploading = 0
  BY DEF Init
<1>4. Cardinality({}) = 0
  BY FS_EmptySet
<1>5. Counted(s) /\ Bounded(s)
  BY <1>1, <1>3, <1>4, ConstantsAssumption DEF Counted, Bounded
<1>6. feeding = FALSE /\ todo = {}
  BY DEF Init
<1> QED BY <1>2, <1>5, <1>6 DEF LedgerInv, Ledger

\* The invariant is inductive.
LEMMA StepLedger == LedgerInv /\ [Next]_vars => LedgerInv'
<1> SUFFICES ASSUME LedgerInv, [Next]_vars PROVE LedgerInv'
  OBVIOUS
<1> USE DEF LedgerInv
<1>1. CASE ProcessSlots
  BY <1>1, ProcessSlotsLedger DEF ProcessSlots
<1>2. ASSUME NEW c \in Clients, ProcessFeed(c) PROVE LedgerInv'
  BY <1>2, ProcessFeedLedger DEF ProcessFeed
<1>3. CASE ProcessEnd
  BY <1>3, SortLedger DEF ProcessEnd
<1>4. ASSUME NEW c \in Clients, ClientStep(c) PROVE LedgerInv'
  <2>1. UNCHANGED <<feeding, todo>>
    BY <1>4
    DEF ClientStep, Hello, HelloAnswer, SocketLost, RequestFile, StartUploadReq,
        StopUpload, ReaskFilePing, ChangeClientID, AskForDownload, SourceAnswers,
        SourceDropped, ProtocolError, BanCorrupter,
        Ban, BanExpires, CleanUpClientList, FilterQueues, HourPasses,
        Handler, Elapses
  <2>2. Ledger(s')
    BY <1>4, ConnectionStepsLedger, RequestStepsLedger, RemovalStepsLedger,
       OtherClientStepsLedger DEF ClientStep
  <2> QED BY <2>1, <2>2
<1>5. ASSUME NEW f \in Files, FileStep(f) PROVE LedgerInv'
  <2>1. UNCHANGED <<feeding, todo>>
    BY <1>5
    DEF FileStep, PerformFileComplete, CompleteFileEnded, DeleteFile, Unshare,
        Share, Handler
  <2> QED BY <1>5, <2>1, FileStepLedger
<1>6. CASE ResortQueue
  BY <1>6, SortLedger DEF ResortQueue, Handler
<1>7. CASE SecondPasses
  <2> DEFINE T == [s EXCEPT !.recent = FALSE]
  <2>1. T \in State /\ Untouched(s, T)
    BY DEF Ledger, State, Untouched
  <2>2. s' = T /\ UNCHANGED <<feeding, todo>>
    BY <1>7 DEF SecondPasses, Elapses
  <2> QED BY <2>1, <2>2, UntouchedLedger
<1>8. CASE UNCHANGED vars
  BY <1>8 DEF vars
<1> QED BY <1>1, <1>2, <1>3, <1>4, <1>5, <1>6, <1>7, <1>8 DEF Next, Process

\* The state keeps its type.
THEOREM TypeCorrect == Spec => []TypeOK
<1>1. LedgerInv => TypeOK
  BY DEF LedgerInv, Ledger, TypeOK
<1> QED BY <1>1, InitLedger, StepLedger, PTL DEF Spec

\* The statistics count the lists, whatever handlers have run.
THEOREM CountersCorrect == Spec => []CountersAgree
<1>1. LedgerInv => CountersAgree
  BY DEF LedgerInv, Ledger, Counted, CountersAgree
<1> QED BY <1>1, InitLedger, StepLedger, PTL DEF Spec

\* The comment's promise about LowID clients: never more than one extra slot.
THEOREM ExtraSlotCorrect == Spec => []ExtraSlotBound
<1>1. LedgerInv => ExtraSlotBound
  BY DEF LedgerInv, Ledger, Bounded, ExtraSlotBound
<1> QED BY <1>1, InitLedger, StepLedger, PTL DEF Spec
-----------------------------------------------------------------------------
(***************************************************************************)
(* The lists.  They agree with the client objects: nobody is in both,       *)
(* nobody waits twice, no deleted object stays in either, a state says      *)
(* which list its client is in, and the loop of CUploadQueue::Process never *)
(* loses the client its iterator will come to.                              *)
(*                                                                          *)
(* These facts are inductive only together (Orderly), and only as long as   *)
(* no ban hits the holder of an upload slot: CUpDownClient::Ban changes the *)
(* state and not the list.  The theorems assume ~BanHolders, then.          *)
(***************************************************************************)
\* The waiting clients.
Queued(S) == {S.waiting[i] : i \in 1..Len(S.waiting)}

\* NobodyWaitsTwice, of a state record.
Distinct(S) ==
  \A i, j \in 1..Len(S.waiting) : i # j => S.waiting[i] # S.waiting[j]

\* The lists, the objects, the upload states and the sockets agree, except that the
\* states of the clients in X are just being changed.
Orderly(S, X) ==
  /\ Distinct(S)
  /\ Queued(S) \cup S.uploading \subseteq S.alive
  /\ X \cap S.uploading = {}
  /\ \A c \in Clients \ X :
       c \in S.uploading <=> S.up[c] \in {"connecting", "uploading"}
  /\ \A c \in Queued(S) \ X : S.up[c] \in {"queued", "banned"}
  /\ \A c \in Clients : S.sock[c] # "none" => c \in S.alive
  /\ \A c \in Clients \ X : S.up[c] = "connecting" => S.sock[c] # "open"

\* Nothing but d's place in the lists, life, upload state and socket changes.
Frame(S, T, d) ==
  \A e \in Clients \ {d} :
    /\ e \in T.uploading <=> e \in S.uploading
    /\ e \in T.alive <=> e \in S.alive
    /\ T.up[e] = S.up[e]
    /\ T.sock[e] = S.sock[e]

\* Nothing that Orderly speaks of differs.
SameLists(S, T) ==
  /\ T.waiting = S.waiting /\ T.uploading = S.uploading
  /\ T.alive = S.alive /\ T.up = S.up /\ T.sock = S.sock

\* Clients wait, and Queued is the same as InWaiting.
LEMMA QueuedType ==
  ASSUME NEW S \in State
  PROVE  /\ Queued(S) \in SUBSET Clients
         /\ \A c \in Clients : InWaiting(S, c) <=> c \in Queued(S)
BY StateTypes, ElementOfSeq DEF Queued, InWaiting

\* A step that changes nothing of this keeps it.
LEMMA SameListsOrderly ==
  ASSUME NEW S, NEW X, Orderly(S, X), NEW T, SameLists(S, T)
  PROVE  Orderly(T, X) /\ Queued(T) = Queued(S) /\ \A d : Frame(S, T, d)
BY DEF SameLists, Orderly, Queued, Distinct, Frame

\* RemoveFromUploadQueue and the loop of SuspendUpload.
LEMMA LeaveUploadOrderly ==
  ASSUME NEW S \in State, NEW X \in SUBSET Clients, Orderly(S, X),
         NEW D \in SUBSET Clients
  PROVE  LET T == LeaveUpload(S, D)
         IN  /\ T \in State
             /\ Orderly(T, X)
             /\ T.waiting = S.waiting
             /\ T.uploading = S.uploading \ D
             /\ T.alive = S.alive /\ T.sock = S.sock
             /\ \A e \in Clients :
                  T.up[e] = IF e \in S.uploading \cap D THEN "none" ELSE S.up[e]
<1> DEFINE T == LeaveUpload(S, D)
<1>1. T \in State
  BY LeaveUploadGentle DEF Gentle
<1>2. /\ T.waiting = S.waiting /\ T.uploading = S.uploading \ D
      /\ T.alive = S.alive /\ T.sock = S.sock
      /\ T.up = [c \in Clients |->
                   IF c \in S.uploading \cap D THEN "none" ELSE S.up[c]]
  BY DEF LeaveUpload, State
<1> HIDE DEF T
<1>3. \A e \in Clients :
        T.up[e] = IF e \in S.uploading \cap D THEN "none" ELSE S.up[e]
  BY <1>2
<1>4. Queued(T) = Queued(S) /\ (Distinct(S) => Distinct(T))
  BY <1>2 DEF Queued, Distinct
<1>5. Queued(S) \in SUBSET Clients
  BY QueuedType
<1>6. Orderly(T, X)
  BY <1>2, <1>3, <1>4, <1>5 DEF Orderly
<1> QED BY <1>1, <1>2, <1>3, <1>6 DEF T

\* An object may go when it is in neither list.
LEMMA ForgetOrderly ==
  ASSUME NEW S \in State, NEW X \in SUBSET Clients, Orderly(S, X),
         NEW D \in SUBSET Clients,
         D \cap S.uploading = {}, D \cap Queued(S) = {}
  PROVE  LET T == Forget(S, D)
         IN  /\ T \in State
             /\ Orderly(T, X)
             /\ T.waiting = S.waiting
             /\ T.uploading = S.uploading
             /\ T.alive = S.alive \ D
             /\ \A e \in Clients :
                  /\ T.up[e] = IF e \in D THEN "none" ELSE S.up[e]
                  /\ T.sock[e] = IF e \in D THEN "none" ELSE S.sock[e]
<1> DEFINE T == Forget(S, D)
<1>1. T \in State
  BY ForgetGentle DEF Gentle
<1>2. /\ T.waiting = S.waiting /\ T.uploading = S.uploading
      /\ T.alive = S.alive \ D
      /\ T.up = [c \in Clients |-> IF c \in D THEN "none" ELSE S.up[c]]
      /\ T.sock = [c \in Clients |-> IF c \in D THEN "none" ELSE S.sock[c]]
  BY DEF Forget, State
<1> HIDE DEF T
<1>3. \A e \in Clients :
        /\ T.up[e] = IF e \in D THEN "none" ELSE S.up[e]
        /\ T.sock[e] = IF e \in D THEN "none" ELSE S.sock[e]
  BY <1>2
<1>4. Queued(T) = Queued(S) /\ (Distinct(S) => Distinct(T))
  BY <1>2 DEF Queued, Distinct
<1>5. Queued(S) \in SUBSET Clients
  BY QueuedType
<1>6. Orderly(T, X)
  BY <1>2, <1>3, <1>4, <1>5 DEF Orderly
<1> QED BY <1>1, <1>2, <1>3, <1>6 DEF T

\* RemoveFromWaitingQueue(iterator): nobody else moves in or out.
LEMMA TakeFromWaitingOrderly ==
  ASSUME NEW S \in State, NEW X \in SUBSET Clients, Orderly(S, X),
         NEW i \in 1..Len(S.waiting)
  PROVE  LET T == TakeFromWaiting(S, i)
             c == S.waiting[i]
         IN  /\ T \in State
             /\ Orderly(T, X)
             /\ Queued(T) = Queued(S) \ {c}
             /\ T.uploading = S.uploading
             /\ T.alive = S.alive /\ T.sock = S.sock
             /\ \A e \in Clients : T.up[e] = IF e = c THEN "none" ELSE S.up[e]
<1> DEFINE T == TakeFromWaiting(S, i)
           c == S.waiting[i]
           n == Len(S.waiting)
<1>1. T \in State
  BY TakeFromWaitingGentle DEF Gentle
<1>2. c \in Clients /\ n \in Nat
  BY StateTypes, ElementOfSeq
<1>3. /\ T.waiting = RemoveAt(S.waiting, i) /\ T.uploading = S.uploading
      /\ T.alive = S.alive /\ T.sock = S.sock
      /\ T.up = [S.up EXCEPT ![c] = "none"]
  BY DEF TakeFromWaiting, State
<1>4. /\ Len(T.waiting) = n - 1
      /\ \A k \in 1..(n - 1) :
           T.waiting[k] = IF k < i THEN S.waiting[k] ELSE S.waiting[k + 1]
  <2>1. S.waiting \in Seq(Clients)
    BY StateTypes
  <2>2. /\ Len(RemoveAt(S.waiting, i)) = n - 1
        /\ \A k \in 1..(n - 1) :
             RemoveAt(S.waiting, i)[k] =
               IF k < i THEN S.waiting[k] ELSE S.waiting[k + 1]
    BY <2>1, RemoveAtProperties
  <2> HIDE DEF T
  <2> QED BY <1>3, <2>2
<1>5. S.up \in [Clients -> UpStates]
  BY DEF State
<1> HIDE DEF T
<1>6. \A e \in Clients : T.up[e] = IF e = c THEN "none" ELSE S.up[e]
  BY <1>3, <1>5
<1>7. Distinct(S)
  BY DEF Orderly
<1>8. Distinct(T)
  BY <1>2, <1>4, <1>7 DEF Distinct
<1>9. Queued(T) = Queued(S) \ {c}
  <2>1. ASSUME NEW e \in Queued(T) PROVE e \in Queued(S) /\ e # c
    <3>1. PICK k \in 1..(n - 1) : e = T.waiting[k]
      BY <1>4, <2>1 DEF Queued
    <3>2. ASSUME NEW m \in 1..n, m # i, e = S.waiting[m]
          PROVE  e \in Queued(S) /\ e # c
      BY <1>7, <3>2 DEF Queued, Distinct
    <3>3. CASE k < i
      <4>1. k \in 1..n /\ k # i
        BY <1>2, <3>3
      <4> QED BY <1>4, <3>1, <3>2, <3>3, <4>1
    <3>4. CASE ~(k < i)
      <4>1. k + 1 \in 1..n /\ k + 1 # i
        BY <1>2, <3>4
      <4> QED BY <1>4, <3>1, <3>2, <3>4, <4>1
    <3> QED BY <3>3, <3>4
  <2>2. ASSUME NEW e \in Queued(S), e # c PROVE e \in Queued(T)
    <3>1. PICK k \in 1..n : e = S.waiting[k]
      BY <2>2 DEF Queued
    <3>2. CASE k < i
      BY <1>2, <1>4, <3>1, <3>2 DEF Queued
    <3>3. CASE k > i
      <4>1. k - 1 \in 1..(n - 1) /\ ~(k - 1 < i) /\ (k - 1) + 1 = k
        BY <1>2, <3>1, <3>3
      <4>2. T.waiting[k - 1] = e
        BY <1>4, <3>1, <4>1
      <4> QED BY <1>4, <4>1, <4>2 DEF Queued
    <3>4. k # i
      BY <2>2, <3>1
    <3> QED BY <1>2, <3>1, <3>2, <3>3, <3>4
  <2> QED BY <2>1, <2>2
<1>10. Queued(S) \in SUBSET Clients /\ c \in Queued(S)
  BY QueuedType DEF Queued
<1>11. Orderly(T, X)
  BY <1>3, <1>6, <1>8, <1>9, <1>10 DEF Orderly
<1> QED BY <1>1, <1>3, <1>6, <1>9, <1>11 DEF T

-----------------------------------------------------------------------------
\* New ranks change nothing of this.
LEMMA RenumberOrderly ==
  ASSUME NEW S \in State, NEW X \in SUBSET Clients, Orderly(S, X),
         NEW i \in Nat \ {0}
  PROVE  LET T == Renumber(S, i)
         IN  T \in State /\ Orderly(T, X) /\ SameLists(S, T)
<1>1. Renumber(S, i) \in State
  BY RenumberGentle DEF Gentle
<1>2. SameLists(S, Renumber(S, i))
  BY DEF Renumber, SameLists, State
<1> QED BY <1>1, <1>2, SameListsOrderly

\* RemoveFromWaitingQueue(client): one removal is enough.
LEMMA RemoveFromWaitingQueueOrderly ==
  ASSUME NEW S \in State, NEW X \in SUBSET Clients, Orderly(S, X),
         NEW c \in Clients
  PROVE  LET T == RemoveFromWaitingQueue(S, c)
         IN  /\ T \in State
             /\ Orderly(T, X)
             /\ Queued(T) = Queued(S) \ {c}
             /\ T.uploading = S.uploading
             /\ T.alive = S.alive /\ T.sock = S.sock
             /\ Frame(S, T, c)
             /\ T.up[c] = IF c \in Queued(S) THEN "none" ELSE S.up[c]
<1> DEFINE T == RemoveFromWaitingQueue(S, c)
<1>1. CASE InWaiting(S, c)
  <2> DEFINE i == Position(S, c)
             Q == TakeFromWaiting(S, i)
  <2>1. i \in 1..Len(S.waiting) /\ S.waiting[i] = c /\ i \in Nat \ {0}
    BY <1>1, PositionProperties, StateTypes
  <2>2. /\ Q \in State
        /\ Orderly(Q, X)
        /\ Queued(Q) = Queued(S) \ {c}
        /\ Q.uploading = S.uploading
        /\ Q.alive = S.alive /\ Q.sock = S.sock
        /\ \A e \in Clients : Q.up[e] = IF e = c THEN "none" ELSE S.up[e]
    BY <2>1, TakeFromWaitingOrderly
  <2>3. T = Renumber(Q, i)
    BY <1>1 DEF RemoveFromWaitingQueue
  <2> HIDE DEF Q, T, i
  <2>4. T \in State /\ Orderly(T, X) /\ SameLists(Q, T)
    BY <2>1, <2>2, <2>3, RenumberOrderly
  <2>5. Queued(T) = Queued(Q)
    BY <2>4 DEF SameLists, Queued
  <2>6. c \in Queued(S)
    BY <1>1, QueuedType
  <2> QED BY <2>2, <2>4, <2>5, <2>6 DEF SameLists, Frame, T
<1>2. CASE ~InWaiting(S, c)
  <2>1. T = S /\ c \notin Queued(S)
    BY <1>2, QueuedType DEF RemoveFromWaitingQueue
  <2> QED BY <2>1 DEF Frame
<1> QED BY <1>1, <1>2

\* Safe_Delete empties both lists of the client.
LEMMA SafeDeleteOrderly ==
  ASSUME NEW S \in State, NEW X \in SUBSET Clients, Orderly(S, X),
         NEW c \in S.alive
  PROVE  LET T == SafeDelete(S, c)
         IN  /\ T \in State
             /\ Orderly(T, X)
             /\ Queued(T) = Queued(S) \ {c}
             /\ T.alive = S.alive \ {c}
             /\ c \notin T.uploading
             /\ T.up[c] = "none" /\ T.sock[c] = "none"
             /\ Frame(S, T, c)
<1> DEFINE R == LeaveUpload(S, {c})
           Q == RemoveFromWaitingQueue(R, c)
           T == Forget(Q, {c})
<1>0. c \in Clients
  BY DEF State
<1>1. /\ R \in State /\ Orderly(R, X)
      /\ R.waiting = S.waiting
      /\ R.uploading = S.uploading \ {c}
      /\ R.alive = S.alive /\ R.sock = S.sock
      /\ \A e \in Clients :
           R.up[e] = IF e \in S.uploading \cap {c} THEN "none" ELSE S.up[e]
  BY <1>0, LeaveUploadOrderly
<1>2. Queued(R) = Queued(S)
  BY <1>1 DEF Queued
<1> HIDE DEF R
<1>3. /\ Q \in State /\ Orderly(Q, X)
      /\ Queued(Q) = Queued(R) \ {c}
      /\ Q.uploading = R.uploading
      /\ Q.alive = R.alive /\ Q.sock = R.sock
      /\ Frame(R, Q, c)
  BY <1>0, <1>1, RemoveFromWaitingQueueOrderly
<1> HIDE DEF Q
<1>4. /\ T \in State /\ Orderly(T, X)
      /\ T.waiting = Q.waiting
      /\ T.uploading = Q.uploading
      /\ T.alive = Q.alive \ {c}
      /\ \A e \in Clients :
           /\ T.up[e] = IF e \in {c} THEN "none" ELSE Q.up[e]
           /\ T.sock[e] = IF e \in {c} THEN "none" ELSE Q.sock[e]
  BY <1>0, <1>1, <1>3, ForgetOrderly
<1>5. Queued(T) = Queued(Q)
  BY <1>4 DEF Queued
<1>6. SafeDelete(S, c) = T
  BY DEF SafeDelete, RemoveFromUploadQueue, R, Q
<1> HIDE DEF T
<1>7. Frame(S, T, c)
  BY <1>1, <1>3, <1>4 DEF Frame
<1> QED BY <1>0, <1>1, <1>2, <1>3, <1>4, <1>5, <1>6, <1>7

\* Disconnected: a slot that was being fed is given back.
LEMMA AfterDisconnectOrderly ==
  ASSUME NEW S \in State, NEW X \in SUBSET Clients, Orderly(S, X),
         NEW c \in Clients
  PROVE  LET T == AfterDisconnect(S, c)
         IN  /\ T \in State
             /\ Orderly(T, X)
             /\ Queued(T) = Queued(S)
             /\ T.alive = S.alive
             /\ T.uploading \subseteq S.uploading
             /\ T.sock[c] = "none"
             /\ S.up[c] # "uploading" => T.up[c] = S.up[c] /\ T.uploading = S.uploading
             /\ Frame(S, T, c)
<1> DEFINE R == IF S.up[c] = "uploading" THEN LeaveUpload(S, {c}) ELSE S
           T == AfterDisconnect(S, c)
<1>0. \A D : D = {c} => D \in SUBSET Clients
  OBVIOUS
<1>1. /\ R \in State /\ Orderly(R, X)
      /\ R.waiting = S.waiting
      /\ R.uploading \subseteq S.uploading
      /\ R.alive = S.alive /\ R.sock = S.sock
      /\ S.up[c] # "uploading" => R = S
      /\ \A e \in Clients \ {c} :
           R.up[e] = S.up[e] /\ (e \in R.uploading <=> e \in S.uploading)
  <2>1. CASE S.up[c] = "uploading"
    BY <2>1, LeaveUploadOrderly
  <2>2. CASE S.up[c] # "uploading"
    BY <2>2
  <2> QED BY <2>1, <2>2
<1>2. T = [R EXCEPT !.sock[c] = "none",
                    !.down[c] = CASE @ = "downloading" -> "onqueue"
                                  [] @ = "connected"   -> "none"
                                  [] OTHER             -> @]
  BY DEF AfterDisconnect, RemoveFromUploadQueue
<1>3. T \in State
  BY AfterDisconnectGentle DEF Gentle
<1> HIDE DEF R, T
<1>4. /\ T.waiting = R.waiting /\ T.uploading = R.uploading
      /\ T.alive = R.alive /\ T.up = R.up
      /\ \A e \in Clients : T.sock[e] = IF e = c THEN "none" ELSE R.sock[e]
  BY <1>1, <1>2 DEF State
<1>5. Queued(T) = Queued(R) /\ Queued(R) = Queued(S) /\ (Distinct(R) => Distinct(T))
  BY <1>1, <1>4 DEF Queued, Distinct
<1>6. Orderly(T, X)
  BY <1>1, <1>4, <1>5 DEF Orderly
<1>7. Frame(S, T, c)
  BY <1>1, <1>4 DEF Frame
<1> QED BY <1>1, <1>3, <1>4, <1>5, <1>6, <1>7 DEF T

\* Disconnected and the Safe_Delete that may follow.
LEMMA DisconnectOrderly ==
  ASSUME NEW S \in State, NEW X \in SUBSET Clients, Orderly(S, X),
         NEW c \in Clients
  PROVE  LET T == Disconnect(S, c)
         IN  /\ T \in State
             /\ Orderly(T, X)
             /\ Queued(T) \subseteq Queued(S)
             /\ Frame(S, T, c)
             /\ T.uploading \subseteq S.uploading
             /\ c \notin T.alive =>
                  T.up[c] \in {"none", S.up[c]} /\ (c \in S.alive => T.up[c] = "none")
             /\ c \in T.alive => T.sock[c] = "none"
             /\ c \in T.alive /\ S.up[c] # "uploading" => T.up[c] = S.up[c]
<1> DEFINE A == AfterDisconnect(S, c)
           T == Disconnect(S, c)
<1>1. /\ A \in State /\ Orderly(A, X)
      /\ Queued(A) = Queued(S)
      /\ A.alive = S.alive
      /\ A.uploading \subseteq S.uploading
      /\ A.sock[c] = "none"
      /\ S.up[c] # "uploading" => A.up[c] = S.up[c]
      /\ Frame(S, A, c)
  BY AfterDisconnectOrderly
<1>2. CASE c \notin S.alive
  <2>1. T = S
    BY <1>2 DEF Disconnect
  <2> QED BY <1>2, <2>1 DEF Frame
<1>3. CASE c \in S.alive /\ ~Needless(S, c)
  <2>1. T = A
    BY <1>3 DEF Disconnect
  <2> QED BY <1>1, <1>3, <2>1
<1>4. CASE c \in S.alive /\ Needless(S, c)
  <2>1. T = SafeDelete(A, c)
    BY <1>4 DEF Disconnect
  <2> HIDE DEF A, T
  <2>2. /\ T \in State /\ Orderly(T, X)
        /\ Queued(T) = Queued(A) \ {c}
        /\ T.alive = A.alive \ {c}
        /\ c \notin T.uploading
        /\ T.up[c] = "none"
        /\ Frame(A, T, c)
    BY <1>1, <1>4, <2>1, SafeDeleteOrderly
  <2>3. Frame(S, T, c)
    BY <1>1, <2>2 DEF Frame
  <2>4. T.uploading \subseteq S.uploading
    BY <1>1, <2>2 DEF Frame, State
  <2> QED BY <1>1, <1>4, <2>2, <2>3, <2>4 DEF T
<1> QED BY <1>2, <1>3, <1>4

-----------------------------------------------------------------------------
\* TryToConnect: the client goes, goes on, or is dialled.
LEMMA TryToConnectOrderly ==
  ASSUME NEW S \in State, NEW X \in SUBSET Clients, Orderly(S, X),
         NEW c \in S.alive
  PROVE  LET T == TryToConnect(S, c)
         IN  /\ T \in State
             /\ Orderly(T, X)
             /\ Queued(T) \subseteq Queued(S)
             /\ Frame(S, T, c)
             /\ T.uploading \subseteq S.uploading
             /\ c \notin T.alive => T.up[c] = "none"
             /\ c \in T.alive /\ S.up[c] # "uploading" /\ ~IsConnected(S, c) =>
                  T.up[c] = S.up[c] /\ T.sock[c] # "open"
<1> DEFINE T == TryToConnect(S, c)
           O == [S EXCEPT !.sock[c] = "opening"]
           E == ConnectionEstablished(S, c)
<1>0. c \in Clients
  BY DEF State
<1>1. CASE c \in Unreachable \/ c \in S.banned
  <2>1. T = Disconnect(S, c)
    BY <1>1 DEF TryToConnect
  <2> HIDE DEF T
  <2> QED BY <1>0, <2>1, DisconnectOrderly DEF T
<1>2. CASE ~(c \in Unreachable \/ c \in S.banned) /\ IsConnected(S, c)
  <2>1. T = E
    BY <1>2 DEF TryToConnect
  <2>2. E \in State
    BY <1>0, ConnectionEstablishedGentle DEF Gentle
  <2>3. ~(S.up[c] = "connecting" /\ c \in S.uploading)
    BY <1>0, <1>2 DEF Orderly, IsConnected
  <2>4. SameLists(S, E)
    BY <1>0, <2>3 DEF ConnectionEstablished, SameLists, State
  <2> HIDE DEF E
  <2>5. Orderly(E, X) /\ Queued(E) = Queued(S) /\ Frame(S, E, c)
    BY <2>4, SameListsOrderly
  <2>6. E.uploading = S.uploading /\ E.alive = S.alive
    BY <2>4 DEF SameLists
  <2> QED BY <1>2, <2>1, <2>2, <2>5, <2>6
<1>3. CASE ~(c \in Unreachable \/ c \in S.banned) /\ ~IsConnected(S, c)
  <2>1. T = O
    BY <1>3 DEF TryToConnect
  <2>2. O \in State
    BY <1>0 DEF State, Sockets
  <2>3. /\ O.waiting = S.waiting /\ O.uploading = S.uploading
        /\ O.alive = S.alive /\ O.up = S.up
        /\ \A e \in Clients : O.sock[e] = IF e = c THEN "opening" ELSE S.sock[e]
    BY <1>0 DEF State
  <2> HIDE DEF O
  <2>4. Queued(O) = Queued(S) /\ (Distinct(S) => Distinct(O))
    BY <2>3 DEF Queued, Distinct
  <2>5. Orderly(O, X)
    BY <2>3, <2>4 DEF Orderly
  <2> QED BY <1>0, <2>1, <2>2, <2>3, <2>4, <2>5 DEF Frame
<1> QED BY <1>1, <1>2, <1>3

\* AddUpNextClient, between setting the state and entering the list.
LEMMA GiveSlotOrderly ==
  ASSUME NEW S \in State, Orderly(S, {}), NEW c \in S.alive, c \notin Queued(S)
  PROVE  LET T == GiveSlot(S, c)
         IN  /\ T \in State
             /\ Orderly(T, {})
             /\ Queued(T) \subseteq Queued(S)
             /\ Frame(S, T, c)
<1> DEFINE T == GiveSlot(S, c)
           Up(u) == [S EXCEPT !.up[c] = u]
<1>0. c \in Clients
  BY DEF State
<1>1. T \in State
  BY <1>0, GiveSlotAdmits DEF Admits
<1>2. CASE c \in S.uploading
  <2>1. T = S
    BY <1>2 DEF GiveSlot
  <2> QED BY <2>1 DEF Frame
<1>3. CASE c \notin S.uploading
  <2>1. ASSUME NEW u \in UpStates
        PROVE  /\ Up(u) \in State
               /\ Orderly(Up(u), {c})
               /\ Queued(Up(u)) = Queued(S)
               /\ Frame(S, Up(u), c)
               /\ Up(u).up[c] = u
               /\ Up(u).sock = S.sock /\ Up(u).alive = S.alive
    <3>1. Up(u) \in State
      BY <1>0 DEF State
    <3>2. /\ Up(u).waiting = S.waiting /\ Up(u).uploading = S.uploading
          /\ Up(u).alive = S.alive /\ Up(u).sock = S.sock
          /\ \A e \in Clients : Up(u).up[e] = IF e = c THEN u ELSE S.up[e]
      BY <1>0 DEF State
    <3> HIDE DEF Up
    <3>3. Queued(Up(u)) = Queued(S) /\ (Distinct(S) => Distinct(Up(u)))
      BY <3>2 DEF Queued, Distinct
    <3>4. Queued(S) \in SUBSET Clients
      BY QueuedType
    <3>5. Orderly(Up(u), {c})
      BY <1>0, <1>3, <3>2, <3>3, <3>4 DEF Orderly
    <3> QED BY <1>0, <3>1, <3>2, <3>3, <3>5 DEF Frame
  \* A client that is alive, waits nowhere and has the right state gets its place.
  <2>2. ASSUME NEW Q \in State, Orderly(Q, {c}), c \in Q.alive, Frame(S, Q, c),
               Queued(Q) \subseteq Queued(S),
               \/ Q.up[c] = "uploading"
               \/ Q.up[c] = "connecting" /\ Q.sock[c] # "open"
        PROVE  /\ Orderly(Enlist(Q, c), {})
               /\ Queued(Enlist(Q, c)) \subseteq Queued(S)
               /\ Frame(S, Enlist(Q, c), c)
    <3> DEFINE N == Enlist(Q, c)
    <3>1. /\ N.waiting = Q.waiting /\ N.uploading = Q.uploading \cup {c}
          /\ N.alive = Q.alive /\ N.sock = Q.sock /\ N.up = Q.up
      BY <2>2 DEF Enlist, State
    <3> HIDE DEF N
    <3>2. Queued(N) = Queued(Q) /\ (Distinct(Q) => Distinct(N))
      BY <3>1 DEF Queued, Distinct
    <3>3. Orderly(N, {})
      BY <1>0, <2>2, <3>1, <3>2 DEF Orderly
    <3>4. Frame(S, N, c)
      BY <2>2, <3>1 DEF Frame
    <3> QED BY <2>2, <3>2, <3>3, <3>4 DEF N
  <2>3. CASE IsConnected(S, c)
    <3>1. T = Enlist(Up("uploading"), c) /\ "uploading" \in UpStates
      BY <1>3, <2>3 DEF GiveSlot, UpStates
    <3> HIDE DEF Up
    <3> QED BY <1>0, <1>1, <2>1, <2>2, <3>1
  <2>4. CASE ~IsConnected(S, c)
    <3> DEFINE U == Up("connecting")
               Q == TryToConnect(U, c)
    <3>1. T = IF c \in Q.alive THEN Enlist(Q, c) ELSE Q
      BY <1>3, <2>4 DEF GiveSlot
    <3>2. "connecting" \in UpStates
      BY DEF UpStates
    <3> HIDE DEF Up
    <3>3. /\ U \in State /\ Orderly(U, {c})
          /\ Queued(U) = Queued(S) /\ Frame(S, U, c)
          /\ U.up[c] = "connecting"
          /\ U.sock = S.sock /\ U.alive = S.alive
      BY <2>1, <3>2
    <3>4. ~IsConnected(U, c)
      BY <2>4, <3>3 DEF IsConnected
    <3> HIDE DEF U, Q
    <3>5. /\ Q \in State /\ Orderly(Q, {c})
          /\ Queued(Q) \subseteq Queued(U)
          /\ Frame(U, Q, c)
          /\ c \notin Q.alive => Q.up[c] = "none"
          /\ c \in Q.alive => Q.up[c] = "connecting" /\ Q.sock[c] # "open"
      BY <1>0, <3>3, <3>4, TryToConnectOrderly DEF Q
    <3>6. Frame(S, Q, c) /\ Queued(Q) \subseteq Queued(S)
      BY <3>3, <3>5 DEF Frame
    <3>7. CASE c \in Q.alive
      BY <1>1, <2>2, <3>1, <3>5, <3>6, <3>7
    <3>8. CASE c \notin Q.alive
      <4>1. Orderly(Q, {})
        <5>1. c \notin Queued(Q)
          BY <3>8, <3>5 DEF Orderly
        <5> QED BY <1>0, <3>5, <3>8, <5>1 DEF Orderly
      <4> QED BY <1>1, <3>1, <3>6, <3>8, <4>1
    <3> QED BY <3>7, <3>8
  <2> QED BY <2>3, <2>4
<1> QED BY <1>2, <1>3

\* The directadd branch.
LEMMA AddDirectlyOrderly ==
  ASSUME NEW S \in State, Orderly(S, {}), NEW c \in S.alive, c \notin Queued(S)
  PROVE  LET T == AddDirectly(S, c)
         IN  /\ T \in State
             /\ Orderly(T, {})
             /\ Queued(T) \subseteq Queued(S)
             /\ Frame(S, T, c)
BY GiveSlotOrderly DEF AddDirectly, Frame

-----------------------------------------------------------------------------
\* The first pass keeps the survivors, once each, and deletes only purged ones.
LEMMA PurgeAndSortOrderly ==
  ASSUME NEW S \in State, NEW X \in SUBSET Clients, Orderly(S, X),
         NEW K \in SUBSET (1..Len(S.waiting)), NEW p \in Orders(S, K)
  PROVE  LET T == PurgeAndSort(S, K, p)
         IN  /\ T \in State
             /\ Orderly(T, X)
             /\ Queued(T) \subseteq Queued(S)
             /\ T.uploading = S.uploading
             /\ \A c \in Clients : S.sock[c] # "none" => c \in T.alive \/ c \notin S.alive
             /\ \A c \in Clients : T.sock[c] \in {S.sock[c], "none"}
<1> DEFINE n == Cardinality(K)
           P == {S.waiting[i] : i \in (1..Len(S.waiting)) \ K}
           w == [i \in 1..n |-> S.waiting[p[i]]]
           up == [c \in Clients |-> IF c \in P THEN "none" ELSE S.up[c]]
           rank == [c \in Clients |-> IF c \in P THEN 0 ELSE S.rank[c]]
           ban == S.banned \ {c \in P : IsBanned(S, c)}
           Q == [S EXCEPT !.waiting  = w,
                          !.nWaiting = @ - (Len(S.waiting) - n),
                          !.banned   = ban,
                          !.up       = up,
                          !.rank     = rank]
           O == Orphans(Q, P)
           L == LeaveUpload(Q, O)
<1>1. n \in Nat
  <2>1. IsFiniteSet(1..Len(S.waiting))
    BY FS_Interval, StateTypes
  <2> QED BY <2>1, FS_Subset, FS_CardinalityType
<1>2. /\ p \in [1..n -> K]
      /\ \A i, j \in 1..n : i # j => p[i] # p[j]
  BY DEF Orders
<1>3. w \in [1..n -> Clients] /\ \A i \in 1..n : w[i] = S.waiting[p[i]]
  BY <1>2, StateTypes, ElementOfSeq
<1>4. w \in Seq(Clients) /\ Len(w) = n
  <2>1. w \in Seq(Clients)
    BY <1>1, <1>3, SeqDef
  <2>2. Len(w) \in Nat /\ DOMAIN w = 1..Len(w)
    BY <2>1, LenProperties
  <2> QED BY <1>1, <1>3, <2>1, <2>2
<1>5. P \in SUBSET Clients /\ P \subseteq Queued(S)
  BY StateTypes, ElementOfSeq DEF Queued
<1>6. /\ up \in [Clients -> UpStates] /\ rank \in [Clients -> Nat]
      /\ ban \in SUBSET Clients
  BY DEF State, UpStates
<1>7. S.nWaiting - (Len(S.waiting) - n) \in Int
  BY <1>1, StateTypes
<1>8. \A c \in Clients : up[c] = IF c \in P THEN "none" ELSE S.up[c]
  OBVIOUS
<1> HIDE DEF w, up, rank, ban
<1>9. Q \in State
  BY <1>4, <1>6, <1>7 DEF State
<1>10. /\ Q.uploading = S.uploading /\ Q.waiting = w
       /\ Q.alive = S.alive /\ Q.sock = S.sock /\ Q.up = up
  BY DEF State
<1> HIDE DEF Q
<1>11. Distinct(S) /\ Queued(S) \in SUBSET Clients
  BY QueuedType DEF Orderly
<1>12. Distinct(Q)
  <2>1. ASSUME NEW i \in 1..n, NEW j \in 1..n, i # j PROVE w[i] # w[j]
    <3>1. p[i] # p[j] /\ p[i] \in 1..Len(S.waiting) /\ p[j] \in 1..Len(S.waiting)
      BY <1>2, <2>1
    <3>2. S.waiting[p[i]] # S.waiting[p[j]]
      BY <1>11, <3>1 DEF Distinct
    <3> QED BY <1>3, <3>2
  <2> QED BY <1>4, <1>10, <2>1 DEF Distinct
<1>13. Queued(Q) \subseteq Queued(S) /\ Queued(Q) \cap P = {}
  <2>1. ASSUME NEW c \in Queued(Q) PROVE c \in Queued(S) /\ c \notin P
    <3>1. PICK i \in 1..n : c = S.waiting[p[i]]
      BY <1>3, <1>4, <1>10, <2>1 DEF Queued
    <3>2. p[i] \in K /\ p[i] \in 1..Len(S.waiting)
      BY <1>2, <3>1
    <3> QED BY <1>11, <3>1, <3>2 DEF Queued, Distinct
  <2> QED BY <2>1
<1> HIDE DEF P
<1>14. P \cap S.uploading = {}
  <2>1. ASSUME NEW c \in P PROVE c \notin S.uploading
    <3>1. c \in Queued(S) /\ c \in Clients
      BY <1>5, <1>11
    <3>2. CASE c \in X
      BY <3>2 DEF Orderly
    <3>3. CASE c \notin X
      BY <3>1, <3>3 DEF Orderly
    <3> QED BY <3>2, <3>3
  <2> QED BY <2>1
<1>15. Orderly(Q, X)
  BY <1>5, <1>8, <1>10, <1>11, <1>12, <1>13, <1>14 DEF Orderly
<1>16. O \in SUBSET P /\ \A c \in O : S.sock[c] = "none"
  BY <1>10 DEF Orphans
<1> HIDE DEF O
<1>17. O \in SUBSET Clients
  BY <1>5, <1>16
<1>18. /\ L \in State /\ Orderly(L, X)
       /\ L.waiting = Q.waiting /\ L.uploading = Q.uploading \ O
       /\ L.alive = Q.alive /\ L.sock = Q.sock
  BY <1>9, <1>15, <1>17, LeaveUploadOrderly
<1> HIDE DEF L
<1>19. Queued(L) = Queued(Q) /\ L.uploading = S.uploading
  BY <1>10, <1>14, <1>16, <1>18 DEF Queued
<1> DEFINE T == Forget(L, O)
<1>20. /\ T \in State /\ Orderly(T, X)
       /\ T.waiting = L.waiting
       /\ T.uploading = L.uploading
       /\ T.alive = L.alive \ O
       /\ \A e \in Clients :
            /\ T.up[e] = IF e \in O THEN "none" ELSE L.up[e]
            /\ T.sock[e] = IF e \in O THEN "none" ELSE L.sock[e]
  <2>1. O \cap L.uploading = {} /\ O \cap Queued(L) = {}
    BY <1>13, <1>14, <1>16, <1>19
  <2> QED BY <1>17, <1>18, <2>1, ForgetOrderly
<1>21. PurgeAndSort(S, K, p) = T
  BY DEF PurgeAndSort, w, up, rank, ban, Q, O, P, L
<1> HIDE DEF T
<1>22. Queued(T) = Queued(L)
  BY <1>20 DEF Queued
<1>23. \A c \in Clients : S.sock[c] # "none" => c \in T.alive \/ c \notin S.alive
  BY <1>10, <1>16, <1>18, <1>20
<1>24. \A c \in Clients : T.sock[c] \in {S.sock[c], "none"}
  BY <1>10, <1>18, <1>20
<1> QED BY <1>13, <1>19, <1>20, <1>21, <1>22, <1>23, <1>24

\* Both passes.
LEMMA SortedOrderly ==
  ASSUME NEW S \in State, NEW X \in SUBSET Clients, Orderly(S, X),
         NEW T \in Sorted(S)
  PROVE  /\ T \in State
         /\ Orderly(T, X)
         /\ Queued(T) \subseteq Queued(S)
         /\ T.uploading = S.uploading
<1> DEFINE K == {i \in 1..Len(S.waiting) : ~Purgeable(S, S.waiting[i])}
<1>1. PICK p \in Orders(S, K) : T = RankAndMark(PurgeAndSort(S, K, p))
  BY DEF Sorted
<1> DEFINE R == PurgeAndSort(S, K, p)
           a == (R.addNext \ {R.waiting[i] : i \in 1..Len(R.waiting)})
                  \cup {R.waiting[i] : i \in 1..(Best(R) - 1)}
           M == [R EXCEPT !.addNext = a]
<1>2. K \in SUBSET (1..Len(S.waiting))
  OBVIOUS
<1> HIDE DEF K
<1>3. /\ R \in State /\ Orderly(R, X)
      /\ Queued(R) \subseteq Queued(S) /\ R.uploading = S.uploading
  BY <1>2, PurgeAndSortOrderly
<1> HIDE DEF R
<1>4. a \in SUBSET Clients
  <2>1. R.addNext \in SUBSET Clients
    BY <1>3 DEF State
  <2>2. {R.waiting[i] : i \in 1..(Best(R) - 1)} \in SUBSET Clients
    BY <1>3, BestProperties, StateTypes, ElementOfSeq
  <2> QED BY <2>1, <2>2
<1> HIDE DEF a
<1>5. M \in State /\ SameLists(R, M)
  BY <1>3, <1>4 DEF State, SameLists
<1>6. T = Renumber(M, 1)
  BY <1>1 DEF RankAndMark, M, a, R
<1> HIDE DEF M
<1>7. Orderly(M, X) /\ Queued(M) = Queued(R) /\ M.uploading = R.uploading
  BY <1>3, <1>5, SameListsOrderly DEF SameLists
<1>8. T \in State /\ Orderly(T, X) /\ SameLists(M, T)
  BY <1>5, <1>6, <1>7, RenumberOrderly
<1> QED BY <1>3, <1>7, <1>8, SameListsOrderly DEF SameLists

\* The best client leaves one list before it enters the other.
LEMMA AddUpNextClientOrderly ==
  ASSUME NEW S \in State, Orderly(S, {}), NEW T \in AddUpNextClient(S)
  PROVE  T \in State /\ Orderly(T, {})
<1>1. PICK Q \in Sorted(S) :
        T = IF Best(Q) > Len(Q.waiting) THEN Q
            ELSE GiveSlot(
                   [Renumber(TakeFromWaiting(Q, Best(Q)), Best(Q))
                      EXCEPT !.lastHighID = TRUE], Q.waiting[Best(Q)])
  BY DEF AddUpNextClient
<1>2. Q \in State /\ Orderly(Q, {})
  BY SortedOrderly
<1>3. CASE Best(Q) > Len(Q.waiting)
  BY <1>1, <1>2, <1>3
<1>4. CASE ~(Best(Q) > Len(Q.waiting))
  <2> DEFINE b == Best(Q)
             c == Q.waiting[b]
             D == TakeFromWaiting(Q, b)
             R == Renumber(D, b)
             H == [R EXCEPT !.lastHighID = TRUE]
  <2>1. b \in 1..Len(Q.waiting) /\ b \in Nat \ {0}
    BY <1>2, <1>4, BestProperties, StateTypes
  <2>2. c \in Q.alive /\ c \in Clients
    BY <1>2, <2>1, StateTypes, ElementOfSeq DEF Orderly, Queued
  <2>3. /\ D \in State /\ Orderly(D, {})
        /\ Queued(D) = Queued(Q) \ {c} /\ D.alive = Q.alive
    BY <1>2, <2>1, TakeFromWaitingOrderly
  <2>4. T = GiveSlot(H, c)
    BY <1>1, <1>4
  <2> HIDE DEF D, b, c
  <2>5. R \in State /\ Orderly(R, {}) /\ SameLists(D, R)
    BY <2>1, <2>3, RenumberOrderly
  <2> HIDE DEF R
  <2>6. H \in State /\ SameLists(R, H)
    BY <2>5 DEF State, SameLists
  <2>7. Orderly(H, {}) /\ Queued(H) = Queued(D) /\ H.alive = D.alive
    BY <2>3, <2>5, <2>6, SameListsOrderly DEF SameLists
  <2> HIDE DEF H
  <2> QED BY <2>2, <2>3, <2>4, <2>6, <2>7, GiveSlotOrderly
<1> QED BY <1>3, <1>4

-----------------------------------------------------------------------------
\* Nobody but c loses a slot: what the iterator of Process depends on.
Keeps(S, T, c) == S.uploading \ {c} \subseteq T.uploading

\* A step about c alone keeps the others.
LEMMA FrameKeeps ==
  ASSUME NEW S \in State, NEW T, NEW c, Frame(S, T, c)
  PROVE  Keeps(S, T, c)
BY DEF Frame, Keeps, State

\* A marked client goes from the one list to the other.
LEMMA ClaimSlotOrderly ==
  ASSUME NEW S \in State, Orderly(S, {}), NEW c \in S.alive
  PROVE  LET T == ClaimSlot(S, c)
         IN  T \in State /\ Orderly(T, {}) /\ Keeps(S, T, c)
<1> DEFINE may == /\ c \in S.addNext
                  /\ Cardinality(S.uploading) <
                       MaxSlots + (IF S.lastHighID THEN 1 ELSE 0)
           U == [S EXCEPT !.addNext = @ \ {c}]
           R == RemoveFromWaitingQueue(U, c)
           A == AddDirectly(R, c)
           T == [A EXCEPT !.lastHighID = FALSE]
<1>0. c \in Clients
  BY DEF State
<1>1. CASE ~may
  BY <1>1 DEF ClaimSlot, Keeps
<1>2. CASE may
  <2>1. ClaimSlot(S, c) = T
    BY <1>2 DEF ClaimSlot
  <2>2. U \in State /\ SameLists(S, U)
    BY DEF State, SameLists
  <2>3. Orderly(U, {}) /\ U.alive = S.alive /\ U.uploading = S.uploading
    BY <2>2, SameListsOrderly DEF SameLists
  <2> HIDE DEF U
  <2>4. /\ R \in State /\ Orderly(R, {})
        /\ Queued(R) = Queued(U) \ {c}
        /\ R.uploading = U.uploading /\ R.alive = U.alive
    BY <1>0, <2>2, <2>3, RemoveFromWaitingQueueOrderly
  <2> HIDE DEF R
  <2>5. A \in State /\ Orderly(A, {}) /\ Frame(R, A, c)
    BY <2>3, <2>4, AddDirectlyOrderly
  <2> HIDE DEF A
  <2>6. T \in State /\ SameLists(A, T)
    BY <2>5 DEF State, SameLists
  <2>7. Orderly(T, {}) /\ T.uploading = A.uploading
    BY <2>5, <2>6, SameListsOrderly DEF SameLists
  <2>8. Keeps(R, A, c)
    BY <2>4, <2>5, FrameKeeps
  <2> QED BY <2>1, <2>3, <2>4, <2>6, <2>7, <2>8 DEF Keeps
<1> QED BY <1>1, <1>2

\* A newcomer enters one list; sorting may delete others, but no slot holder.
LEMMA EnqueueOrderly ==
  ASSUME NEW S \in State, Orderly(S, {}), NEW c \in S.alive,
         c \notin Queued(S), S.up[c] # "connecting",
         NEW crowded, NEW T \in Enqueue(S, c, crowded)
  PROVE  T \in State /\ Orderly(T, {}) /\ Keeps(S, T, c)
<1> DEFINE no == crowded \/ S.up[c] = "uploading" \/ Len(S.waiting) >= QueueSize
           now == /\ Len(S.waiting) = 0
                  /\ ~S.recent
                  /\ Cardinality(S.uploading) < MaxSlots
                  /\ ~TooManySockets(S)
<1>0. c \in Clients
  BY DEF State
<1>1. CASE no
  BY <1>1 DEF Enqueue, Keeps
<1>2. CASE ~no /\ now
  <2> DEFINE A == AddDirectly(S, c)
  <2>1. A \in State /\ Orderly(A, {}) /\ Frame(S, A, c)
    BY AddDirectlyOrderly
  <2>2. T = [A EXCEPT !.recent = TRUE]
    BY <1>2 DEF Enqueue
  <2> HIDE DEF A
  <2>3. T \in State /\ SameLists(A, T)
    BY <2>1, <2>2 DEF State, SameLists
  <2>4. Orderly(T, {}) /\ T.uploading = A.uploading
    BY <2>1, <2>3, SameListsOrderly DEF SameLists
  <2> QED BY <2>1, <2>3, <2>4, FrameKeeps DEF Keeps
<1>3. CASE ~no /\ ~now
  <2> DEFINE U == [S EXCEPT !.waiting = Append(@, c)]
  <2>1. PICK Q \in Sorted(U) :
          T = [Q EXCEPT !.nWaiting = @ + 1, !.up[c] = "queued"]
    BY <1>3 DEF Enqueue
  <2>2. /\ Append(S.waiting, c) \in Seq(Clients)
        /\ Len(Append(S.waiting, c)) = Len(S.waiting) + 1
        /\ \A i \in 1..Len(S.waiting) : Append(S.waiting, c)[i] = S.waiting[i]
        /\ Append(S.waiting, c)[Len(S.waiting) + 1] = c
    BY <1>0, StateTypes, AppendProperties
  <2>3. /\ U \in State /\ U.waiting = Append(S.waiting, c)
        /\ U.uploading = S.uploading /\ U.alive = S.alive
        /\ U.up = S.up /\ U.sock = S.sock
    BY <2>2 DEF State
  <2> HIDE DEF U
  <2>4. Queued(U) = Queued(S) \cup {c}
    <3>1. Len(S.waiting) \in Nat
      BY StateTypes
    <3>2. ASSUME NEW e \in Queued(U) PROVE e \in Queued(S) \cup {c}
      <4>1. PICK i \in 1..(Len(S.waiting) + 1) : e = U.waiting[i]
        BY <2>2, <2>3, <3>2 DEF Queued
      <4> QED BY <2>2, <2>3, <3>1, <4>1 DEF Queued
    <3>3. ASSUME NEW e \in Queued(S) PROVE e \in Queued(U)
      <4>1. PICK i \in 1..Len(S.waiting) : e = S.waiting[i]
        BY <3>3 DEF Queued
      <4> QED BY <2>2, <2>3, <3>1, <4>1 DEF Queued
    <3>4. c \in Queued(U)
      BY <2>2, <2>3, <3>1 DEF Queued
    <3> QED BY <3>2, <3>3, <3>4
  <2>5. Distinct(U)
    <3>1. Len(S.waiting) \in Nat /\ Distinct(S)
      BY StateTypes DEF Orderly
    <3>2. \A i \in 1..Len(S.waiting) : S.waiting[i] # c
      BY DEF Queued
    <3> DEFINE n == Len(S.waiting)
    <3>3. /\ Len(U.waiting) = n + 1 /\ U.waiting[n + 1] = c
          /\ \A i \in 1..n : U.waiting[i] = S.waiting[i]
      BY <2>2, <2>3
    <3>4. ASSUME NEW i \in 1..(n + 1), NEW j \in 1..(n + 1), i # j
          PROVE  U.waiting[i] # U.waiting[j]
      <4>0. /\ n \in Nat /\ i \in Nat /\ j \in Nat
            /\ U.waiting[n + 1] = c
            /\ \A k \in 1..n : U.waiting[k] = S.waiting[k] /\ S.waiting[k] # c
        BY <3>1, <3>2, <3>3
      <4>1. CASE i \in 1..n /\ j \in 1..n
        BY <3>1, <3>4, <4>0, <4>1 DEF Distinct
      <4> HIDE DEF n, U
      <4>2. CASE i = n + 1
        <5>1. j \in 1..n
          BY <3>4, <4>0, <4>2
        <5> QED BY <4>0, <4>2, <5>1
      <4>3. CASE j = n + 1
        <5>1. i \in 1..n
          BY <3>4, <4>0, <4>3
        <5> QED BY <4>0, <4>3, <5>1
      <4>4. (i \in 1..n /\ j \in 1..n) \/ i = n + 1 \/ j = n + 1
        BY <4>0
      <4> QED BY <4>1, <4>2, <4>3, <4>4
    <3> QED BY <3>3, <3>4 DEF Distinct
  <2>6. c \notin S.uploading
    BY <1>0, <1>3 DEF Orderly
  <2>7. Orderly(U, {c})
    BY <1>0, <2>3, <2>4, <2>5, <2>6 DEF Orderly
  <2>8. Q \in State /\ Orderly(Q, {c}) /\ Q.uploading = U.uploading
    BY <1>0, <2>3, <2>7, SortedOrderly
  <2>9. Q.nWaiting + 1 \in Int
    BY <2>8, StateTypes
  <2>10. /\ T \in State
         /\ T.waiting = Q.waiting /\ T.uploading = Q.uploading
         /\ T.alive = Q.alive /\ T.sock = Q.sock
         /\ \A e \in Clients : T.up[e] = IF e = c THEN "queued" ELSE Q.up[e]
    BY <1>0, <2>1, <2>8, <2>9 DEF State, UpStates
  <2>11. Queued(T) = Queued(Q) /\ (Distinct(Q) => Distinct(T))
    BY <2>10 DEF Queued, Distinct
  <2>12. Queued(Q) \in SUBSET Clients
    BY <2>8, QueuedType
  <2>13. Orderly(T, {})
    BY <1>0, <2>8, <2>10, <2>11, <2>12 DEF Orderly
  <2> QED BY <2>3, <2>8, <2>10, <2>13 DEF Keeps
<1> QED BY <1>1, <1>2, <1>3

\* Both ways of AddClientToQueue.
LEMMA QueueOrClaimOrderly ==
  ASSUME NEW S \in State, Orderly(S, {}), NEW c \in S.alive,
         S.up[c] # "connecting",
         NEW crowded, NEW T \in QueueOrClaim(S, c, crowded)
  PROVE  T \in State /\ Orderly(T, {}) /\ Keeps(S, T, c)
<1>0. c \in Clients
  BY DEF State
<1>1. CASE InWaiting(S, c)
  BY <1>1, ClaimSlotOrderly DEF QueueOrClaim
<1>2. CASE ~InWaiting(S, c)
  <2>1. c \notin Queued(S)
    BY <1>0, <1>2, QueuedType
  <2> QED BY <1>2, <2>1, EnqueueOrderly DEF QueueOrClaim
<1> QED BY <1>1, <1>2

\* The object of an evicted twin goes only with its place.
LEMMA EvictTwinOrderly ==
  ASSUME NEW S \in State, Orderly(S, {}), NEW d \in Queued(S)
  PROVE  LET R == EvictTwin(S, d)
         IN  R \in State /\ Orderly(R, {}) /\ Frame(S, R, d)
<1> DEFINE Q == RemoveFromWaitingQueue(S, d)
<1>0. d \in Clients
  BY QueuedType
<1>1. Q \in State /\ Orderly(Q, {}) /\ Frame(S, Q, d)
  BY <1>0, RemoveFromWaitingQueueOrderly
<1> DEFINE D == Disconnect(Q, d)
<1>2. D \in State /\ Orderly(D, {}) /\ Frame(Q, D, d)
  BY <1>0, <1>1, DisconnectOrderly
<1>3. Frame(S, D, d)
  BY <1>1, <1>2 DEF Frame
<1>4. Frame(S, S, d)
  BY DEF Frame
<1> HIDE DEF D, Q
<1> QED BY <1>1, <1>2, <1>3, <1>4 DEF EvictTwin, D, Q

\* AddClientToQueue, for a client that is connected.
LEMMA AddClientToQueueOrderly ==
  ASSUME NEW S0 \in State, Orderly(S0, {}), NEW c \in S0.alive,
         S0.up[c] # "connecting",
         NEW crowded, NEW T \in AddClientToQueue(S0, c, crowded)
  PROVE  T \in State /\ Orderly(T, {}) /\ Keeps(S0, T, c)
<1> DEFINE S == [S0 EXCEPT !.stale = @ \ {c}]
<1>0. c \in Clients
  BY DEF State
<1>1. S \in State /\ SameLists(S0, S)
  BY DEF State, SameLists
<1>2. /\ Orderly(S, {}) /\ S.uploading = S0.uploading
      /\ S.alive = S0.alive /\ S.up = S0.up
  BY <1>1, SameListsOrderly DEF SameLists
<1>3. \/ T = S0
      \/ T \in QueueOrClaim(S, c, crowded)
      \/ \E d \in Clashing(S, c) :
           T \in IF c \in Identified THEN QueueOrClaim(EvictTwin(S, d), c, crowded)
                 ELSE {RejectTwin(EvictTwin(S, d), c)}
  BY DEF AddClientToQueue
<1> HIDE DEF S
<1>4. CASE T = S0
  BY <1>4 DEF Keeps
<1>5. CASE T \in QueueOrClaim(S, c, crowded)
  BY <1>1, <1>2, <1>5, QueueOrClaimOrderly DEF Keeps
<1>6. ASSUME NEW d \in Clashing(S, c),
             T \in IF c \in Identified THEN QueueOrClaim(EvictTwin(S, d), c, crowded)
                   ELSE {RejectTwin(EvictTwin(S, d), c)}
      PROVE  T \in State /\ Orderly(T, {}) /\ Keeps(S0, T, c)
  <2> DEFINE R == EvictTwin(S, d)
  <2>1. d \in Queued(S) /\ d # c
    BY <1>1, QueuedType DEF Clashing
  <2>2. R \in State /\ Orderly(R, {}) /\ Frame(S, R, d)
    BY <1>1, <1>2, <2>1, EvictTwinOrderly
  <2> HIDE DEF R
  <2>3. c \in R.alive /\ R.up[c] # "connecting"
    BY <1>0, <1>2, <2>1, <2>2 DEF Frame
  <2>4. d \notin S.uploading
    BY <1>1, <1>2, <2>1, QueuedType DEF Orderly
  <2>5. S.uploading \subseteq R.uploading
    BY <1>1, <2>2, <2>4 DEF Frame, State
  <2>6. CASE c \in Identified
    <3>1. T \in State /\ Orderly(T, {}) /\ Keeps(R, T, c)
      BY <1>6, <2>2, <2>3, <2>6, QueueOrClaimOrderly DEF R
    <3> QED BY <1>2, <2>5, <3>1 DEF Keeps
  <2>7. CASE c \notin Identified
    <3>1. T = RejectTwin(R, c)
      BY <1>6, <2>7 DEF R
    <3>2. CASE R.sock[c] = "none"
      <4>1. T = Disconnect(R, c)
        BY <3>1, <3>2 DEF RejectTwin
      <4>2. T \in State /\ Orderly(T, {}) /\ Frame(R, T, c)
        BY <1>0, <2>2, <4>1, DisconnectOrderly
      <4> QED BY <1>2, <2>2, <2>5, <4>2, FrameKeeps DEF Keeps
    <3>3. CASE R.sock[c] # "none"
      BY <1>2, <2>2, <2>5, <3>1, <3>3 DEF RejectTwin, Keeps
    <3> QED BY <3>2, <3>3
  <2> QED BY <2>6, <2>7
<1> QED BY <1>3, <1>4, <1>5, <1>6

-----------------------------------------------------------------------------
(***************************************************************************)
(* The steps.                                                               *)
(***************************************************************************)
Lists(S) == S \in State /\ Orderly(S, {})

\* Steps that only change what the lists do not depend on.
LEMMA SameListsKeep ==
  ASSUME NEW S, Lists(S), NEW T \in State, SameLists(S, T)
  PROVE  Lists(T)
BY SameListsOrderly DEF Lists

\* Handlers that only set a mark on a client or a file.
LEMMA MarksLists ==
  ASSUME NEW S, Lists(S), NEW C \in SUBSET Clients, NEW F \in SUBSET Files,
         NEW T,
         \/ T = [S EXCEPT !.stale = C]
         \/ T = [S EXCEPT !.lowID = C]
         \/ T = [S EXCEPT !.banned = C]
         \/ T = [S EXCEPT !.suspended = F]
         \/ T = [S EXCEPT !.shared = F]
  PROVE  Lists(T)
<1>1. S \in State
  BY DEF Lists
<1> DEFINE stale == [S EXCEPT !.stale = C]
           lowID == [S EXCEPT !.lowID = C]
           banned == [S EXCEPT !.banned = C]
           suspended == [S EXCEPT !.suspended = F]
           shared == [S EXCEPT !.shared = F]
<1>2. stale \in State /\ SameLists(S, stale)
  BY <1>1 DEF State, SameLists
<1>3. lowID \in State /\ SameLists(S, lowID)
  BY <1>1 DEF State, SameLists
<1>4. banned \in State /\ SameLists(S, banned)
  BY <1>1 DEF State, SameLists
<1>5. suspended \in State /\ SameLists(S, suspended)
  BY <1>1 DEF State, SameLists
<1>6. shared \in State /\ SameLists(S, shared)
  BY <1>1 DEF State, SameLists
<1> QED BY <1>2, <1>3, <1>4, <1>5, <1>6, SameListsKeep

\* A removed client keeps neither its slot nor the state that goes with it.
LEMMA RemoveFromUploadQueueLists ==
  ASSUME NEW S, Lists(S), NEW c \in Clients
  PROVE  LET T == RemoveFromUploadQueue(S, c)
         IN  /\ Lists(T)
             /\ T.uploading = S.uploading \ {c}
             /\ T.alive = S.alive
             /\ c \in S.uploading => T.up[c] = "none"
<1>1. {c} \in SUBSET Clients /\ S \in State /\ Orderly(S, {})
  BY DEF Lists
<1> QED BY <1>1, LeaveUploadOrderly DEF RemoveFromUploadQueue, Lists

\* A failing block costs its client the slot, and nobody else.
LEMMA CreateNextBlockPackageLists ==
  ASSUME NEW S, Lists(S), NEW c \in Clients, NEW failed \in BOOLEAN,
         NEW T \in CreateNextBlockPackage(S, c, failed)
  PROVE  Lists(T) /\ Keeps(S, T, c)
<1> DEFINE fed == {S} \cup {[S EXCEPT !.file[c] = f] : f \in S.shared}
<1>1. S \in State
  BY DEF Lists
<1>2. ASSUME NEW R \in fed PROVE Lists(R) /\ R.uploading = S.uploading
  <2>1. CASE R = S
    BY <2>1
  <2>2. ASSUME NEW f \in S.shared, R = [S EXCEPT !.file[c] = f]
        PROVE  R \in State /\ SameLists(S, R)
    BY <1>1, <2>2 DEF State, SameLists
  <2> QED BY <2>1, <2>2, SameListsKeep DEF SameLists
<1>3. ASSUME NEW R \in fed, NEW F,
             T = RemoveFromUploadQueue([R EXCEPT !.shared = @ \ F], c)
      PROVE  Lists(T) /\ T.uploading = S.uploading \ {c}
  <2> DEFINE Q == [R EXCEPT !.shared = @ \ F]
  <2> HIDE DEF fed
  <2>1. Q \in State /\ SameLists(R, Q)
    BY <1>2 DEF Lists, State, SameLists
  <2>2. Lists(Q) /\ Q.uploading = S.uploading
    BY <1>2, <2>1, SameListsKeep DEF SameLists
  <2> HIDE DEF Q
  <2>3. T = RemoveFromUploadQueue(Q, c)
    BY <1>3 DEF Q
  <2> QED BY <2>2, <2>3, RemoveFromUploadQueueLists
<1>4. CASE ~failed
  <2>1. T \in fed
    BY <1>4 DEF CreateNextBlockPackage
  <2> QED BY <1>2, <2>1 DEF Keeps
<1>5. CASE failed
  <2> DEFINE lost == {{}} \cup {{f} : f \in S.shared}
             drop(R, F) == RemoveFromUploadQueue([R EXCEPT !.shared = @ \ F], c)
  <2>0. T \in UNION {{drop(R, F) : F \in lost} : R \in fed}
    BY <1>5 DEF CreateNextBlockPackage
  <2> HIDE DEF fed, lost, drop
  <2>1. PICK R \in fed, F \in lost : T = drop(R, F)
    BY <2>0
  <2> USE DEF drop
  <2> QED BY <1>3, <2>1 DEF Keeps
<1> QED BY <1>4, <1>5

\* Handling one client of a slot takes no other client's slot away.
LEMMA SendBlockDataLists ==
  ASSUME NEW S, Lists(S), NEW c \in S.uploading, NEW outcome, NEW crowded,
         NEW T \in SendBlockData(S, c, outcome, crowded)
  PROVE  Lists(T) /\ Keeps(S, T, c)
<1> DEFINE K == [S EXCEPT !.kicking = FALSE]
           R == RemoveFromUploadQueue(K, c)
<1>1. S \in State /\ c \in Clients /\ c \in S.alive
  BY DEF Lists, State, Orderly
<1>2. K \in State /\ SameLists(S, K)
  BY <1>1 DEF State, SameLists
<1>3. Lists(K) /\ K.uploading = S.uploading /\ K.alive = S.alive
  BY <1>2, SameListsKeep DEF SameLists
<1>4. CASE T \in AddClientToQueue(R, c, crowded)
  <2> HIDE DEF K
  <2>1. /\ Lists(R) /\ R.uploading = S.uploading \ {c}
        /\ R.alive = S.alive /\ R.up[c] = "none"
    BY <1>1, <1>3, RemoveFromUploadQueueLists
  <2> HIDE DEF R
  <2>2. T \in State /\ Orderly(T, {}) /\ Keeps(R, T, c)
    BY <1>1, <1>4, <2>1, AddClientToQueueOrderly DEF Lists
  <2> QED BY <2>1, <2>2 DEF Lists, Keeps
<1>5. CASE T \in CreateNextBlockPackage(S, c, outcome = "failed")
  BY <1>1, <1>5, CreateNextBlockPackageLists
<1> QED BY <1>4, <1>5 DEF SendBlockData, K, R

\* The loop of Process starts with all slot holders.
LEMMA ProcessSlotsLists ==
  ASSUME Lists(s), ProcessSlots
  PROVE  Lists(s')
<1> DEFINE K(k) == [s EXCEPT !.kicking = k]
           N == [s EXCEPT !.kicking = FALSE, !.recent = TRUE]
<1>1. ASSUME NEW k \in BOOLEAN PROVE Lists(K(k))
  <2>1. K(k) \in State /\ SameLists(s, K(k))
    BY DEF Lists, State, SameLists
  <2> QED BY <2>1, SameListsKeep
<1>2. Lists(N)
  <2>1. N \in State /\ SameLists(s, N)
    BY DEF Lists, State, SameLists
  <2> QED BY <2>1, SameListsKeep
<1>3. s' = K(FALSE) \/ s' = K(TRUE) \/ s' \in AddUpNextClient(N)
  BY DEF ProcessSlots
<1>4. CASE s' = K(FALSE) \/ s' = K(TRUE)
  BY <1>1, <1>4
<1>5. CASE s' \in AddUpNextClient(N)
  <2> HIDE DEF N
  <2> QED BY <1>2, <1>5, AddUpNextClientOrderly DEF Lists
<1> QED BY <1>3, <1>4, <1>5

\* A round changes the place of the client it handles only.
LEMMA ProcessFeedLists ==
  ASSUME Lists(s), todo \subseteq s.uploading, NEW c \in Clients, ProcessFeed(c)
  PROVE  Lists(s') /\ todo' \subseteq s'.uploading
<1>1. c \in todo /\ c \in s.uploading
  BY DEF ProcessFeed
<1>2. PICK outcome, crowded :
        /\ s' \in IF s.sock[c] = "none"
                  THEN {Disconnect(RemoveFromUploadQueue(s, c), c)}
                  ELSE SendBlockData(s, c, outcome, crowded)
        /\ \/ todo' = todo \ {c}
           \/ todo' = (todo \ {c}) \cup {c} /\ c \in s'.uploading
  BY DEF ProcessFeed
<1>3. Lists(s') /\ Keeps(s, s', c)
  <2>1. CASE s.sock[c] = "none"
    <3> DEFINE R == RemoveFromUploadQueue(s, c)
    <3>1. Lists(R) /\ R.uploading = s.uploading \ {c}
      BY RemoveFromUploadQueueLists
    <3>2. s' = Disconnect(R, c)
      BY <1>2, <2>1
    <3> HIDE DEF R
    <3>3. s' \in State /\ Orderly(s', {}) /\ Frame(R, s', c)
      BY <3>1, <3>2, DisconnectOrderly DEF Lists
    <3>4. Keeps(R, s', c)
      BY <3>1, <3>3, FrameKeeps DEF Lists
    <3> QED BY <3>1, <3>3, <3>4 DEF Lists, Keeps
  <2>2. CASE s.sock[c] # "none"
    BY <1>1, <1>2, <2>2, SendBlockDataLists
  <2> QED BY <2>1, <2>2
<1> QED BY <1>2, <1>3 DEF Keeps

\* Sorting by itself.
LEMMA SortLists ==
  ASSUME Lists(s), s' \in {s} \cup Sorted(s)
  PROVE  Lists(s') /\ s'.uploading = s.uploading
BY SortedOrderly DEF Lists

\* A client that connects is no longer waiting to be called back.
LEMMA AttachedLists ==
  ASSUME NEW S, Lists(S), NEW d \in S.alive
  PROVE  Lists(ConnectionEstablished(
                 [S EXCEPT !.sock[d] = "open", !.lowID = @ \ {d}], d))
<1> DEFINE A == [S EXCEPT !.sock[d] = "open", !.lowID = @ \ {d}]
           T == ConnectionEstablished(A, d)
<1>1. S \in State /\ d \in Clients /\ Orderly(S, {})
  BY DEF Lists, State
<1>2. /\ A \in State
      /\ A.waiting = S.waiting /\ A.uploading = S.uploading
      /\ A.alive = S.alive /\ A.up = S.up
      /\ A.sock = [S.sock EXCEPT ![d] = "open"]
  BY <1>1 DEF State, Sockets
<1> HIDE DEF A
<1>3. T \in State
  BY <1>1, <1>2, ConnectionEstablishedGentle DEF Gentle
<1>4. /\ T.waiting = S.waiting /\ T.uploading = S.uploading
      /\ T.alive = S.alive /\ T.sock = A.sock
      /\ T.up = [S.up EXCEPT ![d] = IF @ = "connecting" /\ d \in S.uploading
                                    THEN "uploading" ELSE @]
  BY <1>1, <1>2 DEF ConnectionEstablished, State
<1> HIDE DEF T
<1>5. \A e \in Clients :
        /\ T.sock[e] = IF e = d THEN "open" ELSE S.sock[e]
        /\ T.up[e] = IF e = d /\ S.up[d] = "connecting" /\ d \in S.uploading
                     THEN "uploading" ELSE S.up[e]
  BY <1>1, <1>2, <1>4 DEF State
<1>6. Queued(T) = Queued(S) /\ (Distinct(S) => Distinct(T))
  BY <1>4 DEF Queued, Distinct
<1>7. Queued(S) \in SUBSET Clients
  BY <1>1, QueuedType
<1>8. \A e \in Queued(S) : e \notin S.uploading
  BY <1>1, <1>7 DEF Orderly
<1>9. Orderly(T, {})
  BY <1>1, <1>4, <1>5, <1>6, <1>7, <1>8 DEF Orderly
<1> QED BY <1>3, <1>9 DEF Lists, T, A

\* An incoming connection finds an object, or makes one.
LEMMA HelloLists ==
  ASSUME Lists(s), NEW c \in Clients, Hello(c)
  PROVE  Lists(s')
<1> DEFINE Attached(d) == ConnectionEstablished(
                            [s EXCEPT !.sock[d] = "open", !.lowID = @ \ {d}], d)
           created == [s EXCEPT !.alive = @ \cup {c}, !.sock[c] = "open"]
           refused == [created EXCEPT !.banned = @ \cup {c}, !.up[c] = "banned"]
<1>1. s \in State /\ Orderly(s, {})
  BY DEF Lists
<1>2. \/ \E d \in s.alive : s' = Attached(d)
      \/ c \notin s.alive /\ (s' = created \/ s' = refused)
  BY DEF Hello, Handler
<1>3. ASSUME NEW d \in s.alive, s' = Attached(d) PROVE Lists(s')
  BY <1>3, AttachedLists
<1>4. ASSUME c \notin s.alive, s' = created \/ s' = refused PROVE Lists(s')
  <2>1. c \notin s.uploading /\ c \notin Queued(s)
    BY <1>1, <1>4 DEF Orderly
  <2>2. s.up[c] # "connecting" /\ s.up[c] # "uploading"
    BY <1>1, <2>1 DEF Orderly
  <2>3. /\ created \in State
        /\ created.waiting = s.waiting /\ created.uploading = s.uploading
        /\ created.alive = s.alive \cup {c} /\ created.up = s.up
        /\ created.sock = [s.sock EXCEPT ![c] = "open"]
    BY <1>1 DEF State, Sockets
  <2>4. \A e \in Clients :
          created.sock[e] = IF e = c THEN "open" ELSE s.sock[e]
    BY <1>1, <2>3 DEF State
  <2> HIDE DEF created
  <2>5. Queued(created) = Queued(s) /\ (Distinct(s) => Distinct(created))
    BY <2>3 DEF Queued, Distinct
  <2>6. Queued(s) \in SUBSET Clients
    BY <1>1, QueuedType
  <2>7. Orderly(created, {})
    BY <1>1, <2>1, <2>2, <2>3, <2>4, <2>5, <2>6 DEF Orderly
  <2>8. /\ refused \in State
        /\ refused.waiting = created.waiting
        /\ refused.uploading = created.uploading
        /\ refused.alive = created.alive /\ refused.sock = created.sock
        /\ \A e \in Clients :
             refused.up[e] = IF e = c THEN "banned" ELSE created.up[e]
    BY <2>3 DEF State, UpStates
  <2> HIDE DEF refused
  <2>9. Queued(refused) = Queued(created)
        /\ (Distinct(created) => Distinct(refused))
    BY <2>8 DEF Queued, Distinct
  <2>10. Orderly(refused, {})
    BY <2>1, <2>3, <2>5, <2>6, <2>7, <2>8, <2>9 DEF Orderly
  <2> QED BY <1>4, <2>3, <2>7, <2>8, <2>10 DEF Lists
<1> QED BY <1>2, <1>3, <1>4

\* Connections that are answered, lost or asked for.
LEMMA ConnectionStepsLists ==
  ASSUME Lists(s), NEW c \in Clients,
         HelloAnswer(c) \/ SocketLost(c) \/ AskForDownload(c)
  PROVE  Lists(s')
<1>1. s \in State /\ Orderly(s, {})
  BY DEF Lists
<1>2. CASE HelloAnswer(c)
  <2>1. c \in s.alive
    BY <1>1, <1>2 DEF HelloAnswer, Orderly
  <2> QED BY <1>2, <2>1, AttachedLists DEF HelloAnswer, Handler
<1>3. CASE SocketLost(c)
  BY <1>1, <1>3, DisconnectOrderly DEF SocketLost, Handler, Lists
<1>4. CASE AskForDownload(c)
  <2> DEFINE asked == [s EXCEPT !.alive = @ \cup {c}, !.down[c] = "connecting"]
             full == [asked EXCEPT !.down[c] = "onqueue"]
  <2>1. /\ asked \in State
        /\ asked.waiting = s.waiting /\ asked.uploading = s.uploading
        /\ asked.alive = s.alive \cup {c}
        /\ asked.up = s.up /\ asked.sock = s.sock
    BY <1>1 DEF State, DownStates
  <2>2. s' = full \/ s' = TryToConnect(asked, c)
    BY <1>4 DEF AskForDownload, Handler
  <2> HIDE DEF asked
  <2>3. Queued(asked) = Queued(s) /\ (Distinct(s) => Distinct(asked))
    BY <2>1 DEF Queued, Distinct
  <2>4. Orderly(asked, {})
    BY <1>1, <2>1, <2>3 DEF Orderly
  <2>5. full \in State /\ SameLists(asked, full)
    BY <2>1 DEF State, DownStates, SameLists
  <2>6. Lists(full)
    BY <2>1, <2>4, <2>5, SameListsKeep DEF Lists
  <2>7. Lists(TryToConnect(asked, c))
    BY <2>1, <2>4, TryToConnectOrderly DEF Lists
  <2> QED BY <2>2, <2>6, <2>7
<1> QED BY <1>2, <1>3, <1>4

\* A client asks for a file, or for an upload.
LEMMA RequestStepsLists ==
  ASSUME Lists(s), NEW c \in Clients, NEW f \in Files, NEW crowded,
         RequestFile(c, f) \/ StartUploadReq(c, f, crowded)
  PROVE  Lists(s')
<1> DEFINE Asks == [s EXCEPT !.file[c] = f]
<1>1. s \in State /\ Orderly(s, {})
  BY DEF Lists
<1>2. Asks \in State /\ SameLists(s, Asks)
  BY <1>1 DEF State, SameLists
<1>3. Lists(Asks)
  BY <1>2, SameListsKeep
<1>4. CASE RequestFile(c, f)
  BY <1>3, <1>4 DEF RequestFile, Handler
<1>5. CASE StartUploadReq(c, f, crowded)
  <2>1. s' \in AddClientToQueue(Asks, c, crowded) /\ s.sock[c] = "open"
    BY <1>5 DEF StartUploadReq, Handler, IsConnected
  <2>2. c \in s.alive /\ s.up[c] # "connecting"
    BY <1>1, <2>1 DEF Orderly
  <2>3. c \in Asks.alive /\ Asks.up[c] # "connecting"
    BY <1>2, <2>2 DEF SameLists
  <2> HIDE DEF Asks
  <2> QED BY <1>3, <2>1, <2>3, AddClientToQueueOrderly DEF Lists
<1> QED BY <1>4, <1>5

\* A client is taken off its slot, or deleted.
LEMMA RemovalStepsLists ==
  ASSUME Lists(s), NEW c \in Clients,
         StopUpload(c) \/ CleanUpClientList(c) \/ FilterQueues(c)
  PROVE  Lists(s')
<1> DEFINE A == AfterDisconnect(s, c)
<1>1. s \in State /\ Orderly(s, {})
  BY DEF Lists
<1>2. Lists(RemoveFromUploadQueue(s, c))
  BY RemoveFromUploadQueueLists
<1>3. A \in State /\ Orderly(A, {}) /\ A.alive = s.alive
  BY <1>1, AfterDisconnectOrderly
<1>4. s' = RemoveFromUploadQueue(s, c) \/ (c \in s.alive /\ s' = SafeDelete(A, c))
  BY DEF StopUpload, CleanUpClientList, FilterQueues, Removable, Handler
<1> HIDE DEF A
<1>5. c \in s.alive => Lists(SafeDelete(A, c))
  BY <1>3, SafeDeleteOrderly DEF Lists
<1> QED BY <1>2, <1>4, <1>5

\* A ban that spares the slots leaves the lists as they are.
LEMMA MarkBannedLists ==
  ASSUME Lists(s), NEW c \in Clients, c \notin s.uploading
  PROVE  Lists(MarkBanned(s, c))
<1> DEFINE T == MarkBanned(s, c)
<1>1. s \in State /\ Orderly(s, {})
  BY DEF Lists
<1>2. /\ T \in State
      /\ T.waiting = s.waiting /\ T.uploading = s.uploading
      /\ T.alive = s.alive /\ T.sock = s.sock
      /\ \A e \in Clients : T.up[e] = IF e = c THEN "banned" ELSE s.up[e]
  BY <1>1 DEF MarkBanned, State, UpStates
<1> HIDE DEF T
<1>3. Queued(T) = Queued(s) /\ (Distinct(s) => Distinct(T))
  BY <1>2 DEF Queued, Distinct
<1>4. Queued(s) \in SUBSET Clients
  BY <1>1, QueuedType
<1>5. Orderly(T, {})
  BY <1>1, <1>2, <1>3, <1>4 DEF Orderly
<1>6. Lists(T)
  BY <1>2, <1>5 DEF Lists
<1> QED BY <1>6 DEF T

\* A ban that disconnects: a holder of a slot leaves it, because its object goes.
LEMMA BanLists ==
  ASSUME ~BanHolders, Lists(s), NEW c \in Clients, Ban(c) \/ BanCorrupter(c)
  PROVE  Lists(s')
<1> DEFINE B == MarkBanned(s, c)
           T == [B EXCEPT !.down[c] = "failed"]
<1>1. s \in State /\ Orderly(s, {})
  BY DEF Lists
<1>2. CASE Ban(c)
  BY <1>2, MarkBannedLists DEF Ban, Handler
<1>3. CASE BanCorrupter(c) /\ c \notin s.uploading
  <2>1. Lists(B)
    BY <1>3, MarkBannedLists
  <2>2. s' = Disconnect(T, c)
    BY <1>3 DEF BanCorrupter, Handler
  <2> HIDE DEF B
  <2>3. T \in State /\ SameLists(B, T)
    BY <2>1 DEF Lists, State, DownStates, SameLists
  <2>4. Lists(T)
    BY <2>1, <2>3, SameListsKeep
  <2> HIDE DEF T
  <2> QED BY <2>2, <2>4, DisconnectOrderly DEF Lists
<1>4. CASE BanCorrupter(c) /\ c \in s.uploading
  <2> DEFINE A == AfterDisconnect(T, c)
             R == LeaveUpload(A, {c})
             Q == RemoveFromWaitingQueue(R, c)
  <2>1. c \in s.alive /\ c \notin ChatPartners /\ s' = Disconnect(T, c)
    BY <1>4 DEF BanCorrupter, Handler
  <2>2. /\ T \in State
        /\ T.waiting = s.waiting /\ T.uploading = s.uploading
        /\ T.alive = s.alive /\ T.sock = s.sock
        /\ T.down[c] = "failed" /\ T.up = [s.up EXCEPT ![c] = "banned"]
    BY <1>1 DEF MarkBanned, State, UpStates, DownStates
  <2> HIDE DEF T
  <2>3. A = [T EXCEPT !.sock[c] = "none"]
    BY <2>2 DEF AfterDisconnect, State
  <2>4. s' = SafeDelete(A, c)
    BY <2>1, <2>2 DEF Disconnect, Needless, State
  <2>5. /\ A \in State
        /\ A.waiting = s.waiting /\ A.uploading = s.uploading
        /\ A.alive = s.alive
        /\ \A e \in Clients :
             /\ A.up[e] = IF e = c THEN "banned" ELSE s.up[e]
             /\ A.sock[e] = IF e = c THEN "none" ELSE s.sock[e]
    <3>1. T.sock \in [Clients -> Sockets] /\ s.up \in [Clients -> UpStates]
      BY <1>1, <2>2 DEF State
    <3>2. A \in State
      BY <2>2, AfterDisconnectGentle DEF Gentle
    <3>3. /\ A.waiting = T.waiting /\ A.uploading = T.uploading
          /\ A.alive = T.alive /\ A.up = T.up
          /\ A.sock = [T.sock EXCEPT ![c] = "none"]
      BY <2>2, <2>3 DEF State
    <3> QED BY <2>2, <3>1, <3>2, <3>3
  <2> HIDE DEF A
  <2>6. s' = Forget(Q, {c})
    BY <2>1, <2>4, <2>5 DEF SafeDelete, RemoveFromUploadQueue
  <2>7. /\ R \in State
        /\ R.waiting = s.waiting /\ R.uploading = s.uploading \ {c}
        /\ R.alive = s.alive
        /\ \A e \in Clients :
             /\ R.up[e] = IF e = c THEN "none" ELSE s.up[e]
             /\ R.sock[e] = IF e = c THEN "none" ELSE s.sock[e]
    <3>1. R \in State
      BY <2>5, LeaveUploadGentle DEF Gentle
    <3>2. /\ R.waiting = A.waiting /\ R.uploading = A.uploading \ {c}
          /\ R.alive = A.alive /\ R.sock = A.sock
          /\ \A e \in Clients :
               R.up[e] = IF e \in A.uploading \cap {c} THEN "none" ELSE A.up[e]
      BY <2>5 DEF LeaveUpload, State, R
    <3> QED BY <1>4, <2>5, <3>1, <3>2
  <2> HIDE DEF R
  <2>8. Queued(R) = Queued(s) /\ (Distinct(s) => Distinct(R))
    BY <2>7 DEF Queued, Distinct
  <2>9. c \notin Queued(s)
    BY <1>1, <1>4 DEF Orderly
  <2>10. Queued(s) \in SUBSET Clients
    BY <1>1, QueuedType
  <2>11. Orderly(R, {})
    BY <1>1, <2>7, <2>8, <2>9, <2>10 DEF Orderly
  <2>12. /\ Q \in State /\ Orderly(Q, {})
         /\ Queued(Q) = Queued(R) \ {c}
         /\ Q.uploading = R.uploading
         /\ Q.alive = R.alive /\ Q.sock = R.sock
    BY <2>7, <2>11, RemoveFromWaitingQueueOrderly
  <2> HIDE DEF Q
  <2> QED BY <2>6, <2>7, <2>12, ForgetOrderly DEF Lists
<1> QED BY <1>2, <1>3, <1>4

\* The download side lets go of a client, or a packet is refused.
LEMMA DownloadStepsLists ==
  ASSUME Lists(s), NEW c \in Clients, SourceDropped(c) \/ ProtocolError(c)
  PROVE  Lists(s')
<1>1. ASSUME NEW d \in {"none", "failed"}
      PROVE  LET T == [s EXCEPT !.down[c] = d]
             IN  Lists(T) /\ Lists(Disconnect(T, c))
  <2> DEFINE T == [s EXCEPT !.down[c] = d]
  <2>1. T \in State /\ SameLists(s, T)
    BY DEF Lists, State, DownStates, SameLists
  <2>2. Lists(T)
    BY <2>1, SameListsKeep
  <2> HIDE DEF T
  <2>3. Lists(Disconnect(T, c))
    BY <2>2, DisconnectOrderly DEF Lists
  <2> QED BY <2>2, <2>3 DEF T
<1>2. CASE SourceDropped(c)
  <2> DEFINE T == [s EXCEPT !.down[c] = "none"]
  <2>1. s' = T \/ s' = Disconnect(T, c)
    BY <1>2 DEF SourceDropped, Handler
  <2> QED BY <1>1, <2>1
<1>3. CASE ProtocolError(c)
  <2> DEFINE T == [s EXCEPT !.down[c] = "failed"]
  <2>1. s' = Disconnect(T, c)
    BY <1>3 DEF ProtocolError, Handler
  <2> QED BY <1>1, <2>1
<1> QED BY <1>2, <1>3

\* What else happens to one client.
LEMMA OtherClientStepsLists ==
  ASSUME Lists(s), NEW c \in Clients,
         \/ ReaskFilePing(c) \/ ChangeClientID(c) \/ SourceAnswers(c)
         \/ BanExpires(c) \/ HourPasses(c)
  PROVE  Lists(s')
<1>1. s \in State
  BY DEF Lists
<1>2. CASE ReaskFilePing(c) \/ HourPasses(c) \/ ChangeClientID(c) \/ BanExpires(c)
  <2>1. \E C \in SUBSET Clients :
          \/ s' = [s EXCEPT !.stale = C]
          \/ s' = [s EXCEPT !.lowID = C]
          \/ s' = [s EXCEPT !.banned = C]
    <3>1. /\ s.stale \in SUBSET Clients /\ s.lowID \in SUBSET Clients
          /\ s.banned \in SUBSET Clients
      BY <1>1 DEF State
    <3> QED
      BY <1>2, <3>1
      DEF ReaskFilePing, HourPasses, ChangeClientID, BanExpires, Handler, Elapses
  <2>2. PICK C \in SUBSET Clients :
          \/ s' = [s EXCEPT !.stale = C]
          \/ s' = [s EXCEPT !.lowID = C]
          \/ s' = [s EXCEPT !.banned = C]
    BY <2>1
  <2>3. {} \in SUBSET Files
    OBVIOUS
  <2> QED BY <2>2, <2>3, MarksLists
<1>4. CASE SourceAnswers(c)
  <2> DEFINE T == [s EXCEPT !.down[c] =
                     IF @ = "onqueue" THEN "downloading" ELSE "onqueue"]
  <2>1. T \in State /\ SameLists(s, T)
    BY <1>1 DEF State, DownStates, SameLists
  <2>2. s' = T
    BY <1>4 DEF SourceAnswers, Handler
  <2> QED BY <2>1, <2>2, SameListsKeep
<1> QED BY <1>2, <1>4

\* The uploaders that are put back were in no other place.
LEMMA PerformFileCompleteLists ==
  ASSUME Lists(s), NEW f \in Files, PerformFileComplete(f)
  PROVE  Lists(s')
<1> DEFINE U == Uploaders(s, f)
           n == Cardinality(U)
           R == LeaveUpload(s, U)
           up(V) == [c \in Clients |-> IF c \in U THEN "queued" ELSE V[c]]
<1>1. s \in State /\ Orderly(s, {})
  BY DEF Lists
<1>2. U \in SUBSET Clients /\ n \in Nat /\ U \subseteq s.uploading
  BY <1>1, StateTypes, FinitePart DEF Uploaders
<1>3. /\ R \in State /\ Orderly(R, {})
      /\ R.waiting = s.waiting /\ R.uploading = s.uploading \ U
      /\ R.alive = s.alive /\ R.sock = s.sock
  BY <1>1, <1>2, LeaveUploadOrderly
<1>4. PICK q \in [1..n -> U] :
        /\ \A i, j \in 1..n : i # j => q[i] # q[j]
        /\ s' = [R EXCEPT !.suspended = @ \cup {f},
                          !.waiting   = @ \o q,
                          !.nWaiting  = @ + n,
                          !.up = up(@)]
  BY DEF PerformFileComplete, Handler
<1>6. q \in Seq(Clients) /\ Len(q) = n
  <2>1. q \in [1..n -> Clients]
    BY <1>2, <1>4
  <2>2. q \in Seq(Clients)
    BY <1>2, <2>1, SeqDef
  <2>3. Len(q) \in Nat /\ DOMAIN q = 1..Len(q)
    BY <2>2, LenProperties
  <2> QED BY <1>2, <2>1, <2>2, <2>3
<1> DEFINE w == s.waiting
           m == Len(s.waiting)
<1>7. /\ m \in Nat /\ w \in Seq(Clients)
      /\ Len(w \o q) = m + n
      /\ \A i \in 1..(m + n) :
           (w \o q)[i] = IF i <= m THEN w[i] ELSE q[i - m]
  <2>1. m \in Nat /\ w \in Seq(Clients)
    BY <1>1, StateTypes
  <2> HIDE DEF w, U, n
  <2>2. /\ Len(w \o q) = Len(w) + Len(q)
        /\ \A i \in 1..(Len(w) + Len(q)) :
             (w \o q)[i] = IF i <= Len(w) THEN w[i] ELSE q[i - Len(w)]
    BY <1>6, <2>1, ConcatProperties
  <2> QED BY <1>6, <2>1, <2>2 DEF w
<1>5. s' \in State
  <2>1. up(R.up) \in [Clients -> UpStates] /\ R.nWaiting + n \in Int
    BY <1>2, <1>3, StateTypes DEF State, UpStates
  <2>2. w \o q \in Seq(Clients)
    BY <1>6, <1>7, ConcatProperties
  <2> HIDE DEF R, up
  <2> QED BY <1>3, <1>4, <2>1, <2>2 DEF State
<1>8. /\ s'.waiting = w \o q /\ s'.uploading = s.uploading \ U
      /\ s'.alive = s.alive /\ s'.sock = s.sock
      /\ \A e \in Clients : s'.up[e] = IF e \in U THEN "queued" ELSE R.up[e]
  BY <1>3, <1>4 DEF State
<1>9. /\ \A i \in 1..n : q[i] \in U
      /\ \A i, j \in 1..n : i # j => q[i] # q[j]
  BY <1>4
<1>10. \A i \in 1..m : w[i] \in Queued(s) /\ w[i] \notin U
  <2>1. Queued(s) \in SUBSET Clients
    BY <1>1, QueuedType
  <2>2. \A e \in Queued(s) : e \notin U
    BY <1>1, <1>2, <2>1 DEF Orderly
  <2> QED BY <2>2 DEF Queued
<1>11. \A i, j \in 1..m : i # j => w[i] # w[j]
  BY <1>1 DEF Orderly, Distinct
<1> HIDE DEF R, U, n, w, m
<1>12. Distinct(s')
  <2> SUFFICES ASSUME NEW i \in 1..(m + n), NEW j \in 1..(m + n), i # j
               PROVE  (w \o q)[i] # (w \o q)[j]
    BY <1>7, <1>8 DEF Distinct
  <2>1. CASE i <= m /\ j <= m
    <3>1. i \in 1..m /\ j \in 1..m
      BY <1>2, <1>7, <2>1
    <3>2. (w \o q)[i] = w[i] /\ (w \o q)[j] = w[j]
      BY <1>7, <2>1
    <3> QED BY <1>11, <3>1, <3>2
  <2>2. CASE i > m /\ j > m
    <3>1. i - m \in 1..n /\ j - m \in 1..n /\ i - m # j - m
      BY <1>2, <1>7, <2>2
    <3>2. q[i - m] # q[j - m]
      BY <1>9, <3>1
    <3>3. (w \o q)[i] = q[i - m] /\ (w \o q)[j] = q[j - m]
      BY <1>7, <2>2
    <3> QED BY <3>2, <3>3
  <2>3. CASE i <= m /\ j > m
    <3>1. i \in 1..m /\ j - m \in 1..n
      BY <1>2, <1>7, <2>3
    <3> QED BY <1>7, <1>9, <1>10, <2>3, <3>1
  <2>4. CASE i > m /\ j <= m
    <3>1. j \in 1..m /\ i - m \in 1..n
      BY <1>2, <1>7, <2>4
    <3> QED BY <1>7, <1>9, <1>10, <2>4, <3>1
  <2> QED BY <1>2, <1>7, <2>1, <2>2, <2>3, <2>4
<1>13. ASSUME NEW e \in Queued(s') PROVE e \in Queued(s) \/ e \in U
  <2>1. PICK i \in 1..(m + n) : e = (w \o q)[i]
    BY <1>7, <1>8, <1>13 DEF Queued
  <2>2. CASE i <= m
    BY <1>2, <1>7, <1>10, <2>1, <2>2
  <2>3. CASE i > m
    <3>1. i - m \in 1..n
      BY <1>2, <1>7, <2>3
    <3> QED BY <1>7, <1>9, <2>1, <2>3, <3>1
  <2> QED BY <1>2, <1>7, <2>2, <2>3
<1>14. Queued(s') \in SUBSET Clients /\ Queued(R) = Queued(s)
  BY <1>3, <1>5, QueuedType DEF Queued
<1>15. Orderly(s', {})
  <2>1. Queued(s') \cup s'.uploading \subseteq s'.alive
    BY <1>1, <1>2, <1>8, <1>13 DEF Orderly
  <2>2. \A c \in Clients :
          c \in s'.uploading <=> s'.up[c] \in {"connecting", "uploading"}
    BY <1>3, <1>8 DEF Orderly
  <2>3. \A c \in Queued(s') : s'.up[c] \in {"queued", "banned"}
    BY <1>3, <1>8, <1>13, <1>14 DEF Orderly
  <2>4. \A c \in Clients : s'.sock[c] # "none" => c \in s'.alive
    BY <1>1, <1>8 DEF Orderly
  <2>5. \A c \in Clients : s'.up[c] = "connecting" => s'.sock[c] # "open"
    BY <1>3, <1>8 DEF Orderly
  <2> QED BY <1>12, <2>1, <2>2, <2>3, <2>4, <2>5 DEF Orderly
<1> QED BY <1>5, <1>15 DEF Lists

\* What happens to a file.
LEMMA FileStepLists ==
  ASSUME Lists(s), NEW f \in Files, FileStep(f)
  PROVE  Lists(s')
<1>1. s \in State /\ Orderly(s, {})
  BY DEF Lists
<1>4. CASE CompleteFileEnded(f)
  <2> DEFINE T == [s EXCEPT !.suspended = @ \ {f}, !.shared = @ \cup {f}]
  <2>1. T \in State /\ SameLists(s, T)
    BY <1>1 DEF State, SameLists
  <2>2. s' = T
    BY <1>4 DEF CompleteFileEnded, Handler
  <2> QED BY <2>1, <2>2, SameListsKeep
<1>2. CASE Unshare(f) \/ Share(f)
  <2>1. \E F \in SUBSET Files :
          s' = [s EXCEPT !.suspended = F] \/ s' = [s EXCEPT !.shared = F]
    <3>1. s.suspended \in SUBSET Files /\ s.shared \in SUBSET Files
      BY <1>1 DEF State
    <3> QED BY <1>2, <3>1 DEF Unshare, Share, Handler
  <2>2. PICK F \in SUBSET Files :
          s' = [s EXCEPT !.suspended = F] \/ s' = [s EXCEPT !.shared = F]
    BY <2>1
  <2>3. {} \in SUBSET Clients
    OBVIOUS
  <2> QED BY <2>2, <2>3, MarksLists
<1>3. CASE DeleteFile(f)
  <2> DEFINE R == LeaveUpload(s, Uploaders(s, f))
             file(V) == [c \in Clients |-> IF V[c] = f THEN NoFile ELSE V[c]]
             T == [R EXCEPT !.shared = @ \ {f}, !.file = file(@)]
  <2>1. Uploaders(s, f) \in SUBSET Clients
    BY <1>1, StateTypes DEF Uploaders
  <2>2. Lists(R)
    BY <1>1, <2>1, LeaveUploadOrderly DEF Lists
  <2>3. s' = T
    BY <1>3 DEF DeleteFile, Handler
  <2> HIDE DEF R
  <2>4. file(R.file) \in [Clients -> Files \cup {NoFile}]
    BY <2>2 DEF Lists, State
  <2>5. T \in State /\ SameLists(R, T)
    BY <2>2, <2>4 DEF Lists, State, SameLists
  <2> QED BY <2>2, <2>3, <2>5, SameListsKeep
<1> QED BY <1>2, <1>3, <1>4, PerformFileCompleteLists DEF FileStep

-----------------------------------------------------------------------------
(***************************************************************************)
(* The inductive invariant and what follows from it.                        *)
(***************************************************************************)
ListInv ==
  /\ Lists(s)
  /\ feeding \in BOOLEAN
  /\ todo \subseteq s.uploading
  /\ ~feeding => todo = {}

\* At the start there are no clients.
LEMMA InitLists == Init => ListInv
<1> SUFFICES ASSUME Init PROVE ListInv
  OBVIOUS
<1>1. s \in State
  BY InitLedger DEF LedgerInv, Ledger
<1>2. /\ s.waiting = <<>> /\ s.uploading = {} /\ s.alive = {}
      /\ s.up = [c \in Clients |-> "none"]
      /\ s.sock = [c \in Clients |-> "none"]
      /\ feeding = FALSE /\ todo = {}
  BY DEF Init
<1>3. Len(<<>>) = 0
  BY EmptySeq
<1>4. Queued(s) = {} /\ Distinct(s)
  BY <1>2, <1>3 DEF Queued, Distinct
<1>5. Orderly(s, {})
  BY <1>2, <1>4 DEF Orderly
<1> QED BY <1>1, <1>2, <1>5 DEF ListInv, Lists

\* The invariant is inductive, unless bans hit slot holders.
LEMMA StepLists ==
  ASSUME ~BanHolders, ListInv, [Next]_vars
  PROVE  ListInv'
<1> USE DEF ListInv
<1>1. CASE ProcessSlots
  <2>1. todo' = s'.uploading /\ feeding' = TRUE
    BY <1>1 DEF ProcessSlots
  <2> QED BY <1>1, <2>1, ProcessSlotsLists
<1>2. ASSUME NEW c \in Clients, ProcessFeed(c) PROVE ListInv'
  <2>1. feeding /\ feeding' = feeding
    BY <1>2 DEF ProcessFeed
  <2> QED BY <1>2, <2>1, ProcessFeedLists
<1>3. CASE ProcessEnd
  <2>1. todo = {} /\ todo' = todo /\ feeding' = FALSE
    BY <1>3 DEF ProcessEnd
  <2>2. Lists(s')
    BY <1>3, SortLists DEF ProcessEnd
  <2> QED BY <2>1, <2>2
<1>4. ASSUME NEW c \in Clients, ClientStep(c) PROVE ListInv'
  <2>1. UNCHANGED <<feeding, todo>>
    BY <1>4
    DEF ClientStep, Hello, HelloAnswer, SocketLost, RequestFile, StartUploadReq,
        StopUpload, ReaskFilePing, ChangeClientID, AskForDownload, SourceAnswers,
        SourceDropped, ProtocolError, BanCorrupter,
        Ban, BanExpires, CleanUpClientList, FilterQueues, HourPasses,
        Handler, Elapses
  <2>2. Lists(s')
    BY <1>4, HelloLists, ConnectionStepsLists, RequestStepsLists,
       RemovalStepsLists, BanLists, DownloadStepsLists, OtherClientStepsLists
    DEF ClientStep
  <2>3. feeding => s'.uploading = s.uploading
    BY <1>4
    DEF ClientStep, Hello, HelloAnswer, SocketLost, RequestFile, StartUploadReq,
        StopUpload, ReaskFilePing, ChangeClientID, AskForDownload, SourceAnswers,
        SourceDropped, ProtocolError, BanCorrupter,
        Ban, BanExpires, CleanUpClientList, FilterQueues, HourPasses,
        Handler, Elapses, Lists, State
  <2> QED BY <2>1, <2>2, <2>3
<1>5. ASSUME NEW f \in Files, FileStep(f) PROVE ListInv'
  <2>1. UNCHANGED <<feeding, todo>> /\ ~feeding
    BY <1>5
    DEF FileStep, PerformFileComplete, CompleteFileEnded, DeleteFile, Unshare,
        Share, Handler
  <2> QED BY <1>5, <2>1, FileStepLists
<1>6. CASE ResortQueue
  <2>1. UNCHANGED <<feeding, todo>> /\ s' \in Sorted(s)
    BY <1>6 DEF ResortQueue, Handler
  <2> QED BY <2>1, SortLists
<1>7. CASE SecondPasses
  <2>1. s' \in State /\ SameLists(s, s') /\ UNCHANGED <<feeding, todo>>
    BY <1>7 DEF SecondPasses, Elapses, Lists, State, SameLists
  <2> QED BY <2>1, SameListsKeep DEF SameLists
<1>8. CASE UNCHANGED vars
  BY <1>8 DEF vars
<1> QED BY <1>1, <1>2, <1>3, <1>4, <1>5, <1>6, <1>7, <1>8 DEF Next, Process

\* The queue's two lists and the clients' upload states agree.
THEOREM SlotStateCorrect ==
  ASSUME ~BanHolders
  PROVE  Spec => []SlotStateAgrees
<1>1. ListInv => SlotStateAgrees
  BY QueuedType DEF ListInv, Lists, Orderly, SlotStateAgrees
<1>2. ListInv /\ [Next]_vars => ListInv'
  BY StepLists
<1> QED BY <1>1, <1>2, InitLists, PTL DEF Spec

\* AddClientToQueue's search, SuspendUpload and the kicks never queue anybody
\* a second time.
THEOREM NobodyWaitsTwiceCorrect ==
  ASSUME ~BanHolders
  PROVE  Spec => []NobodyWaitsTwice
<1>1. ListInv => NobodyWaitsTwice
  BY DEF ListInv, Lists, Orderly, Distinct, NobodyWaitsTwice
<1>2. ListInv /\ [Next]_vars => ListInv'
  BY StepLists
<1> QED BY <1>1, <1>2, InitLists, PTL DEF Spec

\* No path to Safe_Delete leaves a deleted client in one of the lists.
THEOREM NoDeadClientCorrect ==
  ASSUME ~BanHolders
  PROVE  Spec => []NoDeadClientQueued
<1>1. ListInv => NoDeadClientQueued
  BY DEF ListInv, Lists, Orderly, Queued, NoDeadClientQueued
<1>2. ListInv /\ [Next]_vars => ListInv'
  BY StepLists
<1> QED BY <1>1, <1>2, InitLists, PTL DEF Spec

\* Sockets belong to live objects, and a slot that waits for its connection does
\* not have it yet.
THEOREM SocketCorrect ==
  ASSUME ~BanHolders
  PROVE  Spec => []SocketAgrees
<1>1. ListInv => SocketAgrees
  BY DEF ListInv, Lists, Orderly, SocketAgrees
<1>2. ListInv /\ [Next]_vars => ListInv'
  BY StepLists
<1> QED BY <1>1, <1>2, InitLists, PTL DEF Spec

\* The loop of CUploadQueue::Process can go on from its saved iterator.
THEOREM IteratorCorrect ==
  ASSUME ~BanHolders
  PROVE  Spec => []IteratorValid
<1>1. ListInv => IteratorValid
  BY DEF ListInv, IteratorValid
<1>2. ListInv /\ [Next]_vars => ListInv'
  BY StepLists
<1> QED BY <1>1, <1>2, InitLists, PTL DEF Spec
=============================================================================
