--------------------------- MODULE UploadRankProofs ---------------------------
(***************************************************************************)
(* What the upload queue tells and owes its clients: the rank a client is   *)
(* told is its place in the list or none at all, a client in a slot has an  *)
(* upload file, and nobody gets a slot past those who wait.                 *)
(*                                                                          *)
(* Like the other proofs of this queue these are about state records.  Most *)
(* functions are Calm: they let nobody into either list.  The handlers are  *)
(* Fair: whoever they let into a slot waited, or nobody waits.  Ranks need  *)
(* that nobody waits twice, which UploadQueueProofs shows, and only one     *)
(* handler, PerformFileComplete, needs that nobody is in both lists.        *)
(***************************************************************************)
EXTENDS UploadQueueProofs

\* RankIsPosition, of a state record whose clients wait once.
Ranked(S) ==
  /\ Distinct(S)
  /\ \A i \in 1..Len(S.waiting) : S.rank[S.waiting[i]] \in {0, i}
  /\ \A c \in Clients \ Queued(S) : S.rank[c] = 0

\* UploaderHasFile, of a state record.
HasFiles(S) == \A c \in S.uploading : S.file[c] # NoFile

\* Nobody enters a list, no slot holder loses its file, and the ranks stay right.
Calm(S, T) ==
  /\ T \in State
  /\ T.uploading \subseteq S.uploading
  /\ Queued(T) \subseteq Queued(S)
  /\ Ranked(S) => Ranked(T)
  /\ \A c \in T.uploading : S.file[c] # NoFile => T.file[c] # NoFile

\* Who enters m_uploadinglist waited, or nobody waits.
Fair(S, T) ==
  /\ T \in State
  /\ HasFiles(S) => HasFiles(T)
  /\ \A c \in T.uploading \ S.uploading : c \in Queued(S) \/ Len(T.waiting) = 0

\* Nothing this is about differs, but for the files of those without a slot.
SameRanks(S, T) ==
  /\ T.waiting = S.waiting /\ T.uploading = S.uploading /\ T.rank = S.rank
  /\ \A c \in S.uploading : S.file[c] # NoFile => T.file[c] # NoFile

\* Ranks and lists alone decide Ranked and Queued.
LEMMA RankedSame ==
  ASSUME NEW S, NEW T, T.waiting = S.waiting, T.rank = S.rank
  PROVE  Queued(T) = Queued(S) /\ (Ranked(S) => Ranked(T))
BY DEF Queued, Ranked, Distinct

\* A step that changes nothing of this is calm.
LEMMA SameRanksCalm ==
  ASSUME NEW S, NEW T \in State, SameRanks(S, T)
  PROVE  Calm(S, T)
BY RankedSame DEF SameRanks, Calm

\* Calm is reflexive ...
LEMMA CalmRefl ==
  ASSUME NEW S \in State
  PROVE  Calm(S, S)
BY DEF Calm

\* ... and transitive.
LEMMA CalmTrans ==
  ASSUME NEW R, NEW S, NEW T, Calm(R, S), Calm(S, T)
  PROVE  Calm(R, T)
BY DEF Calm

\* What is calm is fair ...
LEMMA CalmFair ==
  ASSUME NEW S, NEW T, Calm(S, T)
  PROVE  Fair(S, T) /\ (Ranked(S) => Ranked(T))
BY DEF Calm, Fair, HasFiles

\* ... also before ...
LEMMA CalmThenFair ==
  ASSUME NEW R, NEW S, NEW T, Calm(R, S), Fair(S, T)
  PROVE  Fair(R, T)
BY DEF Calm, Fair, HasFiles

\* ... and after it, if nothing of this changes.
LEMMA FairThenSame ==
  ASSUME NEW R, NEW S, NEW T \in State, Fair(R, S), SameRanks(S, T)
  PROVE  Fair(R, T) /\ (Ranked(S) => Ranked(T))
BY RankedSame DEF SameRanks, Fair, HasFiles

-----------------------------------------------------------------------------
(***************************************************************************)
(* Leaving the lists.                                                       *)
(***************************************************************************)
\* RemoveFromUploadQueue and the loop of SuspendUpload.
LEMMA LeaveUploadCalm ==
  ASSUME NEW S \in State, NEW D \in SUBSET Clients
  PROVE  LET T == LeaveUpload(S, D)
         IN  /\ Calm(S, T)
             /\ T.uploading = S.uploading \ D
             /\ T.file = S.file /\ T.waiting = S.waiting /\ T.rank = S.rank
             /\ T.alive = S.alive
<1> DEFINE T == LeaveUpload(S, D)
<1>1. T \in State
  BY LeaveUploadGentle DEF Gentle
<1>2. /\ T.uploading = S.uploading \ D /\ T.file = S.file
      /\ T.waiting = S.waiting /\ T.rank = S.rank /\ T.alive = S.alive
  BY DEF LeaveUpload, State
<1> HIDE DEF T
<1>3. Calm(S, T)
  BY <1>1, <1>2, RankedSame DEF Calm
<1> QED BY <1>2, <1>3 DEF T

\* An object that holds no slot may be forgotten with its file.
LEMMA ForgetCalm ==
  ASSUME NEW S \in State, NEW D \in SUBSET Clients, D \cap S.uploading = {}
  PROVE  LET T == Forget(S, D)
         IN  /\ Calm(S, T)
             /\ T.uploading = S.uploading
             /\ T.waiting = S.waiting /\ T.rank = S.rank
             /\ T.alive = S.alive \ D
             /\ \A c \in Clients \ D : T.file[c] = S.file[c]
<1> DEFINE T == Forget(S, D)
<1>1. T \in State
  BY ForgetGentle DEF Gentle
<1>2. /\ T.uploading = S.uploading
      /\ T.waiting = S.waiting /\ T.rank = S.rank
      /\ T.alive = S.alive \ D
      /\ T.file = [c \in Clients |-> IF c \in D THEN NoFile ELSE S.file[c]]
  BY DEF Forget, State
<1> HIDE DEF T
<1>3. \A c \in Clients \ D : T.file[c] = S.file[c]
  BY <1>2
<1>4. S.uploading \in SUBSET Clients
  BY StateTypes
<1>5. Calm(S, T)
  BY <1>1, <1>2, <1>3, <1>4, RankedSame DEF Calm
<1> QED BY <1>2, <1>3, <1>5 DEF T

\* Who waits once is found where it waits.
LEMMA PositionIs ==
  ASSUME NEW S \in State, Distinct(S), NEW i \in 1..Len(S.waiting)
  PROVE  Position(S, S.waiting[i]) = i
<1>1. S.waiting[i] \in Clients /\ InWaiting(S, S.waiting[i])
  BY StateTypes, ElementOfSeq DEF InWaiting
<1>2. /\ Position(S, S.waiting[i]) \in 1..Len(S.waiting)
      /\ S.waiting[Position(S, S.waiting[i])] = S.waiting[i]
  BY <1>1, PositionProperties
<1> QED BY <1>2 DEF Distinct

\* SetUploadQueueWaitingPosition for the list from position i on.
LEMMA RenumberRanks ==
  ASSUME NEW S \in State, NEW i \in Nat \ {0}, Distinct(S)
  PROVE  LET T == Renumber(S, i)
         IN  /\ T \in State
             /\ T.waiting = S.waiting /\ T.uploading = S.uploading
             /\ T.file = S.file /\ T.alive = S.alive
             /\ \A k \in 1..Len(S.waiting) :
                  T.rank[S.waiting[k]] =
                    IF k < i THEN S.rank[S.waiting[k]] ELSE k
             /\ \A c \in Clients \ Queued(S) : T.rank[c] = S.rank[c]
<1> DEFINE T == Renumber(S, i)
           n == Len(S.waiting)
           f == [c \in Clients |->
                   IF \E k \in i..n : S.waiting[k] = c
                   THEN Position(S, c) ELSE S.rank[c]]
<1>1. T \in State
  BY RenumberGentle DEF Gentle
<1>2. /\ T.waiting = S.waiting /\ T.uploading = S.uploading
      /\ T.file = S.file /\ T.alive = S.alive /\ T.rank = f
  BY DEF Renumber, State
<1>3. n \in Nat
  BY StateTypes
<1>4. ASSUME NEW k \in 1..n
      PROVE  f[S.waiting[k]] = IF k < i THEN S.rank[S.waiting[k]] ELSE k
  <2>1. S.waiting[k] \in Clients
    BY StateTypes, ElementOfSeq
  <2>2. CASE k < i
    <3>1. ~ \E m \in i..n : S.waiting[m] = S.waiting[k]
      BY <1>3, <2>2 DEF Distinct
    <3> QED BY <2>1, <2>2, <3>1
  <2>3. CASE ~(k < i)
    <3>1. k \in i..n
      BY <1>3, <2>3
    <3> QED BY <2>1, <2>3, <3>1, PositionIs
  <2> QED BY <2>2, <2>3
<1>5. ASSUME NEW c \in Clients \ Queued(S) PROVE f[c] = S.rank[c]
  <2>1. ~ \E k \in i..n : S.waiting[k] = c
    BY <1>3 DEF Queued
  <2> QED BY <2>1
<1> QED BY <1>1, <1>2, <1>4, <1>5

\* RemoveFromWaitingQueue for the client at position i: those behind it move up.
LEMMA TakeCalm ==
  ASSUME NEW S \in State, NEW i \in 1..Len(S.waiting)
  PROVE  LET T == Renumber(TakeFromWaiting(S, i), i)
         IN  /\ Calm(S, T)
             /\ T.uploading = S.uploading
             /\ T.file = S.file /\ T.alive = S.alive
<1> DEFINE D == TakeFromWaiting(S, i)
           T == Renumber(D, i)
           n == Len(S.waiting)
           a == S.waiting[i]
<1>1. D \in State
  BY TakeFromWaitingGentle DEF Gentle
<1>2. a \in Clients /\ n \in Nat /\ i \in Nat \ {0}
  BY StateTypes, ElementOfSeq
<1>3. /\ D.waiting = RemoveAt(S.waiting, i) /\ D.uploading = S.uploading
      /\ D.file = S.file /\ D.alive = S.alive
      /\ D.rank = [S.rank EXCEPT ![a] = 0]
  BY DEF TakeFromWaiting, State
<1>4. /\ Len(D.waiting) = n - 1
      /\ \A k \in 1..(n - 1) :
           D.waiting[k] = IF k < i THEN S.waiting[k] ELSE S.waiting[k + 1]
  <2>1. S.waiting \in Seq(Clients)
    BY StateTypes
  <2>2. /\ Len(RemoveAt(S.waiting, i)) = n - 1
        /\ \A k \in 1..(n - 1) :
             RemoveAt(S.waiting, i)[k] =
               IF k < i THEN S.waiting[k] ELSE S.waiting[k + 1]
    BY <2>1, RemoveAtProperties
  <2> HIDE DEF D
  <2> QED BY <1>3, <2>2
<1>5. \A c \in Clients : D.rank[c] = IF c = a THEN 0 ELSE S.rank[c]
  <2>1. S.rank \in [Clients -> Nat]
    BY DEF State
  <2> HIDE DEF D
  <2> QED BY <1>2, <1>3, <2>1
<1> HIDE DEF D
<1>6. ASSUME NEW k \in 1..(n - 1)
      PROVE  \E m \in 1..n : /\ m # i /\ D.waiting[k] = S.waiting[m]
                             /\ k < i => m = k
                             /\ m < i \/ k >= i
  <2>1. CASE k < i
    <3>1. k \in 1..n /\ k # i
      BY <1>2, <2>1
    <3> QED BY <1>4, <2>1, <3>1
  <2>2. CASE ~(k < i)
    <3>1. k + 1 \in 1..n /\ k + 1 # i /\ k >= i
      BY <1>2, <2>2
    <3> QED BY <1>4, <2>2, <3>1
  <2> QED BY <2>1, <2>2
<1>7. Queued(D) \subseteq Queued(S)
  BY <1>4, <1>6 DEF Queued
<1>8. /\ T \in State /\ T.waiting = D.waiting /\ T.uploading = D.uploading
      /\ T.file = D.file /\ T.alive = D.alive
  BY <1>1, <1>2, RenumberGentle DEF Renumber, State, Gentle
<1>9. ASSUME Ranked(S) PROVE Ranked(T)
  <2>1. Distinct(S)
    BY <1>9 DEF Ranked
  <2>2. Distinct(D)
    BY <1>2, <1>4, <2>1 DEF Distinct
  <2>3. /\ \A k \in 1..(n - 1) :
             T.rank[D.waiting[k]] = IF k < i THEN D.rank[D.waiting[k]] ELSE k
        /\ \A c \in Clients \ Queued(D) : T.rank[c] = D.rank[c]
    BY <1>1, <1>2, <1>4, <2>2, RenumberRanks
  <2> HIDE DEF T
  <2>4. ASSUME NEW k \in 1..(n - 1)
        PROVE  T.rank[D.waiting[k]] \in {0, k}
    <3>1. CASE k < i
      <4>1. k \in 1..n /\ k # i
        BY <1>2, <3>1
      <4>2. D.waiting[k] = S.waiting[k] /\ S.waiting[k] \in Clients
        BY <1>4, <3>1, <4>1, StateTypes, ElementOfSeq
      <4>3. S.waiting[k] # a
        BY <2>1, <4>1 DEF Distinct
      <4>4. S.rank[S.waiting[k]] \in {0, k}
        BY <1>9, <4>1 DEF Ranked
      <4> QED BY <1>5, <2>3, <3>1, <4>2, <4>3, <4>4
    <3>2. CASE ~(k < i)
      BY <2>3, <3>2
    <3> QED BY <3>1, <3>2
  <2>5. ASSUME NEW c \in Clients \ Queued(D)
        PROVE  T.rank[c] = 0
    <3>1. CASE c = a
      BY <1>5, <2>3, <3>1
    <3>2. CASE c # a
      <4>1. c \notin Queued(S)
        <5>1. ASSUME NEW m \in 1..n, S.waiting[m] = c PROVE FALSE
          <6>1. CASE m < i
            <7>1. m \in 1..(n - 1)
              BY <1>2, <6>1
            <7>2. D.waiting[m] = c
              BY <1>4, <5>1, <6>1, <7>1
            <7> QED BY <1>4, <2>5, <7>1, <7>2 DEF Queued
          <6>2. CASE m > i
            <7>1. m - 1 \in 1..(n - 1) /\ ~(m - 1 < i) /\ (m - 1) + 1 = m
              BY <1>2, <6>2
            <7>2. D.waiting[m - 1] = c
              BY <1>4, <5>1, <7>1
            <7> QED BY <1>4, <2>5, <7>1, <7>2 DEF Queued
          <6>3. m # i
            BY <3>2, <5>1
          <6> QED BY <1>2, <6>1, <6>2, <6>3
        <5> QED BY <5>1 DEF Queued
      <4>2. S.rank[c] = 0
        BY <1>9, <4>1 DEF Ranked
      <4> QED BY <1>5, <2>3, <3>2, <4>2
    <3> QED BY <3>1, <3>2
  <2>6. Distinct(T) /\ Queued(T) = Queued(D)
    BY <1>8, <2>2 DEF Distinct, Queued
  <2> QED BY <1>4, <1>8, <2>4, <2>5, <2>6 DEF Ranked
<1> HIDE DEF T
<1>10. Queued(T) = Queued(D)
  BY <1>8 DEF Queued
<1>11. Calm(S, T)
  BY <1>3, <1>7, <1>8, <1>9, <1>10 DEF Calm
<1> QED BY <1>3, <1>8, <1>11 DEF T, D

\* RemoveFromWaitingQueue(client), found or not.
LEMMA RemoveFromWaitingQueueCalm ==
  ASSUME NEW S \in State, NEW c \in Clients
  PROVE  LET T == RemoveFromWaitingQueue(S, c)
         IN  /\ Calm(S, T)
             /\ T.uploading = S.uploading
             /\ T.file = S.file /\ T.alive = S.alive
<1>1. CASE InWaiting(S, c)
  <2>1. Position(S, c) \in 1..Len(S.waiting)
    BY <1>1, PositionProperties
  <2> QED BY <1>1, <2>1, TakeCalm DEF RemoveFromWaitingQueue
<1>2. CASE ~InWaiting(S, c)
  BY <1>2, CalmRefl DEF RemoveFromWaitingQueue
<1> QED BY <1>1, <1>2

\* Safe_Delete, of a live or a dying client.
LEMMA SafeDeleteCalm ==
  ASSUME NEW S \in State, NEW c \in Clients
  PROVE  LET T == SafeDelete(S, c)
         IN  /\ Calm(S, T)
             /\ c \notin T.alive
<1>1. CASE c \notin S.alive
  BY <1>1, CalmRefl DEF SafeDelete
<1>2. CASE c \in S.alive
  <2> DEFINE R == RemoveFromUploadQueue(S, c)
             Q == RemoveFromWaitingQueue(R, c)
             T == Forget(Q, {c})
  <2>1. Calm(S, R) /\ R.uploading = S.uploading \ {c}
    BY LeaveUploadCalm DEF RemoveFromUploadQueue
  <2> HIDE DEF R
  <2>2. Calm(R, Q) /\ Q.uploading = R.uploading
    BY <2>1, RemoveFromWaitingQueueCalm DEF Calm
  <2> HIDE DEF Q
  <2>3. Calm(Q, T) /\ T.alive = Q.alive \ {c}
    BY <2>1, <2>2, ForgetCalm DEF Calm
  <2>4. T = SafeDelete(S, c)
    BY <1>2 DEF SafeDelete, R, Q
  <2> HIDE DEF T
  <2>5. Calm(S, T)
    BY <2>1, <2>2, <2>3, CalmTrans
  <2> QED BY <2>3, <2>4, <2>5
<1> QED BY <1>1, <1>2

-----------------------------------------------------------------------------
(***************************************************************************)
(* Connections.                                                             *)
(***************************************************************************)
\* Disconnected, whatever the states of the client are.
LEMMA AfterDisconnectCalm ==
  ASSUME NEW S \in State, NEW c \in Clients
  PROVE  Calm(S, AfterDisconnect(S, c)) /\ AfterDisconnect(S, c).file = S.file
<1> DEFINE R == IF S.up[c] = "uploading" THEN RemoveFromUploadQueue(S, c) ELSE S
           T == AfterDisconnect(S, c)
<1>1. Calm(S, R) /\ R.file = S.file
  BY CalmRefl, LeaveUploadCalm DEF RemoveFromUploadQueue
<1>2. T = [R EXCEPT !.sock[c] = "none",
                    !.down[c] = CASE @ = "downloading" -> "onqueue"
                                  [] @ = "connected"   -> "none"
                                  [] OTHER             -> @]
  BY DEF AfterDisconnect
<1>3. T \in State
  BY AfterDisconnectGentle DEF Gentle
<1>4. R \in State
  BY <1>1 DEF Calm
<1> HIDE DEF R, T
<1>5. /\ T.waiting = R.waiting /\ T.uploading = R.uploading
      /\ T.rank = R.rank /\ T.file = R.file
  BY <1>2, <1>4 DEF State
<1>6. Calm(R, T)
  BY <1>3, <1>5, SameRanksCalm DEF SameRanks
<1> QED BY <1>1, <1>5, <1>6, CalmTrans DEF T

\* Disconnected and the Safe_Delete that may follow: who lives has its file.
LEMMA DisconnectCalm ==
  ASSUME NEW S \in State, NEW c \in Clients
  PROVE  LET T == Disconnect(S, c)
         IN  Calm(S, T) /\ (c \in T.alive => T.file = S.file)
<1> DEFINE A == AfterDisconnect(S, c)
<1>1. Calm(S, A) /\ A.file = S.file /\ A \in State
  BY AfterDisconnectCalm DEF Calm
<1> HIDE DEF A
<1>2. Calm(A, SafeDelete(A, c)) /\ c \notin SafeDelete(A, c).alive
  BY <1>1, SafeDeleteCalm
<1>3. Calm(S, SafeDelete(A, c))
  BY <1>1, <1>2, CalmTrans
<1> QED BY <1>1, <1>2, <1>3, CalmRefl DEF Disconnect, A

\* ConnectionEstablished changes states, not lists.
LEMMA ConnectionEstablishedCalm ==
  ASSUME NEW S \in State, NEW c \in Clients
  PROVE  LET T == ConnectionEstablished(S, c)
         IN  Calm(S, T) /\ T.file = S.file
<1> DEFINE T == ConnectionEstablished(S, c)
<1>1. T \in State
  BY ConnectionEstablishedGentle DEF Gentle
<1>2. /\ T.waiting = S.waiting /\ T.uploading = S.uploading
      /\ T.rank = S.rank /\ T.file = S.file
  BY DEF ConnectionEstablished, State
<1> HIDE DEF T
<1>3. Calm(S, T)
  BY <1>1, <1>2, SameRanksCalm DEF SameRanks
<1> QED BY <1>2, <1>3 DEF T

\* TryToConnect, also when it deletes the client.
LEMMA TryToConnectCalm ==
  ASSUME NEW S \in State, NEW c \in Clients
  PROVE  LET T == TryToConnect(S, c)
         IN  Calm(S, T) /\ (c \in T.alive => T.file = S.file)
<1> DEFINE U == [S EXCEPT !.sock[c] = "opening"]
<1>1. /\ U \in State /\ U.file = S.file
      /\ U.waiting = S.waiting /\ U.uploading = S.uploading /\ U.rank = S.rank
  BY DEF State, Sockets
<1> HIDE DEF U
<1>2. Calm(S, U)
  BY <1>1, SameRanksCalm DEF SameRanks
<1>3. CASE c \in Unreachable \/ c \in S.banned
  BY <1>3, DisconnectCalm DEF TryToConnect
<1>4. CASE ~(c \in Unreachable \/ c \in S.banned) /\ IsConnected(S, c)
  BY <1>4, ConnectionEstablishedCalm DEF TryToConnect
<1>5. CASE ~(c \in Unreachable \/ c \in S.banned) /\ ~IsConnected(S, c)
  BY <1>1, <1>2, <1>5 DEF TryToConnect, U
<1> QED BY <1>3, <1>4, <1>5

-----------------------------------------------------------------------------
(***************************************************************************)
(* Giving a slot.                                                           *)
(***************************************************************************)
\* From S to T at most c enters m_uploadinglist, and it has a file.
Enters(S, T, c) ==
  /\ T \in State
  /\ T.uploading \subseteq S.uploading \cup {c}
  /\ Queued(T) \subseteq Queued(S)
  /\ HasFiles(S) => HasFiles(T)
  /\ Ranked(S) => Ranked(T)

\* What is calm lets c in no more than anybody else.
LEMMA CalmEnters ==
  ASSUME NEW S, NEW T, NEW c, Calm(S, T)
  PROVE  Enters(S, T, c)
BY DEF Calm, Enters, HasFiles

\* Calm steps may precede the entry.
LEMMA CalmThenEnters ==
  ASSUME NEW R, NEW S, NEW T, NEW c, Calm(R, S), Enters(S, T, c)
  PROVE  Enters(R, T, c)
BY DEF Calm, Enters, HasFiles

\* A client with a file enters m_uploadinglist.
LEMMA EnlistEnters ==
  ASSUME NEW S \in State, NEW c \in Clients, S.file[c] # NoFile
  PROVE  Enters(S, Enlist(S, c), c)
<1> DEFINE T == Enlist(S, c)
<1>1. S.nUploading + 1 \in Int
  BY StateTypes
<1>2. T \in State
  BY <1>1 DEF Enlist, State
<1>3. /\ T.uploading = S.uploading \cup {c} /\ T.file = S.file
      /\ T.waiting = S.waiting /\ T.rank = S.rank
  BY DEF Enlist, State
<1> HIDE DEF T
<1>4. Enters(S, T, c)
  BY <1>2, <1>3, RankedSame DEF Enters, HasFiles
<1> QED BY <1>4 DEF T

\* AddUpNextClient, for a client that is connected, dialled or lost.
LEMMA GiveSlotEnters ==
  ASSUME NEW S \in State, NEW c \in Clients, S.file[c] # NoFile
  PROVE  Enters(S, GiveSlot(S, c), c)
<1> DEFINE Up(u) == [S EXCEPT !.up[c] = u]
<1>1. ASSUME NEW u \in UpStates
      PROVE  Calm(S, Up(u)) /\ Up(u) \in State /\ Up(u).file = S.file
  <2>1. /\ Up(u) \in State /\ Up(u).file = S.file
        /\ Up(u).waiting = S.waiting /\ Up(u).uploading = S.uploading
        /\ Up(u).rank = S.rank
    BY DEF State
  <2> QED BY <2>1, SameRanksCalm DEF SameRanks
<1>2. "uploading" \in UpStates /\ "connecting" \in UpStates
  BY DEF UpStates
<1>3. CASE c \in S.uploading
  BY <1>3, CalmRefl, CalmEnters DEF GiveSlot
<1>4. CASE c \notin S.uploading /\ IsConnected(S, c)
  <2> DEFINE U == Up("uploading")
  <2>1. Calm(S, U) /\ U \in State /\ U.file = S.file
    BY <1>1, <1>2
  <2>2. GiveSlot(S, c) = Enlist(U, c)
    BY <1>4 DEF GiveSlot
  <2> HIDE DEF U
  <2>3. Enters(U, Enlist(U, c), c)
    BY <2>1, EnlistEnters
  <2> QED BY <2>1, <2>2, <2>3, CalmThenEnters
<1>5. CASE c \notin S.uploading /\ ~IsConnected(S, c)
  <2> DEFINE U == Up("connecting")
             T == TryToConnect(U, c)
  <2>1. Calm(S, U) /\ U \in State /\ U.file = S.file
    BY <1>1, <1>2
  <2>2. GiveSlot(S, c) = IF c \in T.alive THEN Enlist(T, c) ELSE T
    BY <1>5 DEF GiveSlot
  <2> HIDE DEF U
  <2>3. Calm(U, T) /\ (c \in T.alive => T.file = U.file)
    BY <2>1, TryToConnectCalm
  <2> HIDE DEF T
  <2>4. Calm(S, T) /\ T \in State
    BY <2>1, <2>3, CalmTrans DEF Calm
  <2>5. CASE c \in T.alive
    BY <2>1, <2>2, <2>3, <2>4, <2>5, EnlistEnters, CalmThenEnters
  <2>6. CASE c \notin T.alive
    BY <2>2, <2>4, <2>6, CalmEnters
  <2> QED BY <2>5, <2>6
<1> QED BY <1>3, <1>4, <1>5

\* The directadd branch, which may refuse the file.
LEMMA AddDirectlyEnters ==
  ASSUME NEW S \in State, NEW c \in Clients
  PROVE  Enters(S, AddDirectly(S, c), c)
<1>1. CASE Servable(S, S.file[c])
  <2>1. S.file[c] # NoFile
    BY <1>1, ConstantsAssumption DEF Servable, State
  <2> QED BY <1>1, <2>1, GiveSlotEnters DEF AddDirectly
<1>2. CASE ~Servable(S, S.file[c])
  BY <1>2, CalmRefl, CalmEnters DEF AddDirectly
<1> QED BY <1>1, <1>2

-----------------------------------------------------------------------------
(***************************************************************************)
(* Sorting.                                                                 *)
(***************************************************************************)
\* After the first pass those who left have no rank, and those who wait were
\* kept.
LEMMA PurgeAndSortRanks ==
  ASSUME NEW S \in State, NEW K \in SUBSET (1..Len(S.waiting)),
         NEW p \in Orders(S, K)
  PROVE  LET T == PurgeAndSort(S, K, p)
         IN  /\ T \in State
             /\ T.uploading \subseteq S.uploading
             /\ \A c \in Queued(T) : \E i \in K : c = S.waiting[i]
             /\ \A c \in T.uploading : T.file[c] = S.file[c]
             /\ \A c \in Queued(T) :
                  \/ T.file[c] = S.file[c]
                  \/ \E i \in (1..Len(S.waiting)) \ K : c = S.waiting[i]
             /\ Distinct(S) => Distinct(T)
             /\ Ranked(S) => \A c \in Clients \ Queued(T) : T.rank[c] = 0
<1> DEFINE n == Cardinality(K)
           P == {S.waiting[i] : i \in (1..Len(S.waiting)) \ K}
           w == [i \in 1..n |-> S.waiting[p[i]]]
           up == [c \in Clients |-> IF c \in P THEN "none" ELSE S.up[c]]
           rank == [c \in Clients |-> IF c \in P THEN 0 ELSE S.rank[c]]
           ban == S.banned \ {c \in P : IsBanned(S, c)}
           Q == [S EXCEPT !.waiting  = w,
                          !.nWaiting = @ - (Len(S.waiting) - n),
                          !.banned   = ban,
                          !.up       = up,
                          !.rank     = rank]
           O == Orphans(Q, P)
           L == LeaveUpload(Q, O)
           T == Forget(L, O)
<1>1. n \in Nat /\ IsFiniteSet(K)
  <2>1. IsFiniteSet(1..Len(S.waiting))
    BY FS_Interval, StateTypes
  <2> QED BY <2>1, FS_Subset, FS_CardinalityType
<1>2. /\ p \in [1..n -> K]
      /\ \A i, j \in 1..n : i # j => p[i] # p[j]
  BY DEF Orders
<1>3. w \in [1..n -> Clients] /\ \A i \in 1..n : w[i] = S.waiting[p[i]]
  BY <1>2, StateTypes, ElementOfSeq
<1>4. w \in Seq(Clients) /\ Len(w) = n
  <2>1. w \in Seq(Clients)
    BY <1>1, <1>3, SeqDef
  <2>2. Len(w) \in Nat /\ DOMAIN w = 1..Len(w)
    BY <2>1, LenProperties
  <2> QED BY <1>1, <1>3, <2>1, <2>2
<1>5. P \in SUBSET Clients
  BY StateTypes, ElementOfSeq
<1>6. /\ up \in [Clients -> UpStates] /\ rank \in [Clients -> Nat]
      /\ ban \in SUBSET Clients
  BY DEF State, UpStates
<1>7. S.nWaiting - (Len(S.waiting) - n) \in Int
  BY <1>1, StateTypes
<1>8. \A c \in Clients : rank[c] = IF c \in P THEN 0 ELSE S.rank[c]
  OBVIOUS
<1>9. \A i \in 1..Len(S.waiting) : i \notin K => S.waiting[i] \in P
  OBVIOUS
<1>10. \A c \in P : \E i \in (1..Len(S.waiting)) \ K : c = S.waiting[i]
  OBVIOUS
<1>11. PurgeAndSort(S, K, p) = T
  BY DEF PurgeAndSort
<1>12. O \in SUBSET P
  BY DEF Orphans
<1> HIDE DEF w, up, rank, ban, P
<1>13. Q \in State
  BY <1>4, <1>6, <1>7 DEF State
<1>14. /\ Q.uploading = S.uploading /\ Q.waiting = w
       /\ Q.file = S.file /\ Q.rank = rank
  BY DEF State
<1> HIDE DEF Q, O
<1>15. O \in SUBSET Clients
  BY <1>5, <1>12
<1>16. /\ Calm(Q, L) /\ L.uploading = Q.uploading \ O
       /\ L.file = Q.file /\ L.waiting = Q.waiting /\ L.rank = Q.rank
  BY <1>13, <1>15, LeaveUploadCalm
<1> HIDE DEF L
<1>17. /\ Calm(L, T) /\ T.uploading = L.uploading
       /\ T.waiting = L.waiting /\ T.rank = L.rank
       /\ \A c \in Clients \ O : T.file[c] = L.file[c]
  BY <1>15, <1>16, ForgetCalm DEF Calm
<1> HIDE DEF T
<1>18. T \in State /\ T.uploading \subseteq S.uploading
  BY <1>14, <1>16, <1>17 DEF Calm
<1>19. ASSUME NEW c \in Queued(T)
       PROVE  \E i \in 1..n : c = S.waiting[p[i]] /\ p[i] \in K
  BY <1>2, <1>3, <1>4, <1>14, <1>16, <1>17, <1>19 DEF Queued
<1>20. \A c \in Queued(T) : \E i \in K : c = S.waiting[i]
  BY <1>19
<1>21. \A c \in T.uploading : T.file[c] = S.file[c]
  <2>1. T.uploading \in SUBSET Clients
    BY <1>18, StateTypes
  <2> QED BY <1>14, <1>16, <1>17, <2>1
<1>22. ASSUME Distinct(S) PROVE Distinct(T)
  <2>1. ASSUME NEW i \in 1..n, NEW j \in 1..n, i # j PROVE w[i] # w[j]
    <3>1. p[i] # p[j] /\ p[i] \in 1..Len(S.waiting) /\ p[j] \in 1..Len(S.waiting)
      BY <1>2, <2>1
    <3>2. S.waiting[p[i]] # S.waiting[p[j]]
      BY <1>22, <3>1 DEF Distinct
    <3> QED BY <1>3, <3>2
  <2> QED BY <1>4, <1>14, <1>16, <1>17, <2>1 DEF Distinct
<1>23. ASSUME NEW c \in Queued(T),
              ~ \E i \in (1..Len(S.waiting)) \ K : c = S.waiting[i]
       PROVE  T.file[c] = S.file[c]
  <2>1. c \notin P
    BY <1>10, <1>23
  <2>2. c \in Clients
    BY <1>18, QueuedType
  <2> QED BY <1>12, <1>14, <1>16, <1>17, <2>1, <2>2
<1>24. ASSUME Ranked(S), NEW c \in Clients \ Queued(T) PROVE T.rank[c] = 0
  <2>1. T.rank[c] = rank[c]
    BY <1>14, <1>16, <1>17
  <2>2. CASE c \in P
    BY <1>8, <2>1, <2>2
  <2>3. CASE c \notin P /\ c \notin Queued(S)
    BY <1>8, <1>24, <2>1, <2>3 DEF Ranked
  <2>4. CASE c \notin P /\ c \in Queued(S)
    <3>1. PICK k \in 1..Len(S.waiting) : c = S.waiting[k]
      BY <2>4 DEF Queued
    <3>2. k \in K
      BY <1>9, <2>4, <3>1
    <3>3. \E i \in 1..n : p[i] = k
      <4>1. IsFiniteSet(1..n) /\ Cardinality(1..n) = n
        BY <1>1, FS_Interval
      <4>2. p \in Injection(1..n, K)
        BY <1>2 DEF Injection, IsInjective
      <4>3. p \in Surjection(1..n, K)
        BY <1>1, <4>1, <4>2, FS_Injection
      <4> QED BY <3>2, <4>3 DEF Surjection
    <3>4. PICK i \in 1..n : p[i] = k
      BY <3>3
    <3>5. T.waiting[i] = c /\ Len(T.waiting) = n
      BY <1>3, <1>4, <1>14, <1>16, <1>17, <3>1, <3>4
    <3>6. c \in Queued(T)
      BY <3>5 DEF Queued
    <3> QED BY <1>24, <3>6
  <2> QED BY <2>2, <2>3, <2>4
<1> QED BY <1>11, <1>18, <1>20, <1>21, <1>22, <1>23, <1>24

\* Both passes: whoever still waits has a shared upload file, and its rank.
LEMMA SortedCalm ==
  ASSUME NEW S \in State, NEW T \in Sorted(S)
  PROVE  Calm(S, T) /\ \A c \in Queued(T) : T.file[c] # NoFile
<1> DEFINE K == {i \in 1..Len(S.waiting) : ~Purgeable(S, S.waiting[i])}
<1>1. PICK p \in Orders(S, K) : T = RankAndMark(PurgeAndSort(S, K, p))
  BY DEF Sorted
<1> DEFINE R == PurgeAndSort(S, K, p)
           a == (R.addNext \ {R.waiting[i] : i \in 1..Len(R.waiting)})
                  \cup {R.waiting[i] : i \in 1..(Best(R) - 1)}
           M == [R EXCEPT !.addNext = a]
<1>2. K \in SUBSET (1..Len(S.waiting))
  OBVIOUS
<1>3. /\ \A i \in K : S.file[S.waiting[i]] \in S.shared
      /\ \A i \in (1..Len(S.waiting)) \ K : Purgeable(S, S.waiting[i])
      /\ \A i \in K : ~Purgeable(S, S.waiting[i])
  BY DEF Purgeable
<1> HIDE DEF K
<1>4. /\ R \in State
      /\ R.uploading \subseteq S.uploading
      /\ \A c \in Queued(R) : \E i \in K : c = S.waiting[i]
      /\ \A c \in R.uploading : R.file[c] = S.file[c]
      /\ \A c \in Queued(R) :
           \/ R.file[c] = S.file[c]
           \/ \E i \in (1..Len(S.waiting)) \ K : c = S.waiting[i]
      /\ Distinct(S) => Distinct(R)
      /\ Ranked(S) => \A c \in Clients \ Queued(R) : R.rank[c] = 0
  BY <1>2, PurgeAndSortRanks
<1> HIDE DEF R
<1>5. a \in SUBSET Clients
  <2>1. R.addNext \in SUBSET Clients
    BY <1>4 DEF State
  <2>2. {R.waiting[i] : i \in 1..(Best(R) - 1)} \in SUBSET Clients
    BY <1>4, BestProperties, StateTypes, ElementOfSeq
  <2> QED BY <2>1, <2>2
<1> HIDE DEF a
<1>6. /\ M \in State /\ M.waiting = R.waiting /\ M.uploading = R.uploading
      /\ M.rank = R.rank /\ M.file = R.file
  BY <1>4, <1>5 DEF State
<1>7. T = Renumber(M, 1)
  BY <1>1 DEF RankAndMark, M, a, R
<1> HIDE DEF M
<1>8. /\ T \in State /\ T.waiting = M.waiting /\ T.uploading = M.uploading
      /\ T.file = M.file
  <2>1. T \in State
    BY <1>6, <1>7, RenumberGentle DEF Gentle
  <2> QED BY <1>6, <1>7, <2>1 DEF Renumber, State
<1>9. Queued(T) = Queued(R) /\ Queued(M) = Queued(R)
  BY <1>6, <1>8 DEF Queued
<1>10. Queued(T) \subseteq Queued(S)
  BY <1>2, <1>4, <1>9 DEF Queued
<1>11. ASSUME NEW c \in Queued(T) PROVE T.file[c] # NoFile
  <2>1. PICK i \in K : c = S.waiting[i]
    BY <1>4, <1>9, <1>11
  <2>2. T.file[c] = S.file[c]
    BY <1>3, <1>4, <1>6, <1>8, <1>9, <1>11, <2>1
  <2> QED BY <1>3, <2>1, <2>2, ConstantsAssumption DEF State
<1>12. ASSUME Ranked(S) PROVE Ranked(T)
  <2>1. Distinct(M)
    BY <1>4, <1>6, <1>12 DEF Ranked, Distinct
  <2>2. Distinct(T)
    BY <1>8, <2>1 DEF Distinct
  <2>3. /\ \A k \in 1..Len(M.waiting) :
             T.rank[M.waiting[k]] = IF k < 1 THEN M.rank[M.waiting[k]] ELSE k
        /\ \A c \in Clients \ Queued(M) : T.rank[c] = M.rank[c]
    BY <1>6, <1>7, <2>1, RenumberRanks
  <2>4. Len(M.waiting) \in Nat
    BY <1>6, StateTypes
  <2>5. \A k \in 1..Len(M.waiting) : T.rank[M.waiting[k]] = k
    BY <2>3, <2>4
  <2> QED BY <1>4, <1>6, <1>8, <1>9, <1>12, <2>2, <2>3, <2>5 DEF Ranked
<1>13. Calm(S, T)
  BY <1>4, <1>6, <1>8, <1>10, <1>12 DEF Calm
<1> QED BY <1>11, <1>13

-----------------------------------------------------------------------------
(***************************************************************************)
(* The two ways to a slot.                                                  *)
(***************************************************************************)
\* The client that enters waited.
LEMMA WaitedIsFair ==
  ASSUME NEW S, NEW T, NEW c, Enters(S, T, c),
         c \in Queued(S) \/ Len(T.waiting) = 0
  PROVE  Fair(S, T) /\ (Ranked(S) => Ranked(T))
BY DEF Enters, Fair

\* AddUpNextClient: the best of those who wait.
LEMMA AddUpNextClientFair ==
  ASSUME NEW S \in State, NEW T \in AddUpNextClient(S)
  PROVE  Fair(S, T) /\ (Ranked(S) => Ranked(T))
<1>1. PICK Q \in Sorted(S) :
        T = IF Best(Q) > Len(Q.waiting) THEN Q
            ELSE GiveSlot(
                   [Renumber(TakeFromWaiting(Q, Best(Q)), Best(Q))
                      EXCEPT !.lastHighID = TRUE], Q.waiting[Best(Q)])
  BY DEF AddUpNextClient
<1>2. Calm(S, Q) /\ Q \in State /\ \A c \in Queued(Q) : Q.file[c] # NoFile
  BY SortedCalm DEF Calm
<1>3. CASE Best(Q) > Len(Q.waiting)
  BY <1>1, <1>2, <1>3, CalmFair
<1>4. CASE ~(Best(Q) > Len(Q.waiting))
  <2> DEFINE b == Best(Q)
             c == Q.waiting[b]
             R == Renumber(TakeFromWaiting(Q, b), b)
             H == [R EXCEPT !.lastHighID = TRUE]
  <2>1. b \in 1..Len(Q.waiting)
    BY <1>2, <1>4, BestProperties, StateTypes
  <2>2. c \in Clients /\ c \in Queued(Q)
    BY <1>2, <2>1, StateTypes, ElementOfSeq DEF Queued
  <2>3. Calm(Q, R) /\ R.file = Q.file
    BY <1>2, <2>1, TakeCalm
  <2>4. T = GiveSlot(H, c)
    BY <1>1, <1>4
  <2>5. Q.file[c] # NoFile
    BY <1>2, <2>2
  <2> HIDE DEF b, c, R
  <2>6. /\ H \in State /\ H.waiting = R.waiting /\ H.uploading = R.uploading
        /\ H.rank = R.rank /\ H.file = R.file
    BY <2>3 DEF State, Calm
  <2> HIDE DEF H
  <2>7. Calm(R, H)
    BY <2>6, SameRanksCalm DEF SameRanks
  <2>8. Enters(H, T, c)
    BY <2>2, <2>3, <2>4, <2>5, <2>6, GiveSlotEnters
  <2>9. Calm(S, H)
    BY <1>2, <2>3, <2>7, CalmTrans
  <2>10. Enters(S, T, c)
    BY <2>8, <2>9, CalmThenEnters
  <2>11. c \in Queued(S)
    BY <1>2, <2>2 DEF Calm
  <2> QED BY <2>10, <2>11, WaitedIsFair
<1> QED BY <1>3, <1>4

\* A marked client that comes back waited.
LEMMA ClaimSlotFair ==
  ASSUME NEW S \in State, NEW c \in Clients, InWaiting(S, c)
  PROVE  LET T == ClaimSlot(S, c)
         IN  Fair(S, T) /\ (Ranked(S) => Ranked(T))
<1> DEFINE may == /\ c \in S.addNext
                  /\ Cardinality(S.uploading) <
                       MaxSlots + (IF S.lastHighID THEN 1 ELSE 0)
           U == [S EXCEPT !.addNext = @ \ {c}]
           R == RemoveFromWaitingQueue(U, c)
           A == AddDirectly(R, c)
           T == [A EXCEPT !.lastHighID = FALSE]
<1>1. CASE ~may
  BY <1>1, CalmRefl, CalmFair DEF ClaimSlot
<1>2. CASE may
  <2>1. ClaimSlot(S, c) = T
    BY <1>2 DEF ClaimSlot
  <2>2. /\ U \in State /\ U.waiting = S.waiting /\ U.uploading = S.uploading
        /\ U.rank = S.rank /\ U.file = S.file
    BY DEF State
  <2> HIDE DEF U
  <2>3. Calm(S, U)
    BY <2>2, SameRanksCalm DEF SameRanks
  <2>4. Calm(U, R)
    BY <2>2, RemoveFromWaitingQueueCalm
  <2> HIDE DEF R
  <2>5. Enters(R, A, c)
    BY <2>4, AddDirectlyEnters DEF Calm
  <2>6. Enters(S, A, c)
    BY <2>3, <2>4, <2>5, CalmTrans, CalmThenEnters
  <2> HIDE DEF A
  <2>7. Fair(S, A) /\ (Ranked(S) => Ranked(A))
    BY <2>6, WaitedIsFair, QueuedType
  <2>8. T \in State /\ SameRanks(A, T)
    BY <2>6 DEF Enters, State, SameRanks
  <2> QED BY <2>1, <2>7, <2>8, FairThenSame
<1> QED BY <1>1, <1>2

\* A newcomer gets a slot at once only when nobody waits.
LEMMA EnqueueFair ==
  ASSUME NEW S \in State, NEW c \in Clients, c \notin Queued(S),
         NEW crowded, NEW T \in Enqueue(S, c, crowded)
  PROVE  Fair(S, T) /\ (Ranked(S) => Ranked(T))
<1> DEFINE no == crowded \/ S.up[c] = "uploading" \/ Len(S.waiting) >= QueueSize
           now == /\ Len(S.waiting) = 0
                  /\ ~S.recent
                  /\ Cardinality(S.uploading) < MaxSlots
                  /\ ~TooManySockets(S)
<1>1. CASE no
  BY <1>1, CalmRefl, CalmFair DEF Enqueue
<1>2. CASE ~no /\ now
  <2> DEFINE A == AddDirectly(S, c)
  <2>1. Enters(S, A, c)
    BY AddDirectlyEnters
  <2>2. T = [A EXCEPT !.recent = TRUE]
    BY <1>2 DEF Enqueue
  <2> HIDE DEF A
  <2>3. T \in State /\ SameRanks(A, T)
    BY <2>1, <2>2 DEF Enters, State, SameRanks
  <2>4. Len(A.waiting) = 0
    <3>1. Queued(S) = {}
      BY <1>2 DEF Queued
    <3>2. Queued(A) = {} /\ Len(A.waiting) \in Nat
      BY <2>1, <3>1, StateTypes DEF Enters
    <3>3. Len(A.waiting) # 0 => A.waiting[1] \in Queued(A)
      BY <3>2 DEF Queued
    <3> QED BY <3>2, <3>3
  <2>5. Fair(S, A) /\ (Ranked(S) => Ranked(A))
    BY <2>1, <2>4, WaitedIsFair
  <2> QED BY <2>3, <2>5, FairThenSame
<1>3. CASE ~no /\ ~now
  <2> DEFINE U == [S EXCEPT !.waiting = Append(@, c)]
             n == Len(S.waiting)
  <2>1. PICK Q \in Sorted(U) :
          T = [Q EXCEPT !.nWaiting = @ + 1, !.up[c] = "queued"]
    BY <1>3 DEF Enqueue
  <2>2. /\ Append(S.waiting, c) \in Seq(Clients)
        /\ Len(Append(S.waiting, c)) = Len(S.waiting) + 1
        /\ \A i \in 1..Len(S.waiting) : Append(S.waiting, c)[i] = S.waiting[i]
        /\ Append(S.waiting, c)[Len(S.waiting) + 1] = c
    BY StateTypes, AppendProperties
  <2>3. /\ U \in State /\ U.waiting = Append(S.waiting, c)
        /\ U.uploading = S.uploading /\ U.file = S.file /\ U.rank = S.rank
    BY <2>2 DEF State
  <2> HIDE DEF U
  <2>4. n \in Nat /\ Len(U.waiting) = n + 1 /\ U.waiting[n + 1] = c
        /\ \A i \in 1..n : U.waiting[i] = S.waiting[i] /\ S.waiting[i] # c
    BY <2>2, <2>3, StateTypes DEF Queued
  <2>5. \A i \in 1..(n + 1) : i \in 1..n \/ i = n + 1
    BY <2>4
  <2>6. ASSUME Ranked(S) PROVE Ranked(U)
    <3>1. S.rank[c] = 0
      BY <2>6 DEF Ranked
    <3> HIDE DEF n
    <3>2. Distinct(U)
      <4>1. ASSUME NEW i \in 1..(n + 1), NEW j \in 1..(n + 1), i # j
            PROVE  U.waiting[i] # U.waiting[j]
        <5>1. CASE i \in 1..n /\ j \in 1..n
          BY <2>4, <2>6, <4>1, <5>1 DEF Ranked, Distinct, n
        <5>2. CASE i = n + 1 /\ j \in 1..n
          BY <2>4, <5>2
        <5>3. CASE i \in 1..n /\ j = n + 1
          BY <2>4, <5>3
        <5> QED BY <2>5, <4>1, <5>1, <5>2, <5>3
      <4> QED BY <2>4, <4>1 DEF Distinct
    <3>3. ASSUME NEW i \in 1..(n + 1) PROVE U.rank[U.waiting[i]] \in {0, i}
      <4>1. CASE i \in 1..n
        BY <2>3, <2>4, <2>6, <4>1 DEF Ranked, n
      <4>2. CASE i = n + 1
        BY <2>3, <2>4, <3>1, <4>2
      <4> QED BY <2>5, <4>1, <4>2
    <3>4. Queued(S) \subseteq Queued(U)
      <4>1. ASSUME NEW i \in 1..n PROVE S.waiting[i] \in Queued(U)
        <5>1. i \in 1..Len(U.waiting) /\ U.waiting[i] = S.waiting[i]
          BY <2>4, <4>1
        <5> QED BY <5>1 DEF Queued
      <4> QED BY <4>1 DEF Queued, n
    <3>5. \A d \in Clients \ Queued(U) : U.rank[d] = 0
      BY <2>3, <2>6, <3>4 DEF Ranked
    <3> QED BY <2>4, <3>2, <3>3, <3>5 DEF Ranked
  <2>7. Calm(U, Q)
    BY <2>3, SortedCalm
  <2>8. Q \in State /\ Q.nWaiting + 1 \in Int
    BY <2>7, StateTypes DEF Calm
  <2>9. /\ T \in State
        /\ T.waiting = Q.waiting /\ T.uploading = Q.uploading
        /\ T.file = Q.file /\ T.rank = Q.rank
    BY <2>1, <2>8 DEF State, UpStates
  <2>10. Ranked(Q) => Ranked(T)
    BY <2>9, RankedSame
  <2>11. Fair(S, T)
    BY <2>3, <2>7, <2>9 DEF Calm, Fair, HasFiles
  <2> QED BY <2>6, <2>7, <2>10, <2>11 DEF Calm
<1> QED BY <1>1, <1>2, <1>3

\* Both ways of AddClientToQueue.
LEMMA QueueOrClaimFair ==
  ASSUME NEW S \in State, NEW c \in Clients,
         NEW crowded, NEW T \in QueueOrClaim(S, c, crowded)
  PROVE  Fair(S, T) /\ (Ranked(S) => Ranked(T))
<1>1. CASE InWaiting(S, c)
  BY <1>1, ClaimSlotFair DEF QueueOrClaim
<1>2. CASE ~InWaiting(S, c)
  BY <1>2, QueuedType, EnqueueFair DEF QueueOrClaim
<1> QED BY <1>1, <1>2

\* A twin without a slot of its own loses its place.
LEMMA EvictTwinCalm ==
  ASSUME NEW S \in State, NEW d \in Clients
  PROVE  Calm(S, EvictTwin(S, d))
<1> DEFINE R == RemoveFromWaitingQueue(S, d)
<1>1. Calm(S, R) /\ R \in State
  BY RemoveFromWaitingQueueCalm DEF Calm
<1> HIDE DEF R
<1>2. Calm(R, Disconnect(R, d))
  BY <1>1, DisconnectCalm
<1>3. Calm(S, Disconnect(R, d))
  BY <1>1, <1>2, CalmTrans
<1> QED BY <1>1, <1>3, CalmRefl DEF EvictTwin, R

\* AddClientToQueue, with whatever twins the client has.
LEMMA AddClientToQueueFair ==
  ASSUME NEW S0 \in State, NEW c \in Clients,
         NEW crowded, NEW T \in AddClientToQueue(S0, c, crowded)
  PROVE  Fair(S0, T) /\ (Ranked(S0) => Ranked(T))
<1> DEFINE S == [S0 EXCEPT !.stale = @ \ {c}]
<1>1. /\ S \in State /\ S.waiting = S0.waiting /\ S.uploading = S0.uploading
      /\ S.rank = S0.rank /\ S.file = S0.file
  BY DEF State
<1>2. \/ T = S0
      \/ T \in QueueOrClaim(S, c, crowded)
      \/ \E d \in Clashing(S, c) :
           T \in IF c \in Identified THEN QueueOrClaim(EvictTwin(S, d), c, crowded)
                 ELSE {RejectTwin(EvictTwin(S, d), c)}
  BY DEF AddClientToQueue
<1> HIDE DEF S
<1>3. Calm(S0, S)
  BY <1>1, SameRanksCalm DEF SameRanks
<1>4. ASSUME NEW R, Calm(S0, R), T \in QueueOrClaim(R, c, crowded)
      PROVE  Fair(S0, T) /\ (Ranked(S0) => Ranked(T))
  <2>1. Fair(R, T) /\ (Ranked(R) => Ranked(T))
    BY <1>4, QueueOrClaimFair DEF Calm
  <2> QED BY <1>4, <2>1, CalmThenFair DEF Calm
<1>5. ASSUME NEW d \in Clashing(S, c),
             T \in IF c \in Identified THEN QueueOrClaim(EvictTwin(S, d), c, crowded)
                   ELSE {RejectTwin(EvictTwin(S, d), c)}
      PROVE  Fair(S0, T) /\ (Ranked(S0) => Ranked(T))
  <2> DEFINE R == EvictTwin(S, d)
  <2>1. Calm(S, R)
    BY <1>1, EvictTwinCalm DEF Clashing
  <2> HIDE DEF R
  <2>2. Calm(S0, R) /\ R \in State
    BY <1>3, <2>1, CalmTrans DEF Calm
  <2>3. CASE c \in Identified
    BY <1>4, <1>5, <2>2, <2>3 DEF R
  <2>4. CASE c \notin Identified
    <3>1. T = RejectTwin(R, c)
      BY <1>5, <2>4 DEF R
    <3>2. Calm(R, T)
      BY <2>2, <3>1, DisconnectCalm, CalmRefl DEF RejectTwin
    <3> QED BY <2>2, <3>2, CalmTrans, CalmFair
  <2> QED BY <2>3, <2>4
<1>6. CASE T = S0
  BY <1>6, CalmRefl, CalmFair
<1> QED BY <1>2, <1>3, <1>4, <1>5, <1>6

-----------------------------------------------------------------------------
(***************************************************************************)
(* The steps.                                                               *)
(***************************************************************************)
\* A step that is fair and keeps the ranks.
Ordered(S, T) == Fair(S, T) /\ (Ranked(S) => Ranked(T))

\* A block that is sent gives its client a file; one that fails, no slot.
LEMMA CreateNextBlockPackageCalm ==
  ASSUME NEW S \in State, NEW c \in Clients, NEW failed \in BOOLEAN,
         NEW T \in CreateNextBlockPackage(S, c, failed)
  PROVE  Calm(S, T)
<1> DEFINE fed == {S} \cup {[S EXCEPT !.file[c] = f] : f \in S.shared}
<1>1. ASSUME NEW R \in fed PROVE Calm(S, R) /\ R \in State
  <2>1. CASE R = S
    BY <2>1, CalmRefl
  <2>2. ASSUME NEW f \in S.shared, R = [S EXCEPT !.file[c] = f]
        PROVE  Calm(S, R) /\ R \in State
    <3>1. f \in Files /\ f # NoFile
      BY ConstantsAssumption DEF State
    <3>2. /\ R \in State /\ R.waiting = S.waiting /\ R.uploading = S.uploading
          /\ R.rank = S.rank /\ R.file = [S.file EXCEPT ![c] = f]
      BY <2>2, <3>1 DEF State
    <3>3. S.file \in [Clients -> Files \cup {NoFile}] /\ S.uploading \in SUBSET Clients
      BY DEF State
    <3>4. \A d \in Clients : R.file[d] = IF d = c THEN f ELSE S.file[d]
      BY <3>2, <3>3
    <3> QED BY <3>1, <3>2, <3>3, <3>4, SameRanksCalm DEF SameRanks
  <2> QED BY <2>1, <2>2
<1>2. ASSUME NEW R \in fed, NEW F
      PROVE  Calm(S, RemoveFromUploadQueue([R EXCEPT !.shared = @ \ F], c))
  <2> DEFINE Q == [R EXCEPT !.shared = @ \ F]
  <2>0. Calm(S, R) /\ R \in State
    BY <1>1
  <2> HIDE DEF fed
  <2>1. /\ Q \in State /\ Q.waiting = R.waiting /\ Q.uploading = R.uploading
        /\ Q.rank = R.rank /\ Q.file = R.file
    BY <2>0 DEF State
  <2> HIDE DEF Q
  <2>2. Calm(R, Q)
    BY <2>1, SameRanksCalm DEF SameRanks
  <2>3. Calm(Q, RemoveFromUploadQueue(Q, c))
    BY <2>1, LeaveUploadCalm DEF RemoveFromUploadQueue
  <2> QED BY <2>0, <2>2, <2>3, CalmTrans DEF Q
<1>3. CASE ~failed
  <2>1. T \in fed
    BY <1>3 DEF CreateNextBlockPackage
  <2> QED BY <1>1, <2>1
<1>4. CASE failed
  <2> DEFINE lost == {{}} \cup {{f} : f \in S.shared}
             drop(R, F) == RemoveFromUploadQueue([R EXCEPT !.shared = @ \ F], c)
  <2>0. T \in UNION {{drop(R, F) : F \in lost} : R \in fed}
    BY <1>4 DEF CreateNextBlockPackage
  <2> HIDE DEF fed, lost, drop
  <2>1. PICK R \in fed, F \in lost : T = drop(R, F)
    BY <2>0
  <2> USE DEF drop
  <2> QED BY <1>2, <2>1
<1> QED BY <1>3, <1>4

\* A step that is calm, or fair after a calm one, is ordered.
LEMMA CalmOrdered ==
  ASSUME NEW R, NEW S, NEW T, Calm(R, S), S = T \/ Ordered(S, T)
  PROVE  Ordered(R, T)
BY CalmFair, CalmThenFair DEF Ordered, Calm

\* One round of the loop of Process: who is kicked queues again like anybody.
LEMMA ProcessFeedOrdered ==
  ASSUME s \in State, NEW c \in Clients, ProcessFeed(c)
  PROVE  Ordered(s, s')
<1>1. PICK outcome, crowded :
        s' \in IF s.sock[c] = "none"
               THEN {Disconnect(RemoveFromUploadQueue(s, c), c)}
               ELSE SendBlockData(s, c, outcome, crowded)
  BY DEF ProcessFeed
<1>2. CASE s' = Disconnect(RemoveFromUploadQueue(s, c), c)
  <2> DEFINE R == RemoveFromUploadQueue(s, c)
  <2>1. Calm(s, R) /\ R \in State
    BY LeaveUploadCalm DEF RemoveFromUploadQueue, Calm
  <2> HIDE DEF R
  <2>2. Calm(R, s')
    BY <1>2, <2>1, DisconnectCalm DEF R
  <2>3. Calm(s, s')
    BY <2>1, <2>2, CalmTrans
  <2> QED BY <2>3, CalmOrdered
<1>3. CASE s' \in AddClientToQueue(
                    RemoveFromUploadQueue([s EXCEPT !.kicking = FALSE], c), c, crowded)
  <2> DEFINE K == [s EXCEPT !.kicking = FALSE]
             R == RemoveFromUploadQueue(K, c)
  <2>1. /\ K \in State /\ K.waiting = s.waiting /\ K.uploading = s.uploading
        /\ K.rank = s.rank /\ K.file = s.file
    BY DEF State
  <2>2. s' \in AddClientToQueue(R, c, crowded)
    BY <1>3
  <2> HIDE DEF K
  <2>3. Calm(s, K)
    BY <2>1, SameRanksCalm DEF SameRanks
  <2>4. Calm(K, R)
    BY <2>1, LeaveUploadCalm DEF RemoveFromUploadQueue
  <2> HIDE DEF R
  <2>5. Ordered(R, s')
    BY <2>2, <2>4, AddClientToQueueFair DEF Ordered, Calm
  <2> QED BY <2>3, <2>4, <2>5, CalmTrans, CalmOrdered
<1>4. CASE s' \in CreateNextBlockPackage(s, c, outcome = "failed")
  BY <1>4, CreateNextBlockPackageCalm, CalmOrdered
<1> QED BY <1>1, <1>2, <1>3, <1>4 DEF SendBlockData

\* The start of Process, and what follows the loop.
LEMMA ProcessOrdered ==
  ASSUME s \in State, ProcessSlots \/ ProcessEnd \/ ResortQueue \/ SecondPasses
  PROVE  Ordered(s, s')
<1> DEFINE Kick(k) == [s EXCEPT !.kicking = k]
           N == [s EXCEPT !.kicking = FALSE, !.recent = TRUE]
           P == [s EXCEPT !.recent = FALSE]
<1>1. ASSUME NEW k \in BOOLEAN PROVE Calm(s, Kick(k))
  <2>1. Kick(k) \in State /\ SameRanks(s, Kick(k))
    BY DEF State, SameRanks
  <2> QED BY <2>1, SameRanksCalm
<1>2. Calm(s, N)
  <2>1. N \in State /\ SameRanks(s, N)
    BY DEF State, SameRanks
  <2> QED BY <2>1, SameRanksCalm
<1>3. Calm(s, P)
  <2>1. P \in State /\ SameRanks(s, P)
    BY DEF State, SameRanks
  <2> QED BY <2>1, SameRanksCalm
<1>4. \/ s' = Kick(FALSE) \/ s' = Kick(TRUE) \/ s' = P \/ s' = s
      \/ s' \in Sorted(s) \/ s' \in AddUpNextClient(N)
  BY DEF ProcessSlots, ProcessEnd, ResortQueue, SecondPasses, Handler, Elapses
<1>5. CASE s' = Kick(FALSE) \/ s' = Kick(TRUE) \/ s' = P \/ s' = s
  BY <1>1, <1>3, <1>5, CalmRefl, CalmOrdered
<1>6. CASE s' \in Sorted(s)
  BY <1>6, SortedCalm, CalmOrdered
<1>7. CASE s' \in AddUpNextClient(N)
  <2> HIDE DEF N
  <2>1. Ordered(N, s')
    BY <1>2, <1>7, AddUpNextClientFair DEF Ordered, Calm
  <2> QED BY <1>2, <2>1, CalmOrdered
<1> QED BY <1>4, <1>5, <1>6, <1>7

\* Connections that come, go or are asked for.
LEMMA ConnectionStepsOrdered ==
  ASSUME s \in State, NEW c \in Clients,
         Hello(c) \/ HelloAnswer(c) \/ SocketLost(c) \/ AskForDownload(c)
  PROVE  Ordered(s, s')
<1> DEFINE Opened(d) == [s EXCEPT !.sock[d] = "open", !.lowID = @ \ {d}]
           created == [s EXCEPT !.alive = @ \cup {c}, !.sock[c] = "open"]
           refused == [created EXCEPT !.banned = @ \cup {c}, !.up[c] = "banned"]
           asked == [s EXCEPT !.alive = @ \cup {c}, !.down[c] = "connecting"]
           full == [asked EXCEPT !.down[c] = "onqueue"]
<1>1. ASSUME NEW d \in Clients
      PROVE  Calm(s, ConnectionEstablished(Opened(d), d))
  <2>1. Opened(d) \in State /\ SameRanks(s, Opened(d))
    BY DEF State, Sockets, SameRanks
  <2>2. Calm(s, Opened(d))
    BY <2>1, SameRanksCalm
  <2> HIDE DEF Opened
  <2>3. Calm(Opened(d), ConnectionEstablished(Opened(d), d))
    BY <2>1, ConnectionEstablishedCalm
  <2> QED BY <2>2, <2>3, CalmTrans
<1>2. created \in State /\ SameRanks(s, created)
  BY DEF State, Sockets, SameRanks
<1>3. refused \in State /\ SameRanks(s, refused)
  BY DEF State, Sockets, UpStates, SameRanks
<1>4. asked \in State /\ SameRanks(s, asked)
  BY DEF State, DownStates, SameRanks
<1>5. full \in State /\ SameRanks(s, full)
  BY DEF State, DownStates, SameRanks
<1>6. Calm(s, created) /\ Calm(s, refused) /\ Calm(s, asked) /\ Calm(s, full)
  BY <1>2, <1>3, <1>4, <1>5, SameRanksCalm
<1>7. Calm(s, TryToConnect(asked, c))
  <2> HIDE DEF asked
  <2>1. Calm(asked, TryToConnect(asked, c))
    BY <1>4, TryToConnectCalm
  <2> QED BY <1>6, <2>1, CalmTrans
<1>8. Calm(s, Disconnect(s, c))
  BY DisconnectCalm
<1>9. CASE Hello(c)
  <2>1. \/ \E d \in Clients : s' = ConnectionEstablished(Opened(d), d)
        \/ s' = created \/ s' = refused
    BY <1>9 DEF Hello, Handler
  <2> QED BY <1>1, <1>6, <2>1, CalmOrdered
<1>10. CASE HelloAnswer(c)
  BY <1>1, <1>10, CalmOrdered DEF HelloAnswer, Handler
<1>11. CASE SocketLost(c)
  BY <1>8, <1>11, CalmOrdered DEF SocketLost, Handler
<1>12. CASE AskForDownload(c)
  <2>1. s' = full \/ s' = TryToConnect(asked, c)
    BY <1>12 DEF AskForDownload, Handler
  <2> QED BY <1>6, <1>7, <2>1, CalmOrdered
<1> QED BY <1>9, <1>10, <1>11, <1>12

\* A client asks for a file, or for an upload.
LEMMA RequestStepsOrdered ==
  ASSUME s \in State, NEW c \in Clients, NEW f \in Files, NEW crowded,
         RequestFile(c, f) \/ StartUploadReq(c, f, crowded)
  PROVE  Ordered(s, s')
<1> DEFINE Asks == [s EXCEPT !.file[c] = f]
<1>1. /\ Asks \in State /\ Asks.waiting = s.waiting
      /\ Asks.uploading = s.uploading /\ Asks.rank = s.rank
      /\ \A d \in Clients : Asks.file[d] = IF d = c THEN f ELSE s.file[d]
  BY DEF State
<1>2. RequestFile(c, f) => s' = Asks
  BY DEF RequestFile, Handler
<1>3. StartUploadReq(c, f, crowded) => s' \in AddClientToQueue(Asks, c, crowded)
  BY DEF StartUploadReq, Handler
<1> HIDE DEF Asks
<1>4. s.uploading \in SUBSET Clients /\ f # NoFile
  BY StateTypes, ConstantsAssumption
<1>5. Calm(s, Asks)
  BY <1>1, <1>4, SameRanksCalm DEF SameRanks
<1>6. CASE RequestFile(c, f)
  BY <1>2, <1>5, <1>6, CalmOrdered
<1>7. CASE StartUploadReq(c, f, crowded)
  <2>1. Ordered(Asks, s')
    BY <1>1, <1>3, <1>7, AddClientToQueueFair DEF Ordered
  <2> QED BY <1>5, <2>1, CalmOrdered
<1> QED BY <1>6, <1>7

\* A client is taken off its slot, or deleted.
LEMMA RemovalStepsOrdered ==
  ASSUME s \in State, NEW c \in Clients,
         StopUpload(c) \/ CleanUpClientList(c) \/ FilterQueues(c)
  PROVE  Ordered(s, s')
<1>1. Calm(s, RemoveFromUploadQueue(s, c))
  BY LeaveUploadCalm DEF RemoveFromUploadQueue
<1> DEFINE A == AfterDisconnect(s, c)
<1>2. Calm(s, A) /\ A \in State
  BY AfterDisconnectCalm DEF Calm
<1>3. s' = RemoveFromUploadQueue(s, c) \/ s' = SafeDelete(A, c)
  BY DEF StopUpload, CleanUpClientList, FilterQueues, Handler
<1> HIDE DEF A
<1>4. Calm(A, SafeDelete(A, c))
  BY <1>2, SafeDeleteCalm
<1> QED BY <1>1, <1>2, <1>3, <1>4, CalmTrans, CalmOrdered

\* What else happens to one client.
LEMMA OtherClientStepsOrdered ==
  ASSUME s \in State, NEW c \in Clients,
         \/ ReaskFilePing(c) \/ ChangeClientID(c) \/ SourceAnswers(c)
         \/ SourceDropped(c) \/ ProtocolError(c)
         \/ Ban(c) \/ BanCorrupter(c) \/ BanExpires(c) \/ HourPasses(c)
  PROVE  Ordered(s, s')
<1>1. ASSUME s' \in State, SameRanks(s, s') PROVE Ordered(s, s')
  BY <1>1, SameRanksCalm, CalmOrdered
<1>2. CASE ReaskFilePing(c) \/ HourPasses(c)
  <2>1. PICK D \in {s.stale \ {c}, s.stale \cup {c}} : s' = [s EXCEPT !.stale = D]
    BY <1>2 DEF ReaskFilePing, HourPasses, Handler, Elapses
  <2>2. D \in SUBSET Clients
    BY <2>1 DEF State
  <2>3. s' \in State /\ SameRanks(s, s')
    BY <2>1, <2>2 DEF State, SameRanks
  <2> QED BY <1>1, <2>3
<1>3. CASE ChangeClientID(c)
  <2> DEFINE T == [s EXCEPT !.lowID = @ \cup {c}]
  <2>1. s' = T
    BY <1>3 DEF ChangeClientID, Handler
  <2>2. T \in State /\ SameRanks(s, T)
    BY DEF State, SameRanks
  <2> QED BY <1>1, <2>1, <2>2
<1>4. CASE SourceAnswers(c)
  <2> DEFINE T == [s EXCEPT !.down[c] =
                     IF @ = "onqueue" THEN "downloading" ELSE "onqueue"]
  <2>1. T \in State /\ SameRanks(s, T)
    BY DEF State, DownStates, SameRanks
  <2>2. s' = T
    BY <1>4 DEF SourceAnswers, Handler
  <2> QED BY <1>1, <2>1, <2>2
<1> DEFINE B == MarkBanned(s, c)
<1>5. B \in State /\ SameRanks(s, B)
  BY DEF MarkBanned, State, UpStates, SameRanks
<1>6. CASE Ban(c)
  BY <1>1, <1>5, <1>6 DEF Ban, Handler
<1>7. CASE BanExpires(c)
  <2> DEFINE T == [s EXCEPT !.banned = @ \ {c}]
  <2>1. T \in State /\ SameRanks(s, T)
    BY DEF State, SameRanks
  <2>2. s' = T
    BY <1>7 DEF BanExpires, Elapses
  <2> QED BY <1>1, <2>1, <2>2
<1>8. ASSUME NEW S \in State, Calm(s, S), NEW d \in {"none", "failed"},
             \/ s' = [S EXCEPT !.down[c] = d]
             \/ s' = Disconnect([S EXCEPT !.down[c] = d], c)
      PROVE  Ordered(s, s')
  <2> DEFINE T == [S EXCEPT !.down[c] = d]
  <2>1. T \in State /\ SameRanks(S, T)
    BY <1>8 DEF State, DownStates, SameRanks
  <2> HIDE DEF T
  <2>2. Calm(S, T)
    BY <2>1, SameRanksCalm
  <2>3. Calm(s, T)
    BY <1>8, <2>2, CalmTrans
  <2>4. Calm(T, Disconnect(T, c))
    BY <2>1, DisconnectCalm
  <2>5. Calm(s, Disconnect(T, c))
    BY <2>3, <2>4, CalmTrans
  <2> QED BY <1>8, <2>3, <2>5, CalmOrdered DEF T
<1>9. CASE SourceDropped(c)
  <2> DEFINE T == [s EXCEPT !.down[c] = "none"]
  <2>1. s' = T \/ s' = Disconnect(T, c)
    BY <1>9 DEF SourceDropped, Handler
  <2> QED BY <1>8, <2>1, CalmRefl
<1>10. CASE ProtocolError(c)
  <2> DEFINE T == [s EXCEPT !.down[c] = "failed"]
  <2>1. s' = Disconnect(T, c)
    BY <1>10 DEF ProtocolError, Handler
  <2> QED BY <1>8, <2>1, CalmRefl
<1>11. CASE BanCorrupter(c)
  <2>1. s' = Disconnect([B EXCEPT !.down[c] = "failed"], c)
    BY <1>11 DEF BanCorrupter, Handler
  <2> HIDE DEF B
  <2> QED BY <1>5, <1>8, <2>1, SameRanksCalm
<1> QED BY <1>2, <1>3, <1>4, <1>6, <1>7, <1>9, <1>10, <1>11

\* SuspendUpload takes slots away, whoever waits.
LEMMA PerformFileCompleteFair ==
  ASSUME s \in State, NEW f \in Files, PerformFileComplete(f)
  PROVE  Fair(s, s')
<1> DEFINE U == Uploaders(s, f)
           n == Cardinality(U)
           R == LeaveUpload(s, U)
           up(V) == [c \in Clients |-> IF c \in U THEN "queued" ELSE V[c]]
<1>1. U \in SUBSET Clients /\ n \in Nat
  BY StateTypes, FinitePart DEF Uploaders
<1>2. Calm(s, R) /\ R \in State
  BY <1>1, LeaveUploadCalm DEF Calm
<1>3. PICK q \in [1..n -> U] :
        s' = [R EXCEPT !.suspended = @ \cup {f},
                       !.waiting   = @ \o q,
                       !.nWaiting  = @ + n,
                       !.up = up(@)]
  BY DEF PerformFileComplete, Handler
<1>4. q \in Seq(Clients)
  <2>1. q \in [1..n -> Clients]
    BY <1>1, <1>3
  <2> QED BY <1>1, <2>1, SeqDef
<1> HIDE DEF R, n, U
<1>5. R.waiting \o q \in Seq(Clients) /\ R.nWaiting + n \in Int
  <2>1. R.waiting \in Seq(Clients)
    BY <1>2, StateTypes
  <2> QED BY <1>1, <1>2, <1>4, <2>1, ConcatProperties, StateTypes
<1>6. up(R.up) \in [Clients -> UpStates]
  BY <1>2 DEF State, UpStates
<1>7. s' \in State /\ s'.uploading = R.uploading /\ s'.file = R.file
  BY <1>2, <1>3, <1>5, <1>6 DEF State
<1> QED BY <1>2, <1>7 DEF Calm, Fair, HasFiles

\* The clients SuspendUpload puts back have no rank, because they had a slot and
\* so no place in the list.
LEMMA PerformFileCompleteRanks ==
  ASSUME Lists(s), Ranked(s), NEW f \in Files, PerformFileComplete(f)
  PROVE  Ranked(s')
<1> DEFINE U == Uploaders(s, f)
           n == Cardinality(U)
           R == LeaveUpload(s, U)
           w == s.waiting
           m == Len(w)
<1>1. s \in State /\ Orderly(s, {}) /\ Distinct(s')
  BY PerformFileCompleteLists DEF Lists, Orderly
<1>2. U \in SUBSET Clients /\ n \in Nat /\ U \subseteq s.uploading
  BY <1>1, StateTypes, FinitePart DEF Uploaders
<1>3. R \in State /\ R.waiting = w /\ R.rank = s.rank
  BY <1>1, <1>2, LeaveUploadCalm DEF Calm
<1>4. PICK q \in [1..n -> U] :
        s' = [R EXCEPT !.suspended = @ \cup {f},
                       !.waiting   = @ \o q,
                       !.nWaiting  = @ + n,
                       !.up = [c \in Clients |-> IF c \in U THEN "queued" ELSE @[c]]]
  BY DEF PerformFileComplete, Handler
<1>5. q \in Seq(Clients) /\ Len(q) = n
  <2>1. q \in [1..n -> Clients]
    BY <1>2, <1>4
  <2>2. q \in Seq(Clients)
    BY <1>2, <2>1, SeqDef
  <2>3. Len(q) \in Nat /\ DOMAIN q = 1..Len(q)
    BY <2>2, LenProperties
  <2> QED BY <1>2, <2>1, <2>2, <2>3
<1>6. s'.waiting = w \o q /\ s'.rank = s.rank
  BY <1>3, <1>4 DEF State
<1>7. \A c \in U : c \notin Queued(s)
  BY <1>1, <1>2 DEF Orderly
<1>8. \A c \in U : s.rank[c] = 0
  BY <1>2, <1>7 DEF Ranked
<1>9. w \in Seq(Clients) /\ m \in Nat
  BY <1>1, StateTypes
<1> HIDE DEF U, n, R, w
<1>10. /\ Len(w \o q) = m + n
       /\ \A i \in 1..(m + n) : (w \o q)[i] = IF i <= m THEN w[i] ELSE q[i - m]
  BY <1>5, <1>9, ConcatProperties
<1> HIDE DEF m
<1>11. ASSUME NEW i \in 1..(m + n) PROVE s.rank[(w \o q)[i]] \in {0, i}
  <2>1. CASE i <= m
    <3>1. i \in 1..m
      BY <1>2, <1>9, <2>1
    <3>2. s.rank[w[i]] \in {0, i}
      BY <3>1 DEF Ranked, w, m
    <3> QED BY <1>10, <2>1, <3>2
  <2>2. CASE ~(i <= m)
    <3>1. i - m \in 1..n
      BY <1>2, <1>9, <2>2
    <3>2. q[i - m] \in U
      BY <1>4, <3>1
    <3> QED BY <1>8, <1>10, <2>2, <3>2
  <2> QED BY <2>1, <2>2
<1>12. Queued(s) \subseteq Queued(s')
  <2>1. ASSUME NEW i \in 1..m PROVE w[i] \in Queued(s')
    <3>1. i \in 1..Len(s'.waiting) /\ s'.waiting[i] = w[i]
      BY <1>2, <1>6, <1>9, <1>10, <2>1
    <3> QED BY <3>1 DEF Queued
  <2> QED BY <2>1 DEF Queued, w, m
<1>13. \A c \in Clients \ Queued(s') : s'.rank[c] = 0
  BY <1>6, <1>12 DEF Ranked
<1> QED BY <1>1, <1>6, <1>10, <1>11, <1>13 DEF Ranked

\* What else happens to a file: its deletion takes the slots with it.
LEMMA OtherFileStepsOrdered ==
  ASSUME s \in State, NEW f \in Files,
         CompleteFileEnded(f) \/ DeleteFile(f) \/ Unshare(f) \/ Share(f)
  PROVE  Ordered(s, s')
<1>1. CASE CompleteFileEnded(f) \/ Unshare(f) \/ Share(f)
  <2>1. PICK F \in {s.shared \cup {f}, s.shared \ {f}},
             G \in {s.suspended, s.suspended \ {f}} :
          s' = [s EXCEPT !.suspended = G, !.shared = F]
    <3>1. [s EXCEPT !.suspended = s.suspended] = s
      BY DEF State
    <3>2. /\ Unshare(f) => s' = [s EXCEPT !.suspended = s.suspended,
                                          !.shared = s.shared \ {f}]
          /\ Share(f) => s' = [s EXCEPT !.suspended = s.suspended,
                                        !.shared = s.shared \cup {f}]
      BY <3>1 DEF Unshare, Share, Handler
    <3> QED BY <1>1, <3>2 DEF CompleteFileEnded, Handler
  <2>2. F \in SUBSET Files /\ G \in SUBSET Files
    BY DEF State
  <2>3. s' \in State /\ SameRanks(s, s')
    BY <2>1, <2>2 DEF State, SameRanks
  <2> QED BY <2>3, SameRanksCalm, CalmOrdered
<1>2. CASE DeleteFile(f)
  <2> DEFINE R == LeaveUpload(s, Uploaders(s, f))
             file(V) == [c \in Clients |-> IF V[c] = f THEN NoFile ELSE V[c]]
             T == [R EXCEPT !.shared = @ \ {f}, !.file = file(@)]
  <2>1. s' = T
    BY <1>2 DEF DeleteFile, Handler
  <2>2. Uploaders(s, f) \in SUBSET Clients
    BY StateTypes DEF Uploaders
  <2>3. /\ Calm(s, R) /\ R \in State /\ R.file = s.file
        /\ R.uploading = s.uploading \ Uploaders(s, f)
    BY <2>2, LeaveUploadCalm DEF Calm
  <2>4. \A c \in R.uploading : R.file[c] # f /\ c \in Clients
    BY <2>3 DEF Uploaders, State
  <2> HIDE DEF R
  <2>5. file(R.file) \in [Clients -> Files \cup {NoFile}]
    BY <2>3 DEF State
  <2>6. /\ T \in State /\ T.waiting = R.waiting /\ T.uploading = R.uploading
        /\ T.rank = R.rank /\ T.file = file(R.file)
    BY <2>3, <2>5 DEF State
  <2>7. SameRanks(R, T)
    BY <2>4, <2>6 DEF SameRanks
  <2>8. Calm(R, T)
    BY <2>6, <2>7, SameRanksCalm
  <2> QED BY <2>1, <2>3, <2>8, CalmTrans, CalmOrdered
<1> QED BY <1>1, <1>2

\* Every step but PerformFileComplete keeps the ranks by itself.
LEMMA StepOrdered ==
  ASSUME s \in State, [Next]_vars
  PROVE  Ordered(s, s') \/ \E f \in Files : PerformFileComplete(f)
<1>1. ASSUME NEW c \in Clients, ProcessFeed(c) PROVE Ordered(s, s')
  BY <1>1, ProcessFeedOrdered
<1>2. CASE ProcessSlots \/ ProcessEnd \/ ResortQueue \/ SecondPasses
  BY <1>2, ProcessOrdered
<1>3. ASSUME NEW c \in Clients, ClientStep(c) PROVE Ordered(s, s')
  BY <1>3, ConnectionStepsOrdered, RequestStepsOrdered, RemovalStepsOrdered,
     OtherClientStepsOrdered DEF ClientStep
<1>4. ASSUME NEW f \in Files, FileStep(f)
      PROVE  Ordered(s, s') \/ PerformFileComplete(f)
  BY <1>4, OtherFileStepsOrdered DEF FileStep
<1>5. CASE UNCHANGED vars
  BY <1>5, CalmRefl, CalmOrdered DEF vars
<1> QED BY <1>1, <1>2, <1>3, <1>4, <1>5 DEF Next, Process

\* Every step is fair.
LEMMA StepFair ==
  ASSUME s \in State, [Next]_vars
  PROVE  Fair(s, s')
BY StepOrdered, PerformFileCompleteFair DEF Ordered

-----------------------------------------------------------------------------
(***************************************************************************)
(* What the clients may rely on.                                            *)
(***************************************************************************)
\* What OP_QUEUERANKING reports is the client's place in the list, or nothing.
THEOREM RankCorrect ==
  ASSUME ~BanHolders
  PROVE  Spec => []RankIsPosition
<1> DEFINE RankInv == ListInv /\ Ranked(s)
<1>1. Init => RankInv
  <2> SUFFICES ASSUME Init PROVE Ranked(s)
    BY InitLists
  <2>1. s.waiting = <<>> /\ s.rank = [c \in Clients |-> 0]
    BY DEF Init
  <2>2. Len(<<>>) = 0
    BY EmptySeq
  <2> QED BY <2>1, <2>2 DEF Ranked, Distinct, Queued
<1>2. RankInv /\ [Next]_vars => RankInv'
  <2> SUFFICES ASSUME RankInv, [Next]_vars PROVE Ranked(s')
    BY StepLists
  <2>1. s \in State /\ Lists(s)
    BY DEF ListInv, Lists
  <2> QED BY <2>1, StepOrdered, PerformFileCompleteRanks DEF Ordered
<1>3. RankInv => RankIsPosition
  <2> SUFFICES ASSUME RankInv PROVE RankIsPosition
    OBVIOUS
  <2>1. s \in State
    BY DEF ListInv, Lists
  <2> QED BY <2>1, QueuedType DEF Ranked, RankIsPosition
<1> QED BY <1>1, <1>2, <1>3, PTL DEF Spec

\* CheckForTimeOver never dereferences a file that is gone.
THEOREM UploaderFileCorrect == Spec => []UploaderHasFile
<1> DEFINE FileInv == s \in State /\ HasFiles(s)
<1>1. Init => FileInv
  <2> SUFFICES ASSUME Init PROVE FileInv
    OBVIOUS
  <2>1. s \in State
    BY InitLedger DEF LedgerInv, Ledger
  <2>2. s.uploading = {}
    BY DEF Init
  <2> QED BY <2>1, <2>2 DEF HasFiles
<1>2. FileInv /\ [Next]_vars => FileInv'
  BY StepFair DEF Fair
<1>3. FileInv => UploaderHasFile
  BY DEF HasFiles, UploaderHasFile
<1> QED BY <1>1, <1>2, <1>3, PTL DEF Spec

\* AddUpNextClient, AddClientToQueue and the kicks of Process let nobody into a
\* slot past those who wait.
THEOREM NobodyJumpsTheQueue == Spec => NoQueueJumping
<1> DEFINE NoJump == \A c \in Clients : Gains(c) => InWaiting(s, c) \/ Len(s'.waiting) = 0
<1>1. TypeOK /\ [Next]_vars => [NoJump]_vars
  <2> SUFFICES ASSUME TypeOK, [Next]_vars PROVE NoJump
    OBVIOUS
  <2>1. s \in State
    BY DEF TypeOK
  <2>2. Fair(s, s')
    BY <2>1, StepFair
  <2> QED BY <2>1, <2>2, QueuedType DEF Fair, Gains
<1>2. NoQueueJumping <=> [][NoJump]_vars
  BY DEF NoQueueJumping
<1> HIDE DEF NoJump
<1> QED BY <1>1, <1>2, TypeCorrect, PTL DEF Spec
=============================================================================
