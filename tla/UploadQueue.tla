----------------------------- MODULE UploadQueue -----------------------------
(***************************************************************************)
(* CUploadQueue (UploadQueue.cpp) together with the part of CUpDownClient   *)
(* and CClientList that decides when a client enters or leaves its two      *)
(* lists, and when a client object is deleted.                              *)
(*                                                                          *)
(* Everything runs on the main thread, so a handler is atomic; handlers     *)
(* call each other in the middle of their work, though (a kick queues the   *)
(* client again, queueing sorts, sorting deletes other clients).  The model *)
(* writes each C++ function as an operator from a state record S to the     *)
(* state (or the set of states) it can leave behind, and each event handler *)
(* as one action that runs the composition.  The one loop that may be       *)
(* observed half-way, because what it calls changes the list it iterates,   *)
(* is CUploadQueue::Process: its iterator is the variable "todo".           *)
(***************************************************************************)
EXTENDS Integers, Sequences, FiniteSets

CONSTANTS
  Clients,         \* peers; one CUpDownClient object per peer at a time
  Files,           \* shared files
  NoFile,          \* the cleared upload file hash
  MaxSlots,        \* GetMaxSlots(), held constant during a run
  QueueSize,       \* thePrefs::GetQueueSize()
  MaxConnections,  \* thePrefs::GetMaxConnections()
  Sources,         \* peers that are also sources of our downloads
  ChatPartners,    \* peers with an open chat window (GetChatState() # MS_NONE)
  Friends,         \* peers holding a friend slot
  Unreachable,     \* peers whose obfuscation settings keep us from dialling
  Identified,      \* peers whose secure identification succeeded
  Twins,           \* pairs {c, d} of peers that present the same user hash
  LowIDs,          \* peers that may announce a LowID by OP_CHANGE_CLIENT_ID
  Idlers,          \* peers that may stop asking for an hour while they wait
  Bannable,        \* peers that may give a reason to be banned
  BanHolders       \* TRUE: a ban may hit a client that holds an upload slot

ASSUME ConstantsAssumption ==
  /\ NoFile \notin Files
  /\ MaxSlots \in Nat \ {0}
  /\ QueueSize \in Nat
  /\ MaxConnections \in Nat
  /\ Twins \subseteq SUBSET Clients
  /\ BanHolders \in BOOLEAN

ASSUME ClientsAssumption == IsFiniteSet(Clients)

UpStates   == {"none", "queued", "connecting", "uploading", "banned"}
DownStates == {"none", "connecting", "connected", "onqueue", "downloading",
               "failed"}           \* "failed": DS_ERROR or DS_BANNED
Sockets    == {"none", "opening", "open"}

VARIABLES
  s,        \* the state record, see State
  feeding,  \* Process is in its loop over m_uploadinglist
  todo      \* the clients that loop's iterator has still to reach

vars == <<s, feeding, todo>>

(***************************************************************************)
(* The state: the queue's own members, the sets the handlers consult, and   *)
(* the fields of the client objects.                                        *)
(***************************************************************************)
State ==
  [ waiting    : Seq(Clients),          \* m_waitinglist
    uploading  : SUBSET Clients,        \* m_uploadinglist
    nWaiting   : Int,                   \* theStats::s_waitingUploads
    nUploading : Int,                   \* theStats::s_activeUploads
    lastHighID : BOOLEAN,               \* lastupslotHighID
    recent     : BOOLEAN,               \* tick - m_nLastStartUpload < 1000
    kicking    : BOOLEAN,               \* m_allowKicking
    suspended  : SUBSET Files,          \* suspendedUploadsSet
    shared     : SUBSET Files,          \* sharedfiles->GetFileByID() finds it
    banned     : SUBSET Clients,        \* m_bannedList, by destination
    alive      : SUBSET Clients,        \* in m_clientList, not CS_DYING
    addNext    : SUBSET Clients,        \* m_bAddNextConnect
    lowID      : SUBSET Clients,        \* HasLowID()
    stale      : SUBSET Clients,        \* GetLastUpRequest() older than an hour
    up         : [Clients -> UpStates],
    down       : [Clients -> DownStates],
    sock       : [Clients -> Sockets],
    file       : [Clients -> Files \cup {NoFile}],   \* GetUploadFileID()
    rank       : [Clients -> Nat] ]     \* m_waitingPosition

Init ==
  /\ s = [ waiting |-> <<>>, uploading |-> {}, nWaiting |-> 0, nUploading |-> 0,
           lastHighID |-> TRUE, recent |-> FALSE, kicking |-> TRUE,
           suspended |-> {}, shared |-> Files, banned |-> {}, alive |-> {},
           addNext |-> {}, lowID |-> {}, stale |-> {},
           up   |-> [c \in Clients |-> "none"],
           down |-> [c \in Clients |-> "none"],
           sock |-> [c \in Clients |-> "none"],
           file |-> [c \in Clients |-> NoFile],
           rank |-> [c \in Clients |-> 0] ]
  /\ feeding = FALSE
  /\ todo = {}
-----------------------------------------------------------------------------
(***************************************************************************)
(* Queries.                                                                 *)
(***************************************************************************)
InWaiting(S, c) == \E i \in 1..Len(S.waiting) : S.waiting[i] = c

\* The first position of c, where std::list iteration finds it.
Position(S, c) ==
  CHOOSE i \in 1..Len(S.waiting) :
    /\ S.waiting[i] = c
    /\ \A j \in 1..(i - 1) : S.waiting[j] # c

\* CUpDownClient::IsBanned: an entry in the ban list does not count while we
\* are downloading from the client.
IsBanned(S, c) == c \in S.banned /\ S.down[c] # "downloading"

IsConnected(S, c) == S.sock[c] = "open"

Servable(S, f) == f \in S.shared /\ f \notin S.suspended

TooManySockets(S) ==
  Cardinality({c \in Clients : S.sock[c] # "none"}) > MaxConnections

\* A client that SortGetBestClient scores 0 without asking CalculateScore.
Unscored(S, c) == IsBanned(S, c) \/ S.file[c] \in S.suspended

\* A client that can only be served when it connects by itself.
Unreached(S, c) == c \in S.lowID /\ ~IsConnected(S, c)
-----------------------------------------------------------------------------
(***************************************************************************)
(* Leaving the lists.                                                       *)
(***************************************************************************)
RemoveAt(q, i) ==
  [k \in 1..(Len(q) - 1) |-> IF k < i THEN q[k] ELSE q[k + 1]]

\* SetUploadQueueWaitingPosition for the list from position i on.
Renumber(S, i) ==
  [S EXCEPT !.rank = [c \in Clients |->
     IF \E k \in i..Len(S.waiting) : S.waiting[k] = c
     THEN Position(S, c) ELSE S.rank[c]]]

\* RemoveFromWaitingQueue(iterator): a banned client is unbanned on the way out.
TakeFromWaiting(S, i) ==
  LET c == S.waiting[i] IN
  [S EXCEPT !.waiting  = RemoveAt(S.waiting, i),
            !.nWaiting = @ - 1,
            !.banned   = IF IsBanned(S, c) THEN @ \ {c} ELSE @,
            !.up[c]    = "none",
            !.rank[c]  = 0]

\* Mutant of RemoveFromWaitingQueue: the ranks behind are not updated.
RemoveWithoutRanks(S, c) ==
  IF InWaiting(S, c) THEN TakeFromWaiting(S, Position(S, c)) ELSE S

\* Mutant of RemoveFromWaitingQueue: the ranks behind are decremented, also
\* those that were never computed.
RemoveAndDecrement(S, c) ==
  IF InWaiting(S, c)
  THEN [TakeFromWaiting(S, Position(S, c)) EXCEPT
          !.rank = [d \in Clients |->
                      IF \E k \in Position(S, c)..Len(S.waiting) :
                           S.waiting[k] = d /\ d # c
                      THEN @[d] - 1 ELSE IF d = c THEN 0 ELSE @[d]]]
  ELSE S

\* RemoveFromWaitingQueue(client): the clients behind it move up.
RemoveFromWaitingQueue(S, c) ==
  IF InWaiting(S, c)
  THEN Renumber(TakeFromWaiting(S, Position(S, c)), Position(S, c))
  ELSE S

\* Mutant of LeaveUpload: the upload state is not reset.
LeaveUploadKeepingState(S, D) ==
  [S EXCEPT !.uploading  = @ \ D,
            !.nUploading = @ - Cardinality(S.uploading \cap D)]

\* RemoveFromUploadQueue, for a set of clients at once.
LeaveUpload(S, D) ==
  [S EXCEPT !.uploading  = @ \ D,
            !.nUploading = @ - Cardinality(S.uploading \cap D),
            !.up = [c \in Clients |->
                      IF c \in S.uploading \cap D THEN "none" ELSE @[c]]]

RemoveFromUploadQueue(S, c) == LeaveUpload(S, {c})

\* The rest of Safe_Delete: the objects of D and all they remember are gone.
Forget(S, D) ==
  [S EXCEPT !.alive   = @ \ D,
            !.addNext = @ \ D,
            !.lowID   = @ \ D,
            !.stale   = @ \ D,
            !.up      = [c \in Clients |-> IF c \in D THEN "none" ELSE @[c]],
            !.down    = [c \in Clients |-> IF c \in D THEN "none" ELSE @[c]],
            !.sock    = [c \in Clients |-> IF c \in D THEN "none" ELSE @[c]],
            !.file    = [c \in Clients |-> IF c \in D THEN NoFile ELSE @[c]]]

SafeDelete(S, c) ==
  IF c \notin S.alive THEN S
  ELSE Forget(RemoveFromWaitingQueue(RemoveFromUploadQueue(S, c), c), {c})
-----------------------------------------------------------------------------
(***************************************************************************)
(* Losing and making connections.                                           *)
(***************************************************************************)
\* What Disconnected does to the client itself.
AfterDisconnect(S, c) ==
  LET R == IF S.up[c] = "uploading" THEN RemoveFromUploadQueue(S, c) ELSE S IN
  [R EXCEPT !.sock[c] = "none",
            !.down[c] = CASE @ = "downloading" -> "onqueue"
                          [] @ = "connected"   -> "none"
                          [] OTHER             -> @]

\* Disconnected's result: is the client "needed in any way"?
Needless(S, c) ==
  /\ c \notin ChatPartners
  /\ \/ /\ S.up[c] # "queued"
        /\ S.down[c] \notin {"onqueue", "downloading"}
     \/ S.up[c] = "connecting"
     \/ S.down[c] \in {"connecting", "failed"}

\* Every caller follows "if (Disconnected(...)) Safe_Delete();".
Disconnect(S, c) ==
  IF c \notin S.alive THEN S
  ELSE IF Needless(S, c) THEN SafeDelete(AfterDisconnect(S, c), c)
  ELSE AfterDisconnect(S, c)

\* Mutant of ConnectionEstablished: a slot that waits for the connection is not
\* switched to uploading.
EstablishedDownOnly(S, c) ==
  [S EXCEPT !.down[c] = IF @ = "connecting" THEN "connected" ELSE @]

\* What waited for the connection, download or slot, goes on.  (A reask that is
\* pending turns other download states to "connected" as well; the queue cannot
\* tell that from SourceDropped.)
ConnectionEstablished(S, c) ==
  [S EXCEPT !.down[c] = IF @ = "connecting" THEN "connected" ELSE @,
            !.up[c]   = IF @ = "connecting" /\ c \in S.uploading
                        THEN "uploading" ELSE @]

\* TryToConnect.  It may delete the client.  Its own TooManySockets test never
\* fires here: AddUpNextClient waives it and AskForDownload has made it before.
TryToConnect(S, c) ==
  IF c \in Unreachable \/ c \in S.banned THEN Disconnect(S, c)
  ELSE IF IsConnected(S, c) THEN ConnectionEstablished(S, c)
  ELSE [S EXCEPT !.sock[c] = "opening"]
-----------------------------------------------------------------------------
(***************************************************************************)
(* Giving a slot: the part of AddUpNextClient after the choice of client.   *)
(***************************************************************************)
Enlist(S, c) ==
  [S EXCEPT !.uploading = @ \cup {c}, !.nUploading = @ + 1]

GiveSlot(S, c) ==
  IF c \in S.uploading THEN S
  ELSE IF IsConnected(S, c) THEN Enlist([S EXCEPT !.up[c] = "uploading"], c)
  ELSE LET T == TryToConnect([S EXCEPT !.up[c] = "connecting"], c)
       IN  IF c \in T.alive THEN Enlist(T, c) ELSE T

\* AddUpNextClient(directadd)
AddDirectly(S, c) ==
  IF Servable(S, S.file[c]) THEN GiveSlot(S, c) ELSE S
-----------------------------------------------------------------------------
(***************************************************************************)
(* SortGetBestClient.                                                       *)
(*                                                                          *)
(* The first pass purges the clients that stopped asking or whose file is   *)
(* no longer shared, and sorts the others by a score that depends on        *)
(* waiting time, credits and priorities.  Scores are abstracted: any order  *)
(* of the clients with a positive score is possible, those with score 0     *)
(* keep their order behind them, and an unscored client has score 0.        *)
(***************************************************************************)
Purgeable(S, c) == c \in S.stale \/ S.file[c] \notin S.shared

\* The purged objects that nothing else needs: Disconnected returned true.
Orphans(S, P) ==
  {c \in P : /\ S.sock[c] = "none"
             /\ c \notin ChatPartners
             /\ S.down[c] \notin {"onqueue", "downloading"}}

\* The ways to list the surviving positions K of the waiting list.
Orders(S, K) ==
  {p \in [1..Cardinality(K) -> K] :
     /\ \A i, j \in 1..Cardinality(K) : i # j => p[i] # p[j]
     /\ \E scored \in 0..Cardinality(K) :
          /\ \A i \in 1..scored : ~Unscored(S, S.waiting[p[i]])
          /\ \A i, j \in (scored + 1)..Cardinality(K) : i < j => p[i] < p[j]}

\* First pass: order p of the surviving positions K.
PurgeAndSort(S, K, p) ==
  LET P == {S.waiting[i] : i \in (1..Len(S.waiting)) \ K}
      Q == [S EXCEPT
              !.waiting  = [i \in 1..Cardinality(K) |-> S.waiting[p[i]]],
              !.nWaiting = @ - (Len(S.waiting) - Cardinality(K)),
              !.banned   = @ \ {c \in P : IsBanned(S, c)},
              !.up       = [c \in Clients |-> IF c \in P THEN "none" ELSE @[c]],
              !.rank     = [c \in Clients |-> IF c \in P THEN 0 ELSE @[c]]]
  IN  Forget(LeaveUpload(Q, Orphans(Q, P)), Orphans(Q, P))

\* The position of the first client that can be called up, or one past the end.
Best(S) ==
  CHOOSE i \in 1..(Len(S.waiting) + 1) :
    /\ i <= Len(S.waiting) => ~Unreached(S, S.waiting[i])
    /\ \A j \in 1..(i - 1) : Unreached(S, S.waiting[j])

\* Second pass: ranks, and LowID clients ahead of the best are marked.
RankAndMark(S) ==
  LET ahead == {S.waiting[i] : i \in 1..(Best(S) - 1)}
      all   == {S.waiting[i] : i \in 1..Len(S.waiting)}
  IN  Renumber([S EXCEPT !.addNext = (@ \ all) \cup ahead], 1)

\* SortGetBestClient(NULL)
Sorted(S) ==
  LET K == {i \in 1..Len(S.waiting) : ~Purgeable(S, S.waiting[i])}
  IN  {RankAndMark(PurgeAndSort(S, K, p)) : p \in Orders(S, K)}

\* SortGetBestClient(&best) and the rest of AddUpNextClient() for the best.
AddUpNextClient(S) ==
  LET Take(T) ==
        IF Best(T) > Len(T.waiting) THEN T
        ELSE LET c == T.waiting[Best(T)]
                 R == Renumber(TakeFromWaiting(T, Best(T)), Best(T))
             IN  GiveSlot([R EXCEPT !.lastHighID = TRUE], c)
  IN  {Take(T) : T \in Sorted(S)}
-----------------------------------------------------------------------------
(***************************************************************************)
(* AddClientToQueue.                                                        *)
(***************************************************************************)
\* The peers found by GetClientsByHash besides c itself that wait for a slot.
Clashing(S, c) == {d \in Clients \ {c} : {c, d} \in Twins /\ InWaiting(S, d)}

\* Mutant of EvictTwin: without a socket the object goes, but not its place.
EvictTwinInPlace(S, d) ==
  IF d \in Identified THEN S
  ELSE IF S.sock[d] = "none" THEN Forget(S, {d})
  ELSE RemoveFromWaitingQueue(S, d)

\* A waiting client with c's user hash that is not identified loses its place,
\* and without a socket its object goes as well.
EvictTwin(S, d) ==
  IF d \in Identified THEN S
  ELSE LET R == RemoveFromWaitingQueue(S, d)
       IN  IF R.sock[d] = "none" THEN Disconnect(R, d) ELSE R

\* c itself loses the clash when it is not identified; a connected object stays.
RejectTwin(S, c) == IF S.sock[c] = "none" THEN Disconnect(S, c) ELSE S

\* Mutant of ClaimSlot: the LowID alternation is not switched.
ClaimSlotAgain(S, c) ==
  IF /\ c \in S.addNext
     /\ Cardinality(S.uploading) < MaxSlots + (IF S.lastHighID THEN 1 ELSE 0)
  THEN AddDirectly(
         RemoveFromWaitingQueue([S EXCEPT !.addNext = @ \ {c}], c), c)
  ELSE S

\* c waits already: a marked client takes its slot, even one more than
\* configured when the last slot went to a HighID client.
ClaimSlot(S, c) ==
  IF /\ c \in S.addNext
     /\ Cardinality(S.uploading) < MaxSlots + (IF S.lastHighID THEN 1 ELSE 0)
  THEN LET R == RemoveFromWaitingQueue([S EXCEPT !.addNext = @ \ {c}], c)
       IN  [AddDirectly(R, c) EXCEPT !.lastHighID = FALSE]
  ELSE S

\* Mutant of Enqueue: an upload starts right away although others wait.
EnqueueFirst(S, c, crowded) ==
  IF crowded \/ S.up[c] = "uploading" \/ Len(S.waiting) >= QueueSize
  THEN {S}
  ELSE IF ~S.recent /\ Cardinality(S.uploading) < MaxSlots /\ ~TooManySockets(S)
  THEN {[AddDirectly(S, c) EXCEPT !.recent = TRUE]}
  ELSE {[T EXCEPT !.nWaiting = @ + 1, !.up[c] = "queued"] :
          T \in Sorted([S EXCEPT !.waiting = Append(@, c)])}

\* c is new to the queue.  "crowded": too many clients from its destination.
Enqueue(S, c, crowded) ==
  IF crowded \/ S.up[c] = "uploading" \/ Len(S.waiting) >= QueueSize
  THEN {S}
  ELSE IF /\ Len(S.waiting) = 0
          /\ ~S.recent
          /\ Cardinality(S.uploading) < MaxSlots
          /\ ~TooManySockets(S)
  THEN {[AddDirectly(S, c) EXCEPT !.recent = TRUE]}
  ELSE {[T EXCEPT !.nWaiting = @ + 1, !.up[c] = "queued"] :
          T \in Sorted([S EXCEPT !.waiting = Append(@, c)])}

\* Mutant of QueueOrClaim: a client that waits already is queued again.
QueueAgain(S, c, crowded) == Enqueue(S, c, crowded)

QueueOrClaim(S, c, crowded) ==
  IF InWaiting(S, c) THEN {ClaimSlot(S, c)} ELSE Enqueue(S, c, crowded)

AddClientToQueue(S0, c, crowded) ==
  LET S == [S0 EXCEPT !.stale = @ \ {c}]   \* SetLastUpRequest
  IN  IF IsBanned(S0, c) THEN {S0}
      ELSE \* c comes first in the hash map, or none of its twins waits
           (IF InWaiting(S, c) \/ Clashing(S, c) = {}
            THEN QueueOrClaim(S, c, crowded) ELSE {})
      \cup \* a waiting twin comes first
           UNION {LET R == EvictTwin(S, d)
                  IN  IF c \in Identified THEN QueueOrClaim(R, c, crowded)
                      ELSE {RejectTwin(R, c)} : d \in Clashing(S, c)}
-----------------------------------------------------------------------------
(***************************************************************************)
(* CUploadQueue::Process, called by the core timer.                         *)
(***************************************************************************)
\* CreateNextBlockPackage: the blocks sent may be of any shared file, which is
\* then the upload file; a failure costs the slot, and a file that cannot be
\* opened is no longer shared.
CreateNextBlockPackage(S, c, failed) ==
  LET fed  == {S} \cup {[S EXCEPT !.file[c] = f] : f \in S.shared}
      lost == {{}} \cup {{f} : f \in S.shared}
      Drop(R, F) == RemoveFromUploadQueue([R EXCEPT !.shared = @ \ F], c)
  IN  IF failed THEN UNION {{Drop(R, F) : F \in lost} : R \in fed} ELSE fed

\* What SendBlockData does with a client that has a socket.
SendBlockData(S, c, outcome, crowded) ==
  IF outcome = "timeover" /\ S.kicking /\ c \notin Friends
  THEN AddClientToQueue(
         RemoveFromUploadQueue([S EXCEPT !.kicking = FALSE], c), c, crowded)
  ELSE CreateNextBlockPackage(S, c, outcome = "failed")

\* Mutant of ProcessSlots: the last slot is never filled.
ProcessSlotsButOne ==
  /\ ~feeding
  /\ \E T \in IF Len(s.waiting) = 0 \/ s.recent \/ TooManySockets(s)
              THEN {[s EXCEPT !.kicking = FALSE]}
              ELSE IF Cardinality(s.uploading) + 1 < MaxSlots
              THEN AddUpNextClient([s EXCEPT !.kicking = FALSE, !.recent = TRUE])
              ELSE {[s EXCEPT !.kicking = TRUE]} :
       s' = T /\ todo' = T.uploading
  /\ feeding' = TRUE

\* Fill a free slot, or allow one client to be kicked; then start the loop.
ProcessSlots ==
  /\ ~feeding
  /\ \E T \in IF Len(s.waiting) = 0 \/ s.recent \/ TooManySockets(s)
              THEN {[s EXCEPT !.kicking = FALSE]}
              ELSE IF Cardinality(s.uploading) < MaxSlots
              THEN AddUpNextClient([s EXCEPT !.kicking = FALSE, !.recent = TRUE])
              ELSE {[s EXCEPT !.kicking = TRUE]} :
       s' = T /\ todo' = T.uploading
  /\ feeding' = TRUE

\* Mutant of ProcessFeed: the iterator is advanced after the client was handled.
ProcessFeedLate(c) ==
  /\ feeding /\ c \in todo
  /\ \E outcome \in {"sent", "timeover", "failed"}, crowded \in BOOLEAN :
       s' \in IF s.sock[c] = "none"
              THEN {Disconnect(RemoveFromUploadQueue(s, c), c)}
              ELSE SendBlockData(s, c, outcome, crowded)
  /\ UNCHANGED <<feeding, todo>>

\* Mutant of ProcessFeed: a slot without a socket is left alone.
ProcessFeedBlind(c) ==
  /\ feeding /\ c \in todo
  /\ \E outcome \in {"sent", "timeover", "failed"}, crowded \in BOOLEAN :
       s' \in IF s.sock[c] = "none" THEN {s}
              ELSE SendBlockData(s, c, outcome, crowded)
  /\ todo' = todo \ {c}
  /\ UNCHANGED feeding

\* One round of the loop.  A client that re-enters the list while the iterator
\* has not reached the end is visited once more.
ProcessFeed(c) ==
  /\ feeding /\ c \in todo
  /\ \E outcome \in {"sent", "timeover", "failed"}, crowded \in BOOLEAN :
     \E T \in IF s.sock[c] = "none"
              THEN {Disconnect(RemoveFromUploadQueue(s, c), c)}
              ELSE SendBlockData(s, c, outcome, crowded) :
       /\ s' = T
       /\ todo' = LET rest == todo \ {c} IN
                  IF rest # {} /\ c \in T.uploading /\ s.kicking /\ ~T.kicking
                  THEN rest \cup {c} ELSE rest
  /\ UNCHANGED feeding

\* After the loop the queue is sorted when the last sort was two minutes ago.
ProcessEnd ==
  /\ feeding /\ todo = {}
  /\ feeding' = FALSE
  /\ s' \in {s} \cup Sorted(s)
  /\ UNCHANGED todo

\* A handler that runs while Process does not.
Handler(T) == ~feeding /\ s' \in T /\ UNCHANGED <<feeding, todo>>

\* Time passes whatever runs.
Elapses(S) == s' = S /\ UNCHANGED <<feeding, todo>>
-----------------------------------------------------------------------------
(***************************************************************************)
(* Packets and connections.                                                 *)
(***************************************************************************)
\* OP_HELLO on an incoming connection: the known object of this destination,
\* else an unconnected one with the same user hash, gets the new socket; else
\* the new object stays, banned if it presents the hash of an identified peer.
Hello(c) ==
  LET Twin(d) == {c, d} \in Twins /\ d \in s.alive \ {c}
      Attached(d) == ConnectionEstablished(
                       [s EXCEPT !.sock[d] = "open", !.lowID = @ \ {d}], d)
      created == [s EXCEPT !.alive = @ \cup {c}, !.sock[c] = "open"]
  IN  /\ c \notin s.banned
      /\ IF c \in s.alive THEN Handler({Attached(c)})
         ELSE \/ \E d \in Clients : /\ Twin(d) /\ ~IsConnected(s, d)
                                    /\ Handler({Attached(d)})
              \/ \E d \in Clients : /\ Twin(d) /\ IsConnected(s, d)
                                    /\ Handler({IF d \in Identified
                                                THEN [created EXCEPT
                                                        !.banned = @ \cup {c},
                                                        !.up[c] = "banned"]
                                                ELSE created})
              \/ /\ \A d \in Clients : ~Twin(d)
                 /\ Handler({created})

\* OP_HELLOANSWER on a connection we opened.
HelloAnswer(c) ==
  /\ s.sock[c] = "opening"
  /\ Handler({ConnectionEstablished(
                [s EXCEPT !.sock[c] = "open", !.lowID = @ \ {c}], c)})

\* CClientTCPSocket::Disconnect: closed, refused or timed out.
SocketLost(c) ==
  /\ s.sock[c] # "none"
  /\ Handler({Disconnect(s, c)})

\* OP_STARTUPLOADREQ
StartUploadReq(c, f, crowded) ==
  /\ IsConnected(s, c) /\ ~IsBanned(s, c) /\ f \in s.shared
  /\ Handler(AddClientToQueue([s EXCEPT !.file[c] = f], c, crowded))

\* OP_SETREQFILEID, OP_REQUESTFILENAME, their multipacket forms and
\* OP_REQUESTSOURCES (which even a banned client may send): the client turns to
\* another file, a shared one or a download that need not be shared.
RequestFile(c, f) ==
  /\ IsConnected(s, c)
  /\ Handler({[s EXCEPT !.file[c] = f]})

\* OP_CANCELTRANSFER and OP_END_OF_DOWNLOAD
StopUpload(c) ==
  /\ IsConnected(s, c) /\ c \in s.uploading
  /\ Handler({RemoveFromUploadQueue(s, c)})

\* OP_REASKFILEPING over UDP
ReaskFilePing(c) ==
  /\ InWaiting(s, c) /\ s.file[c] \in s.shared
  /\ Handler({[s EXCEPT !.stale = @ \ {c}]})

\* OP_CHANGE_CLIENT_ID with a LowID and a server we know
ChangeClientID(c) ==
  /\ IsConnected(s, c) /\ c \in LowIDs
  /\ Handler({[s EXCEPT !.lowID = @ \cup {c}]})
-----------------------------------------------------------------------------
(***************************************************************************)
(* The download side of a client, as far as the queue notices it.           *)
(***************************************************************************)
\* CUpDownClient::AskForDownload; the object may have come by source exchange.
AskForDownload(c) ==
  /\ c \in Sources
  /\ LET asked == [s EXCEPT !.alive = @ \cup {c}, !.down[c] = "connecting"]
     IN  Handler({IF TooManySockets(s) /\ ~IsConnected(s, c)
                  THEN [asked EXCEPT !.down[c] = "onqueue"]  \* DS_TOOMANYCONNS
                  ELSE TryToConnect(asked, c)})

\* The source's answers: queue place, OP_ACCEPTUPLOADREQ, OP_OUTOFPARTREQS.
SourceAnswers(c) ==
  /\ c \in Sources /\ IsConnected(s, c)
  /\ s.down[c] \in {"connected", "onqueue", "downloading"}
  /\ Handler({[s EXCEPT !.down[c] =
                 IF @ = "onqueue" THEN "downloading" ELSE "onqueue"]})

\* The download drops the source: too many sources, no answer, file not found,
\* file stopped.  Without a socket the client is checked for being needed, but
\* not when it is to be asked again at once (DS_NONEEDEDPARTS to DS_NONE).
SourceDropped(c) ==
  /\ s.down[c] # "none"
  /\ LET dropped == [s EXCEPT !.down[c] = "none"]
     IN  Handler((IF s.sock[c] # "none" \/ s.down[c] = "onqueue"
                  THEN {dropped} ELSE {})
                 \cup (IF s.sock[c] = "none" THEN {Disconnect(dropped, c)} ELSE {}))

\* A packet that cannot be processed: DS_ERROR, then Disconnect.
ProtocolError(c) ==
  /\ IsConnected(s, c)
  /\ Handler({Disconnect([s EXCEPT !.down[c] = "failed"], c)})

MarkBanned(S, c) == [S EXCEPT !.banned = @ \cup {c}, !.up[c] = "banned"]

\* CUpDownClient::Ban, here of a spammer.
Ban(c) ==
  /\ c \in s.alive \cap Bannable
  /\ c \in s.uploading => BanHolders
  /\ Handler({MarkBanned(s, c)})

\* CCorruptionBlackBox::EvaluateData bans the sender of corrupt data and
\* disconnects it, whereupon only a chat partner keeps its object.
BanCorrupter(c) ==
  /\ c \in s.alive \cap Sources
  /\ c \in s.uploading => BanHolders \/ c \notin ChatPartners
  /\ Handler({Disconnect([MarkBanned(s, c) EXCEPT !.down[c] = "failed"], c)})

\* The entry in the ban list runs out (CLIENTBANTIME).
BanExpires(c) ==
  /\ c \in s.banned
  /\ Elapses([s EXCEPT !.banned = @ \ {c}])
-----------------------------------------------------------------------------
(***************************************************************************)
(* Files: completion, deletion, reload of the shared files.                 *)
(***************************************************************************)
Uploaders(S, f) == {c \in S.uploading : S.file[c] = f}

\* Mutant of PerformFileComplete: the clients put back are not counted.
SuspendUncounted(f) ==
  LET U == Uploaders(s, f)
      n == Cardinality(U)
  IN  Handler({[LeaveUpload(s, U) EXCEPT
                  !.suspended = @ \cup {f},
                  !.waiting   = @ \o q,
                  !.up = [c \in Clients |-> IF c \in U THEN "queued" ELSE @[c]]] :
                q \in {p \in [1..n -> U] :
                         \A i, j \in 1..n : i # j => p[i] # p[j]}})

\* PerformFileComplete: SuspendUpload(f, false) puts the uploaders of f at the
\* end of the waiting list, whatever its length, and ranks nobody.  A download
\* need not be shared to complete, and completes again after an I/O error.
PerformFileComplete(f) ==
  LET U == Uploaders(s, f)
      n == Cardinality(U)
      R == LeaveUpload(s, U)
  IN  Handler({[R EXCEPT !.suspended = @ \cup {f},
                         !.waiting   = @ \o q,
                         !.nWaiting  = @ + n,
                         !.up = [c \in Clients |->
                                   IF c \in U THEN "queued" ELSE @[c]]] :
                q \in {p \in [1..n -> U] :
                         \A i, j \in 1..n : i # j => p[i] # p[j]}})

\* CompleteFileEnded without an error: ResumeUpload(f), then the file is shared.
\* After an error, or when the download is deleted first, f stays suspended.
CompleteFileEnded(f) ==
  /\ f \in s.suspended
  /\ Handler({[s EXCEPT !.suspended = @ \ {f}, !.shared = @ \cup {f}]})

\* Mutant of DeleteFile: the file's uploads go on.
DeleteFileQuietly(f) ==
  /\ f \in s.shared \/ \E c \in Clients : s.file[c] = f
  /\ Handler({[s EXCEPT
                 !.shared = @ \ {f},
                 !.file   = [c \in Clients |-> IF @[c] = f THEN NoFile ELSE @[c]]]})

\* CPartFile::Delete: SuspendUpload(f, true), unshare, destroy the object.
DeleteFile(f) ==
  /\ f \in s.shared \/ \E c \in Clients : s.file[c] = f
  /\ Handler({[LeaveUpload(s, Uploaders(s, f)) EXCEPT
                 !.shared = @ \ {f},
                 !.file   = [c \in Clients |-> IF @[c] = f THEN NoFile ELSE @[c]]]})

\* CSharedFileList::RemoveFile, or a reload that no longer finds the file.
Unshare(f) ==
  /\ f \in s.shared
  /\ Handler({[s EXCEPT !.shared = @ \ {f}]})

\* A reload or a new download shares the file (again).
Share(f) ==
  /\ f \notin s.shared
  /\ Handler({[s EXCEPT !.shared = @ \cup {f}]})
-----------------------------------------------------------------------------
(***************************************************************************)
(* Housekeeping and time.                                                   *)
(***************************************************************************)
Removable(S, c) ==
  /\ c \in S.alive \ ChatPartners
  /\ S.up[c] = "none" \/ (S.up[c] = "banned" /\ ~IsBanned(S, c))
  /\ S.down[c] = "none"
  /\ S.sock[c] = "none"

\* CClientList::CleanUpClientList visits the clients one by one; the visit of
\* one depends on no other's, so the pass is a series of these actions.
CleanUpClientList(c) ==
  /\ Removable(s, c)
  /\ Handler({SafeDelete(AfterDisconnect(s, c), c)})

\* CClientList::FilterQueues: a new IP filter covers the client.
FilterQueues(c) ==
  /\ c \in s.alive
  /\ Handler({SafeDelete(AfterDisconnect(s, c), c)})

\* The user asks for a sorted queue (Upload_Resort_Queue).
ResortQueue == Handler(Sorted(s))

\* A second has passed since the last upload was started.
SecondPasses == s.recent /\ Elapses([s EXCEPT !.recent = FALSE])

\* A waiting client has not asked for an hour (MAX_PURGEQUEUETIME).
HourPasses(c) ==
  /\ c \in Idlers \ s.stale /\ InWaiting(s, c)
  /\ Elapses([s EXCEPT !.stale = @ \cup {c}])
-----------------------------------------------------------------------------
Process == ProcessSlots \/ (\E c \in Clients : ProcessFeed(c)) \/ ProcessEnd

ClientStep(c) ==
  \/ Hello(c) \/ HelloAnswer(c) \/ SocketLost(c)
  \/ \E f \in Files : RequestFile(c, f)
  \/ \E f \in Files, crowded \in BOOLEAN : StartUploadReq(c, f, crowded)
  \/ StopUpload(c) \/ ReaskFilePing(c) \/ ChangeClientID(c)
  \/ AskForDownload(c) \/ SourceAnswers(c) \/ SourceDropped(c)
  \/ ProtocolError(c) \/ Ban(c) \/ BanCorrupter(c) \/ BanExpires(c) \/ CleanUpClientList(c)
  \/ FilterQueues(c) \/ HourPasses(c)

FileStep(f) ==
  \/ PerformFileComplete(f) \/ CompleteFileEnded(f)
  \/ DeleteFile(f) \/ Unshare(f) \/ Share(f)

Next ==
  \/ Process
  \/ \E c \in Clients : ClientStep(c)
  \/ \E f \in Files : FileStep(f)
  \/ ResortQueue \/ SecondPasses

\* The core timer calls Process every 100 ms and CClientList::Process (which
\* calls CleanUpClientList) every second; time passes by itself.  The first two
\* conjuncts are WF_vars(Process), which is always enabled, and
\* WF_vars(CleanUpClientList(c)), with ENABLED spelled out.
Fairness ==
  /\ []<><<Process>>_vars
  /\ \A c \in Clients :
       \/ []<>(feeding \/ ~Removable(s, c))
       \/ []<><<CleanUpClientList(c)>>_vars
  /\ WF_vars(SecondPasses)
  /\ \A c \in Clients : WF_vars(BanExpires(c))

Spec == Init /\ [][Next]_vars

FairSpec == Spec /\ Fairness
-----------------------------------------------------------------------------
(***************************************************************************)
(* Properties.                                                              *)
(***************************************************************************)
TypeOK ==
  /\ s \in State
  /\ feeding \in BOOLEAN
  /\ todo \subseteq Clients

\* A client's upload state says which list it is in: the two slot states mean
\* exactly membership in m_uploadinglist, and nobody is in both lists.  The
\* code tests now the state (CUpDownClient::IsDownloading), now the list
\* (CUploadQueue::IsDownloading) and relies on the two agreeing.
SlotStateAgrees ==
  \A c \in Clients :
    /\ c \in s.uploading <=> s.up[c] \in {"connecting", "uploading"}
    /\ InWaiting(s, c) => s.up[c] \in {"queued", "banned"}

\* Nobody waits twice, so RemoveFromWaitingQueue, which stops at the first
\* hit, removes all there is.
NobodyWaitsTwice ==
  \A i, j \in 1..Len(s.waiting) : i # j => s.waiting[i] # s.waiting[j]

\* Neither list keeps a deleted object, whichever handler deleted it.
NoDeadClientQueued ==
  /\ s.uploading \subseteq s.alive
  /\ \A i \in 1..Len(s.waiting) : s.waiting[i] \in s.alive

\* A socket belongs to a live object, and no slot waits for a connection that
\* is open: each path that opens a socket, or finds it open, also moves the
\* client on, or its slot would be neither fed nor given back.
SocketAgrees ==
  \A c \in Clients :
    /\ s.sock[c] # "none" => c \in s.alive
    /\ s.up[c] = "connecting" => s.sock[c] # "open"

\* The statistics (which ClientUDPSocket uses to answer OP_QUEUEFULL) count
\* exactly the lists, on every early return of every handler.
CountersAgree ==
  /\ s.nWaiting = Len(s.waiting)
  /\ s.nUploading = Cardinality(s.uploading)

\* "the number of slots exceeds the configured number by one", and while it
\* does no LowID client gets a further one.
ExtraSlotBound ==
  /\ Cardinality(s.uploading) <= MaxSlots + 1
  /\ Cardinality(s.uploading) > MaxSlots => ~s.lastHighID

\* The rank that OP_QUEUERANKING and OP_REASKACK report is the position in the
\* list, or 0 (not reported) for a client SuspendUpload has just put back.
RankIsPosition ==
  /\ \A i \in 1..Len(s.waiting) : s.rank[s.waiting[i]] \in {0, i}
  /\ \A c \in Clients : ~InWaiting(s, c) => s.rank[c] = 0

\* Nothing Process calls on one client takes another out of the list it is
\* iterating over: the saved iterator stays valid.
IteratorValid == todo \subseteq s.uploading

\* CheckForTimeOver dereferences the upload file of every client in a slot.
UploaderHasFile == \A c \in s.uploading : s.file[c] # NoFile

Gains(c) == c \notin s.uploading /\ c \in s'.uploading

\* A slot goes to somebody who waits, or to a newcomer when nobody waits.
NoQueueJumping ==
  [][\A c \in Clients : Gains(c) => InWaiting(s, c) \/ Len(s'.waiting) = 0]_vars

\* A slot whose client lost its socket is given back, unless the client returns.
DeadSlotFreed ==
  \A c \in Clients :
    (c \in s.uploading /\ s.sock[c] = "none")
      ~> (c \notin s.uploading \/ s.sock[c] # "none")

\* While a slot is free and a client that can be called up waits, clients keep
\* leaving the waiting list: the queue never stalls.
Offered ==
  /\ Cardinality(s.uploading) < MaxSlots /\ ~TooManySockets(s)
  /\ \E c \in Clients : InWaiting(s, c) /\ ~Unreached(s, c)

QueueKeepsMoving ==
  \/ []<>~Offered
  \/ []<><<\E c \in Clients : InWaiting(s, c) /\ ~InWaiting(s', c)>>_vars

=============================================================================
