--------------------------- MODULE DownloadSources ---------------------------
(***************************************************************************)
(* The sources of our downloads: which file each peer is asked for          *)
(* (CUpDownClient::m_reqfile), the other files it could be asked for        *)
(* (m_A4AF_list), the lists and counters every CPartFile keeps about its    *)
(* sources, and how TCP answers, UDP answers, the download queue's rounds,  *)
(* the user and the end of a download move a peer from one file to another  *)
(* (DownloadClient.cpp, DownloadQueue.cpp, PartFile.cpp, BaseClient.cpp).   *)
(*                                                                          *)
(* All of it runs on the main thread, so a handler is one action.  A peer   *)
(* answers in the order it was asked, but late: an answer about a file can  *)
(* arrive when the peer has been moved to another one.  The one loop that   *)
(* is cut into steps is RemoveAllSources: while it runs, "job" names its    *)
(* file and the sources its iterator has still to reach, and nothing else   *)
(* happens.  CDownloadQueue's round treats each source of a file by itself, *)
(* so each visit is an action of its own.                                   *)
(*                                                                          *)
(* The lists of dead sources, which only keep a peer from being found again *)
(* for a while, are left out: a source can always be found.                 *)
(***************************************************************************)
EXTENDS Integers, Sequences, FiniteSets

CONSTANTS
  Clients,     \* peers; one CUpDownClient object per peer at a time
  Files,       \* files in the download queue
  None,        \* no request file, no running job
  AutoFiles,   \* files with IsA4AFAuto()
  Priority,    \* GetDownPriority() of each file
  MaxSources,  \* thePrefs::GetMaxSourcePerFile()
  Finishing,   \* bound: files that may be completed or deleted in a run
  MaxAsked     \* bound: unanswered file requests on one connection

DownStates == {"none", "connecting", "connected", "onqueue", "downloading",
               "noneeded", "toomany", "error", "banned"}
Sockets    == {"none", "dialling", "up"}
Phases     == {"ready", "hashing", "moving", "failed", "gone"}

\* RemoveAllSources in progress.  What follows the loop: the user's stop, the
\* move of the finished file, the deletion.
Evictions == [file : Files, todo : SUBSET Clients,
              next : {"stop", "move", "delete"}]

ASSUME SourcesAssumption ==
  /\ None \notin Files \cup Clients \cup DownStates \cup Evictions
  /\ AutoFiles \subseteq Files /\ Finishing \subseteq Files
  /\ Priority \in [Files -> 0..9]
  /\ MaxSources \in Nat
  /\ MaxAsked \in Nat

ASSUME FiniteAssumption == IsFiniteSet(Clients)

VARIABLES
  s,    \* the state record, see State
  job   \* RemoveAllSources in progress, see Jobs

vars == <<s, job>>

State ==
  [ alive      : SUBSET Clients,               \* in m_clientList, not CS_DYING
    queued     : SUBSET Clients,               \* US_ONUPLOADQUEUE
    req        : [Clients -> Files \cup {None}],       \* m_reqfile
    ds         : [Clients -> DownStates],      \* m_nDownloadState
    sock       : [Clients -> Sockets],         \* m_socket
    other      : [Clients -> SUBSET Files],    \* the keys of m_A4AF_list
    unneeded   : [Clients -> SUBSET Files],    \* its entries without NeededParts
    has        : [Clients -> BOOLEAN],         \* m_downPartStatus: a part we lack
    pending    : SUBSET Clients,               \* m_bUDPPending
    asked      : [Clients -> Seq(Files)],      \* TCP requests not answered yet
    pinged     : [Clients -> SUBSET Files],    \* UDP reasks not answered yet
    src        : [Files -> SUBSET Clients],    \* m_SrcList
    a4af       : [Files -> SUBSET Clients],    \* m_A4AFsrclist
    dl         : [Files -> SUBSET Clients],    \* m_downloadingSourcesList
    valid      : [Files -> Int],               \* m_validSources
    notCurrent : [Files -> Int],               \* m_notCurrentSources
    freq       : [Files -> Int],               \* m_SrcpartFrequency of that part
    phase      : [Files -> Phases],            \* status; "gone": not in m_filelist
    paused     : SUBSET Files,                 \* m_paused
    stopped    : SUBSET Files ]                \* m_stopped

Jobs == Evictions \cup {None}

Init ==
  /\ s = [ alive |-> {}, queued |-> {},
           req |-> [c \in Clients |-> None],
           ds |-> [c \in Clients |-> "none"],
           sock |-> [c \in Clients |-> "none"],
           other |-> [c \in Clients |-> {}],
           unneeded |-> [c \in Clients |-> {}],
           has |-> [c \in Clients |-> FALSE],
           pending |-> {},
           asked |-> [c \in Clients |-> <<>>],
           pinged |-> [c \in Clients |-> {}],
           src |-> [f \in Files |-> {}],
           a4af |-> [f \in Files |-> {}],
           dl |-> [f \in Files |-> {}],
           valid |-> [f \in Files |-> 0],
           notCurrent |-> [f \in Files |-> 0],
           freq |-> [f \in Files |-> 0],
           phase |-> [f \in Files |-> "ready"],
           paused |-> {}, stopped |-> {} ]
  /\ job = None
-----------------------------------------------------------------------------
(***************************************************************************)
(* Queries.                                                                 *)
(***************************************************************************)
\* GetStatus() is PS_READY or PS_EMPTY.
Active(S, f) == S.phase[f] = "ready" /\ f \notin S.paused

IsConnected(S, c) == S.sock[c] = "up"

\* The states ClientStateChanged counts in m_validSources and in
\* m_notCurrentSources (DS_CONNECTED in both); None is its state -1.
CountsValid(d)      == d \in {"onqueue", "downloading", "connected"}
CountsNotCurrent(d) == d \notin {"onqueue", "downloading", None}

One(b) == IF b THEN 1 ELSE 0
-----------------------------------------------------------------------------
(***************************************************************************)
(* What a client tells its request file.                                    *)
(***************************************************************************)
ClientStateChanged(S, f, old, new) ==
  [S EXCEPT
     !.valid[f]      = @ + One(CountsValid(new)) - One(CountsValid(old)),
     !.notCurrent[f] = @ + One(CountsNotCurrent(new)) - One(CountsNotCurrent(old))]

\* m_downPartStatus is replaced (or cleared: h = FALSE) between the two calls of
\* UpdatePartsFrequency that keep the request file's counts.
SetParts(S, c, h) ==
  LET f == S.req[c] IN
  IF f = None THEN [S EXCEPT !.has[c] = h]
  ELSE [S EXCEPT !.freq[f] = @ - One(S.has[c]) + One(h), !.has[c] = h]

\* What its request file is told when c takes the state d.
TellFile(S, c, d) ==
  LET f == S.req[c]
  IN  IF f = None THEN S
      ELSE [ClientStateChanged(S, f, S.ds[c], d) EXCEPT
              !.dl[f] = IF d = "downloading" THEN @ \cup {c}
                        ELSE IF S.ds[c] = "downloading" THEN @ \ {c} ELSE @]

\* A source that was sending and falls back to DS_NONE forgets its part status.
LoseParts(S, c, d) ==
  IF S.ds[c] = "downloading" /\ d = "none" THEN SetParts(S, c, FALSE) ELSE S

SetDownloadState(S, c, d) ==
  IF S.ds[c] = d THEN S
  ELSE [LoseParts(TellFile(S, c, d), c, d) EXCEPT !.ds[c] = d]

SetRequestFile(S, c, f) ==
  IF S.req[c] = f THEN S
  ELSE LET Q == SetParts(S, c, FALSE)
           P == IF S.req[c] = None THEN Q
                ELSE ClientStateChanged(Q, S.req[c], S.ds[c], None)
           R == [P EXCEPT !.req[c] = f]
       IN  IF f = None THEN R ELSE ClientStateChanged(R, f, None, S.ds[c])
-----------------------------------------------------------------------------
(***************************************************************************)
(* Leaving a file, and leaving all of them.                                 *)
(***************************************************************************)
\* The loop of CDownloadQueue::RemoveSource over the files of the queue.
DelSourceEverywhere(S, c) ==
  LET Off(L) == [f \in Files |-> IF S.phase[f] = "gone" THEN L[f] ELSE L[f] \ {c}]
  IN  [S EXCEPT !.src = Off(@), !.a4af = Off(@), !.dl = Off(@),
                !.other[c] = {}, !.unneeded[c] = {}]

\* CDownloadQueue::RemoveSource
RemoveSource(S, c) ==
  SetParts(
    SetDownloadState(SetRequestFile(DelSourceEverywhere(S, c), c, None), c, "none"),
    c, FALSE)

SafeDelete(S, c) ==
  IF c \notin S.alive THEN S
  ELSE RemoveSource([S EXCEPT !.alive    = @ \ {c},
                              !.queued   = @ \ {c},
                              !.pending  = @ \ {c},
                              !.sock[c]  = "none",
                              !.asked[c] = <<>>], c)

\* What CUpDownClient::Disconnected does to the client itself.
AfterDisconnect(S, c) ==
  LET R == CASE S.ds[c] = "downloading" -> SetDownloadState(S, c, "onqueue")
             [] S.ds[c] = "connected"   -> RemoveSource(S, c)
             [] OTHER                   -> S
  IN  [R EXCEPT !.sock[c] = "none", !.asked[c] = <<>>]

Failed(S, c) == S.ds[c] \in {"connecting", "error", "banned"}

\* Mutant of Needless: a dial that failed does not cost the client its life.
NeedlessUnlessDialled(S, c) ==
  c \notin S.queued /\ S.ds[c] \notin {"onqueue", "toomany", "noneeded", "connecting"}

\* Disconnected's result: "check if this client is needed in any way".
Needless(S, c) ==
  \/ Failed(S, c)
  \/ c \notin S.queued /\ S.ds[c] \notin {"onqueue", "toomany", "noneeded"}

\* Every caller follows "if (Disconnected(...)) Safe_Delete();".
Disconnect(S, c) ==
  IF c \notin S.alive THEN S
  ELSE LET R == AfterDisconnect(S, c)
       IN  IF Needless(R, c) THEN SafeDelete(R, c) ELSE R

\* CPartFile::RemoveSource: a client without a socket may have to go.
Purge(S, c) ==
  LET R == RemoveSource(S, c)
  IN  IF R.sock[c] = "none" THEN Disconnect(R, c) ELSE R
-----------------------------------------------------------------------------
(***************************************************************************)
(* Swapping to another file.                                                *)
(***************************************************************************)
\* IsValidSwapTarget, but for the time since the last swap.
Targets(S, c, ignoreNoNeeded) ==
  {f \in S.other[c] :
     /\ ignoreNoNeeded \/ f \notin S.unneeded[c]
     /\ f # S.req[c] /\ f \notin S.stopped /\ Active(S, f)}

MaySwap(S, c) ==
  /\ S.req[c] # None
  /\ S.ds[c] # "downloading"
  /\ c \in S.src[S.req[c]]

\* The targets of T that SwapToAnotherFile may choose: the highest priority, and
\* files with needed parts before those without; equals in the order of the map.
Preferred(S, c, T) ==
  LET Rate(f) == Priority[f] + (IF f \in S.unneeded[c] THEN 0 ELSE 10)
  IN  {f \in T : \A g \in T : Rate(g) <= Rate(f)}

\* Mutant of SwapTo: the file left behind is not entered in m_A4AF_list.
SwapForgetting(S, c, g, completely) ==
  LET f == S.req[c]
      L == [S EXCEPT !.src[f] = @ \ {c}, !.a4af[g] = @ \ {c}, !.dl[f] = @ \ {c}]
      K == IF completely THEN L ELSE [L EXCEPT !.a4af[f] = @ \cup {c}]
      R == SetRequestFile(SetParts(SetDownloadState(K, c, "none"), c, FALSE), c, g)
  IN  [R EXCEPT !.src[g] = @ \cup {c},
                !.other[c] = @ \ {g}, !.unneeded[c] = @ \ {g}]

\* SwapToAnotherFile after the choice of the target g.
SwapTo(S, c, g, completely) ==
  LET f == S.req[c]
      L == [S EXCEPT !.src[f] = @ \ {c}, !.a4af[g] = @ \ {c}, !.dl[f] = @ \ {c}]
      K == IF completely THEN L
           ELSE [L EXCEPT !.a4af[f]     = @ \cup {c},
                          !.other[c]    = @ \cup {f},
                          !.unneeded[c] = IF S.ds[c] = "noneeded" THEN @ \cup {f}
                                          ELSE @ \ {f}]
      R == SetRequestFile(SetParts(SetDownloadState(K, c, "none"), c, FALSE), c, g)
  IN  [R EXCEPT !.src[g] = @ \cup {c},
                !.other[c] = @ \ {g}, !.unneeded[c] = @ \ {g}]

\* SwapToAnotherFile(ignoreNoNeeded, TRUE, completely, NULL): the states it can
\* leave behind, none when it finds no target.
Swaps(S, c, ignoreNoNeeded, completely) ==
  IF ~MaySwap(S, c) THEN {}
  ELSE LET T == Targets(S, c, ignoreNoNeeded)
       IN  {SwapTo(S, c, g, completely) : g \in Preferred(S, c, T)}

\* The same when recent swaps count: any of the targets may be suspended, and
\* those of U are not.
SwapsAmong(S, c, U) ==
  IF ~MaySwap(S, c) THEN {}
  ELSE {SwapTo(S, c, g, FALSE) : g \in Preferred(S, c, U)}
-----------------------------------------------------------------------------
(***************************************************************************)
(* Finding sources.                                                         *)
(***************************************************************************)
AddRequestForAnotherFile(S, c, f) ==
  [S EXCEPT !.other[c] = @ \cup {f}, !.a4af[f] = @ \cup {c}]

\* The common end of CheckAndAddSource and CheckAndAddKnownSource: a client that
\* has a request file gets one more to swap to, another becomes a source.
Attach(S, c, f) ==
  IF S.req[c] = None
  THEN [SetRequestFile(S, c, f) EXCEPT !.src[f] = @ \cup {c}]
  ELSE IF S.req[c] = f THEN S
  ELSE AddRequestForAnotherFile(S, c, f)

NewClient(S, c) == [S EXCEPT !.alive = @ \cup {c}]
-----------------------------------------------------------------------------
(***************************************************************************)
(* Asking for a file.                                                       *)
(***************************************************************************)
SendFileRequest(S, c) == [S EXCEPT !.asked[c] = Append(@, S.req[c])]

ConnectionEstablished(S, c) ==
  IF S.ds[c] = "connecting"
  THEN SendFileRequest(SetDownloadState(S, c, "connected"), c)
  ELSE S

\* TryToConnect for a client that is allowed to be dialled.
TryToConnect(S, c) ==
  IF IsConnected(S, c) THEN ConnectionEstablished(S, c)
  ELSE [S EXCEPT !.sock[c] = "dialling"]

\* AskForDownload up to its call of TryToConnect.
StartAsking(S, c) ==
  SetDownloadState([S EXCEPT !.pending = @ \ {c}], c, "connecting")

\* What a file's part status means for a source: NONEEDEDPARTS or in line.
StatusRead(S, c, h) ==
  SetDownloadState(SetParts(S, c, h), c, IF h THEN "onqueue" ELSE "noneeded")
-----------------------------------------------------------------------------
(***************************************************************************)
(* Actions: sources are found.                                              *)
(***************************************************************************)
Idle == job = None

\* CPartFile::AddSources: a peer named by a server, Kademlia or another peer.
FoundSource(c, f) ==
  /\ Idle
  /\ s.phase[f] # "gone" /\ f \notin s.stopped
  /\ Cardinality(s.src[f]) < MaxSources
  /\ s' = Attach(NewClient(s, c), c, f)
  /\ UNCHANGED job

\* OP_REQUESTFILENAME and the multipacket: who asks us for a file may have some
\* of it.
KnownSource(c, f) ==
  /\ Idle
  /\ c \in s.alive /\ IsConnected(s, c)
  /\ s.phase[f] # "gone" /\ f \notin s.stopped
  /\ Cardinality(s.src[f]) < MaxSources
  /\ s' = Attach(s, c, f)
  /\ UNCHANGED job
-----------------------------------------------------------------------------
(***************************************************************************)
(* Actions: CPartFile::Process for one source of an active file.            *)
(***************************************************************************)
Visits(c, f) == Idle /\ Active(s, f) /\ c \in s.src[f]

Crowded(f) == 10 * Cardinality(s.src[f]) >= 8 * MaxSources

\* AskForDownload.  Whether there are too many sockets, and whether the client
\* may be dialled at all, depends on what is not modelled here.
Ask(c, f) ==
  /\ Visits(c, f)
  /\ s.ds[c] \in {"onqueue", "connecting", "toomany", "none"}
  /\ Len(s.asked[c]) < MaxAsked
  /\ \/ ~IsConnected(s, c) /\ s' = SetDownloadState(s, c, "toomany")
     \/ s' = TryToConnect(StartAsking(s, c), c)
     \/ s' = Disconnect(StartAsking(s, c), c)   \* filtered, banned, obfuscation
  /\ UNCHANGED job

\* UDPReaskForDownload
Ping(c, f) ==
  /\ Visits(c, f)
  /\ s.ds[c] = "onqueue"
  /\ c \notin s.pending /\ ~IsConnected(s, c)
  /\ s' = [s EXCEPT !.pending = @ \cup {c}, !.pinged[c] = @ \cup {f}]
  /\ UNCHANGED job

\* A queue that is full may cost a source its place in a crowded file.
DropFullQueue(c, f) ==
  /\ Visits(c, f)
  /\ s.ds[c] = "onqueue" /\ Crowded(f)
  /\ s' = Purge(s, c)
  /\ UNCHANGED job

\* DS_NONEEDEDPARTS: swap, else purge from a crowded file, else ask again.
NoNeeded(c, f) ==
  /\ Visits(c, f)
  /\ s.ds[c] = "noneeded"
  /\ \/ \E U \in SUBSET Targets(s, c, FALSE) : s' \in SwapsAmong(s, c, U)
     \/ Crowded(f) /\ s' = Purge(s, c)
     \/ s' = SetDownloadState(s, c, "none")
  /\ UNCHANGED job

\* The round over m_A4AFsrclist of a file with automatic swapping.
PullA4AF(c, f) ==
  /\ Idle /\ Active(s, f) /\ f \in AutoFiles
  /\ c \in s.a4af[f] /\ s.req[c] # None
  /\ s.req[c] \notin AutoFiles \/ s.ds[c] = "noneeded"
  /\ s' \in SwapsAmong(s, c, Targets(s, c, FALSE) \cap {f})
  /\ UNCHANGED job
-----------------------------------------------------------------------------
(***************************************************************************)
(* Actions: connections.                                                    *)
(***************************************************************************)
\* The dial succeeds and the handshake is done.
Connected(c) ==
  /\ Idle
  /\ s.sock[c] = "dialling"
  /\ s' = ConnectionEstablished([s EXCEPT !.sock[c] = "up"], c)
  /\ UNCHANGED job

\* The peer connects to us, perhaps for the first time.
Accepted(c) ==
  /\ Idle
  /\ s.sock[c] = "none"
  /\ s' = ConnectionEstablished([NewClient(s, c) EXCEPT !.sock[c] = "up"], c)
  /\ UNCHANGED job

\* The dial fails, the peer hangs up or falls silent.
Lost(c) ==
  /\ Idle
  /\ s.sock[c] # "none"
  /\ s' = Disconnect(s, c)
  /\ UNCHANGED job

\* The peer asks for an upload, and later gets it or gives it up.
JoinsQueue(c) ==
  /\ Idle
  /\ IsConnected(s, c) /\ c \notin s.queued
  /\ s' = [s EXCEPT !.queued = @ \cup {c}]
  /\ UNCHANGED job

LeavesQueue(c) ==
  /\ Idle
  /\ c \in s.queued
  /\ s' = [s EXCEPT !.queued = @ \ {c}]
  /\ UNCHANGED job

\* CorruptionBlackBox: the sender of corrupt data is banned and dropped.
Evil(c) ==
  /\ Idle
  /\ c \in s.alive
  /\ s' = Disconnect(SetDownloadState([s EXCEPT !.queued = @ \ {c}], c, "banned"), c)
  /\ UNCHANGED job

\* Mutant of Disposable: clients that are asked for a file are kept.
DisposableUnasked(c) ==
  /\ c \in s.alive \ s.queued
  /\ s.ds[c] = "none" /\ s.sock[c] = "none" /\ s.other[c] # {}

\* The client has no state at all.
Disposable(c) ==
  /\ c \in s.alive \ s.queued
  /\ s.ds[c] = "none" /\ s.sock[c] = "none"

\* CClientList::CleanUpClientList
CleanUp(c) ==
  /\ Idle
  /\ Disposable(c)
  /\ s' = SafeDelete(s, c)
  /\ UNCHANGED job
-----------------------------------------------------------------------------
(***************************************************************************)
(* Actions: the peer answers.                                               *)
(***************************************************************************)
Answers(c) == Idle /\ s.asked[c] # <<>>

Read(S, c) == [S EXCEPT !.asked[c] = Tail(@)]

\* OP_FILESTATUS.  An answer about another file than the request file throws;
\* PacketReceived then sets DS_ERROR and disconnects.
FileStatus(S, c, f, h) ==
  IF S.req[c] = f THEN StatusRead(S, c, h)
  ELSE Disconnect(SetDownloadState(S, c, "error"), c)

HasFile(c, h) ==
  /\ Answers(c)
  /\ s' = FileStatus(Read(s, c), c, Head(s.asked[c]), h)
  /\ UNCHANGED job

\* OP_FILEREQANSNOFIL for file f: swap to another file, ignoring whether parts
\* are needed and when it was swapped, or stop being a source.
NoSuchFile(S, c, f) ==
  IF S.phase[f] = "gone" \/ S.ds[c] \notin {"connected", "onqueue", "noneeded"}
  THEN {S}
  ELSE LET T == Swaps(S, c, TRUE, TRUE)
       IN  IF T = {} THEN {RemoveSource(S, c)} ELSE T

HasNoFile(c) ==
  /\ Answers(c)
  /\ s' \in NoSuchFile(Read(s, c), c, Head(s.asked[c]))
  /\ UNCHANGED job

\* An answer to a UDP reask does not say which file it is about: it counts for
\* the present request file of the source that is found by its address.
UdpAnswers(c, f) ==
  /\ Idle
  /\ f \in s.pinged[c]
  /\ \E g \in Files : s.phase[g] # "gone" /\ c \in s.src[g]

Heard(S, c, f) == [S EXCEPT !.pinged[c] = @ \ {f}]

\* OP_REASKACK.  A part count that does not fit throws before the state is set.
ReaskAck(c, f, h) ==
  /\ UdpAnswers(c, f)
  /\ \/ s' = [StatusRead(Heard(s, c, f), c, h) EXCEPT !.pending = @ \ {c}]
     \/ /\ f # s.req[c]
        /\ s' = SetParts(Heard(s, c, f), c, FALSE)
  /\ UNCHANGED job

\* OP_QUEUEFULL
QueueFull(c, f) ==
  /\ UdpAnswers(c, f)
  /\ s' = [Heard(s, c, f) EXCEPT !.pending = @ \ {c}]
  /\ UNCHANGED job

\* UDPReaskFNF
ReaskFNF(S, c) ==
  IF S.ds[c] = "downloading" THEN S
  ELSE LET R == RemoveSource(S, c)
       IN  IF R.sock[c] = "none" THEN Disconnect(R, c) ELSE R

FileNotFound(c, f) ==
  /\ UdpAnswers(c, f)
  /\ s' = ReaskFNF([Heard(s, c, f) EXCEPT !.pending = @ \ {c}], c)
  /\ UNCHANGED job

\* A datagram that arrives when the peer is a source of nothing, or that is lost.
UdpLost(c, f) ==
  /\ Idle
  /\ f \in s.pinged[c]
  /\ s' = Heard(s, c, f)
  /\ UNCHANGED job
-----------------------------------------------------------------------------
(***************************************************************************)
(* Actions: downloading.                                                    *)
(***************************************************************************)
Wanted(S, c) ==
  LET f == S.req[c] IN f # None /\ f \notin S.stopped /\ Active(S, f)

\* What an offer we do not want, or data for it, makes of the source.
Decline(S, c) ==
  SetDownloadState(S, c,
    IF S.req[c] = None \/ S.req[c] \in S.stopped THEN "none" ELSE "onqueue")

\* OP_ACCEPTUPLOADREQ
SlotGranted(c) ==
  /\ Idle
  /\ IsConnected(s, c)
  /\ s' = IF ~Wanted(s, c) THEN Decline(s, c)
          ELSE IF s.ds[c] = "onqueue" THEN SetDownloadState(s, c, "downloading")
          ELSE s
  /\ UNCHANGED job

\* OP_OUTOFPARTREQS, or no data for DOWNLOADTIMEOUT.
SlotEnds(c) ==
  /\ Idle
  /\ s.ds[c] = "downloading"
  /\ s' = SetDownloadState(s, c, "onqueue")
  /\ UNCHANGED job

\* SendBlockRequests finds no block for the source, or drops a slower one.
NoMoreBlocks(c) ==
  /\ Idle
  /\ s.ds[c] = "downloading"
  /\ s' = SetDownloadState(s, c, "noneeded")
  /\ UNCHANGED job

\* OP_SENDINGPART for a file that does not take data any more.
UnwantedData(c) ==
  /\ Idle
  /\ IsConnected(s, c) /\ ~Wanted(s, c)
  /\ s' = Decline(s, c)
  /\ UNCHANGED job
-----------------------------------------------------------------------------
(***************************************************************************)
(* Actions: the user, and the end of a download.                            *)
(***************************************************************************)
\* PauseFile; it returns early while the file completes.
Pausing(S, f) ==
  IF S.phase[f] \in {"hashing", "moving"} THEN S
  ELSE LET D == {c \in S.src[f] : S.ds[c] = "downloading"}
       IN  [S EXCEPT !.paused = @ \cup {f},
                     !.ds = [c \in Clients |-> IF c \in D THEN "onqueue" ELSE @[c]],
                     !.dl[f] = @ \ D]

Pause(f) ==
  /\ Idle /\ s.phase[f] # "gone"
  /\ s' = Pausing(s, f)
  /\ UNCHANGED job

\* StopFile up to RemoveAllSources
StopFile(f, next) ==
  /\ s' = Pausing([s EXCEPT !.stopped = @ \cup {f}], f)
  /\ job' = [file |-> f, todo |-> s.src[f], next |-> next]

Stop(f)   == Idle /\ s.phase[f] # "gone" /\ StopFile(f, "stop")
Delete(f) ==
  Idle /\ s.phase[f] # "gone" /\ f \in Finishing /\ StopFile(f, "delete")

\* Mutant of Evict: sources that cannot be swapped stay.
EvictSwapping(S, c) ==
  LET T == Swaps(S, c, TRUE, TRUE) IN IF T = {} THEN {S} ELSE T

\* RemoveAllSources(true) for one source
Evict(S, c) ==
  LET T == Swaps(S, c, TRUE, TRUE) IN IF T = {} THEN {Purge(S, c)} ELSE T

EvictNext(c) ==
  /\ ~Idle /\ c \in job.todo
  /\ s' \in Evict(s, c)
  /\ job' = [job EXCEPT !.todo = @ \ {c}]

\* The end of RemoveAllSources: nobody can be swapped to the file any more.
ForgetA4AF(S, f) ==
  LET Off(M) == [c \in Clients |-> IF c \in S.a4af[f] THEN M[c] \ {f} ELSE M[c]]
  IN  [S EXCEPT !.other = Off(@), !.unneeded = Off(@), !.a4af[f] = {}]

EvictEnds ==
  /\ ~Idle /\ job.todo = {}
  /\ s' = [ForgetA4AF(s, job.file) EXCEPT
             !.phase[job.file] = CASE job.next = "stop"   -> @
                                   [] job.next = "move"   -> "moving"
                                   [] job.next = "delete" -> "gone"]
  /\ job' = None

\* ResumeFile; a file whose completion failed is completed again.
Resume(f) ==
  /\ Idle /\ s.phase[f] \in {"ready", "failed"}
  /\ LET R == [s EXCEPT !.paused = @ \ {f}, !.stopped = @ \ {f}] IN
     IF s.phase[f] = "ready" THEN s' = R /\ UNCHANGED job
     ELSE /\ s' = Pausing([R EXCEPT !.stopped = @ \cup {f}], f)
          /\ job' = [file |-> f, todo |-> R.src[f], next |-> "move"]

\* CompleteFile(false): the last gap is filled, the file is hashed.
LastGap(f) ==
  /\ Idle /\ s.phase[f] = "ready" /\ f \in Finishing
  /\ s' = [s EXCEPT !.phase[f] = "hashing"]
  /\ UNCHANGED job

\* PartFileHashFinished: a corrupt part, or CompleteFile(true).
HashBad(f) ==
  /\ Idle /\ s.phase[f] = "hashing"
  /\ s' = [s EXCEPT !.phase[f] = "ready"]
  /\ UNCHANGED job

HashGood(f) == Idle /\ s.phase[f] = "hashing" /\ StopFile(f, "move")

\* CompleteFileEnded
Moved(f) ==
  /\ Idle /\ s.phase[f] = "moving"
  /\ \/ s' = [s EXCEPT !.phase[f] = "gone", !.paused = @ \ {f}]
     \/ s' = [s EXCEPT !.phase[f] = "failed", !.paused = @ \cup {f}]
  /\ UNCHANGED job

\* PartFile_Swap_A4AF: bring here who could be swapped here.
SwapHere(c, f) ==
  /\ Idle /\ Active(s, f) /\ c \in s.a4af[f]
  /\ s' \in SwapsAmong(s, c, Targets(s, c, TRUE) \cap {f})
  /\ UNCHANGED job

\* PartFile_Swap_A4AF_Others: send the sources away where possible.
SwapAway(c, f) ==
  /\ Visits(c, f)
  /\ \E U \in SUBSET Targets(s, c, FALSE) : s' \in SwapsAmong(s, c, U)
  /\ UNCHANGED job
-----------------------------------------------------------------------------
FindNext == \E c \in Clients, f \in Files : FoundSource(c, f) \/ KnownSource(c, f)

ProcessNext ==
  \E c \in Clients, f \in Files :
    \/ Ask(c, f)
    \/ Ping(c, f)
    \/ DropFullQueue(c, f)
    \/ NoNeeded(c, f)
    \/ PullA4AF(c, f)

ClientNext ==
  \E c \in Clients :
    \/ Connected(c)
    \/ Accepted(c)
    \/ Lost(c)
    \/ JoinsQueue(c)
    \/ LeavesQueue(c)
    \/ Evil(c)
    \/ CleanUp(c)
    \/ SlotGranted(c)
    \/ SlotEnds(c)
    \/ NoMoreBlocks(c)
    \/ UnwantedData(c)

AnswerNext ==
  \E c \in Clients :
    \/ HasNoFile(c)
    \/ \E h \in BOOLEAN : HasFile(c, h)
    \/ \E f \in Files : \/ FileNotFound(c, f)
                        \/ QueueFull(c, f)
                        \/ UdpLost(c, f)
                        \/ \E h \in BOOLEAN : ReaskAck(c, f, h)

FileNext ==
  \E f \in Files :
    \/ Pause(f)
    \/ Stop(f)
    \/ Delete(f)
    \/ Resume(f)
    \/ LastGap(f)
    \/ HashBad(f)
    \/ HashGood(f)
    \/ Moved(f)
    \/ \E c \in Clients : SwapHere(c, f) \/ SwapAway(c, f)

LoopNext == EvictEnds \/ \E c \in Clients : EvictNext(c)

Next ==
  \/ FindNext
  \/ ProcessNext
  \/ ClientNext
  \/ AnswerNext
  \/ FileNext
  \/ LoopNext

Spec == Init /\ [][Next]_vars

(***************************************************************************)
(* A loop ends; and a connection on which nothing more is said is closed    *)
(* (by CheckTimeOut, if not by the peer), or CleanUpClientList comes round. *)
(* The latter is strong only because a loop, which is part of one handler   *)
(* in the code, disables every other action while it runs.  These are       *)
(* WF_vars(LoopNext) and SF_vars(Lost(c) \/ CleanUp(c)) with the conditions *)
(* that enable them written out, which TLC evaluates much faster.           *)
(***************************************************************************)
HangsOrIdles(c) == Idle /\ (s.sock[c] # "none" \/ Disposable(c))

Fairness ==
  /\ []<>Idle \/ []<><<LoopNext>>_vars
  /\ \A c \in Clients :
       []<>HangsOrIdles(c) => []<><<Lost(c) \/ CleanUp(c)>>_vars

FairSpec == Spec /\ Fairness
-----------------------------------------------------------------------------
(***************************************************************************)
(* Properties.                                                              *)
(***************************************************************************)
TypeOK ==
  /\ s \in [ alive : SUBSET Clients, queued : SUBSET Clients,
              req : [Clients -> Files \cup {None}],
              ds : [Clients -> DownStates], sock : [Clients -> Sockets],
              other : [Clients -> SUBSET Files],
              unneeded : [Clients -> SUBSET Files],
              has : [Clients -> BOOLEAN], pending : SUBSET Clients,
              asked : [Clients -> Seq(Files)],
              pinged : [Clients -> SUBSET Files],
              src : [Files -> SUBSET Clients], a4af : [Files -> SUBSET Clients],
              dl : [Files -> SUBSET Clients], valid : [Files -> Nat],
              notCurrent : [Files -> Nat], freq : [Files -> Nat],
              phase : [Files -> Phases], paused : SUBSET Files,
              stopped : SUBSET Files ]
  /\ job \in Jobs

\* The lists of the files and the fields of the clients say the same: who is a
\* source of a file, who could be swapped to it, who is sending it.  (Both sides
\* are updated by hand, in a dozen functions.)
ListsAgree ==
  \A c \in Clients, f \in Files :
    /\ c \in s.src[f] <=> s.req[c] = f
    /\ c \in s.a4af[f] <=> f \in s.other[c]
    /\ c \in s.dl[f] <=> s.req[c] = f /\ s.ds[c] = "downloading"
    /\ f \in s.other[c] => s.req[c] \notin {f, None}

\* The counters of a file, which decide about rarity, sorting and display, are
\* what a recount over its sources would give.
CountersAgree ==
  \A f \in Files :
    LET Sources(P(_)) == Cardinality({c \in s.src[f] : P(c)}) IN
    /\ s.valid[f] = Sources(LAMBDA c : CountsValid(s.ds[c]))
    /\ s.notCurrent[f] = Sources(LAMBDA c : CountsNotCurrent(s.ds[c]))
    /\ s.freq[f] = Sources(LAMBDA c : s.has[c])

\* The lists, the fields and the counters tell one story, whoever moved the
\* source: an answer, a swap, a lost connection or the end of a file.
SourcesWellFormed == TypeOK /\ ListsAgree /\ CountersAgree

\* No list holds a client that was deleted, and nobody is left behind at a file
\* that is stopped, finished or deleted.
NobodyLeftBehind ==
  /\ \A c \in Clients \ s.alive : s.req[c] = None /\ s.other[c] = {}
  /\ \A f \in Files :
       /\ f \in s.stopped /\ Idle => s.src[f] = {} /\ s.a4af[f] = {}
       /\ s.phase[f] = "gone" => f \in s.stopped

\* A source that is being dialled has a dialling socket, and one that was asked
\* is connected: neither state can outlive the connection it waits for.
WaitsOnSocket ==
  \A c \in Clients :
    /\ s.ds[c] = "connecting" => s.sock[c] = "dialling"
    /\ s.ds[c] = "connected"  => s.sock[c] = "up"
    /\ s.asked[c] # <<>>      => s.sock[c] = "up"

\* A client that nothing is wanted from and that wants nothing is reclaimed,
\* unless it becomes of use again.
Reclaimed ==
  \A c \in Clients :
    (c \in s.alive \ s.queued /\ s.req[c] = None)
      ~> (c \notin s.alive \/ c \in s.queued \/ s.req[c] # None)
=============================================================================
