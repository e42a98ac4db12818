---------------------------- MODULE BlockRequests ----------------------------
(***************************************************************************)
(* Which bytes of a file are asked from which source: the gaps of a         *)
(* CPartFile, its m_requestedblocks_list ("keep a track of all pending      *)
(* requested blocks"), and every source's m_PendingBlocks_list, as changed  *)
(* by GetNextRequestedBlock, SendBlockRequests, ProcessBlockPacket,         *)
(* ClearDownloadBlockRequests and by the flush, ICH and AICH recovery of    *)
(* parts (PartFile.cpp, DownloadClient.cpp, BaseClient.cpp).                *)
(*                                                                          *)
(* A file is a range of units; a request never crosses a block, nor a block *)
(* a part.  The list of the file holds pointers to blocks that the sources  *)
(* own, so an entry here names its owner; it is dangling when the owner     *)
(* does not hold such a block.  Of the content only what hashes can tell is *)
(* kept: the units on disk that are not what they should be.                *)
(* Of the criteria that rank the chunks only the candidates are kept: any   *)
(* chunk with a free block may be chosen.                                   *)
(*                                                                          *)
(* m_DownloadBlocks_list is left out: SendBlockRequests empties it before   *)
(* it returns.  Writes succeed here and the disk keeps what was written     *)
(* (PartFiles has the failures); the AICH hash set agrees with the file's   *)
(* hashes, and ICH is enabled.                                              *)
(***************************************************************************)
EXTENDS Integers, Sequences, FiniteSets

CONSTANTS
  Clients,     \* sources of the file
  FileSize,    \* GetFileSize(), in units
  PartSize,    \* PARTSIZE, in units
  BlockSize,   \* BLOCKSIZE, in units
  MaxBlocks,   \* m_MaxBlockRequests
  Available,   \* the parts each source has
  Liars,       \* sources that may send wrong bytes
  Bunglers,    \* sources whose packets or zip streams may be malformed
  Tagged,      \* sources with GetVBTTags(): asked again only when all arrived
  DropSlow     \* thePrefs::GetDropSlowSources()

ASSUME BlocksAssumption ==
  /\ FileSize \in Nat \ {0} /\ PartSize \in Nat \ {0}
  /\ BlockSize \in Nat \ {0} /\ MaxBlocks \in Nat \ {0}
  /\ Available \in [Clients -> SUBSET Nat]
  /\ Tagged \subseteq Clients /\ Liars \cup Bunglers \subseteq Clients
  /\ DropSlow \in BOOLEAN

Parts     == 0..(FileSize - 1) \div PartSize
Positions == 0..FileSize - 1
NoPart    == -1

PartStart(p) == p * PartSize
PartEnd(p)   == IF (p + 1) * PartSize <= FileSize THEN (p + 1) * PartSize - 1
                ELSE FileSize - 1
PartOf(n)    == n \div PartSize
PartRange(p) == PartStart(p)..PartEnd(p)

\* The last unit of the block that position n is in.
BlockLimit(n) ==
  LET b == PartStart(PartOf(n))
             + BlockSize * (((n - PartStart(PartOf(n))) \div BlockSize) + 1) - 1
  IN  IF b > PartEnd(PartOf(n)) THEN PartEnd(PartOf(n)) ELSE b

VARIABLES s, status

vars == <<s, status>>

State ==
  [ gaps      : SUBSET Positions,                  \* m_gaplist
    requested : SUBSET [owner : Clients, start : Positions, end : Positions],
                                                   \* m_requestedblocks_list
    pending   : [Clients -> Seq([start : Positions, end : Positions,
                                 err : BOOLEAN])], \* m_PendingBlocks_list
    last      : [Clients -> Parts \cup {NoPart}],  \* m_lastPartAsked
    ds        : [Clients -> {"none", "onqueue", "downloading", "noneeded"}],
    changed   : SUBSET Parts,                      \* parts in m_BufferedData_list
    corrupt   : SUBSET Parts,                      \* m_corrupted_list
    aich      : SUBSET Parts,                      \* AICH answers awaited
    wrong     : SUBSET Positions ]                 \* units that are wrong on disk

Statuses == {"ready", "paused", "hashing", "done"}

Init ==
  /\ s = [ gaps |-> Positions, requested |-> {},
           pending |-> [c \in Clients |-> <<>>],
           last |-> [c \in Clients |-> NoPart],
           ds |-> [c \in Clients |-> "onqueue"],
           changed |-> {}, corrupt |-> {}, aich |-> {}, wrong |-> Positions ]
  /\ status = "ready"
-----------------------------------------------------------------------------
(***************************************************************************)
(* The list of requested blocks.                                            *)
(***************************************************************************)
IsComplete(S, p) == S.gaps \cap (PartStart(p)..PartEnd(p)) = {}

IsAlreadyRequested(S, a, b) ==
  \E e \in S.requested : a <= e.end /\ b >= e.start

\* Mutant of RemoveBlockFromList: an entry with the same end is kept.
RemoveLongerBlock(S, a, b) ==
  [S EXCEPT !.requested = {e \in @ : ~(e.start <= a /\ e.end > b)}]

\* Every entry that covers the range goes, whoever owns it.
RemoveBlockFromList(S, a, b) ==
  [S EXCEPT !.requested = {e \in @ : ~(e.start <= a /\ e.end >= b)}]

\* ClearDownloadBlockRequests of a source of this file
ClearDownloadBlockRequests(S, c) ==
  LET Covers(e) == \E i \in DOMAIN S.pending[c] :
                     e.start <= S.pending[c][i].start /\ e.end >= S.pending[c][i].end
  IN  [S EXCEPT !.requested = {e \in @ : ~Covers(e)}, !.pending[c] = <<>>]

SetDownloadState(S, c, d) ==
  LET R == IF S.ds[c] = "downloading" /\ d # "downloading"
           THEN ClearDownloadBlockRequests(S, c) ELSE S
  IN  [R EXCEPT !.ds[c] = d]
-----------------------------------------------------------------------------
(***************************************************************************)
(* Choosing blocks.                                                         *)
(***************************************************************************)
\* The part of a gap that one request can ask for, from its first unit n.
CutAtBlock(S, n) ==
  CHOOSE m \in n..BlockLimit(n) :
    /\ n..m \subseteq S.gaps
    /\ m = BlockLimit(n) \/ m + 1 \notin S.gaps

None == [start |-> NoPart, end |-> NoPart]

\* Where a request may begin in part p: where a gap does, or a block in a gap.
Begins(S, p) ==
  {n \in S.gaps \cap PartRange(p) :
     (n - PartStart(p)) % BlockSize = 0 \/ n - 1 \notin S.gaps}

\* Mutant of FirstFree: only the first unit is looked up in the list.
FirstFreeEarly(S, p) ==
  LET Free == {n \in Begins(S, p) : ~IsAlreadyRequested(S, n, n)}
      a    == CHOOSE n \in Free : \A m \in Free : n <= m
  IN  IF Free = {} THEN None ELSE [start |-> a, end |-> CutAtBlock(S, a)]

\* GetNextEmptyBlockInPart: None, or the first stretch of a gap within a block of
\* the part that overlaps no request.
FirstFree(S, p) ==
  LET Free == {n \in Begins(S, p) : ~IsAlreadyRequested(S, n, CutAtBlock(S, n))}
      a    == CHOOSE n \in Free : \A m \in Free : n <= m
  IN  IF Free = {} THEN None ELSE [start |-> a, end |-> CutAtBlock(S, a)]

\* One block more for source c, out of part p.
Request(S, c, p) ==
  LET b == FirstFree(S, p)
  IN  [S EXCEPT
         !.last[c] = p,
         !.requested = @ \cup {[owner |-> c, start |-> b.start, end |-> b.end]},
         !.pending[c] = Append(@, [start |-> b.start, end |-> b.end, err |-> FALSE])]

\* The parts the next block of c can come from: the one it was last asked for
\* as long as that has a free block.
Chunks(S, c) ==
  LET Free == {p \in Parts : FirstFree(S, p) # None}
  IN  IF S.last[c] \in Free THEN {S.last[c]} ELSE Available[c] \cap Free

\* One round of the loop: a block, or nothing is free.
Round(S, c) ==
  IF Chunks(S, c) = {} THEN {[S EXCEPT !.last[c] = NoPart]}
  ELSE {Request(S, c, p) : p \in Chunks(S, c)}

\* What a round may lead to from one of the states of Q.
AfterRound(Q, c) == UNION {Round(S, c) : S \in Q}

\* What k rounds may lead to, for every k up to n.
Rounds(S, c, n) ==
  LET f[k \in 0..n] == IF k = 0 THEN {S} ELSE AfterRound(f[k - 1], c)
  IN  f

\* GetNextRequestedBlock for n blocks
GetNextRequestedBlock(S, c, n) == Rounds(S, c, n)[n]
-----------------------------------------------------------------------------
(***************************************************************************)
(* SendBlockRequests                                                        *)
(***************************************************************************)
\* What is sent asks for all pending blocks, with their errors forgotten.
Sent(S, c) ==
  [S EXCEPT !.pending[c] = [i \in DOMAIN @ |-> [@[i] EXCEPT !.err = FALSE]]]

\* Nothing is free for c.  A slower source may be dropped in its favour.
Drop(S, c) ==
  LET Slower == {d \in Clients \ {c} : S.ds[d] = "downloading"}
      For(d) == GetNextRequestedBlock(SetDownloadState(S, d, "noneeded"), c, MaxBlocks)
  IN  {SetDownloadState(S, c, "noneeded")}
        \cup IF DropSlow THEN UNION {For(d) : d \in Slower} ELSE {}

\* Mutant of SendBlockRequests: the source keeps its slot.
SendOrKeep(S, c) ==
  IF c \in Tagged /\ S.pending[c] # <<>> THEN {S}
  ELSE {Sent(T, c) : T \in GetNextRequestedBlock(S, c, MaxBlocks - Len(S.pending[c]))}

SendBlockRequests(S, c) ==
  IF c \in Tagged /\ S.pending[c] # <<>> THEN {S}
  ELSE UNION {IF T.pending[c] = <<>> THEN Drop(T, c) ELSE {Sent(T, c)} :
                T \in GetNextRequestedBlock(S, c, MaxBlocks - Len(S.pending[c]))}
-----------------------------------------------------------------------------
(***************************************************************************)
(* Writing, and what the hash of a part says.                               *)
(***************************************************************************)
\* HashSinglePart
IsRight(S, p) == S.wrong \cap PartRange(p) = {}

\* FlushBuffer: complete parts that are corrupt become gaps; corrupt parts that are
\* right although a gap says otherwise become complete (ICH).  AICH data is asked
\* for unless it has just arrived.
FlushBuffer(S, arrived) ==
  LET Full   == {p \in S.changed : IsComplete(S, p)}
      Bad    == {p \in Full : ~IsRight(S, p)}
      Healed == {p \in (S.changed \cap S.corrupt) \ Full : IsRight(S, p)}
      Covers(e, p) == e.start <= PartStart(p) /\ e.end >= PartEnd(p)
  IN  [S EXCEPT
         !.gaps = (@ \cup UNION {PartRange(p) : p \in Bad})
                    \ UNION {PartRange(p) : p \in Healed},
         !.requested = {e \in @ : \A p \in Healed : ~Covers(e, p)},
         !.corrupt = (@ \cup Bad) \ ((Full \ Bad) \cup Healed),
         !.aich    = IF arrived THEN @ ELSE @ \cup Bad,
         !.changed = {}]

\* A file without gaps is hashed (CompleteFile(false)).
HashIfWhole(S, st) == IF S.gaps = {} THEN "hashing" ELSE st

\* WriteToBuffer, for a range that is not complete.
WriteToBuffer(S, a, b, good) ==
  LET R == [S EXCEPT !.gaps = @ \ (a..b), !.changed = @ \cup {PartOf(a)},
                     !.wrong = IF good THEN @ \ (a..b) ELSE @ \cup a..b]
  IN  IF R.gaps = {} THEN FlushBuffer(R, FALSE) ELSE R
-----------------------------------------------------------------------------
(***************************************************************************)
(* Actions: a source sends.                                                 *)
(***************************************************************************)
\* OP_ACCEPTUPLOADREQ
SlotGranted(c) ==
  /\ s.ds[c] = "onqueue" /\ status = "ready"
  /\ s' \in SendBlockRequests(
              [SetDownloadState(s, c, "downloading") EXCEPT !.last[c] = NoPart], c)
  /\ UNCHANGED status

\* The pending block that data starting at n belongs to.
Holds(c, i, n) ==
  /\ i \in DOMAIN s.pending[c]
  /\ s.pending[c][i].start <= n /\ n <= s.pending[c][i].end
  /\ \A j \in 1..i - 1 : ~(s.pending[c][j].start <= n /\ n <= s.pending[c][j].end)

Without(q, i) == SubSeq(q, 1, i - 1) \o SubSeq(q, i + 1, Len(q))

\* ProcessBlockPacket for units a..b of the i-th pending block.
Data(c, i, a, b, good) ==
  LET blk == s.pending[c][i]
      R   == WriteToBuffer(s, a, b, good)
  IN
  /\ good \/ c \in Liars
  /\ status = "ready"
  /\ Holds(c, i, a) /\ ~blk.err /\ b \in a..blk.end
  /\ a..b \cap s.gaps # {}
  /\ status' = HashIfWhole(R, status)
  /\ IF b = blk.end
     THEN s' \in SendBlockRequests(
                   [RemoveBlockFromList(R, blk.start, blk.end) EXCEPT
                      !.pending[c] = Without(@, i)], c)
     ELSE s' = R

\* Data beyond the end of the block, or of a zip stream that failed before: the
\* request is forgotten, the block is kept.
Malformed(c, i, a) ==
  /\ status = "ready" /\ c \in Bunglers
  /\ Holds(c, i, a)
  /\ s' = RemoveBlockFromList(s, s.pending[c][i].start, s.pending[c][i].end)
  /\ UNCHANGED status

\* The zip stream of the block fails.
ZipError(c, i, a) ==
  /\ status = "ready" /\ c \in Bunglers
  /\ Holds(c, i, a) /\ ~s.pending[c][i].err
  /\ s' = [RemoveBlockFromList(s, s.pending[c][i].start, s.pending[c][i].end) EXCEPT
             !.pending[c][i].err = TRUE]
  /\ UNCHANGED status

\* DOWNLOADTIMEOUT (CalculateKBpsDown), OP_OUTOFPARTREQS, a lost connection.
Ends(c) ==
  /\ s.ds[c] = "downloading"
  /\ s' = SetDownloadState(s, c, "onqueue")
  /\ UNCHANGED status

\* The source is asked again and waits in line.
Requeued(c) ==
  /\ status # "done"
  /\ s.ds[c] \in {"none", "noneeded"}
  /\ s' = [s EXCEPT !.ds[c] = "onqueue"]
  /\ UNCHANGED status
-----------------------------------------------------------------------------
(***************************************************************************)
(* Actions: the file.                                                       *)
(***************************************************************************)
\* Process flushes what is buffered for long enough.
Flush ==
  /\ status = "ready" /\ s.changed # {}
  /\ s' = FlushBuffer(s, FALSE)
  /\ status' = HashIfWhole(s', status)

\* AICHRecoveryDataAvailable for part p after its flush: the blocks of p that are
\* right become complete, and if that completes a part which is not right, all of it
\* is a gap again.  RemoveBlockFromList is called for the first block of the part,
\* whichever was recovered.
Recovered(S, p) ==
  LET Right == {n \in PartRange(p) :
                  /\ (n - PartStart(p)) % BlockSize = 0
                  /\ n..BlockLimit(n) \cap S.wrong = {}}
      Drops(e) == \E n \in Right :
                    e.start <= PartStart(p) /\ e.end >= PartStart(p) + (BlockLimit(n) - n)
      T == [S EXCEPT !.gaps = @ \ UNION {n..BlockLimit(n) : n \in Right},
                     !.requested = {e \in @ : ~Drops(e)}]
  IN  IF IsComplete(T, p) /\ ~IsRight(T, p)
      THEN [T EXCEPT !.gaps = @ \cup PartRange(p)]
      ELSE [T EXCEPT !.corrupt = @ \ {p}]

AICHRecoveryDataAvailable(p) ==
  /\ p \in s.aich /\ status \in {"ready", "paused"}
  /\ LET R == IF s.changed = {} THEN s ELSE FlushBuffer(s, TRUE)
         Q == [R EXCEPT !.aich = @ \ {p}]
     IN  s' = IF IsComplete(Q, p) THEN Q ELSE Recovered(Q, p)
  /\ status' = HashIfWhole(s', status)

\* PauseFile and ResumeFile
AllQueued(S) ==
  LET D == {c \in Clients : S.ds[c] = "downloading"}
  IN  [S EXCEPT
         !.requested = {e \in @ : ~\E c \in D : \E i \in DOMAIN S.pending[c] :
                          e.start <= S.pending[c][i].start /\ e.end >= S.pending[c][i].end},
         !.pending = [c \in Clients |-> IF c \in D THEN <<>> ELSE @[c]],
         !.ds = [c \in Clients |-> IF c \in D THEN "onqueue" ELSE @[c]]]

Pause ==
  /\ status = "ready"
  /\ s' = AllQueued(s)
  /\ status' = "paused"

Resume ==
  /\ status = "paused"
  /\ status' = "ready"
  /\ UNCHANGED s

\* PartFileHashFinished and CompleteFile(true): PauseFile returns early, and
\* RemoveAllSources takes m_reqfile from each source before its state, and with
\* that its blocks.
HashFinished ==
  /\ status = "hashing"
  /\ s' = [s EXCEPT !.pending = [c \in Clients |-> <<>>],
                    !.ds = [c \in Clients |-> "none"]]
  /\ status' = "done"
-----------------------------------------------------------------------------
SourceNext ==
  \E c \in Clients :
    \/ SlotGranted(c)
    \/ Ends(c)
    \/ Requeued(c)
    \/ \E i \in DOMAIN s.pending[c], a \in Positions :
         \/ Malformed(c, i, a)
         \/ ZipError(c, i, a)
         \/ \E b \in Positions, good \in BOOLEAN : Data(c, i, a, b, good)

FileNext ==
  \/ Flush
  \/ \E p \in Parts : AICHRecoveryDataAvailable(p)
  \/ Pause
  \/ Resume
  \/ HashFinished

Next == SourceNext \/ FileNext

Spec == Init /\ [][Next]_vars
-----------------------------------------------------------------------------
(***************************************************************************)
(* Properties.                                                              *)
(***************************************************************************)
\* Requests never cross a block, and nobody has more of them than it may.
TypeOK ==
  /\ s \in State
  /\ status \in Statuses
  /\ \A c \in Clients :
       /\ Len(s.pending[c]) <= MaxBlocks
       /\ \A i \in DOMAIN s.pending[c] :
            /\ s.pending[c][i].start <= s.pending[c][i].end
            /\ s.pending[c][i].end - s.pending[c][i].start < BlockSize
            /\ PartOf(s.pending[c][i].start) = PartOf(s.pending[c][i].end)

Live(e) == \E i \in DOMAIN s.pending[e.owner] :
             s.pending[e.owner][i].start = e.start /\ s.pending[e.owner][i].end = e.end

\* Until the file is complete, bytes are withheld from other sources only by a
\* source that is downloading, whose block the list's pointer still points to.
BlockedOnlyBySenders ==
  status # "done" => \A e \in s.requested : s.ds[e.owner] = "downloading" /\ Live(e)

\* Requests are blocks, and every byte that is withheld is waited for.
RequestsWellFormed == TypeOK /\ BlockedOnlyBySenders

\* A source that is downloading has a block to send; the others have none.
SendersHaveWork ==
  ~DropSlow => \A c \in Clients : s.ds[c] = "downloading" <=> s.pending[c] # <<>>

\* What is asked anew is missing, was asked from nobody else, and is in a part that
\* the source has.
NewRequestsAreMissing ==
  [][\A e \in s'.requested \ s.requested :
       /\ e.start..e.end \subseteq s'.gaps
       /\ PartOf(e.start) \in Available[e.owner]
       /\ \A d \in s'.requested \ {e} : e.end < d.start \/ d.end < e.start]_vars

\* "Keep a track of all pending requested blocks": the list holds pending blocks.
ListedIsPending == \A e \in s.requested : Live(e)
=============================================================================
