----------------------------- MODULE KeywordStore -----------------------------
(***************************************************************************)
(* The loop of CSearch::SendRequestTo (Search.cpp) that stores the files of *)
(* a keyword on a node: it packs their entries into packets that fit in a   *)
(* datagram.  CSharedFileList::Publish gave the search the files; some may  *)
(* not be shared any more when the node answers.  A file is its place in    *)
(* m_fileIDs, and an entry is its size.                                     *)
(***************************************************************************)
EXTENDS Naturals, FiniteSets

CONSTANTS
  Files,    \* number of files the search was given; at most MaxFiles + 1
  MaxFiles, \* 150 in the code
  MaxData,  \* room for entries in a packet
  Sizes     \* sizes of an entry

VARIABLES
  size,        \* of the entry of a file; 0: the file is not shared any more
  itListFileID, count,
  initPacket,  \* the next iteration begins a packet
  packet,      \* the files in the packet, and the room they take
  used,
  sent,        \* the files in the packets sent
  odd          \* the parity of the iterations: each one is a step

vars == <<size, itListFileID, count, initPacket, packet, used, sent, odd>>

Init ==
  /\ size \in [1..Files -> Sizes \cup {0}]
  /\ itListFileID = 1
  /\ count = (IF Files > MaxFiles THEN MaxFiles ELSE Files)
  /\ initPacket = TRUE /\ packet = {} /\ used = 0 /\ sent = {}
  /\ odd = FALSE

Looping == count > 0 /\ itListFileID <= Files

Begun     == IF initPacket THEN {} ELSE packet
BegunUsed == IF initPacket THEN 0 ELSE used

\* The file is not shared any more.
Skip ==
  /\ Looping /\ size[itListFileID] = 0
  /\ packet' = Begun /\ used' = BegunUsed /\ initPacket' = FALSE
  /\ UNCHANGED <<size, itListFileID, count, sent>>

\* The entry fits.
Pack ==
  /\ Looping /\ size[itListFileID] # 0
  /\ BegunUsed + size[itListFileID] <= MaxData
  /\ packet' = Begun \cup {itListFileID}
  /\ used' = BegunUsed + size[itListFileID]
  /\ initPacket' = FALSE
  /\ count' = count - 1 /\ itListFileID' = itListFileID + 1
  /\ sent' = IF itListFileID' > Files THEN sent \cup packet' ELSE sent
  /\ UNCHANGED size

\* The entry does not fit.  The branch that gives it up asks whether count
\* is 0, which it never is in the loop.
Flush ==
  /\ Looping /\ size[itListFileID] # 0
  /\ BegunUsed + size[itListFileID] > MaxData
  /\ packet' = Begun /\ used' = BegunUsed /\ initPacket' = TRUE
  /\ sent' = sent \cup Begun
  /\ UNCHANGED <<size, itListFileID, count>>

Next == (Skip \/ Pack \/ Flush) /\ odd' = ~odd

FairSpec == Init /\ [][Next]_vars /\ WF_vars(Next)
-----------------------------------------------------------------------------
\* "We only publish up to 150 files per keyword publish" (SharedFileList.cpp):
\* the first MaxFiles files that are shared and fit in a packet are stored on
\* the node ("Try to store keywords to a Node", Search.cpp).
KeywordsAreStored ==
  <>(\A f \in 1..Files :
       f <= MaxFiles /\ size[f] \in 1..MaxData => f \in sent)
=============================================================================
