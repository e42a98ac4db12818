------------------------------ MODULE KadSearch ------------------------------
(***************************************************************************)
(* One search of Kademlia (Search.cpp), as CSearchManager runs it: the      *)
(* peers it knows wander through its maps (Maps.cpp) while JumpStart asks   *)
(* the nearest ones for contacts and then for data, and the answers come.   *)
(*                                                                          *)
(* A peer is its distance to the target, which is the key of the maps; a    *)
(* map is the set of its keys.  The network is not trusted: any peer may    *)
(* answer anything at any time, or never; Traffic answers come in all.      *)
(* StopLookingForPeers only keeps requests from being sent, which a silent  *)
(* peer does as well.                                                       *)
(***************************************************************************)
EXTENDS Integers, FiniteSets

CONSTANTS
  Peers,         \* the peers, by their distance to the target
  Self,          \* this node
  Kinds,         \* the types of search
  MaxAnswers,    \* GetSearchMaxAnswers, by kind
  MaxCompleted,  \* GetCompletedListMaxSize, by kind
  Counts,        \* numbers of results in a packet
  Traffic        \* bound: answers that arrive

AllKinds == {"NODE", "NODECOMPLETE", "VALUE", "STORE"}

ASSUME SearchAssumption ==
  /\ Peers \subseteq Nat /\ IsFiniteSet(Peers) /\ Self \in Peers
  /\ Kinds \subseteq AllKinds
  /\ MaxAnswers \in [AllKinds -> Nat \ {0}]
  /\ MaxCompleted \in [AllKinds -> Nat \ {0}]
  /\ Counts \subseteq Nat /\ Traffic \in Nat

VARIABLES
  kind,              \* m_type; VALUE is KEYWORD, FILE or NOTES
  alive,             \* the search is in m_searches
  known, ask_for_contacts, ask_for_data, charged, best_complete,
  trash, killed,     \* m_trash: the peers passed over, and the malicious ones
  results_count,     \* of a peer
  searchResults, completedPeers,
  activity,          \* since m_lastActivity: "recent", "quiet", "over"
  traffic            \* answers still to come

peers == <<known, ask_for_contacts, ask_for_data, charged, best_complete,
           trash, killed>>
counts == <<results_count, searchResults, completedPeers>>
vars == <<kind, alive, peers, counts, activity, traffic>>

Nearest(S)  == CHOOSE c \in S : \A d \in S : c <= d
Furthest(S) == CHOOSE c \in S : \A d \in S : d <= c
Waiting     == charged \cup ask_for_contacts \cup ask_for_data

\* Go: a search for data or a place for it asks this node first.
Init ==
  /\ kind \in Kinds /\ alive = TRUE
  /\ \E table \in SUBSET (Peers \ {Self}) :
       /\ ask_for_contacts = table
       /\ charged = (IF kind \in {"VALUE", "STORE"} THEN {Self} ELSE {})
       /\ known = ask_for_contacts \cup charged
  /\ ask_for_data = {} /\ best_complete = {} /\ trash = {} /\ killed = {}
  /\ results_count = [c \in Peers |-> 0]
  /\ searchResults = 0 /\ completedPeers = 0
  /\ activity = "recent" /\ traffic = Traffic
-----------------------------------------------------------------------------
(***************************************************************************)
(* JumpStart                                                                *)
(***************************************************************************)
Enough ==
  \/ searchResults >= MaxAnswers[kind]
  \/ completedPeers >= MaxCompleted[kind]

\* The furthest completed peer; with none, what lies behind an empty map.
Worst == IF best_complete = {} THEN {Self, Furthest(Peers) + 1}
         ELSE {Furthest(best_complete)}

\* Mutant of Satisfied: only the charged peers are looked at.
SatisfiedEarly(worst) ==
  Enough /\ (kind = "NODE" \/ \A c \in charged : c >= worst)

Satisfied(worst) ==
  Enough /\ (kind = "NODE" \/ \A c \in Waiting : c >= worst)

\* Mutant of Exhausted: a search waits for its charged peers for ever.
ExhaustedNever == Waiting = {}

Exhausted ==
  /\ ask_for_contacts = {} /\ ask_for_data = {}
  /\ charged = {} \/ activity = "over"

\* The search is deleted, and everything it knows with it.
End ==
  /\ alive' = FALSE
  /\ known' = {} /\ ask_for_contacts' = {} /\ ask_for_data' = {} /\ charged' = {}
  /\ best_complete' = {} /\ trash' = {} /\ killed' = {}
  /\ results_count' = [c \in Peers |-> 0]
  /\ searchResults' = 0 /\ completedPeers' = 0
  /\ activity' = "recent" /\ traffic' = 0
  /\ UNCHANGED kind

NextIsData ==
  /\ ask_for_data # {}
  /\ ask_for_contacts # {} => Nearest(ask_for_contacts) > Nearest(ask_for_data)

\* Mutant of TooFar: the peer is compared the other way round.
TooFarSwapped(c, worst) ==
  completedPeers >= MaxCompleted[kind] /\ c <= worst

\* The completed list is full and c would not better it.
TooFar(c, worst) ==
  completedPeers >= MaxCompleted[kind] /\ c >= worst

\* chargeclosest
Charge(c) ==
  /\ charged' = charged \cup {c}
  /\ activity' = "recent"
  /\ UNCHANGED trash

\* The furthest peer of the map is passed over.
PassOver(S) ==
  /\ trash' = trash \cup {Furthest(S)}
  /\ UNCHANGED <<charged, activity>>

Proceed(worst) ==
  /\ \/ /\ NextIsData
        /\ LET c == Nearest(ask_for_data)
           IN  IF TooFar(c, worst)
               THEN /\ PassOver(ask_for_data)
                    /\ ask_for_data' = ask_for_data \ {Furthest(ask_for_data)}
               ELSE Charge(c) /\ ask_for_data' = ask_for_data \ {c}
        /\ UNCHANGED ask_for_contacts
     \/ /\ ~NextIsData /\ ask_for_contacts # {}
        /\ LET c == Nearest(ask_for_contacts)
           IN  IF TooFar(c, worst)
               THEN /\ PassOver(ask_for_contacts)
                    /\ ask_for_contacts' = ask_for_contacts \ {Furthest(ask_for_contacts)}
               ELSE Charge(c) /\ ask_for_contacts' = ask_for_contacts \ {c}
        /\ UNCHANGED ask_for_data
  /\ UNCHANGED <<kind, alive, known, best_complete, killed, counts, traffic>>

\* Not within a second of the last activity.
JumpStart ==
  /\ alive /\ activity # "recent"
  /\ \E worst \in Worst :
       IF Satisfied(worst) \/ Exhausted THEN End ELSE Proceed(worst)
-----------------------------------------------------------------------------
(***************************************************************************)
(* Answers                                                                  *)
(***************************************************************************)
\* Every answer to the search is activity, whoever sent it.
Arrives ==
  /\ alive /\ traffic > 0
  /\ traffic' = traffic - 1
  /\ activity' = "recent"
  /\ UNCHANGED <<kind, alive>>

Trimmed(S) == IF Cardinality(S) > MaxCompleted[kind] THEN S \ {Furthest(S)} ELSE S

\* Mutant of AddToCompletedPeers: the peer that is trimmed is not kept.
CompletedForgetting(p, count) ==
  /\ best_complete' = Trimmed(best_complete \cup {p})
  /\ charged' = IF kind = "VALUE" /\ count < MaxAnswers[kind]
                THEN charged ELSE charged \ {p}
  /\ UNCHANGED trash

\* addToCompletedPeers: more results may come from a peer asked for data
\* until it has sent as many as the search takes.
AddToCompletedPeers(p, count) ==
  LET B == best_complete \cup {p}
  IN  /\ best_complete' = Trimmed(B)
      /\ trash' = trash \cup (B \ Trimmed(B))
      /\ charged' = IF kind = "VALUE" /\ count < MaxAnswers[kind]
                    THEN charged ELSE charged \ {p}

\* An answer from a peer that was not asked.
NotAsked(p) ==
  /\ Arrives /\ p \notin charged
  /\ UNCHANGED <<peers, counts>>

\* ProcessResponse: more contacts than requested.
TooMany(p) ==
  /\ Arrives /\ p \in charged
  /\ charged' = charged \ {p} /\ killed' = killed \cup {p}
  /\ UNCHANGED <<known, ask_for_contacts, ask_for_data, best_complete, trash, counts>>

\* ProcessResponse: a search for nodes is complete with the answer, another
\* one asks the peer for data next.
ProcessResponse(p, contacts) ==
  /\ Arrives /\ p \in charged
  /\ IF kind = "NODE" THEN UNCHANGED <<known, ask_for_contacts>>
     ELSE /\ known' = known \cup contacts
          /\ ask_for_contacts' = ask_for_contacts \cup (contacts \ known)
  /\ IF kind \in {"NODE", "NODECOMPLETE"}
     THEN /\ searchResults' = searchResults + 1
          /\ completedPeers' = completedPeers + 1
          /\ AddToCompletedPeers(p, 0)
          /\ UNCHANGED ask_for_data
     ELSE /\ charged' = charged \ {p}
          /\ ask_for_data' = ask_for_data \cup {p}
          /\ UNCHANGED <<best_complete, trash, searchResults, completedPeers>>
  /\ UNCHANGED <<killed, results_count>>

\* ProcessSearchResultList: n results are announced, some are taken.  When
\* the list is cut short the rest of the packet throws.
ProcessSearchResultList(p, n, taken, whole) ==
  /\ Arrives /\ p \in charged
  /\ results_count' = [results_count EXCEPT ![p] = @ + n]
  /\ searchResults' = searchResults + (IF kind = "VALUE" THEN taken ELSE 0)
  /\ IF whole
     THEN /\ completedPeers' = completedPeers + 1
          /\ AddToCompletedPeers(p, results_count'[p])
     ELSE UNCHANGED <<completedPeers, best_complete, trash, charged>>
  /\ UNCHANGED <<known, ask_for_contacts, ask_for_data, killed>>

ProcessPublishResult(p) ==
  /\ Arrives /\ p \in charged
  /\ searchResults' = searchResults + 1
  /\ completedPeers' = completedPeers + 1
  /\ AddToCompletedPeers(p, results_count[p])
  /\ UNCHANGED <<known, ask_for_contacts, ask_for_data, killed, results_count>>

\* StopSearch without delay, or the end of the program.
StopSearch == alive /\ End

\* Time passes: a second, and then the lifetime of a search.
Pass ==
  /\ alive /\ activity # "over"
  /\ activity' = IF activity = "recent" THEN "quiet" ELSE "over"
  /\ UNCHANGED <<kind, alive, peers, counts, traffic>>

Next ==
  \/ JumpStart \/ StopSearch \/ Pass
  \/ \E p \in Peers :
       \/ NotAsked(p) \/ TooMany(p) \/ ProcessPublishResult(p)
       \/ \E contacts \in SUBSET (Peers \ {p}) : ProcessResponse(p, contacts)
       \/ \E n \in Counts : \E taken \in 0..n, whole \in BOOLEAN :
            ProcessSearchResultList(p, n, taken, whole)

Spec == Init /\ [][Next]_vars

\* CKademlia::Process jump-starts the searches every two seconds; time passes.
FairSpec == Spec /\ WF_vars(JumpStart) /\ WF_vars(Pass)
-----------------------------------------------------------------------------
(***************************************************************************)
(* What a search promises.                                                  *)
(***************************************************************************)
\* Every variable has its type, and no more peers are kept as complete than
\* the search needs (Search.h).
TypeOK ==
  /\ kind \in Kinds /\ alive \in BOOLEAN
  /\ \A S \in {known, ask_for_contacts, ask_for_data, charged, best_complete,
               trash, killed} : S \subseteq Peers
  /\ Cardinality(best_complete) <= MaxCompleted[kind]
  /\ results_count \in [Peers -> Nat]
  /\ searchResults \in Nat /\ completedPeers \in Nat
  /\ activity \in {"recent", "quiet", "over"} /\ traffic \in 0..Traffic

\* A known peer is never lost and never in two stages of the process: it
\* waits to be asked for contacts or for data, is being asked, or is through.
\* (A peer that has sent some results counts as complete and is still being
\* asked.)
EveryoneIsSomewhere ==
  /\ known = Waiting \cup best_complete \cup trash \cup killed
  /\ ask_for_contacts \cap (ask_for_data \cup charged) = {}
  /\ ask_for_data \cap charged = {}
  /\ kind # "VALUE" =>
       /\ Waiting \cap (best_complete \cup trash \cup killed) = {}
       /\ best_complete \cap (trash \cup killed) = {}

\* The maps are maps of peers, bounded, and between them they hold each peer.
SearchWellFormed == TypeOK /\ EveryoneIsSomewhere

\* However late the answers are, the peers that are passed over are further
\* away than all those the search is complete with.
NearestKept ==
  kind # "VALUE" => \A c \in trash, b \in best_complete : b <= c

\* A search that publishes, or looks for nodes, and ends because enough peers
\* have answered, has the answer of every honest peer it knows that is nearer
\* than the furthest of them.
EndsWithTheNearest ==
  [][JumpStart /\ ~alive' /\ kind \in {"NODECOMPLETE", "STORE"} /\ ~Exhausted =>
       \A c \in known \ killed :
         (\E b \in best_complete : c < b) => c \in best_complete]_vars

\* Every search is deleted at last, also when the peers are silent.
SearchEnds == <>~alive
=============================================================================
