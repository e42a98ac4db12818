---------------------------- MODULE RoutingTable ----------------------------
(***************************************************************************)
(* The routing table of Kademlia: the binary tree of CRoutingZone with a     *)
(* CRoutingBin in every leaf, the contacts' ages (Contact.cpp), the counts   *)
(* of contacts per address (s_globalContactIPs), the set of all contacts     *)
(* (s_ContactsSet) and the messages that change them                         *)
(* (KademliaUDPListener.cpp).                                                *)
(*                                                                           *)
(* A contact is its distance to this node, a sequence of bits with the most  *)
(* significant first; a zone is the prefix its contacts share, and the tree  *)
(* is the set of its leaves, the domain of bins.                             *)
(*                                                                           *)
(* Time: the expiry of a contact is not set (0 in the code), ahead or due.   *)
(* The small timer of a zone fires once a minute, so the ten seconds that    *)
(* CheckingType waits after the last change have always passed.              *)
(***************************************************************************)
EXTENDS Integers, Sequences, FiniteSets

CONSTANTS
  Ids,        \* the contacts, as distances to this node
  Addresses,  \* UDP destinations
  Greetings,  \* contacts that say hello, or send a bootstrap response
  Mentions,   \* contacts listed in routing and bootstrap responses
  Saved,      \* contacts that nodes.dat may hold
  K,          \* size of a bin
  KBase, KK,  \* zones above this level or before this index may split
  MaxLevel,   \* no zone at this level splits
  Keep,       \* GetKeepKadContacts()
  Ages        \* the types UpdateType may give, by the age of the contact

Dead      == 4
MaxPerAddress == 1   \* MAX_CONTACTS_IP
Bits      == 1..MaxLevel
Contact   == [ addr : Addresses, version : Nat, key : Nat, hello : BOOLEAN,
               verified : BOOLEAN, type : 0..Dead,
               expires : {"unset", "ahead", "due"} ]

Packet    == [ id : Ids, from : Addresses, addr : Addresses, version : Nat,
               key : Nat, verified : BOOLEAN ]

ASSUME RoutingAssumption ==
  /\ Ids \subseteq [Bits -> {0, 1}] /\ IsFiniteSet(Ids) /\ Addresses # {}
  /\ Greetings \cup Mentions \cup Saved \subseteq Packet
  /\ K \in Nat \ {0} /\ KBase \in Nat /\ KK \in Nat /\ Keep \in Nat
  /\ MaxLevel \in Nat \ {0}
  /\ Ages \subseteq 0..2

VARIABLES
  bins,       \* the entries of every leaf, the oldest first
  contact,    \* the data of a contact, shared by all its copies
  tracked,    \* s_globalContactIPs
  known,      \* s_ContactsSet
  challenged, \* challenges sent and not answered: contact and address
  phase       \* "loading" while ReadFile runs, then "running"

vars == <<bins, contact, tracked, known, challenged, phase>>

Root == <<>>

\* The data of a contact that is in no bin does not matter.
Blank == [ addr |-> CHOOSE a \in Addresses : TRUE, version |-> 0, key |-> 0,
           hello |-> FALSE, verified |-> FALSE, type |-> 3, expires |-> "unset" ]

Init ==
  /\ bins = [z \in {Root} |-> <<>>]
  /\ contact = [d \in Ids |-> Blank]
  /\ tracked = [a \in Addresses |-> 0]
  /\ known = {} /\ challenged = {} /\ phase = "loading"
-----------------------------------------------------------------------------
(***************************************************************************)
(* The tree of zones.                                                       *)
(***************************************************************************)
Entries(q)      == {q[i] : i \in DOMAIN q}
Prefix(d, n)    == SubSeq(d, 1, n)
Covers(z, d)    == Len(z) <= Len(d) /\ Prefix(d, Len(z)) = z
Sibling(d, n)   == [Prefix(d, n) EXCEPT ![n] = 1 - @]
LeafOf(B, d)    == CHOOSE z \in DOMAIN B : Covers(z, d)
InTable(B)      == UNION {Entries(B[z]) : z \in DOMAIN B}
Under(B, z)     == {d \in InTable(B) : Covers(z, d)}

\* The bits as a number: m_zoneIndex, or a distance.
Value(z) ==
  LET v[n \in 0..Len(z)] == IF n = 0 THEN 0 ELSE 2 * v[n - 1] + z[n]
  IN  v[Len(z)]

MaySplit(z) ==
  Len(z) < MaxLevel /\ (Value(z) < KK \/ Len(z) < KBase)

\* The zones there can be.
Zones ==
  {z \in UNION {[1..n -> {0, 1}] : n \in 0..MaxLevel} :
     \A n \in 0..Len(z) - 1 : MaySplit(Prefix(z, n))}

\* The entries of q that are in S, in their order.
Filter(q, S) ==
  LET f[i \in 0..Len(q)] == IF i = 0 THEN <<>>
                            ELSE IF q[i] \in S THEN Append(f[i - 1], q[i])
                            ELSE f[i - 1]
  IN  f[Len(q)]

\* An entry that moves to another bin: its bin released its address, and
\* AddContact takes the entry if no other contact holds it.
Released(T, C, d) == T[C[d].addr] - 1 < MaxPerAddress

Moved(T, C, q) == Filter(q, {d \in Entries(q) : Released(T, C, d)})

\* The addresses of the entries that no bin took are free.
TrackedAfter(T, C, gone) ==
  [a \in Addresses |-> T[a] - Cardinality({d \in gone : C[d].addr = a})]

\* Mutant of Handed: either half is handed all the entries.
HandedAll(T, C, q, x) == Moved(T, C, q)

\* The entries of z when Split hands them to a zone x below it.
Handed(T, C, q, x) == Moved(T, C, Filter(q, {d \in Entries(q) : Covers(x, d)}))

(***************************************************************************)
(* Add: while the leaf of d is full and may split, it splits.  The first    *)
(* level where it need or may not, and the leaves that result.              *)
(***************************************************************************)
SplitLevel(B, d) ==
  LET z == LeafOf(B, d)
      Stops(n) == \/ Cardinality({e \in Entries(B[z]) : Covers(Prefix(d, n), e)}) < K
                  \/ ~MaySplit(Prefix(d, n))
  IN  CHOOSE n \in Len(z)..MaxLevel : Stops(n) /\ \A m \in Len(z)..n - 1 : ~Stops(m)

Split(B, T, C, d) ==
  LET z   == LeafOf(B, d)
      n   == SplitLevel(B, d)
      new == {Prefix(d, n)} \cup {Sibling(d, m) : m \in Len(z) + 1..n}
  IN  IF n = Len(z) THEN B
      ELSE [x \in (DOMAIN B \ {z}) \cup new |->
              IF x \in new THEN Handed(T, C, B[z], x) ELSE B[x]]

Merges(B, p) == Cardinality(Under(B, p)) < K \div 2

\* The entries of the leaves below p, the left ones first.
Flattened(B, p) ==
  LET flat[n \in 0..MaxLevel] ==
        [q \in [1..n -> {0, 1}] |->
           IF q \in DOMAIN B THEN B[q]
           ELSE IF n = MaxLevel THEN <<>>
           ELSE flat[n + 1][Append(q, 0)] \o flat[n + 1][Append(q, 1)]]
  IN  flat[Len(p)][p]

\* Consolidate: from the leaves up, a branch with fewer than K/2 contacts
\* becomes a leaf; so does the topmost such branch on every path.
Branches(B) == UNION {{Prefix(z, n) : n \in 0..Len(z) - 1} : z \in DOMAIN B}

Consolidated(B, T, C) ==
  LET Kept(x)  == \A n \in 0..Len(x) - 1 : ~Merges(B, Prefix(x, n))
      leaves   == {z \in DOMAIN B : Kept(z)}
      branches == {p \in Branches(B) : Merges(B, p) /\ Kept(p)}
  IN  [x \in leaves \cup branches |->
         IF x \in leaves THEN B[x] ELSE Moved(T, C, Flattened(B, x))]

(***************************************************************************)
(* GetClosestToTarget: the bin of a leaf adds its verified contacts that    *)
(* are not older than maxType and keeps the nearest n; the nearer half of a *)
(* zone is asked first, the other one only when that is not enough.         *)
(***************************************************************************)
Far(d, t) == Value([i \in Bits |-> (d[i] + t[i]) % 2])

Nearest(S, t, n) == {d \in S : Cardinality({e \in S : Far(e, t) < Far(d, t)}) < n}

Usable(d, maxType) == contact[d].type <= maxType /\ contact[d].verified

\* Mutant of Side: the farther half is asked first.
SideFarther(t, k) == 1 - t[k + 1]

\* The half of a zone of level k where the target is.
Side(t, k) == t[k + 1]

GetClosestToTarget(t, n, maxType) ==
  LET get[k \in 0..MaxLevel] ==
        [q \in [1..k -> {0, 1}] |-> [R \in SUBSET Ids |->
           IF q \in DOMAIN bins \/ k = MaxLevel
           THEN Nearest(R \cup {d \in Entries(bins[q]) : Usable(d, maxType)}, t, n)
           ELSE LET S == get[k + 1][Append(q, Side(t, k))][R]
                IN  IF Cardinality(S) >= n THEN S
                    ELSE get[k + 1][Append(q, 1 - Side(t, k))][S]]]
  IN  get[0][Root][{}]
-----------------------------------------------------------------------------
(***************************************************************************)
(* Contacts.                                                                *)
(***************************************************************************)
\* A contact as it is read from message p.
NewContact(p, hello) ==
  [ addr |-> p.addr, version |-> p.version, key |-> p.key, hello |-> hello,
    verified |-> p.verified, type |-> 3, expires |-> "unset" ]

\* Mutant of PushToBottom: the entry stays where it is.
PushToNowhere(q, d) == q

PushToBottom(q, d) ==
  LET i == CHOOSE i \in DOMAIN q : q[i] = d
  IN  [j \in DOMAIN q |-> IF j < i THEN q[j] ELSE IF j < Len(q) THEN q[j + 1] ELSE d]

\* Mutant of SetIPAddress: the contact stays verified at its new address.
SetIPAddressOnly(e, a) == [e EXCEPT !.addr = a]

SetIPAddress(e, a) ==
  IF e.addr = a THEN e ELSE [e EXCEPT !.addr = a, !.verified = FALSE]

\* Mutant of Retracked: the old address stays counted.
RetrackedTwice(T, a, b) ==
  IF a = b THEN T ELSE [T EXCEPT ![b] = @ + 1]

\* ChangeContactIPAddress moves the count of the contact to its new address.
Retracked(T, a, b) ==
  IF a = b THEN T ELSE [T EXCEPT ![a] = @ - 1, ![b] = @ + 1]

UpdateType(e, age) == [e EXCEPT !.type = age, !.expires = "ahead"]

CheckingType(e) == [e EXCEPT !.type = @ + 1, !.expires = "ahead"]

\* The parts of an entry that a full update takes from message p.
Updated(e, p, hello) ==
  [SetIPAddress(e, p.addr) EXCEPT !.version = p.version, !.key = p.key,
     !.verified = @ \/ p.verified, !.hello = @ \/ hello]

\* A contact with a sender key takes updates only with that key.
KeyMatches(e, p) == e.key = 0 \/ e.key = p.key
IsLegacy(e)      == e.version \in 1..5 /\ e.hello

MayMove(T, e, a) == e.addr = a \/ T[a] < MaxPerAddress
-----------------------------------------------------------------------------
(***************************************************************************)
(* Add.                                                                     *)
(***************************************************************************)
\* A contact that is not in its leaf: the leaf splits as far as it may.
Insert(p, hello) ==
  LET d == p.id
      B == Split(bins, tracked, contact, d)
      T == TrackedAfter(tracked, contact, InTable(bins) \ InTable(B))
      z == LeafOf(B, d)
  IN  /\ d \notin Entries(bins[LeafOf(bins, d)])
      /\ IF Len(B[z]) < K /\ T[p.addr] < MaxPerAddress
         THEN /\ bins' = [B EXCEPT ![z] = Append(@, d)]
              /\ contact' = [contact EXCEPT ![d] = NewContact(p, hello)]
              /\ tracked' = [T EXCEPT ![p.addr] = @ + 1]
              /\ known' = known \cup {d}
         ELSE /\ bins' = B /\ tracked' = T
              /\ UNCHANGED <<contact, known>>

SetAlive(d) ==
  bins' = [bins EXCEPT ![LeafOf(bins, d)] = PushToBottom(@, d)]

\* An old Kad2 client that said hello only has its timer refreshed.
Refresh(p) ==
  LET e == contact[p.id]
  IN  /\ KeyMatches(e, p) /\ IsLegacy(e)
      /\ e.addr = p.addr /\ e.version = p.version
      /\ \E age \in Ages : contact' = [contact EXCEPT ![p.id] = UpdateType(e, age)]
      /\ SetAlive(p.id)
      /\ UNCHANGED tracked

FullUpdate(p, hello) ==
  LET e == contact[p.id]
  IN  /\ KeyMatches(e, p) /\ ~IsLegacy(e)
      /\ MayMove(tracked, e, p.addr)
      /\ p.version >= e.version
      /\ tracked' = Retracked(tracked, e.addr, p.addr)
      /\ \E age \in Ages :
           contact' = [contact EXCEPT ![p.id] = UpdateType(Updated(e, p, hello), age)]
      /\ SetAlive(p.id)

\* ChangeContactIPAddress is evaluated before the versions are compared.
MoveOnly(p) ==
  LET e == contact[p.id]
  IN  /\ KeyMatches(e, p) /\ ~IsLegacy(e)
      /\ MayMove(tracked, e, p.addr)
      /\ p.version < e.version
      /\ tracked' = Retracked(tracked, e.addr, p.addr)
      /\ contact' = [contact EXCEPT ![p.id] = SetIPAddress(e, p.addr)]
      /\ UNCHANGED bins

Rejected(p) ==
  LET e == contact[p.id]
  IN  ~KeyMatches(e, p) \/ (IF IsLegacy(e) THEN e.addr # p.addr \/ e.version # p.version
                            ELSE ~MayMove(tracked, e, p.addr))

\* The contact is in the table: Add with update set.
Update(p, hello) ==
  /\ p.id \in Entries(bins[LeafOf(bins, p.id)])
  /\ \/ Refresh(p)
     \/ FullUpdate(p, hello)
     \/ MoveOnly(p)
     \/ Rejected(p) /\ UNCHANGED <<bins, contact, tracked>>
  /\ UNCHANGED known
-----------------------------------------------------------------------------
(***************************************************************************)
(* Messages.                                                                *)
(***************************************************************************)
\* Whether the step added the contact of p or updated it.
Accepted(p) ==
  IF p.id \in Entries(bins[LeafOf(bins, p.id)])
  THEN KeyMatches(contact[p.id], p)
         /\ (IsLegacy(contact[p.id]) \/ p.version >= contact[p.id].version)
         /\ ~Rejected(p)
  ELSE p.id \in Entries(bins'[LeafOf(bins', p.id)])

\* A hello, request or response: a Kad1 contact is taken to be where the
\* message came from.  A contact that is added or updated and not verified is
\* challenged, or asked to acknowledge, at the address of the message.
Hello(p) ==
  /\ phase = "running"
  /\ p.version = 0 => p.addr = p.from
  /\ Insert(p, TRUE) \/ Update(p, TRUE)
  /\ \E valid \in (IF p.version = 0 THEN {FALSE} ELSE BOOLEAN) :
       challenged' = IF Accepted(p) /\ ~(IF p.id \in InTable(bins)
                                         THEN contact'[p.id].verified ELSE valid)
                     THEN challenged \cup {<<p.id, p.from>>} ELSE challenged
  /\ UNCHANGED phase

\* The sender of a KADEMLIA2_BOOTSTRAP_RES.
BootstrapSender(p) ==
  /\ phase = "running" /\ p.version > 0 /\ p.addr = p.from
  /\ Insert(p, FALSE) \/ Update(p, FALSE)
  /\ UNCHANGED <<challenged, phase>>

\* A contact in a routing answer or in a bootstrap response.
Mentioned(p) ==
  /\ phase = "running"
  /\ Insert(p, FALSE)
  /\ UNCHANGED <<challenged, phase>>

\* VerifyContact
Verify(d, a) ==
  contact' = IF d \in InTable(bins) /\ contact[d].addr = a
             THEN [contact EXCEPT ![d].verified = TRUE] ELSE contact

\* A challenge is answered: the contact it was for is verified.
ChallengeAnswered(d, a) ==
  /\ phase = "running" /\ <<d, a>> \in challenged
  /\ Verify(d, a)
  /\ challenged' = challenged \ {<<d, a>>}
  /\ UNCHANGED <<bins, tracked, known, phase>>

\* KADEMLIA2_HELLO_RES_ACK: the sender names the contact.
HelloAck(d, a) ==
  /\ phase = "running"
  /\ \E e \in Ids : <<e, a>> \in challenged /\ challenged' = challenged \ {<<e, a>>}
  /\ Verify(d, a)
  /\ UNCHANGED <<bins, tracked, known, phase>>

\* The answer is lost or comes after three minutes.
ChallengeExpires(d, a) ==
  /\ <<d, a>> \in challenged
  /\ challenged' = challenged \ {<<d, a>>}
  /\ UNCHANGED <<bins, contact, tracked, known, phase>>
-----------------------------------------------------------------------------
(***************************************************************************)
(* Timers.                                                                  *)
(***************************************************************************)
\* Mutant of Removed: the number of contacts to keep is not looked at.
RemovedAll(z) ==
  {d \in Entries(bins[z]) : contact[d].type = Dead /\ contact[d].expires = "due"}

\* The dead entries of zone z that the small timer removes: the oldest
\* first, while there are more contacts than to keep.
Removed(z) ==
  LET due == {i \in DOMAIN bins[z] : /\ contact[bins[z][i]].type = Dead
                                    /\ contact[bins[z][i]].expires = "due"}
      most == IF Cardinality(known) > Keep THEN Cardinality(known) - Keep ELSE 0
  IN  {bins[z][i] : i \in {i \in due : Cardinality({j \in due : j <= i}) <= most}}

\* A ping makes the oldest contact one type older; it is not moved, so the
\* next timer moves it if it did not answer.
OnSmallTimer(z) ==
  /\ phase = "running" /\ z \in DOMAIN bins
  /\ UNCHANGED <<challenged, phase>>
  /\ \E gone \in {Removed(z)} :
     LET q    == Filter(bins[z], Entries(bins[z]) \ gone)
         C    == [d \in Ids |->
                    IF d \in gone THEN Blank
                    ELSE IF d \in Entries(bins[z]) /\ contact[d].expires = "unset"
                    THEN [contact[d] EXCEPT !.expires = "ahead"] ELSE contact[d]]
         c    == Head(q)
         ping == q # <<>> /\ C[c].expires = "due" /\ C[c].type # Dead
     IN  /\ known' = known \ gone
         /\ tracked' = TrackedAfter(tracked, contact, gone)
         /\ bins' = [bins EXCEPT ![z] = IF q = <<>> \/ ping THEN q
                                        ELSE PushToBottom(q, c)]
         /\ contact' = IF ping THEN [C EXCEPT ![c] = CheckingType(@)] ELSE C

Consolidate ==
  /\ phase = "running"
  /\ LET B == Consolidated(bins, tracked, contact)
     IN  /\ bins' = B
         /\ tracked' = TrackedAfter(tracked, contact, InTable(bins) \ InTable(B))
  /\ UNCHANGED <<contact, known, challenged, phase>>

\* Time passes.
Expire(d) ==
  /\ d \in InTable(bins) /\ contact[d].expires = "ahead"
  /\ contact' = [contact EXCEPT ![d].expires = "due"]
  /\ UNCHANGED <<bins, tracked, known, challenged, phase>>
-----------------------------------------------------------------------------
(***************************************************************************)
(* Start and stop.                                                          *)
(***************************************************************************)
\* ReadFile, one contact.
Load(p) ==
  /\ phase # "running"
  /\ Insert(p, FALSE)
  /\ phase' = IF p.verified THEN "verified" ELSE phase
  /\ UNCHANGED challenged

\* When the file has no verified contact, all are set verified.
Loaded ==
  /\ phase # "running"
  /\ contact' = IF phase = "verified" THEN contact
                ELSE [d \in Ids |-> IF d \in InTable(bins)
                                    THEN [contact[d] EXCEPT !.verified = TRUE]
                                    ELSE contact[d]]
  /\ phase' = "running"
  /\ UNCHANGED <<bins, tracked, known, challenged>>

\* Kademlia stops, and starts with the contacts of nodes.dat.
Restart ==
  /\ phase = "running"
  /\ bins' = [z \in {Root} |-> <<>>]
  /\ tracked' = TrackedAfter(tracked, contact, InTable(bins))
  /\ known' = {} /\ challenged' = {} /\ phase' = "loading"
  /\ contact' = [d \in Ids |-> Blank]

Next ==
  \/ \E p \in Greetings : Hello(p) \/ BootstrapSender(p)
  \/ \E p \in Mentions : Mentioned(p)
  \/ \E d \in Ids, a \in Addresses :
       ChallengeAnswered(d, a) \/ HelloAck(d, a) \/ ChallengeExpires(d, a)
  \/ \E z \in Zones : OnSmallTimer(z)
  \/ Consolidate
  \/ \E d \in Ids : Expire(d)
  \/ \E p \in Saved : Load(p)
  \/ Loaded
  \/ Restart

Spec == Init /\ [][Next]_vars

\* CKademlia::Process calls the small timer of every zone that has no
\* subzones again and again; time passes, and reading nodes.dat ends.
FairSpec ==
  /\ Spec /\ WF_vars(Loaded)
  /\ \A z \in Zones : WF_vars(OnSmallTimer(z))
  /\ \A d \in Ids : WF_vars(Expire(d))
-----------------------------------------------------------------------------
(***************************************************************************)
(* What the table promises.                                                 *)
(***************************************************************************)
\* Every variable has its type (RoutingZone.h, RoutingBin.h, Contact.h).
TypeOK ==
  /\ \A z \in DOMAIN bins : \E n \in 0..MaxLevel : z \in [1..n -> {0, 1}]
  /\ \A z \in DOMAIN bins : bins[z] \in Seq(Ids)
  /\ contact \in [Ids -> Contact]
  /\ tracked \in [Addresses -> 0..MaxPerAddress]
  /\ known \subseteq Ids
  /\ challenged \subseteq Ids \X Addresses
  /\ phase \in {"loading", "verified", "running"}

\* The counts per address that AddContact and ChangeContactIPAddress consult,
\* the set whose size decides whether dead contacts are removed, and the bins
\* hold the same contacts, through every split, merge, move and restart; no
\* two contacts have one address ("Global IP Tracking inconsistency" and the
\* assertions of RemovedFromKadNodes never happen).
TrackingAgrees ==
  /\ known = InTable(bins)
  /\ \A a \in Addresses :
       tracked[a] = Cardinality({d \in InTable(bins) : contact[d].addr = a})

\* The table and what is counted about it agree.
TableWellFormed == TypeOK /\ TrackingAgrees

\* The leaves divide all distances between them, every contact is in the leaf
\* that a search for it reaches, once, no bin holds more than K, and only
\* zones that may split have split.
EachInItsZone ==
  /\ \A d \in [Bits -> {0, 1}] : \E z \in DOMAIN bins :
       Covers(z, d) /\ \A x \in DOMAIN bins : Covers(x, d) => x = z
  /\ \A z \in DOMAIN bins :
       /\ \A d \in Entries(bins[z]) : Covers(z, d)
       /\ Len(bins[z]) = Cardinality(Entries(bins[z])) /\ Len(bins[z]) <= K
  /\ \A p \in Branches(bins) : MaySplit(p)

\* Splitting, merging and the timers lose nobody: but for a restart, a contact
\* leaves the table only when it is dead and overdue, and never takes the
\* table below the number of contacts to keep.
OnlyTheDeadLeave ==
  [][phase = "running" /\ phase' = "running" =>
       LET gone == InTable(bins) \ InTable(bins')
       IN  /\ \A d \in gone : contact[d].type = Dead /\ contact[d].expires = "due"
           /\ gone # {} => Cardinality(known') >= Keep]_vars

\* However the tree has split and merged, a lookup that asks for n contacts
\* gets the n usable contacts nearest to the target, or all there are.
ClosestFound ==
  \A t \in [Bits -> {0, 1}], n \in {1, 3} :
    GetClosestToTarget(t, n, 3)
      = Nearest({d \in InTable(bins) : Usable(d, 3)}, t, n)

\* A contact becomes verified at an address only when a challenge sent to that
\* address is answered, or when the message itself carries the flag.
VerifiedByChallenge ==
  [][phase = "running" =>
       \A d \in InTable(bins') :
         contact'[d].verified
           /\ ~(d \in InTable(bins) /\ contact[d].verified
                  /\ contact[d].addr = contact'[d].addr)
         => \/ \E e \in Ids : <<e, contact'[d].addr>> \in challenged \ challenged'
            \/ \E p \in Greetings \cup Mentions : p.id = d /\ p.verified]_vars

\* While the table holds more contacts than it keeps anyway, a contact that
\* says nothing is pinged, dies and is removed: the oldest one in a bin never
\* keeps the others from their turn, whatever splits and merges meanwhile.
\* UpdateType gives a type of at most 2 to a contact that is heard of.
SilentContactsLeave ==
  \A d \in Ids :
    d \in InTable(bins) /\ contact[d].type > 2
      ~> (d \notin InTable(bins) \/ Cardinality(known) <= Keep
            \/ contact[d].type <= 2)
=============================================================================
