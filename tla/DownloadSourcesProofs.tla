------------------------ MODULE DownloadSourcesProofs ------------------------
(***************************************************************************)
(* The lists, the fields and the counters of the download sources agree,    *)
(* nobody is left behind, and no state outlives the connection it waits     *)
(* for: for all peers, files, priorities and limits.                        *)
(*                                                                          *)
(* A handler moves one peer.  Fits says what is true of a peer between two   *)
(* handlers, and Counted what is true of the counters between any two of    *)
(* the calls a handler makes: it speaks of the peers' fields, which every   *)
(* call updates together with the counters, and not of the lists, which     *)
(* some calls leave behind.  Step is what each call guarantees, Moves what  *)
(* each handler does, and IInv the inductive invariant.                     *)
(***************************************************************************)
EXTENDS DownloadSources, FiniteSetTheorems, TLAPS

-----------------------------------------------------------------------------
(***************************************************************************)
(* The invariant.                                                           *)
(***************************************************************************)
\* The peers that f counts, by their own fields.
Valid(S, f)      == {c \in Clients : S.req[c] = f /\ CountsValid(S.ds[c])}
NotCurrent(S, f) == {c \in Clients : S.req[c] = f /\ CountsNotCurrent(S.ds[c])}
Having(S, f)     == {c \in Clients : S.req[c] = f /\ S.has[c]}

\* The counters are what a recount by the peers' fields gives.
CountedStates(S) ==
  \A f \in Files : /\ S.valid[f] = Cardinality(Valid(S, f))
                  /\ S.notCurrent[f] = Cardinality(NotCurrent(S, f))
CountedParts(S) == \A f \in Files : S.freq[f] = Cardinality(Having(S, f))

Counted(S) == CountedStates(S) /\ CountedParts(S)

\* The lists of the files hold c where its fields say so.
Listed(S, c) ==
  \A f \in Files :
    /\ c \in S.src[f] <=> S.req[c] = f
    /\ c \in S.a4af[f] <=> f \in S.other[c]
    /\ c \in S.dl[f] <=> S.req[c] = f /\ S.ds[c] = "downloading"
    /\ f \in S.other[c] => S.req[c] \notin {f, None}

\* The state of c fits its connection, its request file and its life.
Behaves(S, c) ==
  /\ S.ds[c] = "connecting" => S.sock[c] = "dialling"
  /\ S.ds[c] = "connected"  => S.sock[c] = "up"
  /\ S.asked[c] # <<>>      => S.sock[c] = "up"
  /\ S.req[c] = None        => S.ds[c] = "none"
  /\ c \notin S.alive       => S.req[c] = None /\ S.sock[c] = "none"

Fits(S, c) == Listed(S, c) /\ Behaves(S, c)

\* c has left the stopped files, but for the one that is being cleared.
Left(S, j, c) ==
  \A f \in S.stopped :
    /\ S.req[c] = f      => j # None /\ j.file = f /\ c \in j.todo
    /\ f \in S.other[c]  => j # None /\ j.file = f

\* Files that are moved or gone are stopped, and so is the file being cleared.
Ended(S, j) ==
  /\ \A f \in Files : S.phase[f] \in {"moving", "gone"} => f \in S.stopped
  /\ j # None => j.file \in S.stopped /\ S.phase[j.file] # "gone"

Inv(S, j) ==
  /\ S \in State /\ j \in Jobs
  /\ Counted(S)
  /\ Ended(S, j)
  /\ \A c \in Clients : Fits(S, c) /\ Left(S, j, c)

IInv == Inv(s, job)

-----------------------------------------------------------------------------
(***************************************************************************)
(* What every call guarantees.                                              *)
(***************************************************************************)
\* T differs from S in nothing that belongs to another peer than c.
Only(S, T, c) ==
  /\ T.phase = S.phase /\ T.stopped = S.stopped
  /\ \A d \in Clients \ {c} :
       /\ d \in T.alive <=> d \in S.alive
       /\ T.req[d] = S.req[d] /\ T.ds[d] = S.ds[d]
       /\ T.sock[d] = S.sock[d] /\ T.asked[d] = S.asked[d]
       /\ T.other[d] = S.other[d]
       /\ \A f \in Files : /\ d \in T.src[f]  <=> d \in S.src[f]
                           /\ d \in T.a4af[f] <=> d \in S.a4af[f]
                           /\ d \in T.dl[f]   <=> d \in S.dl[f]

Step(S, T, c) == T \in State /\ Counted(T) /\ Only(S, T, c)

\* The lists of the files and of c are not touched.
SameLists(S, T) ==
  T.src = S.src /\ T.a4af = S.a4af /\ T.other = S.other /\ T.unneeded = S.unneeded

\* Whether c lives and how it is connected is not touched.
SameLife(S, T) ==
  /\ T.alive = S.alive /\ T.queued = S.queued
  /\ T.sock = S.sock /\ T.asked = S.asked

\* The types of the components that the proofs use.
LEMMA StateTypes ==
  ASSUME NEW S \in State
  PROVE  /\ S.alive \in SUBSET Clients /\ S.queued \in SUBSET Clients
         /\ S.req \in [Clients -> Files \cup {None}]
         /\ S.ds \in [Clients -> DownStates]
         /\ S.sock \in [Clients -> Sockets]
         /\ S.other \in [Clients -> SUBSET Files]
         /\ S.unneeded \in [Clients -> SUBSET Files]
         /\ S.has \in [Clients -> BOOLEAN]
         /\ S.pending \in SUBSET Clients
         /\ S.asked \in [Clients -> Seq(Files)]
         /\ S.pinged \in [Clients -> SUBSET Files]
         /\ S.src \in [Files -> SUBSET Clients]
         /\ S.a4af \in [Files -> SUBSET Clients]
         /\ S.dl \in [Files -> SUBSET Clients]
         /\ S.valid \in [Files -> Int] /\ S.notCurrent \in [Files -> Int]
         /\ S.freq \in [Files -> Int]
         /\ S.phase \in [Files -> Phases]
         /\ S.paused \in SUBSET Files /\ S.stopped \in SUBSET Files
BY DEF State

\* Steps that touch no one but c compose.
LEMMA OnlyTrans ==
  ASSUME NEW R, NEW S, NEW T, NEW c, Only(R, S, c), Only(S, T, c)
  PROVE  Only(R, T, c)
BY DEF Only

\* A set of peers that loses or gains c grows by the difference.
LEMMA CountOne ==
  ASSUME NEW A \in SUBSET Clients, NEW B \in SUBSET Clients, NEW c \in Clients,
         A \ {c} = B \ {c}
  PROVE  /\ Cardinality(A) \in Nat /\ Cardinality(B) \in Nat
         /\ Cardinality(B) = Cardinality(A) + One(c \in B) - One(c \in A)
<1> DEFINE R == A \ {c}
<1>1. IsFiniteSet(A) /\ IsFiniteSet(B) /\ IsFiniteSet(R)
  BY FiniteAssumption, FS_Subset
<1>2. /\ Cardinality(A) \in Nat /\ Cardinality(B) \in Nat
      /\ Cardinality(R) \in Nat
  BY <1>1, FS_CardinalityType
<1>3. Cardinality(R) = IF c \in A THEN Cardinality(A) - 1 ELSE Cardinality(A)
  BY <1>1, FS_RemoveElement
<1>4. Cardinality(R) = IF c \in B THEN Cardinality(B) - 1 ELSE Cardinality(B)
  BY <1>1, FS_RemoveElement
<1> HIDE DEF R
<1> QED BY <1>2, <1>3, <1>4 DEF One

-----------------------------------------------------------------------------
(***************************************************************************)
(* The calls that keep the counters.                                        *)
(***************************************************************************)
\* SetParts counts the peer's parts at the file it is asked for.
LEMMA SetPartsEffect ==
  ASSUME NEW S \in State, CountedParts(S), NEW c \in Clients, NEW h \in BOOLEAN
  PROVE  LET T == SetParts(S, c, h) IN
         /\ T \in State /\ CountedParts(T)
         /\ Only(S, T, c) /\ SameLists(S, T) /\ SameLife(S, T)
         /\ T.dl = S.dl /\ T.req = S.req /\ T.ds = S.ds
         /\ T.valid = S.valid /\ T.notCurrent = S.notCurrent
         /\ T.has = [S.has EXCEPT ![c] = h]
<1> DEFINE T == SetParts(S, c, h)
           f == S.req[c]
<1>1. CASE f = None
  <2>1. T = [S EXCEPT !.has = [S.has EXCEPT ![c] = h]]
    BY <1>1, StateTypes DEF SetParts
  <2> HIDE DEF T
  <2>2. T \in State
    BY <2>1 DEF State
  <2>3. /\ T.has = [S.has EXCEPT ![c] = h]
        /\ T.valid = S.valid /\ T.notCurrent = S.notCurrent /\ T.freq = S.freq
        /\ T.req = S.req /\ T.ds = S.ds /\ T.dl = S.dl
        /\ T.phase = S.phase /\ T.stopped = S.stopped
        /\ SameLists(S, T) /\ SameLife(S, T)
    BY <2>1, StateTypes DEF State, SameLists, SameLife
  <2>4. ASSUME NEW g \in Files
        PROVE  Having(T, g) = Having(S, g)
    <3>1. S.req[c] # g
      BY <1>1, SourcesAssumption
    <3> QED BY <2>3, <3>1, StateTypes DEF Having
  <2>5. CountedParts(T)
    BY <2>3, <2>4 DEF CountedParts
  <2>6. Only(S, T, c)
    BY <2>3 DEF Only, SameLists, SameLife
  <2> QED BY <2>2, <2>3, <2>5, <2>6 DEF T
<1>2. CASE f # None
  <2>1. f \in Files
    BY <1>2, StateTypes
  <2> DEFINE n == S.freq[f] - One(S.has[c]) + One(h)
  <2>2. n \in Int
    BY <2>1, StateTypes DEF One
  <2>3. T = [S EXCEPT !.freq = [S.freq EXCEPT ![f] = n],
                      !.has = [S.has EXCEPT ![c] = h]]
    BY <1>2, StateTypes DEF SetParts
  <2> HIDE DEF n, T
  <2>4. T \in State
    BY <2>1, <2>2, <2>3 DEF State
  <2>5. /\ T.has = [S.has EXCEPT ![c] = h]
        /\ \A g \in Files : T.freq[g] = IF g = f THEN n ELSE S.freq[g]
        /\ T.valid = S.valid /\ T.notCurrent = S.notCurrent
        /\ T.req = S.req /\ T.ds = S.ds /\ T.dl = S.dl
        /\ T.phase = S.phase /\ T.stopped = S.stopped
        /\ SameLists(S, T) /\ SameLife(S, T)
    BY <2>3, StateTypes DEF State, SameLists, SameLife
  <2>6. ASSUME NEW g \in Files
        PROVE  T.freq[g] = Cardinality(Having(T, g))
    <3>1. /\ Having(S, g) \in SUBSET Clients /\ Having(T, g) \in SUBSET Clients
          /\ Having(S, g) \ {c} = Having(T, g) \ {c}
          /\ c \in Having(S, g) <=> g = f /\ S.has[c]
          /\ c \in Having(T, g) <=> g = f /\ h
      BY <2>5, StateTypes DEF Having
    <3>2. /\ Cardinality(Having(T, g)) = Cardinality(Having(S, g))
                + One(c \in Having(T, g)) - One(c \in Having(S, g))
          /\ Cardinality(Having(S, g)) \in Nat
      BY <3>1, CountOne
    <3>3. S.freq[g] = Cardinality(Having(S, g))
      BY DEF CountedParts
    <3> QED BY <2>5, <3>1, <3>2, <3>3 DEF One, n
  <2>7. CountedParts(T)
    BY <2>6 DEF CountedParts
  <2>8. Only(S, T, c)
    BY <2>5 DEF Only, SameLists, SameLife
  <2> QED BY <2>4, <2>5, <2>7, <2>8 DEF T
<1> QED BY <1>1, <1>2

\* Between two calls it keeps all the counters.
LEMMA SetPartsStep ==
  ASSUME NEW S \in State, Counted(S), NEW c \in Clients, NEW h \in BOOLEAN
  PROVE  LET T == SetParts(S, c, h) IN
         /\ Step(S, T, c) /\ SameLists(S, T) /\ SameLife(S, T)
         /\ T.dl = S.dl /\ T.req = S.req /\ T.ds = S.ds
         /\ T.has = [S.has EXCEPT ![c] = h]
<1> DEFINE T == SetParts(S, c, h)
<1>1. /\ T \in State /\ CountedParts(T)
      /\ Only(S, T, c) /\ SameLists(S, T) /\ SameLife(S, T)
      /\ T.dl = S.dl /\ T.req = S.req /\ T.ds = S.ds
      /\ T.valid = S.valid /\ T.notCurrent = S.notCurrent
      /\ T.has = [S.has EXCEPT ![c] = h]
  BY SetPartsEffect DEF Counted
<1> HIDE DEF T
<1>2. \A f \in Files : Valid(T, f) = Valid(S, f) /\ NotCurrent(T, f) = NotCurrent(S, f)
  BY <1>1 DEF Valid, NotCurrent
<1>3. CountedStates(T)
  BY <1>1, <1>2 DEF Counted, CountedStates
<1> QED BY <1>1, <1>3 DEF Step, Counted, T

\* What the counters of states must become when only c has changed.
LEMMA Recount ==
  ASSUME NEW S \in State, CountedStates(S), NEW c \in Clients, NEW T,
         T.req \in [Clients -> Files \cup {None}], T.ds \in [Clients -> DownStates],
         \A d \in Clients \ {c} : T.req[d] = S.req[d] /\ T.ds[d] = S.ds[d],
         NEW f \in Files
  PROVE  /\ Cardinality(Valid(T, f)) =
              S.valid[f] + One(T.req[c] = f /\ CountsValid(T.ds[c]))
                         - One(S.req[c] = f /\ CountsValid(S.ds[c]))
         /\ Cardinality(NotCurrent(T, f)) =
              S.notCurrent[f] + One(T.req[c] = f /\ CountsNotCurrent(T.ds[c]))
                              - One(S.req[c] = f /\ CountsNotCurrent(S.ds[c]))
<1>1. /\ Valid(S, f) \in SUBSET Clients /\ Valid(T, f) \in SUBSET Clients
      /\ Valid(S, f) \ {c} = Valid(T, f) \ {c}
      /\ (c \in Valid(S, f)) = (S.req[c] = f /\ CountsValid(S.ds[c]))
      /\ (c \in Valid(T, f)) = (T.req[c] = f /\ CountsValid(T.ds[c]))
  BY DEF Valid, CountsValid
<1>2. /\ NotCurrent(S, f) \in SUBSET Clients /\ NotCurrent(T, f) \in SUBSET Clients
      /\ NotCurrent(S, f) \ {c} = NotCurrent(T, f) \ {c}
      /\ (c \in NotCurrent(S, f)) = (S.req[c] = f /\ CountsNotCurrent(S.ds[c]))
      /\ (c \in NotCurrent(T, f)) = (T.req[c] = f /\ CountsNotCurrent(T.ds[c]))
  BY DEF NotCurrent, CountsNotCurrent
<1>3. S.valid[f] = Cardinality(Valid(S, f)) /\ S.notCurrent[f] = Cardinality(NotCurrent(S, f))
  BY DEF CountedStates
<1>4. Cardinality(Valid(T, f)) = Cardinality(Valid(S, f))
         + One(c \in Valid(T, f)) - One(c \in Valid(S, f))
  BY <1>1, CountOne
<1>5. Cardinality(NotCurrent(T, f)) = Cardinality(NotCurrent(S, f))
         + One(c \in NotCurrent(T, f)) - One(c \in NotCurrent(S, f))
  BY <1>2, CountOne
<1> QED BY <1>1, <1>2, <1>3, <1>4, <1>5

\* SetDownloadState counts the new state instead of the old one, and keeps the
\* list of those who are sending.
LEMMA SetDownloadStateStep ==
  ASSUME NEW S \in State, Counted(S), NEW c \in Clients, NEW d \in DownStates
  PROVE  LET T == SetDownloadState(S, c, d) IN
         /\ Step(S, T, c) /\ SameLists(S, T) /\ SameLife(S, T)
         /\ T.req = S.req /\ T.ds = [S.ds EXCEPT ![c] = d]
         /\ \A f \in Files :
              c \in T.dl[f] <=>
                IF S.req[c] = f /\ S.ds[c] # d /\ "downloading" \in {S.ds[c], d}
                THEN d = "downloading" ELSE c \in S.dl[f]
<1> DEFINE f == S.req[c]
           T == SetDownloadState(S, c, d)
           R == TellFile(S, c, d)
           Q == LoseParts(R, c, d)
<1>1. CASE S.ds[c] = d
  <2>1. T = S
    BY <1>1 DEF SetDownloadState
  <2>2. S.ds = [S.ds EXCEPT ![c] = d]
    BY <1>1, StateTypes
  <2> QED BY <1>1, <2>1, <2>2 DEF Step, Only, SameLists, SameLife
<1>2. CASE S.ds[c] # d
  <2>1. T = [Q EXCEPT !.ds[c] = d]
    BY <1>2 DEF SetDownloadState
  <2>2. /\ R \in State /\ SameLists(S, R) /\ SameLife(S, R)
        /\ R.req = S.req /\ R.ds = S.ds /\ R.has = S.has /\ R.freq = S.freq
        /\ R.phase = S.phase /\ R.stopped = S.stopped
        /\ \A g \in Files :
             /\ R.valid[g] = S.valid[g] + One(f = g /\ CountsValid(d))
                                        - One(f = g /\ CountsValid(S.ds[c]))
             /\ R.notCurrent[g] = S.notCurrent[g] + One(f = g /\ CountsNotCurrent(d))
                                        - One(f = g /\ CountsNotCurrent(S.ds[c]))
             /\ \A x \in Clients \ {c} : x \in R.dl[g] <=> x \in S.dl[g]
             /\ c \in R.dl[g] <=>
                 IF f = g /\ "downloading" \in {S.ds[c], d}
                 THEN d = "downloading" ELSE c \in S.dl[g]
    <3>1. CASE f = None
      <4>1. R = S /\ \A g \in Files : f # g
        BY <3>1, SourcesAssumption DEF TellFile
      <4> HIDE DEF R, f
      <4> QED BY <4>1, StateTypes DEF One, SameLists, SameLife
    <3>2. CASE f # None
      <4>1. f \in Files
        BY <3>2, StateTypes
      <4> DEFINE v == S.valid[f] + One(CountsValid(d)) - One(CountsValid(S.ds[c]))
                 n == S.notCurrent[f] + One(CountsNotCurrent(d))
                                      - One(CountsNotCurrent(S.ds[c]))
                 l == IF d = "downloading" THEN S.dl[f] \cup {c}
                      ELSE IF S.ds[c] = "downloading" THEN S.dl[f] \ {c} ELSE S.dl[f]
      <4>2. v \in Int /\ n \in Int /\ l \in SUBSET Clients
        BY <4>1, StateTypes DEF One
      <4>3. R = [S EXCEPT !.valid = [S.valid EXCEPT ![f] = v],
                          !.notCurrent = [S.notCurrent EXCEPT ![f] = n],
                          !.dl = [S.dl EXCEPT ![f] = l]]
        BY <3>2, StateTypes DEF TellFile, ClientStateChanged, State
      <4> HIDE DEF R
      <4>4. R \in State
        <5> HIDE DEF f, v, n, l
        <5> QED BY <4>1, <4>2, <4>3 DEF State
      <4>5. /\ R.valid = [S.valid EXCEPT ![f] = v]
            /\ R.notCurrent = [S.notCurrent EXCEPT ![f] = n]
            /\ R.dl = [S.dl EXCEPT ![f] = l]
            /\ R.req = S.req /\ R.ds = S.ds /\ R.has = S.has /\ R.freq = S.freq
            /\ R.phase = S.phase /\ R.stopped = S.stopped
            /\ SameLists(S, R) /\ SameLife(S, R)
        BY <4>3 DEF State, SameLists, SameLife
      <4>6. ASSUME NEW g \in Files
            PROVE  /\ R.valid[g] = S.valid[g] + One(f = g /\ CountsValid(d))
                                        - One(f = g /\ CountsValid(S.ds[c]))
                   /\ R.notCurrent[g] = S.notCurrent[g]
                                        + One(f = g /\ CountsNotCurrent(d))
                                        - One(f = g /\ CountsNotCurrent(S.ds[c]))
        <5> HIDE DEF f, v, n
        <5>1. CASE g = f
          BY <5>1, <4>1, <4>2, <4>5, StateTypes DEF One, v, n
        <5>2. CASE g # f
          BY <5>2, <4>1, <4>2, <4>5, StateTypes DEF One
        <5> QED BY <5>1, <5>2
      <4>7. ASSUME NEW g \in Files
            PROVE  /\ \A x \in Clients \ {c} : x \in R.dl[g] <=> x \in S.dl[g]
                   /\ c \in R.dl[g] <=>
                       IF f = g /\ "downloading" \in {S.ds[c], d}
                       THEN d = "downloading" ELSE c \in S.dl[g]
        <5> HIDE DEF f
        <5> QED BY <1>2, <4>1, <4>2, <4>5, StateTypes
      <4> QED BY <4>4, <4>5, <4>6, <4>7
    <3> QED BY <3>1, <3>2
  <2> HIDE DEF R
  <2>3. CountedParts(R) /\ Only(S, R, c)
    BY <2>2 DEF Counted, CountedParts, Having, Only, SameLists, SameLife
  <2>4. /\ Q \in State /\ CountedParts(Q)
        /\ Only(R, Q, c) /\ SameLists(R, Q) /\ SameLife(R, Q)
        /\ Q.dl = R.dl /\ Q.req = R.req /\ Q.ds = R.ds
        /\ Q.valid = R.valid /\ Q.notCurrent = R.notCurrent
    <3>1. CASE S.ds[c] = "downloading" /\ d = "none"
      <4>1. Q = SetParts(R, c, FALSE)
        BY <3>1, <2>2 DEF LoseParts
      <4> HIDE DEF Q
      <4> QED BY <4>1, <2>2, <2>3, SetPartsEffect
    <3>2. CASE ~(S.ds[c] = "downloading" /\ d = "none")
      BY <3>2, <2>2, <2>3 DEF LoseParts, Only, SameLists, SameLife
    <3> QED BY <3>1, <3>2
  <2>5. Only(S, Q, c)
    BY <2>3, <2>4, OnlyTrans
  <2> HIDE DEF Q, T
  <2>6. T \in State
    BY <2>1, <2>4 DEF State
  <2>7. /\ T.ds = [S.ds EXCEPT ![c] = d] /\ T.req = S.req /\ T.dl = R.dl
        /\ T.valid = R.valid /\ T.notCurrent = R.notCurrent
        /\ T.has = Q.has /\ T.freq = Q.freq
        /\ T.phase = Q.phase /\ T.stopped = Q.stopped
        /\ SameLists(Q, T) /\ SameLife(Q, T)
    BY <2>1, <2>2, <2>4 DEF State, SameLists, SameLife
  <2>8. CountedParts(T)
    BY <2>2, <2>4, <2>7 DEF CountedParts, Having
  <2>9. CountedStates(T)
    <3>1. ASSUME NEW g \in Files
          PROVE  /\ T.valid[g] = Cardinality(Valid(T, g))
                 /\ T.notCurrent[g] = Cardinality(NotCurrent(T, g))
      <4>1. /\ T.req \in [Clients -> Files \cup {None}]
            /\ T.ds \in [Clients -> DownStates]
            /\ T.ds[c] = d /\ T.req[c] = f
            /\ \A x \in Clients \ {c} : T.req[x] = S.req[x] /\ T.ds[x] = S.ds[x]
        BY <2>6, <2>7, StateTypes
      <4> HIDE DEF f
      <4>2. CountedStates(S)
        BY DEF Counted
      <4>3. /\ Cardinality(Valid(T, g)) =
                 S.valid[g] + One(T.req[c] = g /\ CountsValid(T.ds[c]))
                            - One(S.req[c] = g /\ CountsValid(S.ds[c]))
            /\ Cardinality(NotCurrent(T, g)) =
                 S.notCurrent[g] + One(T.req[c] = g /\ CountsNotCurrent(T.ds[c]))
                                 - One(S.req[c] = g /\ CountsNotCurrent(S.ds[c]))
        BY <4>1, <4>2, Recount
      <4>4. S.req[c] = f
        BY DEF f
      <4> QED BY <4>1, <4>3, <4>4, <2>2, <2>7 DEF One
    <3> QED BY <3>1 DEF CountedStates
  <2>10. Only(S, T, c)
    BY <2>4, <2>5, <2>7, StateTypes DEF Only, SameLists, SameLife
  <2>11. SameLists(S, T) /\ SameLife(S, T)
    BY <2>2, <2>4, <2>7 DEF SameLists, SameLife
  <2> QED BY <1>2, <2>2, <2>6, <2>7, <2>8, <2>9, <2>10, <2>11 DEF Step, Counted, T
<1> QED BY <1>1, <1>2

\* The counters do not count the state -1.
LEMMA NoneCounts == ~CountsValid(None) /\ ~CountsNotCurrent(None)
BY SourcesAssumption DEF CountsValid, CountsNotCurrent, DownStates

\* What the counters of the current file are after ClientStateChanged.
LEMMA ClientStateChangedEffect ==
  ASSUME NEW S \in State, NEW f \in Files, NEW old, NEW new
  PROVE  LET T == ClientStateChanged(S, f, old, new) IN
         /\ T \in State
         /\ \A g \in Files :
              /\ T.valid[g] = IF g = f THEN S.valid[g] + One(CountsValid(new))
                                                     - One(CountsValid(old))
                              ELSE S.valid[g]
              /\ T.notCurrent[g] = IF g = f THEN S.notCurrent[g]
                                     + One(CountsNotCurrent(new))
                                     - One(CountsNotCurrent(old))
                                   ELSE S.notCurrent[g]
         /\ T.freq = S.freq /\ T.has = S.has /\ T.req = S.req /\ T.ds = S.ds
         /\ T.dl = S.dl /\ T.phase = S.phase /\ T.stopped = S.stopped
         /\ SameLists(S, T) /\ SameLife(S, T)
<1> DEFINE T == ClientStateChanged(S, f, old, new)
           v == S.valid[f] + One(CountsValid(new)) - One(CountsValid(old))
           n == S.notCurrent[f] + One(CountsNotCurrent(new)) - One(CountsNotCurrent(old))
<1>1. v \in Int /\ n \in Int
  BY StateTypes DEF One
<1>2. T = [S EXCEPT !.valid = [S.valid EXCEPT ![f] = v],
                    !.notCurrent = [S.notCurrent EXCEPT ![f] = n]]
  BY StateTypes DEF ClientStateChanged
<1> HIDE DEF T
<1>3. /\ T.valid = [S.valid EXCEPT ![f] = v]
      /\ T.notCurrent = [S.notCurrent EXCEPT ![f] = n]
      /\ T.freq = S.freq /\ T.has = S.has /\ T.req = S.req /\ T.ds = S.ds
      /\ T.dl = S.dl /\ T.phase = S.phase /\ T.stopped = S.stopped
      /\ SameLists(S, T) /\ SameLife(S, T)
  BY <1>2 DEF State, SameLists, SameLife
<1>4. T \in State
  <2> HIDE DEF v, n
  <2> QED BY <1>1, <1>2 DEF State
<1> QED BY <1>3, <1>4, StateTypes DEF T

\* SetRequestFile takes the source out of the counters of the old file and
\* enters it in those of the new one; the part status is lost.
LEMMA SetRequestFileStep ==
  ASSUME NEW S \in State, Counted(S), NEW c \in Clients,
         NEW f \in Files \cup {None}
  PROVE  LET T == SetRequestFile(S, c, f) IN
         /\ Step(S, T, c) /\ SameLists(S, T) /\ SameLife(S, T)
         /\ T.dl = S.dl /\ T.ds = S.ds /\ T.req = [S.req EXCEPT ![c] = f]
<1> DEFINE old == S.req[c]
           d == S.ds[c]
           Q == SetParts(S, c, FALSE)
           P == IF old = None THEN Q ELSE ClientStateChanged(Q, old, d, None)
           R == [P EXCEPT !.req[c] = f]
           T == IF f = None THEN R ELSE ClientStateChanged(R, f, None, d)
<1>1. CASE old = f
  <2>1. SetRequestFile(S, c, f) = S
    BY <1>1 DEF SetRequestFile
  <2>2. S.req = [S.req EXCEPT ![c] = f]
    BY <1>1, StateTypes
  <2> QED BY <2>1, <2>2 DEF Step, Only, SameLists, SameLife
<1>2. CASE old # f
  <2>1. SetRequestFile(S, c, f) = T
    BY <1>2 DEF SetRequestFile
  <2>2. /\ Q \in State /\ CountedParts(Q) /\ CountedStates(Q)
        /\ Only(S, Q, c) /\ SameLists(S, Q) /\ SameLife(S, Q)
        /\ Q.dl = S.dl /\ Q.req = S.req /\ Q.ds = S.ds /\ ~Q.has[c]
    <3>1. /\ Step(S, Q, c) /\ SameLists(S, Q) /\ SameLife(S, Q)
          /\ Q.dl = S.dl /\ Q.req = S.req /\ Q.ds = S.ds
          /\ Q.has = [S.has EXCEPT ![c] = FALSE]
      BY SetPartsStep, Zenon
    <3> HIDE DEF Q
    <3> QED BY <3>1, StateTypes DEF Step, Counted
  <2> HIDE DEF Q
  <2>3. /\ P \in State
        /\ \A g \in Files :
             /\ P.valid[g] = Q.valid[g] - One(g = old /\ CountsValid(d))
             /\ P.notCurrent[g] = Q.notCurrent[g] - One(g = old /\ CountsNotCurrent(d))
        /\ P.freq = Q.freq /\ P.has = Q.has /\ P.req = Q.req /\ P.ds = Q.ds
        /\ P.dl = Q.dl /\ P.phase = Q.phase /\ P.stopped = Q.stopped
        /\ SameLists(Q, P) /\ SameLife(Q, P)
    <3>1. CASE old = None
      <4>1. P = Q /\ \A g \in Files : g # old
        BY <3>1, SourcesAssumption
      <4> HIDE DEF P, old
      <4> QED BY <2>2, <4>1, StateTypes DEF SameLists, SameLife, One
    <3>2. CASE old # None
      <4>1. old \in Files /\ P = ClientStateChanged(Q, old, d, None)
        BY <3>2, StateTypes
      <4> HIDE DEF P, old, d
      <4>2. /\ P \in State
            /\ \A g \in Files :
                 /\ P.valid[g] = IF g = old THEN Q.valid[g] + One(CountsValid(None))
                                                - One(CountsValid(d))
                                 ELSE Q.valid[g]
                 /\ P.notCurrent[g] = IF g = old
                                      THEN Q.notCurrent[g] + One(CountsNotCurrent(None))
                                             - One(CountsNotCurrent(d))
                                      ELSE Q.notCurrent[g]
            /\ P.freq = Q.freq /\ P.has = Q.has /\ P.req = Q.req /\ P.ds = Q.ds
            /\ P.dl = Q.dl /\ P.phase = Q.phase /\ P.stopped = Q.stopped
            /\ SameLists(Q, P) /\ SameLife(Q, P)
        BY <2>2, <4>1, ClientStateChangedEffect
      <4>3. \A g \in Files : Q.valid[g] \in Int /\ Q.notCurrent[g] \in Int
        BY <2>2, StateTypes
      <4> QED BY <4>2, <4>3, NoneCounts DEF One
    <3> QED BY <3>1, <3>2
  <2> HIDE DEF P
  <2>4. R \in State
    BY <2>3 DEF State
  <2>5. /\ R.req = [S.req EXCEPT ![c] = f]
        /\ R.valid = P.valid /\ R.notCurrent = P.notCurrent
        /\ R.freq = Q.freq /\ R.has = Q.has /\ R.ds = S.ds /\ R.dl = S.dl
        /\ R.phase = S.phase /\ R.stopped = S.stopped
        /\ SameLists(S, R) /\ SameLife(S, R)
    BY <2>2, <2>3 DEF State, SameLists, SameLife, Only
  <2> HIDE DEF R
  <2>6. /\ T \in State
        /\ \A g \in Files :
             /\ T.valid[g] = R.valid[g] + One(g = f /\ CountsValid(d))
             /\ T.notCurrent[g] = R.notCurrent[g] + One(g = f /\ CountsNotCurrent(d))
        /\ T.freq = R.freq /\ T.has = R.has /\ T.req = R.req /\ T.ds = R.ds
        /\ T.dl = R.dl /\ T.phase = R.phase /\ T.stopped = R.stopped
        /\ SameLists(R, T) /\ SameLife(R, T)
    <3>1. CASE f = None
      <4>1. T = R /\ \A g \in Files : g # f
        BY <3>1, SourcesAssumption
      <4> HIDE DEF T
      <4> QED BY <2>4, <4>1, StateTypes DEF SameLists, SameLife, One
    <3>2. CASE f # None
      <4>1. f \in Files /\ T = ClientStateChanged(R, f, None, d)
        BY <3>2
      <4> HIDE DEF T, d
      <4> QED BY <2>4, <4>1, ClientStateChangedEffect, NoneCounts, StateTypes DEF One
    <3> QED BY <3>1, <3>2
  <2> HIDE DEF T
  <2>7. CountedParts(T)
    <3>1. \A g \in Files : Having(T, g) = Having(Q, g)
      BY <2>2, <2>5, <2>6, StateTypes DEF Having
    <3> QED BY <2>2, <2>5, <2>6, <3>1 DEF CountedParts
  <2>8. CountedStates(T)
    <3>1. ASSUME NEW g \in Files
          PROVE  /\ T.valid[g] = Cardinality(Valid(T, g))
                 /\ T.notCurrent[g] = Cardinality(NotCurrent(T, g))
      <4>1. /\ T.req \in [Clients -> Files \cup {None}]
            /\ T.ds \in [Clients -> DownStates]
            /\ \A x \in Clients \ {c} : T.req[x] = Q.req[x] /\ T.ds[x] = Q.ds[x]
            /\ T.req[c] = f /\ Q.req[c] = old /\ T.ds[c] = d /\ Q.ds[c] = d
        BY <2>2, <2>5, <2>6, StateTypes
      <4> HIDE DEF old, d
      <4>2. /\ Cardinality(Valid(T, g)) =
                 Q.valid[g] + One(T.req[c] = g /\ CountsValid(T.ds[c]))
                            - One(Q.req[c] = g /\ CountsValid(Q.ds[c]))
            /\ Cardinality(NotCurrent(T, g)) =
                 Q.notCurrent[g] + One(T.req[c] = g /\ CountsNotCurrent(T.ds[c]))
                                 - One(Q.req[c] = g /\ CountsNotCurrent(Q.ds[c]))
        BY <4>1, <2>2, Recount
      <4>3. /\ T.valid[g] = Q.valid[g] + One(g = f /\ CountsValid(d))
                                       - One(g = old /\ CountsValid(d))
            /\ T.notCurrent[g] = Q.notCurrent[g] + One(g = f /\ CountsNotCurrent(d))
                                       - One(g = old /\ CountsNotCurrent(d))
        <5>1. Q.valid[g] \in Int /\ Q.notCurrent[g] \in Int
          BY <2>2, StateTypes
        <5> QED BY <5>1, <2>3, <2>5, <2>6 DEF One
      <4> QED BY <4>1, <4>2, <4>3 DEF One
    <3> QED BY <3>1 DEF CountedStates
  <2>9. SameLists(S, T) /\ SameLife(S, T)
    BY <2>5, <2>6 DEF SameLists, SameLife
  <2>10. Only(S, T, c)
    BY <2>5, <2>6, <2>9, StateTypes DEF Only, SameLists, SameLife
  <2> QED BY <2>1, <2>5, <2>6, <2>7, <2>8, <2>9, <2>10 DEF Step, Counted
<1> QED BY <1>1, <1>2

-----------------------------------------------------------------------------
(***************************************************************************)
(* Leaving files.                                                           *)
(***************************************************************************)
\* Nothing of c belongs to a file that is gone.
FreeOfGone(S, c) ==
  \A f \in Files : S.phase[f] = "gone" => S.req[c] # f /\ f \notin S.other[c]

\* c is asked for nothing and in no list.
Out(S, c) ==
  /\ S.req[c] = None /\ S.ds[c] = "none" /\ S.other[c] = {}
  /\ \A f \in Files : c \notin S.src[f] /\ c \notin S.a4af[f] /\ c \notin S.dl[f]

\* A change of anything else leaves the counters right.
LEMMA CountedSame ==
  ASSUME NEW S, NEW T, Counted(S),
         T.req = S.req, T.ds = S.ds, T.has = S.has,
         T.valid = S.valid, T.notCurrent = S.notCurrent, T.freq = S.freq
  PROVE  Counted(T)
<1>1. \A f \in Files : /\ Valid(T, f) = Valid(S, f)
                      /\ NotCurrent(T, f) = NotCurrent(S, f)
                      /\ Having(T, f) = Having(S, f)
  BY DEF Valid, NotCurrent, Having
<1> QED BY <1>1 DEF Counted, CountedStates, CountedParts

\* Files that are gone have no lists left that c could be in.
LEMMA DelSourceEverywhereStep ==
  ASSUME NEW S \in State, Counted(S), NEW c \in Clients,
         Listed(S, c), FreeOfGone(S, c)
  PROVE  LET T == DelSourceEverywhere(S, c) IN
         /\ Step(S, T, c) /\ SameLife(S, T)
         /\ T.req = S.req /\ T.ds = S.ds /\ T.other[c] = {}
         /\ \A f \in Files : c \notin T.src[f] /\ c \notin T.a4af[f] /\ c \notin T.dl[f]
<1> DEFINE T == DelSourceEverywhere(S, c)
           Off(L) == [f \in Files |-> IF S.phase[f] = "gone" THEN L[f] ELSE L[f] \ {c}]
           other == [S.other EXCEPT ![c] = {}]
           unneeded == [S.unneeded EXCEPT ![c] = {}]
<1>1. T = [S EXCEPT !.src = Off(S.src), !.a4af = Off(S.a4af), !.dl = Off(S.dl),
                    !.other = other, !.unneeded = unneeded]
  BY StateTypes DEF DelSourceEverywhere
<1>2. ASSUME NEW L \in [Files -> SUBSET Clients]
      PROVE  /\ Off(L) \in [Files -> SUBSET Clients]
             /\ \A f \in Files :
                  /\ \A d \in Clients \ {c} : d \in Off(L)[f] <=> d \in L[f]
                  /\ S.phase[f] # "gone" => c \notin Off(L)[f]
                  /\ S.phase[f] = "gone" => Off(L)[f] = L[f]
  OBVIOUS
<1>3. /\ other \in [Clients -> SUBSET Files] /\ unneeded \in [Clients -> SUBSET Files]
      /\ \A d \in Clients \ {c} : other[d] = S.other[d]
      /\ other[c] = {}
  BY StateTypes
<1> HIDE DEF Off, other, unneeded, T
<1>4. T \in State
  BY <1>1, <1>2, <1>3 DEF State
<1>5. /\ T.src = Off(S.src) /\ T.a4af = Off(S.a4af) /\ T.dl = Off(S.dl)
      /\ T.other = other
      /\ T.req = S.req /\ T.ds = S.ds /\ T.has = S.has /\ T.valid = S.valid
      /\ T.notCurrent = S.notCurrent /\ T.freq = S.freq
      /\ T.phase = S.phase /\ T.stopped = S.stopped /\ SameLife(S, T)
  BY <1>1 DEF State, SameLife
<1>6. Counted(T)
  BY <1>5, CountedSame
<1> DEFINE Loses(M, L) ==
             \A f \in Files :
               /\ \A d \in Clients \ {c} : d \in M[f] <=> d \in L[f]
               /\ S.phase[f] # "gone" => c \notin M[f]
               /\ S.phase[f] = "gone" => M[f] = L[f]
<1>9. Loses(T.src, S.src) /\ Loses(T.a4af, S.a4af) /\ Loses(T.dl, S.dl)
  <2>1. \A L \in [Files -> SUBSET Clients] : Loses(Off(L), L)
    BY <1>2
  <2>2. Loses(Off(S.src), S.src) /\ Loses(Off(S.a4af), S.a4af) /\ Loses(Off(S.dl), S.dl)
    <3> HIDE DEF Loses
    <3> QED BY <2>1, StateTypes
  <2> HIDE DEF Loses
  <2> QED BY <2>2, <1>5
<1>7. Only(S, T, c)
  BY <1>3, <1>5, <1>9 DEF Only, SameLife
<1>8. ASSUME NEW f \in Files
      PROVE  c \notin T.src[f] /\ c \notin T.a4af[f] /\ c \notin T.dl[f]
  <2>1. CASE S.phase[f] = "gone"
    <3>1. T.src[f] = S.src[f] /\ T.a4af[f] = S.a4af[f] /\ T.dl[f] = S.dl[f]
      BY <2>1, <1>9
    <3>2. S.req[c] # f /\ f \notin S.other[c]
      BY <2>1 DEF FreeOfGone
    <3> QED BY <3>1, <3>2 DEF Listed
  <2>2. CASE S.phase[f] # "gone"
    BY <2>2, <1>9
  <2> QED BY <2>1, <2>2
<1> QED BY <1>3, <1>4, <1>5, <1>6, <1>7, <1>8 DEF Step, T

\* RemoveSource takes c out of everything.
LEMMA RemoveSourceStep ==
  ASSUME NEW S \in State, Counted(S), NEW c \in Clients,
         Listed(S, c), FreeOfGone(S, c)
  PROVE  LET T == RemoveSource(S, c) IN
         Step(S, T, c) /\ SameLife(S, T) /\ Out(T, c)
<1> DEFINE D == DelSourceEverywhere(S, c)
           R == SetRequestFile(D, c, None)
           Q == SetDownloadState(R, c, "none")
           T == SetParts(Q, c, FALSE)
<1>1. /\ Step(S, D, c) /\ SameLife(S, D) /\ D.other[c] = {}
      /\ \A f \in Files : c \notin D.src[f] /\ c \notin D.a4af[f] /\ c \notin D.dl[f]
  BY DelSourceEverywhereStep
<1> HIDE DEF D
<1>2. D \in State /\ Counted(D) /\ None \in Files \cup {None}
  BY <1>1 DEF Step
<1>3. /\ Step(D, R, c) /\ SameLists(D, R) /\ SameLife(D, R)
      /\ R.dl = D.dl /\ R.req = [D.req EXCEPT ![c] = None]
  BY <1>2, SetRequestFileStep
<1> HIDE DEF R
<1>4. R \in State /\ Counted(R) /\ R.req[c] = None /\ "none" \in DownStates
  BY <1>2, <1>3, StateTypes DEF Step, DownStates
<1>5. /\ Step(R, Q, c) /\ SameLists(R, Q) /\ SameLife(R, Q)
      /\ Q.req = R.req /\ Q.ds = [R.ds EXCEPT ![c] = "none"]
      /\ \A f \in Files :
           c \in Q.dl[f] <=>
             IF R.req[c] = f /\ R.ds[c] # "none" /\ "downloading" \in {R.ds[c], "none"}
             THEN "none" = "downloading" ELSE c \in R.dl[f]
  BY <1>4, SetDownloadStateStep
<1> HIDE DEF Q
<1>6. Q \in State /\ Counted(Q) /\ FALSE \in BOOLEAN
  BY <1>5 DEF Step
<1>7. /\ Step(Q, T, c) /\ SameLists(Q, T) /\ SameLife(Q, T)
      /\ T.dl = Q.dl /\ T.req = Q.req /\ T.ds = Q.ds
  BY <1>6, SetPartsStep, Zenon
<1> HIDE DEF T
<1>8. Only(S, T, c)
  BY <1>1, <1>3, <1>5, <1>7, OnlyTrans DEF Step
<1>9. SameLife(S, T)
  BY <1>1, <1>3, <1>5, <1>7 DEF SameLife
<1>10. /\ T.req[c] = None /\ T.ds[c] = "none"
       /\ T.other[c] = {} /\ T.src = D.src /\ T.a4af = D.a4af
  BY <1>1, <1>3, <1>4, <1>5, <1>7, StateTypes DEF SameLists
<1>11. \A f \in Files : c \notin T.dl[f]
  BY <1>1, <1>3, <1>5, <1>7
<1>12. Out(T, c)
  BY <1>1, <1>10, <1>11 DEF Out
<1>13. T = RemoveSource(S, c)
  BY DEF RemoveSource, T, Q, R, D
<1> QED BY <1>7, <1>8, <1>9, <1>12, <1>13 DEF Step

\* Safe_Delete takes c out of everything and out of the client list.
LEMMA SafeDeleteStep ==
  ASSUME NEW S \in State, Counted(S), NEW c \in Clients, c \in S.alive,
         Listed(S, c), FreeOfGone(S, c)
  PROVE  LET T == SafeDelete(S, c) IN
         Step(S, T, c) /\ Out(T, c) /\ Fits(T, c)
<1> DEFINE B == [S EXCEPT !.alive    = @ \ {c},
                          !.queued   = @ \ {c},
                          !.pending  = @ \ {c},
                          !.sock[c]  = "none",
                          !.asked[c] = <<>>]
           T == RemoveSource(B, c)
<1>1. SafeDelete(S, c) = T
  BY DEF SafeDelete
<1>2. B = [S EXCEPT !.alive = S.alive \ {c}, !.queued = S.queued \ {c},
                    !.pending = S.pending \ {c},
                    !.sock = [S.sock EXCEPT ![c] = "none"],
                    !.asked = [S.asked EXCEPT ![c] = <<>>]]
  BY StateTypes
<1> HIDE DEF B
<1>3. B \in State
  <2>1. <<>> \in Seq(Files) /\ "none" \in Sockets
    BY DEF Sockets
  <2> QED BY <1>2, <2>1 DEF State
<1>4. /\ B.alive = S.alive \ {c}
      /\ B.sock = [S.sock EXCEPT ![c] = "none"]
      /\ B.asked = [S.asked EXCEPT ![c] = <<>>]
      /\ B.req = S.req /\ B.ds = S.ds /\ B.has = S.has /\ B.valid = S.valid
      /\ B.notCurrent = S.notCurrent /\ B.freq = S.freq /\ B.dl = S.dl
      /\ B.phase = S.phase /\ B.stopped = S.stopped /\ SameLists(S, B)
  BY <1>2 DEF State, SameLists
<1>5. Counted(B)
  BY <1>4, CountedSame
<1>6. Only(S, B, c)
  BY <1>4, StateTypes DEF Only, SameLists
<1>7. Listed(B, c) /\ FreeOfGone(B, c)
  BY <1>4 DEF Listed, FreeOfGone, SameLists
<1>8. Step(B, T, c) /\ SameLife(B, T) /\ Out(T, c)
  BY <1>3, <1>5, <1>7, RemoveSourceStep
<1> HIDE DEF T
<1>9. Step(S, T, c)
  BY <1>6, <1>8, OnlyTrans DEF Step
<1>10. T.sock[c] = "none" /\ T.asked[c] = <<>>
  BY <1>4, <1>8, StateTypes DEF SameLife
<1>11. Fits(T, c)
  BY <1>8, <1>10, SourcesAssumption DEF Fits, Listed, Behaves, Out
<1> QED BY <1>1, <1>8, <1>9, <1>11

\* Disconnected followed by Safe_Delete.  The client's state need not fit: it may
\* just have been set to one that Disconnected treats as a failure.
LEMMA DisconnectStep ==
  ASSUME NEW S \in State, Counted(S), NEW c \in Clients,
         Listed(S, c), FreeOfGone(S, c),
         S.req[c] = None => S.ds[c] = "none" \/ Failed(S, c),
         c \notin S.alive => Behaves(S, c)
  PROVE  LET T == Disconnect(S, c) IN
         /\ Step(S, T, c) /\ Fits(T, c)
         /\ Out(T, c) \/ (T.req[c] = S.req[c] /\ T.other[c] = S.other[c])
<1> DEFINE P == CASE S.ds[c] = "downloading" -> SetDownloadState(S, c, "onqueue")
                  [] S.ds[c] = "connected"   -> RemoveSource(S, c)
                  [] OTHER                   -> S
           R == [P EXCEPT !.sock[c] = "none", !.asked[c] = <<>>]
           T == Disconnect(S, c)
<1>1. CASE c \notin S.alive
  <2>1. T = S
    BY <1>1 DEF Disconnect
  <2> QED BY <1>1, <2>1 DEF Step, Only, Fits
<1>2. CASE c \in S.alive
  <2>1. R = AfterDisconnect(S, c)
    BY DEF AfterDisconnect
  <2>2. /\ Step(S, P, c) /\ SameLife(S, P) /\ Listed(P, c)
        /\ P.ds[c] \notin {"downloading", "connected"}
        /\ Out(P, c) \/ (P.req[c] = S.req[c] /\ P.other[c] = S.other[c])
        /\ P.req[c] = None => P.ds[c] = "none" \/ Failed(P, c)
    <3>1. CASE S.ds[c] = "downloading"
      <4>1. P = SetDownloadState(S, c, "onqueue") /\ "onqueue" \in DownStates
        BY <3>1 DEF DownStates
      <4> HIDE DEF P
      <4>2. /\ Step(S, P, c) /\ SameLists(S, P) /\ SameLife(S, P)
            /\ P.req = S.req /\ P.ds = [S.ds EXCEPT ![c] = "onqueue"]
            /\ \A f \in Files :
                 c \in P.dl[f] <=>
                   IF S.req[c] = f /\ S.ds[c] # "onqueue"
                        /\ "downloading" \in {S.ds[c], "onqueue"}
                   THEN "onqueue" = "downloading" ELSE c \in S.dl[f]
        BY <4>1, SetDownloadStateStep
      <4>3. P.ds[c] = "onqueue" /\ S.req[c] # None
        BY <3>1, <4>2, StateTypes DEF Failed
      <4>4. Listed(P, c)
        BY <3>1, <4>2, <4>3 DEF Listed, SameLists
      <4> QED BY <4>2, <4>3, <4>4 DEF SameLists
    <3>2. CASE S.ds[c] = "connected"
      <4>1. P = RemoveSource(S, c)
        BY <3>2
      <4> HIDE DEF P
      <4>2. Step(S, P, c) /\ SameLife(S, P) /\ Out(P, c)
        BY <4>1, RemoveSourceStep
      <4>3. Listed(P, c)
        BY <4>2, SourcesAssumption DEF Listed, Out
      <4> QED BY <4>2, <4>3 DEF Out
    <3>3. CASE S.ds[c] \notin {"downloading", "connected"}
      <4>1. P = S
        BY <3>3
      <4> HIDE DEF P
      <4> QED BY <3>3, <4>1 DEF Step, Only, SameLife
    <3> QED BY <3>1, <3>2, <3>3
  <2> HIDE DEF P
  <2>3. P \in State /\ P.phase = S.phase
    BY <2>2 DEF Step, Only
  <2>4. R \in State
    <3>1. <<>> \in Seq(Files) /\ "none" \in Sockets
      BY DEF Sockets
    <3> QED BY <2>3, <3>1 DEF State
  <2>5. /\ R.sock = [P.sock EXCEPT ![c] = "none"] /\ R.asked = [P.asked EXCEPT ![c] = <<>>]
        /\ R.req = P.req /\ R.ds = P.ds /\ R.has = P.has /\ R.valid = P.valid
        /\ R.notCurrent = P.notCurrent /\ R.freq = P.freq /\ R.dl = P.dl
        /\ R.phase = P.phase /\ R.stopped = P.stopped /\ R.alive = P.alive
        /\ SameLists(P, R)
    BY <2>3 DEF State, SameLists
  <2> HIDE DEF R
  <2>6. Counted(R)
    BY <2>2, <2>5, CountedSame DEF Step
  <2>7. Only(P, R, c)
    BY <2>3, <2>5, StateTypes DEF Only, SameLists
  <2>8. Step(S, R, c)
    BY <2>2, <2>4, <2>6, <2>7, OnlyTrans DEF Step
  <2>9. /\ Listed(R, c) /\ R.ds[c] \notin {"downloading", "connected"}
        /\ R.sock[c] = "none" /\ R.asked[c] = <<>> /\ c \in R.alive
        /\ Out(R, c) \/ (R.req[c] = S.req[c] /\ R.other[c] = S.other[c])
        /\ R.req[c] = None => R.ds[c] = "none" \/ Failed(R, c)
    BY <1>2, <2>2, <2>3, <2>5, StateTypes
       DEF Listed, SameLists, SameLife, Out, Failed
  <2>10. FreeOfGone(R, c)
    BY <2>3, <2>5, <2>9, SourcesAssumption DEF FreeOfGone, Out
  <2>11. CASE Needless(R, c)
    <3>1. T = SafeDelete(R, c)
      BY <1>2, <2>1, <2>11 DEF Disconnect
    <3> HIDE DEF T
    <3>2. Step(R, T, c) /\ Out(T, c) /\ Fits(T, c)
      BY <2>4, <2>6, <2>9, <2>10, <3>1, SafeDeleteStep
    <3> QED BY <2>8, <3>2, OnlyTrans DEF Step, T
  <2>12. CASE ~Needless(R, c)
    <3>1. T = R
      BY <1>2, <2>1, <2>12 DEF Disconnect
    <3>2. ~Failed(R, c)
      BY <2>12 DEF Needless
    <3>3. Behaves(R, c)
      BY <2>9, <3>2 DEF Behaves, Failed
    <3> HIDE DEF T
    <3> QED BY <2>8, <2>9, <3>1, <3>3 DEF Fits, T
  <2> QED BY <2>11, <2>12
<1> QED BY <1>1, <1>2

\* What fits and is asked for nothing is out of everything.
LEMMA OutIfNothing ==
  ASSUME NEW S \in State, NEW c \in Clients, Fits(S, c),
         S.req[c] = None, S.other[c] = {}
  PROVE  Out(S, c)
BY SourcesAssumption DEF Fits, Listed, Behaves, Out

\* CPartFile::RemoveSource
LEMMA PurgeStep ==
  ASSUME NEW S \in State, Counted(S), NEW c \in Clients,
         Fits(S, c), FreeOfGone(S, c)
  PROVE  LET T == Purge(S, c) IN Step(S, T, c) /\ Fits(T, c) /\ Out(T, c)
<1> DEFINE R == RemoveSource(S, c)
           T == Disconnect(R, c)
<1>1. Step(S, R, c) /\ SameLife(S, R) /\ Out(R, c)
  BY RemoveSourceStep DEF Fits
<1>2. Purge(S, c) = IF R.sock[c] = "none" THEN T ELSE R
  BY DEF Purge
<1> HIDE DEF R
<1>3. Fits(R, c) /\ FreeOfGone(R, c)
  BY <1>1, SourcesAssumption
     DEF Fits, Listed, Behaves, Out, FreeOfGone, SameLife
<1>4. R \in State /\ Counted(R)
  BY <1>1 DEF Step
<1>5. /\ Step(R, T, c) /\ Fits(T, c)
      /\ Out(T, c) \/ (T.req[c] = R.req[c] /\ T.other[c] = R.other[c])
  BY <1>3, <1>4, DisconnectStep DEF Fits, Behaves
<1> HIDE DEF T
<1>6. Step(S, T, c)
  BY <1>1, <1>5, OnlyTrans DEF Step
<1>7. Out(T, c)
  BY <1>1, <1>5, OutIfNothing DEF Out, Step
<1> QED BY <1>1, <1>2, <1>3, <1>5, <1>6, <1>7

-----------------------------------------------------------------------------
(***************************************************************************)
(* Coming to files.                                                         *)
(***************************************************************************)
\* A new state keeps the lists, and the behaviour if the connection is the one
\* the state waits for.
LEMMA NewStateFits ==
  ASSUME NEW S \in State, Counted(S), NEW c \in Clients, NEW d \in DownStates,
         Listed(S, c)
  PROVE  LET T == SetDownloadState(S, c, d) IN
         /\ Step(S, T, c) /\ Listed(T, c) /\ SameLife(S, T)
         /\ T.req = S.req /\ T.other = S.other /\ T.ds[c] = d
         /\ Behaves(S, c) /\ d \notin {"connecting", "connected"}
              /\ (S.req[c] = None => d = "none") => Fits(T, c)
<1> DEFINE T == SetDownloadState(S, c, d)
<1>1. /\ Step(S, T, c) /\ SameLists(S, T) /\ SameLife(S, T)
      /\ T.req = S.req /\ T.ds = [S.ds EXCEPT ![c] = d]
      /\ \A f \in Files :
           c \in T.dl[f] <=>
             IF S.req[c] = f /\ S.ds[c] # d /\ "downloading" \in {S.ds[c], d}
             THEN d = "downloading" ELSE c \in S.dl[f]
  BY SetDownloadStateStep
<1> HIDE DEF T
<1>2. T.ds[c] = d
  BY <1>1, StateTypes
<1>3. Listed(T, c)
  BY <1>1, <1>2 DEF Listed, SameLists
<1>4. ASSUME Behaves(S, c), d \notin {"connecting", "connected"},
             S.req[c] = None => d = "none"
      PROVE  Behaves(T, c)
  BY <1>1, <1>2, <1>4 DEF Behaves, SameLife
<1> QED BY <1>1, <1>2, <1>3, <1>4 DEF Fits, SameLists, T

\* SwapToAnotherFile moves c to the file g that c could be swapped to, and
\* leaves it swappable to the old one unless it has to leave it for good.
LEMMA SwapToStep ==
  ASSUME NEW S \in State, Counted(S), NEW c \in Clients, Fits(S, c),
         MaySwap(S, c), NEW g \in S.other[c], NEW completely \in BOOLEAN
  PROVE  LET T == SwapTo(S, c, g, completely) IN
         /\ Step(S, T, c) /\ Fits(T, c) /\ T.req[c] = g
         /\ \A h \in T.other[c] :
              h \in S.other[c] \/ (h = S.req[c] /\ ~completely)
<1> DEFINE f == S.req[c]
           U(M, A) == [M EXCEPT ![c] = A]
           src == [S.src EXCEPT ![f] = @ \ {c}]
           dl == [S.dl EXCEPT ![f] = @ \ {c}]
           a4af == IF completely THEN [S.a4af EXCEPT ![g] = @ \ {c}]
                   ELSE [[S.a4af EXCEPT ![g] = @ \ {c}] EXCEPT ![f] = @ \cup {c}]
           other == IF completely THEN S.other ELSE [S.other EXCEPT ![c] = @ \cup {f}]
           unneeded == IF completely THEN S.unneeded
                       ELSE [S.unneeded EXCEPT ![c] =
                               IF S.ds[c] = "noneeded" THEN @ \cup {f} ELSE @ \ {f}]
           L == [S EXCEPT !.src[f] = @ \ {c}, !.a4af[g] = @ \ {c}, !.dl[f] = @ \ {c}]
           K == IF completely THEN L
                ELSE [L EXCEPT !.a4af[f]     = @ \cup {c},
                               !.other[c]    = @ \cup {f},
                               !.unneeded[c] = IF S.ds[c] = "noneeded" THEN @ \cup {f}
                                               ELSE @ \ {f}]
           Q == SetDownloadState(K, c, "none")
           P == SetParts(Q, c, FALSE)
           R == SetRequestFile(P, c, g)
           T == [R EXCEPT !.src[g] = @ \cup {c},
                          !.other[c] = @ \ {g}, !.unneeded[c] = @ \ {g}]
<1>1. /\ f \in Files /\ g \in Files /\ f # g /\ f # None /\ g # None
      /\ S.ds[c] # "downloading" /\ c \in S.alive
  BY StateTypes, SourcesAssumption DEF MaySwap, Fits, Listed, Behaves
<1>2. T = SwapTo(S, c, g, completely)
  BY DEF SwapTo
<1>3. K = [S EXCEPT !.src = src, !.dl = dl, !.a4af = a4af,
                    !.other = other, !.unneeded = unneeded]
  <2>1. CASE completely
    BY <2>1, <1>1, StateTypes DEF State
  <2>2. CASE ~completely
    <3>1. L = [S EXCEPT !.src = src, !.dl = dl, !.a4af = [S.a4af EXCEPT ![g] = @ \ {c}]]
      BY <1>1, StateTypes DEF State
    <3>2. L.a4af = [S.a4af EXCEPT ![g] = @ \ {c}] /\ L.other = S.other
          /\ L.unneeded = S.unneeded
      BY <3>1 DEF State
    <3>3. K = [L EXCEPT !.a4af = a4af, !.other = other, !.unneeded = unneeded]
      <4> HIDE DEF L
      <4> QED BY <2>2, <3>2
    <3> HIDE DEF L, K, src, dl, a4af, other, unneeded
    <3> QED BY <3>1, <3>3 DEF State
  <2> QED BY <2>1, <2>2
<1>4. /\ src \in [Files -> SUBSET Clients] /\ dl \in [Files -> SUBSET Clients]
      /\ a4af \in [Files -> SUBSET Clients] /\ other \in [Clients -> SUBSET Files]
      /\ unneeded \in [Clients -> SUBSET Files]
  <2>1. src \in [Files -> SUBSET Clients] /\ dl \in [Files -> SUBSET Clients]
    BY <1>1, StateTypes
  <2>2. CASE completely
    BY <2>1, <2>2, <1>1, StateTypes
  <2>3. CASE ~completely
    <3>1. a4af = [[S.a4af EXCEPT ![g] = @ \ {c}] EXCEPT ![f] = @ \cup {c}]
      BY <2>3
    <3>2. a4af \in [Files -> SUBSET Clients]
      <4> DEFINE m == [S.a4af EXCEPT ![g] = @ \ {c}]
      <4>1. m \in [Files -> SUBSET Clients]
        BY <1>1, StateTypes
      <4>2. a4af = [m EXCEPT ![f] = @ \cup {c}]
        BY <3>1
      <4> HIDE DEF a4af, f, m
      <4> QED BY <4>1, <4>2, <1>1
    <3>3. other = [S.other EXCEPT ![c] = @ \cup {f}]
      BY <2>3
    <3>4. other \in [Clients -> SUBSET Files]
      BY <3>3, <1>1, StateTypes
    <3>5. unneeded \in [Clients -> SUBSET Files]
      <4> DEFINE u == IF S.ds[c] = "noneeded" THEN S.unneeded[c] \cup {f}
                      ELSE S.unneeded[c] \ {f}
      <4>1. unneeded = [S.unneeded EXCEPT ![c] = u]
        BY <2>3
      <4>2. u \in SUBSET Files
        BY <1>1, StateTypes
      <4> HIDE DEF u, unneeded
      <4> QED BY <4>1, <4>2, StateTypes
    <3> QED BY <2>1, <3>2, <3>4, <3>5
  <2> QED BY <2>2, <2>3
<1>5. ASSUME NEW h \in Files
      PROVE  /\ c \in src[h] <=> h # f /\ c \in S.src[h]
             /\ c \in dl[h] <=> h # f /\ c \in S.dl[h]
             /\ c \in a4af[h] <=> (h # g /\ c \in S.a4af[h]) \/ (~completely /\ h = f)
             /\ h \in other[c] <=> h \in S.other[c] \/ (~completely /\ h = f)
  <2>1. /\ c \in src[h] <=> h # f /\ c \in S.src[h]
        /\ c \in dl[h] <=> h # f /\ c \in S.dl[h]
    BY <1>1, StateTypes
  <2>2. CASE completely
    BY <2>1, <2>2, <1>1, StateTypes
  <2>3. CASE ~completely
    <3>1. /\ a4af = [[S.a4af EXCEPT ![g] = @ \ {c}] EXCEPT ![f] = @ \cup {c}]
          /\ other = [S.other EXCEPT ![c] = @ \cup {f}]
      BY <2>3
    <3> HIDE DEF a4af, other, f, src, dl
    <3>2. c \in a4af[h] <=> (h # g /\ c \in S.a4af[h]) \/ h = f
      BY <3>1, <1>1, StateTypes
    <3>3. h \in other[c] <=> h \in S.other[c] \/ h = f
      BY <3>1, <1>1, StateTypes
    <3> QED BY <2>1, <2>3, <3>2, <3>3
  <2> QED BY <2>2, <2>3
<1>6. \A d \in Clients \ {c} :
        /\ other[d] = S.other[d]
        /\ \A h \in Files : /\ d \in src[h] <=> d \in S.src[h]
                            /\ d \in dl[h] <=> d \in S.dl[h]
                            /\ d \in a4af[h] <=> d \in S.a4af[h]
  BY <1>1, StateTypes
<1> HIDE DEF K, src, dl, a4af, other, unneeded, L
<1>7. K \in State
  BY <1>3, <1>4 DEF State
<1>8. /\ K.src = src /\ K.dl = dl /\ K.a4af = a4af /\ K.other = other
      /\ K.req = S.req /\ K.ds = S.ds /\ K.has = S.has /\ K.valid = S.valid
      /\ K.notCurrent = S.notCurrent /\ K.freq = S.freq
      /\ K.phase = S.phase /\ K.stopped = S.stopped /\ SameLife(S, K)
  BY <1>3 DEF State, SameLife
<1>9. Step(S, K, c)
  <2>1. Counted(K)
    BY <1>8, CountedSame
  <2>2. Only(S, K, c)
    BY <1>6, <1>8 DEF Only, SameLife
  <2> QED BY <1>7, <2>1, <2>2 DEF Step
<1>10. "none" \in DownStates
  BY DEF DownStates
<1>11. /\ Step(K, Q, c) /\ SameLists(K, Q) /\ SameLife(K, Q)
       /\ Q.req = K.req /\ Q.ds = [K.ds EXCEPT ![c] = "none"]
       /\ \A h \in Files :
            c \in Q.dl[h] <=>
              IF K.req[c] = h /\ K.ds[c] # "none" /\ "downloading" \in {K.ds[c], "none"}
              THEN "none" = "downloading" ELSE c \in K.dl[h]
  BY <1>9, <1>10, SetDownloadStateStep DEF Step
<1> HIDE DEF Q
<1>12. Q \in State /\ Counted(Q) /\ FALSE \in BOOLEAN
  BY <1>11 DEF Step
<1>13. /\ Step(Q, P, c) /\ SameLists(Q, P) /\ SameLife(Q, P)
       /\ P.dl = Q.dl /\ P.req = Q.req /\ P.ds = Q.ds
  BY <1>12, SetPartsStep, Zenon
<1> HIDE DEF P
<1>14. /\ Step(P, R, c) /\ SameLists(P, R) /\ SameLife(P, R)
       /\ R.dl = P.dl /\ R.ds = P.ds /\ R.req = [P.req EXCEPT ![c] = g]
  BY <1>1, <1>13, SetRequestFileStep DEF Step
<1> HIDE DEF R
<1>15. R \in State /\ P \in State /\ Q \in State
  BY <1>12, <1>13, <1>14 DEF Step
<1>16. Step(S, R, c)
  BY <1>9, <1>11, <1>13, <1>14, OnlyTrans DEF Step
<1>17. /\ R.src = src /\ R.a4af = a4af /\ R.other = other
       /\ R.req[c] = g /\ R.ds[c] = "none" /\ SameLife(S, R)
       /\ \A h \in Files : c \notin R.dl[h]
  <2>1. R.src = src /\ R.a4af = a4af /\ R.other = other
    BY <1>8, <1>11, <1>13, <1>14 DEF SameLists
  <2>2. R.req[c] = g /\ R.ds[c] = "none"
    BY <1>7, <1>11, <1>13, <1>14, <1>15, StateTypes
  <2>3. SameLife(S, R)
    BY <1>8, <1>11, <1>13, <1>14 DEF SameLife
  <2>4. ASSUME NEW h \in Files PROVE c \notin R.dl[h]
    <3>1. c \notin S.dl[h]
      BY <1>1 DEF Fits, Listed
    <3>2. c \notin K.dl[h]
      BY <3>1, <1>5, <1>8
    <3>3. R.dl = Q.dl /\ K.ds[c] # "downloading"
      BY <1>1, <1>8, <1>13, <1>14
    <3> QED BY <3>2, <3>3, <1>11
  <2> QED BY <2>1, <2>2, <2>3, <2>4
<1>18. T = [R EXCEPT !.src = [R.src EXCEPT ![g] = @ \cup {c}],
                     !.other = [R.other EXCEPT ![c] = @ \ {g}],
                     !.unneeded = [R.unneeded EXCEPT ![c] = @ \ {g}]]
  BY <1>15, StateTypes
<1> HIDE DEF T
<1>19. T \in State
  <2>1. /\ [R.src EXCEPT ![g] = @ \cup {c}] \in [Files -> SUBSET Clients]
        /\ [R.other EXCEPT ![c] = @ \ {g}] \in [Clients -> SUBSET Files]
        /\ [R.unneeded EXCEPT ![c] = @ \ {g}] \in [Clients -> SUBSET Files]
    BY <1>1, <1>15, StateTypes
  <2> QED BY <1>15, <1>18, <2>1 DEF State
<1>20. /\ T.src = [R.src EXCEPT ![g] = @ \cup {c}]
       /\ T.other = [R.other EXCEPT ![c] = @ \ {g}]
       /\ T.a4af = R.a4af /\ T.dl = R.dl
       /\ T.req = R.req /\ T.ds = R.ds /\ T.has = R.has /\ T.valid = R.valid
       /\ T.notCurrent = R.notCurrent /\ T.freq = R.freq
       /\ T.phase = R.phase /\ T.stopped = R.stopped /\ SameLife(R, T)
  BY <1>15, <1>18 DEF State, SameLife
<1>21. Step(S, T, c)
  <2>1. Counted(T)
    BY <1>16, <1>20, CountedSame DEF Step
  <2>2. Only(R, T, c)
    BY <1>1, <1>15, <1>20, StateTypes DEF Only, SameLife
  <2> QED BY <1>16, <1>19, <2>1, <2>2, OnlyTrans DEF Step
<1>22. ASSUME NEW h \in Files
       PROVE  /\ c \in T.src[h] <=> h = g
              /\ c \in T.a4af[h] <=> h \in T.other[c]
              /\ h \in T.other[c] <=>
                   h # g /\ (h \in S.other[c] \/ (~completely /\ h = f))
  <2>1. /\ c \in T.src[h] <=> h = g \/ c \in src[h]
        /\ h \in T.other[c] <=> h # g /\ h \in other[c]
        /\ T.a4af = a4af
    BY <1>1, <1>15, <1>17, <1>20, StateTypes
  <2>2. /\ c \in S.src[h] <=> h = f
        /\ c \in S.a4af[h] <=> h \in S.other[c]
    BY DEF Fits, Listed
  <2>3. f # g
    BY <1>1
  <2> HIDE DEF f
  <2> QED BY <1>5, <2>1, <2>2, <2>3
<1>23. /\ T.req[c] = g /\ T.ds[c] = "none"
       /\ T.sock = S.sock /\ T.asked = S.asked /\ T.alive = S.alive
  BY <1>17, <1>20 DEF SameLife
<1>24. Listed(T, c)
  <2>1. ASSUME NEW h \in Files
        PROVE  /\ c \in T.src[h] <=> T.req[c] = h
               /\ c \in T.a4af[h] <=> h \in T.other[c]
               /\ c \in T.dl[h] <=> T.req[c] = h /\ T.ds[c] = "downloading"
               /\ h \in T.other[c] => T.req[c] \notin {h, None}
    <3>1. c \notin T.dl[h]
      BY <1>17, <1>20
    <3>2. g # None
      BY <1>1
    <3> HIDE DEF f
    <3> QED BY <3>1, <3>2, <1>22, <1>23
  <2> QED BY <2>1 DEF Listed
<1>25. Behaves(T, c)
  BY <1>1, <1>23 DEF Behaves, Fits
<1>26. \A h \in T.other[c] : h \in S.other[c] \/ (h = f /\ ~completely)
  <2>1. T.other[c] \in SUBSET Files
    BY <1>19, StateTypes
  <2> HIDE DEF f
  <2> QED BY <1>22, <2>1
<1> QED BY <1>2, <1>21, <1>23, <1>24, <1>25, <1>26 DEF Fits

-----------------------------------------------------------------------------
(***************************************************************************)
(* What a handler does, and that it keeps the invariant.                    *)
(***************************************************************************)
\* c is moved to no stopped file, and can be swapped to no stopped file that it
\* did not belong to before.
Moves(S, T, c) ==
  /\ Step(S, T, c) /\ Fits(T, c)
  /\ T.req[c] \in {None, S.req[c]} \cup (Files \ S.stopped)
  /\ T.other[c] \subseteq S.other[c] \cup {S.req[c]} \cup (Files \ S.stopped)

\* A step about c leaves what is known of the other clients.
LEMMA OthersFit ==
  ASSUME NEW S, NEW T, NEW c, NEW d \in Clients \ {c}, Only(S, T, c)
  PROVE  /\ Fits(S, d) => Fits(T, d)
         /\ T.req[d] = S.req[d] /\ T.other[d] = S.other[d]
BY DEF Only, Fits, Listed, Behaves

\* What the invariant says of one peer.
LEMMA InvOne ==
  ASSUME NEW S, NEW j, Inv(S, j), NEW c \in Clients
  PROVE  /\ S \in State /\ Counted(S)
         /\ Fits(S, c) /\ Left(S, j, c) /\ FreeOfGone(S, c)
BY DEF Inv, Left, Ended, FreeOfGone

\* Moves between steps that keep the invariant keep it too.
LEMMA MovesKeeps ==
  ASSUME NEW S, Inv(S, None), NEW T, NEW c \in Clients, Moves(S, T, c)
  PROVE  Inv(T, None)
<1>1. /\ T \in State /\ Counted(T) /\ Only(S, T, c) /\ Fits(T, c)
      /\ T.phase = S.phase /\ T.stopped = S.stopped
  BY DEF Moves, Step, Only
<1>2. ASSUME NEW d \in Clients
      PROVE  Fits(T, d) /\ Left(T, None, d)
  <2>1. S \in State /\ Fits(S, d) /\ Left(S, None, d)
    BY InvOne
  <2>2. CASE d = c
    <3>1. None \notin Files /\ S.stopped \in SUBSET Files
      BY <2>1, StateTypes, SourcesAssumption
    <3>2. Left(T, None, c)
      BY <1>1, <2>1, <2>2, <3>1 DEF Moves, Left
    <3> QED BY <1>1, <2>2, <3>2
  <2>3. CASE d # c
    BY <1>1, <2>1, <2>3, OthersFit DEF Left
  <2> QED BY <2>2, <2>3
<1> QED BY <1>1, <1>2 DEF Inv, Ended, Jobs

\* A step that leaves c where it is.
LEMMA StayMoves ==
  ASSUME NEW S, NEW T, NEW c \in Clients, Step(S, T, c), Fits(T, c),
         Out(T, c) \/ (T.req[c] = S.req[c] /\ T.other[c] = S.other[c])
  PROVE  Moves(S, T, c)
BY DEF Moves, Out

\* What the invariant does not speak of may change.
Aside(S, T) ==
  /\ SameLists(S, T) /\ T.alive = S.alive /\ T.sock = S.sock
  /\ T.dl = S.dl /\ T.req = S.req /\ T.ds = S.ds /\ T.has = S.has
  /\ T.valid = S.valid /\ T.notCurrent = S.notCurrent /\ T.freq = S.freq
  /\ T.phase = S.phase /\ T.stopped = S.stopped

\* A source put aside (A4AF) is a legal move.
LEMMA AsideMoves ==
  ASSUME NEW S, NEW j, Inv(S, j), NEW T \in State, Aside(S, T), NEW c \in Clients,
         \A d \in Clients \ {c} : T.asked[d] = S.asked[d],
         T.asked[c] # <<>> => S.asked[c] # <<>>
  PROVE  Moves(S, T, c)
<1>1. Fits(S, c)
  BY InvOne
<1>2. Counted(T)
  BY CountedSame DEF Aside, Inv
<1>3. Only(S, T, c)
  BY DEF Aside, Only, SameLists
<1>4. Fits(T, c)
  BY <1>1 DEF Aside, Fits, Listed, Behaves, SameLists
<1> QED BY <1>2, <1>3, <1>4 DEF Moves, Step, Aside, SameLists

\* A peer becomes a client.
LEMMA NewClientMoves ==
  ASSUME NEW S, Inv(S, None), NEW c \in Clients
  PROVE  LET T == NewClient(S, c) IN
         /\ Moves(S, T, c) /\ c \in T.alive
         /\ T.stopped = S.stopped /\ T.ds = S.ds /\ T.req = S.req
<1> DEFINE T == NewClient(S, c)
<1>1. S \in State /\ Counted(S) /\ Fits(S, c)
  BY InvOne
<1>2. T = [S EXCEPT !.alive = S.alive \cup {c}]
  BY DEF NewClient
<1> HIDE DEF T
<1>3. T \in State
  BY <1>1, <1>2 DEF State
<1>4. /\ T.alive = S.alive \cup {c} /\ T.sock = S.sock /\ T.asked = S.asked
      /\ T.dl = S.dl /\ T.req = S.req /\ T.ds = S.ds /\ T.has = S.has
      /\ T.valid = S.valid /\ T.notCurrent = S.notCurrent /\ T.freq = S.freq
      /\ T.phase = S.phase /\ T.stopped = S.stopped /\ SameLists(S, T)
  BY <1>1, <1>2 DEF State, SameLists
<1>5. Step(S, T, c)
  BY <1>1, <1>3, <1>4, CountedSame DEF Step, Only, SameLists
<1>6. Fits(T, c)
  BY <1>1, <1>4 DEF Fits, Listed, Behaves, SameLists
<1> QED BY <1>4, <1>5, <1>6 DEF Moves, SameLists, T

\* The common end of CheckAndAddSource and CheckAndAddKnownSource.
LEMMA AttachMoves ==
  ASSUME NEW S, Inv(S, None), NEW c \in Clients, c \in S.alive,
         NEW f \in Files \ S.stopped
  PROVE  Moves(S, Attach(S, c, f), c)
<1> DEFINE T == Attach(S, c, f)
<1>1. S \in State /\ Counted(S) /\ Fits(S, c)
  BY InvOne
<1>2. CASE S.req[c] = None
  <2> DEFINE R == SetRequestFile(S, c, f)
  <2>1. /\ Step(S, R, c) /\ SameLists(S, R) /\ SameLife(S, R)
        /\ R.dl = S.dl /\ R.ds = S.ds /\ R.req = [S.req EXCEPT ![c] = f]
    BY <1>1, SetRequestFileStep
  <2>2. T = [R EXCEPT !.src[f] = @ \cup {c}]
    BY <1>2 DEF Attach
  <2> HIDE DEF R, T
  <2>3. R \in State
    BY <2>1 DEF Step
  <2>4. T = [R EXCEPT !.src = [R.src EXCEPT ![f] = @ \cup {c}]]
    BY <2>2, <2>3, StateTypes
  <2>5. [R.src EXCEPT ![f] = @ \cup {c}] \in [Files -> SUBSET Clients]
    BY <2>3, StateTypes
  <2>6. T \in State
    BY <2>3, <2>4, <2>5 DEF State
  <2>7. /\ T.src = [R.src EXCEPT ![f] = @ \cup {c}]
        /\ T.a4af = R.a4af /\ T.other = R.other /\ SameLife(R, T)
        /\ T.dl = R.dl /\ T.req = R.req /\ T.ds = R.ds /\ T.has = R.has
        /\ T.valid = R.valid /\ T.notCurrent = R.notCurrent /\ T.freq = R.freq
        /\ T.phase = R.phase /\ T.stopped = R.stopped
    BY <2>3, <2>4 DEF State, SameLife
  <2>8. Counted(T)
    BY <2>1, <2>7, CountedSame DEF Step
  <2>9. Only(R, T, c)
    BY <2>3, <2>7, StateTypes DEF Only, SameLife
  <2>10. Step(S, T, c)
    BY <2>1, <2>6, <2>8, <2>9, OnlyTrans DEF Step
  <2>11. /\ T.req[c] = f /\ T.ds[c] = "none" /\ T.other = S.other
         /\ \A g \in Files : c \in T.src[g] <=> g = f \/ c \in S.src[g]
         /\ T.a4af = S.a4af /\ T.dl = S.dl /\ SameLife(S, T)
    BY <1>1, <1>2, <2>1, <2>3, <2>7, StateTypes
       DEF SameLists, SameLife, Fits, Behaves
  <2>12. \A g \in Files : g \notin S.other[c] /\ c \notin S.src[g]
                          /\ c \notin S.a4af[g] /\ c \notin S.dl[g]
    BY <1>1, <1>2, SourcesAssumption DEF Fits, Listed
  <2>13. S.other[c] = {}
    BY <1>1, <2>12, StateTypes
  <2>14. Listed(T, c)
    BY <2>11, <2>12 DEF Listed
  <2>15. Behaves(T, c)
    BY <1>1, <2>11, SourcesAssumption DEF Behaves, Fits, SameLife
  <2> QED BY <2>10, <2>11, <2>13, <2>14, <2>15 DEF Moves, Fits, T
<1>3. CASE S.req[c] = f
  <2>1. T = S
    BY <1>3, SourcesAssumption DEF Attach
  <2> QED BY <1>1, <2>1 DEF Moves, Step, Only
<1>4. CASE S.req[c] \notin {None, f}
  <2>1. T = [S EXCEPT !.other = [S.other EXCEPT ![c] = @ \cup {f}],
                      !.a4af = [S.a4af EXCEPT ![f] = @ \cup {c}]]
    BY <1>1, <1>4, StateTypes DEF Attach, AddRequestForAnotherFile
  <2> HIDE DEF T
  <2>2. /\ [S.other EXCEPT ![c] = @ \cup {f}] \in [Clients -> SUBSET Files]
        /\ [S.a4af EXCEPT ![f] = @ \cup {c}] \in [Files -> SUBSET Clients]
    BY <1>1, StateTypes
  <2>3. T \in State
    BY <1>1, <2>1, <2>2 DEF State
  <2>4. /\ T.other = [S.other EXCEPT ![c] = @ \cup {f}]
        /\ T.a4af = [S.a4af EXCEPT ![f] = @ \cup {c}]
        /\ T.src = S.src /\ SameLife(S, T)
        /\ T.dl = S.dl /\ T.req = S.req /\ T.ds = S.ds /\ T.has = S.has
        /\ T.valid = S.valid /\ T.notCurrent = S.notCurrent /\ T.freq = S.freq
        /\ T.phase = S.phase /\ T.stopped = S.stopped
    BY <1>1, <2>1 DEF State, SameLife
  <2>5. Counted(T)
    BY <1>1, <2>4, CountedSame
  <2>6. Only(S, T, c)
    BY <1>1, <2>4, StateTypes DEF Only, SameLife
  <2>7. ASSUME NEW g \in Files
        PROVE  /\ c \in T.a4af[g] <=> g = f \/ c \in S.a4af[g]
               /\ g \in T.other[c] <=> g = f \/ g \in S.other[c]
    BY <1>1, <2>4, StateTypes
  <2>8. Listed(T, c)
    BY <1>1, <1>4, <2>4, <2>7, SourcesAssumption DEF Fits, Listed
  <2>9. Behaves(T, c)
    BY <1>1, <2>4 DEF Fits, Behaves, SameLife
  <2>10. T.other[c] \subseteq S.other[c] \cup {f}
    BY <1>1, <2>4, StateTypes
  <2> QED BY <2>3, <2>4, <2>5, <2>6, <2>8, <2>9, <2>10 DEF Moves, Step, Fits, T
<1> QED BY <1>2, <1>3, <1>4

\* The request goes out on a connection that is up.
LEMMA ConnectionEstablishedStep ==
  ASSUME NEW S \in State, Counted(S), NEW c \in Clients, Listed(S, c),
         S.sock[c] = "up", c \in S.alive,
         S.req[c] = None => S.ds[c] = "none"
  PROVE  LET T == ConnectionEstablished(S, c) IN
         /\ Step(S, T, c) /\ Fits(T, c)
         /\ T.req[c] = S.req[c] /\ T.other[c] = S.other[c]
<1> DEFINE A == SetDownloadState(S, c, "connected")
           T == SendFileRequest(A, c)
<1>1. CASE S.ds[c] # "connecting"
  <2>1. ConnectionEstablished(S, c) = S
    BY <1>1 DEF ConnectionEstablished
  <2>2. Fits(S, c)
    BY <1>1 DEF Fits, Behaves
  <2> QED BY <2>1, <2>2 DEF Step, Only
<1>2. CASE S.ds[c] = "connecting"
  <2>1. ConnectionEstablished(S, c) = T
    BY <1>2 DEF ConnectionEstablished
  <2>2. /\ Step(S, A, c) /\ Listed(A, c) /\ SameLife(S, A)
        /\ A.req = S.req /\ A.other = S.other /\ A.ds[c] = "connected"
    <3>1. "connected" \in DownStates
      BY DEF DownStates
    <3> QED BY <3>1, NewStateFits
  <2> HIDE DEF A
  <2>3. A \in State /\ A.req[c] \in Files
    BY <1>2, <2>2, StateTypes DEF Step
  <2>4. Append(A.asked[c], A.req[c]) \in Seq(Files)
    BY <2>3, StateTypes
  <2>5. T = [A EXCEPT !.asked = [A.asked EXCEPT ![c] = Append(A.asked[c], A.req[c])]]
    BY <2>3, StateTypes DEF SendFileRequest
  <2> HIDE DEF T
  <2>6. T \in State
    <3> DEFINE q == Append(A.asked[c], A.req[c])
    <3> HIDE DEF q
    <3>1. T = [A EXCEPT !.asked = [A.asked EXCEPT ![c] = q]]
      BY <2>5 DEF q
    <3>2. q \in Seq(Files)
      BY <2>4 DEF q
    <3> QED BY <2>3, <3>1, <3>2 DEF State
  <2>7. /\ SameLists(A, T) /\ T.alive = A.alive /\ T.sock = A.sock
        /\ T.dl = A.dl /\ T.req = A.req /\ T.ds = A.ds /\ T.has = A.has
        /\ T.valid = A.valid /\ T.notCurrent = A.notCurrent /\ T.freq = A.freq
        /\ T.phase = A.phase /\ T.stopped = A.stopped
        /\ \A d \in Clients \ {c} : T.asked[d] = A.asked[d]
    BY <2>3, <2>5, StateTypes DEF State, SameLists
  <2>8. Step(A, T, c)
    BY <2>2, <2>6, <2>7, CountedSame DEF Step, Only, SameLists
  <2>9. Step(S, T, c)
    BY <2>2, <2>8, OnlyTrans DEF Step
  <2>10. Listed(T, c)
    BY <2>2, <2>7 DEF Listed, SameLists
  <2>11. Behaves(T, c)
    BY <1>2, <2>2, <2>7 DEF Behaves, SameLife
  <2> QED BY <2>1, <2>2, <2>7, <2>9, <2>10, <2>11 DEF Fits, SameLists
<1> QED BY <1>1, <1>2

\* A part status is read.
LEMMA StatusReadStep ==
  ASSUME NEW S \in State, Counted(S), NEW c \in Clients, Fits(S, c),
         S.req[c] # None, NEW h \in BOOLEAN
  PROVE  LET T == StatusRead(S, c, h) IN
         /\ Step(S, T, c) /\ Fits(T, c)
         /\ T.req = S.req /\ T.other = S.other
<1> DEFINE R == SetParts(S, c, h)
           d == IF h THEN "onqueue" ELSE "noneeded"
           T == SetDownloadState(R, c, d)
<1>1. /\ Step(S, R, c) /\ SameLists(S, R) /\ SameLife(S, R)
      /\ R.dl = S.dl /\ R.req = S.req /\ R.ds = S.ds
  BY SetPartsStep
<1>2. T = StatusRead(S, c, h)
  BY DEF StatusRead
<1> HIDE DEF R
<1>3. Fits(R, c)
  BY <1>1 DEF Fits, Listed, Behaves, SameLists, SameLife
<1>4. d \in DownStates /\ d \notin {"connecting", "connected"}
  BY DEF DownStates
<1> HIDE DEF d
<1>5. /\ Step(R, T, c) /\ T.req = R.req /\ T.other = R.other
      /\ Behaves(R, c) /\ d \notin {"connecting", "connected"}
           /\ (R.req[c] = None => d = "none") => Fits(T, c)
  BY <1>1, <1>3, <1>4, NewStateFits DEF Step, Fits
<1> HIDE DEF T
<1> QED BY <1>1, <1>2, <1>3, <1>4, <1>5, OnlyTrans DEF Step, Fits, SameLists

\* The states that wait for no connection.
Plain == DownStates \ {"connecting", "connected", "none"}

\* A download state given to a living source is a legal move.
LEMMA NewStateMoves ==
  ASSUME NEW S, Inv(S, None), NEW c \in Clients, NEW d \in Plain \cup {"none"},
         S.req[c] = None => d = "none"
  PROVE  Moves(S, SetDownloadState(S, c, d), c)
<1>1. S \in State /\ Counted(S) /\ Fits(S, c)
  BY InvOne
<1>2. d \in DownStates /\ d \notin {"connecting", "connected"}
  BY DEF Plain, DownStates
<1> QED BY <1>1, <1>2, NewStateFits, StayMoves DEF Fits

\* A failure that drops the client.
LEMMA FailMoves ==
  ASSUME NEW S, Inv(S, None), NEW c \in S.alive,
         NEW d \in {"connecting", "error", "banned"}
  PROVE  Moves(S, Disconnect(SetDownloadState(S, c, d), c), c)
<1> DEFINE R == SetDownloadState(S, c, d)
           T == Disconnect(R, c)
<1>1. /\ c \in Clients /\ S \in State /\ Counted(S) /\ Fits(S, c) /\ FreeOfGone(S, c)
  BY InvOne, StateTypes DEF Inv
<1>2. d \in DownStates
  BY DEF DownStates
<1>3. /\ Step(S, R, c) /\ Listed(R, c) /\ SameLife(S, R)
      /\ R.req = S.req /\ R.other = S.other /\ R.ds[c] = d
  BY <1>1, <1>2, NewStateFits DEF Fits
<1> HIDE DEF R
<1>4. FreeOfGone(R, c) /\ Failed(R, c) /\ c \in R.alive
  BY <1>1, <1>3 DEF FreeOfGone, Failed, SameLife, Step, Only
<1>5. /\ Step(R, T, c) /\ Fits(T, c)
      /\ Out(T, c) \/ (T.req[c] = R.req[c] /\ T.other[c] = R.other[c])
  BY <1>1, <1>3, <1>4, DisconnectStep DEF Step
<1> HIDE DEF T
<1>6. Step(S, T, c)
  BY <1>3, <1>5, OnlyTrans DEF Step
<1> QED BY <1>1, <1>3, <1>5, <1>6, StayMoves DEF T, R

\* Disconnected, SafeDelete, RemoveSource and Purge.
LEMMA LeavingMoves ==
  ASSUME NEW S, Inv(S, None), NEW c \in Clients
  PROVE  /\ Moves(S, Disconnect(S, c), c)
         /\ c \in S.alive => Moves(S, SafeDelete(S, c), c)
         /\ Moves(S, RemoveSource(S, c), c)
         /\ Moves(S, Purge(S, c), c)
<1>1. /\ S \in State /\ Counted(S) /\ Fits(S, c) /\ FreeOfGone(S, c)
      /\ Listed(S, c) /\ Behaves(S, c)
  BY InvOne DEF Fits
<1>2. Moves(S, Disconnect(S, c), c)
  BY <1>1, DisconnectStep, StayMoves DEF Behaves
<1>3. c \in S.alive => Moves(S, SafeDelete(S, c), c)
  BY <1>1, SafeDeleteStep, StayMoves
<1>4. Moves(S, RemoveSource(S, c), c)
  <2> DEFINE T == RemoveSource(S, c)
  <2>1. Step(S, T, c) /\ SameLife(S, T) /\ Out(T, c)
    BY <1>1, RemoveSourceStep
  <2> HIDE DEF T
  <2>2. Fits(T, c)
    BY <1>1, <2>1, SourcesAssumption DEF Fits, Listed, Behaves, Out, SameLife
  <2> QED BY <2>1, <2>2, StayMoves DEF T
<1>5. Moves(S, Purge(S, c), c)
  BY <1>1, PurgeStep, StayMoves
<1> QED BY <1>2, <1>3, <1>4, <1>5

\* What SwapToAnotherFile can do, whatever it counts.
LEMMA SwapsMove ==
  ASSUME NEW S, NEW j, Inv(S, j), NEW c \in Clients, MaySwap(S, c),
         NEW ignore \in BOOLEAN, NEW U \in SUBSET Targets(S, c, ignore),
         NEW g \in Preferred(S, c, U), NEW completely \in BOOLEAN
  PROVE  LET T == SwapTo(S, c, g, completely) IN
         /\ Moves(S, T, c) /\ T.req[c] \in Files \ S.stopped
         /\ completely => T.other[c] \subseteq S.other[c]
<1> DEFINE T == SwapTo(S, c, g, completely)
<1>1. S \in State /\ Counted(S) /\ Fits(S, c)
  BY InvOne
<1>2. g \in S.other[c] /\ g \in Files /\ g \notin S.stopped
  BY <1>1, StateTypes DEF Preferred, Targets
<1>3. /\ Step(S, T, c) /\ Fits(T, c) /\ T.req[c] = g
      /\ \A h \in T.other[c] :
           h \in S.other[c] \/ (h = S.req[c] /\ ~completely)
  BY <1>1, <1>2, SwapToStep
<1> HIDE DEF T
<1> QED BY <1>2, <1>3 DEF Moves, T

\* Any of the swaps a search for a better file may end in is a legal move.
LEMMA SwapsAmongMove ==
  ASSUME NEW S, Inv(S, None), NEW c \in Clients, NEW ignore \in BOOLEAN,
         NEW U \in SUBSET Targets(S, c, ignore), NEW T \in SwapsAmong(S, c, U)
  PROVE  Moves(S, T, c)
<1>1. MaySwap(S, c) /\ \E g \in Preferred(S, c, U) : T = SwapTo(S, c, g, FALSE)
  BY DEF SwapsAmong
<1>2. PICK g \in Preferred(S, c, U) : T = SwapTo(S, c, g, FALSE)
  BY <1>1
<1>3. FALSE \in BOOLEAN
  OBVIOUS
<1> QED BY <1>1, <1>2, <1>3, SwapsMove, Zenon

-----------------------------------------------------------------------------
(***************************************************************************)
(* The actions.                                                             *)
(***************************************************************************)
\* A handler outside of the loop.
LEMMA HandlerKeeps ==
  ASSUME IInv, Idle, UNCHANGED job, NEW c \in Clients, Moves(s, s', c)
  PROVE  IInv'
<1>1. job = None /\ job' = None
  BY DEF Idle
<1>2. Inv(s, None)
  BY <1>1 DEF IInv
<1>3. Inv(s', None)
  BY <1>2, MovesKeeps
<1> QED BY <1>1, <1>3 DEF IInv

\* Between handlers no eviction is half done.
LEMMA IdleInv == ASSUME IInv, Idle PROVE Inv(s, None) /\ s \in State
BY DEF IInv, Idle, Inv

\* Sources found by a server, by Kad, by a client or in a saved list.
LEMMA FindKeeps ==
  ASSUME IInv, NEW c \in Clients, NEW f \in Files,
         FoundSource(c, f) \/ KnownSource(c, f)
  PROVE  IInv'
<1>1. Idle /\ UNCHANGED job /\ f \in Files \ s.stopped
  BY DEF FoundSource, KnownSource
<1>2. Inv(s, None)
  BY <1>1, IdleInv
<1>3. CASE FoundSource(c, f)
  <2> DEFINE B == NewClient(s, c)
             T == Attach(B, c, f)
  <2>1. /\ Moves(s, B, c) /\ c \in B.alive /\ B.stopped = s.stopped
    BY <1>2, NewClientMoves
  <2>2. s' = T
    BY <1>3 DEF FoundSource
  <2> HIDE DEF B
  <2>3. Inv(B, None)
    BY <1>2, <2>1, MovesKeeps
  <2>4. Moves(B, T, c)
    BY <1>1, <2>1, <2>3, AttachMoves
  <2> HIDE DEF T
  <2>5. Inv(T, None)
    BY <2>3, <2>4, MovesKeeps
  <2> QED BY <1>1, <2>2, <2>5 DEF IInv, Idle
<1>4. CASE KnownSource(c, f)
  <2>1. s' = Attach(s, c, f) /\ c \in s.alive
    BY <1>4 DEF KnownSource
  <2>2. Moves(s, s', c)
    BY <1>1, <1>2, <2>1, AttachMoves
  <2> QED BY <1>1, <2>2, HandlerKeeps
<1> QED BY <1>3, <1>4

\* A visited source is alive and asked for the file.
LEMMA Visited ==
  ASSUME IInv, NEW c \in Clients, NEW f \in Files, Visits(c, f)
  PROVE  Idle /\ Inv(s, None) /\ s.req[c] = f /\ c \in s.alive /\ f # None
<1>1. Idle /\ Inv(s, None) /\ c \in s.src[f] /\ f # None
  BY IdleInv, SourcesAssumption DEF Visits
<1>2. Fits(s, c)
  BY <1>1, InvOne
<1> QED BY <1>1, <1>2 DEF Fits, Listed, Behaves

\* AskForDownload: the dial, the request on a connection that is up, or the end.
LEMMA AskKeeps ==
  ASSUME IInv, NEW c \in Clients, NEW f \in Files, Ask(c, f)
  PROVE  IInv'
<1>1. /\ Visits(c, f) /\ UNCHANGED job
      /\ \/ s' = SetDownloadState(s, c, "toomany")
         \/ s' = TryToConnect(StartAsking(s, c), c)
         \/ s' = Disconnect(StartAsking(s, c), c)
  BY DEF Ask
<1>2. Idle /\ Inv(s, None) /\ s.req[c] = f /\ c \in s.alive /\ f # None
  BY <1>1, Visited
<1>3. s \in State
  BY <1>2, InvOne
<1>4. CASE s' = SetDownloadState(s, c, "toomany")
  <2>1. Moves(s, s', c)
    BY <1>2, <1>4, NewStateMoves DEF Plain, DownStates
  <2> QED BY <1>1, <1>2, <2>1, HandlerKeeps
<1> DEFINE B == [s EXCEPT !.pending = @ \ {c}]
           A == SetDownloadState(B, c, "connecting")
<1>5. B \in State
  BY <1>3 DEF State
<1>6. Aside(s, B) /\ B.asked = s.asked
  BY <1>3 DEF State, Aside, SameLists
<1>7. A = StartAsking(s, c)
  BY DEF StartAsking
<1> HIDE DEF B
<1>8. Moves(s, B, c)
  BY <1>2, <1>5, <1>6, AsideMoves
<1>9. Inv(B, None) /\ c \in B.alive /\ B.req[c] = f
  BY <1>2, <1>6, <1>8, MovesKeeps DEF Aside
<1>10. CASE s' = Disconnect(StartAsking(s, c), c)
  <2>1. Moves(B, s', c)
    BY <1>7, <1>9, <1>10, FailMoves
  <2>2. Inv(s', None)
    BY <1>9, <2>1, MovesKeeps
  <2> QED BY <1>1, <1>2, <2>2 DEF IInv, Idle
<1>11. CASE s' = TryToConnect(StartAsking(s, c), c)
  <2>1. B \in State /\ Counted(B) /\ Fits(B, c)
    BY <1>9, InvOne
  <2>2. /\ Step(B, A, c) /\ Listed(A, c) /\ SameLife(B, A)
        /\ A.req = B.req /\ A.other = B.other /\ A.ds[c] = "connecting"
    <3>1. "connecting" \in DownStates
      BY DEF DownStates
    <3> QED BY <2>1, <3>1, NewStateFits DEF Fits
  <2> HIDE DEF A
  <2>3. A \in State /\ Counted(A)
    BY <2>2 DEF Step
  <2>4. CASE IsConnected(A, c)
    <3> DEFINE T == ConnectionEstablished(A, c)
    <3>1. s' = T
      BY <1>7, <1>11, <2>4 DEF TryToConnect
    <3>2. /\ Step(A, T, c) /\ Fits(T, c)
          /\ T.req[c] = A.req[c] /\ T.other[c] = A.other[c]
      BY <1>2, <1>9, <2>2, <2>3, <2>4, ConnectionEstablishedStep
         DEF IsConnected, SameLife
    <3> HIDE DEF T
    <3>3. Moves(B, T, c)
      BY <2>2, <3>2, OnlyTrans, StayMoves DEF Step
    <3>4. Inv(T, None)
      BY <1>9, <3>3, MovesKeeps
    <3> QED BY <1>1, <1>2, <3>1, <3>4 DEF IInv, Idle
  <2>5. CASE ~IsConnected(A, c)
    <3> DEFINE T == [A EXCEPT !.sock = [A.sock EXCEPT ![c] = "dialling"]]
    <3>1. s' = T
      BY <1>7, <1>11, <2>3, <2>5, StateTypes DEF TryToConnect
    <3>2. T \in State
      BY <2>3 DEF State, Sockets
    <3>3. /\ T.sock = [A.sock EXCEPT ![c] = "dialling"]
          /\ SameLists(A, T) /\ T.alive = A.alive /\ T.asked = A.asked
          /\ T.dl = A.dl /\ T.req = A.req /\ T.ds = A.ds /\ T.has = A.has
          /\ T.valid = A.valid /\ T.notCurrent = A.notCurrent /\ T.freq = A.freq
          /\ T.phase = A.phase /\ T.stopped = A.stopped
      BY <2>3 DEF State, SameLists
    <3> HIDE DEF T
    <3>4. Step(A, T, c)
      BY <2>3, <3>2, <3>3, CountedSame, StateTypes DEF Step, Only, SameLists
    <3>5. Step(B, T, c)
      BY <2>2, <3>4, OnlyTrans DEF Step
    <3>6. A.asked[c] = <<>>
      BY <2>1, <2>2, <2>5 DEF Fits, Behaves, IsConnected, SameLife
    <3>7. Fits(T, c)
      <4>1. T.sock[c] = "dialling" /\ T.ds[c] = "connecting"
        BY <2>2, <2>3, <3>3, StateTypes
      <4> QED BY <1>2, <1>9, <2>2, <3>3, <3>6, <4>1
              DEF Fits, Listed, Behaves, SameLists, SameLife
    <3>8. Moves(B, T, c)
      BY <2>2, <3>3, <3>5, <3>7, StayMoves DEF SameLists
    <3>9. Inv(T, None)
      BY <1>9, <3>8, MovesKeeps
    <3> QED BY <1>1, <1>2, <3>1, <3>9 DEF IInv, Idle
  <2> QED BY <2>4, <2>5
<1> QED BY <1>1, <1>4, <1>10, <1>11

\* The other visits of CPartFile::Process and of the swapping rounds.
LEMMA ProcessKeeps ==
  ASSUME IInv, NEW c \in Clients, NEW f \in Files,
         \/ Ping(c, f) \/ DropFullQueue(c, f) \/ NoNeeded(c, f)
         \/ PullA4AF(c, f) \/ SwapHere(c, f) \/ SwapAway(c, f)
  PROVE  IInv'
<1>1. Idle /\ UNCHANGED job
  BY DEF Ping, DropFullQueue, NoNeeded, PullA4AF, SwapHere, SwapAway, Visits
<1>2. Inv(s, None) /\ s \in State
  BY <1>1, IdleInv
<1> DEFINE Ways == \/ \E i \in BOOLEAN : \E U \in SUBSET Targets(s, c, i) :
                        s' \in SwapsAmong(s, c, U)
                   \/ s' = Purge(s, c)
                   \/ s' = SetDownloadState(s, c, "none")
<1>3. Ways => Moves(s, s', c)
  <2>1. ASSUME NEW i \in BOOLEAN, NEW U \in SUBSET Targets(s, c, i),
               s' \in SwapsAmong(s, c, U)
        PROVE  Moves(s, s', c)
    BY <1>2, <2>1, SwapsAmongMove
  <2>2. Moves(s, Purge(s, c), c)
    BY <1>2, LeavingMoves
  <2>3. Moves(s, SetDownloadState(s, c, "none"), c)
    BY <1>2, NewStateMoves
  <2> QED BY <2>1, <2>2, <2>3
<1>4. ~Ping(c, f) => Ways
  <2>1. DropFullQueue(c, f) => Ways
    BY DEF DropFullQueue
  <2>2. NoNeeded(c, f) \/ SwapAway(c, f) => Ways
    <3>1. FALSE \in BOOLEAN
      OBVIOUS
    <3> QED BY <3>1, Zenon DEF NoNeeded, SwapAway
  <2>3. ASSUME NEW i \in BOOLEAN, s' \in SwapsAmong(s, c, Targets(s, c, i) \cap {f})
        PROVE  Ways
    <3>1. Targets(s, c, i) \cap {f} \in SUBSET Targets(s, c, i)
      OBVIOUS
    <3> QED BY <2>3, <3>1, Zenon
  <2>4. PullA4AF(c, f) => Ways
    <3>1. FALSE \in BOOLEAN
      OBVIOUS
    <3> QED BY <2>3, <3>1, Zenon DEF PullA4AF
  <2>5. SwapHere(c, f) => Ways
    <3>1. TRUE \in BOOLEAN
      OBVIOUS
    <3> QED BY <2>3, <3>1, Zenon DEF SwapHere
  <2> QED BY <2>1, <2>2, <2>4, <2>5
<1>5. Ping(c, f) => Moves(s, s', c)
  <2>1. SUFFICES ASSUME Ping(c, f) PROVE Moves(s, s', c)
    OBVIOUS
  <2>2. s' = [s EXCEPT !.pending = s.pending \cup {c},
                       !.pinged = [s.pinged EXCEPT ![c] = @ \cup {f}]]
    BY <1>2, <2>1, StateTypes DEF Ping
  <2>3. [s.pinged EXCEPT ![c] = @ \cup {f}] \in [Clients -> SUBSET Files]
    BY <1>2, StateTypes
  <2>4. s' \in State
    BY <1>2, <2>2, <2>3 DEF State
  <2>5. Aside(s, s') /\ s'.asked = s.asked
    BY <1>2, <2>2 DEF State, Aside, SameLists
  <2> QED BY <1>2, <2>4, <2>5, AsideMoves
<1> HIDE DEF Ways
<1>6. Moves(s, s', c)
  BY <1>3, <1>4, <1>5
<1> QED BY <1>1, <1>6, HandlerKeeps

\* A connection comes up, dialled or accepted.
LEMMA UpMoves ==
  ASSUME NEW S, Inv(S, None), NEW c \in Clients, c \in S.alive
  PROVE  Moves(S, ConnectionEstablished([S EXCEPT !.sock[c] = "up"], c), c)
<1> DEFINE R == [S EXCEPT !.sock[c] = "up"]
           T == ConnectionEstablished(R, c)
<1>1. S \in State /\ Counted(S) /\ Fits(S, c)
  BY InvOne
<1>2. R = [S EXCEPT !.sock = [S.sock EXCEPT ![c] = "up"]]
  BY <1>1, StateTypes
<1> HIDE DEF R
<1>3. R \in State
  BY <1>1, <1>2 DEF State, Sockets
<1>4. /\ R.sock = [S.sock EXCEPT ![c] = "up"]
      /\ SameLists(S, R) /\ R.alive = S.alive /\ R.asked = S.asked
      /\ R.dl = S.dl /\ R.req = S.req /\ R.ds = S.ds /\ R.has = S.has
      /\ R.valid = S.valid /\ R.notCurrent = S.notCurrent /\ R.freq = S.freq
      /\ R.phase = S.phase /\ R.stopped = S.stopped
  BY <1>1, <1>2 DEF State, SameLists
<1>5. Step(S, R, c)
  BY <1>1, <1>3, <1>4, CountedSame, StateTypes DEF Step, Only, SameLists
<1>6. Listed(R, c) /\ R.sock[c] = "up" /\ (R.req[c] = None => R.ds[c] = "none")
  BY <1>1, <1>4, StateTypes DEF Fits, Listed, Behaves, SameLists
<1>7. /\ Step(R, T, c) /\ Fits(T, c)
      /\ T.req[c] = R.req[c] /\ T.other[c] = R.other[c]
  BY <1>4, <1>5, <1>6, ConnectionEstablishedStep DEF Step
<1> HIDE DEF T
<1> QED BY <1>4, <1>5, <1>7, OnlyTrans, StayMoves DEF Step, SameLists, T, R

\* Only the fields that the invariant does not speak of change.
LEMMA QueueMoves ==
  ASSUME NEW S, Inv(S, None), NEW c \in Clients, NEW A \in SUBSET Clients
  PROVE  LET T == [S EXCEPT !.queued = A] IN
         Moves(S, T, c) /\ T.alive = S.alive
<1> DEFINE T == [S EXCEPT !.queued = A]
<1>1. S \in State
  BY InvOne
<1>2. T \in State /\ Aside(S, T) /\ T.asked = S.asked
  BY <1>1 DEF State, Aside, SameLists
<1> HIDE DEF T
<1>3. Moves(S, T, c)
  BY <1>2, AsideMoves
<1> QED BY <1>2, <1>3 DEF Aside, T

\* A client that wants no upload session ends as it was or as a source.
LEMMA DeclineMoves ==
  ASSUME NEW S, Inv(S, None), NEW c \in Clients
  PROVE  Moves(S, Decline(S, c), c)
<1>1. CASE S.req[c] = None \/ S.req[c] \in S.stopped
  BY <1>1, NewStateMoves DEF Decline
<1>2. CASE ~(S.req[c] = None \/ S.req[c] \in S.stopped)
  BY <1>2, NewStateMoves DEF Decline, Plain, DownStates
<1> QED BY <1>1, <1>2

\* Connections dialled, made and lost, and clients deleted.
LEMMA ClientKeeps ==
  ASSUME IInv, NEW c \in Clients,
         \/ Connected(c) \/ Accepted(c) \/ Lost(c) \/ JoinsQueue(c)
         \/ LeavesQueue(c) \/ Evil(c) \/ CleanUp(c) \/ SlotGranted(c)
         \/ SlotEnds(c) \/ NoMoreBlocks(c) \/ UnwantedData(c)
  PROVE  IInv'
<1>1. Idle /\ UNCHANGED job
  BY DEF Connected, Accepted, Lost, JoinsQueue, LeavesQueue, Evil, CleanUp,
         SlotGranted, SlotEnds, NoMoreBlocks, UnwantedData
<1>2. Inv(s, None) /\ s \in State
  BY <1>1, IdleInv
<1>3. Fits(s, c)
  BY <1>2, InvOne
<1>4. CASE Connected(c)
  <2>1. c \in s.alive
    BY <1>3, <1>4 DEF Connected, Fits, Behaves
  <2>2. Moves(s, s', c)
    BY <1>2, <1>4, <2>1, UpMoves DEF Connected
  <2> QED BY <1>1, <2>2, HandlerKeeps
<1>5. CASE Accepted(c)
  <2> DEFINE B == NewClient(s, c)
  <2>1. Moves(s, B, c) /\ c \in B.alive
    BY <1>2, NewClientMoves
  <2>2. s' = ConnectionEstablished([B EXCEPT !.sock[c] = "up"], c)
    BY <1>5 DEF Accepted
  <2> HIDE DEF B
  <2>3. Inv(B, None)
    BY <1>2, <2>1, MovesKeeps
  <2>4. Moves(B, s', c)
    BY <2>1, <2>2, <2>3, UpMoves
  <2>5. Inv(s', None)
    BY <2>3, <2>4, MovesKeeps
  <2> QED BY <1>1, <2>5 DEF IInv, Idle
<1>6. CASE Lost(c)
  <2>1. Moves(s, s', c)
    BY <1>2, <1>6, LeavingMoves DEF Lost
  <2> QED BY <1>1, <2>1, HandlerKeeps
<1>7. CASE JoinsQueue(c)
  <2>1. s' = [s EXCEPT !.queued = s.queued \cup {c}]
    BY <1>7 DEF JoinsQueue
  <2>2. s.queued \cup {c} \in SUBSET Clients
    BY <1>2, StateTypes
  <2>3. Moves(s, s', c)
    BY <1>2, <2>1, <2>2, QueueMoves
  <2> QED BY <1>1, <2>3, HandlerKeeps
<1> DEFINE B == [s EXCEPT !.queued = s.queued \ {c}]
<1>8. Moves(s, B, c) /\ B.alive = s.alive
  <2>1. s.queued \ {c} \in SUBSET Clients
    BY <1>2, StateTypes
  <2> QED BY <1>2, <2>1, QueueMoves
<1>9. CASE LeavesQueue(c)
  <2>1. s' = B
    BY <1>9 DEF LeavesQueue
  <2> HIDE DEF B
  <2> QED BY <1>1, <1>8, <2>1, HandlerKeeps
<1>10. CASE Evil(c)
  <2>1. s' = Disconnect(SetDownloadState(B, c, "banned"), c) /\ c \in s.alive
    BY <1>10 DEF Evil
  <2> HIDE DEF B
  <2>2. Inv(B, None)
    BY <1>2, <1>8, MovesKeeps
  <2>3. Moves(B, s', c)
    BY <1>8, <2>1, <2>2, FailMoves
  <2>4. Inv(s', None)
    BY <2>2, <2>3, MovesKeeps
  <2> QED BY <1>1, <2>4 DEF IInv, Idle
<1>11. CASE CleanUp(c)
  <2>1. Moves(s, s', c)
    BY <1>2, <1>11, LeavingMoves DEF CleanUp, Disposable
  <2> QED BY <1>1, <2>1, HandlerKeeps
<1>12. CASE SlotGranted(c)
  <2>1. Moves(s, s', c)
    <3>1. CASE ~Wanted(s, c)
      BY <1>2, <1>12, <3>1, DeclineMoves DEF SlotGranted
    <3>2. CASE Wanted(s, c) /\ s.ds[c] = "onqueue"
      <4>1. s.req[c] # None
        BY <3>2 DEF Wanted
      <4> QED BY <1>2, <1>12, <3>2, <4>1, NewStateMoves
              DEF SlotGranted, Plain, DownStates
    <3>3. CASE Wanted(s, c) /\ s.ds[c] # "onqueue"
      <4>1. s' = s
        BY <1>12, <3>3 DEF SlotGranted
      <4> QED BY <1>2, <1>3, <4>1 DEF Moves, Step, Only, Inv
    <3> QED BY <3>1, <3>2, <3>3
  <2> QED BY <1>1, <2>1, HandlerKeeps
<1>13. CASE SlotEnds(c) \/ NoMoreBlocks(c)
  <2>1. s.req[c] # None
    BY <1>3, <1>13 DEF SlotEnds, NoMoreBlocks, Fits, Behaves
  <2>2. Moves(s, s', c)
    BY <1>2, <1>13, <2>1, NewStateMoves
       DEF SlotEnds, NoMoreBlocks, Plain, DownStates
  <2> QED BY <1>1, <2>2, HandlerKeeps
<1>14. CASE UnwantedData(c)
  <2>1. Moves(s, s', c)
    BY <1>2, <1>14, DeclineMoves DEF UnwantedData
  <2> QED BY <1>1, <2>1, HandlerKeeps
<1> QED BY <1>4, <1>5, <1>6, <1>7, <1>9, <1>10, <1>11, <1>12, <1>13, <1>14

\* SwapToAnotherFile with all its targets.
LEMMA SwapsAll ==
  ASSUME NEW S, NEW j, Inv(S, j), NEW c \in Clients, NEW T \in Swaps(S, c, TRUE, TRUE)
  PROVE  /\ Moves(S, T, c) /\ T.req[c] \in Files \ S.stopped
         /\ T.other[c] \subseteq S.other[c]
<1> DEFINE U == Targets(S, c, TRUE)
<1>1. MaySwap(S, c) /\ \E g \in Preferred(S, c, U) : T = SwapTo(S, c, g, TRUE)
  BY DEF Swaps
<1>2. PICK g \in Preferred(S, c, U) : T = SwapTo(S, c, g, TRUE)
  BY <1>1
<1>3. TRUE \in BOOLEAN /\ U \in SUBSET Targets(S, c, TRUE)
  OBVIOUS
<1> HIDE DEF U
<1>4. /\ Moves(S, T, c) /\ T.req[c] \in Files \ S.stopped
      /\ TRUE => T.other[c] \subseteq S.other[c]
  BY <1>1, <1>2, <1>3, SwapsMove, Zenon
<1> QED BY <1>4

\* Answers of a source over TCP, in any order.
LEMMA AnswerKeeps ==
  ASSUME IInv, NEW c \in Clients, HasNoFile(c) \/ \E h \in BOOLEAN : HasFile(c, h)
  PROVE  IInv'
<1>1. Idle /\ UNCHANGED job /\ s.asked[c] # <<>>
  BY DEF HasFile, HasNoFile, Answers
<1>2. Inv(s, None) /\ s \in State
  BY <1>1, IdleInv
<1> DEFINE R == Read(s, c)
           f == Head(s.asked[c])
<1>3. s.asked[c] \in Seq(Files) /\ f \in Files /\ f # None
  <2>1. s.asked[c] \in Seq(Files)
    BY <1>2, StateTypes
  <2> QED BY <1>1, <2>1, SourcesAssumption
<1>4. R = [s EXCEPT !.asked = [s.asked EXCEPT ![c] = Tail(s.asked[c])]]
  BY <1>2, StateTypes DEF Read
<1> HIDE DEF R, f
<1>5. R \in State
  <2> DEFINE q == Tail(s.asked[c])
  <2>1. q \in Seq(Files)
    BY <1>1, <1>3
  <2>2. R = [s EXCEPT !.asked = [s.asked EXCEPT ![c] = q]]
    BY <1>4
  <2> HIDE DEF q
  <2> QED BY <1>2, <2>1, <2>2 DEF State
<1>6. /\ Aside(s, R)
      /\ \A d \in Clients \ {c} : R.asked[d] = s.asked[d]
  BY <1>2, <1>4, StateTypes DEF State, Aside, SameLists
<1>7. Moves(s, R, c)
  BY <1>1, <1>2, <1>5, <1>6, AsideMoves
<1>8. Inv(R, None)
  BY <1>2, <1>7, MovesKeeps
<1>9. /\ R \in State /\ Counted(R) /\ Fits(R, c)
  BY <1>8, InvOne
<1>10. c \in R.alive
  BY <1>1, <1>2, <1>6, InvOne DEF Fits, Behaves, Aside
<1>11. ASSUME NEW h \in BOOLEAN, HasFile(c, h)
       PROVE  Moves(R, s', c)
  <2>1. s' = FileStatus(R, c, f, h)
    BY <1>11 DEF HasFile, R, f
  <2>2. CASE R.req[c] = f
    <3>1. s' = StatusRead(R, c, h)
      BY <2>1, <2>2 DEF FileStatus
    <3>2. R.req[c] # None
      BY <1>3, <2>2
    <3> QED BY <1>9, <3>1, <3>2, StatusReadStep, StayMoves
  <2>3. CASE R.req[c] # f
    BY <1>8, <1>10, <2>1, <2>3, FailMoves DEF FileStatus
  <2> QED BY <2>2, <2>3
<1>12. ASSUME HasNoFile(c) PROVE Moves(R, s', c)
  <2>1. s' \in NoSuchFile(R, c, f)
    BY <1>12 DEF HasNoFile, R, f
  <2>2. s' = R \/ s' = RemoveSource(R, c) \/ s' \in Swaps(R, c, TRUE, TRUE)
    BY <2>1 DEF NoSuchFile
  <2>3. CASE s' = R
    BY <1>9, <2>3 DEF Moves, Step, Only
  <2>4. CASE s' = RemoveSource(R, c)
    BY <1>8, <2>4, LeavingMoves
  <2>5. CASE s' \in Swaps(R, c, TRUE, TRUE)
    BY <1>8, <2>5, SwapsAll
  <2> QED BY <2>2, <2>3, <2>4, <2>5
<1>13. Moves(R, s', c)
  BY <1>11, <1>12
<1>14. Inv(s', None)
  BY <1>8, <1>13, MovesKeeps
<1> QED BY <1>1, <1>14 DEF IInv, Idle

\* A datagram is taken off the network.
LEMMA HeardMoves ==
  ASSUME NEW S, Inv(S, None), NEW c \in Clients, NEW f \in Files,
         NEW A \in SUBSET Clients
  PROVE  /\ Moves(S, Heard(S, c, f), c) /\ Heard(S, c, f).req = S.req
         /\ Moves(S, [Heard(S, c, f) EXCEPT !.pending = A], c)
<1> DEFINE R == Heard(S, c, f)
           T == [R EXCEPT !.pending = A]
<1>1. S \in State
  BY InvOne
<1>2. R = [S EXCEPT !.pinged = [S.pinged EXCEPT ![c] = @ \ {f}]]
  BY <1>1, StateTypes DEF Heard
<1>3. [S.pinged EXCEPT ![c] = @ \ {f}] \in [Clients -> SUBSET Files]
  BY <1>1, StateTypes
<1> HIDE DEF R
<1>4. R \in State
  BY <1>1, <1>2, <1>3 DEF State
<1>5. Aside(S, R) /\ R.asked = S.asked
  BY <1>1, <1>2 DEF State, Aside, SameLists
<1>6. T \in State
  BY <1>4 DEF State
<1>7. Aside(S, T) /\ T.asked = S.asked
  <2>1. Aside(R, T) /\ T.asked = R.asked
    BY <1>4 DEF State, Aside, SameLists
  <2> HIDE DEF T
  <2> QED BY <1>5, <2>1 DEF Aside, SameLists
<1> HIDE DEF T
<1>8. Moves(S, R, c) /\ Moves(S, T, c)
  BY <1>4, <1>5, <1>6, <1>7, AsideMoves
<1> QED BY <1>5, <1>8 DEF Aside, T, R

\* Answers of a source over UDP.
LEMMA UdpKeeps ==
  ASSUME IInv, NEW c \in Clients, NEW f \in Files,
         \/ FileNotFound(c, f) \/ QueueFull(c, f) \/ UdpLost(c, f)
         \/ \E h \in BOOLEAN : ReaskAck(c, f, h)
  PROVE  IInv'
<1>1. Idle /\ UNCHANGED job
  BY DEF FileNotFound, QueueFull, UdpLost, ReaskAck, UdpAnswers
<1>2. Inv(s, None) /\ s \in State
  BY <1>1, IdleInv
<1> DEFINE H == Heard(s, c, f)
           P == s.pending \ {c}
<1>3. P \in SUBSET Clients /\ {} \in SUBSET Clients
  BY <1>2, StateTypes
<1> HIDE DEF P
<1>4. Moves(s, H, c) /\ H.req = s.req /\ Moves(s, [H EXCEPT !.pending = P], c)
  BY <1>2, <1>3, HeardMoves
<1>5. H.pending = s.pending
  BY <1>2 DEF Heard, State
<1>6. [H EXCEPT !.pending = @ \ {c}] = [H EXCEPT !.pending = P]
  BY <1>5 DEF P
<1> DEFINE Q == [H EXCEPT !.pending = P]
<1>7. CASE UdpLost(c, f)
  BY <1>1, <1>4, <1>7, HandlerKeeps DEF UdpLost
<1>8. CASE QueueFull(c, f)
  <2>1. s' = Q
    BY <1>6, <1>8 DEF QueueFull
  <2> HIDE DEF Q
  <2> QED BY <1>1, <1>4, <2>1, HandlerKeeps DEF Q
<1>9. CASE FileNotFound(c, f)
  <2>1. s' = ReaskFNF(Q, c)
    BY <1>6, <1>9 DEF FileNotFound
  <2>2. Inv(Q, None)
    BY <1>2, <1>4, MovesKeeps
  <2> HIDE DEF Q
  <2>3. Inv(s', None)
    <3>1. CASE Q.ds[c] = "downloading"
      BY <2>1, <2>2, <3>1 DEF ReaskFNF
    <3>2. CASE Q.ds[c] # "downloading"
      <4>1. s' = Purge(Q, c)
        BY <2>1, <3>2 DEF ReaskFNF, Purge
      <4> QED BY <2>2, <4>1, LeavingMoves, MovesKeeps
    <3> QED BY <3>1, <3>2
  <2> QED BY <1>1, <2>3 DEF IInv, Idle
<1>10. ASSUME NEW h \in BOOLEAN, ReaskAck(c, f, h)
       PROVE  IInv'
  <2> HIDE DEF H
  <2>1. Inv(H, None)
    BY <1>2, <1>4, MovesKeeps
  <2>2. H \in State /\ Counted(H) /\ Fits(H, c)
    BY <2>1, InvOne
  <2>3. s.req[c] # None
    <3>1. \E g \in Files : c \in s.src[g]
      BY <1>10 DEF ReaskAck, UdpAnswers
    <3>2. Fits(s, c)
      BY <1>2, InvOne
    <3> QED BY <3>1, <3>2, SourcesAssumption DEF Fits, Listed
  <2> DEFINE R == StatusRead(H, c, h)
  <2>4. CASE s' = [R EXCEPT !.pending = @ \ {c}]
    <3>1. Step(H, R, c) /\ Fits(R, c) /\ R.req = H.req /\ R.other = H.other
      BY <1>4, <2>2, <2>3, StatusReadStep
    <3> HIDE DEF R
    <3>2. Inv(R, None) /\ R \in State
      BY <2>1, <3>1, StayMoves, MovesKeeps DEF Step
    <3>3. s' \in State
      BY <2>4, <3>2 DEF State
    <3>4. Aside(R, s') /\ s'.asked = R.asked
      BY <2>4, <3>2 DEF State, Aside, SameLists
    <3>5. Inv(s', None)
      BY <3>2, <3>3, <3>4, AsideMoves, MovesKeeps
    <3> QED BY <1>1, <3>5 DEF IInv, Idle
  <2>5. CASE s' = SetParts(H, c, FALSE)
    <3>1. /\ Step(H, s', c) /\ SameLists(H, s') /\ SameLife(H, s')
          /\ s'.dl = H.dl /\ s'.req = H.req /\ s'.ds = H.ds
      BY <2>2, <2>5, SetPartsStep, Zenon
    <3>2. Fits(s', c)
      BY <2>2, <3>1 DEF Fits, Listed, Behaves, SameLists, SameLife
    <3>3. Inv(s', None)
      BY <2>1, <3>1, <3>2, StayMoves, MovesKeeps DEF SameLists
    <3> QED BY <1>1, <3>3 DEF IInv, Idle
  <2> QED BY <1>10, <2>4, <2>5 DEF ReaskAck, H
<1> QED BY <1>7, <1>8, <1>9, <1>10

-----------------------------------------------------------------------------
(***************************************************************************)
(* The actions of the user, the end of a download and the loop.             *)
(***************************************************************************)
\* PauseFile takes the slots of the sources that are sending.
LEMMA PausingKeeps ==
  ASSUME NEW S, NEW j, Inv(S, j), NEW f \in Files
  PROVE  Inv(Pausing(S, f), j)
<1> DEFINE D == {c \in S.src[f] : S.ds[c] = "downloading"}
           ds == [c \in Clients |-> IF c \in D THEN "onqueue" ELSE S.ds[c]]
           dl == [S.dl EXCEPT ![f] = @ \ D]
           T == [S EXCEPT !.paused = S.paused \cup {f}, !.ds = ds, !.dl = dl]
<1>1. S \in State
  BY DEF Inv
<1>2. CASE S.phase[f] \in {"hashing", "moving"}
  BY <1>2 DEF Pausing
<1>3. CASE S.phase[f] \notin {"hashing", "moving"}
  <2>1. Pausing(S, f) = T
    BY <1>1, <1>3, StateTypes DEF Pausing
  <2>2. ds \in [Clients -> DownStates] /\ dl \in [Files -> SUBSET Clients]
    BY <1>1, StateTypes DEF DownStates
  <2>3. \A c \in Clients : \A g \in Files : c \in dl[g] <=> c \in S.dl[g] /\ ~(g = f /\ c \in D)
    BY <1>1, StateTypes
  <2>4. \A c \in Clients : ds[c] = IF c \in D THEN "onqueue" ELSE S.ds[c]
    OBVIOUS
  <2>5. \A c \in Clients : c \in D <=> S.req[c] = f /\ S.ds[c] = "downloading"
    BY DEF Inv, Fits, Listed
  <2> HIDE DEF ds, dl, D
  <2>6. T \in State
    BY <1>1, <2>2 DEF State
  <2>7. /\ T.ds = ds /\ T.dl = dl /\ SameLists(S, T) /\ SameLife(S, T)
        /\ T.req = S.req /\ T.has = S.has /\ T.valid = S.valid
        /\ T.notCurrent = S.notCurrent /\ T.freq = S.freq
        /\ T.phase = S.phase /\ T.stopped = S.stopped
    BY <1>1 DEF State, SameLists, SameLife
  <2> HIDE DEF T
  <2>8. \A g \in Files : /\ Valid(T, g) = Valid(S, g)
                        /\ NotCurrent(T, g) = NotCurrent(S, g)
                        /\ Having(T, g) = Having(S, g)
    BY <2>4, <2>5, <2>7
       DEF Valid, NotCurrent, Having, CountsValid, CountsNotCurrent
  <2>9. Counted(T)
    BY <2>7, <2>8 DEF Inv, Counted, CountedStates, CountedParts
  <2>10. ASSUME NEW c \in Clients
         PROVE  Fits(T, c) /\ Left(T, j, c)
    <3>1. Fits(S, c) /\ Left(S, j, c)
      BY DEF Inv
    <3>2. Listed(T, c)
      BY <2>3, <2>4, <2>5, <2>7, <3>1 DEF Fits, Listed, SameLists
    <3>3. Behaves(T, c)
      BY <2>4, <2>5, <2>7, <3>1, SourcesAssumption DEF Fits, Behaves, SameLife
    <3> QED BY <2>7, <3>1, <3>2, <3>3 DEF Fits, Left, SameLists
  <2> QED BY <2>1, <2>6, <2>7, <2>9, <2>10 DEF Inv, Ended
<1> QED BY <1>2, <1>3

\* StopFile up to RemoveAllSources: everybody who is asked for f has to go.
LEMMA StopKeeps ==
  ASSUME NEW S, Inv(S, None), NEW f \in Files, S.phase[f] # "gone",
         NEW next \in {"stop", "move", "delete"}
  PROVE  Inv(Pausing([S EXCEPT !.stopped = @ \cup {f}], f),
             [file |-> f, todo |-> S.src[f], next |-> next])
<1> DEFINE T == [S EXCEPT !.stopped = @ \cup {f}]
           j == [file |-> f, todo |-> S.src[f], next |-> next]
<1>1. S \in State
  BY DEF Inv
<1>2. /\ j \in Jobs /\ j # None /\ j.file = f /\ j.todo = S.src[f]
  BY <1>1, StateTypes, SourcesAssumption DEF Jobs, Evictions
<1>3. T \in State
  BY <1>1 DEF State
<1>4. /\ T.stopped = S.stopped \cup {f} /\ T.phase = S.phase
      /\ SameLists(S, T) /\ SameLife(S, T)
      /\ T.dl = S.dl /\ T.req = S.req /\ T.ds = S.ds /\ T.has = S.has
      /\ T.valid = S.valid /\ T.notCurrent = S.notCurrent /\ T.freq = S.freq
  BY <1>1 DEF State, SameLists, SameLife
<1> HIDE DEF T, j
<1>5. Counted(T)
  BY <1>4, CountedSame DEF Inv
<1>6. ASSUME NEW c \in Clients
      PROVE  Fits(T, c) /\ Left(T, j, c)
  <2>1. Fits(S, c) /\ Left(S, None, c)
    BY DEF Inv
  <2>2. Fits(T, c)
    BY <1>4, <2>1 DEF Fits, Listed, Behaves, SameLists, SameLife
  <2>3. S.req[c] = f => c \in S.src[f]
    BY <2>1 DEF Fits, Listed
  <2>4. Left(T, j, c)
    BY <1>2, <1>4, <2>1, <2>3 DEF Left, SameLists
  <2> QED BY <2>2, <2>4
<1>7. Inv(T, j)
  BY <1>2, <1>3, <1>4, <1>5, <1>6 DEF Inv, Ended
<1> QED BY <1>7, PausingKeeps DEF T, j

\* A file takes a new status, and may be paused or not.
LEMMA PhaseKeeps ==
  ASSUME NEW S, Inv(S, None), NEW f \in Files, NEW p \in Phases,
         NEW A \in SUBSET Files,
         p \in {"moving", "gone"} => f \in S.stopped
  PROVE  Inv([S EXCEPT !.phase[f] = p, !.paused = A], None)
<1> DEFINE T == [S EXCEPT !.phase[f] = p, !.paused = A]
<1>1. S \in State
  BY DEF Inv
<1>2. T = [S EXCEPT !.phase = [S.phase EXCEPT ![f] = p], !.paused = A]
  BY <1>1, StateTypes
<1> HIDE DEF T
<1>3. T \in State
  BY <1>1, <1>2 DEF State
<1>4. /\ T.phase = [S.phase EXCEPT ![f] = p] /\ T.stopped = S.stopped
      /\ SameLists(S, T) /\ SameLife(S, T)
      /\ T.dl = S.dl /\ T.req = S.req /\ T.ds = S.ds /\ T.has = S.has
      /\ T.valid = S.valid /\ T.notCurrent = S.notCurrent /\ T.freq = S.freq
  BY <1>1, <1>2 DEF State, SameLists, SameLife
<1>5. Counted(T)
  BY <1>4, CountedSame DEF Inv
<1>6. \A c \in Clients : Fits(T, c) /\ Left(T, None, c)
  BY <1>4 DEF Inv, Fits, Listed, Behaves, Left, SameLists, SameLife
<1>7. Ended(T, None)
  BY <1>1, <1>4, StateTypes DEF Inv, Ended
<1> QED BY <1>3, <1>5, <1>6, <1>7 DEF Inv, Jobs, T

\* A file paused, stopped, deleted, resumed or completed.
LEMMA FileKeeps ==
  ASSUME IInv, NEW f \in Files,
         \/ Pause(f) \/ Stop(f) \/ Delete(f) \/ Resume(f) \/ LastGap(f)
         \/ HashBad(f) \/ HashGood(f) \/ Moved(f)
  PROVE  IInv'
<1>1. Idle
  BY DEF Pause, Stop, Delete, Resume, LastGap, HashBad, HashGood, Moved
<1>2. Inv(s, None) /\ s \in State /\ job = None
  BY <1>1, IdleInv DEF Idle
<1>3. CASE Pause(f)
  <2>1. Inv(s', None)
    BY <1>2, <1>3, PausingKeeps DEF Pause
  <2> QED BY <1>2, <1>3, <2>1 DEF IInv, Pause
<1>4. ASSUME NEW n \in {"stop", "move", "delete"}, StopFile(f, n),
             s.phase[f] # "gone"
      PROVE  IInv'
  <2>1. Inv(s', job')
    BY <1>2, <1>4, StopKeeps DEF StopFile
  <2> QED BY <2>1 DEF IInv
<1>5. CASE Stop(f) \/ Delete(f)
  BY <1>4, <1>5 DEF Stop, Delete
<1>6. CASE HashGood(f)
  BY <1>4, <1>6 DEF HashGood
<1>7. CASE Resume(f)
  <2> DEFINE R == [s EXCEPT !.paused = @ \ {f}, !.stopped = @ \ {f}]
  <2>1. R \in State
    BY <1>2 DEF State
  <2>2. /\ R.stopped = s.stopped \ {f} /\ R.phase = s.phase
        /\ SameLists(s, R) /\ SameLife(s, R)
        /\ R.dl = s.dl /\ R.req = s.req /\ R.ds = s.ds /\ R.has = s.has
        /\ R.valid = s.valid /\ R.notCurrent = s.notCurrent /\ R.freq = s.freq
    BY <1>2 DEF State, SameLists, SameLife
  <2>3. s.phase[f] \in {"ready", "failed"}
    BY <1>7 DEF Resume
  <2>4. CASE s.phase[f] = "ready"
    <3>1. s' = R /\ job' = None
      BY <1>2, <1>7, <2>4 DEF Resume
    <3> HIDE DEF R
    <3>2. Inv(R, None)
      <4>1. Counted(R)
        BY <1>2, <2>2, CountedSame DEF Inv
      <4>2. \A c \in Clients : Fits(R, c) /\ Left(R, None, c)
        BY <1>2, <2>2 DEF Inv, Fits, Listed, Behaves, Left, SameLists, SameLife
      <4>3. Ended(R, None)
        BY <1>2, <2>2, <2>3 DEF Inv, Ended
      <4> QED BY <2>1, <4>1, <4>2, <4>3 DEF Inv, Jobs
    <3> QED BY <3>1, <3>2 DEF IInv
  <2>5. CASE s.phase[f] = "failed"
    <3>1. /\ s' = Pausing([R EXCEPT !.stopped = @ \cup {f}], f)
          /\ job' = [file |-> f, todo |-> R.src[f], next |-> "move"]
      BY <1>7, <2>5 DEF Resume
    <3> HIDE DEF R
    <3>2. Inv(R, None)
      <4>1. Counted(R)
        BY <1>2, <2>2, CountedSame DEF Inv
      <4>2. \A c \in Clients : Fits(R, c) /\ Left(R, None, c)
        BY <1>2, <2>2 DEF Inv, Fits, Listed, Behaves, Left, SameLists, SameLife
      <4>3. Ended(R, None)
        BY <1>2, <2>2, <2>3 DEF Inv, Ended
      <4> QED BY <2>1, <4>1, <4>2, <4>3 DEF Inv, Jobs
    <3>3. Inv(s', job')
      BY <2>2, <2>5, <3>1, <3>2, StopKeeps
    <3> QED BY <3>3 DEF IInv
  <2> QED BY <2>3, <2>4, <2>5
<1>8. ASSUME NEW p \in Phases, p \in {"moving", "gone"} => f \in s.stopped,
             s' = [s EXCEPT !.phase[f] = p], job' = None
      PROVE  IInv'
  <2>1. s' = [s EXCEPT !.phase[f] = p, !.paused = s.paused]
    BY <1>2, <1>8 DEF State
  <2>2. s.paused \in SUBSET Files /\ Inv(s, None)
    BY <1>2, StateTypes
  <2>3. p \in {"moving", "gone"} => f \in s.stopped
    BY <1>8
  <2>4. Inv([s EXCEPT !.phase[f] = p, !.paused = s.paused], None)
    <3> DEFINE A == s.paused
    <3>1. A \in SUBSET Files
      BY <2>2
    <3> HIDE DEF A
    <3>2. Inv([s EXCEPT !.phase[f] = p, !.paused = A], None)
      BY <2>2, <2>3, <3>1, PhaseKeeps
    <3> QED BY <3>2 DEF A
  <2>5. Inv(s', None)
    BY <2>1, <2>4
  <2> QED BY <1>8, <2>5 DEF IInv
<1>9. CASE LastGap(f)
  BY <1>2, <1>8, <1>9 DEF LastGap, Phases
<1>10. CASE HashBad(f)
  BY <1>2, <1>8, <1>10 DEF HashBad, Phases
<1>11. CASE Moved(f)
  <2>1. f \in s.stopped
    BY <1>2, <1>11 DEF Moved, Inv, Ended
  <2>2. s.paused \ {f} \in SUBSET Files /\ s.paused \cup {f} \in SUBSET Files
    BY <1>2, StateTypes
  <2>3. \E p \in {"gone", "failed"} : \E A \in SUBSET Files :
          s' = [s EXCEPT !.phase[f] = p, !.paused = A]
    BY <1>11, <2>2 DEF Moved
  <2>4. PICK p \in {"gone", "failed"}, A \in SUBSET Files :
          s' = [s EXCEPT !.phase[f] = p, !.paused = A]
    BY <2>3
  <2>5. p \in Phases
    BY DEF Phases
  <2>6. Inv(s', None)
    BY <1>2, <2>1, <2>4, <2>5, PhaseKeeps
  <2> QED BY <1>2, <1>11, <2>6 DEF IInv, Moved
<1> QED BY <1>3, <1>5, <1>6, <1>7, <1>9, <1>10, <1>11

\* One source leaves: it is swapped for good, or purged.
LEMMA EvictNextKeeps ==
  ASSUME IInv, NEW c \in Clients, EvictNext(c)
  PROVE  IInv'
<1>1. /\ job # None /\ c \in job.todo /\ s' \in Evict(s, c)
      /\ job' = [job EXCEPT !.todo = @ \ {c}]
  BY DEF EvictNext, Idle
<1>2. /\ s \in State /\ Counted(s) /\ Fits(s, c) /\ FreeOfGone(s, c)
      /\ Left(s, job, c) /\ Inv(s, job)
  BY InvOne DEF IInv
<1>3. /\ Step(s, s', c) /\ Fits(s', c)
      /\ s'.req[c] \in (Files \ s.stopped) \cup {None}
      /\ s'.other[c] \subseteq s.other[c]
  <2>1. CASE s' \in Swaps(s, c, TRUE, TRUE)
    BY <1>2, <2>1, SwapsAll DEF Moves
  <2>2. CASE s' = Purge(s, c)
    BY <1>2, <2>2, PurgeStep DEF Out
  <2> QED BY <1>1, <2>1, <2>2 DEF Evict
<1>4. /\ job \in Evictions /\ job' \in Evictions /\ job' # None
      /\ job'.file = job.file /\ job'.todo = job.todo \ {c}
  <2>1. job \in Evictions
    BY <1>1, <1>2 DEF Inv, Jobs
  <2>2. job' \in Evictions /\ job'.file = job.file /\ job'.todo = job.todo \ {c}
    BY <1>1, <2>1 DEF Evictions
  <2> QED BY <2>1, <2>2, SourcesAssumption
<1>5. s'.phase = s.phase /\ s'.stopped = s.stopped /\ Only(s, s', c)
  BY <1>3 DEF Step, Only
<1>6. ASSUME NEW d \in Clients PROVE Fits(s', d) /\ Left(s', job', d)
  <2>1. Fits(s, d) /\ Left(s, job, d)
    BY <1>2 DEF Inv
  <2>2. CASE d = c
    <3>1. None \notin s.stopped
      BY <1>2, StateTypes, SourcesAssumption
    <3>2. Left(s', job', c)
      BY <1>1, <1>2, <1>3, <1>4, <1>5, <3>1 DEF Left
    <3> QED BY <1>3, <2>2, <3>2
  <2>3. CASE d # c
    BY <1>1, <1>4, <1>5, <2>1, <2>3, OthersFit DEF Left
  <2> QED BY <2>2, <2>3
<1> QED BY <1>1, <1>2, <1>3, <1>4, <1>5, <1>6 DEF IInv, Inv, Ended, Step, Jobs

\* Everybody has left, and nobody can be swapped to the file any more.
LEMMA EvictEndsKeeps ==
  ASSUME IInv, EvictEnds
  PROVE  IInv'
<1> DEFINE f == job.file
           Off(M) == [c \in Clients |-> IF c \in s.a4af[f] THEN M[c] \ {f} ELSE M[c]]
           other == Off(s.other)
           unneeded == Off(s.unneeded)
           a4af == [s.a4af EXCEPT ![f] = {}]
           R == [s EXCEPT !.other = other, !.unneeded = unneeded, !.a4af = a4af]
           p == CASE job.next = "stop"   -> s.phase[f]
                  [] job.next = "move"   -> "moving"
                  [] job.next = "delete" -> "gone"
<1>1. /\ job # None /\ job.todo = {} /\ job' = None
      /\ s' = [ForgetA4AF(s, f) EXCEPT
                 !.phase[f] = CASE job.next = "stop"   -> @
                                [] job.next = "move"   -> "moving"
                                [] job.next = "delete" -> "gone"]
  BY DEF EvictEnds, Idle
<1>2. s \in State /\ job \in Evictions /\ f \in Files
  BY <1>1 DEF IInv, Inv, Jobs, Evictions
<1>3. f \in s.stopped
  BY <1>1 DEF IInv, Inv, Ended
<1>4. /\ other \in [Clients -> SUBSET Files] /\ unneeded \in [Clients -> SUBSET Files]
      /\ a4af \in [Files -> SUBSET Clients]
  BY <1>2, StateTypes
<1>5. ASSUME NEW c \in Clients, NEW g \in Files
      PROVE  /\ g \in other[c] <=> g # f /\ g \in s.other[c]
             /\ c \in a4af[g] <=> g # f /\ c \in s.a4af[g]
  <2>1. \A h \in Files : c \in s.a4af[h] <=> h \in s.other[c]
    BY DEF IInv, Inv, Fits, Listed
  <2> QED BY <1>2, <2>1, StateTypes
<1>6. R = ForgetA4AF(s, f)
  BY DEF ForgetA4AF
<1>7. p \in Phases
  <2>1. job.next \in {"stop", "move", "delete"}
    BY <1>2 DEF Evictions
  <2> QED BY <1>2, <2>1, StateTypes DEF Phases
<1> HIDE DEF other, unneeded, a4af, f
<1>8. R \in State
  BY <1>2, <1>4 DEF State
<1>9. /\ R.other = other /\ R.a4af = a4af /\ R.src = s.src
      /\ SameLife(s, R) /\ R.phase = s.phase /\ R.stopped = s.stopped
      /\ R.dl = s.dl /\ R.req = s.req /\ R.ds = s.ds /\ R.has = s.has
      /\ R.valid = s.valid /\ R.notCurrent = s.notCurrent /\ R.freq = s.freq
      /\ R.paused = s.paused
  BY <1>2 DEF State, SameLife
<1>10. s' = [R EXCEPT !.phase[f] = p, !.paused = R.paused]
  <2>1. s' = [R EXCEPT !.phase = [R.phase EXCEPT ![f] = p]]
    BY <1>1, <1>6, <1>8, <1>9, StateTypes
  <2> HIDE DEF R, p
  <2> QED BY <1>8, <2>1, StateTypes DEF State
<1> HIDE DEF R, p
<1>11. Inv(R, None)
  <2>1. Counted(R)
    BY <1>9, CountedSame DEF IInv, Inv
  <2>2. ASSUME NEW c \in Clients PROVE Fits(R, c) /\ Left(R, None, c)
    <3>1. Fits(s, c) /\ Left(s, job, c)
      BY DEF IInv, Inv
    <3>2. Listed(R, c)
      BY <1>5, <1>9, <3>1 DEF Fits, Listed
    <3>3. Behaves(R, c)
      BY <1>9, <3>1 DEF Fits, Behaves, SameLife
    <3>4. Left(R, None, c)
      <4>1. s.stopped \in SUBSET Files
        BY <1>2, StateTypes
      <4> QED BY <1>1, <1>5, <1>9, <3>1, <4>1 DEF Left, f
    <3> QED BY <3>2, <3>3, <3>4 DEF Fits
  <2>3. Ended(R, None)
    BY <1>9 DEF IInv, Inv, Ended
  <2> QED BY <1>8, <2>1, <2>2, <2>3 DEF Inv, Jobs
<1>12. R.paused \in SUBSET Files
  BY <1>8, StateTypes
<1>13. Inv(s', None)
  BY <1>2, <1>3, <1>7, <1>9, <1>10, <1>11, <1>12, PhaseKeeps
<1> QED BY <1>1, <1>13 DEF IInv

-----------------------------------------------------------------------------
(***************************************************************************)
(* The theorems.                                                            *)
(***************************************************************************)
LEMMA InitInv == Init => IInv
<1> SUFFICES ASSUME Init PROVE IInv
  OBVIOUS
<1>1. s \in State
  <2>1. <<>> \in Seq(Files)
    OBVIOUS
  <2> QED BY <2>1 DEF Init, State, DownStates, Sockets, Phases
<1>2. Cardinality({}) = 0
  BY FS_EmptySet
<1>3. \A f \in Files : Valid(s, f) = {} /\ NotCurrent(s, f) = {} /\ Having(s, f) = {}
  BY SourcesAssumption DEF Init, Valid, NotCurrent, Having
<1>4. Counted(s)
  BY <1>2, <1>3 DEF Counted, CountedStates, CountedParts, Init
<1>5. \A c \in Clients : Fits(s, c) /\ Left(s, None, c)
  BY SourcesAssumption DEF Init, Fits, Listed, Behaves, Left
<1>6. Ended(s, None) /\ job = None
  BY DEF Init, Ended
<1> QED BY <1>1, <1>4, <1>5, <1>6 DEF IInv, Inv, Jobs

\* Every action keeps the invariant.
LEMMA NextInv == IInv /\ [Next]_vars => IInv'
<1> SUFFICES ASSUME IInv, [Next]_vars PROVE IInv'
  OBVIOUS
<1>1. CASE FindNext
  BY <1>1, FindKeeps DEF FindNext
<1>2. CASE ProcessNext
  BY <1>2, AskKeeps, ProcessKeeps DEF ProcessNext
<1>3. CASE ClientNext
  BY <1>3, ClientKeeps DEF ClientNext
<1>4. CASE AnswerNext
  BY <1>4, AnswerKeeps, UdpKeeps DEF AnswerNext
<1>5. CASE FileNext
  BY <1>5, FileKeeps, ProcessKeeps DEF FileNext
<1>6. CASE LoopNext
  BY <1>6, EvictNextKeeps, EvictEndsKeeps DEF LoopNext
<1>7. CASE UNCHANGED vars
  BY <1>7 DEF vars, IInv
<1> QED BY <1>1, <1>2, <1>3, <1>4, <1>5, <1>6, <1>7 DEF Next

\* What the inductive invariant says of the lists and counters of a file: the
\* counters count peers, so they are not negative, and the sources of a file are
\* those who are asked for it.
LEMMA InvWellFormed == IInv => SourcesWellFormed
<1> SUFFICES ASSUME IInv PROVE SourcesWellFormed
  OBVIOUS
<1>1. s \in State /\ job \in Jobs /\ Counted(s)
  BY DEF IInv, Inv
<1>2. ListsAgree
  BY DEF IInv, Inv, Fits, Listed, ListsAgree
<1>3. ASSUME NEW f \in Files
      PROVE  /\ {c \in s.src[f] : CountsValid(s.ds[c])} = Valid(s, f)
             /\ {c \in s.src[f] : CountsNotCurrent(s.ds[c])} = NotCurrent(s, f)
             /\ {c \in s.src[f] : s.has[c]} = Having(s, f)
  <2>1. s.src[f] = {c \in Clients : s.req[c] = f}
    BY <1>1, <1>2, StateTypes DEF ListsAgree
  <2> QED BY <2>1 DEF Valid, NotCurrent, Having
<1>4. CountersAgree
  BY <1>1, <1>3 DEF CountersAgree, Counted, CountedStates, CountedParts
<1>5. ASSUME NEW f \in Files
      PROVE  s.valid[f] \in Nat /\ s.notCurrent[f] \in Nat /\ s.freq[f] \in Nat
  <2>1. /\ IsFiniteSet(Valid(s, f)) /\ IsFiniteSet(NotCurrent(s, f))
        /\ IsFiniteSet(Having(s, f))
    <3>1. /\ Valid(s, f) \in SUBSET Clients /\ NotCurrent(s, f) \in SUBSET Clients
          /\ Having(s, f) \in SUBSET Clients
      BY DEF Valid, NotCurrent, Having
    <3> QED BY <3>1, FiniteAssumption, FS_Subset
  <2>2. /\ Cardinality(Valid(s, f)) \in Nat /\ Cardinality(NotCurrent(s, f)) \in Nat
        /\ Cardinality(Having(s, f)) \in Nat
    BY <2>1, FS_CardinalityType
  <2> QED BY <1>1, <2>2 DEF Counted, CountedStates, CountedParts
<1>6. TypeOK
  <2>1. /\ s.valid \in [Files -> Nat] /\ s.notCurrent \in [Files -> Nat]
        /\ s.freq \in [Files -> Nat]
    BY <1>1, <1>5, StateTypes
  <2> QED BY <1>1, <2>1 DEF State, TypeOK
<1> QED BY <1>2, <1>4, <1>6 DEF SourcesWellFormed

\* The invariant says that nobody is left behind.
LEMMA InvNobodyLeft == IInv => NobodyLeftBehind
<1> SUFFICES ASSUME IInv PROVE NobodyLeftBehind
  OBVIOUS
<1>1. s \in State
  BY DEF IInv, Inv
<1>2. ASSUME NEW c \in Clients \ s.alive
      PROVE  s.req[c] = None /\ s.other[c] = {}
  <2>1. Fits(s, c)
    BY DEF IInv, Inv
  <2>2. s.req[c] = None
    BY <2>1 DEF Fits, Behaves
  <2>3. \A f \in Files : f \notin s.other[c]
    BY <2>1, <2>2 DEF Fits, Listed
  <2> QED BY <1>1, <2>2, <2>3, StateTypes
<1>3. ASSUME NEW f \in Files, f \in s.stopped, Idle
      PROVE  s.src[f] = {} /\ s.a4af[f] = {}
  <2>1. \A c \in Clients : Fits(s, c) /\ Left(s, None, c)
    BY <1>3, IdleInv DEF Inv
  <2>2. \A c \in Clients : c \notin s.src[f] /\ c \notin s.a4af[f]
    BY <1>3, <2>1 DEF Fits, Listed, Left
  <2> QED BY <1>1, <2>2, StateTypes
<1>4. \A f \in Files : s.phase[f] = "gone" => f \in s.stopped
  BY DEF IInv, Inv, Ended
<1> QED BY <1>2, <1>3, <1>4 DEF NobodyLeftBehind

\* The invariant says that no state outlives its connection.
LEMMA InvWaits == IInv => WaitsOnSocket
BY DEF IInv, Inv, Fits, Behaves, WaitsOnSocket

\* The inductive invariant holds: each source belongs where its fields say, and
\* the counters are right, whatever order the handlers run in.
THEOREM SourcesInv == Spec => []IInv
BY InitInv, NextInv, PTL DEF Spec

\* The lists of the files, the fields of the clients and the counters of the
\* files tell one story (SetDownloadState, SetRequestFile, SwapToAnotherFile,
\* RemoveSource and all who call them), and no counter goes below zero.
THEOREM SourcesAreWellFormed == Spec => []SourcesWellFormed
BY SourcesInv, InvWellFormed, PTL

\* No list holds a client that was deleted, and no client stays at a file that is
\* stopped, finished or deleted (RemoveAllSources, Safe_Delete).
THEOREM NobodyIsLeftBehind == Spec => []NobodyLeftBehind
BY SourcesInv, InvNobodyLeft, PTL

\* DS_CONNECTING, DS_CONNECTED and an unanswered request never outlive the
\* connection they wait for (Disconnected, ConnectionEstablished, Safe_Delete).
THEOREM NoStateOutlivesItsSocket == Spec => []WaitsOnSocket
BY SourcesInv, InvWaits, PTL
=============================================================================
