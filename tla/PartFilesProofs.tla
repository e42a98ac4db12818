--------------------------- MODULE PartFilesProofs ---------------------------
(***************************************************************************)
(* What holds of part files for any files, parts and faults.                *)
(*                                                                          *)
(* The scheduler's own proofs, instantiated here, say what becomes of the   *)
(* tasks.  An invariant ties each file to the tasks and events it waits     *)
(* for, and says what is on the disk at each stage; every operator of a     *)
(* state is shown to keep it, and to lose no part that is there for good.   *)
(***************************************************************************)
EXTENDS PartFiles, FunctionTheorems, FiniteSetTheorems, SequenceTheorems, TLAPS

\* The proofs about the scheduler this module shares with TaskService.
SP == INSTANCE ThreadSchedulerProofs WITH
  Descs    <- Tasks,
  Desc     <- [t \in Tasks |-> t],
  Priority <- [t \in Tasks |-> IF t = Sync THEN 0 ELSE 2],
  Hashing  <- {"hash"} \X Files,
  Unhashed <- {},
  MaxBound <- 0,
  q        <- s.q

-----------------------------------------------------------------------------
(***************************************************************************)
(* The scheduler.                                                           *)
(***************************************************************************)
\* The scheduler of a running program, in order.
Booked(Q) == SP!Good(Q) /\ SP!Awake(Q) /\ Q.running

\* The tasks of files that have not ended.
Awaited(Q) ==
  {t \in FileTasks : \/ t \in Scheduler!Listed(Q.tasks)
                     \/ t = Q.current /\ Q.pc = "working"}

\* The task that has ended and still has its entry in m_taskDescs.
Left(Q) == IF Q.pc = "done" THEN Q.current ELSE NoTask

\* What the proofs of the scheduler assume.
LEMMA SchedulerAssumption ==
  LET D == [t \in Tasks |-> t]
      P == [t \in Tasks |-> IF t = Sync THEN 0 ELSE 2]
  IN
  /\ NoTask \notin Tasks
  /\ D \in [Tasks -> Tasks]
  /\ P \in [Tasks -> Nat]
  /\ Sync \in Tasks /\ D[Sync] \notin {"hash"} \X Files
  /\ {} \subseteq Tasks /\ SP!IsFiniteSet({})
  /\ \A t, u \in {} : D[t] = D[u] => t = u
<1>1. IsFiniteSet({})
  BY FS_EmptySet
<1>2. SP!IsFiniteSet({})
  BY <1>1 DEF IsFiniteSet, SP!IsFiniteSet
<1> QED BY <1>2, TasksAssumption DEF Tasks, FileTasks

\* The definitions the proofs of the scheduler speak of are those used here.
LEMMA SameScheduler ==
  ASSUME NEW Q, NEW t, NEW p, NEW T
  PROVE  /\ Scheduler!AddTask(Q, t) = SP!AddTask(Q, t)
         /\ Scheduler!Push(Q, p) = SP!Push(Q, p)
         /\ Scheduler!Cleanup(Q) = SP!Cleanup(Q)
         /\ Scheduler!Loop(Q) = SP!Loop(Q)
         /\ Scheduler!Finished(Q) = SP!Finished(Q)
         /\ Scheduler!Listed(p) = SP!Listed(p)
         /\ Scheduler!Blank = SP!Blank
         /\ Scheduler!State = SP!State
<1>1. /\ Scheduler!Push(Q, p) = SP!Push(Q, p)
      /\ Scheduler!Listed(p) = SP!Listed(p)
      /\ Scheduler!Blank = SP!Blank
      /\ Scheduler!State = SP!State
  BY DEF Scheduler!Push, SP!Push, Scheduler!Listed, SP!Listed,
         Scheduler!Blank, SP!Blank, Scheduler!State, SP!State
<1>2. /\ Scheduler!AddTask(Q, t) = SP!AddTask(Q, t)
      /\ Scheduler!Cleanup(Q) = SP!Cleanup(Q)
  BY DEF Scheduler!AddTask, SP!AddTask, Scheduler!Cleanup, SP!Cleanup,
         Scheduler!CreateSchedulerThread, SP!CreateSchedulerThread,
         Scheduler!IsAlive, SP!IsAlive, Scheduler!Push, SP!Push,
         Scheduler!Listed, SP!Listed
<1>3. Scheduler!Loop(Q) = SP!Loop(Q)
  BY DEF Scheduler!Loop, SP!Loop, Scheduler!Leave, SP!Leave,
         Scheduler!Select, SP!Select, Scheduler!Resorted, SP!Resorted,
         Scheduler!Place, SP!Place, Scheduler!Goes, SP!Goes,
         Scheduler!Cardinality, SP!Cardinality,
         Scheduler!IsFiniteSet, SP!IsFiniteSet
<1>4. Scheduler!Finished(Q) = SP!Finished(Q)
  BY DEF Scheduler!Finished, SP!Finished,
         Scheduler!CheckAICHHashes, SP!CheckAICHHashes,
         Scheduler!Orders, SP!Orders, Scheduler!Push, SP!Push,
         Scheduler!Listed, SP!Listed,
         Scheduler!Cardinality, SP!Cardinality,
         Scheduler!IsFiniteSet, SP!IsFiniteSet
<1> QED BY <1>1, <1>2, <1>3, <1>4

\* The fields of a scheduler in order.
LEMMA BookedType ==
  ASSUME NEW Q, Booked(Q)
  PROVE  /\ Q \in Scheduler!State
         /\ Q.tasks \in Seq(Tasks)
         /\ Q.pc \in {"entry", "working", "done"}
         /\ Q.current \in Tasks \cup {NoTask}
         /\ Q.current = NoTask <=> Q.pc = "entry"
         /\ Q.current \notin Scheduler!Listed(Q.tasks)
         /\ Scheduler!Listed(Q.tasks) \in SUBSET Tasks
         /\ Q.descs = Scheduler!Listed(Q.tasks) \cup ({Q.current} \ {NoTask})
         /\ Q.running /\ ~Q.terminated
<1>1. Q \in SP!State /\ SP!Books(Q) /\ SP!Awake(Q) /\ Q.running
  BY DEF Booked, SP!Good
<1>2. /\ Q.tasks \in Seq(Tasks) /\ Q.pc \in {"entry", "working", "done"}
      /\ Q.current \in Tasks \cup {NoTask}
  BY <1>1 DEF SP!State
<1>3. /\ Q.current = NoTask <=> Q.pc = "entry"
      /\ ~Q.terminated
  BY <1>1 DEF SP!Awake
<1>4. \A i \in 1..Len(Q.tasks) : Q.tasks[i] \in Tasks
  BY <1>2, ElementOfSeq
<1>5. Scheduler!Listed(Q.tasks) = SP!Listed(Q.tasks)
  BY SameScheduler
<1>6. Scheduler!Listed(Q.tasks) \in SUBSET Tasks
  BY <1>4 DEF Scheduler!Listed
<1>7. Q.current \notin Scheduler!Listed(Q.tasks)
  BY <1>1, <1>2, <1>5, <1>6, TasksAssumption DEF SP!Books
<1>8. Q.descs = Scheduler!Listed(Q.tasks) \cup ({Q.current} \ {NoTask})
  <2>1. Q.descs = {[t \in Tasks |-> t][u] :
                     u \in Scheduler!Listed(Q.tasks) \cup ({Q.current} \ {NoTask})}
    BY <1>1, <1>5 DEF SP!Books
  <2>2. Scheduler!Listed(Q.tasks) \cup ({Q.current} \ {NoTask}) \in SUBSET Tasks
    BY <1>2, <1>6
  <2> QED BY <2>1, <2>2
<1>9. Q \in Scheduler!State
  BY <1>1, SameScheduler
<1> QED BY <1>1, <1>2, <1>3, <1>6, <1>7, <1>8, <1>9

\* A task that is neither awaited nor left is accepted.
LEMMA AddTaskBooked ==
  ASSUME NEW Q, Booked(Q), NEW t \in FileTasks, t \notin Awaited(Q), t # Left(Q)
  PROVE  LET R == Scheduler!AddTask(Q, t) IN
         /\ Booked(R) /\ Left(R) = Left(Q)
         /\ Awaited(R) = Awaited(Q) \cup {t}
<1> DEFINE R == Scheduler!AddTask(Q, t)
<1>1. t \in Tasks /\ t # NoTask /\ t # Sync
  BY TasksAssumption DEF Tasks
<1>2. /\ Q.tasks \in Seq(Tasks)
      /\ Q.pc \in {"entry", "working", "done"}
      /\ Q.current = NoTask <=> Q.pc = "entry"
      /\ Q.descs = Scheduler!Listed(Q.tasks) \cup ({Q.current} \ {NoTask})
      /\ ~Q.terminated
  BY BookedType
<1>3. t \notin Q.descs
  BY <1>1, <1>2 DEF Awaited, Left
<1>4. [u \in Tasks |-> u][t] = t
  BY <1>1
<1>5. R = SP!AddTask(Q, t)
  BY SameScheduler
<1>6. SP!Good(Q) /\ SP!Awake(Q) /\ Q.running
  BY DEF Booked
<1>7. /\ SP!Good(R) /\ SP!Awake(R)
      /\ R.tasks = Q.tasks \o <<t>>
      /\ R.current = Q.current /\ R.pc = Q.pc
      /\ R.running = Q.running
  <2> HIDE DEF R
  <2>1. \/ (Q.terminated \/ [u \in Tasks |-> u][t] \in Q.descs) /\ R = Q
        \/ /\ SP!Good(R) /\ SP!Awake(R)
           /\ R.tasks = Q.tasks \o <<t>>
           /\ R.current = Q.current /\ R.pc = Q.pc
           /\ R.running = Q.running
    BY <1>1, <1>5, <1>6, SchedulerAssumption, SP!AddTaskKeeps
  <2> QED BY <2>1, <1>2, <1>3, <1>4
<1> HIDE DEF R
<1>8. Scheduler!Listed(R.tasks) = Scheduler!Listed(Q.tasks) \cup {t}
  <2>1. <<t>> \in Seq(Tasks) /\ SP!Listed(<<t>>) = {t}
    BY <1>1 DEF SP!Listed
  <2>2. SP!Listed(Q.tasks \o <<t>>) = SP!Listed(Q.tasks) \cup SP!Listed(<<t>>)
    BY <2>1, <1>2, SchedulerAssumption, SP!Appending
  <2> QED BY <2>1, <2>2, <1>7, SameScheduler
<1>9. Left(R) = Left(Q) /\ Awaited(R) = Awaited(Q) \cup {t}
  BY <1>7, <1>8 DEF Left, Awaited
<1> QED BY <1>6, <1>7, <1>9 DEF Booked, R

\* A task that ends is left, and no other task comes or goes.
LEMMA FinishedBooked ==
  ASSUME NEW Q, Booked(Q), Q.pc = "working", NEW R \in Scheduler!Finished(Q)
  PROVE  /\ Booked(R) /\ Left(R) = Q.current
         /\ Awaited(R) = Awaited(Q) \ {Q.current}
<1>1. SP!Good(Q) /\ SP!Awake(Q) /\ Q.running
  BY DEF Booked
<1>2. R \in SP!Finished(Q)
  BY SameScheduler
<1>3. /\ Q.tasks \in Seq(Tasks)
      /\ Q.current \notin Scheduler!Listed(Q.tasks)
  BY BookedType
<1>4. /\ SP!Good(R) /\ SP!Awake(R)
      /\ R.current = Q.current /\ R.pc = "done"
      /\ R.running = Q.running
      /\ \/ R.tasks = Q.tasks
         \/ \E T \in SUBSET {} : \E p \in SP!Orders(T) :
              SP!Welcome(p, Q) /\ R.tasks = Q.tasks \o p
  BY <1>1, <1>2, SchedulerAssumption, SP!FinishedKeeps
<1>5. Scheduler!Listed(R.tasks) = Scheduler!Listed(Q.tasks)
  <2>1. CASE R.tasks = Q.tasks
    BY <2>1
  <2>2. ASSUME NEW T \in SUBSET {}, NEW p \in SP!Orders(T),
               SP!Welcome(p, Q), R.tasks = Q.tasks \o p
        PROVE  Scheduler!Listed(R.tasks) = Scheduler!Listed(Q.tasks)
    <3>1. p \in Seq(Tasks)
      BY <2>2 DEF SP!Welcome
    <3>2. p \in [1..SP!Cardinality(T) -> {}]
      BY DEF SP!Orders
    <3>3. Len(p) \in Nat /\ DOMAIN p = 1..Len(p)
      BY <3>1, LenProperties
    <3>4. \A i \in 1..Len(p) : FALSE
      BY <3>2, <3>3
    <3>5. SP!Listed(p) = {}
      BY <3>4 DEF SP!Listed
    <3>6. SP!Listed(Q.tasks \o p) = SP!Listed(Q.tasks) \cup SP!Listed(p)
      BY <3>1, <1>3, SchedulerAssumption, SP!Appending
    <3> QED BY <3>5, <3>6, <2>2, SameScheduler
  <2> QED BY <2>1, <2>2, <1>4
<1>6. Left(R) = Q.current /\ Awaited(R) = Awaited(Q) \ {Q.current}
  BY <1>3, <1>4, <1>5 DEF Left, Awaited
<1> QED BY <1>1, <1>4, <1>6 DEF Booked

\* Between two tasks the entry of the one that has ended is erased, and the
\* tasks awaited are the same: the first of them has become the current one.
LEMMA LoopBooked ==
  ASSUME NEW Q, Booked(Q), Q.bound > 0, Q.pc # "working"
  PROVE  LET R == Scheduler!Loop(IF Q.pc = "done" THEN Scheduler!Cleanup(Q) ELSE Q) IN
         /\ Booked(R) /\ Left(R) = NoTask
         /\ Awaited(R) = Awaited(Q)
<1> DEFINE C == IF Q.pc = "done" THEN Scheduler!Cleanup(Q) ELSE Q
           R == Scheduler!Loop(C)
<1>1. SP!Good(Q) /\ SP!Awake(Q) /\ Q.running /\ ~Q.terminated
  BY DEF Booked, SP!Awake
<1>2. /\ Q.tasks \in Seq(Tasks) /\ Q.pc \in {"entry", "done"}
      /\ Q.current = NoTask <=> Q.pc = "entry"
  BY BookedType
<1>3. Sync \notin FileTasks
  BY TasksAssumption
<1>4. /\ SP!Good(C) /\ C.current = NoTask
      /\ C.bound > 0 /\ C.running /\ ~C.terminated
      /\ C.ended => C.tasks = <<>>
      /\ Scheduler!Listed(C.tasks) \cap FileTasks = Scheduler!Listed(Q.tasks) \cap FileTasks
  <2>1. CASE Q.pc = "done"
    <3>1. C = SP!Cleanup(Q)
      BY <2>1, SameScheduler
    <3> HIDE DEF C
    <3>2. /\ SP!Good(C) /\ C.current = NoTask
          /\ C.bound > 0 /\ ~C.ended
          /\ C.running /\ ~C.terminated
          /\ \E p \in {<<>>, <<Sync>>} : p \in Seq(Tasks) /\ C.tasks = Q.tasks \o p
      BY <3>1, <2>1, <1>1, SchedulerAssumption, SP!CleanupKeeps
    <3>3. PICK p \in {<<>>, <<Sync>>} : p \in Seq(Tasks) /\ C.tasks = Q.tasks \o p
      BY <3>2
    <3>4. SP!Listed(p) \subseteq {Sync}
      BY <3>3 DEF SP!Listed
    <3>5. SP!Listed(Q.tasks \o p) = SP!Listed(Q.tasks) \cup SP!Listed(p)
      BY <3>3, <1>2, SchedulerAssumption, SP!Appending
    <3>6. Scheduler!Listed(C.tasks) = Scheduler!Listed(Q.tasks) \cup SP!Listed(p)
      BY <3>3, <3>5, SameScheduler
    <3> QED BY <3>2, <3>4, <3>6, <1>3
  <2>2. CASE Q.pc = "entry"
    <3>1. C = Q
      BY <2>2
    <3>2. Q.ended => Q.tasks = <<>>
      BY <1>1 DEF SP!Awake
    <3> HIDE DEF C
    <3> QED BY <3>1, <3>2, <2>2, <1>1, <1>2
  <2> QED BY <2>1, <2>2, <1>2
<1> HIDE DEF C
<1>5. R = SP!Loop(C)
  BY SameScheduler
<1> HIDE DEF R
<1>6. /\ SP!Good(R) /\ SP!Awake(R)
      /\ R.running = C.running
      /\ \/ C.tasks = <<>> /\ R.tasks = <<>> /\ R.current = NoTask
         \/ \E x \in Seq(Tasks) :
              /\ x # <<>> /\ SP!Distinct(x) /\ SP!Ranked(x)
              /\ SP!Listed(x) = SP!Listed(C.tasks)
              /\ R.tasks = Tail(x) /\ R.current = Head(x) /\ R.pc = "working"
  BY <1>4, <1>5, SchedulerAssumption, SP!LoopKeeps
<1>7. /\ \A t \in FileTasks : t # NoTask
      /\ R.current = NoTask <=> R.pc = "entry"
  BY <1>6, TasksAssumption DEF SP!Awake, Tasks
<1>8. Awaited(Q) = Scheduler!Listed(C.tasks) \cap FileTasks
  BY <1>2, <1>4 DEF Awaited
<1>9. ASSUME C.tasks = <<>>, R.tasks = <<>>, R.current = NoTask
      PROVE  Left(R) = NoTask /\ Awaited(R) = Awaited(Q)
  <2>1. Scheduler!Listed(<<>>) = {}
    BY DEF Scheduler!Listed
  <2>2. Awaited(R) = {} /\ Awaited(Q) = {}
    BY <2>1, <1>7, <1>8, <1>9 DEF Awaited
  <2> QED BY <2>2, <1>7, <1>9 DEF Left
<1>10. ASSUME NEW x \in Seq(Tasks), x # <<>>, SP!Distinct(x), SP!Ranked(x),
              SP!Listed(x) = SP!Listed(C.tasks),
              R.tasks = Tail(x), R.current = Head(x), R.pc = "working"
       PROVE  Left(R) = NoTask /\ Awaited(R) = Awaited(Q)
  <2>1. /\ Head(x) \in SP!Listed(x)
        /\ SP!Listed(Tail(x)) = SP!Listed(x) \ {Head(x)}
    BY <1>10, SchedulerAssumption, SP!TakingFirst
  <2>2. /\ Scheduler!Listed(C.tasks) = SP!Listed(C.tasks)
        /\ Scheduler!Listed(R.tasks) = SP!Listed(R.tasks)
    BY SameScheduler
  <2> QED BY <2>1, <2>2, <1>8, <1>10 DEF Left, Awaited
<1> QED BY <1>4, <1>6, <1>9, <1>10 DEF Booked, R, C

\* A program that has just started has no tasks.
LEMMA FreshBooked ==
  /\ SP!Good(Fresh) /\ Fresh \in SP!State
  /\ Fresh.tasks = <<>> /\ Fresh.descs = {}
  /\ Fresh.current = NoTask /\ Fresh.pc = "entry" /\ Fresh.ended = FALSE
  /\ Fresh.running = TRUE /\ Fresh.terminated = FALSE
  /\ Booked(Fresh) /\ Left(Fresh) = NoTask /\ Awaited(Fresh) = {}
<1> DEFINE B == Scheduler!Blank
           I == Fresh
<1>1. /\ B \in SP!State
      /\ B.tasks = <<>> /\ B.dirty = FALSE /\ B.descs = {}
      /\ B.current = NoTask /\ B.pc = "entry" /\ B.ended = FALSE
      /\ B.bound = 0 /\ B.running = FALSE /\ B.terminated = FALSE
  BY SameScheduler, SchedulerAssumption, SP!BlankFields
<1>2. /\ I \in SP!State
      /\ I.tasks = <<>> /\ I.dirty = FALSE /\ I.descs = {}
      /\ I.current = NoTask /\ I.pc = "entry" /\ I.ended = FALSE
      /\ I.bound = 0 /\ I.running = TRUE /\ I.terminated = FALSE
  <2> HIDE DEF B
  <2> QED BY <1>1 DEF SP!State, Fresh, B
<1> HIDE DEF B, I
<1>3. \A i \in 1..Len(<<>>) : FALSE
  OBVIOUS
<1>4. SP!Good(I)
  <2>1. SP!Listed(<<>>) = {} /\ SP!Distinct(<<>>) /\ SP!Ranked(<<>>)
    BY <1>3 DEF SP!Listed, SP!Distinct, SP!Ranked
  <2>2. SP!Books(I)
    BY <2>1, <1>2 DEF SP!Books
  <2>3. SP!Sorting(I)
    BY <2>1, <1>2 DEF SP!Sorting
  <2> QED BY <2>2, <2>3, <1>2 DEF SP!Good
<1>5. SP!Awake(I)
  BY <1>2 DEF SP!Awake
<1>6. Left(I) = NoTask /\ Awaited(I) = {}
  <2>1. Scheduler!Listed(<<>>) = {}
    BY <1>3 DEF Scheduler!Listed
  <2> QED BY <2>1, <1>2 DEF Left, Awaited
<1> QED BY <1>2, <1>4, <1>5, <1>6 DEF Booked, I

\* A new scheduler that has been given the tasks of T, one by one.
LEMMA RestartBooked ==
  ASSUME NEW T \in SUBSET FileTasks, IsFiniteSet(T), NEW p \in Scheduler!Orders(T)
  PROVE  LET R == [Scheduler!Push(Fresh, p) EXCEPT !.bound = Len(p)] IN
         Booked(R) /\ Left(R) = NoTask /\ Awaited(R) = T
<1> DEFINE n == Cardinality(T)
           I == Fresh
           P == Scheduler!Push(I, p)
           R == [P EXCEPT !.bound = Len(p)]
<1>1. n \in Nat /\ IsFiniteSet(1..n) /\ Cardinality(1..n) = n
  <2>1. n \in Nat
    BY FS_CardinalityType
  <2>2. IsFiniteSet(1..n) /\ Cardinality(1..n) = IF 1 > n THEN 0 ELSE n - 1 + 1
    BY <2>1, FS_Interval
  <2> QED BY <2>1, <2>2
<1>2. /\ p \in [1..n -> T]
      /\ \A i, j \in 1..n : i # j => p[i] # p[j]
  BY DEF Scheduler!Orders, Scheduler!Cardinality, Cardinality, Scheduler!IsFiniteSet, IsFiniteSet
<1>3. p \in Surjection(1..n, T)
  <2> HIDE DEF n
  <2>1. p \in Injection(1..n, T)
    BY <1>2 DEF Injection, IsInjective
  <2>2. Cardinality(1..n) = Cardinality(T) <=> p \in Surjection(1..n, T)
    BY <2>1, FS_Injection
  <2> QED BY <2>2, <1>1 DEF n
<1> HIDE DEF n
<1>4. T \in SUBSET Tasks /\ NoTask \notin Tasks
  BY TasksAssumption DEF Tasks
<1>5. p \in Seq(Tasks) /\ Len(p) = n
  BY <1>1, <1>2, <1>4
<1>6. Scheduler!Listed(p) = T
  <2>1. \A t \in T : \E i \in 1..n : p[i] = t
    BY <1>3 DEF Surjection
  <2> QED BY <2>1, <1>2, <1>5 DEF Scheduler!Listed
<1>7. /\ SP!Good(I) /\ I \in SP!State
      /\ I.tasks = <<>> /\ I.descs = {}
      /\ I.current = NoTask /\ I.pc = "entry" /\ I.ended = FALSE
      /\ I.running = TRUE /\ I.terminated = FALSE
  BY FreshBooked
<1> HIDE DEF I
<1>8. SP!Welcome(p, I)
  <2>1. \A i \in 1..Len(p) : p[i] \in Tasks
    BY <1>5, ElementOfSeq
  <2> QED BY <2>1, <1>2, <1>5, <1>7 DEF SP!Welcome, SP!Distinct
<1>9. /\ SP!Good(P)
       /\ P.tasks = I.tasks \o p
       /\ P.current = I.current /\ P.pc = I.pc /\ P.ended = I.ended
       /\ P.running = I.running /\ P.terminated = I.terminated
  <2>1. P = SP!Push(I, p)
    BY SameScheduler
  <2> HIDE DEF P
  <2> QED BY <2>1, <1>7, <1>8, SchedulerAssumption, SP!PushKeeps
<1> HIDE DEF P
<1>10. P.tasks = p
  BY <1>5, <1>7, <1>9, ConcatEmptySeq
<1>11. /\ R \in SP!State
       /\ R.tasks = P.tasks /\ R.dirty = P.dirty /\ R.descs = P.descs
       /\ R.current = P.current /\ R.pc = P.pc /\ R.ended = P.ended
       /\ R.running = P.running /\ R.terminated = P.terminated
       /\ R.bound = n
  BY <1>1, <1>5, <1>9 DEF SP!Good, SP!State
<1> HIDE DEF R
<1>12. SP!Good(R)
  BY <1>9, <1>11 DEF SP!Good, SP!Books, SP!Sorting
<1>13. SP!Awake(R)
  <2>1. p # <<>> => n > 0
    BY <1>1, <1>5, EmptySeq
  <2> QED BY <2>1, <1>7, <1>9, <1>10, <1>11 DEF SP!Awake
<1>14. Left(R) = NoTask /\ Awaited(R) = T
  BY <1>4, <1>6, <1>7, <1>9, <1>10, <1>11 DEF Left, Awaited
<1> QED BY <1>7, <1>9, <1>11, <1>12, <1>13, <1>14 DEF Booked, R, P, I

-----------------------------------------------------------------------------
(***************************************************************************)
(* The inductive invariant.  For a file F of Files in a state with the      *)
(* awaited tasks A, the events E and the task L that is left:               *)
(***************************************************************************)
Told(E, t) == \E i \in 1..Len(E) : E[i].task = t

\* The tasks of f whose end the file has not been told of.
Due(A, E, f) == {t \in FileTasks : t[2] = f /\ (t \in A \/ Told(E, t))}

\* The status says which task is due, and whether there is one; only a file
\* that is ready has parts in its buffer.
Stage(F, D, f) ==
  /\ \A t, u \in D : t = u
  /\ F.list \in {"unborn", "completed"} => D = {}
  /\ F.list # "queue" => F.buffer = Nothing(f)
  /\ F.list \in {"unborn", "gone"} => F.part = Gone /\ F.met = Gone
  /\ F.list = "queue" =>
       /\ F.status # "complete"
       /\ F.status \in {"ready", "error"} => D = {}
       /\ F.status = "allocating" => D \subseteq {<<"allocate", f>>}
       /\ F.status = "waitingforhash" => D \subseteq {<<"hash", f>>}
       /\ F.status = "completing" => D \subseteq {<<"hash", f>>, <<"complete", f>>}
       /\ F.status # "ready" => F.buffer = Nothing(f)
       /\ F.status = "allocating" => F.gaps = Parts(f)
       /\ F.status = "completing" => F.gaps = {}
       /\ F.part # Gone => F.met # Gone
       /\ "hash" \notin Faults =>
            (F.status \in {"allocating", "waitingforhash", "completing"} => D # {})

\* A task whose entry is still there: nothing can order it again meanwhile.
Behind(F, D, L, f) ==
  /\ L \in {"allocate", "hash", "complete"} \X {f} =>
       F.list # "unborn" /\ F.buffer = Nothing(f)
  /\ L = <<"complete", f>> => D \subseteq {<<"complete", f>>}

\* Only completion takes the .part file away, and a hashing task reads what is
\* still there when its event is handled.
OnDisk(F, A, E, f) ==
  F.list = "queue" =>
    /\ F.part = Gone =>
         \E i \in 1..Len(E) : E[i].task = <<"complete", f>> /\ E[i].ok
    /\ <<"hash", f>> \in A => F.part # Nothing(f)
    /\ \A i \in 1..Len(E) : E[i].task = <<"hash", f>> => E[i].seen = F.part

\* The target file is whole, but for a copy that failed.
Arrived(F, f) ==
  \/ F.target = Whole(f)
  \/ "copy" \in Faults /\ F.target = Nothing(f)

\* As long as writing does not fail: what is moved has been found whole, and
\* the .part.met file knows all parts that are there for good.
Sound(F, A, E, f) ==
  /\ F.list = "completed" => Arrived(F, f)
  /\ F.list = "queue" =>
       /\ <<"complete", f>> \in A => F.part = Whole(f)
       /\ \A i \in 1..Len(E) : E[i].task = <<"complete", f>> =>
            IF E[i].ok THEN Arrived(F, f) ELSE F.part = Whole(f)
       /\ F.status = "error" => F.part = Whole(f) /\ F.gaps = {}
       /\ F.met # Gone => Have(F) \cap F.met.gaps = {}

\* What is true of every file, given what the scheduler holds.
Fits(F, A, E, L, f) ==
  /\ Stage(F, Due(A, E, f), f)
  /\ Behind(F, Due(A, E, f), L, f)
  /\ OnDisk(F, A, E, f)
  /\ "write" \notin Faults => Sound(F, A, E, f)

\* ... in the state w.
FitsIn(w, f) == Fits(w.file[f], Awaited(w.q), w.events, Left(w.q), f)

\* A task is awaited or its event waits, and once only.
Once(A, E) ==
  /\ \A t \in A : ~Told(E, t)
  /\ \A i, j \in 1..Len(E) : E[i].task = E[j].task => i = j

\* The state w, but for the files of X.
InvBut(w, X) ==
  /\ w \in State
  /\ Booked(w.q)
  /\ Once(Awaited(w.q), w.events)
  /\ \A f \in Files \ X : FitsIn(w, f)

\* What every state satisfies.
Inv(w) == InvBut(w, {})

\* The inductive invariant.
IInv == Inv(s)

\* Nothing that is there for good in w is lost in v.
Grows(w, v) == \A f \in Files : Have(w.file[f]) \subseteq Have(v.file[f])

\* Nothing is lost where nothing happens.
LEMMA GrowsReflexive == ASSUME NEW w PROVE Grows(w, w)
BY DEF Grows

\* What two changes keep, the two together keep.
LEMMA GrowsTransitive ==
  ASSUME NEW u, NEW v, NEW w, Grows(u, v), Grows(v, w)
  PROVE  Grows(u, w)
BY DEF Grows

-----------------------------------------------------------------------------
(***************************************************************************)
(* Files.                                                                   *)
(***************************************************************************)
\* A file has parts, and what is there can be told from what is not.
LEMMA Content ==
  ASSUME NEW f \in Files
  PROVE  /\ PartCount[f] \in Nat \ {0} /\ 1 \in Parts(f) /\ PartCount[f] \in Parts(f)
         /\ Nothing(f) \in Contents(f) /\ Whole(f) \in Contents(f)
         /\ Nothing(f) # Whole(f)
         /\ Gone \notin Contents(f) /\ Gone \notin MetFile(f)
<1>1. PartCount[f] \in Nat \ {0}
  BY FilesAssumption
<1>2. 1 \in Parts(f) /\ PartCount[f] \in Parts(f)
  BY <1>1 DEF Parts
<1>3. Nothing(f) \in Contents(f) /\ Whole(f) \in Contents(f)
  BY DEF Nothing, Whole, Contents
<1>4. Nothing(f)[1] = "none" /\ Whole(f)[1] = "good"
  BY <1>2 DEF Nothing, Whole
<1>5. Gone \notin Contents(f)
  <2>1. ASSUME Gone \in Contents(f) PROVE FALSE
    <3>1. DOMAIN Gone = Parts(f)
      BY <2>1 DEF Contents
    <3>2. DOMAIN Gone = {}
      BY DEF Gone
    <3> QED BY <3>1, <3>2, <1>2
  <2> QED BY <2>1
<1>6. Gone \notin MetFile(f)
  <2>1. ASSUME Gone \in MetFile(f) PROVE FALSE
    <3>1. DOMAIN Gone = {"gaps", "paused", "dated"}
      BY <2>1 DEF MetFile
    <3>2. DOMAIN Gone = {}
      BY DEF Gone
    <3> QED BY <3>1, <3>2
  <2> QED BY <2>1
<1> QED BY <1>1, <1>2, <1>3, <1>4, <1>5, <1>6

\* G is the file F but for what the user sees of it and for a .part.met file
\* that has been written again.
Mild(F, G, f) ==
  /\ G \in FileState(f)
  /\ G.list = F.list /\ G.status = F.status /\ G.gaps = F.gaps
  /\ G.buffer = F.buffer /\ G.part = F.part /\ G.target = F.target
  /\ \/ G.met = F.met
     \/ F.part # Gone /\ G.met # Gone /\ G.met.gaps = F.gaps

\* Changing nothing is mild.
LEMMA MildReflexive ==
  ASSUME NEW f \in Files, NEW F \in FileState(f)
  PROVE  Mild(F, F, f)
BY DEF Mild

\* Two mild changes make one.
LEMMA MildTransitive ==
  ASSUME NEW f \in Files, NEW F, NEW G, NEW H, Mild(F, G, f), Mild(G, H, f)
  PROVE  Mild(F, H, f)
BY DEF Mild

\* Flags may change.
LEMMA FlagsMild ==
  ASSUME NEW f \in Files, NEW F \in FileState(f),
         NEW b \in BOOLEAN, NEW c \in BOOLEAN, NEW d \in BOOLEAN
  PROVE  /\ Mild(F, [F EXCEPT !.stopped = b], f)
         /\ Mild(F, [F EXCEPT !.open = b], f)
         /\ Mild(F, [F EXCEPT !.paused = b, !.insufficient = c], f)
         /\ Mild(F, [F EXCEPT !.paused = b, !.stopped = c, !.insufficient = d], f)
BY DEF Mild, FileState

\* PauseFile.
LEMMA PauseMild ==
  ASSUME NEW f \in Files, NEW F \in FileState(f), NEW b \in BOOLEAN
  PROVE  Mild(F, PauseFile(F, b), f)
<1>1. Mild(F, [F EXCEPT !.paused = TRUE, !.insufficient = b], f)
  BY FlagsMild
<1> QED BY <1>1, MildReflexive DEF PauseFile

\* SavePartFile.
LEMMA SaveMild ==
  ASSUME NEW f \in Files, NEW F \in FileState(f)
  PROVE  /\ Mild(F, SavePartFile(F), f)
         /\ F.status \notin {"waitingforhash", "complete"} /\ F.part # Gone =>
              SavePartFile(F).met # Gone /\ SavePartFile(F).met.gaps = F.gaps
<1> DEFINE m == [gaps |-> F.gaps, paused |-> F.paused, dated |-> TRUE]
           G == [F EXCEPT !.met = m]
<1>1. m \in MetFile(f) /\ m # Gone /\ m.gaps = F.gaps
  <2>1. m \in MetFile(f)
    BY DEF FileState, MetFile
  <2> QED BY <2>1, Content
<1> HIDE DEF m
<1>2. /\ G \in FileState(f) /\ G.met = m
      /\ G.list = F.list /\ G.status = F.status /\ G.gaps = F.gaps
      /\ G.buffer = F.buffer /\ G.part = F.part /\ G.target = F.target
  BY <1>1 DEF FileState
<1>3. SavePartFile(F) = IF F.status \in {"waitingforhash", "complete"} \/ F.part = Gone
                        THEN F ELSE G
  BY DEF SavePartFile, m
<1> HIDE DEF G
<1>4. F.part # Gone => Mild(F, G, f)
  BY <1>1, <1>2 DEF Mild
<1> QED BY <1>1, <1>2, <1>3, <1>4, MildReflexive

\* A mild change loses nothing, and the file fits as before.
LEMMA MildFits ==
  ASSUME NEW f \in Files, NEW F, NEW G, Mild(F, G, f)
  PROVE  /\ Have(G) = Have(F)
         /\ \A A, E, L : Fits(F, A, E, L, f) => Fits(G, A, E, L, f)
<1>1. Have(G) = Have(F)
  BY DEF Mild, Have
<1>2. ASSUME NEW A, NEW E, NEW L, Fits(F, A, E, L, f)
      PROVE  Fits(G, A, E, L, f)
  <2>1. Stage(G, Due(A, E, f), f)
    BY <1>2 DEF Fits, Stage, Mild
  <2>2. Behind(G, Due(A, E, f), L, f)
    BY <1>2 DEF Fits, Behind, Mild
  <2>3. OnDisk(G, A, E, f)
    BY <1>2 DEF Fits, OnDisk, Mild
  <2>4. ASSUME "write" \notin Faults PROVE Sound(G, A, E, f)
    <3>1. Sound(F, A, E, f)
      BY <1>2, <2>4 DEF Fits
    <3>2. Arrived(F, f) => Arrived(G, f)
      BY DEF Arrived, Mild
    <3>3. Have(F) \cap F.gaps = {}
      BY DEF Have
    <3> QED BY <3>1, <3>2, <3>3, <1>1 DEF Sound, Mild
  <2> QED BY <2>1, <2>2, <2>3, <2>4 DEF Fits
<1> QED BY <1>1, <1>2

-----------------------------------------------------------------------------
(***************************************************************************)
(* States.                                                                  *)
(***************************************************************************)
Events == UNION {Event(f) : f \in Files}

\* The fields of a state.
LEMMA StateType ==
  ASSUME NEW w \in State
  PROVE  /\ w.file \in [Files -> UNION {FileState(f) : f \in Files}]
         /\ \A f \in Files : w.file[f] \in FileState(f)
         /\ w.q \in Scheduler!State /\ w.events \in Seq(Events) /\ w.low \in BOOLEAN
BY DEF State, Events

\* A file is replaced.
LEMMA SetFile ==
  ASSUME NEW w \in State, NEW f \in Files, NEW G \in FileState(f)
  PROVE  LET v == [w EXCEPT !.file[f] = G] IN
         /\ v \in State
         /\ v.file[f] = G
         /\ \A g \in Files \ {f} : v.file[g] = w.file[g]
         /\ v.q = w.q /\ v.events = w.events /\ v.low = w.low
<1> DEFINE I == [w.file EXCEPT ![f] = G]
           v == [w EXCEPT !.file = I]
<1>1. [w EXCEPT !.file[f] = G] = v
  BY DEF State
<1>2. /\ I \in [Files -> UNION {FileState(g) : g \in Files}]
      /\ I[f] = G /\ \A g \in Files \ {f} : I[g] = w.file[g]
  BY StateType
<1>3. \A g \in Files : I[g] \in FileState(g)
  BY <1>2, StateType
<1> HIDE DEF I
<1>4. v \in State
  BY <1>2, <1>3 DEF State
<1>5. v.file = I /\ v.q = w.q /\ v.events = w.events /\ v.low = w.low
  BY DEF State
<1> HIDE DEF v
<1> QED BY <1>1, <1>2, <1>4, <1>5

\* The scheduler is replaced.
LEMMA SetScheduler ==
  ASSUME NEW w \in State, NEW Q, Booked(Q)
  PROVE  LET v == [w EXCEPT !.q = Q] IN
         /\ v \in State
         /\ v.q = Q /\ v.file = w.file /\ v.events = w.events /\ v.low = w.low
<1>1. Q \in Scheduler!State
  BY BookedType
<1> QED BY <1>1 DEF State

\* What is known of an event.
LEMMA EventType ==
  ASSUME NEW e \in Events
  PROVE  \E f \in Files :
           /\ e \in Event(f)
           /\ e.task \in FileTasks /\ e.task[2] = f
           /\ e.task \in {<<"allocate", f>>, <<"complete", f>>, <<"hash", f>>}
           /\ e.task = <<"hash", f>> => e.seen \in Contents(f)
           /\ e.task # <<"hash", f>> => e.ok \in BOOLEAN
<1>1. PICK f \in Files : e \in Event(f)
  BY DEF Events
<1>2. CASE e \in [task : {<<"allocate", f>>, <<"complete", f>>}, ok : BOOLEAN]
  <2>1. e.task \in {<<"allocate", f>>, <<"complete", f>>} /\ e.ok \in BOOLEAN
    BY <1>2
  <2> QED BY <2>1, <1>1 DEF FileTasks
<1>3. CASE e \in [task : {<<"hash", f>>}, seen : Contents(f)]
  <2>1. e.task = <<"hash", f>> /\ e.seen \in Contents(f)
    BY <1>3
  <2> QED BY <2>1, <1>1 DEF FileTasks
<1> QED BY <1>1, <1>2, <1>3 DEF Event

\* A file that fits is put in its place.
LEMMA Put ==
  ASSUME NEW w, NEW f \in Files, InvBut(w, {f}),
         NEW G \in FileState(f), Fits(G, Awaited(w.q), w.events, Left(w.q), f)
  PROVE  Inv([w EXCEPT !.file[f] = G])
<1> DEFINE v == [w EXCEPT !.file[f] = G]
<1>1. w \in State
  BY DEF InvBut
<1>2. /\ v \in State /\ v.file[f] = G
      /\ \A g \in Files \ {f} : v.file[g] = w.file[g]
      /\ v.q = w.q /\ v.events = w.events
  BY <1>1, SetFile
<1> HIDE DEF v
<1>3. \A g \in Files : FitsIn(v, g)
  BY <1>2 DEF FitsIn, InvBut
<1>4. Inv(v)
  BY <1>2, <1>3 DEF Inv, InvBut
<1> QED BY <1>4 DEF v

\* A file is put in its place together with a task of its own.
LEMMA PutAndAdd ==
  ASSUME NEW w, NEW f \in Files, InvBut(w, {f}), NEW G \in FileState(f),
         NEW k \in {"allocate", "hash", "complete"},
         <<k, f>> \notin Due(Awaited(w.q), w.events, f), Left(w.q) # <<k, f>>,
         Fits(G, Awaited(w.q) \cup {<<k, f>>}, w.events, Left(w.q), f)
  PROVE  Inv(AddTask([w EXCEPT !.file[f] = G], k, f))
<1> DEFINE u == [w EXCEPT !.file[f] = G]
           t == <<k, f>>
           Q == Scheduler!AddTask(w.q, t)
           v == [u EXCEPT !.q = Q]
<1>1. w \in State /\ Booked(w.q) /\ Once(Awaited(w.q), w.events)
  BY DEF InvBut
<1>2. /\ u \in State /\ u.file[f] = G
      /\ \A g \in Files \ {f} : u.file[g] = w.file[g]
      /\ u.q = w.q /\ u.events = w.events
  BY <1>1, SetFile
<1>3. t \in FileTasks /\ t[2] = f
  BY DEF FileTasks
<1>4. t \notin Awaited(w.q) /\ ~Told(w.events, t)
  BY <1>3 DEF Due
<1>5. /\ Booked(Q) /\ Left(Q) = Left(w.q)
      /\ Awaited(Q) = Awaited(w.q) \cup {t}
  <2> HIDE DEF t
  <2> QED BY <1>1, <1>3, <1>4, AddTaskBooked DEF t
<1>6. AddTask(u, k, f) = v
  BY <1>2 DEF AddTask
<1> HIDE DEF u, Q
<1>7. /\ v \in State /\ v.q = Q
      /\ v.file = u.file /\ v.events = u.events
  BY <1>2, <1>5, SetScheduler
<1> HIDE DEF v
<1>8. Once(Awaited(v.q), v.events)
  BY <1>1, <1>2, <1>4, <1>5, <1>7 DEF Once
<1>9. FitsIn(v, f)
  BY <1>2, <1>5, <1>7 DEF FitsIn
<1>10. ASSUME NEW g \in Files \ {f} PROVE FitsIn(v, g)
  <2>1. Fits(w.file[g], Awaited(w.q), w.events, Left(w.q), g)
    BY DEF InvBut, FitsIn
  <2>2. Due(Awaited(v.q), w.events, g) = Due(Awaited(w.q), w.events, g)
    <3>1. Awaited(v.q) = Awaited(w.q) \cup {<<k, f>>} /\ f # g
      BY <1>5, <1>7
    <3> QED BY <3>1 DEF Due
  <2>3. \A j \in {"allocate", "hash", "complete"} :
          <<j, g>> \in Awaited(v.q) <=> <<j, g>> \in Awaited(w.q)
    BY <1>5, <1>7
  <2>4. v.file[g] = w.file[g] /\ v.events = w.events /\ Left(v.q) = Left(w.q)
    BY <1>2, <1>5, <1>7
  <2>5. OnDisk(w.file[g], Awaited(v.q), w.events, g)
    BY <2>1, <2>3 DEF Fits, OnDisk
  <2>6. "write" \notin Faults => Sound(w.file[g], Awaited(v.q), w.events, g)
    BY <2>1, <2>3 DEF Fits, Sound
  <2> QED BY <2>1, <2>2, <2>4, <2>5, <2>6 DEF FitsIn, Fits
<1>11. Inv(v)
  BY <1>5, <1>7, <1>8, <1>9, <1>10 DEF Inv, InvBut
<1> QED BY <1>6, <1>11 DEF u

\* One of the files may be looked at alone.
LEMMA InvOpens ==
  ASSUME NEW w, NEW f \in Files
  PROVE  /\ Inv(w) <=> InvBut(w, {f}) /\ FitsIn(w, f)
         /\ Inv(w) => w \in State /\ w.file[f] \in FileState(f)
BY StateType DEF Inv, InvBut

\* One file changes mildly.
LEMMA PutMild ==
  ASSUME NEW w, NEW f \in Files, Inv(w), NEW G, Mild(w.file[f], G, f)
  PROVE  LET v == [w EXCEPT !.file[f] = G] IN
         /\ Inv(v) /\ Grows(w, v)
         /\ v.file[f] = G /\ v.q = w.q /\ v.events = w.events /\ v.low = w.low
<1> DEFINE v == [w EXCEPT !.file[f] = G]
<1>1. /\ InvBut(w, {f}) /\ w \in State
      /\ Fits(w.file[f], Awaited(w.q), w.events, Left(w.q), f)
  BY InvOpens DEF FitsIn
<1>2. G \in FileState(f)
  BY DEF Mild
<1>3. Have(G) = Have(w.file[f]) /\ Fits(G, Awaited(w.q), w.events, Left(w.q), f)
  BY <1>1, MildFits
<1>4. Inv(v)
  BY <1>1, <1>2, <1>3, Put
<1>5. /\ v.file[f] = G
      /\ \A g \in Files \ {f} : v.file[g] = w.file[g]
      /\ v.q = w.q /\ v.events = w.events /\ v.low = w.low
  BY <1>1, <1>2, SetFile
<1> HIDE DEF v
<1>6. Grows(w, v)
  BY <1>3, <1>5 DEF Grows
<1> QED BY <1>4, <1>5, <1>6 DEF v

-----------------------------------------------------------------------------
(***************************************************************************)
(* CPartFile.                                                               *)
(***************************************************************************)
\* A file is changed twice.
LEMMA PutTwice ==
  ASSUME NEW w \in State, NEW f \in Files, NEW G, NEW H
  PROVE  [[w EXCEPT !.file[f] = G] EXCEPT !.file[f] = H] = [w EXCEPT !.file[f] = H]
<1>1. f \in DOMAIN w.file
  BY StateType
<1> QED BY <1>1 DEF State

\* No part can be written when none is buffered.
LEMMA NoneBuffered ==
  ASSUME NEW f \in Files, NEW F, F.buffer = Nothing(f)
  PROVE  Buffered(F) = {}
BY DEF Buffered, Nothing

\* With an empty buffer FlushBuffer does nothing.
LEMMA FlushNothing ==
  ASSUME NEW w, NEW f \in Files, NEW end, w.file[f].buffer = Nothing(f)
  PROVE  FlushBuffer(w, f, end) = w
BY NoneBuffered DEF FlushBuffer

\* The parts P of the buffer are written.
LEMMA WritePartsType ==
  ASSUME NEW f \in Files, NEW F \in FileState(f), F.part # Gone, F.met # Gone,
         NEW P \in SUBSET Buffered(F)
  PROVE  LET G == WriteParts(F, P) IN
         /\ G \in FileState(f)
         /\ G.list = F.list /\ G.status = F.status /\ G.gaps = F.gaps
         /\ G.buffer = F.buffer /\ G.target = F.target
         /\ G.part \in Contents(f) /\ G.part # Gone
         /\ \A p \in Parts(f) : G.part[p] = IF p \in P THEN F.buffer[p] ELSE F.part[p]
         /\ G.met # Gone /\ G.met.gaps = F.met.gaps
<1> DEFINE c == [p \in DOMAIN F.part |-> IF p \in P THEN F.buffer[p] ELSE F.part[p]]
           m == [F.met EXCEPT !.dated = FALSE]
           G == [F EXCEPT !.part = c, !.met = m]
<1>1. F.part \in Contents(f) /\ F.met \in MetFile(f) /\ F.buffer \in Contents(f)
  BY DEF FileState
<1>2. c \in Contents(f) /\ \A p \in Parts(f) : c[p] = IF p \in P THEN F.buffer[p] ELSE F.part[p]
  BY <1>1 DEF Contents
<1>3. m \in MetFile(f) /\ m.gaps = F.met.gaps
  BY <1>1 DEF MetFile
<1>4. c # Gone /\ m # Gone
  BY <1>2, <1>3, Content
<1>5. WriteParts(F, P) = IF P = {} THEN F ELSE G
  BY DEF WriteParts
<1> HIDE DEF c, m
<1>6. /\ G \in FileState(f) /\ G.part = c /\ G.met = m
      /\ G.list = F.list /\ G.status = F.status /\ G.gaps = F.gaps
      /\ G.buffer = F.buffer /\ G.target = F.target
  BY <1>2, <1>3 DEF FileState
<1> HIDE DEF G
<1>7. CASE P = {}
  <2>1. WriteParts(F, P) = F
    BY <1>5, <1>7
  <2> QED BY <2>1, <1>1, <1>7
<1>8. CASE P # {}
  <2>1. WriteParts(F, P) = G
    BY <1>5, <1>8
  <2> QED BY <2>1, <1>2, <1>3, <1>4, <1>6
<1> QED BY <1>7, <1>8

\* What a flush makes of a file that is ready: the buffer is empty, and either
\* writing has failed, or the file has been saved and knows its corrupt parts.
Flushed(F, G, f) ==
  /\ G \in FileState(f)
  /\ G.list = F.list /\ G.target = F.target /\ G.buffer = Nothing(f)
  /\ G.part # Gone /\ G.met # Gone
  /\ Have(F) \subseteq Have(G)
  /\ \/ G.status = "error" /\ "write" \in Faults
     \/ /\ G.status = "ready" /\ G.met.gaps = G.gaps
        /\ G.gaps = {} => G.part # Nothing(f)

\* Flushing writes the buffer out, saves the record and checks what it completed.
LEMMA Flushing ==
  ASSUME NEW w \in State, NEW f \in Files, NEW end \in Ends(f),
         w.file[f].status = "ready", w.file[f].part # Gone, w.file[f].met # Gone,
         Buffered(w.file[f]) # {}, ~w.low
  PROVE  \E G : /\ Flushed(w.file[f], G, f)
                /\ FlushBuffer(w, f, end) =
                     IF G.gaps = {} /\ G.status = "ready" /\ w.q.running
                     THEN HashWholeFile([w EXCEPT !.file[f] = G], f)
                     ELSE [w EXCEPT !.file[f] = G]
<1> DEFINE F == w.file[f]
           P == {p \in Buffered(F) : p < end}
           V == WriteParts(F, P)
           W == [V EXCEPT !.buffer = Nothing(f)]
           B == [W EXCEPT !.status = "error"]
           g == W.gaps \cup {p \in P : F.buffer[p] = "bad"}
           N == [W EXCEPT !.gaps = g]
           S == SavePartFile(N)
           X == [w EXCEPT !.file[f] = HashParts(F, W, P)]
<1>1. F \in FileState(f)
  BY StateType
<1>2. F.buffer \in Contents(f) /\ F.gaps \in SUBSET Parts(f) /\ F.part \in Contents(f)
  BY <1>1 DEF FileState
<1>3. Buffered(F) = {p \in Parts(f) : F.buffer[p] # "none"}
  BY <1>2 DEF Buffered, Contents
<1>4. "write" \notin Faults => P = Buffered(F)
  <2>1. ASSUME "write" \notin Faults, NEW p \in Buffered(F) PROVE p < end
    <3>1. end = PartCount[f] + 1
      BY <2>1 DEF Ends
    <3>2. p \in 1..PartCount[f] /\ PartCount[f] \in Nat
      BY <1>3, Content DEF Parts
    <3> QED BY <3>1, <3>2
  <2> QED BY <2>1
<1>5. /\ V \in FileState(f)
      /\ V.list = F.list /\ V.status = F.status /\ V.gaps = F.gaps
      /\ V.buffer = F.buffer /\ V.target = F.target
      /\ V.part \in Contents(f) /\ V.part # Gone
      /\ \A p \in Parts(f) : V.part[p] = IF p \in P THEN F.buffer[p] ELSE F.part[p]
      /\ V.met # Gone
  <2>1. P \in SUBSET Buffered(F)
    OBVIOUS
  <2> HIDE DEF P, F
  <2> QED BY <2>1, <1>1, WritePartsType DEF F
<1>6. /\ FlushBuffer(w, f, end) =
           IF P # Buffered(F) THEN [w EXCEPT !.file[f] = B]
           ELSE IF X.file[f].gaps = {} /\ w.q.running THEN HashWholeFile(X, f)
           ELSE X
      /\ HashParts(F, W, P) = S
  BY DEF FlushBuffer, HashParts
<1>7. P \subseteq Buffered(F)
  OBVIOUS
<1> HIDE DEF V, P, X
<1>8. /\ W \in FileState(f) /\ W.buffer = Nothing(f)
      /\ W.list = V.list /\ W.status = V.status /\ W.gaps = V.gaps
      /\ W.target = V.target /\ W.part = V.part /\ W.met = V.met
  BY <1>5, Content DEF FileState
<1> HIDE DEF W, F
<1>9. CASE P # Buffered(F)
  <2>1. /\ B \in FileState(f) /\ B.buffer = Nothing(f) /\ B.status = "error"
        /\ B.list = W.list /\ B.gaps = W.gaps
        /\ B.target = W.target /\ B.part = W.part /\ B.met = W.met
    BY <1>8 DEF FileState
  <2> HIDE DEF B
  <2>2. FlushBuffer(w, f, end) = [w EXCEPT !.file[f] = B]
    BY <1>6, <1>9
  <2>3. Have(F) \subseteq Have(B)
    <3>1. SUFFICES ASSUME NEW p \in Have(F) PROVE p \in Have(B)
      OBVIOUS
    <3>2. /\ p \in Parts(f) /\ p \notin F.gaps /\ F.buffer[p] = "none"
          /\ F.part[p] = "good"
      BY <1>2, <3>1 DEF Have, Contents
    <3>3. p \notin P
      BY <1>3, <1>7, <3>2
    <3>4. B.part # Gone /\ p \notin B.gaps /\ B.part[p] = "good"
      BY <2>1, <1>5, <1>8, <3>2, <3>3
    <3>5. p \in DOMAIN B.buffer /\ B.buffer[p] = "none"
      BY <2>1, <3>2 DEF Nothing
    <3> QED BY <3>4, <3>5 DEF Have
  <2>4. Flushed(F, B, f)
    BY <2>1, <2>3, <1>4, <1>5, <1>8, <1>9 DEF Flushed
  <2> QED BY <2>1, <2>2, <2>4 DEF F
<1>10. CASE P = Buffered(F)
  <2>1. g \in SUBSET Parts(f)
    BY <1>2, <1>3, <1>5, <1>7, <1>8
  <2>2. g = F.gaps \cup {p \in P : F.buffer[p] = "bad"}
    BY <1>5, <1>8
  <2> HIDE DEF g
  <2>3. /\ N \in FileState(f) /\ N.buffer = Nothing(f) /\ N.gaps = g
        /\ N.list = W.list /\ N.status = W.status
        /\ N.target = W.target /\ N.part = W.part /\ N.met = W.met
    BY <2>1, <1>8 DEF FileState
  <2> HIDE DEF N
  <2>4. /\ Mild(N, S, f)
        /\ S.met # Gone /\ S.met.gaps = N.gaps
    <3>1. N.status = "ready" /\ N.part # Gone
      BY <2>3, <1>5, <1>8 DEF F
    <3> QED BY <3>1, <2>3, SaveMild
  <2> HIDE DEF S
  <2>5. /\ S \in FileState(f) /\ S.buffer = Nothing(f) /\ S.gaps = g
        /\ S.list = F.list /\ S.status = F.status
        /\ S.target = F.target /\ S.part = V.part /\ S.met.gaps = g
    BY <2>3, <2>4, <1>5, <1>8 DEF Mild
  <2>6. Have(F) \subseteq Have(S)
    <3>1. SUFFICES ASSUME NEW p \in Have(F) PROVE p \in Have(S)
      OBVIOUS
    <3>2. /\ p \in Parts(f) /\ p \notin F.gaps /\ F.buffer[p] = "none"
          /\ F.part[p] = "good"
      BY <1>2, <3>1 DEF Have, Contents
    <3>3. p \notin P
      BY <1>3, <1>7, <3>2
    <3>4. S.part # Gone /\ p \notin S.gaps /\ S.part[p] = "good"
      BY <2>2, <2>5, <1>5, <3>2, <3>3
    <3>5. p \in DOMAIN S.buffer /\ S.buffer[p] = "none"
      BY <2>5, <3>2 DEF Nothing
    <3> QED BY <3>4, <3>5 DEF Have
  <2>7. S.part # Nothing(f)
    <3>1. PICK p \in Buffered(F) : TRUE
      BY DEF F
    <3>2. p \in Parts(f) /\ F.buffer[p] # "none" /\ p \in P
      BY <3>1, <1>3, <1>10
    <3>3. S.part[p] # "none" /\ Nothing(f)[p] = "none"
      BY <3>2, <2>5, <1>5 DEF Nothing
    <3> QED BY <3>3
  <2>8. Flushed(F, S, f) /\ S.status = "ready"
    BY <2>4, <2>5, <2>6, <2>7, <1>5 DEF Flushed, F
  <2>9. X = [w EXCEPT !.file[f] = S] /\ X.file[f] = S
    <3>1. X = [w EXCEPT !.file[f] = S]
      BY <1>6 DEF X
    <3> QED BY <3>1, <2>5, SetFile
  <2>10. FlushBuffer(w, f, end) =
           IF S.gaps = {} /\ w.q.running THEN HashWholeFile(X, f) ELSE X
    BY <1>6, <1>10, <2>9
  <2> QED BY <2>8, <2>9, <2>10 DEF F
<1> QED BY <1>9, <1>10

\* A file in the queue that waits for nothing fits.
LEMMA FitsIdle ==
  ASSUME NEW f \in Files, NEW G, NEW A, NEW E, NEW L,
         G.list = "queue", Due(A, E, f) = {}, G.part # Gone, G.met # Gone,
         \/ G.status = "ready"
         \/ G.status = "error" /\ G.buffer = Nothing(f),
         L \in {"allocate", "hash", "complete"} \X {f} => G.buffer = Nothing(f),
         "write" \notin Faults =>
           /\ Have(G) \cap G.met.gaps = {}
           /\ G.status = "error" => G.part = Whole(f) /\ G.gaps = {}
  PROVE  Fits(G, A, E, L, f)
<1>1. \A k \in {"allocate", "hash", "complete"} :
        /\ <<k, f>> \notin A
        /\ \A i \in 1..Len(E) : E[i].task # <<k, f>>
  BY DEF Due, Told, FileTasks
<1>2. Stage(G, Due(A, E, f), f)
  BY DEF Stage
<1>3. Behind(G, Due(A, E, f), L, f)
  BY DEF Behind
<1>4. OnDisk(G, A, E, f)
  BY <1>1 DEF OnDisk
<1>5. "write" \notin Faults => Sound(G, A, E, f)
  BY <1>1 DEF Sound
<1> QED BY <1>2, <1>3, <1>4, <1>5 DEF Fits

\* A file fits for which the next task has been ordered: that it is hashed as a
\* whole, or that it is moved.
LEMMA FitsCompleting ==
  ASSUME NEW f \in Files, NEW G, NEW A, NEW E, NEW L, NEW k \in {"hash", "complete"},
         G.list = "queue", Due(A, E, f) = {}, G.part # Gone, G.met # Gone,
         G.status = "completing", G.buffer = Nothing(f), G.gaps = {},
         k = "hash" => G.part # Nothing(f),
         L # <<"complete", f>>,
         "write" \notin Faults =>
           /\ Have(G) \cap G.met.gaps = {}
           /\ k = "complete" => G.part = Whole(f)
  PROVE  Fits(G, A \cup {<<k, f>>}, E, L, f)
<1> DEFINE D == Due(A \cup {<<k, f>>}, E, f)
<1>1. \A j \in {"allocate", "hash", "complete"} :
        /\ <<j, f>> \notin A
        /\ \A i \in 1..Len(E) : E[i].task # <<j, f>>
  BY DEF Due, Told, FileTasks
<1>2. D = {<<k, f>>}
  <2>1. <<k, f>> \in FileTasks
    BY DEF FileTasks
  <2>2. D = Due(A, E, f) \cup {<<k, f>>}
    BY <2>1 DEF Due
  <2> QED BY <2>2
<1> HIDE DEF D
<1>3. Stage(G, D, f)
  BY <1>2 DEF Stage
<1>4. Behind(G, D, L, f)
  BY DEF Behind
<1>5. OnDisk(G, A \cup {<<k, f>>}, E, f)
  BY <1>1 DEF OnDisk
<1>6. "write" \notin Faults => Sound(G, A \cup {<<k, f>>}, E, f)
  BY <1>1 DEF Sound
<1> QED BY <1>3, <1>4, <1>5, <1>6 DEF Fits, D

\* What a file that is ready, or has failed to be completed, looks like.
LEMMA IdleFacts ==
  ASSUME NEW f \in Files, NEW F \in FileState(f), NEW A, NEW E, NEW L,
         Fits(F, A, E, L, f), F.list = "queue",
         F.buffer # Nothing(f) \/ F.status \in {"ready", "error"}
  PROVE  /\ Due(A, E, f) = {} /\ F.part # Gone /\ F.met # Gone
         /\ F.status \in {"ready", "error"}
         /\ F.buffer # Nothing(f) =>
              /\ F.status = "ready" /\ Buffered(F) # {}
              /\ L \notin {"allocate", "hash", "complete"} \X {f}
<1>1. Due(A, E, f) = {} /\ F.status \in {"ready", "error"}
  BY DEF Fits, Stage
<1>2. F.part # Gone /\ F.met # Gone
  <2>1. \A i \in 1..Len(E) : E[i].task # <<"complete", f>>
    BY <1>1 DEF Due, Told, FileTasks
  <2> QED BY <2>1 DEF Fits, OnDisk, Stage
<1>3. ASSUME F.buffer # Nothing(f)
      PROVE  /\ F.status = "ready" /\ Buffered(F) # {}
             /\ L \notin {"allocate", "hash", "complete"} \X {f}
  <2>1. F.buffer \in Contents(f)
    BY DEF FileState
  <2>2. Buffered(F) # {}
    BY <2>1, <1>3 DEF Buffered, Contents, Nothing
  <2> QED BY <2>2, <1>3 DEF Fits, Stage, Behind
<1> QED BY <1>1, <1>2, <1>3

\* FlushBuffer.
LEMMA FlushKeeps ==
  ASSUME NEW w, NEW f \in Files, Inv(w), NEW end \in Ends(f)
  PROVE  LET v == FlushBuffer(w, f, end) IN Inv(v) /\ Grows(w, v)
<1> DEFINE F == w.file[f]
           A == Awaited(w.q)
           E == w.events
           L == Left(w.q)
           v == FlushBuffer(w, f, end)
<1>1. /\ InvBut(w, {f}) /\ w \in State /\ F \in FileState(f)
      /\ Fits(F, A, E, L, f)
  BY InvOpens DEF FitsIn
<1>2. CASE F.buffer = Nothing(f)
  BY <1>2, FlushNothing, GrowsReflexive
<1>3. CASE F.buffer # Nothing(f)
  <2>1. F.list = "queue"
    BY <1>1, <1>3 DEF Fits, Stage
  <2>2. /\ Due(A, E, f) = {} /\ F.part # Gone /\ F.met # Gone
        /\ F.status = "ready" /\ Buffered(F) # {}
        /\ L \notin {"allocate", "hash", "complete"} \X {f}
    <3> HIDE DEF A, E, L, F
    <3> QED BY <1>1, <1>3, <2>1, IdleFacts
  <2>3. CASE w.low
    <3>1. v = [w EXCEPT !.file[f] = PauseFile(F, TRUE)]
      BY <2>2, <2>3 DEF FlushBuffer
    <3>2. Mild(F, PauseFile(F, TRUE), f)
      BY <1>1, PauseMild
    <3> DEFINE G == PauseFile(F, TRUE)
    <3> HIDE DEF v, G
    <3>3. Inv(v) /\ Grows(w, v)
      BY <3>1, <3>2, PutMild DEF G
    <3> QED BY <3>3 DEF v
  <2>4. CASE ~w.low
    <3>1. PICK G : /\ Flushed(F, G, f)
                   /\ v = IF G.gaps = {} /\ G.status = "ready" /\ w.q.running
                          THEN HashWholeFile([w EXCEPT !.file[f] = G], f)
                          ELSE [w EXCEPT !.file[f] = G]
      <4> HIDE DEF A, E, L
      <4> QED BY <1>1, <2>2, <2>4, Flushing
    <3> DEFINE X == [w EXCEPT !.file[f] = G]
    <3> HIDE DEF v, F
    <3>2. /\ G \in FileState(f) /\ G.list = "queue" /\ G.buffer = Nothing(f)
          /\ G.part # Gone /\ G.met # Gone
          /\ Have(F) \subseteq Have(G)
          /\ G.status \in {"ready", "error"}
          /\ "write" \notin Faults => G.status = "ready" /\ G.met.gaps = G.gaps
      BY <3>1, <2>1 DEF Flushed
    <3>3. "write" \notin Faults => Have(G) \cap G.met.gaps = {}
      BY <3>2 DEF Have
    <3>4. /\ X \in State /\ X.file[f] = G
          /\ \A g \in Files \ {f} : X.file[g] = w.file[g]
      BY <3>2, <1>1, SetFile
    <3>5. CASE ~(G.gaps = {} /\ G.status = "ready" /\ w.q.running)
      <4>1. v = X
        BY <3>1, <3>5
      <4>2. Fits(G, A, E, L, f)
        <5> HIDE DEF A, E, L
        <5> QED BY <3>2, <3>3, <2>2, FitsIdle
      <4>3. Inv(X)
        BY <4>2, <3>2, <1>1, Put
      <4>4. Grows(w, X)
        BY <3>2, <3>4 DEF Grows, F
      <4> QED BY <4>1, <4>3, <4>4 DEF v
    <3>6. CASE G.gaps = {} /\ G.status = "ready" /\ w.q.running
      <4> DEFINE H == [G EXCEPT !.status = "completing"]
      <4>1. /\ H \in FileState(f) /\ H.status = "completing" /\ H.list = G.list
            /\ H.gaps = G.gaps /\ H.buffer = G.buffer /\ H.part = G.part
            /\ H.met = G.met
        BY <3>2 DEF FileState
      <4>2. G.part # Nothing(f)
        BY <3>1, <3>6 DEF Flushed
      <4>3. v = AddTask([w EXCEPT !.file[f] = H], "hash", f)
        <5>1. v = AddTask([X EXCEPT !.file[f] = [X.file[f] EXCEPT !.status = "completing"]],
                          "hash", f)
          BY <3>1, <3>6 DEF HashWholeFile
        <5>2. [X EXCEPT !.file[f] = H] = [w EXCEPT !.file[f] = H]
          BY <1>1, PutTwice
        <5> QED BY <5>1, <5>2, <3>4
      <4> HIDE DEF H
      <4>4. Have(H) = Have(G)
        BY <4>1 DEF Have
      <4>5. Fits(H, A \cup {<<"hash", f>>}, E, L, f)
        <5>1. L # <<"complete", f>>
          BY <2>2
        <5>2. "write" \notin Faults => Have(H) \cap H.met.gaps = {}
          BY <3>3, <4>1, <4>4
        <5> HIDE DEF A, E, L
        <5> QED BY <5>1, <5>2, <3>2, <3>6, <4>1, <4>2, <2>2, FitsCompleting
      <4>6. <<"hash", f>> \notin Due(A, E, f) /\ L # <<"hash", f>>
        BY <2>2
      <4>7. Inv(v)
        BY <4>1, <4>3, <4>5, <4>6, <1>1, PutAndAdd
      <4>8. Grows(w, v)
        <5> DEFINE Y == [w EXCEPT !.file[f] = H]
        <5>1. /\ Y \in State /\ Y.file[f] = H
              /\ \A g \in Files \ {f} : Y.file[g] = w.file[g]
          BY <1>1, <4>1, SetFile
        <5>2. v.file = Y.file
          <6> HIDE DEF Y
          <6> QED BY <5>1, <4>3 DEF Y, AddTask, State
        <5> HIDE DEF Y
        <5> QED BY <5>1, <5>2, <4>4, <3>2 DEF Grows, F
      <4> QED BY <4>7, <4>8 DEF v
    <3> QED BY <3>5, <3>6
  <2> QED BY <2>3, <2>4
<1> QED BY <1>2, <1>3

\* StopFile.
LEMMA StopKeeps ==
  ASSUME NEW w, NEW f \in Files, Inv(w), NEW end \in Ends(f)
  PROVE  LET v == StopFile(w, f, end) IN Inv(v) /\ Grows(w, v)
<1> DEFINE F == w.file[f]
           T == [F EXCEPT !.stopped = TRUE]
           M == PauseFile(T, FALSE)
           u == [w EXCEPT !.file[f] = M]
<1>1. F \in FileState(f)
  BY InvOpens
<1>2. Mild(F, T, f)
  BY <1>1, FlagsMild
<1>3. T \in FileState(f)
  BY <1>2 DEF Mild
<1>4. Mild(F, M, f)
  <2> HIDE DEF T, F
  <2>1. Mild(T, M, f)
    BY <1>3, PauseMild
  <2> QED BY <1>2, <2>1, MildTransitive
<1>5. StopFile(w, f, end) = FlushBuffer(u, f, end)
  BY DEF StopFile
<1> HIDE DEF M, T
<1>6. Inv(u) /\ Grows(w, u)
  BY <1>4, PutMild
<1> HIDE DEF u
<1> QED BY <1>5, <1>6, FlushKeeps, GrowsTransitive

\* SavePartFile.
LEMMA SaveKeeps ==
  ASSUME NEW w, NEW f \in Files, Inv(w)
  PROVE  Inv(Saved(w, f)) /\ Grows(w, Saved(w, f))
<1> DEFINE G == SavePartFile(w.file[f])
<1>1. Mild(w.file[f], G, f)
  BY InvOpens, SaveMild
<1>2. Saved(w, f) = [w EXCEPT !.file[f] = G]
  BY DEF Saved
<1> HIDE DEF G
<1> QED BY <1>1, <1>2, PutMild

\* CompleteFile(true) of a file whose buffer is empty.
LEMMA Completing ==
  ASSUME NEW w \in State, NEW f \in Files, NEW end, w.file[f].buffer = Nothing(f)
  PROVE  \E G : /\ Mild([w.file[f] EXCEPT !.status = "completing"], G, f)
                /\ CompleteFile(w, f, end) = AddTask([w EXCEPT !.file[f] = G], "complete", f)
<1> DEFINE F == w.file[f]
           T == [F EXCEPT !.stopped = TRUE]
           M == PauseFile(T, FALSE)
           u == [w EXCEPT !.file[f] = M]
           K == [M EXCEPT !.status = "completing"]
           G == [K EXCEPT !.open = FALSE]
           x == [w EXCEPT !.file[f] = K]
<1>1. F \in FileState(f)
  BY StateType
<1>2. Mild(F, M, f)
  <2>1. Mild(F, T, f)
    BY <1>1, FlagsMild
  <2> HIDE DEF T, F
  <2>2. T \in FileState(f)
    BY <2>1 DEF Mild
  <2>3. Mild(T, M, f)
    BY <2>2, PauseMild
  <2> QED BY <2>1, <2>3, MildTransitive
<1>3. StopFile(w, f, end) = FlushBuffer(u, f, end)
  BY DEF StopFile
<1> HIDE DEF M, T
<1>4. M \in FileState(f) /\ M.buffer = Nothing(f)
  BY <1>2 DEF Mild
<1>5. u \in State /\ u.file[f] = M
  BY <1>4, SetFile
<1>6. StopFile(w, f, end) = u
  BY <1>3, <1>4, <1>5, FlushNothing
<1>7. Mild([F EXCEPT !.status = "completing"], K, f)
  <2>1. K \in FileState(f)
    BY <1>4 DEF FileState
  <2> QED BY <2>1, <1>1, <1>2, <1>4 DEF Mild, FileState
<1>8. K \in FileState(f) /\ K.buffer = Nothing(f)
  BY <1>4 DEF FileState
<1>9. [u EXCEPT !.file[f].status = "completing"] = x
  <2>1. [u EXCEPT !.file[f].status = "completing"] =
          [u EXCEPT !.file[f] = [u.file[f] EXCEPT !.status = "completing"]]
    OBVIOUS
  <2> HIDE DEF u
  <2>2. [u EXCEPT !.file[f].status = "completing"] = [u EXCEPT !.file[f] = K]
    BY <2>1, <1>5
  <2> HIDE DEF K
  <2>3. [u EXCEPT !.file[f] = K] = x
    BY PutTwice DEF u
  <2> QED BY <2>2, <2>3
<1>10. CompleteFile(w, f, end) = PerformFileComplete(x, f, end)
  BY <1>6, <1>9 DEF CompleteFile
<1> HIDE DEF K, u
<1>11. x \in State /\ x.file[f] = K
  BY <1>8, SetFile
<1>12. FlushBuffer(x, f, end) = x
  BY <1>8, <1>11, FlushNothing
<1>13. [x EXCEPT !.file[f].open = FALSE] = [w EXCEPT !.file[f] = G]
  <2>1. [x EXCEPT !.file[f].open = FALSE] =
          [x EXCEPT !.file[f] = [x.file[f] EXCEPT !.open = FALSE]]
    OBVIOUS
  <2> HIDE DEF x
  <2>2. [x EXCEPT !.file[f].open = FALSE] = [x EXCEPT !.file[f] = G]
    BY <2>1, <1>11
  <2> HIDE DEF G
  <2>3. [x EXCEPT !.file[f] = G] = [w EXCEPT !.file[f] = G]
    BY PutTwice DEF x
  <2> QED BY <2>2, <2>3
<1>14. CompleteFile(w, f, end) = AddTask([w EXCEPT !.file[f] = G], "complete", f)
  BY <1>10, <1>12, <1>13 DEF PerformFileComplete
<1>15. Mild([F EXCEPT !.status = "completing"], G, f)
  <2>1. Mild(K, G, f)
    BY <1>8, FlagsMild
  <2> HIDE DEF G
  <2> QED BY <2>1, <1>7, MildTransitive
<1> HIDE DEF G
<1> QED BY <1>14, <1>15

\* A file that has been found whole is moved.
LEMMA CompleteKeeps ==
  ASSUME NEW w, NEW f \in Files, InvBut(w, {f}), NEW end,
         w.file[f].list = "queue", Due(Awaited(w.q), w.events, f) = {},
         w.file[f].part # Gone, w.file[f].met # Gone,
         w.file[f].buffer = Nothing(f), w.file[f].gaps = {},
         Left(w.q) # <<"complete", f>>,
         "write" \notin Faults =>
           /\ Have(w.file[f]) \cap w.file[f].met.gaps = {}
           /\ w.file[f].part = Whole(f)
  PROVE  LET v == CompleteFile(w, f, end) IN Inv(v) /\ Grows(w, v)
<1> DEFINE F == w.file[f]
           A == Awaited(w.q)
           E == w.events
           L == Left(w.q)
           K == [F EXCEPT !.status = "completing"]
           v == CompleteFile(w, f, end)
<1>1. w \in State /\ F \in FileState(f)
  BY StateType DEF InvBut
<1>2. PICK G : /\ Mild(K, G, f)
               /\ v = AddTask([w EXCEPT !.file[f] = G], "complete", f)
  BY <1>1, Completing
<1>3. /\ K.list = F.list /\ K.status = "completing" /\ K.gaps = F.gaps
      /\ K.buffer = F.buffer /\ K.part = F.part /\ K.met = F.met
  BY <1>1 DEF FileState
<1> HIDE DEF v, K
<1>4. Have(K) = Have(F)
  BY <1>3 DEF Have
<1>5. Fits(K, A \cup {<<"complete", f>>}, E, L, f)
  <2>1. "write" \notin Faults => Have(K) \cap K.met.gaps = {} /\ K.part = Whole(f)
    BY <1>3, <1>4
  <2>2. /\ K.list = "queue" /\ K.part # Gone /\ K.met # Gone
        /\ K.buffer = Nothing(f) /\ K.gaps = {}
    BY <1>3
  <2>3. Due(A, E, f) = {} /\ L # <<"complete", f>>
    OBVIOUS
  <2> HIDE DEF A, E, L, F
  <2> QED BY <2>1, <2>2, <2>3, <1>3, FitsCompleting
<1>6. /\ G \in FileState(f) /\ Have(G) = Have(F)
      /\ Fits(G, A \cup {<<"complete", f>>}, E, L, f)
  <2>1. G \in FileState(f)
    BY <1>2 DEF Mild
  <2> HIDE DEF A, E, L, F
  <2> QED BY <2>1, <1>2, <1>4, <1>5, MildFits
<1>7. Inv(v)
  BY <1>2, <1>6, PutAndAdd
<1>8. Grows(w, v)
  <2> DEFINE Y == [w EXCEPT !.file[f] = G]
  <2>1. /\ Y \in State /\ Y.file[f] = G
        /\ \A g \in Files \ {f} : Y.file[g] = w.file[g]
    BY <1>1, <1>6, SetFile
  <2> HIDE DEF Y
  <2>2. v.file = Y.file
    BY <2>1, <1>2 DEF Y, AddTask, State
  <2> QED BY <2>1, <2>2, <1>6 DEF Grows
<1> QED BY <1>7, <1>8 DEF v

\* Unless it has failed to be completed, a file is resumed with its flags.
LEMMA ResumeMild ==
  ASSUME NEW w \in State, NEW f \in Files, NEW end, w.file[f].status # "error"
  PROVE  \E G : Mild(w.file[f], G, f) /\ ResumeFile(w, f, end) = [w EXCEPT !.file[f] = G]
<1> DEFINE F == w.file[f]
           G == [F EXCEPT !.paused = FALSE, !.stopped = FALSE, !.insufficient = FALSE]
<1>1. F \in FileState(f)
  BY StateType
<1>2. Mild(F, G, f) /\ Mild(F, F, f)
  BY <1>1, FlagsMild, MildReflexive
<1>3. [w EXCEPT !.file[f] = F] = w
  <2>1. [w.file EXCEPT ![f] = F] = w.file
    BY StateType
  <2>2. [w EXCEPT !.file = w.file] = w
    BY DEF State
  <2>3. [w EXCEPT !.file[f] = F] = [w EXCEPT !.file = [w.file EXCEPT ![f] = F]]
    BY DEF State
  <2> QED BY <2>1, <2>2, <2>3
<1>4. ResumeFile(w, f, end) \in {w, [w EXCEPT !.file[f] = G]}
  BY DEF ResumeFile
<1> QED BY <1>2, <1>3, <1>4

\* ResumeFile.
LEMMA ResumeKeeps ==
  ASSUME NEW w, NEW f \in Files, Inv(w), NEW end \in Ends(f), w.file[f].list = "queue",
         w.file[f].status = "error" => Left(w.q) # <<"complete", f>>
  PROVE  LET v == ResumeFile(w, f, end) IN Inv(v) /\ Grows(w, v)
<1> DEFINE F == w.file[f]
           G == [F EXCEPT !.paused = FALSE, !.stopped = FALSE, !.insufficient = FALSE]
           R == [w EXCEPT !.file[f] = G]
           v == ResumeFile(w, f, end)
<1>1. w \in State /\ F \in FileState(f)
  BY InvOpens
<1>2. Mild(F, G, f)
  BY <1>1, FlagsMild
<1>3. CASE F.status # "error"
  <2>1. PICK H : Mild(F, H, f) /\ v = [w EXCEPT !.file[f] = H]
    BY <1>1, <1>3, ResumeMild
  <2> HIDE DEF v
  <2>2. Inv(v) /\ Grows(w, v)
    BY <2>1, PutMild
  <2> QED BY <2>2 DEF v
<1>4. CASE F.status = "error"
  <2>1. \/ v \in {w, R}
        \/ F.gaps = {} /\ v = CompleteFile(R, f, end)
    BY DEF ResumeFile
  <2> HIDE DEF v, G
  <2>2. /\ Inv(R) /\ Grows(w, R)
        /\ R.file[f] = G /\ R.q = w.q /\ R.events = w.events
    BY <1>2, PutMild
  <2>3. CASE v \in {w, R}
    <3>1. Inv(v) /\ Grows(w, v)
      BY <2>2, <2>3, GrowsReflexive
    <3> QED BY <3>1 DEF v
  <2>4. CASE F.gaps = {} /\ v = CompleteFile(R, f, end)
    <3> HIDE DEF R
    <3>1. /\ InvBut(R, {f}) /\ Fits(G, Awaited(w.q), w.events, Left(w.q), f)
          /\ G \in FileState(f)
      BY <2>2, <1>2, InvOpens DEF FitsIn, Mild
    <3>2. G.list = "queue" /\ G.status = "error" /\ G.gaps = {}
      BY <1>2, <1>4, <2>4 DEF Mild
    <3>3. Due(Awaited(w.q), w.events, f) = {} /\ G.part # Gone /\ G.met # Gone
      BY <3>1, <3>2, IdleFacts
    <3>4. /\ G.buffer = Nothing(f)
          /\ "write" \notin Faults => Have(G) \cap G.met.gaps = {} /\ G.part = Whole(f)
      BY <3>1, <3>2, <3>3 DEF Fits, Stage, Sound
    <3>5. Left(w.q) # <<"complete", f>>
      BY <1>4
    <3>6. Inv(v) /\ Grows(R, v)
      BY <3>1, <3>2, <3>3, <3>4, <3>5, <2>2, <2>4, CompleteKeeps
    <3>7. Grows(w, v)
      BY <3>6, <2>2, GrowsTransitive
    <3> QED BY <3>6, <3>7 DEF v
  <2> QED BY <2>1, <2>3, <2>4
<1> QED BY <1>3, <1>4

\* StartNextFile.
LEMMA StartNextKeeps ==
  ASSUME NEW w, Inv(w), NEW v \in StartNextFile(w)
  PROVE  Inv(v) /\ Grows(w, v) /\ \A f \in Files : v.file[f].list = w.file[f].list
<1>1. w \in State
  BY DEF Inv, InvBut
<1>2. CASE v = w
  BY <1>2, GrowsReflexive
<1>3. ASSUME NEW f \in Files, GetStatus(w.file[f]) = "paused", v = ResumeFile(w, f, 1)
      PROVE  Inv(v) /\ Grows(w, v) /\ \A g \in Files : v.file[g].list = w.file[g].list
  <2>1. w.file[f].status # "error"
    BY <1>3 DEF GetStatus
  <2>2. PICK G : Mild(w.file[f], G, f) /\ v = [w EXCEPT !.file[f] = G]
    BY <1>1, <1>3, <2>1, ResumeMild
  <2>3. Inv(v) /\ Grows(w, v)
    BY <2>2, PutMild
  <2>4. G.list = w.file[f].list /\ G \in FileState(f)
    BY <2>2 DEF Mild
  <2>5. v.file[f] = G /\ \A g \in Files \ {f} : v.file[g] = w.file[g]
    BY <1>1, <2>2, <2>4, SetFile
  <2> QED BY <2>3, <2>4, <2>5
<1> QED BY <1>2, <1>3 DEF StartNextFile

\* Many files change mildly.
LEMMA PutAllMild ==
  ASSUME NEW w, Inv(w), NEW I \in [Files -> UNION {FileState(f) : f \in Files}],
         \A f \in Files : Mild(w.file[f], I[f], f)
  PROVE  LET v == [w EXCEPT !.file = I] IN Inv(v) /\ Grows(w, v)
<1> DEFINE v == [w EXCEPT !.file = I]
<1>1. w \in State /\ Booked(w.q) /\ Once(Awaited(w.q), w.events)
  BY DEF Inv, InvBut
<1>2. \A f \in Files : I[f] \in FileState(f)
  BY DEF Mild
<1>3. /\ v \in State /\ v.file = I /\ v.q = w.q /\ v.events = w.events
  BY <1>1, <1>2 DEF State
<1> HIDE DEF v
<1>4. ASSUME NEW f \in Files
      PROVE  FitsIn(v, f) /\ Have(v.file[f]) = Have(w.file[f])
  <2>1. Fits(w.file[f], Awaited(w.q), w.events, Left(w.q), f)
    BY DEF Inv, InvBut, FitsIn
  <2>2. /\ Have(I[f]) = Have(w.file[f])
        /\ Fits(I[f], Awaited(w.q), w.events, Left(w.q), f)
    BY <2>1, MildFits
  <2> QED BY <2>2, <1>3 DEF FitsIn
<1>5. Inv(v) /\ Grows(w, v)
  BY <1>1, <1>3, <1>4 DEF Inv, InvBut, Grows
<1> QED BY <1>5 DEF v

\* CheckDiskspace.
LEMMA CheckKeeps ==
  ASSUME NEW w, Inv(w), NEW R
  PROVE  LET v == CheckDiskspace(w, R) IN Inv(v) /\ Grows(w, v)
<1> DEFINE Checked(F) == F.list = "queue" /\ GetStatus(F) \notin {"error", "completing"}
           Next1(f) ==
             LET F == w.file[f] IN
             IF Checked(F) /\ ~w.low /\ F.insufficient /\ f \in R
             THEN ResumeFile(w, f, 1).file[f]
             ELSE IF Checked(F) /\ w.low /\ ~F.paused THEN PauseFile(F, TRUE)
             ELSE F
           I == [f \in Files |-> Next1(f)]
<1>1. w \in State
  BY DEF Inv, InvBut
<1>2. ASSUME NEW f \in Files PROVE Mild(w.file[f], Next1(f), f)
  <2> DEFINE F == w.file[f]
  <2>1. F \in FileState(f)
    BY <1>1, StateType
  <2>2. Mild(F, F, f) /\ Mild(F, PauseFile(F, TRUE), f)
    BY <2>1, PauseMild, MildReflexive
  <2>3. ASSUME Checked(F) PROVE Mild(F, ResumeFile(w, f, 1).file[f], f)
    <3>1. F.status # "error"
      BY <2>3 DEF GetStatus
    <3>2. PICK G : Mild(F, G, f) /\ ResumeFile(w, f, 1) = [w EXCEPT !.file[f] = G]
      BY <1>1, <3>1, ResumeMild
    <3>3. G \in FileState(f)
      BY <3>2 DEF Mild
    <3> DEFINE V == [w EXCEPT !.file[f] = G]
    <3>4. V.file[f] = G
      BY <1>1, <3>3, SetFile
    <3> HIDE DEF V
    <3> QED BY <3>2, <3>4 DEF V
  <2> HIDE DEF F, Checked
  <2> QED BY <2>2, <2>3 DEF F
<1>3. CheckDiskspace(w, R) = [w EXCEPT !.file = I]
  BY DEF CheckDiskspace
<1> HIDE DEF Next1
<1>4. /\ \A f \in Files : Mild(w.file[f], I[f], f)
      /\ I \in [Files -> UNION {FileState(f) : f \in Files}]
  <2>1. \A f \in Files : Next1(f) \in FileState(f)
    BY <1>2 DEF Mild
  <2> QED BY <2>1, <1>2
<1> HIDE DEF I
<1> QED BY <1>3, <1>4, PutAllMild

-----------------------------------------------------------------------------
(***************************************************************************)
(* Events.                                                                  *)
(***************************************************************************)
\* An event is taken from the queue: its task is not due any more.
LEMMA Popped ==
  ASSUME NEW w, Inv(w), w.events # <<>>, NEW f \in Files,
         Head(w.events).task \in FileTasks, Head(w.events).task[2] = f
  PROVE  LET v == [w EXCEPT !.events = Tail(@)] IN
         /\ InvBut(v, {f})
         /\ v.file = w.file /\ v.q = w.q /\ v.low = w.low
         /\ Due(Awaited(v.q), v.events, f) = {}
         /\ Due(Awaited(w.q), w.events, f) = {Head(w.events).task}
         /\ \A i \in 1..Len(w.events) :
              w.events[i].task = Head(w.events).task => w.events[i] = Head(w.events)
<1> DEFINE e == Head(w.events)
           E == w.events
           T == Tail(w.events)
           A == Awaited(w.q)
           L == Left(w.q)
           v == [w EXCEPT !.events = T]
<1>1. /\ w \in State /\ Booked(w.q) /\ Once(A, E)
      /\ \A g \in Files : Fits(w.file[g], A, E, L, g)
  BY DEF Inv, InvBut, FitsIn
<1>2. E \in Seq(Events)
  BY <1>1, StateType
<1>3. /\ Len(E) \in Nat /\ 1 \in 1..Len(E) /\ e = E[1]
      /\ T \in Seq(Events) /\ Len(T) = Len(E) - 1
      /\ \A i \in 1..Len(T) : T[i] = E[i + 1] /\ i + 1 \in 1..Len(E)
  BY <1>2
<1>4. /\ v \in State /\ v.file = w.file /\ v.q = w.q /\ v.low = w.low
      /\ v.events = T
  BY <1>1, <1>3 DEF State, Events
<1>5. \A i \in 1..Len(E) : E[i].task = e.task => i = 1
  BY <1>1, <1>3 DEF Once
<1> HIDE DEF e
<1>6. ~Told(T, e.task)
  BY <1>3, <1>5 DEF Told
<1>7. \A t : Told(E, t) <=> t = e.task \/ Told(T, t)
  <2>1. ASSUME NEW t, Told(E, t) PROVE t = e.task \/ Told(T, t)
    <3>1. PICK i \in 1..Len(E) : E[i].task = t
      BY <2>1 DEF Told
    <3>2. CASE i = 1
      BY <3>1, <3>2, <1>3
    <3>3. CASE i # 1
      <4>1. i - 1 \in 1..Len(T) /\ T[i - 1] = E[i]
        BY <1>3, <3>3
      <4> QED BY <4>1, <3>1 DEF Told
    <3> QED BY <3>2, <3>3
  <2>2. ASSUME NEW t, Told(T, t) PROVE Told(E, t)
    BY <2>2, <1>3 DEF Told
  <2>3. Told(E, e.task)
    BY <1>3 DEF Told
  <2> QED BY <2>1, <2>2, <2>3
<1>8. e.task \notin A
  BY <1>1, <1>7 DEF Once
<1>9. Once(A, T)
  <2>1. \A t \in A : ~Told(T, t)
    BY <1>1, <1>7 DEF Once
  <2>2. \A i, j \in 1..Len(T) : T[i].task = T[j].task => i = j
    <3>1. SUFFICES ASSUME NEW i \in 1..Len(T), NEW j \in 1..Len(T), T[i].task = T[j].task
                   PROVE  i = j
      OBVIOUS
    <3>2. E[i + 1].task = E[j + 1].task /\ i + 1 \in 1..Len(E) /\ j + 1 \in 1..Len(E)
      BY <3>1, <1>3
    <3>3. i + 1 = j + 1
      BY <3>2, <1>1 DEF Once
    <3> QED BY <3>3, <1>3
  <2> QED BY <2>1, <2>2 DEF Once
<1>10. /\ e.task \in FileTasks /\ e.task[2] = f
  BY DEF e
<1>11. Due(A, E, f) = {e.task} /\ Due(A, T, f) = {}
  <2>1. e.task \in Due(A, E, f)
    BY <1>7, <1>10 DEF Due
  <2>2. \A t, u \in Due(A, E, f) : t = u
    BY <1>1 DEF Fits, Stage
  <2>3. Due(A, T, f) \subseteq Due(A, E, f) /\ e.task \notin Due(A, T, f)
    BY <1>6, <1>7, <1>8 DEF Due
  <2> QED BY <2>1, <2>2, <2>3
<1>12. ASSUME NEW g \in Files, g # f PROVE Fits(w.file[g], A, T, L, g)
  <2>1. Fits(w.file[g], A, E, L, g)
    BY <1>1
  <2>2. Due(A, T, g) = Due(A, E, g)
    BY <1>7, <1>10, <1>12 DEF Due
  <2>3. /\ \A i \in 1..Len(T) : \E j \in 1..Len(E) : T[i] = E[j]
        /\ \A j \in 1..Len(E) : E[j].task # e.task => \E i \in 1..Len(T) : T[i] = E[j]
    <3>1. \A i \in 1..Len(T) : \E j \in 1..Len(E) : T[i] = E[j]
      BY <1>3
    <3>2. ASSUME NEW j \in 1..Len(E), E[j].task # e.task
          PROVE  \E i \in 1..Len(T) : T[i] = E[j]
      <4>1. j # 1
        BY <3>2, <1>3
      <4>2. j - 1 \in 1..Len(T) /\ T[j - 1] = E[j]
        BY <1>3, <4>1
      <4> QED BY <4>2
    <3> QED BY <3>1, <3>2
  <2>4. e.task \notin {<<"allocate", g>>, <<"hash", g>>, <<"complete", g>>}
    BY <1>10, <1>12
  <2> HIDE DEF A, E, T, L
  <2>5. OnDisk(w.file[g], A, T, g)
    BY <2>1, <2>3, <2>4 DEF Fits, OnDisk
  <2>6. "write" \notin Faults => Sound(w.file[g], A, T, g)
    BY <2>1, <2>3 DEF Fits, Sound
  <2> QED BY <2>1, <2>2, <2>5, <2>6 DEF Fits
<1>13. InvBut(v, {f})
  BY <1>1, <1>4, <1>9, <1>12 DEF InvBut, FitsIn
<1>14. \A i \in 1..Len(E) : E[i].task = e.task => E[i] = e
  BY <1>3, <1>5 DEF e
<1> QED BY <1>4, <1>11, <1>13, <1>14 DEF e

\* A file that has been deleted hears of nothing.
LEMMA FitsGone ==
  ASSUME NEW f \in Files, NEW F, NEW A, NEW E, NEW B, NEW G, NEW L,
         Fits(F, A, E, L, f), F.list \notin {"queue", "completed"},
         Due(B, G, f) \subseteq Due(A, E, f)
  PROVE  Fits(F, B, G, L, f)
<1>1. Stage(F, Due(B, G, f), f)
  BY DEF Fits, Stage
<1>2. Behind(F, Due(B, G, f), L, f)
  BY DEF Fits, Behind
<1> QED BY <1>1, <1>2 DEF Fits, OnDisk, Sound

\* PartFileHashFinished, for a file that is what was hashed.
LEMMA HashEnded ==
  ASSUME NEW w, NEW f \in Files, InvBut(w, {f}), NEW end,
         Due(Awaited(w.q), w.events, f) = {},
         w.file[f].list = "queue", w.file[f].status \in {"waitingforhash", "completing"},
         w.file[f].status = "completing" => w.file[f].gaps = {},
         w.file[f].buffer = Nothing(f),
         w.file[f].part # Gone, w.file[f].met # Gone,
         Left(w.q) # <<"complete", f>>,
         "write" \notin Faults => Have(w.file[f]) \cap w.file[f].met.gaps = {}
  PROVE  LET v == PartFileHashFinished(w, f, w.file[f].part, end)
         IN  Inv(v) /\ Grows(w, v)
<1> DEFINE F == w.file[f]
           C == F.part
           g == (F.gaps \cup Corrupt(F, C)) \ Found(F, C)
           G == [F EXCEPT !.gaps = g]
           H == [G EXCEPT !.status = "ready"]
           S == SavePartFile(H)
           u == [w EXCEPT !.file[f] = G]
           v == PartFileHashFinished(w, f, F.part, end)
<1>1. w \in State /\ F \in FileState(f)
  BY StateType DEF InvBut
<1>2. F.gaps \in SUBSET Parts(f) /\ C \in Contents(f) /\ DOMAIN C = Parts(f)
  BY <1>1 DEF FileState, Contents
<1>3. /\ Corrupt(F, C) \subseteq {p \in Parts(f) : C[p] # "good"}
      /\ Found(F, C) \subseteq F.gaps
  BY <1>2 DEF Corrupt, Found
<1>4. /\ v = IF Corrupt(F, C) = {} /\ F.status = "completing"
             THEN CompleteFile(u, f, end) ELSE [w EXCEPT !.file[f] = S]
      /\ g = (F.gaps \cup Corrupt(F, C)) \ Found(F, C)
  BY DEF PartFileHashFinished
<1>5. g \in SUBSET Parts(f)
  BY <1>2, <1>3
<1> HIDE DEF g, v
<1>6. /\ G \in FileState(f) /\ G.gaps = g
      /\ G.list = F.list /\ G.status = F.status /\ G.buffer = F.buffer
      /\ G.part = F.part /\ G.met = F.met
  BY <1>1, <1>5 DEF FileState
<1> HIDE DEF G
<1>7. CASE Corrupt(F, C) = {} /\ F.status = "completing"
  <2>1. g = {} /\ C = Whole(f)
    <3>1. F.gaps = {} /\ \A p \in Parts(f) : C[p] = "good"
      BY <1>2, <1>7 DEF Corrupt
    <3>2. C = Whole(f)
      BY <3>1, <1>2 DEF Whole, Contents
    <3>3. g = {}
      BY <3>1, <1>4, <1>7
    <3> QED BY <3>2, <3>3
  <2>2. Have(G) = Have(F)
    BY <2>1, <1>6, <1>7 DEF Have
  <2>3. /\ u \in State /\ u.file[f] = G
        /\ \A h \in Files \ {f} : u.file[h] = w.file[h]
        /\ u.q = w.q /\ u.events = w.events
    BY <1>1, <1>6, SetFile
  <2> HIDE DEF u
  <2>4. InvBut(u, {f})
    BY <2>3 DEF InvBut, FitsIn
  <2>5. Grows(w, u)
    BY <2>2, <2>3 DEF Grows
  <2>6. /\ G.list = "queue" /\ G.part # Gone /\ G.met # Gone
        /\ G.buffer = Nothing(f) /\ G.gaps = {} /\ G.part = Whole(f)
        /\ "write" \notin Faults => Have(G) \cap G.met.gaps = {}
    BY <2>1, <2>2, <1>6
  <2>7. LET x == CompleteFile(u, f, end) IN Inv(x) /\ Grows(u, x)
    BY <2>3, <2>4, <2>6, CompleteKeeps
  <2> QED BY <2>5, <2>7, <1>4, <1>7, GrowsTransitive DEF v
<1>8. CASE ~(Corrupt(F, C) = {} /\ F.status = "completing")
  <2>1. /\ H \in FileState(f) /\ H.status = "ready" /\ H.gaps = g
        /\ H.list = F.list /\ H.buffer = F.buffer
        /\ H.part = F.part /\ H.met = F.met
    BY <1>6 DEF FileState
  <2> HIDE DEF H
  <2>2. Mild(H, S, f) /\ S.met # Gone /\ S.met.gaps = H.gaps
    BY <2>1, SaveMild
  <2> HIDE DEF S
  <2>3. /\ S \in FileState(f) /\ S.status = "ready" /\ S.gaps = g
        /\ S.list = "queue" /\ S.buffer = Nothing(f) /\ S.part = C
        /\ S.met # Gone /\ S.met.gaps = g
    BY <2>1, <2>2 DEF Mild
  <2>4. Have(F) \subseteq Have(S)
    <3>1. SUFFICES ASSUME NEW p \in Have(F) PROVE p \in Have(S)
      OBVIOUS
    <3>2. /\ p \in DOMAIN F.buffer /\ p \notin F.gaps /\ C[p] = "good"
          /\ F.buffer[p] = "none"
      BY <3>1 DEF Have
    <3>3. p \notin g
      BY <3>2, <1>3, <1>4
    <3> QED BY <3>2, <3>3, <2>3 DEF Have
  <2>5. Have(S) \cap S.met.gaps = {}
    BY <2>3 DEF Have
  <2>6. Fits(S, Awaited(w.q), w.events, Left(w.q), f)
    <3>1. S.part # Gone
      BY <2>3
    <3> QED BY <3>1, <2>3, <2>5, FitsIdle
  <2>7. Inv([w EXCEPT !.file[f] = S])
    BY <2>3, <2>6, Put
  <2>8. Grows(w, [w EXCEPT !.file[f] = S])
    <3> DEFINE x == [w EXCEPT !.file[f] = S]
    <3>1. /\ x \in State /\ x.file[f] = S
          /\ \A h \in Files \ {f} : x.file[h] = w.file[h]
      BY <1>1, <2>3, SetFile
    <3> HIDE DEF x
    <3>2. Grows(w, x)
      BY <3>1, <2>4 DEF Grows
    <3> QED BY <3>2 DEF x
  <2> QED BY <2>7, <2>8, <1>4, <1>8 DEF v
<1> QED BY <1>7, <1>8

\* CompleteFileEnded.
LEMMA CompletionEnded ==
  ASSUME NEW w, NEW f \in Files, InvBut(w, {f}), NEW ok \in BOOLEAN,
         Due(Awaited(w.q), w.events, f) = {}, w.file[f].list = "queue",
         w.file[f].buffer = Nothing(f),
         ~ok => w.file[f].part # Gone /\ w.file[f].met # Gone,
         "write" \notin Faults =>
           IF ok THEN Arrived(w.file[f], f)
           ELSE /\ Have(w.file[f]) \cap w.file[f].met.gaps = {}
                /\ w.file[f].part = Whole(f) /\ w.file[f].gaps = {},
         NEW v \in CompleteFileEnded(w, f, ok)
  PROVE  Inv(v) /\ Grows(w, v)
<1> DEFINE F == w.file[f]
           D == [F EXCEPT !.status = "complete", !.paused = FALSE, !.list = "completed"]
           B == [F EXCEPT !.status = "error", !.paused = TRUE]
           G == IF ok THEN D ELSE B
           u == [w EXCEPT !.file[f] = G]
           A == Awaited(w.q)
           E == w.events
           L == Left(w.q)
<1>1. w \in State /\ F \in FileState(f)
  BY StateType DEF InvBut
<1>2. v \in StartNextFile(u)
  BY DEF CompleteFileEnded
<1>3. /\ G \in FileState(f) /\ Have(G) = Have(F)
      /\ Fits(G, A, E, L, f)
  <2>1. CASE ok
    <3>1. /\ D \in FileState(f) /\ D.list = "completed" /\ D.buffer = F.buffer
          /\ D.target = F.target /\ D.part = F.part /\ D.gaps = F.gaps
      BY <1>1 DEF FileState
    <3> HIDE DEF D, A, E, L
    <3>2. Have(D) = Have(F)
      BY <3>1 DEF Have
    <3>3. Stage(D, Due(A, E, f), f) /\ Behind(D, Due(A, E, f), L, f)
      BY <3>1 DEF Stage, Behind, A, E
    <3>4. OnDisk(D, A, E, f) /\ ("write" \notin Faults => Sound(D, A, E, f))
      BY <3>1, <2>1 DEF OnDisk, Sound, Arrived
    <3>5. Fits(D, A, E, L, f)
      BY <3>3, <3>4 DEF Fits
    <3>6. G = D
      BY <2>1
    <3> HIDE DEF G
    <3> QED BY <3>1, <3>2, <3>5, <3>6
  <2>2. CASE ~ok
    <3>1. /\ B \in FileState(f) /\ B.list = "queue" /\ B.status = "error"
          /\ B.buffer = Nothing(f)
          /\ B.part = F.part /\ B.gaps = F.gaps /\ B.met = F.met
      BY <1>1 DEF FileState
    <3> HIDE DEF B
    <3>2. Have(B) = Have(F)
      BY <3>1 DEF Have
    <3>3. "write" \notin Faults =>
            Have(B) \cap B.met.gaps = {} /\ B.part = Whole(f) /\ B.gaps = {}
      BY <3>1, <3>2, <2>2
    <3>4. B.part # Gone /\ B.met # Gone
      BY <3>1, <2>2
    <3>5. Due(A, E, f) = {}
      OBVIOUS
    <3>6. Fits(B, A, E, L, f)
      <4> HIDE DEF A, E, L
      <4> QED BY <3>1, <3>3, <3>4, <3>5, FitsIdle
    <3>7. G = B
      BY <2>2
    <3> HIDE DEF G
    <3> QED BY <3>1, <3>2, <3>6, <3>7
  <2> QED BY <2>1, <2>2
<1> HIDE DEF G
<1>4. Inv(u)
  BY <1>3, Put
<1>5. /\ u \in State /\ u.file[f] = G
      /\ \A g \in Files \ {f} : u.file[g] = w.file[g]
  BY <1>1, <1>3, SetFile
<1> HIDE DEF u
<1>6. Grows(w, u)
  BY <1>3, <1>5 DEF Grows
<1>7. Inv(v) /\ Grows(u, v)
  BY <1>2, <1>4, StartNextKeeps
<1> QED BY <1>6, <1>7, GrowsTransitive

\* OnFinishedAllocation.
LEMMA AllocationEnded ==
  ASSUME NEW w, NEW f \in Files, InvBut(w, {f}), NEW ok, NEW end \in Ends(f),
         Due(Awaited(w.q), w.events, f) = {}, w.file[f].list = "queue",
         w.file[f].buffer = Nothing(f), w.file[f].gaps = Parts(f),
         w.file[f].part # Gone, w.file[f].met # Gone
  PROVE  LET v == AllocationFinished(w, f, ok, end) IN Inv(v) /\ Grows(w, v)
<1> DEFINE F == w.file[f]
           G == [F EXCEPT !.status = "ready", !.open = TRUE]
           u == [w EXCEPT !.file[f] = G]
           v == AllocationFinished(w, f, ok, end)
<1>1. w \in State /\ F \in FileState(f)
  BY StateType DEF InvBut
<1>2. u = [w EXCEPT !.file[f].status = "ready", !.file[f].open = TRUE]
  <2>1. f \in DOMAIN w.file
    BY <1>1, StateType
  <2> QED BY <2>1, <1>1 DEF State
<1>3. v = IF ok /\ f \notin Paused THEN ResumeFile(u, f, end) ELSE StopFile(u, f, end)
  BY <1>2 DEF AllocationFinished
<1>4. /\ G \in FileState(f) /\ G.status = "ready" /\ G.list = "queue"
      /\ G.buffer = Nothing(f) /\ G.gaps = Parts(f) /\ G.part # Gone /\ G.met # Gone
  BY <1>1 DEF FileState
<1> HIDE DEF G, v
<1>5. Have(G) = {} /\ Have(F) = {}
  BY <1>4 DEF Have, Nothing
<1>6. Fits(G, Awaited(w.q), w.events, Left(w.q), f)
  <2>1. Due(Awaited(w.q), w.events, f) = {}
    OBVIOUS
  <2> QED BY <2>1, <1>4, <1>5, FitsIdle
<1>7. Inv(u)
  BY <1>4, <1>6, Put
<1>8. /\ u \in State /\ u.file[f] = G
      /\ \A g \in Files \ {f} : u.file[g] = w.file[g]
  BY <1>1, <1>4, SetFile
<1> HIDE DEF u
<1>9. Grows(w, u)
  BY <1>5, <1>8 DEF Grows
<1>10. Inv(v) /\ Grows(u, v)
  BY <1>3, <1>4, <1>7, <1>8, ResumeKeeps, StopKeeps
<1>11. Grows(w, v)
  BY <1>9, <1>10, GrowsTransitive
<1> QED BY <1>10, <1>11 DEF v

-----------------------------------------------------------------------------
(***************************************************************************)
(* Tasks.                                                                   *)
(***************************************************************************)
Kinds == {"allocate", "hash", "complete"}

\* A task of f ends: it has left w but for f as it should be, sent what E has
\* more than the events of w, and f fits.
LEMMA FinishFits ==
  ASSUME NEW w, NEW f \in Files, NEW k \in Kinds, InvBut(w, {f}),
         w.q.pc = "working", w.q.current = <<k, f>>,
         NEW e \in Event(f), e.task = <<k, f>>, ~Told(w.events, <<k, f>>),
         NEW E \in {w.events, Append(w.events, e)},
         Fits(w.file[f], Awaited(w.q) \ {<<k, f>>}, E, <<k, f>>, f),
         NEW R \in Scheduler!Finished(w.q)
  PROVE  Inv([w EXCEPT !.events = E, !.q = R])
<1> DEFINE t == <<k, f>>
           A == Awaited(w.q)
           B == A \ {t}
           W == w.events
           v == [w EXCEPT !.events = E, !.q = R]
<1>1. /\ w \in State /\ Booked(w.q) /\ Once(A, W)
      /\ \A g \in Files \ {f} : Fits(w.file[g], A, W, Left(w.q), g)
  BY DEF InvBut, FitsIn
<1>2. /\ Booked(R) /\ Left(R) = t /\ Awaited(R) = B
  BY <1>1, FinishedBooked
<1>3. /\ W \in Seq(Events) /\ e \in Events
  BY <1>1, StateType DEF Events
<1>4. E \in Seq(Events)
  BY <1>3
<1>5. R \in Scheduler!State
  BY <1>2, BookedType
<1>6. /\ v \in State /\ v.file = w.file /\ v.q = R /\ v.events = E /\ v.low = w.low
  BY <1>1, <1>4, <1>5 DEF State, Events
<1>7. /\ Len(W) \in Nat /\ Len(E) \in Nat
      /\ \A i \in 1..Len(W) : i \in 1..Len(E) /\ E[i] = W[i]
      /\ \A i \in 1..Len(E) : i \in 1..Len(W) \/ (i = Len(W) + 1 /\ E[i] = e)
  <2>1. CASE E = W
    BY <2>1, <1>3
  <2>2. CASE E = Append(W, e)
    BY <2>2, <1>3
  <2> QED BY <2>1, <2>2
<1> HIDE DEF W, A, t, v
<1>8. e.task = t /\ ~Told(W, t)
  BY DEF W, t
<1>9. \A u : u # t => (Told(E, u) <=> Told(W, u))
  <2>1. SUFFICES ASSUME NEW u, u # t PROVE Told(E, u) <=> Told(W, u)
    OBVIOUS
  <2> QED BY <2>1, <1>7, <1>8 DEF Told
<1>10. Once(B, E)
  <2>1. \A u \in B : ~Told(E, u)
    BY <1>1, <1>9 DEF Once
  <2>2. ASSUME NEW i \in 1..Len(E), NEW j \in 1..Len(E), E[i].task = E[j].task
        PROVE  i = j
    <3>1. CASE i \in 1..Len(W) /\ j \in 1..Len(W)
      BY <3>1, <2>2, <1>1, <1>7 DEF Once
    <3>2. CASE i \notin 1..Len(W) /\ j \notin 1..Len(W)
      BY <3>2, <1>7
    <3>3. CASE i \in 1..Len(W) /\ j \notin 1..Len(W)
      BY <3>3, <2>2, <1>7, <1>8 DEF Told
    <3>4. CASE j \in 1..Len(W) /\ i \notin 1..Len(W)
      BY <3>4, <2>2, <1>7, <1>8 DEF Told
    <3> QED BY <3>1, <3>2, <3>3, <3>4
  <2> QED BY <2>1, <2>2 DEF Once
<1>11. ASSUME NEW g \in Files, g # f PROVE Fits(w.file[g], B, E, t, g)
  <2>1. Fits(w.file[g], A, W, Left(w.q), g)
    BY <1>1, <1>11
  <2>2. t[2] = f /\ \A j : <<j, g>> # t
    BY <1>11 DEF t
  <2>3. Due(B, E, g) = Due(A, W, g)
    BY <1>9, <1>11, <2>2 DEF Due
  <2>4. Behind(w.file[g], Due(B, E, g), t, g)
    BY <2>2 DEF Behind
  <2> HIDE DEF B
  <2>5. \A j : <<j, g>> \in B <=> <<j, g>> \in A
    BY <2>2 DEF B
  <2>6. /\ \A i \in 1..Len(W) : i \in 1..Len(E) /\ E[i] = W[i]
        /\ \A i \in 1..Len(E) : \A j :
             E[i].task = <<j, g>> => i \in 1..Len(W) /\ E[i] = W[i]
    BY <2>2, <1>7, <1>8
  <2> HIDE DEF W
  <2>7. OnDisk(w.file[g], A, W, g)
    BY <2>1 DEF Fits
  <2>8. OnDisk(w.file[g], B, E, g)
    BY <2>5, <2>6, <2>7 DEF OnDisk
  <2>9. "write" \notin Faults => Sound(w.file[g], B, E, g)
    BY <2>1, <2>5, <2>6 DEF Fits, Sound
  <2> QED BY <2>1, <2>3, <2>4, <2>8, <2>9 DEF Fits
<1>12. \A g \in Files : FitsIn(v, g)
  BY <1>2, <1>6, <1>11 DEF FitsIn, t, A
<1>13. Inv(v)
  BY <1>2, <1>6, <1>10, <1>12 DEF Inv, InvBut
<1> QED BY <1>13 DEF v

\* The running task of f is the only one due, and f waits for it or is gone.
LEMMA RunningTask ==
  ASSUME NEW f \in Files, NEW k \in Kinds, IInv, Running(<<k, f>>)
  PROVE  LET F == s.file[f]
             A == Awaited(s.q)
         IN  /\ InvBut(s, {f}) /\ Fits(F, A, s.events, NoTask, f)
             /\ <<k, f>> \in A /\ ~Told(s.events, <<k, f>>)
             /\ Due(A, s.events, f) = {<<k, f>>}
             /\ F \in FileState(f) /\ F.list \in {"queue", "gone"}
             /\ F.buffer = Nothing(f)
             /\ F.list = "gone" => F.part = Gone /\ F.met = Gone
             /\ F.list = "queue" =>
                  /\ F.part # Gone /\ F.met # Gone
                  /\ k = "allocate" => F.status = "allocating" /\ F.gaps = Parts(f)
                  /\ k = "complete" => F.status = "completing" /\ F.gaps = {}
<1> DEFINE F == s.file[f]
           A == Awaited(s.q)
           E == s.events
           t == <<k, f>>
<1>1. /\ InvBut(s, {f}) /\ Fits(F, A, E, Left(s.q), f) /\ F \in FileState(f)
      /\ Once(A, E) /\ s.q.pc = "working" /\ s.q.current = t
  BY InvOpens DEF IInv, FitsIn, Running, Inv, InvBut
<1>2. Left(s.q) = NoTask
  BY <1>1 DEF Left
<1>3. t \in FileTasks /\ t[2] = f
  BY DEF FileTasks, Kinds
<1>4. t \in A
  BY <1>1, <1>3 DEF Awaited
<1> HIDE DEF t, F, A, E
<1>5. ~Told(E, t)
  BY <1>1, <1>4 DEF Once
<1>6. t \in Due(A, E, f)
  BY <1>3, <1>4 DEF Due
<1>7. /\ \A u, x \in Due(A, E, f) : u = x
      /\ F.list \in {"unborn", "completed"} => Due(A, E, f) = {}
      /\ F.list # "queue" => F.buffer = Nothing(f)
      /\ F.list \in {"unborn", "gone"} => F.part = Gone /\ F.met = Gone
  BY <1>1 DEF Fits, Stage
<1>8. F.list \in {"queue", "gone"}
  BY <1>1, <1>6, <1>7 DEF FileState
<1>9. Due(A, E, f) = {t}
  BY <1>6, <1>7
<1>10. ASSUME F.list = "queue"
       PROVE  /\ F.part # Gone /\ F.met # Gone /\ F.buffer = Nothing(f)
              /\ k = "allocate" => F.status = "allocating" /\ F.gaps = Parts(f)
              /\ k = "complete" => F.status = "completing" /\ F.gaps = {}
  <2>1. \A i \in 1..Len(E) : E[i].task # <<"complete", f>>
    <3>1. ASSUME NEW i \in 1..Len(E), E[i].task = <<"complete", f>> PROVE FALSE
      <4>1. <<"complete", f>> \in Due(A, E, f)
        BY <3>1 DEF Due, Told, FileTasks
      <4> QED BY <4>1, <3>1, <1>5, <1>9 DEF Told
    <3> QED BY <3>1
  <2>2. F.part # Gone
    BY <2>1, <1>1, <1>10 DEF Fits, OnDisk
  <2>3. F.met # Gone /\ F.buffer = Nothing(f)
    BY <2>2, <1>1, <1>9, <1>10 DEF Fits, Stage
  <2>4. F.status \in {"allocating", "waitingforhash", "completing"}
    BY <1>1, <1>9, <1>10 DEF Fits, Stage, FileState
  <2>5. /\ k = "allocate" => F.status = "allocating"
        /\ k = "complete" => F.status = "completing"
    <3>1. /\ F.status = "allocating" => t = <<"allocate", f>>
          /\ F.status = "waitingforhash" => t = <<"hash", f>>
          /\ F.status = "completing" => t \in {<<"hash", f>>, <<"complete", f>>}
      BY <1>1, <1>9, <1>10 DEF Fits, Stage
    <3> QED BY <3>1, <2>4 DEF t
  <2>6. /\ F.status = "allocating" => F.gaps = Parts(f)
        /\ F.status = "completing" => F.gaps = {}
    BY <1>1, <1>10 DEF Fits, Stage
  <2> QED BY <2>2, <2>3, <2>5, <2>6
<1> QED BY <1>1, <1>2, <1>4, <1>5, <1>7, <1>8, <1>9, <1>10 DEF t, F, A, E

\* A task leaves the file alone and sends an event.
LEMMA FitsPosted ==
  ASSUME NEW f \in Files, NEW F, NEW A, NEW E \in Seq(Events), NEW k \in Kinds,
         Fits(F, A, E, NoTask, f), <<k, f>> \in A, Due(A, E, f) = {<<k, f>>},
         ~Told(E, <<k, f>>), F.buffer = Nothing(f), F.list \in {"queue", "gone"},
         F.list = "queue" => F.part # Gone,
         NEW e \in Event(f), e.task = <<k, f>>,
         F.list = "queue" /\ k = "complete" => ~e.ok,
         F.list = "queue" /\ k = "hash" => e.seen = F.part
  PROVE  Fits(F, A \ {<<k, f>>}, Append(E, e), <<k, f>>, f)
<1> DEFINE t == <<k, f>>
           B == A \ {t}
           G == Append(E, e)
<1>1. e \in Events
  BY DEF Events
<1>2. /\ Len(E) \in Nat
      /\ \A i \in 1..Len(E) : G[i] = E[i] /\ i \in 1..Len(G)
      /\ Len(E) + 1 \in 1..Len(G) /\ G[Len(E) + 1] = e
      /\ \A i \in 1..Len(G) : i \in 1..Len(E) \/ i = Len(E) + 1
  BY <1>1
<1> HIDE DEF G
<1>3. \A u : Told(G, u) <=> Told(E, u) \/ u = t
  BY <1>2 DEF Told
<1>4. t \in FileTasks /\ t[2] = f
  BY DEF Kinds, FileTasks
<1>5. Due(B, G, f) = {t} /\ Due(A, E, f) = {t}
  BY <1>3, <1>4 DEF Due
<1>6. Stage(F, Due(B, G, f), f)
  BY <1>5 DEF Fits, Stage
<1>7. Behind(F, Due(B, G, f), t, f)
  BY <1>5 DEF Behind
<1>8. ASSUME NEW i \in 1..Len(E), NEW j \in Kinds PROVE E[i].task # <<j, f>>
  <2>1. Told(E, E[i].task)
    BY DEF Told
  <2>2. <<j, f>> \in FileTasks /\ <<j, f>>[2] = f
    BY DEF Kinds, FileTasks
  <2>3. ~Told(E, t)
    OBVIOUS
  <2>4. E[i].task = <<j, f>> => <<j, f>> = t
    BY <2>1, <2>2, <1>5 DEF Due
  <2> QED BY <2>1, <2>3, <2>4
<1>9. \A j \in Kinds : <<j, f>> \notin B
  <2>1. SUFFICES ASSUME NEW j \in Kinds, <<j, f>> \in B PROVE FALSE
    OBVIOUS
  <2>2. <<j, f>> \in Due(A, E, f)
    BY <2>1 DEF Due, Kinds, FileTasks
  <2> QED BY <2>1, <2>2, <1>5
<1>10. \A i \in 1..Len(G) : \A j \in Kinds : G[i].task = <<j, f>> => G[i] = e /\ j = k
  <2>1. SUFFICES ASSUME NEW i \in 1..Len(G), NEW j \in Kinds, G[i].task = <<j, f>>
                 PROVE  G[i] = e /\ j = k
    OBVIOUS
  <2>2. i = Len(E) + 1
    BY <2>1, <1>2, <1>8
  <2> QED BY <2>1, <2>2, <1>2
<1>11. "hash" \in Kinds /\ "complete" \in Kinds
  BY DEF Kinds
<1>12. OnDisk(F, B, G, f)
  BY <1>9, <1>10, <1>11 DEF OnDisk
<1>13. "write" \notin Faults => Sound(F, B, G, f)
  <2>1. SUFFICES ASSUME "write" \notin Faults PROVE Sound(F, B, G, f)
    OBVIOUS
  <2>2. Sound(F, A, E, f)
    BY <2>1 DEF Fits
  <2>3. F.list # "completed"
    OBVIOUS
  <2>4. ASSUME F.list = "queue", NEW i \in 1..Len(G), G[i].task = <<"complete", f>>
        PROVE  ~G[i].ok /\ F.part = Whole(f)
    <3>1. G[i] = e /\ k = "complete"
      BY <2>4, <1>10, <1>11
    <3> QED BY <3>1, <2>2, <2>4 DEF Sound
  <2> QED BY <2>2, <2>3, <2>4, <1>9, <1>11 DEF Sound
<1> QED BY <1>6, <1>7, <1>12, <1>13 DEF Fits, G

\* The completion task has taken the .part file away and says so.
LEMMA FitsMoved ==
  ASSUME NEW f \in Files, NEW F, NEW G, NEW A, NEW E \in Seq(Events),
         Fits(F, A, E, NoTask, f), <<"complete", f>> \in A,
         Due(A, E, f) = {<<"complete", f>>}, ~Told(E, <<"complete", f>>),
         F.list = "queue", F.status = "completing", F.gaps = {}, F.buffer = Nothing(f),
         G.list = "queue", G.status = "completing", G.gaps = {}, G.buffer = Nothing(f),
         G.part = Gone, G.met = Gone, "write" \notin Faults => Arrived(G, f)
  PROVE  Fits(G, A \ {<<"complete", f>>}, Append(E, Completed(f, TRUE)),
              <<"complete", f>>, f)
<1> DEFINE t == <<"complete", f>>
           B == A \ {t}
           e == Completed(f, TRUE)
           H == Append(E, e)
<1>1. e \in Events /\ e.task = t /\ e.ok = TRUE
  BY DEF Events, Event, Completed
<1> HIDE DEF e
<1>2. /\ Len(E) \in Nat
      /\ \A i \in 1..Len(E) : H[i] = E[i] /\ i \in 1..Len(H)
      /\ Len(E) + 1 \in 1..Len(H) /\ H[Len(E) + 1] = e
      /\ \A i \in 1..Len(H) : i \in 1..Len(E) \/ i = Len(E) + 1
  BY <1>1
<1> HIDE DEF H
<1>3. \A u : Told(H, u) <=> Told(E, u) \/ u = t
  BY <1>1, <1>2 DEF Told
<1>4. t \in FileTasks /\ t[2] = f
  BY DEF FileTasks
<1>5. Due(B, H, f) = {t} /\ Due(A, E, f) = {t}
  BY <1>3, <1>4 DEF Due
<1>6. ASSUME NEW i \in 1..Len(E), NEW j \in Kinds PROVE E[i].task # <<j, f>>
  <2>1. Told(E, E[i].task)
    BY DEF Told
  <2>2. <<j, f>> \in FileTasks /\ <<j, f>>[2] = f
    BY DEF Kinds, FileTasks
  <2>3. ~Told(E, t)
    OBVIOUS
  <2>4. E[i].task = <<j, f>> => <<j, f>> = t
    BY <2>1, <2>2, <1>5 DEF Due
  <2> QED BY <2>1, <2>3, <2>4
<1>7. \A j \in Kinds : <<j, f>> \notin B
  <2>1. SUFFICES ASSUME NEW j \in Kinds, <<j, f>> \in B PROVE FALSE
    OBVIOUS
  <2>2. <<j, f>> \in Due(A, E, f)
    BY <2>1 DEF Due, Kinds, FileTasks
  <2> QED BY <2>1, <2>2, <1>5
<1>8. \A i \in 1..Len(H) : \A j \in Kinds : H[i].task = <<j, f>> => H[i] = e /\ j = "complete"
  <2>1. SUFFICES ASSUME NEW i \in 1..Len(H), NEW j \in Kinds, H[i].task = <<j, f>>
                 PROVE  H[i] = e /\ j = "complete"
    OBVIOUS
  <2>2. i = Len(E) + 1
    BY <2>1, <1>2, <1>6
  <2> QED BY <2>1, <2>2, <1>1, <1>2
<1>9. "hash" \in Kinds /\ "complete" \in Kinds
  BY DEF Kinds
<1>10. Stage(G, {t}, f)
  BY DEF Stage
<1>11. Behind(G, {t}, t, f)
  BY DEF Behind
<1>12. OnDisk(G, B, H, f)
  BY <1>1, <1>2, <1>7, <1>8, <1>9 DEF OnDisk
<1>13. "write" \notin Faults => Sound(G, B, H, f)
  BY <1>1, <1>7, <1>8, <1>9 DEF Sound
<1> QED BY <1>5, <1>10, <1>11, <1>12, <1>13 DEF Fits, e, H

\* A file may be replaced by whatever has its type as long as nobody asks
\* whether it fits.
LEMMA PutBut ==
  ASSUME NEW w, NEW f \in Files, InvBut(w, {f}), NEW G \in FileState(f)
  PROVE  LET v == [w EXCEPT !.file[f] = G] IN
         /\ InvBut(v, {f}) /\ v \in State
         /\ v.file[f] = G /\ \A g \in Files \ {f} : v.file[g] = w.file[g]
         /\ v.q = w.q /\ v.events = w.events /\ v.low = w.low
<1> DEFINE v == [w EXCEPT !.file[f] = G]
<1>1. w \in State
  BY DEF InvBut
<1>2. /\ v \in State
      /\ v.file[f] = G
      /\ \A g \in Files \ {f} : v.file[g] = w.file[g]
      /\ v.q = w.q /\ v.events = w.events /\ v.low = w.low
  BY <1>1, SetFile
<1> HIDE DEF v
<1>3. InvBut(v, {f})
  BY <1>2 DEF InvBut, FitsIn
<1> QED BY <1>2, <1>3 DEF v

\* The last piece of a task that leaves w and sends an event.
LEMMA PostKeeps ==
  ASSUME NEW w, NEW f \in Files, NEW k \in Kinds, InvBut(w, {f}),
         w.q.pc = "working", w.q.current = <<k, f>>, ~Told(w.events, <<k, f>>),
         NEW e \in Event(f), e.task = <<k, f>>,
         Fits(w.file[f], Awaited(w.q) \ {<<k, f>>}, Append(w.events, e), <<k, f>>, f),
         Finish(Post(w, e))
  PROVE  Inv(s') /\ s'.file = w.file
<1>1. w \in State
  BY DEF InvBut
<1>2. Post(w, e).q = w.q
  BY <1>1 DEF Post, State
<1>3. PICK R \in Scheduler!Finished(w.q) : s' = [Post(w, e) EXCEPT !.q = R]
  BY <1>2 DEF Finish
<1>4. s' = [w EXCEPT !.events = Append(w.events, e), !.q = R] /\ s'.file = w.file
  BY <1>1, <1>3 DEF Post, State
<1>5. Append(w.events, e) \in {w.events, Append(w.events, e)}
  OBVIOUS
<1>6. Inv([w EXCEPT !.events = Append(w.events, e), !.q = R])
  BY <1>5, FinishFits
<1> QED BY <1>4, <1>6

\* CHashingTask.
LEMMA HashKeeps ==
  ASSUME NEW f \in Files, IInv, Hash(f)
  PROVE  Inv(s') /\ Grows(s, s')
<1> DEFINE F == s.file[f]
           A == Awaited(s.q)
           E == s.events
           t == <<"hash", f>>
           e == [task |-> t, seen |-> F.part]
<1>1. "hash" \in Kinds /\ Running(t)
  BY DEF Kinds, Hash
<1>2. /\ InvBut(s, {f}) /\ Fits(F, A, E, NoTask, f)
      /\ t \in A /\ ~Told(E, t) /\ Due(A, E, f) = {t}
      /\ F \in FileState(f) /\ F.list \in {"queue", "gone"}
      /\ F.buffer = Nothing(f)
      /\ F.list = "queue" => F.part # Gone
  <2> HIDE DEF A, E, F
  <2> QED BY <1>1, RunningTask DEF A, E, F
<1>3. /\ s \in State /\ s.q.pc = "working" /\ s.q.current = t
      /\ E \in Seq(Events) /\ Booked(s.q)
  BY <1>1, <1>2, StateType DEF Running, InvBut
<1>4. \/ F.part \notin {Gone, Nothing(f)} /\ Finish(Post(s, e))
      \/ (F.part \in {Gone, Nothing(f)} \/ "hash" \in Faults) /\ Finish(s)
  BY DEF Hash
<1>5. CASE F.part \notin {Gone, Nothing(f)} /\ Finish(Post(s, e))
  <2>1. e \in Event(f) /\ e.task = t /\ e.seen = F.part
    BY <1>2, <1>5 DEF Event, FileState
  <2> HIDE DEF e
  <2>2. Fits(F, A \ {t}, Append(E, e), t, f)
    <3> HIDE DEF A, E, F
    <3> QED BY <2>1, <1>1, <1>2, <1>3, FitsPosted
  <2>3. Inv(s') /\ s'.file = s.file
    BY <2>1, <2>2, <1>1, <1>2, <1>3, <1>5, PostKeeps
  <2> QED BY <2>3 DEF Grows
<1>6. CASE (F.part \in {Gone, Nothing(f)} \/ "hash" \in Faults) /\ Finish(s)
  <2> DEFINE B == A \ {t}
  <2> HIDE DEF A, E, F
  <2>1. "hash" \notin Faults => F.list # "queue"
    <3>1. F.list = "queue" => F.part # Nothing(f)
      BY <1>2 DEF Fits, OnDisk
    <3> QED BY <3>1, <1>2, <1>6
  <2>2. Due(B, E, f) = {}
    BY <1>2 DEF Due
  <2>3. Stage(F, {}, f)
    BY <2>1, <1>2 DEF Fits, Stage
  <2>4. Behind(F, {}, t, f)
    BY <1>2 DEF Behind
  <2>5. OnDisk(F, B, E, f) /\ ("write" \notin Faults => Sound(F, B, E, f))
    BY <1>2 DEF Fits, OnDisk, Sound
  <2>6. Fits(F, B, E, t, f)
    BY <2>2, <2>3, <2>4, <2>5 DEF Fits
  <2>7. PICK R \in Scheduler!Finished(s.q) : s' = [s EXCEPT !.q = R]
    BY <1>6 DEF Finish
  <2>8. s' = [s EXCEPT !.events = E, !.q = R] /\ s'.file = s.file
    BY <2>7, <1>3 DEF State, E
  <2>9. PICK x \in Event(f) : x.task = t
    <3>1. [task |-> t, seen |-> Nothing(f)] \in Event(f)
      BY Content DEF Event
    <3> QED BY <3>1
  <2>10. Inv([s EXCEPT !.events = E, !.q = R])
    <3>1. Fits(s.file[f], Awaited(s.q) \ {t}, s.events, t, f)
      BY <2>6 DEF F, A, E
    <3>2. s.events \in {s.events, Append(s.events, x)}
      OBVIOUS
    <3>3. "hash" \in Kinds
      BY DEF Kinds
    <3>4. ~Told(s.events, t)
      BY <1>2 DEF E
    <3>5. Inv([s EXCEPT !.events = s.events, !.q = R])
      BY <3>1, <3>2, <3>3, <3>4, <2>9, <1>2, <1>3, FinishFits
    <3> QED BY <3>5 DEF E
  <2> QED BY <2>8, <2>10 DEF Grows
<1> QED BY <1>4, <1>5, <1>6

\* Moved: all that is known of the new file record.
LEMMA MovedFields ==
  ASSUME NEW f \in Files, s \in State, s.file[f].part # Gone
  PROVE  \E G \in FileState(f) :
           /\ Moved(f) = [s EXCEPT !.file[f] = G]
           /\ G.list = s.file[f].list /\ G.status = s.file[f].status
           /\ G.gaps = s.file[f].gaps /\ G.buffer = s.file[f].buffer
           /\ G.part = Gone /\ G.met = Gone /\ G.target = s.file[f].part
<1> DEFINE F == s.file[f]
           G == [F EXCEPT !.target = F.part, !.part = Gone, !.met = Gone]
<1>1. F \in FileState(f) /\ f \in DOMAIN s.file
  BY StateType
<1>2. Moved(f) = [s EXCEPT !.file[f] = G]
  BY <1>1 DEF Moved, State, FileState
<1>3. /\ G \in FileState(f)
      /\ G.list = F.list /\ G.status = F.status /\ G.gaps = F.gaps /\ G.buffer = F.buffer
      /\ G.part = Gone /\ G.met = Gone /\ G.target = F.part
  BY <1>1 DEF FileState
<1> HIDE DEF G
<1> QED BY <1>2, <1>3

\* The .part file has become the target file, or has been lost on the way.
LEMMA TakenKeeps ==
  ASSUME NEW f \in Files, IInv, Running(<<"complete", f>>), s.file[f].list = "queue",
         NEW G \in FileState(f),
         G.list = s.file[f].list, G.status = s.file[f].status,
         G.gaps = s.file[f].gaps, G.buffer = s.file[f].buffer,
         G.part = Gone, G.met = Gone,
         \/ G.target = s.file[f].part
         \/ "copy" \in Faults /\ G.target = Nothing(f),
         Finish(Post([s EXCEPT !.file[f] = G], Completed(f, TRUE)))
  PROVE  /\ Inv(s') /\ s'.file[f] = G
         /\ \A g \in Files \ {f} : s'.file[g] = s.file[g]
         /\ "write" \notin Faults => s.file[f].part = Whole(f)
<1> DEFINE F == s.file[f]
           A == Awaited(s.q)
           E == s.events
           t == <<"complete", f>>
           e == Completed(f, TRUE)
           w == [s EXCEPT !.file[f] = G]
<1>1. "complete" \in Kinds /\ Running(t)
  BY DEF Kinds
<1>2. /\ InvBut(s, {f}) /\ Fits(F, A, E, NoTask, f)
      /\ t \in A /\ ~Told(E, t) /\ Due(A, E, f) = {t}
      /\ F.buffer = Nothing(f) /\ F.status = "completing" /\ F.gaps = {}
  <2>1. F.list = "queue"
    OBVIOUS
  <2> HIDE DEF A, E, F
  <2> QED BY <2>1, <1>1, RunningTask DEF A, E, F
<1>3. /\ s.q.pc = "working" /\ s.q.current = t
      /\ E \in Seq(Events)
  BY <1>1, <1>2, StateType DEF Running, InvBut
<1>4. /\ InvBut(w, {f}) /\ w \in State
      /\ w.file[f] = G /\ \A g \in Files \ {f} : w.file[g] = s.file[g]
      /\ w.q = s.q /\ w.events = s.events
  BY <1>2, PutBut
<1>5. "write" \notin Faults => F.part = Whole(f)
  BY <1>2 DEF Fits, Sound
<1>6. "write" \notin Faults => Arrived(G, f)
  BY <1>5 DEF Arrived
<1> HIDE DEF w, F
<1>7. Fits(G, A \ {t}, Append(E, e), t, f)
  <2>1. /\ F.list = "queue" /\ F.status = "completing" /\ F.gaps = {}
        /\ F.buffer = Nothing(f)
        /\ G.list = "queue" /\ G.status = "completing" /\ G.gaps = {}
        /\ G.buffer = Nothing(f) /\ G.part = Gone /\ G.met = Gone
    BY <1>2 DEF F
  <2> HIDE DEF A, E
  <2> QED BY <2>1, <1>2, <1>3, <1>6, FitsMoved
<1>8. e \in Event(f) /\ e.task = t
  BY DEF Completed, Event
<1> HIDE DEF e
<1>9. Finish(Post(w, e))
  BY DEF w, e
<1>10. Inv(s') /\ s'.file = w.file
  BY <1>1, <1>2, <1>3, <1>4, <1>7, <1>8, <1>9, PostKeeps
<1> QED BY <1>4, <1>5, <1>10 DEF F

\* CCompletionTask leaves the .part file where it is and says that it failed, or
\* the download has been deleted.
LEMMA UntakenKeeps ==
  ASSUME NEW f \in Files, IInv, Running(<<"complete", f>>), NEW ok \in BOOLEAN,
         s.file[f].list = "queue" => ~ok,
         Finish(Post(s, Completed(f, ok)))
  PROVE  Inv(s') /\ s'.file = s.file
<1> DEFINE F == s.file[f]
           A == Awaited(s.q)
           E == s.events
           t == <<"complete", f>>
           e == Completed(f, ok)
<1>1. "complete" \in Kinds /\ Running(t)
  BY DEF Kinds
<1>2. /\ InvBut(s, {f}) /\ Fits(F, A, E, NoTask, f)
      /\ t \in A /\ ~Told(E, t) /\ Due(A, E, f) = {t}
      /\ F.list \in {"queue", "gone"} /\ F.buffer = Nothing(f)
      /\ F.list = "queue" => F.part # Gone
  <2> HIDE DEF A, E, F
  <2> QED BY <1>1, RunningTask DEF A, E, F
<1>3. /\ s.q.pc = "working" /\ s.q.current = t
      /\ E \in Seq(Events)
  BY <1>1, <1>2, StateType DEF Running, InvBut
<1>4. e \in Event(f) /\ e.task = t /\ e.ok = ok
  BY DEF Completed, Event
<1>5. Fits(F, A \ {t}, Append(E, e), t, f)
  <2>1. F.list = "queue" => ~e.ok
    BY <1>4
  <2> HIDE DEF A, E, F, e
  <2> QED BY <2>1, <1>1, <1>2, <1>3, <1>4, FitsPosted
<1> HIDE DEF e
<1>6. Finish(Post(s, e))
  BY DEF e
<1> QED BY <1>1, <1>2, <1>3, <1>4, <1>5, <1>6, PostKeeps

\* CCompletionTask begins to copy.
LEMMA BeginCopyKeeps ==
  ASSUME NEW f \in Files, IInv, BeginCopy(f)
  PROVE  Inv(s') /\ Grows(s, s')
<1> DEFINE F == s.file[f]
           A == Awaited(s.q)
           E == s.events
           t == <<"complete", f>>
           G == [F EXCEPT !.target = Nothing(f)]
<1>1. "complete" \in Kinds /\ Running(t)
  BY DEF Kinds, BeginCopy, NotRenamed
<1>2. /\ InvBut(s, {f}) /\ Fits(F, A, E, NoTask, f)
      /\ t \in A /\ ~Told(E, t) /\ Due(A, E, f) = {t}
      /\ F \in FileState(f) /\ F.list \in {"queue", "gone"}
      /\ s.q.pc = "working"
  <2>1. s.q.pc = "working"
    BY <1>1 DEF Running
  <2> HIDE DEF A, E, F
  <2> QED BY <2>1, <1>1, RunningTask DEF A, E, F
<1>3. s \in State /\ f \in DOMAIN s.file
  BY <1>2, StateType DEF InvBut
<1>4. s' = [s EXCEPT !.file[f] = G]
  BY <1>3 DEF BeginCopy, State
<1>5. /\ G \in FileState(f) /\ G.list = F.list /\ G.status = F.status
      /\ G.gaps = F.gaps /\ G.buffer = F.buffer /\ G.part = F.part /\ G.met = F.met
  BY <1>2, Content DEF FileState
<1>6. Left(s.q) = NoTask
  BY <1>2 DEF Left
<1> HIDE DEF A, E, F, G
<1>7. Have(G) = Have(F)
  BY <1>5 DEF Have
<1>8. \A i \in 1..Len(E) : E[i].task # t
  BY <1>2 DEF Told
<1>9. Fits(G, A, E, NoTask, f)
  <2>1. Stage(G, Due(A, E, f), f)
    BY <1>2, <1>5 DEF Fits, Stage
  <2>2. Behind(G, Due(A, E, f), NoTask, f)
    BY <1>2, <1>5 DEF Fits, Behind
  <2>3. OnDisk(G, A, E, f)
    BY <1>2, <1>5 DEF Fits, OnDisk
  <2>4. "write" \notin Faults => Sound(G, A, E, f)
    BY <1>2, <1>5, <1>7, <1>8 DEF Fits, Sound
  <2> QED BY <2>1, <2>2, <2>3, <2>4 DEF Fits
<1>10. Inv(s')
  BY <1>2, <1>4, <1>5, <1>6, <1>9, Put DEF A, E
<1>11. Grows(s, s')
  <2> DEFINE x == [s EXCEPT !.file[f] = G]
  <2>1. /\ x \in State /\ x.file[f] = G
        /\ \A g \in Files \ {f} : x.file[g] = s.file[g]
    BY <1>3, <1>5, SetFile
  <2> HIDE DEF x
  <2>2. Grows(s, x)
    BY <2>1, <1>7 DEF Grows, F
  <2> QED BY <2>2, <1>4 DEF x
<1> QED BY <1>10, <1>11

\* CAllocateFileTask.
LEMMA AllocateKeeps ==
  ASSUME NEW f \in Files, IInv, Allocate(f)
  PROVE  Inv(s') /\ Grows(s, s')
<1> DEFINE F == s.file[f]
           A == Awaited(s.q)
           E == s.events
           t == <<"allocate", f>>
           zeroes == [p \in Parts(f) |-> "bad"]
           m == [F.met EXCEPT !.dated = FALSE]
           G == [F EXCEPT !.part = zeroes, !.met = m]
           e(ok) == [task |-> t, ok |-> ok]
           w == [s EXCEPT !.file[f] = G]
<1>1. "allocate" \in Kinds /\ Running(t)
  BY DEF Kinds, Allocate
<1>2. /\ InvBut(s, {f}) /\ Fits(F, A, E, NoTask, f)
      /\ t \in A /\ ~Told(E, t) /\ Due(A, E, f) = {t}
      /\ F \in FileState(f) /\ F.list \in {"queue", "gone"}
      /\ F.buffer = Nothing(f)
      /\ F.list = "queue" => F.part # Gone
      /\ F.list = "queue" => F.met # Gone /\ F.status = "allocating" /\ F.gaps = Parts(f)
  <2> HIDE DEF A, E, F
  <2> QED BY <1>1, RunningTask DEF A, E, F
<1>3. /\ s \in State /\ s.q.pc = "working" /\ s.q.current = t
      /\ E \in Seq(Events) /\ f \in DOMAIN s.file
  BY <1>1, <1>2, StateType DEF Running, InvBut
<1>4. \A ok \in BOOLEAN : e(ok) \in Event(f) /\ e(ok).task = t
  BY DEF Event
<1>5. \/ F.list = "queue" /\ Finish(Post(w, e(TRUE)))
      \/ \E ok \in BOOLEAN : Finish(Post(s, e(ok)))
  <2>1. [s EXCEPT !.file[f] = [@ EXCEPT !.part = zeroes, !.met.dated = FALSE]] = w
    OBVIOUS
  <2> HIDE DEF w
  <2> QED BY <2>1 DEF Allocate, InQueue
<1>6. ASSUME NEW ok \in BOOLEAN, Finish(Post(s, e(ok)))
      PROVE  Inv(s') /\ Grows(s, s')
  <2> DEFINE x == e(ok)
  <2>1. x \in Event(f) /\ x.task = t
    BY <1>4
  <2> HIDE DEF x
  <2>2. Fits(F, A \ {t}, Append(E, x), t, f)
    <3> HIDE DEF A, E, F
    <3> QED BY <2>1, <1>1, <1>2, <1>3, FitsPosted
  <2>3. Finish(Post(s, x))
    BY <1>6 DEF x
  <2>4. Inv(s') /\ s'.file = s.file
    BY <2>1, <2>2, <2>3, <1>1, <1>2, <1>3, PostKeeps
  <2> QED BY <2>4 DEF Grows
<1>7. ASSUME F.list = "queue", Finish(Post(w, e(TRUE)))
      PROVE  Inv(s') /\ Grows(s, s')
  <2> DEFINE x == e(TRUE)
  <2>1. x \in Event(f) /\ x.task = t
    BY <1>4
  <2>2. Finish(Post(w, x))
    BY <1>7
  <2> HIDE DEF x, e
  <2>3. F.met \in MetFile(f) /\ zeroes \in Contents(f)
    BY <1>2, <1>7 DEF FileState, Contents
  <2>4. m \in MetFile(f)
    BY <2>3 DEF MetFile
  <2>5. zeroes # Gone /\ m # Gone
    BY <2>3, <2>4, Content
  <2> HIDE DEF zeroes, m
  <2>6. /\ G \in FileState(f) /\ G.list = F.list /\ G.status = F.status
        /\ G.gaps = F.gaps /\ G.buffer = F.buffer /\ G.part = zeroes /\ G.met = m
        /\ G.target = F.target
    BY <1>2, <2>3, <2>4 DEF FileState
  <2> HIDE DEF G
  <2>7. /\ InvBut(w, {f}) /\ w \in State
        /\ w.file[f] = G /\ \A g \in Files \ {f} : w.file[g] = s.file[g]
        /\ w.q = s.q /\ w.events = s.events
    BY <1>2, <2>6, PutBut
  <2> HIDE DEF w, F, A, E
  <2>8. Have(F) = {} /\ Have(G) = {}
    BY <1>2, <1>7, <2>6 DEF Have, Nothing
  <2>9. <<"hash", f>> \notin A /\ \A i \in 1..Len(E) : E[i].task # <<"hash", f>>
    <3>1. <<"hash", f>> \notin Due(A, E, f)
      BY <1>2
    <3> QED BY <3>1 DEF Due, Told, FileTasks
  <2>10. Fits(G, A, E, NoTask, f)
    <3>1. Stage(G, Due(A, E, f), f)
      BY <1>2, <1>7, <2>5, <2>6 DEF Fits, Stage
    <3>2. Behind(G, Due(A, E, f), NoTask, f)
      BY <1>2, <2>6 DEF Fits, Behind
    <3>3. OnDisk(G, A, E, f)
      BY <1>2, <2>5, <2>6, <2>9 DEF Fits, OnDisk
    <3>4. <<"complete", f>> \notin A /\ \A i \in 1..Len(E) : E[i].task # <<"complete", f>>
      <4>1. <<"complete", f>> \notin Due(A, E, f)
        BY <1>2
      <4> QED BY <4>1 DEF Due, Told, FileTasks
    <3>5. "write" \notin Faults => Sound(G, A, E, f)
      BY <1>2, <1>7, <2>6, <2>8, <3>4 DEF Fits, Sound
    <3> QED BY <3>1, <3>2, <3>3, <3>5 DEF Fits
  <2>11. Fits(G, A \ {t}, Append(E, x), t, f)
    <3>1. /\ G.list \in {"queue", "gone"} /\ G.buffer = Nothing(f)
          /\ G.part # Gone
      BY <1>2, <2>5, <2>6
    <3> QED BY <3>1, <2>1, <2>10, <1>1, <1>2, <1>3, FitsPosted
  <2>12. Inv(s') /\ s'.file = w.file
    BY <2>1, <2>2, <2>7, <2>11, <1>1, <1>2, <1>3, PostKeeps DEF A, E
  <2> QED BY <2>7, <2>8, <2>12 DEF Grows, F
<1> QED BY <1>5, <1>6, <1>7

\* A step that loses nothing but what a deletion, a completion or a copy that
\* fails takes away.
Lossless ==
  \A f \in Files :
    LET F == s.file[f]
        G == s'.file[f]
    IN  \/ Have(F) \subseteq Have(G)
        \/ G.list = "gone" \/ G.target = Whole(f)
        \/ CopyFails(f)

\* What grows loses nothing.
LEMMA GrowsLossless ==
  ASSUME Grows(s, s') PROVE Lossless
BY DEF Grows, Lossless

\* CCompletionTask renames the file.
LEMMA RenameKeeps ==
  ASSUME NEW f \in Files, IInv, Rename(f)
  PROVE  Inv(s') /\ ("write" \notin Faults => Lossless)
<1>1. "complete" \in Kinds /\ Running(<<"complete", f>>)
  BY DEF Kinds, Rename
<1>2. /\ s.file[f].part # Gone
      /\ Finish(Post(Moved(f), Completed(f, TRUE)))
  BY DEF Rename
<1>3. s \in State /\ s.file[f].list = "queue"
  BY <1>1, <1>2, RunningTask DEF InvBut
<1>4. PICK G \in FileState(f) :
           /\ Moved(f) = [s EXCEPT !.file[f] = G]
           /\ G.list = s.file[f].list /\ G.status = s.file[f].status
           /\ G.gaps = s.file[f].gaps /\ G.buffer = s.file[f].buffer
           /\ G.part = Gone /\ G.met = Gone /\ G.target = s.file[f].part
  BY <1>2, <1>3, MovedFields
<1>5. Finish(Post([s EXCEPT !.file[f] = G], Completed(f, TRUE)))
  BY <1>2, <1>4
<1>6. /\ Inv(s') /\ s'.file[f] = G
      /\ \A g \in Files \ {f} : s'.file[g] = s.file[g]
      /\ "write" \notin Faults => s.file[f].part = Whole(f)
  BY <1>1, <1>3, <1>4, <1>5, TakenKeeps
<1> QED BY <1>4, <1>6 DEF Lossless

\* CCompletionTask cannot open one of the files.
LEMMA NotOpenedKeeps ==
  ASSUME NEW f \in Files, IInv, NotOpened(f)
  PROVE  Inv(s') /\ Grows(s, s')
<1>1. Running(<<"complete", f>>) /\ Finish(Post(s, Completed(f, FALSE)))
  BY DEF NotOpened, NotRenamed
<1>2. Inv(s') /\ s'.file = s.file
  BY <1>1, UntakenKeeps
<1> QED BY <1>2 DEF Grows

\* CCompletionTask has copied the file.
LEMMA EndCopyKeeps ==
  ASSUME NEW f \in Files, IInv, EndCopy(f)
  PROVE  Inv(s') /\ ("write" \notin Faults => Lossless)
<1>1. "complete" \in Kinds /\ Running(<<"complete", f>>)
  BY DEF Kinds, EndCopy
<1>2. Finish(Post(IF s.file[f].part = Gone THEN s ELSE Moved(f), Completed(f, TRUE)))
  BY DEF EndCopy
<1>3. /\ s \in State
      /\ s.file[f].list = "queue" <=> s.file[f].part # Gone
  BY <1>1, RunningTask DEF InvBut
<1>4. CASE s.file[f].part = Gone
  <2>1. Finish(Post(s, Completed(f, TRUE)))
    BY <1>2, <1>4
  <2>2. Inv(s') /\ s'.file = s.file
    BY <2>1, <1>1, <1>3, <1>4, UntakenKeeps
  <2> QED BY <2>2, GrowsLossless DEF Grows
<1>5. CASE s.file[f].part # Gone
  <2>1. PICK G \in FileState(f) :
           /\ Moved(f) = [s EXCEPT !.file[f] = G]
           /\ G.list = s.file[f].list /\ G.status = s.file[f].status
           /\ G.gaps = s.file[f].gaps /\ G.buffer = s.file[f].buffer
           /\ G.part = Gone /\ G.met = Gone /\ G.target = s.file[f].part
    BY <1>3, <1>5, MovedFields
  <2>2. Finish(Post([s EXCEPT !.file[f] = G], Completed(f, TRUE)))
    BY <1>2, <1>5, <2>1
  <2>3. /\ Inv(s') /\ s'.file[f] = G
        /\ \A g \in Files \ {f} : s'.file[g] = s.file[g]
        /\ "write" \notin Faults => s.file[f].part = Whole(f)
    BY <1>1, <1>3, <1>5, <2>1, <2>2, TakenKeeps
  <2> QED BY <2>1, <2>3 DEF Lossless
<1> QED BY <1>4, <1>5

\* Copying fails.
LEMMA CopyFailsKeeps ==
  ASSUME NEW f \in Files, IInv, CopyFails(f)
  PROVE  Inv(s') /\ Lossless
<1> DEFINE F == s.file[f]
           G == [F EXCEPT !.part = Gone, !.met = Gone]
           w == [s EXCEPT !.file[f] = G]
<1>1. "complete" \in Kinds /\ Running(<<"complete", f>>)
  BY DEF Kinds, CopyFails
<1>2. /\ InvBut(s, {f}) /\ s \in State /\ F \in FileState(f)
      /\ F.list \in {"queue", "gone"}
      /\ F.list = "gone" => F.part = Gone /\ F.met = Gone
  BY <1>1, RunningTask DEF InvBut
<1>3. [s EXCEPT !.file[f].part = Gone, !.file[f].met = Gone] = w
  <2>1. f \in DOMAIN s.file
    BY <1>2, StateType
  <2> QED BY <2>1, <1>2 DEF State, FileState
<1>4. "copy" \in Faults /\ F.target = Nothing(f) /\ Finish(Post(w, Completed(f, TRUE)))
  <2> HIDE DEF w
  <2> QED BY <1>3 DEF CopyFails, Copying
<1>5. /\ G \in FileState(f)
      /\ G.list = F.list /\ G.status = F.status /\ G.gaps = F.gaps /\ G.buffer = F.buffer
      /\ G.part = Gone /\ G.met = Gone /\ G.target = F.target
  BY <1>2 DEF FileState
<1>6. CASE F.list = "queue"
  <2> HIDE DEF G
  <2>1. /\ Inv(s') /\ \A g \in Files \ {f} : s'.file[g] = s.file[g]
    BY <1>1, <1>4, <1>5, <1>6, TakenKeeps
  <2> QED BY <2>1 DEF Lossless
<1>7. CASE F.list = "gone"
  <2>1. w = s
    <3>1. G = F
      BY <1>2, <1>7 DEF FileState
    <3> HIDE DEF G
    <3>2. [s EXCEPT !.file[f] = F] = s
      BY <1>2, StateType DEF State
    <3> QED BY <3>1, <3>2
  <2> HIDE DEF w
  <2>2. Finish(Post(s, Completed(f, TRUE)))
    BY <2>1, <1>4
  <2>3. Inv(s') /\ s'.file = s.file
    BY <2>2, <1>1, <1>7, UntakenKeeps
  <2> QED BY <2>3, GrowsLossless DEF Grows
<1> QED BY <1>2, <1>6, <1>7

\* The scheduler is between two tasks, or ends one that is no file's.
LEMMA SchedulerKeeps ==
  ASSUME IInv, Idle \/ SyncHashes
  PROVE  Inv(s') /\ Grows(s, s')
<1>1. /\ s \in State /\ Booked(s.q) /\ Once(Awaited(s.q), s.events)
      /\ \A f \in Files : Fits(s.file[f], Awaited(s.q), s.events, Left(s.q), f)
  BY DEF IInv, Inv, InvBut, FitsIn
<1>2. \E Q : /\ s' = [s EXCEPT !.q = Q]
             /\ Booked(Q) /\ Awaited(Q) = Awaited(s.q)
             /\ Left(Q) \notin FileTasks
  <2>1. CASE Idle
    <3> DEFINE Q == Scheduler!Loop(IF s.q.pc = "done" THEN Scheduler!Cleanup(s.q) ELSE s.q)
    <3>1. s' = [s EXCEPT !.q = Q] /\ s.q.bound > 0 /\ s.q.pc # "working"
      BY <2>1, <1>1 DEF Idle, State
    <3>2. Booked(Q) /\ Left(Q) = NoTask /\ Awaited(Q) = Awaited(s.q)
      BY <3>1, <1>1, LoopBooked
    <3> HIDE DEF Q
    <3>3. NoTask \notin FileTasks
      BY TasksAssumption DEF Tasks
    <3> QED BY <3>1, <3>2, <3>3
  <2>2. CASE SyncHashes
    <3>1. PICK Q \in Scheduler!Finished(s.q) : s' = [s EXCEPT !.q = Q]
      BY <2>2 DEF SyncHashes, Finish
    <3>2. s.q.pc = "working" /\ s.q.current = Sync /\ Sync \notin FileTasks
      BY <2>2, TasksAssumption DEF SyncHashes, Running
    <3>3. Booked(Q) /\ Left(Q) = s.q.current /\ Awaited(Q) = Awaited(s.q) \ {s.q.current}
      BY <3>2, <1>1, FinishedBooked
    <3>4. Awaited(s.q) \subseteq FileTasks
      BY DEF Awaited
    <3> QED BY <3>1, <3>2, <3>3, <3>4
  <2> QED BY <2>1, <2>2
<1>3. PICK Q : /\ s' = [s EXCEPT !.q = Q]
               /\ Booked(Q) /\ Awaited(Q) = Awaited(s.q)
               /\ Left(Q) \notin FileTasks
  BY <1>2
<1>4. /\ s' \in State /\ s'.q = Q /\ s'.file = s.file /\ s'.events = s.events
  <2> DEFINE v == [s EXCEPT !.q = Q]
  <2>1. /\ v \in State
        /\ v.q = Q /\ v.file = s.file /\ v.events = s.events
    BY <1>1, <1>3, SetScheduler
  <2> HIDE DEF v
  <2> QED BY <2>1, <1>3 DEF v
<1>5. ASSUME NEW f \in Files PROVE FitsIn(s', f)
  <2>1. Fits(s.file[f], Awaited(s.q), s.events, Left(s.q), f)
    BY <1>1
  <2>2. Left(Q) \notin {"allocate", "hash", "complete"} \X {f} /\ Left(Q) # <<"complete", f>>
    BY <1>3 DEF FileTasks
  <2>3. Behind(s.file[f], Due(Awaited(s.q), s.events, f), Left(Q), f)
    BY <2>2 DEF Behind
  <2>4. Fits(s.file[f], Awaited(s.q), s.events, Left(Q), f)
    BY <2>1, <2>3 DEF Fits
  <2> QED BY <2>4, <1>3, <1>4 DEF FitsIn
<1>6. Inv(s')
  BY <1>1, <1>3, <1>4, <1>5 DEF Inv, InvBut
<1> QED BY <1>4, <1>6 DEF Grows

\* The background tasks.
LEMMA WorkKeeps ==
  ASSUME IInv, Work
  PROVE  Inv(s') /\ ("write" \notin Faults => Lossless)
<1>1. CASE Idle \/ SyncHashes
  BY <1>1, SchedulerKeeps, GrowsLossless
<1>2. ASSUME NEW f \in Files, Hash(f)
      PROVE  Inv(s') /\ Lossless
  BY <1>2, HashKeeps, GrowsLossless
<1>3. ASSUME NEW f \in Files, Rename(f)
      PROVE  Inv(s') /\ ("write" \notin Faults => Lossless)
  BY <1>3, RenameKeeps
<1>4. ASSUME NEW f \in Files, NotOpened(f)
      PROVE  Inv(s') /\ Lossless
  BY <1>4, NotOpenedKeeps, GrowsLossless
<1>5. ASSUME NEW f \in Files, BeginCopy(f)
      PROVE  Inv(s') /\ Lossless
  BY <1>5, BeginCopyKeeps, GrowsLossless
<1>6. ASSUME NEW f \in Files, EndCopy(f)
      PROVE  Inv(s') /\ ("write" \notin Faults => Lossless)
  BY <1>6, EndCopyKeeps
<1>7. ASSUME NEW f \in Files, CopyFails(f)
      PROVE  Inv(s') /\ Lossless
  BY <1>7, CopyFailsKeeps
<1>8. ASSUME NEW f \in Files, Allocate(f)
      PROVE  Inv(s') /\ Lossless
  BY <1>8, AllocateKeeps, GrowsLossless
<1> QED BY <1>1, <1>2, <1>3, <1>4, <1>5, <1>6, <1>7, <1>8 DEF Work

-----------------------------------------------------------------------------
(***************************************************************************)
(* Downloading, the user, and events.                                       *)
(***************************************************************************)
\* What AddDownload makes of a file that was not there.
LEMMA NewFits ==
  ASSUME NEW f \in Files, NEW A, NEW E, NEW L,
         Fits(s.file[f], A, E, L, f), s.file[f].list = "unborn",
         NEW F \in FileState(f), F.list = "queue", F.gaps = Parts(f),
         F.buffer = Nothing(f), F.part = Nothing(f),
         F.status \in {"ready", "allocating"}
  PROVE  LET G == SavePartFile(F) IN
         /\ G \in FileState(f) /\ Have(G) = {}
         /\ L \notin {"allocate", "hash", "complete"} \X {f} /\ Due(A, E, f) = {}
         /\ F.status = "ready" => Fits(G, A, E, L, f)
         /\ F.status = "allocating" => Fits(G, A \cup {<<"allocate", f>>}, E, L, f)
<1> DEFINE G == SavePartFile(F)
<1>1. F.part # Gone /\ F.status \notin {"waitingforhash", "complete"}
  BY Content
<1>2. Mild(F, G, f) /\ G.met # Gone
  BY <1>1, SaveMild
<1> HIDE DEF G
<1>3. /\ G \in FileState(f) /\ G.list = "queue" /\ G.gaps = Parts(f)
      /\ G.buffer = Nothing(f) /\ G.part = Nothing(f) /\ G.part # Gone
      /\ G.status = F.status
  BY <1>1, <1>2 DEF Mild
<1>4. Have(G) = {}
  BY <1>3 DEF Have, Nothing
<1>5. L \notin {"allocate", "hash", "complete"} \X {f} /\ Due(A, E, f) = {}
  BY DEF Fits, Stage, Behind
<1>6. ASSUME F.status = "ready" PROVE Fits(G, A, E, L, f)
  BY <1>2, <1>3, <1>4, <1>5, <1>6, FitsIdle
<1>7. ASSUME F.status = "allocating" PROVE Fits(G, A \cup {<<"allocate", f>>}, E, L, f)
  <2> DEFINE t == <<"allocate", f>>
             B == A \cup {t}
  <2>1. \A j \in {"hash", "complete"} :
          /\ <<j, f>> \notin A
          /\ \A i \in 1..Len(E) : E[i].task # <<j, f>>
    BY <1>5 DEF Due, Told, FileTasks
  <2>2. Due(B, E, f) = {t}
    <3>1. t \in FileTasks /\ t[2] = f
      BY DEF FileTasks
    <3>2. Due(B, E, f) = Due(A, E, f) \cup {t}
      BY <3>1 DEF Due
    <3> QED BY <3>2, <1>5
  <2>3. Stage(G, {t}, f)
    BY <1>2, <1>3, <1>7 DEF Stage
  <2>4. Behind(G, {t}, L, f)
    BY <1>3, <1>5 DEF Behind
  <2>5. OnDisk(G, B, E, f)
    BY <1>3, <2>1 DEF OnDisk
  <2>6. "write" \notin Faults => Sound(G, B, E, f)
    BY <1>3, <1>4, <1>7, <2>1 DEF Sound
  <2> QED BY <2>2, <2>3, <2>4, <2>5, <2>6 DEF Fits
<1> QED BY <1>3, <1>4, <1>5, <1>6, <1>7 DEF G

\* AddDownload.
LEMMA AddDownloadKeeps ==
  ASSUME NEW f \in Files, IInv, AddDownload(f)
  PROVE  Inv(s') /\ Grows(s, s')
<1> DEFINE new == [NewFile(f) EXCEPT !.list = "queue", !.part = Nothing(f)]
           al == [new EXCEPT !.status = "allocating"]
           op == [new EXCEPT !.open = TRUE]
           st == [new EXCEPT !.open = TRUE, !.stopped = TRUE]
           pa == PauseFile(al, FALSE)
           ps == PauseFile(st, FALSE)
           A == Awaited(s.q)
           E == s.events
           L == Left(s.q)
           F == s.file[f]
           Fresh1(G, x) ==
             /\ G \in FileState(f) /\ G.list = "queue" /\ G.gaps = Parts(f)
             /\ G.buffer = Nothing(f) /\ G.part = Nothing(f) /\ G.status = x
<1>1. /\ InvBut(s, {f}) /\ s \in State /\ Fits(F, A, E, L, f)
      /\ F.list = "unborn" /\ F.buffer = Nothing(f) /\ F.part = Gone
  <2>1. F.list = "unborn"
    BY DEF AddDownload
  <2>2. InvBut(s, {f}) /\ s \in State /\ Fits(F, A, E, L, f)
    BY InvOpens DEF IInv, FitsIn
  <2> QED BY <2>1, <2>2 DEF Fits, Stage
<1>2. Have(F) = {}
  BY <1>1 DEF Have
<1>3. Fresh1(al, "allocating") /\ Fresh1(op, "ready") /\ Fresh1(st, "ready")
  BY Content DEF NewFile, FileState
<1> HIDE DEF new, al, op, st
<1>4. Fresh1(pa, "allocating") /\ Fresh1(ps, "ready")
  <2>1. Mild(al, pa, f) /\ Mild(st, ps, f)
    BY <1>3, PauseMild
  <2> HIDE DEF pa, ps
  <2> QED BY <2>1, <1>3 DEF Mild
<1>5. \/ s' = AddTask([s EXCEPT !.file[f] = SavePartFile(pa)], "allocate", f)
      \/ \E G \in {ps, op} : s' = [s EXCEPT !.file[f] = SavePartFile(G)]
  BY DEF AddDownload, new, al, op, st
<1> HIDE DEF pa, ps
<1>6. CASE s' = AddTask([s EXCEPT !.file[f] = SavePartFile(pa)], "allocate", f)
  <2> DEFINE G == SavePartFile(pa)
  <2>1. /\ G \in FileState(f) /\ Have(G) = {}
        /\ L \notin {"allocate", "hash", "complete"} \X {f} /\ Due(A, E, f) = {}
        /\ Fits(G, A \cup {<<"allocate", f>>}, E, L, f)
    <3> HIDE DEF A, E, L
    <3> QED BY <1>1, <1>4, NewFits
  <2> HIDE DEF G
  <2>2. s' = AddTask([s EXCEPT !.file[f] = G], "allocate", f)
    BY <1>6 DEF G
  <2>3. L # <<"allocate", f>> /\ <<"allocate", f>> \notin Due(A, E, f)
    BY <2>1
  <2>4. Inv(s')
    BY <2>1, <2>2, <2>3, <1>1, PutAndAdd
  <2>5. Grows(s, s')
    <3> DEFINE Y == [s EXCEPT !.file[f] = G]
    <3>1. /\ Y \in State /\ Y.file[f] = G
          /\ \A g \in Files \ {f} : Y.file[g] = s.file[g]
      BY <1>1, <2>1, SetFile
    <3> HIDE DEF Y
    <3>2. s'.file = Y.file
      BY <3>1, <2>2 DEF Y, AddTask, State
    <3> QED BY <3>1, <3>2, <1>2 DEF Grows
  <2> QED BY <2>4, <2>5
<1>7. ASSUME NEW H \in {ps, op}, s' = [s EXCEPT !.file[f] = SavePartFile(H)]
      PROVE  Inv(s') /\ Grows(s, s')
  <2> DEFINE G == SavePartFile(H)
  <2>1. G \in FileState(f) /\ Have(G) = {} /\ Fits(G, A, E, L, f)
    <3>1. Fresh1(H, "ready")
      BY <1>3, <1>4
    <3> HIDE DEF A, E, L
    <3> QED BY <3>1, <1>1, NewFits
  <2> HIDE DEF G
  <2>2. s' = [s EXCEPT !.file[f] = G]
    BY <1>7 DEF G
  <2>3. Inv(s')
    BY <2>1, <2>2, <1>1, Put
  <2>4. Grows(s, s')
    <3> DEFINE Y == [s EXCEPT !.file[f] = G]
    <3>1. /\ Y \in State /\ Y.file[f] = G
          /\ \A g \in Files \ {f} : Y.file[g] = s.file[g]
      BY <1>1, <2>1, SetFile
    <3> HIDE DEF Y
    <3>2. Grows(s, Y)
      BY <3>1, <1>2 DEF Grows
    <3> QED BY <3>2, <2>2 DEF Y
  <2> QED BY <2>3, <2>4
<1> QED BY <1>5, <1>6, <1>7

\* The rest of a part arrives.
LEMMA ReceiveKeeps ==
  ASSUME NEW f \in Files, NEW p \in Parts(f), NEW data \in {"good", "bad"},
         IInv, Receive(f, p, data)
  PROVE  Inv(s') /\ Grows(s, s')
<1> DEFINE F == s.file[f]
           g == F.gaps \ {p}
           b == [F.buffer EXCEPT ![p] = data]
           G == [F EXCEPT !.gaps = g, !.buffer = b]
           w == [s EXCEPT !.file[f] = G]
           A == Awaited(s.q)
           E == s.events
           L == Left(s.q)
<1>1. /\ F.list = "queue" /\ F.status = "ready" /\ p \in F.gaps
      /\ s.q.pc # "done"
      /\ s' = w \/ \E end \in Ends(f) : s' = FlushBuffer(w, f, end)
  <2>1. w = [s EXCEPT !.file[f] = [F EXCEPT !.gaps = @ \ {p}, !.buffer[p] = data]]
    OBVIOUS
  <2> HIDE DEF w
  <2>2. F.list = "queue" /\ GetStatus(F) = "ready"
    BY DEF Receive, InQueue, Active
  <2>3. F.status = "ready"
    BY <2>2 DEF GetStatus
  <2> QED BY <2>1, <2>2, <2>3 DEF Receive, Settled
<1>2. /\ InvBut(s, {f}) /\ s \in State /\ F \in FileState(f)
      /\ Fits(F, A, E, L, f)
  BY InvOpens DEF IInv, FitsIn
<1>3. L = NoTask /\ NoTask \notin {"allocate", "hash", "complete"} \X {f}
  BY <1>1, TasksAssumption DEF Left, Tasks, FileTasks
<1>4. Due(A, E, f) = {} /\ F.part # Gone /\ F.met # Gone
  <2> HIDE DEF A, E, L, F
  <2> QED BY <1>1, <1>2, IdleFacts
<1>5. /\ b \in Contents(f) /\ b[p] = data /\ \A r \in Parts(f) \ {p} : b[r] = F.buffer[r]
      /\ g \in SUBSET Parts(f) /\ g = F.gaps \ {p} /\ DOMAIN F.buffer = Parts(f)
  BY <1>2 DEF FileState, Contents
<1> HIDE DEF b, g
<1>6. /\ G \in FileState(f) /\ G.gaps = g /\ G.buffer = b
      /\ G.list = F.list /\ G.status = F.status /\ G.part = F.part /\ G.met = F.met
  BY <1>2, <1>5 DEF FileState
<1> HIDE DEF G
<1>7. Have(G) = Have(F)
  <2>1. DOMAIN G.buffer = Parts(f)
    BY <1>5, <1>6 DEF Contents
  <2>2. p \notin Have(F) /\ p \notin Have(G)
    BY <1>1, <1>5, <1>6 DEF Have
  <2>3. \A r \in Parts(f) \ {p} : r \in Have(F) <=> r \in Have(G)
    BY <2>1, <1>5, <1>6 DEF Have
  <2>4. Have(F) \subseteq Parts(f) /\ Have(G) \subseteq Parts(f)
    BY <2>1, <1>5 DEF Have
  <2> QED BY <2>2, <2>3, <2>4
<1> HIDE DEF A, E, L, F
<1>8. "write" \notin Faults => Have(G) \cap G.met.gaps = {}
  BY <1>1, <1>2, <1>6, <1>7, <1>4 DEF Fits, Sound
<1>9. Fits(G, A, E, L, f)
  <2>1. G.list = "queue" /\ G.status = "ready" /\ G.part # Gone /\ G.met # Gone
    BY <1>1, <1>4, <1>6
  <2> QED BY <2>1, <1>3, <1>4, <1>8, FitsIdle
<1>10. Inv(w)
  BY <1>2, <1>6, <1>9, Put DEF A, E, L
<1>11. Grows(s, w)
  <2>1. /\ w \in State /\ w.file[f] = G
        /\ \A h \in Files \ {f} : w.file[h] = s.file[h]
    BY <1>2, <1>6, SetFile
  <2> HIDE DEF w
  <2> QED BY <2>1, <1>7 DEF Grows, F
<1> HIDE DEF w
<1>12. CASE s' = w
  BY <1>10, <1>11, <1>12
<1>13. ASSUME NEW end \in Ends(f), s' = FlushBuffer(w, f, end)
       PROVE  Inv(s') /\ Grows(s, s')
  <2>1. Inv(s') /\ Grows(w, s')
    BY <1>10, <1>13, FlushKeeps
  <2> QED BY <2>1, <1>11, GrowsTransitive
<1> QED BY <1>1, <1>12, <1>13

\* Downloads go on.
LEMMA DownloadKeeps ==
  ASSUME NEW f \in Files, IInv, Download(f)
  PROVE  Inv(s') /\ Grows(s, s')
<1>1. CASE Process(f)
  <2>1. PICK end \in Ends(f) : s' = FlushBuffer(s, f, end)
    BY <1>1 DEF Process
  <2> QED BY <2>1, FlushKeeps DEF IInv
<1>2. CASE StopPausedFile(f)
  <2>1. PICK end \in Ends(f) : s' = StopFile(s, f, end)
    BY <1>2 DEF StopPausedFile
  <2> QED BY <2>1, StopKeeps DEF IInv
<1> QED BY <1>1, <1>2, AddDownloadKeeps, ReceiveKeeps DEF Download

\* The room on the disk is looked at, or changes.
LEMMA SpaceKeeps ==
  ASSUME IInv, DiskCheck \/ SpaceChanges
  PROVE  Inv(s') /\ Grows(s, s')
<1>1. CASE DiskCheck
  <2>1. PICK R : s' = CheckDiskspace(s, R)
    BY <1>1 DEF DiskCheck
  <2> QED BY <2>1, CheckKeeps DEF IInv
<1>2. CASE SpaceChanges
  <2>1. s \in State /\ s' = [s EXCEPT !.low = ~s.low]
    BY <1>2 DEF SpaceChanges, IInv, Inv, InvBut
  <2>2. s' \in State /\ s'.file = s.file /\ s'.q = s.q /\ s'.events = s.events
    BY <2>1 DEF State
  <2> QED BY <2>2 DEF IInv, Inv, InvBut, FitsIn, Grows
<1> QED BY <1>1, <1>2

\* The user deletes a file, maybe after another one has been started.
LEMMA DeleteKeeps ==
  ASSUME NEW f \in Files, IInv, Delete(f)
  PROVE  Inv(s') /\ Lossless
<1> DEFINE G(w) == [NewFile(f) EXCEPT !.list = "gone", !.target = w.file[f].target]
<1>1. PICK w : /\ w = s \/ w \in StartNextFile(s)
               /\ s' = [w EXCEPT !.file[f] = G(w)]
               /\ s.file[f].list = "queue"
  BY DEF Delete, InQueue
<1>2. /\ Inv(w) /\ Grows(s, w)
      /\ w.file[f].list = "queue"
  BY <1>1, StartNextKeeps, GrowsReflexive DEF IInv
<1>3. /\ InvBut(w, {f}) /\ w \in State
      /\ w.file[f] \in FileState(f)
      /\ Fits(w.file[f], Awaited(w.q), w.events, Left(w.q), f)
  BY <1>2, InvOpens DEF FitsIn
<1> DEFINE H == G(w)
<1>4. /\ H \in FileState(f) /\ H.list = "gone" /\ H.buffer = Nothing(f)
      /\ H.part = Gone /\ H.met = Gone
  BY <1>3, Content DEF NewFile, FileState
<1>5. s' = [w EXCEPT !.file[f] = H]
  BY <1>1
<1> HIDE DEF H, G
<1>6. Fits(H, Awaited(w.q), w.events, Left(w.q), f)
  <2> DEFINE D == Due(Awaited(w.q), w.events, f)
  <2>1. Stage(H, D, f)
    BY <1>3, <1>4 DEF Fits, Stage
  <2>2. Behind(H, D, Left(w.q), f)
    BY <1>3, <1>4 DEF Fits, Behind
  <2> QED BY <2>1, <2>2, <1>4 DEF Fits, OnDisk, Sound
<1>7. Inv(s')
  BY <1>3, <1>4, <1>5, <1>6, Put
<1>8. Lossless
  <2> DEFINE x == [w EXCEPT !.file[f] = H]
  <2>1. /\ x \in State /\ x.file[f] = H
        /\ \A g \in Files \ {f} : x.file[g] = w.file[g]
    BY <1>3, <1>4, SetFile
  <2>2. s'.file = x.file
    BY <1>5
  <2> HIDE DEF x
  <2> QED BY <2>1, <2>2, <1>2, <1>4 DEF Grows, Lossless
<1> QED BY <1>7, <1>8

\* What the user does.
LEMMA UserKeeps ==
  ASSUME NEW f \in Files, IInv, User(f)
  PROVE  Inv(s') /\ Lossless
<1>1. Inv(s) /\ s \in State /\ s.file[f] \in FileState(f)
  BY InvOpens DEF IInv
<1>2. CASE Pause(f)
  <2> DEFINE w == [s EXCEPT !.file[f] = PauseFile(s.file[f], FALSE)]
  <2>1. s' \in {w, Saved(w, f)}
    BY <1>2 DEF Pause
  <2>2. Inv(w) /\ Grows(s, w)
    <3> DEFINE G == PauseFile(s.file[f], FALSE)
    <3>1. Mild(s.file[f], G, f)
      BY <1>1, PauseMild
    <3> HIDE DEF G
    <3>2. Inv([s EXCEPT !.file[f] = G]) /\ Grows(s, [s EXCEPT !.file[f] = G])
      BY <3>1, <1>1, PutMild
    <3> QED BY <3>2 DEF G
  <2> HIDE DEF w
  <2> QED BY <2>1, <2>2, SaveKeeps, GrowsTransitive, GrowsLossless
<1>3. CASE Stop(f)
  <2>1. PICK end \in Ends(f) : s' \in {StopFile(s, f, end), Saved(StopFile(s, f, end), f)}
    BY <1>3 DEF Stop
  <2>2. Inv(StopFile(s, f, end)) /\ Grows(s, StopFile(s, f, end))
    BY <1>1, StopKeeps
  <2> QED BY <2>1, <2>2, SaveKeeps, GrowsTransitive, GrowsLossless
<1>4. CASE Resume(f)
  <2>1. PICK end \in Ends(f) : s' = Saved(ResumeFile(s, f, end), f)
    BY <1>4 DEF Resume
  <2>2. s.file[f].list = "queue" /\ Left(s.q) = NoTask
    BY <1>4 DEF Resume, InQueue, Settled, Left
  <2>3. NoTask # <<"complete", f>>
    BY TasksAssumption DEF Tasks, FileTasks
  <2>4. Inv(ResumeFile(s, f, end)) /\ Grows(s, ResumeFile(s, f, end))
    BY <2>2, <2>3, <1>1, ResumeKeeps
  <2> QED BY <2>1, <2>4, SaveKeeps, GrowsTransitive, GrowsLossless
<1>5. CASE Touch(f)
  BY <1>1, <1>5, SaveKeeps, GrowsLossless DEF Touch
<1>6. CASE Delete(f)
  BY <1>6, DeleteKeeps
<1> QED BY <1>2, <1>3, <1>4, <1>5, <1>6 DEF User

\* An event is handled.
LEMMA DispatchKeeps ==
  ASSUME IInv, Dispatch
  PROVE  Inv(s') /\ Grows(s, s')
<1> DEFINE e == Head(s.events)
           t == e.task
           f == e.task[2]
           w == [s EXCEPT !.events = Tail(@)]
           F == s.file[f]
           A == Awaited(s.q)
           E == s.events
           L == Left(s.q)
<1>1. Inv(s) /\ s \in State /\ s.events \in Seq(Events)
  BY StateType DEF IInv, Inv, InvBut
<1>2. PICK end \in Ends(f) : s' \in Handle(w, e, end)
  BY DEF Dispatch
<1>3. s.events # <<>> /\ e \in Events /\ 1 \in 1..Len(E) /\ E[1] = e
  BY <1>1 DEF Dispatch
<1> HIDE DEF e
<1>4. /\ f \in Files /\ t \in FileTasks
      /\ t \in {<<"allocate", f>>, <<"complete", f>>, <<"hash", f>>}
      /\ t = <<"hash", f>> => e.seen \in Contents(f)
      /\ t # <<"hash", f>> => e.ok \in BOOLEAN
  BY <1>3, EventType
<1>5. /\ InvBut(w, {f})
      /\ w.file = s.file /\ w.q = s.q /\ w.low = s.low
      /\ Due(Awaited(w.q), w.events, f) = {}
      /\ Due(A, E, f) = {t}
      /\ \A i \in 1..Len(E) : E[i].task = t => E[i] = e
  BY <1>1, <1>3, <1>4, Popped DEF e
<1> HIDE DEF w, f
<1>6. /\ F \in FileState(f) /\ Fits(F, A, E, L, f)
  BY <1>1, <1>4, InvOpens DEF FitsIn
<1> HIDE DEF t, F, A, E, L
<1>7. F.list \in {"queue", "gone"}
  BY <1>5, <1>6 DEF Fits, Stage, FileState
<1>8. Grows(s, w)
  BY <1>5 DEF Grows
<1>9. CASE F.list = "gone"
  <2>1. s' = w
    BY <1>2, <1>9 DEF Handle, InQueue, f, t, F
  <2>2. Fits(F, Awaited(w.q), w.events, L, f)
    <3>1. /\ Due(Awaited(w.q), w.events, f) \subseteq Due(A, E, f)
          /\ F.list \notin {"queue", "completed"}
      BY <1>5, <1>9
    <3> QED BY <3>1, <1>4, <1>6, FitsGone
  <2>3. Inv(w)
    BY <1>4, <1>5, <2>2, InvOpens DEF FitsIn, F, L
  <2> QED BY <2>1, <2>3, <1>8
<1>10. CASE F.list = "queue"
  <2>1. /\ F.buffer = Nothing(f) /\ F.status \in {"allocating", "waitingforhash", "completing"}
        /\ F.status = "allocating" => t = <<"allocate", f>> /\ F.gaps = Parts(f)
        /\ F.status = "waitingforhash" => t = <<"hash", f>>
        /\ F.status = "completing" => t \in {<<"hash", f>>, <<"complete", f>>} /\ F.gaps = {}
        /\ F.part # Gone => F.met # Gone
    BY <1>5, <1>6, <1>10 DEF Fits, Stage, FileState
  <2>2. F.part = Gone => t = <<"complete", f>> /\ e.ok
    <3>1. SUFFICES ASSUME F.part = Gone PROVE t = <<"complete", f>> /\ e.ok
      OBVIOUS
    <3>2. PICK i \in 1..Len(E) : E[i].task = <<"complete", f>> /\ E[i].ok
      BY <3>1, <1>6, <1>10 DEF Fits, OnDisk
    <3>3. <<"complete", f>> \in Due(A, E, f)
      BY <3>2, <1>4 DEF Due, Told, FileTasks
    <3>4. t = <<"complete", f>>
      BY <3>3, <1>5
    <3>5. E[i] = e
      BY <3>2, <3>4, <1>5
    <3> QED BY <3>2, <3>4, <3>5
  <2>3. "write" \notin Faults /\ F.part # Gone => Have(F) \cap F.met.gaps = {}
    BY <2>1, <1>6, <1>10 DEF Fits, Sound
  <2>4. w.file[f] = F /\ Left(w.q) = L
    BY <1>5 DEF F, L
  <2>5. CASE t = <<"hash", f>>
    <3>1. s' = PartFileHashFinished(w, f, e.seen, end)
      BY <1>2, <1>10, <2>5 DEF Handle, InQueue, f, t, F
    <3>2. e.seen = F.part
      BY <1>3, <1>6, <1>10, <2>5 DEF Fits, OnDisk, t, E
    <3>3. L # <<"complete", f>>
      BY <1>5, <1>6, <2>5 DEF Fits, Behind
    <3>4. F.status \in {"waitingforhash", "completing"} /\ F.part # Gone /\ F.met # Gone
      BY <2>1, <2>2, <2>5
    <3>5. LET v == PartFileHashFinished(w, f, w.file[f].part, end)
          IN  Inv(v) /\ Grows(w, v)
      BY <3>3, <3>4, <2>1, <2>3, <2>4, <1>4, <1>5, <1>10, HashEnded
    <3>6. Inv(s') /\ Grows(w, s')
      BY <3>1, <3>2, <3>5, <2>4
    <3> QED BY <3>6, <1>8, GrowsTransitive
  <2>6. CASE t = <<"complete", f>>
    <3>1. s' \in CompleteFileEnded(w, f, e.ok)
      BY <1>2, <1>10, <2>6 DEF Handle, f, t, F
    <3>2. e.ok \in BOOLEAN
      BY <1>4, <2>6
    <3>3. F.status = "completing" /\ F.gaps = {}
      BY <2>1, <2>6
    <3>4. "write" \notin Faults =>
            IF e.ok THEN Arrived(F, f) ELSE F.part = Whole(f)
      BY <1>3, <1>6, <1>10, <2>6 DEF Fits, Sound, t, E
    <3>5. ~e.ok => F.part # Gone /\ F.met # Gone
      BY <2>1, <2>2
    <3>6. "write" \notin Faults =>
            IF e.ok THEN Arrived(F, f)
            ELSE Have(F) \cap F.met.gaps = {} /\ F.part = Whole(f) /\ F.gaps = {}
      BY <2>3, <3>3, <3>4, <3>5
    <3>7. Inv(s') /\ Grows(w, s')
      BY <3>1, <3>2, <3>5, <3>6, <2>1, <2>4, <1>4, <1>5, <1>10, CompletionEnded
    <3> QED BY <3>7, <1>8, GrowsTransitive
  <2>7. CASE t = <<"allocate", f>>
    <3>1. s' = AllocationFinished(w, f, e.ok, end)
      BY <1>2, <1>10, <2>7 DEF Handle, f, t, F
    <3>2. F.gaps = Parts(f) /\ F.part # Gone /\ F.met # Gone
      BY <2>1, <2>2, <2>7
    <3>3. Inv(s') /\ Grows(w, s')
      BY <3>1, <3>2, <2>1, <2>4, <1>4, <1>2, <1>5, <1>10, AllocationEnded
    <3> QED BY <3>3, <1>8, GrowsTransitive
  <2> QED BY <2>5, <2>6, <2>7, <1>4 DEF t
<1> QED BY <1>7, <1>9, <1>10

-----------------------------------------------------------------------------
(***************************************************************************)
(* Restarts.                                                                *)
(***************************************************************************)
\* What a restart needs to find again.
Stored(F, f) ==
  /\ F.list # "queue" => F.buffer = Nothing(f)
  /\ F.list \in {"unborn", "gone"} => F.part = Gone /\ F.met = Gone
  /\ F.list = "completed" /\ "write" \notin Faults => Arrived(F, f)
  /\ F.list = "queue" /\ F.part # Gone =>
       /\ F.met # Gone
       /\ "write" \notin Faults => Have(F) \cap F.met.gaps = {}

\* Every file is stored.
LEMMA InvStored ==
  ASSUME IInv, NEW f \in Files
  PROVE  Stored(s.file[f], f)
<1>1. Fits(s.file[f], Awaited(s.q), s.events, Left(s.q), f)
  BY InvOpens DEF IInv, FitsIn
<1>2. s.file[f].list = "queue" /\ s.file[f].part # Gone => s.file[f].met # Gone
  BY <1>1 DEF Fits, Stage
<1> QED BY <1>1, <1>2 DEF Fits, Stage, Sound, Stored

\* LoadPartFile.
LEMMA LoadedFields ==
  ASSUME NEW f \in Files, NEW F \in FileState(f), F.part # Gone, F.met # Gone
  PROVE  LET G == Loaded(F, f) IN
         /\ G \in FileState(f) /\ G.list = "queue" /\ G.buffer = Nothing(f)
         /\ G.part = F.part /\ G.met = F.met
         /\ G.status \in {"completing", "waitingforhash", "ready"}
         /\ G.status = "completing" => G.gaps = {}
         /\ G.status # "ready" => G.part # Nothing(f)
         /\ Have(G) \cap G.met.gaps = {}
         /\ Have(F) \cap F.met.gaps = {} => Have(F) \subseteq Have(G)
<1> DEFINE g == F.met.gaps
                  \cup {p \in Parts(f) : \A r \in p..PartCount[f] : F.part[r] = "none"}
           st == IF g = {} THEN "completing"
                 ELSE IF ~F.met.dated /\ F.part # Nothing(f) THEN "waitingforhash"
                 ELSE "ready"
           G == [NewFile(f) EXCEPT
                   !.list   = "queue",
                   !.status = st,
                   !.paused = F.met.paused, !.stopped = F.met.paused,
                   !.gaps = g, !.open = TRUE, !.part = F.part, !.met = F.met]
<1>1. Loaded(F, f) = G
  BY DEF Loaded
<1>2. F.met \in MetFile(f) /\ F.part \in Contents(f) /\ F.buffer \in Contents(f)
  BY DEF FileState
<1>3. F.met.gaps \in SUBSET Parts(f) /\ F.met.paused \in BOOLEAN
  BY <1>2 DEF MetFile
<1>4. g \in SUBSET Parts(f)
  BY <1>3
<1>5. /\ st \in {"completing", "waitingforhash", "ready"}
      /\ st = "completing" => g = {}
      /\ st = "waitingforhash" => F.part # Nothing(f)
  OBVIOUS
<1>6. g = {} => F.part # Nothing(f)
  <2>1. SUFFICES ASSUME g = {}, F.part = Nothing(f) PROVE FALSE
    OBVIOUS
  <2>2. PartCount[f] \in Nat \ {0} /\ 1 \in Parts(f)
    BY Content
  <2>3. \A r \in 1..PartCount[f] : F.part[r] = "none"
    BY <2>1, <2>2 DEF Nothing, Parts
  <2>4. 1 \in g
    BY <2>2, <2>3
  <2> QED BY <2>1, <2>4
<1>7. /\ F.met.gaps \subseteq g
      /\ \A p \in Parts(f) : F.part[p] = "good" /\ p \notin F.met.gaps => p \notin g
  <2>1. ASSUME NEW p \in Parts(f), F.part[p] = "good"
        PROVE  ~\A r \in p..PartCount[f] : F.part[r] = "none"
    <3>1. p \in p..PartCount[f]
      BY Content DEF Parts
    <3> QED BY <3>1, <2>1
  <2> QED BY <2>1
<1> HIDE DEF g, st
<1>8. /\ G \in FileState(f) /\ G.list = "queue" /\ G.buffer = Nothing(f)
      /\ G.part = F.part /\ G.met = F.met /\ G.status = st /\ G.gaps = g
  BY <1>2, <1>3, <1>4, <1>5, Content DEF NewFile, FileState
<1> HIDE DEF G
<1>9. Have(G) \cap G.met.gaps = {}
  BY <1>7, <1>8 DEF Have
<1>10. ASSUME Have(F) \cap F.met.gaps = {}, NEW p \in Have(F) PROVE p \in Have(G)
  <2>1. p \in Parts(f) /\ F.part[p] = "good" /\ p \notin F.met.gaps
    BY <1>2, <1>10 DEF Have, Contents
  <2>2. p \notin g
    BY <2>1, <1>7
  <2>3. p \in DOMAIN Nothing(f) /\ Nothing(f)[p] = "none"
    BY <2>1 DEF Nothing
  <2> QED BY <2>1, <2>2, <2>3, <1>8 DEF Have
<1> QED BY <1>1, <1>5, <1>6, <1>8, <1>9, <1>10

\* The tasks a restart orders are due for the files to be hashed.
LEMMA HashesDue ==
  ASSUME NEW S \in SUBSET Files, NEW f \in Files
  PROVE  LET T == {"hash"} \X S IN
         /\ Due(T, <<>>, f) = IF f \in S THEN {<<"hash", f>>} ELSE {}
         /\ <<"complete", f>> \notin T
         /\ <<"hash", f>> \in T => f \in S
<1> DEFINE T == {"hash"} \X S
           D == Due(T, <<>>, f)
<1>1. \A k, g : <<k, g>> \in T <=> k = "hash" /\ g \in S
  OBVIOUS
<1> HIDE DEF T
<1>2. \A t : ~Told(<<>>, t)
  <2>1. \A i \in 1..Len(<<>>) : FALSE
    OBVIOUS
  <2> QED BY <2>1 DEF Told
<1>3. D \subseteq {<<"hash", f>>}
  <2>1. SUFFICES ASSUME NEW t \in FileTasks, t[2] = f, t \in T PROVE t = <<"hash", f>>
    BY <1>2 DEF Due
  <2>2. PICK k, g : t = <<k, g>>
    BY <2>1 DEF FileTasks
  <2> QED BY <2>1, <2>2, <1>1
<1>4. <<"hash", f>> \in D <=> f \in S
  <2>1. <<"hash", f>> \in FileTasks /\ <<"hash", f>>[2] = f
    BY DEF FileTasks
  <2> QED BY <2>1, <1>1, <1>2 DEF Due
<1> HIDE DEF D
<1>5. D = IF f \in S THEN {<<"hash", f>>} ELSE {}
  BY <1>3, <1>4
<1> QED BY <1>1, <1>5 DEF T, D

\* A program that has just been started.
LEMMA StartedKeeps ==
  ASSUME NEW w \in State, \A f \in Files : Stored(w.file[f], f),
         NEW v \in Started(w)
  PROVE  /\ Inv(v)
         /\ "write" \notin Faults =>
              \A f \in Files :
                Have(w.file[f]) \subseteq Have(v.file[f]) \/ v.file[f].list = "gone"
<1> DEFINE Kept(F) == F.list = "queue" /\ F.part # Gone /\ F.met # Gone
           I1(f) == LET F == w.file[f] IN
                    IF Kept(F) THEN Loaded(F, f)
                    ELSE IF F.list = "queue"
                    THEN [NewFile(f) EXCEPT !.list = "gone", !.target = F.target]
                    ELSE F
           file == [f \in Files |-> I1(f)]
           hashed == {f \in Files : Kept(w.file[f]) /\ file[f].status # "ready"}
           T == {"hash"} \X hashed
           Q(p) == [Scheduler!Push(Fresh, p) EXCEPT !.bound = Len(p)]
<1>1. PICK p \in Scheduler!Orders(T) :
        v = CheckDiskspace([w EXCEPT !.file = file, !.events = <<>>, !.q = Q(p)], {})
  BY DEF Started
<1>2. T \in SUBSET FileTasks /\ IsFiniteSet(T)
  <2>1. IsFiniteSet(hashed)
    BY FilesAssumption, FS_Subset
  <2>2. IsFiniteSet({"hash"})
    BY FS_Singleton
  <2> HIDE DEF hashed
  <2>3. IsFiniteSet(T)
    BY <2>1, <2>2, FS_Product
  <2>4. T \in SUBSET FileTasks
    BY DEF hashed, FileTasks
  <2> QED BY <2>3, <2>4
<1>3. Booked(Q(p)) /\ Left(Q(p)) = NoTask /\ Awaited(Q(p)) = T
  <2> HIDE DEF T
  <2> QED BY <1>2, RestartBooked
<1> DEFINE u == [w EXCEPT !.file = file, !.events = <<>>, !.q = Q(p)]
<1>4. ASSUME NEW f \in Files
      PROVE  LET F == w.file[f]
                 G == file[f]
             IN  /\ G \in FileState(f)
                 /\ Fits(G, T, <<>>, NoTask, f)
                 /\ "write" \notin Faults => Have(F) \subseteq Have(G) \/ G.list = "gone"
  <2> DEFINE F == w.file[f]
             G == file[f]
             D == Due(T, <<>>, f)
  <2>1. F \in FileState(f) /\ Stored(F, f)
    BY StateType
  <2>2. G = I1(f)
    OBVIOUS
  <2>3. /\ hashed \in SUBSET Files
        /\ f \in hashed <=> Kept(F) /\ G.status # "ready"
    OBVIOUS
  <2> HIDE DEF hashed, file, I1, F, G
  <2>4. /\ D = IF f \in hashed THEN {<<"hash", f>>} ELSE {}
        /\ <<"complete", f>> \notin T
        /\ <<"hash", f>> \in T => f \in hashed
    BY <2>3, HashesDue
  <2> HIDE DEF T, D
  <2>5. /\ \A t : ~Told(<<>>, t)
        /\ \A i \in 1..Len(<<>>) : FALSE
    <3>1. \A i \in 1..Len(<<>>) : FALSE
      OBVIOUS
    <3> QED BY <3>1 DEF Told
  <2>6. NoTask \notin {"allocate", "hash", "complete"} \X {f} /\ NoTask # <<"complete", f>>
    BY TasksAssumption DEF Tasks, FileTasks
  <2>7. Behind(G, D, NoTask, f)
    BY <2>6 DEF Behind
  <2>8. CASE Kept(F)
    <3>1. G = Loaded(F, f)
      BY <2>2, <2>8 DEF F, I1
    <3>2. /\ G \in FileState(f) /\ G.list = "queue" /\ G.buffer = Nothing(f)
          /\ G.part = F.part /\ G.met = F.met
          /\ G.status \in {"completing", "waitingforhash", "ready"}
          /\ G.status = "completing" => G.gaps = {}
          /\ G.status # "ready" => G.part # Nothing(f)
          /\ Have(G) \cap G.met.gaps = {}
          /\ Have(F) \cap F.met.gaps = {} => Have(F) \subseteq Have(G)
      BY <3>1, <2>1, <2>8, LoadedFields
    <3>3. G.part # Gone /\ G.met # Gone
      BY <3>2, <2>8
    <3>4. Stage(G, D, f)
      BY <3>2, <3>3, <2>3, <2>4, <2>8 DEF Stage
    <3>5. OnDisk(G, T, <<>>, f)
      BY <3>2, <3>3, <2>3, <2>4, <2>5 DEF OnDisk
    <3>6. "write" \notin Faults => Sound(G, T, <<>>, f)
      BY <3>2, <2>4, <2>5 DEF Sound
    <3>7. Fits(G, T, <<>>, NoTask, f)
      BY <3>4, <3>5, <3>6, <2>7 DEF Fits, D
    <3>8. "write" \notin Faults => Have(F) \cap F.met.gaps = {}
      BY <2>1, <2>8 DEF Stored
    <3> QED BY <3>2, <3>7, <3>8 DEF G, F
  <2>9. CASE ~Kept(F)
    <3>1. D = {}
      BY <2>3, <2>4, <2>9
    <3>2. CASE F.list = "queue"
      <4>1. G = [NewFile(f) EXCEPT !.list = "gone", !.target = F.target]
        BY <2>2, <2>9, <3>2 DEF F, I1
      <4>2. /\ G \in FileState(f) /\ G.list = "gone" /\ G.buffer = Nothing(f)
            /\ G.part = Gone /\ G.met = Gone
        BY <4>1, <2>1, Content DEF NewFile, FileState
      <4>3. Stage(G, D, f)
        BY <4>2, <3>1 DEF Stage
      <4>4. Fits(G, T, <<>>, NoTask, f)
        BY <4>2, <4>3, <2>7 DEF Fits, D, OnDisk, Sound
      <4> QED BY <4>2, <4>4 DEF G, F
    <3>3. CASE F.list # "queue"
      <4>1. G = F
        BY <2>2, <2>9, <3>3 DEF F, I1
      <4>2. Stage(G, D, f)
        BY <4>1, <3>1, <3>3, <2>1 DEF Stage, Stored
      <4>3. OnDisk(G, T, <<>>, f) /\ ("write" \notin Faults => Sound(G, T, <<>>, f))
        BY <4>1, <3>3, <2>1 DEF OnDisk, Sound, Stored
      <4>4. Fits(G, T, <<>>, NoTask, f)
        BY <4>2, <4>3, <2>7 DEF Fits, D
      <4> QED BY <4>1, <4>4, <2>1 DEF G, F
    <3> QED BY <3>2, <3>3
  <2> QED BY <2>8, <2>9
<1>5. file \in [Files -> UNION {FileState(f) : f \in Files}]
  BY <1>4
<1> HIDE DEF file, Q, T
<1>6. /\ u \in State /\ u.file = file /\ u.q = Q(p) /\ u.events = <<>>
  <2>1. Q(p) \in Scheduler!State
    BY <1>3, BookedType
  <2>2. <<>> \in Seq(Events)
    OBVIOUS
  <2> QED BY <2>1, <2>2, <1>4, <1>5 DEF State, Events
<1> HIDE DEF u
<1>7. Once(T, <<>>)
  <2>1. \A i \in 1..Len(<<>>) : FALSE
    OBVIOUS
  <2> QED BY <2>1 DEF Once, Told
<1>8. Inv(u)
  BY <1>3, <1>4, <1>6, <1>7 DEF Inv, InvBut, FitsIn
<1>9. v = CheckDiskspace(u, {})
  BY <1>1 DEF u
<1>10. Inv(v) /\ Grows(u, v)
  BY <1>8, <1>9, CheckKeeps
<1>11. \A f \in Files : v.file[f].list = u.file[f].list
  <2>1. ASSUME NEW f \in Files PROVE v.file[f].list = u.file[f].list
    <3> DEFINE F == u.file[f]
    <3>1. F \in FileState(f)
      BY <1>6, StateType
    <3>2. v.file[f] \in {F, PauseFile(F, TRUE)}
      BY <1>6, <1>9 DEF CheckDiskspace, State
    <3>3. PauseFile(F, TRUE).list = F.list
      BY <3>1, PauseMild DEF Mild
    <3> QED BY <3>2, <3>3
  <2> QED BY <2>1
<1>12. ASSUME "write" \notin Faults, NEW f \in Files
       PROVE  Have(w.file[f]) \subseteq Have(v.file[f]) \/ v.file[f].list = "gone"
  BY <1>4, <1>6, <1>10, <1>11, <1>12 DEF Grows
<1> QED BY <1>10, <1>12

\* The program dies.
LEMMA CrashKeeps ==
  ASSUME IInv, Crash
  PROVE  Inv(s') /\ ("write" \notin Faults => Lossless)
<1> PICK f \in Files :
       \E P \in SUBSET Buffered(s.file[f]) :
         s' \in Started([s EXCEPT !.file[f] = WriteParts(@, P)])
  BY DEF Crash
<1>1. PICK P \in SUBSET Buffered(s.file[f]) :
        s' \in Started([s EXCEPT !.file[f] = WriteParts(@, P)])
  OBVIOUS
<1> DEFINE F == s.file[f]
           G == WriteParts(F, P)
           w == [s EXCEPT !.file[f] = G]
<1>2. s' \in Started(w)
  BY <1>1
<1>3. /\ s \in State /\ F \in FileState(f)
      /\ Fits(F, Awaited(s.q), s.events, Left(s.q), f) /\ Stored(F, f)
  BY InvOpens, InvStored DEF IInv, FitsIn
<1>4. G \in FileState(f) /\ Stored(G, f) /\ Have(F) = Have(G)
  <2>1. CASE P = {}
    BY <2>1, <1>3 DEF WriteParts
  <2>2. CASE P # {}
    <3>1. F.buffer # Nothing(f)
      BY <2>2, <1>1, NoneBuffered
    <3>2. F.list = "queue"
      BY <3>1, <1>3 DEF Fits, Stage
    <3> HIDE DEF F
    <3>3. F.part # Gone /\ F.met # Gone
      BY <3>1, <3>2, <1>3, IdleFacts
    <3>4. P \in SUBSET Buffered(F)
      BY <1>1 DEF F
    <3>5. /\ G \in FileState(f)
          /\ G.list = F.list /\ G.status = F.status /\ G.gaps = F.gaps
          /\ G.buffer = F.buffer /\ G.target = F.target
          /\ G.part \in Contents(f) /\ G.part # Gone
          /\ \A p \in Parts(f) : G.part[p] = IF p \in P THEN F.buffer[p] ELSE F.part[p]
          /\ G.met # Gone /\ G.met.gaps = F.met.gaps
      BY <3>3, <3>4, <1>3, WritePartsType
    <3> HIDE DEF G
    <3>6. F.buffer \in Contents(f)
      BY <1>3 DEF FileState
    <3>7. Have(G) = Have(F)
      <4>1. DOMAIN F.buffer = Parts(f)
        BY <3>6 DEF Contents
      <4>2. \A p \in Parts(f) : F.buffer[p] = "none" => p \notin P
        BY <3>4 DEF Buffered
      <4>3. \A p \in Parts(f) : F.buffer[p] = "none" => G.part[p] = F.part[p]
        BY <4>2, <3>5
      <4> QED BY <4>1, <4>3, <3>3, <3>5 DEF Have
    <3>8. Stored(G, f)
      BY <3>2, <3>3, <3>5, <3>7, <1>3 DEF Stored
    <3> QED BY <3>5, <3>7, <3>8
  <2> QED BY <2>1, <2>2
<1> HIDE DEF G
<1>5. /\ w \in State /\ w.file[f] = G
      /\ \A g \in Files \ {f} : w.file[g] = s.file[g]
  BY <1>3, <1>4, SetFile
<1> HIDE DEF w
<1>6. \A g \in Files : Stored(w.file[g], g) /\ Have(s.file[g]) = Have(w.file[g])
  BY <1>4, <1>5, InvStored
<1>7. /\ Inv(s')
      /\ "write" \notin Faults =>
              \A g \in Files :
                Have(w.file[g]) \subseteq Have(s'.file[g]) \/ s'.file[g].list = "gone"
  BY <1>2, <1>5, <1>6, StartedKeeps
<1> QED BY <1>6, <1>7 DEF Lossless

\* A file is flushed and saved while the program ends.
LEMMA ClosedFile ==
  ASSUME IInv, NEW w \in State, w.file = s.file, ~w.q.running,
         NEW f \in Files, NEW end \in Ends(f), s.file[f].list = "queue"
  PROVE  LET G == SavePartFile(FlushBuffer(w, f, end).file[f]) IN
         /\ G \in FileState(f) /\ Stored(G, f) /\ G.list = "queue"
         /\ Have(s.file[f]) \subseteq Have(G)
<1> DEFINE F == s.file[f]
           H == FlushBuffer(w, f, end).file[f]
           G == SavePartFile(H)
<1>1. /\ F \in FileState(f)
      /\ Fits(F, Awaited(s.q), s.events, Left(s.q), f) /\ Stored(F, f)
  BY InvOpens, InvStored DEF IInv, FitsIn
<1>2. H \in FileState(f) /\ Stored(H, f) /\ H.list = "queue" /\ Have(F) \subseteq Have(H)
  <2>1. CASE F.buffer = Nothing(f)
    <3>1. H = F
      BY <2>1, FlushNothing
    <3> HIDE DEF H
    <3> QED BY <3>1, <1>1
  <2>2. CASE F.buffer # Nothing(f)
    <3> HIDE DEF F
    <3>1. /\ F.list = "queue" /\ F.part # Gone /\ F.met # Gone
          /\ F.status = "ready" /\ Buffered(F) # {}
      <4>1. F.list = "queue"
        BY DEF F
      <4> QED BY <4>1, <2>2, <1>1, IdleFacts
    <3>2. w.file[f] = F
      BY DEF F
    <3>3. CASE w.low
      <4> DEFINE M == PauseFile(F, TRUE)
                 x == [w EXCEPT !.file[f] = M]
      <4>1. FlushBuffer(w, f, end) = x
        BY <3>1, <3>2, <3>3 DEF FlushBuffer
      <4>2. Mild(F, M, f)
        BY <1>1, PauseMild
      <4> HIDE DEF M
      <4>3. M \in FileState(f) /\ M.list = "queue" /\ Have(M) = Have(F)
        BY <4>2, <3>1, MildFits DEF Mild
      <4>4. x \in State /\ x.file[f] = M
        BY <4>3, SetFile
      <4> HIDE DEF x
      <4>5. H = M
        BY <4>1, <4>4
      <4>6. Stored(M, f)
        <5>1. Have(F) \cap F.gaps = {}
          BY DEF Have
        <5> QED BY <5>1, <4>2, <4>3, <3>1, <1>1 DEF Stored, Mild
      <4> HIDE DEF H
      <4> QED BY <4>3, <4>5, <4>6 DEF F
    <3>4. CASE ~w.low
      <4>1. \E N : /\ Flushed(F, N, f)
                   /\ FlushBuffer(w, f, end) =
                        IF N.gaps = {} /\ N.status = "ready" /\ w.q.running
                        THEN HashWholeFile([w EXCEPT !.file[f] = N], f)
                        ELSE [w EXCEPT !.file[f] = N]
        <5>1. /\ w.file[f].status = "ready" /\ w.file[f].part # Gone
              /\ w.file[f].met # Gone /\ Buffered(w.file[f]) # {}
          BY <3>1, <3>2
        <5>2. \E N : /\ Flushed(w.file[f], N, f)
                     /\ FlushBuffer(w, f, end) =
                          IF N.gaps = {} /\ N.status = "ready" /\ w.q.running
                          THEN HashWholeFile([w EXCEPT !.file[f] = N], f)
                          ELSE [w EXCEPT !.file[f] = N]
          BY <5>1, <3>4, Flushing
        <5> QED BY <5>2, <3>2
      <4> PICK N : /\ Flushed(F, N, f)
                   /\ FlushBuffer(w, f, end) = [w EXCEPT !.file[f] = N]
        BY <4>1
      <4> DEFINE x == [w EXCEPT !.file[f] = N]
      <4>2. N \in FileState(f)
        BY DEF Flushed
      <4>3. x \in State /\ x.file[f] = N
        BY <4>2, SetFile
      <4> HIDE DEF x
      <4>4. H = N
        BY <4>3 DEF x
      <4> HIDE DEF H
      <4>5. /\ N.list = "queue" /\ N.part # Gone /\ N.met # Gone /\ Have(F) \subseteq Have(N)
            /\ "write" \notin Faults => N.met.gaps = N.gaps
        BY <3>1 DEF Flushed
      <4>6. Have(N) \cap N.gaps = {}
        BY DEF Have
      <4>7. Stored(N, f)
        BY <4>5, <4>6 DEF Stored
      <4> QED BY <4>2, <4>4, <4>5, <4>7 DEF F
    <3> QED BY <3>3, <3>4
  <2> QED BY <2>1, <2>2
<1> HIDE DEF H
<1>3. Mild(H, G, f) /\ Have(G) = Have(H)
  BY <1>2, SaveMild, MildFits
<1> HIDE DEF G
<1>4. Have(H) \cap H.gaps = {}
  BY DEF Have
<1>5. G \in FileState(f) /\ G.list = "queue"
  BY <1>2, <1>3 DEF Mild
<1>6. Stored(G, f)
  BY <1>2, <1>3, <1>4, <1>5 DEF Stored, Mild
<1>7. Have(F) \subseteq Have(G)
  BY <1>2, <1>3
<1> QED BY <1>5, <1>6, <1>7 DEF G, H, F

\* The program ends.
LEMMA ShutDownKeeps ==
  ASSUME IInv, ShutDown
  PROVE  Inv(s') /\ ("write" \notin Faults => Lossless)
<1> DEFINE B == [Scheduler!Blank EXCEPT !.terminated = TRUE]
           w == [s EXCEPT !.q = B]
<1>1. PICK end \in [Files -> UNION {Ends(f) : f \in Files}] :
        /\ \A f \in Files : end[f] \in Ends(f)
        /\ s' \in Started([w EXCEPT !.file = [f \in Files |->
              IF InQueue(f) /\ w.file[f].open
              THEN SavePartFile(FlushBuffer(w, f, end[f]).file[f]) ELSE w.file[f]]])
  BY DEF ShutDown
<1>2. s \in State
  BY DEF IInv, Inv, InvBut
<1>3. B \in Scheduler!State /\ ~B.running
  <2> DEFINE N == Scheduler!Blank
  <2>1. /\ N \in SP!State
        /\ N.tasks = <<>> /\ N.dirty = FALSE /\ N.descs = {}
        /\ N.current = NoTask /\ N.pc = "entry" /\ N.ended = FALSE
        /\ N.bound = 0 /\ N.running = FALSE /\ N.terminated = FALSE
    BY SameScheduler, SchedulerAssumption, SP!BlankFields
  <2> HIDE DEF N
  <2>2. N \in Scheduler!State
    BY <2>1, SameScheduler
  <2> QED BY <2>1, <2>2 DEF Scheduler!State, N
<1> HIDE DEF B
<1>4. w \in State /\ w.file = s.file /\ ~w.q.running
  BY <1>2, <1>3 DEF State
<1> HIDE DEF w
<1> DEFINE I1(f) == IF InQueue(f) /\ w.file[f].open
                    THEN SavePartFile(FlushBuffer(w, f, end[f]).file[f]) ELSE w.file[f]
           I == [f \in Files |-> I1(f)]
           x == [w EXCEPT !.file = I]
<1>5. s' \in Started(x)
  BY <1>1
<1>6. ASSUME NEW f \in Files
      PROVE  /\ I1(f) \in FileState(f) /\ Stored(I1(f), f)
             /\ Have(s.file[f]) \subseteq Have(I1(f))
  <2>1. CASE InQueue(f) /\ w.file[f].open
    <3> DEFINE G == SavePartFile(FlushBuffer(w, f, end[f]).file[f])
    <3>1. s.file[f].list = "queue" /\ end[f] \in Ends(f)
      BY <2>1, <1>1 DEF InQueue
    <3>2. /\ G \in FileState(f) /\ Stored(G, f)
          /\ Have(s.file[f]) \subseteq Have(G)
      BY <3>1, <1>4, ClosedFile
    <3>3. I1(f) = G
      BY <2>1
    <3> HIDE DEF G, I1
    <3> QED BY <3>2, <3>3
  <2>2. CASE ~(InQueue(f) /\ w.file[f].open)
    <3>1. I1(f) = s.file[f]
      BY <2>2, <1>4
    <3> HIDE DEF I1
    <3>2. s.file[f] \in FileState(f)
      BY <1>2, StateType
    <3> QED BY <3>1, <3>2, InvStored
  <2> QED BY <2>1, <2>2
<1> HIDE DEF I1
<1>7. I \in [Files -> UNION {FileState(f) : f \in Files}] /\ \A f \in Files : I[f] = I1(f)
  BY <1>6
<1> HIDE DEF I
<1>8. x \in State /\ x.file = I
  BY <1>4, <1>6, <1>7 DEF State
<1> HIDE DEF x
<1>9. \A f \in Files : Stored(x.file[f], f) /\ Have(s.file[f]) \subseteq Have(x.file[f])
  BY <1>6, <1>7, <1>8
<1>10. /\ Inv(s')
       /\ "write" \notin Faults =>
              \A g \in Files :
                Have(x.file[g]) \subseteq Have(s'.file[g]) \/ s'.file[g].list = "gone"
  BY <1>5, <1>8, <1>9, StartedKeeps
<1> QED BY <1>9, <1>10 DEF Lossless

-----------------------------------------------------------------------------
(***************************************************************************)
(* The theorems.                                                            *)
(***************************************************************************)
\* Nothing has been added yet.
LEMMA InitKeeps == Init => IInv
<1> SUFFICES ASSUME Init PROVE Inv(s)
  BY DEF IInv
<1>1. Booked(Fresh) /\ Left(Fresh) = NoTask /\ Awaited(Fresh) = {}
  BY FreshBooked
<1>2. ASSUME NEW f \in Files
      PROVE  /\ NewFile(f) \in FileState(f) /\ NewFile(f).list = "unborn"
             /\ NewFile(f).buffer = Nothing(f)
             /\ NewFile(f).part = Gone /\ NewFile(f).met = Gone
  BY Content DEF NewFile, FileState
<1>3. \A i \in 1..Len(<<>>) : FALSE
  OBVIOUS
<1> DEFINE I == [f \in Files |-> NewFile(f)]
<1>4. s = [file |-> I, q |-> Fresh, events |-> <<>>, low |-> FALSE]
  BY DEF Init
<1>5. I \in [Files -> UNION {FileState(f) : f \in Files}] /\ \A f \in Files : I[f] = NewFile(f)
  BY <1>2
<1>6. Fresh \in Scheduler!State
  BY <1>1, BookedType
<1> HIDE DEF I
<1>7. s.file = I /\ s.q = Fresh /\ s.events = <<>> /\ s.low = FALSE
  BY <1>4
<1>8. s \in State
  <2>1. \A f \in Files : I[f] \in FileState(f)
    BY <1>2, <1>5
  <2>2. <<>> \in Seq(UNION {Event(f) : f \in Files})
    OBVIOUS
  <2> QED BY <2>1, <2>2, <1>4, <1>5, <1>6 DEF State
<1>9. Once({}, <<>>)
  BY <1>3 DEF Once
<1>10. ASSUME NEW f \in Files PROVE FitsIn(s, f)
  <2> DEFINE F == NewFile(f)
  <2>1. Due({}, <<>>, f) = {}
    BY <1>3 DEF Due, Told
  <2>2. /\ F.list = "unborn" /\ F.buffer = Nothing(f)
        /\ F.part = Gone /\ F.met = Gone
    BY <1>2
  <2> HIDE DEF F
  <2>3. NoTask \notin {"allocate", "hash", "complete"} \X {f} /\ NoTask # <<"complete", f>>
    BY TasksAssumption DEF Tasks, FileTasks
  <2>4. Stage(F, {}, f)
    BY <2>2 DEF Stage
  <2>5. Behind(F, {}, NoTask, f)
    BY <2>3 DEF Behind
  <2>6. Fits(F, {}, <<>>, NoTask, f)
    BY <2>1, <2>2, <2>4, <2>5 DEF Fits, OnDisk, Sound
  <2> QED BY <2>6, <1>1, <1>5, <1>7 DEF FitsIn, F
<1> QED BY <1>1, <1>7, <1>8, <1>9, <1>10 DEF Inv, InvBut

\* Every step keeps the invariant and loses nothing.
LEMMA NextKeeps ==
  ASSUME IInv, Next
  PROVE  Inv(s') /\ ("write" \notin Faults => Lossless)
<1>1. ASSUME NEW f \in Files, Download(f) PROVE Inv(s') /\ Lossless
  BY <1>1, DownloadKeeps, GrowsLossless
<1>2. ASSUME NEW f \in Files, User(f) PROVE Inv(s') /\ Lossless
  BY <1>2, UserKeeps
<1>3. CASE DiskCheck \/ SpaceChanges
  BY <1>3, SpaceKeeps, GrowsLossless
<1>4. CASE Work
  BY <1>4, WorkKeeps
<1>5. CASE Dispatch
  BY <1>5, DispatchKeeps, GrowsLossless
<1>6. CASE Restart
  BY <1>6, CrashKeeps, ShutDownKeeps DEF Restart
<1> QED BY <1>1, <1>2, <1>3, <1>4, <1>5, <1>6 DEF Next

\* The invariant is one.
LEMMA Invariance == Spec => []IInv
<1>1. Init => IInv
  BY InitKeeps
<1>2. IInv /\ [Next]_s => IInv'
  <2> SUFFICES ASSUME IInv, [Next]_s PROVE Inv(s')
    BY DEF IInv, Inv, InvBut, FitsIn
  <2>1. CASE Next
    BY <2>1, NextKeeps
  <2>2. CASE s' = s
    BY <2>2 DEF IInv
  <2> QED BY <2>1, <2>2
<1> QED BY <1>1, <1>2, PTL DEF Spec

\* Whatever happens to a download, its record, the disk and the events keep
\* their types: no handler finds a .part.met file gone that it writes into.
THEOREM FilesKeepTheirTypes == Spec => []TypeOK
<1>1. IInv => TypeOK
  <2> SUFFICES ASSUME IInv PROVE TypeOK
    OBVIOUS
  <2>1. s \in State
    BY DEF IInv, Inv, InvBut
  <2>2. /\ \A f \in Files : s.file[f] \in FileState(f)
        /\ s.q \in Scheduler!State /\ s.events \in Seq(Events) /\ s.low \in BOOLEAN
    BY <2>1, StateType
  <2>3. \A i \in 1..Len(s.events) : s.events[i] \in Events
    BY <2>2, ElementOfSeq
  <2>4. DOMAIN s = {"file", "q", "events", "low"}
    BY <2>1 DEF State
  <2> QED BY <2>2, <2>3, <2>4 DEF TypeOK, Events
<1> QED BY <1>1, Invariance, PTL

\* A file that is allocating, waits to be hashed or is being completed has one
\* task, or its event, on the way that will change this: never none, and never
\* two whose events would contradict each other.  A hashing task that cannot
\* read the file says nothing to it, hence the assumption.
THEOREM NoFileWaitsForNothing ==
  ASSUME "hash" \notin Faults
  PROVE  Spec => []BusyHasTask
<1>1. IInv => BusyHasTask
  <2> SUFFICES ASSUME IInv, NEW f \in Files, s.file[f].list = "queue",
                      s.file[f].status \in {"allocating", "waitingforhash", "completing"}
               PROVE  Cardinality(Pending(f)) = 1
    BY DEF BusyHasTask
  <2> DEFINE D == Due(Awaited(s.q), s.events, f)
  <2>1. Fits(s.file[f], Awaited(s.q), s.events, Left(s.q), f)
    BY InvOpens DEF IInv, FitsIn
  <2>2. Pending(f) = D
    BY DEF Pending, Due, Awaited, Told
  <2>3. D # {} /\ \A t, u \in D : t = u
    BY <2>1 DEF Fits, Stage
  <2> HIDE DEF D
  <2>4. PICK t : t \in D
    BY <2>3
  <2>5. D = {t}
    BY <2>3, <2>4
  <2> QED BY <2>2, <2>5, FS_Singleton
<1> QED BY <1>1, Invariance, PTL

\* A completed download is the file that was wanted: no order of parts, hashing
\* results, interruptions and restarts lets a file with a gap or a corrupt part
\* be moved away.  Where writing may fail this does not hold of the code.
THEOREM OnlyWholeFilesComplete ==
  ASSUME "write" \notin Faults
  PROVE  Spec => []CompletedIsWhole
<1>1. IInv => CompletedIsWhole
  <2> SUFFICES ASSUME IInv, NEW f \in Files, s.file[f].list = "completed"
               PROVE  Arrived(s.file[f], f)
    BY DEF CompletedIsWhole, Arrived
  <2>1. Fits(s.file[f], Awaited(s.q), s.events, Left(s.q), f)
    BY InvOpens DEF IInv, FitsIn
  <2> QED BY <2>1 DEF Fits, Sound
<1> QED BY <1>1, Invariance, PTL

\* No step, not even a crash followed by the start of the program, loses a part
\* that was there for good, but for deletion, completion, and a copy that fails.
THEOREM GoodPartsStay ==
  ASSUME "write" \notin Faults
  PROVE  Spec => NothingIsLost
<1>1. IInv /\ [Next]_s =>
        [\A f \in Files :
           LET F == s.file[f]
               G == s'.file[f]
           IN  \/ Have(F) \subseteq Have(G)
               \/ G.list = "gone" \/ G.target = Whole(f)
               \/ CopyFails(f)]_s
  BY NextKeeps DEF Lossless
<1> QED BY <1>1, Invariance, PTL DEF Spec, NothingIsLost
=============================================================================
