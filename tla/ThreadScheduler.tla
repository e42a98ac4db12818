--------------------------- MODULE ThreadScheduler ---------------------------
(***************************************************************************)
(* CThreadScheduler (ThreadScheduler.cpp): the queue of background tasks    *)
(* and the coroutine that runs them on the main thread, one piece per idle  *)
(* event.  The coroutine's resume point is the field pc:                    *)
(*   "entry"    before its first statement, or after its last               *)
(*   "working"  the current task has been chosen, its Continue() is called  *)
(*              on every idle event until it returns false                  *)
(*   "done"     the task's OnExit has run; its entry is still in            *)
(*              m_taskDescs                                                 *)
(* The coroutine gets idle events while RunIdle is bound to wxTheApp;       *)
(* CMuleCoroutine::Start binds it, once more if it is bound already, and    *)
(* leaving the loop takes one binding away.                                 *)
(***************************************************************************)
EXTENDS Naturals, Sequences, FiniteSets

CONSTANTS
  Tasks,     \* task objects
  Descs,     \* <<type, description>> pairs
  Desc,      \* the one of each task
  Priority,  \* GetPriority()
  Hashing,   \* the Descs of type "Hashing"
  Sync,      \* the CAICHSyncTask
  Unhashed,  \* the tasks CheckAICHHashes may find necessary
  NoTask,
  MaxBound   \* bound: no task is added while RunIdle is bound more often

ASSUME TasksAssumption ==
  /\ NoTask \notin Tasks
  /\ Desc \in [Tasks -> Descs]
  /\ Priority \in [Tasks -> Nat]
  /\ Sync \in Tasks /\ Desc[Sync] \notin Hashing
  /\ Unhashed \subseteq Tasks /\ IsFiniteSet(Unhashed)
  /\ \A t, u \in Unhashed : Desc[t] = Desc[u] => t = u

VARIABLE q

State ==
  [ tasks      : Seq(Tasks),          \* m_tasks, in list order
    dirty      : BOOLEAN,             \* m_tasksDirty
    descs      : SUBSET Descs,        \* the keys of m_taskDescs
    current    : Tasks \cup {NoTask}, \* m_currentTask
    pc         : {"entry", "working", "done"},   \* __s
    ended      : BOOLEAN,             \* m_end
    bound      : Nat,                 \* how often RunIdle is bound
    running    : BOOLEAN,             \* s_running
    terminated : BOOLEAN ]            \* s_terminated

\* No scheduler object, or a new one.
Blank ==
  [ tasks |-> <<>>, dirty |-> FALSE, descs |-> {}, current |-> NoTask,
    pc |-> "entry", ended |-> FALSE, bound |-> 0,
    running |-> FALSE, terminated |-> FALSE ]

Init == q = Blank

Listed(s) == {s[i] : i \in 1..Len(s)}
-----------------------------------------------------------------------------
(***************************************************************************)
(* Adding tasks.                                                            *)
(***************************************************************************)
IsAlive(Q) == Q.pc # "entry" /\ ~Q.ended

\* Mutant of CreateSchedulerThread: an idle event is expected to be due anyway.
CreateUnlessBusy(Q) ==
  IF IsAlive(Q) \/ Q.tasks = <<>> \/ Q.ended THEN Q
  ELSE [Q EXCEPT !.ended = FALSE, !.bound = @ + 1]

CreateSchedulerThread(Q) ==
  IF IsAlive(Q) \/ Q.tasks = <<>> THEN Q
  ELSE [Q EXCEPT !.ended = FALSE, !.bound = @ + 1]

\* Tasks p, none of which is held already, go to the end of the list.
Push(Q, p) ==
  [Q EXCEPT !.tasks = @ \o p,
            !.descs = @ \cup {Desc[t] : t \in Listed(p)},
            !.dirty = @ \/ p # <<>>]

\* Mutant of AddTask: only a task that is still waiting is a duplicate.
AddUnlessWaiting(Q, t) ==
  IF Q.terminated \/ \E u \in Listed(Q.tasks) : Desc[u] = Desc[t] THEN Q
  ELSE IF Q.running THEN CreateSchedulerThread(Push(Q, <<t>>))
  ELSE Push(Q, <<t>>)

\* AddTask and DoAddTask; no caller passes overwrite.
AddTask(Q, t) ==
  IF Q.terminated \/ Desc[t] \in Q.descs THEN Q
  ELSE IF Q.running THEN CreateSchedulerThread(Push(Q, <<t>>))
  ELSE Push(Q, <<t>>)

\* The orders in which the tasks of a set may be met, all of them new.
Orders(T) ==
  {p \in [1..Cardinality(T) -> T] :
     \A i, j \in 1..Cardinality(T) : i # j => p[i] # p[j]}

\* CSharedFileList::CheckAICHHashes, called from within a task.
CheckAICHHashes(Q) ==
  UNION {{Push(Q, p) : p \in Orders(T)} :
           T \in SUBSET {t \in Unhashed : Desc[t] \notin Q.descs}}
-----------------------------------------------------------------------------
(***************************************************************************)
(* The coroutine.                                                           *)
(***************************************************************************)
\* Mutant of Goes: of two tasks of the same priority the younger goes first.
GoesYoungest(s, i, j) ==
  \/ Priority[s[i]] > Priority[s[j]]
  \/ Priority[s[i]] = Priority[s[j]] /\ i > j

\* CTaskSorter: entry i of the list goes before entry j.  Entries of the same
\* priority are in the list in the order of their ages.
Goes(s, i, j) ==
  \/ Priority[s[i]] > Priority[s[j]]
  \/ Priority[s[i]] = Priority[s[j]] /\ i < j

\* What std::sort makes of the list: entry i ends behind all that go before it.
Place(s, i) == Cardinality({j \in 1..Len(s) : Goes(s, j, i)}) + 1

Resorted(s) ==
  [k \in 1..Len(s) |-> s[CHOOSE i \in 1..Len(s) : Place(s, i) = k]]

\* The first task of the list s becomes the current one.
Select(Q, s) ==
  [Q EXCEPT !.tasks = Tail(s), !.current = Head(s), !.dirty = FALSE,
            !.pc = "working"]

\* The loop is left, and RunIdle unbound.
Leave(Q) ==
  [Q EXCEPT !.pc = "entry", !.ended = TRUE, !.bound = @ - 1]

\* From the head of the loop to the next return.
Loop(Q) ==
  IF ~Q.dirty /\ Q.tasks = <<>> THEN Leave(Q)
  ELSE Select(Q, IF Q.dirty THEN Resorted(Q.tasks) ELSE Q.tasks)

\* The current task's Continue returns false and its OnExit runs.
Finished(Q) ==
  {[P EXCEPT !.pc = "done"] :
     P \in IF Q.current = Sync THEN CheckAICHHashes(Q) ELSE {Q}}

\* Mutant of Cleanup: looks for the last task before the entry is erased.
CleanupLate(Q) ==
  LET P == [Q EXCEPT !.descs = @ \ {Desc[Q.current]}, !.current = NoTask]
  IN  IF Desc[Q.current] \in Hashing /\ Q.descs \cap Hashing = {}
      THEN AddTask(P, Sync) ELSE P

\* The entry of the finished task is erased; the last hashing task calls for
\* the AICH hash sets to be checked (CHashingTask::OnLastTask).
Cleanup(Q) ==
  LET P == [Q EXCEPT !.descs = @ \ {Desc[Q.current]}, !.current = NoTask]
  IN  IF Desc[Q.current] \in Hashing /\ P.descs \cap Hashing = {}
      THEN AddTask(P, Sync) ELSE P
-----------------------------------------------------------------------------
(***************************************************************************)
(* The steps.                                                               *)
(***************************************************************************)
\* Somebody adds a task.
Add(t) ==
  /\ q.bound <= MaxBound
  /\ q' = AddTask(q, t)

\* CThreadScheduler::Start, once, by OnInit.
Start ==
  /\ ~q.running /\ ~q.terminated
  /\ q' = CreateSchedulerThread([q EXCEPT !.running = TRUE])

\* CThreadScheduler::Terminate, by ShutDown.
Terminate ==
  /\ ~q.terminated
  /\ q' = [Blank EXCEPT !.terminated = TRUE]

\* RunIdle, from the three places where the coroutine may stand.  While the
\* task goes on, Continue changes nothing here.
Enter  == q.bound > 0 /\ q.pc = "entry" /\ q' = Loop(q)
Finish == q.bound > 0 /\ q.pc = "working" /\ q' \in Finished(q)
GoOn   == q.bound > 0 /\ q.pc = "done" /\ q' = Loop(Cleanup(q))

RunIdle == Enter \/ Finish \/ GoOn

Next ==
  \/ \E t \in Tasks : Add(t)
  \/ Start
  \/ Terminate
  \/ RunIdle

Spec == Init /\ [][Next]_q

\* Timers keep the event loop turning, so idle events come; a task is a loop
\* over the parts of a file.
Fairness == WF_q(RunIdle)

FairSpec == Spec /\ Fairness
-----------------------------------------------------------------------------
(***************************************************************************)
(* Properties.                                                              *)
(***************************************************************************)
TypeOK == q \in State

\* m_taskDescs has exactly one entry for each task waiting or running, so the
\* wxFAIL behind map.erase is not reached and no task is taken for a duplicate
\* of one that is gone.
DescsAgree ==
  LET held == Listed(q.tasks) \cup ({q.current} \ {NoTask}) IN
  /\ q.descs = {Desc[t] : t \in held}
  /\ Cardinality(held) = Cardinality(q.descs)
  /\ Len(q.tasks) + (IF q.current = NoTask THEN 0 ELSE 1) = Cardinality(held)

\* As long as there is something to do RunIdle is bound: neither a task added
\* just as the loop is left nor one added in the middle of a step is forgotten.
NoLostWakeup ==
  q.running /\ (q.tasks # <<>> \/ q.pc # "entry") => q.bound > 0

\* The loop takes the first task of the list without looking when the list is
\* not marked dirty: it is in order then, and never empty when it is dirty.
CleanIsSorted ==
  /\ q.dirty => q.tasks # <<>>
  /\ ~q.dirty => \A i, j \in 1..Len(q.tasks) :
                   i < j => Priority[q.tasks[i]] >= Priority[q.tasks[j]]

\* The scheduler's own bookkeeping is sound: the two conditions above hold
\* whatever is added, ends, is suspended or terminated meanwhile.
SchedulerWellFormed == TypeOK /\ DescsAgree /\ CleanIsSorted

\* When the last hashing task ends, the AICH hash sets are checked afterwards.
LastHashCallsSync ==
  [][ /\ q.current # NoTask /\ Desc[q.current] \in Hashing
      /\ q'.current # q.current /\ ~q'.terminated
      => \/ q'.descs \cap Hashing # {}
         \/ Desc[Sync] \in q'.descs ]_q

\* The scheduler keeps the promises of its header.
Service == INSTANCE TaskService WITH
  Batches <- {<<>>} \cup {<<t>> : t \in Tasks}
               \cup UNION {Orders(T) : T \in SUBSET Unhashed},
  waiting <- Listed(q.tasks),
  before  <- {r \in Tasks \X Tasks :
                /\ Priority[r[1]] = Priority[r[2]]
                /\ \E i, j \in 1..Len(q.tasks) :
                     i < j /\ r = <<q.tasks[i], q.tasks[j]>>},
  busy    <- q.current,
  phase   <- IF q.terminated THEN "closed"
             ELSE IF q.running THEN "running" ELSE "suspended"

ServiceKept == Service!Spec

\* Once nothing is added any more, the queue is worked off, whatever the tasks
\* add themselves.
QueueDrains ==
  <>[][\A t \in Tasks : ~Add(t)]_q =>
    []<>(q.running => q.tasks = <<>> /\ q.pc = "entry")
=============================================================================
