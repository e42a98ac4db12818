----------------------------- MODULE TaskService -----------------------------
(***************************************************************************)
(* What CThreadScheduler promises to those who add tasks (the comments of   *)
(* ThreadScheduler.h): tasks run one at a time, by priority and then by     *)
(* age; a task that matches one already held is discarded; nothing runs     *)
(* before Start and nothing is held after Terminate.  How the tasks are     *)
(* kept and when the scheduler is woken up does not show here.              *)
(***************************************************************************)
EXTENDS Naturals, Sequences

CONSTANTS
  Tasks,     \* task objects
  Batches,   \* the sequences of tasks that may be handed over at once
  Desc,      \* the type and description by which duplicates are found
  Priority,  \* the ETaskPriority of a task
  NoTask

VARIABLES
  waiting,   \* the tasks held but not begun
  before,    \* pairs of waiting tasks of one priority, the older task first
  busy,      \* the task that has begun, or NoTask
  phase      \* "suspended" until Start, "closed" after Terminate

vars == <<waiting, before, busy, phase>>

Init ==
  /\ waiting = {} /\ before = {} /\ busy = NoTask
  /\ phase = "suspended"

Listed(p) == {p[i] : i \in 1..Len(p)}

\* The tasks of p differ from each other and from those held in H.
Fresh(p, H) ==
  /\ \A i \in 1..Len(p) : \A u \in H : Desc[p[i]] # Desc[u]
  /\ \A i, j \in 1..Len(p) : i # j => Desc[p[i]] # Desc[p[j]]

\* The waiting tasks, and their order, once those of p have come.
Joined(p) == waiting \cup Listed(p)

Behind(p) ==
  {r \in Tasks \X Tasks :
     /\ Priority[r[1]] = Priority[r[2]]
     /\ \/ r \in before
        \/ r[1] \in waiting /\ r[2] \in Listed(p)
        \/ \E i, j \in 1..Len(p) : i < j /\ r = <<p[i], p[j]>>}

\* Tasks are handed over and wait.
Accept(p) ==
  /\ phase # "closed"
  /\ Fresh(p, waiting \cup ({busy} \ {NoTask}))
  /\ waiting' = Joined(p) /\ before' = Behind(p)
  /\ UNCHANGED <<busy, phase>>

\* The task that ran has ended, handing over p; task t begins: none waits that
\* has a higher priority, or the same and is older.
Begin(p, t) ==
  /\ phase = "running"
  /\ Fresh(p, waiting)
  /\ t \in Joined(p)
  /\ \A u \in Joined(p) : Priority[u] <= Priority[t] /\ <<u, t>> \notin Behind(p)
  /\ busy' = t
  /\ waiting' = Joined(p) \ {t}
  /\ before' = {r \in Behind(p) : r[1] # t /\ r[2] # t}
  /\ UNCHANGED phase

\* The task that ran has ended, and none waits.
Rest ==
  /\ phase = "running" /\ waiting = {}
  /\ busy' = NoTask
  /\ UNCHANGED <<waiting, before, phase>>

Start ==
  /\ phase = "suspended"
  /\ phase' = "running"
  /\ UNCHANGED <<waiting, before, busy>>

Terminate ==
  /\ phase' = "closed"
  /\ waiting' = {} /\ before' = {} /\ busy' = NoTask

Next ==
  \/ \E p \in Batches : Accept(p) \/ \E t \in Tasks : Begin(p, t)
  \/ Rest
  \/ Start
  \/ Terminate

Spec == Init /\ [][Next]_vars
=============================================================================
