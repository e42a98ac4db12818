-------------------------- MODULE MCThreadScheduler --------------------------
(***************************************************************************)
(* An instance of ThreadScheduler for TLC: two part files that are hashed,  *)
(* one that is completed, and two shared files that lack their AICH hash    *)
(* sets.  Adding a task that is held stands for adding another object with  *)
(* the same type and description.                                           *)
(***************************************************************************)
EXTENDS ThreadScheduler

MCTasks == {"hash1", "hash2", "complete", "aich1", "aich2", "sync"}

MCDesc == [t \in MCTasks |-> t]

\* ETP_High = 2, ETP_Normal = 1, ETP_Low = 0
MCPriority ==
  [t \in MCTasks |-> IF t \in {"hash1", "hash2", "complete"} THEN 2 ELSE 0]
=============================================================================
