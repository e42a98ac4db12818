----------------------------- MODULE MCKadSearch -----------------------------
(***************************************************************************)
(* An instance of KadSearch for TLC.                                        *)
(***************************************************************************)
EXTENDS KadSearch

Answers ==
  [k \in AllKinds |-> IF k = "NODE" THEN 1 ELSE IF k = "VALUE" THEN 2 ELSE 2]

Completed == [k \in AllKinds |-> IF k = "NODE" THEN 1 ELSE 2]
=============================================================================
