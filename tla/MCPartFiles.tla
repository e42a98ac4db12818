----------------------------- MODULE MCPartFiles -----------------------------
(***************************************************************************)
(* Instances of PartFiles for TLC.                                          *)
(***************************************************************************)
EXTENDS PartFiles

CONSTANTS f1, f2

TwoAndOne == [f \in Files |-> IF f = f1 THEN 2 ELSE 1]
=============================================================================
