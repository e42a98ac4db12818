--------------------------- MODULE MCBlockRequests ---------------------------
(***************************************************************************)
(* Instances of BlockRequests for TLC; the constants are set in the         *)
(* BlockRequests*.cfg files.                                                *)
(***************************************************************************)
EXTENDS BlockRequests

CONSTANTS c1, c2

\* The first source has the whole file, the second all parts but the first.
SecondLacksOne == [c \in Clients |-> IF c = c1 THEN Parts ELSE Parts \ {0}]

=============================================================================
