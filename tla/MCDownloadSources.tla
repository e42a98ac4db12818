-------------------------- MODULE MCDownloadSources --------------------------
(***************************************************************************)
(* Instances of DownloadSources for TLC; the constants are set in the       *)
(* DownloadSources*.cfg files.                                              *)
(***************************************************************************)
EXTENDS DownloadSources

CONSTANTS f1, f2

\* The second file is preferred.
SecondFirst == [f \in Files |-> IF f = f2 THEN 2 ELSE 1]
=============================================================================
