---------------------------- MODULE MCUploadQueue ----------------------------
(***************************************************************************)
(* Instances of UploadQueue for TLC; the constants are set in the           *)
(* UploadQueue*.cfg files.                                                  *)
(***************************************************************************)
EXTENDS UploadQueue
=============================================================================
