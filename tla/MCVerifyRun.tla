---------------------------- MODULE MCVerifyRun ----------------------------
(***************************************************************************)
(* Instances of VerifyRun for TLC; its scenarios are the program's own.    *)
(***************************************************************************)
EXTENDS VerifyRun
=============================================================================
