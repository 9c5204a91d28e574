---------------------------- MODULE MCReceivePath ----------------------------
(***************************************************************************)
(* ReceivePath for TLC; its constants are numbers.                         *)
(***************************************************************************)
EXTENDS ReceivePath
=============================================================================
