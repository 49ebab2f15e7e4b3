------------------------------- MODULE MCProc -------------------------------
(***************************************************************************)
(* Instances of Proc for TLC; the constants are numbers, given in the      *)
(* configurations.                                                         *)
(***************************************************************************)
EXTENDS Proc
=============================================================================
