------------------------------ MODULE MCMbMaster -----------------------------
(***************************************************************************)
(* A small driver for TLC.                                                 *)
(***************************************************************************)
EXTENDS MbMaster

FewSockets == 1 .. 3
==============================================================================
