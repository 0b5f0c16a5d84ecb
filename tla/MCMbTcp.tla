------------------------------- MODULE MCMbTcp -------------------------------
(***************************************************************************)
(* Small networks for TLC: every constant is given in the cfg files.       *)
(***************************************************************************)
EXTENDS MbTcp
==============================================================================
