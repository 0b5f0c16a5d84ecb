------------------------------ MODULE MCMbLinux ------------------------------
(***************************************************************************)
(* Two frames for TLC: one for this station, one a damaged broadcast.      *)
(***************************************************************************)
EXTENDS MbLinux

Kind(unit, pdu, bad) == [unit |-> unit, pdu |-> pdu, bad |-> bad]

TwoKinds == { Kind(1, <<3>>, FALSE), Kind(0, <<65>>, TRUE) }
==============================================================================
