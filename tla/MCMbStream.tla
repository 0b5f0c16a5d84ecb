------------------------------ MODULE MCMbStream -----------------------------
(***************************************************************************)
(* Short messages for TLC.                                                 *)
(***************************************************************************)
EXTENDS MbStream

\* 0, an empty PDU, every legal size and one too long
FewLengths == {0, 1, 2, 3, 4}
==============================================================================
