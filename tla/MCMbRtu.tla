------------------------------- MODULE MCMbRtu -------------------------------
(***************************************************************************)
(* Small serial lines for TLC: the frames the other stations send.         *)
(***************************************************************************)
EXTENDS MbRtu

Kind(size, unit, bad) == [size |-> size, unit |-> unit, bad |-> bad]

\* With a buffer of four bytes: a request, a broadcast with an empty PDU, a frame
\* for another station, and a damaged one that fills the buffer (and, with a
\* rushed one behind, overfills it)
SlaveKinds == {Kind(1, "me", FALSE), Kind(0, "all", FALSE), Kind(0, "other", FALSE),
               Kind(2, "me", TRUE)}

PlainKinds == {Kind(1, "me", FALSE)}

MasterKinds == {Kind(1, "me", b) : b \in BOOLEAN}
OtherKinds  == {Kind(1, u, FALSE) : u \in {"me", "other"}}
LegalKinds  == {Kind(n, "me", FALSE) : n \in {1, 3}}
==============================================================================
