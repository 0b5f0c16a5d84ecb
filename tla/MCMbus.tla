------------------------------- MODULE MCMbus --------------------------------
(***************************************************************************)
(* Small masters for TLC: the calls the application makes and the tables   *)
(* of the slave.                                                           *)
(***************************************************************************)
EXTENDS Mbus

MB_ADDRESS(space, n) == 65536 * space + n

ACall(op, slave, address, quantity, values) ==
  [op |-> op, slave |-> slave, address |-> address, quantity |-> quantity, values |-> values]

Pattern(n, k) == [i \in 1 .. n |-> (i + k) % 2]

NoVendor == [f \in {} |-> {}]
OkOrFailure == {0, ESLAVE_DEVICE_FAILURE}
AllTables == Tables
WriteTables == {"coils", "holding_registers"}

\* Calls that succeed or fail, also on no device, for everybody and past the
\* ends of the tables, for sequences
SomeCalls ==
       {ACall("read", s, MB_ADDRESS(x, 2), 3, <<>>) : s \in {1, 2}, x \in {0, 4}}
  \cup {ACall("read", 1, MB_ADDRESS(0, 2000), 3, <<>>)}
  \cup {ACall("write", s, MB_ADDRESS(4, 1), 2, <<7, 8>>) : s \in {0, 1}}
  \cup {ACall("write", 1, MB_ADDRESS(0, n), 9, Pattern(16, 0)) : n \in {2, 1994}}
  \cup {ACall("write_single", 1, MB_ADDRESS(x, 3), 1, <<5>>) : x \in {0, 4}}
  \cup {ACall("loopback", 1, 0, 2, <<1, 2>>)}

\* One call around every limit of the master and of a device one element
\* larger than the largest request
LimitSize == [t \in Tables |-> IF t \in {"coils", "inputs"} THEN 2001 ELSE 126]

Addresses == {0, 1, 2, 3, 4, 5, 125, 126, 127, 1994, 1995, 2001, 2002, 65535}

LimitCalls ==
       {ACall("read", s, MB_ADDRESS(x, n), q, <<>>) :
          s \in {0, 1}, x \in 0 .. 5, n \in Addresses,
          q \in {0, 1, 7, 8, 9, 125, 126, 2000, 2001, 65535}}
  \cup {ACall("write", 1, MB_ADDRESS(0, n), q, Pattern(1976, 0)) :
          n \in Addresses \cup {34, 35}, q \in {0, 1, 7, 8, 9, 1967, 1968, 1969}}
  \cup {ACall("write", 1, MB_ADDRESS(x, n), q, Pattern(124, 1)) :
          x \in {1, 3, 4}, n \in Addresses, q \in {0, 1, 2, 122, 123, 124}}
  \cup {ACall("write_single", 1, MB_ADDRESS(x, n), 1, <<v>>) :
          x \in 0 .. 5, n \in Addresses, v \in {0, 1, 65280, 65535}}
  \cup {ACall("loopback", 1, 0, n, Pattern(n, 0)) : n \in {0, 1, 250, 251}}
==============================================================================
