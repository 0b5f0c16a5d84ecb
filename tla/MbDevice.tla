------------------------------- MODULE MbDevice ------------------------------
(***************************************************************************)
(* What an application may expect of a master and a slave together: a      *)
(* device whose tables are read and written by calls.  No PDU, byte count  *)
(* or 0-based address is seen here.                                        *)
(*                                                                         *)
(* Calls are performed one at a time, in the order they were made, each    *)
(* wholly or not at all and at most once.  A call or its outcome may get   *)
(* lost.  An outcome goes to the call that waits when it comes, which may  *)
(* be a later one than the call it belongs to: Modbus over a serial line   *)
(* cannot tell, and mbus.c does not try.                                   *)
(***************************************************************************)
EXTENDS Integers, Sequences

CONSTANTS
  Size, Readable, Writable,   \* the tables, see MbHandlers
  Me,                         \* the device's address
  Failures,                   \* errors a device may report
  Contents                    \* what the tables hold at first

VARIABLES
  mem,       \* the tables
  call,      \* the last call
  answer,    \* what it returned: [status, data], status "wait" while it waits
  pending,   \* calls made and not performed
  outcomes   \* outcomes nobody has seen: [op, error, data]

vars == <<mem, call, answer, pending, outcomes>>

Broadcast == 0

\* For a single write values holds the value, for a loopback the bytes.
Call == [op : {"read", "write", "write_single", "loopback"}, slave : 0 .. 255,
         address : Nat, quantity : Nat, values : Seq(Nat)]

\* The address space is the ten-thousands digit of the traditional notation;
\* elements are numbered from 1 in each.
Space(c)   == c.address \div 65536
TableOf(c) == CASE Space(c) = 0 -> "coils" [] Space(c) = 1 -> "inputs"
                [] Space(c) = 3 -> "input_registers" [] Space(c) = 4 -> "holding_registers"
First(c)   == c.address - 65536 * Space(c) - 1
IsBits(c)  == TableOf(c) \in {"coils", "inputs"}

Quantity(c) == IF c.op = "write_single" THEN 1 ELSE c.quantity

\* What the protocol can express
Legal(c) ==
  CASE c.op = "read"  -> /\ c.slave # Broadcast
                         /\ Space(c) \in {0, 1, 3, 4}
                         /\ c.quantity <= IF IsBits(c) THEN 2000 ELSE 125
    [] c.op = "write" -> Space(c) \in {0, 4} /\ c.quantity <= IF IsBits(c) THEN 1968 ELSE 123
    [] c.op = "write_single" -> Space(c) \in {0, 4}
    [] c.op = "loopback"     -> c.quantity <= 250

\* What this device can do
Possible(c) ==
  \/ c.op = "loopback"
  \/ /\ TableOf(c) \in IF c.op = "read" THEN Readable ELSE Writable
     /\ Quantity(c) > 0 /\ First(c) >= 0
     /\ First(c) + Quantity(c) <= Size[TableOf(c)]

Value(c, k) == IF c.op = "write_single" /\ IsBits(c) /\ c.values[k] # 0
               THEN 1 ELSE c.values[k]

Written(c) ==
  [mem EXCEPT ![TableOf(c)] =
     [x \in DOMAIN @ |-> IF x - First(c) \in 0 .. Quantity(c) - 1
                         THEN Value(c, x - First(c) + 1) ELSE @[x]]]

\* Bits come in whole bytes, padded with zeros
Contained(c) ==
  [k \in 1 .. (IF IsBits(c) THEN 8 * ((c.quantity + 7) \div 8) ELSE c.quantity) |->
     IF k <= c.quantity THEN mem[TableOf(c)][First(c) + k - 1] ELSE 0]

Outcome(c, error, data) ==
  [op |-> IF c.op = "write_single" THEN "write" ELSE c.op, error |-> error, data |-> data]

Answer(status, data) == [status |-> status, data |-> data]

\* A call takes an outcome for its own.  Only a read looks at what it got.
Believed(c, o) ==
  IF o.error # 0 THEN Answer("error", <<>>)
  ELSE CASE c.op = "read" -> IF o.op = "read" THEN Answer("ok", o.data)
                             ELSE Answer("error", <<>>)
         [] OTHER         -> Answer("ok", <<>>)

------------------------------------------------------------------------------
Init ==
  /\ mem = Contents
  /\ call \in Call
  /\ answer = Answer("ok", <<>>)
  /\ pending = <<>> /\ outcomes = <<>>

\* A call is made.  What the protocol cannot express is refused; a broadcast
\* is not waited for.
Make ==
  /\ answer.status # "wait"
  /\ call' \in Call
  /\ IF Legal(call')
     THEN /\ pending' = Append(pending, call')
          /\ answer' = Answer(IF call'.slave = Broadcast THEN "ok" ELSE "wait", <<>>)
     ELSE /\ answer' = Answer("error", <<>>)
          /\ UNCHANGED pending
  /\ UNCHANGED <<mem, outcomes>>

Report(c, o) ==
  outcomes' = IF c.slave = Broadcast THEN outcomes ELSE Append(outcomes, o)

\* The oldest call is performed, or fails and changes nothing
Perform ==
  /\ pending # <<>>
  /\ pending' = Tail(pending)
  /\ LET c == Head(pending) IN
       /\ c.slave \in {Me, Broadcast}
       /\ \/ /\ Possible(c)
             /\ mem' = IF c.op \in {"write", "write_single"} THEN Written(c) ELSE mem
             /\ Report(c, Outcome(c, 0, CASE c.op = "read"     -> Contained(c)
                                          [] c.op = "loopback" -> c.values
                                          [] OTHER             -> <<>>))
          \/ /\ \E e \in Failures : Report(c, Outcome(c, e, <<>>))
             /\ UNCHANGED mem
  /\ UNCHANGED <<call, answer>>

\* A call, also one for nobody, or an outcome gets lost
Lose ==
  /\ \/ pending # <<>> /\ pending' = Tail(pending) /\ UNCHANGED outcomes
     \/ outcomes # <<>> /\ outcomes' = Tail(outcomes) /\ UNCHANGED pending
  /\ UNCHANGED <<mem, call, answer>>

\* The call that waits returns, with the oldest outcome or with none
Return ==
  /\ answer.status = "wait"
  /\ \/ /\ outcomes # <<>>
        /\ answer' = Believed(call, Head(outcomes))
        /\ outcomes' = Tail(outcomes)
     \/ /\ answer' = Answer("timeout", <<>>)
        /\ UNCHANGED outcomes
  /\ UNCHANGED <<mem, call, pending>>

Next == Make \/ Perform \/ Lose \/ Return

Spec == Init /\ [][Next]_vars
==============================================================================
