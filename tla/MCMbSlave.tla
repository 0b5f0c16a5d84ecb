------------------------------ MODULE MCMbSlave ------------------------------
(***************************************************************************)
(* Small slaves for TLC: the requests that may arrive and the tables.      *)
(***************************************************************************)
EXTENDS MbSlave

Request(f, a, q) ==
  [function |-> f, address |-> a, quantity |-> q, write_address |-> 0,
   write_quantity |-> 0, count |-> 0, data |-> <<>>, rx_count |-> 5]

\* A write of q elements: count bytes are announced, rx of them received
WriteRequest(f, a, q, count, rx, v) ==
  [Request(f, a, q) EXCEPT !.count = count, !.rx_count = sizeof_write + rx,
     !.data = [k \in 1 .. (IF f = PDU_WRITE_COILS THEN 8 * rx ELSE rx \div 2) |-> v]]

ReadWriteRequest(a, q, wa, wq, count, rx, v) ==
  [Request(PDU_READ_WRITE_HOLDING_REGISTERS, a, q) EXCEPT
     !.write_address = wa, !.write_quantity = wq, !.count = count,
     !.rx_count = sizeof_read_write + rx, !.data = [k \in 1 .. rx \div 2 |-> v]]

Frame(unit, status, p) == [unit |-> unit, status |-> status, pdu |-> p]

Ok(unit, requests) == {Frame(unit, "ok", p) : p \in requests}

SmallSize == [t \in Tables |-> CASE t = "coils" -> 3 [] t = "inputs" -> 2
                                 [] t = "holding_registers" -> 3
                                 [] OTHER -> 1]

VendorFunctions == [f \in {101} |-> {0, 11, EILLEGAL_DATA_VALUE}]

\* One request of each kind, for the interleavings: a read, a write that also
\* reads, one for another unit, a broadcast, one damaged and one cut short
TaskFrames ==
  Ok(1, {Request(PDU_READ_COILS, 1, 2), ReadWriteRequest(0, 2, 1, 1, 2, 2, 5)})
    \cup Ok(2, {Request(PDU_WRITE_COIL, 0, 65280)})
    \cup Ok(0, {Request(PDU_WRITE_HOLDING_REGISTER, 0, 9)})
    \cup {Frame(1, s, Request(PDU_WRITE_COIL, 0, 65280)) : s \in {"bad", "cut"}}

\* A table for every size a request can ask for, one element larger than the
\* largest request
BigSize == [t \in Tables |-> IF t \in {"coils", "inputs"} THEN 2001 ELSE 126]

\* Requests around every limit: quantities, addresses, byte counts, lengths
LimitRequests ==
       {Request(f, a, q) : f \in BitReads, a \in {0, 1, 2000, 65535},
                           q \in {0, 1, 8, 9, 2000, 2001, 65535}}
  \cup {Request(f, a, q) : f \in {PDU_READ_HOLDING_REGISTERS, PDU_READ_INPUT_REGISTERS},
                           a \in {0, 1, 125, 126, 65535},
                           q \in {0, 1, 125, 126, 128, 65535}}
  \cup {Request(f, a, v) : f \in SingleWrites, a \in {0, 125, 126, 2000, 2001, 65535},
                           v \in {0, 1, 65280, 65535}}
  \cup {WriteRequest(PDU_WRITE_COILS, a, q, c, rx, 1) :
          a \in {0, 33, 34}, q \in {0, 1, 8, 9, 1968, 1969},
          c \in {0, 1, 2, 246, 247}, rx \in {0, 1, 2, 246, 247}}
  \cup {WriteRequest(PDU_WRITE_HOLDING_REGISTERS, a, q, c, rx, 3) :
          a \in {0, 3, 4}, q \in {0, 1, 123, 124, 129},
          c \in {0, 2, 246, 248}, rx \in {0, 2, 246}}
  \cup {ReadWriteRequest(a, q, wa, wq, c, rx, 4) :
          a \in {0, 2}, q \in {0, 1, 125, 126}, wa \in {0, 5, 6},
          wq \in {0, 1, 121, 122}, c \in {2, 242}, rx \in {0, 2, 242}}
  \cup {Request(PDU_DIAGNOSTICS, s, 0) : s \in {0, 1}}
  \cup {[Request(PDU_DIAGNOSTICS, 0, 0) EXCEPT !.rx_count = 253],
        [Request(PDU_WRITE_COIL, 0, 0) EXCEPT !.rx_count = 1]}
  \cup {Request(f, 0, 0) : f \in {0, 101, 102, 255}}

LimitFrames == Ok(1, LimitRequests)

OkOrFailure == {0, ESLAVE_DEVICE_FAILURE}

AllTables == Tables
WriteTables == {"coils", "holding_registers"}
==============================================================================
