-------------------------------- MODULE Mbus ---------------------------------
(***************************************************************************)
(* The master of mbus.c and the slave it talks to: mbus_read, mbus_write,  *)
(* mbus_write_single and mbus_loopback build a request in the scratch      *)
(* buffer, send it, wait for a response and interpret whatever response    *)
(* comes.  The slave handles a request as MbHandlers says.                 *)
(*                                                                         *)
(* The link keeps order but may lose a request or a response, and may be   *)
(* slower than the master's timeout: a response can arrive when the call   *)
(* it answers is over.                                                     *)
(*                                                                         *)
(* A call is [op, slave, address, quantity, values].  For a single write   *)
(* values holds the value, for a loopback the bytes and quantity is size.  *)
(***************************************************************************)
EXTENDS MbHandlers

CONSTANTS
  Me,        \* the slave's id
  Calls,     \* the calls the application makes in sequences
  Single,    \* the calls it makes once, as the only one
  MaxCalls,  \* bound on calls
  Lossy      \* whether the link loses requests and responses

VARIABLES
  mem,        \* the slave's tables
  pc,         \* the application: "idle", or "wait" inside mb_pdu_rx
  call,       \* the last call
  result,     \* what it returned: [ret, data]
  toSlave,    \* requests on their way: [pdu] and, for the properties, [call]
  fromSlave,  \* responses on their way
  \* history: calls made, the tables when the last one began, and whether the
  \* link was empty then
  calls, before, clean

vars == <<mem, pc, call, result, toSlave, fromSlave, calls, before, clean>>

AllCalls == Calls \cup Single

Ops == {"read", "write", "write_single", "loopback"}

\* The elements a call takes from its buffer; coils come in whole bytes
Buffer(c) ==
  CASE c.op = "write"        -> IF c.address < 65536 THEN 8 * ((c.quantity + 7) \div 8)
                                ELSE c.quantity
    [] c.op = "write_single" -> 1
    [] OTHER                 -> 0

\* What an application passes has its C type, and its buffers are long enough
Proper(c) ==
  /\ c \in [op : Ops, slave : Byte, address : Nat, quantity : Word, values : Seq(Word)]
  /\ Buffer(c) <= Len(c.values)
  /\ c.op = "loopback" => Len(c.values) = c.quantity

ASSUME CallsAssumption ==
  /\ Calls # {} /\ \A c \in Calls \cup Single : Proper(c)
  /\ \A t \in Tables : Size[t] \in Word
  /\ Me \in 1 .. 247 /\ MaxCalls \in Nat /\ Lossy \in BOOLEAN

------------------------------------------------------------------------------
(* Requests.  A request the master refuses to build is Refused. *)

Refused == [function |-> 0]

Space(c) == c.address \div 65536

\* Mutant of Start: the 1-based address is sent as it is
StartOneBased(c) == c.address % 65536

\* CC_TO_BE16 ((address - 1) & 0xFFFF)
Start(c) == (c.address - 1) % 65536

\* A request of the given size; fields a function does not have are 0.
Build(f, a, q, count, data, size) ==
  [function |-> f, address |-> a, quantity |-> q, write_address |-> 0,
   write_quantity |-> 0, count |-> count, data |-> data, rx_count |-> size]

\* Mutant of ReadFunction: the function codes in the order of the spaces
ReadFunctionInOrder(space) ==
  CASE space = 0 -> PDU_READ_COILS [] space = 1 -> PDU_READ_INPUTS
    [] space = 3 -> PDU_READ_HOLDING_REGISTERS [] space = 4 -> PDU_READ_INPUT_REGISTERS

ReadFunction(space) ==
  CASE space = 0 -> PDU_READ_COILS [] space = 1 -> PDU_READ_INPUTS
    [] space = 3 -> PDU_READ_INPUT_REGISTERS [] space = 4 -> PDU_READ_HOLDING_REGISTERS

ReadRequest(c) ==
  IF \/ c.slave = 0 \/ Space(c) \notin {0, 1, 3, 4}
     \/ c.quantity > (IF Space(c) \in {0, 1} THEN 2000 ELSE 125)
  THEN Refused
  ELSE Build(ReadFunction(Space(c)), Start(c), c.quantity, 0, <<>>, 5)

\* A coil is written as 0xFF00 or 0
WriteSingleRequest(c) ==
  LET v == c.values[1]
  IN  CASE Space(c) = 0 -> Build(PDU_WRITE_COIL, Start(c), IF v # 0 THEN 65280 ELSE 0,
                                 0, <<>>, sizeof_write_single)
        [] Space(c) = 4 -> Build(PDU_WRITE_HOLDING_REGISTER, Start(c), v,
                                 0, <<>>, sizeof_write_single)
        [] OTHER        -> Refused

CoilBytes(q) == (q \div 8) + (IF q % 8 # 0 THEN 1 ELSE 0)

\* Coils are taken from the buffer in whole bytes, registers are swapped
WriteRequest(c) ==
  LET q == c.quantity
      n == CoilBytes(q)
  IN  CASE Space(c) = 0 /\ q <= 1968 ->
             Build(PDU_WRITE_COILS, Start(c), q, n, SubSeq(c.values, 1, 8 * n), sizeof_write + n)
        [] Space(c) = 4 /\ q <= 123 ->
             Build(PDU_WRITE_HOLDING_REGISTERS, Start(c), q, 2 * q,
                   SubSeq(c.values, 1, q), sizeof_write + 2 * q)
        [] OTHER -> Refused

LoopbackRequest(c) ==
  IF c.quantity > 250 THEN Refused
  ELSE Build(PDU_DIAGNOSTICS, PDU_DIAG_LOOPBACK, 0, 0, c.values, 3 + c.quantity)

RequestOf(c) == CASE c.op = "read"         -> ReadRequest(c)
                  [] c.op = "write"        -> WriteRequest(c)
                  [] c.op = "write_single" -> WriteSingleRequest(c)
                  [] c.op = "loopback"     -> LoopbackRequest(c)

------------------------------------------------------------------------------
(* Responses: [function, code, data, size].  data is the payload: bits and
   registers of a read, bytes of a loopback. *)

\* The slave's side: a negative outcome becomes an exception; a loopback
\* response is the request
Response(p, o) ==
  IF o.tx < 0
  THEN [function |-> ExceptionFunction(p.function), code |-> -o.tx, data |-> <<>>,
        size |-> sizeof_exception]
  ELSE [function |-> p.function, code |-> 0, size |-> o.tx,
        data |-> IF p.function = PDU_DIAGNOSTICS THEN p.data ELSE o.data]

mb_is_exception(r) == (r.function \div 128) % 2 = 1

mb_exception(code) == IF code \in 1 .. 4 THEN -code ELSE EUNKNOWN_EXCEPTION

Result(ret, data) == [ret |-> ret, data |-> data]

ReadFunctions == {PDU_READ_COILS, PDU_READ_INPUTS,
                  PDU_READ_INPUT_REGISTERS, PDU_READ_HOLDING_REGISTERS}

\* The response is believed: neither its function nor its count is compared
\* with the request.  A loopback copies the response from its first byte.
Interpret(c, r) ==
  IF mb_is_exception(r) THEN Result(mb_exception(r.code), <<>>)
  ELSE CASE c.op = "read" -> IF r.function \in ReadFunctions THEN Result(0, r.data)
                             ELSE Result(-1, <<>>)
         [] c.op = "loopback" ->
              Result(r.size, SubSeq(<<r.function, 0, 0>> \o r.data, 1,
                                    IF r.size > c.quantity THEN c.quantity ELSE r.size))
         [] OTHER -> Result(0, <<>>)

------------------------------------------------------------------------------
\* External: what the application's tables hold at first
Initial(t, x) == CASE t = "coils" -> x % 2 [] t = "inputs" -> (x + 1) % 2
                   [] t = "holding_registers" -> x [] t = "input_registers" -> (x + 1000) % 65536

Contents == [t \in Tables |-> [x \in 0 .. Size[t] - 1 |-> Initial(t, x)]]

Init ==
  /\ mem = Contents
  /\ pc = "idle"
  /\ call = CHOOSE c \in Calls : TRUE
  /\ result = Result(0, <<>>)
  /\ toSlave = <<>> /\ fromSlave = <<>>
  /\ calls = 0 /\ before = mem /\ clean = FALSE

\* The call is refused, or its request is sent.  Nobody answers a broadcast:
\* it returns at once.
Begin ==
  /\ pc = "idle" /\ calls < MaxCalls
  /\ \E c \in IF calls = 0 THEN AllCalls ELSE Calls :
       LET p == RequestOf(c)
       IN  /\ call' = c
           /\ toSlave' = IF p = Refused THEN toSlave
                         ELSE Append(toSlave, [call |-> c, pdu |-> p])
           /\ pc' = IF p = Refused \/ c.slave = 0 THEN "idle" ELSE "wait"
           /\ result' = Result(IF p = Refused THEN -1 ELSE 0, <<>>)
           /\ calls' = IF c \in Calls THEN calls + 1 ELSE MaxCalls
  /\ before' = mem
  /\ clean' = (toSlave = <<>> /\ fromSlave = <<>>)
  /\ UNCHANGED <<mem, fromSlave>>

\* mb_pdu_rx returns a response
Receive ==
  /\ pc = "wait" /\ fromSlave # <<>>
  /\ result' = Interpret(call, Head(fromSlave))
  /\ fromSlave' = Tail(fromSlave)
  /\ pc' = "idle"
  /\ UNCHANGED <<mem, call, toSlave, calls, before, clean>>

\* Mutant of Timeout: the request is sent once more before the call gives up
TimeoutRetry ==
  /\ pc = "wait" /\ fromSlave = <<>>
  /\ result' = Result(ETIMEOUT, <<>>)
  /\ pc' = "idle"
  /\ toSlave' = Append(toSlave, [call |-> call, pdu |-> RequestOf(call)])
  /\ UNCHANGED <<mem, call, fromSlave, calls, before, clean>>

\* mb_pdu_rx returns ETIMEOUT
Timeout ==
  /\ pc = "wait" /\ fromSlave = <<>>
  /\ result' = Result(ETIMEOUT, <<>>)
  /\ pc' = "idle"
  /\ UNCHANGED <<mem, call, toSlave, fromSlave, calls, before, clean>>

\* The slave handles the next request; requests for others are not for it
Serve ==
  /\ toSlave # <<>>
  /\ LET r  == Head(toSlave)
         bc == r.call.slave = 0
     IN  IF r.call.slave \notin {0, Me} THEN UNCHANGED <<mem, fromSlave>>
         ELSE \E s, g \in CallbackResults, v \in Results(r.pdu) :
                LET o == Handle(mem, r.pdu, bc, s, g, v)
                IN  /\ mem' = o.mem
                    /\ fromSlave' = IF bc THEN fromSlave
                                    ELSE Append(fromSlave, Response(r.pdu, o))
  /\ toSlave' = Tail(toSlave)
  /\ UNCHANGED <<pc, call, result, calls, before, clean>>

\* External: the link loses a request or a response
Lose ==
  /\ Lossy
  /\ \/ toSlave # <<>> /\ toSlave' = Tail(toSlave) /\ UNCHANGED fromSlave
     \/ fromSlave # <<>> /\ fromSlave' = Tail(fromSlave) /\ UNCHANGED toSlave
  /\ UNCHANGED <<mem, pc, call, result, calls, before, clean>>

Next == Begin \/ Receive \/ Timeout \/ Serve \/ Lose

Spec == Init /\ [][Next]_vars

------------------------------------------------------------------------------
(* What the master's functions promise. *)

OpOf(r) ==
  CASE r.function % 128 \in ReadFunctions -> "read"
    [] r.function % 128 = PDU_DIAGNOSTICS -> "loopback"
    [] OTHER -> "write"

Device == INSTANCE MbDevice WITH
  Failures <- Exception,
  answer   <- [status |-> IF pc = "wait" THEN "wait"
                          ELSE IF result.ret >= 0 THEN "ok"
                          ELSE IF result.ret = ETIMEOUT THEN "timeout" ELSE "error",
               data |-> IF call.op = "read" THEN result.data ELSE <<>>],
  pending  <- [k \in DOMAIN toSlave |-> toSlave[k].call],
  outcomes <- [k \in DOMAIN fromSlave |->
                 [op |-> OpOf(fromSlave[k]), error |-> -fromSlave[k].code,
                  data |-> fromSlave[k].data]]

TableOf(c) == Device!TableOf(c)
First(c)   == Device!First(c)

\* The last call is over, it began on an idle link and did not time out
Completed == pc = "idle" /\ calls > 0 /\ clean /\ result.ret # ETIMEOUT

\* A read that succeeds fills the buffer with exactly the elements asked for,
\* as the slave's table holds them, and zero bits up to a whole byte.
ReadReturnsTable ==
  Completed /\ call.op = "read" /\ result.ret = 0 =>
    LET t == TableOf(call)
        q == call.quantity
    IN  /\ q > 0 /\ First(call) >= 0 /\ First(call) + q <= Size[t]
        /\ Len(result.data) = IF Space(call) \in {0, 1} THEN 8 * ((q + 7) \div 8) ELSE q
        /\ \A i \in 1 .. Len(result.data) :
             result.data[i] = IF i <= q THEN mem[t][First(call) + i - 1] ELSE 0

\* A write that succeeds has put its values, and changed nothing else.
WriteStored ==
  Completed /\ call.op \in {"write", "write_single"} /\ call.slave = Me /\ result.ret = 0 =>
    LET t == TableOf(call)
        q == IF call.op = "write" THEN call.quantity ELSE 1
        v == IF t = "coils" /\ call.op = "write_single" /\ call.values[1] # 0
             THEN <<1>> ELSE call.values
    IN  /\ q > 0 /\ First(call) >= 0 /\ First(call) + q <= Size[t]
        /\ \A u \in Tables : \A x \in 0 .. Size[u] - 1 :
             mem[u][x] = IF u = t /\ First(call) <= x /\ x < First(call) + q
                         THEN v[x - First(call) + 1] ELSE before[u][x]

\* Master, link and slave together are the device of MbDevice: every call is
\* performed in order, at most once, on exactly the elements its address and
\* quantity name and with its values, or fails and changes nothing; and a call
\* returns the contents of the tables at the time some read was performed.
ImplementsDevice == Device!Spec
==============================================================================
