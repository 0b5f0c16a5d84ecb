------------------------------- MODULE MbSlave -------------------------------
(***************************************************************************)
(* The Modbus slave of mb_slave.c: the task mb_slave (), which dispatches  *)
(* to the handlers of MbHandlers, and the calls other threads make on it   *)
(* (mb_slave_id_set, mb_slave_shutdown).                                   *)
(*                                                                         *)
(* The transport is seen through the calls the slave makes on it           *)
(* (bringup, is_down, rx, rx_bc, rx_avail, tx).  It holds what arrived and *)
(* has not been read:                                                      *)
(*   "rtu"  one burst of characters.  A frame that arrives on top of an    *)
(*          unread one joins its burst, which then fails the CRC check;    *)
(*   "tcp"  the queue of messages in the socket of the one peer.           *)
(* Some of its waits have no time limit.  stalled names the call that does *)
(* not return as things are: over "rtu" the event that would end the burst *)
(* has been lost (mb_rtu_tx clears it, or on Linux a hook wipes it), and   *)
(* only more characters bring another; over "tcp" the peer stays but takes *)
(* nothing, until it closes.                                               *)
(*                                                                         *)
(* A frame is [n, late, unit, status, pdu]: its arrival number, whether it *)
(* came while another request was handled, the unit it is addressed to (0  *)
(* is the RTU broadcast), what the transport makes of it ("ok", "bad": CRC *)
(* or protocol field wrong, "cut": the rest never comes) and its PDU.      *)
(* Over TCP n also stands for the transaction id.                          *)
(* Fields of a PDU past its rx_count are what the buffer happens to hold.  *)
(***************************************************************************)
EXTENDS MbHandlers, FiniteSets

CONSTANTS
  Transports,       \* transports a slave may be created with: "rtu", "tcp"
  Ids,              \* slave ids the application may configure
  Frames,           \* [unit, status, pdu] that may arrive
  MaxFrames,        \* bound on arrivals
  MaxIdChanges,     \* bound on calls of mb_slave_id_set
  MayShutdown       \* whether mb_slave_shutdown is called

VARIABLES
  \* mb_slave_t (id, running and, never changed, its transport) and the
  \* application's tables
  id, running, transport, mem,
  \* the task: where it is, its transaction, the request and its outcome
  pc, txn, cur, out,
  \* the transport: is_down, unread frames, peer has closed, and the call that
  \* does not return ("rx", "tx" or "no")
  down, in, eof, stalled,
  \* history: arrivals, id changes, responses sent, frames taken under an id
  \* that was no longer the slave's
  arrived, idChanges, sent, stale

slaveVars == <<id, running, transport, mem>>
taskVars  == <<pc, txn, cur, out>>
linkVars  == <<down, in, eof, stalled>>
histVars  == <<arrived, idChanges, sent, stale>>
vars      == <<slaveVars, taskVars, linkVars, histVars>>

Broadcast == 0

ASSUME TransportAssumption == Transports \subseteq {"rtu", "tcp"}
ASSUME IdAssumption == Ids \subseteq 1 .. 247 /\ Ids # {}
ASSUME FrameAssumption ==
  /\ Frames \subseteq [unit : Byte, status : {"ok", "bad", "cut"}, pdu : Pdu]
  /\ \A f \in Frames : Carried(f.pdu)
ASSUME BoundAssumption == MaxFrames \in Nat /\ MaxIdChanges \in Nat /\ MayShutdown \in BOOLEAN

Arrived == [n : 1 .. MaxFrames, late : BOOLEAN, unit : Byte,
            status : {"ok", "bad", "cut"}, pdu : Pdu]

------------------------------------------------------------------------------
(* The slave task, mb_slave ().  It is at
     "loop"     the test of running and of is_down,
     "arm"      the assignment of the slave's id to the transaction,
     "rx"       mb_pdu_rx with PDU_TIMEOUT,
     "handle"   the switch on the function code,
     "respond"  the test of rx_avail,
     "discard"  mb_pdu_rx of the request to ignore,
     "tx"       mb_pdu_tx,
     "exit"     the end of the task. *)

NoFrame  == [n |-> 0]
NoResult == [tx |-> 0, data |-> <<>>, calls |-> {}]

\* mb_pdu_rx_bc
IsBroadcast(f) == transport = "rtu" /\ f.unit = Broadcast

Init ==
  /\ id \in Ids
  /\ running = TRUE
  /\ transport \in Transports
  /\ mem = [t \in Tables |-> [x \in 0 .. Size[t] - 1 |-> 0]]
  /\ pc = "loop"
  /\ txn = [unit |-> 0, id |-> 0]
  /\ cur = NoFrame
  /\ out = NoResult
  /\ down = (transport = "tcp")
  /\ in = <<>>
  /\ eof = FALSE /\ stalled = "no"
  /\ arrived = 0 /\ idChanges = 0 /\ sent = <<>> /\ stale = 0

\* while (slave->running) fails
Exit ==
  /\ pc = "loop" /\ ~running
  /\ pc' = "exit"
  /\ UNCHANGED <<slaveVars, txn, cur, out, linkVars, histVars>>

\* mb_transport_bringup: a peer is accepted, or accept times out (-1)
Bringup ==
  /\ pc = "loop" /\ running /\ down
  /\ \/ /\ pc' = "arm"
        /\ down' = FALSE /\ eof' = FALSE
     \/ /\ pc' = "loop"
        /\ UNCHANGED <<down, eof>>
  /\ UNCHANGED <<slaveVars, txn, cur, out, in, stalled, histVars>>

\* Mutant of Arm: the id is read once, before the loop
ArmOnce ==
  /\ \/ pc = "arm"
     \/ pc = "loop" /\ running /\ ~down
  /\ txn' = IF txn.unit = 0 THEN [txn EXCEPT !.unit = id] ELSE txn
  /\ pc' = "rx"
  /\ UNCHANGED <<slaveVars, cur, out, linkVars, histVars>>

\* transaction.unit = slave->id
Arm ==
  /\ \/ pc = "arm"
     \/ pc = "loop" /\ running /\ ~down
  /\ txn' = [txn EXCEPT !.unit = id]
  /\ pc' = "rx"
  /\ UNCHANGED <<slaveVars, cur, out, linkVars, histVars>>

\* os_tcp_close and is_down = true: what the socket still held is gone
CloseLink == down' = TRUE /\ in' = <<>> /\ eof' = FALSE /\ stalled' = "no"

\* Mutant of RxTimeout: mb_pdu_rx waits forever
RxTimeoutNever == FALSE

\* mb_pdu_rx returns ETIMEOUT
RxTimeout ==
  /\ pc = "rx" /\ in = <<>> /\ ~eof
  /\ pc' = "loop"
  /\ UNCHANGED <<slaveVars, txn, cur, out, linkVars, histVars>>

\* mb_pdu_rx finds the connection closed by the peer
RxClosed ==
  /\ pc = "rx" /\ in = <<>> /\ eof
  /\ pc' = "loop"
  /\ CloseLink
  /\ UNCHANGED <<slaveVars, txn, cur, out, histVars>>

\* Over RTU the frame is dropped unless it is for this unit or for all
Accepts(f) == f.status = "ok" /\ (transport = "rtu" => f.unit \in {txn.unit, Broadcast})

\* Mutant of Taken: the id is left as it was
TakenUnitOnly(f) == IF transport = "tcp" THEN [txn EXCEPT !.unit = f.unit] ELSE txn

\* The transaction after mb_pdu_rx: over TCP unit and id are the message's
Taken(f) == IF transport = "tcp" THEN [unit |-> f.unit, id |-> f.n] ELSE txn

\* mb_pdu_rx returns a request
RxRequest ==
  /\ pc = "rx" /\ in # <<>> /\ stalled # "rx"
  /\ LET f == Head(in) IN
       /\ Accepts(f)
       /\ cur' = f
       /\ txn' = Taken(f)
       /\ in' = Tail(in)
       /\ stale' = IF transport = "rtu" /\ f.unit \notin {id, Broadcast}
                   THEN stale + 1 ELSE stale
  /\ pc' = "handle"
  /\ UNCHANGED <<slaveVars, out, down, eof, stalled, arrived, idChanges, sent>>

\* mb_pdu_rx returns an error.  A TCP message that stops half way closes the
\* connection once recv times out.
RxError ==
  /\ pc = "rx" /\ in # <<>> /\ stalled # "rx"
  /\ ~Accepts(Head(in))
  /\ pc' = "loop"
  /\ IF transport = "tcp" /\ Head(in).status = "cut"
     THEN CloseLink
     ELSE in' = Tail(in) /\ UNCHANGED <<down, eof, stalled>>
  /\ UNCHANGED <<slaveVars, txn, cur, out, histVars>>

\* The switch: the handler runs, with its callbacks
HandleRequest ==
  /\ pc = "handle"
  /\ \E s, g \in CallbackResults, v \in Results(cur.pdu) :
       LET o == Handle(mem, cur.pdu, IsBroadcast(cur), s, g, v) IN
         /\ mem' = o.mem
         /\ out' = [tx |-> o.tx, data |-> o.data, calls |-> o.calls]
  /\ pc' = "respond"
  /\ UNCHANGED <<id, running, transport, txn, cur, linkVars, histVars>>

\* Mutant of RxAvail: answered whatever is on the bus
RxAvailNever == FALSE

\* mb_pdu_rx_avail: over TCP always false
RxAvail == transport = "rtu" /\ in # <<>>

\* Mutant of CheckAvail: broadcasts are answered
CheckAvailOnly ==
  /\ pc = "respond"
  /\ pc' = IF RxAvail THEN "discard" ELSE "tx"
  /\ UNCHANGED <<slaveVars, txn, cur, out, linkVars, histVars>>

CheckAvail ==
  /\ pc = "respond"
  /\ pc' = IF RxAvail THEN "discard"
           ELSE IF IsBroadcast(cur) THEN "loop" ELSE "tx"
  /\ UNCHANGED <<slaveVars, txn, cur, out, linkVars, histVars>>

\* mb_pdu_rx with no timeout: the newer request is read and ignored
Discard ==
  /\ pc = "discard" /\ in # <<>> /\ stalled # "rx"
  /\ in' = Tail(in)
  /\ pc' = "loop"
  /\ UNCHANGED <<slaveVars, txn, cur, out, down, eof, stalled, histVars>>

\* The response as it goes out: an exception has the function's top bit set
\* and carries the code
Response ==
  [n |-> cur.n, to |-> cur.unit, unit |-> txn.unit, id |-> txn.id,
   function |-> IF out.tx < 0 THEN ExceptionFunction(cur.pdu.function)
                ELSE cur.pdu.function,
   size |-> IF out.tx < 0 THEN sizeof_exception ELSE out.tx,
   data |-> IF out.tx < 0 THEN << -out.tx >> ELSE out.data]

\* mb_pdu_tx.  Over TCP it may fail once the peer has closed.
Tx ==
  /\ pc = "tx" /\ stalled # "tx"
  /\ pc' = "loop"
  /\ \/ /\ sent' = Append(sent, Response)
        /\ UNCHANGED linkVars
     \/ /\ eof
        /\ CloseLink
        /\ UNCHANGED sent
  /\ UNCHANGED <<slaveVars, txn, cur, out, arrived, idChanges, stale>>

\* What the task does without needing a peer
Step == \/ Exit \/ Arm \/ RxTimeout \/ RxClosed \/ RxRequest \/ RxError
        \/ HandleRequest \/ CheckAvail \/ Discard \/ Tx

Task == Step \/ Bringup

------------------------------------------------------------------------------
(* Everyone else. *)

\* External: a frame reaches the transport.  On a serial line a frame that
\* follows an unread one is read together with it.  The expiry that ends it may
\* get lost: mb_rtu_tx clears T1P5 and stops its timer; on Linux a hook can wipe
\* either timer's, the one mb_rtu_tx waits for included.
Arrive ==
  /\ arrived < MaxFrames /\ ~down /\ ~eof
  /\ arrived' = arrived + 1
  /\ \E f \in Frames :
       LET status == IF transport = "rtu" /\ in # <<>> THEN "bad" ELSE f.status
           frame  == [n |-> arrived + 1, late |-> pc \in {"handle", "respond"},
                      unit |-> f.unit, status |-> status, pdu |-> f.pdu]
       IN  in' = IF transport = "rtu" THEN <<frame>> ELSE Append(in, frame)
  /\ stalled' \in CASE transport = "tcp" -> {stalled}
                   [] pc = "tx"          -> {"no", "rx", "tx"}
                   [] OTHER              -> {"no", "rx"}
  /\ UNCHANGED <<slaveVars, taskVars, down, eof, idChanges, sent, stale>>

\* External: the peer takes nothing any more, and the socket's buffer is full
PeerStall ==
  /\ transport = "tcp" /\ pc = "tx" /\ ~down /\ ~eof /\ stalled = "no"
  /\ stalled' = "tx"
  /\ UNCHANGED <<slaveVars, taskVars, down, in, eof, histVars>>

\* External: the peer closes the connection
PeerClose ==
  /\ transport = "tcp" /\ ~down /\ ~eof
  /\ eof' = TRUE /\ stalled' = "no"
  /\ UNCHANGED <<slaveVars, taskVars, down, in, histVars>>

mb_slave_id_set(i) ==
  /\ idChanges < MaxIdChanges /\ i # id
  /\ id' = i
  /\ idChanges' = idChanges + 1
  /\ stale' = 0
  /\ UNCHANGED <<running, transport, mem, taskVars, linkVars, arrived, sent>>

mb_slave_shutdown ==
  /\ MayShutdown /\ running
  /\ running' = FALSE
  /\ UNCHANGED <<id, transport, mem, taskVars, linkVars, histVars>>

Environment ==
  \/ Arrive \/ PeerStall \/ PeerClose \/ mb_slave_shutdown
  \/ \E i \in Ids : mb_slave_id_set(i)

Next == Task \/ Environment

Spec == Init /\ [][Next]_vars

\* The scheduler runs the slave task.  Nothing is asked of the environment; in
\* particular no peer need ever connect.
FairSpec == Spec /\ WF_vars(Step)

------------------------------------------------------------------------------
(* Properties. *)

Responses == [n : 1 .. MaxFrames, to : Byte, unit : Byte, id : 0 .. MaxFrames,
              function : Byte, size : 0 .. MAX_PDU_SIZE, data : Seq(Word)]

\* The variables have the values their C types and the bounds allow; in
\* particular a handler returns an exception or a size that fits the buffer.
TypeOK ==
  /\ id \in Ids /\ running \in BOOLEAN /\ transport \in Transports /\ IsMemory(mem)
  /\ pc \in {"loop", "arm", "rx", "handle", "respond", "discard", "tx", "exit"}
  /\ txn \in [unit : Byte, id : 0 .. MaxFrames]
  /\ cur \in Arrived \cup {NoFrame}
  /\ pc \in {"handle", "respond", "discard", "tx"} => cur \in Arrived /\ Carried(cur.pdu)
  /\ out.tx \in Exception \cup (0 .. MAX_PDU_SIZE)
  /\ out.data \in Seq(Word)
  /\ down \in BOOLEAN /\ eof \in BOOLEAN /\ stalled \in {"no", "rx", "tx"}
  /\ in \in Seq(Arrived) /\ \A k \in DOMAIN in : Carried(in[k].pdu)
  /\ arrived \in 0 .. MaxFrames /\ idChanges \in 0 .. MaxIdChanges
  /\ sent \in Seq(Responses)
  /\ stale \in Nat

InRange(c) ==
  /\ c.table \in IF c.op = "get" THEN Readable ELSE Writable
  /\ c.quantity >= 1
  /\ c.address + c.quantity <= Size[c.table]
  /\ c.op = "get" => c.bytes <= MAX_PDU_SIZE

\* A callback is called only when the table has it, for at least one element
\* and only for elements inside the table; a get never fills more than the
\* PDU buffer (the size and NULL checks of the handlers).
CallsInRange == \A c \in out.calls : InRange(c)

SingleWrites == {PDU_WRITE_COIL, PDU_WRITE_HOLDING_REGISTER}

Received(c, p) ==
  c.op = "set" /\ p.function \notin SingleWrites => c.bytes <= p.rx_count

\* Data handed to a set callback was received with the request, not left in
\* the buffer by an earlier one (the rx_count checks).  Single writes have no
\* such check and are excepted: a request shorter than five bytes writes what
\* the buffer held.
PayloadReceived ==
  pc \in {"respond", "discard", "tx"} => \A c \in out.calls : Received(c, cur.pdu)

ReadTable(f) == CASE f = PDU_READ_COILS           -> "coils"
                  [] f = PDU_READ_INPUTS          -> "inputs"
                  [] f = PDU_READ_INPUT_REGISTERS -> "input_registers"
                  [] OTHER                        -> "holding_registers"
BitReads   == {PDU_READ_COILS, PDU_READ_INPUTS}
RegReads   == {PDU_READ_HOLDING_REGISTERS, PDU_READ_INPUT_REGISTERS,
               PDU_READ_WRITE_HOLDING_REGISTERS}

\* Once a read (or the read half of function 23) has succeeded, the response
\* holds the table as it is when the response goes out, the pad bits of the
\* last byte are zero, and its size is the one of its payload.
ReadsAreCurrent ==
  pc \in {"respond", "tx"} /\ out.tx > 0 /\ cur.pdu.function \in BitReads \cup RegReads =>
    /\ out.tx = sizeof_read_response +
         (IF cur.pdu.function \in BitReads THEN Len(out.data) \div 8 ELSE 2 * Len(out.data))
    /\ \A k \in 1 .. Len(out.data) :
         out.data[k] = IF k <= cur.pdu.quantity
                       THEN mem[ReadTable(cur.pdu.function)][cur.pdu.address + k - 1] ELSE 0

\* What a write request asks for: [t, a, q, values]
Writes(p) ==
  CASE p.function = PDU_WRITE_COIL ->
         [t |-> "coils", a |-> p.address, q |-> 1,
          values |-> <<IF p.quantity = 0 THEN 0 ELSE 1>>]
    [] p.function = PDU_WRITE_HOLDING_REGISTER ->
         [t |-> "holding_registers", a |-> p.address, q |-> 1, values |-> <<p.quantity>>]
    [] p.function = PDU_WRITE_COILS ->
         [t |-> "coils", a |-> p.address, q |-> p.quantity, values |-> p.data]
    [] p.function = PDU_WRITE_HOLDING_REGISTERS ->
         [t |-> "holding_registers", a |-> p.address, q |-> p.quantity, values |-> p.data]
    [] p.function = PDU_READ_WRITE_HOLDING_REGISTERS ->
         [t |-> "holding_registers", a |-> p.write_address, q |-> p.write_quantity,
          values |-> p.data]
    [] OTHER -> [t |-> "coils", a |-> 0, q |-> 0, values |-> <<>>]

\* A write that is acknowledged is in the table: every element asked for has
\* the value of the request when the response goes out.
WritesTakeEffect ==
  pc \in {"respond", "tx"} /\ out.tx > 0 =>
    LET w == Writes(cur.pdu) IN
      \A k \in 1 .. w.q : mem[w.t][w.a + k - 1] = w.values[k]

\* The tables change only while a request is handled, only in the elements it
\* names, and not when it is answered with an exception: but for function 23
\* when its get callback fails after its set callback succeeded.
WritesConfined ==
  [][mem' # mem =>
       LET w == Writes(cur.pdu) IN
         /\ pc = "handle"
         /\ out'.tx < 0 => \E c \in out'.calls : c.op = "get"
         /\ \A t \in Tables : \A x \in DOMAIN mem[t] :
              mem'[t][x] # mem[t][x] => t = w.t /\ x \in w.a .. w.a + w.q - 1]_vars

\* Responses go out at most once per request and in the order of the requests,
\* each from the unit its request was addressed to and, over TCP, with its
\* transaction id; a broadcast gets none (transaction.unit and transaction.id
\* are the state mb_pdu_rx leaves for mb_pdu_tx).
AnswersOwnRequest ==
  /\ \A k \in 1 .. Len(sent) :
       /\ sent[k].unit = sent[k].to
       /\ transport = "tcp" => sent[k].id = sent[k].n
       /\ transport = "rtu" => sent[k].to # Broadcast
  /\ \A j, k \in 1 .. Len(sent) : j < k => sent[j].n < sent[k].n

\* On a serial line a request that arrived while another was being handled is
\* never executed ("To be safe we ignore this request"), and the other is not
\* answered: when a response goes out, no request waits that came before it.
LateRequestIgnored ==
  transport = "rtu" =>
    /\ cur # NoFrame => ~cur.late
    /\ pc = "tx" => \A k \in DOMAIN in : ~in[k].late

\* After mb_slave_id_set at most one more request is taken for the old id: the
\* one that mb_pdu_rx, armed with the old id, may still return.
StaleIdOnce == stale <= 1

\* The task is inside a wait of the transport that has no limit
Held == \/ stalled = "rx" /\ pc \in {"rx", "discard"}
        \/ stalled = "tx" /\ pc = "tx"

\* On a serial line a new id comes into use: mb_pdu_rx times out, and the task
\* reads the id again (the comment at the call of mb_pdu_rx); unless the
\* transport holds the task for ever in a wait without a limit.
IdTakesEffect ==
  (transport = "rtu" /\ txn.unit # id) ~> (txn.unit = id \/ pc = "exit" \/ []Held)

\* The task ends after mb_slave_shutdown, peer or no peer, unless the transport
\* holds it for ever.
ShutdownStops == ~running ~> (pc = "exit" \/ []Held)
==============================================================================
