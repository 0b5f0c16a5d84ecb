----------------------------- MODULE MbHandlers ------------------------------
(***************************************************************************)
(* The request handlers of mb_slave.c: what a request makes the slave      *)
(* answer and do to the application's tables, which it reaches through the *)
(* callbacks of the iomap.                                                 *)
(***************************************************************************)
EXTENDS MbPdu

CONSTANTS
  Size,             \* iotable size, for every table
  Readable,         \* tables with a get callback
  Writable,         \* tables with a set callback
  Vendor,           \* function code |-> what its callback may return
  CallbackResults   \* what get and set may return: 0 or an exception

Tables    == {"coils", "inputs", "holding_registers", "input_registers"}
Exception == {EILLEGAL_FUNCTION, EILLEGAL_DATA_ADDRESS,
              EILLEGAL_DATA_VALUE, ESLAVE_DEVICE_FAILURE}

\* The payload elements a request carries are the ones its rx_count pays for.
Carried(p) ==
  /\ p.function = PDU_WRITE_COILS => 8 * (p.rx_count - sizeof_write) <= Len(p.data)
  /\ p.function = PDU_WRITE_HOLDING_REGISTERS
       => p.rx_count - sizeof_write <= 2 * Len(p.data)
  /\ p.function = PDU_READ_WRITE_HOLDING_REGISTERS
       => p.rx_count - sizeof_read_write <= 2 * Len(p.data)

ASSUME TableAssumption == /\ Size \in [Tables -> Nat]
                          /\ Readable \subseteq Tables
                          /\ Writable \subseteq Tables
ASSUME CallbackAssumption ==
  /\ CallbackResults \subseteq {0} \cup Exception
  /\ DOMAIN Vendor \subseteq Byte
  /\ \A f \in DOMAIN Vendor : Vendor[f] \subseteq Exception \cup (0 .. MAX_PDU_SIZE)

IsMemory(m) == /\ m = [t \in Tables |-> m[t]]
               /\ \A t \in Tables : m[t] \in [0 .. Size[t] - 1 -> Word]

------------------------------------------------------------------------------
(* Request handlers.  An outcome is [tx, mem, data, calls]: the value the
   handler returns (an exception when negative), the tables after it, the
   response payload and the iotable callbacks it called. *)

Call(op, t, a, q, bytes) ==
  [op |-> op, table |-> t, address |-> a, quantity |-> q, bytes |-> bytes]

Outcome(tx, m, data, calls) == [tx |-> tx, mem |-> m, data |-> data, calls |-> calls]

\* return tx without calling back
Return(m, tx) == Outcome(tx, m, <<>>, {})

\* count = quantity / 8, rounded up, in a uint8_t
NumBytes(quantity) ==
  LET count == (quantity \div 8) % 256
  IN  IF quantity # count * 8 THEN (count + 1) % 256 ELSE count

\* What the sample application's set callback does to its table
Set(m, t, a, q, values) ==
  [m EXCEPT ![t] = [x \in DOMAIN m[t] |-> IF a <= x /\ x < a + q
                                          THEN values[x - a + 1] ELSE m[t][x]]]

\* What the sample application's get callback puts in the response
Get(m, t, a, q) == [i \in 1 .. q |-> m[t][a + i - 1]]

\* The same for bits: the pad bits after the q asked for are reset
GetBits(m, t, a, q, n) == [i \in 1 .. n |-> IF i <= q THEN m[t][a + i - 1] ELSE 0]

\* Mutants of ReadError: the upper limit forgotten, the end off by one
ReadErrorNoLimit(t, a, q, limit) ==
  IF q = 0 THEN EILLEGAL_DATA_VALUE
  ELSE IF a + q > Size[t] THEN EILLEGAL_DATA_ADDRESS
  ELSE IF t \notin Readable THEN EILLEGAL_FUNCTION ELSE 0

ReadErrorOffByOne(t, a, q, limit) ==
  IF q = 0 \/ q > limit THEN EILLEGAL_DATA_VALUE
  ELSE IF a + q > Size[t] + 1 THEN EILLEGAL_DATA_ADDRESS
  ELSE IF t \notin Readable THEN EILLEGAL_FUNCTION ELSE 0

ReadError(t, a, q, limit) ==
  IF q = 0 \/ q > limit THEN EILLEGAL_DATA_VALUE
  ELSE IF a + q > Size[t] THEN EILLEGAL_DATA_ADDRESS
  ELSE IF t \notin Readable THEN EILLEGAL_FUNCTION ELSE 0

\* Mutant of WriteError: the number of bytes received is not compared
WriteErrorAnyLength(t, a, q, limit, count, p, header) ==
  IF q = 0 \/ q > limit \/ count # p.count THEN EILLEGAL_DATA_VALUE
  ELSE IF a + q > Size[t] THEN EILLEGAL_DATA_ADDRESS
  ELSE IF t \notin Writable THEN EILLEGAL_FUNCTION ELSE 0

WriteError(t, a, q, limit, count, p, header) ==
  IF q = 0 \/ q > limit \/ count # p.count THEN EILLEGAL_DATA_VALUE
  ELSE IF a + q > Size[t] THEN EILLEGAL_DATA_ADDRESS
  ELSE IF p.rx_count # header + p.count THEN EILLEGAL_DATA_VALUE
  ELSE IF t \notin Writable THEN EILLEGAL_FUNCTION ELSE 0

SingleError(t, a) ==
  IF a >= Size[t] THEN EILLEGAL_DATA_ADDRESS
  ELSE IF t \notin Writable THEN EILLEGAL_FUNCTION ELSE 0

\* A read of q elements answered with count bytes; g is what get returns.
Read(m, t, a, q, count, data, g) ==
  LET calls == {Call("get", t, a, q, sizeof_read_response + count)}
  IN  IF g # 0 THEN Outcome(g, m, <<>>, calls)
      ELSE Outcome(sizeof_read_response + count, m, data, calls)

\* A write of q elements found in the first bytes of the request; s is what
\* set returns.  A set that fails leaves the table alone.
Write(m, t, a, q, values, bytes, response, s) ==
  LET calls == {Call("set", t, a, q, bytes)}
  IN  IF s # 0 THEN Outcome(s, m, <<>>, calls)
      ELSE Outcome(response, Set(m, t, a, q, values), <<>>, calls)

mb_slave_read_bits(m, t, p, g) ==
  LET a     == p.address
      q     == p.quantity
      count == NumBytes(q)
      error == ReadError(t, a, q, 2000)
  IN  IF error # 0 THEN Return(m, error)
      ELSE Read(m, t, a, q, count, GetBits(m, t, a, q, 8 * count), g)

mb_slave_read_registers(m, t, p, g) ==
  LET a     == p.address
      q     == p.quantity
      error == ReadError(t, a, q, 125)
  IN  IF error # 0 THEN Return(m, error)
      ELSE Read(m, t, a, q, (2 * q) % 256, Get(m, t, a, q), g)

\* Mutant: bit is the low byte of the value, which is 0 for 0xFF00
mb_slave_write_bit_low(m, t, p, s) ==
  LET error == SingleError(t, p.address)
  IN  IF p.quantity \notin {0, 65280} THEN Return(m, EILLEGAL_DATA_VALUE)
      ELSE IF error # 0 THEN Return(m, error)
      ELSE Write(m, t, p.address, 1, <<p.quantity % 256>>,
                 sizeof_write_single, sizeof_write_single, s)

mb_slave_write_bit(m, t, p, s) ==
  LET error == SingleError(t, p.address)
  IN  IF p.quantity \notin {0, 65280} THEN Return(m, EILLEGAL_DATA_VALUE)
      ELSE IF error # 0 THEN Return(m, error)
      ELSE Write(m, t, p.address, 1, <<IF p.quantity = 65280 THEN 1 ELSE 0>>,
                 sizeof_write_single, sizeof_write_single, s)

mb_slave_write_register(m, t, p, s) ==
  LET error == SingleError(t, p.address)
  IN  IF error # 0 THEN Return(m, error)
      ELSE Write(m, t, p.address, 1, <<p.quantity>>,
                 sizeof_write_single, sizeof_write_single, s)

mb_slave_write_bits(m, t, p, s) ==
  LET count == NumBytes(p.quantity)
      error == WriteError(t, p.address, p.quantity, 1968, count, p, sizeof_write)
  IN  IF error # 0 THEN Return(m, error)
      ELSE Write(m, t, p.address, p.quantity, p.data, sizeof_write + count,
                 sizeof_write_response, s)

mb_slave_write_registers(m, t, p, s) ==
  LET count == 2 * p.quantity
      error == WriteError(t, p.address, p.quantity, 123, count, p, sizeof_write)
  IN  IF error # 0 THEN Return(m, error)
      ELSE Write(m, t, p.address, p.quantity, p.data, sizeof_write + count,
                 sizeof_write_response, s)

\* Mutants of the function below: the read half is checked after the write is
\* made; the response is built before the write is made
mb_slave_read_write_early(m, t, p, s, g) ==
  LET w == mb_slave_write_registers(m, t, [p EXCEPT !.address = p.write_address,
             !.quantity = p.write_quantity, !.rx_count = p.rx_count - 4], s)
  IN  IF w.tx < 0 THEN w
      ELSE [mb_slave_read_registers(w.mem, t, p, g) EXCEPT !.calls = @ \cup w.calls]

mb_slave_read_write_before(m, t, p, s, g) ==
  LET r == mb_slave_read_registers(m, t, p, g)
      w == mb_slave_write_registers(m, t, [p EXCEPT !.address = p.write_address,
             !.quantity = p.write_quantity, !.rx_count = p.rx_count - 4], s)
  IN  IF r.tx < 0 THEN r
      ELSE IF w.tx < 0 THEN w
      ELSE [r EXCEPT !.mem = w.mem, !.calls = @ \cup w.calls]

\* Both halves are checked before the write is made; the read sees the write,
\* and when get fails the write stays.
mb_slave_read_write_registers(m, t, p, s, g) ==
  LET count  == 2 * p.write_quantity
      wError == WriteError(t, p.write_address, p.write_quantity, 121, count, p,
                           sizeof_read_write)
      rError == ReadError(t, p.address, p.quantity, 125)
      w      == Write(m, t, p.write_address, p.write_quantity, p.data,
                      sizeof_read_write + count, 0, s)
      r      == Read(w.mem, t, p.address, p.quantity, (2 * p.quantity) % 256,
                     Get(w.mem, t, p.address, p.quantity), g)
  IN  IF wError # 0 THEN Return(m, wError)
      ELSE IF rError # 0 THEN Return(m, rError)
      ELSE IF w.tx # 0 THEN w
      ELSE [r EXCEPT !.calls = @ \cup w.calls]

mb_slave_diagnostics(m, p) ==
  Return(m, IF p.address = PDU_DIAG_LOOPBACK THEN p.rx_count ELSE EILLEGAL_FUNCTION)

\* v is what the callback returns, when the function has one
mb_slave_vendor(m, p, v) ==
  Return(m, IF p.function \in DOMAIN Vendor THEN v ELSE EILLEGAL_FUNCTION)

Results(p) == IF p.function \in DOMAIN Vendor THEN Vendor[p.function] ELSE {0}

\* The switch of mb_slave_handle_request; a broadcast read is not performed
Handle(m, p, bc, s, g, v) ==
  CASE p.function = PDU_READ_COILS ->
         IF bc THEN Return(m, 0) ELSE mb_slave_read_bits(m, "coils", p, g)
    [] p.function = PDU_READ_INPUTS ->
         IF bc THEN Return(m, 0) ELSE mb_slave_read_bits(m, "inputs", p, g)
    [] p.function = PDU_READ_INPUT_REGISTERS ->
         IF bc THEN Return(m, 0) ELSE mb_slave_read_registers(m, "input_registers", p, g)
    [] p.function = PDU_READ_HOLDING_REGISTERS ->
         IF bc THEN Return(m, 0) ELSE mb_slave_read_registers(m, "holding_registers", p, g)
    [] p.function = PDU_WRITE_COIL -> mb_slave_write_bit(m, "coils", p, s)
    [] p.function = PDU_WRITE_HOLDING_REGISTER ->
         mb_slave_write_register(m, "holding_registers", p, s)
    [] p.function = PDU_WRITE_COILS -> mb_slave_write_bits(m, "coils", p, s)
    [] p.function = PDU_WRITE_HOLDING_REGISTERS ->
         mb_slave_write_registers(m, "holding_registers", p, s)
    [] p.function = PDU_READ_WRITE_HOLDING_REGISTERS ->
         mb_slave_read_write_registers(m, "holding_registers", p, s, g)
    [] p.function = PDU_DIAGNOSTICS -> mb_slave_diagnostics(m, p)
    [] OTHER -> mb_slave_vendor(m, p, v)
==============================================================================
