----------------------------- MODULE Mbus_proofs -----------------------------
(***************************************************************************)
(* Proofs about the master: that it implements MbDevice together with the  *)
(* link and the slave, and what a call that succeeds on an idle link means. *)
(***************************************************************************)
EXTENDS Mbus, SequenceTheorems, TLAPS

\* The calls that are put on the line
Sendable == {c \in AllCalls : RequestOf(c) # Refused}

Functions == {PDU_READ_COILS, PDU_READ_INPUTS, PDU_READ_HOLDING_REGISTERS,
              PDU_READ_INPUT_REGISTERS, PDU_WRITE_COIL, PDU_WRITE_HOLDING_REGISTER,
              PDU_DIAGNOSTICS, PDU_WRITE_COILS, PDU_WRITE_HOLDING_REGISTERS}

\* A slave turns a request down: with an exception, and without any effect.
Failed(o) == o.tx \in Exception /\ o.mem = mem

\* A slave does what a call asks of the device.
Performed(c, o) ==
  /\ Device!Possible(c)
  /\ o.tx \in Nat
  /\ o.mem = IF c.op \in {"write", "write_single"} THEN Device!Written(c) ELSE mem
  /\ o.data = IF c.op = "read" THEN Device!Contained(c) ELSE <<>>
  /\ c.op = "loopback" => o.tx = 3 + c.quantity

------------------------------------------------------------------------------
(* Calls and their requests. *)

\* The types of a call's fields, and what its buffer holds.
LEMMA CallFields ==
  ASSUME NEW c \in AllCalls
  PROVE  /\ c \in Device!Call
         /\ c.op \in Ops /\ c.slave \in Byte /\ c.address \in Nat /\ c.quantity \in Word
         /\ c.quantity \in Nat /\ c.values \in Seq(Word) /\ Len(c.values) \in Nat
         /\ Buffer(c) <= Len(c.values)
         /\ c.op = "loopback" => Len(c.values) = c.quantity
<1>1. /\ c \in [op : Ops, slave : Byte, address : Nat, quantity : Word, values : Seq(Word)]
      /\ Buffer(c) <= Len(c.values)
      /\ c.op = "loopback" => Len(c.values) = c.quantity
  BY CallsAssumption DEF AllCalls, Proper
<1>2. /\ c.op \in Ops /\ c.slave \in Byte /\ c.address \in Nat /\ c.quantity \in Word
      /\ c.values \in Seq(Word)
  BY <1>1
<1>3. Word \subseteq Nat
  BY DEF Word
<1>4. c.quantity \in Nat /\ Len(c.values) \in Nat /\ c.values \in Seq(Nat)
  <2>1. Len(c.values) \in Nat /\ c.values \in [1 .. Len(c.values) -> Word]
    BY <1>2
  <2>2. c.values \in [1 .. Len(c.values) -> Nat]
    BY <1>3, <2>1
  <2>3. PICK n, v : n \in Nat /\ v \in [1 .. n -> Nat] /\ v = c.values
    BY ONLY <2>1, <2>2
  <2>4. v \in Seq(Nat)
    BY ONLY <2>3
  <2> QED BY ONLY <1>2, <1>3, <2>1, <2>3, <2>4
<1>5. c \in Device!Call
  BY <1>1, <1>2, <1>3, <1>4 DEF Device!Call, Ops, Byte
<1> QED BY <1>1, <1>2, <1>4, <1>5

\* A word is a natural number of 16 bits.
LEMMA WordRange ==
  ASSUME NEW n \in Word
  PROVE  n \in Nat /\ n <= 65535
BY DEF Word

\* Such a number is a word.
LEMMA IsWord ==
  ASSUME NEW n \in Nat, n <= 65535
  PROVE  n \in Word
<1>1. PICK m \in Nat : m = 65535
  OBVIOUS
<1>2. Word = 0 .. m
  BY <1>1 DEF Word
<1>3. n <= m
  BY <1>1
<1>4. n \in 0 .. m
  BY ONLY <1>3, n \in Nat, m \in Nat
<1> QED BY <1>2, <1>4

\* The 0-based address in the request is the element's number in the table, but
\* for element 0 of a space, which becomes the last address of all.
LEMMA AddressParts ==
  ASSUME NEW c \in AllCalls
  PROVE  /\ Space(c) \in Nat /\ Start(c) \in Nat /\ Start(c) <= 65535
         /\ Device!Space(c) = Space(c)
         /\ Device!First(c) \in Int
         /\ Device!First(c) >= 0 => Start(c) = Device!First(c)
         /\ Device!First(c) < 0 => Start(c) = 65535
         /\ Space(c) = 0 <=> c.address < 65536
<1>1. PICK a \in Nat : a = c.address
  BY CallFields
<1>2. PICK q, w, e : q = a \div 65536 /\ w = (a - 1) % 65536 /\ e = a - 65536 * q - 1
  OBVIOUS
<1>3. /\ Space(c) = q /\ Device!Space(c) = q /\ Start(c) = w
      /\ Device!First(c) = e
  BY <1>1, <1>2 DEF Space, Start, Device!Space, Device!First
<1>4. w \in Nat /\ w <= 65535
  <2>1. PICK b \in Int : b = a - 1
    OBVIOUS
  <2>2. w = b % 65536
    BY <1>2, <2>1
  <2> QED BY ONLY <2>2, b \in Int
<1>5. q \in Nat /\ e \in Int
  BY <1>2
<1>6. e >= 0 => w = e
  BY <1>2
<1>7. e < 0 => w = 65535
  BY <1>2
<1>8. q = 0 <=> a < 65536
  BY <1>2
<1>9. Device!First(c) >= 0 => Start(c) = Device!First(c)
  BY <1>3, <1>6
<1>10. Device!First(c) < 0 => Start(c) = 65535
  BY <1>3, <1>7
<1>11. Space(c) = 0 <=> c.address < 65536
  BY <1>1, <1>3, <1>8
<1> QED BY <1>3, <1>4, <1>5, <1>9, <1>10, <1>11

\* A table has fewer than 65536 elements.
LEMMA TableSizes ==
  ASSUME NEW t \in Tables
  PROVE  Size[t] \in Nat /\ Size[t] <= 65535
<1>1. PICK n \in Word : n = Size[t]
  BY CallsAssumption
<1> QED BY <1>1, WordRange

\* So the device can do what the slave's checks let through.
LEMMA InTable ==
  ASSUME NEW c \in AllCalls, NEW t \in Tables, NEW q \in Nat, q > 0
  PROVE  Start(c) + q <= Size[t] <=> Device!First(c) >= 0 /\ Device!First(c) + q <= Size[t]
BY AddressParts, TableSizes

\* The tables of the address spaces.
LEMMA TableOfSpace ==
  ASSUME NEW c \in AllCalls
  PROVE  /\ Space(c) = 0 => Device!TableOf(c) = "coils" /\ Device!IsBits(c)
         /\ Space(c) = 1 => Device!TableOf(c) = "inputs" /\ Device!IsBits(c)
         /\ Space(c) = 3 => Device!TableOf(c) = "input_registers" /\ ~Device!IsBits(c)
         /\ Space(c) = 4 => Device!TableOf(c) = "holding_registers" /\ ~Device!IsBits(c)
BY AddressParts DEF Device!TableOf, Device!IsBits

\* Coils are packed eight to a byte by master and slave alike.
LEMMA BytesOfBits ==
  ASSUME NEW q \in Nat, q <= 2000
  PROVE  /\ NumBytes(q) = (q + 7) \div 8 /\ CoilBytes(q) = (q + 7) \div 8
         /\ (q + 7) \div 8 \in Nat /\ q <= 8 * ((q + 7) \div 8)
         /\ (q + 7) \div 8 <= 250
BY DEF NumBytes, CoilBytes

\* What the master puts on the line for each kind of call; what it refuses to
\* build is what the protocol cannot express.
LEMMA ReadRequests ==
  ASSUME NEW c \in AllCalls, c.op = "read"
  PROVE  \/ RequestOf(c).function = 0 /\ RequestOf(c) = Refused /\ ~Device!Legal(c)
         \/ /\ Device!Legal(c) /\ c.slave # 0
            /\ \/ Space(c) = 0 /\ RequestOf(c).function = PDU_READ_COILS /\ c.quantity <= 2000
               \/ Space(c) = 1 /\ RequestOf(c).function = PDU_READ_INPUTS /\ c.quantity <= 2000
               \/ /\ Space(c) = 3 /\ RequestOf(c).function = PDU_READ_INPUT_REGISTERS
                  /\ c.quantity <= 125
               \/ /\ Space(c) = 4 /\ RequestOf(c).function = PDU_READ_HOLDING_REGISTERS
                  /\ c.quantity <= 125
            /\ RequestOf(c).address = Start(c) /\ RequestOf(c).quantity = c.quantity
<1>1. RequestOf(c) = ReadRequest(c)
  BY DEF RequestOf
<1>2. c.quantity \in Nat /\ Device!Space(c) = Space(c) /\ Space(c) \in Nat
  BY CallFields, AddressParts
<1>3. Device!Legal(c) <=> /\ c.slave # 0 /\ Space(c) \in {0, 1, 3, 4}
                          /\ c.quantity <= IF Space(c) \in {0, 1} THEN 2000 ELSE 125
  BY <1>2, TableOfSpace DEF Device!Legal, Device!Broadcast
<1>4. CASE c.slave = 0 \/ Space(c) \notin {0, 1, 3, 4}
           \/ c.quantity > (IF Space(c) \in {0, 1} THEN 2000 ELSE 125)
  BY <1>1, <1>2, <1>3, <1>4 DEF ReadRequest, Refused
<1>5. CASE ~(c.slave = 0 \/ Space(c) \notin {0, 1, 3, 4}
             \/ c.quantity > (IF Space(c) \in {0, 1} THEN 2000 ELSE 125))
  <2>1. ReadRequest(c) = Build(ReadFunction(Space(c)), Start(c), c.quantity, 0, <<>>, 5)
    BY <1>5 DEF ReadRequest
  <2>2. /\ RequestOf(c).function = ReadFunction(Space(c))
        /\ RequestOf(c).address = Start(c) /\ RequestOf(c).quantity = c.quantity
    BY <1>1, <2>1 DEF Build
  <2>3. /\ Space(c) \in {0, 1, 3, 4} /\ c.slave # 0
        /\ c.quantity <= IF Space(c) \in {0, 1} THEN 2000 ELSE 125
    BY <1>2, <1>5
  <2> QED BY <1>3, <2>2, <2>3 DEF ReadFunction
<1> QED BY <1>4, <1>5

\* The fields of a request.
LEMMA BuildFields ==
  ASSUME NEW f, NEW a, NEW q, NEW n, NEW d, NEW z
  PROVE  /\ Build(f, a, q, n, d, z).function = f /\ Build(f, a, q, n, d, z).address = a
         /\ Build(f, a, q, n, d, z).quantity = q /\ Build(f, a, q, n, d, z).count = n
         /\ Build(f, a, q, n, d, z).data = d /\ Build(f, a, q, n, d, z).rx_count = z
BY DEF Build

\* The same for writes,
LEMMA WriteRequests ==
  ASSUME NEW c \in AllCalls, c.op = "write"
  PROVE  \/ RequestOf(c).function = 0 /\ RequestOf(c) = Refused /\ ~Device!Legal(c)
         \/ /\ Device!Legal(c)
            /\ \/ /\ Space(c) = 0 /\ RequestOf(c).function = PDU_WRITE_COILS
                  /\ c.quantity <= 1968 /\ RequestOf(c).count = CoilBytes(c.quantity)
                  /\ RequestOf(c).data = SubSeq(c.values, 1, 8 * CoilBytes(c.quantity))
               \/ /\ Space(c) = 4 /\ RequestOf(c).function = PDU_WRITE_HOLDING_REGISTERS
                  /\ c.quantity <= 123 /\ RequestOf(c).count = 2 * c.quantity
                  /\ RequestOf(c).data = SubSeq(c.values, 1, c.quantity)
            /\ RequestOf(c).address = Start(c) /\ RequestOf(c).quantity = c.quantity
            /\ RequestOf(c).rx_count = sizeof_write + RequestOf(c).count
<1>1. RequestOf(c) = WriteRequest(c)
  BY DEF RequestOf
<1>2. c.quantity \in Nat /\ Device!Space(c) = Space(c) /\ Space(c) \in Nat
  BY CallFields, AddressParts
<1>3. Device!Legal(c) <=> \/ Space(c) = 0 /\ c.quantity <= 1968
                          \/ Space(c) = 4 /\ c.quantity <= 123
  BY <1>2, TableOfSpace DEF Device!Legal
<1>4. CASE Space(c) = 0 /\ c.quantity <= 1968
  <2>1. PICK n, d, z : /\ n = CoilBytes(c.quantity) /\ d = SubSeq(c.values, 1, 8 * n)
                       /\ z = sizeof_write + n
    OBVIOUS
  <2>2. RequestOf(c) = Build(PDU_WRITE_COILS, Start(c), c.quantity, n, d, z)
    BY <1>1, <1>4, <2>1 DEF WriteRequest
  <2>3. /\ RequestOf(c).function = PDU_WRITE_COILS
        /\ RequestOf(c).address = Start(c) /\ RequestOf(c).quantity = c.quantity
        /\ RequestOf(c).count = n /\ RequestOf(c).data = d /\ RequestOf(c).rx_count = z
    BY ONLY <2>2, BuildFields
  <2> QED BY <1>3, <1>4, <2>1, <2>3
<1>5. CASE Space(c) = 4 /\ c.quantity <= 123
  <2>1. PICK n, d, z : /\ n = 2 * c.quantity /\ d = SubSeq(c.values, 1, c.quantity)
                       /\ z = sizeof_write + n
    OBVIOUS
  <2>2. RequestOf(c) = Build(PDU_WRITE_HOLDING_REGISTERS, Start(c), c.quantity, n, d, z)
    BY <1>1, <1>2, <1>5, <2>1 DEF WriteRequest
  <2>3. /\ RequestOf(c).function = PDU_WRITE_HOLDING_REGISTERS
        /\ RequestOf(c).address = Start(c) /\ RequestOf(c).quantity = c.quantity
        /\ RequestOf(c).count = n /\ RequestOf(c).data = d /\ RequestOf(c).rx_count = z
    BY ONLY <2>2, BuildFields
  <2> QED BY <1>3, <1>5, <2>1, <2>3
<1>6. CASE ~(Space(c) = 0 /\ c.quantity <= 1968) /\ ~(Space(c) = 4 /\ c.quantity <= 123)
  <2>1. WriteRequest(c) = Refused
    BY <1>6 DEF WriteRequest
  <2> QED BY <1>1, <1>3, <1>6, <2>1 DEF Refused
<1> QED BY <1>4, <1>5, <1>6

\* for writes of one element,
LEMMA SingleRequests ==
  ASSUME NEW c \in AllCalls, c.op = "write_single"
  PROVE  \/ RequestOf(c).function = 0 /\ RequestOf(c) = Refused /\ ~Device!Legal(c)
         \/ /\ Device!Legal(c) /\ RequestOf(c).address = Start(c)
            /\ \/ /\ Space(c) = 0 /\ RequestOf(c).function = PDU_WRITE_COIL
                  /\ RequestOf(c).quantity = IF c.values[1] # 0 THEN 65280 ELSE 0
               \/ /\ Space(c) = 4 /\ RequestOf(c).function = PDU_WRITE_HOLDING_REGISTER
                  /\ RequestOf(c).quantity = c.values[1]
<1>1. RequestOf(c) = WriteSingleRequest(c)
  BY DEF RequestOf
<1>2. Device!Space(c) = Space(c) /\ Space(c) \in Nat
  BY AddressParts
<1>3. Device!Legal(c) <=> Space(c) \in {0, 4}
  BY <1>2 DEF Device!Legal
<1>4. CASE Space(c) = 0
  <2>1. WriteSingleRequest(c) = Build(PDU_WRITE_COIL, Start(c),
                                      IF c.values[1] # 0 THEN 65280 ELSE 0,
                                      0, <<>>, sizeof_write_single)
    BY <1>4 DEF WriteSingleRequest
  <2> QED BY <1>1, <1>3, <1>4, <2>1 DEF Build
<1>5. CASE Space(c) = 4
  <2>1. WriteSingleRequest(c) = Build(PDU_WRITE_HOLDING_REGISTER, Start(c), c.values[1],
                                      0, <<>>, sizeof_write_single)
    BY <1>5 DEF WriteSingleRequest
  <2> QED BY <1>1, <1>3, <1>5, <2>1 DEF Build
<1>6. CASE Space(c) \notin {0, 4}
  <2>1. WriteSingleRequest(c) = Refused
    BY <1>6 DEF WriteSingleRequest
  <2> QED BY <1>1, <1>3, <1>6, <2>1 DEF Refused
<1> QED BY <1>4, <1>5, <1>6

\* and for loopbacks.
LEMMA LoopbackRequests ==
  ASSUME NEW c \in AllCalls, c.op = "loopback"
  PROVE  \/ RequestOf(c).function = 0 /\ RequestOf(c) = Refused /\ ~Device!Legal(c)
         \/ /\ Device!Legal(c) /\ RequestOf(c).function = PDU_DIAGNOSTICS
            /\ RequestOf(c).address = PDU_DIAG_LOOPBACK /\ RequestOf(c).data = c.values
            /\ RequestOf(c).rx_count = 3 + c.quantity
<1>1. RequestOf(c) = LoopbackRequest(c)
  BY DEF RequestOf
<1>2. c.quantity \in Nat
  BY CallFields
<1>3. Device!Legal(c) <=> ~(c.quantity > 250)
  BY <1>2 DEF Device!Legal
<1>4. CASE c.quantity > 250
  BY <1>1, <1>3, <1>4 DEF LoopbackRequest, Refused
<1>5. CASE ~(c.quantity > 250)
  BY <1>1, <1>3, <1>5 DEF LoopbackRequest, Build
<1> QED BY <1>4, <1>5

\* A call is refused exactly when the protocol cannot express it.
LEMMA RequestLegal ==
  ASSUME NEW c \in AllCalls
  PROVE  /\ RequestOf(c) = Refused <=> ~Device!Legal(c)
         /\ RequestOf(c) # Refused => RequestOf(c).function \in Functions
<1>1. c.op \in Ops
  BY CallFields
<1>2. Refused.function = 0
  BY DEF Refused
<1>3. CASE c.op = "read"
  BY <1>2, <1>3, ReadRequests
     DEF Functions, PDU_READ_COILS, PDU_READ_INPUTS, PDU_READ_INPUT_REGISTERS,
         PDU_READ_HOLDING_REGISTERS
<1>4. CASE c.op = "write"
  BY <1>2, <1>4, WriteRequests
     DEF Functions, PDU_WRITE_COILS, PDU_WRITE_HOLDING_REGISTERS
<1>5. CASE c.op = "write_single"
  BY <1>2, <1>5, SingleRequests
     DEF Functions, PDU_WRITE_COIL, PDU_WRITE_HOLDING_REGISTER
<1>6. CASE c.op = "loopback"
  BY <1>2, <1>6, LoopbackRequests DEF Functions, PDU_DIAGNOSTICS
<1> QED BY <1>1, <1>3, <1>4, <1>5, <1>6 DEF Ops

------------------------------------------------------------------------------
(* What the slave does with a request of the master. *)

\* The errors are exceptions, which are negative.
LEMMA Exceptions ==
  /\ EILLEGAL_FUNCTION \in Exception /\ EILLEGAL_DATA_ADDRESS \in Exception
  /\ EILLEGAL_DATA_VALUE \in Exception
  /\ \A e \in Exception : e \in Int /\ e < 0 /\ -e \in 1 .. 4
  /\ \A g \in CallbackResults : g # 0 => g \in Exception
<1>1. \A g \in CallbackResults : g # 0 => g \in Exception
  BY CallbackAssumption
<1>2. \A e \in Exception : e \in Int /\ e < 0 /\ -e \in 1 .. 4
  BY DEF Exception, EILLEGAL_FUNCTION, EILLEGAL_DATA_ADDRESS, EILLEGAL_DATA_VALUE,
         ESLAVE_DEVICE_FAILURE
<1> QED BY <1>1, <1>2 DEF Exception

\* An outcome has these fields.
LEMMA OutcomeFields ==
  ASSUME NEW tx, NEW m, NEW d, NEW k
  PROVE  /\ Outcome(tx, m, d, k).tx = tx /\ Outcome(tx, m, d, k).mem = m
         /\ Outcome(tx, m, d, k).data = d
BY DEF Outcome

\* A read that the checks let through is one the device can do.
LEMMA ReadPossible ==
  ASSUME NEW c \in AllCalls, c.op = "read", NEW t \in Tables, Device!TableOf(c) = t,
         NEW limit \in Nat, c.quantity <= limit
  PROVE  \/ ReadError(t, Start(c), c.quantity, limit) \in Exception
         \/ ReadError(t, Start(c), c.quantity, limit) = 0 /\ Device!Possible(c)
<1>1. c.quantity \in Nat /\ Start(c) \in Nat /\ Size[t] \in Nat
  BY CallFields, AddressParts, TableSizes
<1>2. CASE /\ c.quantity > 0 /\ Start(c) + c.quantity <= Size[t] /\ t \in Readable
  <2>1. ReadError(t, Start(c), c.quantity, limit) = 0
    BY <1>1, <1>2 DEF ReadError
  <2>2. Device!First(c) >= 0 /\ Device!First(c) + c.quantity <= Size[t]
    BY <1>1, <1>2, InTable
  <2>3. Device!Possible(c)
    BY <1>2, <2>2 DEF Device!Possible, Device!Quantity
  <2> QED BY <2>1, <2>3
<1>3. CASE ~(c.quantity > 0 /\ Start(c) + c.quantity <= Size[t] /\ t \in Readable)
  <2>1. ReadError(t, Start(c), c.quantity, limit) \in
          {EILLEGAL_DATA_VALUE, EILLEGAL_DATA_ADDRESS, EILLEGAL_FUNCTION}
    BY <1>1, <1>3 DEF ReadError
  <2> QED BY <2>1, Exceptions
<1> QED BY <1>2, <1>3

\* Errors are distinguished from success.
LEMMA NoException == 0 \notin Exception
BY Exceptions

\* A read of bits fails or returns what the table holds.
LEMMA ReadBits ==
  ASSUME NEW c \in AllCalls, c.op = "read", c.quantity <= 2000,
         NEW t \in Tables, Device!TableOf(c) = t, Device!IsBits(c),
         NEW p, p.address = Start(c), p.quantity = c.quantity,
         NEW g \in CallbackResults, NEW o, o = mb_slave_read_bits(mem, t, p, g)
  PROVE  Failed(o) \/ Performed(c, o)
<1>1. c.quantity \in Nat /\ Start(c) \in Nat
  BY CallFields, AddressParts
<1>2. PICK n \in Nat : n = NumBytes(c.quantity) /\ n = (c.quantity + 7) \div 8
  BY <1>1, BytesOfBits
<1>3. PICK error : error = ReadError(t, Start(c), c.quantity, 2000)
  OBVIOUS
<1>4. error \in Exception \/ (error = 0 /\ Device!Possible(c))
  BY <1>3, ReadPossible
<1>5. PICK d : d = GetBits(mem, t, Start(c), c.quantity, 8 * n)
  OBVIOUS
<1>6. o = IF error # 0 THEN Return(mem, error)
          ELSE Read(mem, t, Start(c), c.quantity, n, d, g)
  BY <1>2, <1>3, <1>5 DEF mb_slave_read_bits
<1>7. CASE error # 0
  BY <1>4, <1>6, <1>7, OutcomeFields DEF Return, Failed
<1>8. CASE error = 0
  <2>1. Device!Possible(c)
    BY <1>4, <1>8, NoException
  <2>2. CASE g # 0
    BY <1>6, <1>8, <2>2, OutcomeFields, Exceptions DEF Read, Failed
  <2>3. CASE g = 0
    <3>1. o.tx = sizeof_read_response + n /\ o.mem = mem /\ o.data = d
      BY <1>6, <1>8, <2>3, OutcomeFields DEF Read
    <3>2. o.tx \in Nat
      BY <1>2, <3>1 DEF sizeof_read_response
    <3>3. d = Device!Contained(c)
      <4>1. Device!First(c) = Start(c)
        BY <2>1, AddressParts DEF Device!Possible
      <4> QED BY <1>2, <1>5, <4>1 DEF GetBits, Device!Contained
    <3> QED BY <2>1, <3>1, <3>2, <3>3 DEF Performed
  <2> QED BY <2>2, <2>3
<1> QED BY <1>7, <1>8

\* A read of registers does, too.
LEMMA ReadRegisters ==
  ASSUME NEW c \in AllCalls, c.op = "read", c.quantity <= 125,
         NEW t \in Tables, Device!TableOf(c) = t, ~Device!IsBits(c),
         NEW p, p.address = Start(c), p.quantity = c.quantity,
         NEW g \in CallbackResults, NEW o, o = mb_slave_read_registers(mem, t, p, g)
  PROVE  Failed(o) \/ Performed(c, o)
<1>1. c.quantity \in Nat /\ Start(c) \in Nat
  BY CallFields, AddressParts
<1>2. PICK n \in Nat : n = (2 * c.quantity) % 256
  BY <1>1
<1>3. PICK error : error = ReadError(t, Start(c), c.quantity, 125)
  OBVIOUS
<1>4. error \in Exception \/ (error = 0 /\ Device!Possible(c))
  BY <1>3, ReadPossible
<1>5. PICK d : d = Get(mem, t, Start(c), c.quantity)
  OBVIOUS
<1>6. o = IF error # 0 THEN Return(mem, error)
          ELSE Read(mem, t, Start(c), c.quantity, n, d, g)
  BY <1>2, <1>3, <1>5 DEF mb_slave_read_registers
<1>7. CASE error # 0
  BY <1>4, <1>6, <1>7, OutcomeFields DEF Return, Failed
<1>8. CASE error = 0
  <2>1. Device!Possible(c)
    BY <1>4, <1>8, NoException
  <2>2. CASE g # 0
    BY <1>6, <1>8, <2>2, OutcomeFields, Exceptions DEF Read, Failed
  <2>3. CASE g = 0
    <3>1. o.tx = sizeof_read_response + n /\ o.mem = mem /\ o.data = d
      BY <1>6, <1>8, <2>3, OutcomeFields DEF Read
    <3>2. o.tx \in Nat
      BY <1>2, <3>1 DEF sizeof_read_response
    <3>3. d = Device!Contained(c)
      <4>1. Device!First(c) = Start(c)
        BY <2>1, AddressParts DEF Device!Possible
      <4>2. \A k \in 1 .. c.quantity : k <= c.quantity
        BY <1>1
      <4> QED BY <1>1, <1>5, <4>1, <4>2 DEF Get, Device!Contained
    <3> QED BY <2>1, <3>1, <3>2, <3>3 DEF Performed
  <2> QED BY <2>2, <2>3
<1> QED BY <1>7, <1>8

\* The set callback stores what a call asks to be written.
LEMMA SetWritten ==
  ASSUME IsMemory(mem), NEW c \in AllCalls, NEW t \in Tables, Device!TableOf(c) = t,
         NEW q \in Nat, q = Device!Quantity(c), NEW a \in Nat, a = Device!First(c),
         NEW values, \A k \in 1 .. q : values[k] = Device!Value(c, k)
  PROVE  Set(mem, t, a, q, values) = Device!Written(c)
<1>1. \A x \in DOMAIN mem[t] : x \in Int
  BY TableSizes DEF IsMemory
<1>2. PICK new : new = [x \in DOMAIN mem[t] |-> IF a <= x /\ x < a + q
                                                THEN values[x - a + 1] ELSE mem[t][x]]
  OBVIOUS
<1>3. PICK put : put = [x \in DOMAIN mem[t] |-> IF x - a \in 0 .. q - 1
                                                THEN Device!Value(c, x - a + 1) ELSE mem[t][x]]
  OBVIOUS
<1>4. ASSUME NEW x \in DOMAIN mem[t]
      PROVE  (IF a <= x /\ x < a + q THEN values[x - a + 1] ELSE mem[t][x])
             = (IF x - a \in 0 .. q - 1 THEN Device!Value(c, x - a + 1) ELSE mem[t][x])
  <2>1. x \in Int
    BY <1>1
  <2>2. CASE a <= x /\ x < a + q
    <3>1. x - a \in 0 .. q - 1 /\ x - a + 1 \in 1 .. q
      BY <2>1, <2>2
    <3> QED BY <2>2, <3>1
  <2>3. CASE ~(a <= x /\ x < a + q)
    <3>1. x - a \notin 0 .. q - 1
      BY <2>1, <2>3
    <3> QED BY <2>3, <3>1
  <2> QED BY <2>2, <2>3
<1>5. new = put
  BY <1>2, <1>3, <1>4
<1>6. Set(mem, t, a, q, values) = [mem EXCEPT ![t] = new]
  BY <1>2 DEF Set
<1>7. Device!Written(c) = [mem EXCEPT ![t] = put]
  BY <1>3 DEF Device!Written
<1> QED BY <1>5, <1>6, <1>7

\* A write that the checks let through is one the device can do.
LEMMA WritePossible ==
  ASSUME NEW c \in AllCalls, c.op \in {"write", "write_single"},
         NEW t \in Tables, Device!TableOf(c) = t,
         NEW q \in Nat, q = Device!Quantity(c), q > 0, Start(c) + q <= Size[t], t \in Writable
  PROVE  Device!Possible(c) /\ Device!First(c) = Start(c)
<1>1. Device!First(c) >= 0 /\ Device!First(c) + q <= Size[t]
  BY InTable
<1> QED BY <1>1, AddressParts DEF Device!Possible

\* A request that does not pass the checks fails.
LEMMA ReturnFails ==
  ASSUME NEW error \in Exception
  PROVE  Failed(Return(mem, error))
BY OutcomeFields DEF Return, Failed

\* A write that passes them fails, or is done.
LEMMA WriteDone ==
  ASSUME IsMemory(mem), NEW c \in AllCalls, c.op \in {"write", "write_single"},
         NEW t \in Tables, Device!TableOf(c) = t, NEW q \in Nat, q = Device!Quantity(c),
         NEW values, \A k \in 1 .. q : values[k] = Device!Value(c, k),
         q > 0, Start(c) + q <= Size[t], t \in Writable,
         NEW s \in CallbackResults, NEW bytes, NEW response \in Nat,
         NEW o, o = Write(mem, t, Start(c), q, values, bytes, response, s)
  PROVE  Failed(o) \/ Performed(c, o)
<1>1. CASE s # 0
  BY <1>1, OutcomeFields, Exceptions DEF Write, Failed
<1>2. CASE s = 0
  <2>1. Device!Possible(c) /\ Device!First(c) = Start(c) /\ Start(c) \in Nat
    BY WritePossible, AddressParts
  <2>2. Set(mem, t, Start(c), q, values) = Device!Written(c)
    BY <2>1, SetWritten
  <2>3. o.tx = response /\ o.mem = Set(mem, t, Start(c), q, values) /\ o.data = <<>>
    BY <1>2, OutcomeFields DEF Write
  <2> QED BY <2>1, <2>2, <2>3 DEF Performed
<1> QED BY <1>1, <1>2

\* The elements a write takes from the buffer are in the request.
LEMMA Buffered ==
  ASSUME NEW v \in Seq(Word), NEW n \in Nat, n <= Len(v), NEW d, d = SubSeq(v, 1, n)
  PROVE  d \in Seq(Word) /\ Len(d) = n /\ \A k \in 1 .. n : d[k] = v[k]
OBVIOUS

\* Coils are taken from the buffer in whole bytes, which it has,
LEMMA CoilsBuffered ==
  ASSUME NEW c \in AllCalls, c.op = "write", Space(c) = 0, c.quantity <= 1968
  PROVE  \E w \in Nat : /\ w = 8 * CoilBytes(c.quantity)
                        /\ w <= Len(c.values) /\ c.quantity <= w
<1>1. PICK q \in Nat : q = c.quantity /\ q <= 1968
  BY CallFields
<1>2. PICK n : n = (q + 7) \div 8
  OBVIOUS
<1>3. n \in Nat /\ q <= 8 * n /\ CoilBytes(q) = n
  BY ONLY <1>1, <1>2, q \in Nat DEF CoilBytes
<1>4. 8 * n <= Len(c.values)
  <2>1. Buffer(c) <= Len(c.values) /\ c.address < 65536
    BY CallFields, AddressParts
  <2> QED BY <1>1, <1>2, <2>1 DEF Buffer
<1> QED BY <1>1, <1>3, <1>4

\* registers one by one.
LEMMA RegistersBuffered ==
  ASSUME NEW c \in AllCalls, c.op = "write", Space(c) = 4,
         NEW d, d = SubSeq(c.values, 1, c.quantity)
  PROVE  \A k \in 1 .. c.quantity : d[k] = Device!Value(c, k)
<1>1. PICK q \in Nat : q = c.quantity
  BY CallFields
<1>2. PICK v \in Seq(Word) : v = c.values
  BY CallFields
<1>3. q <= Len(v)
  <2>1. Buffer(c) <= Len(v) /\ ~(c.address < 65536)
    BY <1>2, CallFields, AddressParts
  <2> QED BY <1>1, <2>1 DEF Buffer
<1>4. d = SubSeq(v, 1, q)
  BY <1>1, <1>2
<1>5. \A k \in 1 .. q : d[k] = v[k]
  BY ONLY <1>3, <1>4, Buffered, v \in Seq(Word), q \in Nat
<1> QED BY <1>1, <1>2, <1>5 DEF Device!Value

\* A write of several elements that passes the checks is in the table.
LEMMA WriteChecked ==
  ASSUME NEW a \in Nat, NEW q \in Nat, NEW limit \in Nat, q <= limit, NEW n \in Nat,
         NEW p, p.count = n, p.rx_count = sizeof_write + n, NEW t \in Tables
  PROVE  \/ WriteError(t, a, q, limit, n, p, sizeof_write) \in Exception
         \/ /\ WriteError(t, a, q, limit, n, p, sizeof_write) = 0
            /\ q > 0 /\ a + q <= Size[t] /\ t \in Writable
<1>1. Size[t] \in Nat
  BY TableSizes
<1> QED BY <1>1, Exceptions DEF WriteError

\* Several coils,
LEMMA WriteBits ==
  ASSUME IsMemory(mem), NEW c \in AllCalls, c.op = "write", Space(c) = 0, c.quantity <= 1968,
         NEW p, p.address = Start(c), p.quantity = c.quantity,
         p.count = CoilBytes(c.quantity), p.rx_count = sizeof_write + p.count,
         \A k \in 1 .. c.quantity : p.data[k] = Device!Value(c, k),
         NEW s \in CallbackResults, NEW o, o = mb_slave_write_bits(mem, "coils", p, s)
  PROVE  Failed(o) \/ Performed(c, o)
<1>1. PICK t \in Tables : t = "coils"
  BY DEF Tables
<1>2. PICK q \in Nat : q = c.quantity /\ q <= 1968
  BY CallFields
<1>3. PICK n \in Nat : n = NumBytes(q) /\ n = CoilBytes(q)
  <2>1. q <= 2000
    BY <1>2
  <2> QED BY ONLY <2>1, BytesOfBits, q \in Nat
<1>4. Device!TableOf(c) = t /\ q = Device!Quantity(c) /\ Start(c) \in Nat
  BY <1>1, <1>2, TableOfSpace, AddressParts DEF Device!Quantity
<1>5. PICK d : d = p.data
  OBVIOUS
<1>6. PICK error : error = WriteError(t, Start(c), q, 1968, n, p, sizeof_write)
  OBVIOUS
<1>7. PICK b : b = sizeof_write + n
  OBVIOUS
<1>8. o = IF error # 0 THEN Return(mem, error)
          ELSE Write(mem, t, Start(c), q, d, b, sizeof_write_response, s)
  <2>1. o = mb_slave_write_bits(mem, t, p, s)
    BY <1>1
  <2>2. p.address = Start(c) /\ p.quantity = q /\ d = p.data
    BY <1>2, <1>5
  <2>3. error = WriteError(t, p.address, p.quantity, 1968, NumBytes(p.quantity), p, sizeof_write)
    <3>1. PICK N : N = 1968
      OBVIOUS
    <3>2. error = WriteError(t, Start(c), q, N, n, p, sizeof_write)
      BY <1>6, <3>1
    <3>3. error = WriteError(t, p.address, p.quantity, N, NumBytes(p.quantity), p, sizeof_write)
      BY ONLY <1>3, <2>2, <3>2, Zenon
    <3> QED BY <3>1, <3>3
  <2>4. b = sizeof_write + NumBytes(p.quantity)
    BY ONLY <1>3, <1>7, <2>2
  <2>5. o = IF error # 0 THEN Return(mem, error)
            ELSE Write(mem, t, p.address, p.quantity, p.data, b, sizeof_write_response, s)
    BY ONLY <2>1, <2>3, <2>4 DEF mb_slave_write_bits
  <2> QED BY ONLY <2>2, <2>5
<1>9. p.count = n /\ p.rx_count = sizeof_write + n
  BY <1>2, <1>3
<1>10. \/ error \in Exception
       \/ error = 0 /\ q > 0 /\ Start(c) + q <= Size[t] /\ t \in Writable
  BY ONLY <1>2, <1>4, <1>6, <1>9, WriteChecked, t \in Tables, q \in Nat, n \in Nat,
          1968 \in Nat
<1>11. sizeof_write_response \in Nat
  BY DEF sizeof_write_response
<1>12. \A k \in 1 .. q : d[k] = Device!Value(c, k)
  BY <1>2, <1>5
<1>13. CASE error # 0
  BY <1>8, <1>10, <1>13, ReturnFails
<1>14. CASE error = 0
  <2>1. o = Write(mem, t, Start(c), q, d, b, sizeof_write_response, s)
    BY <1>8, <1>14
  <2>2. q > 0 /\ Start(c) + q <= Size[t] /\ t \in Writable
    BY <1>10, <1>14, NoException
  <2> QED BY <1>4, <1>11, <1>12, <2>1, <2>2, WriteDone
<1> QED BY <1>13, <1>14

\* several registers,
LEMMA WriteRegisters ==
  ASSUME IsMemory(mem), NEW c \in AllCalls, c.op = "write", Space(c) = 4, c.quantity <= 123,
         NEW p, p.address = Start(c), p.quantity = c.quantity,
         p.count = 2 * c.quantity, p.rx_count = sizeof_write + p.count,
         \A k \in 1 .. c.quantity : p.data[k] = Device!Value(c, k),
         NEW s \in CallbackResults,
         NEW o, o = mb_slave_write_registers(mem, "holding_registers", p, s)
  PROVE  Failed(o) \/ Performed(c, o)
<1>1. PICK t \in Tables : t = "holding_registers"
  BY DEF Tables
<1>2. PICK q \in Nat : q = c.quantity /\ q <= 123
  BY CallFields
<1>3. PICK n \in Nat : n = 2 * q
  OBVIOUS
<1>4. Device!TableOf(c) = t /\ q = Device!Quantity(c) /\ Start(c) \in Nat
  BY <1>1, <1>2, TableOfSpace, AddressParts DEF Device!Quantity
<1>5. PICK d : d = p.data
  OBVIOUS
<1>6. PICK error : error = WriteError(t, Start(c), q, 123, n, p, sizeof_write)
  OBVIOUS
<1>7. PICK b : b = sizeof_write + n
  OBVIOUS
<1>8. o = IF error # 0 THEN Return(mem, error)
          ELSE Write(mem, t, Start(c), q, d, b, sizeof_write_response, s)
  <2>1. o = mb_slave_write_registers(mem, t, p, s)
    BY <1>1
  <2>2. p.address = Start(c) /\ p.quantity = q /\ d = p.data
    BY <1>2, <1>5
  <2> QED BY ONLY <1>3, <1>6, <1>7, <2>1, <2>2 DEF mb_slave_write_registers
<1>9. p.count = n /\ p.rx_count = sizeof_write + n
  BY <1>2, <1>3
<1>10. \/ error \in Exception
       \/ error = 0 /\ q > 0 /\ Start(c) + q <= Size[t] /\ t \in Writable
  BY ONLY <1>2, <1>4, <1>6, <1>9, WriteChecked, t \in Tables, q \in Nat, n \in Nat,
          123 \in Nat
<1>11. sizeof_write_response \in Nat
  BY DEF sizeof_write_response
<1>12. \A k \in 1 .. q : d[k] = Device!Value(c, k)
  BY <1>2, <1>5
<1>13. CASE error # 0
  BY <1>8, <1>10, <1>13, ReturnFails
<1>14. CASE error = 0
  <2>1. o = Write(mem, t, Start(c), q, d, b, sizeof_write_response, s)
    BY <1>8, <1>14
  <2>2. q > 0 /\ Start(c) + q <= Size[t] /\ t \in Writable
    BY <1>10, <1>14, NoException
  <2> QED BY <1>4, <1>11, <1>12, <2>1, <2>2, WriteDone
<1> QED BY <1>13, <1>14

\* A write of one element that passes the checks is in the table.
LEMMA SingleChecked ==
  ASSUME NEW a \in Nat, NEW t \in Tables
  PROVE  \/ SingleError(t, a) \in Exception
         \/ SingleError(t, a) = 0 /\ a + 1 <= Size[t] /\ t \in Writable
<1>1. Size[t] \in Nat
  BY TableSizes
<1> QED BY <1>1, Exceptions DEF SingleError

\* One element of a table.
LEMMA WriteOne ==
  ASSUME IsMemory(mem), NEW c \in AllCalls, c.op = "write_single",
         NEW t \in Tables, Device!TableOf(c) = t, NEW x, x = Device!Value(c, 1),
         NEW error, error = SingleError(t, Start(c)), NEW s \in CallbackResults, NEW o,
         o = IF error # 0 THEN Return(mem, error)
             ELSE Write(mem, t, Start(c), 1, <<x>>, sizeof_write_single,
                        sizeof_write_single, s)
  PROVE  Failed(o) \/ Performed(c, o)
<1>1. Start(c) \in Nat /\ Device!Quantity(c) = 1
  BY AddressParts DEF Device!Quantity
<1>2. \/ error \in Exception
      \/ error = 0 /\ Start(c) + 1 <= Size[t] /\ t \in Writable
  BY <1>1, SingleChecked
<1>3. CASE error # 0
  BY <1>2, <1>3, ReturnFails
<1>4. CASE error = 0
  <2>1. PICK d : d = <<x>>
    OBVIOUS
  <2>2. \A k \in 1 .. 1 : d[k] = Device!Value(c, k)
    BY <2>1
  <2>3. PICK n \in Nat : n = sizeof_write_single
    BY DEF sizeof_write_single
  <2>4. o = Write(mem, t, Start(c), 1, d, n, n, s)
    BY <1>4, <2>1, <2>3
  <2>5. 1 > 0 /\ Start(c) + 1 <= Size[t] /\ t \in Writable
    BY <1>2, <1>4, NoException
  <2> QED BY <1>1, <2>2, <2>4, <2>5, WriteDone
<1> QED BY <1>3, <1>4

\* one coil,
LEMMA WriteBit ==
  ASSUME IsMemory(mem), NEW c \in AllCalls, c.op = "write_single", Space(c) = 0,
         NEW p, p.address = Start(c), p.quantity = IF c.values[1] # 0 THEN 65280 ELSE 0,
         NEW s \in CallbackResults, NEW o, o = mb_slave_write_bit(mem, "coils", p, s)
  PROVE  Failed(o) \/ Performed(c, o)
<1>1. PICK t \in Tables : t = "coils"
  BY DEF Tables
<1>2. Device!TableOf(c) = t /\ Device!IsBits(c)
  BY <1>1, TableOfSpace
<1>3. PICK x : x = IF c.values[1] # 0 THEN 1 ELSE 0
  OBVIOUS
<1>4. x = Device!Value(c, 1)
  BY <1>2, <1>3 DEF Device!Value
<1>5. PICK error : error = SingleError(t, Start(c))
  OBVIOUS
<1>6. p.quantity \in {0, 65280} /\ (IF p.quantity = 65280 THEN 1 ELSE 0) = x
  BY <1>3
<1>7. o = IF error # 0 THEN Return(mem, error)
          ELSE Write(mem, t, Start(c), 1, <<x>>, sizeof_write_single, sizeof_write_single, s)
  BY <1>1, <1>5, <1>6 DEF mb_slave_write_bit
<1> QED BY <1>2, <1>4, <1>5, <1>7, WriteOne

\* and one register.
LEMMA WriteRegister ==
  ASSUME IsMemory(mem), NEW c \in AllCalls, c.op = "write_single", Space(c) = 4,
         NEW p, p.address = Start(c), p.quantity = c.values[1],
         NEW s \in CallbackResults,
         NEW o, o = mb_slave_write_register(mem, "holding_registers", p, s)
  PROVE  Failed(o) \/ Performed(c, o)
<1>1. PICK t \in Tables : t = "holding_registers"
  BY DEF Tables
<1>2. Device!TableOf(c) = t /\ ~Device!IsBits(c)
  BY <1>1, TableOfSpace
<1>3. PICK x : x = c.values[1]
  OBVIOUS
<1>4. x = Device!Value(c, 1)
  BY <1>2, <1>3 DEF Device!Value
<1>5. PICK error : error = SingleError(t, Start(c))
  OBVIOUS
<1>6. o = IF error # 0 THEN Return(mem, error)
          ELSE Write(mem, t, Start(c), 1, <<x>>, sizeof_write_single, sizeof_write_single, s)
  BY <1>1, <1>3, <1>5 DEF mb_slave_write_register
<1> QED BY <1>2, <1>4, <1>5, <1>6, WriteOne

\* A loopback returns as many bytes as it got.
LEMMA Loopback ==
  ASSUME NEW c \in AllCalls, c.op = "loopback",
         NEW p, p.address = PDU_DIAG_LOOPBACK, p.rx_count = 3 + c.quantity,
         NEW o, o = mb_slave_diagnostics(mem, p)
  PROVE  Performed(c, o)
<1>1. o = Return(mem, 3 + c.quantity)
  BY DEF mb_slave_diagnostics
<1>2. o.tx = 3 + c.quantity /\ o.mem = mem /\ o.data = <<>>
  BY <1>1, OutcomeFields DEF Return
<1>3. o.tx \in Nat
  BY <1>2, CallFields
<1> QED BY <1>2, <1>3 DEF Performed, Device!Possible

\* The switch finds the handler of each function.
LEMMA Dispatch ==
  ASSUME NEW p, NEW bc, NEW s, NEW g, NEW v
  PROVE  /\ p.function = PDU_READ_COILS /\ ~bc =>
              Handle(mem, p, bc, s, g, v) = mb_slave_read_bits(mem, "coils", p, g)
         /\ p.function = PDU_READ_INPUTS /\ ~bc =>
              Handle(mem, p, bc, s, g, v) = mb_slave_read_bits(mem, "inputs", p, g)
         /\ p.function = PDU_READ_INPUT_REGISTERS /\ ~bc =>
              Handle(mem, p, bc, s, g, v) = mb_slave_read_registers(mem, "input_registers", p, g)
         /\ p.function = PDU_READ_HOLDING_REGISTERS /\ ~bc =>
              Handle(mem, p, bc, s, g, v) = mb_slave_read_registers(mem, "holding_registers", p, g)
         /\ p.function = PDU_WRITE_COIL =>
              Handle(mem, p, bc, s, g, v) = mb_slave_write_bit(mem, "coils", p, s)
         /\ p.function = PDU_WRITE_HOLDING_REGISTER =>
              Handle(mem, p, bc, s, g, v) = mb_slave_write_register(mem, "holding_registers", p, s)
         /\ p.function = PDU_WRITE_COILS =>
              Handle(mem, p, bc, s, g, v) = mb_slave_write_bits(mem, "coils", p, s)
         /\ p.function = PDU_WRITE_HOLDING_REGISTERS =>
              Handle(mem, p, bc, s, g, v) = mb_slave_write_registers(mem, "holding_registers", p, s)
         /\ p.function = PDU_DIAGNOSTICS =>
              Handle(mem, p, bc, s, g, v) = mb_slave_diagnostics(mem, p)
BY DEF Handle, PDU_READ_COILS, PDU_READ_INPUTS, PDU_READ_INPUT_REGISTERS,
         PDU_READ_HOLDING_REGISTERS, PDU_WRITE_COIL, PDU_WRITE_HOLDING_REGISTER,
         PDU_WRITE_COILS, PDU_WRITE_HOLDING_REGISTERS, PDU_DIAGNOSTICS,
         PDU_READ_WRITE_HOLDING_REGISTERS

\* A request of the master makes the slave fail, without any effect, or do
\* exactly what the call asks of the device.
LEMMA HandlePerforms ==
  ASSUME IsMemory(mem), NEW c \in Sendable, NEW s \in CallbackResults,
         NEW g \in CallbackResults, NEW v, NEW o,
         o = Handle(mem, RequestOf(c), c.slave = 0, s, g, v)
  PROVE  Failed(o) \/ Performed(c, o)
<1>1. c \in AllCalls /\ RequestOf(c) # Refused
  BY DEF Sendable
<1>2. c.op \in Ops
  BY <1>1, CallFields
<1>3. PICK p : p = RequestOf(c)
  OBVIOUS
<1>4. PICK bc \in BOOLEAN : bc = (c.slave = 0)
  OBVIOUS
<1>5. o = Handle(mem, p, bc, s, g, v)
  BY <1>3, <1>4
<1>6. {"coils", "inputs", "holding_registers", "input_registers"} \subseteq Tables
  BY DEF Tables
<1>7. CASE c.op = "read"
  <2>1. ~bc /\ p.address = Start(c) /\ p.quantity = c.quantity
    BY <1>1, <1>3, <1>4, <1>7, ReadRequests
  <2>2. CASE Space(c) = 0 /\ p.function = PDU_READ_COILS /\ c.quantity <= 2000
    <3>1. o = mb_slave_read_bits(mem, "coils", p, g)
      BY <1>5, <2>1, <2>2, Dispatch
    <3> QED BY <1>1, <1>6, <1>7, <2>1, <2>2, <3>1, TableOfSpace, ReadBits
  <2>3. CASE Space(c) = 1 /\ p.function = PDU_READ_INPUTS /\ c.quantity <= 2000
    <3>1. o = mb_slave_read_bits(mem, "inputs", p, g)
      BY <1>5, <2>1, <2>3, Dispatch
    <3> QED BY <1>1, <1>6, <1>7, <2>1, <2>3, <3>1, TableOfSpace, ReadBits
  <2>4. CASE Space(c) = 3 /\ p.function = PDU_READ_INPUT_REGISTERS /\ c.quantity <= 125
    <3>1. o = mb_slave_read_registers(mem, "input_registers", p, g)
      BY <1>5, <2>1, <2>4, Dispatch
    <3> QED BY <1>1, <1>6, <1>7, <2>1, <2>4, <3>1, TableOfSpace, ReadRegisters
  <2>5. CASE Space(c) = 4 /\ p.function = PDU_READ_HOLDING_REGISTERS /\ c.quantity <= 125
    <3>1. o = mb_slave_read_registers(mem, "holding_registers", p, g)
      BY <1>5, <2>1, <2>5, Dispatch
    <3> QED BY <1>1, <1>6, <1>7, <2>1, <2>5, <3>1, TableOfSpace, ReadRegisters
  <2> QED BY <1>1, <1>3, <1>7, <2>2, <2>3, <2>4, <2>5, ReadRequests
<1>8. CASE c.op = "write"
  <2>1. /\ p.address = Start(c) /\ p.quantity = c.quantity
        /\ p.rx_count = sizeof_write + p.count
    BY <1>1, <1>3, <1>8, WriteRequests
  <2>2. CASE /\ Space(c) = 0 /\ p.function = PDU_WRITE_COILS
             /\ c.quantity <= 1968 /\ p.count = CoilBytes(c.quantity)
             /\ p.data = SubSeq(c.values, 1, 8 * CoilBytes(c.quantity))
    <3>1. o = mb_slave_write_bits(mem, "coils", p, s)
      BY ONLY <1>5, <2>2, Dispatch
    <3>2. PICK w \in Nat : /\ w = 8 * CoilBytes(c.quantity)
                           /\ w <= Len(c.values) /\ c.quantity <= w
      BY <1>1, <1>8, <2>2, CoilsBuffered
    <3>3. PICK x \in Seq(Word) : x = c.values
      BY <1>1, CallFields
    <3>4. PICK d : d = SubSeq(x, 1, w)
      OBVIOUS
    <3>5. \A k \in 1 .. c.quantity : d[k] = Device!Value(c, k)
      <4>1. \A k \in 1 .. w : d[k] = x[k]
        BY ONLY <3>2, <3>4, Buffered, x \in Seq(Word), w \in Nat
      <4>2. \A k \in 1 .. c.quantity : k \in 1 .. w
        BY <1>1, <3>2, CallFields
      <4>3. \A k \in 1 .. c.quantity : d[k] = x[k]
        BY ONLY <4>1, <4>2
      <4> QED BY ONLY <1>8, <3>3, <4>3 DEF Device!Value
    <3>6. p.data = d /\ Space(c) = 0 /\ c.quantity <= 1968 /\ p.count = CoilBytes(c.quantity)
      BY <2>2, <3>2, <3>3, <3>4
    <3> QED BY ONLY <1>1, <1>8, <2>1, <3>1, <3>5, <3>6, WriteBits, IsMemory(mem),
                    s \in CallbackResults
  <2>3. CASE /\ Space(c) = 4 /\ p.function = PDU_WRITE_HOLDING_REGISTERS
             /\ c.quantity <= 123 /\ p.count = 2 * c.quantity
             /\ p.data = SubSeq(c.values, 1, c.quantity)
    <3>1. o = mb_slave_write_registers(mem, "holding_registers", p, s)
      BY ONLY <1>5, <2>3, Dispatch
    <3>2. PICK d : d = SubSeq(c.values, 1, c.quantity)
      OBVIOUS
    <3>3. \A k \in 1 .. c.quantity : d[k] = Device!Value(c, k)
      BY <1>1, <1>8, <2>3, <3>2, RegistersBuffered
    <3>4. p.data = d /\ Space(c) = 4 /\ c.quantity <= 123 /\ p.count = 2 * c.quantity
      BY <2>3, <3>2
    <3> QED BY ONLY <1>1, <1>8, <2>1, <3>1, <3>3, <3>4, WriteRegisters, IsMemory(mem),
                    s \in CallbackResults
  <2> QED BY <1>1, <1>3, <1>8, <2>2, <2>3, WriteRequests
<1>9. CASE c.op = "write_single"
  <2>1. p.address = Start(c)
    BY <1>1, <1>3, <1>9, SingleRequests
  <2>2. CASE /\ Space(c) = 0 /\ p.function = PDU_WRITE_COIL
             /\ p.quantity = IF c.values[1] # 0 THEN 65280 ELSE 0
    <3>1. o = mb_slave_write_bit(mem, "coils", p, s)
      BY <1>5, <2>2, Dispatch
    <3> QED BY <1>1, <1>9, <2>1, <2>2, <3>1, WriteBit
  <2>3. CASE /\ Space(c) = 4 /\ p.function = PDU_WRITE_HOLDING_REGISTER
             /\ p.quantity = c.values[1]
    <3>1. o = mb_slave_write_register(mem, "holding_registers", p, s)
      BY <1>5, <2>3, Dispatch
    <3> QED BY <1>1, <1>9, <2>1, <2>3, <3>1, WriteRegister
  <2> QED BY <1>1, <1>3, <1>9, <2>2, <2>3, SingleRequests
<1>10. CASE c.op = "loopback"
  <2>1. /\ p.function = PDU_DIAGNOSTICS /\ p.address = PDU_DIAG_LOOPBACK
        /\ p.rx_count = 3 + c.quantity
    BY <1>1, <1>3, <1>10, LoopbackRequests
  <2>2. o = mb_slave_diagnostics(mem, p)
    BY <1>5, <2>1, Dispatch
  <2> QED BY <1>1, <1>10, <2>1, <2>2, Loopback
<1> QED BY <1>2, <1>7, <1>8, <1>9, <1>10 DEF Ops

------------------------------------------------------------------------------
(* What the state holds. *)

\* The values a write takes from its buffer are words.
LEMMA ValuesAreWords ==
  ASSUME NEW c \in Sendable, c.op \in {"write", "write_single"}
  PROVE  /\ Device!Quantity(c) \in Nat
         /\ \A k \in 1 .. Device!Quantity(c) : c.values[k] \in Word /\ Device!Value(c, k) \in Word
<1>1. c \in AllCalls /\ RequestOf(c) # Refused
  BY DEF Sendable
<1>2. PICK v \in Seq(Word) : v = c.values /\ Buffer(c) <= Len(v)
  BY <1>1, CallFields
<1>3. PICK q \in Nat : q = Device!Quantity(c)
  BY <1>1, CallFields DEF Device!Quantity
<1>4. q <= Len(v)
  <2>1. CASE c.op = "write_single"
    BY <1>2, <1>3, <2>1 DEF Device!Quantity, Buffer
  <2>2. CASE c.op = "write"
    <3>1. q = c.quantity
      BY <1>3, <2>2 DEF Device!Quantity
    <3>2. (IF c.address < 65536 THEN 8 * ((q + 7) \div 8) ELSE q) <= Len(v)
      BY <1>2, <2>2, <3>1 DEF Buffer
    <3>3. Len(v) \in Nat /\ q <= 8 * ((q + 7) \div 8) /\ (q + 7) \div 8 \in Nat
      OBVIOUS
    <3>4. PICK w \in Nat : w = 8 * ((q + 7) \div 8)
      BY <3>3
    <3> QED BY ONLY <3>2, <3>3, <3>4, q \in Nat
  <2> QED BY <2>1, <2>2
<1>5. \A k \in 1 .. q : v[k] \in Word
  <2>1. \A k \in 1 .. Len(v) : v[k] \in Word
    OBVIOUS
  <2> QED BY <1>4, <2>1
<1>6. 1 \in Word
  BY DEF Word
<1> QED BY <1>2, <1>3, <1>5, <1>6 DEF Device!Value

\* The call that is performed leaves tables of words.
LEMMA WrittenMemory ==
  ASSUME IsMemory(mem), NEW c \in Sendable, c.op \in {"write", "write_single"}
  PROVE  IsMemory(Device!Written(c))
<1>1. PICK t : t = Device!TableOf(c)
  OBVIOUS
<1>2. PICK q \in Nat : q = Device!Quantity(c) /\ \A k \in 1 .. q : Device!Value(c, k) \in Word
  BY ValuesAreWords
<1>3. PICK a \in Int : a = Device!First(c)
  BY AddressParts DEF Sendable
<1>4. PICK put : put = [x \in DOMAIN mem[t] |-> IF x - a \in 0 .. q - 1
                                                THEN Device!Value(c, x - a + 1) ELSE mem[t][x]]
  OBVIOUS
<1>5. Device!Written(c) = [mem EXCEPT ![t] = put]
  BY <1>1, <1>2, <1>3, <1>4 DEF Device!Written
<1>6. ASSUME t \in Tables
      PROVE  put \in [0 .. Size[t] - 1 -> Word]
  <2>1. mem[t] \in [0 .. Size[t] - 1 -> Word] /\ Size[t] \in Nat
    BY <1>6, TableSizes DEF IsMemory
  <2>2. ASSUME NEW x \in 0 .. Size[t] - 1
        PROVE  (IF x - a \in 0 .. q - 1 THEN Device!Value(c, x - a + 1) ELSE mem[t][x]) \in Word
    <3>1. CASE x - a \in 0 .. q - 1
      <4>1. x - a + 1 \in 1 .. q
        BY <3>1, <2>1
      <4> QED BY <1>2, <3>1, <4>1
    <3>2. CASE x - a \notin 0 .. q - 1
      BY <2>1, <3>2
    <3> QED BY <3>1, <3>2
  <2>3. DOMAIN mem[t] = 0 .. Size[t] - 1
    BY <2>1
  <2> QED BY <1>4, <2>2, <2>3
<1>7. mem = [u \in Tables |-> mem[u]] /\ \A u \in Tables : mem[u] \in [0 .. Size[u] - 1 -> Word]
  BY DEF IsMemory
<1>8. PICK new : new = [mem EXCEPT ![t] = put]
  OBVIOUS
<1>9. new = [u \in Tables |-> new[u]]
  BY <1>7, <1>8
<1>10. \A u \in Tables : new[u] \in [0 .. Size[u] - 1 -> Word]
  <2>1. \A u \in Tables : new[u] = IF u = t THEN put ELSE mem[u]
    BY <1>7, <1>8
  <2> QED BY <1>6, <1>7, <2>1
<1> QED BY <1>5, <1>8, <1>9, <1>10 DEF IsMemory

\* What a read returns is words.
LEMMA ContainedWords ==
  ASSUME IsMemory(mem), NEW c \in Sendable, c.op = "read", Device!Possible(c)
  PROVE  Device!Contained(c) \in Seq(Word)
<1>1. c \in AllCalls /\ RequestOf(c) # Refused
  BY DEF Sendable
<1>2. PICK t \in Tables : t = Device!TableOf(c)
  BY <1>1, ReadRequests, TableOfSpace DEF Tables
<1>3. PICK q \in Nat : q = c.quantity
  BY <1>1, CallFields
<1>4. PICK a \in Int : a = Device!First(c) /\ a >= 0 /\ a + q <= Size[t]
  BY <1>1, <1>2, <1>3, AddressParts DEF Device!Possible, Device!Quantity
<1>5. PICK n \in Nat : n = IF Device!IsBits(c) THEN 8 * ((q + 7) \div 8) ELSE q
  OBVIOUS
<1>6. PICK d : d = [k \in 1 .. n |-> IF k <= q THEN mem[t][a + k - 1] ELSE 0]
  OBVIOUS
<1>7. d = Device!Contained(c)
  BY <1>2, <1>3, <1>4, <1>5, <1>6 DEF Device!Contained
<1>8. Size[t] \in Nat /\ mem[t] \in [0 .. Size[t] - 1 -> Word] /\ 0 \in Word
  <2>1. 0 \in Word
    BY DEF Word
  <2> QED BY <2>1, TableSizes DEF IsMemory
<1>9. ASSUME NEW k \in 1 .. n
      PROVE  (IF k <= q THEN mem[t][a + k - 1] ELSE 0) \in Word
  <2>1. CASE k <= q
    <3>1. a + k - 1 \in 0 .. Size[t] - 1
      BY <1>4, <1>8, <2>1
    <3> QED BY <1>8, <2>1, <3>1
  <2>2. CASE ~(k <= q)
    BY <1>8, <2>2
  <2> QED BY <2>1, <2>2
<1>10. d \in [1 .. n -> Word]
  BY <1>6, <1>9
<1>11. d \in Seq(Word)
  BY <1>10
<1> QED BY <1>7, <1>11

\* What is on its way to the slave: calls with their requests.
Requests == {[call |-> c, pdu |-> RequestOf(c)] : c \in Sendable}

\* What is on its way back: the exception bit goes with an exception code.
Responses == {r \in [function : Nat, code : 0 .. 4, data : Seq(Word), size : Nat] :
                \/ r.code = 0 /\ r.function \in Functions
                \/ r.code # 0 /\ r.data = <<>> /\ r.function \in {f + 128 : f \in Functions}}

TypeInv ==
  /\ IsMemory(mem)
  /\ pc \in {"idle", "wait"}
  /\ call \in AllCalls
  /\ toSlave \in Seq(Requests)
  /\ fromSlave \in Seq(Responses)

\* A failure is answered with an exception,
LEMMA FailureResponse ==
  ASSUME NEW c \in Sendable, NEW o, Failed(o), NEW r, r = Response(RequestOf(c), o)
  PROVE  /\ r.code = -o.tx /\ r.code \in 1 .. 4 /\ r.data = <<>>
         /\ r.function = RequestOf(c).function + 128 /\ r \in Responses
<1>1. PICK f : f = RequestOf(c).function
  OBVIOUS
<1>2. f \in Functions
  BY <1>1, RequestLegal DEF Sendable
<1>3. f \in Nat /\ f < 128
  BY <1>2 DEF Functions, PDU_READ_COILS, PDU_READ_INPUTS, PDU_READ_INPUT_REGISTERS,
         PDU_READ_HOLDING_REGISTERS, PDU_WRITE_COIL, PDU_WRITE_HOLDING_REGISTER,
         PDU_WRITE_COILS, PDU_WRITE_HOLDING_REGISTERS, PDU_DIAGNOSTICS
<1>4. o.tx < 0 /\ -o.tx \in 1 .. 4
  BY Exceptions DEF Failed
<1>5. r = [function |-> f + 128, code |-> -o.tx, data |-> <<>>, size |-> 2]
  BY <1>1, <1>3, <1>4 DEF Response, ExceptionFunction, sizeof_exception
<1>6. r.code = -o.tx /\ r.code \in 1 .. 4 /\ r.data = <<>> /\ r.function = f + 128
  BY <1>4, <1>5
<1>7. r \in [function : Nat, code : 0 .. 4, data : Seq(Word), size : Nat]
  <2>1. PICK e \in 0 .. 4, g \in Nat : e = -o.tx /\ g = f + 128
    BY <1>3, <1>4
  <2>2. PICK d \in Seq(Word) : d = <<>>
    BY EmptySeq
  <2>3. r = [function |-> g, code |-> e, data |-> d, size |-> 2]
    BY <1>5, <2>1, <2>2
  <2> QED BY <2>3
<1>8. r \in Responses
  BY <1>2, <1>6, <1>7 DEF Responses
<1> QED BY <1>1, <1>6, <1>8

\* and what was performed with what it gives.
LEMMA PerformedResponse ==
  ASSUME IsMemory(mem), NEW c \in Sendable, NEW o, Performed(c, o),
         NEW r, r = Response(RequestOf(c), o)
  PROVE  /\ r.code = 0 /\ r.function = RequestOf(c).function /\ r.size = o.tx
         /\ r.data = CASE c.op = "read"     -> Device!Contained(c)
                       [] c.op = "loopback" -> c.values
                       [] OTHER             -> <<>>
         /\ r \in Responses
<1>1. PICK p, f : p = RequestOf(c) /\ f = p.function
  OBVIOUS
<1>2. c \in AllCalls /\ p # Refused /\ f \in Functions
  BY <1>1, RequestLegal DEF Sendable
<1>3. c.op \in Ops /\ c.values \in Seq(Word)
  BY <1>2, CallFields
<1>4. PICK n \in Nat : n = o.tx
  BY DEF Performed
<1>5. PICK d : d = IF f = PDU_DIAGNOSTICS THEN p.data ELSE o.data
  OBVIOUS
<1>6. r = [function |-> f, code |-> 0, size |-> n, data |-> d]
  BY <1>1, <1>4, <1>5 DEF Response
<1>7. r.code = 0 /\ r.function = f /\ r.size = n /\ r.data = d
  BY <1>6
<1>8. /\ d = CASE c.op = "read"     -> Device!Contained(c)
               [] c.op = "loopback" -> c.values
               [] OTHER             -> <<>>
      /\ d \in Seq(Word)
  <2>1. CASE c.op = "read"
    <3>1. f # PDU_DIAGNOSTICS
      BY <1>1, <1>2, <2>1, ReadRequests
         DEF PDU_READ_COILS, PDU_READ_INPUTS, PDU_READ_INPUT_REGISTERS,
             PDU_READ_HOLDING_REGISTERS, PDU_DIAGNOSTICS
    <3>2. o.data = Device!Contained(c) /\ Device!Possible(c)
      BY <2>1 DEF Performed
    <3> QED BY <1>5, <2>1, <3>1, <3>2, ContainedWords
  <2>2. CASE c.op = "loopback"
    <3>1. f = PDU_DIAGNOSTICS /\ p.data = c.values
      BY <1>1, <1>2, <2>2, LoopbackRequests
    <3> QED BY <1>3, <1>5, <2>2, <3>1
  <2>3. CASE c.op \in {"write", "write_single"}
    <3>1. f # PDU_DIAGNOSTICS
      <4>1. CASE c.op = "write"
        BY <1>1, <1>2, <4>1, WriteRequests
           DEF PDU_WRITE_COILS, PDU_WRITE_HOLDING_REGISTERS, PDU_DIAGNOSTICS
      <4>2. CASE c.op = "write_single"
        BY <1>1, <1>2, <4>2, SingleRequests
           DEF PDU_WRITE_COIL, PDU_WRITE_HOLDING_REGISTER, PDU_DIAGNOSTICS
      <4> QED BY <2>3, <4>1, <4>2
    <3>2. o.data = <<>>
      BY <2>3 DEF Performed
    <3> QED BY <1>5, <2>3, <3>1, <3>2
  <2> QED BY <1>3, <2>1, <2>2, <2>3 DEF Ops
<1>9. f \in Nat
  BY <1>2 DEF Functions, PDU_READ_COILS, PDU_READ_INPUTS, PDU_READ_INPUT_REGISTERS,
         PDU_READ_HOLDING_REGISTERS, PDU_WRITE_COIL, PDU_WRITE_HOLDING_REGISTER,
         PDU_WRITE_COILS, PDU_WRITE_HOLDING_REGISTERS, PDU_DIAGNOSTICS
<1>10. r \in [function : Nat, code : 0 .. 4, data : Seq(Word), size : Nat]
  BY <1>6, <1>8, <1>9
<1>11. r \in Responses
  BY <1>2, <1>7, <1>10 DEF Responses
<1> QED BY <1>1, <1>4, <1>7, <1>8, <1>11

\* What Serve does to the oldest request.
LEMMA Served ==
  ASSUME TypeInv, Serve
  PROVE  \E c \in Sendable :
           /\ toSlave # <<>> /\ c = Head(toSlave).call /\ toSlave' = Tail(toSlave)
           /\ UNCHANGED <<pc, call, result, calls, before, clean>>
           /\ \/ c.slave \notin {0, Me} /\ UNCHANGED <<mem, fromSlave>>
              \/ /\ c.slave \in {0, Me}
                 /\ \E o : /\ Failed(o) \/ Performed(c, o)
                           /\ mem' = o.mem
                           /\ fromSlave' = IF c.slave = 0 THEN fromSlave
                                           ELSE Append(fromSlave, Response(RequestOf(c), o))
<1>1. toSlave # <<>> /\ toSlave \in Seq(Requests) /\ IsMemory(mem)
  BY DEF TypeInv, Serve
<1>2. PICK r \in Requests : r = Head(toSlave)
  BY <1>1, HeadTailProperties
<1>3. PICK c \in Sendable : r = [call |-> c, pdu |-> RequestOf(c)]
  BY DEF Requests
<1>4. r.call = c /\ r.pdu = RequestOf(c)
  BY <1>3
<1>5. /\ toSlave' = Tail(toSlave)
      /\ UNCHANGED <<pc, call, result, calls, before, clean>>
  BY DEF Serve
<1>6. CASE c.slave \notin {0, Me}
  <2>1. UNCHANGED <<mem, fromSlave>>
    BY <1>2, <1>4, <1>6 DEF Serve
  <2> QED BY <1>1, <1>2, <1>4, <1>5, <1>6, <2>1
<1>7. CASE c.slave \in {0, Me}
  <2>1. PICK s \in CallbackResults, g \in CallbackResults, v \in Results(RequestOf(c)) :
          LET o == Handle(mem, RequestOf(c), c.slave = 0, s, g, v)
          IN  /\ mem' = o.mem
              /\ fromSlave' = IF c.slave = 0 THEN fromSlave
                              ELSE Append(fromSlave, Response(RequestOf(c), o))
    BY <1>2, <1>4, <1>7 DEF Serve
  <2>2. PICK o : o = Handle(mem, RequestOf(c), c.slave = 0, s, g, v)
    OBVIOUS
  <2>3. Failed(o) \/ Performed(c, o)
    BY <1>1, <2>2, HandlePerforms
  <2>4. /\ mem' = o.mem
        /\ fromSlave' = IF c.slave = 0 THEN fromSlave
                        ELSE Append(fromSlave, Response(RequestOf(c), o))
    BY <2>1, <2>2
  <2> QED BY <1>1, <1>2, <1>4, <1>5, <1>7, <2>3, <2>4
<1> QED BY <1>6, <1>7

\* The outcome of a request is tables and a response.
LEMMA OutcomeTypes ==
  ASSUME IsMemory(mem), NEW c \in Sendable, NEW o, Failed(o) \/ Performed(c, o)
  PROVE  IsMemory(o.mem) /\ Response(RequestOf(c), o) \in Responses
<1>1. CASE Failed(o)
  BY <1>1, FailureResponse DEF Failed
<1>2. CASE Performed(c, o)
  <2>1. IsMemory(o.mem)
    BY <1>2, WrittenMemory DEF Performed
  <2> QED BY <1>2, <2>1, PerformedResponse
<1> QED BY <1>1, <1>2

\* The tables start with words.
LEMMA InitialMemory == IsMemory(Contents)
<1>1. ASSUME NEW t \in Tables, NEW x \in 0 .. Size[t] - 1
      PROVE  Initial(t, x) \in Word
  <2>1. PICK n \in Nat : n = Size[t] /\ n <= 65535
    BY TableSizes
  <2>2. x \in Nat /\ x <= 65535
    BY <2>1
  <2>3. PICK y : y = Initial(t, x)
    OBVIOUS
  <2>4. y \in Nat /\ y <= 65535
    <3>1. x % 2 \in 0 .. 1 /\ (x + 1) % 2 \in 0 .. 1
      BY ONLY <2>2
    <3>2. (x + 1000) % 65536 \in Nat /\ (x + 1000) % 65536 <= 65535
      BY ONLY <2>2
    <3> QED BY <2>2, <2>3, <3>1, <3>2 DEF Initial, Tables
  <2>5. y \in Word
    BY ONLY <2>4, IsWord
  <2> QED BY <2>3, <2>5
<1>2. Contents = [t \in Tables |-> Contents[t]]
  BY DEF Contents
<1>3. ASSUME NEW t \in Tables
      PROVE  Contents[t] \in [0 .. Size[t] - 1 -> Word]
  <2>1. Contents[t] = [x \in 0 .. Size[t] - 1 |-> Initial(t, x)]
    BY DEF Contents
  <2> QED BY <1>1, <2>1
<1> QED BY <1>2, <1>3 DEF IsMemory

\* TypeInv holds at first,
LEMMA TypeInit == Init => TypeInv
<1> SUFFICES ASSUME Init
             PROVE  TypeInv
  OBVIOUS
<1>1. call \in AllCalls
  BY CallsAssumption DEF Init, AllCalls
<1>2. toSlave \in Seq(Requests) /\ fromSlave \in Seq(Responses)
  BY EmptySeq DEF Init
<1> QED BY <1>1, <1>2, InitialMemory DEF Init, TypeInv

\* and no step breaks it.
LEMMA TypeStep == TypeInv /\ [Next]_vars => TypeInv'
<1> SUFFICES ASSUME TypeInv, [Next]_vars
             PROVE  TypeInv'
  OBVIOUS
<1> USE DEF TypeInv
<1>1. CASE Begin
  <2>1. PICK c \in AllCalls :
          /\ call' = c
          /\ toSlave' = IF RequestOf(c) = Refused THEN toSlave
                        ELSE Append(toSlave, [call |-> c, pdu |-> RequestOf(c)])
          /\ pc' = IF RequestOf(c) = Refused \/ c.slave = 0 THEN "idle" ELSE "wait"
    BY <1>1 DEF Begin, AllCalls
  <2>2. UNCHANGED <<mem, fromSlave>>
    BY <1>1 DEF Begin
  <2>3. toSlave' \in Seq(Requests)
    <3>1. CASE RequestOf(c) = Refused
      BY <2>1, <3>1
    <3>2. CASE RequestOf(c) # Refused
      <4>1. [call |-> c, pdu |-> RequestOf(c)] \in Requests
        BY <3>2 DEF Requests, Sendable
      <4> QED BY <2>1, <3>2, <4>1, AppendProperties
    <3> QED BY <3>1, <3>2
  <2> QED BY <2>1, <2>2, <2>3
<1>2. CASE Receive
  BY <1>2, HeadTailProperties DEF Receive
<1>3. CASE Timeout
  BY <1>3 DEF Timeout
<1>4. CASE Serve
  <2>1. PICK c \in Sendable :
           /\ toSlave # <<>> /\ toSlave' = Tail(toSlave)
           /\ UNCHANGED <<pc, call>>
           /\ \/ UNCHANGED <<mem, fromSlave>>
              \/ \E o : /\ Failed(o) \/ Performed(c, o)
                        /\ mem' = o.mem
                        /\ fromSlave' = IF c.slave = 0 THEN fromSlave
                                        ELSE Append(fromSlave, Response(RequestOf(c), o))
    BY <1>4, Served
  <2>2. toSlave' \in Seq(Requests)
    BY <2>1, HeadTailProperties
  <2>3. IsMemory(mem') /\ fromSlave' \in Seq(Responses)
    <3>1. CASE UNCHANGED <<mem, fromSlave>>
      BY <3>1
    <3>2. ASSUME NEW o, Failed(o) \/ Performed(c, o), mem' = o.mem,
                 fromSlave' = IF c.slave = 0 THEN fromSlave
                              ELSE Append(fromSlave, Response(RequestOf(c), o))
          PROVE  IsMemory(mem') /\ fromSlave' \in Seq(Responses)
      <4>1. IsMemory(o.mem) /\ Response(RequestOf(c), o) \in Responses
        BY <3>2, OutcomeTypes
      <4> QED BY <3>2, <4>1, AppendProperties
    <3> QED BY <2>1, <3>1, <3>2
  <2> QED BY <2>1, <2>2, <2>3
<1>5. CASE Lose
  BY <1>5, HeadTailProperties DEF Lose
<1>6. CASE UNCHANGED vars
  BY <1>6 DEF vars
<1> QED BY <1>1, <1>2, <1>3, <1>4, <1>5, <1>6 DEF Next

------------------------------------------------------------------------------
(* The refinement mapping: the queues of the link, element by element. *)

CallOf(r)    == r.call
OutcomeOf(r) == [op |-> OpOf(r), error |-> -r.code, data |-> r.data]

Pending(s)  == [k \in DOMAIN s |-> CallOf(s[k])]
Outcomes(s) == [k \in DOMAIN s |-> OutcomeOf(s[k])]

\* Requests on their way stand for calls,
LEMMA PendingSeq ==
  ASSUME NEW S, NEW s \in Seq(S)
  PROVE  /\ Pending(s) \in Seq({CallOf(x) : x \in S}) /\ Len(Pending(s)) = Len(s)
         /\ \A k \in 1 .. Len(s) : Pending(s)[k] = CallOf(s[k])
         /\ Pending(s) = <<>> <=> s = <<>>
<1>1. PICK n \in Nat : n = Len(s)
  OBVIOUS
<1>2. s \in [1 .. n -> S] /\ DOMAIN s = 1 .. n
  BY <1>1
<1>3. PICK m : m = Pending(s)
  OBVIOUS
<1>4. m = [k \in 1 .. n |-> CallOf(s[k])]
  BY <1>2, <1>3 DEF Pending
<1>5. m \in [1 .. n -> {CallOf(x) : x \in S}]
  BY <1>2, <1>4
<1>6. m \in Seq({CallOf(x) : x \in S}) /\ Len(m) = n
  BY <1>5
<1>7. m = <<>> <=> n = 0
  BY <1>6
<1>8. s = <<>> <=> n = 0
  BY <1>1
<1> QED BY <1>1, <1>3, <1>4, <1>6, <1>7, <1>8

\* a request more for a call more,
LEMMA PendingAppend ==
  ASSUME NEW S, NEW s \in Seq(S), NEW e \in S
  PROVE  Pending(Append(s, e)) = Append(Pending(s), CallOf(e))
<1> DEFINE T == {CallOf(x) : x \in S}
<1>1. PICK a \in Seq(S) : a = Append(s, e)
  BY AppendProperties
<1>2. PICK m \in Seq(T) : m = Pending(s)
  BY PendingSeq
<1>3. CallOf(e) \in T
  OBVIOUS
<1>4. PICK l \in Seq(T) : l = Pending(a)
  BY PendingSeq
<1>5. PICK r \in Seq(T) : r = Append(m, CallOf(e))
  BY <1>3, AppendProperties
<1>6. PICK n \in Nat : n = Len(s)
  OBVIOUS
<1>7. Len(a) = n + 1 /\ Len(m) = n /\ Len(l) = n + 1 /\ Len(r) = n + 1
  <2>1. Len(a) = n + 1
    BY <1>1, <1>6
  <2>2. Len(m) = n
    BY <1>2, <1>6, PendingSeq
  <2>3. Len(l) = Len(a)
    BY <1>4, PendingSeq
  <2>4. Len(r) = Len(m) + 1
    BY <1>5
  <2> QED BY <2>1, <2>2, <2>3, <2>4
<1>8. ASSUME NEW k \in 1 .. n + 1
      PROVE  l[k] = r[k]
  <2>1. l[k] = CallOf(a[k])
    BY <1>4, <1>7, PendingSeq
  <2>2. CASE k = n + 1
    BY <1>1, <1>5, <1>6, <1>7, <2>1, <2>2
  <2>3. CASE k # n + 1
    <3>1. k \in 1 .. n
      BY <2>3
    <3>2. a[k] = s[k]
      BY <1>1, <1>6, <3>1
    <3>3. r[k] = m[k]
      BY <1>5, <1>7, <3>1
    <3>4. m[k] = CallOf(s[k])
      BY <1>2, <1>6, <3>1, PendingSeq
    <3> QED BY <2>1, <3>2, <3>3, <3>4
  <2> QED BY <2>2, <2>3
<1>9. l = r
  BY <1>7, <1>8, SeqEqual
<1> QED BY <1>1, <1>2, <1>4, <1>5, <1>9

\* and a request less for a call less.
LEMMA PendingTail ==
  ASSUME NEW S, NEW s \in Seq(S), s # <<>>
  PROVE  /\ Pending(s) # <<>> /\ Head(Pending(s)) = CallOf(Head(s))
         /\ Pending(Tail(s)) = Tail(Pending(s))
<1> DEFINE T == {CallOf(x) : x \in S}
<1>1. PICK a \in Seq(S) : a = Tail(s)
  BY HeadTailProperties
<1>2. PICK m \in Seq(T) : m = Pending(s)
  BY PendingSeq
<1>3. PICK n \in Nat : n = Len(s) /\ n > 0
  OBVIOUS
<1>4. Len(m) = n /\ \A k \in 1 .. n : m[k] = CallOf(s[k])
  BY <1>2, <1>3, PendingSeq
<1>5. m # <<>> /\ Head(m) = CallOf(Head(s))
  <2>1. m # <<>> /\ Head(m) = m[1] /\ Head(s) = s[1]
    BY <1>3, <1>4
  <2> QED BY <1>3, <1>4, <2>1
<1>6. PICK l \in Seq(T) : l = Pending(a)
  BY PendingSeq
<1>7. PICK r \in Seq(T) : r = Tail(m)
  BY <1>5, HeadTailProperties
<1>8. Len(a) = n - 1 /\ Len(l) = n - 1 /\ Len(r) = n - 1
  <2>1. Len(a) = n - 1
    BY <1>1, <1>3
  <2>2. Len(l) = Len(a)
    BY <1>6, PendingSeq
  <2>3. Len(r) = n - 1
    BY <1>3, <1>4, <1>5, <1>7
  <2> QED BY <2>1, <2>2, <2>3
<1>9. ASSUME NEW k \in 1 .. n - 1
      PROVE  l[k] = r[k]
  <2>1. l[k] = CallOf(a[k])
    BY <1>6, <1>8, PendingSeq
  <2>2. a[k] = s[k + 1]
    BY <1>1, <1>8
  <2>3. r[k] = m[k + 1]
    BY <1>5, <1>7, <1>8
  <2>4. k + 1 \in 1 .. n
    BY <1>3
  <2> QED BY <1>4, <2>1, <2>2, <2>3, <2>4
<1>10. l = r
  BY <1>3, <1>8, <1>9, SeqEqual
<1> QED BY <1>1, <1>2, <1>5, <1>6, <1>7, <1>10

\* Responses on their way stand for outcomes,
LEMMA OutcomesSeq ==
  ASSUME NEW S, NEW s \in Seq(S)
  PROVE  /\ Outcomes(s) \in Seq({OutcomeOf(x) : x \in S}) /\ Len(Outcomes(s)) = Len(s)
         /\ \A k \in 1 .. Len(s) : Outcomes(s)[k] = OutcomeOf(s[k])
         /\ Outcomes(s) = <<>> <=> s = <<>>
<1>1. PICK n \in Nat : n = Len(s)
  OBVIOUS
<1>2. s \in [1 .. n -> S] /\ DOMAIN s = 1 .. n
  BY <1>1
<1>3. PICK m : m = Outcomes(s)
  OBVIOUS
<1>4. m = [k \in 1 .. n |-> OutcomeOf(s[k])]
  BY <1>2, <1>3 DEF Outcomes
<1>5. m \in [1 .. n -> {OutcomeOf(x) : x \in S}]
  BY <1>2, <1>4
<1>6. m \in Seq({OutcomeOf(x) : x \in S}) /\ Len(m) = n
  BY <1>5
<1>7. m = <<>> <=> n = 0
  BY <1>6
<1>8. s = <<>> <=> n = 0
  BY <1>1
<1> QED BY <1>1, <1>3, <1>4, <1>6, <1>7, <1>8

\* a response more for an outcome more,
LEMMA OutcomesAppend ==
  ASSUME NEW S, NEW s \in Seq(S), NEW e \in S
  PROVE  Outcomes(Append(s, e)) = Append(Outcomes(s), OutcomeOf(e))
<1> DEFINE T == {OutcomeOf(x) : x \in S}
<1>1. PICK a \in Seq(S) : a = Append(s, e)
  BY AppendProperties
<1>2. PICK m \in Seq(T) : m = Outcomes(s)
  BY OutcomesSeq
<1>3. OutcomeOf(e) \in T
  OBVIOUS
<1>4. PICK l \in Seq(T) : l = Outcomes(a)
  BY OutcomesSeq
<1>5. PICK r \in Seq(T) : r = Append(m, OutcomeOf(e))
  BY <1>3, AppendProperties
<1>6. PICK n \in Nat : n = Len(s)
  OBVIOUS
<1>7. Len(a) = n + 1 /\ Len(m) = n /\ Len(l) = n + 1 /\ Len(r) = n + 1
  <2>1. Len(a) = n + 1
    BY <1>1, <1>6
  <2>2. Len(m) = n
    BY <1>2, <1>6, OutcomesSeq
  <2>3. Len(l) = Len(a)
    BY <1>4, OutcomesSeq
  <2>4. Len(r) = Len(m) + 1
    BY <1>5
  <2> QED BY <2>1, <2>2, <2>3, <2>4
<1>8. ASSUME NEW k \in 1 .. n + 1
      PROVE  l[k] = r[k]
  <2>1. l[k] = OutcomeOf(a[k])
    BY <1>4, <1>7, OutcomesSeq
  <2>2. CASE k = n + 1
    BY <1>1, <1>5, <1>6, <1>7, <2>1, <2>2
  <2>3. CASE k # n + 1
    <3>1. k \in 1 .. n
      BY <2>3
    <3>2. a[k] = s[k]
      BY <1>1, <1>6, <3>1
    <3>3. r[k] = m[k]
      BY <1>5, <1>7, <3>1
    <3>4. m[k] = OutcomeOf(s[k])
      BY <1>2, <1>6, <3>1, OutcomesSeq
    <3> QED BY <2>1, <3>2, <3>3, <3>4
  <2> QED BY <2>2, <2>3
<1>9. l = r
  BY <1>7, <1>8, SeqEqual
<1> QED BY <1>1, <1>2, <1>4, <1>5, <1>9

\* and a response less for an outcome less.
LEMMA OutcomesTail ==
  ASSUME NEW S, NEW s \in Seq(S), s # <<>>
  PROVE  /\ Outcomes(s) # <<>> /\ Head(Outcomes(s)) = OutcomeOf(Head(s))
         /\ Outcomes(Tail(s)) = Tail(Outcomes(s))
<1> DEFINE T == {OutcomeOf(x) : x \in S}
<1>1. PICK a \in Seq(S) : a = Tail(s)
  BY HeadTailProperties
<1>2. PICK m \in Seq(T) : m = Outcomes(s)
  BY OutcomesSeq
<1>3. PICK n \in Nat : n = Len(s) /\ n > 0
  OBVIOUS
<1>4. Len(m) = n /\ \A k \in 1 .. n : m[k] = OutcomeOf(s[k])
  BY <1>2, <1>3, OutcomesSeq
<1>5. m # <<>> /\ Head(m) = OutcomeOf(Head(s))
  <2>1. m # <<>> /\ Head(m) = m[1] /\ Head(s) = s[1]
    BY <1>3, <1>4
  <2> QED BY <1>3, <1>4, <2>1
<1>6. PICK l \in Seq(T) : l = Outcomes(a)
  BY OutcomesSeq
<1>7. PICK r \in Seq(T) : r = Tail(m)
  BY <1>5, HeadTailProperties
<1>8. Len(a) = n - 1 /\ Len(l) = n - 1 /\ Len(r) = n - 1
  <2>1. Len(a) = n - 1
    BY <1>1, <1>3
  <2>2. Len(l) = Len(a)
    BY <1>6, OutcomesSeq
  <2>3. Len(r) = n - 1
    BY <1>3, <1>4, <1>5, <1>7
  <2> QED BY <2>1, <2>2, <2>3
<1>9. ASSUME NEW k \in 1 .. n - 1
      PROVE  l[k] = r[k]
  <2>1. l[k] = OutcomeOf(a[k])
    BY <1>6, <1>8, OutcomesSeq
  <2>2. a[k] = s[k + 1]
    BY <1>1, <1>8
  <2>3. r[k] = m[k + 1]
    BY <1>5, <1>7, <1>8
  <2>4. k + 1 \in 1 .. n
    BY <1>3
  <2> QED BY <1>4, <2>1, <2>2, <2>3, <2>4
<1>10. l = r
  BY <1>3, <1>8, <1>9, SeqEqual
<1> QED BY <1>1, <1>2, <1>5, <1>6, <1>7, <1>10

AnswerIs(p, c, r) ==
  [status |-> IF p = "wait" THEN "wait"
              ELSE IF r.ret >= 0 THEN "ok"
              ELSE IF r.ret = ETIMEOUT THEN "timeout" ELSE "error",
   data |-> IF c.op = "read" THEN r.data ELSE <<>>]

\* The first state is one of the device.
LEMMA RefineInit ==
  ASSUME Init
  PROVE  Device!Init
<1>1. call \in Device!Call
  BY TypeInit, CallFields DEF TypeInv
<1>2. Pending(<<>>) = <<>> /\ Outcomes(<<>>) = <<>>
  BY DEF Pending, Outcomes
<1>3. AnswerIs(pc, call, result) = Device!Answer("ok", <<>>)
  BY DEF Init, Result, AnswerIs, Device!Answer
<1> QED BY <1>1, <1>2, <1>3 DEF Init, Device!Init, Pending, Outcomes, CallOf, OutcomeOf, AnswerIs

\* A call that begins is a call that is made.
LEMMA RefineBegin ==
  ASSUME TypeInv, Begin
  PROVE  Device!Make
<1>1. PICK c \in AllCalls :
        /\ call' = c
        /\ toSlave' = IF RequestOf(c) = Refused THEN toSlave
                      ELSE Append(toSlave, [call |-> c, pdu |-> RequestOf(c)])
        /\ pc' = IF RequestOf(c) = Refused \/ c.slave = 0 THEN "idle" ELSE "wait"
        /\ result' = Result(IF RequestOf(c) = Refused THEN -1 ELSE 0, <<>>)
  BY DEF Begin, AllCalls
<1>2. UNCHANGED <<mem, fromSlave>> /\ pc = "idle" /\ toSlave \in Seq(Requests)
  BY DEF Begin, TypeInv
<1>3. c \in Device!Call /\ (RequestOf(c) = Refused <=> ~Device!Legal(c))
  BY CallFields, RequestLegal
<1>4. AnswerIs(pc, call, result).status # "wait"
  BY <1>2 DEF AnswerIs
<1>5. Outcomes(fromSlave') = Outcomes(fromSlave)
  BY <1>2
<1>6. CASE Device!Legal(c)
  <2>1. Pending(toSlave') = Append(Pending(toSlave), c)
    <3>1. PICK r \in Requests : r = [call |-> c, pdu |-> RequestOf(c)]
      BY <1>3, <1>6 DEF Requests, Sendable
    <3>2. CallOf(r) = c
      BY <3>1 DEF CallOf
    <3> QED BY <1>1, <1>2, <1>3, <1>6, <3>1, <3>2, PendingAppend
  <2>2. AnswerIs(pc', call', result')
          = Device!Answer(IF c.slave = Device!Broadcast THEN "ok" ELSE "wait", <<>>)
    BY <1>1, <1>3, <1>6 DEF AnswerIs, Result, Device!Answer, Device!Broadcast
  <2> QED BY <1>1, <1>2, <1>3, <1>4, <1>5, <1>6, <2>1, <2>2
          DEF Device!Make, Pending, Outcomes, CallOf, OutcomeOf, AnswerIs
<1>7. CASE ~Device!Legal(c)
  <2>1. Pending(toSlave') = Pending(toSlave)
    BY <1>1, <1>3, <1>7
  <2>2. AnswerIs(pc', call', result') = Device!Answer("error", <<>>)
    BY <1>1, <1>3, <1>7 DEF AnswerIs, Result, Device!Answer, ETIMEOUT
  <2> QED BY <1>1, <1>2, <1>3, <1>4, <1>5, <1>7, <2>1, <2>2
          DEF Device!Make, Pending, Outcomes, CallOf, OutcomeOf, AnswerIs
<1> QED BY <1>6, <1>7

\* The exception bit is set in exceptions and in nothing else.
LEMMA ExceptionBit ==
  ASSUME NEW r \in Responses
  PROVE  /\ r.code \in 0 .. 4 /\ r.size \in Nat /\ r.function \in Nat
         /\ mb_is_exception(r) <=> r.code # 0
         /\ r.code = 0 => r.function \in Functions /\ r.function % 128 = r.function
<1>1. r \in [function : Nat, code : 0 .. 4, data : Seq(Word), size : Nat]
  BY DEF Responses
<1>2. r.code \in 0 .. 4 /\ r.size \in Nat /\ r.function \in Nat
  BY <1>1
<1>3. \A f \in Functions : f \in 0 .. 127
  BY DEF Functions, PDU_READ_COILS, PDU_READ_INPUTS, PDU_READ_INPUT_REGISTERS,
         PDU_READ_HOLDING_REGISTERS, PDU_WRITE_COIL, PDU_WRITE_HOLDING_REGISTER,
         PDU_WRITE_COILS, PDU_WRITE_HOLDING_REGISTERS, PDU_DIAGNOSTICS
<1>4. CASE r.code = 0
  <2>1. PICK f \in 0 .. 127 : f = r.function /\ f \in Functions
    BY <1>3, <1>4 DEF Responses
  <2>2. f % 128 = f /\ (f \div 128) % 2 = 0
    BY ONLY f \in 0 .. 127
  <2> QED BY <1>2, <1>4, <2>1, <2>2 DEF mb_is_exception
<1>5. CASE r.code # 0
  <2>1. PICK f \in 0 .. 127 : f + 128 = r.function
    BY <1>3, <1>5 DEF Responses
  <2>2. ((f + 128) \div 128) % 2 = 1
    BY ONLY f \in 0 .. 127
  <2> QED BY <1>2, <1>5, <2>1, <2>2 DEF mb_is_exception
<1> QED BY <1>4, <1>5

\* The master makes of a response what the device says of its outcome.
LEMMA InterpretBelieved ==
  ASSUME NEW r \in Responses, NEW c \in AllCalls
  PROVE  AnswerIs("idle", c, Interpret(c, r)) = Device!Believed(c, OutcomeOf(r))
<1>1. /\ r.code \in 0 .. 4 /\ r.size \in Nat
      /\ mb_is_exception(r) <=> r.code # 0
      /\ r.code = 0 => r.function \in Functions /\ r.function % 128 = r.function
  BY ExceptionBit
<1>2. c.op \in Ops
  BY CallFields
<1>3. PICK e : e = OutcomeOf(r)
  OBVIOUS
<1>4. e.op = OpOf(r) /\ e.error = -r.code /\ e.data = r.data
  BY <1>3 DEF OutcomeOf
<1>5. CASE r.code # 0
  <2>1. Interpret(c, r) = Result(-r.code, <<>>)
    BY <1>1, <1>5 DEF Interpret, mb_exception
  <2>2. Result(-r.code, <<>>).ret = -r.code /\ Result(-r.code, <<>>).data = <<>>
    BY DEF Result
  <2>3. -r.code < 0 /\ -r.code # ETIMEOUT /\ -r.code # 0
    BY <1>1, <1>5 DEF ETIMEOUT
  <2>4. AnswerIs("idle", c, Interpret(c, r)) = Device!Answer("error", <<>>)
    BY <1>1, <2>1, <2>2, <2>3 DEF AnswerIs, Device!Answer
  <2>5. Device!Believed(c, e) = Device!Answer("error", <<>>)
    BY <1>4, <2>3 DEF Device!Believed
  <2> QED BY <1>3, <2>4, <2>5
<1>6. CASE r.code = 0
  <2>1. ~mb_is_exception(r) /\ e.error = 0 /\ r.function \in Functions
    <3>1. ~mb_is_exception(r) /\ r.function \in Functions
      BY <1>1, <1>6
    <3>2. PICK x, y : x \in 0 .. 4 /\ x = r.code /\ y = -x /\ y = e.error
      BY <1>1, <1>4
    <3>3. e.error = 0
      BY <1>6, <3>2
    <3> QED BY <3>1, <3>3
  <2>2. CASE c.op = "read" /\ r.function \in ReadFunctions
    <3>1. Interpret(c, r) = Result(0, r.data)
      BY <2>1, <2>2 DEF Interpret
    <3>2. AnswerIs("idle", c, Interpret(c, r)) = Device!Answer("ok", r.data)
      BY <2>2, <3>1 DEF AnswerIs, Device!Answer, Result
    <3>3. OpOf(r) = "read"
      <4>1. r.function % 128 \in ReadFunctions
        BY ONLY <1>1, <1>6, <2>2
      <4>2. PDU_DIAGNOSTICS \notin ReadFunctions
        BY DEF ReadFunctions, PDU_READ_COILS, PDU_READ_INPUTS, PDU_READ_INPUT_REGISTERS,
               PDU_READ_HOLDING_REGISTERS, PDU_DIAGNOSTICS
      <4> QED BY ONLY <4>1, <4>2 DEF OpOf
    <3>4. Device!Believed(c, e) = Device!Answer("ok", r.data)
      BY <1>4, <2>1, <2>2, <3>3 DEF Device!Believed
    <3> QED BY <1>3, <3>2, <3>4
  <2>3. CASE c.op = "read" /\ r.function \notin ReadFunctions
    <3>1. Interpret(c, r) = Result(-1, <<>>)
      BY <2>1, <2>3 DEF Interpret
    <3>2. AnswerIs("idle", c, Interpret(c, r)) = Device!Answer("error", <<>>)
      BY <2>3, <3>1 DEF AnswerIs, Device!Answer, Result, ETIMEOUT
    <3>3. OpOf(r) # "read"
      BY <1>1, <1>6, <2>3 DEF OpOf
    <3>4. Device!Believed(c, e) = Device!Answer("error", <<>>)
      BY <1>4, <2>1, <2>3, <3>3 DEF Device!Believed
    <3> QED BY <1>3, <3>2, <3>4
  <2>4. CASE c.op # "read"
    <3>1. PICK ret, d : ret \in Nat /\ Interpret(c, r) = Result(ret, d)
      <4>1. CASE c.op = "loopback"
        BY <1>1, <2>1, <4>1 DEF Interpret
      <4>2. CASE c.op # "loopback"
        <5>1. Interpret(c, r) = Result(0, <<>>)
          BY <2>1, <2>4, <4>2 DEF Interpret
        <5> QED BY <5>1
      <4> QED BY <4>1, <4>2
    <3>2. AnswerIs("idle", c, Interpret(c, r)) = Device!Answer("ok", <<>>)
      BY <2>4, <3>1 DEF AnswerIs, Device!Answer, Result
    <3>3. Device!Believed(c, e) = Device!Answer("ok", <<>>)
      BY <2>1, <2>4 DEF Device!Believed
    <3> QED BY <1>3, <3>2, <3>3
  <2> QED BY <2>2, <2>3, <2>4
<1> QED BY <1>1, <1>5, <1>6

\* A response that is received is an outcome that is returned,
LEMMA RefineReceive ==
  ASSUME TypeInv, Receive
  PROVE  Device!Return
<1>1. /\ pc = "wait" /\ fromSlave # <<>> /\ fromSlave \in Seq(Responses) /\ call \in AllCalls
      /\ result' = Interpret(call, Head(fromSlave)) /\ fromSlave' = Tail(fromSlave)
      /\ pc' = "idle" /\ UNCHANGED <<mem, call, toSlave>>
  BY DEF TypeInv, Receive
<1>2. PICK r \in Responses : r = Head(fromSlave)
  BY <1>1, HeadTailProperties
<1>3. /\ Outcomes(fromSlave) # <<>> /\ Head(Outcomes(fromSlave)) = OutcomeOf(r)
      /\ Outcomes(fromSlave') = Tail(Outcomes(fromSlave))
  BY <1>1, <1>2, OutcomesTail
<1>4. AnswerIs(pc', call', result') = Device!Believed(call, Head(Outcomes(fromSlave)))
  BY <1>1, <1>2, <1>3, InterpretBelieved
<1>5. AnswerIs(pc, call, result).status = "wait"
  BY <1>1 DEF AnswerIs
<1>6. Pending(toSlave') = Pending(toSlave)
  BY <1>1
<1> QED BY <1>1, <1>3, <1>4, <1>5, <1>6
        DEF Device!Return, Pending, Outcomes, CallOf, OutcomeOf, AnswerIs

\* a timeout is the return of a call without one.
LEMMA RefineTimeout ==
  ASSUME TypeInv, Timeout
  PROVE  Device!Return
<1>1. /\ pc = "wait" /\ result' = Result(ETIMEOUT, <<>>)
      /\ pc' = "idle" /\ UNCHANGED <<mem, call, toSlave, fromSlave>>
  BY DEF Timeout
<1>2. AnswerIs(pc', call', result') = Device!Answer("timeout", <<>>)
  BY <1>1 DEF AnswerIs, Result, Device!Answer, ETIMEOUT
<1>3. AnswerIs(pc, call, result).status = "wait"
  BY <1>1 DEF AnswerIs
<1>4. Pending(toSlave') = Pending(toSlave) /\ Outcomes(fromSlave') = Outcomes(fromSlave)
  BY <1>1
<1> QED BY <1>1, <1>2, <1>3, <1>4
        DEF Device!Return, Pending, Outcomes, CallOf, OutcomeOf, AnswerIs

\* What the link loses, the device loses.
LEMMA RefineLose ==
  ASSUME TypeInv, Lose
  PROVE  Device!Lose
<1>1. /\ toSlave \in Seq(Requests) /\ fromSlave \in Seq(Responses)
      /\ UNCHANGED <<mem, pc, call, result>>
  BY DEF TypeInv, Lose
<1>2. AnswerIs(pc', call', result') = AnswerIs(pc, call, result)
  BY <1>1
<1>3. CASE toSlave # <<>> /\ toSlave' = Tail(toSlave) /\ UNCHANGED fromSlave
  <2>1. /\ Pending(toSlave) # <<>> /\ Pending(toSlave') = Tail(Pending(toSlave))
        /\ Outcomes(fromSlave') = Outcomes(fromSlave)
    BY <1>1, <1>3, PendingTail
  <2> QED BY <1>1, <1>2, <2>1
          DEF Device!Lose, Pending, Outcomes, CallOf, OutcomeOf, AnswerIs
<1>4. CASE fromSlave # <<>> /\ fromSlave' = Tail(fromSlave) /\ UNCHANGED toSlave
  <2>1. /\ Outcomes(fromSlave) # <<>> /\ Outcomes(fromSlave') = Tail(Outcomes(fromSlave))
        /\ Pending(toSlave') = Pending(toSlave)
    BY <1>1, <1>4, OutcomesTail
  <2> QED BY <1>1, <1>2, <2>1
          DEF Device!Lose, Pending, Outcomes, CallOf, OutcomeOf, AnswerIs
<1> QED BY <1>3, <1>4 DEF Lose

\* The function of a response tells what kind of call it answers.
LEMMA OpOfResponse ==
  ASSUME NEW c \in Sendable, NEW r, r.function \in {RequestOf(c).function,
                                                    RequestOf(c).function + 128}
  PROVE  OpOf(r) = IF c.op = "write_single" THEN "write" ELSE c.op
<1>1. c \in AllCalls /\ RequestOf(c) # Refused
  BY DEF Sendable
<1>2. c.op \in Ops
  BY <1>1, CallFields
<1>3. PICK f : f = RequestOf(c).function
  OBVIOUS
<1> USE DEF PDU_READ_COILS, PDU_READ_INPUTS, PDU_READ_INPUT_REGISTERS,
            PDU_READ_HOLDING_REGISTERS, PDU_WRITE_COIL, PDU_WRITE_HOLDING_REGISTER,
            PDU_WRITE_COILS, PDU_WRITE_HOLDING_REGISTERS, PDU_DIAGNOSTICS
<1>4. f \in Functions
  BY <1>1, <1>3, RequestLegal
<1>5. r.function % 128 = f
  <2>1. f \in 0 .. 127
    BY <1>4 DEF Functions
  <2>2. f % 128 = f /\ (f + 128) % 128 = f
    BY <2>1
  <2> QED BY <1>3, <2>2
<1>6. CASE c.op = "read"
  <2>1. f \in {1, 2, 3, 4}
    BY <1>1, <1>3, <1>6, ReadRequests
  <2> QED BY <1>5, <1>6, <2>1 DEF OpOf, ReadFunctions
<1>7. CASE c.op = "write"
  <2>1. f \in {15, 16}
    BY <1>1, <1>3, <1>7, WriteRequests
  <2> QED BY <1>5, <1>7, <2>1 DEF OpOf, ReadFunctions
<1>8. CASE c.op = "write_single"
  <2>1. f \in {5, 6}
    BY <1>1, <1>3, <1>8, SingleRequests
  <2> QED BY <1>5, <1>8, <2>1 DEF OpOf, ReadFunctions
<1>9. CASE c.op = "loopback"
  <2>1. f = 8
    BY <1>1, <1>3, <1>9, LoopbackRequests
  <2> QED BY <1>5, <1>9, <2>1 DEF OpOf, ReadFunctions
<1> QED BY <1>2, <1>6, <1>7, <1>8, <1>9 DEF Ops

\* A request that is served is a call that is performed, or that is for nobody.
LEMMA RefineServe ==
  ASSUME TypeInv, Serve
  PROVE  Device!Perform \/ Device!Lose
<1>1. PICK c \in Sendable :
        /\ toSlave # <<>> /\ c = Head(toSlave).call /\ toSlave' = Tail(toSlave)
        /\ UNCHANGED <<pc, call, result, calls, before, clean>>
        /\ \/ c.slave \notin {0, Me} /\ UNCHANGED <<mem, fromSlave>>
           \/ /\ c.slave \in {0, Me}
              /\ \E o : /\ Failed(o) \/ Performed(c, o)
                        /\ mem' = o.mem
                        /\ fromSlave' = IF c.slave = 0 THEN fromSlave
                                        ELSE Append(fromSlave, Response(RequestOf(c), o))
  BY Served
<1>2. toSlave \in Seq(Requests) /\ fromSlave \in Seq(Responses) /\ IsMemory(mem)
  BY DEF TypeInv
<1>3. /\ Pending(toSlave) # <<>> /\ Head(Pending(toSlave)) = c
      /\ Pending(toSlave') = Tail(Pending(toSlave))
  BY <1>1, <1>2, PendingTail DEF CallOf
<1>4. AnswerIs(pc', call', result') = AnswerIs(pc, call, result)
  BY <1>1
<1>5. CASE c.slave \notin {0, Me} /\ UNCHANGED <<mem, fromSlave>>
  <2>1. Outcomes(fromSlave') = Outcomes(fromSlave)
    BY <1>5
  <2> QED BY <1>1, <1>3, <1>4, <1>5, <2>1
          DEF Device!Lose, Pending, Outcomes, CallOf, OutcomeOf, AnswerIs
<1>6. ASSUME c.slave \in {0, Me}, NEW o, Failed(o) \/ Performed(c, o), mem' = o.mem,
             fromSlave' = IF c.slave = 0 THEN fromSlave
                          ELSE Append(fromSlave, Response(RequestOf(c), o))
      PROVE  Device!Perform
  <2>1. PICK r \in Responses : r = Response(RequestOf(c), o)
    BY <1>2, <1>6, OutcomeTypes
  <2>2. Outcomes(fromSlave') = IF c.slave = 0 THEN Outcomes(fromSlave)
                               ELSE Append(Outcomes(fromSlave), OutcomeOf(r))
    <3>1. CASE c.slave = 0
      BY <1>6, <3>1
    <3>2. CASE c.slave # 0
      BY <1>2, <1>6, <2>1, <3>2, OutcomesAppend
    <3> QED BY <3>1, <3>2
  <2>3. CASE Failed(o)
    <3>1. /\ -r.code = o.tx /\ r.data = <<>> /\ r.function = RequestOf(c).function + 128
      <4>1. /\ r.code = -o.tx /\ r.code \in 1 .. 4 /\ r.data = <<>>
            /\ r.function = RequestOf(c).function + 128
        BY <2>1, <2>3, FailureResponse
      <4>2. o.tx \in Int
        BY <2>3, Exceptions DEF Failed
      <4> QED BY <4>1, <4>2
    <3>2. OutcomeOf(r) = Device!Outcome(c, o.tx, <<>>)
      <4>1. OpOf(r) = IF c.op = "write_single" THEN "write" ELSE c.op
        BY <3>1, OpOfResponse
      <4> QED BY <3>1, <4>1 DEF OutcomeOf, Device!Outcome
    <3>3. o.tx \in Exception /\ UNCHANGED mem
      BY <1>6, <2>3 DEF Failed
    <3>4. \E e \in Exception :
            Outcomes(fromSlave') = IF c.slave = 0 THEN Outcomes(fromSlave)
                                   ELSE Append(Outcomes(fromSlave), Device!Outcome(c, e, <<>>))
      BY <2>2, <3>2, <3>3
    <3> QED BY <1>1, <1>3, <1>4, <1>6, <3>3, <3>4
            DEF Device!Perform, Device!Report, Device!Broadcast,
                Pending, Outcomes, CallOf, OutcomeOf, AnswerIs
  <2>4. CASE Performed(c, o)
    <3>1. PICK d : d = CASE c.op = "read"     -> Device!Contained(c)
                         [] c.op = "loopback" -> c.values
                         [] OTHER             -> <<>>
      OBVIOUS
    <3>2. r.code = 0 /\ r.data = d /\ r.function = RequestOf(c).function
      BY <1>2, <2>1, <2>4, <3>1, PerformedResponse
    <3>3. OutcomeOf(r) = Device!Outcome(c, 0, d)
      <4>1. OpOf(r) = IF c.op = "write_single" THEN "write" ELSE c.op
        BY <3>2, OpOfResponse
      <4>2. -r.code = 0
        <5>1. PICK x \in Int : x = r.code /\ -x = 0
          BY <3>2
        <5> QED BY <5>1
      <4> QED BY <3>2, <4>1, <4>2 DEF OutcomeOf, Device!Outcome
    <3>4. /\ Device!Possible(c)
          /\ mem' = IF c.op \in {"write", "write_single"} THEN Device!Written(c) ELSE mem
      BY <1>6, <2>4 DEF Performed
    <3> QED BY <1>1, <1>3, <1>4, <1>6, <2>2, <3>1, <3>3, <3>4
            DEF Device!Perform, Device!Report, Device!Broadcast,
                Pending, Outcomes, CallOf, OutcomeOf, AnswerIs
  <2> QED BY <1>6, <2>3, <2>4
<1> QED BY <1>1, <1>5, <1>6

\* A step of master, link and slave is a step of the device, or none.
LEMMA RefineStep ==
  ASSUME TypeInv, [Next]_vars
  PROVE  [Device!Next]_(Device!vars)
<1>1. CASE Begin
  BY <1>1, RefineBegin DEF Device!Next
<1>2. CASE Receive
  BY <1>2, RefineReceive DEF Device!Next
<1>3. CASE Timeout
  BY <1>3, RefineTimeout DEF Device!Next
<1>4. CASE Serve
  BY <1>4, RefineServe DEF Device!Next
<1>5. CASE Lose
  BY <1>5, RefineLose DEF Device!Next
<1>6. CASE UNCHANGED vars
  <2>1. /\ Pending(toSlave') = Pending(toSlave) /\ Outcomes(fromSlave') = Outcomes(fromSlave)
        /\ AnswerIs(pc', call', result') = AnswerIs(pc, call, result)
        /\ mem' = mem /\ call' = call
    BY <1>6 DEF vars
  <2>2. UNCHANGED Device!vars
    BY <2>1 DEF Device!vars, Pending, Outcomes, CallOf, OutcomeOf, AnswerIs
  <2> QED BY <2>2
<1> QED BY <1>1, <1>2, <1>3, <1>4, <1>5, <1>6 DEF Next

\* Tables, link and calls keep their types.
THEOREM MbusTypes == Spec => []TypeInv
BY TypeInit, TypeStep, PTL DEF Spec

\* Master, link and slave implement the device: whatever is lost or late, calls
\* are performed in order, at most once, wholly or not at all, and on exactly
\* the elements they name; what comes back is what some performed call gave.
THEOREM MasterImplementsDevice == Spec => ImplementsDevice
<1>1. Init => Device!Init
  BY RefineInit
<1>2. TypeInv /\ [Next]_vars => [Device!Next]_(Device!vars)
  BY RefineStep
<1> QED BY <1>1, <1>2, MbusTypes, PTL DEF Spec, ImplementsDevice, Device!Spec

------------------------------------------------------------------------------
(* A call that began on an idle link gets its own response or none. *)

\* The elements the last call asked for, as the table holds them
ReadBack(d) ==
  LET t == TableOf(call)
      q == call.quantity
  IN  /\ q > 0 /\ First(call) >= 0 /\ First(call) + q <= Size[t]
      /\ Len(d) = IF Space(call) \in {0, 1} THEN 8 * ((q + 7) \div 8) ELSE q
      /\ \A i \in 1 .. Len(d) :
           d[i] = IF i <= q THEN mem[t][First(call) + i - 1] ELSE 0

\* The values of the last call are in the table, and nothing else has changed.
Stored ==
  LET t == TableOf(call)
      q == IF call.op = "write" THEN call.quantity ELSE 1
      v == IF t = "coils" /\ call.op = "write_single" /\ call.values[1] # 0
           THEN <<1>> ELSE call.values
  IN  /\ q > 0 /\ First(call) >= 0 /\ First(call) + q <= Size[t]
      /\ \A u \in Tables : \A x \in 0 .. Size[u] - 1 :
           mem[u][x] = IF u = t /\ First(call) <= x /\ x < First(call) + q
                       THEN v[x - First(call) + 1] ELSE before[u][x]

Answered(r) ==
  \/ r.code # 0
  \/ /\ r.function = RequestOf(call).function
     /\ call.op = "read" => ReadBack(r.data)
     /\ call.op \in {"write", "write_single"} => Stored

\* The promises, once the call has returned
Kept ==
  /\ call.op = "read" /\ result.ret = 0 => ReadBack(result.data)
  /\ call.op \in {"write", "write_single"} /\ result.ret = 0 => Stored

Sent     == pc = "wait" /\ fromSlave = <<>> /\ mem = before /\ call \in Sendable
            /\ Len(toSlave) = 1 /\ Head(toSlave).call = call
Missing  == pc = "wait" /\ toSlave = <<>> /\ fromSlave = <<>>
Coming   == pc = "wait" /\ toSlave = <<>> /\ Len(fromSlave) = 1 /\ Answered(Head(fromSlave))
            /\ call \in Sendable
Returned == pc = "idle" /\ toSlave = <<>> /\ fromSlave = <<>> /\ Kept
Late     == pc = "idle" /\ result.ret = ETIMEOUT
ToAll    == pc = "idle" /\ call.slave = 0 /\ call.op # "read"

\* The stages of such a call: its request is alone on the link and the tables
\* are as they were; request or response is lost; its response is alone on the
\* link and says what happened; it has returned.  After a timeout, and after a
\* broadcast, nothing is known.
CleanInv == clean => Sent \/ Missing \/ Coming \/ Returned \/ Late \/ ToAll

\* The response of the slave says what it has done with the call.
LEMMA ReadAnswered ==
  ASSUME IsMemory(mem), NEW c \in Sendable, c = call, c.op = "read", Device!Possible(c),
         NEW d, d = Device!Contained(c)
  PROVE  ReadBack(d)
<1>1. c \in AllCalls /\ RequestOf(c) # Refused
  BY DEF Sendable
<1>2. PICK t \in Tables : t = Device!TableOf(c)
  BY <1>1, ReadRequests, TableOfSpace DEF Tables
<1>3. PICK q \in Nat : q = c.quantity
  BY <1>1, CallFields
<1>4. PICK a \in Int : a = Device!First(c) /\ q > 0 /\ a >= 0 /\ a + q <= Size[t]
  BY <1>1, <1>2, <1>3, AddressParts DEF Device!Possible, Device!Quantity
<1>5. Device!IsBits(c) <=> Space(c) \in {0, 1}
  BY <1>1, ReadRequests, TableOfSpace
<1>6. PICK n \in Nat : n = IF Space(c) \in {0, 1} THEN 8 * ((q + 7) \div 8) ELSE q
  OBVIOUS
<1>7. d = [k \in 1 .. n |-> IF k <= q THEN mem[t][a + k - 1] ELSE 0]
  BY <1>2, <1>3, <1>4, <1>5, <1>6 DEF Device!Contained
<1>8. Len(d) = n /\ \A i \in 1 .. n : d[i] = IF i <= q THEN mem[t][a + i - 1] ELSE 0
  BY <1>7
<1> QED BY <1>2, <1>3, <1>4, <1>6, <1>8 DEF ReadBack, TableOf, First

\* The same for a write that starts from the tables as they were.
LEMMA WriteAnswered ==
  ASSUME IsMemory(mem), mem = before, NEW c \in Sendable, c = call,
         c.op \in {"write", "write_single"}, Device!Possible(c),
         mem' = Device!Written(c), UNCHANGED <<call, before>>
  PROVE  Stored'
<1>1. c \in AllCalls /\ RequestOf(c) # Refused
  BY DEF Sendable
<1>2. /\ Device!TableOf(c) \in Tables
      /\ Device!IsBits(c) <=> Device!TableOf(c) = "coils"
  <2>1. Space(c) \in {0, 4}
    <3>1. CASE c.op = "write"
      BY <1>1, <3>1, WriteRequests
    <3>2. CASE c.op = "write_single"
      BY <1>1, <3>2, SingleRequests
    <3> QED BY <3>1, <3>2
  <2> QED BY <1>1, <2>1, TableOfSpace DEF Tables
<1>3. PICK t \in Tables : t = Device!TableOf(c)
  BY <1>2
<1>4. PICK q \in Nat : q = Device!Quantity(c) /\ q = IF c.op = "write" THEN c.quantity ELSE 1
  BY ValuesAreWords DEF Device!Quantity
<1>5. PICK a \in Int : a = Device!First(c) /\ q > 0 /\ a >= 0 /\ a + q <= Size[t]
  BY <1>1, <1>3, <1>4, AddressParts DEF Device!Possible
<1>6. PICK v : v = IF t = "coils" /\ c.op = "write_single" /\ c.values[1] # 0
                   THEN <<1>> ELSE c.values
  OBVIOUS
<1>7. \A k \in 1 .. q : v[k] = Device!Value(c, k)
  <2>1. CASE c.op = "write"
    BY <1>6, <2>1 DEF Device!Value
  <2>2. CASE c.op = "write_single"
    <3>1. q = 1
      BY <1>4, <2>2
    <3>2. v[1] = Device!Value(c, 1)
      BY <1>2, <1>3, <1>6, <2>2 DEF Device!Value
    <3> QED BY <3>1, <3>2
  <2> QED BY <2>1, <2>2
<1>8. ASSUME NEW u \in Tables, NEW x \in 0 .. Size[u] - 1
      PROVE  mem'[u][x] = IF u = t /\ a <= x /\ x < a + q THEN v[x - a + 1] ELSE before[u][x]
  <2>1. x \in Int /\ mem[u] \in [0 .. Size[u] - 1 -> Word] /\ u \in DOMAIN mem /\ t \in DOMAIN mem
    BY TableSizes DEF IsMemory
  <2>2. PICK put : put = [y \in DOMAIN mem[t] |-> IF y - a \in 0 .. q - 1
                                                  THEN Device!Value(c, y - a + 1) ELSE mem[t][y]]
    OBVIOUS
  <2>3. mem' = [mem EXCEPT ![t] = put]
    BY <1>3, <1>4, <1>5, <2>2 DEF Device!Written
  <2>4. CASE u # t
    BY <2>1, <2>3, <2>4
  <2>5. CASE u = t
    <3>1. mem'[u] = put /\ x \in DOMAIN mem[t]
      BY <2>1, <2>3, <2>5
    <3>2. put[x] = IF x - a \in 0 .. q - 1 THEN Device!Value(c, x - a + 1) ELSE mem[t][x]
      BY <2>2, <3>1
    <3>3. CASE a <= x /\ x < a + q
      <4>1. x - a \in 0 .. q - 1 /\ x - a + 1 \in 1 .. q
        BY <2>1, <3>3
      <4> QED BY <1>7, <2>5, <3>1, <3>2, <3>3, <4>1
    <3>4. CASE ~(a <= x /\ x < a + q)
      <4>1. x - a \notin 0 .. q - 1
        BY <2>1, <3>4
      <4> QED BY <2>5, <3>1, <3>2, <3>4, <4>1
    <3> QED BY <3>3, <3>4
  <2> QED BY <2>4, <2>5
<1>9. call' = c /\ before' = before
  OBVIOUS
<1>10. /\ Device!TableOf(call') = t /\ Device!First(call') = a
       /\ (IF call'.op = "write" THEN call'.quantity ELSE 1) = q
       /\ (IF t = "coils" /\ call'.op = "write_single" /\ call'.values[1] # 0
           THEN <<1>> ELSE call'.values) = v
  BY <1>3, <1>4, <1>5, <1>6, <1>9
<1> QED BY <1>5, <1>8, <1>9, <1>10 DEF Stored, TableOf, First

\* So the response is what the call waits for.
LEMMA ResponseAnswers ==
  ASSUME IsMemory(mem), mem = before, NEW c \in Sendable, c = call, NEW o,
         Failed(o) \/ Performed(c, o), mem' = o.mem, UNCHANGED <<call, before>>,
         NEW r, r = Response(RequestOf(c), o)
  PROVE  Answered(r)'
<1>1. CASE Failed(o)
  <2>1. r.code # 0
    BY <1>1, FailureResponse
  <2> QED BY <2>1 DEF Answered
<1>2. CASE Performed(c, o)
  <2>1. /\ r.code = 0 /\ r.function = RequestOf(c).function /\ r.size = o.tx
        /\ r.data = CASE c.op = "read"     -> Device!Contained(c)
                      [] c.op = "loopback" -> c.values
                      [] OTHER             -> <<>>
    BY <1>2, PerformedResponse
  <2>2. Device!Possible(c) /\ call' = c
    BY <1>2 DEF Performed
  <2>3. ASSUME c.op = "read"
        PROVE  ReadBack(r.data)'
    <3>1. PICK d : d = r.data /\ d = Device!Contained(c)
      BY <2>1, <2>3
    <3>2. ReadBack(d)
      BY <2>2, <2>3, <3>1, ReadAnswered
    <3>3. mem' = mem
      BY <1>2, <2>3 DEF Performed
    <3> QED BY <2>2, <3>1, <3>2, <3>3 DEF ReadBack, TableOf, First
  <2>4. ASSUME c.op \in {"write", "write_single"}
        PROVE  Stored'
    <3>1. mem' = Device!Written(c)
      BY <1>2, <2>4 DEF Performed
    <3> QED BY <2>2, <2>4, <3>1, WriteAnswered
  <2> QED BY <2>1, <2>2, <2>3, <2>4 DEF Answered
<1> QED BY <1>1, <1>2

\* The response to the call is interpreted as its promise says.
LEMMA AnswerKept ==
  ASSUME NEW c \in Sendable, c = call, NEW r \in Responses, Answered(r),
         result' = Interpret(c, r), UNCHANGED <<mem, call, before>>
  PROVE  Kept'
<1>1. c \in AllCalls /\ RequestOf(c) # Refused /\ call' = c
  BY DEF Sendable
<1>2. /\ r.code \in 0 .. 4 /\ r.size \in Nat /\ r.function \in Nat
      /\ mb_is_exception(r) <=> r.code # 0
  BY ExceptionBit
<1>3. CASE r.code # 0
  <2>1. PICK n \in Int : n = -r.code /\ n < 0
    BY <1>2, <1>3
  <2>2. result'.ret = n
    BY <1>2, <1>3, <2>1 DEF Interpret, mb_exception, Result
  <2> QED BY <2>1, <2>2 DEF Kept
<1>4. CASE r.code = 0
  <2>1. /\ ~mb_is_exception(r) /\ r.function = RequestOf(c).function
        /\ c.op = "read" => ReadBack(r.data)
        /\ c.op \in {"write", "write_single"} => Stored
    BY <1>2, <1>4 DEF Answered
  <2>2. CASE c.op = "read"
    <3>1. r.function \in ReadFunctions
      BY <1>1, <2>1, <2>2, ReadRequests DEF ReadFunctions
    <3>2. result' = Result(0, r.data)
      BY <2>1, <2>2, <3>1 DEF Interpret
    <3>3. PICK d : d = r.data /\ result'.data = d /\ ReadBack(d)
      BY <2>1, <2>2, <3>2 DEF Result
    <3>4. ReadBack(d)'
      BY <1>1, <3>3 DEF ReadBack, TableOf, First
    <3> QED BY <1>1, <2>2, <3>3, <3>4 DEF Kept
  <2>3. CASE c.op \in {"write", "write_single"}
    <3>1. Stored'
      BY <1>1, <2>1, <2>3 DEF Stored, TableOf, First
    <3> QED BY <1>1, <2>3, <3>1 DEF Kept
  <2>4. CASE c.op = "loopback"
    BY <1>1, <2>4 DEF Kept
  <2> QED BY <1>1, <2>2, <2>3, <2>4, CallFields DEF Ops
<1> QED BY <1>3, <1>4

\* A queue of one element is empty once that is taken.
LEMMA TakeOnly ==
  ASSUME NEW S, NEW s \in Seq(S), Len(s) = 1
  PROVE  s # <<>> /\ Tail(s) = <<>>
<1>1. s # <<>>
  BY EmptySeq
<1>2. Tail(s) \in Seq(S) /\ Len(Tail(s)) = 0
  BY <1>1, HeadTailProperties
<1> QED BY <1>1, <1>2, EmptySeq

\* The only element of a queue is its head.
LEMMA AppendOnly ==
  ASSUME NEW e, NEW s, s = Append(<<>>, e)
  PROVE  Len(s) = 1 /\ Head(s) = e
OBVIOUS

\* A call begins on an idle link,
LEMMA CleanBegin ==
  ASSUME TypeInv, Begin
  PROVE  CleanInv'
<1>1. PICK c \in AllCalls :
        /\ call' = c
        /\ toSlave' = IF RequestOf(c) = Refused THEN toSlave
                      ELSE Append(toSlave, [call |-> c, pdu |-> RequestOf(c)])
        /\ pc' = IF RequestOf(c) = Refused \/ c.slave = 0 THEN "idle" ELSE "wait"
        /\ result' = Result(IF RequestOf(c) = Refused THEN -1 ELSE 0, <<>>)
  BY DEF Begin, AllCalls
<1>2. before' = mem /\ mem' = mem /\ fromSlave' = fromSlave
      /\ clean' = (toSlave = <<>> /\ fromSlave = <<>>)
  BY DEF Begin
<1>3. SUFFICES ASSUME toSlave = <<>>, fromSlave = <<>>
               PROVE  (Sent \/ Returned \/ ToAll)'
  BY <1>2 DEF CleanInv
<1>4. CASE RequestOf(c) = Refused
  <2>1. result'.ret = -1
    BY <1>1, <1>4 DEF Result
  <2>2. Kept'
    BY <2>1 DEF Kept
  <2> QED BY <1>1, <1>2, <1>3, <1>4, <2>2 DEF Returned
<1>5. CASE RequestOf(c) # Refused /\ c.slave = 0
  <2>1. c.op # "read"
    BY <1>5, ReadRequests
  <2> QED BY <1>1, <1>5, <2>1 DEF ToAll
<1>6. CASE RequestOf(c) # Refused /\ c.slave # 0
  <2>1. PICK e : e = [call |-> c, pdu |-> RequestOf(c)] /\ toSlave' = Append(<<>>, e)
    BY <1>1, <1>3, <1>6
  <2>2. Len(toSlave') = 1 /\ Head(toSlave') = e /\ e.call = c
    BY <2>1, AppendOnly
  <2>3. c \in Sendable
    BY <1>6 DEF Sendable
  <2> QED BY <1>1, <1>2, <1>3, <1>6, <2>2, <2>3 DEF Sent
<1> QED BY <1>4, <1>5, <1>6

\* its request is served while it waits,
LEMMA CleanServe ==
  ASSUME TypeInv, CleanInv, Serve
  PROVE  CleanInv'
<1>1. PICK c \in Sendable :
        /\ toSlave # <<>> /\ c = Head(toSlave).call /\ toSlave' = Tail(toSlave)
        /\ UNCHANGED <<pc, call, result, calls, before, clean>>
        /\ \/ c.slave \notin {0, Me} /\ UNCHANGED <<mem, fromSlave>>
           \/ /\ c.slave \in {0, Me}
              /\ \E o : /\ Failed(o) \/ Performed(c, o)
                        /\ mem' = o.mem
                        /\ fromSlave' = IF c.slave = 0 THEN fromSlave
                                        ELSE Append(fromSlave, Response(RequestOf(c), o))
  BY Served
<1>2. SUFFICES ASSUME clean
               PROVE  (Missing \/ Coming \/ Late \/ ToAll)'
  BY <1>1 DEF CleanInv
<1>3. CASE Late \/ ToAll
  BY <1>1, <1>3 DEF Late, ToAll
<1>4. CASE Sent
  <2>1. toSlave' = <<>> /\ pc' = "wait" /\ fromSlave = <<>> /\ mem = before /\ c = call
    BY <1>1, <1>4, TakeOnly DEF Sent, TypeInv
  <2>2. CASE fromSlave' = fromSlave
    BY <2>1, <2>2 DEF Missing
  <2>3. ASSUME NEW o, Failed(o) \/ Performed(c, o), mem' = o.mem,
               fromSlave' = Append(fromSlave, Response(RequestOf(c), o))
        PROVE  Coming'
    <3>1. PICK r : r = Response(RequestOf(c), o)
      OBVIOUS
    <3>2. Len(fromSlave') = 1 /\ Head(fromSlave') = r
      BY <2>1, <2>3, <3>1, AppendOnly
    <3>3. IsMemory(mem) /\ UNCHANGED <<call, before>>
      BY <1>1 DEF TypeInv
    <3>4. Answered(r)'
      BY <2>1, <2>3, <3>1, <3>3, ResponseAnswers
    <3> QED BY <2>1, <3>2, <3>3, <3>4 DEF Coming
  <2> QED BY <1>1, <2>2, <2>3
<1> QED BY <1>1, <1>2, <1>3, <1>4 DEF CleanInv, Missing, Coming, Returned

\* and its response is the one it gets.
LEMMA CleanReceive ==
  ASSUME TypeInv, CleanInv, Receive
  PROVE  CleanInv'
<1>1. /\ pc = "wait" /\ fromSlave # <<>> /\ fromSlave \in Seq(Responses)
      /\ result' = Interpret(call, Head(fromSlave)) /\ fromSlave' = Tail(fromSlave)
      /\ pc' = "idle" /\ UNCHANGED <<mem, call, toSlave, before, clean>>
  BY DEF TypeInv, Receive
<1>2. SUFFICES ASSUME clean
               PROVE  Returned'
  BY <1>1 DEF CleanInv
<1>3. Coming
  BY <1>1, <1>2 DEF CleanInv, Sent, Missing, Returned, Late, ToAll
<1>4. PICK r \in Responses : r = Head(fromSlave)
  BY <1>1, HeadTailProperties
<1>5. Kept'
  BY <1>1, <1>3, <1>4, AnswerKept DEF Coming
<1>6. fromSlave' = <<>>
  BY <1>1, <1>3, TakeOnly DEF Coming
<1> QED BY <1>1, <1>3, <1>5, <1>6 DEF Returned, Coming

\* What the link loses is missing.
LEMMA CleanLose ==
  ASSUME TypeInv, CleanInv, Lose
  PROVE  CleanInv'
<1>1. /\ UNCHANGED <<mem, pc, call, result, calls, before, clean>>
      /\ \/ toSlave # <<>> /\ toSlave' = Tail(toSlave) /\ UNCHANGED fromSlave
         \/ fromSlave # <<>> /\ fromSlave' = Tail(fromSlave) /\ UNCHANGED toSlave
      /\ toSlave \in Seq(Requests) /\ fromSlave \in Seq(Responses)
  BY DEF Lose, TypeInv
<1>2. SUFFICES ASSUME clean
               PROVE  (Missing \/ Late \/ ToAll)'
  BY <1>1 DEF CleanInv
<1>3. CASE Late \/ ToAll
  BY <1>1, <1>3 DEF Late, ToAll
<1>4. CASE Sent
  BY <1>1, <1>4, TakeOnly DEF Sent, Missing
<1>5. CASE Coming
  BY <1>1, <1>5, TakeOnly DEF Coming, Missing
<1> QED BY <1>1, <1>2, <1>3, <1>4, <1>5 DEF CleanInv, Missing, Returned

\* No step breaks CleanInv.
LEMMA CleanStep == TypeInv /\ CleanInv /\ [Next]_vars => CleanInv'
<1> SUFFICES ASSUME TypeInv, CleanInv, [Next]_vars
             PROVE  CleanInv'
  OBVIOUS
<1>1. CASE Begin
  BY <1>1, CleanBegin
<1>2. CASE Receive
  BY <1>2, CleanReceive
<1>3. CASE Timeout
  <2>1. Late'
    BY <1>3 DEF Timeout, Late, Result
  <2> QED BY <2>1 DEF CleanInv
<1>4. CASE Serve
  BY <1>4, CleanServe
<1>5. CASE Lose
  BY <1>5, CleanLose
<1>6. CASE UNCHANGED vars
  BY <1>6 DEF vars, CleanInv, Sent, Missing, Coming, Returned, Late, ToAll, Kept, Answered,
              ReadBack, Stored, TableOf, First
<1> QED BY <1>1, <1>2, <1>3, <1>4, <1>5, <1>6 DEF Next

\* A call that began on an idle link goes through the stages of CleanInv.
THEOREM CleanCalls == Spec => []CleanInv
<1>1. Init => CleanInv
  BY DEF Init, CleanInv
<1> QED BY <1>1, CleanStep, MbusTypes, PTL DEF Spec

\* Once it is over without a timeout, its promise is kept.
LEMMA CompletedKept ==
  ASSUME CleanInv, Completed
  PROVE  Kept \/ (call.slave = 0 /\ call.op # "read")
BY DEF Completed, CleanInv, Sent, Missing, Coming, Returned, Late, ToAll

\* mbus_read: a read that succeeds fills the buffer with exactly the elements
\* asked for, as the slave's table holds them.
THEOREM ReadsReturnTable == Spec => []ReadReturnsTable
<1>1. CleanInv => ReadReturnsTable
  <2> SUFFICES ASSUME CleanInv, Completed, call.op = "read", result.ret = 0
               PROVE  ReadBack(result.data)
    BY DEF ReadReturnsTable, ReadBack
  <2> QED BY CompletedKept DEF Kept
<1> QED BY <1>1, CleanCalls, PTL

\* mbus_write and mbus_write_single: a write that succeeds has put its values
\* in the slave's table and changed nothing else.
THEOREM WritesStored == Spec => []WriteStored
<1>1. CleanInv => WriteStored
  <2> SUFFICES ASSUME CleanInv, Completed, call.op \in {"write", "write_single"},
                      call.slave = Me, result.ret = 0
               PROVE  Stored
    BY DEF WriteStored, Stored
  <2>1. call.slave # 0
    BY CallsAssumption
  <2> QED BY <2>1, CompletedKept DEF Kept
<1> QED BY <1>1, CleanCalls, PTL

==============================================================================
