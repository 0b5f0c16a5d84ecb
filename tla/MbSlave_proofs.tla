--------------------------- MODULE MbSlave_proofs ---------------------------
(***************************************************************************)
(* What the slave guarantees for all tables, callbacks, requests and       *)
(* bounds that satisfy the assumptions of MbSlave.                         *)
(***************************************************************************)
EXTENDS MbSlave, TLAPS

\* NumBytes is the number of bytes that hold quantity bits, as long as the
\* limits of the handlers keep the uint8_t from wrapping.
LEMMA NumBytesBound ==
  ASSUME NEW q \in Nat, q >= 1, q <= 2000
  PROVE  \E count \in Nat : count = NumBytes(q) /\ count <= 250 /\ q <= 8 * count
BY DEF NumBytes

\* The set callback keeps the tables well formed.
LEMMA SetMemory ==
  ASSUME NEW m, IsMemory(m), NEW t \in Tables, NEW a \in Nat, NEW q \in Nat,
         NEW values, \A k \in 1 .. q : values[k] \in Word
  PROVE  IsMemory(Set(m, t, a, q, values))
<1> DEFINE n == Set(m, t, a, q, values)
<1>1. DOMAIN m = Tables /\ DOMAIN m[t] = 0 .. Size[t] - 1
  BY DEF IsMemory
<1>2. n = [u \in Tables |-> n[u]]
  BY <1>1 DEF Set, IsMemory
<1>3. n[t] \in [0 .. Size[t] - 1 -> Word]
  <2>1. \A x \in 0 .. Size[t] - 1 : m[t][x] \in Word
    BY DEF IsMemory
  <2>2. \A x \in 0 .. Size[t] - 1 : a <= x /\ x < a + q => values[x - a + 1] \in Word
    BY TableAssumption
  <2> QED BY <1>1, <2>1, <2>2 DEF Set, IsMemory
<1>4. \A u \in Tables \ {t} : n[u] = m[u]
  BY <1>1 DEF Set, IsMemory
<1> QED BY <1>2, <1>3, <1>4 DEF IsMemory

\* What a get callback returns is a sequence of register values.
LEMMA GetData ==
  ASSUME NEW m, IsMemory(m), NEW t \in Tables, NEW a \in Nat, NEW q \in Nat,
         a + q <= Size[t]
  PROVE  Get(m, t, a, q) \in Seq(Word)
<1>1. \A k \in 1 .. q : m[t][a + k - 1] \in Word
  BY TableAssumption DEF IsMemory
<1> QED BY <1>1 DEF Get

------------------------------------------------------------------------------
(* Handlers. *)

TxValues == Exception \cup (0 .. MAX_PDU_SIZE)

\* What every handler's outcome satisfies, for the request p
Sound(o, p) == /\ IsMemory(o.mem)
               /\ o.tx \in TxValues
               /\ o.data \in Seq(Word)
               /\ \A c \in o.calls : InRange(c) /\ Received(c, p)

\* Every exception and every callback result is a result of a handler.
LEMMA Codes ==
  /\ Exception \subseteq TxValues
  /\ \A e \in Exception : e \in Int /\ e < 0
  /\ CallbackResults \subseteq TxValues
BY CallbackAssumption DEF TxValues, Exception, EILLEGAL_FUNCTION, EILLEGAL_DATA_ADDRESS,
   EILLEGAL_DATA_VALUE, ESLAVE_DEVICE_FAILURE, MAX_PDU_SIZE

\* The checks of the handlers return 0 or an exception.
LEMMA ErrorCodes ==
  /\ \A t, a, q, limit : ReadError(t, a, q, limit) \in Exception \cup {0}
  /\ \A t, a, q, limit, count, p, header :
       WriteError(t, a, q, limit, count, p, header) \in Exception \cup {0}
  /\ \A t, a : SingleError(t, a) \in Exception \cup {0}
BY DEF ReadError, WriteError, SingleError, Exception

\* An early return is sound.
LEMMA ReturnSound ==
  ASSUME NEW m, IsMemory(m), NEW p, NEW tx \in TxValues
  PROVE  Sound(Return(m, tx), p)
BY DEF Return, Outcome, Sound

\* What the checks of the reads establish.
LEMMA ReadChecked ==
  ASSUME NEW t \in Tables, NEW a \in Nat, NEW q \in Nat, NEW limit \in Nat,
         ReadError(t, a, q, limit) = 0
  PROVE  t \in Readable /\ q >= 1 /\ q <= limit /\ a + q <= Size[t]
BY TableAssumption DEF ReadError, EILLEGAL_DATA_VALUE, EILLEGAL_DATA_ADDRESS,
   EILLEGAL_FUNCTION

\* A read that passed its checks is sound.
LEMMA ReadSound ==
  ASSUME NEW m, IsMemory(m), NEW p \in Pdu, NEW t \in Tables, NEW a \in Nat, NEW q \in Nat,
         NEW limit \in Nat, ReadError(t, a, q, limit) = 0,
         NEW count \in Nat, count <= 251, NEW data \in Seq(Word), NEW g \in CallbackResults
  PROVE  Sound(Read(m, t, a, q, count, data, g), p)
<1>1. t \in Readable /\ q >= 1 /\ a + q <= Size[t]
  BY ReadChecked
<1>2. InRange(Call("get", t, a, q, sizeof_read_response + count))
  BY <1>1 DEF InRange, Call, sizeof_read_response, MAX_PDU_SIZE
<1>3. Received(Call("get", t, a, q, sizeof_read_response + count), p)
  BY DEF Received, Call
<1>4. g \in TxValues /\ sizeof_read_response + count \in TxValues
  BY Codes DEF TxValues, sizeof_read_response, MAX_PDU_SIZE
<1> QED BY <1>2, <1>3, <1>4 DEF Sound, Read, Outcome

\* A write inside its table, of values received, is sound.
LEMMA WriteSound ==
  ASSUME NEW m, IsMemory(m), NEW p \in Pdu, NEW t \in Tables, t \in Writable,
         NEW a \in Nat, NEW q \in Nat, q >= 1, a + q <= Size[t],
         NEW values, \A k \in 1 .. q : values[k] \in Word,
         NEW bytes \in Nat, p.function \in SingleWrites \/ bytes <= p.rx_count,
         NEW response \in TxValues, NEW s \in CallbackResults
  PROVE  Sound(Write(m, t, a, q, values, bytes, response, s), p)
<1>1. InRange(Call("set", t, a, q, bytes))
  BY DEF InRange, Call
<1>2. Received(Call("set", t, a, q, bytes), p)
  BY DEF Received, Call
<1>3. IsMemory(Set(m, t, a, q, values))
  BY SetMemory
<1> QED BY <1>1, <1>2, <1>3, Codes DEF Sound, Write, Outcome

\* What the checks of the multiple writes establish.
LEMMA WriteChecked ==
  ASSUME NEW t \in Tables, NEW a \in Nat, NEW q \in Nat, NEW limit \in Nat,
         NEW count \in Nat, NEW p \in Pdu, NEW header \in Nat,
         WriteError(t, a, q, limit, count, p, header) = 0
  PROVE  /\ t \in Writable /\ q >= 1 /\ q <= limit /\ a + q <= Size[t]
         /\ p.rx_count = header + count
BY TableAssumption DEF WriteError, Pdu, EILLEGAL_DATA_VALUE, EILLEGAL_DATA_ADDRESS,
   EILLEGAL_FUNCTION

\* The types of the fields of a PDU.
LEMMA PduFields ==
  ASSUME NEW p \in Pdu
  PROVE  /\ p.function \in Byte /\ p.address \in Word /\ p.quantity \in Word
         /\ p.address \in Nat /\ p.quantity \in Nat
         /\ p.write_address \in Nat /\ p.write_quantity \in Nat
         /\ p.data \in Seq(Word) /\ p.rx_count \in 1 .. MAX_PDU_SIZE
<1>1. /\ p.function \in Byte /\ p.address \in Word /\ p.quantity \in Word
      /\ p.write_address \in Word /\ p.write_quantity \in Word
      /\ p.data \in Seq(Word) /\ p.rx_count \in 1 .. MAX_PDU_SIZE
  BY DEF Pdu
<1>2. \A w \in Word : w \in Nat
  BY DEF Word
<1> QED BY <1>1, <1>2

\* The bits of a response, pad bits included, are values of a table.
LEMMA BitData ==
  ASSUME NEW m, IsMemory(m), NEW t \in Tables, NEW a \in Nat, NEW q \in Nat,
         a + q <= Size[t], NEW n \in Nat
  PROVE  GetBits(m, t, a, q, n) \in Seq(Word)
<1>1. 0 \in Word
  BY DEF Word
<1>2. ASSUME NEW i \in 1 .. q
      PROVE  m[t][a + i - 1] \in Word
  <2>1. a + i - 1 \in 0 .. Size[t] - 1
    BY TableAssumption
  <2>2. m[t] \in [0 .. Size[t] - 1 -> Word]
    BY DEF IsMemory
  <2> QED BY <2>1, <2>2
<1>3. \A i \in 1 .. n : (IF i <= q THEN m[t][a + i - 1] ELSE 0) \in Word
  BY <1>1, <1>2
<1>4. GetBits(m, t, a, q, n) \in [1 .. n -> Word]
  BY <1>3 DEF GetBits
<1> QED BY <1>4

\* mb_slave_read_bits
LEMMA ReadBitsSound ==
  ASSUME NEW m, IsMemory(m), NEW p \in Pdu, NEW t \in Tables, NEW g \in CallbackResults
  PROVE  Sound(mb_slave_read_bits(m, t, p, g), p)
<1>1. CASE ReadError(t, p.address, p.quantity, 2000) # 0
  BY <1>1, ErrorCodes, Codes, ReturnSound DEF mb_slave_read_bits
<1>2. CASE ReadError(t, p.address, p.quantity, 2000) = 0
  <2>1. PICK a \in Nat, q \in Nat : a = p.address /\ q = p.quantity
    BY PduFields
  <2>2. ReadError(t, a, q, 2000) = 0
    BY <1>2, <2>1
  <2>3. q >= 1 /\ q <= 2000 /\ a + q <= Size[t]
    BY <2>1, <2>2, ReadChecked
  <2>4. PICK count \in Nat : count = NumBytes(q) /\ count <= 250
    BY <2>3, NumBytesBound
  <2>5. PICK n \in Nat : n = 8 * count
    BY <2>4
  <2>6. GetBits(m, t, a, q, n) \in Seq(Word)
    BY <2>1, <2>3, <2>5, BitData
  <2>7. 2000 \in Nat /\ count <= 251
    BY <2>4
  <2>8. Sound(Read(m, t, a, q, count, GetBits(m, t, a, q, n), g), p)
    BY <2>1, <2>2, <2>4, <2>6, <2>7, ReadSound
  <2>9. mb_slave_read_bits(m, t, p, g) = Read(m, t, a, q, count, GetBits(m, t, a, q, n), g)
    BY <1>2, <2>1, <2>4, <2>5 DEF mb_slave_read_bits
  <2> QED BY <2>8, <2>9
<1> QED BY <1>1, <1>2

\* mb_slave_read_registers
LEMMA ReadRegistersSound ==
  ASSUME NEW m, IsMemory(m), NEW p \in Pdu, NEW t \in Tables, NEW g \in CallbackResults
  PROVE  Sound(mb_slave_read_registers(m, t, p, g), p)
<1> DEFINE a == p.address
           q == p.quantity
           error == ReadError(t, a, q, 125)
<1>1. CASE error # 0
  BY <1>1, ErrorCodes, Codes, ReturnSound DEF mb_slave_read_registers
<1>2. CASE error = 0
  <2>1. q >= 1 /\ q <= 125 /\ a \in Nat /\ q \in Nat /\ a + q <= Size[t]
    BY <1>2, PduFields, ReadChecked
  <2>2. (2 * q) % 256 \in Nat /\ (2 * q) % 256 <= 251
    BY <2>1
  <2>3. Sound(Read(m, t, a, q, (2 * q) % 256, Get(m, t, a, q), g), p)
    BY <1>2, <2>1, <2>2, GetData, ReadSound
  <2> QED BY <1>2, <2>3 DEF mb_slave_read_registers
<1> QED BY <1>1, <1>2

\* What the two single writes share.
LEMMA WriteSingleSound ==
  ASSUME NEW m, IsMemory(m), NEW p \in Pdu, NEW t \in Tables, NEW s \in CallbackResults,
         p.function \in SingleWrites, NEW v \in Word, SingleError(t, p.address) = 0
  PROVE  Sound(Write(m, t, p.address, 1, <<v>>, sizeof_write_single, sizeof_write_single, s), p)
<1>1. t \in Writable /\ p.address + 1 <= Size[t] /\ p.address \in Nat
  BY PduFields, TableAssumption DEF SingleError, EILLEGAL_DATA_ADDRESS, EILLEGAL_FUNCTION
<1>2. PICK values : values = <<v>>
  OBVIOUS
<1>3. \A k \in 1 .. 1 : values[k] \in Word
  BY <1>2
<1>4. PICK size \in Nat : size = sizeof_write_single /\ size \in TxValues
  BY DEF sizeof_write_single, TxValues, MAX_PDU_SIZE
<1>5. Sound(Write(m, t, p.address, 1, values, size, size, s), p)
  <2>1. 1 \in Nat /\ 1 >= 1
    OBVIOUS
  <2> QED BY <1>1, <1>3, <1>4, <2>1, WriteSound
<1> QED BY <1>2, <1>4, <1>5

\* mb_slave_write_bit and mb_slave_write_register
LEMMA WriteBitSound ==
  ASSUME NEW m, IsMemory(m), NEW p \in Pdu, NEW t \in Tables, NEW s \in CallbackResults,
         p.function \in SingleWrites
  PROVE  /\ Sound(mb_slave_write_bit(m, t, p, s), p)
         /\ Sound(mb_slave_write_register(m, t, p, s), p)
<1>1. \A e \in Exception \cup {0} : e # 0 => Sound(Return(m, e), p)
  BY Codes, ReturnSound
<1>2. EILLEGAL_DATA_VALUE \in Exception \cup {0} /\ EILLEGAL_DATA_VALUE # 0
  BY DEF Exception, EILLEGAL_DATA_VALUE
<1>3. p.quantity \in Word
  BY PduFields
<1>4. (IF p.quantity = 65280 THEN 1 ELSE 0) \in Word
  BY DEF Word
<1>5. Sound(mb_slave_write_bit(m, t, p, s), p)
  BY <1>1, <1>2, <1>4, ErrorCodes, WriteSingleSound DEF mb_slave_write_bit
<1>6. Sound(mb_slave_write_register(m, t, p, s), p)
  BY <1>1, <1>3, ErrorCodes, WriteSingleSound DEF mb_slave_write_register
<1> QED BY <1>5, <1>6

\* The elements of a payload that is long enough.
LEMMA PayloadData ==
  ASSUME NEW data \in Seq(Word), NEW q \in Nat, q <= Len(data)
  PROVE  \A k \in 1 .. q : data[k] \in Word
<1>1. \A k \in 1 .. Len(data) : data[k] \in Word
  OBVIOUS
<1>2. Len(data) \in Nat
  OBVIOUS
<1>3. \A k \in 1 .. q : k \in 1 .. Len(data)
  BY <1>2
<1> QED BY <1>1, <1>3

\* A multiple write whose checks pass: WriteError holds it to the bytes received.
LEMMA MultipleWriteSound ==
  ASSUME NEW m, IsMemory(m), NEW p \in Pdu, NEW t \in Tables, NEW s \in CallbackResults,
         NEW a \in Nat, NEW q \in Nat, NEW limit \in Nat, NEW count \in Nat,
         NEW header \in Nat, WriteError(t, a, q, limit, count, p, header) = 0,
         q <= Len(p.data), NEW response \in TxValues
  PROVE  Sound(Write(m, t, a, q, p.data, header + count, response, s), p)
<1>1. /\ t \in Writable /\ q >= 1 /\ a + q <= Size[t]
      /\ p.rx_count = header + count
  BY WriteChecked
<1>2. PICK bytes \in Nat : bytes = header + count
  OBVIOUS
<1>3. bytes <= p.rx_count
  BY <1>1, <1>2
<1>4. \A k \in 1 .. q : p.data[k] \in Word
  BY PduFields, PayloadData
<1>5. Sound(Write(m, t, a, q, p.data, bytes, response, s), p)
  BY <1>1, <1>3, <1>4, WriteSound
<1> QED BY <1>2, <1>5

\* mb_slave_write_bits
LEMMA WriteBitsSound ==
  ASSUME NEW m, IsMemory(m), NEW p \in Pdu, NEW t \in Tables, NEW s \in CallbackResults,
         Carried(p), p.function = PDU_WRITE_COILS
  PROVE  Sound(mb_slave_write_bits(m, t, p, s), p)
<1> DEFINE error == WriteError(t, p.address, p.quantity, 1968, NumBytes(p.quantity), p,
                               sizeof_write)
<1>1. CASE error # 0
  BY <1>1, ErrorCodes, Codes, ReturnSound DEF mb_slave_write_bits
<1>2. CASE error = 0
  <2>1. PICK a \in Nat, q \in Nat : a = p.address /\ q = p.quantity
    BY PduFields
  <2>2. q >= 1 /\ q <= 1968
    BY <1>2, <2>1 DEF WriteError, EILLEGAL_DATA_VALUE
  <2>3. PICK count \in Nat : count = NumBytes(q) /\ q <= 8 * count
    BY <2>2, NumBytesBound
  <2>4. WriteError(t, a, q, 1968, count, p, sizeof_write) = 0
    BY <1>2, <2>1, <2>3
  <2>5. sizeof_write \in Nat /\ 1968 \in Nat
    BY DEF sizeof_write
  <2>6. p.rx_count = sizeof_write + count
    BY <2>4, <2>5, WriteChecked
  <2>7. q <= Len(p.data)
    <3>1. 8 * (p.rx_count - sizeof_write) <= Len(p.data)
      BY DEF Carried
    <3>2. Len(p.data) \in Nat
      BY PduFields
    <3> QED BY <2>3, <2>5, <2>6, <3>1, <3>2 DEF sizeof_write
  <2>8. sizeof_write_response \in TxValues
    BY DEF sizeof_write_response, TxValues, MAX_PDU_SIZE
  <2>9. Sound(Write(m, t, a, q, p.data, sizeof_write + count, sizeof_write_response, s), p)
    BY <2>4, <2>5, <2>7, <2>8, MultipleWriteSound
  <2> QED BY <1>2, <2>1, <2>3, <2>9 DEF mb_slave_write_bits
<1> QED BY <1>1, <1>2

\* mb_slave_write_registers
LEMMA WriteRegistersSound ==
  ASSUME NEW m, IsMemory(m), NEW p \in Pdu, NEW t \in Tables, NEW s \in CallbackResults,
         Carried(p), p.function = PDU_WRITE_HOLDING_REGISTERS
  PROVE  Sound(mb_slave_write_registers(m, t, p, s), p)
<1> DEFINE error == WriteError(t, p.address, p.quantity, 123, 2 * p.quantity, p, sizeof_write)
<1>1. CASE error # 0
  BY <1>1, ErrorCodes, Codes, ReturnSound DEF mb_slave_write_registers
<1>2. CASE error = 0
  <2>1. PICK a \in Nat, q \in Nat : a = p.address /\ q = p.quantity
    BY PduFields
  <2>2. PICK count \in Nat : count = 2 * q
    BY <2>1
  <2>3. WriteError(t, a, q, 123, count, p, sizeof_write) = 0
    BY <1>2, <2>1, <2>2
  <2>4. sizeof_write \in Nat /\ 123 \in Nat
    BY DEF sizeof_write
  <2>5. p.rx_count = sizeof_write + count
    BY <2>3, <2>4, WriteChecked
  <2>6. q <= Len(p.data)
    <3>1. p.rx_count - sizeof_write <= 2 * Len(p.data)
      BY DEF Carried, PDU_WRITE_HOLDING_REGISTERS, PDU_WRITE_COILS
    <3>2. Len(p.data) \in Nat
      BY PduFields
    <3> QED BY <2>2, <2>5, <3>1, <3>2 DEF sizeof_write
  <2>7. sizeof_write_response \in TxValues
    BY DEF sizeof_write_response, TxValues, MAX_PDU_SIZE
  <2>8. Sound(Write(m, t, a, q, p.data, sizeof_write + count, sizeof_write_response, s), p)
    BY <2>3, <2>4, <2>6, <2>7, MultipleWriteSound
  <2> QED BY <1>2, <2>1, <2>2, <2>8 DEF mb_slave_write_registers
<1> QED BY <1>1, <1>2

\* The calls of a write followed by those of a read.
LEMMA SequenceSound ==
  ASSUME NEW p, NEW tx, NEW m, NEW data, NEW calls, NEW w,
         Sound(Outcome(tx, m, data, calls), p), Sound(w, p)
  PROVE  Sound([Outcome(tx, m, data, calls) EXCEPT !.calls = @ \cup w.calls], p)
<1>1. [Outcome(tx, m, data, calls) EXCEPT !.calls = @ \cup w.calls]
        = Outcome(tx, m, data, calls \cup w.calls)
  BY DEF Outcome
<1> QED BY <1>1 DEF Sound, Outcome

\* mb_slave_read_write_registers
LEMMA ReadWriteSound ==
  ASSUME NEW m, IsMemory(m), NEW p \in Pdu, NEW t \in Tables, NEW s \in CallbackResults,
         NEW g \in CallbackResults, Carried(p),
         p.function = PDU_READ_WRITE_HOLDING_REGISTERS
  PROVE  Sound(mb_slave_read_write_registers(m, t, p, s, g), p)
<1>1. PICK wa \in Nat, wq \in Nat, a \in Nat, q \in Nat :
         wa = p.write_address /\ wq = p.write_quantity /\ a = p.address /\ q = p.quantity
  BY PduFields
<1>2. PICK count \in Nat : count = 2 * wq
  BY <1>1
<1> DEFINE wError == WriteError(t, wa, wq, 121, count, p, sizeof_read_write)
           rError == ReadError(t, a, q, 125)
           w == Write(m, t, wa, wq, p.data, sizeof_read_write + count, 0, s)
           r == Read(w.mem, t, a, q, (2 * q) % 256, Get(w.mem, t, a, q), g)
<1>3. mb_slave_read_write_registers(m, t, p, s, g)
        = IF wError # 0 THEN Return(m, wError)
          ELSE IF rError # 0 THEN Return(m, rError)
          ELSE IF w.tx # 0 THEN w
          ELSE [r EXCEPT !.calls = @ \cup w.calls]
  BY <1>1, <1>2 DEF mb_slave_read_write_registers
<1>4. wError # 0 => Sound(Return(m, wError), p)
  BY ErrorCodes, Codes, ReturnSound
<1>5. rError # 0 => Sound(Return(m, rError), p)
  BY ErrorCodes, Codes, ReturnSound
<1>6. ASSUME wError = 0
      PROVE  Sound(w, p)
  <2>1. sizeof_read_write \in Nat /\ 121 \in Nat
    BY DEF sizeof_read_write
  <2>2. p.rx_count = sizeof_read_write + count
    BY <1>6, <2>1, WriteChecked
  <2>3. wq <= Len(p.data)
    <3>1. p.rx_count - sizeof_read_write <= 2 * Len(p.data)
      BY DEF Carried
    <3>2. Len(p.data) \in Nat
      BY PduFields
    <3> QED BY <1>2, <2>2, <3>1, <3>2 DEF sizeof_read_write
  <2>4. 0 \in TxValues
    BY DEF TxValues, MAX_PDU_SIZE
  <2> QED BY <1>6, <2>1, <2>3, <2>4, MultipleWriteSound
<1>7. ASSUME rError = 0, Sound(w, p)
      PROVE  Sound([r EXCEPT !.calls = @ \cup w.calls], p)
  <2>1. PICK n : n = w.mem /\ IsMemory(n)
    BY <1>7 DEF Sound
  <2>2. q >= 1 /\ q <= 125 /\ a + q <= Size[t]
    BY <1>7, ReadChecked
  <2>3. PICK c \in Nat : c = (2 * q) % 256 /\ c <= 251
    BY <2>2
  <2>4. Sound(Read(n, t, a, q, c, Get(n, t, a, q), g), p)
    BY <1>7, <2>1, <2>2, <2>3, GetData, ReadSound
  <2>5. Sound(r, p)
    BY <2>1, <2>3, <2>4
  <2>6. \E tx, mm, data, calls : r = Outcome(tx, mm, data, calls)
    BY DEF Read
  <2> HIDE DEF r, w
  <2> QED BY <1>7, <2>5, <2>6, SequenceSound
<1> HIDE DEF r, w, wError, rError
<1> QED BY <1>3, <1>4, <1>5, <1>6, <1>7

\* Every outcome of the switch is sound.
LEMMA HandleSound ==
  ASSUME NEW m, IsMemory(m), NEW p \in Pdu, Carried(p), NEW bc \in BOOLEAN,
         NEW s \in CallbackResults, NEW g \in CallbackResults, NEW v \in Results(p)
  PROVE  Sound(Handle(m, p, bc, s, g, v), p)
<1>1. "coils" \in Tables /\ "inputs" \in Tables /\ "holding_registers" \in Tables
      /\ "input_registers" \in Tables
  BY DEF Tables
<1>2. Sound(Return(m, 0), p)
  <2>1. 0 \in TxValues
    BY DEF TxValues, MAX_PDU_SIZE
  <2> QED BY <2>1, ReturnSound
<1>3. Sound(mb_slave_diagnostics(m, p), p)
  <2>1. p.rx_count \in TxValues /\ EILLEGAL_FUNCTION \in TxValues
    BY PduFields DEF TxValues, Exception, MAX_PDU_SIZE
  <2> QED BY <2>1, ReturnSound DEF mb_slave_diagnostics
<1>4. Sound(mb_slave_vendor(m, p, v), p)
  <2>1. p.function \in DOMAIN Vendor => v \in TxValues
    BY CallbackAssumption DEF Results, TxValues
  <2>2. EILLEGAL_FUNCTION \in TxValues
    BY DEF TxValues, Exception
  <2> QED BY <2>1, <2>2, ReturnSound DEF mb_slave_vendor
<1>5. p.function = PDU_WRITE_COIL => Sound(mb_slave_write_bit(m, "coils", p, s), p)
  BY <1>1, WriteBitSound DEF SingleWrites
<1>6. p.function = PDU_WRITE_HOLDING_REGISTER
        => Sound(mb_slave_write_register(m, "holding_registers", p, s), p)
  BY <1>1, WriteBitSound DEF SingleWrites
<1>7. p.function = PDU_WRITE_COILS => Sound(mb_slave_write_bits(m, "coils", p, s), p)
  BY <1>1, WriteBitsSound
<1>8. p.function = PDU_WRITE_HOLDING_REGISTERS
        => Sound(mb_slave_write_registers(m, "holding_registers", p, s), p)
  BY <1>1, WriteRegistersSound
<1>9. p.function = PDU_READ_WRITE_HOLDING_REGISTERS
        => Sound(mb_slave_read_write_registers(m, "holding_registers", p, s, g), p)
  BY <1>1, ReadWriteSound
<1>10. /\ Sound(mb_slave_read_bits(m, "coils", p, g), p)
       /\ Sound(mb_slave_read_bits(m, "inputs", p, g), p)
       /\ Sound(mb_slave_read_registers(m, "input_registers", p, g), p)
       /\ Sound(mb_slave_read_registers(m, "holding_registers", p, g), p)
  BY <1>1, ReadBitsSound, ReadRegistersSound
<1> QED BY <1>2, <1>3, <1>4, <1>5, <1>6, <1>7, <1>8, <1>9, <1>10 DEF Handle

------------------------------------------------------------------------------
(* The task. *)

\* The inductive invariant: the types, and what the last handler left behind
Inv == /\ TypeOK
       /\ CallsInRange
       /\ PayloadReceived

\* A slave keeps the transport it was created with.
LEMMA TransportFixed == ASSUME [Next]_vars PROVE transport' = transport
BY DEF Next, vars, slaveVars, Task, Step, Environment, Exit, Bringup, Arm, RxTimeout,
       RxClosed, RxRequest, RxError, HandleRequest, CheckAvail, Discard, Tx, Arrive,
       PeerStall, PeerClose, mb_slave_shutdown, mb_slave_id_set

\* The invariant holds at first.
LEMMA InitInv == ASSUME Init PROVE Inv
<1>1. 0 \in Word /\ 0 \in Byte
  BY DEF Word, Byte
<1>2. IsMemory(mem)
  <2>1. \A t \in Tables : mem[t] \in [0 .. Size[t] - 1 -> Word]
    BY <1>1 DEF Init
  <2> QED BY <2>1 DEF Init, IsMemory
<1>3. out.tx \in Exception \cup (0 .. MAX_PDU_SIZE) /\ out.data \in Seq(Word) /\ out.calls = {}
  BY DEF Init, NoResult, MAX_PDU_SIZE
<1>4. txn \in [unit : Byte, id : 0 .. MaxFrames]
  BY <1>1, BoundAssumption DEF Init
<1>5. /\ in \in Seq(Arrived) /\ \A k \in DOMAIN in : Carried(in[k].pdu)
      /\ sent \in Seq(Responses)
  BY DEF Init
<1>6. /\ id \in Ids /\ running \in BOOLEAN /\ down \in BOOLEAN /\ eof \in BOOLEAN
      /\ stalled \in {"no", "rx", "tx"}
      /\ transport \in Transports /\ pc = "loop" /\ cur \in Arrived \cup {NoFrame}
  BY DEF Init
<1>7. stale \in Nat /\ arrived \in 0 .. MaxFrames /\ idChanges \in 0 .. MaxIdChanges
  BY BoundAssumption DEF Init
<1>8. TypeOK
  BY <1>2, <1>3, <1>4, <1>5, <1>6, <1>7 DEF TypeOK
<1> QED BY <1>3, <1>8 DEF Inv, Init, CallsInRange, PayloadReceived

\* The frame at the head of the queue, and the queue without it.
LEMMA QueueHead ==
  ASSUME TypeOK, in # <<>>
  PROVE  /\ Head(in) \in Arrived /\ Carried(Head(in).pdu)
         /\ Tail(in) \in Seq(Arrived)
         /\ \A k \in DOMAIN Tail(in) : Carried(Tail(in)[k].pdu)
<1>1. in \in Seq(Arrived) /\ \A k \in DOMAIN in : Carried(in[k].pdu)
  BY DEF TypeOK
<1>2. Len(in) \in Nat /\ Len(in) >= 1 /\ DOMAIN in = 1 .. Len(in)
  BY <1>1
<1>3. Head(in) = in[1] /\ 1 \in DOMAIN in
  BY <1>1, <1>2
<1>4. \A k \in DOMAIN Tail(in) : k + 1 \in DOMAIN in /\ Tail(in)[k] = in[k + 1]
  BY <1>1, <1>2
<1> QED BY <1>1, <1>3, <1>4

\* A step keeps it.
LEMMA NextInv == ASSUME Inv, [Next]_vars PROVE Inv'
<1> USE DEF Inv, CallsInRange, PayloadReceived, slaveVars, taskVars, linkVars, histVars
<1>1. CASE UNCHANGED vars
  BY <1>1 DEF vars, TypeOK
<1>2. CASE Exit
  BY <1>2 DEF Exit, TypeOK
<1>3. CASE Bringup
  BY <1>3 DEF Bringup, TypeOK
<1>4. CASE Arm
  <2>1. txn' \in [unit : Byte, id : 0 .. MaxFrames]
    <3>1. id \in Byte
      BY IdAssumption DEF TypeOK, Byte
    <3> QED BY <1>4, <3>1 DEF Arm, TypeOK
  <2> QED BY <1>4, <2>1 DEF Arm, TypeOK
<1>5. CASE RxTimeout
  BY <1>5 DEF RxTimeout, TypeOK
<1>6. CASE RxClosed
  BY <1>6 DEF RxClosed, CloseLink, TypeOK
<1>7. CASE RxRequest
  <2>1. in # <<>> /\ pc' = "handle"
    BY <1>7 DEF RxRequest
  <2>2. /\ Head(in) \in Arrived /\ Carried(Head(in).pdu)
        /\ Tail(in) \in Seq(Arrived)
        /\ \A k \in DOMAIN Tail(in) : Carried(Tail(in)[k].pdu)
    BY <2>1, QueueHead
  <2>3. txn' \in [unit : Byte, id : 0 .. MaxFrames]
    <3>1. Head(in).unit \in Byte /\ Head(in).n \in 0 .. MaxFrames
      BY <2>2, BoundAssumption DEF Arrived
    <3>2. txn' = [unit |-> Head(in).unit, id |-> Head(in).n] \/ txn' = txn
      BY <1>7 DEF RxRequest, Taken
    <3> QED BY <3>1, <3>2 DEF TypeOK
  <2>4. stale' \in Nat
    <3>1. stale \in Nat
      BY DEF TypeOK
    <3>2. stale' = stale \/ stale' = stale + 1
      BY <1>7 DEF RxRequest
    <3> QED BY <3>1, <3>2
  <2> QED BY <1>7, <2>1, <2>2, <2>3, <2>4 DEF RxRequest, TypeOK
<1>8. CASE RxError
  <2>1. /\ Tail(in) \in Seq(Arrived)
        /\ \A k \in DOMAIN Tail(in) : Carried(Tail(in)[k].pdu)
    BY <1>8, QueueHead DEF RxError
  <2>2. in' = <<>> \/ in' = Tail(in)
    BY <1>8 DEF RxError, CloseLink
  <2>3. in' \in Seq(Arrived) /\ \A k \in DOMAIN in' : Carried(in'[k].pdu)
    <3>1. CASE in' = <<>>
      BY <3>1
    <3>2. CASE in' = Tail(in)
      BY <2>1, <3>2
    <3> QED BY <2>2, <3>1, <3>2
  <2>4. down' \in BOOLEAN /\ eof' \in BOOLEAN /\ stalled' \in {"no", "rx", "tx"}
    BY <1>8 DEF RxError, CloseLink, TypeOK
  <2> QED BY <1>8, <2>3, <2>4 DEF RxError, TypeOK
<1>9. CASE HandleRequest
  <2>1. cur \in Arrived /\ Carried(cur.pdu) /\ cur.pdu \in Pdu /\ IsMemory(mem)
    BY <1>9 DEF HandleRequest, TypeOK, Arrived
  <2>2. IsBroadcast(cur) \in BOOLEAN
    BY DEF IsBroadcast
  <2>3. PICK o : /\ Sound(o, cur.pdu)
                 /\ mem' = o.mem
                 /\ out' = [tx |-> o.tx, data |-> o.data, calls |-> o.calls]
    BY <1>9, <2>1, <2>2, HandleSound DEF HandleRequest
  <2>4. IsMemory(mem')
    BY <2>3 DEF Sound
  <2>5. out'.tx \in Exception \cup (0 .. MAX_PDU_SIZE) /\ out'.data \in Seq(Word)
    BY <2>3 DEF Sound, TxValues
  <2>6. \A c \in out'.calls : InRange(c) /\ Received(c, cur.pdu)
    BY <2>3 DEF Sound
  <2>7. cur' = cur
    BY <1>9 DEF HandleRequest
  <2>8. TypeOK'
    BY <1>9, <2>1, <2>4, <2>5 DEF HandleRequest, TypeOK
  <2> QED BY <2>6, <2>7, <2>8
<1>10. CASE CheckAvail
  BY <1>10 DEF CheckAvail, TypeOK
<1>11. CASE Discard
  <2>1. /\ Tail(in) \in Seq(Arrived)
        /\ \A k \in DOMAIN Tail(in) : Carried(Tail(in)[k].pdu)
    BY <1>11, QueueHead DEF Discard
  <2> QED BY <1>11, <2>1 DEF Discard, TypeOK
<1>12. CASE Tx
  <2>1. Response \in Responses
    <3>1. cur \in Arrived /\ cur.pdu \in Pdu
      BY <1>12 DEF Tx, TypeOK, Arrived
    <3>2. cur.n \in 1 .. MaxFrames /\ cur.unit \in Byte
      BY <3>1 DEF Arrived
    <3>3. txn.unit \in Byte /\ txn.id \in 0 .. MaxFrames
      BY DEF TypeOK
    <3>4. cur.pdu.function \in Byte /\ ExceptionFunction(cur.pdu.function) \in Byte
      <4>1. cur.pdu.function \in Byte
        BY <3>1, PduFields
      <4>2. \A f \in Byte : ExceptionFunction(f) \in Byte
        BY DEF ExceptionFunction, Byte
      <4> QED BY <4>1, <4>2
    <3>5. (IF out.tx < 0 THEN sizeof_exception ELSE out.tx) \in 0 .. MAX_PDU_SIZE
      <4>1. out.tx \in Exception \/ out.tx \in 0 .. MAX_PDU_SIZE
        BY DEF TypeOK
      <4>2. sizeof_exception \in 0 .. MAX_PDU_SIZE
        BY DEF sizeof_exception, MAX_PDU_SIZE
      <4>3. ~(out.tx < 0) => out.tx \notin Exception
        BY Codes
      <4> QED BY <4>1, <4>2, <4>3
    <3>6. (IF out.tx < 0 THEN << -out.tx >> ELSE out.data) \in Seq(Word)
      <4>1. out.tx < 0 => -out.tx \in Word
        <5>1. out.tx \in Exception \/ out.tx \in 0 .. MAX_PDU_SIZE
          BY DEF TypeOK
        <5>2. out.tx \in 0 .. MAX_PDU_SIZE => ~(out.tx < 0)
          BY DEF MAX_PDU_SIZE
        <5>3. \A e \in Exception : -e \in Word
          BY DEF Exception, Word, EILLEGAL_FUNCTION, EILLEGAL_DATA_ADDRESS,
             EILLEGAL_DATA_VALUE, ESLAVE_DEVICE_FAILURE
        <5> QED BY <5>1, <5>2, <5>3
      <4> QED BY <4>1 DEF TypeOK
    <3> QED BY <3>2, <3>3, <3>4, <3>5, <3>6 DEF Response, Responses
  <2>2. sent' \in Seq(Responses)
    <3>1. sent \in Seq(Responses)
      BY DEF TypeOK
    <3>2. sent' = Append(sent, Response) \/ sent' = sent
      BY <1>12 DEF Tx
    <3> QED BY <2>1, <3>1, <3>2
  <2>3. /\ down' \in BOOLEAN /\ eof' \in BOOLEAN /\ stalled' \in {"no", "rx", "tx"}
        /\ in' \in Seq(Arrived) /\ \A k \in DOMAIN in' : Carried(in'[k].pdu)
    <3>1. UNCHANGED linkVars \/ CloseLink
      BY <1>12 DEF Tx
    <3>2. CASE UNCHANGED linkVars
      BY <3>2 DEF TypeOK
    <3>3. CASE CloseLink
      <4>1. in' = <<>> /\ down' = TRUE /\ eof' = FALSE /\ stalled' = "no"
        BY <3>3 DEF CloseLink
      <4>2. in' \in Seq(Arrived) /\ \A k \in DOMAIN in' : Carried(in'[k].pdu)
        BY <4>1
      <4> QED BY <4>1, <4>2
    <3> QED BY <3>1, <3>2, <3>3
  <2> QED BY <1>12, <2>2, <2>3 DEF Tx, TypeOK
<1>13. CASE Arrive
  <2>0. PICK f \in Frames : \E frame :
          /\ frame = [n |-> arrived + 1, late |-> pc \in {"handle", "respond"},
                      unit |-> f.unit,
                      status |-> IF transport = "rtu" /\ in # <<>> THEN "bad" ELSE f.status,
                      pdu |-> f.pdu]
          /\ in' = IF transport = "rtu" THEN <<frame>> ELSE Append(in, frame)
    BY <1>13 DEF Arrive
  <2>1. PICK frame :
          /\ frame = [n |-> arrived + 1, late |-> pc \in {"handle", "respond"},
                      unit |-> f.unit,
                      status |-> IF transport = "rtu" /\ in # <<>> THEN "bad" ELSE f.status,
                      pdu |-> f.pdu]
          /\ in' = IF transport = "rtu" THEN <<frame>> ELSE Append(in, frame)
    BY <2>0
  <2>2. arrived + 1 \in 1 .. MaxFrames /\ arrived' \in 0 .. MaxFrames
    BY <1>13, BoundAssumption DEF Arrive, TypeOK
  <2>3. f.unit \in Byte /\ f.status \in {"ok", "bad", "cut"} /\ f.pdu \in Pdu /\ Carried(f.pdu)
    BY <2>1, FrameAssumption
  <2>4. frame \in Arrived /\ Carried(frame.pdu)
    BY <2>1, <2>2, <2>3 DEF Arrived
  <2>5. in' \in Seq(Arrived)
    BY <2>1, <2>4 DEF TypeOK
  <2>6. \A k \in DOMAIN in' : Carried(in'[k].pdu)
    <3>1. in' = <<frame>> \/ in' = Append(in, frame)
      BY <2>1
    <3>2. in \in Seq(Arrived) /\ \A k \in DOMAIN in : Carried(in[k].pdu)
      BY DEF TypeOK
    <3> QED BY <2>4, <3>1, <3>2
  <2>7. stalled' \in {"no", "rx", "tx"}
    BY <1>13 DEF Arrive, TypeOK
  <2> QED BY <1>13, <2>2, <2>5, <2>6, <2>7 DEF Arrive, TypeOK
<1>14. CASE PeerStall \/ PeerClose
  BY <1>14 DEF PeerStall, PeerClose, TypeOK
<1>15. CASE mb_slave_shutdown
  BY <1>15 DEF mb_slave_shutdown, TypeOK
<1>16. ASSUME NEW i \in Ids, mb_slave_id_set(i)
       PROVE  Inv'
  BY <1>16, BoundAssumption DEF mb_slave_id_set, TypeOK
<1> QED BY <1>1, <1>2, <1>3, <1>4, <1>5, <1>6, <1>7, <1>8, <1>9, <1>10, <1>11, <1>12,
           <1>13, <1>14, <1>15, <1>16 DEF Next, Task, Step, Environment

\* Every variable keeps its type; a handler returns an exception or a size that
\* fits the PDU buffer, and every response that is sent fits it.
THEOREM TypeCorrect == Spec => []TypeOK
<1>1. Init => Inv
  BY InitInv
<1>2. Inv /\ [Next]_vars => Inv'
  BY NextInv
<1>3. Inv => TypeOK
  BY DEF Inv
<1> QED BY <1>1, <1>2, <1>3, PTL DEF Spec

\* The handlers call get and set only when the table has them and only for
\* elements inside the table, whatever the request.
THEOREM CallbacksInRange == Spec => []CallsInRange
<1>1. Init => Inv
  BY InitInv
<1>2. Inv /\ [Next]_vars => Inv'
  BY NextInv
<1>3. Inv => CallsInRange
  BY DEF Inv
<1> QED BY <1>1, <1>2, <1>3, PTL DEF Spec

\* The multiple writes hand set only bytes that came with the request.
THEOREM PayloadAlwaysReceived == Spec => []PayloadReceived
<1>1. Init => Inv
  BY InitInv
<1>2. Inv /\ [Next]_vars => Inv'
  BY NextInv
<1>3. Inv => PayloadReceived
  BY DEF Inv
<1> QED BY <1>1, <1>2, <1>3, PTL DEF Spec

------------------------------------------------------------------------------
(* The id in use. *)

\* StaleIdOnce is not inductive: mb_pdu_rx must not be armed with an old id
\* again once a request was taken for it.
StaleInv == /\ stale \in Nat /\ StaleIdOnce
            /\ pc = "rx" /\ txn.unit # id => stale = 0

\* At most one request is taken for an id that mb_slave_id_set has replaced.
THEOREM StaleIdAtMostOnce == Spec => []StaleIdOnce
<1> USE DEF StaleInv, StaleIdOnce, slaveVars, taskVars, linkVars, histVars
<1>1. Init => StaleInv
  BY DEF Init
<1>2. TypeOK /\ StaleInv /\ [Next]_vars => StaleInv'
  <2> SUFFICES ASSUME TypeOK, StaleInv, [Next]_vars
               PROVE  StaleInv'
    OBVIOUS
  <2>1. CASE UNCHANGED vars
    BY <2>1 DEF vars
  <2>2. CASE Arm
    <3>1. txn'.unit = id'
      BY <2>2 DEF Arm, TypeOK
    <3> QED BY <2>2, <3>1 DEF Arm
  <2>3. CASE RxRequest
    <3>1. PICK f : f = Head(in)
      OBVIOUS
    <3>2. Accepts(f) /\ pc = "rx" /\ pc' = "handle"
      BY <2>3, <3>1 DEF RxRequest
    <3>3. stale' = IF transport = "rtu" /\ f.unit \notin {id, Broadcast}
                   THEN stale + 1 ELSE stale
      BY <2>3, <3>1 DEF RxRequest
    <3>4. transport = "rtu" /\ f.unit \notin {id, Broadcast} => txn.unit # id
      BY <3>2 DEF Accepts
    <3> QED BY <3>2, <3>3, <3>4
  <2>4. CASE Exit \/ Bringup \/ RxTimeout \/ RxClosed \/ RxError \/ HandleRequest
             \/ CheckAvail \/ Discard \/ Tx
    BY <2>4 DEF Exit, Bringup, RxTimeout, RxClosed, RxError, HandleRequest, CheckAvail,
       Discard, Tx
  <2>5. CASE Arrive \/ PeerStall \/ PeerClose \/ mb_slave_shutdown
    BY <2>5 DEF Arrive, PeerStall, PeerClose, mb_slave_shutdown
  <2>6. ASSUME NEW i \in Ids, mb_slave_id_set(i)
        PROVE  StaleInv'
    BY <2>6 DEF mb_slave_id_set
  <2> QED BY <2>1, <2>2, <2>3, <2>4, <2>5, <2>6 DEF Next, Task, Step, Environment
<1>3. StaleInv => StaleIdOnce
  OBVIOUS
<1> QED BY <1>1, <1>2, <1>3, TypeCorrect, PTL DEF Spec

------------------------------------------------------------------------------
(* Late requests on a serial line. *)

\* A burst that came while a request was handled is still unread only until it
\* is discarded.
LateInv ==
  transport = "rtu" =>
    /\ in = <<>> \/ \E f \in Arrived :
         in = <<f>> /\ (f.late => pc \in {"handle", "respond", "discard"})
    /\ cur # NoFrame => ~cur.late

\* A request that arrived while another was being handled is never executed, and
\* the other is not answered.
THEOREM LateNeverExecuted == Spec => []LateRequestIgnored
<1> USE DEF LateInv, slaveVars, taskVars, linkVars, histVars
<1>1. Init => LateInv
  BY DEF Init
<1>2. TypeOK /\ TypeOK' /\ LateInv /\ [Next]_vars => LateInv'
  <2> SUFFICES ASSUME TypeOK, TypeOK', LateInv, [Next]_vars, transport = "rtu"
               PROVE  LateInv'
    BY TransportFixed
  <2>1. CASE UNCHANGED vars
    BY <2>1 DEF vars
  <2>2. CASE RxRequest
    <3>1. PICK f \in Arrived : in = <<f>> /\ ~f.late
      BY <2>2 DEF RxRequest
    <3>2. in' = <<>> /\ cur' = f
      BY <2>2, <3>1 DEF RxRequest
    <3> QED BY <3>1, <3>2
  <2>3. CASE RxError \/ Discard
    <3>1. PICK f \in Arrived : in = <<f>>
      BY <2>3 DEF RxError, Discard
    <3>2. in' = <<>> /\ cur' = cur
      BY <2>3, <3>1 DEF RxError, Discard, CloseLink
    <3> QED BY <3>2
  <2>4. CASE CheckAvail
    <3>1. in' = in /\ cur' = cur /\ (in # <<>> => pc' = "discard")
      BY <2>4 DEF CheckAvail, RxAvail
    <3> QED BY <3>1
  <2>5. CASE Arrive
    <3>1. PICK frame : in' = <<frame>> /\ frame.late = (pc \in {"handle", "respond"})
      BY <2>5 DEF Arrive
    <3>2. in' \in Seq(Arrived) /\ pc' = pc /\ cur' = cur
      BY <2>5 DEF Arrive, TypeOK
    <3>3. frame \in Arrived
      BY <3>1, <3>2
    <3> QED BY <3>1, <3>2, <3>3
  <2>6. CASE Exit \/ Bringup \/ Arm \/ RxTimeout \/ HandleRequest \/ PeerStall \/ PeerClose
             \/ mb_slave_shutdown
    BY <2>6 DEF Exit, Bringup, Arm, RxTimeout, HandleRequest, PeerStall, PeerClose,
       mb_slave_shutdown
  <2>7. CASE RxClosed \/ Tx
    BY <2>7 DEF RxClosed, Tx, CloseLink
  <2>8. ASSUME NEW i \in Ids, mb_slave_id_set(i)
        PROVE  LateInv'
    BY <2>8 DEF mb_slave_id_set
  <2> QED BY <2>1, <2>2, <2>3, <2>4, <2>5, <2>6, <2>7, <2>8 DEF Next, Task, Step, Environment
<1>3. LateInv => LateRequestIgnored
  <2> SUFFICES ASSUME LateInv, transport = "rtu", pc = "tx"
               PROVE  \A k \in DOMAIN in : ~in[k].late
    BY DEF LateRequestIgnored
  <2>1. CASE in = <<>>
    BY <2>1
  <2>2. CASE \E f \in Arrived : in = <<f>> /\ ~f.late
    BY <2>2
  <2> QED BY <2>1, <2>2
<1> QED BY <1>1, <1>2, <1>3, TypeCorrect, PTL DEF Spec

------------------------------------------------------------------------------
(* Requests and responses. *)

Busy == {"handle", "respond", "discard", "tx"}

\* Unread frames are numbered upwards and are newer than the request in hand,
\* which is newer than every answered one.
NumberInv ==
  /\ cur.n <= arrived
  /\ \A k \in DOMAIN in : cur.n < in[k].n /\ in[k].n <= arrived
  /\ \A j, k \in DOMAIN in : j < k => in[j].n < in[k].n
  /\ \A k \in DOMAIN sent : sent[k].n <= cur.n /\ (pc \in Busy => sent[k].n < cur.n)

\* What mb_pdu_rx left in the transaction is still there for mb_pdu_tx.
TransactionInv ==
  /\ pc \in Busy =>
       /\ transport = "tcp" => txn.unit = cur.unit /\ txn.id = cur.n
       /\ transport = "rtu" => cur.unit \in {txn.unit, Broadcast}
  /\ pc = "tx" => ~IsBroadcast(cur)

OrderInv == NumberInv /\ TransactionInv /\ AnswersOwnRequest

\* The numbers of what is in the queue behind its head.
LEMMA QueueTail ==
  ASSUME TypeOK, in # <<>>
  PROVE  /\ 1 \in DOMAIN in /\ Head(in) = in[1]
         /\ DOMAIN Tail(in) \subseteq Nat
         /\ \A k \in DOMAIN Tail(in) :
              k + 1 \in DOMAIN in /\ Tail(in)[k] = in[k + 1] /\ 1 < k + 1
<1>1. in \in Seq(Arrived) /\ Len(in) \in Nat /\ Len(in) >= 1 /\ DOMAIN in = 1 .. Len(in)
  BY DEF TypeOK
<1> QED BY <1>1

\* The oldest unread request is newer than the one handled and older than the rest.
LEMMA QueueNumbers ==
  ASSUME TypeOK, NumberInv, in # <<>>
  PROVE  /\ Head(in).n \in Nat /\ cur.n < Head(in).n /\ Head(in).n <= arrived
         /\ \A k \in DOMAIN Tail(in) : Head(in).n < Tail(in)[k].n /\ Tail(in)[k].n <= arrived
         /\ \A j, k \in DOMAIN Tail(in) : j < k => Tail(in)[j].n < Tail(in)[k].n
<1>1. \A j, k \in DOMAIN Tail(in) : j < k => j + 1 < k + 1
  BY QueueTail
<1>2. Head(in).n \in Nat
  BY QueueHead DEF Arrived
<1> QED BY <1>1, <1>2, QueueTail DEF NumberInv

\* The numbers are natural numbers.
LEMMA NumbersTyped ==
  ASSUME TypeOK
  PROVE  /\ cur.n \in Nat /\ arrived \in Nat
         /\ \A k \in DOMAIN in : in[k].n \in Nat
         /\ \A k \in DOMAIN sent : sent[k].n \in Nat
<1>1. cur.n \in Nat /\ arrived \in Nat
  BY BoundAssumption DEF TypeOK, Arrived, NoFrame
<1>2. \A f \in Arrived : f.n \in Nat
  BY DEF Arrived
<1>3. \A r \in Responses : r.n \in Nat
  BY DEF Responses
<1>4. in \in Seq(Arrived) /\ sent \in Seq(Responses)
  BY DEF TypeOK
<1>5. \A k \in DOMAIN in : in[k] \in Arrived
  BY <1>4
<1>6. \A k \in DOMAIN sent : sent[k] \in Responses
  BY <1>4
<1> QED BY <1>1, <1>2, <1>3, <1>5, <1>6

\* A step keeps the numbers of the requests in order.
LEMMA OrderNumbers ==
  ASSUME TypeOK, OrderInv, [Next]_vars
  PROVE  NumberInv'
<1> USE DEF NumberInv, Busy, slaveVars, taskVars, linkVars, histVars
<1> NumberInv
  BY DEF OrderInv
<1>0. /\ cur.n \in Nat /\ arrived \in Nat
      /\ \A k \in DOMAIN in : in[k].n \in Nat
      /\ \A k \in DOMAIN sent : sent[k].n \in Nat
  BY NumbersTyped
<1>1. CASE UNCHANGED vars
  BY <1>1 DEF vars
<1>2. CASE Exit \/ Bringup \/ Arm \/ RxTimeout \/ HandleRequest \/ CheckAvail
           \/ PeerStall \/ PeerClose \/ mb_slave_shutdown
  BY <1>2 DEF Exit, Bringup, Arm, RxTimeout, HandleRequest, CheckAvail, PeerStall, PeerClose,
     mb_slave_shutdown
<1>3. CASE RxClosed
  BY <1>3 DEF RxClosed, CloseLink
<1>4. CASE RxRequest
  <2>1. /\ cur' = Head(in) /\ in' = Tail(in) /\ sent' = sent /\ arrived' = arrived
        /\ in # <<>>
    BY <1>4 DEF RxRequest
  <2> QED BY <1>0, <2>1, QueueNumbers
<1>5. CASE RxError \/ Discard
  <2>1. /\ in' = Tail(in) \/ in' = <<>>
        /\ UNCHANGED <<cur, sent, arrived>> /\ pc' = "loop" /\ in # <<>>
    BY <1>5 DEF RxError, Discard, CloseLink
  <2>2. \A k \in DOMAIN Tail(in) : Tail(in)[k].n \in Nat
    BY <1>0, <2>1, QueueTail
  <2>3. CASE in' = Tail(in)
    <3>1. /\ Head(in).n \in Nat /\ cur.n < Head(in).n
          /\ \A k \in DOMAIN Tail(in) : Head(in).n < Tail(in)[k].n /\ Tail(in)[k].n <= arrived
          /\ \A j, k \in DOMAIN Tail(in) : j < k => Tail(in)[j].n < Tail(in)[k].n
      BY <2>1, QueueNumbers
    <3>2. \A k \in DOMAIN Tail(in) : cur.n < Tail(in)[k].n
      BY <1>0, <2>2, <3>1
    <3> QED BY <2>1, <2>3, <3>1, <3>2
  <2>4. CASE in' = <<>>
    BY <2>1, <2>4
  <2> QED BY <2>1, <2>3, <2>4
<1>6. CASE Tx
  <2>1. Response.n = cur.n /\ pc = "tx"
    BY <1>6 DEF Response, Tx
  <2>2. sent \in Seq(Responses)
    BY DEF TypeOK
  <2>3. /\ sent' = Append(sent, Response) \/ sent' = sent
        /\ in' = in \/ in' = <<>>
        /\ UNCHANGED <<cur, arrived>> /\ pc' = "loop"
    BY <1>6 DEF Tx, CloseLink
  <2>4. \A k \in DOMAIN sent' : sent'[k].n <= cur.n
    BY <1>0, <2>1, <2>2, <2>3
  <2> QED BY <2>3, <2>4
<1>7. CASE Arrive
  <2>1. PICK frame : /\ frame.n = arrived + 1
                     /\ in' = <<frame>> \/ in' = Append(in, frame)
    BY <1>7 DEF Arrive
  <2>2. in \in Seq(Arrived)
    BY DEF TypeOK
  <2>3. arrived' = arrived + 1 /\ UNCHANGED <<cur, sent, pc>>
    BY <1>7 DEF Arrive
  <2>4. CASE in' = <<frame>>
    BY <1>0, <2>1, <2>3, <2>4
  <2>5. CASE in' = Append(in, frame)
    <3>1. \A k \in DOMAIN in' : \/ k \in DOMAIN in /\ in'[k] = in[k]
                                \/ k = Len(in) + 1 /\ in'[k] = frame
      BY <2>2, <2>5
    <3>2. \A k \in DOMAIN in' : cur.n < in'[k].n /\ in'[k].n <= arrived'
      BY <1>0, <2>1, <2>2, <2>3, <3>1
    <3>3. \A j, k \in DOMAIN in' : j < k => in'[j].n < in'[k].n
      BY <1>0, <2>1, <2>2, <2>3, <2>5, <3>1
    <3> QED BY <1>0, <2>3, <3>2, <3>3
  <2> QED BY <2>1, <2>4, <2>5
<1>8. ASSUME NEW i \in Ids, mb_slave_id_set(i)
      PROVE  NumberInv'
  BY <1>8 DEF mb_slave_id_set
<1> QED BY <1>1, <1>2, <1>3, <1>4, <1>5, <1>6, <1>7, <1>8 DEF Next, Task, Step, Environment

\* A step keeps the transaction that of the request handled.
LEMMA OrderTransaction ==
  ASSUME TypeOK, OrderInv, [Next]_vars
  PROVE  TransactionInv'
<1> USE DEF TransactionInv, IsBroadcast, Busy, slaveVars, taskVars, linkVars, histVars
<1> TransactionInv
  BY DEF OrderInv
<1>0. transport' = transport
  BY TransportFixed
<1>1. CASE UNCHANGED vars
  BY <1>1 DEF vars
<1>2. CASE Exit \/ Bringup \/ Arm \/ RxTimeout \/ HandleRequest \/ RxClosed \/ RxError
           \/ Discard \/ Tx \/ Arrive \/ PeerStall \/ PeerClose \/ mb_slave_shutdown
  BY <1>2 DEF Exit, Bringup, Arm, RxTimeout, HandleRequest, RxClosed, RxError, Discard,
     Tx, Arrive, PeerStall, PeerClose, mb_slave_shutdown
<1>3. CASE RxRequest
  <2>1. /\ cur' = Head(in) /\ txn' = Taken(Head(in)) /\ Accepts(Head(in))
        /\ pc' = "handle"
    BY <1>3 DEF RxRequest
  <2> QED BY <1>0, <2>1 DEF Taken, Accepts
<1>4. CASE CheckAvail
  BY <1>0, <1>4 DEF CheckAvail
<1>5. ASSUME NEW i \in Ids, mb_slave_id_set(i)
      PROVE  TransactionInv'
  BY <1>5 DEF mb_slave_id_set
<1> QED BY <1>1, <1>2, <1>3, <1>4, <1>5 DEF Next, Task, Step, Environment

\* Only mb_pdu_tx adds to what was sent, and it adds one response.
LEMMA SentGrows ==
  ASSUME [Next]_vars
  PROVE  sent' = sent \/ (Tx /\ sent' = Append(sent, Response))
BY DEF Next, vars, Task, Step, Environment, Exit, Bringup, Arm, RxTimeout, RxClosed,
   RxRequest, RxError, HandleRequest, CheckAvail, Discard, Tx, Arrive, PeerStall, PeerClose,
   mb_slave_shutdown, mb_slave_id_set, histVars

\* A step answers only the request handled.
LEMMA OrderAnswers ==
  ASSUME TypeOK, OrderInv, [Next]_vars
  PROVE  AnswersOwnRequest'
<1>0. AnswersOwnRequest /\ NumberInv /\ TransactionInv /\ transport' = transport
  BY TransportFixed DEF OrderInv
<1>1. CASE sent' = sent
  BY <1>0, <1>1 DEF AnswersOwnRequest
<1>2. CASE Tx /\ sent' = Append(sent, Response)
  <2>1. pc = "tx" /\ transport \in {"rtu", "tcp"}
    BY <1>2, TransportAssumption DEF Tx, TypeOK
  <2>2. sent \in Seq(Responses) /\ Len(sent) \in Nat /\ DOMAIN sent = 1 .. Len(sent)
    BY DEF TypeOK
  <2>3. /\ Len(sent') = Len(sent) + 1
        /\ \A k \in 1 .. Len(sent) : sent'[k] = sent[k]
        /\ sent'[Len(sent) + 1] = Response
    BY <1>2, <2>2
  <2>4. /\ Response.unit = Response.to
        /\ transport = "tcp" => Response.id = Response.n
        /\ transport = "rtu" => Response.to # Broadcast
    BY <1>0, <2>1 DEF TransactionInv, Busy, IsBroadcast, Response
  <2>5. \A k \in 1 .. Len(sent) : sent[k].n < Response.n
    BY <1>0, <2>1, <2>2 DEF NumberInv, Busy, Response
  <2>6. \A k \in 1 .. Len(sent') : k \in 1 .. Len(sent) \/ k = Len(sent) + 1
    BY <2>2, <2>3
  <2>7. \A k \in 1 .. Len(sent') :
          /\ sent'[k].unit = sent'[k].to
          /\ transport = "tcp" => sent'[k].id = sent'[k].n
          /\ transport = "rtu" => sent'[k].to # Broadcast
    BY <1>0, <2>3, <2>4, <2>6 DEF AnswersOwnRequest
  <2>8. \A j, k \in 1 .. Len(sent') : j < k => sent'[j].n < sent'[k].n
    <3> SUFFICES ASSUME NEW j \in 1 .. Len(sent'), NEW k \in 1 .. Len(sent'), j < k
                 PROVE  sent'[j].n < sent'[k].n
      OBVIOUS
    <3>1. j \in 1 .. Len(sent)
      BY <2>2, <2>3
    <3>2. CASE k \in 1 .. Len(sent)
      BY <1>0, <2>3, <3>1, <3>2 DEF AnswersOwnRequest
    <3>3. CASE k = Len(sent) + 1
      BY <2>3, <2>5, <3>1, <3>3
    <3> QED BY <2>6, <3>2, <3>3
  <2> QED BY <1>0, <2>7, <2>8 DEF AnswersOwnRequest
<1> QED BY <1>1, <1>2, SentGrows

\* Responses go out at most once per request, in the order of the requests, to
\* the unit and with the transaction id of the request, and never to a
\* broadcast: from mb_pdu_rx to mb_pdu_tx the transaction stays the request's.
THEOREM AnswersAlwaysOwn == Spec => []AnswersOwnRequest
<1>1. Init => OrderInv
  BY DEF Init, OrderInv, NumberInv, TransactionInv, AnswersOwnRequest, Busy, NoFrame
<1>2. TypeOK /\ OrderInv /\ [Next]_vars => OrderInv'
  BY OrderNumbers, OrderTransaction, OrderAnswers DEF OrderInv
<1>3. OrderInv => AnswersOwnRequest
  BY DEF OrderInv
<1> QED BY <1>1, <1>2, <1>3, TypeCorrect, PTL DEF Spec

------------------------------------------------------------------------------
(* What a request does to the application's tables, and what its response
   says of them: for every request, every table and whatever the callbacks
   return. *)

\* Outcome o of request p changes tables m only where p says, and not together
\* with an exception, unless a get callback was called as well.
Confined(o, m, p) ==
  LET w == Writes(p) IN
    /\ \A t \in Tables : \A x \in DOMAIN m[t] :
         o.mem[t][x] # m[t][x] => t = w.t /\ x \in w.a .. w.a + w.q - 1
    /\ o.mem # m /\ o.tx < 0 => \E c \in o.calls : c.op = "get"

\* What WritesTakeEffect and ReadsAreCurrent say of an outcome
Stored(o, p) ==
  o.tx > 0 => LET w == Writes(p) IN
                \A k \in 1 .. w.q : o.mem[w.t][w.a + k - 1] = w.values[k]

Fetched(o, p) ==
  o.tx > 0 /\ p.function \in BitReads \cup RegReads =>
    /\ o.tx = sizeof_read_response +
         (IF p.function \in BitReads THEN Len(o.data) \div 8 ELSE 2 * Len(o.data))
    /\ \A k \in 1 .. Len(o.data) :
         o.data[k] = IF k <= p.quantity
                     THEN o.mem[ReadTable(p.function)][p.address + k - 1] ELSE 0

Effect(o, m, p) == Confined(o, m, p) /\ Stored(o, p) /\ Fetched(o, p)

\* The set callback stores the values, and nothing else.
LEMMA SetEffect ==
  ASSUME NEW m, IsMemory(m), NEW t \in Tables, NEW a \in Nat, NEW q \in Nat,
         a + q <= Size[t], NEW values
  PROVE  /\ \A k \in 1 .. q : Set(m, t, a, q, values)[t][a + k - 1] = values[k]
         /\ \A u \in Tables : \A x \in DOMAIN m[u] :
              Set(m, t, a, q, values)[u][x] # m[u][x] => u = t /\ x \in a .. a + q - 1
<1> DEFINE n == Set(m, t, a, q, values)
<1>1. DOMAIN m = Tables /\ DOMAIN m[t] = 0 .. Size[t] - 1 /\ Size[t] \in Nat
  BY TableAssumption DEF IsMemory
<1>2. n[t] = [x \in 0 .. Size[t] - 1 |-> IF a <= x /\ x < a + q
                                         THEN values[x - a + 1] ELSE m[t][x]]
  BY <1>1 DEF Set
<1>3. \A u \in Tables \ {t} : n[u] = m[u]
  BY <1>1 DEF Set
<1>4. ASSUME NEW k \in 1 .. q
      PROVE  n[t][a + k - 1] = values[k]
  <2>1. /\ a + k - 1 \in 0 .. Size[t] - 1 /\ a <= a + k - 1 /\ a + k - 1 < a + q
        /\ (a + k - 1) - a + 1 = k
    BY <1>1
  <2> QED BY <1>2, <2>1
<1>5. ASSUME NEW u \in Tables, NEW x \in DOMAIN m[u], n[u][x] # m[u][x]
      PROVE  u = t /\ x \in a .. a + q - 1
  <2>1. u = t
    BY <1>3, <1>5
  <2>2. x \in 0 .. Size[t] - 1
    BY <1>1, <2>1
  <2>3. a <= x /\ x < a + q
    BY <1>2, <1>5, <2>1, <2>2
  <2> QED BY <2>1, <2>2, <2>3
<1> QED BY <1>4, <1>5

\* A request that is turned down, by the handler or by the callback, does
\* nothing.
LEMMA FailureEffect ==
  ASSUME NEW m, NEW p, NEW o, o.mem = m, o.tx \in Int, o.tx <= 0
  PROVE  Effect(o, m, p)
<1>1. ~(o.tx > 0)
  OBVIOUS
<1> QED BY <1>1 DEF Effect, Confined, Stored, Fetched

\* An early return has no effect.
LEMMA ReturnEffect ==
  ASSUME NEW m, NEW p, NEW tx \in Int, tx <= 0
  PROVE  Effect(Return(m, tx), m, p)
BY FailureEffect DEF Return, Outcome

\* A request that writes and reads nothing does nothing, whatever it returns.
LEMMA OtherEffect ==
  ASSUME NEW m, NEW p, NEW tx \in Int, p.function \notin BitReads \cup RegReads,
         Writes(p).q = 0
  PROVE  Effect(Return(m, tx), m, p)
BY DEF Effect, Confined, Stored, Fetched, Return, Outcome

\* Exceptions are negative.
LEMMA ErrorSigns ==
  /\ \A e \in Exception \cup {0} : e \in Int /\ e <= 0
  /\ CallbackResults \subseteq Exception \cup {0}
BY Codes, CallbackAssumption

\* A write that passed its checks, of what the request asks for.
LEMMA WriteEffect ==
  ASSUME NEW m, IsMemory(m), NEW p, NEW t \in Tables, NEW a \in Nat, NEW q \in Nat,
         a + q <= Size[t], NEW values, NEW bytes, NEW response \in Nat,
         NEW s \in CallbackResults,
         p.function \notin BitReads \cup RegReads,
         Writes(p) = [t |-> t, a |-> a, q |-> q, values |-> values]
  PROVE  Effect(Write(m, t, a, q, values, bytes, response, s), m, p)
<1>0. PICK o : o = Write(m, t, a, q, values, bytes, response, s)
  OBVIOUS
<1>1. CASE s # 0
  <2>1. o.mem = m /\ o.tx = s
    BY <1>0, <1>1 DEF Write, Outcome
  <2>2. s \in Int /\ s <= 0
    BY ErrorSigns
  <2> QED BY <1>0, <2>1, <2>2, FailureEffect
<1>2. CASE s = 0
  <2>1. o.mem = Set(m, t, a, q, values) /\ o.tx = response
    BY <1>0, <1>2 DEF Write, Outcome
  <2>2. ~(o.tx < 0)
    BY <2>1
  <2>3. Confined(o, m, p)
    BY <2>1, <2>2, SetEffect DEF Confined
  <2>4. Stored(o, p)
    BY <2>1, SetEffect DEF Stored
  <2>5. Fetched(o, p)
    BY DEF Fetched
  <2> QED BY <1>0, <2>3, <2>4, <2>5 DEF Effect
<1> QED BY <1>1, <1>2

\* The function codes that read bits, read registers and write are told apart.
LEMMA FunctionCodes ==
  ASSUME NEW p
  PROVE  /\ p.function \in BitReads \cup (RegReads \ {PDU_READ_WRITE_HOLDING_REGISTERS})
              => Writes(p).q = 0
         /\ BitReads \cap RegReads = {}
<1> USE DEF BitReads, RegReads, PDU_READ_COILS, PDU_READ_INPUTS, PDU_READ_HOLDING_REGISTERS,
            PDU_READ_INPUT_REGISTERS, PDU_READ_WRITE_HOLDING_REGISTERS
<1>1. BitReads \cap RegReads = {}
  OBVIOUS
<1>2. ASSUME p.function \in {1, 2, 3, 4}
      PROVE  Writes(p).q = 0
  BY <1>2 DEF Writes, PDU_WRITE_COIL, PDU_WRITE_HOLDING_REGISTER, PDU_WRITE_COILS,
     PDU_WRITE_HOLDING_REGISTERS
<1> QED BY <1>1, <1>2

\* mb_slave_read_bits
LEMMA ReadBitsEffect ==
  ASSUME NEW m, IsMemory(m), NEW p \in Pdu, NEW g \in CallbackResults,
         p.function \in BitReads, NEW t \in Tables, t = ReadTable(p.function)
  PROVE  Effect(mb_slave_read_bits(m, t, p, g), m, p)
<1>1. PICK a \in Nat, q \in Nat : a = p.address /\ q = p.quantity
  BY PduFields
<1>2. CASE ReadError(t, a, q, 2000) # 0
  BY <1>1, <1>2, ErrorCodes, ErrorSigns, ReturnEffect DEF mb_slave_read_bits
<1>3. CASE ReadError(t, a, q, 2000) = 0
  <2>1. q >= 1 /\ q <= 2000
    BY <1>3, ReadChecked
  <2>2. PICK count \in Nat : count = NumBytes(q)
    BY <2>1, NumBytesBound
  <2>3. PICK n \in Nat : n = 8 * count /\ n \div 8 = count
    <3>1. 8 * count \in Nat /\ (8 * count) \div 8 = count
      OBVIOUS
    <3> QED BY <3>1
  <2>4. PICK o : o = Read(m, t, a, q, count, GetBits(m, t, a, q, n), g)
    OBVIOUS
  <2>5. mb_slave_read_bits(m, t, p, g) = o
    BY <1>1, <1>3, <2>2, <2>3, <2>4 DEF mb_slave_read_bits
  <2>6. o.mem = m
    BY <2>4 DEF Read, Outcome
  <2>7. Confined(o, m, p) /\ Stored(o, p)
    BY <2>6, FunctionCodes DEF Confined, Stored
  <2>8. CASE g # 0
    <3>1. o.tx = g /\ g \in Int /\ g <= 0
      BY <2>4, <2>8, ErrorSigns DEF Read, Outcome
    <3> QED BY <2>5, <2>6, <3>1, FailureEffect
  <2>9. CASE g = 0
    <3>1. o.tx = sizeof_read_response + count /\ o.data = GetBits(m, t, a, q, n)
      BY <2>4, <2>9 DEF Read, Outcome
    <3>2. Len(o.data) = n /\ \A k \in 1 .. n :
            o.data[k] = IF k <= q THEN m[t][a + k - 1] ELSE 0
      BY <3>1 DEF GetBits
    <3>3. Fetched(o, p)
      BY <1>1, <2>3, <2>6, <3>1, <3>2 DEF Fetched
    <3> QED BY <2>5, <2>7, <3>3 DEF Effect
  <2> QED BY <2>8, <2>9
<1> QED BY <1>2, <1>3

\* The read half of the handlers of registers, in tables n
RegisterRead(n, p, g) ==
  Read(n, ReadTable(p.function), p.address, p.quantity, (2 * p.quantity) % 256,
       Get(n, ReadTable(p.function), p.address, p.quantity), g)

\* Registers fetched by the get callback are those of the table.
LEMMA FetchRegisters ==
  ASSUME NEW n, NEW p \in Pdu, NEW g \in CallbackResults, p.function \in RegReads,
         p.quantity <= 125, NEW o, o.mem = n,
         o.tx = RegisterRead(n, p, g).tx, o.data = RegisterRead(n, p, g).data
  PROVE  Fetched(o, p)
<1>0. PICK a \in Nat, q \in Nat : a = p.address /\ q = p.quantity /\ q <= 125
  BY PduFields
<1> DEFINE t == ReadTable(p.function)
<1>1. CASE g # 0
  <2>1. o.tx = g /\ g \in Int /\ g <= 0
    BY <1>1, ErrorSigns DEF RegisterRead, Read, Outcome
  <2>2. ~(o.tx > 0)
    BY <2>1
  <2> QED BY <2>2 DEF Fetched
<1>2. CASE g = 0
  <2>1. (2 * q) % 256 = 2 * q
    BY <1>0
  <2>2. o.tx = sizeof_read_response + 2 * q /\ o.data = Get(n, t, a, q)
    BY <1>0, <1>2, <2>1 DEF RegisterRead, Read, Outcome
  <2>3. Get(n, t, a, q) = [i \in 1 .. q |-> n[t][a + i - 1]]
    BY DEF Get
  <2>4. PICK data : data = [i \in 1 .. q |-> n[t][a + i - 1]]
    OBVIOUS
  <2>5. Len(data) = q /\ \A k \in 1 .. q : data[k] = n[t][a + k - 1] /\ k <= q
    BY <2>4
  <2>6. p.function \notin BitReads
    BY FunctionCodes
  <2>7. o.data = data
    BY <2>2, <2>3, <2>4
  <2>8. /\ o.tx = sizeof_read_response + 2 * Len(o.data)
        /\ \A k \in 1 .. Len(o.data) :
             o.data[k] = IF k <= p.quantity
                         THEN o.mem[ReadTable(p.function)][p.address + k - 1] ELSE 0
    BY <1>0, <2>2, <2>5, <2>7
  <2> QED BY <2>6, <2>8 DEF Fetched
<1> QED BY <1>1, <1>2

\* mb_slave_read_registers
LEMMA ReadRegistersEffect ==
  ASSUME NEW m, IsMemory(m), NEW p \in Pdu, NEW g \in CallbackResults,
         p.function \in RegReads \ {PDU_READ_WRITE_HOLDING_REGISTERS},
         NEW t \in Tables, t = ReadTable(p.function)
  PROVE  Effect(mb_slave_read_registers(m, t, p, g), m, p)
<1>1. PICK a \in Nat, q \in Nat : a = p.address /\ q = p.quantity
  BY PduFields
<1>2. CASE ReadError(t, a, q, 125) # 0
  BY <1>1, <1>2, ErrorCodes, ErrorSigns, ReturnEffect DEF mb_slave_read_registers
<1>3. CASE ReadError(t, a, q, 125) = 0
  <2>1. q <= 125
    BY <1>3, ReadChecked
  <2>2. PICK o : o = RegisterRead(m, p, g)
    OBVIOUS
  <2>3. mb_slave_read_registers(m, t, p, g) = o
    BY <1>1, <1>3, <2>2 DEF mb_slave_read_registers, RegisterRead
  <2>4. o.mem = m
    BY <2>2 DEF RegisterRead, Read, Outcome
  <2>5. Confined(o, m, p) /\ Stored(o, p)
    BY <2>4, FunctionCodes DEF Confined, Stored
  <2>6. Fetched(o, p)
    BY <1>1, <2>1, <2>2, <2>4, FetchRegisters
  <2> QED BY <2>3, <2>5, <2>6 DEF Effect
<1> QED BY <1>2, <1>3

\* What a request asks to be written, by its function code.
LEMMA WritesOf ==
  ASSUME NEW p
  PROVE  /\ p.function = PDU_WRITE_COIL =>
              \E v : /\ v = IF p.quantity = 0 THEN 0 ELSE 1
                     /\ Writes(p) = [t |-> "coils", a |-> p.address, q |-> 1, values |-> <<v>>]
         /\ p.function = PDU_WRITE_HOLDING_REGISTER =>
              Writes(p) = [t |-> "holding_registers", a |-> p.address, q |-> 1,
                           values |-> <<p.quantity>>]
         /\ p.function = PDU_WRITE_COILS =>
              Writes(p) = [t |-> "coils", a |-> p.address, q |-> p.quantity,
                           values |-> p.data]
         /\ p.function = PDU_WRITE_HOLDING_REGISTERS =>
              Writes(p) = [t |-> "holding_registers", a |-> p.address, q |-> p.quantity,
                           values |-> p.data]
         /\ p.function = PDU_READ_WRITE_HOLDING_REGISTERS =>
              Writes(p) = [t |-> "holding_registers", a |-> p.write_address,
                           q |-> p.write_quantity, values |-> p.data]
<1> USE DEF PDU_WRITE_COIL, PDU_WRITE_HOLDING_REGISTER, PDU_WRITE_COILS,
            PDU_WRITE_HOLDING_REGISTERS, PDU_READ_WRITE_HOLDING_REGISTERS
<1>1. /\ p.function = 6 => p.function # 5
      /\ p.function = 15 => p.function # 5 /\ p.function # 6
      /\ p.function = 16 => p.function # 5 /\ p.function # 6 /\ p.function # 15
      /\ p.function = 23 => p.function # 5 /\ p.function # 6 /\ p.function # 15
                            /\ p.function # 16
  OBVIOUS
<1> QED BY <1>1, Zenon DEF Writes

\* The single writes: one element, and the value of the request in it.
LEMMA WriteSingleEffect ==
  ASSUME NEW m, IsMemory(m), NEW p \in Pdu, NEW s \in CallbackResults
  PROVE  /\ p.function = PDU_WRITE_COIL
              => Effect(mb_slave_write_bit(m, "coils", p, s), m, p)
         /\ p.function = PDU_WRITE_HOLDING_REGISTER
              => Effect(mb_slave_write_register(m, "holding_registers", p, s), m, p)
<1>1. \A e \in Exception \cup {0} : Effect(Return(m, e), m, p)
  BY ErrorSigns, ReturnEffect
<1>2. EILLEGAL_DATA_VALUE \in Exception /\ sizeof_write_single \in Nat
  BY DEF Exception, sizeof_write_single
<1>3. "coils" \in Tables /\ "holding_registers" \in Tables
  BY DEF Tables
<1>4. PICK a \in Nat : a = p.address
  BY PduFields
<1>5. ASSUME NEW t \in Tables, SingleError(t, a) = 0, NEW values,
             Writes(p) = [t |-> t, a |-> a, q |-> 1, values |-> values],
             p.function \in {PDU_WRITE_COIL, PDU_WRITE_HOLDING_REGISTER}
      PROVE  Effect(Write(m, t, a, 1, values, sizeof_write_single, sizeof_write_single, s), m, p)
  <2>1. a + 1 <= Size[t]
    BY <1>5, TableAssumption DEF SingleError, EILLEGAL_DATA_ADDRESS
  <2>2. p.function \notin BitReads \cup RegReads
    BY <1>5 DEF BitReads, RegReads, PDU_READ_COILS, PDU_READ_INPUTS,
       PDU_READ_HOLDING_REGISTERS, PDU_READ_INPUT_REGISTERS,
       PDU_READ_WRITE_HOLDING_REGISTERS, PDU_WRITE_COIL, PDU_WRITE_HOLDING_REGISTER
  <2>3. 1 \in Nat
    OBVIOUS
  <2> QED BY <1>2, <1>5, <2>1, <2>2, <2>3, WriteEffect
<1>6. ASSUME p.function = PDU_WRITE_COIL
      PROVE  Effect(mb_slave_write_bit(m, "coils", p, s), m, p)
  <2>1. CASE p.quantity \notin {0, 65280} \/ SingleError("coils", a) # 0
    BY <1>1, <1>2, <1>4, <2>1, ErrorCodes DEF mb_slave_write_bit
  <2>2. CASE p.quantity \in {0, 65280} /\ SingleError("coils", a) = 0
    <3>1. PICK v : /\ v = IF p.quantity = 0 THEN 0 ELSE 1
                   /\ Writes(p) = [t |-> "coils", a |-> a, q |-> 1, values |-> <<v>>]
      BY <1>4, <1>6, WritesOf
    <3>2. v = IF p.quantity = 65280 THEN 1 ELSE 0
      BY <2>2, <3>1
    <3>3. mb_slave_write_bit(m, "coils", p, s)
            = Write(m, "coils", a, 1, <<v>>, sizeof_write_single, sizeof_write_single, s)
      <4>1. CASE p.quantity = 0
        BY <1>4, <2>2, <3>2, <4>1 DEF mb_slave_write_bit
      <4>2. CASE p.quantity = 65280
        BY <1>4, <2>2, <3>2, <4>2 DEF mb_slave_write_bit
      <4> QED BY <2>2, <4>1, <4>2
    <3> QED BY <1>3, <1>5, <1>6, <2>2, <3>1, <3>3
  <2> QED BY <2>1, <2>2
<1>7. ASSUME p.function = PDU_WRITE_HOLDING_REGISTER
      PROVE  Effect(mb_slave_write_register(m, "holding_registers", p, s), m, p)
  <2>1. CASE SingleError("holding_registers", a) # 0
    BY <1>1, <1>4, <2>1, ErrorCodes DEF mb_slave_write_register
  <2>2. CASE SingleError("holding_registers", a) = 0
    <3>1. PICK values : values = <<p.quantity>>
      OBVIOUS
    <3>2. Writes(p) = [t |-> "holding_registers", a |-> a, q |-> 1, values |-> values]
      BY <1>4, <1>7, <3>1, WritesOf
    <3>3. mb_slave_write_register(m, "holding_registers", p, s)
            = Write(m, "holding_registers", a, 1, values, sizeof_write_single,
                    sizeof_write_single, s)
      BY <1>4, <2>2, <3>1 DEF mb_slave_write_register
    <3> QED BY <1>3, <1>5, <1>7, <2>2, <3>2, <3>3
  <2> QED BY <2>1, <2>2
<1> QED BY <1>6, <1>7

\* The multiple writes.
LEMMA WriteMultipleEffect ==
  ASSUME NEW m, IsMemory(m), NEW p \in Pdu, NEW s \in CallbackResults
  PROVE  /\ p.function = PDU_WRITE_COILS
              => Effect(mb_slave_write_bits(m, "coils", p, s), m, p)
         /\ p.function = PDU_WRITE_HOLDING_REGISTERS
              => Effect(mb_slave_write_registers(m, "holding_registers", p, s), m, p)
<1>1. \A e \in Exception \cup {0} : Effect(Return(m, e), m, p)
  BY ErrorSigns, ReturnEffect
<1>2. "coils" \in Tables /\ "holding_registers" \in Tables
  BY DEF Tables
<1>3. PICK a \in Nat, q \in Nat : a = p.address /\ q = p.quantity
  BY PduFields
<1>4. ASSUME NEW t \in Tables, a + q <= Size[t], NEW bytes,
             Writes(p) = [t |-> t, a |-> a, q |-> q, values |-> p.data],
             p.function \in {PDU_WRITE_COILS, PDU_WRITE_HOLDING_REGISTERS}
      PROVE  Effect(Write(m, t, a, q, p.data, bytes, sizeof_write_response, s), m, p)
  <2>1. p.function \notin BitReads \cup RegReads
    BY <1>4 DEF BitReads, RegReads, PDU_READ_COILS, PDU_READ_INPUTS,
       PDU_READ_HOLDING_REGISTERS, PDU_READ_INPUT_REGISTERS,
       PDU_READ_WRITE_HOLDING_REGISTERS, PDU_WRITE_COILS, PDU_WRITE_HOLDING_REGISTERS
  <2>2. sizeof_write_response \in Nat
    BY DEF sizeof_write_response
  <2> QED BY <1>4, <2>1, <2>2, WriteEffect
<1>5. ASSUME NEW t \in Tables, NEW limit \in Nat, NEW count,
             WriteError(t, a, q, limit, count, p, sizeof_write) = 0
      PROVE  a + q <= Size[t]
  BY <1>5, TableAssumption DEF WriteError, EILLEGAL_DATA_VALUE, EILLEGAL_DATA_ADDRESS
<1>6. ASSUME p.function = PDU_WRITE_COILS
      PROVE  Effect(mb_slave_write_bits(m, "coils", p, s), m, p)
  <2>1. Writes(p) = [t |-> "coils", a |-> a, q |-> q, values |-> p.data]
    BY <1>3, <1>6, WritesOf
  <2> DEFINE error == WriteError("coils", a, q, 1968, NumBytes(q), p, sizeof_write)
  <2>2. CASE error # 0
    BY <1>1, <1>3, <2>2, ErrorCodes DEF mb_slave_write_bits
  <2>3. CASE error = 0
    <3>1. mb_slave_write_bits(m, "coils", p, s)
            = Write(m, "coils", a, q, p.data, sizeof_write + NumBytes(q),
                    sizeof_write_response, s)
      BY <1>3, <2>3 DEF mb_slave_write_bits
    <3>2. a + q <= Size["coils"]
      BY <1>2, <1>5, <2>3
    <3> QED BY <1>2, <1>4, <1>6, <2>1, <3>1, <3>2
  <2> QED BY <2>2, <2>3
<1>7. ASSUME p.function = PDU_WRITE_HOLDING_REGISTERS
      PROVE  Effect(mb_slave_write_registers(m, "holding_registers", p, s), m, p)
  <2>1. Writes(p) = [t |-> "holding_registers", a |-> a, q |-> q, values |-> p.data]
    BY <1>3, <1>7, WritesOf
  <2> DEFINE error == WriteError("holding_registers", a, q, 123, 2 * q, p, sizeof_write)
  <2>2. CASE error # 0
    BY <1>1, <1>3, <2>2, ErrorCodes DEF mb_slave_write_registers
  <2>3. CASE error = 0
    <3>1. mb_slave_write_registers(m, "holding_registers", p, s)
            = Write(m, "holding_registers", a, q, p.data, sizeof_write + 2 * q,
                    sizeof_write_response, s)
      BY <1>3, <2>3 DEF mb_slave_write_registers
    <3>2. a + q <= Size["holding_registers"]
      BY <1>2, <1>5, <2>3
    <3> QED BY <1>2, <1>4, <1>7, <2>1, <3>1, <3>2
  <2> QED BY <2>2, <2>3
<1> QED BY <1>6, <1>7

\* Function 23: the write is made first, the read sees it.
LEMMA ReadWriteEffect ==
  ASSUME NEW m, IsMemory(m), NEW p \in Pdu, NEW s \in CallbackResults,
         NEW g \in CallbackResults, p.function = PDU_READ_WRITE_HOLDING_REGISTERS
  PROVE  Effect(mb_slave_read_write_registers(m, "holding_registers", p, s, g), m, p)
<1>1. PICK wa \in Nat, wq \in Nat, a \in Nat, q \in Nat :
         wa = p.write_address /\ wq = p.write_quantity /\ a = p.address /\ q = p.quantity
  BY PduFields
<1>2. PICK t \in Tables : t = "holding_registers"
  BY DEF Tables
<1>3. PICK count : count = 2 * wq
  OBVIOUS
<1>4. /\ Writes(p) = [t |-> t, a |-> wa, q |-> wq, values |-> p.data]
      /\ p.function \in RegReads /\ ReadTable(p.function) = t
  BY <1>1, <1>2, WritesOf DEF RegReads, ReadTable, PDU_READ_COILS, PDU_READ_INPUTS,
     PDU_READ_INPUT_REGISTERS, PDU_READ_WRITE_HOLDING_REGISTERS
<1>5. PICK w : w = Write(m, t, wa, wq, p.data, sizeof_read_write + count, 0, s)
  OBVIOUS
<1>6. PICK r : r = RegisterRead(w.mem, p, g)
  OBVIOUS
<1> DEFINE wError == WriteError(t, wa, wq, 121, count, p, sizeof_read_write)
           rError == ReadError(t, a, q, 125)
<1>7. mb_slave_read_write_registers(m, t, p, s, g)
        = IF wError # 0 THEN Return(m, wError)
          ELSE IF rError # 0 THEN Return(m, rError)
          ELSE IF w.tx # 0 THEN w
          ELSE [r EXCEPT !.calls = @ \cup w.calls]
  BY <1>1, <1>2, <1>3, <1>4, <1>5, <1>6 DEF mb_slave_read_write_registers, RegisterRead
<1>8. wError # 0 => Effect(Return(m, wError), m, p)
  BY ErrorCodes, ErrorSigns, ReturnEffect
<1>9. rError # 0 => Effect(Return(m, rError), m, p)
  BY ErrorCodes, ErrorSigns, ReturnEffect
<1>10. ASSUME w.tx # 0
       PROVE  Effect(w, m, p)
  <2>1. s # 0 /\ w.tx = s /\ w.mem = m
    BY <1>5, <1>10 DEF Write, Outcome
  <2> QED BY <2>1, ErrorSigns, FailureEffect
<1>11. ASSUME wError = 0, rError = 0, w.tx = 0
       PROVE  Effect([r EXCEPT !.calls = @ \cup w.calls], m, p)
  <2>1. wa + wq <= Size[t] /\ q <= 125
    <3>1. wa + wq <= Size[t]
      BY <1>11, TableAssumption DEF WriteError, EILLEGAL_DATA_VALUE, EILLEGAL_DATA_ADDRESS
    <3>2. 125 \in Nat
      OBVIOUS
    <3> QED BY <1>11, <3>1, <3>2, ReadChecked
  <2>2. w.mem = Set(m, t, wa, wq, p.data)
    <3>1. s = 0
      BY <1>5, <1>11, Zenon DEF Write, Outcome
    <3> QED BY <1>5, <3>1 DEF Write, Outcome
  <2>3. PICK o : o = [r EXCEPT !.calls = @ \cup w.calls]
    OBVIOUS
  <2>4. /\ o.mem = w.mem /\ o.tx = r.tx /\ o.data = r.data
        /\ \E c \in o.calls : c.op = "get"
    <3>1. PICK c : c = Call("get", t, a, q, sizeof_read_response + ((2 * q) % 256))
      OBVIOUS
    <3>2. c.op = "get"
      BY <3>1 DEF Call
    <3>3. CASE g = 0
      <4>1. r = Outcome(sizeof_read_response + ((2 * q) % 256), w.mem,
                        Get(w.mem, t, a, q), {c})
        BY <1>1, <1>4, <1>6, <3>1, <3>3 DEF RegisterRead, Read
      <4> QED BY <2>3, <3>2, <4>1 DEF Outcome
    <3>4. CASE g # 0
      <4>1. r = Outcome(g, w.mem, <<>>, {c})
        BY <1>1, <1>4, <1>6, <3>1, <3>4 DEF RegisterRead, Read
      <4> QED BY <2>3, <3>2, <4>1 DEF Outcome
    <3> QED BY <3>3, <3>4
  <2>5. Fetched(o, p)
    BY <1>1, <1>4, <1>6, <2>1, <2>4, FetchRegisters
  <2>6. Confined(o, m, p)
    BY <1>4, <2>1, <2>2, <2>4, SetEffect DEF Confined
  <2>7. Stored(o, p)
    BY <1>4, <2>1, <2>2, <2>4, SetEffect DEF Stored
  <2> QED BY <2>3, <2>5, <2>6, <2>7 DEF Effect
<1> HIDE DEF wError, rError
<1> QED BY <1>2, <1>7, <1>8, <1>9, <1>10, <1>11

\* Every outcome of the switch does what the request asks, and no more.
LEMMA HandleEffect ==
  ASSUME NEW m, IsMemory(m), NEW p \in Pdu, NEW bc \in BOOLEAN,
         NEW s \in CallbackResults, NEW g \in CallbackResults, NEW v \in Results(p)
  PROVE  Effect(Handle(m, p, bc, s, g, v), m, p)
<1>1. Effect(Return(m, 0), m, p)
  BY ReturnEffect
<1>2. p.function \in BitReads => \A t \in Tables :
        t = ReadTable(p.function) => Effect(mb_slave_read_bits(m, t, p, g), m, p)
  BY ReadBitsEffect
<1>3. p.function \in RegReads \ {PDU_READ_WRITE_HOLDING_REGISTERS} => \A t \in Tables :
        t = ReadTable(p.function) => Effect(mb_slave_read_registers(m, t, p, g), m, p)
  BY ReadRegistersEffect
<1>4. /\ p.function = PDU_READ_COILS => Effect(mb_slave_read_bits(m, "coils", p, g), m, p)
      /\ p.function = PDU_READ_INPUTS => Effect(mb_slave_read_bits(m, "inputs", p, g), m, p)
  <2>1. ReadTable(PDU_READ_COILS) = "coils" /\ ReadTable(PDU_READ_INPUTS) = "inputs"
    BY DEF ReadTable, PDU_READ_COILS, PDU_READ_INPUTS, PDU_READ_INPUT_REGISTERS
  <2> QED BY <1>2, <2>1 DEF Tables, BitReads
<1>5. /\ p.function = PDU_READ_INPUT_REGISTERS
           => Effect(mb_slave_read_registers(m, "input_registers", p, g), m, p)
      /\ p.function = PDU_READ_HOLDING_REGISTERS
           => Effect(mb_slave_read_registers(m, "holding_registers", p, g), m, p)
  <2>1. /\ ReadTable(PDU_READ_INPUT_REGISTERS) = "input_registers"
        /\ ReadTable(PDU_READ_HOLDING_REGISTERS) = "holding_registers"
    BY DEF ReadTable, PDU_READ_COILS, PDU_READ_INPUTS, PDU_READ_INPUT_REGISTERS,
       PDU_READ_HOLDING_REGISTERS
  <2>2. {PDU_READ_INPUT_REGISTERS, PDU_READ_HOLDING_REGISTERS}
          \subseteq RegReads \ {PDU_READ_WRITE_HOLDING_REGISTERS}
    BY DEF RegReads, PDU_READ_INPUT_REGISTERS, PDU_READ_HOLDING_REGISTERS,
       PDU_READ_WRITE_HOLDING_REGISTERS
  <2> QED BY <1>3, <2>1, <2>2 DEF Tables
<1>6. ASSUME p.function \notin {PDU_READ_COILS, PDU_READ_INPUTS, PDU_READ_INPUT_REGISTERS,
               PDU_READ_HOLDING_REGISTERS, PDU_WRITE_COIL, PDU_WRITE_HOLDING_REGISTER,
               PDU_WRITE_COILS, PDU_WRITE_HOLDING_REGISTERS,
               PDU_READ_WRITE_HOLDING_REGISTERS}
      PROVE  \A tx \in Int : Effect(Return(m, tx), m, p)
  <2>1. p.function \notin BitReads \cup RegReads
    BY <1>6 DEF BitReads, RegReads
  <2>2. Writes(p) = [t |-> "coils", a |-> 0, q |-> 0, values |-> <<>>]
    BY <1>6, Zenon DEF Writes
  <2> QED BY <2>1, <2>2, OtherEffect
<1>7. p.rx_count \in Int /\ EILLEGAL_FUNCTION \in Int
  BY PduFields DEF EILLEGAL_FUNCTION
<1>8. p.function \in DOMAIN Vendor => v \in Int
  <2>1. \A e \in Exception \cup (0 .. MAX_PDU_SIZE) : e \in Int
    BY Codes DEF MAX_PDU_SIZE
  <2> QED BY <2>1, CallbackAssumption DEF Results
<1>9. ASSUME p.function = PDU_DIAGNOSTICS
      PROVE  Effect(mb_slave_diagnostics(m, p), m, p)
  BY <1>6, <1>7, <1>9 DEF mb_slave_diagnostics, PDU_DIAGNOSTICS, PDU_READ_COILS,
     PDU_READ_INPUTS, PDU_READ_INPUT_REGISTERS, PDU_READ_HOLDING_REGISTERS, PDU_WRITE_COIL,
     PDU_WRITE_HOLDING_REGISTER, PDU_WRITE_COILS, PDU_WRITE_HOLDING_REGISTERS,
     PDU_READ_WRITE_HOLDING_REGISTERS
<1>10. ASSUME p.function \notin {PDU_READ_COILS, PDU_READ_INPUTS, PDU_READ_INPUT_REGISTERS,
               PDU_READ_HOLDING_REGISTERS, PDU_WRITE_COIL, PDU_WRITE_HOLDING_REGISTER,
               PDU_WRITE_COILS, PDU_WRITE_HOLDING_REGISTERS,
               PDU_READ_WRITE_HOLDING_REGISTERS}
       PROVE  Effect(mb_slave_vendor(m, p, v), m, p)
  BY <1>6, <1>7, <1>8, <1>10 DEF mb_slave_vendor
<1> QED BY <1>1, <1>4, <1>5, <1>9, <1>10, WriteSingleEffect, WriteMultipleEffect,
           ReadWriteEffect DEF Handle

------------------------------------------------------------------------------
(* The task. *)

\* Only the handlers change the tables, and between them and mb_pdu_tx the
\* request, its outcome and the tables stay as they are.
LEMMA TablesStep ==
  ASSUME TypeOK, [Next]_vars
  PROVE  \/ /\ pc = "handle"
            /\ cur' = cur
            /\ \E o : /\ Effect(o, mem, cur.pdu)
                      /\ mem' = o.mem
                      /\ out' = [tx |-> o.tx, data |-> o.data, calls |-> o.calls]
         \/ /\ mem' = mem
            /\ pc' \in {"respond", "tx"} =>
                 pc \in {"respond", "tx"} /\ cur' = cur /\ out' = out
<1> USE DEF slaveVars, taskVars, linkVars, histVars
<1>1. CASE HandleRequest
  <2>1. cur.pdu \in Pdu /\ IsMemory(mem) /\ IsBroadcast(cur) \in BOOLEAN
    BY <1>1 DEF HandleRequest, TypeOK, Arrived, IsBroadcast
  <2> QED BY <1>1, <2>1, HandleEffect DEF HandleRequest
<1>2. CASE UNCHANGED vars
  BY <1>2 DEF vars
<1>3. CASE Exit \/ Bringup \/ Arm \/ RxTimeout \/ RxClosed \/ RxRequest \/ RxError
           \/ CheckAvail \/ Discard \/ Tx
  BY <1>3 DEF Exit, Bringup, Arm, RxTimeout, RxClosed, RxRequest, RxError, CheckAvail,
     Discard, Tx
<1>4. CASE Arrive \/ PeerStall \/ PeerClose \/ mb_slave_shutdown
  BY <1>4 DEF Arrive, PeerStall, PeerClose, mb_slave_shutdown
<1>5. CASE \E i \in Ids : mb_slave_id_set(i)
  BY <1>5 DEF mb_slave_id_set
<1> QED BY <1>1, <1>2, <1>3, <1>4, <1>5 DEF Next, Task, Step, Environment

\* An acknowledged write is in the table, whole, when its response goes out.
THEOREM WritesAlwaysTakeEffect == Spec => []WritesTakeEffect
<1>1. Init => WritesTakeEffect
  BY DEF Init, WritesTakeEffect
<1>2. TypeOK /\ WritesTakeEffect /\ [Next]_vars => WritesTakeEffect'
  <2> SUFFICES ASSUME TypeOK, WritesTakeEffect, [Next]_vars
               PROVE  WritesTakeEffect'
    OBVIOUS
  <2>1. CASE mem' = mem /\ (pc' \in {"respond", "tx"} =>
                              pc \in {"respond", "tx"} /\ cur' = cur /\ out' = out)
    BY <2>1 DEF WritesTakeEffect
  <2>2. ASSUME NEW o, Effect(o, mem, cur.pdu), mem' = o.mem, cur' = cur,
               out' = [tx |-> o.tx, data |-> o.data, calls |-> o.calls]
        PROVE  WritesTakeEffect'
    <3>1. Stored(o, cur.pdu) /\ out'.tx = o.tx
      BY <2>2 DEF Effect
    <3> QED BY <2>2, <3>1 DEF WritesTakeEffect, Stored
  <2> QED BY <2>1, <2>2, TablesStep
<1> QED BY <1>1, <1>2, TypeCorrect, PTL DEF Spec

\* A response to a read holds the table as it is when the response goes out,
\* with the pad bits zero and the size of what it holds.
THEOREM ReadsAlwaysCurrent == Spec => []ReadsAreCurrent
<1>1. Init => ReadsAreCurrent
  BY DEF Init, ReadsAreCurrent
<1>2. TypeOK /\ ReadsAreCurrent /\ [Next]_vars => ReadsAreCurrent'
  <2> SUFFICES ASSUME TypeOK, ReadsAreCurrent, [Next]_vars
               PROVE  ReadsAreCurrent'
    OBVIOUS
  <2>1. CASE mem' = mem /\ (pc' \in {"respond", "tx"} =>
                              pc \in {"respond", "tx"} /\ cur' = cur /\ out' = out)
    BY <2>1 DEF ReadsAreCurrent
  <2>2. ASSUME NEW o, Effect(o, mem, cur.pdu), mem' = o.mem, cur' = cur,
               out' = [tx |-> o.tx, data |-> o.data, calls |-> o.calls]
        PROVE  ReadsAreCurrent'
    <3>1. Fetched(o, cur.pdu) /\ out'.tx = o.tx /\ out'.data = o.data
      BY <2>2 DEF Effect
    <3> QED BY <2>2, <3>1 DEF ReadsAreCurrent, Fetched
  <2> QED BY <2>1, <2>2, TablesStep
<1> QED BY <1>1, <1>2, TypeCorrect, PTL DEF Spec

\* No step changes the tables but the handling of a request, which changes
\* only what the request names, and nothing when it answers with an exception,
\* but for a get callback that fails after the set callback of function 23.
THEOREM WritesAlwaysConfined == Spec => WritesConfined
<1> DEFINE A == mem' # mem =>
                  LET w == Writes(cur.pdu) IN
                    /\ pc = "handle"
                    /\ out'.tx < 0 => \E c \in out'.calls : c.op = "get"
                    /\ \A t \in Tables : \A x \in DOMAIN mem[t] :
                         mem'[t][x] # mem[t][x] => t = w.t /\ x \in w.a .. w.a + w.q - 1
<1>1. TypeOK /\ [Next]_vars => [A]_vars
  <2> SUFFICES ASSUME TypeOK, [Next]_vars, mem' # mem
               PROVE  A
    OBVIOUS
  <2>1. pc = "handle"
    BY TablesStep
  <2>2. PICK o : /\ Effect(o, mem, cur.pdu)
                 /\ mem' = o.mem
                 /\ out' = [tx |-> o.tx, data |-> o.data, calls |-> o.calls]
    BY TablesStep
  <2>3. out'.tx = o.tx /\ out'.calls = o.calls
    BY <2>2
  <2> QED BY <2>1, <2>2, <2>3 DEF Effect, Confined
<1> QED BY <1>1, TypeCorrect, PTL DEF Spec, WritesConfined
==============================================================================
