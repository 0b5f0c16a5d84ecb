--------------------------- MODULE MbLinux_proofs ----------------------------
(***************************************************************************)
(* Proofs about the serial slave on Linux: while its threads keep up with  *)
(* the line, it receives every frame, and what it accepts was sent.        *)
(***************************************************************************)
EXTENDS MbLinux, FiniteSetTheorems, SequenceTheorems, TLAPS

\* The frame that began last
Frame == Sent[wire[Len(wire)]]

Good(f) == wire[f].unit \in {Me, 0} /\ ~wire[f].bad

GoodUpTo(n) == {f \in 1 .. n : Good(f)}

Chars == UNION {{Sent[k][i] : i \in 1 .. Len(Sent[k])} : k \in Kinds}

Types ==
  /\ fifo \in Seq(Chars) /\ rest \in Seq(Chars) /\ buf \in Seq(Chars)
  /\ Len(buf) <= MaxPdu
  /\ edge \in BOOLEAN
  /\ hook \in {"wait", "start1p5", "start3p5", "clear", "set"}
  /\ timers \subseteq {T1P5, T3P5} /\ flags \subseteq {T1P5, T3P5, RX_AVAIL}
  /\ wire \in Seq(Kinds)

\* All frames that have begun are over, and the task has had them.
Between ==
  /\ fifo = <<>> /\ rest = <<>> /\ ~edge /\ hook = "wait"
  /\ taken = Cardinality(GoodUpTo(Len(wire)))
  /\ \/ pc \in {"idle", "first"} /\ buf = <<>> /\ timers = {} /\ flags \subseteq {T3P5}
     \/ pc \in {"returned", "drain", "timer"} /\ timers = {} /\ flags = {}
     \/ pc = "silence" /\ timers = {T3P5} /\ flags = {}
     \/ pc = "silence" /\ timers = {} /\ flags = {T3P5}
  /\ pc = "returned" /\ ret >= 0 =>
       /\ wire # <<>> /\ Good(Len(wire))
       /\ slave_rx = wire[Len(wire)].unit /\ buf = Tail(Frame)

\* After the n characters of the frame that were read, some are in the FIFO and
\* the rest is still to come.
Line(n) ==
  /\ n + Len(fifo) + Len(rest) = Len(Frame)
  /\ \A i \in 1 .. Len(fifo) : fifo[i] = Frame[n + i]
  /\ \A i \in 1 .. Len(rest) : rest[i] = Frame[n + Len(fifo) + i]

Unread == buf = <<>> /\ fifo # <<>> /\ Line(0)

IdRead ==
  /\ slave_rx = Frame[1]
  /\ \A i \in 1 .. Len(buf) : buf[i] = Frame[i + 1]
  /\ Line(Len(buf) + 1)

Reading(d) == pc \in {"read", "take"} /\ dest = d

\* The last frame is being received: the task has read as far as pc says, and
\* characters in the FIFO are announced, or will be.
InFrame ==
  /\ wire # <<>> /\ taken = Cardinality(GoodUpTo(Len(wire) - 1))
  /\ \/ (pc \in {"idle", "first"} \/ Reading("id")) /\ Unread
     \/ (pc = "body" \/ Reading("body")) /\ IdRead
  /\ fifo = <<>> \/ RX_AVAIL \in flags \/ edge \/ hook # "wait" \/ pc \in {"read", "take"}

\* No timer has expired since its first character, and both run or are started.
Active ==
  /\ InFrame
  /\ T1P5 \notin flags
  /\ T3P5 \in flags => edge \/ hook \in {"start1p5", "start3p5", "clear"}
  /\ pc \in {"read", "take"} => T1P5 \notin got
  /\ edge => hook = "wait"
  /\ hook = "start3p5" => T1P5 \in timers
  /\ hook \in {"clear", "set"} \/ ReaderAtRest => timers = {T1P5, T3P5}

Expired ==
  /\ rest = <<>> /\ ReaderAtRest
  /\ T1P5 \in flags /\ T1P5 \notin timers
  /\ T3P5 \in flags <=> T3P5 \notin timers

\* It is over, and the task has not noticed yet
Silent ==
  /\ InFrame /\ Expired
  /\ Reading("body") => T1P5 \in got
  /\ pc = "take" => RX_AVAIL \notin flags

\* or has, and all of it is in the buffer.
Ended ==
  /\ wire # <<>> /\ taken = Cardinality(GoodUpTo(Len(wire) - 1))
  /\ IdRead /\ Expired
  /\ fifo = <<>> /\ RX_AVAIL \notin flags
  /\ \/ pc = "verify"
     \/ /\ pc \in {"tail", "clear"}
        /\ IF Good(Len(wire)) THEN error = 0 ELSE error \in {ESLAVE_ID, ECRC_FAIL}
  /\ pc = "clear" => T3P5 \in flags

\* What holds while the threads keep up with the line.
KeepInv == lags \in Nat /\ (lags = 0 => Types /\ (Between \/ Active \/ Silent \/ Ended))

------------------------------------------------------------------------------
(* Frames and pieces of them. *)

\* The first n characters of s move to the end of f.
LEMMA Moved ==
  ASSUME NEW S, NEW f \in Seq(S), NEW s \in Seq(S), NEW n \in 0 .. Len(s),
         NEW g, g = f \o SubSeq(s, 1, n), NEW r, r = SubSeq(s, n + 1, Len(s))
  PROVE  /\ g \in Seq(S) /\ Len(g) = Len(f) + n
         /\ \A i \in 1 .. Len(f) : g[i] = f[i]
         /\ \A i \in 1 .. n : g[Len(f) + i] = s[i]
         /\ r \in Seq(S) /\ Len(r) = Len(s) - n
         /\ \A i \in 1 .. Len(s) - n : r[i] = s[n + i]
<1>1. Len(s) \in Nat /\ Len(f) \in Nat /\ n \in Nat /\ n <= Len(s)
  OBVIOUS
<1>2. PICK h : h = SubSeq(s, 1, n)
  OBVIOUS
<1>3. h \in Seq(S) /\ Len(h) = n /\ \A i \in 1 .. n : h[i] = s[i]
  BY ONLY <1>1, <1>2, s \in Seq(S)
<1>4. r \in Seq(S) /\ Len(r) = Len(s) - n /\ \A i \in 1 .. Len(s) - n : r[i] = s[n + i]
  BY ONLY <1>1, s \in Seq(S), r = SubSeq(s, n + 1, Len(s))
<1>5. /\ f \o h \in Seq(S) /\ Len(f \o h) = Len(f) + Len(h)
      /\ \A i \in 1 .. Len(f) + Len(h) :
           (f \o h)[i] = IF i <= Len(f) THEN f[i] ELSE h[i - Len(f)]
  BY ONLY <1>3, f \in Seq(S), ConcatProperties
<1>6. PICK w : w = f \o h
  OBVIOUS
<1>7. g = w
  BY ONLY <1>2, <1>6, g = f \o SubSeq(s, 1, n)
<1>8. /\ w \in Seq(S) /\ Len(w) = Len(f) + n
      /\ \A i \in 1 .. Len(f) + n : w[i] = IF i <= Len(f) THEN f[i] ELSE h[i - Len(f)]
  BY ONLY <1>3, <1>5, <1>6
<1>9. \A i \in 1 .. Len(f) : w[i] = f[i]
  BY ONLY <1>1, <1>8
<1>10. \A i \in 1 .. n : w[Len(f) + i] = s[i]
  <2>1. TAKE i \in 1 .. n
  <2>2. Len(f) + i \in 1 .. Len(f) + n /\ ~(Len(f) + i <= Len(f)) /\ (Len(f) + i) - Len(f) = i
    BY ONLY <1>1, i \in 1 .. n
  <2>3. w[Len(f) + i] = h[(Len(f) + i) - Len(f)]
    BY ONLY <1>8, <2>2
  <2> QED BY ONLY <1>3, <2>2, <2>3, i \in 1 .. n
<1> QED BY ONLY <1>4, <1>7, <1>8, <1>9, <1>10

\* A frame is the station id, the PDU and two bytes of checksum.
LEMMA SentFrame ==
  ASSUME NEW k \in Kinds
  PROVE  /\ Sent[k] \in Seq(Chars)
         /\ Len(Sent[k]) \in 3 .. MaxPdu + 1
         /\ Sent[k][1] = k.unit
<1>1. /\ k.unit \in Byte /\ k.pdu \in Seq(Byte) /\ Len(k.pdu) + 2 <= MaxPdu /\ MaxPdu \in Nat
      /\ Len(k.pdu) \in Nat
  BY LinuxAssumption
<1>2. PICK u : u = <<k.unit>>
  OBVIOUS
<1>3. PICK x, y : Sent[k] = (u \o k.pdu) \o <<x, y>>
  <2>1. PICK sum : sum = Checksum(<<k.unit>> \o k.pdu, k.bad)
    OBVIOUS
  <2>2. PICK x, y : sum = <<x, y>>
    BY ONLY <2>1 DEF Checksum, CrcBytes
  <2>3. Sent[k] = (u \o k.pdu) \o sum
    BY <1>2, <2>1 DEF Sent
  <2> QED BY ONLY <2>2, <2>3
<1> DEFINE S == Byte \cup {x, y}
<1> HIDE DEF S
<1>4. Byte \subseteq S /\ x \in S /\ y \in S
  BY DEF S
<1>5. u \in Seq(S) /\ Len(u) = 1 /\ u[1] = k.unit
  BY ONLY <1>1, <1>2, <1>4
<1>6. k.pdu \in Seq(S)
  <2>1. k.pdu \in [1 .. Len(k.pdu) -> Byte]
    BY ONLY <1>1
  <2>2. k.pdu \in [1 .. Len(k.pdu) -> S]
    BY ONLY <1>4, <2>1
  <2>3. PICK n, v : n \in Nat /\ v \in [1 .. n -> S] /\ v = k.pdu
    BY ONLY <1>1, <2>2
  <2>4. v \in Seq(S)
    BY ONLY <2>3
  <2> QED BY ONLY <2>3, <2>4
<1>7. PICK e : e = <<x, y>> /\ e \in Seq(S) /\ Len(e) = 2
  <2>1. <<x, y>> \in Seq(S) /\ Len(<<x, y>>) = 2
    BY ONLY <1>4
  <2> QED BY ONLY <2>1
<1>8. PICK b : /\ b = u \o k.pdu /\ b \in Seq(S) /\ Len(b) = 1 + Len(k.pdu)
               /\ b[1] = k.unit
  <2>1. /\ u \o k.pdu \in Seq(S) /\ Len(u \o k.pdu) = Len(u) + Len(k.pdu)
        /\ \A i \in 1 .. Len(u) + Len(k.pdu) :
             (u \o k.pdu)[i] = IF i <= Len(u) THEN u[i] ELSE k.pdu[i - Len(u)]
    BY ONLY <1>5, <1>6, ConcatProperties
  <2>2. 1 \in 1 .. Len(u) + Len(k.pdu) /\ 1 <= Len(u)
    BY ONLY <1>1, <1>5
  <2> QED BY ONLY <1>5, <2>1, <2>2
<1>9. Sent[k] \in Seq(S) /\ Len(Sent[k]) = Len(k.pdu) + 3 /\ Sent[k][1] = k.unit
  <2>1. b \in Seq(S) /\ e \in Seq(S)
    BY ONLY <1>7, <1>8
  <2>2. /\ b \o e \in Seq(S) /\ Len(b \o e) = Len(b) + Len(e)
        /\ \A i \in 1 .. Len(b) + Len(e) :
             (b \o e)[i] = IF i <= Len(b) THEN b[i] ELSE e[i - Len(b)]
    BY ONLY <2>1, ConcatProperties
  <2>3. 1 \in 1 .. Len(b) + Len(e) /\ 1 <= Len(b) /\ Len(b) + Len(e) = Len(k.pdu) + 3
    BY ONLY <1>1, <1>7, <1>8
  <2>4. Sent[k] = b \o e
    BY ONLY <1>3, <1>7, <1>8
  <2> QED BY ONLY <1>8, <2>2, <2>3, <2>4
<1>10. Sent[k] \in Seq(Chars)
  <2>1. PICK n, v : n \in Nat /\ v = Sent[k] /\ n = Len(v) /\ v \in [1 .. n -> S]
    BY ONLY <1>9
  <2>2. \A i \in 1 .. n : v[i] \in Chars
    BY <2>1 DEF Chars
  <2>3. v \in [1 .. n -> Chars]
    BY ONLY <2>1, <2>2
  <2>4. v \in Seq(Chars)
    BY ONLY <2>1, <2>3
  <2> QED BY ONLY <2>1, <2>4
<1> QED BY ONLY <1>1, <1>9, <1>10

\* What the properties say of the frames does not change with the rest.
LEMMA SameFrames ==
  ASSUME wire' = wire
  PROVE  /\ Frame' = Frame
         /\ \A n : GoodUpTo(n)' = GoodUpTo(n)
         /\ \A f : Good(f)' <=> Good(f)
BY DEF Frame, Good, GoodUpTo

\* The last frame is one of Kinds, and fits.
LEMMA LastFrame ==
  ASSUME wire \in Seq(Kinds), wire # <<>>
  PROVE  /\ wire[Len(wire)] \in Kinds /\ Len(wire) \in Nat \ {0}
         /\ Frame \in Seq(Chars) /\ Len(Frame) \in 3 .. MaxPdu + 1
         /\ Frame[1] = wire[Len(wire)].unit
<1>1. Len(wire) \in Nat \ {0} /\ wire[Len(wire)] \in Kinds
  BY EmptySeq
<1> QED BY <1>1, SentFrame DEF Frame

\* Counting the good frames goes on with the last.
LEMMA CountLast ==
  ASSUME wire \in Seq(Kinds), wire # <<>>
  PROVE  /\ Cardinality(GoodUpTo(Len(wire) - 1)) \in Nat
         /\ Cardinality(GoodUpTo(Len(wire))) =
              Cardinality(GoodUpTo(Len(wire) - 1)) + IF Good(Len(wire)) THEN 1 ELSE 0
<1>1. PICK n \in Nat \ {0} : n = Len(wire)
  BY LastFrame
<1>2. IsFiniteSet(GoodUpTo(n - 1)) /\ n \notin GoodUpTo(n - 1)
  <2>1. IsFiniteSet(1 .. n - 1)
    BY FS_Interval
  <2>2. GoodUpTo(n - 1) \subseteq 1 .. n - 1
    BY DEF GoodUpTo
  <2>3. n \notin 1 .. n - 1
    OBVIOUS
  <2> QED BY <2>1, <2>2, <2>3, FS_Subset
<1>3. Cardinality(GoodUpTo(n - 1)) \in Nat
  BY <1>2, FS_CardinalityType
<1>4. CASE Good(n)
  <2>1. GoodUpTo(n) = GoodUpTo(n - 1) \cup {n}
    BY <1>4 DEF GoodUpTo
  <2>2. Cardinality(GoodUpTo(n - 1) \cup {n}) = Cardinality(GoodUpTo(n - 1)) + 1
    BY <1>2, FS_AddElement
  <2> QED BY <1>1, <1>3, <1>4, <2>1, <2>2
<1>5. CASE ~Good(n)
  <2>1. GoodUpTo(n) = GoodUpTo(n - 1)
    BY <1>5 DEF GoodUpTo
  <2> QED BY <1>1, <1>3, <1>5, <2>1
<1> QED BY <1>4, <1>5

------------------------------------------------------------------------------
(* The reader thread, the timers and the line. *)

Stages == Between \/ Active \/ Silent \/ Ended

\* Characters that arrive follow those in the FIFO.
LEMMA LineArrives ==
  ASSUME Types, wire # <<>>, NEW n \in Nat, Line(n), NEW m \in 1 .. Len(rest),
         fifo' = fifo \o SubSeq(rest, 1, m), rest' = SubSeq(rest, m + 1, Len(rest)), wire' = wire
  PROVE  Line(n)' /\ fifo' \in Seq(Chars) /\ rest' \in Seq(Chars) /\ fifo' # <<>>
<1>1. PICK f, r, g, q : f = fifo /\ r = rest /\ g = fifo' /\ q = rest'
  OBVIOUS
<1>2. f \in Seq(Chars) /\ r \in Seq(Chars) /\ m \in 0 .. Len(r)
  BY <1>1 DEF Types
<1>3. g = f \o SubSeq(r, 1, m) /\ q = SubSeq(r, m + 1, Len(r))
  BY <1>1
<1>4. /\ g \in Seq(Chars) /\ Len(g) = Len(f) + m
      /\ \A i \in 1 .. Len(f) : g[i] = f[i]
      /\ \A i \in 1 .. m : g[Len(f) + i] = r[i]
      /\ q \in Seq(Chars) /\ Len(q) = Len(r) - m
      /\ \A i \in 1 .. Len(r) - m : q[i] = r[m + i]
  BY ONLY <1>2, <1>3, Moved
<1>5. /\ n + Len(f) + Len(r) = Len(Frame)
      /\ \A i \in 1 .. Len(f) : f[i] = Frame[n + i]
      /\ \A i \in 1 .. Len(r) : r[i] = Frame[n + Len(f) + i]
  BY <1>1 DEF Line
<1>6. PICK a \in Nat, b \in Nat, t \in Nat : a = Len(f) /\ b = Len(r) /\ t = Len(Frame)
  BY <1>2, LastFrame DEF Types
<1>7. m \in Nat /\ m >= 1 /\ m <= b
  BY <1>1, <1>6
<1>8. n + Len(g) + Len(q) = Len(Frame)
  <2>1. Len(g) = a + m /\ Len(q) = b - m /\ n + a + b = Len(Frame)
    BY ONLY <1>4, <1>5, <1>6
  <2>2. n + (a + m) + (b - m) = n + a + b
    BY ONLY <1>6, <1>7, n \in Nat
  <2> QED BY ONLY <2>1, <2>2
<1>9. \A i \in 1 .. Len(g) : g[i] = Frame[n + i]
  <2>1. TAKE i \in 1 .. Len(g)
  <2>2. CASE i <= a
    BY ONLY <1>4, <1>5, <1>6, <1>7, <2>2, i \in 1 .. Len(g)
  <2>3. CASE i > a
    <3>1. PICK j \in 1 .. m : i = a + j /\ j \in 1 .. b /\ n + i = n + a + j
      <4>1. i - a \in 1 .. m /\ i = a + (i - a) /\ i - a \in 1 .. b /\ n + i = n + a + (i - a)
        BY ONLY <1>4, <1>6, <1>7, <2>3, i \in 1 .. Len(g), n \in Nat
      <4> QED BY ONLY <4>1
    <3> QED BY ONLY <1>4, <1>5, <1>6, <3>1
  <2> QED BY ONLY <1>4, <1>6, <1>7, <2>2, <2>3, i \in 1 .. Len(g)
<1>10. \A i \in 1 .. Len(q) : q[i] = Frame[n + Len(g) + i]
  <2>1. TAKE i \in 1 .. Len(q)
  <2>2. /\ i \in 1 .. b - m /\ m + i \in 1 .. b
        /\ n + a + (m + i) = n + (a + m) + i
    BY ONLY <1>4, <1>6, <1>7, i \in 1 .. Len(q), n \in Nat
  <2>3. q[i] = r[m + i] /\ r[m + i] = Frame[n + a + (m + i)]
    BY ONLY <1>4, <1>5, <1>6, <2>2
  <2> QED BY ONLY <1>4, <1>6, <2>2, <2>3
<1>11. g # <<>>
  BY ONLY <1>4, <1>6, <1>7, EmptySeq
<1>12. Frame' = Frame
  BY SameFrames
<1>13. Line(n)'
  BY <1>1, <1>8, <1>9, <1>10, <1>12 DEF Line
<1> QED BY <1>1, <1>4, <1>11, <1>13

\* A frame is received on while nothing of it moves.
LEMMA SameInFrame ==
  ASSUME InFrame, UNCHANGED <<fifo, rest, wire, taken, pc, dest, slave_rx, buf>>,
         fifo = <<>> \/ RX_AVAIL \in flags' \/ edge' \/ hook' # "wait" \/ pc \in {"read", "take"}
  PROVE  InFrame'
<1>1. Frame' = Frame /\ GoodUpTo(Len(wire) - 1)' = GoodUpTo(Len(wire) - 1)
  BY SameFrames
<1>2. Line(0) => Line(0)'
  BY <1>1 DEF Line
<1>3. Line(Len(buf) + 1) => Line(Len(buf) + 1)'
  BY <1>1 DEF Line
<1>4. Unread => Unread'
  BY <1>2 DEF Unread
<1>5. IdRead => IdRead'
  BY <1>1, <1>3 DEF IdRead
<1> QED BY <1>1, <1>4, <1>5 DEF InFrame, Reading

\* The reader thread has work only while a frame is received.
LEMMA ReaderSteps ==
  ASSUME Types, Stages, Reader
  PROVE  Types' /\ Active'
<1>1. Active
  BY DEF Stages, Reader, HookEnter, HookStart1p5, HookStart3p5, HookClear, HookSet,
         Between, Silent, Ended, Expired, ReaderAtRest
<1>2. UNCHANGED <<fifo, rest, wire, taken, pc, dest, got, slave_rx, buf>>
  BY DEF Reader, HookEnter, HookStart1p5, HookStart3p5, HookClear, HookSet, taskVars, lineVars,
         histVars
<1>3. /\ hook' # "wait" \/ RX_AVAIL \in flags'
  BY DEF Reader, HookEnter, HookStart1p5, HookStart3p5, HookClear, HookSet
<1>4. InFrame'
  BY <1>1, <1>2, <1>3, SameInFrame DEF Active
<1>5. Types'
  BY <1>2 DEF Types, Reader, HookEnter, HookStart1p5, HookStart3p5, HookClear, HookSet
<1>6. CASE HookEnter
  BY <1>1, <1>2, <1>4, <1>5, <1>6 DEF HookEnter, Active, ReaderAtRest, Types
<1>7. CASE HookStart1p5
  BY <1>1, <1>2, <1>4, <1>5, <1>7 DEF HookStart1p5, Active, ReaderAtRest, Types
<1>8. CASE HookStart3p5
  BY <1>1, <1>2, <1>4, <1>5, <1>8 DEF HookStart3p5, Active, ReaderAtRest, Types
<1>9. CASE HookClear
  BY <1>1, <1>2, <1>4, <1>5, <1>9 DEF HookClear, Active, ReaderAtRest, Types, RX_AVAIL
<1>10. CASE HookSet
  BY <1>1, <1>2, <1>4, <1>5, <1>10
     DEF HookSet, Active, ReaderAtRest, Types, RX_AVAIL, T1P5, T3P5
<1> QED BY <1>5, <1>6, <1>7, <1>8, <1>9, <1>10 DEF Reader

\* The task does not spin: a frame fits in its buffer.
LEMMA NeverSpins ==
  ASSUME Types, Stages
  PROVE  ~Spinning
<1> SUFFICES ASSUME Spinning
             PROVE  FALSE
  OBVIOUS
<1>1. pc \in {"body", "tail", "read", "take"} /\ Len(buf) = MaxPdu /\ fifo # <<>>
  BY DEF Spinning
<1>2. MaxPdu \in Nat \ {0, 1}
  BY LinuxAssumption
<1>3. Len(fifo) \in Nat \ {0} /\ Len(rest) \in Nat /\ buf # <<>>
  BY <1>1, <1>2, EmptySeq DEF Types
<1>4. IdRead /\ wire # <<>>
  BY <1>1, <1>3 DEF Stages, Between, Active, Silent, Ended, InFrame, Unread
<1>5. Len(Frame) \in 3 .. MaxPdu + 1
  BY <1>4, LastFrame DEF Types
<1>6. Len(buf) + 1 + Len(fifo) + Len(rest) = Len(Frame)
  BY <1>4 DEF IdRead, Line
<1> QED BY ONLY <1>1, <1>2, <1>3, <1>5, <1>6

\* A timer expires in silence: after the last frame, or after a transmission.
LEMMA ExpireSteps ==
  ASSUME Types, Stages, NEW timer \in {T1P5, T3P5}, Expire(timer), lags \in Nat, lags' = 0
  PROVE  Types' /\ Stages'
<1>1. /\ timer \in timers /\ ReaderAtRest /\ (TaskAtRest \/ Spinning)
      /\ timer = T3P5 /\ T1P5 \in timers => hook = "start3p5"
      /\ rest # <<>> => ~ReaderAtRest
      /\ timers' = timers \ {timer} /\ flags' = flags \cup {timer}
      /\ UNCHANGED <<fifo, edge, hook, pc, dest, got, slave_rx, buf, error, ret, rest, wire, taken>>
  BY DEF Expire, Lag, MidFrame, taskVars, lineVars
<1>2. /\ rest = <<>> /\ TaskAtRest /\ hook = "wait" /\ ~edge
      /\ timer = T3P5 => T1P5 \notin timers
  BY <1>1, NeverSpins DEF ReaderAtRest
<1>3. Types'
  BY <1>1 DEF Types
<1>4. /\ Frame' = Frame /\ GoodUpTo(Len(wire))' = GoodUpTo(Len(wire))
      /\ GoodUpTo(Len(wire) - 1)' = GoodUpTo(Len(wire) - 1)
      /\ Good(Len(wire))' <=> Good(Len(wire))
  BY <1>1, SameFrames
<1> USE DEF T1P5, T3P5, RX_AVAIL
<1>5. CASE Between
  <2>1. pc = "silence" /\ timers = {T3P5} /\ flags = {} /\ timer = T3P5
    BY <1>1, <1>5 DEF Between
  <2>2. timers' = {} /\ flags' = {T3P5}
    BY <1>1, <2>1
  <2>3. Between'
    BY <1>1, <1>4, <1>5, <2>1, <2>2 DEF Between
  <2> QED BY <1>3, <2>3 DEF Stages
<1>6. CASE Active
  <2>1. timers = {T1P5, T3P5} /\ timer = T1P5
    BY <1>1, <1>2, <1>6 DEF Active
  <2>2. pc \in {"idle", "body"}
    BY <1>2, <1>6 DEF Active, InFrame, TaskAtRest, Mask, Unread, Reading
  <2>3. InFrame'
    BY <1>1, <1>6, SameInFrame DEF Active, InFrame
  <2>4. Expired'
    BY <1>1, <1>2, <1>6, <2>1 DEF Active, Expired, ReaderAtRest
  <2>5. Silent'
    BY <1>1, <2>2, <2>3, <2>4 DEF Silent, Reading
  <2> QED BY <1>3, <2>5 DEF Stages
<1>7. CASE Silent
  <2>1. timer = T3P5 /\ T3P5 \in timers /\ T3P5 \notin flags
    BY <1>1, <1>7 DEF Silent, Expired
  <2>2. pc = "idle"
    BY <1>2, <1>7 DEF Silent, Expired, InFrame, TaskAtRest, Mask, Reading
  <2>3. InFrame'
    BY <1>1, <1>7, SameInFrame DEF Silent, InFrame
  <2>4. Expired'
    BY <1>1, <1>2, <1>7, <2>1 DEF Silent, Expired, ReaderAtRest
  <2>5. Silent'
    BY <1>1, <2>2, <2>3, <2>4 DEF Silent, Reading
  <2> QED BY <1>3, <2>5 DEF Stages
<1>8. CASE Ended
  <2>1. timer = T3P5 /\ T3P5 \in timers /\ T3P5 \notin flags
    BY <1>1, <1>8 DEF Ended, Expired
  <2>2. pc = "tail"
    BY <1>2, <1>8 DEF Ended, TaskAtRest, Mask
  <2>3. Expired'
    BY <1>1, <1>2, <1>8, <2>1 DEF Ended, Expired, ReaderAtRest
  <2>4. IdRead'
    BY <1>1, <1>4, <1>8 DEF Ended, IdRead, Line
  <2>5. Ended'
    BY <1>1, <1>4, <1>8, <2>1, <2>2, <2>3, <2>4 DEF Ended
  <2> QED BY <1>3, <2>5 DEF Stages
<1> QED BY <1>5, <1>6, <1>7, <1>8 DEF Stages

\* More of a frame arrives only while it is received.
LEMMA ContinueSteps ==
  ASSUME Types, Stages, Continue, lags \in Nat, lags' = 0
  PROVE  Types' /\ Active'
<1>1. /\ rest # <<>> /\ ReaderAtRest /\ (TaskAtRest \/ Spinning) /\ edge' = TRUE
      /\ UNCHANGED <<hook, timers, flags, pc, dest, got, slave_rx, buf, wire, taken>>
  BY DEF Continue, Lag, Arrive, MidFrame, taskVars
<1>2. PICK m \in 1 .. Len(rest) : /\ fifo' = fifo \o SubSeq(rest, 1, m)
                                  /\ rest' = SubSeq(rest, m + 1, Len(rest))
  BY DEF Continue, Arrive
<1>3. Active /\ InFrame /\ TaskAtRest /\ hook = "wait"
  BY <1>1, NeverSpins DEF Stages, Between, Active, Silent, Ended, Expired, ReaderAtRest
<1>4. pc \in {"idle", "first", "body"}
  BY <1>3 DEF InFrame, Reading, TaskAtRest, Mask
<1>5. wire # <<>> /\ Len(buf) + 1 \in Nat
  BY <1>3 DEF InFrame, Types
<1>6. ASSUME Unread
      PROVE  Unread' /\ fifo' \in Seq(Chars) /\ rest' \in Seq(Chars)
  <2>1. Line(0)' /\ fifo' \in Seq(Chars) /\ rest' \in Seq(Chars) /\ fifo' # <<>>
    BY <1>1, <1>2, <1>5, <1>6, LineArrives DEF Unread
  <2> QED BY <1>1, <1>6, <2>1 DEF Unread
<1>7. ASSUME IdRead
      PROVE  IdRead' /\ fifo' \in Seq(Chars) /\ rest' \in Seq(Chars)
  <2>1. PICK n \in Nat : n = Len(buf) + 1
    BY <1>5
  <2>2. Line(n)' /\ fifo' \in Seq(Chars) /\ rest' \in Seq(Chars)
    BY <1>1, <1>2, <1>5, <1>7, <2>1, LineArrives DEF IdRead
  <2>3. Frame' = Frame
    BY <1>1, SameFrames
  <2> QED BY <1>1, <1>7, <2>1, <2>2, <2>3 DEF IdRead
<1>8. fifo' \in Seq(Chars) /\ rest' \in Seq(Chars)
  BY <1>3, <1>6, <1>7 DEF InFrame
<1>9. GoodUpTo(Len(wire) - 1)' = GoodUpTo(Len(wire) - 1)
  BY <1>1, SameFrames
<1>10. InFrame'
  BY <1>1, <1>3, <1>4, <1>6, <1>7, <1>9 DEF InFrame, Reading
<1>11. Types'
  BY <1>1, <1>8 DEF Types
<1>12. Active'
  BY <1>1, <1>3, <1>4, <1>10 DEF Active, ReaderAtRest
<1> QED BY <1>11, <1>12

\* A frame begins when the slave is ready for it.
LEMMA BeginSteps ==
  ASSUME Types, Stages, Begin, lags \in Nat, lags' = 0
  PROVE  Types' /\ Active'
<1>1. /\ rest = <<>> /\ ReaderAtRest /\ TaskAtRest /\ timers = {} /\ edge' = TRUE
      /\ pc = "first" \/ (pc = "idle" /\ flags = {})
      /\ UNCHANGED <<hook, timers, flags, pc, dest, got, slave_rx, buf, taken>>
  BY DEF Begin, Lag, Arrive, MidFrame, taskVars
<1>2. PICK k \in Kinds : wire' = Append(wire, k) /\ Arrive(Sent[k])
  BY DEF Begin
<1>3. PICK m \in 1 .. Len(Sent[k]) : /\ fifo' = fifo \o SubSeq(Sent[k], 1, m)
                                     /\ rest' = SubSeq(Sent[k], m + 1, Len(Sent[k]))
  BY <1>2 DEF Arrive
<1>4. Between
  BY <1>1 DEF Stages, Active, Silent, Ended, Expired, InFrame, ReaderAtRest, TaskAtRest, Mask,
              T1P5, T3P5, RX_AVAIL
<1>5. /\ wire' \in Seq(Kinds) /\ wire' # <<>> /\ wire'[Len(wire')] = k
      /\ Len(wire') = Len(wire) + 1 /\ Len(wire) \in Nat
      /\ \A f \in 1 .. Len(wire) : wire'[f] = wire[f]
  <2>1. wire \in Seq(Kinds)
    BY DEF Types
  <2> QED BY <1>2, <2>1, AppendProperties, EmptySeq
<1>6. Frame' = Sent[k]
  BY <1>5 DEF Frame
<1>7. taken' = Cardinality(GoodUpTo(Len(wire) - 1)')
  <2>1. Len(wire') - 1 = Len(wire)
    BY <1>5
  <2>2. \A f \in 1 .. Len(wire) : Good(f)' <=> Good(f)
    BY <1>5 DEF Good
  <2>3. GoodUpTo(Len(wire) - 1)' = GoodUpTo(Len(wire))
    BY <2>1, <2>2 DEF GoodUpTo
  <2> QED BY <1>1, <1>4, <2>3 DEF Between
<1>8. PICK s, g, q : s = Sent[k] /\ g = fifo' /\ q = rest' /\ s \in Seq(Chars)
  BY SentFrame
<1>9. /\ g \in Seq(Chars) /\ Len(g) = m /\ \A i \in 1 .. m : g[i] = s[i]
      /\ q \in Seq(Chars) /\ Len(q) = Len(s) - m
      /\ \A i \in 1 .. Len(s) - m : q[i] = s[m + i]
      /\ m \in Nat /\ m >= 1 /\ Len(s) \in Nat /\ m <= Len(s)
  <2>1. PICK f : f = fifo /\ f = <<>> /\ f \in Seq(Chars) /\ Len(f) = 0
    BY <1>4, EmptySeq DEF Between
  <2>2. g = f \o SubSeq(s, 1, m) /\ q = SubSeq(s, m + 1, Len(s)) /\ m \in 1 .. Len(s)
    BY <1>3, <1>8, <2>1
  <2>3. m \in 0 .. Len(s) /\ m \in Nat /\ m >= 1 /\ Len(s) \in Nat /\ m <= Len(s)
    BY ONLY <1>8, <2>2
  <2>4. /\ g \in Seq(Chars) /\ Len(g) = Len(f) + m
        /\ \A i \in 1 .. m : g[Len(f) + i] = s[i]
        /\ q \in Seq(Chars) /\ Len(q) = Len(s) - m
        /\ \A i \in 1 .. Len(s) - m : q[i] = s[m + i]
    BY ONLY <1>8, <2>1, <2>2, <2>3, Moved
  <2>5. \A i \in 1 .. m : Len(f) + i = i
    BY ONLY <2>1, <2>3
  <2> QED BY ONLY <2>1, <2>3, <2>4, <2>5
<1>10. /\ 0 + Len(g) + Len(q) = Len(s)
       /\ \A i \in 1 .. Len(g) : g[i] = s[0 + i]
       /\ \A i \in 1 .. Len(q) : q[i] = s[0 + Len(g) + i]
       /\ g # <<>>
  BY ONLY <1>9, EmptySeq
<1>11. Unread'
  BY <1>1, <1>4, <1>6, <1>8, <1>10 DEF Unread, Line, Between, TaskAtRest, Mask
<1>12. InFrame'
  BY <1>1, <1>5, <1>7, <1>11 DEF InFrame
<1>13. Types'
  BY <1>1, <1>5, <1>8, <1>9 DEF Types
<1>14. Active'
  BY <1>1, <1>4, <1>12 DEF Active, Between, ReaderAtRest, T1P5, T3P5
<1> QED BY <1>13, <1>14

------------------------------------------------------------------------------
(* The task. *)

\* A call begins, or finds that something has arrived, or gives up.
LEMMA FirstSteps ==
  ASSUME Types, Stages, StartRx \/ FirstWait \/ FirstTimeout
  PROVE  Types' /\ Stages'
<1>1. UNCHANGED <<fifo, edge, hook, timers, flags, slave_rx, buf, error, ret, rest, wire, taken>>
  BY DEF StartRx, FirstWait, FirstTimeout, portVars, lineVars, histVars
<1>2. Types'
  BY <1>1 DEF Types
<1>3. /\ Frame' = Frame /\ GoodUpTo(Len(wire))' = GoodUpTo(Len(wire))
      /\ GoodUpTo(Len(wire) - 1)' = GoodUpTo(Len(wire) - 1)
  BY <1>1, SameFrames
<1>4. Unread => Unread'
  BY <1>1, <1>3 DEF Unread, Line
<1>5. CASE StartRx \/ FirstTimeout
  <2>1. pc \in {"idle", "first"} /\ pc' \in {"idle", "first"} /\ UNCHANGED <<dest, got>>
    BY <1>5 DEF StartRx, FirstTimeout
  <2>2. CASE Between
    <3>1. Between'
      BY <1>1, <1>3, <2>1, <2>2 DEF Between
    <3> QED BY <1>2, <3>1 DEF Stages
  <2>3. InFrame => InFrame'
    BY <1>1, <1>3, <1>4, <2>1 DEF InFrame, Reading
  <2>4. CASE Active
    <3>1. Active'
      BY <1>1, <2>1, <2>3, <2>4 DEF Active, ReaderAtRest
    <3> QED BY <1>2, <3>1 DEF Stages
  <2>5. CASE Silent
    <3>1. Silent'
      BY <1>1, <2>1, <2>3, <2>5 DEF Silent, Expired, ReaderAtRest, Reading
    <3> QED BY <1>2, <3>1 DEF Stages
  <2>6. ~Ended
    BY <2>1 DEF Ended
  <2> QED BY <2>2, <2>4, <2>5, <2>6 DEF Stages
<1>6. CASE FirstWait
  <2>1. /\ pc = "first" /\ {T1P5, RX_AVAIL} \cap flags # {} /\ got' = {T1P5, RX_AVAIL} \cap flags
        /\ dest' = "id" /\ pc' = "read"
    BY <1>6 DEF FirstWait, Wait, Mask
  <2>2. Active \/ Silent
    BY <2>1 DEF Stages, Between, Ended, T1P5, T3P5, RX_AVAIL
  <2>3. InFrame'
    BY <1>1, <1>3, <1>4, <2>1, <2>2 DEF Active, Silent, InFrame, Reading
  <2>4. CASE Active
    <3>1. Active'
      BY <1>1, <2>1, <2>3, <2>4 DEF Active, ReaderAtRest
    <3> QED BY <1>2, <3>1 DEF Stages
  <2>5. CASE Silent
    <3>1. Silent'
      BY <1>1, <2>1, <2>3, <2>5 DEF Silent, Expired, ReaderAtRest, Reading
    <3> QED BY <1>2, <3>1 DEF Stages
  <2> QED BY <2>2, <2>4, <2>5
<1> QED BY <1>5, <1>6

\* The task waits for the rest of a frame, and for the silence behind it.
LEMMA WaitSteps ==
  ASSUME Types, Stages, BodyWait \/ TailWait
  PROVE  Types' /\ Stages'
<1>1. UNCHANGED <<fifo, edge, hook, timers, flags, slave_rx, buf, ret, rest, wire, taken>>
  BY DEF BodyWait, TailWait, portVars, lineVars, histVars
<1>2. Types'
  BY <1>1 DEF Types
<1>3. /\ Frame' = Frame /\ GoodUpTo(Len(wire) - 1)' = GoodUpTo(Len(wire) - 1)
      /\ Good(Len(wire))' <=> Good(Len(wire))
  BY <1>1, SameFrames
<1>4. IdRead => IdRead'
  BY <1>1, <1>3 DEF IdRead, Line
<1>5. Expired => Expired'
  BY <1>1 DEF Expired, ReaderAtRest
<1> USE DEF T1P5, T3P5, RX_AVAIL
<1>6. CASE BodyWait
  <2>1. /\ pc = "body" /\ {T1P5, RX_AVAIL} \cap flags # {} /\ got' = {T1P5, RX_AVAIL} \cap flags
        /\ dest' = "body" /\ pc' = IF RX_AVAIL \in flags THEN "read" ELSE "verify"
    BY <1>6 DEF BodyWait, Wait, Mask
  <2>2. (Active \/ Silent) /\ InFrame /\ IdRead
    BY <2>1 DEF Stages, Active, Silent, InFrame, Between, Ended, Reading
  <2>3. CASE RX_AVAIL \in flags
    <3>1. InFrame'
      BY <1>1, <1>3, <1>4, <2>1, <2>2, <2>3 DEF InFrame, Reading
    <3>2. Active => Active'
      BY <1>1, <2>1, <2>3, <3>1 DEF Active, ReaderAtRest
    <3>3. Silent => Silent'
      BY <1>1, <1>5, <2>1, <2>3, <3>1 DEF Silent, Expired, Reading
    <3> QED BY <1>2, <2>2, <3>2, <3>3 DEF Stages
  <2>4. CASE RX_AVAIL \notin flags
    <3>1. Silent
      BY <2>1, <2>2, <2>4 DEF Active
    <3>2. fifo = <<>>
      BY <2>1, <2>2, <2>4, <3>1 DEF Silent, InFrame, Expired, ReaderAtRest
    <3>3. Ended'
      BY <1>1, <1>3, <1>4, <1>5, <2>1, <2>2, <2>4, <3>1, <3>2 DEF Silent, InFrame, Ended
    <3> QED BY <1>2, <3>3 DEF Stages
  <2> QED BY <2>3, <2>4
<1>7. CASE TailWait
  <2>1. /\ pc = "tail" /\ {T3P5, RX_AVAIL} \cap flags # {}
        /\ pc' = IF RX_AVAIL \in flags THEN "read" ELSE "clear"
        /\ error' = IF RX_AVAIL \in flags THEN EFRAME_NOK ELSE error
    BY <1>7 DEF TailWait, Wait, Mask
  <2>2. Ended
    BY <2>1 DEF Stages, Active, Silent, InFrame, Between, Reading
  <2>3. pc' = "clear" /\ error' = error /\ T3P5 \in flags
    BY <2>1, <2>2 DEF Ended
  <2>4. Ended'
    BY <1>1, <1>3, <1>4, <1>5, <2>1, <2>2, <2>3 DEF Ended
  <2> QED BY <1>2, <2>4 DEF Stages
<1> QED BY <1>6, <1>7

\* RX_AVAIL is cleared before the characters are taken.
LEMMA ReadClearStep ==
  ASSUME Types, Stages, ReadClear
  PROVE  Types' /\ Stages'
<1>1. /\ pc = "read" /\ pc' = "take" /\ flags' = flags \ {RX_AVAIL}
      /\ UNCHANGED <<fifo, edge, hook, timers, dest, got, slave_rx, buf, rest, wire, taken>>
  BY DEF ReadClear, lineVars, histVars
<1>2. Types'
  BY <1>1 DEF Types
<1>3. /\ Frame' = Frame /\ GoodUpTo(Len(wire) - 1)' = GoodUpTo(Len(wire) - 1)
  BY <1>1, SameFrames
<1>4. Active \/ Silent
  BY <1>1 DEF Stages, Between, Ended
<1>5. Unread => Unread'
  BY <1>1, <1>3 DEF Unread, Line
<1>6. IdRead => IdRead'
  BY <1>1, <1>3 DEF IdRead, Line
<1>7. InFrame'
  BY <1>1, <1>3, <1>4, <1>5, <1>6 DEF Active, Silent, InFrame, Reading
<1>8. Active => Active'
  BY <1>1, <1>7 DEF Active, ReaderAtRest, T1P5, T3P5, RX_AVAIL
<1>9. Silent => Silent'
  BY <1>1, <1>7 DEF Silent, Expired, ReaderAtRest, Reading, T1P5, T3P5, RX_AVAIL
<1> QED BY <1>2, <1>4, <1>8, <1>9 DEF Stages

\* The first read takes the station id alone.
LEMMA TakeId ==
  ASSUME Types, wire # <<>>, Unread, dest = "id", ReadTake
  PROVE  /\ IdRead' /\ Types' /\ pc' = "body" /\ got' = {}
         /\ flags' = flags \cup {RX_AVAIL} \/ (flags' = flags /\ fifo' = <<>>)
         /\ UNCHANGED <<edge, hook, timers, rest, wire, taken>>
<1>1. PICK f, g : f = fifo /\ g = fifo'
  OBVIOUS
<1>2. f \in Seq(Chars) /\ Len(f) \in Nat \ {0}
  BY <1>1, EmptySeq DEF Types, Unread
<1>3. /\ Least(Len(f), 1) = 1 /\ g = SubSeq(f, 2, Len(f))
      /\ flags' = IF Len(f) > 1 THEN flags \cup {RX_AVAIL} ELSE flags
      /\ slave_rx' = f[1] /\ buf' = buf /\ pc' = "body" /\ got' = {}
  <2>1. Least(Len(f), 1) = 1
    BY <1>2 DEF Least
  <2>2. /\ g = SubSeq(f, 1 + 1, Len(f)) /\ slave_rx' \in {f[1]} /\ buf' = buf
        /\ flags' = IF Len(f) > 1 THEN flags \cup {RX_AVAIL} ELSE flags
    BY <1>1, <2>1 DEF ReadTake, os_rtu_rx_avail, Room
  <2>3. pc' = "body" /\ got' = {}
    BY DEF ReadTake
  <2> QED BY <2>1, <2>2, <2>3
<1>4. UNCHANGED <<edge, hook, timers, dest, rest, wire, taken>>
  BY DEF ReadTake, lineVars, histVars
<1>5. /\ g \in Seq(Chars) /\ Len(g) = Len(f) - 1
      /\ \A i \in 1 .. Len(f) - 1 : g[i] = f[1 + i]
  <2>1. g = SubSeq(f, 1 + 1, Len(f)) /\ 1 <= Len(f)
    BY ONLY <1>2, <1>3
  <2>2. PICK n \in Nat : n = 1 /\ g = SubSeq(f, n + 1, Len(f)) /\ n <= Len(f)
    BY ONLY <2>1
  <2>3. /\ g \in Seq(Chars) /\ Len(g) = Len(f) - n
        /\ \A i \in 1 .. Len(f) - n : g[i] = f[n + i]
    <3>1. g = SubSeq(f, n + 1, Len(f)) /\ n <= Len(f)
      BY ONLY <2>2
    <3> QED BY ONLY <1>2, <3>1, n \in Nat
  <2> QED BY ONLY <2>2, <2>3
<1>6. PICK a \in Nat, b \in Nat : a = Len(f) /\ b = Len(rest) /\ a >= 1 /\ a + b = Len(Frame)
  <2>1. Len(rest) \in Nat /\ 0 + Len(f) + Len(rest) = Len(Frame)
    BY <1>1 DEF Types, Unread, Line
  <2>2. 0 + Len(f) + Len(rest) = Len(f) + Len(rest) /\ Len(f) >= 1 /\ Len(f) \in Nat
    BY ONLY <1>2, <2>1
  <2> QED BY ONLY <2>1, <2>2
<1>7. /\ \A i \in 1 .. a : f[i] = Frame[i]
      /\ \A i \in 1 .. b : rest[i] = Frame[a + i]
  <2>1. /\ \A i \in 1 .. a : f[i] = Frame[0 + i]
        /\ \A i \in 1 .. b : rest[i] = Frame[0 + a + i]
    BY <1>1, <1>6 DEF Unread, Line
  <2>2. ASSUME NEW i \in 1 .. a
        PROVE  f[i] = Frame[i]
    <3>1. 0 + i = i
      OBVIOUS
    <3> QED BY ONLY <2>1, <2>2, <3>1
  <2>3. ASSUME NEW i \in 1 .. b
        PROVE  rest[i] = Frame[a + i]
    <3>1. 0 + a + i = a + i
      OBVIOUS
    <3> QED BY ONLY <2>1, <2>3, <3>1
  <2> QED BY ONLY <2>2, <2>3
<1>8. /\ 1 + Len(g) + b = Len(Frame) /\ f[1] = Frame[1]
      /\ \A i \in 1 .. Len(g) : g[i] = Frame[1 + i]
      /\ \A i \in 1 .. b : rest[i] = Frame[1 + Len(g) + i]
  <2>1. Len(g) = a - 1 /\ 1 \in 1 .. a
    BY ONLY <1>5, <1>6
  <2>2. 1 + Len(g) + b = Len(Frame) /\ f[1] = Frame[1]
    BY ONLY <1>6, <1>7, <2>1
  <2>3. ASSUME NEW i \in 1 .. Len(g)
        PROVE  g[i] = Frame[1 + i]
    <3>1. i \in 1 .. Len(f) - 1 /\ 1 + i \in 1 .. a
      BY ONLY <1>6, <2>1, <2>3
    <3> QED BY ONLY <1>5, <1>7, <3>1
  <2>4. ASSUME NEW i \in 1 .. b
        PROVE  rest[i] = Frame[1 + Len(g) + i]
    <3>1. 1 + Len(g) + i = a + i
      BY ONLY <1>6, <2>1, <2>4
    <3> QED BY ONLY <1>7, <2>4, <3>1
  <2> QED BY ONLY <2>2, <2>3, <2>4
<1>9. Frame' = Frame /\ buf' = <<>> /\ Len(buf') = 0 /\ rest' = rest /\ b = Len(rest)
  BY <1>3, <1>4, <1>6, SameFrames DEF Unread
<1>10. Line(1)'
  BY <1>1, <1>8, <1>9 DEF Line
<1>11. IdRead'
  <2>1. PICK n : n = Len(buf') + 1 /\ n = 1
    BY <1>9
  <2>2. slave_rx' = Frame[1]
    BY <1>3, <1>8
  <2>3. \A i \in 1 .. Len(buf') : buf'[i] = Frame[i + 1]
    BY <1>9
  <2> QED BY <1>9, <1>10, <2>1, <2>2, <2>3 DEF IdRead
<1>12. Types'
  BY <1>1, <1>3, <1>4, <1>5 DEF Types
<1>13. flags' = flags \cup {RX_AVAIL} \/ (flags' = flags /\ fifo' = <<>>)
  BY <1>1, <1>2, <1>3, <1>5, EmptySeq
<1> QED BY <1>3, <1>4, <1>11, <1>12, <1>13

\* The next ones take all there is.
LEMMA TakeBody ==
  ASSUME Types, wire # <<>>, IdRead, dest = "body", ReadTake
  PROVE  /\ IdRead' /\ Types' /\ fifo' = <<>> /\ got' = {} /\ flags' = flags
         /\ pc' = IF T1P5 \in got THEN "verify" ELSE "body"
         /\ UNCHANGED <<edge, hook, timers, rest, wire, taken>>
<1>1. PICK f, g, c, d : f = fifo /\ g = fifo' /\ c = buf /\ d = buf'
  OBVIOUS
<1>2. /\ f \in Seq(Chars) /\ c \in Seq(Chars) /\ Len(f) \in Nat /\ Len(c) \in Nat
      /\ MaxPdu \in Nat /\ Len(rest) \in Nat
  BY <1>1, LinuxAssumption DEF Types
<1>3. /\ (Len(c) + 1) + Len(f) + Len(rest) = Len(Frame) /\ Len(Frame) \in 3 .. MaxPdu + 1
      /\ \A i \in 1 .. Len(c) : c[i] = Frame[i + 1]
      /\ \A i \in 1 .. Len(f) : f[i] = Frame[(Len(c) + 1) + i]
      /\ \A i \in 1 .. Len(rest) : rest[i] = Frame[(Len(c) + 1) + Len(f) + i]
  BY <1>1, LastFrame DEF Types, IdRead, Line
<1>4. ~(Len(f) > MaxPdu - Len(c)) /\ Least(Len(f), MaxPdu - Len(c)) = Len(f)
  <2>1. MaxPdu - Len(c) \in Int /\ Len(f) <= MaxPdu - Len(c)
    BY ONLY <1>2, <1>3
  <2> QED BY <1>2, <2>1 DEF Least
<1>5. /\ g = SubSeq(f, Len(f) + 1, Len(f)) /\ d = c \o SubSeq(f, 1, Len(f))
      /\ flags' = flags /\ slave_rx' = slave_rx /\ got' = {}
      /\ pc' = IF T1P5 \in got THEN "verify" ELSE "body"
  <2>1. Room = MaxPdu - Len(c)
    BY <1>1 DEF Room
  <2>2. /\ g = SubSeq(f, Len(f) + 1, Len(f)) /\ d = c \o SubSeq(f, 1, Len(f))
        /\ flags' = flags /\ slave_rx' = slave_rx
    BY <1>1, <1>4, <2>1 DEF ReadTake, os_rtu_rx_avail
  <2>3. got' = {} /\ pc' = IF T1P5 \in got THEN "verify" ELSE "body"
    BY DEF ReadTake
  <2> QED BY <2>2, <2>3
<1>6. UNCHANGED <<edge, hook, timers, dest, rest, wire, taken>>
  BY DEF ReadTake, lineVars, histVars
<1>7. /\ d \in Seq(Chars) /\ Len(d) = Len(c) + Len(f)
      /\ \A i \in 1 .. Len(c) : d[i] = c[i]
      /\ \A i \in 1 .. Len(f) : d[Len(c) + i] = f[i]
      /\ g \in Seq(Chars) /\ Len(g) = Len(f) - Len(f)
  <2>1. Len(f) \in 0 .. Len(f)
    BY ONLY <1>2
  <2>2. g = SubSeq(f, Len(f) + 1, Len(f)) /\ d = c \o SubSeq(f, 1, Len(f))
    BY <1>5
  <2> QED BY ONLY <1>2, <2>1, <2>2, Moved
<1>8. g = <<>> /\ Len(g) = 0
  BY ONLY <1>2, <1>7, EmptySeq
<1>9. Len(d) <= MaxPdu
  BY ONLY <1>2, <1>3, <1>7
<1>10. \A i \in 1 .. Len(d) : d[i] = Frame[i + 1]
  <2>1. TAKE i \in 1 .. Len(d)
  <2>2. CASE i <= Len(c)
    BY ONLY <1>2, <1>3, <1>7, <2>2, i \in 1 .. Len(d)
  <2>3. CASE i > Len(c)
    <3>1. /\ i - Len(c) \in 1 .. Len(f) /\ Len(c) + (i - Len(c)) = i
          /\ (Len(c) + 1) + (i - Len(c)) = i + 1
      BY ONLY <1>2, <1>7, <2>3, i \in 1 .. Len(d)
    <3>2. PICK j \in 1 .. Len(f) : Len(c) + j = i /\ (Len(c) + 1) + j = i + 1
      BY ONLY <3>1
    <3> QED BY ONLY <1>3, <1>7, <3>2
  <2> QED BY ONLY <1>2, <1>7, <2>2, <2>3, i \in 1 .. Len(d)
<1>11. /\ (Len(d) + 1) + Len(g) + Len(rest) = Len(Frame)
       /\ \A i \in 1 .. Len(g) : g[i] = Frame[(Len(d) + 1) + i]
       /\ \A i \in 1 .. Len(rest) : rest[i] = Frame[(Len(d) + 1) + Len(g) + i]
  <2>1. (Len(d) + 1) + Len(g) = (Len(c) + 1) + Len(f)
    BY ONLY <1>2, <1>7, <1>8
  <2>2. \A i \in 1 .. Len(g) : g[i] = Frame[(Len(d) + 1) + i]
    BY ONLY <1>8
  <2> QED BY ONLY <1>3, <2>1, <2>2
<1>12. Frame' = Frame
  BY <1>6, SameFrames
<1>13. slave_rx = Frame[1]
  BY DEF IdRead
<1>14. IdRead'
  BY <1>1, <1>5, <1>6, <1>10, <1>11, <1>12, <1>13 DEF IdRead, Line
<1>15. Types'
  BY <1>1, <1>5, <1>6, <1>7, <1>9 DEF Types
<1> QED BY <1>1, <1>5, <1>6, <1>8, <1>14, <1>15

\* Reading goes on with the frame, and ends with it.
LEMMA ReadTakeStep ==
  ASSUME Types, Stages, ReadTake
  PROVE  Types' /\ Stages'
<1>1. pc = "take"
  BY DEF ReadTake
<1>2. (Active \/ Silent) /\ InFrame /\ wire # <<>>
  BY <1>1 DEF Stages, Between, Ended, Active, Silent, InFrame
<1> USE DEF T1P5, T3P5, RX_AVAIL
<1>3. CASE dest = "id"
  <2>1. Unread
    BY <1>1, <1>2, <1>3 DEF InFrame, Reading
  <2>2. /\ IdRead' /\ Types' /\ pc' = "body" /\ got' = {}
        /\ flags' = flags \cup {RX_AVAIL} \/ (flags' = flags /\ fifo' = <<>>)
        /\ UNCHANGED <<edge, hook, timers, rest, wire, taken>>
    BY <1>2, <1>3, <2>1, TakeId
  <2>3. GoodUpTo(Len(wire) - 1)' = GoodUpTo(Len(wire) - 1)
    BY <2>2, SameFrames
  <2>4. InFrame'
    BY <1>2, <2>2, <2>3 DEF InFrame
  <2>5. Active => Active'
    BY <2>2, <2>4 DEF Active, ReaderAtRest
  <2>6. Silent => Silent'
    BY <2>2, <2>4 DEF Silent, Expired, ReaderAtRest, Reading
  <2> QED BY <1>2, <2>2, <2>5, <2>6 DEF Stages
<1>4. CASE dest # "id"
  <2>1. IdRead /\ dest = "body"
    BY <1>1, <1>2, <1>4 DEF InFrame, Reading
  <2>2. /\ IdRead' /\ Types' /\ fifo' = <<>> /\ got' = {} /\ flags' = flags
        /\ pc' = IF T1P5 \in got THEN "verify" ELSE "body"
        /\ UNCHANGED <<edge, hook, timers, rest, wire, taken>>
    BY <1>2, <2>1, TakeBody
  <2>3. GoodUpTo(Len(wire) - 1)' = GoodUpTo(Len(wire) - 1)
    BY <2>2, SameFrames
  <2>4. CASE Active
    <3>1. pc' = "body"
      BY <1>1, <2>2, <2>4 DEF Active
    <3>2. InFrame'
      BY <1>2, <2>2, <2>3, <3>1 DEF InFrame
    <3>3. Active'
      BY <2>2, <2>4, <3>1, <3>2 DEF Active, ReaderAtRest
    <3> QED BY <2>2, <3>3 DEF Stages
  <2>5. CASE Silent
    <3>1. pc' = "verify" /\ RX_AVAIL \notin flags
      BY <1>1, <2>1, <2>2, <2>5 DEF Silent, Reading
    <3>2. Expired'
      BY <2>2, <2>5 DEF Silent, Expired, ReaderAtRest
    <3>3. Ended'
      BY <1>2, <2>2, <2>3, <3>1, <3>2 DEF Ended, InFrame
    <3> QED BY <2>2, <3>3 DEF Stages
  <2> QED BY <1>2, <2>4, <2>5
<1> QED BY <1>3, <1>4

\* A frame that has been read whole is in id and buffer.
LEMMA WholeFrame ==
  ASSUME Types, wire # <<>>, IdRead, fifo = <<>>, rest = <<>>
  PROVE  /\ slave_rx = wire[Len(wire)].unit
         /\ buf = Tail(Frame)
<1>1. PICK w, b, x : w = Frame /\ b = buf /\ x = slave_rx
  OBVIOUS
<1>2. /\ w \in Seq(Chars) /\ b \in Seq(Chars) /\ Len(w) \in Nat /\ Len(w) >= 3
      /\ Len(b) \in Nat /\ w[1] = wire[Len(wire)].unit
  BY <1>1, LastFrame, LinuxAssumption DEF Types
<1>3. /\ x = w[1] /\ Len(b) + 1 = Len(w)
      /\ \A i \in 1 .. Len(b) : b[i] = w[i + 1]
  <2>1. Len(fifo) = 0 /\ Len(rest) = 0
    OBVIOUS
  <2>2. (Len(b) + 1) + Len(fifo) + Len(rest) = Len(w)
    BY <1>1 DEF IdRead, Line
  <2>3. Len(b) + 1 = Len(w)
    BY ONLY <1>2, <2>1, <2>2
  <2> QED BY <1>1, <2>3 DEF IdRead
<1>4. b = Tail(w)
  <2>1. w # <<>>
    BY ONLY <1>2, EmptySeq
  <2>2. PICK t : t = Tail(w)
    OBVIOUS
  <2>3. t \in Seq(Chars) /\ Len(t) = Len(w) - 1 /\ \A i \in 1 .. Len(t) : t[i] = w[i + 1]
    BY ONLY <1>2, <2>1, <2>2, HeadTailProperties
  <2>4. Len(b) = Len(t) /\ \A i \in 1 .. Len(b) : b[i] = t[i]
    BY ONLY <1>2, <1>3, <2>3
  <2>5. b = t
    BY ONLY <1>2, <2>3, <2>4, SeqEqual
  <2> QED BY ONLY <2>2, <2>5
<1> QED BY <1>1, <1>2, <1>3, <1>4

\* The check of id and checksum passes the good frames.
LEMMA VerifyStep ==
  ASSUME ChecksumsTell, Types, Stages, Verify
  PROVE  Types' /\ Stages'
<1>1. /\ pc = "verify" /\ pc' = "tail"
      /\ UNCHANGED <<fifo, edge, hook, timers, flags, slave_rx, buf, rest, wire, taken>>
  BY DEF Verify, portVars, lineVars, histVars
<1>2. Types'
  BY <1>1 DEF Types
<1>3. Ended
  BY <1>1 DEF Stages, Between, Active, Silent, InFrame, Reading
<1>4. /\ Frame' = Frame /\ GoodUpTo(Len(wire) - 1)' = GoodUpTo(Len(wire) - 1)
      /\ Good(Len(wire))' <=> Good(Len(wire))
  BY <1>1, SameFrames
<1>5. PICK k \in Kinds : k = wire[Len(wire)] /\ slave_rx = k.unit /\ buf = Tail(Sent[k])
  BY <1>3, WholeFrame, LastFrame DEF Ended, Expired, Types, Frame
<1>6. crc' = 0 <=> ~k.bad
  <2>1. crc' = mb_crc(Tail(Sent[k]), mb_crc(<<k.unit>>, 65535))
    BY <1>5 DEF Verify
  <2> QED BY <2>1 DEF ChecksumsTell
<1>7. error' = IF slave_rx \notin {Me, 0} THEN ESLAVE_ID ELSE IF crc' # 0 THEN ECRC_FAIL ELSE 0
  BY DEF Verify
<1>8. IF Good(Len(wire)) THEN error' = 0 ELSE error' \in {ESLAVE_ID, ECRC_FAIL}
  BY <1>5, <1>6, <1>7 DEF Good
<1>9. IdRead'
  BY <1>1, <1>3, <1>4 DEF Ended, IdRead, Line
<1>10. Expired'
  BY <1>1, <1>3 DEF Ended, Expired, ReaderAtRest
<1>11. Ended'
  BY <1>1, <1>3, <1>4, <1>8, <1>9, <1>10 DEF Ended
<1> QED BY <1>2, <1>11 DEF Stages

\* At the end of a call the frame is counted, and the flags are clear.
LEMMA ClearStep ==
  ASSUME Types, Stages, Clear
  PROVE  Types' /\ Stages'
<1>1. /\ pc = "clear" /\ pc' = "returned" /\ flags' = flags \ {T1P5, T3P5, RX_AVAIL}
      /\ ret' = IF error # 0 THEN error ELSE Len(buf) - 2
      /\ taken' = IF error = 0 THEN taken + 1 ELSE taken
      /\ UNCHANGED <<fifo, edge, hook, timers, slave_rx, buf, rest, wire>>
  BY DEF Clear, lineVars
<1>2. Types' /\ flags' = {}
  BY <1>1 DEF Types
<1>3. Ended
  BY <1>1 DEF Stages, Between, Active, Silent, InFrame, Reading
<1>4. timers = {} /\ hook = "wait" /\ ~edge /\ fifo = <<>> /\ rest = <<>> /\ wire # <<>>
  BY <1>1, <1>3 DEF Ended, Expired, ReaderAtRest, Types
<1>5. error = 0 <=> Good(Len(wire))
  BY <1>1, <1>3 DEF Ended, ESLAVE_ID, ECRC_FAIL
<1>6. Cardinality(GoodUpTo(Len(wire))) = taken'
  <2>1. /\ taken = Cardinality(GoodUpTo(Len(wire) - 1)) /\ taken \in Nat
        /\ Cardinality(GoodUpTo(Len(wire))) = taken + IF Good(Len(wire)) THEN 1 ELSE 0
    BY <1>3, <1>4, CountLast DEF Ended, Types
  <2> QED BY <1>1, <1>5, <2>1
<1>7. /\ Frame' = Frame /\ GoodUpTo(Len(wire))' = GoodUpTo(Len(wire))
      /\ Good(Len(wire))' <=> Good(Len(wire))
  BY <1>1, SameFrames
<1>8. ret' >= 0 => Good(Len(wire))
  BY <1>1, <1>3, <1>5 DEF Ended, ESLAVE_ID, ECRC_FAIL
<1>9. slave_rx = wire[Len(wire)].unit /\ buf = Tail(Frame)
  BY <1>3, <1>4, WholeFrame DEF Ended
<1>10. (slave_rx = wire[Len(wire)].unit /\ buf = Tail(Frame))'
  BY <1>1, <1>7, <1>9
<1>11. Between'
  BY <1>1, <1>2, <1>4, <1>6, <1>7, <1>8, <1>10 DEF Between
<1> QED BY <1>2, <1>11 DEF Stages

\* The answer leaves nothing behind but T3P5.
LEMMA AnswerSteps ==
  ASSUME Types, Stages, Return \/ Tx \/ TxDrain \/ TxTimer \/ TxWait
  PROVE  Types' /\ Stages'
<1>1. /\ UNCHANGED <<fifo, edge, hook, rest, wire, taken>>
      /\ pc \in {"returned", "drain", "timer", "silence"}
  BY DEF Return, Tx, TxDrain, TxTimer, TxWait, portVars, lineVars, histVars
<1>2. Between
  BY <1>1 DEF Stages, Active, Silent, Ended, InFrame, Reading
<1>3. GoodUpTo(Len(wire))' = GoodUpTo(Len(wire))
  BY <1>1, SameFrames
<1>4. buf' \in Seq(Chars) /\ Len(buf') <= MaxPdu
  <2>1. buf' = buf \/ buf' = <<>>
    BY DEF Return, Tx, TxDrain, TxTimer, TxWait, NoLocals
  <2>2. <<>> \in Seq(Chars) /\ Len(<<>>) <= MaxPdu
    BY LinuxAssumption
  <2> QED BY <2>1, <2>2 DEF Types
<1> USE DEF T1P5, T3P5, RX_AVAIL
<1>5. CASE Return
  <2>1. pc = "returned" /\ pc' = "idle" /\ buf' = <<>> /\ UNCHANGED <<timers, flags>>
    BY <1>5 DEF Return, NoLocals, portVars
  <2> QED BY <1>1, <1>2, <1>3, <1>4, <2>1 DEF Between, Types, Stages
<1>6. CASE Tx
  <2>1. pc = "returned" /\ pc' = "drain" /\ UNCHANGED <<timers, flags>>
    BY <1>6 DEF Tx, portVars
  <2> QED BY <1>1, <1>2, <1>3, <1>4, <2>1 DEF Between, Types, Stages
<1>7. CASE TxDrain
  <2>1. pc = "drain" /\ pc' = "timer" /\ timers' = timers /\ flags' = flags \ {T1P5, T3P5}
    BY <1>7 DEF TxDrain
  <2> QED BY <1>1, <1>2, <1>3, <1>4, <2>1 DEF Between, Types, Stages
<1>8. CASE TxTimer
  <2>1. pc = "timer" /\ pc' = "silence" /\ timers' = timers \cup {T3P5} /\ flags' = flags
    BY <1>8 DEF TxTimer
  <2> QED BY <1>1, <1>2, <1>3, <1>4, <2>1 DEF Between, Types, Stages
<1>9. CASE TxWait
  <2>1. /\ pc = "silence" /\ pc' = "idle" /\ {T3P5} \cap flags # {} /\ buf' = <<>>
        /\ UNCHANGED <<timers, flags>>
    BY <1>9 DEF TxWait, NoLocals, portVars, Mask
  <2> QED BY <1>1, <1>2, <1>3, <1>4, <2>1 DEF Between, Types, Stages
<1> QED BY <1>5, <1>6, <1>7, <1>8, <1>9

------------------------------------------------------------------------------
(* Results. *)

\* KeepInv holds at first,
LEMMA KeepInit == Init => KeepInv
<1> SUFFICES ASSUME Init
             PROVE  KeepInv
  OBVIOUS
<1>1. Types
  <2>1. <<>> \in Seq(Chars) /\ <<>> \in Seq(Kinds) /\ Len(<<>>) <= MaxPdu
    BY LinuxAssumption
  <2> QED BY <2>1 DEF Init, Types
<1>2. GoodUpTo(Len(wire)) = {}
  BY DEF Init, GoodUpTo
<1>3. Between
  BY <1>2, FS_EmptySet DEF Init, Between
<1> QED BY <1>1, <1>3 DEF Init, KeepInv

\* and no step breaks it.
LEMMA KeepStep ==
  ASSUME ChecksumsTell, KeepInv, [Next]_vars
  PROVE  KeepInv'
<1>1. lags \in Nat /\ (lags = 0 => Types /\ Stages)
  BY DEF KeepInv, Stages
<1>2. lags' = lags \/ lags' = lags + 1
  BY DEF Next, Reader, HookEnter, HookStart1p5, HookStart3p5, HookClear, HookSet, Task, FirstWait,
         FirstTimeout, BodyWait, TailWait, ReadClear, ReadTake, Verify, Clear, Return, Tx, TxDrain,
         TxTimer, TxWait, StartRx, Begin, Continue, Expire, Lag, vars, histVars
<1>3. SUFFICES ASSUME lags' = 0
               PROVE  Types' /\ Stages'
  BY <1>1, <1>2 DEF KeepInv, Stages
<1>4. Types /\ Stages
  BY <1>1, <1>2, <1>3
<1>5. CASE Reader
  BY <1>4, <1>5, ReaderSteps DEF Stages
<1>6. CASE Task \/ StartRx
  <2>1. CASE StartRx \/ FirstWait \/ FirstTimeout
    BY <1>4, <2>1, FirstSteps
  <2>2. CASE BodyWait \/ TailWait
    BY <1>4, <2>2, WaitSteps
  <2>3. CASE ReadClear
    BY <1>4, <2>3, ReadClearStep
  <2>4. CASE ReadTake
    BY <1>4, <2>4, ReadTakeStep
  <2>5. CASE Verify
    BY <1>4, <2>5, VerifyStep
  <2>6. CASE Clear
    BY <1>4, <2>6, ClearStep
  <2>7. CASE Return \/ Tx \/ TxDrain \/ TxTimer \/ TxWait
    BY <1>4, <2>7, AnswerSteps
  <2> QED BY <1>6, <2>1, <2>2, <2>3, <2>4, <2>5, <2>6, <2>7 DEF Task
<1>7. CASE Begin
  BY <1>1, <1>3, <1>4, <1>7, BeginSteps DEF Stages
<1>8. CASE Continue
  BY <1>1, <1>3, <1>4, <1>8, ContinueSteps DEF Stages
<1>9. ASSUME NEW timer \in {T1P5, T3P5}, Expire(timer)
      PROVE  Types' /\ Stages'
  BY <1>1, <1>3, <1>4, <1>9, ExpireSteps
<1>10. CASE UNCHANGED vars
  BY <1>4, <1>10 DEF vars, portVars, taskVars, lineVars, histVars, Types, Stages, Between, Active,
                     Silent, Ended, Expired, InFrame, Unread, IdRead, Line, Reading, Frame, Good,
                     GoodUpTo, ReaderAtRest
<1> QED BY <1>5, <1>6, <1>7, <1>8, <1>9, <1>10 DEF Next

\* While the threads keep up, a call is in one of the four stages.
THEOREM KeepsUp ==
  ASSUME ChecksumsTell PROVE Spec => []KeepInv
<1>1. KeepInv /\ [Next]_vars => KeepInv'
  BY KeepStep
<1> QED BY <1>1, KeepInit, PTL DEF Spec

\* mb_rtu_rx on Linux, with reader thread, timers and task in any interleaving:
\* while they keep up with the line, every frame for this station is received.
THEOREM NothingLostOnLinux ==
  ASSUME ChecksumsTell PROVE Spec => []NothingLost
<1>1. KeepInv => NothingLost
  <2> SUFFICES ASSUME KeepInv, lags = 0, ~MidFrame, ReaderAtRest, timers = {}, pc = "first",
                      TaskAtRest
               PROVE  taken = Cardinality(ForMe) /\ fifo = <<>>
    BY DEF NothingLost
  <2>1. Types /\ Between
    BY DEF KeepInv, Active, Silent, Ended, Expired, TaskAtRest, Mask
  <2>2. ForMe = GoodUpTo(Len(wire))
    BY DEF ForMe, GoodUpTo, Good
  <2> QED BY <2>1, <2>2 DEF Between
<1> QED BY <1>1, KeepsUp, PTL

\* What it returns was then sent to this station, whole and undamaged, and no
\* frame is returned twice.  That needs no property of the checksum but that it
\* tells the damaged frames from the others.
THEOREM AcceptedWasSentOnLinux ==
  ASSUME ChecksumsTell PROVE Spec => [](lags = 0 => AcceptedWasSent)
<1>1. KeepInv => (lags = 0 => AcceptedWasSent)
  <2> SUFFICES ASSUME KeepInv, lags = 0
               PROVE  AcceptedWasSent
    OBVIOUS
  <2>1. Types /\ (Between \/ Active \/ Silent \/ Ended)
    BY DEF KeepInv
  <2>2. ForMe \subseteq GoodUpTo(Len(wire)) /\ IsFiniteSet(GoodUpTo(Len(wire)))
    <3>1. Len(wire) \in Nat /\ GoodUpTo(Len(wire)) \subseteq 1 .. Len(wire)
      BY <2>1 DEF Types, GoodUpTo
    <3>2. IsFiniteSet(1 .. Len(wire))
      BY <3>1, FS_Interval
    <3>3. ForMe \subseteq GoodUpTo(Len(wire))
      BY DEF ForMe, GoodUpTo, Good
    <3> QED BY <3>1, <3>2, <3>3, FS_Subset
  <2>3. taken <= Cardinality(ForMe)
    <3>1. CASE Between
      <4>1. ForMe = GoodUpTo(Len(wire))
        BY <3>1 DEF ForMe, GoodUpTo, Good, Between, MidFrame
      <4>2. Cardinality(ForMe) \in Nat
        BY <2>2, <4>1, FS_CardinalityType
      <4> QED BY <3>1, <4>1, <4>2 DEF Between
    <3>2. CASE ~Between
      <4>1. wire # <<>> /\ taken = Cardinality(GoodUpTo(Len(wire) - 1))
        BY <2>1, <3>2 DEF Active, Silent, Ended, InFrame
      <4>2. PICK n \in Nat \ {0} : n = Len(wire)
        BY <2>1, <4>1, LastFrame DEF Types
      <4>3. GoodUpTo(n - 1) \subseteq ForMe
        BY <4>2 DEF ForMe, GoodUpTo, Good
      <4>4. IsFiniteSet(ForMe)
        BY <2>2, FS_Subset
      <4>5. /\ Cardinality(GoodUpTo(n - 1)) <= Cardinality(ForMe)
        BY <4>3, <4>4, FS_Subset
      <4> QED BY <4>1, <4>2, <4>5
    <3> QED BY <3>1, <3>2
  <2>4. ASSUME pc = "returned", ret >= 0
        PROVE  \E f \in ForMe :
                 LET body == Tail(Sent[wire[f]]) IN
                   /\ wire[f].unit = slave_rx
                   /\ Len(body) <= Len(buf) /\ SubSeq(buf, 1, Len(body)) = body
                   /\ \A i \in Len(body) + 1 .. Len(buf) : buf[i] = 0
                   /\ lags = 0 => Len(buf) = Len(body)
    <3>1. /\ wire # <<>> /\ Good(Len(wire)) /\ rest = <<>>
          /\ wire[Len(wire)].unit = slave_rx /\ buf = Tail(Frame)
      BY <2>1, <2>4 DEF Between, Active, Silent, Ended, InFrame, Reading
    <3>2. Len(wire) \in ForMe
      BY <2>1, <3>1, LastFrame DEF ForMe, Good, MidFrame, Types
    <3>3. PICK b : b = buf /\ b = Tail(Sent[wire[Len(wire)]]) /\ b \in Seq(Chars)
      BY <2>1, <3>1 DEF Frame, Types
    <3>4. /\ Len(b) <= Len(b) /\ SubSeq(b, 1, Len(b)) = b
          /\ \A i \in Len(b) + 1 .. Len(b) : b[i] = 0
      <4> b \in Seq(Chars)
        BY ONLY <3>3
      <4>1. PICK n \in Nat : n = Len(b)
        BY ONLY b \in Seq(Chars)
      <4>2. n <= n /\ ~\E i \in n + 1 .. n : TRUE
        BY ONLY n \in Nat
      <4>3. SubSeq(b, 1, Len(b)) = b
        BY ONLY b \in Seq(Chars)
      <4> QED BY ONLY <4>1, <4>2, <4>3
    <3> QED BY <3>1, <3>2, <3>3, <3>4
  <2> QED BY <2>3, <2>4 DEF AcceptedWasSent
<1> QED BY <1>1, KeepsUp, PTL

==============================================================================
