-------------------------- MODULE MbRtuFrames_proofs --------------------------
(***************************************************************************)
(* Further proofs about the serial transport: that mb_rtu_tx leaves a      *)
(* silence, that a frame of its own is received whole whatever the order   *)
(* in which the task and the interrupts run, and that a task that keeps up *)
(* loses no frame.                                                         *)
(***************************************************************************)
EXTENDS MbRtu_proofs

\* Where frames begin only when they are expected, everything but reception
\* and the wait after a transmission happens in silence, and T3P5 tells it
QuietInv ==
  /\ pc \in {"idle", "ret", "clear", "send", "write", "drain", "disable"} => age = 2
  /\ Reading("extra") /\ T3P5 \in got => age = 2
  /\ pc = "first" /\ RX_AVAIL \notin flags => age = 2
  /\ T3P5 \in flags => age = 2
  /\ pc = "disable" => T3P5 \notin flags

USE DEF TX_EMPTY, RX_AVAIL, T1P5, T3P5

\* A step keeps it
LEMMA QuietStep ==
  ASSUME ~Overlap, PlainType, LineInv, QuietInv, [Next]_vars
  PROVE  QuietInv'
<1>1. CASE FirstWait
  <2>1. UNCHANGED <<age, flags>> /\ pc' = "clr" /\ dest' = "id"
    BY <1>1 DEF FirstWait, driverVars
  <2>2. QED
    BY <2>1 DEF QuietInv, Reading
<1>2. CASE FirstTimeout
  <2>1. UNCHANGED <<age, flags>> /\ pc = "first" /\ pc' = "ret" /\ RX_AVAIL \notin flags
    BY <1>2 DEF FirstTimeout, Mask, driverVars
  <2>2. QED
    BY <2>1 DEF QuietInv, Reading
<1>3. CASE ReadClr
  <2>1. UNCHANGED <<age, dest, got>> /\ flags' = flags \ {RX_AVAIL} /\ pc = "clr" /\ pc' = "avail"
    BY <1>3 DEF ReadClr
  <2>2. QED
    BY <2>1 DEF QuietInv, Reading
<1>4. CASE ReadAvail
  <2>1. /\ UNCHANGED <<age, dest, got>> /\ pc = "avail" /\ pc' = "take"
        /\ T3P5 \in flags' => T3P5 \in flags
    BY <1>4 DEF ReadAvail
  <2>2. QED
    BY <2>1 DEF QuietInv, Reading
<1>5. CASE ReadTake
  <2>1. /\ UNCHANGED <<age, flags, dest, got>> /\ pc = "take"
        /\ \/ pc' \in {"body", "verify", "tail"}
           \/ dest = "extra" /\ pc' = "clear" /\ T3P5 \in got
    BY <1>5 DEF ReadTake, PlainType
  <2>2. QED
    BY <2>1 DEF QuietInv, Reading
<1>6. CASE BodyWait
  <2>1. UNCHANGED <<age, flags>> /\ pc' \in {"clr", "verify"} /\ dest' = "body"
    BY <1>6 DEF BodyWait, driverVars
  <2>2. QED
    BY <2>1 DEF QuietInv, Reading
<1>7. CASE Verify
  <2>1. UNCHANGED <<age, flags>> /\ pc' = "tail"
    BY <1>7 DEF Verify, driverVars
  <2>2. QED
    BY <2>1 DEF QuietInv, Reading
<1>8. CASE TailWait
  <2>1. UNCHANGED <<age, flags>> /\ got' = flags /\ (pc' = "clr" \/ (pc' = "clear" /\ T3P5 \in flags))
    BY <1>8 DEF TailWait, Mask, driverVars
  <2>2. QED
    BY <2>1 DEF QuietInv, Reading
<1>9. CASE Clear
  <2>1. UNCHANGED age /\ flags' = flags \ {T1P5, T3P5, RX_AVAIL} /\ pc = "clear" /\ pc' = "ret"
    BY <1>9 DEF Clear
  <2>2. QED
    BY <2>1 DEF QuietInv, Reading
<1>10. CASE Return
  <2>1. UNCHANGED <<age, flags>> /\ pc = "ret" /\ pc' = "idle"
    BY <1>10 DEF Return, driverVars
  <2>2. QED
    BY <2>1 DEF QuietInv, Reading
<1>11. CASE TxClrEmpty
  <2>1. UNCHANGED age /\ flags' = flags \ {TX_EMPTY} /\ pc = "send" /\ pc' = "write"
    BY <1>11 DEF TxClrEmpty
  <2>2. QED
    BY <2>1 DEF QuietInv, Reading
<1>12. CASE TxWrite
  <2>1. UNCHANGED <<age, flags>> /\ pc = "write" /\ pc' = "drain"
    BY <1>12 DEF TxWrite, driverVars
  <2>2. QED
    BY <2>1 DEF QuietInv, Reading
<1>13. CASE TxDrained
  <2>1. UNCHANGED age /\ flags' = flags \ {T1P5, T3P5} /\ pc = "drain" /\ pc' = "disable"
    BY <1>13 DEF TxDrained
  <2>2. QED
    BY <2>1 DEF QuietInv, Reading
<1>14. CASE TxTimer
  <2>1. UNCHANGED flags /\ pc = "disable" /\ pc' = "silence"
    BY <1>14 DEF TxTimer
  <2>2. QED
    BY <2>1 DEF QuietInv, Reading
<1>15. CASE TxSilence
  <2>1. UNCHANGED <<age, flags>> /\ pc' = "idle" /\ T3P5 \in flags
    BY <1>15 DEF TxSilence, Mask, driverVars
  <2>2. QED
    BY <2>1 DEF QuietInv, Reading
<1>16. CASE StartTx
  <2>1. UNCHANGED <<age, flags>> /\ pc = "idle" /\ pc' = "send"
    BY <1>16 DEF StartTx, driverVars
  <2>2. QED
    BY <2>1 DEF QuietInv, Reading
<1>17. CASE \E t \in BOOLEAN : StartRx(t)
  <2>1. UNCHANGED <<age, flags>> /\ pc = "idle" /\ pc' = "first"
    BY <1>17 DEF StartRx, driverVars
  <2>2. QED
    BY <2>1 DEF QuietInv, Reading
<1>18. CASE mb_tx_hook
  <2>1. UNCHANGED <<pc, dest, got, age>> /\ flags' = flags \cup {TX_EMPTY}
    BY <1>18 DEF mb_tx_hook, taskVars
  <2>2. QED
    BY <2>1 DEF QuietInv, Reading
<1>19. CASE BeginFrame
  <2>1. UNCHANGED <<pc, dest, got>> /\ T3P5 \notin flags' /\ RX_AVAIL \in flags' /\ Expected
    BY <1>19 DEF BeginFrame, mb_rx_hook, taskVars
  <2>2. QED
    BY <2>1 DEF QuietInv, Reading, Expected, RxPcs
<1>20. CASE NextChar
  <2>1. UNCHANGED <<pc, dest, got>> /\ T3P5 \notin flags' /\ RX_AVAIL \in flags'
    BY <1>20 DEF NextChar, mb_rx_hook, taskVars
  <2>2. age # 2
    BY <1>20 DEF NextChar, LineInv, PlainType
  <2>3. QED
    BY <2>1, <2>2 DEF QuietInv, Reading
<1>21. CASE Silence
  <2>1. UNCHANGED <<pc, dest, got>> /\ age # 2 /\ (RX_AVAIL \in flags <=> RX_AVAIL \in flags')
    BY <1>21 DEF Silence, taskVars, PlainType
  <2>2. T3P5 \in flags' => T3P5 \in flags \/ age' = 2
    BY <1>21 DEF Silence
  <2>3. QED
    BY <2>1, <2>2 DEF QuietInv, Reading
<1>22. CASE UNCHANGED vars
  <2>1. UNCHANGED <<pc, dest, got, age, flags>>
    BY <1>22 DEF vars, driverVars, taskVars
  <2>2. QED
    BY <2>1 DEF QuietInv, Reading
<1>23. QED
  BY <1>1, <1>2, <1>3, <1>4, <1>5, <1>6, <1>7, <1>8, <1>9, <1>10, <1>11, <1>12,
     <1>13, <1>14, <1>15, <1>16, <1>17, <1>18, <1>19, <1>20, <1>21, <1>22 DEF Next,
     Task, Calls

\* On a line where nobody talks over us, mb_rtu_tx returns only after 3.5
\* characters of silence: the T3P5 it waits for is never one left from before.
THEOREM TxAlwaysLeavesSilence ==
  ASSUME ~Overlap
  PROVE  Spec => TxLeavesSilence
<1>1. Init => QuietInv
  BY DEF Init, QuietInv, Reading
<1>2. RtuInv /\ QuietInv /\ [Next]_vars => QuietInv'
  BY QuietStep DEF RtuInv
<1>3. QuietInv /\ [Next]_vars => [pc = "silence" /\ pc' = "idle" => age = 2]_vars
  <2>1. SUFFICES ASSUME QuietInv, [Next]_vars, pc = "silence", pc' = "idle"
                 PROVE  age = 2
    OBVIOUS
  <2>2. TxSilence
    BY <2>1 DEF Next, Task, Calls, vars, FirstWait, FirstTimeout, ReadClr, ReadAvail, ReadTake,
       BodyWait, Verify, TailWait, Clear, Return, TxClrEmpty, TxWrite, TxDrained, TxTimer,
       StartTx, StartRx, BeginFrame, NextChar, mb_rx_hook, Silence, taskVars, mb_tx_hook
  <2>3. T3P5 \in flags
    BY <2>2 DEF TxSilence, Mask
  <2>4. QED
    BY <2>1, <2>3 DEF QuietInv
<1>4. QED
  BY <1>1, <1>2, <1>3, RtuAlways, PTL DEF Spec, TxLeavesSilence

------------------------------------------------------------------------------

\* The characters of s are those of frame f that follow the first n
Chars(s, f, n) == \A i \in 1 .. Len(s) : s[i] = <<f, n + i>>

\* Frame f is complete, or the gap that follows is already too long
Ended(f) == pos = Length(f) \/ age > 0

Good(f) == pos = Length(f) /\ ~wire[f].bad /\ wire[f].unit \in {"me", "all"}

\* The task is getting the message
InBody == pc \in {"body", "verify"} \/ Reading("body")

\* The call sees frame f alone: none of its characters is lost or left behind,
\* and T1P5 is its end
Whole(f) ==
  /\ pc = "first" \/ Reading("id") => ~idread /\ Chars(fifo, f, 0) /\ Len(fifo) = pos
  /\ T1P5 \in flags => Ended(f)
  /\ idread =>
       /\ ~Reading("extra")
       /\ InBody => /\ slave_rx = <<f, 1>> /\ Chars(buf, f, 1) /\ Chars(fifo, f, Len(buf) + 1)
                    /\ pos = Len(buf) + Len(fifo) + 1
       /\ Reading("body") /\ T1P5 \in got =>
            Ended(f) /\ (pc # "clr" => RX_AVAIL \notin flags) /\ (pc = "take" => navail = Len(fifo))
       /\ pc \in {"verify", "tail", "clear", "ret"} => Ended(f)
       /\ pc \in {"tail", "clear"} => slave_rx = <<f, 1>>
       /\ pc \in {"verify", "tail"} => RX_AVAIL \notin flags /\ fifo = <<>>
       /\ pc \in {"tail", "clear"} /\ Good(f) =>
            error = 0 /\ Len(buf) = wire[f].size + 2 /\ broadcast = (wire[f].unit = "all")
       /\ pc = "ret" /\ Good(f) => ret = wire[f].size /\ broadcast = (wire[f].unit = "all")

SoleInv ==
  pc \in RxPcs =>
    /\ begun = {} => ~idread /\ fifo = <<>> /\ ~MidFrame
    /\ \A f \in 1 .. Len(wire) : begun = {f} =>
         f = Len(wire) /\ (f \notin gapped /\ Fits(f) => Whole(f))

\* What is left of a run of characters is one
LEMMA CharsRest ==
  ASSUME NEW S, NEW s \in Seq(S), NEW f, NEW n \in Nat, NEW k \in 0 .. Len(s),
         NEW t, t = Rest(s, k), Chars(s, f, n)
  PROVE  Chars(t, f, n + k)
<1>1. Len(s) \in Nat /\ Len(t) = Len(s) - k
  BY TailPart
<1>2. \A i \in 1 .. Len(s) - k : t[i] = s[k + i]
  BY <1>1 DEF Rest
<1>3. SUFFICES ASSUME NEW i \in 1 .. Len(t)
               PROVE  t[i] = <<f, (n + k) + i>>
  BY DEF Chars
<1>4. k + i \in 1 .. Len(s) /\ i \in 1 .. Len(s) - k /\ n + (k + i) = (n + k) + i
  BY <1>1, <1>3
<1>5. s[k + i] = <<f, n + (k + i)>>
  BY <1>4 DEF Chars
<1>6. QED
  BY <1>2, <1>4, <1>5

\* and so is one with the next character
LEMMA CharsNext ==
  ASSUME NEW S, NEW s \in Seq(S), NEW f, NEW n \in Nat, Chars(s, f, n),
         NEW b, b = <<f, n + (Len(s) + 1)>>, NEW t, t = Append(s, b)
  PROVE  Chars(t, f, n)
<1>1. /\ Len(s) \in Nat /\ Len(t) = Len(s) + 1 /\ t[Len(s) + 1] = b
      /\ \A i \in 1 .. Len(s) : t[i] = s[i]
  OBVIOUS
<1>2. SUFFICES ASSUME NEW i \in 1 .. Len(t)
               PROVE  t[i] = <<f, n + i>>
  BY DEF Chars
<1>3. CASE i \in 1 .. Len(s)
  BY <1>1, <1>3 DEF Chars
<1>4. CASE i = Len(s) + 1
  BY <1>1, <1>4
<1>5. QED
  BY <1>1, <1>2, <1>3, <1>4

\* and one with some of those that follow it
LEMMA CharsJoined ==
  ASSUME NEW S, NEW s \in Seq(S), NEW r \in Seq(S), NEW f, NEW n \in Nat, NEW k \in 0 .. Len(r),
         Chars(s, f, n), Chars(r, f, Len(s) + n), NEW u, u = s \o SubSeq(r, 1, k)
  PROVE  Chars(u, f, n)
<1>1. PICK p : p = SubSeq(r, 1, k)
  OBVIOUS
<1>2. p \in Seq(S) /\ Len(p) = k /\ (\A i \in 1 .. k : p[i] = r[i]) /\ Len(s) \in Nat /\ Len(r) \in Nat
  BY <1>1
<1>3. u = s \o p
  BY <1>1
<1>4. /\ Len(u) = Len(s) + k /\ (\A i \in 1 .. Len(s) : u[i] = s[i])
      /\ \A i \in 1 .. k : u[Len(s) + i] = p[i]
  <2>1. Len(u) = Len(s) + k
    BY <1>2, <1>3
  <2>2. \A i \in 1 .. Len(s) : u[i] = s[i]
    BY <1>2, <1>3
  <2>3. ASSUME NEW i \in 1 .. k
        PROVE  u[Len(s) + i] = p[i]
    <3>1. Len(s) + i \in 1 .. Len(s) + Len(p) /\ Len(s) + i > Len(s) /\ (Len(s) + i) - Len(s) = i
      BY <1>2
    <3>2. QED
      BY <1>2, <1>3, <3>1, ConcatProperties
  <2>4. QED
    BY <2>1, <2>2, <2>3
<1>5. SUFFICES ASSUME NEW i \in 1 .. Len(u)
               PROVE  u[i] = <<f, n + i>>
  BY DEF Chars
<1>6. CASE i \in 1 .. Len(s)
  BY <1>4, <1>6 DEF Chars
<1>7. CASE i \notin 1 .. Len(s)
  <2>1. PICK j \in 1 .. k : i = Len(s) + j
    <3>1. i - Len(s) \in 1 .. k /\ i = Len(s) + (i - Len(s))
      BY <1>2, <1>4, <1>5, <1>7
    <3>2. QED
      BY <3>1
  <2>2. u[i] = r[j]
    BY <1>2, <1>4, <2>1
  <2>3. j \in 1 .. Len(r)
    BY <1>2, <2>1
  <2>4. r[j] = <<f, Len(s) + n + j>>
    BY <2>3 DEF Chars
  <2>5. Len(s) + n + j = n + i
    BY <1>2, <2>1
  <2>6. QED
    BY <2>2, <2>4, <2>5
<1>8. QED
  BY <1>6, <1>7

\* The check of a whole frame: the CRC is good, and the id names its station
LEMMA CrcHolds ==
  ASSUME DataType, NEW f \in 1 .. Len(wire), slave_rx = <<f, 1>>, Chars(buf, f, 1),
         Len(buf) + 1 = Length(f)
  PROVE  (CrcOk <=> ~wire[f].bad) /\ Unit = wire[f].unit
<1>1. PICK m : m = <<slave_rx>> \o buf
  OBVIOUS
<1>2. slave_rx \in Sent /\ buf \in Seq(Sent) /\ Len(buf) \in Nat /\ f > 0 /\ f \in Nat
  <2>1. 1 \in 1 .. MaxPdu + 3
    BY SizeAssumption
  <2>2. QED
    BY <2>1, SentBytes DEF DataType
<1>3. /\ Len(m) = Len(buf) + 1 /\ m[1] = slave_rx
      /\ \A i \in 1 .. Len(buf) : m[i + 1] = buf[i]
  BY <1>1, <1>2
<1>4. slave_rx[1] = f /\ slave_rx[2] = 1
  OBVIOUS
<1>5. \A i \in 1 .. Len(m) : m[i] = <<f, i>>
  <2>1. TAKE i \in 1 .. Len(m)
  <2>2. CASE i = 1
    BY <1>3, <2>2
  <2>3. CASE i # 1
    <3>1. i - 1 \in 1 .. Len(buf) /\ (i - 1) + 1 = i /\ 1 + (i - 1) = i
      BY <1>2, <1>3, <2>1, <2>3
    <3>2. buf[i - 1] = <<f, 1 + (i - 1)>>
      BY <3>1 DEF Chars
    <3>3. m[i] = buf[i - 1]
      BY <1>3, <3>1
    <3>4. QED
      BY <3>1, <3>2, <3>3
  <2>4. QED
    BY <2>2, <2>3
<1>6. FrameIn(m) = f
  BY <1>2, <1>3, <1>4, <1>5 DEF FrameIn
<1>7. CrcOk <=> ~wire[f].bad
  BY <1>1, <1>2, <1>6 DEF CrcOk
<1>8. slave_rx # Uninit
  BY <1>2, SentBytes
<1>9. QED
  BY <1>4, <1>7, <1>8 DEF Unit

\* Where the line does not move, what is said of the last frame stays
LEMMA SameFrame ==
  ASSUME NEW f, UNCHANGED <<wire, pos>>
  PROVE  /\ Good(f)' <=> Good(f)
         /\ wire'[f] = wire[f]
         /\ UNCHANGED age => (Ended(f)' <=> Ended(f))
BY DEF Good, Ended, Length

\* Buffers that are left alone hold the same characters
LEMMA SameChars ==
  ASSUME NEW f, UNCHANGED <<fifo, buf>>
  PROVE  /\ Chars(fifo, f, 0)' <=> Chars(fifo, f, 0)
         /\ Chars(buf, f, 1)' <=> Chars(buf, f, 1)
         /\ Chars(fifo, f, Len(buf) + 1)' <=> Chars(fifo, f, Len(buf) + 1)
BY DEF Chars

\* A frame that is seen alone stays whole
LEMMA WholeStep ==
  ASSUME RtuInv, NEW f \in 1 .. Len(wire), f = Len(wire), f \notin gapped', Fits(f), Whole(f),
         pc \in RxPcs, pc' \in RxPcs, UNCHANGED wire, [Next]_vars
  PROVE  Whole(f)'
<1>0. PlainType /\ DataType /\ LineInv /\ ReadInv /\ wire[f] \in Kinds /\ wire # <<>>
  BY SentBytes DEF RtuInv
<1>1. CASE FirstWait
  <2>1. /\ UNCHANGED <<fifo, buf, pos, wire, age, idread>>
        /\ pc = "first" /\ pc' = "clr" /\ dest' = "id" /\ UNCHANGED flags
    BY <1>1 DEF FirstWait, driverVars, bufVars, lineVars, histVars
  <2>2. /\ (Good(f)' <=> Good(f)) /\ wire'[f] = wire[f] /\ (Ended(f)' <=> Ended(f))
        /\ (Chars(fifo, f, 0)' <=> Chars(fifo, f, 0)) /\ (Chars(buf, f, 1)' <=> Chars(buf, f, 1))
        /\ Chars(fifo, f, Len(buf) + 1)' <=> Chars(fifo, f, Len(buf) + 1)
    BY <2>1, SameFrame, SameChars
  <2>9. QED
    BY <1>0, <2>1, <2>2 DEF Whole, InBody, Reading
<1>2. CASE FirstTimeout
  <2>1. /\ UNCHANGED <<fifo, buf, pos, wire, age, idread>>
        /\ pc = "first" /\ pc' = "ret" /\ UNCHANGED flags
    BY <1>2 DEF FirstTimeout, driverVars, bufVars, lineVars, histVars
  <2>2. /\ (Good(f)' <=> Good(f)) /\ wire'[f] = wire[f] /\ (Ended(f)' <=> Ended(f))
        /\ (Chars(fifo, f, 0)' <=> Chars(fifo, f, 0)) /\ (Chars(buf, f, 1)' <=> Chars(buf, f, 1))
        /\ Chars(fifo, f, Len(buf) + 1)' <=> Chars(fifo, f, Len(buf) + 1)
    BY <2>1, SameFrame, SameChars
  <2>9. QED
    BY <1>0, <2>1, <2>2 DEF Whole, InBody, Reading
<1>3. CASE ReadClr
  <2>1. /\ UNCHANGED <<fifo, buf, pos, wire, age, idread>>
        /\ UNCHANGED <<dest, got, slave_rx>> /\ flags' = flags \ {RX_AVAIL} /\ pc = "clr" /\ pc' = "avail"
    BY <1>3 DEF ReadClr, driverVars, bufVars, lineVars, histVars
  <2>2. /\ (Good(f)' <=> Good(f)) /\ wire'[f] = wire[f] /\ (Ended(f)' <=> Ended(f))
        /\ (Chars(fifo, f, 0)' <=> Chars(fifo, f, 0)) /\ (Chars(buf, f, 1)' <=> Chars(buf, f, 1))
        /\ Chars(fifo, f, Len(buf) + 1)' <=> Chars(fifo, f, Len(buf) + 1)
    BY <2>1, SameFrame, SameChars
  <2>9. QED
    BY <1>0, <2>1, <2>2 DEF Whole, InBody, Reading
<1>4. CASE ReadAvail
  <2>1. /\ UNCHANGED <<fifo, buf, pos, wire, age, idread>>
        /\ UNCHANGED <<dest, got, slave_rx>> /\ pc = "avail" /\ pc' = "take"
        /\ T1P5 \in flags' => T1P5 \in flags
    BY <1>4 DEF ReadAvail, driverVars, bufVars, lineVars, histVars
  <2>2. /\ (Good(f)' <=> Good(f)) /\ wire'[f] = wire[f] /\ (Ended(f)' <=> Ended(f))
        /\ (Chars(fifo, f, 0)' <=> Chars(fifo, f, 0)) /\ (Chars(buf, f, 1)' <=> Chars(buf, f, 1))
        /\ Chars(fifo, f, Len(buf) + 1)' <=> Chars(fifo, f, Len(buf) + 1)
    BY <2>1, SameFrame, SameChars
  <2>3. ASSUME idread, dest = "body"
        PROVE  navail' = Len(fifo) /\ UNCHANGED flags
    <3>1. pos = Len(buf) + Len(fifo) + 1
      BY <2>1, <2>3 DEF Whole, InBody, Reading
    <3>2. wire[f].size \in Nat /\ MaxPdu \in Nat /\ Len(fifo) \in Nat /\ Len(buf) \in Nat
      BY <1>0, KindAssumption, SizeAssumption, SentBytes DEF DataType
    <3>3. pos <= wire[f].size + 3 /\ wire[f].size <= MaxPdu - 2
      BY <1>0 DEF LineInv, Length, Fits
    <3>4. ~(Len(fifo) > ReadSize)
      BY <2>3, <3>1, <3>2, <3>3 DEF ReadSize
    <3>5. QED
      BY <1>4, <3>4 DEF ReadAvail
  <2>9. QED
    BY <1>0, <2>1, <2>2, <2>3 DEF Whole, InBody, Reading
<1>5. CASE ReadTake
  <2>1. pc = "take" /\ UNCHANGED <<flags, age, dest, got, wire, pos>>
    BY <1>5 DEF ReadTake, lineVars
  <2>2. (Good(f)' <=> Good(f)) /\ (Ended(f)' <=> Ended(f))
    BY <2>1, SameFrame
  <2>3. /\ fifo \in Seq(Sent) /\ buf \in Seq(Sent) /\ navail \in 0 .. Len(fifo)
        /\ Len(fifo) \in Nat /\ Len(buf) \in Nat
    BY <1>5, <1>0, ReadTakeEffect DEF DataType
  <2>4. Len(fifo') = Len(fifo) - navail /\ (navail = Len(fifo) <=> fifo' = <<>>)
    BY <1>5, <1>0, ReadTakeEffect
  <2>5. fifo' = Rest(fifo, navail)
    BY <1>5 DEF ReadTake, Rest
  <2>6. CASE dest = "id"
    <3>1. pc' = "body" /\ buf' = buf /\ (idread' <=> navail > 0)
      BY <1>5, <2>6 DEF ReadTake
    <3>2. buf = <<>> /\ Len(buf) = 0 /\ navail <= 1
      BY <1>0, <2>1, <2>6 DEF ReadInv, Reading
    <3>3. Chars(fifo, f, 0) /\ Len(fifo) = pos
      BY <2>1, <2>6 DEF Whole, Reading
    <3>4. ASSUME navail > 0
          PROVE  slave_rx' = <<f, 1>> /\ Chars(fifo', f, 1) /\ pos = Len(fifo') + 1
      <4>1. navail = 1 /\ 1 \in 1 .. Len(fifo)
        BY <2>3, <3>2, <3>4
      <4>2. slave_rx' = fifo[1]
        BY <1>5, <2>3, <2>6, <3>4, <4>1 DEF ReadTake
      <4>3. fifo[1] = <<f, 0 + 1>>
        BY <3>3, <4>1 DEF Chars
      <4>4. Chars(fifo', f, 0 + navail)
        BY <2>3, <2>5, <3>3, CharsRest
      <4>5. QED
        BY <2>3, <2>4, <3>3, <4>1, <4>2, <4>3, <4>4
    <3>5. Chars(buf, f, 1)' /\ Len(buf') = 0
      BY <3>1, <3>2 DEF Chars
    <3>6. navail > 0 => Chars(fifo, f, Len(buf) + 1)' /\ pos' = (Len(buf) + Len(fifo) + 1)'
      <4>1. HAVE navail > 0
      <4>2. Len(buf') + 1 = 1 /\ Len(fifo') \in Nat
        BY <2>3, <2>4, <3>5
      <4>3. QED
        BY <2>1, <3>4, <3>5, <4>1, <4>2
    <3>7. QED
      BY <2>1, <2>2, <3>1, <3>4, <3>5, <3>6 DEF Whole, InBody, Reading
  <2>7. CASE dest = "body"
    <3>1. /\ UNCHANGED <<slave_rx, idread>>
          /\ (pc' = "verify" /\ T1P5 \in got) \/ pc' = "body"
      BY <1>5, <2>7 DEF ReadTake
    <3>2. CASE ~idread
      BY <2>1, <2>2, <2>7, <3>1, <3>2 DEF Whole, InBody, Reading
    <3>3. CASE idread
      <4>1. /\ slave_rx = <<f, 1>> /\ Chars(buf, f, 1) /\ Chars(fifo, f, Len(buf) + 1)
            /\ pos = Len(buf) + Len(fifo) + 1
            /\ T1P5 \in got => Ended(f) /\ RX_AVAIL \notin flags /\ navail = Len(fifo)
        BY <2>1, <2>7, <3>3 DEF Whole, InBody, Reading
      <4>2. Len(buf') = Len(buf) + navail
        BY <1>5, <1>0, <2>7, ReadTakeEffect
      <4>3. Chars(buf', f, 1)
        <5>1. buf' = buf \o SubSeq(fifo, 1, navail)
          BY <1>5, <2>7 DEF ReadTake
        <5>2. QED
          BY <2>3, <4>1, <5>1, CharsJoined
      <4>4. Chars(fifo', f, (Len(buf) + 1) + navail)
        BY <2>3, <2>5, <4>1, CharsRest
      <4>5. (Len(buf) + 1) + navail = Len(buf') + 1 /\ pos = Len(buf') + Len(fifo') + 1
        BY <2>3, <2>4, <4>1, <4>2
      <4>6. Chars(fifo', f, Len(buf') + 1)
        BY <4>4, <4>5
      <4>7. QED
        BY <2>1, <2>2, <2>4, <2>7, <3>1, <3>3, <4>1, <4>3, <4>5, <4>6 DEF Whole, InBody, Reading
    <3>4. QED
      BY <3>2, <3>3
  <2>8. CASE dest = "extra"
    <3>1. UNCHANGED idread /\ pc' \in {"tail", "clear"}
      BY <1>5, <2>8 DEF ReadTake
    <3>2. ~idread
      BY <2>1, <2>8 DEF Whole, Reading
    <3>3. QED
      BY <2>1, <2>2, <3>1, <3>2 DEF Whole, InBody, Reading
  <2>9. QED
    BY <1>0, <2>6, <2>7, <2>8 DEF PlainType
<1>6. CASE BodyWait
  <2>1. /\ UNCHANGED <<fifo, buf, pos, wire, age, idread>>
        /\ pc = "body" /\ dest' = "body" /\ got' = flags /\ UNCHANGED <<flags, slave_rx>>
        /\ pc' = "clr" \/ (pc' = "verify" /\ RX_AVAIL \notin flags /\ T1P5 \in flags)
    BY <1>6 DEF BodyWait, Mask, driverVars, bufVars, lineVars, histVars
  <2>2. /\ (Good(f)' <=> Good(f)) /\ wire'[f] = wire[f] /\ (Ended(f)' <=> Ended(f))
        /\ (Chars(fifo, f, 0)' <=> Chars(fifo, f, 0)) /\ (Chars(buf, f, 1)' <=> Chars(buf, f, 1))
        /\ Chars(fifo, f, Len(buf) + 1)' <=> Chars(fifo, f, Len(buf) + 1)
    BY <2>1, SameFrame, SameChars
  <2>3. RX_AVAIL \notin flags => fifo = <<>>
    BY <1>0, <2>1 DEF ReadInv
  <2>9. QED
    BY <1>0, <2>1, <2>2, <2>3 DEF Whole, InBody, Reading
<1>7. CASE Verify
  <2>1. /\ UNCHANGED <<fifo, buf, pos, wire, age, idread>>
        /\ pc = "verify" /\ pc' = "tail" /\ UNCHANGED <<flags, slave_rx>>
    BY <1>7 DEF Verify, driverVars, bufVars, lineVars, histVars
  <2>2. /\ (Good(f)' <=> Good(f)) /\ wire'[f] = wire[f] /\ (Ended(f)' <=> Ended(f))
        /\ (Chars(fifo, f, 0)' <=> Chars(fifo, f, 0)) /\ (Chars(buf, f, 1)' <=> Chars(buf, f, 1))
        /\ Chars(fifo, f, Len(buf) + 1)' <=> Chars(fifo, f, Len(buf) + 1)
    BY <2>1, SameFrame, SameChars
  <2>3. ASSUME idread, Good(f)
        PROVE  error' = 0 /\ Len(buf) = wire[f].size + 2 /\ broadcast' = (wire[f].unit = "all")
    <3>1. /\ slave_rx = <<f, 1>> /\ Chars(buf, f, 1) /\ pos = Len(buf) + Len(fifo) + 1
          /\ fifo = <<>> /\ Len(fifo) = 0
      BY <2>1, <2>3 DEF Whole, InBody
    <3>2. wire[f].size \in Nat /\ Len(buf) \in Nat
      BY <1>0, KindAssumption, SizeAssumption, SentBytes DEF DataType
    <3>3. Len(buf) + 1 = Length(f) /\ Len(buf) = wire[f].size + 2
      BY <2>3, <3>1, <3>2 DEF Good, Length
    <3>4. CrcOk /\ Unit = wire[f].unit /\ wire[f].unit # "other"
      BY <1>0, <2>3, <3>1, <3>3, CrcHolds DEF Good
    <3>5. error' = 0
      BY <1>7, <3>4 DEF Verify
    <3>6. broadcast' = (wire[f].unit = "all")
      BY <1>7, <3>4 DEF Verify
    <3>7. QED
      BY <3>3, <3>5, <3>6
  <2>9. QED
    BY <1>0, <2>1, <2>2, <2>3 DEF Whole, InBody, Reading
<1>8. CASE TailWait
  <2>1. /\ UNCHANGED <<fifo, buf, pos, wire, age, idread>>
        /\ pc = "tail" /\ UNCHANGED <<flags, broadcast, slave_rx>>
        /\ RX_AVAIL \in flags \/ (pc' = "clear" /\ error' = error)
        /\ pc' \in {"clr", "clear"} /\ dest' = "extra"
    BY <1>8 DEF TailWait, driverVars, bufVars, lineVars, histVars
  <2>2. /\ (Good(f)' <=> Good(f)) /\ wire'[f] = wire[f] /\ (Ended(f)' <=> Ended(f))
        /\ (Chars(fifo, f, 0)' <=> Chars(fifo, f, 0)) /\ (Chars(buf, f, 1)' <=> Chars(buf, f, 1))
        /\ Chars(fifo, f, Len(buf) + 1)' <=> Chars(fifo, f, Len(buf) + 1)
    BY <2>1, SameFrame, SameChars
  <2>9. QED
    BY <1>0, <2>1, <2>2 DEF Whole, InBody, Reading
<1>9. CASE Clear
  <2>1. /\ UNCHANGED <<fifo, buf, pos, wire, age, idread>>
        /\ pc = "clear" /\ pc' = "ret" /\ UNCHANGED broadcast /\ T1P5 \notin flags'
        /\ error = 0 => ret' = Len(buf) - 2
    BY <1>9 DEF Clear, driverVars, bufVars, lineVars, histVars
  <2>2. /\ (Good(f)' <=> Good(f)) /\ wire'[f] = wire[f] /\ (Ended(f)' <=> Ended(f))
        /\ (Chars(fifo, f, 0)' <=> Chars(fifo, f, 0)) /\ (Chars(buf, f, 1)' <=> Chars(buf, f, 1))
        /\ Chars(fifo, f, Len(buf) + 1)' <=> Chars(fifo, f, Len(buf) + 1)
    BY <2>1, SameFrame, SameChars
  <2>3. wire[f].size \in Nat
    BY <1>0, KindAssumption, SizeAssumption, SentBytes
  <2>9. QED
    BY <1>0, <2>1, <2>2, <2>3 DEF Whole, InBody, Reading
<1>10. CASE Return
  BY <1>0, <1>10 DEF Return, RxPcs
<1>11. CASE TxClrEmpty
  BY <1>0, <1>11 DEF TxClrEmpty, RxPcs
<1>12. CASE TxWrite
  BY <1>0, <1>12 DEF TxWrite, RxPcs
<1>13. CASE TxDrained
  BY <1>0, <1>13 DEF TxDrained, RxPcs
<1>14. CASE TxTimer
  BY <1>0, <1>14 DEF TxTimer, RxPcs
<1>15. CASE TxSilence
  BY <1>0, <1>15 DEF TxSilence, RxPcs
<1>16. CASE StartTx
  BY <1>0, <1>16 DEF StartTx, RxPcs
<1>17. CASE \E t \in BOOLEAN : StartRx(t)
  BY <1>0, <1>17 DEF StartRx, RxPcs
<1>18. CASE mb_tx_hook
  <2>1. /\ UNCHANGED <<fifo, buf, pos, wire, age, idread>>
        /\ UNCHANGED <<pc, dest, got, navail, error, broadcast, ret, slave_rx>>
        /\ flags' = flags \cup {TX_EMPTY}
    BY <1>18 DEF mb_tx_hook, taskVars, bufVars, lineVars, histVars
  <2>2. /\ (Good(f)' <=> Good(f)) /\ wire'[f] = wire[f] /\ (Ended(f)' <=> Ended(f))
        /\ (Chars(fifo, f, 0)' <=> Chars(fifo, f, 0)) /\ (Chars(buf, f, 1)' <=> Chars(buf, f, 1))
        /\ Chars(fifo, f, Len(buf) + 1)' <=> Chars(fifo, f, Len(buf) + 1)
    BY <2>1, SameFrame, SameChars
  <2>9. QED
    BY <1>0, <2>1, <2>2 DEF Whole, InBody, Reading
<1>19. CASE BeginFrame
  <2>1. Len(wire') = Len(wire) + 1 /\ Len(wire) \in Nat
    BY <1>0, <1>19, WireGrows, SentBytes DEF BeginFrame
  <2>2. QED
    BY <1>0, <2>1
<1>20. CASE NextChar
  <2>1. /\ UNCHANGED <<buf, wire, idread>> /\ pos' = pos + 1 /\ T1P5 \notin flags'
        /\ UNCHANGED <<pc, dest, got, navail, error, broadcast, ret, slave_rx>>
        /\ fifo' = Append(fifo, <<Len(wire), pos + 1>>) /\ pos < Length(Len(wire))
    BY <1>20 DEF NextChar, mb_rx_hook, MidFrame, taskVars, bufVars
  <2>2. ~(age > 0)
    BY <1>20, <1>0 DEF NextChar
  <2>3. pos \in Nat /\ Length(f) \in Nat /\ fifo \in Seq(Sent) /\ Len(fifo) \in Nat /\ Len(buf) \in Nat
    <3>1. Length(f) \in 3 .. MaxPdu + 3
      BY <1>0, SentBytes
    <3>2. QED
      BY <1>0, <3>1 DEF DataType
  <2>4. ~Ended(f)
    BY <1>0, <2>1, <2>2, <2>3 DEF Ended
  <2>5. Len(fifo') = Len(fifo) + 1 /\ (Chars(buf, f, 1)' <=> Chars(buf, f, 1))
    BY <2>1, <2>3 DEF Chars
  <2>6. PICK b : b = <<f, pos + 1>>
    OBVIOUS
  <2>7. fifo' = Append(fifo, b)
    BY <1>0, <2>1, <2>6
  <2>8. ASSUME pc = "first" \/ Reading("id")
        PROVE  Chars(fifo', f, 0) /\ Len(fifo') = pos + 1
    <3>1. Chars(fifo, f, 0) /\ Len(fifo) = pos
      BY <2>8 DEF Whole
    <3>2. pos + 1 = 0 + (Len(fifo) + 1)
      BY <2>3, <3>1
    <3>3. b = <<f, 0 + (Len(fifo) + 1)>>
      BY <2>6, <3>2
    <3>4. Chars(fifo', f, 0)
      BY <2>3, <2>7, <3>1, <3>3, CharsNext
    <3>5. QED
      BY <2>5, <3>1, <3>4
  <2>9. ASSUME idread, InBody
        PROVE  Chars(fifo', f, Len(buf) + 1) /\ pos' = Len(buf) + Len(fifo') + 1
    <3>1. Chars(fifo, f, Len(buf) + 1) /\ pos = Len(buf) + Len(fifo) + 1
      BY <2>9 DEF Whole
    <3>2. pos + 1 = (Len(buf) + 1) + (Len(fifo) + 1) /\ Len(buf) + 1 \in Nat
      BY <2>3, <3>1
    <3>3. b = <<f, (Len(buf) + 1) + (Len(fifo) + 1)>>
      BY <2>6, <3>2
    <3>4. Chars(fifo', f, Len(buf) + 1)
      BY <2>3, <2>7, <3>1, <3>2, <3>3, CharsNext
    <3>5. QED
      BY <2>1, <2>3, <2>5, <3>1, <3>4
  <2>10. QED
    BY <2>1, <2>4, <2>5, <2>8, <2>9 DEF Whole, InBody, Reading
<1>21. CASE Silence
  <2>1. /\ UNCHANGED <<fifo, buf, pos, wire, idread>> /\ age' > 0
        /\ UNCHANGED <<pc, dest, got, navail, error, broadcast, ret, slave_rx>>
        /\ RX_AVAIL \in flags' => RX_AVAIL \in flags
    BY <1>21, <1>0 DEF Silence, taskVars, bufVars, lineVars, PlainType
  <2>2. /\ (Good(f)' <=> Good(f)) /\ wire'[f] = wire[f]
        /\ (Chars(fifo, f, 0)' <=> Chars(fifo, f, 0)) /\ (Chars(buf, f, 1)' <=> Chars(buf, f, 1))
        /\ Chars(fifo, f, Len(buf) + 1)' <=> Chars(fifo, f, Len(buf) + 1)
    BY <2>1, SameFrame, SameChars
  <2>3. Ended(f)'
    BY <2>1 DEF Ended
  <2>4. QED
    BY <2>1, <2>2, <2>3 DEF Whole, InBody, Reading
<1>22. CASE UNCHANGED vars
  <2>1. /\ UNCHANGED <<fifo, buf, pos, wire, age, idread>>
        /\ UNCHANGED <<pc, dest, got, navail, error, broadcast, ret, slave_rx, flags>>
    BY <1>22 DEF vars, driverVars, taskVars, bufVars, lineVars, histVars
  <2>2. /\ (Good(f)' <=> Good(f)) /\ wire'[f] = wire[f] /\ (Ended(f)' <=> Ended(f))
        /\ (Chars(fifo, f, 0)' <=> Chars(fifo, f, 0)) /\ (Chars(buf, f, 1)' <=> Chars(buf, f, 1))
        /\ Chars(fifo, f, Len(buf) + 1)' <=> Chars(fifo, f, Len(buf) + 1)
    BY <2>1, SameFrame, SameChars
  <2>9. QED
    BY <1>0, <2>1, <2>2 DEF Whole, InBody, Reading
<1>23. QED
  BY <1>1, <1>2, <1>3, <1>4, <1>5, <1>6, <1>7, <1>8, <1>9, <1>10, <1>11, <1>12,
     <1>13, <1>14, <1>15, <1>16, <1>17, <1>18, <1>19, <1>20, <1>21, <1>22 DEF Next,
     Task, Calls

\* The call is between two frames when its first one begins
LEMMA WholeBegins ==
  ASSUME RtuInv, SoleInv, BeginFrame, pc \in RxPcs, begun = {}, NEW f, f = Len(wire')
  PROVE  Whole(f)'
<1>1. ~idread /\ fifo = <<>>
  BY DEF SoleInv
<1>2. Len(wire') = Len(wire) + 1
  BY WireGrows DEF RtuInv, BeginFrame
<1>3. UNCHANGED <<pc, dest, idread>> /\ pos' = 1 /\ T1P5 \notin flags'
  BY DEF BeginFrame, mb_rx_hook, taskVars
<1>4. PICK b : b = <<f, 1>>
  OBVIOUS
<1>5. fifo' = Append(fifo, b)
  BY <1>2, <1>4 DEF BeginFrame, mb_rx_hook
<1>6. Len(fifo') = 1 /\ fifo'[1] = b
  BY <1>1, <1>5
<1>7. Chars(fifo', f, 0)
  BY <1>4, <1>6 DEF Chars
<1>8. QED
  BY <1>1, <1>3, <1>6, <1>7 DEF Whole

\* A step keeps a sole frame whole
LEMMA SoleStep ==
  ASSUME RtuInv, SoleInv, [Next]_vars
  PROVE  SoleInv'
<1>1. CASE BeginFrame
  <2>1. SUFFICES ASSUME pc' \in RxPcs
                 PROVE  SoleInv'
    BY DEF SoleInv
  <2>2. pc \in RxPcs /\ begun' = begun \cup {Len(wire) + 1}
    BY <1>1, <2>1 DEF BeginFrame, mb_rx_hook, taskVars
  <2>3. Len(wire') = Len(wire) + 1 /\ Len(wire) \in Nat /\ begun \subseteq 0 .. Len(wire)
    BY <1>1, WireGrows, SentBytes DEF RtuInv, DataType, BeginFrame
  <2>4. ASSUME NEW f, begun' = {f}
        PROVE  f = Len(wire') /\ begun = {}
    BY <2>2, <2>3, <2>4
  <2>5. begun' # {}
    BY <2>2
  <2>6. \A f \in 1 .. Len(wire') : begun' = {f} => f = Len(wire') /\ Whole(f)'
    BY <1>1, <2>2, <2>4, WholeBegins
  <2>7. QED
    BY <2>5, <2>6 DEF SoleInv
<1>2. CASE \E t \in BOOLEAN : StartRx(t)
  <2>1. /\ UNCHANGED <<fifo, wire, pos>> /\ ~idread'
        /\ begun' = {0} \/ (begun' = {} /\ fifo = <<>> /\ ~MidFrame)
    BY <1>2 DEF StartRx, driverVars, lineVars
  <2>2. UNCHANGED MidFrame
    BY <2>1 DEF MidFrame, Length
  <2>3. \A f \in 1 .. Len(wire') : begun' # {f}
    BY <2>1
  <2>4. QED
    BY <2>1, <2>2, <2>3 DEF SoleInv
<1>3. CASE ~BeginFrame /\ ~(\E t \in BOOLEAN : StartRx(t))
  <2>1. SUFFICES ASSUME pc' \in RxPcs
                 PROVE  SoleInv'
    BY DEF SoleInv
  <2>2. UNCHANGED <<wire, begun>> /\ gapped \subseteq gapped'
    BY <1>3 DEF Next, Task, Calls, vars, FirstWait, FirstTimeout, ReadClr, ReadAvail, ReadTake,
       BodyWait, Verify, TailWait, Clear, Return, TxClrEmpty, TxWrite, TxDrained, TxTimer,
       TxSilence, StartTx, NextChar, Silence, mb_tx_hook, lineVars, histVars
  <2>3. pc \in RxPcs
    BY <1>3, <2>1 DEF Next, Task, Calls, vars, FirstWait, FirstTimeout, ReadClr, ReadAvail, ReadTake,
       BodyWait, Verify, TailWait, Clear, Return, TxClrEmpty, TxWrite, TxDrained, TxTimer,
       TxSilence, StartTx, NextChar, mb_rx_hook, Silence, mb_tx_hook, taskVars, RxPcs
  <2>4. ASSUME begun = {}
        PROVE  ~idread' /\ fifo' = <<>> /\ ~MidFrame'
    <3>1. ~idread /\ fifo = <<>> /\ ~MidFrame /\ Len(fifo) = 0
      BY <2>3, <2>4 DEF SoleInv
    <3>2. ~NextChar
      BY <3>1 DEF NextChar
    <3>3. UNCHANGED pos
      BY <1>3, <3>2 DEF Next, Task, Calls, vars, FirstWait, FirstTimeout, ReadClr, ReadAvail,
         ReadTake, BodyWait, Verify, TailWait, Clear, Return, TxClrEmpty, TxWrite, TxDrained,
         TxTimer, TxSilence, StartTx, Silence, mb_tx_hook, lineVars
    <3>4. ~MidFrame'
      BY <2>2, <3>1, <3>3 DEF MidFrame, Length
    <3>5. CASE ReadTake
      <4>1. DataType /\ ReadInv
        BY DEF RtuInv
      <4>2. navail \in 0 .. Len(fifo) /\ (navail = Len(fifo) <=> fifo' = <<>>)
        BY <3>5, <4>1, ReadTakeEffect
      <4>3. navail = 0 /\ fifo' = <<>>
        BY <3>1, <4>2
      <4>4. ~idread'
        <5>1. idread' = (navail > 0) \/ idread' = idread
          BY <3>5 DEF ReadTake
        <5>2. ~(navail > 0)
          BY <4>3
        <5>3. QED
          BY <3>1, <5>1, <5>2
      <4>5. QED
        BY <3>4, <4>3, <4>4
    <3>6. CASE ~ReadTake
      <4>1. UNCHANGED <<fifo, idread>>
        BY <1>3, <3>2, <3>6 DEF Next, Task, Calls, vars, FirstWait, FirstTimeout, ReadClr, ReadAvail,
           BodyWait, Verify, TailWait, Clear, Return, TxClrEmpty, TxWrite, TxDrained,
           TxTimer, TxSilence, StartTx, Silence, mb_tx_hook, driverVars, histVars
      <4>2. QED
        BY <3>1, <3>4, <4>1
    <3>7. QED
      BY <3>5, <3>6
  <2>5. ASSUME NEW f \in 1 .. Len(wire), begun = {f}
        PROVE  f = Len(wire) /\ (f \notin gapped' /\ Fits(f) => Whole(f)')
    <3>1. f = Len(wire) /\ (f \notin gapped /\ Fits(f) => Whole(f))
      BY <2>3, <2>5 DEF SoleInv
    <3>2. ASSUME f \notin gapped', Fits(f)
          PROVE  Whole(f)'
      <4>1. Whole(f)
        BY <2>2, <3>1, <3>2
      <4>2. QED
        BY <2>1, <2>2, <2>3, <3>1, <3>2, <4>1, WholeStep
    <3>3. QED
      BY <3>1, <3>2
  <2>6. \A f \in 1 .. Len(wire') : Fits(f)' => Fits(f)
    BY <2>2 DEF Fits
  <2>7. QED
    BY <2>2, <2>4, <2>5, <2>6 DEF SoleInv
<1>4. QED
  BY <1>1, <1>2, <1>3

\* A call that starts on a silent line, reads an id and returns after exactly
\* one frame, a clean one that fits, returns that frame and knows whether it was
\* broadcast, whatever the order of the task's steps and the interrupts.
THEOREM SoleFrameAlwaysReceived == Spec => []SoleFrameReceived
<1>1. Init => SoleInv
  BY DEF Init, SoleInv, RxPcs
<1>2. RtuInv /\ SoleInv /\ [Next]_vars => SoleInv'
  BY SoleStep
<1>3. ASSUME SoleInv
      PROVE  SoleFrameReceived
  <2>1. SUFFICES ASSUME pc = "ret", NEW f \in 1 .. Len(wire), begun = {f}, idread, Arrived(f),
                        Clean(f), Fits(f)
                 PROVE  ret = wire[f].size /\ broadcast = (wire[f].unit = "all")
    BY DEF SoleFrameReceived
  <2>2. f = Len(wire) /\ Whole(f)
    BY <1>3, <2>1 DEF SoleInv, RxPcs, Clean
  <2>3. Good(f)
    BY <2>1, <2>2 DEF Arrived, Clean, Good
  <2>4. QED
    BY <2>1, <2>2, <2>3 DEF Whole
<1>4. QED
  BY <1>1, <1>2, <1>3, RtuAlways, PTL DEF Spec

------------------------------------------------------------------------------
(* A task that keeps up loses nothing. *)

\* No frame up to f fills the buffer
Small(f) == \A g \in 1 .. f : wire[g].size < MaxPdu - 2

\* The task is not receiving a frame
Waiting == pc \in TxPcs \cup {"idle", "ret"} \/ (pc = "first" /\ RX_AVAIL \notin flags)

\* The first character is there or is being read
AtFirst == (pc = "first" /\ RX_AVAIL \in flags) \/ Reading("id")

\* The task is past the message, or waits for its end
AtEnd == pc \in {"tail", "clear"} \/ Reading("extra")

\* The frames before the last one were returned
OlderKept == \A f \in 1 .. Len(wire) : f < Len(wire) /\ Clean(f) /\ Small(f) => f \in accepted

\* While a frame is received T1P5 runs, and a first character is read at once
Timed ==
  /\ AtFirst \/ InBody \/ AtEnd => t1p5
  /\ pc = "first" /\ RX_AVAIL \in flags => age = 0

\* No character stays behind, and the call sees the last frame alone unless it
\* came too close behind another
LastKept ==
  /\ Len(fifo) <= 1 /\ (Waiting \/ pc = "clear" => fifo = <<>>)
  /\ pc = "take" => navail = Len(fifo)
  /\ AtEnd => Len(buf) < MaxPdu
  /\ pc = "first" /\ RX_AVAIL \notin flags => begun = {}
  /\ AtFirst \/ InBody => begun = {Len(wire)} /\ wire # <<>>
  /\ InBody => idread
  /\ AtEnd => (begun = {Len(wire)} /\ wire # <<>> /\ idread) \/ Len(wire) - 1 \in rushed
  /\ Waiting /\ wire # <<>> /\ Clean(Len(wire)) => Len(wire) \in accepted

KeepInv == calm => OlderKept /\ Timed /\ (Small(Len(wire)) => LastKept)

\* A message in the making leaves room in the buffer
LEMMA BodyFits ==
  ASSUME RtuInv, SoleInv, calm, LastKept, Small(Len(wire)), InBody
  PROVE  Len(buf) < MaxPdu
<1>1. begun = {Len(wire)} /\ wire # <<>> /\ idread
  BY DEF LastKept
<1>2. PICK f : f = Len(wire)
  OBVIOUS
<1>3. f \in 1 .. Len(wire) /\ f \in Nat
  BY <1>1, <1>2, SentBytes, EmptySeq DEF RtuInv, DataType
<1>4. f \notin gapped
  BY <1>2 DEF RtuInv, CalmInv, InBody
<1>5. wire[f].size \in Nat /\ wire[f].size < MaxPdu - 2 /\ MaxPdu \in Nat
  BY <1>2, <1>3, KindAssumption, SizeAssumption, SentBytes DEF RtuInv, Small
<1>6. Fits(f) /\ pc \in RxPcs
  BY <1>5 DEF Fits, InBody, Reading, RxPcs
<1>7. Whole(f)
  BY <1>1, <1>2, <1>3, <1>4, <1>6 DEF SoleInv
<1>8. pos = Len(buf) + Len(fifo) + 1
  BY <1>1, <1>7 DEF Whole
<1>9. pos <= wire[f].size + 3
  BY <1>1, <1>2 DEF RtuInv, LineInv, Length
<1>10. Len(buf) \in Nat /\ Len(fifo) \in Nat
  BY DEF RtuInv, DataType
<1>11. QED
  BY <1>5, <1>8, <1>9, <1>10

\* What is clean has always been
LEMMA CleanBefore ==
  ASSUME NEW f, wire'[f] = wire[f], gapped \subseteq gapped', rushed \subseteq rushed', Clean(f)'
  PROVE  Clean(f)
BY DEF Clean

\* A line that is left alone has the same frames
LEMMA SmallSame ==
  ASSUME UNCHANGED wire
  PROVE  (\A f : Small(f)' <=> Small(f)) /\ (\A f : wire'[f] = wire[f]) /\ Len(wire') = Len(wire)
BY DEF Small

\* Histories that only grow keep what is known of the earlier frames
LEMMA OlderSame ==
  ASSUME OlderKept, UNCHANGED wire, gapped \subseteq gapped', rushed \subseteq rushed',
         accepted \subseteq accepted'
  PROVE  OlderKept'
BY SmallSame, CleanBefore DEF OlderKept

\* A step that leaves the line alone keeps it
LEMMA KeepTask ==
  ASSUME RtuInv, SoleInv, KeepInv, calm,
         Task \/ Calls \/ mb_tx_hook \/ UNCHANGED vars
  PROVE  Timed' /\ (Small(Len(wire)) => LastKept')
<1>0. /\ PlainType /\ DataType /\ LineInv /\ ReadInv /\ CalmInv
      /\ UNCHANGED <<wire, rushed, gapped>> /\ (\A f : Clean(f)' => Clean(f))
  <2>1. UNCHANGED <<wire, rushed, gapped>>
    BY DEF Task, Calls, vars, FirstWait, FirstTimeout, ReadClr, ReadAvail, ReadTake,
       BodyWait, Verify, TailWait, Clear, Return, TxClrEmpty, TxWrite, TxDrained, TxTimer,
       TxSilence, StartTx, StartRx, mb_tx_hook, lineVars, histVars
  <2>2. QED
    BY <2>1, CleanBefore DEF RtuInv
<1>1. Timed /\ calm /\ (Small(Len(wire)) => LastKept)
  BY DEF KeepInv
<1>2. CASE FirstWait
  <2>1. /\ UNCHANGED <<t1p5, age, fifo, buf, idread, rushed, begun, accepted>>
        /\ pc = "first" /\ pc' = "clr" /\ dest' = "id" /\ UNCHANGED flags
        /\ T1P5 \in flags \/ RX_AVAIL \in flags
    BY <1>2 DEF FirstWait, Mask, driverVars, bufVars, lineVars, histVars
  <2>9. QED
    BY <1>0, <1>1, <2>1 DEF LastKept, Timed, CalmInv, Waiting, AtFirst, InBody, AtEnd, Reading, TxPcs
<1>3. CASE FirstTimeout
  <2>1. /\ UNCHANGED <<t1p5, age, fifo, buf, idread, rushed, begun, accepted>>
        /\ pc = "first" /\ pc' = "ret" /\ UNCHANGED flags /\ RX_AVAIL \notin flags
    BY <1>3 DEF FirstTimeout, Mask, driverVars, bufVars, lineVars, histVars
  <2>9. QED
    BY <1>0, <1>1, <2>1 DEF LastKept, Timed, CalmInv, Waiting, AtFirst, InBody, AtEnd, Reading, TxPcs
<1>4. CASE ReadClr
  <2>1. /\ UNCHANGED <<t1p5, age, fifo, buf, idread, rushed, begun, accepted>>
        /\ UNCHANGED dest /\ pc = "clr" /\ pc' = "avail"
    BY <1>4 DEF ReadClr, driverVars, bufVars, lineVars, histVars
  <2>9. QED
    BY <1>0, <1>1, <2>1 DEF LastKept, Timed, CalmInv, Waiting, AtFirst, InBody, AtEnd, Reading, TxPcs
<1>5. CASE ReadAvail
  <2>1. /\ UNCHANGED <<t1p5, age, fifo, buf, idread, rushed, begun, accepted>>
        /\ UNCHANGED dest /\ pc = "avail" /\ pc' = "take"
    BY <1>5 DEF ReadAvail, driverVars, bufVars, lineVars, histVars
  <2>2. Small(Len(wire)) => navail' = Len(fifo)
    <3>1. HAVE Small(Len(wire))
    <3>2. Len(fifo) \in Nat /\ Len(buf) \in Nat /\ MaxPdu \in Nat /\ Len(fifo) <= 1
      BY <1>0, <1>1, <3>1, SizeAssumption DEF LastKept, DataType
    <3>3. dest # "id" => Len(buf) < MaxPdu
      <4>1. dest # "id" => InBody \/ AtEnd
        BY <1>0, <2>1 DEF PlainType, InBody, AtEnd, Reading
      <4>2. QED
        BY <1>0, <1>1, <3>1, <4>1, BodyFits DEF LastKept
    <3>4. ~(Len(fifo) > ReadSize)
      BY <3>2, <3>3 DEF ReadSize
    <3>5. QED
      BY <1>5, <3>4 DEF ReadAvail
  <2>9. QED
    BY <1>0, <1>1, <2>1, <2>2 DEF LastKept, Timed, CalmInv, Waiting, AtFirst, InBody, AtEnd, Reading, TxPcs
<1>6. CASE ReadTake
  <2>1. /\ UNCHANGED <<t1p5, age, dest, flags, rushed, begun, accepted>>
        /\ pc = "take" /\ (dest # "id" => UNCHANGED idread)
        /\ \/ pc' \in {"body", "verify"} /\ dest # "extra"
           \/ pc' \in {"tail", "clear"} /\ dest = "extra"
    BY <1>6, <1>0 DEF ReadTake, PlainType
  <2>2. dest = "id" => idread'
    <3>1. HAVE dest = "id"
    <3>2. navail = 1 /\ 1 > 0
      BY <1>0, <1>1, <2>1, <3>1 DEF CalmInv
    <3>3. idread' = (navail > 0)
      BY <1>6, <3>1 DEF ReadTake
    <3>4. QED
      BY <3>2, <3>3
  <2>3. Small(Len(wire)) => fifo' = <<>> /\ Len(fifo') = 0
    BY <1>6, <1>0, <1>1, <2>1, ReadTakeEffect DEF LastKept
  <2>4. dest = "extra" => buf' = buf
    BY <1>6 DEF ReadTake
  <2>5. CASE dest # "extra"
    <3>1. InBody' /\ ~AtFirst' /\ ~AtEnd' /\ ~Waiting' /\ pc' \notin {"first", "take", "clear"}
      BY <2>1, <2>5 DEF InBody, AtFirst, AtEnd, Waiting, Reading, TxPcs
    <3>2. AtFirst \/ InBody
      BY <1>0, <2>1, <2>5 DEF InBody, AtFirst, Reading, PlainType
    <3>3. dest # "id" => InBody
      BY <1>0, <2>1, <2>5 DEF InBody, Reading, PlainType
    <3>4. QED
      BY <1>0, <1>1, <2>1, <2>2, <2>3, <3>1, <3>2, <3>3 DEF LastKept, Timed
  <2>6. CASE dest = "extra"
    <3>1. AtEnd' /\ ~AtFirst' /\ ~InBody' /\ ~Waiting' /\ pc' \notin {"first", "take"}
      BY <2>1, <2>6 DEF InBody, AtFirst, AtEnd, Waiting, Reading, TxPcs
    <3>2. AtEnd /\ UNCHANGED idread
      BY <2>1, <2>6 DEF AtEnd, Reading
    <3>3. QED
      BY <1>0, <1>1, <2>1, <2>3, <2>4, <2>6, <3>1, <3>2 DEF LastKept, Timed
  <2>9. QED
    BY <2>5, <2>6
<1>7. CASE BodyWait
  <2>1. /\ UNCHANGED <<t1p5, age, fifo, buf, idread, rushed, begun, accepted>>
        /\ pc = "body" /\ pc' \in {"clr", "verify"} /\ dest' = "body"
    BY <1>7 DEF BodyWait, driverVars, bufVars, lineVars, histVars
  <2>9. QED
    BY <1>0, <1>1, <2>1 DEF LastKept, Timed, CalmInv, Waiting, AtFirst, InBody, AtEnd, Reading, TxPcs
<1>8. CASE Verify
  <2>1. /\ UNCHANGED <<t1p5, age, fifo, buf, idread, rushed, begun, accepted>>
        /\ pc = "verify" /\ pc' = "tail"
    BY <1>8 DEF Verify, driverVars, bufVars, lineVars, histVars
  <2>2. Small(Len(wire)) => Len(buf) < MaxPdu
    BY <1>0, <1>1, <2>1, BodyFits DEF InBody
  <2>9. QED
    BY <1>0, <1>1, <2>1, <2>2 DEF LastKept, Timed, CalmInv, Waiting, AtFirst, InBody, AtEnd, Reading, TxPcs
<1>9. CASE TailWait
  <2>1. /\ UNCHANGED <<t1p5, age, fifo, buf, idread, rushed, begun, accepted>>
        /\ pc = "tail" /\ dest' = "extra"
        /\ pc' = "clr" \/ (pc' = "clear" /\ RX_AVAIL \notin flags)
    BY <1>9 DEF TailWait, driverVars, bufVars, lineVars, histVars
  <2>2. RX_AVAIL \notin flags => fifo = <<>>
    BY <1>0, <2>1 DEF ReadInv
  <2>9. QED
    BY <1>0, <1>1, <2>1, <2>2 DEF LastKept, Timed, CalmInv, Waiting, AtFirst, InBody, AtEnd, Reading, TxPcs
<1>10. CASE Clear
  <2>1. /\ UNCHANGED <<t1p5, age, fifo, buf, idread, rushed, begun>>
        /\ pc = "clear" /\ pc' = "ret" /\ accepted \subseteq accepted'
    BY <1>10 DEF Clear, driverVars, bufVars, lineVars, histVars
  <2>2. ASSUME Small(Len(wire)), wire # <<>>, Clean(Len(wire))
        PROVE  Len(wire) \in accepted'
    <3>1. PICK f : f = Len(wire)
      OBVIOUS
    <3>2. f \in 1 .. Len(wire) /\ f \in Nat
      BY <1>0, <2>2, <3>1, SentBytes, EmptySeq DEF DataType
    <3>3. begun = {f} /\ idread
      BY <1>0, <1>1, <2>1, <2>2, <3>1 DEF LastKept, AtEnd, Clean
    <3>4. wire[f].size \in Nat /\ wire[f].size < MaxPdu - 2 /\ MaxPdu \in Nat
      BY <1>0, <2>2, <3>1, <3>2, KindAssumption, SizeAssumption, SentBytes DEF Small
    <3>5. f \notin gapped /\ Fits(f) /\ pc \in RxPcs
      BY <2>1, <2>2, <3>1, <3>4 DEF Fits, RxPcs, Clean
    <3>6. Whole(f)
      BY <1>0, <3>2, <3>3, <3>5 DEF SoleInv
    <3>7. Good(f)
      <4>1. ~MidFrame
        BY <1>0, <1>1, <2>1 DEF CalmInv
      <4>2. pos <= Length(f) /\ Length(f) \in Nat /\ pos \in Nat
        BY <1>0, <2>2, <3>1, <3>4 DEF LineInv, Length, DataType
      <4>3. pos = Length(f)
        BY <2>2, <3>1, <4>1, <4>2 DEF MidFrame
      <4>4. QED
        BY <2>2, <3>1, <4>3 DEF Good, Clean
    <3>8. error = 0 /\ slave_rx = <<f, 1>>
      BY <2>1, <3>3, <3>6, <3>7 DEF Whole
    <3>9. accepted' = accepted \cup {slave_rx[1]}
      BY <1>10, <3>8 DEF Clear
    <3>10. QED
      BY <3>1, <3>8, <3>9
  <2>9. QED
    BY <1>0, <1>1, <2>1, <2>2 DEF LastKept, Timed, CalmInv, Waiting, AtFirst, InBody, AtEnd, Reading, TxPcs
<1>11. CASE Return
  <2>1. /\ UNCHANGED <<fifo, accepted>>
        /\ pc = "ret" /\ pc' = "idle"
    BY <1>11 DEF Return, driverVars, histVars
  <2>9. QED
    BY <1>0, <1>1, <2>1 DEF LastKept, Timed, CalmInv, Waiting, AtFirst, InBody, AtEnd, Reading, TxPcs
<1>12. CASE TxClrEmpty
  <2>1. /\ UNCHANGED <<fifo, accepted>>
        /\ pc = "send" /\ pc' = "write"
    BY <1>12 DEF TxClrEmpty, driverVars, histVars
  <2>9. QED
    BY <1>0, <1>1, <2>1 DEF LastKept, Timed, CalmInv, Waiting, AtFirst, InBody, AtEnd, Reading, TxPcs
<1>13. CASE TxWrite
  <2>1. /\ UNCHANGED <<fifo, accepted>>
        /\ pc = "write" /\ pc' = "drain"
    BY <1>13 DEF TxWrite, driverVars, histVars
  <2>9. QED
    BY <1>0, <1>1, <2>1 DEF LastKept, Timed, CalmInv, Waiting, AtFirst, InBody, AtEnd, Reading, TxPcs
<1>14. CASE TxDrained
  <2>1. /\ UNCHANGED <<fifo, accepted>>
        /\ pc = "drain" /\ pc' = "disable"
    BY <1>14 DEF TxDrained, driverVars, histVars
  <2>9. QED
    BY <1>0, <1>1, <2>1 DEF LastKept, Timed, CalmInv, Waiting, AtFirst, InBody, AtEnd, Reading, TxPcs
<1>15. CASE TxTimer
  <2>1. /\ UNCHANGED <<fifo, accepted>>
        /\ pc = "disable" /\ pc' = "silence"
    BY <1>15 DEF TxTimer, driverVars, histVars
  <2>9. QED
    BY <1>0, <1>1, <2>1 DEF LastKept, Timed, CalmInv, Waiting, AtFirst, InBody, AtEnd, Reading, TxPcs
<1>16. CASE TxSilence
  <2>1. /\ UNCHANGED <<fifo, accepted>>
        /\ pc = "silence" /\ pc' = "idle"
    BY <1>16 DEF TxSilence, driverVars, histVars
  <2>9. QED
    BY <1>0, <1>1, <2>1 DEF LastKept, Timed, CalmInv, Waiting, AtFirst, InBody, AtEnd, Reading, TxPcs
<1>17. CASE StartTx
  <2>1. /\ UNCHANGED <<fifo, accepted>>
        /\ pc = "idle" /\ pc' = "send"
    BY <1>17 DEF StartTx, driverVars, histVars
  <2>9. QED
    BY <1>0, <1>1, <2>1 DEF LastKept, Timed, CalmInv, Waiting, AtFirst, InBody, AtEnd, Reading, TxPcs
<1>18. CASE \E t \in BOOLEAN : StartRx(t)
  <2>1. /\ UNCHANGED <<fifo, accepted, flags>> /\ pc = "idle" /\ pc' = "first"
        /\ fifo = <<>> /\ ~MidFrame => begun' = {}
    BY <1>18 DEF StartRx, driverVars
  <2>9. QED
    BY <1>0, <1>1, <2>1 DEF LastKept, Timed, CalmInv, Waiting, AtFirst, InBody, AtEnd, Reading, TxPcs
<1>19. CASE mb_tx_hook
  <2>1. /\ UNCHANGED <<t1p5, age, fifo, buf, idread, rushed, begun, accepted>>
        /\ UNCHANGED <<pc, dest, navail>> /\ (RX_AVAIL \in flags' <=> RX_AVAIL \in flags)
    BY <1>19 DEF mb_tx_hook, taskVars, bufVars, histVars
  <2>9. QED
    BY <1>0, <1>1, <2>1 DEF LastKept, Timed, CalmInv, Waiting, AtFirst, InBody, AtEnd, Reading, TxPcs
<1>20. CASE UNCHANGED vars
  <2>1. /\ UNCHANGED <<t1p5, age, fifo, buf, idread, rushed, begun, accepted>>
        /\ UNCHANGED <<pc, dest, navail, flags>>
    BY <1>20 DEF vars, driverVars, taskVars, bufVars, histVars
  <2>9. QED
    BY <1>0, <1>1, <2>1 DEF LastKept, Timed, CalmInv, Waiting, AtFirst, InBody, AtEnd, Reading, TxPcs
<1>21. QED
  BY <1>2, <1>3, <1>4, <1>5, <1>6, <1>7, <1>8, <1>9, <1>10, <1>11, <1>12, <1>13,
     <1>14, <1>15, <1>16, <1>17, <1>18, <1>19, <1>20 DEF Task, Calls

\* A task that is blocked has left no character
LEMMA BlockedEmpty ==
  ASSUME RtuInv, SoleInv, calm, LastKept, Small(Len(wire)), Blocked, pc \in {"first", "body", "tail"}
  PROVE  fifo = <<>>
<1>1. pc = "first" => Waiting
  BY BlockedWhere DEF RtuInv, Waiting
<1>2. pc # "first" => ~Spinning
  <2>1. pc = "body" => Len(buf) < MaxPdu
    BY BodyFits DEF InBody
  <2>2. pc = "tail" => Len(buf) < MaxPdu
    BY DEF LastKept, AtEnd
  <2>3. Len(buf) \in Nat /\ MaxPdu \in Nat
    BY SizeAssumption DEF RtuInv, DataType
  <2>4. QED
    BY <2>1, <2>2, <2>3 DEF Spinning
<1>3. pc # "first" => RX_AVAIL \notin flags
  BY <1>2 DEF Blocked, Mask
<1>4. QED
  BY <1>1, <1>3 DEF RtuInv, ReadInv, LastKept

\* A frame that begins finds the last one returned, or makes it rushed
LEMMA KeepBegin ==
  ASSUME RtuInv, SoleInv, KeepInv, BeginFrame, calm'
  PROVE  OlderKept' /\ Timed' /\ (Small(Len(wire))' => LastKept')
<1>1. /\ calm /\ Blocked /\ Expected /\ PlainType /\ DataType /\ LineInv /\ CalmInv
      /\ OlderKept /\ Timed /\ (Small(Len(wire)) => LastKept)
  BY DEF BeginFrame, KeepInv, RtuInv
<1>2. /\ UNCHANGED <<pc, dest, idread, buf, gapped, accepted>> /\ age' = 0 /\ t1p5'
      /\ RX_AVAIL \in flags' /\ age # 0 /\ ~MidFrame
  BY DEF BeginFrame, mb_rx_hook, taskVars, bufVars
<1>3. PICK k \in Kinds : wire' = Append(wire, k)
  BY DEF BeginFrame
<1>4. /\ Len(wire') = Len(wire) + 1 /\ wire' # <<>> /\ Len(wire) \in Nat
      /\ \A f \in 1 .. Len(wire) : wire'[f] = wire[f]
  BY <1>1, <1>3, WireGrows, SentBytes
<1>5. pc \in {"first", "tail"}
  <2>1. pc \in {"first", "body", "tail"}
    BY <1>1, BlockedWhere DEF Expected, RxPcs
  <2>2. pc # "body"
    <3>1. SUFFICES ASSUME pc = "body"
                   PROVE  FALSE
      OBVIOUS
    <3>2. T1P5 \notin flags /\ t1p5
      BY <1>1, <3>1, BlockedWhere DEF Timed, InBody
    <3>3. ~(age > 0)
      BY <1>1, <3>1, <3>2 DEF CalmInv
    <3>4. QED
      BY <1>1, <1>2, <3>3 DEF PlainType
  <2>3. QED
    BY <2>1, <2>2
<1>6. rushed \subseteq rushed'
  BY DEF BeginFrame
<1>7. pc = "tail" => Len(wire) \in rushed'
  <2>1. HAVE pc = "tail"
  <2>2. t1p5 /\ age < 2
    BY <1>1, <2>1 DEF Timed, AtEnd, Expected
  <2>3. QED
    BY <2>2 DEF BeginFrame
<1>8. Small(Len(wire))' => Small(Len(wire))
  BY <1>4 DEF Small
<1>9. \A f \in 1 .. Len(wire) : Small(f)' => Small(f)
  BY <1>4 DEF Small
<1>10. \A f \in 1 .. Len(wire) : Clean(f)' => Clean(f)
  BY <1>2, <1>4, <1>6, CleanBefore
<1>11. pc = "first" => Waiting
  BY <1>1, BlockedWhere DEF Waiting
<1>12. OlderKept'
  <2>1. SUFFICES ASSUME NEW f \in 1 .. Len(wire'), f < Len(wire'), Clean(f)', Small(f)'
                 PROVE  f \in accepted'
    BY DEF OlderKept
  <2>2. f \in 1 .. Len(wire)
    BY <1>4, <2>1
  <2>3. Clean(f) /\ Small(f)
    BY <1>9, <1>10, <2>1, <2>2
  <2>4. CASE f < Len(wire)
    BY <1>1, <1>2, <2>2, <2>3, <2>4 DEF OlderKept
  <2>5. CASE f = Len(wire)
    <3>1. pc = "first"
      BY <1>5, <1>7, <2>1, <2>5 DEF Clean
    <3>2. wire # <<>>
      BY <1>4, <2>2
    <3>3. QED
      BY <1>1, <1>2, <1>11, <2>3, <2>5, <3>1, <3>2 DEF LastKept
  <2>6. QED
    BY <1>4, <2>2, <2>4, <2>5
<1>13. Timed'
  BY <1>2 DEF Timed
<1>14. ASSUME Small(Len(wire))'
       PROVE  LastKept'
  <2>1. LastKept
    BY <1>1, <1>8, <1>14
  <2>2. fifo = <<>>
    BY <1>1, <1>5, <1>8, <1>14, <2>1, BlockedEmpty
  <2>3. Len(fifo') = 1
    <3>1. PICK b : fifo' = Append(fifo, b)
      BY DEF BeginFrame, mb_rx_hook
    <3>2. QED
      BY <2>2, <3>1
  <2>4. CASE pc = "first"
    <3>1. begun = {} /\ begun' = begun \cup {Len(wire) + 1}
      BY <1>1, <2>1, <2>4, BlockedWhere DEF LastKept, BeginFrame, RxPcs
    <3>2. begun' = {Len(wire')}
      BY <1>4, <3>1
    <3>3. ~Waiting' /\ ~InBody' /\ ~AtEnd'
      BY <1>2, <2>4 DEF Waiting, InBody, AtEnd, Reading, TxPcs
    <3>4. QED
      BY <1>2, <1>4, <2>3, <2>4, <3>2, <3>3 DEF LastKept
  <2>5. CASE pc = "tail"
    <3>1. Len(wire') - 1 \in rushed'
      BY <1>4, <1>7, <2>5
    <3>2. ~Waiting' /\ ~InBody' /\ ~AtFirst' /\ AtEnd
      BY <1>2, <2>5 DEF Waiting, InBody, AtFirst, AtEnd, Reading, TxPcs
    <3>3. QED
      BY <1>2, <2>1, <2>3, <2>5, <3>1, <3>2 DEF LastKept
  <2>6. QED
    BY <1>5, <2>4, <2>5
<1>15. QED
  BY <1>12, <1>13, <1>14

\* A character that comes in waits alone
LEMMA KeepChar ==
  ASSUME RtuInv, SoleInv, KeepInv, NextChar, calm'
  PROVE  OlderKept' /\ Timed' /\ (Small(Len(wire))' => LastKept')
<1>1. /\ calm /\ Blocked /\ PlainType /\ DataType /\ CalmInv
      /\ OlderKept /\ Timed /\ (Small(Len(wire)) => LastKept)
  BY DEF NextChar, KeepInv, RtuInv
<1>2. /\ UNCHANGED <<pc, dest, idread, buf, accepted, wire, begun, rushed>> /\ t1p5'
      /\ gapped \subseteq gapped' /\ MidFrame
  BY DEF NextChar, mb_rx_hook, taskVars, bufVars
<1>3. pc \in {"body", "tail"}
  BY <1>1, <1>2, BlockedWhere DEF CalmInv, TxPcs
<1>4. OlderKept'
  BY <1>1, <1>2, OlderSame
<1>5. Timed'
  BY <1>2, <1>3 DEF Timed
<1>6. ASSUME Small(Len(wire))'
      PROVE  LastKept'
  <2>1. Small(Len(wire)) /\ LastKept
    BY <1>1, <1>2, <1>6, SmallSame
  <2>2. fifo = <<>>
    BY <1>1, <1>3, <2>1, BlockedEmpty
  <2>3. Len(fifo') = 1
    <3>1. PICK b : fifo' = Append(fifo, b)
      BY DEF NextChar, mb_rx_hook
    <3>2. QED
      BY <2>2, <3>1
  <2>4. ~Waiting' /\ ~AtFirst' /\ (InBody' <=> InBody) /\ (AtEnd' <=> AtEnd)
    BY <1>2, <1>3 DEF Waiting, InBody, AtFirst, AtEnd, Reading, TxPcs
  <2>5. QED
    BY <1>2, <1>3, <2>1, <2>3, <2>4 DEF LastKept
<1>7. QED
  BY <1>4, <1>5, <1>6

\* Silence changes nothing of it
LEMMA KeepSilence ==
  ASSUME RtuInv, KeepInv, Silence, calm'
  PROVE  OlderKept' /\ Timed' /\ (Small(Len(wire))' => LastKept')
<1>1. /\ calm /\ Blocked /\ PlainType
      /\ OlderKept /\ Timed /\ (Small(Len(wire)) => LastKept)
  BY DEF Silence, KeepInv, RtuInv
<1>2. /\ UNCHANGED <<pc, dest, navail, idread, buf, fifo, accepted, wire, begun, rushed, gapped, t1p5>>
      /\ RX_AVAIL \in flags' <=> RX_AVAIL \in flags
  BY DEF Silence, taskVars, bufVars, lineVars
<1>3. pc = "first" => RX_AVAIL \notin flags
  BY <1>1, BlockedWhere
<1>4. OlderKept'
  BY <1>1, <1>2, OlderSame
<1>5. /\ Waiting' <=> Waiting
      /\ AtFirst' <=> AtFirst
      /\ InBody' <=> InBody
      /\ AtEnd' <=> AtEnd
  BY <1>2 DEF Waiting, InBody, AtFirst, AtEnd, Reading
<1>6. Timed'
  BY <1>1, <1>2, <1>3, <1>5 DEF Timed
<1>7. (Small(Len(wire))' <=> Small(Len(wire))) /\ (Clean(Len(wire))' <=> Clean(Len(wire)))
  BY <1>2 DEF Small, Clean
<1>8. Small(Len(wire))' => LastKept'
  BY <1>1, <1>2, <1>5, <1>7 DEF LastKept
<1>9. QED
  BY <1>4, <1>6, <1>8

\* A step keeps what was received
LEMMA KeepStep ==
  ASSUME RtuInv, SoleInv, KeepInv, [Next]_vars
  PROVE  KeepInv'
<1>1. SUFFICES ASSUME calm'
               PROVE  OlderKept' /\ Timed' /\ (Small(Len(wire))' => LastKept')
  BY DEF KeepInv
<1>2. CASE BeginFrame
  BY <1>1, <1>2, KeepBegin
<1>3. CASE NextChar
  BY <1>1, <1>3, KeepChar
<1>4. CASE Silence
  BY <1>1, <1>4, KeepSilence
<1>5. CASE Task \/ Calls \/ mb_tx_hook \/ UNCHANGED vars
  <2>1. UNCHANGED <<wire, gapped, rushed, calm>> /\ accepted \subseteq accepted'
    BY <1>5 DEF Task, Calls, vars, FirstWait, FirstTimeout, ReadClr, ReadAvail, ReadTake,
       BodyWait, Verify, TailWait, Clear, Return, TxClrEmpty, TxWrite, TxDrained, TxTimer,
       TxSilence, StartTx, StartRx, mb_tx_hook, lineVars, histVars
  <2>2. calm /\ OlderKept
    BY <1>1, <2>1 DEF KeepInv
  <2>3. Timed' /\ (Small(Len(wire)) => LastKept')
    BY <1>5, <2>2, KeepTask
  <2>4. Small(Len(wire))' <=> Small(Len(wire))
    BY <2>1 DEF Small
  <2>5. OlderKept'
    BY <2>1, <2>2, OlderSame
  <2>6. QED
    BY <2>3, <2>4, <2>5
<1>6. QED
  BY <1>2, <1>3, <1>4, <1>5 DEF Next

\* A task that keeps up loses nothing: whenever the line is silent again and
\* the task is back at the first wait, every clean frame so far was returned,
\* whatever damaged, foreign, gapped or rushed frames came between, provided
\* that none filled the buffer.
THEOREM NothingEverLost == Spec => []NothingLost
<1>1. Init => SoleInv /\ KeepInv
  <2>1. SUFFICES ASSUME Init
                 PROVE  SoleInv /\ KeepInv
    OBVIOUS
  <2>2. /\ pc = "idle" /\ fifo = <<>> /\ Len(fifo) = 0 /\ wire = <<>> /\ Len(wire) = 0
    BY <2>1 DEF Init
  <2>3. SoleInv
    BY <2>2 DEF SoleInv, RxPcs
  <2>4. ~AtFirst /\ ~InBody /\ ~AtEnd
    BY <2>2 DEF AtFirst, InBody, AtEnd, Reading
  <2>5. OlderKept /\ Timed /\ LastKept
    BY <2>2, <2>4 DEF OlderKept, Timed, LastKept
  <2>6. QED
    BY <2>3, <2>5 DEF KeepInv
<1>2. RtuInv /\ SoleInv /\ KeepInv /\ [Next]_vars => SoleInv' /\ KeepInv'
  BY SoleStep, KeepStep
<1>3. ASSUME RtuInv, KeepInv
      PROVE  NothingLost
  <2>1. SUFFICES ASSUME calm, pc \in {"idle", "first"}, age = 2, NEW f \in 1 .. Len(wire), Clean(f),
                        \A g \in 1 .. f : wire[g].size < MaxPdu - 2
                 PROVE  f \in accepted
    BY DEF NothingLost
  <2>2. OlderKept /\ Timed /\ (Small(Len(wire)) => LastKept) /\ Small(f)
    BY <1>3, <2>1 DEF KeepInv, Small
  <2>3. Waiting
    BY <2>1, <2>2 DEF Waiting, Timed
  <2>4. Len(wire) \in Nat
    BY <1>3, SentBytes DEF RtuInv
  <2>5. CASE f < Len(wire)
    BY <2>1, <2>2, <2>5 DEF OlderKept
  <2>6. CASE f = Len(wire)
    <3>1. wire # <<>>
      BY <2>1
    <3>2. QED
      BY <2>1, <2>2, <2>3, <2>6, <3>1 DEF LastKept
  <2>7. QED
    BY <2>4, <2>5, <2>6
<1>4. QED
  BY <1>1, <1>2, <1>3, RtuAlways, PTL DEF Spec
==============================================================================
