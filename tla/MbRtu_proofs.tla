----------------------------- MODULE MbRtu_proofs -----------------------------
(***************************************************************************)
(* Proofs about the serial transport, for a slave and a master, for any    *)
(* buffer size, any kinds and number of frames, any number of calls, with  *)
(* and without gaps and overlap.                                           *)
(***************************************************************************)
EXTENDS MbRtu, SequenceTheorems, TLAPS

\* The bytes that can have been received so far
Sent == (1 .. Len(wire)) \X (1 .. MaxPdu + 3)

PlainType ==
  /\ flags \subseteq Flags /\ got \subseteq Flags
  /\ age \in 0 .. 2 /\ t1p5 \in BOOLEAN /\ uart \in BOOLEAN /\ tmo \in BOOLEAN
  /\ broadcast \in BOOLEAN /\ idread \in BOOLEAN /\ calm \in BOOLEAN
  /\ pc \in RxPcs \cup TxPcs \cup {"idle"} /\ dest \in {"id", "body", "extra"}
  /\ error \in Errors \cup {0} /\ calls \in 0 .. MaxCalls

DataType ==
  /\ wire \in Seq(Kinds) /\ Len(wire) <= MaxFrames /\ pos \in 0 .. MaxPdu + 3
  /\ fifo \in Seq(Sent) /\ buf \in Seq(Sent) /\ slave_rx \in Sent \cup {Uninit}
  /\ navail \in 0 .. MaxPdu /\ ret \in Errors \cup 0 .. MaxPdu - 2
  /\ begun \subseteq 0 .. Len(wire) /\ gapped \subseteq 1 .. Len(wire)
  /\ rushed \subseteq 1 .. Len(wire) - 1 /\ accepted \subseteq 1 .. Len(wire)

\* The task is in mb_rtu_read, called for this destination
Reading(d) == pc \in {"clr", "avail", "take"} /\ dest = d

\* The FIFO ends with the last character received; a frame is not interrupted
\* for as long as 3.5 characters; T3P5 stands for as long a silence
LineInv ==
  /\ (pos = 0 <=> wire = <<>>) /\ (t1p5 => wire # <<>>)
  /\ wire # <<>> => pos <= Length(Len(wire))
  /\ fifo # <<>> => fifo[Len(fifo)] = <<Len(wire), pos>>
  /\ MidFrame => age < 2
  /\ T3P5 \in flags /\ t1p5 => age = 2

\* The buffer holds no more than it can, and what is about to be read fits; no
\* character is left without its flag where the task will wait for it; what is
\* not in the FIFO is in the buffer
ReadInv ==
  /\ Len(buf) <= MaxPdu
  /\ pc = "take" => /\ navail <= Len(fifo) /\ (dest = "id" => navail <= 1)
                    /\ dest = "body" => navail + Len(buf) <= MaxPdu
                    /\ Len(fifo) > navail => RX_AVAIL \in flags
  /\ pc \in {"body", "verify", "tail"} /\ fifo # <<>> => RX_AVAIL \in flags
  /\ pc = "first" \/ Reading("id") => buf = <<>>
  /\ pc \in {"body", "verify"} \/ Reading("body") \/ (pc = "tail" /\ error = 0) =>
       (buf # <<>> /\ fifo = <<>> => buf[Len(buf)] = <<Len(wire), pos>>)

\* After the check a message without error is a whole frame
VerifiedInv ==
  /\ pc \in {"tail", "clear"} /\ error = 0 =>
       /\ slave_rx \in Sent /\ Len(buf) + 1 = Length(slave_rx[1])
       /\ buf[Len(buf)] = <<slave_rx[1], Length(slave_rx[1])>>
  /\ Reading("extra") => error # 0

\* The frame that is being returned is complete and was followed by silence
Returned == (pc = "clear" /\ error = 0) \/ (pc = "ret" /\ ret >= 0)
ReturnInv ==
  Returned =>
    /\ slave_rx \in Sent /\ slave_rx[1] \notin rushed
    /\ \/ slave_rx[1] < Len(wire)
       \/ slave_rx[1] = Len(wire) /\ pos = Length(Len(wire)) /\ (age = 2 \/ ~t1p5)
    /\ calm => slave_rx[1] \notin gapped

\* When the task keeps up with the line, nothing is going on outside of
\* mb_rtu_rx, and nothing that the first wait does not know of
CalmInv ==
  calm =>
    /\ pc \in TxPcs \cup {"idle", "ret"} => RX_AVAIL \notin flags
    /\ pc \in TxPcs \cup {"idle", "ret", "first"} /\ RX_AVAIL \notin flags =>
         T1P5 \notin flags /\ ~MidFrame /\ (age = 2 \/ ~t1p5)
    /\ MidFrame => t1p5
    /\ (pc \in {"clr", "avail", "take", "body", "verify", "tail"} \/ RX_AVAIL \in flags)
         /\ age > 0 /\ t1p5 => T1P5 \in flags \/ pc = "clear"
    /\ pc = "clear" \/ (Reading("extra") /\ T3P5 \in got) => ~MidFrame /\ (age = 2 \/ ~t1p5)
    /\ (pc = "first" /\ RX_AVAIL \in flags) \/ Reading("id") => fifo # <<>>
    /\ pc = "take" /\ dest = "id" => navail = 1
    /\ \/ pc = "first" /\ RX_AVAIL \in flags
       \/ Reading("id") \/ Reading("body") \/ pc \in {"body", "verify"}
       \/ pc = "tail" /\ error = 0 /\ fifo = <<>>
       => Len(wire) \notin gapped

------------------------------------------------------------------------------
(* Types. *)

USE DEF TX_EMPTY, RX_AVAIL, T1P5, T3P5

\* A step keeps flags, program counter and the other plain variables in range
LEMMA PlainStep ==
  ASSUME PlainType, [Next]_vars
  PROVE  PlainType'
<1>0. MaxCalls \in Nat
  BY LimitAssumption
<1>1. CASE FirstWait
  BY <1>1, <1>0 DEF FirstWait, PlainType, RxPcs, TxPcs, driverVars, taskVars,
     bufVars, lineVars, histVars
<1>2. CASE FirstTimeout
  BY <1>2, <1>0 DEF FirstTimeout, PlainType, RxPcs, TxPcs, driverVars, taskVars,
     bufVars, lineVars, histVars
<1>3. CASE ReadClr
  BY <1>3, <1>0 DEF ReadClr, PlainType, RxPcs, TxPcs, driverVars, taskVars, bufVars,
     lineVars, histVars
<1>4. CASE ReadAvail
  BY <1>4, <1>0 DEF ReadAvail, Flags, PlainType, RxPcs, TxPcs, driverVars, taskVars,
     bufVars, lineVars, histVars
<1>5. CASE ReadTake
  <2>1. idread' \in BOOLEAN
    <3>1. (navail > 0) \in BOOLEAN
      OBVIOUS
    <3>2. idread' = (navail > 0) \/ idread' = idread
      BY <1>5 DEF ReadTake
    <3>3. QED
      BY <3>1, <3>2, Zenon DEF PlainType
  <2>2. pc' \in RxPcs
    BY <1>5 DEF ReadTake, RxPcs
  <2>3. QED
    BY <1>5, <2>1, <2>2 DEF ReadTake, PlainType, driverVars, lineVars, histVars
<1>6. CASE BodyWait
  BY <1>6, <1>0 DEF BodyWait, Flags, PlainType, RxPcs, TxPcs, driverVars, taskVars,
     bufVars, lineVars, histVars
<1>7. CASE Verify
  BY <1>7, <1>0 DEF Verify, Errors, PlainType, RxPcs, TxPcs, driverVars, taskVars,
     bufVars, lineVars, histVars
<1>8. CASE TailWait
  BY <1>8, <1>0 DEF TailWait, Errors, Flags, PlainType, RxPcs, TxPcs, driverVars,
     taskVars, bufVars, lineVars, histVars
<1>9. CASE Clear
  BY <1>9, <1>0 DEF Clear, PlainType, RxPcs, TxPcs, driverVars, taskVars, bufVars,
     lineVars, histVars
<1>10. CASE Return
  BY <1>10, <1>0 DEF Return, PlainType, RxPcs, TxPcs, driverVars, taskVars, bufVars,
     lineVars, histVars
<1>11. CASE TxClrEmpty
  BY <1>11, <1>0 DEF TxClrEmpty, PlainType, RxPcs, TxPcs, driverVars, taskVars,
     bufVars, lineVars, histVars
<1>12. CASE TxWrite
  BY <1>12, <1>0 DEF TxWrite, PlainType, RxPcs, TxPcs, driverVars, taskVars,
     bufVars, lineVars, histVars
<1>13. CASE TxDrained
  BY <1>13, <1>0 DEF TxDrained, PlainType, RxPcs, TxPcs, driverVars, taskVars,
     bufVars, lineVars, histVars
<1>14. CASE TxTimer
  <2>1. t1p5' \in BOOLEAN
    BY <1>14, Zenon DEF TxTimer
  <2>2. age' = 0 /\ pc' = "silence" /\ UNCHANGED <<flags, got, uart, tmo, broadcast, idread, calm>>
    BY <1>14 DEF TxTimer, bufVars, histVars
  <2>3. UNCHANGED <<dest, error, calls>>
    BY <1>14 DEF TxTimer, bufVars
  <2>4. QED
    BY <2>1, <2>2, <2>3 DEF PlainType, RxPcs, TxPcs
<1>15. CASE TxSilence
  BY <1>15, <1>0 DEF TxSilence, PlainType, RxPcs, TxPcs, driverVars, taskVars,
     bufVars, lineVars, histVars
<1>16. CASE StartTx
  BY <1>16, <1>0 DEF StartTx, PlainType, RxPcs, TxPcs, driverVars, taskVars,
     bufVars, lineVars, histVars
<1>17. CASE \E t \in BOOLEAN : StartRx(t)
  BY <1>17, <1>0 DEF StartRx, PlainType, RxPcs, TxPcs, driverVars, taskVars,
     bufVars, lineVars, histVars
<1>18. CASE mb_tx_hook
  BY <1>18, <1>0 DEF mb_tx_hook, Flags, PlainType, RxPcs, TxPcs, driverVars,
     taskVars, bufVars, lineVars, histVars
<1>19. CASE BeginFrame
  <2>1. calm' \in BOOLEAN
    BY <1>19 DEF BeginFrame
  <2>2. mb_rx_hook(<<Len(wire) + 1, 1>>) /\ UNCHANGED idread
    BY <1>19 DEF BeginFrame
  <2>3. QED
    BY <2>1, <2>2 DEF mb_rx_hook, Flags, PlainType, RxPcs, TxPcs, taskVars, bufVars
<1>20. CASE NextChar
  BY <1>20, <1>0 DEF NextChar, mb_rx_hook, Blocked, Flags, PlainType, RxPcs, TxPcs,
     driverVars, taskVars, bufVars, lineVars, histVars
<1>21. CASE Silence
  BY <1>21, <1>0 DEF Silence, Blocked, Flags, PlainType, RxPcs, TxPcs, driverVars,
     taskVars, bufVars, lineVars, histVars
<1>22. CASE UNCHANGED vars
  BY <1>22, <1>0 DEF vars, PlainType, RxPcs, TxPcs, driverVars, taskVars, bufVars,
     lineVars, histVars
<1>23. QED
  BY <1>1, <1>2, <1>3, <1>4, <1>5, <1>6, <1>7, <1>8, <1>9, <1>10, <1>11, <1>12,
     <1>13, <1>14, <1>15, <1>16, <1>17, <1>18, <1>19, <1>20, <1>21, <1>22 DEF Next,
     Task, Calls

\* What is left of a sequence after its first n elements
Rest(s, n) == SubSeq(s, n + 1, Len(s))

\* The rest of a sequence ends as the sequence does
LEMMA TailPart ==
  ASSUME NEW S, NEW s \in Seq(S), NEW n \in 0 .. Len(s), NEW t, t = Rest(s, n)
  PROVE  /\ t \in Seq(S) /\ Len(t) = Len(s) - n
         /\ n < Len(s) => t[Len(t)] = s[Len(s)]
         /\ n = Len(s) <=> t = <<>>
<1>1. Len(s) \in Nat
  OBVIOUS
<1>2. t \in Seq(S) /\ Len(t) = Len(s) - n
  BY <1>1 DEF Rest
<1>3. \A i \in 1 .. Len(s) - n : t[i] = s[n + i]
  BY <1>1 DEF Rest
<1>4. n < Len(s) => t[Len(s) - n] = s[Len(s)]
  <2>1. HAVE n < Len(s)
  <2>2. Len(s) - n \in 1 .. Len(s) - n /\ n + (Len(s) - n) = Len(s)
    BY <1>1, <2>1
  <2>3. QED
    BY <1>3, <2>2
<1>5. n = Len(s) <=> t = <<>>
  <2>1. t # <<>> <=> Len(t) # 0
    BY <1>2, EmptySeq
  <2>2. QED
    BY <1>1, <1>2, <2>1
<1>6. QED
  BY <1>2, <1>4, <1>5

\* A sequence with the first n elements of another one behind it
LEMMA FrontAppended ==
  ASSUME NEW S, NEW s \in Seq(S), NEW r \in Seq(S), NEW n \in 0 .. Len(r),
         NEW u, u = s \o SubSeq(r, 1, n)
  PROVE  /\ u \in Seq(S) /\ Len(u) = Len(s) + n
         /\ n > 0 => u[Len(u)] = r[n]
         /\ n = 0 => u = s
<1>1. PICK p : p = SubSeq(r, 1, n)
  OBVIOUS
<1>2. p \in Seq(S) /\ Len(p) = n /\ \A i \in 1 .. n : p[i] = r[i]
  BY <1>1
<1>3. u = s \o p
  BY <1>1
<1>4. u \in Seq(S) /\ Len(u) = Len(s) + n /\ (n > 0 => u[Len(u)] = p[n])
  BY <1>2, <1>3
<1>5. n = 0 => p = <<>>
  BY <1>2, EmptySeq
<1>6. n = 0 => u = s
  BY <1>2, <1>3, <1>5, ConcatEmptySeq
<1>7. QED
  BY <1>2, <1>3, <1>4, <1>5, <1>6

\* A byte names its frame and its place
LEMMA SentBytes ==
  ASSUME DataType
  PROVE  /\ Len(wire) \in Nat /\ MaxPdu \in Nat /\ MaxPdu > 1
         /\ \A b \in Sent : b[1] \in 1 .. Len(wire) /\ b[2] \in 1 .. MaxPdu + 3 /\ b # Uninit
         /\ \A f \in 1 .. Len(wire), i \in 1 .. MaxPdu + 3 : <<f, i>> \in Sent
         /\ \A f \in 1 .. Len(wire) : wire[f] \in Kinds /\ Length(f) \in 3 .. MaxPdu + 3
<1>1. Len(wire) \in Nat /\ MaxPdu \in Nat /\ MaxPdu > 1
  BY SizeAssumption DEF DataType
<1>2. \A b \in Sent : b[1] \in 1 .. Len(wire) /\ b[2] \in 1 .. MaxPdu + 3 /\ b # Uninit
  BY <1>1 DEF Sent, Uninit
<1>3. \A f \in 1 .. Len(wire), i \in 1 .. MaxPdu + 3 : <<f, i>> \in Sent
  BY DEF Sent
<1>4. \A f \in 1 .. Len(wire) : wire[f] \in Kinds
  BY DEF DataType
<1>5. \A k \in Kinds : k.size \in 0 .. MaxPdu
  BY KindAssumption
<1>6. \A f \in 1 .. Len(wire) : Length(f) \in 3 .. MaxPdu + 3
  BY <1>1, <1>4, <1>5 DEF Length
<1>7. QED
  BY <1>1, <1>2, <1>3, <1>4, <1>6

\* A frame that begins leaves the older ones as they are
LEMMA WireGrows ==
  ASSUME DataType, NEW k \in Kinds, wire' = Append(wire, k)
  PROVE  /\ wire' \in Seq(Kinds) /\ Len(wire') = Len(wire) + 1 /\ wire' # <<>>
         /\ \A f \in 1 .. Len(wire) : wire'[f] = wire[f] /\ Length(f)' = Length(f)
         /\ Sent \subseteq Sent' /\ Seq(Sent) \subseteq Seq(Sent')
         /\ \A f \in 1 .. Len(wire'), i \in 1 .. MaxPdu + 3 : <<f, i>> \in Sent'
<1>1. wire \in Seq(Kinds)
  BY DEF DataType
<1>2. wire' \in Seq(Kinds) /\ Len(wire') = Len(wire) + 1 /\ wire' # <<>>
  BY <1>1
<1>3. \A f \in 1 .. Len(wire) : wire'[f] = wire[f]
  BY <1>1
<1>4. \A f \in 1 .. Len(wire) : Length(f)' = Length(f)
  BY <1>3 DEF Length
<1>5. 1 .. Len(wire) \subseteq 1 .. Len(wire')
  BY <1>1, <1>2
<1>6. Sent \subseteq Sent'
  BY <1>5 DEF Sent
<1>7. Seq(Sent) \subseteq Seq(Sent')
  BY <1>6, SeqMonotonic
<1>8. \A f \in 1 .. Len(wire'), i \in 1 .. MaxPdu + 3 : <<f, i>> \in Sent'
  BY DEF Sent
<1>9. QED
  BY <1>2, <1>3, <1>4, <1>6, <1>7, <1>8

\* A read takes the characters it was told of from the FIFO
LEMMA ReadTakeEffect ==
  ASSUME DataType, ReadInv, ReadTake
  PROVE  /\ fifo' \in Seq(Sent) /\ buf' \in Seq(Sent) /\ slave_rx' \in Sent \cup {Uninit}
         /\ navail \in 0 .. Len(fifo) /\ Len(fifo') = Len(fifo) - navail
         /\ navail = Len(fifo) <=> fifo' = <<>>
         /\ fifo' # <<>> => fifo # <<>> /\ fifo'[Len(fifo')] = fifo[Len(fifo)]
         /\ dest = "body" => /\ Len(buf') = Len(buf) + navail
                             /\ navail > 0 => buf'[Len(buf')] = fifo[navail]
                             /\ navail = 0 => buf' = buf
         /\ dest # "body" => buf' = buf
<1>1. fifo \in Seq(Sent) /\ buf \in Seq(Sent) /\ navail \in 0 .. Len(fifo)
  BY DEF DataType, ReadInv, ReadTake
<1>2. fifo' = Rest(fifo, navail)
  BY DEF ReadTake, Rest
<1>3. /\ fifo' \in Seq(Sent) /\ Len(fifo') = Len(fifo) - navail
      /\ navail < Len(fifo) => fifo'[Len(fifo')] = fifo[Len(fifo)]
      /\ navail = Len(fifo) <=> fifo' = <<>>
  BY <1>1, <1>2, TailPart
<1>4. fifo' # <<>> => fifo # <<>> /\ fifo'[Len(fifo')] = fifo[Len(fifo)]
  <2>1. fifo' # <<>> => navail < Len(fifo)
    BY <1>1, <1>3
  <2>2. Len(<<>>) = 0
    OBVIOUS
  <2>3. QED
    BY <1>1, <1>3, <2>1, <2>2
<1>5. ASSUME dest = "body"
      PROVE  /\ buf' \in Seq(Sent) /\ Len(buf') = Len(buf) + navail
             /\ navail > 0 => buf'[Len(buf')] = fifo[navail]
             /\ navail = 0 => buf' = buf
  <2>1. buf' = buf \o SubSeq(fifo, 1, navail)
    BY <1>5 DEF ReadTake
  <2>2. QED
    BY <1>1, <2>1, FrontAppended
<1>6. dest # "body" => buf' = buf
  BY DEF ReadTake
<1>7. slave_rx' \in Sent \cup {Uninit}
  <2>1. CASE dest # "id"
    BY <2>1 DEF ReadTake, DataType
  <2>2. CASE dest = "id" /\ navail > 0
    <3>1. slave_rx' = Head(fifo)
      BY <2>2 DEF ReadTake
    <3>2. Head(fifo) \in Sent
      BY <1>1, <2>2
    <3>3. QED
      BY <3>1, <3>2
  <2>3. CASE dest = "id" /\ ~(navail > 0)
    <3>1. slave_rx' \in AnyId
      BY <2>3 DEF ReadTake
    <3>2. AnyId \subseteq Sent \cup {Uninit}
      BY SentBytes DEF AnyId
    <3>3. QED
      BY <3>1, <3>2
  <2>4. QED
    BY <2>1, <2>2, <2>3
<1>8. QED
  BY <1>1, <1>3, <1>4, <1>5, <1>6, <1>7

\* What the check sum finds good is a whole frame
LEMMA CrcEffect ==
  ASSUME DataType, CrcOk
  PROVE  /\ slave_rx \in Sent /\ Len(buf) + 1 = Length(slave_rx[1])
         /\ slave_rx[2] = 1 /\ ~wire[slave_rx[1]].bad
         /\ \A i \in 1 .. Len(buf) : buf[i] = <<slave_rx[1], i + 1>>
<1>1. PICK m : m = <<slave_rx>> \o buf
  OBVIOUS
<1>2. PICK S : S = Sent \cup {Uninit}
  OBVIOUS
<1>3. slave_rx \in S /\ buf \in Seq(S)
  BY <1>2, SeqMonotonic DEF DataType
<1>4. /\ Len(m) = Len(buf) + 1 /\ m[1] = slave_rx
      /\ \A i \in 1 .. Len(buf) : m[i + 1] = buf[i]
  BY <1>1, <1>3
<1>5. PICK f : f = slave_rx[1]
  OBVIOUS
<1>6. FrameIn(m) > 0 /\ ~wire[FrameIn(m)].bad
  BY <1>1 DEF CrcOk
<1>7. f > 0 /\ Len(m) = Length(f) /\ (\A i \in 1 .. Len(m) : m[i] = <<f, i>>) /\ FrameIn(m) = f
  BY <1>4, <1>5, <1>6 DEF FrameIn
<1>8. slave_rx # Uninit
  BY <1>5, <1>7 DEF Uninit
<1>9. slave_rx \in Sent
  BY <1>2, <1>3, <1>8
<1>10. Len(buf) \in Nat
  BY <1>3
<1>11. slave_rx = <<f, 1>>
  <2>1. 1 \in 1 .. Len(m)
    BY <1>4, <1>10
  <2>2. QED
    BY <1>4, <1>7, <2>1
<1>12. \A i \in 1 .. Len(buf) : i + 1 \in 1 .. Len(m)
  BY <1>4, <1>10
<1>13. \A i \in 1 .. Len(buf) : buf[i] = <<f, i + 1>>
  BY <1>4, <1>7, <1>12
<1>14. QED
  BY <1>4, <1>5, <1>6, <1>7, <1>9, <1>11, <1>13

\* A step keeps the line and the data in range
LEMMA DataStep ==
  ASSUME PlainType, DataType, ReadInv, LineInv, VerifiedInv, [Next]_vars
  PROVE  DataType'
<1>0. wire' = wire => Sent' = Sent
  BY DEF Sent
<1>1. CASE FirstWait
  BY <1>1, <1>0 DEF FirstWait, DataType, driverVars, taskVars, bufVars, lineVars,
     histVars
<1>2. CASE FirstTimeout
  BY <1>2, <1>0 DEF FirstTimeout, Errors, DataType, driverVars, taskVars, bufVars,
     lineVars, histVars
<1>3. CASE ReadClr
  BY <1>3, <1>0 DEF ReadClr, DataType, driverVars, taskVars, bufVars, lineVars,
     histVars
<1>4. CASE ReadAvail
  <2>1. UNCHANGED <<wire, pos, fifo, buf, slave_rx, ret, begun, gapped, rushed, accepted>>
    BY <1>4 DEF ReadAvail, bufVars, lineVars, histVars
  <2>2. MaxPdu \in Nat /\ MaxPdu > 1 /\ Len(fifo) \in Nat /\ Len(buf) \in Nat /\ Len(buf) <= MaxPdu
    BY SizeAssumption DEF DataType, ReadInv
  <2>3. ReadSize \in 0 .. MaxPdu
    BY <2>2 DEF ReadSize
  <2>4. navail' \in 0 .. MaxPdu
    BY <1>4, <2>2, <2>3 DEF ReadAvail
  <2>5. QED
    BY <1>0, <2>1, <2>4 DEF DataType
<1>5. CASE ReadTake
  <2>1. UNCHANGED <<wire, pos, navail, ret, begun, gapped, rushed, accepted>>
    BY <1>5 DEF ReadTake, lineVars
  <2>2. fifo' \in Seq(Sent) /\ buf' \in Seq(Sent) /\ slave_rx' \in Sent \cup {Uninit}
    BY <1>5, ReadTakeEffect
  <2>3. QED
    BY <1>0, <2>1, <2>2 DEF DataType
<1>6. CASE BodyWait
  BY <1>6, <1>0 DEF BodyWait, DataType, driverVars, taskVars, bufVars, lineVars,
     histVars
<1>7. CASE Verify
  BY <1>7, <1>0 DEF Verify, DataType, driverVars, taskVars, bufVars, lineVars,
     histVars
<1>8. CASE TailWait
  BY <1>8, <1>0 DEF TailWait, DataType, driverVars, taskVars, bufVars, lineVars,
     histVars
<1>9. CASE Clear
  <2>1. UNCHANGED <<wire, pos, fifo, buf, slave_rx, navail, begun, gapped, rushed>>
    BY <1>9 DEF Clear, bufVars, lineVars
  <2>2. ASSUME error = 0
        PROVE  Len(buf) - 2 \in 0 .. MaxPdu - 2 /\ slave_rx[1] \in 1 .. Len(wire)
    <3>1. slave_rx \in Sent /\ Len(buf) + 1 = Length(slave_rx[1])
      BY <1>9, <2>2 DEF Clear, VerifiedInv
    <3>2. slave_rx[1] \in 1 .. Len(wire)
      BY <3>1, SentBytes
    <3>3. Length(slave_rx[1]) \in 3 .. MaxPdu + 3
      BY <3>2, SentBytes
    <3>4. Len(buf) \in Nat /\ Len(buf) <= MaxPdu /\ MaxPdu \in Nat
      BY SizeAssumption DEF DataType, ReadInv
    <3>5. QED
      BY <3>1, <3>2, <3>3, <3>4
  <2>3. ret' \in Errors \cup 0 .. MaxPdu - 2
    BY <1>9, <2>2 DEF Clear, PlainType
  <2>4. accepted' \subseteq 1 .. Len(wire)
    BY <1>9, <2>2 DEF Clear, DataType
  <2>5. QED
    BY <1>0, <2>1, <2>3, <2>4 DEF DataType
<1>10. CASE Return
  BY <1>10, <1>0 DEF Return, DataType, driverVars, taskVars, bufVars, lineVars,
     histVars
<1>11. CASE TxClrEmpty
  BY <1>11, <1>0 DEF TxClrEmpty, DataType, driverVars, taskVars, bufVars, lineVars,
     histVars
<1>12. CASE TxWrite
  BY <1>12, <1>0 DEF TxWrite, DataType, driverVars, taskVars, bufVars, lineVars,
     histVars
<1>13. CASE TxDrained
  BY <1>13, <1>0 DEF TxDrained, DataType, driverVars, taskVars, bufVars, lineVars,
     histVars
<1>14. CASE TxTimer
  BY <1>14, <1>0 DEF TxTimer, DataType, driverVars, taskVars, bufVars, lineVars,
     histVars
<1>15. CASE TxSilence
  BY <1>15, <1>0 DEF TxSilence, DataType, driverVars, taskVars, bufVars, lineVars,
     histVars
<1>16. CASE StartTx
  BY <1>16, <1>0 DEF StartTx, DataType, driverVars, taskVars, bufVars, lineVars,
     histVars
<1>17. CASE \E t \in BOOLEAN : StartRx(t)
  <2>1. UNCHANGED <<wire, pos, fifo, navail, ret, gapped, rushed, accepted>>
    BY <1>17 DEF StartRx, driverVars, lineVars
  <2>2. slave_rx' = Uninit /\ buf' = <<>> /\ begun' \subseteq {0}
    BY <1>17 DEF StartRx
  <2>3. 0 \in 0 .. Len(wire) /\ <<>> \in Seq(Sent)
    BY SentBytes
  <2>4. QED
    BY <1>0, <2>1, <2>2, <2>3 DEF DataType
<1>18. CASE mb_tx_hook
  BY <1>18, <1>0 DEF mb_tx_hook, DataType, driverVars, taskVars, bufVars, lineVars,
     histVars
<1>19. CASE BeginFrame
  <2>1. PICK k \in Kinds : wire' = Append(wire, k)
    BY <1>19 DEF BeginFrame
  <2>2. UNCHANGED <<buf, slave_rx, navail, ret, gapped, accepted>>
    BY <1>19 DEF BeginFrame, mb_rx_hook, taskVars, bufVars
  <2>3. /\ wire' \in Seq(Kinds) /\ Len(wire') = Len(wire) + 1
        /\ Sent \subseteq Sent' /\ Seq(Sent) \subseteq Seq(Sent')
        /\ \A f \in 1 .. Len(wire'), i \in 1 .. MaxPdu + 3 : <<f, i>> \in Sent'
    BY <2>1, WireGrows
  <2>4. Len(wire) \in Nat /\ MaxPdu \in Nat
    BY SentBytes
  <2>5. Len(wire') <= MaxFrames
    BY <1>19, <2>3, <2>4, LimitAssumption DEF BeginFrame
  <2>6. pos' \in 0 .. MaxPdu + 3
    BY <1>19, <2>4 DEF BeginFrame
  <2>7. fifo' \in Seq(Sent')
    <3>1. PICK b : b = <<Len(wire) + 1, 1>>
      OBVIOUS
    <3>2. Len(wire) + 1 \in 1 .. Len(wire') /\ 1 \in 1 .. MaxPdu + 3
      BY <2>3, <2>4
    <3>3. b \in Sent'
      BY <3>1, <3>2, <2>3
    <3>4. fifo' = Append(fifo, b) /\ fifo \in Seq(Sent')
      BY <1>19, <2>3, <3>1 DEF BeginFrame, mb_rx_hook, DataType
    <3>5. QED
      BY <3>3, <3>4
  <2>8. buf' \in Seq(Sent') /\ slave_rx' \in Sent' \cup {Uninit}
    BY <2>2, <2>3 DEF DataType
  <2>9. begun' \subseteq 0 .. Len(wire')
    <3>1. begun' \subseteq begun \cup {Len(wire) + 1}
      BY <1>19 DEF BeginFrame
    <3>2. QED
      BY <2>3, <2>4, <3>1 DEF DataType
  <2>10. rushed' \subseteq 1 .. Len(wire') - 1
    <3>1. t1p5 => Len(wire) # 0
      BY EmptySeq DEF LineInv, DataType
    <3>2. rushed' = rushed \/ (Len(wire) # 0 /\ rushed' = rushed \cup {Len(wire)})
      BY <1>19, <3>1, Zenon DEF BeginFrame
    <3>3. PICK n \in Nat : n = Len(wire)
      BY <2>4
    <3>4. rushed \subseteq 1 .. n
      BY <2>4, <3>3 DEF DataType
    <3>5. n # 0 => n \in 1 .. n
      OBVIOUS
    <3>6. rushed' \subseteq 1 .. n
      BY <3>2, <3>3, <3>4, <3>5
    <3>7. 1 .. n = 1 .. Len(wire') - 1
      BY <2>3, <3>3
    <3>8. QED
      BY <3>6, <3>7
  <2>11. gapped' \subseteq 1 .. Len(wire') /\ accepted' \subseteq 1 .. Len(wire')
    BY <2>2, <2>3, <2>4 DEF DataType
  <2>12. navail' \in 0 .. MaxPdu /\ ret' \in Errors \cup 0 .. MaxPdu - 2
    BY <2>2 DEF DataType
  <2>13. QED
    BY <2>3, <2>5, <2>6, <2>7, <2>8, <2>9, <2>10, <2>11, <2>12 DEF DataType
<1>20. CASE NextChar
  <2>1. UNCHANGED <<wire, buf, slave_rx, navail, ret, begun, rushed, accepted>>
    BY <1>20 DEF NextChar, mb_rx_hook, taskVars, bufVars
  <2>2. Len(wire) \in Nat /\ MaxPdu \in Nat /\ pos \in Nat
    BY SentBytes DEF DataType
  <2>3. Len(wire) \in 1 .. Len(wire)
    BY <1>20, <2>2, EmptySeq DEF NextChar, MidFrame, DataType
  <2>4. pos + 1 \in 1 .. MaxPdu + 3
    <3>1. pos < Length(Len(wire)) /\ Length(Len(wire)) \in 3 .. MaxPdu + 3
      BY <1>20, <2>3, SentBytes DEF NextChar, MidFrame
    <3>2. QED
      BY <2>2, <3>1
  <2>5. pos' \in 0 .. MaxPdu + 3
    BY <1>20, <2>2, <2>4 DEF NextChar
  <2>6. fifo' \in Seq(Sent)
    <3>1. PICK b : b = <<Len(wire), pos + 1>>
      OBVIOUS
    <3>2. b \in Sent
      BY <2>3, <2>4, <3>1, SentBytes
    <3>3. fifo' = Append(fifo, b) /\ fifo \in Seq(Sent)
      BY <1>20, <3>1 DEF NextChar, mb_rx_hook, DataType
    <3>4. QED
      BY <3>2, <3>3
  <2>7. gapped' \subseteq 1 .. Len(wire)
    BY <1>20, <2>3 DEF NextChar, DataType
  <2>8. QED
    BY <1>0, <2>1, <2>5, <2>6, <2>7 DEF DataType
<1>21. CASE Silence
  BY <1>21, <1>0 DEF Silence, DataType, driverVars, taskVars, bufVars, lineVars,
     histVars
<1>22. CASE UNCHANGED vars
  BY <1>22, <1>0 DEF vars, DataType, driverVars, taskVars, bufVars, lineVars,
     histVars
<1>23. QED
  BY <1>1, <1>2, <1>3, <1>4, <1>5, <1>6, <1>7, <1>8, <1>9, <1>10, <1>11, <1>12,
     <1>13, <1>14, <1>15, <1>16, <1>17, <1>18, <1>19, <1>20, <1>21, <1>22 DEF Next,
     Task, Calls

------------------------------------------------------------------------------
(* The line. *)

\* Where neither the line nor a timer moves, nothing changes
LEMMA LineSame ==
  ASSUME LineInv, UNCHANGED <<wire, pos, fifo, age, t1p5>>, T3P5 \in flags' => T3P5 \in flags
  PROVE  LineInv'
BY DEF LineInv, MidFrame, Length

\* A step keeps the line's invariant
LEMMA LineStep ==
  ASSUME PlainType, DataType, ReadInv, LineInv, [Next]_vars
  PROVE  LineInv'
<1>1. CASE FirstWait
  <2>1. UNCHANGED <<wire, pos, fifo, age, t1p5>> /\ (T3P5 \in flags' => T3P5 \in flags)
    BY <1>1 DEF FirstWait, driverVars, lineVars
  <2>2. QED
    BY <2>1, LineSame
<1>2. CASE FirstTimeout
  <2>1. UNCHANGED <<wire, pos, fifo, age, t1p5>> /\ (T3P5 \in flags' => T3P5 \in flags)
    BY <1>2 DEF FirstTimeout, driverVars, lineVars
  <2>2. QED
    BY <2>1, LineSame
<1>3. CASE ReadClr
  <2>1. UNCHANGED <<wire, pos, fifo, age, t1p5>> /\ (T3P5 \in flags' => T3P5 \in flags)
    BY <1>3 DEF ReadClr, driverVars, lineVars
  <2>2. QED
    BY <2>1, LineSame
<1>4. CASE ReadAvail
  <2>1. UNCHANGED <<wire, pos, fifo, age, t1p5>> /\ (T3P5 \in flags' => T3P5 \in flags)
    BY <1>4 DEF ReadAvail, driverVars, lineVars
  <2>2. QED
    BY <2>1, LineSame
<1>5. CASE ReadTake
  <2>1. UNCHANGED <<wire, pos, flags, age, t1p5>>
    BY <1>5 DEF ReadTake, lineVars
  <2>2. fifo' # <<>> => fifo # <<>> /\ fifo'[Len(fifo')] = fifo[Len(fifo)]
    BY <1>5, ReadTakeEffect
  <2>3. fifo' # <<>> => fifo'[Len(fifo')] = <<Len(wire), pos>>'
    BY <2>1, <2>2 DEF LineInv
  <2>4. QED
    BY <2>1, <2>3 DEF LineInv, MidFrame, Length
<1>6. CASE BodyWait
  <2>1. UNCHANGED <<wire, pos, fifo, age, t1p5>> /\ (T3P5 \in flags' => T3P5 \in flags)
    BY <1>6 DEF BodyWait, driverVars, lineVars
  <2>2. QED
    BY <2>1, LineSame
<1>7. CASE Verify
  <2>1. UNCHANGED <<wire, pos, fifo, age, t1p5>> /\ (T3P5 \in flags' => T3P5 \in flags)
    BY <1>7 DEF Verify, driverVars, lineVars
  <2>2. QED
    BY <2>1, LineSame
<1>8. CASE TailWait
  <2>1. UNCHANGED <<wire, pos, fifo, age, t1p5>> /\ (T3P5 \in flags' => T3P5 \in flags)
    BY <1>8 DEF TailWait, driverVars, lineVars
  <2>2. QED
    BY <2>1, LineSame
<1>9. CASE Clear
  <2>1. UNCHANGED <<wire, pos, fifo, age, t1p5>> /\ (T3P5 \in flags' => T3P5 \in flags)
    BY <1>9 DEF Clear, driverVars, lineVars
  <2>2. QED
    BY <2>1, LineSame
<1>10. CASE Return
  <2>1. UNCHANGED <<wire, pos, fifo, age, t1p5>> /\ (T3P5 \in flags' => T3P5 \in flags)
    BY <1>10 DEF Return, driverVars, lineVars
  <2>2. QED
    BY <2>1, LineSame
<1>11. CASE TxClrEmpty
  <2>1. UNCHANGED <<wire, pos, fifo, age, t1p5>> /\ (T3P5 \in flags' => T3P5 \in flags)
    BY <1>11 DEF TxClrEmpty, driverVars, lineVars
  <2>2. QED
    BY <2>1, LineSame
<1>12. CASE TxWrite
  <2>1. UNCHANGED <<wire, pos, fifo, age, t1p5>> /\ (T3P5 \in flags' => T3P5 \in flags)
    BY <1>12 DEF TxWrite, driverVars, lineVars
  <2>2. QED
    BY <2>1, LineSame
<1>13. CASE TxDrained
  <2>1. UNCHANGED <<wire, pos, fifo, age, t1p5>> /\ (T3P5 \in flags' => T3P5 \in flags)
    BY <1>13 DEF TxDrained, driverVars, lineVars
  <2>2. QED
    BY <2>1, LineSame
<1>14. CASE TxTimer
  <2>1. UNCHANGED <<wire, pos, fifo>> /\ age' = 0 /\ ~t1p5'
    BY <1>14 DEF TxTimer, lineVars
  <2>2. QED
    BY <2>1 DEF LineInv, MidFrame, Length
<1>15. CASE TxSilence
  <2>1. UNCHANGED <<wire, pos, fifo, age, t1p5>> /\ (T3P5 \in flags' => T3P5 \in flags)
    BY <1>15 DEF TxSilence, driverVars, lineVars
  <2>2. QED
    BY <2>1, LineSame
<1>16. CASE StartTx
  <2>1. UNCHANGED <<wire, pos, fifo, age, t1p5>> /\ (T3P5 \in flags' => T3P5 \in flags)
    BY <1>16 DEF StartTx, driverVars, lineVars
  <2>2. QED
    BY <2>1, LineSame
<1>17. CASE \E t \in BOOLEAN : StartRx(t)
  <2>1. UNCHANGED <<wire, pos, fifo, age, t1p5>> /\ (T3P5 \in flags' => T3P5 \in flags)
    BY <1>17 DEF StartRx, driverVars, lineVars
  <2>2. QED
    BY <2>1, LineSame
<1>18. CASE mb_tx_hook
  <2>1. UNCHANGED <<wire, pos, fifo, age, t1p5>> /\ (T3P5 \in flags' => T3P5 \in flags)
    BY <1>18 DEF mb_tx_hook, driverVars, lineVars
  <2>2. QED
    BY <2>1, LineSame
<1>19. CASE BeginFrame
  <2>1. PICK k \in Kinds : wire' = Append(wire, k)
    BY <1>19 DEF BeginFrame
  <2>2. wire' # <<>> /\ Len(wire') = Len(wire) + 1 /\ Len(wire) \in Nat
    BY <2>1, WireGrows, SentBytes
  <2>3. wire'[Len(wire')] = k
    BY <2>1, <2>2 DEF DataType
  <2>4. k.size \in Nat
    BY KindAssumption, SizeAssumption
  <2>5. pos' = 1 /\ age' = 0 /\ T3P5 \notin flags' /\ fifo' = Append(fifo, <<Len(wire) + 1, 1>>)
    BY <1>19 DEF BeginFrame, mb_rx_hook
  <2>6. pos' <= Length(Len(wire))'
    BY <2>3, <2>4, <2>5 DEF Length
  <2>7. fifo'[Len(fifo')] = <<Len(wire), pos>>'
    <3>1. PICK b : b = <<Len(wire) + 1, 1>>
      OBVIOUS
    <3>2. fifo' = Append(fifo, b) /\ fifo \in Seq(Sent)
      BY <2>5, <3>1 DEF DataType
    <3>3. fifo'[Len(fifo')] = b
      BY <3>2
    <3>4. QED
      BY <2>2, <2>5, <3>1, <3>3
  <2>8. QED
    BY <2>2, <2>5, <2>6, <2>7 DEF LineInv
<1>20. CASE NextChar
  <2>1. UNCHANGED wire /\ pos' = pos + 1 /\ age' = 0 /\ T3P5 \notin flags'
    BY <1>20 DEF NextChar, mb_rx_hook
  <2>2. wire # <<>> /\ pos < Length(Len(wire)) /\ pos \in Nat
    BY <1>20 DEF NextChar, MidFrame, DataType
  <2>3. Length(Len(wire)) \in Nat
    <3>1. Len(wire) \in 1 .. Len(wire)
      BY <2>2, SentBytes, EmptySeq DEF DataType
    <3>2. Length(Len(wire)) \in 3 .. MaxPdu + 3 /\ MaxPdu \in Nat
      BY <3>1, SentBytes
    <3>3. QED
      BY <3>2
  <2>4. Length(Len(wire))' = Length(Len(wire))
    BY <2>1 DEF Length
  <2>5. fifo'[Len(fifo')] = <<Len(wire), pos>>'
    <3>1. PICK b : b = <<Len(wire), pos + 1>>
      OBVIOUS
    <3>2. fifo' = Append(fifo, b) /\ fifo \in Seq(Sent)
      BY <1>20, <3>1 DEF NextChar, mb_rx_hook, DataType
    <3>3. fifo'[Len(fifo')] = b
      BY <3>2
    <3>4. QED
      BY <2>1, <3>1, <3>3
  <2>6. pos' # 0 /\ wire' # <<>> /\ pos' <= Length(Len(wire))'
    BY <2>1, <2>2, <2>3, <2>4
  <2>7. QED
    BY <2>1, <2>5, <2>6 DEF LineInv
<1>21. CASE Silence
  <2>1. UNCHANGED <<wire, pos, fifo, t1p5>> /\ age' = age + 1 /\ age \in 0 .. 1
    BY <1>21 DEF Silence, lineVars, PlainType
  <2>2. MidFrame => age' < 2
    BY <1>21, <2>1 DEF Silence
  <2>3. T3P5 \in flags' => T3P5 \in flags \/ age = 1
    BY <1>21 DEF Silence
  <2>4. T3P5 \in flags' /\ t1p5 => age' = 2
    BY <2>1, <2>3 DEF LineInv
  <2>5. UNCHANGED MidFrame /\ UNCHANGED Length(Len(wire))
    BY <2>1 DEF MidFrame, Length
  <2>6. QED
    BY <2>1, <2>2, <2>4, <2>5 DEF LineInv
<1>22. CASE UNCHANGED vars
  <2>1. UNCHANGED <<wire, pos, fifo, age, t1p5>> /\ (T3P5 \in flags' => T3P5 \in flags)
    BY <1>22 DEF vars, driverVars, lineVars, taskVars
  <2>2. QED
    BY <2>1, LineSame
<1>23. QED
  BY <1>1, <1>2, <1>3, <1>4, <1>5, <1>6, <1>7, <1>8, <1>9, <1>10, <1>11, <1>12,
     <1>13, <1>14, <1>15, <1>16, <1>17, <1>18, <1>19, <1>20, <1>21, <1>22 DEF Next,
     Task, Calls

------------------------------------------------------------------------------
(* Reading. *)

ReadPcs == {"first", "clr", "avail", "take", "body", "verify", "tail"}

\* Outside of mb_rtu_rx, and where nothing is read, nothing changes
LEMMA ReadSame ==
  ASSUME ReadInv, UNCHANGED buf,
         \/ pc' \notin ReadPcs
         \/ /\ UNCHANGED <<pc, dest, navail, error, buf, fifo, wire, pos>>
            /\ RX_AVAIL \in flags => RX_AVAIL \in flags'
  PROVE  ReadInv'
BY DEF ReadInv, Reading, ReadPcs

\* A character that comes in is flagged
LEMMA ReadHook ==
  ASSUME DataType, ReadInv, UNCHANGED <<pc, dest, navail, error, buf>>, RX_AVAIL \in flags',
         NEW b, fifo' = Append(fifo, b)
  PROVE  ReadInv'
<1>1. fifo \in Seq(Sent) /\ navail \in Nat /\ Len(fifo) \in Nat
  BY SizeAssumption DEF DataType
<1>2. fifo' # <<>> /\ Len(fifo') = Len(fifo) + 1
  BY <1>1
<1>3. pc' = "take" => navail' <= Len(fifo')
  BY <1>1, <1>2 DEF ReadInv
<1>4. QED
  BY <1>2, <1>3 DEF ReadInv, Reading

\* A step keeps the reader's invariant
LEMMA ReadStep ==
  ASSUME PlainType, DataType, ReadInv, LineInv, VerifiedInv, [Next]_vars
  PROVE  ReadInv'
<1>1. CASE FirstWait
  <2>1. pc = "first" /\ pc' = "clr" /\ dest' = "id" /\ UNCHANGED buf
    BY <1>1 DEF FirstWait, bufVars
  <2>2. QED
    BY <2>1 DEF ReadInv, Reading
<1>2. CASE FirstTimeout
  <2>1. UNCHANGED buf /\ pc' \notin ReadPcs
    BY <1>2 DEF FirstTimeout, bufVars, ReadPcs
  <2>2. QED
    BY <2>1, ReadSame
<1>3. CASE ReadClr
  <2>1. pc = "clr" /\ pc' = "avail" /\ UNCHANGED <<dest, buf, fifo, wire, pos>>
    BY <1>3 DEF ReadClr, bufVars, lineVars
  <2>2. QED
    BY <2>1 DEF ReadInv, Reading
<1>4. CASE ReadAvail
  <2>1. pc = "avail" /\ pc' = "take" /\ UNCHANGED <<dest, buf, fifo, wire, pos>>
    BY <1>4 DEF ReadAvail, bufVars, lineVars
  <2>2. Len(fifo) \in Nat /\ Len(buf) \in Nat /\ MaxPdu \in Nat /\ Len(buf) <= MaxPdu
    BY SizeAssumption DEF DataType, ReadInv
  <2>3. ReadSize \in Nat /\ (dest = "id" => ReadSize = 1) /\ (dest = "body" => ReadSize + Len(buf) = MaxPdu)
    BY <2>2 DEF ReadSize
  <2>4. navail' \in Nat /\ navail' <= ReadSize /\ navail' <= Len(fifo)
    BY <1>4, <2>2, <2>3 DEF ReadAvail
  <2>5. Len(fifo) > navail' => RX_AVAIL \in flags'
    BY <1>4, <2>2, <2>3 DEF ReadAvail
  <2>6. dest = "id" => navail' <= 1
    BY <2>3, <2>4
  <2>7. dest = "body" => navail' + Len(buf) <= MaxPdu
    BY <2>2, <2>3, <2>4
  <2>8. QED
    BY <2>1, <2>2, <2>4, <2>5, <2>6, <2>7 DEF ReadInv, Reading
<1>5. CASE ReadTake
  <2>1. UNCHANGED <<dest, flags, error, wire, pos>> /\ pc = "take" /\ pc' \in {"body", "verify", "tail", "clear"}
    BY <1>5 DEF ReadTake, lineVars
  <2>2. /\ navail \in 0 .. Len(fifo) /\ (navail = Len(fifo) <=> fifo' = <<>>)
        /\ Len(fifo) > navail => RX_AVAIL \in flags
    BY <1>5, ReadTakeEffect DEF ReadInv, ReadTake
  <2>3. Len(fifo) \in Nat /\ Len(buf) \in Nat /\ MaxPdu \in Nat
    BY SizeAssumption DEF DataType
  <2>4. fifo' # <<>> => RX_AVAIL \in flags'
    BY <2>1, <2>2, <2>3
  <2>5. Len(buf') <= MaxPdu
    <3>1. CASE dest = "body"
      BY <1>5, <2>1, <2>2, <2>3, <3>1, ReadTakeEffect DEF ReadInv
    <3>2. CASE dest # "body"
      BY <1>5, <3>2, ReadTakeEffect DEF ReadInv
    <3>3. QED
      BY <3>1, <3>2
  <2>6. ASSUME pc' \in {"body", "verify"} \/ (pc' = "tail" /\ error = 0), buf' # <<>>, fifo' = <<>>
        PROVE  buf'[Len(buf')] = <<Len(wire), pos>>
    <3>1. CASE dest = "id"
      <4>1. buf' = <<>>
        BY <1>5, <2>1, <3>1, ReadTakeEffect DEF ReadInv, Reading
      <4>2. QED
        BY <2>6, <4>1
    <3>2. CASE dest = "extra"
      <4>1. error # 0
        BY <2>1, <3>2 DEF VerifiedInv, Reading
      <4>2. pc' \in {"tail", "clear"}
        BY <1>5, <3>2 DEF ReadTake
      <4>3. QED
        BY <2>6, <4>1, <4>2
    <3>3. CASE dest = "body" /\ navail = 0
      <4>1. buf' = buf /\ fifo = <<>>
        BY <1>5, <2>2, <2>3, <2>6, <3>3, ReadTakeEffect, EmptySeq DEF DataType
      <4>2. Reading("body")
        BY <2>1, <3>3 DEF Reading
      <4>3. QED
        BY <2>6, <4>1, <4>2 DEF ReadInv
    <3>4. CASE dest = "body" /\ navail # 0
      <4>1. navail > 0 /\ navail = Len(fifo)
        BY <2>2, <2>3, <2>6, <3>4
      <4>2. buf'[Len(buf')] = fifo[Len(fifo)]
        BY <1>5, <3>4, <4>1, ReadTakeEffect
      <4>3. fifo # <<>>
        BY <2>3, <4>1, EmptySeq
      <4>4. QED
        BY <4>2, <4>3 DEF LineInv
    <3>5. QED
      BY <3>1, <3>2, <3>3, <3>4 DEF PlainType
  <2>7. QED
    BY <2>1, <2>4, <2>5, <2>6 DEF ReadInv, Reading
<1>6. CASE BodyWait
  <2>1. /\ pc = "body" /\ dest' = "body" /\ UNCHANGED <<buf, fifo, wire, pos, flags, error>>
        /\ pc' = "clr" \/ (pc' = "verify" /\ RX_AVAIL \notin flags)
    BY <1>6 DEF BodyWait, driverVars, bufVars, lineVars
  <2>2. QED
    BY <2>1 DEF ReadInv, Reading
<1>7. CASE Verify
  <2>1. pc = "verify" /\ pc' = "tail" /\ UNCHANGED <<buf, fifo, wire, pos, flags, dest>>
    BY <1>7 DEF Verify, driverVars, bufVars, lineVars
  <2>2. QED
    BY <2>1 DEF ReadInv, Reading
<1>8. CASE TailWait
  <2>1. /\ dest' = "extra" /\ UNCHANGED buf /\ pc' \in {"clr", "clear"}
    BY <1>8 DEF TailWait
  <2>2. QED
    BY <2>1 DEF ReadInv, Reading
<1>9. CASE Clear
  <2>1. UNCHANGED buf /\ pc' \notin ReadPcs
    BY <1>9 DEF Clear, bufVars, ReadPcs
  <2>2. QED
    BY <2>1, ReadSame
<1>10. CASE Return
  <2>1. UNCHANGED buf /\ pc' \notin ReadPcs
    BY <1>10 DEF Return, bufVars, ReadPcs
  <2>2. QED
    BY <2>1, ReadSame
<1>11. CASE TxClrEmpty
  <2>1. UNCHANGED buf /\ pc' \notin ReadPcs
    BY <1>11 DEF TxClrEmpty, bufVars, ReadPcs
  <2>2. QED
    BY <2>1, ReadSame
<1>12. CASE TxWrite
  <2>1. UNCHANGED buf /\ pc' \notin ReadPcs
    BY <1>12 DEF TxWrite, bufVars, ReadPcs
  <2>2. QED
    BY <2>1, ReadSame
<1>13. CASE TxDrained
  <2>1. UNCHANGED buf /\ pc' \notin ReadPcs
    BY <1>13 DEF TxDrained, bufVars, ReadPcs
  <2>2. QED
    BY <2>1, ReadSame
<1>14. CASE TxTimer
  <2>1. UNCHANGED buf /\ pc' \notin ReadPcs
    BY <1>14 DEF TxTimer, bufVars, ReadPcs
  <2>2. QED
    BY <2>1, ReadSame
<1>15. CASE TxSilence
  <2>1. UNCHANGED buf /\ pc' \notin ReadPcs
    BY <1>15 DEF TxSilence, bufVars, ReadPcs
  <2>2. QED
    BY <2>1, ReadSame
<1>16. CASE StartTx
  <2>1. UNCHANGED buf /\ pc' \notin ReadPcs
    BY <1>16 DEF StartTx, bufVars, ReadPcs
  <2>2. QED
    BY <2>1, ReadSame
<1>17. CASE \E t \in BOOLEAN : StartRx(t)
  <2>1. pc' = "first" /\ buf' = <<>> /\ Len(buf') = 0
    BY <1>17 DEF StartRx
  <2>2. QED
    BY <2>1, SizeAssumption DEF ReadInv, Reading
<1>18. CASE mb_tx_hook
  <2>1. UNCHANGED <<pc, dest, navail, error, buf, fifo, wire, pos>>
    BY <1>18 DEF mb_tx_hook, driverVars, taskVars, bufVars, lineVars
  <2>2. RX_AVAIL \in flags => RX_AVAIL \in flags'
    BY <1>18 DEF mb_tx_hook, driverVars
  <2>3. QED
    BY <2>1, <2>2, ReadSame
<1>19. CASE BeginFrame
  <2>1. UNCHANGED <<pc, dest, navail, error, buf>> /\ RX_AVAIL \in flags'
    BY <1>19 DEF BeginFrame, mb_rx_hook, taskVars, bufVars
  <2>2. PICK b : fifo' = Append(fifo, b)
    BY <1>19 DEF BeginFrame, mb_rx_hook
  <2>3. QED
    BY <2>1, <2>2, ReadHook
<1>20. CASE NextChar
  <2>1. UNCHANGED <<pc, dest, navail, error, buf>> /\ RX_AVAIL \in flags'
    BY <1>20 DEF NextChar, mb_rx_hook, taskVars, bufVars
  <2>2. PICK b : fifo' = Append(fifo, b)
    BY <1>20 DEF NextChar, mb_rx_hook
  <2>3. QED
    BY <2>1, <2>2, ReadHook
<1>21. CASE Silence
  <2>1. UNCHANGED <<pc, dest, navail, error, buf, fifo, wire, pos>>
    BY <1>21 DEF Silence, driverVars, taskVars, bufVars, lineVars
  <2>2. RX_AVAIL \in flags => RX_AVAIL \in flags'
    BY <1>21 DEF Silence, driverVars
  <2>3. QED
    BY <2>1, <2>2, ReadSame
<1>22. CASE UNCHANGED vars
  <2>1. UNCHANGED <<pc, dest, navail, error, buf, fifo, wire, pos>>
    BY <1>22 DEF vars, driverVars, taskVars, bufVars, lineVars
  <2>2. RX_AVAIL \in flags => RX_AVAIL \in flags'
    BY <1>22 DEF vars, driverVars
  <2>3. QED
    BY <2>1, <2>2, ReadSame
<1>23. QED
  BY <1>1, <1>2, <1>3, <1>4, <1>5, <1>6, <1>7, <1>8, <1>9, <1>10, <1>11, <1>12,
     <1>13, <1>14, <1>15, <1>16, <1>17, <1>18, <1>19, <1>20, <1>21, <1>22 DEF Next,
     Task, Calls

------------------------------------------------------------------------------
(* The check of the message. *)

\* Where the task does not move and no frame begins, nothing changes
LEMMA VerifiedSame ==
  ASSUME VerifiedInv, UNCHANGED <<pc, dest, error, buf, slave_rx, wire>>
  PROVE  VerifiedInv'
<1>1. Sent' = Sent /\ UNCHANGED Length(slave_rx[1])
  BY DEF Sent, Length
<1>2. QED
  BY <1>1 DEF VerifiedInv, Reading

\* A step keeps the invariant of the check
LEMMA VerifiedStep ==
  ASSUME PlainType, DataType, VerifiedInv, [Next]_vars
  PROVE  VerifiedInv'
<1>1. CASE FirstWait
  BY <1>1 DEF FirstWait, VerifiedInv, Reading
<1>2. CASE FirstTimeout
  BY <1>2 DEF FirstTimeout, VerifiedInv, Reading
<1>3. CASE ReadClr
  BY <1>3 DEF ReadClr, VerifiedInv, Reading, bufVars
<1>4. CASE ReadAvail
  BY <1>4 DEF ReadAvail, VerifiedInv, Reading, bufVars
<1>5. CASE ReadTake
  <2>1. pc = "take" /\ UNCHANGED error
    BY <1>5 DEF ReadTake
  <2>2. pc' \in {"body", "verify"} \/ (dest = "extra" /\ pc' \in {"tail", "clear"})
    BY <1>5 DEF ReadTake, PlainType
  <2>3. dest = "extra" => error # 0
    BY <2>1 DEF VerifiedInv, Reading
  <2>4. QED
    BY <2>1, <2>2, <2>3 DEF VerifiedInv, Reading
<1>6. CASE BodyWait
  BY <1>6 DEF BodyWait, VerifiedInv, Reading
<1>7. CASE Verify
  <2>1. pc' = "tail" /\ UNCHANGED <<slave_rx, buf, wire>> /\ (error' = 0 => CrcOk)
    BY <1>7 DEF Verify, lineVars, ESLAVE_ID, ECRC_FAIL
  <2>2. ASSUME error' = 0
        PROVE  /\ slave_rx \in Sent /\ Len(buf) + 1 = Length(slave_rx[1])
               /\ buf[Len(buf)] = <<slave_rx[1], Length(slave_rx[1])>>
    <3>1. /\ slave_rx \in Sent /\ Len(buf) + 1 = Length(slave_rx[1])
          /\ \A i \in 1 .. Len(buf) : buf[i] = <<slave_rx[1], i + 1>>
      BY <2>1, <2>2, CrcEffect
    <3>2. slave_rx[1] \in 1 .. Len(wire)
      BY <3>1, SentBytes
    <3>3. Length(slave_rx[1]) \in 3 .. MaxPdu + 3 /\ Len(buf) \in Nat
      BY <3>2, SentBytes DEF DataType
    <3>4. Len(buf) \in 1 .. Len(buf)
      BY <3>1, <3>3
    <3>5. QED
      BY <3>1, <3>4
  <2>3. Sent' = Sent /\ UNCHANGED Length(slave_rx[1])
    BY <2>1 DEF Sent, Length
  <2>4. QED
    BY <2>1, <2>2, <2>3 DEF VerifiedInv, Reading
<1>8. CASE TailWait
  <2>1. /\ pc = "tail" /\ UNCHANGED <<slave_rx, buf, wire>>
        /\ (pc' = "clr" /\ error' # 0) \/ (pc' = "clear" /\ error' = error)
    BY <1>8 DEF TailWait, lineVars, EFRAME_NOK
  <2>2. Sent' = Sent /\ UNCHANGED Length(slave_rx[1])
    BY <2>1 DEF Sent, Length
  <2>3. QED
    BY <2>1, <2>2 DEF VerifiedInv, Reading
<1>9. CASE Clear
  BY <1>9 DEF Clear, VerifiedInv, Reading
<1>10. CASE Return
  BY <1>10 DEF Return, VerifiedInv, Reading
<1>11. CASE TxClrEmpty
  BY <1>11 DEF TxClrEmpty, VerifiedInv, Reading
<1>12. CASE TxWrite
  BY <1>12 DEF TxWrite, VerifiedInv, Reading
<1>13. CASE TxDrained
  BY <1>13 DEF TxDrained, VerifiedInv, Reading
<1>14. CASE TxTimer
  BY <1>14 DEF TxTimer, VerifiedInv, Reading
<1>15. CASE TxSilence
  BY <1>15 DEF TxSilence, VerifiedInv, Reading
<1>16. CASE StartTx
  BY <1>16 DEF StartTx, VerifiedInv, Reading
<1>17. CASE \E t \in BOOLEAN : StartRx(t)
  BY <1>17 DEF StartRx, VerifiedInv, Reading
<1>18. CASE mb_tx_hook
  <2>1. UNCHANGED <<pc, dest, error, buf, slave_rx, wire>>
    BY <1>18 DEF mb_tx_hook, taskVars, bufVars, lineVars
  <2>2. QED
    BY <2>1, VerifiedSame
<1>19. CASE BeginFrame
  <2>1. PICK k \in Kinds : wire' = Append(wire, k)
    BY <1>19 DEF BeginFrame
  <2>2. UNCHANGED <<pc, dest, error, buf, slave_rx>>
    BY <1>19 DEF BeginFrame, mb_rx_hook, taskVars, bufVars
  <2>3. Sent \subseteq Sent' /\ \A f \in 1 .. Len(wire) : Length(f)' = Length(f)
    BY <2>1, WireGrows
  <2>4. slave_rx \in Sent => slave_rx \in Sent' /\ Length(slave_rx[1])' = Length(slave_rx[1])
    BY <2>2, <2>3, SentBytes
  <2>5. QED
    BY <2>2, <2>4 DEF VerifiedInv, Reading
<1>20. CASE NextChar
  <2>1. UNCHANGED <<pc, dest, error, buf, slave_rx, wire>>
    BY <1>20 DEF NextChar, mb_rx_hook, taskVars, bufVars, lineVars
  <2>2. QED
    BY <2>1, VerifiedSame
<1>21. CASE Silence
  <2>1. UNCHANGED <<pc, dest, error, buf, slave_rx, wire>>
    BY <1>21 DEF Silence, taskVars, bufVars, lineVars
  <2>2. QED
    BY <2>1, VerifiedSame
<1>22. CASE UNCHANGED vars
  <2>1. UNCHANGED <<pc, dest, error, buf, slave_rx, wire>>
    BY <1>22 DEF vars, taskVars, bufVars, lineVars
  <2>2. QED
    BY <2>1, VerifiedSame
<1>23. QED
  BY <1>1, <1>2, <1>3, <1>4, <1>5, <1>6, <1>7, <1>8, <1>9, <1>10, <1>11, <1>12,
     <1>13, <1>14, <1>15, <1>16, <1>17, <1>18, <1>19, <1>20, <1>21, <1>22 DEF Next,
     Task, Calls

------------------------------------------------------------------------------
(* The frame that is returned. *)

\* What the invariant says of the next state, on a line that did not move
LEMMA ReturnKept ==
  ASSUME UNCHANGED <<slave_rx, wire, pos>>, slave_rx \in Sent, slave_rx[1] \notin rushed',
         \/ slave_rx[1] < Len(wire)
         \/ slave_rx[1] = Len(wire) /\ pos = Length(Len(wire)) /\ (age' = 2 \/ ~t1p5'),
         calm' => slave_rx[1] \notin gapped'
  PROVE  ReturnInv'
<1>1. Sent' = Sent /\ Length(Len(wire))' = Length(Len(wire))
  BY DEF Sent, Length
<1>2. QED
  BY <1>1 DEF ReturnInv

\* A step that leaves the line and the station id alone keeps it
LEMMA ReturnSame ==
  ASSUME ReturnInv, Returned' => Returned,
         UNCHANGED <<slave_rx, wire, pos, rushed, gapped, age, t1p5, calm>>
  PROVE  ReturnInv'
<1>1. Sent' = Sent /\ Length(Len(wire))' = Length(Len(wire))
  BY DEF Sent, Length
<1>2. QED
  BY <1>1 DEF ReturnInv

\* A step keeps the invariant of what is returned
LEMMA ReturnStep ==
  ASSUME PlainType, DataType, ReadInv, LineInv, VerifiedInv, CalmInv, ReturnInv, [Next]_vars
  PROVE  ReturnInv'
<1>1. CASE FirstWait
  <2>1. ~Returned'
    BY <1>1 DEF FirstWait, Returned
  <2>2. QED
    BY <2>1 DEF ReturnInv
<1>2. CASE FirstTimeout
  <2>1. ~Returned'
    BY <1>2 DEF FirstTimeout, Returned, ETIMEOUT
  <2>2. QED
    BY <2>1 DEF ReturnInv
<1>3. CASE ReadClr
  <2>1. ~Returned'
    BY <1>3 DEF ReadClr, Returned
  <2>2. QED
    BY <2>1 DEF ReturnInv
<1>4. CASE ReadAvail
  <2>1. ~Returned'
    BY <1>4 DEF ReadAvail, Returned
  <2>2. QED
    BY <2>1 DEF ReturnInv
<1>5. CASE ReadTake
  <2>1. pc = "take" /\ UNCHANGED error
    BY <1>5 DEF ReadTake
  <2>2. pc' \in {"body", "verify", "tail"} \/ (dest = "extra" /\ pc' = "clear")
    BY <1>5 DEF ReadTake, PlainType
  <2>3. dest = "extra" => error # 0
    BY <2>1 DEF VerifiedInv, Reading
  <2>4. ~Returned'
    BY <2>1, <2>2, <2>3 DEF Returned
  <2>5. QED
    BY <2>4 DEF ReturnInv
<1>6. CASE BodyWait
  <2>1. ~Returned'
    BY <1>6 DEF BodyWait, Returned
  <2>2. QED
    BY <2>1 DEF ReturnInv
<1>7. CASE Verify
  <2>1. ~Returned'
    BY <1>7 DEF Verify, Returned
  <2>2. QED
    BY <2>1 DEF ReturnInv
<1>8. CASE TailWait
  <2>1. /\ pc = "tail" /\ UNCHANGED <<slave_rx, wire, pos, rushed, gapped, age, t1p5, calm>>
        /\ pc' = "clr" \/ (pc' = "clear" /\ error' = error /\ RX_AVAIL \notin flags /\ T3P5 \in flags)
    BY <1>8 DEF TailWait, Mask, driverVars, lineVars, histVars
  <2>2. SUFFICES ASSUME pc' = "clear", error = 0, RX_AVAIL \notin flags, T3P5 \in flags
                 PROVE  ReturnInv'
    BY <2>1 DEF ReturnInv, Returned
  <2>3. PICK f : f = slave_rx[1]
    OBVIOUS
  <2>4. slave_rx \in Sent /\ Len(buf) + 1 = Length(f) /\ buf[Len(buf)] = <<f, Length(f)>>
    BY <2>1, <2>2, <2>3 DEF VerifiedInv
  <2>5. f \in 1 .. Len(wire) /\ Len(wire) \in Nat
    BY <2>3, <2>4, SentBytes
  <2>6. fifo = <<>>
    BY <2>1, <2>2 DEF ReadInv
  <2>7. buf # <<>>
    <3>1. Length(f) \in 3 .. MaxPdu + 3
      BY <2>5, SentBytes
    <3>2. QED
      BY <2>4, <3>1
  <2>8. <<f, Length(f)>> = <<Len(wire), pos>>
    BY <2>1, <2>2, <2>4, <2>6, <2>7 DEF ReadInv
  <2>9. f = Len(wire) /\ pos = Length(Len(wire))
    BY <2>8
  <2>10. f \notin rushed
    BY <2>5, <2>9 DEF DataType
  <2>11. calm => f \notin gapped
    BY <2>1, <2>2, <2>6, <2>9 DEF CalmInv
  <2>12. age = 2 \/ ~t1p5
    BY <2>2 DEF LineInv
  <2>13. QED
    BY <2>1, <2>3, <2>4, <2>9, <2>10, <2>11, <2>12, ReturnKept
<1>9. CASE Clear
  <2>1. pc = "clear" /\ UNCHANGED <<slave_rx, wire, pos, rushed, gapped, age, t1p5, calm>>
    BY <1>9 DEF Clear, bufVars, lineVars
  <2>2. Returned' => Returned
    BY <1>9 DEF Clear, Returned, PlainType, Errors, ETIMEOUT, ECRC_FAIL, ESLAVE_ID, EFRAME_NOK
  <2>3. QED
    BY <2>1, <2>2, ReturnSame
<1>10. CASE Return
  <2>1. ~Returned'
    BY <1>10 DEF Return, Returned
  <2>2. QED
    BY <2>1 DEF ReturnInv
<1>11. CASE TxClrEmpty
  <2>1. ~Returned'
    BY <1>11 DEF TxClrEmpty, Returned
  <2>2. QED
    BY <2>1 DEF ReturnInv
<1>12. CASE TxWrite
  <2>1. ~Returned'
    BY <1>12 DEF TxWrite, Returned
  <2>2. QED
    BY <2>1 DEF ReturnInv
<1>13. CASE TxDrained
  <2>1. ~Returned'
    BY <1>13 DEF TxDrained, Returned
  <2>2. QED
    BY <2>1 DEF ReturnInv
<1>14. CASE TxTimer
  <2>1. ~Returned'
    BY <1>14 DEF TxTimer, Returned
  <2>2. QED
    BY <2>1 DEF ReturnInv
<1>15. CASE TxSilence
  <2>1. ~Returned'
    BY <1>15 DEF TxSilence, Returned
  <2>2. QED
    BY <2>1 DEF ReturnInv
<1>16. CASE StartTx
  <2>1. ~Returned'
    BY <1>16 DEF StartTx, Returned
  <2>2. QED
    BY <2>1 DEF ReturnInv
<1>17. CASE \E t \in BOOLEAN : StartRx(t)
  <2>1. ~Returned'
    BY <1>17 DEF StartRx, Returned
  <2>2. QED
    BY <2>1 DEF ReturnInv
<1>18. CASE mb_tx_hook
  <2>1. UNCHANGED <<pc, error, ret, slave_rx, wire, pos, rushed, gapped, age, t1p5, calm>>
    BY <1>18 DEF mb_tx_hook, driverVars, taskVars, bufVars, lineVars, histVars
  <2>2. QED
    BY <2>1, ReturnSame DEF Returned
<1>19. CASE BeginFrame
  <2>1. PICK k \in Kinds : wire' = Append(wire, k)
    BY <1>19 DEF BeginFrame
  <2>2. UNCHANGED <<pc, error, ret, slave_rx, gapped>> /\ (calm' => calm)
    BY <1>19 DEF BeginFrame, mb_rx_hook, taskVars, bufVars
  <2>3. SUFFICES ASSUME Returned
                 PROVE  ReturnInv'
    BY <2>2 DEF ReturnInv, Returned
  <2>4. Sent \subseteq Sent' /\ Len(wire') = Len(wire) + 1
    BY <2>1, WireGrows
  <2>5. PICK f : f = slave_rx[1]
    OBVIOUS
  <2>6. /\ slave_rx \in Sent /\ f \notin rushed /\ (calm => f \notin gapped)
        /\ f < Len(wire) \/ (f = Len(wire) /\ (age = 2 \/ ~t1p5))
    BY <2>3, <2>5 DEF ReturnInv
  <2>7. f \in 1 .. Len(wire) /\ Len(wire) \in Nat
    BY <2>5, <2>6, SentBytes
  <2>8. f < Len(wire')
    BY <2>4, <2>7
  <2>9. f \notin rushed'
    <3>1. CASE age < 2 /\ t1p5
      <4>1. f < Len(wire)
        BY <2>6, <3>1
      <4>2. rushed' = rushed \cup {Len(wire)} /\ f # Len(wire)
        BY <1>19, <2>7, <3>1, <4>1 DEF BeginFrame
      <4>3. QED
        BY <2>6, <4>2
    <3>2. CASE ~(age < 2 /\ t1p5)
      BY <1>19, <2>6, <3>2 DEF BeginFrame
    <3>3. QED
      BY <3>1, <3>2
  <2>10. slave_rx' \in Sent' /\ slave_rx'[1] = f /\ (calm' => f \notin gapped')
    BY <2>2, <2>4, <2>5, <2>6
  <2>11. QED
    BY <2>8, <2>9, <2>10 DEF ReturnInv
<1>20. CASE NextChar
  <2>1. /\ UNCHANGED <<pc, error, ret, slave_rx, wire, rushed>> /\ (calm' => calm)
        /\ gapped' \subseteq gapped \cup {Len(wire)}
    BY <1>20 DEF NextChar, mb_rx_hook, taskVars, bufVars
  <2>2. SUFFICES ASSUME Returned
                 PROVE  ReturnInv'
    BY <2>1 DEF ReturnInv, Returned
  <2>3. PICK f : f = slave_rx[1]
    OBVIOUS
  <2>4. /\ slave_rx \in Sent /\ f \notin rushed /\ (calm => f \notin gapped)
        /\ f < Len(wire) \/ pos = Length(Len(wire))
    BY <2>2, <2>3 DEF ReturnInv
  <2>5. f \in 1 .. Len(wire) /\ Len(wire) \in Nat
    BY <2>3, <2>4, SentBytes
  <2>6. f < Len(wire)
    <3>1. Len(wire) \in 1 .. Len(wire)
      BY <2>5
    <3>2. pos < Length(Len(wire)) /\ Length(Len(wire)) \in 3 .. MaxPdu + 3 /\ MaxPdu \in Nat
      BY <1>20, <3>1, SentBytes DEF NextChar, MidFrame
    <3>3. QED
      BY <2>4, <3>2
  <2>7. Sent' = Sent
    BY <2>1 DEF Sent
  <2>8. slave_rx' \in Sent' /\ slave_rx'[1] = f /\ f < Len(wire') /\ f \notin rushed'
    BY <2>1, <2>3, <2>4, <2>6, <2>7
  <2>9. calm' => f \notin gapped'
    BY <2>1, <2>4, <2>5, <2>6
  <2>10. QED
    BY <2>8, <2>9 DEF ReturnInv
<1>21. CASE Silence
  <2>1. UNCHANGED <<pc, error, ret, slave_rx, wire, pos, rushed, gapped, t1p5>> /\ (calm' => calm)
    BY <1>21 DEF Silence, taskVars, bufVars, lineVars
  <2>2. age # 2
    BY <1>21 DEF Silence, PlainType
  <2>3. SUFFICES ASSUME Returned
                 PROVE  ReturnInv'
    BY <2>1 DEF ReturnInv, Returned
  <2>4. PICK f : f = slave_rx[1]
    OBVIOUS
  <2>5. /\ slave_rx \in Sent /\ f \notin rushed /\ (calm => f \notin gapped)
        /\ f < Len(wire) \/ (f = Len(wire) /\ pos = Length(Len(wire)) /\ ~t1p5)
    BY <2>2, <2>3, <2>4 DEF ReturnInv
  <2>6. QED
    BY <2>1, <2>4, <2>5, ReturnKept
<1>22. CASE UNCHANGED vars
  <2>1. UNCHANGED <<pc, error, ret, slave_rx, wire, pos, rushed, gapped, age, t1p5, calm>>
    BY <1>22 DEF vars, driverVars, taskVars, bufVars, lineVars, histVars
  <2>2. QED
    BY <2>1, ReturnSame DEF Returned
<1>23. QED
  BY <1>1, <1>2, <1>3, <1>4, <1>5, <1>6, <1>7, <1>8, <1>9, <1>10, <1>11, <1>12,
     <1>13, <1>14, <1>15, <1>16, <1>17, <1>18, <1>19, <1>20, <1>21, <1>22 DEF Next,
     Task, Calls

------------------------------------------------------------------------------
(* A task that keeps up. *)

\* Where a task can be blocked
LEMMA BlockedWhere ==
  ASSUME PlainType, Blocked
  PROVE  /\ pc \in {"idle", "first", "body", "tail", "drain", "silence"}
         /\ pc = "first" => RX_AVAIL \notin flags
         /\ pc = "body" => T1P5 \notin flags
BY DEF Blocked, Spinning, Mask, PlainType, RxPcs, TxPcs

\* A step keeps the invariant of a task that keeps up
LEMMA CalmStep ==
  ASSUME PlainType, DataType, ReadInv, LineInv, VerifiedInv, CalmInv, [Next]_vars
  PROVE  CalmInv'
<1>1. CASE FirstWait
  <2>1. /\ UNCHANGED <<wire, pos, gapped, calm, age, t1p5, fifo>>
        /\ pc = "first" /\ pc' = "clr" /\ dest' = "id" /\ UNCHANGED flags
        /\ T1P5 \in flags \/ RX_AVAIL \in flags
    BY <1>1 DEF FirstWait, Mask, driverVars, lineVars, histVars
  <2>2. SUFFICES ASSUME calm
                 PROVE  CalmInv'
    BY <2>1 DEF CalmInv
  <2>3. UNCHANGED MidFrame
    BY <2>1 DEF MidFrame, Length
  <2>4. QED
    BY <2>1, <2>2, <2>3 DEF CalmInv, Reading, TxPcs
<1>2. CASE FirstTimeout
  <2>1. /\ UNCHANGED <<wire, pos, gapped, calm, age, t1p5, fifo>>
        /\ pc = "first" /\ pc' = "ret" /\ UNCHANGED flags /\ RX_AVAIL \notin flags
    BY <1>2 DEF FirstTimeout, Mask, driverVars, lineVars, histVars
  <2>2. SUFFICES ASSUME calm
                 PROVE  CalmInv'
    BY <2>1 DEF CalmInv
  <2>3. UNCHANGED MidFrame
    BY <2>1 DEF MidFrame, Length
  <2>4. QED
    BY <2>1, <2>2, <2>3 DEF CalmInv, Reading, TxPcs
<1>3. CASE ReadClr
  <2>1. /\ UNCHANGED <<wire, pos, gapped, calm, age, t1p5, fifo>>
        /\ pc = "clr" /\ pc' = "avail" /\ UNCHANGED <<dest, got, error>> /\ flags' = flags \ {RX_AVAIL}
    BY <1>3 DEF ReadClr, bufVars, driverVars, lineVars, histVars
  <2>2. SUFFICES ASSUME calm
                 PROVE  CalmInv'
    BY <2>1 DEF CalmInv
  <2>3. UNCHANGED MidFrame
    BY <2>1 DEF MidFrame, Length
  <2>4. QED
    BY <2>1, <2>2, <2>3 DEF CalmInv, Reading, TxPcs
<1>4. CASE ReadAvail
  <2>1. /\ UNCHANGED <<wire, pos, gapped, calm, age, t1p5, fifo>>
        /\ pc = "avail" /\ pc' = "take" /\ UNCHANGED <<dest, got, error>>
        /\ T1P5 \in flags => T1P5 \in flags'
    BY <1>4 DEF ReadAvail, bufVars, driverVars, lineVars, histVars
  <2>2. SUFFICES ASSUME calm
                 PROVE  CalmInv'
    BY <2>1 DEF CalmInv
  <2>3. UNCHANGED MidFrame
    BY <2>1 DEF MidFrame, Length
  <2>4. dest = "id" => navail' = 1
    <3>1. HAVE dest = "id"
    <3>2. fifo # <<>> /\ Len(fifo) \in Nat
      BY <2>1, <2>2, <3>1 DEF CalmInv, Reading, DataType
    <3>3. Len(fifo) # 0
      BY <3>2, EmptySeq DEF DataType
    <3>4. ReadSize = 1
      BY <3>1 DEF ReadSize
    <3>5. QED
      BY <1>4, <3>2, <3>3, <3>4 DEF ReadAvail
  <2>5. QED
    BY <2>1, <2>2, <2>3, <2>4 DEF CalmInv, Reading, TxPcs
<1>5. CASE ReadTake
  <2>1. /\ UNCHANGED <<wire, pos, gapped, calm, age, t1p5, dest, got, flags, error>>
        /\ pc = "take"
    BY <1>5 DEF ReadTake, lineVars
  <2>2. SUFFICES ASSUME calm
                 PROVE  CalmInv'
    BY <2>1 DEF CalmInv
  <2>3. UNCHANGED MidFrame
    BY <2>1 DEF MidFrame, Length
  <2>4. \/ dest # "extra" /\ pc' \in {"body", "verify"}
        \/ dest = "extra" /\ (pc' = "tail" \/ (pc' = "clear" /\ T3P5 \in got))
    BY <1>5 DEF ReadTake, PlainType
  <2>5. dest = "extra" => error # 0
    BY <2>1 DEF VerifiedInv, Reading
  <2>6. QED
    BY <2>1, <2>2, <2>3, <2>4, <2>5 DEF CalmInv, Reading, TxPcs, PlainType
<1>6. CASE BodyWait
  <2>1. /\ UNCHANGED <<wire, pos, gapped, calm, age, t1p5, fifo>>
        /\ pc = "body" /\ pc' \in {"clr", "verify"} /\ dest' = "body" /\ UNCHANGED flags
    BY <1>6 DEF BodyWait, driverVars, lineVars, histVars
  <2>2. SUFFICES ASSUME calm
                 PROVE  CalmInv'
    BY <2>1 DEF CalmInv
  <2>3. UNCHANGED MidFrame
    BY <2>1 DEF MidFrame, Length
  <2>4. QED
    BY <2>1, <2>2, <2>3 DEF CalmInv, Reading, TxPcs
<1>7. CASE Verify
  <2>1. /\ UNCHANGED <<wire, pos, gapped, calm, age, t1p5, fifo>>
        /\ pc = "verify" /\ pc' = "tail" /\ UNCHANGED flags
    BY <1>7 DEF Verify, driverVars, lineVars, histVars
  <2>2. SUFFICES ASSUME calm
                 PROVE  CalmInv'
    BY <2>1 DEF CalmInv
  <2>3. UNCHANGED MidFrame
    BY <2>1 DEF MidFrame, Length
  <2>4. QED
    BY <2>1, <2>2, <2>3 DEF CalmInv, Reading, TxPcs
<1>8. CASE TailWait
  <2>1. /\ UNCHANGED <<wire, pos, gapped, calm, age, t1p5, fifo>>
        /\ pc = "tail" /\ dest' = "extra" /\ got' = flags /\ UNCHANGED flags
        /\ (pc' = "clr" /\ RX_AVAIL \in flags) \/ (pc' = "clear" /\ T3P5 \in flags)
    BY <1>8 DEF TailWait, Mask, driverVars, lineVars, histVars
  <2>2. SUFFICES ASSUME calm
                 PROVE  CalmInv'
    BY <2>1 DEF CalmInv
  <2>3. UNCHANGED MidFrame
    BY <2>1 DEF MidFrame, Length
  <2>4. T3P5 \in flags => ~MidFrame /\ (age = 2 \/ ~t1p5)
    BY <2>2 DEF CalmInv, LineInv
  <2>5. QED
    BY <2>1, <2>2, <2>3, <2>4 DEF CalmInv, Reading, TxPcs
<1>9. CASE Clear
  <2>1. /\ UNCHANGED <<wire, pos, gapped, calm, age, t1p5, fifo>>
        /\ pc = "clear" /\ pc' = "ret" /\ flags' = flags \ {T1P5, T3P5, RX_AVAIL}
    BY <1>9 DEF Clear, driverVars, lineVars, histVars
  <2>2. SUFFICES ASSUME calm
                 PROVE  CalmInv'
    BY <2>1 DEF CalmInv
  <2>3. UNCHANGED MidFrame
    BY <2>1 DEF MidFrame, Length
  <2>4. QED
    BY <2>1, <2>2, <2>3 DEF CalmInv, Reading, TxPcs
<1>10. CASE Return
  <2>1. /\ UNCHANGED <<wire, pos, gapped, calm, age, t1p5, fifo>>
        /\ pc = "ret" /\ pc' = "idle" /\ UNCHANGED flags
    BY <1>10 DEF Return, driverVars, lineVars, histVars
  <2>2. SUFFICES ASSUME calm
                 PROVE  CalmInv'
    BY <2>1 DEF CalmInv
  <2>3. UNCHANGED MidFrame
    BY <2>1 DEF MidFrame, Length
  <2>4. QED
    BY <2>1, <2>2, <2>3 DEF CalmInv, Reading, TxPcs
<1>11. CASE TxClrEmpty
  <2>1. /\ UNCHANGED <<wire, pos, gapped, calm, age, t1p5, fifo>>
        /\ pc = "send" /\ pc' = "write" /\ flags' = flags \ {TX_EMPTY}
    BY <1>11 DEF TxClrEmpty, driverVars, lineVars, histVars
  <2>2. SUFFICES ASSUME calm
                 PROVE  CalmInv'
    BY <2>1 DEF CalmInv
  <2>3. UNCHANGED MidFrame
    BY <2>1 DEF MidFrame, Length
  <2>4. QED
    BY <2>1, <2>2, <2>3 DEF CalmInv, Reading, TxPcs
<1>12. CASE TxWrite
  <2>1. /\ UNCHANGED <<wire, pos, gapped, calm, age, t1p5, fifo>>
        /\ pc = "write" /\ pc' = "drain" /\ UNCHANGED flags
    BY <1>12 DEF TxWrite, driverVars, lineVars, histVars
  <2>2. SUFFICES ASSUME calm
                 PROVE  CalmInv'
    BY <2>1 DEF CalmInv
  <2>3. UNCHANGED MidFrame
    BY <2>1 DEF MidFrame, Length
  <2>4. QED
    BY <2>1, <2>2, <2>3 DEF CalmInv, Reading, TxPcs
<1>13. CASE TxDrained
  <2>1. /\ UNCHANGED <<wire, pos, gapped, calm, age, t1p5, fifo>>
        /\ pc = "drain" /\ pc' = "disable" /\ flags' = flags \ {T1P5, T3P5}
    BY <1>13 DEF TxDrained, driverVars, lineVars, histVars
  <2>2. SUFFICES ASSUME calm
                 PROVE  CalmInv'
    BY <2>1 DEF CalmInv
  <2>3. UNCHANGED MidFrame
    BY <2>1 DEF MidFrame, Length
  <2>4. QED
    BY <2>1, <2>2, <2>3 DEF CalmInv, Reading, TxPcs
<1>14. CASE TxTimer
  <2>1. /\ UNCHANGED <<wire, pos, gapped, calm, fifo, flags>> /\ age' = 0 /\ ~t1p5'
        /\ pc = "disable" /\ pc' = "silence"
    BY <1>14 DEF TxTimer, lineVars, histVars
  <2>2. SUFFICES ASSUME calm
                 PROVE  CalmInv'
    BY <2>1 DEF CalmInv
  <2>3. UNCHANGED MidFrame
    BY <2>1 DEF MidFrame, Length
  <2>4. QED
    BY <2>1, <2>2, <2>3 DEF CalmInv, Reading, TxPcs
<1>15. CASE TxSilence
  <2>1. /\ UNCHANGED <<wire, pos, gapped, calm, age, t1p5, fifo>>
        /\ pc = "silence" /\ pc' = "idle" /\ UNCHANGED flags
    BY <1>15 DEF TxSilence, driverVars, lineVars, histVars
  <2>2. SUFFICES ASSUME calm
                 PROVE  CalmInv'
    BY <2>1 DEF CalmInv
  <2>3. UNCHANGED MidFrame
    BY <2>1 DEF MidFrame, Length
  <2>4. QED
    BY <2>1, <2>2, <2>3 DEF CalmInv, Reading, TxPcs
<1>16. CASE StartTx
  <2>1. /\ UNCHANGED <<wire, pos, gapped, calm, age, t1p5, fifo>>
        /\ pc = "idle" /\ pc' = "send" /\ UNCHANGED flags
    BY <1>16 DEF StartTx, driverVars, lineVars, histVars
  <2>2. SUFFICES ASSUME calm
                 PROVE  CalmInv'
    BY <2>1 DEF CalmInv
  <2>3. UNCHANGED MidFrame
    BY <2>1 DEF MidFrame, Length
  <2>4. QED
    BY <2>1, <2>2, <2>3 DEF CalmInv, Reading, TxPcs
<1>17. CASE \E t \in BOOLEAN : StartRx(t)
  <2>1. /\ UNCHANGED <<wire, pos, gapped, calm, age, t1p5, fifo>>
        /\ pc = "idle" /\ pc' = "first" /\ UNCHANGED flags
    BY <1>17 DEF StartRx, driverVars, lineVars, histVars
  <2>2. SUFFICES ASSUME calm
                 PROVE  CalmInv'
    BY <2>1 DEF CalmInv
  <2>3. UNCHANGED MidFrame
    BY <2>1 DEF MidFrame, Length
  <2>4. QED
    BY <2>1, <2>2, <2>3 DEF CalmInv, Reading, TxPcs
<1>18. CASE mb_tx_hook
  <2>1. /\ UNCHANGED <<wire, pos, gapped, calm, age, t1p5, fifo>>
        /\ UNCHANGED <<pc, dest, got, navail, error>> /\ flags' = flags \cup {TX_EMPTY}
    BY <1>18 DEF mb_tx_hook, taskVars, bufVars, lineVars, histVars
  <2>2. SUFFICES ASSUME calm
                 PROVE  CalmInv'
    BY <2>1 DEF CalmInv
  <2>3. UNCHANGED MidFrame
    BY <2>1 DEF MidFrame, Length
  <2>4. QED
    BY <2>1, <2>2, <2>3 DEF CalmInv, Reading, TxPcs
<1>19. CASE BeginFrame
  <2>1. PICK k \in Kinds : wire' = Append(wire, k)
    BY <1>19 DEF BeginFrame
  <2>2. /\ UNCHANGED <<pc, dest, got, navail, error, gapped>> /\ age' = 0 /\ t1p5'
        /\ RX_AVAIL \in flags' /\ (calm' => Blocked /\ Expected)
    BY <1>19 DEF BeginFrame, mb_rx_hook, taskVars, bufVars
  <2>3. SUFFICES ASSUME calm'
                 PROVE  CalmInv'
    BY DEF CalmInv
  <2>4. pc \in {"first", "body", "tail"}
    BY <2>2, <2>3, BlockedWhere DEF Expected, RxPcs
  <2>5. fifo' # <<>>
    <3>1. PICK b : fifo' = Append(fifo, b)
      BY <1>19 DEF BeginFrame, mb_rx_hook
    <3>2. QED
      BY <3>1 DEF DataType
  <2>6. Len(wire') \notin gapped'
    BY <2>1, <2>2, WireGrows, SentBytes DEF DataType
  <2>7. QED
    BY <2>2, <2>4, <2>5, <2>6 DEF CalmInv, Reading, TxPcs
<1>20. CASE NextChar
  <2>1. /\ UNCHANGED <<pc, dest, got, navail, error, wire>> /\ age' = 0 /\ t1p5' /\ MidFrame
        /\ RX_AVAIL \in flags' /\ (calm' => calm /\ Blocked)
        /\ gapped' = IF age > 0 THEN gapped \cup {Len(wire)} ELSE gapped
    BY <1>20 DEF NextChar, mb_rx_hook, taskVars, bufVars
  <2>2. SUFFICES ASSUME calm, Blocked
                 PROVE  CalmInv'
    BY <2>1 DEF CalmInv
  <2>3. pc \in {"body", "tail"}
    BY <2>1, <2>2, BlockedWhere DEF CalmInv, TxPcs
  <2>4. fifo' # <<>>
    <3>1. PICK b : fifo' = Append(fifo, b)
      BY <1>20 DEF NextChar, mb_rx_hook
    <3>2. QED
      BY <3>1 DEF DataType
  <2>5. pc = "body" => Len(wire) \notin gapped'
    <3>1. HAVE pc = "body"
    <3>2. T1P5 \notin flags
      BY <2>2, <3>1, BlockedWhere
    <3>3. ~(age > 0)
      BY <2>1, <2>2, <3>1, <3>2 DEF CalmInv
    <3>4. QED
      BY <2>1, <2>2, <3>1, <3>3 DEF CalmInv
  <2>6. QED
    BY <2>1, <2>3, <2>4, <2>5 DEF CalmInv, Reading, TxPcs
<1>21. CASE Silence
  <2>age. age \in 0 .. 1
    BY <1>21 DEF Silence, PlainType
  <2>1. /\ UNCHANGED <<pc, dest, got, navail, error, wire, pos, fifo, gapped, t1p5>>
        /\ age' = age + 1 /\ age \in 0 .. 1 /\ (calm' => calm /\ Blocked)
    BY <1>21, <2>age DEF Silence, taskVars, bufVars, lineVars
  <2>2. /\ RX_AVAIL \in flags' <=> RX_AVAIL \in flags
        /\ T1P5 \in flags' <=> T1P5 \in flags \/ (age = 0 /\ t1p5)
    BY <1>21 DEF Silence
  <2>3. SUFFICES ASSUME calm, Blocked
                 PROVE  CalmInv'
    BY <2>1 DEF CalmInv
  <2>4. UNCHANGED MidFrame
    BY <2>1 DEF MidFrame, Length
  <2>5. pc \in {"idle", "first", "body", "tail", "drain", "silence"}
    BY <2>3, BlockedWhere
  <2>6. QED
    BY <2>1, <2>2, <2>3, <2>4, <2>5 DEF CalmInv, Reading, TxPcs
<1>22. CASE UNCHANGED vars
  <2>1. /\ UNCHANGED <<wire, pos, gapped, calm, age, t1p5, fifo>>
        /\ UNCHANGED <<pc, dest, got, navail, error, flags>>
    BY <1>22 DEF vars, driverVars, taskVars, bufVars, lineVars, histVars
  <2>2. SUFFICES ASSUME calm
                 PROVE  CalmInv'
    BY <2>1 DEF CalmInv
  <2>3. UNCHANGED MidFrame
    BY <2>1 DEF MidFrame, Length
  <2>4. QED
    BY <2>1, <2>2, <2>3 DEF CalmInv, Reading, TxPcs
<1>23. QED
  BY <1>1, <1>2, <1>3, <1>4, <1>5, <1>6, <1>7, <1>8, <1>9, <1>10, <1>11, <1>12,
     <1>13, <1>14, <1>15, <1>16, <1>17, <1>18, <1>19, <1>20, <1>21, <1>22 DEF Next,
     Task, Calls

------------------------------------------------------------------------------
(* What holds of every behaviour. *)

RtuInv == PlainType /\ DataType /\ LineInv /\ ReadInv /\ VerifiedInv /\ CalmInv /\ ReturnInv

\* A station starts with an empty buffer on a silent line
LEMMA RtuInitially == Init => RtuInv
<1>1. SUFFICES ASSUME Init
               PROVE  RtuInv
  OBVIOUS
<1>2. wire = <<>> /\ Len(wire) = 0 /\ fifo = <<>> /\ buf = <<>> /\ Len(buf) = 0 /\ pos = 0
  BY <1>1 DEF Init
<1>3. /\ MaxPdu \in Nat /\ MaxPdu > 1 /\ MaxFrames \in Nat /\ MaxCalls \in Nat
  BY SizeAssumption, LimitAssumption
<1>4. PlainType
  <2>1. /\ t1p5 \in BOOLEAN /\ uart \in BOOLEAN /\ tmo \in BOOLEAN /\ broadcast \in BOOLEAN
        /\ idread \in BOOLEAN /\ calm \in BOOLEAN
    BY <1>1, Zenon DEF Init
  <2>2. flags = {} /\ got = {} /\ age = 2 /\ pc = "idle" /\ dest = "id" /\ error = 0 /\ calls = 0
    BY <1>1 DEF Init
  <2>3. QED
    BY <1>3, <2>1, <2>2 DEF PlainType
<1>5. DataType
  <2>1. <<>> \in Seq(Sent) /\ <<>> \in Seq(Kinds)
    OBVIOUS
  <2>2. QED
    BY <1>1, <1>2, <1>3, <2>1 DEF Init, DataType, Errors
<1>6. LineInv /\ ReadInv /\ VerifiedInv /\ ReturnInv
  BY <1>1, <1>2, <1>3 DEF Init, LineInv, ReadInv, VerifiedInv, ReturnInv, Returned, MidFrame,
     Reading, ETIMEOUT
<1>7. CalmInv
  BY <1>1, <1>2 DEF Init, CalmInv, MidFrame, Reading, TxPcs
<1>8. QED
  BY <1>4, <1>5, <1>6, <1>7 DEF RtuInv

\* The invariant always holds
LEMMA RtuAlways == Spec => []RtuInv
<1>1. RtuInv /\ [Next]_vars => RtuInv'
  BY PlainStep, DataStep, LineStep, ReadStep, VerifiedStep, CalmStep, ReturnStep DEF RtuInv
<1>2. QED
  BY RtuInitially, <1>1, PTL DEF Spec

\* The state is well typed; in particular the length of a message with its
\* CRC taken off is never negative: mb_rtu_rx subtracts only from the length of
\* a message that was checked.
THEOREM TypeAlwaysOK == Spec => []TypeOK
<1>1. ASSUME RtuInv
      PROVE  TypeOK
  <2>1. PlainType /\ DataType
    BY <1>1 DEF RtuInv
  <2>2. MaxFrames \in Nat /\ Len(wire) \in Nat /\ Len(wire) <= MaxFrames
    BY <2>1, LimitAssumption DEF DataType
  <2>3. 1 .. Len(wire) \subseteq 1 .. MaxFrames /\ 0 .. Len(wire) \subseteq 0 .. MaxFrames
    BY <2>2
  <2>4. Sent \subseteq Bytes
    BY <2>3 DEF Sent, Bytes
  <2>5. fifo \in Seq(Bytes) /\ buf \in Seq(Bytes) /\ slave_rx \in Bytes \cup {Uninit}
    BY <2>1, <2>4, SeqMonotonic DEF DataType
  <2>6. /\ gapped \subseteq 1 .. MaxFrames /\ accepted \subseteq 1 .. MaxFrames
        /\ rushed \subseteq 1 .. MaxFrames /\ begun \subseteq 0 .. MaxFrames
    BY <2>1, <2>2, <2>3 DEF DataType
  <2>7. {t1p5, uart, tmo, broadcast} \subseteq BOOLEAN /\ {idread, calm} \subseteq BOOLEAN
    BY <2>1 DEF PlainType
  <2>8. QED
    BY <2>1, <2>5, <2>6, <2>7 DEF TypeOK, PlainType, DataType, TxPcs
<1>2. QED
  BY <1>1, RtuAlways, PTL

\* However the characters arrive, mb_rtu_rx never stores more of them than the
\* caller's buffer holds, whatever its size.
THEOREM BufferAlwaysBounded == Spec => []BufferBound
<1>1. RtuInv => BufferBound
  BY DEF RtuInv, ReadInv, BufferBound
<1>2. QED
  BY <1>1, RtuAlways, PTL

\* A frame that is accepted was followed by 3.5 characters of silence, and a
\* task that keeps up accepts no frame with a gap inside.
THEOREM AcceptedAlwaysFollowedBySilence == Spec => []AcceptedFollowedBySilence
<1>1. RtuInv => AcceptedFollowedBySilence
  BY DEF RtuInv, ReturnInv, Returned, AcceptedFollowedBySilence
<1>2. QED
  BY <1>1, RtuAlways, PTL

\* A task that keeps up with the line assigns slave_rx before it compares it.
THEOREM IdAlwaysInitialised == Spec => []IdInitialised
<1>1. RtuInv => IdInitialised
  BY DEF RtuInv, CalmInv, IdInitialised
<1>2. QED
  BY <1>1, RtuAlways, PTL
==============================================================================
