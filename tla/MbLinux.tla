------------------------------- MODULE MbLinux -------------------------------
(***************************************************************************)
(* The serial transport mb_rtu.c on the Linux port, in a slave.  What is   *)
(* an interrupt on rt-kernel is a thread here: os_rtu_rx waits for an edge *)
(* of the serial port's epoll event and runs mb_rx_hook, whose four steps  *)
(* interleave with the timers' callbacks and with the task.  mb_tmr_start  *)
(* restarts one timer after the other, and leaves T1P5 running when it is  *)
(* given no callback for it; the transmitter is not waited for.            *)
(*                                                                         *)
(* Bytes are numbers and the checksum is computed: the other stations with *)
(* the polynomial, this one with the tables of mb_crc.c.  The order of     *)
(* events stands for time: T1P5 expires before T3P5, and not inside of a   *)
(* frame unless the reader thread is behind.                               *)
(***************************************************************************)
EXTENDS MbPdu, MbCrc, FiniteSets

CONSTANTS
  Me,         \* transaction->unit
  Kinds,      \* frames others send: [unit, pdu, bad]
  MaxPdu,     \* MAX_PDU_SIZE
  MaxFrames,  \* bound on frames
  MaxLags,    \* bound on events of the line or a timer that find a thread busy
  MaxCalls    \* bound on calls of mb_pdu_rx

VARIABLES
  \* the port: characters received, an edge not yet seen by epoll_wait, the
  \* reader thread, the timers that run, and the event flags
  fifo, edge, hook, timers, flags,
  \* the task
  pc, dest, got, slave_rx, buf, crc, error, ret, calls,
  \* the line: the frames sent, and what is still to come of the last one
  wire, rest,
  \* history: frames accepted; how often the line or a timer moved while a
  \* thread was not at rest, or a frame came too early; the timers that expired
  \* since the hook now running restarted them; an expiry was wiped before its
  \* characters were read
  taken, lags, fresh, wiped

portVars == <<fifo, edge, hook, timers, flags>>
taskVars == <<pc, dest, got, slave_rx, buf, crc, error, ret, calls>>
lineVars == <<wire, rest>>
histVars == <<taken, lags, fresh, wiped>>
vars     == <<portVars, taskVars, lineVars, histVars>>

RX_AVAIL == "rx_avail"
T1P5     == "t1p5"
T3P5     == "t3p5"

ASSUME LinuxAssumption ==
  /\ Me \in 1 .. 247 /\ MaxPdu \in Nat \ {0, 1}
  /\ \A k \in Kinds : /\ k.unit \in Byte /\ k.bad \in BOOLEAN
                       /\ k.pdu \in Seq(Byte) /\ Len(k.pdu) + 2 <= MaxPdu
  /\ {MaxFrames, MaxLags, MaxCalls} \subseteq Nat

\* The checksum of a message as it arrives, perhaps damaged on the way
Checksum(message, bad) ==
  LET sum == CrcBytes(Remainder(message, 65535))
  IN  IF bad THEN <<sum[1], (sum[2] + 1) % 256>> ELSE sum

\* A frame as another station sends it
Sent == [k \in Kinds |->
  (<<k.unit>> \o k.pdu) \o Checksum(<<k.unit>> \o k.pdu, k.bad)]

MidFrame == rest # <<>>

Mask == CASE pc \in {"first", "body"} -> {T1P5, RX_AVAIL}
          [] pc = "tail"              -> {T3P5, RX_AVAIL}
          [] pc = "silence"           -> {T3P5}
          [] OTHER                    -> {}

ReaderAtRest == hook = "wait" /\ ~edge
TaskAtRest   == pc = "idle" \/ (Mask # {} /\ Mask \cap flags = {})

\* With the buffer full, the task loops on the characters that are left
Spinning == pc \in {"body", "tail", "read", "take"} /\ Len(buf) = MaxPdu /\ fifo # <<>>

\* The line or a timer moves on, calmly or while a thread is busy
Lag(calm) ==
  /\ calm \/ lags < MaxLags
  /\ lags' = IF calm THEN lags ELSE lags + 1

Init ==
  /\ fifo = <<>> /\ edge = FALSE /\ hook = "wait" /\ timers = {} /\ flags = {}
  /\ pc = "idle" /\ dest = "id" /\ got = {} /\ slave_rx = 0 /\ buf = <<>>
  /\ crc = 0 /\ error = 0 /\ ret = ETIMEOUT /\ calls = 0
  /\ wire = <<>> /\ rest = <<>>
  /\ taken = 0 /\ lags = 0 /\ fresh = {} /\ wiped = FALSE

------------------------------------------------------------------------------
(* The reader thread os_rtu_rx, and mb_rx_hook in it. *)

\* epoll_wait returns; edges that came while the hook ran are one
HookEnter ==
  /\ hook = "wait" /\ edge
  /\ edge' = FALSE
  /\ hook' = "start1p5"
  /\ UNCHANGED <<fifo, timers, flags, taskVars, lineVars, histVars>>

\* mb_tmr_start: os_timer_start, one after the other
HookStart1p5 ==
  /\ hook = "start1p5"
  /\ timers' = timers \cup {T1P5}
  /\ fresh' = fresh \ {T1P5}
  /\ hook' = "start3p5"
  /\ UNCHANGED <<fifo, edge, flags, taskVars, lineVars, taken, lags, wiped>>

HookStart3p5 ==
  /\ hook = "start3p5"
  /\ timers' = timers \cup {T3P5}
  /\ fresh' = fresh \ {T3P5}
  /\ hook' = "clear"
  /\ UNCHANGED <<fifo, edge, flags, taskVars, lineVars, taken, lags, wiped>>

HookClear ==
  /\ hook = "clear"
  /\ flags' = flags \ {T1P5, T3P5}
  /\ wiped' = (wiped \/ fresh \cap flags # {})
  /\ fresh' = {}
  /\ hook' = "set"
  /\ UNCHANGED <<fifo, edge, timers, taskVars, lineVars, taken, lags>>

HookSet ==
  /\ hook = "set"
  /\ flags' = flags \cup {RX_AVAIL}
  /\ hook' = "wait" /\ fresh' = {}
  /\ UNCHANGED <<fifo, edge, timers, taskVars, lineVars, taken, lags, wiped>>

Reader == HookEnter \/ HookStart1p5 \/ HookStart3p5 \/ HookClear \/ HookSet

------------------------------------------------------------------------------
(* The timers' callbacks, tmr1p5_expired and tmr3p5_expired. *)

Expire(timer) ==
  /\ timer \in timers
  /\ timer = T3P5 /\ T1P5 \in timers => hook = "start3p5"
  /\ MidFrame => ~ReaderAtRest
  /\ timers' = timers \ {timer}
  /\ flags' = flags \cup {timer}
  /\ fresh' = IF hook = "wait" THEN fresh ELSE fresh \cup {timer}
  /\ Lag(ReaderAtRest /\ (TaskAtRest \/ Spinning))
  /\ UNCHANGED <<fifo, edge, hook, taskVars, lineVars, taken, wiped>>

------------------------------------------------------------------------------
(* mb_rtu_rx, with a timeout, as the slave calls it. *)

StartRx ==
  /\ pc = "idle" /\ calls < MaxCalls
  /\ calls' = calls + 1
  /\ pc' = "first"
  /\ UNCHANGED <<portVars, dest, got, slave_rx, buf, crc, error, ret, lineVars, histVars>>

Wait(next, destination) ==
  /\ Mask \cap flags # {}
  /\ got' = Mask \cap flags
  /\ dest' = destination
  /\ pc' = IF pc = "first" \/ RX_AVAIL \in flags THEN "read" ELSE next

FirstWait ==
  /\ pc = "first"
  /\ Wait("read", "id")
  /\ UNCHANGED <<portVars, slave_rx, buf, crc, error, ret, calls, lineVars, histVars>>

FirstTimeout ==
  /\ pc = "first" /\ Mask \cap flags = {} /\ ReaderAtRest /\ timers = {}
  /\ pc' = "idle"
  /\ UNCHANGED <<portVars, dest, got, slave_rx, buf, crc, error, ret, calls, lineVars, histVars>>

BodyWait ==
  /\ pc = "body"
  /\ Wait("verify", "body")
  /\ UNCHANGED <<portVars, slave_rx, buf, crc, error, ret, calls, lineVars, histVars>>

TailWait ==
  /\ pc = "tail"
  /\ Wait("clear", "extra")
  /\ error' = IF RX_AVAIL \in flags THEN EFRAME_NOK ELSE error
  /\ UNCHANGED <<portVars, slave_rx, buf, crc, ret, calls, lineVars, histVars>>

\* mb_rtu_read clears RX_AVAIL
ReadClear ==
  /\ pc = "read"
  /\ flags' = flags \ {RX_AVAIL}
  /\ pc' = "take"
  /\ UNCHANGED <<fifo, edge, hook, timers, dest, got, slave_rx, buf, crc, error, ret, calls,
                 lineVars, histVars>>

\* FIONREAD
os_rtu_rx_avail == Len(fifo)

Least(a, b) == IF a < b THEN a ELSE b

Room == IF dest = "id" THEN 1 ELSE MaxPdu - Len(buf)

\* Mutant of ReadTake: RX_AVAIL is not raised again for what is left
ReadTakeOnce ==
  /\ pc = "take"
  /\ LET n == Least(os_rtu_rx_avail, Room) IN
       /\ flags' = flags
       /\ fifo' = SubSeq(fifo, n + 1, Len(fifo))
       /\ slave_rx' \in IF dest # "id" THEN {slave_rx}
                        ELSE IF n > 0 THEN {fifo[1]} ELSE {0, Me, 255}
       /\ buf' = IF dest = "body" THEN buf \o SubSeq(fifo, 1, n) ELSE buf
  /\ pc' = CASE dest = "id"   -> "body"
             [] dest = "body" -> IF T1P5 \in got THEN "verify" ELSE "body"
             [] OTHER         -> IF T3P5 \in got THEN "clear" ELSE "tail"
  /\ got' = {}
  /\ UNCHANGED <<edge, hook, timers, dest, crc, error, ret, calls, lineVars, histVars>>

\* and reads what there is, as far as there is room.  slave_rx keeps what the
\* stack held when there was nothing.
ReadTake ==
  /\ pc = "take"
  /\ LET n == Least(os_rtu_rx_avail, Room) IN
       /\ flags' = IF os_rtu_rx_avail > Room THEN flags \cup {RX_AVAIL} ELSE flags
       /\ fifo' = SubSeq(fifo, n + 1, Len(fifo))
       /\ slave_rx' \in IF dest # "id" THEN {slave_rx}
                        ELSE IF n > 0 THEN {fifo[1]} ELSE {0, Me, 255}
       /\ buf' = IF dest = "body" THEN buf \o SubSeq(fifo, 1, n) ELSE buf
  /\ pc' = CASE dest = "id"   -> "body"
             [] dest = "body" -> IF T1P5 \in got THEN "verify" ELSE "body"
             [] OTHER         -> IF T3P5 \in got THEN "clear" ELSE "tail"
  /\ got' = {}
  /\ UNCHANGED <<edge, hook, timers, dest, crc, error, ret, calls, lineVars, histVars>>

\* Mutant of Verify: a wrong checksum does not count against the frame
VerifyIdOnly ==
  /\ pc = "verify"
  /\ crc' = mb_crc(buf, mb_crc(<<slave_rx>>, 65535))
  /\ error' = IF slave_rx \notin {Me, 0} THEN ESLAVE_ID ELSE 0
  /\ pc' = "tail"
  /\ UNCHANGED <<portVars, dest, got, slave_rx, buf, ret, calls, lineVars, histVars>>

\* The checksum goes on from the one of the station id
Verify ==
  /\ pc = "verify"
  /\ crc' = mb_crc(buf, mb_crc(<<slave_rx>>, 65535))
  /\ error' = IF slave_rx \notin {Me, 0} THEN ESLAVE_ID ELSE IF crc' # 0 THEN ECRC_FAIL ELSE 0
  /\ pc' = "tail"
  /\ UNCHANGED <<portVars, dest, got, slave_rx, buf, ret, calls, lineVars, histVars>>

Clear ==
  /\ pc = "clear"
  /\ flags' = flags \ {T1P5, T3P5, RX_AVAIL}
  /\ ret' = IF error # 0 THEN error ELSE Len(buf) - 2
  /\ taken' = IF error = 0 THEN taken + 1 ELSE taken
  /\ wiped' = (wiped \/ fresh \cap flags # {})
  /\ pc' = "returned"
  /\ UNCHANGED <<fifo, edge, hook, timers, dest, got, slave_rx, buf, crc, error, calls,
                 lineVars, lags, fresh>>

\* The variables of a call end with it
NoLocals ==
  /\ dest' = "id" /\ got' = {} /\ slave_rx' = 0 /\ buf' = <<>>
  /\ crc' = 0 /\ error' = 0 /\ ret' = ETIMEOUT

\* mb_rtu_rx returns: the slave goes on to receive, or answers
Return ==
  /\ pc = "returned"
  /\ pc' = "idle"
  /\ NoLocals
  /\ UNCHANGED <<portVars, calls, lineVars, histVars>>

------------------------------------------------------------------------------
(* mb_rtu_tx *)

\* The answer, here the request's PDU again, is written: id, PDU and checksum.
\* rx_avail was false, but more may have come since.
Tx ==
  /\ pc = "returned" /\ ret > 0 /\ slave_rx = Me /\ os_rtu_rx_avail = 0
  /\ crc' = mb_crc(SubSeq(buf, 1, ret), mb_crc(<<Me>>, 65535))
  /\ pc' = "drain"
  /\ UNCHANGED <<portVars, dest, got, slave_rx, buf, error, ret, calls, lineVars, histVars>>

\* os_rtu_tx_drain sleeps for one character; the state is cleared
TxDrain ==
  /\ pc = "drain"
  /\ flags' = flags \ {T1P5, T3P5}
  /\ wiped' = (wiped \/ T1P5 \in flags)
  /\ pc' = "timer"
  /\ UNCHANGED <<fifo, edge, hook, timers, dest, got, slave_rx, buf, crc, error, ret, calls,
                 lineVars, taken, lags, fresh>>

\* Mutant of TxTimer: no timer is started
TxTimerOff ==
  /\ pc = "timer"
  /\ pc' = "silence"
  /\ UNCHANGED <<portVars, dest, got, slave_rx, buf, crc, error, ret, calls, lineVars, histVars>>

\* tmr_start (NULL, mb_t3p5_expired): T1P5 goes on if it runs
TxTimer ==
  /\ pc = "timer"
  /\ timers' = timers \cup {T3P5}
  /\ pc' = "silence"
  /\ UNCHANGED <<fifo, edge, hook, flags, dest, got, slave_rx, buf, crc, error, ret, calls,
                 lineVars, histVars>>

TxWait ==
  /\ pc = "silence" /\ Mask \cap flags # {}
  /\ pc' = "idle"
  /\ NoLocals
  /\ UNCHANGED <<portVars, calls, lineVars, histVars>>

Task == \/ FirstWait \/ FirstTimeout \/ BodyWait \/ TailWait \/ ReadClear \/ ReadTake
        \/ Verify \/ Clear \/ Return \/ Tx \/ TxDrain \/ TxTimer \/ TxWait

------------------------------------------------------------------------------
(* External: the other stations. *)

\* Some characters of a frame arrive at once
Arrive(bytes) ==
  /\ \E n \in 1 .. Len(bytes) : /\ fifo' = fifo \o SubSeq(bytes, 1, n)
                               /\ rest' = SubSeq(bytes, n + 1, Len(bytes))
  /\ edge' = TRUE
  /\ UNCHANGED <<hook, timers, flags, taskVars, taken, fresh, wiped>>

\* A frame begins: after a silence, and when the slave listens, if all is calm
Begin ==
  /\ ~MidFrame
  /\ Lag(/\ ReaderAtRest /\ TaskAtRest /\ timers = {}
         /\ \/ pc = "first"
            \/ pc = "idle" /\ flags = {})
  /\ Len(wire) < MaxFrames
  /\ \E k \in Kinds : wire' = Append(wire, k) /\ Arrive(Sent[k])

Continue ==
  /\ MidFrame
  /\ Lag(ReaderAtRest /\ (TaskAtRest \/ Spinning))
  /\ Arrive(rest)
  /\ UNCHANGED wire

Next ==
  \/ Reader \/ Task \/ StartRx \/ Begin \/ Continue
  \/ \E timer \in {T1P5, T3P5} : Expire(timer)

Spec == Init /\ [][Next]_vars

\* The threads run, a timer that runs expires, and a frame that has begun is
\* sent to its end; no frame need ever begin.
FairSpec ==
  /\ Spec
  /\ WF_vars(Reader) /\ WF_vars(Task) /\ WF_vars(Continue)
  /\ WF_vars(\E timer \in {T1P5, T3P5} : Expire(timer))

------------------------------------------------------------------------------
(* Properties. *)

\* The frames for this station that were sent whole and undamaged
ForMe == {f \in 1 .. Len(wire) : /\ wire[f].unit \in {Me, 0} /\ ~wire[f].bad
                                 /\ f < Len(wire) \/ ~MidFrame}

\* What mb_rtu_rx returns is a message some station sent to this one, whole and
\* undamaged, and no message is returned twice: however far the threads fall
\* behind, and whatever pieces of messages the FIFO then holds.  The checksum
\* cannot tell one thing: a zero byte after a good message leaves the remainder
\* zero, so the station id of a broadcast may be taken for its last byte.  That
\* takes a task that is still busy when the broadcast begins.
AcceptedWasSent ==
  /\ taken <= Cardinality(ForMe)
  /\ pc = "returned" /\ ret >= 0 =>
       \E f \in ForMe :
         LET body == Tail(Sent[wire[f]]) IN
           /\ wire[f].unit = slave_rx
           /\ Len(body) <= Len(buf) /\ SubSeq(buf, 1, Len(body)) = body
           /\ \A i \in Len(body) + 1 .. Len(buf) : buf[i] = 0
           /\ lags = 0 => Len(buf) = Len(body)

\* While all threads keep up with the line, no frame is lost: when the line is
\* quiet and the slave waits, it has had every one.
NothingLost ==
  lags = 0 /\ ~MidFrame /\ ReaderAtRest /\ timers = {} /\ pc = "first" /\ TaskAtRest =>
    taken = Cardinality(ForMe) /\ fifo = <<>>

\* Of the frames that others send, the checksum is zero over the undamaged ones
ChecksumsTell ==
  \A k \in Kinds : mb_crc(Tail(Sent[k]), mb_crc(<<k.unit>>, 65535)) = 0 <=> ~k.bad

\* The table-driven checksum is the remainder the Modbus polynomial leaves, in
\* all entries of the tables, over a message received in two parts, and over
\* the one sent, where it makes the whole remainder zero; so it tells damaged
\* frames from others.
CrcIsRemainder ==
  /\ TablesRight /\ ChecksumsTell
  /\ pc = "tail" => crc = Remainder(<<slave_rx>> \o buf, 65535)
  /\ pc = "drain" => Remainder(<<Me>> \o SubSeq(buf, 1, ret) \o CrcBytes(crc), 65535) = 0

\* Every call returns, unless an expiry was cleared before the characters it
\* stands for were read.  mb_rx_hook does so when a timer it has just restarted
\* expires before it clears the flags; mb_rtu_rx, when that happens between the
\* hook's restart and its RX_AVAIL while the call clears up; mb_rtu_tx, when
\* characters came in and fell silent before it clears T1P5.
CallsReturn == pc # "idle" ~> (pc = "idle" \/ wiped)
==============================================================================
