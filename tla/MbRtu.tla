-------------------------------- MODULE MbRtu --------------------------------
(***************************************************************************)
(* The serial transport mb_rtu.c on the rt-kernel port: the task inside    *)
(* mb_rtu_rx or mb_rtu_tx, the receive and transmit interrupts (mb_rx_hook,*)
(* mb_tx_hook) and the timers T1P5 and T3P5, which meet in the event flags *)
(* and in the driver's receive FIFO.                                       *)
(*                                                                         *)
(* Time is the silence on the line since its last activity, as far as the  *)
(* timers tell it apart: age 0 is under 1.5 characters, 1 is under 3.5, 2  *)
(* is longer.  A byte is <<f, i>>, the i-th of the f-th frame the other    *)
(* stations send; byte 1 is the station id and the last two are the CRC,   *)
(* so a PDU of n bytes is a frame of n + 3.  The CRC is ideal: it is zero  *)
(* exactly over the bytes of one frame that was not damaged.               *)
(***************************************************************************)
EXTENDS MbPdu, FiniteSets

CONSTANTS
  Role,       \* "slave": receive, then maybe answer; "master": send, then receive
  MaxPdu,     \* MAX_PDU_SIZE, the size of the caller's buffer
  Kinds,      \* the frames others send: [size, unit, bad], unit "me", "other" or "all"
  MaxFrames,  \* bound on frames they send
  MaxRough,   \* the same once the task lags or is taken by surprise,
  RoughKinds, \* unless all frames are of these kinds
  MaxCalls,   \* bound on calls of mb_pdu_tx
  Overlap,    \* whether frames may begin when this station does not expect one
  Gaps        \* whether silences of 1.5 to 3.5 characters occur

VARIABLES
  \* driver and transport
  flags, fifo, age, t1p5, uart,
  \* the task
  pc, dest, got, navail, tmo, slave_rx, buf, error, broadcast, ret, calls,
  \* the line: the frames sent so far, and how far the last one is
  wire, pos,
  \* history: frames that began during this call of rx (0 stands for anything
  \* older), whether its id came from the FIFO, frames with a gap inside or
  \* another too close behind, frames returned
  begun, idread, gapped, rushed, accepted,
  \* history: so far the task always reached its next wait before the line
  \* moved, and every frame began when it was expected
  calm

driverVars == <<flags, fifo, age, t1p5, uart>>
bufVars    == <<slave_rx, buf, error, broadcast>>
taskVars   == <<pc, dest, got, navail, tmo, bufVars, ret, calls>>
lineVars   == <<wire, pos>>
histVars   == <<begun, idread, gapped, rushed, accepted, calm>>
vars       == <<driverVars, taskVars, lineVars, histVars>>

ASSUME RoleAssumption  == Role \in {"slave", "master"}
ASSUME SizeAssumption  == MaxPdu \in Nat \ {0, 1}
ASSUME KindAssumption  == Kinds \subseteq [size : 0 .. MaxPdu, unit : {"me", "other", "all"}, bad : BOOLEAN]
ASSUME LimitAssumption == {MaxFrames, MaxRough, MaxCalls} \subseteq Nat /\ MaxRough <= MaxFrames /\ RoughKinds \subseteq Kinds
ASSUME ModeAssumption  == {Overlap, Gaps} \subseteq BOOLEAN

TX_EMPTY == "tx_empty"
RX_AVAIL == "rx_avail"
T1P5     == "t1p5"
T3P5     == "t3p5"

Length(f)  == wire[f].size + 3
MidFrame   == wire # <<>> /\ pos < Length(Len(wire))
Uninit     == <<0, 0>>

TxPcs == {"send", "write", "drain", "disable", "silence"}
RxPcs == {"first", "clr", "avail", "take", "body", "verify", "tail", "clear", "ret"}

\* The mask a waiting task waits for
Mask == CASE pc \in {"first", "body"} -> {T1P5, RX_AVAIL}
          [] pc = "tail"              -> {T3P5, RX_AVAIL}
          [] pc = "drain"             -> {TX_EMPTY}
          [] pc = "silence"           -> {T3P5}
          [] OTHER                    -> {}

\* A read loop that finds characters but has no room for them goes round
Spinning == pc \in {"body", "tail"} /\ Mask \cap flags = {RX_AVAIL} /\ Len(buf) = MaxPdu

\* The task has nothing to do before the next event
Blocked == \/ pc = "idle"
           \/ Mask # {} /\ Mask \cap flags = {}
           \/ pc = "drain" /\ uart
           \/ Spinning

Init ==
  /\ flags = {} /\ fifo = <<>> /\ age = 2 /\ t1p5 = FALSE /\ uart = FALSE
  /\ pc = "idle" /\ dest = "id" /\ got = {} /\ navail = 0 /\ tmo = FALSE
  /\ slave_rx = Uninit /\ buf = <<>> /\ error = 0 /\ broadcast = FALSE /\ ret = ETIMEOUT /\ calls = 0
  /\ wire = <<>> /\ pos = 0
  /\ begun = {} /\ idread = FALSE /\ gapped = {} /\ rushed = {} /\ accepted = {} /\ calm = TRUE

------------------------------------------------------------------------------
(* mb_rtu_rx *)

\* The caller: a slave receives with a timeout, and without one when it
\* discards a request it found waiting; a master receives once it has sent.
StartRx(t) ==
  /\ pc = "idle"
  /\ CASE Role = "slave"  -> t \/ (ret > 0 /\ fifo # <<>>)
       [] Role = "master" -> t /\ calls > 0
  /\ tmo' = t
  /\ slave_rx' = Uninit /\ buf' = <<>> /\ error' = 0
  /\ begun' = (IF fifo = <<>> /\ ~MidFrame THEN {} ELSE {0}) /\ idread' = FALSE
  /\ pc' = "first"
  /\ UNCHANGED <<driverVars, dest, got, navail, broadcast, ret, calls, lineVars,
                 gapped, rushed, accepted, calm>>

\* Wait for first character: a flag is up
FirstWait ==
  /\ pc = "first"
  /\ Mask \cap flags # {}
  /\ dest' = "id"
  /\ pc' = "clr"
  /\ UNCHANGED <<driverVars, got, navail, tmo, bufVars, ret, calls, lineVars, histVars>>

\* Wait for first character: no flag came up in time
FirstTimeout ==
  /\ pc = "first" /\ tmo
  /\ Mask \cap flags = {}
  /\ ret' = ETIMEOUT
  /\ pc' = "ret"
  /\ UNCHANGED <<driverVars, dest, got, navail, tmo, bufVars, calls, lineVars, histVars>>

\* mb_rtu_read: clear the flag, ask how much there is, read that much
ReadClr ==
  /\ pc = "clr"
  /\ flags' = flags \ {RX_AVAIL}
  /\ pc' = "avail"
  /\ UNCHANGED <<fifo, age, t1p5, uart, dest, got, navail, tmo, bufVars, ret, calls,
                 lineVars, histVars>>

\* Mutant of ReadSize: the buffer's size, whatever it holds already
ReadSizeWhole == IF dest = "id" THEN 1 ELSE MaxPdu

ReadSize == IF dest = "id" THEN 1 ELSE MaxPdu - Len(buf)

\* Mutant of ReadAvail: the flag is not put back when data remains
ReadAvailOnce ==
  /\ pc = "avail"
  /\ navail' = IF Len(fifo) > ReadSize THEN ReadSize ELSE Len(fifo)
  /\ pc' = "take"
  /\ UNCHANGED <<driverVars, dest, got, tmo, bufVars, ret, calls, lineVars, histVars>>

ReadAvail ==
  /\ pc = "avail"
  /\ IF Len(fifo) > ReadSize
     THEN navail' = ReadSize /\ flags' = flags \cup {RX_AVAIL}
     ELSE navail' = Len(fifo) /\ UNCHANGED flags
  /\ pc' = "take"
  /\ UNCHANGED <<fifo, age, t1p5, uart, dest, got, tmo, bufVars, ret, calls, lineVars, histVars>>

\* What an unassigned slave_rx may hold: the id of some frame or another byte
AnyId == {<<f, 1>> : f \in 1 .. Len(wire)} \cup {Uninit}

\* The characters go to the id, to the end of the message, or nowhere; then
\* the loop around the read tests the flags its wait returned.  The driver's
\* calls are taken to succeed: their -1 would become a huge size_t.
ReadTake ==
  /\ pc = "take"
  /\ fifo' = SubSeq(fifo, navail + 1, Len(fifo))
  /\ slave_rx' \in IF dest # "id" THEN {slave_rx}
                  ELSE IF navail > 0 THEN {Head(fifo)}
                  ELSE AnyId
  /\ buf' = IF dest = "body" THEN buf \o SubSeq(fifo, 1, navail) ELSE buf
  /\ pc' = CASE dest = "id"   -> "body"
             [] dest = "body" -> IF T1P5 \in got THEN "verify" ELSE "body"
             [] OTHER         -> IF T3P5 \in got THEN "clear" ELSE "tail"
  /\ idread' = IF dest = "id" THEN navail > 0 ELSE idread
  /\ UNCHANGED <<flags, age, t1p5, uart, dest, got, navail, tmo, error, broadcast, ret, calls,
                 lineVars, begun, gapped, rushed, accepted, calm>>

\* Get remainder of message (until T1P5 expires)
BodyWait ==
  /\ pc = "body"
  /\ Mask \cap flags # {}
  /\ got' = flags
  /\ dest' = "body"
  /\ pc' = IF RX_AVAIL \in flags THEN "clr" ELSE "verify"
  /\ UNCHANGED <<driverVars, navail, tmo, bufVars, ret, calls, lineVars, histVars>>

\* The frame that is exactly the bytes received, or 0
FrameIn(bytes) ==
  LET f == bytes[1][1]
  IN  IF f > 0 /\ Len(bytes) = Length(f) /\ \A i \in 1 .. Len(bytes) : bytes[i] = <<f, i>>
      THEN f ELSE 0

CrcOk == LET f == FrameIn(<<slave_rx>> \o buf) IN f > 0 /\ ~wire[f].bad

\* The station a received id names.  Damage is caught by the CRC, and so is a
\* byte from inside a frame, whatever it may be.
Unit == IF slave_rx # Uninit /\ slave_rx[2] = 1 THEN wire[slave_rx[1]].unit ELSE "other"

\* Verify message, match station id, set broadcast flag
Verify ==
  /\ pc = "verify"
  /\ error' = IF Unit = "other" THEN ESLAVE_ID ELSE IF ~CrcOk THEN ECRC_FAIL ELSE 0
  /\ broadcast' = (Unit = "all")
  /\ pc' = "tail"
  /\ UNCHANGED <<driverVars, dest, got, navail, tmo, slave_rx, buf, ret, calls, lineVars, histVars>>

\* Mutant of TailWait: characters after the message are left unnoticed
TailWaitSilent ==
  /\ pc = "tail"
  /\ T3P5 \in flags
  /\ pc' = "clear"
  /\ UNCHANGED <<driverVars, dest, got, navail, tmo, bufVars, ret, calls, lineVars, histVars>>

\* Mutant of TailWait: the wait takes the flag with it
TailWaitClears ==
  /\ pc = "tail"
  /\ Mask \cap flags # {}
  /\ got' = flags
  /\ dest' = "extra"
  /\ error' = IF RX_AVAIL \in flags THEN EFRAME_NOK ELSE error
  /\ pc' = IF RX_AVAIL \in flags THEN "clr" ELSE "tail"
  /\ flags' = flags \ {T3P5}
  /\ UNCHANGED <<fifo, age, t1p5, uart, navail, tmo, slave_rx, buf, broadcast, ret, calls,
                 lineVars, histVars>>

\* Mutant of TailWait: extra characters are an error but are not read
TailWaitUnread ==
  /\ pc = "tail"
  /\ Mask \cap flags # {}
  /\ error' = IF RX_AVAIL \in flags THEN EFRAME_NOK ELSE error
  /\ flags' = flags \ {RX_AVAIL}
  /\ pc' = IF T3P5 \in flags THEN "clear" ELSE "tail"
  /\ UNCHANGED <<fifo, age, t1p5, uart, dest, got, navail, tmo, slave_rx, buf, broadcast,
                 ret, calls, lineVars, histVars>>

\* Wait for end of frame (until T3P5 expires)
TailWait ==
  /\ pc = "tail"
  /\ Mask \cap flags # {}
  /\ got' = flags
  /\ dest' = "extra"
  /\ error' = IF RX_AVAIL \in flags THEN EFRAME_NOK ELSE error
  /\ pc' = IF RX_AVAIL \in flags THEN "clr" ELSE "clear"
  /\ UNCHANGED <<driverVars, navail, tmo, slave_rx, buf, broadcast, ret, calls, lineVars, histVars>>

\* Mutant of Clear: T1P5 is left up
ClearPartly ==
  /\ pc = "clear"
  /\ flags' = flags \ {T3P5, RX_AVAIL}
  /\ ret' = IF error # 0 THEN error ELSE Len(buf) - 2
  /\ accepted' = IF error = 0 THEN accepted \cup {slave_rx[1]} ELSE accepted
  /\ pc' = "ret"
  /\ UNCHANGED <<fifo, age, t1p5, uart, dest, got, navail, tmo, bufVars, calls, lineVars,
                 begun, idread, gapped, rushed, calm>>

\* Mutant of Clear: the length is returned whatever was found
ClearUnchecked ==
  /\ pc = "clear"
  /\ flags' = flags \ {T1P5, T3P5, RX_AVAIL}
  /\ ret' = Len(buf) - 2
  /\ accepted' = accepted
  /\ pc' = "ret"
  /\ UNCHANGED <<fifo, age, t1p5, uart, dest, got, navail, tmo, bufVars, calls, lineVars,
                 begun, idread, gapped, rushed, calm>>

Clear ==
  /\ pc = "clear"
  /\ flags' = flags \ {T1P5, T3P5, RX_AVAIL}
  /\ ret' = IF error # 0 THEN error ELSE Len(buf) - 2
  /\ accepted' = IF error = 0 THEN accepted \cup {slave_rx[1]} ELSE accepted
  /\ pc' = "ret"
  /\ UNCHANGED <<fifo, age, t1p5, uart, dest, got, navail, tmo, bufVars, calls, lineVars,
                 begun, idread, gapped, rushed, calm>>

Return ==
  /\ pc = "ret"
  /\ pc' = "idle"
  /\ UNCHANGED <<driverVars, dest, got, navail, tmo, bufVars, ret, calls, lineVars, histVars>>

------------------------------------------------------------------------------
(* mb_rtu_tx *)

\* The caller: a slave answers what it received, if it was not for all and
\* nothing else came in; a master sends.  The address is written.
StartTx ==
  /\ pc = "idle" /\ calls < MaxCalls
  /\ Role = "slave" => ret > 0 /\ ~broadcast /\ fifo = <<>>
  /\ uart' = TRUE
  /\ calls' = calls + 1
  /\ pc' = "send"
  /\ UNCHANGED <<flags, fifo, age, t1p5, dest, got, navail, tmo, bufVars, ret, lineVars, histVars>>

\* os_event_clr (TX_EMPTY)
TxClrEmpty ==
  /\ pc = "send"
  /\ flags' = flags \ {TX_EMPTY}
  /\ pc' = "write"
  /\ UNCHANGED <<fifo, age, t1p5, uart, dest, got, navail, tmo, bufVars, ret, calls, lineVars, histVars>>

\* PDU and CRC are written
TxWrite ==
  /\ pc = "write"
  /\ uart' = TRUE
  /\ pc' = "drain"
  /\ UNCHANGED <<flags, fifo, age, t1p5, dest, got, navail, tmo, bufVars, ret, calls, lineVars, histVars>>

\* Mutant of TxDrained: T1P5 and T3P5 stay up
TxDrainedKeep ==
  /\ pc = "drain"
  /\ Mask \cap flags # {} /\ ~uart
  /\ pc' = "disable"
  /\ UNCHANGED <<driverVars, dest, got, navail, tmo, bufVars, ret, calls, lineVars, histVars>>

\* TX_EMPTY is up and os_rtu_tx_drain has seen the transmitter empty; the
\* state is cleared for reception
TxDrained ==
  /\ pc = "drain"
  /\ Mask \cap flags # {} /\ ~uart
  /\ flags' = flags \ {T1P5, T3P5}
  /\ pc' = "disable"
  /\ UNCHANGED <<fifo, age, t1p5, uart, dest, got, navail, tmo, bufVars, ret, calls, lineVars, histVars>>

\* tx_enable (0) and tmr_start (NULL, mb_t3p5_expired): T1P5 is stopped
TxTimer ==
  /\ pc = "disable"
  /\ age' = 0 /\ t1p5' = FALSE
  /\ pc' = "silence"
  /\ UNCHANGED <<flags, fifo, uart, dest, got, navail, tmo, bufVars, ret, calls, lineVars, histVars>>

TxSilence ==
  /\ pc = "silence"
  /\ Mask \cap flags # {}
  /\ pc' = "idle"
  /\ UNCHANGED <<driverVars, dest, got, navail, tmo, bufVars, ret, calls, lineVars, histVars>>

Task == \/ FirstWait \/ FirstTimeout \/ ReadClr \/ ReadAvail \/ ReadTake \/ BodyWait
        \/ Verify \/ TailWait \/ Clear \/ Return
        \/ TxClrEmpty \/ TxWrite \/ TxDrained \/ TxTimer \/ TxSilence

Calls == StartTx \/ \E t \in BOOLEAN : StartRx(t)

------------------------------------------------------------------------------
(* Interrupts and the line. *)

\* The transmitter runs empty: mb_tx_hook
mb_tx_hook ==
  /\ uart
  /\ uart' = FALSE
  /\ flags' = flags \cup {TX_EMPTY}
  /\ UNCHANGED <<fifo, age, t1p5, taskVars, lineVars, histVars>>

\* A character is received: mb_rx_hook restarts both timers
mb_rx_hook(byte) ==
  /\ fifo' = Append(fifo, byte)
  /\ age' = 0 /\ t1p5' = TRUE
  /\ flags' = (flags \ {T1P5, T3P5}) \cup {RX_AVAIL}
  /\ UNCHANGED <<uart, taskVars>>

\* A frame is waited for, or comes too close behind another
Expected == pc = "first" \/ (pc \in RxPcs \ {"ret"} /\ age < 2)

\* A frame may be the answer to a request that has gone out, maybe some time
\* ago.  A slave may be sent one at any time.
Requested == Role = "slave" \/ calls > (IF pc \in TxPcs THEN 1 ELSE 0)

\* External: the first character of a frame, after a silence of 3.5
\* characters or, with Gaps, too early
BeginFrame ==
  /\ calm' = (calm /\ Blocked /\ Expected)
  /\ Len(wire) < MaxFrames /\ ~MidFrame
  /\ age = 2 \/ (Gaps /\ age = 1)
  /\ Expected \/ (Overlap /\ Requested)
  /\ \E k \in Kinds :
       /\ wire' = Append(wire, k)
       /\ calm' \/ Len(wire) < MaxRough \/ {wire'[f] : f \in DOMAIN wire'} \subseteq RoughKinds
  /\ pos' = 1
  /\ mb_rx_hook(<<Len(wire) + 1, 1>>)
  /\ begun' = IF pc \in RxPcs THEN begun \cup {Len(wire) + 1} ELSE begun
  /\ rushed' = IF age < 2 /\ t1p5 THEN rushed \cup {Len(wire)} ELSE rushed
  /\ UNCHANGED <<idread, gapped, accepted>>

\* External: the next character of the frame
NextChar ==
  /\ MidFrame
  /\ calm' = (calm /\ Blocked)
  /\ pos' = pos + 1
  /\ mb_rx_hook(<<Len(wire), pos + 1>>)
  /\ gapped' = IF age > 0 THEN gapped \cup {Len(wire)} ELSE gapped
  /\ UNCHANGED <<wire, begun, idread, rushed, accepted>>

\* The line stays silent, and a timer that runs out sets its flag
Silence ==
  /\ age < (IF MidFrame THEN (IF Gaps THEN 1 ELSE 0) ELSE 2)
  /\ age' = age + 1
  /\ flags' = CASE age = 0 /\ t1p5 -> flags \cup {T1P5}
                [] age = 1         -> flags \cup {T3P5}
                [] OTHER           -> flags
  /\ calm' = (calm /\ Blocked)
  /\ UNCHANGED <<fifo, t1p5, uart, taskVars, lineVars, begun, idread, gapped, rushed, accepted>>

Next == Task \/ Calls \/ mb_tx_hook \/ BeginFrame \/ NextChar \/ Silence

Spec == Init /\ [][Next]_vars

\* The task runs, a started frame is finished, the transmitter empties and
\* time passes.  Nobody has to begin a frame or to call.
FairSpec == Spec /\ WF_vars(Task) /\ WF_vars(mb_tx_hook) /\ WF_vars(NextChar) /\ WF_vars(Silence)
------------------------------------------------------------------------------
(* What the transport promises. *)

Flags  == {TX_EMPTY, RX_AVAIL, T1P5, T3P5}
Bytes  == (1 .. MaxFrames) \X (1 .. MaxPdu + 3)
Errors == {ETIMEOUT, ECRC_FAIL, ESLAVE_ID, EFRAME_NOK}

\* The state is well typed; in particular a result is an error or the length
\* of a message with its CRC taken off, which may be 0 but is never negative
\* (mb_rtu_rx subtracts the CRC from a count that could be smaller).
TypeOK ==
  /\ flags \subseteq Flags /\ got \subseteq Flags
  /\ fifo \in Seq(Bytes) /\ buf \in Seq(Bytes)
  /\ age \in 0 .. 2 /\ {t1p5, uart, tmo, broadcast} \subseteq BOOLEAN
  /\ pc \in RxPcs \cup TxPcs \cup {"idle"}
  /\ dest \in {"id", "body", "extra"} /\ navail \in 0 .. MaxPdu
  /\ slave_rx \in Bytes \cup {Uninit} /\ error \in Errors \cup {0}
  /\ ret \in Errors \cup 0 .. MaxPdu - 2 /\ calls \in 0 .. MaxCalls
  /\ wire \in Seq(Kinds) /\ {idread, calm} \subseteq BOOLEAN
  /\ pos \in 0 .. MaxPdu + 3
  /\ {gapped, rushed, accepted} \subseteq SUBSET (1 .. MaxFrames)
  /\ begun \subseteq 0 .. MaxFrames

\* However the characters arrive, mb_rtu_rx never stores more than
\* MAX_PDU_SIZE of them, the size of the caller's buffer.
BufferBound == Len(buf) <= MaxPdu

\* The first wait also returns for T1P5, but when the task keeps up with the
\* line a character is then always there: slave_rx is assigned before it is
\* compared and checksummed.  (A task that lags can lose the character to the
\* read that empties the previous frame's tail.)
IdInitialised == calm /\ pc = "take" /\ dest = "id" => navail = 1

\* Frame f is undamaged, for us, sent without a gap and with silence on both
\* sides.
Clean(f) == /\ ~wire[f].bad /\ wire[f].unit \in {"me", "all"}
            /\ f \notin gapped /\ f \notin rushed /\ f - 1 \notin rushed

\* With its CRC it does not overfill the buffer
Fits(f) == wire[f].size <= MaxPdu - 2

Arrived(f) == f < Len(wire) \/ (f = Len(wire) /\ pos = Length(f))

\* A call that started on a silent line, read an id, and returns after
\* exactly one frame, a clean one that fits, returns that frame and
\* knows whether it was broadcast: no interleaving of the task's reads with
\* the interrupts drops or splits it.
SoleFrameReceived ==
  pc = "ret" =>
    \A f \in 1 .. Len(wire) :
      begun = {f} /\ idread /\ Arrived(f) /\ Clean(f) /\ Fits(f)
        => ret = wire[f].size /\ broadcast = (wire[f].unit = "all")

\* A frame that is accepted was followed by 3.5 characters of silence, even
\* when the task lags behind the line; and a task that keeps up accepts no
\* frame with a gap of 1.5 characters inside.
AcceptedFollowedBySilence ==
  pc = "ret" /\ ret >= 0 =>
    /\ slave_rx[1] \notin rushed
    /\ calm => slave_rx[1] \notin gapped

\* On a line where nobody talks over us, mb_rtu_tx returns only after 3.5
\* characters of silence, so that the next call of mb_rtu_tx cannot merge its
\* frame with this one: the T3P5 it waits for is never one left from before.
TxLeavesSilence ==
  [][pc = "silence" /\ pc' = "idle" => age = 2]_vars

\* A task that keeps up loses nothing: whenever the line is silent again and
\* the task is back at the first wait, every clean frame so far was returned,
\* whatever damaged, foreign, gapped or rushed frames came between.  (Once a
\* frame fills the buffer it is another matter: characters behind it stay in
\* the FIFO and are read with the next frame.)
NothingLost ==
  calm /\ pc \in {"idle", "first"} /\ age = 2 /\ ~MidFrame =>
    \A f \in 1 .. Len(wire) : Clean(f) /\ (\A g \in 1 .. f : wire[g].size < MaxPdu - 2) => f \in accepted

\* Every call of mb_rtu_rx with a timeout returns.
RxReturns == pc \in RxPcs /\ tmo ~> pc = "idle"

\* Every call of mb_rtu_tx returns.
TxReturns == pc \in TxPcs ~> pc = "idle"

\* Every call of either returns: no wait without a limit is for a flag that
\* nobody will set.
CallsReturn == RxReturns /\ TxReturns

\* As SoleFrameReceived, for every PDU of up to MAX_PDU_SIZE bytes.
LegalFrameReceived ==
  pc = "ret" =>
    \A f \in 1 .. Len(wire) :
      begun = {f} /\ idread /\ Arrived(f) /\ Clean(f) => ret = wire[f].size
==============================================================================
