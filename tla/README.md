# A TLA+ verification of m-bus

This directory specifies the Modbus stack of this repository in TLA+, checks
the specifications with TLC on small instances, and proves all
but two of their safety properties with TLAPS for every instance (section 4).
Paths below are relative to the repository.

## 1. The system

m-bus is a Modbus master and slave in C for serial lines (RTU) and TCP, with
ports to Linux, rt-kernel and Windows.

| Part | State it keeps | Operations | Module |
|---|---|---|---|
| PDU layout (`src/mb_pdu.h`, `include/mb_error.h`) | none | - | `MbPdu` |
| Slave handlers (`src/mb_slave.c`, 70-393) | the application's four tables, behind callbacks | one handler per function code | `MbHandlers` |
| Slave task (`src/mb_slave.c`, 395-582) | `id`, `running`, the transaction (unit, id, buffer) | `mb_slave`, `mb_slave_handle_request`, `mb_slave_id_set`, `mb_slave_shutdown` | `MbSlave` |
| Master API (`src/mbus.c`) | transaction id, scratch buffer | `mbus_read`, `mbus_write`, `mbus_write_single`, `mbus_loopback`, `mbus_send_msg`, `mbus_get_msg`, `mbus_connect`, `mbus_disconnect` | `Mbus`, `MbDevice`, `MbTcp` |
| RTU transport (`src/mb_rtu.c`, `src/ports/rt-kernel/mbal_rtu.c`, `mb_stm32p407.c`) | event flags, timers, driver FIFO, `broadcast` | `mb_rtu_rx`, `mb_rtu_tx`, hooks, timer callbacks | `MbRtu` |
| TCP transport (`src/mb_tcp.c`, `src/ports/*/mbal_tcp.c`) | `is_down`, the MBAP header, sockets | bringup, shutdown, tx, rx | `MbTcp` (messages, Linux), `MbStream` (bytes, Windows and rt-kernel) |
| Dispatch (`src/mb_transport.c`) | the function table | `mb_pdu_rx`, `mb_pdu_tx`, ... | inside `MbSlave`, `MbTcp` |
| CRC (`src/mb_crc.c`) | none | `mb_crc` | `MbCrc`; idealised in `MbRtu` |
| rt-kernel driver (`src/ports/rt-kernel/mb_master.c`, `mb_cmds.c`) | a mutex, one transaction and transport for all handles | the master API, locked; shell commands | `MbMaster` |
| Linux serial (`src/ports/linux/mbal_rtu.c`, `mb_bsp.c`) | timers, a reader thread | hooks in a thread | `MbLinux` |
| Sample programs, tracepoints | - | - | not modelled |

How they interact. The master and the slave call a transport through
`mb_transport.c`; a request travels master, transport, line, transport, slave
task, handler, application callback, and the response the same way back. The
slave task and the application share `id` and `running` without a lock. On a
serial line the task shares the event flags and the FIFO with interrupts and
timers, on Linux with threads. On rt-kernel the application's threads share one
driver, and with it one transaction buffer, under a mutex. Over TCP the task
shares nothing, but sockets end, stall and deliver messages in parts.

What is hard:

* *interleaving*: a request that arrives while another is handled; an
  interrupt between any two steps of a read; an id changed during a wait; a
  hook that is a thread; calls of several threads on one driver;
* *timeouts*: a response that comes after the master gave up, over both
  transports;
* *stale state*: one PDU buffer, one set of flags, one `is_down` for several
  peers, reused call after call;
* *limits*: quantities, byte counts in a `uint8_t`, buffers of 253 bytes;
* *partial failure*: function 23 writes and then reads; a TCP message is cut
  off half way; a send takes part of a message; a call of bringup fails;
* *liveness*: waits without a limit on flags that someone must have armed, and
  on a mutex that someone must give back.

`PROJECT.json` lists these hazards line by line, with the properties that
would catch each.

What makes each part correct:

* handlers: callbacks only inside the tables, only with data received, writes
  confined and acknowledged only when made, reads that show the table;
* slave task: one answer per request under the request's own identity, late
  requests ignored on a serial line, id changes and shutdown take effect;
* RTU: every clean frame is received, no buffer overrun, no frame accepted
  without the silence that ends it, silence after every transmission, every
  call returns;
* CRC: the tables compute the Modbus polynomial's remainder;
* master: a call that succeeds means what it says, and one that reports an
  error changed nothing; master and slave together look like one device whose
  tables are read and written;
* driver: a call has the response to its own request, whatever other threads
  do, and every call ends;
* TCP: responses in the order of requests, streams read and written in step,
  no leaked sockets, every call returns, a slave is not held by a dead peer.

## 2. Modules

`MbPdu` is extended by `MbHandlers`, `MbRtu`, `MbTcp`, `MbMaster` and `MbLinux`;
`MbHandlers` by `MbSlave` and by `Mbus`, which instantiates `MbDevice`; `MbCrc`
by `MbLinux`. `MbStream` stands alone. The proofs about a module are in a module
of their own that extends it: `MbSlave_proofs`, `Mbus_proofs`, `MbRtu_proofs`
and on it `MbRtuFrames_proofs`, `MbLinux_proofs`, `MbTcp_proofs`,
`MbMaster_proofs`, `MbStream_proofs`. `MC` and a module's name is that module
for TLC: it gives one specification its constants. A definition called `X...`
with the comment "Mutant of X" is a plausible mistake in `X`; no specification
uses it, it exists to show that the properties notice.

**MbPdu.** The C union of packed structures is one record with the overlaid
fields. Payload is a sequence with one element per coil or register.

**MbHandlers.** A handler is an operator from tables, PDU and callback results
to an outcome `[tx, mem, data, calls]`: what the C function returns, the
tables afterwards, the response payload and the callbacks called. The order of
the checks is the code's. `NumBytes` keeps the `uint8_t` of `count`. The
callbacks may succeed or return any exception in `CallbackResults`; what a
successful one does is the sample application's (`sample/slave.c`).

**MbSlave.** The program counter of `mb_slave ()` is `pc`; a step ends where
another actor can interfere: at the tests of `running` and `is_down`, the copy
of the id, `mb_pdu_rx`, the handler, `rx_avail`, the second `mb_pdu_rx` and
`mb_pdu_tx`. The transport is abstracted to the unread frames it holds. Over RTU
that is one frame: a frame that follows an unread one is read together with it
and fails its CRC. Over TCP it is a queue, the transaction id is the number of
the request, a message may be cut off and the peer may close. `transport` says
which it is and is chosen at first. Not every call of the transport returns:
`stalled` names the one that does not. On a serial line the expiry that ends a
frame can get lost (section 3), and `mb_rtu_rx` or, on Linux, `mb_rtu_tx` then
waits without a limit until another frame comes (`Arrive`); over TCP a peer may
stay and take nothing, and `os_tcp_send` has no timeout (`PeerStall`).
`mb_slave_id_set` and `mb_slave_shutdown` happen at any time.

**MbRtu.** The task's steps inside `mb_rtu_rx`, `mb_rtu_read` and `mb_rtu_tx`
interleave with `mb_rx_hook`, `mb_tx_hook` and the timers. The flags are the
event flags, the FIFO is the driver's. Time is `age`, the silence since the last
character, in three classes: under 1.5 characters, under 3.5, more. A byte is a
pair of frame number and position, so that a mixture of frames cannot look like
a frame; the CRC is ideal: zero exactly on an undamaged frame. A PDU may be
empty: the slave itself sends such a frame for a vendor callback that returns 0.
`mb_rx_hook` is one step, as on rt-kernel, where it is an interrupt. An
unassigned `slave_rx` is any byte. `calm` records whether the task always
reached its next wait before the line moved and every frame began when one was
expected; what is promised only to a task that keeps up is conditional on it.
`rushed` are the frames behind which another began before T3P5 was over, as far
as a timer ran to tell; `idread` records that the station id of this call came
out of the FIFO: a call can also be woken by characters that the call before has
taken, find nothing, and go on with an unassigned id. `Overlap` says that frames
may begin at other moments too.

**MbCrc.** The two tables and the loop of `mb_crc`, and beside them the bitwise
division by the polynomial.

**MbLinux.** `mb_rtu_rx` and `mb_rtu_tx` of a slave again, on the Linux port.
The hook is a thread: it sees an edge, restarts T1P5, restarts T3P5, clears the
timer flags and sets RX_AVAIL, five steps, between any of which a timer may
expire or the task go on. The edges that come while the hook runs are one.
`mb_tmr_start` with no callback for T1P5 leaves that timer alone. Bytes are
numbers here and every checksum is computed, so that the model finds out by
itself which mixtures of frames a CRC lets pass. `lags` counts how often the
line or a timer moved on while a thread was busy.

**Mbus.** A call builds a request, sends it, waits and interprets whatever
response comes: neither function nor count nor id is compared, as in the
code. The slave is `Handle` of `MbHandlers`. The link keeps order, may lose
either direction, and may be slower than the timeout. `Proper` is what the
interface asks of the application: arguments of their C types, and a buffer as
long as the call reads, which for coils is whole bytes.

**MbDevice.** What an application may expect of master, link and slave: calls
on a device's tables, in terms of tables, elements and values, without PDUs,
byte counts or 0-based addresses. Calls are performed in order, wholly or not
at all and at most once; a call or its outcome may get lost, and the outcome
goes to whichever call waits when it comes. `Mbus` implements it under the
mapping `Device`: what is under way to the slave are the calls not yet
performed, the responses under way are outcomes nobody has seen.

**MbMaster.** Threads on one rt-kernel driver. A thread runs a shell command
(open, one call, close) or uses the handle all share, for a call or for the
pair `mb_send_msg`, `mb_get_msg`. `Lock` is `mtx_lock` with the filling in of
the one transaction, `Tx` is the send of `mb_tcp_tx`, `RxWait`, `RxHeader` and
`RxBody` are the wait and the two receives of `mb_tcp_rx`, and `Unlock` is
`mtx_unlock` and what the caller does next. On an error (`RxClosed`, a failed
send, or a body of no bytes) the socket is closed and `is_down` set in two
steps, `FailClose` and `FailMark`, since opening and closing a handle run
without the mutex in between. A response is as it should be, has no body, is of
another protocol, or stops behind its header; a slave may also stop taking
requests. Then a send or a receive lasts as long as the slave stays, with the
mutex held: sockets made by `os_tcp_connect` have no time limits. A handle is
a socket number and numbers are used again, so that a second close can hit
someone else's connection. The file layer of rt-kernel is external; `open` and
`close` are taken not to hold the driver's mutex.

**MbTcp.** Master, slaves and connections. A message is a header and a body
that arrive one after the other. `Request` is the part of every master
function up to `mb_tcp_tx`, with the wait that follows or (`mbus_send_msg`)
without; `mb_tcp_rx` is the steps from `wait` over `header` to `body`. A slave
is the same code on its side of the connection, with the receive timeout and
the keepalive that `os_tcp_accept_connection` sets and `os_tcp_connect` does
not. A closed socket can be noticed by a send or not. `Slaves` slaves serve
one connection each, since the listening socket is closed while one is served.

**MbStream.** One end of a TCP connection, byte by byte, as server or client,
against a program that may send any length field, read or not read, and close
at any time. `recv` and `send` move any part of what they could; bringup is the
sequence of its socket calls, each of which may fail. A byte is a pair of
message number and position; a header that is read from the middle of a message
holds any length.

## 3. Runs

Deadlock is not checked: calls, frames and connections are bounded, and a
slave that is shut down or a system that nobody uses any more really stops.

| Run | Shows |
|---|---|
| `slave_limits` | Every handler at and around every limit: `CallsInRange`, `PayloadReceived`, `ReadsAreCurrent`, `WritesTakeEffect`, `WritesConfined`, and the type invariant. Tables are one element larger than the largest request, so that the limit of the request and the end of the table are told apart. One request is enough: a handler keeps no state but the tables. |
| `slave_task` | `LateRequestIgnored` (the late request is not executed and the one it interrupted is not answered), `AnswersOwnRequest`, `StaleIdOnce`, `IdTakesEffect`, `ShutdownStops` on either transport, with three frames, two ids, two changes of id and shutdown. The last two hold unless the task stays in a call of the transport that does not return (`Held`). Three frames are a request, one that arrives during its handling and one after both; over TCP they are pipelined and peers come and go. |
| `rtu_slave` | `BufferBound`, `SoleFrameReceived`, `AcceptedFollowedBySilence` for a task that lags behind the line by any amount, `IdInitialised` and `NothingLost` for one that keeps up. Frames are requests, broadcasts with an empty PDU, foreign, damaged, gapped and rushed; with a buffer of 4 bytes the damaged one fills it, and with a rushed one behind it overfills it. 7.8 million states. |
| `rtu_master` | `TxLeavesSilence`, `CallsReturn` on a line where answers come only while they are waited for. |
| `linux_serial` | `AcceptedWasSent`, `NothingLost`, `CrcIsRemainder`, `CallsReturn` on Linux, with a frame for this station and a damaged broadcast in any order and in any pieces. |
| `mbus_calls` | `ReadReturnsTable`, `WriteStored` and the refinement `ImplementsDevice`: single calls at every limit of the master and of a device one element larger than the largest request, and sequences of three calls on a link that loses and delays. |
| `master_threads` | `OwnResponse`, `FailuresFollowNumbers`, `NoLeakAlone`, `CommandsEnd` with two threads, two commands of any kind at any moment, three connections and three socket numbers, and one slave at a time that misbehaves. `CommandsEnd` says that the mutex is given back on every path and that only a slave that holds a send or a receive keeps a command from its end. |
| `tcp_calls` | `ResponsesInOrder`, `FlagTracksSocket`, `CallReturns`, `SlaveFreed` with timeouts, stalls, empty responses, raw messages, failing sends, shutdown and reconnection. |
| `stream` | `SocketsBalanced`, `InSync`, `RepliesWhole`, `TransfersEnd` with every length from 0 to one above the buffer's. The peer puts messages on the wire whole; `recv` and `send` move them in any pieces, and the peer may close at any time. (A message that stops half way is in `tcp_calls` and `slave_task`.) |

Three runs end in a counterexample to something a comment or a header says of
the code (`PROJECT.json`, findings, quotes the line):

| Run | What the code does instead |
|---|---|
| `rtu_timeout` | An answer to an earlier request that begins while the next request is being sent (a late answer after a timed-out call, or one nobody waited for) makes the next `mb_rtu_rx` wait without limit. The run has two calls: the answer belongs to the first. |
| `rtu_max_pdu` | PDUs of 252 and 253 bytes are not received, since the CRC shares their buffer. A read of 125 registers or 2000 coils and a write of 123 registers have 252. |
| `tcp_late` | The late response is taken for the next call's: the transaction id is not compared. |

Other places where the code and its documentation part, visible in the models
but not asked about by a run: a vendor callback that returns 0 gets an empty
response (`Tx` in `MbSlave`; `include/mb_slave.h:104`); shutdown leaves pending
requests unread (`Exit`; `include/mb_slave.h:318`); `mbus_loopback` copies the
response from its function code on (`src/mbus.c:333`, `Interpret` in `Mbus`), so
that the buffer gets three bytes of header and loses the last three of the data
and the count returned is three too many, where `include/mbus.h:238-240` says
"The data read from the slave is placed into the buffer (up to a maximum of \a
size)"; the master's recv has no timeout (`RecvHeader` and `RecvBody` in
`MbTcp`; `src/mb_tcp.c:154`), which is why `CallReturns` excepts stalled
connections and `CommandsEnd` a thread that is held; a timeout of 0 is over at
once over TCP (`include/mb_transport.h:88`); and with `MaxPeers = 2`
`FlagTracksSocket` fails, because `is_down` is the transport's.

Some things met on the way bound what the passing runs say.

* On rt-kernel, `IdInitialised` and `NothingLost` hold for a task that keeps up,
  not for one that lags: a frame that begins while the task empties the tail of
  the last one loses characters to it, and the next `mb_rtu_rx` then compares an
  unassigned `slave_rx`. Characters behind a frame that exactly fills the buffer
  are read with a size of 0: they stay in the FIFO, and the next frame is read
  together with them.
* On Linux a call can wait for ever after an expiry that came between the hook's
  restart of the timer and its clearing of the flags, or that was cleared by the
  end of `mb_rtu_rx` or by `mb_rtu_tx` before its characters were read.
  `CallsReturn` excepts exactly these cases, which `wiped` records.
* For the slave task these lost expiries, and the one of `rtu_timeout`, mean that
  a new id need never be used and shutdown need never end the task, if the line
  stays silent for ever; over TCP a peer that stays and reads nothing does the
  same to shutdown. `IdTakesEffect` and `ShutdownStops` except exactly that.
* The CRC of a good message followed by a zero byte is zero again. A task that
  is still busy when a broadcast begins may take the broadcast's station id for
  the message's last byte and return a message one byte longer;
  `AcceptedWasSent` allows that and nothing else.
* After a length field of 0 or one above 254 the rest of the message is read as
  headers; but for the size of the body, `InSync` is about streams where that did
  not happen.
* With several handles on one rt-kernel driver, the error of one connection
  marks the transport down for all: `mb_close` of another then closes nothing
  (`NoLeakAlone` excepts it), and closing a number again can close another
  thread's connection. `FailuresFollowNumbers` says whose fault an error is: that
  of a slave that had the same socket number and has gone, or has sent a response
  without a body or of another protocol.

**Bounds.** `MaxFrames`, `MaxCalls`, `MaxConns`, `MaxPeers`, `MaxRequests`,
`MaxMessages`, `MaxReplies` and `MaxIdChanges` cap what the environment does;
`IdModulus` stands for 2^16 transaction ids and is small enough to wrap.
`MaxRough` caps the frames of a run in which the task has lagged or was
surprised: two are a frame and what can be mixed up with it; a calm task sees
`MaxFrames`, and three show that it is ready again after any two. Of the kinds
in `RoughKinds` a task that lags sees `MaxFrames` too: the third shows what the
leftovers of two frames do to a call. `MaxLags` caps how often something moves
while a thread of `MbLinux` is busy: one is enough to wipe an expiry, two to mix
frames. `SendBuffer` is smaller than a message, so that a send is always in
pieces. `MaxFaulty` caps the slaves of `MbMaster` that misbehave other than by
closing: one is enough to hold the mutex. Two commands (`MaxRequests`) show
every way in which one can disturb the other; the safety properties were also
checked with three, in 7.6 million states. `MAX_PDU_SIZE` and every quantity
limit are the real ones in `MbSlave` and `Mbus`; in `MbRtu` and `MbLinux` the
buffer is `MaxPdu` bytes, and in `MbStream` header and buffer are two bytes
each.

**Fairness.** `MbSlave`: weak fairness of the task's steps, none of peers. The
scheduler runs the task, and accept and the first wait of `mb_pdu_rx` have
timeouts; where a call has none the task's step is disabled (`stalled`), and
fairness asks nothing. `MbRtu`: the task, the transmitter, the rest of a frame
that has begun, and the passing of time. `MbLinux`: the reader thread, the task,
the rest of a frame, and timers that run. `MbTcp`: the master's and each slave's
steps, and delivery of what is in flight on a connection that is not stalled.
`MbMaster`: every thread's steps, the taking of a free mutex included; slaves
need not answer, nor finish a message, nor take one. `MbStream`: the task alone.
Nobody has to call, to connect, to begin a frame or to stall.

## 4. Proofs

The theorems hold for all values of the constants that satisfy the named
assumptions: any table sizes, any number of frames, threads, connections, calls
and messages, any size of buffers. The assumptions are about the environment
only (tables have a size, callbacks return what their interface allows, ids are
1 to 247, a frame's payload is what its length pays for, sizes are positive and
a serial buffer has room for a checksum, bounds are numbers; for `Mbus`, calls
are `Proper` and a table has fewer than 65536 elements), and TLC evaluates them
in every run. Four theorems have a hypothesis besides, noted below. Every
inductive invariant was first checked by TLC on the run of its module.

| Theorem | States | About |
|---|---|---|
| `TypeCorrect` | `Spec => []TypeOK` | `MbSlave` |
| `CallbacksInRange` | `Spec => []CallsInRange` | |
| `PayloadAlwaysReceived` | `Spec => []PayloadReceived` | |
| `StaleIdAtMostOnce` | `Spec => []StaleIdOnce` | |
| `LateNeverExecuted` | `Spec => []LateRequestIgnored` | |
| `AnswersAlwaysOwn` | `Spec => []AnswersOwnRequest` | |
| `WritesAlwaysTakeEffect` | `Spec => []WritesTakeEffect` | |
| `ReadsAlwaysCurrent` | `Spec => []ReadsAreCurrent` | |
| `WritesAlwaysConfined` | `Spec => WritesConfined` | |
| `TypeAlwaysOK` | `Spec => []TypeOK` | `MbRtu` |
| `BufferAlwaysBounded` | `Spec => []BufferBound` | |
| `AcceptedAlwaysFollowedBySilence` | `Spec => []AcceptedFollowedBySilence` | |
| `IdAlwaysInitialised` | `Spec => []IdInitialised` | |
| `TxAlwaysLeavesSilence` | `Spec => TxLeavesSilence`, if `~Overlap` | |
| `SoleFrameAlwaysReceived` | `Spec => []SoleFrameReceived` | |
| `NothingEverLost` | `Spec => []NothingLost` | |
| `NothingLostOnLinux` | `Spec => []NothingLost`, if `ChecksumsTell` | `MbLinux` |
| `AcceptedWasSentOnLinux` | `Spec => [](lags = 0 => AcceptedWasSent)`, if `ChecksumsTell` | |
| `MasterImplementsDevice` | `Spec => ImplementsDevice` | `Mbus` |
| `ReadsReturnTable` | `Spec => []ReadReturnsTable` | |
| `WritesStored` | `Spec => []WriteStored` | |
| `FailuresAlwaysFollowNumbers` | `Spec => []FailuresFollowNumbers` | `MbMaster` |
| `NeverLeaksAlone` | `Spec => []NoLeakAlone` | |
| `AlwaysOwnResponse` | `Spec => []OwnResponse` | |
| `ResponsesAlwaysInOrder` | `Spec => []ResponsesInOrder` | `MbTcp` |
| `FlagAlwaysTracksSocket` | `Spec => []FlagTracksSocket`, if `MaxPeers <= 1` | |
| `SocketsAlwaysBalanced` | `Spec => []SocketsBalanced` | `MbStream` |
| `RepliesAlwaysWhole` | `Spec => []RepliesWhole` | |
| `AlwaysInSync` | `Spec => []InSync` | |

**MbSlave.** `HandleSound` says what every outcome of `Handle` satisfies: a
legal result, well-typed tables and data, calls in range, payload received. It
rests on one lemma per handler and on lemmas on `Set`, `Get`, `GetBits` and
`NumBytes`. `Inv` is `TypeOK` with the two call properties: the outcome stored
in `out` is about the request in `cur`, so each needs the other. `Effect` says
the same of the tables: a response means that the write is made and the read is
shown, an exception that nothing changed unless the get of function 23 failed
after its set; again one lemma per handler, and the three theorems on tables
follow since no other step touches them. `StaleIdOnce` is not inductive.
`StaleInv` adds when the count can still grow: while the task is in `rx` with a
unit that is not the slave's id, and then no request has yet been taken under an
old id. `LateInv` adds where a frame marked late can be: alone in the receive
buffer, and only while the task handles, tests `rx_avail` or discards, so never
when it sends. `OrderInv` adds that the requests in the queue are newer than the
one handled, that one newer than the last answered, and that unit and
transaction id are those of the request handled from its reception on.

**MbRtu.** `RtuInv` has a part for each thing the receiver relies on. `LineInv`:
the FIFO ends with the last character on the line, and T3P5 is up only in
silence. `ReadInv`: no character is in the FIFO without its flag where the task
waits, and a read takes no more than fits; `BufferBound` needs both the count
taken and the room left. `VerifiedInv`: a message that passed the check is a
frame from its first to its last character, because characters know their frame.
`ReturnInv`: that frame is the last one, or one that was not rushed. `CalmInv`:
what a task that keeps up knows at each wait, without which a T1P5 of an earlier
frame could end a later one. `QuietInv` says where the line must be silent when
frames begin only when they are expected; without that hypothesis
`TxLeavesSilence` is false, since anybody may talk while the transmitter's
silence is awaited. `SoleInv` follows one frame through a call: what is in the
FIFO, what is in the buffer, and that both together are the frame so far.
`KeepInv` is the argument of `NothingLost`, an induction over the frames: those
before the last were returned, and when the last is over it is the only one the
call has met, so that `SoleInv` applies. Two statements of earlier versions of
the model were found too strong by these proofs, where three frames and a
lagging task make a difference: hence `idread` and the condition on `t1p5` in
`rushed`.

**MbLinux.** `KeepInv` says in which of four stages a call is while nothing has
lagged. `Between`: all frames were had. `Active`: the last frame is arriving; what
the task has read, what is in the FIFO and what is still to come are the frame,
no timer has expired since it began, and both run once the hook is through.
`Silent`: T1P5 is up and the task has not noticed. `Ended`: it has, and the whole
frame is in the buffer. The delicate part is that characters in the FIFO are
always announced: by the flag, by an edge or a hook that is under way, or because
the task is about to read. So a task that waits has read everything, and T1P5
cannot end a frame that is still in the FIFO. `ChecksumsTell` says that the table-driven
checksum is zero over the undamaged frames of `Kinds` and over no others. It
is a computation: TLC does it for the frames of the run, as part of
`CrcIsRemainder`, and for all frames it would take induction over their bytes.

**Mbus.** `HandlePerforms` joins the two halves: whatever call the master puts
on the line, the slave's handler either returns an exception and leaves the
tables alone, or does to them what the device of `MbDevice` does for that call.
It needs the request builders (one lemma per operation: function code, 0-based
address, byte count) and the handlers (one lemma each: the slave finds the fields
it needs, checks the same range, and reads or writes the same elements).
`TypeInv` carries that every request on the line was built for its call and that
the exception bit goes with an exception code. With these, each action is a step
of the device: `Begin` a call, `Serve` its performance or, for another station,
its loss, `Receive` and `Timeout` a return. The proof needs tables of fewer than
65536 elements: address 0 of a space is sent as 65535, which would be the last
element of a larger one.

The two promises of a call are not inductive, since nothing in a response says
which call it answers. `CleanInv` follows a call that began on an idle link: its
request is alone on the link and the tables are as they were (`Sent`); its
response is alone on the link and says what was done (`Coming`); one of them was
lost (`Missing`); the call has returned and its promise holds (`Returned`). After
a timeout (`Late`) and after a broadcast (`ToAll`), nothing is claimed.

**MbMaster.** `Basics`: the owner of the mutex is the one thread between lock
and unlock, the transaction is filled in for it, a handle's number and
connection are known. `DeadInv`: a number that is closed while used, or used
twice, or about to be closed for an error, once belonged to a slave that has
gone or has sent a response that is no message (`OddInv` ties a response of that
kind to its sender). `LeakInv` with `OwnersDiffer`: when `is_down` makes
`mb_close` skip the close, the connection was closed or disturbed before.
`AnswerInv`: until the response is taken, what is outstanding on the connection
of a thread that began clean is its own request.

**MbTcp.** The parts of messages on a connection are a walk along the requests:
a header leads from mark `2r` to `2r + 1`, or to `2r + 2` if it announces no
body, and a body from `2r + 1` to `2r + 2`. `ChainInv` says that what the master
has read, what is on its way to it, what the slave holds and what is on its way
to the slave follow one another in such a walk, up to the last request sent. A
walk is given by its marks, so that no recursion is needed. `FlagInv` is
`FlagTracksSocket` in the course of a call. The hypothesis is the code's limit:
`is_down` belongs to the transport, and with two handles the property fails.

**MbStream.** `SocketInv` names the sockets at every call of bringup. `ReplyInv`
adds how much of a reply is still to go. `StreamInv` says that buffer, header
and what is on the wire are one contiguous stream of messages, that the read
positions in it are known, and, while no length field was wrong, that a read of
a header is at a message's first byte.

Only model-checked:

* the liveness properties: fairness is out of the prover's reach;
* `CrcIsRemainder` of `MbLinux`, which is a computation on tables;
* `AcceptedWasSent` of `MbLinux` for threads that lag: pieces of several frames
  then come together, and whether the checksum finds that out depends on their
  bytes. For some bytes it would not, so this is true of the frames of the run
  and no theorem for all.

## 5. Not modelled

* opening and configuring serial ports, and the timer values computed from the
  baud rate: numbers that nothing in the models depends on. With them stay out
  the Linux drain, which sleeps for a fixed time, and a baud rate that the Linux
  port replaces by 19200;
* failures of `malloc`, of serial writes and of serial reads: `os_rtu_rx_avail`
  and `os_rtu_read` may return -1, which `mb_rtu_read` (`src/mb_rtu.c:161-176`)
  stores in a `size_t`; the models take them to succeed. SIGPIPE on Linux;
* serial on Windows, whose functions are stubs;
* bytes a short single write finds in the reused buffer: the code does not
  compare `rx_count` there, and `PayloadReceived` says so;
* a response in two parts between two timeouts of different length;
* timeouts as numbers: a timeout may be over at any time, so a timeout of 0,
  which is a poll over TCP, is not told apart;
* the driver of rt-kernel over a serial line: there the handle is the station
  id and nothing is opened or closed per handle, so of `MbMaster` only the mutex
  would be left;
* the sample programs, which parse arguments around one call, and the generated
  tracepoints.

## 6. Plan

A serial bus of one master and several slaves that composes `MbRtu` at both
ends: what is now assumed of the other stations (`Begin`, `Continue`) would be
the transmitter of the same module, and an answer that collides with a late one
could be followed from one end to the other.
