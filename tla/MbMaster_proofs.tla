--------------------------- MODULE MbMaster_proofs ---------------------------
(***************************************************************************)
(* What the threads that share the master driver of rt-kernel can rely on: *)
(* the response each of them gets, where a failure comes from and which    *)
(* connections are closed when mb_close returns.                           *)
(***************************************************************************)
EXTENDS MbMaster, TLAPS

\* In mb_tcp_tx and mb_tcp_rx
Transport == {"tx", "tx_close", "tx_mark", "rx", "header", "body", "rx_close", "rx_mark"}

\* The critical sections
HoldsMutex == Transport \cup {"unlock", "unlock_send"}

Pcs == HoldsMutex \cup {"idle", "open", "up", "lock", "lock_get", "close", "closing", "closed"}

\* The thread has a handle: its command has opened one, or uses the shared one
HasHandle == Pcs \ {"idle", "open"}

\* The commands that open and close their handle
ShellOnly == {"open", "up", "close", "closing", "closed"}

ThreadRecord ==
  [pc : Pcs, cmd : Commands, fd : Nat, own : Nat, n : Nat, on : Nat, got : Nat,
   from : Nat, clean : BOOLEAN, between : BOOLEAN, result : Int]

Reply == [n : Nat, kind : Kinds]

ConnRecord ==
  [peer : {"none", "up", "stalled", "gone"}, number : Nat,
   requests : Seq(Nat), replies : Seq(Reply), odd : BOOLEAN]

MasterType ==
  /\ mtx \in Threads \cup {Nobody} /\ is_down \in BOOLEAN
  /\ transaction \in [arg : Nat, n : Nat]
  /\ sock \in [Sockets -> Nat] /\ conn \in [Conns -> ConnRecord]
  /\ thread \in [Threads -> ThreadRecord]
  /\ requests \in Nat /\ released \subseteq Conns /\ disturbed \subseteq Conns

\* A thread in a critical section has the mutex, and the transaction is its own.
MutexInv ==
  \A t \in Threads :
    /\ thread[t].pc \in HoldsMutex => mtx = t
    /\ thread[t].pc \in Transport => transaction.arg = thread[t].fd
    /\ thread[t].pc = "tx" => transaction.n = thread[t].n

\* The number and the connection of a thread's handle.
HandleOf(t) ==
  /\ thread[t].pc \in HasHandle =>
       /\ thread[t].fd \in Sockets /\ thread[t].own \in Conns
       /\ conn[thread[t].own].peer # "none"
       /\ conn[thread[t].own].number = thread[t].fd
       /\ thread[t].cmd # "shell" => thread[t].fd = Shared
       /\ thread[t].cmd = "shell" => thread[t].own # 1
  /\ thread[t].pc \in ShellOnly => thread[t].cmd = "shell"
  /\ thread[t].pc \in {"unlock_send", "lock_get"} => thread[t].cmd = "raw"
  /\ thread[t].result # 0 => thread[t].pc \in {"rx_close", "rx_mark", "unlock"}

\* The connection behind a number.
SocketsInv ==
  /\ conn[1].peer # "none" /\ conn[1].number = Shared
  /\ \A s \in Sockets : sock[s] # 0 =>
       /\ sock[s] \in Conns
       /\ conn[sock[s]].peer # "none" /\ conn[sock[s]].number = s

HandleInv == SocketsInv /\ \A t \in Threads : HandleOf(t)

\* No two commands have opened the same connection.
OwnersDiffer ==
  \A t, u \in Threads :
    /\ t # u
    /\ thread[t].pc \in HasHandle /\ thread[t].cmd = "shell"
    /\ thread[u].pc \in HasHandle
    => thread[t].own # thread[u].own

\* The slave has gone, or has sent a response that is no message
Broken(c) == conn[c].peer = "gone" \/ (conn[c].peer # "none" /\ conn[c].odd)

\* The numbers of the connections of such slaves
Dead == {conn[c].number : c \in {d \in Conns : Broken(d)}}

\* A response that is no message shows whose slave sent it.
OddInv ==
  \A c \in Conns : \A i \in 1 .. Len(conn[c].replies) :
    conn[c].replies[i].kind \in {"empty", "protocol"} => conn[c].odd

\* The thread is about to close after an error, or to return one
InError(t) == thread[t].pc \in {"tx_close", "rx_close"} \/ thread[t].result = EFRAME_NOK

\* The thread has a handle that it has not closed
Uses(t) == thread[t].pc \in HasHandle \ {"closed"}

\* A number that is closed while someone uses it, or that two use at once, has
\* been closed before because of its slave.
DeadInv ==
  /\ sock[Shared] = 0 => Shared \in Dead
  /\ \A t \in Threads : Uses(t) =>
       /\ sock[thread[t].fd] = 0 => thread[t].fd \in Dead
       /\ thread[t].cmd = "shell" /\ thread[t].fd = Shared => Shared \in Dead
       /\ InError(t) => thread[t].fd \in Dead
  /\ \A t, u \in Threads :
       /\ t # u /\ Uses(t) /\ Uses(u)
       /\ thread[t].cmd = "shell" /\ thread[u].cmd = "shell"
       /\ thread[t].fd = thread[u].fd
       => thread[t].fd \in Dead

\* Between bringup and the test of is_down in mb_close
MayLeave == HasHandle \ {"up", "closing", "closed"}

\* When is_down lets mb_close skip the close, the connection has been closed
\* already, or was disturbed.
LeakOf(t) ==
  /\ thread[t].pc \in {"closed", "tx_mark", "rx_mark"} => sock[thread[t].fd] # thread[t].own
  /\ is_down /\ thread[t].cmd = "shell" /\ thread[t].pc \in MayLeave
     => thread[t].own \in disturbed \/ sock[thread[t].fd] # thread[t].own

LeakInv ==
  /\ \A t \in Threads : LeakOf(t)
  /\ \A c \in released : conn[c].peer # "none"
  /\ \A s \in Sockets : sock[s] \in released => sock[s] \in disturbed

\* Until the response is taken, what is outstanding on the connection of a
\* thread that found it clean, and had it to itself, is its own request.
OnlyOf(q, n) == \A i \in 1 .. Len(q) : q[i] = n

AnswersOf(q, n) == \A i \in 1 .. Len(q) : q[i].n = n

\* The thread has sent its request and not read the response
Sent(t) == thread[t].pc \in {"unlock_send", "lock_get", "rx", "header", "body"}

AnswerOf(t) ==
  /\ thread[t].clean =>
       thread[t].on \in Conns /\ (Sent(t) \/ thread[t].pc \in {"rx_close", "rx_mark", "unlock"})
  /\ thread[t].clean /\ ~thread[t].between /\ Sent(t)
     => /\ OnlyOf(conn[thread[t].on].requests, thread[t].n)
        /\ AnswersOf(conn[thread[t].on].replies, thread[t].n)
  /\ /\ thread[t].result = 1 /\ thread[t].clean
     /\ thread[t].from = thread[t].on /\ ~thread[t].between
     => thread[t].got = thread[t].n

AnswerInv == \A t \in Threads : AnswerOf(t)

------------------------------------------------------------------------------
(* Types. *)

\* What the assumptions say of numbers, connections and threads.
LEMMA Constants ==
  /\ Sockets \subseteq Nat /\ 0 \notin Sockets /\ Shared \in Sockets /\ Shared \in Nat
  /\ MaxConns \in Nat /\ 1 \in Conns /\ Conns \subseteq Nat /\ 0 \notin Conns
  /\ Nobody \notin Threads
BY MasterAssumption DEF Conns, Shared

\* A thread leaves a critical section's step with the record f at pc.
LEMMA LeaveThread ==
  ASSUME NEW t \in Threads, NEW c, NEW pc, NEW f \in ThreadRecord,
         thread \in [Threads -> ThreadRecord], pc \in Pcs, Leave(t, c, pc, f)
  PROVE  /\ thread' \in [Threads -> ThreadRecord]
         /\ thread'[t] = [f EXCEPT !.pc = pc]
         /\ \A u \in Threads : u # t =>
              thread'[u] = [thread[u] EXCEPT !.between = @ \/ (c # 0 /\ u \in InGap(c))]
<1>1. [f EXCEPT !.pc = pc] \in ThreadRecord
  BY DEF ThreadRecord
<1>2. ASSUME NEW u \in Threads
      PROVE  [thread[u] EXCEPT !.between = @ \/ (c # 0 /\ u \in InGap(c))] \in ThreadRecord
  <2>1. thread[u] \in ThreadRecord
    OBVIOUS
  <2>2. PICK b \in BOOLEAN : b = (thread[u].between \/ (c # 0 /\ u \in InGap(c)))
    OBVIOUS
  <2>3. [thread[u] EXCEPT !.between = b] \in ThreadRecord
    BY <2>1 DEF ThreadRecord
  <2> QED BY <2>2, <2>3
<1> QED BY <1>1, <1>2, Zenon DEF Leave

\* What a thread's record keeps over a step of another thread: all but between,
\* which is never taken back.
SameHandle(u) ==
  /\ thread'[u].cmd = thread[u].cmd /\ thread'[u].fd = thread[u].fd
  /\ thread'[u].own = thread[u].own /\ thread'[u].n = thread[u].n

Same(u) ==
  /\ SameHandle(u) /\ thread'[u].pc = thread[u].pc
  /\ thread'[u].on = thread[u].on /\ thread'[u].got = thread[u].got
  /\ thread'[u].from = thread[u].from /\ thread'[u].clean = thread[u].clean
  /\ thread'[u].result = thread[u].result
  /\ thread[u].between => thread'[u].between

Others(t) == \A u \in Threads : u # t => Same(u)

\* The thread's record at the end of a command
IsIdle(r) == r.pc = "idle" /\ r.cmd = "shell" /\ r.clean = FALSE /\ r.result = 0

\* A thread that is done is a thread.
LEMMA IdleTyped == Idle \in ThreadRecord /\ IsIdle(Idle)
BY DEF Idle, ThreadRecord, Pcs, HoldsMutex, Transport, Commands, IsIdle

\* A step that changes only one thread's record.
LEMMA OneThread ==
  ASSUME NEW t \in Threads, NEW f \in ThreadRecord, thread \in [Threads -> ThreadRecord],
         thread' = [thread EXCEPT ![t] = f]
  PROVE  thread' \in [Threads -> ThreadRecord] /\ thread'[t] = f /\ Others(t)
BY DEF Others, Same, SameHandle

\* A step that moves a thread's program counter alone.
LEMMA GoThread ==
  ASSUME NEW t \in Threads, NEW pc \in Pcs, thread \in [Threads -> ThreadRecord], Go(t, pc)
  PROVE  /\ thread' \in [Threads -> ThreadRecord] /\ Others(t)
         /\ SameHandle(t) /\ thread'[t].pc = pc
         /\ thread'[t].on = thread[t].on /\ thread'[t].clean = thread[t].clean
         /\ thread'[t].result = thread[t].result /\ thread'[t].between = thread[t].between
         /\ thread'[t].got = thread[t].got /\ thread'[t].from = thread[t].from
<1>1. PICK f \in ThreadRecord : f = [thread[t] EXCEPT !.pc = pc]
  <2>1. thread[t] \in ThreadRecord
    OBVIOUS
  <2> QED BY <2>1 DEF ThreadRecord
<1>2. thread' = [thread EXCEPT ![t] = f]
  BY <1>1 DEF Go
<1>3. /\ f.pc = pc /\ f.cmd = thread[t].cmd /\ f.fd = thread[t].fd /\ f.own = thread[t].own
      /\ f.n = thread[t].n /\ f.on = thread[t].on /\ f.clean = thread[t].clean
      /\ f.result = thread[t].result /\ f.between = thread[t].between
      /\ f.got = thread[t].got /\ f.from = thread[t].from
  <2>1. thread[t] \in ThreadRecord
    OBVIOUS
  <2> QED BY <1>1, <2>1 DEF ThreadRecord
<1>4. thread' \in [Threads -> ThreadRecord] /\ thread'[t] = f /\ Others(t)
  BY <1>2, OneThread
<1> QED BY <1>3, <1>4 DEF SameHandle

\* A step that ends a thread's command.
LEMMA FinishThread ==
  ASSUME NEW t \in Threads, thread \in [Threads -> ThreadRecord], Finish(t)
  PROVE  /\ thread' \in [Threads -> ThreadRecord] /\ Others(t) /\ IsIdle(thread'[t])
BY OneThread, IdleTyped DEF Finish

\* A step of the transport: the thread keeps its handle and its request.
LEMMA LeaveOthers ==
  ASSUME NEW t \in Threads, NEW c, NEW pc \in Pcs, NEW f \in ThreadRecord,
         thread \in [Threads -> ThreadRecord], Leave(t, c, pc, f),
         f.cmd = thread[t].cmd, f.fd = thread[t].fd, f.own = thread[t].own, f.n = thread[t].n
  PROVE  /\ thread' \in [Threads -> ThreadRecord] /\ Others(t)
         /\ SameHandle(t) /\ thread'[t].pc = pc
         /\ thread'[t].on = f.on /\ thread'[t].clean = f.clean
         /\ thread'[t].result = f.result /\ thread'[t].between = f.between
         /\ thread'[t].got = f.got /\ thread'[t].from = f.from
         /\ \A u \in Threads : u # t /\ c # 0 /\ u \in InGap(c) => thread'[u].between
<1>1. /\ thread' \in [Threads -> ThreadRecord]
      /\ thread'[t] = [f EXCEPT !.pc = pc]
      /\ \A u \in Threads : u # t =>
           thread'[u] = [thread[u] EXCEPT !.between = @ \/ (c # 0 /\ u \in InGap(c))]
  BY LeaveThread
<1>2. ASSUME NEW u \in Threads, u # t
      PROVE  Same(u) /\ (c # 0 /\ u \in InGap(c) => thread'[u].between)
  <2>1. thread[u] \in ThreadRecord
    OBVIOUS
  <2>2. PICK b \in BOOLEAN : b = (thread[u].between \/ (c # 0 /\ u \in InGap(c)))
    OBVIOUS
  <2>3. thread'[u] = [thread[u] EXCEPT !.between = b]
    BY <1>1, <1>2, <2>2, Zenon
  <2>4. Same(u) /\ thread'[u].between = b
    BY <2>1, <2>2, <2>3 DEF Same, SameHandle, ThreadRecord
  <2> QED BY <2>2, <2>4
<1>3. /\ SameHandle(t) /\ thread'[t].pc = pc
      /\ thread'[t].on = f.on /\ thread'[t].clean = f.clean
      /\ thread'[t].result = f.result /\ thread'[t].between = f.between
      /\ thread'[t].got = f.got /\ thread'[t].from = f.from
  BY <1>1 DEF SameHandle, ThreadRecord
<1> QED BY <1>1, <1>2, <1>3 DEF Others

------------------------------------------------------------------------------
(* What each step does to the thread that takes it and to the connections. *)

Basics == MasterType /\ MutexInv /\ HandleInv

\* A connection keeps its number, and a broken one stays broken.
ConnsKept ==
  \A c \in Conns : conn[c].peer # "none" =>
    /\ conn'[c].number = conn[c].number /\ conn'[c].peer # "none"
    /\ Broken(c) => Broken(c)'

QueuesKept ==
  \A c \in Conns : /\ conn'[c].requests = conn[c].requests
                   /\ conn'[c].replies = conn[c].replies
                   /\ conn'[c].odd = conn[c].odd

\* A command begins: a shell command opens first, the others lock.
LEMMA BeginEffect ==
  ASSUME Basics, NEW t \in Threads, NEW cmd \in Commands, Begin(t, cmd)
  PROVE  /\ MasterType' /\ Others(t) /\ thread[t].pc = "idle"
         /\ thread'[t].cmd = cmd /\ thread'[t].result = 0 /\ thread'[t].clean = FALSE
         /\ cmd = "shell" => thread'[t].pc = "open"
         /\ cmd # "shell" => /\ thread'[t].pc = "lock"
                             /\ thread'[t].fd = Shared /\ thread'[t].own = 1
         /\ UNCHANGED <<mtx, transaction, is_down, sock, conn, released, disturbed>>
<1>1. MasterType
  BY DEF Basics
<1>2. PICK next, fd, own : /\ next = IF cmd = "shell" THEN "open" ELSE "lock"
                           /\ fd = IF cmd = "shell" THEN 0 ELSE Shared
                           /\ own = IF cmd = "shell" THEN 0 ELSE 1
  OBVIOUS
<1>3. PICK f : f = [Idle EXCEPT !.cmd = cmd, !.pc = next, !.fd = fd, !.own = own, !.n = requests + 1]
  OBVIOUS
<1>4. next \in Pcs /\ fd \in Nat /\ own \in Nat /\ requests + 1 \in Nat
  BY <1>1, <1>2, Constants DEF MasterType, Pcs, HoldsMutex, Transport
<1>5. /\ f \in ThreadRecord /\ f.cmd = cmd /\ f.pc = next /\ f.fd = fd /\ f.own = own
      /\ f.result = 0 /\ f.clean = FALSE
  <2>1. Idle \in ThreadRecord /\ Idle.result = 0 /\ Idle.clean = FALSE
    BY IdleTyped DEF IsIdle
  <2> QED BY <1>3, <1>4, <2>1 DEF ThreadRecord
<1>6. /\ thread' = [thread EXCEPT ![t] = f] /\ requests' = requests + 1
      /\ thread[t].pc = "idle"
      /\ UNCHANGED <<mtx, transaction, is_down, sock, conn, released, disturbed>>
  BY <1>2, <1>3 DEF Begin, At
<1>7. thread' \in [Threads -> ThreadRecord] /\ thread'[t] = f /\ Others(t)
  BY <1>1, <1>5, <1>6, OneThread DEF MasterType
<1>8. MasterType'
  BY <1>1, <1>4, <1>6, <1>7 DEF MasterType
<1> QED BY <1>2, <1>5, <1>6, <1>7, <1>8

\* An open takes a free number and a new connection, or fails and ends the command.
LEMMA ConnectEffect ==
  ASSUME Basics, NEW t \in Threads, Connect(t)
  PROVE  /\ MasterType' /\ Others(t) /\ ConnsKept /\ QueuesKept /\ thread[t].pc = "open"
         /\ UNCHANGED <<mtx, transaction, is_down, released, disturbed>>
         /\ \/ IsIdle(thread'[t]) /\ UNCHANGED <<sock, conn>>
            \/ \E s \in Sockets, c \in Conns :
                 /\ sock[s] = 0 /\ conn[c].peer = "none"
                 /\ sock'[s] = c /\ \A r \in Sockets : r # s => sock'[r] = sock[r]
                 /\ conn'[c].peer = "up" /\ conn'[c].number = s
                 /\ \A d \in Conns : d # c => conn'[d] = conn[d]
                 /\ thread'[t].pc = "up" /\ thread'[t].fd = s /\ thread'[t].own = c
                 /\ thread'[t].cmd = thread[t].cmd /\ thread'[t].result = thread[t].result
                 /\ thread'[t].clean = thread[t].clean /\ thread'[t].on = thread[t].on
<1>1. MasterType
  BY DEF Basics
<1>2. /\ thread[t].pc = "open" /\ thread[t] \in ThreadRecord
      /\ UNCHANGED <<mtx, transaction, is_down, requests, released, disturbed>>
  BY <1>1 DEF Connect, At, MasterType
<1>3. CASE Finish(t) /\ UNCHANGED <<sock, conn>>
  <2>1. thread' \in [Threads -> ThreadRecord] /\ Others(t) /\ IsIdle(thread'[t])
    BY <1>1, <1>3, FinishThread DEF MasterType
  <2> QED BY <1>1, <1>2, <1>3, <2>1 DEF MasterType, ConnsKept, QueuesKept, Broken
<1>4. CASE \E s \in Sockets, c \in Conns :
             /\ sock[s] = 0 /\ conn[c] = Unused
             /\ sock' = [sock EXCEPT ![s] = c]
             /\ conn' = [conn EXCEPT ![c].peer = "up", ![c].number = s]
             /\ thread' = [thread EXCEPT ![t].pc = "up", ![t].fd = s, ![t].own = c]
  <2>1. PICK s \in Sockets, c \in Conns :
             /\ sock[s] = 0 /\ conn[c] = Unused
             /\ sock' = [sock EXCEPT ![s] = c]
             /\ conn' = [conn EXCEPT ![c].peer = "up", ![c].number = s]
             /\ thread' = [thread EXCEPT ![t].pc = "up", ![t].fd = s, ![t].own = c]
    BY <1>4
  <2>2. PICK f : f = [thread[t] EXCEPT !.pc = "up", !.fd = s, !.own = c]
    OBVIOUS
  <2>3. s \in Nat /\ c \in Nat
    BY Constants
  <2>4. /\ f \in ThreadRecord /\ f.pc = "up" /\ f.fd = s /\ f.own = c
        /\ f.cmd = thread[t].cmd /\ f.result = thread[t].result
        /\ f.clean = thread[t].clean /\ f.on = thread[t].on
    BY <1>2, <2>2, <2>3 DEF ThreadRecord, Pcs, HoldsMutex, Transport
  <2>5. thread' = [thread EXCEPT ![t] = f]
    BY <1>1, <2>1, <2>2 DEF MasterType
  <2>6. thread' \in [Threads -> ThreadRecord] /\ thread'[t] = f /\ Others(t)
    BY <1>1, <2>4, <2>5, OneThread DEF MasterType
  <2>7. /\ sock' \in [Sockets -> Nat] /\ sock'[s] = c
        /\ \A r \in Sockets : r # s => sock'[r] = sock[r]
    BY <1>1, <2>1, <2>3 DEF MasterType
  <2>8. PICK g : g = [conn[c] EXCEPT !.peer = "up", !.number = s]
    OBVIOUS
  <2>9. conn[c].peer = "none"
    BY <2>1 DEF Unused
  <2>10. /\ g \in ConnRecord /\ g.peer = "up" /\ g.number = s
         /\ g.requests = conn[c].requests /\ g.replies = conn[c].replies
         /\ g.odd = conn[c].odd
    <3>1. conn[c] \in ConnRecord
      BY <1>1 DEF MasterType
    <3> QED BY <2>3, <2>8, <3>1 DEF ConnRecord
  <2>11. conn' = [conn EXCEPT ![c] = g]
    BY <1>1, <2>1, <2>8 DEF MasterType
  <2>12. conn' \in [Conns -> ConnRecord] /\ conn'[c] = g /\ \A d \in Conns : d # c => conn'[d] = conn[d]
    BY <1>1, <2>10, <2>11 DEF MasterType
  <2>13. MasterType'
    BY <1>1, <1>2, <2>6, <2>7, <2>12 DEF MasterType
  <2>14. ConnsKept /\ QueuesKept
    BY <2>9, <2>10, <2>12 DEF ConnsKept, QueuesKept, Broken
  <2> QED BY <1>2, <2>1, <2>4, <2>6, <2>7, <2>9, <2>10, <2>12, <2>13, <2>14
<1> QED BY <1>3, <1>4 DEF Connect

\* Bringup clears is_down.
LEMMA UpEffect ==
  ASSUME Basics, NEW t \in Threads, Up(t)
  PROVE  /\ MasterType' /\ Others(t) /\ thread[t].pc = "up" /\ thread'[t].pc = "lock"
         /\ SameHandle(t) /\ is_down' = FALSE
         /\ thread'[t].result = thread[t].result /\ thread'[t].clean = thread[t].clean
         /\ thread'[t].on = thread[t].on
         /\ UNCHANGED <<mtx, transaction, sock, conn, released, disturbed>>
<1>1. MasterType /\ "lock" \in Pcs
  BY DEF Basics, Pcs, HoldsMutex, Transport
<1>2. thread' \in [Threads -> ThreadRecord]
  BY <1>1, GoThread DEF Up, MasterType
<1> QED BY <1>1, <1>2, GoThread DEF Up, At, MasterType

\* A close frees one number.
LEMMA CloseEffect ==
  ASSUME NEW s \in Sockets, sock \in [Sockets -> Nat], Close(s)
  PROVE  /\ sock' \in [Sockets -> Nat] /\ sock'[s] = 0
         /\ \A r \in Sockets : r # s => sock'[r] = sock[r]
BY DEF Close

\* Shutdown does nothing on a transport that is down already.
LEMMA ShutdownEffect ==
  ASSUME Basics, NEW t \in Threads, Shutdown(t)
  PROVE  /\ MasterType' /\ Others(t) /\ thread[t].pc = "close"
         /\ \/ is_down /\ IsIdle(thread'[t]) /\ released' = released \cup {thread[t].own}
            \/ /\ ~is_down /\ thread'[t].pc = "closing" /\ SameHandle(t)
               /\ thread'[t].result = thread[t].result /\ thread'[t].clean = thread[t].clean
               /\ thread'[t].on = thread[t].on /\ UNCHANGED released
         /\ UNCHANGED <<mtx, transaction, is_down, sock, conn, disturbed>>
<1>1. MasterType /\ "closing" \in Pcs
  BY DEF Basics, Pcs, HoldsMutex, Transport
<1>2. thread[t].pc = "close" /\ thread[t].own \in Conns
  BY DEF Basics, HandleInv, HandleOf, Shutdown, At, HasHandle, Pcs, HoldsMutex, Transport
<1>3. CASE is_down
  <2>1. thread' \in [Threads -> ThreadRecord] /\ Others(t) /\ IsIdle(thread'[t])
    BY <1>1, <1>3, FinishThread DEF Shutdown, MasterType
  <2> QED BY <1>1, <1>2, <1>3, <2>1 DEF Shutdown, Release, MasterType
<1>4. CASE ~is_down
  <2>1. Go(t, "closing")
    BY <1>4 DEF Shutdown
  <2> QED BY <1>1, <1>2, <1>4, <2>1, GoThread DEF Shutdown, MasterType
<1> QED BY <1>3, <1>4

\* Shutdown closes the handle's number, whoever has it now.
LEMMA ShutdownCloseEffect ==
  ASSUME Basics, NEW t \in Threads, ShutdownClose(t)
  PROVE  /\ MasterType' /\ Others(t) /\ thread[t].pc = "closing" /\ thread'[t].pc = "closed"
         /\ SameHandle(t) /\ thread[t].fd \in Sockets /\ sock'[thread[t].fd] = 0
         /\ \A r \in Sockets : r # thread[t].fd => sock'[r] = sock[r]
         /\ thread'[t].result = thread[t].result /\ thread'[t].clean = thread[t].clean
         /\ thread'[t].on = thread[t].on
         /\ UNCHANGED <<mtx, transaction, is_down, conn, released, disturbed>>
<1>1. MasterType /\ "closed" \in Pcs
  BY DEF Basics, Pcs, HoldsMutex, Transport
<1>2. thread[t].pc = "closing" /\ thread[t].fd \in Sockets
  BY DEF Basics, HandleInv, HandleOf, ShutdownClose, At, HasHandle, Pcs, HoldsMutex, Transport
<1>3. /\ sock' \in [Sockets -> Nat] /\ sock'[thread[t].fd] = 0
      /\ \A r \in Sockets : r # thread[t].fd => sock'[r] = sock[r]
  BY <1>1, <1>2, CloseEffect DEF ShutdownClose, MasterType
<1> QED BY <1>1, <1>2, <1>3, GoThread DEF ShutdownClose, MasterType

\* Shutdown marks the transport down, which disturbs every other connection.
LEMMA ShutdownMarkEffect ==
  ASSUME Basics, NEW t \in Threads, ShutdownMark(t)
  PROVE  /\ MasterType' /\ Others(t) /\ thread[t].pc = "closed" /\ IsIdle(thread'[t])
         /\ released' = released \cup {thread[t].own}
         /\ \A c \in Conns : conn[c].peer # "none" /\ c # thread[t].own => c \in disturbed'
         /\ disturbed \subseteq disturbed'
         /\ UNCHANGED <<mtx, transaction, sock, conn>>
<1>1. MasterType
  BY DEF Basics
<1>2. thread[t].pc = "closed" /\ thread[t].own \in Conns
  BY DEF Basics, HandleInv, HandleOf, ShutdownMark, At, HasHandle, Pcs, HoldsMutex, Transport
<1>3. thread' \in [Threads -> ThreadRecord] /\ Others(t) /\ IsIdle(thread'[t])
  BY <1>1, FinishThread DEF ShutdownMark, MasterType
<1>4. \A c \in Conns : conn[c].peer # "none" => conn[c] # Unused
  BY DEF Unused
<1> QED BY <1>1, <1>2, <1>3, <1>4 DEF ShutdownMark, Disturb, Release, MasterType

\* The mutex is taken and the transaction filled in by its owner.
LEMMA LockEffect ==
  ASSUME Basics, NEW t \in Threads, Lock(t)
  PROVE  /\ MasterType' /\ Others(t) /\ SameHandle(t) /\ mtx = Nobody /\ mtx' = t
         /\ transaction'.arg = thread[t].fd
         /\ \/ /\ thread[t].pc = "lock" /\ thread'[t].pc = "tx"
               /\ transaction'.n = thread[t].n
            \/ thread[t].pc = "lock_get" /\ thread'[t].pc = "rx"
         /\ thread'[t].result = thread[t].result /\ thread'[t].clean = thread[t].clean
         /\ thread'[t].on = thread[t].on /\ thread'[t].between = thread[t].between
         /\ UNCHANGED <<is_down, sock, conn, released, disturbed>>
<1>1. MasterType /\ "tx" \in Pcs /\ "rx" \in Pcs
  BY DEF Basics, Pcs, HoldsMutex, Transport
<1>2. thread[t] \in ThreadRecord /\ thread[t].fd \in Nat /\ thread[t].n \in Nat
  BY <1>1 DEF MasterType, ThreadRecord
<1>3. /\ mtx = Nobody /\ mtx' = t /\ Fill(t) /\ thread[t].pc \in {"lock", "lock_get"}
      /\ UNCHANGED <<is_down, sock, conn, requests, released, disturbed>>
  BY DEF Lock
<1>4. CASE thread[t].pc = "lock"
  <2>1. transaction' = [arg |-> thread[t].fd, n |-> thread[t].n] /\ Go(t, "tx")
    BY <1>3, <1>4 DEF Fill, At
  <2>2. /\ transaction' \in [arg : Nat, n : Nat]
        /\ transaction'.arg = thread[t].fd /\ transaction'.n = thread[t].n
    BY <1>2, <2>1
  <2> QED BY <1>1, <1>3, <1>4, <2>1, <2>2, GoThread DEF MasterType
<1>5. CASE thread[t].pc = "lock_get"
  <2>1. transaction' = [transaction EXCEPT !.arg = thread[t].fd] /\ Go(t, "rx")
    BY <1>3, <1>5 DEF Fill, At
  <2>2. transaction' \in [arg : Nat, n : Nat] /\ transaction'.arg = thread[t].fd
    BY <1>1, <1>2, <2>1 DEF MasterType
  <2> QED BY <1>1, <1>3, <1>5, <2>1, <2>2, GoThread DEF MasterType
<1> QED BY <1>3, <1>4, <1>5

\* The socket a thread in the transport uses, and the connection behind it.
LEMMA TransportSocket ==
  ASSUME Basics, NEW t \in Threads, thread[t].pc \in Transport
  PROVE  /\ mtx = t /\ transaction.arg = thread[t].fd /\ thread[t].fd \in Sockets
         /\ sock[thread[t].fd] = 0 \/ sock[thread[t].fd] \in Conns
         /\ thread[t] \in ThreadRecord
BY DEF Basics, MasterType, MutexInv, HandleInv, HandleOf, SocketsInv, HoldsMutex, HasHandle, Pcs, Transport

\* The number of a thread's handle is closed, or its slave is to blame.
Unusable(t) ==
  LET s == thread[t].fd IN sock[s] = 0 \/ (sock[s] \in Conns /\ Broken(sock[s]))

\* A thread keeps what it knows of its request, and of the response.
SameRequest(t) ==
  /\ SameHandle(t) /\ thread'[t].result = thread[t].result
  /\ thread'[t].on = thread[t].on /\ thread'[t].clean = thread[t].clean
  /\ thread'[t].between = thread[t].between

SameResponse(t) == thread'[t].got = thread[t].got /\ thread'[t].from = thread[t].from

\* A step of the transport with a new record f of the thread.
LEMMA TransportThread ==
  ASSUME Basics, NEW t \in Threads, NEW c \in Nat, NEW next \in Pcs, NEW f \in ThreadRecord,
         Leave(t, c, next, f),
         f.cmd = thread[t].cmd, f.fd = thread[t].fd, f.own = thread[t].own, f.n = thread[t].n
  PROVE  /\ thread' \in [Threads -> ThreadRecord] /\ Others(t)
         /\ SameHandle(t) /\ thread'[t].pc = next
         /\ thread'[t].on = f.on /\ thread'[t].clean = f.clean
         /\ thread'[t].result = f.result /\ thread'[t].between = f.between
         /\ thread'[t].got = f.got /\ thread'[t].from = f.from
         /\ \A u \in Threads : u # t /\ c # 0 /\ u \in InGap(c) => thread'[u].between
<1>1. thread \in [Threads -> ThreadRecord]
  BY DEF Basics, MasterType
<1> QED BY <1>1, LeaveOthers

\* mb_tcp_tx appends to the connection behind the number, or fails.
LEMMA TxEffect ==
  ASSUME Basics, NEW t \in Threads, Tx(t)
  PROVE  /\ MasterType' /\ Others(t) /\ SameHandle(t) /\ ConnsKept
         /\ thread[t].pc = "tx" /\ thread'[t].result = thread[t].result
         /\ UNCHANGED <<mtx, transaction, is_down, sock, released, disturbed>>
         /\ \A d \in Conns : /\ conn'[d].replies = conn[d].replies
                             /\ conn'[d].odd = conn[d].odd
         /\ \/ /\ thread'[t].pc = "tx_close" /\ Unusable(t) /\ UNCHANGED conn
               /\ thread'[t].clean = thread[t].clean
            \/ /\ thread'[t].pc = AfterTx(t)
               /\ \E c \in Conns :
                    /\ conn'[c].requests = Append(conn[c].requests, thread[t].n)
                    /\ \A d \in Conns : d # c => conn'[d] = conn[d]
                    /\ thread'[t].on = c
                    /\ thread'[t].clean = (conn[c].requests = <<>> /\ conn[c].replies = <<>>)
                    /\ \A u \in Threads : u # t /\ u \in InGap(c) => thread'[u].between
<1>1. MasterType
  BY DEF Basics
<1>2. /\ thread[t].pc = "tx"
      /\ UNCHANGED <<mtx, transaction, is_down, sock, requests, released, disturbed>>
  BY DEF Tx, At
<1>3. PICK s \in Sockets : /\ s = thread[t].fd /\ s = transaction.arg
                           /\ sock[s] = 0 \/ sock[s] \in Conns
  BY <1>2, TransportSocket DEF Transport
<1>4. PICK c \in Nat : c = sock[s]
  BY <1>1, <1>3 DEF MasterType
<1>5. PICK next \in Pcs : next = AfterTx(t)
  BY DEF AfterTx, Pcs, HoldsMutex, Transport
<1>6. thread[t] \in ThreadRecord /\ transaction.n = thread[t].n /\ thread[t].n \in Nat
  <2>1. thread[t] \in ThreadRecord
    BY <1>1 DEF MasterType
  <2>2. transaction.n = thread[t].n
    BY <1>2 DEF Basics, MutexInv
  <2> QED BY <2>1, <2>2 DEF ThreadRecord
<1>7. \/ /\ c # 0
         /\ conn' = [conn EXCEPT ![c].requests = Append(@, transaction.n)]
         /\ Leave(t, c, next, [thread[t] EXCEPT
              !.on = c, !.clean = conn[c].requests = <<>> /\ conn[c].replies = <<>>])
      \/ /\ c \in {0} \cup Gone
         /\ Leave(t, c, "tx_close", thread[t])
         /\ UNCHANGED conn
  BY <1>3, <1>4, <1>5 DEF Tx
<1>8. CASE /\ c # 0
           /\ conn' = [conn EXCEPT ![c].requests = Append(@, transaction.n)]
           /\ Leave(t, c, next, [thread[t] EXCEPT
                !.on = c, !.clean = conn[c].requests = <<>> /\ conn[c].replies = <<>>])
  <2>1. c \in Conns
    BY <1>3, <1>4, <1>8
  <2>2. PICK clean \in BOOLEAN : clean = (conn[c].requests = <<>> /\ conn[c].replies = <<>>)
    OBVIOUS
  <2>3. PICK f : f = [thread[t] EXCEPT !.on = c, !.clean = clean]
    OBVIOUS
  <2>4. /\ f \in ThreadRecord /\ f.on = c /\ f.clean = clean
        /\ f.cmd = thread[t].cmd /\ f.fd = thread[t].fd /\ f.own = thread[t].own
        /\ f.n = thread[t].n /\ f.result = thread[t].result
    BY <1>6, <2>3 DEF ThreadRecord
  <2>5. Leave(t, c, next, f)
    BY <1>8, <2>2, <2>3
  <2>6. /\ thread' \in [Threads -> ThreadRecord] /\ Others(t)
        /\ SameHandle(t) /\ thread'[t].pc = next
        /\ thread'[t].on = c /\ thread'[t].clean = clean
        /\ thread'[t].result = thread[t].result
        /\ \A u \in Threads : u # t /\ u \in InGap(c) => thread'[u].between
    BY <1>8, <2>4, <2>5, TransportThread
  <2>7. conn[c] \in ConnRecord /\ conn[c].requests \in Seq(Nat)
    BY <1>1, <2>1 DEF MasterType, ConnRecord
  <2>8. PICK q \in Seq(Nat) : q = Append(conn[c].requests, thread[t].n)
    <3>1. PICK old \in Seq(Nat), k \in Nat : old = conn[c].requests /\ k = thread[t].n
      BY <1>6, <2>7
    <3>2. Append(old, k) \in Seq(Nat)
      OBVIOUS
    <3> QED BY <3>1, <3>2
  <2>9. PICK g : g = [conn[c] EXCEPT !.requests = q]
    OBVIOUS
  <2>10. /\ g \in ConnRecord /\ g.requests = q /\ g.replies = conn[c].replies
         /\ g.peer = conn[c].peer /\ g.number = conn[c].number /\ g.odd = conn[c].odd
    BY <2>7, <2>9 DEF ConnRecord
  <2>11. conn' = [conn EXCEPT ![c] = g]
    BY <1>1, <1>6, <1>8, <2>1, <2>8, <2>9 DEF MasterType
  <2>12. conn' \in [Conns -> ConnRecord] /\ conn'[c] = g /\ \A d \in Conns : d # c => conn'[d] = conn[d]
    BY <1>1, <2>1, <2>10, <2>11 DEF MasterType
  <2>13. MasterType'
    BY <1>1, <1>2, <2>6, <2>12 DEF MasterType
  <2>14. ConnsKept
    BY <2>10, <2>12 DEF ConnsKept, Broken
  <2> QED BY <1>2, <1>5, <2>1, <2>2, <2>6, <2>8, <2>10, <2>12, <2>13, <2>14
<1>9. CASE /\ c \in {0} \cup Gone
           /\ Leave(t, c, "tx_close", thread[t])
           /\ UNCHANGED conn
  <2>1. PICK f \in ThreadRecord : f = thread[t]
    BY <1>6
  <2>2. PICK over \in Pcs : over = "tx_close" /\ Leave(t, c, over, f)
    BY <1>9, <2>1 DEF Pcs, HoldsMutex, Transport
  <2>3. /\ thread' \in [Threads -> ThreadRecord] /\ Others(t)
        /\ SameHandle(t) /\ thread'[t].pc = "tx_close"
        /\ thread'[t].clean = thread[t].clean /\ thread'[t].result = thread[t].result
    BY <2>1, <2>2, TransportThread
  <2>4. Unusable(t)
    BY <1>3, <1>4, <1>9 DEF Unusable, Gone, Broken
  <2>5. MasterType' /\ ConnsKept
    BY <1>1, <1>2, <1>9, <2>3 DEF MasterType, ConnsKept, Broken
  <2> QED BY <1>2, <1>9, <2>3, <2>4, <2>5
<1> QED BY <1>7, <1>8, <1>9

\* An error closes the number of the thread's handle.
LEMMA FailCloseEffect ==
  ASSUME Basics, NEW t \in Threads, FailClose(t)
  PROVE  /\ MasterType' /\ Others(t) /\ SameRequest(t) /\ SameResponse(t)
         /\ \/ thread[t].pc = "tx_close" /\ thread'[t].pc = "tx_mark"
            \/ thread[t].pc = "rx_close" /\ thread'[t].pc = "rx_mark"
         /\ thread[t].fd \in Sockets /\ sock'[thread[t].fd] = 0
         /\ \A r \in Sockets : r # thread[t].fd => sock'[r] = sock[r]
         /\ UNCHANGED <<mtx, transaction, is_down, conn, released, disturbed>>
<1>1. MasterType
  BY DEF Basics
<1>2. /\ thread[t].pc \in {"tx_close", "rx_close"}
      /\ UNCHANGED <<mtx, transaction, is_down, conn, requests, released, disturbed>>
  BY DEF FailClose
<1>3. PICK s \in Sockets : s = thread[t].fd /\ s = transaction.arg
  BY <1>2, TransportSocket DEF Transport
<1>4. /\ sock' \in [Sockets -> Nat] /\ sock'[s] = 0
      /\ \A r \in Sockets : r # s => sock'[r] = sock[r]
  BY <1>1, <1>3, CloseEffect DEF FailClose, MasterType
<1>5. PICK next \in Pcs : /\ next = IF At(t, "tx_close") THEN "tx_mark" ELSE "rx_mark"
                          /\ Go(t, next)
  BY DEF FailClose, Pcs, HoldsMutex, Transport
<1>6. /\ thread' \in [Threads -> ThreadRecord] /\ Others(t)
      /\ SameRequest(t) /\ SameResponse(t) /\ thread'[t].pc = next
  BY <1>1, <1>5, GoThread DEF MasterType, SameRequest, SameResponse
<1>7. MasterType'
  BY <1>1, <1>2, <1>4, <1>6 DEF MasterType
<1> QED BY <1>2, <1>3, <1>4, <1>5, <1>6, <1>7 DEF At

\* An error marks the transport down, which disturbs every other connection.
LEMMA FailMarkEffect ==
  ASSUME Basics, NEW t \in Threads, FailMark(t)
  PROVE  /\ MasterType' /\ Others(t) /\ SameRequest(t) /\ SameResponse(t)
         /\ \/ thread[t].pc = "tx_mark" /\ thread'[t].pc = AfterTx(t)
            \/ thread[t].pc = "rx_mark" /\ thread'[t].pc = "unlock"
         /\ \A c \in Conns : conn[c].peer # "none" /\ c # thread[t].own => c \in disturbed'
         /\ disturbed \subseteq disturbed'
         /\ UNCHANGED <<mtx, transaction, sock, conn, released>>
<1>1. MasterType
  BY DEF Basics
<1>2. /\ thread[t].pc \in {"tx_mark", "rx_mark"} /\ is_down' = TRUE /\ Disturb(t)
      /\ UNCHANGED <<mtx, transaction, sock, conn, requests, released>>
  BY DEF FailMark
<1>3. PICK next \in Pcs : /\ next = IF At(t, "tx_mark") THEN AfterTx(t) ELSE "unlock"
                          /\ Go(t, next)
  BY DEF FailMark, AfterTx, Pcs, HoldsMutex, Transport
<1>4. /\ thread' \in [Threads -> ThreadRecord] /\ Others(t)
      /\ SameRequest(t) /\ SameResponse(t) /\ thread'[t].pc = next
  BY <1>1, <1>3, GoThread DEF MasterType, SameRequest, SameResponse
<1>5. \A c \in Conns : conn[c].peer # "none" => conn[c] # Unused
  BY DEF Unused
<1>6. /\ disturbed' \subseteq Conns /\ disturbed \subseteq disturbed'
      /\ \A c \in Conns : conn[c].peer # "none" /\ c # thread[t].own => c \in disturbed'
  BY <1>1, <1>2, <1>5 DEF Disturb, MasterType
<1>7. MasterType'
  BY <1>1, <1>2, <1>4, <1>6 DEF MasterType
<1> QED BY <1>2, <1>3, <1>4, <1>6, <1>7 DEF At

\* mb_tcp_rx finds something to read, and reads the header.
LEMMA RxReadEffect ==
  ASSUME Basics, NEW t \in Threads, RxWait(t) \/ RxHeader(t)
  PROVE  /\ MasterType' /\ Others(t) /\ SameRequest(t)
         /\ thread[t].pc \in {"rx", "header"} /\ thread'[t].pc \in {"header", "body"}
         /\ UNCHANGED <<mtx, transaction, is_down, sock, conn, released, disturbed>>
<1>1. MasterType /\ {"header", "body"} \subseteq Pcs
  BY DEF Basics, Pcs, HoldsMutex, Transport
<1>2. UNCHANGED <<mtx, transaction, is_down, sock, conn, requests, released, disturbed>>
  BY DEF RxWait, RxHeader
<1>3. CASE RxWait(t)
  <2>1. thread[t].pc = "rx" /\ Go(t, "header")
    BY <1>3 DEF RxWait, At
  <2>2. PICK next \in Pcs : next = "header" /\ Go(t, next)
    BY <1>1, <2>1
  <2>3. thread' \in [Threads -> ThreadRecord] /\ Others(t) /\ SameRequest(t) /\ thread'[t].pc = next
    BY <1>1, <2>2, GoThread DEF MasterType, SameRequest
  <2> QED BY <1>1, <1>2, <2>1, <2>2, <2>3 DEF MasterType
<1>4. CASE RxHeader(t)
  <2>1. thread[t].pc = "header"
    BY <1>4 DEF RxHeader, At
  <2>2. thread[t] \in ThreadRecord /\ transaction.arg \in Sockets
    BY <2>1, TransportSocket DEF Transport
  <2>3. PICK c \in Nat : Leave(t, c, "body", [thread[t] EXCEPT !.from = c])
    BY <1>1, <1>4, <2>2 DEF RxHeader, MasterType
  <2>4. PICK f : f = [thread[t] EXCEPT !.from = c]
    OBVIOUS
  <2>5. /\ f \in ThreadRecord /\ f.between = thread[t].between /\ f.result = thread[t].result
        /\ f.cmd = thread[t].cmd /\ f.fd = thread[t].fd /\ f.own = thread[t].own
        /\ f.n = thread[t].n /\ f.on = thread[t].on /\ f.clean = thread[t].clean
    BY <2>2, <2>4 DEF ThreadRecord
  <2>6. PICK next \in Pcs : next = "body" /\ Leave(t, c, next, f)
    BY <1>1, <2>3, <2>4
  <2>7. thread' \in [Threads -> ThreadRecord] /\ Others(t) /\ SameRequest(t) /\ thread'[t].pc = next
    BY <2>5, <2>6, TransportThread DEF SameRequest
  <2> QED BY <1>1, <1>2, <2>1, <2>6, <2>7 DEF MasterType
<1> QED BY <1>3, <1>4

\* A response is the oldest on the connection behind the number.
LEMMA RxBodyEffect ==
  ASSUME Basics, NEW t \in Threads, RxBody(t)
  PROVE  /\ MasterType' /\ Others(t) /\ SameHandle(t) /\ ConnsKept
         /\ thread[t].pc = "body" /\ thread'[t].pc \in {"unlock", "rx_close"}
         /\ thread'[t].clean = thread[t].clean /\ thread'[t].on = thread[t].on
         /\ thread'[t].between = thread[t].between
         /\ UNCHANGED <<mtx, transaction, is_down, sock, released, disturbed>>
         /\ \E c \in Conns :
              /\ c = sock[thread[t].fd] /\ thread'[t].from = c /\ conn[c].replies # <<>>
              /\ thread'[t].got = Head(conn[c].replies).n
              /\ \/ thread'[t].result = 1 /\ thread'[t].pc = "unlock"
                 \/ /\ thread'[t].result = EFRAME_NOK
                    /\ Head(conn[c].replies).kind \in {"empty", "protocol"}
              /\ conn'[c].odd = conn[c].odd
              /\ conn'[c].replies = Tail(conn[c].replies)
              /\ \A d \in Conns : d # c => conn'[d] = conn[d]
              /\ \A u \in Threads : u # t /\ u \in InGap(c) => thread'[u].between
<1>1. MasterType
  BY DEF Basics
<1>2. /\ thread[t].pc = "body"
      /\ UNCHANGED <<mtx, transaction, is_down, sock, requests, released, disturbed>>
  BY DEF RxBody, At
<1>3. PICK c : c = sock[transaction.arg]
  OBVIOUS
<1>4. PICK r : r = Head(conn[c].replies)
  OBVIOUS
<1>5. PICK next, code : /\ next = IF r.kind = "empty" THEN "rx_close" ELSE "unlock"
                        /\ code = IF r.kind = "ok" THEN 1 ELSE EFRAME_NOK
  OBVIOUS
<1>6. /\ c # 0 /\ c = thread[t].from /\ conn[c].replies # <<>> /\ r.kind # "cut"
      /\ conn' = [conn EXCEPT ![c].replies = Tail(@)]
      /\ Leave(t, c, next, [thread[t] EXCEPT !.got = r.n, !.result = code])
  BY <1>3, <1>4, <1>5 DEF RxBody
<1>7. c \in Conns /\ c \in Nat /\ thread[t] \in ThreadRecord /\ c = sock[thread[t].fd]
  BY <1>2, <1>3, <1>6, TransportSocket, Constants DEF Transport
<1>8. conn[c] \in ConnRecord
  BY <1>1, <1>7 DEF MasterType
<1>9. PICK old \in Seq(Reply) : old = conn[c].replies /\ old # <<>>
  BY <1>6, <1>8 DEF ConnRecord
<1>10. PICK rest \in Seq(Reply) : rest = Tail(old)
  <2>1. Tail(old) \in Seq(Reply)
    BY <1>9
  <2> QED BY <2>1
<1>11. r \in Reply
  BY <1>4, <1>9
<1>12. r.n \in Nat /\ r.kind \in {"ok", "empty", "protocol"}
  BY <1>6, <1>11 DEF Reply, Kinds
<1>13. /\ next \in Pcs /\ next \in {"unlock", "rx_close"} /\ code \in Int
       /\ \/ code = 1 /\ next = "unlock"
          \/ code = EFRAME_NOK /\ r.kind \in {"empty", "protocol"}
  BY <1>5, <1>12 DEF Pcs, HoldsMutex, Transport, EFRAME_NOK
<1>14. PICK f : f = [thread[t] EXCEPT !.got = r.n, !.result = code]
  OBVIOUS
<1>15. /\ f \in ThreadRecord /\ f.got = r.n /\ f.from = c /\ f.result = code
       /\ f.cmd = thread[t].cmd /\ f.fd = thread[t].fd /\ f.own = thread[t].own
       /\ f.n = thread[t].n /\ f.on = thread[t].on /\ f.clean = thread[t].clean
       /\ f.between = thread[t].between
  <2>1. PICK k \in Nat, e \in Int : k = r.n /\ e = code
    BY <1>12, <1>13
  <2>2. f = [thread[t] EXCEPT !.got = k, !.result = e]
    BY <1>14, <2>1
  <2>3. /\ f \in ThreadRecord /\ f.got = k /\ f.from = thread[t].from /\ f.result = e
        /\ f.cmd = thread[t].cmd /\ f.fd = thread[t].fd /\ f.own = thread[t].own
        /\ f.n = thread[t].n /\ f.on = thread[t].on /\ f.clean = thread[t].clean
        /\ f.between = thread[t].between
    BY <1>7, <2>2 DEF ThreadRecord
  <2> QED BY <1>6, <2>1, <2>3
<1>16. Leave(t, c, next, f)
  BY <1>6, <1>14
<1>17. /\ thread' \in [Threads -> ThreadRecord] /\ Others(t)
       /\ SameHandle(t) /\ thread'[t].pc = next
       /\ thread'[t].on = f.on /\ thread'[t].clean = f.clean
       /\ thread'[t].result = f.result /\ thread'[t].between = f.between
       /\ thread'[t].got = f.got /\ thread'[t].from = f.from
       /\ \A u \in Threads : u # t /\ c # 0 /\ u \in InGap(c) => thread'[u].between
  BY <1>7, <1>13, <1>15, <1>16, TransportThread
<1>18. PICK g : g = [conn[c] EXCEPT !.replies = rest]
  OBVIOUS
<1>19. /\ g \in ConnRecord /\ g.replies = rest /\ g.requests = conn[c].requests
       /\ g.peer = conn[c].peer /\ g.number = conn[c].number /\ g.odd = conn[c].odd
  BY <1>8, <1>18 DEF ConnRecord
<1>20. conn' = [conn EXCEPT ![c] = g]
  BY <1>1, <1>6, <1>7, <1>9, <1>10, <1>18 DEF MasterType
<1>21. conn' \in [Conns -> ConnRecord] /\ conn'[c] = g /\ \A d \in Conns : d # c => conn'[d] = conn[d]
  BY <1>1, <1>7, <1>19, <1>20 DEF MasterType
<1>22. MasterType'
  BY <1>1, <1>2, <1>17, <1>21 DEF MasterType
<1>23. ConnsKept
  BY <1>19, <1>21 DEF ConnsKept, Broken
<1>24. /\ c = sock[thread[t].fd] /\ thread'[t].from = c /\ conn[c].replies # <<>>
       /\ thread'[t].got = Head(conn[c].replies).n
       /\ \/ thread'[t].result = 1 /\ thread'[t].pc = "unlock"
          \/ /\ thread'[t].result = EFRAME_NOK
             /\ Head(conn[c].replies).kind \in {"empty", "protocol"}
       /\ conn'[c].odd = conn[c].odd
       /\ conn'[c].replies = Tail(conn[c].replies)
  BY <1>4, <1>6, <1>7, <1>9, <1>10, <1>13, <1>15, <1>17, <1>19, <1>21
<1> QED BY <1>2, <1>6, <1>7, <1>13, <1>15, <1>17, <1>21, <1>22, <1>23, <1>24

\* The transport's function goes on with an error code.
LEMMA ResultThread ==
  ASSUME Basics, NEW t \in Threads, NEW c \in Nat, NEW code \in Int, NEW next \in Pcs,
         Leave(t, c, next, [thread[t] EXCEPT !.result = code])
  PROVE  /\ thread' \in [Threads -> ThreadRecord] /\ Others(t) /\ SameHandle(t)
         /\ thread'[t].pc = next /\ thread'[t].result = code
         /\ thread'[t].clean = thread[t].clean /\ thread'[t].on = thread[t].on
<1>1. thread[t] \in ThreadRecord
  BY DEF Basics, MasterType
<1>2. PICK f : f = [thread[t] EXCEPT !.result = code]
  OBVIOUS
<1>3. /\ f \in ThreadRecord /\ f.result = code
      /\ f.cmd = thread[t].cmd /\ f.fd = thread[t].fd /\ f.own = thread[t].own
      /\ f.n = thread[t].n /\ f.on = thread[t].on /\ f.clean = thread[t].clean
  BY <1>1, <1>2 DEF ThreadRecord
<1>4. Leave(t, c, next, f)
  BY <1>2
<1> QED BY <1>3, <1>4, TransportThread

\* A receive that finds the socket or the connection closed is an error.
LEMMA RxClosedEffect ==
  ASSUME Basics, NEW t \in Threads, RxClosed(t)
  PROVE  /\ MasterType' /\ Others(t) /\ SameHandle(t) /\ Unusable(t)
         /\ thread[t].pc \in {"rx", "header", "body"}
         /\ thread'[t].pc = "rx_close" /\ thread'[t].result = EFRAME_NOK
         /\ thread'[t].clean = thread[t].clean /\ thread'[t].on = thread[t].on
         /\ UNCHANGED <<mtx, transaction, is_down, sock, conn, released, disturbed>>
<1>1. MasterType
  BY DEF Basics
<1>2. /\ thread[t].pc \in {"rx", "header", "body"}
      /\ UNCHANGED <<mtx, transaction, is_down, sock, conn, requests, released, disturbed>>
  BY DEF RxClosed
<1>3. PICK s \in Sockets : /\ s = thread[t].fd /\ s = transaction.arg
                           /\ sock[s] = 0 \/ sock[s] \in Conns
  BY <1>2, TransportSocket DEF Transport
<1>4. PICK c \in Nat : c = sock[s]
  BY <1>1, <1>3 DEF MasterType
<1>5. /\ c = 0 \/ c \in Gone
      /\ Leave(t, c, "rx_close", [thread[t] EXCEPT !.result = EFRAME_NOK])
  BY <1>3, <1>4 DEF RxClosed
<1>6. PICK next \in Pcs, code \in Int : /\ next = "rx_close" /\ code = EFRAME_NOK
                           /\ Leave(t, c, next, [thread[t] EXCEPT !.result = code])
  BY <1>5 DEF Pcs, HoldsMutex, Transport, EFRAME_NOK
<1>7. /\ thread' \in [Threads -> ThreadRecord] /\ Others(t) /\ SameHandle(t)
      /\ thread'[t].pc = next /\ thread'[t].result = code
      /\ thread'[t].clean = thread[t].clean /\ thread'[t].on = thread[t].on
  BY <1>6, ResultThread
<1>8. Unusable(t)
  BY <1>3, <1>4, <1>5 DEF Unusable, Gone, Broken
<1>9. MasterType'
  BY <1>1, <1>2, <1>7 DEF MasterType
<1> QED BY <1>2, <1>6, <1>7, <1>8, <1>9

\* A timeout leaves everything but the result alone.
LEMMA RxTimeoutEffect ==
  ASSUME Basics, NEW t \in Threads, RxTimeout(t)
  PROVE  /\ MasterType' /\ Others(t) /\ SameHandle(t)
         /\ thread[t].pc = "rx" /\ thread'[t].pc = "unlock" /\ thread'[t].result = ETIMEOUT
         /\ thread'[t].clean = thread[t].clean /\ thread'[t].on = thread[t].on
         /\ UNCHANGED <<mtx, transaction, is_down, sock, conn, released, disturbed>>
<1>1. MasterType
  BY DEF Basics
<1>2. /\ thread[t].pc = "rx"
      /\ UNCHANGED <<mtx, transaction, is_down, sock, conn, requests, released, disturbed>>
  BY DEF RxTimeout, At
<1>3. transaction.arg \in Sockets
  BY <1>2, TransportSocket DEF Transport
<1>4. PICK c \in Nat : Leave(t, c, "unlock", [thread[t] EXCEPT !.result = ETIMEOUT])
  BY <1>1, <1>3 DEF RxTimeout, MasterType
<1>5. PICK next \in Pcs, code \in Int : /\ next = "unlock" /\ code = ETIMEOUT
                           /\ Leave(t, c, next, [thread[t] EXCEPT !.result = code])
  BY <1>4 DEF Pcs, HoldsMutex, Transport, ETIMEOUT
<1>6. /\ thread' \in [Threads -> ThreadRecord] /\ Others(t) /\ SameHandle(t)
      /\ thread'[t].pc = next /\ thread'[t].result = code
      /\ thread'[t].clean = thread[t].clean /\ thread'[t].on = thread[t].on
  BY <1>5, ResultThread
<1> QED BY <1>1, <1>2, <1>5, <1>6 DEF MasterType

\* The mutex is free again and the caller goes on or ends.
LEMMA UnlockEffect ==
  ASSUME Basics, NEW t \in Threads, Unlock(t)
  PROVE  /\ MasterType' /\ Others(t) /\ mtx' = Nobody
         /\ UNCHANGED <<transaction, is_down, sock, conn, released, disturbed>>
         /\ \/ /\ thread[t].pc = "unlock_send" /\ thread'[t].pc = "lock_get" /\ SameHandle(t)
               /\ thread'[t].result = thread[t].result /\ thread'[t].clean = thread[t].clean
               /\ thread'[t].on = thread[t].on /\ thread'[t].between = thread[t].between
            \/ /\ thread[t].pc = "unlock" /\ thread[t].cmd = "shell" /\ thread'[t].pc = "close"
               /\ thread'[t].cmd = "shell" /\ thread'[t].fd = thread[t].fd
               /\ thread'[t].own = thread[t].own
               /\ thread'[t].result = 0 /\ thread'[t].clean = FALSE
            \/ thread[t].pc = "unlock" /\ IsIdle(thread'[t])
<1>1. MasterType /\ "lock_get" \in Pcs
  BY DEF Basics, Pcs, HoldsMutex, Transport
<1>2. /\ thread[t].pc \in {"unlock", "unlock_send"} /\ mtx' = Nobody
      /\ UNCHANGED <<transaction, is_down, sock, conn, requests, released, disturbed>>
      /\ thread[t] \in ThreadRecord
  BY <1>1 DEF Unlock, MasterType
<1>3. CASE thread[t].pc = "unlock_send"
  <2>1. thread[t].cmd # "shell"
    BY <1>3 DEF Basics, HandleInv, HandleOf
  <2>2. Go(t, "lock_get")
    BY <1>3, <2>1, Zenon DEF Unlock, At
  <2> QED BY <1>1, <1>2, <1>3, <2>2, GoThread DEF MasterType
<1>4. CASE thread[t].pc = "unlock" /\ thread[t].cmd = "shell"
  <2>1. PICK f : f = [Idle EXCEPT !.pc = "close", !.fd = thread[t].fd, !.own = thread[t].own]
    OBVIOUS
  <2>2. thread' = [thread EXCEPT ![t] = f]
    BY <1>4, <2>1 DEF Unlock, At
  <2>3. Idle \in ThreadRecord /\ Idle.result = 0 /\ Idle.clean = FALSE /\ Idle.cmd = "shell"
    BY IdleTyped DEF IsIdle
  <2>4. thread[t].fd \in Nat /\ thread[t].own \in Nat
    BY <1>2 DEF ThreadRecord
  <2>5. /\ f \in ThreadRecord /\ f.pc = "close" /\ f.fd = thread[t].fd /\ f.own = thread[t].own
        /\ f.cmd = "shell" /\ f.result = 0 /\ f.clean = FALSE
    BY <2>1, <2>3, <2>4 DEF ThreadRecord, Pcs, HoldsMutex, Transport
  <2>6. thread' \in [Threads -> ThreadRecord] /\ thread'[t] = f /\ Others(t)
    BY <1>1, <2>2, <2>5, OneThread DEF MasterType
  <2> QED BY <1>1, <1>2, <1>4, <2>5, <2>6 DEF MasterType
<1>5. CASE thread[t].pc = "unlock" /\ thread[t].cmd # "shell"
  <2>1. Finish(t)
    BY <1>5 DEF Unlock, At
  <2>2. thread' \in [Threads -> ThreadRecord] /\ Others(t) /\ IsIdle(thread'[t])
    BY <1>1, <2>1, FinishThread DEF MasterType
  <2> QED BY <1>1, <1>2, <1>5, <2>2 DEF MasterType
<1> QED BY <1>2, <1>3, <1>4, <1>5

\* The slaves' steps: a request is answered, in order, or something happens to
\* the connection.
LEMMA SlaveEffect ==
  ASSUME Basics, NEW c \in Conns,
         (\E kind \in Kinds : Answer(c, kind)) \/ PeerStall(c) \/ PeerClose(c)
  PROVE  /\ MasterType' /\ ConnsKept
         /\ \A d \in Conns : d # c => conn'[d] = conn[d]
         /\ \/ /\ conn'[c].requests = conn[c].requests /\ conn'[c].replies = conn[c].replies
               /\ conn'[c].odd = conn[c].odd
            \/ /\ conn[c].requests # <<>> /\ conn'[c].requests = Tail(conn[c].requests)
               /\ \E r \in Reply :
                    /\ conn'[c].replies = Append(conn[c].replies, r)
                    /\ r.n = Head(conn[c].requests)
                    /\ conn[c].odd \/ r.kind \in {"empty", "protocol"} => conn'[c].odd
         /\ UNCHANGED <<mtx, transaction, is_down, sock, thread, released, disturbed>>
<1>1. MasterType
  BY DEF Basics
<1>2. conn[c] \in ConnRecord /\ conn \in [Conns -> ConnRecord]
  BY <1>1 DEF MasterType
<1>3. UNCHANGED <<mtx, transaction, is_down, sock, thread, requests, released, disturbed>>
  BY DEF Answer, PeerStall, PeerClose
<1>4. ASSUME NEW kind \in Kinds, Answer(c, kind)
      PROVE  /\ MasterType' /\ ConnsKept
             /\ \A d \in Conns : d # c => conn'[d] = conn[d]
             /\ conn[c].requests # <<>> /\ conn'[c].requests = Tail(conn[c].requests)
             /\ \E r \in Reply :
                  /\ conn'[c].replies = Append(conn[c].replies, r)
                  /\ r.n = Head(conn[c].requests)
                  /\ conn[c].odd \/ r.kind \in {"empty", "protocol"} => conn'[c].odd
  <2>1. PICK asked \in Seq(Nat), said \in Seq(Reply) :
          asked = conn[c].requests /\ said = conn[c].replies
    BY <1>2 DEF ConnRecord
  <2>2. PICK r : r = [n |-> Head(conn[c].requests), kind |-> kind]
    OBVIOUS
  <2>3. PICK odd \in BOOLEAN : odd = (conn[c].odd \/ kind \in {"empty", "protocol"})
    OBVIOUS
  <2>4. /\ asked # <<>>
        /\ conn' = [conn EXCEPT ![c].requests = Tail(@), ![c].replies = Append(@, r),
                                ![c].odd = @ \/ kind \in {"empty", "protocol"}]
    BY <1>4, <2>1, <2>2 DEF Answer
  <2>5. r \in Reply /\ r.n = Head(asked) /\ r.kind = kind
    <3>1. Head(asked) \in Nat
      BY <2>4
    <3> QED BY <2>1, <2>2, <3>1 DEF Reply
  <2>6. PICK rest \in Seq(Nat), more \in Seq(Reply) : rest = Tail(asked) /\ more = Append(said, r)
    <3>1. Tail(asked) \in Seq(Nat)
      BY <2>4
    <3>2. Append(said, r) \in Seq(Reply)
      BY <2>5
    <3> QED BY <3>1, <3>2
  <2>7. PICK g : g = [conn[c] EXCEPT !.requests = rest, !.replies = more, !.odd = odd]
    OBVIOUS
  <2>8. /\ g \in ConnRecord /\ g.requests = rest /\ g.replies = more /\ g.odd = odd
        /\ g.peer = conn[c].peer /\ g.number = conn[c].number
    BY <1>2, <2>7 DEF ConnRecord
  <2>9. conn' = [conn EXCEPT ![c] = g]
    BY <1>2, <2>1, <2>3, <2>4, <2>6, <2>7
  <2>10. conn' \in [Conns -> ConnRecord] /\ conn'[c] = g /\ \A d \in Conns : d # c => conn'[d] = conn[d]
    BY <1>2, <2>8, <2>9
  <2>11. MasterType'
    BY <1>1, <1>3, <2>10 DEF MasterType
  <2>12. ConnsKept
    BY <2>3, <2>8, <2>10 DEF ConnsKept, Broken
  <2> QED BY <2>1, <2>3, <2>4, <2>5, <2>6, <2>8, <2>10, <2>11, <2>12
<1>5. ASSUME PeerStall(c) \/ PeerClose(c)
      PROVE  /\ MasterType' /\ ConnsKept
             /\ \A d \in Conns : d # c => conn'[d] = conn[d]
             /\ conn'[c].requests = conn[c].requests /\ conn'[c].replies = conn[c].replies
             /\ conn'[c].odd = conn[c].odd
  <2>1. PICK peer : /\ conn' = [conn EXCEPT ![c].peer = peer] /\ peer \in {"stalled", "gone"}
                    /\ conn[c].peer = "gone" => peer = "gone"
    BY <1>5 DEF PeerStall, PeerClose
  <2>2. PICK g : g = [conn[c] EXCEPT !.peer = peer]
    OBVIOUS
  <2>3. /\ g \in ConnRecord /\ g.requests = conn[c].requests /\ g.replies = conn[c].replies
        /\ g.peer = peer /\ g.number = conn[c].number /\ g.odd = conn[c].odd
    BY <1>2, <2>1, <2>2 DEF ConnRecord
  <2>4. conn' \in [Conns -> ConnRecord] /\ conn'[c] = g /\ \A d \in Conns : d # c => conn'[d] = conn[d]
    BY <1>2, <2>1, <2>2, <2>3
  <2>5. MasterType'
    BY <1>1, <1>3, <2>4 DEF MasterType
  <2>6. ConnsKept
    BY <2>1, <2>3, <2>4 DEF ConnsKept, Broken
  <2> QED BY <2>3, <2>4, <2>5, <2>6
<1> QED BY <1>3, <1>4, <1>5

------------------------------------------------------------------------------
(* The mutex and the handles. *)

\* A step outside the critical sections.
LEMMA MutexKept ==
  ASSUME MutexInv, NEW t \in Threads, Others(t), UNCHANGED <<mtx, transaction>>,
         thread'[t].pc \notin HoldsMutex
  PROVE  MutexInv'
BY DEF MutexInv, Others, Same, SameHandle, HoldsMutex, Transport

\* A step keeps the owner of the mutex the one thread in a critical section.
LEMMA MutexStep == ASSUME Basics, [Next]_vars PROVE MutexInv'
<1> USE DEF HoldsMutex, Transport
<1>1. MutexInv /\ Nobody \notin Threads
  BY Constants DEF Basics
<1>2. CASE UNCHANGED vars
  BY <1>1, <1>2 DEF vars, MutexInv
<1>3. ASSUME NEW t \in Threads, NEW cmd \in Commands, Begin(t, cmd) PROVE MutexInv'
  <2>1. /\ Others(t) /\ thread'[t].pc \in {"open", "lock"} /\ UNCHANGED <<mtx, transaction>>
    BY <1>3, BeginEffect
  <2> QED BY <1>1, <2>1, MutexKept
<1>4. ASSUME NEW t \in Threads, Connect(t) PROVE MutexInv'
  <2>1. /\ Others(t) /\ thread'[t].pc \in {"idle", "up"} /\ UNCHANGED <<mtx, transaction>>
    BY <1>4, ConnectEffect DEF IsIdle
  <2> QED BY <1>1, <2>1, MutexKept
<1>5. ASSUME NEW t \in Threads, Up(t) PROVE MutexInv'
  <2>1. /\ Others(t) /\ thread'[t].pc = "lock" /\ UNCHANGED <<mtx, transaction>>
    BY <1>5, UpEffect
  <2> QED BY <1>1, <2>1, MutexKept
<1>6. ASSUME NEW t \in Threads, Shutdown(t) PROVE MutexInv'
  <2>1. /\ Others(t) /\ thread'[t].pc \in {"idle", "closing"} /\ UNCHANGED <<mtx, transaction>>
    BY <1>6, ShutdownEffect DEF IsIdle
  <2> QED BY <1>1, <2>1, MutexKept
<1>7. ASSUME NEW t \in Threads, ShutdownClose(t) PROVE MutexInv'
  <2>1. /\ Others(t) /\ thread'[t].pc = "closed" /\ UNCHANGED <<mtx, transaction>>
    BY <1>7, ShutdownCloseEffect
  <2> QED BY <1>1, <2>1, MutexKept
<1>8. ASSUME NEW t \in Threads, ShutdownMark(t) PROVE MutexInv'
  <2>1. /\ Others(t) /\ thread'[t].pc = "idle" /\ UNCHANGED <<mtx, transaction>>
    BY <1>8, ShutdownMarkEffect DEF IsIdle
  <2> QED BY <1>1, <2>1, MutexKept
<1>9. ASSUME NEW t \in Threads, Lock(t) PROVE MutexInv'
  BY <1>1, <1>9, LockEffect DEF MutexInv, Others, Same, SameHandle
<1>10. ASSUME NEW t \in Threads, Tx(t) PROVE MutexInv'
  BY <1>1, <1>10, TxEffect DEF MutexInv, Others, Same, SameHandle, AfterTx
<1>11. ASSUME NEW t \in Threads, RxBody(t) \/ RxClosed(t) \/ RxTimeout(t) PROVE MutexInv'
  <2>1. /\ Others(t) /\ SameHandle(t) /\ UNCHANGED <<mtx, transaction>>
        /\ thread[t].pc \in {"rx", "header", "body"} /\ thread'[t].pc \in {"unlock", "rx_close"}
    BY <1>11, RxBodyEffect, RxClosedEffect, RxTimeoutEffect
  <2> QED BY <1>1, <2>1 DEF MutexInv, Others, Same, SameHandle
<1>12. ASSUME NEW t \in Threads, FailClose(t) \/ FailMark(t) PROVE MutexInv'
  <2>1. /\ Others(t) /\ SameHandle(t) /\ UNCHANGED <<mtx, transaction>>
        /\ thread[t].pc \in Transport /\ thread'[t].pc \in HoldsMutex \ {"tx"}
    BY <1>12, FailCloseEffect, FailMarkEffect DEF SameRequest, AfterTx
  <2> QED BY <1>1, <2>1 DEF MutexInv, Others, Same, SameHandle
<1>13. ASSUME NEW t \in Threads, RxWait(t) \/ RxHeader(t) PROVE MutexInv'
  BY <1>1, <1>13, RxReadEffect DEF MutexInv, Others, Same, SameHandle, SameRequest
<1>14. ASSUME NEW t \in Threads, Unlock(t) PROVE MutexInv'
  <2>1. Others(t) /\ thread'[t].pc \notin HoldsMutex /\ thread[t].pc \in HoldsMutex
    BY <1>14, UnlockEffect DEF IsIdle
  <2>2. mtx = t /\ mtx' = Nobody /\ UNCHANGED transaction
    BY <1>1, <1>14, <2>1, UnlockEffect DEF MutexInv
  <2> QED BY <1>1, <2>1, <2>2 DEF MutexInv, Others, Same, SameHandle
<1>15. ASSUME NEW c \in Conns, (\E kind \in Kinds : Answer(c, kind)) \/ PeerStall(c) \/ PeerClose(c)
       PROVE  MutexInv'
  BY <1>1, <1>15, SlaveEffect DEF MutexInv
<1> QED BY <1>2, <1>3, <1>4, <1>5, <1>6, <1>7, <1>8, <1>9, <1>10, <1>11, <1>12, <1>13,
           <1>14, <1>15 DEF Next, Step

\* Connections that are left alone are kept.
LEMMA SameConns == ASSUME UNCHANGED conn PROVE ConnsKept
BY DEF ConnsKept, Broken

\* A step that opens no number.
LEMMA SocketsKept ==
  ASSUME Basics, ConnsKept, \A s \in Sockets : sock'[s] = sock[s] \/ sock'[s] = 0
  PROVE  SocketsInv'
BY Constants DEF Basics, HandleInv, SocketsInv, ConnsKept

\* A thread keeps its handle over the steps of the others.
LEMMA HandlesKept ==
  ASSUME Basics, NEW t \in Threads, Others(t), ConnsKept, SocketsInv', HandleOf(t)'
  PROVE  HandleInv'
<1>1. ASSUME NEW u \in Threads, u # t PROVE HandleOf(u)'
  <2>1. Same(u) /\ HandleOf(u)
    BY <1>1 DEF Others, Basics, HandleInv
  <2> QED BY <2>1 DEF Same, SameHandle, HandleOf, ConnsKept, HasHandle
<1> QED BY <1>1 DEF HandleInv

\* A step in which a thread keeps its handle.
LEMMA SameHandleKept ==
  ASSUME Basics, NEW t \in Threads, Others(t), ConnsKept, SameHandle(t),
         \A s \in Sockets : sock'[s] = sock[s] \/ sock'[s] = 0,
         thread[t].pc \in HasHandle,
         thread'[t].pc \in ShellOnly => thread[t].pc \in ShellOnly,
         thread'[t].pc \in {"unlock_send", "lock_get"} => thread[t].cmd = "raw",
         thread'[t].result # 0 => thread'[t].pc \in {"rx_close", "rx_mark", "unlock"}
  PROVE  HandleInv'
<1>1. HandleOf(t)
  BY DEF Basics, HandleInv
<1>2. HandleOf(t)'
  BY <1>1 DEF SameHandle, HandleOf, ConnsKept
<1> QED BY <1>2, SocketsKept, HandlesKept

\* A step after which a thread has no handle.
LEMMA IdleKept ==
  ASSUME Basics, NEW t \in Threads, Others(t), UNCHANGED <<sock, conn>>, IsIdle(thread'[t])
  PROVE  HandleInv'
<1>1. HandleOf(t)'
  BY DEF IsIdle, HandleOf, HasHandle, ShellOnly
<1>2. ConnsKept /\ SocketsInv'
  BY SameConns, SocketsKept
<1> QED BY <1>1, <1>2, HandlesKept

\* A step keeps what is known of a thread's handle.
LEMMA HandleStep == ASSUME Basics, [Next]_vars PROVE HandleInv'
<1> USE DEF HasHandle, ShellOnly, Pcs, HoldsMutex, Transport
<1>1. MasterType /\ MutexInv /\ HandleInv /\ \A t \in Threads : HandleOf(t)
  BY DEF Basics, HandleInv
<1>2. CASE UNCHANGED vars
  BY <1>1, <1>2 DEF vars, HandleInv, HandleOf, SocketsInv
<1>3. ASSUME NEW t \in Threads, NEW cmd \in Commands, Begin(t, cmd) PROVE HandleInv'
  <2>1. /\ Others(t) /\ UNCHANGED <<sock, conn>>
        /\ thread'[t].cmd = cmd /\ thread'[t].result = 0
        /\ cmd = "shell" => thread'[t].pc = "open"
        /\ cmd # "shell" => /\ thread'[t].pc = "lock"
                            /\ thread'[t].fd = Shared /\ thread'[t].own = 1
    BY <1>3, BeginEffect
  <2>2. ConnsKept /\ SocketsInv'
    BY <2>1, SameConns, SocketsKept
  <2>3. HandleOf(t)'
    BY <2>1, <2>2, Constants DEF HandleOf, SocketsInv
  <2> QED BY <2>1, <2>2, <2>3, HandlesKept
<1>4. ASSUME NEW t \in Threads, Connect(t) PROVE HandleInv'
  <2>1. Others(t) /\ ConnsKept /\ thread[t].pc = "open"
    BY <1>4, ConnectEffect
  <2>2. thread[t].cmd = "shell" /\ thread[t].result = 0
    BY <1>1, <2>1 DEF HandleOf
  <2>3. CASE IsIdle(thread'[t]) /\ UNCHANGED <<sock, conn>>
    BY <2>1, <2>3, IdleKept
  <2>4. ASSUME NEW s \in Sockets, NEW c \in Conns,
               /\ sock[s] = 0 /\ conn[c].peer = "none"
               /\ sock'[s] = c /\ \A r \in Sockets : r # s => sock'[r] = sock[r]
               /\ conn'[c].peer = "up" /\ conn'[c].number = s
               /\ thread'[t].pc = "up" /\ thread'[t].fd = s /\ thread'[t].own = c
               /\ thread'[t].cmd = thread[t].cmd /\ thread'[t].result = thread[t].result
        PROVE  HandleInv'
    <3>1. conn[1].peer # "none" /\ SocketsInv
      BY <1>1 DEF HandleInv, SocketsInv
    <3>2. SocketsInv'
      <4>1. conn'[1].peer # "none" /\ conn'[1].number = Shared
        BY <2>1, <3>1, Constants DEF SocketsInv, ConnsKept
      <4>2. ASSUME NEW r \in Sockets, sock'[r] # 0
            PROVE  sock'[r] \in Conns /\ conn'[sock'[r]].peer # "none" /\ conn'[sock'[r]].number = r
        <5>1. CASE r = s
          BY <2>4, <5>1
        <5>2. CASE r # s
          <6>1. /\ sock'[r] = sock[r] /\ sock[r] \in Conns /\ conn[sock[r]].peer # "none"
                /\ conn[sock[r]].number = r
            BY <2>4, <3>1, <4>2, <5>2 DEF SocketsInv
          <6> QED BY <2>1, <6>1 DEF ConnsKept
        <5> QED BY <5>1, <5>2
      <4> QED BY <4>1, <4>2 DEF SocketsInv
    <3>3. HandleOf(t)'
      BY <2>2, <2>4, <3>1 DEF HandleOf
    <3> QED BY <2>1, <3>2, <3>3, HandlesKept
  <2> QED BY <1>4, <2>3, <2>4, ConnectEffect
<1>5. ASSUME NEW t \in Threads, Up(t) PROVE HandleInv'
  <2>1. /\ Others(t) /\ thread[t].pc = "up" /\ thread'[t].pc = "lock" /\ SameHandle(t)
        /\ thread'[t].result = thread[t].result /\ UNCHANGED <<sock, conn>>
    BY <1>5, UpEffect
  <2>2. thread[t].result = 0
    BY <1>1, <2>1 DEF HandleOf
  <2> QED BY <2>1, <2>2, SameConns, SameHandleKept
<1>6. ASSUME NEW t \in Threads, Shutdown(t) PROVE HandleInv'
  <2>1. /\ Others(t) /\ thread[t].pc = "close" /\ UNCHANGED <<sock, conn>>
        /\ \/ IsIdle(thread'[t])
           \/ /\ thread'[t].pc = "closing" /\ SameHandle(t)
              /\ thread'[t].result = thread[t].result
    BY <1>6, ShutdownEffect
  <2>2. thread[t].result = 0
    BY <1>1, <2>1 DEF HandleOf
  <2> QED BY <2>1, <2>2, SameConns, SameHandleKept, IdleKept
<1>7. ASSUME NEW t \in Threads, ShutdownClose(t) PROVE HandleInv'
  <2>1. /\ Others(t) /\ thread[t].pc = "closing" /\ thread'[t].pc = "closed"
        /\ SameHandle(t) /\ UNCHANGED conn /\ thread'[t].result = thread[t].result
        /\ \A r \in Sockets : sock'[r] = sock[r] \/ sock'[r] = 0
    BY <1>7, ShutdownCloseEffect
  <2>2. thread[t].result = 0
    BY <1>1, <2>1 DEF HandleOf
  <2> QED BY <2>1, <2>2, SameConns, SameHandleKept
<1>8. ASSUME NEW t \in Threads, ShutdownMark(t) PROVE HandleInv'
  BY <1>8, ShutdownMarkEffect, IdleKept
<1>9. ASSUME NEW t \in Threads, Lock(t) PROVE HandleInv'
  <2>1. /\ Others(t) /\ SameHandle(t) /\ UNCHANGED <<sock, conn>>
        /\ thread[t].pc \in {"lock", "lock_get"} /\ thread'[t].pc \in {"tx", "rx"}
        /\ thread'[t].result = thread[t].result
    BY <1>9, LockEffect
  <2>2. thread[t].result = 0
    BY <1>1, <2>1 DEF HandleOf
  <2> QED BY <2>1, <2>2, SameConns, SameHandleKept
<1>10. ASSUME NEW t \in Threads, Tx(t) PROVE HandleInv'
  <2>1. /\ Others(t) /\ SameHandle(t) /\ ConnsKept /\ UNCHANGED sock /\ thread[t].pc = "tx"
        /\ thread'[t].pc = "tx_close" \/ thread'[t].pc = AfterTx(t)
        /\ thread'[t].result = thread[t].result
    BY <1>10, TxEffect
  <2>2. thread[t].result = 0
    BY <1>1, <2>1 DEF HandleOf
  <2> QED BY <2>1, <2>2, SameHandleKept DEF AfterTx
<1>11. ASSUME NEW t \in Threads, RxBody(t) \/ RxClosed(t) \/ RxTimeout(t) PROVE HandleInv'
  <2>1. /\ Others(t) /\ SameHandle(t) /\ ConnsKept /\ UNCHANGED sock
        /\ thread[t].pc \in {"rx", "header", "body"} /\ thread'[t].pc \in {"unlock", "rx_close"}
    BY <1>11, RxBodyEffect, RxClosedEffect, RxTimeoutEffect, SameConns
  <2> QED BY <2>1, SameHandleKept
<1>12. ASSUME NEW t \in Threads, FailClose(t) \/ FailMark(t) PROVE HandleInv'
  <2>1. /\ Others(t) /\ SameHandle(t) /\ UNCHANGED conn
        /\ thread'[t].result = thread[t].result
        /\ \/ thread[t].pc = "tx_close" /\ thread'[t].pc = "tx_mark"
           \/ thread[t].pc = "rx_close" /\ thread'[t].pc = "rx_mark"
           \/ thread[t].pc = "tx_mark" /\ thread'[t].pc = AfterTx(t)
           \/ thread[t].pc = "rx_mark" /\ thread'[t].pc = "unlock"
        /\ \A s \in Sockets : sock'[s] = sock[s] \/ sock'[s] = 0
    BY <1>12, FailCloseEffect, FailMarkEffect DEF SameRequest
  <2>2. thread[t].pc \in {"tx_close", "tx_mark"} => thread[t].result = 0
    BY <1>1 DEF HandleOf
  <2> QED BY <2>1, <2>2, SameConns, SameHandleKept DEF AfterTx
<1>13. ASSUME NEW t \in Threads, RxWait(t) \/ RxHeader(t) PROVE HandleInv'
  <2>1. /\ Others(t) /\ SameHandle(t) /\ UNCHANGED <<sock, conn>>
        /\ thread[t].pc \in {"rx", "header"} /\ thread'[t].pc \in {"header", "body"}
        /\ thread'[t].result = thread[t].result
    BY <1>13, RxReadEffect DEF SameRequest
  <2>2. thread[t].result = 0
    BY <1>1, <2>1 DEF HandleOf
  <2> QED BY <2>1, <2>2, SameConns, SameHandleKept
<1>14. ASSUME NEW t \in Threads, Unlock(t) PROVE HandleInv'
  <2>1. Others(t) /\ UNCHANGED <<sock, conn>>
    BY <1>14, UnlockEffect
  <2>2. CASE thread[t].pc = "unlock_send" /\ thread'[t].pc = "lock_get" /\ SameHandle(t)
             /\ thread'[t].result = thread[t].result
    <3>1. thread[t].result = 0 /\ thread[t].cmd = "raw"
      BY <1>1, <2>2 DEF HandleOf
    <3> QED BY <2>1, <2>2, <3>1, SameConns, SameHandleKept
  <2>3. CASE /\ thread[t].pc = "unlock" /\ thread[t].cmd = "shell" /\ thread'[t].pc = "close"
             /\ thread'[t].cmd = "shell" /\ thread'[t].fd = thread[t].fd
             /\ thread'[t].own = thread[t].own /\ thread'[t].result = 0
    <3>1. ConnsKept /\ SocketsInv'
      BY <2>1, SameConns, SocketsKept
    <3>2. HandleOf(t)'
      BY <1>1, <2>1, <2>3 DEF HandleOf
    <3> QED BY <2>1, <3>1, <3>2, HandlesKept
  <2>4. CASE IsIdle(thread'[t])
    BY <2>1, <2>4, IdleKept
  <2> QED BY <1>14, <2>2, <2>3, <2>4, UnlockEffect
<1>15. ASSUME NEW c \in Conns, (\E kind \in Kinds : Answer(c, kind)) \/ PeerStall(c) \/ PeerClose(c)
       PROVE  HandleInv'
  <2>1. ConnsKept /\ UNCHANGED <<sock, thread>>
    BY <1>15, SlaveEffect
  <2>2. SocketsInv'
    BY <2>1, SocketsKept
  <2> QED BY <1>1, <2>1, <2>2 DEF HandleInv, HandleOf, ConnsKept
<1> QED BY <1>2, <1>3, <1>4, <1>5, <1>6, <1>7, <1>8, <1>9, <1>10, <1>11, <1>12, <1>13,
           <1>14, <1>15 DEF Next, Step

\* A step keeps the part of the invariants that all theorems share.
LEMMA BasicsStep == ASSUME Basics, [Next]_vars PROVE Basics'
<1>1. MasterType
  BY DEF Basics
<1>2. CASE UNCHANGED vars
  BY <1>1, <1>2, MutexStep, HandleStep DEF vars, MasterType, Basics
<1>3. CASE Next
  <2>1. MasterType'
    BY <1>3, BeginEffect, ConnectEffect, UpEffect, ShutdownEffect, ShutdownCloseEffect,
       ShutdownMarkEffect, LockEffect, TxEffect, FailCloseEffect, FailMarkEffect, RxReadEffect,
       RxBodyEffect, RxClosedEffect, RxTimeoutEffect, UnlockEffect, SlaveEffect DEF Next, Step
  <2> QED BY <1>3, <2>1, MutexStep, HandleStep DEF Basics
<1> QED BY <1>2, <1>3

\* That part always holds.
LEMMA BasicsAlways == Spec => []Basics
<1>1. Init => Basics
  <2> SUFFICES ASSUME Init PROVE Basics
    OBVIOUS
  <2>1. Idle \in ThreadRecord /\ IsIdle(Idle) /\ \A t \in Threads : thread[t] = Idle
    BY IdleTyped DEF Init
  <2>2. Unused \in ConnRecord /\ [Unused EXCEPT !.peer = "up", !.number = Shared] \in ConnRecord
    <3>1. <<>> \in Seq(Nat) /\ <<>> \in Seq(Reply)
      OBVIOUS
    <3>2. Unused \in ConnRecord
      BY <3>1 DEF Unused, ConnRecord
    <3>3. PICK u \in ConnRecord : u = Unused
      BY <3>2
    <3>4. [u EXCEPT !.peer = "up", !.number = Shared] \in ConnRecord
      BY Constants DEF ConnRecord
    <3> QED BY <3>2, <3>3, <3>4
  <2>3. conn[1].peer = "up" /\ conn[1].number = Shared
    BY Constants DEF Init, Unused
  <2>4. conn \in [Conns -> ConnRecord]
    BY <2>2 DEF Init
  <2>5. sock \in [Sockets -> Nat] /\ \A s \in Sockets : sock[s] # 0 => s = Shared /\ sock[s] = 1
    BY DEF Init
  <2>6. MasterType
    BY <2>1, <2>4, <2>5 DEF Init, MasterType
  <2>7. MutexInv
    BY <2>1 DEF IsIdle, MutexInv, HoldsMutex, Transport
  <2>8. SocketsInv
    BY <2>3, <2>5, Constants DEF SocketsInv
  <2>9. HandleInv
    BY <2>1, <2>8 DEF IsIdle, HandleInv, HandleOf, HasHandle, ShellOnly
  <2> QED BY <2>6, <2>7, <2>9 DEF Basics
<1>2. Basics /\ [Next]_vars => Basics'
  BY BasicsStep
<1> QED BY <1>1, <1>2, PTL DEF Spec

------------------------------------------------------------------------------
(* Failures. *)

\* A broken connection stays broken.
LEMMA DeadKept == ASSUME ConnsKept PROVE Dead \subseteq Dead'
<1>1. ASSUME NEW c \in Conns, Broken(c)
      PROVE  Broken(c)' /\ conn'[c].number = conn[c].number
  BY <1>1 DEF ConnsKept, Broken
<1> QED BY <1>1 DEF Dead

\* A step of thread t: the numbers it closes, and what it relies on itself.
LEMMA DeadOthers ==
  ASSUME DeadInv, NEW t \in Threads, Others(t), ConnsKept, HandleInv, Shared \in Sockets,
         \A s \in Sockets : sock'[s] = 0 =>
           \/ sock[s] = 0
           \/ s \in Dead
           \/ s # Shared /\ \A u \in Threads : u # t /\ Uses(u) => thread[u].fd # s,
         Uses(t)' =>
           /\ sock'[thread'[t].fd] = 0 => thread'[t].fd \in Dead'
           /\ thread'[t].cmd = "shell" /\ thread'[t].fd = Shared => Shared \in Dead'
           /\ InError(t)' => thread'[t].fd \in Dead',
         Uses(t)' /\ thread'[t].cmd = "shell" =>
           \A u \in Threads :
             u # t /\ Uses(u) /\ thread[u].cmd = "shell" /\ thread[u].fd = thread'[t].fd
             => thread[u].fd \in Dead'
  PROVE  DeadInv'
<1>1. sock'[Shared] = 0 => Shared \in Dead'
  BY DeadKept DEF DeadInv
<1>2. ASSUME NEW u \in Threads, u # t, Uses(u)'
      PROVE  /\ Uses(u) /\ Same(u) /\ thread[u].fd \in Sockets
             /\ sock'[thread[u].fd] = 0 => thread[u].fd \in Dead'
             /\ thread[u].cmd = "shell" /\ thread[u].fd = Shared => Shared \in Dead'
             /\ InError(u) => thread[u].fd \in Dead'
  <2>1. Same(u) /\ Uses(u)
    BY <1>2 DEF Others, Same, Uses
  <2>2. thread[u].fd \in Sockets
    BY <2>1 DEF HandleInv, HandleOf, Uses
  <2>3. PICK s \in Sockets : s = thread[u].fd
    BY <2>2
  <2>4. sock'[s] = 0 => s \in Dead'
    BY <1>2, <2>1, <2>3, DeadKept DEF DeadInv
  <2>5. thread[u].cmd = "shell" /\ s = Shared => Shared \in Dead'
    BY <2>1, <2>3, DeadKept DEF DeadInv
  <2>6. InError(u) => s \in Dead'
    BY <2>1, <2>3, DeadKept DEF DeadInv
  <2> QED BY <2>1, <2>3, <2>4, <2>5, <2>6
<1>3. ASSUME NEW u \in Threads, Uses(u)'
      PROVE  /\ sock'[thread'[u].fd] = 0 => thread'[u].fd \in Dead'
             /\ thread'[u].cmd = "shell" /\ thread'[u].fd = Shared => Shared \in Dead'
             /\ InError(u)' => thread'[u].fd \in Dead'
  <2>1. CASE u = t
    BY <1>3, <2>1
  <2>2. CASE u # t
    BY <1>2, <1>3, <2>2 DEF Same, SameHandle, InError
  <2> QED BY <2>1, <2>2
<1>4. ASSUME NEW u \in Threads, NEW v \in Threads, u # v, Uses(u)', Uses(v)',
             thread'[u].cmd = "shell", thread'[v].cmd = "shell", thread'[u].fd = thread'[v].fd
      PROVE  thread'[u].fd \in Dead'
  <2>1. CASE u # t /\ v # t
    <3>1. /\ Uses(u) /\ Uses(v) /\ thread[u].cmd = "shell" /\ thread[v].cmd = "shell"
          /\ thread[u].fd = thread[v].fd /\ thread'[u].fd = thread[u].fd
      BY <1>2, <1>4, <2>1 DEF Same, SameHandle
    <3>2. PICK s : s = thread[u].fd /\ s \in Dead
      BY <1>4, <3>1 DEF DeadInv
    <3> QED BY <3>1, <3>2, DeadKept
  <2>2. CASE u = t
    <3>1. Uses(v) /\ thread[v].cmd = "shell" /\ thread[v].fd = thread'[t].fd
      BY <1>2, <1>4, <2>2 DEF Same, SameHandle
    <3>2. thread[v].fd \in Dead'
      BY <1>4, <2>2, <3>1
    <3> QED BY <2>2, <3>1, <3>2
  <2>3. CASE v = t
    <3>1. Uses(u) /\ thread[u].cmd = "shell" /\ thread[u].fd = thread'[t].fd
      BY <1>2, <1>4, <2>3 DEF Same, SameHandle
    <3>2. thread[u].fd \in Dead'
      BY <1>4, <2>3, <3>1
    <3>3. thread'[u].fd = thread[u].fd
      BY <1>4, <2>3, <3>1
    <3> QED BY <3>2, <3>3
  <2> QED BY <2>1, <2>2, <2>3
<1> QED BY <1>1, <1>3, <1>4 DEF DeadInv

\* A step in which thread t keeps its handle.
LEMMA DeadSame ==
  ASSUME Basics, DeadInv, NEW t \in Threads, Others(t), ConnsKept, Uses(t),
         thread'[t].fd = thread[t].fd, thread'[t].cmd = thread[t].cmd,
         \A s \in Sockets : sock'[s] = 0 => sock[s] = 0 \/ s \in Dead,
         InError(t)' => thread[t].fd \in Dead
  PROVE  DeadInv'
<1>1. HandleInv /\ Shared \in Sockets /\ thread[t].fd \in Sockets
  BY Constants DEF Basics, HandleInv, HandleOf, Uses
<1>2. Dead \subseteq Dead'
  BY DeadKept
<1>3. sock'[thread[t].fd] = 0 => thread[t].fd \in Dead
  BY <1>1 DEF DeadInv
<1>4. thread[t].cmd = "shell" /\ thread[t].fd = Shared => Shared \in Dead
  BY DEF DeadInv
<1>5. thread[t].cmd = "shell" =>
        \A u \in Threads :
          u # t /\ Uses(u) /\ thread[u].cmd = "shell" /\ thread[u].fd = thread[t].fd
          => thread[u].fd \in Dead
  BY DEF DeadInv
<1> QED BY <1>1, <1>2, <1>3, <1>4, <1>5, DeadOthers

\* A step after which thread t has no open handle.
LEMMA DeadNone ==
  ASSUME Basics, DeadInv, NEW t \in Threads, Others(t), ConnsKept, ~Uses(t)',
         \A s \in Sockets : sock'[s] = 0 =>
           \/ sock[s] = 0
           \/ s \in Dead
           \/ s # Shared /\ \A u \in Threads : u # t /\ Uses(u) => thread[u].fd # s
  PROVE  DeadInv'
<1>1. HandleInv /\ Shared \in Sockets
  BY Constants DEF Basics
<1> QED BY <1>1, DeadOthers

\* The number of an unusable handle is dead.
LEMMA UnusableDead ==
  ASSUME Basics, DeadInv, NEW t \in Threads, thread[t].pc \in Transport, Unusable(t)
  PROVE  thread[t].fd \in Dead
<1>1. Uses(t) /\ thread[t].fd \in Sockets
  BY TransportSocket DEF Uses, HasHandle, Pcs, HoldsMutex, Transport
<1>2. CASE sock[thread[t].fd] = 0
  BY <1>1, <1>2 DEF DeadInv
<1>3. CASE sock[thread[t].fd] # 0
  <2>1. PICK c \in Conns : c = sock[thread[t].fd] /\ Broken(c)
    BY <1>3 DEF Unusable
  <2>2. conn[c].number = thread[t].fd
    BY <1>1, <1>3, <2>1 DEF Basics, HandleInv, SocketsInv
  <2> QED BY <2>1, <2>2 DEF Dead
<1> QED BY <1>2, <1>3

\* A step that appends to no queue of responses, but for an answer.
LEMMA OddStep == ASSUME Basics, OddInv, [Next]_vars PROVE OddInv'
<1>1. MasterType
  BY DEF Basics
<1>2. CASE \A c \in Conns : conn'[c].replies = conn[c].replies /\ conn'[c].odd = conn[c].odd
  BY <1>2 DEF OddInv
<1>3. ASSUME NEW t \in Threads, RxBody(t) PROVE OddInv'
  <2>1. PICK c \in Conns :
          /\ conn[c].replies # <<>> /\ conn'[c].replies = Tail(conn[c].replies)
          /\ conn'[c].odd = conn[c].odd /\ \A d \in Conns : d # c => conn'[d] = conn[d]
    BY <1>3, RxBodyEffect
  <2>2. PICK q \in Seq(Reply) : q = conn[c].replies
    <3>1. conn[c] \in ConnRecord
      BY <1>1 DEF MasterType
    <3> QED BY <3>1 DEF ConnRecord
  <2>3. Len(Tail(q)) = Len(q) - 1 /\ \A i \in 1 .. Len(q) - 1 : Tail(q)[i] = q[i + 1]
    BY <2>1, <2>2
  <2>4. ASSUME NEW i \in 1 .. Len(Tail(q)), Tail(q)[i].kind \in {"empty", "protocol"}
        PROVE  conn[c].odd
    <3>1. i + 1 \in 1 .. Len(q) /\ q[i + 1] = Tail(q)[i]
      BY <2>3
    <3> QED BY <2>2, <2>4, <3>1 DEF OddInv
  <2> QED BY <2>1, <2>2, <2>4 DEF OddInv
<1>4. ASSUME NEW c \in Conns, NEW r \in Reply,
             conn'[c].replies = Append(conn[c].replies, r),
             conn[c].odd \/ r.kind \in {"empty", "protocol"} => conn'[c].odd,
             \A d \in Conns : d # c => conn'[d] = conn[d]
      PROVE  OddInv'
  <2>1. PICK q \in Seq(Reply) : q = conn[c].replies
    <3>1. conn[c] \in ConnRecord
      BY <1>1 DEF MasterType
    <3> QED BY <3>1 DEF ConnRecord
  <2>2. /\ Len(Append(q, r)) = Len(q) + 1 /\ Append(q, r)[Len(q) + 1] = r
        /\ \A i \in 1 .. Len(q) : Append(q, r)[i] = q[i]
    OBVIOUS
  <2>3. \A i \in 1 .. Len(q) + 1 : i \in 1 .. Len(q) \/ i = Len(q) + 1
    OBVIOUS
  <2>4. ASSUME NEW i \in 1 .. Len(Append(q, r)),
               Append(q, r)[i].kind \in {"empty", "protocol"}
        PROVE  conn'[c].odd
    BY <1>4, <2>1, <2>2, <2>3, <2>4 DEF OddInv
  <2> QED BY <1>4, <2>1, <2>4 DEF OddInv
<1>5. ASSUME NEW c \in Conns, (\E kind \in Kinds : Answer(c, kind)) \/ PeerStall(c) \/ PeerClose(c)
      PROVE  OddInv'
  BY <1>2, <1>4, <1>5, SlaveEffect
<1>6. ASSUME NEW t \in Threads, Connect(t) \/ Tx(t) PROVE OddInv'
  BY <1>2, <1>6, ConnectEffect, TxEffect DEF QueuesKept
<1>7. CASE UNCHANGED conn
  BY <1>2, <1>7
<1>8. ASSUME NEW t \in Threads, NEW cmd \in Commands, Begin(t, cmd) PROVE UNCHANGED conn
  BY <1>8 DEF Begin
<1>9. ASSUME NEW t \in Threads,
             Up(t) \/ Shutdown(t) \/ ShutdownClose(t) \/ ShutdownMark(t) \/ Lock(t) \/ Unlock(t)
      PROVE  UNCHANGED conn
  BY <1>9 DEF Up, Shutdown, ShutdownClose, ShutdownMark, Lock, Unlock
<1>10. ASSUME NEW t \in Threads,
              \/ FailClose(t) \/ FailMark(t) \/ RxWait(t) \/ RxHeader(t)
              \/ RxClosed(t) \/ RxTimeout(t)
       PROVE  UNCHANGED conn
  BY <1>10 DEF FailClose, FailMark, RxWait, RxHeader, RxClosed, RxTimeout
<1> QED BY <1>3, <1>5, <1>6, <1>7, <1>8, <1>9, <1>10 DEF Next, Step, vars

\* A step keeps what is known of numbers that were closed under a thread.
LEMMA DeadStep == ASSUME Basics, OddInv, DeadInv, [Next]_vars PROVE DeadInv'
<1> USE DEF HasHandle, Pcs, HoldsMutex, Transport
<1>1. /\ HandleInv /\ \A t \in Threads : HandleOf(t)
      /\ EFRAME_NOK # 0 /\ EFRAME_NOK # 1 /\ EFRAME_NOK # ETIMEOUT
  BY DEF Basics, HandleInv, EFRAME_NOK, ETIMEOUT
<1>2. CASE UNCHANGED vars
  BY <1>2 DEF vars, DeadInv, Uses, InError, Dead, Broken
<1>3. ASSUME NEW t \in Threads, NEW cmd \in Commands, Begin(t, cmd) PROVE DeadInv'
  <2>1. /\ Others(t) /\ UNCHANGED <<sock, conn>>
        /\ thread'[t].cmd = cmd /\ thread'[t].result = 0
        /\ cmd = "shell" => thread'[t].pc = "open"
        /\ cmd # "shell" => thread'[t].pc = "lock" /\ thread'[t].fd = Shared
    BY <1>3, BeginEffect
  <2>2. ConnsKept /\ Dead \subseteq Dead'
    BY <2>1, SameConns, DeadKept
  <2>3. CASE cmd = "shell"
    <3>1. ~Uses(t)'
      BY <2>1, <2>3 DEF Uses
    <3> QED BY <2>1, <2>2, <3>1, DeadNone
  <2>4. CASE cmd # "shell"
    <3>1. sock'[Shared] = 0 => Shared \in Dead'
      BY <2>1, <2>2 DEF DeadInv
    <3>2. ~InError(t)'
      BY <1>1, <2>1, <2>4 DEF InError
    <3> QED BY <1>1, <2>1, <2>2, <2>4, <3>1, <3>2, Constants, DeadOthers
  <2> QED BY <2>3, <2>4
<1>4. ASSUME NEW t \in Threads, Connect(t) PROVE DeadInv'
  <2>1. Others(t) /\ ConnsKept /\ thread[t].pc = "open" /\ Dead \subseteq Dead'
    BY <1>4, ConnectEffect, DeadKept
  <2>2. thread[t].result = 0
    BY <1>1, <2>1 DEF HandleOf
  <2>3. CASE IsIdle(thread'[t]) /\ UNCHANGED <<sock, conn>>
    <3>1. ~Uses(t)'
      BY <2>3 DEF Uses, IsIdle
    <3> QED BY <2>1, <2>3, <3>1, DeadNone
  <2>4. ASSUME NEW s \in Sockets, NEW c \in Conns,
               /\ sock[s] = 0
               /\ sock'[s] = c /\ \A r \in Sockets : r # s => sock'[r] = sock[r]
               /\ thread'[t].fd = s /\ thread'[t].result = thread[t].result
               /\ thread'[t].pc = "up"
        PROVE  DeadInv'
    <3>1. sock'[s] # 0 /\ ~InError(t)'
      BY <1>1, <2>2, <2>4, Constants DEF InError
    <3>2. s = Shared => Shared \in Dead'
      BY <2>1, <2>4 DEF DeadInv
    <3>3. \A u \in Threads : u # t /\ Uses(u) /\ thread[u].fd = s => s \in Dead'
      BY <2>1, <2>4 DEF DeadInv
    <3>4. \A r \in Sockets : sock'[r] = 0 => sock[r] = 0
      BY <2>4, <3>1
    <3> QED BY <1>1, <2>1, <2>4, <3>1, <3>2, <3>3, <3>4, Constants, DeadOthers
  <2> QED BY <1>4, <2>3, <2>4, ConnectEffect
<1>5. ASSUME NEW t \in Threads, Up(t) PROVE DeadInv'
  <2>1. /\ Others(t) /\ thread[t].pc = "up" /\ thread'[t].pc = "lock" /\ SameHandle(t)
        /\ thread'[t].result = thread[t].result /\ UNCHANGED <<sock, conn>>
    BY <1>5, UpEffect
  <2>2. thread[t].result = 0 /\ Uses(t) /\ ConnsKept
    BY <1>1, <2>1, SameConns DEF HandleOf, Uses
  <2>3. ~InError(t)'
    BY <1>1, <2>1, <2>2 DEF InError
  <2> QED BY <2>1, <2>2, <2>3, DeadSame DEF SameHandle
<1>6. ASSUME NEW t \in Threads, Shutdown(t) PROVE DeadInv'
  <2>1. /\ Others(t) /\ thread[t].pc = "close" /\ UNCHANGED <<sock, conn>>
        /\ \/ IsIdle(thread'[t])
           \/ /\ thread'[t].pc = "closing" /\ SameHandle(t)
              /\ thread'[t].result = thread[t].result
    BY <1>6, ShutdownEffect
  <2>2. thread[t].result = 0 /\ Uses(t) /\ ConnsKept
    BY <1>1, <2>1, SameConns DEF HandleOf, Uses
  <2>3. IsIdle(thread'[t]) => ~Uses(t)'
    BY DEF IsIdle, Uses
  <2>4. thread'[t].pc = "closing" /\ thread'[t].result = thread[t].result => ~InError(t)'
    BY <1>1, <2>2 DEF InError
  <2> QED BY <2>1, <2>2, <2>3, <2>4, DeadSame, DeadNone DEF SameHandle
<1>7. ASSUME NEW t \in Threads, ShutdownClose(t) PROVE DeadInv'
  <2>1. /\ Others(t) /\ thread[t].pc = "closing" /\ thread'[t].pc = "closed"
        /\ UNCHANGED conn
        /\ \A r \in Sockets : r # thread[t].fd => sock'[r] = sock[r]
    BY <1>7, ShutdownCloseEffect
  <2>2. ~Uses(t)' /\ Uses(t) /\ ConnsKept /\ thread[t].cmd = "shell"
    BY <1>1, <2>1, SameConns DEF Uses, HandleOf, ShellOnly
  <2>3. thread[t].fd \in Dead
          \/ (thread[t].fd # Shared /\ \A u \in Threads : u # t /\ Uses(u) => thread[u].fd # thread[t].fd)
    <3> SUFFICES ASSUME thread[t].fd # Shared, NEW u \in Threads, u # t, Uses(u),
                        thread[u].fd = thread[t].fd
                 PROVE  thread[t].fd \in Dead
      BY <2>2 DEF DeadInv
    <3>1. thread[u].cmd = "shell"
      BY <1>1 DEF HandleOf, Uses
    <3> QED BY <2>2, <3>1 DEF DeadInv
  <2> QED BY <2>1, <2>2, <2>3, DeadNone
<1>8. ASSUME NEW t \in Threads, ShutdownMark(t) PROVE DeadInv'
  <2>1. Others(t) /\ IsIdle(thread'[t]) /\ UNCHANGED <<sock, conn>>
    BY <1>8, ShutdownMarkEffect
  <2>2. ~Uses(t)' /\ ConnsKept
    BY <2>1, SameConns DEF IsIdle, Uses
  <2> QED BY <2>1, <2>2, DeadNone
<1>9. ASSUME NEW t \in Threads, Lock(t) PROVE DeadInv'
  <2>1. /\ Others(t) /\ SameHandle(t) /\ UNCHANGED <<sock, conn>>
        /\ thread[t].pc \in {"lock", "lock_get"} /\ thread'[t].pc \in {"tx", "rx"}
        /\ thread'[t].result = thread[t].result
    BY <1>9, LockEffect
  <2>2. thread[t].result = 0 /\ Uses(t) /\ ConnsKept
    BY <1>1, <2>1, SameConns DEF HandleOf, Uses
  <2>3. ~InError(t)'
    BY <1>1, <2>1, <2>2 DEF InError
  <2> QED BY <2>1, <2>2, <2>3, DeadSame DEF SameHandle
<1>10. ASSUME NEW t \in Threads, Tx(t) PROVE DeadInv'
  <2>1. /\ Others(t) /\ SameHandle(t) /\ ConnsKept /\ thread[t].pc = "tx"
        /\ thread'[t].result = thread[t].result /\ UNCHANGED sock
        /\ \/ thread'[t].pc = "tx_close" /\ Unusable(t)
           \/ thread'[t].pc = AfterTx(t)
    BY <1>10, TxEffect
  <2>2. thread[t].result = 0 /\ Uses(t)
    BY <1>1, <2>1 DEF HandleOf, Uses
  <2>3. InError(t)' => thread[t].fd \in Dead
    BY <1>1, <2>1, <2>2, UnusableDead DEF InError, AfterTx
  <2> QED BY <2>1, <2>2, <2>3, DeadSame DEF SameHandle
<1>11. ASSUME NEW t \in Threads, RxBody(t) PROVE DeadInv'
  <2>1. /\ Others(t) /\ SameHandle(t) /\ ConnsKept /\ UNCHANGED sock /\ thread[t].pc = "body"
    BY <1>11, RxBodyEffect
  <2>2. PICK c \in Conns :
          /\ c = sock[thread[t].fd] /\ conn[c].replies # <<>>
          /\ \/ thread'[t].result = 1 /\ thread'[t].pc = "unlock"
             \/ Head(conn[c].replies).kind \in {"empty", "protocol"}
    BY <1>11, RxBodyEffect
  <2>3. InError(t)' => thread[t].fd \in Dead
    <3> SUFFICES ASSUME Head(conn[c].replies).kind \in {"empty", "protocol"}
                 PROVE  thread[t].fd \in Dead
      BY <1>1, <2>2 DEF InError
    <3>1. conn[c] \in ConnRecord
      BY DEF Basics, MasterType
    <3>2. PICK q \in Seq(Reply) : q = conn[c].replies /\ q # <<>>
      BY <2>2, <3>1 DEF ConnRecord
    <3>3. 1 \in 1 .. Len(q) /\ q[1] = Head(q)
      BY <3>2
    <3>4. conn[c].odd /\ conn[c].peer # "none"
      BY <2>1, <2>2, <3>2, <3>3, TransportSocket, Constants
         DEF OddInv, Basics, HandleInv, SocketsInv
    <3>5. Unusable(t)
      BY <2>2, <3>4 DEF Unusable, Broken
    <3> QED BY <2>1, <3>5, UnusableDead
  <2>4. Uses(t)
    BY <2>1 DEF Uses
  <2> QED BY <2>1, <2>3, <2>4, DeadSame DEF SameHandle
<1>12. ASSUME NEW t \in Threads, RxClosed(t) PROVE DeadInv'
  <2>1. /\ Others(t) /\ SameHandle(t) /\ Unusable(t) /\ UNCHANGED <<sock, conn>>
        /\ thread[t].pc \in {"rx", "header", "body"}
    BY <1>12, RxClosedEffect
  <2>2. Uses(t) /\ ConnsKept
    BY <2>1, SameConns DEF Uses
  <2>3. thread[t].fd \in Dead
    BY <2>1, UnusableDead
  <2> QED BY <2>1, <2>2, <2>3, DeadSame DEF SameHandle
<1>13. ASSUME NEW t \in Threads, RxTimeout(t) PROVE DeadInv'
  <2>1. /\ Others(t) /\ SameHandle(t) /\ UNCHANGED <<sock, conn>>
        /\ thread[t].pc = "rx" /\ thread'[t].result = ETIMEOUT /\ thread'[t].pc = "unlock"
    BY <1>13, RxTimeoutEffect
  <2>2. Uses(t) /\ ConnsKept /\ ~InError(t)'
    BY <1>1, <2>1, SameConns DEF Uses, InError
  <2> QED BY <2>1, <2>2, DeadSame DEF SameHandle
<1>16. ASSUME NEW t \in Threads, RxWait(t) \/ RxHeader(t) PROVE DeadInv'
  <2>1. /\ Others(t) /\ SameHandle(t) /\ UNCHANGED <<sock, conn>>
        /\ thread[t].pc \in {"rx", "header"} /\ thread'[t].pc \in {"header", "body"}
        /\ thread'[t].result = thread[t].result
    BY <1>16, RxReadEffect DEF SameRequest
  <2>2. Uses(t) /\ ConnsKept /\ thread[t].result = 0
    BY <1>1, <2>1, SameConns DEF Uses, HandleOf
  <2>3. ~InError(t)'
    BY <1>1, <2>1, <2>2 DEF InError
  <2> QED BY <2>1, <2>2, <2>3, DeadSame DEF SameHandle
<1>17. ASSUME NEW t \in Threads, FailClose(t) PROVE DeadInv'
  <2>1. /\ Others(t) /\ SameHandle(t) /\ UNCHANGED conn
        /\ thread[t].pc \in {"tx_close", "rx_close"}
        /\ \A r \in Sockets : r # thread[t].fd => sock'[r] = sock[r]
    BY <1>17, FailCloseEffect DEF SameRequest
  <2>2. Uses(t) /\ ConnsKept
    BY <2>1, SameConns DEF Uses
  <2>3. thread[t].fd \in Dead
    BY <2>1, <2>2 DEF DeadInv, InError
  <2> QED BY <2>1, <2>2, <2>3, DeadSame DEF SameHandle
<1>18. ASSUME NEW t \in Threads, FailMark(t) PROVE DeadInv'
  <2>1. /\ Others(t) /\ SameHandle(t) /\ UNCHANGED <<sock, conn>>
        /\ thread[t].pc \in {"tx_mark", "rx_mark"}
        /\ thread'[t].pc \in {"unlock_send", "rx", "unlock"}
        /\ thread'[t].result = thread[t].result
    BY <1>18, FailMarkEffect DEF SameRequest, AfterTx
  <2>2. Uses(t) /\ ConnsKept
    BY <2>1, SameConns DEF Uses
  <2>3. InError(t)' => thread[t].fd \in Dead
    BY <2>1, <2>2 DEF DeadInv, InError
  <2> QED BY <2>1, <2>2, <2>3, DeadSame DEF SameHandle
<1>14. ASSUME NEW t \in Threads, Unlock(t) PROVE DeadInv'
  <2>1. /\ Others(t) /\ UNCHANGED <<sock, conn>> /\ thread[t].pc \in {"unlock", "unlock_send"}
    BY <1>14, UnlockEffect
  <2>2. Uses(t) /\ ConnsKept
    BY <2>1, SameConns DEF Uses
  <2>3. CASE IsIdle(thread'[t])
    <3>1. ~Uses(t)'
      BY <2>3 DEF Uses, IsIdle
    <3> QED BY <2>1, <2>2, <3>1, DeadNone
  <2>4. CASE /\ thread'[t].fd = thread[t].fd /\ thread'[t].cmd = thread[t].cmd
             /\ thread'[t].result = 0 /\ thread'[t].pc \in {"lock_get", "close"}
    <3>1. ~InError(t)'
      BY <1>1, <2>4 DEF InError
    <3> QED BY <2>1, <2>2, <2>4, <3>1, DeadSame
  <2>5. thread[t].pc = "unlock_send" => thread[t].result = 0
    BY <1>1 DEF HandleOf
  <2> QED BY <1>14, <2>3, <2>4, <2>5, UnlockEffect DEF SameHandle
<1>15. ASSUME NEW c \in Conns, (\E kind \in Kinds : Answer(c, kind)) \/ PeerStall(c) \/ PeerClose(c)
       PROVE  DeadInv'
  <2>1. Dead \subseteq Dead' /\ UNCHANGED <<sock, thread>>
    BY <1>15, SlaveEffect, DeadKept
  <2> QED BY <2>1 DEF DeadInv, Uses, InError
<1> QED BY <1>2, <1>3, <1>4, <1>5, <1>6, <1>7, <1>8, <1>9, <1>10, <1>11, <1>12, <1>13,
           <1>14, <1>15, <1>16, <1>17, <1>18 DEF Next, Step

\* A call returns EFRAME_NOK only when a slave that had the socket number of the
\* call's handle has gone, or has sent a response without a body or of another
\* protocol: no other failure of the shared transport shows.
THEOREM FailuresAlwaysFollowNumbers == Spec => []FailuresFollowNumbers
<1>1. Init => OddInv /\ DeadInv
  <2> SUFFICES ASSUME Init PROVE OddInv /\ DeadInv
    OBVIOUS
  <2>1. \A c \in Conns : conn[c].replies = <<>>
    BY DEF Init, Unused
  <2>2. OddInv
    BY <2>1 DEF OddInv
  <2>3. DeadInv
    BY Constants, IdleTyped DEF Init, DeadInv, Uses, IsIdle, HasHandle
  <2> QED BY <2>2, <2>3
<1>2. Basics /\ OddInv /\ DeadInv /\ [Next]_vars => OddInv' /\ DeadInv'
  BY OddStep, DeadStep
<1>3. Basics /\ DeadInv => FailuresFollowNumbers
  <2> SUFFICES ASSUME Basics, DeadInv, NEW t \in Threads, thread[t].result = EFRAME_NOK
               PROVE  \E c \in Conns : (conn[c].peer = "gone" \/ conn[c].odd)
                                      /\ conn[c].number = thread[t].fd
    BY DEF FailuresFollowNumbers
  <2>1. thread[t].pc \in {"rx_close", "rx_mark", "unlock"}
    BY DEF Basics, HandleInv, HandleOf, EFRAME_NOK
  <2>2. thread[t].fd \in Dead
    BY <2>1 DEF DeadInv, InError, Uses, HasHandle, Pcs, HoldsMutex, Transport
  <2> QED BY <2>2 DEF Dead, Broken
<1> QED BY <1>1, <1>2, <1>3, BasicsAlways, PTL DEF Spec

------------------------------------------------------------------------------
(* Connections that mb_close leaves open. *)

\* Thread t keeps its connection over the step, has none after it, or has a new one.
LEMMA OwnersKept ==
  ASSUME Basics, OwnersDiffer, NEW t \in Threads, Others(t),
         thread'[t].pc \in HasHandle =>
           \/ /\ thread[t].pc \in HasHandle
              /\ thread'[t].own = thread[t].own /\ thread'[t].cmd = thread[t].cmd
           \/ thread'[t].cmd # "shell" /\ thread'[t].own = 1
           \/ conn[thread'[t].own].peer = "none"
  PROVE  OwnersDiffer'
<1>1. \A u \in Threads : HandleOf(u)
  BY DEF Basics, HandleInv
<1>2. ASSUME NEW u \in Threads, NEW v \in Threads, u # v,
             thread'[u].pc \in HasHandle, thread'[u].cmd = "shell", thread'[v].pc \in HasHandle
      PROVE  thread'[u].own # thread'[v].own
  <2>1. CASE u # t /\ v # t
    BY <1>2, <2>1 DEF OwnersDiffer, Others, Same, SameHandle
  <2>2. CASE u = t
    <3>1. Same(v) /\ HandleOf(v) /\ thread[v].pc \in HasHandle /\ thread'[v].own = thread[v].own
      BY <1>1, <1>2, <2>2 DEF Others, Same, SameHandle
    <3>2. CASE thread[t].pc \in HasHandle /\ thread'[t].own = thread[t].own /\ thread[t].cmd = "shell"
      BY <1>2, <2>2, <3>1, <3>2 DEF OwnersDiffer
    <3>3. CASE conn[thread'[t].own].peer = "none"
      BY <2>2, <3>1, <3>3 DEF HandleOf
    <3> QED BY <1>2, <2>2, <3>2, <3>3
  <2>3. CASE v = t
    <3>1. /\ Same(u) /\ HandleOf(u) /\ thread[u].pc \in HasHandle
          /\ thread'[u].own = thread[u].own /\ thread[u].cmd = "shell"
      BY <1>1, <1>2, <2>3 DEF Others, Same, SameHandle
    <3>2. CASE thread[t].pc \in HasHandle /\ thread'[t].own = thread[t].own
      BY <1>2, <2>3, <3>1, <3>2 DEF OwnersDiffer
    <3>3. CASE thread'[t].own = 1
      BY <2>3, <3>1, <3>3 DEF HandleOf
    <3>4. CASE conn[thread'[t].own].peer = "none"
      BY <2>3, <3>1, <3>4 DEF HandleOf
    <3> QED BY <1>2, <2>3, <3>2, <3>3, <3>4
  <2> QED BY <2>1, <2>2, <2>3
<1> QED BY <1>2 DEF OwnersDiffer

\* A step keeps the connections of two threads apart.
LEMMA OwnersStep == ASSUME Basics, OwnersDiffer, [Next]_vars PROVE OwnersDiffer'
<1> USE DEF HasHandle, Pcs, HoldsMutex, Transport
<1>1. CASE UNCHANGED vars
  BY <1>1 DEF vars, OwnersDiffer
<1>2. ASSUME NEW t \in Threads, NEW cmd \in Commands, Begin(t, cmd) PROVE OwnersDiffer'
  BY <1>2, BeginEffect, OwnersKept
<1>3. ASSUME NEW t \in Threads, Connect(t) PROVE OwnersDiffer'
  <2>1. Others(t) /\ (thread'[t].pc = "idle" \/ conn[thread'[t].own].peer = "none")
    BY <1>3, ConnectEffect DEF IsIdle
  <2> QED BY <2>1, OwnersKept
<1>4. ASSUME NEW t \in Threads, Up(t) \/ ShutdownClose(t) \/ Lock(t) PROVE OwnersDiffer'
  <2>1. Others(t) /\ SameHandle(t) /\ thread[t].pc \in HasHandle
    BY <1>4, UpEffect, ShutdownCloseEffect, LockEffect
  <2> QED BY <2>1, OwnersKept DEF SameHandle
<1>5. ASSUME NEW t \in Threads, Tx(t) \/ RxBody(t) \/ RxClosed(t) \/ RxTimeout(t)
      PROVE  OwnersDiffer'
  <2>1. Others(t) /\ SameHandle(t) /\ thread[t].pc \in HasHandle
    BY <1>5, TxEffect, RxBodyEffect, RxClosedEffect, RxTimeoutEffect
  <2> QED BY <2>1, OwnersKept DEF SameHandle
<1>9. ASSUME NEW t \in Threads, RxWait(t) \/ RxHeader(t) \/ FailClose(t) \/ FailMark(t)
      PROVE  OwnersDiffer'
  <2>1. Others(t) /\ SameHandle(t) /\ thread[t].pc \in HasHandle
    BY <1>9, RxReadEffect, FailCloseEffect, FailMarkEffect DEF SameRequest
  <2> QED BY <2>1, OwnersKept DEF SameHandle
<1>6. ASSUME NEW t \in Threads, Shutdown(t) \/ ShutdownMark(t) PROVE OwnersDiffer'
  <2>1. Others(t) /\ (thread'[t].pc = "idle" \/ (SameHandle(t) /\ thread[t].pc \in HasHandle))
    BY <1>6, ShutdownEffect, ShutdownMarkEffect DEF IsIdle
  <2> QED BY <2>1, OwnersKept DEF SameHandle
<1>7. ASSUME NEW t \in Threads, Unlock(t) PROVE OwnersDiffer'
  <2>1. /\ Others(t) /\ thread[t].pc \in HasHandle
        /\ \/ thread'[t].pc = "idle"
           \/ thread'[t].own = thread[t].own /\ thread'[t].cmd = thread[t].cmd
    BY <1>7, UnlockEffect DEF IsIdle, SameHandle
  <2> QED BY <2>1, OwnersKept
<1>8. ASSUME NEW c \in Conns, (\E kind \in Kinds : Answer(c, kind)) \/ PeerStall(c) \/ PeerClose(c)
      PROVE  OwnersDiffer'
  BY <1>8, SlaveEffect DEF OwnersDiffer
<1> QED BY <1>1, <1>2, <1>3, <1>4, <1>5, <1>6, <1>7, <1>8, <1>9 DEF Next, Step

\* A step of one thread keeps what is known of the other threads' connections.
LEMMA LeakKept ==
  ASSUME Basics, LeakInv, NEW t \in Threads, Others(t), ConnsKept, LeakOf(t)',
         disturbed \subseteq disturbed',
         \A s \in Sockets : \/ sock'[s] = sock[s] \/ sock'[s] = 0
                            \/ sock'[s] \in Conns /\ conn[sock'[s]].peer = "none",
         \/ is_down' => is_down
         \/ \A u \in Threads :
              u # t /\ thread[u].pc \in HasHandle /\ thread[u].cmd = "shell"
              => thread[u].own \in disturbed',
         \/ UNCHANGED released
         \/ /\ released' = released \cup {thread[t].own} /\ UNCHANGED sock
            /\ thread[t].own \in Conns /\ conn[thread[t].own].peer # "none"
            /\ \A s \in Sockets : sock[s] = thread[t].own => sock[s] \in disturbed'
  PROVE  LeakInv'
<1>1. \A u \in Threads : HandleOf(u)
  BY DEF Basics, HandleInv
<1>2. \A u \in Threads : LeakOf(u)
  BY DEF LeakInv
<1>3. released \subseteq Conns /\ 0 \notin Conns
  BY Constants DEF Basics, MasterType
<1>4. ASSUME NEW u \in Threads, u # t PROVE LeakOf(u)'
  <2>1. /\ thread'[u].pc = thread[u].pc /\ thread'[u].fd = thread[u].fd
        /\ thread'[u].own = thread[u].own /\ thread'[u].cmd = thread[u].cmd
    BY <1>4 DEF Others, Same, SameHandle
  <2>2. thread[u].pc \in HasHandle =>
          /\ thread[u].fd \in Sockets /\ thread[u].own \in Conns
          /\ conn[thread[u].own].peer # "none"
    BY <1>1 DEF HandleOf
  <2>3. thread[u].pc \in HasHandle /\ sock[thread[u].fd] # thread[u].own
          => sock'[thread[u].fd] # thread[u].own
    BY <1>3, <2>2
  <2>4. LeakOf(u)
    BY <1>2
  <2>5. thread'[u].pc \in {"closed", "tx_mark", "rx_mark"}
          => sock'[thread'[u].fd] # thread'[u].own
    BY <2>1, <2>3, <2>4 DEF LeakOf, HasHandle, Pcs, HoldsMutex, Transport
  <2>6. ASSUME is_down', thread[u].cmd = "shell", thread[u].pc \in MayLeave
        PROVE  thread[u].own \in disturbed' \/ sock'[thread[u].fd] # thread[u].own
    <3>1. thread[u].pc \in HasHandle
      BY <2>6 DEF MayLeave
    <3>2. CASE is_down
      BY <2>3, <2>4, <2>6, <3>1, <3>2 DEF LeakOf
    <3>3. CASE ~is_down
      BY <1>4, <2>6, <3>1, <3>3
    <3> QED BY <3>2, <3>3
  <2> QED BY <2>1, <2>5, <2>6 DEF LeakOf
<1>5. \A c \in released' : conn'[c].peer # "none"
  BY <1>3 DEF LeakInv, ConnsKept
<1>6. \A s \in Sockets : sock'[s] \in released' => sock'[s] \in disturbed'
  <2>1. CASE UNCHANGED released
    BY <1>3, <2>1 DEF LeakInv
  <2>2. CASE /\ released' = released \cup {thread[t].own} /\ UNCHANGED sock
             /\ \A s \in Sockets : sock[s] = thread[t].own => sock[s] \in disturbed'
    BY <2>2 DEF LeakInv
  <2> QED BY <2>1, <2>2
<1> QED BY <1>4, <1>5, <1>6 DEF LeakInv

\* The steps that set is_down disturb the connections of all other threads.
LEMMA OthersDisturbed ==
  ASSUME Basics, OwnersDiffer, NEW t \in Threads, thread[t].pc \in HasHandle,
         \A c \in Conns : conn[c].peer # "none" /\ c # thread[t].own => c \in disturbed'
  PROVE  \A u \in Threads :
           u # t /\ thread[u].pc \in HasHandle /\ thread[u].cmd = "shell"
           => thread[u].own \in disturbed'
<1> SUFFICES ASSUME NEW u \in Threads, u # t, thread[u].pc \in HasHandle, thread[u].cmd = "shell"
             PROVE  thread[u].own \in disturbed'
  OBVIOUS
<1>1. thread[u].own \in Conns /\ conn[thread[u].own].peer # "none"
  BY DEF Basics, HandleInv, HandleOf
<1>2. thread[u].own # thread[t].own
  BY DEF OwnersDiffer
<1> QED BY <1>1, <1>2

\* A connection is only ever behind its own number.
LEMMA OwnNumber ==
  ASSUME Basics, NEW t \in Threads, thread[t].pc \in HasHandle
  PROVE  /\ thread[t].fd \in Sockets /\ thread[t].own \in Conns
         /\ thread[t].own # 0 /\ conn[thread[t].own].peer # "none"
         /\ \A s \in Sockets : sock[s] = thread[t].own => s = thread[t].fd
<1>1. /\ thread[t].fd \in Sockets /\ thread[t].own \in Conns /\ thread[t].own # 0
      /\ conn[thread[t].own].peer # "none" /\ conn[thread[t].own].number = thread[t].fd
  BY Constants DEF Basics, HandleInv, HandleOf
<1> QED BY <1>1 DEF Basics, HandleInv, SocketsInv

\* A step keeps what a thread may leak.
LEMMA LeakStep == ASSUME Basics, OwnersDiffer, LeakInv, [Next]_vars PROVE LeakInv'
<1> USE DEF MayLeave, HasHandle, Pcs, HoldsMutex, Transport
<1>1. /\ \A t \in Threads : HandleOf(t) /\ LeakOf(t)
      /\ 0 \notin Conns
  BY Constants DEF Basics, HandleInv, LeakInv
<1>2. CASE UNCHANGED vars
  BY <1>2 DEF vars, LeakInv, LeakOf
<1>3. ASSUME NEW t \in Threads, NEW cmd \in Commands, Begin(t, cmd) PROVE LeakInv'
  <2>1. /\ Others(t) /\ UNCHANGED <<is_down, sock, conn, released, disturbed>>
        /\ thread'[t].cmd = cmd
        /\ cmd = "shell" => thread'[t].pc = "open"
        /\ cmd # "shell" => thread'[t].pc = "lock"
    BY <1>3, BeginEffect
  <2>2. ConnsKept /\ LeakOf(t)'
    BY <2>1, SameConns DEF LeakOf
  <2> QED BY <2>1, <2>2, LeakKept
<1>4. ASSUME NEW t \in Threads, Connect(t) PROVE LeakInv'
  <2>1. Others(t) /\ ConnsKept /\ UNCHANGED <<is_down, released, disturbed>>
    BY <1>4, ConnectEffect
  <2>2. /\ \A s \in Sockets : \/ sock'[s] = sock[s]
                              \/ sock'[s] \in Conns /\ conn[sock'[s]].peer = "none"
        /\ thread'[t].pc \in {"idle", "up"}
    <3>1. CASE IsIdle(thread'[t]) /\ UNCHANGED <<sock, conn>>
      BY <3>1 DEF IsIdle
    <3>2. ASSUME NEW s \in Sockets, NEW c \in Conns,
                 /\ conn[c].peer = "none" /\ sock'[s] = c
                 /\ \A r \in Sockets : r # s => sock'[r] = sock[r]
                 /\ thread'[t].pc = "up"
          PROVE  /\ \A r \in Sockets : \/ sock'[r] = sock[r]
                                       \/ sock'[r] \in Conns /\ conn[sock'[r]].peer = "none"
                 /\ thread'[t].pc \in {"idle", "up"}
      BY <3>2
    <3> QED BY <1>4, <3>1, <3>2, ConnectEffect
  <2>3. LeakOf(t)'
    BY <2>2 DEF LeakOf
  <2> QED BY <2>1, <2>2, <2>3, LeakKept
<1>5. ASSUME NEW t \in Threads, Up(t) PROVE LeakInv'
  <2>1. /\ Others(t) /\ thread'[t].pc = "lock" /\ is_down' = FALSE
        /\ UNCHANGED <<sock, conn, released, disturbed>>
    BY <1>5, UpEffect
  <2>2. ConnsKept /\ LeakOf(t)'
    BY <2>1, SameConns DEF LeakOf
  <2> QED BY <2>1, <2>2, LeakKept
<1>6. ASSUME NEW t \in Threads, Shutdown(t) PROVE LeakInv'
  <2>1. /\ Others(t) /\ thread[t].pc = "close" /\ thread'[t].pc \in {"idle", "closing"}
        /\ UNCHANGED <<is_down, sock, conn, disturbed>>
        /\ \/ is_down /\ released' = released \cup {thread[t].own}
           \/ UNCHANGED released
    BY <1>6, ShutdownEffect DEF IsIdle
  <2>2. ConnsKept /\ LeakOf(t)' /\ thread[t].cmd = "shell"
    BY <1>1, <2>1, SameConns DEF LeakOf, HandleOf, ShellOnly
  <2>3. /\ thread[t].own \in Conns /\ conn[thread[t].own].peer # "none"
        /\ is_down => \A s \in Sockets : sock[s] = thread[t].own => sock[s] \in disturbed'
    BY <1>1, <2>1, <2>2, OwnNumber DEF LeakOf
  <2> QED BY <2>1, <2>2, <2>3, LeakKept
<1>7. ASSUME NEW t \in Threads, ShutdownClose(t) PROVE LeakInv'
  <2>1. /\ Others(t) /\ thread[t].pc = "closing" /\ thread'[t].pc = "closed" /\ SameHandle(t)
        /\ UNCHANGED <<is_down, conn, released, disturbed>>
        /\ sock'[thread[t].fd] = 0
        /\ \A r \in Sockets : sock'[r] = sock[r] \/ sock'[r] = 0
    BY <1>7, ShutdownCloseEffect
  <2>2. ConnsKept /\ thread[t].own # 0
    BY <2>1, SameConns, OwnNumber
  <2>3. LeakOf(t)'
    BY <2>1, <2>2 DEF LeakOf, SameHandle
  <2> QED BY <2>1, <2>2, <2>3, LeakKept
<1>8. ASSUME NEW t \in Threads, ShutdownMark(t) PROVE LeakInv'
  <2>1. /\ Others(t) /\ thread[t].pc = "closed" /\ thread'[t].pc = "idle"
        /\ released' = released \cup {thread[t].own}
        /\ \A c \in Conns : conn[c].peer # "none" /\ c # thread[t].own => c \in disturbed'
        /\ disturbed \subseteq disturbed' /\ UNCHANGED <<sock, conn>>
    BY <1>8, ShutdownMarkEffect DEF IsIdle
  <2>2. ConnsKept /\ LeakOf(t)'
    BY <2>1, SameConns DEF LeakOf
  <2>3. /\ thread[t].own \in Conns /\ conn[thread[t].own].peer # "none"
        /\ \A s \in Sockets : sock[s] # thread[t].own
    BY <1>1, <2>1, OwnNumber DEF LeakOf
  <2>4. \A u \in Threads :
          u # t /\ thread[u].pc \in HasHandle /\ thread[u].cmd = "shell"
          => thread[u].own \in disturbed'
    BY <2>1, OthersDisturbed
  <2> QED BY <2>1, <2>2, <2>3, <2>4, LeakKept
<1>9. ASSUME NEW t \in Threads,
             \/ Lock(t) \/ Tx(t) \/ RxTimeout(t) \/ RxWait(t) \/ RxHeader(t)
             \/ RxBody(t) \/ RxClosed(t)
      PROVE  LeakInv'
  <2>1. /\ Others(t) /\ SameHandle(t) /\ ConnsKept
        /\ UNCHANGED <<is_down, sock, released, disturbed>>
        /\ thread[t].pc \in {"lock", "lock_get", "tx", "rx", "header", "body"}
        /\ thread'[t].pc \in {"tx", "tx_close", "unlock_send", "rx", "header", "body",
                               "rx_close", "unlock"}
    <3>1. CASE Lock(t)
      BY <3>1, LockEffect, SameConns
    <3>2. CASE Tx(t)
      BY <3>2, TxEffect DEF AfterTx
    <3>3. CASE RxTimeout(t) \/ RxBody(t) \/ RxClosed(t)
      BY <3>3, RxTimeoutEffect, RxBodyEffect, RxClosedEffect, SameConns
    <3>4. CASE RxWait(t) \/ RxHeader(t)
      BY <3>4, RxReadEffect, SameConns DEF SameRequest
    <3> QED BY <1>9, <3>1, <3>2, <3>3, <3>4
  <2>2. LeakOf(t)'
    BY <1>1, <2>1 DEF LeakOf, SameHandle
  <2> QED BY <2>1, <2>2, LeakKept
<1>10. ASSUME NEW t \in Threads, FailClose(t) PROVE LeakInv'
  <2>1. /\ Others(t) /\ SameHandle(t) /\ thread[t].pc \in {"tx_close", "rx_close"}
        /\ thread'[t].pc \in {"tx_mark", "rx_mark"}
        /\ UNCHANGED <<is_down, conn, released, disturbed>>
        /\ sock'[thread[t].fd] = 0
        /\ \A r \in Sockets : sock'[r] = sock[r] \/ sock'[r] = 0
    BY <1>10, FailCloseEffect DEF SameRequest
  <2>2. ConnsKept /\ thread[t].own # 0
    BY <2>1, SameConns, OwnNumber
  <2>3. LeakOf(t)'
    BY <2>1, <2>2 DEF LeakOf, SameHandle
  <2> QED BY <2>1, <2>2, <2>3, LeakKept
<1>13. ASSUME NEW t \in Threads, FailMark(t) PROVE LeakInv'
  <2>1. /\ Others(t) /\ SameHandle(t) /\ thread[t].pc \in {"tx_mark", "rx_mark"}
        /\ thread'[t].pc \in {"unlock_send", "rx", "unlock"}
        /\ \A c \in Conns : conn[c].peer # "none" /\ c # thread[t].own => c \in disturbed'
        /\ disturbed \subseteq disturbed' /\ UNCHANGED <<sock, conn, released>>
    BY <1>13, FailMarkEffect DEF SameRequest, AfterTx
  <2>2. ConnsKept /\ LeakOf(t)'
    BY <1>1, <2>1, SameConns DEF LeakOf, SameHandle
  <2>3. \A u \in Threads :
          u # t /\ thread[u].pc \in HasHandle /\ thread[u].cmd = "shell"
          => thread[u].own \in disturbed'
    BY <2>1, OthersDisturbed
  <2> QED BY <2>1, <2>2, <2>3, LeakKept
<1>11. ASSUME NEW t \in Threads, Unlock(t) PROVE LeakInv'
  <2>1. /\ Others(t) /\ UNCHANGED <<is_down, sock, conn, released, disturbed>>
        /\ \/ thread'[t].pc = "idle"
           \/ /\ thread[t].pc \in {"unlock_send", "unlock"}
              /\ thread'[t].pc \in {"lock_get", "close"} /\ thread'[t].cmd = thread[t].cmd
              /\ thread'[t].fd = thread[t].fd /\ thread'[t].own = thread[t].own
    BY <1>11, UnlockEffect DEF IsIdle, SameHandle
  <2>2. ConnsKept /\ LeakOf(t)'
    BY <1>1, <2>1, SameConns DEF LeakOf
  <2> QED BY <2>1, <2>2, LeakKept
<1>12. ASSUME NEW c \in Conns, (\E kind \in Kinds : Answer(c, kind)) \/ PeerStall(c) \/ PeerClose(c)
       PROVE  LeakInv'
  <2>1. ConnsKept /\ UNCHANGED <<is_down, sock, thread, released, disturbed>>
    BY <1>12, SlaveEffect
  <2>2. released \subseteq Conns
    BY DEF Basics, MasterType
  <2> QED BY <2>1, <2>2 DEF LeakInv, LeakOf, ConnsKept
<1> QED BY <1>2, <1>3, <1>4, <1>5, <1>6, <1>7, <1>8, <1>9, <1>10, <1>11, <1>12, <1>13
    DEF Next, Step

\* When mb_close has returned, the connection is closed unless another one was
\* closed or failed while it lasted, in any interleaving of the threads.
THEOREM NeverLeaksAlone == Spec => []NoLeakAlone
<1>1. Init => OwnersDiffer /\ LeakInv
  BY Constants, IdleTyped DEF Init, OwnersDiffer, LeakInv, LeakOf, IsIdle, HasHandle, MayLeave
<1>2. Basics /\ OwnersDiffer /\ LeakInv /\ [Next]_vars => OwnersDiffer' /\ LeakInv'
  BY OwnersStep, LeakStep
<1>3. LeakInv => NoLeakAlone
  BY DEF LeakInv, NoLeakAlone, Open
<1> QED BY <1>1, <1>2, <1>3, BasicsAlways, PTL DEF Spec

------------------------------------------------------------------------------
(* Responses. *)

\* A queue of answers to one request stays one when it is used.
LEMMA OnlyOfQueues ==
  ASSUME NEW q \in Seq(Nat), NEW n, OnlyOf(q, n)
  PROVE  /\ q # <<>> => Head(q) = n /\ OnlyOf(Tail(q), n)
         /\ OnlyOf(Append(q, n), n)
<1>1. ASSUME q # <<>> PROVE Head(q) = n
  BY <1>1 DEF OnlyOf
<1>2. ASSUME q # <<>> PROVE OnlyOf(Tail(q), n)
  <2>1. Len(Tail(q)) = Len(q) - 1 /\ \A i \in 1 .. Len(q) - 1 : Tail(q)[i] = q[i + 1]
    BY <1>2
  <2> QED BY <2>1 DEF OnlyOf
<1>3. OnlyOf(Append(q, n), n)
  <2>1. /\ Len(Append(q, n)) = Len(q) + 1 /\ Append(q, n)[Len(q) + 1] = n
        /\ \A i \in 1 .. Len(q) : Append(q, n)[i] = q[i]
    OBVIOUS
  <2>2. \A i \in 1 .. Len(q) + 1 : i \in 1 .. Len(q) \/ i = Len(q) + 1
    OBVIOUS
  <2> QED BY <2>1, <2>2 DEF OnlyOf
<1> QED BY <1>1, <1>2, <1>3

\* So does a queue of responses to one request.
LEMMA AnswersOfQueues ==
  ASSUME NEW q \in Seq(Reply), NEW n, AnswersOf(q, n)
  PROVE  /\ q # <<>> => Head(q).n = n
         /\ \A r \in Reply : r.n = n => AnswersOf(Append(q, r), n)
<1>1. ASSUME q # <<>> PROVE Head(q).n = n
  BY <1>1 DEF AnswersOf
<1>2. ASSUME NEW r \in Reply, r.n = n PROVE AnswersOf(Append(q, r), n)
  <2>1. /\ Len(Append(q, r)) = Len(q) + 1 /\ Append(q, r)[Len(q) + 1] = r
        /\ \A i \in 1 .. Len(q) : Append(q, r)[i] = q[i]
    OBVIOUS
  <2>2. \A i \in 1 .. Len(q) + 1 : i \in 1 .. Len(q) \/ i = Len(q) + 1
    OBVIOUS
  <2> QED BY <1>2, <2>1, <2>2 DEF AnswersOf
<1> QED BY <1>1, <1>2

\* The queues that a thread relies on are left alone by the other threads.
LEMMA AnswersKept ==
  ASSUME AnswerInv, NEW t \in Threads, Others(t), AnswerOf(t)',
         \A u \in Threads :
           u # t /\ thread[u].clean /\ thread[u].on \in Conns /\ Sent(u)
           => \/ thread'[u].between
              \/ /\ conn'[thread[u].on].requests = conn[thread[u].on].requests
                 /\ conn'[thread[u].on].replies = conn[thread[u].on].replies
  PROVE  AnswerInv'
<1>1. ASSUME NEW u \in Threads, u # t PROVE AnswerOf(u)'
  <2>1. AnswerOf(u) /\ Same(u)
    BY <1>1 DEF AnswerInv, Others
  <2>2. /\ thread'[u].clean =>
             /\ thread'[u].on \in Conns
             /\ Sent(u)' \/ thread'[u].pc \in {"rx_close", "rx_mark", "unlock"}
    BY <2>1 DEF AnswerOf, Same, Sent
  <2>3. ASSUME thread'[u].clean, ~thread'[u].between, Sent(u)'
        PROVE  /\ OnlyOf(conn'[thread'[u].on].requests, thread'[u].n)
               /\ AnswersOf(conn'[thread'[u].on].replies, thread'[u].n)
    <3>1. /\ thread[u].clean /\ ~thread[u].between /\ Sent(u)
          /\ thread'[u].on = thread[u].on /\ thread'[u].n = thread[u].n
      BY <2>1, <2>3 DEF Same, SameHandle, Sent
    <3>2. /\ thread[u].on \in Conns
          /\ OnlyOf(conn[thread[u].on].requests, thread[u].n)
          /\ AnswersOf(conn[thread[u].on].replies, thread[u].n)
      BY <2>1, <3>1 DEF AnswerOf
    <3>3. /\ conn'[thread[u].on].requests = conn[thread[u].on].requests
          /\ conn'[thread[u].on].replies = conn[thread[u].on].replies
      BY <1>1, <2>3, <3>1, <3>2
    <3> QED BY <3>1, <3>2, <3>3
  <2>4. /\ thread'[u].result = 1 /\ thread'[u].clean
        /\ thread'[u].from = thread'[u].on /\ ~thread'[u].between
        => thread'[u].got = thread'[u].n
    BY <2>1 DEF AnswerOf, Same, SameHandle
  <2> QED BY <2>2, <2>3, <2>4 DEF AnswerOf, OnlyOf, AnswersOf, Sent
<1> QED BY <1>1 DEF AnswerInv

\* A thread that is not clean relies on nothing.
LEMMA NotClean == ASSUME NEW t \in Threads, thread'[t].clean = FALSE PROVE AnswerOf(t)'
BY DEF AnswerOf

\* A thread in the transport is alone there: the others have sent, and wait.
LEMMA Alone ==
  ASSUME Basics, NEW t \in Threads, thread[t].pc \in Transport, NEW c \in Conns,
         \A d \in Conns : d # c => conn'[d] = conn[d],
         \A u \in Threads : u # t /\ u \in InGap(c) => thread'[u].between
  PROVE  \A u \in Threads :
           u # t /\ thread[u].clean /\ thread[u].on \in Conns /\ Sent(u)
           => \/ thread'[u].between
              \/ /\ conn'[thread[u].on].requests = conn[thread[u].on].requests
                 /\ conn'[thread[u].on].replies = conn[thread[u].on].replies
<1> SUFFICES ASSUME NEW u \in Threads, u # t, thread[u].on \in Conns, Sent(u)
             PROVE  \/ thread'[u].between
                    \/ conn'[thread[u].on] = conn[thread[u].on]
  OBVIOUS
<1>1. thread[u].pc = "lock_get"
  BY DEF Basics, MutexInv, HoldsMutex, Transport, Sent
<1>2. CASE thread[u].on = c
  BY <1>1, <1>2 DEF InGap
<1>3. CASE thread[u].on # c
  BY <1>3
<1> QED BY <1>2, <1>3

\* A step keeps an undisturbed connection's queues its owner's.
LEMMA AnswerStep == ASSUME Basics, AnswerInv, [Next]_vars PROVE AnswerInv'
<1> USE DEF HasHandle, Pcs, HoldsMutex, Transport, Sent
<1>1. \A t \in Threads : HandleOf(t) /\ AnswerOf(t)
  BY DEF Basics, HandleInv, AnswerInv
<1>2. CASE UNCHANGED vars
  BY <1>2 DEF vars, AnswerInv, AnswerOf, OnlyOf, AnswersOf, Sent
<1>3. ASSUME NEW t \in Threads, NEW cmd \in Commands, Begin(t, cmd) PROVE AnswerInv'
  <2>1. Others(t) /\ thread'[t].clean = FALSE /\ UNCHANGED conn
    BY <1>3, BeginEffect
  <2> QED BY <2>1, NotClean, AnswersKept
<1>4. ASSUME NEW t \in Threads, Connect(t) \/ Up(t) \/ Shutdown(t) PROVE AnswerInv'
  <2>1. /\ Others(t) /\ QueuesKept /\ thread[t].pc \in {"open", "up", "close"}
        /\ thread'[t].clean = FALSE \/ thread'[t].clean = thread[t].clean
    BY <1>4, ConnectEffect, UpEffect, ShutdownEffect DEF QueuesKept, IsIdle
  <2>2. ~thread[t].clean
    BY <1>1, <2>1 DEF AnswerOf
  <2>3. AnswerOf(t)'
    BY <2>1, <2>2 DEF AnswerOf
  <2> QED BY <2>1, <2>3, AnswersKept DEF QueuesKept
<1>5. ASSUME NEW t \in Threads, ShutdownClose(t) \/ ShutdownMark(t) PROVE AnswerInv'
  <2>1. /\ Others(t) /\ UNCHANGED conn /\ thread[t].pc \in {"closing", "closed"}
        /\ thread'[t].clean = FALSE \/ thread'[t].clean = thread[t].clean
    BY <1>5, ShutdownCloseEffect, ShutdownMarkEffect DEF IsIdle
  <2>2. ~thread[t].clean
    BY <1>1, <2>1 DEF AnswerOf
  <2>3. AnswerOf(t)'
    BY <2>1, <2>2 DEF AnswerOf
  <2> QED BY <2>1, <2>3, AnswersKept
<1>6. ASSUME NEW t \in Threads, Lock(t) PROVE AnswerInv'
  <2>1. /\ Others(t) /\ UNCHANGED conn /\ SameHandle(t)
        /\ \/ thread[t].pc = "lock" /\ thread'[t].pc = "tx"
           \/ thread[t].pc = "lock_get" /\ thread'[t].pc = "rx"
        /\ thread'[t].clean = thread[t].clean /\ thread'[t].on = thread[t].on
        /\ thread'[t].between = thread[t].between /\ thread'[t].result = thread[t].result
    BY <1>6, LockEffect
  <2>2. thread[t].result = 0
    BY <1>1, <2>1 DEF HandleOf
  <2>3. AnswerOf(t)'
    BY <1>1, <2>1, <2>2 DEF AnswerOf, SameHandle
  <2> QED BY <2>1, <2>3, AnswersKept
<1>7. ASSUME NEW t \in Threads, Tx(t) PROVE AnswerInv'
  <2>1. /\ Others(t) /\ SameHandle(t) /\ thread[t].pc = "tx"
        /\ thread'[t].result = thread[t].result
        /\ \A d \in Conns : conn'[d].replies = conn[d].replies
    BY <1>7, TxEffect
  <2>2. thread[t].result = 0 /\ ~thread[t].clean
    BY <1>1, <2>1 DEF HandleOf, AnswerOf
  <2>3. CASE UNCHANGED conn /\ thread'[t].clean = thread[t].clean
    <3>1. AnswerOf(t)'
      BY <2>2, <2>3 DEF AnswerOf
    <3> QED BY <2>1, <2>3, <3>1, AnswersKept
  <2>4. ASSUME NEW c \in Conns,
               /\ thread'[t].pc = AfterTx(t)
               /\ conn'[c].requests = Append(conn[c].requests, thread[t].n)
               /\ \A d \in Conns : d # c => conn'[d] = conn[d]
               /\ thread'[t].on = c
               /\ thread'[t].clean = (conn[c].requests = <<>> /\ conn[c].replies = <<>>)
               /\ \A u \in Threads : u # t /\ u \in InGap(c) => thread'[u].between
        PROVE  AnswerInv'
    <3>1. ASSUME thread'[t].clean
          PROVE  OnlyOf(conn'[c].requests, thread[t].n) /\ AnswersOf(conn'[c].replies, thread[t].n)
      <4>1. conn[c].requests = <<>> /\ conn[c].replies = <<>>
        BY <2>4, <3>1
      <4>2. <<>> \in Seq(Nat) /\ OnlyOf(<<>>, thread[t].n) /\ AnswersOf(<<>>, thread[t].n)
        BY DEF OnlyOf, AnswersOf
      <4>3. OnlyOf(Append(<<>>, thread[t].n), thread[t].n)
        BY <4>2, OnlyOfQueues
      <4> QED BY <2>1, <2>4, <4>1, <4>2, <4>3
    <3>2. AnswerOf(t)'
      <4>1. /\ thread'[t].n = thread[t].n /\ thread'[t].on = c /\ thread'[t].result = 0
            /\ thread'[t].pc \in {"unlock_send", "rx"}
        BY <2>1, <2>2, <2>4 DEF SameHandle, AfterTx
      <4> QED BY <3>1, <4>1 DEF AnswerOf, OnlyOf, AnswersOf
    <3>3. \A u \in Threads :
           u # t /\ thread[u].clean /\ thread[u].on \in Conns /\ Sent(u)
           => \/ thread'[u].between
              \/ /\ conn'[thread[u].on].requests = conn[thread[u].on].requests
                 /\ conn'[thread[u].on].replies = conn[thread[u].on].replies
      BY <2>1, <2>4, Alone
    <3> QED BY <2>1, <3>2, <3>3, AnswersKept
  <2> QED BY <1>7, <2>3, <2>4, TxEffect
<1>8. ASSUME NEW t \in Threads, RxBody(t) PROVE AnswerInv'
  <2>1. /\ Others(t) /\ SameHandle(t) /\ thread[t].pc = "body"
        /\ thread'[t].pc \in {"unlock", "rx_close"}
        /\ thread'[t].clean = thread[t].clean /\ thread'[t].on = thread[t].on
        /\ thread'[t].between = thread[t].between
    BY <1>8, RxBodyEffect
  <2>2. PICK c \in Conns :
          /\ conn[c].replies # <<>> /\ thread'[t].from = c
          /\ thread'[t].got = Head(conn[c].replies).n
          /\ \A d \in Conns : d # c => conn'[d] = conn[d]
          /\ \A u \in Threads : u # t /\ u \in InGap(c) => thread'[u].between
    BY <1>8, RxBodyEffect
  <2>3. ASSUME thread[t].clean, c = thread[t].on, ~thread[t].between
        PROVE  thread'[t].got = thread[t].n
    <3>1. AnswersOf(conn[c].replies, thread[t].n)
      BY <1>1, <2>1, <2>3 DEF AnswerOf
    <3>2. conn[c] \in ConnRecord
      BY DEF Basics, MasterType
    <3>3. conn[c].replies \in Seq(Reply)
      BY <3>2 DEF ConnRecord
    <3> QED BY <2>2, <3>1, <3>3, AnswersOfQueues
  <2>4. thread[t].clean => thread[t].on \in Conns
    BY <1>1 DEF AnswerOf
  <2>5. AnswerOf(t)'
    <3>1. thread'[t].n = thread[t].n
      BY <2>1 DEF SameHandle
    <3> QED BY <2>1, <2>2, <2>3, <2>4, <3>1 DEF AnswerOf
  <2>6. \A u \in Threads :
           u # t /\ thread[u].clean /\ thread[u].on \in Conns /\ Sent(u)
           => \/ thread'[u].between
              \/ /\ conn'[thread[u].on].requests = conn[thread[u].on].requests
                 /\ conn'[thread[u].on].replies = conn[thread[u].on].replies
    BY <2>1, <2>2, Alone
  <2> QED BY <2>1, <2>5, <2>6, AnswersKept
<1>9. ASSUME NEW t \in Threads, RxClosed(t) \/ RxTimeout(t) PROVE AnswerInv'
  <2>1. /\ Others(t) /\ UNCHANGED conn /\ thread'[t].pc \in {"unlock", "rx_close"}
        /\ thread'[t].result # 1
        /\ thread'[t].clean = thread[t].clean /\ thread'[t].on = thread[t].on
    <3>1. EFRAME_NOK # 1 /\ ETIMEOUT # 1
      BY DEF EFRAME_NOK, ETIMEOUT
    <3> QED BY <1>9, <3>1, RxClosedEffect, RxTimeoutEffect
  <2>2. AnswerOf(t)'
    BY <1>1, <2>1 DEF AnswerOf
  <2> QED BY <2>1, <2>2, AnswersKept
<1>12. ASSUME NEW t \in Threads, FailClose(t) \/ FailMark(t) PROVE AnswerInv'
  <2>1. /\ Others(t) /\ UNCHANGED conn /\ SameRequest(t) /\ SameResponse(t)
        /\ \/ thread[t].pc \in {"tx_close", "tx_mark"}
           \/ thread[t].pc = "rx_close" /\ thread'[t].pc = "rx_mark"
           \/ thread[t].pc = "rx_mark" /\ thread'[t].pc = "unlock"
    BY <1>12, FailCloseEffect, FailMarkEffect
  <2>2. CASE thread[t].pc \in {"tx_close", "tx_mark"}
    <3>1. thread'[t].clean = FALSE
      BY <1>1, <2>1, <2>2 DEF AnswerOf, SameRequest, MasterType, Basics, ThreadRecord
    <3> QED BY <2>1, <3>1, NotClean, AnswersKept
  <2>3. CASE thread[t].pc \in {"rx_close", "rx_mark"} /\ thread'[t].pc \in {"rx_mark", "unlock"}
    <3>1. AnswerOf(t)'
      BY <1>1, <2>1, <2>3 DEF AnswerOf, SameRequest, SameResponse, SameHandle
    <3> QED BY <2>1, <3>1, AnswersKept
  <2> QED BY <2>1, <2>2, <2>3
<1>13. ASSUME NEW t \in Threads, RxWait(t) \/ RxHeader(t) PROVE AnswerInv'
  <2>1. /\ Others(t) /\ UNCHANGED conn /\ SameHandle(t)
        /\ thread[t].pc \in {"rx", "header"} /\ thread'[t].pc \in {"header", "body"}
        /\ thread'[t].clean = thread[t].clean /\ thread'[t].on = thread[t].on
        /\ thread'[t].between = thread[t].between /\ thread'[t].result = thread[t].result
    BY <1>13, RxReadEffect DEF SameRequest
  <2>2. thread[t].result = 0
    BY <1>1, <2>1 DEF HandleOf
  <2>3. AnswerOf(t)'
    BY <1>1, <2>1, <2>2 DEF AnswerOf, SameHandle
  <2> QED BY <2>1, <2>3, AnswersKept
<1>10. ASSUME NEW t \in Threads, Unlock(t) PROVE AnswerInv'
  <2>1. Others(t) /\ UNCHANGED conn
    BY <1>10, UnlockEffect
  <2>2. CASE thread'[t].clean = FALSE
    BY <2>1, <2>2, NotClean, AnswersKept
  <2>3. CASE /\ thread[t].pc = "unlock_send" /\ thread'[t].pc = "lock_get" /\ SameHandle(t)
             /\ thread'[t].result = thread[t].result /\ thread'[t].clean = thread[t].clean
             /\ thread'[t].on = thread[t].on /\ thread'[t].between = thread[t].between
    <3>1. thread[t].result = 0
      BY <1>1, <2>3 DEF HandleOf
    <3>2. AnswerOf(t)'
      BY <1>1, <2>1, <2>3, <3>1 DEF AnswerOf, SameHandle
    <3> QED BY <2>1, <3>2, AnswersKept
  <2> QED BY <1>10, <2>2, <2>3, UnlockEffect DEF IsIdle
<1>11. ASSUME NEW c \in Conns, (\E kind \in Kinds : Answer(c, kind)) \/ PeerStall(c) \/ PeerClose(c)
       PROVE  AnswerInv'
  <2>1. /\ UNCHANGED thread /\ \A d \in Conns : d # c => conn'[d] = conn[d]
        /\ \/ conn'[c].requests = conn[c].requests /\ conn'[c].replies = conn[c].replies
           \/ /\ conn[c].requests # <<>> /\ conn'[c].requests = Tail(conn[c].requests)
              /\ \E r \in Reply : /\ conn'[c].replies = Append(conn[c].replies, r)
                                   /\ r.n = Head(conn[c].requests)
    BY <1>11, SlaveEffect
  <2>2. conn[c].requests \in Seq(Nat) /\ conn[c].replies \in Seq(Reply)
    <3>1. conn[c] \in ConnRecord
      BY DEF Basics, MasterType
    <3> QED BY <3>1 DEF ConnRecord
  <2>3. ASSUME NEW n, OnlyOf(conn[c].requests, n), AnswersOf(conn[c].replies, n)
        PROVE  OnlyOf(conn'[c].requests, n) /\ AnswersOf(conn'[c].replies, n)
    <3>1. CASE conn'[c].requests = conn[c].requests /\ conn'[c].replies = conn[c].replies
      BY <2>3, <3>1
    <3>2. ASSUME conn[c].requests # <<>>, conn'[c].requests = Tail(conn[c].requests),
                 NEW r \in Reply, conn'[c].replies = Append(conn[c].replies, r),
                 r.n = Head(conn[c].requests)
          PROVE  OnlyOf(conn'[c].requests, n) /\ AnswersOf(conn'[c].replies, n)
      <4>1. Head(conn[c].requests) = n /\ OnlyOf(Tail(conn[c].requests), n)
        BY <2>2, <2>3, <3>2, OnlyOfQueues
      <4>2. AnswersOf(Append(conn[c].replies, r), n)
        BY <2>2, <2>3, <3>2, <4>1, AnswersOfQueues
      <4> QED BY <3>2, <4>1, <4>2
    <3> QED BY <2>1, <3>1, <3>2
  <2>4. ASSUME NEW t \in Threads PROVE AnswerOf(t)'
    <3>1. ASSUME thread[t].on \in Conns, OnlyOf(conn[thread[t].on].requests, thread[t].n),
                 AnswersOf(conn[thread[t].on].replies, thread[t].n)
          PROVE  /\ OnlyOf(conn'[thread[t].on].requests, thread[t].n)
                 /\ AnswersOf(conn'[thread[t].on].replies, thread[t].n)
      <4>1. CASE thread[t].on = c
        BY <2>3, <3>1, <4>1
      <4>2. CASE thread[t].on # c
        BY <2>1, <3>1, <4>2
      <4> QED BY <4>1, <4>2
    <3>2. AnswerOf(t)
      BY <1>1
    <3> QED BY <2>1, <3>1, <3>2 DEF AnswerOf, OnlyOf, AnswersOf, Sent
  <2> QED BY <2>4 DEF AnswerInv
<1> QED BY <1>2, <1>3, <1>4, <1>5, <1>6, <1>7, <1>8, <1>9, <1>10, <1>11, <1>12,
           <1>13 DEF Next, Step

\* A call that returns a message returns the response to its own request, for
\* any number of threads, unless something was outstanding on the connection
\* before or another thread came between its mb_send_msg and its mb_get_msg.
THEOREM AlwaysOwnResponse == Spec => []OwnResponse
<1>1. Init => AnswerInv
  BY IdleTyped DEF Init, AnswerInv, AnswerOf, IsIdle
<1>2. Basics /\ AnswerInv /\ [Next]_vars => AnswerInv'
  BY AnswerStep
<1>3. AnswerInv => OwnResponse
  BY DEF AnswerInv, AnswerOf, OwnResponse
<1> QED BY <1>1, <1>2, <1>3, BasicsAlways, PTL DEF Spec
==============================================================================
