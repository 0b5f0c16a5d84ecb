------------------------------- MODULE MbMaster ------------------------------
(***************************************************************************)
(* The master driver of rt-kernel, mb_master.c, over TCP: threads that     *)
(* share one driver, its mutex, its transaction and its transport.         *)
(*                                                                         *)
(* A thread runs a shell command of mb_cmds.c (mb_open, mb_read or         *)
(* mb_write, mb_close), or uses a handle that the application opened once  *)
(* and all threads share, for a call or for mb_send_msg and mb_get_msg.    *)
(*                                                                         *)
(* A handle stands for a socket number and nothing else.  Numbers of       *)
(* closed sockets are used again, lowest first.  Behind a number is a      *)
(* connection; connections are never used again.  open and close of the    *)
(* file layer are outside the repository: they are taken not to hold the   *)
(* driver's mutex, which only the functions of mb_master.c lock.           *)
(***************************************************************************)
EXTENDS MbPdu, FiniteSets

CONSTANTS
  Threads,
  Sockets,      \* socket numbers
  MaxConns,     \* bound on connections
  MaxRequests,  \* bound on commands, each with one request
  MaxFaulty     \* bound on slaves that misbehave, at a time

VARIABLES
  \* the driver: its mutex, its transaction [arg, n] and is_down of its
  \* transport.  n numbers the requests and is history.
  mtx, transaction, is_down,
  \* the network: the connection behind a socket number (0: closed), and the
  \* connections [peer, number, requests, replies, odd].  odd is history: the
  \* slave has sent a response without a body or of another protocol.
  sock, conn,
  \* the threads
  thread,
  \* history: commands begun; connections whose mb_close has returned;
  \* connections during whose life another one was closed or failed
  requests, released, disturbed

vars == <<mtx, transaction, is_down, sock, conn, thread, requests, released, disturbed>>

Conns    == 1 .. MaxConns
Nobody   == "nobody"
Shared   == 1    \* the handle all threads use: socket 1, connection 1
Commands == {"shell", "call", "raw"}

\* A response: as it should be, without a body, of another protocol, or cut
\* off behind its header for as long as the slave stays
Kinds == {"ok", "empty", "protocol", "cut"}

ASSUME MasterAssumption ==
  /\ Sockets \subseteq Nat \ {0} /\ Shared \in Sockets
  /\ MaxConns \in Nat \ {0} /\ {MaxRequests, MaxFaulty} \subseteq Nat /\ Nobody \notin Threads

\* A thread: where it is and in which command, its handle's number and
\* connection, the request it sent, on which connection, and what it got.
\* clean: nothing was outstanding there when it sent; between: another thread
\* used the connection between its mb_send_msg and its mb_get_msg.
Idle == [pc |-> "idle", cmd |-> "shell", fd |-> 0, own |-> 0, n |-> 0, on |-> 0,
         got |-> 0, from |-> 0, clean |-> FALSE, between |-> FALSE, result |-> 0]

Unused == [peer |-> "none", number |-> 0, requests |-> <<>>, replies |-> <<>>, odd |-> FALSE]

\* The application has opened the shared handle
Init ==
  /\ mtx = Nobody
  /\ transaction = [arg |-> 0, n |-> 0]
  /\ is_down = FALSE
  /\ sock = [s \in Sockets |-> IF s = Shared THEN 1 ELSE 0]
  /\ conn = [c \in Conns |-> IF c = 1 THEN [Unused EXCEPT !.peer = "up", !.number = Shared]
                             ELSE Unused]
  /\ thread = [t \in Threads |-> Idle]
  /\ requests = 0 /\ released = {} /\ disturbed = {}

At(t, pc) == thread[t].pc = pc
Go(t, pc) == thread' = [thread EXCEPT ![t].pc = pc]

\* The command is over
Finish(t) == thread' = [thread EXCEPT ![t] = Idle]

------------------------------------------------------------------------------
(* mb_cmds.c, mb_open and mb_close. *)

\* A command begins.  A command with bad arguments ends at once.
Begin(t, cmd) ==
  /\ At(t, "idle") /\ requests < MaxRequests
  /\ thread' = [thread EXCEPT ![t] =
       [Idle EXCEPT !.cmd = cmd, !.pc = IF cmd = "shell" THEN "open" ELSE "lock",
                    !.fd  = IF cmd = "shell" THEN 0 ELSE Shared,
                    !.own = IF cmd = "shell" THEN 0 ELSE 1, !.n = requests + 1]]
  /\ requests' = requests + 1
  /\ UNCHANGED <<mtx, transaction, is_down, sock, conn, released, disturbed>>

\* os_tcp_connect: fails, and closes its socket, or takes the lowest number
Connect(t) ==
  /\ At(t, "open")
  /\ \/ \E s \in Sockets, c \in Conns :
          /\ sock[s] = 0 /\ \A r \in Sockets : r < s => sock[r] # 0
          /\ conn[c] = Unused /\ \A d \in 1 .. c - 1 : conn[d] # Unused
          /\ sock' = [sock EXCEPT ![s] = c]
          /\ conn' = [conn EXCEPT ![c].peer = "up", ![c].number = s]
          /\ thread' = [thread EXCEPT ![t].pc = "up", ![t].fd = s, ![t].own = c]
     \/ Finish(t) /\ UNCHANGED <<sock, conn>>
  /\ UNCHANGED <<mtx, transaction, is_down, requests, released, disturbed>>

\* Mutant of Up: the flag stays as it is
UpOnly(t) ==
  /\ At(t, "up")
  /\ Go(t, "lock")
  /\ UNCHANGED <<mtx, transaction, is_down, sock, conn, requests, released, disturbed>>

\* the rest of mb_tcp_bringup
Up(t) ==
  /\ At(t, "up")
  /\ is_down' = FALSE
  /\ Go(t, "lock")
  /\ UNCHANGED <<mtx, transaction, sock, conn, requests, released, disturbed>>

Release(t) == released' = released \cup {thread[t].own}

\* mb_tcp_shutdown tests is_down, closes, and sets it
Shutdown(t) ==
  /\ At(t, "close")
  /\ IF is_down THEN Finish(t) /\ Release(t)
     ELSE Go(t, "closing") /\ UNCHANGED released
  /\ UNCHANGED <<mtx, transaction, is_down, sock, conn, requests, disturbed>>

\* os_tcp_close: whatever the number stands for now
Close(s) == sock' = [sock EXCEPT ![s] = 0]

ShutdownClose(t) ==
  /\ At(t, "closing")
  /\ Close(thread[t].fd)
  /\ Go(t, "closed")
  /\ UNCHANGED <<mtx, transaction, is_down, conn, requests, released, disturbed>>

Disturb(t) == disturbed' = disturbed \cup
                {c \in Conns : conn[c] # Unused /\ c # thread[t].own}

ShutdownMark(t) ==
  /\ At(t, "closed")
  /\ is_down' = TRUE
  /\ Disturb(t)
  /\ Finish(t) /\ Release(t)
  /\ UNCHANGED <<mtx, transaction, sock, conn, requests>>

------------------------------------------------------------------------------
(* mb_read, mb_write, mb_write_single, mb_loopback: one critical section with
   mb_pdu_tx and mb_pdu_rx.  mb_send_msg and mb_get_msg: one each. *)

\* The transaction is filled in: arg is the handle's socket.  mb_get_msg keeps
\* the id of the last request.
Fill(t) ==
  IF At(t, "lock")
  THEN transaction' = [arg |-> thread[t].fd, n |-> thread[t].n] /\ Go(t, "tx")
  ELSE transaction' = [transaction EXCEPT !.arg = thread[t].fd] /\ Go(t, "rx")

\* Mutant of Lock: there is no mutex
LockNothing(t) ==
  /\ thread[t].pc \in {"lock", "lock_get"}
  /\ Fill(t)
  /\ UNCHANGED <<mtx, is_down, sock, conn, requests, released, disturbed>>

Lock(t) ==
  /\ thread[t].pc \in {"lock", "lock_get"}
  /\ mtx = Nobody
  /\ mtx' = t
  /\ Fill(t)
  /\ UNCHANGED <<is_down, sock, conn, requests, released, disturbed>>

Gone == {c \in Conns : conn[c].peer = "gone"}

\* Threads that have sent on c and not yet got
InGap(c) == {u \in Threads : /\ thread[u].pc = "lock_get"
                             /\ thread[u].on = c}

\* Thread t leaves the transport's function f for pc, having used connection c
Leave(t, c, pc, f) ==
  thread' = [u \in Threads |->
               IF u = t THEN [f EXCEPT !.pc = pc]
               ELSE [thread[u] EXCEPT !.between = @ \/ (c # 0 /\ u \in InGap(c))]]

\* What follows mb_pdu_tx
AfterTx(t) == IF thread[t].cmd = "raw" THEN "unlock_send" ELSE "rx"

\* mb_tcp_tx.  An error is not reported to the caller.  A send to a peer that
\* has gone may still succeed; one to a peer that takes no more does not return.
Tx(t) ==
  /\ At(t, "tx")
  /\ LET c == sock[transaction.arg]
     IN  \/ /\ c # 0 /\ conn[c].peer # "stalled"
            /\ conn' = [conn EXCEPT ![c].requests = Append(@, transaction.n)]
            /\ Leave(t, c, AfterTx(t), [thread[t] EXCEPT
                 !.on = c, !.clean = conn[c].requests = <<>> /\ conn[c].replies = <<>>])
         \/ /\ c \in {0} \cup Gone
            /\ Leave(t, c, "tx_close", thread[t])
            /\ UNCHANGED conn
  /\ UNCHANGED <<mtx, transaction, is_down, sock, requests, released, disturbed>>

\* os_tcp_close on an error: whatever the number stands for now
FailClose(t) ==
  /\ thread[t].pc \in {"tx_close", "rx_close"}
  /\ Close(transaction.arg)
  /\ Go(t, IF At(t, "tx_close") THEN "tx_mark" ELSE "rx_mark")
  /\ UNCHANGED <<mtx, transaction, is_down, conn, requests, released, disturbed>>

\* is_down = true on an error
FailMark(t) ==
  /\ thread[t].pc \in {"tx_mark", "rx_mark"}
  /\ is_down' = TRUE
  /\ Disturb(t)
  /\ Go(t, IF At(t, "tx_mark") THEN AfterTx(t) ELSE "unlock")
  /\ UNCHANGED <<mtx, transaction, sock, conn, requests, released>>

\* mb_tcp_rx: os_tcp_recv_wait finds something to read, or the end
RxWait(t) ==
  /\ At(t, "rx")
  /\ LET c == sock[transaction.arg] IN c # 0 /\ (conn[c].replies # <<>> \/ c \in Gone)
  /\ Go(t, "header")
  /\ UNCHANGED <<mtx, transaction, is_down, sock, conn, requests, released, disturbed>>

\* Mutant of RxTimeout: the connection is given up
RxTimeoutClose(t) ==
  /\ At(t, "rx")
  /\ LET c == sock[transaction.arg] IN
       /\ c # 0 /\ conn[c].replies = <<>> /\ c \notin Gone
       /\ Leave(t, c, "rx_close", [thread[t] EXCEPT !.result = ETIMEOUT])
  /\ UNCHANGED <<mtx, transaction, is_down, sock, conn, requests, released, disturbed>>

\* os_tcp_recv_wait times out
RxTimeout(t) ==
  /\ At(t, "rx")
  /\ LET c == sock[transaction.arg] IN
       /\ c # 0 /\ conn[c].replies = <<>> /\ c \notin Gone
       /\ Leave(t, c, "unlock", [thread[t] EXCEPT !.result = ETIMEOUT])
  /\ UNCHANGED <<mtx, transaction, is_down, sock, conn, requests, released, disturbed>>

\* os_tcp_recv of the header
RxHeader(t) ==
  /\ At(t, "header")
  /\ LET c == sock[transaction.arg] IN
       /\ c # 0 /\ conn[c].replies # <<>>
       /\ Leave(t, c, "body", [thread[t] EXCEPT !.from = c])
  /\ UNCHANGED <<mtx, transaction, is_down, sock, conn, requests, released, disturbed>>

\* The body that the header announced is not to come on c: the slave has cut the
\* message off, or c is not where the header came from
NoBody(t, c) == c = thread[t].from => Head(conn[c].replies).kind = "cut"

\* os_tcp_recv of the body.  One of no bytes counts as an error of the
\* connection; a message of another protocol is only dropped.
RxBody(t) ==
  /\ At(t, "body")
  /\ LET c == sock[transaction.arg]
         r == Head(conn[c].replies)
     IN  /\ c # 0 /\ c = thread[t].from /\ conn[c].replies # <<>> /\ r.kind # "cut"
         /\ conn' = [conn EXCEPT ![c].replies = Tail(@)]
         /\ Leave(t, c, IF r.kind = "empty" THEN "rx_close" ELSE "unlock",
                  [thread[t] EXCEPT !.got = r.n,
                                    !.result = IF r.kind = "ok" THEN 1 ELSE EFRAME_NOK])
  /\ UNCHANGED <<mtx, transaction, is_down, sock, requests, released, disturbed>>

\* os_tcp_recv_wait or os_tcp_recv finds the socket closed; os_tcp_recv finds
\* the connection closed where it should read.  Otherwise it waits, without a
\* limit: the rest has not come, or the number has another connection now.
RxClosed(t) ==
  /\ thread[t].pc \in {"rx", "header", "body"}
  /\ LET c == sock[transaction.arg] IN
       /\ \/ c = 0
          \/ At(t, "header") /\ c \in Gone /\ conn[c].replies = <<>>
          \/ At(t, "body") /\ c \in Gone /\ NoBody(t, c)
       /\ Leave(t, c, "rx_close", [thread[t] EXCEPT !.result = EFRAME_NOK])
  /\ UNCHANGED <<mtx, transaction, is_down, sock, conn, requests, released, disturbed>>

\* Mutant of Unlock: an error returns without it
UnlockOk(t) ==
  /\ thread[t].pc \in {"unlock", "unlock_send"}
  /\ mtx' = IF thread[t].result < 0 THEN mtx ELSE Nobody
  /\ CASE At(t, "unlock_send")    -> Go(t, "lock_get")
       [] thread[t].cmd = "shell" -> thread' = [thread EXCEPT ![t] =
            [Idle EXCEPT !.pc = "close", !.fd = thread[t].fd, !.own = thread[t].own]]
       [] OTHER                   -> Finish(t)
  /\ UNCHANGED <<transaction, is_down, sock, conn, requests, released, disturbed>>

\* mb_send_msg is followed by mb_get_msg, a command by mb_close
Unlock(t) ==
  /\ thread[t].pc \in {"unlock", "unlock_send"}
  /\ mtx' = Nobody
  /\ CASE At(t, "unlock_send")    -> Go(t, "lock_get")
       [] thread[t].cmd = "shell" -> thread' = [thread EXCEPT ![t] =
            [Idle EXCEPT !.pc = "close", !.fd = thread[t].fd, !.own = thread[t].own]]
       [] OTHER                   -> Finish(t)
  /\ UNCHANGED <<transaction, is_down, sock, conn, requests, released, disturbed>>

------------------------------------------------------------------------------
Open == {c \in Conns : \E s \in Sockets : sock[s] = c}

\* The slaves that cut a message off, take no more or have sent no message
Faulty == {c \in Conns : \/ conn[c].odd \/ conn[c].peer = "stalled"
                         \/ \E k \in DOMAIN conn[c].replies : conn[c].replies[k].kind = "cut"}

MayFault(c) == Cardinality(Faulty \ {c}) < MaxFaulty

\* External: the slave at the other end answers in order
Answer(c, kind) ==
  /\ kind # "ok" => MayFault(c)
  /\ c \in Open /\ conn[c].requests # <<>> /\ conn[c].peer = "up"
  /\ \A k \in DOMAIN conn[c].replies : conn[c].replies[k].kind # "cut"
  /\ conn' = [conn EXCEPT ![c].requests = Tail(@),
                          ![c].replies  = Append(@, [n |-> Head(conn[c].requests), kind |-> kind]),
                          ![c].odd      = @ \/ kind \in {"empty", "protocol"}]
  /\ UNCHANGED <<mtx, transaction, is_down, sock, thread, requests, released, disturbed>>

\* External: the slave stays but takes and sends no more, until it closes; it
\* shows when something is sent
PeerStall(c) ==
  /\ \E t \in Threads : At(t, "tx") /\ sock[transaction.arg] = c
  /\ c \in Open /\ conn[c].peer = "up" /\ MayFault(c)
  /\ conn' = [conn EXCEPT ![c].peer = "stalled"]
  /\ UNCHANGED <<mtx, transaction, is_down, sock, thread, requests, released, disturbed>>

\* External: the slave closes the connection
PeerClose(c) ==
  /\ c \in Open /\ conn[c].peer \in {"up", "stalled"}
  /\ conn' = [conn EXCEPT ![c].peer = "gone"]
  /\ UNCHANGED <<mtx, transaction, is_down, sock, thread, requests, released, disturbed>>

Step(t) ==
  \/ Connect(t) \/ Up(t) \/ Shutdown(t) \/ ShutdownClose(t) \/ ShutdownMark(t)
  \/ Tx(t) \/ FailClose(t) \/ FailMark(t)
  \/ RxWait(t) \/ RxTimeout(t) \/ RxHeader(t) \/ RxBody(t) \/ RxClosed(t)
  \/ Unlock(t)

Next ==
  \/ \E t \in Threads : Step(t) \/ Lock(t) \/ \E cmd \in Commands : Begin(t, cmd)
  \/ \E c \in Conns : PeerStall(c) \/ PeerClose(c) \/ \E kind \in Kinds : Answer(c, kind)

Spec == Init /\ [][Next]_vars

\* Threads run, and a free mutex is given to a thread that waits for it.  That
\* it goes to each of them in turn need not be said: the commands are bounded.
\* Nothing is asked of the slaves.
FairSpec == Spec /\ \A t \in Threads : WF_vars(Step(t) \/ Lock(t))

------------------------------------------------------------------------------
(* Properties. *)

\* A call that returns a message has the response to its own request, if
\* nothing was outstanding on the connection when it was sent: the mutex keeps
\* transaction.arg and the scratch buffer its own from mb_pdu_tx to mb_pdu_rx.
\* mb_send_msg and mb_get_msg, which lock one at a time, have it unless some
\* other thread used the handle, or its number was given away, in between.
OwnResponse ==
  \A t \in Threads : LET u == thread[t] IN
    u.result = 1 /\ u.clean /\ u.from = u.on /\ ~u.between => u.got = u.n

\* A call fails only if the slave of its own handle, or of another connection
\* that had the same socket number, has gone or has sent a response that is no
\* message: an error closes a number that somebody else may have by then, and
\* mb_close closes it again.
FailuresFollowNumbers ==
  \A t \in Threads :
    thread[t].result = EFRAME_NOK =>
      \E c \in Conns : (conn[c].peer = "gone" \/ conn[c].odd) /\ conn[c].number = thread[t].fd

\* After mb_close the connection is closed, unless another one was closed or
\* failed while it lasted: is_down is the transport's, not the handle's.
NoLeakAlone == (released \ disturbed) \cap Open = {}

\* The thread waits in send or recv, with the mutex and without a limit
Held(t) ==
  /\ thread[t].pc \in {"tx", "header", "body"}
  /\ LET c == sock[transaction.arg] IN
       /\ c # 0
       /\ CASE At(t, "tx")     -> conn[c].peer = "stalled"
            [] At(t, "header") -> c \notin Gone /\ conn[c].replies = <<>>
            [] At(t, "body")   -> c \notin Gone /\ NoBody(t, c)

\* Every command ends, but for a thread that is held for ever in a send or a
\* receive (a client's socket has no time limits), and for those that wait for
\* the mutex it holds: the mutex is given back on every path, and no thread
\* waits for ever for anything else.
CommandsEnd ==
  \A t \in Threads :
    thread[t].pc # "idle" ~>
      \/ thread[t].pc = "idle"
      \/ [](Held(t) \/ (thread[t].pc \in {"lock", "lock_get"} /\ \E u \in Threads : Held(u)))
==============================================================================
