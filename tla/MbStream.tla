------------------------------- MODULE MbStream ------------------------------
(***************************************************************************)
(* mb_tcp.c over the byte streams of the Windows sockets, mbal_tcp.c: the  *)
(* loops around send and recv, which take a message in pieces; the length  *)
(* field, which the other end fills in; and bringup, which makes sockets   *)
(* in several calls that can each fail.  The Linux and rt-kernel ports     *)
(* have the same loops and the same error paths.                           *)
(*                                                                         *)
(* One end of a connection is this code, as a server or as a client, and   *)
(* the other any program at all.  A byte is <<m, k>>: byte k of message m. *)
(* The contents of a byte matter only in a header; where bytes that are    *)
(* not a header are read as one, its fields may hold anything.             *)
(***************************************************************************)
EXTENDS Integers, Sequences

CONSTANTS
  MBAP_HEADER_SIZE, MAX_PDU_SIZE,
  Lengths,       \* what a length field may hold
  SendBuffer,    \* bytes the kernel takes before send waits for the peer
  ReplySize,     \* size of the PDUs this end sends
  MaxConns, MaxMessages, MaxReplies   \* bounds: connections, messages each way

VARIABLES
  is_server, is_down,     \* mb_transport_t and mb_tcp_t
  sockets,                \* sockets of this process: "listener", "peer"
  pc, size, buffer, head, \* the task, the size asked of recv or send, what it
                          \* has moved so far, and the header before the body
  wire, closed,           \* bytes that have arrived, and the peer has closed
  queued,                 \* bytes sent that the peer has not taken
  \* history: connections; messages of the peer, as [length]; bytes and
  \* messages sent on this connection; a bad length was seen on it
  conns, messages, out, replies, malformed

netVars  == <<wire, closed, queued>>
histVars == <<conns, messages, out, replies, malformed>>
vars     == <<is_server, is_down, sockets, pc, size, buffer, head, netVars, histVars>>

ASSUME StreamAssumption ==
  /\ {MBAP_HEADER_SIZE, MAX_PDU_SIZE, SendBuffer, ReplySize} \subseteq Nat \ {0}
  /\ ReplySize <= MAX_PDU_SIZE /\ Lengths \subseteq Nat
  /\ {MaxConns, MaxMessages, MaxReplies} \subseteq Nat

Init ==
  /\ is_server \in BOOLEAN
  /\ is_down = TRUE /\ sockets = {}
  /\ pc = "idle" /\ size = 0 /\ buffer = <<>> /\ head = <<>>
  /\ wire = <<>> /\ closed = FALSE /\ queued = 0
  /\ conns = 0 /\ messages = <<>> /\ out = <<>> /\ replies = 0 /\ malformed = FALSE

------------------------------------------------------------------------------
(* mb_tcp_bringup: os_tcp_accept_connection or os_tcp_connect, with winsock
   started by the first of them. *)

Open(s, next) == sockets' = sockets \cup {s} /\ pc' = next

\* goto error1, error2: -1 is returned with every socket closed
GiveUp(made) == sockets' = sockets \ made /\ pc' = "idle"

\* socket ()
Bringup ==
  /\ pc = "idle" /\ is_down /\ conns < MaxConns
  /\ \/ Open(IF is_server THEN "listener" ELSE "peer",
             IF is_server THEN "listen" ELSE "connect")
     \/ GiveUp({})
  /\ UNCHANGED <<is_server, is_down, size, buffer, head, netVars, histVars>>

\* The options, bind, listen, and accept, which waits for RCV_TIMEOUT
Accept ==
  /\ pc = "listen"
  /\ Open("peer", "options") \/ GiveUp({"listener"})
  /\ UNCHANGED <<is_server, is_down, size, buffer, head, netVars, histVars>>

Established ==
  /\ is_down' = FALSE
  /\ conns' = conns + 1
  /\ wire' = <<>> /\ closed' = FALSE /\ queued' = 0
  /\ out' = <<>> /\ replies' = 0 /\ malformed' = FALSE

\* Mutant of Options: an error leaves the listening socket
OptionsLeak ==
  /\ pc = "options"
  /\ \/ GiveUp({"listener"}) /\ Established
     \/ GiveUp({"peer"}) /\ UNCHANGED <<is_down, netVars, conns, out, replies, malformed>>
  /\ UNCHANGED <<is_server, size, buffer, head, messages>>

\* The options of the peer's socket; the listening socket is closed
Options ==
  /\ pc = "options"
  /\ \/ GiveUp({"listener"}) /\ Established
     \/ GiveUp({"listener", "peer"})
        /\ UNCHANGED <<is_down, netVars, conns, out, replies, malformed>>
  /\ UNCHANGED <<is_server, size, buffer, head, messages>>

\* The options and connect
Connect ==
  /\ pc = "connect"
  /\ \/ pc' = "idle" /\ UNCHANGED sockets /\ Established
     \/ GiveUp({"peer"}) /\ UNCHANGED <<is_down, netVars, conns, out, replies, malformed>>
  /\ UNCHANGED <<is_server, size, buffer, head, messages>>

\* os_tcp_close and is_down = true
CloseLink ==
  /\ sockets' = sockets \ {"peer"} /\ is_down' = TRUE
  /\ wire' = <<>> /\ closed' = FALSE /\ queued' = 0
  /\ pc' = "idle" /\ buffer' = <<>> /\ head' = <<>> /\ size' = 0

Shutdown ==
  /\ pc = "idle" /\ ~is_down
  /\ CloseLink
  /\ UNCHANGED <<is_server, histVars>>

------------------------------------------------------------------------------
(* mb_tcp_rx. *)

\* while (remain > 0 && n > 0): another turn after n bytes were moved
Loops(remain) == remain > 0

\* os_tcp_recv_wait finds the socket readable
RxReady ==
  /\ pc = "idle" /\ ~is_down /\ (wire # <<>> \/ closed)
  /\ pc' = "header" /\ size' = MBAP_HEADER_SIZE /\ buffer' = <<>>
  /\ UNCHANGED <<is_server, is_down, sockets, head, netVars, histVars>>

\* Mutant of Recv: what the first recv brought is taken for all
RecvOnce ==
  /\ pc \in {"header", "body"} /\ Len(buffer) < size /\ wire # <<>>
  /\ \E n \in 1 .. Len(wire) :
       /\ n <= size - Len(buffer)
       /\ buffer' = buffer \o SubSeq(wire, 1, n)
       /\ wire' = SubSeq(wire, n + 1, Len(wire))
  /\ pc' = IF pc = "header" THEN "length" ELSE "protocol"
  /\ UNCHANGED <<is_server, is_down, sockets, size, head, closed, queued, histVars>>

\* recv takes some of what has arrived
Recv ==
  /\ pc \in {"header", "body"} /\ Len(buffer) < size /\ wire # <<>>
  /\ \E n \in 1 .. Len(wire) :
       /\ n <= size - Len(buffer)
       /\ buffer' = buffer \o SubSeq(wire, 1, n)
       /\ wire' = SubSeq(wire, n + 1, Len(wire))
       /\ pc' = IF Loops(size - Len(buffer) - n) THEN pc
                ELSE IF pc = "header" THEN "length" ELSE "protocol"
  /\ UNCHANGED <<is_server, is_down, sockets, size, head, closed, queued, histVars>>

IsHeader(b) == /\ Len(b) = MBAP_HEADER_SIZE
               /\ \A k \in 1 .. Len(b) : b[k] = <<b[1][1], k>>

\* size = length - 1 in a size_t, clipped: a length of 0 is the largest
PduSize(length) == IF length = 0 \/ length - 1 > MAX_PDU_SIZE THEN MAX_PDU_SIZE ELSE length - 1

\* The length field is believed
Length ==
  /\ pc = "length"
  /\ \E length \in IF IsHeader(buffer) THEN {messages[buffer[1][1]].length} ELSE Lengths :
       /\ size' = PduSize(length)
       /\ malformed' = (malformed \/ length = 0 \/ length - 1 > MAX_PDU_SIZE)
  /\ head' = buffer /\ buffer' = <<>>
  /\ pc' = "body"
  /\ UNCHANGED <<is_server, is_down, sockets, netVars, conns, messages, out, replies>>

\* recv returns 0 at the end of the stream and when no byte is asked for, and
\* -1 when a server has waited for RCV_TIMEOUT: the connection is closed
RecvFails ==
  /\ pc \in {"header", "body"}
  /\ \/ pc = "body" /\ size = 0
     \/ wire = <<>> /\ (closed \/ is_server)
  /\ CloseLink
  /\ UNCHANGED <<is_server, histVars>>

\* The message is returned, or dropped when its protocol field is not 0
Return ==
  /\ pc = "protocol"
  /\ pc' = "idle" /\ size' = 0 /\ buffer' = <<>> /\ head' = <<>>
  /\ UNCHANGED <<is_server, is_down, sockets, netVars, histVars>>

------------------------------------------------------------------------------
(* mb_tcp_tx. *)

Tx ==
  /\ pc = "idle" /\ ~is_down /\ replies < MaxReplies
  /\ pc' = "send" /\ size' = MBAP_HEADER_SIZE + ReplySize
  /\ replies' = replies + 1
  /\ UNCHANGED <<is_server, is_down, sockets, buffer, head, netVars,
                 conns, messages, out, malformed>>

\* Mutant of Send: what the first send took is all that goes out
SendOnce ==
  /\ pc = "send"
  /\ \E n \in 1 .. SendBuffer - queued :
       /\ n <= size
       /\ out' = out \o [k \in 1 .. n |-> <<replies, MBAP_HEADER_SIZE + ReplySize - size + k>>]
       /\ queued' = queued + n
  /\ size' = 0 /\ pc' = "idle"
  /\ UNCHANGED <<is_server, is_down, sockets, buffer, head, wire, closed,
                 conns, messages, replies, malformed>>

\* send takes as much as the kernel has room for
Send ==
  /\ pc = "send"
  /\ \E n \in 1 .. SendBuffer - queued :
       /\ n <= size
       /\ out' = out \o [k \in 1 .. n |-> <<replies, MBAP_HEADER_SIZE + ReplySize - size + k>>]
       /\ queued' = queued + n
       /\ IF Loops(size - n) THEN size' = size - n /\ UNCHANGED pc
          ELSE size' = 0 /\ pc' = "idle"
  /\ UNCHANGED <<is_server, is_down, sockets, buffer, head, wire, closed,
                 conns, messages, replies, malformed>>

\* Mutant of SendFails: the error is looked at only before the first byte
SendFailsFirst ==
  /\ pc = "send" /\ closed /\ size = MBAP_HEADER_SIZE + ReplySize
  /\ CloseLink
  /\ UNCHANGED <<is_server, histVars>>

\* The peer has gone
SendFails ==
  /\ pc = "send" /\ closed
  /\ CloseLink
  /\ UNCHANGED <<is_server, histVars>>

Task == \/ Accept \/ Options \/ Connect \/ RxReady \/ Recv \/ Length \/ RecvFails
        \/ Return \/ Send \/ SendFails

App == Bringup \/ Shutdown \/ Tx

------------------------------------------------------------------------------
(* External: the program at the other end.  It sends a message with the length
   it announces (0 as a header alone), takes bytes, and closes. *)

PeerSend ==
  /\ ~is_down /\ ~closed /\ Len(messages) < MaxMessages
  /\ \E length \in Lengths :
       LET m == Len(messages) + 1
           n == MBAP_HEADER_SIZE + (IF length = 0 THEN 0 ELSE length - 1)
       IN  /\ messages' = Append(messages, [length |-> length])
           /\ wire' = wire \o [k \in 1 .. n |-> <<m, k>>]
  /\ UNCHANGED <<is_server, is_down, sockets, pc, size, buffer, head, closed, queued,
                 conns, out, replies, malformed>>

PeerTake ==
  /\ queued > 0 /\ ~closed
  /\ queued' = 0
  /\ UNCHANGED <<is_server, is_down, sockets, pc, size, buffer, head, wire, closed, histVars>>

PeerClose ==
  /\ ~is_down /\ ~closed
  /\ closed' = TRUE
  /\ UNCHANGED <<is_server, is_down, sockets, pc, size, buffer, head, wire, queued, histVars>>

Next == Task \/ App \/ PeerSend \/ PeerTake \/ PeerClose

Spec == Init /\ [][Next]_vars

\* The task runs; nothing is asked of the peer or of the application
FairSpec == Spec /\ WF_vars(Task)

------------------------------------------------------------------------------
(* Properties. *)

\* Whatever call of bringup fails, it leaves no socket behind: outside of it
\* there is the peer's socket when the transport is up, and none when it is
\* down.
SocketsBalanced ==
  pc \notin {"listen", "options", "connect"} =>
    sockets = IF is_down THEN {} ELSE {"peer"}

\* However the stream is cut up, a message is read as its header and then its
\* whole body, and the next one from its first byte, unless a length of 0 or
\* one above the buffer's came before: from then on payload is read as headers.
\* Even then a body never runs over the caller's MAX_PDU_SIZE bytes (size_t
\* wraps for 0).
InSync ==
  /\ pc = "body" => size <= MAX_PDU_SIZE
  /\ ~malformed =>
       /\ pc = "idle" /\ wire # <<>> => wire[1][2] = 1
       /\ pc = "length" => IsHeader(buffer)
       /\ pc \in {"body", "protocol"} =>
            /\ IsHeader(head)
            /\ size = messages[head[1][1]].length - 1
            /\ \A k \in DOMAIN buffer : buffer[k] = <<head[1][1], MBAP_HEADER_SIZE + k>>
       /\ pc = "protocol" => Len(buffer) = size

\* What goes out on a connection is whole messages one after the other, and
\* at its end a part of the one being sent: no byte is left out, sent twice or
\* mixed with the next message when send takes a message in pieces.
RepliesWhole ==
  /\ \A i \in DOMAIN out :
       LET n == MBAP_HEADER_SIZE + ReplySize
       IN  out[i] = <<((i - 1) \div n) + 1, ((i - 1) % n) + 1>>
  /\ pc # "send" /\ ~is_down => Len(out) = replies * (MBAP_HEADER_SIZE + ReplySize)

\* A server never waits for the rest of a message for ever (SO_RCVTIMEO); a
\* client, which sets no timeout, may.  A send ends, also when the peer goes in
\* the middle of it, unless the peer stays and takes nothing.
TransfersEnd ==
  /\ (is_server /\ pc \in {"header", "body"}) ~> pc \notin {"header", "body"}
  /\ pc = "send" ~> (pc # "send" \/ (queued = SendBuffer /\ ~closed))
==============================================================================
