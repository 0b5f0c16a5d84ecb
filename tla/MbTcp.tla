-------------------------------- MODULE MbTcp --------------------------------
(***************************************************************************)
(* The TCP transport mb_tcp.c with the Linux sockets of mbal_tcp.c, between*)
(* one master (the calls of mbus.c, which all end in mb_tcp_tx, mb_tcp_rx, *)
(* or one after the other) and slaves (the loop of mb_slave.c).            *)
(*                                                                         *)
(* A connection has two streams of parts: a message is a header [n, id,    *)
(* size] and then, unless it is empty, its body.  n numbers the requests   *)
(* (a response has the n of the request it answers) and is history: the    *)
(* code sees only the transaction id.  Each stream is in flight (out) and  *)
(* then in the reader's socket (in).  A connection can stall: what is in   *)
(* flight never comes, and neither end is told.                            *)
(***************************************************************************)
EXTENDS MbPdu, FiniteSets

CONSTANTS
  Slaves,     \* how many slaves listen, each serves one connection
  MaxConns,   \* bound on connections
  MaxPeers,   \* how many handles the application holds at a time
  MaxCalls,   \* bound on requests sent
  IdModulus,  \* transaction ids are in 0 .. IdModulus - 1 (2^16)
  MaySend,    \* whether mbus_send_msg and mbus_get_msg are used
  MayStall,   \* whether connections stall
  MayEmpty,   \* whether a slave sends an empty response
  MayStop     \* whether a slave is shut down

VARIABLES
  \* the master: transport is_down, transaction id and where a call is
  down, id, pc, peer, call, hdr, result,
  \* handles the application got from mbus_connect and did not disconnect
  handles,
  \* connections, by number, and requests sent so far
  conn, calls,
  \* history: per connection, requests sent and responses taken
  asked, taken

masterVars == <<down, id, pc, peer, call, hdr, result>>
histVars   == <<asked, taken>>
vars       == <<masterVars, handles, conn, calls, histVars>>

Conns == 1 .. MaxConns

ASSUME TcpAssumption ==
  /\ {Slaves, MaxConns, MaxPeers, MaxCalls} \subseteq Nat /\ IdModulus \in Nat \ {0}
  /\ {MaySend, MayStall, MayEmpty, MayStop} \subseteq BOOLEAN

\* No connection yet; a socket is "none", "open", "closed" or "stopped": open,
\* but the slave's task has ended
Fresh == [client |-> "none", server |-> "none", stalled |-> FALSE, serving |-> <<>>,
          reqOut |-> <<>>, reqIn |-> <<>>, repOut |-> <<>>, repIn |-> <<>>]

\* The parts of a message, as one send writes them
Message(n, i, size) ==
  LET h == [part |-> "header", n |-> n, id |-> i, size |-> size]
  IN  IF size = 0 THEN <<h>> ELSE <<h, [h EXCEPT !.part = "body"]>>

Init ==
  /\ down = TRUE /\ id = 0 /\ pc = "idle" /\ peer = 0 /\ call = 0
  /\ hdr = [n |-> 0, id |-> 0, size |-> 0] /\ result = 0
  /\ handles = {}
  /\ conn = [c \in Conns |-> Fresh]
  /\ calls = 0
  /\ asked = [c \in Conns |-> <<>>] /\ taken = [c \in Conns |-> <<>>]

------------------------------------------------------------------------------
(* mb_tcp.c in the master. *)

Serving == {c \in Conns : conn[c].server \in {"open", "stopped"}}

\* mbus_connect: mb_tcp_bringup.  It fails, and changes nothing, when nobody
\* listens: a slave that serves a connection has closed its listening socket.
Connect ==
  /\ pc = "idle" /\ Cardinality(handles) < MaxPeers /\ Cardinality(Serving) < Slaves
  /\ \E c \in Conns :
       /\ conn[c] = Fresh /\ \A d \in 1 .. c - 1 : conn[d] # Fresh
       /\ conn' = [conn EXCEPT ![c].client = "open", ![c].server = "open"]
       /\ handles' = handles \cup {c}
  /\ down' = FALSE
  /\ UNCHANGED <<id, pc, peer, call, hdr, result, calls, histVars>>

\* mbus_disconnect: mb_tcp_shutdown
Disconnect(c) ==
  /\ pc = "idle" /\ c \in handles
  /\ conn' = IF down THEN conn ELSE [conn EXCEPT ![c].client = "closed"]
  /\ down' = TRUE
  /\ handles' = handles \ {c}
  /\ UNCHANGED <<id, pc, peer, call, hdr, result, calls, histVars>>

\* Mutant of CloseClient: the transport is not marked down
CloseClientOnly(c) ==
  /\ conn' = [conn EXCEPT ![c].client = "closed"]
  /\ UNCHANGED down

\* os_tcp_close and is_down of the master, in the course of a call
CloseClient(c) ==
  /\ conn' = [conn EXCEPT ![c].client = "closed"]
  /\ down' = TRUE

\* A send on this socket may fail, and may succeed: a peer that has gone is
\* only noticed when it answers a packet
SendFails(c)    == conn[c].client = "closed" \/ conn[c].server = "closed"
SendSucceeds(c) == conn[c].client = "open"

\* mbus_read, mbus_write, ... and mbus_send_msg up to mb_tcp_tx; a failed send
\* is not reported, and a request is waited for all the same
Request(c, wait) ==
  /\ pc = "idle" /\ c \in handles /\ calls < MaxCalls
  /\ wait \/ MaySend
  /\ calls' = calls + 1 /\ call' = calls + 1 /\ peer' = c
  /\ id' = (id + 1) % IdModulus
  /\ \/ /\ SendSucceeds(c)
        /\ conn' = [conn EXCEPT ![c].reqOut = @ \o Message(calls + 1, id', 1)]
        /\ asked' = [asked EXCEPT ![c] = Append(@, calls + 1)]
        /\ UNCHANGED down
     \/ SendFails(c) /\ CloseClient(c) /\ UNCHANGED asked
  /\ pc' = IF wait THEN "wait" ELSE "idle"
  /\ result' = 0
  /\ UNCHANGED <<hdr, handles, taken>>

\* mbus_get_msg
GetMsg(c) ==
  /\ pc = "idle" /\ c \in handles /\ MaySend
  /\ peer' = c /\ call' = 0
  /\ pc' = "wait" /\ result' = 0
  /\ UNCHANGED <<down, id, hdr, handles, conn, calls, asked, taken>>

\* What recv on the master's socket finds
Readable(c) == conn[c].repIn # <<>>
AtEnd(c)    == conn[c].client = "closed" \/
               (conn[c].server = "closed" /\ conn[c].repOut = <<>> /\ conn[c].repIn = <<>>
                  /\ ~conn[c].stalled)

\* os_tcp_recv_wait: select returns
RecvReady ==
  /\ pc = "wait"
  /\ conn[peer].client = "open" /\ (Readable(peer) \/ AtEnd(peer))
  /\ pc' = "header"
  /\ UNCHANGED <<down, id, peer, call, hdr, result, handles, conn, calls, histVars>>

\* Nothing came in time; select ends at once when the timeout is 0
RecvTimeout ==
  /\ pc = "wait"
  /\ conn[peer].client = "open" /\ ~Readable(peer) /\ ~AtEnd(peer)
  /\ result' = ETIMEOUT
  /\ pc' = "idle"
  /\ UNCHANGED <<down, id, peer, call, hdr, handles, conn, calls, histVars>>

\* Mutant of RecvFails: only an error closes the connection, not its end
RecvFailsOnError ==
  /\ pc = "wait" /\ conn[peer].client = "closed"
  /\ CloseClient(peer)
  /\ result' = EFRAME_NOK
  /\ pc' = "idle"
  /\ UNCHANGED <<id, peer, call, hdr, handles, calls, histVars>>

\* Mutant of RecvFails: an empty response is an error, but not of the connection
RecvFailsKeepsOpen ==
  /\ \/ pc = "wait" /\ conn[peer].client = "closed"
     \/ pc \in {"header", "body"} /\ AtEnd(peer)
     \/ pc = "body" /\ hdr.size = 0
  /\ IF AtEnd(peer) \/ pc # "body" THEN CloseClient(peer) ELSE UNCHANGED <<conn, down>>
  /\ result' = EFRAME_NOK
  /\ pc' = "idle"
  /\ UNCHANGED <<id, peer, call, hdr, handles, calls, histVars>>

\* select fails on a closed socket, recv finds the end of the stream, or an
\* empty body makes it return 0: the connection is closed
RecvFails ==
  /\ \/ pc = "wait" /\ conn[peer].client = "closed"
     \/ pc \in {"header", "body"} /\ AtEnd(peer)
     \/ pc = "body" /\ hdr.size = 0
  /\ CloseClient(peer)
  /\ result' = EFRAME_NOK
  /\ pc' = "idle"
  /\ UNCHANGED <<id, peer, call, hdr, handles, calls, histVars>>

RecvHeader ==
  /\ pc = "header" /\ Readable(peer)
  /\ LET h == Head(conn[peer].repIn)
     IN  hdr' = [n |-> h.n, id |-> h.id, size |-> h.size]
  /\ conn' = [conn EXCEPT ![peer].repIn = Tail(@)]
  /\ pc' = "body"
  /\ UNCHANGED <<down, id, peer, call, result, handles, calls, histVars>>

\* The body is there: the transaction takes the id of the response
RecvBody ==
  /\ pc = "body" /\ hdr.size > 0 /\ Readable(peer)
  /\ conn' = [conn EXCEPT ![peer].repIn = Tail(@)]
  /\ id' = hdr.id
  /\ result' = hdr.size
  /\ taken' = [taken EXCEPT ![peer] = Append(@, hdr.n)]
  /\ pc' = "idle"
  /\ UNCHANGED <<down, peer, call, hdr, handles, calls, asked>>

Master == RecvReady \/ RecvTimeout \/ RecvFails \/ RecvHeader \/ RecvBody

App == Connect \/ \E c \in Conns : Disconnect(c) \/ GetMsg(c) \/ \E w \in BOOLEAN : Request(c, w)

------------------------------------------------------------------------------
(* mb_tcp.c in a slave, and the loop of mb_slave.c around it.  serving holds
   the message the slave is reading (part "header": its body is awaited) or
   has read (part "body"). *)

Reads(c, parts)  == conn[c].server = "open" /\ conn[c].serving = <<>> /\ parts # <<>>
AwaitsBody(c)    == conn[c].serving # <<>> /\ conn[c].serving[1].part = "header"
RequestsEnd(c)   == /\ conn[c].client = "closed" /\ conn[c].reqOut = <<>>
                    /\ conn[c].reqIn = <<>> /\ ~conn[c].stalled

ServeHeader(c) ==
  /\ Reads(c, conn[c].reqIn)
  /\ conn' = [conn EXCEPT ![c].serving = <<Head(conn[c].reqIn)>>, ![c].reqIn = Tail(@)]

ServeBody(c) ==
  /\ conn[c].server = "open" /\ AwaitsBody(c) /\ conn[c].reqIn # <<>>
  /\ conn' = [conn EXCEPT ![c].serving = <<Head(conn[c].reqIn)>>, ![c].reqIn = Tail(@)]

\* os_tcp_close in the slave.  When requests are left unread the master's
\* kernel may drop the responses it holds.
CloseServer(c) ==
  \E reset \in BOOLEAN :
    /\ reset => conn[c].reqOut # <<>> \/ conn[c].reqIn # <<>>
    /\ conn' = [conn EXCEPT ![c].server = "closed", ![c].serving = <<>>,
                            ![c].reqOut = <<>>, ![c].reqIn = <<>>,
                            ![c].repOut = IF reset THEN <<>> ELSE @,
                            ![c].repIn = IF reset THEN <<>> ELSE @]

\* Mutant of ServeFails: the end of the stream is not noticed
ServeFailsOnError(c) ==
  /\ conn[c].server = "open" /\ conn[c].reqIn = <<>>
  /\ \/ AwaitsBody(c)
     \/ conn[c].serving = <<>> /\ conn[c].stalled
  /\ CloseServer(c)

\* The body does not come in RCV_TIMEOUT, the stream ends, or the keepalives
\* of a stalled connection are not answered
ServeFails(c) ==
  /\ conn[c].server = "open" /\ conn[c].reqIn = <<>>
  /\ \/ AwaitsBody(c)
     \/ conn[c].serving = <<>> /\ (conn[c].stalled \/ RequestsEnd(c))
  /\ CloseServer(c)

\* The request is handled and answered under its id (mb_slave always
\* answers over TCP), or the master has gone
Respond(c) ==
  /\ conn[c].server = "open" /\ conn[c].serving # <<>> /\ ~AwaitsBody(c)
  /\ LET r == conn[c].serving[1]
     IN  \/ \E size \in (IF MayEmpty THEN {0, 1} ELSE {1}) :
              conn' = [conn EXCEPT ![c].serving = <<>>,
                                   ![c].repOut = @ \o Message(r.n, r.id, size)]
         \/ conn[c].client = "closed" /\ CloseServer(c)

\* mb_slave_shutdown, seen between two requests: the task ends and leaves its
\* connection open
Stop(c) ==
  /\ MayStop
  /\ conn[c].server = "open" /\ conn[c].serving = <<>>
  /\ conn' = [conn EXCEPT ![c].server = "stopped"]

------------------------------------------------------------------------------
(* External: the network. *)

\* The next part arrives; a closed socket takes none
Deliver(c) ==
  /\ ~conn[c].stalled
  /\ \/ /\ conn[c].reqOut # <<>>
        /\ conn' = [conn EXCEPT ![c].reqOut = Tail(@),
                     ![c].reqIn = IF conn[c].server # "closed"
                                  THEN Append(@, Head(conn[c].reqOut)) ELSE @]
     \/ /\ conn[c].repOut # <<>>
        /\ conn' = [conn EXCEPT ![c].repOut = Tail(@),
                     ![c].repIn = IF conn[c].client = "open"
                                  THEN Append(@, Head(conn[c].repOut)) ELSE @]

Stall(c) ==
  /\ MayStall
  /\ conn[c] # Fresh /\ ~conn[c].stalled
  /\ conn' = [conn EXCEPT ![c].stalled = TRUE]

Slave(c) == ServeHeader(c) \/ ServeBody(c) \/ ServeFails(c) \/ Respond(c)

Next ==
  \/ Master \/ App
  \/ \E c \in Conns : /\ Slave(c) \/ Stop(c) \/ Deliver(c) \/ Stall(c)
                      /\ UNCHANGED <<masterVars, handles, calls, histVars>>

Spec == Init /\ [][Next]_vars

\* Tasks run and parts in flight arrive; nobody has to call, stop or stall.
FairSpec ==
  /\ Spec
  /\ WF_vars(Master)
  /\ \A c \in Conns :
       /\ WF_vars(Slave(c) /\ UNCHANGED <<masterVars, handles, calls, histVars>>)
       /\ WF_vars(Deliver(c) /\ UNCHANGED <<masterVars, handles, calls, histVars>>)

------------------------------------------------------------------------------
(* What the transport promises. *)

\* On every connection the responses taken are those to the requests sent, in
\* order, none twice and none left out, whatever calls timed out, sockets
\* closed or messages came in two parts between them.
ResponsesInOrder ==
  \A c \in Conns : /\ Len(taken[c]) <= Len(asked[c])
                   /\ \A k \in 1 .. Len(taken[c]) : taken[c][k] = asked[c][k]

\* With one handle at a time, between two calls is_down says exactly whether
\* the master has a socket open, and an open socket has its handle: nothing
\* is leaked by mb_tcp_shutdown doing nothing when the transport is down.
FlagTracksSocket ==
  pc = "idle" => LET open == {c \in Conns : conn[c].client = "open"}
                 IN  open \subseteq handles /\ (down <=> open = {})

\* Every call of the master returns, whatever the slave does, unless its
\* connection stalls: os_tcp_connect sets no receive timeout, so a recv of a
\* message cut off by a stall has no end.
CallReturns == pc # "idle" ~> (pc = "idle" \/ conn[peer].stalled)

\* A slave whose master has closed or is cut off, also in the middle of a
\* message, gives the connection up and can accept the next (unless its task
\* is stopped).
SlaveFreed ==
  \A c \in Conns :
    (conn[c].server = "open" /\ (conn[c].client = "closed" \/ conn[c].stalled))
      ~> conn[c].server # "open"

\* The transaction id tells responses apart: a call that succeeds returns the
\* response to its own request.
ReplyMatches ==
  pc = "idle" /\ call > 0 /\ result > 0 /\ taken[peer] # <<>> =>
    taken[peer][Len(taken[peer])] = call
==============================================================================
