----------------------------- MODULE MbTcp_proofs -----------------------------
(***************************************************************************)
(* Proofs about the TCP transport, for any number of slaves, connections,  *)
(* handles and calls.                                                      *)
(*                                                                         *)
(* The position of a part in the conversation of a connection is a mark:   *)
(* the message for the r-th request runs from mark 2(r - 1) to mark 2r,    *)
(* its header up to the odd mark between them (an empty message has only   *)
(* the header, which then spans both).  While the master's socket is open, *)
(* what was taken, what lies in the four streams and what the slave holds  *)
(* follow one another from mark 0 to the mark of the last request.         *)
(***************************************************************************)
EXTENDS MbTcp, SequenceTheorems, FiniteSetTheorems, TLAPS

Part       == [part : {"header", "body"}, n : Nat, id : Nat, size : {0, 1}]
ConnRecord == [client : {"none", "open", "closed"},
               server : {"none", "open", "closed", "stopped"}, stalled : BOOLEAN,
               serving : Seq(Part), reqOut : Seq(Part), reqIn : Seq(Part),
               repOut : Seq(Part), repIn : Seq(Part)]

TcpType ==
  /\ down \in BOOLEAN /\ id \in Nat /\ pc \in {"idle", "wait", "header", "body"}
  /\ peer \in Nat /\ (pc # "idle" => peer \in Conns)
  /\ hdr \in [n : Nat, id : Nat, size : {0, 1}]
  /\ handles \subseteq Conns /\ conn \in [Conns -> ConnRecord] /\ calls \in Nat
  /\ asked \in [Conns -> Seq(Nat)] /\ taken \in [Conns -> Seq(Nat)]

\* A part of a message for the r+1-st of these requests leads from mark a to
\* mark b
PartAt(req, p, a, b) ==
  \E r \in Nat :
    /\ r < Len(req) /\ p.n = req[r + 1]
    /\ \/ p.part = "header" /\ a = 2 * r /\ b = IF p.size = 0 THEN 2 * r + 2 ELSE 2 * r + 1
       \/ p.part = "body" /\ a = 2 * r + 1 /\ b = 2 * r + 2

\* The parts of s, of these sizes, lead one after the other from a to b
Flow(req, sizes, s, a, b) ==
  \E mark \in [0 .. Len(s) -> Nat] :
    /\ mark[0] = a /\ mark[Len(s)] = b
    /\ \A k \in 1 .. Len(s) : s[k].size \in sizes /\ PartAt(req, s[k], mark[k - 1], mark[k])

\* A slave that has answered up to mark 2r and read up to mark b
Held(req, serving, r, b) ==
  \/ serving = <<>> /\ b = 2 * r
  \/ /\ serving # <<>> /\ r < Len(req) /\ serving[1].n = req[r + 1]
     /\ b = IF serving[1].part = "header" THEN 2 * r + 1 ELSE 2 * r + 2

\* What is on its way to the master continues at mark a; and, unless the
\* slave's end is closed, it leads on to the last request sent
Chain(req, k, a) ==
  \E b \in Nat, d \in Nat :
    /\ Flow(req, {0, 1}, k.repIn, a, b) /\ Flow(req, {0, 1}, k.repOut, b, d)
    /\ k.server # "closed" =>
         \E r \in Nat, e \in Nat, f \in Nat :
           /\ d = 2 * r /\ Held(req, k.serving, r, e)
           /\ Flow(req, {1}, k.reqIn, e, f) /\ Flow(req, {1}, k.reqOut, f, 2 * Len(req))

\* How far the master has read on connection c
TakenTo(c) ==
  IF pc = "body" /\ peer = c
  THEN 2 * Len(taken[c]) + (IF hdr.size = 0 THEN 2 ELSE 1)
  ELSE 2 * Len(taken[c])

\* The header the master has read is of the next request's response
HeaderInv ==
  pc = "body" => /\ Len(taken[peer]) < Len(asked[peer])
                 /\ hdr.n = asked[peer][Len(taken[peer]) + 1]

\* A connection nobody made is unused; a recv is on an open socket
SocketInv ==
  /\ \A c \in Conns :
       conn[c].client = "none" => conn[c] = Fresh /\ asked[c] = <<>> /\ taken[c] = <<>>
  /\ pc \in {"header", "body"} => conn[peer].client = "open"

ChainInv == \A c \in Conns : conn[c].client = "open" => Chain(asked[c], conn[c], TakenTo(c))

OrderInv == TcpType /\ SocketInv /\ HeaderInv /\ ChainInv /\ ResponsesInOrder

------------------------------------------------------------------------------
(* Parts that follow one another. *)

\* What is put at the end of a stream of parts.
LEMMA PartsAppended ==
  \A s \in Seq(Part), p \in Part :
    /\ Append(s, p) \in Seq(Part) /\ Append(s, p) = s \o <<p>>
    /\ Len(Append(s, p)) = Len(s) + 1 /\ Append(s, p)[Len(s) + 1] = p
    /\ \A k \in 1 .. Len(s) : Append(s, p)[k] = s[k]
BY AppendProperties, AppendIsConcat

\* No part leads nowhere.
LEMMA FlowNothing ==
  ASSUME NEW req \in Seq(Nat), NEW sizes, NEW a \in Nat
  PROVE  Flow(req, sizes, <<>>, a, a)
<1> DEFINE mark == [k \in 0 .. 0 |-> a]
<1>1. mark \in [0 .. Len(<<>>) -> Nat] /\ mark[0] = a /\ mark[Len(<<>>)] = a
  OBVIOUS
<1>2. 1 .. Len(<<>>) = {}
  OBVIOUS
<1> QED BY <1>1, <1>2 DEF Flow

\* A flow without parts ends where it began.
LEMMA FlowEmpty ==
  ASSUME NEW req \in Seq(Nat), NEW sizes, NEW s \in Seq(Part), s = <<>>,
         NEW a \in Nat, NEW b \in Nat, Flow(req, sizes, s, a, b)
  PROVE  a = b
BY DEF Flow

\* A part that continues a flow can be put at its end.
LEMMA FlowAppend ==
  ASSUME NEW req \in Seq(Nat), NEW sizes, NEW s \in Seq(Part), NEW p \in Part,
         NEW a \in Nat, NEW b \in Nat, NEW c \in Nat,
         Flow(req, sizes, s, a, b), p.size \in sizes, PartAt(req, p, b, c)
  PROVE  Flow(req, sizes, Append(s, p), a, c)
<1>1. PICK mark \in [0 .. Len(s) -> Nat] :
        /\ mark[0] = a /\ mark[Len(s)] = b
        /\ \A k \in 1 .. Len(s) : s[k].size \in sizes /\ PartAt(req, s[k], mark[k - 1], mark[k])
  BY DEF Flow
<1>2. PICK t : t = Append(s, p)
  OBVIOUS
<1>a. /\ t \in Seq(Part) /\ Len(t) = Len(s) + 1 /\ t[Len(s) + 1] = p
      /\ \A k \in 1 .. Len(s) : t[k] = s[k]
  BY <1>2, AppendProperties
<1>3. PICK next \in [0 .. Len(t) -> Nat] :
        next[Len(t)] = c /\ \A k \in 0 .. Len(s) : next[k] = mark[k]
  <2> DEFINE next == [k \in 0 .. Len(t) |-> IF k <= Len(s) THEN mark[k] ELSE c]
  <2>1. next \in [0 .. Len(t) -> Nat] /\ next[Len(t)] = c
    BY <1>2, <1>a
  <2>2. \A k \in 0 .. Len(s) : next[k] = mark[k]
    BY <1>2, <1>a
  <2> QED BY <2>1, <2>2
<1>4. ASSUME NEW k \in 1 .. Len(t)
      PROVE  t[k].size \in sizes /\ PartAt(req, t[k], next[k - 1], next[k])
  <2>1. CASE k \in 1 .. Len(s)
    <3>1. k \in 0 .. Len(s) /\ k - 1 \in 0 .. Len(s)
      BY <2>1
    <3>2. t[k] = s[k] /\ next[k - 1] = mark[k - 1] /\ next[k] = mark[k]
      BY <1>a, <1>3, <2>1, <3>1
    <3> QED BY <1>1, <2>1, <3>2
  <2>2. CASE k = Len(s) + 1
    <3>1. t[k] = p /\ next[k - 1] = b /\ next[k] = c
      BY <1>1, <1>2, <1>a, <1>3, <2>2
    <3> QED BY <3>1
  <2> QED BY <1>2, <1>a, <2>1, <2>2
<1>5. next[0] = a
  <2>1. 0 \in 0 .. Len(s)
    OBVIOUS
  <2> QED BY <1>1, <1>3, <2>1
<1> QED BY <1>2, <1>a, <1>3, <1>4, <1>5 DEF Flow

\* The first part of a flow can be taken off.
LEMMA FlowHead ==
  ASSUME NEW req \in Seq(Nat), NEW sizes, NEW s \in Seq(Part), s # <<>>,
         NEW a \in Nat, NEW b \in Nat, Flow(req, sizes, s, a, b)
  PROVE  \E c \in Nat : /\ Head(s).size \in sizes /\ PartAt(req, Head(s), a, c)
                        /\ Flow(req, sizes, Tail(s), c, b)
<1>1. PICK mark \in [0 .. Len(s) -> Nat] :
        /\ mark[0] = a /\ mark[Len(s)] = b
        /\ \A k \in 1 .. Len(s) : s[k].size \in sizes /\ PartAt(req, s[k], mark[k - 1], mark[k])
  BY DEF Flow
<1>2. PICK t : t = Tail(s)
  OBVIOUS
<1>a. t \in Seq(Part) /\ Len(s) = Len(t) + 1 /\ \A k \in 1 .. Len(t) : t[k] = s[k + 1]
  BY <1>2, HeadTailProperties
<1>3. Head(s) = s[1] /\ 1 \in 1 .. Len(s) /\ 1 \in 0 .. Len(s) /\ 1 - 1 = 0
  BY <1>a
<1>4. mark[1] \in Nat /\ Head(s).size \in sizes /\ PartAt(req, Head(s), a, mark[1])
  <2>1. s[1].size \in sizes /\ PartAt(req, s[1], mark[1 - 1], mark[1])
    BY <1>1, <1>3
  <2>2. mark[1] \in Nat
    BY <1>3
  <2> QED BY <1>1, <1>3, <2>1, <2>2
<1>5. Flow(req, sizes, t, mark[1], b)
  <2>1. PICK next \in [0 .. Len(t) -> Nat] : \A k \in 0 .. Len(t) : next[k] = mark[k + 1]
    <3> DEFINE next == [k \in 0 .. Len(t) |-> mark[k + 1]]
    <3>1. next \in [0 .. Len(t) -> Nat]
      BY <1>2, <1>a
    <3> QED BY <3>1
  <2>2. next[0] = mark[1] /\ next[Len(t)] = b
    BY <1>1, <1>2, <1>a, <2>1
  <2>3. ASSUME NEW k \in 1 .. Len(t)
        PROVE  t[k].size \in sizes /\ PartAt(req, t[k], next[k - 1], next[k])
    <3>1. t[k] = s[k + 1] /\ next[k - 1] = mark[k] /\ next[k] = mark[k + 1]
          /\ k + 1 \in 1 .. Len(s) /\ (k + 1) - 1 = k
      BY <1>2, <1>a, <2>1
    <3> QED BY <1>1, <3>1
  <2> QED BY <2>2, <2>3 DEF Flow
<1> QED BY <1>2, <1>a, <1>4, <1>5

\* A request more moves nothing that came before.
LEMMA FlowGrow ==
  ASSUME NEW req \in Seq(Nat), NEW n \in Nat, NEW sizes, NEW s \in Seq(Part),
         NEW a \in Nat, NEW b \in Nat, Flow(req, sizes, s, a, b)
  PROVE  Flow(Append(req, n), sizes, s, a, b)
<1>1. PICK more : more = Append(req, n)
  OBVIOUS
<1>a. more \in Seq(Nat) /\ Len(more) = Len(req) + 1 /\ \A k \in 1 .. Len(req) : more[k] = req[k]
  BY <1>1, AppendProperties
<1>2. ASSUME NEW p, NEW x, NEW y, PartAt(req, p, x, y) PROVE PartAt(more, p, x, y)
  <2>1. PICK r \in Nat :
          /\ r < Len(req) /\ p.n = req[r + 1]
          /\ \/ p.part = "header" /\ x = 2 * r /\ y = IF p.size = 0 THEN 2 * r + 2 ELSE 2 * r + 1
             \/ p.part = "body" /\ x = 2 * r + 1 /\ y = 2 * r + 2
    BY <1>2 DEF PartAt
  <2>2. r < Len(more) /\ p.n = more[r + 1]
    <3>1. r + 1 \in 1 .. Len(req)
      BY <2>1
    <3> QED BY <1>a, <2>1, <3>1
  <2> QED BY <2>1, <2>2 DEF PartAt
<1> QED BY <1>1, <1>2 DEF Flow

\* To write a message is to write these parts
WritesHeader(s, n, i, h) ==
  /\ s \o Message(n, i, 0) = Append(s, h)
  /\ h.part = "header" /\ h.n = n /\ h.size = 0

WritesBoth(s, n, i, h, b) ==
  /\ s \o Message(n, i, 1) = Append(Append(s, h), b)
  /\ h.part = "header" /\ h.n = n /\ h.size = 1
  /\ b.part = "body" /\ b.n = n /\ b.size = 1

\* An empty message is a header at the end of the stream it is written to.
LEMMA MessageEmpty ==
  \A s \in Seq(Part), n \in Nat, i \in Nat : \E h \in Part : WritesHeader(s, n, i, h)
<1> TAKE s \in Seq(Part), n \in Nat, i \in Nat
<1>1. PICK h : h = [part |-> "header", n |-> n, id |-> i, size |-> 0]
  OBVIOUS
<1>2. h \in Part /\ h.part = "header" /\ h.n = n /\ h.size = 0
  BY <1>1 DEF Part
<1>3. Message(n, i, 0) = <<h>>
  BY <1>1 DEF Message
<1>4. Append(s, h) = s \o <<h>>
  BY <1>2, AppendIsConcat
<1> QED BY <1>2, <1>3, <1>4 DEF WritesHeader

\* A message is a sequence of parts.
LEMMA MessageTyped ==
  ASSUME NEW n \in Nat, NEW i \in Nat, NEW size \in {0, 1}
  PROVE  Message(n, i, size) \in Seq(Part)
<1>1. PICK h : h = [part |-> "header", n |-> n, id |-> i, size |-> size]
  OBVIOUS
<1>2. PICK b : b = [h EXCEPT !.part = "body"]
  OBVIOUS
<1>3. h \in Part /\ b \in Part
  BY <1>1, <1>2 DEF Part
<1>4. <<h>> \in Seq(Part) /\ <<h, b>> \in Seq(Part)
  BY <1>3
<1> QED BY <1>1, <1>2, <1>4 DEF Message

\* Any other is a header and a body.
LEMMA MessageFull ==
  \A s \in Seq(Part), n \in Nat, i \in Nat :
    \E h \in Part, b \in Part : WritesBoth(s, n, i, h, b)
<1> TAKE s \in Seq(Part), n \in Nat, i \in Nat
<1>1. PICK h : h = [part |-> "header", n |-> n, id |-> i, size |-> 1]
  OBVIOUS
<1>2. h \in Part /\ h.part = "header" /\ h.n = n /\ h.size = 1
  BY <1>1 DEF Part
<1>3. PICK b : b = [h EXCEPT !.part = "body"]
  OBVIOUS
<1>4. b \in Part /\ b.part = "body" /\ b.n = n /\ b.size = 1
  BY <1>2, <1>3 DEF Part
<1>5. Message(n, i, 1) = <<h, b>>
  BY <1>1, <1>3 DEF Message
<1>6. Append(Append(s, h), b) = s \o <<h, b>>
  <2>1. PICK t : t = Append(s, h)
    OBVIOUS
  <2>2. t \in Seq(Part) /\ t = s \o <<h>> /\ Append(t, b) = t \o <<b>>
    BY <1>2, <1>4, <2>1, AppendProperties, AppendIsConcat
  <2>3. (s \o <<h>>) \o <<b>> = s \o (<<h>> \o <<b>>)
    BY <1>2, <1>4, ConcatAssociative
  <2>4. <<h>> \o <<b>> = <<h, b>>
    <3>1. PICK x, y : x = <<h>> /\ y = <<h, b>>
      OBVIOUS
    <3>2. PICK z : z = Append(x, b)
      OBVIOUS
    <3>3. /\ x \in Seq(Part) /\ Len(x) = 1 /\ x[1] = h
          /\ y \in Seq(Part) /\ Len(y) = 2 /\ y[1] = h /\ y[2] = b
      BY <1>2, <1>4, <3>1
    <3>4. z \in Seq(Part) /\ Len(z) = Len(x) + 1 /\ z[Len(x) + 1] = b /\ z[1] = x[1]
      <4>1. 1 \in 1 .. Len(x)
        BY <3>3
      <4> QED BY <1>4, <3>2, <3>3, <4>1, PartsAppended
    <3>5. Len(z) = 2 /\ z[1] = y[1] /\ z[2] = y[2]
      BY <3>3, <3>4
    <3>6. \A w \in 1 .. Len(z) : z[w] = y[w]
      BY <3>5
    <3>7. z = y
      BY <3>3, <3>4, <3>5, <3>6, SeqEqual
    <3>8. z = x \o <<b>>
      BY <1>4, <3>2, <3>3, PartsAppended
    <3> QED BY <3>1, <3>7, <3>8
  <2> QED BY <2>1, <2>2, <2>3, <2>4
<1> QED BY <1>2, <1>4, <1>5, <1>6 DEF WritesBoth

------------------------------------------------------------------------------
(* What each step does to the conversation of its connection. *)

\* The streams and the slave's end of two states of a connection agree.
SameStreams(k, j) ==
  /\ j.repIn = k.repIn /\ j.repOut = k.repOut /\ j.serving = k.serving
  /\ j.reqIn = k.reqIn /\ j.reqOut = k.reqOut

\* A step that keeps the streams keeps the chain of what is on its way.
LEMMA ChainKept ==
  ASSUME NEW req \in Seq(Nat), NEW k \in ConnRecord, NEW j \in ConnRecord, NEW a \in Nat,
         Chain(req, k, a), SameStreams(k, j), j.server # "closed" => k.server # "closed"
  PROVE  Chain(req, j, a)
BY DEF Chain, SameStreams

\* A connection just made has nothing on its way.
LEMMA ChainFresh ==
  ASSUME NEW k \in ConnRecord, SameStreams(Fresh, k)
  PROVE  Chain(<<>>, k, 0)
<1>1. /\ k.repIn = <<>> /\ k.repOut = <<>> /\ k.serving = <<>> /\ k.reqIn = <<>> /\ k.reqOut = <<>>
  BY DEF SameStreams, Fresh
<1>2. <<>> \in Seq(Nat) /\ 2 * Len(<<>>) = 0 /\ 2 * 0 = 0 /\ 0 \in Nat
  OBVIOUS
<1>3. \A sizes : Flow(<<>>, sizes, <<>>, 0, 0)
  BY <1>2, FlowNothing
<1>4. Held(<<>>, <<>>, 0, 0)
  BY DEF Held
<1> QED BY <1>1, <1>2, <1>3, <1>4, Zenon DEF Chain

\* A request is written: it follows the last one.
LEMMA ChainSend ==
  ASSUME NEW req \in Seq(Nat), NEW k \in ConnRecord, NEW j \in ConnRecord, NEW a \in Nat,
         NEW n \in Nat, NEW i \in Nat, Chain(req, k, a),
         j.reqOut = k.reqOut \o Message(n, i, 1), j.reqIn = k.reqIn, j.serving = k.serving,
         j.repOut = k.repOut, j.repIn = k.repIn, j.server = k.server
  PROVE  Chain(Append(req, n), j, a)
<1>1. PICK more : more = Append(req, n)
  OBVIOUS
<1>2. /\ more \in Seq(Nat) /\ Len(more) = Len(req) + 1 /\ more[Len(req) + 1] = n
      /\ \A x \in 1 .. Len(req) : more[x] = req[x]
  BY <1>1, AppendProperties
<1>3. /\ k.repIn \in Seq(Part) /\ k.repOut \in Seq(Part) /\ k.reqIn \in Seq(Part)
      /\ k.reqOut \in Seq(Part) /\ k.serving \in Seq(Part)
  BY DEF ConnRecord
<1>4. PICK b \in Nat, d \in Nat :
        /\ Flow(req, {0, 1}, k.repIn, a, b) /\ Flow(req, {0, 1}, k.repOut, b, d)
        /\ k.server # "closed" =>
             \E r \in Nat, e \in Nat, f \in Nat :
               /\ d = 2 * r /\ Held(req, k.serving, r, e)
               /\ Flow(req, {1}, k.reqIn, e, f) /\ Flow(req, {1}, k.reqOut, f, 2 * Len(req))
  BY DEF Chain
<1>5. Flow(more, {0, 1}, j.repIn, a, b) /\ Flow(more, {0, 1}, j.repOut, b, d)
  BY <1>1, <1>3, <1>4, FlowGrow
<1>6. ASSUME j.server # "closed"
      PROVE  \E r \in Nat, e \in Nat, f \in Nat :
               /\ d = 2 * r /\ Held(more, j.serving, r, e)
               /\ Flow(more, {1}, j.reqIn, e, f) /\ Flow(more, {1}, j.reqOut, f, 2 * Len(more))
  <2>1. PICK r \in Nat, e \in Nat, f \in Nat :
          /\ d = 2 * r /\ Held(req, k.serving, r, e)
          /\ Flow(req, {1}, k.reqIn, e, f) /\ Flow(req, {1}, k.reqOut, f, 2 * Len(req))
    BY <1>4, <1>6
  <2>2. PICK x \in Nat : x = Len(req)
    OBVIOUS
  <2>3. 2 * x \in Nat /\ 2 * x + 1 \in Nat /\ 2 * x + 2 \in Nat /\ 2 * Len(more) = 2 * x + 2
    BY <1>2, <2>2
  <2>4. Flow(more, {1}, k.reqIn, e, f) /\ Flow(more, {1}, k.reqOut, f, 2 * x)
    BY <1>1, <1>3, <2>1, <2>2, <2>3, FlowGrow
  <2>5. PICK h \in Part, g \in Part :
          /\ j.reqOut = Append(Append(k.reqOut, h), g)
          /\ h.part = "header" /\ h.n = n /\ h.size = 1
          /\ g.part = "body" /\ g.n = n /\ g.size = 1
    <3>1. PICK t \in Seq(Part) : t = k.reqOut
      BY <1>3
    <3>2. \E h \in Part, g \in Part : WritesBoth(t, n, i, h, g)
      BY MessageFull
    <3> QED BY <3>1, <3>2 DEF WritesBoth
  <2>6. PartAt(more, h, 2 * x, 2 * x + 1) /\ PartAt(more, g, 2 * x + 1, 2 * x + 2)
    <3>1. x < Len(more) /\ h.n = more[x + 1] /\ g.n = more[x + 1] /\ h.size # 0
      BY <1>2, <2>2, <2>5
    <3> QED BY <2>5, <3>1 DEF PartAt
  <2>7. PICK t \in Seq(Part) : t = Append(k.reqOut, h)
    BY <1>3, AppendProperties
  <2>8. Flow(more, {1}, t, f, 2 * x + 1)
    BY <1>2, <1>3, <2>3, <2>4, <2>5, <2>6, <2>7, FlowAppend
  <2>9. Flow(more, {1}, Append(t, g), f, 2 * x + 2)
    BY <1>2, <2>3, <2>5, <2>6, <2>8, FlowAppend
  <2>10. Held(more, k.serving, r, e)
    <3>1. CASE k.serving = <<>>
      BY <2>1, <3>1 DEF Held
    <3>2. CASE k.serving # <<>>
      <4>1. /\ r < Len(req) /\ k.serving[1].n = req[r + 1]
            /\ e = IF k.serving[1].part = "header" THEN 2 * r + 1 ELSE 2 * r + 2
        BY <2>1, <3>2 DEF Held
      <4>2. r + 1 \in 1 .. Len(req) /\ r < Len(more)
        BY <1>2, <4>1
      <4>3. k.serving[1].n = more[r + 1]
        BY <1>2, <4>1, <4>2
      <4> QED BY <3>2, <4>1, <4>2, <4>3 DEF Held
    <3> QED BY <3>1, <3>2
  <2> QED BY <2>1, <2>3, <2>4, <2>5, <2>7, <2>9, <2>10
<1> QED BY <1>1, <1>5, <1>6 DEF Chain

\* The streams of a connection are sequences of parts.
LEMMA Streams ==
  ASSUME NEW k \in ConnRecord
  PROVE  /\ k.repIn \in Seq(Part) /\ k.repOut \in Seq(Part) /\ k.reqIn \in Seq(Part)
         /\ k.reqOut \in Seq(Part) /\ k.serving \in Seq(Part)
BY DEF ConnRecord

\* The first part of one flow can be put at the end of the flow before it.
LEMMA FlowMove ==
  ASSUME NEW req \in Seq(Nat), NEW sizes, NEW s \in Seq(Part), NEW t \in Seq(Part), t # <<>>,
         NEW a \in Nat, NEW b \in Nat, NEW c \in Nat,
         Flow(req, sizes, s, a, b), Flow(req, sizes, t, b, c)
  PROVE  \E d \in Nat : /\ Flow(req, sizes, Append(s, Head(t)), a, d)
                        /\ Flow(req, sizes, Tail(t), d, c)
<1>1. PICK d \in Nat : /\ Head(t).size \in sizes /\ PartAt(req, Head(t), b, d)
                       /\ Flow(req, sizes, Tail(t), d, c)
  BY FlowHead
<1>2. Head(t) \in Part
  OBVIOUS
<1>3. Flow(req, sizes, Append(s, Head(t)), a, d)
  BY <1>1, <1>2, FlowAppend
<1> QED BY <1>1, <1>3

\* A part of a request arrives, or is lost because the slave's end is closed.
LEMMA ChainDeliverRequest ==
  ASSUME NEW req \in Seq(Nat), NEW k \in ConnRecord, NEW j \in ConnRecord, NEW a \in Nat,
         Chain(req, k, a), k.reqOut # <<>>, j.reqOut = Tail(k.reqOut),
         k.server # "closed" => j.reqIn = Append(k.reqIn, Head(k.reqOut)),
         j.serving = k.serving, j.repOut = k.repOut, j.repIn = k.repIn, j.server = k.server
  PROVE  Chain(req, j, a)
<1>1. PICK b \in Nat, d \in Nat :
        /\ Flow(req, {0, 1}, k.repIn, a, b) /\ Flow(req, {0, 1}, k.repOut, b, d)
        /\ k.server # "closed" =>
             \E r \in Nat, e \in Nat, f \in Nat :
               /\ d = 2 * r /\ Held(req, k.serving, r, e)
               /\ Flow(req, {1}, k.reqIn, e, f) /\ Flow(req, {1}, k.reqOut, f, 2 * Len(req))
  BY DEF Chain
<1>2. ASSUME j.server # "closed"
      PROVE  \E r \in Nat, e \in Nat, f \in Nat :
               /\ d = 2 * r /\ Held(req, j.serving, r, e)
               /\ Flow(req, {1}, j.reqIn, e, f) /\ Flow(req, {1}, j.reqOut, f, 2 * Len(req))
  <2>1. PICK r \in Nat, e \in Nat, f \in Nat :
          /\ d = 2 * r /\ Held(req, k.serving, r, e)
          /\ Flow(req, {1}, k.reqIn, e, f) /\ Flow(req, {1}, k.reqOut, f, 2 * Len(req))
    BY <1>1, <1>2
  <2>2. PICK end \in Nat : end = 2 * Len(req)
    OBVIOUS
  <2>3. \E f2 \in Nat : /\ Flow(req, {1}, Append(k.reqIn, Head(k.reqOut)), e, f2)
                        /\ Flow(req, {1}, Tail(k.reqOut), f2, end)
    BY <2>1, <2>2, Streams, FlowMove
  <2> QED BY <1>2, <2>1, <2>2, <2>3
<1> QED BY <1>1, <1>2 DEF Chain

\* A part of a response arrives at the master.
LEMMA ChainDeliverReply ==
  ASSUME NEW req \in Seq(Nat), NEW k \in ConnRecord, NEW j \in ConnRecord, NEW a \in Nat,
         Chain(req, k, a), k.repOut # <<>>, j.repOut = Tail(k.repOut),
         j.repIn = Append(k.repIn, Head(k.repOut)),
         j.serving = k.serving, j.reqOut = k.reqOut, j.reqIn = k.reqIn, j.server = k.server
  PROVE  Chain(req, j, a)
<1>1. PICK b \in Nat, d \in Nat :
        /\ Flow(req, {0, 1}, k.repIn, a, b) /\ Flow(req, {0, 1}, k.repOut, b, d)
        /\ k.server # "closed" =>
             \E r \in Nat, e \in Nat, f \in Nat :
               /\ d = 2 * r /\ Held(req, k.serving, r, e)
               /\ Flow(req, {1}, k.reqIn, e, f) /\ Flow(req, {1}, k.reqOut, f, 2 * Len(req))
  BY DEF Chain
<1>2. PICK b2 \in Nat : Flow(req, {0, 1}, j.repIn, a, b2) /\ Flow(req, {0, 1}, j.repOut, b2, d)
  BY <1>1, Streams, FlowMove
<1> QED BY <1>1, <1>2 DEF Chain

\* The slave's end is closed: no request counts any more, and the responses
\* are left as they are or dropped.
LEMMA ChainClose ==
  ASSUME NEW req \in Seq(Nat), NEW k \in ConnRecord, NEW j \in ConnRecord, NEW a \in Nat,
         Chain(req, k, a), j.server = "closed",
         \/ j.repOut = k.repOut /\ j.repIn = k.repIn
         \/ j.repOut = <<>> /\ j.repIn = <<>>
  PROVE  Chain(req, j, a)
<1>1. CASE j.repOut = k.repOut /\ j.repIn = k.repIn
  BY <1>1 DEF Chain
<1>2. CASE j.repOut = <<>> /\ j.repIn = <<>>
  <2>1. Flow(req, {0, 1}, <<>>, a, a)
    BY FlowNothing
  <2> QED BY <1>2, <2>1 DEF Chain
<1> QED BY <1>1, <1>2

\* Marks are never off by a half.
LEMMA Parity ==
  \A x, y \in Nat : 2 * x # 2 * y + 1 /\ (2 * x = 2 * y => x = y) /\ (2 * x + 1 = 2 * y + 1 => x = y)
OBVIOUS

\* At an even mark stands a header, at an odd mark a body.
LEMMA PartAtEven ==
  ASSUME NEW req \in Seq(Nat), NEW p \in Part, NEW r \in Nat, NEW b \in Nat,
         PartAt(req, p, 2 * r, b)
  PROVE  /\ p.part = "header" /\ r < Len(req) /\ p.n = req[r + 1]
         /\ b = IF p.size = 0 THEN 2 * r + 2 ELSE 2 * r + 1
<1>1. PICK x \in Nat :
        /\ x < Len(req) /\ p.n = req[x + 1]
        /\ \/ p.part = "header" /\ 2 * r = 2 * x /\ b = IF p.size = 0 THEN 2 * x + 2 ELSE 2 * x + 1
           \/ p.part = "body" /\ 2 * r = 2 * x + 1 /\ b = 2 * x + 2
  BY DEF PartAt
<1>2. p.part = "header" /\ r = x
  BY <1>1, Parity
<1> QED BY <1>1, <1>2

\* What follows a header is its body.
LEMMA PartAtOdd ==
  ASSUME NEW req \in Seq(Nat), NEW p \in Part, NEW r \in Nat, NEW b \in Nat,
         PartAt(req, p, 2 * r + 1, b)
  PROVE  p.part = "body" /\ r < Len(req) /\ p.n = req[r + 1] /\ b = 2 * r + 2
<1>1. PICK x \in Nat :
        /\ x < Len(req) /\ p.n = req[x + 1]
        /\ \/ p.part = "header" /\ 2 * r + 1 = 2 * x /\ b = IF p.size = 0 THEN 2 * x + 2 ELSE 2 * x + 1
           \/ p.part = "body" /\ 2 * r + 1 = 2 * x + 1 /\ b = 2 * x + 2
  BY DEF PartAt
<1>2. p.part = "body" /\ r = x /\ b = 2 * x + 2
  BY <1>1, Parity
<1> QED BY <1>1, <1>2

\* The slave reads the header of the next request.
LEMMA ChainServeHeader ==
  ASSUME NEW req \in Seq(Nat), NEW k \in ConnRecord, NEW j \in ConnRecord, NEW a \in Nat,
         Chain(req, k, a), k.server = "open", k.serving = <<>>, k.reqIn # <<>>,
         j.serving = <<Head(k.reqIn)>>, j.reqIn = Tail(k.reqIn),
         j.reqOut = k.reqOut, j.repOut = k.repOut, j.repIn = k.repIn, j.server = k.server
  PROVE  Chain(req, j, a)
<1>1. PICK b \in Nat, d \in Nat, r \in Nat, e \in Nat, f \in Nat :
        /\ Flow(req, {0, 1}, k.repIn, a, b) /\ Flow(req, {0, 1}, k.repOut, b, d)
        /\ d = 2 * r /\ Held(req, k.serving, r, e)
        /\ Flow(req, {1}, k.reqIn, e, f) /\ Flow(req, {1}, k.reqOut, f, 2 * Len(req))
  BY DEF Chain
<1>2. e = 2 * r
  BY <1>1 DEF Held
<1>3. PICK h \in Part : h = Head(k.reqIn) /\ j.serving[1] = h /\ j.serving # <<>>
  BY Streams
<1>4. PICK e2 \in Nat : h.size \in {1} /\ PartAt(req, h, e, e2) /\ Flow(req, {1}, j.reqIn, e2, f)
  <2>1. PICK t \in Seq(Part) : t = k.reqIn
    BY Streams
  <2>2. \E e2 \in Nat : /\ Head(t).size \in {1} /\ PartAt(req, Head(t), e, e2)
                        /\ Flow(req, {1}, Tail(t), e2, f)
    BY <1>1, <2>1, FlowHead
  <2> QED BY <1>3, <2>1, <2>2
<1>5. h.part = "header" /\ r < Len(req) /\ h.n = req[r + 1] /\ e2 = 2 * r + 1
  <2>1. PartAt(req, h, 2 * r, e2)
    BY <1>2, <1>4
  <2>2. e2 = IF h.size = 0 THEN 2 * r + 2 ELSE 2 * r + 1
    BY <2>1, PartAtEven
  <2>3. h.size # 0
    BY <1>4
  <2> QED BY <2>1, <2>2, <2>3, PartAtEven
<1>6. Held(req, j.serving, r, e2)
  BY <1>3, <1>5 DEF Held
<1> QED BY <1>1, <1>4, <1>6 DEF Chain

\* The slave reads the body, which is that of the header it has.
LEMMA ChainServeBody ==
  ASSUME NEW req \in Seq(Nat), NEW k \in ConnRecord, NEW j \in ConnRecord, NEW a \in Nat,
         Chain(req, k, a), k.server = "open", k.serving # <<>>, k.serving[1].part = "header",
         k.reqIn # <<>>, j.serving = <<Head(k.reqIn)>>, j.reqIn = Tail(k.reqIn),
         j.reqOut = k.reqOut, j.repOut = k.repOut, j.repIn = k.repIn, j.server = k.server
  PROVE  Chain(req, j, a)
<1>1. PICK b \in Nat, d \in Nat, r \in Nat, e \in Nat, f \in Nat :
        /\ Flow(req, {0, 1}, k.repIn, a, b) /\ Flow(req, {0, 1}, k.repOut, b, d)
        /\ d = 2 * r /\ Held(req, k.serving, r, e)
        /\ Flow(req, {1}, k.reqIn, e, f) /\ Flow(req, {1}, k.reqOut, f, 2 * Len(req))
  BY DEF Chain
<1>2. e = 2 * r + 1
  BY <1>1 DEF Held
<1>3. PICK h \in Part : h = Head(k.reqIn) /\ j.serving[1] = h /\ j.serving # <<>>
  BY Streams
<1>4. PICK e2 \in Nat : PartAt(req, h, e, e2) /\ Flow(req, {1}, j.reqIn, e2, f)
  BY <1>1, <1>3, Streams, FlowHead
<1>5. h.part = "body" /\ r < Len(req) /\ h.n = req[r + 1] /\ e2 = 2 * r + 2
  <2>1. PartAt(req, h, 2 * r + 1, e2)
    BY <1>2, <1>4
  <2> QED BY <2>1, PartAtOdd
<1>6. Held(req, j.serving, r, e2)
  BY <1>3, <1>5 DEF Held
<1> QED BY <1>1, <1>4, <1>6 DEF Chain

\* A response written for the r+1-st request leads to the mark behind it.
LEMMA FlowMessage ==
  ASSUME NEW req \in Seq(Nat), NEW t \in Seq(Part), NEW n \in Nat, NEW i \in Nat,
         NEW size \in {0, 1}, NEW b \in Nat, NEW r \in Nat, r < Len(req), n = req[r + 1],
         Flow(req, {0, 1}, t, b, 2 * r)
  PROVE  Flow(req, {0, 1}, t \o Message(n, i, size), b, 2 * r + 2)
<1>1. CASE size = 0
  <2>a. PICK h \in Part : WritesHeader(t, n, i, h)
    BY MessageEmpty
  <2>1. /\ t \o Message(n, i, 0) = Append(t, h)
        /\ h.part = "header" /\ h.n = n /\ h.size = 0
    BY <2>a DEF WritesHeader
  <2>2. PartAt(req, h, 2 * r, 2 * r + 2)
    BY <2>1 DEF PartAt
  <2>3. Flow(req, {0, 1}, Append(t, h), b, 2 * r + 2)
    BY <2>1, <2>2, FlowAppend
  <2> QED BY <1>1, <2>1, <2>3
<1>2. CASE size = 1
  <2>a. PICK h \in Part, g \in Part : WritesBoth(t, n, i, h, g)
    BY MessageFull
  <2>1. /\ t \o Message(n, i, 1) = Append(Append(t, h), g)
        /\ h.part = "header" /\ h.n = n /\ h.size = 1
        /\ g.part = "body" /\ g.n = n /\ g.size = 1
    BY <2>a DEF WritesBoth
  <2>2. PartAt(req, h, 2 * r, 2 * r + 1) /\ PartAt(req, g, 2 * r + 1, 2 * r + 2)
    BY <2>1 DEF PartAt
  <2>3. PICK u \in Seq(Part) : u = Append(t, h)
    BY PartsAppended
  <2>4. Flow(req, {0, 1}, u, b, 2 * r + 1)
    BY <2>1, <2>2, <2>3, FlowAppend
  <2>5. Flow(req, {0, 1}, Append(u, g), b, 2 * r + 2)
    BY <2>1, <2>2, <2>4, FlowAppend
  <2> QED BY <1>2, <2>1, <2>3, <2>5
<1> QED BY <1>1, <1>2

\* The slave answers the request it has read: the response follows those to
\* the requests before, and the slave is at the next request.
LEMMA ChainRespond ==
  ASSUME NEW req \in Seq(Nat), NEW k \in ConnRecord, NEW j \in ConnRecord, NEW a \in Nat,
         NEW size \in {0, 1}, Chain(req, k, a), k.server = "open", k.serving # <<>>,
         k.serving[1].part # "header", j.serving = <<>>,
         j.repOut = k.repOut \o Message(k.serving[1].n, k.serving[1].id, size),
         j.reqOut = k.reqOut, j.reqIn = k.reqIn, j.repIn = k.repIn, j.server = k.server
  PROVE  Chain(req, j, a)
<1>1. PICK b \in Nat, d \in Nat, r \in Nat, e \in Nat, f \in Nat :
        /\ Flow(req, {0, 1}, k.repIn, a, b) /\ Flow(req, {0, 1}, k.repOut, b, d)
        /\ d = 2 * r /\ Held(req, k.serving, r, e)
        /\ Flow(req, {1}, k.reqIn, e, f) /\ Flow(req, {1}, k.reqOut, f, 2 * Len(req))
  BY DEF Chain
<1>2. PICK q \in Part : q = k.serving[1]
  BY Streams
<1>3. e = 2 * r + 2 /\ r < Len(req) /\ q.n = req[r + 1] /\ q.n \in Nat /\ q.id \in Nat
  BY <1>1, <1>2 DEF Held, Part
<1>4. PICK t \in Seq(Part), n \in Nat, i \in Nat : t = k.repOut /\ n = q.n /\ i = q.id
  BY <1>3, Streams
<1>5. Flow(req, {0, 1}, j.repOut, b, 2 * r + 2)
  <2>1. r < Len(req) /\ n = req[r + 1] /\ Flow(req, {0, 1}, t, b, 2 * r)
    BY <1>1, <1>3, <1>4
  <2>2. Flow(req, {0, 1}, t \o Message(n, i, size), b, 2 * r + 2)
    BY <2>1, FlowMessage
  <2> QED BY <1>2, <1>4, <2>2
<1>6. PICK s \in Nat : s = r + 1 /\ 2 * s = 2 * r + 2 /\ 2 * s \in Nat
  OBVIOUS
<1>7. Held(req, j.serving, s, e)
  BY <1>3, <1>6 DEF Held
<1>8. Flow(req, {0, 1}, j.repOut, b, 2 * s)
  BY <1>5, <1>6
<1> QED BY <1>1, <1>6, <1>7, <1>8 DEF Chain

\* The master reads the next part: the conversation continues behind it.
LEMMA ChainTake ==
  ASSUME NEW req \in Seq(Nat), NEW k \in ConnRecord, NEW j \in ConnRecord, NEW a \in Nat,
         Chain(req, k, a), k.repIn # <<>>, j.repIn = Tail(k.repIn), j.repOut = k.repOut,
         j.serving = k.serving, j.reqOut = k.reqOut, j.reqIn = k.reqIn, j.server = k.server
  PROVE  \E c \in Nat : PartAt(req, Head(k.repIn), a, c) /\ Chain(req, j, c)
<1>1. PICK b \in Nat, d \in Nat :
        /\ Flow(req, {0, 1}, k.repIn, a, b) /\ Flow(req, {0, 1}, k.repOut, b, d)
        /\ k.server # "closed" =>
             \E r \in Nat, e \in Nat, f \in Nat :
               /\ d = 2 * r /\ Held(req, k.serving, r, e)
               /\ Flow(req, {1}, k.reqIn, e, f) /\ Flow(req, {1}, k.reqOut, f, 2 * Len(req))
  BY DEF Chain
<1>2. PICK c \in Nat : PartAt(req, Head(k.repIn), a, c) /\ Flow(req, {0, 1}, j.repIn, c, b)
  <2>1. PICK t \in Seq(Part) : t = k.repIn
    BY Streams
  <2>2. \E c \in Nat : PartAt(req, Head(t), a, c) /\ Flow(req, {0, 1}, Tail(t), c, b)
    BY <1>1, <2>1, FlowHead
  <2> QED BY <2>1, <2>2
<1>3. Chain(req, j, c)
  BY <1>1, <1>2 DEF Chain
<1> QED BY <1>2, <1>3

------------------------------------------------------------------------------
(* What each step changes. *)

\* Only one connection changes.
Elsewhere(c) ==
  conn' \in [Conns -> ConnRecord] /\ \A d \in Conns : d # c => conn'[d] = conn[d]

\* One connection gets a new state.
LEMMA ConnWith ==
  ASSUME TcpType, NEW c \in Conns, NEW j \in ConnRecord, conn' = [conn EXCEPT ![c] = j]
  PROVE  Elsewhere(c) /\ conn'[c] = j
BY DEF TcpType, Elsewhere

\* ServeHeader and ServeBody
LEMMA ServeEffect ==
  ASSUME TcpType, NEW c \in Conns, conn[c].reqIn # <<>>,
         conn' = [conn EXCEPT ![c].serving = <<Head(conn[c].reqIn)>>, ![c].reqIn = Tail(@)]
  PROVE  /\ Elsewhere(c) /\ conn'[c].client = conn[c].client
         /\ conn'[c].serving = <<Head(conn[c].reqIn)>> /\ conn'[c].reqIn = Tail(conn[c].reqIn)
         /\ conn'[c].reqOut = conn[c].reqOut /\ conn'[c].repOut = conn[c].repOut
         /\ conn'[c].repIn = conn[c].repIn /\ conn'[c].server = conn[c].server
<1>1. PICK k \in ConnRecord : k = conn[c]
  BY DEF TcpType
<1>2. PICK h \in Part, rest \in Seq(Part) : h = Head(k.reqIn) /\ rest = Tail(k.reqIn)
  <2>1. k.reqIn \in Seq(Part) /\ k.reqIn # <<>>
    BY <1>1, Streams
  <2>2. Head(k.reqIn) \in Part /\ Tail(k.reqIn) \in Seq(Part)
    BY <2>1
  <2> QED BY <2>2
<1>3. PICK j : j = [k EXCEPT !.serving = <<h>>, !.reqIn = rest]
  OBVIOUS
<1>4. <<h>> \in Seq(Part)
  OBVIOUS
<1>5. /\ j \in ConnRecord /\ j.serving = <<h>> /\ j.reqIn = rest
      /\ j.client = k.client /\ j.server = k.server
      /\ j.reqOut = k.reqOut /\ j.repOut = k.repOut /\ j.repIn = k.repIn
  BY <1>3, <1>4 DEF ConnRecord
<1>6. conn' = [conn EXCEPT ![c] = j]
  BY <1>1, <1>2, <1>3 DEF TcpType
<1>7. Elsewhere(c) /\ conn'[c] = j
  BY <1>5, <1>6, ConnWith
<1> QED BY <1>1, <1>2, <1>5, <1>7

\* A slave's close ends its side and may discard the responses under way.
LEMMA CloseServerEffect ==
  ASSUME TcpType, NEW c \in Conns, CloseServer(c)
  PROVE  /\ Elsewhere(c) /\ conn'[c].client = conn[c].client /\ conn'[c].server = "closed"
         /\ \/ conn'[c].repOut = conn[c].repOut /\ conn'[c].repIn = conn[c].repIn
            \/ conn'[c].repOut = <<>> /\ conn'[c].repIn = <<>>
<1>1. PICK k \in ConnRecord : k = conn[c]
  BY DEF TcpType
<1>2. k.repOut \in Seq(Part) /\ k.repIn \in Seq(Part) /\ <<>> \in Seq(Part)
  BY Streams
<1>3. PICK reset \in BOOLEAN :
        conn' = [conn EXCEPT ![c].server = "closed", ![c].serving = <<>>,
                             ![c].reqOut = <<>>, ![c].reqIn = <<>>,
                             ![c].repOut = IF reset THEN <<>> ELSE @,
                             ![c].repIn = IF reset THEN <<>> ELSE @]
  BY DEF CloseServer
<1>10. PICK out, in : /\ out = IF reset THEN <<>> ELSE k.repOut
                      /\ in = IF reset THEN <<>> ELSE k.repIn
  OBVIOUS
<1>11. /\ out \in Seq(Part) /\ in \in Seq(Part)
       /\ (out = k.repOut /\ in = k.repIn) \/ (out = <<>> /\ in = <<>>)
  BY <1>2, <1>10
<1>4. PICK g : g = [k EXCEPT !.server = "closed", !.serving = <<>>, !.reqOut = <<>>]
  OBVIOUS
<1>5. g \in ConnRecord /\ g.server = "closed" /\ g.client = k.client
  BY <1>2, <1>4 DEF ConnRecord
<1>6. PICK j : j = [g EXCEPT !.reqIn = <<>>, !.repOut = out, !.repIn = in]
  OBVIOUS
<1>7. /\ j \in ConnRecord /\ j.server = "closed" /\ j.client = k.client
      /\ j.repOut = out /\ j.repIn = in
  BY <1>2, <1>5, <1>6, <1>11 DEF ConnRecord
<1>8. conn' = [conn EXCEPT ![c] = j]
  BY <1>1, <1>3, <1>4, <1>6, <1>10 DEF TcpType, ConnRecord
<1>9. Elsewhere(c) /\ conn'[c] = j
  BY <1>7, <1>8, ConnWith
<1> QED BY <1>1, <1>7, <1>9, <1>11

\* A slave that answers is free again and its response is on the way.
LEMMA RespondEffect ==
  ASSUME TcpType, NEW c \in Conns, NEW m \in Seq(Part),
         conn' = [conn EXCEPT ![c].serving = <<>>, ![c].repOut = @ \o m]
  PROVE  /\ Elsewhere(c) /\ conn'[c].client = conn[c].client
         /\ conn'[c].serving = <<>> /\ conn'[c].repOut = conn[c].repOut \o m
         /\ conn'[c].reqOut = conn[c].reqOut /\ conn'[c].reqIn = conn[c].reqIn
         /\ conn'[c].repIn = conn[c].repIn /\ conn'[c].server = conn[c].server
<1>1. PICK k \in ConnRecord : k = conn[c]
  BY DEF TcpType
<1>2. k.repOut \in Seq(Part) /\ <<>> \in Seq(Part)
  BY Streams
<1>3. PICK out \in Seq(Part) : out = k.repOut \o m
  BY <1>2, ConcatProperties
<1>4. PICK j : j = [k EXCEPT !.serving = <<>>, !.repOut = out]
  OBVIOUS
<1>5. /\ j \in ConnRecord /\ j.serving = <<>> /\ j.repOut = out
      /\ j.client = k.client /\ j.server = k.server
      /\ j.reqOut = k.reqOut /\ j.reqIn = k.reqIn /\ j.repIn = k.repIn
  BY <1>2, <1>4 DEF ConnRecord
<1>6. conn' = [conn EXCEPT ![c] = j]
  BY <1>1, <1>3, <1>4 DEF TcpType
<1>7. Elsewhere(c) /\ conn'[c] = j
  BY <1>5, <1>6, ConnWith
<1> QED BY <1>1, <1>3, <1>5, <1>7

\* Both directions of Deliver
LEMMA DeliverEffect ==
  ASSUME TcpType, NEW c \in Conns, Deliver(c)
  PROVE  /\ Elsewhere(c) /\ conn'[c].client = conn[c].client
         /\ conn'[c].server = conn[c].server /\ conn'[c].serving = conn[c].serving
         /\ \/ /\ conn[c].reqOut # <<>> /\ conn'[c].reqOut = Tail(conn[c].reqOut)
               /\ conn[c].server # "closed" =>
                    conn'[c].reqIn = Append(conn[c].reqIn, Head(conn[c].reqOut))
               /\ conn'[c].repOut = conn[c].repOut /\ conn'[c].repIn = conn[c].repIn
            \/ /\ conn[c].repOut # <<>> /\ conn'[c].repOut = Tail(conn[c].repOut)
               /\ conn[c].client = "open" =>
                    conn'[c].repIn = Append(conn[c].repIn, Head(conn[c].repOut))
               /\ conn'[c].reqOut = conn[c].reqOut /\ conn'[c].reqIn = conn[c].reqIn
<1>1. PICK k \in ConnRecord : k = conn[c]
  BY DEF TcpType
<1>2. CASE /\ conn[c].reqOut # <<>>
           /\ conn' = [conn EXCEPT ![c].reqOut = Tail(@),
                        ![c].reqIn = IF conn[c].server # "closed"
                                     THEN Append(@, Head(conn[c].reqOut)) ELSE @]
  <2>1. k.reqOut \in Seq(Part) /\ k.reqOut # <<>> /\ k.reqIn \in Seq(Part)
    BY <1>1, <1>2, Streams
  <2>2. Tail(k.reqOut) \in Seq(Part) /\ Head(k.reqOut) \in Part
    BY <2>1
  <2>3. PICK in : in = IF k.server # "closed" THEN Append(k.reqIn, Head(k.reqOut)) ELSE k.reqIn
    OBVIOUS
  <2>4. in \in Seq(Part) /\ (k.server # "closed" => in = Append(k.reqIn, Head(k.reqOut)))
    BY <2>1, <2>2, <2>3, PartsAppended
  <2>5. PICK j : j = [k EXCEPT !.reqOut = Tail(k.reqOut), !.reqIn = in]
    OBVIOUS
  <2>6. /\ j \in ConnRecord /\ j.reqOut = Tail(k.reqOut) /\ j.reqIn = in
        /\ j.client = k.client /\ j.server = k.server /\ j.serving = k.serving
        /\ j.repOut = k.repOut /\ j.repIn = k.repIn
    BY <2>2, <2>4, <2>5 DEF ConnRecord
  <2>7. conn' = [conn EXCEPT ![c] = j]
    BY <1>1, <1>2, <2>3, <2>5 DEF TcpType
  <2>8. Elsewhere(c) /\ conn'[c] = j
    BY <2>6, <2>7, ConnWith
  <2> QED BY <1>1, <2>1, <2>4, <2>6, <2>8
<1>3. CASE /\ conn[c].repOut # <<>>
           /\ conn' = [conn EXCEPT ![c].repOut = Tail(@),
                        ![c].repIn = IF conn[c].client = "open"
                                     THEN Append(@, Head(conn[c].repOut)) ELSE @]
  <2>1. k.repOut \in Seq(Part) /\ k.repOut # <<>> /\ k.repIn \in Seq(Part)
    BY <1>1, <1>3, Streams
  <2>2. Tail(k.repOut) \in Seq(Part) /\ Head(k.repOut) \in Part
    BY <2>1
  <2>3. PICK in : in = IF k.client = "open" THEN Append(k.repIn, Head(k.repOut)) ELSE k.repIn
    OBVIOUS
  <2>4. in \in Seq(Part) /\ (k.client = "open" => in = Append(k.repIn, Head(k.repOut)))
    BY <2>1, <2>2, <2>3, PartsAppended
  <2>5. PICK j : j = [k EXCEPT !.repOut = Tail(k.repOut), !.repIn = in]
    OBVIOUS
  <2>6. /\ j \in ConnRecord /\ j.repOut = Tail(k.repOut) /\ j.repIn = in
        /\ j.client = k.client /\ j.server = k.server /\ j.serving = k.serving
        /\ j.reqOut = k.reqOut /\ j.reqIn = k.reqIn
    BY <2>2, <2>4, <2>5 DEF ConnRecord
  <2>7. conn' = [conn EXCEPT ![c] = j]
    BY <1>1, <1>3, <2>3, <2>5 DEF TcpType
  <2>8. Elsewhere(c) /\ conn'[c] = j
    BY <2>6, <2>7, ConnWith
  <2> QED BY <1>1, <2>1, <2>4, <2>6, <2>8
<1> QED BY <1>2, <1>3 DEF Deliver

\* Stop and Stall
LEMMA StopEffect ==
  ASSUME TcpType, NEW c \in Conns, Stop(c) \/ Stall(c)
  PROVE  /\ Elsewhere(c) /\ conn'[c].client = conn[c].client
         /\ SameStreams(conn[c], conn'[c])
         /\ conn'[c].server # "closed" => conn[c].server # "closed"
<1>1. PICK k \in ConnRecord : k = conn[c]
  BY DEF TcpType
<1>2. CASE Stop(c)
  <2>1. PICK j : j = [k EXCEPT !.server = "stopped"]
    OBVIOUS
  <2>2. j \in ConnRecord /\ j.client = k.client /\ SameStreams(k, j) /\ k.server = "open"
    BY <1>1, <1>2, <2>1 DEF ConnRecord, SameStreams, Stop
  <2>3. conn' = [conn EXCEPT ![c] = j]
    BY <1>1, <1>2, <2>1 DEF TcpType, Stop
  <2>4. Elsewhere(c) /\ conn'[c] = j
    BY <2>2, <2>3, ConnWith
  <2> QED BY <1>1, <2>2, <2>4
<1>3. CASE Stall(c)
  <2>1. PICK j : j = [k EXCEPT !.stalled = TRUE]
    OBVIOUS
  <2>2. j \in ConnRecord /\ j.client = k.client /\ SameStreams(k, j) /\ j.server = k.server
    BY <2>1 DEF ConnRecord, SameStreams
  <2>3. conn' = [conn EXCEPT ![c] = j]
    BY <1>1, <1>3, <2>1 DEF TcpType, Stall
  <2>4. Elsewhere(c) /\ conn'[c] = j
    BY <2>2, <2>3, ConnWith
  <2> QED BY <1>1, <2>2, <2>4
<1> QED BY <1>2, <1>3

\* The master closes its socket
LEMMA CloseEffect ==
  ASSUME TcpType, NEW c \in Conns, conn' = [conn EXCEPT ![c].client = "closed"]
  PROVE  Elsewhere(c) /\ conn'[c].client = "closed"
<1>1. PICK j : j = [conn[c] EXCEPT !.client = "closed"]
  OBVIOUS
<1>2. j \in ConnRecord /\ j.client = "closed"
  BY <1>1 DEF TcpType, ConnRecord
<1>3. conn' = [conn EXCEPT ![c] = j]
  BY <1>1 DEF TcpType
<1> QED BY <1>2, <1>3, ConnWith

\* A connection is made
LEMMA OpenEffect ==
  ASSUME TcpType, NEW c \in Conns, conn[c] = Fresh,
         conn' = [conn EXCEPT ![c].client = "open", ![c].server = "open"]
  PROVE  Elsewhere(c) /\ conn'[c].client = "open" /\ SameStreams(Fresh, conn'[c])
<1>1. PICK k \in ConnRecord : k = conn[c]
  BY DEF TcpType
<1>2. PICK j : j = [k EXCEPT !.client = "open", !.server = "open"]
  OBVIOUS
<1>3. j \in ConnRecord /\ j.client = "open" /\ SameStreams(k, j)
  BY <1>2 DEF ConnRecord, SameStreams
<1>4. conn' = [conn EXCEPT ![c] = j]
  BY <1>1, <1>2 DEF TcpType
<1>5. Elsewhere(c) /\ conn'[c] = j
  BY <1>3, <1>4, ConnWith
<1> QED BY <1>1, <1>3, <1>5

\* A request is written
LEMMA SendEffect ==
  ASSUME TcpType, NEW c \in Conns, NEW m \in Seq(Part),
         conn' = [conn EXCEPT ![c].reqOut = @ \o m]
  PROVE  /\ Elsewhere(c) /\ conn'[c].client = conn[c].client
         /\ conn'[c].reqOut = conn[c].reqOut \o m /\ conn'[c].reqIn = conn[c].reqIn
         /\ conn'[c].serving = conn[c].serving /\ conn'[c].repOut = conn[c].repOut
         /\ conn'[c].repIn = conn[c].repIn /\ conn'[c].server = conn[c].server
<1>1. PICK k \in ConnRecord : k = conn[c]
  BY DEF TcpType
<1>2. k.reqOut \in Seq(Part)
  BY Streams
<1>3. PICK out \in Seq(Part) : out = k.reqOut \o m
  BY <1>2, ConcatProperties
<1>4. PICK j : j = [k EXCEPT !.reqOut = out]
  OBVIOUS
<1>5. /\ j \in ConnRecord /\ j.reqOut = out /\ j.client = k.client /\ j.server = k.server
      /\ j.serving = k.serving /\ j.reqIn = k.reqIn /\ j.repOut = k.repOut /\ j.repIn = k.repIn
  BY <1>4 DEF ConnRecord
<1>6. conn' = [conn EXCEPT ![c] = j]
  BY <1>1, <1>3, <1>4 DEF TcpType
<1>7. Elsewhere(c) /\ conn'[c] = j
  BY <1>5, <1>6, ConnWith
<1> QED BY <1>1, <1>3, <1>5, <1>7

\* The master reads a part
LEMMA TakeEffect ==
  ASSUME TcpType, NEW c \in Conns, conn[c].repIn # <<>>,
         conn' = [conn EXCEPT ![c].repIn = Tail(@)]
  PROVE  /\ Elsewhere(c) /\ conn'[c].client = conn[c].client
         /\ conn'[c].repIn = Tail(conn[c].repIn) /\ conn'[c].repOut = conn[c].repOut
         /\ conn'[c].serving = conn[c].serving /\ conn'[c].reqOut = conn[c].reqOut
         /\ conn'[c].reqIn = conn[c].reqIn /\ conn'[c].server = conn[c].server
<1>1. PICK k \in ConnRecord : k = conn[c]
  BY DEF TcpType
<1>2. k.repIn \in Seq(Part) /\ k.repIn # <<>>
  BY <1>1, Streams
<1>3. PICK in \in Seq(Part) : in = Tail(k.repIn)
  <2>1. Tail(k.repIn) \in Seq(Part)
    BY <1>2
  <2> QED BY <2>1
<1>4. PICK j : j = [k EXCEPT !.repIn = in]
  OBVIOUS
<1>5. /\ j \in ConnRecord /\ j.repIn = in /\ j.client = k.client /\ j.server = k.server
      /\ j.serving = k.serving /\ j.reqIn = k.reqIn /\ j.repOut = k.repOut /\ j.reqOut = k.reqOut
  BY <1>4 DEF ConnRecord
<1>6. conn' = [conn EXCEPT ![c] = j]
  BY <1>1, <1>3, <1>4 DEF TcpType
<1>7. Elsewhere(c) /\ conn'[c] = j
  BY <1>5, <1>6, ConnWith
<1> QED BY <1>1, <1>3, <1>5, <1>7

------------------------------------------------------------------------------
(* Responses come in the order of the requests. *)

\* Steps of a slave and of the network: the master is left alone.
LEMMA SlaveStep ==
  ASSUME OrderInv, NEW c \in Conns, UNCHANGED <<masterVars, handles, calls, histVars>>,
         Elsewhere(c), conn[c].client # "none", conn'[c].client = conn[c].client,
         conn[c].client = "open" => Chain(asked[c], conn'[c], TakenTo(c))
  PROVE  OrderInv'
<1>1. /\ TcpType /\ UNCHANGED <<down, id, pc, peer, call, hdr, result>>
      /\ UNCHANGED <<asked, taken, handles, calls>>
  BY DEF OrderInv, masterVars, histVars
<1>2. TcpType'
  BY <1>1 DEF TcpType, Elsewhere
<1>3. \A d \in Conns : conn'[d].client = conn[d].client
  BY DEF Elsewhere
<1>4. SocketInv'
  <2>1. ASSUME NEW d \in Conns, conn'[d].client = "none"
        PROVE  conn'[d] = Fresh /\ asked'[d] = <<>> /\ taken'[d] = <<>>
    BY <1>1, <2>1 DEF OrderInv, SocketInv, Elsewhere
  <2>2. pc' \in {"header", "body"} => conn'[peer'].client = "open"
    BY <1>1, <1>3 DEF OrderInv, SocketInv, TcpType
  <2> QED BY <2>1, <2>2 DEF SocketInv
<1>5. HeaderInv'
  BY <1>1 DEF OrderInv, HeaderInv
<1>6. ChainInv'
  <2>1. ASSUME NEW d \in Conns, conn'[d].client = "open"
        PROVE  Chain(asked'[d], conn'[d], TakenTo(d)')
    <3>1. TakenTo(d)' = TakenTo(d) /\ asked'[d] = asked[d]
      BY <1>1 DEF TakenTo
    <3>2. CASE d = c
      BY <1>3, <2>1, <3>1, <3>2
    <3>3. CASE d # c
      <4>1. conn'[d] = conn[d]
        BY <3>3 DEF Elsewhere
      <4> QED BY <2>1, <3>1, <4>1 DEF OrderInv, ChainInv
    <3> QED BY <3>2, <3>3
  <2> QED BY <2>1 DEF ChainInv
<1>7. ResponsesInOrder'
  BY <1>1 DEF OrderInv, ResponsesInOrder
<1> QED BY <1>2, <1>4, <1>5, <1>6, <1>7 DEF OrderInv

\* Steps that close the master's socket in use, or a socket between calls.
LEMMA CloseStep ==
  ASSUME OrderInv, TcpType', NEW c \in Conns, pc = "body" => peer = c, pc' # "body",
         pc' # "header", Elsewhere(c), conn'[c].client = "closed",
         UNCHANGED <<asked, taken>>
  PROVE  OrderInv'
<1>1. SocketInv'
  <2>1. ASSUME NEW d \in Conns, conn'[d].client = "none"
        PROVE  conn'[d] = Fresh /\ asked'[d] = <<>> /\ taken'[d] = <<>>
    <3>1. d # c
      BY <2>1
    <3> QED BY <2>1, <3>1 DEF OrderInv, SocketInv, Elsewhere
  <2> QED BY <2>1 DEF SocketInv
<1>2. HeaderInv'
  BY DEF HeaderInv
<1>3. ChainInv'
  <2>1. ASSUME NEW d \in Conns, conn'[d].client = "open"
        PROVE  Chain(asked'[d], conn'[d], TakenTo(d)')
    <3>1. d # c
      BY <2>1
    <3>2. conn'[d] = conn[d] /\ asked'[d] = asked[d]
      BY <3>1 DEF Elsewhere
    <3>3. TakenTo(d)' = TakenTo(d)
      BY <3>1 DEF TakenTo
    <3> QED BY <2>1, <3>2, <3>3 DEF OrderInv, ChainInv
  <2> QED BY <2>1 DEF ChainInv
<1>4. ResponsesInOrder'
  BY DEF OrderInv, ResponsesInOrder
<1> QED BY <1>1, <1>2, <1>3, <1>4 DEF OrderInv

\* Steps of the master that leave the connections alone.
LEMMA WaitStep ==
  ASSUME OrderInv, TcpType', pc # "body", pc' # "body", UNCHANGED <<conn, asked, taken>>,
         pc' = "header" => conn[peer].client = "open" /\ peer' = peer
  PROVE  OrderInv'
<1>1. SocketInv'
  BY DEF OrderInv, SocketInv
<1>2. HeaderInv'
  BY DEF HeaderInv
<1>3. ChainInv'
  <2>1. \A d \in Conns : TakenTo(d)' = TakenTo(d)
    BY DEF TakenTo
  <2> QED BY <2>1 DEF OrderInv, ChainInv
<1>4. ResponsesInOrder'
  BY DEF OrderInv, ResponsesInOrder
<1> QED BY <1>1, <1>2, <1>3, <1>4 DEF OrderInv

\* A connection nobody made has nothing to serve, deliver or close.
LEMMA Unused ==
  ASSUME OrderInv, NEW c \in Conns, Slave(c) \/ Stop(c) \/ Deliver(c) \/ Stall(c)
  PROVE  conn[c].client # "none"
<1>1. SUFFICES ASSUME conn[c] = Fresh PROVE FALSE
  BY DEF OrderInv, SocketInv
<1>2. /\ conn[c].server = "none" /\ conn[c].reqOut = <<>> /\ conn[c].repOut = <<>>
  BY <1>1 DEF Fresh
<1> QED BY <1>1, <1>2 DEF Slave, ServeHeader, Reads, ServeBody, ServeFails, Respond, Stop, Deliver, Stall

\* What is read on an open connection continues a conversation.
LEMMA ChainOf ==
  ASSUME OrderInv, NEW c \in Conns
  PROVE  /\ asked[c] \in Seq(Nat) /\ conn[c] \in ConnRecord /\ TakenTo(c) \in Nat
         /\ conn[c].client = "open" => Chain(asked[c], conn[c], TakenTo(c))
<1>1. TcpType /\ asked[c] \in Seq(Nat) /\ conn[c] \in ConnRecord
  BY DEF OrderInv, TcpType
<1>2. Len(taken[c]) \in Nat
  BY <1>1 DEF TcpType
<1>3. TakenTo(c) \in Nat
  <2>1. PICK x \in Nat : x = Len(taken[c])
    BY <1>2
  <2>2. 2 * x \in Nat /\ 2 * x + 1 \in Nat /\ 2 * x + 2 \in Nat
    OBVIOUS
  <2>3. \/ TakenTo(c) = 2 * x \/ TakenTo(c) = 2 * x + 1 \/ TakenTo(c) = 2 * x + 2
    BY <2>1, Zenon DEF TakenTo
  <2> QED BY <2>2, <2>3
<1> QED BY <1>1, <1>3 DEF OrderInv, ChainInv

\* No slave and no network touches the master's sockets.
LEMMA SlaveKeepsSockets ==
  ASSUME TcpType, NEW c \in Conns, Slave(c) \/ Stop(c) \/ Deliver(c) \/ Stall(c)
  PROVE  \A d \in Conns : conn'[d].client = conn[d].client
<1>1. CASE ServeHeader(c) \/ ServeBody(c)
  BY <1>1, ServeEffect DEF ServeHeader, Reads, ServeBody, Elsewhere
<1>2. CASE CloseServer(c)
  BY <1>2, CloseServerEffect DEF Elsewhere
<1>3. CASE Respond(c) /\ ~CloseServer(c)
  <2>1. PICK m : conn' = [conn EXCEPT ![c].serving = <<>>, ![c].repOut = @ \o m]
    BY <1>3 DEF Respond
  <2> QED BY <2>1 DEF TcpType, ConnRecord
<1>4. CASE Deliver(c)
  BY <1>4, DeliverEffect DEF Elsewhere
<1>5. CASE Stop(c) \/ Stall(c)
  BY <1>5, StopEffect DEF Elsewhere
<1> QED
  <2>1. Slave(c) => ServeHeader(c) \/ ServeBody(c) \/ CloseServer(c) \/ Respond(c)
    BY DEF Slave, ServeFails
  <2> QED BY <1>1, <1>2, <1>3, <1>4, <1>5, <2>1

\* The slaves and the network keep the invariant.
LEMMA SlaveStepsKeepOrder ==
  ASSUME OrderInv, NEW c \in Conns, Slave(c) \/ Stop(c) \/ Deliver(c) \/ Stall(c),
         UNCHANGED <<masterVars, handles, calls, histVars>>
  PROVE  OrderInv'
<1>1. /\ TcpType /\ conn[c].client # "none" /\ conn[c] \in ConnRecord
      /\ asked[c] \in Seq(Nat) /\ TakenTo(c) \in Nat
      /\ conn[c].client = "open" => Chain(asked[c], conn[c], TakenTo(c))
  BY Unused, ChainOf DEF OrderInv
<1>2. CASE ServeHeader(c)
  <2>1. /\ conn[c].server = "open" /\ conn[c].serving = <<>> /\ conn[c].reqIn # <<>>
        /\ conn' = [conn EXCEPT ![c].serving = <<Head(conn[c].reqIn)>>, ![c].reqIn = Tail(@)]
    BY <1>2 DEF ServeHeader, Reads
  <2>2. /\ Elsewhere(c) /\ conn'[c].client = conn[c].client
        /\ conn'[c].serving = <<Head(conn[c].reqIn)>> /\ conn'[c].reqIn = Tail(conn[c].reqIn)
        /\ conn'[c].reqOut = conn[c].reqOut /\ conn'[c].repOut = conn[c].repOut
        /\ conn'[c].repIn = conn[c].repIn /\ conn'[c].server = conn[c].server
    BY <1>1, <2>1, ServeEffect
  <2>3. conn'[c] \in ConnRecord
    BY <2>2 DEF Elsewhere
  <2>4. conn[c].client = "open" => Chain(asked[c], conn'[c], TakenTo(c))
    BY <1>1, <2>1, <2>2, <2>3, ChainServeHeader
  <2> QED BY <1>1, <2>2, <2>4, SlaveStep
<1>3. CASE ServeBody(c)
  <2>1. /\ conn[c].server = "open" /\ conn[c].serving # <<>>
        /\ conn[c].serving[1].part = "header" /\ conn[c].reqIn # <<>>
        /\ conn' = [conn EXCEPT ![c].serving = <<Head(conn[c].reqIn)>>, ![c].reqIn = Tail(@)]
    BY <1>3 DEF ServeBody, AwaitsBody
  <2>2. /\ Elsewhere(c) /\ conn'[c].client = conn[c].client
        /\ conn'[c].serving = <<Head(conn[c].reqIn)>> /\ conn'[c].reqIn = Tail(conn[c].reqIn)
        /\ conn'[c].reqOut = conn[c].reqOut /\ conn'[c].repOut = conn[c].repOut
        /\ conn'[c].repIn = conn[c].repIn /\ conn'[c].server = conn[c].server
    BY <1>1, <2>1, ServeEffect
  <2>3. conn'[c] \in ConnRecord
    BY <2>2 DEF Elsewhere
  <2>4. conn[c].client = "open" => Chain(asked[c], conn'[c], TakenTo(c))
    BY <1>1, <2>1, <2>2, <2>3, ChainServeBody
  <2> QED BY <1>1, <2>2, <2>4, SlaveStep
<1>4. CASE CloseServer(c)
  <2>1. /\ Elsewhere(c) /\ conn'[c].client = conn[c].client /\ conn'[c].server = "closed"
        /\ \/ conn'[c].repOut = conn[c].repOut /\ conn'[c].repIn = conn[c].repIn
           \/ conn'[c].repOut = <<>> /\ conn'[c].repIn = <<>>
    BY <1>1, <1>4, CloseServerEffect
  <2>2. conn'[c] \in ConnRecord
    BY <2>1 DEF Elsewhere
  <2>3. conn[c].client = "open" => Chain(asked[c], conn'[c], TakenTo(c))
    BY <1>1, <2>1, <2>2, ChainClose
  <2> QED BY <1>1, <2>1, <2>3, SlaveStep
<1>5. CASE Respond(c) /\ ~CloseServer(c)
  <2>1. /\ conn[c].server = "open" /\ conn[c].serving # <<>>
        /\ conn[c].serving[1].part # "header"
    BY <1>5 DEF Respond, AwaitsBody
  <2>2. PICK size \in {0, 1} :
          conn' = [conn EXCEPT ![c].serving = <<>>,
                     ![c].repOut = @ \o Message(conn[c].serving[1].n, conn[c].serving[1].id, size)]
    BY <1>5 DEF Respond
  <2>3. PICK q \in Part : q = conn[c].serving[1]
    BY <1>1, <2>1, Streams
  <2>4. PICK n \in Nat, i \in Nat : n = q.n /\ i = q.id
    BY DEF Part
  <2>5. Message(n, i, size) \in Seq(Part)
    BY MessageTyped
  <2>6. conn' = [conn EXCEPT ![c].serving = <<>>, ![c].repOut = @ \o Message(n, i, size)]
    BY <2>2, <2>3, <2>4
  <2>7. /\ Elsewhere(c) /\ conn'[c].client = conn[c].client
        /\ conn'[c].serving = <<>> /\ conn'[c].repOut = conn[c].repOut \o Message(n, i, size)
        /\ conn'[c].reqOut = conn[c].reqOut /\ conn'[c].reqIn = conn[c].reqIn
        /\ conn'[c].repIn = conn[c].repIn /\ conn'[c].server = conn[c].server
    BY <1>1, <2>5, <2>6, RespondEffect
  <2>8. conn'[c] \in ConnRecord
    BY <2>7 DEF Elsewhere
  <2>9. conn'[c].repOut = conn[c].repOut \o Message(conn[c].serving[1].n, conn[c].serving[1].id, size)
    BY <2>3, <2>4, <2>7
  <2>10. conn[c].client = "open" => Chain(asked[c], conn'[c], TakenTo(c))
    BY <1>1, <2>1, <2>7, <2>8, <2>9, ChainRespond
  <2> QED BY <1>1, <2>7, <2>10, SlaveStep
<1>6. CASE Deliver(c)
  <2>1. /\ Elsewhere(c) /\ conn'[c].client = conn[c].client
        /\ conn'[c].server = conn[c].server /\ conn'[c].serving = conn[c].serving
    BY <1>1, <1>6, DeliverEffect
  <2>2. conn'[c] \in ConnRecord
    BY <2>1 DEF Elsewhere
  <2>3. ASSUME conn[c].client = "open" PROVE Chain(asked[c], conn'[c], TakenTo(c))
    <3>1. CASE /\ conn[c].reqOut # <<>> /\ conn'[c].reqOut = Tail(conn[c].reqOut)
               /\ conn[c].server # "closed" =>
                    conn'[c].reqIn = Append(conn[c].reqIn, Head(conn[c].reqOut))
               /\ conn'[c].repOut = conn[c].repOut /\ conn'[c].repIn = conn[c].repIn
      BY <1>1, <2>1, <2>2, <2>3, <3>1, ChainDeliverRequest
    <3>2. CASE /\ conn[c].repOut # <<>> /\ conn'[c].repOut = Tail(conn[c].repOut)
               /\ conn[c].client = "open" =>
                    conn'[c].repIn = Append(conn[c].repIn, Head(conn[c].repOut))
               /\ conn'[c].reqOut = conn[c].reqOut /\ conn'[c].reqIn = conn[c].reqIn
      BY <1>1, <2>1, <2>2, <2>3, <3>2, ChainDeliverReply
    <3> QED BY <1>1, <1>6, <3>1, <3>2, DeliverEffect
  <2> QED BY <1>1, <2>1, <2>3, SlaveStep
<1>7. CASE Stop(c) \/ Stall(c)
  <2>1. /\ Elsewhere(c) /\ conn'[c].client = conn[c].client
        /\ SameStreams(conn[c], conn'[c])
        /\ conn'[c].server # "closed" => conn[c].server # "closed"
    BY <1>1, <1>7, StopEffect
  <2>2. conn'[c] \in ConnRecord
    BY <2>1 DEF Elsewhere
  <2>3. conn[c].client = "open" => Chain(asked[c], conn'[c], TakenTo(c))
    BY <1>1, <2>1, <2>2, ChainKept
  <2> QED BY <1>1, <2>1, <2>3, SlaveStep
<1> QED
  <2>1. Slave(c) => ServeHeader(c) \/ ServeBody(c) \/ CloseServer(c) \/ Respond(c)
    BY DEF Slave, ServeFails
  <2> QED BY <1>2, <1>3, <1>4, <1>5, <1>6, <1>7, <2>1

\* mbus_connect keeps the invariant.
LEMMA ConnectKeepsOrder ==
  ASSUME OrderInv, Connect PROVE OrderInv'
<1>1. PICK c \in Conns :
        /\ conn[c] = Fresh
        /\ conn' = [conn EXCEPT ![c].client = "open", ![c].server = "open"]
        /\ handles' = handles \cup {c}
  BY DEF Connect
<1>2. /\ TcpType /\ pc = "idle" /\ down' = FALSE
      /\ UNCHANGED <<id, pc, peer, call, hdr, result, calls, asked, taken>>
  BY DEF OrderInv, Connect, histVars
<1>3. Elsewhere(c) /\ conn'[c].client = "open" /\ SameStreams(Fresh, conn'[c])
  BY <1>1, <1>2, OpenEffect
<1>4. TcpType'
  BY <1>1, <1>2, <1>3 DEF TcpType, Elsewhere
<1>5. asked[c] = <<>> /\ taken[c] = <<>>
  <2>1. conn[c].client = "none"
    BY <1>1 DEF Fresh
  <2> QED BY <2>1 DEF OrderInv, SocketInv
<1>6. SocketInv'
  <2>1. ASSUME NEW d \in Conns, conn'[d].client = "none"
        PROVE  conn'[d] = Fresh /\ asked'[d] = <<>> /\ taken'[d] = <<>>
    <3>1. d # c
      BY <1>3, <2>1
    <3> QED BY <1>2, <1>3, <2>1, <3>1 DEF OrderInv, SocketInv, Elsewhere
  <2> QED BY <1>2, <2>1 DEF SocketInv
<1>7. HeaderInv'
  BY <1>2 DEF HeaderInv
<1>8. ChainInv'
  <2>1. ASSUME NEW d \in Conns, conn'[d].client = "open"
        PROVE  Chain(asked'[d], conn'[d], TakenTo(d)')
    <3>1. TakenTo(d)' = TakenTo(d) /\ asked'[d] = asked[d]
      BY <1>2 DEF TakenTo
    <3>2. CASE d = c
      <4>1. conn'[c] \in ConnRecord
        BY <1>3 DEF Elsewhere
      <4>2. Chain(<<>>, conn'[c], 0)
        BY <1>3, <4>1, ChainFresh
      <4>3. TakenTo(c) = 0
        <5>1. 2 * Len(taken[c]) = 0
          BY <1>5
        <5> QED BY <1>2, <5>1 DEF TakenTo
      <4> QED BY <1>5, <3>1, <3>2, <4>2, <4>3
    <3>3. CASE d # c
      <4>1. conn'[d] = conn[d]
        BY <1>3, <3>3 DEF Elsewhere
      <4> QED BY <2>1, <3>1, <4>1 DEF OrderInv, ChainInv
    <3> QED BY <3>2, <3>3
  <2> QED BY <2>1 DEF ChainInv
<1>9. ResponsesInOrder'
  BY <1>2 DEF OrderInv, ResponsesInOrder
<1> QED BY <1>4, <1>6, <1>7, <1>8, <1>9 DEF OrderInv

\* A request that is written becomes the last of the conversation.
LEMMA SendKeepsOrder ==
  ASSUME OrderInv, TcpType', NEW c \in Conns, NEW n \in Nat, NEW i \in Nat,
         pc = "idle", pc' \in {"idle", "wait"}, conn[c].client = "open",
         conn' = [conn EXCEPT ![c].reqOut = @ \o Message(n, i, 1)],
         asked' = [asked EXCEPT ![c] = Append(@, n)], UNCHANGED taken
  PROVE  OrderInv'
<1>1. TcpType /\ Message(n, i, 1) \in Seq(Part)
  BY MessageTyped DEF OrderInv
<1>2. /\ Elsewhere(c) /\ conn'[c].client = conn[c].client
      /\ conn'[c].reqOut = conn[c].reqOut \o Message(n, i, 1) /\ conn'[c].reqIn = conn[c].reqIn
      /\ conn'[c].serving = conn[c].serving /\ conn'[c].repOut = conn[c].repOut
      /\ conn'[c].repIn = conn[c].repIn /\ conn'[c].server = conn[c].server
  BY <1>1, SendEffect
<1>3. /\ asked'[c] = Append(asked[c], n)
      /\ \A d \in Conns : d # c => asked'[d] = asked[d]
  BY <1>1 DEF TcpType
<1>4. SocketInv'
  <2>1. ASSUME NEW d \in Conns, conn'[d].client = "none"
        PROVE  conn'[d] = Fresh /\ asked'[d] = <<>> /\ taken'[d] = <<>>
    <3>1. d # c
      BY <1>2, <2>1
    <3> QED BY <1>2, <1>3, <2>1, <3>1 DEF OrderInv, SocketInv, Elsewhere
  <2> QED BY <2>1 DEF SocketInv
<1>5. HeaderInv'
  BY DEF HeaderInv
<1>6. ChainInv'
  <2>1. ASSUME NEW d \in Conns, conn'[d].client = "open"
        PROVE  Chain(asked'[d], conn'[d], TakenTo(d)')
    <3>1. TakenTo(d)' = TakenTo(d)
      BY DEF TakenTo
    <3>2. CASE d = c
      <4>1. conn'[c] \in ConnRecord
        BY <1>2 DEF Elsewhere
      <4>2. /\ asked[c] \in Seq(Nat) /\ conn[c] \in ConnRecord /\ TakenTo(c) \in Nat
            /\ Chain(asked[c], conn[c], TakenTo(c))
        BY ChainOf
      <4>3. Chain(Append(asked[c], n), conn'[c], TakenTo(c))
        BY <1>2, <4>1, <4>2, ChainSend
      <4> QED BY <1>3, <3>1, <3>2, <4>3
    <3>3. CASE d # c
      <4>1. conn'[d] = conn[d] /\ asked'[d] = asked[d]
        BY <1>2, <1>3, <3>3 DEF Elsewhere
      <4> QED BY <2>1, <3>1, <4>1 DEF OrderInv, ChainInv
    <3> QED BY <3>2, <3>3
  <2> QED BY <2>1 DEF ChainInv
<1>7. ResponsesInOrder'
  <2>1. ASSUME NEW d \in Conns
        PROVE  /\ Len(taken[d]) <= Len(asked'[d])
               /\ \A k \in 1 .. Len(taken[d]) : taken[d][k] = asked'[d][k]
    <3>1. /\ Len(taken[d]) <= Len(asked[d])
          /\ \A k \in 1 .. Len(taken[d]) : taken[d][k] = asked[d][k]
      BY DEF OrderInv, ResponsesInOrder
    <3>2. CASE d # c
      BY <1>3, <3>1, <3>2
    <3>3. CASE d = c
      <4>1. PICK old \in Seq(Nat), new \in Seq(Nat) :
              /\ old = asked[d] /\ new = asked'[d] /\ new = Append(old, n)
        BY <1>1, <1>3, <3>3 DEF TcpType
      <4>2. Len(new) = Len(old) + 1 /\ \A k \in 1 .. Len(old) : new[k] = old[k]
        BY <4>1, AppendProperties
      <4>3. Len(taken[d]) \in Nat
        BY <1>1 DEF TcpType
      <4> QED BY <3>1, <4>1, <4>2, <4>3
    <3> QED BY <3>2, <3>3
  <2> QED BY <2>1 DEF ResponsesInOrder
<1> QED BY <1>4, <1>5, <1>6, <1>7 DEF OrderInv

\* A request keeps the invariant.
LEMMA RequestKeepsOrder ==
  ASSUME OrderInv, NEW c \in Conns, NEW wait \in BOOLEAN, Request(c, wait)
  PROVE  OrderInv'
<1>1. TcpType /\ IdModulus \in Nat \ {0}
  BY TcpAssumption DEF OrderInv
<1>2. /\ pc = "idle" /\ c \in handles /\ calls' = calls + 1 /\ peer' = c
      /\ id' = (id + 1) % IdModulus /\ pc' \in {"idle", "wait"}
      /\ UNCHANGED <<hdr, handles, taken>>
  BY DEF Request
<1>3. PICK n \in Nat, i \in Nat : n = calls + 1 /\ i = id'
  <2>1. \A x \in Nat, m \in Nat \ {0} : x % m \in Nat
    OBVIOUS
  <2>2. calls + 1 \in Nat /\ id + 1 \in Nat
    BY <1>1 DEF TcpType
  <2> QED BY <1>1, <1>2, <2>1, <2>2
<1>6. c \in Nat /\ calls' \in Nat /\ id' \in Nat
  BY <1>2, <1>3 DEF Conns
<1>4. CASE /\ conn[c].client = "open" /\ UNCHANGED down
           /\ conn' = [conn EXCEPT ![c].reqOut = @ \o Message(n, i, 1)]
           /\ asked' = [asked EXCEPT ![c] = Append(@, n)]
  <2>1. Message(n, i, 1) \in Seq(Part)
    BY MessageTyped
  <2>2. Elsewhere(c)
    BY <1>1, <1>4, <2>1, SendEffect
  <2>3. asked' \in [Conns -> Seq(Nat)]
    <3>1. asked[c] \in Seq(Nat)
      BY <1>1 DEF TcpType
    <3>2. PICK q \in Seq(Nat) : q = Append(asked[c], n)
      BY <3>1, AppendProperties
    <3> QED BY <1>1, <1>4, <3>2 DEF TcpType
  <2>4. TcpType'
    BY <1>1, <1>2, <1>4, <1>6, <2>2, <2>3 DEF TcpType, Elsewhere
  <2> QED BY <1>2, <1>4, <2>4, SendKeepsOrder
<1>5. CASE SendFails(c) /\ CloseClient(c) /\ UNCHANGED asked
  <2>1. Elsewhere(c) /\ conn'[c].client = "closed" /\ down' = TRUE
    BY <1>1, <1>5, CloseEffect DEF CloseClient
  <2>2. TcpType'
    BY <1>1, <1>2, <1>5, <1>6, <2>1 DEF TcpType, Elsewhere
  <2> QED BY <1>2, <1>5, <2>1, <2>2, CloseStep
<1> QED BY <1>3, <1>4, <1>5 DEF Request, SendSucceeds

\* At the start of a call the next part on the connection is the header of the
\* response to the oldest request not answered.
LEMMA RecvHeaderKeepsOrder ==
  ASSUME OrderInv, RecvHeader PROVE OrderInv'
<1>1. /\ TcpType /\ pc = "header" /\ peer \in Conns /\ conn[peer].client = "open"
      /\ conn[peer].repIn # <<>> /\ pc' = "body" /\ UNCHANGED <<asked, taken>>
      /\ conn' = [conn EXCEPT ![peer].repIn = Tail(@)]
      /\ UNCHANGED <<down, id, peer, handles, calls>>
  BY DEF OrderInv, RecvHeader, Readable, TcpType, SocketInv, histVars
<1>2. PICK c \in Conns : c = peer
  BY <1>1
<1>3. /\ Elsewhere(c) /\ conn'[c].client = conn[c].client
      /\ conn'[c].repIn = Tail(conn[c].repIn) /\ conn'[c].repOut = conn[c].repOut
      /\ conn'[c].serving = conn[c].serving /\ conn'[c].reqOut = conn[c].reqOut
      /\ conn'[c].reqIn = conn[c].reqIn /\ conn'[c].server = conn[c].server
  BY <1>1, <1>2, TakeEffect
<1>4. PICK h \in Part : h = Head(conn[c].repIn)
  <2>1. conn[c] \in ConnRecord
    BY <1>1 DEF TcpType
  <2>2. conn[c].repIn \in Seq(Part) /\ conn[c].repIn # <<>>
    BY <1>1, <1>2, <2>1, Streams
  <2>3. Head(conn[c].repIn) \in Part
    BY <2>2
  <2> QED BY <2>3
<1>5. hdr' = [n |-> h.n, id |-> h.id, size |-> h.size]
  BY <1>2, <1>4 DEF RecvHeader
<1>6. hdr' \in [n : Nat, id : Nat, size : {0, 1}] /\ hdr'.n = h.n /\ hdr'.size = h.size
  BY <1>5 DEF Part
<1>7. TcpType'
  BY <1>1, <1>3, <1>6 DEF TcpType, Elsewhere
<1>8. PICK x \in Nat : x = Len(taken[c])
  <2>1. taken[c] \in Seq(Nat)
    BY <1>1 DEF TcpType
  <2> QED BY <2>1
<1>9. TakenTo(c) = 2 * x
  BY <1>1, <1>8 DEF TakenTo
<1>10. PICK b \in Nat : PartAt(asked[c], h, 2 * x, b) /\ Chain(asked[c], conn'[c], b)
  <2>1. /\ asked[c] \in Seq(Nat) /\ conn[c] \in ConnRecord /\ TakenTo(c) \in Nat
        /\ Chain(asked[c], conn[c], TakenTo(c))
    BY <1>1, <1>2, ChainOf
  <2>2. conn'[c] \in ConnRecord
    BY <1>3 DEF Elsewhere
  <2>3. \E b \in Nat : PartAt(asked[c], Head(conn[c].repIn), TakenTo(c), b) /\ Chain(asked[c], conn'[c], b)
    BY <1>1, <1>2, <1>3, <2>1, <2>2, ChainTake
  <2> QED BY <1>4, <1>9, <2>3
<1>11. /\ x < Len(asked[c]) /\ h.n = asked[c][x + 1]
       /\ b = IF h.size = 0 THEN 2 * x + 2 ELSE 2 * x + 1
  <2>1. asked[c] \in Seq(Nat)
    BY <1>1 DEF TcpType
  <2> QED BY <1>10, <2>1, PartAtEven
<1>12. HeaderInv'
  BY <1>1, <1>2, <1>6, <1>8, <1>11 DEF HeaderInv
<1>13. SocketInv'
  <2>1. ASSUME NEW d \in Conns, conn'[d].client = "none"
        PROVE  conn'[d] = Fresh /\ asked'[d] = <<>> /\ taken'[d] = <<>>
    <3>1. d # c
      BY <1>1, <1>2, <1>3, <2>1
    <3> QED BY <1>1, <1>3, <2>1, <3>1 DEF OrderInv, SocketInv, Elsewhere
  <2> QED BY <1>1, <1>2, <1>3, <2>1 DEF SocketInv
<1>14. ChainInv'
  <2>1. TakenTo(c)' = b
    <3>1. TakenTo(c)' = 2 * x + (IF h.size = 0 THEN 2 ELSE 1)
      BY <1>1, <1>2, <1>6, <1>8 DEF TakenTo
    <3> QED BY <1>11, <3>1
  <2>2. ASSUME NEW d \in Conns, conn'[d].client = "open"
        PROVE  Chain(asked'[d], conn'[d], TakenTo(d)')
    <3>1. CASE d = c
      BY <1>1, <1>10, <2>1, <3>1
    <3>2. CASE d # c
      <4>1. conn'[d] = conn[d] /\ asked'[d] = asked[d] /\ TakenTo(d)' = TakenTo(d)
        BY <1>1, <1>2, <1>3, <3>2 DEF Elsewhere, TakenTo
      <4> QED BY <2>2, <4>1 DEF OrderInv, ChainInv
    <3> QED BY <3>1, <3>2
  <2> QED BY <2>2 DEF ChainInv
<1>15. ResponsesInOrder'
  BY <1>1 DEF OrderInv, ResponsesInOrder
<1> QED BY <1>7, <1>12, <1>13, <1>14, <1>15 DEF OrderInv

\* The body behind a header is its own, and completes the next response.
LEMMA RecvBodyKeepsOrder ==
  ASSUME OrderInv, RecvBody PROVE OrderInv'
<1>1. /\ TcpType /\ pc = "body" /\ peer \in Conns /\ conn[peer].client = "open"
      /\ conn[peer].repIn # <<>> /\ pc' = "idle" /\ UNCHANGED asked
      /\ conn' = [conn EXCEPT ![peer].repIn = Tail(@)] /\ hdr.size > 0
      /\ id' = hdr.id /\ taken' = [taken EXCEPT ![peer] = Append(@, hdr.n)]
      /\ UNCHANGED <<down, peer, hdr, handles, calls>>
  BY DEF OrderInv, RecvBody, Readable, TcpType, SocketInv
<1>2. PICK c \in Conns : c = peer
  BY <1>1
<1>3. /\ Elsewhere(c) /\ conn'[c].client = conn[c].client
      /\ conn'[c].repIn = Tail(conn[c].repIn) /\ conn'[c].repOut = conn[c].repOut
      /\ conn'[c].serving = conn[c].serving /\ conn'[c].reqOut = conn[c].reqOut
      /\ conn'[c].reqIn = conn[c].reqIn /\ conn'[c].server = conn[c].server
  BY <1>1, <1>2, TakeEffect
<1>4. PICK n \in Nat, x \in Nat, old \in Seq(Nat), req \in Seq(Nat) :
        n = hdr.n /\ x = Len(taken[c]) /\ old = taken[c] /\ req = asked[c]
  <2>1. taken[c] \in Seq(Nat) /\ asked[c] \in Seq(Nat) /\ hdr.n \in Nat
    BY <1>1 DEF TcpType
  <2> QED BY <2>1
<1>5. x < Len(req) /\ n = req[x + 1] /\ hdr.size # 0
  <2>1. hdr.size # 0
    BY <1>1 DEF TcpType
  <2> QED BY <1>1, <1>2, <1>4, <2>1 DEF OrderInv, HeaderInv
<1>6. PICK new : new = Append(old, n)
  OBVIOUS
<1>7. /\ new \in Seq(Nat) /\ Len(new) = x + 1 /\ new[x + 1] = n
      /\ \A k \in 1 .. x : new[k] = old[k]
  BY <1>4, <1>6, AppendProperties
<1>8. /\ taken' \in [Conns -> Seq(Nat)] /\ taken'[c] = new
      /\ \A d \in Conns : d # c => taken'[d] = taken[d]
  <2>1. taken' = [taken EXCEPT ![c] = new]
    BY <1>1, <1>2, <1>4, <1>6
  <2> QED BY <1>1, <1>7, <2>1 DEF TcpType
<1>9. TcpType'
  <2>1. id' \in Nat
    BY <1>1 DEF TcpType
  <2> QED BY <1>1, <1>3, <1>8, <2>1 DEF TcpType, Elsewhere
<1>10. TakenTo(c) = 2 * x + 1
  BY <1>1, <1>2, <1>4, <1>5 DEF TakenTo
<1>11. PICK h \in Part, b \in Nat : PartAt(req, h, 2 * x + 1, b) /\ Chain(req, conn'[c], b)
  <2>1. /\ asked[c] \in Seq(Nat) /\ conn[c] \in ConnRecord /\ TakenTo(c) \in Nat
        /\ Chain(asked[c], conn[c], TakenTo(c))
    BY <1>1, <1>2, ChainOf
  <2>2. conn'[c] \in ConnRecord
    BY <1>3 DEF Elsewhere
  <2>3. \E b \in Nat : PartAt(asked[c], Head(conn[c].repIn), TakenTo(c), b) /\ Chain(asked[c], conn'[c], b)
    BY <1>1, <1>2, <1>3, <2>1, <2>2, ChainTake
  <2>4. conn[c].repIn \in Seq(Part) /\ conn[c].repIn # <<>>
    BY <1>1, <1>2, <2>1, Streams
  <2>5. Head(conn[c].repIn) \in Part
    BY <2>4
  <2> QED BY <1>4, <1>10, <2>3, <2>5
<1>12. b = 2 * x + 2
  BY <1>11, PartAtOdd
<1>13. HeaderInv'
  BY <1>1 DEF HeaderInv
<1>14. SocketInv'
  <2>1. ASSUME NEW d \in Conns, conn'[d].client = "none"
        PROVE  conn'[d] = Fresh /\ asked'[d] = <<>> /\ taken'[d] = <<>>
    <3>1. d # c
      BY <1>1, <1>2, <1>3, <2>1
    <3> QED BY <1>1, <1>3, <1>8, <2>1, <3>1 DEF OrderInv, SocketInv, Elsewhere
  <2> QED BY <1>1, <2>1 DEF SocketInv
<1>15. ChainInv'
  <2>1. TakenTo(c)' = 2 * x + 2
    <3>1. TakenTo(c)' = 2 * Len(taken'[c])
      BY <1>1 DEF TakenTo
    <3> QED BY <1>7, <1>8, <3>1
  <2>2. ASSUME NEW d \in Conns, conn'[d].client = "open"
        PROVE  Chain(asked'[d], conn'[d], TakenTo(d)')
    <3>1. CASE d = c
      BY <1>1, <1>4, <1>11, <1>12, <2>1, <3>1
    <3>2. CASE d # c
      <4>1. conn'[d] = conn[d] /\ asked'[d] = asked[d] /\ TakenTo(d)' = TakenTo(d)
        BY <1>1, <1>2, <1>3, <1>8, <3>2 DEF Elsewhere, TakenTo
      <4> QED BY <2>2, <4>1 DEF OrderInv, ChainInv
    <3> QED BY <3>1, <3>2
  <2> QED BY <2>2 DEF ChainInv
<1>16. ResponsesInOrder'
  <2>1. ASSUME NEW d \in Conns
        PROVE  /\ Len(taken'[d]) <= Len(asked[d])
               /\ \A k \in 1 .. Len(taken'[d]) : taken'[d][k] = asked[d][k]
    <3>1. /\ Len(taken[d]) <= Len(asked[d])
          /\ \A k \in 1 .. Len(taken[d]) : taken[d][k] = asked[d][k]
      BY DEF OrderInv, ResponsesInOrder
    <3>2. CASE d # c
      BY <1>8, <3>1, <3>2
    <3>3. CASE d = c
      <4>1. \A k \in 1 .. x : old[k] = req[k]
        BY <1>4, <3>1, <3>3
      <4>2. Len(new) <= Len(req) /\ \A k \in 1 .. Len(new) : new[k] = req[k]
        BY <1>5, <1>7, <4>1
      <4> QED BY <1>4, <1>8, <3>3, <4>2
    <3> QED BY <3>2, <3>3
  <2> QED BY <1>1, <2>1 DEF ResponsesInOrder
<1> QED BY <1>9, <1>13, <1>14, <1>15, <1>16 DEF OrderInv

\* It holds at first.
LEMMA OrderInitially == Init => OrderInv
<1> SUFFICES ASSUME Init PROVE OrderInv
  OBVIOUS
<1>1. Fresh \in ConnRecord /\ Fresh.client = "none"
  <2>1. <<>> \in Seq(Part)
    OBVIOUS
  <2> QED BY <2>1 DEF Fresh, ConnRecord
<1>2. <<>> \in Seq(Nat) /\ Len(<<>>) = 0
  OBVIOUS
<1>3. /\ conn \in [Conns -> ConnRecord] /\ asked \in [Conns -> Seq(Nat)]
      /\ taken \in [Conns -> Seq(Nat)]
      /\ \A c \in Conns : conn[c] = Fresh /\ asked[c] = <<>> /\ taken[c] = <<>>
  BY <1>1, <1>2 DEF Init
<1>4. hdr \in [n : Nat, id : Nat, size : {0, 1}]
  BY DEF Init
<1>5. TcpType
  BY <1>3, <1>4 DEF Init, TcpType
<1>6. SocketInv /\ HeaderInv
  BY <1>3 DEF Init, SocketInv, HeaderInv
<1>7. ChainInv
  BY <1>1, <1>3 DEF ChainInv
<1>8. ResponsesInOrder
  BY <1>2, <1>3 DEF ResponsesInOrder
<1> QED BY <1>5, <1>6, <1>7, <1>8 DEF OrderInv

\* A step of the master that ends a call because its connection failed
LEMMA RecvFailsKeepsOrder ==
  ASSUME OrderInv, RecvFails PROVE OrderInv'
<1>1. /\ TcpType /\ pc # "idle" /\ peer \in Conns /\ CloseClient(peer) /\ pc' = "idle"
      /\ UNCHANGED <<id, peer, hdr, handles, calls, asked, taken>>
  BY DEF OrderInv, RecvFails, TcpType, histVars
<1>2. Elsewhere(peer) /\ conn'[peer].client = "closed" /\ down' = TRUE
  BY <1>1, CloseEffect DEF CloseClient
<1>3. TcpType'
  BY <1>1, <1>2 DEF TcpType, Elsewhere
<1> QED BY <1>1, <1>2, <1>3, CloseStep

\* mb_tcp_shutdown of a handle
LEMMA DisconnectKeepsOrder ==
  ASSUME OrderInv, NEW c \in Conns, Disconnect(c) PROVE OrderInv'
<1>1. /\ TcpType /\ pc = "idle" /\ down' = TRUE /\ handles' = handles \ {c}
      /\ UNCHANGED <<id, pc, peer, hdr, calls, asked, taken>>
  BY DEF OrderInv, Disconnect, histVars
<1>2. CASE down
  <2>1. UNCHANGED conn
    BY <1>2 DEF Disconnect
  <2>2. TcpType'
    BY <1>1, <2>1 DEF TcpType
  <2> QED BY <1>1, <2>1, <2>2, WaitStep
<1>3. CASE ~down
  <2>1. conn' = [conn EXCEPT ![c].client = "closed"]
    BY <1>3 DEF Disconnect
  <2>2. Elsewhere(c) /\ conn'[c].client = "closed"
    BY <1>1, <2>1, CloseEffect
  <2>3. TcpType'
    BY <1>1, <2>2 DEF TcpType, Elsewhere
  <2> QED BY <1>1, <2>2, <2>3, CloseStep
<1> QED BY <1>2, <1>3

\* A step keeps it.
LEMMA OrderStep == OrderInv /\ [Next]_vars => OrderInv'
<1> SUFFICES ASSUME OrderInv, [Next]_vars PROVE OrderInv'
  OBVIOUS
<1>1. CASE UNCHANGED vars
  <2>1. /\ UNCHANGED <<down, id, pc, peer, call, hdr, result>>
        /\ UNCHANGED <<asked, taken, handles, calls, conn>>
    BY <1>1 DEF vars, masterVars, histVars
  <2>2. \A d \in Conns : TakenTo(d)' = TakenTo(d)
    BY <2>1 DEF TakenTo
  <2> QED BY <2>1, <2>2
          DEF OrderInv, TcpType, SocketInv, HeaderInv, ChainInv, ResponsesInOrder
<1>2. CASE RecvReady
  <2>1. TcpType'
    BY <1>2 DEF RecvReady, OrderInv, TcpType, histVars
  <2> QED BY <1>2, <2>1, WaitStep DEF RecvReady, histVars
<1>3. CASE RecvTimeout
  <2>1. TcpType'
    BY <1>3 DEF RecvTimeout, OrderInv, TcpType, histVars
  <2> QED BY <1>3, <2>1, WaitStep DEF RecvTimeout, histVars
<1>4. ASSUME NEW c \in Conns, GetMsg(c) PROVE OrderInv'
  <2>1. TcpType' /\ pc = "idle" /\ pc' = "wait" /\ UNCHANGED <<conn, asked, taken>>
    BY <1>4 DEF GetMsg, OrderInv, TcpType, Conns
  <2> QED BY <2>1, WaitStep
<1>5. CASE Master
  BY <1>2, <1>3, <1>5, RecvFailsKeepsOrder, RecvHeaderKeepsOrder, RecvBodyKeepsOrder DEF Master
<1>6. CASE App
  BY <1>4, <1>6, ConnectKeepsOrder, DisconnectKeepsOrder, RequestKeepsOrder DEF App
<1>7. CASE \E c \in Conns : /\ Slave(c) \/ Stop(c) \/ Deliver(c) \/ Stall(c)
                            /\ UNCHANGED <<masterVars, handles, calls, histVars>>
  BY <1>7, SlaveStepsKeepOrder
<1> QED BY <1>1, <1>5, <1>6, <1>7 DEF Next

\* On every connection mb_tcp_rx takes the responses to the requests mb_tcp_tx
\* wrote, in their order, none twice and none left out, although it never
\* compares transaction ids: whatever timed out, was closed, was reset, or
\* came in two parts, and however many handles are in use.
THEOREM ResponsesAlwaysInOrder == Spec => []ResponsesInOrder
<1>1. OrderInv => ResponsesInOrder
  BY DEF OrderInv
<1> QED BY <1>1, OrderInitially, OrderStep, PTL DEF Spec

------------------------------------------------------------------------------
(* is_down and the sockets, with one handle at a time. *)

Opened == {c \in Conns : conn[c].client = "open"}

\* Also in the course of a call: there is at most one handle, an open socket is
\* the handle's, and is_down says whether there is one
FlagInv ==
  /\ \A c, d \in handles : c = d
  /\ pc # "idle" => peer \in handles
  /\ Opened \subseteq handles
  /\ down <=> Opened = {}

\* A connection can be made only when there is no handle.
LEMMA NoHandle ==
  ASSUME MaxPeers <= 1, TcpType, Cardinality(handles) < MaxPeers PROVE handles = {}
<1>1. IsFiniteSet(handles) /\ MaxPeers \in Nat
  <2>1. MaxConns \in Nat /\ MaxPeers \in Nat
    BY TcpAssumption
  <2>2. IsFiniteSet(1 .. MaxConns)
    BY <2>1, FS_Interval
  <2> QED BY <2>1, <2>2, FS_Subset DEF TcpType, Conns
<1>2. Cardinality(handles) \in Nat
  BY <1>1, FS_CardinalityType
<1>3. Cardinality(handles) = 0
  BY <1>1, <1>2
<1> QED BY <1>1, <1>3, FS_EmptySet

\* Steps that open and close nothing
LEMMA FlagKept ==
  ASSUME FlagInv, UNCHANGED <<handles, down>>, pc' # "idle" => peer' \in handles,
         \A c \in Conns : conn'[c].client = conn[c].client
  PROVE  FlagInv'
<1>1. Opened' = Opened
  BY DEF Opened
<1> QED BY <1>1 DEF FlagInv

\* Steps that close the socket of the handle
LEMMA FlagClosed ==
  ASSUME FlagInv, NEW c \in handles, Elsewhere(c), conn'[c].client = "closed",
         down' = TRUE, handles' \subseteq handles, pc' # "idle" => peer' \in handles'
  PROVE  FlagInv'
<1>1. Opened' = {}
  <2>1. ASSUME NEW d \in Conns, conn'[d].client = "open" PROVE FALSE
    <3>1. d # c
      BY <2>1
    <3>2. d \in Opened
      BY <2>1, <3>1 DEF Elsewhere, Opened
    <3> QED BY <3>1, <3>2 DEF FlagInv
  <2> QED BY <2>1 DEF Opened
<1> QED BY <1>1 DEF FlagInv

\* With one peer at a time a step keeps the flag in step with the socket.
LEMMA FlagStep ==
  ASSUME MaxPeers <= 1, OrderInv, FlagInv, [Next]_vars PROVE FlagInv'
<1>1. TcpType
  BY DEF OrderInv
<1>2. CASE UNCHANGED vars
  BY <1>2, FlagKept DEF vars, masterVars, FlagInv
<1>3. CASE Connect
  <2>1. handles = {} /\ pc = "idle" /\ UNCHANGED pc /\ down' = FALSE
    BY <1>1, <1>3, NoHandle DEF Connect
  <2>2. PICK c \in Conns :
          /\ conn[c] = Fresh
          /\ conn' = [conn EXCEPT ![c].client = "open", ![c].server = "open"]
          /\ handles' = handles \cup {c}
    BY <1>3 DEF Connect
  <2>3. Elsewhere(c) /\ conn'[c].client = "open"
    BY <1>1, <2>2, OpenEffect
  <2>4. Opened' = {c}
    <3>1. \A d \in Conns : d # c => conn'[d].client # "open"
      BY <2>1, <2>3 DEF FlagInv, Opened, Elsewhere
    <3> QED BY <2>3, <3>1 DEF Opened
  <2> QED BY <2>1, <2>2, <2>4 DEF FlagInv
<1>4. ASSUME NEW c \in Conns, Disconnect(c) PROVE FlagInv'
  <2>1. /\ pc = "idle" /\ UNCHANGED pc /\ c \in handles /\ down' = TRUE
        /\ handles' = handles \ {c}
    BY <1>4 DEF Disconnect
  <2>2. CASE down
    <3>1. Opened' = {}
      BY <1>4, <2>2 DEF Disconnect, FlagInv, Opened
    <3> QED BY <2>1, <3>1 DEF FlagInv
  <2>3. CASE ~down
    <3>1. Elsewhere(c) /\ conn'[c].client = "closed"
      BY <1>1, <1>4, <2>3, CloseEffect DEF Disconnect
    <3>2. FlagInv'
      BY <2>1, <3>1, FlagClosed
    <3> QED BY <3>2
  <2> QED BY <2>2, <2>3
<1>5. ASSUME NEW c \in Conns, NEW wait \in BOOLEAN, Request(c, wait) PROVE FlagInv'
  <2>1. c \in handles /\ peer' = c /\ UNCHANGED handles
    BY <1>5 DEF Request
  <2>2. CASE CloseClient(c)
    <3>1. Elsewhere(c) /\ conn'[c].client = "closed" /\ down' = TRUE
      BY <1>1, <2>2, CloseEffect DEF CloseClient
    <3> QED BY <2>1, <3>1, FlagClosed
  <2>3. CASE UNCHANGED down /\ conn' = [conn EXCEPT ![c].reqOut = @ \o Message(calls + 1, id', 1)]
    <3>1. \A d \in Conns : conn'[d].client = conn[d].client
      BY <1>1, <2>3 DEF TcpType, ConnRecord
    <3> QED BY <2>1, <2>3, <3>1, FlagKept
  <2> QED BY <1>5, <2>2, <2>3 DEF Request
<1>6. ASSUME NEW c \in Conns, GetMsg(c) PROVE FlagInv'
  BY <1>6, FlagKept DEF GetMsg
<1>7. CASE RecvReady \/ RecvTimeout
  <2>1. pc = "wait" /\ UNCHANGED <<handles, down, conn, peer>>
    BY <1>7 DEF RecvReady, RecvTimeout
  <2>2. peer' \in handles
    BY <2>1 DEF FlagInv
  <2> QED BY <2>1, <2>2, FlagKept
<1>8. CASE RecvFails
  <2>1. /\ pc # "idle" /\ CloseClient(peer) /\ pc' = "idle" /\ UNCHANGED handles
    BY <1>8 DEF RecvFails
  <2>2. peer \in handles /\ peer \in Conns
    BY <1>1, <2>1 DEF FlagInv, TcpType
  <2>3. Elsewhere(peer) /\ conn'[peer].client = "closed" /\ down' = TRUE
    BY <1>1, <2>1, <2>2, CloseEffect DEF CloseClient
  <2> QED BY <2>1, <2>2, <2>3, FlagClosed
<1>9. CASE RecvHeader \/ RecvBody
  <2>1. /\ pc # "idle" /\ conn' = [conn EXCEPT ![peer].repIn = Tail(@)]
        /\ conn[peer].repIn # <<>> /\ UNCHANGED <<handles, down, peer>>
    BY <1>9 DEF RecvHeader, RecvBody, Readable
  <2>2. peer \in handles /\ peer \in Conns
    BY <1>1, <2>1 DEF FlagInv, TcpType
  <2>3. Elsewhere(peer) /\ conn'[peer].client = conn[peer].client
    BY <1>1, <2>1, <2>2, TakeEffect
  <2>4. \A d \in Conns : conn'[d].client = conn[d].client
    BY <2>3 DEF Elsewhere
  <2> QED BY <2>1, <2>2, <2>4, FlagKept
<1>10. ASSUME NEW c \in Conns, Slave(c) \/ Stop(c) \/ Deliver(c) \/ Stall(c),
              UNCHANGED <<masterVars, handles, calls, histVars>>
       PROVE  FlagInv'
  <2>1. UNCHANGED <<pc, peer, down, handles>>
    BY <1>10 DEF masterVars
  <2>2. \A d \in Conns : conn'[d].client = conn[d].client
    BY <1>1, <1>10, SlaveKeepsSockets
  <2> QED BY <2>1, <2>2, FlagKept DEF FlagInv
<1> QED BY <1>2, <1>3, <1>4, <1>5, <1>6, <1>7, <1>8, <1>9, <1>10 DEF Next, Master, App

\* As long as the application holds one handle at a time, between two calls
\* is_down tells whether the master has a socket open, and an open socket has
\* its handle: mb_tcp_shutdown, which closes nothing when the transport is
\* down, leaves no socket behind.
THEOREM FlagAlwaysTracksSocket ==
  ASSUME MaxPeers <= 1 PROVE Spec => []FlagTracksSocket
<1>1. Init => FlagInv
  <2> SUFFICES ASSUME Init PROVE FlagInv
    OBVIOUS
  <2>1. Opened = {}
    BY DEF Init, Opened, Fresh
  <2> QED BY <2>1 DEF Init, FlagInv
<1>2. OrderInv /\ FlagInv /\ [Next]_vars => FlagInv'
  BY FlagStep
<1>3. FlagInv => FlagTracksSocket
  BY DEF FlagInv, Opened, FlagTracksSocket
<1> QED BY <1>1, <1>2, <1>3, OrderInitially, OrderStep, PTL DEF Spec
==============================================================================
