--------------------------- MODULE MbStream_proofs ---------------------------
(***************************************************************************)
(* What mb_tcp.c guarantees over a byte stream, however recv and send cut  *)
(* the messages up and whatever the other end sends.                       *)
(***************************************************************************)
EXTENDS MbStream, SequenceTheorems, TLAPS

BringupPc  == {"listen", "options", "connect"}
TransferPc == {"header", "length", "body", "protocol", "send"}

\* What the assumptions say of the sizes.
LEMMA Sizes ==
  /\ MBAP_HEADER_SIZE \in Nat /\ MBAP_HEADER_SIZE >= 1
  /\ MAX_PDU_SIZE \in Nat /\ MAX_PDU_SIZE >= 1
  /\ SendBuffer \in Nat /\ ReplySize \in Nat /\ ReplySize >= 1
  /\ \A length \in Lengths : length \in Nat
BY StreamAssumption

------------------------------------------------------------------------------
(* Sockets. *)

\* The sockets bringup has made at each of its calls; a transfer is made only
\* while the transport is up.
SocketInv ==
  /\ is_down \in BOOLEAN
  /\ pc \in {"idle"} \cup BringupPc \cup TransferPc
  /\ pc = "listen" => is_down /\ sockets = {"listener"}
  /\ pc = "options" => is_down /\ sockets = {"listener", "peer"}
  /\ pc = "connect" => is_down /\ sockets = {"peer"}
  /\ pc \in TransferPc => ~is_down
  /\ SocketsBalanced

\* A step keeps it.
LEMMA SocketStep == ASSUME SocketInv, [Next]_vars PROVE SocketInv'
<1> USE DEF SocketInv, SocketsBalanced, BringupPc, TransferPc, netVars, histVars
<1>1. CASE UNCHANGED vars
  BY <1>1 DEF vars
<1>2. CASE Bringup
  BY <1>2 DEF Bringup, Open, GiveUp
<1>3. CASE Accept
  BY <1>3 DEF Accept, Open, GiveUp
<1>4. CASE Options
  BY <1>4 DEF Options, Established, GiveUp
<1>5. CASE Connect
  BY <1>5 DEF Connect, Established, GiveUp
<1>6. CASE Shutdown \/ RecvFails \/ SendFails
  BY <1>6 DEF Shutdown, RecvFails, SendFails, CloseLink
<1>7. CASE RxReady \/ Recv \/ Length \/ Return \/ Tx \/ Send
  BY <1>7 DEF RxReady, Recv, Length, Return, Tx, Send
<1>8. CASE PeerSend \/ PeerTake \/ PeerClose
  BY <1>8 DEF PeerSend, PeerTake, PeerClose
<1> QED BY <1>1, <1>2, <1>3, <1>4, <1>5, <1>6, <1>7, <1>8 DEF Next, Task, App

\* It always holds.
LEMMA SocketAlways == Spec => []SocketInv
<1>1. Init => SocketInv
  BY DEF Init, SocketInv, SocketsBalanced, BringupPc, TransferPc
<1>2. SocketInv /\ [Next]_vars => SocketInv'
  BY SocketStep
<1> QED BY <1>1, <1>2, PTL DEF Spec

\* No call of bringup that fails leaves a socket behind, and no close leaves
\* one either: outside bringup there is the peer's socket when the transport is
\* up and none when it is down.
THEOREM SocketsAlwaysBalanced == Spec => []SocketsBalanced
<1>1. SocketInv => SocketsBalanced
  BY DEF SocketInv
<1> QED BY <1>1, SocketAlways, PTL

------------------------------------------------------------------------------
(* Sending. *)

ReplyBytes == MBAP_HEADER_SIZE + ReplySize

\* While a reply is sent, size bytes of it have still to go.
ReplyInv ==
  /\ replies \in Nat
  /\ out \in Seq(Nat \X Nat)
  /\ \A i \in DOMAIN out :
       out[i] = <<((i - 1) \div ReplyBytes) + 1, ((i - 1) % ReplyBytes) + 1>>
  /\ pc = "send" => /\ size \in 1 .. ReplyBytes /\ replies >= 1
                    /\ Len(out) = replies * ReplyBytes - size
  /\ pc # "send" /\ ~is_down => Len(out) = replies * ReplyBytes

\* The bytes of two parts of a stream put together.
LEMMA Appended ==
  ASSUME NEW T, NEW s \in Seq(T), NEW t \in Seq(T)
  PROVE  /\ s \o t \in Seq(T) /\ Len(s \o t) = Len(s) + Len(t)
         /\ \A i \in DOMAIN (s \o t) :
              \/ i \in DOMAIN s /\ (s \o t)[i] = s[i]
              \/ i - Len(s) \in 1 .. Len(t) /\ (s \o t)[i] = t[i - Len(s)]
         /\ \A i \in 1 .. Len(s) : (s \o t)[i] = s[i]
         /\ \A i \in 1 .. Len(t) : (s \o t)[Len(s) + i] = t[i]
OBVIOUS

\* Division of a byte's offset in the stream: message a, byte b of it.
LEMMA Offsets ==
  ASSUME NEW n \in Nat, n >= 1, NEW a \in Nat, NEW b \in Nat, b < n
  PROVE  (a * n + b) \div n = a /\ (a * n + b) % n = b
<1>1. PICK x \in Nat : x = a * n + b
  OBVIOUS
<1>2. PICK d \in Int, r \in Int : /\ d = x \div n /\ r = x % n
                                  /\ x = n * d + r /\ 0 <= r /\ r < n
  OBVIOUS
<1>3. ~(d >= a + 1)
  <2> SUFFICES ASSUME d >= a + 1 PROVE FALSE
    OBVIOUS
  <2>1. n * d >= n * (a + 1)
    OBVIOUS
  <2> QED BY <1>1, <1>2, <2>1
<1>4. ~(a >= d + 1)
  <2> SUFFICES ASSUME a >= d + 1 PROVE FALSE
    OBVIOUS
  <2>1. n * a >= n * (d + 1)
    OBVIOUS
  <2> QED BY <1>1, <1>2, <2>1
<1>5. d = a
  BY <1>3, <1>4
<1> QED BY <1>1, <1>2, <1>5

\* A step keeps it.
LEMMA ReplyStep == ASSUME SocketInv, ReplyInv, [Next]_vars PROVE ReplyInv'
<1> USE DEF netVars, histVars
<1>0. ReplyBytes \in Nat /\ ReplyBytes >= 1
  BY Sizes DEF ReplyBytes
<1>1. CASE UNCHANGED vars
  BY <1>1 DEF vars, ReplyInv
<1>2. CASE Bringup \/ Accept
  BY <1>2 DEF Bringup, Accept, Open, GiveUp, ReplyInv, SocketInv
<1>3. CASE Options \/ Connect
  <2>1. /\ is_down /\ pc' = "idle"
        /\ \/ is_down' /\ UNCHANGED <<out, replies>>
           \/ out' = <<>> /\ replies' = 0
    BY <1>3 DEF Options, Connect, Established, GiveUp, SocketInv
  <2>2. 0 * ReplyBytes = 0
    BY <1>0
  <2>3. CASE is_down' /\ UNCHANGED <<out, replies>>
    BY <2>1, <2>3 DEF ReplyInv
  <2>4. CASE out' = <<>> /\ replies' = 0
    BY <2>1, <2>2, <2>4 DEF ReplyInv
  <2> QED BY <2>1, <2>3, <2>4
<1>4. CASE Shutdown \/ RecvFails \/ SendFails
  BY <1>4 DEF Shutdown, RecvFails, SendFails, CloseLink, ReplyInv
<1>5. CASE RxReady \/ Recv \/ Length \/ Return
  BY <1>5 DEF RxReady, Recv, Length, Return, ReplyInv
<1>6. CASE PeerSend \/ PeerTake \/ PeerClose
  BY <1>6 DEF PeerSend, PeerTake, PeerClose, ReplyInv
<1>7. CASE Tx
  <2>1. /\ pc = "idle" /\ ~is_down /\ pc' = "send" /\ size' = ReplyBytes
        /\ replies' = replies + 1 /\ out' = out
    BY <1>7 DEF Tx, ReplyBytes
  <2>2. replies \in Nat /\ Len(out) = replies * ReplyBytes
    BY <2>1 DEF ReplyInv
  <2>3. (replies + 1) * ReplyBytes - ReplyBytes = replies * ReplyBytes
    BY <1>0, <2>2
  <2> QED BY <1>0, <2>1, <2>2, <2>3 DEF ReplyInv
<1>8. CASE Send
  <2>1. pc = "send" /\ replies' = replies /\ is_down' = is_down /\ ~is_down
    BY <1>8 DEF Send, SocketInv, TransferPc
  <2>2. PICK total \in Int : total = replies * ReplyBytes
    BY <1>0 DEF ReplyInv
  <2>3. /\ size \in 1 .. ReplyBytes /\ replies \in Nat /\ replies >= 1
        /\ Len(out) = total - size /\ out \in Seq(Nat \X Nat) /\ Len(out) \in Nat
    BY <2>1, <2>2 DEF ReplyInv
  <2>4. PICK n \in 1 .. SendBuffer - queued :
          /\ n <= size
          /\ out' = out \o [k \in 1 .. n |-> <<replies, MBAP_HEADER_SIZE + ReplySize - size + k>>]
          /\ queued' = queued + n
          /\ IF Loops(size - n) THEN size' = size - n /\ UNCHANGED pc
             ELSE size' = 0 /\ pc' = "idle"
    BY <1>8 DEF Send
  <2>5. n \in Nat /\ n >= 1 /\ n <= size /\ size - n \in Nat
    <3>1. n \in Int /\ n >= 1 /\ size \in Int
      BY <2>3
    <3> QED BY <2>4, <3>1
  <2>6. PICK part : part = [k \in 1 .. n |-> <<replies, MBAP_HEADER_SIZE + ReplySize - size + k>>]
    OBVIOUS
  <2>7. part \in Seq(Nat \X Nat) /\ Len(part) = n
    <3>1. \A k \in 1 .. n :
            <<replies, MBAP_HEADER_SIZE + ReplySize - size + k>> \in Nat \X Nat
      BY <1>0, <2>3, Sizes DEF ReplyBytes
    <3> QED BY <2>5, <2>6, <3>1
  <2>8. out' = out \o part
    BY <2>4, <2>6
  <2>9. /\ out' \in Seq(Nat \X Nat) /\ Len(out') = Len(out) + n
        /\ \A i \in DOMAIN out' : \/ i \in DOMAIN out /\ out'[i] = out[i]
                                  \/ /\ i - Len(out) \in 1 .. n
                                     /\ out'[i] = part[i - Len(out)]
    <3>1. PICK s, t \in Seq(Nat \X Nat) : s = out /\ t = part
      BY <2>3, <2>7
    <3>2. /\ s \o t \in Seq(Nat \X Nat) /\ Len(s \o t) = Len(s) + Len(t)
          /\ \A i \in DOMAIN (s \o t) :
               \/ i \in DOMAIN s /\ (s \o t)[i] = s[i]
               \/ i - Len(s) \in 1 .. Len(t) /\ (s \o t)[i] = t[i - Len(s)]
      BY Appended
    <3> QED BY <2>7, <2>8, <3>1, <3>2
  <2>10. Len(out') = total - (size - n)
    BY <1>0, <2>3, <2>5, <2>9
  <2>11. ASSUME NEW k \in 1 .. n, NEW i \in Nat, i = Len(out) + k
         PROVE  part[k] = <<((i - 1) \div ReplyBytes) + 1, ((i - 1) % ReplyBytes) + 1>>
    <3>1. PICK a \in Nat, b \in Nat : /\ a = replies - 1 /\ b = ReplyBytes - size + k - 1
                                      /\ b < ReplyBytes
      BY <1>0, <2>3, <2>5
    <3>2. a * ReplyBytes = total - ReplyBytes
      BY <1>0, <2>2, <2>3, <3>1
    <3>3. i - 1 = (total - ReplyBytes) + b
      BY <1>0, <2>3, <2>11, <3>1
    <3>4. (i - 1) \div ReplyBytes = a /\ (i - 1) % ReplyBytes = b
      <4>1. i - 1 = a * ReplyBytes + b
        BY <3>2, <3>3
      <4>2. (a * ReplyBytes + b) \div ReplyBytes = a /\ (a * ReplyBytes + b) % ReplyBytes = b
        BY <1>0, <3>1, Offsets
      <4> QED BY <4>1, <4>2
    <3>5. part[k] = <<replies, MBAP_HEADER_SIZE + ReplySize - size + k>>
      BY <2>6
    <3>6. a + 1 = replies /\ b + 1 = MBAP_HEADER_SIZE + ReplySize - size + k
      BY <1>0, <2>3, <3>1, Sizes DEF ReplyBytes
    <3> QED BY <3>4, <3>5, <3>6
  <2>12. \A i \in DOMAIN out' :
           out'[i] = <<((i - 1) \div ReplyBytes) + 1, ((i - 1) % ReplyBytes) + 1>>
    <3> SUFFICES ASSUME NEW i \in DOMAIN out'
                 PROVE  out'[i] = <<((i - 1) \div ReplyBytes) + 1, ((i - 1) % ReplyBytes) + 1>>
      OBVIOUS
    <3>1. CASE i \in DOMAIN out /\ out'[i] = out[i]
      BY <3>1 DEF ReplyInv
    <3>2. CASE i - Len(out) \in 1 .. n /\ out'[i] = part[i - Len(out)]
      <4>1. PICK k \in 1 .. n : k = i - Len(out)
        BY <3>2
      <4>2. i \in Nat
        BY <2>9
      <4>3. i = Len(out) + k
        BY <2>3, <4>1, <4>2
      <4> QED BY <2>11, <3>2, <4>1, <4>2, <4>3
    <3> QED BY <2>9, <3>1, <3>2
  <2>13. CASE size - n > 0
    <3>1. size' = size - n /\ pc' = "send" /\ size' \in 1 .. ReplyBytes
      BY <1>0, <2>1, <2>3, <2>4, <2>5, <2>13 DEF Loops
    <3>2. Len(out') = replies * ReplyBytes - size'
      BY <2>2, <2>10, <3>1
    <3> QED BY <2>1, <2>3, <2>9, <2>12, <3>1, <3>2 DEF ReplyInv
  <2>14. CASE ~(size - n > 0)
    <3>1. pc' = "idle" /\ size - n = 0
      BY <2>4, <2>5, <2>14 DEF Loops
    <3>2. Len(out') = replies * ReplyBytes
      BY <2>2, <2>10, <3>1
    <3> QED BY <2>1, <2>3, <2>9, <2>12, <3>1, <3>2 DEF ReplyInv
  <2> QED BY <2>13, <2>14
<1> QED BY <1>1, <1>2, <1>3, <1>4, <1>5, <1>6, <1>7, <1>8 DEF Next, Task, App

\* Whatever pieces send takes, the bytes that go out on a connection are whole
\* replies one after the other and at most one unfinished one at the end.
THEOREM RepliesAlwaysWhole == Spec => []RepliesWhole
<1>1. Init => ReplyInv
  <2>1. 0 * ReplyBytes = 0
    BY Sizes DEF ReplyBytes
  <2> QED BY <2>1 DEF Init, ReplyInv
<1>2. SocketInv /\ ReplyInv /\ [Next]_vars => ReplyInv'
  BY ReplyStep
<1>3. ReplyInv => RepliesWhole
  BY DEF ReplyInv, RepliesWhole, ReplyBytes
<1> QED BY <1>1, <1>2, <1>3, SocketAlways, PTL DEF Spec

------------------------------------------------------------------------------
(* Receiving. *)

\* The bytes of message m of the peer's messages
MessageBytes(sent, m) ==
  MBAP_HEADER_SIZE + (IF sent[m].length = 0 THEN 0 ELSE sent[m].length - 1)

\* Byte i of s is a byte of a message sent, the rest of that message follows it,
\* and what follows its last byte is the first byte of the next.
ContiguousAt(s, sent, i) ==
  LET m == s[i][1]
      k == s[i][2]
  IN  /\ m \in 1 .. Len(sent) /\ k \in 1 .. MessageBytes(sent, m)
      /\ \A d \in 0 .. MessageBytes(sent, m) - k :
           i + d <= Len(s) /\ s[i + d] = <<m, k + d>>
      /\ k = MessageBytes(sent, m) /\ i < Len(s) => s[i + 1][2] = 1

Contiguous(s, sent) == \A i \in 1 .. Len(s) : ContiguousAt(s, sent, i)

\* What has been read of the current message, and what has not been read
Stream == head \o buffer \o wire

Messages == [length : Lengths]

Bytes == Nat \X Nat

StreamType ==
  /\ is_down \in BOOLEAN /\ malformed \in BOOLEAN
  /\ size \in Nat
  /\ buffer \in Seq(Bytes) /\ head \in Seq(Bytes) /\ wire \in Seq(Bytes)
  /\ messages \in Seq(Messages)

\* How much of the message has been read, by the step of mb_tcp_rx
Progress ==
  /\ is_down => wire = <<>>
  /\ pc \notin {"header", "length", "body", "protocol"} => buffer = <<>>
  /\ pc \notin {"body", "protocol"} => head = <<>>
  /\ pc = "header" => size = MBAP_HEADER_SIZE /\ Len(buffer) < size
  /\ pc = "length" => size = MBAP_HEADER_SIZE /\ Len(buffer) = size
  /\ pc \in {"body", "protocol"} => /\ Len(head) = MBAP_HEADER_SIZE
                                    /\ Len(buffer) <= size /\ size <= MAX_PDU_SIZE
  /\ pc = "protocol" => Len(buffer) = size

\* Without a bad length the current message has been read from its first byte,
\* and its length was believed rightly.
Aligned ==
  ~malformed =>
    /\ Stream # <<>> => Stream[1][2] = 1
    /\ pc \in {"body", "protocol"} => /\ messages[head[1][1]].length >= 1
                                      /\ size = messages[head[1][1]].length - 1

StreamInv == StreamType /\ Progress /\ Contiguous(Stream, messages) /\ Aligned

\* A message has a header and the body its length field says.
LEMMA MessageBytesTyped ==
  ASSUME NEW sent \in Seq(Messages), NEW m \in 1 .. Len(sent)
  PROVE  /\ sent[m].length \in Lengths /\ sent[m].length \in Nat
         /\ MessageBytes(sent, m) \in Nat /\ MessageBytes(sent, m) >= MBAP_HEADER_SIZE
         /\ sent[m].length >= 1 => MessageBytes(sent, m) = MBAP_HEADER_SIZE + sent[m].length - 1
<1>1. sent[m] \in Messages
  OBVIOUS
<1>2. sent[m].length \in Lengths
  BY <1>1 DEF Messages
<1> QED BY <1>2, Sizes DEF MessageBytes

\* A stream stays contiguous when its first n bytes are taken.
LEMMA ContiguousSuffix ==
  ASSUME NEW sent \in Seq(Messages), NEW s \in Seq(Bytes), NEW t \in Seq(Bytes),
         NEW n \in Nat, Len(s) = n + Len(t), \A i \in 1 .. Len(t) : t[i] = s[n + i],
         Contiguous(s, sent)
  PROVE  Contiguous(t, sent)
<1> SUFFICES ASSUME NEW i \in 1 .. Len(t)
             PROVE  ContiguousAt(t, sent, i)
  BY DEF Contiguous
<1>1. Len(s) \in Nat /\ Len(t) \in Nat /\ Len(sent) \in Nat /\ i \in Nat
  OBVIOUS
<1>2. n + i \in 1 .. Len(s)
  BY <1>1
<1>3. PICK j \in 1 .. Len(s) : j = n + i /\ t[i] = s[j]
  BY <1>2
<1>4. ContiguousAt(s, sent, j)
  BY DEF Contiguous
<1>5. PICK m, k : m = t[i][1] /\ k = t[i][2]
  OBVIOUS
<1>6. /\ m \in 1 .. Len(sent) /\ k \in 1 .. MessageBytes(sent, m)
      /\ \A d \in 0 .. MessageBytes(sent, m) - k :
           j + d <= Len(s) /\ s[j + d] = <<m, k + d>>
      /\ k = MessageBytes(sent, m) /\ j < Len(s) => s[j + 1][2] = 1
  BY <1>3, <1>4, <1>5 DEF ContiguousAt
<1>7. PICK total \in Nat : total = MessageBytes(sent, m)
  BY <1>6, MessageBytesTyped
<1>8. m \in Nat /\ k \in Nat
  BY <1>1, <1>6, <1>7
<1>9. ASSUME NEW d \in 0 .. total - k
      PROVE  i + d <= Len(t) /\ t[i + d] = <<m, k + d>>
  <2>1. d \in Nat /\ j + d <= Len(s) /\ s[j + d] = <<m, k + d>>
    BY <1>6, <1>7, <1>8
  <2>2. i + d \in 1 .. Len(t)
    BY <1>1, <1>3, <2>1
  <2>3. n + (i + d) = j + d
    BY <1>1, <1>3, <2>1
  <2>4. t[i + d] = s[j + d]
    BY <2>2, <2>3
  <2>5. t[i + d] = <<m, k + d>>
    BY <2>1, <2>4, Zenon
  <2> QED BY <2>2, <2>5
<1>10. ASSUME k = total, i < Len(t)
      PROVE  t[i + 1][2] = 1
  <2>1. s[j + 1][2] = 1
    BY <1>1, <1>3, <1>6, <1>7, <1>10
  <2>2. i + 1 \in 1 .. Len(t) /\ n + (i + 1) = j + 1
    BY <1>1, <1>3, <1>10
  <2>3. t[i + 1] = s[j + 1]
    BY <2>2
  <2> QED BY <2>1, <2>3
<1> QED BY <1>5, <1>6, <1>7, <1>9, <1>10 DEF ContiguousAt

\* A stream stays contiguous when a whole message is added to it.
LEMMA ContiguousAppend ==
  ASSUME NEW sent \in Seq(Messages), NEW sent2 \in Seq(Messages),
         NEW last \in Nat, last = Len(sent) + 1, Len(sent2) = last,
         \A m \in 1 .. Len(sent) : sent2[m] = sent[m],
         NEW s \in Seq(Bytes), NEW t \in Seq(Bytes),
         NEW n \in Nat, n >= 1, n = MessageBytes(sent2, last),
         Len(t) = Len(s) + n, \A i \in 1 .. Len(s) : t[i] = s[i],
         \A i \in 1 .. n : t[Len(s) + i] = <<last, i>>,
         Contiguous(s, sent)
  PROVE  Contiguous(t, sent2)
<1>1. Len(s) \in Nat /\ Len(t) \in Nat /\ Len(sent) \in Nat /\ Len(sent2) \in Nat
  OBVIOUS
<1>2. \A m \in 1 .. Len(sent) : MessageBytes(sent2, m) = MessageBytes(sent, m)
  BY DEF MessageBytes
<1>3. ASSUME NEW i \in 1 .. Len(s)
      PROVE  ContiguousAt(t, sent2, i)
  <2>1. ContiguousAt(s, sent, i) /\ t[i] = s[i] /\ i \in Nat
    BY <1>1 DEF Contiguous
  <2>2. PICK m, k : m = t[i][1] /\ k = t[i][2]
    OBVIOUS
  <2>3. /\ m \in 1 .. Len(sent) /\ k \in 1 .. MessageBytes(sent, m)
        /\ \A d \in 0 .. MessageBytes(sent, m) - k :
             i + d <= Len(s) /\ s[i + d] = <<m, k + d>>
        /\ k = MessageBytes(sent, m) /\ i < Len(s) => s[i + 1][2] = 1
    BY <2>1, <2>2 DEF ContiguousAt
  <2>4. PICK total \in Nat : total = MessageBytes(sent, m)
    BY <2>3, MessageBytesTyped
  <2>5. m \in Nat /\ m \in 1 .. Len(sent2) /\ k \in Nat /\ total = MessageBytes(sent2, m)
    BY <1>1, <1>2, <2>3, <2>4
  <2>6. ASSUME NEW d \in 0 .. total - k
        PROVE  i + d <= Len(t) /\ t[i + d] = <<m, k + d>>
    <3>0. d \in 0 .. MessageBytes(sent, m) - k /\ d \in Nat
      BY <2>4, <2>5
    <3>1. i + d <= Len(s) /\ s[i + d] = <<m, k + d>>
      BY <2>3, <3>0
    <3>2. i + d \in 1 .. Len(s) /\ i + d <= Len(t)
      BY <1>1, <2>1, <3>0, <3>1
    <3>3. t[i + d] = s[i + d]
      BY <3>2
    <3>4. t[i + d] = <<m, k + d>>
      BY <3>1, <3>3, Zenon
    <3> QED BY <3>2, <3>4
  <2>7. ASSUME k = total, i < Len(t)
        PROVE  t[i + 1][2] = 1
    <3>1. CASE i < Len(s)
      <4>1. s[i + 1][2] = 1
        BY <2>3, <2>4, <2>7, <3>1
      <4>2. i + 1 \in 1 .. Len(s)
        BY <1>1, <2>1, <3>1
      <4>3. t[i + 1] = s[i + 1]
        BY <4>2
      <4> QED BY <4>1, <4>3
    <3>2. CASE i = Len(s)
      <4>1. 1 \in 1 .. n
        OBVIOUS
      <4>2. t[Len(s) + 1] = <<last, 1>>
        BY <4>1
      <4> QED BY <3>2, <4>2
    <3> QED BY <1>1, <2>1, <3>1, <3>2
  <2> QED BY <2>2, <2>3, <2>4, <2>5, <2>6, <2>7 DEF ContiguousAt
<1>4. ASSUME NEW i \in 1 .. n
      PROVE  ContiguousAt(t, sent2, Len(s) + i)
  <2>1. PICK j \in Nat : j = Len(s) + i
    BY <1>1
  <2>2. t[j] = <<last, i>>
    BY <2>1
  <2>3. ASSUME NEW d \in 0 .. n - i
        PROVE  j + d <= Len(t) /\ t[j + d] = <<last, i + d>>
    <3>1. i + d \in 1 .. n /\ Len(s) + (i + d) = j + d /\ j + d <= Len(t)
      BY <1>1, <2>1
    <3>2. t[Len(s) + (i + d)] = <<last, i + d>>
      BY <3>1
    <3> QED BY <3>1, <3>2
  <2>4. i = n => ~(j < Len(t))
    BY <1>1, <2>1
  <2>5. last \in 1 .. Len(sent2)
    BY <1>1
  <2>6. PICK m, k : m = t[j][1] /\ k = t[j][2]
    OBVIOUS
  <2>7. m = last /\ k = i
    BY <2>2, <2>6
  <2> QED BY <2>1, <2>3, <2>4, <2>5, <2>6, <2>7 DEF ContiguousAt
<1>5. \A j \in 1 .. Len(t) : j \in 1 .. Len(s) \/ \E i \in 1 .. n : j = Len(s) + i
  <2> SUFFICES ASSUME NEW j \in 1 .. Len(t), ~(j \in 1 .. Len(s))
               PROVE  \E i \in 1 .. n : j = Len(s) + i
    OBVIOUS
  <2>1. j - Len(s) \in 1 .. n /\ j = Len(s) + (j - Len(s))
    BY <1>1
  <2> QED BY <2>1
<1> QED BY <1>3, <1>4, <1>5 DEF Contiguous

\* A contiguous stream that begins with a first byte begins with a message.
LEMMA FirstMessage ==
  ASSUME NEW s \in Seq(Bytes), NEW sent \in Seq(Messages), Contiguous(s, sent),
         s # <<>>, s[1][2] = 1
  PROVE  \E m \in 1 .. Len(sent), total \in Nat :
           /\ m = s[1][1] /\ total = MessageBytes(sent, m) /\ total <= Len(s)
           /\ \A k \in 1 .. total : s[k] = <<m, k>>
           /\ total < Len(s) => s[total + 1][2] = 1
<1>1. Len(s) \in Nat /\ Len(s) >= 1 /\ Len(sent) \in Nat
  OBVIOUS
<1>2. ContiguousAt(s, sent, 1)
  BY <1>1 DEF Contiguous
<1>3. PICK m : m = s[1][1]
  OBVIOUS
<1>4. m \in 1 .. Len(sent) /\ m \in Nat
  BY <1>1, <1>2, <1>3 DEF ContiguousAt
<1>5. PICK total \in Nat : total = MessageBytes(sent, m) /\ total >= 1
  BY <1>4, MessageBytesTyped, Sizes
<1>6. \A d \in 0 .. total - 1 : 1 + d <= Len(s) /\ s[1 + d] = <<m, 1 + d>>
  BY <1>2, <1>3, <1>5 DEF ContiguousAt
<1>7. \A k \in 1 .. total : k <= Len(s) /\ s[k] = <<m, k>>
  <2> SUFFICES ASSUME NEW k \in 1 .. total PROVE k <= Len(s) /\ s[k] = <<m, k>>
    OBVIOUS
  <2>1. k - 1 \in 0 .. total - 1 /\ 1 + (k - 1) = k
    OBVIOUS
  <2>2. 1 + (k - 1) <= Len(s) /\ s[1 + (k - 1)] = <<m, 1 + (k - 1)>>
    BY <1>6, <2>1
  <2> QED BY <2>1, <2>2
<1>8. total \in 1 .. total /\ total <= Len(s)
  BY <1>5, <1>7
<1>9. s[total] = <<m, total>>
  BY <1>7, <1>8
<1>10. s[total][1] = m /\ s[total][2] = total
  BY <1>9
<1>11. ContiguousAt(s, sent, total)
  BY <1>1, <1>8 DEF Contiguous
<1>12. total < Len(s) => s[total + 1][2] = 1
  BY <1>5, <1>10, <1>11 DEF ContiguousAt
<1> QED BY <1>3, <1>4, <1>5, <1>7, <1>8, <1>12

\* Where the bytes of head, buffer and wire are in the stream.
LEMMA StreamParts ==
  ASSUME StreamType
  PROVE  /\ Len(head) \in Nat /\ Len(buffer) \in Nat /\ Len(wire) \in Nat
         /\ Stream \in Seq(Bytes) /\ Len(Stream) = Len(head) + Len(buffer) + Len(wire)
         /\ \A i \in 1 .. Len(head) : Stream[i] = head[i]
         /\ \A i \in 1 .. Len(buffer) : Stream[Len(head) + i] = buffer[i]
         /\ \A i \in 1 .. Len(wire) : Stream[Len(head) + Len(buffer) + i] = wire[i]
<1>1. head \in Seq(Bytes) /\ buffer \in Seq(Bytes) /\ wire \in Seq(Bytes)
  BY DEF StreamType
<1>2. PICK front \in Seq(Bytes) : front = head \o buffer
  BY <1>1, Appended
<1>3. /\ Len(front) = Len(head) + Len(buffer)
      /\ \A i \in 1 .. Len(head) : front[i] = head[i]
      /\ \A i \in 1 .. Len(buffer) : front[Len(head) + i] = buffer[i]
  BY <1>1, <1>2, Appended
<1>4. Stream = front \o wire
  BY <1>2 DEF Stream
<1>5. /\ Stream \in Seq(Bytes) /\ Len(Stream) = Len(front) + Len(wire)
      /\ \A i \in 1 .. Len(front) : Stream[i] = front[i]
      /\ \A i \in 1 .. Len(wire) : Stream[Len(front) + i] = wire[i]
  BY <1>1, <1>2, <1>4, Appended
<1>6. Len(head) \in Nat /\ Len(buffer) \in Nat /\ Len(wire) \in Nat /\ Len(front) \in Nat
  BY <1>1, <1>2
<1>7. ASSUME NEW i \in 1 .. Len(head) PROVE Stream[i] = head[i]
  <2>1. i \in 1 .. Len(front)
    BY <1>3, <1>6
  <2> QED BY <1>3, <1>5, <2>1
<1>8. ASSUME NEW i \in 1 .. Len(buffer) PROVE Stream[Len(head) + i] = buffer[i]
  <2>1. Len(head) + i \in 1 .. Len(front)
    BY <1>3, <1>6
  <2> QED BY <1>3, <1>5, <2>1
<1> QED BY <1>3, <1>5, <1>6, <1>7, <1>8

\* Without a bad length, what mb_tcp_rx reads is the first message of the stream.
LEMMA StreamInSync == ASSUME StreamInv PROVE InSync
<1> USE DEF StreamInv
<1>1. pc = "body" => size <= MAX_PDU_SIZE
  BY DEF Progress
<1> SUFFICES ASSUME ~malformed
             PROVE  /\ pc = "idle" /\ wire # <<>> => wire[1][2] = 1
                    /\ pc = "length" => IsHeader(buffer)
                    /\ pc \in {"body", "protocol"} =>
                         /\ IsHeader(head)
                         /\ size = messages[head[1][1]].length - 1
                         /\ \A k \in DOMAIN buffer : buffer[k] = <<head[1][1], MBAP_HEADER_SIZE + k>>
                    /\ pc = "protocol" => Len(buffer) = size
  BY <1>1 DEF InSync
<1>2. /\ buffer \in Seq(Bytes) /\ head \in Seq(Bytes) /\ wire \in Seq(Bytes)
      /\ messages \in Seq(Messages) /\ size \in Nat
  BY DEF StreamType
<1>3. pc = "protocol" => Len(buffer) = size
  BY DEF Progress
<1>4. ASSUME Stream # <<>>
      PROVE  \E m \in 1 .. Len(messages), total \in Nat :
               /\ m = Stream[1][1] /\ total = MessageBytes(messages, m) /\ total <= Len(Stream)
               /\ \A k \in 1 .. total : Stream[k] = <<m, k>>
               /\ total < Len(Stream) => Stream[total + 1][2] = 1
  BY <1>2, <1>4, FirstMessage, StreamParts DEF Aligned
<1>5. ASSUME pc = "idle", wire # <<>> PROVE wire[1][2] = 1
  <2>1. Len(head) = 0 /\ Len(buffer) = 0 /\ Len(wire) >= 1
    BY <1>2, <1>5 DEF Progress
  <2>2. 1 \in 1 .. Len(wire) /\ Len(head) + Len(buffer) + 1 = 1
    BY <1>2, <2>1
  <2>3. Stream[1] = wire[1] /\ Len(Stream) >= 1
    BY <2>1, <2>2, StreamParts
  <2>4. Stream # <<>>
    BY <2>3
  <2> QED BY <2>3, <2>4 DEF Aligned
<1>6. ASSUME pc = "length" PROVE IsHeader(buffer)
  <2>1. Len(head) = 0 /\ Len(buffer) = MBAP_HEADER_SIZE
    BY <1>6 DEF Progress
  <2>2. Len(Stream) >= 1 /\ \A k \in 1 .. MBAP_HEADER_SIZE : Stream[k] = buffer[k]
    BY <2>1, StreamParts, Sizes
  <2>3. Stream # <<>>
    BY <2>2
  <2>4. PICK m \in 1 .. Len(messages), total \in Nat :
               /\ m = Stream[1][1] /\ total = MessageBytes(messages, m)
               /\ \A k \in 1 .. total : Stream[k] = <<m, k>>
    BY <1>4, <2>3
  <2>5. total >= MBAP_HEADER_SIZE
    BY <1>2, <2>4, MessageBytesTyped
  <2>6. \A k \in 1 .. MBAP_HEADER_SIZE : buffer[k] = <<m, k>>
    BY <2>2, <2>4, <2>5, Sizes
  <2>7. buffer[1][1] = m
    BY <2>6, Sizes
  <2> QED BY <2>1, <2>6, <2>7 DEF IsHeader
<1>7. ASSUME pc \in {"body", "protocol"}
      PROVE  /\ IsHeader(head)
             /\ size = messages[head[1][1]].length - 1
             /\ \A k \in DOMAIN buffer : buffer[k] = <<head[1][1], MBAP_HEADER_SIZE + k>>
  <2>1. Len(head) = MBAP_HEADER_SIZE /\ Len(buffer) <= size
    BY <1>7 DEF Progress
  <2>2. Len(Stream) >= 1 /\ \A k \in 1 .. MBAP_HEADER_SIZE : Stream[k] = head[k]
    BY <2>1, StreamParts, Sizes
  <2>3. Stream # <<>>
    BY <2>2
  <2>4. PICK m \in 1 .. Len(messages), total \in Nat :
               /\ m = Stream[1][1] /\ total = MessageBytes(messages, m)
               /\ \A k \in 1 .. total : Stream[k] = <<m, k>>
    BY <1>4, <2>3
  <2>5. total >= MBAP_HEADER_SIZE
    BY <1>2, <2>4, MessageBytesTyped
  <2>6. \A k \in 1 .. MBAP_HEADER_SIZE : head[k] = <<m, k>>
    BY <2>2, <2>4, <2>5, Sizes
  <2>7. head[1][1] = m
    BY <2>6, Sizes
  <2>8. messages[m].length >= 1 /\ size = messages[m].length - 1
    BY <1>7, <2>7 DEF Aligned
  <2>9. total = MBAP_HEADER_SIZE + size
    BY <1>2, <2>4, <2>8, MessageBytesTyped, Sizes
  <2>10. ASSUME NEW k \in 1 .. Len(buffer)
         PROVE  buffer[k] = <<m, MBAP_HEADER_SIZE + k>>
    <3>1. MBAP_HEADER_SIZE + k \in 1 .. total
      BY <1>2, <2>1, <2>9, Sizes
    <3>2. Stream[MBAP_HEADER_SIZE + k] = <<m, MBAP_HEADER_SIZE + k>>
      BY <2>4, <3>1
    <3>3. Stream[MBAP_HEADER_SIZE + k] = buffer[k]
      BY <2>1, StreamParts
    <3> QED BY <3>2, <3>3
  <2>11. DOMAIN buffer = 1 .. Len(buffer)
    BY <1>2
  <2> QED BY <2>1, <2>6, <2>7, <2>8, <2>10, <2>11 DEF IsHeader
<1> QED BY <1>3, <1>5, <1>6, <1>7

\* The facts on concatenation, for bytes.
LEMMA BytesAssociative ==
  \A a, b, c \in Seq(Bytes) : (a \o b) \o c = a \o (b \o c)
BY ConcatAssociative

\* The facts on appending, for bytes.
LEMMA BytesAppended ==
  \A s, t \in Seq(Bytes) :
    /\ s \o t \in Seq(Bytes) /\ Len(s \o t) = Len(s) + Len(t)
    /\ \A i \in 1 .. Len(s) : (s \o t)[i] = s[i]
    /\ \A i \in 1 .. Len(t) : (s \o t)[Len(s) + i] = t[i]
BY Appended

\* A step that moves no message and leaves the stream as it is
LEMMA StreamKept ==
  ASSUME StreamInv, StreamType', Progress', Aligned',
         Stream' = Stream, UNCHANGED messages
  PROVE  StreamInv'
BY Zenon DEF StreamInv, Contiguous, ContiguousAt, MessageBytes

\* A step after which nothing is in the stream
LEMMA StreamEmpty ==
  ASSUME StreamType', Progress', head' = <<>>, buffer' = <<>>, wire' = <<>>,
         pc' \notin {"body", "protocol"}
  PROVE  StreamInv'
<1>1. Stream' = <<>> /\ Len(Stream') = 0
  BY DEF Stream
<1>2. Aligned'
  BY <1>1 DEF Aligned
<1>3. Contiguous(Stream', messages')
  BY <1>1 DEF Contiguous
<1> QED BY <1>2, <1>3 DEF StreamInv, Contiguous, ContiguousAt, MessageBytes

\* A step keeps it.
LEMMA StreamStep == ASSUME SocketInv, StreamInv, [Next]_vars PROVE StreamInv'
<1> USE DEF netVars, histVars
<1>0. /\ StreamType /\ Progress /\ Contiguous(Stream, messages) /\ Aligned
      /\ buffer \in Seq(Bytes) /\ head \in Seq(Bytes) /\ wire \in Seq(Bytes)
      /\ messages \in Seq(Messages) /\ size \in Nat
  BY DEF StreamInv, StreamType
<1>1. CASE UNCHANGED vars
  BY <1>0, <1>1, StreamKept DEF vars, StreamType, Progress, Aligned, Stream
<1>2. CASE Bringup \/ Accept
  <2>1. /\ UNCHANGED <<is_down, size, buffer, head, wire, messages, malformed>>
        /\ pc \notin {"header", "length", "body", "protocol"}
        /\ pc' \notin {"header", "length", "body", "protocol"}
    BY <1>2 DEF Bringup, Accept, Open, GiveUp
  <2>2. StreamType' /\ Progress' /\ Aligned' /\ Stream' = Stream
    BY <1>0, <2>1 DEF StreamType, Progress, Aligned, Stream
  <2> QED BY <2>1, <2>2, StreamKept
<1>3. CASE Options \/ Connect
  <2>1. /\ is_down /\ pc' = "idle" /\ UNCHANGED <<size, buffer, head, messages>>
        /\ is_down' \in BOOLEAN /\ malformed' \in BOOLEAN
        /\ wire' = <<>> \/ wire' = wire
        /\ pc \notin {"header", "length", "body", "protocol"}
    BY <1>0, <1>3 DEF Options, Connect, Established, GiveUp, SocketInv, StreamType
  <2>2. head' = <<>> /\ buffer' = <<>> /\ wire' = <<>>
    BY <1>0, <2>1 DEF Progress
  <2>3. StreamType' /\ Progress'
    BY <1>0, <2>1, <2>2 DEF StreamType, Progress
  <2> QED BY <2>1, <2>2, <2>3, StreamEmpty
<1>4. CASE Shutdown \/ RecvFails \/ SendFails
  <2>1. /\ pc' = "idle" /\ size' = 0 /\ is_down' = TRUE
        /\ head' = <<>> /\ buffer' = <<>> /\ wire' = <<>>
        /\ UNCHANGED <<messages, malformed>>
    BY <1>4 DEF Shutdown, RecvFails, SendFails, CloseLink
  <2>2. StreamType' /\ Progress'
    BY <1>0, <2>1 DEF StreamType, Progress
  <2> QED BY <2>1, <2>2, StreamEmpty
<1>5. CASE RxReady
  <2>1. /\ pc = "idle" /\ ~is_down /\ pc' = "header" /\ size' = MBAP_HEADER_SIZE
        /\ buffer' = <<>> /\ UNCHANGED <<is_down, head, wire, messages, malformed>>
    BY <1>5 DEF RxReady
  <2>2. buffer = <<>> /\ head = <<>>
    BY <1>0, <2>1 DEF Progress
  <2>3. StreamType' /\ Progress' /\ Stream' = Stream
    BY <1>0, <2>1, <2>2, Sizes DEF StreamType, Progress, Stream
  <2>4. Aligned'
    BY <1>0, <2>1, <2>3 DEF Aligned
  <2> QED BY <2>1, <2>3, <2>4, StreamKept
<1>6. CASE Recv
  <2>1. /\ pc \in {"header", "body"} /\ UNCHANGED <<is_down, size, head, messages, malformed>>
        /\ Len(buffer) < size /\ ~is_down
    BY <1>6 DEF Recv, SocketInv, TransferPc
  <2>2. PICK n \in 1 .. Len(wire) :
          /\ n <= size - Len(buffer)
          /\ buffer' = buffer \o SubSeq(wire, 1, n)
          /\ wire' = SubSeq(wire, n + 1, Len(wire))
          /\ pc' = IF Loops(size - Len(buffer) - n) THEN pc
                   ELSE IF pc = "header" THEN "length" ELSE "protocol"
    BY <1>6 DEF Recv
  <2>3. Len(wire) \in Nat /\ n \in Nat /\ Len(buffer) \in Nat
    BY <1>0
  <2>4. /\ SubSeq(wire, 1, n) \in Seq(Bytes) /\ Len(SubSeq(wire, 1, n)) = n
        /\ SubSeq(wire, n + 1, Len(wire)) \in Seq(Bytes)
    BY <1>0, <2>3
  <2>5. SubSeq(wire, 1, n) \o SubSeq(wire, n + 1, Len(wire)) = wire
    <3>1. SubSeq(wire, 1, n) \o SubSeq(wire, n + 1, Len(wire)) = SubSeq(wire, 1, Len(wire))
      BY <1>0, <2>3, ConcatAdjacentSubSeq
    <3> QED BY <1>0, <3>1, SubSeqFull
  <2>6. buffer' \in Seq(Bytes) /\ wire' \in Seq(Bytes) /\ Len(buffer') = Len(buffer) + n
    BY <1>0, <2>2, <2>4, Appended
  <2>7. buffer' \o wire' = buffer \o wire
    <3>1. PICK x, y : /\ x = SubSeq(wire, 1, n) /\ y = SubSeq(wire, n + 1, Len(wire))
                      /\ x \in Seq(Bytes) /\ y \in Seq(Bytes)
      BY <2>4
    <3>2. x \o y = wire /\ buffer' = buffer \o x /\ wire' = y
      BY <2>2, <2>5, <3>1
    <3>3. (buffer \o x) \o y = buffer \o (x \o y)
      BY <1>0, <3>1, BytesAssociative
    <3> QED BY <3>2, <3>3
  <2>8. Stream' = Stream
    <3>1. Stream' = head \o (buffer' \o wire')
      BY <1>0, <2>1, <2>6, BytesAssociative, Zenon DEF Stream
    <3>2. Stream = head \o (buffer \o wire)
      BY <1>0, BytesAssociative, Zenon DEF Stream
    <3> QED BY <2>7, <3>1, <3>2
  <2>9. StreamType'
    BY <1>0, <2>1, <2>6 DEF StreamType
  <2>10. CASE size - Len(buffer) - n > 0
    <3>1. pc' = pc /\ Len(buffer') < size
      BY <1>0, <2>2, <2>3, <2>6, <2>10 DEF Loops
    <3>2. Progress'
      BY <1>0, <2>1, <3>1 DEF Progress
    <3>3. Aligned'
      BY <1>0, <2>1, <2>8, <3>1 DEF Aligned
    <3> QED BY <2>1, <2>8, <2>9, <3>2, <3>3, StreamKept
  <2>11. CASE ~(size - Len(buffer) - n > 0)
    <3>1. Len(buffer') = size
      <4>1. n <= size - Len(buffer) /\ size \in Nat
        BY <1>0, <2>2
      <4> QED BY <2>3, <2>6, <2>11, <4>1
    <3>2. \/ pc = "header" /\ pc' = "length"
          \/ pc = "body" /\ pc' = "protocol"
      BY <2>1, <2>2, <2>11 DEF Loops
    <3>3. Progress'
      BY <1>0, <2>1, <3>1, <3>2 DEF Progress
    <3>4. Aligned'
      BY <1>0, <2>1, <2>8, <3>2 DEF Aligned
    <3> QED BY <2>1, <2>8, <2>9, <3>3, <3>4, StreamKept
  <2> QED BY <2>10, <2>11
<1>7. CASE Length
  <2>1. /\ pc = "length" /\ pc' = "body" /\ head' = buffer /\ buffer' = <<>>
        /\ UNCHANGED <<is_down, wire, messages>>
    BY <1>7 DEF Length
  <2>2. PICK length \in (IF IsHeader(buffer) THEN {messages[buffer[1][1]].length} ELSE Lengths) :
          /\ size' = PduSize(length)
          /\ malformed' = (malformed \/ length = 0 \/ length - 1 > MAX_PDU_SIZE)
    BY <1>7 DEF Length
  <2>3. head = <<>> /\ Len(buffer) = MBAP_HEADER_SIZE /\ ~is_down
    BY <1>0, <2>1 DEF Progress, SocketInv, TransferPc
  <2>4. Stream' = Stream
    <3>1. head \o buffer = buffer /\ buffer \o buffer' = buffer
      BY <1>0, <2>1, <2>3, ConcatEmptySeq
    <3> QED BY <2>1, <3>1 DEF Stream
  <2>5. length \in Nat
    <3>1. CASE IsHeader(buffer)
      <4>1. 1 \in 1 .. Len(buffer) /\ buffer[1] = Stream[1] /\ Len(Stream) >= 1
        BY <1>0, <2>3, StreamParts, Sizes
      <4>2. ContiguousAt(Stream, messages, 1)
        BY <1>0, <4>1, StreamParts DEF Contiguous
      <4>3. buffer[1][1] \in 1 .. Len(messages)
        BY <4>1, <4>2 DEF ContiguousAt
      <4>4. length = messages[buffer[1][1]].length
        BY <2>2, <3>1
      <4> QED BY <1>0, <4>3, <4>4, MessageBytesTyped
    <3>2. CASE ~IsHeader(buffer)
      BY <2>2, <3>2, Sizes
    <3> QED BY <3>1, <3>2
  <2>6. size' \in Nat /\ size' <= MAX_PDU_SIZE
    BY <2>2, <2>5, Sizes DEF PduSize
  <2>7. StreamType'
    BY <1>0, <2>1, <2>2, <2>6 DEF StreamType
  <2>8. Progress'
    BY <2>1, <2>3, <2>6 DEF Progress
  <2>9. Aligned'
    <3> SUFFICES ASSUME ~malformed'
                 PROVE  /\ Stream # <<>> => Stream[1][2] = 1
                        /\ messages[buffer[1][1]].length >= 1
                        /\ size' = messages[buffer[1][1]].length - 1
      BY <2>1, <2>4 DEF Aligned
    <3>1. ~malformed /\ length # 0 /\ ~(length - 1 > MAX_PDU_SIZE)
      BY <2>2
    <3>2. IsHeader(buffer)
      BY <2>1, <3>1, StreamInSync DEF InSync
    <3>3. length = messages[buffer[1][1]].length
      BY <2>2, <3>2
    <3>4. size' = length - 1 /\ length >= 1
      BY <2>2, <2>5, <3>1 DEF PduSize
    <3> QED BY <1>0, <3>1, <3>3, <3>4 DEF Aligned
  <2> QED BY <2>1, <2>4, <2>7, <2>8, <2>9, StreamKept
<1>8. CASE Return
  <2>1. /\ pc = "protocol" /\ pc' = "idle" /\ size' = 0 /\ buffer' = <<>> /\ head' = <<>>
        /\ UNCHANGED <<is_down, wire, messages, malformed>>
    BY <1>8 DEF Return
  <2>2. Stream' = wire /\ Stream' \in Seq(Bytes)
    BY <1>0, <2>1 DEF Stream
  <2>3. PICK n \in Nat : n = Len(head) + Len(buffer)
    BY <1>0
  <2>4. /\ Stream \in Seq(Bytes) /\ Len(Stream) = n + Len(wire)
        /\ \A i \in 1 .. Len(wire) : Stream[n + i] = wire[i]
    BY <1>0, <2>3, StreamParts
  <2>5. Contiguous(wire, messages)
    BY <1>0, <2>4, ContiguousSuffix
  <2>6. Len(head) = MBAP_HEADER_SIZE /\ Len(buffer) = size /\ ~is_down
    BY <1>0, <2>1 DEF Progress, SocketInv, TransferPc
  <2>7. StreamType' /\ Progress'
    BY <1>0, <2>1, <2>6 DEF StreamType, Progress
  <2>8. ASSUME ~malformed, wire # <<>> PROVE wire[1][2] = 1
    <3>1. Len(wire) \in Nat /\ Len(wire) >= 1 /\ n >= 1 /\ n < Len(Stream) /\ Len(Stream) \in Nat
      BY <1>0, <2>3, <2>4, <2>6, <2>8, Sizes
    <3>2. Stream # <<>>
      BY <3>1
    <3>3. Stream[1][2] = 1
      BY <1>0, <2>8, <3>2 DEF Aligned
    <3>4. PICK m \in 1 .. Len(messages), total \in Nat :
               /\ m = Stream[1][1] /\ total = MessageBytes(messages, m)
               /\ total < Len(Stream) => Stream[total + 1][2] = 1
      BY <1>0, <2>4, <3>2, <3>3, FirstMessage
    <3>5. head[1] = Stream[1]
      BY <1>0, <2>6, StreamParts, Sizes
    <3>6. messages[m].length >= 1 /\ size = messages[m].length - 1
      BY <1>0, <2>1, <2>8, <3>4, <3>5 DEF Aligned
    <3>7. total = n
      BY <1>0, <2>3, <2>6, <3>4, <3>6, MessageBytesTyped, Sizes
    <3>8. Stream[n + 1][2] = 1
      BY <3>1, <3>4, <3>7
    <3>9. Stream[n + 1] = wire[1]
      BY <2>4, <3>1
    <3> QED BY <3>8, <3>9
  <2>9. Aligned'
    BY <2>1, <2>2, <2>8 DEF Aligned
  <2>10. Contiguous(Stream', messages')
    BY <2>1, <2>2, <2>5
  <2> QED BY <2>7, <2>9, <2>10 DEF StreamInv, Contiguous, ContiguousAt, MessageBytes
<1>9. CASE Tx \/ Send
  <2>1. /\ UNCHANGED <<is_down, buffer, head, wire, messages, malformed>>
        /\ pc \in {"idle", "send"} /\ pc' \in {"idle", "send"}
    BY <1>9 DEF Tx, Send
  <2>2. size' \in Nat
    BY <1>0, <1>9, Sizes DEF Tx, Send, Loops
  <2>3. StreamType' /\ Progress' /\ Stream' = Stream
    BY <1>0, <2>1, <2>2 DEF StreamType, Progress, Stream
  <2>4. Aligned'
    BY <1>0, <2>1, <2>3 DEF Aligned
  <2> QED BY <2>1, <2>3, <2>4, StreamKept
<1>10. CASE PeerTake \/ PeerClose
  <2>1. UNCHANGED <<is_down, pc, size, buffer, head, wire, messages, malformed>>
    BY <1>10 DEF PeerTake, PeerClose
  <2>2. StreamType' /\ Progress' /\ Stream' = Stream
    BY <1>0, <2>1 DEF StreamType, Progress, Stream
  <2>3. Aligned'
    BY <1>0, <2>1, <2>2 DEF Aligned
  <2> QED BY <2>1, <2>2, <2>3, StreamKept
<1>11. CASE PeerSend
  <2>1. /\ ~is_down /\ UNCHANGED <<is_down, pc, size, buffer, head, malformed>>
    BY <1>11 DEF PeerSend
  <2>2. PICK length \in Lengths :
          /\ messages' = Append(messages, [length |-> length])
          /\ wire' = wire \o [k \in 1 .. MBAP_HEADER_SIZE + (IF length = 0 THEN 0 ELSE length - 1)
                                |-> <<Len(messages) + 1, k>>]
    BY <1>11 DEF PeerSend
  <2>3. PICK n \in Nat : n = MBAP_HEADER_SIZE + (IF length = 0 THEN 0 ELSE length - 1) /\ n >= 1
    BY Sizes
  <2>4. PICK last \in Nat : last = Len(messages) + 1
    BY <1>0
  <2>5. PICK part : part = [k \in 1 .. n |-> <<last, k>>]
    OBVIOUS
  <2>6. wire' = wire \o part
    BY <2>2, <2>3, <2>4, <2>5, Zenon
  <2>7. part \in Seq(Bytes) /\ Len(part) = n /\ \A k \in 1 .. n : part[k] = <<last, k>>
    <3>1. \A k \in 1 .. n : part[k] = <<last, k>>
      BY <2>5, Zenon
    <3>2. \A k \in 1 .. n : <<last, k>> \in Bytes
      BY DEF Bytes
    <3>3. part \in [1 .. n -> Bytes]
      BY <2>5, <3>2, Zenon
    <3>4. part \in Seq(Bytes) /\ Len(part) = n
      BY <3>3
    <3> QED BY <3>1, <3>4
  <2>8. PICK e : e = [length |-> length] /\ e \in Messages /\ e.length = length
    <3>1. [length |-> length] \in Messages /\ [length |-> length].length = length
      BY DEF Messages
    <3> QED BY <3>1
  <2>9. messages' = Append(messages, e)
    BY <2>2, <2>8
  <2>10. /\ messages' \in Seq(Messages) /\ Len(messages') = last /\ messages'[last] = e
         /\ \A m \in 1 .. Len(messages) : messages'[m] = messages[m]
    BY <1>0, <2>4, <2>8, <2>9
  <2>11. n = MessageBytes(messages', last)
    BY <2>3, <2>8, <2>10 DEF MessageBytes
  <2>12. PICK s \in Seq(Bytes) : s = Stream
    BY <1>0, StreamParts
  <2>13. Stream' = s \o part
    <3>1. head \o buffer \in Seq(Bytes)
      BY <1>0, Appended
    <3>2. Stream' = (head \o buffer) \o (wire \o part)
      BY <2>1, <2>6 DEF Stream
    <3>3. s = (head \o buffer) \o wire
      BY <2>12 DEF Stream
    <3> QED BY <1>0, <2>7, <3>1, <3>2, <3>3, BytesAssociative, Zenon
  <2>14. PICK t \in Seq(Bytes) : /\ t = Stream' /\ Len(t) = Len(s) + n
                                 /\ \A i \in 1 .. Len(s) : t[i] = s[i]
                                 /\ \A i \in 1 .. n : t[Len(s) + i] = part[i]
    <3>1. PICK t : t = s \o part
      OBVIOUS
    <3>2. /\ t \in Seq(Bytes) /\ Len(t) = Len(s) + n
          /\ \A i \in 1 .. Len(s) : t[i] = s[i]
          /\ \A i \in 1 .. n : t[Len(s) + i] = part[i]
      <4>1. part \in Seq(Bytes) /\ Len(part) = n
        BY <2>7
      <4>2. /\ s \o part \in Seq(Bytes) /\ Len(s \o part) = Len(s) + Len(part)
            /\ \A i \in 1 .. Len(s) : (s \o part)[i] = s[i]
            /\ \A i \in 1 .. Len(part) : (s \o part)[Len(s) + i] = part[i]
        BY <4>1, BytesAppended, Zenon
      <4> QED BY <3>1, <4>1, <4>2
    <3> QED BY <2>13, <3>1, <3>2
  <2>15. \A i \in 1 .. n : t[Len(s) + i] = <<last, i>>
    BY <2>7, <2>14
  <2>16. Contiguous(t, messages')
    <3>1. PICK sent2 \in Seq(Messages) : sent2 = messages'
      BY <2>10
    <3>2. /\ Len(sent2) = last /\ n = MessageBytes(sent2, last)
          /\ \A m \in 1 .. Len(messages) : sent2[m] = messages[m]
      BY <2>10, <2>11, <3>1
    <3>3. Contiguous(s, messages)
      BY <1>0, <2>12
    <3>4. Contiguous(t, sent2)
      BY <1>0, <2>3, <2>4, <2>14, <2>15, <3>2, <3>3, ContiguousAppend
    <3> QED BY <3>1, <3>4
  <2>17. t # <<>> => t[1][2] = 1 \/ (s # <<>> /\ t[1] = s[1])
    <3>1. CASE Len(s) = 0
      <4>1. t[Len(s) + 1] = <<last, 1>> /\ Len(s) + 1 = 1
        BY <2>3, <2>15, <3>1
      <4> QED BY <4>1
    <3>2. CASE Len(s) # 0
      BY <2>14, <3>2
    <3> QED BY <3>1, <3>2
  <2>18. StreamType'
    <3>1. wire' \in Seq(Bytes)
      BY <1>0, <2>6, <2>7, Appended
    <3> QED BY <1>0, <2>1, <2>10, <3>1 DEF StreamType
  <2>19. Progress'
    BY <1>0, <2>1 DEF Progress
  <2>20. ASSUME pc \in {"body", "protocol"}
         PROVE  messages'[head[1][1]] = messages[head[1][1]]
    <3>1. Len(head) = MBAP_HEADER_SIZE
      BY <1>0, <2>20 DEF Progress
    <3>2. head[1] = Stream[1] /\ Len(Stream) >= 1 /\ 1 \in 1 .. Len(Stream)
      BY <1>0, <3>1, StreamParts, Sizes
    <3>3. ContiguousAt(Stream, messages, 1)
      BY <1>0, <3>2 DEF Contiguous
    <3>4. head[1][1] \in 1 .. Len(messages)
      BY <3>2, <3>3 DEF ContiguousAt
    <3> QED BY <2>10, <3>4
  <2>21. Aligned'
    <3> SUFFICES ASSUME ~malformed
                 PROVE  /\ t # <<>> => t[1][2] = 1
                        /\ pc \in {"body", "protocol"} =>
                             /\ messages'[head[1][1]].length >= 1
                             /\ size = messages'[head[1][1]].length - 1
      BY <2>1, <2>14 DEF Aligned
    <3> QED BY <1>0, <2>12, <2>17, <2>20 DEF Aligned
  <2> QED BY <2>14, <2>16, <2>18, <2>19, <2>21
          DEF StreamInv, Contiguous, ContiguousAt, MessageBytes
<1> QED BY <1>1, <1>2, <1>3, <1>4, <1>5, <1>6, <1>7, <1>8, <1>9, <1>10, <1>11
        DEF Next, Task, App

\* However recv cuts the stream up, mb_tcp_rx reads a message as its header and
\* then its body, and the next one from its first byte, as long as no length
\* field was 0 or too large; and the size of a body is never above what the
\* caller's buffer holds, whatever the peer announces.
THEOREM AlwaysInSync == Spec => []InSync
<1>1. Init => StreamInv
  <2> SUFFICES ASSUME Init PROVE StreamInv
    OBVIOUS
  <2>1. Stream = <<>> /\ Len(Stream) = 0
    BY DEF Init, Stream
  <2>2. StreamType
    <3>1. <<>> \in Seq(Bytes) /\ <<>> \in Seq(Messages)
      OBVIOUS
    <3>2. is_down = TRUE /\ malformed = FALSE /\ size = 0
      BY DEF Init
    <3>3. buffer = <<>> /\ head = <<>> /\ wire = <<>> /\ messages = <<>>
      BY DEF Init
    <3>4. buffer \in Seq(Bytes) /\ head \in Seq(Bytes) /\ wire \in Seq(Bytes) /\ messages \in Seq(Messages)
      BY <3>1, <3>3, Zenon
    <3> QED BY <3>2, <3>4 DEF StreamType
  <2>5. Progress
    BY DEF Init, Progress
  <2>3. Aligned
    BY <2>1 DEF Init, Aligned
  <2>4. Contiguous(Stream, messages)
    BY <2>1 DEF Contiguous
  <2> QED BY <2>2, <2>3, <2>4, <2>5 DEF StreamInv
<1>2. SocketInv /\ StreamInv /\ [Next]_vars => StreamInv'
  BY StreamStep
<1>3. StreamInv => InSync
  BY StreamInSync
<1> QED BY <1>1, <1>2, <1>3, SocketAlways, PTL DEF Spec
==============================================================================
