-------------------------- MODULE SocketSessionProofs --------------------------
(***************************************************************************)
(* Proofs about SocketSession, for texts of any lengths, parted in any way *)
(* that TextLens and Pieces allow: the connection carries whole messages,  *)
(* in order and once (MessageChannel), and no receiver takes a byte of the *)
(* next message.                                                           *)
(***************************************************************************)
EXTENDS SocketSession, SequenceTheorems, TLAPS

USE SessionConstants DEF LEN_COMMHEAD, LEN_MSGHEAD
-----------------------------------------------------------------------------
(* The inductive invariant.                                                 *)

\* The bytes that a text of m bytes becomes.
Size(m) == LEN_COMMHEAD + LEN_MSGHEAD + m

\* The i-th byte of the message m.
ByteOf(m, i) == <<m, i>>

Byte == {ByteOf(m, i) : m \in TextLens, i \in Nat}

\* The buffers, on a connection that is broken too: the sender has a whole
\* message or none, and the receiver knows no length without a byte.
BuffersOK ==
    /\ \/ send_buffer = <<>> /\ send_len = 0
       \/ \E m \in TextLens :
            send_buffer = Bytes(m) /\ send_len \in 0..Size(m) - 1
    /\ wire \in Seq(Byte)
    /\ recv_buffer \in Seq(Byte)
    /\ recv_buffer = <<>> => recv_body_len = 0

\* What the receiver has of the messages it has not given to proto, and what
\* is on its way to it.
Stream == recv_buffer \o wire

\* The messages sent whole that are not received, the k-th one of them, and
\* the place where they begin in the stream: pos[k] bytes come before the
\* message that follows the k-th one, and the last ones are the part of the
\* send_buffer that is sent.
InFlight == Len(handed) - Len(got)

Flying(k) == handed[Len(got) + k]

Ordered(pos, n) == \A j \in 0..n : \A k \in j..n : pos[j] <= pos[k]

Places(pos) ==
    /\ pos \in [0..InFlight -> 0..Len(Stream)]
    /\ pos[0] = 0
    /\ pos[InFlight] + send_len = Len(Stream)
    /\ Ordered(pos, InFlight)

Framed(pos) ==
    /\ \A k \in 1..InFlight :
          /\ pos[k] = pos[k - 1] + Size(Flying(k))
          /\ \A i \in 1..Size(Flying(k)) :
                Stream[pos[k - 1] + i] = ByteOf(Flying(k), i)
    /\ \A i \in 1..send_len : Stream[pos[InFlight] + i] = send_buffer[i]

StreamOK ==
    /\ Len(got) <= Len(handed)
    /\ \E pos \in [0..InFlight -> 0..Len(Stream)] : Places(pos) /\ Framed(pos)

\* The receiver knows the length as soon as it has the header, and then never
\* has the whole of the message.
ReceiverOK ==
    /\ recv_body_len = 0 => Len(recv_buffer) < LEN_COMMHEAD
    /\ recv_body_len > 0 =>
          /\ Len(recv_buffer) >= LEN_COMMHEAD
          /\ recv_body_len = LEN_MSGHEAD + recv_buffer[1][1]
          /\ Len(recv_buffer) < Size(recv_buffer[1][1])

SessionInv ==
    /\ TypeOK
    /\ BuffersOK
    /\ ~Broken => StreamOK /\ ReceiverOK

-----------------------------------------------------------------------------
(* Messages as bytes.                                                       *)

\* A byte is told by its message and its place.
LEMMA ByteParts ==
    /\ \A m, i : ByteOf(m, i)[1] = m
    /\ \A m \in TextLens, i \in Nat : ByteOf(m, i) \in Byte
    /\ \A b \in Byte : b[1] \in TextLens
  BY DEF ByteOf, Byte

\* What a message looks like.
LEMMA MessageBytes ==
    ASSUME NEW m \in TextLens
    PROVE  /\ m \in Nat
           /\ Bytes(m) \in Seq(Byte)
           /\ Len(Bytes(m)) = Size(m)
           /\ Size(m) \in Nat /\ Size(m) >= LEN_COMMHEAD + LEN_MSGHEAD
           /\ Bytes(m) # <<>>
           /\ \A i \in 1..Size(m) : Bytes(m)[i] = ByteOf(m, i)
<1>1. m \in Nat /\ Size(m) \in Nat /\ Size(m) >= LEN_COMMHEAD + LEN_MSGHEAD
  BY DEF Size
<1>2. Bytes(m) = [i \in 1..Size(m) |-> ByteOf(m, i)]
  BY DEF Bytes, Size, ByteOf
<1>3. \A i \in 1..Size(m) : ByteOf(m, i) \in Byte
  BY <1>1, ByteParts
<1>4. Bytes(m) \in [1..Size(m) -> Byte]
  BY <1>2, <1>3
<1>5. Bytes(m) \in Seq(Byte) /\ Len(Bytes(m)) = Size(m)
  BY <1>1, <1>4
<1> QED
  BY <1>1, <1>2, <1>5

\* The header of a message gives its length, and only that.
LEMMA HeaderOfMessage ==
    ASSUME NEW m \in TextLens, NEW b \in Seq(Byte), Len(b) >= LEN_COMMHEAD,
           \A i \in 1..LEN_COMMHEAD : b[i] = ByteOf(m, i)
    PROVE  Header(b) = {LEN_MSGHEAD + m}
<1>1. ASSUME NEW k \in TextLens
      PROVE  /\ SubSeq(Bytes(k), 1, LEN_COMMHEAD) \in Seq(Byte)
             /\ Len(SubSeq(Bytes(k), 1, LEN_COMMHEAD)) = LEN_COMMHEAD
             /\ \A i \in 1..LEN_COMMHEAD :
                   SubSeq(Bytes(k), 1, LEN_COMMHEAD)[i] = ByteOf(k, i)
  <2>1. \A i \in 1..LEN_COMMHEAD : Bytes(k)[i] = ByteOf(k, i) /\ Bytes(k)[i] \in Byte
    <3> SUFFICES ASSUME NEW i \in 1..LEN_COMMHEAD
                 PROVE  Bytes(k)[i] = ByteOf(k, i) /\ ByteOf(k, i) \in Byte
      OBVIOUS
    <3>1. i \in 1..Size(k)
      BY MessageBytes
    <3>2. Bytes(k)[i] = ByteOf(k, i)
      BY <3>1, MessageBytes
    <3>3. ByteOf(k, i) \in Byte
      <4>1. i \in Nat /\ k \in TextLens
        OBVIOUS
      <4>2. \A n \in TextLens, j \in Nat : ByteOf(n, j) \in Byte
        BY ByteParts
      <4> QED
        BY <4>1, <4>2
    <3> QED
      BY <3>2, <3>3
  <2> QED
    BY <2>1, SubSeqProperties
<1>2. /\ SubSeq(b, 1, LEN_COMMHEAD) \in Seq(Byte)
      /\ Len(SubSeq(b, 1, LEN_COMMHEAD)) = LEN_COMMHEAD
      /\ \A i \in 1..LEN_COMMHEAD : SubSeq(b, 1, LEN_COMMHEAD)[i] = ByteOf(m, i)
  <2>1. \A i \in 1..LEN_COMMHEAD : b[i] \in Byte
    <3>1. \A i \in 1..LEN_COMMHEAD : i \in Nat
      OBVIOUS
    <3> QED
      BY <3>1, ByteParts
  <2> QED
    BY <2>1, SubSeqProperties
<1>3. SubSeq(b, 1, LEN_COMMHEAD) = SubSeq(Bytes(m), 1, LEN_COMMHEAD)
  <2> DEFINE s == SubSeq(b, 1, LEN_COMMHEAD)
             t == SubSeq(Bytes(m), 1, LEN_COMMHEAD)
  <2>1. s \in Seq(Byte) /\ t \in Seq(Byte) /\ Len(s) = Len(t)
    BY <1>1, <1>2
  <2>2. ASSUME NEW i \in 1..LEN_COMMHEAD PROVE s[i] = t[i]
    BY <1>1, <1>2
  <2>3. Len(s) = LEN_COMMHEAD
    BY <1>2
  <2> HIDE DEF s, t
  <2>4. s = t
    BY <2>1, <2>2, <2>3, SeqEqual
  <2> QED
    BY <2>4 DEF s, t
<1>4. ASSUME NEW k \in TextLens,
             SubSeq(b, 1, LEN_COMMHEAD) = SubSeq(Bytes(k), 1, LEN_COMMHEAD)
      PROVE  k = m
  <2>1. ByteOf(m, 1) = ByteOf(k, 1)
    BY <1>1, <1>2, <1>4
  <2> QED
    BY <2>1, ByteParts
<1> QED
  BY <1>3, <1>4 DEF Header

\* A length is read of any bytes.
LEMMA HeaderIsLength ==
    ASSUME NEW b, NEW n \in Header(b)
    PROVE  n \in Nat
  BY DEF Header

-----------------------------------------------------------------------------
(* The stream.                                                              *)

\* Two sequences of bytes, one after the other.
LEMMA ConcatBytes ==
    ASSUME NEW s \in Seq(Byte), NEW t \in Seq(Byte)
    PROVE  /\ s \o t \in Seq(Byte)
           /\ Len(s \o t) = Len(s) + Len(t)
           /\ Len(s \o t) \in Nat /\ Len(s) \in Nat /\ Len(t) \in Nat
           /\ \A i \in 1..Len(s) : (s \o t)[i] = s[i]
           /\ \A i \in 1..Len(t) : (s \o t)[Len(s) + i] = t[i]
<1>1. Len(s) \in Nat /\ Len(t) \in Nat
  BY LenProperties
<1> QED
  BY <1>1, ConcatProperties

\* The stream is a sequence of bytes.
LEMMA StreamBytes ==
    ASSUME BuffersOK
    PROVE  /\ Stream \in Seq(Byte)
           /\ Len(Stream) = Len(recv_buffer) + Len(wire)
           /\ Len(Stream) \in Nat /\ Len(wire) \in Nat /\ Len(recv_buffer) \in Nat
           /\ \A i \in 1..Len(recv_buffer) : Stream[i] = recv_buffer[i]
           /\ \A i \in 1..Len(wire) : Stream[Len(recv_buffer) + i] = wire[i]
<1>1. recv_buffer \in Seq(Byte) /\ wire \in Seq(Byte)
  BY DEF BuffersOK
<1> QED
  BY <1>1, ConcatBytes DEF Stream

\* What recv does to it: the first bytes of the stream are now in the buffer.
Received(n) == recv_buffer \o SubSeq(wire, 1, n)

Rest(n) == SubSeq(wire, n + 1, Len(wire))

\* ... and the rest of it stays on the wire.
LEMMA ReceivedBytes ==
    ASSUME BuffersOK, NEW n \in 1..Len(wire)
    PROVE  /\ Received(n) \in Seq(Byte) /\ Rest(n) \in Seq(Byte)
           /\ Len(Received(n)) = Len(recv_buffer) + n
           /\ Len(Rest(n)) = Len(wire) - n
           /\ Received(n) \o Rest(n) = Stream
           /\ \A i \in 1..Len(Received(n)) : Received(n)[i] = Stream[i]
           /\ \A i \in 1..Len(Rest(n)) : Rest(n)[i] = Stream[Len(Received(n)) + i]
           /\ Received(n) # <<>>
<1> DEFINE s == SubSeq(wire, 1, n)
<1>1. recv_buffer \in Seq(Byte) /\ wire \in Seq(Byte)
  BY DEF BuffersOK
<1>2. Len(wire) \in Nat /\ Len(recv_buffer) \in Nat /\ n \in Nat /\ n >= 1
  BY <1>1, LenProperties
<1>3. \A i \in 1..Len(wire) : wire[i] \in Byte
  BY <1>1, ElementOfSeq
<1>4. s \in Seq(Byte) /\ Len(s) = n
  BY <1>2, <1>3, SubSeqProperties
<1>5. /\ Rest(n) \in Seq(Byte)
      /\ Len(Rest(n)) = Len(wire) - n
      /\ \A i \in 1..Len(Rest(n)) : Rest(n)[i] = wire[n + i]
  <2>1. n + 1 \in Int /\ Len(wire) \in Int
    BY <1>2
  <2>2. \A i \in n + 1..Len(wire) : wire[i] \in Byte
    BY <1>2, <1>3
  <2>3. /\ Rest(n) \in Seq(Byte)
        /\ Len(Rest(n)) = IF n + 1 <= Len(wire) THEN Len(wire) - (n + 1) + 1 ELSE 0
        /\ \A i \in 1..Len(wire) - (n + 1) + 1 :
              Rest(n)[i] = wire[(n + 1) + i - 1]
    BY <2>1, <2>2, SubSeqProperties DEF Rest
  <2> QED
    BY <1>2, <2>3
<1>6. s \o Rest(n) = wire
  <2>1. SubSeq(wire, 1, n) \o SubSeq(wire, n + 1, Len(wire))
          = SubSeq(wire, 1, Len(wire))
    BY <1>1, <1>2, ConcatAdjacentSubSeq
  <2> QED
    BY <1>1, <2>1, SubSeqFull DEF Rest
<1>7. /\ Received(n) \in Seq(Byte)
      /\ Len(Received(n)) = Len(recv_buffer) + n
  BY <1>1, <1>4, ConcatProperties DEF Received
<1>8. Received(n) \o Rest(n) = Stream
  <2> HIDE DEF s
  <2>1. (recv_buffer \o s) \o Rest(n) = recv_buffer \o (s \o Rest(n))
    <3>1. /\ recv_buffer \in Seq(Byte)
          /\ s \in Seq(Byte)
          /\ Rest(n) \in Seq(Byte)
      BY <1>1, <1>4, <1>5
    <3> QED
      BY ONLY <3>1, ConcatAssociative
  <2>2. Received(n) = recv_buffer \o s
    BY DEF Received, s
  <2> QED
    BY <1>6, <2>1, <2>2 DEF Stream
<1> HIDE DEF s
<1>9. /\ \A i \in 1..Len(Received(n)) :
            (Received(n) \o Rest(n))[i] = Received(n)[i]
      /\ \A i \in 1..Len(Rest(n)) :
            (Received(n) \o Rest(n))[Len(Received(n)) + i] = Rest(n)[i]
  <2>1. Len(Received(n)) \in Nat /\ Len(Rest(n)) \in Nat
    BY <1>2, <1>5, <1>7
  <2>2. \A i \in 1..Len(Received(n)) + Len(Rest(n)) :
          (Received(n) \o Rest(n))[i] =
             IF i <= Len(Received(n)) THEN Received(n)[i]
                                      ELSE Rest(n)[i - Len(Received(n))]
    BY <1>5, <1>7, ConcatProperties
  <2> QED
    BY <2>1, <2>2
<1>10. Received(n) # <<>>
  BY <1>2, <1>7, EmptySeq
<1> QED
  BY <1>5, <1>7, <1>8, <1>9, <1>10

\* The bytes of the first message come first.
LEMMA FirstMessage ==
    ASSUME TypeOK, BuffersOK, StreamOK, Stream # <<>>
    PROVE  \E m \in TextLens :
              /\ \A i \in 1..Len(Stream) :
                    i <= Size(m) => Stream[i] = ByteOf(m, i)
              /\ Len(Stream) >= Size(m) => InFlight >= 1 /\ m = Flying(1)
<1>1. PICK pos : Places(pos) /\ Framed(pos)
  BY DEF StreamOK
<1>2. InFlight \in Nat /\ Len(Stream) \in Nat /\ Len(Stream) > 0
  BY StreamBytes, EmptySeq, LenProperties DEF TypeOK, StreamOK, InFlight
<1>3. CASE InFlight >= 1
  <2> DEFINE m == Flying(1)
  <2>1. 1 \in 1..InFlight
    BY <1>2, <1>3
  <2>2. m \in TextLens
    BY <1>3, LenProperties, ElementOfSeq DEF TypeOK, InFlight, Flying
  <2>3. pos[0] = 0
    BY <1>1 DEF Places
  <2>4. \A i \in 1..Size(m) : Stream[pos[1 - 1] + i] = ByteOf(m, i)
    BY <1>1, <2>1 DEF Framed
  <2>5. \A i \in 1..Size(m) : Stream[i] = ByteOf(m, i)
    BY <2>3, <2>4
  <2> HIDE DEF m
  <2>6. \A i \in 1..Len(Stream) : i <= Size(m) => Stream[i] = ByteOf(m, i)
    BY <1>2, <2>2, <2>5, MessageBytes
  <2> QED
    BY <1>3, <2>2, <2>6 DEF m
<1>4. CASE InFlight = 0
  <2>1. Len(Stream) = send_len
    BY <1>1, <1>2, <1>4 DEF Places, TypeOK
  <2>2. PICK m \in TextLens : send_buffer = Bytes(m) /\ send_len \in 0..Size(m) - 1
    BY <1>2, <2>1 DEF BuffersOK
  <2>3. \A i \in 1..send_len : Stream[0 + i] = send_buffer[i]
    BY <1>1, <1>4 DEF Framed, Places
  <2>4. \A i \in 1..Len(Stream) : Stream[i] = ByteOf(m, i)
    BY <2>1, <2>2, <2>3, MessageBytes
  <2>5. Len(Stream) < Size(m)
    BY <2>1, <2>2, MessageBytes
  <2> QED
    BY <1>2, <2>2, <2>4, <2>5, MessageBytes
<1> QED
  BY <1>2, <1>3, <1>4

-----------------------------------------------------------------------------
(* Places.                                                                  *)

\* The places new are those of pos for n messages, and one more ...
OneMore(new, pos, n, top) ==
    /\ new \in [0..n + 1 -> 0..top]
    /\ \A k \in 0..n : new[k] = pos[k]
    /\ new[n + 1] = top
    /\ Ordered(new, n + 1)

\* ... or without the first one, which has the first bytes of the stream.
OneLess(new, pos, n, top) ==
    /\ new \in [0..n - 1 -> 0..top - pos[1]]
    /\ \A k \in 0..n - 1 : new[k] = pos[k + 1] - pos[1]
    /\ Ordered(new, n - 1)

\* Both are places again.
LEMMA PlacesMore ==
    ASSUME NEW N \in Nat, NEW L \in Nat, NEW K \in Nat, L <= K,
           NEW pos \in [0..N -> 0..L],
           Ordered(pos, N)
    PROVE  \E new : OneMore(new, pos, N, K)
<1> DEFINE new == [k \in 0..N + 1 |-> IF k <= N THEN pos[k] ELSE K]
<1>1. \A k \in 0..N : k \in 0..N + 1 /\ new[k] = pos[k] /\ pos[k] \in 0..K
  OBVIOUS
<1>2. new[N + 1] = K
  OBVIOUS
<1>3. new \in [0..N + 1 -> 0..K]
  OBVIOUS
<1> HIDE DEF new
<1>4. ASSUME NEW j \in 0..N + 1, NEW k \in j..N + 1 PROVE new[j] <= new[k]
  <2>1. CASE k \in 0..N
    <3>1. j \in 0..N /\ k \in j..N
      BY <2>1
    <3> QED
      BY <1>1, <3>1 DEF Ordered
  <2>2. CASE k = N + 1
    <3>1. new[j] \in 0..K
      BY <1>3
    <3> QED
      BY <1>2, <2>2, <3>1
  <2> QED
    BY <2>1, <2>2
<1> QED
  BY <1>1, <1>2, <1>3, <1>4 DEF Ordered, OneMore

\* The bytes of the first message are at most all of them.
LEMMA PlacesLess ==
    ASSUME NEW N \in Nat, N >= 1, NEW L \in Nat,
           NEW pos \in [0..N -> 0..L],
           Ordered(pos, N)
    PROVE  \E new : OneLess(new, pos, N, L)
<1> DEFINE new == [k \in 0..N - 1 |-> pos[k + 1] - pos[1]]
<1>1. \A k \in 0..N - 1 : new[k] = pos[k + 1] - pos[1]
  OBVIOUS
<1>2. pos[1] \in 0..L
  OBVIOUS
<1>3. ASSUME NEW k \in 0..N - 1 PROVE pos[k + 1] - pos[1] \in 0..L - pos[1]
  <2>1. k + 1 \in 1..N /\ 1 \in 0..N /\ k + 1 \in 0..N
    OBVIOUS
  <2>2. pos[1] <= pos[k + 1] /\ pos[k + 1] \in 0..L
    BY <2>1 DEF Ordered
  <2> QED
    BY <1>2, <2>2
<1>4. new \in [0..N - 1 -> 0..L - pos[1]]
  BY <1>3
<1> HIDE DEF new
<1>5. ASSUME NEW j \in 0..N - 1, NEW k \in j..N - 1 PROVE new[j] <= new[k]
  <2>1. /\ j + 1 \in 0..N /\ k + 1 \in j + 1..N
        /\ k \in 0..N - 1 /\ k + 1 \in 0..N
    OBVIOUS
  <2>2. pos[j + 1] <= pos[k + 1] /\ pos[j + 1] \in Int /\ pos[k + 1] \in Int
    BY <2>1 DEF Ordered
  <2> QED
    BY <1>1, <1>2, <2>1, <2>2
<1> QED
  BY <1>1, <1>4, <1>5 DEF Ordered, OneLess

-----------------------------------------------------------------------------
(* What the receiver reads.                                                 *)

\* The lengths that may be known after recv has given n bytes.
Bodies(n) ==
    IF recv_body_len > 0 THEN {recv_body_len}
    ELSE IF Len(Received(n)) < LEN_COMMHEAD THEN {0} ELSE Header(Received(n))

Asked == IF Wanted < Len(wire) THEN Wanted ELSE Len(wire)

\* The receiver never has more than one message, and knows its length as soon
\* as the header is there: the 15 bytes it may have when it asks for a header
\* again are not more than the shortest message.
LEMMA Reads ==
    ASSUME TypeOK, BuffersOK, StreamOK, ReceiverOK,
           NEW n \in 1..Len(wire), n \in Taken(Asked), NEW body \in Bodies(n)
    PROVE  \E m \in TextLens :
              /\ Len(Received(n)) <= Size(m)
              /\ \A i \in 1..Len(Received(n)) : Received(n)[i] = ByteOf(m, i)
              /\ Len(Received(n)) < LEN_COMMHEAD => body = 0
              /\ Len(Received(n)) >= LEN_COMMHEAD => body = LEN_MSGHEAD + m
              /\ Len(Received(n)) = Size(m) => InFlight >= 1 /\ m = Flying(1)
<1> DEFINE b == Received(n)
<1>1. /\ b \in Seq(Byte) /\ b # <<>>
      /\ Len(b) = Len(recv_buffer) + n
      /\ \A i \in 1..Len(b) : b[i] = Stream[i]
  BY ReceivedBytes
<1>2. /\ Len(Stream) = Len(recv_buffer) + Len(wire)
      /\ Len(wire) \in Nat /\ Len(recv_buffer) \in Nat
      /\ \A i \in 1..Len(recv_buffer) : Stream[i] = recv_buffer[i]
  BY StreamBytes
<1>3. n \in Nat /\ n >= 1 /\ n <= Len(wire) /\ n <= Wanted
  <2>1. n <= Asked
    BY DEF Taken
  <2>2. n <= Wanted
    BY <1>2, <2>1 DEF Asked, Wanted, total_recv_len, TypeOK
  <2> QED
    BY <1>2, <2>2
<1>4. Stream # <<>>
  BY <1>2, <1>3, EmptySeq
<1>5. PICK m \in TextLens :
         /\ \A i \in 1..Len(Stream) : i <= Size(m) => Stream[i] = ByteOf(m, i)
         /\ Len(Stream) >= Size(m) => InFlight >= 1 /\ m = Flying(1)
  BY <1>4, FirstMessage
<1>6. m \in Nat /\ Size(m) = LEN_COMMHEAD + LEN_MSGHEAD + m
  BY DEF Size
<1> HIDE DEF b
<1>7. recv_body_len > 0 =>
         /\ recv_body_len = LEN_MSGHEAD + m
         /\ Len(recv_buffer) >= LEN_COMMHEAD
  <2> SUFFICES ASSUME recv_body_len > 0
               PROVE  /\ recv_body_len = LEN_MSGHEAD + m
                      /\ Len(recv_buffer) >= LEN_COMMHEAD
    OBVIOUS
  <2>1. /\ Len(recv_buffer) >= LEN_COMMHEAD
        /\ recv_body_len = LEN_MSGHEAD + recv_buffer[1][1]
    BY DEF ReceiverOK
  <2>2. 1 \in 1..Len(recv_buffer) /\ 1 \in 1..Len(Stream) /\ 1 <= Size(m)
    BY <1>2, <1>6, <2>1
  <2>3. recv_buffer[1] = ByteOf(m, 1)
    BY <1>2, <1>5, <2>2
  <2> QED
    BY <2>1, <2>3, ByteParts
<1>8. Len(b) <= Size(m)
  <2>1. CASE recv_body_len > 0
    BY <1>1, <1>2, <1>3, <1>6, <1>7, <2>1 DEF Wanted, total_recv_len
  <2>2. CASE recv_body_len = 0
    <3>1. Len(recv_buffer) < LEN_COMMHEAD
      BY <2>2 DEF ReceiverOK
    <3>2. n <= LEN_COMMHEAD
      BY <1>2, <1>3, <2>2 DEF Wanted, total_recv_len
    <3> QED
      BY <1>1, <1>2, <1>3, <1>6, <3>1, <3>2
  <2> QED
    BY <2>1, <2>2 DEF TypeOK
<1>9. \A i \in 1..Len(b) : b[i] = ByteOf(m, i)
  BY <1>1, <1>2, <1>3, <1>5, <1>6, <1>8
<1>10. Len(b) < LEN_COMMHEAD => body = 0
  <2>1. Len(b) < LEN_COMMHEAD => recv_body_len = 0
    BY <1>1, <1>2, <1>3, <1>7 DEF TypeOK
  <2> QED
    BY <2>1 DEF Bodies, b
<1>11. Len(b) >= LEN_COMMHEAD => body = LEN_MSGHEAD + m
  <2> SUFFICES ASSUME Len(b) >= LEN_COMMHEAD
               PROVE  body = LEN_MSGHEAD + m
    OBVIOUS
  <2>1. CASE recv_body_len > 0
    BY <1>7, <2>1 DEF Bodies
  <2>2. CASE recv_body_len = 0
    <3>1. ~(Len(b) < LEN_COMMHEAD)
      BY <1>1, <1>2, <1>3
    <3>2. body \in Header(b)
      BY <2>2, <3>1 DEF Bodies, b
    <3>3. \A i \in 1..LEN_COMMHEAD : b[i] = ByteOf(m, i)
      BY <1>1, <1>2, <1>3, <1>9
    <3>4. Header(b) = {LEN_MSGHEAD + m}
      BY <1>1, <3>3, HeaderOfMessage
    <3> QED
      BY <3>2, <3>4
  <2> QED
    BY <2>1, <2>2 DEF TypeOK
<1>12. Len(b) = Size(m) => InFlight >= 1 /\ m = Flying(1)
  BY <1>1, <1>2, <1>3, <1>5, <1>6
<1> QED
  BY <1>8, <1>9, <1>10, <1>11, <1>12 DEF b

-----------------------------------------------------------------------------
(* The steps.                                                               *)

\* A stream that is left as it is.
LEMMA StreamLeft ==
    ASSUME StreamOK, UNCHANGED <<handed, got, send_len>>, Stream' = Stream,
           \A i \in 1..send_len : send_buffer'[i] = send_buffer[i]
    PROVE  StreamOK'
<1>1. PICK pos \in [0..InFlight -> 0..Len(Stream)] : Places(pos) /\ Framed(pos)
  BY DEF StreamOK
<1>2. InFlight' = InFlight /\ \A k : Flying(k)' = Flying(k)
  BY DEF InFlight, Flying
<1>3. Places(pos)'
  BY <1>1, <1>2 DEF Places
<1>4. Framed(pos)'
  BY <1>1, <1>2 DEF Framed
<1> QED
  BY <1>1, <1>2, <1>3, <1>4 DEF StreamOK

\* A connection that is closed, and the next one.
LEMMA ResetStep ==
    ASSUME SessionInv, NEW b \in Seq(Byte), NEW body \in Nat,
           b = <<>> => body = 0,
           Fail, Reused(b, body), UNCHANGED end
    PROVE  SessionInv'
<1>1. /\ send_buffer' = <<>> /\ send_len' = 0 /\ wire' = <<>>
      /\ handed' = <<>> /\ got' = <<>> /\ torn' = FALSE
  BY DEF Fail
<1>2. \/ recv_buffer' = b /\ recv_body_len' = body /\ stale' = (b # <<>>)
         /\ end = "wserver"
      \/ recv_buffer' = <<>> /\ recv_body_len' = 0 /\ stale' = FALSE
  BY DEF Reused, CleanRecvBuffer
<1>3. TypeOK'
  <2>1. <<>> \in Seq(TextLens)
    BY EmptySeq
  <2>2. send_len' \in 0..Len(send_buffer')
    BY <1>1
  <2>3. recv_body_len' \in Nat
    BY <1>2
  <2>4. stale' \in BOOLEAN
    BY <1>2, Zenon
  <2> QED
    BY <1>1, <2>1, <2>2, <2>3, <2>4 DEF SessionInv, TypeOK
<1>5. BuffersOK'
  BY <1>1, <1>2, EmptySeq DEF BuffersOK
<1>6. ASSUME ~Broken' PROVE StreamOK' /\ ReceiverOK'
  <2>1. recv_buffer' = <<>> /\ recv_body_len' = 0
    BY <1>2, <1>6 DEF Broken
  <2>2. ReceiverOK'
    BY <2>1, EmptySeq DEF ReceiverOK
  <2>3. Len(Stream)' = 0
    BY <1>1, <2>1 DEF Stream
  <2>4. InFlight' = 0
    BY <1>1 DEF InFlight
  <2> DEFINE pos == [k \in 0..0 |-> 0]
  <2>5. pos \in [0..0 -> 0..0]
    OBVIOUS
  <2>6. Places(pos)'
    BY <1>1, <2>3, <2>4 DEF Places
  <2>7. Framed(pos)'
    BY <1>1, <2>4 DEF Framed
  <2>8. (Len(got) <= Len(handed))'
    BY <1>1
  <2> QED
    BY <2>2, <2>3, <2>4, <2>5, <2>6, <2>7, <2>8 DEF StreamOK
<1> QED
  BY <1>3, <1>5, <1>6 DEF SessionInv

\* A message is formatted over one of which nothing was sent, or the
\* connection is broken.
LEMMA FormatStep ==
    ASSUME SessionInv, NEW m \in TextLens, FormatSendHead(m)
    PROVE  SessionInv'
<1>1. /\ send_buffer' = Bytes(m) /\ send_len' = 0
      /\ torn' = (torn \/ send_len > 0)
      /\ UNCHANGED <<end, handed, wire, recvVars, stale>>
  BY DEF FormatSendHead
<1>2. Len(Bytes(m)) = Size(m) /\ Size(m) \in Nat /\ Size(m) >= 1
  BY MessageBytes
<1>3. TypeOK'
  BY <1>1, <1>2 DEF SessionInv, TypeOK, recvVars
<1>5. BuffersOK'
  BY <1>1, <1>2 DEF SessionInv, BuffersOK, recvVars
<1>6. ASSUME ~Broken' PROVE StreamOK' /\ ReceiverOK'
  <2>1. send_len = 0 /\ ~Broken
    <3>1. ~torn' /\ ~stale'
      BY <1>6 DEF Broken
    <3>2. ~torn /\ ~stale /\ ~(send_len > 0)
      BY <1>1, <3>1, Zenon
    <3>3. send_len \in Nat
      BY DEF SessionInv, TypeOK
    <3> QED
      BY <3>2, <3>3 DEF Broken
  <2>2. StreamOK /\ ReceiverOK
    BY <2>1 DEF SessionInv
  <2>3. Stream' = Stream
    BY <1>1 DEF Stream, recvVars
  <2>4. StreamOK'
    BY <1>1, <2>1, <2>2, <2>3, StreamLeft DEF recvVars
  <2>5. ReceiverOK'
    BY <1>1, <2>2 DEF ReceiverOK, recvVars
  <2> QED
    BY <2>4, <2>5
<1> QED
  BY <1>3, <1>5, <1>6 DEF SessionInv

\* A part of a message is sent: the stream grows at its end, and with the last
\* part the message is one of those in flight.
LEMMA SendBytes ==
    ASSUME TypeOK, BuffersOK, NEW n, SendSocketData(n)
    PROVE  /\ n \in Nat /\ n >= 1 /\ send_len + n <= Len(send_buffer)
           /\ send_buffer # <<>>
           /\ wire' \in Seq(Byte)
           /\ Len(wire') = Len(wire) + n
           /\ \A i \in 1..Len(wire) : wire'[i] = wire[i]
           /\ \A i \in 1..n : wire'[Len(wire) + i] = send_buffer[send_len + i]
<1>1. send_len \in Nat /\ send_buffer \in Seq(Byte) /\ wire \in Seq(Byte)
  <2>1. wire \in Seq(Byte)
    BY DEF BuffersOK
  <2>2. CASE send_buffer = <<>> /\ send_len = 0
    BY <2>1, <2>2, EmptySeq
  <2>3. ASSUME NEW m \in TextLens,
               send_buffer = Bytes(m), send_len \in 0..Size(m) - 1
        PROVE  send_len \in Nat /\ send_buffer \in Seq(Byte)
    BY <2>3, MessageBytes
  <2> QED
    BY <2>1, <2>2, <2>3 DEF BuffersOK
<1>2. Len(wire) \in Nat /\ Len(send_buffer) \in Nat
  BY <1>1, LenProperties
<1>3. n \in 1..Len(send_buffer) - send_len
  BY <1>1, <1>2 DEF SendSocketData, Taken
<1>4. send_buffer # <<>>
  BY <1>1, <1>2, <1>3, EmptySeq
<1> DEFINE x == SubSeq(send_buffer, send_len + 1, send_len + n)
<1>5. /\ x \in Seq(Byte)
      /\ Len(x) = n
      /\ \A i \in 1..n : x[i] = send_buffer[send_len + i]
  <2>1. \A i \in send_len + 1..send_len + n : send_buffer[i] \in Byte
    BY <1>1, <1>2, <1>3, ElementOfSeq
  <2>2. /\ x \in Seq(Byte)
        /\ Len(x) = IF send_len + 1 <= send_len + n
                    THEN send_len + n - (send_len + 1) + 1 ELSE 0
        /\ \A i \in 1..send_len + n - (send_len + 1) + 1 :
              x[i] = send_buffer[send_len + 1 + i - 1]
    BY <1>1, <1>2, <1>3, <2>1, SubSeqProperties
  <2> QED
    BY <1>1, <1>2, <1>3, <2>2
<1>6. wire' = wire \o x
  BY DEF SendSocketData
<1> HIDE DEF x
<1>7. /\ wire' \in Seq(Byte)
      /\ Len(wire') = Len(wire) + Len(x)
      /\ \A i \in 1..Len(wire) + Len(x) :
            wire'[i] = IF i <= Len(wire) THEN wire[i] ELSE x[i - Len(wire)]
  BY <1>1, <1>5, <1>6, ConcatProperties
<1>8. \A i \in 1..n : wire'[Len(wire) + i] = x[i]
  BY <1>2, <1>3, <1>5, <1>7
<1>9. n \in Nat /\ n >= 1 /\ send_len + n <= Len(send_buffer)
  BY <1>1, <1>2, <1>3
<1>10. Len(wire') = Len(wire) + n /\ \A i \in 1..Len(wire) : wire'[i] = wire[i]
  BY <1>2, <1>5, <1>7, <1>9
<1>11. \A i \in 1..n : wire'[Len(wire) + i] = send_buffer[send_len + i]
  BY <1>5, <1>8
<1> QED
  BY <1>4, <1>7, <1>9, <1>10, <1>11

\* The stream after it.
LEMMA SendStream ==
    ASSUME TypeOK, BuffersOK, BuffersOK', NEW n, SendSocketData(n)
    PROVE  /\ Len(Stream') = Len(Stream) + n
           /\ \A i \in 1..Len(Stream) : Stream'[i] = Stream[i]
           /\ \A i \in 1..n : Stream'[Len(Stream) + i] = send_buffer[send_len + i]
<1>1. recv_buffer' = recv_buffer
  BY DEF SendSocketData, recvVars
<1>2. /\ Len(wire') = Len(wire) + n
      /\ \A i \in 1..Len(wire) : wire'[i] = wire[i]
      /\ \A i \in 1..n : wire'[Len(wire) + i] = send_buffer[send_len + i]
      /\ n \in Nat
  BY SendBytes
<1>3. /\ Len(Stream) = Len(recv_buffer) + Len(wire)
      /\ Len(wire) \in Nat /\ Len(recv_buffer) \in Nat
      /\ \A i \in 1..Len(recv_buffer) : Stream[i] = recv_buffer[i]
      /\ \A i \in 1..Len(wire) : Stream[Len(recv_buffer) + i] = wire[i]
  BY StreamBytes
<1>4. /\ Len(Stream') = Len(recv_buffer') + Len(wire')
      /\ \A i \in 1..Len(recv_buffer') : Stream'[i] = recv_buffer'[i]
      /\ \A i \in 1..Len(wire') : Stream'[Len(recv_buffer') + i] = wire'[i]
  <2>1. recv_buffer' \in Seq(Byte) /\ wire' \in Seq(Byte)
    BY DEF BuffersOK
  <2> QED
    BY <2>1, ConcatBytes DEF Stream
<1>5. ASSUME NEW i \in 1..Len(Stream) PROVE Stream'[i] = Stream[i]
  <2>1. CASE i <= Len(recv_buffer)
    BY <1>1, <1>3, <1>4, <2>1
  <2>2. CASE i > Len(recv_buffer)
    <3>1. PICK j \in 1..Len(wire) : i = Len(recv_buffer) + j
      BY SMTT(30), <1>3, <2>2
    <3>2. Stream'[Len(recv_buffer') + j] = wire'[j]
      BY <1>2, <1>3, <1>4
    <3> QED
      BY <1>1, <1>2, <1>3, <3>1, <3>2
  <2> QED
    BY <1>3, <2>1, <2>2
<1>6. ASSUME NEW i \in 1..n
      PROVE  Stream'[Len(Stream) + i] = send_buffer[send_len + i]
  <2>1. Len(wire) + i \in 1..Len(wire')
    BY <1>2, <1>3
  <2>2. Stream'[Len(recv_buffer') + (Len(wire) + i)] = wire'[Len(wire) + i]
    BY <1>4, <2>1
  <2>3. Len(Stream) + i = Len(recv_buffer') + (Len(wire) + i)
    BY <1>1, <1>3
  <2> QED
    BY <1>2, <2>2, <2>3
<1>7. Len(Stream') = Len(Stream) + n
  BY <1>1, <1>2, <1>3, <1>4
<1> QED
  BY <1>5, <1>6, <1>7

\* The message that is sent, and the cases of SendSocketData.
LEMMA SendCases ==
    ASSUME TypeOK, BuffersOK, NEW n, SendSocketData(n)
    PROVE  \E m \in TextLens :
              /\ send_buffer = Bytes(m)
              /\ Len(send_buffer) = Size(m) /\ Size(m) \in Nat
              /\ send_buffer[1][1] = m
              /\ \/ /\ send_len + n < Size(m)
                    /\ send_len' = send_len + n
                    /\ UNCHANGED <<send_buffer, handed>>
                 \/ /\ send_len + n = Size(m)
                    /\ send_len' = 0
                    /\ send_buffer' = <<>>
                    /\ handed' = Append(handed, m)
<1>1. /\ n \in Nat /\ send_len + n <= Len(send_buffer)
      /\ send_buffer # <<>>
  BY SendBytes
<1>2. PICK m \in TextLens : send_buffer = Bytes(m)
  BY <1>1 DEF BuffersOK
<1>3. /\ Len(send_buffer) = Size(m) /\ Size(m) \in Nat
      /\ 1 \in 1..Size(m)
  BY <1>2, MessageBytes
<1>4. send_buffer[1][1] = m
  BY <1>2, <1>3, MessageBytes, ByteParts
<1>5. send_len + n < Size(m) \/ send_len + n = Size(m)
  BY <1>1, <1>3 DEF TypeOK
<1>6. IF send_len + n < Size(m)
      THEN send_len' = send_len + n /\ UNCHANGED <<send_buffer, handed>>
      ELSE /\ send_len' = 0
           /\ send_buffer' = <<>>
           /\ handed' = Append(handed, m)
  BY <1>3, <1>4 DEF SendSocketData
<1> QED
  BY <1>2, <1>3, <1>4, <1>5, <1>6

\* The variables keep their types, and the buffers their contents.
LEMMA SendTypes ==
    ASSUME TypeOK, BuffersOK, NEW n, SendSocketData(n)
    PROVE  TypeOK' /\ BuffersOK'
<1>1. PICK m \in TextLens :
         /\ send_buffer = Bytes(m)
         /\ Len(send_buffer) = Size(m) /\ Size(m) \in Nat
         /\ \/ /\ send_len + n < Size(m)
               /\ send_len' = send_len + n
               /\ UNCHANGED <<send_buffer, handed>>
            \/ /\ send_len + n = Size(m)
               /\ send_len' = 0
               /\ send_buffer' = <<>>
               /\ handed' = Append(handed, m)
  BY SendCases
<1>2. n \in Nat /\ n >= 1 /\ wire' \in Seq(Byte) /\ send_len \in Nat
  BY SendBytes DEF TypeOK
<1>3. UNCHANGED <<end, torn, recvVars, stale>>
  BY DEF SendSocketData
<1>4. send_len' \in 0..Len(send_buffer') /\ handed' \in Seq(TextLens)
  <2>1. CASE send_len + n < Size(m)
    BY <1>1, <1>2, <2>1 DEF TypeOK
  <2>2. CASE send_len + n = Size(m)
    <3>1. send_len' = 0 /\ send_buffer' = <<>> /\ handed' = Append(handed, m)
      BY <1>1, <2>2
    <3>2. Append(handed, m) \in Seq(TextLens)
      BY AppendProperties DEF TypeOK
    <3> QED
      BY <3>1, <3>2, EmptySeq
  <2> QED
    BY <1>1, <2>1, <2>2
<1>5. \/ send_buffer' = <<>> /\ send_len' = 0
      \/ send_buffer' = Bytes(m) /\ send_len' \in 0..Size(m) - 1
  BY <1>1, <1>2
<1> QED
  BY <1>2, <1>3, <1>4, <1>5 DEF TypeOK, BuffersOK, recvVars

\* The messages in flight stay where they are, and the part of the send_buffer
\* that is sent now follows the part that was sent before.
LEMMA SendFrames ==
    ASSUME TypeOK, BuffersOK, BuffersOK', NEW n, SendSocketData(n),
           NEW pos, Places(pos), Framed(pos), Len(got) <= Len(handed)
    PROVE  /\ \A k \in 1..InFlight : \A i \in 1..Size(Flying(k)) :
                 Stream'[pos[k - 1] + i] = ByteOf(Flying(k), i)
           /\ \A i \in 1..send_len + n : Stream'[pos[InFlight] + i] = send_buffer[i]
<1>1. /\ n \in Nat /\ send_len \in Nat /\ Len(Stream) \in Nat /\ InFlight \in Nat
      /\ \A i \in 1..Len(Stream) : Stream'[i] = Stream[i]
      /\ \A i \in 1..n : Stream'[Len(Stream) + i] = send_buffer[send_len + i]
  <2>1. Len(handed) \in Nat /\ Len(got) \in Nat
    BY LenProperties DEF TypeOK
  <2> QED
    BY <2>1, SendBytes, SendStream, StreamBytes DEF TypeOK, InFlight
<1>2. ASSUME NEW k \in 1..InFlight, NEW i \in 1..Size(Flying(k))
      PROVE  Stream'[pos[k - 1] + i] = ByteOf(Flying(k), i)
  <2>1. /\ Flying(k) \in TextLens /\ Size(Flying(k)) \in Nat
    <3>1. Len(got) + k \in 1..Len(handed)
      BY <1>1, LenProperties DEF InFlight, TypeOK
    <3>2. Flying(k) \in TextLens
      BY <3>1, ElementOfSeq DEF Flying, TypeOK
    <3> QED
      BY <3>2, MessageBytes
  <2>2. /\ pos[k] = pos[k - 1] + Size(Flying(k))
        /\ Stream[pos[k - 1] + i] = ByteOf(Flying(k), i)
    BY DEF Framed
  <2>3. pos[k] \in 0..Len(Stream) /\ pos[k - 1] \in 0..Len(Stream)
    BY SMTT(30), <1>1 DEF Places
  <2>4. pos[k - 1] + i \in 1..Len(Stream)
    BY SMTT(30), <1>1, <2>1, <2>2, <2>3
  <2> QED
    BY <1>1, <2>2, <2>4
<1>3. ASSUME NEW i \in 1..send_len + n
      PROVE  Stream'[pos[InFlight] + i] = send_buffer[i]
  <2>1. /\ pos[InFlight] \in 0..Len(Stream)
        /\ pos[InFlight] + send_len = Len(Stream)
    BY <1>1 DEF Places
  <2>2. CASE i <= send_len
    <3>1. Stream[pos[InFlight] + i] = send_buffer[i]
      BY <1>1, <2>2 DEF Framed
    <3>2. pos[InFlight] + i \in 1..Len(Stream)
      BY <1>1, <2>1, <2>2
    <3> QED
      BY <1>1, <3>1, <3>2
  <2>3. CASE i > send_len
    <3>1. PICK j \in 1..n : i = send_len + j
      <4>1. send_len \in Int /\ n \in Int
        BY <1>1
      <4>2. i - send_len \in 1..n /\ i = send_len + (i - send_len)
        BY <1>3, <2>3, <4>1
      <4> QED
        BY <4>2
    <3>2. Stream'[Len(Stream) + j] = send_buffer[send_len + j]
      BY <1>1
    <3>3. pos[InFlight] + i = Len(Stream) + j
      <4>1. j \in Int /\ send_len \in Int /\ pos[InFlight] \in Int
        BY <1>1, <2>1
      <4> QED
        BY <2>1, <3>1, <4>1
    <3>4. Stream'[pos[InFlight] + i] = Stream'[Len(Stream) + j]
      BY <3>3
    <3>5. send_buffer[i] = send_buffer[send_len + j]
      BY <3>1
    <3> QED
      BY <3>2, <3>4, <3>5
  <2> QED
    BY <1>1, <2>2, <2>3
<1> QED
  BY <1>2, <1>3

\* A part of a message, or the last one, goes into the stream.
LEMMA SendStreamOK ==
    ASSUME TypeOK, BuffersOK, StreamOK, NEW n, SendSocketData(n)
    PROVE  StreamOK'
<1>1. TypeOK' /\ BuffersOK'
  BY SendTypes
<1>2. PICK pos : Places(pos) /\ Framed(pos)
  BY DEF StreamOK
<1>3. Len(got) <= Len(handed)
  BY DEF StreamOK
<1>4. /\ n \in Nat /\ send_len \in Nat
      /\ Len(Stream) \in Nat
      /\ Len(Stream') = Len(Stream) + n
      /\ Len(handed) \in Nat /\ Len(got) \in Nat
      /\ InFlight \in Nat /\ InFlight = Len(handed) - Len(got)
      /\ got' = got
  <2>1. Len(handed) \in Nat /\ Len(got) \in Nat
    BY LenProperties DEF TypeOK
  <2>2. got' = got
    BY DEF SendSocketData, recvVars
  <2> QED
    BY <1>1, <1>3, <2>1, <2>2, SendBytes, SendStream, StreamBytes
       DEF TypeOK, InFlight
<1>11. PICK N : N = InFlight /\ N \in Nat
  BY <1>4
<1>5. /\ pos[0] = 0
      /\ pos \in [0..N -> 0..Len(Stream)]
      /\ pos[N] + send_len = Len(Stream)
      /\ Ordered(pos, N)
      /\ \A k \in 1..N : pos[k] = pos[k - 1] + Size(Flying(k))
  BY <1>2, <1>11 DEF Places, Framed
<1>6. /\ \A k \in 1..N : \A i \in 1..Size(Flying(k)) :
            Stream'[pos[k - 1] + i] = ByteOf(Flying(k), i)
      /\ \A i \in 1..send_len + n : Stream'[pos[N] + i] = send_buffer[i]
  BY <1>1, <1>2, <1>3, <1>11, SendFrames
<1>7. PICK m \in TextLens :
         /\ send_buffer = Bytes(m)
         /\ Len(send_buffer) = Size(m) /\ Size(m) \in Nat
         /\ \/ /\ send_len + n < Size(m)
               /\ send_len' = send_len + n
               /\ UNCHANGED <<send_buffer, handed>>
            \/ /\ send_len + n = Size(m)
               /\ send_len' = 0
               /\ send_buffer' = <<>>
               /\ handed' = Append(handed, m)
  BY SendCases
<1>10. pos[N] \in Nat /\ Len(Stream') \in Nat
       /\ pos[N] + (send_len + n) = Len(Stream')
  <2>1. pos[N] \in 0..Len(Stream)
    BY <1>5, <1>11
  <2>2. /\ Len(Stream') = Len(Stream) + n
        /\ n \in Nat /\ send_len \in Nat /\ Len(Stream) \in Nat
    BY <1>4
  <2>3. pos[N] + send_len = Len(Stream)
    BY <1>5
  <2> QED
    BY <2>1, <2>2, <2>3
<1>8. CASE /\ send_len' = send_len + n
           /\ UNCHANGED <<send_buffer, handed>>
  <2>1. InFlight' = N
    BY <1>4, <1>8, <1>11 DEF InFlight
  <2>2. pos \in [0..N -> 0..Len(Stream')]
    <3>1. 0..Len(Stream) \subseteq 0..Len(Stream')
      BY <1>4
    <3> QED
      BY <1>5, <3>1
  <2>3. pos[N] + send_len' = Len(Stream')
    BY <1>8, <1>10
  <2>4. Places(pos)'
    <3>1. InFlight' = N
      BY <2>1
    <3>2. /\ pos \in [0..InFlight' -> 0..Len(Stream')]
          /\ pos[InFlight'] + send_len' = Len(Stream')
      BY <2>2, <2>3, <3>1
    <3>3. pos[0] = 0
      BY <1>5
    <3>4. Ordered(pos, InFlight')
      BY <1>5, <3>1, Zenon
    <3> QED
      BY <3>2, <3>3, <3>4 DEF Places
  <2>5. Framed(pos)'
    <3>1. InFlight' = N /\ send_buffer' = send_buffer /\ send_len' = send_len + n
      BY <1>8, <2>1
    <3>2. \A k : Flying(k)' = Flying(k)
      BY <1>4, <1>8 DEF Flying
    <3>3. ASSUME NEW k \in 1..InFlight'
          PROVE  /\ pos[k] = pos[k - 1] + Size(Flying(k)')
                 /\ \A i \in 1..Size(Flying(k)') :
                       Stream'[pos[k - 1] + i] = ByteOf(Flying(k)', i)
      BY <1>5, <1>6, <3>1, <3>2
    <3>4. \A i \in 1..send_len' : Stream'[pos[InFlight'] + i] = send_buffer'[i]
      BY <1>6, <3>1
    <3> QED
      BY <3>3, <3>4 DEF Framed
  <2> QED
    BY <1>3, <1>4, <1>8, <2>1, <2>2, <2>4, <2>5 DEF StreamOK
<1>9. CASE /\ send_len + n = Size(m)
           /\ send_len' = 0
           /\ handed' = Append(handed, m)
  <2>1. /\ Len(handed') = Len(handed) + 1
        /\ \A k \in 1..Len(handed) : handed'[k] = handed[k]
        /\ handed'[Len(handed) + 1] = m
    BY <1>9, AppendProperties DEF TypeOK
  <2>2. InFlight' = N + 1
    BY <1>4, <1>11, <2>1 DEF InFlight
  <2>3. ASSUME NEW k \in 1..N PROVE Flying(k)' = Flying(k)
    <3>1. Len(got) + k \in 1..Len(handed)
      BY <1>4, <1>11
    <3> QED
      BY <1>4, <2>1, <3>1 DEF Flying
  <2>4. Flying(N + 1)' = m
    <3>1. Len(got) + (N + 1) = Len(handed) + 1
      BY <1>4, <1>11
    <3> QED
      BY <1>4, <2>1, <3>1 DEF Flying
  <2>5. Len(Stream') = pos[N] + Size(m)
    BY <1>9, <1>10
  <2>6. PICK new :
           /\ new \in [0..N + 1 -> 0..Len(Stream')]
           /\ \A k \in 0..N : new[k] = pos[k]
           /\ new[N + 1] = Len(Stream')
           /\ Ordered(new, N + 1)
    <3>1. /\ Len(Stream) \in Nat /\ Len(Stream) <= Len(Stream')
      BY <1>4
    <3>2. /\ N \in Nat /\ Len(Stream') \in Nat
          /\ pos \in [0..N -> 0..Len(Stream)]
      BY <1>5, <1>10, <1>11
    <3>3. Ordered(pos, N)
      BY <1>5
    <3>4. \E new : OneMore(new, pos, N, Len(Stream'))
      BY <3>1, <3>2, <3>3, PlacesMore
    <3> QED
      BY <3>4 DEF OneMore
  <2>8. new[0] = 0 /\ new[InFlight'] + send_len' = Len(Stream')
    BY <1>5, <1>9, <1>11, <2>2, <2>6
  <2>9. Places(new)'
    BY <2>2, <2>6, <2>8 DEF Places
  <2>10. ASSUME NEW k \in 1..N + 1
         PROVE  /\ new[k] = new[k - 1] + Size(Flying(k)')
                /\ \A i \in 1..Size(Flying(k)') :
                      Stream'[new[k - 1] + i] = ByteOf(Flying(k)', i)
    <3>1. CASE k \in 1..N
      <4>1. new[k] = pos[k] /\ new[k - 1] = pos[k - 1]
        <5>1. k \in 0..N /\ k - 1 \in 0..N
          BY <1>11, <3>1
        <5> QED
          BY <2>6, <5>1
      <4> QED
        BY <1>5, <1>6, <2>3, <3>1, <4>1
    <3>2. CASE k = N + 1
      <4>1. new[k] = pos[N] + Size(m) /\ new[k - 1] = pos[N] /\ Flying(k)' = m
        BY <1>11, <2>4, <2>5, <2>6, <3>2
      <4>2. \A i \in 1..Size(m) : Stream'[pos[N] + i] = ByteOf(m, i)
        BY <1>6, <1>7, <1>9, MessageBytes
      <4> QED
        BY <4>1, <4>2
    <3> QED
      BY <1>11, <3>1, <3>2
  <2>11. Framed(new)'
    BY <1>9, <2>2, <2>10 DEF Framed
  <2>12. (Len(got) <= Len(handed))'
    BY <1>3, <1>4, <2>1
  <2> QED
    BY <2>2, <2>6, <2>9, <2>11, <2>12 DEF StreamOK
<1> QED
  BY <1>7, <1>8, <1>9

\* Sending keeps the invariant.
LEMMA SendStep ==
    ASSUME SessionInv, NEW n, SendSocketData(n)
    PROVE  SessionInv'
<1>1. TypeOK' /\ BuffersOK'
  BY SendTypes DEF SessionInv
<1>2. UNCHANGED <<end, torn, recvVars, stale>>
  BY DEF SendSocketData
<1>4. ASSUME ~Broken' PROVE StreamOK' /\ ReceiverOK'
  <2>1. ~Broken
    BY <1>2, <1>4 DEF Broken
  <2>2. StreamOK'
    BY <2>1, SendStreamOK DEF SessionInv
  <2>3. ReceiverOK'
    BY <1>2, <2>1 DEF SessionInv, ReceiverOK, recvVars
  <2> QED
    BY <2>2, <2>3
<1> QED
  BY <1>1, <1>4 DEF SessionInv

\* The cases of ReceiveSocketData: the session is closed, a message is whole,
\* or more of it is still to come.
Closes(n) ==
    /\ Fail
    /\ Reused(Received(n), 0)
    /\ UNCHANGED end

Completes(n, body) ==
    /\ Len(Received(n)) = LEN_COMMHEAD + body
    /\ got' = Append(got, Last(Received(n))[1])
    /\ recv_buffer' = <<>> /\ recv_body_len' = 0

Gathers(n, body) ==
    /\ Len(Received(n)) # LEN_COMMHEAD + body
    /\ recv_buffer' = Received(n) /\ recv_body_len' = body
    /\ UNCHANGED got

LEMMA ReceiveCases ==
    ASSUME NEW n, ReceiveSocketData(n)
    PROVE  /\ n \in Taken(Asked)
           /\ \E body \in Bodies(n) :
                 \/ /\ Len(Received(n)) >= LEN_COMMHEAD /\ body = 0
                    /\ Closes(n)
                 \/ /\ wire' = Rest(n)
                    /\ UNCHANGED <<end, sendVars, stale>>
                    /\ Completes(n, body) \/ Gathers(n, body)
  BY DEF ReceiveSocketData, Asked, Bodies, Received, Rest, Closes, Completes,
         Gathers, AfterDoProtocol, CleanRecvBuffer

\* The variables keep their types, whatever is read.
LEMMA ReceiveTypes ==
    ASSUME SessionInv, NEW n \in 1..Len(wire), NEW body \in Bodies(n),
           wire' = Rest(n), UNCHANGED <<end, sendVars, stale>>,
           Completes(n, body) \/ Gathers(n, body)
    PROVE  TypeOK' /\ BuffersOK'
<1>1. TypeOK /\ BuffersOK
  BY DEF SessionInv
<1>2. /\ Received(n) \in Seq(Byte) /\ Received(n) # <<>>
      /\ Rest(n) \in Seq(Byte)
  BY <1>1, ReceivedBytes
<1>3. body \in Nat
  BY <1>1, HeaderIsLength DEF Bodies, TypeOK
<1>4. /\ recv_body_len' \in Nat
      /\ recv_buffer' \in Seq(Byte)
      /\ recv_buffer' = <<>> => recv_body_len' = 0
  <2>1. CASE Completes(n, body)
    BY <2>1, EmptySeq DEF Completes
  <2>2. CASE Gathers(n, body)
    BY <1>2, <1>3, <2>2 DEF Gathers
  <2> QED
    BY <2>1, <2>2
<1>5. got' \in Seq(TextLens)
  <2>1. Last(Received(n)) \in Byte
    <3>1. Len(Received(n)) \in 1..Len(Received(n))
      BY <1>2, EmptySeq, LenProperties
    <3> QED
      BY <1>2, <3>1, ElementOfSeq DEF Last
  <2>2. Last(Received(n))[1] \in TextLens
    BY <2>1, ByteParts
  <2>3. Append(got, Last(Received(n))[1]) \in Seq(TextLens)
    BY <1>1, <2>2, AppendProperties DEF TypeOK
  <2> QED
    BY <1>1, <2>3 DEF Completes, Gathers, TypeOK
<1>6. UNCHANGED <<end, send_buffer, send_len, handed, torn, stale>>
  BY DEF sendVars
<1>7. TypeOK'
  BY <1>1, <1>4, <1>5, <1>6 DEF TypeOK
<1>9. BuffersOK'
  BY <1>1, <1>2, <1>4, <1>6 DEF BuffersOK
<1> QED
  BY <1>7, <1>9

\* More of a message is there.
LEMMA GatherStep ==
    ASSUME TypeOK, BuffersOK, StreamOK, ReceiverOK,
           NEW n \in 1..Len(wire), n \in Taken(Asked), NEW body \in Bodies(n),
           wire' = Rest(n), UNCHANGED <<end, sendVars, stale>>,
           Gathers(n, body)
    PROVE  StreamOK' /\ ReceiverOK'
<1> DEFINE b == Received(n)
<1>1. /\ b \in Seq(Byte) /\ b # <<>>
      /\ b \o Rest(n) = Stream
  BY ReceivedBytes
<1>2. recv_buffer' = b /\ recv_body_len' = body /\ got' = got
  BY DEF Gathers
<1>3. UNCHANGED <<send_buffer, send_len, handed>>
  BY DEF sendVars
<1>4. StreamOK'
  <2>1. Stream' = Stream
    BY <1>1, <1>2 DEF Stream
  <2> QED
    BY <1>2, <1>3, <2>1, StreamLeft
<1>5. PICK m \in TextLens :
         /\ Len(b) <= Size(m)
         /\ \A i \in 1..Len(b) : b[i] = ByteOf(m, i)
         /\ Len(b) < LEN_COMMHEAD => body = 0
         /\ Len(b) >= LEN_COMMHEAD => body = LEN_MSGHEAD + m
  BY Reads
<1>6. Len(b) \in Nat /\ Len(b) >= 1 /\ m \in Nat
      /\ Size(m) = LEN_COMMHEAD + LEN_MSGHEAD + m
  BY <1>1, EmptySeq, LenProperties DEF Size
<1>7. Len(b) # LEN_COMMHEAD + body
  BY DEF Gathers
<1>8. b[1][1] = m
  <2>1. b[1] = ByteOf(m, 1)
    BY <1>5, <1>6
  <2> QED
    BY <2>1, ByteParts
<1> HIDE DEF b
<1>9. CASE Len(b) < LEN_COMMHEAD
  BY <1>2, <1>4, <1>5, <1>9 DEF ReceiverOK
<1>10. CASE Len(b) >= LEN_COMMHEAD
  <2>1. body = LEN_MSGHEAD + m
    BY <1>5, <1>10
  <2>2. Len(b) < Size(m)
    BY <1>5, <1>6, <1>7, <2>1
  <2> QED
    BY <1>2, <1>4, <1>6, <1>8, <1>10, <2>1, <2>2 DEF ReceiverOK
<1> QED
  BY <1>6, <1>9, <1>10

\* A message is whole: it is the first of those in flight, and its bytes leave
\* the stream.
LEMMA CompleteStep ==
    ASSUME TypeOK, BuffersOK, StreamOK, ReceiverOK, BuffersOK',
           NEW n \in 1..Len(wire), n \in Taken(Asked), NEW body \in Bodies(n),
           wire' = Rest(n), UNCHANGED <<end, sendVars, stale>>,
           Completes(n, body)
    PROVE  /\ InFlight >= 1
           /\ got' = Append(got, Flying(1))
           /\ StreamOK'
           /\ ReceiverOK'
<1> DEFINE b == Received(n)
<1>1. /\ b \in Seq(Byte)
      /\ Len(b) \in Nat /\ Len(b) >= 1
      /\ Len(Stream) = Len(b) + Len(Rest(n))
      /\ Len(Stream) \in Nat /\ Len(Rest(n)) \in Nat
      /\ \A i \in 1..Len(Rest(n)) : Rest(n)[i] = Stream[Len(b) + i]
  <2>1. /\ b \in Seq(Byte) /\ b # <<>> /\ Rest(n) \in Seq(Byte)
        /\ b \o Rest(n) = Stream
        /\ \A i \in 1..Len(Rest(n)) : Rest(n)[i] = Stream[Len(b) + i]
    BY ReceivedBytes
  <2> HIDE DEF b
  <2>2. /\ Len(b \o Rest(n)) = Len(b) + Len(Rest(n))
        /\ Len(b) \in Nat /\ Len(Rest(n)) \in Nat
    BY <2>1, ConcatBytes
  <2> QED
    BY <2>1, <2>2, EmptySeq
<1>2. /\ Len(b) = LEN_COMMHEAD + body
      /\ got' = Append(got, b[Len(b)][1])
      /\ recv_buffer' = <<>> /\ recv_body_len' = 0
  BY DEF Completes, Last
<1>3. UNCHANGED <<send_buffer, send_len, handed>>
  BY DEF sendVars
<1>4. PICK m \in TextLens :
         /\ Len(b) <= Size(m)
         /\ \A i \in 1..Len(b) : b[i] = ByteOf(m, i)
         /\ Len(b) < LEN_COMMHEAD => body = 0
         /\ Len(b) >= LEN_COMMHEAD => body = LEN_MSGHEAD + m
         /\ Len(b) = Size(m) => InFlight >= 1 /\ m = Flying(1)
  BY Reads
<1> HIDE DEF b
<1>5. Len(b) = Size(m) /\ InFlight >= 1 /\ m = Flying(1)
  <2>1. Len(b) >= LEN_COMMHEAD
    BY <1>1, <1>2, <1>4
  <2>2. Len(b) = Size(m)
    BY <1>2, <1>4, <2>1 DEF Size
  <2> QED
    BY <1>4, <2>2
<1>6. got' = Append(got, Flying(1))
  <2>1. b[Len(b)] = ByteOf(m, Len(b))
    BY <1>1, <1>4
  <2> QED
    BY <1>2, <1>5, <2>1, ByteParts
<1>7. ReceiverOK'
  BY <1>2, EmptySeq DEF ReceiverOK
<1>8. /\ Len(handed) \in Nat /\ Len(got) \in Nat
      /\ InFlight = Len(handed) - Len(got)
      /\ Len(got') = Len(got) + 1
  <2>1. Len(handed) \in Nat /\ Len(got) \in Nat
    BY LenProperties DEF TypeOK
  <2>2. Flying(1) \in TextLens
    BY <1>5
  <2> QED
    BY <1>6, <2>1, <2>2, AppendProperties DEF InFlight, TypeOK
<1>9. PICK N : N = InFlight /\ N \in Nat /\ N >= 1
  BY <1>5, <1>8
<1>10. InFlight' = N - 1
  BY <1>3, <1>8, <1>9 DEF InFlight
<1>11. ASSUME NEW k \in 1..N - 1 PROVE Flying(k)' = Flying(k + 1)
  <2>1. Len(got') + k = Len(got) + (k + 1)
    BY <1>8, <1>9
  <2> QED
    BY <1>3, <2>1 DEF Flying
<1>12. PICK pos : Places(pos) /\ Framed(pos)
  BY DEF StreamOK
<1>13. /\ pos[0] = 0
       /\ pos \in [0..N -> 0..Len(Stream)]
       /\ pos[N] + send_len = Len(Stream)
       /\ Ordered(pos, N)
       /\ \A k \in 1..N :
             /\ pos[k] = pos[k - 1] + Size(Flying(k))
             /\ \A i \in 1..Size(Flying(k)) :
                   Stream[pos[k - 1] + i] = ByteOf(Flying(k), i)
       /\ \A i \in 1..send_len : Stream[pos[N] + i] = send_buffer[i]
  BY <1>9, <1>12 DEF Places, Framed
<1>14. pos[1] = Len(b) /\ 1 \in 0..N
  <2>1. pos[1] = pos[1 - 1] + Size(Flying(1))
    BY <1>9, <1>13
  <2>2. pos[1 - 1] = 0
    BY <1>13
  <2> QED
    BY <1>1, <1>5, <1>9, <2>1, <2>2
<1>15. PICK new : OneLess(new, pos, N, Len(Stream))
  BY <1>1, <1>9, <1>13, PlacesLess
<1>16. /\ new \in [0..N - 1 -> 0..Len(Stream) - Len(b)]
       /\ \A k \in 0..N - 1 : new[k] = pos[k + 1] - Len(b)
       /\ Ordered(new, N - 1)
  BY <1>14, <1>15 DEF OneLess
<1>17. /\ Len(Stream') = Len(Stream) - Len(b)
       /\ Len(Stream') \in Nat
       /\ \A i \in 1..Len(Stream') : Stream'[i] = Stream[Len(b) + i]
  <2>1. wire' \in Seq(Byte)
    BY DEF BuffersOK
  <2>2. <<>> \o wire' = wire'
    BY <2>1, ConcatEmptySeq
  <2>3. Stream' = Rest(n)
    BY <1>2, <2>2 DEF Stream
  <2> QED
    BY <1>1, <2>3
<1>18. Places(new)'
  <2>1. /\ new \in [0..InFlight' -> 0..Len(Stream')]
        /\ Ordered(new, InFlight')
    BY <1>10, <1>16, <1>17
  <2>2. new[0] = 0
    BY <1>1, <1>9, <1>14, <1>16
  <2>3. new[InFlight'] + send_len' = Len(Stream')
    <3>1. new[N - 1] = pos[N] - Len(b)
      BY <1>9, <1>16
    <3>2. pos[N] \in 0..Len(Stream)
      BY <1>9, <1>13
    <3>3. send_len \in Nat /\ send_len' = send_len
      BY <1>3 DEF TypeOK
    <3> QED
      BY <1>1, <1>10, <1>13, <1>17, <3>1, <3>2, <3>3
  <2> QED
    BY <2>1, <2>2, <2>3 DEF Places
<1>19. ASSUME NEW k \in 1..N - 1
       PROVE  /\ new[k] = new[k - 1] + Size(Flying(k)')
              /\ \A i \in 1..Size(Flying(k)') :
                    Stream'[new[k - 1] + i] = ByteOf(Flying(k)', i)
  <2>1. k + 1 \in 1..N /\ k \in 0..N /\ k \in 0..N - 1 /\ k - 1 \in 0..N - 1
    BY <1>9
  <2>2. new[k] = pos[k + 1] - Len(b) /\ new[k - 1] = pos[k] - Len(b)
    BY <1>9, <1>16, <2>1
  <2>3. /\ pos[k + 1] = pos[k] + Size(Flying(k + 1))
        /\ \A i \in 1..Size(Flying(k + 1)) :
              Stream[pos[k] + i] = ByteOf(Flying(k + 1), i)
    <3>1. (k + 1) - 1 = k
      BY <1>9
    <3>2. /\ pos[k + 1] = pos[(k + 1) - 1] + Size(Flying(k + 1))
          /\ \A i \in 1..Size(Flying(k + 1)) :
                Stream[pos[(k + 1) - 1] + i] = ByteOf(Flying(k + 1), i)
      BY <1>13, <2>1
    <3> QED
      BY <3>1, <3>2
  <2>4. /\ pos[k] \in Nat /\ pos[k + 1] \in 0..Len(Stream)
        /\ new[k - 1] \in Nat
    <3>1. pos[k] \in 0..Len(Stream) /\ pos[k + 1] \in 0..Len(Stream)
      BY <1>13, <2>1
    <3>2. new[k - 1] \in 0..Len(Stream) - Len(b)
      BY <1>16, <2>1
    <3> QED
      BY <3>1, <3>2
  <2>5. Size(Flying(k + 1)) \in Nat
    <3>1. Len(got) + (k + 1) \in 1..Len(handed)
      BY <1>8, <1>9, <2>1
    <3>2. Flying(k + 1) \in TextLens
      BY <3>1, ElementOfSeq DEF Flying, TypeOK
    <3> QED
      BY <3>2, MessageBytes, Zenon
  <2>6. ASSUME NEW i \in 1..Size(Flying(k + 1))
        PROVE  Stream'[new[k - 1] + i] = ByteOf(Flying(k + 1), i)
    <3>1. new[k - 1] + i \in 1..Len(Stream')
      <4>1. PICK z, p, q, w, l :
               /\ z = Size(Flying(k + 1)) /\ p = pos[k] /\ q = pos[k + 1]
               /\ w = new[k - 1] /\ l = Len(b)
        OBVIOUS
      <4>2. /\ i \in 1..z /\ q = p + z /\ w = p - l
            /\ z \in Nat /\ p \in Nat /\ q \in Nat /\ w \in Nat /\ l \in Nat
            /\ q <= Len(Stream)
        BY <1>1, <2>2, <2>3, <2>4, <2>5, <4>1
      <4>3. w + i >= 1 /\ w + i <= Len(Stream) - l
        BY <1>1, <4>2
      <4> QED
        <5>1. Len(Stream') = Len(Stream) - l /\ Len(Stream') \in Nat
          BY <1>17, <4>1
        <5>2. w + i \in Nat
          BY <4>2
        <5>3. w + i \in 1..Len(Stream')
          BY <4>3, <5>1, <5>2
        <5> QED
          BY <4>1, <5>3
    <3>2. Len(b) + (new[k - 1] + i) = pos[k] + i
      BY SMTT(30), <1>1, <2>2, <2>4, <2>5
    <3>3. Stream'[new[k - 1] + i] = Stream[Len(b) + (new[k - 1] + i)]
      BY <1>17, <3>1
    <3> QED
      BY <2>3, <3>2, <3>3
  <2>7. new[k] = new[k - 1] + Size(Flying(k + 1))
    BY SMTT(30), <1>1, <2>2, <2>3, <2>4, <2>5
  <2> QED
    BY <1>11, <2>6, <2>7
<1>20. \A i \in 1..send_len : Stream'[new[N - 1] + i] = send_buffer[i]
  <2> SUFFICES ASSUME NEW i \in 1..send_len
               PROVE  Stream'[new[N - 1] + i] = send_buffer[i]
    OBVIOUS
  <2>1. /\ new[N - 1] = pos[N] - Len(b)
        /\ new[N - 1] \in Nat
        /\ pos[N] \in Nat
        /\ send_len \in Nat
        /\ pos[N] + send_len = Len(Stream)
    <3>1. N - 1 \in 0..N - 1 /\ N \in 0..N
      BY <1>9
    <3> QED
      BY <1>1, <1>9, <1>13, <1>16, <3>1 DEF TypeOK
  <2>2. new[N - 1] + i \in 1..Len(Stream')
    BY SMTT(30), <1>1, <1>17, <2>1
  <2>3. Len(b) + (new[N - 1] + i) = pos[N] + i
    BY <1>1, <2>1
  <2>4. Stream'[new[N - 1] + i] = Stream[Len(b) + (new[N - 1] + i)]
    BY <1>17, <2>2
  <2>5. Stream[pos[N] + i] = send_buffer[i]
    BY <1>13
  <2> QED
    BY <2>3, <2>4, <2>5
<1>21. Framed(new)'
  BY <1>3, <1>10, <1>19, <1>20 DEF Framed
<1>22. (Len(got) <= Len(handed))'
  BY <1>3, <1>5, <1>8
<1> QED
  BY <1>5, <1>6, <1>7, <1>18, <1>21, <1>22 DEF StreamOK, Places

\* Receiving keeps the invariant.
LEMMA ReceiveStep ==
    ASSUME SessionInv, NEW n \in 1..Len(wire), ReceiveSocketData(n)
    PROVE  SessionInv'
<1>1. n \in Taken(Asked)
  BY ReceiveCases
<1>2. PICK body \in Bodies(n) :
         \/ /\ Len(Received(n)) >= LEN_COMMHEAD /\ body = 0
            /\ Closes(n)
         \/ /\ wire' = Rest(n)
            /\ UNCHANGED <<end, sendVars, stale>>
            /\ Completes(n, body) \/ Gathers(n, body)
  BY ReceiveCases
<1>3. CASE Closes(n)
  <2>1. Received(n) \in Seq(Byte) /\ Received(n) # <<>>
    BY ReceivedBytes DEF SessionInv
  <2> QED
    BY <1>3, <2>1, ResetStep DEF Closes
<1>4. CASE /\ wire' = Rest(n)
           /\ UNCHANGED <<end, sendVars, stale>>
           /\ Completes(n, body) \/ Gathers(n, body)
  <2>1. TypeOK' /\ BuffersOK'
    BY <1>4, ReceiveTypes
  <2>2. ASSUME ~Broken' PROVE StreamOK' /\ ReceiverOK'
    <3>1. ~Broken
      BY <1>4, <2>2 DEF Broken, sendVars
    <3>2. TypeOK /\ BuffersOK /\ StreamOK /\ ReceiverOK
      BY <3>1 DEF SessionInv
    <3>3. CASE Completes(n, body)
      BY <1>1, <1>4, <2>1, <3>2, <3>3, CompleteStep
    <3>4. CASE Gathers(n, body)
      BY <1>1, <1>4, <3>2, <3>4, GatherStep
    <3> QED
      BY <1>4, <3>3, <3>4
  <2> QED
    BY <2>1, <2>2 DEF SessionInv
<1> QED
  BY <1>2, <1>3, <1>4

\* A message that proto refuses, or a connection that ends.
LEMMA CloseStep ==
    ASSUME SessionInv, Close \/ \E n \in 1..Len(wire) : ProtoRefuses(n)
    PROVE  SessionInv'
<1>1. CASE Close
  <2>1. recv_buffer \in Seq(Byte) /\ recv_body_len \in Nat
        /\ (recv_buffer = <<>> => recv_body_len = 0)
    BY DEF SessionInv, TypeOK, BuffersOK
  <2> QED
    BY <1>1, <2>1, ResetStep DEF Close
<1>2. ASSUME NEW n \in 1..Len(wire), ProtoRefuses(n)
      PROVE  SessionInv'
  <2>1. Received(n) \in Seq(Byte) /\ Received(n) # <<>>
    BY ReceivedBytes DEF SessionInv
  <2>2. Fail /\ Reused(Received(n), recv_body_len) /\ UNCHANGED end
    BY <1>2 DEF ProtoRefuses, Received
  <2>3. recv_body_len \in Nat
    BY DEF SessionInv, TypeOK
  <2> QED
    BY <2>1, <2>2, <2>3, ResetStep
<1> QED
  BY <1>1, <1>2

-----------------------------------------------------------------------------
(* The theorems.                                                            *)

\* A connection that has just been made.
LEMMA InitInv == Init => SessionInv
<1> SUFFICES ASSUME Init PROVE SessionInv
  OBVIOUS
<1>1. end \in EndsOfAConnection
  BY DEF Init
<1>2. TypeOK /\ BuffersOK
  <2>1. <<>> \in Seq(TextLens) /\ <<>> \in Seq(Byte) /\ Len(<<>>) = 0
    BY EmptySeq
  <2>2. TypeOK
    <3>1. send_len \in 0..Len(send_buffer) /\ recv_body_len \in Nat
      BY <2>1 DEF Init
    <3>2. /\ handed \in Seq(TextLens) /\ got \in Seq(TextLens)
          /\ torn \in BOOLEAN /\ stale \in BOOLEAN
      BY <2>1 DEF Init
    <3> QED
      BY <1>1, <3>1, <3>2 DEF TypeOK
  <2>3. BuffersOK
    BY <2>1 DEF Init, BuffersOK
  <2> QED
    BY <2>2, <2>3
<1>3. ReceiverOK
  BY EmptySeq DEF Init, ReceiverOK
<1>4. StreamOK
  <2> DEFINE pos == [k \in 0..0 |-> 0]
  <2>1. InFlight = 0 /\ Len(Stream) = 0
    BY DEF Init, InFlight, Stream
  <2>2. pos \in [0..0 -> 0..0]
    OBVIOUS
  <2>3. Places(pos)
    BY <2>1 DEF Init, Places, Ordered
  <2>4. Framed(pos)
    BY <2>1 DEF Init, Framed
  <2>5. Len(got) <= Len(handed)
    BY DEF Init
  <2> QED
    BY <2>1, <2>2, <2>3, <2>4, <2>5 DEF StreamOK
<1> QED
  BY <1>2, <1>3, <1>4 DEF SessionInv

\* Every step keeps the invariant.
LEMMA NextInv == SessionInv /\ [Next]_vars => SessionInv'
<1> SUFFICES ASSUME SessionInv, [Next]_vars PROVE SessionInv'
  OBVIOUS
<1>1. CASE UNCHANGED vars
  <2>1. UNCHANGED <<end, send_buffer, send_len, handed, torn, wire,
                    recv_buffer, recv_body_len, got, stale>>
    BY <1>1 DEF vars, sendVars, recvVars
  <2>2. TypeOK' /\ BuffersOK'
    BY <2>1 DEF SessionInv, TypeOK, BuffersOK
  <2>3. ASSUME ~Broken' PROVE StreamOK' /\ ReceiverOK'
    <3>1. StreamOK /\ ReceiverOK
      BY <2>1, <2>3 DEF SessionInv, Broken
    <3>2. Stream' = Stream
      BY <2>1 DEF Stream
    <3>3. ReceiverOK'
      BY <2>1, <3>1 DEF ReceiverOK
    <3> QED
      BY <2>1, <3>1, <3>2, <3>3, StreamLeft
  <2> QED
    BY <2>2, <2>3 DEF SessionInv
<1>2. ASSUME NEW m \in TextLens, FormatSendHead(m) PROVE SessionInv'
  BY <1>2, FormatStep
<1>3. ASSUME NEW n, SendSocketData(n) PROVE SessionInv'
  BY <1>3, SendStep
<1>4. ASSUME NEW n \in 1..Len(wire), ReceiveSocketData(n) PROVE SessionInv'
  BY <1>4, ReceiveStep
<1> QED
  BY <1>1, <1>2, <1>3, <1>4, CloseStep DEF Next, Sending, Receiving

\* The inductive invariant holds in every state.
LEMMA SessionInvHolds == Spec => []SessionInv
  BY InitInv, NextInv, PTL DEF Spec

\* The variables of a session keep their types, broken connections included:
\* never more is sent than was formatted, and what proto gets is a message.
THEOREM SessionTypeCorrect == Spec => []TypeOK
<1>1. SessionInv => TypeOK
  BY DEF SessionInv
<1> QED
  BY <1>1, SessionInvHolds, PTL

\* When all that was sent is received and no message is partly sent, nothing is
\* left in the receiver's buffer, however the messages were cut into parts: the
\* connection may end there without a trace in the next one.
THEOREM AlwaysCleanBetween == Spec => []CleanBetweenMessages
<1>1. SessionInv => CleanBetweenMessages
  <2> SUFFICES ASSUME SessionInv, ~Broken, wire = <<>>, send_len = 0
               PROVE  recv_buffer = <<>>
    BY DEF CleanBetweenMessages
  <2>1. /\ recv_buffer \in Seq(Byte) /\ Len(recv_buffer) \in Nat
        /\ recv_body_len \in Nat
        /\ StreamOK /\ ReceiverOK
    BY LenProperties DEF SessionInv, TypeOK, BuffersOK
  <2>2. Stream = recv_buffer
    BY <2>1 DEF Stream
  <2>3. PICK pos \in [0..InFlight -> 0..Len(Stream)] : Places(pos) /\ Framed(pos)
    BY <2>1 DEF StreamOK
  <2>4. InFlight \in Nat
    BY <2>1, LenProperties DEF StreamOK, InFlight, SessionInv, TypeOK
  <2>5. /\ pos[0] = 0 /\ pos[InFlight] \in Nat
        /\ pos[InFlight] = Len(recv_buffer)
    BY <2>1, <2>2, <2>3, <2>4 DEF Places
  <2>6. CASE InFlight = 0
    <3>1. Len(recv_buffer) = 0
      BY <2>5, <2>6
    <3> QED
      BY <2>1, <3>1, EmptySeq
  <2>7. CASE InFlight >= 1
    <3> DEFINE m == Flying(1)
    <3>a. handed \in Seq(TextLens) /\ got \in Seq(TextLens)
      BY DEF SessionInv, TypeOK
    <3>b. Len(got) + 1 \in 1..Len(handed)
      BY <2>7, <3>a, LenProperties DEF InFlight
    <3>c. m \in TextLens
      BY <3>a, <3>b, ElementOfSeq DEF Flying
    <3>1. m \in Nat /\ Size(m) = LEN_COMMHEAD + LEN_MSGHEAD + m
      BY <3>c DEF Size
    <3>d. /\ pos[1] = pos[1 - 1] + Size(m)
          /\ \A i \in 1..Size(m) : Stream[pos[1 - 1] + i] = ByteOf(m, i)
      BY <2>3, <2>4, <2>7 DEF Framed
    <3>2. pos[1] = Size(m) /\ Stream[1] = ByteOf(m, 1)
      <4>1. 1 \in 1..Size(m) /\ 1 - 1 = 0 /\ 0 + 1 = 1
        BY <3>1
      <4>2. pos[1 - 1] = 0
        BY <2>5, <4>1
      <4>3. Stream[0 + 1] = ByteOf(m, 1)
        BY <3>d, <4>1, <4>2
      <4> QED
        BY <3>1, <3>d, <4>1, <4>2, <4>3
    <3>3. recv_buffer[1][1] = m
      BY <2>2, <3>2, ByteParts
    <3>4. Len(recv_buffer) < Size(m)
      BY <2>1, <3>1, <3>3 DEF ReceiverOK
    <3>5. pos[1] <= pos[InFlight]
      BY <2>3, <2>4, <2>7 DEF Places, Ordered
    <3> QED
      BY <2>1, <2>5, <3>1, <3>2, <3>4, <3>5
  <2> QED
    BY <2>4, <2>6, <2>7
<1> QED
  BY <1>1, SessionInvHolds, PTL

\* A receiver never takes a byte of the next message, in whatever parts send
\* and recv carry the bytes, for texts of any length: the header that is asked
\* for a second time as a whole ends within the shortest message.
THEOREM ReceiverNeverOverruns == Spec => []NeverOverruns
<1>1. SessionInv => NeverOverruns
  <2> SUFFICES ASSUME SessionInv, ~Broken, recv_buffer # <<>>
               PROVE  total_recv_len <= Len(Bytes(recv_buffer[1][1]))
    BY DEF NeverOverruns
  <2>1. recv_buffer \in Seq(Byte) /\ ReceiverOK
    BY DEF SessionInv, BuffersOK
  <2>2. recv_buffer[1] \in Byte
    BY <2>1, EmptySeq, LenProperties, ElementOfSeq
  <2>3. PICK m \in TextLens : recv_buffer[1][1] = m
    BY <2>2, ByteParts
  <2>4. Len(recv_buffer) < Size(m)
    <3>1. m \in Nat /\ Size(m) = LEN_COMMHEAD + LEN_MSGHEAD + m
      BY DEF Size
    <3>2. Len(recv_buffer) \in Nat /\ recv_body_len \in Nat
      BY <2>1, LenProperties DEF SessionInv, TypeOK
    <3> QED
      BY <2>1, <2>3, <3>1, <3>2 DEF ReceiverOK
  <2>5. Len(Bytes(m)) = Size(m) /\ Size(m) \in Nat /\ Len(recv_buffer) \in Nat
    BY <2>1, MessageBytes, LenProperties
  <2> QED
    BY <2>3, <2>4, <2>5 DEF total_recv_len
<1> QED
  BY <1>1, SessionInvHolds, PTL

-----------------------------------------------------------------------------
(* The refinement.                                                          *)

\* The message that waits in the send_buffer, as MessageChannel sees it.
Pending == IF send_buffer = <<>> THEN <<>> ELSE <<send_buffer[1][1]>>

\* It is the one that was formatted last.
LEMMA PendingMessage ==
    ASSUME NEW m \in TextLens
    PROVE  /\ send_buffer = Bytes(m) => Pending = <<m>>
           /\ send_buffer' = Bytes(m) => Pending' = <<m>>
<1>1. Bytes(m) # <<>> /\ Bytes(m)[1][1] = m
  <2>1. Bytes(m) # <<>> /\ Bytes(m)[1] = ByteOf(m, 1)
    <3>1. 1 \in 1..Size(m)
      BY DEF Size
    <3> QED
      BY <3>1, MessageBytes
  <2> QED
    BY <2>1, ByteParts
<1> QED
  BY <1>1 DEF Pending

\* A connection that is closed, and one that begins.
LEMMA ResetCuts ==
    ASSUME NEW b, NEW body, Fail, Reused(b, body)
    PROVE  Channel!CutOff
<1>1. /\ send_buffer' = <<>> /\ handed' = <<>> /\ got' = <<>> /\ torn' = FALSE
  BY DEF Fail
<1>2. stale' \in BOOLEAN
  BY Zenon DEF Reused
<1>3. Broken' \in BOOLEAN
  BY <1>1, <1>2 DEF Broken
<1> QED
  BY <1>1, <1>3 DEF Channel!CutOff

\* Formatting a message offers it to the channel.
LEMMA FormatOffers ==
    ASSUME SessionInv, NEW m \in TextLens, FormatSendHead(m)
    PROVE  Channel!Offer(m)
<1>1. /\ send_buffer' = Bytes(m) /\ torn' = (torn \/ send_len > 0)
      /\ UNCHANGED <<handed, got, stale>> /\ ~Broken
  BY DEF FormatSendHead, recvVars
<1>2. Pending' = <<m>>
  BY <1>1, PendingMessage
<1>3. Broken' \in IF Pending = <<>> THEN {Broken} ELSE {Broken, TRUE}
  <2>1. CASE send_buffer = <<>>
    <3>1. send_len = 0
      BY <2>1, MessageBytes DEF SessionInv, BuffersOK
    <3>2. ~(send_len > 0)
      BY <3>1
    <3>3. torn' = torn /\ stale' = stale
      BY <1>1, <3>2, Zenon DEF Broken, SessionInv, TypeOK
    <3>4. Broken' = Broken
      BY <3>3 DEF Broken
    <3> QED
      BY <2>1, <3>4 DEF Pending
  <2>2. CASE send_buffer # <<>>
    <3>1. Broken' = FALSE \/ Broken' = TRUE
      BY DEF Broken
    <3>2. Broken = FALSE
      BY <1>1 DEF Broken
    <3>3. Pending # <<>>
      BY <2>2 DEF Pending
    <3> QED
      BY <3>1, <3>2, <3>3
  <2> QED
    BY <2>1, <2>2
<1> QED
  BY <1>1, <1>2, <1>3 DEF Channel!Offer, Pending

\* The last byte of a message hands it over, any other byte is not seen.
LEMMA SendHands ==
    ASSUME SessionInv, NEW n, SendSocketData(n)
    PROVE  Channel!Hand \/ UNCHANGED Channel!channelVars
<1>1. PICK m \in TextLens :
         /\ send_buffer = Bytes(m)
         /\ \/ UNCHANGED <<send_buffer, handed>>
            \/ /\ send_buffer' = <<>>
               /\ handed' = Append(handed, m)
  BY SendCases DEF SessionInv
<1>2. UNCHANGED <<got, torn, stale>>
  BY DEF SendSocketData, recvVars
<1>3. Pending = <<m>> /\ Broken' = Broken
  BY <1>1, <1>2, PendingMessage DEF Broken
<1>4. CASE UNCHANGED <<send_buffer, handed>>
  <2>1. Pending' = Pending
    BY <1>4 DEF Pending
  <2> QED
    BY <1>2, <1>3, <1>4, <2>1 DEF Channel!channelVars, Pending
<1>5. CASE send_buffer' = <<>> /\ handed' = Append(handed, m)
  <2>1. Pending' = <<>>
    BY <1>5 DEF Pending
  <2>2. Append(handed, m) = handed \o <<m>>
    BY AppendIsConcat DEF SessionInv, TypeOK
  <2> QED
    BY <1>2, <1>3, <1>5, <2>1, <2>2 DEF Channel!Hand, Pending
<1> QED
  BY <1>1, <1>4, <1>5

\* A message that is whole is received, and it is the next one unless the
\* connection is broken.
LEMMA ReceiveReceives ==
    ASSUME SessionInv, NEW n \in 1..Len(wire), ReceiveSocketData(n)
    PROVE  \/ Channel!Receive \/ Channel!ReceiveGarbage \/ Channel!CutOff
           \/ UNCHANGED Channel!channelVars
<1>1. n \in Taken(Asked)
  BY ReceiveCases
<1>2. PICK body \in Bodies(n) :
         \/ Closes(n)
         \/ /\ wire' = Rest(n)
            /\ UNCHANGED <<end, sendVars, stale>>
            /\ Completes(n, body) \/ Gathers(n, body)
  BY ReceiveCases
<1>3. CASE Closes(n)
  BY <1>3, ResetCuts DEF Closes
<1>4. CASE /\ wire' = Rest(n)
           /\ UNCHANGED <<end, sendVars, stale>>
           /\ Completes(n, body) \/ Gathers(n, body)
  <2>1. /\ UNCHANGED <<send_buffer, handed>>
        /\ Pending' = Pending /\ Broken' = Broken
    BY <1>4 DEF sendVars, Pending, Broken
  <2>2. CASE Gathers(n, body)
    BY <2>1, <2>2 DEF Gathers, Channel!channelVars, Pending
  <2>3. CASE Completes(n, body) /\ Broken
    <3>1. got' = Append(got, Last(Received(n))[1])
      BY <2>3 DEF Completes
    <3>2. got' # got
      <4>1. TypeOK /\ TypeOK'
        BY <1>4, ReceiveTypes DEF SessionInv
      <4>2. Len(got) \in Nat /\ Len(got') = Len(got) + 1
        BY <3>1, <4>1, LenProperties DEF TypeOK
      <4> QED
        BY <4>2
    <3> QED
      BY <2>1, <2>3, <3>2 DEF Channel!ReceiveGarbage, Pending
  <2>4. CASE Completes(n, body) /\ ~Broken
    <3>1. TypeOK /\ BuffersOK /\ StreamOK /\ ReceiverOK
      BY <2>4 DEF SessionInv
    <3>2. BuffersOK'
      BY <1>4, ReceiveTypes
    <3>3. InFlight >= 1 /\ got' = Append(got, Flying(1))
      BY <1>1, <1>4, <2>4, <3>1, <3>2, CompleteStep
    <3>4. Len(got) < Len(handed)
      BY <3>1, <3>3, LenProperties DEF InFlight, TypeOK
    <3> QED
      BY <2>1, <3>3, <3>4 DEF Channel!Receive, Flying, Pending
  <2> QED
    BY <1>4, <2>2, <2>3, <2>4
<1> QED
  BY <1>2, <1>3, <1>4

\* Between the two programs runs a channel of whole messages: what is written
\* and read in parts is received in order, once, and only what was sent.
THEOREM SessionsKeepTheChannel == Spec => KeepsChannel
<1>1. Init => Channel!ChannelInit
  BY DEF Init, Channel!ChannelInit, Broken
<1>2. SessionInv /\ [Next]_vars => [Channel!ChannelNext]_(Channel!channelVars)
  <2> SUFFICES ASSUME SessionInv, [Next]_vars
               PROVE  Channel!ChannelNext \/ UNCHANGED Channel!channelVars
    OBVIOUS
  <2>1. CASE UNCHANGED vars
    BY <2>1 DEF vars, sendVars, recvVars, Channel!channelVars, Broken
  <2>2. ASSUME NEW m \in TextLens, FormatSendHead(m)
        PROVE  Channel!ChannelNext
    BY <2>2, FormatOffers DEF Channel!ChannelNext
  <2>3. ASSUME NEW n, SendSocketData(n)
        PROVE  Channel!ChannelNext \/ UNCHANGED Channel!channelVars
    BY <2>3, SendHands DEF Channel!ChannelNext
  <2>4. ASSUME NEW n \in 1..Len(wire), ReceiveSocketData(n)
        PROVE  Channel!ChannelNext \/ UNCHANGED Channel!channelVars
    BY <2>4, ReceiveReceives DEF Channel!ChannelNext
  <2>5. ASSUME NEW n \in 1..Len(wire), ProtoRefuses(n)
        PROVE  Channel!ChannelNext
    BY <2>5, ResetCuts DEF ProtoRefuses, Channel!ChannelNext
  <2>6. CASE Close
    BY <2>6, ResetCuts DEF Close, Channel!ChannelNext
  <2> QED
    BY <2>1, <2>2, <2>3, <2>4, <2>5, <2>6 DEF Next, Sending, Receiving
<1> QED
  BY <1>1, <1>2, SessionInvHolds, PTL
     DEF Spec, KeepsChannel, Channel!ChannelSpec
=============================================================================
