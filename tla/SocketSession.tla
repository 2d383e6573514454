--------------------------- MODULE SocketSession ---------------------------
(***************************************************************************)
(* Messages over a stream of bytes (src/src/util/dc4c_util.c).             *)
(*                                                                         *)
(* Every connection of dc4c carries messages that begin with their length: *)
(* LEN_COMMHEAD digits, LEN_MSGHEAD bytes of type, and the text.  The      *)
(* module has one direction of a connection, with the send_buffer of the   *)
(* session at one end and the recv_buffer of the session at the other;     *)
(* send and recv take any part of what is there.  A byte is a pair of its  *)
(* message and its place in it, so that a header is read right only when   *)
(* its bytes are the first ones of one message.                            *)
(***************************************************************************)
EXTENDS Integers, SequencesExt

CONSTANTS
    TextLens,       \* the lengths of the texts
    Ends,           \* the receivers explored
    Pieces,         \* bound: the numbers of bytes send and recv take, besides
                    \* all they are asked to
    MaxMessages     \* bound: the messages handed over on one connection

\* The receivers differ in how they read and in what is left of their session
\* when a connection ends.  The API reads with SyncReceiveSocketData, which
\* cleans the buffer first; the register server frees the buffers of a closed
\* session and takes new ones; the worker server keeps them.
EndsOfAConnection == {"api", "rserver", "wserver"}

ASSUME SessionConstants ==
    /\ TextLens \subseteq Nat
    /\ Ends \subseteq EndsOfAConnection
    /\ Pieces \subseteq Nat
    /\ MaxMessages \in Nat

VARIABLES
    end,            \* who receives
    send_buffer,    \* the message in the sender's send_buffer, as bytes
    send_len,       \* how many of them send has taken
    wire,           \* the bytes sent and not yet received
    recv_buffer,    \* its first total_recv_len bytes
    recv_body_len,
    handed,         \* history: the messages sent whole
    got,            \* history: the messages given to proto
    torn,           \* history: a message was replaced after its first byte
    stale           \* history: recv_buffer held bytes of another connection

sendVars == <<send_buffer, send_len, handed, torn>>
recvVars == <<recv_buffer, recv_body_len, got>>
vars == <<end, sendVars, wire, recvVars, stale>>

\* Nothing is known of what is received.
Broken == torn \/ stale

LEN_COMMHEAD == 8

\* Mutant: the type is written without its padding.
TypeUnpadded == 3

LEN_MSGHEAD == 8

\* What send or recv may take of k bytes.
Taken(k) == {n \in 1..k : n = k \/ n \in Pieces}

\* A message is told by the length of its text.
Bytes(m) == [i \in 1..LEN_COMMHEAD + LEN_MSGHEAD + m |-> <<m, i>>]

\* ns2i of the header: what it says is known only when it is in one piece.
Header(b) ==
    {n \in {LEN_MSGHEAD + m : m \in TextLens} \cup {0} :
        \A m \in TextLens :
            SubSeq(b, 1, LEN_COMMHEAD) = SubSeq(Bytes(m), 1, LEN_COMMHEAD)
                => n = LEN_MSGHEAD + m}

Init ==
    /\ end \in Ends
    /\ send_buffer = <<>>
    /\ send_len = 0
    /\ wire = <<>>
    /\ recv_buffer = <<>>
    /\ recv_body_len = 0
    /\ handed = <<>>
    /\ got = <<>>
    /\ torn = FALSE
    /\ stale = FALSE

-----------------------------------------------------------------------------
(* The sender.                                                              *)

\* Mutant: send_len is not put back.
FormatBody(m) ==
    /\ ~Broken
    /\ Len(handed) < MaxMessages
    /\ send_buffer' = Bytes(m)
    /\ torn' = (torn \/ send_len > 0)
    /\ UNCHANGED <<end, send_len, handed, wire, recvVars, stale>>

\* CleanSendBuffer and FormatSendHead, as the proto functions call them, and
\* app_SendWorkerNotice does whatever the buffer holds.  Bound: a connection
\* that is broken carries no further message.
FormatSendHead(m) ==
    /\ ~Broken
    /\ Len(handed) < MaxMessages
    /\ send_buffer' = Bytes(m)
    /\ send_len' = 0
    /\ torn' = (torn \/ send_len > 0)
    /\ UNCHANGED <<end, handed, wire, recvVars, stale>>

\* Mutant: the part that is sent is forgotten.
SendFromStart(n) ==
    /\ n \in Taken(Len(send_buffer) - send_len)
    /\ wire' = wire \o SubSeq(send_buffer, 1, n)
    /\ IF send_len + n < Len(send_buffer)
       THEN send_len' = send_len + n /\ UNCHANGED <<send_buffer, handed>>
       ELSE /\ send_len' = 0
            /\ send_buffer' = <<>>
            /\ handed' = Append(handed, send_buffer[1][1])
    /\ UNCHANGED <<end, torn, recvVars, stale>>

\* AsyncSendSocketData and SyncSendSocketData: send takes n bytes; when all are
\* sent the buffer is cleaned.
SendSocketData(n) ==
    /\ n \in Taken(Len(send_buffer) - send_len)
    /\ wire' = wire \o SubSeq(send_buffer, send_len + 1, send_len + n)
    /\ IF send_len + n < Len(send_buffer)
       THEN send_len' = send_len + n /\ UNCHANGED <<send_buffer, handed>>
       ELSE /\ send_len' = 0
            /\ send_buffer' = <<>>
            /\ handed' = Append(handed, send_buffer[1][1])
    /\ UNCHANGED <<end, torn, recvVars, stale>>

-----------------------------------------------------------------------------
(* The receiver.                                                            *)

total_recv_len == Len(recv_buffer)

\* The bytes recv is called for.  AsyncReceiveSocketData asks for LEN_COMMHEAD
\* bytes until it knows the length, whatever part of the header is there.
Wanted ==
    IF recv_body_len > 0 THEN LEN_COMMHEAD + recv_body_len - total_recv_len
    ELSE IF end = "api" THEN LEN_COMMHEAD - total_recv_len
    ELSE LEN_COMMHEAD

\* CleanRecvBuffer
CleanRecvBuffer == recv_buffer' = <<>> /\ recv_body_len' = 0

\* The connection is closed from here, see Close.
Fail ==
    /\ send_buffer' = <<>>
    /\ send_len' = 0
    /\ wire' = <<>>
    /\ handed' = <<>>
    /\ got' = <<>>
    /\ torn' = FALSE

\* Mutant: AfterDoProtocol leaves the length of the message.
KeepBodyLen == recv_buffer' = <<>> /\ UNCHANGED recv_body_len

\* AfterDoProtocol, and the CleanRecvBuffer of the next SyncReceiveSocketData.
AfterDoProtocol == CleanRecvBuffer

\* CloseSocket and the next AcceptSocket or AsyncConnectSocket of the session,
\* whose buffer holds b.
Reused(b, body) ==
    IF end = "wserver"
    THEN /\ recv_buffer' = b
         /\ recv_body_len' = body
         /\ stale' = (b # <<>>)
    ELSE CleanRecvBuffer /\ stale' = FALSE

\* recv gives n bytes; body is the length of the message that is now known, 0
\* before the header is whole.
ReceiveSocketData(n) ==
    /\ n \in Taken(IF Wanted < Len(wire) THEN Wanted ELSE Len(wire))
    /\ LET b == recv_buffer \o SubSeq(wire, 1, n) IN
       \E body \in IF recv_body_len > 0 THEN {recv_body_len}
                   ELSE IF Len(b) < LEN_COMMHEAD THEN {0} ELSE Header(b) :
          IF Len(b) >= LEN_COMMHEAD /\ body = 0
          THEN Fail /\ Reused(b, 0) /\ UNCHANGED end
          ELSE /\ wire' = SubSeq(wire, n + 1, Len(wire))
               /\ IF Len(b) = LEN_COMMHEAD + body
                  THEN got' = Append(got, Last(b)[1]) /\ AfterDoProtocol
                  ELSE recv_buffer' = b /\ recv_body_len' = body
                       /\ UNCHANGED got
               /\ UNCHANGED <<end, sendVars, stale>>

\* proto refuses a message that is not one, and the session is closed with its
\* bytes still in place.
ProtoRefuses(n) ==
    /\ torn
    /\ recv_body_len > 0
    /\ n = LEN_COMMHEAD + recv_body_len - total_recv_len
    /\ n <= Len(wire)
    /\ Fail
    /\ Reused(recv_buffer \o SubSeq(wire, 1, n), recv_body_len)
    /\ UNCHANGED end

\* The other end is gone, or a time-out: what was sent and not received is
\* lost, and both sessions are used for the next connection.
Close ==
    /\ Fail
    /\ Reused(recv_buffer, recv_body_len)
    /\ UNCHANGED end

-----------------------------------------------------------------------------
Sending == \E n \in 1..Len(send_buffer) : SendSocketData(n)

Receiving == \E n \in 1..Len(wire) : ReceiveSocketData(n)

Next ==
    \/ \E m \in TextLens : FormatSendHead(m)
    \/ Sending
    \/ Receiving
    \/ \E n \in 1..Len(wire) : ProtoRefuses(n)
    \/ Close

Spec == Init /\ [][Next]_vars

\* Both programs wait for the connection with select or epoll and serve it.
FairSpec == Spec /\ WF_vars(Sending) /\ WF_vars(Receiving)

-----------------------------------------------------------------------------
(* Properties.                                                              *)

\* The variables have their types, and never more is sent than was formatted.
TypeOK ==
    /\ end \in EndsOfAConnection
    /\ send_len \in 0..Len(send_buffer)
    /\ recv_body_len \in Nat
    /\ handed \in Seq(TextLens)
    /\ got \in Seq(TextLens)
    /\ torn \in BOOLEAN
    /\ stale \in BOOLEAN

\* However the bytes of the messages are parted, a receiver never takes one
\* that belongs to the next message: a header that came in two parts is read
\* with up to LEN_COMMHEAD bytes too many, and LEN_MSGHEAD makes room for them.
NeverOverruns ==
    ~Broken /\ recv_buffer # <<>> =>
        total_recv_len <= Len(Bytes(recv_buffer[1][1]))

\* A connection that ends between two messages, with all that was sent
\* received, leaves no byte in the receiver's buffer: the worker server, which
\* keeps its buffers, hands what it keeps to the next master only when an
\* earlier one was cut off inside a message or its message was refused.
CleanBetweenMessages ==
    ~Broken /\ wire = <<>> /\ send_len = 0 => recv_buffer = <<>>

Channel == INSTANCE MessageChannel
           WITH Messages <- TextLens,
                pending <- IF send_buffer = <<>> THEN <<>>
                           ELSE <<send_buffer[1][1]>>,
                broken <- Broken

\* Between two programs runs a channel of whole messages, see MessageChannel:
\* what AsyncSendSocketData writes and AsyncReceiveSocketData reads in parts is
\* received in order, once, and only what was sent.
KeepsChannel == Channel!ChannelSpec

\* Every message that is sent whole is received, unless the connection is cut
\* off or broken: the receiver never waits for bytes that do not come.
AllReceived ==
    \A k \in 1..MaxMessages :
        Len(handed) >= k ~> Len(got) >= k \/ handed = <<>> \/ Broken
=============================================================================
