--------------------------- MODULE MessageChannel ---------------------------
(***************************************************************************)
(* What a connection between two programs of dc4c promises: whole messages *)
(* in the order in which they were handed over, each one once.  A message  *)
(* waits (pending) until the last of its bytes is sent, and a newer one    *)
(* may take its place before.  A connection can break: from then on what   *)
(* is received means nothing, until it is cut off.                         *)
(***************************************************************************)
EXTENDS Naturals, Sequences

CONSTANT Messages

VARIABLES
    pending,    \* the message in the sender's buffer, if any: <<m>> or <<>>
    handed,     \* the messages sent whole on this connection
    got,        \* the messages received on it
    broken

channelVars == <<pending, handed, got, broken>>

ChannelInit ==
    /\ pending = <<>>
    /\ handed = <<>>
    /\ got = <<>>
    /\ broken = FALSE

Offer(m) ==
    /\ pending' = <<m>>
    /\ broken' \in IF pending = <<>> THEN {broken} ELSE {broken, TRUE}
    /\ UNCHANGED <<handed, got>>

Hand ==
    /\ pending # <<>>
    /\ handed' = handed \o pending
    /\ pending' = <<>>
    /\ UNCHANGED <<got, broken>>

Receive ==
    /\ Len(got) < Len(handed)
    /\ got' = Append(got, handed[Len(got) + 1])
    /\ UNCHANGED <<pending, handed, broken>>

ReceiveGarbage ==
    /\ broken
    /\ got' # got
    /\ UNCHANGED <<pending, handed, broken>>

CutOff ==
    /\ pending' = <<>>
    /\ handed' = <<>>
    /\ got' = <<>>
    /\ broken' \in BOOLEAN

ChannelNext ==
    \/ \E m \in Messages : Offer(m)
    \/ Hand
    \/ Receive
    \/ ReceiveGarbage
    \/ CutOff

ChannelSpec == ChannelInit /\ [][ChannelNext]_channelVars
=============================================================================
