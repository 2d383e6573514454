------------------------ MODULE RegisterServerProofs ------------------------
(***************************************************************************)
(* Proofs that the register server keeps its registry well formed, its     *)
(* counters right and the pointers of its sessions valid, that what it     *)
(* notes of its workers is true or about to be told otherwise, that its    *)
(* answers are usable and complete and that workers take turns, for any    *)
(* workers, hosts, clients, sessions, messages under way and faults.       *)
(***************************************************************************)
EXTENDS RegisterTurns, RegisterNotices, RegistryTheorems

USE ServerConstants, RegistryConstants

(***************************************************************************)
(* What the properties rest on: only the session of a worker has a         *)
(* registration or a notice to read, a client is connected to a session of *)
(* its own, and to one that has read no end of file.                       *)
(***************************************************************************)
SessionsOK ==
    /\ \A s \in Sessions :
          /\ accepted[s] = None => inbox[s] = <<>> /\ send_buffer[s] = None
          /\ \A m \in Nodes(inbox[s]) :
                /\ m.type \in {"WRQ", "WNQ"} => accepted[s] \in Workers
                /\ m.type = "CLOSED" => \A c \in Clients : link[c] # s
    /\ query # NoQuery => accepted[query.session] # None
    /\ \A c \in Clients : link[c] # None => accepted[link[c]] = c
    /\ \A w \in Workers : progress[w] = "REGISTED" => link[w] # None

RegisterInv ==
    /\ TypeOK
    /\ RegistryOK(registry)
    /\ PointersMatch
    /\ SessionsOK

-----------------------------------------------------------------------------
(* What is under way on a connection.                                       *)

\* What is appended is the only thing that is new.
LEMMA AppendBox ==
    ASSUME NEW S, NEW box \in Seq(S), NEW m \in S
    PROVE  /\ Append(box, m) \in Seq(S)
           /\ Nodes(Append(box, m)) = Nodes(box) \cup {m}
<1> DEFINE new == Append(box, m)
<1>1. /\ new \in Seq(S)
      /\ DOMAIN new = 1..(Len(box) + 1)
      /\ DOMAIN box = 1..Len(box)
      /\ \A i \in 1..Len(box) : new[i] = box[i]
      /\ new[Len(box) + 1] = m
      /\ Len(box) \in Nat
  OBVIOUS
<1> HIDE DEF new
<1>2. Nodes(new) \subseteq Nodes(box) \cup {m}
  BY <1>1 DEF Nodes
<1>3. Nodes(box) \subseteq Nodes(new)
  BY <1>1 DEF Nodes
<1>4. m \in Nodes(new)
  <2>1. Len(box) + 1 \in DOMAIN new
    BY <1>1
  <2> QED
    BY <1>1, <2>1 DEF Nodes
<1> QED
  BY <1>1, <1>2, <1>3, <1>4 DEF new

\* What is read was there, and nothing is new.
LEMMA ReadBox ==
    ASSUME NEW S, NEW box \in Seq(S), box # <<>>
    PROVE  /\ Head(box) \in S
           /\ Head(box) \in Nodes(box)
           /\ Tail(box) \in Seq(S)
           /\ Nodes(Tail(box)) \subseteq Nodes(box)
<1> DEFINE rest == Tail(box)
<1>1. /\ rest \in Seq(S)
      /\ DOMAIN rest = 1..(Len(box) - 1)
      /\ DOMAIN box = 1..Len(box)
      /\ \A i \in 1..(Len(box) - 1) : rest[i] = box[i + 1]
      /\ Len(box) \in Nat \ {0}
      /\ Head(box) = box[1]
      /\ box[1] \in S
  OBVIOUS
<1> HIDE DEF rest
<1>2. Nodes(rest) \subseteq Nodes(box)
  <2>1. ASSUME NEW i \in DOMAIN rest PROVE rest[i] \in Nodes(box)
    <3>1. i + 1 \in DOMAIN box /\ rest[i] = box[i + 1]
      BY <1>1
    <3> QED
      BY <3>1 DEF Nodes
  <2> QED
    BY <2>1 DEF Nodes
<1>3. Head(box) \in Nodes(box)
  <2>1. 1 \in DOMAIN box
    BY <1>1
  <2> QED
    BY <1>1, <2>1 DEF Nodes
<1> QED
  BY <1>1, <1>2, <1>3 DEF rest

\* An empty box holds nothing.
LEMMA EmptyBox == Nodes(<<>>) = {}
BY DEF Nodes

\* What a message of a type carries.
LEMMA MessageParts ==
    ASSUME NEW m \in Messages
    PROVE  /\ m.type = "WNQ" => m.is_working \in BOOLEAN
           /\ m.type = "QWQ" => m.os \in OsTypes /\ m.count \in Counts
BY DEF Messages, Outputs, Notices, WRQ, HBQ, HBP, WNQ, QWQ, CLOSED, BROKEN

\* What a worker server has to send is a message of a type of its own.
LEMMA OutputParts ==
    /\ HBQ \in Outputs /\ HBP \in Outputs
    /\ \A b \in BOOLEAN : WNQ(b) \in Notices
    /\ Outputs \subseteq Messages /\ Notices \subseteq Outputs
    /\ \A m \in Notices : m.type = "WNQ"
    /\ HBQ.type = "HBQ" /\ HBP.type = "HBP"
    /\ None \notin Outputs
BY NoneIsNothing DEF Messages, Outputs, Notices, WNQ, HBQ, HBP

-----------------------------------------------------------------------------
(* Type correctness.                                                        *)

\* A worker that a query finds is listed.
LEMMA FoundListed ==
    ASSUME NEW r, NEW o, NEW w \in Workers, Found(r, o, w)
    PROVE  Listed(r, w)
BY DEF Found, FreeIn, Listed

\* The registry stays in order in every step, because each operation is asked
\* for a worker in the state it expects: not listed for a registration, listed
\* for all the others.
LEMMA RegistryStep ==
    ASSUME TypeOK, RegistryOK(registry), PointersMatch, SessionsOK,
           [Next]_vars
    PROVE  RegistryOK(registry')
<1>1. ASSUME NEW s \in Sessions, WorkerRegisterRequest(s)
      PROVE  RegistryOK(registry')
  <2>1. accepted[s] \in Workers
    <3>1. /\ inbox[s] \in Seq(Messages) /\ inbox[s] # <<>>
          /\ Head(inbox[s]).type = "WRQ"
      BY <1>1 DEF WorkerRegisterRequest, Input, TypeOK
    <3>2. Head(inbox[s]) \in Nodes(inbox[s])
      BY <3>1, ReadBox
    <3> QED
      BY <3>1, <3>2 DEF SessionsOK
  <2> QED
    BY <1>1, <2>1, RegisteredOK DEF WorkerRegisterRequest
<1>2. ASSUME NEW s \in Sessions, WorkerNoticeRequest(s)
      PROVE  RegistryOK(registry')
  <2>1. /\ inbox[s] \in Seq(Messages) /\ inbox[s] # <<>>
        /\ Head(inbox[s]).type = "WNQ"
    BY <1>2 DEF WorkerNoticeRequest, Input, TypeOK
  <2>2. Head(inbox[s]) \in Nodes(inbox[s]) /\ Head(inbox[s]) \in Messages
    BY <2>1, ReadBox
  <2>3. accepted[s] \in Workers
    BY <2>1, <2>2 DEF SessionsOK
  <2>4. Head(inbox[s]).is_working \in BOOLEAN
    BY <2>1, <2>2, MessageParts
  <2> QED
    BY <1>2, <2>3, <2>4, NoticedOK DEF WorkerNoticeRequest
<1>3. ASSUME NEW s \in Sessions, CloseAcceptedSocket(s)
      PROVE  RegistryOK(registry')
  <2>1. CASE node[s] = None
    BY <1>3, <2>1 DEF CloseAcceptedSocket
  <2>2. CASE node[s] # None
    <3>1. node[s] \in Workers /\ Listed(registry, node[s])
      BY <2>2 DEF TypeOK, PointersMatch
    <3>2. registry' = Unregistered(registry, node[s])
      BY <1>3, <2>2 DEF CloseAcceptedSocket
    <3> QED
      BY <3>1, <3>2, UnregisteredOK
  <2> QED
    BY <2>1, <2>2
<1>4. ASSUME NEW w \in Workers, FindOne(w)
      PROVE  RegistryOK(registry')
  BY <1>4, FoundListed, GivenOK DEF FindOne
<1>5. CASE Tick
  BY <1>5, NextSecondOK DEF Tick
<1>6. ASSUME NEW how, Ends(how)
      PROVE  RegistryOK(registry')
  BY <1>6, EmptyRegistryOK DEF Ends
<1>7. CASE UNCHANGED registry
  BY <1>7
<1>8. ASSUME NEW s \in Sessions,
             OnInput(s) \/ AcceptedSocketOutput(s) \/ AcceptedSocketError(s)
                \/ HeartBeat(s)
      PROVE  RegistryOK(registry')
  <2>1. CASE OnInput(s)
    <3>1. CASE \/ HeartBeatResponse(s) \/ WorkerHeartBeat(s)
               \/ QueryWorkersRequest(s)
      BY <3>1, <1>7 DEF HeartBeatResponse, WorkerHeartBeat,
                        QueryWorkersRequest, registerVars
    <3>2. CASE PeerClosed(s)
      BY <3>2, <1>3 DEF PeerClosed
    <3>3. CASE ReceiveFails(s)
      BY <3>3, <1>6 DEF ReceiveFails
    <3> QED
      BY <2>1, <3>1, <3>2, <3>3, <1>1, <1>2 DEF OnInput
  <2>2. CASE AcceptedSocketOutput(s)
    BY <2>2, <1>7 DEF AcceptedSocketOutput, registerVars
  <2>3. CASE AcceptedSocketError(s)
    BY <2>3, <1>3 DEF AcceptedSocketError
  <2>4. CASE HeartBeatRequest(s)
    BY <2>4, <1>7 DEF HeartBeatRequest, registerVars
  <2>5. CASE HeartBeatLost(s)
    BY <2>5, <1>6 DEF HeartBeatLost
  <2> QED
    BY <1>8, <2>1, <2>2, <2>3, <2>4, <2>5 DEF HeartBeat
<1>9. CASE ClientNext
  <2>1. ASSUME NEW c \in Clients, AcceptFails(c)
        PROVE  RegistryOK(registry')
    BY <2>1, <1>6 DEF AcceptFails
  <2>2. ASSUME NEW c \in Clients, NEW s \in Sessions, Connect(c, s)
        PROVE  RegistryOK(registry')
    BY <2>2, <1>7 DEF Connect, registerVars
  <2>3. ASSUME NEW c \in Clients, NEW o, NEW n, Ask(c, o, n)
        PROVE  RegistryOK(registry')
    BY <2>3, <1>7 DEF Ask, registerVars
  <2>4. ASSUME NEW c \in Clients, NEW end, Leave(c, end)
        PROVE  RegistryOK(registry')
    BY <2>4, <1>7 DEF Leave, registerVars
  <2>5. ASSUME NEW c \in Clients, Cut(c)
        PROVE  RegistryOK(registry')
    BY <2>5, <1>7 DEF Cut, registerVars
  <2>6. ASSUME NEW w \in Workers, Turns(w) \/ BeatsHeart(w) \/ WorkerSends(w)
        PROVE  RegistryOK(registry')
    BY <2>6, <1>7 DEF Turns, BeatsHeart, WorkerSends, registerVars
  <2> QED
    BY <1>9, <2>1, <2>2, <2>3, <2>4, <2>5, <2>6 DEF ClientNext
<1>10. CASE Finding \/ Tick \/ ForkAgain
  BY <1>10, <1>4, <1>5, <1>7 DEF Finding, FindNone, ForkAgain, registerVars
<1>11. CASE UNCHANGED vars
  BY <1>11, <1>7 DEF vars, registerVars
<1> QED
  BY <1>8, <1>9, <1>10, <1>11 DEF Next, ServerNext

-----------------------------------------------------------------------------
(* The pointers of the sessions.                                            *)

\* A step that changes no session and no list keeps them.
LEMMA SameListedKeepsPointers ==
    ASSUME PointersMatch, TypeOK, UNCHANGED <<accepted, node>>,
           SameListed(registry, registry')
    PROVE  PointersMatch'
BY DEF PointersMatch, SameListed, TypeOK

\* Closing a session takes the worker out of the lists that it pointed to.
LEMMA CloseKeepsPointers ==
    ASSUME TypeOK, RegistryOK(registry), PointersMatch,
           NEW s \in Sessions, CloseAcceptedSocket(s)
    PROVE  PointersMatch'
<1>1. /\ accepted \in [Sessions -> Clients \cup {None}]
      /\ node \in [Sessions -> Workers \cup {None}]
      /\ accepted' = [accepted EXCEPT ![s] = None]
      /\ node' = [node EXCEPT ![s] = None]
  BY DEF TypeOK, CloseAcceptedSocket
<1>2. /\ node'[s] = None
      /\ \A t \in Sessions \ {s} : /\ node'[t] = node[t]
                                   /\ accepted'[t] = accepted[t]
  BY <1>1
<1>3. \A v \in Workers : Listed(registry', v) <=> v # node[s] /\ Listed(registry, v)
  <2>1. CASE node[s] = None
    <3>1. registry' = registry
      BY <2>1 DEF CloseAcceptedSocket
    <3> QED
      BY <2>1, <3>1
  <2>2. CASE node[s] # None
    <3>1. node[s] \in Workers /\ Listed(registry, node[s])
      BY <2>2, <1>1 DEF PointersMatch
    <3>2. registry' = Unregistered(registry, node[s])
      BY <2>2 DEF CloseAcceptedSocket
    <3> QED
      BY <3>1, <3>2, UnregisteredOK
  <2> QED
    BY <2>1, <2>2
<1>4. ASSUME NEW t \in Sessions, node'[t] # None
      PROVE  accepted'[t] = node'[t] /\ Listed(registry', node'[t])
  <2>1. t # s /\ node[t] # None
    BY <1>2, <1>4
  <2>2. /\ accepted[t] = node[t] /\ Listed(registry, node[t])
        /\ node[t] # node[s]
    BY <2>1 DEF PointersMatch
  <2>3. node[t] \in Workers
    BY <2>1, <1>1
  <2> QED
    BY <1>2, <1>3, <2>1, <2>2, <2>3
<1>5. ASSUME NEW v \in Workers, Listed(registry', v)
      PROVE  \E t \in Sessions : node'[t] = v
  <2>1. v # node[s] /\ Listed(registry, v)
    BY <1>3, <1>5
  <2>2. PICK t \in Sessions : node[t] = v
    BY <2>1 DEF PointersMatch
  <2> QED
    BY <1>2, <2>1, <2>2
<1>6. ASSUME NEW t \in Sessions, NEW u \in Sessions, node'[t] = node'[u],
             node'[t] # None
      PROVE  t = u
  <2>1. node[t] = node[u] /\ node[t] # None
    BY <1>2, <1>6
  <2> QED
    BY <2>1 DEF PointersMatch
<1> QED
  BY <1>4, <1>5, <1>6 DEF PointersMatch

\* A registration makes one pointer for one more worker.
LEMMA RegisterKeepsPointers ==
    ASSUME TypeOK, RegistryOK(registry), PointersMatch, SessionsOK,
           NEW s \in Sessions, WorkerRegisterRequest(s)
    PROVE  PointersMatch'
<1> DEFINE w == accepted[s]
<1>1. w \in Workers
  <2>1. /\ inbox[s] \in Seq(Messages) /\ inbox[s] # <<>>
        /\ Head(inbox[s]).type = "WRQ"
    BY DEF WorkerRegisterRequest, Input, TypeOK
  <2>2. Head(inbox[s]) \in Nodes(inbox[s])
    BY <2>1, ReadBox
  <2> QED
    BY <2>1, <2>2 DEF SessionsOK
<1>2. /\ node \in [Sessions -> Workers \cup {None}]
      /\ accepted' = accepted
  BY DEF TypeOK, WorkerRegisterRequest
<1>3. CASE Listed(registry, w)
  <2>1. UNCHANGED <<accepted, node, registry>>
    BY <1>3, <1>2 DEF WorkerRegisterRequest
  <2> QED
    BY <2>1, SameListedKeepsPointers DEF SameListed
<1>4. CASE ~Listed(registry, w)
  <2>1. /\ registry' = Registered(registry, w)
        /\ node' = [node EXCEPT ![s] = w]
    BY <1>4 DEF WorkerRegisterRequest
  <2>2. \A v \in Workers : Listed(registry', v) <=> v = w \/ Listed(registry, v)
    BY <1>1, <1>4, <2>1, RegisteredOK
  <2>3. /\ node'[s] = w
        /\ \A t \in Sessions \ {s} : node'[t] = node[t]
    BY <1>2, <2>1
  <2>4. \A t \in Sessions : node[t] # w
    BY <1>1, <1>4 DEF PointersMatch
  <2>5. node[s] = None
    BY <1>4, <2>4 DEF PointersMatch
  <2>6. ASSUME NEW t \in Sessions, node'[t] # None
        PROVE  accepted'[t] = node'[t] /\ Listed(registry', node'[t])
    <3>1. CASE t = s
      BY <3>1, <1>1, <1>2, <2>2, <2>3
    <3>2. CASE t # s
      <4>1. /\ node[t] \in Workers /\ accepted[t] = node[t]
            /\ Listed(registry, node[t])
        BY <3>2, <2>3, <2>6, <1>2 DEF PointersMatch
      <4> QED
        BY <3>2, <4>1, <1>2, <2>2, <2>3
    <3> QED
      BY <3>1, <3>2
  <2>7. ASSUME NEW v \in Workers, Listed(registry', v)
        PROVE  \E t \in Sessions : node'[t] = v
    <3>1. CASE v = w
      BY <3>1, <2>3
    <3>2. CASE v # w
      <4>1. PICK t \in Sessions : node[t] = v
        BY <3>2, <2>2, <2>7 DEF PointersMatch
      <4>2. t # s
        BY <4>1, <2>5
      <4> QED
        BY <4>1, <4>2, <2>3
    <3> QED
      BY <3>1, <3>2
  <2>8. ASSUME NEW t \in Sessions, NEW u \in Sessions, node'[t] = node'[u],
               node'[t] # None
        PROVE  t = u
    BY <2>3, <2>4, <2>8 DEF PointersMatch
  <2> QED
    BY <2>6, <2>7, <2>8 DEF PointersMatch
<1> QED
  BY <1>3, <1>4

\* A session that is taken points nowhere yet.
LEMMA ConnectKeepsPointers ==
    ASSUME TypeOK, PointersMatch, NEW c \in Clients, NEW s \in Sessions,
           Connect(c, s)
    PROVE  PointersMatch'
<1>1. /\ accepted \in [Sessions -> Clients \cup {None}]
      /\ accepted' = [accepted EXCEPT ![s] = c]
      /\ accepted[s] = None
      /\ node' = node /\ registry' = registry
  BY DEF TypeOK, Connect, registerVars
<1>2. node[s] = None
  BY <1>1 DEF PointersMatch
<1>3. \A t \in Sessions \ {s} : accepted'[t] = accepted[t]
  BY <1>1
<1> QED
  BY <1>1, <1>2, <1>3 DEF PointersMatch

\* The end of the process leaves neither pointers nor lists.
LEMMA EndKeepsPointers ==
    ASSUME NEW how, Ends(how)
    PROVE  PointersMatch'
<1>1. /\ \A s \in Sessions : node'[s] = None
      /\ registry' = EmptyRegistry
  BY DEF Ends
<1> QED
  BY <1>1, EmptyRegistryOK DEF PointersMatch

\* Every step keeps the pointers and the lists together.
LEMMA PointersStep ==
    ASSUME TypeOK, RegistryOK(registry), PointersMatch, SessionsOK,
           [Next]_vars
    PROVE  PointersMatch'
<1>1. CASE UNCHANGED <<accepted, node, registry>>
  BY <1>1, SameListedKeepsPointers DEF SameListed
<1>2. ASSUME NEW s \in Sessions, WorkerNoticeRequest(s)
      PROVE  PointersMatch'
  <2>1. /\ inbox[s] \in Seq(Messages) /\ inbox[s] # <<>>
        /\ Head(inbox[s]).type = "WNQ"
    BY <1>2 DEF WorkerNoticeRequest, Input, TypeOK
  <2>2. Head(inbox[s]) \in Nodes(inbox[s]) /\ Head(inbox[s]) \in Messages
    BY <2>1, ReadBox
  <2>3. accepted[s] \in Workers
    BY <2>1, <2>2 DEF SessionsOK
  <2>4. Head(inbox[s]).is_working \in BOOLEAN
    BY <2>1, <2>2, MessageParts
  <2>5. CASE Listed(registry, accepted[s])
    <3>1. SameListed(registry, registry')
      BY <1>2, <2>3, <2>4, <2>5, NoticedOK DEF WorkerNoticeRequest
    <3> QED
      BY <1>2, <3>1, SameListedKeepsPointers DEF WorkerNoticeRequest
  <2>6. CASE ~Listed(registry, accepted[s])
    BY <1>1, <1>2, <2>6 DEF WorkerNoticeRequest
  <2> QED
    BY <2>5, <2>6
<1>3. ASSUME NEW w \in Workers, FindOne(w)
      PROVE  PointersMatch'
  <2>1. SameListed(registry, registry')
    BY <1>3, FoundListed, GivenOK DEF FindOne
  <2> QED
    BY <1>3, <2>1, SameListedKeepsPointers DEF FindOne, sessionVars
<1>4. CASE Tick
  <2>1. SameListed(registry, registry')
    BY <1>4, NextSecondOK DEF Tick
  <2> QED
    BY <1>4, <2>1, SameListedKeepsPointers DEF Tick, sessionVars
<1>5. ASSUME NEW s \in Sessions,
             OnInput(s) \/ AcceptedSocketOutput(s) \/ AcceptedSocketError(s)
                \/ HeartBeat(s)
      PROVE  PointersMatch'
  <2>1. CASE OnInput(s)
    <3>1. CASE \/ HeartBeatResponse(s) \/ WorkerHeartBeat(s)
               \/ QueryWorkersRequest(s)
      BY <3>1, <1>1 DEF HeartBeatResponse, WorkerHeartBeat,
                        QueryWorkersRequest, registerVars
    <3>2. CASE PeerClosed(s)
      BY <3>2, CloseKeepsPointers DEF PeerClosed
    <3>3. CASE ReceiveFails(s)
      BY <3>3, EndKeepsPointers DEF ReceiveFails
    <3>4. CASE WorkerRegisterRequest(s)
      BY <3>4, RegisterKeepsPointers
    <3> QED
      BY <2>1, <3>1, <3>2, <3>3, <3>4, <1>2 DEF OnInput
  <2>2. CASE AcceptedSocketOutput(s)
    BY <2>2, <1>1 DEF AcceptedSocketOutput, registerVars
  <2>3. CASE AcceptedSocketError(s)
    BY <2>3, CloseKeepsPointers DEF AcceptedSocketError
  <2>4. CASE HeartBeatRequest(s)
    BY <2>4, <1>1 DEF HeartBeatRequest, registerVars
  <2>5. CASE HeartBeatLost(s)
    BY <2>5, EndKeepsPointers DEF HeartBeatLost
  <2> QED
    BY <1>5, <2>1, <2>2, <2>3, <2>4, <2>5 DEF HeartBeat
<1>6. CASE ClientNext
  <2>1. ASSUME NEW c \in Clients, AcceptFails(c)
        PROVE  PointersMatch'
    BY <2>1, EndKeepsPointers DEF AcceptFails
  <2>2. ASSUME NEW c \in Clients, NEW o, NEW n, Ask(c, o, n)
        PROVE  PointersMatch'
    BY <2>2, <1>1 DEF Ask, registerVars
  <2>3. ASSUME NEW c \in Clients, NEW end, Leave(c, end)
        PROVE  PointersMatch'
    BY <2>3, <1>1 DEF Leave, registerVars
  <2>4. ASSUME NEW c \in Clients, Cut(c)
        PROVE  PointersMatch'
    BY <2>4, <1>1 DEF Cut, registerVars, sessionVars
  <2>5. ASSUME NEW w \in Workers, Turns(w) \/ BeatsHeart(w) \/ WorkerSends(w)
        PROVE  PointersMatch'
    BY <2>5, <1>1 DEF Turns, BeatsHeart, WorkerSends, registerVars, sessionVars
  <2> QED
    BY <1>6, <2>1, <2>2, <2>3, <2>4, <2>5, ConnectKeepsPointers DEF ClientNext
<1>7. CASE Finding \/ Tick \/ ForkAgain
  <2>1. CASE FindNone
    BY <2>1, <1>1 DEF FindNone
  <2>2. CASE ForkAgain
    BY <2>2, <1>1 DEF ForkAgain, registerVars, sessionVars
  <2> QED
    BY <1>7, <2>1, <2>2, <1>3, <1>4 DEF Finding
<1>8. CASE UNCHANGED vars
  BY <1>8, <1>1 DEF vars, registerVars, sessionVars
<1> QED
  BY <1>5, <1>6, <1>7, <1>8 DEF Next, ServerNext

-----------------------------------------------------------------------------
(* Types of the other variables.                                            *)

\* The process starts with no session and nothing registered.
LEMMA InitOK == Init => RegisterInv
<1> SUFFICES ASSUME Init PROVE RegisterInv
  OBVIOUS
<1>1. RegistryOK(registry) /\ \A w \in Workers : ~Listed(registry, w)
  BY EmptyRegistryOK DEF Init
<1>2. TypeOK
  <2>1. registry \in Registry
    BY <1>1 DEF RegistryOK
  <2>2. MaxFaults \in Nat
    OBVIOUS
  <2> QED
    BY <2>1, <2>2 DEF Init, TypeOK, NoQuery, MAXCNT_HEARTBEAT_LOST
<1>3. PointersMatch
  BY <1>1 DEF Init, PointersMatch
<1>4. SessionsOK
  BY EmptyBox DEF Init, SessionsOK, Clients
<1> QED
  BY <1>1, <1>2, <1>3, <1>4 DEF RegisterInv

\* The end of the process leaves well typed variables.
LEMMA EndType ==
    ASSUME TypeOK, NEW how \in {"exited", "core"}, Ends(how),
           faults' \in 0..MaxFaults
    PROVE  TypeOK'
<1>1. registry' \in Registry
  BY EmptyRegistryOK DEF Ends, RegistryOK
<1> QED
  BY <1>1 DEF Ends, TypeOK, NoQuery, MAXCNT_HEARTBEAT_LOST

\* So does closing a session.
LEMMA CloseType ==
    ASSUME TypeOK, registry' \in Registry, NEW s \in Sessions,
           CloseAcceptedSocket(s), UNCHANGED <<up, query, clientVars, faults>>
    PROVE  TypeOK'
BY DEF TypeOK, CloseAcceptedSocket, clientVars, MAXCNT_HEARTBEAT_LOST

\* What a client sends arrives in a well typed inbox.
LEMMA SendType ==
    ASSUME inbox \in [Sessions -> Seq(Messages)], NEW s \in Sessions,
           NEW m \in Messages,
           inbox' = [inbox EXCEPT ![s] = Append(inbox[s], m)]
    PROVE  inbox' \in [Sessions -> Seq(Messages)]
<1>1. Append(inbox[s], m) \in Seq(Messages)
  BY AppendBox
<1> QED
  BY <1>1

\* What a worker server has to send next is well typed.
LEMMA ReplacesType ==
    ASSUME TypeOK, NEW w, NEW m \in Outputs \cup {None}, Replaces(w, m)
    PROVE  /\ unsent' \in [Workers -> Outputs \cup {None}]
           /\ faults' \in 0..MaxFaults
<1>1. unsent' \in [Workers -> Outputs \cup {None}]
  BY DEF Replaces, TypeOK
<1>2. faults' = faults \/ Fault
  BY DEF Replaces
<1>3. faults' \in 0..MaxFaults
  BY <1>2 DEF Fault, TypeOK
<1> QED
  BY <1>1, <1>3

\* Every step keeps the types of all the variables.
LEMMA TypeStep ==
    ASSUME TypeOK, SessionsOK, registry' \in Registry, [Next]_vars
    PROVE  TypeOK'
<1> USE DEF registerVars, sessionVars, clientVars
<1>1. ASSUME NEW s \in Sessions, NEW t, Input(s, t), Received(s)
      PROVE  /\ inbox' \in [Sessions -> Seq(Messages)]
             /\ Head(inbox[s]) \in Messages
             /\ Head(inbox[s]) \in Nodes(inbox[s])
             /\ Head(inbox[s]).type = t
  <2>1. /\ inbox \in [Sessions -> Seq(Messages)]
        /\ inbox[s] \in Seq(Messages) /\ inbox[s] # <<>>
    BY <1>1 DEF Input, TypeOK
  <2>2. Head(inbox[s]) \in Nodes(inbox[s]) /\ Head(inbox[s]) \in Messages
    BY <2>1, ReadBox
  <2>3. Tail(inbox[s]) \in Seq(Messages)
    BY <2>1, ReadBox
  <2> QED
    BY <1>1, <2>1, <2>2, <2>3 DEF Input, Received
<1>2. ASSUME NEW s \in Sessions, WorkerRegisterRequest(s)
      PROVE  TypeOK'
  <2>1. inbox' \in [Sessions -> Seq(Messages)]
    BY <1>1, <1>2 DEF WorkerRegisterRequest
  <2>2. accepted[s] \in Workers
    BY <1>1, <1>2 DEF WorkerRegisterRequest, SessionsOK
  <2>3. node' \in [Sessions -> Workers \cup {None}]
    BY <1>2, <2>2 DEF WorkerRegisterRequest, TypeOK
  <2>4. send_buffer' \in [Sessions -> Answers \cup {None}]
    BY <1>2 DEF WorkerRegisterRequest, TypeOK, Answer, Answers
  <2> QED
    BY <1>2, <2>1, <2>3, <2>4 DEF WorkerRegisterRequest, TypeOK
<1>3. ASSUME NEW s \in Sessions, WorkerNoticeRequest(s)
      PROVE  TypeOK'
  <2>1. inbox' \in [Sessions -> Seq(Messages)]
    BY <1>1, <1>3 DEF WorkerNoticeRequest
  <2> QED
    BY <1>3, <2>1 DEF WorkerNoticeRequest, TypeOK
<1>4. ASSUME NEW s \in Sessions, HeartBeatResponse(s)
      PROVE  TypeOK'
  <2>1. inbox' \in [Sessions -> Seq(Messages)]
    BY <1>1, <1>4 DEF HeartBeatResponse
  <2>2. heartbeat_lost_count' \in [Sessions -> 0..(MAXCNT_HEARTBEAT_LOST + 1)]
    BY <1>4 DEF HeartBeatResponse, TypeOK, MAXCNT_HEARTBEAT_LOST
  <2> QED
    BY <1>4, <2>1, <2>2 DEF HeartBeatResponse, TypeOK
<1>5. ASSUME NEW s \in Sessions, QueryWorkersRequest(s)
      PROVE  TypeOK'
  <2> DEFINE req == Head(inbox[s])
  <2>1. inbox' \in [Sessions -> Seq(Messages)]
    BY <1>1, <1>5 DEF QueryWorkersRequest
  <2>2. req.os \in OsTypes /\ req.count \in Counts
    BY <1>1, <1>5, MessageParts DEF QueryWorkersRequest
  <2>3. <<>> \in Seq(Workers)
    OBVIOUS
  <2>4. query' \in Asking \cup {NoQuery}
    <3>1. \/ query' = [session |-> s, os |-> req.os, count |-> req.count,
                       nodes |-> <<>>]
          \/ query' = query
      BY <1>5 DEF QueryWorkersRequest
    <3>2. [session |-> s, os |-> req.os, count |-> req.count, nodes |-> <<>>]
             \in Asking
      BY <2>2, <2>3 DEF Asking
    <3> QED
      BY <3>1, <3>2 DEF TypeOK
  <2>5. send_buffer' \in [Sessions -> Answers \cup {None}]
    BY <1>5 DEF QueryWorkersRequest, TypeOK, Answer, Answers
  <2> QED
    BY <1>5, <2>1, <2>4, <2>5 DEF QueryWorkersRequest, TypeOK
<1>5a. ASSUME NEW s \in Sessions, WorkerHeartBeat(s)
       PROVE  TypeOK'
  <2>1. inbox' \in [Sessions -> Seq(Messages)]
    BY <1>1, <1>5a DEF WorkerHeartBeat
  <2>2. send_buffer' \in [Sessions -> Answers \cup {None}]
    BY <1>5a DEF WorkerHeartBeat, TypeOK, Answer, Answers
  <2> QED
    BY <1>5a, <2>1, <2>2 DEF WorkerHeartBeat, TypeOK
<1>6. ASSUME NEW s \in Sessions, OnInput(s)
      PROVE  TypeOK'
  <2>1. CASE PeerClosed(s)
    BY <2>1, CloseType DEF PeerClosed
  <2>2. CASE ReceiveFails(s)
    <3>1. faults' \in 0..MaxFaults
      BY <2>2 DEF ReceiveFails, TypeOK
    <3> QED
      BY <2>2, <3>1, EndType DEF ReceiveFails
  <2> QED
    BY <1>6, <2>1, <2>2, <1>2, <1>3, <1>4, <1>5, <1>5a DEF OnInput
<1>7. ASSUME NEW s \in Sessions, AcceptedSocketOutput(s)
      PROVE  TypeOK'
  <2> DEFINE c == accepted[s]
  <2>1. c \in Clients
    BY <1>7 DEF AcceptedSocketOutput, SessionsOK, TypeOK
  <2>2. send_buffer' \in [Sessions -> Answers \cup {None}]
    BY <1>7 DEF AcceptedSocketOutput, TypeOK
  <2>3. UNCHANGED <<up, query, accepted, node, heartbeat_lost_count, busy>>
    BY <1>7 DEF AcceptedSocketOutput, Hears
  <2>4. inbox' \in [Sessions -> Seq(Messages)]
    <3>1. CLOSED \in Messages
      BY DEF Messages
    <3>2. \/ inbox' = inbox
          \/ inbox' = [inbox EXCEPT ![s] = Append(inbox[s], CLOSED)]
      BY <1>7 DEF AcceptedSocketOutput, Hears
    <3>3. inbox \in [Sessions -> Seq(Messages)]
      BY DEF TypeOK
    <3> QED
      BY <3>1, <3>2, <3>3, SendType
  <2>5. link' \in [Clients -> Sessions \cup {None}]
    BY <1>7 DEF AcceptedSocketOutput, Hears, Disconnects, TypeOK
  <2>6. progress' \in [Workers -> {"CLOSED", "CONNECTED", "REGISTED"}]
    BY <1>7 DEF AcceptedSocketOutput, Hears, Disconnects, TypeOK
  <2>7. /\ unsent' \in [Workers -> Outputs \cup {None}]
        /\ faults' \in 0..MaxFaults
    <3>1. CASE UNCHANGED <<unsent, faults>>
      BY <3>1 DEF TypeOK
    <3>2. CASE Disconnects(c) /\ UNCHANGED faults
      BY <3>2 DEF Disconnects, TypeOK
    <3>3. CASE Replaces(c, None) \/ Replaces(c, HBP)
      BY <3>3, ReplacesType, OutputParts
    <3> QED
      BY <1>7, <3>1, <3>2, <3>3 DEF AcceptedSocketOutput, Hears
  <2> QED
    BY <2>2, <2>3, <2>4, <2>5, <2>6, <2>7 DEF TypeOK
<1>8. ASSUME NEW s \in Sessions, HeartBeat(s)
      PROVE  TypeOK'
  <2>1. CASE HeartBeatLost(s)
    <3>1. faults' \in 0..MaxFaults
      BY <2>1 DEF HeartBeatLost, TypeOK
    <3> QED
      BY <2>1, <3>1, EndType DEF HeartBeatLost
  <2>2. CASE HeartBeatRequest(s)
    <3>1. send_buffer' \in [Sessions -> Answers \cup {None}]
      BY <2>2 DEF HeartBeatRequest, TypeOK, Answer, Answers
    <3>2. heartbeat_lost_count' \in
              [Sessions -> 0..(MAXCNT_HEARTBEAT_LOST + 1)]
      <4>1. /\ heartbeat_lost_count \in [Sessions -> 0..4]
            /\ heartbeat_lost_count[s] <= 3
            /\ heartbeat_lost_count' =
                  [heartbeat_lost_count EXCEPT
                       ![s] = heartbeat_lost_count[s] + 1]
        BY <2>2 DEF HeartBeatRequest, TypeOK, MAXCNT_HEARTBEAT_LOST
      <4>2. heartbeat_lost_count[s] + 1 \in 0..4
        BY <4>1
      <4> QED
        BY <4>1, <4>2 DEF MAXCNT_HEARTBEAT_LOST
    <3> QED
      BY <2>2, <3>1, <3>2 DEF HeartBeatRequest, TypeOK
  <2> QED
    BY <1>8, <2>1, <2>2 DEF HeartBeat
<1>9. ASSUME NEW w \in Workers, FindOne(w)
      PROVE  TypeOK'
  <2>1. query \in Asking
    BY <1>9 DEF FindOne, TypeOK
  <2>2. Append(query.nodes, w) \in Seq(Workers)
    BY <2>1 DEF Asking
  <2>3. query' = [query EXCEPT !.nodes = Append(query.nodes, w)]
    BY <1>9 DEF FindOne
  <2>4. query' \in Asking
    BY <2>1, <2>2, <2>3 DEF Asking
  <2> QED
    BY <1>9, <2>4 DEF FindOne, TypeOK
<1>10. CASE FindNone
  <2>1. send_buffer' \in [Sessions -> Answers \cup {None}]
    BY <1>10 DEF FindNone, TypeOK, Answer, Answers
  <2> QED
    BY <1>10, <2>1 DEF FindNone, TypeOK
<1>11. CASE Tick \/ ForkAgain
  BY <1>11 DEF Tick, ForkAgain, TypeOK
<1>12. ASSUME NEW c \in Clients, NEW s \in Sessions, Connect(c, s)
       PROVE  TypeOK'
  <2>1. PICK box \in Seq(Messages) : box = <<WRQ>>
    <3>1. WRQ \in Messages
      BY DEF Messages
    <3>2. <<WRQ>> \in Seq(Messages)
      BY <3>1
    <3> QED
      BY <3>2, Zenon
  <2>2. inbox' \in [Sessions -> Seq(Messages)]
    <3>1. inbox' = inbox \/ inbox' = [inbox EXCEPT ![s] = box]
      BY <1>12, <2>1 DEF Connect
    <3> QED
      BY <3>1 DEF TypeOK
  <2>3. progress' \in [Workers -> {"CLOSED", "CONNECTED", "REGISTED"}]
    BY <1>12 DEF Connect, TypeOK
  <2> QED
    BY <1>12, <2>2, <2>3 DEF Connect, TypeOK
<1>13. Fault => faults' \in 0..MaxFaults
  BY DEF Fault, TypeOK
<1>14. ASSUME NEW c \in Clients, AcceptFails(c)
       PROVE  TypeOK'
  BY <1>13, <1>14, EndType DEF AcceptFails
<1>15. ASSUME NEW c \in Clients, NEW o \in OsTypes, NEW n \in Counts,
              Ask(c, o, n)
       PROVE  TypeOK'
  <2>1. QWQ(o, n) \in Messages
    BY DEF Messages
  <2>2. /\ link[c] \in Sessions
        /\ inbox' = [inbox EXCEPT ![link[c]] = Append(inbox[link[c]], QWQ(o, n))]
        /\ inbox \in [Sessions -> Seq(Messages)]
    BY <1>15 DEF Ask, TypeOK
  <2>3. inbox' \in [Sessions -> Seq(Messages)]
    BY <2>1, <2>2, SendType
  <2> QED
    BY <1>15, <2>3 DEF Ask, TypeOK
<1>16. ASSUME NEW c \in Clients, Forgets(c)
       PROVE  /\ link' \in [Clients -> Sessions \cup {None}]
              /\ progress' \in [Workers -> {"CLOSED", "CONNECTED", "REGISTED"}]
              /\ busy' \in [Workers -> BOOLEAN]
              /\ unsent' \in [Workers -> Outputs \cup {None}]
  BY <1>16 DEF Forgets, Disconnects, TypeOK
<1>17. ASSUME NEW c \in Clients, NEW end \in {CLOSED, BROKEN}, Leave(c, end)
       PROVE  TypeOK'
  <2>1. end \in Messages
    BY DEF Messages
  <2>2. /\ link[c] \in Sessions
        /\ inbox' = [inbox EXCEPT ![link[c]] = Append(inbox[link[c]], end)]
        /\ inbox \in [Sessions -> Seq(Messages)]
    BY <1>17 DEF Leave, TypeOK
  <2>3. inbox' \in [Sessions -> Seq(Messages)]
    BY <2>1, <2>2, SendType
  <2> QED
    BY <1>13, <1>16, <1>17, <2>3 DEF Leave, TypeOK
<1>18. ASSUME NEW c \in Clients, Cut(c)
       PROVE  TypeOK'
  BY <1>13, <1>16, <1>18 DEF Cut, TypeOK
<1>19. ASSUME NEW w \in Workers, Turns(w) \/ BeatsHeart(w)
       PROVE  TypeOK'
  <2>1. busy' \in [Workers -> BOOLEAN]
    BY <1>19 DEF Turns, BeatsHeart, TypeOK
  <2>2. WNQ(busy'[w]) \in Outputs /\ HBQ \in Outputs
    BY <2>1, OutputParts
  <2>3. /\ unsent' \in [Workers -> Outputs \cup {None}]
        /\ faults' \in 0..MaxFaults
    <3>1. CASE UNCHANGED <<unsent, faults>>
      BY <3>1 DEF TypeOK
    <3>2. CASE Replaces(w, HBQ)
      BY <2>2, <3>2, ReplacesType
    <3>3. CASE Replaces(w, WNQ(busy'[w]))
      <4>1. PICK m \in Outputs : m = WNQ(busy'[w])
        BY <2>2
      <4>2. Replaces(w, m)
        BY <3>3, <4>1
      <4> QED
        BY <4>2, ReplacesType
    <3> QED
      BY <1>19, <3>1, <3>2, <3>3 DEF Turns, BeatsHeart
  <2> QED
    BY <1>19, <2>1, <2>3 DEF Turns, BeatsHeart, TypeOK
<1>19a. ASSUME NEW w \in Workers, WorkerSends(w)
        PROVE  TypeOK'
  <2>1. /\ link[w] \in Sessions /\ unsent[w] \in Messages
        /\ inbox' = [inbox EXCEPT ![link[w]] = Append(inbox[link[w]], unsent[w])]
        /\ inbox \in [Sessions -> Seq(Messages)]
    BY <1>19a, OutputParts DEF WorkerSends, TypeOK, Clients
  <2>2. inbox' \in [Sessions -> Seq(Messages)]
    BY <2>1, SendType
  <2> QED
    BY <1>19a, <2>2 DEF WorkerSends, TypeOK
<1>20. ASSUME NEW s \in Sessions, AcceptedSocketError(s)
       PROVE  TypeOK'
  BY <1>20, CloseType DEF AcceptedSocketError
<1>21. CASE ServerNext
  BY <1>6, <1>7, <1>8, <1>9, <1>10, <1>11, <1>20, <1>21
     DEF ServerNext, Finding
<1>22. CASE ClientNext
  BY <1>12, <1>14, <1>15, <1>17, <1>18, <1>19, <1>19a, <1>22 DEF ClientNext
<1>23. CASE UNCHANGED vars
  BY <1>23 DEF vars, TypeOK
<1> QED
  BY <1>21, <1>22, <1>23 DEF Next

-----------------------------------------------------------------------------
(* What is under way belongs to the client of the session.                  *)

\* What a step must do to keep it while no session is taken or closed: new
\* messages and answers only on sessions in use, and no end of file where a
\* client stays connected.
LEMMA KeepsSessions ==
    ASSUME TypeOK, SessionsOK, accepted' = accepted,
           \A c \in Clients : link'[c] \in {link[c], None},
           \A w \in Workers : progress'[w] = "REGISTED" => link'[w] # None,
           query' # NoQuery => accepted[query'.session] # None,
           \A s \in Sessions : send_buffer'[s] # None => accepted[s] # None,
           \A s \in Sessions :
              \/ inbox'[s] = inbox[s]
              \/ /\ accepted[s] # None
                 /\ \A m \in Nodes(inbox'[s]) :
                       \/ m \in Nodes(inbox[s])
                       \/ /\ m.type \in {"WRQ", "WNQ"} => accepted[s] \in Workers
                          /\ m.type = "CLOSED" => \A c \in Clients : link'[c] # s
    PROVE  SessionsOK'
<1>1. ASSUME NEW s \in Sessions, accepted'[s] = None
      PROVE  inbox'[s] = <<>> /\ send_buffer'[s] = None
  BY <1>1 DEF SessionsOK
<1>2. ASSUME NEW s \in Sessions, NEW m \in Nodes(inbox'[s])
      PROVE  /\ m.type \in {"WRQ", "WNQ"} => accepted'[s] \in Workers
             /\ m.type = "CLOSED" => \A c \in Clients : link'[c] # s
  <2>1. CASE m \in Nodes(inbox[s])
    <3>1. /\ m.type \in {"WRQ", "WNQ"} => accepted[s] \in Workers
          /\ m.type = "CLOSED" => \A c \in Clients : link[c] # s
      BY <2>1 DEF SessionsOK
    <3> QED
      BY <3>1
  <2>2. CASE m \notin Nodes(inbox[s])
    BY <1>2, <2>2
  <2> QED
    BY <2>1, <2>2
<1>3. \A c \in Clients : link'[c] # None => accepted'[link'[c]] = c
  BY DEF SessionsOK
<1>4. query' # NoQuery => accepted'[query'.session] # None
  OBVIOUS
<1> QED
  BY <1>1, <1>2, <1>3, <1>4 DEF SessionsOK, NoQuery

\* A step that leaves sessions, clients and query alone keeps it.
LEMMA StillSessions ==
    ASSUME SessionsOK,
           UNCHANGED <<accepted, send_buffer, inbox, link, progress, query>>
    PROVE  SessionsOK'
BY DEF SessionsOK, NoQuery

\* A step that reads a message keeps it, whatever it answers on that session.
LEMMA ReadKeepsSessions ==
    ASSUME TypeOK, SessionsOK, NEW s \in Sessions, inbox[s] # <<>>, Received(s),
           UNCHANGED <<accepted, link, progress>>,
           \A t \in Sessions \ {s} : send_buffer'[t] = send_buffer[t],
           query' # NoQuery => query'.session = s
    PROVE  SessionsOK'
<1>1. accepted[s] # None
  BY DEF SessionsOK
<1>2. /\ inbox \in [Sessions -> Seq(Messages)]
      /\ inbox' = [inbox EXCEPT ![s] = Tail(inbox[s])]
  BY DEF TypeOK, Received
<1>3. Nodes(inbox'[s]) \subseteq Nodes(inbox[s])
  <2>1. inbox[s] \in Seq(Messages) /\ inbox'[s] = Tail(inbox[s])
    BY <1>2
  <2> QED
    BY <2>1, ReadBox
<1>4. \A t \in Sessions \ {s} : inbox'[t] = inbox[t]
  BY <1>2
<1>5. \A t \in Sessions : send_buffer'[t] # None => accepted[t] # None
  BY <1>1 DEF SessionsOK
<1>6. \A w \in Workers : progress'[w] = "REGISTED" => link'[w] # None
  BY DEF SessionsOK
<1>7. \A c \in Clients : link'[c] \in {link[c], None}
  OBVIOUS
<1>8. query' # NoQuery => accepted[query'.session] # None
  BY <1>1
<1>9. \A t \in Sessions :
         \/ inbox'[t] = inbox[t]
         \/ /\ accepted[t] # None
            /\ \A m \in Nodes(inbox'[t]) :
                  \/ m \in Nodes(inbox[t])
                  \/ /\ m.type \in {"WRQ", "WNQ"} => accepted[t] \in Workers
                     /\ m.type = "CLOSED" => \A c \in Clients : link'[c] # t
  BY <1>1, <1>3, <1>4
<1> QED
  BY <1>5, <1>6, <1>7, <1>8, <1>9, KeepsSessions

\* A step that sends a message the client of the session may send keeps it.
LEMMA SendKeepsSessions ==
    ASSUME TypeOK, SessionsOK, accepted' = accepted, query' = query,
           NEW s \in Sessions, accepted[s] # None,
           NEW msg \in Messages,
           inbox' = [inbox EXCEPT ![s] = Append(inbox[s], msg)],
           msg.type \in {"WRQ", "WNQ"} => accepted[s] \in Workers,
           msg.type = "CLOSED" => \A c \in Clients : link'[c] # s,
           \A c \in Clients : link'[c] \in {link[c], None},
           \A w \in Workers : progress'[w] = "REGISTED" => link'[w] # None,
           \A t \in Sessions : send_buffer'[t] \in {send_buffer[t], None}
    PROVE  SessionsOK'
<1>1. inbox \in [Sessions -> Seq(Messages)]
  BY DEF TypeOK
<1>2. Nodes(inbox'[s]) = Nodes(inbox[s]) \cup {msg}
  <2>1. inbox[s] \in Seq(Messages) /\ inbox'[s] = Append(inbox[s], msg)
    BY <1>1
  <2> QED
    BY <2>1, AppendBox
<1>3. \A t \in Sessions \ {s} : inbox'[t] = inbox[t]
  BY <1>1
<1>4. \A t \in Sessions : send_buffer'[t] # None => accepted[t] # None
  BY DEF SessionsOK
<1>5. query' # NoQuery => accepted[query'.session] # None
  BY DEF SessionsOK
<1>6. \A t \in Sessions :
         \/ inbox'[t] = inbox[t]
         \/ /\ accepted[t] # None
            /\ \A m \in Nodes(inbox'[t]) :
                  \/ m \in Nodes(inbox[t])
                  \/ /\ m.type \in {"WRQ", "WNQ"} => accepted[t] \in Workers
                     /\ m.type = "CLOSED" => \A c \in Clients : link'[c] # t
  BY <1>2, <1>3
<1> QED
  BY <1>4, <1>5, <1>6, KeepsSessions

\* The end of the process ends everything.
LEMMA EndKeepsSessions ==
    ASSUME NEW how, Ends(how)
    PROVE  SessionsOK'
<1>1. /\ \A s \in Sessions : inbox'[s] = <<>> /\ send_buffer'[s] = None
      /\ query' = NoQuery
      /\ \A c \in Clients : link'[c] = None
      /\ \A w \in Workers : progress'[w] # "REGISTED"
  BY DEF Ends
<1> QED
  BY <1>1, EmptyBox DEF SessionsOK, NoQuery

\* Closing a session is right when no client is connected to it any more.
LEMMA CloseKeepsSessions ==
    ASSUME TypeOK, SessionsOK, query = NoQuery, UNCHANGED <<query, link, progress>>,
           NEW s \in Sessions, CloseAcceptedSocket(s),
           \A c \in Clients : link[c] # s
    PROVE  SessionsOK'
<1>1. /\ accepted'[s] = None /\ inbox'[s] = <<>> /\ send_buffer'[s] = None
      /\ \A t \in Sessions \ {s} :
            /\ accepted'[t] = accepted[t]
            /\ inbox'[t] = inbox[t]
            /\ send_buffer'[t] = send_buffer[t]
  BY DEF TypeOK, CloseAcceptedSocket
<1>2. \A c \in Clients : link'[c] # None => accepted'[link'[c]] = c
  BY <1>1 DEF SessionsOK, TypeOK
<1> QED
  BY <1>1, <1>2, EmptyBox DEF SessionsOK, NoQuery

\* A session that is taken was out of use, and no client connected to it.
LEMMA ConnectKeepsSessions ==
    ASSUME TypeOK, SessionsOK, NEW c \in Clients, NEW s \in Sessions,
           Connect(c, s)
    PROVE  SessionsOK'
<1>1. /\ inbox[s] = <<>> /\ send_buffer[s] = None
      /\ send_buffer' = send_buffer
      /\ query = NoQuery /\ query' = query
  BY DEF Connect, SessionsOK, NextEvent, registerVars
<1>2. /\ accepted'[s] = c
      /\ \A t \in Sessions \ {s} : accepted'[t] = accepted[t]
      /\ link'[c] = s
      /\ \A d \in Clients \ {c} : link'[d] = link[d]
  BY DEF Connect, TypeOK
<1>3. \A d \in Clients : d # None /\ link[d] # s
  BY DEF Connect, SessionsOK, Clients
<1>4. /\ \A t \in Sessions \ {s} : inbox'[t] = inbox[t]
      /\ \A m \in Nodes(inbox'[s]) : m = WRQ /\ c \in Workers
  <2>1. CASE c \in Workers
    <3>1. /\ \A t \in Sessions \ {s} : inbox'[t] = inbox[t]
          /\ inbox'[s] = <<WRQ>>
      BY <2>1 DEF Connect, TypeOK
    <3> QED
      BY <2>1, <3>1 DEF Nodes
  <2>2. CASE c \notin Workers
    <3>1. inbox' = inbox
      BY <2>2 DEF Connect
    <3> QED
      BY <3>1, <1>1, EmptyBox
  <2> QED
    BY <2>1, <2>2
<1>5. \A w \in Workers : progress'[w] = "REGISTED" => link'[w] # None
  <2>1. ASSUME NEW w \in Workers, progress'[w] = "REGISTED"
        PROVE  link'[w] # None
    <3>1. CASE w = c
      BY <3>1, <1>2
    <3>2. CASE w # c
      <4>1. progress'[w] = progress[w]
        BY <3>2 DEF Connect, TypeOK
      <4>2. w \in Clients \ {c}
        BY <3>2 DEF Clients
      <4> QED
        BY <4>1, <4>2, <2>1, <1>2 DEF SessionsOK
    <3> QED
      BY <3>1, <3>2
  <2> QED
    BY <2>1
<1>6. \A d \in Clients : link'[d] # None => accepted'[link'[d]] = d
  <2>1. ASSUME NEW d \in Clients, link'[d] # None
        PROVE  accepted'[link'[d]] = d
    <3>1. CASE d = c
      BY <3>1, <1>2
    <3>2. CASE d # c
      <4>1. link'[d] = link[d] /\ link[d] # s /\ link[d] \in Sessions
        BY <3>2, <2>1, <1>2, <1>3 DEF TypeOK
      <4> QED
        BY <4>1, <2>1, <1>2 DEF SessionsOK
    <3> QED
      BY <3>1, <3>2
  <2> QED
    BY <2>1
<1>7. ASSUME NEW t \in Sessions
      PROVE  /\ accepted'[t] = None => inbox'[t] = <<>> /\ send_buffer'[t] = None
             /\ \A m \in Nodes(inbox'[t]) :
                   /\ m.type \in {"WRQ", "WNQ"} => accepted'[t] \in Workers
                   /\ m.type = "CLOSED" => \A d \in Clients : link'[d] # t
  <2>1. CASE t = s
    BY <2>1, <1>2, <1>3, <1>4 DEF WRQ
  <2>2. CASE t # s
    BY <2>2, <1>1, <1>2, <1>4 DEF SessionsOK
  <2> QED
    BY <2>1, <2>2
<1> QED
  BY <1>1, <1>5, <1>6, <1>7 DEF SessionsOK, NoQuery

\* A client that is forgotten leaves its session without a client.
LEMMA ForgottenClient ==
    ASSUME TypeOK, SessionsOK, NEW c \in Clients, link[c] # None, Forgets(c)
    PROVE  /\ \A d \in Clients : link'[d] \in {link[d], None}
           /\ \A d \in Clients : link'[d] # link[c]
           /\ \A w \in Workers : progress'[w] = "REGISTED" => link'[w] # None
<1>1. /\ link'[c] = None
      /\ \A d \in Clients \ {c} : link'[d] = link[d]
  BY DEF Forgets, Disconnects, TypeOK
<1>2. \A d \in Clients \ {c} : link[d] # link[c]
  BY DEF SessionsOK
<1>3. ASSUME NEW w \in Workers, progress'[w] = "REGISTED"
      PROVE  link'[w] # None
  <2>1. w # c /\ progress'[w] = progress[w]
    BY <1>3 DEF Forgets, Disconnects, TypeOK
  <2>2. w \in Clients
    BY DEF Clients
  <2> QED
    BY <1>1, <1>3, <2>1, <2>2 DEF SessionsOK
<1> QED
  BY <1>1, <1>2, <1>3

\* Every step keeps what is under way with its client.
LEMMA SessionsStep ==
    ASSUME TypeOK, PointersMatch, SessionsOK, [Next]_vars
    PROVE  SessionsOK'
<1> USE DEF registerVars, sessionVars, clientVars
<1>1. ASSUME NEW s \in Sessions, OnInput(s)
      PROVE  SessionsOK'
  <2>1. ASSUME NEW t, Input(s, t)
        PROVE  inbox[s] # <<>> /\ query = NoQuery
    BY <2>1 DEF Input, NextEvent
  <2>2. ASSUME NEW rsp, Answer(s, rsp)
        PROVE  \A t \in Sessions \ {s} : send_buffer'[t] = send_buffer[t]
    BY <2>2 DEF Answer, TypeOK
  <2>3. CASE WorkerRegisterRequest(s) \/ WorkerHeartBeat(s)
    <3>1. \A t \in Sessions \ {s} : send_buffer'[t] = send_buffer[t]
      BY <2>2, <2>3 DEF WorkerRegisterRequest, WorkerHeartBeat
    <3>2. /\ inbox[s] # <<>> /\ Received(s) /\ query' = NoQuery
          /\ UNCHANGED <<accepted, link, progress>>
      BY <2>1, <2>3 DEF WorkerRegisterRequest, WorkerHeartBeat
    <3> QED
      BY <3>1, <3>2, ReadKeepsSessions
  <2>4. CASE WorkerNoticeRequest(s) \/ HeartBeatResponse(s)
    <3>1. /\ inbox[s] # <<>> /\ Received(s) /\ query' = NoQuery
          /\ UNCHANGED <<accepted, link, progress, send_buffer>>
      BY <2>1, <2>4 DEF WorkerNoticeRequest, HeartBeatResponse
    <3> QED
      BY <3>1, ReadKeepsSessions
  <2>5. CASE PeerClosed(s)
    <3>1. /\ inbox[s] \in Seq(Messages) /\ inbox[s] # <<>>
          /\ Head(inbox[s]).type = "CLOSED"
      BY <2>5 DEF PeerClosed, Input, TypeOK
    <3>2. Head(inbox[s]) \in Nodes(inbox[s])
      BY <3>1, ReadBox
    <3>3. \A c \in Clients : link[c] # s
      BY <3>1, <3>2 DEF SessionsOK
    <3> QED
      BY <2>1, <2>5, <3>3, CloseKeepsSessions DEF PeerClosed
  <2>6. CASE ReceiveFails(s)
    BY <2>6, EndKeepsSessions DEF ReceiveFails
  <2>7. CASE QueryWorkersRequest(s)
    <3>1. \A t \in Sessions \ {s} : send_buffer'[t] = send_buffer[t]
      BY <2>2, <2>7 DEF QueryWorkersRequest
    <3>2. /\ inbox[s] # <<>> /\ Received(s) /\ query = NoQuery
          /\ UNCHANGED <<accepted, link, progress>>
      BY <2>1, <2>7 DEF QueryWorkersRequest
    <3>3. query' # NoQuery => query'.session = s
      BY <2>7, <3>2 DEF QueryWorkersRequest
    <3> QED
      BY <3>1, <3>2, <3>3, ReadKeepsSessions
  <2> QED
    BY <1>1, <2>3, <2>4, <2>5, <2>6, <2>7 DEF OnInput
<1>2. ASSUME NEW s \in Sessions, AcceptedSocketOutput(s)
      PROVE  SessionsOK'
  <2> DEFINE c == accepted[s]
  <2>1. /\ c \in Clients /\ c # None
        /\ accepted' = accepted /\ query' = query
        /\ \A t \in Sessions : send_buffer'[t] \in {send_buffer[t], None}
    BY <1>2 DEF AcceptedSocketOutput, SessionsOK, TypeOK
  <2>2. \A t \in Sessions : send_buffer'[t] # None => accepted[t] # None
    BY <2>1 DEF SessionsOK
  <2>3. query' # NoQuery => accepted[query'.session] # None
    BY <2>1 DEF SessionsOK
  <2>4. CASE UNCHANGED <<inbox, link, progress>>
    <3>1. \A w \in Workers : progress'[w] = "REGISTED" => link'[w] # None
      BY <2>4 DEF SessionsOK
    <3> QED
      BY <2>1, <2>2, <2>3, <2>4, <3>1, KeepsSessions
  <2>5. ASSUME link[c] = s, UNCHANGED <<inbox, link, busy>>,
               progress' = [progress EXCEPT ![c] = "REGISTED"]
        PROVE  SessionsOK'
    <3>1. \A w \in Workers : progress'[w] = "REGISTED" => link'[w] # None
      <4>1. \A w \in Workers : w # c => progress'[w] = progress[w]
        BY <2>5 DEF TypeOK
      <4>2. link'[c] # None
        BY <2>5
      <4> QED
        BY <2>5, <4>1, <4>2 DEF SessionsOK
    <3> QED
      BY <2>1, <2>2, <2>3, <2>5, <3>1, KeepsSessions
  <2>6. ASSUME link[c] = s,
               inbox' = [inbox EXCEPT ![s] = Append(inbox[s], CLOSED)],
               Disconnects(c)
        PROVE  SessionsOK'
    <3>1. /\ link'[c] = None
          /\ \A d \in Clients \ {c} : link'[d] = link[d] /\ link[d] # s
      BY <2>1, <2>6 DEF Disconnects, TypeOK, SessionsOK
    <3>2. \A d \in Clients : link'[d] # s /\ link'[d] \in {link[d], None}
      BY <3>1
    <3>3. ASSUME NEW w \in Workers, progress'[w] = "REGISTED"
          PROVE  link'[w] # None
      <4>1. w # c /\ progress'[w] = progress[w]
        BY <2>6, <3>3 DEF Disconnects, TypeOK
      <4>2. w \in Clients
        BY DEF Clients
      <4> QED
        BY <3>1, <3>3, <4>1, <4>2 DEF SessionsOK
    <3>4. CLOSED \in Messages /\ CLOSED.type = "CLOSED"
      BY DEF Messages, CLOSED
    <3> HIDE DEF c
    <3> QED
      BY <2>1, <2>6, <3>2, <3>3, <3>4, SendKeepsSessions DEF c
  <2> QED
    BY <1>2, <2>4, <2>5, <2>6 DEF AcceptedSocketOutput, Hears
<1>3. ASSUME NEW s \in Sessions, AcceptedSocketError(s)
      PROVE  SessionsOK'
  <2>1. \A c \in Clients : link[c] # s
    BY <1>3 DEF AcceptedSocketError, SessionsOK, TypeOK
  <2> QED
    BY <1>3, <2>1, CloseKeepsSessions DEF AcceptedSocketError, NextEvent
<1>4. ASSUME NEW s \in Sessions, HeartBeat(s)
      PROVE  SessionsOK'
  <2>1. CASE HeartBeatLost(s)
    BY <2>1, EndKeepsSessions DEF HeartBeatLost
  <2>2. CASE HeartBeatRequest(s)
    <3>1. accepted[s] # None
      BY <2>2 DEF HeartBeatRequest, PointersMatch
    <3>2. /\ \A t \in Sessions \ {s} : send_buffer'[t] = send_buffer[t]
          /\ UNCHANGED <<accepted, inbox, link, progress>>
          /\ query' = NoQuery
      BY <2>2 DEF HeartBeatRequest, Answer, NextEvent, TypeOK
    <3>3. \A t \in Sessions : send_buffer'[t] # None => accepted[t] # None
      BY <3>1, <3>2 DEF SessionsOK
    <3>4. \A w \in Workers : progress'[w] = "REGISTED" => link'[w] # None
      BY <3>2 DEF SessionsOK
    <3> QED
      BY <3>2, <3>3, <3>4, KeepsSessions
  <2> QED
    BY <1>4, <2>1, <2>2 DEF HeartBeat
<1>5. ASSUME NEW w \in Workers, FindOne(w)
      PROVE  SessionsOK'
  <2>1. query \in Asking /\ query # NoQuery
    BY <1>5 DEF FindOne, TypeOK
  <2>2. query'.session = query.session
    BY <1>5, <2>1 DEF FindOne, Asking
  <2>3. /\ UNCHANGED <<accepted, send_buffer, inbox, link, progress>>
        /\ accepted[query'.session] # None
    BY <1>5, <2>1, <2>2 DEF FindOne, SessionsOK
  <2>4. \A t \in Sessions : send_buffer'[t] # None => accepted[t] # None
    BY <2>3 DEF SessionsOK
  <2>5. \A v \in Workers : progress'[v] = "REGISTED" => link'[v] # None
    BY <2>3 DEF SessionsOK
  <2> QED
    BY <2>3, <2>4, <2>5, KeepsSessions
<1>6. CASE FindNone
  <2>1. /\ query \in Asking /\ query.session \in Sessions
        /\ accepted[query.session] # None
    BY <1>6 DEF FindNone, TypeOK, Asking, SessionsOK
  <2>2. /\ UNCHANGED <<accepted, inbox, link, progress>>
        /\ query' = NoQuery
        /\ \A t \in Sessions : t # query.session =>
               send_buffer'[t] = send_buffer[t]
    BY <1>6 DEF FindNone, Answer, TypeOK
  <2>3. \A t \in Sessions : send_buffer'[t] # None => accepted[t] # None
    BY <2>1, <2>2 DEF SessionsOK
  <2>4. \A w \in Workers : progress'[w] = "REGISTED" => link'[w] # None
    BY <2>2 DEF SessionsOK
  <2> QED
    BY <2>2, <2>3, <2>4, KeepsSessions
<1>7. CASE Tick \/ ForkAgain \/ UNCHANGED vars
  BY <1>7, StillSessions DEF Tick, ForkAgain, vars
<1>8. ASSUME NEW c \in Clients, AcceptFails(c)
      PROVE  SessionsOK'
  BY <1>8, EndKeepsSessions DEF AcceptFails
<1>9. ASSUME NEW c \in Clients, NEW o \in OsTypes, NEW n \in Counts,
             Ask(c, o, n)
      PROVE  SessionsOK'
  <2>1. /\ QWQ(o, n) \in Messages
        /\ QWQ(o, n).type \notin {"WRQ", "WNQ", "CLOSED"}
    <3>1. QWQ(o, n) \in Messages
      BY DEF Messages
    <3>2. QWQ(o, n).type = "QWQ"
      BY DEF QWQ
    <3> QED
      BY <3>1, <3>2
  <2>2. /\ link[c] \in Sessions /\ accepted[link[c]] # None
        /\ inbox' = [inbox EXCEPT ![link[c]] = Append(inbox[link[c]], QWQ(o, n))]
        /\ UNCHANGED <<accepted, query, link, progress, send_buffer>>
    BY <1>9 DEF Ask, TypeOK, SessionsOK, Clients
  <2>3. \A w \in Workers : progress'[w] = "REGISTED" => link'[w] # None
    BY <2>2 DEF SessionsOK
  <2> QED
    BY <2>1, <2>2, <2>3, SendKeepsSessions
<1>10. ASSUME NEW c \in Clients, NEW end \in {CLOSED, BROKEN}, Leave(c, end)
       PROVE  SessionsOK'
  <2>1. /\ end \in Messages
        /\ end.type \in {"CLOSED", "BROKEN"}
    BY DEF Messages, CLOSED, BROKEN
  <2>2. /\ link[c] \in Sessions /\ link[c] # None /\ Forgets(c)
        /\ accepted[link[c]] # None
        /\ inbox' = [inbox EXCEPT ![link[c]] = Append(inbox[link[c]], end)]
        /\ UNCHANGED <<accepted, query, send_buffer>>
    BY <1>10 DEF Leave, TypeOK, SessionsOK, Clients
  <2>3. /\ \A d \in Clients : link'[d] \in {link[d], None}
        /\ \A d \in Clients : link'[d] # link[c]
        /\ \A w \in Workers : progress'[w] = "REGISTED" => link'[w] # None
    BY <2>2, ForgottenClient
  <2>4. \A t \in Sessions : send_buffer'[t] \in {send_buffer[t], None}
    BY <2>2
  <2> QED
    BY <2>1, <2>2, <2>3, <2>4, SendKeepsSessions
<1>11. ASSUME NEW c \in Clients, Cut(c)
       PROVE  SessionsOK'
  <2>1. /\ \A d \in Clients : link'[d] \in {link[d], None}
        /\ \A w \in Workers : progress'[w] = "REGISTED" => link'[w] # None
    BY <1>11, ForgottenClient DEF Cut
  <2>2. UNCHANGED <<accepted, query, send_buffer, inbox>>
    BY <1>11 DEF Cut
  <2>3. query' # NoQuery => accepted[query'.session] # None
    BY <2>2 DEF SessionsOK
  <2>4. \A t \in Sessions : send_buffer'[t] # None => accepted[t] # None
    BY <2>2 DEF SessionsOK
  <2> QED
    BY <2>1, <2>2, <2>3, <2>4, KeepsSessions
<1>12. ASSUME NEW w \in Workers, Turns(w) \/ BeatsHeart(w)
       PROVE  SessionsOK'
  BY <1>12, StillSessions DEF Turns, BeatsHeart
<1>12a. ASSUME NEW w \in Workers, WorkerSends(w)
        PROVE  SessionsOK'
  <2>1. /\ unsent[w] \in Messages
        /\ unsent[w].type \notin {"WRQ", "CLOSED"}
    BY <1>12a, OutputParts DEF WorkerSends, TypeOK, Outputs
  <2>2. /\ link[w] \in Sessions /\ accepted[link[w]] = w /\ w # None
        /\ inbox' = [inbox EXCEPT ![link[w]] = Append(inbox[link[w]], unsent[w])]
        /\ UNCHANGED <<accepted, query, link, progress, send_buffer>>
    BY <1>12a DEF WorkerSends, TypeOK, SessionsOK, Clients
  <2>3. \A v \in Workers : progress'[v] = "REGISTED" => link'[v] # None
    BY <2>2 DEF SessionsOK
  <2> QED
    BY <2>1, <2>2, <2>3, SendKeepsSessions
<1>13. CASE ServerNext
  BY <1>1, <1>2, <1>3, <1>4, <1>5, <1>6, <1>7, <1>13
     DEF ServerNext, Finding
<1>14. ASSUME NEW c \in Clients, NEW s \in Sessions, Connect(c, s)
       PROVE  SessionsOK'
  BY <1>14, ConnectKeepsSessions
<1>15. CASE ClientNext
  BY <1>8, <1>9, <1>10, <1>11, <1>12, <1>12a, <1>14, <1>15 DEF ClientNext
<1> QED
  BY <1>7, <1>13, <1>15 DEF Next

-----------------------------------------------------------------------------
(* The theorems.                                                            *)

\* The inductive invariant holds in every state: each part of it needs the
\* others, since an operation keeps the registry in order only when the
\* session that asks for it points to the right worker.
LEMMA RegisterInvHolds == Spec => []RegisterInv
<1>1. Init => RegisterInv
  BY InitOK
<1>2. RegisterInv /\ [Next]_vars => RegisterInv'
  <2> SUFFICES ASSUME RegisterInv, [Next]_vars PROVE RegisterInv'
    OBVIOUS
  <2>1. TypeOK /\ RegistryOK(registry) /\ PointersMatch /\ SessionsOK
    BY DEF RegisterInv
  <2>2. RegistryOK(registry')
    BY <2>1, RegistryStep
  <2>3. PointersMatch'
    BY <2>1, PointersStep
  <2>4. TypeOK'
    BY <2>1, <2>2, TypeStep DEF RegistryOK
  <2>5. SessionsOK'
    BY <2>1, SessionsStep
  <2> QED
    BY <2>2, <2>3, <2>4, <2>5 DEF RegisterInv
<1> QED
  BY <1>1, <1>2, PTL DEF Spec

\* The variables of the register server keep their types, for any workers,
\* clients and sessions: in particular a heartbeat counter never passes
\* MAXCNT_HEARTBEAT_LOST by more than one.
THEOREM RegisterTypeCorrect == Spec => []TypeOK
<1>1. RegisterInv => TypeOK
  BY DEF RegisterInv
<1> QED
  BY <1>1, RegisterInvHolds, PTL

\* The lists of the registry stay well formed: app_WorkerRegister and
\* app_WorkerUnregister list every worker once, in its host, and free exactly
\* the hosts and operating systems that lost their last worker.
THEOREM RegistryAlwaysInShape == Spec => []RegistryInShape
<1>1. RegisterInv => RegistryInShape
  BY DEF RegisterInv, RegistryOK, RegistryInShape
<1> QED
  BY <1>1, RegisterInvHolds, PTL

\* The counters of idle and working workers of every host stay right,
\* whatever notices arrive, in any order and however often.
THEOREM CountsAlwaysMatch == Spec => []CountsMatch
<1>1. RegisterInv => CountsMatch
  BY DEF RegisterInv, RegistryOK, CountsMatch
<1> QED
  BY <1>1, RegisterInvHolds, PTL

\* The pointers of a session never dangle, and no worker stays listed when
\* its connection is gone.
THEOREM PointersAlwaysMatch == Spec => []PointersMatch
<1>1. RegisterInv => PointersMatch
  BY DEF RegisterInv
<1> QED
  BY <1>1, RegisterInvHolds, PTL
-----------------------------------------------------------------------------
(* The answer to a query.                                                   *)

(***************************************************************************)
(* AnswerIsUsable is not inductive: that a worker is named once follows    *)
(* from its being stamped with the second of the query when it was named.  *)
(***************************************************************************)
NamedOK ==
    query # NoQuery =>
        /\ IsList(query.nodes)
        /\ \A w \in Nodes(query.nodes) :
              /\ Listed(registry, w) /\ ~registry.is_working[w]
              /\ w \in registry.accessed
              /\ OsOf[HostOf[w]] = query.os
        /\ query.count = -1 \/ Len(query.nodes) <= query.count
        /\ Len(query.nodes) <= NodesSize

\* A query that begins has named nobody.
LEMMA QueryBegins ==
    ASSUME TypeOK, NEW s \in Sessions, QueryWorkersRequest(s),
           Head(inbox[s]).count \in Counts
    PROVE  NamedOK'
<1>1. CASE query' = query
  <2>1. query' = NoQuery
    BY <1>1 DEF QueryWorkersRequest, Input, NextEvent
  <2> QED BY <2>1 DEF NamedOK, NoQuery
<1>2. CASE query' = [session |-> s, os |-> Head(inbox[s]).os,
                     count |-> Head(inbox[s]).count, nodes |-> <<>>]
  <2>1. query'.nodes = <<>> /\ query'.count = Head(inbox[s]).count
    BY <1>2
  <2>2. Len(<<>>) = 0 /\ Nodes(<<>>) = {} /\ IsList(<<>>)
    BY EmptyBox DEF IsList
  <2>3. query'.count = -1 \/ 0 <= query'.count
    <3>1. \A c \in Counts : c = -1 \/ 0 <= c
      OBVIOUS
    <3> QED BY <2>1, <3>1
  <2> QED BY <2>1, <2>2, <2>3 DEF NamedOK
<1> QED BY <1>1, <1>2 DEF QueryWorkersRequest

\* The next worker named is idle, was not named before and still fits.
LEMMA OneMoreNamed ==
    ASSUME TypeOK, RegistryOK(registry), NamedOK, NEW w \in Workers, FindOne(w)
    PROVE  NamedOK'
<1>1. /\ query \in Asking /\ query # NoQuery
      /\ query.nodes \in Seq(Workers)
      /\ query.count \in Counts
  BY DEF FindOne, TypeOK, Asking
<1>2. /\ query'.nodes = AddListNode(query.nodes, w)
      /\ query'.count = query.count /\ query'.os = query.os
  BY <1>1 DEF FindOne, Asking, AddListNode
<1>3. /\ Found(registry, query.os, w) /\ WantsMore
      /\ registry' = Given(registry, w)
  BY DEF FindOne
<1>4. /\ w \notin registry.accessed /\ ~registry.is_working[w]
      /\ Listed(registry, w)
      /\ HostOf[w] \in Nodes(registry.host_info_list[query.os])
  BY <1>3, FoundListed DEF Found, FreeIn, Free
<1>5. SameListed(registry, registry')
  BY <1>3, <1>4, GivenOK
<1>6. /\ registry'.is_working = registry.is_working
      /\ registry'.accessed = registry.accessed \cup {w}
  BY <1>3 DEF Given, TypeOK, Registry
<1>7. OsOf[HostOf[w]] = query.os
  <2>1. query.os \in OsTypes
    BY <1>1 DEF Asking
  <2> QED BY <1>4, <2>1 DEF RegistryOK, RegistryShape
<1>8. w \notin Nodes(query.nodes)
  BY <1>1, <1>4 DEF NamedOK
<1>9. /\ IsList(query'.nodes)
      /\ Nodes(query'.nodes) = Nodes(query.nodes) \cup {w}
  BY <1>1, <1>2, <1>8, AddKeeps DEF NamedOK
<1>10. Len(query'.nodes) = Len(query.nodes) + 1 /\ Len(query.nodes) \in Nat
  BY <1>1, <1>2 DEF AddListNode
<1>11. query'.count = -1 \/ Len(query'.nodes) <= query'.count
  <2>1. \A c \in Counts, n \in Nat : c = -1 \/ n < c => c = -1 \/ n + 1 <= c
    OBVIOUS
  <2>2. query.count = -1 \/ Len(query.nodes) < query.count
    BY <1>3 DEF WantsMore
  <2> QED BY <1>1, <1>2, <1>10, <2>1, <2>2
<1>12. Len(query'.nodes) <= NodesSize
  BY <1>3, <1>10 DEF WantsMore
<1>13. ASSUME NEW v \in Nodes(query'.nodes)
       PROVE  /\ Listed(registry', v) /\ ~registry'.is_working[v]
              /\ v \in registry'.accessed
              /\ OsOf[HostOf[v]] = query'.os
  <2>1. v \in Workers
    <3>1. \A u \in Nodes(query.nodes) : u \in Workers
      BY <1>1 DEF Nodes
    <3> QED BY <1>9, <3>1
  <2>2. Listed(registry', v) <=> Listed(registry, v)
    BY <1>5, <2>1 DEF SameListed
  <2>3. CASE v = w
    BY <1>2, <1>4, <1>6, <1>7, <2>2, <2>3
  <2>4. CASE v # w
    BY <1>1, <1>2, <1>6, <1>9, <2>2, <2>4 DEF NamedOK
  <2> QED BY <2>3, <2>4
<1> QED BY <1>9, <1>11, <1>12, <1>13 DEF NamedOK

\* While a query is answered no other event is handled, so what was found of
\* a worker stays true until the answer is complete.
LEMMA NamedStep ==
    ASSUME TypeOK, RegistryOK(registry), NamedOK, [Next]_vars
    PROVE  NamedOK'
<1> USE DEF registerVars, sessionVars, clientVars
<1>1. CASE query' = NoQuery
  BY <1>1 DEF NamedOK, NoQuery
<1>2. CASE UNCHANGED <<registry, query>>
  BY <1>2 DEF NamedOK, WantsMore
<1>3. ASSUME NEW how, Ends(how) PROVE query' = NoQuery
  BY <1>3 DEF Ends
<1>4. ASSUME NEW s \in Sessions, OnInput(s)
      PROVE  NamedOK'
  <2>1. CASE QueryWorkersRequest(s)
    <3>1. /\ inbox[s] \in Seq(Messages) /\ inbox[s] # <<>>
          /\ Head(inbox[s]).type = "QWQ"
      BY <2>1 DEF QueryWorkersRequest, Input, TypeOK
    <3>2. Head(inbox[s]) \in Messages
      BY <3>1, ReadBox
    <3> QED BY <2>1, <3>1, <3>2, MessageParts, QueryBegins
  <2>2. CASE \/ WorkerRegisterRequest(s) \/ WorkerNoticeRequest(s)
             \/ HeartBeatResponse(s) \/ WorkerHeartBeat(s) \/ PeerClosed(s)
    BY <1>1, <2>2 DEF WorkerRegisterRequest, WorkerNoticeRequest,
                      HeartBeatResponse, WorkerHeartBeat, PeerClosed, Input,
                      NextEvent
  <2>3. CASE ReceiveFails(s)
    BY <1>1, <1>3, <2>3 DEF ReceiveFails
  <2> QED BY <1>4, <2>1, <2>2, <2>3 DEF OnInput
<1>5. ASSUME NEW s \in Sessions,
             AcceptedSocketOutput(s) \/ AcceptedSocketError(s) \/ HeartBeat(s)
      PROVE  NamedOK'
  <2>1. CASE HeartBeatLost(s)
    BY <1>1, <1>3, <2>1 DEF HeartBeatLost
  <2>2. CASE AcceptedSocketOutput(s) \/ AcceptedSocketError(s)
             \/ HeartBeatRequest(s)
    BY <1>1, <2>2 DEF AcceptedSocketOutput, AcceptedSocketError,
                      HeartBeatRequest, NextEvent
  <2> QED BY <1>5, <2>1, <2>2 DEF HeartBeat
<1>6. CASE Finding
  BY <1>1, <1>6, OneMoreNamed DEF Finding, FindNone
<1>7. CASE Tick
  BY <1>1, <1>7 DEF Tick, NextEvent
<1>8. CASE ForkAgain \/ UNCHANGED vars
  BY <1>2, <1>8 DEF ForkAgain, vars
<1>9. ASSUME NEW c \in Clients, AcceptFails(c)
      PROVE  NamedOK'
  BY <1>1, <1>3, <1>9 DEF AcceptFails
<1>10. ASSUME NEW c \in Clients, NEW s, NEW o, NEW n, NEW end,
              Connect(c, s) \/ Ask(c, o, n) \/ Leave(c, end) \/ Cut(c)
       PROVE  NamedOK'
  BY <1>2, <1>10 DEF Connect, Ask, Leave, Cut
<1>11. ASSUME NEW w \in Workers, Turns(w) \/ BeatsHeart(w) \/ WorkerSends(w)
       PROVE  NamedOK'
  BY <1>2, <1>11 DEF Turns, BeatsHeart, WorkerSends
<1>12. CASE ServerNext
  BY <1>4, <1>5, <1>6, <1>7, <1>8, <1>12 DEF ServerNext
<1>13. CASE ClientNext
  BY <1>9, <1>10, <1>11, <1>13 DEF ClientNext
<1> QED BY <1>8, <1>12, <1>13 DEF Next

\* An answer only ever names workers that are registered and idle, of the
\* operating system asked for, each once, and no more than asked for and than
\* the answer holds.
THEOREM AnswersAlwaysUsable == Spec => []AnswerIsUsable
<1>1. Init => NamedOK
  BY DEF Init, NamedOK
<1>2. RegisterInv /\ NamedOK /\ [Next]_vars => NamedOK'
  BY NamedStep DEF RegisterInv
<1>3. NamedOK => AnswerIsUsable
  BY DEF NamedOK, AnswerIsUsable
<1> QED BY <1>1, <1>2, <1>3, RegisterInvHolds, PTL DEF Spec

\* An answer is shorter than asked for only when no worker of that operating
\* system is left that is idle and was not handed out in this second.
THEOREM AnswersAlwaysComplete == Spec => AnswerIsComplete
<1> DEFINE Complete ==
             (query # NoQuery /\ query' = NoQuery /\ up' = "up") =>
                \/ ~WantsMore
                \/ \A w \in Workers :
                      Listed(registry, w) /\ OsOf[HostOf[w]] = query.os
                         => registry.is_working[w] \/ w \in registry.accessed
<1>1. RegisterInv /\ [Next]_vars => [Complete]_vars
  <2> SUFFICES ASSUME RegisterInv, [Next]_vars,
                      query # NoQuery, query' = NoQuery, WantsMore,
                      NEW w \in Workers,
                      Listed(registry, w), OsOf[HostOf[w]] = query.os,
                      ~registry.is_working[w]
               PROVE  w \in registry.accessed
    OBVIOUS
  <2> USE DEF registerVars, sessionVars, clientVars
  <2>1. TypeOK /\ RegistryOK(registry)
    BY DEF RegisterInv
  <2>2. ~NextEvent
    BY DEF NextEvent
  <2>3. FindNone
    <3>1. ASSUME NEW s, OnInput(s) PROVE FALSE
      BY <2>2, <3>1 DEF OnInput, WorkerRegisterRequest, WorkerNoticeRequest,
           HeartBeatResponse, WorkerHeartBeat, PeerClosed, ReceiveFails,
           QueryWorkersRequest, Input
    <3>2. ASSUME NEW s, \/ AcceptedSocketOutput(s) \/ AcceptedSocketError(s)
                        \/ HeartBeat(s)
          PROVE  FALSE
      BY <2>2, <3>2 DEF AcceptedSocketOutput, AcceptedSocketError, HeartBeat,
           HeartBeatRequest, HeartBeatLost
    <3>3. ~Tick /\ ~ForkAgain /\ ~UNCHANGED vars
      BY <2>2 DEF Tick, ForkAgain, vars
    <3>4. ASSUME NEW v \in Workers, FindOne(v) PROVE FALSE
      <4>1. query \in Asking
        BY <2>1, <3>4 DEF FindOne, TypeOK
      <4>2. /\ Append(query.nodes, v) \in Seq(Workers)
            /\ query' = [query EXCEPT !.nodes = Append(query.nodes, v)]
        BY <3>4, <4>1 DEF FindOne, Asking
      <4>3. query' \in Asking
        BY <4>1, <4>2 DEF Asking
      <4> QED BY <4>3, NoneIsNothing DEF NoQuery
    <3>5. ASSUME NEW c, NEW s, NEW o, NEW n, NEW end,
                 \/ Connect(c, s) \/ AcceptFails(c) \/ Ask(c, o, n)
                 \/ Leave(c, end) \/ Cut(c)
          PROVE  FALSE
      BY <2>2, <3>5 DEF Connect, AcceptFails, Ask, Leave, Cut
    <3>6. ASSUME NEW v, Turns(v) \/ BeatsHeart(v) \/ WorkerSends(v) PROVE FALSE
      BY <3>6 DEF Turns, BeatsHeart, WorkerSends
    <3>7. ~ClientNext
      BY <3>5, <3>6 DEF ClientNext
    <3> QED BY <3>1, <3>2, <3>3, <3>4, <3>7 DEF Next, ServerNext, Finding
  <2>4. HostOf[w] \in Hosts /\ query.os \in OsTypes
    BY <2>1 DEF TypeOK, Asking
  <2>5. HostOf[w] \in Nodes(registry.host_info_list[query.os])
    <3>1. Nodes(registry.worker_info_list[HostOf[w]]) # {}
      BY DEF Listed
    <3> QED BY <2>1, <2>4, <3>1 DEF RegistryOK, RegistryShape, HostListed
  <2>6. FreeIn(registry, HostOf[w]) = {}
    BY <2>3, <2>5 DEF FindNone
  <2>7. w \in Nodes(registry.worker_info_list[HostOf[w]])
    BY DEF Listed
  <2> QED BY <2>6, <2>7 DEF FreeIn, Free
<1> QED BY <1>1, RegisterInvHolds, PTL DEF Spec, AnswerIsComplete

-----------------------------------------------------------------------------
(* Registrations and notices under way.                                     *)

Requests(box) == {i \in DOMAIN box : box[i].type = "WRQ"}

Telling(box) == {i \in DOMAIN box : box[i].type = "WNQ"}

\* The last notice in the box, or the registry where there is none, is right
\* about a worker that is busy or not.
LastWord(box, working, isBusy) ==
    IF Telling(box) = {} THEN working => isBusy
    ELSE \E i \in Telling(box) :
            /\ \A j \in Telling(box) : j <= i
            /\ box[i].is_working = isBusy

\* Where the messages of a box are once one is appended.
LEMMA AppendPlaces ==
    ASSUME NEW box \in Seq(Messages), NEW m \in Messages
    PROVE  /\ Len(box) \in Nat
           /\ DOMAIN box = 1..Len(box)
           /\ DOMAIN Append(box, m) = 1..(Len(box) + 1)
           /\ \A i \in 1..Len(box) : Append(box, m)[i] = box[i]
           /\ Append(box, m)[Len(box) + 1] = m
OBVIOUS

\* A message that is neither a registration nor a notice changes nothing.
LEMMA AppendOther ==
    ASSUME NEW box \in Seq(Messages), NEW m \in Messages,
           m.type \notin {"WRQ", "WNQ"}
    PROVE  /\ Requests(Append(box, m)) = Requests(box)
           /\ Telling(Append(box, m)) = Telling(box)
           /\ \A working, isBusy \in BOOLEAN :
                 LastWord(box, working, isBusy)
                    => LastWord(Append(box, m), working, isBusy)
<1> DEFINE new == Append(box, m)
<1>1. /\ Len(box) \in Nat /\ DOMAIN box = 1..Len(box)
      /\ DOMAIN new = 1..(Len(box) + 1)
      /\ \A i \in 1..Len(box) : new[i] = box[i]
      /\ new[Len(box) + 1] = m
  BY AppendPlaces
<1> HIDE DEF new
<1>2. Requests(new) = Requests(box)
  BY <1>1 DEF Requests
<1>3. Telling(new) = Telling(box)
  BY <1>1 DEF Telling
<1>4. \A i \in Telling(box) : new[i] = box[i]
  BY <1>1 DEF Telling
<1>5. ASSUME NEW working \in BOOLEAN, NEW isBusy \in BOOLEAN,
             LastWord(box, working, isBusy)
      PROVE  LastWord(new, working, isBusy)
  BY <1>3, <1>4, <1>5 DEF LastWord
<1> QED BY <1>2, <1>3, <1>5 DEF new

\* A new notice is the last word.
LEMMA AppendNotice ==
    ASSUME NEW box \in Seq(Messages), NEW isBusy \in BOOLEAN,
           NEW working \in BOOLEAN
    PROVE  /\ Requests(Append(box, WNQ(isBusy))) = Requests(box)
           /\ LastWord(Append(box, WNQ(isBusy)), working, isBusy)
<1> DEFINE m == WNQ(isBusy)
           new == Append(box, m)
           last == Len(box) + 1
<1>1. m \in Messages /\ m.type = "WNQ" /\ m.is_working = isBusy
  BY OutputParts DEF WNQ
<1>2. /\ Len(box) \in Nat /\ DOMAIN box = 1..Len(box)
      /\ DOMAIN new = 1..(Len(box) + 1)
      /\ \A i \in 1..Len(box) : new[i] = box[i]
      /\ new[Len(box) + 1] = m
  BY <1>1, AppendPlaces
<1> HIDE DEF new, m
<1>3. Requests(new) = Requests(box)
  BY <1>1, <1>2 DEF Requests
<1>4. last \in Telling(new) /\ \A j \in Telling(new) : j <= last
  BY <1>1, <1>2 DEF Telling
<1>5. new[last].is_working = isBusy
  BY <1>1, <1>2
<1>6. LastWord(new, working, isBusy)
  BY <1>4, <1>5 DEF LastWord
<1> QED BY <1>3, <1>6 DEF new, m

\* What is left once the first message is read.
LEMMA ReadPlaces ==
    ASSUME NEW box \in Seq(Messages), box # <<>>
    PROVE  /\ Len(box) \in Nat \ {0}
           /\ DOMAIN box = 1..Len(box)
           /\ DOMAIN Tail(box) = 1..(Len(box) - 1)
           /\ \A i \in 1..(Len(box) - 1) : Tail(box)[i] = box[i + 1]
           /\ Head(box) = box[1]
OBVIOUS

\* The notices left are those that were behind the first message.
LEMMA TellingLeft ==
    ASSUME NEW box \in Seq(Messages), box # <<>>
    PROVE  /\ \A i \in Telling(Tail(box)) :
                 i + 1 \in Telling(box) /\ Tail(box)[i] = box[i + 1] /\ i \in Nat
           /\ \A i \in Telling(box) :
                 i # 1 => i - 1 \in Telling(Tail(box))
                             /\ Tail(box)[i - 1] = box[i] /\ i \in Nat
<1> DEFINE rest == Tail(box)
<1>1. /\ Len(box) \in Nat \ {0}
      /\ DOMAIN box = 1..Len(box)
      /\ DOMAIN rest = 1..(Len(box) - 1)
      /\ \A i \in 1..(Len(box) - 1) : rest[i] = box[i + 1]
  BY ReadPlaces
<1> HIDE DEF rest
<1>2. ASSUME NEW i \in Telling(rest)
      PROVE  i + 1 \in Telling(box) /\ rest[i] = box[i + 1] /\ i \in Nat
  <2>1. i \in 1..(Len(box) - 1) /\ rest[i].type = "WNQ"
    BY <1>1 DEF Telling
  <2>2. i + 1 \in 1..Len(box)
    BY <1>1, <2>1
  <2> QED BY <1>1, <2>1, <2>2 DEF Telling
<1>3. ASSUME NEW i \in Telling(box), i # 1
      PROVE  i - 1 \in Telling(rest) /\ rest[i - 1] = box[i] /\ i \in Nat
  <2>1. i \in 1..Len(box) /\ box[i].type = "WNQ"
    BY <1>1 DEF Telling
  <2>2. i - 1 \in 1..(Len(box) - 1) /\ (i - 1) + 1 = i
    BY <1>1, <1>3, <2>1
  <2>3. rest[i - 1] = box[i]
    BY <1>1, <2>2
  <2> QED BY <1>1, <2>1, <2>2, <2>3 DEF Telling
<1> QED BY <1>2, <1>3 DEF rest

\* Reading a message leaves no registration where only the first could be
\* one, and no notice where there was none.
LEMMA ReadOne ==
    ASSUME NEW box \in Seq(Messages), box # <<>>
    PROVE  /\ Requests(box) \subseteq {1} => Requests(Tail(box)) = {}
           /\ Telling(box) = {} => Telling(Tail(box)) = {}
           /\ Head(box).type = "WRQ" => Requests(box) # {}
           /\ Head(box).type = "WNQ" => Telling(box) # {}
<1> DEFINE rest == Tail(box)
<1>1. /\ Len(box) \in Nat \ {0}
      /\ DOMAIN box = 1..Len(box)
      /\ DOMAIN rest = 1..(Len(box) - 1)
      /\ \A i \in 1..(Len(box) - 1) : rest[i] = box[i + 1]
      /\ Head(box) = box[1]
  BY ReadPlaces
<1>2. Telling(box) = {} => Telling(rest) = {}
  BY TellingLeft
<1> HIDE DEF rest
<1>3. ASSUME NEW i \in Requests(rest)
      PROVE  i + 1 \in Requests(box) /\ i + 1 # 1
  <2>1. i \in 1..(Len(box) - 1) /\ rest[i].type = "WRQ"
    BY <1>1 DEF Requests
  <2>2. i + 1 \in 1..Len(box) /\ i + 1 # 1
    BY <1>1, <2>1
  <2> QED BY <1>1, <2>1, <2>2 DEF Requests
<1>4. Requests(box) \subseteq {1} => Requests(rest) = {}
  BY <1>3
<1>5. 1 \in DOMAIN box
  BY <1>1
<1> QED BY <1>1, <1>2, <1>4, <1>5 DEF Requests, Telling, rest

\* The last word survives the reading of anything but a notice, and that of a
\* notice that is then noted in the registry.
LEMMA ReadWord ==
    ASSUME NEW box \in Seq(Messages), box # <<>>,
           NEW working \in BOOLEAN, NEW isBusy \in BOOLEAN,
           NEW noted \in BOOLEAN,
           LastWord(box, working, isBusy),
           IF Head(box).type = "WNQ" THEN noted = Head(box).is_working
                                     ELSE noted = working
    PROVE  LastWord(Tail(box), noted, isBusy)
<1> DEFINE rest == Tail(box)
<1>1. /\ \A i \in Telling(rest) :
             i + 1 \in Telling(box) /\ rest[i] = box[i + 1] /\ i \in Nat
      /\ \A i \in Telling(box) :
             i # 1 => i - 1 \in Telling(rest) /\ rest[i - 1] = box[i] /\ i \in Nat
  BY TellingLeft
<1>2. Head(box) = box[1] /\ 1 \in DOMAIN box
  BY ReadPlaces
<1> HIDE DEF rest
<1>3. CASE Telling(box) = {}
  <2>1. Telling(rest) = {}
    BY <1>1, <1>3
  <2>2. Head(box).type # "WNQ"
    BY <1>2, <1>3 DEF Telling
  <2> QED BY <1>3, <2>1, <2>2 DEF LastWord, rest
<1>4. CASE Telling(box) # {}
  <2>1. PICK i \in Telling(box) : /\ \A j \in Telling(box) : j <= i
                                  /\ box[i].is_working = isBusy
    BY <1>4 DEF LastWord
  <2>2. CASE i = 1
    <3>1. Telling(rest) = {}
      <4>1. ASSUME NEW k \in Telling(rest) PROVE FALSE
        <5>1. k + 1 <= i /\ k \in Nat /\ k + 1 \in Telling(box)
          BY <1>1, <2>1
        <5>2. k = 0
          BY <2>2, <5>1
        <5>3. 0 \in Telling(rest) /\ DOMAIN rest = 1..(Len(box) - 1)
              /\ Len(box) \in Nat
          BY <5>2, ReadPlaces DEF rest
        <5> QED BY <5>3 DEF Telling
      <4> QED BY <4>1
    <3>2. Head(box).type = "WNQ" /\ noted = isBusy
      BY <1>2, <2>1, <2>2 DEF Telling
    <3> QED BY <3>1, <3>2 DEF LastWord, rest
  <2>3. CASE i # 1
    <3>1. i - 1 \in Telling(rest) /\ rest[i - 1] = box[i] /\ i \in Nat
      BY <1>1, <2>3
    <3>2. ASSUME NEW k \in Telling(rest) PROVE k <= i - 1
      <4>1. k + 1 <= i /\ k \in Nat
        BY <1>1, <2>1
      <4> QED BY <3>1, <4>1
    <3> QED BY <2>1, <3>1, <3>2 DEF LastWord, rest
  <2> QED BY <2>2, <2>3
<1> QED BY <1>3, <1>4

-----------------------------------------------------------------------------
(* The last word of a registered worker.                                    *)

(***************************************************************************)
(* NoticesTellTruth is not inductive: a notice must reach the registry by  *)
(* the session that registered its worker, and the answer to that          *)
(* registration must not overtake a notice.  So of a session it is said:   *)
(* a registration is the first message of a session that has no worker     *)
(* yet, notices come only by sessions that have theirs, and the answer to  *)
(* a registration stands for a worker that has told nothing yet.           *)
(***************************************************************************)
SessionTold(s) ==
    /\ Requests(inbox[s]) # {} => node[s] = None
    /\ Requests(inbox[s]) \subseteq {1}
    /\ Telling(inbox[s]) # {} => node[s] = accepted[s]
    /\ send_buffer[s] = "WRP" =>
          /\ accepted[s] \in Workers
          /\ node[s] = accepted[s]
          /\ Telling(inbox[s]) = {}
          /\ ~registry.is_working[accepted[s]]
          /\ link[accepted[s]] = s => progress[accepted[s]] # "REGISTED"

\* What a worker has still to tell is true, and only a registered one has
\* anything.  A registered worker is the one its session points to, and when
\* it has nothing to tell and nothing was replaced, its last word is true.
WorkerTold(w) ==
    /\ unsent[w] \in Notices =>
          progress[w] = "REGISTED" /\ unsent[w] = WNQ(busy[w])
    /\ progress[w] = "REGISTED" =>
          /\ link[w] # None
          /\ node[link[w]] = w
          /\ unsent[w] \notin Notices /\ w \notin replaced =>
                LastWord(inbox[link[w]], registry.is_working[w], busy[w])

Told ==
    /\ \A s \in Sessions : SessionTold(s)
    /\ \A w \in Workers : WorkerTold(w)

\* What the history keeps: a worker it does not name had nothing replaced, and
\* a notice that it no longer has to send was sent.
Remembers(w) ==
    progress'[w] = "REGISTED" /\ unsent'[w] \notin Notices /\ w \notin replaced'
       => w \notin replaced /\ (unsent[w] \in Notices => WorkerSends(w))

\* The last word is what NoticesTellTruth speaks of.
LEMMA ToldMeansTruth == Told => NoticesTellTruth
<1> SUFFICES ASSUME Told, NEW w \in Workers \ replaced, progress[w] = "REGISTED"
             PROVE  IF unsent[w] \in Notices THEN unsent[w] = WNQ(busy[w])
                    ELSE IF NoticesOf(w) = {}
                         THEN registry.is_working[w] => busy[w]
                         ELSE \E i \in NoticesOf(w) :
                                 /\ \A j \in NoticesOf(w) : j <= i
                                 /\ inbox[link[w]][i].is_working = busy[w]
  BY DEF NoticesTellTruth
<1>1. CASE unsent[w] \in Notices
  BY <1>1 DEF Told, WorkerTold
<1>2. CASE unsent[w] \notin Notices
  <2>1. LastWord(inbox[link[w]], registry.is_working[w], busy[w])
    BY <1>2 DEF Told, WorkerTold
  <2>2. NoticesOf(w) = Telling(inbox[link[w]])
    BY DEF NoticesOf, Telling
  <2> QED BY <1>2, <2>1, <2>2 DEF LastWord
<1> QED BY <1>1, <1>2

\* A worker on whose connection nothing arrives has sent nothing.
LEMMA NotSent ==
    ASSUME TypeOK, NEW w \in Workers, inbox'[link[w]] = inbox[link[w]]
    PROVE  ~WorkerSends(w)
<1> SUFFICES ASSUME WorkerSends(w) PROVE FALSE
  OBVIOUS
<1>1. PICK box \in Seq(Messages) : box = inbox[link[w]]
  BY DEF WorkerSends, TypeOK, Clients
<1>2. PICK m \in Messages : m = unsent[w]
  BY OutputParts DEF WorkerSends, TypeOK
<1>3. inbox'[link[w]] = Append(box, m)
  BY <1>1, <1>2 DEF WorkerSends, TypeOK, Clients
<1>4. Append(box, m) # box
  <2>1. Len(Append(box, m)) = Len(box) + 1 /\ Len(box) \in Nat
    OBVIOUS
  <2> QED BY <2>1
<1> QED BY <1>1, <1>3, <1>4

\* A session that a step leaves alone, whose worker is not told of.
LEMMA SessionLeft ==
    ASSUME NEW s \in Sessions, SessionTold(s),
           inbox'[s] = inbox[s], node'[s] = node[s],
           accepted'[s] = accepted[s],
           send_buffer'[s] = "WRP" => send_buffer[s] = "WRP",
           accepted[s] \in Workers /\ node[s] = accepted[s]
                /\ ~registry.is_working[accepted[s]]
                   => ~registry'.is_working[accepted[s]],
           send_buffer[s] = "WRP" /\ accepted[s] \in Workers
                /\ link'[accepted[s]] = s
                /\ progress'[accepted[s]] = "REGISTED"
                   => /\ link[accepted[s]] = s
                      /\ progress[accepted[s]] = "REGISTED"
    PROVE  SessionTold(s)'
BY DEF SessionTold

\* A worker that a step leaves alone, or has something else to send.
LEMMA WorkerLeft ==
    ASSUME TypeOK, NEW w \in Workers, WorkerTold(w), Remembers(w),
           unsent'[w] \in Notices => unsent'[w] = unsent[w],
           unsent'[w] \in Notices /\ progress[w] = "REGISTED" =>
              progress'[w] = "REGISTED" /\ busy'[w] = busy[w],
           progress'[w] = "REGISTED" =>
              /\ progress[w] = "REGISTED"
              /\ link'[w] = link[w]
              /\ node'[link[w]] = node[link[w]]
              /\ inbox'[link[w]] = inbox[link[w]]
              /\ registry'.is_working[w] = registry.is_working[w]
              /\ busy'[w] = busy[w]
    PROVE  WorkerTold(w)'
<1>1. unsent'[w] \in Notices =>
         progress'[w] = "REGISTED" /\ unsent'[w] = WNQ(busy'[w])
  BY DEF WorkerTold
<1>2. ASSUME progress'[w] = "REGISTED"
      PROVE  link'[w] # None /\ node'[link'[w]] = w
  BY <1>2 DEF WorkerTold
<1>3. ASSUME progress'[w] = "REGISTED", unsent'[w] \notin Notices,
             w \notin replaced'
      PROVE  LastWord(inbox'[link'[w]], registry'.is_working[w], busy'[w])
  <2>1. ~WorkerSends(w)
    BY <1>3, NotSent
  <2>2. unsent[w] \notin Notices /\ w \notin replaced
    BY <1>3, <2>1 DEF Remembers
  <2>3. LastWord(inbox[link[w]], registry.is_working[w], busy[w])
    BY <1>3, <2>2 DEF WorkerTold
  <2> QED BY <1>3, <2>3
<1> QED BY <1>1, <1>2, <1>3 DEF WorkerTold

\* A step that leaves all of them alone, but for what they have to send.
LEMMA AllLeft ==
    ASSUME TypeOK, Told, \A w \in Workers : Remembers(w),
           UNCHANGED <<accepted, node, inbox, link, progress, busy>>,
           \A w \in Workers :
              unsent'[w] \in Notices => unsent'[w] = unsent[w],
           registry'.is_working = registry.is_working,
           \A s \in Sessions :
              send_buffer'[s] = "WRP" => send_buffer[s] = "WRP"
    PROVE  Told'
<1>1. ASSUME NEW s \in Sessions PROVE SessionTold(s)'
  BY SessionLeft DEF Told
<1>2. ASSUME NEW w \in Workers PROVE WorkerTold(w)'
  BY WorkerLeft DEF Told
<1> QED BY <1>1, <1>2 DEF Told

\* The sessions of two workers differ.
LEMMA OwnSession ==
    ASSUME TypeOK, SessionsOK, NEW c \in Clients, link[c] # None
    PROVE  /\ link[c] \in Sessions
           /\ accepted[link[c]] = c
           /\ inbox[link[c]] \in Seq(Messages)
           /\ \A d \in Clients : link[d] = link[c] => d = c
BY DEF TypeOK, SessionsOK

\* A client connects: nothing has been told on its session.
LEMMA ConnectTold ==
    ASSUME TypeOK, PointersMatch, SessionsOK, Told,
           \A w \in Workers : Remembers(w), NEW c \in Clients,
           NEW s \in Sessions, Connect(c, s)
    PROVE  Told'
<1>1. /\ accepted[s] = None /\ link[c] = None
      /\ accepted' = [accepted EXCEPT ![s] = c]
      /\ link' = [link EXCEPT ![c] = s]
      /\ node' = node /\ send_buffer' = send_buffer
      /\ registry' = registry /\ busy' = busy /\ unsent' = unsent
  BY DEF Connect, registerVars
<1>2. /\ accepted \in [Sessions -> Clients \cup {None}]
      /\ link \in [Clients -> Sessions \cup {None}]
      /\ inbox \in [Sessions -> Seq(Messages)]
      /\ progress \in [Workers -> {"CLOSED", "CONNECTED", "REGISTED"}]
  BY DEF TypeOK
<1>3. /\ \A t \in Sessions \ {s} : inbox'[t] = inbox[t]
      /\ inbox'[s] \in {<<WRQ>>, inbox[s]}
      /\ \A w \in Workers \ {c} : progress'[w] = progress[w]
      /\ c \in Workers => progress'[c] = "CONNECTED"
  BY <1>1, <1>2 DEF Connect
<1>4. /\ inbox[s] = <<>> /\ send_buffer[s] = None /\ node[s] = None
  BY <1>1 DEF SessionsOK, PointersMatch
<1>5. ASSUME NEW t \in Sessions, t # s PROVE SessionTold(t)'
  <2>1. /\ accepted'[t] = accepted[t]
        /\ accepted[t] \in Workers /\ link'[accepted[t]] = t
              => accepted[t] # c /\ link[accepted[t]] = t
    BY <1>1, <1>2, <1>5 DEF Clients
  <2>2. accepted[t] \in Workers /\ link'[accepted[t]] = t
           => progress'[accepted[t]] = progress[accepted[t]]
    BY <1>3, <2>1
  <2> QED BY <1>1, <1>3, <1>5, <2>1, <2>2, SessionLeft DEF Told
<1>6. SessionTold(s)'
  <2>1. /\ Requests(inbox'[s]) \subseteq {1}
        /\ Telling(inbox'[s]) = {}
    <3>1. CASE inbox'[s] = <<>>
      BY <3>1 DEF Requests, Telling
    <3>2. CASE inbox'[s] = <<WRQ>>
      BY <3>2 DEF Requests, Telling, WRQ
    <3> QED BY <1>3, <1>4, <3>1, <3>2
  <2>2. send_buffer'[s] # "WRP"
    BY <1>1, <1>4, NoneIsNothing DEF Answers
  <2> QED BY <1>1, <1>4, <2>1, <2>2 DEF SessionTold
<1>7. ASSUME NEW w \in Workers PROVE WorkerTold(w)'
  <2>1. CASE w = c
    <3>1. unsent[w] \notin Notices
      BY <1>1, <2>1 DEF Told, WorkerTold
    <3> QED BY <1>1, <1>3, <2>1, <3>1 DEF WorkerTold
  <2>2. CASE w # c
    <3>1. ASSUME progress'[w] = "REGISTED"
          PROVE  /\ progress[w] = "REGISTED"
                 /\ link'[w] = link[w]
                 /\ link[w] # s /\ link[w] \in Sessions
      <4>1. progress[w] = "REGISTED" /\ link'[w] = link[w] /\ w \in Clients
        BY <1>1, <1>2, <1>3, <2>2, <3>1 DEF Clients
      <4>2. link[w] # None
        BY <4>1 DEF Told, WorkerTold
      <4>3. link[w] \in Sessions /\ accepted[link[w]] = w
        BY <4>1, <4>2, OwnSession
      <4> QED BY <1>1, <4>1, <4>3
    <3>2. progress'[w] = progress[w]
      BY <1>3, <2>2
    <3> QED BY <1>1, <1>3, <3>1, <3>2, WorkerLeft DEF Told
  <2> QED BY <2>1, <2>2
<1> QED BY <1>5, <1>6, <1>7 DEF Told

\* The end of the process leaves nothing under way.
LEMMA EndTold ==
    ASSUME NEW how, Ends(how) PROVE Told'
<1>1. ASSUME NEW s \in Sessions PROVE SessionTold(s)'
  <2>1. inbox'[s] = <<>> /\ send_buffer'[s] = None
    BY DEF Ends
  <2>2. Requests(<<>>) = {} /\ Telling(<<>>) = {}
    BY DEF Requests, Telling
  <2>3. None # "WRP"
    BY NoneIsNothing DEF Answers
  <2> QED BY <2>1, <2>2, <2>3 DEF SessionTold
<1>2. ASSUME NEW w \in Workers PROVE WorkerTold(w)'
  <2>1. unsent'[w] = None /\ progress'[w] = "CLOSED"
    BY DEF Ends
  <2> QED BY <2>1, OutputParts DEF WorkerTold
<1> QED BY <1>1, <1>2 DEF Told

\* So does closing a session that no client is connected to.
LEMMA CloseTold ==
    ASSUME TypeOK, RegistryOK(registry), PointersMatch, SessionsOK, Told,
           \A w \in Workers : Remembers(w),
           NEW s \in Sessions, \A c \in Clients : link[c] # s,
           CloseAcceptedSocket(s), UNCHANGED clientVars
    PROVE  Told'
<1>1. registry'.is_working = registry.is_working
  <2>1. CASE node[s] = None
    BY <2>1 DEF CloseAcceptedSocket
  <2>2. CASE node[s] # None
    BY <2>2 DEF CloseAcceptedSocket, Unregistered, TypeOK, Registry
  <2> QED BY <2>1, <2>2
<1>2. /\ \A t \in Sessions \ {s} : /\ accepted'[t] = accepted[t]
                                   /\ node'[t] = node[t]
                                   /\ send_buffer'[t] = send_buffer[t]
                                   /\ inbox'[t] = inbox[t]
      /\ inbox'[s] = <<>> /\ send_buffer'[s] = None
      /\ UNCHANGED <<link, progress, busy, unsent>>
  BY DEF CloseAcceptedSocket, TypeOK, clientVars
<1>3. SessionTold(s)'
  <2>1. Requests(<<>>) = {} /\ Telling(<<>>) = {}
    BY DEF Requests, Telling
  <2>2. None # "WRP"
    BY NoneIsNothing DEF Answers
  <2> QED BY <1>2, <2>1, <2>2 DEF SessionTold
<1>4. ASSUME NEW t \in Sessions, t # s PROVE SessionTold(t)'
  BY <1>1, <1>2, <1>4, SessionLeft DEF Told
<1>5. ASSUME NEW w \in Workers PROVE WorkerTold(w)'
  <2>1. ASSUME progress[w] = "REGISTED"
        PROVE  link[w] \in Sessions \ {s}
    <3>1. w \in Clients /\ link[w] # None
      BY <2>1 DEF Told, WorkerTold, Clients
    <3> QED BY <3>1, OwnSession
  <2> QED BY <1>1, <1>2, <2>1, WorkerLeft DEF Told
<1> QED BY <1>3, <1>4, <1>5 DEF Told

\* A step in which clients go away, at most, and at most one message that is
\* neither a registration nor a notice is sent.
LEMMA SendTold ==
    ASSUME TypeOK, SessionsOK, Told,
           \A w \in Workers : Remembers(w), NEW s \in Sessions, NEW m \in Messages,
           m.type \notin {"WRQ", "WNQ"},
           \/ inbox' = inbox
           \/ inbox' = [inbox EXCEPT ![s] = Append(inbox[s], m)],
           UNCHANGED <<accepted, node, registry>>,
           \A t \in Sessions : send_buffer'[t] = "WRP" => send_buffer[t] = "WRP",
           \A w \in Workers :
              /\ unsent'[w] \in Notices =>
                    unsent'[w] = unsent[w] /\ progress'[w] = progress[w]
              /\ progress'[w] = "REGISTED" =>
                    /\ progress[w] = "REGISTED"
                    /\ link'[w] = link[w]
                    /\ busy'[w] = busy[w]
                    /\ unsent[w] \in Notices => unsent'[w] = unsent[w]
    PROVE  Told'
<1>1. /\ inbox \in [Sessions -> Seq(Messages)]
      /\ registry.is_working \in [Workers -> BOOLEAN]
      /\ busy \in [Workers -> BOOLEAN]
  BY DEF TypeOK, Registry
<1>2. ASSUME NEW t \in Sessions
      PROVE  /\ Requests(inbox'[t]) = Requests(inbox[t])
             /\ Telling(inbox'[t]) = Telling(inbox[t])
             /\ \A working, isBusy \in BOOLEAN :
                   LastWord(inbox[t], working, isBusy)
                      => LastWord(inbox'[t], working, isBusy)
  <2>1. inbox'[t] = inbox[t] \/ inbox'[t] = Append(inbox[t], m)
    BY <1>1
  <2>2. inbox[t] \in Seq(Messages)
    BY <1>1
  <2> QED BY <2>1, <2>2, AppendOther
<1>3. ASSUME NEW t \in Sessions PROVE SessionTold(t)'
  <2>1. SessionTold(t)
    BY DEF Told
  <2>2. send_buffer'[t] = "WRP" => send_buffer[t] = "WRP"
    OBVIOUS
  <2>3. accepted[t] \in Workers /\ link'[accepted[t]] = t
           /\ progress'[accepted[t]] = "REGISTED"
              => link[accepted[t]] = t /\ progress[accepted[t]] = "REGISTED"
    OBVIOUS
  <2> QED BY <1>2, <2>1, <2>2, <2>3 DEF SessionTold
<1>4. ASSUME NEW w \in Workers, progress'[w] = "REGISTED"
      PROVE  /\ link'[w] # None
             /\ node'[link'[w]] = w
             /\ unsent'[w] \notin Notices /\ w \notin replaced' =>
                   LastWord(inbox'[link'[w]], registry'.is_working[w], busy'[w])
  <2>1. /\ progress[w] = "REGISTED" /\ link'[w] = link[w] /\ busy'[w] = busy[w]
        /\ w \in Clients
    BY <1>4 DEF Clients
  <2>2. link[w] # None /\ node[link[w]] = w
    BY <2>1 DEF Told, WorkerTold
  <2>3. link[w] \in Sessions
    BY <2>1, <2>2, OwnSession
  <2>4. registry.is_working[w] \in BOOLEAN /\ busy[w] \in BOOLEAN
    BY <1>1
  <2>5. ASSUME unsent'[w] \notin Notices, w \notin replaced'
        PROVE  LastWord(inbox'[link[w]], registry.is_working[w], busy[w])
    <3>1. unsent[w] \notin Notices /\ w \notin replaced
      BY <1>4, <2>5 DEF Remembers
    <3>2. LastWord(inbox[link[w]], registry.is_working[w], busy[w])
      BY <2>1, <3>1 DEF Told, WorkerTold
    <3> QED BY <1>2, <2>3, <2>4, <3>2
  <2> QED BY <2>1, <2>2, <2>5
<1>5. ASSUME NEW w \in Workers, unsent'[w] \in Notices
      PROVE  progress'[w] = "REGISTED" /\ unsent'[w] = WNQ(busy'[w])
  <2>1. unsent[w] \in Notices /\ unsent'[w] = unsent[w]
        /\ progress'[w] = progress[w]
    BY <1>5
  <2>2. progress[w] = "REGISTED" /\ unsent[w] = WNQ(busy[w])
    BY <2>1 DEF Told, WorkerTold
  <2> QED BY <2>1, <2>2
<1> QED BY <1>3, <1>4, <1>5 DEF Told, WorkerTold

\* A worker turns busy or idle: if it is registered, it has that to tell.
LEMMA TurnTold ==
    ASSUME TypeOK, SessionsOK, Told, \A v \in Workers : Remembers(v),
           NEW w \in Workers, Turns(w)
    PROVE  Told'
<1>1. /\ UNCHANGED <<accepted, node, registry, send_buffer, inbox, link,
                     progress>>
      /\ busy' \in [Workers -> BOOLEAN]
      /\ \A v \in Workers \ {w} : busy'[v] = busy[v]
  BY DEF Turns, registerVars, sessionVars, TypeOK
<1>2. /\ \A v \in Workers \ {w} : unsent'[v] = unsent[v]
      /\ progress[w] = "REGISTED" => unsent'[w] = WNQ(busy'[w])
      /\ progress[w] # "REGISTED" => unsent'[w] = unsent[w]
  BY DEF Turns, Replaces, TypeOK
<1>3. ASSUME NEW s \in Sessions PROVE SessionTold(s)'
  BY <1>1, SessionLeft DEF Told
<1>4. WorkerTold(w)'
  <2>1. CASE progress[w] = "REGISTED"
    <3>1. unsent'[w] \in Notices
      BY <1>1, <1>2, <2>1, OutputParts
    <3>2. link[w] # None /\ node[link[w]] = w
      BY <2>1 DEF Told, WorkerTold
    <3> QED BY <1>1, <1>2, <2>1, <3>1, <3>2 DEF WorkerTold
  <2>2. CASE progress[w] # "REGISTED"
    <3>1. unsent[w] \notin Notices
      BY <2>2 DEF Told, WorkerTold
    <3> QED BY <1>1, <1>2, <2>2, <3>1 DEF WorkerTold
  <2> QED BY <2>1, <2>2
<1>5. ASSUME NEW v \in Workers, v # w PROVE WorkerTold(v)'
  BY <1>1, <1>2, <1>5, WorkerLeft DEF Told
<1> QED BY <1>3, <1>4, <1>5 DEF Told

\* A worker has a heartbeat to send instead.
LEMMA BeatTold ==
    ASSUME TypeOK, SessionsOK, Told, \A v \in Workers : Remembers(v),
           NEW w \in Workers, BeatsHeart(w)
    PROVE  Told'
<1>1. UNCHANGED <<accepted, node, registry, send_buffer, inbox, link, progress,
                  busy>>
  BY DEF BeatsHeart, registerVars, sessionVars
<1>2. unsent' = [unsent EXCEPT ![w] = HBQ]
  BY DEF BeatsHeart, Replaces
<1>3. HBQ \notin Notices
  BY OutputParts
<1>4. \A v \in Workers : unsent'[v] \in Notices => unsent'[v] = unsent[v]
  BY <1>2, <1>3 DEF TypeOK
<1> QED BY <1>1, <1>4, AllLeft

\* A worker sends what it has to: a notice becomes its last word.
LEMMA SentTold ==
    ASSUME TypeOK, SessionsOK, Told, \A v \in Workers : Remembers(v),
           NEW w \in Workers, WorkerSends(w)
    PROVE  Told'
<1>1. /\ inbox \in [Sessions -> Seq(Messages)]
      /\ registry.is_working \in [Workers -> BOOLEAN]
      /\ busy \in [Workers -> BOOLEAN]
      /\ unsent \in [Workers -> Outputs \cup {None}]
  BY DEF TypeOK, Registry
<1>2. /\ UNCHANGED <<accepted, node, registry, send_buffer, link, progress, busy>>
      /\ unsent'[w] = None
      /\ \A v \in Workers \ {w} : unsent'[v] = unsent[v]
  BY <1>1 DEF WorkerSends, registerVars
<1>3. None \notin Notices
  BY OutputParts
<1>4. PICK s : s = link[w]
  OBVIOUS
<1>5. PICK m : m = unsent[w]
  OBVIOUS
<1>6. m \in Outputs /\ m \in Messages
  BY <1>1, <1>5, OutputParts DEF WorkerSends
<1>7. /\ s \in Sessions /\ accepted[s] = w /\ inbox[s] \in Seq(Messages)
      /\ \A d \in Clients : link[d] = s => d = w
  BY <1>4, OwnSession DEF WorkerSends, Clients
<1>8. inbox' = [inbox EXCEPT ![s] = Append(inbox[s], m)]
  BY <1>4, <1>5 DEF WorkerSends
<1>9. CASE m \notin Notices
  <2>1. m.type \notin {"WRQ", "WNQ"}
    BY <1>6, <1>9, OutputParts DEF Outputs
  <2>2. ASSUME NEW v \in Workers
        PROVE  /\ unsent'[v] \in Notices =>
                     unsent'[v] = unsent[v] /\ progress'[v] = progress[v]
               /\ progress'[v] = "REGISTED" =>
                     /\ progress[v] = "REGISTED"
                     /\ link'[v] = link[v]
                     /\ busy'[v] = busy[v]
                     /\ unsent[v] \in Notices => unsent'[v] = unsent[v]
    BY <1>2, <1>3, <1>5, <1>9
  <2> QED BY <1>2, <1>6, <1>7, <1>8, <2>1, <2>2, SendTold
<1>10. CASE m \in Notices
  <2>1. progress[w] = "REGISTED" /\ m = WNQ(busy[w])
    BY <1>5, <1>10 DEF Told, WorkerTold
  <2>2. node[s] = w
    BY <1>4, <2>1 DEF Told, WorkerTold
  <2>3. /\ inbox'[s] = Append(inbox[s], WNQ(busy[w]))
        /\ \A t \in Sessions \ {s} : inbox'[t] = inbox[t]
    BY <1>1, <1>7, <1>8, <2>1
  <2>4. busy[w] \in BOOLEAN /\ registry.is_working[w] \in BOOLEAN
    BY <1>1
  <2>5. /\ Requests(inbox'[s]) = Requests(inbox[s])
        /\ LastWord(inbox'[s], registry.is_working[w], busy[w])
    BY <1>7, <2>3, <2>4, AppendNotice
  <2>6. SessionTold(s)'
    <3>1. SessionTold(s)
      BY <1>7 DEF Told
    <3>2. send_buffer[s] # "WRP"
      BY <1>4, <1>7, <2>1, <3>1 DEF SessionTold
    <3> QED BY <1>2, <1>7, <2>2, <2>5, <3>1, <3>2 DEF SessionTold
  <2>7. ASSUME NEW t \in Sessions, t # s PROVE SessionTold(t)'
    BY <1>2, <2>3, <2>7, SessionLeft DEF Told
  <2>8. WorkerTold(w)'
    <3>1. link[w] # None
      BY DEF WorkerSends
    <3> QED BY <1>2, <1>3, <1>4, <2>2, <2>5, <3>1 DEF WorkerTold
  <2>9. ASSUME NEW v \in Workers, v # w PROVE WorkerTold(v)'
    <3>1. ASSUME progress[v] = "REGISTED"
          PROVE  link[v] \in Sessions \ {s}
      <4>1. v \in Clients /\ link[v] # None
        BY <3>1 DEF Told, WorkerTold, Clients
      <4> QED BY <1>7, <2>9, <4>1, OwnSession
    <3> QED BY <1>2, <2>3, <2>9, <3>1, WorkerLeft DEF Told
  <2> QED BY <2>6, <2>7, <2>8, <2>9 DEF Told
<1> QED BY <1>9, <1>10

\* A message is read that is no notice, and no registration is granted.
LEMMA ReadTold ==
    ASSUME TypeOK, SessionsOK, Told,
           \A w \in Workers : Remembers(w), NEW s \in Sessions,
           inbox[s] # <<>>, Received(s), Head(inbox[s]).type # "WNQ",
           UNCHANGED <<accepted, node, registry, link, progress, busy, unsent>>,
           \A t \in Sessions : send_buffer'[t] = "WRP" => send_buffer[t] = "WRP"
    PROVE  Told'
<1>1. /\ inbox \in [Sessions -> Seq(Messages)]
      /\ registry.is_working \in [Workers -> BOOLEAN]
      /\ busy \in [Workers -> BOOLEAN]
  BY DEF TypeOK, Registry
<1>2. /\ inbox'[s] = Tail(inbox[s])
      /\ \A t \in Sessions \ {s} : inbox'[t] = inbox[t]
      /\ inbox[s] \in Seq(Messages)
  BY <1>1 DEF Received
<1>3. ASSUME NEW t \in Sessions PROVE SessionTold(t)'
  <2>1. CASE t # s
    BY <1>2, <2>1, SessionLeft DEF Told
  <2>2. CASE t = s
    <3>1. SessionTold(s)
      BY DEF Told
    <3>2. /\ Requests(inbox'[s]) = {}
          /\ Telling(inbox[s]) = {} => Telling(inbox'[s]) = {}
      BY <1>2, <3>1, ReadOne DEF SessionTold
    <3>3. send_buffer'[s] = "WRP" => send_buffer[s] = "WRP"
      OBVIOUS
    <3> QED BY <2>2, <3>1, <3>2, <3>3 DEF SessionTold
  <2> QED BY <2>1, <2>2
<1>4. ASSUME NEW w \in Workers PROVE WorkerTold(w)'
  <2>1. CASE link[w] # s
    <3>1. ASSUME progress[w] = "REGISTED"
          PROVE  link[w] \in Sessions \ {s}
      <4>1. w \in Clients /\ link[w] # None
        BY <3>1 DEF Told, WorkerTold, Clients
      <4> QED BY <2>1, <4>1, OwnSession
    <3> QED BY <1>2, <3>1, WorkerLeft DEF Told
  <2>2. CASE link[w] = s /\ progress[w] = "REGISTED"
    <3>1. /\ link[w] # None /\ node[s] = w
          /\ unsent[w] \in Notices => unsent[w] = WNQ(busy[w])
      BY <2>2 DEF Told, WorkerTold
    <3>2. registry.is_working[w] \in BOOLEAN /\ busy[w] \in BOOLEAN
      BY <1>1
    <3>3. ASSUME unsent[w] \notin Notices, w \notin replaced'
          PROVE  LastWord(inbox'[s], registry.is_working[w], busy[w])
      <4>1. LastWord(inbox[s], registry.is_working[w], busy[w])
        BY <2>2, <3>3 DEF Told, WorkerTold, Remembers
      <4> QED BY <1>2, <3>2, <4>1, ReadWord
    <3> QED BY <2>2, <3>1, <3>3 DEF WorkerTold
  <2>3. CASE progress[w] # "REGISTED"
    BY <2>3 DEF Told, WorkerTold
  <2> QED BY <2>1, <2>2, <2>3
<1> QED BY <1>3, <1>4 DEF Told

\* A registration is granted: the worker is noted idle, has told nothing on
\* this session, and is not registered until it hears so.
LEMMA RegisterTold ==
    ASSUME TypeOK, PointersMatch, SessionsOK, Told,
           \A w \in Workers : Remembers(w), NEW s \in Sessions,
           WorkerRegisterRequest(s)
    PROVE  Told'
<1>1. /\ inbox \in [Sessions -> Seq(Messages)]
      /\ registry.is_working \in [Workers -> BOOLEAN]
      /\ node \in [Sessions -> Workers \cup {None}]
      /\ send_buffer \in [Sessions -> Answers \cup {None}]
  BY DEF TypeOK, Registry
<1>2. /\ inbox[s] \in Seq(Messages) /\ inbox[s] # <<>>
      /\ Head(inbox[s]).type = "WRQ" /\ Received(s)
      /\ send_buffer[s] = None
      /\ UNCHANGED <<accepted, link, progress, busy, unsent>>
  BY <1>1 DEF WorkerRegisterRequest, Input, clientVars
<1>3. Head(inbox[s]) \in Nodes(inbox[s])
  BY <1>2, ReadBox
<1>4. accepted[s] \in Workers
  BY <1>2, <1>3 DEF SessionsOK
<1>5. /\ inbox'[s] = Tail(inbox[s])
      /\ \A t \in Sessions \ {s} : inbox'[t] = inbox[t]
  BY <1>1, <1>2 DEF Received
<1>6. CASE Listed(registry, accepted[s])
  <2>1. /\ UNCHANGED <<registry, node>>
        /\ send_buffer' = [send_buffer EXCEPT ![s] = "WRP_ERROR"]
    BY <1>6 DEF WorkerRegisterRequest, Answer
  <2>2. \A t \in Sessions : send_buffer'[t] = "WRP" => send_buffer[t] = "WRP"
    BY <1>1, <2>1
  <2> QED BY <1>2, <2>1, <2>2, ReadTold
<1>7. CASE ~Listed(registry, accepted[s])
  <2>1. PICK w \in Workers : w = accepted[s]
    BY <1>4
  <2>2. /\ registry' = Registered(registry, w)
        /\ node' = [node EXCEPT ![s] = w]
        /\ send_buffer' = [send_buffer EXCEPT ![s] = "WRP"]
    BY <1>7, <2>1 DEF WorkerRegisterRequest, Answer
  <2>3. registry'.is_working = [registry.is_working EXCEPT ![w] = FALSE]
    BY <2>2 DEF Registered, TypeOK, Registry
  <2>4. /\ node'[s] = w /\ send_buffer'[s] = "WRP"
        /\ \A t \in Sessions \ {s} : /\ node'[t] = node[t]
                                     /\ send_buffer'[t] = send_buffer[t]
        /\ ~registry'.is_working[w]
        /\ \A v \in Workers \ {w} :
              registry'.is_working[v] = registry.is_working[v]
    BY <1>1, <2>2, <2>3
  <2>5. SessionTold(s)
    BY DEF Told
  <2>6. Requests(inbox[s]) # {} /\ node[s] = None
    BY <1>2, <2>5, ReadOne DEF SessionTold
  <2>7. Telling(inbox[s]) = {}
    BY <2>1, <2>5, <2>6 DEF SessionTold
  <2>8. Requests(inbox'[s]) = {} /\ Telling(inbox'[s]) = {}
    BY <1>2, <1>5, <2>5, <2>7, ReadOne DEF SessionTold
  <2>9. ASSUME NEW v \in Workers, progress[v] = "REGISTED"
        PROVE  /\ v # w
               /\ link[v] \in Sessions \ {s}
    <3>1. v \in Clients /\ link[v] # None /\ node[link[v]] = v
      BY <2>9 DEF Told, WorkerTold, Clients
    <3>2. link[v] \in Sessions /\ link[v] # s
      BY <2>6, <3>1, OwnSession
    <3>3. Listed(registry, v)
      BY <3>1, <3>2 DEF PointersMatch
    <3> QED BY <1>7, <2>1, <3>2, <3>3
  <2>10. SessionTold(s)'
    BY <1>2, <2>1, <2>4, <2>8, <2>9 DEF SessionTold
  <2>11. ASSUME NEW t \in Sessions, t # s PROVE SessionTold(t)'
    <3>1. accepted[t] \in Workers /\ node[t] = accepted[t]
             /\ ~registry.is_working[accepted[t]]
                => ~registry'.is_working[accepted[t]]
      BY <2>4
    <3> QED BY <1>2, <1>5, <2>4, <2>11, <3>1, SessionLeft DEF Told
  <2>12. ASSUME NEW v \in Workers PROVE WorkerTold(v)'
    BY <1>2, <1>5, <2>4, <2>9, WorkerLeft DEF Told
  <2> QED BY <2>10, <2>11, <2>12 DEF Told
<1> QED BY <1>6, <1>7

\* A notice reaches the registry by the session of its worker, and is noted.
LEMMA NoticeTold ==
    ASSUME TypeOK, PointersMatch, SessionsOK, Told,
           \A w \in Workers : Remembers(w), NEW s \in Sessions,
           WorkerNoticeRequest(s)
    PROVE  Told'
<1>1. /\ inbox \in [Sessions -> Seq(Messages)]
      /\ registry.is_working \in [Workers -> BOOLEAN]
      /\ busy \in [Workers -> BOOLEAN]
  BY DEF TypeOK, Registry
<1>2. /\ inbox[s] \in Seq(Messages) /\ inbox[s] # <<>>
      /\ Head(inbox[s]).type = "WNQ" /\ Received(s)
      /\ send_buffer[s] = None
      /\ UNCHANGED <<accepted, node, send_buffer, link, progress, busy, unsent>>
  BY <1>1 DEF WorkerNoticeRequest, Input, clientVars
<1>3. /\ Head(inbox[s]) \in Messages
      /\ Head(inbox[s]) \in Nodes(inbox[s])
  BY <1>2, ReadBox
<1>4. Head(inbox[s]).is_working \in BOOLEAN
  BY <1>2, <1>3, MessageParts
<1>5. accepted[s] \in Workers
  BY <1>2, <1>3 DEF SessionsOK
<1>6. PICK w \in Workers : w = accepted[s]
  BY <1>5
<1>7. /\ inbox'[s] = Tail(inbox[s])
      /\ \A t \in Sessions \ {s} : inbox'[t] = inbox[t]
  BY <1>1, <1>2 DEF Received
<1>8. SessionTold(s)
  BY DEF Told
<1>9. /\ node[s] = w /\ w # None
      /\ Listed(registry, w)
      /\ \A t \in Sessions : node[t] = w => t = s
  <2>1. node[s] = accepted[s]
    BY <1>2, <1>8, ReadOne DEF SessionTold
  <2>2. w # None
    OBVIOUS
  <2> QED BY <1>6, <2>1, <2>2 DEF PointersMatch
<1>10. registry'.is_working
          = [registry.is_working EXCEPT ![w] = Head(inbox[s]).is_working]
  <2>1. registry' = Noticed(registry, w, Head(inbox[s]).is_working)
    BY <1>6, <1>9 DEF WorkerNoticeRequest
  <2> QED BY <2>1 DEF Noticed, TypeOK, Registry
<1>11. /\ registry'.is_working[w] = Head(inbox[s]).is_working
       /\ \A v \in Workers \ {w} :
             registry'.is_working[v] = registry.is_working[v]
  BY <1>1, <1>4, <1>10
<1>12. SessionTold(s)'
  <2>1. Requests(inbox'[s]) = {}
    BY <1>2, <1>7, <1>8, ReadOne DEF SessionTold
  <2>2. send_buffer'[s] # "WRP"
    BY <1>2, NoneIsNothing DEF Answers
  <2> QED BY <1>2, <1>6, <1>9, <2>1, <2>2 DEF SessionTold
<1>13. ASSUME NEW t \in Sessions, t # s PROVE SessionTold(t)'
  <2>1. accepted[t] \in Workers /\ node[t] = accepted[t]
           /\ ~registry.is_working[accepted[t]]
              => ~registry'.is_working[accepted[t]]
    BY <1>9, <1>11, <1>13
  <2> QED BY <1>2, <1>7, <1>13, <2>1, SessionLeft DEF Told
<1>14. WorkerTold(w)'
  <2>1. CASE progress[w] = "REGISTED"
    <3>1. /\ link[w] # None /\ node[link[w]] = w
          /\ unsent[w] \in Notices => unsent[w] = WNQ(busy[w])
          /\ w \in Clients
      BY <2>1 DEF Told, WorkerTold, Clients
    <3>2. link[w] = s
      BY <1>9, <3>1, OwnSession
    <3>3. registry.is_working[w] \in BOOLEAN /\ busy[w] \in BOOLEAN
      BY <1>1
    <3>4. ASSUME unsent[w] \notin Notices, w \notin replaced'
          PROVE  LastWord(inbox'[s], registry'.is_working[w], busy[w])
      <4>1. LastWord(inbox[s], registry.is_working[w], busy[w])
        BY <1>2, <2>1, <3>2, <3>4 DEF Told, WorkerTold, Remembers
      <4> QED BY <1>2, <1>4, <1>7, <1>11, <3>3, <4>1, ReadWord
    <3> QED BY <1>2, <2>1, <3>1, <3>2, <3>4 DEF WorkerTold
  <2>2. CASE progress[w] # "REGISTED"
    BY <1>2, <2>2 DEF Told, WorkerTold
  <2> QED BY <2>1, <2>2
<1>15. ASSUME NEW v \in Workers, v # w PROVE WorkerTold(v)'
  <2>1. ASSUME progress[v] = "REGISTED"
        PROVE  link[v] \in Sessions \ {s}
    <3>1. v \in Clients /\ link[v] # None
      BY <2>1 DEF Told, WorkerTold, Clients
    <3> QED BY <1>6, <1>15, <3>1, OwnSession
  <2> QED BY <1>2, <1>7, <1>11, <1>15, <2>1, WorkerLeft DEF Told
<1> QED BY <1>12, <1>13, <1>14, <1>15 DEF Told

\* What a step does to worker v when a client goes away.
LeftOrGone(v) ==
    /\ unsent'[v] \in Notices =>
          unsent'[v] = unsent[v] /\ progress'[v] = progress[v]
    /\ progress'[v] = "REGISTED" =>
          /\ progress[v] = "REGISTED"
          /\ link'[v] = link[v]
          /\ busy'[v] = busy[v]
          /\ unsent[v] \in Notices => unsent'[v] = unsent[v]

\* A client that goes away is registered no more and has nothing to send, and
\* no other changes.
LEMMA GoneTold ==
    ASSUME TypeOK, NEW c \in Clients, Disconnects(c),
           \A v \in Workers \ {c} : busy'[v] = busy[v], NEW v \in Workers
    PROVE  LeftOrGone(v)
<1>1. CASE v = c
  <2>1. progress'[v] = "CLOSED" /\ unsent'[v] = None
    BY <1>1 DEF Disconnects, TypeOK
  <2> QED BY <2>1, OutputParts DEF LeftOrGone
<1>2. CASE v # c
  BY <1>2 DEF Disconnects, TypeOK, Clients, LeftOrGone
<1> QED BY <1>1, <1>2

\* So it is when a client is forgotten.
LEMMA ForgetTold ==
    ASSUME TypeOK, NEW c \in Clients, Forgets(c), NEW v \in Workers
    PROVE  LeftOrGone(v)
<1>1. \A u \in Workers \ {c} : busy'[u] = busy[u]
  BY DEF Forgets, TypeOK
<1> QED BY <1>1, GoneTold DEF Forgets

\* An answer is heard: with the answer to its registration a worker starts to
\* be registered, idle in the registry and with nothing told yet.
LEMMA OutputTold ==
    ASSUME TypeOK, SessionsOK, Told,
           \A w \in Workers : Remembers(w), NEW s \in Sessions,
           AcceptedSocketOutput(s)
    PROVE  Told'
<1>1. PICK c : c = accepted[s]
  OBVIOUS
<1>2. /\ send_buffer[s] # None
      /\ send_buffer' = [send_buffer EXCEPT ![s] = None]
      /\ UNCHANGED <<registry, accepted, node>>
      /\ send_buffer \in [Sessions -> Answers \cup {None}]
  BY DEF AcceptedSocketOutput, registerVars, TypeOK
<1>3. c \in Clients
  BY <1>1, <1>2 DEF SessionsOK, TypeOK
<1>4. /\ send_buffer'[s] = None
      /\ \A t \in Sessions \ {s} : send_buffer'[t] = send_buffer[t]
      /\ \A t \in Sessions : send_buffer'[t] = "WRP" => send_buffer[t] = "WRP"
  BY <1>2, NoneIsNothing DEF Answers
<1>5. ASSUME UNCHANGED <<inbox, link, progress, busy>>,
             \/ UNCHANGED unsent
             \/ \E m \in {HBP, None} : unsent' = [unsent EXCEPT ![c] = m]
      PROVE  Told'
  <2>1. HBP \notin Notices /\ None \notin Notices
    BY OutputParts
  <2>2. \A w \in Workers : unsent'[w] \in Notices => unsent'[w] = unsent[w]
    BY <1>5, <2>1 DEF TypeOK
  <2> QED BY <1>2, <1>4, <1>5, <2>2, AllLeft
<1>6. ASSUME link[c] = s, send_buffer[s] = "WRP", UNCHANGED <<inbox, link, busy>>,
             progress' = [progress EXCEPT ![c] = "REGISTED"],
             unsent' = [unsent EXCEPT ![c] = None]
      PROVE  Told'
  <2>1. SessionTold(s)
    BY DEF Told
  <2>2. /\ c \in Workers /\ node[s] = c /\ Telling(inbox[s]) = {}
        /\ ~registry.is_working[c]
    BY <1>1, <1>6, <2>1 DEF SessionTold
  <2>3. /\ \A v \in Workers \ {c} : /\ progress'[v] = progress[v]
                                     /\ unsent'[v] = unsent[v]
        /\ unsent'[c] = None /\ None \notin Notices
    BY <1>6, <2>2, OutputParts DEF TypeOK
  <2>4. SessionTold(s)'
    <3>1. send_buffer'[s] # "WRP"
      BY <1>4, NoneIsNothing DEF Answers
    <3> QED BY <1>2, <1>6, <2>1, <3>1 DEF SessionTold
  <2>5. ASSUME NEW t \in Sessions, t # s PROVE SessionTold(t)'
    <3>1. accepted[t] \in Workers /\ link'[accepted[t]] = t
             => accepted[t] # c
      BY <1>6, <2>5
    <3> QED BY <1>2, <1>4, <1>6, <2>3, <2>5, <3>1, SessionLeft DEF Told
  <2>6. WorkerTold(c)'
    <3>1. LastWord(inbox[s], registry.is_working[c], busy[c])
      BY <2>2 DEF LastWord
    <3>2. s # None
      OBVIOUS
    <3> QED BY <1>2, <1>6, <2>2, <2>3, <3>1, <3>2 DEF WorkerTold
  <2>7. ASSUME NEW v \in Workers, v # c PROVE WorkerTold(v)'
    BY <1>2, <1>6, <2>3, <2>7, WorkerLeft DEF Told
  <2> QED BY <2>4, <2>5, <2>6, <2>7 DEF Told
<1>7. ASSUME inbox' = [inbox EXCEPT ![s] = Append(inbox[s], CLOSED)],
             Disconnects(c), UNCHANGED busy
      PROVE  Told'
  <2>1. CLOSED \in Messages /\ CLOSED.type = "CLOSED"
    BY DEF Messages, CLOSED
  <2>2. \A v \in Workers : LeftOrGone(v)
    BY <1>3, <1>7, GoneTold
  <2> QED BY <1>2, <1>4, <1>7, <2>1, <2>2, SendTold DEF LeftOrGone
<1> QED BY <1>1, <1>5, <1>6, <1>7 DEF AcceptedSocketOutput, Hears, Replaces,
                                     clientVars

\* No client is connected to a session on which its end was read, or failed.
LEMMA NobodyThere ==
    ASSUME TypeOK, SessionsOK, NEW s \in Sessions,
           PeerClosed(s) \/ AcceptedSocketError(s)
    PROVE  \A c \in Clients : link[c] # s
<1>1. CASE PeerClosed(s)
  <2>1. /\ inbox[s] \in Seq(Messages) /\ inbox[s] # <<>>
        /\ Head(inbox[s]).type = "CLOSED"
    BY <1>1 DEF PeerClosed, Input, TypeOK
  <2>2. Head(inbox[s]) \in Nodes(inbox[s])
    BY <2>1, ReadBox
  <2> QED BY <2>1, <2>2 DEF SessionsOK
<1>2. CASE AcceptedSocketError(s)
  BY <1>2 DEF AcceptedSocketError, SessionsOK, TypeOK
<1> QED BY <1>1, <1>2

\* Every step of the server keeps what was told.
LEMMA ServerTold ==
    ASSUME TypeOK, RegistryOK(registry), PointersMatch, SessionsOK, Told,
           \A w \in Workers : Remembers(w),
           ServerNext
    PROVE  Told'
<1> USE DEF registerVars, sessionVars, clientVars
<1>1. send_buffer \in [Sessions -> Answers \cup {None}] /\ registry \in Registry
  BY DEF TypeOK
<1>2. ASSUME NEW s \in Sessions, NEW answer \in Answers \ {"WRP"},
             Answer(s, answer)
      PROVE  \A t \in Sessions : send_buffer'[t] = "WRP" => send_buffer[t] = "WRP"
  BY <1>1, <1>2 DEF Answer
<1>3. {"HBQ", "HBP", "QWP"} \subseteq Answers \ {"WRP"}
  BY DEF Answers
<1>4. ASSUME NEW s \in Sessions, OnInput(s) PROVE Told'
  <2>1. CASE WorkerRegisterRequest(s)
    BY <2>1, RegisterTold
  <2>2. CASE WorkerNoticeRequest(s)
    BY <2>2, NoticeTold
  <2>3. CASE HeartBeatResponse(s)
    BY <2>3, ReadTold DEF HeartBeatResponse, Input
  <2>3a. CASE WorkerHeartBeat(s)
    <3>1. \A t \in Sessions : send_buffer'[t] = "WRP" => send_buffer[t] = "WRP"
      BY <1>2, <1>3, <2>3a DEF WorkerHeartBeat
    <3> QED BY <2>3a, <3>1, ReadTold DEF WorkerHeartBeat, Input
  <2>4. CASE QueryWorkersRequest(s)
    <3>1. \A t \in Sessions : send_buffer'[t] = "WRP" => send_buffer[t] = "WRP"
      <4>1. \/ UNCHANGED send_buffer
            \/ Answer(s, "QWP")
        BY <2>4 DEF QueryWorkersRequest
      <4> QED BY <1>2, <1>3, <4>1
    <3>2. /\ inbox[s] # <<>> /\ Received(s) /\ Head(inbox[s]).type # "WNQ"
          /\ UNCHANGED <<accepted, node, registry, link, progress, busy, unsent>>
      BY <2>4 DEF QueryWorkersRequest, Input
    <3> QED BY <3>1, <3>2, ReadTold
  <2>5. CASE PeerClosed(s)
    BY <2>5, NobodyThere, CloseTold DEF PeerClosed
  <2>6. CASE ReceiveFails(s)
    BY <2>6, EndTold DEF ReceiveFails
  <2> QED BY <1>4, <2>1, <2>2, <2>3, <2>3a, <2>4, <2>5, <2>6 DEF OnInput
<1>5. ASSUME NEW s \in Sessions, AcceptedSocketOutput(s) PROVE Told'
  BY <1>5, OutputTold
<1>6. ASSUME NEW s \in Sessions, AcceptedSocketError(s) PROVE Told'
  BY <1>6, NobodyThere, CloseTold DEF AcceptedSocketError
<1>7. ASSUME NEW s \in Sessions, HeartBeat(s) PROVE Told'
  <2>1. CASE HeartBeatRequest(s)
    BY <1>2, <1>3, <2>1, AllLeft DEF HeartBeatRequest
  <2>2. CASE HeartBeatLost(s)
    BY <2>2, EndTold DEF HeartBeatLost
  <2> QED BY <1>7, <2>1, <2>2 DEF HeartBeat
<1>8. CASE Finding
  <2>1. ASSUME NEW w \in Workers, FindOne(w) PROVE Told'
    <3>1. registry'.is_working = registry.is_working
      BY <1>1, <2>1 DEF FindOne, Given, Registry
    <3> QED BY <2>1, <3>1, AllLeft DEF FindOne
  <2>2. CASE FindNone
    <3>1. query.session \in Sessions
      BY <2>2 DEF FindNone, TypeOK, Asking, NoQuery
    <3> QED BY <1>2, <1>3, <2>2, <3>1, AllLeft DEF FindNone
  <2> QED BY <1>8, <2>1, <2>2 DEF Finding
<1>9. CASE Tick
  <2>1. registry'.is_working = registry.is_working
    BY <1>1, <1>9 DEF Tick, NextSecond, Registry
  <2> QED BY <1>9, <2>1, AllLeft DEF Tick
<1>10. CASE ForkAgain
  BY <1>10, AllLeft DEF ForkAgain
<1> QED BY <1>4, <1>5, <1>6, <1>7, <1>8, <1>9, <1>10 DEF ServerNext

\* So does every step of a client.
LEMMA ClientTold ==
    ASSUME TypeOK, RegistryOK(registry), PointersMatch, SessionsOK, Told,
           \A w \in Workers : Remembers(w),
           ClientNext
    PROVE  Told'
<1> USE DEF registerVars, sessionVars, clientVars
<1>1. HBP \in Messages /\ HBP.type \notin {"WRQ", "WNQ"}
  BY OutputParts
<1>2. ASSUME NEW c \in Clients, NEW s \in Sessions, Connect(c, s) PROVE Told'
  BY <1>2, ConnectTold
<1>3. ASSUME NEW c \in Clients, AcceptFails(c) PROVE Told'
  BY <1>3, EndTold DEF AcceptFails
<1>4. ASSUME NEW c \in Clients, NEW o \in OsTypes, NEW n \in Counts, Ask(c, o, n)
      PROVE  Told'
  <2>1. PICK s \in Sessions : s = link[c]
    BY <1>4, OwnSession DEF Ask
  <2>2. QWQ(o, n) \in Messages
    BY DEF Messages
  <2>3. QWQ(o, n).type = "QWQ"
    BY DEF QWQ
  <2>4. inbox' = [inbox EXCEPT ![s] = Append(inbox[s], QWQ(o, n))]
    BY <1>4, <2>1 DEF Ask
  <2>5. UNCHANGED <<accepted, node, registry, send_buffer, link, progress, busy,
                    unsent>>
    BY <1>4 DEF Ask
  <2> QED BY <2>2, <2>3, <2>4, <2>5, SendTold
<1>5. ASSUME NEW c \in Clients, NEW end \in {CLOSED, BROKEN}, Leave(c, end)
      PROVE  Told'
  <2>1. PICK s \in Sessions : s = link[c]
    BY <1>5, OwnSession DEF Leave
  <2>2. end \in Messages /\ end.type \notin {"WRQ", "WNQ"}
    BY DEF Messages, CLOSED, BROKEN
  <2>3. inbox' = [inbox EXCEPT ![s] = Append(inbox[s], end)]
    BY <1>5, <2>1 DEF Leave
  <2>4. Forgets(c) /\ UNCHANGED <<accepted, node, registry, send_buffer>>
    BY <1>5 DEF Leave
  <2>5. \A w \in Workers : LeftOrGone(w)
    BY <2>4, ForgetTold
  <2> QED BY <2>2, <2>3, <2>4, <2>5, SendTold DEF LeftOrGone
<1>6. ASSUME NEW c \in Clients, Cut(c) PROVE Told'
  <2>1. PICK s \in Sessions : s = link[c]
    BY <1>6, OwnSession DEF Cut
  <2>2. /\ Forgets(c) /\ inbox' = inbox
        /\ UNCHANGED <<accepted, node, registry, send_buffer>>
    BY <1>6 DEF Cut
  <2>3. \A w \in Workers : LeftOrGone(w)
    BY <2>2, ForgetTold
  <2> QED BY <1>1, <2>2, <2>3, SendTold DEF LeftOrGone
<1>7. ASSUME NEW w \in Workers, Turns(w) \/ BeatsHeart(w) \/ WorkerSends(w)
      PROVE  Told'
  BY <1>7, TurnTold, BeatTold, SentTold
<1> QED BY <1>2, <1>3, <1>4, <1>5, <1>6, <1>7 DEF ClientNext

\* The last word of every registered worker is true, be it still to be sent,
\* under way or noted, through reconnections, heartbeats and restarts, unless a
\* heartbeat or the reading of an answer took the place of an unsent notice.
THEOREM NoticesAlwaysTrue == NoticesSpec => []NoticesTellTruth
<1>1. NoticesInit => Told
  <2> SUFFICES ASSUME Init PROVE Told
    BY DEF NoticesInit
  <2>1. ASSUME NEW s \in Sessions PROVE SessionTold(s)
    <3>1. inbox[s] = <<>> /\ send_buffer[s] = None
      BY DEF Init
    <3>2. Requests(<<>>) = {} /\ Telling(<<>>) = {}
      BY DEF Requests, Telling
    <3>3. None # "WRP"
      BY NoneIsNothing DEF Answers
    <3> QED BY <3>1, <3>2, <3>3 DEF SessionTold
  <2>2. ASSUME NEW w \in Workers PROVE WorkerTold(w)
    BY OutputParts DEF Init, WorkerTold
  <2> QED BY <2>1, <2>2 DEF Told
<1>2. RegisterInv /\ Told /\ [NoticesNext]_noticeVars => Told'
  <2> SUFFICES ASSUME RegisterInv, Told, [NoticesNext]_noticeVars PROVE Told'
    OBVIOUS
  <2>1. CASE NoticesNext
    <3>1. ASSUME NEW w \in Workers PROVE Remembers(w)
      BY <2>1 DEF NoticesNext, NoticeReplaced, Remembers
    <3> QED BY <2>1, <3>1, ServerTold, ClientTold
            DEF NoticesNext, Next, RegisterInv
  <2>2. CASE UNCHANGED noticeVars
    <3>1. UNCHANGED <<registry, accepted, node, send_buffer, inbox, link,
                      progress, busy, unsent, replaced>>
      BY <2>2 DEF noticeVars, vars, registerVars, sessionVars, clientVars
    <3>2. ASSUME NEW w \in Workers PROVE Remembers(w)
      BY <3>1 DEF Remembers
    <3> QED BY <3>1, <3>2, AllLeft DEF RegisterInv
  <2> QED BY <2>1, <2>2
<1>3. NoticesSpec => Spec
  <2>1. NoticesInit => Init
    BY DEF NoticesInit
  <2>2. [NoticesNext]_noticeVars => [Next]_vars
    BY DEF NoticesNext, noticeVars
  <2> QED BY <2>1, <2>2, PTL DEF NoticesSpec, Spec
<1>4. NoticesSpec => []RegisterInv
  BY <1>3, RegisterInvHolds
<1> QED BY <1>1, <1>2, <1>4, ToldMeansTruth, PTL DEF NoticesSpec

-----------------------------------------------------------------------------
(* Workers take turns.                                                      *)

(***************************************************************************)
(* Whoever was handed out while a worker waited stands behind it in the    *)
(* list of their host: the query looks at the worker first.                *)
(***************************************************************************)
PassedOK ==
    /\ passed \in [Workers -> SUBSET Workers]
    /\ \A w \in Workers : \A v \in passed[w] :
          HostOf[v] = HostOf[w] /\ LinedUp(registry, w, v)

\* A worker is handed out only by the round of the query that finds it.
LEMMA HandedOutIsFound ==
    ASSUME TypeOK, [Next]_vars, NEW w \in Workers
    PROVE  HandsOut(w) <=> FindOne(w)
<1> USE DEF registerVars, sessionVars, clientVars
<1>1. ASSUME FindOne(w) PROVE HandsOut(w)
  <2>1. query \in Asking /\ query # NoQuery
    BY <1>1 DEF FindOne, TypeOK
  <2>2. query' = [query EXCEPT !.nodes = Append(query.nodes, w)]
    BY <1>1, <2>1 DEF FindOne, Asking
  <2>3. Append(query.nodes, w) \in Seq(Workers)
    BY <2>1 DEF Asking
  <2>4. query' \in Asking /\ query'.nodes = Append(query.nodes, w)
    BY <2>1, <2>2, <2>3 DEF Asking
  <2> QED BY <2>1, <2>4, NoneIsNothing DEF HandsOut, NoQuery
<1>2. ASSUME HandsOut(w) PROVE FindOne(w)
  <2>1. /\ query # NoQuery /\ query' # NoQuery /\ ~NextEvent
        /\ query'.nodes = Append(query.nodes, w)
    BY <1>2 DEF HandsOut, NextEvent
  <2>2. query \in Asking /\ query.nodes \in Seq(Workers)
    BY <2>1 DEF TypeOK, Asking
  <2>3. query' # query
    <3>1. Len(Append(query.nodes, w)) = Len(query.nodes) + 1
             /\ Len(query.nodes) \in Nat
      BY <2>2
    <3> QED BY <2>1, <3>1
  <2>4. ASSUME NEW s, OnInput(s) PROVE FALSE
    BY <2>1, <2>4 DEF OnInput, WorkerRegisterRequest, WorkerNoticeRequest,
         HeartBeatResponse, WorkerHeartBeat, PeerClosed, ReceiveFails,
         QueryWorkersRequest, Input
  <2>5. ASSUME NEW s, \/ AcceptedSocketOutput(s) \/ AcceptedSocketError(s)
                      \/ HeartBeat(s)
        PROVE  FALSE
    BY <2>1, <2>5 DEF AcceptedSocketOutput, AcceptedSocketError, HeartBeat,
         HeartBeatRequest, HeartBeatLost
  <2>6. ~FindNone /\ ~Tick /\ ~ForkAgain /\ ~UNCHANGED vars
    BY <2>1, <2>3 DEF FindNone, Tick, ForkAgain, vars
  <2>7. ASSUME NEW c, NEW s, NEW o, NEW n, NEW end,
               \/ Connect(c, s) \/ AcceptFails(c) \/ Ask(c, o, n)
               \/ Leave(c, end) \/ Cut(c)
        PROVE  FALSE
    BY <2>1, <2>3, <2>7 DEF Connect, AcceptFails, Ask, Leave, Cut
  <2>8. ASSUME NEW v, Turns(v) \/ BeatsHeart(v) \/ WorkerSends(v) PROVE FALSE
    BY <2>3, <2>8 DEF Turns, BeatsHeart, WorkerSends
  <2>9. ~ClientNext
    BY <2>7, <2>8 DEF ClientNext
  <2>10. PICK v \in Workers : FindOne(v)
    BY <2>4, <2>5, <2>6, <2>9 DEF Next, ServerNext, Finding
  <2>11. query'.nodes = Append(query.nodes, v)
    BY <2>2, <2>10 DEF FindOne, Asking
  <2>12. v = w
    <3>1. Append(query.nodes, v) = Append(query.nodes, w)
      BY <2>1, <2>11
    <3>2. /\ Append(query.nodes, v)[Len(query.nodes) + 1] = v
          /\ Append(query.nodes, w)[Len(query.nodes) + 1] = w
      BY <2>2
    <3> QED BY <3>1, <3>2
  <2> QED BY <2>10, <2>12
<1> QED BY <1>1, <1>2

\* Two workers of a host that stay listed keep their order in every step, as
\* long as the first is neither handed out nor tells what it does, and the
\* second is not handed out.
LEMMA OrderStep ==
    ASSUME TypeOK, RegistryOK(registry), PointersMatch, SessionsOK,
           [Next]_vars,
           NEW w \in Workers, NEW v \in Workers, HostOf[v] = HostOf[w],
           ~HandsOut(w), ~Tells(w), ~HandsOut(v),
           Listed(registry, w), Listed(registry', w), Listed(registry', v),
           LinedUp(registry, w, v)
    PROVE  LinedUp(registry', w, v)
<1> USE DEF registerVars, sessionVars, clientVars
<1>1. CASE UNCHANGED registry
  BY <1>1
<1>2. ASSUME NEW how, Ends(how) PROVE FALSE
  BY <1>2, EmptyRegistryOK DEF Ends
<1>3. ASSUME NEW s \in Sessions, CloseAcceptedSocket(s)
      PROVE  LinedUp(registry', w, v)
  <2>1. CASE node[s] = None
    BY <1>1, <1>3, <2>1 DEF CloseAcceptedSocket
  <2>2. CASE node[s] # None
    <3>1. PICK u \in Workers : u = node[s]
      BY <2>2 DEF TypeOK
    <3>2. registry' = Unregistered(registry, u) /\ Listed(registry, u)
      BY <1>3, <2>2, <3>1 DEF CloseAcceptedSocket, PointersMatch
    <3>3. u # w /\ u # v
      BY <3>2, UnregisteredOK
    <3> QED BY <3>2, <3>3, UnregisteredOrder
  <2> QED BY <2>1, <2>2
<1>4. ASSUME NEW s \in Sessions, OnInput(s)
      PROVE  LinedUp(registry', w, v)
  <2>1. CASE WorkerRegisterRequest(s)
    <3>1. /\ inbox[s] \in Seq(Messages) /\ inbox[s] # <<>>
          /\ Head(inbox[s]).type = "WRQ"
      BY <2>1 DEF WorkerRegisterRequest, Input, TypeOK
    <3>2. Head(inbox[s]) \in Nodes(inbox[s])
      BY <3>1, ReadBox
    <3>3. accepted[s] \in Workers
      BY <3>1, <3>2 DEF SessionsOK
    <3>4. CASE Listed(registry, accepted[s])
      BY <1>1, <2>1, <3>4 DEF WorkerRegisterRequest
    <3>5. CASE ~Listed(registry, accepted[s])
      <4>1. registry' = Registered(registry, accepted[s])
        BY <2>1, <3>5 DEF WorkerRegisterRequest
      <4> QED BY <3>3, <4>1, RegisteredOrder
    <3> QED BY <3>4, <3>5
  <2>2. CASE WorkerNoticeRequest(s)
    <3>1. /\ inbox[s] \in Seq(Messages) /\ inbox[s] # <<>>
          /\ Head(inbox[s]).type = "WNQ"
      BY <2>2 DEF WorkerNoticeRequest, Input, TypeOK
    <3>2. Head(inbox[s]) \in Nodes(inbox[s])
      BY <3>1, ReadBox
    <3>3. PICK u \in Workers : u = accepted[s]
      BY <3>1, <3>2 DEF SessionsOK
    <3>4. u # w
      BY <2>2, <3>3 DEF Tells
    <3>5. CASE ~Listed(registry, u)
      BY <1>1, <2>2, <3>3, <3>5 DEF WorkerNoticeRequest
    <3>6. CASE Listed(registry, u)
      <4>1. registry' = Noticed(registry, u, Head(inbox[s]).is_working)
        BY <2>2, <3>3, <3>6 DEF WorkerNoticeRequest
      <4> QED BY <3>4, <3>6, <4>1, NoticedOrder
    <3> QED BY <3>5, <3>6
  <2>3. CASE \/ HeartBeatResponse(s) \/ WorkerHeartBeat(s)
             \/ QueryWorkersRequest(s)
    BY <1>1, <2>3 DEF HeartBeatResponse, WorkerHeartBeat, QueryWorkersRequest
  <2>4. CASE PeerClosed(s)
    BY <1>3, <2>4 DEF PeerClosed
  <2>5. CASE ReceiveFails(s)
    BY <1>2, <2>5 DEF ReceiveFails
  <2> QED BY <1>4, <2>1, <2>2, <2>3, <2>4, <2>5 DEF OnInput
<1>5. ASSUME NEW s \in Sessions,
             AcceptedSocketOutput(s) \/ AcceptedSocketError(s) \/ HeartBeat(s)
      PROVE  LinedUp(registry', w, v)
  <2>1. CASE AcceptedSocketOutput(s) \/ HeartBeatRequest(s)
    BY <1>1, <2>1 DEF AcceptedSocketOutput, HeartBeatRequest
  <2>2. CASE AcceptedSocketError(s)
    BY <1>3, <2>2 DEF AcceptedSocketError
  <2>3. CASE HeartBeatLost(s)
    BY <1>2, <2>3 DEF HeartBeatLost
  <2> QED BY <1>5, <2>1, <2>2, <2>3 DEF HeartBeat
<1>6. CASE Finding
  <2>1. ASSUME NEW u \in Workers, FindOne(u) PROVE LinedUp(registry', w, v)
    <3>1. u # w /\ u # v
      BY <2>1, HandedOutIsFound
    <3>2. registry' = Given(registry, u) /\ Listed(registry, u)
      BY <2>1, FoundListed DEF FindOne
    <3> QED BY <3>1, <3>2, GivenOrder
  <2>2. CASE FindNone
    BY <1>1, <2>2 DEF FindNone
  <2> QED BY <1>6, <2>1, <2>2 DEF Finding
<1>7. CASE Tick
  <2>1. registry'.worker_info_list = registry.worker_info_list
    BY <1>7 DEF Tick, NextSecond, TypeOK, Registry
  <2> QED BY <2>1 DEF LinedUp
<1>8. CASE ForkAgain \/ UNCHANGED vars
  BY <1>1, <1>8 DEF ForkAgain, vars
<1>9. ASSUME NEW c \in Clients, AcceptFails(c) PROVE FALSE
  BY <1>2, <1>9 DEF AcceptFails
<1>10. ASSUME NEW c, NEW s, NEW o, NEW n, NEW end,
              Connect(c, s) \/ Ask(c, o, n) \/ Leave(c, end) \/ Cut(c)
       PROVE  UNCHANGED registry
  BY <1>10 DEF Connect, Ask, Leave, Cut
<1>11. ASSUME NEW u \in Workers, Turns(u) \/ BeatsHeart(u) \/ WorkerSends(u)
       PROVE  UNCHANGED registry
  BY <1>11 DEF Turns, BeatsHeart, WorkerSends
<1>12. CASE ServerNext
  BY <1>4, <1>5, <1>6, <1>7, <1>8, <1>12 DEF ServerNext
<1>13. CASE ClientNext
  BY <1>1, <1>9, <1>10, <1>11, <1>13 DEF ClientNext
<1> QED BY <1>8, <1>12, <1>13 DEF Next

\* Every step leaves behind a waiting worker whoever was handed out since.
LEMMA PassedStep ==
    ASSUME TypeOK, RegistryOK(registry), PointersMatch, SessionsOK, PassedOK,
           [TurnsNext]_turnVars
    PROVE  PassedOK'
<1>1. CASE UNCHANGED turnVars
  BY <1>1 DEF turnVars, vars, registerVars, PassedOK
<1>2. CASE TurnsNext
  <2>1. [Next]_vars
    BY <1>2 DEF TurnsNext
  <2>2. passed' = [w \in Workers |->
           IF HandsOut(w) \/ Tells(w) \/ ~(Waiting(w) /\ Waiting(w)') THEN {}
           ELSE {v \in Workers \ {w} :
                    /\ Listed(registry, v)'
                    /\ HostOf[v] = HostOf[w]
                    /\ HandsOut(v) \/ v \in passed[w]}]
    BY <1>2 DEF TurnsNext
  <2>3. passed' \in [Workers -> SUBSET Workers]
    BY <2>2
  <2>4. ASSUME NEW w \in Workers, NEW v \in passed'[w]
        PROVE  HostOf[v] = HostOf[w] /\ LinedUp(registry', w, v)
    <3>1. /\ ~HandsOut(w) /\ ~Tells(w) /\ Waiting(w) /\ Waiting(w)'
          /\ v \in Workers /\ v # w
          /\ Listed(registry', v)
          /\ HostOf[v] = HostOf[w]
          /\ HandsOut(v) \/ v \in passed[w]
      BY <2>2, <2>4
    <3>2. Listed(registry, w) /\ Listed(registry', w)
      BY <3>1 DEF Waiting
    <3>3. CASE HandsOut(v)
      <4>1. FindOne(v)
        BY <2>1, <3>1, <3>3, HandedOutIsFound
      <4>2. registry' = Given(registry, v) /\ Listed(registry, v)
        BY <3>1, <4>1, FoundListed DEF FindOne
      <4> QED BY <3>1, <3>2, <4>2, GivenOrder
    <3>4. CASE v \in passed[w] /\ ~HandsOut(v)
      <4>1. LinedUp(registry, w, v)
        BY <3>4 DEF PassedOK
      <4> QED BY <2>1, <3>1, <3>2, <3>4, <4>1, OrderStep
    <3> QED BY <3>1, <3>3, <3>4
  <2> QED BY <2>3, <2>4 DEF PassedOK
<1> QED BY <1>1, <1>2

\* No worker is handed out a second time while another one of its host stands
\* idle and was not stamped in this second.
THEOREM WorkersAlwaysTakeTurns == TurnsSpec => WorkersTakeTurns
<1> DEFINE NoneSkipped ==
             \A v, w \in Workers : HandsOut(v) /\ v \in passed[w]
                                      => ~Free(registry, w)
<1>1. TurnsInit => Init /\ PassedOK
  BY DEF TurnsInit, PassedOK
<1>2. [TurnsNext]_turnVars => [Next]_vars
  BY DEF TurnsNext, turnVars
<1>3. TurnsSpec => Spec
  BY <1>1, <1>2, PTL DEF TurnsSpec, Spec
<1>4. RegisterInv /\ PassedOK /\ [TurnsNext]_turnVars => PassedOK'
  BY PassedStep DEF RegisterInv
<1>5. RegisterInv /\ PassedOK /\ [TurnsNext]_turnVars => [NoneSkipped]_turnVars
  <2> SUFFICES ASSUME RegisterInv, PassedOK, [TurnsNext]_turnVars,
                      NEW v \in Workers, NEW w \in Workers,
                      HandsOut(v), v \in passed[w]
               PROVE  ~Free(registry, w)
    OBVIOUS
  <2>1. FindOne(v)
    BY <1>2, HandedOutIsFound DEF RegisterInv
  <2>2. HostOf[w] = HostOf[v] /\ LinedUp(registry, w, v)
    BY DEF PassedOK
  <2> QED BY <2>1, <2>2, FoundFirst DEF FindOne, RegisterInv
<1> QED
  BY <1>1, <1>3, <1>4, <1>5, RegisterInvHolds, PTL DEF TurnsSpec, WorkersTakeTurns
=============================================================================
