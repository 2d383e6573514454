------------------------- MODULE WorkerServerProofs -------------------------
(***************************************************************************)
(* Proofs that a worker server keeps its sessions, its program and what it *)
(* tells the register servers in step, for any masters, register servers   *)
(* and failures of connections.                                            *)
(***************************************************************************)
EXTENDS WorkerServer, SequenceTheorems, TLAPS

USE WorkerConstants, LinkConstants

-----------------------------------------------------------------------------
(***************************************************************************)
(* The inductive invariant, part by part.                                  *)
(***************************************************************************)

Sent == {"EPQ", "DPP", "PART", "FIN"}

Heard == {"HBQ", "FIN", "WRP", "WRP error", "HBP"}

\* A master that asks, asks first.
Asks(q) == q # <<>> /\ Head(q) = "EPQ"

Queue(q) == q \in Seq(Sent) /\ \A i \in 2..Len(q) : q[i] # "EPQ"

QueuesOK ==
    /\ from_peer \in [RServers -> Seq(Heard)]
    /\ DOMAIN sends = Masters
    /\ \A m \in Masters : Queue(sends[m])

\* An event that waits to be handled is still one that can be handled, and a
\* socket has one event of a round.
ReadyOK ==
    /\ Handles("accepted", None, "IN") =>
          /\ Working
          /\ sends[accepted.master] # <<>>
          /\ ~Handles("accepted", None, "OUT")
    /\ Handles("accepted", None, "OUT") => Working /\ accepted.watch = "OUT"
    /\ \A m \in Masters : Handles("turned", m, "OUT") => at[m] = "turned"
    /\ \A r \in RServers :
          /\ Handles("link", r, "IN") =>
                /\ link[r].flag # "closed"
                /\ from_peer[r] # <<>>
                /\ ~Handles("link", r, "OUT")
          /\ Handles("link", r, "OUT") => link[r].flag # "closed"

\* The session of the master and the one of the program are linked from the
\* start of its program to the end of the first of the three.
SessionsOK ==
    /\ Working => at[accepted.master] = "served"
    /\ ~Working =>
          /\ ~accepted.p1
          /\ accepted.watch = "NONE"
          /\ accepted.progress = "CLOSED"
    /\ executing.p1 = executing.established
    /\ executing.established => executing.sock # None
    /\ accepted.p1 =>
          /\ executing.established
          /\ pid = accepted.master
          /\ child[pid] \in {"running", "exited"}
          /\ accepted.progress = "DO_EXECUTE"
          /\ epq = accepted.master
          /\ ~Asks(sends[accepted.master])
    /\ accepted.progress = "DO_DEPLOY" => epq = accepted.master
    /\ \A m \in Masters :
          child[m] = "running" => accepted.p1 /\ accepted.master = m

\* A program that is not linked with the session of the master that is there
\* is an earlier one; when there never was such a master, only the pipe of the
\* present program is watched, and its child is the one in pid.
LateOK ==
    /\ Working /\ executing.established /\ ~accepted.p1 =>
          accepted.master \in late
    /\ late = {} =>
          /\ \A t \in pipes : executing.established /\ executing.sock = t
          /\ executing.established => pid \in {None, executing.sock}
          /\ \A t \in Masters :
                Handles("pipe", t, "IN") =>
                    /\ executing.established
                    /\ executing.sock = t
                    /\ child[t] # "running"

\* A register server hears of work on a connection only when the worker is
\* registered on it, and a notice of work in the buffer is true.
LinksOK ==
    \A r \in RServers :
        /\ link[r].flag = "closed" => link[r].progress = "CLOSED"
        /\ link[r].flag # "closed" /\ link[r].progress # "REGISTED" =>
              told[r] # "working"
        /\ link[r].progress = "CONNECTED" => link[r].out \notin Notices
        /\ link[r].progress = "REGISTED" /\ link[r].out = "WNQ working" =>
              Working

WorkerInv ==
    /\ TypeOK
    /\ QueuesOK
    /\ ReadyOK
    /\ SessionsOK
    /\ LateOK
    /\ LinksOK
    /\ ResultUnlessLate
    /\ TruthUnlessReplaced

-----------------------------------------------------------------------------
(* Queues.                                                                  *)

\* What is read of a queue was sent, and an EPQ is read once.
LEMMA ReadQueue ==
    ASSUME NEW q, Queue(q), q # <<>>
    PROVE  Head(q) \in Sent /\ Queue(Tail(q)) /\ ~Asks(Tail(q))
<1> DEFINE rest == Tail(q)
<1>1. /\ rest \in Seq(Sent)
      /\ Len(rest) = Len(q) - 1
      /\ Len(q) \in Nat \ {0}
      /\ \A i \in 1..Len(rest) : rest[i] = q[i + 1]
      /\ Head(q) \in Sent
      /\ rest # <<>> => Head(rest) = rest[1] /\ 1 \in 1..Len(rest)
  BY DEF Queue
<1> HIDE DEF rest
<1>2. \A i \in 1..Len(rest) : rest[i] # "EPQ"
  BY <1>1 DEF Queue
<1>3. Queue(rest)
  BY <1>1, <1>2 DEF Queue
<1>4. ~Asks(rest)
  BY <1>1, <1>2 DEF Asks
<1> QED
  BY <1>1, <1>3, <1>4 DEF rest

\* What is appended, if it is no EPQ, leaves the question whether the queue
\* begins with one as it was.
LEMMA AppendQueue ==
    ASSUME NEW q, Queue(q), NEW msg \in Sent \ {"EPQ"}
    PROVE  /\ Queue(Append(q, msg))
           /\ Append(q, msg) # <<>>
           /\ Asks(Append(q, msg)) => Asks(q)
<1> DEFINE new == Append(q, msg)
<1>1. /\ new \in Seq(Sent)
      /\ Len(new) = Len(q) + 1
      /\ Len(q) \in Nat
      /\ \A i \in 1..Len(q) : new[i] = q[i]
      /\ new[Len(q) + 1] = msg
      /\ Head(new) = new[1]
      /\ Len(q) # 0 => q # <<>> /\ Head(q) = q[1] /\ 1 \in 1..Len(q)
      /\ new # <<>>
  BY DEF Queue
<1> HIDE DEF new
<1>2. Queue(new)
  BY <1>1 DEF Queue
<1>3. ASSUME Asks(new) PROVE Asks(q)
  <2>1. CASE Len(q) = 0
    BY <1>1, <1>3, <2>1 DEF Asks
  <2>2. CASE Len(q) # 0
    BY <1>1, <1>3, <2>2 DEF Asks
  <2> QED
    BY <2>1, <2>2
<1> QED
  BY <1>1, <1>2, <1>3 DEF new

\* A message of which only a part is sent is an EPQ no longer.
LEMMA CutQueue ==
    ASSUME NEW q, Queue(q), q # <<>>
    PROVE  LET cut == SubSeq(q, 1, Len(q) - 1) \o <<"PART", "FIN">> IN
           Queue(cut) /\ cut # <<>> /\ (Asks(cut) => Asks(q))
<1> DEFINE front == SubSeq(q, 1, Len(q) - 1)
           cut == front \o <<"PART", "FIN">>
<1>q. q \in Seq(Sent) /\ Len(q) \in Nat \ {0}
  BY DEF Queue
<1>n. PICK n \in Nat : Len(q) = n + 1
  <2>1. Len(q) - 1 \in Nat /\ Len(q) = Len(q) - 1 + 1
    BY <1>q
  <2> QED
    BY <2>1
<1>1. /\ front \in Seq(Sent)
      /\ Len(front) = n
      /\ \A i \in 1..n : front[i] = q[i]
      /\ Head(q) = q[1]
  <2>1. \A i \in 1..n : q[i] \in Sent
    BY <1>q, <1>n
  <2>2. front = SubSeq(q, 1, n)
    BY <1>n
  <2> HIDE DEF front
  <2> QED
    BY <1>q, <2>1, <2>2, SubSeqProperties
<1> HIDE DEF front
<1>2. /\ cut \in Seq(Sent)
      /\ Len(cut) = n + 2
      /\ \A i \in 1..n : cut[i] = q[i]
      /\ cut[n + 1] = "PART"
      /\ cut[n + 2] = "FIN"
      /\ cut # <<>>
      /\ Head(cut) = cut[1]
  BY <1>q, <1>1 DEF Sent
<1> HIDE DEF cut
<1>3. Queue(cut)
  BY <1>q, <1>n, <1>1, <1>2 DEF Queue
<1>4. Asks(cut) => Asks(q)
  BY <1>q, <1>n, <1>1, <1>2 DEF Asks
<1> QED
  BY <1>2, <1>3, <1>4 DEF cut, front

-----------------------------------------------------------------------------
(* The events of a round.                                                   *)

\* An event that is handled is the only one that goes.
LEMMA DoneOne ==
    ASSUME NEW on, NEW who, NEW kind, Done(on, who, kind),
           NEW on2, NEW who2, NEW kind2
    PROVE  /\ Handles(on2, who2, kind2)' => Handles(on2, who2, kind2)
           /\ ~Handles(on, who, kind)'
           /\ on2 # on \/ who2 # who \/ kind2 # kind =>
                 (Handles(on2, who2, kind2)' <=> Handles(on2, who2, kind2))
  BY DEF Done, Handles

\* A round begins with what epoll_wait gives.
LEMMA RoundReady ==
    ASSUME Round
    PROVE  /\ Handles("accepted", None, "IN")' =>
                 /\ Working /\ accepted.watch = "IN"
                 /\ sends[accepted.master] # <<>>
           /\ Handles("accepted", None, "OUT")' =>
                 Working /\ accepted.watch = "OUT"
           /\ \A m \in Masters :
                 /\ Handles("turned", m, "OUT")' => at[m] = "turned"
                 /\ Handles("pipe", m, "IN")' =>
                       m \in pipes /\ child[m] # "running"
           /\ \A r \in RServers :
                 /\ Handles("link", r, "IN")' =>
                       /\ HeartBeatRequest(link[r]).flag # "closed"
                       /\ link[r].watch = "IN" /\ from_peer[r] # <<>>
                 /\ Handles("link", r, "OUT")' =>
                       /\ HeartBeatRequest(link[r]).flag # "closed"
                       /\ link[r].watch = "OUT"
  BY DEF Round, Ready, Handles

-----------------------------------------------------------------------------
(* Types.                                                                   *)

\* The values that the functions of a session give to its fields.
LEMMA LinkValues ==
    /\ "closed" \in Flags /\ "opened" \in Flags /\ "established" \in Flags
    /\ "CLOSED" \in Progresses /\ "CONNECTED" \in Progresses
    /\ "REGISTED" \in Progresses
    /\ "NONE" \in Outputs /\ "WRQ" \in Outputs /\ "HBQ" \in Outputs
    /\ "HBP" \in Outputs /\ "WNQ idle" \in Outputs /\ "WNQ working" \in Outputs
    /\ 0 \in 0..MAXCNT_HEARTBEAT_LOST + 1
    /\ \A n \in 0..MAXCNT_HEARTBEAT_LOST : n + 1 \in 0..MAXCNT_HEARTBEAT_LOST + 1
  BY DEF Flags, Progresses, Outputs, Notices

\* Every function of the session to a register server leaves a session; the
\* heartbeats it counts never pass the limit by more than one.
LEMMA LinkTypes ==
    ASSUME NEW c \in Link
    PROVE  /\ Closed(c) \in Link
           /\ \A result \in {"ok", "in progress"} : Connected(c, result) \in Link
           /\ Output(c) \in Link
           /\ \A msg \in Heard : Input(c, msg) \in Link
           /\ \A working \in BOOLEAN : Noticed(c, working) \in Link
           /\ HeartBeatRequest(c) \in Link
           /\ [c EXCEPT !.idle = TRUE] \in Link
<1>1. Closed(c) \in Link /\ [c EXCEPT !.idle = TRUE] \in Link
  BY LinkValues DEF Closed, Link
<1>2. ASSUME NEW d \in Link PROVE Registering(d) \in Link
  BY LinkValues DEF Registering, Link
<1>3. Output(c) \in Link
  BY <1>2, LinkValues DEF Output, Link
<1>4. \A result \in {"ok", "in progress"} : Connected(c, result) \in Link
  <2>1. [c EXCEPT !.flag = "established"] \in Link
    BY LinkValues DEF Link
  <2>2. [c EXCEPT !.flag = "opened", !.progress = "CLOSED", !.watch = "OUT"]
            \in Link
    BY LinkValues DEF Link
  <2> QED
    BY <1>2, <2>1, <2>2 DEF Connected
<1>5. \A msg \in Heard : Input(c, msg) \in Link
  <2>1. /\ [c EXCEPT !.out = "NONE", !.progress = "REGISTED", !.idle = FALSE]
              \in Link
        /\ [c EXCEPT !.out = "HBP", !.watch = "OUT", !.idle = FALSE] \in Link
        /\ [c EXCEPT !.out = "NONE", !.lost = 0, !.idle = FALSE] \in Link
    BY LinkValues DEF Link
  <2> QED
    BY <1>1, <2>1 DEF Input, Heard
<1>6. \A working \in BOOLEAN : Noticed(c, working) \in Link
  BY LinkValues DEF Noticed, Link
<1>7. HeartBeatRequest(c) \in Link
  <2>1. ASSUME NEW d \in Link, d.lost \in 0..MAXCNT_HEARTBEAT_LOST
        PROVE  \A w \in {"NONE", "OUT"} :
                  [d EXCEPT !.out = "HBQ", !.watch = w, !.idle = FALSE,
                            !.lost = @ + 1] \in Link
    BY <2>1, LinkValues DEF Link
  <2>2. c.lost \in 0..MAXCNT_HEARTBEAT_LOST + 1
    BY DEF Link
  <2>3. Closed(c).lost \in 0..MAXCNT_HEARTBEAT_LOST
    BY LinkConstants DEF Closed, Link
  <2>4. CASE c.lost > MAXCNT_HEARTBEAT_LOST
    BY <1>1, <2>1, <2>3, <2>4 DEF HeartBeatRequest
  <2>5. CASE ~(c.lost > MAXCNT_HEARTBEAT_LOST)
    <3>1. c.lost \in 0..MAXCNT_HEARTBEAT_LOST
      BY <2>2, <2>5
    <3> QED
      BY <2>1, <2>5, <3>1 DEF HeartBeatRequest
  <2> QED
    BY <2>4, <2>5
<1> QED
  BY <1>1, <1>3, <1>4, <1>5, <1>6, <1>7

\* What a notice leaves in the links.
LEMMA NoticeTypes ==
    ASSUME TypeOK, NEW working \in BOOLEAN, SendWorkerNotice(working)
    PROVE  link' \in [RServers -> Link]
  BY LinkTypes DEF SendWorkerNotice, TypeOK

AcceptedTypes ==
    [master : Masters \cup {None}, progress : ConnProgress,
     recv : {"clean", "part", "refused"}, out : Answers,
     watch : {"NONE", "IN", "OUT"}, p1 : BOOLEAN]

\* The values that the functions of accepted_session give to its fields.
LEMMA AcceptedValues ==
    /\ NoAnswer \in Answers
    /\ [kind |-> "DPQ", tid |-> None] \in Answers
    /\ [kind |-> "EJECT", tid |-> None] \in Answers
    /\ [kind |-> "ERROR", tid |-> None] \in Answers
    /\ \A t \in Masters \cup {None} : [kind |-> "RESULT", tid |-> t] \in Answers
    /\ "CLOSED" \in ConnProgress /\ "WAITFOR_REQUEST" \in ConnProgress
    /\ "DO_DEPLOY" \in ConnProgress /\ "DO_EXECUTE" \in ConnProgress
  BY DEF NoAnswer, Answers, ConnProgress

\* What closing the session of a master leaves: the session is free, and the
\* child whose pid is known is killed.
LEMMA CloseTypes ==
    ASSUME TypeOK, Working, NEW recv \in {"clean", "part", "refused"},
           CloseAcceptedSocket(recv)
    PROVE  /\ link' \in [RServers -> Link]
           /\ at' \in [Masters -> {"away", "queued", "served", "turned", "closed"}]
           /\ accepted' \in AcceptedTypes
           /\ pid' \in Masters \cup {None}
           /\ child' \in [Masters -> {"none", "running", "killed", "exited",
                                      "reaped"}]
           /\ UNCHANGED <<peer, from_peer, told, replaced, faults, executing,
                          pipes>>
<1>1. link' \in [RServers -> Link]
  BY NoticeTypes DEF CloseAcceptedSocket
<1>2. accepted' \in AcceptedTypes
  BY DEF CloseAcceptedSocket, TypeOK, AcceptedTypes, ConnProgress
<1>3. /\ pid' \in Masters \cup {None}
      /\ child' \in [Masters -> {"none", "running", "killed", "exited", "reaped"}]
  BY DEF CloseAcceptedSocket, KillChildProcess, TypeOK
<1>4. at' \in [Masters -> {"away", "queued", "served", "turned", "closed"}]
  BY DEF CloseAcceptedSocket, TypeOK
<1> QED
  BY <1>1, <1>2, <1>3, <1>4 DEF CloseAcceptedSocket, SendWorkerNotice

\* app_ExecuteProgram when the child is started.
Started(m, task) ==
    /\ accepted' = [accepted EXCEPT !.out = NoAnswer,
                                    !.progress = "DO_EXECUTE", !.p1 = TRUE]
    /\ executing' = [established |-> TRUE, sock |-> m, p1 |-> TRUE]
    /\ pipes' = pipes \cup {m}
    /\ pid' = m
    /\ child' = [child EXCEPT ![m] = "running"]
    /\ epq' = task
    /\ SendWorkerNotice(TRUE)
    /\ UNCHANGED at

\* comm_OnListenSocketInput, by whether there is a master already.
TurnedAway(m) ==
    /\ Working
    /\ at' = [at EXCEPT ![m] = "turned"]
    /\ UNCHANGED <<linkVars, accepted, late>>

Served(m) ==
    /\ ~Working
    /\ at' = [at EXCEPT ![m] = "served"]
    /\ accepted' = [accepted EXCEPT !.master = m, !.watch = "IN"]
    /\ late' = IF executing.established THEN late \cup {m} ELSE late
    /\ SendWorkerNotice(TRUE)

\* app_WaitProgramExiting after a child m that was waited for; the master that
\* is there gets the answer if the program is linked.
Waited(m) ==
    /\ MayWaitFor(m)
    /\ child' = [child EXCEPT ![m] = "reaped"]
    /\ executing' = [executing EXCEPT !.established = FALSE, !.p1 = FALSE]
    /\ pipes' = Unwatched
    /\ SendWorkerNotice(Working)
    /\ UNCHANGED <<pid, epq>>

Answered(m) ==
    /\ executing.p1 /\ Working
    /\ accepted' = [accepted EXCEPT !.progress = "WAITFOR_REQUEST",
                                    !.out = Outcome(m), !.watch = "OUT",
                                    !.p1 = FALSE]

NotAnswered == ~(executing.p1 /\ Working) /\ UNCHANGED accepted

\* The ways in which a step of the server on a new connection, ...
LEMMA ListenCases ==
    ASSUME NEW m, OnListenSocketInput(m)
    PROVE  TurnedAway(m) \/ Served(m)
  BY DEF OnListenSocketInput, AcceptSocket, TurnedAway, Served

\* ... on the pipe of a program, ...
LEMMA WaitCases ==
    ASSUME NEW t, WaitProgramExiting(t)
    PROVE  \/ UNCHANGED <<linkVars, accepted, programVars>>
           \/ \E m \in Masters : Waited(m) /\ (Answered(m) \/ NotAnswered)
  BY DEF WaitProgramExiting, Answer, Waited, Answered, NotAnswered

\* ... or to start a program can go.
LEMMA ExecuteCases ==
    ASSUME NEW m, NEW task, ExecuteProgram(m, task)
    PROVE  /\ CloseAcceptedSocket("refused") \/ Started(m, task)
           /\ epq' = task
  BY DEF ExecuteProgram, ProtoFails, Started

\* What the start of a program leaves, whether it succeeds or not.
LEMMA ExecuteTypes ==
    ASSUME TypeOK, Working, NEW task \in Masters \cup {None},
           ExecuteProgram(accepted.master, task)
    PROVE  /\ link' \in [RServers -> Link]
           /\ at' \in [Masters -> {"away", "queued", "served", "turned", "closed"}]
           /\ accepted' \in AcceptedTypes
           /\ executing' \in [established : BOOLEAN, sock : Masters \cup {None},
                              p1 : BOOLEAN]
           /\ pipes' \subseteq Masters
           /\ pid' \in Masters \cup {None}
           /\ epq' \in Masters \cup {None}
           /\ child' \in [Masters -> {"none", "running", "killed", "exited",
                                      "reaped"}]
           /\ UNCHANGED <<peer, from_peer, told, replaced, faults>>
<1>m. accepted.master \in Masters /\ accepted.recv \in {"clean", "part", "refused"}
  BY DEF TypeOK, Working
<1>e. epq' \in Masters \cup {None}
  BY ExecuteCases
<1>1. CASE CloseAcceptedSocket("refused")
  BY <1>1, <1>e, <1>m, CloseTypes DEF TypeOK
<1>2. CASE Started(accepted.master, task)
  <2>2. accepted' \in AcceptedTypes
    BY <1>2, AcceptedValues DEF Started, TypeOK, AcceptedTypes
  <2>3. child' \in [Masters -> {"none", "running", "killed", "exited", "reaped"}]
    BY <1>2, <1>m DEF Started, TypeOK
  <2>4. executing' \in [established : BOOLEAN, sock : Masters \cup {None},
                        p1 : BOOLEAN]
    BY <1>2, <1>m DEF Started
  <2>5. link' \in [RServers -> Link]
    BY <1>2, NoticeTypes DEF Started
  <2>6. UNCHANGED <<peer, from_peer, told, replaced, faults>>
    BY <1>2 DEF Started, SendWorkerNotice
  <2> QED
    BY <1>2, <1>m, <2>2, <2>3, <2>4, <2>5, <2>6 DEF Started, TypeOK
<1> QED
  BY <1>1, <1>2, ExecuteCases

\* A step of a master, of a program, of a register server or of the clock.
LEMMA EnvironmentTypes ==
    ASSUME TypeOK, QueuesOK, Environment
    PROVE  TypeOK' /\ QueuesOK'
<1>1. ASSUME NEW m \in Masters, Connect(m) PROVE TypeOK' /\ QueuesOK'
  <2>1. Queue(<<"EPQ">>)
    BY DEF Queue, Sent
  <2>2. QueuesOK'
    BY <1>1, <2>1 DEF Connect, QueuesOK, linkVars
  <2>3. at' \in [Masters -> {"away", "queued", "served", "turned", "closed"}]
    BY <1>1 DEF Connect, TypeOK
  <2> QED
    BY <1>1, <2>2, <2>3 DEF Connect, TypeOK, linkVars, programVars
<1>2. ASSUME NEW m \in Masters, Deploy(m) PROVE TypeOK' /\ QueuesOK'
  <2>1. Queue(Append(sends[m], "DPP"))
    BY AppendQueue DEF QueuesOK, Sent
  <2>2. QueuesOK'
    BY <1>2, <2>1 DEF Deploy, QueuesOK, linkVars
  <2>3. got' \in [Masters -> Answers]
    BY <1>2, AcceptedValues DEF Deploy, TypeOK
  <2> QED
    BY <1>2, <2>2, <2>3 DEF Deploy, TypeOK, linkVars, programVars
<1>3. ASSUME NEW m \in Masters, Leave(m) PROVE TypeOK' /\ QueuesOK'
  <2>1. Queue(Append(sends[m], "FIN"))
    BY AppendQueue DEF QueuesOK, Sent
  <2>2. sends[m] # <<>> =>
           Queue(SubSeq(sends[m], 1, Len(sends[m]) - 1) \o <<"PART", "FIN">>)
    BY CutQueue DEF QueuesOK
  <2>3. QueuesOK'
    BY <1>3, <2>1, <2>2 DEF Leave, QueuesOK, linkVars
  <2> QED
    BY <1>3, <2>3 DEF Leave, TypeOK, linkVars, programVars
<1>4. ASSUME NEW m \in Masters, ProgramEnds(m) PROVE TypeOK' /\ QueuesOK'
  <2>1. child' \in [Masters -> {"none", "running", "killed", "exited", "reaped"}]
    BY <1>4 DEF ProgramEnds, TypeOK
  <2> QED
    BY <1>4, <2>1 DEF ProgramEnds, TypeOK, QueuesOK, linkVars, masterVars
<1>5. ASSUME NEW r \in RServers, NEW msg \in {"HBQ", "FIN"}, PeerSends(r, msg)
      PROVE  TypeOK' /\ QueuesOK'
  <2>1. <<msg>> \in Seq(Heard)
    <3>1. msg \in Heard
      BY DEF Heard
    <3> QED
      BY <3>1
  <2>2. QueuesOK'
    BY <1>5, <2>1 DEF PeerSends, QueuesOK, masterVars
  <2>3. faults' \in 0..MaxFaults /\ peer' \in [RServers -> {"none", "up", "silent"}]
    BY <1>5 DEF PeerSends, TypeOK
  <2> QED
    BY <1>5, <2>2, <2>3 DEF PeerSends, TypeOK, masterVars, programVars
<1>6. ASSUME NEW r \in RServers, FallsSilent(r) PROVE TypeOK' /\ QueuesOK'
  <2>1. faults' \in 0..MaxFaults /\ peer' \in [RServers -> {"none", "up", "silent"}]
    BY <1>6 DEF FallsSilent, TypeOK
  <2> QED
    BY <1>6, <2>1 DEF FallsSilent, TypeOK, QueuesOK, masterVars, programVars
<1>7. ASSUME NEW r \in RServers, TimePasses(r) PROVE TypeOK' /\ QueuesOK'
  <2>1. link' \in [RServers -> Link]
    BY <1>7, LinkTypes DEF TimePasses, TypeOK
  <2> QED
    BY <1>7, <2>1 DEF TimePasses, TypeOK, QueuesOK, masterVars, programVars
<1> QED
  BY <1>1, <1>2, <1>3, <1>4, <1>5, <1>6, <1>7 DEF Environment

\* What a round does to the connection to one register server.
LEMMA RoundLinks ==
    ASSUME Round
    PROVE  /\ link' = [r \in RServers |-> link'[r]]
           /\ peer' = [r \in RServers |-> peer'[r]]
           /\ from_peer' = [r \in RServers |-> from_peer'[r]]
           /\ told' = [r \in RServers |-> told'[r]]
           /\ replaced' \subseteq RServers
           /\ ready' \subseteq Event
           /\ UNCHANGED <<faults, masterVars, accepted, programVars, late>>
           /\ \A r \in RServers :
                 LET d == HeartBeatRequest(link[r]) IN
                 \/ /\ d.flag # "closed"
                    /\ link'[r] = d
                    /\ peer'[r] = peer[r]
                    /\ from_peer'[r] = from_peer[r]
                    /\ told'[r] = told[r]
                    /\ r \in replaced \/ Replaces(d, link[r]) => r \in replaced'
                 \/ /\ d.flag = "closed"
                    /\ \E result \in {"ok", "in progress"} :
                          link'[r] = Connected(d, result)
                    /\ peer'[r] = "up"
                    /\ from_peer'[r] = <<>>
                    /\ told'[r] = "nothing"
<1> DEFINE beaten == [r \in RServers |-> HeartBeatRequest(link[r])]
           lost == {r \in RServers : beaten[r].flag = "closed"}
<1>1. PICK result \in [lost -> {"ok", "in progress"}] :
        /\ link' = [r \in RServers |->
                      IF r \in lost THEN Connected(beaten[r], result[r])
                                    ELSE beaten[r]]
        /\ peer' = [r \in RServers |-> IF r \in lost THEN "up" ELSE peer[r]]
        /\ from_peer' = [r \in RServers |->
                           IF r \in lost THEN <<>> ELSE from_peer[r]]
        /\ told' = [r \in RServers |->
                      IF r \in lost THEN "nothing" ELSE told[r]]
        /\ replaced' = {r \in RServers \ lost :
                          r \in replaced \/ Replaces(beaten[r], link[r])}
        /\ ready' \subseteq Event
  BY DEF Round
<1>2. \A r \in RServers : beaten[r] = HeartBeatRequest(link[r])
  OBVIOUS
<1>3. \A r \in RServers : r \in lost <=> HeartBeatRequest(link[r]).flag = "closed"
  OBVIOUS
<1>4. UNCHANGED <<faults, masterVars, accepted, programVars, late>>
  BY DEF Round
<1>5. \A r \in lost : result[r] \in {"ok", "in progress"}
  BY <1>1
<1> HIDE DEF beaten, lost
<1> QED
  BY <1>1, <1>2, <1>3, <1>4, <1>5

\* What a register server that is sent out hears of it, and answers.
LEMMA HearsOne ==
    ASSUME faults \in 0..MaxFaults, NEW r \in RServers, NEW out,
           NEW a \in Hears(r, out)
    PROVE  \/ out = "WRQ" /\ a[1] = "WRP" /\ a[2] = "idle"
           \/ /\ out = "WRQ" /\ a[1] = "WRP error" /\ a[2] = "nothing"
              /\ faults < MaxFaults
           \/ out = "HBQ" /\ a[1] = "HBP" /\ a[2] = told[r]
           \/ out = "WNQ idle" /\ a[1] = "" /\ a[2] = "idle"
           \/ out = "WNQ working" /\ a[1] = "" /\ a[2] = "working"
           \/ out \notin Notices /\ a[1] = "" /\ a[2] = told[r]
<1>1. CASE out = "WRQ"
  <2>1. \/ a = <<"WRP", "idle">>
        \/ faults < MaxFaults /\ a = <<"WRP error", "nothing">>
    <3> DEFINE ok == <<"WRP", "idle">>
               error == <<"WRP error", "nothing">>
    <3>1. Hears(r, out) = {ok} \cup IF faults < MaxFaults THEN {error} ELSE {}
      BY <1>1 DEF Hears
    <3> HIDE DEF ok, error
    <3>2. a = ok \/ a \in IF faults < MaxFaults THEN {error} ELSE {}
      BY <3>1
    <3>3. a = ok \/ (faults < MaxFaults /\ a = error)
      BY <3>2
    <3> QED
      BY <3>3 DEF ok, error
  <2>2. CASE a = <<"WRP", "idle">>
    BY <1>1, <2>2
  <2>3. CASE faults < MaxFaults /\ a = <<"WRP error", "nothing">>
    BY <1>1, <2>3
  <2> QED
    BY <2>1, <2>2, <2>3
<1>2. CASE out = "HBQ"
  <2>1. a = <<"HBP", told[r]>>
    BY <1>2 DEF Hears
  <2> QED
    BY <1>2, <2>1
<1>3. CASE out = "WNQ idle"
  <2>1. a = <<"", "idle">>
    BY <1>3 DEF Hears
  <2> QED
    BY <1>3, <2>1
<1>4. CASE out = "WNQ working"
  <2>1. a = <<"", "working">>
    BY <1>4 DEF Hears
  <2> QED
    BY <1>4, <2>1
<1>5. CASE out \notin {"WRQ", "HBQ", "WNQ idle", "WNQ working"}
  <2>1. a = <<"", told[r]>>
    BY <1>5 DEF Hears
  <2> QED
    BY <1>5, <2>1 DEF Notices
<1> QED
  BY <1>1, <1>2, <1>3, <1>4, <1>5

\* A step on a connection to a register server, or the begin of a round.
LEMMA LinkStepTypes ==
    ASSUME TypeOK, QueuesOK, ReadyOK
    PROVE  /\ Round => TypeOK' /\ QueuesOK'
           /\ \A r \in RServers :
                 /\ OnConnectedSocketOutput(r) => TypeOK' /\ QueuesOK'
                 /\ OnConnectedSocketInput(r) => TypeOK' /\ QueuesOK'
                 /\ OnConnectedSocketError(r) => TypeOK' /\ QueuesOK'
<1>1. ASSUME Round PROVE TypeOK' /\ QueuesOK'
  <2>1. \A r \in RServers : HeartBeatRequest(link[r]) \in Link
    BY LinkTypes DEF TypeOK
  <2>2. \A r \in RServers : link'[r] \in Link
    <3> TAKE r \in RServers
    <3> DEFINE d == HeartBeatRequest(link[r])
    <3>1. d \in Link
      BY <2>1
    <3> HIDE DEF d
    <3>2. \/ link'[r] = d
          \/ \E result \in {"ok", "in progress"} : link'[r] = Connected(d, result)
      BY <1>1, RoundLinks DEF d
    <3> QED
      BY <3>1, <3>2, LinkTypes
  <2>3. \A r \in RServers :
           /\ peer'[r] \in {"none", "up", "silent"}
           /\ from_peer'[r] \in Seq(Heard)
           /\ told'[r] \in {"nothing", "idle", "working"}
    <3> TAKE r \in RServers
    <3>1. \/ peer'[r] = peer[r] /\ from_peer'[r] = from_peer[r] /\ told'[r] = told[r]
          \/ peer'[r] = "up" /\ from_peer'[r] = <<>> /\ told'[r] = "nothing"
      BY <1>1, RoundLinks
    <3>2. <<>> \in Seq(Heard)
      OBVIOUS
    <3> QED
      BY <3>1, <3>2 DEF TypeOK, QueuesOK
  <2>4. /\ link' = [r \in RServers |-> link'[r]]
        /\ peer' = [r \in RServers |-> peer'[r]]
        /\ from_peer' = [r \in RServers |-> from_peer'[r]]
        /\ told' = [r \in RServers |-> told'[r]]
        /\ replaced' \subseteq RServers
        /\ ready' \subseteq Event
        /\ UNCHANGED <<faults, masterVars, accepted, programVars, late>>
    BY <1>1, RoundLinks
  <2>5. /\ link' \in [RServers -> Link]
        /\ peer' \in [RServers -> {"none", "up", "silent"}]
        /\ from_peer' \in [RServers -> Seq(Heard)]
        /\ told' \in [RServers -> {"nothing", "idle", "working"}]
    BY <2>2, <2>3, <2>4
  <2> QED
    BY <2>4, <2>5 DEF TypeOK, QueuesOK, masterVars, programVars
<1>2. ASSUME NEW r \in RServers, OnConnectedSocketOutput(r)
      PROVE  TypeOK' /\ QueuesOK'
  <2>1. link' \in [RServers -> Link]
    BY <1>2, LinkTypes DEF OnConnectedSocketOutput, TypeOK
  <2>2. ready' \subseteq Event
    BY <1>2 DEF OnConnectedSocketOutput, Done, TypeOK
  <2>3. CASE UNCHANGED <<from_peer, told, faults>>
    BY <1>2, <2>1, <2>2, <2>3
       DEF OnConnectedSocketOutput, TypeOK, QueuesOK, masterVars, programVars
  <2>4. CASE ~UNCHANGED <<from_peer, told, faults>>
    <3>1. PICK a \in Hears(r, link[r].out) :
             /\ told' = [told EXCEPT ![r] = a[2]]
             /\ from_peer' = [from_peer EXCEPT ![r] =
                                IF a[1] = "" THEN @ ELSE Append(@, a[1])]
             /\ faults' = IF a[1] = "WRP error" THEN faults + 1 ELSE faults
      BY <1>2, <2>4 DEF OnConnectedSocketOutput
    <3>2. /\ a[1] \in Heard \cup {""}
          /\ a[2] \in {"nothing", "idle", "working"}
          /\ a[1] = "WRP error" => faults < MaxFaults
      <4>1. told[r] \in {"nothing", "idle", "working"}
        BY DEF TypeOK
      <4>2. faults \in 0..MaxFaults
        BY DEF TypeOK
      <4> QED
        BY <4>1, <4>2, HearsOne DEF Heard
    <3>3. told' \in [RServers -> {"nothing", "idle", "working"}]
      BY <3>1, <3>2 DEF TypeOK
    <3>4. from_peer' \in [RServers -> Seq(Heard)]
      <4>1. from_peer[r] \in Seq(Heard)
        BY DEF QueuesOK
      <4>2. ASSUME a[1] # "" PROVE Append(from_peer[r], a[1]) \in Seq(Heard)
        <5>1. a[1] \in Heard
          BY <3>2, <4>2
        <5> QED
          BY <4>1, <5>1, AppendProperties
      <4> DEFINE box == IF a[1] = "" THEN from_peer[r] ELSE Append(from_peer[r], a[1])
      <4>3. from_peer' = [from_peer EXCEPT ![r] = box]
        BY <3>1
      <4>4. box \in Seq(Heard)
        BY <4>1, <4>2
      <4> HIDE DEF box
      <4> QED
        BY <4>3, <4>4 DEF QueuesOK
    <3>5. faults' \in 0..MaxFaults
      <4>1. faults \in 0..MaxFaults
        BY DEF TypeOK
      <4>2. CASE a[1] = "WRP error"
        <5>1. faults' = faults + 1 /\ faults < MaxFaults
          BY <3>1, <3>2, <4>2
        <5> QED
          BY <4>1, <5>1
      <4>3. CASE a[1] # "WRP error"
        <5>1. faults' = faults
          BY <3>1, <4>3
        <5> QED
          BY <4>1, <5>1
      <4> QED
        BY <4>2, <4>3
    <3> QED
      BY <1>2, <2>1, <2>2, <3>3, <3>4, <3>5
         DEF OnConnectedSocketOutput, TypeOK, QueuesOK, masterVars, programVars
  <2> QED
    BY <2>3, <2>4
<1>3. ASSUME NEW r \in RServers, OnConnectedSocketInput(r)
      PROVE  TypeOK' /\ QueuesOK'
  <2>1. from_peer[r] \in Seq(Heard) /\ from_peer[r] # <<>>
    BY <1>3 DEF OnConnectedSocketInput, ReadyOK, QueuesOK
  <2>2. Head(from_peer[r]) \in Heard /\ Tail(from_peer[r]) \in Seq(Heard)
    BY <2>1
  <2>3. link' \in [RServers -> Link]
    BY <1>3, <2>2, LinkTypes DEF OnConnectedSocketInput, TypeOK
  <2>4. ready' \subseteq Event
    BY <1>3 DEF OnConnectedSocketInput, Done, TypeOK
  <2>5. from_peer' \in [RServers -> Seq(Heard)]
    BY <1>3, <2>2 DEF OnConnectedSocketInput, QueuesOK
  <2>6. /\ peer' \in [RServers -> {"none", "up", "silent"}]
        /\ replaced' \subseteq RServers
    BY <1>3 DEF OnConnectedSocketInput, TypeOK
  <2> QED
    BY <1>3, <2>3, <2>4, <2>5, <2>6
       DEF OnConnectedSocketInput, TypeOK, QueuesOK, masterVars, programVars
<1>4. ASSUME NEW r \in RServers, OnConnectedSocketError(r)
      PROVE  TypeOK' /\ QueuesOK'
  <2>1. link' \in [RServers -> Link]
    BY <1>4, LinkTypes DEF OnConnectedSocketError, TypeOK
  <2>2. ready' \subseteq Event
    BY <1>4 DEF OnConnectedSocketError, Done, TypeOK
  <2>3. /\ peer' \in [RServers -> {"none", "up", "silent"}]
        /\ from_peer' \in [RServers -> Seq(Heard)]
        /\ faults' \in 0..MaxFaults
    BY <1>4 DEF OnConnectedSocketError, TypeOK, QueuesOK
  <2> QED
    BY <1>4, <2>1, <2>2, <2>3
       DEF OnConnectedSocketError, TypeOK, QueuesOK, masterVars, programVars
<1> QED
  BY <1>1, <1>2, <1>3, <1>4

\* A message of the master that is there is taken from its queue.
LEMMA ReadsMessage ==
    ASSUME TypeOK, QueuesOK, ReadyOK, NEW msg, Reads(msg)
    PROVE  /\ Working /\ accepted.master \in Masters
           /\ accepted.recv \in {"clean", "part", "refused"}
           /\ Done("accepted", None, "IN")
           /\ ready' \subseteq Event
           /\ DOMAIN sends' = Masters
           /\ \A m \in Masters :
                 /\ Queue(sends'[m])
                 /\ m # accepted.master => sends'[m] = sends[m]
           /\ ~Asks(sends'[accepted.master])
           /\ msg = "EPQ" => Asks(sends[accepted.master])
           /\ UNCHANGED <<got, late>>
<1> DEFINE m == accepted.master
<1>1. Working /\ m \in Masters /\ sends[m] # <<>>
  BY DEF Reads, ReadyOK, TypeOK, Working
<1>2. Queue(sends[m]) /\ DOMAIN sends = Masters
  BY <1>1 DEF QueuesOK
<1>3. Queue(Tail(sends[m])) /\ ~Asks(Tail(sends[m]))
  BY <1>1, <1>2, ReadQueue
<1>4. /\ sends' = [sends EXCEPT ![m] = Tail(sends[m])]
      /\ Head(sends[m]) = msg
      /\ UNCHANGED <<got, late>>
      /\ Done("accepted", None, "IN")
  BY DEF Reads
<1>5. accepted.recv \in {"clean", "part", "refused"} /\ ready' \subseteq Event
  BY <1>4 DEF TypeOK, Done
<1> QED
  BY <1>1, <1>2, <1>3, <1>4, <1>5 DEF QueuesOK, Asks

\* A step on the connection of a master, or at the end of a program.
LEMMA SessionStepTypes ==
    ASSUME TypeOK, QueuesOK, ReadyOK
    PROVE  /\ OnAcceptedSocketInput => TypeOK' /\ QueuesOK'
           /\ OnAcceptedSocketOutput => TypeOK' /\ QueuesOK'
           /\ \A m \in Masters :
                 /\ OnListenSocketInput(m) => TypeOK' /\ QueuesOK'
                 /\ OnWildSocketOutput(m) => TypeOK' /\ QueuesOK'
                 /\ WaitProgramExiting(m) => TypeOK' /\ QueuesOK'
<1>1. ASSUME OnAcceptedSocketInput PROVE TypeOK' /\ QueuesOK'
  <2>1. PICK msg : Reads(msg)
    BY <1>1 DEF OnAcceptedSocketInput, ExecuteProgramRequest,
                DeployProgramResponse, ReceivePart, ReceiveAfterPart, ReceiveEnd
  <2>2. /\ Working /\ accepted.master \in Masters
        /\ accepted.recv \in {"clean", "part", "refused"}
        /\ ready' \subseteq Event
        /\ DOMAIN sends' = Masters
        /\ \A m \in Masters : Queue(sends'[m])
        /\ UNCHANGED <<got, late>>
    BY <2>1, ReadsMessage
  <2>3. CASE /\ \E recv \in {"clean", "part", "refused"} :
                   CloseAcceptedSocket(recv)
             /\ UNCHANGED epq
    BY <2>2, <2>3, CloseTypes DEF TypeOK, QueuesOK, AcceptedTypes
  <2>4. CASE \E task \in Masters \cup {None} :
                ExecuteProgram(accepted.master, task)
    BY <2>2, <2>4, ExecuteTypes DEF TypeOK, QueuesOK, AcceptedTypes
  <2>5. CASE /\ UNCHANGED <<linkVars, at, executing, pipes, pid, child>>
             /\ epq' \in Masters \cup {None}
             /\ accepted' \in AcceptedTypes
    BY <2>2, <2>5 DEF TypeOK, QueuesOK, AcceptedTypes, linkVars
  <2>6. CASE ExecuteProgramRequest
    <3>1. CASE ExecuteProgram(accepted.master, accepted.master)
      BY <2>2, <2>4, <3>1
    <3>2. CASE ~ExecuteProgram(accepted.master, accepted.master)
      <4>1. [accepted EXCEPT !.out = [kind |-> "DPQ", tid |-> None],
                             !.progress = "DO_DEPLOY", !.watch = "OUT"]
              \in AcceptedTypes
        BY AcceptedValues DEF TypeOK, AcceptedTypes
      <4> QED
        BY <2>2, <2>5, <2>6, <3>2, <4>1 DEF ExecuteProgramRequest
    <3> QED
      BY <3>1, <3>2
  <2>7. CASE DeployProgramResponse
    <3>1. CASE ProtoFails /\ UNCHANGED epq
      BY <2>3, <3>1 DEF ProtoFails
    <3>2. CASE ExecuteProgram(accepted.master, epq)
      BY <2>4, <3>2 DEF TypeOK
    <3>3. CASE /\ ~(ProtoFails /\ UNCHANGED epq)
               /\ ~ExecuteProgram(accepted.master, epq)
      <4>1. [accepted EXCEPT !.out = [kind |-> "ERROR", tid |-> None],
                             !.watch = "OUT"] \in AcceptedTypes
        BY AcceptedValues DEF TypeOK, AcceptedTypes
      <4>2. UNCHANGED <<linkVars, at, executing, pipes, pid, child, epq>>
        BY <2>7, <3>3 DEF DeployProgramResponse, programVars
      <4>3. epq' \in Masters \cup {None}
        BY <4>2 DEF TypeOK
      <4> QED
        BY <2>5, <2>7, <3>3, <4>1, <4>2, <4>3 DEF DeployProgramResponse
    <3> QED
      BY <3>1, <3>2, <3>3
  <2>8. CASE ReceivePart
    <3>1. [accepted EXCEPT !.recv = "part"] \in AcceptedTypes
      BY DEF TypeOK, AcceptedTypes
    <3>2. UNCHANGED <<linkVars, at, executing, pipes, pid, child, epq>>
      BY <2>8 DEF ReceivePart, programVars
    <3>3. epq' \in Masters \cup {None}
      BY <3>2 DEF TypeOK
    <3> QED
      BY <2>5, <2>8, <3>1, <3>2, <3>3 DEF ReceivePart
  <2>9. CASE ReceiveAfterPart
    <3>1. CASE CloseAcceptedSocket("refused") /\ UNCHANGED epq
      BY <2>3, <3>1
    <3>2. CASE UNCHANGED <<linkVars, at, accepted, programVars>>
      <4>1. accepted' \in AcceptedTypes /\ epq' \in Masters \cup {None}
        BY <3>2 DEF TypeOK, AcceptedTypes, programVars
      <4> QED
        BY <2>5, <3>2, <4>1 DEF programVars
    <3> QED
      BY <2>9, <3>1, <3>2 DEF ReceiveAfterPart
  <2>10. CASE ReceiveEnd
    BY <2>2, <2>3, <2>10 DEF ReceiveEnd
  <2> QED
    BY <1>1, <2>6, <2>7, <2>8, <2>9, <2>10 DEF OnAcceptedSocketInput
<1>2. ASSUME OnAcceptedSocketOutput PROVE TypeOK' /\ QueuesOK'
  <2> DEFINE m == accepted.master
  <2>1. Working /\ m \in Masters /\ accepted.recv \in {"clean", "part", "refused"}
    BY <1>2 DEF OnAcceptedSocketOutput, ReadyOK, TypeOK, Working
  <2>2. ready' \subseteq Event /\ UNCHANGED <<sends, late>>
    BY <1>2 DEF OnAcceptedSocketOutput, Done, TypeOK
  <2>3. CASE CloseAcceptedSocket(accepted.recv) /\ UNCHANGED <<epq, got>>
    BY <2>1, <2>2, <2>3, CloseTypes DEF TypeOK, QueuesOK, AcceptedTypes
  <2>4. CASE /\ got' = [got EXCEPT ![m] = accepted.out]
             /\ accepted' = [accepted EXCEPT !.out = NoAnswer, !.watch = "IN"]
             /\ UNCHANGED <<linkVars, at, programVars>>
    <3>1. accepted' \in AcceptedTypes /\ got' \in [Masters -> Answers]
      BY <2>1, <2>4, AcceptedValues DEF TypeOK, AcceptedTypes
    <3> QED
      BY <2>2, <2>4, <3>1
         DEF TypeOK, QueuesOK, AcceptedTypes, linkVars, programVars
  <2> QED
    BY <1>2, <2>3, <2>4 DEF OnAcceptedSocketOutput
<1>3. ASSUME NEW m \in Masters, OnListenSocketInput(m) PROVE TypeOK' /\ QueuesOK'
  <2>1. ready' \subseteq Event /\ UNCHANGED <<sends, got, programVars>>
    BY <1>3 DEF OnListenSocketInput
  <2>2. CASE TurnedAway(m)
    <3>1. at' \in [Masters -> {"away", "queued", "served", "turned", "closed"}]
      BY <2>2 DEF TurnedAway, TypeOK
    <3> QED
      BY <2>1, <2>2, <3>1 DEF TurnedAway, TypeOK, QueuesOK, linkVars, programVars
  <2>3. CASE Served(m)
    <3>1. at' \in [Masters -> {"away", "queued", "served", "turned", "closed"}]
      BY <2>3 DEF Served, TypeOK
    <3>2. accepted' \in AcceptedTypes
      BY <2>3 DEF Served, TypeOK, AcceptedTypes
    <3>3. link' \in [RServers -> Link]
      BY <2>3, NoticeTypes DEF Served
    <3>4. UNCHANGED <<peer, from_peer, told, replaced, faults>>
      BY <2>3 DEF Served, SendWorkerNotice
    <3>5. late' \subseteq Masters
      BY <2>3 DEF Served, TypeOK
    <3> QED
      BY <2>1, <3>1, <3>2, <3>3, <3>4, <3>5
         DEF TypeOK, QueuesOK, AcceptedTypes, programVars
  <2> QED
    BY <1>3, <2>2, <2>3, ListenCases
<1>4. ASSUME NEW m \in Masters, OnWildSocketOutput(m) PROVE TypeOK' /\ QueuesOK'
  <2>1. /\ at' \in [Masters -> {"away", "queued", "served", "turned", "closed"}]
        /\ ready' \subseteq Event
        /\ got' \in [Masters -> Answers]
    BY <1>4, AcceptedValues DEF OnWildSocketOutput, Done, TypeOK
  <2> QED
    BY <1>4, <2>1 DEF OnWildSocketOutput, TypeOK, QueuesOK, linkVars, programVars
<1>5. ASSUME NEW t \in Masters, WaitProgramExiting(t) PROVE TypeOK' /\ QueuesOK'
  <2>1. ready' \subseteq Event /\ UNCHANGED <<masterVars, late>>
    BY <1>5 DEF WaitProgramExiting, Done, TypeOK
  <2>2. CASE UNCHANGED <<linkVars, accepted, programVars>>
    BY <2>1, <2>2 DEF TypeOK, QueuesOK, linkVars, masterVars, programVars
  <2>3. ASSUME NEW m \in Masters, Waited(m), Answered(m) \/ NotAnswered
        PROVE  TypeOK' /\ QueuesOK'
    <3>1. Outcome(m) \in Answers
      BY AcceptedValues DEF Outcome, TypeOK
    <3>2. accepted' \in AcceptedTypes
      <4>1. CASE Answered(m)
        BY <3>1, <4>1, AcceptedValues DEF Answered, TypeOK, AcceptedTypes
      <4>2. CASE NotAnswered
        BY <4>2 DEF NotAnswered, TypeOK, AcceptedTypes
      <4> QED
        BY <2>3, <4>1, <4>2
    <3>3. /\ child' \in [Masters -> {"none", "running", "killed", "exited",
                                     "reaped"}]
          /\ pipes' \subseteq Masters
      BY <2>3 DEF Waited, Unwatched, TypeOK
    <3>4. executing' \in [established : BOOLEAN, sock : Masters \cup {None},
                          p1 : BOOLEAN]
      BY <2>3 DEF Waited, TypeOK
    <3>5. /\ link' \in [RServers -> Link]
          /\ UNCHANGED <<peer, from_peer, told, replaced, faults, pid, epq>>
      <4>1. Working \in BOOLEAN
        BY DEF Working
      <4> QED
        BY <2>3, <4>1, NoticeTypes DEF Waited, SendWorkerNotice
    <3> QED
      BY <2>1, <3>2, <3>3, <3>4, <3>5
         DEF TypeOK, QueuesOK, AcceptedTypes, masterVars
  <2> QED
    BY <1>5, <2>2, <2>3, WaitCases
<1> QED
  BY <1>1, <1>2, <1>3, <1>4, <1>5

\* Every step keeps the types.
LEMMA TypeStep ==
    ASSUME TypeOK, QueuesOK, ReadyOK, [Next]_vars
    PROVE  TypeOK' /\ QueuesOK'
<1>1. CASE Next
  BY <1>1, EnvironmentTypes, LinkStepTypes, SessionStepTypes
     DEF Next, Server, Handle
<1>2. CASE UNCHANGED vars
  BY <1>2 DEF vars, linkVars, masterVars, programVars, TypeOK, QueuesOK
<1> QED
  BY <1>1, <1>2

-----------------------------------------------------------------------------
(* The events that wait to be handled.                                      *)

\* A notice leaves everything of a session but its buffer and what epoll waits
\* for.
LEMMA NoticeLeaves ==
    ASSUME TypeOK, NEW working, SendWorkerNotice(working)
    PROVE  /\ \A r \in RServers :
                 /\ link'[r].flag = link[r].flag
                 /\ link'[r].progress = link[r].progress
           /\ UNCHANGED <<peer, from_peer, told, replaced, faults>>
<1>1. \A c \in Link : /\ Noticed(c, working).flag = c.flag
                      /\ Noticed(c, working).progress = c.progress
  BY DEF Noticed, Link
<1> QED
  BY <1>1 DEF SendWorkerNotice, TypeOK

\* A step of a master, of a program, of a register server or of the clock
\* takes nothing away from a socket that is ready.
LEMMA EnvironmentReady ==
    ASSUME TypeOK, QueuesOK, ReadyOK, Environment
    PROVE  ReadyOK'
<1> USE DEF ReadyOK, Handles, Working
<1>1. ASSUME NEW m \in Masters, Connect(m) PROVE ReadyOK'
  BY <1>1 DEF Connect, linkVars, QueuesOK, TypeOK
<1>2. ASSUME NEW m \in Masters, Deploy(m) PROVE ReadyOK'
  <2>1. Append(sends[m], "DPP") # <<>>
    BY AppendQueue DEF QueuesOK, Sent
  <2>2. \A x \in Masters : sends[x] # <<>> => sends'[x] # <<>>
    BY <1>2, <2>1 DEF Deploy, QueuesOK
  <2> QED
    BY <1>2, <2>2 DEF Deploy, linkVars, TypeOK
<1>3. ASSUME NEW m \in Masters, Leave(m) PROVE ReadyOK'
  <2>1. Append(sends[m], "FIN") # <<>>
    BY AppendQueue DEF QueuesOK, Sent
  <2>2. sends[m] # <<>> =>
           SubSeq(sends[m], 1, Len(sends[m]) - 1) \o <<"PART", "FIN">> # <<>>
    BY CutQueue DEF QueuesOK
  <2>3. \A x \in Masters : sends[x] # <<>> => sends'[x] # <<>>
    BY <1>3, <2>1, <2>2 DEF Leave, QueuesOK
  <2> QED
    BY <1>3, <2>3 DEF Leave, linkVars, TypeOK
<1>4. ASSUME NEW m \in Masters, ProgramEnds(m) PROVE ReadyOK'
  BY <1>4 DEF ProgramEnds, linkVars, masterVars
<1>5. ASSUME NEW r \in RServers, NEW msg \in {"HBQ", "FIN"}, PeerSends(r, msg)
      PROVE  ReadyOK'
  <2>1. \A s \in RServers : from_peer[s] # <<>> => from_peer'[s] # <<>>
    BY <1>5 DEF PeerSends, QueuesOK
  <2> QED
    BY <1>5, <2>1 DEF PeerSends, masterVars
<1>6. ASSUME NEW r \in RServers, FallsSilent(r) PROVE ReadyOK'
  BY <1>6 DEF FallsSilent, masterVars
<1>7. ASSUME NEW r \in RServers, TimePasses(r) PROVE ReadyOK'
  <2>1. \A s \in RServers : link'[s].flag = link[s].flag
    BY <1>7 DEF TimePasses, TypeOK, Link
  <2> QED
    BY <1>7, <2>1 DEF TimePasses, masterVars
<1> QED
  BY <1>1, <1>2, <1>3, <1>4, <1>5, <1>6, <1>7 DEF Environment

\* A round gives only what can be handled, and the events on a connection to a
\* register server concern only that connection.
LEMMA LinkStepReady ==
    ASSUME TypeOK, QueuesOK, ReadyOK
    PROVE  /\ Round => ReadyOK'
           /\ \A r \in RServers :
                 /\ OnConnectedSocketOutput(r) => ReadyOK'
                 /\ OnConnectedSocketInput(r) => ReadyOK'
                 /\ OnConnectedSocketError(r) => ReadyOK'
<1>1. ASSUME Round PROVE ReadyOK'
  <2>1. UNCHANGED <<masterVars, accepted>>
    BY <1>1, RoundLinks
  <2>2. \A r \in RServers :
           HeartBeatRequest(link[r]).flag # "closed" =>
              /\ link'[r] = HeartBeatRequest(link[r])
              /\ from_peer'[r] = from_peer[r]
    BY <1>1, RoundLinks
  <2>3. /\ Handles("accepted", None, "IN")' =>
                 /\ Working /\ accepted.watch = "IN"
                 /\ sends[accepted.master] # <<>>
        /\ Handles("accepted", None, "OUT")' =>
                 Working /\ accepted.watch = "OUT"
    BY <1>1, RoundReady
  <2>4. \A m \in Masters : Handles("turned", m, "OUT")' => at[m] = "turned"
    BY <1>1, RoundReady
  <2>5. \A r \in RServers :
           /\ Handles("link", r, "IN")' =>
                 /\ HeartBeatRequest(link[r]).flag # "closed"
                 /\ link[r].watch = "IN" /\ from_peer[r] # <<>>
           /\ Handles("link", r, "OUT")' =>
                 /\ HeartBeatRequest(link[r]).flag # "closed"
                 /\ link[r].watch = "OUT"
    BY <1>1, RoundReady
  <2> QED
    BY <2>1, <2>2, <2>3, <2>4, <2>5 DEF ReadyOK, Working, masterVars
<1>2. ASSUME NEW r \in RServers, NEW kind \in {"IN", "OUT"},
             Handles("link", r, kind), Done("link", r, kind),
             UNCHANGED <<masterVars, accepted>>,
             \A s \in RServers \ {r} :
                link'[s] = link[s] /\ from_peer'[s] = from_peer[s]
      PROVE  ReadyOK'
  <2>1. \A on, who, k : Handles(on, who, k)' => Handles(on, who, k)
    BY <1>2, DoneOne
  <2>2. ~Handles("link", r, "IN")' /\ ~Handles("link", r, "OUT")'
    BY <1>2, <2>1, DoneOne DEF ReadyOK
  <2> QED
    BY <1>2, <2>1, <2>2 DEF ReadyOK, Working, masterVars
<1>3. ASSUME NEW r \in RServers, OnConnectedSocketOutput(r) PROVE ReadyOK'
  <2>1. /\ Handles("link", r, "OUT") /\ Done("link", r, "OUT")
        /\ UNCHANGED <<masterVars, accepted>>
    BY <1>3 DEF OnConnectedSocketOutput
  <2>2. \A s \in RServers \ {r} :
           link'[s] = link[s] /\ from_peer'[s] = from_peer[s]
    BY <1>3 DEF OnConnectedSocketOutput, TypeOK, QueuesOK
  <2> QED
    BY <1>2, <2>1, <2>2
<1>4. ASSUME NEW r \in RServers, OnConnectedSocketInput(r) PROVE ReadyOK'
  <2>1. /\ Handles("link", r, "IN") /\ Done("link", r, "IN")
        /\ UNCHANGED <<masterVars, accepted>>
    BY <1>4 DEF OnConnectedSocketInput
  <2>2. \A s \in RServers \ {r} :
           link'[s] = link[s] /\ from_peer'[s] = from_peer[s]
    BY <1>4 DEF OnConnectedSocketInput, TypeOK, QueuesOK
  <2> QED
    BY <1>2, <2>1, <2>2
<1>5. ASSUME NEW r \in RServers, OnConnectedSocketError(r) PROVE ReadyOK'
  <2>1. PICK kind \in {"IN", "OUT"} :
           Handles("link", r, kind) /\ Done("link", r, kind)
    BY <1>5 DEF OnConnectedSocketError
  <2>2. UNCHANGED <<masterVars, accepted>>
    BY <1>5 DEF OnConnectedSocketError
  <2>3. \A s \in RServers \ {r} :
           link'[s] = link[s] /\ from_peer'[s] = from_peer[s]
    BY <1>5 DEF OnConnectedSocketError, TypeOK, QueuesOK
  <2> QED
    BY <1>2, <2>1, <2>2, <2>3
<1> QED
  BY <1>1, <1>3, <1>4, <1>5

\* What becomes of the connection of a master leaves the other events.
LEMMA SessionStepReady ==
    ASSUME TypeOK, QueuesOK, ReadyOK, SessionsOK
    PROVE  /\ OnAcceptedSocketInput => ReadyOK'
           /\ OnAcceptedSocketOutput => ReadyOK'
           /\ \A m \in Masters :
                 /\ OnListenSocketInput(m) => ReadyOK'
                 /\ OnWildSocketOutput(m) => ReadyOK'
                 /\ WaitProgramExiting(m) => ReadyOK'
\* What closes or answers a master, or starts its program.
<1> DEFINE Acts == \/ \E recv : CloseAcceptedSocket(recv)
                   \/ \E task : Started(accepted.master, task)
                   \/ UNCHANGED <<linkVars, at>>
<1>a. ASSUME NEW kind \in {"IN", "OUT"}, Handles("accepted", None, kind),
             Done("accepted", None, kind), Acts
      PROVE  ReadyOK'
  <2>1. \A on, who, k : Handles(on, who, k)' => Handles(on, who, k)
    BY <1>a, DoneOne
  <2>2. ~Handles("accepted", None, "IN")' /\ ~Handles("accepted", None, "OUT")'
    BY <1>a, <2>1, DoneOne DEF ReadyOK
  <2>3. /\ \A r \in RServers : link'[r].flag = link[r].flag
        /\ UNCHANGED from_peer
    <3>1. CASE \E recv : CloseAcceptedSocket(recv)
      BY <3>1, NoticeLeaves DEF CloseAcceptedSocket
    <3>2. CASE \E task : Started(accepted.master, task)
      BY <3>2, NoticeLeaves DEF Started
    <3>3. CASE UNCHANGED <<linkVars, at>>
      BY <3>3 DEF linkVars
    <3> QED
      BY <1>a, <3>1, <3>2, <3>3
  <2>4. \A m \in Masters : at[m] = "turned" => at'[m] = "turned"
    <3>1. Working /\ at[accepted.master] = "served"
      BY <1>a DEF ReadyOK, SessionsOK
    <3>2. CASE \E recv : CloseAcceptedSocket(recv)
      BY <3>1, <3>2 DEF CloseAcceptedSocket, TypeOK
    <3>3. CASE \E task : Started(accepted.master, task)
      BY <3>3 DEF Started
    <3> QED
      BY <1>a, <3>2, <3>3
  <2> QED
    BY <2>1, <2>2, <2>3, <2>4 DEF ReadyOK
<1>1. ASSUME OnAcceptedSocketInput PROVE ReadyOK'
  <2>1. \E msg : Reads(msg)
    BY <1>1 DEF OnAcceptedSocketInput, ExecuteProgramRequest,
                DeployProgramResponse, ReceivePart, ReceiveAfterPart, ReceiveEnd
  <2>2. Handles("accepted", None, "IN") /\ Done("accepted", None, "IN")
    BY <2>1 DEF Reads
  <2>3. Acts
    <3>1. CASE \E m, task : m = accepted.master /\ ExecuteProgram(m, task)
      BY <3>1, ExecuteCases
    <3>2. CASE ~\E m, task : m = accepted.master /\ ExecuteProgram(m, task)
      BY <1>1, <3>2 DEF OnAcceptedSocketInput, ExecuteProgramRequest,
              DeployProgramResponse, ReceivePart, ReceiveAfterPart, ReceiveEnd,
              ProtoFails
    <3> QED
      BY <3>1, <3>2
  <2> QED
    BY <1>a, <2>2, <2>3
<1>2. ASSUME OnAcceptedSocketOutput PROVE ReadyOK'
  <2>1. Handles("accepted", None, "OUT") /\ Done("accepted", None, "OUT")
    BY <1>2 DEF OnAcceptedSocketOutput
  <2>2. Acts
    BY <1>2 DEF OnAcceptedSocketOutput
  <2> QED
    BY <1>a, <2>1, <2>2
<1>3. ASSUME NEW m \in Masters, OnListenSocketInput(m) PROVE ReadyOK'
  <2>1. ready' = {}
    BY <1>3 DEF OnListenSocketInput
  <2> QED
    BY <2>1 DEF ReadyOK, Handles
<1>4. ASSUME NEW m \in Masters, OnWildSocketOutput(m) PROVE ReadyOK'
  <2>1. \A on, who, k : Handles(on, who, k)' => Handles(on, who, k)
    BY <1>4, DoneOne DEF OnWildSocketOutput
  <2>2. ~Handles("turned", m, "OUT")'
    BY <1>4, DoneOne DEF OnWildSocketOutput
  <2>3. \A x \in Masters \ {m} : at'[x] = at[x]
    BY <1>4 DEF OnWildSocketOutput, TypeOK
  <2> QED
    BY <1>4, <2>1, <2>2, <2>3 DEF OnWildSocketOutput, ReadyOK, Working, linkVars
<1>5. ASSUME NEW t \in Masters, WaitProgramExiting(t) PROVE ReadyOK'
  <2>1. \A on, who, k : Handles(on, who, k)' => Handles(on, who, k)
    BY <1>5, DoneOne DEF WaitProgramExiting
  <2>2. UNCHANGED masterVars
    BY <1>5 DEF WaitProgramExiting
  <2>3. /\ accepted'.master = accepted.master
        /\ accepted.watch = "OUT" => accepted'.watch = "OUT"
    BY ZenonT(60), <1>5, WaitCases DEF Answered, NotAnswered, TypeOK
  <2>4. /\ \A r \in RServers : link'[r].flag = link[r].flag
        /\ UNCHANGED from_peer
    <3>1. CASE UNCHANGED <<linkVars, accepted, programVars>>
      BY <3>1 DEF linkVars
    <3>2. CASE \E m \in Masters : Waited(m)
      BY <3>2, NoticeLeaves DEF Waited
    <3> QED
      BY <1>5, <3>1, <3>2, WaitCases
  <2> QED
    BY <2>1, <2>2, <2>3, <2>4 DEF ReadyOK, Working, masterVars
<1> QED
  BY <1>1, <1>2, <1>3, <1>4, <1>5

\* Every step leaves only events that can be handled.
LEMMA ReadyStep ==
    ASSUME TypeOK, QueuesOK, ReadyOK, SessionsOK, [Next]_vars
    PROVE  ReadyOK'
<1>1. CASE Next
  BY <1>1, EnvironmentReady, LinkStepReady, SessionStepReady
     DEF Next, Server, Handle
<1>2. CASE UNCHANGED vars
  BY <1>2 DEF vars, linkVars, masterVars, ReadyOK, Handles, Working
<1> QED
  BY <1>1, <1>2

-----------------------------------------------------------------------------
(* The sessions of the master and of the program.                           *)

\* A step that leaves both sessions, the pid and the buffer of epq, adds
\* nothing to what its master asks, and starts no program, keeps them linked.
LEMMA SessionsLeft ==
    ASSUME TypeOK, SessionsOK,
           UNCHANGED <<accepted, executing, pid, epq>>,
           Working => at'[accepted.master] = "served",
           Working /\ Asks(sends'[accepted.master]) =>
              Asks(sends[accepted.master]),
           \A m \in Masters :
              /\ child'[m] = "running" => child[m] = "running"
              /\ child[m] \in {"running", "exited"} =>
                    child'[m] \in {"running", "exited"}
    PROVE  SessionsOK'
<1>1. accepted.p1 => Working /\ accepted.master \in Masters
  BY DEF SessionsOK, Working, TypeOK
<1> QED
  BY <1>1 DEF SessionsOK, Working

\* The session of the master is closed: its program is killed or is no longer
\* linked.
LEMMA SessionsClosed ==
    ASSUME TypeOK, SessionsOK, NEW recv, CloseAcceptedSocket(recv)
    PROVE  SessionsOK'
<1>1. /\ accepted'.master = None
      /\ accepted'.p1 = FALSE
      /\ accepted'.watch = "NONE"
      /\ accepted'.progress = "CLOSED"
      /\ UNCHANGED executing
  BY DEF CloseAcceptedSocket, TypeOK
<1>2. \A m \in Masters : child'[m] # "running"
  <2>1. CASE accepted.p1 /\ executing.established
    <3>1. PICK how \in {"killed", "exited"} :
             child' = [m \in Masters |->
                         IF m = pid /\ child[m] = "running" THEN how
                                                            ELSE child[m]]
      BY <2>1 DEF CloseAcceptedSocket, KillChildProcess
    <3> QED
      BY <2>1, <3>1 DEF SessionsOK
  <2>2. CASE ~(accepted.p1 /\ executing.established)
    <3>1. UNCHANGED child
      BY <2>2 DEF CloseAcceptedSocket, KillChildProcess
    <3> QED
      BY <2>2, <3>1 DEF SessionsOK
  <2> QED
    BY <2>1, <2>2
<1> QED
  BY <1>1, <1>2 DEF SessionsOK, Working

\* The program of the master that is there is started: no other one runs.
LEMMA SessionsStarted ==
    ASSUME TypeOK, SessionsOK, Working, ~accepted.p1,
           Started(accepted.master, accepted.master),
           ~Asks(sends'[accepted.master])
    PROVE  SessionsOK'
<1> DEFINE m == accepted.master
<1>1. m \in Masters /\ m # None
  BY DEF TypeOK, Working
<1>2. /\ accepted'.master = m
      /\ accepted'.p1 = TRUE
      /\ accepted'.progress = "DO_EXECUTE"
      /\ accepted'.watch = accepted.watch
  BY DEF Started, TypeOK
<1>3. /\ executing'.established = TRUE
      /\ executing'.sock = m
      /\ executing'.p1 = TRUE
      /\ pid' = m
      /\ epq' = m
      /\ UNCHANGED at
  BY DEF Started
<1>4. child'[m] = "running" /\ \A x \in Masters \ {m} : child'[x] # "running"
  BY <1>1 DEF Started, TypeOK, SessionsOK
<1> QED
  BY <1>1, <1>2, <1>3, <1>4 DEF SessionsOK, Working

\* What a message of a master leads to: its session is closed, its program is
\* started (its own one, also after it was deployed), it is asked to deploy, or
\* only the buffers of its session change.
LEMMA InputCases ==
    ASSUME TypeOK, QueuesOK, ReadyOK, SessionsOK, OnAcceptedSocketInput
    PROVE  /\ Working /\ accepted.master \in Masters
           /\ Done("accepted", None, "IN")
           /\ ~Asks(sends'[accepted.master])
           /\ UNCHANGED <<got, late>>
           /\ \/ \E recv : CloseAcceptedSocket(recv)
              \/ ~accepted.p1 /\ Started(accepted.master, accepted.master)
              \/ /\ UNCHANGED <<linkVars, at, executing, pipes, pid, child>>
                 /\ accepted'.master = accepted.master
                 /\ accepted'.p1 = accepted.p1
                 /\ \/ /\ ~accepted.p1
                       /\ epq' = accepted.master
                       /\ accepted'.progress = "DO_DEPLOY"
                       /\ accepted'.out.kind = "DPQ"
                    \/ /\ epq' = epq
                       /\ accepted'.progress = accepted.progress
                       /\ \/ accepted'.out.kind = "ERROR"
                          \/ /\ accepted'.out = accepted.out
                             /\ accepted'.watch = accepted.watch
<1> DEFINE m == accepted.master
<1>1. PICK msg : /\ Reads(msg)
                 /\ ExecuteProgramRequest => msg = "EPQ"
  BY DEF OnAcceptedSocketInput, ExecuteProgramRequest, DeployProgramResponse,
         ReceivePart, ReceiveAfterPart, ReceiveEnd
<1>2. /\ Working /\ m \in Masters
      /\ Done("accepted", None, "IN")
      /\ ~Asks(sends'[m])
      /\ msg = "EPQ" => Asks(sends[m])
      /\ UNCHANGED <<got, late>>
  BY <1>1, ReadsMessage
<1>3. CASE \E recv : CloseAcceptedSocket(recv)
  BY <1>2, <1>3
<1>4. CASE ~accepted.p1 /\ ExecuteProgram(m, m)
  BY <1>2, <1>3, <1>4, ExecuteCases
<1>5. CASE ExecuteProgramRequest /\ ~ExecuteProgram(m, m)
  <2>1. ~accepted.p1
    BY <1>1, <1>2, <1>5 DEF SessionsOK
  <2>2. /\ epq' = m
        /\ accepted' = [accepted EXCEPT
                          !.out = [kind |-> "DPQ", tid |-> None],
                          !.progress = "DO_DEPLOY", !.watch = "OUT"]
        /\ UNCHANGED <<linkVars, at, executing, pipes, pid, child>>
    BY <1>5 DEF ExecuteProgramRequest
  <2>3. /\ accepted'.master = m /\ accepted'.p1 = accepted.p1
        /\ accepted'.progress = "DO_DEPLOY" /\ accepted'.out.kind = "DPQ"
    BY <2>2 DEF TypeOK
  <2> QED
    BY <1>2, <2>1, <2>2, <2>3
<1>6. CASE ExecuteProgramRequest /\ ExecuteProgram(m, m)
  BY <1>1, <1>2, <1>4, <1>6 DEF SessionsOK
<1>7. CASE DeployProgramResponse /\ accepted.progress # "DO_DEPLOY"
  BY <1>3, <1>7 DEF DeployProgramResponse, ProtoFails
<1>8. CASE /\ DeployProgramResponse /\ accepted.progress = "DO_DEPLOY"
           /\ ExecuteProgram(m, epq)
  BY <1>4, <1>8 DEF SessionsOK
<1>9. CASE /\ DeployProgramResponse /\ accepted.progress = "DO_DEPLOY"
           /\ ~ExecuteProgram(m, epq)
  <2>1. /\ accepted' = [accepted EXCEPT
                          !.out = [kind |-> "ERROR", tid |-> None],
                          !.watch = "OUT"]
        /\ UNCHANGED <<linkVars, at, programVars>>
    BY <1>9 DEF DeployProgramResponse
  <2>2. /\ accepted'.master = m /\ accepted'.p1 = accepted.p1
        /\ accepted'.progress = accepted.progress
        /\ accepted'.out.kind = "ERROR"
    BY <2>1 DEF TypeOK
  <2> QED
    BY <1>2, <2>1, <2>2 DEF programVars
<1>10. CASE ReceivePart
  <2>1. accepted' = [accepted EXCEPT !.recv = "part"]
    BY <1>10 DEF ReceivePart
  <2>2. /\ accepted'.master = m /\ accepted'.p1 = accepted.p1
        /\ accepted'.progress = accepted.progress
        /\ accepted'.out = accepted.out
        /\ accepted'.watch = accepted.watch
    BY <2>1 DEF TypeOK
  <2> QED
    BY <1>2, <1>10, <2>2 DEF ReceivePart, programVars
<1>11. CASE ReceiveAfterPart
  <2>1. CASE UNCHANGED <<linkVars, at, accepted, programVars>>
    BY <1>2, <2>1 DEF programVars
  <2> QED
    BY <1>3, <1>11, <2>1 DEF ReceiveAfterPart
<1>12. CASE ReceiveEnd
  BY <1>3, <1>12 DEF ReceiveEnd
<1> QED
  BY <1>5, <1>6, <1>7, <1>8, <1>9, <1>10, <1>11, <1>12
     DEF OnAcceptedSocketInput

\* What the master sends ends in a program of its own, or in none.
LEMMA SessionsInput ==
    ASSUME TypeOK, QueuesOK, ReadyOK, SessionsOK, OnAcceptedSocketInput
    PROVE  SessionsOK'
<1> DEFINE m == accepted.master
<1>1. Working /\ ~Asks(sends'[m])
  BY InputCases
<1>2. CASE \E recv : CloseAcceptedSocket(recv)
  BY <1>2, SessionsClosed
<1>3. CASE ~accepted.p1 /\ Started(m, m)
  BY <1>1, <1>3, SessionsStarted
<1>4. CASE /\ UNCHANGED <<linkVars, at, executing, pipes, pid, child>>
           /\ accepted'.master = m
           /\ accepted'.p1 = accepted.p1
           /\ \/ /\ ~accepted.p1
                 /\ epq' = m
                 /\ accepted'.progress = "DO_DEPLOY"
              \/ /\ epq' = epq
                 /\ accepted'.progress = accepted.progress
  BY <1>1, <1>4 DEF SessionsOK, Working
<1> QED
  BY <1>2, <1>3, <1>4, InputCases

\* When a child has been waited for nothing runs, and nothing is linked: had
\* the session been linked, its program would have been the child.
LEMMA SessionsWaited ==
    ASSUME TypeOK, SessionsOK, NEW m \in Masters, Waited(m),
           Answered(m) \/ NotAnswered, UNCHANGED masterVars
    PROVE  SessionsOK'
<1>1. /\ executing'.established = FALSE
      /\ executing'.p1 = FALSE
      /\ executing'.sock = executing.sock
      /\ UNCHANGED <<pid, epq>>
  BY DEF Waited, TypeOK
<1>2. \A x \in Masters : child'[x] # "running"
  <2>1. child[m] # "running" /\ pid \in {None, m}
    BY DEF Waited, MayWaitFor
  <2>2. \A x \in Masters \ {m} : child[x] # "running"
    BY <2>1 DEF SessionsOK
  <2> QED
    BY <2>2 DEF Waited, TypeOK
<1>3. ~accepted'.p1 /\ accepted'.master = accepted.master
  <2>1. CASE Answered(m)
    BY <2>1 DEF Answered, TypeOK
  <2>2. CASE NotAnswered
    <3>1. accepted.p1 => executing.p1 /\ Working
      BY DEF SessionsOK
    <3> QED
      BY <2>2, <3>1 DEF NotAnswered
  <2> QED
    BY <2>1, <2>2
<1>4. accepted'.progress \in {"WAITFOR_REQUEST", accepted.progress}
  BY DEF Answered, NotAnswered, TypeOK
<1>5. ~Working => UNCHANGED accepted
  BY DEF Answered, NotAnswered
<1> QED
  BY <1>1, <1>2, <1>3, <1>4, <1>5 DEF SessionsOK, Working, masterVars

\* Every step keeps the two sessions linked as long as a program has both.
LEMMA SessionsStep ==
    ASSUME TypeOK, QueuesOK, ReadyOK, SessionsOK, [Next]_vars
    PROVE  SessionsOK'
<1>1. CASE Environment
  <2>1. ASSUME NEW m \in Masters, Connect(m) PROVE SessionsOK'
    <3>1. Working => accepted.master # m
      BY <2>1 DEF Connect, SessionsOK
    <3>2. Working => /\ at'[accepted.master] = "served"
                     /\ sends'[accepted.master] = sends[accepted.master]
      BY <2>1, <3>1 DEF Connect, SessionsOK, TypeOK, QueuesOK, Working
    <3> QED
      BY <2>1, <3>2, SessionsLeft DEF Connect, programVars
  <2>2. ASSUME NEW m \in Masters, Deploy(m) PROVE SessionsOK'
    <3>1. Asks(Append(sends[m], "DPP")) => Asks(sends[m])
      BY AppendQueue DEF QueuesOK, Sent
    <3>2. \A x \in Masters : Asks(sends'[x]) => Asks(sends[x])
      BY <2>2, <3>1 DEF Deploy, QueuesOK
    <3>3. Working => accepted.master \in Masters
      BY DEF Working, TypeOK
    <3> QED
      BY <2>2, <3>2, <3>3, SessionsLeft DEF Deploy, programVars, SessionsOK
  <2>3. ASSUME NEW m \in Masters, Leave(m) PROVE SessionsOK'
    <3>1. Asks(Append(sends[m], "FIN")) => Asks(sends[m])
      BY AppendQueue DEF QueuesOK, Sent
    <3>2. sends[m] # <<>> =>
             (Asks(SubSeq(sends[m], 1, Len(sends[m]) - 1) \o <<"PART", "FIN">>)
                 => Asks(sends[m]))
      BY CutQueue DEF QueuesOK
    <3>3. \A x \in Masters : Asks(sends'[x]) => Asks(sends[x])
      BY <2>3, <3>1, <3>2 DEF Leave, QueuesOK
    <3>4. Working => accepted.master \in Masters
      BY DEF Working, TypeOK
    <3> QED
      BY <2>3, <3>3, <3>4, SessionsLeft DEF Leave, programVars, SessionsOK
  <2>4. ASSUME NEW m \in Masters, ProgramEnds(m) PROVE SessionsOK'
    <3>1. \A x \in Masters :
             /\ child'[x] = "running" => child[x] = "running"
             /\ child[x] \in {"running", "exited"} =>
                   child'[x] \in {"running", "exited"}
      BY <2>4 DEF ProgramEnds, TypeOK
    <3> QED
      BY <2>4, <3>1, SessionsLeft DEF ProgramEnds, masterVars, SessionsOK
  <2>5. ASSUME UNCHANGED <<masterVars, accepted, programVars>>
        PROVE  SessionsOK'
    BY <2>5, SessionsLeft DEF masterVars, programVars, SessionsOK
  <2> QED
    BY <1>1, <2>1, <2>2, <2>3, <2>4, <2>5
       DEF Environment, PeerSends, FallsSilent, TimePasses
<1>2. ASSUME UNCHANGED <<masterVars, accepted, programVars>>
      PROVE  SessionsOK'
  BY <1>2, SessionsLeft DEF masterVars, programVars, SessionsOK
<1>3. CASE Round
  BY <1>2, <1>3, RoundLinks
<1>4. ASSUME NEW r \in RServers,
             \/ OnConnectedSocketOutput(r)
             \/ OnConnectedSocketInput(r)
             \/ OnConnectedSocketError(r)
      PROVE  SessionsOK'
  BY <1>2, <1>4 DEF OnConnectedSocketOutput, OnConnectedSocketInput,
                    OnConnectedSocketError
<1>5. ASSUME NEW m \in Masters, OnListenSocketInput(m) PROVE SessionsOK'
  <2>1. at[m] = "queued" /\ UNCHANGED <<sends, got, programVars>>
    BY <1>5 DEF OnListenSocketInput
  <2>2. CASE TurnedAway(m)
    <3>1. at'[accepted.master] = "served"
      BY <2>1, <2>2 DEF TurnedAway, SessionsOK, TypeOK, Working
    <3> QED
      BY <2>1, <2>2, <3>1, SessionsLeft DEF TurnedAway, programVars
  <2>3. CASE Served(m)
    <3>1. /\ accepted'.master = m /\ accepted'.p1 = FALSE
          /\ accepted'.progress = "CLOSED"
      BY <2>3 DEF Served, SessionsOK, TypeOK
    <3>2. at'[m] = "served"
      BY <2>3 DEF Served, TypeOK
    <3> QED
      BY <2>1, <2>3, <3>1, <3>2 DEF Served, SessionsOK, Working, programVars
  <2> QED
    BY <1>5, <2>2, <2>3, ListenCases
<1>6. ASSUME NEW m \in Masters, OnWildSocketOutput(m) PROVE SessionsOK'
  <2>1. at[m] = "turned"
    BY <1>6 DEF OnWildSocketOutput, ReadyOK
  <2>2. Working => at'[accepted.master] = "served"
    BY <1>6, <2>1 DEF OnWildSocketOutput, SessionsOK, TypeOK, Working
  <2> QED
    BY <1>6, <2>2, SessionsLeft DEF OnWildSocketOutput, programVars
<1>7. ASSUME NEW t \in Masters, WaitProgramExiting(t) PROVE SessionsOK'
  <2>1. UNCHANGED masterVars
    BY <1>7 DEF WaitProgramExiting
  <2>2. CASE UNCHANGED <<linkVars, accepted, programVars>>
    BY <1>2, <2>1, <2>2
  <2> QED
    BY <1>7, <2>1, <2>2, WaitCases, SessionsWaited
<1>8. CASE OnAcceptedSocketInput
  BY <1>8, SessionsInput
<1>9. CASE OnAcceptedSocketOutput
  <2>1. CASE \E recv : CloseAcceptedSocket(recv)
    BY <2>1, SessionsClosed
  <2>2. CASE /\ accepted' = [accepted EXCEPT !.out = NoAnswer, !.watch = "IN"]
             /\ UNCHANGED <<linkVars, at, programVars>>
    <3>1. Working /\ UNCHANGED sends
      BY <1>9 DEF OnAcceptedSocketOutput, ReadyOK
    <3>2. /\ accepted'.master = accepted.master
          /\ accepted'.p1 = accepted.p1
          /\ accepted'.progress = accepted.progress
      BY <2>2 DEF TypeOK
    <3> QED
      BY <2>2, <3>1, <3>2 DEF SessionsOK, Working, programVars
  <2> QED
    BY <1>9, <2>1, <2>2 DEF OnAcceptedSocketOutput
<1>10. CASE UNCHANGED vars
  BY <1>2, <1>10 DEF vars
<1> QED
  BY <1>1, <1>3, <1>4, <1>5, <1>6, <1>7, <1>8, <1>9, <1>10
     DEF Next, Server, Handle

-----------------------------------------------------------------------------
(* Masters accepted while an earlier program had not been waited for.       *)

\* A step that leaves the sessions, the pid and the pipes, starts no program
\* and adds no event of a pipe.
LEMMA LateLeft ==
    ASSUME LateOK,
           accepted'.master = accepted.master,
           accepted'.p1 <=> accepted.p1,
           UNCHANGED <<executing, pipes, pid, late>>,
           \A m \in Masters :
              /\ child'[m] = "running" => child[m] = "running"
              /\ Handles("pipe", m, "IN")' => Handles("pipe", m, "IN")
    PROVE  LateOK'
  BY DEF LateOK, Working

\* The session of a master is closed: its program stays in executing_session
\* until it is waited for, and so do its pipe and, when it is not killed, pid.
LEMMA LateClosed ==
    ASSUME TypeOK, LateOK, UNCHANGED late, NEW recv, CloseAcceptedSocket(recv),
           \A m \in Masters :
              Handles("pipe", m, "IN")' => Handles("pipe", m, "IN")
    PROVE  LateOK'
<1>1. accepted'.master = None /\ UNCHANGED <<executing, pipes>>
  BY DEF CloseAcceptedSocket, TypeOK
<1>2. /\ pid' \in {pid, None}
      /\ \A m \in Masters : child'[m] = "running" => child[m] = "running"
  BY DEF CloseAcceptedSocket, KillChildProcess, TypeOK
<1> QED
  BY <1>1, <1>2 DEF LateOK, Working

\* A program is started, by a master that was not accepted too early, only
\* when the one before has been waited for.
LEMMA LateStarted ==
    ASSUME TypeOK, LateOK, UNCHANGED late, Working, ~accepted.p1,
           Started(accepted.master, accepted.master),
           \A m \in Masters :
              Handles("pipe", m, "IN")' => Handles("pipe", m, "IN")
    PROVE  LateOK'
<1> DEFINE m == accepted.master
<1>1. /\ accepted'.p1 = TRUE
      /\ executing'.established = TRUE
      /\ executing'.sock = m
      /\ pid' = m
      /\ pipes' = pipes \cup {m}
  BY DEF Started, TypeOK
<1>2. late = {} => /\ pipes = {}
                   /\ \A x \in Masters : ~Handles("pipe", x, "IN")
  BY DEF LateOK
<1> QED
  BY <1>1, <1>2 DEF LateOK, Working

\* A child has been waited for: executing_session and its pipe are closed.
LEMMA LateWaited ==
    ASSUME TypeOK, LateOK, UNCHANGED late,
           NEW t \in Masters, Handles("pipe", t, "IN"), Done("pipe", t, "IN"),
           NEW m \in Masters, Waited(m)
    PROVE  LateOK'
<1>1. executing'.established = FALSE /\ pipes' = Unwatched
  BY DEF Waited, TypeOK
<1>2. late = {} => pipes' = {}
  BY <1>1 DEF LateOK, Unwatched
<1>3. late = {} => \A x \in Masters : ~Handles("pipe", x, "IN")'
  BY DoneOne DEF LateOK
<1> QED
  BY <1>1, <1>2, <1>3 DEF LateOK

\* Every step: only the pipe of the present program is watched until a master
\* is accepted too early.
LEMMA LateStep ==
    ASSUME TypeOK, QueuesOK, ReadyOK, SessionsOK, LateOK, [Next]_vars
    PROVE  LateOK'
<1>1. CASE Environment
  <2>1. \A m \in Masters : child'[m] = "running" => child[m] = "running"
    BY <1>1 DEF Environment, Connect, Deploy, Leave, ProgramEnds, PeerSends,
                FallsSilent, TimePasses, programVars, TypeOK
  <2>2. UNCHANGED <<accepted, executing, pipes, pid, late, ready>>
    BY <1>1 DEF Environment, Connect, Deploy, Leave, ProgramEnds, PeerSends,
                FallsSilent, TimePasses, programVars
  <2> QED
    BY <2>1, <2>2, LateLeft DEF Handles
<1>2. ASSUME UNCHANGED <<accepted, programVars, late>>,
             \A m \in Masters :
                Handles("pipe", m, "IN")' => Handles("pipe", m, "IN")
      PROVE  LateOK'
  BY <1>2, LateLeft DEF programVars
<1>3. CASE Round
  <2>1. UNCHANGED <<accepted, programVars, late>>
    BY <1>3, RoundLinks
  <2>2. \A m \in Masters :
           Handles("pipe", m, "IN")' => m \in pipes /\ child[m] # "running"
    BY <1>3, RoundReady
  <2> QED
    BY <2>1, <2>2 DEF LateOK, Working, programVars
<1>4. ASSUME NEW r \in RServers,
             \/ OnConnectedSocketOutput(r)
             \/ OnConnectedSocketInput(r)
             \/ OnConnectedSocketError(r)
      PROVE  LateOK'
  <2>1. \A m \in Masters :
           Handles("pipe", m, "IN")' => Handles("pipe", m, "IN")
    BY <1>4, DoneOne DEF OnConnectedSocketOutput, OnConnectedSocketInput,
                         OnConnectedSocketError
  <2> QED
    BY <1>2, <1>4, <2>1 DEF OnConnectedSocketOutput, OnConnectedSocketInput,
                            OnConnectedSocketError
<1>5. ASSUME NEW m \in Masters, OnListenSocketInput(m) PROVE LateOK'
  <2>1. ready' = {} /\ UNCHANGED programVars
    BY <1>5 DEF OnListenSocketInput
  <2>2. \A x \in Masters : ~Handles("pipe", x, "IN")'
    BY <2>1 DEF Handles
  <2>3. CASE TurnedAway(m)
    BY <1>2, <2>1, <2>2, <2>3 DEF TurnedAway
  <2>4. CASE Served(m)
    <3>1. /\ accepted'.master = m
          /\ late' = IF executing.established THEN late \cup {m} ELSE late
      BY <2>4 DEF Served, TypeOK
    <3> QED
      BY <2>1, <2>2, <3>1 DEF LateOK, Working, programVars
  <2> QED
    BY <1>5, <2>3, <2>4, ListenCases
<1>6. ASSUME NEW m \in Masters, OnWildSocketOutput(m) PROVE LateOK'
  <2>1. \A x \in Masters :
           Handles("pipe", x, "IN")' => Handles("pipe", x, "IN")
    BY <1>6, DoneOne DEF OnWildSocketOutput
  <2> QED
    BY <1>2, <1>6, <2>1 DEF OnWildSocketOutput
<1>7. ASSUME NEW t \in Masters, WaitProgramExiting(t) PROVE LateOK'
  <2>1. /\ Handles("pipe", t, "IN") /\ Done("pipe", t, "IN")
        /\ UNCHANGED late
    BY <1>7 DEF WaitProgramExiting
  <2>2. CASE UNCHANGED <<linkVars, accepted, programVars>>
    BY <1>2, <2>1, <2>2, DoneOne
  <2> QED
    BY <1>7, <2>1, <2>2, WaitCases, LateWaited
<1>8. CASE OnAcceptedSocketInput
  <2> DEFINE m == accepted.master
  <2>1. Working /\ Done("accepted", None, "IN") /\ UNCHANGED late
    BY <1>8, InputCases
  <2>2. \A x \in Masters :
           Handles("pipe", x, "IN")' => Handles("pipe", x, "IN")
    BY <2>1, DoneOne
  <2>3. CASE \E recv : CloseAcceptedSocket(recv)
    BY <2>1, <2>2, <2>3, LateClosed
  <2>4. CASE ~accepted.p1 /\ Started(m, m)
    BY <2>1, <2>2, <2>4, LateStarted
  <2>5. CASE /\ UNCHANGED <<executing, pipes, pid, child>>
             /\ accepted'.master = m
             /\ accepted'.p1 = accepted.p1
    BY <2>1, <2>2, <2>5, LateLeft
  <2> QED
    BY <1>8, <2>3, <2>4, <2>5, InputCases
<1>9. CASE OnAcceptedSocketOutput
  <2>1. Done("accepted", None, "OUT") /\ UNCHANGED late
    BY <1>9 DEF OnAcceptedSocketOutput
  <2>2. \A x \in Masters :
           Handles("pipe", x, "IN")' => Handles("pipe", x, "IN")
    BY <2>1, DoneOne
  <2>3. CASE \E recv : CloseAcceptedSocket(recv)
    BY <2>1, <2>2, <2>3, LateClosed
  <2>4. CASE /\ accepted' = [accepted EXCEPT !.out = NoAnswer, !.watch = "IN"]
             /\ UNCHANGED <<linkVars, at, programVars>>
    <3>1. /\ accepted'.master = accepted.master
          /\ accepted'.p1 = accepted.p1
      BY <2>4 DEF TypeOK
    <3> QED
      BY <2>1, <2>2, <2>4, <3>1, LateLeft DEF programVars
  <2> QED
    BY <1>9, <2>3, <2>4 DEF OnAcceptedSocketOutput
<1>10. CASE UNCHANGED vars
  BY <1>2, <1>10 DEF vars, Handles
<1> QED
  BY <1>1, <1>3, <1>4, <1>5, <1>6, <1>7, <1>8, <1>9, <1>10
     DEF Next, Server, Handle

-----------------------------------------------------------------------------
(* Results.                                                                 *)

\* A result, as a master has it and as it waits to be sent.
OwnResults ==
    /\ \A m \in Masters :
          got[m].kind = "RESULT" => got[m].tid = m \/ m \in late
    /\ accepted.watch = "OUT" /\ accepted.out.kind = "RESULT" =>
          accepted.out.tid = accepted.master \/ accepted.master \in late

\* ResultUnlessLate, written out for the two places a result can be in.
LEMMA ResultsOwned == OwnResults <=> ResultUnlessLate
<1>1. \A p \in Results : OwnResults => p[1] = p[2] \/ p[1] \in late
  <2>1. ASSUME NEW m \in Masters, NEW p, p = <<m, got[m].tid>>,
               got[m].kind = "RESULT", OwnResults
        PROVE  p[1] = p[2] \/ p[1] \in late
    BY <2>1 DEF OwnResults
  <2>2. ASSUME NEW p, p = <<accepted.master, accepted.out.tid>>,
               accepted.watch = "OUT", accepted.out.kind = "RESULT", OwnResults
        PROVE  p[1] = p[2] \/ p[1] \in late
    BY <2>2 DEF OwnResults
  <2> QED
    BY <2>1, <2>2 DEF Results
<1>2. ASSUME ResultUnlessLate, NEW m \in Masters, got[m].kind = "RESULT"
      PROVE  got[m].tid = m \/ m \in late
  <2>1. <<m, got[m].tid>> \in Results
    BY <1>2 DEF Results
  <2> QED
    BY <1>2, <2>1 DEF ResultUnlessLate
<1>3. ASSUME ResultUnlessLate, accepted.watch = "OUT",
             accepted.out.kind = "RESULT"
      PROVE  accepted.out.tid = accepted.master \/ accepted.master \in late
  <2>1. <<accepted.master, accepted.out.tid>> \in Results
    BY <1>3 DEF Results
  <2> QED
    BY <1>3, <2>1 DEF ResultUnlessLate
<1> QED
  BY <1>1, <1>2, <1>3 DEF OwnResults, ResultUnlessLate

\* Every step: the result of a program goes to the master whose session is
\* linked with it; any other one that gets it was accepted too early.
LEMMA ResultStep ==
    ASSUME TypeOK, QueuesOK, ReadyOK, SessionsOK, LateOK, OwnResults,
           [Next]_vars
    PROVE  OwnResults'
<1>1. ASSUME UNCHANGED <<got, accepted, late>> PROVE OwnResults'
  BY <1>1 DEF OwnResults
<1>2. ASSUME UNCHANGED late, NEW m \in Masters, NEW a,
             got' = [got EXCEPT ![m] = a], a.kind # "RESULT",
             UNCHANGED accepted
      PROVE  OwnResults'
  BY <1>2 DEF OwnResults, TypeOK
<1>3. ASSUME UNCHANGED <<got, late>>, accepted'.watch # "OUT"
      PROVE  OwnResults'
  BY <1>3 DEF OwnResults
<1>4. ASSUME UNCHANGED <<got, late>>, accepted'.out.kind # "RESULT"
      PROVE  OwnResults'
  BY <1>4 DEF OwnResults
<1>5. ASSUME NEW recv, CloseAcceptedSocket(recv) PROVE accepted'.watch # "OUT"
  BY <1>5 DEF CloseAcceptedSocket, TypeOK
<1>6. CASE Environment
  <2>1. ASSUME NEW m \in Masters, Deploy(m) PROVE OwnResults'
    <3>1. got' = [got EXCEPT ![m] = NoAnswer] /\ UNCHANGED <<accepted, late>>
      BY <2>1 DEF Deploy
    <3>2. NoAnswer.kind # "RESULT"
      BY DEF NoAnswer
    <3> QED
      BY <1>2, <3>1, <3>2
  <2> QED
    BY <1>1, <1>6, <2>1 DEF Environment, Connect, Leave, ProgramEnds, PeerSends,
                            FallsSilent, TimePasses, masterVars
<1>7. CASE Round
  BY <1>1, <1>7, RoundLinks DEF masterVars
<1>8. ASSUME NEW r \in RServers,
             \/ OnConnectedSocketOutput(r)
             \/ OnConnectedSocketInput(r)
             \/ OnConnectedSocketError(r)
      PROVE  OwnResults'
  BY <1>1, <1>8 DEF OnConnectedSocketOutput, OnConnectedSocketInput,
                    OnConnectedSocketError, masterVars
<1>9. ASSUME NEW m \in Masters, OnListenSocketInput(m) PROVE OwnResults'
  <2>1. UNCHANGED got
    BY <1>9 DEF OnListenSocketInput
  <2>2. CASE TurnedAway(m)
    BY <1>1, <2>1, <2>2 DEF TurnedAway
  <2>3. CASE Served(m)
    <3>1. accepted'.watch = "IN" /\ late \subseteq late'
      BY <2>3 DEF Served, TypeOK
    <3> QED
      BY <2>1, <3>1 DEF OwnResults
  <2> QED
    BY <1>9, <2>2, <2>3, ListenCases
<1>10. ASSUME NEW m \in Masters, OnWildSocketOutput(m) PROVE OwnResults'
  <2>1. /\ got' = [got EXCEPT ![m] = [kind |-> "EJECT", tid |-> None]]
        /\ UNCHANGED <<accepted, late>>
    BY <1>10 DEF OnWildSocketOutput
  <2>2. [kind |-> "EJECT", tid |-> None].kind # "RESULT"
    OBVIOUS
  <2> QED
    BY <1>2, <2>1, <2>2
<1>11. ASSUME NEW t \in Masters, WaitProgramExiting(t) PROVE OwnResults'
  <2>1. UNCHANGED <<got, late>>
    BY <1>11 DEF WaitProgramExiting, masterVars
  <2>2. CASE UNCHANGED accepted
    BY <1>1, <2>1, <2>2
  <2>3. ASSUME NEW m \in Masters, Waited(m), Answered(m)
        PROVE  OwnResults'
    <3>1. /\ accepted'.out = Outcome(m)
          /\ accepted'.master = accepted.master
      BY <2>3 DEF Answered, TypeOK
    <3>2. Outcome(m).kind = "RESULT" => Outcome(m).tid = epq
      BY DEF Outcome
    <3>3. epq = accepted.master \/ accepted.master \in late
      BY <2>3 DEF Answered, SessionsOK, LateOK
    <3> QED
      BY <2>1, <3>1, <3>2, <3>3 DEF OwnResults
  <2> QED
    BY <1>11, <2>2, <2>3, WaitCases DEF NotAnswered
<1>12. CASE OnAcceptedSocketInput
  <2>1. UNCHANGED <<got, late>>
    BY <1>12, InputCases
  <2>2. CASE \E recv : CloseAcceptedSocket(recv)
    BY <1>3, <1>5, <2>1, <2>2
  <2>3. CASE Started(accepted.master, accepted.master)
    <3>1. accepted'.out = NoAnswer
      BY <2>3 DEF Started, TypeOK
    <3> QED
      BY <1>4, <2>1, <3>1 DEF NoAnswer
  <2>4. CASE accepted'.out.kind \in {"DPQ", "ERROR"}
    BY <1>4, <2>1, <2>4
  <2>5. CASE /\ accepted'.out = accepted.out
             /\ accepted'.watch = accepted.watch
             /\ accepted'.master = accepted.master
    BY <2>1, <2>5 DEF OwnResults
  <2> QED
    BY <1>12, <2>2, <2>3, <2>4, <2>5, InputCases
<1>13. CASE OnAcceptedSocketOutput
  <2> DEFINE m == accepted.master
  <2>1. UNCHANGED late /\ m \in Masters /\ accepted.watch = "OUT"
    BY <1>13 DEF OnAcceptedSocketOutput, ReadyOK, Working, TypeOK
  <2>2. CASE (\E recv : CloseAcceptedSocket(recv)) /\ UNCHANGED got
    BY <1>3, <1>5, <2>1, <2>2
  <2>3. CASE /\ got' = [got EXCEPT ![m] = accepted.out]
             /\ accepted' = [accepted EXCEPT !.out = NoAnswer, !.watch = "IN"]
    <3>1. accepted'.watch = "IN"
      BY <2>3 DEF TypeOK
    <3>2. got'[m] = accepted.out /\ \A x \in Masters \ {m} : got'[x] = got[x]
      BY <2>1, <2>3 DEF TypeOK
    <3> QED
      BY <2>1, <3>1, <3>2 DEF OwnResults
  <2> QED
    BY <1>13, <2>2, <2>3 DEF OnAcceptedSocketOutput
<1>14. CASE UNCHANGED vars
  BY <1>1, <1>14 DEF vars, masterVars
<1> QED
  BY <1>6, <1>7, <1>8, <1>9, <1>10, <1>11, <1>12, <1>13, <1>14
     DEF Next, Server, Handle

-----------------------------------------------------------------------------
(* What the register servers are told.                                      *)

\* What the functions of a session to a register server do to its state and
\* to its buffer: a connection is closed, ...
LEMMA ClosedFields ==
    ASSUME NEW c \in Link, NEW d, d = Closed(c)
    PROVE  d.flag = "closed" /\ d.progress = "CLOSED"
  BY DEF Closed, Link

\* ... begun, ...
LEMMA ConnectedFields ==
    ASSUME NEW c \in Link, NEW result \in {"ok", "in progress"},
           NEW d, d = Connected(c, result)
    PROVE  /\ d.flag # "closed"
           /\ d.progress # "REGISTED"
           /\ d.progress = "CONNECTED" => d.out = "WRQ"
<1>1. CASE result = "ok"
  BY <1>1 DEF Connected, Registering, Link
<1>2. CASE result = "in progress"
  BY <1>2 DEF Connected, Link
<1> QED
  BY <1>1, <1>2

\* ... written to, and asked for a heartbeat.
LEMMA LinkFields ==
    ASSUME NEW c \in Link
    PROVE  /\ c.progress = "CLOSED" =>
                 /\ Output(c).flag = c.flag
                 /\ Output(c).progress = "CONNECTED"
                 /\ Output(c).out = "WRQ"
           /\ c.progress # "CLOSED" =>
                 /\ Output(c).flag = c.flag
                 /\ Output(c).progress = c.progress
                 /\ Output(c).out = "NONE"
           /\ HeartBeatRequest(c).flag # "closed" =>
                 /\ HeartBeatRequest(c).flag = c.flag
                 /\ HeartBeatRequest(c).progress = c.progress
                 /\ HeartBeatRequest(c).out \in {c.out, "HBQ"}
  BY DEF Closed, Output, Registering, HeartBeatRequest, Link

\* What a message of a register server does.
LEMMA InputFields ==
    ASSUME NEW c \in Link, NEW msg \in Heard
    PROVE  \/ Input(c, msg) = Closed(c)
           \/ /\ Input(c, msg).flag = c.flag
              /\ Input(c, msg).progress \in {c.progress, "REGISTED"}
              /\ Input(c, msg).out \in {"NONE", "HBP"}
  BY DEF Input, Heard, Link

\* What is known of the connection c to one register server, that was told
\* and is at the other end or not.
LinkOK(c, toldit, works) ==
    /\ c.flag = "closed" => c.progress = "CLOSED"
    /\ c.flag # "closed" /\ c.progress # "REGISTED" => toldit # "working"
    /\ c.progress = "CONNECTED" => c.out \notin Notices
    /\ c.progress = "REGISTED" /\ c.out = "WNQ working" => works

Truth(c, up, toldit, works, repl) ==
    c.progress = "REGISTED" /\ up /\ toldit = "working" =>
        works \/ c.out \in Notices \/ repl

\* A step that leaves the connections and what is known of the work.
LEMMA LinksLeft ==
    ASSUME LinksOK, TruthUnlessReplaced,
           UNCHANGED <<link, told, replaced>>,
           \A r \in RServers : peer'[r] = "up" => peer[r] = "up",
           Working' <=> Working
    PROVE  LinksOK' /\ TruthUnlessReplaced'
  BY DEF LinksOK, TruthUnlessReplaced

\* A notice tells what is so from now on.
LEMMA LinksNoticed ==
    ASSUME TypeOK, LinksOK, NEW working \in BOOLEAN,
           SendWorkerNotice(working), Working' <=> working
    PROVE  LinksOK' /\ TruthUnlessReplaced'
<1> SUFFICES ASSUME NEW r \in RServers
             PROVE  /\ LinkOK(link'[r], told'[r], Working')
                    /\ Truth(link'[r], peer'[r] = "up", told'[r], Working',
                             r \in replaced')
  BY DEF LinksOK, TruthUnlessReplaced, LinkOK, Truth
<1> DEFINE c == link[r]
<1>1. c \in Link /\ link'[r] = Noticed(c, working) /\ told'[r] = told[r]
  BY DEF SendWorkerNotice, TypeOK
<1>2. LinkOK(c, told[r], Working)
  BY DEF LinksOK, LinkOK
<1>3. CASE c.progress = "REGISTED"
  <2>1. /\ link'[r].flag = c.flag
        /\ link'[r].progress = "REGISTED"
        /\ link'[r].out = IF working THEN "WNQ working" ELSE "WNQ idle"
    BY <1>1, <1>3 DEF Noticed, Link
  <2> QED
    BY <1>1, <1>2, <1>3, <2>1 DEF LinkOK, Truth, Notices
<1>4. CASE c.progress # "REGISTED"
  <2>1. link'[r] = c
    BY <1>1, <1>4 DEF Noticed
  <2> QED
    BY <1>1, <1>2, <1>4, <2>1 DEF LinkOK, Truth
<1> QED
  BY <1>3, <1>4

\* A step on the connection to one register server.
LEMMA LinksOne ==
    ASSUME TypeOK, LinksOK, TruthUnlessReplaced, NEW r \in RServers,
           \A s \in RServers \ {r} :
              /\ link'[s] = link[s] /\ told'[s] = told[s]
              /\ peer'[s] = peer[s] /\ (s \in replaced => s \in replaced'),
           LinkOK(link'[r], told'[r], Working),
           Truth(link'[r], peer'[r] = "up", told'[r], Working, r \in replaced'),
           UNCHANGED accepted
    PROVE  LinksOK' /\ TruthUnlessReplaced'
  BY DEF LinksOK, TruthUnlessReplaced, LinkOK, Truth, Working

\* What is sent arrives: a register server is told of work only by a notice,
\* and the notice is true.
LEMMA LinksOutput ==
    ASSUME TypeOK, ReadyOK, LinksOK, TruthUnlessReplaced, NEW r \in RServers,
           OnConnectedSocketOutput(r)
    PROVE  LinksOK' /\ TruthUnlessReplaced'
<1> DEFINE c == link[r]
           d == Output(c)
<1>1. c \in Link /\ c.flag # "closed"
  BY DEF OnConnectedSocketOutput, ReadyOK, TypeOK
<1>2. /\ link' = [link EXCEPT ![r] = d]
      /\ UNCHANGED <<peer, replaced, accepted>>
  BY DEF OnConnectedSocketOutput
<1>3. link'[r] = d /\ \A s \in RServers \ {r} : link'[s] = link[s]
  BY <1>2 DEF TypeOK
<1>4. /\ LinkOK(c, told[r], Working)
      /\ Truth(c, peer[r] = "up", told[r], Working, r \in replaced)
  BY DEF LinksOK, TruthUnlessReplaced, LinkOK, Truth
<1>5. CASE c.progress = "CLOSED" \/ peer[r] # "up"
  <2>1. UNCHANGED told
    BY <1>5 DEF OnConnectedSocketOutput
  <2>2. LinkOK(d, told[r], Working)
    BY <1>1, <1>4, LinkFields DEF LinkOK, Notices
  <2>3. Truth(d, peer[r] = "up", told[r], Working, r \in replaced)
    BY <1>1, <1>5, LinkFields DEF Truth
  <2> QED
    BY <1>2, <1>3, <2>1, <2>2, <2>3, LinksOne
<1>6. CASE ~(c.progress = "CLOSED" \/ peer[r] # "up")
  <2>1. PICK a \in Hears(r, c.out) : told' = [told EXCEPT ![r] = a[2]]
    BY <1>6 DEF OnConnectedSocketOutput
  <2>2. told'[r] = a[2] /\ \A s \in RServers \ {r} : told'[s] = told[s]
    BY <2>1 DEF TypeOK
  <2>3. \/ a[2] # "working"
        \/ c.out = "WNQ working" /\ a[2] = "working"
        \/ c.out \notin Notices /\ a[2] = told[r]
    <3>1. faults \in 0..MaxFaults
      BY DEF TypeOK
    <3> QED
      BY <3>1, HearsOne DEF Notices
  <2>4. d.flag = c.flag /\ d.progress = c.progress /\ d.out = "NONE"
    BY <1>1, <1>6, LinkFields
  <2>5. c.out = "WNQ working" => c.progress = "REGISTED" /\ Working
    <3>1. c.progress \in {"CONNECTED", "REGISTED"}
      BY <1>1, <1>6 DEF Link, Progresses
    <3> QED
      BY <1>4, <3>1 DEF LinkOK, Notices
  <2>6. LinkOK(d, a[2], Working)
    BY <1>1, <1>4, <2>3, <2>4, <2>5 DEF LinkOK, Notices
  <2>7. Truth(d, peer[r] = "up", a[2], Working, r \in replaced)
    BY <1>4, <1>6, <2>3, <2>4, <2>5 DEF Truth
  <2> QED
    BY <1>2, <1>3, <2>2, <2>6, <2>7, LinksOne
<1> QED
  BY <1>5, <1>6

\* A message is read: one that takes the place of a notice is remembered.
LEMMA LinksInput ==
    ASSUME TypeOK, QueuesOK, ReadyOK, LinksOK, TruthUnlessReplaced,
           NEW r \in RServers, OnConnectedSocketInput(r)
    PROVE  LinksOK' /\ TruthUnlessReplaced'
<1> DEFINE c == link[r]
           d == Input(c, Head(from_peer[r]))
<1>1. c \in Link /\ c.flag # "closed" /\ Head(from_peer[r]) \in Heard
  <2>1. from_peer[r] \in Seq(Heard) /\ from_peer[r] # <<>>
    BY DEF OnConnectedSocketInput, ReadyOK, QueuesOK
  <2> QED
    BY <2>1 DEF OnConnectedSocketInput, ReadyOK, TypeOK
<1>2. /\ link' = [link EXCEPT ![r] = d]
      /\ replaced' = IF Replaces(link'[r], c) THEN replaced \cup {r} ELSE replaced
      /\ peer' = [peer EXCEPT ![r] = IF link'[r].flag = "closed" THEN "none"
                                                                 ELSE @]
      /\ UNCHANGED <<told, accepted>>
  BY DEF OnConnectedSocketInput
<1>3. link'[r] = d /\ \A s \in RServers \ {r} : link'[s] = link[s]
  BY <1>2 DEF TypeOK
<1>4. /\ LinkOK(c, told[r], Working)
      /\ Truth(c, peer[r] = "up", told[r], Working, r \in replaced)
  BY DEF LinksOK, TruthUnlessReplaced, LinkOK, Truth
<1>5. /\ peer'[r] = "up" => peer[r] = "up"
      /\ \A s \in RServers \ {r} : peer'[s] = peer[s]
  BY <1>2 DEF TypeOK
<1>6. /\ Replaces(d, c) => r \in replaced'
      /\ \A s \in RServers : s \in replaced => s \in replaced'
  BY <1>2, <1>3
<1>7. /\ LinkOK(d, told[r], Working)
      /\ Truth(d, peer'[r] = "up", told[r], Working, r \in replaced')
  <2>1. CASE d = Closed(c)
    <3>1. d.flag = "closed" /\ d.progress = "CLOSED"
      BY <1>1, <2>1, ClosedFields
    <3> QED
      BY <3>1 DEF LinkOK, Truth
  <2>2. CASE /\ d.flag = c.flag
             /\ d.progress \in {c.progress, "REGISTED"}
             /\ d.out \in {"NONE", "HBP"}
    BY <1>1, <1>4, <1>5, <1>6, <2>2 DEF LinkOK, Truth, Notices, Replaces
  <2> QED
    BY <1>1, <2>1, <2>2, InputFields
<1> QED
  BY <1>2, <1>3, <1>5, <1>6, <1>7, LinksOne

\* A round sends a heartbeat, which may take the place of a notice, or begins
\* with a new connection, on which nothing was told.
LEMMA LinksRound ==
    ASSUME TypeOK, LinksOK, TruthUnlessReplaced, Round
    PROVE  LinksOK' /\ TruthUnlessReplaced'
<1> SUFFICES ASSUME NEW r \in RServers
             PROVE  /\ LinkOK(link'[r], told'[r], Working)
                    /\ Truth(link'[r], peer'[r] = "up", told'[r], Working,
                             r \in replaced')
  <2>1. UNCHANGED accepted
    BY RoundLinks
  <2> QED
    BY <2>1 DEF LinksOK, TruthUnlessReplaced, LinkOK, Truth, Working
<1> DEFINE c == link[r]
           d == HeartBeatRequest(c)
<1>1. c \in Link /\ d \in Link
  BY LinkTypes DEF TypeOK
<1>2. /\ LinkOK(c, told[r], Working)
      /\ Truth(c, peer[r] = "up", told[r], Working, r \in replaced)
  BY DEF LinksOK, TruthUnlessReplaced, LinkOK, Truth
<1>3. CASE d.flag # "closed"
  <2>1. /\ link'[r] = d
        /\ peer'[r] = peer[r]
        /\ told'[r] = told[r]
        /\ r \in replaced \/ Replaces(d, c) => r \in replaced'
    BY <1>3, RoundLinks
  <2>2. d.flag = c.flag /\ d.progress = c.progress /\ d.out \in {c.out, "HBQ"}
    BY <1>1, <1>3, LinkFields
  <2> QED
    BY <1>2, <1>3, <2>1, <2>2 DEF LinkOK, Truth, Notices, Replaces
<1>4. CASE d.flag = "closed"
  <2>1. told'[r] = "nothing"
    BY <1>4, RoundLinks
  <2>2. PICK result \in {"ok", "in progress"} : link'[r] = Connected(d, result)
    BY <1>4, RoundLinks
  <2>3. /\ link'[r].flag # "closed"
        /\ link'[r].progress # "REGISTED"
        /\ link'[r].progress = "CONNECTED" => link'[r].out = "WRQ"
    BY <1>1, <2>2, ConnectedFields
  <2> QED
    BY <2>1, <2>3 DEF LinkOK, Truth, Notices
<1> QED
  BY <1>3, <1>4

\* Every step keeps the connections to the register servers in step with what
\* they were told.
LEMMA LinksStep ==
    ASSUME TypeOK, QueuesOK, ReadyOK, SessionsOK, LinksOK, TruthUnlessReplaced,
           [Next]_vars
    PROVE  LinksOK' /\ TruthUnlessReplaced'
<1>1. ASSUME UNCHANGED <<linkVars, accepted>>
      PROVE  LinksOK' /\ TruthUnlessReplaced'
  BY <1>1, LinksLeft DEF linkVars, Working
<1>2. ASSUME NEW recv, CloseAcceptedSocket(recv)
      PROVE  LinksOK' /\ TruthUnlessReplaced'
  <2>1. SendWorkerNotice(FALSE) /\ accepted'.master = None
    BY <1>2 DEF CloseAcceptedSocket, TypeOK
  <2> QED
    BY <2>1, LinksNoticed DEF Working
<1>3. ASSUME Working, Started(accepted.master, accepted.master)
      PROVE  LinksOK' /\ TruthUnlessReplaced'
  <2>1. SendWorkerNotice(TRUE) /\ accepted'.master = accepted.master
    BY <1>3 DEF Started, TypeOK
  <2> QED
    BY <1>3, <2>1, LinksNoticed DEF Working
<1>4. ASSUME UNCHANGED linkVars, accepted'.master = accepted.master
      PROVE  LinksOK' /\ TruthUnlessReplaced'
  BY <1>4, LinksLeft DEF linkVars, Working
<1>5. CASE Environment
  <2>1. ASSUME NEW r \in RServers, NEW msg, PeerSends(r, msg)
        PROVE  LinksOK' /\ TruthUnlessReplaced'
    <3>1. \A s \in RServers : peer'[s] = "up" => peer[s] = "up"
      BY <2>1 DEF PeerSends, TypeOK
    <3> QED
      BY <2>1, <3>1, LinksLeft DEF PeerSends, Working
  <2>2. ASSUME NEW r \in RServers, FallsSilent(r)
        PROVE  LinksOK' /\ TruthUnlessReplaced'
    <3>1. \A s \in RServers : peer'[s] = "up" => peer[s] = "up"
      BY <2>2 DEF FallsSilent, TypeOK
    <3> QED
      BY <2>2, <3>1, LinksLeft DEF FallsSilent, Working
  <2>3. ASSUME NEW r \in RServers, TimePasses(r)
        PROVE  LinksOK' /\ TruthUnlessReplaced'
    <3>1. \A s \in RServers : /\ link'[s].flag = link[s].flag
                              /\ link'[s].progress = link[s].progress
                              /\ link'[s].out = link[s].out
      BY <2>3 DEF TimePasses, TypeOK, Link
    <3>2. UNCHANGED <<peer, told, replaced, accepted>>
      BY <2>3 DEF TimePasses
    <3> QED
      BY <3>1, <3>2 DEF LinksOK, TruthUnlessReplaced, Working
  <2>4. ASSUME NEW m \in Masters,
               Connect(m) \/ Deploy(m) \/ Leave(m) \/ ProgramEnds(m)
        PROVE  LinksOK' /\ TruthUnlessReplaced'
    BY <1>1, <2>4 DEF Connect, Deploy, Leave, ProgramEnds
  <2> QED
    BY <1>5, <2>1, <2>2, <2>3, <2>4 DEF Environment
<1>6. CASE Round
  BY <1>6, LinksRound
<1>7. ASSUME NEW r \in RServers, OnConnectedSocketError(r)
      PROVE  LinksOK' /\ TruthUnlessReplaced'
  <2>1. /\ link' = [link EXCEPT ![r] = Closed(link[r])]
        /\ peer' = [peer EXCEPT ![r] = "none"]
        /\ UNCHANGED <<told, replaced, accepted>>
    BY <1>7 DEF OnConnectedSocketError
  <2>2. /\ link[r] \in Link
        /\ link'[r] = Closed(link[r])
        /\ \A s \in RServers \ {r} : link'[s] = link[s] /\ peer'[s] = peer[s]
    BY <2>1 DEF TypeOK
  <2>3. /\ LinkOK(link'[r], told'[r], Working)
        /\ Truth(link'[r], peer'[r] = "up", told'[r], Working, r \in replaced')
    <3>1. link'[r].flag = "closed" /\ link'[r].progress = "CLOSED"
      BY <2>2, ClosedFields
    <3> QED
      BY <3>1 DEF LinkOK, Truth
  <2> QED
    BY <2>1, <2>2, <2>3, LinksOne
<1>8. ASSUME NEW m \in Masters, OnListenSocketInput(m)
      PROVE  LinksOK' /\ TruthUnlessReplaced'
  <2>1. CASE TurnedAway(m)
    BY <1>1, <2>1 DEF TurnedAway
  <2>2. CASE Served(m)
    <3>1. SendWorkerNotice(TRUE) /\ accepted'.master = m
      BY <2>2 DEF Served, TypeOK
    <3> QED
      BY <3>1, LinksNoticed DEF Working
  <2> QED
    BY <1>8, <2>1, <2>2, ListenCases
<1>9. ASSUME NEW m \in Masters, OnWildSocketOutput(m)
      PROVE  LinksOK' /\ TruthUnlessReplaced'
  BY <1>1, <1>9 DEF OnWildSocketOutput
<1>10. ASSUME NEW t \in Masters, WaitProgramExiting(t)
       PROVE  LinksOK' /\ TruthUnlessReplaced'
  <2>1. CASE UNCHANGED <<linkVars, accepted, programVars>>
    BY <1>1, <2>1
  <2>2. ASSUME NEW m \in Masters, Waited(m), Answered(m) \/ NotAnswered
        PROVE  LinksOK' /\ TruthUnlessReplaced'
    <3>1. accepted'.master = accepted.master
      BY ZenonT(60), <2>2 DEF Answered, NotAnswered, TypeOK
    <3>2. SendWorkerNotice(Working) /\ Working \in BOOLEAN
      BY <2>2 DEF Waited, Working
    <3>3. Working' <=> Working
      BY <3>1 DEF Working
    <3> QED
      BY <3>2, <3>3, LinksNoticed
  <2> QED
    BY <1>10, <2>1, <2>2, WaitCases
<1>11. CASE OnAcceptedSocketInput
  BY <1>2, <1>3, <1>4, <1>11, InputCases
<1>12. CASE OnAcceptedSocketOutput
  <2>1. CASE \E recv : CloseAcceptedSocket(recv)
    BY <1>2, <2>1
  <2>2. CASE /\ accepted' = [accepted EXCEPT !.out = NoAnswer, !.watch = "IN"]
             /\ UNCHANGED linkVars
    <3>1. accepted'.master = accepted.master
      BY <2>2 DEF TypeOK
    <3> QED
      BY <1>4, <2>2, <3>1
  <2> QED
    BY <1>12, <2>1, <2>2 DEF OnAcceptedSocketOutput
<1>13. CASE UNCHANGED vars
  BY <1>1, <1>13 DEF vars
<1> QED
  BY <1>5, <1>6, <1>7, <1>8, <1>9, <1>10, <1>11, <1>12, <1>13,
     LinksOutput, LinksInput DEF Next, Server, Handle

-----------------------------------------------------------------------------
(* The theorems.                                                            *)

\* A server that has just started.
LEMMA InitOK == Init => WorkerInv
<1> SUFFICES ASSUME Init PROVE WorkerInv
  OBVIOUS
<1> USE DEF Init
<1>1. NewLink \in Link
  BY LinkValues DEF NewLink, Link
<1>2. TypeOK
  BY <1>1, AcceptedValues DEF TypeOK, NoSession
<1>3. Queue(<<>>)
  BY DEF Queue
<1>4. QueuesOK
  BY <1>3 DEF QueuesOK
<1>5. ReadyOK
  BY DEF ReadyOK, Handles
<1>6. SessionsOK
  BY DEF SessionsOK, Working, NoSession
<1>7. LateOK
  BY DEF LateOK, Handles
<1>8. LinksOK
  BY DEF LinksOK, NewLink, Notices
<1>9. OwnResults
  BY DEF OwnResults, NoAnswer, NoSession
<1>10. TruthUnlessReplaced
  BY DEF TruthUnlessReplaced
<1> QED
  BY <1>2, <1>4, <1>5, <1>6, <1>7, <1>8, <1>9, <1>10, ResultsOwned
     DEF WorkerInv

\* The inductive invariant holds in every state.
LEMMA WorkerInvHolds == Spec => []WorkerInv
<1>1. Init => WorkerInv
  BY InitOK
<1>2. WorkerInv /\ [Next]_vars => WorkerInv'
  <2> SUFFICES ASSUME WorkerInv, [Next]_vars PROVE WorkerInv'
    OBVIOUS
  <2>1. /\ TypeOK /\ QueuesOK /\ ReadyOK /\ SessionsOK /\ LateOK /\ LinksOK
        /\ TruthUnlessReplaced
        /\ OwnResults
    BY ResultsOwned DEF WorkerInv
  <2>2. TypeOK' /\ QueuesOK'
    BY <2>1, TypeStep
  <2>3. ReadyOK'
    BY <2>1, ReadyStep
  <2>4. SessionsOK'
    BY <2>1, SessionsStep
  <2>5. LateOK'
    BY <2>1, LateStep
  <2>6. LinksOK' /\ TruthUnlessReplaced'
    BY <2>1, LinksStep
  <2>7. ResultUnlessLate'
    <3>1. OwnResults'
      BY <2>1, ResultStep
    <3>2. (OwnResults <=> ResultUnlessLate)'
      BY ResultsOwned, PTL
    <3> QED
      BY <3>1, <3>2
  <2> QED
    BY <2>2, <2>3, <2>4, <2>5, <2>6, <2>7 DEF WorkerInv
<1> QED
  BY <1>1, <1>2, PTL DEF Spec

\* The variables of the worker server keep their types, for any masters and
\* register servers: in particular a count of lost heartbeats never passes
\* MAXCNT_HEARTBEAT_LOST by more than one.
THEOREM WorkerTypeCorrect == Spec => []TypeOK
<1>1. WorkerInv => TypeOK
  BY DEF WorkerInv
<1> QED
  BY <1>1, WorkerInvHolds, PTL

\* A program runs only as long as its master is connected, and one at a time:
\* comm_CloseAcceptedSocket takes the program with the master.
THEOREM ProgramAlwaysHasItsMaster == Spec => []ProgramHasItsMaster
<1>1. WorkerInv => ProgramHasItsMaster
  BY DEF WorkerInv, SessionsOK, ProgramHasItsMaster
<1> QED
  BY <1>1, WorkerInvHolds, PTL

\* The kill in comm_CloseAcceptedSocket never hits the program of another
\* master, nor the process group of the server, which is pid 0.
THEOREM KillAlwaysHitsItsProgram == Spec => []KillsItsProgram
<1>1. WorkerInv => KillsItsProgram
  BY DEF WorkerInv, SessionsOK, KillsItsProgram
<1> QED
  BY <1>1, WorkerInvHolds, PTL

\* Only a master that was accepted before an earlier program had been waited
\* for can get the result of another task.
THEOREM ResultsAreOwnUnlessLate == Spec => []ResultUnlessLate
<1>1. WorkerInv => ResultUnlessLate
  BY DEF WorkerInv
<1> QED
  BY <1>1, WorkerInvHolds, PTL

\* Unless there was such a master the server never waits for a program that
\* still runs.
THEOREM NeverWaitsUnlessLate == Spec => []WaitsOnlyIfLate
<1>1. WorkerInv => WaitsOnlyIfLate
  BY DEF WorkerInv, LateOK, WaitsOnlyIfLate
<1> QED
  BY <1>1, WorkerInvHolds, PTL

\* What a register server was told of work is true, or about to be corrected,
\* unless an input or a heartbeat took the place of a notice.
THEOREM TruthAlwaysUnlessReplaced == Spec => []TruthUnlessReplaced
<1>1. WorkerInv => TruthUnlessReplaced
  BY DEF WorkerInv
<1> QED
  BY <1>1, WorkerInvHolds, PTL
=============================================================================
