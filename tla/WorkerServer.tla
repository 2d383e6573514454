---------------------------- MODULE WorkerServer ----------------------------
(***************************************************************************)
(* A worker server, its program and its masters (src/src/wserver).         *)
(*                                                                         *)
(* The server is one process around epoll_wait: every round it connects    *)
(* what is closed to the register servers, handles the events it was given *)
(* (ready) one after the other, and looks after the heartbeats.  It has    *)
(* one session for a master (accepted), turns every other master away      *)
(* (turned), and one for the info pipe of the program it executes          *)
(* (executing).  The environment: masters that connect, ask, deploy and go *)
(* away, programs that end, and register servers that answer, close or     *)
(* fall silent.                                                            *)
(*                                                                         *)
(* A master connects once, so its name stands for its task, for the child  *)
(* that executes it and for the pipe of that child.                        *)
(***************************************************************************)
EXTENDS WorkerLink, Sequences, FiniteSets

CONSTANTS
    Masters,        \* the connections of masters
    RServers,       \* the register servers
    None,           \* no master, no child, no task
    MayCut,         \* whether a master may go away inside a message
    MaxFaults       \* bound: the connections to register servers that fail

ASSUME WorkerConstants ==
    /\ None \notin Masters
    /\ MayCut \in BOOLEAN
    /\ MaxFaults \in Nat

VARIABLES
    link,       \* connect_session[r]
    peer,       \* what is at the other end of it
    from_peer,  \* what the register server sent and is not read
    told,       \* what the register server was last told on this connection
    replaced,   \* history: a notice was replaced before it was sent
    faults,     \* the faults so far
    at,         \* where the connection of a master is
    sends,      \* what a master sent and is not read
    got,        \* what a master got and has not acted upon
    accepted,   \* accepted_session
    executing,  \* executing_session
    pipes,      \* the pipes epoll watches with executing_session
    pid,        \* the child in pid, None for 0
    epq,        \* the task in epq
    child,      \* what became of the child of a task
    ready,      \* the events of this round that are not handled yet
    late        \* history: masters accepted while an earlier program had not
                \* been waited for

linkVars == <<link, peer, from_peer, told, replaced, faults>>
masterVars == <<at, sends, got>>
programVars == <<executing, pipes, pid, epq, child>>
vars == <<linkVars, masterVars, accepted, programVars, ready, late>>

ConnProgress == {"CLOSED", "WAITFOR_REQUEST", "DO_DEPLOY", "DO_EXECUTE"}

NoAnswer == [kind |-> "NONE", tid |-> None]

\* An EPP: with error 0 it carries the tid of epq, otherwise none.
Answers == [kind : {"NONE", "DPQ", "EJECT", "ERROR", "RESULT"},
            tid : Masters \cup {None}]

NoSession ==
    [master |-> None, progress |-> "CLOSED", recv |-> "clean",
     out |-> NoAnswer, watch |-> "NONE", p1 |-> FALSE]

Working == accepted.master # None

Init ==
    /\ link = [r \in RServers |-> NewLink]
    /\ peer = [r \in RServers |-> "none"]
    /\ from_peer = [r \in RServers |-> <<>>]
    /\ told = [r \in RServers |-> "nothing"]
    /\ replaced = {}
    /\ faults = 0
    /\ at = [m \in Masters |-> "away"]
    /\ sends = [m \in Masters |-> <<>>]
    /\ got = [m \in Masters |-> NoAnswer]
    /\ accepted = NoSession
    /\ executing = [established |-> FALSE, sock |-> None, p1 |-> FALSE]
    /\ pipes = {}
    /\ pid = None
    /\ epq = None
    /\ child = [m \in Masters |-> "none"]
    /\ ready = {}
    /\ late = {}

-----------------------------------------------------------------------------
(* Masters: the API connects, asks, deploys what it is asked for, and       *)
(* closes after its answer, a time-out or at its end.                       *)

Connect(m) ==
    /\ at[m] = "away"
    /\ at' = [at EXCEPT ![m] = "queued"]
    /\ sends' = [sends EXCEPT ![m] = <<"EPQ">>]
    /\ UNCHANGED <<linkVars, got, accepted, programVars, ready, late>>

Deploy(m) ==
    /\ got[m].kind = "DPQ"
    /\ got' = [got EXCEPT ![m] = NoAnswer]
    /\ sends' = [sends EXCEPT ![m] = Append(@, "DPP")]
    /\ UNCHANGED <<linkVars, at, accepted, programVars, ready, late>>

\* The last message may have been cut off.
Leave(m) ==
    /\ at[m] \in {"queued", "served"}
    /\ "FIN" \notin {sends[m][i] : i \in 1..Len(sends[m])}
    /\ \/ sends' = [sends EXCEPT ![m] = Append(@, "FIN")]
       \/ /\ MayCut /\ sends[m] # <<>>
          /\ sends' = [sends EXCEPT ![m] =
                         SubSeq(@, 1, Len(@) - 1) \o <<"PART", "FIN">>]
    /\ UNCHANGED <<linkVars, at, got, accepted, programVars, ready, late>>

Left(m) == sends[m] # <<>> /\ sends[m][Len(sends[m])] = "FIN"

(* Programs.                                                                *)
ProgramEnds(m) ==
    /\ child[m] = "running"
    /\ child' = [child EXCEPT ![m] = "exited"]
    /\ UNCHANGED <<linkVars, masterVars, accepted, executing, pipes, pid, epq,
                   ready, late>>

\* An event of this round is handled next.
Handles(on, who, kind) == [on |-> on, who |-> who, kind |-> kind] \in ready

(* Register servers and the clock.                                          *)
PeerSends(r, msg) ==
    /\ peer[r] = "up"
    /\ from_peer[r] = <<>>
    /\ \/ msg = "HBQ" /\ told[r] # "nothing"
       \/ msg = "FIN" /\ faults < MaxFaults
    /\ from_peer' = [from_peer EXCEPT ![r] = <<msg>>]
    /\ IF msg = "FIN" THEN /\ faults' = faults + 1
                           /\ peer' = [peer EXCEPT ![r] = "none"]
                      ELSE UNCHANGED <<faults, peer>>
    /\ UNCHANGED <<link, told, replaced, masterVars, accepted, programVars,
                   ready, late>>

\* The network no longer carries anything.
FallsSilent(r) ==
    /\ faults < MaxFaults
    /\ peer[r] = "up"
    /\ faults' = faults + 1
    /\ peer' = [peer EXCEPT ![r] = "silent"]
    /\ UNCHANGED <<link, from_peer, told, replaced, masterVars, accepted,
                   programVars, ready, late>>

\* SEND_HEARTBEAT_INTERVAL passes while the server waits, with nothing to
\* send, or waits for a program.
TimePasses(r) ==
    /\ link[r].flag = "established"
    /\ \/ link[r].watch = "IN"
       \/ \E m \in Masters :
            Handles("pipe", m, "IN") /\ pid # None /\ child[pid] = "running"
    /\ ~link[r].idle
    /\ link' = [link EXCEPT ![r].idle = TRUE]
    /\ UNCHANGED <<peer, from_peer, told, replaced, faults, masterVars,
                   accepted, programVars, ready, late>>

-----------------------------------------------------------------------------
(* server(): one round.                                                     *)

\* What epoll_wait gives: a pipe is ready when its child is gone.
Event == [on : {"listen", "accepted"}, who : {None}, kind : {"IN", "OUT"}]
         \cup [on : {"pipe", "turned"}, who : Masters, kind : {"IN", "OUT"}]
         \cup [on : {"link"}, who : RServers, kind : {"IN", "OUT"}]

Ready(e) ==
    \/ e.on = "listen" /\ e.kind = "IN" /\ \E m \in Masters : at[m] = "queued"
    \/ /\ e.on = "accepted" /\ Working /\ e.kind = accepted.watch
       /\ e.kind = "IN" => sends[accepted.master] # <<>>
    \/ /\ e.on = "pipe" /\ e.who \in pipes /\ e.kind = "IN"
       /\ child[e.who] # "running"
    \/ e.on = "turned" /\ at[e.who] = "turned" /\ e.kind = "OUT"
    \/ /\ e.on = "link" /\ e.kind = link[e.who].watch
       /\ e.kind = "IN" => from_peer[e.who] # <<>>

\* app_HeartBeatRequest at the end of a round, epoll_wait, and the connections
\* that are made before its events are handled.
Round ==
    /\ ready = {}
    /\ LET beaten == [r \in RServers |-> HeartBeatRequest(link[r])]
           lost == {r \in RServers : beaten[r].flag = "closed"}
       IN \E result \in [lost -> {"ok", "in progress"}] :
            /\ link' = [r \in RServers |->
                          IF r \in lost THEN Connected(beaten[r], result[r])
                                        ELSE beaten[r]]
            /\ peer' = [r \in RServers |->
                          IF r \in lost THEN "up" ELSE peer[r]]
            /\ from_peer' = [r \in RServers |->
                               IF r \in lost THEN <<>> ELSE from_peer[r]]
            /\ told' = [r \in RServers |->
                          IF r \in lost THEN "nothing" ELSE told[r]]
            /\ replaced' = {r \in RServers \ lost :
                              r \in replaced \/ Replaces(beaten[r], link[r])}
            /\ ready' = {e \in Event :
                           Ready(e) /\ (e.on = "link" => e.who \notin lost)}
    /\ UNCHANGED <<faults, masterVars, accepted, programVars, late>>

Done(on, who, kind) ==
    ready' = ready \ {[on |-> on, who |-> who, kind |-> kind]}

\* app_SendWorkerNotice, after a change that leaves the server working or not.
SendWorkerNotice(working) ==
    /\ link' = [r \in RServers |-> Noticed(link[r], working)]
    /\ UNCHANGED <<peer, from_peer, told, replaced, faults>>

-----------------------------------------------------------------------------
(* The connections to the register servers.                                 *)

Hears(r, msg) ==
    CASE msg = "WRQ" ->
            {<<"WRP", "idle">>} \cup
            IF faults < MaxFaults THEN {<<"WRP error", "nothing">>} ELSE {}
      [] msg = "HBQ" -> {<<"HBP", told[r]>>}
      [] msg = "WNQ idle" -> {<<"", "idle">>}
      [] msg = "WNQ working" -> {<<"", "working">>}
      [] OTHER -> {<<"", told[r]>>}

\* What is sent reaches a register server that is up, which answers it.
OnConnectedSocketOutput(r) ==
    /\ Handles("link", r, "OUT")
    /\ Done("link", r, "OUT")
    /\ link' = [link EXCEPT ![r] = Output(@)]
    /\ IF link[r].progress = "CLOSED" \/ peer[r] # "up"
       THEN UNCHANGED <<from_peer, told, faults>>
       ELSE \E a \in Hears(r, link[r].out) :
              /\ told' = [told EXCEPT ![r] = a[2]]
              /\ from_peer' = [from_peer EXCEPT ![r] =
                                 IF a[1] = "" THEN @ ELSE Append(@, a[1])]
              /\ faults' = IF a[1] = "WRP error" THEN faults + 1 ELSE faults
    /\ UNCHANGED <<peer, replaced, masterVars, accepted, programVars, late>>

\* comm_OnConnectedSocketError, which a connection can have instead of what it
\* is watched for, and the error of AsyncCompleteConnectedSocket.
OnConnectedSocketError(r) ==
    /\ faults < MaxFaults
    /\ \E kind \in {"IN", "OUT"} :
         Handles("link", r, kind) /\ Done("link", r, kind)
    /\ faults' = faults + 1
    /\ link' = [link EXCEPT ![r] = Closed(@)]
    /\ peer' = [peer EXCEPT ![r] = "none"]
    /\ from_peer' = [from_peer EXCEPT ![r] = <<>>]
    /\ UNCHANGED <<told, replaced, masterVars, accepted, programVars, late>>

OnConnectedSocketInput(r) ==
    /\ Handles("link", r, "IN")
    /\ Done("link", r, "IN")
    /\ link' = [link EXCEPT ![r] = Input(@, Head(from_peer[r]))]
    /\ replaced' = IF Replaces(link'[r], link[r]) THEN replaced \cup {r}
                                                 ELSE replaced
    /\ from_peer' = [from_peer EXCEPT ![r] = IF link'[r].flag = "closed"
                                             THEN <<>> ELSE Tail(@)]
    /\ peer' = [peer EXCEPT ![r] = IF link'[r].flag = "closed" THEN "none"
                                                               ELSE @]
    /\ UNCHANGED <<told, faults, masterVars, accepted, programVars, late>>

-----------------------------------------------------------------------------
(* Masters.                                                                 *)

\* AcceptSocket into accepted_session, whose buffers are as they were.
AcceptSocket(m) == [accepted EXCEPT !.master = m, !.watch = "IN"]

\* comm_OnListenSocketInput; the events after it are left for the next round.
OnListenSocketInput(m) ==
    /\ Handles("listen", None, "IN")
    /\ at[m] = "queued"
    /\ ready' = {}
    /\ IF Working
       THEN /\ at' = [at EXCEPT ![m] = "turned"]
            /\ UNCHANGED <<linkVars, accepted, late>>
       ELSE /\ at' = [at EXCEPT ![m] = "served"]
            /\ accepted' = AcceptSocket(m)
            /\ late' = IF executing.established THEN late \cup {m} ELSE late
            /\ SendWorkerNotice(TRUE)
    /\ UNCHANGED <<sends, got, programVars>>

\* comm_OnWildSocketOutput, and its error when the master is gone.
OnWildSocketOutput(m) ==
    /\ Handles("turned", m, "OUT")
    /\ Done("turned", m, "OUT")
    /\ at' = [at EXCEPT ![m] = "closed"]
    /\ got' = [got EXCEPT ![m] = [kind |-> "EJECT", tid |-> None]]
    /\ UNCHANGED <<linkVars, sends, accepted, programVars, late>>

\* Mutant: the program goes on when its master is gone.
KillNobody == UNCHANGED <<child, pid>>

\* KillChildProcess: SIGTERM, which the program may turn into an end of its
\* own, and two seconds later SIGKILL.
KillChildProcess ==
    IF accepted.p1 /\ executing.established
    THEN /\ pid' = None
         /\ \E how \in {"killed", "exited"} :
              child' = [m \in Masters |->
                          IF m = pid /\ child[m] = "running" THEN how
                                                             ELSE child[m]]
    ELSE UNCHANGED <<child, pid>>

\* Mutant: the session stays linked with the one of the program.
CloseLinked(recv) ==
    /\ KillChildProcess
    /\ accepted' = [accepted EXCEPT !.master = None, !.progress = "CLOSED",
                                    !.watch = "NONE", !.recv = recv]
    /\ at' = [at EXCEPT ![accepted.master] = "closed"]
    /\ SendWorkerNotice(FALSE)
    /\ UNCHANGED <<executing, pipes>>

\* comm_CloseAcceptedSocket.  CloseSocket leaves the buffers as they are.
CloseAcceptedSocket(recv) ==
    /\ KillChildProcess
    /\ accepted' = [accepted EXCEPT !.master = None, !.progress = "CLOSED",
                                    !.watch = "NONE", !.p1 = FALSE,
                                    !.recv = recv]
    /\ at' = [at EXCEPT ![accepted.master] = "closed"]
    /\ SendWorkerNotice(FALSE)
    /\ UNCHANGED <<executing, pipes>>

\* proto fails: the session is closed without AfterDoProtocol, so the message
\* stays in recv_buffer, and what is in send_buffer is not sent.
ProtoFails == CloseAcceptedSocket("refused")

\* app_ExecuteProgram: pipe or fork fails, or the child is started.
ExecuteProgram(m, task) ==
    \/ ProtoFails /\ epq' = task
    \/ /\ accepted' = [accepted EXCEPT !.out = NoAnswer,
                                       !.progress = "DO_EXECUTE", !.p1 = TRUE]
       /\ executing' = [established |-> TRUE, sock |-> m, p1 |-> TRUE]
       /\ pipes' = pipes \cup {m}
       /\ pid' = m
       /\ child' = [child EXCEPT ![m] = "running"]
       /\ epq' = task
       /\ SendWorkerNotice(TRUE)
       /\ UNCHANGED at

Reads(msg) ==
    /\ Handles("accepted", None, "IN")
    /\ Done("accepted", None, "IN")
    /\ Head(sends[accepted.master]) = msg
    /\ sends' = [sends EXCEPT ![accepted.master] = Tail(@)]
    /\ UNCHANGED <<got, late>>

\* Mutant: the request is kept only when its program is here.
RequestForgotten ==
    /\ Reads("EPQ")
    /\ accepted.recv = "clean"
    /\ \/ ExecuteProgram(accepted.master, accepted.master)
       \/ /\ accepted' = [accepted EXCEPT
                            !.out = [kind |-> "DPQ", tid |-> None],
                            !.progress = "DO_DEPLOY", !.watch = "OUT"]
          /\ UNCHANGED <<linkVars, at, programVars>>

\* app_ExecuteProgramRequest: the program is here, or has to be deployed.  A
\* session is in its WAITFOR_REQUEST, which has the value of CLOSED, since a
\* master asks once.
ExecuteProgramRequest ==
    /\ Reads("EPQ")
    /\ accepted.recv = "clean"
    /\ \/ ExecuteProgram(accepted.master, accepted.master)
       \/ /\ epq' = accepted.master
          /\ accepted' = [accepted EXCEPT
                            !.out = [kind |-> "DPQ", tid |-> None],
                            !.progress = "DO_DEPLOY", !.watch = "OUT"]
          /\ UNCHANGED <<linkVars, at, executing, pipes, pid, child>>

\* app_DeployProgramResponse: another state of the session is an error, the
\* program may not get stored, or is executed.
DeployProgramResponse ==
    /\ Reads("DPP")
    /\ accepted.recv = "clean"
    /\ IF accepted.progress # "DO_DEPLOY"
       THEN ProtoFails /\ UNCHANGED epq
       ELSE \/ ExecuteProgram(accepted.master, epq)
            \/ /\ accepted' = [accepted EXCEPT
                                 !.out = [kind |-> "ERROR", tid |-> None],
                                 !.watch = "OUT"]
               /\ UNCHANGED <<linkVars, at, programVars>>

\* Part of a message: it stays in the buffer.
ReceivePart ==
    /\ Reads("PART")
    /\ accepted.recv = "clean"
    /\ accepted' = [accepted EXCEPT !.recv = "part"]
    /\ UNCHANGED <<linkVars, at, programVars>>

\* Behind a part the header, or the message, is made of the bytes of two
\* masters: it is refused, or more bytes are waited for.  Behind a message or
\* header that was refused, which is whole, recv takes nothing for the end of
\* the connection, or the header is refused again.
ReceiveAfterPart ==
    /\ \E msg \in {"EPQ", "DPP", "PART"} : Reads(msg)
    /\ accepted.recv # "clean"
    /\ \/ CloseAcceptedSocket("refused") /\ UNCHANGED epq
       \/ /\ accepted.recv = "part"
          /\ UNCHANGED <<linkVars, at, accepted, programVars>>

\* The end of the connection, in or after a message.
ReceiveEnd ==
    /\ Reads("FIN")
    /\ CloseAcceptedSocket(accepted.recv)
    /\ UNCHANGED epq

\* comm_OnAcceptedSocketOutput, and its error when the master is gone.
OnAcceptedSocketOutput ==
    LET m == accepted.master IN
    /\ Handles("accepted", None, "OUT")
    /\ Done("accepted", None, "OUT")
    /\ \/ /\ got' = [got EXCEPT ![m] = accepted.out]
          /\ accepted' = [accepted EXCEPT !.out = NoAnswer, !.watch = "IN"]
          /\ UNCHANGED <<linkVars, at, programVars>>
       \/ /\ Left(m)
          /\ CloseAcceptedSocket(accepted.recv)
          /\ UNCHANGED <<epq, got>>
    /\ UNCHANGED <<sends, late>>

-----------------------------------------------------------------------------
(* The end of a program.                                                    *)

\* waitpid( pid ): any child when pid is 0.
MayWaitFor(m) ==
    child[m] \in {"exited", "killed"} /\ pid \in {None, m}

\* There is no such child: app_WaitProgramExiting returns.
NoChild ==
    \A m \in Masters : pid \in {None, m} => child[m] \in {"none", "reaped"}

\* proto_ExecuteProgramResponse after waitpid.
Outcome(m) ==
    IF child[m] = "killed" THEN [kind |-> "ERROR", tid |-> None]
                           ELSE [kind |-> "RESULT", tid |-> epq]

\* Mutant: the answer is put into the buffer and not sent.
AnswerUnsent(m) ==
    IF executing.p1 /\ Working
    THEN accepted' = [accepted EXCEPT !.progress = "WAITFOR_REQUEST",
                                      !.out = Outcome(m), !.p1 = FALSE]
    ELSE UNCHANGED accepted

\* The master that is there gets the answer.
Answer(m) ==
    IF executing.p1 /\ Working
    THEN accepted' = [accepted EXCEPT !.progress = "WAITFOR_REQUEST",
                                      !.out = Outcome(m), !.watch = "OUT",
                                      !.p1 = FALSE]
    ELSE UNCHANGED accepted

\* Mutant: the pipe is closed by nobody.
StillWatched == pipes

\* DeleteSockFromEpoll and CloseSocketSilently of executing_session.
Unwatched ==
    IF executing.established THEN pipes \ {executing.sock} ELSE pipes

\* comm_OnInfoPipeInput at the end of a pipe and app_WaitProgramExiting.  The
\* pipe of an earlier program may be watched still: the read from the pipe of
\* the present one fails and has the server wait for it.
WaitProgramExiting(t) ==
    /\ Handles("pipe", t, "IN")
    /\ Done("pipe", t, "IN")
    /\ \/ NoChild /\ UNCHANGED <<linkVars, accepted, programVars>>
       \/ \E m \in Masters :
            /\ MayWaitFor(m)
            /\ child' = [child EXCEPT ![m] = "reaped"]
            /\ Answer(m)
            /\ executing' = [executing EXCEPT !.established = FALSE,
                                              !.p1 = FALSE]
            /\ pipes' = Unwatched
            /\ SendWorkerNotice(Working)
            /\ UNCHANGED <<pid, epq>>
    /\ UNCHANGED <<masterVars, late>>

-----------------------------------------------------------------------------
OnAcceptedSocketInput ==
    \/ ExecuteProgramRequest
    \/ DeployProgramResponse
    \/ ReceivePart
    \/ ReceiveAfterPart
    \/ ReceiveEnd

Handle ==
    \/ \E r \in RServers :
         \/ OnConnectedSocketOutput(r)
         \/ OnConnectedSocketInput(r)
         \/ OnConnectedSocketError(r)
    \/ \E m \in Masters :
         \/ OnListenSocketInput(m)
         \/ OnWildSocketOutput(m)
         \/ WaitProgramExiting(m)
    \/ OnAcceptedSocketInput
    \/ OnAcceptedSocketOutput

Server == Round \/ Handle

Environment ==
    \/ \E m \in Masters : Connect(m) \/ Deploy(m) \/ Leave(m) \/ ProgramEnds(m)
    \/ \E r \in RServers :
         \/ \E msg \in {"HBQ", "FIN"} : PeerSends(r, msg)
         \/ FallsSilent(r)
         \/ TimePasses(r)

Next == Server \/ Environment

Spec == Init /\ [][Next]_vars

\* The server is one process that never leaves its loop; programs end; masters
\* send what they are asked for and go away in the end; time passes.
FairSpec ==
    /\ Spec
    /\ WF_vars(Round)
    /\ WF_vars(Handle)
    /\ \A m \in Masters :
         /\ WF_vars(ProgramEnds(m))
         /\ WF_vars(Deploy(m))
         /\ WF_vars(got[m].kind \in {"EJECT", "ERROR", "RESULT"} /\ Leave(m))
    /\ \A r \in RServers : WF_vars(TimePasses(r))

-----------------------------------------------------------------------------
(* Properties.                                                              *)

\* The variables have their types.
TypeOK ==
    /\ link \in [RServers -> Link]
    /\ peer \in [RServers -> {"none", "up", "silent"}]
    /\ told \in [RServers -> {"nothing", "idle", "working"}]
    /\ replaced \subseteq RServers
    /\ faults \in 0..MaxFaults
    /\ at \in [Masters -> {"away", "queued", "served", "turned", "closed"}]
    /\ got \in [Masters -> Answers]
    /\ accepted \in [master : Masters \cup {None}, progress : ConnProgress,
                     recv : {"clean", "part", "refused"}, out : Answers,
                     watch : {"NONE", "IN", "OUT"}, p1 : BOOLEAN]
    /\ executing \in [established : BOOLEAN, sock : Masters \cup {None},
                      p1 : BOOLEAN]
    /\ pipes \subseteq Masters
    /\ pid \in Masters \cup {None}
    /\ epq \in Masters \cup {None}
    /\ child \in [Masters -> {"none", "running", "killed", "exited", "reaped"}]
    /\ ready \subseteq Event
    /\ late \subseteq Masters

\* A program runs only as long as the connection of its master is there, and
\* one at a time: a master that goes away takes its program with it.
ProgramHasItsMaster ==
    \A m \in Masters : child[m] = "running" => accepted.master = m /\ pid = m

\* When the close of the master's connection would kill, it kills the program
\* of that master or what is left of it: never the program of another one,
\* and never pid 0, the process group of the server itself.
KillsItsProgram ==
    Working /\ accepted.p1 /\ executing.established =>
        /\ pid = accepted.master
        /\ child[pid] \in {"running", "exited"}

\* What a master gets as a result.
Results ==
    {<<m, got[m].tid>> : m \in {x \in Masters : got[x].kind = "RESULT"}}
    \cup IF accepted.watch = "OUT" /\ accepted.out.kind = "RESULT"
         THEN {<<accepted.master, accepted.out.tid>>} ELSE {}

\* A master gets the result of its own task, unless it was accepted before the
\* program of an earlier master had been waited for.
ResultUnlessLate == \A p \in Results : p[1] = p[2] \/ p[1] \in late

\* The server waits, with waitpid, for a program that still runs only when the
\* pipe of an earlier program is watched; otherwise its heartbeats and its
\* answers to masters never wait for a program.
WaitsOnlyIfLate ==
    \A t \in Masters :
        Handles("pipe", t, "IN") =>
            \/ child[t] # "running" /\ pid \in {None, t}
            \/ late # {}

\* When a register server that hears what it is told was told that the worker
\* works, it works or is about to say something else; unless an input or a
\* heartbeat took the place of a notice.
TruthUnlessReplaced ==
    \A r \in RServers :
        link[r].progress = "REGISTED" /\ peer[r] = "up" /\ told[r] = "working" =>
            Working \/ link[r].out \in Notices \/ r \in replaced

\* A master that asks is answered or turned away, or goes away; unless the
\* buffer holds a part of what an earlier one sent, or a message that was
\* refused, its own included.
MasterAnswered ==
    \A m \in Masters :
        at[m] = "queued" ~>
            \/ got[m].kind \in {"EJECT", "ERROR", "RESULT"}
            \/ Left(m)
            \/ accepted.recv # "clean"

\* The worker is registered again and again, whatever becomes of the
\* connection; unless a connection that was in progress falls silent, which
\* no heartbeat watches.
RegistersAgain ==
    \A r \in RServers :
        []<>(\/ link[r].progress = "REGISTED" /\ peer[r] = "up"
             \/ link[r].flag = "opened" /\ peer[r] = "silent")
=============================================================================
