--------------------------- MODULE RegisterServer ---------------------------
(***************************************************************************)
(* The register server (src/src/rserver): one epoll loop over the          *)
(* connections of workers, masters and people, the registry those ask      *)
(* about, and the parent process that forks the server again 10 seconds    *)
(* after it ended.                                                         *)
(*                                                                         *)
(* An event of the loop is one step, but for a query, which takes one step *)
(* per worker it finds; query holds it meanwhile and no other event is     *)
(* handled.  The clients are the environment: a worker server keeps one    *)
(* connection, registers on it, tells when it becomes busy or idle and     *)
(* exchanges heartbeats; visitors are masters that query, and people with  *)
(* a browser or telnet.  A connection is a session of the server           *)
(* (accepted_session_array): what the client has sent and the server has   *)
(* not read is its inbox, and what the server has answered and not sent    *)
(* its send_buffer.  A worker server has one send_buffer too, where what   *)
(* it says next takes the place of what it has not sent yet.               *)
(***************************************************************************)
EXTENDS Registry

CONSTANTS
    Visitors,       \* the clients that are not workers
    Sessions,       \* the MAXCOUNT_ACCEPTED_SESSION sessions
    Counts,         \* the counts masters ask for, -1 is no limit
    NodesSize,      \* the most workers an answer can hold
    Turning,        \* bound: the workers that get masters
    Watched,        \* bound: the workers that heartbeats are sent to
    Beating,        \* bound: the workers that send heartbeats of their own
    MaxInbox,       \* bound: the messages under way on a connection
    MaxFaults,      \* bound: connections lost or closed by a client, accepts
                    \* that fail, and answers to heartbeats that are replaced
    None

ASSUME ServerConstants ==
    /\ Workers \cap Visitors = {}
    /\ Counts \subseteq Nat \cup {-1}
    /\ NodesSize \in Nat
    /\ Turning \subseteq Workers
    /\ Watched \subseteq Workers
    /\ Beating \subseteq Workers
    /\ MaxInbox \in Nat
    /\ MaxFaults \in Nat
    /\ None \notin Workers \cup Visitors \cup Sessions

Clients == Workers \cup Visitors

MAXCNT_HEARTBEAT_LOST == 3

VARIABLES
    up,           \* "up", or how the server process ended
    registry,
    accepted,     \* the client of a session, None if the session is unused
    node,         \* the worker that p1, p2 and p3 of a session point to; not
                  \* None is also what type = SESSIONTYPE_WORKER means
    heartbeat_lost_count,
    send_buffer,  \* the answer in a session's send_buffer
    inbox,        \* what the client has sent on a session
    query,        \* the query being answered
    link,         \* the session a client is connected to
    progress,     \* connect_session.progress of a worker server
    busy,         \* whether a worker server has a master
    unsent,       \* what is in the send_buffer of a worker server
    faults        \* the faults so far

registerVars == <<registry, query>>
sessionVars == <<accepted, node, heartbeat_lost_count, send_buffer, inbox>>
clientVars == <<link, progress, busy, unsent>>

vars == <<up, registerVars, sessionVars, clientVars, faults>>

-----------------------------------------------------------------------------
Asking == [session : Sessions, os : OsTypes, count : Counts,
           nodes : Seq(Workers)]

NoQuery == None

WRQ == [type |-> "WRQ"]
HBQ == [type |-> "HBQ"]
HBP == [type |-> "HBP"]
WNQ(working) == [type |-> "WNQ", is_working |-> working]
QWQ(o, n) == [type |-> "QWQ", os |-> o, count |-> n]
CLOSED == [type |-> "CLOSED"]   \* the end of file between two messages
BROKEN == [type |-> "BROKEN"]   \* the end of file inside one

Notices == {WNQ(b) : b \in BOOLEAN}

\* What a worker server may have to send, besides WRQ.
Outputs == {HBQ, HBP} \cup Notices

Messages == {WRQ, CLOSED, BROKEN} \cup Outputs
                \cup {QWQ(o, n) : o \in OsTypes, n \in Counts}

\* The answers: WRP with error 0 and with an error, QWP, HBQ, HBP.
Answers == {"WRP", "WRP_ERROR", "QWP", "HBQ", "HBP"}

\* What stands for no query, no answer and nothing to send is none of them.
ASSUME NoneIsNothing == None \notin Asking \cup Answers \cup Outputs

TypeOK ==
    /\ up \in {"up", "exited", "core"}
    /\ registry \in Registry
    /\ accepted \in [Sessions -> Clients \cup {None}]
    /\ node \in [Sessions -> Workers \cup {None}]
    /\ heartbeat_lost_count \in [Sessions -> 0..(MAXCNT_HEARTBEAT_LOST + 1)]
    /\ send_buffer \in [Sessions -> Answers \cup {None}]
    /\ inbox \in [Sessions -> Seq(Messages)]
    /\ query \in Asking \cup {NoQuery}
    /\ link \in [Clients -> Sessions \cup {None}]
    /\ progress \in [Workers -> {"CLOSED", "CONNECTED", "REGISTED"}]
    /\ busy \in [Workers -> BOOLEAN]
    /\ unsent \in [Workers -> Outputs \cup {None}]
    /\ faults \in 0..MaxFaults

Init ==
    /\ up = "up"
    /\ registry = EmptyRegistry
    /\ accepted = [s \in Sessions |-> None]
    /\ node = [s \in Sessions |-> None]
    /\ heartbeat_lost_count = [s \in Sessions |-> 0]
    /\ send_buffer = [s \in Sessions |-> None]
    /\ inbox = [s \in Sessions |-> <<>>]
    /\ query = NoQuery
    /\ link = [c \in Clients |-> None]
    /\ progress = [w \in Workers |-> "CLOSED"]
    /\ busy = [w \in Workers |-> FALSE]
    /\ unsent = [w \in Workers |-> None]
    /\ faults = 0

-----------------------------------------------------------------------------
(* How the process ends, and starts again (main.c).                         *)

\* The process is gone, with its sessions and its registry: every client
\* reads the end of its connection.
Ends(how) ==
    /\ up' = how
    /\ registry' = EmptyRegistry
    /\ accepted' = [s \in Sessions |-> None]
    /\ node' = [s \in Sessions |-> None]
    /\ heartbeat_lost_count' = [s \in Sessions |-> 0]
    /\ send_buffer' = [s \in Sessions |-> None]
    /\ inbox' = [s \in Sessions |-> <<>>]
    /\ query' = NoQuery
    /\ link' = [c \in Clients |-> None]
    /\ progress' = [w \in Workers |-> "CLOSED"]
    /\ unsent' = [w \in Workers |-> None]
    /\ UNCHANGED busy

ForkAgain ==
    /\ up # "up"
    /\ up' = "up"
    /\ UNCHANGED <<registerVars, sessionVars, clientVars, faults>>

NextEvent == up = "up" /\ query = NoQuery

-----------------------------------------------------------------------------
(* comm_CloseAcceptedSocket                                                 *)

\* Mutant: app_WorkerUnregister is not called.
SessionDropped(s) ==
    /\ accepted' = [accepted EXCEPT ![s] = None]
    /\ node' = [node EXCEPT ![s] = None]
    /\ heartbeat_lost_count' = [heartbeat_lost_count EXCEPT ![s] = 0]
    /\ send_buffer' = [send_buffer EXCEPT ![s] = None]
    /\ inbox' = [inbox EXCEPT ![s] = <<>>]
    /\ UNCHANGED registry

\* The worker of the session is unregistered and the session reset.
CloseAcceptedSocket(s) ==
    /\ registry' = IF node[s] = None THEN registry
                   ELSE Unregistered(registry, node[s])
    /\ accepted' = [accepted EXCEPT ![s] = None]
    /\ node' = [node EXCEPT ![s] = None]
    /\ heartbeat_lost_count' = [heartbeat_lost_count EXCEPT ![s] = 0]
    /\ send_buffer' = [send_buffer EXCEPT ![s] = None]
    /\ inbox' = [inbox EXCEPT ![s] = <<>>]

-----------------------------------------------------------------------------
(* The clients.                                                             *)

Fault == faults < MaxFaults /\ faults' = faults + 1

\* A client connects: comm_OnListenSocketInput takes a free session.  A
\* worker server registers, and its WRQ is sent before a minute has passed and
\* a heartbeat would replace it.
Connect(c, s) ==
    /\ NextEvent
    /\ link[c] = None
    /\ accepted[s] = None
    /\ accepted' = [accepted EXCEPT ![s] = c]
    /\ link' = [link EXCEPT ![c] = s]
    /\ IF c \in Workers
       THEN /\ inbox' = [inbox EXCEPT ![s] = <<WRQ>>]
            /\ progress' = [progress EXCEPT ![c] = "CONNECTED"]
       ELSE UNCHANGED <<inbox, progress>>
    /\ UNCHANGED <<up, registerVars, node, heartbeat_lost_count, send_buffer,
                   busy, unsent, faults>>

\* comm_OnListenSocketInput has a free session but accept fails: server
\* returns.
AcceptFails(c) ==
    /\ NextEvent
    /\ link[c] = None
    /\ \E s \in Sessions : accepted[s] = None
    /\ Fault
    /\ Ends("exited")

\* A master asks for workers.
Ask(c, o, n) ==
    /\ c \in Visitors
    /\ link[c] # None
    /\ Len(inbox[link[c]]) < MaxInbox
    /\ inbox' = [inbox EXCEPT ![link[c]] = Append(@, QWQ(o, n))]
    /\ UNCHANGED <<up, registerVars, accepted, node, heartbeat_lost_count,
                   send_buffer, clientVars, faults>>

\* Worker server w has m to send now and no longer what it had: CleanSendBuffer
\* comes first wherever it says or hears something.  The answer to a heartbeat
\* that goes so is a fault.
Replaces(w, m) ==
    /\ unsent' = [unsent EXCEPT ![w] = m]
    /\ IF unsent[w] = HBP THEN Fault ELSE UNCHANGED faults

\* Mutant: the notice carries the state before the change.
TurnsLate(w) ==
    /\ w \in Turning
    /\ busy' = [busy EXCEPT ![w] = ~@]
    /\ IF progress[w] = "REGISTED"
       THEN Len(inbox[link[w]]) < MaxInbox /\ Replaces(w, WNQ(busy[w]))
       ELSE UNCHANGED <<unsent, faults>>
    /\ UNCHANGED <<up, registerVars, sessionVars, link, progress>>

\* A worker gets a master or loses it, and has that to tell if it is
\* registered.
Turns(w) ==
    /\ w \in Turning
    /\ busy' = [busy EXCEPT ![w] = ~@]
    /\ IF progress[w] = "REGISTED"
       THEN Len(inbox[link[w]]) < MaxInbox /\ Replaces(w, WNQ(busy'[w]))
       ELSE UNCHANGED <<unsent, faults>>
    /\ UNCHANGED <<up, registerVars, sessionVars, link, progress>>

\* Its connection was quiet: a worker has a heartbeat to send.
BeatsHeart(w) ==
    /\ w \in Beating
    /\ link[w] # None
    /\ inbox[link[w]] = <<>>
    /\ Replaces(w, HBQ)
    /\ UNCHANGED <<up, registerVars, sessionVars, link, progress, busy>>

\* What a worker has to send is sent.
WorkerSends(w) ==
    /\ link[w] # None
    /\ unsent[w] # None
    /\ inbox' = [inbox EXCEPT ![link[w]] = Append(@, unsent[w])]
    /\ unsent' = [unsent EXCEPT ![w] = None]
    /\ UNCHANGED <<up, registerVars, accepted, node, heartbeat_lost_count,
                   send_buffer, link, progress, busy, faults>>

\* A client has no connection any more.  What a worker server did not send is
\* left in its send_buffer, where the next WRQ replaces it.
Disconnects(c) ==
    /\ link' = [link EXCEPT ![c] = None]
    /\ IF c \in Workers
       THEN /\ progress' = [progress EXCEPT ![c] = "CLOSED"]
            /\ unsent' = [unsent EXCEPT ![c] = None]
       ELSE UNCHANGED <<progress, unsent>>

\* A client forgets its connection.  A worker server that ended and was
\* forked again has lost its master too.
Forgets(c) ==
    /\ Disconnects(c)
    /\ busy' \in {busy} \cup
          IF c \in Workers THEN {[busy EXCEPT ![c] = FALSE]} ELSE {}

\* A client closes its connection, between two messages or inside one.
Leave(c, end) ==
    /\ link[c] # None
    /\ Fault
    /\ inbox' = [inbox EXCEPT ![link[c]] = Append(@, end)]
    /\ Forgets(c)
    /\ UNCHANGED <<up, registerVars, accepted, node, heartbeat_lost_count,
                   send_buffer>>

\* A client is cut off: the server is not told.
Cut(c) ==
    /\ link[c] # None
    /\ Fault
    /\ Forgets(c)
    /\ UNCHANGED <<up, registerVars, sessionVars>>

-----------------------------------------------------------------------------
(* Input on an accepted socket: AsyncReceiveSocketData and proto.           *)

\* Input is waited for only when there is no answer to send.
Input(s, type) ==
    /\ NextEvent
    /\ send_buffer[s] = None
    /\ inbox[s] # <<>>
    /\ Head(inbox[s]).type = type

Received(s) == inbox' = [inbox EXCEPT ![s] = Tail(@)]

Answer(s, rsp) == send_buffer' = [send_buffer EXCEPT ![s] = rsp]

\* A worker registers, unless it is still listed for an older session.
WorkerRegisterRequest(s) ==
    /\ Input(s, "WRQ")
    /\ Received(s)
    /\ LET w == accepted[s]
       IN IF Listed(registry, w)
          THEN /\ Answer(s, "WRP_ERROR")
               /\ UNCHANGED <<registry, node>>
          ELSE /\ registry' = Registered(registry, w)
               /\ node' = [node EXCEPT ![s] = w]
               /\ Answer(s, "WRP")
    /\ UNCHANGED <<up, query, accepted, heartbeat_lost_count, clientVars,
                   faults>>

\* A worker has become busy or idle.
WorkerNoticeRequest(s) ==
    /\ Input(s, "WNQ")
    /\ Received(s)
    /\ LET w == accepted[s]
       IN registry' = IF Listed(registry, w)
                      THEN Noticed(registry, w, Head(inbox[s]).is_working)
                      ELSE registry
    /\ UNCHANGED <<up, query, accepted, node, heartbeat_lost_count, send_buffer,
                   clientVars, faults>>

HeartBeatResponse(s) ==
    /\ Input(s, "HBP")
    /\ Received(s)
    /\ heartbeat_lost_count' = [heartbeat_lost_count EXCEPT ![s] = 0]
    /\ UNCHANGED <<up, registerVars, accepted, node, send_buffer, clientVars,
                   faults>>

\* A worker asks whether the server is there.
WorkerHeartBeat(s) ==
    /\ Input(s, "HBQ")
    /\ Received(s)
    /\ Answer(s, "HBP")
    /\ UNCHANGED <<up, registerVars, accepted, node, heartbeat_lost_count,
                   clientVars, faults>>

\* The end of file after a whole message.
PeerClosed(s) ==
    /\ Input(s, "CLOSED")
    /\ CloseAcceptedSocket(s)
    /\ UNCHANGED <<up, query, clientVars, faults>>

\* The end of file inside a message or a line: the handler closes the session
\* and returns the negative nret, on which server returns.
ReceiveFails(s) ==
    /\ Input(s, "BROKEN")
    /\ Ends("exited")
    /\ UNCHANGED faults

\* A query for an operating system nobody registered with is answered with an
\* error, any other is begun.
QueryWorkersRequest(s) ==
    /\ Input(s, "QWQ")
    /\ Received(s)
    /\ LET req == Head(inbox[s])
       IN IF req.os \in registry.os_type_list
          THEN /\ query' = [session |-> s, os |-> req.os,
                            count |-> req.count, nodes |-> <<>>]
               /\ UNCHANGED send_buffer
          ELSE /\ Answer(s, "QWP")
               /\ UNCHANGED query
    /\ UNCHANGED <<up, registry, accepted, node, heartbeat_lost_count,
                   clientVars, faults>>

\* The nodes found are fewer than asked for and than an answer holds.
WantsMore ==
    /\ query.count = -1 \/ Len(query.nodes) < query.count
    /\ Len(query.nodes) < NodesSize

\* One round of the loop that finds a worker.
FindOne(w) ==
    /\ query # NoQuery
    /\ WantsMore
    /\ Found(registry, query.os, w)
    /\ registry' = Given(registry, w)
    /\ query' = [query EXCEPT !.nodes = Append(@, w)]
    /\ UNCHANGED <<up, sessionVars, clientVars, faults>>

\* Mutant: the loop gives up after the first host without a free worker.
FindNoneAtHead ==
    /\ query # NoQuery
    /\ WantsMore => FreeIn(registry, Head(registry.host_info_list[query.os])) = {}
    /\ Answer(query.session, "QWP")
    /\ query' = NoQuery
    /\ UNCHANGED <<up, registry, accepted, node, heartbeat_lost_count, inbox,
                   clientVars, faults>>

\* The loop ends: there are nodes enough or no host has a free worker.
FindNone ==
    /\ query # NoQuery
    /\ WantsMore => \A h \in Nodes(registry.host_info_list[query.os]) :
                        FreeIn(registry, h) = {}
    /\ Answer(query.session, "QWP")
    /\ query' = NoQuery
    /\ UNCHANGED <<up, registry, accepted, node, heartbeat_lost_count, inbox,
                   clientVars, faults>>

-----------------------------------------------------------------------------
(* Output and errors.                                                       *)

\* The client of session s hears the answer.  A worker server takes WRP for its
\* registration, closes the connection on an error, and answers HBQ; hearing
\* anything does away with what it has not sent.
Hears(c, s, rsp) ==
    \/ /\ rsp = "WRP"
       /\ progress' = [progress EXCEPT ![c] = "REGISTED"]
       /\ Replaces(c, None)
       /\ UNCHANGED <<inbox, link, busy>>
    \/ /\ rsp = "WRP_ERROR"
       /\ inbox' = [inbox EXCEPT ![s] = Append(@, CLOSED)]
       /\ Disconnects(c)
       /\ UNCHANGED <<busy, faults>>
    \/ /\ rsp \in {"HBQ", "HBP"}
       /\ Replaces(c, IF rsp = "HBQ" THEN HBP ELSE None)
       /\ UNCHANGED <<inbox, link, progress, busy>>
    \/ rsp = "QWP" /\ UNCHANGED <<inbox, clientVars, faults>>

\* The answer of session s is sent.  Nobody hears what is sent on a connection
\* that was cut or closed.
AcceptedSocketOutput(s) ==
    /\ NextEvent
    /\ send_buffer[s] # None
    /\ send_buffer' = [send_buffer EXCEPT ![s] = None]
    /\ IF link[accepted[s]] = s THEN Hears(accepted[s], s, send_buffer[s])
       ELSE UNCHANGED <<inbox, clientVars, faults>>
    /\ UNCHANGED <<up, registerVars, accepted, node, heartbeat_lost_count>>

\* A socket error: only a connection whose client is gone gets one.
AcceptedSocketError(s) ==
    /\ NextEvent
    /\ accepted[s] # None
    /\ link[accepted[s]] # s
    /\ CloseAcceptedSocket(s)
    /\ UNCHANGED <<up, query, clientVars, faults>>

-----------------------------------------------------------------------------
(* app_HeartBeatRequest                                                     *)

\* Mutant: a session is never given up.
HeartBeatOnceMore(s) ==
    /\ NextEvent
    /\ node[s] \in Watched
    /\ send_buffer[s] = None
    /\ Len(inbox[s]) < MaxInbox
    /\ Answer(s, "HBQ")
    /\ heartbeat_lost_count' = [heartbeat_lost_count EXCEPT ![s] = @ + 1]
    /\ UNCHANGED <<up, registerVars, accepted, node, inbox, clientVars, faults>>

\* Nothing was received or sent for SEND_HEARTBEAT_INTERVAL seconds, and what
\* there was to send has been: the worker is asked whether it is there, and the
\* question counted.
HeartBeatRequest(s) ==
    /\ NextEvent
    /\ node[s] \in Watched
    /\ heartbeat_lost_count[s] <= MAXCNT_HEARTBEAT_LOST
    /\ send_buffer[s] = None
    /\ Len(inbox[s]) < MaxInbox
    /\ Answer(s, "HBQ")
    /\ heartbeat_lost_count' = [heartbeat_lost_count EXCEPT ![s] = @ + 1]
    /\ UNCHANGED <<up, registerVars, accepted, node, inbox, clientVars, faults>>

\* More than MAXCNT_HEARTBEAT_LOST heartbeats went unanswered.  The session
\* is closed, which frees its buffers and clears active_timestamp, and the
\* handler goes on to write a heartbeat to the freed send_buffer.
HeartBeatLost(s) ==
    /\ NextEvent
    /\ node[s] \in Watched
    /\ heartbeat_lost_count[s] > MAXCNT_HEARTBEAT_LOST
    /\ Ends("core")
    /\ UNCHANGED faults

\* The clock goes on; a query reads it once.
Tick ==
    /\ NextEvent
    /\ registry' = NextSecond(registry)
    /\ UNCHANGED <<up, query, sessionVars, clientVars, faults>>

-----------------------------------------------------------------------------
OnInput(s) ==
    \/ WorkerRegisterRequest(s)
    \/ WorkerNoticeRequest(s)
    \/ HeartBeatResponse(s)
    \/ WorkerHeartBeat(s)
    \/ PeerClosed(s)
    \/ ReceiveFails(s)
    \/ QueryWorkersRequest(s)

HeartBeat(s) == HeartBeatRequest(s) \/ HeartBeatLost(s)

Finding == FindNone \/ \E w \in Workers : FindOne(w)

ServerNext ==
    \/ \E s \in Sessions :
          OnInput(s) \/ AcceptedSocketOutput(s) \/ AcceptedSocketError(s)
             \/ HeartBeat(s)
    \/ Finding
    \/ Tick
    \/ ForkAgain

ClientNext ==
    \/ \E c \in Clients :
          \/ \E s \in Sessions : Connect(c, s)
          \/ AcceptFails(c)
          \/ \E o \in OsTypes, n \in Counts : Ask(c, o, n)
          \/ \E end \in {CLOSED, BROKEN} : Leave(c, end)
          \/ Cut(c)
    \/ \E w \in Workers : Turns(w) \/ BeatsHeart(w) \/ WorkerSends(w)

Next == ServerNext \/ ClientNext

Spec == Init /\ [][Next]_vars

\* The loop handles what epoll reports and runs app_HeartBeatRequest in every
\* round, the parent forks again, and a worker server connects in every round
\* of its own loop, where it also sends what it has to send.
Fairness ==
    /\ \A s \in Sessions :
          /\ WF_vars(OnInput(s))
          /\ WF_vars(AcceptedSocketOutput(s))
          /\ WF_vars(HeartBeat(s))
    /\ WF_vars(Finding)
    /\ WF_vars(ForkAgain)
    /\ \A w \in Workers :
          /\ WF_vars(\E s \in Sessions : Connect(w, s))
          /\ WF_vars(WorkerSends(w))

FairSpec == Spec /\ Fairness

-----------------------------------------------------------------------------
(* Properties.                                                              *)

\* The registry is well formed after every event: app_WorkerUnregister frees
\* exactly the hosts and operating systems that lost their last worker.
RegistryInShape == RegistryShape(registry)

\* The counters of every host agree with its workers through registrations,
\* repeated notices, closed connections and restarts.
CountsMatch == CountsRight(registry)

\* The workers listed are those the open sessions point to, each from one
\* session, its own: no p3 dangles, and no worker stays behind its connection.
PointersMatch ==
    /\ \A s \in Sessions :
          node[s] # None => accepted[s] = node[s] /\ Listed(registry, node[s])
    /\ \A w \in Workers :
          Listed(registry, w) => \E s \in Sessions : node[s] = w
    /\ \A s, t \in Sessions : node[s] = node[t] /\ node[s] # None => s = t

\* An answer names idle workers of the operating system asked for, nobody
\* twice, and no more than asked for.
AnswerIsUsable ==
    query # NoQuery =>
        /\ IsList(query.nodes)
        /\ \A w \in Nodes(query.nodes) :
              Listed(registry, w) /\ ~registry.is_working[w]
                 /\ OsOf[HostOf[w]] = query.os
        /\ query.count = -1 \/ Len(query.nodes) <= query.count
        /\ Len(query.nodes) <= NodesSize

\* The server answers with fewer workers than asked for only when every idle
\* worker of that operating system was already named or handed out in this
\* second.
AnswerIsComplete ==
    [][(query # NoQuery /\ query' = NoQuery /\ up' = "up") =>
          \/ ~WantsMore
          \/ \A w \in Workers :
                Listed(registry, w) /\ OsOf[HostOf[w]] = query.os
                   => registry.is_working[w] \/ w \in registry.accessed]_vars

\* The ChangeLog says a core dump on unregistering was fixed: no event makes
\* the server process dump core.
NeverCores == up # "core"

\* A worker server is registered for good once its connections last: an old
\* session that still holds its place goes away.
WorkerStaysRegistered ==
    \A w \in Workers : <>[](progress[w] = "REGISTED")
=============================================================================
