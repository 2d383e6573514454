----------------------------- MODULE WorkerLink -----------------------------
(***************************************************************************)
(* The connection of a worker server to one register server, as the        *)
(* worker server sees it (src/src/wserver/comm.c, app.c and proto.c): a    *)
(* record for its struct SocketSession and, for every function that        *)
(* changes the session, the operator that gives the session after it.      *)
(***************************************************************************)
EXTENDS Integers

CONSTANT MAXCNT_HEARTBEAT_LOST

ASSUME LinkConstants == MAXCNT_HEARTBEAT_LOST \in Nat

\* established_flag: 0, 2 and 1.
Flags == {"closed", "opened", "established"}

\* CONNECT_SESSION_PROGRESS_*
Progresses == {"CLOSED", "CONNECTED", "REGISTED"}

Notices == {"WNQ idle", "WNQ working"}

\* What send_buffer may hold; "NONE" is total_send_len = 0.
Outputs == {"NONE", "WRQ", "HBQ", "HBP"} \cup Notices

\* out is what is in send_buffer, watch what epoll waits for, lost is
\* heartbeat_lost_count, and idle says that SEND_HEARTBEAT_INTERVAL has passed
\* since active_timestamp.
Link ==
    [flag     : Flags,
     progress : Progresses,
     out      : Outputs,
     watch    : {"NONE", "IN", "OUT"},
     lost     : 0..MAXCNT_HEARTBEAT_LOST + 1,
     idle     : BOOLEAN]

NewLink ==
    [flag |-> "closed", progress |-> "CLOSED", out |-> "NONE",
     watch |-> "NONE", lost |-> 0, idle |-> TRUE]

\* comm_CloseConnectedSocket.  What send_buffer holds stays there.
Closed(c) ==
    [c EXCEPT !.flag = "closed", !.progress = "CLOSED", !.watch = "NONE",
              !.lost = 0, !.idle = TRUE]

Registering(c) ==
    [c EXCEPT !.progress = "CONNECTED", !.out = "WRQ", !.watch = "OUT",
              !.idle = FALSE]

\* comm_AsyncConnectToRegisterServer of a closed session, by what connect
\* returns.
Connected(c, result) ==
    CASE result = "ok" -> Registering([c EXCEPT !.flag = "established"])
      [] result = "in progress" ->
            [c EXCEPT !.flag = "opened", !.progress = "CLOSED",
                      !.watch = "OUT"]
      [] result = "failed" -> Closed(c)

\* comm_OnConnectedSocketOutput.  A connection that was in progress is not
\* made an established one.
Output(c) ==
    IF c.progress = "CLOSED" THEN Registering(c)
    ELSE [c EXCEPT !.out = "NONE", !.watch = "IN", !.idle = FALSE]

\* comm_OnConnectedSocketInput: proto cleans the send_buffer whatever the
\* message is.
Input(c, msg) ==
    CASE msg \in {"FIN", "WRP error"} -> Closed(c)
      [] msg = "WRP" ->
            [c EXCEPT !.out = "NONE", !.progress = "REGISTED", !.idle = FALSE]
      [] msg = "HBQ" ->
            [c EXCEPT !.out = "HBP", !.watch = "OUT", !.idle = FALSE]
      [] msg = "HBP" ->
            [c EXCEPT !.out = "NONE", !.lost = 0, !.idle = FALSE]

\* Mutant: a worker that is free again does not say so.
NoticedBusy(c, working) ==
    IF c.progress = "REGISTED" /\ working
    THEN [c EXCEPT !.out = "WNQ working", !.watch = "OUT"]
    ELSE c

\* app_SendWorkerNotice
Noticed(c, working) ==
    IF c.progress = "REGISTED"
    THEN [c EXCEPT !.out = IF working THEN "WNQ working" ELSE "WNQ idle",
                   !.watch = "OUT"]
    ELSE c

\* Mutant: lost heartbeats are counted and nothing else.
HeartbeatsCounted(c) ==
    IF c.flag = "established" /\ c.idle
    THEN [c EXCEPT !.out = "HBQ", !.watch = "OUT", !.idle = FALSE,
                   !.lost = IF @ > MAXCNT_HEARTBEAT_LOST THEN @ ELSE @ + 1]
    ELSE c

\* Mutant: one heartbeat more is waited for.
HeartbeatsOneMore(c) ==
    IF c.flag # "established" THEN c
    ELSE IF c.lost > MAXCNT_HEARTBEAT_LOST + 1 THEN Closed(c)
    ELSE IF ~c.idle THEN c
    ELSE [c EXCEPT !.out = "HBQ", !.watch = "OUT", !.idle = FALSE,
                   !.lost = @ + 1]

\* app_HeartBeatRequest.  A session that it closes counts as idle at once, and
\* gets a heartbeat that is never sent.
HeartBeatRequest(c) ==
    IF c.flag # "established" THEN c
    ELSE LET d == IF c.lost > MAXCNT_HEARTBEAT_LOST THEN Closed(c) ELSE c IN
         IF ~d.idle THEN d
         ELSE [d EXCEPT !.out = "HBQ",
                        !.watch = IF d.flag = "closed" THEN "NONE" ELSE "OUT",
                        !.idle = FALSE,
                        !.lost = @ + 1]

\* An input or a heartbeat that makes d of c does away with a notice.
Replaces(d, c) ==
    c.out \in Notices /\ d.out \notin Notices /\ d.progress = "REGISTED"
=============================================================================
