--------------------------- MODULE RegisterTurns ---------------------------
(***************************************************************************)
(* RegisterServer with a history: which workers of its host were handed    *)
(* out while a worker stood idle.  It states the promise the order of      *)
(* worker_info_list keeps.                                                 *)
(***************************************************************************)
EXTENDS RegisterServer

VARIABLE passed     \* passed[w]: the workers handed out since w was, or
                    \* registered, or last told what it does

turnVars == <<vars, passed>>

HandsOut(w) ==
    /\ query # NoQuery
    /\ query' # NoQuery
    /\ query'.nodes = Append(query.nodes, w)

Tells(w) == \E s \in Sessions : accepted[s] = w /\ WorkerNoticeRequest(s)

Waiting(w) == Listed(registry, w) /\ ~registry.is_working[w]

TurnsInit == Init /\ passed = [w \in Workers |-> {}]

TurnsNext ==
    /\ Next
    /\ passed' = [w \in Workers |->
           IF HandsOut(w) \/ Tells(w) \/ ~(Waiting(w) /\ Waiting(w)') THEN {}
           ELSE {v \in Workers \ {w} :
                    /\ Listed(registry, v)'
                    /\ HostOf[v] = HostOf[w]
                    /\ HandsOut(v) \/ v \in passed[w]}]

TurnsSpec == TurnsInit /\ [][TurnsNext]_turnVars

\* Workers of a host take turns: while a worker waits, registered and idle,
\* no other worker of its host is handed out twice, unless that one
\* registered again in between.
WorkersTakeTurns ==
    [][\A v, w \in Workers : HandsOut(v) /\ v \in passed[w]
                                => ~Free(registry, w)]_turnVars
=============================================================================
