-------------------------- MODULE RegisterNotices --------------------------
(***************************************************************************)
(* RegisterServer with a history: which workers have had a notice replaced *)
(* by something else before it was sent.  It states what the registry may  *)
(* be relied on for about a worker that is registered.                     *)
(***************************************************************************)
EXTENDS RegisterServer

VARIABLE replaced   \* the registered workers whose last notice was replaced

noticeVars == <<vars, replaced>>

\* A heartbeat of worker w, its answer to one, or the reading of an answer
\* takes the place of a notice.
NoticeReplaced(w) ==
    /\ unsent[w] \in Notices
    /\ unsent'[w] \notin Notices
    /\ ~WorkerSends(w)

NoticesInit == Init /\ replaced = {}

\* A later notice makes up for the one that was replaced.
NoticesNext ==
    /\ Next
    /\ replaced' = {w \in Workers :
                       /\ progress'[w] = "REGISTED"
                       /\ unsent'[w] \notin Notices
                       /\ NoticeReplaced(w) \/ w \in replaced}

NoticesSpec == NoticesInit /\ [][NoticesNext]_noticeVars

FairNoticesSpec == NoticesSpec /\ Fairness

\* What is under way to the registry about worker w.
NoticesOf(w) ==
    LET box == inbox[link[w]]
    IN {i \in DOMAIN box : box[i].type = "WNQ"}

\* The last word of a registered worker about itself is true, be it still to be
\* sent, under way or noted: no notice overtakes another one, is noted for
\* another worker, or outlives its connection.  There are two exceptions: a
\* worker that was busy when it registered is noted idle; and when a heartbeat
\* or the reading of an answer took the place of a notice that was not sent
\* yet, the worker's last word is lost until it turns again.
NoticesTellTruth ==
    \A w \in Workers \ replaced :
        progress[w] = "REGISTED" =>
            IF unsent[w] \in Notices THEN unsent[w] = WNQ(busy[w])
            ELSE IF NoticesOf(w) = {} THEN registry.is_working[w] => busy[w]
            ELSE \E i \in NoticesOf(w) :
                    /\ \A j \in NoticesOf(w) : j <= i
                    /\ inbox[link[w]][i].is_working = busy[w]
=============================================================================
