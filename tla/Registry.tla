------------------------------ MODULE Registry ------------------------------
(***************************************************************************)
(* The registry of the register server (src/src/rserver/app.c): the list   *)
(* of operating systems, in each the list of hosts, in each the list of    *)
(* workers.  An operator takes the registry r and returns the registry     *)
(* after the handler of the same name, or after one round of its loop.     *)
(*                                                                         *)
(* A worker stands for one sysname, release, bits, ip and port, a host for *)
(* the first four and an operating system for the first three.  The order  *)
(* of the operating systems is left out: nothing depends on it.  Of        *)
(* access_timestamp only equality with the current second is ever tested,  *)
(* so a registry keeps the workers for which it holds.                     *)
(***************************************************************************)
EXTENDS ListX, FiniteSets

CONSTANTS OsTypes, Hosts, Workers,
          OsOf,     \* the operating system of a host
          HostOf    \* the host of a worker

ASSUME RegistryConstants ==
    /\ OsOf \in [Hosts -> OsTypes]
    /\ HostOf \in [Workers -> Hosts]

Registry ==
    [os_type_list     : SUBSET OsTypes,
     host_info_list   : [OsTypes -> Seq(Hosts)],
     worker_info_list : [Hosts -> Seq(Workers)],
     idler_count      : [Hosts -> Int],
     working_count    : [Hosts -> Int],
     is_working       : [Workers -> BOOLEAN],
     accessed         : SUBSET Workers]

EmptyRegistry ==
    [os_type_list     |-> {},
     host_info_list   |-> [o \in OsTypes |-> <<>>],
     worker_info_list |-> [h \in Hosts |-> <<>>],
     idler_count      |-> [h \in Hosts |-> 0],
     working_count    |-> [h \in Hosts |-> 0],
     is_working       |-> [w \in Workers |-> FALSE],
     accessed         |-> {}]

Listed(r, w) == w \in Nodes(r.worker_info_list[HostOf[w]])

HostListed(r, h) == h \in Nodes(r.host_info_list[OsOf[h]])

WorkersIn(r, h, working) ==
    {w \in Nodes(r.worker_info_list[h]) : r.is_working[w] = working}

-----------------------------------------------------------------------------
(* What makes a registry well formed.                                       *)

\* Every list holds a node once and only nodes that belong there, and there
\* is a node for a host or an operating system exactly if it has a worker:
\* what app_WorkerUnregister frees, and what the pointers in a session rely
\* on.
RegistryShape(r) ==
    /\ \A o \in OsTypes :
          /\ IsList(r.host_info_list[o])
          /\ \A h \in Nodes(r.host_info_list[o]) : OsOf[h] = o
          /\ o \in r.os_type_list <=> Nodes(r.host_info_list[o]) # {}
    /\ \A h \in Hosts :
          /\ IsList(r.worker_info_list[h])
          /\ \A w \in Nodes(r.worker_info_list[h]) : HostOf[w] = h
          /\ HostListed(r, h) <=> Nodes(r.worker_info_list[h]) # {}

\* idler_count and working_count of a host count its workers: hosts are
\* ordered by them, and users are shown them.
CountsRight(r) ==
    \A h \in Hosts :
        /\ r.idler_count[h] = Cardinality(WorkersIn(r, h, FALSE))
        /\ r.working_count[h] = Cardinality(WorkersIn(r, h, TRUE))

-----------------------------------------------------------------------------
(* app_WorkerRegisterRequest                                                *)

\* A worker that is not listed becomes the first of its host, idle and
\* accessed now; a new host becomes the last of its operating system.
Registered(r, w) ==
    LET h == HostOf[w]
        o == OsOf[h]
    IN [r EXCEPT
        !.os_type_list = @ \cup {o},
        !.host_info_list[o] = IF HostListed(r, h) THEN @
                              ELSE AddListNode(@, h),
        !.worker_info_list[h] = InsertListNodeBefore(@, w),
        !.idler_count[h] = @ + 1,
        !.is_working[w] = FALSE,
        !.accessed = @ \cup {w}]

-----------------------------------------------------------------------------
(* app_QueryWorkersRequest                                                  *)

\* Mutant: a worker already handed out in this second is free.
IdleIsFree(r, w) == ~r.is_working[w]

Free(r, w) == ~r.is_working[w] /\ w \notin r.accessed

FreeIn(r, h) == {w \in Nodes(r.worker_info_list[h]) : Free(r, w)}

\* The worker the two nested loops find: the first free one of the first host
\* that has one.
Found(r, o, w) ==
    LET h == HostOf[w]
        hosts == r.host_info_list[o]
        workers == r.worker_info_list[h]
    IN /\ h \in Nodes(hosts)
       /\ w \in FreeIn(r, h)
       /\ \A i \in 1..(Place(hosts, h) - 1) : FreeIn(r, hosts[i]) = {}
       /\ \A i \in 1..(Place(workers, w) - 1) : ~Free(r, workers[i])

\* Mutant: the host and not the worker goes to the tail.
GivenFromHead(r, w) ==
    LET h == HostOf[w]
        o == OsOf[h]
    IN [r EXCEPT !.accessed = @ \cup {w},
                 !.host_info_list[o] = MoveToTail(@, h)]

\* It is stamped and goes to the tail of its host, and the host to the tail
\* of its operating system.
Given(r, w) ==
    LET h == HostOf[w]
        o == OsOf[h]
    IN [r EXCEPT !.accessed = @ \cup {w},
                 !.worker_info_list[h] = MoveToTail(@, w),
                 !.host_info_list[o] = MoveToTail(@, h)]

-----------------------------------------------------------------------------
(* app_WorkerNoticeRequest                                                  *)

WorkingDelta(r, w, working) ==
    IF ~r.is_working[w] /\ working THEN 1
    ELSE IF r.is_working[w] /\ ~working THEN -1
    ELSE 0

\* The loop that moves a host behind hosts with more idle workers:
\* SwapNeighborListNodes leaves the caller's node at the neighbour, whose next
\* is the host itself, so the loop ends after one exchange.
HostSunk(hosts, idlers, h) ==
    IF ~IsLastListNode(hosts, h) /\ idlers[h] < idlers[FindNextListNode(hosts, h)]
    THEN SwapNeighborListNodes(hosts, h)
    ELSE hosts

\* The notice of a listed worker.
Noticed(r, w, working) ==
    LET h == HostOf[w]
        o == OsOf[h]
        idlers == [r.idler_count EXCEPT
                      ![h] = @ - WorkingDelta(r, w, working)]
    IN [r EXCEPT
        !.is_working[w] = working,
        !.worker_info_list[h] = MoveToTail(@, w),
        !.idler_count = idlers,
        !.working_count[h] = @ + WorkingDelta(r, w, working),
        !.host_info_list[o] = HostSunk(@, idlers, h)]

-----------------------------------------------------------------------------
(* app_WorkerUnregister                                                     *)

\* Mutant: a worker is taken for an idle one.
UnregisteredIdle(r, w) ==
    LET h == HostOf[w]
        o == OsOf[h]
        workers == DeleteListNode(r.worker_info_list[h], w)
        hosts == IF workers = <<>> THEN DeleteListNode(r.host_info_list[o], h)
                 ELSE r.host_info_list[o]
    IN [r EXCEPT
        !.worker_info_list[h] = workers,
        !.idler_count[h] = @ - 1,
        !.host_info_list[o] = hosts,
        !.os_type_list = IF hosts = <<>> THEN @ \ {o} ELSE @]

\* Mutant: an operating system is freed with any of its hosts.
UnregisteredOs(r, w) ==
    LET h == HostOf[w]
        o == OsOf[h]
        workers == DeleteListNode(r.worker_info_list[h], w)
        hosts == IF workers = <<>> THEN DeleteListNode(r.host_info_list[o], h)
                 ELSE r.host_info_list[o]
    IN [r EXCEPT
        !.worker_info_list[h] = workers,
        !.idler_count[h] = @ - (IF r.is_working[w] THEN 0 ELSE 1),
        !.working_count[h] = @ - (IF r.is_working[w] THEN 1 ELSE 0),
        !.host_info_list[o] = hosts,
        !.os_type_list = IF workers = <<>> THEN @ \ {o} ELSE @]

\* A listed worker leaves, and with the last one of a host the host, and with
\* the last host its operating system.
Unregistered(r, w) ==
    LET h == HostOf[w]
        o == OsOf[h]
        workers == DeleteListNode(r.worker_info_list[h], w)
        hosts == IF workers = <<>> THEN DeleteListNode(r.host_info_list[o], h)
                 ELSE r.host_info_list[o]
    IN [r EXCEPT
        !.worker_info_list[h] = workers,
        !.idler_count[h] = @ - (IF r.is_working[w] THEN 0 ELSE 1),
        !.working_count[h] = @ - (IF r.is_working[w] THEN 1 ELSE 0),
        !.host_info_list[o] = hosts,
        !.os_type_list = IF hosts = <<>> THEN @ \ {o} ELSE @]

\* The clock shows the next second.
NextSecond(r) == [r EXCEPT !.accessed = {}]
=============================================================================
