-------------------------- MODULE RegistryTheorems --------------------------
(***************************************************************************)
(* Every operation of the register server on its registry keeps it well    *)
(* formed and its counters right, whatever the hosts and the workers are,  *)
(* and lists the workers it is meant to list.                              *)
(***************************************************************************)
EXTENDS Registry, ListXTheorems

USE RegistryConstants

RegistryOK(r) == r \in Registry /\ RegistryShape(r) /\ CountsRight(r)

\* y lists the workers that r lists.
SameListed(r, y) == \A v \in Workers : Listed(y, v) <=> Listed(r, v)

-----------------------------------------------------------------------------
\* The workers of a host are finitely many, listed, and its own.
LEMMA WorkersInFinite ==
    ASSUME NEW r, RegistryOK(r), NEW h \in Hosts, NEW b
    PROVE  /\ IsFiniteSet(WorkersIn(r, h, b))
           /\ Cardinality(WorkersIn(r, h, b)) \in Nat
<1>1. r.worker_info_list[h] \in Seq(Workers)
  BY DEF RegistryOK, Registry
<1>2. IsFiniteSet(Nodes(r.worker_info_list[h]))
  BY <1>1, NodesFinite
<1>3. WorkersIn(r, h, b) \subseteq Nodes(r.worker_info_list[h])
  BY DEF WorkersIn
<1> QED
  BY <1>2, <1>3, FS_Subset, FS_CardinalityType

\* What holds of one host and its operating system in a registry in order.
HostOK(r, h) ==
    /\ r.worker_info_list[h] \in Seq(Workers)
    /\ IsList(r.worker_info_list[h])
    /\ \A v \in Nodes(r.worker_info_list[h]) : v \in Workers /\ HostOf[v] = h
    /\ r.host_info_list[OsOf[h]] \in Seq(Hosts)
    /\ IsList(r.host_info_list[OsOf[h]])
    /\ h \in Nodes(r.host_info_list[OsOf[h]])
          <=> Nodes(r.worker_info_list[h]) # {}
    /\ OsOf[h] \in r.os_type_list <=> Nodes(r.host_info_list[OsOf[h]]) # {}
    /\ r.idler_count[h] = Cardinality(WorkersIn(r, h, FALSE))
    /\ r.working_count[h] = Cardinality(WorkersIn(r, h, TRUE))

\* It holds of every host.
LEMMA HostParts ==
    ASSUME NEW r, RegistryOK(r), NEW h \in Hosts
    PROVE  HostOK(r, h)
<1>1. r \in Registry /\ RegistryShape(r) /\ CountsRight(r)
  BY DEF RegistryOK
<1>2. OsOf[h] \in OsTypes
  OBVIOUS
<1>3. /\ r.worker_info_list[h] \in Seq(Workers)
      /\ r.host_info_list[OsOf[h]] \in Seq(Hosts)
  BY <1>1, <1>2 DEF Registry
<1>4. /\ \A v \in Nodes(r.worker_info_list[h]) : v \in Workers
      /\ \A g \in Nodes(r.host_info_list[OsOf[h]]) : g \in Hosts
  BY <1>3 DEF Nodes
<1> QED
  BY <1>1, <1>2, <1>3, <1>4 DEF HostOK, RegistryShape, CountsRight, HostListed

\* y differs from r in what concerns host h only, and that is in order in y.
OneHostChanged(r, y, h) ==
    /\ \A g \in Hosts \ {h} :
          /\ y.worker_info_list[g] = r.worker_info_list[g]
          /\ y.idler_count[g] = r.idler_count[g]
          /\ y.working_count[g] = r.working_count[g]
    /\ \A o \in OsTypes \ {OsOf[h]} : y.host_info_list[o] = r.host_info_list[o]
    /\ \A o \in OsTypes \ {OsOf[h]} : o \in y.os_type_list <=> o \in r.os_type_list
    /\ \A v \in Workers : HostOf[v] # h => y.is_working[v] = r.is_working[v]
    /\ IsList(y.worker_info_list[h])
    /\ \A v \in Nodes(y.worker_info_list[h]) : HostOf[v] = h
    /\ IsList(y.host_info_list[OsOf[h]])
    /\ Nodes(y.host_info_list[OsOf[h]]) =
          IF Nodes(y.worker_info_list[h]) = {}
          THEN Nodes(r.host_info_list[OsOf[h]]) \ {h}
          ELSE Nodes(r.host_info_list[OsOf[h]]) \cup {h}
    /\ OsOf[h] \in y.os_type_list <=> Nodes(y.host_info_list[OsOf[h]]) # {}
    /\ y.idler_count[h] = Cardinality(WorkersIn(y, h, FALSE))
    /\ y.working_count[h] = Cardinality(WorkersIn(y, h, TRUE))

\* Such a change keeps the registry in order.
LEMMA HostChanged ==
    ASSUME NEW r, RegistryOK(r), NEW h \in Hosts, NEW y \in Registry,
           OneHostChanged(r, y, h)
    PROVE  RegistryOK(y)
<1> USE DEF OneHostChanged
<1>1. r \in Registry /\ RegistryShape(r) /\ CountsRight(r)
  BY DEF RegistryOK
<1>2. ASSUME NEW o \in OsTypes
      PROVE  /\ IsList(y.host_info_list[o])
             /\ \A g \in Nodes(y.host_info_list[o]) : OsOf[g] = o
             /\ o \in y.os_type_list <=> Nodes(y.host_info_list[o]) # {}
  <2>1. CASE o = OsOf[h]
    <3>1. \A g \in Nodes(r.host_info_list[o]) : OsOf[g] = o
      BY <1>1 DEF RegistryShape
    <3> QED
      BY <2>1, <3>1
  <2>2. CASE o # OsOf[h]
    BY <2>2, <1>1 DEF RegistryShape
  <2> QED
    BY <2>1, <2>2
<1>3. ASSUME NEW g \in Hosts
      PROVE  /\ IsList(y.worker_info_list[g])
             /\ \A v \in Nodes(y.worker_info_list[g]) : HostOf[v] = g
             /\ HostListed(y, g) <=> Nodes(y.worker_info_list[g]) # {}
  <2>1. CASE g = h
    BY <2>1 DEF HostListed
  <2>2. CASE g # h
    <3>1. y.worker_info_list[g] = r.worker_info_list[g]
      BY <2>2
    <3>2. HostListed(y, g) <=> HostListed(r, g)
      <4>1. CASE OsOf[g] = OsOf[h]
        BY <2>2, <4>1 DEF HostListed
      <4>2. CASE OsOf[g] # OsOf[h]
        <5>1. OsOf[g] \in OsTypes
          OBVIOUS
        <5> QED
          BY <4>2, <5>1 DEF HostListed
      <4> QED
        BY <4>1, <4>2
    <3> QED
      BY <3>1, <3>2, <1>1 DEF RegistryShape
  <2> QED
    BY <2>1, <2>2
<1>4. ASSUME NEW g \in Hosts
      PROVE  /\ y.idler_count[g] = Cardinality(WorkersIn(y, g, FALSE))
             /\ y.working_count[g] = Cardinality(WorkersIn(y, g, TRUE))
  <2>1. CASE g = h
    BY <2>1
  <2>2. CASE g # h
    <3>1. ASSUME NEW v \in Nodes(r.worker_info_list[g])
          PROVE  y.is_working[v] = r.is_working[v]
      <4>1. /\ r.worker_info_list[g] \in Seq(Workers)
            /\ \A u \in Nodes(r.worker_info_list[g]) : HostOf[u] = g
        BY <1>1 DEF Registry, RegistryShape
      <4>2. v \in Workers /\ HostOf[v] = g
        BY <4>1 DEF Nodes
      <4> QED
        BY <4>2, <2>2
    <3>2. y.worker_info_list[g] = r.worker_info_list[g]
      BY <2>2
    <3>3. \A b : WorkersIn(y, g, b) = WorkersIn(r, g, b)
      BY <3>1, <3>2 DEF WorkersIn
    <3> QED
      BY <2>2, <3>3, <1>1 DEF CountsRight
  <2> QED
    BY <2>1, <2>2
<1> QED
  BY <1>2, <1>3, <1>4 DEF RegistryOK, RegistryShape, CountsRight

-----------------------------------------------------------------------------
(* The operations.                                                          *)

\* An empty registry is in order and lists nobody.
LEMMA EmptyRegistryOK ==
    /\ RegistryOK(EmptyRegistry)
    /\ \A w \in Workers : ~Listed(EmptyRegistry, w)
<1>1. Nodes(<<>>) = {} /\ IsList(<<>>)
  BY DEF Nodes, IsList
<1>2. EmptyRegistry \in Registry
  BY DEF EmptyRegistry, Registry
<1>3. \A h \in Hosts : OsOf[h] \in OsTypes
  OBVIOUS
<1>4. \A w \in Workers : HostOf[w] \in Hosts
  OBVIOUS
<1>5. \A h \in Hosts, b \in BOOLEAN : WorkersIn(EmptyRegistry, h, b) = {}
  BY <1>1 DEF EmptyRegistry, WorkersIn
<1>6. RegistryShape(EmptyRegistry)
  BY <1>1, <1>3 DEF EmptyRegistry, RegistryShape, HostListed
<1>7. CountsRight(EmptyRegistry)
  BY <1>5, FS_EmptySet DEF EmptyRegistry, CountsRight
<1>8. \A w \in Workers : ~Listed(EmptyRegistry, w)
  BY <1>1, <1>4 DEF EmptyRegistry, Listed
<1> QED
  BY <1>2, <1>6, <1>7, <1>8 DEF RegistryOK

\* A registration adds its worker.
LEMMA RegisteredOK ==
    ASSUME NEW r, RegistryOK(r), NEW w \in Workers, ~Listed(r, w)
    PROVE  /\ RegistryOK(Registered(r, w))
           /\ \A v \in Workers :
                 Listed(Registered(r, w), v) <=> v = w \/ Listed(r, v)
<1> DEFINE h == HostOf[w]
           o == OsOf[h]
           workers == InsertListNodeBefore(r.worker_info_list[h], w)
           hosts == IF HostListed(r, h) THEN r.host_info_list[o]
                    ELSE AddListNode(r.host_info_list[o], h)
           y == Registered(r, w)
<1>1. h \in Hosts /\ o \in OsTypes /\ r \in Registry
  BY DEF RegistryOK
<1>2. /\ r.worker_info_list[h] \in Seq(Workers)
      /\ IsList(r.worker_info_list[h])
      /\ \A v \in Nodes(r.worker_info_list[h]) : v \in Workers /\ HostOf[v] = h
      /\ r.host_info_list[o] \in Seq(Hosts)
      /\ IsList(r.host_info_list[o])
      /\ r.idler_count[h] = Cardinality(WorkersIn(r, h, FALSE))
      /\ r.working_count[h] = Cardinality(WorkersIn(r, h, TRUE))
      /\ w \notin Nodes(r.worker_info_list[h])
  <2>1. HostOK(r, h)
    BY <1>1, HostParts
  <2> QED
    BY <2>1 DEF HostOK, Listed
<1>3. /\ workers \in Seq(Workers)
      /\ IsList(workers)
      /\ Nodes(workers) = Nodes(r.worker_info_list[h]) \cup {w}
  BY <1>2, InsertKeeps
<1>4. /\ hosts \in Seq(Hosts)
      /\ IsList(hosts)
      /\ Nodes(hosts) = Nodes(r.host_info_list[o]) \cup {h}
  <2>1. CASE HostListed(r, h)
    BY <2>1, <1>1, <1>2 DEF HostListed
  <2>2. CASE ~HostListed(r, h)
    <3>1. h \notin Nodes(r.host_info_list[o])
      BY <2>2 DEF HostListed
    <3>2. hosts = AddListNode(r.host_info_list[o], h)
      BY <2>2
    <3> QED
      BY <3>1, <3>2, <1>1, <1>2, AddKeeps
  <2> QED
    BY <2>1, <2>2
<1> HIDE DEF workers, hosts
<1> DEFINE types == r.os_type_list \cup {o}
           hostLists == [r.host_info_list EXCEPT ![o] = hosts]
           workerLists == [r.worker_info_list EXCEPT ![h] = workers]
           idlers == [r.idler_count EXCEPT ![h] = r.idler_count[h] + 1]
           isWorking == [r.is_working EXCEPT ![w] = FALSE]
           accessed == r.accessed \cup {w}
<1>5. y = [r EXCEPT !.os_type_list = types, !.host_info_list = hostLists,
                    !.worker_info_list = workerLists, !.idler_count = idlers,
                    !.is_working = isWorking, !.accessed = accessed]
  BY <1>1 DEF Registered, Registry, workers, hosts
<1> HIDE DEF y
<1>6. /\ types \in SUBSET OsTypes
      /\ hostLists \in [OsTypes -> Seq(Hosts)]
      /\ workerLists \in [Hosts -> Seq(Workers)]
      /\ idlers \in [Hosts -> Int]
      /\ isWorking \in [Workers -> BOOLEAN]
      /\ accessed \in SUBSET Workers
  BY <1>1, <1>3, <1>4 DEF Registry
<1> HIDE DEF types, hostLists, workerLists, idlers, isWorking, accessed
<1>7. /\ y \in Registry
      /\ y.os_type_list = types
      /\ y.host_info_list = hostLists
      /\ y.worker_info_list = workerLists
      /\ y.idler_count = idlers
      /\ y.working_count = r.working_count
      /\ y.is_working = isWorking
  BY <1>1, <1>5, <1>6 DEF Registry
<1> USE DEF types, hostLists, workerLists, idlers, isWorking
<1>8. /\ y.worker_info_list[h] = workers
      /\ y.host_info_list[o] = hosts
      /\ y.idler_count[h] = r.idler_count[h] + 1
      /\ y.working_count[h] = r.working_count[h]
      /\ \A v \in Workers \ {w} : y.is_working[v] = r.is_working[v]
      /\ y.is_working[w] = FALSE
  BY <1>1, <1>7 DEF Registry
<1>9. /\ WorkersIn(y, h, FALSE) = WorkersIn(r, h, FALSE) \cup {w}
      /\ WorkersIn(y, h, TRUE) = WorkersIn(r, h, TRUE)
      /\ w \notin WorkersIn(r, h, FALSE)
  BY <1>2, <1>3, <1>8 DEF WorkersIn
<1>10. Cardinality(WorkersIn(y, h, FALSE)) = Cardinality(WorkersIn(r, h, FALSE)) + 1
  <2>1. IsFiniteSet(WorkersIn(r, h, FALSE))
    BY <1>1, WorkersInFinite
  <2> QED
    BY <2>1, <1>9, FS_AddElement
<1>11. RegistryOK(y)
  <2>1. \A v \in Nodes(workers) : HostOf[v] = h
    BY <1>2, <1>3
  <2>2. \A g \in Hosts \ {h} :
              /\ y.worker_info_list[g] = r.worker_info_list[g]
              /\ y.idler_count[g] = r.idler_count[g]
              /\ y.working_count[g] = r.working_count[g]
    BY <1>1, <1>7 DEF Registry
  <2>3. \A p \in OsTypes \ {o} :
              /\ y.host_info_list[p] = r.host_info_list[p]
              /\ p \in y.os_type_list <=> p \in r.os_type_list
    BY <1>1, <1>7 DEF Registry
  <2>4. \A v \in Workers : HostOf[v] # h => y.is_working[v] = r.is_working[v]
    BY <1>8
  <2>5. o \in y.os_type_list /\ Nodes(hosts) # {} /\ Nodes(workers) # {}
    BY <1>3, <1>4, <1>7
  <2>6. /\ y.idler_count[h] = Cardinality(WorkersIn(y, h, FALSE))
        /\ y.working_count[h] = Cardinality(WorkersIn(y, h, TRUE))
    BY <1>2, <1>8, <1>9, <1>10
  <2>7. Nodes(y.host_info_list[o]) =
           IF Nodes(y.worker_info_list[h]) = {}
           THEN Nodes(r.host_info_list[o]) \ {h}
           ELSE Nodes(r.host_info_list[o]) \cup {h}
    BY <1>4, <1>8, <2>5
  <2> HIDE DEF workers, hosts, y, types, hostLists, workerLists, idlers,
               isWorking
  <2>8. OneHostChanged(r, y, h)
    BY <1>3, <1>4, <1>8, <2>1, <2>2, <2>3, <2>4, <2>5, <2>6, <2>7
       DEF OneHostChanged
  <2> QED
    BY <1>1, <1>7, <1>8, <2>8, HostChanged
<1>12. \A v \in Workers : Listed(y, v) <=> v = w \/ Listed(r, v)
  <2>1. ASSUME NEW v \in Workers PROVE Listed(y, v) <=> v = w \/ Listed(r, v)
    <3>1. CASE HostOf[v] = h
      BY <3>1, <1>3, <1>8 DEF Listed
    <3>2. CASE HostOf[v] # h
      BY <3>2, <1>1, <1>7 DEF Listed, Registry
    <3> QED
      BY <3>1, <3>2
  <2> QED
    BY <2>1
<1> QED
  BY <1>11, <1>12 DEF y

\* The next second changes no list.
LEMMA NextSecondOK ==
    ASSUME NEW r, RegistryOK(r)
    PROVE  RegistryOK(NextSecond(r)) /\ SameListed(r, NextSecond(r))
<1> DEFINE y == NextSecond(r)
<1>1. r \in Registry /\ RegistryShape(r) /\ CountsRight(r)
  BY DEF RegistryOK
<1>2. /\ y \in Registry
      /\ y.os_type_list = r.os_type_list
      /\ y.host_info_list = r.host_info_list
      /\ y.worker_info_list = r.worker_info_list
      /\ y.idler_count = r.idler_count
      /\ y.working_count = r.working_count
      /\ y.is_working = r.is_working
  BY <1>1 DEF NextSecond, Registry
<1> HIDE DEF y
<1>3. RegistryShape(y)
  BY <1>1, <1>2 DEF RegistryShape, HostListed
<1>4. CountsRight(y)
  BY <1>1, <1>2 DEF CountsRight, WorkersIn
<1>5. SameListed(r, y)
  BY <1>2 DEF SameListed, Listed
<1> QED
  BY <1>2, <1>3, <1>4, <1>5 DEF RegistryOK, y

\* A query that hands out a worker moves it and its host.
LEMMA GivenOK ==
    ASSUME NEW r, RegistryOK(r), NEW w \in Workers, Listed(r, w)
    PROVE  RegistryOK(Given(r, w)) /\ SameListed(r, Given(r, w))
<1> DEFINE h == HostOf[w]
           o == OsOf[h]
           workers == MoveToTail(r.worker_info_list[h], w)
           hosts == MoveToTail(r.host_info_list[o], h)
           hostLists == [r.host_info_list EXCEPT ![o] = hosts]
           workerLists == [r.worker_info_list EXCEPT ![h] = workers]
           accessed == r.accessed \cup {w}
           y == Given(r, w)
<1>1. h \in Hosts /\ o \in OsTypes /\ r \in Registry
  BY DEF RegistryOK
<1>2. /\ r.worker_info_list[h] \in Seq(Workers)
      /\ IsList(r.worker_info_list[h])
      /\ \A v \in Nodes(r.worker_info_list[h]) : v \in Workers /\ HostOf[v] = h
      /\ r.host_info_list[o] \in Seq(Hosts)
      /\ IsList(r.host_info_list[o])
      /\ h \in Nodes(r.host_info_list[o])
            <=> Nodes(r.worker_info_list[h]) # {}
      /\ o \in r.os_type_list <=> Nodes(r.host_info_list[o]) # {}
      /\ r.idler_count[h] = Cardinality(WorkersIn(r, h, FALSE))
      /\ r.working_count[h] = Cardinality(WorkersIn(r, h, TRUE))
  <2>1. HostOK(r, h)
    BY <1>1, HostParts
  <2> QED
    BY <2>1 DEF HostOK
<1>3. w \in Nodes(r.worker_info_list[h]) /\ h \in Nodes(r.host_info_list[o])
  BY <1>2 DEF Listed
<1>4. /\ workers \in Seq(Workers)
      /\ IsList(workers)
      /\ Nodes(workers) = Nodes(r.worker_info_list[h])
  BY <1>2, <1>3, MoveKeeps
<1>5. /\ hosts \in Seq(Hosts)
      /\ IsList(hosts)
      /\ Nodes(hosts) = Nodes(r.host_info_list[o])
  BY <1>2, <1>3, MoveKeeps
<1> HIDE DEF workers, hosts
<1>6. y = [r EXCEPT !.accessed = accessed, !.worker_info_list = workerLists,
                    !.host_info_list = hostLists]
  BY <1>1 DEF Given, Registry, workers, hosts
<1> HIDE DEF y
<1>7. /\ hostLists \in [OsTypes -> Seq(Hosts)]
      /\ workerLists \in [Hosts -> Seq(Workers)]
      /\ accessed \in SUBSET Workers
  BY <1>1, <1>4, <1>5 DEF Registry
<1> HIDE DEF hostLists, workerLists, accessed
<1>8. /\ y \in Registry
      /\ y.os_type_list = r.os_type_list
      /\ y.host_info_list = hostLists
      /\ y.worker_info_list = workerLists
      /\ y.idler_count = r.idler_count
      /\ y.working_count = r.working_count
      /\ y.is_working = r.is_working
  BY <1>1, <1>6, <1>7 DEF Registry
<1> USE DEF hostLists, workerLists
<1>9. y.worker_info_list[h] = workers /\ y.host_info_list[o] = hosts
  BY <1>1, <1>8 DEF Registry
<1>10. \A b : WorkersIn(y, h, b) = WorkersIn(r, h, b)
  BY <1>4, <1>8, <1>9 DEF WorkersIn
<1>11. RegistryOK(y)
  <2>1. /\ IsList(y.worker_info_list[h])
        /\ \A v \in Nodes(y.worker_info_list[h]) : HostOf[v] = h
        /\ IsList(y.host_info_list[o])
    BY <1>2, <1>4, <1>5, <1>9
  <2>2. \A g \in Hosts \ {h} :
              /\ y.worker_info_list[g] = r.worker_info_list[g]
              /\ y.idler_count[g] = r.idler_count[g]
              /\ y.working_count[g] = r.working_count[g]
    BY <1>1, <1>8 DEF Registry
  <2>3. \A p \in OsTypes \ {o} : y.host_info_list[p] = r.host_info_list[p]
    BY <1>1, <1>8 DEF Registry
  <2>4. Nodes(y.host_info_list[o]) =
           IF Nodes(y.worker_info_list[h]) = {}
           THEN Nodes(r.host_info_list[o]) \ {h}
           ELSE Nodes(r.host_info_list[o]) \cup {h}
    BY <1>3, <1>4, <1>5, <1>9
  <2>5. o \in y.os_type_list <=> Nodes(y.host_info_list[o]) # {}
    BY <1>2, <1>5, <1>8, <1>9
  <2>6. /\ y.idler_count[h] = Cardinality(WorkersIn(y, h, FALSE))
        /\ y.working_count[h] = Cardinality(WorkersIn(y, h, TRUE))
    BY <1>2, <1>8, <1>10
  <2> HIDE DEF workers, hosts, y, hostLists, workerLists
  <2>7. /\ \A p \in OsTypes \ {o} : p \in y.os_type_list <=> p \in r.os_type_list
        /\ \A v \in Workers : HostOf[v] # h => y.is_working[v] = r.is_working[v]
    BY <1>8
  <2>8. OneHostChanged(r, y, h)
    BY <2>1, <2>2, <2>3, <2>4, <2>5, <2>6, <2>7 DEF OneHostChanged
  <2> QED
    BY <1>1, <1>8, <2>8, HostChanged
<1>12. SameListed(r, y)
  <2>1. ASSUME NEW v \in Workers PROVE Listed(y, v) <=> Listed(r, v)
    <3>1. CASE HostOf[v] = h
      BY <3>1, <1>4, <1>9 DEF Listed
    <3>2. CASE HostOf[v] # h
      BY <3>2, <1>1, <1>8 DEF Listed, Registry
    <3> QED
      BY <3>1, <3>2
  <2> QED
    BY <2>1 DEF SameListed
<1> QED
  BY <1>11, <1>12 DEF y

\* A host that sinks stays in its list.
LEMMA HostSunkKeeps ==
    ASSUME NEW hosts \in Seq(Hosts), IsList(hosts), NEW h \in Nodes(hosts),
           NEW idlers
    PROVE  /\ HostSunk(hosts, idlers, h) \in Seq(Hosts)
           /\ IsList(HostSunk(hosts, idlers, h))
           /\ Nodes(HostSunk(hosts, idlers, h)) = Nodes(hosts)
<1>1. CASE HostSunk(hosts, idlers, h) = hosts
  BY <1>1
<1>2. CASE HostSunk(hosts, idlers, h) # hosts
  <2>1. /\ ~IsLastListNode(hosts, h)
        /\ HostSunk(hosts, idlers, h) = SwapNeighborListNodes(hosts, h)
    BY <1>2 DEF HostSunk
  <2> QED
    BY <2>1, SwapKeeps
<1> QED
  BY <1>1, <1>2

\* A notice moves its worker from one of the two sets of its host to the
\* other, or leaves it, and the counters by as much.
LEMMA NoticeMoves ==
    ASSUME NEW r, RegistryOK(r), NEW w \in Workers, Listed(r, w),
           NEW b \in BOOLEAN, NEW y,
           Nodes(y.worker_info_list[HostOf[w]])
              = Nodes(r.worker_info_list[HostOf[w]]),
           \A v \in Workers \ {w} : y.is_working[v] = r.is_working[v],
           y.is_working[w] = b
    PROVE  /\ Cardinality(WorkersIn(y, HostOf[w], FALSE))
                 = r.idler_count[HostOf[w]] - WorkingDelta(r, w, b)
           /\ Cardinality(WorkersIn(y, HostOf[w], TRUE))
                 = r.working_count[HostOf[w]] + WorkingDelta(r, w, b)
<1> DEFINE h == HostOf[w]
           idle == WorkersIn(r, h, FALSE)
           working == WorkersIn(r, h, TRUE)
<1>1. h \in Hosts
  OBVIOUS
<1>2. /\ IsFiniteSet(idle) /\ Cardinality(idle) \in Nat
      /\ IsFiniteSet(working) /\ Cardinality(working) \in Nat
  BY <1>1, WorkersInFinite
<1>3. HostOK(r, h)
  BY <1>1, HostParts
<1>4. /\ \A v \in Nodes(r.worker_info_list[h]) : v \in Workers
      /\ w \in Nodes(r.worker_info_list[h])
      /\ r.idler_count[h] = Cardinality(idle)
      /\ r.working_count[h] = Cardinality(working)
  BY <1>3 DEF HostOK, Listed
<1>5. r.is_working[w] \in BOOLEAN
  BY DEF RegistryOK, Registry
<1>6. r.idler_count[h] \in Nat /\ r.working_count[h] \in Nat
  BY <1>2, <1>4
<1>7. CASE r.is_working[w] = b
  <2>1. WorkersIn(y, h, FALSE) = idle /\ WorkersIn(y, h, TRUE) = working
    BY <1>4, <1>7 DEF WorkersIn
  <2>2. WorkingDelta(r, w, b) = 0
    BY <1>7 DEF WorkingDelta
  <2> HIDE DEF idle, working, h
  <2>3. /\ r.idler_count[h] - WorkingDelta(r, w, b) = r.idler_count[h]
        /\ r.working_count[h] + WorkingDelta(r, w, b) = r.working_count[h]
    BY <2>2, <1>6
  <2> QED
    BY <2>1, <2>3, <1>4 DEF h
<1>8. CASE r.is_working[w] = FALSE /\ b = TRUE
  <2>1. /\ WorkersIn(y, h, FALSE) = idle \ {w}
        /\ WorkersIn(y, h, TRUE) = working \cup {w}
        /\ w \in idle /\ w \notin working
    BY <1>4, <1>8 DEF WorkersIn
  <2>2. WorkingDelta(r, w, b) = 1
    BY <1>8 DEF WorkingDelta
  <2> HIDE DEF idle, working, h
  <2>3. /\ Cardinality(idle \ {w}) = Cardinality(idle) - 1
        /\ Cardinality(working \cup {w}) = Cardinality(working) + 1
    BY <1>2, <2>1, FS_AddElement, FS_RemoveElement
  <2> QED
    BY <2>1, <2>2, <2>3, <1>4 DEF h
<1>9. CASE r.is_working[w] = TRUE /\ b = FALSE
  <2>1. /\ WorkersIn(y, h, FALSE) = idle \cup {w}
        /\ WorkersIn(y, h, TRUE) = working \ {w}
        /\ w \notin idle /\ w \in working
    BY <1>4, <1>9 DEF WorkersIn
  <2>2. WorkingDelta(r, w, b) = -1
    BY <1>9 DEF WorkingDelta
  <2> HIDE DEF idle, working, h
  <2>3. /\ Cardinality(idle \cup {w}) = Cardinality(idle) + 1
        /\ Cardinality(working \ {w}) = Cardinality(working) - 1
    BY <1>2, <2>1, FS_AddElement, FS_RemoveElement
  <2>4. /\ r.idler_count[h] - WorkingDelta(r, w, b) = r.idler_count[h] + 1
        /\ r.working_count[h] + WorkingDelta(r, w, b) = r.working_count[h] - 1
    BY <2>2, <1>6
  <2> QED
    BY <2>1, <2>3, <2>4, <1>4 DEF h
<1> QED
  BY <1>5, <1>7, <1>8, <1>9

\* A notice moves its worker, sinks its host and keeps the counters right.
LEMMA NoticedOK ==
    ASSUME NEW r, RegistryOK(r), NEW w \in Workers, Listed(r, w),
           NEW b \in BOOLEAN
    PROVE  RegistryOK(Noticed(r, w, b)) /\ SameListed(r, Noticed(r, w, b))
<1> DEFINE h == HostOf[w]
           o == OsOf[h]
           workers == MoveToTail(r.worker_info_list[h], w)
           delta == WorkingDelta(r, w, b)
           idlers == [r.idler_count EXCEPT ![h] = r.idler_count[h] - delta]
           hosts == HostSunk(r.host_info_list[o], idlers, h)
           hostLists == [r.host_info_list EXCEPT ![o] = hosts]
           workerLists == [r.worker_info_list EXCEPT ![h] = workers]
           working == [r.working_count EXCEPT ![h] = r.working_count[h] + delta]
           isWorking == [r.is_working EXCEPT ![w] = b]
           y == Noticed(r, w, b)
<1>1. h \in Hosts /\ o \in OsTypes /\ r \in Registry
  BY DEF RegistryOK
<1>2. /\ r.worker_info_list[h] \in Seq(Workers)
      /\ IsList(r.worker_info_list[h])
      /\ \A v \in Nodes(r.worker_info_list[h]) : v \in Workers /\ HostOf[v] = h
      /\ r.host_info_list[o] \in Seq(Hosts)
      /\ IsList(r.host_info_list[o])
      /\ h \in Nodes(r.host_info_list[o])
            <=> Nodes(r.worker_info_list[h]) # {}
      /\ o \in r.os_type_list <=> Nodes(r.host_info_list[o]) # {}
      /\ r.idler_count[h] = Cardinality(WorkersIn(r, h, FALSE))
      /\ r.working_count[h] = Cardinality(WorkersIn(r, h, TRUE))
  <2>1. HostOK(r, h)
    BY <1>1, HostParts
  <2> QED
    BY <2>1 DEF HostOK
<1>3. w \in Nodes(r.worker_info_list[h]) /\ h \in Nodes(r.host_info_list[o])
  BY <1>2 DEF Listed
<1>4. /\ workers \in Seq(Workers)
      /\ IsList(workers)
      /\ Nodes(workers) = Nodes(r.worker_info_list[h])
  BY <1>2, <1>3, MoveKeeps
<1>5. /\ hosts \in Seq(Hosts)
      /\ IsList(hosts)
      /\ Nodes(hosts) = Nodes(r.host_info_list[o])
  BY <1>2, <1>3, HostSunkKeeps
<1>6. delta \in Int
  BY DEF WorkingDelta
<1> HIDE DEF workers, hosts, delta
<1>7. y = [r EXCEPT !.is_working = isWorking, !.worker_info_list = workerLists,
                    !.idler_count = idlers, !.working_count = working,
                    !.host_info_list = hostLists]
  BY <1>1 DEF Noticed, Registry, workers, hosts, delta
<1> HIDE DEF y
<1>8. /\ hostLists \in [OsTypes -> Seq(Hosts)]
      /\ workerLists \in [Hosts -> Seq(Workers)]
      /\ idlers \in [Hosts -> Int]
      /\ working \in [Hosts -> Int]
      /\ isWorking \in [Workers -> BOOLEAN]
  BY <1>1, <1>4, <1>5, <1>6 DEF Registry
<1> HIDE DEF hostLists, workerLists, idlers, working, isWorking
<1>9. /\ y \in Registry
      /\ y.os_type_list = r.os_type_list
      /\ y.host_info_list = hostLists
      /\ y.worker_info_list = workerLists
      /\ y.idler_count = idlers
      /\ y.working_count = working
      /\ y.is_working = isWorking
  BY <1>1, <1>7, <1>8 DEF Registry
<1> USE DEF hostLists, workerLists, idlers, working, isWorking
<1>10. /\ y.worker_info_list[h] = workers /\ y.host_info_list[o] = hosts
       /\ y.idler_count[h] = r.idler_count[h] - delta
       /\ y.working_count[h] = r.working_count[h] + delta
       /\ \A v \in Workers \ {w} : y.is_working[v] = r.is_working[v]
       /\ y.is_working[w] = b
  BY <1>1, <1>9 DEF Registry
<1>11. /\ y.idler_count[h] = Cardinality(WorkersIn(y, h, FALSE))
       /\ y.working_count[h] = Cardinality(WorkersIn(y, h, TRUE))
  <2>1. Nodes(y.worker_info_list[h]) = Nodes(r.worker_info_list[h])
    BY <1>4, <1>10
  <2> HIDE DEF workers, hosts, y, hostLists, workerLists, idlers, working,
               isWorking
  <2>2. /\ Cardinality(WorkersIn(y, h, FALSE)) = r.idler_count[h] - delta
        /\ Cardinality(WorkersIn(y, h, TRUE)) = r.working_count[h] + delta
    BY <2>1, <1>10, NoticeMoves DEF delta
  <2> QED
    BY <2>2, <1>10
<1>12. RegistryOK(y)
  <2>1. /\ IsList(y.worker_info_list[h])
        /\ \A v \in Nodes(y.worker_info_list[h]) : HostOf[v] = h
        /\ IsList(y.host_info_list[o])
    BY <1>2, <1>4, <1>5, <1>10
  <2>2. \A g \in Hosts \ {h} :
              /\ y.worker_info_list[g] = r.worker_info_list[g]
              /\ y.idler_count[g] = r.idler_count[g]
              /\ y.working_count[g] = r.working_count[g]
    BY <1>1, <1>9 DEF Registry
  <2>3. \A p \in OsTypes \ {o} : y.host_info_list[p] = r.host_info_list[p]
    BY <1>1, <1>9 DEF Registry
  <2>4. Nodes(y.host_info_list[o]) =
           IF Nodes(y.worker_info_list[h]) = {}
           THEN Nodes(r.host_info_list[o]) \ {h}
           ELSE Nodes(r.host_info_list[o]) \cup {h}
    BY <1>3, <1>4, <1>5, <1>10
  <2>5. o \in y.os_type_list <=> Nodes(y.host_info_list[o]) # {}
    BY <1>2, <1>5, <1>9, <1>10
  <2>6. \A v \in Workers : HostOf[v] # h => y.is_working[v] = r.is_working[v]
    BY <1>10
  <2> HIDE DEF workers, hosts, y, hostLists, workerLists, idlers, working,
               isWorking
  <2>7. \A p \in OsTypes \ {o} : p \in y.os_type_list <=> p \in r.os_type_list
    BY <1>9
  <2> HIDE DEF delta, h
  <2>8. y \in Registry
    BY <1>9
  <2>9. OneHostChanged(r, y, h)
    BY <1>11, <2>1, <2>2, <2>3, <2>4, <2>5, <2>6, <2>7 DEF OneHostChanged
  <2> QED
    BY <1>1, <2>8, <2>9, HostChanged
<1>13. SameListed(r, y)
  <2>1. ASSUME NEW v \in Workers PROVE Listed(y, v) <=> Listed(r, v)
    <3>1. CASE HostOf[v] = h
      BY <3>1, <1>4, <1>10 DEF Listed
    <3>2. CASE HostOf[v] # h
      BY <3>2, <1>1, <1>9 DEF Listed, Registry
    <3> QED
      BY <3>1, <3>2
  <2> QED
    BY <2>1 DEF SameListed
<1> QED
  BY <1>12, <1>13 DEF y

\* Unregistering takes out its worker, and with the last one the host.
LEMMA UnregisteredOK ==
    ASSUME NEW r, RegistryOK(r), NEW w \in Workers, Listed(r, w)
    PROVE  /\ RegistryOK(Unregistered(r, w))
           /\ \A v \in Workers :
                 Listed(Unregistered(r, w), v) <=> v # w /\ Listed(r, v)
<1> DEFINE h == HostOf[w]
           o == OsOf[h]
           workers == DeleteListNode(r.worker_info_list[h], w)
           hosts == IF workers = <<>>
                    THEN DeleteListNode(r.host_info_list[o], h)
                    ELSE r.host_info_list[o]
           idle == IF r.is_working[w] THEN 0 ELSE 1
           busy == IF r.is_working[w] THEN 1 ELSE 0
           types == IF hosts = <<>> THEN r.os_type_list \ {o}
                    ELSE r.os_type_list
           hostLists == [r.host_info_list EXCEPT ![o] = hosts]
           workerLists == [r.worker_info_list EXCEPT ![h] = workers]
           idlers == [r.idler_count EXCEPT ![h] = r.idler_count[h] - idle]
           working == [r.working_count EXCEPT ![h] = r.working_count[h] - busy]
           y == Unregistered(r, w)
<1>1. h \in Hosts /\ o \in OsTypes /\ r \in Registry
  BY DEF RegistryOK
<1>2. /\ r.worker_info_list[h] \in Seq(Workers)
      /\ IsList(r.worker_info_list[h])
      /\ \A v \in Nodes(r.worker_info_list[h]) : v \in Workers /\ HostOf[v] = h
      /\ r.host_info_list[o] \in Seq(Hosts)
      /\ IsList(r.host_info_list[o])
      /\ h \in Nodes(r.host_info_list[o])
            <=> Nodes(r.worker_info_list[h]) # {}
      /\ o \in r.os_type_list <=> Nodes(r.host_info_list[o]) # {}
      /\ r.idler_count[h] = Cardinality(WorkersIn(r, h, FALSE))
      /\ r.working_count[h] = Cardinality(WorkersIn(r, h, TRUE))
  <2>1. HostOK(r, h)
    BY <1>1, HostParts
  <2> QED
    BY <2>1 DEF HostOK
<1>3. w \in Nodes(r.worker_info_list[h]) /\ h \in Nodes(r.host_info_list[o])
  BY <1>2 DEF Listed
<1>4. /\ workers \in Seq(Workers)
      /\ IsList(workers)
      /\ Nodes(workers) = Nodes(r.worker_info_list[h]) \ {w}
  BY <1>2, <1>3, DeleteKeeps
<1>5. workers = <<>> <=> Nodes(workers) = {}
  BY <1>4, NoNodes
<1> HIDE DEF workers
<1>6. /\ hosts \in Seq(Hosts)
      /\ IsList(hosts)
      /\ Nodes(hosts) = IF Nodes(workers) = {}
                        THEN Nodes(r.host_info_list[o]) \ {h}
                        ELSE Nodes(r.host_info_list[o]) \cup {h}
  <2>1. CASE workers = <<>>
    <3>1. hosts = DeleteListNode(r.host_info_list[o], h)
      BY <2>1
    <3>2. /\ hosts \in Seq(Hosts)
          /\ IsList(hosts)
          /\ Nodes(hosts) = Nodes(r.host_info_list[o]) \ {h}
      BY <3>1, <1>2, <1>3, DeleteKeeps
    <3> QED
      BY <2>1, <3>2, <1>5
  <2>2. CASE workers # <<>>
    BY <2>2, <1>2, <1>3, <1>5
  <2> QED
    BY <2>1, <2>2
<1>7. hosts = <<>> <=> Nodes(hosts) = {}
  BY <1>6, NoNodes
<1> HIDE DEF hosts
<1>8. y = [r EXCEPT !.worker_info_list = workerLists, !.idler_count = idlers,
                    !.working_count = working, !.host_info_list = hostLists,
                    !.os_type_list = types]
  BY <1>1 DEF Unregistered, Registry, workers, hosts
<1> HIDE DEF y
<1>9. /\ types \in SUBSET OsTypes
      /\ hostLists \in [OsTypes -> Seq(Hosts)]
      /\ workerLists \in [Hosts -> Seq(Workers)]
      /\ idlers \in [Hosts -> Int]
      /\ working \in [Hosts -> Int]
  BY <1>1, <1>4, <1>6 DEF Registry
<1> HIDE DEF types, hostLists, workerLists, idlers, working
<1>10. /\ y \in Registry
       /\ y.os_type_list = types
       /\ y.host_info_list = hostLists
       /\ y.worker_info_list = workerLists
       /\ y.idler_count = idlers
       /\ y.working_count = working
       /\ y.is_working = r.is_working
  BY <1>1, <1>8, <1>9 DEF Registry
<1> USE DEF types, hostLists, workerLists, idlers, working
<1>11. /\ y.worker_info_list[h] = workers /\ y.host_info_list[o] = hosts
       /\ y.idler_count[h] = r.idler_count[h] - idle
       /\ y.working_count[h] = r.working_count[h] - busy
  BY <1>1, <1>10 DEF Registry
<1>12. /\ Cardinality(WorkersIn(y, h, FALSE)) = r.idler_count[h] - idle
       /\ Cardinality(WorkersIn(y, h, TRUE)) = r.working_count[h] - busy
  <2> DEFINE idlersOf == WorkersIn(r, h, FALSE)
             workingOf == WorkersIn(r, h, TRUE)
  <2>1. /\ IsFiniteSet(idlersOf) /\ Cardinality(idlersOf) \in Nat
        /\ IsFiniteSet(workingOf) /\ Cardinality(workingOf) \in Nat
    BY <1>1, WorkersInFinite
  <2>2. r.is_working[w] \in BOOLEAN
    BY <1>1 DEF Registry
  <2>3. /\ r.idler_count[h] = Cardinality(idlersOf)
        /\ r.working_count[h] = Cardinality(workingOf)
        /\ r.idler_count[h] \in Nat
        /\ r.working_count[h] \in Nat
    BY <1>2, <2>1
  <2>4. CASE r.is_working[w] = TRUE
    <3>1. /\ WorkersIn(y, h, FALSE) = idlersOf
          /\ WorkersIn(y, h, TRUE) = workingOf \ {w}
          /\ w \in workingOf
      BY <2>4, <1>3, <1>4, <1>10, <1>11 DEF WorkersIn
    <3>2. idle = 0 /\ busy = 1
      BY <2>4
    <3> HIDE DEF idlersOf, workingOf, idle, busy, h
    <3>3. Cardinality(workingOf \ {w}) = Cardinality(workingOf) - 1
      BY <2>1, <3>1, FS_RemoveElement
    <3>4. r.idler_count[h] - idle = r.idler_count[h]
          /\ r.working_count[h] - busy = r.working_count[h] - 1
      BY <2>3, <3>2
    <3> QED
      BY <2>3, <3>1, <3>3, <3>4
  <2>5. CASE r.is_working[w] = FALSE
    <3>1. /\ WorkersIn(y, h, FALSE) = idlersOf \ {w}
          /\ WorkersIn(y, h, TRUE) = workingOf
          /\ w \in idlersOf
      BY <2>5, <1>3, <1>4, <1>10, <1>11 DEF WorkersIn
    <3>2. idle = 1 /\ busy = 0
      BY <2>5
    <3> HIDE DEF idlersOf, workingOf, idle, busy, h
    <3>3. Cardinality(idlersOf \ {w}) = Cardinality(idlersOf) - 1
      BY <2>1, <3>1, FS_RemoveElement
    <3>4. r.idler_count[h] - idle = r.idler_count[h] - 1
          /\ r.working_count[h] - busy = r.working_count[h]
      BY <2>3, <3>2
    <3> QED
      BY <2>3, <3>1, <3>3, <3>4
  <2> QED
    BY <2>2, <2>4, <2>5
<1> HIDE DEF idle, busy
<1>13. RegistryOK(y)
  <2>1. /\ y \in Registry
        /\ IsList(y.worker_info_list[h])
        /\ \A v \in Nodes(y.worker_info_list[h]) : HostOf[v] = h
        /\ IsList(y.host_info_list[o])
    BY <1>2, <1>4, <1>6, <1>10, <1>11
  <2>2. \A g \in Hosts \ {h} :
              /\ y.worker_info_list[g] = r.worker_info_list[g]
              /\ y.idler_count[g] = r.idler_count[g]
              /\ y.working_count[g] = r.working_count[g]
    BY <1>1, <1>10 DEF Registry
  <2>3. \A p \in OsTypes \ {o} :
              /\ y.host_info_list[p] = r.host_info_list[p]
              /\ p \in y.os_type_list <=> p \in r.os_type_list
    BY <1>1, <1>10 DEF Registry
  <2>4. o \in y.os_type_list <=> Nodes(y.host_info_list[o]) # {}
    <3>1. o \in r.os_type_list
      BY <1>2, <1>3
    <3>2. o \in types <=> hosts # <<>>
      BY <3>1
    <3>3. y.os_type_list = types
      BY <1>10
    <3> HIDE DEF types, y, o
    <3> QED
      BY <3>2, <3>3, <1>7, <1>11
  <2>5. /\ y.idler_count[h] = Cardinality(WorkersIn(y, h, FALSE))
        /\ y.working_count[h] = Cardinality(WorkersIn(y, h, TRUE))
    BY <1>11, <1>12
  <2>6. \A v \in Workers : HostOf[v] # h => y.is_working[v] = r.is_working[v]
    BY <1>10
  <2>7. Nodes(y.host_info_list[o]) =
           IF Nodes(y.worker_info_list[h]) = {}
           THEN Nodes(r.host_info_list[o]) \ {h}
           ELSE Nodes(r.host_info_list[o]) \cup {h}
    BY <1>6, <1>11
  <2> HIDE DEF workers, hosts, y, types, hostLists, workerLists, idlers,
               working, h
  <2>8. OneHostChanged(r, y, h)
    BY <2>1, <2>2, <2>3, <2>4, <2>5, <2>6, <2>7 DEF OneHostChanged
  <2> QED
    BY <1>1, <2>1, <2>8, HostChanged
<1>14. \A v \in Workers : Listed(y, v) <=> v # w /\ Listed(r, v)
  <2>1. ASSUME NEW v \in Workers PROVE Listed(y, v) <=> v # w /\ Listed(r, v)
    <3>1. CASE HostOf[v] = h
      BY <3>1, <1>4, <1>11 DEF Listed
    <3>2. CASE HostOf[v] # h
      BY <3>2, <1>1, <1>10 DEF Listed, Registry
    <3> QED
      BY <3>1, <3>2
  <2> QED
    BY <2>1
<1> QED
  BY <1>13, <1>14 DEF y
-----------------------------------------------------------------------------
(* The order of the workers of a host.                                      *)

\* w stands before v in the list of its host.
LinedUp(r, w, v) == Before(r.worker_info_list[HostOf[w]], w, v)

\* The worker lists are lists of workers.
LEMMA WorkerLists ==
    ASSUME NEW r, RegistryOK(r), NEW w \in Workers
    PROVE  /\ r.worker_info_list \in [Hosts -> Seq(Workers)]
           /\ HostOf[w] \in Hosts
           /\ r.worker_info_list[HostOf[w]] \in Seq(Workers)
           /\ IsList(r.worker_info_list[HostOf[w]])
BY DEF RegistryOK, RegistryShape, Registry

\* A worker that goes to the tail of its host overtakes nobody.
LEMMA MovedOrder ==
    ASSUME NEW r, RegistryOK(r), NEW u \in Workers, NEW w \in Workers,
           Listed(r, u), u # w, NEW y,
           y.worker_info_list
              = [r.worker_info_list EXCEPT
                    ![HostOf[u]] = MoveToTail(r.worker_info_list[HostOf[u]], u)]
    PROVE  /\ Listed(r, w) /\ HostOf[w] = HostOf[u] => LinedUp(y, w, u)
           /\ \A v : v # u /\ LinedUp(r, w, v) => LinedUp(y, w, v)
<1> DEFINE list == r.worker_info_list[HostOf[u]]
<1>1. /\ r.worker_info_list \in [Hosts -> Seq(Workers)]
      /\ HostOf[u] \in Hosts /\ HostOf[w] \in Hosts
      /\ list \in Seq(Workers) /\ IsList(list) /\ u \in Nodes(list)
  BY WorkerLists DEF Listed
<1>2. CASE HostOf[w] = HostOf[u]
  <2>1. y.worker_info_list[HostOf[w]] = MoveToTail(list, u)
    BY <1>1, <1>2
  <2>2. /\ w \in Nodes(list) => Before(MoveToTail(list, u), w, u)
        /\ \A v : v # u /\ Before(list, w, v) => Before(MoveToTail(list, u), w, v)
    BY <1>1, MoveOrder
  <2> QED
    BY <1>2, <2>1, <2>2 DEF LinedUp, Listed
<1>3. CASE HostOf[w] # HostOf[u]
  BY <1>1, <1>3 DEF LinedUp
<1> QED
  BY <1>2, <1>3

\* Neither does a worker that is handed out,
LEMMA GivenOrder ==
    ASSUME NEW r, RegistryOK(r), NEW u \in Workers, NEW w \in Workers,
           Listed(r, u), u # w
    PROVE  /\ Listed(r, w) /\ HostOf[w] = HostOf[u]
                 => LinedUp(Given(r, u), w, u)
           /\ \A v : v # u /\ LinedUp(r, w, v) => LinedUp(Given(r, u), w, v)
<1>1. Given(r, u).worker_info_list
         = [r.worker_info_list EXCEPT
               ![HostOf[u]] = MoveToTail(r.worker_info_list[HostOf[u]], u)]
  BY DEF Given, RegistryOK, Registry
<1> QED
  BY <1>1, MovedOrder

\* nor one that tells that it is busy or idle.
LEMMA NoticedOrder ==
    ASSUME NEW r, RegistryOK(r), NEW u \in Workers, NEW w \in Workers,
           Listed(r, u), u # w, NEW b
    PROVE  /\ Listed(r, w) /\ HostOf[w] = HostOf[u]
                 => LinedUp(Noticed(r, u, b), w, u)
           /\ \A v : v # u /\ LinedUp(r, w, v) => LinedUp(Noticed(r, u, b), w, v)
<1>1. Noticed(r, u, b).worker_info_list
         = [r.worker_info_list EXCEPT
               ![HostOf[u]] = MoveToTail(r.worker_info_list[HostOf[u]], u)]
  BY DEF Noticed, RegistryOK, Registry
<1> QED
  BY <1>1, MovedOrder

\* A registration leaves the workers that are listed in order.
LEMMA RegisteredOrder ==
    ASSUME NEW r, RegistryOK(r), NEW u \in Workers, NEW w \in Workers, NEW v,
           LinedUp(r, w, v)
    PROVE  LinedUp(Registered(r, u), w, v)
<1> DEFINE list == r.worker_info_list[HostOf[u]]
<1>1. /\ r.worker_info_list \in [Hosts -> Seq(Workers)]
      /\ HostOf[u] \in Hosts /\ HostOf[w] \in Hosts
      /\ list \in Seq(Workers)
  BY WorkerLists
<1>2. Registered(r, u).worker_info_list
         = [r.worker_info_list EXCEPT ![HostOf[u]] = InsertListNodeBefore(list, u)]
  BY DEF Registered, RegistryOK, Registry
<1>3. CASE HostOf[w] = HostOf[u]
  <2>1. Registered(r, u).worker_info_list[HostOf[w]] = InsertListNodeBefore(list, u)
    BY <1>1, <1>2, <1>3
  <2>2. Before(list, w, v)
    BY <1>3 DEF LinedUp
  <2>3. Before(InsertListNodeBefore(list, u), w, v)
    BY <1>1, <2>2, InsertOrder
  <2> QED
    BY <2>1, <2>3 DEF LinedUp
<1>4. CASE HostOf[w] # HostOf[u]
  BY <1>1, <1>2, <1>4 DEF LinedUp
<1> QED
  BY <1>3, <1>4

\* A worker that leaves lets the others stand in order.
LEMMA UnregisteredOrder ==
    ASSUME NEW r, RegistryOK(r), NEW u \in Workers, Listed(r, u),
           NEW w \in Workers, NEW v, u # w, u # v, LinedUp(r, w, v)
    PROVE  LinedUp(Unregistered(r, u), w, v)
<1> DEFINE list == r.worker_info_list[HostOf[u]]
<1>1. /\ r.worker_info_list \in [Hosts -> Seq(Workers)]
      /\ HostOf[u] \in Hosts /\ HostOf[w] \in Hosts
      /\ list \in Seq(Workers) /\ IsList(list) /\ u \in Nodes(list)
  BY WorkerLists DEF Listed
<1>2. Unregistered(r, u).worker_info_list
         = [r.worker_info_list EXCEPT ![HostOf[u]] = DeleteListNode(list, u)]
  BY DEF Unregistered, RegistryOK, Registry
<1>3. CASE HostOf[w] = HostOf[u]
  <2>1. Unregistered(r, u).worker_info_list[HostOf[w]] = DeleteListNode(list, u)
    BY <1>1, <1>2, <1>3
  <2>2. Before(list, w, v)
    BY <1>3 DEF LinedUp
  <2>3. Before(DeleteListNode(list, u), w, v)
    BY <1>1, <2>2, DeleteOrder
  <2> QED
    BY <2>1, <2>3 DEF LinedUp
<1>4. CASE HostOf[w] # HostOf[u]
  BY <1>1, <1>2, <1>4 DEF LinedUp
<1> QED
  BY <1>3, <1>4

\* Among the free workers of a host the first is found.
LEMMA FoundFirst ==
    ASSUME NEW r, RegistryOK(r), NEW o, NEW v \in Workers, Found(r, o, v),
           NEW w \in Workers, HostOf[w] = HostOf[v], LinedUp(r, w, v)
    PROVE  ~Free(r, w)
<1> DEFINE list == r.worker_info_list[HostOf[v]]
<1>1. list \in Seq(Workers) /\ IsList(list) /\ Before(list, w, v)
  BY WorkerLists DEF LinedUp
<1>2. \E i \in 1..(Place(list, v) - 1) : list[i] = w
  BY <1>1, BeforePlace
<1> QED
  BY <1>2 DEF Found
=============================================================================
