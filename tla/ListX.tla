------------------------------- MODULE ListX -------------------------------
(***************************************************************************)
(* The doubly linked lists of src/src/util/ListX.c as the register server  *)
(* uses them.  A list is the sequence of its nodes from head to tail, and  *)
(* a node is the value it carries: no list holds the same node twice.      *)
(***************************************************************************)
EXTENDS Integers, Sequences

Nodes(list) == {list[i] : i \in DOMAIN list}

\* Every node stands at one place only.
IsList(list) == \A i, j \in DOMAIN list : list[i] = list[j] => i = j

Place(list, node) == CHOOSE i \in DOMAIN list : list[i] = node

IsLastListNode(list, node) == Place(list, node) = Len(list)

FindNextListNode(list, node) == list[Place(list, node) + 1]

\* At the tail.
AddListNode(list, node) == Append(list, node)

\* Before the head, as both callers in the register server ask.
InsertListNodeBefore(list, node) == <<node>> \o list

DeleteListNode(list, node) ==
    [i \in 1..(Len(list) - 1) |->
        IF i < Place(list, node) THEN list[i] ELSE list[i + 1]]

\* DetachListNode and AttachListNodeAfter the last node.
MoveToTail(list, node) == AddListNode(DeleteListNode(list, node), node)

\* node changes places with the node after it.
SwapNeighborListNodes(list, node) ==
    [list EXCEPT ![Place(list, node)] = FindNextListNode(list, node),
                 ![Place(list, node) + 1] = node]
=============================================================================
