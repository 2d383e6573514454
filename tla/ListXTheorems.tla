--------------------------- MODULE ListXTheorems ---------------------------
(***************************************************************************)
(* What the list operations of ListX keep: a list of distinct nodes stays  *)
(* one, and the set of its nodes changes as the operation says.            *)
(***************************************************************************)
EXTENDS ListX, FiniteSetTheorems, TLAPS

\* The place of a node of a list is a position that holds it, and no other
\* position does.
LEMMA PlaceOf ==
    ASSUME NEW S, NEW list \in Seq(S), IsList(list), NEW x \in Nodes(list)
    PROVE  /\ Place(list, x) \in 1..Len(list)
           /\ list[Place(list, x)] = x
           /\ \A i \in 1..Len(list) : list[i] = x => i = Place(list, x)
<1>1. PICK i \in DOMAIN list : list[i] = x
  BY DEF Nodes
<1>2. Place(list, x) \in DOMAIN list /\ list[Place(list, x)] = x
  BY <1>1 DEF Place
<1> QED
  BY <1>2 DEF IsList

\* Lists have finitely many nodes.
LEMMA NodesFinite ==
    ASSUME NEW S, NEW list \in Seq(S)
    PROVE  IsFiniteSet(Nodes(list))
<1> DEFINE f == [i \in 1..Len(list) |-> list[i]]
<1>1. f \in Surjection(1..Len(list), Nodes(list))
  BY DEF Nodes, Surjection
<1>2. IsFiniteSet(1..Len(list))
  BY FS_Interval
<1> QED
  BY <1>1, <1>2, FS_Surjection

\* A list is empty exactly if it has no node.
LEMMA NoNodes ==
    ASSUME NEW S, NEW list \in Seq(S)
    PROVE  list = <<>> <=> Nodes(list) = {}
<1>1. ASSUME list # <<>>
      PROVE  Nodes(list) # {}
  <2>1. 1 \in DOMAIN list
    BY <1>1
  <2> QED
    BY <2>1 DEF Nodes
<1>2. Nodes(<<>>) = {}
  BY DEF Nodes
<1> QED
  BY <1>1, <1>2

\* A new node at the tail.
LEMMA AddKeeps ==
    ASSUME NEW S, NEW list \in Seq(S), IsList(list), NEW x \in S,
           x \notin Nodes(list)
    PROVE  /\ AddListNode(list, x) \in Seq(S)
           /\ IsList(AddListNode(list, x))
           /\ Nodes(AddListNode(list, x)) = Nodes(list) \cup {x}
<1> DEFINE new == Append(list, x)
<1>1. /\ new \in Seq(S)
      /\ Len(new) = Len(list) + 1
      /\ DOMAIN new = 1..(Len(list) + 1)
      /\ \A i \in 1..Len(list) : new[i] = list[i]
      /\ new[Len(list) + 1] = x
  OBVIOUS
<1>2. DOMAIN list = 1..Len(list) /\ Len(list) \in Nat
  OBVIOUS
<1> HIDE DEF new
<1>3. IsList(new)
  BY <1>1, <1>2 DEF IsList, Nodes
<1>4. Nodes(new) = Nodes(list) \cup {x}
  BY <1>1, <1>2 DEF Nodes
<1> QED
  BY <1>1, <1>3, <1>4 DEF AddListNode, new

\* A new node at the head.
LEMMA InsertKeeps ==
    ASSUME NEW S, NEW list \in Seq(S), IsList(list), NEW x \in S,
           x \notin Nodes(list)
    PROVE  /\ InsertListNodeBefore(list, x) \in Seq(S)
           /\ IsList(InsertListNodeBefore(list, x))
           /\ Nodes(InsertListNodeBefore(list, x)) = Nodes(list) \cup {x}
<1> DEFINE new == <<x>> \o list
<1>1. /\ new \in Seq(S)
      /\ Len(new) = Len(list) + 1
      /\ DOMAIN new = 1..(Len(list) + 1)
      /\ \A i \in 1..Len(list) : new[i + 1] = list[i]
      /\ new[1] = x
  OBVIOUS
<1>2. DOMAIN list = 1..Len(list) /\ Len(list) \in Nat
  OBVIOUS
<1> HIDE DEF new
<1>0. \A i \in 2..(Len(list) + 1) : new[i] = list[i - 1] /\ i - 1 \in 1..Len(list)
  <2> TAKE i \in 2..(Len(list) + 1)
  <2>1. i - 1 \in 1..Len(list) /\ (i - 1) + 1 = i
    BY <1>2
  <2> QED
    BY <2>1, <1>1
<1>3. IsList(new)
  <2> SUFFICES ASSUME NEW i \in 1..(Len(list) + 1), NEW j \in 1..(Len(list) + 1),
                      new[i] = new[j]
               PROVE  i = j
    BY <1>1 DEF IsList
  <2>1. CASE i = 1 /\ j = 1
    BY <2>1
  <2>2. CASE i # 1 /\ j # 1
    <3>1. list[i - 1] = list[j - 1] /\ i - 1 \in 1..Len(list) /\ j - 1 \in 1..Len(list)
      BY <2>2, <1>0, <1>2
    <3>2. i - 1 = j - 1
      BY <3>1, <1>2 DEF IsList
    <3> QED
      BY <3>2, <1>2
  <2>3. CASE i = 1 /\ j # 1
    BY <2>3, <1>0, <1>1, <1>2 DEF Nodes
  <2>4. CASE i # 1 /\ j = 1
    BY <2>4, <1>0, <1>1, <1>2 DEF Nodes
  <2> QED
    BY <2>1, <2>2, <2>3, <2>4
<1>4. Nodes(new) = Nodes(list) \cup {x}
  <2>1. ASSUME NEW i \in 1..(Len(list) + 1)
        PROVE  new[i] \in Nodes(list) \cup {x}
    <3>1. CASE i = 1
      BY <3>1, <1>1
    <3>2. CASE i # 1
      <4>1. i \in 2..(Len(list) + 1)
        BY <3>2, <1>2
      <4> QED
        BY <4>1, <1>0, <1>2 DEF Nodes
    <3> QED
      BY <3>1, <3>2
  <2>2. ASSUME NEW i \in 1..Len(list)
        PROVE  list[i] \in Nodes(new)
    <3>1. i + 1 \in DOMAIN new
      BY <1>1, <1>2
    <3> QED
      BY <3>1, <1>1 DEF Nodes
  <2>3. x \in Nodes(new)
    <3>1. 1 \in DOMAIN new
      BY <1>1, <1>2
    <3> QED
      BY <3>1, <1>1 DEF Nodes
  <2>4. Nodes(new) \subseteq Nodes(list) \cup {x}
    BY <2>1, <1>1 DEF Nodes
  <2>5. Nodes(list) \subseteq Nodes(new)
    BY <2>2, <1>2 DEF Nodes
  <2> QED
    BY <2>3, <2>4, <2>5
<1> QED
  BY <1>1, <1>3, <1>4 DEF InsertListNodeBefore, new

\* A node is taken out.
LEMMA DeleteKeeps ==
    ASSUME NEW S, NEW list \in Seq(S), IsList(list), NEW x \in Nodes(list)
    PROVE  /\ DeleteListNode(list, x) \in Seq(S)
           /\ IsList(DeleteListNode(list, x))
           /\ Nodes(DeleteListNode(list, x)) = Nodes(list) \ {x}
<1> DEFINE p == Place(list, x)
           n == Len(list)
           new == [i \in 1..(n - 1) |-> IF i < p THEN list[i] ELSE list[i + 1]]
<1>1. /\ p \in 1..n
      /\ list[p] = x
      /\ \A i \in 1..n : list[i] = x => i = p
  BY PlaceOf
<1>2. DOMAIN list = 1..n /\ n \in Nat /\ \A i \in 1..n : list[i] \in S
  OBVIOUS
<1>3. DeleteListNode(list, x) = new
  BY DEF DeleteListNode
<1> HIDE DEF p, n
<1>4. /\ new \in Seq(S)
      /\ DOMAIN new = 1..(n - 1)
  <2>1. n - 1 \in Nat
    BY <1>1, <1>2
  <2>2. \A i \in 1..(n - 1) : i \in 1..n /\ i + 1 \in 1..n
    BY <1>2
  <2>3. new \in [1..(n - 1) -> S]
    BY <2>2, <1>2
  <2>4. new \in Seq(S)
    BY <2>1, <2>3
  <2> QED
    BY <2>4
<1>5. /\ \A i \in 1..(n - 1) : i < p => new[i] = list[i]
      /\ \A i \in 1..(n - 1) : ~(i < p) => new[i] = list[i + 1]
  OBVIOUS
<1> HIDE DEF new
<1>6. IsList(new)
  <2> SUFFICES ASSUME NEW i \in 1..(n - 1), NEW j \in 1..(n - 1),
                      new[i] = new[j]
               PROVE  i = j
    BY <1>4 DEF IsList
  <2>1. i \in 1..n /\ j \in 1..n /\ i + 1 \in 1..n /\ j + 1 \in 1..n
    BY <1>2
  <2>2. CASE i < p /\ j < p
    BY <2>1, <2>2, <1>2, <1>5 DEF IsList
  <2>3. CASE ~(i < p) /\ ~(j < p)
    <3>1. list[i + 1] = list[j + 1]
      BY <2>3, <1>5
    <3>2. i + 1 = j + 1
      BY <3>1, <2>1, <1>2 DEF IsList
    <3> QED
      BY <3>2, <1>2
  <2>4. CASE i < p /\ ~(j < p)
    <3>1. list[i] = list[j + 1]
      BY <2>4, <1>5
    <3>2. i = j + 1
      BY <3>1, <2>1, <1>2 DEF IsList
    <3> QED
      BY <3>2, <2>4, <1>1, <1>2
  <2>5. CASE ~(i < p) /\ j < p
    <3>1. list[j] = list[i + 1]
      BY <2>5, <1>5
    <3>2. j = i + 1
      BY <3>1, <2>1, <1>2 DEF IsList
    <3> QED
      BY <3>2, <2>5, <1>1, <1>2
  <2> QED
    BY <2>2, <2>3, <2>4, <2>5
<1>7. Nodes(new) \subseteq Nodes(list) \ {x}
  <2> SUFFICES ASSUME NEW i \in 1..(n - 1)
               PROVE  new[i] \in Nodes(list) \ {x}
    BY <1>4 DEF Nodes
  <2>1. i \in 1..n /\ i + 1 \in 1..n
    BY <1>2
  <2>2. CASE i < p
    BY <2>1, <2>2, <1>1, <1>2, <1>5 DEF Nodes
  <2>3. CASE ~(i < p)
    <3>1. i + 1 # p
      BY <2>3, <1>1, <1>2
    <3> QED
      BY <2>1, <2>3, <3>1, <1>1, <1>2, <1>5 DEF Nodes
  <2> QED
    BY <2>2, <2>3
<1>8. Nodes(list) \ {x} \subseteq Nodes(new)
  <2> SUFFICES ASSUME NEW i \in 1..n, list[i] # x
               PROVE  \E j \in 1..(n - 1) : new[j] = list[i]
    BY <1>2, <1>4 DEF Nodes
  <2>1. i # p
    BY <1>1
  <2>2. CASE i < p
    <3>1. i \in 1..(n - 1)
      BY <2>2, <1>1, <1>2
    <3> QED
      BY <3>1, <2>2, <1>5
  <2>3. CASE ~(i < p)
    <3>1. i - 1 \in 1..(n - 1) /\ ~(i - 1 < p) /\ (i - 1) + 1 = i
      BY <2>1, <2>3, <1>1, <1>2
    <3> QED
      BY <3>1, <1>5
  <2> QED
    BY <2>2, <2>3
<1> QED
  BY <1>3, <1>4, <1>6, <1>7, <1>8

\* A node goes to the tail.
LEMMA MoveKeeps ==
    ASSUME NEW S, NEW list \in Seq(S), IsList(list), NEW x \in Nodes(list)
    PROVE  /\ MoveToTail(list, x) \in Seq(S)
           /\ IsList(MoveToTail(list, x))
           /\ Nodes(MoveToTail(list, x)) = Nodes(list)
<1> DEFINE rest == DeleteListNode(list, x)
<1>1. /\ rest \in Seq(S)
      /\ IsList(rest)
      /\ Nodes(rest) = Nodes(list) \ {x}
  BY DeleteKeeps
<1>2. x \in S
  BY DEF Nodes
<1> HIDE DEF rest
<1>3. /\ AddListNode(rest, x) \in Seq(S)
      /\ IsList(AddListNode(rest, x))
      /\ Nodes(AddListNode(rest, x)) = Nodes(rest) \cup {x}
  BY <1>1, <1>2, AddKeeps
<1> QED
  BY <1>1, <1>3 DEF MoveToTail, rest

\* Two neighbours change places.
LEMMA SwapKeeps ==
    ASSUME NEW S, NEW list \in Seq(S), IsList(list), NEW x \in Nodes(list),
           ~IsLastListNode(list, x)
    PROVE  /\ SwapNeighborListNodes(list, x) \in Seq(S)
           /\ IsList(SwapNeighborListNodes(list, x))
           /\ Nodes(SwapNeighborListNodes(list, x)) = Nodes(list)
<1> DEFINE p == Place(list, x)
           n == Len(list)
           new == [list EXCEPT ![p] = list[p + 1], ![p + 1] = x]
<1>1. /\ p \in 1..n
      /\ list[p] = x
      /\ p # n
  BY PlaceOf DEF IsLastListNode
<1>2. DOMAIN list = 1..n /\ n \in Nat /\ \A i \in 1..n : list[i] \in S
  OBVIOUS
<1>3. SwapNeighborListNodes(list, x) = new
  BY DEF SwapNeighborListNodes, FindNextListNode
<1> HIDE DEF p, n
<1>4. p + 1 \in 1..n /\ p # p + 1
  BY <1>1, <1>2
<1>5. /\ new \in Seq(S)
      /\ DOMAIN new = 1..n
  <2>1. new \in [1..n -> S]
    BY <1>1, <1>2, <1>4
  <2> HIDE DEF new
  <2>2. DOMAIN new = 1..n
    BY <2>1
  <2>3. new \in Seq(S)
    BY <2>1, <1>2
  <2> QED
    BY <2>2, <2>3
<1>6. /\ new[p] = list[p + 1]
      /\ new[p + 1] = list[p]
      /\ \A i \in 1..n : i # p /\ i # p + 1 => new[i] = list[i]
  BY <1>1, <1>2, <1>4
<1> HIDE DEF new
<1>7. IsList(new)
  BY <1>1, <1>2, <1>4, <1>5, <1>6 DEF IsList
<1>8. Nodes(new) = Nodes(list)
  BY <1>1, <1>2, <1>4, <1>5, <1>6 DEF Nodes
<1> QED
  BY <1>3, <1>5, <1>7, <1>8
-----------------------------------------------------------------------------
(* The order of the nodes.                                                  *)

\* x stands nearer to the head than y.
Before(list, x, y) ==
    \E i, j \in DOMAIN list : i < j /\ list[i] = x /\ list[j] = y

\* Then it stands at a place before the one of y.
LEMMA BeforePlace ==
    ASSUME NEW S, NEW list \in Seq(S), IsList(list), NEW x, NEW y,
           Before(list, x, y)
    PROVE  \E i \in 1..(Place(list, y) - 1) : list[i] = x
<1>1. PICK i \in 1..Len(list), j \in 1..Len(list) :
          i < j /\ list[i] = x /\ list[j] = y
  BY DEF Before
<1>2. y \in Nodes(list)
  BY <1>1 DEF Nodes
<1>3. j = Place(list, y)
  BY <1>1, <1>2, PlaceOf
<1> QED
  BY <1>1, <1>3

\* A new node at the head leaves the others in order.
LEMMA InsertOrder ==
    ASSUME NEW S, NEW list \in Seq(S), NEW z \in S, NEW x, NEW y,
           Before(list, x, y)
    PROVE  Before(InsertListNodeBefore(list, z), x, y)
<1> DEFINE new == <<z>> \o list
<1>1. PICK i \in 1..Len(list), j \in 1..Len(list) :
          i < j /\ list[i] = x /\ list[j] = y
  BY DEF Before
<1>2. /\ DOMAIN new = 1..(Len(list) + 1)
      /\ \A k \in 1..Len(list) : new[k + 1] = list[k]
      /\ Len(list) \in Nat
  OBVIOUS
<1> HIDE DEF new
<1>3. /\ i + 1 \in DOMAIN new /\ j + 1 \in DOMAIN new /\ i + 1 < j + 1
      /\ new[i + 1] = x /\ new[j + 1] = y
  BY <1>1, <1>2
<1>4. Before(new, x, y)
  BY <1>3 DEF Before
<1> QED
  BY <1>4 DEF InsertListNodeBefore, new

\* So does taking one out.
LEMMA DeleteOrder ==
    ASSUME NEW S, NEW list \in Seq(S), IsList(list), NEW z \in Nodes(list),
           NEW x, NEW y, x # z, y # z, Before(list, x, y)
    PROVE  Before(DeleteListNode(list, z), x, y)
<1> DEFINE p == Place(list, z)
           n == Len(list)
           new == [k \in 1..(n - 1) |-> IF k < p THEN list[k] ELSE list[k + 1]]
<1>1. PICK i \in 1..n, j \in 1..n : i < j /\ list[i] = x /\ list[j] = y
  BY DEF Before
<1>2. p \in 1..n /\ list[p] = z /\ n \in Nat
  BY PlaceOf
<1>3. DeleteListNode(list, z) = new
  BY DEF DeleteListNode
<1> HIDE DEF p, n
<1>4. i # p /\ j # p
  BY <1>1, <1>2
<1>5. ASSUME NEW k \in 1..n, k < p
      PROVE  k \in 1..(n - 1) /\ new[k] = list[k]
  BY <1>2, <1>5
<1>6. ASSUME NEW k \in 1..n, k > p
      PROVE  k - 1 \in 1..(n - 1) /\ new[k - 1] = list[k]
  <2>1. k - 1 \in 1..(n - 1) /\ ~(k - 1 < p) /\ (k - 1) + 1 = k
    BY <1>2, <1>6
  <2> QED
    BY <2>1
<1>7. DOMAIN new = 1..(n - 1)
  OBVIOUS
<1> HIDE DEF new
<1>8. CASE j < p
  <2>1. i < p
    BY <1>1, <1>2, <1>8
  <2> QED
    BY <1>1, <1>3, <1>5, <1>7, <1>8, <2>1 DEF Before
<1>9. CASE i > p
  <2>1. j > p /\ i - 1 < j - 1
    BY <1>1, <1>2, <1>9
  <2> QED
    BY <1>1, <1>3, <1>6, <1>7, <1>9, <2>1 DEF Before
<1>10. CASE i < p /\ j > p
  <2>1. i \in 1..(n - 1) /\ new[i] = x
    BY <1>1, <1>5, <1>10
  <2>2. j - 1 \in 1..(n - 1) /\ new[j - 1] = y
    BY <1>1, <1>6, <1>10
  <2>3. i < j - 1
    BY <1>1, <1>2, <1>10
  <2> QED
    BY <1>3, <1>7, <2>1, <2>2, <2>3 DEF Before
<1> QED
  BY <1>1, <1>2, <1>4, <1>8, <1>9, <1>10

\* A node at the tail stands behind all the others, which stay in order.
LEMMA AddOrder ==
    ASSUME NEW S, NEW list \in Seq(S), NEW z \in S
    PROVE  /\ \A x \in Nodes(list) : Before(AddListNode(list, z), x, z)
           /\ \A x, y : Before(list, x, y)
                           => Before(AddListNode(list, z), x, y)
<1> DEFINE new == Append(list, z)
<1>1. /\ DOMAIN new = 1..(Len(list) + 1)
      /\ DOMAIN list = 1..Len(list) /\ Len(list) \in Nat
      /\ \A k \in 1..Len(list) : new[k] = list[k]
      /\ new[Len(list) + 1] = z
  OBVIOUS
<1> HIDE DEF new
<1>2. ASSUME NEW x \in Nodes(list) PROVE Before(new, x, z)
  <2>1. PICK i \in 1..Len(list) : list[i] = x
    BY <1>1 DEF Nodes
  <2>2. /\ i \in DOMAIN new /\ Len(list) + 1 \in DOMAIN new
        /\ i < Len(list) + 1
    BY <1>1, <2>1
  <2> QED
    BY <1>1, <2>1, <2>2 DEF Before
<1>3. ASSUME NEW x, NEW y, Before(list, x, y) PROVE Before(new, x, y)
  <2>1. PICK i \in 1..Len(list), j \in 1..Len(list) :
            i < j /\ list[i] = x /\ list[j] = y
    BY <1>1, <1>3 DEF Before
  <2>2. i \in DOMAIN new /\ j \in DOMAIN new /\ new[i] = x /\ new[j] = y
    BY <1>1, <2>1
  <2> QED
    BY <2>1, <2>2 DEF Before
<1> QED
  BY <1>2, <1>3 DEF AddListNode, new

\* The same of a node that goes to the tail.
LEMMA MoveOrder ==
    ASSUME NEW S, NEW list \in Seq(S), IsList(list), NEW z \in Nodes(list),
           NEW x, x # z
    PROVE  /\ x \in Nodes(list) => Before(MoveToTail(list, z), x, z)
           /\ \A y : y # z /\ Before(list, x, y)
                        => Before(MoveToTail(list, z), x, y)
<1>1. /\ DeleteListNode(list, z) \in Seq(S)
      /\ Nodes(DeleteListNode(list, z)) = Nodes(list) \ {z}
      /\ z \in S
  <2>1. z \in S
    BY DEF Nodes
  <2> QED
    BY <2>1, DeleteKeeps
<1>2. \A y : y # z /\ Before(list, x, y)
                => Before(DeleteListNode(list, z), x, y)
  BY DeleteOrder
<1> QED
  BY <1>1, <1>2, AddOrder DEF MoveToTail
=============================================================================
