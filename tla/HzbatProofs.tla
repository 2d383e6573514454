---------------------------- MODULE HzbatProofs ----------------------------
(***************************************************************************)
(* Proofs about hzbat, with the DAG engine and the API for several batches *)
(* under it, for every set of schedules, every number of tasks, faults,    *)
(* lost records and runs.                                                  *)
(*                                                                         *)
(* The lemmas go from the data to the steps: what the operators on         *)
(* sequences and on one environment give; what a turn of one batch, a call *)
(* that has returned and the steps of hzbat itself have in common (Kinds:  *)
(* six kinds of steps stand for all the actions); that each part of the    *)
(* invariant is kept by every kind.                                        *)
(*                                                                         *)
(* Two theorems hold for some configurations only, and say so: EndsLast    *)
(* and BeginsAlone are about the order and the places of the directions,   *)
(* which the loader does not look at.                                      *)
(***************************************************************************)
EXTENDS Hzbat, TaskEnvTheorems, SequenceTheorems, WellFoundedInduction, TLAPS

-----------------------------------------------------------------------------
(* Numbers and sequences.                                                   *)

\* A set of numbers has a least one.
LEMMA LeastNumber ==
    ASSUME NEW T \in SUBSET Nat, T # {}
    PROVE  \E n \in T : \A m \in T : n <= m
<1>1. IsWellFoundedOn(OpToRel(<, Nat), Nat)
  BY NatLessThanWellFounded
<1>2. \A x, y \in Nat : x < y => <<x, y>> \in OpToRel(<, Nat)
  BY DEF OpToRel
<1>3. PICK n \in T : \A m \in T : <<m, n>> \notin OpToRel(<, Nat)
  BY <1>1, WFMin
<1>4. \A m \in T : ~(m < n)
  BY <1>2, <1>3
<1> QED
  BY <1>4

\* The places of n things repeated v times.
LEMMA Repeated ==
    ASSUME NEW n \in Nat, NEW v \in Nat \ {0}
    PROVE  /\ n * v \in Nat
           /\ \A i \in 1..n : i \in 1..(n * v) /\ ((i - 1) % n) + 1 = i
           /\ \A i \in 1..(n * v) : /\ ((i - 1) % n) + 1 \in 1..n
                                    /\ ((i - 1) % n) + 1 <= i
<1>1. n * v \in Nat /\ n * v >= n
  OBVIOUS
<1>2. ASSUME NEW i \in 1..n PROVE i \in 1..(n * v) /\ ((i - 1) % n) + 1 = i
  BY <1>1
<1>3. ASSUME NEW i \in 1..(n * v)
      PROVE  ((i - 1) % n) + 1 \in 1..n /\ ((i - 1) % n) + 1 <= i
  <2>1. n # 0
    OBVIOUS
  <2>2. i - 1 \in Nat
    BY <1>1
  <2>3. PICK m \in Nat : m = i - 1
    BY <2>2
  <2>4. m % n \in 0..(n - 1) /\ m % n <= m
    BY <2>1
  <2> QED
    BY <2>1, <2>3, <2>4
<1> QED
  BY <1>1, <1>2, <1>3

\* SelectInSeq finds the first place of an element, or none.
LEMMA FirstPlace ==
    ASSUME NEW q, Len(q) \in Nat, NEW e
    PROVE  \E i :
             /\ i = SelectInSeq(q, LAMBDA c : c = e)
             /\ \/ i = 0 /\ \A j \in 1..Len(q) : q[j] # e
                \/ i \in 1..Len(q) /\ q[i] = e /\ \A j \in 1..(i - 1) : q[j] # e
<1> DEFINE I == {j \in 1..Len(q) : q[j] = e}
           i == IF I # {} THEN Min(I) ELSE 0
<1>1. i = SelectInSeq(q, LAMBDA c : c = e)
  BY DEF SelectInSeq
<1>2. CASE I = {}
  BY <1>1, <1>2
<1>3. CASE I # {}
  <2>1. I \in SUBSET Nat
    OBVIOUS
  <2>2. PICK n \in I : \A m \in I : n <= m
    BY <1>3, <2>1, LeastNumber
  <2>3. Min(I) \in I /\ \A m \in I : Min(I) <= m
    BY <2>2 DEF Min
  <2>4. i \in I /\ \A m \in I : i <= m
    BY <1>3, <2>3
  <2> HIDE DEF i
  <2>5. ASSUME NEW j \in 1..(i - 1) PROVE q[j] # e
    BY <2>4
  <2> QED
    BY <1>1, <2>4, <2>5
<1> QED
  BY <1>2, <1>3

\* f[n] has the elements among the first n of q that are in S.
Selects(f, q, S, m) ==
    f = [n \in 0..m |-> IF n = 0 THEN <<>>
                        ELSE IF q[n] \in S THEN Append(f[n - 1], q[n])
                        ELSE f[n - 1]]

\* The function that Selected is defined by exists: it is built up place by
\* place.
LEMMA SelectedExists ==
    ASSUME NEW q, Len(q) \in Nat, NEW S
    PROVE  \E f : Selects(f, q, S, Len(q))
<1> DEFINE Bad == {m \in Nat : ~ \E f : Selects(f, q, S, m)}
<1> SUFFICES ASSUME Bad # {} PROVE FALSE
  OBVIOUS
<1>1. PICK m \in Bad : \A k \in Bad : m <= k
  BY LeastNumber
<1>2. m # 0
  <2>1. Selects([n \in 0..0 |-> <<>>], q, S, 0)
    BY DEF Selects
  <2> QED
    BY <2>1
<1>3. m \in Nat /\ m - 1 \in Nat /\ m - 1 \notin Bad
  BY <1>1, <1>2
<1>4. PICK f : Selects(f, q, S, m - 1)
  BY <1>3
<1> DEFINE e == IF q[m] \in S THEN Append(f[m - 1], q[m]) ELSE f[m - 1]
           g == [n \in 0..m |-> IF n = m THEN e ELSE f[n]]
<1>5. Selects(g, q, S, m)
  <2>1. \A n \in 0..(m - 1) : g[n] = f[n]
    BY <1>3
  <2>2. g[m] = e
    BY <1>3
  <2>3. ASSUME NEW n \in 0..m
        PROVE  g[n] = IF n = 0 THEN <<>>
                      ELSE IF q[n] \in S THEN Append(g[n - 1], q[n])
                      ELSE g[n - 1]
    <3>1. CASE n = m
      <4>1. g[m - 1] = f[m - 1]
        BY <1>3, <2>1
      <4> QED
        BY <1>2, <2>2, <3>1, <4>1
    <3>2. CASE n \in 0..(m - 1)
      <4>1. f[n] = IF n = 0 THEN <<>>
                   ELSE IF q[n] \in S THEN Append(f[n - 1], q[n])
                   ELSE f[n - 1]
        BY <1>4, <3>2 DEF Selects
      <4>2. n # 0 => g[n - 1] = f[n - 1]
        BY <1>3, <2>1, <3>2
      <4> QED
        BY <2>1, <3>2, <4>1, <4>2
    <3> QED
      BY <1>3, <3>1, <3>2
  <2> QED
    BY <2>3 DEF Selects
<1> QED
  BY <1>1, <1>5

\* What Selected gives is the last value of that function.
LEMMA SelectedBy ==
    ASSUME NEW q, Len(q) \in Nat, NEW S
    PROVE  \E f : Selects(f, q, S, Len(q)) /\ Selected(q, S) = f[Len(q)]
<1> DEFINE f == CHOOSE f : Selects(f, q, S, Len(q))
<1>1. Selects(f, q, S, Len(q))
  BY SelectedExists, Zenon
<1>2. Selected(q, S) = f[Len(q)]
  BY DEF Selected, Selects
<1> QED
  BY <1>1, <1>2

\* place[i] is where the ith element of p is in q; the order is the same.
InOrder(place, p, q, n) ==
    /\ place \in [1..Len(p) -> 1..n]
    /\ \A i \in 1..Len(p) : p[i] = q[place[i]]
    /\ \A i, j \in 1..Len(p) : i < j => place[i] < place[j]

\* What Selected gives: the elements of q that are in S, in order.
LEMMA SelectedElements ==
    ASSUME NEW T, NEW q \in Seq(T), NEW S
    PROVE  /\ Selected(q, S) \in Seq(T)
           /\ ToSet(Selected(q, S)) = ToSet(q) \cap S
           /\ \E place : InOrder(place, Selected(q, S), q, Len(q))
<1>1. Len(q) \in Nat /\ \A i \in 1..Len(q) : q[i] \in T
  BY LenProperties, ElementOfSeq
<1>2. PICK f : Selects(f, q, S, Len(q)) /\ Selected(q, S) = f[Len(q)]
  BY <1>1, SelectedBy
<1>3. /\ f[0] = <<>>
      /\ \A n \in 1..Len(q) :
           f[n] = IF q[n] \in S THEN Append(f[n - 1], q[n]) ELSE f[n - 1]
  <2>1. f = [n \in 0..Len(q) |->
               IF n = 0 THEN <<>>
               ELSE IF q[n] \in S THEN Append(f[n - 1], q[n]) ELSE f[n - 1]]
    BY <1>2 DEF Selects
  <2>2. f[0] = <<>>
    BY <1>1, <2>1
  <2>3. ASSUME NEW n \in 1..Len(q)
        PROVE  f[n] = IF q[n] \in S THEN Append(f[n - 1], q[n]) ELSE f[n - 1]
    <3>1. n \in 0..Len(q) /\ n # 0
      BY <1>1
    <3> QED
      BY <2>1, <3>1, Zenon
  <2> QED
    BY <2>2, <2>3
<1> DEFINE Good(n) == /\ f[n] \in Seq(T)
                      /\ \A e : e \in S /\ (\E i \in 1..n : q[i] = e)
                               <=> \E i \in 1..Len(f[n]) : f[n][i] = e
                      /\ \E place : InOrder(place, f[n], q, n)
           Bad == {n \in 0..Len(q) : ~Good(n)}
<1>4. Good(0)
  <2>1. InOrder(<<>>, f[0], q, 0)
    BY <1>3 DEF InOrder
  <2> QED
    BY <1>3, <2>1
<1>5. ASSUME NEW n \in 1..Len(q), Good(n - 1) PROVE Good(n)
  <2> DEFINE h == f[n - 1]
  <2>1. h \in Seq(T) /\ Len(h) \in Nat
    BY <1>5, LenProperties
  <2>2. PICK place : InOrder(place, h, q, n - 1)
    BY <1>5
  <2>3. /\ place \in [1..Len(h) -> 1..(n - 1)]
        /\ \A i \in 1..Len(h) : h[i] = q[place[i]]
        /\ \A i, j \in 1..Len(h) : i < j => place[i] < place[j]
    BY <2>2 DEF InOrder
  <2>4. CASE q[n] \notin S
    <3>1. f[n] = h
      BY <1>3, <2>4
    <3>2. \A e : e \in S /\ (\E i \in 1..n : q[i] = e)
                <=> e \in S /\ (\E i \in 1..(n - 1) : q[i] = e)
      BY <1>1, <2>4
    <3>3. InOrder(place, f[n], q, n)
      <4>1. place \in [1..Len(h) -> 1..n]
        BY <1>1, <2>3
      <4> QED
        BY <2>3, <3>1, <4>1 DEF InOrder
    <3> QED
      BY <1>5, <3>1, <3>2, <3>3
  <2>5. CASE q[n] \in S
    <3>1. f[n] = Append(h, q[n]) /\ q[n] \in T
      BY <1>1, <1>3, <2>5
    <3>2. /\ f[n] \in Seq(T) /\ Len(f[n]) = Len(h) + 1
          /\ f[n][Len(h) + 1] = q[n]
          /\ \A i \in 1..Len(h) : f[n][i] = h[i]
      BY <2>1, <3>1
    <3>3. /\ Len(h) + 1 \in 1..Len(f[n])
          /\ \A i : i \in 1..Len(f[n]) <=> i = Len(h) + 1 \/ i \in 1..Len(h)
      BY <2>1, <3>2
    <3>4. ASSUME NEW e
          PROVE  e \in S /\ (\E i \in 1..n : q[i] = e)
                    <=> \E i \in 1..Len(f[n]) : f[n][i] = e
      <4>1. (\E i \in 1..Len(f[n]) : f[n][i] = e)
               <=> e = q[n] \/ \E i \in 1..Len(h) : h[i] = e
        BY <3>2, <3>3, Zenon
      <4>2. (\E i \in 1..n : q[i] = e)
               <=> e = q[n] \/ \E i \in 1..(n - 1) : q[i] = e
        BY <1>1
      <4> QED
        BY <1>5, <2>5, <4>1, <4>2
    <3> DEFINE new == [i \in 1..Len(f[n]) |->
                         IF i = Len(h) + 1 THEN n ELSE place[i]]
    <3>5. InOrder(new, f[n], q, n)
      <4>1. new[Len(h) + 1] = n
        BY <3>3
      <4>2. ASSUME NEW i \in 1..Len(h)
            PROVE  new[i] = place[i] /\ place[i] \in 1..(n - 1)
        <5>1. i \in 1..Len(f[n]) /\ i # Len(h) + 1
          BY <2>1, <3>3
        <5> QED
          BY <2>3, <5>1
      <4> HIDE DEF new
      <4>3. \A i \in 1..Len(f[n]) : new[i] \in 1..n
        BY <1>1, <3>3, <4>1, <4>2
      <4>4. \A i \in 1..Len(f[n]) : f[n][i] = q[new[i]]
        BY <2>3, <3>2, <3>3, <4>1, <4>2
      <4>5. ASSUME NEW i \in 1..Len(f[n]), NEW j \in 1..Len(f[n]), i < j
            PROVE  new[i] < new[j]
        <5>1. i \in 1..Len(h)
          BY <2>1, <3>2, <4>5
        <5>2. CASE j = Len(h) + 1
          <6>1. new[i] \in 1..(n - 1) /\ new[j] = n
            BY <4>1, <4>2, <5>1, <5>2
          <6> QED
            BY <1>1, <6>1
        <5>3. CASE j \in 1..Len(h)
          BY <2>3, <4>2, <4>5, <5>1, <5>3
        <5> QED
          BY <3>3, <5>2, <5>3
      <4> QED
        <5>1. new = [i \in 1..Len(f[n]) |-> new[i]]
          BY DEF new
        <5>2. new \in [1..Len(f[n]) -> 1..n]
          BY <4>3, <5>1
        <5> QED
          BY <4>4, <4>5, <5>2 DEF InOrder
    <3> QED
      BY <3>2, <3>4, <3>5
  <2> QED
    BY <2>4, <2>5
<1> HIDE DEF Good
<1>6. Bad = {}
  <2> SUFFICES ASSUME Bad # {} PROVE FALSE
    OBVIOUS
  <2>1. PICK m \in Bad : \A k \in Bad : m <= k
    <3>1. Bad \in SUBSET Nat
      BY <1>1
    <3> QED
      BY <3>1, LeastNumber
  <2>2. m \in 1..Len(q)
    BY <1>1, <1>4, <2>1
  <2>3. Good(m - 1)
    BY <1>1, <2>1, <2>2
  <2> QED
    BY <1>5, <2>1, <2>2, <2>3
<1>7. Good(Len(q))
  BY <1>1, <1>6
<1> QED
  <2> DEFINE p == Selected(q, S)
  <2>1. /\ p \in Seq(T)
        /\ \A e : e \in S /\ (\E i \in 1..Len(q) : q[i] = e)
                 <=> \E i \in 1..Len(p) : p[i] = e
        /\ \E place : InOrder(place, p, q, Len(q))
    BY <1>2, <1>7 DEF Good
  <2> HIDE DEF p
  <2>2. DOMAIN p = 1..Len(p) /\ DOMAIN q = 1..Len(q)
    BY <2>1, LenProperties
  <2>3. ToSet(p) = ToSet(q) \cap S
    BY <2>1, <2>2 DEF ToSet
  <2> QED
    BY <2>1, <2>3 DEF p

\* So nothing is selected twice if nothing is there twice.
LEMMA SelectedOnce ==
    ASSUME NEW T, NEW q \in Seq(T), NEW S,
           \A i, j \in 1..Len(q) : i # j => q[i] # q[j]
    PROVE  \A i, j \in 1..Len(Selected(q, S)) :
              i # j => Selected(q, S)[i] # Selected(q, S)[j]
<1> DEFINE p == Selected(q, S)
<1>1. PICK place : InOrder(place, p, q, Len(q))
  BY SelectedElements
<1>2. Len(q) \in Nat
  BY LenProperties
<1> HIDE DEF p
<1>3. \A i, j \in 1..Len(p) : i # j => p[i] # p[j]
  <2> SUFFICES ASSUME NEW i \in 1..Len(p), NEW j \in 1..Len(p), i # j
               PROVE  p[i] # p[j]
    OBVIOUS
  <2>1. place[i] \in 1..Len(q) /\ place[j] \in 1..Len(q) /\ place[i] # place[j]
    BY <1>1, <1>2 DEF InOrder
  <2> QED
    BY <1>1, <2>1 DEF InOrder
<1> QED
  BY <1>3 DEF p

-----------------------------------------------------------------------------
(* The directions of a schedule.                                            *)

\* What a direction may lead from and to; Terminal is the begin or the end.
Places(s) == BatchesOf(s) \cup {Terminal}

\* The directions of a schedule lead between its batches, from its begin and to
\* its end; Predepend has the batches they come from.
LEMMA DirectionsLead ==
    ASSUME NEW s \in Schedule
    PROVE  /\ Directions[s] \in Seq(Places(s) \X Places(s))
           /\ BatchesOf(s) \subseteq Batch /\ Terminal \notin Batch
           /\ \A d \in ToSet(Directions[s]) : /\ d[1] \in Places(s)
                                             /\ d[2] \in Places(s)
                                             /\ d = <<d[1], d[2]>>
           /\ \A b, c : b \in Predepend(s, c) <=> <<b, c>> \in ToSet(Directions[s])
<1>1. /\ Directions[s] \in Seq(Places(s) \X Places(s))
      /\ BatchesOf(s) \subseteq Batch /\ Terminal \notin Batch
  BY DagConstants DEF Places
<1>2. ASSUME NEW i \in DOMAIN Directions[s]
      PROVE  Directions[s][i] \in Places(s) \X Places(s)
  <2>1. i \in 1..Len(Directions[s])
    BY <1>1, LenProperties
  <2> QED
    BY <1>1, <2>1, ElementOfSeq
<1>3. \A d \in ToSet(Directions[s]) : d \in Places(s) \X Places(s)
  BY <1>2 DEF ToSet
<1>4. ASSUME NEW b, NEW c
      PROVE  b \in Predepend(s, c) <=> <<b, c>> \in ToSet(Directions[s])
  <2>1. <<b, c>> \in ToSet(Directions[s])
           <=> \E i \in DOMAIN Directions[s] : Directions[s][i] = <<b, c>>
    BY DEF ToSet
  <2>2. <<b, c>> \in ToSet(Directions[s]) => b \in Places(s)
    BY <1>3
  <2> QED
    BY <2>1, <2>2 DEF Predepend, Places
<1>5. ASSUME NEW d \in ToSet(Directions[s])
      PROVE  d[1] \in Places(s) /\ d[2] \in Places(s) /\ d = <<d[1], d[2]>>
  BY <1>3
<1> QED
  BY <1>1, <1>4, <1>5

\* The batches linked behind b are those that have b before them.
LEMMA PostdependElements ==
    ASSUME NEW s \in Schedule, NEW b \in Places(s)
    PROVE  /\ Postdepend(s, b) \in Seq(Places(s))
           /\ \A c : c \in ToSet(Postdepend(s, b)) <=> b \in Predepend(s, c)
<1> DEFINE leaving == Selected(Directions[s], {d \in ToSet(Directions[s]) : d[1] = b})
           targets == Targets(s, b)
           n == Len(targets)
           v == Visits(s)[b]
           post == Postdepend(s, b)
<1>1. /\ leaving \in Seq(Places(s) \X Places(s))
      /\ ToSet(leaving) = {d \in ToSet(Directions[s]) : d[1] = b}
  <2>1. /\ leaving \in Seq(Places(s) \X Places(s))
        /\ ToSet(leaving) = ToSet(Directions[s]) \cap
                               {d \in ToSet(Directions[s]) : d[1] = b}
    BY DirectionsLead, SelectedElements
  <2> QED
    BY <2>1
<1>2. targets = [i \in DOMAIN leaving |-> leaving[i][2]]
  BY DEF Targets
<1> HIDE DEF leaving, targets
<1>3. targets \in Seq(Places(s)) /\ n \in Nat
  <2>1. Len(leaving) \in Nat /\ DOMAIN leaving = 1..Len(leaving)
    BY <1>1, LenProperties
  <2>2. ASSUME NEW i \in 1..Len(leaving) PROVE leaving[i][2] \in Places(s)
    BY <1>1, ElementOfSeq
  <2>3. targets \in [1..Len(leaving) -> Places(s)]
    BY <1>2, <2>1, <2>2
  <2>4. targets \in Seq(Places(s))
    BY <2>1, <2>3
  <2> QED
    BY <2>4, LenProperties
<1>4. \A c : (\E i \in 1..n : targets[i] = c) <=> b \in Predepend(s, c)
  <2>1. DOMAIN targets = 1..n
    BY <1>3, LenProperties
  <2>2. \A c : (\E i \in 1..n : targets[i] = c)
               <=> \E d \in ToSet(leaving) : d[2] = c
    BY <1>2, <2>1 DEF ToSet
  <2>3. ASSUME NEW c
        PROVE  (\E d \in ToSet(leaving) : d[2] = c)
                  <=> <<b, c>> \in ToSet(Directions[s])
    <3>1. ASSUME NEW d \in ToSet(leaving), d[2] = c
          PROVE  <<b, c>> \in ToSet(Directions[s])
      <4>1. d \in ToSet(Directions[s]) /\ d[1] = b
        BY <1>1
      <4>2. d = <<d[1], d[2]>>
        BY <4>1, DirectionsLead
      <4> QED
        BY <3>1, <4>1, <4>2
    <3>2. ASSUME <<b, c>> \in ToSet(Directions[s])
          PROVE  \E d \in ToSet(leaving) : d[2] = c
      <4>1. <<b, c>> \in ToSet(leaving)
        BY <1>1, <3>2
      <4> QED
        BY <4>1
    <3> QED
      BY <3>1, <3>2
  <2> QED
    BY <2>2, <2>3, DirectionsLead
<1>5. v \in Nat \ {0}
  BY NoCycle DEF Places
<1>6. post = [i \in 1..(n * v) |-> targets[((i - 1) % n) + 1]]
  <2>1. post = Linked(s, b)
    BY DEF Postdepend, postdepend_batches_list, Places
  <2> QED
    BY <2>1 DEF Linked, targets
<1> HIDE DEF post, v, n
<1>7. /\ n * v \in Nat
      /\ \A i \in 1..n : i \in 1..(n * v) /\ ((i - 1) % n) + 1 = i
      /\ \A i \in 1..(n * v) : ((i - 1) % n) + 1 \in 1..n
  BY <1>3, <1>5, Repeated
<1>8. \A i \in 1..n : targets[i] \in Places(s)
  BY <1>3, ElementOfSeq DEF n
<1>9. post \in [1..(n * v) -> Places(s)]
  BY <1>6, <1>7, <1>8
<1>10. ASSUME NEW c
       PROVE  (\E i \in 1..(n * v) : post[i] = c) <=> \E i \in 1..n : targets[i] = c
  <2>1. ASSUME NEW i \in 1..(n * v) PROVE \E j \in 1..n : targets[j] = post[i]
    BY <1>6, <1>7
  <2>2. ASSUME NEW i \in 1..n PROVE i \in 1..(n * v) /\ post[i] = targets[i]
    BY <1>6, <1>7
  <2> QED
    BY <2>1, <2>2
<1>11. /\ post \in Seq(Places(s))
       /\ \A c : c \in ToSet(post) <=> \E i \in 1..(n * v) : post[i] = c
  BY <1>7, <1>9 DEF ToSet
<1> QED
  BY <1>4, <1>10, <1>11 DEF post

-----------------------------------------------------------------------------
(* The tasks of one environment that move together.                         *)

\* Waiting tasks get workers.
LEMMA StartedAllOK ==
    ASSUME NEW x, EnvOK(x), NEW started \in SUBSET Waiting(x), NEW y,
           y = StartedAll(x, started),
           y.unused >= 0, y.running_count <= y.workers_count
    PROVE  /\ Kept(x, y)
           /\ y.interrupt_code = x.interrupt_code /\ y.error = x.error
           /\ \A t \in TasksOf(x) : y.progress[t] = IF t \in started THEN EXECUTING
                                                  ELSE x.progress[t]
<1> DEFINE n == Cardinality(started)
           p == [t \in TasksOf(x) |->
                   IF t \in started THEN EXECUTING ELSE x.progress[t]]
<1>1. y = [x EXCEPT !.unused = x.unused - n,
                    !.prepare_count = x.prepare_count - n,
                    !.running_count = x.running_count + n,
                    !.progress = p]
  BY DEF StartedAll, EnvOK, Env
<1>2. /\ started \subseteq TasksOf(x) /\ started \subseteq Pending(x)
      /\ started \cap Executing(x) = {}
  BY DEF Waiting, Pending, Executing, WAITFOR_CONNECTING, EXECUTING
<1>3. /\ IsFiniteSet(Executing(x)) /\ IsFiniteSet(Pending(x))
      /\ IsFiniteSet(started) /\ n \in Nat
  BY <1>2, TaskSetsFinite, FS_Subset, FS_CardinalityType DEF EnvOK
<1> HIDE DEF n
<1>4. /\ y.unused = x.unused - n
      /\ y.prepare_count = x.prepare_count - n
      /\ y.running_count = x.running_count + n
      /\ y.progress = p /\ y.error = x.error
      /\ y.finished_count = x.finished_count
      /\ y.tasks_count = x.tasks_count /\ y.workers_count = x.workers_count
      /\ y.by_app = x.by_app /\ y.interrupt_code = x.interrupt_code
  BY <1>1 DEF EnvOK, Env
<1>5. EnvOK(y)
  <2>1. /\ x.unused - n \in Nat
        /\ x.prepare_count - n \in Int
        /\ x.running_count + n \in Int
        /\ p \in [TasksOf(x) -> Progress]
    BY <1>3, <1>4 DEF EnvOK, Env, TasksOf, Progress
  <2> HIDE DEF p
  <2> QED
    BY <1>1, <2>1 DEF EnvOK, Env, TasksOf
<1>6. /\ Executing(y) = Executing(x) \cup started
      /\ Pending(y) = Pending(x) \ started
      /\ Done(y) = Done(x)
  BY <1>2, <1>4 DEF EnvOK, Env, Executing, Pending, Requeued, Done, TasksOf, Waiting,
         EXECUTING, WAITFOR_CONNECTING, FINISHED_WITH_ERROR
<1>7. /\ Cardinality(Executing(y)) = Cardinality(Executing(x)) + n
      /\ Cardinality(Pending(y)) = Cardinality(Pending(x)) - n
  <2>1. Pending(x) \cap started = started
    BY <1>2
  <2>2. Cardinality(Pending(x) \ started) = Cardinality(Pending(x)) - n
    BY <1>3, <2>1, FS_Difference DEF n
  <2>3. /\ Cardinality(Executing(x) \cup started) =
             Cardinality(Executing(x)) + n - Cardinality(Executing(x) \cap started)
    BY <1>3, FS_Union DEF n
  <2>4. Cardinality(Executing(x) \cap started) = 0
    BY <1>2, FS_EmptySet
  <2>5. Cardinality(Executing(x)) \in Nat
    BY <1>3, FS_CardinalityType
  <2> QED
    BY <1>3, <1>6, <2>2, <2>3, <2>4, <2>5
<1>counted. Counted(x) => Counted(y)
  BY <1>4, <1>6, <1>7 DEF Counted
<1>bounded. Bounded(x) => Bounded(y)
  BY DEF Bounded
<1>ignored. NoneIgnored(x) => NoneIgnored(y)
  BY <1>4 DEF TasksOf, NoneIgnored
<1> QED
  BY <1>4, <1>5, <1>counted, <1>bounded, <1>ignored DEF Maintains, Kept

\* After the tasks ejected of x were sent back, and no other moved.
OnlyEjected(x, y, ejected) ==
    \A t \in TasksOf(x) :
        IF t \in ejected
        THEN /\ y.progress[t] = WAITFOR_CONNECTING
             /\ y.error[t] = "ALREADY_EXECUTING"
        ELSE /\ y.progress[t] = x.progress[t]
             /\ y.error[t] = x.error[t]

\* Executing tasks are sent back by workers that are busy.
LEMMA EjectedAllOK ==
    ASSUME NEW x, EnvOK(x), NEW ejected \in SUBSET Executing(x), NEW y,
           y = EjectedAll(x, ejected)
    PROVE  /\ Kept(x, y)
           /\ y.interrupt_code = x.interrupt_code
           /\ OnlyEjected(x, y, ejected)
<1> DEFINE n == Cardinality(ejected)
           p == [t \in TasksOf(x) |->
                   IF t \in ejected THEN WAITFOR_CONNECTING ELSE x.progress[t]]
           e == [t \in TasksOf(x) |->
                   IF t \in ejected THEN "ALREADY_EXECUTING" ELSE x.error[t]]
<1>1. y = [x EXCEPT !.running_count = x.running_count - n,
                    !.prepare_count = x.prepare_count + n,
                    !.progress = p, !.error = e]
  BY DEF EjectedAll, EnvOK, Env
<1>2. ejected \subseteq TasksOf(x) /\ ejected \cap Pending(x) = {}
  BY DEF Requeued, Pending, Executing, WAITFOR_CONNECTING, EXECUTING,
         FINISHED_WITH_ERROR
<1>3. /\ IsFiniteSet(Executing(x)) /\ IsFiniteSet(Pending(x))
      /\ IsFiniteSet(ejected) /\ n \in Nat
  BY TaskSetsFinite, FS_Subset, FS_CardinalityType DEF EnvOK
<1> HIDE DEF n
<1>4. /\ y.prepare_count = x.prepare_count + n
      /\ y.running_count = x.running_count - n
      /\ y.progress = p /\ y.error = e
      /\ y.finished_count = x.finished_count
      /\ y.tasks_count = x.tasks_count /\ y.workers_count = x.workers_count
      /\ y.by_app = x.by_app /\ y.interrupt_code = x.interrupt_code
  BY <1>1 DEF EnvOK, Env
<1>5. EnvOK(y)
  <2>1. /\ x.prepare_count + n \in Int
        /\ x.running_count - n \in Int
        /\ p \in [TasksOf(x) -> Progress]
        /\ e \in [TasksOf(x) -> TaskErrors]
    BY <1>3 DEF EnvOK, Env, TasksOf, Progress, TaskErrors
  <2> HIDE DEF p, e
  <2> QED
    BY <1>1, <2>1 DEF EnvOK, Env, TasksOf
<1>6. /\ Executing(y) = Executing(x) \ ejected
      /\ Pending(y) = Pending(x) \cup ejected
      /\ Done(y) = Done(x)
  BY <1>2, <1>4 DEF EnvOK, Env, Executing, Pending, Requeued, Done, TasksOf,
         EXECUTING, WAITFOR_CONNECTING, FINISHED_WITH_ERROR
<1>7. /\ Cardinality(Executing(y)) = Cardinality(Executing(x)) - n
      /\ Cardinality(Pending(y)) = Cardinality(Pending(x)) + n
  <2>1. Executing(x) \cap ejected = ejected
    OBVIOUS
  <2>2. Cardinality(Executing(x) \ ejected) = Cardinality(Executing(x)) - n
    BY <1>3, <2>1, FS_Difference DEF n
  <2>3. /\ Cardinality(Pending(x) \cup ejected) =
             Cardinality(Pending(x)) + n - Cardinality(Pending(x) \cap ejected)
    BY <1>3, FS_Union DEF n
  <2>4. Cardinality(Pending(x) \cap ejected) = 0
    BY <1>2, FS_EmptySet
  <2>5. Cardinality(Pending(x)) \in Nat
    BY <1>3, FS_CardinalityType
  <2> QED
    BY <1>3, <1>6, <2>2, <2>3, <2>4, <2>5
<1>counted. Counted(x) => Counted(y)
  BY <1>4, <1>6, <1>7 DEF Counted
<1>bounded. Bounded(x) => Bounded(y)
  BY <1>3, <1>4 DEF EnvOK, Env, Bounded
<1>ignored. NoneIgnored(x) => NoneIgnored(y)
  BY <1>4 DEF EnvOK, Env, TasksOf, NoneIgnored
<1>only. OnlyEjected(x, y, ejected)
  BY <1>4 DEF OnlyEjected
<1>kept. Kept(x, y)
  BY <1>4, <1>5, <1>counted, <1>bounded, <1>ignored DEF Maintains, Kept
<1> QED
  BY <1>4, <1>only, <1>kept

-----------------------------------------------------------------------------
(* The turn of one environment.                                             *)

\* What a task of x may have become in y when the turn is over: nothing else,
\* executing, failed before it was started, sent back, failed, or answered for.
Unmoved(x, y, i) == y.progress[i] = x.progress[i] /\ y.error[i] = x.error[i]

Starts(x, y, i) ==
    /\ x.progress[i] = WAITFOR_CONNECTING
    /\ y.progress[i] = EXECUTING
    /\ y.error[i] = x.error[i]

Missed(x, y, i) ==
    /\ x.progress[i] = WAITFOR_CONNECTING
    /\ y.progress[i] = FINISHED_WITH_ERROR
    /\ y.error[i] = "APP"

SentBack(x, y, i) ==
    /\ x.progress[i] = EXECUTING
    /\ y.progress[i] = WAITFOR_CONNECTING
    /\ y.error[i] = "ALREADY_EXECUTING"

Failed(x, y, i) ==
    /\ x.progress[i] = EXECUTING
    /\ y.progress[i] = FINISHED_WITH_ERROR
    /\ y.error[i] \in Errors

Ends(x, y, i) ==
    /\ x.progress[i] = EXECUTING
    /\ \/ y.progress[i] = FINISHED /\ y.error[i] \in {"NONE", "NOT_RUN"}
       \/ y.progress[i] = FINISHED_WITH_ERROR /\ y.error[i] = "STATUS"

Moved(x, y, i) ==
    \/ Unmoved(x, y, i) \/ Starts(x, y, i) \/ Missed(x, y, i)
    \/ SentBack(x, y, i) \/ Failed(x, y, i) \/ Ends(x, y, i)

\* The environment x has become y, the same batch with right counters.
Turned(x, y) == Kept(x, y) /\ \A i \in TasksOf(x) : Moved(x, y, i)

\* A register server is asked, or not.
LEMMA QueriedOK ==
    ASSUME NEW x, EnvOK(x), NEW y \in Queried(x)
    PROVE  /\ Kept(x, y) /\ SameTasks(x, y)
           /\ y.interrupt_code = x.interrupt_code
<1>1. \/ y = x \/ y = RServerConnected(x)
      \/ \E k \in 0..QueryCount(x) : y = GotWorkers(x, k)
  BY DEF Queried
<1>2. CASE y = x
  BY <1>2, SameTasksKept DEF SameTasks
<1>3. CASE y = RServerConnected(x)
  BY <1>3, RServerConnectedOK DEF RServerConnected, EnvOK, Env
<1>4. CASE \E k \in 0..QueryCount(x) : y = GotWorkers(x, k)
  <2>1. PICK k \in 0..QueryCount(x) : y = GotWorkers(x, k)
    BY <1>4
  <2>2. k \in Nat
    BY DEF QueryCount, EnvOK, Env
  <2> QED
    BY <2>1, <2>2, GotWorkersOK DEF GotWorkers, EnvOK, Env
<1> QED
  BY <1>1, <1>2, <1>3, <1>4

\* Tasks are offered: some start, the others wait on.
LEMMA FilledOK ==
    ASSUME NEW x, EnvOK(x), NEW unsent, NEW y \in Filled(x, unsent)
    PROVE  /\ Kept(x, y)
           /\ y.interrupt_code = x.interrupt_code
           /\ \A i \in TasksOf(x) : Unmoved(x, y, i) \/ Starts(x, y, i)
<1>1. CASE ~MayStart(x)
  <2>1. y = x
    BY <1>1 DEF Filled
  <2> QED
    BY <2>1, SameTasksKept DEF SameTasks, Unmoved
<1>2. CASE MayStart(x)
  <2>1. PICK started \in SUBSET (Waiting(x) \ unsent), refused \in 0..x.unused :
          /\ y = StartedAll(NodesRefused(x, refused), started)
          /\ y.unused >= 0 /\ y.running_count <= y.workers_count
    BY <1>2 DEF Filled
  <2> DEFINE z == NodesRefused(x, refused)
  <2>2. Kept(x, z) /\ SameTasks(x, z) /\ EnvOK(z)
    BY NodesRefusedOK DEF Kept, Maintains
  <2>3. z.interrupt_code = x.interrupt_code
    BY DEF NodesRefused, EnvOK, Env
  <2>4. started \in SUBSET Waiting(z) /\ started \subseteq Waiting(x)
        /\ TasksOf(z) = TasksOf(x)
    BY <2>2 DEF SameTasks, Waiting, TasksOf
  <2> HIDE DEF z
  <2>5. /\ Kept(z, y)
        /\ y.interrupt_code = z.interrupt_code /\ y.error = z.error
        /\ \A t \in TasksOf(z) : y.progress[t] = IF t \in started THEN EXECUTING
                                               ELSE z.progress[t]
    BY <2>1, <2>2, <2>4, StartedAllOK DEF z
  <2>6. ASSUME NEW i \in TasksOf(x) PROVE Unmoved(x, y, i) \/ Starts(x, y, i)
    BY <2>2, <2>4, <2>5 DEF Unmoved, Starts, SameTasks, Waiting
  <2> QED
    BY <2>2, <2>3, <2>5, <2>6, KeptTwice
<1> QED
  BY <1>1, <1>2

\* The batches' environments are environments, with right counters.
EnvsOK ==
    /\ penv = [b \in Batch |-> penv[b]]
    /\ \A b \in Batch : EnvOK(penv[b]) /\ Counted(penv[b])

\* What the turns of b have in common: its environment is the one that changes,
\* by what a turn may do.
TurnOf(b) ==
    /\ penv' = [penv EXCEPT ![b] = penv'[b]]
    /\ Turned(penv[b], penv'[b])
    /\ UNCHANGED <<finished_flag, a_penvs>>

\* In a turn that returns no failure the interrupt_code stays.
SameCode(b) == penv'[b].interrupt_code = penv[b].interrupt_code

\* A turn of the offers: tasks that wait may start.
LEMMA OfferTurns ==
    ASSUME EnvsOK, NEW b \in Batch, OfferTasks(b)
    PROVE  /\ TurnOf(b) /\ SameCode(b)
           /\ \A i \in TasksOf(penv[b]) :
                 Unmoved(penv[b], penv'[b], i) \/ Starts(penv[b], penv'[b], i)
<1>1. PICK x \in Queried(penv[b]), unsent \in SUBSET Waiting(penv[b]) :
        \E y \in Filled(x, unsent) : penv' = [penv EXCEPT ![b] = y]
  BY DEF OfferTasks
<1>2. PICK y \in Filled(x, unsent) : penv' = [penv EXCEPT ![b] = y]
  BY <1>1
<1>3. penv'[b] = y /\ penv' = [penv EXCEPT ![b] = penv'[b]]
  BY <1>2 DEF EnvsOK
<1>4. EnvOK(penv[b])
  BY DEF EnvsOK
<1>5. /\ Kept(penv[b], x) /\ SameTasks(penv[b], x) /\ EnvOK(x)
      /\ x.interrupt_code = penv[b].interrupt_code
  BY <1>4, QueriedOK DEF Kept, Maintains
<1>6. /\ Kept(x, y)
      /\ y.interrupt_code = x.interrupt_code
      /\ \A i \in TasksOf(x) : Unmoved(x, y, i) \/ Starts(x, y, i)
  BY <1>5, FilledOK
<1>7. Kept(penv[b], y)
  BY <1>5, <1>6, KeptTwice
<1>8. \A i \in TasksOf(penv[b]) : Unmoved(penv[b], y, i) \/ Starts(penv[b], y, i)
  BY <1>5, <1>6 DEF SameTasks, TasksOf, Unmoved, Starts
<1>9. UNCHANGED <<finished_flag, a_penvs>>
  BY DEF OfferTasks
<1> QED
  BY <1>3, <1>5, <1>6, <1>7, <1>8, <1>9 DEF TurnOf, SameCode, Turned, Moved

\* A turn without a register server: the batch is interrupted, its tasks stay.
LEMMA QueryFailsTurns ==
    ASSUME EnvsOK, NEW b \in Batch, QueryFails(b)
    PROVE  /\ TurnOf(b) /\ penv'[b].interrupt_code = "CONNECT"
           /\ \A i \in TasksOf(penv[b]) : Unmoved(penv[b], penv'[b], i)
<1> DEFINE x == penv[b]
           y == RServerClosed(x)
           z == Interrupted(y, "CONNECT")
<1>1. penv' = [penv EXCEPT ![b] = z] /\ UNCHANGED <<finished_flag, a_penvs>>
  BY DEF QueryFails
<1>2. penv'[b] = z
  BY <1>1 DEF EnvsOK
<1>3. EnvOK(x)
  BY DEF EnvsOK
<1>4. Kept(x, y) /\ SameTasks(x, y) /\ EnvOK(y)
  BY <1>3, RServerClosedOK DEF Kept, Maintains
<1> HIDE DEF y
<1>5. Kept(y, z) /\ SameTasks(y, z)
  BY <1>4, InterruptedOK DEF InterruptCodes
<1>6. z.interrupt_code = "CONNECT"
  BY <1>4 DEF Interrupted, EnvOK, Env
<1> HIDE DEF z
<1>7. Kept(x, z) /\ SameTasks(x, z)
  BY <1>4, <1>5, KeptTwice DEF SameTasks
<1>8. \A i \in TasksOf(x) : Unmoved(x, z, i)
  BY <1>7 DEF SameTasks, Unmoved
<1> QED
  BY <1>1, <1>2, <1>6, <1>7, <1>8 DEF TurnOf, Turned, Moved

\* A turn that finds a program missing: its task fails, those before it may
\* have started.
LEMMA MissingTurns ==
    ASSUME EnvsOK, NEW b \in Batch, ProgramIsMissing(b)
    PROVE  /\ TurnOf(b) /\ penv'[b].interrupt_code = "FILE_NOT_FOUND"
           /\ \A i \in TasksOf(penv[b]) : \/ Unmoved(penv[b], penv'[b], i)
                                          \/ Starts(penv[b], penv'[b], i)
                                          \/ Missed(penv[b], penv'[b], i)
<1> DEFINE v == penv[b]
<1>1. PICK x \in Queried(v), t \in Waiting(v) :
        /\ MayStart(x)
        /\ \E refused \in 0..x.unused :
             LET before == {w \in Waiting(x) : w < t}
                 y == StartedAll(NodesRefused(x, refused), before)
             IN  /\ MayStart(y)
                 /\ penv' = [penv EXCEPT ![b] =
                        Interrupted(RServerClosed(ProgramMissing(y, t)),
                                    "FILE_NOT_FOUND")]
  BY DEF ProgramIsMissing
<1> DEFINE before == {w \in Waiting(x) : w < t}
<1>2. PICK refused \in 0..x.unused :
        LET y == StartedAll(NodesRefused(x, refused), before)
        IN  /\ MayStart(y)
            /\ penv' = [penv EXCEPT ![b] =
                   Interrupted(RServerClosed(ProgramMissing(y, t)),
                               "FILE_NOT_FOUND")]
  BY <1>1
<1> DEFINE w == NodesRefused(x, refused)
           y == StartedAll(w, before)
           m == ProgramMissing(y, t)
           c == RServerClosed(m)
           z == Interrupted(c, "FILE_NOT_FOUND")
<1>3. MayStart(y) /\ penv' = [penv EXCEPT ![b] = z]
  BY <1>2
<1>4. penv'[b] = z
  BY <1>3 DEF EnvsOK
<1>5. EnvOK(v) /\ t \in TasksOf(v) /\ v.progress[t] = WAITFOR_CONNECTING
  BY DEF EnvsOK, Waiting
<1>6. Kept(v, x) /\ SameTasks(v, x) /\ EnvOK(x)
  BY <1>5, QueriedOK DEF Kept, Maintains
<1>7. Kept(x, w) /\ SameTasks(x, w) /\ EnvOK(w)
  BY <1>6, NodesRefusedOK DEF Kept, Maintains
<1>8. before \in SUBSET Waiting(w)
  BY <1>7 DEF SameTasks, Waiting, TasksOf
<1> HIDE DEF w, before
<1>9. y.unused >= 0 /\ y.running_count <= y.workers_count
  <2>1. y.unused > 0 /\ y.running_count < y.workers_count
    BY <1>3 DEF MayStart
  <2>2. y.unused \in Int /\ y.running_count \in Int /\ y.workers_count \in Int
    <3>1. before \subseteq TasksOf(w)
      BY <1>8 DEF Waiting
    <3>2. IsFiniteSet(TasksOf(w))
      BY <1>7, FS_Interval DEF EnvOK, TasksOf
    <3>3. Cardinality(before) \in Nat
      BY <3>1, <3>2, FS_Subset, FS_CardinalityType
    <3> QED
      BY <1>7, <3>3 DEF StartedAll, EnvOK, Env
  <2> QED
    BY <2>1, <2>2
<1>10. /\ Kept(w, y) /\ y.error = w.error
       /\ \A i \in TasksOf(w) : y.progress[i] = IF i \in before THEN EXECUTING
                                              ELSE w.progress[i]
  BY <1>7, <1>8, <1>9, StartedAllOK
<1> HIDE DEF y
<1>11. /\ TasksOf(x) = TasksOf(v) /\ TasksOf(w) = TasksOf(v) /\ TasksOf(y) = TasksOf(v)
       /\ t \notin before /\ EnvOK(y)
  <2>1. t \notin before
    BY <1>5 DEF before, TasksOf, EnvOK
  <2> QED
    BY <1>6, <1>7, <1>10, <2>1 DEF SameTasks, Kept, Maintains, TasksOf
<1>12. y.progress[t] = WAITFOR_CONNECTING
  BY <1>5, <1>6, <1>7, <1>10, <1>11 DEF SameTasks
<1>13. Kept(y, m)
  BY <1>5, <1>11, <1>12, ProgramMissingOK
<1>14. /\ m.progress[t] = FINISHED_WITH_ERROR /\ m.error[t] = "APP"
       /\ \A i \in TasksOf(v) : i # t => /\ m.progress[i] = y.progress[i]
                                       /\ m.error[i] = y.error[i]
  BY <1>5, <1>11 DEF ProgramMissing, EnvOK, Env, TasksOf
<1> HIDE DEF m
<1>15. Kept(m, c) /\ SameTasks(m, c) /\ EnvOK(c)
  BY <1>13, RServerClosedOK DEF Kept, Maintains
<1> HIDE DEF c
<1>16. Kept(c, z) /\ SameTasks(c, z)
  BY <1>15, InterruptedOK DEF InterruptCodes
<1>17. z.interrupt_code = "FILE_NOT_FOUND"
  BY <1>15 DEF Interrupted, EnvOK, Env
<1> HIDE DEF z
<1>18. Kept(v, z)
  BY <1>6, <1>7, <1>10, <1>13, <1>15, <1>16, KeptTwice
<1>19. z.progress = m.progress /\ z.error = m.error
  BY <1>15, <1>16 DEF SameTasks
<1>20. ASSUME NEW i \in TasksOf(v)
       PROVE  Unmoved(v, z, i) \/ Starts(v, z, i) \/ Missed(v, z, i)
  <2>1. CASE i = t
    BY <1>5, <1>14, <1>19, <2>1 DEF Missed
  <2>2. CASE i # t /\ i \in before
    <3>1. v.progress[i] = WAITFOR_CONNECTING
      BY <1>6, <2>2 DEF before, Waiting, SameTasks
    <3>2. z.progress[i] = EXECUTING /\ z.error[i] = v.error[i]
      BY <1>6, <1>7, <1>10, <1>11, <1>14, <1>19, <2>2 DEF SameTasks
    <3> QED
      BY <3>1, <3>2 DEF Starts
  <2>3. CASE i # t /\ i \notin before
    BY <1>6, <1>7, <1>10, <1>11, <1>14, <1>19, <2>3 DEF SameTasks, Unmoved
  <2> QED
    BY <2>1, <2>2, <2>3
<1>21. UNCHANGED <<finished_flag, a_penvs>>
  BY DEF ProgramIsMissing
<1> QED
  BY <1>3, <1>4, <1>17, <1>18, <1>20, <1>21 DEF TurnOf, Turned, Moved

\* A turn of the answers that returns nothing: tasks may be sent back.
LEMMA GoOnTurns ==
    ASSUME EnvsOK, NEW b \in Batch, GoOn(b)
    PROVE  /\ TurnOf(b) /\ SameCode(b)
           /\ \A i \in TasksOf(penv[b]) :
                 Unmoved(penv[b], penv'[b], i) \/ SentBack(penv[b], penv'[b], i)
<1>1. PICK ejected \in SUBSET Executing(penv[b]) :
        penv' = [penv EXCEPT ![b] = EjectedAll(penv[b], ejected)]
  BY DEF GoOn, Ejected
<1> DEFINE y == EjectedAll(penv[b], ejected)
<1>2. penv'[b] = y /\ penv' = [penv EXCEPT ![b] = penv'[b]]
  BY <1>1 DEF EnvsOK
<1>3. EnvOK(penv[b])
  BY DEF EnvsOK
<1>4. /\ Kept(penv[b], y)
      /\ y.interrupt_code = penv[b].interrupt_code
      /\ OnlyEjected(penv[b], y, ejected)
  BY <1>3, EjectedAllOK
<1> HIDE DEF y
<1>5. \A i \in TasksOf(penv[b]) : Unmoved(penv[b], y, i) \/ SentBack(penv[b], y, i)
  BY <1>4 DEF OnlyEjected, Unmoved, SentBack, Executing
<1>6. UNCHANGED <<finished_flag, a_penvs>>
  BY DEF GoOn
<1> QED
  BY <1>2, <1>4, <1>5, <1>6 DEF TurnOf, SameCode, Turned, Moved

\* A task that executes is answered for; tasks before it may be sent back.
LEMMA FinishTurns ==
    ASSUME EnvsOK, NEW b \in Batch, NEW t \in Executing(penv[b]),
           NEW answer \in Answers, TaskFinishes(b, t, answer)
    PROVE  /\ TurnOf(b) /\ SameCode(b)
           /\ t \in TasksOf(penv[b])
           /\ Ends(penv[b], penv'[b], t) /\ penv'[b].error[t] = answer
           /\ \A i \in TasksOf(penv[b]) \ {t} :
                 Unmoved(penv[b], penv'[b], i) \/ SentBack(penv[b], penv'[b], i)
<1> DEFINE x == penv[b]
           s == IF answer = "STATUS" THEN FINISHED_WITH_ERROR ELSE FINISHED
<1>1. PICK ejected \in SUBSET (1..(t - 1)) :
        /\ Answering(b, ejected, t)
        /\ answer = "STATUS" => ~(EjectedAll(x, ejected)).by_app
        /\ penv' = [penv EXCEPT ![b] =
                       FinishedTask(EjectedAll(x, ejected), t, s, answer)]
  BY DEF TaskFinishes, Ejected
<1> DEFINE y == EjectedAll(x, ejected)
           z == FinishedTask(y, t, s, answer)
<1>2. EnvOK(x) /\ t \in TasksOf(x) /\ x.progress[t] = EXECUTING
  BY DEF EnvsOK, Executing
<1>3. ejected \in SUBSET Executing(x) /\ t \notin ejected
  <2>1. t \in Nat
    BY <1>2 DEF TasksOf, EnvOK
  <2> QED
    BY <1>1, <2>1 DEF Answering
<1>4. penv' = [penv EXCEPT ![b] = z] /\ penv'[b] = z
  BY <1>1 DEF EnvsOK
<1>5. /\ Kept(x, y) /\ EnvOK(y) /\ TasksOf(y) = TasksOf(x)
      /\ y.interrupt_code = x.interrupt_code
      /\ OnlyEjected(x, y, ejected)
  <2>1. /\ Kept(x, y)
        /\ y.interrupt_code = x.interrupt_code
        /\ OnlyEjected(x, y, ejected)
    BY <1>2, <1>3, EjectedAllOK
  <2> HIDE DEF y
  <2> QED
    BY <2>1 DEF Kept, Maintains, TasksOf
<1>by. answer = "STATUS" => ~y.by_app
  BY <1>1
<1> HIDE DEF y
<1>6. t \in Executing(y)
  BY <1>2, <1>3, <1>5 DEF OnlyEjected, Executing
<1>7. /\ s \in Progress /\ answer \in TaskErrors
      /\ \/ s = FINISHED /\ answer # "STATUS"
         \/ s = FINISHED_WITH_ERROR /\ answer = "STATUS" /\ ~y.by_app
  BY <1>by DEF Answers, TaskErrors, Progress
<1>8. /\ z.progress[t] = s /\ z.error[t] = answer
      /\ z.interrupt_code = y.interrupt_code
      /\ \A i \in TasksOf(x) : i # t => /\ z.progress[i] = y.progress[i]
                                        /\ z.error[i] = y.error[i]
  BY <1>2, <1>5 DEF FinishedTask, EnvOK, Env, TasksOf
<1> HIDE DEF s
<1>9. Kept(y, z)
  BY <1>5, <1>6, <1>7, FinishedTaskOK
<1> HIDE DEF z
<1>10. Kept(x, z)
  BY <1>5, <1>9, KeptTwice
<1>11. Ends(x, z, t)
  BY <1>2, <1>7, <1>8 DEF Ends, s, Answers
<1>12. ASSUME NEW i \in TasksOf(x) \ {t}
       PROVE  Unmoved(x, z, i) \/ SentBack(x, z, i)
  BY <1>3, <1>5, <1>8 DEF OnlyEjected, Unmoved, SentBack, Executing
<1>13. UNCHANGED <<finished_flag, a_penvs>>
  BY <1>1 DEF Answering
<1> QED
  BY <1>2, <1>4, <1>5, <1>8, <1>10, <1>11, <1>12, <1>13
     DEF TurnOf, SameCode, Turned, Moved

\* A task that executes fails and interrupts its batch.
LEMMA FailTurns ==
    ASSUME EnvsOK, NEW b \in Batch, NEW t \in Executing(penv[b]),
           NEW err \in Errors, TaskFails(b, t, err)
    PROVE  /\ TurnOf(b) /\ penv'[b].interrupt_code = err
           /\ t \in TasksOf(penv[b]) /\ Failed(penv[b], penv'[b], t)
           /\ \A i \in TasksOf(penv[b]) \ {t} :
                 Unmoved(penv[b], penv'[b], i) \/ SentBack(penv[b], penv'[b], i)
<1> DEFINE x == penv[b]
<1>1. PICK ejected \in SUBSET (1..(t - 1)) :
        /\ Answering(b, ejected, t)
        /\ penv' = [penv EXCEPT ![b] =
              Interrupted(RServerClosed(FailedTask(EjectedAll(x, ejected), t, err)),
                          err)]
  BY DEF TaskFails, Ejected
<1> DEFINE y == EjectedAll(x, ejected)
           f == FailedTask(y, t, err)
           c == RServerClosed(f)
           z == Interrupted(c, err)
<1>2. EnvOK(x) /\ t \in TasksOf(x) /\ x.progress[t] = EXECUTING
  BY DEF EnvsOK, Executing
<1>3. ejected \in SUBSET Executing(x) /\ t \notin ejected
  <2>1. t \in Nat
    BY <1>2 DEF TasksOf, EnvOK
  <2> QED
    BY <1>1, <2>1 DEF Answering
<1>4. penv' = [penv EXCEPT ![b] = z] /\ penv'[b] = z
  BY <1>1 DEF EnvsOK
<1>5. /\ Kept(x, y) /\ EnvOK(y) /\ TasksOf(y) = TasksOf(x)
      /\ OnlyEjected(x, y, ejected)
  <2>1. /\ Kept(x, y)
        /\ OnlyEjected(x, y, ejected)
    BY <1>2, <1>3, EjectedAllOK
  <2> HIDE DEF y
  <2> QED
    BY <2>1 DEF Kept, Maintains, TasksOf
<1> HIDE DEF y
<1>6. t \in Executing(y)
  BY <1>2, <1>3, <1>5 DEF OnlyEjected, Executing
<1>7. err \in TaskErrors \ {"STATUS"} /\ err \in InterruptCodes
  BY DEF Errors, TaskErrors, InterruptCodes
<1>8. /\ f.progress[t] = FINISHED_WITH_ERROR /\ f.error[t] = err
      /\ \A i \in TasksOf(x) : i # t => /\ f.progress[i] = y.progress[i]
                                        /\ f.error[i] = y.error[i]
  BY <1>2, <1>5 DEF FailedTask, EnvOK, Env, TasksOf
<1>9. Kept(y, f) /\ EnvOK(f)
  BY <1>5, <1>6, <1>7, FailedTaskOK DEF Kept, Maintains
<1> HIDE DEF f
<1>10. Kept(f, c) /\ SameTasks(f, c) /\ EnvOK(c)
  BY <1>9, RServerClosedOK DEF Kept, Maintains
<1> HIDE DEF c
<1>11. Kept(c, z) /\ SameTasks(c, z)
  BY <1>7, <1>10, InterruptedOK
<1>12. z.interrupt_code = err
  BY <1>10 DEF Interrupted, EnvOK, Env
<1> HIDE DEF z
<1>13. Kept(x, z)
  BY <1>5, <1>9, <1>10, <1>11, KeptTwice
<1>14. z.progress = f.progress /\ z.error = f.error
  BY <1>10, <1>11 DEF SameTasks
<1>15. Failed(x, z, t)
  BY <1>2, <1>8, <1>14 DEF Failed
<1>16. ASSUME NEW i \in TasksOf(x) \ {t}
       PROVE  Unmoved(x, z, i) \/ SentBack(x, z, i)
  BY <1>3, <1>5, <1>8, <1>14 DEF OnlyEjected, Unmoved, SentBack, Executing
<1>17. UNCHANGED <<finished_flag, a_penvs>>
  BY <1>1 DEF Answering
<1> QED
  BY <1>2, <1>4, <1>12, <1>13, <1>15, <1>16, <1>17 DEF TurnOf, Turned, Moved

-----------------------------------------------------------------------------
(* The inductive invariant.                                                 *)

\* Nothing has begun.
Fresh ==
    /\ penv = [b \in Batch |-> NewEnv(FALSE)]
    /\ finished_flag = {}
    /\ a_penvs = <<>>
    /\ pc = "user"
    /\ turn = <<>>
    /\ progress = [b \in Batch |-> INIT]
    /\ executing_batches_tree = <<>>
    /\ interrupt_code = NoInterrupt

\* Where the process is, and with what schedule.
ControlOK ==
    /\ step \in Steps
    /\ remaining \in Seq(Schedule)
    /\ step \notin {"idle", "next"} => remaining # <<>>
    /\ step # "perform" => Fresh
    /\ step \notin {"load", "perform"} => p_sched = NoSchedule
    /\ step = "perform" => p_sched # NoSchedule
    /\ p_sched # NoSchedule => p_sched = Head(remaining)
    /\ faults \in Nat /\ lost \in Nat /\ faults + lost <= MaxFaults

\* What is recorded of a schedule, a batch or a task.
RecordValues == {INIT, EXECUTING, FINISHED, FINISHED_WITH_ERROR}

\* The tables of the database.
DbOK ==
    /\ db = [schedule |-> db.schedule, batch |-> db.batch, pretask |-> db.pretask,
             inserted |-> db.inserted, task |-> db.task]
    /\ db.schedule \in [Schedule -> RecordValues]
    /\ db.batch \in [Batch -> RecordValues]
    /\ db.task = [b \in Batch |-> db.task[b]]
    /\ \A b \in Batch : db.task[b] \in [TasksIn(b) -> RecordValues]

\* The schedules before those that remain are recorded as finished, and so is
\* none that is worked at.
OrderOK ==
    step # "idle" =>
      /\ \E k \in 0..Len(Schedules) :
           /\ k + Len(remaining) = Len(Schedules)
           /\ \A i \in 1..Len(remaining) : remaining[i] = Schedules[k + i]
           /\ \A i \in 1..k : db.schedule[Schedules[i]] = FINISHED
      /\ step # "next" => db.schedule[Head(remaining)] # FINISHED

\* The tasks of a loaded batch are different ones of its tasks.
ArrayOK ==
    /\ tasks_array = [b \in Batch |-> tasks_array[b]]
    /\ \A b \in Batch :
         /\ tasks_array[b] \in Seq(TasksIn(b))
         /\ \A i, j \in 1..Len(tasks_array[b]) :
               i # j => tasks_array[b][i] # tasks_array[b][j]

\* A batch that has begun has all its loaded tasks in its environment.
BegunOK ==
    \A b \in Batch : penv[b].tasks_count =
                        IF progress[b] = INIT THEN 0 ELSE Len(tasks_array[b])

\* What the call of DC4CPerformMultiBatchTasks is about.
CallOK ==
    /\ executing_batches_tree \in Seq(Batch)
    /\ a_penvs \in Seq(Batch)
    /\ turn \in Seq(Batch)
    /\ finished_flag \subseteq Batch
    /\ pc \in {"user", "offer", "process", "returned"}
    /\ pc # "user" => /\ a_penvs = executing_batches_tree
                      /\ sched_progress = EXECUTING
    /\ pc \in {"offer", "process"} =>
          /\ turn # <<>>
          /\ ToSet(turn) \subseteq ToSet(executing_batches_tree)
          /\ begin_index \in 1..Len(a_penvs)
    /\ pc = "returned" => \/ result.batch = NoBatch
                          \/ result.batch \in ToSet(executing_batches_tree)

\* The call has returned with b.
Returned(b) == pc = "returned" /\ result.batch = b

\* The call has returned because b is over; with a failure of b.
ReportsEnd(b) == Returned(b) /\ result.code = "BATCH_TASKS_FINISHED"

ReportsFailure(b) ==
    Returned(b) /\ result.code \notin {"BATCH_TASKS_FINISHED", "TASK_FINISHED"}

\* b does not begin with the schedule, and all that leads to it is finished.
PredecessorsFinished(b) ==
    \A from \in Predepend(p_sched, b) : from # Terminal /\ progress[from] = FINISHED

\* How far a batch of the schedule is.
BatchOK(b) ==
    /\ progress[b] # INIT => b \in BatchesOf(p_sched)
    /\ b \in ToSet(executing_batches_tree) => progress[b] # INIT
    /\ progress[b] \in {EXECUTING, FINISHED_WITH_ERROR}
          => b \in ToSet(executing_batches_tree)
    /\ progress[b] = FINISHED => b \in finished_flag
    /\ progress[b] = FINISHED_WITH_ERROR => interrupt_code # NoInterrupt
    /\ b \in finished_flag => /\ progress[b] # INIT
                              /\ Executing(penv[b]) = {}
                              /\ progress[b] = EXECUTING => ReportsEnd(b)
    /\ penv[b].interrupt_code # NoInterrupt
          => progress[b] = FINISHED_WITH_ERROR \/ ReportsFailure(b)
    /\ progress[b] # INIT
          => Terminal \in Predepend(p_sched, b) \/ PredecessorsFinished(b)
    /\ Returned(b) => progress[b] \in {EXECUTING, FINISHED_WITH_ERROR}
    /\ ReportsEnd(b) => b \in finished_flag /\ Over(penv[b])
    /\ ReportsFailure(b) => result.code # NoInterrupt

\* The schedule has come to its end when nothing of it executes any more.
EndOK ==
    /\ Returned(NoBatch) => ToSet(executing_batches_tree) \subseteq finished_flag
    /\ step = "perform" /\ sched_progress # EXECUTING
          => /\ pc = "user"
             /\ ToSet(executing_batches_tree) \subseteq finished_flag
             /\ sched_progress = FinalProgress

BatchesOK ==
    /\ progress \in [Batch -> RecordValues]
    /\ \A b \in Batch : BatchOK(b)
    /\ EndOK

\* A task that is recorded as finished is not one that waits or executes.
TasksOK ==
    \A b \in Batch : \A i \in 1..Len(tasks_array[b]) :
       db.task[b][tasks_array[b][i]] = FINISHED
          => progress[b] # INIT /\ penv[b].progress[i] = FINISHED

\* A worker has answered for the task.
HasAnswer(b, t) == \E answer \in Answers : <<b, t, answer>> \in answers

\* The tasks of b are inserted, or it is one of those that are loaded without.
Prepared(b) == b \in db.inserted \cup unprepared \cup Filtered

\* Only a batch whose pretask is to be done is not prepared, and a schedule is
\* not loaded with one.
PreparedOK ==
    /\ \A b \in (Batch \ Pretasks) \cup db.pretask : Prepared(b)
    /\ step \in {"load", "perform"} =>
         \A b \in BatchesOf(Head(remaining)) : Prepared(b)

\* What is done has an answer.
AnswersOK ==
    /\ \A b \in Batch :
         /\ \A i \in Done(penv[b]) : HasAnswer(b, tasks_array[b][i])
         /\ db.batch[b] = FINISHED => Answered(b)
         /\ progress[b] = FINISHED => Answered(b)
         /\ \A t \in TasksIn(b) : db.task[b][t] = FINISHED => <<b, t, "NONE">> \in answers
    /\ p_sched # NoSchedule =>
         \A b \in BatchesOf(p_sched) \ (Filtered \cup unprepared) :
           \A t \in TasksIn(b) :
              t \in ToSet(tasks_array[b]) \/ HasAnswer(b, t)

\* A batch that has not begun has only batches before it; without an interrupt
\* it waits for one of them.
WaitingOK ==
    step = "perform" =>
      \A b \in BatchesOf(p_sched) : progress[b] = INIT =>
         /\ Terminal \notin Predepend(p_sched, b)
         /\ interrupt_code = NoInterrupt =>
               \E from \in Predepend(p_sched, b) : progress[from] # FINISHED

\* In a first run that has lost no record what is recorded as executing
\* executes.
RecordedOK ==
    /\ runs \in Nat
    /\ runs = 0 => /\ step = "idle"
                   /\ \A b \in Batch :
                        /\ db.batch[b] = INIT
                        /\ \A t \in TasksIn(b) : db.task[b][t] = INIT
    /\ lost = 0 /\ runs = 1 /\ step # "idle" =>
         \A b \in Batch :
            /\ db.batch[b] = EXECUTING =>
                  /\ progress[b] \in {EXECUTING, FINISHED_WITH_ERROR}
                  /\ b \in finished_flag => ReportsEnd(b)
            /\ \A t \in TasksIn(b) : db.task[b][t] = EXECUTING =>
                  \E i \in Executing(penv[b]) : tasks_array[b][i] = t

-----------------------------------------------------------------------------
(* Steps of the call.                                                       *)

\* A round has the environments of the call and no other.
LEMMA RoundFromOK ==
    ASSUME NEW T, NEW q \in Seq(T), NEW i \in 1..Len(q)
    PROVE  /\ RoundFrom(q, i) \in Seq(T)
           /\ RoundFrom(q, i) # <<>>
           /\ ToSet(RoundFrom(q, i)) \subseteq ToSet(q)
<1>1. Len(q) \in Nat /\ DOMAIN q = 1..Len(q) /\ \A j \in 1..Len(q) : q[j] \in T
  BY LenProperties, ElementOfSeq
<1> DEFINE U == ToSet(q)
           p == SubSeq(q, i, Len(q))
           r == SubSeq(q, 1, i - 1)
<1>2. \A j \in 1..Len(q) : q[j] \in U /\ q[j] \in T
  BY <1>1 DEF ToSet
<1> HIDE DEF U
<1>3. /\ p \in Seq(U) /\ p \in Seq(T) /\ Len(p) = Len(q) - i + 1
      /\ r \in Seq(U) /\ r \in Seq(T) /\ Len(r) = i - 1
  <2>1. /\ i \in Int /\ Len(q) \in Int /\ 1 \in Int /\ i - 1 \in Int
        /\ i..Len(q) \subseteq 1..Len(q) /\ 1..(i - 1) \subseteq 1..Len(q)
    BY <1>1
  <2>2. p \in Seq(U) /\ Len(p) = IF i <= Len(q) THEN Len(q) - i + 1 ELSE 0
    BY <1>2, <2>1, SubSeqProperties
  <2>3. p \in Seq(T)
    BY <1>2, <2>1, SubSeqProperties
  <2>4. r \in Seq(U) /\ Len(r) = IF 1 <= i - 1 THEN i - 1 - 1 + 1 ELSE 0
    BY <1>2, <2>1, SubSeqProperties
  <2>5. r \in Seq(T)
    BY <1>2, <2>1, SubSeqProperties
  <2> HIDE DEF p, r
  <2> QED
    BY <2>1, <2>2, <2>3, <2>4, <2>5
<1> HIDE DEF p, r
<1>4. /\ p \o r \in Seq(T) /\ p \o r \in Seq(U)
      /\ Len(p \o r) = Len(p) + Len(r)
  BY <1>3
<1>5. ToSet(p \o r) \subseteq U
  <2>1. DOMAIN (p \o r) = 1..Len(p \o r)
    BY <1>4, LenProperties
  <2>2. \A j \in 1..Len(p \o r) : (p \o r)[j] \in U
    BY <1>4, ElementOfSeq
  <2> QED
    BY <2>1, <2>2 DEF ToSet
<1>6. p \o r # <<>>
  <2>1. Len(p \o r) # 0
    BY <1>1, <1>3, <1>4
  <2> QED
    BY <2>1
<1> QED
  BY <1>4, <1>5, <1>6 DEF RoundFrom, p, r, U

\* The next environment is one of the call too.
LEMMA NextTurnOK ==
    ASSUME CallOK, pc \in {"offer", "process"}, NextTurn
    PROVE  /\ pc' \in {"offer", "process"}
           /\ turn' \in Seq(Batch) /\ turn' # <<>>
           /\ ToSet(turn') \subseteq ToSet(executing_batches_tree)
           /\ begin_index' = begin_index /\ result' = result
<1>1. /\ turn \in Seq(Batch) /\ turn # <<>> /\ Len(turn) \in Nat
      /\ ToSet(turn) \subseteq ToSet(executing_batches_tree)
      /\ a_penvs = executing_batches_tree /\ a_penvs \in Seq(Batch)
      /\ begin_index \in 1..Len(a_penvs)
  BY LenProperties DEF CallOK
<1>2. CASE Len(turn) > 1
  <2>1. pc' = pc /\ turn' = Tail(turn)
    BY <1>2 DEF NextTurn
  <2>2. PICK rest : rest = Tail(turn)
    OBVIOUS
  <2>3. /\ rest \in Seq(Batch) /\ Len(rest) = Len(turn) - 1
        /\ \A j \in 1..Len(rest) : rest[j] = turn[j + 1]
    BY <1>1, <2>2, HeadTailProperties, Zenon
  <2>4. rest # <<>>
    BY <1>1, <1>2, <2>3
  <2>5. ToSet(rest) \subseteq ToSet(turn)
    <3>1. DOMAIN rest = 1..Len(rest) /\ DOMAIN turn = 1..Len(turn)
      BY <1>1, <2>3, LenProperties
    <3>2. \A j \in 1..Len(rest) : j + 1 \in 1..Len(turn)
      BY <1>1, <2>3
    <3> QED
      BY <2>3, <3>1, <3>2 DEF ToSet
  <2> QED
    BY <1>1, <2>1, <2>2, <2>3, <2>4, <2>5 DEF NextTurn
<1>3. CASE ~(Len(turn) > 1) /\ pc = "offer"
  <2>1. pc' = "process" /\ turn' = a_penvs
    BY <1>3 DEF NextTurn
  <2>2. a_penvs # <<>>
    BY <1>1
  <2> QED
    BY <1>1, <2>1, <2>2 DEF NextTurn
<1>4. CASE ~(Len(turn) > 1) /\ pc # "offer"
  <2>1. pc' = "offer" /\ turn' = RoundFrom(a_penvs, begin_index)
    BY <1>4 DEF NextTurn
  <2> QED
    BY <1>1, <2>1, RoundFromOK DEF NextTurn
<1> QED
  BY <1>2, <1>3, <1>4

\* The records of the tasks of b that a step changes; none of the others.
Records(b) ==
    /\ db' = [db EXCEPT !.task[b] = db'.task[b]]
    /\ db'.task[b] \in [TasksIn(b) -> RecordValues]
    /\ lost' \in Nat /\ lost <= lost'
    /\ \A t \in TasksIn(b) :
         \/ db'.task[b][t] = db.task[b][t]
         \/ \E i \in CalledBack(b) : /\ tasks_array[b][i] = t
                                     /\ db'.task[b][t] = TaskRecord(penv'[b], i)
    /\ lost' = lost => \A i \in CalledBack(b) :
          db'.task[b][tasks_array[b][i]] = TaskRecord(penv'[b], i)

\* The callbacks of a turn record the tasks they are called for, and no others.
LEMMA RecordTasksOK ==
    ASSUME ControlOK, DbOK, ArrayOK, EnvsOK, BegunOK, NEW b \in Batch, RecordTasks(b)
    PROVE  Records(b)
<1>1. PICK unwritten \in SUBSET CalledBack(b) :
        LET written == [i \in CalledBack(b) \ unwritten |-> tasks_array[b][i]]
            places(t) == {i \in DOMAIN written : written[i] = t}
        IN  /\ Lost(Cardinality(unwritten))
            /\ db' = [db EXCEPT !.task[b] = [t \in TasksIn(b) |->
                         IF places(t) = {} THEN @[t]
                         ELSE TaskRecord(penv'[b], CHOOSE i \in places(t) : TRUE)]]
  BY DEF RecordTasks
<1> DEFINE written == CalledBack(b) \ unwritten
           places(t) == {i \in written : tasks_array[b][i] = t}
           new == [t \in TasksIn(b) |->
                     IF places(t) = {} THEN db.task[b][t]
                     ELSE TaskRecord(penv'[b], CHOOSE i \in places(t) : TRUE)]
<1>2. Lost(Cardinality(unwritten)) /\ db' = [db EXCEPT !.task[b] = new]
  <2> DEFINE w == [i \in written |-> tasks_array[b][i]]
             at(t) == {i \in DOMAIN w : w[i] = t}
  <2>1. /\ Lost(Cardinality(unwritten))
        /\ db' = [db EXCEPT !.task[b] = [t \in TasksIn(b) |->
                     IF at(t) = {} THEN db.task[b][t]
                     ELSE TaskRecord(penv'[b], CHOOSE i \in at(t) : TRUE)]]
    BY <1>1 DEF DbOK
  <2>2. ASSUME NEW t PROVE at(t) = places(t)
    OBVIOUS
  <2> HIDE DEF places, at
  <2> QED
    BY <2>1, <2>2
<1>3. CalledBack(b) \subseteq TasksOf(penv[b]) /\ IsFiniteSet(CalledBack(b))
  <2>0. penv[b].tasks_count \in Nat
    BY DEF EnvsOK, EnvOK
  <2>1. IsFiniteSet(TasksOf(penv[b]))
    BY <2>0, FS_Interval DEF TasksOf
  <2>2. CalledBack(b) \subseteq TasksOf(penv[b])
    BY DEF CalledBack
  <2> QED
    BY <2>1, <2>2, FS_Subset
<1>4. CalledBack(b) \subseteq 1..Len(tasks_array[b])
  BY <1>3 DEF BegunOK, TasksOf
<1>5. IsFiniteSet(unwritten) /\ Cardinality(unwritten) \in Nat
  BY <1>3, FS_Subset, FS_CardinalityType
<1>6. lost' \in Nat /\ lost <= lost'
  BY <1>2, <1>5 DEF Lost, ControlOK
<1>7. ASSUME lost' = lost PROVE unwritten = {}
  <2>1. Cardinality(unwritten) = 0
    BY <1>2, <1>5, <1>7 DEF Lost, ControlOK
  <2> QED
    BY <1>5, <2>1, FS_EmptySet
<1>8. \A t \in TasksIn(b) :
        \/ places(t) = {} /\ new[t] = db.task[b][t]
        \/ \E i \in places(t) : new[t] = TaskRecord(penv'[b], i)
  OBVIOUS
<1>9. db'.task[b] = new
  BY <1>2 DEF DbOK
<1>10. new \in [TasksIn(b) -> RecordValues]
  <2>1. \A i : TaskRecord(penv'[b], i) \in RecordValues
    BY DEF TaskRecord, RecordValues, INIT, EXECUTING, FINISHED, FINISHED_WITH_ERROR
  <2>2. \A t \in TasksIn(b) : new[t] \in RecordValues
    BY <1>8, <2>1 DEF DbOK
  <2> QED
    BY <2>2
<1> HIDE DEF new
<1>11. db' = [db EXCEPT !.task[b] = db'.task[b]]
  BY <1>2, <1>9
<1>12. \A t \in TasksIn(b) :
         \/ db'.task[b][t] = db.task[b][t]
         \/ \E i \in CalledBack(b) : /\ tasks_array[b][i] = t
                                     /\ db'.task[b][t] = TaskRecord(penv'[b], i)
  BY <1>8, <1>9
<1>13. ASSUME lost' = lost, NEW i \in CalledBack(b)
       PROVE  db'.task[b][tasks_array[b][i]] = TaskRecord(penv'[b], i)
  <2> DEFINE t == tasks_array[b][i]
  <2>1. i \in 1..Len(tasks_array[b]) /\ t \in TasksIn(b)
    BY <1>4, ElementOfSeq DEF ArrayOK
  <2>2. i \in places(t)
    BY <1>7, <1>13
  <2>3. \A j \in places(t) : j = i
    BY <1>4, <2>1 DEF ArrayOK
  <2> QED
    BY <1>8, <1>9, <2>1, <2>2, <2>3
<1> QED
  BY <1>6, <1>9, <1>10, <1>11, <1>12, <1>13 DEF Records

\* What the turns of DC4CPerformMultiBatchTasks have in common: b is not over
\* yet; its tasks' callbacks are recorded, and the answers are kept; the call
\* goes on, or returns with b.
TurnGoesOn ==
    /\ pc' \in {"offer", "process"}
    /\ turn' \in Seq(Batch) /\ turn' # <<>>
    /\ ToSet(turn') \subseteq ToSet(executing_batches_tree)
    /\ begin_index' = begin_index
    /\ result' = result

\* The call returns with b.
TurnReturns(b) ==
    pc' = "returned" /\ turn' = <<>> /\ result'.batch = b

TurnStep(b) ==
    /\ step = "perform" /\ sched_progress = EXECUTING
    /\ pc \in {"offer", "process"}
    /\ b \in ToSet(executing_batches_tree) /\ b \notin finished_flag
    /\ TurnOf(b)
    /\ Records(b)
    /\ UNCHANGED <<schedVars, step, remaining, runs, unprepared>>
    /\ faults' \in Nat
    /\ answers \subseteq answers'
    /\ \A i \in TasksOf(penv[b]) : Ends(penv[b], penv'[b], i) =>
          /\ penv'[b].error[i] \in Answers
          /\ <<b, tasks_array[b][i], penv'[b].error[i]>> \in answers'
    /\ \/ TurnGoesOn /\ SameCode(b)
       \/ TurnReturns(b) /\ result'.code = "TASK_FINISHED" /\ SameCode(b)
       \/ /\ TurnReturns(b)
          /\ result'.code \notin {"TASK_FINISHED", "BATCH_TASKS_FINISHED", NoInterrupt}
          /\ penv'[b].interrupt_code # NoInterrupt

\* The batch whose turn it is is one of those that execute.
LEMMA TurnIsOfTree ==
    ASSUME CallOK, pc \in {"offer", "process"}
    PROVE  Head(turn) \in ToSet(executing_batches_tree)
<1>1. /\ turn \in Seq(Batch) /\ turn # <<>>
      /\ ToSet(turn) \subseteq ToSet(executing_batches_tree)
  BY DEF CallOK
<1>2. Len(turn) \in Nat /\ Len(turn) # 0 /\ DOMAIN turn = 1..Len(turn)
      /\ Head(turn) = turn[1]
  BY <1>1, LenProperties
<1>3. turn[1] \in ToSet(turn)
  BY <1>2 DEF ToSet
<1> QED
  BY <1>1, <1>2, <1>3

\* Without callbacks nothing is recorded.
LEMMA NothingRecorded ==
    ASSUME ControlOK, DbOK, NEW b \in Batch,
           \A i \in TasksOf(penv[b]) : Unmoved(penv[b], penv'[b], i),
           UNCHANGED <<db, lost>>
    PROVE  Records(b)
<1>1. CalledBack(b) = {}
  BY DEF CalledBack, Unmoved
<1>2. db = [db EXCEPT !.task[b] = db.task[b]]
  <2>1. db.task = [db.task EXCEPT ![b] = db.task[b]]
    BY DEF DbOK
  <2> QED
    BY <2>1 DEF DbOK
<1> QED
  BY <1>1, <1>2 DEF Records, DbOK, ControlOK

\* No task ends in a turn that returns no answer.
LEMMA NoneEnds ==
    ASSUME NEW x, NEW y, NEW i,
           \/ Unmoved(x, y, i) \/ Starts(x, y, i) \/ Missed(x, y, i)
           \/ SentBack(x, y, i) \/ Failed(x, y, i)
    PROVE  ~Ends(x, y, i)
BY DEF Unmoved, Starts, Missed, SentBack, Failed, Ends, Errors, EXECUTING,
       WAITFOR_CONNECTING, FINISHED, FINISHED_WITH_ERROR

\* A set of tasks of one batch is counted by a number.
LEMMA TasksCounted ==
    ASSUME EnvsOK, NEW b \in Batch, NEW tasks \in SUBSET TasksOf(penv[b])
    PROVE  Cardinality(tasks) \in Nat
<1>1. penv[b].tasks_count \in Nat
  BY DEF EnvsOK, EnvOK
<1>2. IsFiniteSet(TasksOf(penv[b]))
  BY <1>1, FS_Interval DEF TasksOf
<1> QED
  BY <1>2, FS_Subset, FS_CardinalityType

\* The part of the invariant that has no progress of batches in it.
TurnsOK == ControlOK /\ DbOK /\ ArrayOK /\ EnvsOK /\ BegunOK /\ CallOK

\* The turns one by one.
LEMMA OfferStep ==
    ASSUME TurnsOK, NEW b \in Batch, Offer(b)
    PROVE  TurnStep(b)
<1>1. /\ Performing /\ OfferTasks(b) /\ RecordTasks(b) /\ InTurn
      /\ UNCHANGED answers /\ Offering(b) /\ NextTurn
  BY DEF Offer, OfferTasks
<1>2. /\ TurnOf(b) /\ SameCode(b)
      /\ \A i \in TasksOf(penv[b]) :
            Unmoved(penv[b], penv'[b], i) \/ Starts(penv[b], penv'[b], i)
  BY <1>1, OfferTurns DEF TurnsOK
<1>3. Records(b)
  BY <1>1, RecordTasksOK DEF TurnsOK
<1>4. TurnGoesOn
  BY <1>1, NextTurnOK DEF TurnsOK, TurnGoesOn, Offering
<1>5. b \in ToSet(executing_batches_tree) /\ b \notin finished_flag
  BY <1>1, TurnIsOfTree DEF TurnsOK, Offering, PassedOver
<1>6. faults' \in Nat
  <2>1. PICK unsent \in SUBSET Waiting(penv[b]) : faults' = faults + Cardinality(unsent)
    BY <1>1 DEF OfferTasks
  <2>2. Cardinality(unsent) \in Nat
    BY TasksCounted DEF TurnsOK, Waiting
  <2> QED
    BY <2>1, <2>2 DEF TurnsOK, ControlOK
<1> QED
  BY <1>1, <1>2, <1>3, <1>4, <1>5, <1>6, NoneEnds
     DEF TurnStep, Performing, InTurn, Offering

LEMMA UnreachableStep ==
    ASSUME TurnsOK, NEW b \in Batch, Unreachable(b)
    PROVE  TurnStep(b)
<1>1. /\ Performing /\ QueryFails(b) /\ UNCHANGED <<schedVars, hzbatVars>>
      /\ Offering(b) /\ Returns("CONNECT", b) /\ faults' = faults + 1
  BY DEF Unreachable, QueryFails
<1>2. /\ TurnOf(b) /\ penv'[b].interrupt_code = "CONNECT"
      /\ \A i \in TasksOf(penv[b]) : Unmoved(penv[b], penv'[b], i)
  BY <1>1, QueryFailsTurns DEF TurnsOK
<1>3. Records(b)
  BY <1>1, <1>2, NothingRecorded DEF TurnsOK, hzbatVars
<1>4. TurnReturns(b) /\ result'.code = "CONNECT"
  BY <1>1 DEF Returns, TurnReturns
<1>5. b \in ToSet(executing_batches_tree) /\ b \notin finished_flag
  BY <1>1, TurnIsOfTree DEF TurnsOK, Offering, PassedOver
<1>6. faults' \in Nat
  BY <1>1 DEF TurnsOK, ControlOK
<1> QED
  BY <1>1, <1>2, <1>3, <1>4, <1>5, <1>6, NoneEnds
     DEF TurnStep, Performing, Offering, hzbatVars, NoInterrupt

LEMMA MissingStep ==
    ASSUME TurnsOK, NEW b \in Batch, Missing(b)
    PROVE  TurnStep(b)
<1>1. /\ Performing /\ ProgramIsMissing(b) /\ RecordTasks(b) /\ InTurn
      /\ UNCHANGED answers /\ Offering(b) /\ Returns("FILE_NOT_FOUND", b)
      /\ faults' = faults + 1
  BY DEF Missing, ProgramIsMissing
<1>2. /\ TurnOf(b) /\ penv'[b].interrupt_code = "FILE_NOT_FOUND"
      /\ \A i \in TasksOf(penv[b]) : \/ Unmoved(penv[b], penv'[b], i)
                                     \/ Starts(penv[b], penv'[b], i)
                                     \/ Missed(penv[b], penv'[b], i)
  BY <1>1, MissingTurns DEF TurnsOK
<1>3. Records(b)
  BY <1>1, RecordTasksOK DEF TurnsOK
<1>4. TurnReturns(b) /\ result'.code = "FILE_NOT_FOUND"
  BY <1>1 DEF Returns, TurnReturns
<1>5. b \in ToSet(executing_batches_tree) /\ b \notin finished_flag
  BY <1>1, TurnIsOfTree DEF TurnsOK, Offering, PassedOver
<1>6. faults' \in Nat
  BY <1>1 DEF TurnsOK, ControlOK
<1> QED
  BY <1>1, <1>2, <1>3, <1>4, <1>5, <1>6, NoneEnds
     DEF TurnStep, Performing, InTurn, Offering, NoInterrupt

LEMMA LookStep ==
    ASSUME TurnsOK, NEW b \in Batch, Look(b)
    PROVE  TurnStep(b)
<1>1. /\ Performing /\ GoOn(b) /\ RecordTasks(b) /\ InTurn
      /\ UNCHANGED answers /\ Processing(b) /\ NextTurn
  BY DEF Look, GoOn
<1>2. /\ TurnOf(b) /\ SameCode(b)
      /\ \A i \in TasksOf(penv[b]) :
            Unmoved(penv[b], penv'[b], i) \/ SentBack(penv[b], penv'[b], i)
  BY <1>1, GoOnTurns DEF TurnsOK
<1>3. Records(b)
  BY <1>1, RecordTasksOK DEF TurnsOK
<1>4. TurnGoesOn
  BY <1>1, NextTurnOK DEF TurnsOK, TurnGoesOn, Processing
<1>5. b \in ToSet(executing_batches_tree) /\ b \notin finished_flag
  BY <1>1, TurnIsOfTree DEF TurnsOK, Processing, PassedOver
<1>6. faults' \in Nat
  <2>1. PICK ejected \in SUBSET Executing(penv[b]) :
          faults' = faults + Cardinality(ejected)
    BY <1>1 DEF GoOn
  <2>2. Cardinality(ejected) \in Nat
    BY TasksCounted DEF TurnsOK, Executing
  <2> QED
    BY <2>1, <2>2 DEF TurnsOK, ControlOK
<1> QED
  BY <1>1, <1>2, <1>3, <1>4, <1>5, <1>6, NoneEnds
     DEF TurnStep, Performing, InTurn, Processing

LEMMA FinishStep ==
    ASSUME TurnsOK, NEW b \in Batch, NEW t \in Executing(penv[b]),
           NEW answer \in Answers, Finish(b, t, answer)
    PROVE  TurnStep(b)
<1>1. /\ Performing /\ TaskFinishes(b, t, answer) /\ RecordTasks(b) /\ InTurn
      /\ answers' = answers \cup {<<b, tasks_array[b][t], answer>>}
  BY DEF Finish
<1>2. /\ TurnOf(b) /\ SameCode(b) /\ penv'[b].error[t] = answer
      /\ \A i \in TasksOf(penv[b]) \ {t} :
            Unmoved(penv[b], penv'[b], i) \/ SentBack(penv[b], penv'[b], i)
  BY <1>1, FinishTurns DEF TurnsOK
<1>3. Records(b)
  BY <1>1, RecordTasksOK DEF TurnsOK
<1>4. PICK ejected : /\ Answering(b, ejected, t) /\ Processing(b)
                     /\ Returns("TASK_FINISHED", b)
                     /\ ejected \subseteq Executing(penv[b])
                     /\ faults' = faults + Cardinality(ejected)
  BY <1>1 DEF TaskFinishes, Answering
<1>5. TurnReturns(b) /\ result'.code = "TASK_FINISHED"
  BY <1>4 DEF Returns, TurnReturns
<1>6. b \in ToSet(executing_batches_tree) /\ b \notin finished_flag
  BY <1>4, TurnIsOfTree DEF TurnsOK, Processing, PassedOver
<1>7. faults' \in Nat
  <2>1. Cardinality(ejected) \in Nat
    BY <1>4, TasksCounted DEF TurnsOK, Executing
  <2> QED
    BY <1>4, <2>1 DEF TurnsOK, ControlOK
<1>8. ASSUME NEW i \in TasksOf(penv[b]), Ends(penv[b], penv'[b], i)
      PROVE  /\ penv'[b].error[i] \in Answers
             /\ <<b, tasks_array[b][i], penv'[b].error[i]>> \in answers'
  <2>1. i = t
    BY <1>2, <1>8, NoneEnds
  <2> QED
    BY <1>1, <1>2, <2>1
<1> QED
  BY <1>1, <1>2, <1>3, <1>4, <1>5, <1>6, <1>7, <1>8
     DEF TurnStep, Performing, InTurn, Processing

LEMMA FailStep ==
    ASSUME TurnsOK, NEW b \in Batch, NEW t \in Executing(penv[b]),
           NEW err \in Errors, Fail(b, t, err)
    PROVE  TurnStep(b)
<1>1. /\ Performing /\ TaskFails(b, t, err) /\ RecordTasks(b) /\ InTurn
      /\ UNCHANGED answers
  BY DEF Fail
<1>2. /\ TurnOf(b) /\ penv'[b].interrupt_code = err
      /\ Failed(penv[b], penv'[b], t)
      /\ \A i \in TasksOf(penv[b]) \ {t} :
            Unmoved(penv[b], penv'[b], i) \/ SentBack(penv[b], penv'[b], i)
  BY <1>1, FailTurns DEF TurnsOK
<1>3. Records(b)
  BY <1>1, RecordTasksOK DEF TurnsOK
<1>4. PICK ejected : /\ Answering(b, ejected, t) /\ Processing(b)
                     /\ Returns(err, b)
                     /\ ejected \subseteq Executing(penv[b])
                     /\ faults' = faults + Cardinality(ejected)
  BY <1>1 DEF TaskFails, Answering
<1>5. TurnReturns(b) /\ result'.code = err
  BY <1>4 DEF Returns, TurnReturns
<1>6. b \in ToSet(executing_batches_tree) /\ b \notin finished_flag
  BY <1>4, TurnIsOfTree DEF TurnsOK, Processing, PassedOver
<1>7. faults' \in Nat
  <2>1. Cardinality(ejected) \in Nat
    BY <1>4, TasksCounted DEF TurnsOK, Executing
  <2> QED
    BY <1>4, <2>1 DEF TurnsOK, ControlOK
<1>8. \A i \in TasksOf(penv[b]) : ~Ends(penv[b], penv'[b], i)
  BY <1>2, NoneEnds
<1>9. err \notin {"TASK_FINISHED", "BATCH_TASKS_FINISHED", NoInterrupt}
  BY DEF Errors, NoInterrupt
<1> QED
  BY <1>1, <1>2, <1>3, <1>4, <1>5, <1>6, <1>7, <1>8, <1>9
     DEF TurnStep, Performing, InTurn, Processing

\* Every turn of a batch is such a step.
LEMMA TurnSteps ==
    ASSUME TurnsOK, NEW b \in Batch,
           \/ Offer(b) \/ Unreachable(b) \/ Missing(b) \/ Look(b) \/ TaskEnds(b)
    PROVE  TurnStep(b)
<1>1. ASSUME TaskEnds(b) PROVE TurnStep(b)
  <2>1. PICK t \in Executing(penv[b]) :
           \/ \E answer \in Answers : Finish(b, t, answer)
           \/ \E err \in Errors : Fail(b, t, err)
    BY <1>1 DEF TaskEnds
  <2> QED
    BY <2>1, FinishStep, FailStep
<1> QED
  BY <1>1, OfferStep, UnreachableStep, MissingStep, LookStep

-----------------------------------------------------------------------------
(* The executing batches' list.                                             *)

\* What is in a sequence is at one of its places.
LEMMA InSeq ==
    ASSUME NEW T, NEW q \in Seq(T)
    PROVE  /\ Len(q) \in Nat
           /\ \A e : e \in ToSet(q) <=> \E i \in 1..Len(q) : q[i] = e
           /\ \A i \in 1..Len(q) : q[i] \in T /\ q[i] \in ToSet(q)
           /\ ToSet(q) \subseteq T
<1>1. Len(q) \in Nat /\ DOMAIN q = 1..Len(q)
  BY LenProperties
<1>2. \A i \in 1..Len(q) : q[i] \in T
  BY ElementOfSeq
<1> QED
  BY <1>1, <1>2 DEF ToSet

\* What is in two sequences one behind the other.
LEMMA ConcatElements ==
    ASSUME NEW T, NEW p \in Seq(T), NEW q \in Seq(T)
    PROVE  /\ p \o q \in Seq(T)
           /\ ToSet(p \o q) = ToSet(p) \cup ToSet(q)
<1> DEFINE m == Len(p)
           n == Len(q)
           r == p \o q
<1>1. /\ r \in Seq(T) /\ Len(r) = m + n
      /\ \A i \in 1..(m + n) : r[i] = IF i <= m THEN p[i] ELSE q[i - m]
  BY ConcatProperties
<1>2. m \in Nat /\ n \in Nat
  BY InSeq
<1>3. /\ \A e : e \in ToSet(r) <=> \E i \in 1..(m + n) : r[i] = e
      /\ \A e : e \in ToSet(p) <=> \E i \in 1..m : p[i] = e
      /\ \A e : e \in ToSet(q) <=> \E i \in 1..n : q[i] = e
  BY <1>1, InSeq
<1> HIDE DEF m, n, r
<1>4. \A i \in 1..m : i \in 1..(m + n) /\ r[i] = p[i]
  BY <1>1, <1>2
<1>5. \A i \in 1..n : m + i \in 1..(m + n) /\ r[m + i] = q[i]
  BY <1>1, <1>2
<1>6. \A i \in 1..(m + n) : \/ i \in 1..m
                            \/ i - m \in 1..n /\ r[i] = q[i - m]
  BY <1>1, <1>2
<1>7. ASSUME NEW e \in ToSet(r) PROVE e \in ToSet(p) \cup ToSet(q)
  <2>1. PICK i \in 1..(m + n) : r[i] = e
    BY <1>3
  <2> QED
    BY <1>3, <1>4, <1>6, <2>1
<1>8. ASSUME NEW e \in ToSet(p) \cup ToSet(q) PROVE e \in ToSet(r)
  BY <1>3, <1>4, <1>5
<1>9. ToSet(r) = ToSet(p) \cup ToSet(q)
  BY <1>7, <1>8
<1> QED
  BY <1>1, <1>9 DEF r

\* What is in a part of a sequence.
LEMMA SubSeqElements ==
    ASSUME NEW T, NEW q \in Seq(T), NEW m \in Nat \ {0}, NEW n \in 0..Len(q)
    PROVE  /\ SubSeq(q, m, n) \in Seq(T)
           /\ \A e : e \in ToSet(SubSeq(q, m, n)) <=> \E i \in m..n : q[i] = e
<1> DEFINE r == SubSeq(q, m, n)
<1>1. Len(q) \in Nat /\ n \in Int /\ m \in Int /\ \A i \in m..n : q[i] \in T
  BY InSeq
<1>2. /\ r \in Seq(T)
      /\ Len(r) = IF m <= n THEN n - m + 1 ELSE 0
      /\ \A i \in 1..(n - m + 1) : r[i] = q[m + i - 1]
  BY <1>1, SubSeqProperties
<1>3. \A e : e \in ToSet(r) <=> \E i \in 1..Len(r) : r[i] = e
  BY <1>2, InSeq
<1> HIDE DEF r
<1>4. \A i \in 1..Len(r) : m + i - 1 \in m..n /\ r[i] = q[m + i - 1]
  BY <1>1, <1>2
<1>5. \A i \in m..n : i - m + 1 \in 1..Len(r) /\ r[i - m + 1] = q[i]
  <2> TAKE i \in m..n
  <2>1. i - m + 1 \in 1..(n - m + 1) /\ m + (i - m + 1) - 1 = i /\ m <= n
    BY <1>1
  <2>2. r[i - m + 1] = q[m + (i - m + 1) - 1]
    BY <1>2, <2>1
  <2> QED
    BY <1>2, <2>1, <2>2
<1>6. \A e : e \in ToSet(r) <=> \E i \in m..n : q[i] = e
  BY <1>3, <1>4, <1>5
<1> QED
  BY <1>2, <1>6 DEF r

\* A reversed sequence has the same elements.
LEMMA ReverseElements ==
    ASSUME NEW T, NEW q \in Seq(T)
    PROVE  Reverse(q) \in Seq(T) /\ ToSet(Reverse(q)) = ToSet(q)
<1> DEFINE n == Len(q)
           r == Reverse(q)
<1>1. r = [i \in 1..n |-> q[(n - i) + 1]]
  BY DEF Reverse
<1>2. n \in Nat /\ \A i \in 1..n : q[i] \in T
  BY InSeq
<1> HIDE DEF n, r
<1>3. \A i \in 1..n : (n - i) + 1 \in 1..n /\ (n - ((n - i) + 1)) + 1 = i
  BY <1>2
<1>4. r \in [1..n -> T]
  BY <1>1, <1>2, <1>3
<1>5. r \in Seq(T) /\ Len(r) = n
  BY <1>2, <1>4
<1>6. /\ \A e : e \in ToSet(r) <=> \E i \in 1..n : r[i] = e
      /\ \A e : e \in ToSet(q) <=> \E i \in 1..n : q[i] = e
  <2>1. \A e : e \in ToSet(r) <=> \E i \in 1..Len(r) : r[i] = e
    BY <1>5, InSeq
  <2>2. \A e : e \in ToSet(q) <=> \E i \in 1..Len(q) : q[i] = e
    BY InSeq
  <2> QED
    BY <1>5, <2>1, <2>2 DEF n
<1>7. \A i \in 1..n : r[i] = q[(n - i) + 1]
  BY <1>1
<1>8. \A i \in 1..n : r[(n - i) + 1] = q[i]
  BY <1>3, <1>7
<1>9. ToSet(r) = ToSet(q)
  BY <1>3, <1>6, <1>7, <1>8
<1> QED
  BY <1>5, <1>9 DEF r

\* The executing batches after MovedownExecutingTree: the ith may leave, those
\* that begin come behind it.
MovedDown(q, i, k, g) ==
    SubSeq(q, 1, k) \o Reverse(g) \o SubSeq(q, i + 1, Len(q))

\* What is in the list after it: all that was there and all that begins, but
\* for the one that may have left.
LEMMA MovedTree ==
    ASSUME NEW T, NEW q \in Seq(T), NEW g \in Seq(T), NEW i \in 1..Len(q),
           NEW k, k = i - 1 \/ k = i, NEW r, r = MovedDown(q, i, k, g)
    PROVE  /\ r \in Seq(T)
           /\ ToSet(g) \subseteq ToSet(r)
           /\ ToSet(r) \subseteq ToSet(q) \cup ToSet(g)
           /\ ToSet(q) \ {q[i]} \subseteq ToSet(r)
           /\ k = i => q[i] \in ToSet(r)
<1> DEFINE before == SubSeq(q, 1, k)
           behind == SubSeq(q, i + 1, Len(q))
<1>1. Len(q) \in Nat /\ k \in 0..Len(q) /\ i + 1 \in Nat \ {0} /\ Len(q) \in 0..Len(q)
      /\ 1 \in Nat \ {0}
  BY InSeq
<1>2. /\ before \in Seq(T)
      /\ \A e : e \in ToSet(before) <=> \E j \in 1..k : q[j] = e
  <2>1. \A m \in Nat \ {0} :
          /\ SubSeq(q, m, k) \in Seq(T)
          /\ \A e : e \in ToSet(SubSeq(q, m, k)) <=> \E j \in m..k : q[j] = e
    BY <1>1, SubSeqElements
  <2> QED
    BY <1>1, <2>1, Zenon
<1>3. /\ behind \in Seq(T)
      /\ \A e : e \in ToSet(behind) <=> \E j \in (i + 1)..Len(q) : q[j] = e
  BY <1>1, SubSeqElements
<1>4. Reverse(g) \in Seq(T) /\ ToSet(Reverse(g)) = ToSet(g)
  BY ReverseElements
<1> HIDE DEF before, behind
<1>5. /\ r \in Seq(T)
      /\ ToSet(r) = (ToSet(before) \cup ToSet(g)) \cup ToSet(behind)
  <2> DEFINE upto == before \o Reverse(g)
  <2>1. upto \in Seq(T) /\ ToSet(upto) = ToSet(before) \cup ToSet(g)
    BY <1>2, <1>4, ConcatElements
  <2>2. r = upto \o behind
    BY DEF MovedDown, before, behind
  <2> HIDE DEF upto
  <2>3. /\ upto \o behind \in Seq(T)
        /\ ToSet(upto \o behind) = ToSet(upto) \cup ToSet(behind)
    BY <1>3, <2>1, ConcatElements
  <2> QED
    BY <2>1, <2>2, <2>3, Zenon
<1>6. \A e : e \in ToSet(q) <=> \E j \in 1..Len(q) : q[j] = e
  BY InSeq
<1>7. /\ \A j \in 1..k : j \in 1..Len(q)
      /\ \A j \in (i + 1)..Len(q) : j \in 1..Len(q)
      /\ \A j \in 1..Len(q) : j \in 1..k \/ j = i \/ j \in (i + 1)..Len(q)
      /\ k = i => i \in 1..k
  BY <1>1
<1>8. ToSet(r) \subseteq ToSet(q) \cup ToSet(g)
  BY <1>2, <1>3, <1>5, <1>6, <1>7
<1>9. ToSet(q) \ {q[i]} \subseteq ToSet(r)
  BY <1>2, <1>3, <1>5, <1>6, <1>7
<1>10. k = i => q[i] \in ToSet(r)
  BY <1>2, <1>5, <1>7
<1> QED
  BY <1>5, <1>8, <1>9, <1>10

-----------------------------------------------------------------------------
(* The batches that begin.                                                  *)

\* What leads from a batch to the end of the schedule is the last that leads
\* from it.
EndsLast ==
    \A s \in Schedule : \A i, j \in 1..Len(Directions[s]) :
       /\ Directions[s][i][1] = Directions[s][j][1]
       /\ Directions[s][i][2] = Terminal
       => j <= i

\* targets is what leads from b in the order of the directions, of which place
\* has the places; the batches behind b are linked to it in this order, again
\* and again.
LinkedAs(s, b, targets, place) ==
    LET q == Directions[s]
        post == Postdepend(s, b)
    IN  /\ Len(targets) \in Nat
        /\ \A k \in 1..Len(targets) :
              place[k] \in 1..Len(q) /\ q[place[k]] = <<b, targets[k]>>
        /\ \A k, m \in 1..Len(targets) : k < m => place[k] < place[m]
        /\ \A c : <<b, c>> \in ToSet(q) => \E k \in 1..Len(targets) : targets[k] = c
        /\ \A k \in 1..Len(targets) : k \in 1..Len(post) /\ post[k] = targets[k]
        /\ \A i \in 1..Len(post) :
              \E k \in 1..Len(targets) : k <= i /\ post[i] = targets[k]

\* The links behind a batch are what leads from it, in the order of the
\* directions, however often the loader came to it.
LEMMA Links ==
    ASSUME NEW s \in Schedule, NEW b \in Places(s)
    PROVE  \E targets, place : LinkedAs(s, b, targets, place)
<1> DEFINE q == Directions[s]
           S == {d \in ToSet(q) : d[1] = b}
           leaving == Selected(q, S)
           targets == Targets(s, b)
           n == Len(targets)
           v == Visits(s)[b]
           post == Postdepend(s, b)
<1>1. /\ leaving \in Seq(Places(s) \X Places(s))
      /\ ToSet(leaving) = ToSet(q) \cap S
      /\ \E place : InOrder(place, leaving, q, Len(q))
  BY DirectionsLead, SelectedElements
<1>2. PICK place : InOrder(place, leaving, q, Len(q))
  BY <1>1
<1>3. targets = [k \in DOMAIN leaving |-> leaving[k][2]]
  BY DEF Targets
<1> HIDE DEF leaving, targets
<1>4. targets \in Seq(Places(s)) /\ n \in Nat /\ n = Len(leaving)
  <2>1. Len(leaving) \in Nat /\ DOMAIN leaving = 1..Len(leaving)
    BY <1>1, LenProperties
  <2>2. ASSUME NEW k \in 1..Len(leaving) PROVE leaving[k][2] \in Places(s)
    BY <1>1, ElementOfSeq
  <2>3. targets \in [1..Len(leaving) -> Places(s)]
    BY <1>3, <2>1, <2>2
  <2>4. targets \in Seq(Places(s))
    BY <2>1, <2>3
  <2>5. n = Len(leaving)
    BY <2>1, <2>3, <2>4, LenProperties
  <2> QED
    BY <2>1, <2>4, <2>5
<1>5. v \in Nat \ {0}
  BY NoCycle DEF Places
<1>6. post = [k \in 1..(n * v) |-> targets[((k - 1) % n) + 1]]
  <2>1. post = Linked(s, b)
    BY DEF Postdepend, postdepend_batches_list, Places
  <2> QED
    BY <2>1 DEF Linked, targets
<1> HIDE DEF post, v, n
<1>7. /\ n * v \in Nat
      /\ \A k \in 1..n : k \in 1..(n * v) /\ ((k - 1) % n) + 1 = k
      /\ \A k \in 1..(n * v) : /\ ((k - 1) % n) + 1 \in 1..n
                               /\ ((k - 1) % n) + 1 <= k
  BY <1>4, <1>5, Repeated
<1>8. Len(post) = n * v
  BY <1>6, <1>7
<1>9. ASSUME NEW k \in 1..n
      PROVE  k \in 1..Len(post) /\ post[k] = targets[k]
  BY <1>6, <1>7, <1>8
<1>10. ASSUME NEW i \in 1..Len(post)
       PROVE  \E k \in 1..n : k <= i /\ post[i] = targets[k]
  BY <1>6, <1>7, <1>8
<1>11. DOMAIN leaving = 1..n
  BY <1>1, <1>4, LenProperties
<1>12. ASSUME NEW k \in 1..n
       PROVE  place[k] \in 1..Len(q) /\ q[place[k]] = <<b, targets[k]>>
  <2>1. leaving[k] \in ToSet(leaving)
    BY <1>11 DEF ToSet
  <2>2. leaving[k] \in ToSet(q) /\ leaving[k][1] = b
    BY <1>1, <2>1
  <2>3. leaving[k] = <<leaving[k][1], leaving[k][2]>>
    BY <2>2, DirectionsLead
  <2>4. leaving[k] = <<b, targets[k]>>
    BY <1>3, <1>11, <2>2, <2>3
  <2> QED
    BY <1>2, <1>4, <2>4 DEF InOrder
<1>13. ASSUME NEW c, <<b, c>> \in ToSet(q)
       PROVE  \E k \in 1..n : targets[k] = c
  <2>1. <<b, c>> \in ToSet(leaving)
    BY <1>1, <1>13
  <2>2. PICK k \in 1..n : leaving[k] = <<b, c>>
    BY <1>11, <2>1 DEF ToSet
  <2> QED
    BY <1>3, <1>11, <2>2
<1>14. \A k, m \in 1..n : k < m => place[k] < place[m]
  BY <1>2, <1>4 DEF InOrder
<1>15. LinkedAs(s, b, targets, place)
  BY <1>4, <1>9, <1>10, <1>12, <1>13, <1>14 DEF LinkedAs, n, post
<1> QED
  BY <1>15

\* If the end comes last every batch behind b is linked to it before the end is.
LEMMA LinkedBeforeEnd ==
    ASSUME EndsLast, NEW s \in Schedule, NEW b \in Places(s),
           NEW c \in BatchesOf(s), b \in Predepend(s, c),
           NEW i \in 1..Len(Postdepend(s, b)), Postdepend(s, b)[i] = Terminal
    PROVE  \E j \in 1..(i - 1) : Postdepend(s, b)[j] = c
<1> DEFINE q == Directions[s]
           post == Postdepend(s, b)
<1>1. PICK targets, place : LinkedAs(s, b, targets, place)
  BY Links
<1>2. PICK e \in 1..Len(targets) : e <= i /\ targets[e] = Terminal
  BY <1>1 DEF LinkedAs
<1>3. PICK m \in 1..Len(targets) : targets[m] = c
  <2>1. <<b, c>> \in ToSet(q)
    BY DirectionsLead
  <2> QED
    BY <1>1, <2>1 DEF LinkedAs
<1>4. /\ place[e] \in 1..Len(q) /\ q[place[e]] = <<b, Terminal>>
      /\ place[m] \in 1..Len(q) /\ q[place[m]] = <<b, c>>
  <2>1. \A k \in 1..Len(targets) :
          place[k] \in 1..Len(q) /\ q[place[k]] = <<b, targets[k]>>
    BY <1>1 DEF LinkedAs
  <2>2. place[e] \in 1..Len(q) /\ q[place[e]] = <<b, targets[e]>>
    BY <1>2, <2>1
  <2>3. place[m] \in 1..Len(q) /\ q[place[m]] = <<b, targets[m]>>
    BY <1>3, <2>1
  <2> QED
    BY <1>2, <1>3, <2>2, <2>3
<1>5. place[m] <= place[e]
  <2>1. q[place[e]][1] = q[place[m]][1] /\ q[place[e]][2] = Terminal
    BY <1>4
  <2> QED
    BY <1>4, <2>1 DEF EndsLast
<1>6. m # e
  BY <1>2, <1>3 DEF BatchesOf
<1>7. e < m => place[e] < place[m]
  BY <1>1 DEF LinkedAs
<1>8. Len(targets) \in Nat /\ Len(q) \in Nat /\ Len(post) \in Nat
  <2>1. q \in Seq(Places(s) \X Places(s)) /\ post \in Seq(Places(s))
    BY DirectionsLead, PostdependElements
  <2>2. Len(q) \in Nat
    BY <2>1, LenProperties
  <2>3. Len(post) \in Nat
    BY <2>1, LenProperties
  <2> QED
    BY <1>1, <2>2, <2>3 DEF LinkedAs
<1> HIDE DEF q
<1>9. m < e
  BY <1>4, <1>5, <1>6, <1>7, <1>8
<1>10. i \in 1..Len(post) /\ m \in 1..Len(post) /\ post[m] = c
  BY <1>1, <1>3 DEF LinkedAs
<1> HIDE DEF post
<1>11. m \in 1..(i - 1)
  BY <1>2, <1>8, <1>9, <1>10
<1> QED
  BY <1>10, <1>11 DEF post

\* The successors of b that begin: no other batches, only with all batches
\* before them done, and only after a success; and, if nothing leads to the end
\* before, all of these.
LEMMA MovedToOK ==
    ASSUME NEW s \in Schedule, p_sched = s, NEW b \in Places(s), NEW code, NEW now
    PROVE  /\ MovedTo(b, code, now) \in Seq(BatchesOf(s))
           /\ MovedTo(b, code, now) # <<>>
                 => code = NoInterrupt /\ now[b] \in {FINISHED, FINISHED_WITH_ERROR}
           /\ \A c \in ToSet(MovedTo(b, code, now)) :
                 b \in Predepend(s, c) /\ PredecessorsDone(c, now)
           /\ EndsLast /\ code = NoInterrupt /\ now[b] = FINISHED =>
                 \A c \in BatchesOf(s) :
                    b \in Predepend(s, c) /\ PredecessorsDone(c, now)
                       => c \in ToSet(MovedTo(b, code, now))
<1> DEFINE post == Postdepend(s, b)
           D == {c \in BatchesOf(s) : PredecessorsDone(c, now)}
<1>1. /\ post \in Seq(Places(s)) /\ Len(post) \in Nat
      /\ \A i \in 1..Len(post) : post[i] \in Places(s) /\ post[i] \in ToSet(post)
      /\ \A c : c \in ToSet(post) <=> b \in Predepend(s, c)
      /\ \A c : c \in ToSet(post) <=> \E i \in 1..Len(post) : post[i] = c
  <2>1. post \in Seq(Places(s)) /\ \A c : c \in ToSet(post) <=> b \in Predepend(s, c)
    BY PostdependElements
  <2> HIDE DEF post
  <2> QED
    BY <2>1, InSeq
<1> DEFINE end == SelectInSeq(post, LAMBDA c : c = Terminal)
           reached == IF end = 0 THEN post ELSE SubSeq(post, 1, end - 1)
<1>2. MovedTo(b, code, now) =
        IF code # NoInterrupt \/ now[b] \notin {FINISHED, FINISHED_WITH_ERROR}
        THEN <<>> ELSE Selected(reached, D)
  BY Zenon DEF MovedTo
<1>3. \/ end = 0 /\ \A j \in 1..Len(post) : post[j] # Terminal
      \/ end \in 1..Len(post) /\ post[end] = Terminal /\ \A j \in 1..(end - 1) : post[j] # Terminal
  <2>1. \E i :
          /\ i = SelectInSeq(post, LAMBDA c : c = Terminal)
          /\ \/ i = 0 /\ \A j \in 1..Len(post) : post[j] # Terminal
             \/ i \in 1..Len(post) /\ post[i] = Terminal /\ \A j \in 1..(i - 1) : post[j] # Terminal
    BY <1>1, FirstPlace, Zenon
  <2> QED
    BY <2>1, Zenon
<1> HIDE DEF post, end
<1>4. /\ reached \in Seq(Places(s))
      /\ \A c \in ToSet(reached) : c \in ToSet(post)
      /\ end = 0 => ToSet(reached) = ToSet(post)
      /\ end # 0 => \A c : c \in ToSet(reached) <=> \E j \in 1..(end - 1) : post[j] = c
  <2>1. CASE end = 0
    <3>1. reached = post
      BY <2>1
    <3> HIDE DEF reached
    <3> QED
      <4>1. reached \in Seq(Places(s)) /\ ToSet(reached) = ToSet(post)
        BY <1>1, <3>1
      <4> QED
        BY <2>1, <4>1
  <2>2. CASE end # 0
    <3>1. end \in 1..Len(post) /\ end - 1 \in 0..Len(post) /\ 1 \in Nat \ {0}
      BY <1>1, <1>3, <2>2
    <3>2. \A m \in Nat \ {0} :
            /\ SubSeq(post, m, end - 1) \in Seq(Places(s))
            /\ \A c : c \in ToSet(SubSeq(post, m, end - 1))
                         <=> \E j \in m..(end - 1) : post[j] = c
      BY <1>1, <3>1, SubSeqElements
    <3>3. reached = SubSeq(post, 1, end - 1)
      BY <2>2
    <3>4. /\ reached \in Seq(Places(s))
          /\ \A c : c \in ToSet(reached) <=> \E j \in 1..(end - 1) : post[j] = c
      BY <3>1, <3>2, <3>3, Zenon
    <3>5. \A j \in 1..(end - 1) : j \in 1..Len(post)
      BY <1>1, <3>1
    <3> HIDE DEF reached
    <3> QED
      BY <1>1, <2>2, <3>4, <3>5
  <2> QED
    BY <2>1, <2>2
<1> HIDE DEF reached
<1> DEFINE g == Selected(reached, D)
<1>5. g \in Seq(Places(s)) /\ ToSet(g) = ToSet(reached) \cap D
  BY <1>4, SelectedElements
<1>6. g \in Seq(BatchesOf(s))
  <2>1. Len(g) \in Nat /\ \A i \in 1..Len(g) : g[i] \in ToSet(g)
    BY <1>5, InSeq
  <2>2. \A i \in 1..Len(g) : g[i] \in BatchesOf(s)
    BY <1>5, <2>1
  <2>3. g \in [1..Len(g) -> BatchesOf(s)]
    <3>1. g \in [1..Len(g) -> Places(s)]
      BY <1>5, LenProperties
    <3> HIDE DEF g
    <3> QED
      BY <2>2, <3>1
  <2> HIDE DEF g
  <2> QED
    BY <2>1, <2>3
<1> HIDE DEF g
<1>7. CASE code # NoInterrupt \/ now[b] \notin {FINISHED, FINISHED_WITH_ERROR}
  <2>1. MovedTo(b, code, now) = <<>>
    BY <1>2, <1>7
  <2>2. ToSet(<<>>) = {}
    BY DEF ToSet
  <2> QED
    BY <1>7, <2>1, <2>2
<1>8. CASE ~(code # NoInterrupt \/ now[b] \notin {FINISHED, FINISHED_WITH_ERROR})
  <2>1. MovedTo(b, code, now) = g
    BY <1>2, <1>8 DEF g
  <2>2. \A c \in ToSet(g) : b \in Predepend(s, c) /\ PredecessorsDone(c, now)
    BY <1>1, <1>4, <1>5
  <2>3. ASSUME EndsLast, NEW c \in BatchesOf(s), b \in Predepend(s, c),
               PredecessorsDone(c, now)
        PROVE  c \in ToSet(g)
    <3>1. CASE end = 0
      BY <1>1, <1>4, <1>5, <2>3, <3>1
    <3>2. CASE end # 0
      <4>1. end \in 1..Len(post) /\ post[end] = Terminal
        BY <1>3, <3>2
      <4>2. \E j \in 1..(end - 1) : post[j] = c
        BY <2>3, <4>1, LinkedBeforeEnd DEF post
      <4> QED
        BY <1>4, <1>5, <2>3, <3>2, <4>2
    <3> QED
      BY <3>1, <3>2
  <2> QED
    BY <1>6, <1>8, <2>1, <2>2, <2>3
<1> QED
  BY <1>7, <1>8

\* The batches of S begin with all their loaded tasks waiting; the environments
\* of the others stay.
BeginAll(S) ==
    /\ S \subseteq Batch
    /\ penv' = [b \in Batch |-> penv'[b]]
    /\ \A b \in Batch \ S : penv'[b] = penv[b]
    /\ \A b \in S :
         /\ EnvOK(penv'[b]) /\ Counted(penv'[b])
         /\ penv'[b].tasks_count = Len(tasks_array[b])
         /\ penv'[b].interrupt_code = NoInterrupt
         /\ \A i \in TasksOf(penv'[b]) : penv'[b].progress[i] = WAITFOR_CONNECTING
    /\ finished_flag' = finished_flag \ S

\* What a batch begins with.
LEMMA BegunEnvOK ==
    ASSUME NEW byApp \in BOOLEAN, NEW n \in Nat, NEW x,
           x = BegunBatch(NewEnv(byApp), n, n)
    PROVE  /\ EnvOK(x) /\ Counted(x)
           /\ x.tasks_count = n
           /\ x.interrupt_code = NoInterrupt
           /\ \A i \in TasksOf(x) : x.progress[i] = WAITFOR_CONNECTING
<1>1. EnvOK(NewEnv(byApp)) /\ Counted(NewEnv(byApp))
  BY NewEnvOK
<1>2. EnvOK(x) /\ Counted(x)
  <2>1. Maintains(NewEnv(byApp), x)
    BY <1>1, BegunBatchOK
  <2> QED
    BY <1>1, <2>1 DEF Maintains
<1>3. CASE n = 0
  <2>1. x = NewEnv(byApp)
    BY <1>3 DEF BegunBatch
  <2>2. x.tasks_count = 0 /\ x.interrupt_code = NoInterrupt
    BY <2>1 DEF NewEnv
  <2>3. TasksOf(x) = {}
    BY <2>2 DEF TasksOf
  <2> QED
    BY <1>2, <1>3, <2>2, <2>3
<1>4. CASE n # 0
  BY <1>2, <1>4 DEF BegunBatch, NewEnv, TasksOf
<1> QED
  BY <1>2, <1>3, <1>4

\* BeginBatches gives each batch of a list such an environment.
LEMMA BeginBatchesOK ==
    ASSUME ArrayOK, NEW begun \in Seq(Batch), BeginBatches(begun)
    PROVE  BeginAll(ToSet(begun))
<1> DEFINE S == ToSet(begun)
<1>1. /\ penv' = [b \in Batch |->
                    IF b \notin S THEN penv[b]
                    ELSE BegunBatch(NewEnv(b \in InterruptByApp),
                                    Len(tasks_array[b]), Len(tasks_array[b]))]
      /\ finished_flag' = finished_flag \ S
  BY DEF BeginBatches
<1>2. S \subseteq Batch
  BY InSeq
<1> HIDE DEF S
<1>3. \A b \in Batch \ S : penv'[b] = penv[b]
  BY <1>1
<1>4. ASSUME NEW b \in S
      PROVE  /\ EnvOK(penv'[b]) /\ Counted(penv'[b])
             /\ penv'[b].tasks_count = Len(tasks_array[b])
             /\ penv'[b].interrupt_code = NoInterrupt
             /\ \A i \in TasksOf(penv'[b]) : penv'[b].progress[i] = WAITFOR_CONNECTING
  <2>1. penv'[b] = BegunBatch(NewEnv(b \in InterruptByApp),
                              Len(tasks_array[b]), Len(tasks_array[b]))
    BY <1>1, <1>2
  <2>2. (b \in InterruptByApp) \in BOOLEAN
    OBVIOUS
  <2>3. Len(tasks_array[b]) \in Nat
    BY <1>2, LenProperties DEF ArrayOK
  <2>4. PICK byApp \in BOOLEAN : byApp = (b \in InterruptByApp)
    BY <2>2, Zenon
  <2>5. penv'[b] = BegunBatch(NewEnv(byApp), Len(tasks_array[b]), Len(tasks_array[b]))
    BY <2>1, <2>4, Zenon
  <2> QED
    BY <2>3, <2>5, BegunEnvOK
<1>5. penv' = [b \in Batch |-> penv'[b]]
  BY <1>1
<1> QED
  BY <1>1, <1>2, <1>3, <1>4, <1>5 DEF BeginAll, S

\* DC4CBeginDagSchedule: all batches that a direction from the begin leads to.
LEMMA BeginScheduleOK ==
    ASSUME ControlOK, ArrayOK, BeginSchedule
    PROVE  \E S : /\ BeginAll(S)
                  /\ \A b : b \in S <=> b \in BatchesOf(p_sched)
                                       /\ Terminal \in Predepend(p_sched, b)
                  /\ progress' = [b \in Batch |-> IF b \in S THEN EXECUTING ELSE INIT]
                  /\ executing_batches_tree' \in Seq(Batch)
                  /\ ToSet(executing_batches_tree') = S
<1> DEFINE begun == Selected(Postdepend(p_sched, Terminal), BatchesOf(p_sched))
           S == ToSet(begun)
<1>1. /\ Fresh /\ p_sched \in Schedule
      /\ BeginBatches(begun)
      /\ progress' = [b \in Batch |-> IF b \in S THEN EXECUTING ELSE progress[b]]
      /\ executing_batches_tree' = executing_batches_tree \o begun
  <2>1. step = "load" /\ p_sched # NoSchedule /\ BeginDagSchedule
    BY DEF BeginSchedule
  <2>2. Fresh /\ p_sched = Head(remaining) /\ remaining \in Seq(Schedule)
        /\ remaining # <<>>
    BY <2>1 DEF ControlOK
  <2>3. Head(remaining) \in Schedule
    BY <2>2
  <2> QED
    BY <2>1, <2>2, <2>3 DEF BeginDagSchedule
<1>2. /\ begun \in Seq(Places(p_sched))
      /\ S = ToSet(Postdepend(p_sched, Terminal)) \cap BatchesOf(p_sched)
      /\ \A b : b \in ToSet(Postdepend(p_sched, Terminal))
                  <=> Terminal \in Predepend(p_sched, b)
  <2>1. Terminal \in Places(p_sched)
    BY DEF Places
  <2>2. /\ Postdepend(p_sched, Terminal) \in Seq(Places(p_sched))
        /\ \A b : b \in ToSet(Postdepend(p_sched, Terminal))
                    <=> Terminal \in Predepend(p_sched, b)
    BY <1>1, <2>1, PostdependElements
  <2> QED
    BY <2>2, SelectedElements
<1> HIDE DEF begun
<1>3. \A b : b \in S <=> b \in BatchesOf(p_sched) /\ Terminal \in Predepend(p_sched, b)
  BY <1>2
<1>4. begun \in Seq(Batch)
  <2>1. S \subseteq Batch
    BY <1>1, <1>3, DirectionsLead
  <2>2. Len(begun) \in Nat /\ \A i \in 1..Len(begun) : begun[i] \in Batch
    BY <1>2, <2>1, InSeq
  <2>3. begun \in [1..Len(begun) -> Places(p_sched)]
    BY <1>2, LenProperties
  <2>4. begun \in [1..Len(begun) -> Batch]
    BY <2>2, <2>3
  <2> QED
    BY <2>2, <2>4
<1>5. BeginAll(S)
  BY <1>1, <1>4, BeginBatchesOK
<1>6. /\ executing_batches_tree' \in Seq(Batch)
      /\ ToSet(executing_batches_tree') = S
  <2>1. executing_batches_tree = <<>>
    BY <1>1 DEF Fresh
  <2>2. <<>> \o begun = begun
    BY <1>4, ConcatEmptySeq
  <2> QED
    BY <1>1, <1>4, <2>1, <2>2
<1>7. progress' = [b \in Batch |-> IF b \in S THEN EXECUTING ELSE INIT]
  BY <1>1 DEF Fresh
<1> HIDE DEF S
<1> QED
  BY <1>3, <1>5, <1>6, <1>7

-----------------------------------------------------------------------------
(* A call that has returned with a batch.                                   *)

\* The progress of the batches before others begin.
Now(b) ==
    [progress EXCEPT ![b] =
       IF result.code \notin {"BATCH_TASKS_FINISHED", "TASK_FINISHED"}
       THEN FINISHED_WITH_ERROR
       ELSE IF result.code = "BATCH_TASKS_FINISHED" /\ @ # FINISHED_WITH_ERROR
       THEN FINISHED
       ELSE @]

\* The batches of S begin behind b, which the call has returned with.
MovedStep(b, S) ==
    /\ BeginAll(S)
    /\ S \subseteq BatchesOf(p_sched)
    /\ progress' = [c \in Batch |-> IF c \in S THEN EXECUTING ELSE Now(b)[c]]
    /\ interrupt_code' =
          IF result.code \notin {"BATCH_TASKS_FINISHED", "TASK_FINISHED"}
          THEN result.code ELSE interrupt_code
    /\ S # {} => /\ interrupt_code' = NoInterrupt
                 /\ Now(b)[b] \in {FINISHED, FINISHED_WITH_ERROR}
    /\ \A c \in S : b \in Predepend(p_sched, c) /\ PredecessorsDone(c, Now(b))
    /\ EndsLast /\ interrupt_code' = NoInterrupt /\ Now(b)[b] = FINISHED =>
          \A c \in BatchesOf(p_sched) :
             b \in Predepend(p_sched, c) /\ PredecessorsDone(c, Now(b)) => c \in S
    /\ executing_batches_tree' \in Seq(Batch)
    /\ S \subseteq ToSet(executing_batches_tree')
    /\ ToSet(executing_batches_tree') \subseteq ToSet(executing_batches_tree) \cup S
    /\ ToSet(executing_batches_tree) \ {b} \subseteq ToSet(executing_batches_tree')
    /\ Now(b)[b] # FINISHED => b \in ToSet(executing_batches_tree')

\* DC4CPerformDagSchedule, for what the call has returned with.
LEMMA PerformedBatchOK ==
    ASSUME ControlOK, ArrayOK, CallOK, step = "perform", PerformedBatch,
           result.batch \in BatchesOf(p_sched)
    PROVE  \E S : MovedStep(result.batch, S)
<1> DEFINE b == result.batch
           tree == executing_batches_tree
           code == IF result.code \notin {"BATCH_TASKS_FINISHED", "TASK_FINISHED"}
                   THEN result.code ELSE interrupt_code
           at == SelectInSeq(tree, LAMBDA c : c = b)
           begun == MovedTo(b, code, Now(b))
           S == ToSet(begun)
           k == IF Now(b)[b] = FINISHED THEN at - 1 ELSE at
<1>1. /\ pc = "returned" /\ b # NoBatch
      /\ interrupt_code' = code
      /\ MovedownExecutingTree(at, code, Now(b))
  <2>1. /\ pc = "returned" /\ b # NoBatch
        /\ interrupt_code' = code
    BY Zenon DEF PerformedBatch
  <2>2. MovedownExecutingTree(at, code, Now(b))
    BY Zenon DEF PerformedBatch, Now
  <2> QED
    BY <2>1, <2>2
<1>2. /\ p_sched \in Schedule /\ tree \in Seq(Batch) /\ b \in ToSet(tree)
      /\ b \in Places(p_sched)
  <2>1. p_sched = Head(remaining) /\ remaining \in Seq(Schedule) /\ remaining # <<>>
    BY DEF ControlOK
  <2> QED
    BY <1>1, <2>1 DEF CallOK, Places
<1>3. at \in 1..Len(tree) /\ tree[at] = b
  <2>1. Len(tree) \in Nat /\ \E i \in 1..Len(tree) : tree[i] = b
    BY <1>2, InSeq
  <2>2. \E i :
          /\ i = SelectInSeq(tree, LAMBDA c : c = b)
          /\ \/ i = 0 /\ \A j \in 1..Len(tree) : tree[j] # b
             \/ i \in 1..Len(tree) /\ tree[i] = b /\ \A j \in 1..(i - 1) : tree[j] # b
    BY <2>1, FirstPlace, Zenon
  <2> QED
    BY <2>1, <2>2, Zenon
<1> HIDE DEF at
<1>4. /\ tree' = SubSeq(tree, 1, k) \o Reverse(begun) \o SubSeq(tree, at + 1, Len(tree))
      /\ BeginBatches(begun)
      /\ progress' = [c \in Batch |-> IF c \in S THEN EXECUTING ELSE Now(b)[c]]
  BY <1>1, <1>3, Zenon DEF MovedownExecutingTree
<1>5. /\ begun \in Seq(BatchesOf(p_sched))
      /\ begun # <<>> => code = NoInterrupt
                         /\ Now(b)[b] \in {FINISHED, FINISHED_WITH_ERROR}
      /\ \A c \in S : b \in Predepend(p_sched, c) /\ PredecessorsDone(c, Now(b))
      /\ EndsLast /\ code = NoInterrupt /\ Now(b)[b] = FINISHED =>
            \A c \in BatchesOf(p_sched) :
               b \in Predepend(p_sched, c) /\ PredecessorsDone(c, Now(b)) => c \in S
  <2> HIDE DEF b, code
  <2>1. PICK s \in Schedule : p_sched = s
    BY <1>2
  <2>2. b \in Places(s)
    BY <1>2, <2>1
  <2> QED
    BY <2>1, <2>2, MovedToOK
<1> HIDE DEF begun, code
<1>6. S \subseteq BatchesOf(p_sched) /\ begun \in Seq(Batch)
  <2>1. S \subseteq BatchesOf(p_sched)
    BY <1>5, InSeq
  <2>2. BatchesOf(p_sched) \subseteq Batch
    BY <1>2, DirectionsLead
  <2> QED
    BY <1>5, <2>1, <2>2, SeqMonotonic
<1>7. S # {} => begun # <<>>
  BY DEF ToSet
<1>8. BeginAll(S)
  BY <1>4, <1>6, BeginBatchesOK
<1>9. k \in {at - 1, at} /\ (Now(b)[b] # FINISHED => k = at)
  OBVIOUS
<1> HIDE DEF k
<1>10. /\ tree' \in Seq(Batch)
       /\ S \subseteq ToSet(tree')
       /\ ToSet(tree') \subseteq ToSet(tree) \cup S
       /\ ToSet(tree) \ {tree[at]} \subseteq ToSet(tree')
       /\ k = at => tree[at] \in ToSet(tree')
  <2>1. PICK new : new = tree'
    OBVIOUS
  <2>2. new = MovedDown(tree, at, k, begun)
    BY <1>4, <2>1 DEF MovedDown
  <2>3. /\ new \in Seq(Batch)
        /\ S \subseteq ToSet(new)
        /\ ToSet(new) \subseteq ToSet(tree) \cup S
        /\ ToSet(tree) \ {tree[at]} \subseteq ToSet(new)
        /\ k = at => tree[at] \in ToSet(new)
    <3> HIDE DEF tree
    <3> QED
      BY <1>2, <1>3, <1>6, <1>9, <2>2, MovedTree
  <2> QED
    BY <2>1, <2>3
<1> HIDE DEF S, b
<1>11. MovedStep(b, S)
  BY <1>1, <1>3, <1>4, <1>5, <1>6, <1>7, <1>8, <1>9, <1>10
     DEF MovedStep, code, S
<1> QED
  BY <1>11 DEF b

-----------------------------------------------------------------------------
(* The kinds of steps.                                                      *)

\* Nothing is loaded, or nothing any more, and no record of a batch or a task
\* changes.
OutsideStep ==
    /\ Fresh' /\ p_sched' = NoSchedule
    /\ \/ tasks_array' = tasks_array /\ progress = [b \in Batch |-> INIT]
       \/ tasks_array' = [b \in Batch |-> <<>>]
    /\ db'.batch = db.batch /\ db'.task = db.task /\ answers' = answers

\* The steps of main, of the pretasks, and those that end a schedule.
Outside ==
    \/ StartHzbat \/ Crash \/ NextSchedule
    \/ \E b \in Batch : PretaskInserts(b) \/ PretaskFinishes(b)
    \/ PretaskFails \/ PretasksDone \/ LoadFails \/ Unload

\* The call begins, goes on without a turn, or has ended with all batches.
CallStep ==
    /\ step = "perform" /\ sched_progress = EXECUTING
    /\ \/ PerformDagSchedule
       \/ SkipEnv /\ UNCHANGED schedVars
       \/ NothingExecutes \/ PerformedAll
    /\ UNCHANGED hzbatVars

\* The process stops or begins, at no schedule.
LEMMA OutsideSteps ==
    ASSUME ControlOK, DbOK, Outside
    PROVE  OutsideStep
<1>1. ASSUME \/ StartHzbat \/ NextSchedule
             \/ \E b \in Batch : PretaskInserts(b) \/ PretaskFinishes(b)
             \/ PretaskFails \/ PretasksDone
      PROVE  OutsideStep
  <2>1. UNCHANGED dagVars /\ step \in {"idle", "next", "prepare"}
    BY <1>1
       DEF StartHzbat, NextSchedule, PretaskInserts, PretaskFinishes, PretaskFails,
           PretasksDone
  <2>2. Fresh /\ p_sched = NoSchedule
    BY <2>1 DEF ControlOK
  <2>3. /\ Fresh' /\ p_sched' = NoSchedule /\ tasks_array' = tasks_array
        /\ progress = [b \in Batch |-> INIT]
    BY <2>1, <2>2 DEF Fresh, dagVars, multiVars, schedVars
  <2>4. db'.batch = db.batch /\ db'.task = db.task /\ answers' = answers
    <3>1. CASE StartHzbat \/ NextSchedule \/ PretasksDone
      BY <3>1 DEF StartHzbat, NextSchedule, PretasksDone
    <3>2. CASE \E b \in Batch : PretaskInserts(b) \/ PretaskFinishes(b)
      BY <3>2 DEF PretaskInserts, PretaskFinishes, DbOK
    <3>3. CASE PretaskFails
      BY <3>3 DEF PretaskFails, DbOK
    <3> QED
      BY <1>1, <3>1, <3>2, <3>3
  <2> QED
    BY <2>3, <2>4 DEF OutsideStep
<1>2. ASSUME LoadFails PROVE OutsideStep
  <2>1. /\ UNCHANGED <<idleMulti, schedVars, answers>>
        /\ step = "load" /\ p_sched = NoSchedule
    BY <1>2 DEF LoadFails
  <2>2. Fresh
    BY <2>1 DEF ControlOK
  <2>3. /\ Fresh' /\ p_sched' = NoSchedule /\ tasks_array' = tasks_array
        /\ progress = [b \in Batch |-> INIT]
    BY <2>1, <2>2 DEF Fresh, idleMulti, schedVars
  <2>4. db'.batch = db.batch /\ db'.task = db.task
    BY <1>2 DEF LoadFails, DbOK
  <2> QED
    BY <2>1, <2>3, <2>4 DEF OutsideStep
<1>3. ASSUME UnloadDagSchedule
      PROVE  /\ Fresh' /\ p_sched' = NoSchedule
             /\ tasks_array' = [b \in Batch |-> <<>>]
  BY <1>3 DEF UnloadDagSchedule, Fresh
<1>4. ASSUME Crash PROVE OutsideStep
  BY <1>3, <1>4 DEF Crash, OutsideStep
<1>5. ASSUME Unload PROVE OutsideStep
  <2>1. UnloadDagSchedule /\ UNCHANGED answers
    BY <1>5 DEF Unload
  <2>2. db'.batch = db.batch /\ db'.task = db.task
    BY <1>5 DEF Unload, DbOK
  <2> QED
    BY <1>3, <2>1, <2>2 DEF OutsideStep
<1> QED
  BY <1>1, <1>2, <1>4, <1>5 DEF Outside

\* Every step is of one of these kinds.
LEMMA StepKinds ==
    ASSUME TurnsOK, Next
    PROVE  \/ Outside /\ OutsideStep
           \/ LoadSchedule
           \/ BeginSchedule
           \/ CallStep
           \/ \E b \in Batch : TurnStep(b)
           \/ Performed
<1>1. CASE Outside
  BY <1>1, OutsideSteps DEF TurnsOK
<1>2. CASE Perform \/ Skip \/ AllPerformed
  <2>1. step = "perform" /\ sched_progress = EXECUTING
    BY <1>2 DEF Perform, Skip, AllPerformed, Performing
  <2> QED
    BY <1>2, <2>1 DEF Perform, Skip, AllPerformed, CallStep
<1>3. CASE \E b \in Batch : \/ Offer(b) \/ Unreachable(b) \/ Missing(b) \/ Look(b)
                            \/ TaskEnds(b)
  BY <1>3, TurnSteps
<1> QED
  BY <1>1, <1>2, <1>3 DEF Next, Work, Working, Outside

\* What a step of the call leaves alone.
LEMMA CallStepOK ==
    ASSUME ControlOK, EnvsOK, CallOK, CallStep
    PROVE  /\ UNCHANGED <<faults, p_sched, tasks_array, progress,
                          executing_batches_tree, interrupt_code, hzbatVars>>
           /\ penv' = [b \in Batch |-> penv'[b]]
           /\ \A b \in Batch : /\ Kept(penv[b], penv'[b])
                               /\ SameTasks(penv[b], penv'[b])
                               /\ penv'[b].interrupt_code = penv[b].interrupt_code
<1>1. UNCHANGED <<faults, p_sched, tasks_array, progress,
                  executing_batches_tree, interrupt_code, hzbatVars>>
  BY DEF CallStep, PerformDagSchedule, PerformMultiBatchTasks, SkipEnv,
         NothingExecutes, PerformedAll, schedVars, multiVars
<1>2. \/ penv' = penv
      \/ \E b : penv' = [penv EXCEPT ![b] = RServerClosed(@)]
  BY DEF CallStep, PerformDagSchedule, PerformMultiBatchTasks, SkipEnv,
         NothingExecutes, PerformedAll, multiVars
<1>3. ASSUME NEW b \in Batch, penv'[b] = penv[b]
      PROVE  /\ Kept(penv[b], penv'[b])
             /\ SameTasks(penv[b], penv'[b])
             /\ penv'[b].interrupt_code = penv[b].interrupt_code
  <2>1. EnvOK(penv[b])
    BY DEF EnvsOK
  <2>2. SameTasks(penv[b], penv[b])
    BY DEF SameTasks
  <2>3. Kept(penv[b], penv[b])
    BY <2>1, <2>2, SameTasksKept
  <2> QED
    BY <1>3, <2>2, <2>3
<1>4. ASSUME NEW b \in Batch, penv'[b] = RServerClosed(penv[b])
      PROVE  /\ Kept(penv[b], penv'[b])
             /\ SameTasks(penv[b], penv'[b])
             /\ penv'[b].interrupt_code = penv[b].interrupt_code
  <2>1. EnvOK(penv[b])
    BY DEF EnvsOK
  <2>2. /\ Kept(penv[b], RServerClosed(penv[b]))
        /\ SameTasks(penv[b], RServerClosed(penv[b]))
    BY <2>1, RServerClosedOK
  <2>3. (RServerClosed(penv[b])).interrupt_code = penv[b].interrupt_code
    BY <2>1 DEF RServerClosed, EnvOK, Env
  <2> QED
    BY <1>4, <2>2, <2>3
<1>5. CASE penv' = penv
  BY <1>1, <1>3, <1>5 DEF EnvsOK
<1>6. CASE \E b : penv' = [penv EXCEPT ![b] = RServerClosed(@)]
  <2>1. PICK b : penv' = [penv EXCEPT ![b] = RServerClosed(@)]
    BY <1>6
  <2>2. penv' = [c \in Batch |-> IF c = b THEN RServerClosed(penv[c]) ELSE penv[c]]
    BY <2>1 DEF EnvsOK
  <2>3. /\ penv' = [c \in Batch |-> penv'[c]]
        /\ \A c \in Batch : penv'[c] = penv[c] \/ penv'[c] = RServerClosed(penv[c])
    BY <2>2
  <2> QED
    BY <1>1, <1>3, <1>4, <2>3
<1> QED
  BY <1>2, <1>5, <1>6

-----------------------------------------------------------------------------
(* The records of the batches, and the steps that write them.               *)

\* What is in a sequence is finitely much.
LEMMA ElementsFinite ==
    ASSUME NEW T, NEW q \in Seq(T), NEW f, NEW U, f = [i \in 1..Len(q) |-> f[i]],
           \A e : e \in U <=> \E i \in 1..Len(q) : f[i] = e
    PROVE  IsFiniteSet(U)
<1>1. Len(q) \in Nat
  BY LenProperties
<1>2. IsFiniteSet(1..Len(q))
  BY <1>1, FS_Interval
<1>3. f \in Surjection(1..Len(q), U)
  BY DEF Surjection
<1> QED
  BY <1>2, <1>3, FS_Surjection

\* A schedule has finitely many batches.
LEMMA BatchesFinite ==
    ASSUME NEW s \in Schedule
    PROVE  IsFiniteSet(BatchesOf(s))
<1> DEFINE q == Directions[s]
           U == {d[2] : d \in ToSet(q)}
<1>1. q \in Seq(Places(s) \X Places(s))
  BY DirectionsLead
<1>2. \A d : d \in ToSet(q) <=> \E i \in 1..Len(q) : q[i] = d
  BY <1>1, InSeq
<1>3. PICK f : f = [i \in 1..Len(q) |-> q[i][2]]
  OBVIOUS
<1>4. /\ f = [i \in 1..Len(q) |-> f[i]]
      /\ \A e : e \in U <=> \E i \in 1..Len(q) : f[i] = e
  BY <1>2, <1>3
<1>5. BatchesOf(s) \in SUBSET U
  BY DEF BatchesOf
<1> HIDE DEF q, U
<1>6. IsFiniteSet(U)
  BY <1>1, <1>4, ElementsFinite
<1> QED
  BY <1>5, <1>6, FS_Subset

\* The progress of the batches of a set is recorded, but for what is lost.
BatchRecords(batches) ==
    /\ db' = [db EXCEPT !.batch = db'.batch]
    /\ db'.batch \in [Batch -> RecordValues]
    /\ lost' \in Nat /\ lost <= lost'
    /\ \A b \in Batch : \/ db'.batch[b] = db.batch[b]
                        \/ b \in batches /\ db'.batch[b] = progress'[b]
    /\ lost' = lost => \A b \in batches : db'.batch[b] = progress'[b]

\* RecordBatches writes such records.
LEMMA RecordBatchesOK ==
    ASSUME ControlOK, DbOK, progress' \in [Batch -> RecordValues],
           NEW batches \in SUBSET Batch, IsFiniteSet(batches), RecordBatches(batches)
    PROVE  BatchRecords(batches)
<1>1. PICK unwritten \in SUBSET batches :
        /\ Lost(Cardinality(unwritten))
        /\ db' = [db EXCEPT !.batch = [b \in Batch |->
                    IF b \in batches \ unwritten THEN progress'[b] ELSE @[b]]]
  BY DEF RecordBatches
<1>2. /\ IsFiniteSet(unwritten) /\ Cardinality(unwritten) \in Nat
      /\ Cardinality(unwritten) = 0 => unwritten = {}
  BY FS_Subset, FS_CardinalityType, FS_EmptySet
<1>3. lost \in Nat /\ lost' = lost + Cardinality(unwritten)
  BY <1>1 DEF Lost, ControlOK
<1>4. lost' \in Nat /\ lost <= lost' /\ (lost' = lost => unwritten = {})
  <2>1. lost' = lost => Cardinality(unwritten) = 0
    BY <1>2, <1>3
  <2> QED
    BY <1>2, <1>3, <2>1
<1>5. db'.batch = [b \in Batch |->
        IF b \in batches \ unwritten THEN progress'[b] ELSE db.batch[b]]
  BY <1>1 DEF DbOK
<1>6. db' = [db EXCEPT !.batch = db'.batch]
  BY <1>1, <1>5 DEF DbOK
<1>7. db'.batch \in [Batch -> RecordValues]
  BY <1>5 DEF DbOK
<1> QED
  BY <1>4, <1>5, <1>6, <1>7 DEF BatchRecords

\* The schedule that is loaded is one of the schedules.
LEMMA LoadedSchedule ==
    ASSUME ControlOK, step \notin {"idle", "next"}
    PROVE  Head(remaining) \in Schedule /\ remaining # <<>>
<1>1. remaining \in Seq(Schedule) /\ remaining # <<>>
  BY DEF ControlOK
<1> QED
  BY <1>1, HeadTailProperties

\* The batches of S begin with the schedule.
BeginStep(S) ==
    /\ step = "load" /\ p_sched \in Schedule /\ Fresh
    /\ BeginAll(S)
    /\ \A b : b \in S <=> b \in BatchesOf(p_sched)
                          /\ Terminal \in Predepend(p_sched, b)
    /\ progress' = [b \in Batch |-> IF b \in S THEN EXECUTING ELSE INIT]
    /\ executing_batches_tree' \in Seq(Batch)
    /\ ToSet(executing_batches_tree') = S
    /\ step' = "perform" /\ sched_progress' = EXECUTING
    /\ BatchRecords(S)
    /\ UNCHANGED <<p_sched, tasks_array, interrupt_code, a_penvs, begin_index,
                   pc, turn, result, faults, remaining, runs, answers,
                   unprepared>>

\* BeginSchedule is such a step.
LEMMA BeginSteps ==
    ASSUME ControlOK, DbOK, ArrayOK, BeginSchedule
    PROVE  \E S : BeginStep(S)
<1>1. PICK S : /\ BeginAll(S)
               /\ \A b : b \in S <=> b \in BatchesOf(p_sched)
                                    /\ Terminal \in Predepend(p_sched, b)
               /\ progress' = [b \in Batch |-> IF b \in S THEN EXECUTING ELSE INIT]
               /\ executing_batches_tree' \in Seq(Batch)
               /\ ToSet(executing_batches_tree') = S
  BY BeginScheduleOK
<1>2. /\ step = "load" /\ p_sched # NoSchedule /\ BeginDagSchedule
      /\ RecordBatches(Begun)
      /\ step' = "perform"
      /\ UNCHANGED <<remaining, runs, answers, unprepared>>
  BY DEF BeginSchedule
<1>3. Fresh /\ p_sched \in Schedule
  BY <1>2, LoadedSchedule DEF ControlOK
<1>4. Begun = S /\ S \subseteq Batch /\ S \subseteq BatchesOf(p_sched)
  BY <1>1, <1>3 DEF Begun, Fresh, BeginAll, INIT, EXECUTING
<1>5. IsFiniteSet(S)
  BY <1>3, <1>4, BatchesFinite, FS_Subset
<1>6. progress' \in [Batch -> RecordValues]
  BY <1>1 DEF RecordValues
<1>7. BatchRecords(S)
  BY <1>2, <1>4, <1>5, <1>6, RecordBatchesOK
<1> QED
  BY <1>1, <1>2, <1>3, <1>7 DEF BeginStep, BeginDagSchedule

\* The loader's step.
LoadStep ==
    /\ step = "load" /\ p_sched = NoSchedule /\ Fresh /\ Fresh'
    /\ p_sched' = Head(remaining) /\ Head(remaining) \in Schedule
    /\ db' = [db EXCEPT !.schedule[Head(remaining)] = EXECUTING]
    /\ tasks_array' = [b \in Batch |-> IF b \in BatchesOf(Head(remaining))
                                      THEN Loaded(b) ELSE <<>>]
    /\ sched_progress' = EXECUTING
    /\ UNCHANGED <<multiVars, step, remaining, runs, lost, answers, unprepared>>

\* LoadSchedule is such a step.
LEMMA LoadSteps ==
    ASSUME ControlOK, LoadSchedule
    PROVE  LoadStep
<1>1. /\ step = "load" /\ p_sched = NoSchedule
      /\ db' = [db EXCEPT !.schedule[Head(remaining)] = EXECUTING]
      /\ p_sched' = Head(remaining)
      /\ tasks_array' = [b \in Batch |-> IF b \in BatchesOf(Head(remaining))
                                        THEN Loaded(b) ELSE <<>>]
      /\ progress' = [b \in Batch |-> INIT]
      /\ executing_batches_tree' = <<>>
      /\ interrupt_code' = NoInterrupt
      /\ sched_progress' = EXECUTING
      /\ UNCHANGED <<multiVars, step, remaining, runs, lost, answers, unprepared>>
  BY DEF LoadSchedule, LoadDagScheduleFromStruct
<1>2. Fresh /\ Head(remaining) \in Schedule
  BY <1>1, LoadedSchedule DEF ControlOK
<1>3. Fresh'
  BY <1>1, <1>2 DEF Fresh, multiVars
<1> QED
  BY <1>1, <1>2, <1>3 DEF LoadStep

\* The call has returned with b, behind which the batches of S begin: none of
\* them has begun before.
PerformedStep(b, S) ==
    /\ step = "perform" /\ sched_progress = EXECUTING
    /\ p_sched \in Schedule /\ b \in BatchesOf(p_sched)
    /\ b \in ToSet(executing_batches_tree)
    /\ Returned(b) /\ progress[b] \in {EXECUTING, FINISHED_WITH_ERROR}
    /\ MovedStep(b, S)
    /\ \A c \in S : progress[c] = INIT
    /\ BatchRecords(S \cup IF result.code = "BATCH_TASKS_FINISHED" THEN {b} ELSE {})
    /\ pc' = "user" /\ a_penvs' = <<>>
    /\ UNCHANGED <<p_sched, tasks_array, sched_progress, begin_index, turn,
                   faults, step, remaining, runs, answers, unprepared>>

\* A batch with the batch of the call before it has not begun: that one is not
\* finished yet.
LEMMA NewOnes ==
    ASSUME BatchesOK, NEW b \in Batch, NEW S, MovedStep(b, S), Returned(b)
    PROVE  \A c \in S : progress[c] = INIT
<1> SUFFICES ASSUME NEW c \in S, progress[c] # INIT PROVE FALSE
  OBVIOUS
<1>1. /\ c \in Batch
      /\ b \in Predepend(p_sched, c)
      /\ \A from \in Predepend(p_sched, c) : from # Terminal /\ Now(b)[from] = FINISHED
      /\ interrupt_code' = NoInterrupt
  BY DEF MovedStep, BeginAll, PredecessorsDone
<1>2. Now(b)[b] = FINISHED /\ progress \in [Batch -> RecordValues]
  BY <1>1 DEF BatchesOK, BatchOK, EndOK
<1>3. progress[b] = EXECUTING
  BY <1>2 DEF BatchesOK, BatchOK, EndOK, Now, FINISHED, FINISHED_WITH_ERROR
<1>4. Terminal \in Predepend(p_sched, c) \/ PredecessorsFinished(c)
  BY <1>1 DEF BatchesOK, BatchOK, EndOK
<1>5. progress[b] = FINISHED
  BY <1>1, <1>4 DEF PredecessorsFinished
<1> QED
  BY <1>3, <1>5 DEF EXECUTING, FINISHED

\* Performed is such a step.
LEMMA PerformedSteps ==
    ASSUME ControlOK, DbOK, ArrayOK, CallOK, BatchesOK, Performed
    PROVE  \E b \in Batch : \E S : PerformedStep(b, S)
<1> DEFINE b == result.batch
<1>1. /\ step = "perform" /\ sched_progress = EXECUTING
      /\ PerformedBatch
      /\ RecordBatches(Begun \cup IF result.code = "BATCH_TASKS_FINISHED"
                                  THEN {result.batch} ELSE {})
      /\ UNCHANGED <<step, remaining, runs, answers, unprepared>>
  BY DEF Performed, Performing
<1>2. /\ pc = "returned" /\ b # NoBatch /\ pc' = "user" /\ a_penvs' = <<>>
      /\ UNCHANGED <<p_sched, tasks_array, sched_progress, begin_index, turn, faults>>
  BY <1>1 DEF PerformedBatch
<1>3. b \in ToSet(executing_batches_tree) /\ b \in Batch /\ Returned(b)
  BY <1>2, InSeq DEF CallOK, Returned
<1>4. /\ progress[b] \in {EXECUTING, FINISHED_WITH_ERROR}
      /\ b \in BatchesOf(p_sched)
      /\ progress \in [Batch -> RecordValues]
  BY <1>3 DEF BatchesOK, BatchOK, EndOK, INIT, EXECUTING, FINISHED_WITH_ERROR
<1>5. p_sched \in Schedule
  BY <1>1, LoadedSchedule DEF ControlOK
<1>6. PICK S : MovedStep(b, S)
  BY <1>1, <1>4, PerformedBatchOK
<1> HIDE DEF b
<1>7. \A c \in S : progress[c] = INIT
  BY <1>3, <1>6, NewOnes
<1>8. progress' = [c \in Batch |-> IF c \in S THEN EXECUTING ELSE Now(b)[c]]
  BY <1>6 DEF MovedStep
<1>9. Now(b) \in [Batch -> RecordValues]
  BY <1>4 DEF Now, RecordValues
<1>10. progress' \in [Batch -> RecordValues]
  BY <1>8, <1>9 DEF RecordValues
<1>11. S \subseteq Batch /\ S \subseteq BatchesOf(p_sched)
  BY <1>6 DEF MovedStep, BeginAll
<1>12. Begun = S
  <2>1. ASSUME NEW c \in Batch, c \notin S, progress[c] # EXECUTING
        PROVE  progress'[c] # EXECUTING
    BY <1>4, <1>8, <2>1 DEF Now, EXECUTING, FINISHED, FINISHED_WITH_ERROR
  <2>2. ASSUME NEW c \in S
        PROVE  progress[c] # EXECUTING /\ progress'[c] = EXECUTING
    BY <1>7, <1>8, <1>11 DEF INIT, EXECUTING
  <2> QED
    BY <1>11, <2>1, <2>2 DEF Begun
<1> DEFINE ended == IF result.code = "BATCH_TASKS_FINISHED" THEN {b} ELSE {}
<1>13. S \cup ended \in SUBSET Batch /\ IsFiniteSet(S \cup ended)
  <2>1. ended \subseteq BatchesOf(p_sched) /\ ended \subseteq Batch
    BY <1>3, <1>4
  <2>2. S \cup ended \in SUBSET BatchesOf(p_sched)
    BY <1>11, <2>1
  <2> QED
    BY <1>5, <1>11, <2>1, <2>2, BatchesFinite, FS_Subset
<1>14. RecordBatches(S \cup ended)
  BY <1>1, <1>12 DEF b
<1>15. BatchRecords(S \cup ended)
  BY <1>10, <1>13, <1>14, RecordBatchesOK
<1>16. PerformedStep(b, S)
  BY <1>1, <1>2, <1>3, <1>4, <1>5, <1>6, <1>7, <1>15 DEF PerformedStep
<1> QED
  BY <1>3, <1>16

\* What every step is.
Kinds ==
    \/ Outside /\ OutsideStep
    \/ LoadStep
    \/ \E S : BeginStep(S)
    \/ CallStep
    \/ \E b \in Batch : TurnStep(b)
    \/ \E b \in Batch : \E S : PerformedStep(b, S)

\* There are no other steps.
LEMMA EveryStep ==
    ASSUME TurnsOK, BatchesOK, Next
    PROVE  Kinds
BY StepKinds, LoadSteps, BeginSteps, PerformedSteps DEF Kinds, TurnsOK

-----------------------------------------------------------------------------
(* What the steps keep.                                                     *)

\* No step has more faults and lost records than the bound.
LEMMA FaultsBounded ==
    ASSUME TurnsOK, Next, Kinds
    PROVE  faults' \in Nat /\ lost' \in Nat /\ faults' + lost' <= MaxFaults
<1>1. faults \in Nat /\ lost \in Nat /\ faults + lost <= MaxFaults
  BY DEF TurnsOK, ControlOK
<1>2. ASSUME Outside PROVE faults' \in Nat /\ lost' \in Nat
  <2>1. CASE StartHzbat \/ Crash \/ NextSchedule \/ PretasksDone
    BY <1>1, <2>1 DEF StartHzbat, Crash, NextSchedule, PretasksDone, dagVars, multiVars
  <2>2. CASE \E b \in Batch : PretaskInserts(b) \/ PretaskFinishes(b)
    BY <1>1, <2>2 DEF PretaskInserts, PretaskFinishes, Lost, dagVars, multiVars
  <2>3. CASE PretaskFails
    BY <1>1, <2>3 DEF PretaskFails, Lost, dagVars, multiVars
  <2>4. CASE LoadFails
    BY <1>1, <2>4 DEF LoadFails, Lost
  <2>5. CASE Unload
    BY <1>1, <2>5 DEF Unload, Lost
  <2> QED
    BY <1>2, <2>1, <2>2, <2>3, <2>4, <2>5 DEF Outside
<1>3. ASSUME CallStep PROVE faults' \in Nat /\ lost' \in Nat
  <2>1. UNCHANGED <<faults, hzbatVars>>
    BY <1>3, CallStepOK DEF TurnsOK
  <2> QED
    BY <1>1, <2>1 DEF hzbatVars
<1>4. faults' \in Nat /\ lost' \in Nat
  BY <1>1, <1>2, <1>3
     DEF Kinds, LoadStep, BeginStep, TurnStep, PerformedStep, BatchRecords,
         Records, multiVars
<1>5. faults' + lost' <= MaxFaults
  <2>1. CASE StartHzbat \/ Crash
    BY <1>1, <2>1 DEF StartHzbat, Crash, dagVars, multiVars
  <2>2. CASE Work
    BY <2>2 DEF Work
  <2> QED
    BY <2>1, <2>2 DEF Next
<1> QED
  BY <1>4, <1>5

\* hzbat_schedule returns.
LEMMA ScheduledOK ==
    ASSUME NEW code, Scheduled(code), remaining \in Seq(Schedule), remaining # <<>>
    PROVE  step' \in {"next", "idle"} /\ remaining' \in Seq(Schedule)
<1>1. Tail(remaining) \in Seq(Schedule)
  BY HeadTailProperties
<1>2. <<>> \in Seq(Schedule)
  OBVIOUS
<1> QED
  BY <1>1, <1>2 DEF Scheduled

\* The process has a schedule when and only when it works at one.
LEMMA ControlKept ==
    ASSUME TurnsOK, Next, Kinds
    PROVE  ControlOK'
<1> DEFINE Goal == /\ step' \in Steps
                   /\ remaining' \in Seq(Schedule)
                   /\ step' \notin {"idle", "next"} => remaining' # <<>>
                   /\ step' # "perform" => Fresh'
                   /\ step' \notin {"load", "perform"} => p_sched' = NoSchedule
                   /\ step' = "perform" => p_sched' # NoSchedule
                   /\ p_sched' # NoSchedule => p_sched' = Head(remaining')
<1>1. /\ step \in Steps
      /\ remaining \in Seq(Schedule)
      /\ step \notin {"idle", "next"} => remaining # <<>>
      /\ step # "perform" => Fresh
      /\ step \notin {"load", "perform"} => p_sched = NoSchedule
      /\ step = "perform" => p_sched # NoSchedule
      /\ p_sched # NoSchedule => p_sched = Head(remaining)
  BY DEF TurnsOK, ControlOK
<1>2. ASSUME Outside /\ OutsideStep PROVE Goal
  <2>1. Fresh' /\ p_sched' = NoSchedule
    BY <1>2 DEF OutsideStep
  <2>2. /\ step' \in Steps \ {"perform"} /\ remaining' \in Seq(Schedule)
        /\ step' \notin {"idle", "next"} => remaining' # <<>>
    <3>1. CASE StartHzbat
      BY <3>1, HzbatConstants DEF StartHzbat, Steps
    <3>2. CASE Crash
      BY <3>2 DEF Crash, Steps
    <3>3. CASE NextSchedule
      <4>1. CASE remaining = <<>>
        BY <1>1, <3>3, <4>1 DEF NextSchedule, Steps
      <4>2. CASE remaining # <<>>
        <5>1. Tail(remaining) \in Seq(Schedule)
          BY <1>1, <4>2, HeadTailProperties
        <5>2. \/ step' = step /\ remaining' = Tail(remaining)
              \/ step' = "prepare" /\ remaining' = remaining
          BY <3>3, <4>2 DEF NextSchedule
        <5> QED
          BY <1>1, <3>3, <4>2, <5>1, <5>2 DEF NextSchedule, Steps
      <4> QED
        BY <4>1, <4>2
    <3>4. CASE \E b \in Batch : PretaskInserts(b) \/ PretaskFinishes(b)
      BY <1>1, <3>4 DEF PretaskInserts, PretaskFinishes, Steps
    <3>5. CASE PretaskFails
      BY <1>1, <3>5, ScheduledOK DEF PretaskFails, Steps
    <3>6. CASE PretasksDone
      BY <1>1, <3>6 DEF PretasksDone, Steps
    <3>7. CASE LoadFails
      BY <1>1, <3>7, ScheduledOK DEF LoadFails, Steps
    <3>8. CASE Unload
      <4>1. \E code : Scheduled(code)
        BY <3>8 DEF Unload
      <4> QED
        BY <1>1, <3>8, <4>1, ScheduledOK DEF Unload, Steps
    <3> QED
      BY <1>2, <3>1, <3>2, <3>3, <3>4, <3>5, <3>6, <3>7, <3>8 DEF Outside
  <2> QED
    BY <2>1, <2>2
<1>3. ASSUME LoadStep PROVE Goal
  BY <1>1, <1>3 DEF LoadStep
<1>4. ASSUME \E S : BeginStep(S) PROVE Goal
  <2>1. p_sched # NoSchedule
    BY <1>4, DagConstants DEF BeginStep
  <2> QED
    BY <1>1, <1>4, <2>1 DEF BeginStep, Steps
<1>5. ASSUME CallStep PROVE Goal
  <2>1. UNCHANGED <<p_sched, hzbatVars>> /\ step = "perform"
    BY <1>5, CallStepOK DEF TurnsOK, CallStep
  <2> QED
    BY <1>1, <2>1 DEF hzbatVars
<1>6. ASSUME \E b \in Batch : TurnStep(b) PROVE Goal
  BY <1>1, <1>6 DEF TurnStep, schedVars
<1>7. ASSUME \E b \in Batch : \E S : PerformedStep(b, S) PROVE Goal
  BY <1>1, <1>7 DEF PerformedStep
<1>8. Goal
  BY <1>2, <1>3, <1>4, <1>5, <1>6, <1>7 DEF Kinds
<1>9. faults' \in Nat /\ lost' \in Nat /\ faults' + lost' <= MaxFaults
  BY FaultsBounded
<1> QED
  BY <1>8, <1>9 DEF ControlOK

\* The tables keep their form.
LEMMA DbKept ==
    ASSUME TurnsOK, Next, Kinds
    PROVE  DbOK'
<1>1. DbOK
  BY DEF TurnsOK
<1>2. /\ INIT \in RecordValues /\ EXECUTING \in RecordValues
      /\ FINISHED \in RecordValues /\ FINISHED_WITH_ERROR \in RecordValues
  BY DEF RecordValues
<1>3. CASE Outside /\ OutsideStep
  <2>1. CASE \/ UNCHANGED db
             \/ \E b \in Batch : \/ db' = [db EXCEPT !.pretask = @ \cup {b}]
                                 \/ db' = [db EXCEPT !.inserted = @ \cup {b}]
             \/ \E s : \E v \in RecordValues : db' = [db EXCEPT !.schedule[s] = v]
    BY <1>1, <2>1 DEF DbOK
  <2>2. \A s, code : UnloadProgress(s, code) \in RecordValues
    BY <1>2 DEF UnloadProgress
  <2>3. \/ UNCHANGED db
        \/ \E b \in Batch : \/ db' = [db EXCEPT !.pretask = @ \cup {b}]
                            \/ db' = [db EXCEPT !.inserted = @ \cup {b}]
        \/ \E s : \E v \in RecordValues : db' = [db EXCEPT !.schedule[s] = v]
    <3>1. CASE StartHzbat \/ Crash \/ NextSchedule \/ PretasksDone
      BY <3>1 DEF StartHzbat, Crash, NextSchedule, PretasksDone
    <3>2. CASE \E b \in Batch : PretaskInserts(b) \/ PretaskFinishes(b)
      BY <3>2 DEF PretaskInserts, PretaskFinishes
    <3>3. CASE PretaskFails
      BY <1>2, <3>3 DEF PretaskFails
    <3>4. CASE LoadFails
      BY <1>2, <3>4 DEF LoadFails
    <3>5. CASE Unload
      BY <2>2, <3>5 DEF Unload
    <3> QED
      BY <1>3, <3>1, <3>2, <3>3, <3>4, <3>5 DEF Outside
  <2> QED
    BY <2>1, <2>3
<1>4. CASE LoadStep
  BY <1>1, <1>2, <1>4 DEF LoadStep, DbOK
<1>5. CASE \E batches : BatchRecords(batches)
  BY <1>1, <1>5 DEF BatchRecords, DbOK
<1>6. CASE CallStep
  <2>1. UNCHANGED db
    BY <1>6, CallStepOK DEF TurnsOK, hzbatVars
  <2> QED
    BY <1>1, <2>1 DEF DbOK
<1>7. CASE \E b \in Batch : TurnStep(b)
  BY <1>1, <1>7 DEF TurnStep, Records, DbOK
<1> QED
  BY <1>3, <1>4, <1>5, <1>6, <1>7 DEF Kinds, BeginStep, PerformedStep

\* The first k schedules are those before the ones that remain, and they are
\* recorded as finished.
PassedOverFirst(k) ==
    /\ k \in 0..Len(Schedules)
    /\ k + Len(remaining) = Len(Schedules)
    /\ \A i \in 1..Len(remaining) : remaining[i] = Schedules[k + i]
    /\ \A i \in 1..k : db.schedule[Schedules[i]] = FINISHED

\* A schedule that is recorded as finished is passed over.
LEMMA NextRemains ==
    ASSUME NEW k, PassedOverFirst(k), remaining \in Seq(Schedule), remaining # <<>>,
           remaining' = Tail(remaining),
           \A i \in 1..k : db'.schedule[Schedules[i]] = FINISHED,
           db'.schedule[Head(remaining)] = FINISHED
    PROVE  PassedOverFirst(k + 1)'
<1>1. Len(Schedules) \in Nat /\ Len(remaining) \in Nat /\ Len(remaining) # 0
  BY HzbatConstants, LenProperties
<1>2. PICK rest : rest = remaining'
  OBVIOUS
<1>3. /\ Len(rest) = Len(remaining) - 1
      /\ \A i \in 1..Len(rest) : rest[i] = remaining[i + 1]
  BY <1>2, HeadTailProperties, Zenon
<1>4. k \in 0..Len(Schedules) /\ k + Len(remaining) = Len(Schedules)
  BY Zenon DEF PassedOverFirst
<1>5. k + 1 \in 0..Len(Schedules) /\ (k + 1) + Len(rest) = Len(Schedules)
  <2>1. \A n, m \in Nat : m # 0 /\ k \in 0..n /\ k + m = n
                           => k + 1 \in 0..n /\ (k + 1) + (m - 1) = n
    OBVIOUS
  <2> QED
    BY <1>1, <1>3, <1>4, <2>1, Zenon
<1>6. ASSUME NEW i \in 1..Len(rest)
      PROVE  rest[i] = Schedules[(k + 1) + i]
  <2>1. i + 1 \in 1..Len(remaining) /\ k + (i + 1) = (k + 1) + i
    BY <1>1, <1>3, <1>4
  <2>2. remaining[i + 1] = Schedules[k + (i + 1)]
    BY <2>1 DEF PassedOverFirst
  <2> QED
    BY <1>3, <2>1, <2>2
<1>7. ASSUME NEW i \in 1..(k + 1)
      PROVE  db'.schedule[Schedules[i]] = FINISHED
  <2>1. CASE i \in 1..k
    BY <2>1
  <2>2. CASE i \notin 1..k
    <3>1. i = k + 1
      BY <1>4, <2>2
    <3>2. 1 \in 1..Len(remaining) /\ Head(remaining) = remaining[1]
      BY <1>1
    <3>3. Head(remaining) = Schedules[k + 1]
      BY <3>2 DEF PassedOverFirst
    <3> QED
      BY <3>1, <3>3
  <2> QED
    BY <2>1, <2>2
<1> QED
  BY <1>2, <1>5, <1>6, <1>7 DEF PassedOverFirst

\* Nothing changes for the schedules that are passed over.
LEMMA SameRemains ==
    ASSUME NEW k, PassedOverFirst(k), remaining' = remaining,
           \A i \in 1..k : db'.schedule[Schedules[i]] = FINISHED
    PROVE  PassedOverFirst(k)'
BY DEF PassedOverFirst

\* OrderOK in these words.
LEMMA OrderByFirst ==
    OrderOK <=> (step # "idle" =>
                   /\ \E k : PassedOverFirst(k)
                   /\ step # "next" => db.schedule[Head(remaining)] # FINISHED)
BY DEF OrderOK, PassedOverFirst

\* The schedules are taken in their order, each when those before it are done.
LEMMA OrderKept ==
    ASSUME TurnsOK, OrderOK, BatchesOK, Next, Kinds
    PROVE  OrderOK'
<1> DEFINE s == Head(remaining)
           Same == /\ step # "idle" /\ remaining' = remaining
                   /\ step' # "next" => step # "next"
                   /\ db'.schedule = db.schedule
<1>1. /\ remaining \in Seq(Schedule)
      /\ step \notin {"idle", "next"} => remaining # <<>>
      /\ DbOK
  BY DEF TurnsOK, ControlOK
<1>2. step # "idle" => /\ \E k : PassedOverFirst(k)
                       /\ step # "next" => db.schedule[s] # FINISHED
  BY OrderByFirst
<1>3. SUFFICES ASSUME step' # "idle"
               PROVE  /\ \E k : PassedOverFirst(k)'
                      /\ step' # "next" => db'.schedule[Head(remaining)'] # FINISHED
  BY <1>3, Zenon DEF OrderOK, PassedOverFirst
<1>4. CASE Same
  <2>1. PICK k : PassedOverFirst(k)
    BY <1>2, <1>4
  <2>2. \A i \in 1..k : db'.schedule[Schedules[i]] = FINISHED
    BY <1>4, <2>1 DEF PassedOverFirst
  <2>3. PassedOverFirst(k)'
    BY <1>4, <2>1, <2>2, SameRemains
  <2> QED
    BY <1>2, <1>4, <2>3
<1>5. ASSUME NEW code, Scheduled(code), code # NoInterrupt PROVE FALSE
  BY <1>3, <1>5 DEF Scheduled
<1>6. CASE StartHzbat
  <2>1. step' = "next" /\ remaining' = Schedules
    BY <1>6 DEF StartHzbat
  <2>2. Len(Schedules) \in Nat
    BY HzbatConstants, LenProperties
  <2>3. PassedOverFirst(0)'
    BY <2>1, <2>2 DEF PassedOverFirst
  <2> QED
    BY <2>1, <2>3
<1>7. CASE NextSchedule
  <2>1. PICK k : PassedOverFirst(k)
    BY <1>2, <1>7 DEF NextSchedule
  <2>2. db' = db /\ remaining # <<>> /\ step = "next"
    BY <1>3, <1>7 DEF NextSchedule
  <2>3. \A i \in 1..k : db'.schedule[Schedules[i]] = FINISHED
    BY <2>1, <2>2 DEF PassedOverFirst
  <2>4. CASE db.schedule[s] = FINISHED
    <3>1. remaining' = Tail(remaining) /\ step' = "next"
      BY <1>7, <2>2, <2>4 DEF NextSchedule
    <3>2. db'.schedule[Head(remaining)] = FINISHED
      BY <2>2, <2>4
    <3>3. PassedOverFirst(k + 1)'
      BY <1>1, <2>1, <2>2, <2>3, <3>1, <3>2, NextRemains
    <3> QED
      BY <3>1, <3>3
  <2>5. CASE db.schedule[s] # FINISHED
    <3>1. remaining' = remaining
      BY <1>7, <2>2, <2>5 DEF NextSchedule
    <3>2. PassedOverFirst(k)'
      BY <2>1, <2>3, <3>1, SameRemains
    <3> QED
      BY <2>2, <2>5, <3>1, <3>2
  <2> QED
    BY <2>4, <2>5
<1>8. CASE \E b \in Batch : PretaskInserts(b) \/ PretaskFinishes(b)
  BY <1>1, <1>4, <1>8 DEF PretaskInserts, PretaskFinishes, DbOK
<1>9. CASE PretasksDone
  BY <1>4, <1>9 DEF PretasksDone
<1>10. CASE Crash \/ PretaskFails \/ LoadFails
  BY <1>3, <1>5, <1>10 DEF Crash, PretaskFails, LoadFails, NoInterrupt
<1>11. CASE Unload
  <2>1. /\ step = "perform" /\ sched_progress # EXECUTING
        /\ db' = [db EXCEPT !.schedule[s] = UnloadProgress(s, sched_progress)]
        /\ interrupt_code = NoInterrupt /\ Scheduled(interrupt_code)
    BY <1>5, <1>11 DEF Unload, NoInterrupt
  <2>2. sched_progress = FINISHED
    BY <2>1 DEF BatchesOK, BatchOK, EndOK, FinalProgress
  <2>3. s \in Schedule /\ remaining # <<>>
    BY <2>1, LoadedSchedule DEF TurnsOK
  <2>4. db' = [db EXCEPT !.schedule[s] = FINISHED]
    BY <2>1, <2>2 DEF UnloadProgress
  <2>5. PICK table : table = db.schedule /\ table \in [Schedule -> RecordValues]
    BY <1>1 DEF DbOK
  <2>6. db'.schedule = [table EXCEPT ![s] = FINISHED]
    BY <1>1, <2>4, <2>5 DEF DbOK
  <2>7. PICK k : PassedOverFirst(k)
    BY <1>2, <2>1
  <2>8. db'.schedule[s] = FINISHED /\ \A i \in 1..k : db'.schedule[Schedules[i]] = FINISHED
    <3>1. ASSUME NEW i \in 1..k PROVE db'.schedule[Schedules[i]] = FINISHED
      <4>1. table[Schedules[i]] = FINISHED
        BY <2>5, <2>7 DEF PassedOverFirst
      <4>2. Schedules[i] \in Schedule
        BY <2>7, HzbatConstants, ElementOfSeq, LenProperties DEF PassedOverFirst
      <4> QED
        BY <2>5, <2>6, <4>1, <4>2
    <3> QED
      BY <2>3, <2>5, <2>6, <3>1
  <2>9. step' = "next" /\ remaining' = Tail(remaining)
    BY <2>1 DEF Scheduled
  <2>10. PassedOverFirst(k + 1)'
    BY <1>1, <2>3, <2>7, <2>8, <2>9, NextRemains
  <2> QED
    BY <2>9, <2>10
<1>12. CASE LoadStep
  <2>1. /\ step = "load" /\ s \in Schedule /\ remaining' = remaining /\ step' = step
        /\ db' = [db EXCEPT !.schedule[s] = EXECUTING]
    BY <1>12 DEF LoadStep
  <2>2. PICK k : PassedOverFirst(k) /\ db.schedule[s] # FINISHED
    BY <1>2, <2>1
  <2>3. PICK table : table = db.schedule /\ table \in [Schedule -> RecordValues]
    BY <1>1 DEF DbOK
  <2>4. db'.schedule = [table EXCEPT ![s] = EXECUTING]
    BY <1>1, <2>1, <2>3 DEF DbOK
  <2>5. ASSUME NEW i \in 1..k PROVE db'.schedule[Schedules[i]] = FINISHED
    <3>1. table[Schedules[i]] = FINISHED
      BY <2>2, <2>3 DEF PassedOverFirst
    <3>2. Schedules[i] \in Schedule
      BY <2>2, HzbatConstants, ElementOfSeq, LenProperties DEF PassedOverFirst
    <3> QED
      BY <2>2, <2>3, <2>4, <3>1, <3>2
  <2>6. PassedOverFirst(k)'
    BY <2>1, <2>2, <2>5, SameRemains
  <2>7. db'.schedule[s] # FINISHED
    BY <2>1, <2>3, <2>4 DEF EXECUTING, FINISHED
  <2> QED
    BY <2>1, <2>6, <2>7
<1>13. CASE \E batches : /\ BatchRecords(batches) /\ remaining' = remaining
                         /\ step \in {"load", "perform"}
  BY <1>1, <1>4, <1>13 DEF BatchRecords, DbOK
<1>14. CASE CallStep
  <2>1. UNCHANGED hzbatVars /\ step = "perform"
    BY <1>14, CallStepOK DEF TurnsOK, CallStep
  <2> QED
    BY <1>4, <2>1 DEF hzbatVars
<1>15. CASE \E b \in Batch : TurnStep(b)
  BY <1>1, <1>4, <1>15 DEF TurnStep, Records, DbOK
<1> QED
  BY <1>6, <1>7, <1>8, <1>9, <1>10, <1>11, <1>12, <1>13, <1>14, <1>15
     DEF Kinds, Outside, BeginStep, PerformedStep

\* What is loaded of a batch: its tasks that are not recorded as finished, each
\* once; nothing if the batch is, or is filtered out, or has none inserted.
LEMMA LoadedOK ==
    ASSUME NEW b \in Batch
    PROVE  /\ Loaded(b) \in Seq(TasksIn(b))
           /\ \A i, j \in 1..Len(Loaded(b)) : i # j => Loaded(b)[i] # Loaded(b)[j]
           /\ \A t \in ToSet(Loaded(b)) : db.task[b][t] # FINISHED
           /\ b \in Filtered \/ b \notin db.inserted \/ db.batch[b] = FINISHED
              \/ \A t \in TasksIn(b) : db.task[b][t] # FINISHED => t \in ToSet(Loaded(b))
<1> DEFINE q == [t \in TasksIn(b) |-> t]
           left == {t \in TasksIn(b) : db.task[b][t] # FINISHED}
           p == Selected(q, left)
<1>1. TasksCount[b] \in Nat
  BY DagConstants
<1>2. q \in Seq(TasksIn(b)) /\ Len(q) = TasksCount[b]
  BY <1>1 DEF TasksIn
<1>3. \A i, j \in 1..Len(q) : i # j => q[i] # q[j]
  BY <1>2 DEF TasksIn
<1>4. ToSet(q) = TasksIn(b)
  BY DEF ToSet
<1> HIDE DEF q, left
<1>5. p \in Seq(TasksIn(b)) /\ ToSet(p) = ToSet(q) \cap left
  BY <1>2, SelectedElements
<1>6. \A i, j \in 1..Len(p) : i # j => p[i] # p[j]
  BY <1>2, <1>3, SelectedOnce
<1>7. CASE b \in Filtered \/ b \notin db.inserted \/ db.batch[b] = FINISHED
  <2>1. Loaded(b) = <<>>
    BY <1>7 DEF Loaded
  <2>2. <<>> \in Seq(TasksIn(b)) /\ Len(<<>>) = 0 /\ ToSet(<<>>) = {}
    BY DEF ToSet
  <2> QED
    BY <1>7, <2>1, <2>2
<1>8. CASE ~(b \in Filtered \/ b \notin db.inserted \/ db.batch[b] = FINISHED)
  <2>1. Loaded(b) = p
    BY <1>8, Zenon DEF Loaded, q, left
  <2> HIDE DEF p
  <2> QED
    BY <1>4, <1>5, <1>6, <2>1 DEF left
<1> QED
  BY <1>7, <1>8

\* Only the loader gives batches their tasks.
LEMMA ArrayKept ==
    ASSUME TurnsOK, Next, Kinds
    PROVE  ArrayOK'
<1>1. ArrayOK
  BY DEF TurnsOK
<1>2. CASE tasks_array' = tasks_array
  BY <1>1, <1>2 DEF ArrayOK
<1>3. ASSUME NEW b \in Batch
      PROVE  /\ <<>> \in Seq(TasksIn(b))
             /\ \A i, j \in 1..Len(<<>>) : i # j => <<>>[i] # <<>>[j]
  OBVIOUS
<1>4. CASE tasks_array' = [b \in Batch |-> <<>>]
  BY <1>3, <1>4 DEF ArrayOK
<1>5. CASE LoadStep
  <2>1. tasks_array' = [b \in Batch |-> IF b \in BatchesOf(Head(remaining))
                                       THEN Loaded(b) ELSE <<>>]
    BY <1>5 DEF LoadStep
  <2>2. ASSUME NEW b \in Batch
        PROVE  /\ tasks_array'[b] \in Seq(TasksIn(b))
               /\ \A i, j \in 1..Len(tasks_array'[b]) :
                     i # j => tasks_array'[b][i] # tasks_array'[b][j]
    <3>1. PICK q : q = tasks_array'[b]
      OBVIOUS
    <3>2. CASE q = Loaded(b)
      <4>1. q \in Seq(TasksIn(b)) /\ \A i, j \in 1..Len(q) : i # j => q[i] # q[j]
        BY <3>2, LoadedOK, Zenon
      <4> QED
        BY <3>1, <4>1, Zenon
    <3>3. CASE q = <<>>
      BY <1>3, <3>1, <3>3, Zenon
    <3> QED
      BY <2>1, <3>1, <3>2, <3>3
  <2>3. tasks_array' = [b \in Batch |-> tasks_array'[b]]
    BY <2>1
  <2> QED
    BY <2>2, <2>3 DEF ArrayOK
<1>6. CASE CallStep
  BY <1>2, <1>6, CallStepOK DEF TurnsOK
<1> QED
  BY <1>2, <1>4, <1>5, <1>6
     DEF Kinds, OutsideStep, BeginStep, TurnStep, PerformedStep, schedVars

\* A step of one environment keeps its tasks' number.
LEMMA EnvsKept ==
    ASSUME TurnsOK, BatchesOK, Next, Kinds
    PROVE  EnvsOK' /\ BegunOK'
<1>1. /\ EnvsOK /\ BegunOK
      /\ penv = [b \in Batch |-> penv[b]]
      /\ \A b \in Batch : EnvOK(penv[b]) /\ Counted(penv[b])
  BY DEF TurnsOK, EnvsOK
<1> DEFINE Good(b) ==
             /\ EnvOK(penv'[b]) /\ Counted(penv'[b])
             /\ penv'[b].tasks_count = IF progress'[b] = INIT THEN 0
                                       ELSE Len(tasks_array'[b])
<1>2. SUFFICES penv' = [b \in Batch |-> penv'[b]] /\ \A b \in Batch : Good(b)
  BY DEF EnvsOK, BegunOK
<1>3. \A b \in Batch :
         penv[b].tasks_count = IF progress[b] = INIT THEN 0 ELSE Len(tasks_array[b])
  BY <1>1 DEF BegunOK
<1>4. CASE Fresh'
  <2>1. penv' = [b \in Batch |-> NewEnv(FALSE)] /\ progress' = [b \in Batch |-> INIT]
    BY <1>4 DEF Fresh
  <2>2. (NewEnv(FALSE)).tasks_count = 0
    BY DEF NewEnv
  <2>3. EnvOK(NewEnv(FALSE)) /\ Counted(NewEnv(FALSE))
    BY NewEnvOK
  <2> QED
    BY <2>1, <2>2, <2>3
<1>5. ASSUME NEW b \in Batch, Kept(penv[b], penv'[b]),
             progress'[b] = INIT <=> progress[b] = INIT, tasks_array' = tasks_array
      PROVE  Good(b)
  BY <1>1, <1>3, <1>5 DEF Kept, Maintains
<1>6. CASE CallStep
  BY <1>1, <1>5, <1>6, CallStepOK DEF TurnsOK
<1>7. CASE \E b \in Batch : TurnStep(b)
  <2>1. PICK c \in Batch : TurnStep(c)
    BY <1>7
  <2>2. /\ penv' = [penv EXCEPT ![c] = penv'[c]]
        /\ Kept(penv[c], penv'[c])
        /\ progress' = progress /\ tasks_array' = tasks_array
    BY <2>1 DEF TurnStep, TurnOf, Turned, schedVars
  <2>3. Good(c)
    BY <1>5, <2>2
  <2>4. ASSUME NEW b \in Batch, b # c PROVE Good(b)
    <3>1. penv'[b] = penv[b]
      BY <1>1, <2>2, <2>4
    <3> QED
      BY <1>1, <1>3, <2>2, <3>1
  <2>5. penv' = [b \in Batch |-> penv'[b]]
    BY <1>1, <2>2
  <2> QED
    BY <2>3, <2>4, <2>5
<1>8. ASSUME NEW S, BeginAll(S), tasks_array' = tasks_array,
             \A b \in S : progress'[b] # INIT,
             \A b \in Batch \ S : progress'[b] = INIT <=> progress[b] = INIT
      PROVE  penv' = [b \in Batch |-> penv'[b]] /\ \A b \in Batch : Good(b)
  <2>1. ASSUME NEW b \in S PROVE Good(b)
    BY <1>8, <2>1 DEF BeginAll
  <2>2. ASSUME NEW b \in Batch \ S PROVE Good(b)
    BY <1>1, <1>3, <1>8, <2>2 DEF BeginAll
  <2> QED
    BY <1>8, <2>1, <2>2 DEF BeginAll
<1>9. CASE \E S : BeginStep(S)
  <2>1. PICK S : BeginStep(S)
    BY <1>9
  <2>2. /\ BeginAll(S) /\ tasks_array' = tasks_array
        /\ \A b \in S : progress'[b] # INIT
        /\ \A b \in Batch \ S : progress'[b] = INIT /\ progress[b] = INIT
    BY <2>1 DEF BeginStep, BeginAll, Fresh, EXECUTING, INIT
  <2> QED
    BY <1>8, <2>2
<1>10. CASE \E b \in Batch : \E S : PerformedStep(b, S)
  <2>0. PICK b \in Batch : \E S : PerformedStep(b, S)
    BY <1>10
  <2>1. PICK S : PerformedStep(b, S)
    BY <2>0
  <2>2. /\ BeginAll(S) /\ tasks_array' = tasks_array
        /\ progress' = [c \in Batch |-> IF c \in S THEN EXECUTING ELSE Now(b)[c]]
        /\ progress[b] \in {EXECUTING, FINISHED_WITH_ERROR}
        /\ progress \in [Batch -> RecordValues]
    BY <2>1 DEF PerformedStep, MovedStep, BatchesOK, BatchOK, EndOK
  <2>3. \A c \in S : progress'[c] # INIT
    BY <2>2 DEF BeginAll, EXECUTING, INIT
  <2>4. ASSUME NEW c \in Batch \ S
        PROVE  progress'[c] = INIT <=> progress[c] = INIT
    <3>1. progress'[c] = Now(b)[c]
      BY <2>2
    <3> QED
      BY <2>2, <3>1 DEF Now, INIT, EXECUTING, FINISHED, FINISHED_WITH_ERROR
  <2> QED
    BY <1>8, <2>2, <2>3, <2>4
<1> QED
  BY <1>4, <1>6, <1>7, <1>9, <1>10 DEF Kinds, OutsideStep, LoadStep

\* One of n > 0 numbers is the greatest.
LEMMA GreatestNumber ==
    ASSUME NEW v, NEW n \in Nat \ {0}, \A i \in 1..n : v[i] \in Nat
    PROVE  \E i \in 1..n : \A j \in 1..n : v[j] <= v[i]
<1> DEFINE Greatest(m, i) == i \in 1..m /\ \A j \in 1..m : v[j] <= v[i]
           Bad == {m \in 1..n : \A i \in 1..m : ~Greatest(m, i)}
<1> SUFFICES ASSUME \A i \in 1..n : \E j \in 1..n : ~(v[j] <= v[i]) PROVE FALSE
  OBVIOUS
<1>bad. n \in Bad /\ Bad \in SUBSET Nat
  OBVIOUS
<1>1. PICK m \in Bad : \A k \in Bad : m <= k
  BY <1>bad, LeastNumber
<1>2. m \in 1..n /\ \A i \in 1..m : ~Greatest(m, i)
  BY <1>1
<1>3. m # 1
  <2>1. m = 1 => Greatest(m, 1)
    BY <1>2
  <2> QED
    BY <1>2, <2>1
<1>4. m - 1 \in 1..n /\ m - 1 \notin Bad
  <2> HIDE DEF Bad
  <2>1. m - 1 \in 1..n /\ ~(m <= m - 1)
    BY <1>2, <1>3
  <2> QED
    BY <1>1, <2>1
<1>5. PICK i \in 1..(m - 1) : Greatest(m - 1, i)
  BY <1>4
<1>6. CASE v[m] <= v[i]
  <2>1. ASSUME NEW j \in 1..m PROVE v[j] <= v[i]
    <3>1. j = m \/ j \in 1..(m - 1)
      BY <1>2
    <3> QED
      BY <1>5, <1>6, <3>1
  <2>2. i \in 1..m
    BY <1>2, <1>5
  <2> QED
    BY <1>2, <2>1, <2>2
<1>7. CASE ~(v[m] <= v[i])
  <2>1. v[m] \in Nat /\ v[i] \in Nat /\ \A j \in 1..m : v[j] \in Nat
    BY <1>2, <1>4, <1>5
  <2>2. ASSUME NEW j \in 1..m PROVE v[j] <= v[m]
    <3>1. CASE j = m
      BY <2>1, <3>1
    <3>2. CASE j # m
      <4>1. v[j] <= v[i]
        BY <1>2, <1>5, <3>2
      <4> QED
        BY <1>7, <2>1, <4>1
    <3> QED
      BY <3>1, <3>2
  <2>3. Greatest(m, m)
    BY <1>2, <2>2
  <2> QED
    BY <1>2, <2>3
<1> QED
  BY <1>6, <1>7

\* The offers begin with one of the environments of the call.
LEMMA BeginEnvsIndexOK ==
    ASSUME EnvsOK, NEW envs \in Seq(Batch), NEW random \in DOMAIN envs
    PROVE  BeginEnvsIndex(envs, random) \in 1..Len(envs)
<1> DEFINE n == Len(envs)
           Most(i) == \A j \in DOMAIN envs :
                         penv[envs[j]].prepare_count <= penv[envs[i]].prepare_count
<1>1. n \in Nat /\ DOMAIN envs = 1..n /\ \A i \in 1..n : envs[i] \in Batch
  BY LenProperties, ElementOfSeq
<1> HIDE DEF n
<1>2. PICK v : v = [i \in 1..n |-> penv[envs[i]].prepare_count]
  OBVIOUS
<1>3. \A i \in 1..n : v[i] \in Nat
  <2>1. \A b \in Batch : penv[b].prepare_count \in Nat
    BY TaskSetsCounted DEF EnvsOK, EnvOK, Counted
  <2> QED
    BY <1>1, <1>2, <2>1
<1>4. n \in Nat \ {0}
  BY <1>1
<1>5. \E i \in 1..n : \A j \in 1..n : v[j] <= v[i]
  BY <1>3, <1>4, GreatestNumber
<1>6. \A i \in 1..n : Most(i) <=> \A j \in 1..n : v[j] <= v[i]
  BY <1>1, <1>2
<1> DEFINE I == {i \in 1..n : Most(i)}
<1>7. I \in SUBSET Nat /\ I # {}
  BY <1>5, <1>6
<1> HIDE DEF Most
<1>8. PICK i \in I : \A j \in I : i <= j
  BY <1>7, LeastNumber
<1>9. i \in DOMAIN envs /\ Most(i) /\ \A j \in 1..(i - 1) : ~Most(j)
  BY <1>1, <1>8
<1> DEFINE First(k) == Most(k) /\ \A j \in 1..(k - 1) : ~Most(j)
           chosen == CHOOSE k \in DOMAIN envs : First(k)
<1>10. \E k \in DOMAIN envs : First(k)
  BY <1>9
<1> HIDE DEF First
<1>11. chosen \in DOMAIN envs
  BY <1>10
<1>12. BeginEnvsIndex(envs, random) = IF Most(random) THEN random ELSE chosen
  BY Zenon DEF BeginEnvsIndex, Most, First
<1> QED
  BY <1>1, <1>11, <1>12 DEF n

\* The call of DC4CPerformMultiBatchTasks is about the executing batches.
LEMMA CallKept ==
    ASSUME TurnsOK, Next, Kinds
    PROVE  CallOK'
<1> USE DEF CallOK
<1>1. CallOK /\ NoBatch \notin Batch /\ <<>> \in Seq(Batch)
  BY MultiConstants DEF TurnsOK
<1>2. CASE Fresh'
  BY <1>1, <1>2 DEF Fresh
<1>3. CASE \E S : BeginStep(S)
  BY <1>1, <1>3 DEF BeginStep, BeginAll, Fresh
<1>4. CASE \E b \in Batch : TurnStep(b)
  BY <1>1, <1>4 DEF TurnStep, TurnOf, TurnGoesOn, TurnReturns, schedVars
<1>5. CASE \E b \in Batch : \E S : PerformedStep(b, S)
  BY <1>1, <1>5 DEF PerformedStep, MovedStep, BeginAll
<1>6. CASE CallStep
  <2>1. /\ executing_batches_tree' = executing_batches_tree
        /\ sched_progress = EXECUTING
    BY <1>6, CallStepOK DEF TurnsOK, CallStep
  <2>2. CASE NothingExecutes \/ PerformedAll
    BY <1>1, <2>1, <2>2 DEF NothingExecutes, PerformedAll, multiVars
  <2>3. CASE SkipEnv /\ UNCHANGED schedVars
    BY <1>1, <2>1, <2>3, NextTurnOK DEF SkipEnv, schedVars
  <2>4. CASE PerformDagSchedule
    <3> DEFINE envs == executing_batches_tree
    <3>1. /\ PerformMultiBatchTasks(envs) /\ a_penvs' = envs
          /\ sched_progress' = EXECUTING
      BY <2>1, <2>4 DEF PerformDagSchedule, PerformMultiBatchTasks, schedVars
    <3>2. envs \in Seq(Batch) /\ DOMAIN envs = 1..Len(envs)
          /\ \A i \in DOMAIN envs : envs[i] \in Batch /\ envs[i] \in ToSet(envs)
      BY <1>1, LenProperties, InSeq
    <3>3. ASSUME NEW i \in DOMAIN envs,
                 finished_flag' = finished_flag \cup {envs[i]},
                 Returns("BATCH_TASKS_FINISHED", envs[i])
          PROVE  CallOK'
      BY <1>1, <2>1, <3>1, <3>2, <3>3 DEF Returns
    <3>4. ASSUME Returns("ALL_ENVS_FINISHED", NoBatch), UNCHANGED finished_flag
          PROVE  CallOK'
      BY <1>1, <2>1, <3>1, <3>4 DEF Returns
    <3>5. ASSUME NEW random \in DOMAIN envs,
                 begin_index' = BeginEnvsIndex(envs, random),
                 turn' = RoundFrom(envs, begin_index'),
                 pc' = "offer", UNCHANGED finished_flag
          PROVE  CallOK'
      <4>1. begin_index' \in 1..Len(envs)
        BY <3>2, <3>5, BeginEnvsIndexOK DEF TurnsOK
      <4>2. PICK index \in 1..Len(envs) : index = begin_index'
        BY <4>1
      <4>3. /\ RoundFrom(envs, index) \in Seq(Batch)
            /\ RoundFrom(envs, index) # <<>>
            /\ ToSet(RoundFrom(envs, index)) \subseteq ToSet(envs)
        BY <3>2, RoundFromOK
      <4>4. turn' \in Seq(Batch) /\ turn' # <<>> /\ ToSet(turn') \subseteq ToSet(envs)
        BY <3>5, <4>2, <4>3
      <4> HIDE DEF CallOK
      <4> QED
        BY <1>1, <2>1, <3>1, <3>5, <4>1, <4>4 DEF CallOK
    <3> QED
      BY <3>1, <3>3, <3>4, <3>5 DEF PerformMultiBatchTasks
  <2> QED
    BY <1>6, <2>2, <2>3, <2>4 DEF CallStep
<1> QED
  BY <1>2, <1>3, <1>4, <1>5, <1>6 DEF Kinds, OutsideStep, LoadStep

\* What a step of the call reports: a batch that is over and was not reported
\* before, or that all have been.
LEMMA CallReports ==
    ASSUME TurnsOK, BatchesOK, CallStep
    PROVE  /\ finished_flag \subseteq finished_flag'
           /\ \A b \in Batch : ~Returned(b)
           /\ \A b \in Batch : b \in finished_flag' \ finished_flag =>
                 /\ Returned(b)' /\ result'.code = "BATCH_TASKS_FINISHED"
                 /\ Over(penv'[b])
                 /\ b \in ToSet(executing_batches_tree)
           /\ \A b \in Batch : Returned(b)' =>
                 /\ b \in finished_flag' \ finished_flag
                 /\ result'.code = "BATCH_TASKS_FINISHED"
           /\ Returned(NoBatch)' => ToSet(executing_batches_tree) \subseteq finished_flag
           /\ sched_progress' # EXECUTING =>
                 /\ pc' = "user"
                 /\ ToSet(executing_batches_tree) \subseteq finished_flag
                 /\ sched_progress' = FinalProgress
<1> DEFINE tree == executing_batches_tree
<1>1. /\ tree \in Seq(Batch) /\ NoBatch \notin Batch
      /\ DOMAIN tree = 1..Len(tree)
      /\ \A i \in DOMAIN tree : tree[i] \in Batch /\ tree[i] \in ToSet(tree)
      /\ \A b \in ToSet(tree) : \E i \in DOMAIN tree : tree[i] = b
  <2>1. tree \in Seq(Batch) /\ NoBatch \notin Batch
    BY MultiConstants DEF TurnsOK, CallOK
  <2> HIDE DEF tree
  <2> QED
    BY <2>1, InSeq, LenProperties
<1>2. \A b \in Batch : Over(penv'[b]) = Over(penv[b])
  <2>1. \A b \in Batch : SameTasks(penv[b], penv'[b])
                         /\ penv'[b].interrupt_code = penv[b].interrupt_code
    BY CallStepOK DEF TurnsOK
  <2> QED
    BY <2>1 DEF SameTasks, Over, Idle
<1>3. sched_progress = EXECUTING /\ EndOK
  BY DEF CallStep, BatchesOK
<1> HIDE DEF tree
<1>4. CASE NothingExecutes
  <2>1. pc = "user" /\ tree = <<>> /\ sched_progress' = FinalProgress
        /\ UNCHANGED <<pc, finished_flag>>
    BY <1>4 DEF NothingExecutes, multiVars, tree
  <2>2. ToSet(tree) = {}
    BY <2>1 DEF ToSet
  <2> QED
    BY <2>1, <2>2 DEF Returned, tree
<1>5. CASE PerformedAll
  <2>1. Returned(NoBatch) /\ sched_progress' = FinalProgress /\ pc' = "user"
        /\ UNCHANGED finished_flag
    BY <1>5 DEF PerformedAll, Returned
  <2>2. ToSet(executing_batches_tree) \subseteq finished_flag
    BY <1>3, <2>1 DEF EndOK
  <2> QED
    BY <1>1, <2>1, <2>2 DEF Returned
<1>6. CASE SkipEnv /\ UNCHANGED schedVars
  <2>1. pc \in {"offer", "process"} /\ UNCHANGED finished_flag
        /\ sched_progress' = EXECUTING
    BY <1>3, <1>6 DEF SkipEnv, schedVars
  <2>2. pc' \in {"offer", "process"}
    BY <1>6, <2>1, NextTurnOK DEF SkipEnv, TurnsOK
  <2> QED
    BY <2>1, <2>2 DEF Returned
<1>7. CASE PerformDagSchedule
  <2>1. PerformMultiBatchTasks(tree) /\ pc = "user" /\ sched_progress' = EXECUTING
    BY <1>3, <1>7 DEF PerformDagSchedule, PerformMultiBatchTasks, schedVars, tree
  <2>2. ASSUME NEW i \in DOMAIN tree, Reported(tree, i),
               finished_flag' = finished_flag \cup {tree[i]},
               Returns("BATCH_TASKS_FINISHED", tree[i])
        PROVE  /\ finished_flag \subseteq finished_flag'
               /\ \A b \in Batch : b \in finished_flag' \ finished_flag =>
                     /\ Returned(b)' /\ result'.code = "BATCH_TASKS_FINISHED"
                     /\ Over(penv'[b])
                     /\ b \in ToSet(tree)
               /\ \A b \in Batch : Returned(b)' =>
                     /\ b \in finished_flag' \ finished_flag
                     /\ result'.code = "BATCH_TASKS_FINISHED"
               /\ ~Returned(NoBatch)'
    BY <1>1, <1>2, <2>2 DEF Reported, Returns, Returned
  <2>3. ASSUME Returns("ALL_ENVS_FINISHED", NoBatch), UNCHANGED finished_flag,
               \A i \in DOMAIN tree : tree[i] \in finished_flag
        PROVE  /\ \A b \in Batch : ~Returned(b)'
               /\ ToSet(tree) \subseteq finished_flag
    BY <1>1, <2>3 DEF Returns, Returned
  <2>4. ASSUME pc' = "offer" PROVE \A b : ~Returned(b)'
    BY <2>4 DEF Returned
  <2> QED
    BY <2>1, <2>2, <2>3, <2>4 DEF PerformMultiBatchTasks, Returned, tree
<1> QED
  BY <1>4, <1>5, <1>6, <1>7 DEF CallStep

\* How far the batches are when nothing has begun.
LEMMA FreshBatches ==
    ASSUME Fresh', step' # "perform"
    PROVE  BatchesOK'
<1>1. /\ penv' = [b \in Batch |-> NewEnv(FALSE)]
      /\ finished_flag' = {}
      /\ pc' = "user"
      /\ progress' = [b \in Batch |-> INIT]
      /\ executing_batches_tree' = <<>>
  BY DEF Fresh
<1>2. ToSet(executing_batches_tree') = {}
  BY <1>1 DEF ToSet
<1>3. (NewEnv(FALSE)).interrupt_code = NoInterrupt
  BY DEF NewEnv
<1>4. \A b \in Batch : BatchOK(b)'
  BY <1>1, <1>2, <1>3
     DEF BatchOK, Returned, ReportsEnd, ReportsFailure, INIT, EXECUTING,
         FINISHED, FINISHED_WITH_ERROR
<1>5. progress' \in [Batch -> RecordValues] /\ EndOK'
  BY <1>1 DEF RecordValues, EndOK, Returned
<1> QED
  BY <1>4, <1>5 DEF BatchesOK

\* The batches that begin with the schedule.
LEMMA BeginBatchesKept ==
    ASSUME NEW S, BeginStep(S)
    PROVE  BatchesOK'
<1>1. /\ finished_flag' = {} /\ pc' = "user" /\ p_sched' = p_sched
      /\ progress' = [b \in Batch |-> IF b \in S THEN EXECUTING ELSE INIT]
      /\ ToSet(executing_batches_tree') = S
      /\ sched_progress' = EXECUTING
      /\ BeginAll(S)
      /\ penv = [b \in Batch |-> NewEnv(FALSE)]
      /\ \A b \in S : b \in BatchesOf(p_sched) /\ Terminal \in Predepend(p_sched, b)
  BY DEF BeginStep, Fresh, BeginAll
<1>2. (NewEnv(FALSE)).interrupt_code = NoInterrupt
  BY DEF NewEnv
<1>3. \A b \in Batch : penv'[b].interrupt_code = NoInterrupt
  BY <1>1, <1>2 DEF BeginAll
<1>4. ASSUME NEW b \in Batch PROVE BatchOK(b)'
  BY <1>1, <1>3
     DEF BatchOK, Returned, ReportsEnd, ReportsFailure, INIT, EXECUTING,
         FINISHED, FINISHED_WITH_ERROR
<1>5. progress' \in [Batch -> RecordValues] /\ EndOK'
  BY <1>1 DEF RecordValues, EndOK, Returned
<1> QED
  BY <1>4, <1>5 DEF BatchesOK

\* The call reports each batch once, when it is over.
LEMMA CallBatchesKept ==
    ASSUME TurnsOK, BatchesOK, CallStep
    PROVE  BatchesOK'
<1>1. /\ UNCHANGED <<p_sched, progress, executing_batches_tree, interrupt_code>>
      /\ \A b \in Batch : /\ SameTasks(penv[b], penv'[b])
                          /\ penv'[b].interrupt_code = penv[b].interrupt_code
  BY CallStepOK DEF TurnsOK
<1>2. /\ finished_flag \subseteq finished_flag'
      /\ \A b \in Batch : ~Returned(b)
      /\ \A b \in Batch : b \in finished_flag' \ finished_flag =>
            /\ Returned(b)' /\ result'.code = "BATCH_TASKS_FINISHED"
            /\ Over(penv'[b])
            /\ b \in ToSet(executing_batches_tree)
      /\ \A b \in Batch : Returned(b)' =>
            /\ b \in finished_flag' \ finished_flag
            /\ result'.code = "BATCH_TASKS_FINISHED"
      /\ Returned(NoBatch)' => ToSet(executing_batches_tree) \subseteq finished_flag
      /\ sched_progress' # EXECUTING =>
            /\ pc' = "user"
            /\ ToSet(executing_batches_tree) \subseteq finished_flag
            /\ sched_progress' = FinalProgress
  BY CallReports
<1>3. ASSUME NEW b \in Batch PROVE BatchOK(b)'
  <2>1. /\ BatchOK(b) /\ progress[b] \in RecordValues
        /\ progress'[b] = progress[b] /\ ~Returned(b)
    BY <1>1, <1>2 DEF BatchesOK
  <2>2. Executing(penv'[b]) = Executing(penv[b])
    BY <1>1, SameTasksSets
  <2>3. Over(penv'[b]) => Executing(penv'[b]) = {}
    <3>1. EnvOK(penv[b]) /\ Counted(penv[b])
      BY DEF TurnsOK, EnvsOK
    <3>2. IsFiniteSet(Executing(penv[b])) /\ penv[b].running_count = Cardinality(Executing(penv[b]))
      BY <3>1, TaskSetsFinite DEF EnvOK, Counted
    <3>3. penv[b].running_count = 0 => Executing(penv[b]) = {}
      BY <3>2, FS_EmptySet
    <3>4. Over(penv'[b]) => penv[b].running_count = 0
      BY <1>1 DEF Over, Idle, SameTasks
    <3> QED
      BY <2>2, <3>3, <3>4
  <2>4. PredecessorsFinished(b)' = PredecessorsFinished(b)
    BY <1>1 DEF PredecessorsFinished
  <2>5. b \in finished_flag' => /\ progress[b] # INIT
                                /\ Executing(penv'[b]) = {}
                                /\ progress[b] = EXECUTING => ReportsEnd(b)'
    <3>1. CASE b \in finished_flag
      BY <2>1, <2>2, <3>1 DEF BatchOK, ReportsEnd
    <3>2. CASE b \in finished_flag' \ finished_flag
      BY <1>2, <2>1, <2>3, <3>2 DEF BatchOK, ReportsEnd
    <3> QED
      BY <3>1, <3>2
  <2>6. Returned(b)' => /\ progress[b] \in {EXECUTING, FINISHED_WITH_ERROR}
                        /\ b \in finished_flag' /\ Over(penv'[b])
                        /\ ~ReportsFailure(b)'
    <3>1. ASSUME Returned(b)' PROVE progress[b] \in {EXECUTING, FINISHED_WITH_ERROR}
      <4>1. b \notin finished_flag /\ b \in ToSet(executing_batches_tree)
        BY <1>2, <3>1
      <4> QED
        BY <2>1, <4>1 DEF BatchOK, RecordValues
    <3> QED
      BY <1>2, <3>1 DEF ReportsFailure
  <2>7. penv'[b].interrupt_code # NoInterrupt => progress[b] = FINISHED_WITH_ERROR
    BY <1>1, <2>1 DEF BatchOK, ReportsFailure
  <2>8. ReportsFailure(b)' => Returned(b)'
    BY DEF ReportsFailure
  <2>9. ReportsEnd(b)' => Returned(b)'
    BY DEF ReportsEnd
  <2> QED
    BY <1>1, <1>2, <2>1, <2>4, <2>5, <2>6, <2>7, <2>8, <2>9 DEF BatchOK
<1>4. EndOK'
  <2>1. FinalProgress' = FinalProgress
    BY <1>1 DEF FinalProgress
  <2> QED
    BY <1>1, <1>2, <2>1 DEF EndOK
<1>5. progress' \in [Batch -> RecordValues]
  BY <1>1 DEF BatchesOK
<1> QED
  BY <1>3, <1>4, <1>5 DEF BatchesOK

\* A turn interrupts its batch only with a failure that the call returns.
LEMMA TurnBatchesKept ==
    ASSUME TurnsOK, BatchesOK, NEW b \in Batch, TurnStep(b)
    PROVE  BatchesOK'
<1>1. /\ UNCHANGED <<p_sched, progress, executing_batches_tree, interrupt_code,
                     sched_progress, finished_flag>>
      /\ sched_progress = EXECUTING
      /\ pc \in {"offer", "process"}
      /\ b \in ToSet(executing_batches_tree) /\ b \notin finished_flag
      /\ penv' = [penv EXCEPT ![b] = penv'[b]]
  BY DEF TurnStep, TurnOf, schedVars
<1>2. \/ pc' # "returned" /\ SameCode(b)
      \/ /\ pc' = "returned" /\ result'.batch = b
         /\ result'.code = "TASK_FINISHED" /\ SameCode(b)
      \/ /\ pc' = "returned" /\ result'.batch = b
         /\ result'.code \notin {"TASK_FINISHED", "BATCH_TASKS_FINISHED", NoInterrupt}
  BY DEF TurnStep, TurnGoesOn, TurnReturns
<1>3. NoBatch \notin Batch
  BY MultiConstants
<1>4. \A c : ~Returned(c)
  BY <1>1 DEF Returned
<1>5. ASSUME NEW c \in Batch PROVE BatchOK(c)'
  <2>1. BatchOK(c) /\ progress[c] \in RecordValues
    BY DEF BatchesOK
  <2>2. PredecessorsFinished(c)' = PredecessorsFinished(c)
    BY <1>1 DEF PredecessorsFinished
  <2>3. ~ReportsEnd(c) /\ ~ReportsFailure(c) /\ ~ReportsEnd(c)'
    BY <1>2, <1>4 DEF ReportsEnd, ReportsFailure, Returned
  <2>4. c \in finished_flag => c # b /\ progress[c] # EXECUTING
    BY <1>1, <2>1, <2>3 DEF BatchOK
  <2>5. c # b => penv'[c] = penv[c]
    BY <1>1 DEF TurnsOK, EnvsOK
  <2>6. Returned(c)' => progress[c] \in {EXECUTING, FINISHED_WITH_ERROR}
    <3>1. ASSUME c = b PROVE progress[c] \in {EXECUTING, FINISHED_WITH_ERROR}
      BY <1>1, <2>1, <3>1 DEF BatchOK, RecordValues
    <3> QED
      BY <1>2, <3>1 DEF Returned
  <2>7. ReportsFailure(c)' => result'.code # NoInterrupt
    BY <1>2 DEF ReportsFailure, Returned
  <2>8. penv'[c].interrupt_code # NoInterrupt
           => progress[c] = FINISHED_WITH_ERROR \/ ReportsFailure(c)'
    <3>1. CASE penv'[c].interrupt_code = penv[c].interrupt_code
      BY <2>1, <2>3, <3>1 DEF BatchOK
    <3>2. CASE penv'[c].interrupt_code # penv[c].interrupt_code
      BY <1>2, <2>5, <3>2 DEF SameCode, ReportsFailure, Returned
    <3> QED
      BY <3>1, <3>2
  <2> QED
    BY <1>1, <2>1, <2>2, <2>3, <2>4, <2>5, <2>6, <2>7, <2>8 DEF BatchOK
<1>6. EndOK'
  BY <1>1, <1>2, <1>3 DEF EndOK, Returned
<1> QED
  BY <1>1, <1>5, <1>6 DEF BatchesOK

\* The progress of the batches after a batch has been reported.
LEMMA NowOK ==
    ASSUME BatchesOK, NEW b \in Batch, NEW S, PerformedStep(b, S), NEW c \in Batch
    PROVE  /\ c \in S => progress'[c] = EXECUTING /\ progress[c] = INIT /\ c # b
           /\ c \notin S /\ c # b => progress'[c] = progress[c]
           /\ b \notin S /\ progress'[b] = Now(b)[b]
           /\ Now(b)[b] \in {EXECUTING, FINISHED, FINISHED_WITH_ERROR}
           /\ Now(b)[b] = EXECUTING =>
                 result.code = "TASK_FINISHED" /\ progress[b] = EXECUTING
           /\ Now(b)[b] = FINISHED => ReportsEnd(b) /\ progress[b] = EXECUTING
           /\ Now(b)[b] = FINISHED_WITH_ERROR =>
                 ReportsFailure(b) \/ progress[b] = FINISHED_WITH_ERROR
           /\ ReportsFailure(b) \/ progress[b] = FINISHED_WITH_ERROR =>
                 Now(b)[b] = FINISHED_WITH_ERROR
<1>1. /\ progress' = [d \in Batch |-> IF d \in S THEN EXECUTING ELSE Now(b)[d]]
      /\ \A d \in S : progress[d] = INIT
      /\ progress[b] \in {EXECUTING, FINISHED_WITH_ERROR}
      /\ Returned(b)
      /\ progress \in [Batch -> RecordValues]
  BY DEF PerformedStep, MovedStep, BatchesOK
<1>2. b \notin S
  BY <1>1 DEF INIT, EXECUTING, FINISHED_WITH_ERROR
<1>3. c # b => Now(b)[c] = progress[c]
  BY <1>1 DEF Now
<1>4. Now(b)[b] =
        IF result.code \notin {"BATCH_TASKS_FINISHED", "TASK_FINISHED"}
        THEN FINISHED_WITH_ERROR
        ELSE IF result.code = "BATCH_TASKS_FINISHED" /\ progress[b] # FINISHED_WITH_ERROR
        THEN FINISHED
        ELSE progress[b]
  BY <1>1 DEF Now
<1> QED
  BY <1>1, <1>2, <1>3, <1>4
     DEF ReportsEnd, ReportsFailure, EXECUTING, FINISHED, FINISHED_WITH_ERROR

\* What the call has returned with moves its batch, and begins those behind it.
LEMMA PerformedBatchesKept ==
    ASSUME BatchesOK, NEW b \in Batch, NEW S, PerformedStep(b, S)
    PROVE  BatchesOK'
<1>1. /\ sched_progress' = EXECUTING /\ p_sched' = p_sched
      /\ b \in BatchesOf(p_sched) /\ b \in ToSet(executing_batches_tree)
      /\ Returned(b) /\ progress[b] \in {EXECUTING, FINISHED_WITH_ERROR}
      /\ \A c \in S : progress[c] = INIT
      /\ pc' = "user"
  BY DEF PerformedStep
<1>2. /\ S \subseteq BatchesOf(p_sched) /\ S \subseteq Batch
      /\ \A c \in Batch \ S : penv'[c] = penv[c]
      /\ \A c \in S : penv'[c].interrupt_code = NoInterrupt
      /\ finished_flag' = finished_flag \ S
      /\ progress' = [c \in Batch |-> IF c \in S THEN EXECUTING ELSE Now(b)[c]]
      /\ interrupt_code' =
            IF result.code \notin {"BATCH_TASKS_FINISHED", "TASK_FINISHED"}
            THEN result.code ELSE interrupt_code
      /\ \A c \in S : PredecessorsDone(c, Now(b))
      /\ S \subseteq ToSet(executing_batches_tree')
      /\ ToSet(executing_batches_tree') \subseteq ToSet(executing_batches_tree) \cup S
      /\ ToSet(executing_batches_tree) \ {b} \subseteq ToSet(executing_batches_tree')
      /\ Now(b)[b] # FINISHED => b \in ToSet(executing_batches_tree')
  BY DEF PerformedStep, MovedStep, BeginAll
<1>3. ReportsFailure(b) => result.code # NoInterrupt
  BY DEF BatchesOK, BatchOK
<1>4. interrupt_code' = IF ReportsFailure(b) THEN result.code ELSE interrupt_code
  BY <1>1, <1>2 DEF ReportsFailure
<1>5. \A c \in Batch : BatchOK(c) /\ progress[c] \in RecordValues
  BY DEF BatchesOK
<1>6. \A c : ~Returned(c)' /\ ~ReportsEnd(c)' /\ ~ReportsFailure(c)'
  BY <1>1 DEF Returned, ReportsEnd, ReportsFailure
<1>7. \A c : ReportsEnd(c) \/ ReportsFailure(c) => c = b
  BY <1>1 DEF Returned, ReportsEnd, ReportsFailure
<1>8. ASSUME NEW c \in Batch, progress[c] = FINISHED PROVE progress'[c] = FINISHED
  BY <1>1, <1>8, NowOK DEF INIT, EXECUTING, FINISHED, FINISHED_WITH_ERROR
<1>9. ASSUME NEW c \in Batch, PredecessorsFinished(c) PROVE PredecessorsFinished(c)'
  <2>1. ASSUME NEW from \in Predepend(p_sched, c)
        PROVE  from # Terminal /\ progress'[from] = FINISHED
    <3>1. from # Terminal /\ progress[from] = FINISHED /\ from \in Places(p_sched)
      BY <1>9, <2>1 DEF PredecessorsFinished, Predepend, Places
    <3>2. from \in Batch
      BY <3>1, DirectionsLead DEF Places, PerformedStep
    <3> QED
      BY <1>8, <3>1, <3>2
  <2> QED
    BY <1>1, <2>1 DEF PredecessorsFinished
<1>10. ASSUME NEW c \in S PROVE PredecessorsFinished(c)'
  <2>1. ASSUME NEW from \in Predepend(p_sched, c)
        PROVE  from # Terminal /\ progress'[from] = FINISHED
    <3>1. from # Terminal /\ Now(b)[from] = FINISHED /\ from \in Places(p_sched)
      BY <1>2, <2>1 DEF PredecessorsDone, Predepend, Places
    <3>2. from \in Batch
      BY <3>1, DirectionsLead DEF Places, PerformedStep
    <3>3. from # b => progress[from] = FINISHED
      BY <3>1, <3>2 DEF Now, BatchesOK
    <3>4. from \notin S
      BY <1>1, <3>2, <3>3, NowOK DEF INIT, FINISHED
    <3> QED
      BY <1>2, <3>1, <3>2, <3>4
  <2> QED
    BY <1>1, <2>1 DEF PredecessorsFinished
<1>11. ASSUME NEW c \in S PROVE BatchOK(c)'
  <2>1. progress'[c] = EXECUTING /\ c \in Batch /\ c \notin finished_flag'
        /\ c \in ToSet(executing_batches_tree') /\ c \in BatchesOf(p_sched)
        /\ penv'[c].interrupt_code = NoInterrupt
    BY <1>2
  <2> QED
    BY <1>1, <1>6, <1>10, <2>1
       DEF BatchOK, INIT, EXECUTING, FINISHED, FINISHED_WITH_ERROR
<1>12. ASSUME NEW c \in Batch, c \notin S, c # b PROVE BatchOK(c)'
  <2>1. /\ progress'[c] = progress[c] /\ penv'[c] = penv[c]
        /\ c \in finished_flag' <=> c \in finished_flag
        /\ c \in ToSet(executing_batches_tree') <=> c \in ToSet(executing_batches_tree)
        /\ ~ReportsEnd(c) /\ ~ReportsFailure(c)
    BY <1>2, <1>7, <1>12, NowOK
  <2>2. progress'[c] = FINISHED_WITH_ERROR => interrupt_code' # NoInterrupt
    BY <1>3, <1>4, <1>5, <2>1 DEF BatchOK
  <2> QED
    BY <1>1, <1>5, <1>6, <1>9, <2>1, <2>2 DEF BatchOK
<1>13. BatchOK(b)'
  <2>1. /\ progress'[b] = Now(b)[b] /\ penv'[b] = penv[b] /\ b \notin S
        /\ Now(b)[b] \in {EXECUTING, FINISHED, FINISHED_WITH_ERROR}
        /\ Now(b)[b] = EXECUTING =>
                 result.code = "TASK_FINISHED" /\ progress[b] = EXECUTING
        /\ Now(b)[b] = FINISHED => ReportsEnd(b)
        /\ Now(b)[b] = FINISHED_WITH_ERROR =>
                 ReportsFailure(b) \/ progress[b] = FINISHED_WITH_ERROR
        /\ ReportsFailure(b) \/ progress[b] = FINISHED_WITH_ERROR =>
                 Now(b)[b] = FINISHED_WITH_ERROR
    BY <1>2, NowOK
  <2>2. b \in finished_flag' <=> b \in finished_flag
    BY <1>2, <2>1
  <2>3. Now(b)[b] = EXECUTING => b \notin finished_flag
    BY <1>5, <2>1 DEF BatchOK, ReportsEnd
  <2>4. Now(b)[b] # INIT /\ progress[b] # INIT
    BY <1>1, <2>1 DEF INIT, EXECUTING, FINISHED, FINISHED_WITH_ERROR
  <2>5. Now(b)[b] = FINISHED => b \in finished_flag
    BY <1>5, <2>1 DEF BatchOK
  <2>6. Now(b)[b] = FINISHED_WITH_ERROR => interrupt_code' # NoInterrupt
    BY <1>3, <1>4, <1>5, <2>1 DEF BatchOK
  <2>7. b \in finished_flag => Executing(penv[b]) = {}
    BY <1>5 DEF BatchOK
  <2>8. penv[b].interrupt_code # NoInterrupt => Now(b)[b] = FINISHED_WITH_ERROR
    BY <1>5, <2>1 DEF BatchOK
  <2>9. Terminal \in Predepend(p_sched, b) \/ PredecessorsFinished(b)'
    BY <1>5, <1>9, <2>4 DEF BatchOK
  <2>10. Now(b)[b] \in {EXECUTING, FINISHED_WITH_ERROR} => b \in ToSet(executing_batches_tree')
    BY <1>2 DEF EXECUTING, FINISHED, FINISHED_WITH_ERROR
  <2> QED
    BY <1>1, <1>6, <2>1, <2>2, <2>3, <2>4, <2>5, <2>6, <2>7, <2>8, <2>9, <2>10
       DEF BatchOK
<1>14. \A c \in Batch : BatchOK(c)'
  BY <1>11, <1>12, <1>13
<1>15. progress' \in [Batch -> RecordValues]
  <2>1. Now(b) \in [Batch -> RecordValues]
    BY DEF Now, BatchesOK, RecordValues
  <2> QED
    BY <1>2, <2>1 DEF RecordValues
<1>16. EndOK'
  BY <1>1, <1>6 DEF EndOK
<1> QED
  BY <1>14, <1>15, <1>16 DEF BatchesOK

\* The batches' progress.
LEMMA BatchesKept ==
    ASSUME TurnsOK, BatchesOK, Next, Kinds
    PROVE  BatchesOK'
<1>1. CASE (Outside /\ OutsideStep) \/ LoadStep
  <2>1. Fresh' /\ step' # "perform"
    <3>1. ControlOK'
      BY ControlKept
    <3>2. Fresh' /\ (p_sched' = NoSchedule \/ step' = "load")
      BY <1>1 DEF OutsideStep, LoadStep
    <3> QED
      BY <3>1, <3>2 DEF ControlOK
  <2> QED
    BY <2>1, FreshBatches
<1> QED
  BY <1>1, BeginBatchesKept, CallBatchesKept, TurnBatchesKept, PerformedBatchesKept
     DEF Kinds

\* What a callback records of a task: it has ended with a status of 0, or it
\* executes, if that is what is recorded.
LEMMA TaskRecordOK ==
    ASSUME NEW b, NEW i \in CalledBack(b), Moved(penv[b], penv'[b], i)
    PROVE  /\ penv[b].progress[i] # FINISHED
           /\ TaskRecord(penv'[b], i) = FINISHED =>
                 /\ Ends(penv[b], penv'[b], i)
                 /\ penv'[b].progress[i] = FINISHED /\ penv'[b].error[i] = "NONE"
           /\ TaskRecord(penv'[b], i) = EXECUTING <=> penv'[b].progress[i] = EXECUTING
<1>1. /\ penv'[b].progress[i] # penv[b].progress[i]
      /\ EXECUTING \in {penv[b].progress[i], penv'[b].progress[i]}
  BY DEF CalledBack
<1>2. \/ Starts(penv[b], penv'[b], i) \/ SentBack(penv[b], penv'[b], i)
      \/ Failed(penv[b], penv'[b], i) \/ Ends(penv[b], penv'[b], i)
  BY <1>1 DEF Moved, Unmoved, Missed, EXECUTING, WAITFOR_CONNECTING, FINISHED_WITH_ERROR
<1> QED
  BY <1>1, <1>2
     DEF TaskRecord, Starts, SentBack, Failed, Ends, Errors, INIT, EXECUTING,
         WAITFOR_CONNECTING, FINISHED, FINISHED_WITH_ERROR

\* In a turn of b the record of a task changes only by its own callback.
LEMMA OwnRecord ==
    ASSUME TurnsOK, BatchesOK, NEW b \in Batch, TurnStep(b),
           NEW i \in 1..Len(tasks_array[b]), NEW t, t = tasks_array[b][i]
    PROVE  /\ i \in TasksOf(penv[b]) /\ t \in TasksIn(b)
           /\ Moved(penv[b], penv'[b], i)
           /\ \/ db'.task[b][t] = db.task[b][t]
              \/ i \in CalledBack(b) /\ db'.task[b][t] = TaskRecord(penv'[b], i)
<1>1. progress[b] # INIT
  BY DEF TurnStep, BatchesOK, BatchOK
<1>2. TasksOf(penv[b]) = 1..Len(tasks_array[b])
  BY <1>1 DEF TurnsOK, BegunOK, TasksOf
<1>3. t \in TasksIn(b)
  BY ElementOfSeq DEF TurnsOK, ArrayOK
<1>4. \A j \in 1..Len(tasks_array[b]) : tasks_array[b][j] = t => j = i
  BY DEF TurnsOK, ArrayOK
<1>5. \A j \in CalledBack(b) : j \in 1..Len(tasks_array[b])
  BY <1>2 DEF CalledBack
<1>6. \/ db'.task[b][t] = db.task[b][t]
      \/ \E j \in CalledBack(b) : /\ tasks_array[b][j] = t
                                  /\ db'.task[b][t] = TaskRecord(penv'[b], j)
  BY <1>3 DEF TurnStep, Records
<1>7. Moved(penv[b], penv'[b], i)
  BY <1>2 DEF TurnStep, TurnOf, Turned
<1> QED
  BY <1>2, <1>3, <1>4, <1>5, <1>6, <1>7

\* The tasks of other batches than the one whose turn it is stay.
LEMMA OthersStay ==
    ASSUME TurnsOK, NEW b \in Batch, TurnStep(b), NEW c \in Batch, c # b
    PROVE  penv'[c] = penv[c] /\ db'.task[c] = db.task[c]
<1>1. penv' = [penv EXCEPT ![b] = penv'[b]]
  BY DEF TurnStep, TurnOf
<1>2. db' = [db EXCEPT !.task[b] = db'.task[b]]
  BY DEF TurnStep, Records
<1> QED
  BY <1>1, <1>2 DEF TurnsOK, EnvsOK, DbOK

\* A task that is recorded as finished is not loaded again, and none is recorded
\* so before it is.
LEMMA TasksKept ==
    ASSUME TurnsOK, BatchesOK, TasksOK, Next, Kinds
    PROVE  TasksOK'
<1> DEFINE Good(b, i) == db'.task[b][tasks_array'[b][i]] = FINISHED
                            => progress'[b] # INIT /\ penv'[b].progress[i] = FINISHED
<1>1. SUFFICES ASSUME NEW b \in Batch, NEW i \in 1..Len(tasks_array'[b]) PROVE Good(b, i)
  BY DEF TasksOK
<1>2. \A j \in 1..Len(tasks_array[b]) :
         db.task[b][tasks_array[b][j]] = FINISHED
            => progress[b] # INIT /\ penv[b].progress[j] = FINISHED
  BY DEF TasksOK
<1>3. ASSUME tasks_array' = tasks_array, db'.task = db.task, progress[b] = INIT
      PROVE  Good(b, i)
  BY <1>1, <1>2, <1>3
<1>4. CASE OutsideStep
  <2>1. CASE tasks_array' = tasks_array /\ progress = [c \in Batch |-> INIT]
    BY <1>3, <1>4, <2>1 DEF OutsideStep
  <2>2. CASE tasks_array' = [c \in Batch |-> <<>>]
    <3>1. Len(tasks_array'[b]) = 0
      BY <2>2
    <3> QED
      BY <1>1, <3>1
  <2> QED
    BY <1>4, <2>1, <2>2 DEF OutsideStep
<1>5. CASE LoadStep
  <2>1. /\ tasks_array'[b] = Loaded(b) \/ tasks_array'[b] = <<>>
        /\ db'.task = db.task
    BY <1>5 DEF LoadStep, TurnsOK, DbOK
  <2>2. PICK q : q = tasks_array'[b]
    OBVIOUS
  <2>3. q = Loaded(b)
    BY <1>1, <2>1, <2>2
  <2>4. /\ Loaded(b) \in Seq(TasksIn(b))
        /\ \A t \in ToSet(Loaded(b)) : db.task[b][t] # FINISHED
    BY LoadedOK
  <2>5. q \in Seq(TasksIn(b)) /\ \A t \in ToSet(q) : db.task[b][t] # FINISHED
    BY <2>3, <2>4, Zenon
  <2>6. q[i] \in ToSet(q)
    BY <1>1, <2>2, <2>5, InSeq
  <2> QED
    BY <2>1, <2>2, <2>5, <2>6
<1>6. ASSUME NEW S, BeginAll(S), tasks_array' = tasks_array, db'.task = db.task,
             \A c \in S : progress[c] = INIT,
             \A c \in Batch \ S : progress'[c] = INIT => progress[c] = INIT
      PROVE  Good(b, i)
  <2>1. CASE b \in S
    BY <1>3, <1>6, <2>1
  <2>2. CASE b \notin S
    <3>1. penv'[b] = penv[b]
      BY <1>6, <2>2 DEF BeginAll
    <3> QED
      BY <1>1, <1>2, <1>6, <2>2, <3>1
  <2> QED
    BY <2>1, <2>2
<1>7. CASE \E S : BeginStep(S)
  <2>1. PICK S : BeginStep(S)
    BY <1>7
  <2>2. /\ tasks_array' = tasks_array /\ db'.task = db.task
        /\ progress = [c \in Batch |-> INIT]
    BY <2>1 DEF BeginStep, BatchRecords, Fresh, TurnsOK, DbOK
  <2> QED
    BY <1>3, <2>2
<1>8. CASE \E c \in Batch : \E S : PerformedStep(c, S)
  <2>0. PICK c \in Batch : \E S : PerformedStep(c, S)
    BY <1>8
  <2>1. PICK S : PerformedStep(c, S)
    BY <2>0
  <2>2. /\ BeginAll(S) /\ tasks_array' = tasks_array /\ db'.task = db.task
        /\ \A d \in S : progress[d] = INIT
    BY <2>1 DEF PerformedStep, MovedStep, BatchRecords, TurnsOK, DbOK
  <2>3. \A d \in Batch \ S : progress'[d] = INIT => progress[d] = INIT
    BY <2>1, NowOK DEF INIT, EXECUTING, FINISHED, FINISHED_WITH_ERROR
  <2> QED
    BY <1>6, <2>2, <2>3
<1>9. CASE CallStep
  <2>1. /\ UNCHANGED <<tasks_array, progress, db>>
        /\ penv'[b].progress = penv[b].progress
    BY <1>9, CallStepOK DEF TurnsOK, hzbatVars, SameTasks
  <2> QED
    BY <1>1, <1>2, <2>1
<1>10. CASE \E c \in Batch : TurnStep(c)
  <2>1. PICK c \in Batch : TurnStep(c)
    BY <1>10
  <2>2. tasks_array' = tasks_array /\ progress' = progress
    BY <2>1 DEF TurnStep, schedVars
  <2>3. CASE c # b
    BY <1>1, <1>2, <2>1, <2>2, <2>3, OthersStay
  <2>4. CASE c = b
    <3>1. PICK t : t = tasks_array[b][i]
      OBVIOUS
    <3>2. /\ Moved(penv[b], penv'[b], i)
          /\ \/ db'.task[b][t] = db.task[b][t]
             \/ i \in CalledBack(b) /\ db'.task[b][t] = TaskRecord(penv'[b], i)
      BY <1>1, <2>1, <2>2, <2>4, <3>1, OwnRecord
    <3>3. progress[b] # INIT
      BY <2>1, <2>4 DEF TurnStep, BatchesOK, BatchOK
    <3>4. CASE db'.task[b][t] = db.task[b][t]
      <4>1. db'.task[b][t] = FINISHED => penv[b].progress[i] = FINISHED
        BY <1>1, <1>2, <2>2, <3>1, <3>4
      <4>2. penv[b].progress[i] = FINISHED => penv'[b].progress[i] = FINISHED
        BY <3>2 DEF Moved, Unmoved, Starts, Missed, SentBack, Failed, Ends,
                    EXECUTING, WAITFOR_CONNECTING, FINISHED
      <4> QED
        BY <2>2, <3>1, <3>3, <4>1, <4>2
    <3>5. CASE i \in CalledBack(b) /\ db'.task[b][t] = TaskRecord(penv'[b], i)
      BY <2>2, <3>1, <3>2, <3>3, <3>5, TaskRecordOK
    <3> QED
      BY <3>2, <3>4, <3>5
  <2> QED
    BY <2>3, <2>4
<1> QED
  BY <1>4, <1>5, <1>7, <1>8, <1>9, <1>10 DEF Kinds

\* What the steps other than those of pretasks leave of the preparation.
SamePrepared ==
    /\ unprepared' = unprepared
    /\ db'.pretask = db.pretask /\ db'.inserted = db.inserted

\* Only pretasks change what is prepared, and only behind them is a schedule
\* loaded.
LEMMA PreparedSteps ==
    ASSUME TurnsOK, Next, Kinds
    PROVE  \/ \E b \in Batch : PretaskInserts(b) \/ PretaskFinishes(b)
           \/ /\ SamePrepared
              /\ \/ step' \notin {"load", "perform"}
                 \/ step \in {"load", "perform"} /\ remaining' = remaining
                 \/ PretasksDone
<1>1. DbOK
  BY DEF TurnsOK
<1>2. ASSUME NEW code, Scheduled(code) PROVE step' \notin {"load", "perform"}
  BY <1>2 DEF Scheduled
<1>3. CASE StartHzbat \/ Crash
  BY <1>3 DEF StartHzbat, Crash, SamePrepared
<1>4. CASE NextSchedule
  BY <1>4 DEF NextSchedule, SamePrepared
<1>5. CASE PretaskFails
  BY <1>1, <1>2, <1>5 DEF PretaskFails, SamePrepared, DbOK
<1>6. CASE PretasksDone
  BY <1>6 DEF PretasksDone, SamePrepared
<1>7. CASE LoadFails
  BY <1>1, <1>2, <1>7 DEF LoadFails, SamePrepared, DbOK
<1>8. CASE Unload
  BY <1>1, <1>2, <1>8 DEF Unload, SamePrepared, DbOK
<1>9. CASE LoadStep
  BY <1>1, <1>9 DEF LoadStep, SamePrepared, DbOK
<1>10. CASE CallStep
  <2>1. UNCHANGED hzbatVars /\ step = "perform"
    BY <1>10, CallStepOK DEF TurnsOK, CallStep
  <2> QED
    BY <2>1 DEF hzbatVars, SamePrepared
<1>11. ASSUME NEW b \in Batch, TurnStep(b)
       PROVE  SamePrepared /\ step' = step /\ remaining' = remaining
  BY <1>1, <1>11 DEF TurnStep, Records, SamePrepared, DbOK
<1>12. ASSUME NEW batches, BatchRecords(batches), unprepared' = unprepared
       PROVE  SamePrepared
  BY <1>1, <1>12 DEF BatchRecords, SamePrepared, DbOK
<1>13. CASE \E S : BeginStep(S)
  BY <1>12, <1>13 DEF BeginStep
<1>14. CASE \E b \in Batch : \E S : PerformedStep(b, S)
  BY <1>12, <1>14 DEF PerformedStep
<1> QED
  BY <1>3, <1>4, <1>5, <1>6, <1>7, <1>8, <1>9, <1>10, <1>11, <1>13, <1>14
     DEF Kinds, Outside

\* What is prepared stays so, and so does what was not.
LEMMA Remembered ==
    ASSUME TurnsOK, Next, Kinds
    PROVE  unprepared \subseteq unprepared' /\ db.inserted \subseteq db'.inserted
<1>1. CASE \E b \in Batch : PretaskInserts(b) \/ PretaskFinishes(b)
  BY <1>1 DEF PretaskInserts, PretaskFinishes, TurnsOK, DbOK
<1> QED
  BY <1>1, PreparedSteps DEF SamePrepared

\* A schedule is loaded when nothing is left to prepare, or what is left is
\* abandoned.
LEMMA PreparedKept ==
    ASSUME TurnsOK, PreparedOK, Next, Kinds
    PROVE  PreparedOK'
<1>1. \A b : Prepared(b) => Prepared(b)'
  BY Remembered DEF Prepared
<1>2. CASE /\ SamePrepared
           /\ \/ step' \notin {"load", "perform"}
              \/ step \in {"load", "perform"} /\ remaining' = remaining
              \/ PretasksDone
  <2>1. \A b \in (Batch \ Pretasks) \cup db'.pretask : Prepared(b)'
    BY <1>1, <1>2 DEF PreparedOK, SamePrepared
  <2>2. CASE step' \notin {"load", "perform"}
    BY <2>1, <2>2 DEF PreparedOK, Prepared
  <2>3. CASE step \in {"load", "perform"} /\ remaining' = remaining
    BY <1>1, <2>1, <2>3 DEF PreparedOK, Prepared
  <2>4. CASE PretasksDone
    <3>1. /\ PretasksOf(Head(remaining)) = {} /\ remaining' = remaining
          /\ step = "prepare"
      BY <2>4 DEF PretasksDone
    <3>2. Head(remaining) \in Schedule
      BY <3>1, LoadedSchedule DEF TurnsOK
    <3>3. ASSUME NEW b \in BatchesOf(Head(remaining)) PROVE Prepared(b)
      <4>1. b \in Batch
        BY <3>2, DirectionsLead
      <4>2. b \in Filtered \/ b \notin Pretasks \/ b \in db.pretask
        BY <3>1, <3>3 DEF PretasksOf
      <4> QED
        BY <4>1, <4>2 DEF PreparedOK, Prepared
    <3> QED
      BY <1>1, <2>1, <3>1, <3>3 DEF PreparedOK, Prepared
  <2> QED
    BY <1>2, <2>2, <2>3, <2>4
<1>3. ASSUME NEW c \in Batch, PretaskInserts(c) PROVE PreparedOK'
  <2>1. db'.pretask = db.pretask /\ step' = "prepare"
    BY <1>3 DEF PretaskInserts, TurnsOK, DbOK
  <2> QED
    BY <1>1, <2>1 DEF PreparedOK, Prepared
<1>4. ASSUME NEW c \in Batch, PretaskFinishes(c) PROVE PreparedOK'
  <2>1. step = "prepare" /\ remaining' = remaining
    BY <1>4 DEF PretaskFinishes
  <2>2. CASE /\ db' = [db EXCEPT !.pretask = @ \cup {c}] /\ step' = step
             /\ unprepared' = unprepared \cup ({c} \ db.inserted)
    <3>1. db'.pretask = db.pretask \cup {c} /\ db'.inserted = db.inserted
      BY <2>2 DEF TurnsOK, DbOK
    <3>2. Prepared(c)'
      BY <2>2, <3>1 DEF Prepared
    <3>3. \A b \in (Batch \ Pretasks) \cup db'.pretask : Prepared(b)'
      BY <1>1, <3>1, <3>2 DEF PreparedOK
    <3> QED
      BY <2>1, <2>2, <3>3 DEF PreparedOK, Prepared
  <2>3. CASE /\ db' = db /\ step' = "load"
             /\ unprepared' = unprepared
                                \cup (PretasksOf(Head(remaining)) \ db.inserted)
    <3>1. Head(remaining) \in Schedule
      BY <2>1, LoadedSchedule DEF TurnsOK
    <3>2. ASSUME NEW b \in BatchesOf(Head(remaining)) PROVE Prepared(b)'
      <4>1. b \in Batch
        BY <3>1, DirectionsLead
      <4>2. CASE b \in PretasksOf(Head(remaining))
        BY <2>3, <4>2 DEF Prepared
      <4>3. CASE b \notin PretasksOf(Head(remaining))
        <5>1. b \in Filtered \/ b \notin Pretasks \/ b \in db.pretask
          BY <3>2, <4>3 DEF PretasksOf
        <5>2. Prepared(b)
          BY <4>1, <5>1 DEF PreparedOK, Prepared
        <5> QED
          BY <1>1, <5>2
      <4> QED
        BY <4>2, <4>3
    <3>3. \A b \in (Batch \ Pretasks) \cup db'.pretask : Prepared(b)'
      BY <1>1, <2>3 DEF PreparedOK
    <3> QED
      BY <2>1, <3>2, <3>3 DEF PreparedOK, Prepared
  <2> QED
    BY <1>4, <2>2, <2>3 DEF PretaskFinishes
<1> QED
  BY <1>2, <1>3, <1>4, PreparedSteps

\* A batch that is reported without a failure has an answer for every task.
LEMMA EndMeansAnswered ==
    ASSUME TurnsOK, BatchesOK, AnswersOK, NEW b \in Batch, p_sched \in Schedule,
           b \in BatchesOf(p_sched), ReportsEnd(b), progress[b] = EXECUTING
    PROVE  Answered(b)
<1>1. Over(penv[b]) /\ penv[b].interrupt_code = NoInterrupt
  BY DEF BatchesOK, BatchOK, ReportsEnd, ReportsFailure, EXECUTING, FINISHED_WITH_ERROR
<1>2. penv[b].prepare_count = 0 /\ penv[b].running_count = 0
  BY <1>1 DEF Over, Idle
<1>3. EnvOK(penv[b]) /\ Counted(penv[b])
  BY DEF TurnsOK, EnvsOK
<1>4. Executing(penv[b]) = {} /\ Pending(penv[b]) = {}
  <2>1. IsFiniteSet(Executing(penv[b])) /\ IsFiniteSet(Pending(penv[b]))
    BY <1>3, TaskSetsFinite DEF EnvOK
  <2>2. Cardinality(Executing(penv[b])) = 0 /\ Cardinality(Pending(penv[b])) = 0
    BY <1>2, <1>3 DEF Counted
  <2> QED
    BY <2>1, <2>2, FS_EmptySet
<1>5. Done(penv[b]) = 1..Len(tasks_array[b])
  <2>1. penv[b].tasks_count = Len(tasks_array[b])
    BY DEF TurnsOK, BegunOK, INIT, EXECUTING
  <2> QED
    BY <1>4, <2>1 DEF Done, TasksOf
<1>6. \A t \in ToSet(tasks_array[b]) : HasAnswer(b, t)
  <2>1. tasks_array[b] \in Seq(TasksIn(b))
    BY DEF TurnsOK, ArrayOK
  <2>2. \A t \in ToSet(tasks_array[b]) :
           \E i \in 1..Len(tasks_array[b]) : tasks_array[b][i] = t
    BY <2>1, InSeq
  <2> QED
    BY <1>5, <2>2 DEF AnswersOK
<1>7. \/ b \in Filtered \cup unprepared
      \/ \A t \in TasksIn(b) : t \in ToSet(tasks_array[b]) \/ HasAnswer(b, t)
  BY DagConstants DEF AnswersOK
<1> QED
  BY <1>6, <1>7 DEF Answered, HasAnswer

\* No answer is forgotten, and nothing is finished without one.
LEMMA AnswersKept ==
    ASSUME TurnsOK, BatchesOK, PreparedOK, AnswersOK, Next, Kinds
    PROVE  AnswersOK'
<1>1. answers \subseteq answers'
  BY CallStepOK
     DEF Kinds, OutsideStep, LoadStep, BeginStep, TurnStep, PerformedStep,
         TurnsOK, hzbatVars
<1>2. /\ \A b, t : HasAnswer(b, t) => HasAnswer(b, t)'
      /\ \A b : Answered(b) => Answered(b)'
  BY <1>1, Remembered DEF HasAnswer, Answered
<1>3. ASSUME NEW b \in Batch, NEW t \in TasksIn(b), db'.task[b][t] = FINISHED
      PROVE  <<b, t, "NONE">> \in answers'
  <2>1. CASE db'.task[b][t] = db.task[b][t]
    BY <1>1, <1>3, <2>1 DEF AnswersOK
  <2>2. CASE TurnStep(b)
    <3>1. \/ db'.task[b][t] = db.task[b][t]
          \/ \E i \in CalledBack(b) : /\ tasks_array[b][i] = t
                                      /\ db'.task[b][t] = TaskRecord(penv'[b], i)
      BY <2>2 DEF TurnStep, Records
    <3>2. ASSUME NEW i \in CalledBack(b), tasks_array[b][i] = t,
                 db'.task[b][t] = TaskRecord(penv'[b], i)
          PROVE  <<b, t, "NONE">> \in answers'
      <4>1. i \in TasksOf(penv[b]) /\ Moved(penv[b], penv'[b], i)
        BY <2>2 DEF CalledBack, TurnStep, TurnOf, Turned
      <4>2. Ends(penv[b], penv'[b], i) /\ penv'[b].error[i] = "NONE"
        BY <1>3, <3>2, <4>1, TaskRecordOK
      <4> QED
        BY <2>2, <3>2, <4>1, <4>2 DEF TurnStep
    <3> QED
      BY <2>1, <3>1, <3>2
  <2>3. CASE db'.task = db.task
    BY <2>1, <2>3
  <2>4. CASE \E c \in Batch : TurnStep(c) /\ c # b
    <3>1. db'.task[b] = db.task[b]
      BY <2>4, OthersStay
    <3> QED
      BY <2>1, <3>1
  <2>5. CASE \E batches : BatchRecords(batches)
    <3>1. db'.task = db.task
      BY <2>5 DEF BatchRecords, TurnsOK, DbOK
    <3> QED
      BY <2>3, <3>1
  <2>6. CASE LoadStep
    <3>1. db'.task = db.task
      BY <2>6 DEF LoadStep, TurnsOK, DbOK
    <3> QED
      BY <2>3, <3>1
  <2>7. CASE CallStep
    <3>1. db'.task = db.task
      BY <2>7, CallStepOK DEF TurnsOK, hzbatVars
    <3> QED
      BY <2>3, <3>1
  <2> QED
    BY <2>2, <2>3, <2>4, <2>5, <2>6, <2>7
       DEF Kinds, OutsideStep, BeginStep, PerformedStep
<1>4. ASSUME NEW b \in Batch, NEW i \in Done(penv'[b]), NEW t, t = tasks_array'[b][i]
      PROVE  HasAnswer(b, t)'
  <2>1. CASE Done(penv'[b]) = Done(penv[b]) /\ tasks_array' = tasks_array
    BY <1>2, <1>4, <2>1 DEF AnswersOK
  <2>2. CASE Fresh'
    <3>1. penv'[b].tasks_count = 0
      BY <2>2 DEF Fresh, NewEnv
    <3> QED
      BY <1>4, <3>1 DEF Done, TasksOf
  <2>3. ASSUME NEW S, BeginAll(S), tasks_array' = tasks_array
        PROVE  HasAnswer(b, t)'
    <3>1. CASE b \in S
      <4>1. \A j \in TasksOf(penv'[b]) : penv'[b].progress[j] = WAITFOR_CONNECTING
        BY <2>3, <3>1 DEF BeginAll
      <4>2. Done(penv'[b]) = {}
        BY <4>1 DEF Done, Pending
      <4> QED
        BY <1>4, <4>2
    <3>2. CASE b \notin S
      <4>1. penv'[b] = penv[b]
        BY <2>3, <3>2 DEF BeginAll
      <4> QED
        BY <2>1, <2>3, <4>1
    <3> QED
      BY <3>1, <3>2
  <2>4. CASE CallStep
    <3>1. SameTasks(penv[b], penv'[b]) /\ tasks_array' = tasks_array
      BY <2>4, CallStepOK DEF TurnsOK
    <3> QED
      BY <2>1, <3>1, SameTasksSets
  <2>5. CASE \E c \in Batch : TurnStep(c)
    <3>1. PICK c \in Batch : TurnStep(c)
      BY <2>5
    <3>2. tasks_array' = tasks_array
      BY <3>1 DEF TurnStep, schedVars
    <3>3. CASE c # b
      BY <2>1, <3>1, <3>2, <3>3, OthersStay
    <3>4. CASE c = b
      <4>1. /\ TasksOf(penv'[b]) = TasksOf(penv[b])
            /\ i \in TasksOf(penv[b]) /\ Moved(penv[b], penv'[b], i)
        BY <1>4, <3>1, <3>4 DEF TurnStep, TurnOf, Turned, Kept, TasksOf, Done
      <4>2. CASE Ends(penv[b], penv'[b], i)
        <5>1. /\ penv'[b].error[i] \in Answers
              /\ <<b, tasks_array[b][i], penv'[b].error[i]>> \in answers'
          BY <3>1, <3>4, <4>1, <4>2 DEF TurnStep
        <5> QED
          BY <1>4, <3>2, <5>1 DEF HasAnswer
      <4>3. CASE Unmoved(penv[b], penv'[b], i)
        <5>1. i \in Done(penv[b])
          BY <1>4, <4>1, <4>3 DEF Done, Pending, Requeued, Executing, Unmoved
        <5> QED
          BY <1>2, <1>4, <3>2, <5>1 DEF AnswersOK
      <4>4. CASE \/ Starts(penv[b], penv'[b], i) \/ Missed(penv[b], penv'[b], i)
                 \/ SentBack(penv[b], penv'[b], i) \/ Failed(penv[b], penv'[b], i)
        <5>1. i \notin Done(penv'[b])
          BY <4>1, <4>4
             DEF Starts, Missed, SentBack, Failed, Errors, Done, Pending, Requeued,
                 Executing
        <5> QED
          BY <1>4, <5>1
      <4> QED
        BY <4>1, <4>2, <4>3, <4>4 DEF Moved
    <3> QED
      BY <3>3, <3>4
  <2> QED
    BY <2>2, <2>3, <2>4, <2>5
       DEF Kinds, OutsideStep, LoadStep, BeginStep, PerformedStep, MovedStep
<1>5. ASSUME p_sched' # NoSchedule, NEW b \in BatchesOf(p_sched'),
             b \notin Filtered \cup unprepared', NEW t \in TasksIn(b)
      PROVE  t \in ToSet(tasks_array'[b]) \/ HasAnswer(b, t)'
  <2>1. CASE p_sched' = p_sched /\ tasks_array' = tasks_array
    BY <1>2, <1>5, <2>1, Remembered DEF AnswersOK
  <2>2. CASE LoadStep
    <3>1. p_sched' \in Schedule /\ b \in Batch /\ tasks_array'[b] = Loaded(b)
      BY <1>5, <2>2, DirectionsLead DEF LoadStep
    <3>0. b \notin Filtered \cup unprepared /\ b \in db.inserted
      <4>1. /\ step = "load" /\ unprepared' = unprepared
            /\ b \in BatchesOf(Head(remaining))
        BY <1>5, <2>2 DEF LoadStep
      <4> QED
        BY <1>5, <4>1 DEF PreparedOK, Prepared
    <3>2. \/ db.batch[b] = FINISHED
          \/ db.task[b][t] = FINISHED
          \/ t \in ToSet(Loaded(b))
      <4>1. \/ b \in Filtered \/ b \notin db.inserted \/ db.batch[b] = FINISHED
            \/ \A u \in TasksIn(b) :
                  db.task[b][u] # FINISHED => u \in ToSet(Loaded(b))
        BY <3>1, LoadedOK, Zenon
      <4> QED
        BY <3>0, <4>1
    <3>3. db.batch[b] = FINISHED => HasAnswer(b, t)
      BY <3>0, <3>1 DEF AnswersOK, Answered, HasAnswer
    <3>4. db.task[b][t] = FINISHED => HasAnswer(b, t)
      BY <1>5, <3>1 DEF AnswersOK, HasAnswer, Answers
    <3> QED
      BY <1>2, <3>1, <3>2, <3>3, <3>4
  <2> QED
    BY <1>5, <2>1, <2>2, CallStepOK
       DEF Kinds, OutsideStep, BeginStep, TurnStep, PerformedStep, TurnsOK, schedVars
<1>6. ASSUME NEW b \in Batch, progress'[b] = FINISHED PROVE Answered(b)'
  <2>1. CASE progress' = progress
    BY <1>2, <1>6, <2>1 DEF AnswersOK
  <2>2. CASE Fresh' \/ \E S : BeginStep(S)
    BY <1>6, <2>2 DEF Fresh, BeginStep, INIT, EXECUTING, FINISHED
  <2>3. CASE \E c \in Batch : \E S : PerformedStep(c, S)
    <3>0. PICK c \in Batch : \E S : PerformedStep(c, S)
      BY <2>3
    <3>1. PICK S : PerformedStep(c, S)
      BY <3>0
    <3>2. CASE c = b
      <4>1. ReportsEnd(b) /\ progress[b] = EXECUTING
        BY <1>6, <3>1, <3>2, NowOK
      <4>2. p_sched \in Schedule /\ b \in BatchesOf(p_sched)
        BY <3>1, <3>2 DEF PerformedStep
      <4> QED
        BY <1>2, <4>1, <4>2, EndMeansAnswered
    <3>3. CASE c # b
      <4>1. progress[b] = FINISHED
        BY <1>6, <3>1, <3>3, NowOK DEF EXECUTING, FINISHED
      <4> QED
        BY <1>2, <4>1 DEF AnswersOK
    <3> QED
      BY <3>2, <3>3
  <2> QED
    BY <2>1, <2>2, <2>3, CallStepOK
       DEF Kinds, OutsideStep, LoadStep, TurnStep, TurnsOK, schedVars
<1>7. ASSUME NEW b \in Batch, db'.batch[b] = FINISHED PROVE Answered(b)'
  <2>1. CASE db'.batch[b] = db.batch[b]
    BY <1>2, <1>7, <2>1 DEF AnswersOK
  <2>2. CASE \E batches : BatchRecords(batches)
    BY <1>6, <1>7, <2>1, <2>2 DEF BatchRecords
  <2>3. CASE LoadStep \/ (\E c \in Batch : TurnStep(c)) \/ CallStep
    BY <2>1, <2>3, CallStepOK DEF LoadStep, TurnStep, Records, TurnsOK, DbOK, hzbatVars
  <2> QED
    BY <2>1, <2>2, <2>3 DEF Kinds, OutsideStep, BeginStep, PerformedStep
<1> QED
  <2>1. \A b \in Batch : \A i \in Done(penv'[b]) :
           \E answer \in Answers : <<b, tasks_array'[b][i], answer>> \in answers'
    BY <1>4 DEF HasAnswer
  <2> QED
    BY <1>3, <1>5, <1>6, <1>7, <2>1 DEF AnswersOK, HasAnswer

\* A batch that has not begun waits for another one; when the last one before it
\* is finished, it begins.
LEMMA WaitingKept ==
    ASSUME EndsLast, TurnsOK, BatchesOK, WaitingOK, Next, Kinds
    PROVE  WaitingOK'
<1> DEFINE Later(c) ==
              /\ Terminal \notin Predepend(p_sched, c)
              /\ interrupt_code' = NoInterrupt =>
                    \E from \in Predepend(p_sched, c) : progress'[from] # FINISHED
<1>1. CASE step' # "perform"
  BY <1>1 DEF WaitingOK
<1>2. ASSUME step' = "perform", p_sched' = p_sched,
             \A c \in BatchesOf(p_sched) : progress'[c] = INIT => Later(c)
      PROVE  WaitingOK'
  BY <1>2 DEF WaitingOK
<1>3. CASE Outside /\ OutsideStep
  <2>1. ControlOK'
    BY ControlKept
  <2>2. step' # "perform"
    BY <1>3, <2>1 DEF ControlOK, OutsideStep
  <2> QED
    BY <1>1, <2>2
<1>4. CASE LoadStep
  BY <1>1, <1>4 DEF LoadStep
<1>5. ASSUME NEW S, BeginStep(S) PROVE WaitingOK'
  <2>1. /\ p_sched \in Schedule /\ p_sched' = p_sched /\ step' = "perform"
        /\ \A c : c \in S <=> c \in BatchesOf(p_sched)
                              /\ Terminal \in Predepend(p_sched, c)
        /\ progress' = [c \in Batch |-> IF c \in S THEN EXECUTING ELSE INIT]
    BY <1>5 DEF BeginStep
  <2>2. ASSUME NEW c \in BatchesOf(p_sched), progress'[c] = INIT PROVE Later(c)
    <3>1. c \in Batch
      BY <2>1, DirectionsLead
    <3>2. Terminal \notin Predepend(p_sched, c)
      BY <2>1, <2>2, <3>1 DEF INIT, EXECUTING
    <3>3. PICK d \in ToSet(Directions[p_sched]) : d[2] = c
      BY DEF BatchesOf
    <3>4. d = <<d[1], c>>
      BY <2>1, <3>3, DirectionsLead
    <3>5. d[1] \in Predepend(p_sched, c)
      BY <2>1, <3>3, <3>4, DirectionsLead
    <3>6. d[1] \in Batch
      BY <2>1, <3>2, <3>3, <3>5, DirectionsLead DEF Places
    <3>7. progress'[d[1]] # FINISHED
      BY <2>1, <3>6 DEF INIT, EXECUTING, FINISHED
    <3> QED
      BY <3>2, <3>5, <3>7
  <2> QED
    BY <1>2, <2>1, <2>2
<1>6. CASE CallStep \/ \E b \in Batch : TurnStep(b)
  <2>1. UNCHANGED <<p_sched, progress, interrupt_code, step>>
    BY <1>6, CallStepOK DEF TurnsOK, TurnStep, schedVars, hzbatVars
  <2> QED
    BY <2>1 DEF WaitingOK
<1>7. ASSUME NEW b \in Batch, NEW S, PerformedStep(b, S) PROVE WaitingOK'
  <2>1. /\ p_sched \in Schedule /\ UNCHANGED <<p_sched, step>> /\ step = "perform"
        /\ MovedStep(b, S) /\ Returned(b)
    BY <1>7 DEF PerformedStep
  <2>2. interrupt_code' = NoInterrupt => interrupt_code = NoInterrupt
    BY <2>1 DEF MovedStep, BatchesOK, BatchOK, ReportsFailure
  <2>3. ASSUME NEW c \in BatchesOf(p_sched), progress'[c] = INIT PROVE Later(c)
    <3>1. c \in Batch
      BY <2>1, DirectionsLead
    <3>2. c \notin S /\ progress[c] = INIT
      BY <1>7, <2>3, <3>1, NowOK DEF INIT, EXECUTING, FINISHED, FINISHED_WITH_ERROR
    <3>3. /\ Terminal \notin Predepend(p_sched, c)
          /\ interrupt_code = NoInterrupt =>
               \E from \in Predepend(p_sched, c) : progress[from] # FINISHED
      BY <2>1, <3>2 DEF WaitingOK
    <3>4. ASSUME interrupt_code' = NoInterrupt,
                 \A from \in Predepend(p_sched, c) : progress'[from] = FINISHED
          PROVE  FALSE
      <4>1. PICK from \in Predepend(p_sched, c) : progress[from] # FINISHED
        BY <2>2, <3>3, <3>4
      <4>2. Predepend(p_sched, c) \subseteq Batch
        BY <2>1, <3>3, DirectionsLead DEF Predepend
      <4>3. ASSUME NEW d \in Predepend(p_sched, c)
            PROVE  d # Terminal /\ Now(b)[d] = FINISHED
        <5>1. d \in Batch /\ progress'[d] = FINISHED
          BY <3>4, <4>2
        <5>2. d \notin S
          BY <1>7, <5>1, NowOK DEF EXECUTING, FINISHED
        <5> QED
          BY <2>1, <3>3, <5>1, <5>2 DEF MovedStep
      <4>4. PredecessorsDone(c, Now(b))
        BY <4>3 DEF PredecessorsDone
      <4>5. from = b
        <5>1. from \in Batch /\ progress'[from] = FINISHED
          BY <3>4, <4>2
        <5>2. from \notin S
          BY <1>7, <5>1, NowOK DEF EXECUTING, FINISHED
        <5> QED
          BY <1>7, <4>1, <5>1, <5>2, NowOK
      <4>6. c \in S
        BY <2>1, <3>4, <4>1, <4>3, <4>4, <4>5 DEF MovedStep
      <4> QED
        BY <3>2, <4>6
    <3> QED
      BY <3>3, <3>4
  <2> QED
    BY <1>2, <2>1, <2>3
<1> QED
  BY <1>3, <1>4, <1>5, <1>6, <1>7 DEF Kinds

\* Before anything has begun no task executes.
LEMMA FreshIdle ==
    ASSUME Fresh, NEW b \in Batch
    PROVE  progress[b] = INIT /\ Executing(penv[b]) = {}
BY DEF Fresh, NewEnv, Executing, TasksOf

\* A batch that has not begun has no task that executes.
LEMMA InitIdle ==
    ASSUME BegunOK, NEW b \in Batch, progress[b] = INIT
    PROVE  Executing(penv[b]) = {}
<1>1. penv[b].tasks_count = 0
  BY DEF BegunOK
<1> QED
  BY <1>1 DEF Executing, TasksOf

\* What is recorded of the batches and tasks of a first run that lost no record.
BatchRecorded(b) ==
    db.batch[b] = EXECUTING =>
       /\ progress[b] \in {EXECUTING, FINISHED_WITH_ERROR}
       /\ b \in finished_flag => ReportsEnd(b)

TaskRecorded(b, t) ==
    db.task[b][t] = EXECUTING => \E i \in Executing(penv[b]) : tasks_array[b][i] = t

RecordsKept ==
    lost = 0 /\ runs = 1 /\ step # "idle" =>
       \A b \in Batch : BatchRecorded(b) /\ \A t \in TasksIn(b) : TaskRecorded(b, t)

\* If nothing is recorded as executing all is recorded rightly.
NoneRecorded ==
    \A b \in Batch : /\ db.batch[b] # EXECUTING
                     /\ \A t \in TasksIn(b) : db.task[b][t] # EXECUTING

LEMMA NoneRecordedOK ==
    ASSUME NoneRecorded
    PROVE  RecordsKept
BY DEF NoneRecorded, RecordsKept, BatchRecorded, TaskRecorded

\* At the end of a schedule nothing executes.
LEMMA NothingExecutesAtEnd ==
    ASSUME TurnsOK, BatchesOK, step = "perform", sched_progress # EXECUTING,
           NEW b \in Batch
    PROVE  /\ Executing(penv[b]) = {}
           /\ progress[b] \in {EXECUTING, FINISHED_WITH_ERROR}
                 => b \in finished_flag /\ ~ReportsEnd(b)
<1>1. pc = "user" /\ ToSet(executing_batches_tree) \subseteq finished_flag
  BY DEF BatchesOK, EndOK
<1>2. progress[b] \in RecordValues /\ BatchOK(b)
  BY DEF BatchesOK
<1>3. CASE progress[b] = INIT
  BY <1>3, InitIdle DEF TurnsOK, INIT, EXECUTING, FINISHED_WITH_ERROR
<1>4. CASE progress[b] # INIT
  <2>1. b \in finished_flag
    BY <1>1, <1>2, <1>4 DEF BatchOK, RecordValues
  <2> QED
    BY <1>1, <1>2, <2>1 DEF BatchOK, ReportsEnd, Returned
<1> QED
  BY <1>3, <1>4

\* In a turn of b the records of its tasks follow them.
LEMMA TurnRecords ==
    ASSUME TurnsOK, BatchesOK, NEW b \in Batch, TurnStep(b), lost' = lost,
           NEW t \in TasksIn(b), TaskRecorded(b, t)
    PROVE  TaskRecorded(b, t)'
<1> SUFFICES ASSUME db'.task[b][t] = EXECUTING
             PROVE  \E i \in Executing(penv'[b]) : tasks_array'[b][i] = t
  BY DEF TaskRecorded
<1>1. tasks_array' = tasks_array /\ TasksOf(penv'[b]) = TasksOf(penv[b])
  BY DEF TurnStep, TurnOf, Turned, Kept, TasksOf, schedVars
<1>2. \A i \in CalledBack(b) :
         /\ i \in TasksOf(penv[b])
         /\ TaskRecord(penv'[b], i) = EXECUTING <=> penv'[b].progress[i] = EXECUTING
  <2>1. \A i \in CalledBack(b) : i \in TasksOf(penv[b]) /\ Moved(penv[b], penv'[b], i)
    BY DEF CalledBack, TurnStep, TurnOf, Turned
  <2> QED
    BY <2>1, TaskRecordOK
<1>3. CASE \E i \in CalledBack(b) : /\ tasks_array[b][i] = t
                                    /\ db'.task[b][t] = TaskRecord(penv'[b], i)
  BY <1>1, <1>2, <1>3 DEF Executing
<1>4. CASE db'.task[b][t] = db.task[b][t]
  <2>1. PICK i \in Executing(penv[b]) : tasks_array[b][i] = t
    BY <1>4 DEF TaskRecorded
  <2>2. penv'[b].progress[i] = EXECUTING
    <3> SUFFICES ASSUME penv'[b].progress[i] # EXECUTING PROVE FALSE
      OBVIOUS
    <3>1. i \in CalledBack(b)
      BY <2>1 DEF CalledBack, Executing
    <3>2. db'.task[b][t] = TaskRecord(penv'[b], i)
      BY <2>1, <3>1 DEF TurnStep, Records
    <3> QED
      BY <1>2, <3>1, <3>2
  <2> QED
    BY <1>1, <2>1, <2>2 DEF Executing
<1> QED
  BY <1>3, <1>4 DEF TurnStep, Records

\* What a first run has recorded stays right.
LEMMA RecordsStay ==
    ASSUME TurnsOK, BatchesOK, RecordsKept, Next, Kinds,
           lost = 0, lost' = 0, runs = 1, step # "idle", step' # "idle"
    PROVE  RecordsKept'
<1>1. \A b \in Batch : BatchRecorded(b) /\ \A t \in TasksIn(b) : TaskRecorded(b, t)
  BY DEF RecordsKept
<1>2. ASSUME \A b \in Batch : BatchRecorded(b)' /\ \A t \in TasksIn(b) : TaskRecorded(b, t)'
      PROVE  RecordsKept'
  BY <1>2 DEF RecordsKept
<1>3. ASSUME Fresh PROVE NoneRecorded
  <2>1. \A b \in Batch : progress[b] = INIT /\ Executing(penv[b]) = {}
    BY <1>3, FreshIdle
  <2> QED
    BY <1>1, <2>1
       DEF NoneRecorded, BatchRecorded, TaskRecorded, INIT, EXECUTING,
           FINISHED_WITH_ERROR
<1>4. ASSUME NoneRecorded, db'.batch = db.batch, db'.task = db.task
      PROVE  RecordsKept'
  <2>1. NoneRecorded'
    BY <1>4 DEF NoneRecorded
  <2> QED
    BY <2>1 DEF NoneRecorded, RecordsKept, BatchRecorded, TaskRecorded
<1>5. CASE Outside /\ OutsideStep
  <2>1. NoneRecorded
    <3>1. CASE step # "perform"
      BY <1>3, <3>1 DEF TurnsOK, ControlOK
    <3>2. CASE step = "perform"
      <4>1. Unload
        BY <1>5, <3>2
           DEF Outside, StartHzbat, Crash, NextSchedule, PretaskInserts,
               PretaskFinishes, PretaskFails,
               PretasksDone, LoadFails
      <4>2. sched_progress # EXECUTING
        BY <4>1 DEF Unload
      <4>3. \A b \in Batch :
              /\ Executing(penv[b]) = {}
              /\ progress[b] \in {EXECUTING, FINISHED_WITH_ERROR}
                    => b \in finished_flag /\ ~ReportsEnd(b)
        BY <3>2, <4>2, NothingExecutesAtEnd
      <4> QED
        BY <1>1, <4>3 DEF NoneRecorded, BatchRecorded, TaskRecorded
    <3> QED
      BY <3>1, <3>2
  <2> QED
    BY <1>4, <1>5, <2>1 DEF OutsideStep
<1>6. CASE LoadStep
  <2>1. db'.batch = db.batch /\ db'.task = db.task /\ Fresh
    BY <1>6 DEF LoadStep, TurnsOK, DbOK
  <2> QED
    BY <1>3, <1>4, <2>1
<1>7. ASSUME NEW S, BeginStep(S) PROVE RecordsKept'
  <2>1. NoneRecorded
    BY <1>3, <1>7 DEF BeginStep
  <2>2. db'.task = db.task
    BY <1>7 DEF BeginStep, BatchRecords, TurnsOK, DbOK
  <2>3. ASSUME NEW b \in Batch PROVE BatchRecorded(b)'
    <3> SUFFICES ASSUME db'.batch[b] = EXECUTING
                 PROVE  progress'[b] = EXECUTING /\ b \notin finished_flag'
      BY DEF BatchRecorded
    <3>1. b \in S
      BY <1>7, <2>1 DEF BeginStep, BatchRecords, NoneRecorded
    <3> QED
      BY <1>7, <3>1 DEF BeginStep, BeginAll
  <2>4. ASSUME NEW b \in Batch, NEW t \in TasksIn(b) PROVE TaskRecorded(b, t)'
    BY <2>1, <2>2 DEF NoneRecorded, TaskRecorded
  <2> QED
    BY <1>2, <2>3, <2>4
<1>8. CASE CallStep
  <2>1. /\ UNCHANGED <<progress, db, tasks_array>>
        /\ \A b \in Batch : SameTasks(penv[b], penv'[b])
    BY <1>8, CallStepOK DEF TurnsOK, hzbatVars
  <2>2. ASSUME NEW b \in Batch PROVE BatchRecorded(b)'
    <3>1. b \in finished_flag =>
             (Executing(penv[b]) = {} /\ (progress[b] = EXECUTING => ReportsEnd(b)))
      BY DEF BatchesOK, BatchOK
    <3>2. ~ReportsEnd(b)
      BY <1>8, CallReports DEF ReportsEnd
    <3>3. b \in finished_flag' \ finished_flag => ReportsEnd(b)'
      BY <1>8, CallReports DEF ReportsEnd
    <3> QED
      BY <1>1, <2>1, <3>2, <3>3 DEF BatchRecorded
  <2>3. ASSUME NEW b \in Batch, NEW t \in TasksIn(b) PROVE TaskRecorded(b, t)'
    <3>1. Executing(penv'[b]) = Executing(penv[b])
      BY <2>1, SameTasksSets
    <3> QED
      BY <1>1, <2>1, <3>1 DEF TaskRecorded
  <2> QED
    BY <1>2, <2>2, <2>3
<1>9. ASSUME NEW c \in Batch, TurnStep(c) PROVE RecordsKept'
  <2>1. ASSUME NEW b \in Batch PROVE BatchRecorded(b)'
    <3>1. db'.batch = db.batch
      BY <1>9 DEF TurnStep, Records, TurnsOK, DbOK
    <3>2. UNCHANGED <<progress, finished_flag>> /\ ~ReportsEnd(b)
      BY <1>9 DEF TurnStep, TurnOf, schedVars, ReportsEnd, Returned
    <3> QED
      BY <1>1, <3>1, <3>2 DEF BatchRecorded
  <2>2. ASSUME NEW b \in Batch, NEW t \in TasksIn(b) PROVE TaskRecorded(b, t)'
    <3>1. CASE b = c
      <4>1. TurnStep(b) /\ lost' = lost /\ TaskRecorded(b, t)
        BY <1>1, <1>9, <3>1
      <4> QED
        BY <4>1, TurnRecords
    <3>2. CASE b # c
      <4>1. penv'[b] = penv[b] /\ db'.task[b] = db.task[b]
        BY <1>9, <3>2, OthersStay
      <4>2. tasks_array' = tasks_array
        BY <1>9 DEF TurnStep, schedVars
      <4> QED
        BY <1>1, <4>1, <4>2 DEF TaskRecorded
    <3> QED
      BY <3>1, <3>2
  <2> QED
    BY <1>2, <2>1, <2>2
<1>10. ASSUME NEW c \in Batch, NEW S, PerformedStep(c, S) PROVE RecordsKept'
  <2> DEFINE ended == IF result.code = "BATCH_TASKS_FINISHED" THEN {c} ELSE {}
  <2>1. /\ BatchRecords(S \cup ended)
        /\ BeginAll(S) /\ Returned(c)
        /\ tasks_array' = tasks_array
    BY <1>10 DEF PerformedStep, MovedStep
  <2> HIDE DEF ended
  <2>2. ASSUME NEW b \in Batch PROVE BatchRecorded(b)'
    <3> SUFFICES ASSUME db'.batch[b] = EXECUTING
                 PROVE  /\ progress'[b] \in {EXECUTING, FINISHED_WITH_ERROR}
                        /\ b \notin finished_flag'
      BY DEF BatchRecorded
    <3>1. CASE b \in S
      BY <1>10, <2>1, <3>1, NowOK DEF BeginAll
    <3>2. CASE b \notin S
      <4>1. db'.batch[b] = db.batch[b] /\ b \notin ended
        <5>1. CASE b \in ended
          <6>1. b = c /\ result.code = "BATCH_TASKS_FINISHED"
            BY <5>1 DEF ended
          <6>2. db'.batch[b] = progress'[b]
            BY <2>1, <5>1 DEF BatchRecords
          <6>3. progress'[c] = Now(c)[c] /\ Now(c)[c] # EXECUTING
            BY <1>10, <6>1, NowOK
          <6> QED
            BY <6>1, <6>2, <6>3
        <5>2. CASE b \notin ended
          BY <2>1, <3>2, <5>2 DEF BatchRecords
        <5> QED
          BY <5>1, <5>2
      <4>2. /\ progress[b] \in {EXECUTING, FINISHED_WITH_ERROR}
            /\ b \in finished_flag => ReportsEnd(b)
        BY <1>1, <4>1 DEF BatchRecorded
      <4>3. ~ReportsEnd(b)
        BY <2>1, <4>1 DEF ended, ReportsEnd, Returned
      <4>4. b \notin finished_flag'
        BY <2>1, <4>2, <4>3 DEF BeginAll
      <4>5. progress'[b] \in {EXECUTING, FINISHED_WITH_ERROR}
        <5>1. CASE b = c
          BY <1>10, <4>3, <5>1, NowOK
        <5>2. CASE b # c
          BY <1>10, <3>2, <4>2, <5>2, NowOK
        <5> QED
          BY <5>1, <5>2
      <4> QED
        BY <4>4, <4>5
    <3> QED
      BY <3>1, <3>2
  <2>3. ASSUME NEW b \in Batch, NEW t \in TasksIn(b) PROVE TaskRecorded(b, t)'
    <3>1. db'.task = db.task
      BY <2>1 DEF BatchRecords, TurnsOK, DbOK
    <3>2. CASE b \in S
      <4>1. progress[b] = INIT
        BY <1>10, <3>2, NowOK
      <4>2. Executing(penv[b]) = {}
        BY <4>1, InitIdle DEF TurnsOK
      <4> QED
        BY <1>1, <3>1, <4>2 DEF TaskRecorded
    <3>3. CASE b \notin S
      <4>1. penv'[b] = penv[b]
        BY <2>1, <3>3 DEF BeginAll
      <4> QED
        BY <1>1, <2>1, <3>1, <4>1 DEF TaskRecorded
    <3> QED
      BY <3>2, <3>3
  <2> QED
    BY <1>2, <2>2, <2>3
<1> QED
  BY <1>5, <1>6, <1>7, <1>8, <1>9, <1>10 DEF Kinds

\* Before the first run nothing is recorded, and no step of it leaves out a
\* record that it has not lost.
LEMMA RecordedKept ==
    ASSUME TurnsOK, BatchesOK, RecordedOK, Next, Kinds
    PROVE  RecordedOK'
<1>1. RecordsKept
  BY DEF RecordedOK, RecordsKept, BatchRecorded, TaskRecorded
<1>2. lost \in Nat /\ lost' \in Nat /\ lost <= lost'
  <2>1. lost \in Nat
    BY DEF TurnsOK, ControlOK
  <2>2. CASE Outside
    <3>1. \A n \in {1} : Lost(n) => lost' = lost + n
      BY DEF Lost
    <3>2. lost' = lost \/ lost' = lost + 1
      BY <2>2, <3>1
         DEF Outside, StartHzbat, Crash, NextSchedule, PretaskInserts,
             PretaskFinishes, PretaskFails,
             PretasksDone, LoadFails, Unload
    <3> QED
      BY <2>1, <3>2
  <2>3. CASE LoadStep \/ CallStep
    BY <2>1, <2>3, CallStepOK DEF LoadStep, TurnsOK, hzbatVars
  <2>4. ASSUME \/ \E S : BeginStep(S)
               \/ \E b \in Batch : TurnStep(b)
               \/ \E b \in Batch : \E S : PerformedStep(b, S)
        PROVE  lost' \in Nat /\ lost <= lost'
    BY <2>4 DEF BeginStep, TurnStep, PerformedStep, BatchRecords, Records
  <2> QED
    BY <2>1, <2>2, <2>3, <2>4 DEF Kinds
<1>3. CASE StartHzbat
  <2>1. /\ step = "idle" /\ runs' = runs + 1 /\ db' = db
    BY <1>3 DEF StartHzbat
  <2>2. runs' \in Nat /\ runs' # 0 /\ (runs' = 1 => runs = 0)
    BY <2>1 DEF RecordedOK
  <2>3. runs = 0 => NoneRecorded'
    BY <2>1 DEF RecordedOK, NoneRecorded, INIT, EXECUTING
  <2>4. RecordsKept'
    BY <2>2, <2>3 DEF NoneRecorded, RecordsKept, BatchRecorded, TaskRecorded
  <2> QED
    BY <2>2, <2>4 DEF RecordedOK, RecordsKept, BatchRecorded, TaskRecorded
<1>4. CASE ~StartHzbat
  <2>1. step # "idle" /\ runs' = runs
    BY <1>4, CallStepOK
       DEF Kinds, Outside, Crash, NextSchedule, PretaskInserts, PretaskFinishes,
           PretaskFails,
           PretasksDone, LoadFails, Unload, LoadStep, BeginStep, CallStep, TurnStep,
           PerformedStep, TurnsOK, hzbatVars
  <2>2. runs' \in Nat /\ runs' # 0
    BY <2>1 DEF RecordedOK
  <2>3. RecordsKept'
    <3>1. CASE lost' = 0 /\ runs' = 1 /\ step' # "idle"
      <4>1. lost = 0 /\ runs = 1
        BY <1>2, <2>1, <3>1
      <4> QED
        BY <1>1, <2>1, <3>1, <4>1, RecordsStay
    <3>2. CASE ~(lost' = 0 /\ runs' = 1 /\ step' # "idle")
      BY <3>2 DEF RecordsKept
    <3> QED
      BY <3>1, <3>2
  <2> QED
    BY <2>2, <2>3 DEF RecordedOK, RecordsKept, BatchRecorded, TaskRecorded
<1> QED
  BY <1>3, <1>4

\* A finished schedule has an answer for every task.
SchedulesTrue ==
    \A s \in Schedule :
       db.schedule[s] = FINISHED => \A b \in BatchesOf(s) : Answered(b)

\* A schedule that has come to its end without an interrupt has all its batches
\* finished: of those that were not, one would have only finished ones before it.
LEMMA AllFinished ==
    ASSUME TurnsOK, BatchesOK, WaitingOK, step = "perform",
           sched_progress = FINISHED, p_sched \in Schedule,
           NEW b \in BatchesOf(p_sched)
    PROVE  progress[b] = FINISHED
<1>1. /\ pc = "user" /\ ToSet(executing_batches_tree) \subseteq finished_flag
      /\ interrupt_code = NoInterrupt
  BY DEF BatchesOK, EndOK, FinalProgress, EXECUTING, FINISHED, FINISHED_WITH_ERROR
<1>2. ASSUME NEW c \in BatchesOf(p_sched), progress[c] # FINISHED
      PROVE  progress[c] = INIT
  <2>1. c \in Batch
    BY DirectionsLead
  <2>2. progress[c] \in RecordValues /\ BatchOK(c)
    BY <2>1 DEF BatchesOK
  <2> QED
    BY <1>1, <1>2, <2>2 DEF BatchOK, RecordValues, ReportsEnd, Returned
<1> DEFINE U == {c \in BatchesOf(p_sched) : progress[c] # FINISHED}
<1> SUFFICES ASSUME U # {} PROVE FALSE
  OBVIOUS
<1>3. PICK c \in U : Predepend(p_sched, c) \cap U = {}
  BY NoCycle
<1>4. progress[c] = INIT
  BY <1>2, <1>3
<1>5. PICK from \in Predepend(p_sched, c) : progress[from] # FINISHED
  BY <1>1, <1>3, <1>4 DEF WaitingOK
<1>6. from \in BatchesOf(p_sched)
  <2>1. Terminal \notin Predepend(p_sched, c)
    BY <1>3, <1>4 DEF WaitingOK
  <2> QED
    BY <1>5, <2>1 DEF Predepend
<1> QED
  BY <1>3, <1>5, <1>6

\* Only the end of a schedule records it as finished.
LEMMA SchedulesKept ==
    ASSUME TurnsOK, BatchesOK, WaitingOK, AnswersOK, AnswersOK', SchedulesTrue,
           Next, Kinds
    PROVE  SchedulesTrue'
<1>1. answers \subseteq answers'
  BY CallStepOK
     DEF Kinds, OutsideStep, LoadStep, BeginStep, TurnStep, PerformedStep,
         TurnsOK, hzbatVars
<1>2. \A b : Answered(b) => Answered(b)'
  BY <1>1, Remembered DEF Answered
<1>3. ASSUME NEW s \in Schedule, db'.schedule[s] = FINISHED, NEW b \in BatchesOf(s)
      PROVE  Answered(b)
  <2>1. CASE db'.schedule[s] = db.schedule[s]
    BY <1>3, <2>1 DEF SchedulesTrue
  <2>2. CASE Outside
    <3>1. \/ db'.schedule = db.schedule
          \/ \E v \in {EXECUTING, FINISHED_WITH_ERROR} :
                db' = [db EXCEPT !.schedule[Head(remaining)] = v]
          \/ /\ Unload
             /\ db' = [db EXCEPT !.schedule[Head(remaining)] =
                         UnloadProgress(Head(remaining), sched_progress)]
      BY <2>2
         DEF Outside, StartHzbat, Crash, NextSchedule, PretaskInserts,
             PretaskFinishes, PretaskFails,
             PretasksDone, LoadFails, Unload, TurnsOK, DbOK
    <3>2. ASSUME NEW v, db' = [db EXCEPT !.schedule[Head(remaining)] = v],
                 s # Head(remaining) \/ v # FINISHED
          PROVE  db'.schedule[s] = db.schedule[s]
      BY <1>3, <3>2 DEF TurnsOK, DbOK
    <3>3. ASSUME Unload, db' = [db EXCEPT !.schedule[Head(remaining)] =
                                  UnloadProgress(Head(remaining), sched_progress)],
                 s = Head(remaining)
          PROVE  Answered(b)
      <4>1. step = "perform" /\ p_sched = s
        BY <3>3 DEF Unload, TurnsOK, ControlOK
      <4>2. db'.schedule[s] = UnloadProgress(Head(remaining), sched_progress)
        BY <3>3 DEF TurnsOK, DbOK
      <4>3. sched_progress = FINISHED
        BY <1>3, <4>2 DEF UnloadProgress, FINISHED, FINISHED_WITH_ERROR
      <4>4. progress[b] = FINISHED
        BY <1>3, <4>1, <4>3, AllFinished
      <4>5. b \in Batch
        BY <1>3, DirectionsLead
      <4> QED
        BY <4>4, <4>5 DEF AnswersOK
    <3> QED
      BY <2>1, <3>1, <3>2, <3>3 DEF FINISHED, EXECUTING, FINISHED_WITH_ERROR
  <2>3. CASE LoadStep
    <3>1. db' = [db EXCEPT !.schedule[Head(remaining)] = EXECUTING]
      BY <2>3 DEF LoadStep
    <3>2. db'.schedule[s] = db.schedule[s] \/ db'.schedule[s] = EXECUTING
      BY <3>1 DEF TurnsOK, DbOK
    <3> QED
      BY <1>3, <2>1, <3>2 DEF EXECUTING, FINISHED
  <2>4. CASE ~Outside /\ ~LoadStep
    <3>1. db'.schedule = db.schedule
      <4>1. CASE CallStep
        BY <4>1, CallStepOK DEF TurnsOK, hzbatVars
      <4>2. CASE \E S : BatchRecords(S)
        BY <4>2 DEF BatchRecords, TurnsOK, DbOK
      <4>3. CASE \E c \in Batch : TurnStep(c)
        BY <4>3 DEF TurnStep, Records, TurnsOK, DbOK
      <4> QED
        BY <2>4, <4>1, <4>2, <4>3 DEF Kinds, BeginStep, PerformedStep
    <3> QED
      BY <2>1, <3>1
  <2> QED
    BY <2>2, <2>3, <2>4
<1> QED
  BY <1>2, <1>3 DEF SchedulesTrue

-----------------------------------------------------------------------------
(* The invariant and the theorems.                                          *)

\* All of it; WaitingOK and SchedulesTrue need EndsLast besides.
IInv ==
    /\ TurnsOK /\ OrderOK /\ BatchesOK /\ TasksOK
    /\ PreparedOK /\ AnswersOK /\ RecordedOK

\* An environment without tasks.
LEMMA EmptyEnvOK ==
    ASSUME NEW byApp \in BOOLEAN, NEW x, x = NewEnv(byApp)
    PROVE  /\ EnvOK(x) /\ Counted(x)
           /\ x.tasks_count = 0 /\ x.interrupt_code = NoInterrupt
           /\ TasksOf(x) = {}
<1>1. x.tasks_count = 0 /\ x.interrupt_code = NoInterrupt
  BY DEF NewEnv
<1> QED
  BY <1>1, NewEnvOK DEF TasksOf

\* Nothing has begun in the initial states.
LEMMA InitFresh ==
    ASSUME Init
    PROVE  /\ Fresh /\ step = "idle" /\ p_sched = NoSchedule
           /\ tasks_array = [b \in Batch |-> <<>>]
           /\ sched_progress = INIT
           /\ result = [code |-> NoInterrupt, batch |-> NoBatch]
BY DEF Init, InitDag, InitMulti, Fresh

\* The initial states satisfy the invariant.
LEMMA InitInvariant ==
    ASSUME Init
    PROVE  IInv
<1> USE InitFresh
<1>1. ControlOK
  <2>1. remaining \in Seq(Schedule)
    BY DEF Init
  <2>2. faults = 0 /\ lost = 0
    BY DEF Init, InitDag, InitMulti
  <2>3. faults + lost <= MaxFaults /\ faults \in Nat /\ lost \in Nat
    BY <2>2, MultiConstants
  <2> QED
    BY <2>1, <2>3 DEF ControlOK, Steps
<1>2. DbOK
  <2>1. INIT \in RecordValues
    BY DEF RecordValues
  <2> QED
    BY <2>1 DEF Init, DbOK
<1>3. ArrayOK
  <2>1. ASSUME NEW b \in Batch
        PROVE  /\ <<>> \in Seq(TasksIn(b))
               /\ \A i, j \in 1..Len(<<>>) : i # j => <<>>[i] # <<>>[j]
    OBVIOUS
  <2>2. tasks_array = [b \in Batch |-> <<>>]
    OBVIOUS
  <2> QED
    BY <2>1, <2>2 DEF ArrayOK
<1>4. EnvsOK
  <2>1. penv = [b \in Batch |-> NewEnv(FALSE)]
    BY DEF Fresh
  <2>2. \A b \in Batch : EnvOK(penv[b]) /\ Counted(penv[b])
    BY <2>1, EmptyEnvOK
  <2> QED
    BY <2>1, <2>2 DEF EnvsOK
<1>5. BegunOK
  <2>1. \A b \in Batch : penv[b].tasks_count = 0 /\ progress[b] = INIT
    BY EmptyEnvOK DEF Fresh
  <2> QED
    BY <2>1 DEF BegunOK
<1>6. CallOK
  BY DEF CallOK, Fresh
<1>7. OrderOK
  BY DEF OrderOK
<1>8. BatchesOK
  <2>1. progress \in [Batch -> RecordValues]
    BY DEF Fresh, RecordValues
  <2>2. ASSUME NEW b \in Batch PROVE BatchOK(b)
    <3>1. /\ progress[b] = INIT /\ penv[b].interrupt_code = NoInterrupt
          /\ pc = "user" /\ finished_flag = {} /\ executing_batches_tree = <<>>
      BY EmptyEnvOK DEF Fresh
    <3>2. b \notin ToSet(executing_batches_tree)
      BY <3>1 DEF ToSet
    <3> QED
      BY <3>1, <3>2
         DEF BatchOK, ReportsEnd, ReportsFailure, Returned, INIT, EXECUTING, FINISHED,
             FINISHED_WITH_ERROR
  <2>3. EndOK
    BY DEF EndOK, Returned, Fresh
  <2> QED
    BY <2>1, <2>2, <2>3 DEF BatchesOK
<1>9. \A b \in Batch : \A t \in TasksIn(b) : db.task[b][t] = INIT
  BY DEF Init
<1>10. TasksOK
  <2>1. \A b \in Batch : tasks_array[b] = <<>>
    OBVIOUS
  <2> QED
    BY <2>1 DEF TasksOK
<1>11. AnswersOK
  <2>1. \A b \in Batch : Done(penv[b]) = {}
    BY EmptyEnvOK DEF Fresh, Done
  <2>2. \A b \in Batch : db.batch[b] # FINISHED /\ progress[b] # FINISHED
    BY DEF Init, Fresh, INIT, FINISHED
  <2> QED
    BY <1>9, <2>1, <2>2 DEF AnswersOK, INIT, FINISHED
<1>12. RecordedOK
  BY <1>9 DEF RecordedOK, Init
<1>13. PreparedOK
  BY DEF Init, PreparedOK, Prepared
<1> QED
  BY <1>1, <1>2, <1>3, <1>4, <1>5, <1>6, <1>7, <1>8, <1>10, <1>11, <1>12, <1>13
     DEF IInv, TurnsOK

\* Every step keeps it.
LEMMA NextInvariant ==
    ASSUME IInv, Next
    PROVE  IInv'
<1>1. /\ TurnsOK /\ OrderOK /\ BatchesOK /\ TasksOK
      /\ PreparedOK /\ AnswersOK /\ RecordedOK
  BY DEF IInv
<1>2. Kinds
  BY <1>1, EveryStep
<1>3. TurnsOK'
  BY <1>1, <1>2, ControlKept, DbKept, ArrayKept, EnvsKept, CallKept DEF TurnsOK
<1>4. OrderOK' /\ BatchesOK' /\ TasksOK' /\ PreparedOK' /\ AnswersOK' /\ RecordedOK'
  BY <1>1, <1>2, OrderKept, BatchesKept, TasksKept, PreparedKept, AnswersKept,
     RecordedKept
<1> QED
  BY <1>3, <1>4 DEF IInv

\* A step that changes nothing.
LEMMA StutterInvariant ==
    ASSUME IInv, UNCHANGED vars
    PROVE  IInv'
<1>1. UNCHANGED <<penv, finished_flag, a_penvs, begin_index, pc, turn, result, faults>>
  BY DEF vars, dagVars, multiVars
<1>2. UNCHANGED <<p_sched, tasks_array, progress, executing_batches_tree,
                  interrupt_code, sched_progress>>
  BY DEF vars, dagVars, schedVars
<1>3. UNCHANGED <<db, step, remaining, runs, lost, answers, unprepared>>
  BY DEF vars, hzbatVars
<1>4. ControlOK'
  BY <1>1, <1>2, <1>3 DEF IInv, TurnsOK, ControlOK, Fresh
<1>5. DbOK'
  BY <1>3 DEF IInv, TurnsOK, DbOK
<1>6. ArrayOK' /\ EnvsOK' /\ BegunOK'
  BY <1>1, <1>2 DEF IInv, TurnsOK, ArrayOK, EnvsOK, BegunOK
<1>7. CallOK'
  BY <1>1, <1>2 DEF IInv, TurnsOK, CallOK
<1>8. OrderOK'
  BY <1>3 DEF IInv, OrderOK
<1>9. BatchesOK'
  <2>1. EndOK'
    BY <1>1, <1>2, <1>3 DEF IInv, BatchesOK, EndOK, FinalProgress, Returned
  <2>2. ASSUME NEW b \in Batch PROVE BatchOK(b)'
    <3>1. BatchOK(b)
      BY DEF IInv, BatchesOK
    <3> QED
      BY <1>1, <1>2, <3>1
         DEF BatchOK, ReportsEnd, ReportsFailure, Returned, PredecessorsFinished
  <2> QED
    BY <1>2, <2>1, <2>2 DEF IInv, BatchesOK
<1>10. TasksOK'
  BY <1>1, <1>2, <1>3 DEF IInv, TasksOK
<1>11. AnswersOK'
  BY <1>1, <1>2, <1>3 DEF IInv, AnswersOK, HasAnswer, Answered
<1>12. RecordedOK'
  BY <1>1, <1>2, <1>3 DEF IInv, RecordedOK, ReportsEnd, Returned
<1>13. PreparedOK'
  BY <1>3 DEF IInv, PreparedOK, Prepared
<1> QED
  BY <1>4, <1>5, <1>6, <1>7, <1>8, <1>9, <1>10, <1>11, <1>12, <1>13 DEF IInv, TurnsOK

\* The state of the process and of the database fit together.
THEOREM Invariance == Spec => []IInv
<1>1. Init => IInv
  BY InitInvariant
<1>2. IInv /\ [Next]_vars => IInv'
  BY NextInvariant, StutterInvariant
<1> QED
  BY <1>1, <1>2, PTL DEF Spec

\* Every variable has its type: each environment has the tasks that are loaded
\* for its batch, or none.
THEOREM HzbatTypeCorrect == Spec => []TypeOK
<1>1. IInv => TypeOK
  <2> SUFFICES ASSUME IInv PROVE TypeOK
    OBVIOUS
  <2> USE DEF IInv, TurnsOK
  <2>1. ASSUME NEW b \in Batch
        PROVE  penv[b] \in Env(Len(tasks_array[b])) \cup Env(0)
    <3>1. penv[b] \in Env(penv[b].tasks_count)
      BY DEF EnvsOK, EnvOK
    <3>2. penv[b].tasks_count = 0 \/ penv[b].tasks_count = Len(tasks_array[b])
      BY DEF BegunOK
    <3> QED
      BY <3>1, <3>2
  <2>2. /\ finished_flag \subseteq Batch
        /\ pc \in {"user", "offer", "process", "returned"}
    BY DEF CallOK
  <2>3. ToSet(turn) \cup ToSet(a_penvs) \cup ToSet(executing_batches_tree)
           \subseteq Batch
    <3>1. /\ turn \in Seq(Batch) /\ a_penvs \in Seq(Batch)
          /\ executing_batches_tree \in Seq(Batch)
      BY DEF CallOK
    <3> QED
      BY <3>1, InSeq
  <2>4. step \in Steps
    BY DEF ControlOK
  <2>5. p_sched \in Schedule \cup {NoSchedule}
    <3>1. CASE p_sched = NoSchedule
      BY <3>1
    <3>2. CASE p_sched # NoSchedule
      <4>1. step \notin {"idle", "next"} /\ p_sched = Head(remaining)
        BY <3>2 DEF ControlOK
      <4> QED
        BY <4>1, LoadedSchedule
    <3> QED
      BY <3>1, <3>2
  <2>6. ASSUME NEW b \in Batch PROVE ToSet(tasks_array[b]) \subseteq TasksIn(b)
    <3>1. tasks_array[b] \in Seq(TasksIn(b))
      BY DEF ArrayOK
    <3> QED
      BY <3>1, InSeq
  <2>7. faults + lost \in 0..MaxFaults
    <3>1. faults \in Nat /\ lost \in Nat /\ faults + lost <= MaxFaults
      BY DEF ControlOK
    <3> QED
      BY <3>1, MultiConstants
  <2> QED
    BY <2>1, <2>2, <2>3, <2>4, <2>5, <2>6, <2>7 DEF TypeOK
<1> QED
  BY <1>1, Invariance, PTL

-----------------------------------------------------------------------------
(* What a step may never do.                                                *)

\* What a step starts is executing after it, and its callback is called.
LEMMA StartedElements ==
    ASSUME NEW bt \in StartedNow
    PROVE  \E b \in Batch : \E i \in CalledBack(b) :
              /\ bt = <<b, tasks_array[b][i]>>
              /\ penv'[b].progress[i] = EXECUTING
              /\ pc = "offer" /\ step' = "perform"
<1>1. PICK b \in {b \in Batch : pc = "offer" /\ step' = "perform"} :
         bt \in {<<b, tasks_array[b][i]>> :
                   i \in {i \in CalledBack(b) : penv'[b].progress[i] = EXECUTING}}
  BY DEF StartedNow
<1> QED
  BY <1>1

\* Only a turn of its batch starts a task, one that was waiting.
LEMMA StartedInTurn ==
    ASSUME IInv, [Next]_vars, NEW b \in Batch, NEW i \in CalledBack(b),
           penv'[b].progress[i] = EXECUTING, pc = "offer", step' = "perform"
    PROVE  /\ TurnStep(b)
           /\ penv[b].progress[i] = WAITFOR_CONNECTING
           /\ i \in 1..Len(tasks_array[b]) /\ progress[b] # INIT
<1> USE DEF IInv
<1>1. i \in TasksOf(penv[b]) /\ penv'[b].progress[i] # penv[b].progress[i]
  BY DEF CalledBack
<1>2. Next
  BY <1>1 DEF vars, dagVars, multiVars
<1>3. Kinds /\ ControlOK'
  BY <1>2, EveryStep, ControlKept
<1>4. ~CallStep
  BY <1>1, CallStepOK DEF TurnsOK, SameTasks
<1>5. ~Fresh
  BY DEF Fresh
<1>6. \E c \in Batch : TurnStep(c)
  BY <1>3, <1>4, <1>5
     DEF Kinds, OutsideStep, ControlOK, LoadStep, BeginStep, PerformedStep, Returned
<1>7. TurnStep(b)
  BY <1>1, <1>6, OthersStay
<1>8. Moved(penv[b], penv'[b], i)
  BY <1>1, <1>7 DEF TurnStep, TurnOf, Turned
<1>9. penv[b].progress[i] = WAITFOR_CONNECTING
  BY <1>1, <1>8
     DEF Moved, Unmoved, Starts, Missed, SentBack, Failed, Ends, EXECUTING, FINISHED,
         FINISHED_WITH_ERROR, WAITFOR_CONNECTING
<1>10. progress[b] # INIT
  <2>1. penv[b].tasks_count # 0
    BY <1>1 DEF TasksOf
  <2> QED
    BY <2>1 DEF TurnsOK, BegunOK
<1>11. i \in 1..Len(tasks_array[b])
  BY <1>1, <1>10 DEF TurnsOK, BegunOK, TasksOf
<1> QED
  BY <1>7, <1>9, <1>10, <1>11

\* A task that the database has as finished stays so and is not started again.
THEOREM FinishedNeverAgain == Spec => NeverAgain
<1> DEFINE Again == \A b \in Batch : \A t \in TasksIn(b) :
                       db.task[b][t] = FINISHED =>
                          /\ db'.task[b][t] = FINISHED
                          /\ <<b, t>> \notin StartedNow
<1>1. IInv /\ [Next]_vars => [Again]_vars
  <2> SUFFICES ASSUME IInv, [Next]_vars, NEW b \in Batch, NEW t \in TasksIn(b),
                      db.task[b][t] = FINISHED
               PROVE  db'.task[b][t] = FINISHED /\ <<b, t>> \notin StartedNow
    OBVIOUS
  <2> USE DEF IInv
  <2>1. ASSUME NEW i \in 1..Len(tasks_array[b]), tasks_array[b][i] = t
        PROVE  penv[b].progress[i] = FINISHED
    BY <2>1 DEF TasksOK
  <2>2. <<b, t>> \notin StartedNow
    <3> SUFFICES ASSUME <<b, t>> \in StartedNow PROVE FALSE
      OBVIOUS
    <3>1. PICK c \in Batch : \E i \in CalledBack(c) :
                /\ <<b, t>> = <<c, tasks_array[c][i]>>
                /\ penv'[c].progress[i] = EXECUTING
                /\ pc = "offer" /\ step' = "perform"
      BY StartedElements
    <3>2. PICK i \in CalledBack(b) : /\ t = tasks_array[b][i]
                                     /\ penv'[b].progress[i] = EXECUTING
                                     /\ pc = "offer" /\ step' = "perform"
      BY <3>1
    <3>3. /\ penv[b].progress[i] = WAITFOR_CONNECTING
          /\ i \in 1..Len(tasks_array[b])
      BY <3>2, StartedInTurn
    <3> QED
      BY <2>1, <3>2, <3>3 DEF WAITFOR_CONNECTING, FINISHED
  <2>3. db'.task[b][t] = FINISHED
    <3>1. CASE UNCHANGED vars
      BY <3>1 DEF vars, hzbatVars
    <3>2. CASE Next
      <4>1. Kinds
        BY <3>2, EveryStep
      <4>2. CASE TurnStep(b)
        <5>1. ASSUME NEW i \in CalledBack(b), tasks_array[b][i] = t PROVE FALSE
          <6>1. /\ i \in TasksOf(penv[b]) /\ Moved(penv[b], penv'[b], i)
            BY <4>2 DEF CalledBack, TurnStep, TurnOf, Turned
          <6>2. penv[b].progress[i] # FINISHED
            BY <6>1, TaskRecordOK
          <6>3. penv[b].tasks_count # 0
            BY <6>1 DEF TasksOf
          <6>4. i \in 1..Len(tasks_array[b])
            BY <6>1, <6>3 DEF TurnsOK, BegunOK, TasksOf
          <6> QED
            BY <2>1, <5>1, <6>2, <6>4
        <5> QED
          BY <4>2, <5>1 DEF TurnStep, Records
      <4>3. ASSUME NEW c \in Batch, TurnStep(c), c # b PROVE db'.task[b] = db.task[b]
        BY <4>3, OthersStay
      <4>4. ASSUME NEW batches, BatchRecords(batches) PROVE db'.task = db.task
        BY <4>4 DEF BatchRecords, TurnsOK, DbOK
      <4>5. CASE CallStep \/ LoadStep
        BY <4>5, CallStepOK DEF LoadStep, TurnsOK, DbOK, hzbatVars
      <4> QED
        BY <4>1, <4>2, <4>3, <4>4, <4>5
           DEF Kinds, OutsideStep, BeginStep, PerformedStep
    <3> QED
      BY <3>1, <3>2
  <2> QED
    BY <2>2, <2>3
<1>2. NeverAgain <=> [][Again]_vars
  BY DEF NeverAgain
<1> QED
  BY <1>1, <1>2, Invariance, PTL DEF Spec

\* A schedule's tasks start only when all schedules before it are recorded as
\* finished: those that hzbat_all_schedules has passed over.
THEOREM SchedulesAlwaysInOrder == Spec => SchedulesInOrder
<1> DEFINE Ordered ==
              StartedNow # {} =>
                 \A i \in 1..(SelectInSeq(Schedules, LAMBDA s : s = p_sched) - 1) :
                    db.schedule[Schedules[i]] = FINISHED
<1>1. IInv /\ [Next]_vars => [Ordered]_vars
  <2> SUFFICES ASSUME IInv, [Next]_vars, StartedNow # {} PROVE Ordered
    OBVIOUS
  <2>1. PICK b \in Batch : \E i \in CalledBack(b) :
               /\ penv'[b].progress[i] = EXECUTING
               /\ pc = "offer" /\ step' = "perform"
    BY StartedElements
  <2>2. TurnStep(b)
    BY <2>1, StartedInTurn
  <2>3. /\ step = "perform" /\ OrderOK
        /\ p_sched = Head(remaining) /\ remaining # <<>> /\ remaining \in Seq(Schedule)
    BY <2>2 DEF TurnStep, IInv, TurnsOK, ControlOK
  <2>4. PICK k \in 0..Len(Schedules) :
           /\ k + Len(remaining) = Len(Schedules)
           /\ \A i \in 1..Len(remaining) : remaining[i] = Schedules[k + i]
           /\ \A i \in 1..k : db.schedule[Schedules[i]] = FINISHED
    BY <2>3 DEF OrderOK
  <2>5. Len(Schedules) \in Nat /\ Len(remaining) \in Nat \ {0}
    <3>1. Schedules \in Seq(Schedule)
      BY HzbatConstants
    <3> QED
      BY <2>3, <3>1, LenProperties, EmptySeq
  <2>6. p_sched = Schedules[k + 1] /\ k + 1 \in 1..Len(Schedules)
    <3>1. 1 \in 1..Len(remaining) /\ k + 1 \in 1..Len(Schedules)
      BY <2>4, <2>5
    <3>2. p_sched = remaining[1]
      BY <2>3
    <3> QED
      BY <2>4, <3>1, <3>2
  <2>7. PICK n : /\ n = SelectInSeq(Schedules, LAMBDA s : s = p_sched)
                 /\ \/ n = 0 /\ \A j \in 1..Len(Schedules) : Schedules[j] # p_sched
                    \/ /\ n \in 1..Len(Schedules) /\ Schedules[n] = p_sched
                       /\ \A j \in 1..(n - 1) : Schedules[j] # p_sched
    BY <2>5, FirstPlace
  <2>8. \A i \in 1..(n - 1) : i \in 1..k
    <3>1. /\ n \in 1..Len(Schedules)
          /\ \A j \in 1..(n - 1) : Schedules[j] # p_sched
      BY <2>6, <2>7, Zenon
    <3>2. k + 1 \notin 1..(n - 1)
      BY <2>6, <3>1
    <3> QED
      BY <2>4, <2>5, <3>1, <3>2
  <2>9. \A i \in 1..(n - 1) : db.schedule[Schedules[i]] = FINISHED
    BY <2>4, <2>8
  <2> QED
    BY <2>7, <2>9, Zenon
<1>2. SchedulesInOrder <=> [][Ordered]_vars
  BY DEF SchedulesInOrder
<1> QED
  BY <1>1, <1>2, Invariance, PTL DEF Spec

\* Where a direction from the begin of the schedule leads, no other leads.
BeginsAlone ==
    \A s \in Schedule : \A b \in BatchesOf(s) :
       Terminal \in Predepend(s, b) => Predepend(s, b) = {Terminal}

\* No task starts before workers have answered for every task of every batch
\* that leads to its own.  The batches that are finished contain all that lead
\* to one of them and to its own.
THEOREM PredecessorsAlwaysFirst ==
    ASSUME BeginsAlone
    PROVE  Spec => PredecessorsFirst
<1> DEFINE First == \A bt \in StartedNow :
                       \A c \in Before(p_sched, bt[1]) : Answered(c)
<1>1. IInv /\ [Next]_vars => [First]_vars
  <2> SUFFICES ASSUME IInv, [Next]_vars, NEW bt \in StartedNow,
                      NEW c \in Before(p_sched, bt[1])
               PROVE  Answered(c)
    OBVIOUS
  <2>1. PICK b \in Batch : \E i \in CalledBack(b) :
               /\ bt = <<b, tasks_array[b][i]>>
               /\ penv'[b].progress[i] = EXECUTING
               /\ pc = "offer" /\ step' = "perform"
    BY StartedElements
  <2>2. TurnStep(b) /\ progress[b] # INIT /\ bt[1] = b
    BY <2>1, StartedInTurn
  <2>3. p_sched \in Schedule
    <3>1. ControlOK /\ step = "perform"
      BY <2>2 DEF TurnStep, IInv, TurnsOK
    <3>2. Head(remaining) \in Schedule
      BY <3>1, LoadedSchedule
    <3> QED
      BY <3>1, <3>2 DEF ControlOK
  <2> DEFINE F == {d \in BatchesOf(p_sched) : progress[d] = FINISHED}
  <2>4. ASSUME NEW d \in F \cup {b}
        PROVE  Predepend(p_sched, d) \ {Terminal} \subseteq F
    <3>1. d \in Batch /\ progress[d] # INIT
      BY <2>2, <2>3, <2>4, DirectionsLead DEF INIT, FINISHED
    <3>2. BatchOK(d)
      BY <3>1 DEF IInv, BatchesOK
    <3>3. /\ d \in BatchesOf(p_sched)
          /\ Terminal \in Predepend(p_sched, d) \/ PredecessorsFinished(d)
      BY <3>1, <3>2 DEF BatchOK
    <3>4. CASE Terminal \in Predepend(p_sched, d)
      BY <2>3, <3>3, <3>4 DEF BeginsAlone
    <3>5. CASE PredecessorsFinished(d)
      BY <3>5 DEF PredecessorsFinished, Predepend
    <3> QED
      BY <3>3, <3>4, <3>5
  <2>5. c \in F
    <3>1. F \in SUBSET BatchesOf(p_sched)
      OBVIOUS
    <3>2. \A batches \in SUBSET BatchesOf(p_sched) :
            (\A d \in batches \cup {b} :
               Predepend(p_sched, d) \ {Terminal} \subseteq batches)
            => c \in batches
      BY <2>2 DEF Before
    <3> HIDE DEF F
    <3> QED
      BY <2>4, <3>1, <3>2
  <2>6. c \in Batch /\ progress[c] = FINISHED
    BY <2>3, <2>5, DirectionsLead
  <2> QED
    BY <2>6 DEF IInv, AnswersOK
<1>2. PredecessorsFirst <=> [][First]_vars
  BY DEF PredecessorsFirst
<1> QED
  BY <1>1, <1>2, Invariance, PTL DEF Spec

\* When a schedule has come to its end nothing of it is left recorded as
\* executing, unless a record was lost or an earlier run died.
THEOREM NothingIsLeftExecuting == Spec => []NothingLeftExecuting
<1>1. IInv => NothingLeftExecuting
  <2> SUFFICES ASSUME IInv, step = "perform", sched_progress # EXECUTING,
                      lost = 0, runs = 1, NEW b \in BatchesOf(p_sched)
               PROVE  /\ db.batch[b] # EXECUTING
                      /\ \A t \in TasksIn(b) : db.task[b][t] # EXECUTING
    BY DEF NothingLeftExecuting
  <2>1. TurnsOK /\ BatchesOK /\ RecordedOK
    BY DEF IInv
  <2>2. b \in Batch
    <3>1. ControlOK
      BY <2>1 DEF TurnsOK
    <3>2. Head(remaining) \in Schedule
      BY <3>1, LoadedSchedule
    <3>3. p_sched \in Schedule
      BY <3>1, <3>2 DEF ControlOK
    <3> QED
      BY <3>3, DirectionsLead
  <2>3. /\ Executing(penv[b]) = {}
        /\ progress[b] \in {EXECUTING, FINISHED_WITH_ERROR}
              => b \in finished_flag /\ ~ReportsEnd(b)
    BY <2>1, <2>2, NothingExecutesAtEnd
  <2> QED
    BY <2>1, <2>2, <2>3 DEF RecordedOK
<1> QED
  BY <1>1, Invariance, PTL

\* What the database says is true: a finished schedule has an answer for every
\* task, and a finished task ended with a status of 0.
THEOREM RecordsAlwaysTellTruth ==
    ASSUME EndsLast
    PROVE  Spec => []RecordsTellTruth
<1>1. Init => WaitingOK /\ SchedulesTrue
  <2> SUFFICES ASSUME Init PROVE WaitingOK /\ SchedulesTrue
    OBVIOUS
  <2>1. WaitingOK
    BY DEF Init, WaitingOK
  <2>2. \A s \in Schedule : db.schedule[s] # FINISHED
    BY DEF Init, INIT, FINISHED
  <2> QED
    BY <2>1, <2>2 DEF SchedulesTrue
<1>2. IInv /\ IInv' /\ WaitingOK /\ SchedulesTrue /\ [Next]_vars
         => WaitingOK' /\ SchedulesTrue'
  <2> SUFFICES ASSUME IInv, IInv', WaitingOK, SchedulesTrue, [Next]_vars
               PROVE  WaitingOK' /\ SchedulesTrue'
    OBVIOUS
  <2>1. CASE Next
    <3>1. Kinds
      BY <2>1, EveryStep DEF IInv
    <3> QED
      BY <2>1, <3>1, WaitingKept, SchedulesKept DEF IInv
  <2>2. CASE UNCHANGED vars
    <3>1. UNCHANGED <<step, p_sched, progress, interrupt_code, db, answers,
                      unprepared>>
      BY <2>2 DEF vars, dagVars, schedVars, hzbatVars
    <3> QED
      BY <3>1 DEF WaitingOK, SchedulesTrue, Answered
  <2> QED
    BY <2>1, <2>2
<1>3. IInv /\ SchedulesTrue => RecordsTellTruth
  BY DEF IInv, AnswersOK, SchedulesTrue, RecordsTellTruth
<1> QED
  BY <1>1, <1>2, <1>3, Invariance, PTL DEF Spec
=============================================================================
