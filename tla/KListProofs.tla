---------------------------- MODULE KListProofs -----------------------------
(***************************************************************************)
(* Theorems about KList, for every set of cells.                           *)
(***************************************************************************)
EXTENDS KList, TLAPS, FiniteSetTheorems, WellFoundedInduction

Distinct(s) == \A i, j \in 1 .. Len(s) : s[i] = s[j] => i = j

TypeInv ==
  /\ pc \in {"none", "held", "destroy"}
  /\ next \in [Addr -> Addr] /\ prev \in [Addr -> Addr]
  /\ order \in Seq(Cells)

Cellset(s) == {s[i] : i \in 1 .. Len(s)}

ListInv ==
  /\ TypeInv
  /\ Held => /\ Ring(order) /\ Distinct(order)
             /\ live = {Nodes} \cup Cellset(order)
  /\ ~Held => live = {}

-----------------------------------------------------------------------------
\* Of a ring, list_empty tells whether there is anything on it.
LEMMA EmptyRing ==
  ASSUME TypeInv, Ring(order)
  PROVE  /\ list_empty(Nodes) <=> order = <<>>
         /\ prev[Nodes] = At(order, Len(order))
<1>1. Len(order) \in Nat /\ order \in [1 .. Len(order) -> Cells]
  BY DEF TypeInv
<1>2. next[At(order, 0)] = At(order, 1) /\ At(order, 0) = Nodes
  BY <1>1 DEF Ring, At
<1>3. prev[At(order, Len(order) + 1)] = At(order, Len(order))
  BY <1>1 DEF Ring
<1>4. At(order, Len(order) + 1) = Nodes
  BY <1>1 DEF At
<1>5. CASE Len(order) = 0
  <2>1. order = <<>>
    BY <1>5 DEF TypeInv
  <2>2. At(order, 1) = Nodes
    BY <1>5 DEF At
  <2> QED
    BY <1>2, <1>3, <1>4, <2>1, <2>2 DEF list_empty
<1>6. CASE Len(order) # 0
  <2>1. order # <<>>
    BY <1>6
  <2>2. At(order, 1) \in Cells
    BY <1>1, <1>6 DEF At
  <2> QED
    BY <1>2, <1>3, <1>4, <2>1, <2>2, NodesAssumption DEF list_empty
<1> QED
  BY <1>5, <1>6

\* list_add_tail turns the ring of a sequence into that of the longer one.
LEMMA AddKeepsRing ==
  ASSUME TypeInv, Ring(order), Distinct(order), NEW n \in Cells, n \notin Cellset(order),
         list_add_tail(n, Nodes)
  PROVE  \A i \in 0 .. Len(order) + 1 :
           /\ next'[At(Append(order, n), i)] = At(Append(order, n), i + 1)
           /\ prev'[At(Append(order, n), i + 1)] = At(Append(order, n), i)
<1> DEFINE t == Append(order, n)
           k == Len(order)
           last == At(order, k)
<1>1. k \in Nat /\ order \in [1 .. k -> Cells] /\ Len(t) = k + 1
  BY DEF TypeInv
<1>2. /\ \A i \in 0 .. k : At(t, i) = At(order, i)
      /\ At(t, k + 1) = n /\ At(t, k + 2) = Nodes
  BY <1>1 DEF At, TypeInv
<1>3. \A i \in 0 .. k + 2 : At(t, i) \in Addr
  BY <1>1, <1>2 DEF At, Addr
<1>4. /\ next' = [next EXCEPT ![n] = Nodes, ![last] = n]
      /\ prev' = [prev EXCEPT ![Nodes] = n, ![n] = last]
  BY EmptyRing DEF list_add_tail, __list_add
<1>5. \A i \in 0 .. k : At(t, i) # n
  BY <1>1, <1>2, NodesAssumption DEF At, Cellset
<1>6. \A i, j \in 0 .. k : At(t, i) = At(t, j) => i = j
  BY <1>1, <1>2, NodesAssumption DEF At, Distinct
<1>7. last = At(t, k) /\ last \in Addr /\ n \in Addr /\ Nodes \in Addr /\ n # Nodes
  BY <1>1, <1>2, <1>3, NodesAssumption DEF Addr
<1>8. ASSUME NEW i \in 0 .. k + 1
      PROVE  next'[At(t, i)] = At(t, i + 1) /\ prev'[At(t, i + 1)] = At(t, i)
  <2>1. CASE i < k
    <3>1. i \in 0 .. k /\ i + 1 \in 0 .. k /\ k \in 0 .. k /\ 0 \in 0 .. k
      BY <1>1, <2>1
    <3>2. next[At(t, i)] = At(t, i + 1) /\ prev[At(t, i + 1)] = At(t, i)
      BY <1>2, <3>1 DEF Ring
    <3>3. At(t, i) # last /\ At(t, i) # n /\ At(t, i + 1) # n
      BY <1>5, <1>6, <1>7, <2>1, <3>1, <1>1
    <3>4. At(t, i + 1) # Nodes
      BY <1>1, <1>2, <2>1, <3>1, NodesAssumption DEF At
    <3> QED
      BY <1>3, <1>4, <1>7, <3>1, <3>2, <3>3, <3>4 DEF TypeInv
  <2>2. CASE i = k
    BY <1>1, <1>2, <1>4, <1>5, <1>7, <2>2 DEF TypeInv
  <2>3. CASE i = k + 1
    <3>1. last # n
      BY <1>1, <1>5, <1>7
    <3>2. At(t, i) = n /\ At(t, i + 1) = Nodes
      BY <1>1, <1>2, <2>3
    <3> QED
      BY <1>4, <1>7, <3>1, <3>2 DEF TypeInv
  <2>4. i < k \/ i = k \/ i = k + 1
    <3>1. k \in Nat
      BY <1>1
    <3> HIDE DEF k
    <3> QED
      BY <3>1
  <2> QED
    BY <2>1, <2>2, <2>3, <2>4
<1> QED
  BY <1>8

\* list_del of the first node leaves the ring of the others.
LEMMA DelKeepsRing ==
  ASSUME TypeInv, Ring(order), Distinct(order), order # <<>>, list_del(next[Nodes])
  PROVE  \A i \in 0 .. Len(order) - 1 :
           /\ next'[At(Tail(order), i)] = At(Tail(order), i + 1)
           /\ prev'[At(Tail(order), i + 1)] = At(Tail(order), i)
<1> DEFINE t == Tail(order)
           k == Len(order)
           second == At(order, 2)
<1>1. k \in Nat \ {0} /\ order \in [1 .. k -> Cells] /\ Len(t) = k - 1
  BY DEF TypeInv
<1>2. At(t, 0) = Nodes /\ \A i \in 1 .. k : At(t, i) = At(order, i + 1)
  BY <1>1 DEF At, TypeInv
<1>3. At(order, 0) = Nodes /\ At(order, 1) = order[1] /\ order[1] \in Cells
  BY <1>1 DEF At
<1>4. next[Nodes] = order[1] /\ next[order[1]] = second /\ prev[order[1]] = Nodes
  <2>1. next[At(order, 0)] = At(order, 0 + 1) /\ prev[At(order, 0 + 1)] = At(order, 0)
    BY <1>1 DEF Ring
  <2>2. next[At(order, 1)] = At(order, 1 + 1)
    BY <1>1 DEF Ring
  <2> QED
    BY <1>3, <2>1, <2>2
<1>5. /\ next' = [next EXCEPT ![Nodes] = second]
      /\ prev' = [prev EXCEPT ![second] = Nodes]
  BY <1>4 DEF list_del
<1>6. \A i \in 0 .. k + 1 : At(order, i) \in Addr
  BY <1>1 DEF At, Addr
<1>7. ASSUME NEW i \in 0 .. k - 1
      PROVE  next'[At(t, i)] = At(t, i + 1) /\ prev'[At(t, i + 1)] = At(t, i)
  <2>1. CASE i = 0
    <3>1. At(t, i) = Nodes /\ At(t, i + 1) = second
      BY <1>1, <1>2, <2>1
    <3>2. Nodes \in Addr /\ second \in Addr
      BY <1>1, <1>6 DEF Addr
    <3> QED
      BY <1>5, <3>1, <3>2 DEF TypeInv
  <2>2. CASE i > 0
    <3>1. i \in 1 .. k /\ i + 1 \in 1 .. k /\ i + 1 \in 0 .. k
      BY <1>1, <2>2
    <3>2. At(t, i) = At(order, i + 1) /\ At(t, i + 1) = At(order, i + 2)
      BY <1>1, <1>2, <3>1
    <3>3. next[At(order, i + 1)] = At(order, i + 2) /\ prev[At(order, i + 2)] = At(order, i + 1)
      <4>1. next[At(order, i + 1)] = At(order, i + 1 + 1) /\ prev[At(order, i + 1 + 1)] = At(order, i + 1)
        BY <3>1 DEF Ring
      <4> QED
        BY <1>1, <4>1
    <3>4. At(order, i + 1) # Nodes
      BY <1>1, <3>1, NodesAssumption DEF At
    <3>5. At(order, i + 2) # second
      BY <1>1, <2>2, NodesAssumption DEF At, Distinct
    <3>6. At(order, i + 1) \in Addr /\ At(order, i + 2) \in Addr
      BY <1>1, <1>6
    <3> QED
      BY <1>5, <3>2, <3>3, <3>4, <3>5, <3>6 DEF TypeInv
  <2> QED
    BY <1>1, <2>1, <2>2
<1> QED
  BY <1>7

-----------------------------------------------------------------------------
LEMMA InitHolds == Init => ListInv
<1> SUFFICES ASSUME Init PROVE ListInv
  OBVIOUS
<1>1. TypeInv
  BY DEF Init, TypeInv
<1> QED
  BY <1>1 DEF Init, ListInv, Held

LEMMA StepHolds == ListInv /\ [Next]_vars => ListInv'
<1> SUFFICES ASSUME ListInv, [Next]_vars PROVE ListInv'
  OBVIOUS
<1> USE DEF ListInv
<1>1. CASE StartScan
  <2> USE <1>1 DEF StartScan, INIT_LIST_HEAD
  <2>1. TypeInv'
    BY DEF TypeInv, Addr
  <2>2. next'[Nodes] = Nodes /\ prev'[Nodes] = Nodes
    BY DEF TypeInv, Addr
  <2>3. Len(order') = 0 /\ order' = <<>>
    OBVIOUS
  <2>4. Ring(order)' /\ Distinct(order)'
    BY <2>2, <2>3 DEF Ring, At, Distinct
  <2>5. Cellset(order') = {}
    BY <2>3 DEF Cellset
  <2> QED
    BY <2>1, <2>4, <2>5 DEF Held
<1>2. ASSUME NEW n \in Cells, AddSnod(n)
      PROVE  ListInv'
  <2> USE <1>2 DEF AddSnod
  <2> DEFINE t == Append(order, n)
             k == Len(order)
  <2>1. Held /\ Held' /\ order' = t
    BY DEF Held
  <2>2. k \in Nat /\ Len(t) = k + 1 /\ t[k + 1] = n /\ \A i \in 1 .. k : t[i] = order[i]
    BY DEF TypeInv
  <2>3. Cellset(t) = Cellset(order) \cup {n}
    BY <2>2 DEF Cellset
  <2>4. n \notin Cellset(order)
    BY <2>1
  <2>5. Distinct(t)
    BY <2>1, <2>2, <2>4 DEF Distinct, Cellset
  <2>6. Ring(order)'
    BY <2>1, <2>2, <2>4, AddKeepsRing DEF Ring, At
  <2>7. TypeInv'
    BY EmptyRing, <2>1 DEF TypeInv, list_add_tail, __list_add, Addr
  <2> QED
    BY <2>1, <2>3, <2>5, <2>6, <2>7
<1>3. CASE Destroy
  BY <1>3 DEF Destroy, TypeInv, Held, Ring, At
<1>4. CASE DestroySnod
  <2> USE <1>4 DEF DestroySnod
  <2> DEFINE t == Tail(order)
             k == Len(order)
  <2>1. Held /\ Held' /\ order' = t /\ list_del(next[Nodes])
    BY DEF Held
  <2>2. order # <<>>
    BY <2>1, EmptyRing
  <2>3. k \in Nat \ {0} /\ Len(t) = k - 1 /\ \A i \in 1 .. k - 1 : t[i] = order[i + 1]
    BY <2>2 DEF TypeInv
  <2>4. next[Nodes] = order[1]
    <3>1. next[At(order, 0)] = At(order, 0 + 1)
      BY <2>1, <2>3 DEF Ring
    <3> QED
      BY <2>3, <3>1 DEF At
  <2>5. Distinct(t)
    BY <2>1, <2>3 DEF Distinct
  <2>6. Cellset(t) = Cellset(order) \ {order[1]}
    <3>1. ASSUME NEW c \in Cellset(t) PROVE c \in Cellset(order) \ {order[1]}
      BY <2>1, <2>3 DEF Cellset, Distinct
    <3>2. ASSUME NEW c \in Cellset(order), c # order[1] PROVE c \in Cellset(t)
      <4>1. PICK i \in 1 .. k : c = order[i]
        BY DEF Cellset
      <4>2. i - 1 \in 1 .. k - 1 /\ t[i - 1] = order[i]
        BY <2>3, <3>2, <4>1
      <4> QED
        BY <2>3, <4>1, <4>2 DEF Cellset
    <3> QED
      BY <3>1, <3>2
  <2>7. Ring(order)'
    BY <2>1, <2>2, <2>3, DelKeepsRing DEF Ring, At
  <2>8. TypeInv'
    <3>1. next[next[Nodes]] \in Addr /\ prev[next[Nodes]] \in Addr
      BY DEF TypeInv, Addr
    <3>2. t \in Seq(Cells)
      BY <2>2 DEF TypeInv
    <3> QED
      BY <2>1, <3>1, <3>2 DEF TypeInv, list_del
  <2>9. order[1] # Nodes
    BY <2>3, NodesAssumption DEF TypeInv
  <2> QED
    BY <2>1, <2>4, <2>5, <2>6, <2>7, <2>8, <2>9
<1>5. CASE DestroySleb
  <2> USE <1>5 DEF DestroySleb
  <2>1. order = <<>>
    BY EmptyRing DEF Held
  <2>2. Cellset(order) = {}
    BY <2>1 DEF Cellset
  <2> QED
    BY <2>2 DEF TypeInv, Held
<1>6. CASE UNCHANGED vars
  BY <1>6 DEF vars, TypeInv, Held, Ring, At
<1> QED
  BY <1>1, <1>2, <1>3, <1>4, <1>5, <1>6 DEF Next

LEMMA ListInvariant == Spec => []ListInv
<1> QED
  BY InitHolds, StepHolds, PTL DEF Spec

(***************************************************************************)
(* However many nodes are added, freed and added again, the pointers form  *)
(* one ring in the order of insertion (ubifs.h:88-106).                    *)
(***************************************************************************)
THEOREM RingCorrect == Spec => []ListIsRing
<1>1. ListInv => ListIsRing
  BY DEF ListInv, ListIsRing
<1> QED
  BY <1>1, ListInvariant, PTL

(***************************************************************************)
(* What is allocated is what is on the list, and no pointer that the list  *)
(* operations follow leads to freed memory (scan.c:359-365).               *)
(***************************************************************************)
THEOREM LiveCorrect == Spec => []LiveIsListed
<1>1. ListInv => LiveIsListed
  <2> SUFFICES ASSUME ListInv PROVE LiveIsListed
    OBVIOUS
  <2>1. live = IF Held THEN {Nodes} \cup {order[i] : i \in DOMAIN order} ELSE {}
    BY DEF ListInv, TypeInv, Cellset
  <2>2. ASSUME Held
        PROVE  /\ {next[Nodes], prev[Nodes]} \subseteq live
               /\ {next[next[Nodes]], prev[next[Nodes]]} \subseteq live
    <3> DEFINE k == Len(order)
    <3>1. k \in Nat /\ TypeInv /\ Ring(order)
      BY <2>2 DEF ListInv, TypeInv
    <3>2. \A i \in 0 .. k + 1 : At(order, i) \in live
      BY <2>2, <3>1 DEF ListInv, At, Cellset
    <3>3. next[Nodes] = At(order, 1) /\ prev[At(order, 1)] = Nodes
      <4>1. next[At(order, 0)] = At(order, 0 + 1) /\ prev[At(order, 0 + 1)] = At(order, 0)
        BY <3>1 DEF Ring
      <4>2. At(order, 0) = Nodes
        BY <3>1 DEF At
      <4> QED
        BY <4>1, <4>2
    <3>4. prev[Nodes] \in live
      BY <3>1, <3>2, EmptyRing
    <3>5. next[At(order, 1)] \in live
      <4>1. CASE k = 0
        BY <3>1, <3>2, <3>3, <4>1 DEF At
      <4>2. CASE k > 0
        <5>1. next[At(order, 1)] = At(order, 1 + 1)
          BY <3>1, <4>2 DEF Ring
        <5> QED
          BY <3>1, <3>2, <4>2, <5>1
      <4> QED
        BY <3>1, <4>1, <4>2
    <3>6. Nodes \in live /\ At(order, 1) \in live
      BY <2>2, <3>1, <3>2 DEF ListInv
    <3> QED
      BY <3>3, <3>4, <3>5, <3>6
  <2> QED
    BY <2>1, <2>2 DEF LiveIsListed
<1> QED
  BY <1>1, ListInvariant, PTL

-----------------------------------------------------------------------------
\* The sequence the list stands for, by the history instead of by walking.
O == INSTANCE NodeList WITH held <- Held, nodes <- IF Held THEN order ELSE <<>>

(***************************************************************************)
(* The code that drives the list, which asks the pointers whether there is *)
(* anything left (scan.c:360), keeps to the sequence that UbifsScan takes  *)
(* the list for: nodes are added at its end, taken from its front, and it  *)
(* is given up when it is empty.                                           *)
(***************************************************************************)
THEOREM SequenceCorrect == Spec => O!Spec
<1>1. Init => O!Init
  BY DEF Init, O!Init, Held
<1>2. ListInv /\ [Next]_vars => [O!Next]_<<Held, IF Held THEN order ELSE <<>> >>
  <2> SUFFICES ASSUME ListInv, [Next]_vars
               PROVE  [O!Next]_<<Held, IF Held THEN order ELSE <<>> >>
    OBVIOUS
  <2> USE DEF O!Next
  <2>1. CASE StartScan
    BY <2>1 DEF StartScan, O!Start, Held
  <2>2. ASSUME NEW n \in Cells, AddSnod(n) PROVE O!Add(n)
    <3>1. Held /\ Held' /\ order' = Append(order, n)
      BY <2>2 DEF AddSnod, Held
    <3>2. n \notin Cellset(order)
      BY <2>2, <3>1 DEF AddSnod, ListInv
    <3>3. \A i \in DOMAIN order : order[i] # n
      BY <3>2 DEF Cellset, ListInv, TypeInv
    <3> QED
      BY <3>1, <3>3 DEF O!Add
  <2>3. CASE Destroy
    BY <2>3 DEF Destroy, Held
  <2>4. CASE DestroySnod
    <3>1. Held /\ Held' /\ order' = Tail(order) /\ ~list_empty(Nodes)
      BY <2>4 DEF DestroySnod, Held
    <3>2. order # <<>>
      BY <3>1, EmptyRing DEF ListInv
    <3> QED
      BY <3>1, <3>2 DEF O!TakeFirst
  <2>5. CASE DestroySleb
    <3>1. Held /\ ~Held' /\ list_empty(Nodes)
      BY <2>5 DEF DestroySleb, Held
    <3>2. order = <<>>
      BY <3>1, EmptyRing DEF ListInv
    <3>3. Held' = FALSE
      BY <2>5 DEF DestroySleb, Held
    <3> QED
      BY <3>1, <3>2, <3>3 DEF O!GiveUp
  <2>6. CASE UNCHANGED vars
    BY <2>6 DEF vars, Held
  <2> QED
    BY <2>1, <2>2, <2>3, <2>4, <2>5, <2>6 DEF Next
<1> QED
  BY <1>1, <1>2, ListInvariant, PTL DEF Spec, O!Spec

-----------------------------------------------------------------------------
(***************************************************************************)
(* Walking.  Walked is made from a recursive function, of which nothing is *)
(* known before there is a function that satisfies its equation.           *)
(***************************************************************************)

\* Induction from 0 up to N, for the members of a set.
LEMMA Upwards ==
  ASSUME NEW N \in Nat, NEW T, 0 \in T,
         \A i \in 0 .. N - 1 : i \in T => i + 1 \in T
  PROVE  \A i \in 0 .. N : i \in T
<1> DEFINE Missed == {i \in Nat : i =< N /\ i \notin T}
           R      == OpToRel(<, Nat)
<1> SUFFICES ASSUME Missed # {}
             PROVE  FALSE
  OBVIOUS
<1>1. PICK m \in Missed : \A k \in Missed : ~(<<k, m>> \in R)
  <2>1. IsWellFoundedOn(R, Nat) /\ Missed \subseteq Nat
    BY NatLessThanWellFounded, Zenon
  <2> HIDE DEF R, Missed
  <2> QED
    BY <2>1, WFMin, Zenon
<1>2. \A k \in Missed : ~(k < m)
  BY <1>1 DEF OpToRel
<1> HIDE DEF R
<1>3. m - 1 \in Nat /\ m - 1 \in 0 .. N - 1
  OBVIOUS
<1>4. m - 1 \in T
  BY <1>2, <1>3
<1>5. m - 1 + 1 \in T
  BY <1>3, <1>4
<1> QED
  BY <1>5

\* m steps along next from the head.
IsWalk(f, m) ==
  f \in [0 .. m -> Addr] /\ f[0] = Nodes /\ \A i \in 1 .. m : f[i] = next[f[i - 1]]

LEMMA WalkExists ==
  ASSUME TypeInv, NEW N \in Nat
  PROVE  \E f : IsWalk(f, N)
<1> DEFINE T == {m \in 0 .. N : \E f : IsWalk(f, m)}
<1>1. 0 \in T
  <2> DEFINE f == [i \in 0 .. 0 |-> Nodes]
  <2>1. f \in [0 .. 0 -> Addr] /\ f[0] = Nodes
    BY DEF Addr
  <2> HIDE DEF f
  <2>2. IsWalk(f, 0)
    BY <2>1 DEF IsWalk
  <2>3. 0 \in 0 .. N
    OBVIOUS
  <2> QED
    BY <2>2, <2>3
<1>2. ASSUME NEW m \in 0 .. N - 1, m \in T
      PROVE  m + 1 \in T
  <2>1. PICK f : IsWalk(f, m)
    BY <1>2
  <2> DEFINE h == [i \in 0 .. m + 1 |-> IF i = m + 1 THEN next[f[m]] ELSE f[i]]
  <2>2. m \in Nat /\ m \in 0 .. m /\ 0 # m + 1 /\ m + 1 \in 0 .. N
    OBVIOUS
  <2>3. f \in [0 .. m -> Addr] /\ f[0] = Nodes /\ \A i \in 1 .. m : f[i] = next[f[i - 1]]
    BY <2>1 DEF IsWalk
  <2>4. next[f[m]] \in Addr
    BY <2>2, <2>3 DEF TypeInv
  <2>5. h \in [0 .. m + 1 -> Addr] /\ h[0] = Nodes
    BY <2>2, <2>3, <2>4
  <2>6. ASSUME NEW i \in 1 .. m + 1
        PROVE  h[i] = next[h[i - 1]]
    <3>1. CASE i = m + 1
      BY <2>2, <3>1
    <3>2. CASE i \in 1 .. m
      BY <2>2, <2>3, <3>2
    <3> QED
      BY <2>2, <3>1, <3>2
  <2> HIDE DEF h
  <2>7. IsWalk(h, m + 1)
    BY <2>5, <2>6 DEF IsWalk
  <2> QED
    BY <2>2, <2>7
<1>3. N \in T
  <2> HIDE DEF T
  <2>1. \A m \in 0 .. N : m \in T
    BY <1>1, <1>2, Upwards
  <2> QED
    BY <2>1
<1> QED
  BY <1>3

\* The first round of a walk along a ring.
LEMMA WalkIsRing ==
  ASSUME ListInv, Held, NEW N \in Nat, Len(order) =< N, NEW f,
         f[0] = Nodes, \A i \in 1 .. N + 1 : f[i] = next[f[i - 1]]
  PROVE  \A i \in 0 .. Len(order) + 1 : f[i] = At(order, i)
<1> DEFINE k == Len(order)
           m == k + 1
           T == {i \in 0 .. m : f[i] = At(order, i)}
<1>1. k \in Nat /\ Ring(order)
  BY DEF ListInv, TypeInv
<1>2. 0 \in T
  BY <1>1 DEF At
<1>3. ASSUME NEW i \in 0 .. m - 1, i \in T
      PROVE  i + 1 \in T
  <2>1. i \in 0 .. k /\ i + 1 \in 1 .. N + 1 /\ i + 1 - 1 = i /\ i + 1 \in 0 .. k + 1
    BY <1>1
  <2>2. f[i + 1] = next[f[i]]
    BY <2>1
  <2>3. next[At(order, i)] = At(order, i + 1)
    BY <1>1, <2>1 DEF Ring
  <2> QED
    BY <1>3, <2>1, <2>2, <2>3
<1>4. \A i \in 0 .. m : i \in T
  <2>1. m \in Nat
    BY <1>1
  <2> HIDE DEF T, m
  <2> QED
    BY <1>2, <1>3, <2>1, Upwards
<1> QED
  BY <1>4

\* There are at least as many cells as nodes on the list.
LEMMA OrderFits ==
  ASSUME ListInv, Held, IsFiniteSet(Cells)
  PROVE  Len(order) =< Cardinality(Cells) /\ Cardinality(Cells) \in Nat
<1> DEFINE k == Len(order)
<1>1. k \in Nat /\ order \in [1 .. k -> Cells] /\ \A i, j \in 1 .. k : order[i] = order[j] => i = j
  BY DEF ListInv, TypeInv, Distinct
<1>2. IsFiniteSet(1 .. k) /\ Cardinality(1 .. k) = k
  <2>1. 1 \in Int /\ k \in Int /\ (IF 1 > k THEN 0 ELSE k - 1 + 1) = k
    BY <1>1
  <2> HIDE DEF k
  <2> QED
    BY <2>1, FS_Interval
<1>3. Cardinality(Cells) \in Nat
  BY FS_CardinalityType
<1>4. ASSUME Cardinality(1 .. k) > Cardinality(Cells)
      PROVE  FALSE
  <2> HIDE DEF k
  <2>1. \E i, j \in 1 .. k : i # j /\ order[i] = order[j]
    BY <1>1, <1>2, <1>4, FS_PigeonHole
  <2> QED
    BY <1>1, <2>1
<1> QED
  BY <1>1, <1>2, <1>3, <1>4

LEMMA WalkedIsOrder ==
  ASSUME IsFiniteSet(Cells), ListInv, Held
  PROVE  Walked = order
<1> DEFINE last == Cardinality(Cells)
           step == CHOOSE s : s = [j \in 0 .. last + 1 |-> IF j = 0 THEN Nodes ELSE next[s[j - 1]]]
           End(j) == step[j + 1] = Nodes /\ \A i \in 1 .. j : step[i] # Nodes
           k == Len(order)
<1>1. last \in Nat /\ k =< last /\ TypeInv /\ k \in Nat
  BY OrderFits DEF ListInv, TypeInv
<1>2. PICK f : IsWalk(f, last + 1)
  <2>1. last + 1 \in Nat
    BY <1>1
  <2> HIDE DEF last
  <2> QED
    BY <1>1, <2>1, WalkExists
<1>3. f = [j \in 0 .. last + 1 |-> IF j = 0 THEN Nodes ELSE next[f[j - 1]]]
  <2> HIDE DEF last
  <2>1. f = [j \in 0 .. last + 1 |-> f[j]]
    BY <1>2 DEF IsWalk
  <2>2. \A j \in 0 .. last + 1 : f[j] = IF j = 0 THEN Nodes ELSE next[f[j - 1]]
    BY <1>1, <1>2 DEF IsWalk
  <2> QED
    BY <2>1, <2>2, Zenon
<1>4. step = [j \in 0 .. last + 1 |-> IF j = 0 THEN Nodes ELSE next[step[j - 1]]]
  <2> HIDE DEF last
  <2> QED
    BY <1>3, Zenon
<1>5. Walked = [j \in 1 .. (CHOOSE j \in 0 .. last : End(j)) |-> step[j]]
  BY DEF Walked
<1> HIDE DEF last, step
<1>6. step[0] = Nodes /\ \A i \in 1 .. last + 1 : step[i] = next[step[i - 1]]
  BY <1>1, <1>4
<1>7. \A i \in 0 .. k + 1 : step[i] = At(order, i)
  BY <1>1, <1>6, WalkIsRing
<1>8. order \in [1 .. k -> Cells]
  BY DEF ListInv, TypeInv
<1>9. \A i \in 1 .. k : step[i] = order[i] /\ step[i] # Nodes
  BY <1>1, <1>7, <1>8, NodesAssumption DEF At
<1>10. step[k + 1] = Nodes
  BY <1>1, <1>7 DEF At
<1> HIDE DEF k
<1>11. k \in 0 .. last /\ End(k)
  BY <1>1, <1>9, <1>10
<1>12. ASSUME NEW j \in 0 .. last, End(j)
       PROVE  j = k
  <2>1. CASE j < k
    <3>1. j + 1 \in 1 .. k
      BY <1>1, <2>1
    <3> QED
      BY <1>9, <1>12, <3>1
  <2>2. CASE j > k
    <3>1. k + 1 \in 1 .. j
      BY <1>1, <2>2
    <3> QED
      BY <1>10, <1>12, <3>1
  <2> QED
    BY <1>1, <2>1, <2>2
<1>13. (CHOOSE j \in 0 .. last : End(j)) = k
  <2> HIDE DEF End
  <2> QED
    BY <1>11, <1>12
<1>14. Walked = [j \in 1 .. k |-> step[j]]
  BY <1>5, <1>13, Zenon
<1>15. order = [j \in 1 .. k |-> order[j]]
  BY <1>8
<1> QED
  BY <1>9, <1>14, <1>15

(***************************************************************************)
(* The pointers alone implement the sequence: who follows next from the    *)
(* head, as test_scan_a_node.c:195-200 does, walks along the nodes that    *)
(* UbifsScan has in its list, in their order, and comes back to the head.  *)
(***************************************************************************)
THEOREM WalkCorrect ==
  ASSUME IsFiniteSet(Cells)
  PROVE  Spec => ImplementsSequence
<1> DEFINE walk == IF Held THEN Walked ELSE <<>>
           past == IF Held THEN order ELSE <<>>
<1>1. ListInv => walk = past
  BY WalkedIsOrder
<1>2. O!Init /\ walk = past => L!Init
  BY DEF O!Init, L!Init
<1>3. [O!Next]_<<Held, past>> /\ walk = past /\ (walk = past)' => [L!Next]_<<Held, walk>>
  <2> SUFFICES ASSUME [O!Next]_<<Held, past>>, walk = past, walk' = past'
               PROVE  [L!Next]_<<Held, walk>>
    OBVIOUS
  <2>1. O!Start => L!Start
    BY DEF O!Start, L!Start
  <2>2. ASSUME NEW n \in Cells, O!Add(n)
        PROVE  L!Add(n)
    BY <2>2 DEF O!Add, L!Add
  <2>3. O!TakeFirst => L!TakeFirst
    BY DEF O!TakeFirst, L!TakeFirst
  <2>4. O!GiveUp => L!GiveUp
    BY DEF O!GiveUp, L!GiveUp
  <2> QED
    BY <2>1, <2>2, <2>3, <2>4 DEF O!Next, L!Next
<1> QED
  BY <1>1, <1>2, <1>3, ListInvariant, SequenceCorrect, PTL DEF ImplementsSequence, O!Spec, L!Spec
=============================================================================
