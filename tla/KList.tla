------------------------------- MODULE KList --------------------------------
(***************************************************************************)
(* The doubly linked list of ubifs.h on its pointers, driven as scan.c     *)
(* drives it: made by ubifs_start_scan, filled by ubifs_add_snod, emptied  *)
(* and freed by ubifs_scan_destroy.  A cell is the list_head of a node;    *)
(* malloc may hand out again what was freed, with its old pointers in it.  *)
(*                                                                         *)
(* pc is "none" (no list), "held" or "destroy" (in ubifs_scan_destroy).    *)
(***************************************************************************)
EXTENDS Integers, Sequences, FiniteSets

CONSTANTS Cells,   \* the list_heads of nodes
          Nodes    \* &sleb->nodes, the head

ASSUME NodesAssumption == Nodes \notin Cells

VARIABLES pc, next, prev,
          live,    \* cells that are allocated
          order    \* history: cells added and not deleted, oldest first

vars == <<pc, next, prev, live, order>>

Addr == Cells \cup {Nodes}

-----------------------------------------------------------------------------
INIT_LIST_HEAD(list) ==
  /\ next' = [next EXCEPT ![list] = list]
  /\ prev' = [prev EXCEPT ![list] = list]

\* Mutant of the next definition: the new cell is not told its predecessor.
ListAddOneWay(new, before, after) ==
  /\ next' = [next EXCEPT ![new] = after, ![before] = new]
  /\ prev' = [prev EXCEPT ![after] = new]

__list_add(new, before, after) ==
  /\ next' = [next EXCEPT ![new] = after, ![before] = new]
  /\ prev' = [prev EXCEPT ![after] = new, ![new] = before]

\* Mutant of the next definition: added behind the head, as list_add does.
ListAddFirst(new, head) == __list_add(new, head, next[head])

list_add_tail(new, head) == __list_add(new, prev[head], head)

\* Mutant of the next definition: the successor keeps its pointer back.
ListDelOneWay(entry) ==
  /\ next' = [next EXCEPT ![prev[entry]] = next[entry]]
  /\ UNCHANGED prev

list_del(entry) ==
  /\ prev' = [prev EXCEPT ![next[entry]] = prev[entry]]
  /\ next' = [next EXCEPT ![prev[entry]] = next[entry]]

list_empty(head) == next[head] = head

-----------------------------------------------------------------------------
StartScan ==
  /\ pc = "none"
  /\ pc' = "held"
  /\ live' = {Nodes} /\ order' = <<>>
  /\ INIT_LIST_HEAD(Nodes)

AddSnod(n) ==
  /\ pc = "held"
  /\ n \notin live
  /\ live' = live \cup {n} /\ order' = Append(order, n)
  /\ list_add_tail(n, Nodes)
  /\ UNCHANGED pc

Destroy ==
  /\ pc = "held"
  /\ pc' = "destroy"
  /\ UNCHANGED <<next, prev, live, order>>

\* list_del and kfree of the first node.
DestroySnod ==
  /\ pc = "destroy"
  /\ ~list_empty(Nodes)
  /\ LET node == next[Nodes]
     IN  /\ list_del(node)
         /\ live' = live \ {node}
  /\ order' = Tail(order)
  /\ UNCHANGED pc

\* Mutant of the next definition: sleb is freed and its nodes are not.
DestroySlebEarly ==
  /\ pc = "destroy"
  /\ pc' = "none"
  /\ live' = live \ {Nodes}
  /\ UNCHANGED <<next, prev, order>>

DestroySleb ==
  /\ pc = "destroy"
  /\ list_empty(Nodes)
  /\ pc' = "none"
  /\ live' = live \ {Nodes}
  /\ UNCHANGED <<next, prev, order>>

\* What is in memory before it is written is arbitrary; a cell stands for it.
Init ==
  /\ pc = "none"
  /\ \E a \in Addr : next = [c \in Addr |-> a]
  /\ \E a \in Addr : prev = [c \in Addr |-> a]
  /\ live = {} /\ order = <<>>

Next ==
  \/ StartScan \/ (\E n \in Cells : AddSnod(n))
  \/ Destroy \/ DestroySnod \/ DestroySleb

Spec == Init /\ [][Next]_vars

-----------------------------------------------------------------------------
Held == pc \in {"held", "destroy"}

\* The ring the list should be: the head, the cells in order, the head again.
At(s, i) == IF i \in 1 .. Len(s) THEN s[i] ELSE Nodes

Ring(s) ==
  \A i \in 0 .. Len(s) :
    /\ next[At(s, i)] = At(s, i + 1)
    /\ prev[At(s, i + 1)] = At(s, i)

(***************************************************************************)
(* After any number of additions, deletions and re-used cells the pointers *)
(* form one ring both ways, in the order of insertion: who follows next    *)
(* from the head, as test_scan_a_node.c:195-200 does, meets each node once *)
(* and then the head.                                                      *)
(***************************************************************************)
ListIsRing == Held => Ring(order)

(***************************************************************************)
(* Nothing is freed twice, lost, or reached after it has been freed: what  *)
(* is allocated is the head and what is on the list, each pointer that     *)
(* list_add_tail or list_del is going to follow leads to what is           *)
(* allocated, and when the list has been destroyed nothing is.             *)
(***************************************************************************)
LiveIsListed ==
  /\ live = IF Held THEN {Nodes} \cup {order[i] : i \in DOMAIN order} ELSE {}
  /\ Held => /\ {next[Nodes], prev[Nodes]} \subseteq live
             /\ {next[next[Nodes]], prev[next[Nodes]]} \subseteq live

(***************************************************************************)
(* The pointers alone implement the sequence that UbifsScan takes the list *)
(* for.  Walked follows next until it comes to the head.                   *)
(***************************************************************************)
Walked ==
  LET last == Cardinality(Cells)
      step[k \in 0 .. last + 1] == IF k = 0 THEN Nodes ELSE next[step[k - 1]]
      length == CHOOSE k \in 0 .. last : step[k + 1] = Nodes /\ \A j \in 1 .. k : step[j] # Nodes
  IN  [k \in 1 .. length |-> step[k]]

L == INSTANCE NodeList WITH held <- Held, nodes <- IF Held THEN Walked ELSE <<>>

ImplementsSequence == L!Spec
=============================================================================
