------------------------------ MODULE NodeList ------------------------------
(***************************************************************************)
(* What ubifs_scan and its callers take the list of scanned nodes for: a   *)
(* sequence that is filled at its end and emptied from its front, and then *)
(* given up.  UbifsScan uses it in this form.                              *)
(***************************************************************************)
EXTENDS Sequences

CONSTANT Cells    \* addresses at which a node can lie

VARIABLES held,   \* is there a list?
          nodes

Start == ~held /\ held' = TRUE /\ nodes' = <<>>

Add(n) ==
  /\ held
  /\ \A i \in DOMAIN nodes : nodes[i] # n
  /\ nodes' = Append(nodes, n)
  /\ UNCHANGED held

TakeFirst == held /\ nodes # <<>> /\ nodes' = Tail(nodes) /\ UNCHANGED held

GiveUp == held /\ nodes = <<>> /\ held' = FALSE /\ UNCHANGED nodes

Init == held = FALSE /\ nodes = <<>>
Next == Start \/ (\E n \in Cells : Add(n)) \/ TakeFirst \/ GiveUp

Spec == Init /\ [][Next]_<<held, nodes>>
=============================================================================
