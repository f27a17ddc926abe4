--------------------------- MODULE ScanRefinement ---------------------------
(***************************************************************************)
(* ubifs_scan() keeps the promise of ScanPromise.  The call is in progress *)
(* from Call until it returns.  The list is the caller's from the moment   *)
(* ubifs_scan returns it until the caller hands it to ubifs_scan_destroy;  *)
(* an error is the caller's once the list has been destroyed.              *)
(*                                                                         *)
(* Towards its list it is the user that NodeList describes: there is one   *)
(* from the allocation of sleb to its release, and it holds the offsets of *)
(* the nodes recorded.                                                     *)
(***************************************************************************)
EXTENDS UbifsScan, LebTiles

phaseBar ==
  IF pc = "done" THEN "held"
  ELSE IF pc = "idle" \/ (pc = "destroy" /\ ret = 0) THEN "idle"
  ELSE "busy"

answerBar ==
  IF pc = "done"
  THEN [kind |-> "list", nodes |-> nodes, nodes_cnt |-> nodes_cnt, endpt |-> endpt]
  ELSE IF pc = "idle" /\ ret # 0 THEN [kind |-> "error", err |-> ret]
  ELSE [kind |-> "none"]

Promise == INSTANCE ScanPromise WITH phase <- phaseBar, answer <- answerBar

(***************************************************************************)
(* Every call of ubifs_scan is answered as promised: with exactly the      *)
(* nodes on the row of tiles, their count and the end of the row when the  *)
(* rest is erased and aligned, with -EUCLEAN when it is not, and with      *)
(* another error only because memory or the flash failed.                  *)
(***************************************************************************)
KeepsPromise == Promise!Spec

ListUse == INSTANCE NodeList WITH
  Cells <- Addr,
  held  <- slebs # 0,
  nodes <- [i \in DOMAIN nodes |-> nodes[i].offs]

(***************************************************************************)
(* Through all of its exits ubifs_scan uses the list as the list allows:   *)
(* nodes are added while there is a list and none twice, it is emptied     *)
(* from its front, and given up when it is empty and not before.  NodeList *)
(* is what KList implements with pointers.                                 *)
(***************************************************************************)
UsesList == ListUse!Spec
=============================================================================
