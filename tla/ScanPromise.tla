---------------------------- MODULE ScanPromise -----------------------------
(***************************************************************************)
(* What ubifs_scan() promises its caller, without how it gets there: one   *)
(* call, answered in one step with an error or with a list that depends on *)
(* the eraseblock and on the starting offset alone, as LebTiles reads it.  *)
(***************************************************************************)
EXTENDS LebTiles

CONSTANT Starts   \* offsets at which callers start a scan

VARIABLES leb, start, phase, answer

vars == <<leb, start, phase, answer>>

-----------------------------------------------------------------------------
NoAnswer == [kind |-> "none"]

ErrorCode(err) == [kind |-> "error", err |-> err]

List(nodes, nodes_cnt, endpt) ==
  [kind |-> "list", nodes |-> nodes, nodes_cnt |-> nodes_cnt, endpt |-> endpt]

Request(o) ==
  /\ phase = "idle"
  /\ phase' = "busy" /\ start' = o /\ answer' = NoAnswer
  /\ UNCHANGED leb

Succeed ==
  /\ phase = "busy"
  /\ Scannable(leb, start)
  /\ LET row == Row(leb, start)
     IN  answer' = List(row.nodes, Len(row.nodes), row.end)
  /\ phase' = "held"
  /\ UNCHANGED <<leb, start>>

\* The eraseblock needs recovery.
Refuse ==
  /\ phase = "busy"
  /\ ~Scannable(leb, start)
  /\ answer' = ErrorCode(-EUCLEAN)
  /\ phase' = "idle"
  /\ UNCHANGED <<leb, start>>

\* Memory or the flash fails; nothing is said about the eraseblock.
Fail(err) ==
  /\ phase = "busy"
  /\ answer' = ErrorCode(err)
  /\ phase' = "idle"
  /\ UNCHANGED <<leb, start>>

Release ==
  /\ phase = "held"
  /\ phase' = "idle" /\ answer' = NoAnswer
  /\ UNCHANGED <<leb, start>>

Init ==
  /\ IsLeb(leb)
  /\ start = 0 /\ phase = "idle" /\ answer = NoAnswer

Next ==
  \/ \E o \in Starts : Request(o)
  \/ Succeed \/ Refuse \/ Release
  \/ \E err \in {-ENOMEM, -EIO} : Fail(err)

Spec == Init /\ [][Next]_vars
=============================================================================
