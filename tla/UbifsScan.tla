----------------------------- MODULE UbifsScan ------------------------------
(***************************************************************************)
(* ubifs_scan() and the functions around it, as a caller sees and drives   *)
(* them: start the scan of one eraseblock, look at node after node, check  *)
(* the empty space behind the last one, return the list or destroy it.     *)
(*                                                                         *)
(* There is one action per call made and per loop iteration; pc names the  *)
(* point the C code has reached:                                           *)
(*   "idle"     no call in progress, the caller holds no scan information  *)
(*   "start", "read"                     in ubifs_start_scan               *)
(*   "loop"     head of the while loop of ubifs_scan                       *)
(*   "end"      behind that loop, before ubifs_end_scan                    *)
(*   "words", "bytes"                    the two checks of the empty space *)
(*   "destroy"  in ubifs_scan_destroy, called by ubifs_scan or the caller  *)
(*   "done"     ubifs_scan has returned the list, which the caller holds   *)
(*   "undefined"   the code has read outside of the scan buffer            *)
(***************************************************************************)
EXTENDS ScanANode, Sequences

CONSTANTS Images,   \* what an eraseblock may contain
          Starts    \* offsets at which callers start a scan

ASSUME ImagesAssumption == Images # {} /\ \A l \in Images : IsLeb(l)
ASSUME StartsAssumption == Starts # {} /\ \A s \in Starts : s \in 0 .. LebSize /\ s % 8 = 0

VARIABLES
  leb,               \* the scan buffer sbuf, holding the eraseblock
  pc,
  start,             \* argument offs of the call
  quiet,             \* argument quiet of the call
  offs, buf, len,    \* locals of ubifs_scan; buf as an offset into sbuf
  nodes, nodes_cnt, endpt,   \* the fields of *sleb
  ret,               \* the pointer returned: 0 when valid, or the ERR_PTR code
  printed,           \* has this call printed a message?
  slebs, snods       \* live ubifs_scan_leb and ubifs_scan_node objects

args   == <<start, quiet>>
cursor == <<offs, buf, len>>
sleb   == <<nodes, nodes_cnt, endpt>>
heap   == <<slebs, snods>>
vars   == <<leb, pc, args, cursor, sleb, ret, printed, heap>>

ZeroKey == [i \in 1 .. UBIFS_MAX_KEY_LEN |-> 0]   \* invalid_key_init

Key == [1 .. UBIFS_MAX_KEY_LEN -> Byte]

ScanNode == [sqnum : Nat, type : Byte, offs : CInt, len : CInt, key : Key]

-----------------------------------------------------------------------------
(***************************************************************************)
(* The caller starts a scan, and releases the list it was given.  The      *)
(* eraseblock does not change meanwhile.                                   *)
(***************************************************************************)
Call(o, q) ==
  /\ pc = "idle"
  /\ pc' = "start"
  /\ start' = o /\ quiet' = q
  /\ offs' = o /\ buf' = o /\ len' = LebSize - o
  /\ ret' = 0 /\ printed' = FALSE
  /\ UNCHANGED <<leb, sleb, heap>>

Release ==
  /\ pc = "done"
  /\ pc' = "destroy"
  /\ UNCHANGED <<leb, args, cursor, sleb, ret, printed, heap>>

-----------------------------------------------------------------------------
(* ubifs_start_scan. *)

AllocSleb ==
  /\ pc = "start"
  /\ pc' = "read"
  /\ slebs' = slebs + 1
  /\ nodes' = <<>> /\ nodes_cnt' = 0 /\ endpt' = 0
  /\ UNCHANGED <<leb, args, cursor, ret, printed, snods>>

AllocSlebFails ==
  /\ pc = "start"
  /\ pc' = "idle"
  /\ ret' = -ENOMEM
  /\ UNCHANGED <<leb, args, cursor, sleb, printed, heap>>

\* err is the result of ubifs_leb_read; the CRCs are relied on after -EBADMSG.
LebRead(err) ==
  /\ pc = "read"
  /\ err \in {0, -EBADMSG}
  /\ pc' = "loop"
  /\ UNCHANGED <<leb, args, cursor, sleb, ret, printed, heap>>

\* Mutant of the next definition: integrity errors are not ignored.
LebReadFailsOnAnyError(err) ==
  /\ pc = "read"
  /\ err # 0
  /\ pc' = "idle"
  /\ ret' = err
  /\ printed' = TRUE
  /\ slebs' = slebs - 1
  /\ UNCHANGED <<leb, args, cursor, sleb, snods>>

\* Mutant of the next definition: kfree(sleb) is missing.
LebReadFailsKeepsSleb(err) ==
  /\ pc = "read"
  /\ err \notin {0, -EBADMSG}
  /\ pc' = "idle"
  /\ ret' = err
  /\ printed' = TRUE
  /\ UNCHANGED <<leb, args, cursor, sleb, heap>>

LebReadFails(err) ==
  /\ pc = "read"
  /\ err \notin {0, -EBADMSG}
  /\ pc' = "idle"
  /\ ret' = err
  /\ printed' = TRUE
  /\ slebs' = slebs - 1
  /\ UNCHANGED <<leb, args, cursor, sleb, snods>>

-----------------------------------------------------------------------------
(* The two error exits of ubifs_scan. *)

Corrupted(msg) ==
  /\ pc' = "destroy"
  /\ ret' = -EUCLEAN
  /\ printed' = (printed \/ msg \/ ~quiet)
  /\ UNCHANGED <<leb, args, cursor, sleb, heap>>

\* Mutant of the next definition: the list is not destroyed.
ErrorLeaks(err) ==
  /\ pc' = "idle"
  /\ ret' = err
  /\ printed' = TRUE
  /\ UNCHANGED <<leb, args, cursor, sleb, heap>>

Error(err) ==
  /\ pc' = "destroy"
  /\ ret' = err
  /\ printed' = TRUE
  /\ UNCHANGED <<leb, args, cursor, sleb, heap>>

(* The loop over the nodes. *)

Looking == pc = "loop" /\ len >= 8 /\ ReadEnd(leb, buf, len) =< LebSize

Look == ubifs_scan_a_node(leb, buf, len, offs)

\* Mutant of the next definition: the pointer is not moved.
AdvanceForgetsBuf(n) ==
  /\ offs' = Plus(offs, n)
  /\ len' = Plus(len, -n)
  /\ UNCHANGED buf

\* Mutant of the next definition: the offset is not moved.
AdvanceForgetsOffs(n) ==
  /\ buf' = buf + n
  /\ len' = Plus(len, -n)
  /\ UNCHANGED offs

Advance(n) ==
  /\ offs' = Plus(offs, n)
  /\ buf' = buf + n
  /\ len' = Plus(len, -n)

SkipPadding ==
  /\ Looking
  /\ Look > 0
  /\ Advance(Look)
  /\ UNCHANGED <<leb, pc, args, sleb, ret, printed, heap>>

\* Mutant of the next definition: continue in place of break.
HitEmptySpaceContinues ==
  /\ Looking
  /\ Look = SCANNED_EMPTY_SPACE
  /\ UNCHANGED vars

HitEmptySpace ==
  /\ Looking
  /\ Look = SCANNED_EMPTY_SPACE
  /\ pc' = "end"
  /\ UNCHANGED <<leb, args, cursor, sleb, ret, printed, heap>>

key_read(l, from) == [i \in 1 .. UBIFS_MAX_KEY_LEN |-> l.byte[from + i - 1]]

Snod(l, b, o) ==
  LET ch == l.hdr[b]
  IN  [sqnum |-> ch.sqnum, type |-> ch.type, offs |-> o, len |-> ch.len,
       key |-> IF ch.type \in KeyedTypes
               THEN key_read(l, b + UBIFS_CH_SZ)
               ELSE ZeroKey]

AddSnod ==
  /\ Looking
  /\ Look = SCANNED_A_NODE
  /\ snods' = snods + 1
  /\ nodes' = Append(nodes, Snod(leb, buf, offs))
  /\ nodes_cnt' = nodes_cnt + 1
  /\ Advance(ALIGN(leb.hdr[buf].len, 8))
  /\ UNCHANGED <<leb, pc, args, endpt, ret, printed, slebs>>

AddSnodFails ==
  /\ Looking
  /\ Look = SCANNED_A_NODE
  /\ Error(-ENOMEM)

BadNode ==
  /\ Looking
  /\ Look \in {SCANNED_GARBAGE, SCANNED_A_CORRUPT_NODE, SCANNED_A_BAD_PAD_NODE}
  /\ Corrupted(TRUE)

UnknownCode ==
  /\ Looking
  /\ Look < SCANNED_A_BAD_PAD_NODE
  /\ Error(-EINVAL)

EndOfLeb ==
  /\ pc = "loop"
  /\ len < 8
  /\ pc' = "end"
  /\ UNCHANGED <<leb, args, cursor, sleb, ret, printed, heap>>

-----------------------------------------------------------------------------
(* Behind the loop: the end point and the empty space. *)

Misaligned ==
  /\ pc = "end"
  /\ offs % MinIoSize # 0
  /\ Corrupted(FALSE)

EndScan ==
  /\ pc = "end"
  /\ offs % MinIoSize = 0
  /\ endpt' = ALIGN(offs, MinIoSize)
  /\ pc' = "words"
  /\ UNCHANGED <<leb, args, cursor, nodes, nodes_cnt, ret, printed, heap>>

InBuffer == buf \in Addr

\* Mutant of the next definition: the words are counted, not compared.
FreeWordUnread == len > 4

FreeWord == len > 4 /\ AllFF(leb, buf, buf + 4)

SkipWord ==
  /\ pc = "words"
  /\ FreeWord
  /\ Advance(4)
  /\ UNCHANGED <<leb, pc, args, sleb, ret, printed, heap>>

WordsDone ==
  /\ pc = "words"
  /\ ~FreeWord
  /\ pc' = "bytes"
  /\ UNCHANGED <<leb, args, cursor, sleb, ret, printed, heap>>

SkipByte ==
  /\ pc = "bytes"
  /\ len # 0 /\ InBuffer /\ leb.byte[buf] = 255
  /\ Advance(1)
  /\ UNCHANGED <<leb, pc, args, sleb, ret, printed, heap>>

BadByte ==
  /\ pc = "bytes"
  /\ len # 0 /\ InBuffer /\ leb.byte[buf] # 255
  /\ Corrupted(FALSE)

ReturnSleb ==
  /\ pc = "bytes"
  /\ len = 0
  /\ pc' = "done"
  /\ UNCHANGED <<leb, args, cursor, sleb, ret, printed, heap>>

(* A read outside of the scan buffer has no defined outcome. *)
ReadOutside ==
  /\ \/ pc = "loop" /\ len >= 8 /\ ReadEnd(leb, buf, len) > LebSize
     \/ pc = "bytes" /\ len # 0 /\ ~InBuffer
  /\ pc' = "undefined"
  /\ UNCHANGED <<leb, args, cursor, sleb, ret, printed, heap>>

-----------------------------------------------------------------------------
(* ubifs_scan_destroy. *)

\* Mutant of the next definition: the node is freed and stays on the list.
DestroySnodOnList ==
  /\ pc = "destroy"
  /\ nodes # <<>>
  /\ snods' = snods - 1
  /\ UNCHANGED <<leb, pc, args, cursor, sleb, ret, printed, slebs>>

DestroySnod ==
  /\ pc = "destroy"
  /\ nodes # <<>>
  /\ nodes' = Tail(nodes)
  /\ snods' = snods - 1
  /\ UNCHANGED <<leb, pc, args, cursor, nodes_cnt, endpt, ret, printed, slebs>>

DestroySleb ==
  /\ pc = "destroy"
  /\ nodes = <<>>
  /\ pc' = "idle"
  /\ slebs' = slebs - 1
  /\ UNCHANGED <<leb, args, cursor, sleb, ret, printed, snods>>

-----------------------------------------------------------------------------
Init ==
  /\ leb \in Images
  /\ pc = "idle"
  /\ start = 0 /\ quiet = FALSE
  /\ offs = 0 /\ buf = 0 /\ len = 0
  /\ nodes = <<>> /\ nodes_cnt = 0 /\ endpt = 0
  /\ ret = 0 /\ printed = FALSE
  /\ slebs = 0 /\ snods = 0

Caller ==
  \/ \E o \in Starts, q \in BOOLEAN : Call(o, q)
  \/ Release

Scanner ==
  \/ AllocSleb \/ AllocSlebFails
  \/ \E err \in {0, -EBADMSG, -EIO} : LebRead(err) \/ LebReadFails(err)
  \/ SkipPadding \/ HitEmptySpace \/ AddSnod \/ AddSnodFails
  \/ BadNode \/ UnknownCode \/ EndOfLeb
  \/ Misaligned \/ EndScan
  \/ SkipWord \/ WordsDone \/ SkipByte \/ BadByte \/ ReturnSleb
  \/ ReadOutside
  \/ DestroySnod \/ DestroySleb

Next == Caller \/ Scanner

Spec == Init /\ [][Next]_vars

(***************************************************************************)
(* The scanner is straight-line code on the caller's thread: once called   *)
(* it keeps running.  Nothing obliges the caller to call or to release.    *)
(***************************************************************************)
FairSpec == Spec /\ WF_vars(Scanner)

-----------------------------------------------------------------------------
(***************************************************************************)
(* What a caller and a maintainer of scan.c rely on.                       *)
(***************************************************************************)

InScan == {"loop", "end", "words", "bytes", "done"}

\* Every variable holds a value the C object it stands for can hold.
TypeOK ==
  /\ IsLeb(leb)
  /\ pc \in InScan \cup {"idle", "start", "read", "destroy", "undefined"}
  /\ start \in 0 .. LebSize /\ quiet \in BOOLEAN
  /\ offs \in CInt /\ buf \in Int /\ len \in CInt
  /\ nodes \in Seq(ScanNode) /\ nodes_cnt \in Nat /\ endpt \in Int
  /\ ret \in {0, -ENOMEM, -EINVAL, -EUCLEAN, -EIO} /\ printed \in BOOLEAN
  /\ slebs \in 0 .. 1 /\ snods \in Nat

(***************************************************************************)
(* The scan keeps its position three times over (offs, buf and len) and    *)
(* moves the three separately in five places.  They never disagree, the    *)
(* position stays in the eraseblock and on an 8-byte boundary while nodes  *)
(* are looked at, and no read leaves the scan buffer.                      *)
(***************************************************************************)
CursorInSync ==
  /\ pc # "undefined"
  /\ pc \in InScan => /\ buf = offs
                      /\ offs + len = LebSize
                      /\ start =< offs /\ offs =< LebSize
  /\ pc \in {"loop", "end"} => offs % 8 = 0

(***************************************************************************)
(* Every object allocated is reachable by whoever must free it, through    *)
(* each of the error exits, a failed read and a failed allocation half way *)
(* through the list included: between calls nothing is left allocated, and *)
(* while a list is held its node count is the number of nodes on it and    *)
(* the number of nodes allocated.                                          *)
(***************************************************************************)
HeapBalanced ==
  /\ slebs = (IF pc \in {"idle", "start"} THEN 0 ELSE 1)
  /\ snods = (IF pc \in {"idle", "start"} THEN 0 ELSE Len(nodes))
  /\ pc \in InScan => nodes_cnt = Len(nodes)

Intact(l, o) ==
  /\ o \in DOMAIN l.hdr
  /\ l.hdr[o].crc = ut_crc32(l.hdr[o])
  /\ l.hdr[o].len \in UBIFS_CH_SZ .. LebSize - o

\* How far the nodes found so far may reach.
Frontier == IF pc \in {"loop", "end"} THEN offs ELSE endpt

(***************************************************************************)
(* The list built by ubifs_add_snod mirrors the eraseblock: each entry is  *)
(* an intact node that is not padding, recorded with the sequence number,  *)
(* length and key it has on flash; the entries are in flash order and none *)
(* overlaps the next one or the position of the scan.                      *)
(***************************************************************************)
ListMirrorsFlash ==
  pc \in InScan =>
    \A i \in 1 .. Len(nodes) :
      /\ start =< nodes[i].offs
      /\ Intact(leb, nodes[i].offs)
      /\ nodes[i] = Snod(leb, nodes[i].offs, nodes[i].offs)
      /\ nodes[i].type # UBIFS_PAD_NODE
      /\ nodes[i].offs + nodes[i].len =<
           (IF i < Len(nodes) THEN nodes[i + 1].offs ELSE Frontier)

(***************************************************************************)
(* A returned list can be appended to: the end point lies on a minimal I/O *)
(* unit, behind everything that was scanned, and every byte from there to  *)
(* the end of the eraseblock is erased.                                    *)
(***************************************************************************)
EndpointIsWritable ==
  pc = "done" =>
    /\ endpt \in start .. LebSize
    /\ endpt % MinIoSize = 0
    /\ AllFF(leb, endpt, LebSize)

(***************************************************************************)
(* Each iteration of the three loops consumes at least one byte and none   *)
(* consumes more than is left, whatever lengths the flash contains.        *)
(***************************************************************************)
LoopsConsume ==
  [][(pc \in {"loop", "words", "bytes"} /\ pc' = pc) => (0 =< len' /\ len' < len)]_vars

(***************************************************************************)
(* No step of the scanner goes unpaid: the bytes left, the nodes on the    *)
(* list and the parts of the code still ahead add up to a number that each *)
(* of them lowers, in the loops, through every exit and while a list is    *)
(* destroyed.  A call, and a release, therefore takes no more steps than   *)
(* it had to begin with.                                                   *)
(***************************************************************************)
Ahead == [start |-> 7, read |-> 6, loop |-> 5, end |-> 4, words |-> 3, bytes |-> 2,
          done |-> 1, destroy |-> 1, idle |-> 0, undefined |-> 0]

WorkLeft == len + Len(nodes) + Ahead[pc]

EveryStepCounts ==
  [][pc \notin {"idle", "done"} => WorkLeft' \in 0 .. WorkLeft - 1]_vars

(***************************************************************************)
(* Every call returns, whatever the eraseblock contains.                   *)
(***************************************************************************)
EveryCallReturns == (pc = "start") ~> (pc \in {"idle", "done"})

(***************************************************************************)
(* What comments and documents of the repository say, and the code does    *)
(* not do.                                                                 *)
(***************************************************************************)

\* "@quiet: print no messages" (scan.c:244): a quiet scan that is not stopped
\* by a failed read or allocation leaves the log alone.
QuietIsSilent ==
  (quiet /\ ret = -EUCLEAN) => ~printed

\* Padding without a header whose length is a multiple of 8 is skipped, and
\* only other lengths are garbage (README.md:81, the design document's 7.2).
AlignedPaddingAccepted ==
  Looking =>
    \A n \in 1 .. len :
      (n % 8 = 0 /\ PaddingRun(leb, buf, len, n)) => Look = n

\* A pad node for which node + padding runs past the end of the LEB is
\* rejected (test_scan_a_node.c:93): whatever the scanner skips is there.
PadOverrunRejected ==
  (Looking /\ Look > 0) => Look =< len

(***************************************************************************)
(* What is assumed of the eraseblock where the code itself does not check  *)
(* it: a pad node holds its pad_len and a keyed node its key (the kernel's *)
(* per-type length ranges, which the harness leaves out), and pad_len is   *)
(* not so large that the sums of ScanPadNode leave the range of int.       *)
(***************************************************************************)
WellRanged(l) ==
  \A o \in DOMAIN l.hdr :
    /\ l.hdr[o].type = UBIFS_PAD_NODE => l.hdr[o].len >= UBIFS_PAD_NODE_SZ
    /\ l.hdr[o].type \in KeyedTypes => l.hdr[o].len >= UBIFS_CH_SZ + UBIFS_MAX_KEY_LEN

PadLenFits(l) == \A o \in DOMAIN l.hdr : l.hdr[o].pad_len =< IntMax - LebSize

Tame == \A l \in Images : WellRanged(l) /\ PadLenFits(l)
=============================================================================
