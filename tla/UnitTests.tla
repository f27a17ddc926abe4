----------------------------- MODULE UnitTests ------------------------------
(***************************************************************************)
(* The tests of test_scan_a_node.c as data: the buffer each prepares, the  *)
(* arguments it passes and the code it wants; and the scanner as the build *)
(* under test has it, which is either the code as it stands or one of the  *)
(* edits a mutation check makes to it.                                     *)
(*                                                                         *)
(* LebSize stands for TEST_LEB_SIZE (131072) and also for the 4096 bytes   *)
(* of the integration test.  All three are multiples of 8 and hold every   *)
(* offset used, which is all that decides an outcome.                      *)
(***************************************************************************)
EXTENDS ScanANode, Sequences

-----------------------------------------------------------------------------
(***************************************************************************)
(* The builds.  "and3", "ge" and "neq" are the sed expressions of the      *)
(* Makefile; "unbounded" and "unsigned" drop the comparison with the LEB   *)
(* size and the comparison of pad_len with 0 from the same condition; and  *)
(* "unmatched" is the result of a sed expression that no longer matches.   *)
(***************************************************************************)
PadEdits == {"and3", "ge", "unbounded", "unsigned"}

Builds == {"scan.c", "unmatched", "neq"} \cup PadEdits

EditedPadNode(build, ch, offs) ==
  LET total    == Plus(ch.len, ch.pad_len)
      end      == Plus(Plus(offs, ch.len), ch.pad_len)
      rejected == \/ ch.pad_len < 0          /\ build # "unsigned"
                  \/ end > LebSize           /\ build # "unbounded"
                  \/ end = LebSize           /\ build = "ge"
                  \/ total % (IF build = "and3" THEN 4 ELSE 8) # 0
  IN  IF rejected THEN SCANNED_A_BAD_PAD_NODE ELSE total

\* With != for == the loop counts the bytes in front of the first padding byte.
EditedPaddingBytes(l, buf, len) ==
  LET max_pad_len == IF UBIFS_PAD_NODE_SZ < len THEN UBIFS_PAD_NODE_SZ ELSE len
      Other(i)    == i = max_pad_len \/ l.byte[buf + i] = UBIFS_PADDING_BYTE
      pad_len     == CHOOSE n \in 0 .. max_pad_len :
                       Other(n) /\ \A i \in 0 .. n - 1 : ~Other(i)
  IN  IF pad_len = 0 \/ pad_len % 8 # 0 THEN SCANNED_GARBAGE ELSE pad_len

ReachesPadNode(l, buf, len) ==
  /\ buf \in DOMAIN l.hdr /\ len >= UBIFS_CH_SZ
  /\ ~ubifs_check_node(l, buf, len)
  /\ l.hdr[buf].type = UBIFS_PAD_NODE

ReachesPaddingBytes(l, buf) == buf \notin DOMAIN l.hdr /\ ~AllFF(l, buf, buf + 4)

scan_a_node(build, l, buf, len, offs) ==
  IF build \in PadEdits /\ ReachesPadNode(l, buf, len)
  THEN EditedPadNode(build, l.hdr[buf], offs)
  ELSE IF build = "neq" /\ ReachesPaddingBytes(l, buf)
  THEN EditedPaddingBytes(l, buf, len)
  ELSE ubifs_scan_a_node(l, buf, len, offs)

-----------------------------------------------------------------------------
(* The tests of one call, in the order of main(). *)

Call(name, leb, len, offs, want) ==
  [name |-> name, leb |-> leb, len |-> len, offs |-> offs, want |-> want]

PadNode(pad_len) == ut_make_pad_node(Blank, 0, UBIFS_PAD_NODE_SZ, pad_len, 5)
CsNode           == ut_make_node(Blank, 0, UBIFS_CS_NODE, UBIFS_CS_NODE_SZ, 7)

\* Nothing of the header but its magic is written.
OnlyMagic == PutHeader(Blank, 0, [SealedHeader(255, -1, 0, -1) EXCEPT !.crc = <<0, 0, 0>>])

DamagedCrc == [CsNode EXCEPT !.hdr[0].crc = <<0, 0, 0>>]

\* Mutant of the next definition: the pad node ends eight bytes early.
EndsEarly ==
  Call("pad_node_ends_exactly_at_leb_end", PadNode(36), LebSize,
       LebSize - (UBIFS_PAD_NODE_SZ + 36) - 8, UBIFS_PAD_NODE_SZ + 36)

EndsExactlyAtLebEnd ==
  Call("pad_node_ends_exactly_at_leb_end", PadNode(36), LebSize,
       LebSize - (UBIFS_PAD_NODE_SZ + 36), UBIFS_PAD_NODE_SZ + 36)

CallTests ==
  <<Call("empty_space", Blank, LebSize, 64, SCANNED_EMPTY_SPACE),
    Call("raw_padding_bytes", Memset(Blank, 0, UBIFS_PADDING_BYTE, 16), LebSize, 0, 16),
    Call("raw_padding_misaligned", Memset(Blank, 0, UBIFS_PADDING_BYTE, 10), LebSize, 0,
         SCANNED_GARBAGE),
    Call("garbage", Memset(Blank, 0, 18, 4), LebSize, 0, SCANNED_GARBAGE),
    Call("len_too_small", OnlyMagic, UBIFS_CH_SZ - 1, 0, SCANNED_GARBAGE),
    Call("valid_pad_node", PadNode(36), LebSize, 256, UBIFS_PAD_NODE_SZ + 36),
    Call("pad_node_overruns_leb", PadNode(LebSize), LebSize, 256, SCANNED_A_BAD_PAD_NODE),
    Call("pad_node_negative_pad_len", PadNode(-(IntMax + 1)), LebSize, 256,
         SCANNED_A_BAD_PAD_NODE),
    Call("pad_node_misaligned_total", PadNode(2), LebSize, 256, SCANNED_A_BAD_PAD_NODE),
    Call("pad_node_36_bytes_is_misaligned", PadNode(8), LebSize, 256,
         SCANNED_A_BAD_PAD_NODE),
    EndsExactlyAtLebEnd,
    Call("corrupt_header_crc", DamagedCrc, LebSize, 512, SCANNED_A_CORRUPT_NODE),
    Call("valid_plain_node", CsNode, LebSize, 512, SCANNED_A_NODE)>>

-----------------------------------------------------------------------------
(* test_ubifs_scan_collects_nodes: a commit start node, a pad node, another. *)

ScanTest == "ubifs_scan_collects_nodes"

ScanTestLeb ==
  LET cs1 == ut_make_node(Blank, 0, UBIFS_CS_NODE, UBIFS_CS_NODE_SZ, 11)
      pad == ut_make_pad_node(cs1, 32, UBIFS_PAD_NODE_SZ, 4, 12)
  IN  ut_make_node(pad, 64, UBIFS_CS_NODE, UBIFS_CS_NODE_SZ, 13)

\* What ubifs_scan makes of the rest of the eraseblock behind offs: the nodes
\* found and the end point, unless it fails; scan gives it for what follows.
CollectedFrom(build, l, scan, offs) ==
  LET n == IF LebSize - offs < 8 THEN SCANNED_EMPTY_SPACE
           ELSE scan_a_node(build, l, offs, LebSize - offs, offs)
      rest == scan[offs + ALIGN(l.hdr[offs].len, 8)]
  IN  CASE n = SCANNED_EMPTY_SPACE ->
             [ok |-> offs % MinIoSize = 0 /\ AllFF(l, offs, LebSize),
              nodes |-> <<>>, endpt |-> offs]
        [] n = SCANNED_A_NODE        -> [rest EXCEPT !.nodes = <<offs>> \o @]
        [] n \in 1 .. LebSize - offs -> scan[offs + n]
        [] OTHER -> [ok |-> FALSE, nodes |-> <<>>, endpt |-> 0]

Collected(build, l) ==
  LET scan[offs \in 0 .. LebSize] == CollectedFrom(build, l, scan, offs)
  IN  scan[0]

\* The checks of the i-th node found.
NodeChecks(found, i, offs, sqnum) ==
  IF i > Len(found.nodes) THEN <<FALSE, FALSE>>
  ELSE <<found.nodes[i] = offs, ScanTestLeb.hdr[found.nodes[i]].sqnum = sqnum>>

FirstIsCsNode(found) ==
  /\ found.nodes # <<>>
  /\ ScanTestLeb.hdr[found.nodes[1]].type = UBIFS_CS_NODE

\* The outcomes of the test's checks.  It returns after the first when the scan
\* has failed.  The second is that of lnum, which is handed through.
ScanTestChecks(build) ==
  LET found == Collected(build, ScanTestLeb)
  IN  IF ~found.ok THEN <<FALSE>>
      ELSE <<TRUE, TRUE, Len(found.nodes) = 2, FirstIsCsNode(found)>>
           \o NodeChecks(found, 1, 0, 11) \o NodeChecks(found, 2, 64, 13)
           \o <<found.endpt = 64 + UBIFS_CS_NODE_SZ>>

-----------------------------------------------------------------------------
(* main(): the outcomes of the checks of its i-th test in a build. *)

Tests == Len(CallTests) + 1

TestName(i) == IF i = Tests THEN ScanTest ELSE CallTests[i].name

Checks(build, i) ==
  IF i = Tests THEN ScanTestChecks(build)
  ELSE LET t == CallTests[i]
       IN  <<scan_a_node(build, t.leb, 0, t.len, t.offs) = t.want>>
=============================================================================
