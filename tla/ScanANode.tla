----------------------------- MODULE ScanANode ------------------------------
(***************************************************************************)
(* ubifs_scan_a_node() and the two functions it delegates to, as functions *)
(* of the image and of the arguments.  buf is the position of the pointer  *)
(* in the scan buffer and offs the offset the caller claims for it: the C  *)
(* function is given both and compares only offs with the LEB size.        *)
(***************************************************************************)
EXTENDS FlashLeb

\* The first n bytes, and no more of the first max, are padding bytes.
PaddingRun(l, buf, max, n) ==
  /\ \A i \in 0 .. n - 1 : l.byte[buf + i] = UBIFS_PADDING_BYTE
  /\ n < max => l.byte[buf + n] # UBIFS_PADDING_BYTE

\* Mutant of the next definition: without the test of the low three bits.
scan_padding_bytes_any(l, buf, len) ==
  LET max_pad_len == IF UBIFS_PAD_NODE_SZ < len THEN UBIFS_PAD_NODE_SZ ELSE len
      pad_len     == {n \in 1 .. max_pad_len : PaddingRun(l, buf, max_pad_len, n)}
  IN  IF pad_len = {} THEN SCANNED_GARBAGE ELSE CHOOSE n \in pad_len : TRUE

\* The number of leading padding bytes, or SCANNED_GARBAGE.
scan_padding_bytes(l, buf, len) ==
  LET max_pad_len == IF UBIFS_PAD_NODE_SZ < len THEN UBIFS_PAD_NODE_SZ ELSE len
      pad_len     == {n \in 0 .. max_pad_len : PaddingRun(l, buf, max_pad_len, n)}
      skippable   == {n \in pad_len : n # 0 /\ n % 8 = 0}
  IN  IF skippable = {} THEN SCANNED_GARBAGE ELSE CHOOSE n \in skippable : TRUE

\* Mutant of the next definition: the header CRC is not compared.
ubifs_check_node_nocrc(l, buf, len) ==
  l.hdr[buf].len < UBIFS_CH_SZ \/ l.hdr[buf].len > len

\* The stand-in for io.c: TRUE when the node is to be rejected.
ubifs_check_node(l, buf, len) ==
  LET ch == l.hdr[buf]
  IN  \/ ch.len < UBIFS_CH_SZ
      \/ ch.len > len
      \/ ch.crc # ut_crc32(ch)

\* Mutant of the next definition: without the comparison with the LEB size.
ScanPadNodeUnbounded(ch, offs) ==
  IF ch.pad_len < 0 \/ Plus(ch.len, ch.pad_len) % 8 # 0
  THEN SCANNED_A_BAD_PAD_NODE
  ELSE Plus(ch.len, ch.pad_len)

\* The branch for a pad node whose header has passed the check.
ScanPadNode(ch, offs) ==
  LET total == Plus(ch.len, ch.pad_len)
  IN  IF \/ ch.pad_len < 0
         \/ Plus(Plus(offs, ch.len), ch.pad_len) > LebSize
         \/ total % 8 # 0
      THEN SCANNED_A_BAD_PAD_NODE
      ELSE total

ubifs_scan_a_node(l, buf, len, offs) ==
  IF AllFF(l, buf, buf + 4)                          THEN SCANNED_EMPTY_SPACE
  ELSE IF buf \notin DOMAIN l.hdr                    THEN scan_padding_bytes(l, buf, len)
  ELSE IF len < UBIFS_CH_SZ                          THEN SCANNED_GARBAGE
  ELSE IF ubifs_check_node(l, buf, len)              THEN SCANNED_A_CORRUPT_NODE
  ELSE IF l.hdr[buf].type = UBIFS_PAD_NODE           THEN ScanPadNode(l.hdr[buf], offs)
  ELSE SCANNED_A_NODE

(***************************************************************************)
(* One past the last byte of the buffer that scanning a node at buf, and   *)
(* recording it, reads.  The check above lets through a pad node too short *)
(* for its pad_len and a keyed node too short for its key.                 *)
(***************************************************************************)
ReadEnd(l, buf, len) ==
  IF buf \notin DOMAIN l.hdr \/ len < UBIFS_CH_SZ \/ ubifs_check_node(l, buf, len)
  THEN buf + 4
  ELSE IF l.hdr[buf].type = UBIFS_PAD_NODE THEN buf + UBIFS_PAD_NODE_SZ
  ELSE IF l.hdr[buf].type \in KeyedTypes   THEN buf + UBIFS_CH_SZ + UBIFS_MAX_KEY_LEN
  ELSE buf + UBIFS_CH_SZ
=============================================================================
