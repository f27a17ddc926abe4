---------------------------- MODULE MCUbifsScan -----------------------------
(***************************************************************************)
(* Eraseblocks for UbifsScan: every sequence of at most MaxPieces pieces   *)
(* that fits, laid out from offset 0 with the harness's own writes, the    *)
(* rest of the eraseblock being blank.                                     *)
(***************************************************************************)
EXTENDS ScanRefinement, SequencesExt

CONSTANTS Pieces,      \* the kinds of piece an image is made of
          MaxPieces

\* Bytes a piece takes up.
Size(p) ==
  CASE p = "cs"      -> 32
    [] p = "ino"     -> 40     \* a keyed node, its key on flash
    [] p = "odd"     -> 32     \* 28 bytes long, so followed by 4 more
    [] p = "badcrc"  -> 32
    [] p = "toolong" -> 32     \* claims to be longer than the eraseblock
    [] p = "pad4"    -> 32     \* a pad node and 4 padded bytes
    [] p = "pad36"   -> 64
    [] p = "padover" -> 32     \* claims more padding than the eraseblock holds
    [] p = "padneg"  -> 32     \* pad_len has its top bit set
    [] p = "pad2"    -> 32     \* node and padding are not a multiple of 8
    [] p = "wrap"    -> 32     \* node_len + pad_len is IntMax + 1
    [] p = "leap"    -> 32     \* offs + node_len + pad_len exceeds IntMax
    [] p = "shortkey" -> 24    \* a keyed node without room for its key
    [] p = "raw8"    -> 8
    [] p = "raw16"   -> 16
    [] p = "raw24"   -> 24
    [] p = "raw10"   -> 16
    [] p = "raw32"   -> 32
    [] p = "junk"    -> 8
    [] p = "gap"     -> 8      \* left blank
    [] p = "stub"    -> 8      \* the magic of a header that was never completed

Damage(l, o) == [l EXCEPT !.hdr[o].sqnum = @ + 1]   \* the CRC no longer matches

Claim(l, o, n) == PutHeader(l, o, SealedHeader(UBIFS_CS_NODE, n, o, 0))

Put(l, o, p) ==
  CASE p = "cs"      -> ut_make_node(l, o, UBIFS_CS_NODE, 32, o)
    [] p = "ino"     -> Memset(ut_make_node(l, o, UBIFS_INO_NODE, 40, o), o + 24, 7, 16)
    [] p = "odd"     -> ut_make_node(l, o, UBIFS_CS_NODE, 28, o)
    [] p = "badcrc"  -> Damage(ut_make_node(l, o, UBIFS_CS_NODE, 32, o), o)
    [] p = "toolong" -> Claim(ut_make_node(l, o, UBIFS_CS_NODE, 32, o), o, LebSize + 8)
    [] p = "pad4"    -> ut_make_pad_node(l, o, 28, 4, o)
    [] p = "pad36"   -> ut_make_pad_node(l, o, 28, 36, o)
    [] p = "padover" -> ut_make_pad_node(l, o, 28, LebSize + 4, o)
    [] p = "padneg"  -> ut_make_pad_node(l, o, 28, -(IntMax + 1), o)
    [] p = "pad2"    -> ut_make_pad_node(l, o, 28, 2, o)
    [] p = "wrap"    -> ut_make_pad_node(l, o, 28, IntMax - 27, o)
    [] p = "leap"    -> ut_make_pad_node(l, o, 28, IntMax - 35, o)
    [] p = "shortkey" -> ut_make_node(l, o, UBIFS_INO_NODE, 24, o)
    [] p = "raw8"    -> Memset(l, o, UBIFS_PADDING_BYTE, 8)
    [] p = "raw16"   -> Memset(l, o, UBIFS_PADDING_BYTE, 16)
    [] p = "raw24"   -> Memset(l, o, UBIFS_PADDING_BYTE, 24)
    [] p = "raw10"   -> Memset(l, o, UBIFS_PADDING_BYTE, 10)
    [] p = "raw32"   -> Memset(l, o, UBIFS_PADDING_BYTE, 32)
    [] p = "junk"    -> Memset(l, o, 18, 8)
    [] p = "gap"     -> l
    [] p = "stub"    -> Claim(l, o, 24)

\* The image so far and the offset at which the next piece goes.
Lay(acc, p) == [leb |-> Put(acc.leb, acc.end, p), end |-> acc.end + Size(p)]

Layout(ps) == FoldLeft(Lay, [leb |-> Blank, end |-> 0], ps)

SizeOf(ps) == FoldLeft(LAMBDA n, p : n + Size(p), 0, ps)

MCImages ==
  {Layout(ps).leb : ps \in {qs \in BoundedSeq(Pieces, MaxPieces) : SizeOf(qs) =< LebSize}}
=============================================================================
