---------------------------- MODULE ScanHarness -----------------------------
(***************************************************************************)
(* A writer and the scanner on one buffer: the buffer is erased, filled    *)
(* with ut_make_node, ut_make_pad_node and memset as the integration test  *)
(* fills it, scanned, written to behind the end point while the list is    *)
(* held, scanned again, erased and used anew.  The actions of UbifsScan    *)
(* are taken as they are.                                                  *)
(*                                                                         *)
(* Each call of a builder is a step.  Nodes lie on 8-byte boundaries, and  *)
(* before a scan the last minimal I/O unit is full or has been padded.     *)
(***************************************************************************)
EXTENDS UbifsScan, ErrPtr, Crc32

CONSTANTS
  Kinds,       \* the nodes that are written: records [type, len]
  SlebAddrs,   \* addresses malloc may return
  Damages      \* sets of bits of a header that may get flipped together

\* A keyed node holds its key.
ASSUME KindsAssumption ==
  \A k \in Kinds :
    /\ k.type \in Byte \ {UBIFS_PAD_NODE}
    /\ k.len \in UBIFS_CH_SZ .. LebSize
    /\ k.type \in KeyedTypes => k.len >= UBIFS_CH_SZ + UBIFS_MAX_KEY_LEN

\* malloc never returns the topmost page of the address space.
ASSUME SlebAddrsAssumption == SlebAddrs \subseteq 1 .. PtrSpan - MAX_ERRNO - 1

VARIABLES
  tail,       \* offs of the test: where the writer has got to
  written,    \* history: the nodes written since the buffer was erased
  appended    \* has the writer used the end point of the list held?

hvars == <<vars, tail, written, appended>>

-----------------------------------------------------------------------------
\* With a new list in hand the writer goes on at its end point.
At == IF pc = "done" /\ ~appended THEN endpt ELSE tail

\* What the steps of the writer have in common, up to offset end.
Write(end) ==
  /\ pc \in {"idle", "done"}
  /\ end =< LebSize
  /\ tail' = end
  /\ appended' = (pc = "done")
  /\ UNCHANGED <<pc, args, cursor, sleb, ret, printed, heap>>

Sqnum == Len(written) + 1

WriteNode(k) ==
  /\ Write(ALIGN(At + k.len, 8))
  /\ leb' = ut_make_node(leb, At, k.type, k.len, Sqnum)
  /\ written' = Append(written, [sqnum |-> Sqnum, type |-> k.type, offs |-> At,
                                 len |-> k.len, key |-> ZeroKey])

\* Mutant of the next definition: the pad node is given the whole gap.
FillTooFar(l, from, to, sqnum) ==
  IF to - from >= UBIFS_PAD_NODE_SZ
  THEN ut_make_pad_node(l, from, UBIFS_PAD_NODE_SZ, to - from, sqnum)
  ELSE Memset(l, from, UBIFS_PADDING_BYTE, to - from)

\* A pad node, or padding bytes where there is no room for one.
Fill(l, from, to, sqnum) ==
  IF to - from >= UBIFS_PAD_NODE_SZ
  THEN ut_make_pad_node(l, from, UBIFS_PAD_NODE_SZ, to - from - UBIFS_PAD_NODE_SZ, sqnum)
  ELSE Memset(l, from, UBIFS_PADDING_BYTE, to - from)

\* Up to the next unit.
WritePadding(to) ==
  /\ to % MinIoSize = 0 /\ to - At \in 1 .. MinIoSize - 1
  /\ Write(to)
  /\ leb' = Fill(leb, At, to, Sqnum)
  /\ UNCHANGED written

\* Mutant of the next definition: the buffer is given up before the list.
EraseHeld ==
  /\ pc \in {"idle", "done"}
  /\ leb' = Blank
  /\ tail' = 0 /\ written' = <<>>
  /\ UNCHANGED <<pc, args, cursor, sleb, ret, printed, heap, appended>>

Erase ==
  /\ pc = "idle"
  /\ leb' = Blank
  /\ tail' = 0 /\ written' = <<>>
  /\ UNCHANGED <<pc, args, cursor, sleb, ret, printed, heap, appended>>

\* Where a scan may start: at any node that was written, or behind them all.
Bounds == {tail} \cup {written[i].offs : i \in 1 .. Len(written)}

ScanFrom(o) ==
  /\ tail % MinIoSize = 0 /\ o \in Bounds
  /\ Call(o, TRUE)
  /\ appended' = FALSE
  /\ UNCHANGED <<tail, written>>

HInit ==
  /\ Init
  /\ tail = 0 /\ written = <<>> /\ appended = FALSE

HNext ==
  \/ \E k \in Kinds : WriteNode(k)
  \/ \E to \in Addr \cup {LebSize} : WritePadding(to)
  \/ Erase
  \/ \E o \in Starts : ScanFrom(o)
  \/ (Release \/ Scanner) /\ UNCHANGED <<tail, written, appended>>

HSpec == HInit /\ [][HNext]_hvars

-----------------------------------------------------------------------------
\* The pointer ubifs_scan returns when the list is at address a.
Returned(a) == IF ret = 0 THEN a ELSE ERR_PTR(ret)

\* What the CRC of a header covers, 16 bytes behind magic and crc: sqnum,
\* len, node_type, and then zeros.  No number here needs more than 31 bits.
Covered == UBIFS_CH_SZ - 8

BitsOf(x) == {k \in 0 .. 30 : (x \div 2 ^ k) % 2 = 1}

HeaderBits(h) ==
  BitsOf(h.sqnum) \cup {64 + k : k \in BitsOf(h.len)} \cup {96 + k : k \in BitsOf(h.type)}

\* Does ubifs_check_node come next, with a header that ut_make_node wrote?
Checking == Looking /\ buf \in DOMAIN leb.hdr

-----------------------------------------------------------------------------
(***************************************************************************)
(* What was written is what is read: a list behind which nothing has been  *)
(* written holds the nodes written from its start on, in order, with their *)
(* fields, and ends where the next node may go, however often the buffer   *)
(* has been scanned and written to behind the end point of such a list.    *)
(***************************************************************************)
ReadBack ==
  (pc = "done" /\ ~appended) =>
    /\ endpt = tail
    /\ \E k \in 1 .. Len(written) + 1 :
         /\ nodes = SubSeq(written, k, Len(written))
         /\ \A i \in 1 .. Len(written) : i >= k <=> written[i].offs >= start

(***************************************************************************)
(* What the builders write is never taken for corrupt: a scan of the test  *)
(* flash (ut_support.c:72-104) can fail for want of memory or for the      *)
(* flash, never for what it finds.                                         *)
(***************************************************************************)
NeverRefused == ret \notin {-EUCLEAN, -EINVAL}

(***************************************************************************)
(* snod->node (scan.c:196) points into the buffer, which the list does not *)
(* own.  As long as the list is held, what its nodes point to is what they *)
(* were made from, a node written behind the end point included.           *)
(***************************************************************************)
HeldNodesFresh ==
  pc = "done" =>
    \A i \in 1 .. Len(nodes) :
      Intact(leb, nodes[i].offs) /\ nodes[i] = Snod(leb, nodes[i].offs, nodes[i].offs)

(***************************************************************************)
(* From the pointer alone (test_scan_a_node.c:188-192) the caller knows    *)
(* how the call has ended: IS_ERR says whether anything went wrong and     *)
(* PTR_ERR what it was, whatever went wrong and wherever malloc has put    *)
(* the list he has to destroy otherwise.                                   *)
(***************************************************************************)
CallerKnows ==
  (pc = "done" \/ (pc = "idle" /\ ret # 0)) =>
    \A a \in SlebAddrs :
      /\ IS_ERR(Returned(a)) <=> ret # 0
      /\ ret # 0 => PTR_ERR(Returned(a)) = ret

(***************************************************************************)
(* "CRC-32 (poly 0xEDB88320, init/final-xor 0xFFFFFFFF)" (ut_support.c:9): *)
(* for the header looked at the table and the loop over its last 16 bytes  *)
(* compute the remainder.                                                  *)
(***************************************************************************)
CrcIsRemainder ==
  Checking =>
    LET b == HeaderBits(leb.hdr[buf]) IN Crc(b, Covered) = ReferenceCrc(b, Covered)

(***************************************************************************)
(* ubifs_check_node (ut_support.c:64-67) tells the header looked at from   *)
(* any other one in the buffer and from what any of the Damages makes of   *)
(* it, as FlashLeb, where a CRC is what it was computed from, takes for    *)
(* granted of every damage.                                                *)
(***************************************************************************)
DamageFound ==
  Checking =>
    LET h   == leb.hdr[buf]
        b   == HeaderBits(h)
        crc == Crc(b, Covered)
    IN  /\ \A o \in DOMAIN leb.hdr :
             Crc(HeaderBits(leb.hdr[o]), Covered) = crc <=> ut_crc32(leb.hdr[o]) = ut_crc32(h)
        /\ \A d \in Damages : Crc(Xor(b, d), Covered) # crc
=============================================================================
