------------------------------ MODULE FlashLeb ------------------------------
(***************************************************************************)
(* The contents of one logical eraseblock, as the scan buffer holds them,  *)
(* and the writes with which the test harness fills such a buffer.         *)
(*                                                                         *)
(* An image has two parts.  byte gives every byte its value.  hdr gives,   *)
(* for every offset at which the four bytes are UBIFS_NODE_MAGIC, the      *)
(* fields a reader decodes there; their encoding into bytes is abstracted  *)
(* away, since nothing reads the inside of a header byte by byte.  The     *)
(* bytes of a header other than its magic are therefore zero in byte.      *)
(***************************************************************************)
EXTENDS UbifsMedia

CONSTANTS LebSize,     \* c->leb_size
          MinIoSize    \* c->min_io_size

ASSUME GeometryAssumption ==
  /\ LebSize \in Nat \ {0} /\ LebSize % 8 = 0 /\ LebSize =< IntMax
  /\ \E k \in 3 .. 16 : MinIoSize = 2 ^ k
  /\ MinIoSize \in Nat \ {0} /\ MinIoSize % 8 = 0

Addr == 0 .. LebSize - 1
Byte == 0 .. 255

FirstMagicByte == 49   \* 0x31, the first byte of 0x06101831 in flash order

(***************************************************************************)
(* The header fields the scanner decodes.  len and pad_len are u32 on      *)
(* flash and int once decoded.  pad_len is the word after the common       *)
(* header, which only pad nodes give a meaning.  crc is what the CRC field *)
(* was computed from: the CRC is taken to be injective on the fields it    *)
(* covers, so a header is damaged exactly when the two differ.             *)
(***************************************************************************)
Header == [type    : Byte,
           len     : CInt,
           sqnum   : Nat,
           crc     : Nat \X CInt \X Byte,
           pad_len : CInt]

ut_crc32(h) == <<h.sqnum, h.len, h.type>>

IsLeb(l) ==
  /\ l.byte \in [Addr -> Byte]
  /\ DOMAIN l.hdr \subseteq Addr
  /\ \A o \in DOMAIN l.hdr : l.hdr[o] \in Header /\ l.byte[o] = FirstMagicByte

AllFF(l, from, to) == \A a \in from .. to - 1 : l.byte[a] = 255

-----------------------------------------------------------------------------
(***************************************************************************)
(* Writing a buffer: memset, ut_make_node and ut_make_pad_node.  A write   *)
(* replaces every header it touches (the harness never overwrites part of  *)
(* one).                                                                   *)
(***************************************************************************)
Blank == [byte |-> [a \in Addr |-> 255], hdr |-> [o \in {} |-> 0]]

Memset(l, offs, b, n) ==
  LET written == offs .. offs + n - 1
      kept    == {o \in DOMAIN l.hdr : (o .. o + UBIFS_CH_SZ - 1) \cap written = {}}
  IN  [byte |-> [a \in Addr |-> IF a \in written THEN b ELSE l.byte[a]],
       hdr  |-> [o \in kept |-> l.hdr[o]]]

PutHeader(l, offs, h) ==
  [byte |-> [l.byte EXCEPT ![offs] = FirstMagicByte],
   hdr  |-> [o \in DOMAIN l.hdr \cup {offs} |-> IF o = offs THEN h ELSE l.hdr[o]]]

\* A header whose CRC field agrees with its other fields.
SealedHeader(type, node_len, sqnum, pad_len) ==
  [type |-> type, len |-> node_len, sqnum |-> sqnum,
   crc |-> <<sqnum, node_len, type>>, pad_len |-> pad_len]

\* Mutant of the next definition: the node is not cleared first.
UtMakeNodeNoMemset(l, offs, node_type, node_len, sqnum) ==
  PutHeader(l, offs, SealedHeader(node_type, node_len, sqnum, 0))

ut_make_node(l, offs, node_type, node_len, sqnum) ==
  PutHeader(Memset(l, offs, 0, node_len), offs,
            SealedHeader(node_type, node_len, sqnum, 0))

\* The CRC covers the common header only, so pad_len is outside of it.
ut_make_pad_node(l, offs, node_len, pad_len, sqnum) ==
  PutHeader(Memset(l, offs, 0, node_len), offs,
            SealedHeader(UBIFS_PAD_NODE, node_len, sqnum, pad_len))
=============================================================================
