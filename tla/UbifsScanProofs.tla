-------------------------- MODULE UbifsScanProofs ---------------------------
(***************************************************************************)
(* Theorems about UbifsScan, for every width of int, every geometry, every *)
(* set of eraseblocks and every set of starting offsets.                   *)
(*                                                                         *)
(* The first part holds whatever the eraseblocks contain.  The second is   *)
(* about Tame eraseblocks, those on which the header check of the harness  *)
(* and the int arithmetic of the pad node branch suffice.                  *)
(***************************************************************************)
EXTENDS UbifsScan, TLAPS

-----------------------------------------------------------------------------
(* Arithmetic. *)

\* What is used of the constants, without the powers of two.
LEMMA Geometry ==
  /\ IntMax \in Nat /\ IntMax >= 7
  /\ LebSize \in Nat /\ LebSize >= 8 /\ LebSize % 8 = 0 /\ LebSize =< IntMax
  /\ MinIoSize \in Int /\ MinIoSize > 0
  /\ 0 \in CInt
BY IntMaxAssumption, GeometryAssumption DEF CInt

\* ALIGN rounds up to a multiple of 8 and passes no multiple of 8.
LEMMA AlignUp ==
  ASSUME NEW x \in Int
  PROVE  /\ ALIGN(x, 8) \in Int
         /\ ALIGN(x, 8) % 8 = 0
         /\ x =< ALIGN(x, 8)
         /\ \A y \in Int : (y % 8 = 0 /\ x =< y) => ALIGN(x, 8) =< y
BY DEF ALIGN

\* The sum of two ints is an int, and the true sum when that is one.
LEMMA PlusIsInt ==
  ASSUME NEW a \in CInt, NEW b \in CInt
  PROVE  /\ Plus(a, b) \in CInt
         /\ a + b \in CInt => Plus(a, b) = a + b
BY IntMaxAssumption DEF Plus, CInt

\* ALIGN leaves a multiple of the alignment alone.
LEMMA AlignOfMultiple ==
  ASSUME NEW a \in Int, a > 0, NEW x \in Int, x % a = 0
  PROVE  ALIGN(x, a) = x
<1> DEFINE q == x \div a
           y == x + a - 1
           p == y \div a
           r == y % a
<1>1. q \in Int /\ x = a * q
  <2>1. x = a * (x \div a) + (x % a)
    OBVIOUS
  <2> QED BY <2>1
<1>2. y = a * q + (a - 1)
  BY <1>1
<1>3. p \in Int /\ r \in 0 .. a - 1 /\ y = a * p + r
  OBVIOUS
<1>4. ALIGN(x, a) = p * a
  BY DEF ALIGN
<1> HIDE DEF q, y, p, r
<1>5. a * (p - q) = (a - 1) - r
  BY <1>1, <1>2, <1>3
<1>6. ~ (p - q >= 1)
  BY <1>1, <1>3, <1>5
<1>7. ~ (p - q =< -1)
  BY <1>1, <1>3, <1>5
<1>8. p = q
  BY <1>1, <1>3, <1>6, <1>7
<1> QED BY <1>1, <1>3, <1>4, <1>8

-----------------------------------------------------------------------------
(* The scanner of one node. *)

\* A run of raw padding that is skipped is made of whole words of 8 bytes.
LEMMA PaddingIsWhole ==
  ASSUME NEW l, NEW b \in Int, NEW n \in Nat
  PROVE  /\ scan_padding_bytes(l, b, n) \in 0 .. n
         /\ scan_padding_bytes(l, b, n) % 8 = 0
BY DEF scan_padding_bytes, SCANNED_GARBAGE, UBIFS_PAD_NODE_SZ

\* The pad node branch returns an int, and never the code of a node.
LEMMA PadIsInt ==
  ASSUME NEW ch \in Header, NEW o \in CInt
  PROVE  /\ ScanPadNode(ch, o) \in CInt
         /\ ScanPadNode(ch, o) # SCANNED_A_NODE
<1>1. ch.len \in CInt /\ ch.pad_len \in CInt
  BY DEF Header
<1>2. Plus(ch.len, ch.pad_len) \in CInt
  BY <1>1, PlusIsInt
<1>3. SCANNED_A_BAD_PAD_NODE \in CInt
  BY IntMaxAssumption DEF CInt, SCANNED_A_BAD_PAD_NODE
<1>4. SCANNED_A_NODE % 8 # 0
  BY DEF SCANNED_A_NODE
<1>5. SCANNED_A_BAD_PAD_NODE # SCANNED_A_NODE
  BY DEF SCANNED_A_NODE, SCANNED_A_BAD_PAD_NODE
<1> QED BY <1>2, <1>3, <1>4, <1>5 DEF ScanPadNode

\* The scanner of one node returns an int; "a node" is said of intact headers only.
LEMMA LookIsInt ==
  ASSUME NEW l, IsLeb(l), NEW b \in Int, NEW n \in Nat, n >= 8, n =< LebSize, NEW o \in CInt
  PROVE  /\ ubifs_scan_a_node(l, b, n, o) \in CInt
         /\ ubifs_scan_a_node(l, b, n, o) = SCANNED_A_NODE =>
              /\ b \in DOMAIN l.hdr
              /\ l.hdr[b].type # UBIFS_PAD_NODE
              /\ l.hdr[b].len \in UBIFS_CH_SZ .. n
              /\ n >= UBIFS_CH_SZ
              /\ ~ubifs_check_node(l, b, n)
<1> DEFINE look == ubifs_scan_a_node(l, b, n, o)
<1> USE Geometry
<1>1. CASE AllFF(l, b, b + 4)
  BY <1>1 DEF ubifs_scan_a_node, CInt, SCANNED_EMPTY_SPACE, SCANNED_A_NODE
<1>2. CASE ~AllFF(l, b, b + 4) /\ b \notin DOMAIN l.hdr
  <2>1. look = scan_padding_bytes(l, b, n)
    BY <1>2 DEF ubifs_scan_a_node
  <2> QED BY <2>1, PaddingIsWhole DEF CInt, SCANNED_A_NODE
<1>3. CASE ~AllFF(l, b, b + 4) /\ b \in DOMAIN l.hdr /\ (n < UBIFS_CH_SZ \/ ubifs_check_node(l, b, n))
  <2>1. look \in {SCANNED_GARBAGE, SCANNED_A_CORRUPT_NODE}
    BY <1>3 DEF ubifs_scan_a_node
  <2> QED BY <2>1 DEF CInt, SCANNED_A_NODE, SCANNED_GARBAGE, SCANNED_A_CORRUPT_NODE
<1>4. CASE ~AllFF(l, b, b + 4) /\ b \in DOMAIN l.hdr /\ ~(n < UBIFS_CH_SZ) /\ ~ubifs_check_node(l, b, n)
  <2>1. l.hdr[b] \in Header
    BY <1>4 DEF IsLeb
  <2>2. look = IF l.hdr[b].type = UBIFS_PAD_NODE
               THEN ScanPadNode(l.hdr[b], o) ELSE SCANNED_A_NODE
    BY <1>4 DEF ubifs_scan_a_node
  <2>3. look \in CInt /\ (look = SCANNED_A_NODE => l.hdr[b].type # UBIFS_PAD_NODE)
    BY <2>1, <2>2, PadIsInt DEF CInt, SCANNED_A_NODE
  <2>4. l.hdr[b].len \in UBIFS_CH_SZ .. n
    BY <1>4, <2>1 DEF ubifs_check_node, Header, CInt, UBIFS_CH_SZ
  <2> QED BY <1>4, <2>3, <2>4 DEF UBIFS_CH_SZ
<1> QED BY <1>1, <1>2, <1>3, <1>4

\* What ubifs_add_snod records fits the fields of its node.
LEMMA SnodIsTyped ==
  ASSUME NEW l, IsLeb(l), NEW b \in DOMAIN l.hdr, NEW o \in CInt, NEW n \in Nat,
         ReadEnd(l, b, n) =< LebSize, n >= UBIFS_CH_SZ, ~ubifs_check_node(l, b, n),
         l.hdr[b].type # UBIFS_PAD_NODE
  PROVE  Snod(l, b, o) \in ScanNode
<1>1. l.hdr[b] \in Header /\ b \in Addr /\ l.byte \in [Addr -> Byte]
  BY DEF IsLeb
<1>2. CASE l.hdr[b].type \in KeyedTypes
  <2>1. b + UBIFS_CH_SZ + UBIFS_MAX_KEY_LEN =< LebSize
    BY <1>2 DEF ReadEnd, UBIFS_CH_SZ
  <2>2. \A i \in 1 .. UBIFS_MAX_KEY_LEN : b + UBIFS_CH_SZ + i - 1 \in Addr
    <3>1. b \in Int /\ 0 =< b /\ b + 40 =< LebSize
      BY <1>1, <2>1, Geometry DEF Addr, UBIFS_CH_SZ, UBIFS_MAX_KEY_LEN
    <3> QED BY <3>1, Geometry DEF Addr, UBIFS_CH_SZ, UBIFS_MAX_KEY_LEN
  <2>3. key_read(l, b + UBIFS_CH_SZ) \in Key
    BY <1>1, <2>2 DEF key_read, Key
  <2> QED BY <1>1, <1>2, <2>3 DEF Snod, ScanNode, Header
<1>3. CASE l.hdr[b].type \notin KeyedTypes
  <2>1. ZeroKey \in Key
    BY DEF ZeroKey, Key, Byte
  <2> QED BY <1>1, <1>3, <2>1 DEF Snod, ScanNode, Header
<1> QED BY <1>2, <1>3

-----------------------------------------------------------------------------
(***************************************************************************)
(* Whatever the eraseblocks contain.                                       *)
(*                                                                         *)
(* TypeOK and HeapBalanced need three more facts to be inductive: buf and  *)
(* len are moved by the same amount (so that the byte by byte check cannot *)
(* step len below zero inside of the buffer), len never grows, and the     *)
(* list that ubifs_start_scan makes is empty.                              *)
(***************************************************************************)
Calling == InScan \cup {"start", "read"}

TypeInv ==
  /\ TypeOK
  /\ HeapBalanced
  /\ len =< LebSize
  /\ pc \in Calling => buf + len = LebSize
  /\ pc = "read" => nodes = <<>> /\ nodes_cnt = 0

LEMMA TypeInit == Init => TypeInv
<1> SUFFICES ASSUME Init
             PROVE  TypeInv
  OBVIOUS
<1>1. IsLeb(leb)
  BY ImagesAssumption DEF Init
<1>2. TypeOK
  <2>1. quiet \in BOOLEAN /\ printed \in BOOLEAN
    BY DEF Init
  <2>2. start \in 0 .. LebSize /\ offs \in CInt /\ buf \in Int /\ len \in CInt
    BY Geometry DEF Init
  <2>3. nodes \in Seq(ScanNode) /\ nodes_cnt \in Nat /\ endpt \in Int
    BY DEF Init
  <2>4. pc = "idle" /\ ret = 0 /\ slebs = 0 /\ snods = 0
    BY DEF Init
  <2> QED BY <1>1, <2>1, <2>2, <2>3, <2>4 DEF TypeOK
<1>3. HeapBalanced
  BY DEF Init, HeapBalanced, InScan
<1> QED BY <1>2, <1>3, Geometry DEF Init, TypeInv, Calling, InScan

\* The three steps of Advance keep the types and stay in step with each other.
LEMMA AdvanceTyped ==
  ASSUME TypeInv, pc \in Calling, NEW n \in CInt, n > 0, Advance(n),
         len >= 0
  PROVE  /\ offs' \in CInt /\ buf' \in Int /\ len' \in CInt
         /\ len' =< LebSize
         /\ buf' + len' = LebSize
<1> USE Geometry
<1>1. offs \in CInt /\ buf \in Int /\ len \in CInt /\ len =< LebSize /\ buf + len = LebSize
  BY DEF TypeInv, TypeOK
<1>2. -n \in CInt /\ len + (-n) \in CInt
  BY <1>1 DEF CInt
<1>3. len' = len + (-n)
  BY <1>1, <1>2, PlusIsInt DEF Advance
<1>4. offs' \in CInt
  BY <1>1, PlusIsInt DEF Advance
<1>5. buf' = buf + n
  BY DEF Advance
<1> QED BY <1>1, <1>2, <1>3, <1>4, <1>5 DEF CInt

LEMMA TypeStep == TypeInv /\ [Next]_vars => TypeInv'
<1> SUFFICES ASSUME TypeInv, [Next]_vars
             PROVE  TypeInv'
  OBVIOUS
<1> USE Geometry DEF args, cursor, sleb, heap
<1>1. ASSUME NEW o \in Starts, NEW q \in BOOLEAN, Call(o, q)
      PROVE  TypeInv'
  <2>1. o \in 0 .. LebSize
    BY StartsAssumption
  <2>2. o \in CInt /\ LebSize - o \in CInt
    BY <2>1 DEF CInt
  <2>3. quiet' \in BOOLEAN /\ printed' \in BOOLEAN
    BY <1>1 DEF Call
  <2>4. /\ pc = "idle" /\ pc' = "start" /\ start' = o /\ offs' = o /\ buf' = o
        /\ len' = LebSize - o /\ ret' = 0 /\ UNCHANGED <<leb, sleb, heap>>
    BY <1>1 DEF Call
  <2> QED BY <2>1, <2>2, <2>3, <2>4
          DEF TypeInv, TypeOK, HeapBalanced, InScan, Calling
<1>2. CASE Release
  BY <1>2 DEF Release, TypeInv, TypeOK, HeapBalanced, InScan, Calling
<1>3. CASE AllocSleb
  BY <1>3 DEF AllocSleb, TypeInv, TypeOK, HeapBalanced, InScan, Calling, ScanNode
<1>4. CASE AllocSlebFails
  BY <1>4 DEF AllocSlebFails, TypeInv, TypeOK, HeapBalanced, InScan, Calling
<1>5. ASSUME NEW err \in {0, -EBADMSG, -EIO}, LebRead(err) \/ LebReadFails(err)
      PROVE  TypeInv'
  <2>1. CASE LebRead(err)
    BY <2>1 DEF LebRead, TypeInv, TypeOK, HeapBalanced, InScan, Calling
  <2>2. CASE LebReadFails(err)
    <3>1. err = -EIO
      BY <2>2 DEF LebReadFails
    <3> QED BY <2>2, <3>1
            DEF LebReadFails, TypeInv, TypeOK, HeapBalanced, InScan, Calling
  <2> QED BY <1>5, <2>1, <2>2
<1>6. CASE SkipPadding
  <2>1. /\ IsLeb(leb) /\ buf \in Int /\ len \in Nat /\ len >= 8 /\ len =< LebSize
        /\ offs \in CInt
    BY <1>6 DEF SkipPadding, Looking, TypeInv, TypeOK, CInt
  <2>2. Look \in CInt
    BY <2>1, LookIsInt DEF Look
  <2>3. Look > 0 /\ Advance(Look) /\ pc \in Calling
    BY <1>6 DEF SkipPadding, Looking, Calling, InScan
  <2>4. /\ offs' \in CInt /\ buf' \in Int /\ len' \in CInt
        /\ len' =< LebSize
        /\ buf' + len' = LebSize
    BY <2>1, <2>2, <2>3, AdvanceTyped
  <2> QED BY <1>6, <2>4 DEF SkipPadding, TypeInv, TypeOK, HeapBalanced, InScan, Calling
<1>7. CASE HitEmptySpace
  BY <1>7 DEF HitEmptySpace, Looking, TypeInv, TypeOK, HeapBalanced, InScan, Calling
<1>8. CASE AddSnod
  <2> DEFINE n == ALIGN(leb.hdr[buf].len, 8)
  <2>1. /\ IsLeb(leb) /\ buf \in Int /\ len \in Nat /\ len >= 8 /\ len =< LebSize
        /\ offs \in CInt /\ ubifs_scan_a_node(leb, buf, len, offs) = SCANNED_A_NODE
        /\ pc = "loop" /\ ReadEnd(leb, buf, len) =< LebSize
    BY <1>8 DEF AddSnod, Looking, Look, TypeInv, TypeOK, CInt
  <2>2. /\ buf \in DOMAIN leb.hdr /\ leb.hdr[buf].len \in UBIFS_CH_SZ .. len
        /\ leb.hdr[buf].type # UBIFS_PAD_NODE
        /\ len >= UBIFS_CH_SZ /\ ~ubifs_check_node(leb, buf, len)
    BY <2>1, LookIsInt
  <2>4. Snod(leb, buf, offs) \in ScanNode
    BY <2>1, <2>2, SnodIsTyped
  <2>5. n \in 1 .. LebSize
    BY <2>1, <2>2, AlignUp DEF UBIFS_CH_SZ
  <2>6. /\ offs' \in CInt /\ buf' \in Int /\ len' \in CInt
        /\ len' =< LebSize
        /\ buf' + len' = LebSize
    BY <1>8, <2>1, <2>5, AdvanceTyped DEF AddSnod, Calling, InScan, CInt
  <2>7. nodes \in Seq(ScanNode) /\ nodes' = Append(nodes, Snod(leb, buf, offs))
    BY <1>8 DEF AddSnod, TypeInv, TypeOK
  <2>8. nodes' \in Seq(ScanNode) /\ Len(nodes') = Len(nodes) + 1 /\ Len(nodes) \in Nat
    BY <2>4, <2>7
  <2>9. /\ snods' = snods + 1 /\ nodes_cnt' = nodes_cnt + 1
        /\ UNCHANGED <<leb, pc, args, endpt, ret, printed, slebs>>
    BY <1>8 DEF AddSnod
  <2>10. TypeOK'
    BY <2>6, <2>8, <2>9 DEF TypeInv, TypeOK
  <2>11. HeapBalanced'
    BY <2>1, <2>8, <2>9 DEF TypeInv, HeapBalanced, InScan
  <2> QED BY <2>1, <2>6, <2>9, <2>10, <2>11 DEF TypeInv
<1>9. CASE AddSnodFails
  BY <1>9 DEF AddSnodFails, Error, Looking, TypeInv, TypeOK, HeapBalanced, InScan, Calling
<1>10. CASE BadNode
  BY <1>10 DEF BadNode, Corrupted, Looking, TypeInv, TypeOK, HeapBalanced, InScan, Calling
<1>11. CASE UnknownCode
  BY <1>11 DEF UnknownCode, Error, Looking, TypeInv, TypeOK, HeapBalanced, InScan, Calling
<1>12. CASE EndOfLeb
  BY <1>12 DEF EndOfLeb, TypeInv, TypeOK, HeapBalanced, InScan, Calling
<1>13. CASE Misaligned
  BY <1>13 DEF Misaligned, Corrupted, TypeInv, TypeOK, HeapBalanced, InScan, Calling
<1>14. CASE EndScan
  <2>1. ALIGN(offs, MinIoSize) \in Int
    BY <1>14, AlignOfMultiple DEF EndScan, TypeInv, TypeOK, CInt
  <2> QED BY <1>14, <2>1 DEF EndScan, TypeInv, TypeOK, HeapBalanced, InScan, Calling
<1>15. CASE SkipWord
  <2>1. /\ offs' \in CInt /\ buf' \in Int /\ len' \in CInt
        /\ len' =< LebSize
        /\ buf' + len' = LebSize
    BY <1>15, AdvanceTyped DEF SkipWord, FreeWord, Calling, InScan, TypeInv, TypeOK, CInt
  <2> QED BY <1>15, <2>1 DEF SkipWord, TypeInv, TypeOK, HeapBalanced, InScan, Calling
<1>16. CASE WordsDone
  BY <1>16 DEF WordsDone, TypeInv, TypeOK, HeapBalanced, InScan, Calling
<1>17. CASE SkipByte
  <2>1. len \in Int /\ len >= 1 /\ 1 \in CInt
    BY <1>17 DEF SkipByte, InBuffer, Addr, Calling, InScan, TypeInv, TypeOK, CInt
  <2>2. /\ offs' \in CInt /\ buf' \in Int /\ len' \in CInt
        /\ len' =< LebSize
        /\ buf' + len' = LebSize
    BY <1>17, <2>1, AdvanceTyped DEF SkipByte, Calling, InScan, CInt
  <2> QED BY <1>17, <2>2 DEF SkipByte, TypeInv, TypeOK, HeapBalanced, InScan, Calling
<1>18. CASE BadByte
  BY <1>18 DEF BadByte, Corrupted, TypeInv, TypeOK, HeapBalanced, InScan, Calling
<1>19. CASE ReturnSleb
  BY <1>19 DEF ReturnSleb, TypeInv, TypeOK, HeapBalanced, InScan, Calling
<1>20. CASE ReadOutside
  BY <1>20 DEF ReadOutside, TypeInv, TypeOK, HeapBalanced, InScan, Calling
<1>21. CASE DestroySnod
  <2>1. nodes \in Seq(ScanNode) /\ nodes # <<>> /\ nodes' = Tail(nodes)
    BY <1>21 DEF DestroySnod, TypeInv, TypeOK
  <2>2. nodes' \in Seq(ScanNode) /\ Len(nodes') = Len(nodes) - 1 /\ Len(nodes) \in Nat \ {0}
    BY <2>1
  <2> QED BY <1>21, <2>2 DEF DestroySnod, TypeInv, TypeOK, HeapBalanced, InScan, Calling
<1>22. CASE DestroySleb
  BY <1>22 DEF DestroySleb, TypeInv, TypeOK, HeapBalanced, InScan, Calling
<1>23. CASE UNCHANGED vars
  BY <1>23 DEF vars, TypeInv, TypeOK, HeapBalanced, InScan, Calling
<1> QED
  BY <1>1, <1>2, <1>3, <1>4, <1>5, <1>6, <1>7, <1>8, <1>9, <1>10, <1>11, <1>12,
     <1>13, <1>14, <1>15, <1>16, <1>17, <1>18, <1>19, <1>20, <1>21, <1>22, <1>23
     DEF Next, Caller, Scanner

(***************************************************************************)
(* No overflow and no content of flash ever puts a value into a variable   *)
(* that its C type cannot hold.                                            *)
(***************************************************************************)
THEOREM TypeCorrect == Spec => []TypeOK
<1>1. TypeInv => TypeOK
  BY DEF TypeInv
<1> QED BY <1>1, TypeInit, TypeStep, PTL DEF Spec

(***************************************************************************)
(* Nothing leaks and nothing is freed twice, whatever the flash contains   *)
(* and whichever allocation or read fails.                                 *)
(***************************************************************************)
THEOREM NothingLeaks == Spec => []HeapBalanced
<1>1. TypeInv => HeapBalanced
  BY DEF TypeInv
<1> QED BY <1>1, TypeInit, TypeStep, PTL DEF Spec

-----------------------------------------------------------------------------
(***************************************************************************)
(* On Tame eraseblocks.                                                    *)
(***************************************************************************)

\* A pad node that is accepted ends inside of the eraseblock.
LEMMA PadStaysInside ==
  ASSUME NEW ch \in Header, NEW o \in 0 .. LebSize,
         ch.len \in UBIFS_CH_SZ .. LebSize - o, ch.pad_len =< IntMax - LebSize
  PROVE  \/ ScanPadNode(ch, o) = SCANNED_A_BAD_PAD_NODE
         \/ ScanPadNode(ch, o) \in 1 .. LebSize - o /\ ScanPadNode(ch, o) % 8 = 0
<1>1. ch.len \in CInt /\ ch.pad_len \in CInt /\ o \in CInt /\ ch.len >= 24
  BY Geometry DEF Header, CInt, UBIFS_CH_SZ
<1>2. CASE ch.pad_len < 0
  BY <1>2 DEF ScanPadNode
<1>3. CASE ch.pad_len >= 0
  <2>1. /\ ch.len + ch.pad_len \in CInt /\ o + ch.len \in CInt
        /\ o + ch.len + ch.pad_len \in CInt
    BY <1>1, <1>3, Geometry DEF CInt
  <2>2. /\ Plus(ch.len, ch.pad_len) = ch.len + ch.pad_len
        /\ Plus(o, ch.len) = o + ch.len
    BY <1>1, <2>1, PlusIsInt
  <2>3. Plus(Plus(o, ch.len), ch.pad_len) = o + ch.len + ch.pad_len
    BY <1>1, <2>1, <2>2, PlusIsInt
  <2> QED BY <1>1, <1>3, <2>2, <2>3, Geometry DEF ScanPadNode, CInt
<1> QED BY <1>1, <1>2, <1>3 DEF CInt

\* A positive result is a tile that is there; every other one has a case of
\* its own in the switch; and nothing is read behind the eraseblock.
LEMMA TameLook ==
  ASSUME NEW l, IsLeb(l), WellRanged(l), PadLenFits(l),
         NEW b \in Nat, NEW n \in Nat, b + n = LebSize, n >= 8, b % 8 = 0,
         NEW look, look = ubifs_scan_a_node(l, b, n, b)
  PROVE  /\ ReadEnd(l, b, n) =< LebSize
         /\ look > 0 => look \in 8 .. n /\ look % 8 = 0
         /\ look >= SCANNED_A_BAD_PAD_NODE
         /\ look = SCANNED_A_NODE =>
              /\ Intact(l, b)
              /\ l.hdr[b].type # UBIFS_PAD_NODE
              /\ ALIGN(l.hdr[b].len, 8) \in 8 .. n
              /\ ALIGN(l.hdr[b].len, 8) % 8 = 0
<1> DEFINE ch == l.hdr[b]
<1>1. n \in Nat /\ n >= 8 /\ n =< LebSize /\ n % 8 = 0 /\ b \in CInt /\ b \in Int
  BY Geometry DEF CInt
<1>2. CASE AllFF(l, b, b + 4) \/ b \notin DOMAIN l.hdr
  <2>1. look = SCANNED_EMPTY_SPACE \/ look = scan_padding_bytes(l, b, n)
    BY <1>2 DEF ubifs_scan_a_node
  <2>2. b \notin DOMAIN l.hdr
    BY <1>2, <1>1 DEF AllFF, IsLeb, FirstMagicByte
  <2>3. ReadEnd(l, b, n) = b + 4
    BY <2>2 DEF ReadEnd
  <2>4. (look \in 0 .. n /\ look % 8 = 0) \/ look = SCANNED_EMPTY_SPACE
    BY <2>1, <1>1, PaddingIsWhole
  <2> QED BY <1>1, <2>3, <2>4
          DEF SCANNED_EMPTY_SPACE, SCANNED_A_NODE, SCANNED_A_BAD_PAD_NODE
<1> HIDE DEF ch
<1>3. CASE ~AllFF(l, b, b + 4) /\ b \in DOMAIN l.hdr
           /\ (n < UBIFS_CH_SZ \/ ubifs_check_node(l, b, n))
  <2>1. look \in {SCANNED_GARBAGE, SCANNED_A_CORRUPT_NODE}
    BY <1>3 DEF ubifs_scan_a_node
  <2>2. ReadEnd(l, b, n) = b + 4
    BY <1>3 DEF ReadEnd
  <2> QED BY <1>1, <2>1, <2>2
          DEF SCANNED_A_NODE, SCANNED_GARBAGE, SCANNED_A_CORRUPT_NODE, SCANNED_A_BAD_PAD_NODE
<1>4. CASE ~AllFF(l, b, b + 4) /\ b \in DOMAIN l.hdr
           /\ ~(n < UBIFS_CH_SZ) /\ ~ubifs_check_node(l, b, n)
  <2>1. ch \in Header /\ ch.len \in CInt /\ ch.pad_len \in CInt /\ ch.pad_len =< IntMax - LebSize
    BY <1>4 DEF IsLeb, Header, PadLenFits, ch
  <2>2. ch.len \in UBIFS_CH_SZ .. n /\ ch.crc = ut_crc32(ch)
    BY <1>4, <2>1, <1>1 DEF ubifs_check_node, CInt, UBIFS_CH_SZ, ch
  <2>3. /\ ch.type = UBIFS_PAD_NODE => ch.len >= UBIFS_PAD_NODE_SZ
        /\ ch.type \in KeyedTypes => ch.len >= UBIFS_CH_SZ + UBIFS_MAX_KEY_LEN
    BY <1>4 DEF WellRanged, ch
  <2>4. ReadEnd(l, b, n) =< LebSize
    <3>1. ch.len \in Int /\ b + ch.len =< LebSize
      BY <1>1, <2>2, Geometry
    <3> QED BY <3>1, <1>1, <1>4, <2>2, <2>3
       DEF ReadEnd, UBIFS_PAD_NODE_SZ, UBIFS_CH_SZ, UBIFS_MAX_KEY_LEN, ch
  <2>5. CASE ch.type = UBIFS_PAD_NODE
    <3>1. look = ScanPadNode(ch, b)
      BY <1>4, <2>5 DEF ubifs_scan_a_node, ch
    <3>2. look = SCANNED_A_BAD_PAD_NODE \/ (look \in 1 .. n /\ look % 8 = 0)
      BY <2>1, <2>2, <1>1, <3>1, Geometry, LebSize - b = n, PadStaysInside
    <3> QED BY <1>1, <2>4, <3>2 DEF SCANNED_A_NODE, SCANNED_A_BAD_PAD_NODE
  <2>6. CASE ch.type # UBIFS_PAD_NODE
    <3>1. look = SCANNED_A_NODE
      BY <1>4, <2>6 DEF ubifs_scan_a_node, ch
    <3>2. Intact(l, b)
      BY <1>1, <1>4, <2>2 DEF Intact, ch
    <3>3. ch.len \in Int /\ ch.len >= 24 /\ ch.len =< n
      BY <2>2, <1>1 DEF UBIFS_CH_SZ
    <3>4. ALIGN(ch.len, 8) \in 8 .. n /\ ALIGN(ch.len, 8) % 8 = 0
      BY <3>3, <1>1, AlignUp
    <3> QED BY <2>4, <2>6, <3>1, <3>2, <3>4 DEF ch, SCANNED_A_NODE, SCANNED_A_BAD_PAD_NODE
  <2> QED BY <2>5, <2>6
<1> QED BY <1>2, <1>3, <1>4

(***************************************************************************)
(* The invariant behind the remaining properties.  To those properties it  *)
(* adds where the cursor is before the loop, and that all of the flash     *)
(* between the end point and the cursor has been found erased.             *)
(***************************************************************************)
ErasedSoFar ==
  pc \in {"words", "bytes", "done"} =>
    /\ endpt \in start .. offs
    /\ endpt % MinIoSize = 0
    /\ AllFF(leb, endpt, offs)

PositionInv ==
  /\ CursorInSync
  /\ pc \in {"start", "read"} => buf = offs /\ offs = start /\ start % 8 = 0
  /\ pc = "done" => len = 0
  /\ ErasedSoFar

TameLeb == WellRanged(leb) /\ PadLenFits(leb)

ScanInv == TypeInv /\ TameLeb /\ PositionInv

LEMMA ScanInit == Tame /\ Init => ScanInv
BY TypeInit
   DEF Tame, TameLeb, Init, ScanInv, PositionInv, CursorInSync, InScan, ErasedSoFar

\* Where the scan stands, with the types that arithmetic needs.
LEMMA Standing ==
  ASSUME ScanInv, pc \in InScan
  PROVE  /\ offs \in Nat /\ buf = offs /\ len \in Nat /\ offs + len = LebSize
         /\ start \in Nat /\ start =< offs /\ IsLeb(leb)
         /\ pc \in {"loop", "end"} => offs % 8 = 0 /\ len % 8 = 0
BY Geometry DEF ScanInv, PositionInv, TypeInv, TypeOK, CursorInSync, InScan, CInt

\* As long as no more is skipped than is left, Advance adds what it should.
LEMMA AdvanceInside ==
  ASSUME ScanInv, pc \in InScan, NEW n \in 1 .. len, Advance(n)
  PROVE  /\ offs' = offs + n /\ buf' = offs + n /\ len' = len - n
         /\ offs' + len' = LebSize /\ len' \in Nat
<1>1. offs \in Nat /\ buf = offs /\ len \in Nat /\ offs + len = LebSize
  BY Standing
<1>2. /\ offs \in CInt /\ n \in CInt /\ offs + n \in CInt
      /\ len \in CInt /\ -n \in CInt /\ len + (-n) \in CInt
  BY <1>1, Geometry DEF CInt
<1>3. offs' = offs + n /\ len' = len + (-n) /\ buf' = buf + n
  BY <1>2, PlusIsInt DEF Advance
<1> QED BY <1>1, <1>3

\* What the loop sees, on a Tame eraseblock.
LEMMA LoopLook ==
  ASSUME ScanInv, pc = "loop", len >= 8
  PROVE  /\ ReadEnd(leb, buf, len) =< LebSize
         /\ Look > 0 => Look \in 8 .. len /\ Look % 8 = 0
         /\ Look >= SCANNED_A_BAD_PAD_NODE
         /\ Look = SCANNED_A_NODE =>
              /\ Intact(leb, offs)
              /\ leb.hdr[offs].type # UBIFS_PAD_NODE
              /\ ALIGN(leb.hdr[offs].len, 8) \in 8 .. len
              /\ ALIGN(leb.hdr[offs].len, 8) % 8 = 0
<1>1. /\ offs \in Nat /\ buf = offs /\ len \in Nat /\ offs + len = LebSize
      /\ offs % 8 = 0 /\ IsLeb(leb)
  BY Standing DEF InScan
<1>2. WellRanged(leb) /\ PadLenFits(leb)
  BY DEF TameLeb, ScanInv
<1>3. Look = ubifs_scan_a_node(leb, offs, len, offs)
  BY <1>1 DEF Look
<1> QED BY <1>1, <1>2, <1>3, TameLook

\* Behind the loop, what is skipped is erased.
LEMMA SkipErased ==
  ASSUME ScanInv, pc \in {"words", "bytes"}, NEW n \in 1 .. len, Advance(n),
         AllFF(leb, buf, buf + n), UNCHANGED <<pc, leb, start, endpt>>
  PROVE  PositionInv'
<1>1. offs \in Nat /\ buf = offs /\ len \in Nat /\ start \in Nat /\ start =< offs
  BY Standing DEF InScan
<1>2. /\ offs' = offs + n /\ buf' = offs + n /\ len' = len - n
      /\ offs' + len' = LebSize /\ len' \in Nat
  BY AdvanceInside DEF InScan
<1>3. endpt \in start .. offs /\ endpt % MinIoSize = 0 /\ AllFF(leb, endpt, offs)
  BY DEF ScanInv, PositionInv, ErasedSoFar
<1>4. AllFF(leb, endpt, offs + n)
  BY <1>1, <1>3 DEF AllFF
<1>5. CursorInSync'
  BY <1>1, <1>2 DEF CursorInSync, InScan
<1>6. ErasedSoFar'
  BY <1>1, <1>2, <1>3, <1>4 DEF ErasedSoFar
<1> QED BY <1>5, <1>6 DEF PositionInv

LEMMA PositionStep ==
  ASSUME ScanInv, [Next]_vars
  PROVE  PositionInv'
<1> USE DEF args, cursor, sleb, heap, PositionInv
<1>1. ASSUME NEW o \in Starts, NEW q \in BOOLEAN, Call(o, q)
      PROVE  PositionInv'
  BY <1>1, StartsAssumption DEF Call, CursorInSync, InScan, ErasedSoFar
<1>2. CASE Release
  BY <1>2 DEF Release, ScanInv, CursorInSync, InScan, ErasedSoFar
<1>3. CASE AllocSleb
  BY <1>3 DEF AllocSleb, ScanInv, CursorInSync, InScan, ErasedSoFar
<1>4. CASE AllocSlebFails
  BY <1>4 DEF AllocSlebFails, ScanInv, CursorInSync, InScan, ErasedSoFar
<1>5. ASSUME NEW err \in {0, -EBADMSG, -EIO}, LebRead(err)
      PROVE  PositionInv'
  BY <1>5, Geometry
     DEF LebRead, ScanInv, TypeInv, TypeOK, Calling, CursorInSync, InScan, ErasedSoFar
<1>6. ASSUME NEW err \in {0, -EBADMSG, -EIO}, LebReadFails(err)
      PROVE  PositionInv'
  BY <1>6 DEF LebReadFails, CursorInSync, InScan, ErasedSoFar
<1>7. CASE SkipPadding
  <2>1. pc = "loop" /\ pc' = "loop" /\ len >= 8 /\ Look > 0 /\ Advance(Look) /\ start' = start
    BY <1>7 DEF SkipPadding, Looking
  <2>2. Look \in 8 .. len /\ Look % 8 = 0
    BY <2>1, LoopLook
  <2>3. /\ offs \in Nat /\ len \in Nat /\ offs % 8 = 0 /\ start \in Nat /\ start =< offs
    BY <2>1, Standing DEF InScan
  <2>4. /\ offs' = offs + Look /\ buf' = offs + Look
        /\ offs' + len' = LebSize /\ len' \in Nat
    BY <2>1, <2>2, <2>3, AdvanceInside DEF InScan
  <2> QED BY <2>1, <2>2, <2>3, <2>4 DEF CursorInSync, InScan, ErasedSoFar
<1>8. CASE HitEmptySpace
  BY <1>8 DEF HitEmptySpace, Looking, ScanInv, CursorInSync, InScan, ErasedSoFar
<1>9. CASE AddSnod
  <2> DEFINE n == ALIGN(leb.hdr[buf].len, 8)
  <2>1. pc = "loop" /\ pc' = "loop" /\ len >= 8 /\ Advance(n) /\ start' = start
        /\ Look = SCANNED_A_NODE
    BY <1>9 DEF AddSnod, Looking
  <2>2. /\ offs \in Nat /\ len \in Nat /\ offs % 8 = 0 /\ start \in Nat /\ start =< offs
        /\ buf = offs
    BY <2>1, Standing DEF InScan
  <2>3. n \in 8 .. len /\ n % 8 = 0
    BY <2>1, <2>2, LoopLook
  <2> HIDE DEF n
  <2>4. /\ offs' = offs + n /\ buf' = offs + n
        /\ offs' + len' = LebSize /\ len' \in Nat
    BY <2>1, <2>2, <2>3, AdvanceInside DEF InScan
  <2> QED BY <2>1, <2>2, <2>3, <2>4 DEF CursorInSync, InScan, ErasedSoFar
<1>10. CASE AddSnodFails
  BY <1>10 DEF AddSnodFails, Error, CursorInSync, InScan, ErasedSoFar
<1>11. CASE BadNode
  BY <1>11 DEF BadNode, Corrupted, CursorInSync, InScan, ErasedSoFar
<1>12. CASE UnknownCode
  BY <1>12 DEF UnknownCode, Error, CursorInSync, InScan, ErasedSoFar
<1>13. CASE EndOfLeb
  BY <1>13 DEF EndOfLeb, ScanInv, CursorInSync, InScan, ErasedSoFar
<1>14. CASE Misaligned
  BY <1>14 DEF Misaligned, Corrupted, CursorInSync, InScan, ErasedSoFar
<1>15. CASE EndScan
  <2>1. /\ pc = "end" /\ pc' = "words" /\ offs % MinIoSize = 0
        /\ endpt' = ALIGN(offs, MinIoSize)
        /\ UNCHANGED <<leb, args, cursor>>
    BY <1>15 DEF EndScan
  <2>2. offs \in Nat /\ start \in Nat /\ start =< offs
    BY <2>1, Standing DEF InScan
  <2>3. endpt' = offs
    BY <2>1, <2>2, Geometry, AlignOfMultiple
  <2>4. AllFF(leb, offs, offs)
    BY <2>2 DEF AllFF
  <2> QED BY <2>1, <2>2, <2>3, <2>4 DEF ScanInv, CursorInSync, InScan, ErasedSoFar
<1>16. CASE SkipWord
  <2>1. /\ pc = "words" /\ pc' = "words" /\ len > 4 /\ AllFF(leb, buf, buf + 4) /\ Advance(4)
        /\ UNCHANGED <<leb, start, endpt>>
    BY <1>16 DEF SkipWord, FreeWord
  <2>2. len \in Nat
    BY <2>1, Standing DEF InScan
  <2> QED BY <2>1, <2>2, SkipErased DEF InScan
<1>17. CASE WordsDone
  BY <1>17 DEF WordsDone, ScanInv, CursorInSync, InScan, ErasedSoFar
<1>18. CASE SkipByte
  <2>1. /\ pc = "bytes" /\ pc' = "bytes" /\ len # 0 /\ leb.byte[buf] = 255 /\ Advance(1)
        /\ UNCHANGED <<leb, start, endpt>>
    BY <1>18 DEF SkipByte
  <2>2. buf \in Nat /\ len \in Nat
    BY <2>1, Standing DEF InScan
  <2>3. AllFF(leb, buf, buf + 1)
    BY <2>1, <2>2 DEF AllFF
  <2> QED BY <2>1, <2>2, <2>3, SkipErased DEF InScan
<1>19. CASE BadByte
  BY <1>19 DEF BadByte, Corrupted, CursorInSync, InScan, ErasedSoFar
<1>20. CASE ReturnSleb
  BY <1>20 DEF ReturnSleb, ScanInv, CursorInSync, InScan, ErasedSoFar
<1>21. CASE ReadOutside
  <2>1. pc = "loop" /\ len >= 8 => ReadEnd(leb, buf, len) =< LebSize
    BY LoopLook
  <2>2. pc = "bytes" /\ len # 0 => InBuffer
    BY Standing, Geometry DEF InScan, InBuffer, Addr
  <2>3. pc = "loop" /\ len >= 8 => ReadEnd(leb, buf, len) \in Int
    BY Standing DEF InScan, ReadEnd, UBIFS_PAD_NODE_SZ, UBIFS_CH_SZ, UBIFS_MAX_KEY_LEN
  <2> QED BY <1>21, <2>1, <2>2, <2>3, Geometry DEF ReadOutside
<1>22. CASE DestroySnod
  BY <1>22 DEF DestroySnod, CursorInSync, InScan, ErasedSoFar
<1>23. CASE DestroySleb
  BY <1>23 DEF DestroySleb, CursorInSync, InScan, ErasedSoFar
<1>24. CASE UNCHANGED vars
  BY <1>24 DEF vars, ScanInv, CursorInSync, InScan, ErasedSoFar
<1> QED
  BY <1>1, <1>2, <1>3, <1>4, <1>5, <1>6, <1>7, <1>8, <1>9, <1>10, <1>11, <1>12,
     <1>13, <1>14, <1>15, <1>16, <1>17, <1>18, <1>19, <1>20, <1>21, <1>22, <1>23, <1>24
     DEF Next, Caller, Scanner

\* No step of the caller or the scanner writes to the buffer.
LEMMA LebKept == [Next]_vars => leb' = leb
BY DEF Next, Caller, Scanner, vars, Call, Release, AllocSleb, AllocSlebFails,
   LebRead, LebReadFails, Corrupted, Error, SkipPadding, HitEmptySpace, AddSnod,
   AddSnodFails, BadNode, UnknownCode, EndOfLeb, Misaligned, EndScan, SkipWord,
   WordsDone, SkipByte, BadByte, ReturnSleb, ReadOutside, DestroySnod, DestroySleb

LEMMA ScanStep == ScanInv /\ [Next]_vars => ScanInv'
<1> SUFFICES ASSUME ScanInv, [Next]_vars
             PROVE  ScanInv'
  OBVIOUS
<1>1. TypeInv'
  BY TypeStep DEF ScanInv
<1>2. leb' = leb
  BY LebKept
<1>3. PositionInv'
  BY PositionStep
<1> QED BY <1>1, <1>2, <1>3 DEF ScanInv, TameLeb, WellRanged, PadLenFits

(***************************************************************************)
(* On a Tame eraseblock the three copies of the position agree, the scan   *)
(* stays inside of the eraseblock and reads nothing outside of its buffer. *)
(***************************************************************************)
THEOREM CursorCorrect == ASSUME Tame PROVE Spec => []CursorInSync
<1>1. Init => ScanInv
  BY Tame, ScanInit
<1>2. ScanInv /\ [Next]_vars => ScanInv'
  BY ScanStep
<1>3. ScanInv => CursorInSync
  BY DEF ScanInv, PositionInv
<1> QED BY <1>1, <1>2, <1>3, PTL DEF Spec

(***************************************************************************)
(* On a Tame eraseblock a returned list can be appended to.                *)
(***************************************************************************)
THEOREM EndpointCorrect == ASSUME Tame PROVE Spec => []EndpointIsWritable
<1>1. Init => ScanInv
  BY Tame, ScanInit
<1>2. ScanInv /\ [Next]_vars => ScanInv'
  BY ScanStep
<1>3. ScanInv => EndpointIsWritable
  <2> SUFFICES ASSUME ScanInv, pc = "done"
               PROVE  endpt \in start .. LebSize /\ endpt % MinIoSize = 0 /\ AllFF(leb, endpt, LebSize)
    BY DEF EndpointIsWritable
  <2>1. offs = LebSize
    BY Standing DEF InScan, ScanInv, PositionInv
  <2> QED BY <2>1 DEF ScanInv, PositionInv, ErasedSoFar
<1> QED BY <1>1, <1>2, <1>3, PTL DEF Spec

\* A step that stays in one of the loops is one of its iterations.
LEMMA IterationConsumes ==
  ASSUME ScanInv, [Next]_vars, pc \in {"loop", "words", "bytes"}, pc' = pc,
         vars' # vars
  PROVE  0 =< len' /\ len' < len
<1>1. SkipPadding \/ AddSnod \/ SkipWord \/ SkipByte
  BY DEF Next, Caller, Scanner, Call, Release, AllocSleb, AllocSlebFails,
     LebRead, LebReadFails, Corrupted, Error, HitEmptySpace, AddSnodFails, BadNode,
     UnknownCode, EndOfLeb, Misaligned, EndScan, WordsDone, BadByte, ReturnSleb,
     ReadOutside, DestroySnod, DestroySleb, Looking
<1>2. offs \in Nat /\ buf = offs /\ len \in Nat
  BY Standing DEF InScan
<1>3. ASSUME NEW n \in 1 .. len, Advance(n)
      PROVE  0 =< len' /\ len' < len
  BY <1>2, <1>3, AdvanceInside DEF InScan
<1>4. CASE SkipPadding
  <2>1. Look \in 8 .. len /\ Advance(Look)
    BY <1>4, LoopLook DEF SkipPadding, Looking
  <2> QED BY <1>2, <1>3, <2>1
<1>5. CASE AddSnod
  <2>1. ALIGN(leb.hdr[buf].len, 8) \in 8 .. len /\ Advance(ALIGN(leb.hdr[buf].len, 8))
    BY <1>2, <1>5, LoopLook DEF AddSnod, Looking
  <2> QED BY <1>2, <1>3, <2>1
<1>6. CASE SkipWord
  BY <1>2, <1>3, <1>6 DEF SkipWord, FreeWord
<1>7. CASE SkipByte
  BY <1>2, <1>3, <1>7 DEF SkipByte
<1> QED BY <1>1, <1>4, <1>5, <1>6, <1>7

(***************************************************************************)
(* On a Tame eraseblock no iteration of a loop goes without progress, so   *)
(* none of the three loops runs for ever.                                  *)
(***************************************************************************)
THEOREM LoopsConsumeCorrect == ASSUME Tame PROVE Spec => LoopsConsume
<1>1. Init => ScanInv
  BY Tame, ScanInit
<1>2. ScanInv /\ [Next]_vars => ScanInv'
  BY ScanStep
<1>3. ScanInv /\ [Next]_vars =>
        [(pc \in {"loop", "words", "bytes"} /\ pc' = pc) => (0 =< len' /\ len' < len)]_vars
  BY IterationConsumes
<1> QED BY <1>1, <1>2, <1>3, PTL DEF Spec, LoopsConsume

\* What is left of the scan is counted in whole bytes, also between calls.
LEMMA LenStays ==
  ASSUME ScanInv, len \in Nat, [Next]_vars
  PROVE  len' \in Nat
<1>1. CASE SkipPadding \/ AddSnod \/ SkipWord \/ SkipByte
  <2>1. pc \in {"loop", "words", "bytes"} /\ pc' = pc
    BY <1>1 DEF SkipPadding, AddSnod, SkipWord, SkipByte, Looking
  <2>2. vars' = vars \/ (0 =< len' /\ len' < len)
    BY <2>1, IterationConsumes
  <2>3. len' \in Int
    BY ScanStep DEF ScanInv, TypeInv, TypeOK, CInt
  <2> QED
    BY <2>2, <2>3 DEF vars, cursor
<1>2. ASSUME NEW o \in Starts, NEW q \in BOOLEAN, Call(o, q)
      PROVE  len' \in Nat
  BY <1>2, StartsAssumption, Geometry DEF Call
<1>3. CASE ~(\/ SkipPadding \/ AddSnod \/ SkipWord \/ SkipByte
             \/ \E o \in Starts, q \in BOOLEAN : Call(o, q))
  BY <1>3 DEF Next, Caller, Scanner, vars, cursor, Release, AllocSleb, AllocSlebFails,
     LebRead, LebReadFails, Corrupted, Error, HitEmptySpace, AddSnodFails, BadNode,
     UnknownCode, EndOfLeb, Misaligned, EndScan, WordsDone, BadByte, ReturnSleb,
     ReadOutside, DestroySnod, DestroySleb
<1> QED
  BY <1>1, <1>2, <1>3

\* What each step of the scanner is paid with: a part of the code left behind,
\* bytes of the eraseblock, or a node taken off the list.
LEMMA StepPaid ==
  ASSUME ScanInv, len \in Nat, Next, pc \notin {"idle", "done"}, vars' # vars
  PROVE  WorkLeft' \in 0 .. WorkLeft - 1
<1> USE DEF args, cursor, sleb, heap
<1>1. nodes \in Seq(ScanNode) /\ Len(nodes) \in Nat
  BY DEF ScanInv, TypeInv, TypeOK
<1>2. ASSUME len' = len, nodes' = nodes \/ nodes' = <<>>,
             pc \in DOMAIN Ahead, pc' \in DOMAIN Ahead, Ahead[pc'] < Ahead[pc]
      PROVE  WorkLeft' \in 0 .. WorkLeft - 1
  <2>1. Ahead[pc] \in Nat /\ Ahead[pc'] \in Nat
    BY <1>2 DEF Ahead
  <2>2. Len(nodes') \in 0 .. Len(nodes)
    BY <1>1, <1>2
  <2> QED
    BY <1>1, <1>2, <2>1, <2>2 DEF WorkLeft
<1>3. ASSUME pc' = pc, pc \in DOMAIN Ahead, len' \in Nat, Len(nodes') \in Nat,
             len' + Len(nodes') < len + Len(nodes)
      PROVE  WorkLeft' \in 0 .. WorkLeft - 1
  <2>1. Ahead[pc] \in Nat
    BY <1>3 DEF Ahead
  <2> QED
    BY <1>1, <1>3, <2>1 DEF WorkLeft
<1>4. CASE AllocSleb \/ AllocSlebFails
  BY <1>2, <1>4 DEF AllocSleb, AllocSlebFails, Ahead
<1>5. ASSUME NEW err \in {0, -EBADMSG, -EIO}, LebRead(err) \/ LebReadFails(err)
      PROVE  WorkLeft' \in 0 .. WorkLeft - 1
  BY <1>2, <1>5 DEF LebRead, LebReadFails, Ahead
<1>6. CASE SkipPadding \/ SkipWord \/ SkipByte
  <2>1. pc \in {"loop", "words", "bytes"} /\ pc' = pc /\ nodes' = nodes
    BY <1>6 DEF SkipPadding, SkipWord, SkipByte, Looking
  <2>2. 0 =< len' /\ len' < len
    BY <2>1, IterationConsumes
  <2>3. len' \in Nat
    BY LenStays
  <2> QED
    BY <1>1, <1>3, <2>1, <2>2, <2>3 DEF Ahead
<1>7. CASE AddSnod
  <2> DEFINE n == ALIGN(leb.hdr[buf].len, 8)
  <2>1. /\ pc = "loop" /\ pc' = "loop" /\ len >= 8 /\ Advance(n) /\ Look = SCANNED_A_NODE
        /\ nodes' = Append(nodes, Snod(leb, buf, offs))
    BY <1>7 DEF AddSnod, Looking
  <2>2. buf = offs
    BY <2>1, Standing DEF InScan
  <2>3. n \in 8 .. len
    BY <2>1, <2>2, LoopLook
  <2> HIDE DEF n
  <2>4. len' = len - n
    BY <2>1, <2>3, AdvanceInside DEF InScan
  <2>5. Len(nodes') = Len(nodes) + 1
    BY <1>1, <2>1
  <2> QED
    BY <1>1, <1>3, <2>1, <2>3, <2>4, <2>5 DEF Ahead
<1>8. CASE HitEmptySpace \/ AddSnodFails \/ BadNode \/ UnknownCode \/ EndOfLeb
  BY <1>2, <1>8 DEF HitEmptySpace, AddSnodFails, BadNode, UnknownCode, EndOfLeb, Looking,
     Corrupted, Error, Ahead
<1>9. CASE Misaligned \/ EndScan \/ WordsDone \/ BadByte \/ ReturnSleb
  BY <1>2, <1>9 DEF Misaligned, EndScan, WordsDone, BadByte, ReturnSleb, Corrupted, Ahead
<1>10. CASE ReadOutside
  BY <1>2, <1>10 DEF ReadOutside, Ahead
<1>11. CASE DestroySnod
  <2>1. pc = "destroy" /\ pc' = "destroy" /\ len' = len /\ nodes # <<>> /\ nodes' = Tail(nodes)
    BY <1>11 DEF DestroySnod
  <2>2. Len(nodes') = Len(nodes) - 1 /\ Len(nodes) >= 1
    BY <1>1, <2>1
  <2> QED
    BY <1>1, <1>3, <2>1, <2>2 DEF Ahead
<1>12. CASE DestroySleb
  BY <1>2, <1>12 DEF DestroySleb, Ahead
<1>13. CASE Caller
  BY <1>13 DEF Caller, Call, Release
<1> QED
  BY <1>4, <1>5, <1>6, <1>7, <1>8, <1>9, <1>10, <1>11, <1>12, <1>13 DEF Next, Scanner

(***************************************************************************)
(* On a Tame eraseblock a call takes no more steps than WorkLeft counts at *)
(* its beginning, at most one for each byte of the eraseblock, each node   *)
(* and each part of the code: whatever is on flash, it cannot run on.      *)
(***************************************************************************)
THEOREM StepsCorrect == ASSUME Tame PROVE Spec => EveryStepCounts
<1> DEFINE Inv == ScanInv /\ len \in Nat
<1>1. Init => Inv
  BY Tame, ScanInit DEF Init
<1>2. Inv /\ [Next]_vars => Inv'
  BY ScanStep, LenStays
<1>3. Inv /\ [Next]_vars =>
        [pc \notin {"idle", "done"} => WorkLeft' \in 0 .. WorkLeft - 1]_vars
  BY StepPaid
<1> QED BY <1>1, <1>2, <1>3, PTL DEF Spec, EveryStepCounts

-----------------------------------------------------------------------------
(* The list. *)

\* The list stays right while it does not change and the scan moves forward.
LEMMA ListKept ==
  ASSUME ScanInv, ListMirrorsFlash, pc \in InScan,
         leb' = leb, nodes' = nodes, start' = start,
         Frontier \in Int, Frontier' \in Int, Frontier =< Frontier'
  PROVE  ListMirrorsFlash'
<1> SUFFICES ASSUME NEW i \in 1 .. Len(nodes)
             PROVE  /\ start =< nodes[i].offs
                    /\ Intact(leb, nodes[i].offs)
                    /\ nodes[i] = Snod(leb, nodes[i].offs, nodes[i].offs)
                    /\ nodes[i].type # UBIFS_PAD_NODE
                    /\ nodes[i].offs + nodes[i].len =<
                         (IF i < Len(nodes) THEN nodes[i + 1].offs ELSE Frontier')
  BY DEF ListMirrorsFlash, Intact, Snod, key_read
<1>1. nodes[i] \in ScanNode
  BY DEF ScanInv, TypeInv, TypeOK
<1>2. nodes[i].offs \in Int /\ nodes[i].len \in Int
  BY <1>1 DEF ScanNode, CInt
<1> QED BY <1>2 DEF ListMirrorsFlash

LEMMA ListStep == ScanInv /\ ListMirrorsFlash /\ [Next]_vars => ListMirrorsFlash'
<1> SUFFICES ASSUME ScanInv, ListMirrorsFlash, [Next]_vars, pc' \in InScan
             PROVE  ListMirrorsFlash'
  BY DEF ListMirrorsFlash
<1> USE DEF args, cursor, sleb, heap
<1>1. ASSUME NEW err \in {0, -EBADMSG, -EIO}, LebRead(err)
      PROVE  ListMirrorsFlash'
  BY <1>1 DEF LebRead, ScanInv, TypeInv, ListMirrorsFlash
<1>2. CASE SkipPadding
  <2>1. pc = "loop" /\ pc' = "loop" /\ len >= 8 /\ Look > 0 /\ Advance(Look)
        /\ leb' = leb /\ nodes' = nodes /\ start' = start
    BY <1>2 DEF SkipPadding, Looking
  <2>2. Look \in 8 .. len /\ offs \in Nat /\ len \in Nat
    BY <2>1, LoopLook, Standing DEF InScan
  <2>3. offs' = offs + Look
    BY <2>1, <2>2, AdvanceInside, SMTT(30) DEF InScan
  <2> QED BY <2>1, <2>2, <2>3, ListKept DEF Frontier, InScan
<1>3. CASE AddSnod
  <2> DEFINE new == Snod(leb, offs, offs)
             k   == Len(nodes)
  <2>1. pc = "loop" /\ pc' = "loop" /\ len >= 8 /\ Look = SCANNED_A_NODE
        /\ Advance(ALIGN(leb.hdr[buf].len, 8))
        /\ leb' = leb /\ start' = start
        /\ nodes' = Append(nodes, Snod(leb, buf, offs))
    BY <1>3 DEF AddSnod, Looking
  <2>2. offs \in Nat /\ len \in Nat /\ buf = offs /\ start =< offs /\ offs + len = LebSize
    BY <2>1, Standing DEF InScan
  <2>3. Intact(leb, offs) /\ leb.hdr[offs].type # UBIFS_PAD_NODE
        /\ ALIGN(leb.hdr[offs].len, 8) \in 8 .. len
    BY <2>1, LoopLook
  <2>4. offs' = offs + ALIGN(leb.hdr[offs].len, 8)
    BY <2>1, <2>2, <2>3, AdvanceInside DEF InScan
  <2>5. leb.hdr[offs].len \in Int /\ offs + leb.hdr[offs].len =< offs'
    BY <2>2, <2>3, <2>4, AlignUp, Geometry DEF Intact, UBIFS_CH_SZ
  <2>6. nodes \in Seq(ScanNode) /\ k \in Nat
    BY DEF ScanInv, TypeInv, TypeOK
  <2>7. nodes' \in Seq(ScanNode) /\ Len(nodes') = k + 1 /\ nodes'[k + 1] = new
        /\ \A i \in 1 .. k : nodes'[i] = nodes[i]
    <3>1. nodes' \in Seq(ScanNode)
      BY TypeStep DEF ScanInv, TypeInv, TypeOK
    <3> QED BY <2>1, <2>2, <2>6, <3>1
  <2>8. new.offs = offs /\ new.len = leb.hdr[offs].len /\ new.type = leb.hdr[offs].type
    BY DEF Snod
  <2> HIDE DEF new, k
  <2>9. ASSUME NEW i \in 1 .. k + 1
        PROVE  /\ start =< nodes'[i].offs
               /\ Intact(leb, nodes'[i].offs)
               /\ nodes'[i] = Snod(leb, nodes'[i].offs, nodes'[i].offs)
               /\ nodes'[i].type # UBIFS_PAD_NODE
               /\ nodes'[i].offs + nodes'[i].len =<
                    (IF i < k + 1 THEN nodes'[i + 1].offs ELSE offs')
    <3>1. CASE i = k + 1
      BY <2>2, <2>3, <2>5, <2>6, <2>7, <2>8, <3>1 DEF new
    <3>2. CASE i \in 1 .. k
      <4>1. nodes'[i] = nodes[i] /\ i < k + 1
        BY <2>6, <2>7, <3>2
      <4>2. /\ start =< nodes[i].offs
            /\ Intact(leb, nodes[i].offs)
            /\ nodes[i] = Snod(leb, nodes[i].offs, nodes[i].offs)
            /\ nodes[i].type # UBIFS_PAD_NODE
            /\ nodes[i].offs + nodes[i].len =<
                 (IF i < k THEN nodes[i + 1].offs ELSE offs)
        BY <2>1, <3>2 DEF ListMirrorsFlash, Frontier, InScan, k
      <4>3. nodes'[i + 1].offs = IF i < k THEN nodes[i + 1].offs ELSE offs
        BY <2>6, <2>7, <2>8, <3>2
      <4> QED BY <4>1, <4>2, <4>3
    <3> QED BY <2>6, <3>1, <3>2
  <2>10. Frontier' = offs'
    BY <2>1 DEF Frontier
  <2>11. ASSUME NEW i \in 1 .. Len(nodes')
         PROVE  /\ start' =< nodes'[i].offs
                /\ Intact(leb', nodes'[i].offs)
                /\ nodes'[i] = Snod(leb', nodes'[i].offs, nodes'[i].offs)
                /\ nodes'[i].type # UBIFS_PAD_NODE
                /\ nodes'[i].offs + nodes'[i].len =<
                     (IF i < Len(nodes') THEN nodes'[i + 1].offs ELSE Frontier')
    BY <2>1, <2>7, <2>9, <2>10
  <2> QED BY <2>11 DEF ListMirrorsFlash, Intact, Snod, key_read
<1>4. CASE HitEmptySpace \/ EndOfLeb
  <2>1. /\ pc = "loop" /\ pc' = "end" /\ leb' = leb /\ nodes' = nodes /\ start' = start
        /\ offs' = offs
    BY <1>4 DEF HitEmptySpace, EndOfLeb, Looking
  <2>2. offs \in Nat
    BY <2>1, Standing DEF InScan
  <2> QED BY <2>1, <2>2, ListKept DEF Frontier, InScan
<1>5. CASE EndScan
  <2>1. /\ pc = "end" /\ pc' = "words" /\ leb' = leb /\ nodes' = nodes /\ start' = start
        /\ offs % MinIoSize = 0 /\ endpt' = ALIGN(offs, MinIoSize)
    BY <1>5 DEF EndScan
  <2>2. offs \in Nat
    BY <2>1, Standing DEF InScan
  <2>3. endpt' = offs
    BY <2>1, <2>2, Geometry, AlignOfMultiple
  <2> QED BY <2>1, <2>2, <2>3, ListKept DEF Frontier, InScan
<1>6. CASE SkipWord \/ WordsDone \/ SkipByte \/ ReturnSleb
  <2>1. /\ pc \in {"words", "bytes"} /\ pc' \in {"words", "bytes", "done"}
        /\ leb' = leb /\ nodes' = nodes /\ start' = start /\ endpt' = endpt
    BY <1>6 DEF SkipWord, WordsDone, SkipByte, ReturnSleb
  <2>2. endpt \in Int
    BY DEF ScanInv, TypeInv, TypeOK
  <2> QED BY <2>1, <2>2, ListKept DEF Frontier, InScan
<1>7. CASE UNCHANGED vars
  BY <1>7 DEF vars, ListMirrorsFlash, Frontier, Intact, Snod, key_read, InScan
<1>8. CASE Next /\ ~(\/ \E err \in {0, -EBADMSG, -EIO} : LebRead(err)
                     \/ SkipPadding \/ AddSnod \/ HitEmptySpace \/ EndOfLeb \/ EndScan
                     \/ SkipWord \/ WordsDone \/ SkipByte \/ ReturnSleb)
  <2>1. pc' \notin InScan
    BY <1>8 DEF Next, Caller, Scanner, Call, Release, AllocSleb, AllocSlebFails,
       LebReadFails, Corrupted, Error, AddSnodFails, BadNode, UnknownCode, Misaligned,
       BadByte, ReadOutside, DestroySnod, DestroySleb, InScan
  <2> QED BY <2>1
<1> QED BY <1>1, <1>2, <1>3, <1>4, <1>5, <1>6, <1>7, <1>8

(***************************************************************************)
(* On a Tame eraseblock the list is, at every step of the scan, a faithful *)
(* account of the nodes on flash.                                          *)
(***************************************************************************)
THEOREM ListCorrect == ASSUME Tame PROVE Spec => []ListMirrorsFlash
<1>1. Init => ScanInv /\ ListMirrorsFlash
  BY Tame, ScanInit DEF Init, ListMirrorsFlash, InScan
<1>2. ScanInv /\ ListMirrorsFlash /\ [Next]_vars => (ScanInv /\ ListMirrorsFlash)'
  BY ScanStep, ListStep
<1> QED BY <1>1, <1>2, PTL DEF Spec
=============================================================================
