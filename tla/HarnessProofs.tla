--------------------------- MODULE HarnessProofs ----------------------------
(***************************************************************************)
(* Theorems about ScanHarness, for every geometry, every set of nodes to   *)
(* write and every set of starting offsets: what an error pointer tells    *)
(* the caller, and what a scan makes of what the builders have written.    *)
(***************************************************************************)
EXTENDS ScanHarness, ScanRefinementProofs, Crc32Proofs

-----------------------------------------------------------------------------
(* Pointers and error codes. *)

\* The conversion to unsigned long, where long is as wide as a pointer.
LEMMA UnsignedOf ==
  ASSUME LongSpan = PtrSpan
  PROVE  /\ \A p \in 0 .. PtrSpan - 1 : Unsigned(p) = p
         /\ \A e \in 1 .. MAX_ERRNO : Unsigned(-e) = PtrSpan - e
<1>1. LongSpan \in Nat /\ LongSpan > 4 * 4095
  BY WidthAssumption DEF MAX_ERRNO
<1>2. ASSUME NEW p \in 0 .. PtrSpan - 1 PROVE Unsigned(p) = p
  BY <1>1 DEF Unsigned
<1>3. ASSUME NEW e \in 1 .. MAX_ERRNO PROVE Unsigned(-e) = PtrSpan - e
  BY <1>1 DEF Unsigned, MAX_ERRNO
<1> QED
  BY <1>2, <1>3

\* An error pointer counts as one and gives its number back.
LEMMA ErrorPointer ==
  ASSUME LongSpan = PtrSpan, NEW e \in 1 .. MAX_ERRNO
  PROVE  IS_ERR(ERR_PTR(-e)) /\ PTR_ERR(ERR_PTR(-e)) = -e
<1>1. PtrSpan \in Nat /\ PtrSpan > 4 * 4095
  BY WidthAssumption DEF MAX_ERRNO
<1>2. ERR_PTR(-e) = PtrSpan - e /\ PtrSpan - e \in 0 .. PtrSpan - 1
  BY <1>1 DEF ERR_PTR, Pointer, MAX_ERRNO
<1>3. Unsigned(PtrSpan - e) = PtrSpan - e /\ Unsigned(-MAX_ERRNO) = PtrSpan - MAX_ERRNO
  BY <1>2, UnsignedOf DEF MAX_ERRNO
<1>4. IS_ERR(PtrSpan - e)
  BY <1>1, <1>3 DEF IS_ERR, MAX_ERRNO
<1>5. PTR_ERR(PtrSpan - e) = -e
  BY <1>1, <1>3 DEF PTR_ERR, Signed, MAX_ERRNO
<1> QED
  BY <1>2, <1>4, <1>5

\* The address of a list does not.
LEMMA ListPointer ==
  ASSUME LongSpan = PtrSpan, NEW a \in SlebAddrs
  PROVE  ~IS_ERR(a)
<1>1. PtrSpan \in Nat /\ PtrSpan > 4 * 4095 /\ a \in 1 .. PtrSpan - MAX_ERRNO - 1
  BY WidthAssumption, SlebAddrsAssumption DEF MAX_ERRNO
<1>2. Unsigned(a) = a /\ Unsigned(-MAX_ERRNO) = PtrSpan - MAX_ERRNO
  BY <1>1, UnsignedOf DEF MAX_ERRNO
<1> QED
  BY <1>1, <1>2 DEF IS_ERR, MAX_ERRNO

-----------------------------------------------------------------------------
Errors == {-ENOMEM, -EINVAL, -EUCLEAN, -EIO}

RetInv == ret \in {0} \cup Errors

LEMMA ErrorsFit == \A r \in Errors : -r \in 1 .. MAX_ERRNO /\ r = -(-r) /\ r # 0
BY DEF Errors, ENOMEM, EINVAL, EUCLEAN, EIO, MAX_ERRNO

\* Only the scanner fails, and with no other error.
LEMMA ScannerReturns ==
  ASSUME RetInv, Scanner
  PROVE  RetInv'
<1>1. CASE AllocSleb \/ AllocSlebFails
  BY <1>1 DEF RetInv, Errors, AllocSleb, AllocSlebFails
<1>2. ASSUME NEW err \in {0, -EBADMSG, -EIO}, LebRead(err) \/ LebReadFails(err)
      PROVE  RetInv'
  BY <1>2 DEF RetInv, Errors, LebRead, LebReadFails
<1>3. CASE SkipPadding \/ HitEmptySpace \/ AddSnod \/ EndOfLeb
  BY <1>3 DEF RetInv, SkipPadding, HitEmptySpace, AddSnod, EndOfLeb
<1>4. CASE AddSnodFails \/ BadNode \/ UnknownCode \/ Misaligned \/ BadByte
  BY <1>4 DEF RetInv, Errors, AddSnodFails, BadNode, UnknownCode, Misaligned, BadByte,
              Error, Corrupted
<1>5. CASE EndScan \/ SkipWord \/ WordsDone \/ SkipByte \/ ReturnSleb \/ ReadOutside
  BY <1>5 DEF RetInv, EndScan, SkipWord, WordsDone, SkipByte, ReturnSleb, ReadOutside
<1>6. CASE DestroySnod \/ DestroySleb
  BY <1>6 DEF RetInv, DestroySnod, DestroySleb
<1> QED
  BY <1>1, <1>2, <1>3, <1>4, <1>5, <1>6 DEF Scanner

LEMMA HarnessReturns ==
  ASSUME RetInv, [HNext]_hvars
  PROVE  RetInv'
<1>1. CASE (\E k \in Kinds : WriteNode(k)) \/ (\E to \in Addr \cup {LebSize} : WritePadding(to))
  BY <1>1 DEF RetInv, WriteNode, WritePadding, Write
<1>2. CASE Erase
  BY <1>2 DEF RetInv, Erase
<1>3. ASSUME NEW o \in Starts, ScanFrom(o) PROVE RetInv'
  BY <1>3 DEF RetInv, ScanFrom, Call
<1>4. CASE Release
  BY <1>4 DEF RetInv, Release
<1>5. CASE Scanner
  BY <1>5, ScannerReturns
<1>6. CASE UNCHANGED hvars
  BY <1>6 DEF RetInv, hvars, vars
<1> QED
  BY <1>1, <1>2, <1>3, <1>4, <1>5, <1>6 DEF HNext

(***************************************************************************)
(* Where long is as wide as a pointer, IS_ERR tells every error from every *)
(* list and PTR_ERR gives the error back, however the scan has ended and   *)
(* wherever the list has been allocated (ubifs.h:67-69).                   *)
(***************************************************************************)
THEOREM CallerCorrect ==
  ASSUME LongSpan = PtrSpan
  PROVE  HSpec => []CallerKnows
<1>1. HInit => RetInv
  BY DEF HInit, Init, RetInv
<1>2. RetInv /\ [HNext]_hvars => RetInv'
  BY HarnessReturns
<1>3. RetInv => CallerKnows
  <2> SUFFICES ASSUME RetInv, NEW a \in SlebAddrs
               PROVE  /\ IS_ERR(Returned(a)) <=> ret # 0
                      /\ ret # 0 => PTR_ERR(Returned(a)) = ret
    BY DEF CallerKnows
  <2>1. CASE ret = 0
    BY <2>1, ListPointer DEF Returned
  <2>2. CASE ret \in Errors
    <3>1. -ret \in 1 .. MAX_ERRNO /\ ret = -(-ret) /\ ret # 0
      BY <2>2, ErrorsFit
    <3>2. IS_ERR(ERR_PTR(ret)) /\ PTR_ERR(ERR_PTR(ret)) = ret
      BY <3>1, ErrorPointer, Zenon
    <3> QED
      BY <3>1, <3>2 DEF Returned
  <2> QED
    BY <2>1, <2>2 DEF RetInv
<1> QED
  BY <1>1, <1>2, <1>3, PTL DEF HSpec

-----------------------------------------------------------------------------
(***************************************************************************)
(* Rows of tiles in a buffer that is being filled.                         *)
(***************************************************************************)

\* A multiple of the minimal I/O unit is a boundary.
LEMMA UnitIsBoundary ==
  ASSUME NEW x \in 0 .. LebSize, x % MinIoSize = 0
  PROVE  x \in Boundary
<1> DEFINE q == x \div MinIoSize
           p == MinIoSize \div 8
<1>1. MinIoSize \in Nat /\ MinIoSize > 0 /\ MinIoSize % 8 = 0 /\ x \in Nat
  BY GeometryAssumption, Geometry
<1>2. q \in Int /\ x = MinIoSize * q
  <2>1. x = MinIoSize * (x \div MinIoSize) + (x % MinIoSize)
    BY <1>1
  <2> QED
    BY <1>1, <2>1
<1>3. p \in Int /\ MinIoSize = 8 * p
  BY <1>1
<1> HIDE DEF q, p
<1>4. p * q \in Int /\ x = 8 * (p * q)
  BY <1>1, <1>2, <1>3
<1>5. x % 8 = 0
  <2> DEFINE r == p * q
  <2>1. r \in Int /\ x = 8 * r
    BY <1>4
  <2> HIDE DEF r
  <2> QED
    BY <2>1
<1> QED
  BY <1>5 DEF Boundary

\* Two multiples of the unit are a unit apart.
LEMMA NoUnitBetween ==
  ASSUME NEW x \in Nat, NEW y \in Nat, x % MinIoSize = 0, y % MinIoSize = 0,
         y - x \in 1 .. MinIoSize - 1
  PROVE  FALSE
<1> DEFINE q == x \div MinIoSize
           p == y \div MinIoSize
<1>1. MinIoSize \in Nat /\ MinIoSize > 0
  BY GeometryAssumption
<1>2. q \in Int /\ x = MinIoSize * q
  <2>1. x = MinIoSize * (x \div MinIoSize) + (x % MinIoSize)
    BY <1>1
  <2> QED
    BY <1>1, <2>1
<1>3. p \in Int /\ y = MinIoSize * p
  <2>1. y = MinIoSize * (y \div MinIoSize) + (y % MinIoSize)
    BY <1>1
  <2> QED
    BY <1>1, <2>1
<1> HIDE DEF q, p
<1>4. y - x = MinIoSize * (p - q)
  BY <1>1, <1>2, <1>3
<1>5. ~ (p - q >= 1)
  BY <1>1, <1>2, <1>3, <1>4
<1>6. ~ (p - q =< 0)
  BY <1>1, <1>2, <1>3, <1>4
<1> QED
  BY <1>2, <1>3, <1>5, <1>6

\* There is nothing on erased flash.
LEMMA ErasedRow ==
  ASSUME NEW l, IsLeb(l), NEW t \in Boundary, AllFF(l, t, LebSize)
  PROVE  Row(l, t) = [nodes |-> <<>>, end |-> t]
<1>1. t \in Nat /\ t % 8 = 0 /\ t =< LebSize
  BY Geometry DEF Boundary
<1>2. CASE t > LebSize - 8
  BY <1>2, RowUnfolds DEF TileSize
<1>3. CASE ~(t > LebSize - 8)
  <2>1. l.byte[t] = 255
    BY <1>1, <1>3, Geometry DEF AllFF
  <2>2. t \notin DOMAIN l.hdr
    BY <2>1 DEF IsLeb, FirstMagicByte
  <2>3. ~NodeTile(l, t) /\ ~PadTile(l, t)
    BY <2>2 DEF NodeTile, PadTile, Sound
  <2>4. ASSUME NEW m \in {8, 16, 24}
        PROVE  ~RawTile(l, t, m)
    <3>1. t \in t .. t + m - 1
      BY <1>1
    <3> QED
      BY <2>1, <3>1 DEF RawTile, UBIFS_PADDING_BYTE
  <2>5. TileSize(l, t) = {}
    BY <1>3, <2>3, <2>4 DEF TileSize
  <2> QED
    BY <2>5, RowUnfolds
<1> QED
  BY <1>2, <1>3

\* Two images agree below t.
SameBelow(l, m, t) ==
  /\ \A a \in 0 .. t - 1 : m.byte[a] = l.byte[a]
  /\ \A o \in 0 .. t - 1 : o \in DOMAIN m.hdr <=> o \in DOMAIN l.hdr
  /\ \A o \in 0 .. t - 1 : o \in DOMAIN l.hdr => m.hdr[o] = l.hdr[o]

\* Raw padding of the first image up to t does not go on in the second one.
Seam(l, m, t) ==
  (0 < t /\ t < LebSize /\ l.byte[t - 1] = UBIFS_PADDING_BYTE) =>
    m.byte[t] # UBIFS_PADDING_BYTE

\* A node below t stays what it is.
LEMMA NodeKept ==
  ASSUME NEW l, NEW m, IsLeb(l), WellRanged(l), NEW t \in Boundary, SameBelow(l, m, t),
         NEW o \in Nat, Sound(l, o), o + l.hdr[o].len =< t
  PROVE  /\ m.hdr[o] = l.hdr[o] /\ Sound(m, o)
         /\ NodeTile(l, o) <=> NodeTile(m, o)
         /\ PadTile(l, o) <=> PadTile(m, o)
         /\ Snod(m, o, o) = Snod(l, o, o)
<1>1. o \in DOMAIN l.hdr /\ l.hdr[o].len \in Int /\ l.hdr[o].len >= 24 /\ t \in Nat
  BY Geometry DEF Sound, IsLeb, Header, CInt, UBIFS_CH_SZ, Boundary
<1>2. o \in 0 .. t - 1
  BY <1>1
<1>3. m.hdr[o] = l.hdr[o] /\ o \in DOMAIN m.hdr
  BY <1>1, <1>2 DEF SameBelow
<1>4. Sound(m, o)
  BY <1>3 DEF Sound
<1>5. (NodeTile(l, o) <=> NodeTile(m, o)) /\ (PadTile(l, o) <=> PadTile(m, o))
  BY <1>3, <1>4 DEF NodeTile, PadTile
<1>6. l.hdr[o].type \in KeyedTypes => key_read(m, o + UBIFS_CH_SZ) = key_read(l, o + UBIFS_CH_SZ)
  <2> SUFFICES ASSUME l.hdr[o].type \in KeyedTypes, NEW i \in 1 .. UBIFS_MAX_KEY_LEN
               PROVE  m.byte[o + UBIFS_CH_SZ + i - 1] = l.byte[o + UBIFS_CH_SZ + i - 1]
    BY DEF key_read
  <2>1. l.hdr[o].len >= 40
    BY <1>1 DEF WellRanged, UBIFS_CH_SZ, UBIFS_MAX_KEY_LEN
  <2>2. o + UBIFS_CH_SZ + i - 1 \in 0 .. t - 1
    BY <1>1, <2>1 DEF UBIFS_CH_SZ, UBIFS_MAX_KEY_LEN
  <2> QED
    BY <2>2 DEF SameBelow
<1>7. Snod(m, o, o) = Snod(l, o, o)
  BY <1>3, <1>6 DEF Snod
<1> QED
  BY <1>3, <1>4, <1>5, <1>7

\* A tile below t stays what it is, unless raw padding is written behind raw padding.
LEMMA TileKept ==
  ASSUME NEW l, NEW m, IsLeb(l), IsLeb(m), WellRanged(l), NEW t \in Boundary,
         SameBelow(l, m, t),
         Seam(l, m, t),
         NEW o \in Boundary, NEW n \in TileSize(l, o), o + n =< t
  PROVE  /\ n \in TileSize(m, o)
         /\ NodeTile(l, o) <=> NodeTile(m, o)
         /\ NodeTile(l, o) => Entry(m, o) = Entry(l, o)
<1>1. o \in Nat /\ t \in Nat /\ t =< LebSize /\ n \in Nat /\ n > 0 /\ ~(o > LebSize - 8)
  BY OneTile, Geometry DEF Boundary, TileSize
<1>2. CASE NodeTile(l, o)
  <2>1. Sound(l, o) /\ l.hdr[o].len \in Int
    BY <1>2 DEF NodeTile, Sound, IsLeb, Header, CInt
  <2>2. n = ALIGN(l.hdr[o].len, 8)
    BY <1>1, <1>2 DEF TileSize
  <2>3. o + l.hdr[o].len =< t
    BY <1>1, <2>1, <2>2, AlignUp
  <2>4. m.hdr[o] = l.hdr[o] /\ NodeTile(m, o) /\ Snod(m, o, o) = Snod(l, o, o)
    BY <1>1, <1>2, <2>1, <2>3, NodeKept
  <2>5. Entry(m, o) = Entry(l, o)
    BY <1>1, <2>4, EntryIsSnod
  <2> QED
    BY <1>1, <1>2, <2>2, <2>4, <2>5 DEF TileSize
<1>3. CASE ~NodeTile(l, o) /\ PadTile(l, o)
  <2>1. Sound(l, o) /\ l.hdr[o].len \in Int /\ l.hdr[o].pad_len \in Nat
    BY <1>1, <1>3, Geometry DEF PadTile, Sound, IsLeb, Header, CInt
  <2>2. n = l.hdr[o].len + l.hdr[o].pad_len
    BY <1>1, <1>3 DEF TileSize
  <2>3. o + l.hdr[o].len =< t
    BY <1>1, <2>1, <2>2
  <2>4. m.hdr[o] = l.hdr[o] /\ ~NodeTile(m, o) /\ PadTile(m, o)
    BY <1>1, <1>3, <2>1, <2>3, NodeKept
  <2> QED
    BY <1>1, <1>3, <2>2, <2>4 DEF TileSize
<1>4. CASE ~NodeTile(l, o) /\ ~PadTile(l, o)
  <2>1. n \in {8, 16, 24} /\ RawTile(l, o, n)
    BY <1>1, <1>4 DEF TileSize
  <2>2. \A a \in o .. o + n - 1 : a \in 0 .. t - 1 /\ m.byte[a] = UBIFS_PADDING_BYTE
    BY <1>1, <2>1 DEF RawTile, SameBelow
  <2>3. o + n < LebSize => m.byte[o + n] # UBIFS_PADDING_BYTE
    <3>1. CASE o + n < t
      <4>1. o + n \in 0 .. t - 1
        BY <1>1, <3>1
      <4> QED
        BY <1>1, <2>1, <3>1, <4>1 DEF RawTile, SameBelow
    <3>2. CASE o + n = t
      <4>1. t - 1 \in o .. o + n - 1
        BY <1>1, <3>2
      <4> QED
        BY <1>1, <2>1, <3>2, <4>1 DEF RawTile, Seam
    <3> QED
      BY <1>1, <3>1, <3>2
  <2>4. RawTile(m, o, n)
    BY <2>1, <2>2, <2>3 DEF RawTile
  <2>5. o \in o .. o + n - 1
    BY <1>1
  <2>6. o \notin DOMAIN m.hdr
    BY <2>2, <2>5 DEF IsLeb, FirstMagicByte, UBIFS_PADDING_BYTE
  <2>7. ~NodeTile(m, o) /\ ~PadTile(m, o)
    BY <2>6 DEF NodeTile, PadTile, Sound
  <2> QED
    BY <1>1, <1>4, <2>1, <2>4, <2>7 DEF TileSize
<1> QED
  BY <1>2, <1>3, <1>4

\* The row of the second image from o on is that of the first and what follows.
GoesOn(l, m, t, o) ==
  /\ Row(m, o).nodes = Row(l, o).nodes \o Row(m, t).nodes
  /\ Row(m, o).end = Row(m, t).end

\* Three pieces of a list, put together in either order.
LEMMA Regrouped ==
  ASSUME NEW s \in Seq(ScanNode), NEW t \in Seq(ScanNode), NEW u \in Seq(ScanNode)
  PROVE  s \o (t \o u) = (s \o t) \o u
BY ConcatAssociative, SMTT(30)

\* A row that reaches t goes on with what is written from t on.
LEMMA RowExtends ==
  ASSUME NEW l, NEW m, IsLeb(l), WellRanged(l), PadLenFits(l),
         IsLeb(m), WellRanged(m), PadLenFits(m), NEW t \in Boundary, SameBelow(l, m, t),
         Seam(l, m, t)
  PROVE  \A o \in Boundary : Row(l, o).end = t => GoesOn(l, m, t, o)
<1> DEFINE T == {o \in 0 .. LebSize : (o \in Boundary /\ Row(l, o).end = t) => GoesOn(l, m, t, o)}
<1>1. \A o \in Boundary : o \in Nat /\ o \in 0 .. LebSize
  BY Geometry DEF Boundary
<1>2. Row(m, t).nodes \in Seq(ScanNode)
  BY RowIsTyped
<1>3. ASSUME NEW o \in 0 .. LebSize, \A p \in o + 1 .. LebSize : p \in T, o \in Boundary,
             Row(l, o).end = t
      PROVE  GoesOn(l, m, t, o)
  <2>1. CASE TileSize(l, o) = {}
    <3>1. Row(l, o) = [nodes |-> <<>>, end |-> o]
      BY <1>3, <2>1, RowUnfolds
    <3>2. o = t /\ Row(l, o).nodes = <<>>
      BY <1>3, <3>1
    <3>3. <<>> \o Row(m, t).nodes = Row(m, t).nodes
      BY <1>2, ConcatEmptySeq
    <3> QED
      BY <3>2, <3>3 DEF GoesOn
  <2>2. ASSUME NEW n \in TileSize(l, o)
        PROVE  GoesOn(l, m, t, o)
    <3> DEFINE here == IF NodeTile(l, o) THEN <<Entry(l, o)>> ELSE <<>>
               rest == Row(l, o + n).nodes
               more == Row(m, t).nodes
    <3>1. n \in Nat /\ n > 0 /\ o + n \in Boundary
      BY <1>3, OneTile
    <3>2. Row(l, o) = [nodes |-> here \o rest, end |-> Row(l, o + n).end]
      BY <1>3, RowUnfolds
    <3>3. Row(l, o + n).end = t /\ o + n =< t /\ rest \in Seq(ScanNode)
      BY <1>3, <3>1, <3>2, RowIsTyped
    <3>4. Row(m, o + n).nodes = rest \o more /\ Row(m, o + n).end = Row(m, t).end
      <4>1. o + n \in o + 1 .. LebSize
        BY <1>1, <3>1
      <4> QED
        BY <1>3, <3>1, <3>3, <4>1 DEF GoesOn
    <3>5. /\ n \in TileSize(m, o)
          /\ NodeTile(l, o) <=> NodeTile(m, o)
          /\ NodeTile(l, o) => Entry(m, o) = Entry(l, o)
      BY <1>3, <3>3, TileKept
    <3>6. here = IF NodeTile(m, o) THEN <<Entry(m, o)>> ELSE <<>>
      BY <3>5
    <3>7. here \in Seq(ScanNode)
      <4>1. o =< LebSize - 8
        BY <1>1, <1>3, Geometry DEF TileSize
      <4>2. NodeTile(l, o) => <<Entry(l, o)>> \in Seq(ScanNode)
        BY <1>3, <4>1, EntryIsTyped
      <4>3. <<>> \in Seq(ScanNode)
        BY EmptySeq
      <4> QED
        BY <4>2, <4>3, Zenon
    <3>8. Row(m, o) = [nodes |-> here \o Row(m, o + n).nodes, end |-> Row(m, o + n).end]
      <4> DEFINE read == IF NodeTile(m, o) THEN <<Entry(m, o)>> ELSE <<>>
      <4>1. n \in TileSize(m, o) /\ IsLeb(m)
        BY <3>5
      <4>2. Row(m, o) = [nodes |-> read \o Row(m, o + n).nodes, end |-> Row(m, o + n).end]
        BY <1>3, <4>1, RowUnfolds
      <4>3. here = read
        BY <3>6
      <4> HIDE DEF here, read
      <4> QED
        BY <4>2, <4>3, Zenon
    <3> HIDE DEF here, rest, more
    <3>9. here \o (rest \o more) = (here \o rest) \o more
      <4>1. more \in Seq(ScanNode)
        BY <1>2 DEF more
      <4>2. rest \in Seq(ScanNode) /\ here \in Seq(ScanNode)
        BY <3>3, <3>7
      <4> QED
        BY <4>1, <4>2, Regrouped, Zenon
    <3>10. Row(m, o).nodes = here \o (rest \o more) /\ Row(m, o).end = Row(m, t).end
      <4>1. Row(m, o).nodes = here \o Row(m, o + n).nodes /\ Row(m, o).end = Row(m, o + n).end
        BY <3>8
      <4> QED
        BY <3>4, <4>1, Zenon
    <3>11. Row(l, o).nodes = here \o rest
      BY <3>2
    <3> QED
      BY <3>9, <3>10, <3>11 DEF more, GoesOn
  <2> QED
    BY <2>1, <2>2
<1>4. \A o \in 0 .. LebSize : o \in T
  <2>1. \A o \in 0 .. LebSize : (\A p \in o + 1 .. LebSize : p \in T) => o \in T
    BY <1>3
  <2> HIDE DEF T
  <2> QED
    BY <2>1, Descent, Geometry
<1> QED
  BY <1>1, <1>4

-----------------------------------------------------------------------------
(* The builders. *)

\* Where the writer has got to: erased flash begins, and no header reaches behind it.
WrittenUpTo(l, t) ==
  /\ AllFF(l, t, LebSize)
  /\ \A o \in DOMAIN l.hdr : o + UBIFS_CH_SZ =< t

\* memset behind all that has been written.
LEMMA MemsetBehind ==
  ASSUME NEW l, IsLeb(l), NEW t \in 0 .. LebSize, WrittenUpTo(l, t),
         NEW b \in Byte, NEW n \in Nat, t + n =< LebSize,
         NEW m, m = Memset(l, t, b, n)
  PROVE  /\ m.byte = [a \in Addr |-> IF a \in t .. t + n - 1 THEN b ELSE l.byte[a]]
         /\ DOMAIN m.hdr = DOMAIN l.hdr
         /\ \A o \in DOMAIN l.hdr : m.hdr[o] = l.hdr[o]
<1> DEFINE kept == {o \in DOMAIN l.hdr : (o .. o + UBIFS_CH_SZ - 1) \cap (t .. t + n - 1) = {}}
<1>1. kept = DOMAIN l.hdr
  <2> SUFFICES ASSUME NEW o \in DOMAIN l.hdr, NEW a \in o .. o + UBIFS_CH_SZ - 1,
                      a \in t .. t + n - 1
               PROVE  FALSE
    OBVIOUS
  <2>1. o \in Nat /\ o + UBIFS_CH_SZ =< t /\ t \in Nat
    BY Geometry DEF WrittenUpTo, IsLeb, Addr
  <2> QED
    BY <2>1 DEF UBIFS_CH_SZ
<1>2. m = [byte |-> [a \in Addr |-> IF a \in t .. t + n - 1 THEN b ELSE l.byte[a]],
           hdr  |-> [o \in kept |-> l.hdr[o]]]
  BY DEF Memset
<1> HIDE DEF kept
<1> QED
  BY <1>1, <1>2

\* A header and zeros: what ut_make_node and ut_make_pad_node have in common.
LEMMA NodePut ==
  ASSUME NEW l, IsLeb(l), NEW t \in Boundary, WrittenUpTo(l, t),
         NEW type \in Byte, NEW n \in Nat, n >= UBIFS_CH_SZ, t + n =< LebSize,
         NEW sqnum \in Nat, NEW pad_len \in CInt,
         NEW m, m = PutHeader(Memset(l, t, 0, n), t, SealedHeader(type, n, sqnum, pad_len))
  PROVE  /\ IsLeb(m)
         /\ SameBelow(l, m, t)
         /\ \A end \in t + n .. LebSize : WrittenUpTo(m, end)
         /\ \A a \in t + 1 .. t + n - 1 : m.byte[a] = 0
         /\ \A a \in t + n .. LebSize - 1 : m.byte[a] = 255
         /\ m.byte[t] = FirstMagicByte
         /\ DOMAIN m.hdr = DOMAIN l.hdr \cup {t}
         /\ m.hdr[t] = SealedHeader(type, n, sqnum, pad_len)
         /\ \A o \in DOMAIN l.hdr : m.hdr[o] = l.hdr[o]
<1> DEFINE k == Memset(l, t, 0, n)
           h == SealedHeader(type, n, sqnum, pad_len)
<1>1. t \in Nat /\ t \in 0 .. LebSize /\ n >= 24 /\ LebSize \in Nat
  BY Geometry DEF Boundary, UBIFS_CH_SZ
<1>2. 0 \in Byte
  BY DEF Byte
<1>3. /\ k.byte = [a \in Addr |-> IF a \in t .. t + n - 1 THEN 0 ELSE l.byte[a]]
      /\ DOMAIN k.hdr = DOMAIN l.hdr
      /\ \A o \in DOMAIN l.hdr : k.hdr[o] = l.hdr[o]
  BY <1>1, <1>2, MemsetBehind
<1>4. m = PutHeader(k, t, h)
  OBVIOUS
<1> HIDE DEF k, h
<1>5. /\ m.byte = [k.byte EXCEPT ![t] = FirstMagicByte]
      /\ DOMAIN m.hdr = DOMAIN l.hdr \cup {t}
      /\ \A o \in DOMAIN m.hdr : m.hdr[o] = IF o = t THEN h ELSE k.hdr[o]
  BY <1>3, <1>4 DEF PutHeader
<1>6. t \in Addr /\ \A o \in DOMAIN l.hdr : o \in Nat /\ o < t
  BY <1>1 DEF Addr, IsLeb, WrittenUpTo, UBIFS_CH_SZ
<1>7. m.byte = [a \in Addr |-> IF a = t THEN FirstMagicByte
                               ELSE IF a \in t .. t + n - 1 THEN 0 ELSE l.byte[a]]
  BY <1>3, <1>5, <1>6
<1>8. /\ \A o \in DOMAIN l.hdr : m.hdr[o] = l.hdr[o]
      /\ m.hdr[t] = h
  <2>1. ASSUME NEW o \in DOMAIN l.hdr
        PROVE  m.hdr[o] = l.hdr[o]
    <3>1. o # t
      BY <1>1, <1>6
    <3> QED
      BY <1>3, <1>5, <3>1
  <2> QED
    BY <1>5, <2>1
<1>9. h \in Header
  <2>1. n \in CInt
    BY <1>1, Geometry DEF CInt
  <2> QED
    BY <2>1 DEF h, SealedHeader, Header
<1>10. IsLeb(m)
  <2>1. m.byte \in [Addr -> Byte]
    <3>1. l.byte \in [Addr -> Byte] /\ FirstMagicByte \in Byte
      BY DEF IsLeb, FirstMagicByte, Byte
    <3> QED
      BY <1>2, <1>7, <3>1
  <2>2. DOMAIN m.hdr \subseteq Addr
    BY <1>5, <1>6 DEF IsLeb
  <2>3. ASSUME NEW o \in DOMAIN m.hdr
        PROVE  m.hdr[o] \in Header /\ m.byte[o] = FirstMagicByte
    <3>1. CASE o = t
      BY <1>6, <1>7, <1>8, <1>9, <3>1
    <3>2. CASE o \in DOMAIN l.hdr
      <4>1. o \in Addr /\ o # t /\ o \notin t .. t + n - 1
        BY <1>1, <1>6, <3>2 DEF IsLeb
      <4> QED
        BY <1>7, <1>8, <3>2, <4>1 DEF IsLeb
    <3> QED
      BY <1>5, <3>1, <3>2
  <2> QED
    BY <2>1, <2>2, <2>3 DEF IsLeb
<1>11. SameBelow(l, m, t)
  <2>1. \A a \in 0 .. t - 1 : m.byte[a] = l.byte[a]
    BY <1>1, <1>7 DEF Addr
  <2>2. t \notin 0 .. t - 1
    BY <1>1
  <2> QED
    BY <1>5, <1>8, <2>1, <2>2 DEF SameBelow
<1>12. \A a \in t + n .. LebSize - 1 : m.byte[a] = 255
  BY <1>1, <1>7 DEF Addr, WrittenUpTo, AllFF
<1>13. ASSUME NEW end \in t + n .. LebSize
       PROVE  WrittenUpTo(m, end)
  <2>1. AllFF(m, end, LebSize)
    BY <1>1, <1>12 DEF AllFF
  <2>2. \A o \in DOMAIN l.hdr : o + UBIFS_CH_SZ =< end
    BY <1>1, <1>6 DEF WrittenUpTo, UBIFS_CH_SZ
  <2>3. t + UBIFS_CH_SZ =< end
    BY <1>1 DEF UBIFS_CH_SZ
  <2> QED
    BY <1>5, <2>1, <2>2, <2>3 DEF WrittenUpTo
<1>14. \A a \in t + 1 .. t + n - 1 : m.byte[a] = 0
  BY <1>1, <1>7 DEF Addr
<1>15. m.byte[t] = FirstMagicByte
  BY <1>6, <1>7
<1> QED
  BY <1>5, <1>8, <1>10, <1>11, <1>12, <1>13, <1>14, <1>15 DEF h

\* Padding bytes up to end.
LEMMA BytesPut ==
  ASSUME NEW l, IsLeb(l), NEW t \in Boundary, WrittenUpTo(l, t),
         NEW end \in Nat, t < end, end =< LebSize,
         NEW m, m = Memset(l, t, UBIFS_PADDING_BYTE, end - t)
  PROVE  /\ IsLeb(m)
         /\ SameBelow(l, m, t)
         /\ WrittenUpTo(m, end)
         /\ \A a \in t .. end - 1 : m.byte[a] = UBIFS_PADDING_BYTE
         /\ DOMAIN m.hdr = DOMAIN l.hdr
         /\ \A o \in DOMAIN l.hdr : m.hdr[o] = l.hdr[o]
<1>1. t \in Nat /\ t \in 0 .. LebSize /\ LebSize \in Nat /\ end - t \in Nat
      /\ t + (end - t) = end
  BY Geometry DEF Boundary
<1>2. UBIFS_PADDING_BYTE \in Byte
  BY DEF Byte, UBIFS_PADDING_BYTE
<1>3. /\ m.byte = [a \in Addr |-> IF a \in t .. t + (end - t) - 1 THEN UBIFS_PADDING_BYTE
                                  ELSE l.byte[a]]
      /\ DOMAIN m.hdr = DOMAIN l.hdr
      /\ \A o \in DOMAIN l.hdr : m.hdr[o] = l.hdr[o]
  BY <1>1, <1>2, MemsetBehind
<1>4. m.byte = [a \in Addr |-> IF a \in t .. end - 1 THEN UBIFS_PADDING_BYTE ELSE l.byte[a]]
  BY <1>1, <1>3
<1>5. \A o \in DOMAIN l.hdr : o \in Nat /\ o + 24 =< t
  BY <1>1 DEF Addr, IsLeb, WrittenUpTo, UBIFS_CH_SZ
<1>6. IsLeb(m)
  <2>1. l.byte \in [Addr -> Byte] /\ m.byte \in [Addr -> Byte]
    BY <1>2, <1>4 DEF IsLeb
  <2>2. ASSUME NEW o \in DOMAIN m.hdr
        PROVE  o \in Addr /\ m.hdr[o] \in Header /\ m.byte[o] = FirstMagicByte
    <3>1. o \in DOMAIN l.hdr /\ o \in Addr /\ o \notin t .. end - 1
      BY <1>1, <1>3, <1>5 DEF IsLeb
    <3> QED
      BY <1>3, <1>4, <3>1 DEF IsLeb
  <2> QED
    BY <2>1, <2>2 DEF IsLeb
<1>7. SameBelow(l, m, t)
  <2>1. \A a \in 0 .. t - 1 : m.byte[a] = l.byte[a]
    BY <1>1, <1>4 DEF Addr
  <2> QED
    BY <1>3, <2>1 DEF SameBelow
<1>8. WrittenUpTo(m, end)
  <2>1. AllFF(m, end, LebSize)
    BY <1>1, <1>4 DEF AllFF, Addr, WrittenUpTo
  <2> QED
    BY <1>1, <1>3, <1>5, <2>1 DEF WrittenUpTo, UBIFS_CH_SZ
<1>9. \A a \in t .. end - 1 : m.byte[a] = UBIFS_PADDING_BYTE
  BY <1>1, <1>4 DEF Addr
<1> QED
  BY <1>3, <1>6, <1>7, <1>8, <1>9

\* A node that is written is a tile of the row, and what is read is what was written.
LEMMA NodeRow ==
  ASSUME NEW l, IsLeb(l), NEW t \in Boundary, WrittenUpTo(l, t),
         NEW type \in Byte \ {UBIFS_PAD_NODE}, NEW n \in Nat, n >= UBIFS_CH_SZ,
         type \in KeyedTypes => n >= UBIFS_CH_SZ + UBIFS_MAX_KEY_LEN,
         NEW sqnum \in Nat, NEW m, m = ut_make_node(l, t, type, n, sqnum),
         NEW end, end = ALIGN(t + n, 8), end =< LebSize,
         NEW node, node = [sqnum |-> sqnum, type |-> type, offs |-> t, len |-> n, key |-> ZeroKey]
  PROVE  /\ IsLeb(m) /\ SameBelow(l, m, t) /\ WrittenUpTo(m, end)
         /\ end \in Boundary /\ t + n =< end
         /\ Sound(m, t) /\ Snod(m, t, t) = node
         /\ Row(m, t) = [nodes |-> <<node>>, end |-> end]
         /\ m.byte[t] = FirstMagicByte /\ m.byte[end - 1] # UBIFS_PADDING_BYTE
         /\ DOMAIN m.hdr = DOMAIN l.hdr \cup {t}
         /\ m.hdr[t] = SealedHeader(type, n, sqnum, 0)
         /\ \A o \in DOMAIN l.hdr : m.hdr[o] = l.hdr[o]
<1>1. t \in Nat /\ t % 8 = 0 /\ n >= 24 /\ LebSize \in Nat /\ LebSize % 8 = 0
  BY Geometry DEF Boundary, UBIFS_CH_SZ
<1>2. end \in Nat /\ end % 8 = 0 /\ t + n =< end /\ end \in Boundary
      /\ end = t + ALIGN(n, 8) /\ end < t + n + 8
  <2>1. end % 8 = 0 /\ t + n =< end /\ end \in Int
    BY <1>1, AlignUp
  <2>2. end = t + ALIGN(n, 8) /\ end < t + n + 8
    BY <1>1 DEF ALIGN
  <2> QED
    BY <1>1, <2>1, <2>2 DEF Boundary
<1>3. /\ IsLeb(m) /\ SameBelow(l, m, t) /\ WrittenUpTo(m, end)
      /\ \A a \in t + 1 .. t + n - 1 : m.byte[a] = 0
      /\ \A a \in t + n .. LebSize - 1 : m.byte[a] = 255
      /\ m.byte[t] = FirstMagicByte
      /\ DOMAIN m.hdr = DOMAIN l.hdr \cup {t}
      /\ m.hdr[t] = SealedHeader(type, n, sqnum, 0)
      /\ \A o \in DOMAIN l.hdr : m.hdr[o] = l.hdr[o]
  <2>1. m = PutHeader(Memset(l, t, 0, n), t, SealedHeader(type, n, sqnum, 0))
    BY DEF ut_make_node
  <2>2. t + n =< LebSize /\ end \in t + n .. LebSize /\ 0 \in CInt /\ type \in Byte
    BY <1>1, <1>2, Geometry
  <2> QED
    BY <2>1, <2>2, NodePut
<1>4. /\ m.hdr[t].type = type /\ m.hdr[t].len = n /\ m.hdr[t].sqnum = sqnum
      /\ m.hdr[t].crc = ut_crc32(m.hdr[t]) /\ t \in DOMAIN m.hdr
  BY <1>3 DEF SealedHeader, ut_crc32
<1>5. Sound(m, t) /\ NodeTile(m, t)
  <2>1. n \in UBIFS_CH_SZ .. LebSize - t
    BY <1>1, <1>2 DEF UBIFS_CH_SZ
  <2> QED
    BY <1>4, <2>1 DEF Sound, NodeTile
<1>6. Snod(m, t, t) = node
  <2>1. type \in KeyedTypes => key_read(m, t + UBIFS_CH_SZ) = ZeroKey
    <3> SUFFICES ASSUME type \in KeyedTypes, NEW i \in 1 .. UBIFS_MAX_KEY_LEN
                 PROVE  m.byte[t + UBIFS_CH_SZ + i - 1] = 0
      BY DEF key_read, ZeroKey
    <3>1. t + UBIFS_CH_SZ + i - 1 \in t + 1 .. t + n - 1
      BY <1>1 DEF UBIFS_CH_SZ, UBIFS_MAX_KEY_LEN
    <3> QED
      BY <1>3, <3>1
  <2> QED
    BY <1>4, <2>1 DEF Snod
<1>7. Row(m, t) = [nodes |-> <<node>>, end |-> end]
  <2>1. TileSize(m, t) = {ALIGN(n, 8)}
    BY <1>1, <1>2, <1>4, <1>5 DEF TileSize
  <2>2. Entry(m, t) = node
    BY <1>1, <1>6, EntryIsSnod
  <2>3. ALIGN(n, 8) \in TileSize(m, t)
    BY <2>1
  <2>4. Row(m, t) = [nodes |-> <<node>> \o Row(m, end).nodes, end |-> Row(m, end).end]
    <3> DEFINE here == IF NodeTile(m, t) THEN <<Entry(m, t)>> ELSE <<>>
               size == ALIGN(n, 8)
    <3>1. here = <<node>> /\ t + size = end
      BY <1>2, <1>5, <2>2
    <3>2. Row(m, t) = [nodes |-> here \o Row(m, t + size).nodes, end |-> Row(m, t + size).end]
      <4>1. IsLeb(m)
        BY <1>3
      <4>2. size \in TileSize(m, t)
        BY <2>3
      <4> HIDE DEF size
      <4> QED
        BY <4>1, <4>2, RowUnfolds, ZenonT(60)
    <3> HIDE DEF here, size
    <3> QED
      BY <3>1, <3>2, Zenon
  <2>5. Row(m, end) = [nodes |-> <<>>, end |-> end]
    BY <1>2, <1>3, ErasedRow DEF WrittenUpTo
  <2>6. <<node>> \o <<>> = <<node>>
    <3>1. <<node>> \in Seq({node})
      OBVIOUS
    <3> QED
      BY <3>1, ConcatEmptySeq
  <2>7. Row(m, end).nodes = <<>> /\ Row(m, end).end = end
    BY <2>5
  <2> QED
    BY <2>4, <2>6, <2>7, Zenon
<1>8. m.byte[end - 1] # UBIFS_PADDING_BYTE
  <2>1. end - 1 \in t + 1 .. t + n - 1 \/ end - 1 \in t + n .. LebSize - 1
    BY <1>1, <1>2
  <2> QED
    BY <1>3, <2>1 DEF UBIFS_PADDING_BYTE
<1> QED
  BY <1>2, <1>3, <1>5, <1>6, <1>7, <1>8

\* Padding is a tile that holds no node.
LEMMA PaddingRow ==
  ASSUME NEW l, IsLeb(l), NEW t \in Boundary, WrittenUpTo(l, t),
         NEW end \in Boundary, t < end, NEW sqnum \in Nat, NEW m, m = Fill(l, t, end, sqnum)
  PROVE  /\ IsLeb(m) /\ SameBelow(l, m, t) /\ WrittenUpTo(m, end)
         /\ Row(m, t) = [nodes |-> <<>>, end |-> end]
         /\ end - t >= UBIFS_PAD_NODE_SZ =>
              /\ m.byte[t] = FirstMagicByte
              /\ DOMAIN m.hdr = DOMAIN l.hdr \cup {t}
              /\ m.hdr[t] = SealedHeader(UBIFS_PAD_NODE, UBIFS_PAD_NODE_SZ, sqnum,
                                         end - t - UBIFS_PAD_NODE_SZ)
         /\ end - t < UBIFS_PAD_NODE_SZ => DOMAIN m.hdr = DOMAIN l.hdr
         /\ \A o \in DOMAIN l.hdr : m.hdr[o] = l.hdr[o]
<1>1. t \in Nat /\ t % 8 = 0 /\ end \in Nat /\ end % 8 = 0 /\ end =< LebSize
      /\ LebSize \in Nat /\ LebSize % 8 = 0 /\ t =< LebSize - 8 /\ ~(t > LebSize - 8)
  BY Geometry DEF Boundary
<1>2. ASSUME WrittenUpTo(m, end), IsLeb(m), NEW size, size = end - t,
             TileSize(m, t) = {size}, ~NodeTile(m, t)
      PROVE  Row(m, t) = [nodes |-> <<>>, end |-> end]
  <2>1. t + size = end /\ size \in TileSize(m, t)
    BY <1>1, <1>2
  <2>2. Row(m, t) = [nodes |-> <<>> \o Row(m, end).nodes, end |-> Row(m, end).end]
    <3> DEFINE here == IF NodeTile(m, t) THEN <<Entry(m, t)>> ELSE <<>>
    <3>1. here = <<>>
      BY <1>2
    <3>2. Row(m, t) = [nodes |-> here \o Row(m, t + size).nodes, end |-> Row(m, t + size).end]
      <4>1. IsLeb(m) /\ size \in TileSize(m, t)
        BY <1>2, <2>1
      <4> QED
        BY <4>1, RowUnfolds
    <3> HIDE DEF here
    <3> QED
      BY <2>1, <3>1, <3>2, Zenon
  <2>3. Row(m, end) = [nodes |-> <<>>, end |-> end]
    BY <1>2, ErasedRow DEF WrittenUpTo
  <2>4. Row(m, end).nodes = <<>> /\ Row(m, end).end = end
    BY <2>3
  <2>5. <<>> \o <<>> = <<>>
    <3>1. <<>> \in Seq({})
      BY EmptySeq
    <3> QED
      BY <3>1, ConcatEmptySeq
  <2> QED
    BY <2>2, <2>4, <2>5, Zenon
<1>3. CASE end - t >= UBIFS_PAD_NODE_SZ
  <2> DEFINE n   == UBIFS_PAD_NODE_SZ
             pad == end - t - UBIFS_PAD_NODE_SZ
  <2>1. n = 28 /\ n \in Nat /\ n >= UBIFS_CH_SZ /\ t + n =< end
    BY <1>1, <1>3 DEF UBIFS_PAD_NODE_SZ, UBIFS_CH_SZ
  <2>2. pad \in Nat /\ pad =< LebSize - t - n /\ n + pad = end - t /\ pad \in CInt
    BY <1>1, <1>3, Geometry DEF UBIFS_PAD_NODE_SZ, CInt
  <2>3. m = PutHeader(Memset(l, t, 0, n), t, SealedHeader(UBIFS_PAD_NODE, n, sqnum, pad))
    BY <1>3 DEF Fill, ut_make_pad_node
  <2>4. UBIFS_PAD_NODE \in Byte /\ end \in t + n .. LebSize /\ t + n =< LebSize
    BY <1>1, <2>1 DEF UBIFS_PAD_NODE, Byte
  <2> HIDE DEF n, pad
  <2>5. /\ IsLeb(m) /\ SameBelow(l, m, t) /\ WrittenUpTo(m, end)
        /\ m.byte[t] = FirstMagicByte
        /\ DOMAIN m.hdr = DOMAIN l.hdr \cup {t}
        /\ m.hdr[t] = SealedHeader(UBIFS_PAD_NODE, n, sqnum, pad)
        /\ \A o \in DOMAIN l.hdr : m.hdr[o] = l.hdr[o]
    BY <2>1, <2>2, <2>3, <2>4, NodePut
  <2>6. /\ m.hdr[t].type = UBIFS_PAD_NODE /\ m.hdr[t].len = n /\ m.hdr[t].pad_len = pad
        /\ m.hdr[t].crc = ut_crc32(m.hdr[t]) /\ t \in DOMAIN m.hdr
    BY <2>5 DEF SealedHeader, ut_crc32
  <2>7. Sound(m, t)
    <3>1. n \in UBIFS_CH_SZ .. LebSize - t
      BY <1>1, <2>1, <2>4 DEF UBIFS_CH_SZ
    <3> QED
      BY <2>6, <3>1 DEF Sound
  <2>8. ~NodeTile(m, t) /\ PadTile(m, t)
    <3>1. pad \in 0 .. LebSize - t - n /\ (n + pad) % 8 = 0
      BY <1>1, <2>1, <2>2
    <3> QED
      BY <2>6, <2>7, <3>1 DEF NodeTile, PadTile
  <2>9. TileSize(m, t) = {n + pad}
    BY <1>1, <2>6, <2>8 DEF TileSize
  <2>10. Row(m, t) = [nodes |-> <<>>, end |-> end]
    BY <1>2, <2>2, <2>5, <2>8, <2>9
  <2> QED
    BY <1>1, <1>3, <2>5, <2>10 DEF n, pad, UBIFS_PAD_NODE_SZ
<1>4. CASE end - t < UBIFS_PAD_NODE_SZ
  <2>1. m = Memset(l, t, UBIFS_PADDING_BYTE, end - t)
    BY <1>1, <1>4 DEF Fill, UBIFS_PAD_NODE_SZ
  <2>2. /\ IsLeb(m) /\ SameBelow(l, m, t) /\ WrittenUpTo(m, end)
        /\ \A a \in t .. end - 1 : m.byte[a] = UBIFS_PADDING_BYTE
        /\ DOMAIN m.hdr = DOMAIN l.hdr
        /\ \A o \in DOMAIN l.hdr : m.hdr[o] = l.hdr[o]
    BY <1>1, <2>1, BytesPut
  <2> DEFINE size == end - t
  <2>3. size \in {8, 16, 24} /\ t + size = end
    BY <1>1, <1>4 DEF UBIFS_PAD_NODE_SZ
  <2> HIDE DEF size
  <2>4. t \in t .. end - 1 /\ m.byte[t] = UBIFS_PADDING_BYTE
    BY <1>1, <2>2
  <2>5. ~NodeTile(m, t) /\ ~PadTile(m, t)
    BY <2>2, <2>4 DEF NodeTile, PadTile, Sound, IsLeb, UBIFS_PADDING_BYTE, FirstMagicByte
  <2>6. RawTile(m, t, size)
    <3>1. end < LebSize => m.byte[end] # UBIFS_PADDING_BYTE
      BY <1>1, <2>2 DEF WrittenUpTo, AllFF, UBIFS_PADDING_BYTE
    <3> QED
      BY <1>1, <2>2, <2>3, <3>1 DEF RawTile
  <2>7. size \in TileSize(m, t)
    BY <1>1, <2>3, <2>5, <2>6 DEF TileSize
  <2>8. TileSize(m, t) = {size}
    BY <2>2, <2>7, OneTile
  <2>9. Row(m, t) = [nodes |-> <<>>, end |-> end]
    BY <1>2, <2>2, <2>5, <2>8 DEF size
  <2> QED
    BY <1>1, <1>4, <2>2, <2>9 DEF UBIFS_PAD_NODE_SZ
<1> QED
  BY <1>1, <1>3, <1>4 DEF UBIFS_PAD_NODE_SZ

-----------------------------------------------------------------------------
(***************************************************************************)
(* The invariant behind ReadBack, NeverRefused and HeldNodesFresh.         *)
(***************************************************************************)

\* No raw padding ends inside of a unit, so none is ever made longer.
Layout ==
  /\ tail \in Boundary
  /\ WrittenUpTo(leb, tail)
  /\ (0 < tail /\ leb.byte[tail - 1] = UBIFS_PADDING_BYTE) => tail % MinIoSize = 0

WrittenOnFlash ==
  /\ written \in Seq(ScanNode)
  /\ \A k \in 1 .. Len(written) :
       /\ Intact(leb, written[k].offs)
       /\ written[k] = Snod(leb, written[k].offs, written[k].offs)
       /\ written[k].offs \in Boundary
       /\ written[k].offs + written[k].len =< tail
  /\ \A i, k \in 1 .. Len(written) : i < k => written[i].offs < written[k].offs

\* Where the k-th node written lies, or where the next one will.
Place(k) == IF k =< Len(written) THEN written[k].offs ELSE tail

\* The row from a node on is the nodes written from there on.
RowsWritten ==
  \A k \in 1 .. Len(written) + 1 :
    Row(leb, Place(k)) = [nodes |-> SubSeq(written, k, Len(written)), end |-> tail]

\* The writer has written behind the list that is held.
Dated == pc = "done" /\ appended

StartWritten ==
  (pc \in Calling /\ ~Dated) => tail % MinIoSize = 0 /\ start \in Bounds /\ ~appended

HeldWritten ==
  Dated =>
    /\ ret = 0
    /\ \A i \in 1 .. Len(nodes) : \E j \in 1 .. Len(written) : nodes[i] = written[j]

HInv ==
  /\ TypeInv /\ TameLeb
  /\ ~Dated => PositionInv /\ FoundSoFar /\ VerdictTrue
  /\ Layout /\ WrittenOnFlash /\ RowsWritten
  /\ StartWritten /\ HeldWritten /\ NeverRefused

LEMMA SubSeqAppend ==
  ASSUME NEW S, NEW s \in Seq(S), NEW e \in S, NEW k \in 1 .. Len(s) + 1
  PROVE  SubSeq(Append(s, e), k, Len(s) + 1) = SubSeq(s, k, Len(s)) \o <<e>>
<1> DEFINE w == Append(s, e)
           n == Len(s)
<1>1. n \in Nat /\ w \in Seq(S) /\ Len(w) = n + 1 /\ w[n + 1] = e
  BY AppendProperties
<1>2. w = s \o <<e>> /\ <<e>> \in Seq(S)
  BY AppendIsConcat
<1> HIDE DEF w
<1>3. SubSeq(w, k, n + 1) = SubSeq(w, k, n) \o <<e>>
  <2>1. k \in 1 .. Len(w) /\ n + 1 \in k .. Len(w) /\ n + 1 - 1 = n
    BY <1>1
  <2>2. SubSeq(w, k, n + 1) = SubSeq(w, k, n + 1 - 1) \o <<w[n + 1]>>
    BY <1>1, <2>1, SubSeqRecursiveSecond
  <2> QED
    BY <1>1, <2>1, <2>2
<1>4. SubSeq(w, k, n) = SubSeq(s, k, n)
  <2>1. CASE k =< n
    <3>1. k \in 1 .. n /\ n \in 1 .. n
      BY <1>1, <2>1
    <3> QED
      BY <1>2, <3>1, SubSeqOfConcat1
  <2>2. CASE k = n + 1
    <3>1. n < k /\ k \in Int /\ n \in Int
      BY <1>1, <2>2
    <3> QED
      BY <3>1, SubSeqEmpty
  <2> QED
    BY <1>1, <2>1, <2>2
<1> QED
  BY <1>3, <1>4 DEF w

\* Where the scan starts is where a node was written or the next one will be.
LEMMA StartRow ==
  ASSUME HInv, pc \in Calling, ~Dated
  PROVE  /\ \E k \in 1 .. Len(written) + 1 :
              /\ start = Place(k)
              /\ Row(leb, start) = [nodes |-> SubSeq(written, k, Len(written)), end |-> tail]
         /\ Scannable(leb, start)
<1>1. written \in Seq(ScanNode) /\ Len(written) \in Nat
  BY DEF HInv, WrittenOnFlash
<1>2. tail % MinIoSize = 0 /\ AllFF(leb, tail, LebSize)
  BY DEF HInv, StartWritten, Layout, WrittenUpTo
<1>3. start = tail \/ \E i \in 1 .. Len(written) : start = written[i].offs
  BY DEF HInv, StartWritten, Bounds
<1>4. PICK k \in 1 .. Len(written) + 1 : start = Place(k)
  <2>1. CASE start = tail
    <3>1. Len(written) + 1 \in 1 .. Len(written) + 1 /\ ~(Len(written) + 1 =< Len(written))
      BY <1>1
    <3> QED
      BY <2>1, <3>1 DEF Place
  <2>2. ASSUME NEW i \in 1 .. Len(written), start = written[i].offs
        PROVE  \E j \in 1 .. Len(written) + 1 : start = Place(j)
    <3>1. i \in 1 .. Len(written) + 1 /\ i =< Len(written)
      BY <1>1
    <3> QED
      BY <2>2, <3>1 DEF Place
  <2> QED
    BY <1>3, <2>1, <2>2
<1>5. Row(leb, start) = [nodes |-> SubSeq(written, k, Len(written)), end |-> tail]
  BY <1>4 DEF HInv, RowsWritten
<1>6. Scannable(leb, start)
  BY <1>2, <1>5 DEF Scannable
<1> QED
  BY <1>4, <1>5, <1>6

\* A list behind which nothing has been written holds what was written.
LEMMA HeldIsWritten ==
  ASSUME HInv, pc = "done", ~appended
  PROVE  /\ endpt = tail
         /\ \E k \in 1 .. Len(written) + 1 :
              start = Place(k) /\ nodes = SubSeq(written, k, Len(written))
<1>1. pc \in Calling /\ ~Dated
  BY DEF Calling, InScan, Dated
<1>2. PICK k \in 1 .. Len(written) + 1 :
        /\ start = Place(k)
        /\ Row(leb, start) = [nodes |-> SubSeq(written, k, Len(written)), end |-> tail]
  BY <1>1, StartRow
<1>3. Row(leb, start) = [nodes |-> nodes, end |-> endpt]
  BY <1>1 DEF HInv, FoundSoFar
<1>4. nodes = SubSeq(written, k, Len(written)) /\ endpt = tail
  BY <1>2, <1>3
<1> QED
  BY <1>2, <1>4

LEMMA HeldAreWritten ==
  ASSUME HInv, pc = "done"
  PROVE  \A i \in 1 .. Len(nodes) : \E j \in 1 .. Len(written) : nodes[i] = written[j]
<1>1. CASE appended
  BY <1>1 DEF HInv, HeldWritten, Dated
<1>2. CASE ~appended
  <2>1. PICK k \in 1 .. Len(written) + 1 : nodes = SubSeq(written, k, Len(written))
    BY <1>2, HeldIsWritten
  <2>2. written \in Seq(ScanNode) /\ Len(written) \in Nat
    BY DEF HInv, WrittenOnFlash
  <2>3. \A i \in k .. Len(written) : written[i] \in ScanNode
    BY <2>2
  <2>4. /\ Len(nodes) = IF k =< Len(written) THEN Len(written) - k + 1 ELSE 0
        /\ \A i \in 1 .. Len(written) - k + 1 : nodes[i] = written[k + i - 1]
    BY <2>1, <2>2, <2>3, SubSeqProperties
  <2>5. ASSUME NEW i \in 1 .. Len(nodes)
        PROVE  \E j \in 1 .. Len(written) : nodes[i] = written[j]
    <3>1. i \in 1 .. Len(written) - k + 1 /\ k + i - 1 \in 1 .. Len(written)
      BY <2>2, <2>4
    <3> QED
      BY <2>4, <3>1
  <2> QED
    BY <2>5
<1> QED
  BY <1>1, <1>2

-----------------------------------------------------------------------------
(* The writer keeps the invariant. *)

\* The writer goes on where it has got to, at the end point too.
LEMMA AtIsTail == HInv => At = tail
BY HeldIsWritten DEF At

\* The nodes written so far are those of image m, and its rows go on with new.
GoOn(m, new, end) ==
  /\ \A k \in 1 .. Len(written) :
       /\ Intact(m, written[k].offs)
       /\ written[k] = Snod(m, written[k].offs, written[k].offs)
  /\ \A k \in 1 .. Len(written) + 1 :
       Row(m, Place(k)) = [nodes |-> SubSeq(written, k, Len(written)) \o new, end |-> end]

\* What was written before is kept by a write behind it.
LEMMA WrittenKept ==
  ASSUME HInv, NEW m, IsLeb(m), WellRanged(m), PadLenFits(m), SameBelow(leb, m, tail),
         Seam(leb, m, tail),
         NEW new, NEW end, Row(m, tail) = [nodes |-> new, end |-> end]
  PROVE  GoOn(m, new, end)
<1>1. IsLeb(leb) /\ WellRanged(leb) /\ PadLenFits(leb) /\ tail \in Boundary
  BY DEF HInv, TypeInv, TypeOK, TameLeb, Layout
<1>2. written \in Seq(ScanNode) /\ Len(written) \in Nat
  BY DEF HInv, WrittenOnFlash
<1>3. ASSUME NEW k \in 1 .. Len(written)
      PROVE  /\ Intact(m, written[k].offs)
             /\ written[k] = Snod(m, written[k].offs, written[k].offs)
  <2> DEFINE o == written[k].offs
  <2>1. /\ Intact(leb, o) /\ written[k] = Snod(leb, o, o) /\ o \in Boundary
        /\ o + written[k].len =< tail
    BY DEF HInv, WrittenOnFlash
  <2>2. written[k].len = leb.hdr[o].len
    BY <2>1 DEF Snod
  <2> HIDE DEF o
  <2>3. o \in Nat /\ Sound(leb, o) /\ o + leb.hdr[o].len =< tail
    BY <2>1, <2>2 DEF Intact, Sound, Boundary
  <2>4. Sound(m, o) /\ Snod(m, o, o) = Snod(leb, o, o)
    BY <1>1, <2>3, NodeKept
  <2> QED
    BY <2>1, <2>4 DEF o, Sound, Intact
<1>4. ASSUME NEW k \in 1 .. Len(written) + 1
      PROVE  Row(m, Place(k)) = [nodes |-> SubSeq(written, k, Len(written)) \o new,
                                 end   |-> end]
  <2> DEFINE o == Place(k)
             old == SubSeq(written, k, Len(written))
  <2>1. o \in Boundary
    BY <1>1, <1>2 DEF Place, HInv, WrittenOnFlash
  <2>2. Row(leb, o) = [nodes |-> old, end |-> tail]
    BY DEF HInv, RowsWritten
  <2> HIDE DEF o, old
  <2>3. Row(leb, o).nodes = old /\ Row(leb, o).end = tail
    BY <2>2
  <2>4. Row(m, tail).nodes = new /\ Row(m, tail).end = end
    OBVIOUS
  <2>5. Row(m, o).nodes = old \o new /\ Row(m, o).end = end
    <3>1. /\ Row(m, o).nodes = Row(leb, o).nodes \o Row(m, tail).nodes
          /\ Row(m, o).end = Row(m, tail).end
      <4>1. GoesOn(leb, m, tail, o)
        BY <1>1, <2>1, <2>3, RowExtends
      <4> QED
        BY <4>1 DEF GoesOn
    <3> QED
      BY <2>3, <2>4, <3>1, Zenon
  <2>6. Row(m, o) = [nodes |-> Row(m, o).nodes, end |-> Row(m, o).end]
    BY <2>1, RowIsRecord
  <2> QED
    BY <2>5, <2>6, Zenon DEF o, old
<1> QED
  BY <1>3, <1>4, Zenon DEF GoOn

\* What does not depend on what is written.
LEMMA WriterBasics ==
  ASSUME HInv, NEW end, Write(end), IsLeb(leb'), TameLeb', Len(written') \in Nat,
         Len(written) =< Len(written'),
         \A j \in 1 .. Len(written) : written'[j] = written[j]
  PROVE  /\ TypeInv' /\ (~Dated' => PositionInv' /\ FoundSoFar' /\ VerdictTrue')
         /\ StartWritten' /\ HeldWritten' /\ NeverRefused'
<1>1. /\ pc \in {"idle", "done"} /\ appended' = (pc = "done")
      /\ UNCHANGED <<pc, start, quiet, offs, buf, len, nodes, nodes_cnt, endpt, ret, printed,
                     slebs, snods>>
  BY DEF Write, args, cursor, sleb, heap
<1>2. TypeInv'
  BY <1>1 DEF HInv, TypeInv, TypeOK, HeapBalanced, Calling, InScan
<1>3. NeverRefused'
  BY <1>1 DEF HInv, NeverRefused
<1>4. CASE pc = "idle"
  BY <1>1, <1>2, <1>3, <1>4
     DEF Dated, StartWritten, HeldWritten, PositionInv, CursorInSync, ErasedSoFar,
         FoundSoFar, VerdictTrue, Calling, InScan
<1>5. CASE pc = "done"
  <2>1. Dated'
    BY <1>1, <1>5 DEF Dated
  <2>2. ret = 0
    BY <1>5 DEF HInv, HeldWritten, Dated, VerdictTrue, Calling, InScan
  <2>3. \A i \in 1 .. Len(nodes) : \E j \in 1 .. Len(written) : nodes[i] = written[j]
    BY <1>5, HeldAreWritten
  <2>4. Len(written) \in Nat
    BY DEF HInv, WrittenOnFlash
  <2>5. \A i \in 1 .. Len(nodes) : \E j \in 1 .. Len(written') : nodes[i] = written'[j]
    BY <2>3, <2>4, SMTT(30)
  <2>6. HeldWritten'
    BY <1>1, <2>2, <2>5 DEF HeldWritten
  <2>7. StartWritten'
    BY <2>1 DEF StartWritten
  <2> QED
    BY <1>2, <1>3, <2>1, <2>6, <2>7
<1> QED
  BY <1>1, <1>4, <1>5

\* A node that was written lies below the writer.
LEMMA WrittenBelow ==
  ASSUME WrittenOnFlash, IsLeb(leb), tail \in Boundary, NEW j \in 1 .. Len(written)
  PROVE  /\ written[j].offs \in Nat /\ written[j].len \in Int /\ written[j].len >= 24
         /\ written[j].offs + written[j].len =< tail /\ written[j].offs < tail
<1> DEFINE o == written[j].offs
<1>1. /\ Intact(leb, o) /\ written[j] = Snod(leb, o, o) /\ o \in Boundary
      /\ o + written[j].len =< tail
  BY DEF WrittenOnFlash
<1>2. written[j].len = leb.hdr[o].len
  BY <1>1 DEF Snod
<1> HIDE DEF o
<1>3. o \in Nat /\ written[j].len \in Int /\ written[j].len >= 24 /\ tail \in Nat
  BY <1>1, <1>2, Geometry DEF Intact, Boundary, UBIFS_CH_SZ
<1>4. o < tail
  BY <1>1, <1>3
<1> QED
  BY <1>1, <1>3, <1>4 DEF o

LEMMA WriteNodeStep ==
  ASSUME HInv, NEW k \in Kinds, WriteNode(k)
  PROVE  HInv'
<1> DEFINE n    == Len(written)
           end  == ALIGN(tail + k.len, 8)
           node == [sqnum |-> n + 1, type |-> k.type, offs |-> tail, len |-> k.len,
                    key |-> ZeroKey]
<1>1. At = tail
  BY AtIsTail
<1>2. /\ Write(end) /\ end =< LebSize /\ tail' = end
      /\ leb' = ut_make_node(leb, tail, k.type, k.len, n + 1)
      /\ written' = Append(written, node)
  BY <1>1 DEF WriteNode, Write, Sqnum
<1>3. /\ k.type \in Byte \ {UBIFS_PAD_NODE} /\ k.len \in Nat /\ k.len >= UBIFS_CH_SZ
      /\ k.len =< LebSize
      /\ k.type \in KeyedTypes => k.len >= UBIFS_CH_SZ + UBIFS_MAX_KEY_LEN
  BY KindsAssumption, Geometry DEF UBIFS_CH_SZ
<1>4. /\ IsLeb(leb) /\ WellRanged(leb) /\ PadLenFits(leb) /\ tail \in Boundary
      /\ WrittenUpTo(leb, tail) /\ WrittenOnFlash
      /\ tail \in Nat /\ tail =< LebSize
      /\ written \in Seq(ScanNode) /\ n \in Nat /\ n + 1 \in Nat
  BY Geometry DEF HInv, TypeInv, TypeOK, TameLeb, Layout, WrittenOnFlash, Boundary
<1>5. node \in ScanNode
  <2>1. ZeroKey \in Key
    BY DEF ZeroKey, Key, Byte
  <2>2. tail \in CInt /\ k.len \in CInt
    BY <1>3, <1>4, Geometry DEF CInt
  <2> QED
    BY <1>3, <1>4, <2>1, <2>2 DEF ScanNode
<1>6. /\ Len(written') = n + 1 /\ written'[n + 1] = node
      /\ \A j \in 1 .. n : written'[j] = written[j]
      /\ written' \in Seq(ScanNode)
  BY <1>2, <1>4, <1>5, AppendProperties
<1>7. /\ node.offs = tail /\ node.len = k.len
  OBVIOUS
<1>8. node = [sqnum |-> n + 1, type |-> k.type, offs |-> tail, len |-> k.len, key |-> ZeroKey]
      /\ end = ALIGN(tail + k.len, 8)
  OBVIOUS
<1> HIDE DEF n, end, node
<1>9. /\ IsLeb(leb') /\ SameBelow(leb, leb', tail) /\ WrittenUpTo(leb', end)
      /\ end \in Boundary /\ tail + k.len =< end
      /\ Sound(leb', tail) /\ Snod(leb', tail, tail) = node
      /\ Row(leb', tail) = [nodes |-> <<node>>, end |-> end]
      /\ leb'.byte[tail] = FirstMagicByte /\ leb'.byte[end - 1] # UBIFS_PADDING_BYTE
      /\ DOMAIN leb'.hdr = DOMAIN leb.hdr \cup {tail}
      /\ leb'.hdr[tail] = SealedHeader(k.type, k.len, n + 1, 0)
      /\ \A o \in DOMAIN leb.hdr : leb'.hdr[o] = leb.hdr[o]
  BY <1>2, <1>3, <1>4, <1>8, NodeRow, SMTT(30)
<1>10. WellRanged(leb')
  <2>1. leb'.hdr[tail].type = k.type /\ leb'.hdr[tail].len = k.len
    BY <1>9 DEF SealedHeader
  <2> QED
    BY <1>3, <1>4, <1>9, <2>1 DEF WellRanged
<1>11. PadLenFits(leb')
  <2>1. leb'.hdr[tail].pad_len = 0 /\ 0 =< IntMax - LebSize
    BY <1>9, Geometry DEF SealedHeader
  <2> QED
    BY <1>4, <1>9, <2>1 DEF PadLenFits
<1>12. Seam(leb, leb', tail)
  BY <1>9 DEF Seam, FirstMagicByte, UBIFS_PADDING_BYTE
<1>13. /\ \A j \in 1 .. n :
            /\ Intact(leb', written[j].offs)
            /\ written[j] = Snod(leb', written[j].offs, written[j].offs)
       /\ \A j \in 1 .. n + 1 :
            Row(leb', Place(j)) = [nodes |-> SubSeq(written, j, n) \o <<node>>, end |-> end]
  <2>1. GoOn(leb', <<node>>, end)
    BY <1>9, <1>10, <1>11, <1>12, WrittenKept
  <2> QED
    BY <2>1, Zenon DEF GoOn, n
<1>14. Layout'
  BY <1>2, <1>9 DEF Layout
<1>15. tail < end /\ end \in Nat
  BY <1>3, <1>4, <1>9, Geometry, SMTT(30) DEF UBIFS_CH_SZ, Boundary
<1>16. WrittenOnFlash'
  <2>1. ASSUME NEW j \in 1 .. n
        PROVE  /\ Intact(leb', written'[j].offs)
               /\ written'[j] = Snod(leb', written'[j].offs, written'[j].offs)
               /\ written'[j].offs \in Boundary
               /\ written'[j].offs + written'[j].len =< end
    <3>1. written'[j] = written[j] /\ written[j].offs \in Boundary
      BY <1>4, <1>6 DEF WrittenOnFlash, n
    <3>2. written[j].offs + written[j].len =< end
      BY <1>4, <1>15, WrittenBelow DEF n
    <3> QED
      BY <1>13, <3>1, <3>2
  <2>2. /\ Intact(leb', written'[n + 1].offs)
        /\ written'[n + 1] = Snod(leb', written'[n + 1].offs, written'[n + 1].offs)
        /\ written'[n + 1].offs \in Boundary
        /\ written'[n + 1].offs + written'[n + 1].len =< end
    BY <1>4, <1>6, <1>7, <1>9 DEF Intact, Sound
  <2>3. ASSUME NEW i \in 1 .. n + 1, NEW j \in 1 .. n + 1, i < j
        PROVE  written'[i].offs < written'[j].offs
    <3>1. i \in 1 .. n /\ written'[i] = written[i] /\ written[i].offs < tail
      BY <1>4, <1>6, <2>3, WrittenBelow DEF n
    <3>2. CASE j \in 1 .. n
      BY <1>4, <1>6, <2>3, <3>1, <3>2 DEF WrittenOnFlash, n
    <3>3. CASE j = n + 1
      BY <1>6, <1>7, <3>1, <3>3
    <3> QED
      BY <1>4, <3>2, <3>3
  <2>4. \A j \in 1 .. n + 1 : j \in 1 .. n \/ j = n + 1
    BY <1>4
  <2> QED
    BY <1>2, <1>6, <2>1, <2>2, <2>3, <2>4 DEF WrittenOnFlash
<1>17. RowsWritten'
  <2> SUFFICES ASSUME NEW j \in 1 .. n + 2
               PROVE  Row(leb', Place(j)') =
                        [nodes |-> SubSeq(written', j, n + 1), end |-> end]
    BY <1>2, <1>4, <1>6 DEF RowsWritten
  <2>1. CASE j \in 1 .. n + 1
    <3>1. Place(j)' = Place(j)
      <4>1. CASE j \in 1 .. n
        BY <1>4, <1>6, <4>1 DEF Place, n
      <4>2. CASE j = n + 1
        BY <1>4, <1>6, <1>7, <4>2 DEF Place, n
      <4> QED
        BY <1>4, <2>1, <4>1, <4>2
    <3>2. SubSeq(written', j, n + 1) = SubSeq(written, j, n) \o <<node>>
      BY <1>2, <1>4, <1>5, <2>1, SubSeqAppend DEF n
    <3> QED
      BY <1>13, <2>1, <3>1, <3>2, Zenon
  <2>2. CASE j = n + 2
    <3>1. Place(j)' = end
      BY <1>2, <1>4, <1>6, <2>2 DEF Place
    <3>2. SubSeq(written', j, n + 1) = <<>>
      <4>1. n + 1 < j /\ j \in Int /\ n + 1 \in Int
        BY <1>4, <2>2
      <4> QED
        BY <1>6, <4>1, SubSeqEmpty
    <3>3. Row(leb', end) = [nodes |-> <<>>, end |-> end]
      BY <1>9, ErasedRow DEF WrittenUpTo
    <3> QED
      BY <3>1, <3>2, <3>3, Zenon
  <2> QED
    BY <1>4, <2>1, <2>2
<1>18. TameLeb'
  BY <1>10, <1>11 DEF TameLeb
<1>19. n =< Len(written') /\ Len(written') \in Nat
  BY <1>4, <1>6
<1>20. /\ TypeInv' /\ (~Dated' => PositionInv' /\ FoundSoFar' /\ VerdictTrue')
       /\ StartWritten' /\ HeldWritten' /\ NeverRefused'
  BY <1>2, <1>6, <1>9, <1>18, <1>19, WriterBasics DEF n
<1> QED
  BY <1>14, <1>16, <1>17, <1>18, <1>20 DEF HInv

\* A pad node up to the next unit announces no more than int can hold on top of
\* an eraseblock.
UnitFits == LebSize + MinIoSize =< IntMax

LEMMA WritePaddingStep ==
  ASSUME HInv, UnitFits, NEW to \in Addr \cup {LebSize}, WritePadding(to)
  PROVE  HInv'
<1> DEFINE n == Len(written)
<1>1. At = tail
  BY AtIsTail
<1>2. /\ Write(to) /\ tail' = to /\ leb' = Fill(leb, tail, to, n + 1) /\ written' = written
      /\ to % MinIoSize = 0 /\ to - tail \in 1 .. MinIoSize - 1
  BY <1>1 DEF WritePadding, Write, Sqnum
<1>3. /\ IsLeb(leb) /\ WellRanged(leb) /\ PadLenFits(leb) /\ tail \in Boundary
      /\ WrittenUpTo(leb, tail) /\ WrittenOnFlash
      /\ tail \in Nat /\ tail =< LebSize
      /\ written \in Seq(ScanNode) /\ n \in Nat /\ n + 1 \in Nat
  BY Geometry, SMTT(30) DEF HInv, TypeInv, TypeOK, TameLeb, Layout, WrittenOnFlash, Boundary
<1>4. to \in 0 .. LebSize /\ to \in Nat /\ tail < to /\ to - tail < MinIoSize
  BY <1>2, <1>3, Geometry DEF Addr
<1>5. to \in Boundary
  BY <1>2, <1>4, UnitIsBoundary
<1> HIDE DEF n
<1>6. /\ IsLeb(leb') /\ SameBelow(leb, leb', tail) /\ WrittenUpTo(leb', to)
      /\ Row(leb', tail) = [nodes |-> <<>>, end |-> to]
      /\ to - tail >= UBIFS_PAD_NODE_SZ =>
           /\ leb'.byte[tail] = FirstMagicByte
           /\ DOMAIN leb'.hdr = DOMAIN leb.hdr \cup {tail}
           /\ leb'.hdr[tail] = SealedHeader(UBIFS_PAD_NODE, UBIFS_PAD_NODE_SZ, n + 1,
                                            to - tail - UBIFS_PAD_NODE_SZ)
      /\ to - tail < UBIFS_PAD_NODE_SZ => DOMAIN leb'.hdr = DOMAIN leb.hdr
      /\ \A o \in DOMAIN leb.hdr : leb'.hdr[o] = leb.hdr[o]
  BY <1>2, <1>3, <1>4, <1>5, PaddingRow
<1>7. WellRanged(leb') /\ PadLenFits(leb')
  <2>1. CASE to - tail >= UBIFS_PAD_NODE_SZ
    <3>1. /\ leb'.hdr[tail].type = UBIFS_PAD_NODE /\ leb'.hdr[tail].len = UBIFS_PAD_NODE_SZ
          /\ leb'.hdr[tail].pad_len = to - tail - UBIFS_PAD_NODE_SZ
      BY <1>6, <2>1 DEF SealedHeader
    <3>2. /\ UBIFS_PAD_NODE \notin KeyedTypes /\ UBIFS_PAD_NODE_SZ >= UBIFS_PAD_NODE_SZ
          /\ to - tail - UBIFS_PAD_NODE_SZ =< IntMax - LebSize
      BY <1>3, <1>4, Geometry
         DEF UnitFits, KeyedTypes, UBIFS_PAD_NODE, UBIFS_PAD_NODE_SZ, UBIFS_INO_NODE,
             UBIFS_DENT_NODE, UBIFS_XENT_NODE, UBIFS_DATA_NODE
    <3>3. ASSUME NEW o \in DOMAIN leb'.hdr
          PROVE  o = tail \/ (o \in DOMAIN leb.hdr /\ leb'.hdr[o] = leb.hdr[o])
      BY <1>6, <2>1
    <3>4. WellRanged(leb')
      BY <1>3, <3>1, <3>2, <3>3 DEF WellRanged
    <3>5. PadLenFits(leb')
      BY <1>3, <3>1, <3>2, <3>3 DEF PadLenFits
    <3> QED
      BY <3>4, <3>5
  <2>2. CASE to - tail < UBIFS_PAD_NODE_SZ
    BY <1>3, <1>6, <2>2 DEF WellRanged, PadLenFits
  <2> QED
    BY <1>3, <1>4, <2>1, <2>2 DEF UBIFS_PAD_NODE_SZ
<1>8. ~(0 < tail /\ leb.byte[tail - 1] = UBIFS_PADDING_BYTE)
  <2>1. tail % MinIoSize # 0
    BY <1>2, <1>3, <1>4, NoUnitBetween
  <2> QED
    BY <2>1 DEF HInv, Layout
<1>9. Seam(leb, leb', tail)
  BY <1>8 DEF Seam
<1>10. /\ \A j \in 1 .. n :
            /\ Intact(leb', written[j].offs)
            /\ written[j] = Snod(leb', written[j].offs, written[j].offs)
       /\ \A j \in 1 .. n + 1 :
            Row(leb', Place(j)) = [nodes |-> SubSeq(written, j, n) \o <<>>, end |-> to]
  <2>1. GoOn(leb', <<>>, to)
    BY <1>6, <1>7, <1>9, WrittenKept
  <2> QED
    BY <2>1, Zenon DEF GoOn, n
<1>11. Layout'
  BY <1>2, <1>5, <1>6 DEF Layout
<1>12. WrittenOnFlash'
  <2>1. ASSUME NEW j \in 1 .. n
        PROVE  written[j].offs \in Boundary /\ written[j].offs + written[j].len =< to
    <3>1. written[j].offs \in Boundary
      BY <1>3 DEF WrittenOnFlash, n
    <3> QED
      BY <1>3, <1>4, <3>1, WrittenBelow DEF n
  <2>2. \A i, j \in 1 .. n : i < j => written[i].offs < written[j].offs
    BY <1>3 DEF WrittenOnFlash, n
  <2> QED
    BY <1>2, <1>3, <1>10, <2>1, <2>2 DEF WrittenOnFlash, n
<1>13. RowsWritten'
  <2> SUFFICES ASSUME NEW j \in 1 .. n + 1
               PROVE  Row(leb', Place(j)') = [nodes |-> SubSeq(written, j, n), end |-> to]
    BY <1>2 DEF RowsWritten, n
  <2>1. CASE j \in 1 .. n
    <3>1. Place(j)' = Place(j)
      BY <1>2, <1>3, <2>1 DEF Place, n
    <3>2. SubSeq(written, j, n) \o <<>> = SubSeq(written, j, n)
      <4>1. SubSeq(written, j, n) \in Seq(ScanNode)
        <5>1. \A i \in j .. n : written[i] \in ScanNode
          BY <1>3, <2>1 DEF n
        <5> QED
          BY <1>3, <2>1, <5>1, SubSeqProperties
      <4> QED
        BY <4>1, ConcatEmptySeq
    <3>3. Row(leb', Place(j)) = [nodes |-> SubSeq(written, j, n) \o <<>>, end |-> to]
      BY <1>10
    <3> QED
      BY <3>1, <3>2, <3>3, Zenon
  <2>2. CASE j = n + 1
    <3>1. Place(j)' = to
      BY <1>2, <1>3, <2>2 DEF Place, n
    <3>2. SubSeq(written, j, n) = <<>>
      <4>1. n < j /\ j \in Int /\ n \in Int
        BY <1>3, <2>2
      <4> QED
        BY <4>1, SubSeqEmpty
    <3>3. Row(leb', to) = [nodes |-> <<>>, end |-> to]
      BY <1>5, <1>6, ErasedRow DEF WrittenUpTo
    <3> QED
      BY <3>1, <3>2, <3>3, Zenon
  <2> QED
    BY <1>3, <2>1, <2>2
<1>14. TameLeb'
  BY <1>7 DEF TameLeb
<1>15. /\ TypeInv' /\ (~Dated' => PositionInv' /\ FoundSoFar' /\ VerdictTrue')
       /\ StartWritten' /\ HeldWritten' /\ NeverRefused'
  BY <1>2, <1>3, <1>6, <1>14, WriterBasics DEF n
<1> QED
  BY <1>11, <1>12, <1>13, <1>14, <1>15 DEF HInv

-----------------------------------------------------------------------------
(* An erased buffer. *)

LEMMA BlankLeb ==
  /\ IsLeb(Blank) /\ WellRanged(Blank) /\ PadLenFits(Blank)
  /\ WrittenUpTo(Blank, 0) /\ Row(Blank, 0) = [nodes |-> <<>>, end |-> 0] /\ 0 \in Boundary
<1>1. Blank.byte = [a \in Addr |-> 255] /\ DOMAIN Blank.hdr = {}
  BY DEF Blank
<1>2. 255 \in Byte
  BY DEF Byte
<1>3. IsLeb(Blank) /\ WellRanged(Blank) /\ PadLenFits(Blank)
  BY <1>1, <1>2 DEF IsLeb, WellRanged, PadLenFits
<1>4. AllFF(Blank, 0, LebSize) /\ 0 \in Boundary
  BY <1>1, Geometry DEF AllFF, Addr, Boundary
<1>5. WrittenUpTo(Blank, 0)
  BY <1>1, <1>4 DEF WrittenUpTo
<1>6. Row(Blank, 0) = [nodes |-> <<>>, end |-> 0]
  BY <1>3, <1>4, ErasedRow
<1> QED
  BY <1>3, <1>4, <1>5, <1>6

\* On an erased buffer nothing has been written.
LEMMA ErasedKnown ==
  (leb = Blank /\ tail = 0 /\ written = <<>>) =>
    Layout /\ WrittenOnFlash /\ RowsWritten /\ TameLeb
<1> SUFFICES ASSUME leb = Blank, tail = 0, written = <<>>
             PROVE  Layout /\ WrittenOnFlash /\ RowsWritten /\ TameLeb
  OBVIOUS
<1>1. Len(written) = 0 /\ written \in Seq(ScanNode)
  OBVIOUS
<1>2. Layout
  BY BlankLeb DEF Layout
<1>3. WrittenOnFlash
  BY <1>1 DEF WrittenOnFlash
<1>4. RowsWritten
  <2> SUFFICES ASSUME NEW j \in 1 .. 1
               PROVE  Row(leb, Place(j)) = [nodes |-> SubSeq(written, j, 0), end |-> 0]
    BY <1>1 DEF RowsWritten
  <2>1. Place(j) = 0
    BY <1>1 DEF Place
  <2>2. SubSeq(written, j, 0) = <<>>
    <3>1. 0 < j /\ j \in Int
      OBVIOUS
    <3> QED
      BY <3>1, SubSeqEmpty
  <2>3. Row(leb, 0) = [nodes |-> <<>>, end |-> 0]
    BY BlankLeb
  <2> QED
    BY <2>1, <2>2, <2>3, Zenon
<1>5. TameLeb
  BY BlankLeb DEF TameLeb
<1> QED
  BY <1>2, <1>3, <1>4, <1>5

LEMMA HarnessInit == Images = {Blank} /\ HInit => HInv
<1> SUFFICES ASSUME Images = {Blank}, HInit
             PROVE  HInv
  OBVIOUS
<1>1. /\ Init /\ leb = Blank /\ tail = 0 /\ written = <<>>
      /\ pc = "idle" /\ ret = 0
  BY DEF HInit, Init
<1>2. Layout /\ WrittenOnFlash /\ RowsWritten /\ TameLeb
  BY <1>1, ErasedKnown
<1>3. TypeInv
  BY <1>1, TypeInit
<1>4. PositionInv /\ FoundSoFar /\ VerdictTrue /\ StartWritten /\ HeldWritten /\ NeverRefused
  BY <1>1 DEF PositionInv, CursorInSync, ErasedSoFar, FoundSoFar, VerdictTrue, StartWritten,
     HeldWritten, NeverRefused, Dated, Calling, InScan, EUCLEAN, EINVAL
<1> QED
  BY <1>2, <1>3, <1>4 DEF HInv

LEMMA EraseStep == HInv /\ Erase => HInv'
<1> SUFFICES ASSUME HInv, Erase
             PROVE  HInv'
  OBVIOUS
<1>1. /\ leb' = Blank /\ tail' = 0 /\ written' = <<>> /\ pc = "idle"
      /\ UNCHANGED <<pc, start, quiet, offs, buf, len, nodes, nodes_cnt, endpt, ret, printed,
                     slebs, snods>>
  BY DEF Erase, args, cursor, sleb, heap
<1>2. (leb = Blank /\ tail = 0 /\ written = <<>>)' =>
        (Layout /\ WrittenOnFlash /\ RowsWritten /\ TameLeb)'
  BY ErasedKnown, PTL
<1>3. Layout' /\ WrittenOnFlash' /\ RowsWritten' /\ TameLeb'
  BY <1>1, <1>2
<1>4. TypeInv'
  BY <1>1, BlankLeb DEF HInv, TypeInv, TypeOK, HeapBalanced, Calling, InScan
<1>5. PositionInv' /\ FoundSoFar' /\ VerdictTrue' /\ StartWritten' /\ HeldWritten'
  BY <1>1 DEF PositionInv, CursorInSync, ErasedSoFar, FoundSoFar, VerdictTrue, StartWritten,
     HeldWritten, Dated, Calling, InScan
<1>6. NeverRefused'
  BY <1>1 DEF HInv, NeverRefused
<1> QED
  BY <1>3, <1>4, <1>5, <1>6 DEF HInv

-----------------------------------------------------------------------------
(* The scanner keeps the invariant. *)

\* What the writer has to do with stays what it is while the scanner runs.
LEMMA FlashKept ==
  ASSUME HInv, leb' = leb, tail' = tail, written' = written
  PROVE  Layout' /\ WrittenOnFlash' /\ RowsWritten' /\ TameLeb'
<1>1. Layout' /\ TameLeb'
  BY DEF HInv, Layout, TameLeb
<1>2. WrittenOnFlash'
  BY DEF HInv, WrittenOnFlash
<1>3. RowsWritten'
  BY DEF HInv, RowsWritten, Place
<1> QED
  BY <1>1, <1>2, <1>3

LEMMA NotDated ==
  ASSUME HInv, ~Dated
  PROVE  PromiseInv
BY DEF HInv, PromiseInv, ScanInv

LEMMA ScanFromStep ==
  ASSUME HInv, NEW o \in Starts, ScanFrom(o)
  PROVE  HInv'
<1>1. /\ pc = "idle" /\ pc' = "start" /\ start' = o /\ ret' = 0 /\ leb' = leb
      /\ tail % MinIoSize = 0 /\ o \in Bounds
      /\ appended' = FALSE /\ tail' = tail /\ written' = written
  BY DEF ScanFrom, Call
<1>2. [Next]_vars
  BY DEF ScanFrom, Next, Caller
<1>3. PromiseInv
  BY <1>1, NotDated DEF Dated
<1>4. PromiseInv'
  BY <1>2, <1>3, PromiseInvStep
<1>5. Layout' /\ WrittenOnFlash' /\ RowsWritten' /\ TameLeb'
  BY <1>1, FlashKept
<1>6. StartWritten' /\ HeldWritten' /\ NeverRefused'
  BY <1>1 DEF StartWritten, HeldWritten, NeverRefused, Dated, Bounds, EUCLEAN, EINVAL
<1> QED
  BY <1>4, <1>5, <1>6 DEF HInv, PromiseInv, ScanInv

\* Where the scanner gets to, and with what result.
LEMMA ScannerGoes ==
  ASSUME Scanner \/ Release
  PROVE  /\ start' = start
         /\ pc' \in Calling => pc \in Calling
         /\ pc = "done" => Release
         /\ ret' \in {-EUCLEAN, -EINVAL} => ret' = ret \/ (pc \in Calling /\ pc' = "destroy")
<1> USE DEF args, cursor, sleb, heap, Calling, InScan, Looking, EUCLEAN, EINVAL, ENOMEM,
            EBADMSG, EIO
<1>1. CASE \/ AllocSleb \/ AllocSlebFails \/ SkipPadding \/ HitEmptySpace \/ AddSnod
           \/ EndOfLeb
  BY <1>1 DEF AllocSleb, AllocSlebFails, SkipPadding, HitEmptySpace, AddSnod, EndOfLeb
<1>2. ASSUME NEW err \in {0, -EBADMSG, -EIO}, LebRead(err) \/ LebReadFails(err)
      PROVE  /\ start' = start
             /\ pc' \in Calling => pc \in Calling
             /\ pc = "done" => Release
             /\ ret' \in {-EUCLEAN, -EINVAL} => ret' = ret \/ (pc \in Calling /\ pc' = "destroy")
  BY <1>2 DEF LebRead, LebReadFails
<1>3. CASE AddSnodFails \/ BadNode \/ UnknownCode \/ Misaligned \/ BadByte
  BY <1>3 DEF AddSnodFails, BadNode, UnknownCode, Misaligned, BadByte, Error, Corrupted
<1>4. CASE EndScan \/ SkipWord \/ WordsDone \/ SkipByte \/ ReturnSleb \/ ReadOutside
  BY <1>4 DEF EndScan, SkipWord, WordsDone, SkipByte, ReturnSleb, ReadOutside
<1>5. CASE DestroySnod \/ DestroySleb
  BY <1>5 DEF DestroySnod, DestroySleb
<1>6. CASE Release
  BY <1>6 DEF Release
<1> QED
  BY <1>1, <1>2, <1>3, <1>4, <1>5, <1>6 DEF Scanner

LEMMA ScannerStep ==
  ASSUME HInv, Release \/ Scanner, UNCHANGED <<tail, written, appended>>
  PROVE  HInv'
<1>1. [Next]_vars
  BY DEF Next, Caller
<1>2. leb' = leb
  BY <1>1, LebKept
<1>3. Layout' /\ WrittenOnFlash' /\ RowsWritten' /\ TameLeb'
  BY <1>2, FlashKept
<1>4. CASE Dated
  <2>1. Release /\ ret = 0
    BY <1>4, ScannerGoes DEF Dated, HInv, HeldWritten
  <2>2. pc' = "destroy" /\ ret' = 0
    BY <2>1 DEF Release
  <2>3. TypeInv'
    BY <1>1, TypeStep DEF HInv
  <2>4. PositionInv' /\ FoundSoFar' /\ VerdictTrue' /\ StartWritten' /\ HeldWritten'
        /\ NeverRefused'
    BY <2>2 DEF PositionInv, CursorInSync, ErasedSoFar, FoundSoFar, VerdictTrue, StartWritten,
       HeldWritten, NeverRefused, Dated, Calling, InScan, EUCLEAN, EINVAL
  <2> QED
    BY <1>3, <2>3, <2>4 DEF HInv
<1>5. CASE ~Dated
  <2>1. PromiseInv'
    BY <1>1, <1>5, NotDated, PromiseInvStep
  <2>2. ~Dated'
    <3>1. pc' \in Calling => ~appended'
      BY <1>5, ScannerGoes DEF HInv, StartWritten
    <3> QED
      BY <3>1 DEF Dated, Calling, InScan
  <2>3. StartWritten'
    BY <1>5, ScannerGoes DEF HInv, StartWritten, Bounds
  <2>4. HeldWritten'
    BY <2>2 DEF HeldWritten
  <2>5. NeverRefused'
    <3> SUFFICES ASSUME ret' \in {-EUCLEAN, -EINVAL}
                 PROVE  FALSE
      BY DEF NeverRefused
    <3>1. pc \in Calling /\ pc' = "destroy" /\ start' = start
      BY ScannerGoes DEF HInv, NeverRefused
    <3>2. Scannable(leb, start)
      BY <1>5, <3>1, StartRow
    <3>3. ret' = -EUCLEAN /\ ~Scannable(leb', start')
      BY <2>1, <3>1 DEF PromiseInv, VerdictTrue, EUCLEAN, EINVAL, ENOMEM
    <3> QED
      BY <1>2, <3>1, <3>2, <3>3
  <2> QED
    BY <1>3, <2>1, <2>3, <2>4, <2>5 DEF HInv, PromiseInv, ScanInv
<1> QED
  BY <1>4, <1>5

LEMMA StutterStep == HInv /\ UNCHANGED hvars => HInv'
<1> SUFFICES ASSUME HInv, UNCHANGED hvars
             PROVE  HInv'
  OBVIOUS
<1>1. UNCHANGED vars /\ UNCHANGED <<tail, written, appended>>
  BY DEF hvars
<1>2. UNCHANGED <<leb, pc, start, ret, nodes>>
  BY <1>1 DEF vars, args, sleb
<1>3. Layout' /\ WrittenOnFlash' /\ RowsWritten' /\ TameLeb'
  BY <1>1, <1>2, FlashKept
<1>4. TypeInv'
  BY <1>1, TypeStep DEF HInv
<1>5. ~Dated' => PositionInv' /\ FoundSoFar' /\ VerdictTrue'
  <2> SUFFICES ASSUME ~Dated'
               PROVE  PositionInv' /\ FoundSoFar' /\ VerdictTrue'
    OBVIOUS
  <2>1. ~Dated
    BY <1>1, <1>2 DEF Dated
  <2> QED
    BY <1>1, <2>1, NotDated, PromiseInvStep DEF PromiseInv, ScanInv
<1>6. StartWritten' /\ HeldWritten' /\ NeverRefused'
  BY <1>1, <1>2 DEF HInv, StartWritten, HeldWritten, NeverRefused, Dated, Bounds
<1> QED
  BY <1>3, <1>4, <1>5, <1>6 DEF HInv

LEMMA HarnessStep == UnitFits /\ HInv /\ [HNext]_hvars => HInv'
<1> SUFFICES ASSUME UnitFits, HInv, [HNext]_hvars
             PROVE  HInv'
  OBVIOUS
<1> QED
  BY WriteNodeStep, WritePaddingStep, EraseStep, ScanFromStep, ScannerStep, StutterStep
     DEF HNext

-----------------------------------------------------------------------------
\* Of two nodes written the later one lies further on.
LEMMA LaterIsFurther ==
  ASSUME WrittenOnFlash, NEW k \in 1 .. Len(written), NEW i \in 1 .. Len(written)
  PROVE  i >= k <=> written[i].offs >= written[k].offs
<1>1. Len(written) \in Nat /\ written[i].offs \in Int /\ written[k].offs \in Int
  BY DEF WrittenOnFlash, Boundary
<1>2. i < k => written[i].offs < written[k].offs
  BY DEF WrittenOnFlash
<1>3. k < i => written[k].offs < written[i].offs
  BY DEF WrittenOnFlash
<1> QED
  BY <1>1, <1>2, <1>3

LEMMA InvReadsBack == HInv => ReadBack
<1> SUFFICES ASSUME HInv, pc = "done", ~appended
             PROVE  /\ endpt = tail
                    /\ \E k \in 1 .. Len(written) + 1 :
                         /\ nodes = SubSeq(written, k, Len(written))
                         /\ \A i \in 1 .. Len(written) : i >= k <=> written[i].offs >= start
  BY DEF ReadBack
<1>1. WrittenOnFlash /\ IsLeb(leb) /\ tail \in Boundary /\ Len(written) \in Nat
  BY DEF HInv, Layout, TypeInv, TypeOK, WrittenOnFlash
<1>2. PICK k \in 1 .. Len(written) + 1 :
        start = Place(k) /\ nodes = SubSeq(written, k, Len(written))
  BY HeldIsWritten
<1>3. \A i \in 1 .. Len(written) : i >= k <=> written[i].offs >= start
  <2>1. CASE k \in 1 .. Len(written)
    <3>1. start = written[k].offs
      BY <1>1, <1>2, <2>1 DEF Place
    <3> QED
      BY <1>1, <2>1, <3>1, LaterIsFurther
  <2>2. CASE k = Len(written) + 1
    <3>1. start = tail
      BY <1>1, <1>2, <2>2 DEF Place
    <3>2. ASSUME NEW i \in 1 .. Len(written)
          PROVE  ~(i >= k) /\ ~(written[i].offs >= tail)
      <4>1. written[i].offs \in Nat /\ written[i].offs < tail
        BY <1>1, WrittenBelow
      <4>2. tail \in Int
        BY <1>1 DEF Boundary
      <4> QED
        BY <1>1, <2>2, <4>1, <4>2
    <3> QED
      BY <3>1, <3>2
  <2> QED
    BY <1>1, <2>1, <2>2
<1>4. endpt = tail
  BY HeldIsWritten
<1> QED
  BY <1>2, <1>3, <1>4

LEMMA InvKeepsFresh == HInv => HeldNodesFresh
<1> SUFFICES ASSUME HInv, pc = "done", NEW i \in 1 .. Len(nodes)
             PROVE  Intact(leb, nodes[i].offs) /\ nodes[i] = Snod(leb, nodes[i].offs, nodes[i].offs)
  BY DEF HeldNodesFresh
<1>1. PICK j \in 1 .. Len(written) : nodes[i] = written[j]
  BY HeldAreWritten
<1> QED
  BY <1>1 DEF HInv, WrittenOnFlash

(***************************************************************************)
(* On a buffer that was erased first, what the builders write is never     *)
(* taken for corrupt (scan.c:279-299): the scans of the harness fail for   *)
(* want of memory or for the flash only.                                   *)
(***************************************************************************)
THEOREM NeverRefusedCorrect ==
  ASSUME Images = {Blank}, UnitFits
  PROVE  HSpec => []NeverRefused
<1>1. HInit => HInv
  BY HarnessInit
<1>2. HInv /\ [HNext]_hvars => HInv'
  BY HarnessStep
<1>3. HInv => NeverRefused
  BY DEF HInv
<1> QED
  BY <1>1, <1>2, <1>3, PTL DEF HSpec

(***************************************************************************)
(* A list behind which nothing has been written holds the nodes written    *)
(* from its start on, and ends where the writer has got to, however often  *)
(* the buffer is scanned, written to and erased.                           *)
(***************************************************************************)
THEOREM ReadBackCorrect ==
  ASSUME Images = {Blank}, UnitFits
  PROVE  HSpec => []ReadBack
<1>1. HInit => HInv
  BY HarnessInit
<1>2. HInv /\ [HNext]_hvars => HInv'
  BY HarnessStep
<1>3. HInv => ReadBack
  BY InvReadsBack
<1> QED
  BY <1>1, <1>2, <1>3, PTL DEF HSpec

(***************************************************************************)
(* The nodes of a list that is held point to what they were made from, the *)
(* writes behind the end point notwithstanding (scan.c:196).               *)
(***************************************************************************)
THEOREM HeldNodesCorrect ==
  ASSUME Images = {Blank}, UnitFits
  PROVE  HSpec => []HeldNodesFresh
<1>1. HInit => HInv
  BY HarnessInit
<1>2. HInv /\ [HNext]_hvars => HInv'
  BY HarnessStep
<1>3. HInv => HeldNodesFresh
  BY InvKeepsFresh
<1> QED
  BY <1>1, <1>2, <1>3, PTL DEF HSpec

(***************************************************************************)
(* The CRC that ubifs_check_node makes of a header that it looks at        *)
(* (ut_support.c:64-67) is the remainder it is said to be, whatever node   *)
(* the header is of and wherever the scan stands.                          *)
(***************************************************************************)
THEOREM CrcCorrect == HSpec => []CrcIsRemainder
<1>1. ASSUME NEW x
      PROVE  BitsOf(x) \subseteq 0 .. 30
  BY DEF BitsOf
<1>2. ASSUME NEW h
      PROVE  HeaderBits(h) \in SUBSET (0 .. 8 * Covered - 1)
  <2>1. 8 * Covered - 1 = 127
    BY DEF Covered, UBIFS_CH_SZ
  <2>2. HeaderBits(h) \subseteq 0 .. 127
    BY <1>1 DEF HeaderBits
  <2> QED
    BY <2>1, <2>2
<1>3. Covered \in Nat
  BY DEF Covered, UBIFS_CH_SZ
<1>4. ASSUME NEW h
      PROVE  Crc(HeaderBits(h), Covered) = ReferenceCrc(HeaderBits(h), Covered)
  BY <1>2, <1>3, CrcIsReference
<1>5. CrcIsRemainder
  BY <1>4, Zenon DEF CrcIsRemainder
<1> QED
  BY <1>5, PTL
=============================================================================
