------------------------ MODULE ScanRefinementProofs ------------------------
(***************************************************************************)
(* ubifs_scan() keeps the promise of ScanPromise and uses its list as      *)
(* NodeList allows, for every width of int, every geometry, every set of   *)
(* Tame eraseblocks and every set of starting offsets.                     *)
(***************************************************************************)
EXTENDS ScanRefinement, UbifsScanProofs, SequenceTheorems, WellFoundedInduction

-----------------------------------------------------------------------------
(***************************************************************************)
(* Rows of tiles.  Row is defined by recursion, so what it returns at an   *)
(* offset is known only once there is a function that satisfies its        *)
(* equation.  That, and the types of what it returns, is proved by         *)
(* induction from the end of the eraseblock.                               *)
(***************************************************************************)

\* Induction from N down to 0, for the members of a set.
LEMMA Descent ==
  ASSUME NEW N \in Nat, NEW T,
         \A o \in 0 .. N : (\A p \in o + 1 .. N : p \in T) => o \in T
  PROVE  \A o \in 0 .. N : o \in T
<1> DEFINE Bad == {k \in Nat : k =< N /\ N - k \notin T}
           R   == OpToRel(<, Nat)
<1> SUFFICES ASSUME Bad # {}
             PROVE  FALSE
  <2>1. ASSUME Bad = {}, NEW o \in 0 .. N
        PROVE  o \in T
    <3>1. N - o \in Nat /\ N - o =< N /\ N - (N - o) = o
      OBVIOUS
    <3> QED
      BY <2>1, <3>1
  <2> QED
    BY <2>1
<1>1. PICK m \in Bad : \A k \in Bad : ~(<<k, m>> \in R)
  <2>1. IsWellFoundedOn(R, Nat)
    BY NatLessThanWellFounded, Zenon
  <2>2. Bad \subseteq Nat
    OBVIOUS
  <2> HIDE DEF R, Bad
  <2> QED
    BY <2>1, <2>2, WFMin, Zenon
<1>2. \A k \in Bad : ~(k < m)
  BY <1>1 DEF OpToRel
<1> HIDE DEF R
<1>3. \A p \in N - m + 1 .. N : p \in T
  <2> SUFFICES ASSUME NEW p \in N - m + 1 .. N, p \notin T
               PROVE  FALSE
    OBVIOUS
  <2>1. N - p \in Nat /\ N - p =< N /\ N - p < m /\ N - (N - p) = p
    OBVIOUS
  <2> QED
    BY <1>2, <2>1
<1> QED
  BY <1>3

\* There is at most one tile at an offset, and it ends in the eraseblock.
LEMMA OneTile ==
  ASSUME NEW l, IsLeb(l), NEW o \in Boundary, NEW n \in TileSize(l, o)
  PROVE  /\ n \in Nat /\ n > 0 /\ o + n \in Boundary
         /\ TileSize(l, o) = {n}
<1> USE Geometry
<1>1. o \in Nat /\ o % 8 = 0 /\ o =< LebSize - 8
  BY DEF Boundary, TileSize
<1>2. CASE NodeTile(l, o)
  <2>1. l.hdr[o].len \in CInt /\ l.hdr[o].len \in UBIFS_CH_SZ .. LebSize - o
    BY <1>2 DEF NodeTile, Sound, IsLeb, Header
  <2>2. TileSize(l, o) = {ALIGN(l.hdr[o].len, 8)}
    BY <1>1, <1>2 DEF TileSize
  <2>3. l.hdr[o].len \in Int /\ l.hdr[o].len >= 24 /\ l.hdr[o].len =< LebSize - o
    BY <2>1, <1>1 DEF UBIFS_CH_SZ
  <2>4. (LebSize - o) \in Int /\ (LebSize - o) % 8 = 0
    BY <1>1
  <2>5. n \in Int /\ n % 8 = 0 /\ n >= 24 /\ n =< LebSize - o
    BY <2>2, <2>3, <2>4, AlignUp
  <2> QED
    BY <1>1, <2>2, <2>5 DEF Boundary
<1>3. CASE ~NodeTile(l, o) /\ PadTile(l, o)
  <2> DEFINE size == l.hdr[o].len + l.hdr[o].pad_len
  <2>1. /\ l.hdr[o].len \in Int /\ l.hdr[o].len >= 24
        /\ l.hdr[o].pad_len \in 0 .. LebSize - o - l.hdr[o].len /\ size % 8 = 0
    BY <1>3 DEF PadTile, Sound, IsLeb, Header, UBIFS_CH_SZ, CInt
  <2>2. TileSize(l, o) = {size}
    BY <1>1, <1>3 DEF TileSize
  <2> QED
    BY <1>1, <2>1, <2>2 DEF Boundary
<1>4. CASE ~NodeTile(l, o) /\ ~PadTile(l, o)
  <2>1. TileSize(l, o) = {m \in {8, 16, 24} : RawTile(l, o, m)}
    BY <1>1, <1>4 DEF TileSize
  <2>2. n \in {8, 16, 24} /\ RawTile(l, o, n)
    BY <2>1
  <2>3. ASSUME NEW m \in {8, 16, 24}, NEW k \in {8, 16, 24}, m < k,
               RawTile(l, o, m), RawTile(l, o, k)
        PROVE  FALSE
    <3>1. o + m \in o .. o + k - 1 /\ o + m < LebSize
      BY <1>1, <2>3 DEF RawTile
    <3> QED
      BY <2>3, <3>1 DEF RawTile
  <2>4. \A m \in {8, 16, 24} : RawTile(l, o, m) => m = n
    BY <2>2, <2>3
  <2>5. o + n =< LebSize
    BY <2>2 DEF RawTile
  <2> QED
    BY <1>1, <2>1, <2>2, <2>4, <2>5 DEF Boundary
<1> QED
  BY <1>2, <1>3, <1>4

\* What RowFrom returns depends on the rows further on only.
LEMMA RowLooksAhead ==
  ASSUME NEW l, IsLeb(l), NEW o \in Boundary, NEW f, NEW g,
         \A p \in Boundary : p > o => f[p] = g[p]
  PROVE  RowFrom(l, f, o) = RowFrom(l, g, o)
<1>1. CASE TileSize(l, o) = {}
  BY <1>1 DEF RowFrom
<1>2. CASE TileSize(l, o) # {}
  <2>1. PICK n \in TileSize(l, o) : n = CHOOSE m \in TileSize(l, o) : TRUE
    BY <1>2
  <2>2. o + n \in Boundary /\ o + n > o
    BY OneTile, Geometry DEF Boundary
  <2>3. f[o + n] = g[o + n]
    BY <2>2
  <2> QED
    BY <1>2, <2>1, <2>3 DEF RowFrom
<1> QED
  BY <1>1, <1>2

\* Row satisfies the equation that defines it.
LEMMA RowEquation ==
  ASSUME NEW l, IsLeb(l)
  PROVE  \E row : /\ \A o \in Boundary : row[o] = RowFrom(l, row, o)
                  /\ \A o \in Boundary : Row(l, o) = row[o]
<1> DEFINE T == {k \in 0 .. LebSize :
                   \E f : \A o \in Boundary : o >= k => f[o] = RowFrom(l, f, o)}
           Row0 == CHOOSE row : row = [o \in Boundary |-> RowFrom(l, row, o)]
<1>1. \A o \in Boundary : o \in Nat /\ o =< LebSize
  BY Geometry DEF Boundary
<1>2. ASSUME NEW k \in 0 .. LebSize, \A p \in k + 1 .. LebSize : p \in T
      PROVE  k \in T
  <2>1. PICK f : \A o \in Boundary : o >= k + 1 => f[o] = RowFrom(l, f, o)
    <3>1. CASE k = LebSize
      BY <1>1, <3>1, Geometry
    <3>2. CASE k < LebSize
      <4>1. k + 1 \in T
        BY <1>2, <3>2, Geometry
      <4> QED
        BY <4>1
    <3> QED
      BY <3>1, <3>2, Geometry
  <2> DEFINE g == [o \in Boundary |-> IF o = k THEN RowFrom(l, f, k) ELSE f[o]]
  <2>2. ASSUME NEW o \in Boundary, o >= k
        PROVE  g[o] = RowFrom(l, g, o)
    <3>1. \A p \in Boundary : p > o => f[p] = g[p]
      BY <1>1, <2>2
    <3>2. RowFrom(l, g, o) = RowFrom(l, f, o)
      <4> HIDE DEF g
      <4> QED
        BY <3>1, RowLooksAhead
    <3>3. g[o] = RowFrom(l, f, o)
      BY <1>1, <2>1, <2>2
    <3> QED
      BY <3>2, <3>3
  <2> HIDE DEF g
  <2> QED
    BY <2>2
<1>3. 0 \in T
  <2> HIDE DEF T
  <2>1. \A o \in 0 .. LebSize : o \in T
    BY <1>2, Descent, Geometry
  <2> QED
    BY <2>1, Geometry
<1>4. \E row : row = [o \in Boundary |-> RowFrom(l, row, o)]
  <2>1. PICK f : \A o \in Boundary : o >= 0 => f[o] = RowFrom(l, f, o)
    BY <1>3
  <2> DEFINE g == [o \in Boundary |-> f[o]]
  <2>2. \A o \in Boundary : g[o] = RowFrom(l, g, o)
    <3>1. ASSUME NEW o \in Boundary
          PROVE  g[o] = RowFrom(l, g, o)
      <4>1. \A p \in Boundary : p > o => f[p] = g[p]
        OBVIOUS
      <4>2. RowFrom(l, g, o) = RowFrom(l, f, o)
        <5> HIDE DEF g
        <5> QED
          BY <4>1, RowLooksAhead
      <4>3. g[o] = f[o]
        OBVIOUS
      <4> QED
        BY <1>1, <2>1, <4>2, <4>3
    <3> QED
      BY <3>1
  <2>3. g = [o \in Boundary |-> RowFrom(l, g, o)]
    <3>1. [o \in Boundary |-> RowFrom(l, g, o)] = [o \in Boundary |-> g[o]]
      BY <2>2, Zenon
    <3> QED
      BY <3>1, Zenon
  <2> HIDE DEF g
  <2> QED
    BY <2>3
<1>5. Row0 = [o \in Boundary |-> RowFrom(l, Row0, o)]
  BY <1>4, Zenon
<1>6. \A o \in Boundary : Row(l, o) = Row0[o]
  BY DEF Row
<1> HIDE DEF Row0
<1>7. \A o \in Boundary : Row0[o] = RowFrom(l, Row0, o)
  BY <1>5, Zenon
<1> QED
  BY <1>6, <1>7

\* A row is the tile it starts with, if any, and the row behind that tile.
LEMMA RowUnfolds ==
  ASSUME NEW l, IsLeb(l), NEW o \in Boundary
  PROVE  /\ TileSize(l, o) = {} => Row(l, o) = [nodes |-> <<>>, end |-> o]
         /\ \A n \in TileSize(l, o) :
              Row(l, o) = [nodes |-> (IF NodeTile(l, o) THEN <<Entry(l, o)>> ELSE <<>>)
                                       \o Row(l, o + n).nodes,
                           end   |-> Row(l, o + n).end]
<1>1. PICK row : /\ \A p \in Boundary : row[p] = RowFrom(l, row, p)
                 /\ \A p \in Boundary : Row(l, p) = row[p]
  BY RowEquation
<1>2. Row(l, o) = RowFrom(l, row, o)
  BY <1>1
<1>3. ASSUME NEW n \in TileSize(l, o)
      PROVE  Row(l, o) = [nodes |-> (IF NodeTile(l, o) THEN <<Entry(l, o)>> ELSE <<>>)
                                      \o Row(l, o + n).nodes,
                          end   |-> Row(l, o + n).end]
  <2>1. o + n \in Boundary /\ TileSize(l, o) = {n}
    BY OneTile
  <2>2. (CHOOSE m \in TileSize(l, o) : TRUE) = n /\ TileSize(l, o) # {}
    BY <2>1
  <2>3. row[o + n] = Row(l, o + n)
    BY <1>1, <2>1
  <2> QED
    BY <1>2, <2>2, <2>3 DEF RowFrom
<1> QED
  BY <1>2, <1>3 DEF RowFrom

LEMMA RowIsRecord ==
  ASSUME NEW l, IsLeb(l), NEW o \in Boundary
  PROVE  Row(l, o) = [nodes |-> Row(l, o).nodes, end |-> Row(l, o).end]
<1>1. CASE TileSize(l, o) = {}
  <2>1. Row(l, o) = [nodes |-> <<>>, end |-> o]
    BY <1>1, RowUnfolds
  <2> QED
    BY <2>1
<1>2. ASSUME NEW n \in TileSize(l, o)
      PROVE  Row(l, o) = [nodes |-> Row(l, o).nodes, end |-> Row(l, o).end]
  <2> DEFINE s == (IF NodeTile(l, o) THEN <<Entry(l, o)>> ELSE <<>>) \o Row(l, o + n).nodes
             e == Row(l, o + n).end
  <2>1. Row(l, o) = [nodes |-> s, end |-> e]
    BY <1>2, RowUnfolds
  <2> HIDE DEF s, e
  <2> QED
    BY <2>1
<1> QED
  BY <1>1, <1>2

\* The entry of a node is what ubifs_add_snod records of it.
LEMMA EntryIsSnod ==
  ASSUME NEW l, NEW o \in Int
  PROVE  Entry(l, o) = Snod(l, o, o)
<1>1. \A i \in 1 .. UBIFS_MAX_KEY_LEN : o + UBIFS_CH_SZ - 1 + i = o + UBIFS_CH_SZ + i - 1
  BY DEF UBIFS_CH_SZ, UBIFS_MAX_KEY_LEN
<1> QED
  BY <1>1 DEF Entry, Snod, key_read, ZeroKey

LEMMA EntryIsTyped ==
  ASSUME NEW l, IsLeb(l), WellRanged(l), PadLenFits(l), NEW o \in Boundary,
         o =< LebSize - 8, NodeTile(l, o)
  PROVE  Entry(l, o) \in ScanNode
<1> DEFINE n == LebSize - o
<1>1. o \in Nat /\ n \in Nat /\ o + n = LebSize /\ n >= 8 /\ o % 8 = 0 /\ o \in CInt
  BY Geometry DEF Boundary, CInt
<1>2. o \in DOMAIN l.hdr /\ l.hdr[o].type # UBIFS_PAD_NODE
  BY DEF NodeTile, Sound
<1>3. l.hdr[o].len \in CInt /\ l.hdr[o].len \in UBIFS_CH_SZ .. n /\ l.hdr[o].crc = ut_crc32(l.hdr[o])
  BY <1>2 DEF NodeTile, Sound, IsLeb, Header
<1> HIDE DEF n
<1>4. n >= UBIFS_CH_SZ /\ ~ubifs_check_node(l, o, n)
  BY <1>1, <1>3 DEF ubifs_check_node, UBIFS_CH_SZ, CInt
<1>5. ReadEnd(l, o, n) =< LebSize
  BY <1>1, TameLook
<1>6. Snod(l, o, o) \in ScanNode
  BY <1>1, <1>2, <1>4, <1>5, SnodIsTyped
<1> QED
  BY <1>1, <1>6, EntryIsSnod

\* What rows are made of, and where they end.
LEMMA RowIsTyped ==
  ASSUME NEW l, IsLeb(l), WellRanged(l), PadLenFits(l)
  PROVE  \A o \in Boundary :
           /\ Row(l, o).nodes \in Seq(ScanNode)
           /\ Row(l, o).end \in Boundary /\ o =< Row(l, o).end
<1> DEFINE Good(o) == /\ Row(l, o).nodes \in Seq(ScanNode)
                      /\ Row(l, o).end \in Boundary /\ o =< Row(l, o).end
           T == {o \in 0 .. LebSize : o \in Boundary => Good(o)}
<1>1. \A o \in Boundary : o \in Nat /\ o \in 0 .. LebSize
  BY Geometry DEF Boundary
<1>2. ASSUME NEW o \in 0 .. LebSize, \A p \in o + 1 .. LebSize : p \in T, o \in Boundary
      PROVE  Good(o)
  <2>1. CASE TileSize(l, o) = {}
    <3>1. Row(l, o) = [nodes |-> <<>>, end |-> o]
      BY <1>2, <2>1, RowUnfolds
    <3>2. <<>> \in Seq(ScanNode)
      BY EmptySeq
    <3> QED
      BY <1>1, <1>2, <3>1, <3>2
  <2>2. ASSUME NEW n \in TileSize(l, o)
        PROVE  Good(o)
    <3> DEFINE here == IF NodeTile(l, o) THEN <<Entry(l, o)>> ELSE <<>>
    <3>1. n \in Nat /\ n > 0 /\ o + n \in Boundary
      BY <1>2, OneTile
    <3>2. Good(o + n)
      BY <1>1, <1>2, <3>1
    <3>3. Row(l, o) = [nodes |-> here \o Row(l, o + n).nodes, end |-> Row(l, o + n).end]
      BY <1>2, RowUnfolds
    <3>4. o =< LebSize - 8
      BY <1>1, <1>2, Geometry DEF TileSize
    <3>5. here \in Seq(ScanNode)
      <4>1. <<>> \in Seq(ScanNode)
        BY EmptySeq
      <4>2. NodeTile(l, o) => Entry(l, o) \in ScanNode
        BY <1>2, <3>4, EntryIsTyped
      <4>3. NodeTile(l, o) => <<Entry(l, o)>> \in Seq(ScanNode)
        BY <4>2
      <4> QED
        BY <4>1, <4>3, Zenon
    <3>6. here \o Row(l, o + n).nodes \in Seq(ScanNode)
      BY <3>2, <3>5, ConcatProperties
    <3> HIDE DEF here
    <3>7. o =< Row(l, o + n).end
      <4>1. Row(l, o + n).end \in Nat /\ o \in Nat
        BY <1>1, <1>2, <3>2
      <4>2. o + n =< Row(l, o + n).end
        BY <3>2
      <4> QED
        BY <3>1, <4>1, <4>2
    <3> QED
      BY <3>2, <3>3, <3>6, <3>7
  <2> QED
    BY <2>1, <2>2
<1>3. \A o \in 0 .. LebSize : o \in T
  <2>1. \A o \in 0 .. LebSize : (\A p \in o + 1 .. LebSize : p \in T) => o \in T
    BY <1>2
  <2> HIDE DEF T
  <2> QED
    BY <2>1, Descent, Geometry
<1> QED
  BY <1>1, <1>3

-----------------------------------------------------------------------------
(* What the scanner of one node says of a tile. *)

\* scan_padding_bytes returns the size of the run of raw padding, if it is a tile.
LEMMA PaddingIsTile ==
  ASSUME NEW l, NEW o \in Boundary, NEW n \in Nat, o + n = LebSize, n >= 8,
         NEW look, look = scan_padding_bytes(l, o, n)
  PROVE  /\ look # SCANNED_GARBAGE => RawTile(l, o, look)
         /\ look = SCANNED_GARBAGE => \A m \in {8, 16, 24} : ~RawTile(l, o, m)
<1> DEFINE max == IF UBIFS_PAD_NODE_SZ < n THEN UBIFS_PAD_NODE_SZ ELSE n
           skippable == {m \in {k \in 0 .. max : PaddingRun(l, o, max, k)} : m # 0 /\ m % 8 = 0}
<1>1. o \in Nat /\ o % 8 = 0 /\ n % 8 = 0
  BY Geometry DEF Boundary
<1>2. max \in Nat /\ max =< 28 /\ max =< n /\ (max < n => max = 28 /\ n >= 32)
  BY <1>1 DEF UBIFS_PAD_NODE_SZ
<1>3. look = IF skippable = {} THEN SCANNED_GARBAGE ELSE CHOOSE m \in skippable : TRUE
  BY DEF scan_padding_bytes
<1> HIDE DEF max
<1>4. \A m \in skippable : m \in {8, 16, 24}
  BY <1>2
<1>5. ASSUME NEW m \in {8, 16, 24}
      PROVE  m \in skippable <=> RawTile(l, o, m)
  <2>1. m \in 0 .. max <=> o + m =< LebSize
    BY <1>1, <1>2
  <2>2. m < max <=> o + m < LebSize
    BY <1>1, <1>2
  <2>3. (\A i \in 0 .. m - 1 : l.byte[o + i] = UBIFS_PADDING_BYTE)
          <=> (\A a \in o .. o + m - 1 : l.byte[a] = UBIFS_PADDING_BYTE)
    <3>1. ASSUME \A i \in 0 .. m - 1 : l.byte[o + i] = UBIFS_PADDING_BYTE,
                 NEW a \in o .. o + m - 1
          PROVE  l.byte[a] = UBIFS_PADDING_BYTE
      <4>1. a - o \in 0 .. m - 1 /\ o + (a - o) = a
        BY <1>1
      <4> QED
        BY <3>1, <4>1
    <3>2. \A i \in 0 .. m - 1 : o + i \in o .. o + m - 1
      BY <1>1
    <3> QED
      BY <3>1, <3>2
  <2>4. PaddingRun(l, o, max, m) <=>
          /\ \A i \in 0 .. m - 1 : l.byte[o + i] = UBIFS_PADDING_BYTE
          /\ m < max => l.byte[o + m] # UBIFS_PADDING_BYTE
    BY DEF PaddingRun
  <2>5. m # 0 /\ m % 8 = 0
    OBVIOUS
  <2>6. m \in skippable <=> (m \in 0 .. max /\ PaddingRun(l, o, max, m))
    BY <2>5
  <2> HIDE DEF skippable
  <2> QED
    BY <2>1, <2>2, <2>3, <2>4, <2>6 DEF RawTile
<1> HIDE DEF skippable
<1>6. CASE skippable = {}
  BY <1>3, <1>5, <1>6
<1>7. CASE skippable # {}
  <2>1. look \in skippable
    BY <1>3, <1>7
  <2> QED
    BY <1>4, <1>5, <2>1 DEF SCANNED_GARBAGE
<1> QED
  BY <1>6, <1>7

\* The pad node branch accepts what a pad tile is, and nothing else.
LEMMA PadOfTile ==
  ASSUME NEW ch \in Header, NEW o \in 0 .. LebSize,
         ch.len >= 24, ch.len =< LebSize - o, ch.pad_len =< IntMax - LebSize
  PROVE  ScanPadNode(ch, o) =
           IF /\ ch.pad_len >= 0 /\ ch.pad_len =< LebSize - o - ch.len
              /\ (ch.len + ch.pad_len) % 8 = 0
           THEN ch.len + ch.pad_len ELSE SCANNED_A_BAD_PAD_NODE
<1>1. ch.len \in CInt /\ ch.pad_len \in CInt /\ o \in CInt
  BY Geometry DEF Header, CInt
<1>2. CASE ch.pad_len < 0
  BY <1>1, <1>2 DEF ScanPadNode, CInt
<1>3. CASE ch.pad_len >= 0
  <2>1. /\ ch.len + ch.pad_len \in CInt /\ o + ch.len \in CInt
        /\ o + ch.len + ch.pad_len \in CInt
    BY <1>1, <1>3, Geometry DEF CInt
  <2>2. /\ Plus(ch.len, ch.pad_len) = ch.len + ch.pad_len
        /\ Plus(o, ch.len) = o + ch.len
    BY <1>1, <2>1, PlusIsInt
  <2>3. Plus(Plus(o, ch.len), ch.pad_len) = o + ch.len + ch.pad_len
    BY <1>1, <2>1, <2>2, PlusIsInt
  <2> QED
    BY <1>1, <1>3, <2>2, <2>3, Geometry DEF ScanPadNode, CInt
<1> QED
  BY <1>1, <1>2, <1>3 DEF CInt

\* The code returned and the tile that is there, on a Tame eraseblock.
LEMMA LookIsTile ==
  ASSUME NEW l, IsLeb(l), WellRanged(l), PadLenFits(l),
         NEW o \in Boundary, NEW n \in Nat, o + n = LebSize, n >= 8,
         NEW look, look = ubifs_scan_a_node(l, o, n, o)
  PROVE  /\ look = SCANNED_A_NODE => NodeTile(l, o) /\ TileSize(l, o) = {ALIGN(l.hdr[o].len, 8)}
         /\ look > 0 => ~NodeTile(l, o) /\ TileSize(l, o) = {look}
         /\ look = SCANNED_EMPTY_SPACE => TileSize(l, o) = {}
         /\ look \in {SCANNED_GARBAGE, SCANNED_A_CORRUPT_NODE, SCANNED_A_BAD_PAD_NODE} =>
              TileSize(l, o) = {} /\ ~AllFF(l, o, LebSize)
<1> USE DEF SCANNED_GARBAGE, SCANNED_EMPTY_SPACE, SCANNED_A_NODE, SCANNED_A_CORRUPT_NODE,
            SCANNED_A_BAD_PAD_NODE
<1>1. o \in Nat /\ o % 8 = 0 /\ n = LebSize - o /\ o =< LebSize - 8 /\ o \in 0 .. LebSize
  BY Geometry DEF Boundary
<1>2. AllFF(l, o, LebSize) => AllFF(l, o, o + 4)
  BY <1>1, Geometry DEF AllFF
<1>3. l.byte[o] # FirstMagicByte => o \notin DOMAIN l.hdr
  BY DEF IsLeb
<1>4. ASSUME NEW m, RawTile(l, o, m)
      PROVE  l.byte[o] = UBIFS_PADDING_BYTE
  <2>1. m \in {8, 16, 24} /\ o \in o .. o + m - 1
    BY <1>1, <1>4 DEF RawTile
  <2> QED
    BY <1>4, <2>1 DEF RawTile
<1>5. CASE AllFF(l, o, o + 4)
  <2>1. l.byte[o] = 255
    BY <1>1, <1>5 DEF AllFF
  <2>2. ~NodeTile(l, o) /\ ~PadTile(l, o)
    BY <1>3, <2>1 DEF FirstMagicByte, NodeTile, PadTile, Sound
  <2>3. \A m \in {8, 16, 24} : ~RawTile(l, o, m)
    BY <1>4, <2>1 DEF UBIFS_PADDING_BYTE
  <2>4. look = -1
    BY <1>5 DEF ubifs_scan_a_node
  <2>5. TileSize(l, o) = {}
    BY <1>1, <2>2, <2>3 DEF TileSize
  <2> QED
    BY <2>4, <2>5
<1>6. CASE ~AllFF(l, o, o + 4) /\ o \notin DOMAIN l.hdr
  <2>1. look = scan_padding_bytes(l, o, n)
    BY <1>6 DEF ubifs_scan_a_node
  <2>2. look \in 0 .. n
    BY <2>1, <1>1, PaddingIsWhole
  <2>3. ~NodeTile(l, o) /\ ~PadTile(l, o)
    BY <1>6 DEF NodeTile, PadTile, Sound
  <2>4. TileSize(l, o) = {m \in {8, 16, 24} : RawTile(l, o, m)}
    BY <1>1, <2>3 DEF TileSize
  <2>5. /\ look # 0 => RawTile(l, o, look)
        /\ look = 0 => \A m \in {8, 16, 24} : ~RawTile(l, o, m)
    BY <2>1, PaddingIsTile
  <2>6. CASE look = 0
    <3>1. TileSize(l, o) = {}
      BY <2>4, <2>5, <2>6
    <3> QED
      BY <1>2, <1>6, <2>6, <3>1
  <2>7. CASE look # 0
    <3>1. look \in TileSize(l, o)
      BY <2>4, <2>5, <2>7 DEF RawTile
    <3>2. TileSize(l, o) = {look}
      BY <3>1, OneTile
    <3> QED
      BY <2>2, <2>3, <2>7, <3>2
  <2> QED
    BY <2>6, <2>7
<1>7. CASE ~AllFF(l, o, o + 4) /\ o \in DOMAIN l.hdr
  <2> DEFINE ch == l.hdr[o]
  <2>1. ch \in Header /\ ch.len \in CInt /\ ch.pad_len \in CInt /\ l.byte[o] = FirstMagicByte
    BY <1>7 DEF IsLeb, Header
  <2>2. \A m \in {8, 16, 24} : ~RawTile(l, o, m)
    BY <1>4, <2>1 DEF FirstMagicByte, UBIFS_PADDING_BYTE
  <2>3. (n < UBIFS_CH_SZ \/ ubifs_check_node(l, o, n)) <=> ~Sound(l, o)
    <3>1. ch.len \in UBIFS_CH_SZ .. LebSize - o <=> ~(ch.len < UBIFS_CH_SZ \/ ch.len > n)
      BY <1>1, <2>1, Geometry DEF CInt, UBIFS_CH_SZ
    <3>2. ch.len \in UBIFS_CH_SZ .. LebSize - o => ~(n < UBIFS_CH_SZ)
      BY <1>1, Geometry DEF UBIFS_CH_SZ
    <3> HIDE DEF ch
    <3>3. Sound(l, o) <=> ch.crc = ut_crc32(ch) /\ ch.len \in UBIFS_CH_SZ .. LebSize - o
      BY <1>7 DEF Sound, ch
    <3>4. ubifs_check_node(l, o, n) <=>
            (ch.len < UBIFS_CH_SZ \/ ch.len > n) \/ ch.crc # ut_crc32(ch)
      BY DEF ubifs_check_node, ch
    <3> QED
      BY <3>1, <3>2, <3>3, <3>4
  <2>4. CASE ~Sound(l, o)
    <3>1. look \in {0, -3}
      BY <1>7, <2>3, <2>4 DEF ubifs_scan_a_node
    <3>2. TileSize(l, o) = {}
      BY <1>1, <2>2, <2>4 DEF TileSize, NodeTile, PadTile
    <3> QED
      BY <1>2, <1>7, <3>1, <3>2
  <2>5. CASE Sound(l, o) /\ ch.type # UBIFS_PAD_NODE
    <3>1. look = -2
      BY <1>7, <2>3, <2>5 DEF ubifs_scan_a_node
    <3>2. NodeTile(l, o) /\ TileSize(l, o) = {ALIGN(ch.len, 8)}
      BY <1>1, <2>5 DEF TileSize, NodeTile
    <3> QED
      BY <3>1, <3>2
  <2>6. CASE Sound(l, o) /\ ch.type = UBIFS_PAD_NODE
    <3>1. look = ScanPadNode(ch, o)
      BY <1>7, <2>3, <2>6 DEF ubifs_scan_a_node
    <3>2. ~NodeTile(l, o)
      BY <2>6 DEF NodeTile
    <3>3. /\ ch.len \in Int /\ ch.pad_len \in Int /\ ch.len >= 24 /\ ch.len =< LebSize - o
          /\ ch.pad_len =< IntMax - LebSize
      BY <1>1, <1>7, <2>1, <2>6 DEF Sound, UBIFS_CH_SZ, PadLenFits, CInt
    <3>4. PadTile(l, o) <=> /\ ch.pad_len >= 0 /\ ch.pad_len =< LebSize - o - ch.len
                            /\ (ch.len + ch.pad_len) % 8 = 0
      BY <1>1, <2>6, <3>3, Geometry DEF PadTile
    <3> HIDE DEF ch
    <3>5. CASE PadTile(l, o)
      <4>1. TileSize(l, o) = {ch.len + ch.pad_len}
        BY <1>1, <3>2, <3>5 DEF TileSize, ch
      <4>2. look = ch.len + ch.pad_len
        BY <1>1, <2>1, <3>1, <3>3, <3>4, <3>5, PadOfTile
      <4>3. look \in Int /\ look >= 24
        BY <3>3, <3>4, <3>5, <4>2
      <4> QED
        BY <3>2, <4>1, <4>2, <4>3
    <3>6. CASE ~PadTile(l, o)
      <4>1. TileSize(l, o) = {}
        BY <1>1, <2>2, <3>2, <3>6 DEF TileSize
      <4>2. look = -4
        BY <1>1, <2>1, <3>1, <3>3, <3>4, <3>6, PadOfTile
      <4> QED
        BY <1>2, <1>7, <4>1, <4>2
    <3> QED
      BY <3>5, <3>6
  <2> QED
    BY <2>4, <2>5, <2>6
<1> QED
  BY <1>5, <1>6, <1>7

-----------------------------------------------------------------------------
(***************************************************************************)
(* The invariant behind the refinement.  While the loop runs, the nodes    *)
(* found so far and the row that starts at the cursor make up the row that *)
(* starts where the scan did; behind the loop nothing is left of it; and   *)
(* an error other than a failed allocation says that the row does not end  *)
(* in erased flash.                                                        *)
(***************************************************************************)
FoundSoFar ==
  /\ pc = "loop" => Row(leb, start) = [nodes |-> nodes \o Row(leb, offs).nodes,
                                       end   |-> Row(leb, offs).end]
  /\ pc = "end" => Row(leb, start) = [nodes |-> nodes, end |-> offs]
  /\ pc \in {"words", "bytes", "done"} => Row(leb, start) = [nodes |-> nodes, end |-> endpt]

VerdictTrue ==
  /\ pc \in Calling => ret = 0
  /\ pc = "destroy" => \/ ret \in {0, -ENOMEM}
                       \/ ret = -EUCLEAN /\ ~Scannable(leb, start)

PromiseInv == ScanInv /\ FoundSoFar /\ VerdictTrue

\* Where the scan stands on the row, and what it sees there.
LEMMA LoopTile ==
  ASSUME ScanInv, pc \in {"loop", "end"}
  PROVE  /\ IsLeb(leb) /\ WellRanged(leb) /\ PadLenFits(leb)
         /\ offs \in Boundary /\ buf = offs /\ len \in Nat /\ offs + len = LebSize
         /\ len < 8 => TileSize(leb, offs) = {}
         /\ len >= 8 =>
              /\ Look = SCANNED_A_NODE =>
                   NodeTile(leb, offs) /\ TileSize(leb, offs) = {ALIGN(leb.hdr[offs].len, 8)}
              /\ Look > 0 => ~NodeTile(leb, offs) /\ TileSize(leb, offs) = {Look}
              /\ Look = SCANNED_EMPTY_SPACE => TileSize(leb, offs) = {}
              /\ Look \in {SCANNED_GARBAGE, SCANNED_A_CORRUPT_NODE, SCANNED_A_BAD_PAD_NODE} =>
                   TileSize(leb, offs) = {} /\ ~AllFF(leb, offs, LebSize)
<1>1. /\ offs \in Nat /\ buf = offs /\ len \in Nat /\ offs + len = LebSize
      /\ offs % 8 = 0 /\ IsLeb(leb)
  BY Standing DEF InScan
<1>2. WellRanged(leb) /\ PadLenFits(leb)
  BY DEF TameLeb, ScanInv
<1>3. offs \in Boundary
  BY <1>1, Geometry DEF Boundary
<1>4. Look = ubifs_scan_a_node(leb, offs, len, offs)
  BY <1>1 DEF Look
<1>5. len < 8 => TileSize(leb, offs) = {}
  BY <1>1, Geometry DEF TileSize
<1> QED
  BY <1>1, <1>2, <1>3, <1>4, <1>5, LookIsTile

\* The row at a cursor with no tile is empty.
LEMMA RowEnds ==
  ASSUME ScanInv, FoundSoFar, pc = "loop", TileSize(leb, offs) = {}
  PROVE  Row(leb, start) = [nodes |-> nodes, end |-> offs]
<1>1. Row(leb, offs) = [nodes |-> <<>>, end |-> offs]
  BY LoopTile, RowUnfolds
<1>2. nodes \o <<>> = nodes
  <2>1. nodes \in Seq(ScanNode)
    BY DEF ScanInv, TypeInv, TypeOK
  <2> QED
    BY <2>1, ConcatEmptySeq
<1> QED
  BY <1>1, <1>2 DEF FoundSoFar

\* At the head of the loop nothing has been taken from the row.
LEMMA RowStarts ==
  ASSUME ScanInv, pc = "read"
  PROVE  Row(leb, start) = [nodes |-> nodes \o Row(leb, offs).nodes, end |-> Row(leb, offs).end]
<1>1. IsLeb(leb) /\ WellRanged(leb) /\ PadLenFits(leb)
  BY DEF TameLeb, ScanInv, TypeInv, TypeOK
<1>2. nodes = <<>> /\ offs = start /\ start \in Boundary
  BY DEF ScanInv, TypeInv, TypeOK, PositionInv, Boundary
<1>3. Row(leb, start).nodes \in Seq(ScanNode)
  BY <1>1, <1>2, RowIsTyped
<1>4. nodes \o Row(leb, offs).nodes = Row(leb, start).nodes
  BY <1>2, <1>3, ConcatEmptySeq
<1>5. Row(leb, start) = [nodes |-> Row(leb, start).nodes, end |-> Row(leb, start).end]
  BY <1>1, <1>2, RowIsRecord
<1> QED
  BY <1>2, <1>4, <1>5

\* A tile that the scan moves over is taken from the row.
LEMMA RowTaken ==
  ASSUME ScanInv, FoundSoFar, pc = "loop", NEW n, TileSize(leb, offs) = {n}, NEW found,
         found = IF NodeTile(leb, offs) THEN Append(nodes, Entry(leb, offs)) ELSE nodes
  PROVE  Row(leb, start) = [nodes |-> found \o Row(leb, offs + n).nodes,
                            end   |-> Row(leb, offs + n).end]
<1> DEFINE here == IF NodeTile(leb, offs) THEN <<Entry(leb, offs)>> ELSE <<>>
           rest == Row(leb, offs + n).nodes
<1>1. IsLeb(leb) /\ WellRanged(leb) /\ PadLenFits(leb) /\ offs \in Boundary
  BY LoopTile
<1>2. offs + n \in Boundary /\ offs =< LebSize - 8
  <2>1. n \in TileSize(leb, offs)
    OBVIOUS
  <2>2. offs + n \in Boundary
    BY <1>1, <2>1, OneTile
  <2>3. offs \in Int /\ LebSize \in Int
    BY <1>1, Geometry DEF Boundary
  <2>4. ~(offs > LebSize - 8)
    BY <2>1 DEF TileSize
  <2> QED
    BY <2>2, <2>3, <2>4
<1>3. nodes \in Seq(ScanNode)
  BY DEF ScanInv, TypeInv, TypeOK
<1>4. rest \in Seq(ScanNode)
  BY <1>1, <1>2, RowIsTyped
<1>5. here \in Seq(ScanNode) /\ nodes \o here = found
  <2>1. CASE NodeTile(leb, offs)
    <3>1. Entry(leb, offs) \in ScanNode
      BY <1>1, <1>2, <2>1, EntryIsTyped
    <3>2. here = <<Entry(leb, offs)>> /\ here \in Seq(ScanNode)
      BY <2>1, <3>1
    <3>3. nodes \o <<Entry(leb, offs)>> = Append(nodes, Entry(leb, offs))
      BY <1>3, <3>1, AppendIsConcat
    <3> QED
      BY <2>1, <3>2, <3>3
  <2>2. CASE ~NodeTile(leb, offs)
    <3>1. here = <<>> /\ here \in Seq(ScanNode)
      BY <2>2, EmptySeq
    <3> QED
      BY <1>3, <2>2, <3>1, ConcatEmptySeq
  <2> QED
    BY <2>1, <2>2
<1>6. Row(leb, offs) = [nodes |-> here \o rest, end |-> Row(leb, offs + n).end]
  BY <1>1, RowUnfolds
<1> HIDE DEF here, rest
<1>7. nodes \o (here \o rest) = found \o rest
  <2>1. here \in Seq(ScanNode)
    BY <1>5
  <2>2. (nodes \o here) \o rest = nodes \o (here \o rest)
    BY ONLY <1>3, <1>4, <2>1, ConcatAssociative
  <2> QED
    BY <1>5, <2>2, Zenon
<1>8. Row(leb, start) = [nodes |-> nodes \o (here \o rest), end |-> Row(leb, offs + n).end]
  BY <1>6 DEF FoundSoFar
<1> QED
  BY <1>7, <1>8 DEF rest

LEMMA FoundStep == ScanInv /\ FoundSoFar /\ [Next]_vars => FoundSoFar'
<1> SUFFICES ASSUME ScanInv, FoundSoFar, [Next]_vars
             PROVE  FoundSoFar'
  OBVIOUS
<1> USE DEF args, cursor, sleb, heap
<1>1. ASSUME NEW err \in {0, -EBADMSG, -EIO}, LebRead(err)
      PROVE  FoundSoFar'
  <2>1. pc = "read" /\ pc' = "loop" /\ UNCHANGED <<leb, start, nodes, offs>>
    BY <1>1 DEF LebRead
  <2> QED
    BY <2>1, RowStarts DEF FoundSoFar
<1>2. CASE SkipPadding
  <2>1. /\ pc = "loop" /\ pc' = "loop" /\ len >= 8 /\ Look > 0 /\ Advance(Look)
        /\ UNCHANGED <<leb, start, nodes>>
    BY <1>2 DEF SkipPadding, Looking
  <2>2. Look \in 8 .. len /\ len \in Nat
    BY <2>1, LoopLook, Standing DEF InScan
  <2>3. offs' = offs + Look
    BY <2>1, <2>2, AdvanceInside DEF InScan
  <2>4. ~NodeTile(leb, offs) /\ TileSize(leb, offs) = {Look}
    BY <2>1, LoopTile
  <2>5. Row(leb, start) = [nodes |-> nodes \o Row(leb, offs + Look).nodes,
                           end   |-> Row(leb, offs + Look).end]
    BY <2>1, <2>4, RowTaken
  <2> QED
    BY <2>1, <2>3, <2>5 DEF FoundSoFar
<1>3. CASE AddSnod
  <2> DEFINE n == ALIGN(leb.hdr[offs].len, 8)
  <2>1. /\ pc = "loop" /\ pc' = "loop" /\ len >= 8 /\ Look = SCANNED_A_NODE
        /\ Advance(ALIGN(leb.hdr[buf].len, 8)) /\ UNCHANGED <<leb, start>>
        /\ nodes' = Append(nodes, Snod(leb, buf, offs))
    BY <1>3 DEF AddSnod, Looking
  <2>2. buf = offs /\ offs \in Int /\ len \in Nat
    BY <2>1, Standing DEF InScan
  <2>3. n \in 8 .. len
    BY <2>1, LoopLook
  <2>4. offs' = offs + n
    BY <2>1, <2>2, <2>3, AdvanceInside DEF InScan
  <2>5. NodeTile(leb, offs) /\ TileSize(leb, offs) = {n}
    BY <2>1, LoopTile
  <2>6. nodes' = Append(nodes, Entry(leb, offs))
    BY <2>1, <2>2, EntryIsSnod
  <2> HIDE DEF n
  <2>7. Row(leb, start) = [nodes |-> nodes' \o Row(leb, offs + n).nodes,
                           end   |-> Row(leb, offs + n).end]
    BY <2>1, <2>5, <2>6, RowTaken
  <2> QED
    BY <2>1, <2>4, <2>7 DEF FoundSoFar
<1>4. CASE HitEmptySpace \/ EndOfLeb
  <2>1. /\ pc = "loop" /\ pc' = "end" /\ UNCHANGED <<leb, start, nodes, offs>>
        /\ len < 8 \/ (len >= 8 /\ Look = SCANNED_EMPTY_SPACE)
    BY <1>4 DEF HitEmptySpace, EndOfLeb, Looking
  <2>2. TileSize(leb, offs) = {}
    BY <2>1, LoopTile
  <2>3. Row(leb, start) = [nodes |-> nodes, end |-> offs]
    BY <2>1, <2>2, RowEnds
  <2> QED
    BY <2>1, <2>3 DEF FoundSoFar
<1>5. CASE EndScan
  <2>1. /\ pc = "end" /\ pc' = "words" /\ UNCHANGED <<leb, start, nodes>>
        /\ offs % MinIoSize = 0 /\ endpt' = ALIGN(offs, MinIoSize)
    BY <1>5 DEF EndScan
  <2>2. offs \in Nat
    BY <2>1, Standing DEF InScan
  <2>3. endpt' = offs
    BY <2>1, <2>2, Geometry, AlignOfMultiple
  <2> QED
    BY <2>1, <2>3 DEF FoundSoFar
<1>6. CASE SkipWord \/ WordsDone \/ SkipByte \/ ReturnSleb
  BY <1>6 DEF SkipWord, WordsDone, SkipByte, ReturnSleb, FoundSoFar
<1>7. CASE UNCHANGED vars
  BY <1>7 DEF vars, FoundSoFar
<1>8. CASE Next /\ ~(\/ \E err \in {0, -EBADMSG, -EIO} : LebRead(err)
                     \/ SkipPadding \/ AddSnod \/ HitEmptySpace \/ EndOfLeb \/ EndScan
                     \/ SkipWord \/ WordsDone \/ SkipByte \/ ReturnSleb)
  <2>1. pc' \notin InScan
    BY <1>8 DEF Next, Caller, Scanner, Call, Release, AllocSleb, AllocSlebFails,
       LebReadFails, Corrupted, Error, AddSnodFails, BadNode, UnknownCode, Misaligned,
       BadByte, ReadOutside, DestroySnod, DestroySleb, InScan
  <2> QED
    BY <2>1 DEF InScan, FoundSoFar
<1> QED
  BY <1>1, <1>2, <1>3, <1>4, <1>5, <1>6, <1>7, <1>8

\* Wherever the scan refuses the eraseblock, the row does not end in erased flash.
LEMMA VerdictStep ==
  ScanInv /\ FoundSoFar /\ VerdictTrue /\ [Next]_vars => VerdictTrue'
<1> SUFFICES ASSUME ScanInv, FoundSoFar, VerdictTrue, [Next]_vars
             PROVE  VerdictTrue'
  OBVIOUS
<1> USE DEF args, cursor, sleb, heap, EUCLEAN, ENOMEM
<1>1. CASE BadNode
  <2>1. /\ pc = "loop" /\ pc' = "destroy" /\ ret' = -EUCLEAN /\ UNCHANGED <<leb, start>>
        /\ len >= 8
        /\ Look \in {SCANNED_GARBAGE, SCANNED_A_CORRUPT_NODE, SCANNED_A_BAD_PAD_NODE}
    BY <1>1 DEF BadNode, Looking, Corrupted
  <2>2. TileSize(leb, offs) = {} /\ ~AllFF(leb, offs, LebSize)
    BY <2>1, LoopTile
  <2>3. Row(leb, start) = [nodes |-> nodes, end |-> offs]
    BY <2>1, <2>2, RowEnds
  <2>4. ~Scannable(leb, start)
    BY <2>2, <2>3 DEF Scannable
  <2> QED
    BY <2>1, <2>4 DEF VerdictTrue, Calling, InScan
<1>2. CASE Misaligned
  <2>1. /\ pc = "end" /\ pc' = "destroy" /\ ret' = -EUCLEAN /\ UNCHANGED <<leb, start>>
        /\ offs % MinIoSize # 0
    BY <1>2 DEF Misaligned, Corrupted
  <2>2. ~Scannable(leb, start)
    BY <2>1 DEF FoundSoFar, Scannable
  <2> QED
    BY <2>1, <2>2 DEF VerdictTrue, Calling, InScan
<1>3. CASE BadByte
  <2>1. /\ pc = "bytes" /\ pc' = "destroy" /\ ret' = -EUCLEAN /\ UNCHANGED <<leb, start>>
        /\ len # 0 /\ leb.byte[buf] # 255
    BY <1>3 DEF BadByte, Corrupted
  <2>2. /\ offs \in Nat /\ buf = offs /\ len \in Nat /\ offs + len = LebSize
        /\ endpt \in start .. offs /\ start \in Nat
    BY <2>1, Standing DEF InScan, ScanInv, PositionInv, ErasedSoFar
  <2>3. buf \in endpt .. LebSize - 1
    BY <2>1, <2>2, Geometry
  <2>4. ~AllFF(leb, endpt, LebSize)
    BY <2>1, <2>3 DEF AllFF
  <2>5. ~Scannable(leb, start)
    BY <2>1, <2>4 DEF FoundSoFar, Scannable
  <2> QED
    BY <2>1, <2>5 DEF VerdictTrue, Calling, InScan
<1>4. CASE UnknownCode
  <2>1. pc = "loop" /\ len >= 8 /\ Look < SCANNED_A_BAD_PAD_NODE
    BY <1>4 DEF UnknownCode, Looking
  <2>2. Look >= SCANNED_A_BAD_PAD_NODE /\ Look \in Int
    <3>1. IsLeb(leb) /\ buf \in Int /\ len \in Nat /\ len =< LebSize /\ offs \in CInt
      BY <2>1, Standing, Geometry DEF InScan, CInt
    <3>2. Look \in CInt
      BY <2>1, <3>1, LookIsInt DEF Look
    <3> QED
      BY <2>1, <3>2, LoopLook DEF CInt
  <2> QED
    BY <2>1, <2>2 DEF SCANNED_A_BAD_PAD_NODE
<1>5. CASE AddSnodFails
  BY <1>5 DEF AddSnodFails, Error, VerdictTrue, Calling, InScan
<1>6. CASE Release
  BY <1>6 DEF Release, VerdictTrue, Calling, InScan
<1>7. CASE DestroySnod
  BY <1>7 DEF DestroySnod, VerdictTrue, Calling, InScan
<1>8. ASSUME NEW o \in Starts, NEW q \in BOOLEAN, Call(o, q)
      PROVE  VerdictTrue'
  BY <1>8 DEF Call, VerdictTrue, Calling, InScan
<1>9. CASE \/ AllocSleb \/ SkipPadding \/ HitEmptySpace \/ AddSnod \/ EndOfLeb
           \/ EndScan \/ SkipWord \/ WordsDone \/ SkipByte \/ ReturnSleb
           \/ \E err \in {0, -EBADMSG, -EIO} : LebRead(err)
  <2>1. pc \in Calling /\ pc' \in Calling /\ ret' = ret
    BY <1>9 DEF AllocSleb, SkipPadding, HitEmptySpace, AddSnod, EndOfLeb, EndScan,
       SkipWord, WordsDone, SkipByte, ReturnSleb, LebRead, Looking, Calling, InScan
  <2> QED
    BY <2>1 DEF VerdictTrue, Calling, InScan
<1>10. CASE \/ AllocSlebFails \/ ReadOutside \/ DestroySleb
            \/ \E err \in {0, -EBADMSG, -EIO} : LebReadFails(err)
  BY <1>10 DEF AllocSlebFails, ReadOutside, DestroySleb, LebReadFails, VerdictTrue,
     Calling, InScan
<1>11. CASE UNCHANGED vars
  BY <1>11 DEF vars, VerdictTrue, Calling, InScan
<1> QED
  BY <1>1, <1>2, <1>3, <1>4, <1>5, <1>6, <1>7, <1>8, <1>9, <1>10, <1>11
     DEF Next, Caller, Scanner

LEMMA PromiseInvInit == Tame /\ Init => PromiseInv
BY ScanInit DEF Init, PromiseInv, FoundSoFar, VerdictTrue, Calling, InScan

LEMMA PromiseInvStep == PromiseInv /\ [Next]_vars => PromiseInv'
BY ScanStep, FoundStep, VerdictStep DEF PromiseInv

-----------------------------------------------------------------------------
(* The refinement, step by step. *)

\* The promise and the lemmas above speak of the same rows.
LEMMA SameRows ==
  ASSUME NEW l, NEW s
  PROVE  /\ Promise!Row(l, s) = Row(l, s)
         /\ Promise!Scannable(l, s) <=> Scannable(l, s)
<1>1. Promise!Row(l, s) = Row(l, s)
  BY DEF Promise!Row, Row, Promise!RowFrom, RowFrom, Promise!Boundary, Boundary,
     Promise!TileSize, TileSize, Promise!RawTile, RawTile, Promise!PadTile, PadTile,
     Promise!NodeTile, NodeTile, Promise!Sound, Sound, Promise!Entry, Entry,
     Promise!ALIGN, ALIGN, Promise!ut_crc32, ut_crc32, Promise!KeyedTypes, KeyedTypes,
     Promise!UBIFS_CH_SZ, UBIFS_CH_SZ, Promise!UBIFS_PAD_NODE, UBIFS_PAD_NODE,
     Promise!UBIFS_PADDING_BYTE, UBIFS_PADDING_BYTE,
     Promise!UBIFS_MAX_KEY_LEN, UBIFS_MAX_KEY_LEN,
     Promise!UBIFS_INO_NODE, UBIFS_INO_NODE, Promise!UBIFS_DATA_NODE, UBIFS_DATA_NODE,
     Promise!UBIFS_DENT_NODE, UBIFS_DENT_NODE, Promise!UBIFS_XENT_NODE, UBIFS_XENT_NODE
<1> QED
  BY <1>1 DEF Promise!Scannable, Scannable, Promise!AllFF, AllFF

LEMMA PromiseInit == Init => Promise!Init
<1> SUFFICES ASSUME Init
             PROVE  Promise!Init
  OBVIOUS
<1>1. IsLeb(leb)
  BY ImagesAssumption, SMTT(30) DEF Init
<1>2. Promise!IsLeb(leb)
  BY <1>1 DEF IsLeb, Promise!IsLeb, Addr, Promise!Addr, Byte, Promise!Byte,
     Header, Promise!Header, CInt, Promise!CInt, FirstMagicByte, Promise!FirstMagicByte
<1> QED
  BY <1>2 DEF Init, Promise!Init, phaseBar, answerBar, Promise!NoAnswer

\* A returned list is the row, its count and its end.
LEMMA ReturnIsSucceed ==
  ASSUME PromiseInv, ReturnSleb
  PROVE  Promise!Succeed
<1>1. /\ pc = "bytes" /\ pc' = "done" /\ len = 0
      /\ UNCHANGED <<leb, start, nodes, nodes_cnt, endpt, ret>>
  BY DEF ReturnSleb, args, sleb
<1>2. Row(leb, start) = [nodes |-> nodes, end |-> endpt]
  BY <1>1 DEF PromiseInv, FoundSoFar
<1>3. nodes_cnt = Len(nodes)
  BY <1>1 DEF PromiseInv, ScanInv, TypeInv, HeapBalanced, InScan
<1>4. endpt % MinIoSize = 0 /\ AllFF(leb, endpt, LebSize)
  <2>1. offs = LebSize
    BY <1>1, Standing DEF PromiseInv, InScan
  <2> QED
    BY <1>1, <2>1 DEF PromiseInv, ScanInv, PositionInv, ErasedSoFar
<1>5. Promise!Scannable(leb, start)
  BY <1>2, <1>4, SameRows DEF Scannable
<1>6. phaseBar = "busy" /\ phaseBar' = "held"
  BY <1>1 DEF phaseBar
<1>7. answerBar' = [kind |-> "list", nodes |-> nodes, nodes_cnt |-> Len(nodes), endpt |-> endpt]
  BY <1>1, <1>3 DEF answerBar
<1>8. Promise!Row(leb, start) = [nodes |-> nodes, end |-> endpt]
  BY <1>2, SameRows
<1> QED
  BY <1>1, <1>5, <1>6, <1>7, <1>8 DEF Promise!Succeed, Promise!List

\* When the list has been destroyed the caller has its error, or has released the list.
LEMMA DestroyIsAnswer ==
  ASSUME PromiseInv, DestroySleb
  PROVE  Promise!Refuse \/ Promise!Fail(-ENOMEM) \/ UNCHANGED Promise!vars
<1> USE DEF EUCLEAN, ENOMEM, Promise!EUCLEAN, Promise!ENOMEM
<1>1. pc = "destroy" /\ pc' = "idle" /\ UNCHANGED <<leb, start, ret>>
  BY DEF DestroySleb, args
<1>2. CASE ret = 0
  BY <1>1, <1>2 DEF Promise!vars, phaseBar, answerBar
<1>3. CASE ret = -ENOMEM
  <2>1. Promise!Fail(-ENOMEM)
    BY <1>1, <1>3 DEF Promise!Fail, Promise!ErrorCode, phaseBar, answerBar
  <2> QED
    BY <2>1
<1>4. CASE ret = -EUCLEAN /\ ~Scannable(leb, start)
  <2>1. ~Promise!Scannable(leb, start)
    BY <1>4, SameRows
  <2>2. Promise!Refuse
    BY <1>1, <1>4, <2>1 DEF Promise!Refuse, Promise!ErrorCode, phaseBar, answerBar
  <2> QED
    BY <2>2
<1> QED
  BY <1>1, <1>2, <1>3, <1>4 DEF PromiseInv, VerdictTrue

LEMMA PromiseStep ==
  ASSUME PromiseInv, PromiseInv', [Next]_vars
  PROVE  Promise!Next \/ UNCHANGED Promise!vars
<1> USE DEF args, cursor, sleb, heap, phaseBar, answerBar
<1>1. ASSUME NEW o \in Starts, NEW q \in BOOLEAN, Call(o, q)
      PROVE  Promise!Request(o)
  BY <1>1 DEF Call, Promise!Request, Promise!NoAnswer
<1>2. CASE Release
  <2>1. ret = 0
    BY <1>2 DEF Release, PromiseInv, VerdictTrue, Calling, InScan
  <2>2. Promise!Release
    BY <1>2, <2>1 DEF Release, Promise!Release, Promise!NoAnswer
  <2> QED
    BY <2>2 DEF Promise!Next
<1>3. CASE AllocSlebFails
  <2>1. Promise!Fail(-ENOMEM)
    BY <1>3 DEF AllocSlebFails, Promise!Fail, Promise!ErrorCode, ENOMEM
  <2> QED
    BY <2>1 DEF Promise!Next, ENOMEM, Promise!ENOMEM
<1>4. ASSUME NEW err \in {0, -EBADMSG, -EIO}, LebReadFails(err)
      PROVE  Promise!Fail(-EIO)
  <2>1. err = -EIO
    BY <1>4 DEF LebReadFails
  <2> QED
    BY <1>4, <2>1 DEF LebReadFails, Promise!Fail, Promise!ErrorCode, EIO
<1>5. CASE ReturnSleb
  <2>1. Promise!Succeed
    BY <1>5, ReturnIsSucceed
  <2> QED
    BY <2>1 DEF Promise!Next
<1>6. CASE DestroySleb
  <2>1. Promise!Refuse \/ Promise!Fail(-ENOMEM) \/ UNCHANGED Promise!vars
    BY <1>6, DestroyIsAnswer
  <2> QED
    BY <2>1 DEF Promise!Next, ENOMEM, Promise!ENOMEM
<1>7. CASE DestroySnod
  BY <1>7 DEF DestroySnod, Promise!vars
<1>8. CASE \/ AddSnodFails \/ BadNode \/ UnknownCode \/ Misaligned \/ BadByte
  <2>1. /\ pc \in {"loop", "end", "bytes"} /\ pc' = "destroy" /\ ret' # 0
        /\ UNCHANGED <<leb, start>>
    BY <1>8 DEF AddSnodFails, BadNode, UnknownCode, Misaligned, BadByte, Corrupted, Error,
       Looking, EUCLEAN, ENOMEM, EINVAL
  <2> QED
    BY <2>1 DEF Promise!vars
<1>9. CASE \/ AllocSleb \/ SkipPadding \/ HitEmptySpace \/ AddSnod \/ EndOfLeb
           \/ EndScan \/ SkipWord \/ WordsDone \/ SkipByte
           \/ \E err \in {0, -EBADMSG, -EIO} : LebRead(err)
  <2>1. /\ pc \in {"start", "read", "loop", "end", "words", "bytes"}
        /\ pc' \in {"start", "read", "loop", "end", "words", "bytes"}
        /\ UNCHANGED <<leb, start>>
    BY <1>9 DEF AllocSleb, SkipPadding, HitEmptySpace, AddSnod, EndOfLeb, EndScan,
       SkipWord, WordsDone, SkipByte, LebRead, Looking
  <2> QED
    BY <2>1 DEF Promise!vars
<1>10. CASE ReadOutside
  BY <1>10 DEF ReadOutside, PromiseInv, ScanInv, PositionInv, CursorInSync
<1>11. CASE UNCHANGED vars
  BY <1>11 DEF vars, Promise!vars
<1>12. ASSUME NEW o \in Starts, Promise!Request(o)
       PROVE  Promise!Next
  BY <1>12 DEF Promise!Next
<1>13. Promise!Fail(-EIO) => Promise!Next
  BY DEF Promise!Next, EIO, Promise!EIO
<1> QED
  BY <1>1, <1>2, <1>3, <1>4, <1>5, <1>6, <1>7, <1>8, <1>9, <1>10, <1>11, <1>12, <1>13
     DEF Next, Caller, Scanner

(***************************************************************************)
(* On Tame eraseblocks ubifs_scan() answers every call as promised: with   *)
(* exactly the nodes on the row of tiles, their count and its end when     *)
(* aligned and erased flash follows, with -EUCLEAN only when it does not.  *)
(***************************************************************************)
THEOREM PromiseKept == ASSUME Tame PROVE Spec => KeepsPromise
<1>1. Init => PromiseInv /\ Promise!Init
  BY Tame, PromiseInvInit, PromiseInit
<1>2. PromiseInv /\ [Next]_vars => PromiseInv'
  BY PromiseInvStep
<1>3. PromiseInv /\ PromiseInv' /\ [Next]_vars => [Promise!Next]_(Promise!vars)
  BY PromiseStep
<1> QED
  BY <1>1, <1>2, <1>3, PTL DEF Spec, KeepsPromise, Promise!Spec

-----------------------------------------------------------------------------
(***************************************************************************)
(* The list as it is used.  That no node is added twice is known from the  *)
(* cursor: it has passed every node recorded so far.                       *)
(***************************************************************************)
Passed == pc = "loop" => \A i \in DOMAIN nodes : nodes[i].offs < offs

UseInv == ScanInv /\ Passed

\* The list as NodeList sees it: the offset of each node.
OffsOf(s) == [i \in DOMAIN s |-> s[i].offs]

LEMMA OffsOfType ==
  ASSUME NEW s \in Seq(ScanNode)
  PROVE  /\ OffsOf(s) \in Seq(Int) /\ Len(OffsOf(s)) = Len(s)
         /\ \A i \in 1 .. Len(s) : s[i].offs \in Int /\ OffsOf(s)[i] = s[i].offs
<1>1. Len(s) \in Nat /\ DOMAIN s = 1 .. Len(s)
  OBVIOUS
<1>2. ASSUME NEW i \in 1 .. Len(s)
      PROVE  s[i].offs \in Int
  <2>1. s[i] \in ScanNode
    BY ElementOfSeq
  <2>2. s[i].offs \in CInt
    BY <2>1 DEF ScanNode
  <2> QED
    BY <2>2, IntMaxAssumption DEF CInt
<1>3. OffsOf(s) \in [1 .. Len(s) -> Int]
  BY <1>1, <1>2 DEF OffsOf
<1>4. OffsOf(s) \in Seq(Int) /\ Len(OffsOf(s)) = Len(s)
  BY <1>1, <1>3
<1>5. ASSUME NEW i \in 1 .. Len(s)
      PROVE  OffsOf(s)[i] = s[i].offs
  BY <1>1 DEF OffsOf
<1> QED
  BY <1>2, <1>4, <1>5

LEMMA OffsOfAppend ==
  ASSUME NEW s \in Seq(ScanNode), NEW n \in ScanNode
  PROVE  OffsOf(Append(s, n)) = Append(OffsOf(s), n.offs)
<1> DEFINE t == Append(s, n)
<1>1. /\ t \in Seq(ScanNode) /\ Len(t) = Len(s) + 1
      /\ \A i \in 1 .. Len(s) : t[i] = s[i]
      /\ t[Len(s) + 1] = n
  BY AppendProperties
<1>2. n.offs \in Int
  BY IntMaxAssumption DEF ScanNode, CInt
<1>3. OffsOf(s) \in Seq(Int) /\ Len(OffsOf(s)) = Len(s) /\ Len(s) \in Nat
  BY OffsOfType
<1> DEFINE a == Append(OffsOf(s), n.offs)
<1>4. /\ a \in Seq(Int) /\ Len(a) = Len(s) + 1
      /\ \A i \in 1 .. Len(s) : a[i] = OffsOf(s)[i]
      /\ a[Len(s) + 1] = n.offs
  <2> HIDE DEF OffsOf
  <2> QED
    BY <1>2, <1>3, AppendProperties
<1> HIDE DEF t, a
<1>5. OffsOf(t) \in Seq(Int) /\ Len(OffsOf(t)) = Len(t)
  BY <1>1, OffsOfType
<1>6. ASSUME NEW i \in 1 .. Len(t)
      PROVE  OffsOf(t)[i] = a[i]
  <2>1. OffsOf(t)[i] = t[i].offs
    BY <1>1, OffsOfType
  <2>2. CASE i \in 1 .. Len(s)
    BY <1>1, <1>4, <2>1, <2>2, OffsOfType
  <2>3. CASE i = Len(s) + 1
    BY <1>1, <1>4, <2>1, <2>3
  <2> QED
    BY <1>1, <1>3, <2>2, <2>3
<1>7. OffsOf(t) = a
  BY <1>1, <1>4, <1>5, <1>6, SeqEqual
<1> QED
  BY <1>7 DEF t, a

LEMMA OffsOfTail ==
  ASSUME NEW s \in Seq(ScanNode), s # <<>>
  PROVE  OffsOf(s) # <<>> /\ OffsOf(Tail(s)) = Tail(OffsOf(s))
<1> DEFINE t == Tail(s)
           c == OffsOf(s)
<1>1. /\ t \in Seq(ScanNode) /\ Len(t) = Len(s) - 1 /\ Len(s) \in Nat \ {0}
      /\ \A i \in 1 .. Len(t) : t[i] = s[i + 1]
  BY HeadTailProperties, LenProperties
<1>2. /\ c \in Seq(Int) /\ Len(c) = Len(s)
      /\ \A i \in 1 .. Len(s) : c[i] = s[i].offs
  BY OffsOfType
<1> HIDE DEF t, c
<1>3. c # <<>>
  BY <1>1, <1>2
<1>4. /\ Tail(c) \in Seq(Int) /\ Len(Tail(c)) = Len(c) - 1
      /\ \A i \in 1 .. Len(Tail(c)) : Tail(c)[i] = c[i + 1]
  BY <1>2, <1>3, HeadTailProperties
<1>5. /\ OffsOf(t) \in Seq(Int) /\ Len(OffsOf(t)) = Len(t)
      /\ \A i \in 1 .. Len(t) : OffsOf(t)[i] = t[i].offs
  BY <1>1, OffsOfType
<1>6. ASSUME NEW i \in 1 .. Len(t)
      PROVE  OffsOf(t)[i] = Tail(c)[i]
  <2>1. i + 1 \in 1 .. Len(s)
    BY <1>1
  <2> QED
    BY <1>1, <1>2, <1>4, <1>5, <2>1
<1>7. OffsOf(t) = Tail(c)
  BY <1>1, <1>2, <1>4, <1>5, <1>6, SeqEqual
<1> QED
  BY <1>3, <1>7 DEF t, c

LEMMA PassedStep == UseInv /\ [Next]_vars => Passed'
<1> SUFFICES ASSUME UseInv, [Next]_vars PROVE Passed'
  OBVIOUS
<1>1. nodes \in Seq(ScanNode)
  BY DEF UseInv, ScanInv, TypeInv, TypeOK
<1>2. ASSUME NEW err \in {0, -EBADMSG, -EIO}, LebRead(err)
      PROVE  Passed'
  BY <1>2 DEF LebRead, Passed, UseInv, ScanInv, TypeInv, sleb, cursor
<1>3. CASE SkipPadding
  <2>1. pc = "loop" /\ len >= 8 /\ Look > 0 /\ Advance(Look) /\ nodes' = nodes
    BY <1>3 DEF SkipPadding, Looking, sleb
  <2>2. Look \in 8 .. len /\ offs \in Nat /\ len \in Nat
    BY <2>1, LoopLook, Standing DEF InScan, UseInv
  <2>3. offs' = offs + Look
    BY <2>1, <2>2, AdvanceInside DEF InScan, UseInv
  <2>4. \A i \in DOMAIN nodes : nodes[i].offs \in Int /\ nodes[i].offs < offs
    BY <1>1, <2>1, OffsOfType DEF UseInv, Passed
  <2> HIDE DEF Look
  <2> QED
    BY <2>1, <2>2, <2>3, <2>4 DEF Passed
<1>4. CASE AddSnod
  <2> DEFINE n == ALIGN(leb.hdr[buf].len, 8)
             new == Snod(leb, buf, offs)
  <2>1. /\ pc = "loop" /\ len >= 8 /\ Advance(n) /\ Look = SCANNED_A_NODE
        /\ nodes' = Append(nodes, new)
    BY <1>4 DEF AddSnod, Looking
  <2>2. buf = offs /\ offs \in Nat /\ len \in Nat
    BY <2>1, Standing DEF InScan, UseInv
  <2>3. n \in 8 .. len /\ new.offs = offs
    BY <2>1, <2>2, LoopLook DEF UseInv, Snod
  <2> HIDE DEF n, new
  <2>4. offs' = offs + n
    BY <2>1, <2>3, AdvanceInside DEF InScan, UseInv
  <2>5. \A i \in DOMAIN nodes : nodes[i].offs \in Int /\ nodes[i].offs < offs
    BY <1>1, <2>1, OffsOfType DEF UseInv, Passed
  <2>6. ASSUME NEW i \in DOMAIN nodes'
        PROVE  nodes'[i].offs < offs'
    <3>1. CASE i \in DOMAIN nodes
      <4>1. nodes'[i] = nodes[i]
        BY <1>1, <2>1, <3>1
      <4> QED
        BY <2>2, <2>3, <2>4, <2>5, <3>1, <4>1
    <3>2. CASE i \notin DOMAIN nodes
      <4>1. nodes'[i] = new
        BY <1>1, <2>1, <3>2
      <4> QED
        BY <2>2, <2>3, <2>4, <4>1
    <3> QED
      BY <3>1, <3>2
  <2> QED
    BY <2>6 DEF Passed
<1>5. CASE ~(SkipPadding \/ AddSnod \/ \E err \in {0, -EBADMSG, -EIO} : LebRead(err))
  <2>1. pc' # "loop" \/ UNCHANGED <<pc, nodes, offs>>
    BY <1>5 DEF Next, Caller, Scanner, vars, sleb, cursor, Call, Release, AllocSleb,
       AllocSlebFails, LebReadFails, Corrupted, Error, HitEmptySpace, AddSnodFails,
       BadNode, UnknownCode, EndOfLeb, Misaligned, EndScan, SkipWord, WordsDone, SkipByte,
       BadByte, ReturnSleb, ReadOutside, DestroySnod, DestroySleb
  <2> QED
    BY <2>1 DEF UseInv, Passed
<1> QED
  BY <1>2, <1>3, <1>4, <1>5

\* Each step of the scanner does one thing to the list, or nothing.
LEMMA UseStep ==
  ASSUME UseInv, [Next]_vars
  PROVE  ListUse!Next \/ UNCHANGED <<slebs # 0, OffsOf(nodes)>>
<1> DEFINE cells == OffsOf(nodes)
           held  == slebs # 0
<1>1. nodes \in Seq(ScanNode)
  BY DEF UseInv, ScanInv, TypeInv, TypeOK
<1>2. nodes' \in Seq(ScanNode)
  BY ScanStep DEF UseInv, ScanInv, TypeInv, TypeOK
<1>3. /\ pc \in {"idle", "start"} => slebs = 0
      /\ pc \notin {"idle", "start"} => slebs = 1
      /\ pc = "read" => nodes = <<>>
  BY DEF UseInv, ScanInv, TypeInv, HeapBalanced
<1>4. CASE AllocSleb
  <2>1. pc = "start" /\ slebs' = slebs + 1 /\ nodes' = <<>>
    BY <1>4 DEF AllocSleb
  <2>2. ~held /\ held' /\ cells' = <<>>
    BY <1>3, <2>1 DEF OffsOf
  <2>3. ListUse!Start
    BY <2>2 DEF ListUse!Start, OffsOf
  <2> QED
    BY <2>3 DEF ListUse!Next
<1>5. ASSUME NEW err \in {0, -EBADMSG, -EIO}, LebReadFails(err)
      PROVE  ListUse!Next
  <2>1. pc = "read" /\ slebs' = slebs - 1 /\ nodes' = nodes
    BY <1>5 DEF LebReadFails, sleb
  <2>2. held /\ ~held' /\ cells = <<>> /\ cells' = cells
    BY <1>3, <2>1 DEF OffsOf
  <2>3. ListUse!GiveUp
    BY <2>2 DEF ListUse!GiveUp, OffsOf
  <2> QED
    BY <2>3 DEF ListUse!Next
<1>6. CASE AddSnod
  <2> DEFINE new == Snod(leb, buf, offs)
  <2>1. /\ pc = "loop" /\ len >= 8 /\ Look = SCANNED_A_NODE
        /\ nodes' = Append(nodes, new) /\ slebs' = slebs
    BY <1>6 DEF AddSnod, Looking
  <2>2. buf = offs /\ offs \in Nat /\ len \in Nat /\ offs + len = LebSize
    BY <2>1, Standing DEF InScan, UseInv
  <2>3. offs \in Addr /\ new.offs = offs
    BY <2>1, <2>2, Geometry DEF Addr, Snod
  <2> HIDE DEF new
  <2>4. \A i \in DOMAIN nodes : nodes[i].offs \in Int /\ nodes[i].offs < offs
    BY <1>1, <2>1, OffsOfType DEF UseInv, Passed
  <2>5. \A i \in DOMAIN cells : cells[i] # offs
    BY <2>2, <2>4 DEF OffsOf
  <2>6. held /\ held' = held
    BY <1>3, <2>1
  <2>7. cells' = Append(cells, offs)
    <3>1. new \in ScanNode
      <4>1. Len(nodes') = Len(nodes) + 1 /\ nodes'[Len(nodes) + 1] = new
        BY <1>1, <2>1
      <4>2. Len(nodes) + 1 \in 1 .. Len(nodes')
        BY <1>1, <4>1
      <4> QED
        BY <1>2, <4>1, <4>2, ElementOfSeq
    <3> QED
      BY <1>1, <2>1, <2>3, <3>1, OffsOfAppend
  <2>8. \E n \in Addr : ListUse!Add(n)
    <3>1. PICK n \in Addr : n = offs
      BY <2>3
    <3>2. ListUse!Add(n)
      BY <2>5, <2>6, <2>7, <3>1 DEF ListUse!Add, OffsOf
    <3> QED
      BY <3>2
  <2> QED
    BY <2>8 DEF ListUse!Next
<1>7. CASE DestroySnod
  <2>1. pc = "destroy" /\ nodes # <<>> /\ nodes' = Tail(nodes) /\ slebs' = slebs
    BY <1>7 DEF DestroySnod
  <2>2. held /\ held' = held
    BY <1>3, <2>1
  <2>3. cells # <<>> /\ cells' = Tail(cells)
    BY <1>1, <2>1, OffsOfTail
  <2>4. ListUse!TakeFirst
    BY <2>2, <2>3 DEF ListUse!TakeFirst, OffsOf
  <2> QED
    BY <2>4 DEF ListUse!Next
<1>8. CASE DestroySleb
  <2>1. pc = "destroy" /\ nodes = <<>> /\ nodes' = nodes /\ slebs' = slebs - 1
    BY <1>8 DEF DestroySleb, sleb
  <2>2. held /\ ~held' /\ cells = <<>> /\ cells' = cells
    BY <1>3, <2>1 DEF OffsOf
  <2>3. ListUse!GiveUp
    BY <2>2 DEF ListUse!GiveUp, OffsOf
  <2> QED
    BY <2>3 DEF ListUse!Next
<1>9. CASE ~(\/ AllocSleb \/ AddSnod \/ DestroySnod \/ DestroySleb
             \/ \E err \in {0, -EBADMSG, -EIO} : LebReadFails(err))
  <2>1. UNCHANGED <<nodes, slebs>>
    BY <1>9 DEF Next, Caller, Scanner, vars, sleb, heap, Call, Release, AllocSlebFails,
       LebRead, Corrupted, Error, SkipPadding, HitEmptySpace, AddSnodFails, BadNode,
       UnknownCode, EndOfLeb, Misaligned, EndScan, SkipWord, WordsDone, SkipByte,
       BadByte, ReturnSleb, ReadOutside
  <2> QED
    BY <2>1
<1> QED
  BY <1>4, <1>5, <1>6, <1>7, <1>8, <1>9

(***************************************************************************)
(* On Tame eraseblocks ubifs_scan() does nothing to its list that NodeList *)
(* does not allow, and NodeList is what the pointers of KList implement:   *)
(* each specification is the other's contract.                             *)
(***************************************************************************)
THEOREM UseCorrect == ASSUME Tame PROVE Spec => UsesList
<1>1. Init => UseInv /\ ListUse!Init
  <2>1. ASSUME Init PROVE ListUse!Init
    <3>1. slebs = 0 /\ nodes = <<>>
      BY <2>1 DEF Init
    <3>2. [i \in DOMAIN nodes |-> nodes[i].offs] = <<>>
      BY <3>1
    <3> QED
      BY <3>1, <3>2 DEF ListUse!Init
  <2> QED
    BY Tame, ScanInit, <2>1 DEF Init, UseInv, Passed
<1>2. UseInv /\ [Next]_vars => UseInv'
  BY ScanStep, PassedStep DEF UseInv
<1>3. UseInv /\ [Next]_vars =>
        [ListUse!Next]_<<slebs # 0, [i \in DOMAIN nodes |-> nodes[i].offs]>>
  BY UseStep DEF OffsOf
<1> QED
  BY <1>1, <1>2, <1>3, PTL DEF Spec, UsesList, ListUse!Spec
=============================================================================
