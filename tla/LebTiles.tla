------------------------------ MODULE LebTiles ------------------------------
(***************************************************************************)
(* How an eraseblock is to be read, without the cursor and the loops of    *)
(* the code: as a row of tiles.  A tile is an intact node, an intact pad   *)
(* node with the padding it announces, or a run of raw padding bytes, and  *)
(* the next tile starts where it ends.  A scan is to succeed when nothing  *)
(* but erased flash is left behind the row.                                *)
(***************************************************************************)
EXTENDS FlashLeb, Sequences

Sound(l, o) ==
  /\ o \in DOMAIN l.hdr
  /\ l.hdr[o].crc = ut_crc32(l.hdr[o])
  /\ l.hdr[o].len \in UBIFS_CH_SZ .. LebSize - o

NodeTile(l, o) == Sound(l, o) /\ l.hdr[o].type # UBIFS_PAD_NODE

PadTile(l, o) ==
  /\ Sound(l, o) /\ l.hdr[o].type = UBIFS_PAD_NODE
  /\ l.hdr[o].pad_len \in 0 .. LebSize - o - l.hdr[o].len
  /\ (l.hdr[o].len + l.hdr[o].pad_len) % 8 = 0

\* Raw padding comes in runs of one, two or three words of 8 bytes.
RawTile(l, o, n) ==
  /\ n \in {8, 16, 24} /\ o + n =< LebSize
  /\ \A a \in o .. o + n - 1 : l.byte[a] = UBIFS_PADDING_BYTE
  /\ o + n < LebSize => l.byte[o + n] # UBIFS_PADDING_BYTE

\* The sizes, none or one, of the tile at o; less than 8 bytes hold no tile.
TileSize(l, o) ==
  IF o > LebSize - 8 THEN {}
  ELSE IF NodeTile(l, o) THEN {ALIGN(l.hdr[o].len, 8)}
  ELSE IF PadTile(l, o)  THEN {l.hdr[o].len + l.hdr[o].pad_len}
  ELSE {n \in {8, 16, 24} : RawTile(l, o, n)}

Entry(l, o) ==
  [sqnum |-> l.hdr[o].sqnum, type |-> l.hdr[o].type, offs |-> o,
   len   |-> l.hdr[o].len,
   key   |-> [i \in 1 .. UBIFS_MAX_KEY_LEN |->
                IF l.hdr[o].type \in KeyedTypes
                THEN l.byte[o + UBIFS_CH_SZ - 1 + i] ELSE 0]]

\* Every tile starts on a boundary of 8 bytes.
Boundary == {o \in 0 .. LebSize : o % 8 = 0}

\* The nodes on a row of tiles and where the row ends, row giving both for
\* the rows that start further on.
RowFrom(l, row, o) ==
  IF TileSize(l, o) = {} THEN [nodes |-> <<>>, end |-> o]
  ELSE LET rest == row[o + CHOOSE n \in TileSize(l, o) : TRUE]
       IN  [nodes |-> (IF NodeTile(l, o) THEN <<Entry(l, o)>> ELSE <<>>) \o rest.nodes,
            end   |-> rest.end]

Row(l, s) ==
  LET row[o \in Boundary] == RowFrom(l, row, o)
  IN  row[s]

Scannable(l, s) == Row(l, s).end % MinIoSize = 0 /\ AllFF(l, Row(l, s).end, LebSize)
=============================================================================
