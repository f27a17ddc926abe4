--------------------------- MODULE MCScanHarness ----------------------------
(***************************************************************************)
(* Nodes for ScanHarness: with a key and without, of a length that is a    *)
(* multiple of 8 and not, with padding of both kinds behind them.          *)
(***************************************************************************)
EXTENDS ScanHarness

Node(t, n) == [type |-> t, len |-> n]

FewKinds ==
  { Node(UBIFS_CS_NODE, 32),     \* half a unit: pad node and 4 bytes
    Node(UBIFS_DATA_NODE, 71) }  \* into the next unit: pad node and 28 bytes,
                                 \* or behind the other one 24 padding bytes

\* Addresses on both sides of each half, and the last ones below the errors.
Heap == {1, 16, 32767, 32768, 32769, 61440, PtrSpan - MAX_ERRNO - 1}

\* One bit, two bits, a burst of 32.
Flips ==
  {{b} : b \in 0 .. 127} \cup {{0, b} : b \in 1 .. 127}
    \cup {b .. b + 31 : b \in 0 .. 96}

Erased == {Blank}
Units  == {o \in Addr : o % MinIoSize = 0} \cup {LebSize}
=============================================================================
