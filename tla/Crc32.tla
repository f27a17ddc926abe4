------------------------------- MODULE Crc32 --------------------------------
(***************************************************************************)
(* The CRC of a header, ut_support.c:9-39, and a reference for it.  A word *)
(* is the set of the positions of its one bits, so that xor is the         *)
(* symmetric difference.  A string of bytes is one such set, too: bit j of *)
(* byte i is 8 * i + j.                                                    *)
(***************************************************************************)
EXTENDS Integers

Ones == 0 .. 31                                                \* 0xFFFFFFFF
Poly == {5, 8, 9, 15, 19, 20, 21, 23, 24, 26, 27, 29, 30, 31}  \* 0xEDB88320

Xor(a, b) == (a \cup b) \ (a \cap b)
Shr(a, n) == {k - n : k \in {b \in a : b >= n}}

Round(c) == IF 0 \in c THEN Xor(Poly, Shr(c, 1)) ELSE Shr(c, 1)

\* Mutant of the next definition: the inner loop stops one bit early.
ut_crc_table_seven ==
  [b \in SUBSET (0 .. 7) |->
     LET c[j \in 0 .. 7] == IF j = 0 THEN b ELSE Round(c[j - 1]) IN c[7]]

ut_crc_table ==
  [b \in SUBSET (0 .. 7) |->
     LET c[j \in 0 .. 8] == IF j = 0 THEN b ELSE Round(c[j - 1]) IN c[8]]

\* Mutant of the next definition: the bytes are taken to start at one.
ByteBefore(p, i) == {j \in 0 .. 7 : 8 * (i - 1) + j \in p}

ByteAt(p, i) == {j \in 0 .. 7 : 8 * i + j \in p}

Crc(p, len) ==
  LET crc[i \in 0 .. len] ==
        IF i = 0 THEN Ones
        ELSE LET c == crc[i - 1]
             IN  Xor(ut_crc_table[Xor(c, ByteAt(p, i - 1)) \cap (0 .. 7)], Shr(c, 8))
  IN  Xor(crc[len], Ones)

-----------------------------------------------------------------------------
(***************************************************************************)
(* The reference: the remainder of the bits, the first one the coefficient *)
(* of the highest power, times x ^ 32, with the first 32 of them inverted, *)
(* by the generator of CRC-32; inverted once more.                         *)
(***************************************************************************)
Generator == {0, 1, 2, 4, 5, 7, 8, 10, 11, 12, 16, 22, 23, 26, 32}

\* Long division: d[k] has no power of x from k on.
Remainder(powers, top) ==
  LET d[k \in 32 .. top] ==
        IF k = top THEN powers
        ELSE LET r == d[k + 1]
             IN  IF k \in r THEN Xor(r, {e + k - 32 : e \in Generator}) ELSE r
  IN  d[32]

ReferenceCrc(p, len) ==
  LET top    == 8 * len + 32
      powers == Xor({top - 1 - k : k \in p}, 8 * len .. top - 1)
  IN  Xor({31 - e : e \in Remainder(powers, top)}, Ones)
=============================================================================
