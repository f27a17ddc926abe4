----------------------------- MODULE UbifsMedia -----------------------------
(***************************************************************************)
(* The on-flash format and the C arithmetic that the scanner is built on:  *)
(* node sizes and types, return codes, ALIGN, and the `int` of the build.  *)
(*                                                                         *)
(* Sizes and offsets are in bytes and have their real values.  Only the    *)
(* range of `int` is a parameter, because TLC itself computes in 32 bits:  *)
(* the model checker uses a smaller IntMax with an eraseblock small enough *)
(* to keep the proportions of the real one.                                *)
(***************************************************************************)
EXTENDS Integers

CONSTANT IntMax   \* INT_MAX of the build: 2^31 - 1 on every supported host

ASSUME IntMaxAssumption == IntMax \in Nat /\ (IntMax + 1) % 8 = 0

CInt == -(IntMax + 1) .. IntMax

(***************************************************************************)
(* The sum of two ints.  Signed overflow is undefined in C; the builds of  *)
(* this project (gcc and TinyCC without optimisation, and the kernel with  *)
(* -fno-strict-overflow) wrap in two's complement.  One addition leaves    *)
(* the range of int at most once.                                          *)
(***************************************************************************)
Plus(a, b) ==
  LET sum  == a + b
      span == 2 * (IntMax + 1)
  IN  IF sum > IntMax THEN sum - span
      ELSE IF sum < -(IntMax + 1) THEN sum + span
      ELSE sum

\* For a power of two a, (x + a - 1) & ~(a - 1) rounds x up to a multiple of a.
ALIGN(x, a) == ((x + a - 1) \div a) * a

UBIFS_CH_SZ       == 24
UBIFS_PAD_NODE_SZ == 28
UBIFS_CS_NODE_SZ  == 32
UBIFS_MAX_KEY_LEN == 16

UBIFS_PADDING_BYTE == 206   \* 0xCE

UBIFS_INO_NODE  == 0
UBIFS_DATA_NODE == 1
UBIFS_DENT_NODE == 2
UBIFS_XENT_NODE == 3
UBIFS_PAD_NODE  == 5
UBIFS_CS_NODE   == 10

\* Nodes whose key follows the common header.
KeyedTypes == {UBIFS_INO_NODE, UBIFS_DENT_NODE, UBIFS_XENT_NODE, UBIFS_DATA_NODE}

SCANNED_GARBAGE        == 0
SCANNED_EMPTY_SPACE    == -1
SCANNED_A_NODE         == -2
SCANNED_A_CORRUPT_NODE == -3
SCANNED_A_BAD_PAD_NODE == -4

EBADMSG == 74
ENOMEM  == 12
EINVAL  == 22
EUCLEAN == 117
EIO     == 5    \* stands for every other error a flash read can report
=============================================================================
