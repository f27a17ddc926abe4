------------------------------- MODULE ErrPtr -------------------------------
(***************************************************************************)
(* Error codes as pointers, ubifs.h:67-69.  The widths of pointers and of  *)
(* long are parameters: they agree on Linux and differ on 64-bit Windows.  *)
(***************************************************************************)
EXTENDS Integers

CONSTANTS
  PtrSpan,   \* number of pointer values, 2 ^ 64 on a 64-bit host
  LongSpan   \* number of values of long, 2 ^ 64, or 2 ^ 32 on Windows

MAX_ERRNO == 4095

ASSUME WidthAssumption ==
  /\ LongSpan \in Nat /\ 4 * MAX_ERRNO < LongSpan
  /\ PtrSpan \in Nat /\ LongSpan =< PtrSpan

\* Conversions: to void * of a negative number, to unsigned long, to long.
Pointer(x)  == IF x < 0 THEN x + PtrSpan ELSE x
Unsigned(x) == x % LongSpan
Signed(x)   == LET u == Unsigned(x)
               IN  IF 2 * u >= LongSpan THEN u - LongSpan ELSE u

ERR_PTR(err) == Pointer(err)
PTR_ERR(p)   == Signed(p)

\* Mutant of the next definition: the comparison is one of signed numbers.
IS_ERR_signed(p) == Signed(p) >= -MAX_ERRNO

IS_ERR(p) == Unsigned(p) >= Unsigned(-MAX_ERRNO)
=============================================================================
