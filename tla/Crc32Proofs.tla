---------------------------- MODULE Crc32Proofs -----------------------------
(***************************************************************************)
(* The table and the loop of ut_crc32 compute the remainder of CRC-32, for *)
(* every string of bytes.  Between the two stands the shift register that  *)
(* takes one bit at a time: eight of its rounds are one lookup, and one of *)
(* its rounds is one step of the long division.                            *)
(***************************************************************************)
EXTENDS Crc32, TLAPS, WellFoundedInduction

-----------------------------------------------------------------------------
(* Recursion over 0 .. n. *)

\* Induction from 0 up to N, for the members of a set.
LEMMA Ascent ==
  ASSUME NEW N \in Nat, NEW T, 0 \in T,
         \A i \in 0 .. N - 1 : i \in T => i + 1 \in T
  PROVE  \A i \in 0 .. N : i \in T
<1> DEFINE Bad == {i \in Nat : i =< N /\ i \notin T}
           R   == OpToRel(<, Nat)
<1> SUFFICES ASSUME Bad # {}
             PROVE  FALSE
  OBVIOUS
<1>1. PICK m \in Bad : \A k \in Bad : ~(<<k, m>> \in R)
  <2>1. IsWellFoundedOn(R, Nat)
    BY NatLessThanWellFounded, Zenon
  <2>2. Bad \subseteq Nat
    OBVIOUS
  <2> HIDE DEF R, Bad
  <2> QED
    BY <2>1, <2>2, WFMin, Zenon
<1>2. \A k \in Bad : ~(k < m)
  BY <1>1 DEF OpToRel
<1> HIDE DEF R
<1>3. m # 0 /\ m - 1 \in Nat /\ m - 1 \in 0 .. N - 1
  OBVIOUS
<1>4. m - 1 \in T
  BY <1>2, <1>3
<1>5. m - 1 + 1 \in T
  BY <1>3, <1>4
<1> QED
  BY <1>5

\* Values one after the other, each made from the one before.
IsIteration(f, n, S, a, g) ==
  f \in [0 .. n -> S] /\ f[0] = a /\ \A i \in 1 .. n : f[i] = g[i][f[i - 1]]

LEMMA Iterates ==
  ASSUME NEW n \in Nat, NEW S, NEW a \in S, NEW g \in [1 .. n -> [S -> S]]
  PROVE  \E f : IsIteration(f, n, S, a, g)
<1> DEFINE T == {m \in 0 .. n : \E f \in [0 .. m -> S] :
                                  f[0] = a /\ \A i \in 1 .. m : f[i] = g[i][f[i - 1]]}
<1>1. 0 \in T
  <2> DEFINE f == [i \in 0 .. 0 |-> a]
  <2>1. f \in [0 .. 0 -> S] /\ f[0] = a
    OBVIOUS
  <2> HIDE DEF f
  <2>2. \A i \in 1 .. 0 : f[i] = g[i][f[i - 1]]
    OBVIOUS
  <2>3. 0 \in 0 .. n
    OBVIOUS
  <2> QED
    BY <2>1, <2>2, <2>3
<1>2. ASSUME NEW m \in 0 .. n - 1, m \in T
      PROVE  m + 1 \in T
  <2>1. PICK f \in [0 .. m -> S] : f[0] = a /\ \A i \in 1 .. m : f[i] = g[i][f[i - 1]]
    BY <1>2
  <2> DEFINE h == [i \in 0 .. m + 1 |-> IF i = m + 1 THEN g[m + 1][f[m]] ELSE f[i]]
  <2>2. m \in Nat /\ m + 1 \in 1 .. n /\ m \in 0 .. m
    OBVIOUS
  <2>3. h \in [0 .. m + 1 -> S]
    <3>1. g[m + 1] \in [S -> S] /\ f[m] \in S
      BY <2>2
    <3>2. g[m + 1][f[m]] \in S
      BY <3>1
    <3> QED
      BY <2>2, <3>2
  <2>4. h[0] = a
    BY <2>1, <2>2
  <2>5. ASSUME NEW i \in 1 .. m + 1
        PROVE  h[i] = g[i][h[i - 1]]
    <3>1. CASE i = m + 1
      BY <2>2, <3>1
    <3>2. CASE i \in 1 .. m
      BY <2>1, <2>2, <3>2
    <3> QED
      BY <2>2, <3>1, <3>2
  <2> HIDE DEF h
  <2> QED
    BY <2>2, <2>3, <2>4, <2>5, SMTT(30)
<1>3. n \in T
  <2> HIDE DEF T
  <2>1. \A i \in 0 .. n : i \in T
    BY <1>1, <1>2, Ascent
  <2> QED
    BY <2>1
<1> QED
  BY <1>3 DEF IsIteration

-----------------------------------------------------------------------------
(* Words. *)

Word == SUBSET (0 .. 31)

LEMMA ByteAtBits == ASSUME NEW p, NEW i \in Int PROVE ByteAt(p, i) \in Word /\ ByteAt(p, i) \subseteq 0 .. 7
BY DEF ByteAt, Word

LEMMA XorIn ==
  ASSUME NEW a, NEW b, NEW x
  PROVE  x \in Xor(a, b) <=> ((x \in a) # (x \in b))
BY DEF Xor

LEMMA ShrIn ==
  ASSUME NEW a, a \subseteq Nat, NEW n \in Nat, NEW x
  PROVE  x \in Shr(a, n) <=> x \in Nat /\ x + n \in a
BY DEF Shr

LEMMA WordOps ==
  ASSUME NEW a \in Word, NEW b \in Word
  PROVE  /\ Xor(a, b) \in Word
         /\ \A n \in Nat : Shr(a, n) \in Word
         /\ Round(a) \in Word
<1>1. \A n \in Nat : Shr(a, n) \in Word
  BY DEF Shr, Word
<1>2. Xor(a, b) \in Word
  BY DEF Xor, Word
<1>3. Poly \in Word
  BY DEF Poly, Word
<1>4. Round(a) \in Word
  <2>1. Shr(a, 1) \in Word
    BY <1>1
  <2> QED
    BY <1>3, <2>1 DEF Round, Xor, Word
<1> QED
  BY <1>1, <1>2, <1>4

-----------------------------------------------------------------------------
(* The register. *)

\* What does not take part in a round is only shifted by it.
LEMMA RoundShifts ==
  ASSUME NEW a \in Word, NEW b \in Word, 0 \notin b
  PROVE  Round(Xor(a, b)) = Xor(Round(a), Shr(b, 1))
<1>1. a \subseteq Nat /\ b \subseteq Nat /\ Xor(a, b) \subseteq Nat
  BY DEF Word, Xor
<1>2. 0 \in Xor(a, b) <=> 0 \in a
  BY DEF Xor
<1>3. Shr(Xor(a, b), 1) = Xor(Shr(a, 1), Shr(b, 1))
  <2>1. ASSUME NEW x
        PROVE  x \in Shr(Xor(a, b), 1) <=> x \in Xor(Shr(a, 1), Shr(b, 1))
    <3>1. x \in Shr(Xor(a, b), 1) <=> x \in Nat /\ x + 1 \in Xor(a, b)
      BY <1>1, ShrIn
    <3>2. (x \in Shr(a, 1) <=> x \in Nat /\ x + 1 \in a) /\ (x \in Shr(b, 1) <=> x \in Nat /\ x + 1 \in b)
      BY <1>1, ShrIn
    <3> QED
      BY <3>1, <3>2, Zenon DEF Xor
  <2> QED
    BY <2>1
<1>4. Xor(Poly, Xor(Shr(a, 1), Shr(b, 1))) = Xor(Xor(Poly, Shr(a, 1)), Shr(b, 1))
  BY DEF Xor
<1> QED
  BY <1>2, <1>3, <1>4, Zenon DEF Round

LEMMA ShrAdds ==
  ASSUME NEW a \in Word, NEW m \in Nat
  PROVE  Shr(Shr(a, m), 1) = Shr(a, m + 1)
<1>1. a \subseteq Nat /\ Shr(a, m) \subseteq Nat
  BY DEF Word, Shr
<1>2. ASSUME NEW x
      PROVE  x \in Shr(Shr(a, m), 1) <=> x \in Shr(a, m + 1)
  <2>1. x \in Shr(Shr(a, m), 1) <=> x \in Nat /\ x + 1 \in Shr(a, m)
    BY <1>1, ShrIn
  <2>2. x \in Nat => (x + 1 \in Shr(a, m) <=> x + 1 + m \in a)
    <3> DEFINE y == x + 1
    <3>1. y \in Shr(a, m) <=> y \in Nat /\ y + m \in a
      <4> HIDE DEF y
      <4> QED
        BY <1>1, ShrIn
    <3> QED
      BY <3>1
  <2>3. x \in Shr(a, m + 1) <=> x \in Nat /\ x + (m + 1) \in a
    <3>1. m + 1 \in Nat
      OBVIOUS
    <3> QED
      BY <1>1, <3>1, ShrIn
  <2>4. x \in Nat => x + 1 + m = x + (m + 1)
    OBVIOUS
  <2> QED
    BY <2>1, <2>2, <2>3, <2>4
<1> QED
  BY <1>2

\* Shifted by nothing, and out of the word.
LEMMA ShrEnds ==
  ASSUME NEW a \in Word
  PROVE  Shr(a, 0) = a /\ (a \subseteq 0 .. 7 => Shr(a, 8) = {})
<1>1. a \subseteq Nat
  BY DEF Word
<1>2. ASSUME NEW x
      PROVE  x \in Shr(a, 0) <=> x \in a
  <2>1. x \in Shr(a, 0) <=> x \in Nat /\ x + 0 \in a
    <3>1. 0 \in Nat
      OBVIOUS
    <3> QED
      BY <1>1, <3>1, ShrIn
  <2>2. x \in Nat => x + 0 = x
    OBVIOUS
  <2> QED
    BY <1>1, <2>1, <2>2
<1>3. ASSUME a \subseteq 0 .. 7, NEW x
      PROVE  x \notin Shr(a, 8)
  <2>1. x \in Shr(a, 8) <=> x \in Nat /\ x + 8 \in a
    <3>1. 8 \in Nat
      OBVIOUS
    <3> QED
      BY <1>1, <3>1, ShrIn
  <2>2. x \in Nat => x + 8 \notin 0 .. 7
    OBVIOUS
  <2> QED
    BY <1>3, <2>1, <2>2
<1> QED
  BY <1>2, <1>3

LEMMA XorLaws ==
  ASSUME NEW a, NEW b, NEW c
  PROVE  /\ Xor(a, b) = Xor(b, a)
         /\ Xor(Xor(a, b), c) = Xor(a, Xor(b, c))
         /\ Xor(a, {}) = a /\ Xor(a, a) = {}
BY DEF Xor

\* Eight rounds, as the inner loop of ut_crc_init has them.
IsRounds(f, c) == f \in [0 .. 8 -> Word] /\ f[0] = c /\ \A j \in 1 .. 8 : f[j] = Round(f[j - 1])

LEMMA TableUnfolds ==
  ASSUME NEW b \in SUBSET (0 .. 7)
  PROVE  \E f : IsRounds(f, b) /\ ut_crc_table[b] = f[8]
<1> DEFINE F == CHOOSE c : c = [j \in 0 .. 8 |-> IF j = 0 THEN b ELSE Round(c[j - 1])]
           g == [j \in 1 .. 8 |-> [x \in Word |-> Round(x)]]
<1>1. b \in Word
  BY DEF Word
<1>2. g \in [1 .. 8 -> [Word -> Word]]
  BY WordOps
<1>3. PICK f \in [0 .. 8 -> Word] : f[0] = b /\ \A i \in 1 .. 8 : f[i] = g[i][f[i - 1]]
  <2> HIDE DEF g
  <2>1. 8 \in Nat
    OBVIOUS
  <2>2. PICK f : IsIteration(f, 8, Word, b, g)
    BY <1>1, <1>2, <2>1, Iterates
  <2> QED
    BY <2>2 DEF IsIteration
<1>4. ASSUME NEW j \in 1 .. 8
      PROVE  f[j] = Round(f[j - 1])
  <2>1. f[j - 1] \in Word
    OBVIOUS
  <2> QED
    BY <1>3, <2>1
<1>5. f = [j \in 0 .. 8 |-> IF j = 0 THEN b ELSE Round(f[j - 1])]
  <2>1. \A j \in 0 .. 8 : f[j] = IF j = 0 THEN b ELSE Round(f[j - 1])
    BY <1>3, <1>4
  <2>2. f = [j \in 0 .. 8 |-> f[j]]
    OBVIOUS
  <2> QED
    BY <2>1, <2>2, Zenon
<1>6. F = [j \in 0 .. 8 |-> IF j = 0 THEN b ELSE Round(F[j - 1])]
  <2> HIDE DEF g
  <2> QED
    BY <1>5, Zenon
<1>7. ut_crc_table[b] = F[8]
  BY DEF ut_crc_table
<1> HIDE DEF F, g
<1>8. F[0] = b /\ \A j \in 1 .. 8 : F[j] = Round(F[j - 1])
  BY <1>6
<1>9. \A j \in 0 .. 8 : F[j] \in Word
  <2> DEFINE T == {j \in 0 .. 8 : F[j] \in Word}
  <2>1. 0 \in T
    BY <1>1, <1>8
  <2>2. ASSUME NEW j \in 0 .. 8 - 1, j \in T
        PROVE  j + 1 \in T
    <3>1. j + 1 \in 1 .. 8 /\ j + 1 - 1 = j /\ F[j] \in Word
      BY <2>2
    <3>2. F[j + 1] = Round(F[j])
      BY <1>8, <3>1
    <3> QED
      BY <3>1, <3>2, WordOps
  <2> HIDE DEF T
  <2>3. \A j \in 0 .. 8 : j \in T
    BY <2>1, <2>2, Ascent
  <2> QED
    BY <2>3 DEF T
<1>10. F \in [0 .. 8 -> Word]
  <2>1. F = [j \in 0 .. 8 |-> F[j]]
    BY <1>6
  <2> QED
    BY <1>9, <2>1
<1> QED
  BY <1>7, <1>8, <1>10 DEF IsRounds

\* What a lookup and a shift by eight amount to.
Lookup(c, byte) == Xor(ut_crc_table[Xor(c, byte) \cap (0 .. 7)], Shr(c, 8))

LEMMA LookupIsWord ==
  ASSUME NEW c \in Word, NEW byte \in Word
  PROVE  Lookup(c, byte) \in Word
<1> DEFINE b == Xor(c, byte) \cap (0 .. 7)
<1>1. b \in SUBSET (0 .. 7)
  OBVIOUS
<1> HIDE DEF b
<1>2. PICK f : IsRounds(f, b) /\ ut_crc_table[b] = f[8]
  BY <1>1, TableUnfolds
<1>3. ut_crc_table[b] \in Word
  BY <1>2 DEF IsRounds
<1>4. Shr(c, 8) \in Word
  <2>1. 8 \in Nat
    OBVIOUS
  <2> QED
    BY <2>1, WordOps
<1>5. Xor(ut_crc_table[b], Shr(c, 8)) \in Word
  BY <1>3, <1>4, WordOps
<1> QED
  BY <1>5 DEF Lookup, b

\* The register that takes the bits 0 .. n - 1 of p one by one.
InBit(p, k) == IF k \in p THEN {0} ELSE {}

IsRegister(s, p, n) ==
  /\ s \in [0 .. n -> Word] /\ s[0] = Ones
  /\ \A k \in 1 .. n : s[k] = Round(Xor(s[k - 1], InBit(p, k - 1)))

LEMMA InBitIsWord == ASSUME NEW p, NEW k PROVE InBit(p, k) \in Word
BY DEF InBit, Word

LEMMA OnesIsWord == Ones \in Word
BY DEF Ones, Word

LEMMA RegisterExists ==
  ASSUME NEW p, NEW n \in Nat
  PROVE  \E s : IsRegister(s, p, n)
<1> DEFINE g == [k \in 1 .. n |-> [c \in Word |-> Round(Xor(c, InBit(p, k - 1)))]]
<1>1. g \in [1 .. n -> [Word -> Word]]
  <2>1. ASSUME NEW k \in 1 .. n, NEW c \in Word
        PROVE  Round(Xor(c, InBit(p, k - 1))) \in Word
    <3>1. Xor(c, InBit(p, k - 1)) \in Word
      BY InBitIsWord, WordOps
    <3> QED
      BY <3>1, WordOps
  <2> QED
    BY <2>1
<1>2. PICK s : IsIteration(s, n, Word, Ones, g)
  <2> HIDE DEF g
  <2> QED
    BY <1>1, OnesIsWord, Iterates
<1>3. s \in [0 .. n -> Word] /\ s[0] = Ones /\ \A k \in 1 .. n : s[k] = g[k][s[k - 1]]
  BY <1>2 DEF IsIteration
<1>4. ASSUME NEW k \in 1 .. n
      PROVE  s[k] = Round(Xor(s[k - 1], InBit(p, k - 1)))
  <2>1. s[k - 1] \in Word
    BY <1>3
  <2> QED
    BY <1>3, <2>1
<1> QED
  BY <1>3, <1>4 DEF IsRegister

\* A round on one bit and on what has still to come.
LEMMA BitTaken ==
  ASSUME NEW a \in Word, NEW r \in Word, NEW z, z = IF 0 \in r THEN {0} ELSE {}
  PROVE  Round(Xor(a, r)) = Xor(Round(Xor(a, z)), Shr(r, 1))
<1> DEFINE q == r \ {0}
<1>1. z \in Word /\ q \in Word /\ 0 \notin q
  BY DEF Word
<1>2. r = Xor(z, q)
  BY DEF Xor
<1>3. Xor(a, r) = Xor(Xor(a, z), q)
  BY <1>2 DEF Xor
<1>4. Shr(q, 1) = Shr(r, 1)
  <2>1. q \subseteq Nat /\ r \subseteq Nat /\ 1 \in Nat
    BY DEF Word
  <2>2. ASSUME NEW x
        PROVE  x \in Shr(q, 1) <=> x \in Shr(r, 1)
    <3>1. (x \in Shr(q, 1) <=> x \in Nat /\ x + 1 \in q) /\ (x \in Shr(r, 1) <=> x \in Nat /\ x + 1 \in r)
      <4> HIDE DEF q
      <4> QED
        BY <2>1, ShrIn
    <3>2. x \in Nat => x + 1 # 0
      OBVIOUS
    <3> QED
      BY <3>1, <3>2
  <2> QED
    BY <2>2
<1> HIDE DEF q
<1>5. Xor(a, z) \in Word
  BY <1>1, WordOps
<1>6. Round(Xor(Xor(a, z), q)) = Xor(Round(Xor(a, z)), Shr(q, 1))
  BY <1>1, <1>5, RoundShifts
<1> QED
  BY <1>3, <1>4, <1>6

\* Eight bits of the register are one lookup.
LEMMA ByteTaken ==
  ASSUME NEW p, NEW n \in Nat, NEW s, IsRegister(s, p, n),
         NEW i \in Nat, 8 * i + 8 =< n
  PROVE  s[8 * i + 8] = Lookup(s[8 * i], ByteAt(p, i))
<1> DEFINE c    == s[8 * i]
           byte == ByteAt(p, i)
           u    == Xor(c, byte)
           low  == u \cap (0 .. 7)
           h    == u \ (0 .. 7)
<1>1. c \in Word /\ byte \in Word /\ byte \subseteq 0 .. 7
  <2>1. 8 * i \in 0 .. n
    OBVIOUS
  <2> QED
    BY <2>1, ByteAtBits DEF IsRegister
<1>2. \A j \in 0 .. 7 : j \in byte <=> 8 * i + j \in p
  BY DEF ByteAt
<1> HIDE DEF c, byte
<1>3. u \in Word
  BY <1>1, WordOps
<1> HIDE DEF u
<1>4. low \in SUBSET (0 .. 7) /\ h \in Word /\ u = Xor(low, h) /\ \A x \in h : x \in Nat /\ x >= 8
  BY <1>3 DEF Word, Xor
<1> HIDE DEF low, h
<1>5. PICK f : IsRounds(f, low) /\ ut_crc_table[low] = f[8]
  BY <1>4, TableUnfolds
<1> DEFINE T == {j \in 0 .. 8 : Xor(s[8 * i + j], Shr(byte, j)) = Xor(f[j], Shr(h, j))}
<1>6. 0 \in T
  <2>1. Shr(byte, 0) = byte /\ Shr(h, 0) = h /\ f[0] = low /\ s[8 * i + 0] = c
    BY <1>1, <1>4, <1>5, ShrEnds DEF IsRounds, c
  <2> QED
    BY <1>4, <2>1 DEF u
<1>7. ASSUME NEW j \in 0 .. 8 - 1, j \in T
      PROVE  j + 1 \in T
  <2> DEFINE k == 8 * i + j
             r == Shr(byte, j)
             z == InBit(p, k)
  <2>1. j \in Nat /\ k \in Nat /\ k + 1 \in 1 .. n /\ k \in 0 .. n /\ 8 * i + (j + 1) = k + 1
        /\ k + 1 - 1 = k /\ j \in 0 .. 7 /\ j + 1 \in 1 .. 8 /\ j \in 0 .. 8 /\ j + 1 - 1 = j
        /\ j + 1 \in 0 .. 8
    OBVIOUS
  <2>2. s[k] \in Word /\ f[j] \in Word /\ r \in Word /\ Shr(h, j) \in Word
    BY <1>1, <1>4, <1>5, <2>1, WordOps DEF IsRegister, IsRounds
  <2>3. z = IF 0 \in r THEN {0} ELSE {}
    <3>1. byte \subseteq Nat
      BY <1>1
    <3>2. 0 \in r <=> 0 \in Nat /\ 0 + j \in byte
      BY <2>1, <3>1, ShrIn
    <3>3. 0 \in r <=> k \in p
      BY <1>2, <2>1, <3>2
    <3> QED
      BY <3>3 DEF InBit
  <2>4. Round(Xor(s[k], r)) = Xor(Round(Xor(s[k], z)), Shr(r, 1))
    <3> HIDE DEF k, r, z
    <3> QED
      BY <2>2, <2>3, BitTaken
  <2>5. s[k + 1] = Round(Xor(s[k], z))
    BY <2>1 DEF IsRegister
  <2>6. 0 \notin Shr(h, j)
    <3>1. h \subseteq Nat
      BY <1>4
    <3>2. 0 \in Shr(h, j) <=> 0 \in Nat /\ 0 + j \in h
      BY <2>1, <3>1, ShrIn
    <3> QED
      BY <1>4, <2>1, <3>2
  <2>7. Round(Xor(f[j], Shr(h, j))) = Xor(Round(f[j]), Shr(Shr(h, j), 1))
    BY <2>2, <2>6, RoundShifts
  <2>8. f[j + 1] = Round(f[j])
    BY <1>5, <2>1 DEF IsRounds
  <2>9. Shr(r, 1) = Shr(byte, j + 1) /\ Shr(Shr(h, j), 1) = Shr(h, j + 1)
    BY <1>1, <1>4, <2>1, ShrAdds
  <2>10. Xor(s[k], r) = Xor(f[j], Shr(h, j))
    BY <1>7
  <2>11. Xor(s[k + 1], Shr(byte, j + 1)) = Xor(f[j + 1], Shr(h, j + 1))
    <3> HIDE DEF k, r, z
    <3> QED
      BY <2>4, <2>5, <2>7, <2>8, <2>9, <2>10, Zenon
  <2> HIDE DEF k
  <2> QED
    BY <2>1, <2>11
<1>8. 8 \in T
  <2> HIDE DEF T
  <2>1. \A j \in 0 .. 8 : j \in T
    BY <1>6, <1>7, Ascent
  <2> QED
    BY <2>1
<1>9. Xor(s[8 * i + 8], Shr(byte, 8)) = Xor(f[8], Shr(h, 8))
  BY <1>8
<1>10. Shr(byte, 8) = {} /\ Xor(s[8 * i + 8], {}) = s[8 * i + 8]
  BY <1>1, ShrEnds, XorLaws
<1>11. Shr(h, 8) = Shr(c, 8)
  <2>1. h \subseteq Nat /\ c \subseteq Nat /\ 8 \in Nat
    BY <1>1, <1>4 DEF Word
  <2>2. ASSUME NEW x
        PROVE  x \in Shr(h, 8) <=> x \in Shr(c, 8)
    <3>1. (x \in Shr(h, 8) <=> x \in Nat /\ x + 8 \in h) /\ (x \in Shr(c, 8) <=> x \in Nat /\ x + 8 \in c)
      BY <2>1, ShrIn
    <3>2. x \in Nat => x + 8 \notin 0 .. 7
      OBVIOUS
    <3>3. x \in Nat => (x + 8 \in h <=> x + 8 \in c)
      BY <1>1, <3>2 DEF h, u, Xor
    <3> QED
      BY <3>1, <3>3
  <2> QED
    BY <2>2
<1> HIDE DEF T
<1>12. s[8 * i + 8] = Xor(ut_crc_table[low], Shr(c, 8))
  BY <1>5, <1>9, <1>10, <1>11
<1> QED
  BY <1>12 DEF Lookup, low, u, c, byte

\* The loop of ut_crc32.
LEMMA CrcUnfolds ==
  ASSUME NEW p, NEW len \in Nat
  PROVE  \E f : /\ f[0] = Ones
                /\ \A i \in 1 .. len : f[i] = Lookup(f[i - 1], ByteAt(p, i - 1))
                /\ Crc(p, len) = Xor(f[len], Ones)
<1> DEFINE F == CHOOSE crc : crc = [i \in 0 .. len |->
                  IF i = 0 THEN Ones
                  ELSE Xor(ut_crc_table[Xor(crc[i - 1], ByteAt(p, i - 1)) \cap (0 .. 7)],
                           Shr(crc[i - 1], 8))]
           g == [i \in 1 .. len |-> [c \in Word |-> Lookup(c, ByteAt(p, i - 1))]]
<1>1. g \in [1 .. len -> [Word -> Word]]
  <2>1. ASSUME NEW i \in 1 .. len, NEW c \in Word
        PROVE  Lookup(c, ByteAt(p, i - 1)) \in Word
    <3>1. i - 1 \in Int
      OBVIOUS
    <3>2. ByteAt(p, i - 1) \in Word
      BY <3>1, ByteAtBits
    <3> QED
      BY <3>2, LookupIsWord
  <2> QED
    BY <2>1
<1>2. PICK f : IsIteration(f, len, Word, Ones, g)
  <2> HIDE DEF g
  <2> QED
    BY <1>1, OnesIsWord, Iterates
<1>3. f \in [0 .. len -> Word] /\ f[0] = Ones /\ \A i \in 1 .. len : f[i] = g[i][f[i - 1]]
  BY <1>2 DEF IsIteration
<1>4. ASSUME NEW i \in 1 .. len
      PROVE  f[i] = Lookup(f[i - 1], ByteAt(p, i - 1))
  <2>1. f[i - 1] \in Word
    BY <1>3
  <2> QED
    BY <1>3, <2>1
<1> HIDE DEF g
<1>5. f = [i \in 0 .. len |->
             IF i = 0 THEN Ones
             ELSE Xor(ut_crc_table[Xor(f[i - 1], ByteAt(p, i - 1)) \cap (0 .. 7)],
                      Shr(f[i - 1], 8))]
  <2>1. \A i \in 0 .. len : f[i] = IF i = 0 THEN Ones ELSE Lookup(f[i - 1], ByteAt(p, i - 1))
    BY <1>3, <1>4
  <2>2. f = [i \in 0 .. len |-> f[i]]
    BY <1>3
  <2> QED
    BY <2>1, <2>2, Zenon DEF Lookup
<1>6. F = [i \in 0 .. len |->
             IF i = 0 THEN Ones
             ELSE Xor(ut_crc_table[Xor(F[i - 1], ByteAt(p, i - 1)) \cap (0 .. 7)],
                      Shr(F[i - 1], 8))]
  BY <1>5, Zenon
<1>7. Crc(p, len) = Xor(F[len], Ones)
  BY DEF Crc
<1> HIDE DEF F
<1>8. F = [i \in 0 .. len |-> IF i = 0 THEN Ones ELSE Lookup(F[i - 1], ByteAt(p, i - 1))]
  BY <1>6, Zenon DEF Lookup
<1>9. F[0] = Ones /\ \A i \in 1 .. len : F[i] = Lookup(F[i - 1], ByteAt(p, i - 1))
  <2>1. \A i \in 0 .. len : F[i] = IF i = 0 THEN Ones ELSE Lookup(F[i - 1], ByteAt(p, i - 1))
    BY <1>8, Zenon
  <2>2. 0 \in 0 .. len /\ \A i \in 1 .. len : i \in 0 .. len /\ i # 0
    OBVIOUS
  <2> QED
    BY <2>1, <2>2
<1> QED
  BY <1>7, <1>9

\* The loop over the bytes ends where the register does.
LEMMA CrcIsRegister ==
  ASSUME NEW p, NEW len \in Nat, NEW s, IsRegister(s, p, 8 * len)
  PROVE  Crc(p, len) = Xor(s[8 * len], Ones)
<1>1. PICK f : /\ f[0] = Ones
               /\ \A i \in 1 .. len : f[i] = Lookup(f[i - 1], ByteAt(p, i - 1))
               /\ Crc(p, len) = Xor(f[len], Ones)
  BY CrcUnfolds
<1> DEFINE T == {i \in 0 .. len : f[i] = s[8 * i]}
<1>2. 0 \in T
  BY <1>1 DEF IsRegister
<1>3. ASSUME NEW i \in 0 .. len - 1, i \in T
      PROVE  i + 1 \in T
  <2>1. f[i + 1] = Lookup(f[i], ByteAt(p, i))
    <3>1. i + 1 \in 1 .. len /\ i + 1 - 1 = i
      OBVIOUS
    <3> QED
      BY <1>1, <3>1
  <2>2. s[8 * i + 8] = Lookup(s[8 * i], ByteAt(p, i))
    <3>1. i \in Nat /\ 8 * len \in Nat /\ 8 * i + 8 =< 8 * len
      OBVIOUS
    <3> QED
      BY <3>1, ByteTaken
  <2>3. 8 * (i + 1) = 8 * i + 8 /\ i + 1 \in 0 .. len /\ f[i] = s[8 * i]
    BY <1>3
  <2> QED
    BY <2>1, <2>2, <2>3
<1>4. \A i \in 0 .. len : i \in T
  <2> HIDE DEF T
  <2> QED
    BY <1>2, <1>3, Ascent
<1> QED
  BY <1>1, <1>4

-----------------------------------------------------------------------------
(* The long division. *)

\* The step of the division that removes the power k.
Divide(r, k) == IF k \in r THEN Xor(r, {e + k - 32 : e \in Generator}) ELSE r

LEMMA DivideIsInt ==
  ASSUME NEW r \in SUBSET Int, NEW k \in Int
  PROVE  Divide(r, k) \in SUBSET Int
<1> DEFINE shifted == {e + k - 32 : e \in Generator}
<1>1. Generator \subseteq Int
  BY DEF Generator
<1>2. shifted \subseteq Int
  BY <1>1
<1> HIDE DEF shifted
<1>3. Xor(r, shifted) \subseteq Int
  BY <1>2 DEF Xor
<1>4. Divide(r, k) = r \/ Divide(r, k) = Xor(r, shifted)
  BY Zenon DEF Divide, shifted
<1> QED
  BY <1>3, <1>4

LEMMA RemainderUnfolds ==
  ASSUME NEW powers \in SUBSET Int, NEW top \in Nat, top >= 32
  PROVE  \E d : /\ d[top] = powers
                /\ \A k \in 32 .. top - 1 : d[k] = Divide(d[k + 1], k)
                /\ Remainder(powers, top) = d[32]
<1> DEFINE D == CHOOSE d : d = [k \in 32 .. top |->
                  IF k = top THEN powers
                  ELSE IF k \in d[k + 1] THEN Xor(d[k + 1], {e + k - 32 : e \in Generator})
                       ELSE d[k + 1]]
           g == [i \in 1 .. top - 32 |-> [r \in SUBSET Int |-> Divide(r, top - i)]]
<1>1. g \in [1 .. top - 32 -> [SUBSET Int -> SUBSET Int]]
  <2>1. ASSUME NEW i \in 1 .. top - 32, NEW r \in SUBSET Int
        PROVE  Divide(r, top - i) \in SUBSET Int
    <3>1. top - i \in Int
      OBVIOUS
    <3> QED
      BY <3>1, DivideIsInt
  <2> QED
    BY <2>1
<1>2. PICK f : IsIteration(f, top - 32, SUBSET Int, powers, g)
  <2>1. top - 32 \in Nat
    OBVIOUS
  <2> HIDE DEF g
  <2> QED
    BY <1>1, <2>1, Iterates
<1>3. /\ f \in [0 .. top - 32 -> SUBSET Int] /\ f[0] = powers
      /\ \A i \in 1 .. top - 32 : f[i] = g[i][f[i - 1]]
  BY <1>2 DEF IsIteration
<1>4. ASSUME NEW i \in 1 .. top - 32
      PROVE  f[i] = Divide(f[i - 1], top - i)
  <2>1. f[i - 1] \in SUBSET Int
    BY <1>3
  <2> QED
    BY <1>3, <2>1
<1> DEFINE h == [k \in 32 .. top |-> f[top - k]]
<1>5. \A k \in 32 .. top : h[k] = IF k = top THEN powers ELSE Divide(h[k + 1], k)
  <2>1. ASSUME NEW k \in 32 .. top - 1
        PROVE  h[k] = Divide(h[k + 1], k)
    <3>1. top - k \in 1 .. top - 32 /\ top - (top - k) = k /\ top - k - 1 = top - (k + 1)
          /\ k \in 32 .. top /\ k + 1 \in 32 .. top
      OBVIOUS
    <3>2. f[top - k] = Divide(f[top - k - 1], top - (top - k))
      BY <1>4, <3>1
    <3>3. h[k] = f[top - k] /\ h[k + 1] = f[top - (k + 1)]
      BY <3>1
    <3> HIDE DEF h
    <3> QED
      BY <3>1, <3>2, <3>3
  <2>2. h[top] = powers
    <3>1. top \in 32 .. top /\ top - top = 0
      OBVIOUS
    <3> QED
      BY <1>3, <3>1
  <2> HIDE DEF h
  <2>3. \A k \in 32 .. top : k = top \/ k \in 32 .. top - 1
    OBVIOUS
  <2>4. top \notin 32 .. top - 1
    OBVIOUS
  <2> QED
    BY <2>1, <2>2, <2>3, <2>4, Zenon
<1>6. h = [k \in 32 .. top |->
             IF k = top THEN powers
             ELSE IF k \in h[k + 1] THEN Xor(h[k + 1], {e + k - 32 : e \in Generator})
                  ELSE h[k + 1]]
  <2>1. h = [k \in 32 .. top |-> h[k]]
    OBVIOUS
  <2> HIDE DEF h
  <2> QED
    BY <1>5, <2>1, Zenon DEF Divide
<1> HIDE DEF h, g
<1>7. D = [k \in 32 .. top |->
             IF k = top THEN powers
             ELSE IF k \in D[k + 1] THEN Xor(D[k + 1], {e + k - 32 : e \in Generator})
                  ELSE D[k + 1]]
  BY <1>6, Zenon
<1>8. Remainder(powers, top) = D[32]
  BY DEF Remainder
<1> HIDE DEF D
<1>9. \A k \in 32 .. top : D[k] = IF k = top THEN powers ELSE Divide(D[k + 1], k)
  BY <1>7, Zenon DEF Divide
<1>10. D[top] = powers /\ \A k \in 32 .. top - 1 : D[k] = Divide(D[k + 1], k)
  <2>1. top \in 32 .. top /\ \A k \in 32 .. top - 1 : k \in 32 .. top /\ k # top
    OBVIOUS
  <2> QED
    BY <1>9, <2>1
<1> QED
  BY <1>8, <1>10

\* The generator, mirrored, is the constant of the code.
LEMMA Mirror == \A e \in Nat : 31 - e \in Generator <=> e \in Poly
BY DEF Generator, Poly

\* What a round makes of each bit.
LEMMA RoundBit ==
  ASSUME NEW u \in Word, NEW e \in Nat
  PROVE  /\ 0 \in u => (e \in Round(u) <=> ~(e + 1 \in u <=> e \in Poly))
         /\ 0 \notin u => (e \in Round(u) <=> e + 1 \in u)
<1>1. e \in Shr(u, 1) <=> e + 1 \in u
  BY DEF Shr, Word
<1> QED
  BY <1>1 DEF Round, Xor

\* The register after j bits and the bits that follow, as a polynomial.
InPoly(p, s, top, j, x) ==
  ~((top - 1 - x \in p /\ top - 1 - x >= j) <=> top - 1 - j - x \in s[j])

LEMMA DivideBit ==
  ASSUME NEW r, NEW k \in Int, NEW x \in Int
  PROVE  /\ k \in r => (x \in Divide(r, k) <=> ~(x \in r <=> x - k + 32 \in Generator))
         /\ k \notin r => (x \in Divide(r, k) <=> x \in r)
<1>1. x \in {e + k - 32 : e \in Generator} <=> x - k + 32 \in Generator
  <2>1. Generator \subseteq Int
    BY DEF Generator
  <2> QED
    BY <2>1
<1> QED
  BY <1>1 DEF Divide, Xor

\* A step of the division is a round of the register.
LEMMA BitDivided ==
  ASSUME NEW n \in Nat, NEW p \in SUBSET (0 .. n - 1), NEW s, IsRegister(s, p, n),
         NEW j \in 0 .. n - 1, NEW top, top = n + 32,
         NEW r \in SUBSET Int, \A x \in Int : x \in r <=> InPoly(p, s, top, j, x),
         NEW x \in Int
  PROVE  x \in Divide(r, top - 1 - j) <=> InPoly(p, s, top, j + 1, x)
<1> DEFINE k == top - 1 - j
           z == InBit(p, j)
           u == Xor(s[j], z)
           e == k - 1 - x
<1>1. j \in Nat /\ k \in Int /\ e \in Int /\ j + 1 \in 1 .. n /\ j + 1 - 1 = j
      /\ top - 1 - k = j /\ top - 1 - j - k = 0 /\ top - 1 - x = e + j + 1
      /\ top - 1 - j - x = e + 1 /\ top - 1 - (j + 1) - x = e /\ x - k + 32 = 31 - e
      /\ j >= j
  OBVIOUS
<1>2. s[j] \in Word /\ s[j + 1] = Round(u) /\ u \in Word /\ s[j + 1] \in Word
  <2>1. s[j] \in Word /\ s[j + 1] = Round(u)
    BY <1>1 DEF IsRegister
  <2>2. u \in Word
    BY <2>1, InBitIsWord, WordOps
  <2> QED
    BY <2>1, <2>2, WordOps
<1>3. 0 \in u <=> ~(j \in p <=> 0 \in s[j])
  BY DEF Xor, InBit
<1>4. ASSUME NEW b, b # 0
      PROVE  b \in u <=> b \in s[j]
  BY <1>4 DEF Xor, InBit
<1>5. k \in r <=> ~(j \in p <=> 0 \in s[j])
  BY <1>1 DEF InPoly
<1>6. x \in r <=> ~((e + j + 1 \in p /\ e + j + 1 >= j) <=> e + 1 \in s[j])
  BY <1>1 DEF InPoly
<1>7. InPoly(p, s, top, j + 1, x) <=> ~((e + j + 1 \in p /\ e + j + 1 >= j + 1) <=> e \in s[j + 1])
  BY <1>1 DEF InPoly
<1>8. /\ k \in r => (x \in Divide(r, k) <=> ~(x \in r <=> 31 - e \in Generator))
      /\ k \notin r => (x \in Divide(r, k) <=> x \in r)
  <2> HIDE DEF k, e
  <2> QED
    BY <1>1, DivideBit
<1> HIDE DEF k, z, u, e
<1>9. CASE e >= 0
  <2>1. e \in Nat /\ e + 1 # 0 /\ e + j + 1 >= j /\ e + j + 1 >= j + 1
    BY <1>1, <1>9
  <2>2. 31 - e \in Generator <=> e \in Poly
    BY <2>1, Mirror
  <2>3. /\ 0 \in u => (e \in Round(u) <=> ~(e + 1 \in u <=> e \in Poly))
        /\ 0 \notin u => (e \in Round(u) <=> e + 1 \in u)
    BY <1>2, <2>1, RoundBit
  <2>4. e + 1 \in u <=> e + 1 \in s[j]
    BY <1>4, <2>1
  <2> QED
    BY <1>2, <1>3, <1>5, <1>6, <1>7, <1>8, <2>1, <2>2, <2>3, <2>4, Zenon DEF k
<1>10. CASE e = -1
  <2>1. ~(e + j + 1 >= j + 1) /\ e \notin s[j + 1] /\ e + j + 1 = j /\ e + 1 = 0 /\ 31 - e = 32
    BY <1>1, <1>2, <1>10 DEF Word
  <2>2. 32 \in Generator
    BY DEF Generator
  <2>3. x \in r <=> ~(j \in p <=> 0 \in s[j])
    BY <1>1, <1>6, <2>1
  <2> QED
    BY <1>5, <1>7, <1>8, <2>1, <2>2, <2>3, Zenon DEF k
<1>11. CASE e < -1
  <2>1. ~(e + j + 1 >= j + 1) /\ ~(e + j + 1 >= j) /\ e \notin s[j + 1] /\ e + 1 \notin s[j]
    BY <1>1, <1>2, <1>11 DEF Word
  <2>2. 31 - e \notin Generator
    BY <1>1, <1>11 DEF Generator
  <2> QED
    BY <1>6, <1>7, <1>8, <2>1, <2>2, Zenon DEF k
<1> QED
  BY <1>1, <1>9, <1>10, <1>11 DEF k

\* The powers left over are the ones that InPoly says.
IsPoly(r, p, s, top, j) ==
  r \in SUBSET Int /\ \A x \in Int : x \in r <=> InPoly(p, s, top, j, x)

LEMMA PolyDivided ==
  ASSUME NEW n \in Nat, NEW p \in SUBSET (0 .. n - 1), NEW s, IsRegister(s, p, n),
         NEW j \in 0 .. n - 1, NEW top, top = n + 32,
         NEW r, IsPoly(r, p, s, top, j)
  PROVE  IsPoly(Divide(r, top - 1 - j), p, s, top, j + 1)
<1>1. r \in SUBSET Int /\ \A x \in Int : x \in r <=> InPoly(p, s, top, j, x)
  BY Zenon DEF IsPoly
<1>2. top - 1 - j \in Int
  OBVIOUS
<1>3. Divide(r, top - 1 - j) \in SUBSET Int
  BY <1>1, <1>2, DivideIsInt
<1>4. ASSUME NEW x \in Int
      PROVE  x \in Divide(r, top - 1 - j) <=> InPoly(p, s, top, j + 1, x)
  BY <1>1, BitDivided, Zenon
<1> QED
  BY <1>3, <1>4, Zenon DEF IsPoly

(***************************************************************************)
(* "CRC-32 (poly 0xEDB88320, init/final-xor 0xFFFFFFFF)" (ut_support.c:9): *)
(* for every string of bytes the table and the loop of ut_crc32 compute    *)
(* the remainder.                                                          *)
(***************************************************************************)
THEOREM CrcIsReference ==
  ASSUME NEW len \in Nat, NEW p \in SUBSET (0 .. 8 * len - 1)
  PROVE  Crc(p, len) = ReferenceCrc(p, len)
<1> DEFINE n      == 8 * len
           top    == n + 32
           powers == Xor({top - 1 - k : k \in p}, n .. top - 1)
<1>1. n \in Nat /\ top \in Nat /\ top >= 32 /\ top - 0 = top
  OBVIOUS
<1>2. PICK s : IsRegister(s, p, n)
  <2> HIDE DEF n
  <2> QED
    BY <1>1, RegisterExists
<1>3. Crc(p, len) = Xor(s[n], Ones)
  BY <1>2, CrcIsRegister
<1>4. powers \in SUBSET Int
  BY DEF Xor
<1>5. \A x \in Int : x \in powers <=> InPoly(p, s, top, 0, x)
  <2> SUFFICES ASSUME NEW x \in Int
               PROVE  x \in powers <=> InPoly(p, s, top, 0, x)
    OBVIOUS
  <2>1. x \in {top - 1 - k : k \in p} <=> top - 1 - x \in p
    BY <1>1
  <2>2. top - 1 - x \in p => top - 1 - x >= 0
    OBVIOUS
  <2>3. x \in n .. top - 1 <=> top - 1 - 0 - x \in s[0]
    BY <1>1, <1>2 DEF IsRegister, Ones
  <2>4. x \in powers <=> ~(x \in {top - 1 - k : k \in p} <=> x \in n .. top - 1)
    BY DEF Xor
  <2> HIDE DEF powers, top, n
  <2> QED
    BY <2>1, <2>2, <2>3, <2>4 DEF InPoly
<1> HIDE DEF powers
<1>6. PICK d : /\ d[top] = powers
               /\ \A k \in 32 .. top - 1 : d[k] = Divide(d[k + 1], k)
               /\ Remainder(powers, top) = d[32]
  <2> HIDE DEF top
  <2> QED
    BY <1>1, <1>4, RemainderUnfolds
<1> DEFINE T == {j \in 0 .. n : IsPoly(d[top - j], p, s, top, j)}
<1>7. 0 \in T
  <2>1. IsPoly(d[top - 0], p, s, top, 0)
    <3> HIDE DEF top
    <3> QED
      BY <1>1, <1>4, <1>5, <1>6, Zenon DEF IsPoly
  <2>2. 0 \in 0 .. n
    BY <1>1
  <2> QED
    BY <2>1, <2>2, Zenon
<1>8. ASSUME NEW j \in 0 .. n - 1, j \in T
      PROVE  j + 1 \in T
  <2>1. IsPoly(d[top - j], p, s, top, j)
    BY <1>8, Zenon
  <2>2. top - 1 - j \in 32 .. top - 1 /\ top - 1 - j + 1 = top - j /\ top - (j + 1) = top - 1 - j
        /\ j + 1 \in 0 .. n /\ p \in SUBSET (0 .. n - 1) /\ top = n + 32
    OBVIOUS
  <2> HIDE DEF T, n, top
  <2>3. d[top - (j + 1)] = Divide(d[top - j], top - 1 - j)
    BY <1>6, <2>2
  <2>4. IsPoly(Divide(d[top - j], top - 1 - j), p, s, top, j + 1)
    BY <1>1, <1>2, <2>1, <2>2, PolyDivided, Zenon
  <2> QED
    BY <2>2, <2>3, <2>4, Zenon DEF T
<1>9. n \in T
  <2> HIDE DEF T, n
  <2>1. \A j \in 0 .. n : j \in T
    BY <1>1, <1>7, <1>8, Ascent
  <2> QED
    BY <1>1, <2>1
<1>10. d[32] \in SUBSET Int /\ \A x \in Int : x \in d[32] <=> 31 - x \in s[n]
  <2>1. top - n = 32
    OBVIOUS
  <2>2. d[32] \in SUBSET Int /\ \A x \in Int : x \in d[32] <=> InPoly(p, s, top, n, x)
    BY <1>9, <2>1 DEF IsPoly
  <2>3. ASSUME NEW x \in Int
        PROVE  InPoly(p, s, top, n, x) <=> 31 - x \in s[n]
    <3>1. top - 1 - n - x = 31 - x
      OBVIOUS
    <3>2. ~(top - 1 - x \in p /\ top - 1 - x >= n)
      OBVIOUS
    <3> HIDE DEF top, n
    <3> QED
      BY <3>1, <3>2 DEF InPoly
  <2> QED
    BY <2>2, <2>3
<1>11. {31 - e : e \in d[32]} = s[n]
  <2>1. s[n] \subseteq Int
    <3>1. n \in 0 .. n
      BY <1>1
    <3> HIDE DEF n
    <3>2. s[n] \in Word
      BY <1>2, <3>1 DEF IsRegister
    <3> QED
      BY <3>2 DEF Word
  <2> HIDE DEF n
  <2> QED
    BY <1>10, <2>1
<1>12. ReferenceCrc(p, len) = Xor({31 - e : e \in Remainder(powers, top)}, Ones)
  BY DEF ReferenceCrc, powers
<1> QED
  BY <1>3, <1>6, <1>11, <1>12

-----------------------------------------------------------------------------
(* Bursts. *)

\* The constant of the code has the top bit, so a round loses nothing.
LEMMA RoundKeeps ==
  ASSUME NEW x \in Word, NEW y \in Word, Round(x) = Round(y)
  PROVE  x = y
<1>1. ASSUME NEW u \in Word
      PROVE  31 \in Round(u) <=> 0 \in u
  <2>1. 32 \notin u /\ 31 \in Poly /\ 31 \in Nat /\ 31 + 1 = 32
    BY DEF Word, Poly
  <2> QED
    BY <2>1, RoundBit
<1>2. 0 \in x <=> 0 \in y
  BY <1>1
<1>3. ASSUME NEW e \in Nat
      PROVE  e + 1 \in x <=> e + 1 \in y
  <2>1. /\ 0 \in x => (e \in Round(x) <=> ~(e + 1 \in x <=> e \in Poly))
        /\ 0 \notin x => (e \in Round(x) <=> e + 1 \in x)
    BY RoundBit
  <2>2. /\ 0 \in y => (e \in Round(y) <=> ~(e + 1 \in y <=> e \in Poly))
        /\ 0 \notin y => (e \in Round(y) <=> e + 1 \in y)
    BY RoundBit
  <2>3. e \in Round(x) <=> e \in Round(y)
    OBVIOUS
  <2> QED
    BY <1>2, <2>1, <2>2, <2>3, Zenon
<1>4. ASSUME NEW k \in 0 .. 31
      PROVE  k \in x <=> k \in y
  <2>1. CASE k = 0
    BY <1>2, <2>1
  <2>2. CASE k # 0
    <3>1. k - 1 \in Nat /\ k - 1 + 1 = k
      BY <2>2
    <3> QED
      BY <1>3, <3>1
  <2> QED
    BY <2>1, <2>2
<1> QED
  BY <1>4 DEF Word

\* The 32 bits of p from b on, as a word.
Window(p, b) == {j \in 0 .. 31 : b + j \in p}

\* While the bits of the window are taken, the register and what is left of
\* the window make one word, which a round moves on.
LEMMA WindowTaken ==
  ASSUME NEW p, NEW n \in Nat, NEW s, IsRegister(s, p, n),
         NEW b \in Nat, b + 32 =< n, NEW j \in 0 .. 31
  PROVE  /\ Xor(s[b + j], Shr(Window(p, b), j)) \in Word
         /\ Xor(s[b + (j + 1)], Shr(Window(p, b), j + 1)) = Round(Xor(s[b + j], Shr(Window(p, b), j)))
<1> DEFINE k == b + j
           w == Window(p, b)
           r == Shr(w, j)
           z == InBit(p, k)
<1>1. j \in Nat /\ k \in Nat /\ k + 1 \in 1 .. n /\ k \in 0 .. n /\ b + (j + 1) = k + 1 /\ k + 1 - 1 = k
  OBVIOUS
<1>2. w \in Word /\ w \subseteq Nat
  BY DEF Window, Word
<1>3. 0 \in r <=> k \in p
  <2>1. 0 \in r <=> 0 \in Nat /\ 0 + j \in w
    <3> HIDE DEF w
    <3> QED
      BY <1>1, <1>2, ShrIn
  <2>2. j \in w <=> k \in p
    BY DEF Window
  <2> QED
    BY <1>1, <2>1, <2>2
<1>4. z = IF 0 \in r THEN {0} ELSE {}
  BY <1>3, Zenon DEF InBit
<1> HIDE DEF w
<1>5. s[k] \in Word /\ r \in Word
  BY <1>1, <1>2, WordOps DEF IsRegister
<1>6. Xor(s[k], r) \in Word
  BY <1>5, WordOps
<1>7. s[k + 1] = Round(Xor(s[k], z))
  <2> HIDE DEF k
  <2> QED
    BY <1>1 DEF IsRegister
<1>8. Shr(r, 1) = Shr(w, j + 1)
  BY <1>1, <1>2, ShrAdds
<1> HIDE DEF k, z, r
<1>9. Round(Xor(s[k], r)) = Xor(Round(Xor(s[k], z)), Shr(r, 1))
  BY <1>4, <1>5, BitTaken
<1>10. Xor(s[k + 1], Shr(w, j + 1)) = Round(Xor(s[k], r))
  BY <1>7, <1>8, <1>9
<1> QED
  BY <1>1, <1>6, <1>10 DEF k, r, w

LEMMA WindowEnds ==
  ASSUME NEW p, NEW b \in Nat
  PROVE  Shr(Window(p, b), 0) = Window(p, b) /\ Shr(Window(p, b), 32) = {}
<1>1. Window(p, b) \in Word /\ Window(p, b) \subseteq 0 .. 31
  BY DEF Window, Word
<1>2. Shr(Window(p, b), 0) = Window(p, b)
  BY <1>1, ShrEnds
<1>3. Shr(Window(p, b), 32) = {}
  BY <1>1 DEF Shr
<1> QED
  BY <1>2, <1>3

\* Strings that differ nowhere but in one window.
LEMMA RegistersDiffer ==
  ASSUME NEW n \in Nat, NEW b \in Nat, b + 32 =< n,
         NEW p, NEW q, p # q, p \subseteq Nat, q \subseteq Nat,
         \A k \in Nat : k \notin b .. b + 31 => (k \in p <=> k \in q),
         NEW s, IsRegister(s, p, n), NEW t, IsRegister(t, q, n)
  PROVE  s[n] # t[n]
<1> DEFINE Same == {k \in 0 .. b : s[k] = t[k]}
           Held == {j \in 0 .. 32 : Xor(s[b + j], Shr(Window(p, b), j)) # Xor(t[b + j], Shr(Window(q, b), j))}
           Kept == {i \in 0 .. n - b - 32 : s[b + 32 + i] # t[b + 32 + i]}
<1>1. s[b] = t[b]
  <2>1. 0 \in Same
    BY DEF IsRegister
  <2>2. ASSUME NEW k \in 0 .. b - 1, k \in Same
        PROVE  k + 1 \in Same
    <3>1. k + 1 \in 1 .. n /\ k + 1 - 1 = k /\ k + 1 \in 0 .. b /\ k \in Nat /\ k \notin b .. b + 31
      OBVIOUS
    <3>2. InBit(p, k) = InBit(q, k)
      BY <3>1 DEF InBit
    <3>3. s[k + 1] = Round(Xor(s[k], InBit(p, k))) /\ t[k + 1] = Round(Xor(t[k], InBit(q, k)))
      BY <3>1 DEF IsRegister
    <3> QED
      BY <2>2, <3>1, <3>2, <3>3
  <2> HIDE DEF Same
  <2>3. \A k \in 0 .. b : k \in Same
    BY <2>1, <2>2, Ascent
  <2>4. b \in 0 .. b
    OBVIOUS
  <2> QED
    BY <2>3, <2>4 DEF Same
<1>2. Window(p, b) # Window(q, b)
  <2>1. PICK k \in Nat : ~(k \in p <=> k \in q)
    OBVIOUS
  <2>2. k - b \in 0 .. 31 /\ b + (k - b) = k
    BY <2>1
  <2> QED
    BY <2>1, <2>2 DEF Window
<1>3. s[b + 32] # t[b + 32]
  <2>1. 0 \in Held
    <3>1. b + 0 = b /\ 0 \in 0 .. 32 /\ b \in 0 .. n
      OBVIOUS
    <3>2. Xor(s[b], Window(p, b)) # Xor(t[b], Window(q, b))
      <4> HIDE DEF Held
      <4> QED
        BY <1>1, <1>2 DEF Xor
    <3> QED
      BY <3>1, <3>2, WindowEnds
  <2>2. ASSUME NEW j \in 0 .. 32 - 1, j \in Held
        PROVE  j + 1 \in Held
    <3>1. j \in 0 .. 31 /\ j + 1 \in 0 .. 32
      OBVIOUS
    <3>2. /\ Xor(s[b + j], Shr(Window(p, b), j)) \in Word
          /\ Xor(s[b + (j + 1)], Shr(Window(p, b), j + 1)) = Round(Xor(s[b + j], Shr(Window(p, b), j)))
      BY <3>1, WindowTaken
    <3>3. /\ Xor(t[b + j], Shr(Window(q, b), j)) \in Word
          /\ Xor(t[b + (j + 1)], Shr(Window(q, b), j + 1)) = Round(Xor(t[b + j], Shr(Window(q, b), j)))
      BY <3>1, WindowTaken
    <3>4. Xor(s[b + j], Shr(Window(p, b), j)) # Xor(t[b + j], Shr(Window(q, b), j))
      BY <2>2
    <3> QED
      BY <3>1, <3>2, <3>3, <3>4, RoundKeeps
  <2>3. 32 \in Held
    <3> HIDE DEF Held
    <3>1. 32 \in Nat /\ 32 \in 0 .. 32
      OBVIOUS
    <3>2. \A j \in 0 .. 32 : j \in Held
      BY <2>1, <2>2, <3>1, Ascent
    <3> QED
      BY <3>1, <3>2
  <2> QED
    BY <2>3, WindowEnds
<1>4. ASSUME NEW i \in 0 .. n - b - 32 - 1, i \in Kept
      PROVE  i + 1 \in Kept
  <2> DEFINE k == b + 32 + i
  <2>1. /\ k \in Nat /\ k + 1 \in 1 .. n /\ k \in 0 .. n /\ k + 1 - 1 = k /\ k \notin b .. b + 31
        /\ b + 32 + (i + 1) = k + 1 /\ i + 1 \in 0 .. n - b - 32
    OBVIOUS
  <2>2. s[k] # t[k]
    BY <1>4
  <2> HIDE DEF k
  <2>3. s[k] \in Word /\ t[k] \in Word
    BY <2>1 DEF IsRegister
  <2>4. s[k + 1] = Round(Xor(s[k], InBit(p, k))) /\ t[k + 1] = Round(Xor(t[k], InBit(p, k)))
    <3>1. InBit(p, k) = InBit(q, k)
      BY <2>1 DEF InBit
    <3> QED
      BY <2>1, <3>1 DEF IsRegister
  <2>5. Xor(s[k], InBit(p, k)) # Xor(t[k], InBit(p, k))
    BY <2>2 DEF Xor
  <2>6. Xor(s[k], InBit(p, k)) \in Word /\ Xor(t[k], InBit(p, k)) \in Word
    BY <2>3, InBitIsWord, WordOps
  <2>7. s[k + 1] # t[k + 1]
    BY <2>4, <2>5, <2>6, RoundKeeps
  <2> QED
    BY <2>1, <2>7
<1>5. 0 \in Kept
  BY <1>3
<1>6. n - b - 32 \in Kept
  <2>1. n - b - 32 \in Nat
    OBVIOUS
  <2> DEFINE N == n - b - 32
  <2> HIDE DEF N, Kept
  <2>2. \A i \in 0 .. N : i \in Kept
    BY <1>4, <1>5, <2>1, Ascent DEF N
  <2>3. N \in 0 .. N
    BY <2>1 DEF N
  <2> QED
    BY <2>2, <2>3 DEF N
<1>7. b + 32 + (n - b - 32) = n
  OBVIOUS
<1> QED
  BY <1>6, <1>7

(***************************************************************************)
(* The CRC tells apart what differs within 32 bits in a row, wherever they *)
(* are and however long the string is: no such damage to what the CRC of a *)
(* node covers (ut_support.c:64-67) goes unnoticed.                        *)
(***************************************************************************)
THEOREM BurstFound ==
  ASSUME NEW len \in Nat, NEW p \in SUBSET (0 .. 8 * len - 1), NEW q \in SUBSET (0 .. 8 * len - 1),
         p # q, NEW b \in Nat, b + 32 =< 8 * len,
         \A k \in Nat : k \notin b .. b + 31 => (k \in p <=> k \in q)
  PROVE  Crc(p, len) # Crc(q, len)
<1> DEFINE n == 8 * len
<1>1. n \in Nat /\ b + 32 =< n /\ p \subseteq Nat /\ q \subseteq Nat
  OBVIOUS
<1>2. PICK s : IsRegister(s, p, n)
  <2> HIDE DEF n
  <2> QED
    BY <1>1, RegisterExists
<1>3. PICK t : IsRegister(t, q, n)
  <2> HIDE DEF n
  <2> QED
    BY <1>1, RegisterExists
<1>4. Crc(p, len) = Xor(s[n], Ones) /\ Crc(q, len) = Xor(t[n], Ones)
  BY <1>2, <1>3, CrcIsRegister
<1>5. s[n] # t[n]
  <2> HIDE DEF n
  <2> QED
    BY <1>1, <1>2, <1>3, RegistersDiffer
<1>6. Xor(s[n], Ones) # Xor(t[n], Ones)
  <2> HIDE DEF n
  <2> QED
    BY <1>5 DEF Xor
<1> QED
  BY <1>4, <1>6
=============================================================================
