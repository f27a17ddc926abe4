------------------------ MODULE MutationCheckProofs -------------------------
(***************************************************************************)
(* A PASS of make verify hides no survivor, for every list of mutants; the *)
(* code as it stands passes its tests, and each mutant of the Makefile     *)
(* fails the test aimed at it and no other.                                *)
(*                                                                         *)
(* For the first, the invariant ties the recipe's variable to the history: *)
(* between two mutants fail is set as soon as one of those that ran failed *)
(* no test, and while one runs its failure counter is zero exactly as long *)
(* as none of its tests has failed.  For the other two, the outcome of     *)
(* each test is worked out in each build, from the vectors of the tests    *)
(* and the scanner, whatever the size of the eraseblock and of int; the    *)
(* invariant then counts along with the suite.                             *)
(***************************************************************************)
EXTENDS MutationCheck, FiniteSetTheorems, SequenceTheorems, TLAPS

Running == pc = "tests"

CounterAgrees == Running => /\ ut_failures \in Nat
                            /\ build \in DOMAIN failed
                            /\ (ut_failures = 0) <=> (failed[build] = {})

SurvivorsSetFail ==
  \A b \in DOMAIN failed \ {"scan.c"} :
    (failed[b] = {} /\ ~(Running /\ b = build)) => fail

PassMeansNoFail == verdict = "PASS" => pc = "idle" /\ ~fail

\* The inductive invariant.
VerifyInv == CounterAgrees /\ SurvivorsSetFail /\ PassMeansNoFail

\* The outcomes of a test's checks form a list, so counting them means something.
LEMMA ChecksAreListed ==
  ASSUME NEW b, NEW i
  PROVE  Checks(b, i) \in Seq(BOOLEAN)
<1>1. ASSUME NEW found, NEW k, NEW o, NEW s
      PROVE  NodeChecks(found, k, o, s) \in Seq(BOOLEAN)
  <2>1. <<FALSE, FALSE>> \in Seq(BOOLEAN)
    OBVIOUS
  <2>2. \A x, y \in BOOLEAN : <<x, y>> \in Seq(BOOLEAN)
    OBVIOUS
  <2>3. /\ (found.nodes[k] = o) \in BOOLEAN
        /\ (ScanTestLeb.hdr[found.nodes[k]].sqnum = s) \in BOOLEAN
    OBVIOUS
  <2> QED BY <2>1, <2>2, <2>3 DEF NodeChecks
<1>2. ScanTestChecks(b) \in Seq(BOOLEAN)
  <2> DEFINE found == Collected(b, ScanTestLeb)
             head  == <<TRUE, TRUE, Len(found.nodes) = 2, FirstIsCsNode(found)>>
             node1 == NodeChecks(found, 1, 0, 11)
             node2 == NodeChecks(found, 2, 64, 13)
             last  == <<found.endpt = 64 + UBIFS_CS_NODE_SZ>>
  <2>1. <<FALSE>> \in Seq(BOOLEAN)
    OBVIOUS
  <2>2. head \in Seq(BOOLEAN)
    <3>1. \A x, y \in BOOLEAN : <<TRUE, TRUE, x, y>> \in Seq(BOOLEAN)
      OBVIOUS
    <3>2. /\ (Len(found.nodes) = 2) \in BOOLEAN
          /\ FirstIsCsNode(found) \in BOOLEAN
      BY DEF FirstIsCsNode
    <3> QED BY <3>1, <3>2
  <2>3. node1 \in Seq(BOOLEAN) /\ node2 \in Seq(BOOLEAN)
    BY <1>1
  <2>4. last \in Seq(BOOLEAN)
    <3>1. \A x \in BOOLEAN : <<x>> \in Seq(BOOLEAN)
      OBVIOUS
    <3> QED BY <3>1
  <2>5. head \o node1 \o node2 \o last \in Seq(BOOLEAN)
    <3> HIDE DEF head, node1, node2, last
    <3>1. head \o node1 \in Seq(BOOLEAN)
      BY <2>2, <2>3, ConcatProperties
    <3>2. head \o node1 \o node2 \in Seq(BOOLEAN)
      BY <3>1, <2>3, ConcatProperties
    <3> QED BY <3>2, <2>4, ConcatProperties
  <2> QED BY <2>1, <2>5 DEF ScanTestChecks
<1>3. \A x \in BOOLEAN : <<x>> \in Seq(BOOLEAN)
  OBVIOUS
<1> QED BY <1>2, <1>3 DEF Checks

\* The number of failed checks is a number, and zero when none has failed.
LEMMA FailuresCounted ==
  ASSUME NEW b, NEW i
  PROVE  LET checks == Checks(b, i)
             wrong  == {k \in DOMAIN checks : ~checks[k]}
         IN  /\ Cardinality(wrong) \in Nat
             /\ Cardinality(wrong) = 0 <=> wrong = {}
<1> DEFINE checks == Checks(b, i)
           wrong  == {k \in DOMAIN checks : ~checks[k]}
<1>1. IsFiniteSet(DOMAIN checks)
  <2>1. DOMAIN checks = 1 .. Len(checks) /\ Len(checks) \in Nat
    BY ChecksAreListed
  <2> QED BY <2>1, FS_Interval
<1>2. IsFiniteSet(wrong)
  BY <1>1, FS_Subset
<1> HIDE DEF wrong
<1>3. Cardinality(wrong) \in Nat /\ (Cardinality(wrong) = 0 <=> wrong = {})
  BY <1>2, FS_CardinalityType, FS_EmptySet
<1> QED BY <1>3 DEF wrong

LEMMA VerifyInit == Init => VerifyInv
BY DEF Init, VerifyInv, Running, CounterAgrees, SurvivorsSetFail, PassMeansNoFail

LEMMA VerifyStep == VerifyInv /\ [Next]_vars => VerifyInv'
<1> SUFFICES ASSUME VerifyInv, [Next]_vars PROVE VerifyInv'
  OBVIOUS
<1> USE DEF VerifyInv, Running, CounterAgrees, SurvivorsSetFail, PassMeansNoFail
<1>1. CASE MakeVerify
  BY <1>1 DEF MakeVerify, Launch
<1>2. CASE RunTest
  <2> DEFINE checks == Checks(build, test)
             wrong  == {i \in DOMAIN checks : ~checks[i]}
  <2>1. /\ ut_failures' = ut_failures + Cardinality(wrong)
        /\ failed' = IF wrong = {} THEN failed
                     ELSE [failed EXCEPT ![build] = @ \cup {TestName(test)}]
        /\ pc = "tests" /\ pc' = pc /\ build' = build
        /\ fail' = fail /\ verdict' = verdict
    BY <1>2 DEF RunTest
  <2>2. Cardinality(wrong) \in Nat /\ (Cardinality(wrong) = 0 <=> wrong = {})
    BY FailuresCounted
  <2> HIDE DEF wrong
  <2>3. /\ DOMAIN failed' = DOMAIN failed
        /\ \A b \in DOMAIN failed \ {build} : failed'[b] = failed[b]
        /\ failed'[build] = {} <=> (wrong = {} /\ failed[build] = {})
    BY <2>1
  <2>4. ut_failures' \in Nat /\ (ut_failures' = 0 <=> (wrong = {} /\ ut_failures = 0))
    BY <2>1, <2>2
  <2>5. CounterAgrees'
    BY <2>1, <2>3, <2>4
  <2>6. SurvivorsSetFail'
    BY <2>1, <2>3
  <2>7. PassMeansNoFail'
    BY <2>1
  <2> QED BY <2>5, <2>6, <2>7
<1>3. CASE Exit
  BY <1>3 DEF Exit, program
<1>4. CASE RunMutant
  <2>1. CounterAgrees' /\ PassMeansNoFail'
    BY <1>4 DEF RunMutant, Launch
  <2>2. SurvivorsSetFail'
    BY <1>4 DEF RunMutant, Launch
  <2> QED BY <2>1, <2>2
<1>5. CASE MutantDoesNotCompile
  BY <1>5 DEF MutantDoesNotCompile, program
<1>6. CASE Report
  <2>1. CounterAgrees'
    BY <1>6 DEF Report
  <2>2. SurvivorsSetFail'
    BY <1>6, Zenon DEF Report, program
  <2>3. PassMeansNoFail'
    BY <1>6 DEF Report
  <2> QED BY <2>1, <2>2, <2>3
<1>7. CASE UNCHANGED vars
  BY <1>7 DEF vars, program
<1> QED BY <1>1, <1>2, <1>3, <1>4, <1>5, <1>6, <1>7 DEF Next

\* Every mutant that ran under a make verify that reported PASS failed a test.
THEOREM VerdictCorrect == Spec => []NoSurvivorHidden
<1>1. VerifyInv => NoSurvivorHidden
  BY DEF VerifyInv, Running, SurvivorsSetFail, PassMeansNoFail, NoSurvivorHidden
<1> QED BY <1>1, VerifyInit, VerifyStep, PTL DEF Spec

-----------------------------------------------------------------------------
(***************************************************************************)
(* The outcome of each test, for every eraseblock and every int with room  *)
(* for the offsets the tests use: LebSize is 131072 and 4096 in the suite, *)
(* IntMax 2^31 - 1, and the model checker takes much less.                 *)
(***************************************************************************)
Roomy ==
  /\ LebSize > 320 /\ LebSize + 284 =< IntMax
  /\ MinIoSize \in {8, 16, 32}

\* The code as it stands and the mutants of the Makefile.
Tested == {"scan.c", "and3", "ge", "neq"}

LEMMA Room ==
  ASSUME Roomy
  PROVE  /\ IntMax \in Nat
         /\ LebSize \in Nat /\ LebSize > 320 /\ LebSize % 8 = 0 /\ LebSize + 284 =< IntMax
BY IntMaxAssumption, GeometryAssumption DEF Roomy

\* A sum within the range of int is the true one.
LEMMA PlusInRange ==
  ASSUME NEW x \in Int, NEW y \in Int, IntMax \in Nat, x + y \in -(IntMax + 1) .. IntMax
  PROVE  Plus(x, y) = x + y
BY DEF Plus

\* The aims of the mutants, one by one.
LEMMA Aims ==
  /\ DOMAIN Aim = {"and3", "ge", "neq"}
  /\ Aim["and3"] = "pad_node_36_bytes_is_misaligned"
  /\ Aim["ge"] = "pad_node_ends_exactly_at_leb_end"
  /\ Aim["neq"] = "raw_padding_bytes"
BY DEF Aim

\* What is erased is empty space to every build.
LEMMA ErasedIsEmpty ==
  ASSUME NEW b, NEW l, NEW o, NEW n, NEW x, AllFF(l, o, o + 4), o \notin DOMAIN l.hdr
  PROVE  scan_a_node(b, l, o, n, x) = SCANNED_EMPTY_SPACE
BY DEF scan_a_node, ReachesPadNode, ReachesPaddingBytes, ubifs_scan_a_node

\* What is neither erased nor a header is taken for raw padding.
LEMMA RawIsCounted ==
  ASSUME NEW b \in Tested, NEW l, NEW o, NEW n, NEW x,
         ~AllFF(l, o, o + 4), o \notin DOMAIN l.hdr
  PROVE  scan_a_node(b, l, o, n, x) =
           IF b = "neq" THEN EditedPaddingBytes(l, o, n) ELSE scan_padding_bytes(l, o, n)
BY DEF scan_a_node, ReachesPadNode, ReachesPaddingBytes, ubifs_scan_a_node, Tested, PadEdits

\* The padding bytes at o, when there are k of them and at least 28 bytes left.
LEMMA PaddingCounted ==
  ASSUME NEW l, NEW o \in Int, NEW n \in Int, n >= 28, NEW k \in 0 .. 27,
         \A a \in 0 .. k - 1 : l.byte[o + a] = 206, l.byte[o + k] # 206
  PROVE  scan_padding_bytes(l, o, n) = IF k = 0 \/ k % 8 # 0 THEN SCANNED_GARBAGE ELSE k
<1> DEFINE max       == IF UBIFS_PAD_NODE_SZ < n THEN UBIFS_PAD_NODE_SZ ELSE n
           skippable == {m \in {j \in 0 .. max : PaddingRun(l, o, max, j)} : m # 0 /\ m % 8 = 0}
<1>1. scan_padding_bytes(l, o, n) =
        IF skippable = {} THEN SCANNED_GARBAGE ELSE CHOOSE m \in skippable : TRUE
  BY DEF scan_padding_bytes
<1>2. max = 28
  BY DEF UBIFS_PAD_NODE_SZ
<1> HIDE DEF max
<1>3. ASSUME NEW j \in 0 .. 28
      PROVE  PaddingRun(l, o, 28, j) <=> j = k
  <2>1. CASE j = k
    BY <2>1 DEF PaddingRun, UBIFS_PADDING_BYTE
  <2>2. CASE j < k
    <3>1. j \in 0 .. k - 1 /\ j < 28
      BY <2>2
    <3> QED
      BY <3>1, <2>2 DEF PaddingRun, UBIFS_PADDING_BYTE
  <2>3. CASE k < j
    <3>1. k \in 0 .. j - 1
      BY <2>3
    <3> QED
      BY <3>1, <2>3 DEF PaddingRun, UBIFS_PADDING_BYTE
  <2> QED
    BY <2>1, <2>2, <2>3
<1>4. skippable = IF k = 0 \/ k % 8 # 0 THEN {} ELSE {k}
  BY <1>2, <1>3
<1> HIDE DEF skippable
<1> QED
  BY <1>1, <1>4

\* With != for ==, a byte of padding at o ends the count at once.
LEMMA NeqStops ==
  ASSUME NEW l, NEW o \in Int, NEW n \in Int, n >= 28, l.byte[o] = 206
  PROVE  EditedPaddingBytes(l, o, n) = SCANNED_GARBAGE
<1> DEFINE max      == IF UBIFS_PAD_NODE_SZ < n THEN UBIFS_PAD_NODE_SZ ELSE n
           Other(i) == i = max \/ l.byte[o + i] = UBIFS_PADDING_BYTE
           count    == CHOOSE m \in 0 .. max : Other(m) /\ \A i \in 0 .. m - 1 : ~Other(i)
<1>1. EditedPaddingBytes(l, o, n) =
        IF count = 0 \/ count % 8 # 0 THEN SCANNED_GARBAGE ELSE count
  BY DEF EditedPaddingBytes
<1>2. max = 28
  BY DEF UBIFS_PAD_NODE_SZ
<1> HIDE DEF max
<1>3. Other(0)
  BY DEF UBIFS_PADDING_BYTE
<1>4. ASSUME NEW m \in 0 .. 28
      PROVE  (Other(m) /\ \A i \in 0 .. m - 1 : ~Other(i)) <=> m = 0
  <2>1. CASE m = 0
    BY <1>3, <2>1
  <2>2. CASE m # 0
    <3>1. 0 \in 0 .. m - 1
      BY <2>2
    <3> QED
      BY <1>3, <2>2, <3>1
  <2> QED
    BY <2>1, <2>2
<1> HIDE DEF Other
<1>5. count = 0
  BY <1>2, <1>4
<1> QED
  BY <1>1, <1>5

\* And where there is no padding it goes on to the 28th byte.
LEMMA NeqGoesOn ==
  ASSUME NEW l, NEW o \in Int, NEW n \in Int, n >= 28,
         \A i \in 0 .. 27 : l.byte[o + i] # 206
  PROVE  EditedPaddingBytes(l, o, n) = SCANNED_GARBAGE
<1> DEFINE max      == IF UBIFS_PAD_NODE_SZ < n THEN UBIFS_PAD_NODE_SZ ELSE n
           Other(i) == i = max \/ l.byte[o + i] = UBIFS_PADDING_BYTE
           count    == CHOOSE m \in 0 .. max : Other(m) /\ \A i \in 0 .. m - 1 : ~Other(i)
<1>1. EditedPaddingBytes(l, o, n) =
        IF count = 0 \/ count % 8 # 0 THEN SCANNED_GARBAGE ELSE count
  BY DEF EditedPaddingBytes
<1>2. max = 28
  BY DEF UBIFS_PAD_NODE_SZ
<1> HIDE DEF max
<1>3. ASSUME NEW m \in 0 .. 28
      PROVE  Other(m) <=> m = 28
  BY <1>2 DEF UBIFS_PADDING_BYTE
<1> HIDE DEF Other
<1>4. ASSUME NEW m \in 0 .. 28
      PROVE  (Other(m) /\ \A i \in 0 .. m - 1 : ~Other(i)) <=> m = 28
  <2>1. \A i \in 0 .. m - 1 : ~Other(i)
    BY <1>3
  <2> QED
    BY <1>3, <2>1
<1>5. count = 28
  BY <1>2, <1>4
<1> QED
  BY <1>1, <1>5

-----------------------------------------------------------------------------
(* The buffers the tests prepare. *)

\* A blank buffer with n bytes b at its start.
LEMMA Filled ==
  ASSUME NEW v, NEW n \in Nat
  PROVE  /\ DOMAIN Memset(Blank, 0, v, n).hdr = {}
         /\ \A a \in Addr : Memset(Blank, 0, v, n).byte[a] = IF a \in 0 .. n - 1 THEN v ELSE 255
<1> DEFINE written == 0 .. 0 + n - 1
           kept    == {o \in DOMAIN Blank.hdr : (o .. o + UBIFS_CH_SZ - 1) \cap written = {}}
<1>1. DOMAIN Blank.hdr = {} /\ Blank.byte = [a \in Addr |-> 255]
  BY DEF Blank
<1>2. kept = {}
  BY <1>1
<1>3. written = 0 .. n - 1
  OBVIOUS
<1>4. /\ Memset(Blank, 0, v, n).hdr = [o \in kept |-> Blank.hdr[o]]
      /\ Memset(Blank, 0, v, n).byte = [a \in Addr |-> IF a \in written THEN v ELSE Blank.byte[a]]
  BY DEF Memset
<1> HIDE DEF kept, written
<1> QED
  BY <1>1, <1>2, <1>3, <1>4

\* A buffer to whose start a header h has been written.
LEMMA HeaderPut ==
  ASSUME NEW l, NEW h, l.byte = [a \in Addr |-> l.byte[a]], 0 \in Addr
  PROVE  /\ 0 \in DOMAIN PutHeader(l, 0, h).hdr
         /\ PutHeader(l, 0, h).hdr[0] = h
         /\ PutHeader(l, 0, h).byte[0] = 49
         /\ ~AllFF(PutHeader(l, 0, h), 0, 4)
<1>1. /\ PutHeader(l, 0, h).hdr = [o \in DOMAIN l.hdr \cup {0} |-> IF o = 0 THEN h ELSE l.hdr[o]]
      /\ PutHeader(l, 0, h).byte = [l.byte EXCEPT ![0] = 49]
  BY DEF PutHeader, FirstMagicByte
<1>2. PutHeader(l, 0, h).byte[0] = 49
  BY <1>1
<1>3. 0 \in 0 .. 4 - 1
  OBVIOUS
<1> QED
  BY <1>1, <1>2, <1>3 DEF AllFF

\* An intact pad node at the start of a blank buffer.
LEMMA PadNodeMade ==
  ASSUME Roomy, NEW p
  PROVE  /\ 0 \in DOMAIN PadNode(p).hdr
         /\ PadNode(p).hdr[0] = SealedHeader(UBIFS_PAD_NODE, 28, 5, p)
         /\ ~AllFF(PadNode(p), 0, 0 + 4)
<1> DEFINE l == Memset(Blank, 0, 0, 28)
           h == SealedHeader(UBIFS_PAD_NODE, 28, 5, p)
<1>1. PadNode(p) = PutHeader(l, 0, h)
  BY DEF PadNode, ut_make_pad_node, UBIFS_PAD_NODE_SZ
<1>2. l.byte = [a \in Addr |-> l.byte[a]] /\ 0 \in Addr
  BY Room DEF Memset, Addr
<1> HIDE DEF l, h
<1>3. /\ 0 \in DOMAIN PadNode(p).hdr /\ PadNode(p).hdr[0] = h /\ ~AllFF(PadNode(p), 0, 4)
  BY <1>1, <1>2, HeaderPut
<1> QED
  BY <1>3, 0 + 4 = 4 DEF h

\* What each build makes of one: "and3" and "ge" differ from the code by an edit.
PadVerdict(b, p, x) ==
  IF \/ p < 0
     \/ x + 28 + p > LebSize
     \/ x + 28 + p = LebSize /\ b = "ge"
     \/ (28 + p) % (IF b = "and3" THEN 4 ELSE 8) # 0
  THEN SCANNED_A_BAD_PAD_NODE ELSE 28 + p

PadNodeAt(l, o, s, p) ==
  /\ o \in DOMAIN l.hdr /\ l.hdr[o] = SealedHeader(UBIFS_PAD_NODE, 28, s, p)
  /\ ~AllFF(l, o, o + 4)

LEMMA PadNodeSeen ==
  ASSUME Roomy, NEW b \in Tested, NEW l, NEW o, NEW n \in Int, n >= 28, NEW s,
         NEW p \in Int, NEW x \in Nat,
         p =< LebSize, x + 28 + p =< IntMax, p >= -(IntMax + 1),
         PadNodeAt(l, o, s, p)
  PROVE  scan_a_node(b, l, o, n, x) = PadVerdict(b, p, x)
<1> DEFINE h == SealedHeader(UBIFS_PAD_NODE, 28, s, p)
<1>1. h.len = 28 /\ h.pad_len = p /\ h.type = UBIFS_PAD_NODE /\ h.crc = ut_crc32(h)
  BY DEF SealedHeader, ut_crc32
<1>2. n >= UBIFS_CH_SZ /\ ~(n < UBIFS_CH_SZ)
  BY DEF UBIFS_CH_SZ
<1>3. l.hdr[o] = h /\ o \in DOMAIN l.hdr /\ ~AllFF(l, o, o + 4)
  BY DEF PadNodeAt
<1> HIDE DEF h
<1>4. ~ubifs_check_node(l, o, n)
  BY <1>1, <1>3 DEF ubifs_check_node, UBIFS_CH_SZ
<1>5. scan_a_node(b, l, o, n, x) = EditedPadNode(b, h, x)
  <2>1. ReachesPadNode(l, o, n)
    BY <1>4, <1>1, <1>2, <1>3 DEF ReachesPadNode
  <2>2. CASE b \in {"and3", "ge"}
    <3>1. b \in PadEdits
      BY <2>2 DEF PadEdits
    <3> QED
      BY <2>1, <3>1, <1>3, ZenonT(60) DEF scan_a_node
  <2>3. CASE b \in {"scan.c", "neq"}
    <3>1. ubifs_scan_a_node(l, o, n, x) = ScanPadNode(h, x)
      BY <1>4, <1>1, <1>2, <1>3, ZenonT(60) DEF ubifs_scan_a_node
    <3>2. b \notin PadEdits /\ ~ReachesPaddingBytes(l, o)
      BY <1>3, <2>3 DEF PadEdits, ReachesPaddingBytes
    <3>3. scan_a_node(b, l, o, n, x) = ubifs_scan_a_node(l, o, n, x)
      BY <3>2, ZenonT(60) DEF scan_a_node
    <3>4. ScanPadNode(h, x) = EditedPadNode(b, h, x)
      BY <2>3 DEF ScanPadNode, EditedPadNode
    <3> QED
      BY <3>1, <3>3, <3>4
  <2> QED
    BY <2>2, <2>3 DEF Tested
<1>6. b # "unsigned" /\ b # "unbounded"
  BY DEF Tested
<1>7. CASE p < 0
  <2>1. EditedPadNode(b, h, x) = SCANNED_A_BAD_PAD_NODE
    BY <1>1, <1>6, <1>7, Zenon DEF EditedPadNode
  <2> QED
    BY <1>5, <1>7, <2>1 DEF PadVerdict
<1>8. CASE p >= 0
  <2>1. /\ x \in Int /\ 28 \in Int /\ x + 28 \in Int /\ IntMax \in Nat
        /\ 28 + p \in -(IntMax + 1) .. IntMax
        /\ x + 28 \in -(IntMax + 1) .. IntMax
        /\ (x + 28) + p \in -(IntMax + 1) .. IntMax
    BY <1>8, Room
  <2>2. Plus(28, p) = 28 + p /\ Plus(x, 28) = x + 28 /\ Plus(x + 28, p) = x + 28 + p
    BY <2>1, PlusInRange
  <2>3. EditedPadNode(b, h, x) = PadVerdict(b, p, x)
    BY <1>1, <1>6, <2>2 DEF EditedPadNode, PadVerdict
  <2> QED
    BY <1>5, <2>3, Zenon
<1> QED
  BY <1>7, <1>8

\* What the builds return in the tests.
LEMMA ReturnedInTests ==
  ASSUME Roomy, NEW b \in Tested
  PROVE  /\ scan_a_node(b, Blank, 0, LebSize, 64) = SCANNED_EMPTY_SPACE
         /\ scan_a_node(b, Memset(Blank, 0, UBIFS_PADDING_BYTE, 16), 0, LebSize, 0) =
              IF b = "neq" THEN SCANNED_GARBAGE ELSE 16
         /\ scan_a_node(b, Memset(Blank, 0, UBIFS_PADDING_BYTE, 10), 0, LebSize, 0) = SCANNED_GARBAGE
         /\ scan_a_node(b, Memset(Blank, 0, 18, 4), 0, LebSize, 0) = SCANNED_GARBAGE
         /\ scan_a_node(b, OnlyMagic, 0, UBIFS_CH_SZ - 1, 0) = SCANNED_GARBAGE
         /\ scan_a_node(b, DamagedCrc, 0, LebSize, 512) = SCANNED_A_CORRUPT_NODE
         /\ scan_a_node(b, CsNode, 0, LebSize, 512) = SCANNED_A_NODE
<1>1. /\ LebSize \in Int /\ LebSize >= 28 /\ 0 \in Addr
      /\ \A a \in 0 .. 28 : a \in Addr
      /\ 0 + 4 = 4
  BY Room DEF Addr
<1>2. scan_a_node(b, Blank, 0, LebSize, 64) = SCANNED_EMPTY_SPACE
  <2>1. 0 \notin DOMAIN Blank.hdr /\ AllFF(Blank, 0, 0 + 4)
    BY <1>1 DEF Blank, AllFF
  <2> QED
    BY <2>1, ErasedIsEmpty
<1>3. ASSUME NEW v, v # 255, NEW n \in 4 .. 27
      PROVE  /\ 0 \notin DOMAIN Memset(Blank, 0, v, n).hdr
             /\ ~AllFF(Memset(Blank, 0, v, n), 0, 0 + 4)
             /\ \A a \in 0 .. n - 1 : Memset(Blank, 0, v, n).byte[0 + a] = v
             /\ \A a \in n .. 28 : Memset(Blank, 0, v, n).byte[0 + a] = 255
  <2>1. \A a \in 0 .. 28 : Memset(Blank, 0, v, n).byte[a] = IF a \in 0 .. n - 1 THEN v ELSE 255
    BY <1>1, Filled
  <2>2. 0 \notin DOMAIN Memset(Blank, 0, v, n).hdr
    BY Filled
  <2>3. \A a \in 0 .. 28 : 0 + a = a
    OBVIOUS
  <2>4. Memset(Blank, 0, v, n).byte[0] = v
    BY <2>1
  <2>5. ~AllFF(Memset(Blank, 0, v, n), 0, 4)
    BY <1>3, <2>4 DEF AllFF
  <2> QED
    BY <1>1, <2>1, <2>2, <2>3, <2>5
<1>4. ASSUME NEW n \in 4 .. 27
      PROVE  scan_a_node(b, Memset(Blank, 0, UBIFS_PADDING_BYTE, n), 0, LebSize, 0) =
               IF b = "neq" \/ n % 8 # 0 THEN SCANNED_GARBAGE ELSE n
  <2> DEFINE l == Memset(Blank, 0, UBIFS_PADDING_BYTE, n)
  <2>1. UBIFS_PADDING_BYTE = 206
    BY DEF UBIFS_PADDING_BYTE
  <2>2. /\ 0 \notin DOMAIN l.hdr /\ ~AllFF(l, 0, 0 + 4)
        /\ \A a \in 0 .. n - 1 : l.byte[0 + a] = 206
        /\ l.byte[0 + n] # 206 /\ l.byte[0 + 0] = 206
    <3> DEFINE k == Memset(Blank, 0, 206, n)
    <3>1. l = k
      BY <2>1
    <3>2. /\ 0 \notin DOMAIN k.hdr /\ ~AllFF(k, 0, 0 + 4)
          /\ \A a \in 0 .. n - 1 : k.byte[0 + a] = 206
          /\ \A a \in n .. 28 : k.byte[0 + a] = 255
      BY <1>3, SMTT(60)
    <3> HIDE DEF k, l
    <3>3. 0 \in 0 .. n - 1 /\ n \in n .. 28
      OBVIOUS
    <3>4. k.byte[0 + n] = 255 /\ k.byte[0 + 0] = 206
      BY <3>2, <3>3
    <3> QED
      BY <3>1, <3>2, <3>4
  <2> HIDE DEF l
  <2>3. scan_a_node(b, l, 0, LebSize, 0) =
          IF b = "neq" THEN EditedPaddingBytes(l, 0, LebSize) ELSE scan_padding_bytes(l, 0, LebSize)
    BY <2>2, RawIsCounted
  <2>4. scan_padding_bytes(l, 0, LebSize) = IF n % 8 # 0 THEN SCANNED_GARBAGE ELSE n
    BY <1>1, <2>2, PaddingCounted
  <2>5. EditedPaddingBytes(l, 0, LebSize) = SCANNED_GARBAGE
    BY <1>1, <2>2, NeqStops
  <2>6. scan_a_node(b, l, 0, LebSize, 0) = IF b = "neq" \/ n % 8 # 0 THEN SCANNED_GARBAGE ELSE n
    BY <2>3, <2>4, <2>5, Zenon
  <2> QED
    BY <2>6 DEF l
<1>5. scan_a_node(b, Memset(Blank, 0, 18, 4), 0, LebSize, 0) = SCANNED_GARBAGE
  <2> DEFINE l == Memset(Blank, 0, 18, 4)
  <2>1. /\ 0 \notin DOMAIN l.hdr /\ ~AllFF(l, 0, 0 + 4)
        /\ \A a \in 0 .. 27 : l.byte[0 + a] # 206
    BY <1>3, SMTT(30)
  <2> HIDE DEF l
  <2>2. scan_a_node(b, l, 0, LebSize, 0) =
          IF b = "neq" THEN EditedPaddingBytes(l, 0, LebSize) ELSE scan_padding_bytes(l, 0, LebSize)
    BY <2>1, RawIsCounted
  <2>3. scan_padding_bytes(l, 0, LebSize) = SCANNED_GARBAGE
    BY <1>1, <2>1, PaddingCounted
  <2>4. EditedPaddingBytes(l, 0, LebSize) = SCANNED_GARBAGE
    BY <1>1, <2>1, NeqGoesOn
  <2> QED
    BY <2>2, <2>3, <2>4, Zenon DEF l
<1>6. scan_a_node(b, OnlyMagic, 0, UBIFS_CH_SZ - 1, 0) = SCANNED_GARBAGE
  <2>1. Blank.byte = [a \in Addr |-> Blank.byte[a]]
    BY DEF Blank
  <2>2. 0 \in DOMAIN OnlyMagic.hdr /\ ~AllFF(OnlyMagic, 0, 4)
    BY <1>1, <2>1, HeaderPut DEF OnlyMagic
  <2>3. UBIFS_CH_SZ - 1 < UBIFS_CH_SZ /\ ~(UBIFS_CH_SZ - 1 >= UBIFS_CH_SZ)
    BY DEF UBIFS_CH_SZ
  <2>4. ~ReachesPadNode(OnlyMagic, 0, UBIFS_CH_SZ - 1) /\ ~ReachesPaddingBytes(OnlyMagic, 0)
    BY <2>2, <2>3 DEF ReachesPadNode, ReachesPaddingBytes
  <2>5. scan_a_node(b, OnlyMagic, 0, UBIFS_CH_SZ - 1, 0)
          = ubifs_scan_a_node(OnlyMagic, 0, UBIFS_CH_SZ - 1, 0)
    BY <2>4, ZenonT(60) DEF scan_a_node
  <2> QED
    BY <1>1, <2>2, <2>3, <2>5, ZenonT(60) DEF ubifs_scan_a_node
<1>7. /\ 0 \in DOMAIN CsNode.hdr /\ ~AllFF(CsNode, 0, 4)
      /\ CsNode.hdr[0] = SealedHeader(UBIFS_CS_NODE, UBIFS_CS_NODE_SZ, 7, 0)
      /\ CsNode = [byte |-> CsNode.byte, hdr |-> CsNode.hdr]
  <2> DEFINE l == Memset(Blank, 0, 0, UBIFS_CS_NODE_SZ)
             h == SealedHeader(UBIFS_CS_NODE, UBIFS_CS_NODE_SZ, 7, 0)
  <2>1. CsNode = PutHeader(l, 0, h)
    BY DEF CsNode, ut_make_node
  <2>2. l.byte = [a \in Addr |-> l.byte[a]]
    BY DEF Memset
  <2>3. PutHeader(l, 0, h) = [byte |-> PutHeader(l, 0, h).byte, hdr |-> PutHeader(l, 0, h).hdr]
    BY DEF PutHeader
  <2> HIDE DEF l
  <2> QED
    BY <1>1, <2>1, <2>2, <2>3, HeaderPut
<1>8. scan_a_node(b, CsNode, 0, LebSize, 512) = SCANNED_A_NODE
  <2>1. /\ CsNode.hdr[0].type # UBIFS_PAD_NODE
        /\ ~ubifs_check_node(CsNode, 0, LebSize) /\ ~(LebSize < UBIFS_CH_SZ)
    BY <1>7, Room DEF SealedHeader, ubifs_check_node, ut_crc32, UBIFS_CS_NODE, UBIFS_PAD_NODE,
       UBIFS_CS_NODE_SZ, UBIFS_CH_SZ
  <2>2. ~ReachesPadNode(CsNode, 0, LebSize) /\ ~ReachesPaddingBytes(CsNode, 0)
    BY <1>7, <2>1 DEF ReachesPadNode, ReachesPaddingBytes
  <2>3. scan_a_node(b, CsNode, 0, LebSize, 512) = ubifs_scan_a_node(CsNode, 0, LebSize, 512)
    BY <2>2, ZenonT(60) DEF scan_a_node
  <2> QED
    BY <1>1, <1>7, <2>1, <2>3, ZenonT(60) DEF ubifs_scan_a_node
<1>9. scan_a_node(b, DamagedCrc, 0, LebSize, 512) = SCANNED_A_CORRUPT_NODE
  <2>1. /\ DamagedCrc.byte = CsNode.byte /\ DOMAIN DamagedCrc.hdr = DOMAIN CsNode.hdr
        /\ DamagedCrc.hdr[0] = [CsNode.hdr[0] EXCEPT !.crc = <<0, 0, 0>>]
    BY <1>7 DEF DamagedCrc
  <2>2. DamagedCrc.hdr[0].crc = <<0, 0, 0>> /\ DamagedCrc.hdr[0].sqnum = 7
    BY <1>7, <2>1 DEF SealedHeader
  <2>3. ut_crc32(DamagedCrc.hdr[0]) # <<0, 0, 0>>
    BY <2>2 DEF ut_crc32
  <2>4. ubifs_check_node(DamagedCrc, 0, LebSize) /\ ~(LebSize < UBIFS_CH_SZ)
    BY <2>2, <2>3, Room DEF ubifs_check_node, UBIFS_CH_SZ
  <2>5. 0 \in DOMAIN DamagedCrc.hdr /\ ~AllFF(DamagedCrc, 0, 4)
    BY <1>7, <2>1 DEF AllFF
  <2>6. ~ReachesPadNode(DamagedCrc, 0, LebSize) /\ ~ReachesPaddingBytes(DamagedCrc, 0)
    BY <2>4, <2>5 DEF ReachesPadNode, ReachesPaddingBytes
  <2>7. scan_a_node(b, DamagedCrc, 0, LebSize, 512) = ubifs_scan_a_node(DamagedCrc, 0, LebSize, 512)
    BY <2>6, ZenonT(60) DEF scan_a_node
  <2> QED
    BY <1>1, <2>4, <2>5, <2>7, ZenonT(60) DEF ubifs_scan_a_node
<1>10. 16 \in 4 .. 27 /\ 10 \in 4 .. 27 /\ 16 % 8 = 0 /\ 10 % 8 # 0
  OBVIOUS
<1> QED
  BY <1>2, <1>4, <1>5, <1>6, <1>8, <1>9, <1>10

\* A test of one call fails in a mutant that it is aimed at, and nowhere else.
AimedAt(b, name) == b \in DOMAIN Aim /\ Aim[b] = name

LEMMA CallTestsAre ==
  /\ Len(CallTests) = 13
  /\ CallTests[1] = Call("empty_space", Blank, LebSize, 64, SCANNED_EMPTY_SPACE)
  /\ CallTests[2] = Call("raw_padding_bytes", Memset(Blank, 0, UBIFS_PADDING_BYTE, 16), LebSize, 0, 16)
  /\ CallTests[3] = Call("raw_padding_misaligned", Memset(Blank, 0, UBIFS_PADDING_BYTE, 10), LebSize, 0,
                         SCANNED_GARBAGE)
  /\ CallTests[4] = Call("garbage", Memset(Blank, 0, 18, 4), LebSize, 0, SCANNED_GARBAGE)
  /\ CallTests[5] = Call("len_too_small", OnlyMagic, UBIFS_CH_SZ - 1, 0, SCANNED_GARBAGE)
  /\ CallTests[6] = Call("valid_pad_node", PadNode(36), LebSize, 256, UBIFS_PAD_NODE_SZ + 36)
  /\ CallTests[7] = Call("pad_node_overruns_leb", PadNode(LebSize), LebSize, 256, SCANNED_A_BAD_PAD_NODE)
  /\ CallTests[8] = Call("pad_node_negative_pad_len", PadNode(-(IntMax + 1)), LebSize, 256,
                         SCANNED_A_BAD_PAD_NODE)
  /\ CallTests[9] = Call("pad_node_misaligned_total", PadNode(2), LebSize, 256, SCANNED_A_BAD_PAD_NODE)
  /\ CallTests[10] = Call("pad_node_36_bytes_is_misaligned", PadNode(8), LebSize, 256,
                          SCANNED_A_BAD_PAD_NODE)
  /\ CallTests[11] = EndsExactlyAtLebEnd
  /\ CallTests[12] = Call("corrupt_header_crc", DamagedCrc, LebSize, 512, SCANNED_A_CORRUPT_NODE)
  /\ CallTests[13] = Call("valid_plain_node", CsNode, LebSize, 512, SCANNED_A_NODE)
BY DEF CallTests

LEMMA PadTests ==
  ASSUME Roomy, NEW b \in Tested
  PROVE  /\ scan_a_node(b, PadNode(36), 0, LebSize, 256) = 64
         /\ scan_a_node(b, PadNode(LebSize), 0, LebSize, 256) = SCANNED_A_BAD_PAD_NODE
         /\ scan_a_node(b, PadNode(-(IntMax + 1)), 0, LebSize, 256) = SCANNED_A_BAD_PAD_NODE
         /\ scan_a_node(b, PadNode(2), 0, LebSize, 256) = SCANNED_A_BAD_PAD_NODE
         /\ scan_a_node(b, PadNode(8), 0, LebSize, 256) =
              IF b = "and3" THEN 36 ELSE SCANNED_A_BAD_PAD_NODE
         /\ scan_a_node(b, PadNode(36), 0, LebSize, LebSize - 64) =
              IF b = "ge" THEN SCANNED_A_BAD_PAD_NODE ELSE 64
<1>1. ASSUME NEW p \in Int, NEW x \in Nat,
             p =< LebSize, x + 28 + p =< IntMax, p >= -(IntMax + 1)
      PROVE  scan_a_node(b, PadNode(p), 0, LebSize, x) = PadVerdict(b, p, x)
  <2> DEFINE l == PadNode(p)
  <2>1. PadNodeAt(l, 0, 5, p)
    BY PadNodeMade DEF PadNodeAt
  <2>2. LebSize \in Int /\ LebSize >= 28
    BY Room
  <2> HIDE DEF l
  <2>3. scan_a_node(b, l, 0, LebSize, x) = PadVerdict(b, p, x)
    BY <1>1, <2>1, <2>2, PadNodeSeen
  <2> QED
    BY <2>3, Zenon DEF l
<1> USE Room DEF PadVerdict
<1>2. scan_a_node(b, PadNode(36), 0, LebSize, 256) = 64
  <2>1. /\ 36 \in Int /\ 256 \in Nat /\ 36 =< LebSize /\ 256 + 28 + 36 =< IntMax /\ 36 >= -(IntMax + 1)
        /\ ~(36 < 0) /\ ~(256 + 28 + 36 > LebSize) /\ 256 + 28 + 36 # LebSize
        /\ (28 + 36) % 4 = 0 /\ (28 + 36) % 8 = 0 /\ 28 + 36 = 64
    OBVIOUS
  <2> QED
    BY <2>1, <1>1
<1>3. scan_a_node(b, PadNode(LebSize), 0, LebSize, 256) = SCANNED_A_BAD_PAD_NODE
  <2>1. /\ LebSize \in Int /\ 256 \in Nat /\ LebSize =< LebSize /\ 256 + 28 + LebSize =< IntMax
        /\ LebSize >= -(IntMax + 1) /\ 256 + 28 + LebSize > LebSize
    OBVIOUS
  <2> QED
    BY <2>1, <1>1
<1>4. scan_a_node(b, PadNode(-(IntMax + 1)), 0, LebSize, 256) = SCANNED_A_BAD_PAD_NODE
  <2> DEFINE p == -(IntMax + 1)
  <2>1. /\ p \in Int /\ 256 \in Nat /\ p =< LebSize /\ 256 + 28 + p =< IntMax
        /\ p >= -(IntMax + 1) /\ p < 0
    OBVIOUS
  <2> HIDE DEF p
  <2>2. scan_a_node(b, PadNode(p), 0, LebSize, 256) = SCANNED_A_BAD_PAD_NODE
    BY <2>1, <1>1
  <2> QED
    BY <2>2 DEF p
<1>5. scan_a_node(b, PadNode(2), 0, LebSize, 256) = SCANNED_A_BAD_PAD_NODE
  <2>1. /\ 2 \in Int /\ 256 \in Nat /\ 2 =< LebSize /\ 256 + 28 + 2 =< IntMax /\ 2 >= -(IntMax + 1)
        /\ (28 + 2) % 4 # 0 /\ (28 + 2) % 8 # 0
    OBVIOUS
  <2> QED
    BY <2>1, <1>1
<1>6. scan_a_node(b, PadNode(8), 0, LebSize, 256) =
        IF b = "and3" THEN 36 ELSE SCANNED_A_BAD_PAD_NODE
  <2>1. /\ 8 \in Int /\ 256 \in Nat /\ 8 =< LebSize /\ 256 + 28 + 8 =< IntMax /\ 8 >= -(IntMax + 1)
        /\ ~(8 < 0) /\ ~(256 + 28 + 8 > LebSize) /\ 256 + 28 + 8 # LebSize
        /\ (28 + 8) % 4 = 0 /\ (28 + 8) % 8 # 0 /\ 28 + 8 = 36
    OBVIOUS
  <2> QED
    BY <2>1, <1>1
<1>7. scan_a_node(b, PadNode(36), 0, LebSize, LebSize - 64) =
        IF b = "ge" THEN SCANNED_A_BAD_PAD_NODE ELSE 64
  <2> DEFINE x == LebSize - 64
  <2>1. /\ 36 \in Int /\ x \in Nat /\ 36 =< LebSize /\ x + 28 + 36 =< IntMax /\ 36 >= -(IntMax + 1)
        /\ ~(36 < 0) /\ ~(x + 28 + 36 > LebSize) /\ x + 28 + 36 = LebSize
        /\ (28 + 36) % 4 = 0 /\ (28 + 36) % 8 = 0 /\ 28 + 36 = 64
    OBVIOUS
  <2> HIDE DEF x
  <2>2. scan_a_node(b, PadNode(36), 0, LebSize, x) = IF b = "ge" THEN SCANNED_A_BAD_PAD_NODE ELSE 64
    BY <2>1, <1>1
  <2> QED
    BY <2>2 DEF x
<1> QED
  BY <1>2, <1>3, <1>4, <1>5, <1>6, <1>7

LEMMA CallTestsTell ==
  ASSUME Roomy, NEW b \in Tested, NEW i \in 1 .. 13
  PROVE  Checks(b, i) = <<~AimedAt(b, TestName(i))>>
<1> DEFINE Tells(name) == Checks(b, i) = <<~AimedAt(b, name)>> /\ TestName(i) = name
<1>1. /\ Checks(b, i) = LET t == CallTests[i]
                        IN  <<scan_a_node(b, t.leb, 0, t.len, t.offs) = t.want>>
      /\ TestName(i) = CallTests[i].name
  <2>1. Tests = 14 /\ i # 14
    BY CallTestsAre DEF Tests
  <2> QED
    BY <2>1 DEF Checks, TestName
<1>2. ASSUME NEW name, NEW l, NEW n, NEW x, NEW w, CallTests[i] = Call(name, l, n, x, w),
             (scan_a_node(b, l, 0, n, x) = w) <=> ~AimedAt(b, name)
      PROVE  Tells(name)
  <2>1. /\ CallTests[i].name = name /\ CallTests[i].leb = l /\ CallTests[i].len = n
        /\ CallTests[i].offs = x /\ CallTests[i].want = w
    BY <1>2 DEF Call
  <2>2. Checks(b, i) = <<scan_a_node(b, l, 0, n, x) = w>> /\ TestName(i) = name
    BY <1>1, <2>1
  <2>3. (scan_a_node(b, l, 0, n, x) = w) = ~AimedAt(b, name)
    BY <1>2
  <2> QED
    BY <2>2, <2>3, Zenon
<1>3. /\ AimedAt(b, "pad_node_36_bytes_is_misaligned") <=> b = "and3"
      /\ AimedAt(b, "pad_node_ends_exactly_at_leb_end") <=> b = "ge"
      /\ AimedAt(b, "raw_padding_bytes") <=> b = "neq"
  BY Aims DEF AimedAt
<1>4. /\ SCANNED_A_BAD_PAD_NODE = -4 /\ SCANNED_GARBAGE = 0
      /\ UBIFS_PAD_NODE_SZ + 36 = 64 /\ LebSize - (UBIFS_PAD_NODE_SZ + 36) = LebSize - 64
  BY Room DEF SCANNED_A_BAD_PAD_NODE, SCANNED_GARBAGE, UBIFS_PAD_NODE_SZ
<1>5. \E name : Tells(name)
  <2> HIDE DEF Tells
  <2>1. CASE i = 1
    <3>1. (scan_a_node(b, Blank, 0, LebSize, 64) = SCANNED_EMPTY_SPACE) <=> ~AimedAt(b, "empty_space")
      <4>1. ~AimedAt(b, "empty_space")
        BY Aims DEF AimedAt
      <4>2. scan_a_node(b, Blank, 0, LebSize, 64) = SCANNED_EMPTY_SPACE
        BY <1>4, ReturnedInTests
      <4> QED
        BY <4>1, <4>2
    <3>2. CallTests[i] = Call("empty_space", Blank, LebSize,
                             64, SCANNED_EMPTY_SPACE)
      BY <2>1, CallTestsAre
    <3> QED
      BY <1>2, <3>1, <3>2, ZenonT(60)
  <2>2. CASE i = 2
    <3>1. (scan_a_node(b, Memset(Blank, 0, UBIFS_PADDING_BYTE, 16), 0, LebSize, 0) = 16) <=> ~AimedAt(b, "raw_padding_bytes")
      BY <1>3, <1>4, ReturnedInTests
    <3>2. CallTests[i] = Call("raw_padding_bytes", Memset(Blank, 0, UBIFS_PADDING_BYTE, 16), LebSize,
                             0, 16)
      BY <2>2, CallTestsAre
    <3> QED
      BY <1>2, <3>1, <3>2, ZenonT(60)
  <2>3. CASE i = 3
    <3>1. (scan_a_node(b, Memset(Blank, 0, UBIFS_PADDING_BYTE, 10), 0, LebSize, 0) = SCANNED_GARBAGE) <=> ~AimedAt(b, "raw_padding_misaligned")
      <4>1. ~AimedAt(b, "raw_padding_misaligned")
        BY Aims DEF AimedAt
      <4>2. scan_a_node(b, Memset(Blank, 0, UBIFS_PADDING_BYTE, 10), 0, LebSize, 0) = SCANNED_GARBAGE
        BY <1>4, ReturnedInTests
      <4> QED
        BY <4>1, <4>2
    <3>2. CallTests[i] = Call("raw_padding_misaligned", Memset(Blank, 0, UBIFS_PADDING_BYTE, 10), LebSize,
                             0, SCANNED_GARBAGE)
      BY <2>3, CallTestsAre
    <3> QED
      BY <1>2, <3>1, <3>2, ZenonT(60)
  <2>4. CASE i = 4
    <3>1. (scan_a_node(b, Memset(Blank, 0, 18, 4), 0, LebSize, 0) = SCANNED_GARBAGE) <=> ~AimedAt(b, "garbage")
      <4>1. ~AimedAt(b, "garbage")
        BY Aims DEF AimedAt
      <4>2. scan_a_node(b, Memset(Blank, 0, 18, 4), 0, LebSize, 0) = SCANNED_GARBAGE
        BY <1>4, ReturnedInTests
      <4> QED
        BY <4>1, <4>2
    <3>2. CallTests[i] = Call("garbage", Memset(Blank, 0, 18, 4), LebSize,
                             0, SCANNED_GARBAGE)
      BY <2>4, CallTestsAre
    <3> QED
      BY <1>2, <3>1, <3>2, ZenonT(60)
  <2>5. CASE i = 5
    <3>1. (scan_a_node(b, OnlyMagic, 0, UBIFS_CH_SZ - 1, 0) = SCANNED_GARBAGE) <=> ~AimedAt(b, "len_too_small")
      <4>1. ~AimedAt(b, "len_too_small")
        BY Aims DEF AimedAt
      <4>2. scan_a_node(b, OnlyMagic, 0, UBIFS_CH_SZ - 1, 0) = SCANNED_GARBAGE
        BY <1>4, ReturnedInTests
      <4> QED
        BY <4>1, <4>2
    <3>2. CallTests[i] = Call("len_too_small", OnlyMagic, UBIFS_CH_SZ - 1,
                             0, SCANNED_GARBAGE)
      BY <2>5, CallTestsAre
    <3> QED
      BY <1>2, <3>1, <3>2, ZenonT(60)
  <2>6. CASE i = 6
    <3>1. (scan_a_node(b, PadNode(36), 0, LebSize, 256) = UBIFS_PAD_NODE_SZ + 36) <=> ~AimedAt(b, "valid_pad_node")
      <4>1. ~AimedAt(b, "valid_pad_node")
        BY Aims DEF AimedAt
      <4>2. scan_a_node(b, PadNode(36), 0, LebSize, 256) = UBIFS_PAD_NODE_SZ + 36
        BY <1>4, PadTests
      <4> QED
        BY <4>1, <4>2
    <3>2. CallTests[i] = Call("valid_pad_node", PadNode(36), LebSize,
                             256, UBIFS_PAD_NODE_SZ + 36)
      BY <2>6, CallTestsAre
    <3> QED
      BY <1>2, <3>1, <3>2, ZenonT(60)
  <2>7. CASE i = 7
    <3>1. (scan_a_node(b, PadNode(LebSize), 0, LebSize, 256) = SCANNED_A_BAD_PAD_NODE) <=> ~AimedAt(b, "pad_node_overruns_leb")
      <4>1. ~AimedAt(b, "pad_node_overruns_leb")
        BY Aims DEF AimedAt
      <4>2. scan_a_node(b, PadNode(LebSize), 0, LebSize, 256) = SCANNED_A_BAD_PAD_NODE
        BY <1>4, PadTests
      <4> QED
        BY <4>1, <4>2
    <3>2. CallTests[i] = Call("pad_node_overruns_leb", PadNode(LebSize), LebSize,
                             256, SCANNED_A_BAD_PAD_NODE)
      BY <2>7, CallTestsAre
    <3> QED
      BY <1>2, <3>1, <3>2, ZenonT(60)
  <2>8. CASE i = 8
    <3>1. (scan_a_node(b, PadNode(-(IntMax + 1)), 0, LebSize, 256) = SCANNED_A_BAD_PAD_NODE) <=> ~AimedAt(b, "pad_node_negative_pad_len")
      <4>1. ~AimedAt(b, "pad_node_negative_pad_len")
        BY Aims DEF AimedAt
      <4>2. scan_a_node(b, PadNode(-(IntMax + 1)), 0, LebSize, 256) = SCANNED_A_BAD_PAD_NODE
        BY <1>4, PadTests
      <4> QED
        BY <4>1, <4>2
    <3>2. CallTests[i] = Call("pad_node_negative_pad_len", PadNode(-(IntMax + 1)), LebSize,
                             256, SCANNED_A_BAD_PAD_NODE)
      BY <2>8, CallTestsAre
    <3> QED
      BY <1>2, <3>1, <3>2, ZenonT(60)
  <2>9. CASE i = 9
    <3>1. (scan_a_node(b, PadNode(2), 0, LebSize, 256) = SCANNED_A_BAD_PAD_NODE) <=> ~AimedAt(b, "pad_node_misaligned_total")
      <4>1. ~AimedAt(b, "pad_node_misaligned_total")
        BY Aims DEF AimedAt
      <4>2. scan_a_node(b, PadNode(2), 0, LebSize, 256) = SCANNED_A_BAD_PAD_NODE
        BY <1>4, PadTests
      <4> QED
        BY <4>1, <4>2
    <3>2. CallTests[i] = Call("pad_node_misaligned_total", PadNode(2), LebSize,
                             256, SCANNED_A_BAD_PAD_NODE)
      BY <2>9, CallTestsAre
    <3> QED
      BY <1>2, <3>1, <3>2, ZenonT(60)
  <2>10. CASE i = 10
    <3>1. (scan_a_node(b, PadNode(8), 0, LebSize, 256) = SCANNED_A_BAD_PAD_NODE) <=> ~AimedAt(b, "pad_node_36_bytes_is_misaligned")
      BY <1>3, <1>4, PadTests
    <3>2. CallTests[i] = Call("pad_node_36_bytes_is_misaligned", PadNode(8), LebSize,
                             256, SCANNED_A_BAD_PAD_NODE)
      BY <2>10, CallTestsAre
    <3> QED
      BY <1>2, <3>1, <3>2, ZenonT(60)
  <2>11. CASE i = 11
    <3>1. (scan_a_node(b, PadNode(36), 0, LebSize, LebSize - (UBIFS_PAD_NODE_SZ + 36)) = UBIFS_PAD_NODE_SZ + 36) <=> ~AimedAt(b, "pad_node_ends_exactly_at_leb_end")
      BY <1>3, <1>4, PadTests
    <3>2. CallTests[i] = Call("pad_node_ends_exactly_at_leb_end", PadNode(36), LebSize,
                             LebSize - (UBIFS_PAD_NODE_SZ + 36), UBIFS_PAD_NODE_SZ + 36)
      BY <2>11, CallTestsAre DEF EndsExactlyAtLebEnd
    <3> QED
      BY <1>2, <3>1, <3>2, ZenonT(60)
  <2>12. CASE i = 12
    <3>1. (scan_a_node(b, DamagedCrc, 0, LebSize, 512) = SCANNED_A_CORRUPT_NODE) <=> ~AimedAt(b, "corrupt_header_crc")
      <4>1. ~AimedAt(b, "corrupt_header_crc")
        BY Aims DEF AimedAt
      <4>2. scan_a_node(b, DamagedCrc, 0, LebSize, 512) = SCANNED_A_CORRUPT_NODE
        BY <1>4, ReturnedInTests
      <4> QED
        BY <4>1, <4>2
    <3>2. CallTests[i] = Call("corrupt_header_crc", DamagedCrc, LebSize,
                             512, SCANNED_A_CORRUPT_NODE)
      BY <2>12, CallTestsAre
    <3> QED
      BY <1>2, <3>1, <3>2, ZenonT(60)
  <2>13. CASE i = 13
    <3>1. (scan_a_node(b, CsNode, 0, LebSize, 512) = SCANNED_A_NODE) <=> ~AimedAt(b, "valid_plain_node")
      <4>1. ~AimedAt(b, "valid_plain_node")
        BY Aims DEF AimedAt
      <4>2. scan_a_node(b, CsNode, 0, LebSize, 512) = SCANNED_A_NODE
        BY <1>4, ReturnedInTests
      <4> QED
        BY <4>1, <4>2
    <3>2. CallTests[i] = Call("valid_plain_node", CsNode, LebSize,
                             512, SCANNED_A_NODE)
      BY <2>13, CallTestsAre
    <3> QED
      BY <1>2, <3>1, <3>2, ZenonT(60)
  <2> QED
    BY <2>1, <2>2, <2>3, <2>4, <2>5, <2>6, <2>7, <2>8, <2>9, <2>10, <2>11, <2>12, <2>13
<1> QED
  BY <1>5, Zenon

-----------------------------------------------------------------------------
(* The test of ubifs_scan. *)

\* What a builder makes of an eraseblock whose headers lie in front of it.
IsMade(made, l, o, n, h) ==
  /\ DOMAIN made.hdr = DOMAIN l.hdr \cup {o}
  /\ made.hdr[o] = h
  /\ \A q \in DOMAIN l.hdr : made.hdr[q] = l.hdr[q]
  /\ \A a \in Addr : made.byte[a] = IF a = o THEN 49
                                    ELSE IF a \in o .. o + n - 1 THEN 0 ELSE l.byte[a]

LEMMA NodeMade ==
  ASSUME NEW l, NEW o \in Addr, NEW n \in Nat, n > 0, NEW h,
         \A q \in DOMAIN l.hdr : q \in Int /\ q + 24 =< o
  PROVE  IsMade(PutHeader(Memset(l, o, 0, n), o, h), l, o, n, h)
<1> DEFINE filled == Memset(l, o, 0, n)
           made   == PutHeader(filled, o, h)
           kept   == {q \in DOMAIN l.hdr : (q .. q + UBIFS_CH_SZ - 1) \cap (o .. o + n - 1) = {}}
<1>1. o \in Int
  BY Room, GeometryAssumption DEF Addr
<1>2. ASSUME NEW q \in DOMAIN l.hdr
      PROVE  (q .. q + UBIFS_CH_SZ - 1) \cap (o .. o + n - 1) = {} /\ q # o
  BY <1>1 DEF UBIFS_CH_SZ
<1>3. kept = DOMAIN l.hdr
  BY <1>2
<1>4. /\ filled.hdr = [q \in kept |-> l.hdr[q]]
      /\ filled.byte = [a \in Addr |-> IF a \in o .. o + n - 1 THEN 0 ELSE l.byte[a]]
  BY DEF Memset
<1> HIDE DEF kept, filled
<1>5. /\ made.hdr = [q \in DOMAIN filled.hdr \cup {o} |-> IF q = o THEN h ELSE filled.hdr[q]]
      /\ made.byte = [filled.byte EXCEPT ![o] = 49]
  BY DEF PutHeader, FirstMagicByte
<1> HIDE DEF made
<1>6. DOMAIN made.hdr = DOMAIN l.hdr \cup {o} /\ made.hdr[o] = h
  BY <1>3, <1>4, <1>5
<1>7. \A q \in DOMAIN l.hdr : made.hdr[q] = l.hdr[q]
  BY <1>2, <1>3, <1>4, <1>5
<1>8. \A a \in Addr : made.byte[a] = IF a = o THEN 49
                                     ELSE IF a \in o .. o + n - 1 THEN 0 ELSE l.byte[a]
  BY <1>4, <1>5
<1> QED
  BY <1>6, <1>7, <1>8 DEF made, filled, IsMade

\* The eraseblock of the test.
LEMMA ScanTestFlash ==
  ASSUME Roomy
  PROVE  /\ DOMAIN ScanTestLeb.hdr = {0, 32, 64}
         /\ ScanTestLeb.hdr[0] = SealedHeader(UBIFS_CS_NODE, 32, 11, 0)
         /\ ScanTestLeb.hdr[32] = SealedHeader(UBIFS_PAD_NODE, 28, 12, 4)
         /\ ScanTestLeb.hdr[64] = SealedHeader(UBIFS_CS_NODE, 32, 13, 0)
         /\ \A a \in Addr : ScanTestLeb.byte[a] \in {0, 49, 255}
         /\ \A a \in 96 .. LebSize - 1 : ScanTestLeb.byte[a] = 255
         /\ \A a \in {0, 32, 64} : ScanTestLeb.byte[a] = 49
<1> DEFINE h1  == SealedHeader(UBIFS_CS_NODE, 32, 11, 0)
           h2  == SealedHeader(UBIFS_PAD_NODE, 28, 12, 4)
           h3  == SealedHeader(UBIFS_CS_NODE, 32, 13, 0)
           cs1 == PutHeader(Memset(Blank, 0, 0, 32), 0, h1)
           pad == PutHeader(Memset(cs1, 32, 0, 28), 32, h2)
           cs2 == PutHeader(Memset(pad, 64, 0, 32), 64, h3)
<1>1. ScanTestLeb = cs2
  BY DEF ScanTestLeb, ut_make_node, ut_make_pad_node, UBIFS_CS_NODE_SZ, UBIFS_PAD_NODE_SZ
<1>2. 0 \in Addr /\ 32 \in Addr /\ 64 \in Addr /\ 32 \in Nat /\ 28 \in Nat /\ 32 > 0 /\ 28 > 0
  BY Room DEF Addr
<1>3. DOMAIN Blank.hdr = {} /\ \A a \in Addr : Blank.byte[a] = 255
  BY DEF Blank
<1> HIDE DEF h1, h2, h3
<1>4. /\ cs1 = PutHeader(Memset(Blank, 0, 0, 32), 0, h1)
       /\ pad = PutHeader(Memset(cs1, 32, 0, 28), 32, h2)
       /\ cs2 = PutHeader(Memset(pad, 64, 0, 32), 64, h3)
  OBVIOUS
<1> HIDE DEF cs1, pad, cs2
<1>5. /\ DOMAIN cs1.hdr = {0} /\ cs1.hdr[0] = h1
      /\ \A a \in Addr : cs1.byte[a] = IF a = 0 THEN 49 ELSE IF a \in 0 .. 0 + 32 - 1 THEN 0 ELSE 255
  <2>1. \A q \in DOMAIN Blank.hdr : q \in Int /\ q + 24 =< 0
    BY <1>3
  <2>2. IsMade(cs1, Blank, 0, 32, h1)
    BY <1>2, <1>4, <2>1, NodeMade
  <2> QED
    BY <1>3, <2>2 DEF IsMade
<1>6. /\ DOMAIN pad.hdr = {0, 32} /\ pad.hdr[0] = h1 /\ pad.hdr[32] = h2
      /\ \A a \in Addr : pad.byte[a] = IF a = 32 THEN 49
                                       ELSE IF a \in 32 .. 32 + 28 - 1 THEN 0 ELSE cs1.byte[a]
  <2>1. \A q \in DOMAIN cs1.hdr : q \in Int /\ q + 24 =< 32
    BY <1>5
  <2>2. IsMade(pad, cs1, 32, 28, h2)
    BY <1>2, <1>4, <2>1, NodeMade
  <2> QED
    BY <1>5, <2>2 DEF IsMade
<1>7. /\ DOMAIN cs2.hdr = {0, 32, 64} /\ cs2.hdr[0] = h1 /\ cs2.hdr[32] = h2 /\ cs2.hdr[64] = h3
      /\ \A a \in Addr : cs2.byte[a] = IF a = 64 THEN 49
                                       ELSE IF a \in 64 .. 64 + 32 - 1 THEN 0 ELSE pad.byte[a]
  <2>1. \A q \in DOMAIN pad.hdr : q \in Int /\ q + 24 =< 64
    BY <1>6
  <2>2. IsMade(cs2, pad, 64, 32, h3)
    BY <1>2, <1>4, <2>1, NodeMade
  <2> QED
    BY <1>6, <2>2 DEF IsMade
<1>8. \A a \in Addr : cs2.byte[a] \in {0, 49, 255}
  BY <1>5, <1>6, <1>7
<1>9. \A a \in 96 .. LebSize - 1 : cs2.byte[a] = 255
  <2> SUFFICES ASSUME NEW a \in 96 .. LebSize - 1
               PROVE  cs2.byte[a] = 255
    OBVIOUS
  <2>1. /\ a \in Addr /\ a # 0 /\ a # 32 /\ a # 64 /\ a \notin 0 .. 0 + 32 - 1
        /\ a \notin 32 .. 32 + 28 - 1 /\ a \notin 64 .. 64 + 32 - 1
    BY Room DEF Addr
  <2> QED
    BY <2>1, <1>5, <1>6, <1>7
<1>10. cs2.byte[0] = 49 /\ cs2.byte[32] = 49 /\ cs2.byte[64] = 49
  BY <1>2, <1>5, <1>6, <1>7
<1> QED
  BY <1>1, <1>7, <1>8, <1>9, <1>10 DEF h1, h2, h3

\* What the builds see of it at each offset.
SeenAt(b, o) == scan_a_node(b, ScanTestLeb, o, LebSize - o, o)

LEMMA NodesOfScanTest ==
  ASSUME Roomy, NEW b \in Tested
  PROVE  SeenAt(b, 0) = SCANNED_A_NODE /\ SeenAt(b, 32) = 32 /\ SeenAt(b, 64) = SCANNED_A_NODE
<1> DEFINE l == ScanTestLeb
<1>1. LebSize \in Int /\ LebSize > 320 /\ LebSize + 284 =< IntMax /\ IntMax \in Nat
  BY Room
<1>2. /\ DOMAIN l.hdr = {0, 32, 64}
      /\ l.hdr[0] = SealedHeader(UBIFS_CS_NODE, 32, 11, 0)
      /\ l.hdr[32] = SealedHeader(UBIFS_PAD_NODE, 28, 12, 4)
      /\ l.hdr[64] = SealedHeader(UBIFS_CS_NODE, 32, 13, 0)
      /\ l.byte[0] = 49 /\ l.byte[32] = 49 /\ l.byte[64] = 49
  BY ScanTestFlash
<1> HIDE DEF l
<1>3. ASSUME NEW o \in {0, 32, 64}
      PROVE  ~AllFF(l, o, o + 4)
  <2>1. o \in o .. o + 4 - 1
    OBVIOUS
  <2> QED
    BY <1>2, <2>1 DEF AllFF
<1>4. ASSUME NEW o \in {0, 64}
      PROVE  scan_a_node(b, l, o, LebSize - o, o) = SCANNED_A_NODE
  <2> DEFINE n == LebSize - o
             h == l.hdr[o]
  <2>1. n \in Int /\ n >= 32
    BY <1>1
  <2>2. /\ o \in DOMAIN l.hdr /\ h.len = 32 /\ h.type # UBIFS_PAD_NODE
        /\ h.crc = ut_crc32(h)
    BY <1>2 DEF SealedHeader, ut_crc32, UBIFS_CS_NODE, UBIFS_PAD_NODE
  <2> HIDE DEF n
  <2>3. ~ubifs_check_node(l, o, n) /\ ~(n < UBIFS_CH_SZ)
    BY <2>1, <2>2 DEF ubifs_check_node, UBIFS_CH_SZ
  <2>4. ~ReachesPadNode(l, o, n) /\ ~ReachesPaddingBytes(l, o)
    BY <2>2 DEF ReachesPadNode, ReachesPaddingBytes
  <2>5. scan_a_node(b, l, o, n, o) = ubifs_scan_a_node(l, o, n, o)
    BY <2>4, ZenonT(60) DEF scan_a_node
  <2>6. ubifs_scan_a_node(l, o, n, o) = SCANNED_A_NODE
    BY <1>3, <2>2, <2>3, ZenonT(60) DEF ubifs_scan_a_node
  <2> QED
    BY <2>5, <2>6 DEF n
<1>5. scan_a_node(b, l, 32, LebSize - 32, 32) = 32
  <2> DEFINE n == LebSize - 32
  <2>1. /\ n \in Int /\ n >= 28 /\ 4 \in Int /\ 32 \in Nat /\ 4 =< LebSize
        /\ 32 + 28 + 4 =< IntMax /\ 4 >= -(IntMax + 1)
        /\ PadNodeAt(l, 32, 12, 4)
    BY <1>1, <1>2, <1>3 DEF PadNodeAt
  <2> HIDE DEF n
  <2>2. scan_a_node(b, l, 32, n, 32) =
          IF \/ 4 < 0
             \/ 32 + 28 + 4 > LebSize
             \/ 32 + 28 + 4 = LebSize /\ b = "ge"
             \/ (28 + 4) % (IF b = "and3" THEN 4 ELSE 8) # 0
          THEN SCANNED_A_BAD_PAD_NODE ELSE 28 + 4
    BY <2>1, PadNodeSeen DEF PadVerdict
  <2>3. /\ ~(4 < 0) /\ ~(32 + 28 + 4 > LebSize) /\ 32 + 28 + 4 # LebSize
        /\ (28 + 4) % 4 = 0 /\ (28 + 4) % 8 = 0 /\ 28 + 4 = 32
    BY <1>1
  <2> QED
    BY <2>2, <2>3 DEF n
<1> QED
  BY <1>4, <1>5 DEF SeenAt, l

\* Between the nodes there is nothing to skip, and behind them nothing at all.
LEMMA RestOfScanTest ==
  ASSUME Roomy, NEW b \in Tested, NEW o \in 0 .. LebSize - 8, o \notin {0, 32, 64}
  PROVE  /\ SeenAt(b, o) \in {SCANNED_EMPTY_SPACE, SCANNED_GARBAGE}
         /\ o >= 96 => SeenAt(b, o) = SCANNED_EMPTY_SPACE
<1> DEFINE l == ScanTestLeb
           n == LebSize - o
<1>1. LebSize \in Int /\ LebSize > 320 /\ o \in Int /\ 0 =< o /\ o =< LebSize - 8 /\ n \in Int
  BY Room
<1>2. /\ DOMAIN l.hdr = {0, 32, 64}
      /\ \A a \in Addr : l.byte[a] \in {0, 49, 255}
      /\ \A a \in 96 .. LebSize - 1 : l.byte[a] = 255
  BY ScanTestFlash
<1> HIDE DEF l, n
<1>3. CASE AllFF(l, o, o + 4)
  <2>1. o \notin DOMAIN l.hdr
    BY <1>2
  <2> QED
    BY <1>3, <2>1, ErasedIsEmpty DEF SeenAt, l
<1>4. CASE ~AllFF(l, o, o + 4)
  <2>1. o < 96
    BY <1>1, <1>2, <1>4 DEF AllFF
  <2>2. n >= 28 /\ o \notin DOMAIN l.hdr
    BY <1>1, <1>2, <2>1 DEF n
  <2>3. \A i \in 0 .. 27 : l.byte[o + i] # 206
    <3> SUFFICES ASSUME NEW i \in 0 .. 27
                 PROVE  l.byte[o + i] # 206
      OBVIOUS
    <3>1. o + i \in Addr
      BY <1>1, <2>1 DEF Addr
    <3> QED
      BY <1>2, <3>1
  <2>4. l.byte[o + 0] # 206 /\ 0 \in 0 .. 27
    BY <2>3
  <2>5. scan_padding_bytes(l, o, n) = SCANNED_GARBAGE
    BY <1>1, <2>2, <2>4, PaddingCounted
  <2>6. EditedPaddingBytes(l, o, n) = SCANNED_GARBAGE
    BY <1>1, <2>2, <2>3, NeqGoesOn
  <2>7. scan_a_node(b, l, o, n, o) = SCANNED_GARBAGE
    <3>1. scan_a_node(b, l, o, n, o) =
            IF b = "neq" THEN EditedPaddingBytes(l, o, n) ELSE scan_padding_bytes(l, o, n)
      BY <1>4, <2>2, RawIsCounted
    <3> QED
      BY <2>5, <2>6, <3>1, Zenon
  <2> QED
    BY <1>1, <2>1, <2>7 DEF SeenAt, l, n
<1> QED
  BY <1>3, <1>4

\* Two elements in a row, and a record with one field replaced.
LEMMA Pair ==
  ASSUME NEW x \in Int, NEW y \in Int
  PROVE  <<x>> \o <<y>> = <<x, y>>
<1> DEFINE s == <<x>> \o <<y>>
           t == <<x, y>>
<1>1. s \in Seq(Int) /\ Len(s) = 2 /\ s[1] = x /\ s[2] = y
  OBVIOUS
<1>2. t \in Seq(Int) /\ Len(t) = 2 /\ t[1] = x /\ t[2] = y
  OBVIOUS
<1> HIDE DEF s, t
<1>3. \A i \in 1 .. Len(s) : s[i] = t[i]
  BY <1>1, <1>2
<1>4. s = t
  BY <1>1, <1>2, <1>3, SeqEqual
<1> QED
  BY <1>4 DEF s, t

LEMMA NodesReplaced ==
  ASSUME NEW k, NEW s, NEW t, NEW e
  PROVE  [[ok |-> k, nodes |-> s, endpt |-> e] EXCEPT !.nodes = t]
           = [ok |-> k, nodes |-> t, endpt |-> e]
<1> DEFINE p == [[ok |-> k, nodes |-> s, endpt |-> e] EXCEPT !.nodes = t]
           q == [ok |-> k, nodes |-> t, endpt |-> e]
<1>1. DOMAIN p = {"ok", "nodes", "endpt"} /\ DOMAIN q = {"ok", "nodes", "endpt"}
  OBVIOUS
<1>2. p.ok = q.ok /\ p.nodes = q.nodes /\ p.endpt = q.endpt
  OBVIOUS
<1>3. p = [x \in DOMAIN p |-> p[x]] /\ q = [x \in DOMAIN q |-> q[x]]
  OBVIOUS
<1> HIDE DEF p, q
<1>4. \A x \in DOMAIN p : p[x] = q[x]
  BY <1>1, <1>2
<1>5. p = q
  BY <1>1, <1>3, <1>4
<1> QED
  BY <1>5 DEF p, q

\* The scan of the test finds the two nodes, in every build.
LEMMA ScanTestFinds ==
  ASSUME Roomy, NEW b \in Tested
  PROVE  Collected(b, ScanTestLeb) = [ok |-> TRUE, nodes |-> <<0, 64>>, endpt |-> 96]
<1> DEFINE l == ScanTestLeb
           F(scan, o) == CollectedFrom(b, l, scan, o)
           Empty(o) == [ok |-> o % MinIoSize = 0 /\ AllFF(l, o, LebSize), nodes |-> <<>>, endpt |-> o]
           Then(r, o) == [r EXCEPT !.nodes = <<o>> \o @]
           Bad == [ok |-> FALSE, nodes |-> <<>>, endpt |-> 0]
<1>1. LebSize \in Int /\ LebSize > 320
  BY Room
<1>2. /\ l.hdr[0].len = 32 /\ l.hdr[64].len = 32
      /\ \A a \in 96 .. LebSize - 1 : l.byte[a] = 255
  BY ScanTestFlash DEF SealedHeader
<1>3. /\ 0 + ALIGN(32, 8) = 32 /\ 64 + ALIGN(32, 8) = 96 /\ 32 + 32 = 64
      /\ SCANNED_EMPTY_SPACE = -1 /\ SCANNED_A_NODE = -2 /\ SCANNED_GARBAGE = 0
  BY DEF ALIGN, SCANNED_EMPTY_SPACE, SCANNED_A_NODE, SCANNED_GARBAGE
<1> HIDE DEF l
<1>4. ASSUME NEW scan
      PROVE  /\ F(scan, 0) = Then(scan[32], 0)
             /\ F(scan, 32) = scan[64]
             /\ F(scan, 64) = Then(scan[96], 64)
  <2>1. SeenAt(b, 0) = -2 /\ SeenAt(b, 32) = 32 /\ SeenAt(b, 64) = -2
    BY <1>3, NodesOfScanTest
  <2>2. ~(LebSize - 0 < 8) /\ ~(LebSize - 32 < 8) /\ ~(LebSize - 64 < 8) /\ 32 \in 1 .. LebSize - 32
    BY <1>1
  <2>3. /\ scan_a_node(b, l, 0, LebSize - 0, 0) = -2
        /\ scan_a_node(b, l, 32, LebSize - 32, 32) = 32
        /\ scan_a_node(b, l, 64, LebSize - 64, 64) = -2
    BY <2>1 DEF SeenAt, l
  <2>4. ASSUME NEW o \in {0, 64}
        PROVE  F(scan, o) = Then(scan[o + 32], o)
    <3> DEFINE n == scan_a_node(b, l, o, LebSize - o, o)
               rest == scan[o + ALIGN(l.hdr[o].len, 8)]
    <3>1. n = -2 /\ ~(LebSize - o < 8)
      BY <2>2, <2>3
    <3>2. rest = scan[o + 32]
      BY <1>2, <1>3
    <3>3. F(scan, o) =
            CASE n = SCANNED_EMPTY_SPACE ->
                   [ok |-> o % MinIoSize = 0 /\ AllFF(l, o, LebSize),
                    nodes |-> <<>>, endpt |-> o]
              [] n = SCANNED_A_NODE      -> Then(rest, o)
              [] n \in 1 .. LebSize - o  -> scan[o + n]
              [] OTHER                   -> Bad
      BY <3>1, Zenon DEF CollectedFrom
    <3> HIDE DEF n, rest, Then, Bad
    <3>4. F(scan, o) = Then(rest, o)
      <4> HIDE DEF F
      <4> QED
        BY <1>3, <3>1, <3>3
    <3> QED
      BY <3>2, <3>4
  <2>5. F(scan, 32) = scan[64]
    BY <1>3, <2>2, <2>3 DEF CollectedFrom
  <2> HIDE DEF F, Then
  <2> QED
    BY <1>3, <2>4, <2>5
<1>5. ASSUME NEW scan, NEW o \in 0 .. LebSize, o \notin {0, 32, 64}
      PROVE  /\ F(scan, o) \in {Empty(o), Bad}
             /\ F(scan, o) = F(<<>>, o)
             /\ o >= 96 => F(scan, o) = Empty(o)
  <2> DEFINE n == IF LebSize - o < 8 THEN SCANNED_EMPTY_SPACE
                  ELSE scan_a_node(b, l, o, LebSize - o, o)
  <2>1. n \in {-1, 0} /\ (o >= 96 => n = -1)
    <3>1. CASE LebSize - o < 8
      BY <1>3, <3>1
    <3>2. CASE ~(LebSize - o < 8)
      <4>1. o \in 0 .. LebSize - 8
        BY <1>1, <3>2
      <4> QED
        BY <1>3, <1>5, <3>2, <4>1, RestOfScanTest DEF SeenAt, l
    <3> QED
      BY <3>1, <3>2
  <2>2. n = -1 => F(scan, o) = Empty(o) /\ F(<<>>, o) = Empty(o)
    BY <1>3, SMTT(30) DEF CollectedFrom
  <2>3. n = 0 => F(scan, o) = Bad /\ F(<<>>, o) = Bad
    BY <1>1, <1>3 DEF CollectedFrom
  <2> HIDE DEF n, F, Empty, Bad
  <2> QED
    BY <2>1, <2>2, <2>3
<1> DEFINE r64 == Then(F(<<>>, 96), 64)
           g   == [o \in 0 .. LebSize |->
                     IF o = 0 THEN Then(r64, 0)
                     ELSE IF o \in {32, 64} THEN r64 ELSE F(<<>>, o)]
           S   == CHOOSE scan : scan = [o \in 0 .. LebSize |-> F(scan, o)]
<1>6. Collected(b, l) = S[0]
  BY DEF Collected
<1> HIDE DEF F, Then
<1>7. g = [o \in 0 .. LebSize |-> F(g, o)]
  <2>1. /\ 0 \in 0 .. LebSize /\ 32 \in 0 .. LebSize /\ 64 \in 0 .. LebSize /\ 96 \in 0 .. LebSize
        /\ 96 \notin {0, 32, 64}
    BY <1>1
  <2>2. /\ g[0] = Then(r64, 0) /\ g[32] = r64 /\ g[64] = r64
        /\ r64 = Then(F(<<>>, 96), 64) /\ g[96] = F(<<>>, 96)
    BY <2>1
  <2>3. g[0] = F(g, 0) /\ g[32] = F(g, 32) /\ g[64] = F(g, 64)
    <3> HIDE DEF g, r64
    <3>1. F(g, 0) = Then(g[32], 0) /\ F(g, 32) = g[64] /\ F(g, 64) = Then(g[96], 64)
      BY <1>4
    <3> QED
      BY <2>2, <3>1
  <2>4. \A o \in 0 .. LebSize : o \notin {0, 32, 64} => g[o] = F(g, o)
    BY <1>5
  <2>5. g = [o \in 0 .. LebSize |-> g[o]]
    OBVIOUS
  <2> HIDE DEF g
  <2>6. \A o \in 0 .. LebSize : g[o] = F(g, o)
    BY <2>3, <2>4
  <2> QED
    BY <2>5, <2>6
<1>8. S = [o \in 0 .. LebSize |-> F(S, o)]
  <2> HIDE DEF g
  <2> QED
    BY <1>7
<1> HIDE DEF S, g
<1>9. S[96] = [ok |-> TRUE, nodes |-> <<>>, endpt |-> 96]
  <2>1. 96 \in 0 .. LebSize /\ 96 \notin {0, 32, 64} /\ 96 >= 96
    BY <1>1
  <2>2. S[96] = F(S, 96)
    BY <1>8, <2>1
  <2>3. F(S, 96) = Empty(96)
    <3> HIDE DEF Empty
    <3> QED
      BY <1>5, <2>1
  <2>4. 96 % MinIoSize = 0
    BY DEF Roomy
  <2>5. AllFF(l, 96, LebSize)
    BY <1>2 DEF AllFF
  <2> QED
    BY <2>2, <2>3, <2>4, <2>5
<1>10. S[64] = Then(S[96], 64) /\ S[32] = S[64] /\ S[0] = Then(S[32], 0)
  <2>1. 0 \in 0 .. LebSize /\ 32 \in 0 .. LebSize /\ 64 \in 0 .. LebSize
    BY <1>1
  <2>2. S[0] = F(S, 0) /\ S[32] = F(S, 32) /\ S[64] = F(S, 64)
    BY <1>8, <2>1
  <2> QED
    BY <1>4, <2>2
<1>11. Then([ok |-> TRUE, nodes |-> <<>>, endpt |-> 96], 64)
         = [ok |-> TRUE, nodes |-> <<64>>, endpt |-> 96]
  <2> DEFINE s == <<64>> \o <<>>
  <2>1. s = <<64>>
    OBVIOUS
  <2>2. Then([ok |-> TRUE, nodes |-> <<>>, endpt |-> 96], 64)
          = [[ok |-> TRUE, nodes |-> <<>>, endpt |-> 96] EXCEPT !.nodes = s]
    BY DEF Then
  <2> HIDE DEF s
  <2> QED
    BY <2>1, <2>2, NodesReplaced, ZenonT(60)
<1>12. Then([ok |-> TRUE, nodes |-> <<64>>, endpt |-> 96], 0)
         = [ok |-> TRUE, nodes |-> <<0, 64>>, endpt |-> 96]
  <2> DEFINE s == <<0>> \o <<64>>
  <2>1. s = <<0, 64>>
    BY Pair
  <2>2. Then([ok |-> TRUE, nodes |-> <<64>>, endpt |-> 96], 0)
          = [[ok |-> TRUE, nodes |-> <<64>>, endpt |-> 96] EXCEPT !.nodes = s]
    BY DEF Then
  <2> HIDE DEF s
  <2> QED
    BY <2>1, <2>2, NodesReplaced, ZenonT(60)
<1>13. S[0] = [ok |-> TRUE, nodes |-> <<0, 64>>, endpt |-> 96]
  BY <1>9, <1>10, <1>11, <1>12
<1> QED
  BY <1>6, <1>13 DEF l

\* Lists of checks that hold, one behind the other.
AllHold(s, n) == s \in Seq(BOOLEAN) /\ Len(s) = n /\ \A k \in 1 .. n : s[k]

LEMMA HoldTogether ==
  ASSUME NEW s, NEW t, NEW m \in Nat, NEW n \in Nat, AllHold(s, m), AllHold(t, n)
  PROVE  AllHold(s \o t, m + n)
<1> DEFINE r == s \o t
<1>1. /\ s \in Seq(BOOLEAN) /\ Len(s) = m /\ \A k \in 1 .. m : s[k]
      /\ t \in Seq(BOOLEAN) /\ Len(t) = n /\ \A k \in 1 .. n : t[k]
  BY DEF AllHold
<1>2. /\ r \in Seq(BOOLEAN) /\ Len(r) = m + n
      /\ \A k \in 1 .. m + n : r[k] = IF k =< m THEN s[k] ELSE t[k - m]
  BY <1>1, ConcatProperties
<1> HIDE DEF r
<1>3. ASSUME NEW k \in 1 .. m + n
      PROVE  r[k]
  <2>1. CASE k =< m
    <3>1. k \in 1 .. m /\ r[k] = s[k]
      BY <1>2, <2>1
    <3> QED
      BY <1>1, <3>1, Zenon
  <2>2. CASE ~(k =< m)
    <3>1. k - m \in 1 .. n /\ r[k] = t[k - m]
      BY <1>2, <2>2
    <3> QED
      BY <1>1, <3>1, Zenon
  <2> QED
    BY <2>1, <2>2
<1> QED
  BY <1>2, <1>3 DEF AllHold, r

\* So all nine checks of that test hold.
LEMMA ScanTestPasses ==
  ASSUME Roomy, NEW b \in Tested
  PROVE  Len(ScanTestChecks(b)) = 9 /\ \A k \in 1 .. 9 : ScanTestChecks(b)[k]
<1> DEFINE found == Collected(b, ScanTestLeb)
           head  == <<TRUE, TRUE, Len(found.nodes) = 2, FirstIsCsNode(found)>>
           node1 == NodeChecks(found, 1, 0, 11)
           node2 == NodeChecks(found, 2, 64, 13)
           last  == <<found.endpt = 64 + UBIFS_CS_NODE_SZ>>
           pass2 == <<TRUE, TRUE>>
           pass4 == <<TRUE, TRUE, TRUE, TRUE>>
<1>1. /\ ScanTestLeb.hdr[0].type = UBIFS_CS_NODE
      /\ ScanTestLeb.hdr[0].sqnum = 11 /\ ScanTestLeb.hdr[64].sqnum = 13
  BY ScanTestFlash DEF SealedHeader
<1>2. found.ok = TRUE /\ found.nodes = <<0, 64>> /\ found.endpt = 96
  BY ScanTestFinds
<1>3. /\ Len(found.nodes) = 2 /\ found.nodes # <<>>
      /\ found.nodes[1] = 0 /\ found.nodes[2] = 64
  BY <1>2
<1>4. ScanTestChecks(b) = head \o node1 \o node2 \o last
  BY <1>2, Zenon DEF ScanTestChecks
<1> HIDE DEF found
<1>5. head = pass4
  <2>1. (Len(found.nodes) = 2) = TRUE /\ FirstIsCsNode(found) = TRUE
    BY <1>1, <1>3 DEF FirstIsCsNode
  <2> QED
    BY <2>1, Zenon
<1>6. node1 = pass2 /\ node2 = pass2
  <2>1. ~(1 > 2) /\ ~(2 > 2)
    OBVIOUS
  <2>2. /\ (found.nodes[1] = 0) = TRUE /\ (ScanTestLeb.hdr[found.nodes[1]].sqnum = 11) = TRUE
        /\ (found.nodes[2] = 64) = TRUE /\ (ScanTestLeb.hdr[found.nodes[2]].sqnum = 13) = TRUE
    BY <1>1, <1>3
  <2> QED
    BY <1>3, <2>1, <2>2, Zenon DEF NodeChecks
<1>7. last = <<TRUE>>
  <2>1. (found.endpt = 64 + UBIFS_CS_NODE_SZ) = TRUE
    BY <1>2 DEF UBIFS_CS_NODE_SZ
  <2> QED
    BY <2>1, Zenon
<1>8. ScanTestChecks(b) = pass4 \o pass2 \o pass2 \o <<TRUE>>
  <2> HIDE DEF head, node1, node2, last, pass2, pass4
  <2> QED
    BY <1>4, <1>5, <1>6, <1>7
<1> DEFINE all == pass4 \o pass2 \o pass2 \o <<TRUE>>
<1>9. AllHold(all, 9)
  <2> DEFINE one == <<TRUE>>
  <2>1. AllHold(pass4, 4) /\ AllHold(pass2, 2) /\ AllHold(one, 1)
    BY DEF AllHold
  <2> HIDE DEF pass4, pass2, one
  <2>2. AllHold(pass4 \o pass2, 4 + 2)
    BY <2>1, HoldTogether
  <2>3. AllHold(pass4 \o pass2 \o pass2, 6 + 2)
    BY <2>1, <2>2, HoldTogether
  <2>4. AllHold(pass4 \o pass2 \o pass2 \o one, 8 + 1)
    BY <2>1, <2>3, HoldTogether
  <2> QED
    BY <2>4 DEF one
<1> HIDE DEF all
<1> QED
  BY <1>8, <1>9 DEF all, AllHold

\* What running the i-th test in a build does: how many checks, and whether
\* any of them fails.
LEMMA Outcome ==
  ASSUME Roomy, NEW b \in Tested, NEW i \in 1 .. Tests
  PROVE  /\ Len(Checks(b, i)) = IF i = Tests THEN 9 ELSE 1
         /\ {k \in DOMAIN Checks(b, i) : ~Checks(b, i)[k]} = {} <=> ~AimedAt(b, TestName(i))
<1>1. Tests = 14
  BY CallTestsAre DEF Tests
<1>2. CASE i = Tests
  <2> DEFINE checks == Checks(b, i)
  <2>1. checks = ScanTestChecks(b) /\ TestName(i) = ScanTest
    BY <1>2 DEF Checks, TestName
  <2>2. Len(checks) = 9 /\ \A k \in 1 .. 9 : checks[k]
    BY <2>1, ScanTestPasses
  <2>3. DOMAIN checks = 1 .. 9
    BY <2>2, ChecksAreListed
  <2>4. ~AimedAt(b, ScanTest)
    BY Aims DEF AimedAt, ScanTest
  <2> HIDE DEF checks
  <2>5. {k \in DOMAIN checks : ~checks[k]} = {}
    BY <2>2, <2>3
  <2> QED
    BY <1>2, <2>1, <2>2, <2>4, <2>5 DEF checks
<1>3. CASE i # Tests
  <2> DEFINE checks == Checks(b, i)
             met    == AimedAt(b, TestName(i))
  <2>1. checks = <<~met>>
    BY <1>1, <1>3, CallTestsTell
  <2> HIDE DEF checks, met
  <2>2. Len(checks) = 1 /\ DOMAIN checks = {1} /\ (checks[1] <=> ~met)
    <3>1. \A x \in BOOLEAN : Len(<<x>>) = 1 /\ DOMAIN <<x>> = {1} /\ <<x>>[1] = x
      OBVIOUS
    <3>2. (~met) \in BOOLEAN
      OBVIOUS
    <3>3. Len(checks) = 1 /\ DOMAIN checks = {1} /\ checks[1] = ~met
      BY <2>1, <3>1, <3>2, Zenon
    <3> QED
      BY <3>3, Zenon
  <2>3. {k \in DOMAIN checks : ~checks[k]} = {} <=> ~met
    BY <2>2
  <2> QED
    BY <1>3, <2>2, <2>3 DEF checks, met
<1> QED
  BY <1>2, <1>3

-----------------------------------------------------------------------------
(***************************************************************************)
(* The inductive invariant of the suite: in a build of the Makefile, the   *)
(* tests that have failed so far are those aimed at it, and the checks     *)
(* made so far are one for each test, nine for the last.                   *)
(***************************************************************************)
AimsMet(b, n) == {TestName(i) : i \in {j \in 1 .. n : AimedAt(b, TestName(j))}}

SuiteInv ==
  Running /\ build \in Tested =>
    /\ test \in 1 .. Tests + 1
    /\ build \in DOMAIN failed
    /\ failed[build] = AimsMet(build, test - 1)
    /\ ut_checks = IF test =< Tests THEN test - 1 ELSE 22

LEMMA SuiteStep == ASSUME Roomy PROVE SuiteInv /\ [Next]_vars => SuiteInv'
<1> SUFFICES ASSUME SuiteInv, [Next]_vars PROVE SuiteInv'
  OBVIOUS
<1>1. Tests = 14
  BY CallTestsAre DEF Tests
<1>2. ASSUME NEW b, NEW earlier, Launch(b, earlier)
      PROVE  SuiteInv'
  <2>1. AimsMet(b, 0) = {}
    BY DEF AimsMet
  <2>2. /\ build' = b /\ test' = 1 /\ ut_checks' = 0
        /\ b \in DOMAIN failed' /\ failed'[b] = {}
    BY <1>2 DEF Launch
  <2> QED
    BY <1>1, <2>1, <2>2 DEF SuiteInv
<1>3. CASE MakeVerify
  BY <1>2, <1>3 DEF MakeVerify
<1>4. CASE RunTest
  <2> SUFFICES ASSUME build \in Tested PROVE SuiteInv'
    BY <1>4 DEF RunTest, SuiteInv
  <2> DEFINE checks == Checks(build, test)
             wrong  == {i \in DOMAIN checks : ~checks[i]}
             met    == AimedAt(build, TestName(test))
  <2>1. /\ pc = "tests" /\ test =< Tests /\ test' = test + 1 /\ build' = build
        /\ ut_checks' = ut_checks + Len(checks)
        /\ failed' = IF wrong = {} THEN failed
                     ELSE [failed EXCEPT ![build] = @ \cup {TestName(test)}]
    BY <1>4 DEF RunTest
  <2>2. /\ test \in 1 .. Tests /\ build \in DOMAIN failed
        /\ failed[build] = AimsMet(build, test - 1) /\ ut_checks = test - 1
    BY <1>1, <2>1 DEF SuiteInv, Running
  <2>3. Len(checks) = (IF test = Tests THEN 9 ELSE 1) /\ (wrong = {} <=> ~met)
    BY <2>2, Outcome
  <2>4. AimsMet(build, test) =
          IF met THEN AimsMet(build, test - 1) \cup {TestName(test)}
          ELSE AimsMet(build, test - 1)
    <3>1. 1 .. test = (1 .. test - 1) \cup {test}
      BY <1>1, <2>2
    <3> QED
      BY <3>1 DEF AimsMet
  <2> HIDE DEF checks, wrong, met
  <2>5. build \in DOMAIN failed' /\ failed'[build] = AimsMet(build, test)
    BY <2>1, <2>2, <2>3, <2>4
  <2>6. ut_checks' = IF test + 1 =< Tests THEN test ELSE 22
    BY <1>1, <2>1, <2>2, <2>3
  <2>7. test' \in 1 .. Tests + 1 /\ test' - 1 = test
    BY <1>1, <2>1, <2>2
  <2> QED
    BY <2>1, <2>5, <2>6, <2>7 DEF SuiteInv
<1>5. CASE Exit
  BY <1>5 DEF Exit, SuiteInv, Running
<1>6. CASE RunMutant
  BY <1>2, <1>6 DEF RunMutant
<1>7. CASE MutantDoesNotCompile
  BY <1>7 DEF MutantDoesNotCompile, SuiteInv, Running
<1>8. CASE Report
  BY <1>8 DEF Report, SuiteInv, Running
<1>9. CASE UNCHANGED vars
  BY <1>9 DEF vars, program, SuiteInv, Running
<1> QED
  BY <1>3, <1>4, <1>5, <1>6, <1>7, <1>8, <1>9 DEF Next

LEMMA SuiteInit == Init => SuiteInv
BY DEF Init, SuiteInv, Running

\* A build has met its aim when the suite is through, and the code has none.
LEMMA AllAimsMet ==
  /\ AimsMet("scan.c", Tests) = {}
  /\ \A m \in DOMAIN Aim : AimsMet(m, Tests) = {Aim[m]}
<1>1. Tests = 14
  BY CallTestsAre DEF Tests
<1>2. AimsMet("scan.c", Tests) = {}
  BY Aims DEF AimsMet, AimedAt
<1>3. \A m \in DOMAIN Aim : \E i \in 1 .. Tests : TestName(i) = Aim[m]
  <2>1. /\ TestName(2) = "raw_padding_bytes"
        /\ TestName(10) = "pad_node_36_bytes_is_misaligned"
        /\ TestName(11) = "pad_node_ends_exactly_at_leb_end"
    BY <1>1, CallTestsAre DEF TestName, Call, EndsExactlyAtLebEnd
  <2>2. 2 \in 1 .. Tests /\ 10 \in 1 .. Tests /\ 11 \in 1 .. Tests
    BY <1>1
  <2> QED
    BY <2>1, <2>2, Aims
<1>4. \A m \in DOMAIN Aim : AimsMet(m, Tests) = {Aim[m]}
  BY <1>3 DEF AimsMet, AimedAt
<1> QED
  BY <1>2, <1>4

(***************************************************************************)
(* The code as it stands passes all 22 checks of its suite, on every       *)
(* geometry and every width of int that hold the offsets of the tests.     *)
(***************************************************************************)
THEOREM TestsPass == ASSUME Roomy PROVE Spec => []CodePassesItsTests
<1>1. VerifyInv /\ SuiteInv => CodePassesItsTests
  <2> SUFFICES ASSUME VerifyInv, SuiteInv, Finished("scan.c")
               PROVE  ut_checks = 22 /\ ut_failures = 0
    BY DEF CodePassesItsTests
  <2>1. Tests = 14
    BY CallTestsAre DEF Tests
  <2>2. Running /\ build = "scan.c" /\ build \in Tested /\ test > Tests
    BY DEF Finished, Running, Tested
  <2>3. /\ test \in 1 .. Tests + 1 /\ failed[build] = AimsMet(build, test - 1)
        /\ ut_checks = IF test =< Tests THEN test - 1 ELSE 22
    BY <2>2 DEF SuiteInv
  <2>4. test - 1 = Tests /\ ~(test =< Tests)
    BY <2>1, <2>2, <2>3
  <2>5. failed[build] = {}
    BY <2>2, <2>3, <2>4, AllAimsMet
  <2>6. ut_failures = 0
    BY <2>2, <2>5 DEF VerifyInv, CounterAgrees
  <2> QED
    BY <2>3, <2>4, <2>6
<1> QED
  BY <1>1, VerifyInit, VerifyStep, SuiteInit, SuiteStep, PTL DEF Spec

(***************************************************************************)
(* On the same geometries each regression the Makefile injects fails the   *)
(* test written against it and no other test of the suite.                 *)
(***************************************************************************)
THEOREM AimCorrect == ASSUME Roomy PROVE Spec => []CaughtByItsTest
<1>1. SuiteInv => CaughtByItsTest
  <2> SUFFICES ASSUME SuiteInv, NEW m \in DOMAIN Aim, Finished(m)
               PROVE  failed[m] = {Aim[m]}
    BY DEF CaughtByItsTest
  <2>1. Tests = 14
    BY CallTestsAre DEF Tests
  <2>2. Running /\ build = m /\ build \in Tested /\ test > Tests
    BY Aims DEF Finished, Running, Tested
  <2>3. test \in 1 .. Tests + 1 /\ failed[build] = AimsMet(build, test - 1)
    BY <2>2 DEF SuiteInv
  <2>4. test - 1 = Tests
    BY <2>1, <2>2, <2>3
  <2> QED
    BY <2>2, <2>3, <2>4, AllAimsMet
<1> QED
  BY <1>1, SuiteInit, SuiteStep, PTL DEF Spec
=============================================================================
