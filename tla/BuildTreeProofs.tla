-------------------------- MODULE BuildTreeProofs ---------------------------
(***************************************************************************)
(* Theorem about BuildTree: with sources that change at any time but while *)
(* they are compiled, whatever fails, is interrupted or killed.            *)
(***************************************************************************)
EXTENDS BuildTree, Integers, SequenceTheorems, TLAPS

\* Make has been through with target t.
Done(t) == \A i \in 1 .. Len(todo) : todo[i] # t

TypeInv ==
  /\ pc \in {"idle", "make", "build"}
  /\ todo \in Seq(Targets)
  /\ todo # <<>> => todo[Len(todo)] = BIN
  /\ pc = "build" => todo # <<>>
  /\ newer \in [Targets -> SUBSET (Inputs \cup Objects)]
  /\ behind \in [Targets -> SUBSET Inputs]
  /\ pc # "idle" => verdict = "none"

\* What an object lacks, make can see.
ObjectsInv ==
  /\ \A o \in Objects : behind[o] \subseteq newer[o]
  /\ (pc = "build" /\ Target \in Objects) => behind[Target] = {}

Accounted(i) == \E o \in Objects : i \in newer[o] \/ o \in newer[BIN] \/ o \notin exists

\* What the binary lacks, make can see, in the binary or in an object of it.
BinaryInv ==
  /\ BIN \in exists => \A i \in behind[BIN] : Accounted(i)
  /\ (pc = "build" /\ Target = BIN) => \A i \in behind[BIN] : \E o \in Objects : i \in newer[o]

\* What make has been through is up to date.
ProgressInv ==
  (pc # "idle" /\ ~edited) =>
    \A t \in Targets : Done(t) => t \in exists /\ newer[t] = {}

TreeInv == TypeInv /\ ObjectsInv /\ BinaryInv /\ ProgressInv /\ PassIsOfInputs

-----------------------------------------------------------------------------
\* The rules name everything that is read, but for the flags.
LEMMA Rules ==
  /\ BIN \notin Objects /\ Targets = Objects \cup {BIN}
  /\ Objects \cap Inputs = {} /\ BIN \notin Inputs
  /\ Prerequisites[BIN] = Objects
  /\ \A o \in Objects : Prerequisites[o] = Reads[o] \cap Sources
BY DEF BIN, Objects, Targets, Inputs, Sources, Prerequisites, Reads

LEMMA WrittenObject ==
  ASSUME TypeInv, NEW o \in Objects, Written(o)
  PROVE  /\ newer' \in [Targets -> SUBSET (Inputs \cup Objects)]
         /\ newer'[o] = {} /\ newer'[BIN] = newer[BIN] \cup {o}
         /\ \A p \in Objects : p # o => newer'[p] = newer[p]
         /\ exists' = exists \cup {o}
<1>1. \A p \in Objects : Prerequisites[p] \cap {o} = {}
  BY Rules DEF Inputs
<1>2. newer' = [p \in Targets |-> IF p = o THEN {} ELSE newer[p] \cup (Prerequisites[p] \cap {o})]
  BY DEF Written
<1> QED
  BY <1>1, <1>2, Rules DEF TypeInv, Written

LEMMA WrittenBinary ==
  ASSUME TypeInv, Written(BIN)
  PROVE  /\ newer' \in [Targets -> SUBSET (Inputs \cup Objects)]
         /\ newer'[BIN] = {} /\ \A p \in Objects : newer'[p] = newer[p]
         /\ exists' = exists \cup {BIN}
<1>1. \A p \in Objects : Prerequisites[p] \cap {BIN} = {}
  BY Rules DEF Inputs
<1>2. newer' = [p \in Targets |->
                  IF p = BIN THEN {} ELSE newer[p] \cup (Prerequisites[p] \cap {BIN})]
  BY DEF Written
<1> QED
  BY <1>1, <1>2, Rules DEF TypeInv, Written

\* Going on to the next target.
LEMMA Onward ==
  ASSUME TypeInv, todo # <<>>, todo' = Tail(todo)
  PROVE  /\ Target \in Targets
         /\ todo' \in Seq(Targets) /\ (todo' # <<>> => todo'[Len(todo')] = BIN)
         /\ Target \in Objects => ~Done(BIN)'
         /\ \A t : Done(t)' => t = Target \/ Done(t)
         /\ \A t : Done(t) => t # Target
<1>1. Len(todo) \in Nat \ {0} /\ Target = todo[1] /\ todo[1] \in Targets
  BY DEF TypeInv, Target
<1>2. Len(todo') = Len(todo) - 1 /\ \A i \in 1 .. Len(todo') : todo'[i] = todo[i + 1]
  BY DEF TypeInv
<1>3. todo' \in Seq(Targets)
  BY DEF TypeInv
<1>4. ASSUME todo' # <<>> PROVE todo'[Len(todo')] = BIN
  <2>1. Len(todo') \in Nat \ {0}
    BY <1>3, <1>4
  <2> QED
    BY <1>1, <1>2, <2>1 DEF TypeInv
<1>5. ASSUME Target \in Objects PROVE ~Done(BIN)'
  <2>1. Len(todo) # 1
    BY <1>1, <1>5, Rules DEF TypeInv
  <2>2. Len(todo') \in Nat /\ Len(todo') > 0
    <3>1. Len(todo') = Len(todo) - 1
      BY <1>2
    <3> HIDE DEF Target
    <3> QED
      BY <1>1, <2>1, <3>1
  <2>3. Len(todo') \in 1 .. Len(todo')
    BY <2>2
  <2>4. todo' # <<>>
    BY <2>2, EmptySeq
  <2> QED
    BY <1>4, <2>3, <2>4 DEF Done
<1>6. ASSUME NEW t, Done(t)', t # Target PROVE Done(t)
  <2>1. \A i \in 1 .. Len(todo) : i = 1 \/ i - 1 \in 1 .. Len(todo')
    BY <1>1, <1>2
  <2>2. \A i \in 1 .. Len(todo) : i # 1 => todo[i] # t
    BY <1>1, <1>2, <1>6, <2>1 DEF Done
  <2> QED
    BY <1>1, <1>6, <2>2 DEF Done
<1>7. \A t : Done(t) => t # Target
  BY <1>1 DEF Done
<1> QED
  BY <1>1, <1>3, <1>4, <1>5, <1>6, <1>7

-----------------------------------------------------------------------------
LEMMA InitHolds == Init => TreeInv
<1> SUFFICES ASSUME Init PROVE TreeInv
  OBVIOUS
<1>1. TypeInv
  BY DEF Init, TypeInv
<1> QED
  BY <1>1, Rules DEF Init, TreeInv, ObjectsInv, BinaryInv, ProgressInv, PassIsOfInputs

LEMMA MakeTestStep == TreeInv /\ MakeTest => TreeInv'
<1> SUFFICES ASSUME TreeInv, MakeTest PROVE TreeInv'
  OBVIOUS
<1> USE DEF TreeInv, MakeTest, files
<1>1. OBJS \in Seq(Targets) /\ BIN \in Targets /\ Len(OBJS) = 3
  BY DEF OBJS, Targets, Objects
<1>2. /\ todo' \in Seq(Targets) /\ todo' # <<>> /\ Len(todo') = 4
      /\ todo'[4] = BIN /\ \A i \in 1 .. 3 : todo'[i] = OBJS[i]
  <2>1. todo' = Append(OBJS, BIN)
    OBVIOUS
  <2> HIDE DEF TreeInv, MakeTest
  <2>2. /\ Append(OBJS, BIN) \in Seq(Targets) /\ Append(OBJS, BIN) # <<>>
        /\ Len(Append(OBJS, BIN)) = Len(OBJS) + 1
        /\ \A i \in 1 .. Len(OBJS) : Append(OBJS, BIN)[i] = OBJS[i]
        /\ Append(OBJS, BIN)[Len(OBJS) + 1] = BIN
    <3>1. Append(OBJS, BIN) \in Seq(Targets)
      BY <1>1
    <3>2. Append(OBJS, BIN) # <<>>
      BY <1>1, AppendProperties, ZenonT(60)
    <3>3. Len(Append(OBJS, BIN)) = Len(OBJS) + 1
      BY <1>1, AppendProperties, ZenonT(60)
    <3>4. \A i \in 1 .. Len(OBJS) : Append(OBJS, BIN)[i] = OBJS[i]
      BY <1>1, SMTT(30)
    <3>5. Append(OBJS, BIN)[Len(OBJS) + 1] = BIN
      BY <1>1, AppendProperties, Zenon
    <3> QED
      BY <3>1, <3>2, <3>3, <3>4, <3>5
  <2>3. Len(OBJS) + 1 = 4
    BY <1>1
  <2> QED
    BY <1>1, <2>1, <2>2, <2>3, Zenon
<1>3. \A t \in Targets : ~Done(t)'
  <2>1. \A o \in Objects : \E i \in 1 .. 3 : OBJS[i] = o
    BY DEF OBJS, Objects
  <2>2. \A t \in Targets : \E i \in 1 .. 4 : todo'[i] = t
    BY <1>2, <2>1, Rules
  <2> QED
    BY <1>2, <2>2 DEF Done
<1>4. TypeInv'
  BY <1>2 DEF TypeInv
<1>5. ProgressInv'
  BY <1>3 DEF ProgressInv
<1> QED
  BY <1>4, <1>5 DEF ObjectsInv, BinaryInv, Accounted, PassIsOfInputs

LEMMA SkipStep == TreeInv /\ Skip => TreeInv'
<1> SUFFICES ASSUME TreeInv, Skip PROVE TreeInv'
  OBVIOUS
<1> USE DEF TreeInv, Skip, files
<1>1. TypeInv'
  BY Onward DEF TypeInv
<1>2. ProgressInv'
  BY Onward DEF ProgressInv, UpToDate
<1> QED
  BY <1>1, <1>2 DEF ObjectsInv, BinaryInv, Accounted, PassIsOfInputs

LEMMA StartStep == TreeInv /\ Start => TreeInv'
<1> SUFFICES ASSUME TreeInv, Start PROVE TreeInv'
  OBVIOUS
<1> USE DEF TreeInv, Start
<1>1. Target \in Targets /\ Target' = Target
  BY DEF TypeInv, Target
<1>2. CASE Target = BIN
  <2>1. behind' = [behind EXCEPT ![BIN] = UNION {behind[o] : o \in Objects}]
    BY <1>2
  <2>2. /\ \A o \in Objects : behind'[o] = behind[o]
        /\ behind'[BIN] = UNION {behind[o] : o \in Objects}
        /\ behind' \in [Targets -> SUBSET Inputs]
    <3>1. BIN \in Targets /\ behind \in [Targets -> SUBSET Inputs]
      BY Rules DEF TypeInv
    <3>2. UNION {behind[o] : o \in Objects} \in SUBSET Inputs
      BY <3>1, Rules
    <3>3. \A o \in Objects : behind'[o] = behind[o]
      BY <2>1, <3>1, Rules
    <3> QED
      BY <2>1, <3>1, <3>2, <3>3
  <2>3. \A i \in behind'[BIN] : \E o \in Objects : i \in newer[o]
    BY <2>2 DEF ObjectsInv
  <2>4. TypeInv'
    BY <2>2 DEF TypeInv
  <2>5. ObjectsInv'
    BY <1>1, <1>2, <2>2, Rules DEF ObjectsInv
  <2>6. BinaryInv'
    BY <2>3 DEF BinaryInv, Accounted
  <2> QED
    BY <2>4, <2>5, <2>6 DEF ProgressInv, Done, PassIsOfInputs
<1>3. CASE Target # BIN
  <2>1. behind' = [behind EXCEPT ![Target] = {}] /\ Target \in Objects
    BY <1>1, <1>3, Rules
  <2>2. /\ \A o \in Objects : behind'[o] \subseteq behind[o]
        /\ behind'[Target] = {} /\ behind'[BIN] = behind[BIN]
        /\ behind' \in [Targets -> SUBSET Inputs]
    BY <2>1, Rules DEF TypeInv
  <2>3. TypeInv'
    BY <2>2 DEF TypeInv
  <2>4. ObjectsInv'
    BY <1>1, <2>2 DEF ObjectsInv
  <2>5. BinaryInv'
    BY <1>1, <1>3, <2>2 DEF BinaryInv, Accounted
  <2> QED
    BY <2>3, <2>4, <2>5 DEF ProgressInv, Done, PassIsOfInputs
<1> QED
  BY <1>2, <1>3

LEMMA FinishStep == TreeInv /\ Finish => TreeInv'
<1> SUFFICES ASSUME TreeInv, Finish PROVE TreeInv'
  OBVIOUS
<1> USE DEF TreeInv, Finish
<1>1. todo # <<>> /\ todo' = Tail(todo) /\ Written(Target)
  BY DEF TypeInv
<1>2. Target \in Targets
  BY <1>1, Onward
<1>3. newer' \in [Targets -> SUBSET (Inputs \cup Objects)]
  BY <1>1, <1>2, WrittenObject, WrittenBinary, Rules
<1>4. TypeInv'
  BY <1>1, <1>3, Onward DEF TypeInv
<1>5. CASE Target \in Objects
  <2>1. /\ newer'[Target] = {} /\ newer'[BIN] = newer[BIN] \cup {Target}
        /\ \A p \in Objects : p # Target => newer'[p] = newer[p]
        /\ exists' = exists \cup {Target}
    BY <1>1, <1>5, WrittenObject
  <2>2. ObjectsInv'
    BY <1>5, <2>1 DEF ObjectsInv
  <2>3. BinaryInv'
    BY <1>5, <2>1 DEF BinaryInv, Accounted
  <2>4. ProgressInv'
    BY <1>1, <1>5, <2>1, Onward, Rules DEF ProgressInv
  <2> QED
    BY <1>4, <2>2, <2>3, <2>4 DEF PassIsOfInputs
<1>6. CASE Target = BIN
  <2>1. /\ newer'[BIN] = {} /\ \A p \in Objects : newer'[p] = newer[p]
        /\ exists' = exists \cup {BIN}
    BY <1>1, <1>6, WrittenBinary
  <2>2. ObjectsInv'
    BY <2>1 DEF ObjectsInv
  <2>3. BinaryInv'
    BY <1>6, <2>1 DEF BinaryInv, Accounted
  <2>4. ProgressInv'
    BY <1>1, <1>6, <2>1, Onward, Rules DEF ProgressInv
  <2> QED
    BY <1>4, <2>2, <2>3, <2>4 DEF PassIsOfInputs
<1> QED
  BY <1>2, <1>5, <1>6, Rules

LEMMA FailStep == TreeInv /\ Fail => TreeInv'
<1> SUFFICES ASSUME TreeInv, Fail PROVE TreeInv'
  OBVIOUS
<1> USE DEF TreeInv, Fail
<1>1. TypeInv'
  BY DEF TypeInv
<1>2. Target \in Targets
  BY DEF TypeInv, Target
<1>3. BinaryInv'
  BY <1>2, Rules DEF BinaryInv, Accounted
<1> QED
  BY <1>1, <1>3 DEF ObjectsInv, ProgressInv, PassIsOfInputs

LEMMA KillStep == TreeInv /\ Kill => TreeInv'
<1> SUFFICES ASSUME TreeInv, Kill PROVE TreeInv'
  OBVIOUS
<1> USE DEF TreeInv, Kill
<1>1. verdict' # "PASS" /\ pc' = "idle"
  BY DEF TypeInv
<1>2. CASE pc = "make"
  BY <1>1, <1>2 DEF TypeInv, ObjectsInv, BinaryInv, Accounted, ProgressInv, PassIsOfInputs
<1>3. CASE pc = "build"
  <2>1. Target \in Targets /\ Written(Target)
    BY <1>3 DEF TypeInv, Target
  <2>2. newer' \in [Targets -> SUBSET (Inputs \cup Objects)]
    BY <2>1, WrittenObject, WrittenBinary, Rules
  <2>3. TypeInv'
    BY <1>1, <2>2 DEF TypeInv
  <2>4. CASE Target \in Objects
    <3>1. /\ newer'[Target] = {} /\ newer'[BIN] = newer[BIN] \cup {Target}
          /\ \A p \in Objects : p # Target => newer'[p] = newer[p]
          /\ exists' = exists \cup {Target}
      BY <1>3, <2>1, <2>4, WrittenObject
    <3>2. ObjectsInv'
      BY <1>3, <2>4, <3>1 DEF ObjectsInv
    <3>3. BinaryInv'
      <4>1. BIN # Target /\ behind' = behind /\ (BIN \in exists' => BIN \in exists)
        BY <2>4, <3>1, Rules
      <4>2. ASSUME NEW i \in behind[BIN], Accounted(i) PROVE Accounted(i)'
        BY <2>4, <3>1, <4>2 DEF Accounted
      <4> QED
        BY <1>1, <4>1, <4>2 DEF BinaryInv
    <3> QED
      BY <1>1, <2>3, <3>2, <3>3 DEF ProgressInv, PassIsOfInputs
  <2>5. CASE Target = BIN
    <3>1. \A p \in Objects : newer'[p] = newer[p]
      BY <1>3, <2>1, <2>5, WrittenBinary
    <3>2. ObjectsInv'
      BY <1>1, <3>1 DEF ObjectsInv
    <3>3. BinaryInv'
      BY <1>1, <1>3, <2>5, <3>1 DEF BinaryInv, Accounted
    <3> QED
      BY <1>1, <2>3, <3>2, <3>3 DEF ProgressInv, PassIsOfInputs
  <2> QED
    BY <2>1, <2>4, <2>5, Rules
<1> QED
  BY <1>2, <1>3

LEMMA RunTestsStep == TreeInv /\ RunTests => TreeInv'
<1> SUFFICES ASSUME TreeInv, RunTests PROVE TreeInv'
  OBVIOUS
<1> USE DEF TreeInv, RunTests, files
<1>1. TypeInv'
  BY DEF TypeInv
<1>2. ASSUME ~edited PROVE behind[BIN] = {}
  <2>1. \A t \in Targets : t \in exists /\ newer[t] = {}
    BY <1>2 DEF ProgressInv, Done
  <2>2. \A i \in behind[BIN] : Accounted(i)
    BY <1>2, <2>1, Rules DEF BinaryInv
  <2> QED
    BY <2>1, <2>2, Rules DEF Accounted
<1>3. PassIsOfInputs'
  BY <1>2 DEF PassIsOfInputs
<1> QED
  BY <1>1, <1>3 DEF ObjectsInv, BinaryInv, Accounted, ProgressInv

LEMMA CleanStep == TreeInv /\ Clean => TreeInv'
  BY Rules DEF TreeInv, Clean, TypeInv, ObjectsInv, BinaryInv, ProgressInv, PassIsOfInputs

LEMMA EditStep ==
  ASSUME ~EditsDuringCompile, TreeInv, NEW i \in Sources, Edit(i)
  PROVE  TreeInv'
<1> USE DEF TreeInv, Edit
<1>1. ~InCompiler(i) /\ edited' = TRUE
  OBVIOUS
<1>2. \A t \in Targets : newer'[t] = newer[t] \cup (Prerequisites[t] \cap {i})
  OBVIOUS
<1>3. \A t \in Targets :
        behind'[t] = IF t = BIN \/ i \in Reads[t] THEN behind[t] \cup {i} ELSE behind[t]
  BY <1>1
<1>4. newer' \in [Targets -> SUBSET (Inputs \cup Objects)] /\ behind' \in [Targets -> SUBSET Inputs]
  BY <1>1 DEF TypeInv, Inputs
<1>5. TypeInv'
  BY <1>4 DEF TypeInv
<1>6. newer'[BIN] = newer[BIN] /\ behind'[BIN] = behind[BIN] \cup {i}
  BY <1>2, <1>3, Rules DEF Inputs
<1>7. \A o \in Objects : /\ newer[o] \subseteq newer'[o]
                         /\ i \in Reads[o] => i \in newer'[o]
                         /\ behind'[o] \subseteq behind[o] \cup {i}
                         /\ i \notin Reads[o] => behind'[o] = behind[o]
  BY <1>2, <1>3, Rules
<1>8. ObjectsInv'
  <2>1. Target' = Target
    BY DEF Target
  <2> QED
    BY <1>1, <1>7, <2>1 DEF ObjectsInv, InCompiler
<1>9. \E o \in Objects : i \in newer'[o]
  <2>1. \E o \in Objects : i \in Reads[o]
    BY DEF Sources, Objects, Reads
  <2> QED
    BY <1>7, <2>1
<1>10. BinaryInv'
  <2>1. Target' = Target
    BY DEF Target
  <2>2. ASSUME BIN \in exists, NEW j \in behind'[BIN] PROVE Accounted(j)'
    <3>1. CASE j \in behind[BIN]
      <4>1. Accounted(j)
        BY <2>2, <3>1 DEF BinaryInv
      <4> QED
        BY <1>6, <1>7, <4>1 DEF Accounted
    <3>2. CASE j = i
      BY <1>9, <3>2 DEF Accounted
    <3> QED
      BY <1>6, <2>2, <3>1, <3>2
  <2>3. ASSUME pc = "build", Target = BIN, NEW j \in behind'[BIN]
        PROVE  \E o \in Objects : j \in newer'[o]
    BY <1>6, <1>7, <1>9, <2>3, ZenonT(60) DEF BinaryInv
  <2> QED
    BY <2>1, <2>2, <2>3 DEF BinaryInv
<1> QED
  BY <1>1, <1>5, <1>8, <1>10 DEF ProgressInv, PassIsOfInputs

(***************************************************************************)
(* If sources but not flags change, and none while it is compiled, a PASS  *)
(* of make test is of a binary made of the sources as they are, whatever   *)
(* was interrupted or killed before (Makefile:24-46).                      *)
(***************************************************************************)
THEOREM PassCorrect ==
  ASSUME Editable \subseteq Sources, ~EditsDuringCompile
  PROVE  Spec => []PassIsOfInputs
<1>1. TreeInv /\ [Next]_vars => TreeInv'
  <2> SUFFICES ASSUME TreeInv, [Next]_vars PROVE TreeInv'
    OBVIOUS
  <2>1. CASE UNCHANGED vars
    BY <2>1 DEF vars, files, TreeInv, TypeInv, ObjectsInv, BinaryInv, Accounted, ProgressInv,
                PassIsOfInputs, Done, Target
  <2>2. ASSUME NEW i \in Editable, Edit(i) PROVE TreeInv'
    BY <2>2, EditStep
  <2> QED
    BY <2>1, <2>2, MakeTestStep, SkipStep, StartStep, FinishStep, FailStep, KillStep,
       RunTestsStep, CleanStep DEF Next
<1>2. TreeInv => PassIsOfInputs
  BY DEF TreeInv
<1> QED
  BY <1>1, <1>2, InitHolds, PTL DEF Spec
=============================================================================
