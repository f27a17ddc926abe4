----------------------------- MODULE BuildTree ------------------------------
(***************************************************************************)
(* make test: which object files and which test binary are rebuilt by the  *)
(* rules of the Makefile while the sources are edited and builds fail, are *)
(* interrupted or killed.                                                  *)
(*                                                                         *)
(* Time stamps are kept as what make asks of them: newer[t] is the set of  *)
(* prerequisites of target t modified after t.  Contents are kept as what  *)
(* they lack: behind[t] is the set of inputs that have changed since t, or *)
(* the objects t was linked from, were compiled.  Every change gets a time *)
(* stamp of its own.                                                       *)
(*                                                                         *)
(* pc is "idle", "make" (between two targets) or "build" (in the compiler  *)
(* or linker, for the first target of todo).                               *)
(***************************************************************************)
EXTENDS Sequences

CONSTANTS
  Editable,            \* inputs that change
  EditsDuringCompile   \* may an input change while it is compiled?

ASSUME EditsAssumption == EditsDuringCompile \in BOOLEAN

VARIABLES
  pc, todo,
  exists,    \* targets that exist
  torn,      \* targets that hold a part of what they should
  newer, behind,
  edited,    \* history: has anything changed since make was started?
  verdict,   \* what the last make test printed, "none" while it runs
  tested     \* history: behind[BIN] when its tests were run

files == <<exists, torn, newer, behind>>
vars  == <<pc, todo, files, edited, verdict, tested>>

Sources == {"scan.c", "ubifs.h", "ut_support.c", "ut_support.h", "test_scan_a_node.c"}
Inputs  == Sources \cup {"flags"}   \* CC, CFLAGS and CPPFLAGS

Objects == {"scan.o", "ut_support.o", "test_scan_a_node.o"}
BIN     == "ubifs_ut"
Targets == Objects \cup {BIN}

OBJS == <<"scan.o", "ut_support.o", "test_scan_a_node.o">>

\* Mutant of the next definition: a header is missing from the rule.
PrerequisitesNoHeader ==
  [t \in Targets |->
     CASE t = "scan.o"             -> {"scan.c", "ubifs.h"}
       [] t = "ut_support.o"       -> {"ut_support.c", "ut_support.h"}
       [] t = "test_scan_a_node.o" -> {"test_scan_a_node.c", "ut_support.h"}
       [] t = BIN                  -> Objects]

\* The prerequisites in the Makefile.
Prerequisites ==
  [t \in Targets |->
     CASE t = "scan.o"             -> {"scan.c", "ubifs.h"}
       [] t = "ut_support.o"       -> {"ut_support.c", "ut_support.h", "ubifs.h"}
       [] t = "test_scan_a_node.o" -> {"test_scan_a_node.c", "ut_support.h", "ubifs.h"}
       [] t = BIN                  -> Objects]

\* What the compiler reads for an object: #include lines, and its flags.
Reads ==
  [o \in Objects |->
     CASE o = "scan.o"             -> {"scan.c", "ubifs.h", "flags"}
       [] o = "ut_support.o"       -> {"ut_support.c", "ut_support.h", "ubifs.h", "flags"}
       [] o = "test_scan_a_node.o" -> {"test_scan_a_node.c", "ut_support.h", "ubifs.h", "flags"}]

-----------------------------------------------------------------------------
MakeTest ==
  /\ pc = "idle"
  /\ pc' = "make"
  /\ todo' = Append(OBJS, BIN)
  /\ edited' = FALSE /\ verdict' = "none"
  /\ UNCHANGED <<files, tested>>

Target == Head(todo)

UpToDate == Target \in exists /\ newer[Target] = {}

Skip ==
  /\ pc = "make" /\ todo # <<>>
  /\ UpToDate
  /\ todo' = Tail(todo)
  /\ UNCHANGED <<pc, files, edited, verdict, tested>>

\* The compiler reads its inputs from now on.
Start ==
  /\ pc = "make" /\ todo # <<>>
  /\ ~UpToDate
  /\ pc' = "build"
  /\ behind' = [behind EXCEPT ![Target] = IF Target = BIN THEN UNION {behind[o] : o \in Objects}
                                          ELSE {}]
  /\ UNCHANGED <<todo, exists, torn, newer, edited, verdict, tested>>

\* The target has been written, as a whole or in part.
Written(t) ==
  /\ exists' = exists \cup {t}
  /\ newer' = [p \in Targets |-> IF p = t THEN {}
                                 ELSE newer[p] \cup (Prerequisites[p] \cap {t})]

\* An object without its end does not link.
Finish ==
  /\ pc = "build"
  /\ Target = BIN => torn \cap Objects = {}
  /\ pc' = "make" /\ todo' = Tail(todo)
  /\ Written(Target)
  /\ torn' = torn \ {Target}
  /\ UNCHANGED <<behind, edited, verdict, tested>>

\* The compiler or linker fails, or is interrupted, and the target removed.
Fail ==
  /\ pc = "build"
  /\ pc' = "idle" /\ verdict' = "FAIL"
  /\ exists' = exists \ {Target} /\ torn' = torn \ {Target}
  /\ UNCHANGED <<todo, newer, behind, edited, tested>>

\* Killed: nobody removes what has been written so far.
Kill ==
  /\ pc \in {"make", "build"}
  /\ pc' = "idle"
  /\ IF pc = "build" THEN Written(Target) /\ torn' = torn \cup {Target}
     ELSE UNCHANGED <<exists, torn, newer>>
  /\ UNCHANGED <<todo, behind, edited, verdict, tested>>

\* The binary is run; what it prints is up to the code under test, also when
\* there is only a part of it: that part may be all that is run.
RunTests ==
  /\ pc = "make" /\ todo = <<>>
  /\ pc' = "idle"
  /\ tested' = behind[BIN]
  /\ verdict' \in {"PASS", "FAIL"}
  /\ UNCHANGED <<todo, files, edited>>

Clean ==
  /\ pc = "idle"
  /\ exists' = {} /\ torn' = {}
  /\ UNCHANGED <<pc, todo, newer, behind, edited, verdict, tested>>

InCompiler(i) == pc = "build" /\ Target \in Objects /\ i \in Reads[Target]

\* What is being compiled may still be read when it changes, or have been read.
Edit(i) ==
  /\ InCompiler(i) => EditsDuringCompile
  /\ newer' = [t \in Targets |-> newer[t] \cup (Prerequisites[t] \cap {i})]
  /\ \E read \in BOOLEAN :
       behind' = [t \in Targets |->
         IF (t = BIN \/ i \in Reads[t]) /\ (InCompiler(i) /\ t = Target => read)
         THEN behind[t] \cup {i} ELSE behind[t]]
  /\ edited' = TRUE
  /\ UNCHANGED <<pc, todo, exists, torn, verdict, tested>>

Init ==
  /\ pc = "idle" /\ todo = <<>>
  /\ exists = {} /\ torn = {}
  /\ newer = [t \in Targets |-> {}] /\ behind = [t \in Targets |-> {}]
  /\ edited = FALSE /\ verdict = "none" /\ tested = {}

Next ==
  \/ MakeTest \/ Skip \/ Start \/ Finish \/ Fail \/ Kill \/ RunTests \/ Clean
  \/ \E i \in Editable : Edit(i)

Spec == Init /\ [][Next]_vars

-----------------------------------------------------------------------------
(***************************************************************************)
(* "make test   # build (if needed) and run the unit tests" (Makefile:11): *)
(* tests that pass have passed on a binary made of what all the inputs are *)
(* now, unless one was changed while make ran, whatever builds failed or   *)
(* were killed before and whichever targets were rebuilt by which of them. *)
(***************************************************************************)
PassIsOfInputs ==
  (pc = "idle" /\ verdict = "PASS" /\ ~edited) => tested = {}
=============================================================================
