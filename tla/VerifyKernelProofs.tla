------------------------- MODULE VerifyKernelProofs -------------------------
(***************************************************************************)
(* Theorems about VerifyKernel, for every main line, every set of versions *)
(* that compile and that pass, every set of crash points, with and without *)
(* the race of git log with grep -q.                                       *)
(***************************************************************************)
EXTENDS VerifyKernel, WellFoundedInduction, TLAPS

-----------------------------------------------------------------------------
(* The main line. *)

\* A version of scan.c goes back to the last of the commits that changed it.
LEMMA LastChange ==
  ASSUME NEW n \in Nat, n >= 1
  PROVE  /\ ScanAt(n) \in Nat /\ ScanAt(n) >= 1
         /\ ScanAt(n) \in ScanChanges /\ ScanAt(n) =< n
         /\ \A d \in ScanChanges : d =< n => d =< ScanAt(n)
<1> DEFINE Back == {m \in Nat : \E d \in ScanChanges : d =< n /\ m = n - d}
           R    == OpToRel(<, Nat)
<1>1. ScanChanges \subseteq Nat /\ 1 \in ScanChanges
  BY MainlineAssumption
<1>2. Back \subseteq Nat /\ Back # {}
  <2>1. n - 1 \in Back
    BY <1>1
  <2> QED
    BY <2>1
<1>3. PICK m \in Back : \A k \in Back : ~(<<k, m>> \in R)
  <2>1. IsWellFoundedOn(R, Nat)
    BY NatLessThanWellFounded, Zenon
  <2> HIDE DEF R, Back
  <2> QED
    BY <1>2, <2>1, WFMin, Zenon
<1>4. \A k \in Back : ~(k < m)
  BY <1>2, <1>3 DEF OpToRel
<1>5. PICK c \in ScanChanges : c =< n /\ m = n - c
  OBVIOUS
<1>6. \A d \in ScanChanges : d =< n => d =< c
  BY <1>1, <1>4, <1>5
<1>7. /\ ScanAt(n) \in ScanChanges /\ ScanAt(n) =< n
      /\ \A d \in ScanChanges : d =< n => d =< ScanAt(n)
  BY <1>5, <1>6 DEF ScanAt, LastIn
<1> HIDE DEF R, Back
<1>8. \A d \in ScanChanges : d \in Nat /\ d >= 1
  BY MainlineAssumption
<1> QED
  BY <1>7, <1>8

\* Commits behind the last change have its version.
LEMMA SameVersion ==
  ASSUME NEW n \in Nat, NEW b \in Nat, ScanAt(n) =< b, b =< n, n >= 1, b >= 1
  PROVE  ScanAt(b) = ScanAt(n)
<1>1. \A d \in ScanChanges : d \in Nat
  BY MainlineAssumption
<1>2. /\ ScanAt(n) \in Nat /\ ScanAt(n) \in ScanChanges
      /\ \A d \in ScanChanges : d =< n => d =< ScanAt(n)
  BY LastChange
<1>3. /\ ScanAt(b) \in Nat /\ ScanAt(b) \in ScanChanges /\ ScanAt(b) =< b
      /\ \A d \in ScanChanges : d =< b => d =< ScanAt(b)
  BY LastChange
<1>4. ScanAt(n) =< ScanAt(b)
  BY <1>2, <1>3
<1>5. ScanAt(b) =< n
  BY <1>3
<1>6. ScanAt(b) =< ScanAt(n)
  BY <1>2, <1>3, <1>5
<1> QED
  BY <1>2, <1>3, <1>4, <1>6

-----------------------------------------------------------------------------
(* The script. *)

\* The targets in the order make goes through them.
LEMMA MakeOrder ==
  /\ Targets = {"scan.o", "tests.o", "ubifs_ut"} /\ Objects = {"scan.o", "tests.o"}
  /\ After["scan.o"] = "tests.o" /\ After["tests.o"] = "ubifs_ut" /\ After["ubifs_ut"] = "run"
  BY DEF Targets, Objects, After

\* What is known of the working tree at each step of the script.
StepInv ==
  /\ clone # "whole" => fs = None
  /\ pc \in {"diff", "cp", "run", "report", "complete"} \cup Targets => applied
  /\ pc \in {"cp", "run", "report", "complete"} \cup Targets => fs # None
  /\ pc \in {"run", "report", "complete"} \cup Targets => copy = fs
  /\ pc \in {"report", "complete"} => tested \in Passing /\ tested = copy

\* What make takes for up to date was made of the copy there is.
BuildInv ==
  /\ torn \subseteq made /\ made \subseteq Targets
  /\ ~applied \/ pc = "apply" => made = {}
  /\ "scan.o" \in made => object = copy
  /\ "ubifs_ut" \in made => binary = copy
  /\ pc = "cp" => made \cap MadeOfScan = {}
  /\ pc \in {"tests.o", "ubifs_ut"} => "scan.o" \in made
  /\ pc = "run" => "ubifs_ut" \in made

\* The working tree is that of the commit the clone is at.
TreeInv ==
  /\ mainline \in Nat /\ mainline >= 1 /\ head \in Nat
  /\ boundary \in Nat /\ boundary >= 1
  /\ clone \in {"cut", "whole"} => boundary =< head
  /\ clone = "whole" => fs = ScanAt(head)

\* What is printed as the baseline.
BaselineInv ==
  pc = "complete" => baseline =< head /\ ScanAt(baseline) = ScanAt(head)

EvidenceInv == StepInv /\ BuildInv /\ TreeInv /\ BaselineInv

LEMMA InitHolds == Init => EvidenceInv
  BY MainlineAssumption, MakeOrder
  DEF Init, EvidenceInv, StepInv, BuildInv, TreeInv, BaselineInv, None

LEMMA StepHolds == EvidenceInv /\ [Next]_vars => EvidenceInv'
<1> SUFFICES ASSUME EvidenceInv, [Next]_vars PROVE EvidenceInv'
  OBVIOUS
<1> USE MakeOrder
        DEF EvidenceInv, StepInv, BuildInv, TreeInv, BaselineInv, history, build, report
<1>1. CASE CloneBegins
  BY <1>1 DEF CloneBegins, Ended
<1>2. CASE CloneFetches
  BY <1>2 DEF CloneFetches
<1>3. CASE CloneEnds
  BY <1>3 DEF CloneEnds
<1>4. CASE CloneFails
  BY <1>4 DEF CloneFails
<1>5. CASE ReuseClone
  BY <1>5 DEF ReuseClone, Ended
<1>6. CASE PatchFound
  BY <1>6 DEF PatchFound, Listed
<1>7. CASE PatchNotFound
  BY <1>7 DEF PatchNotFound
<1>8. CASE AmBegins
  BY <1>8 DEF AmBegins
<1>9. CASE AmEnds
  BY <1>9 DEF AmEnds
<1>10. CASE AmFails
  BY <1>10 DEF AmFails
<1>11. CASE Identical
  BY <1>11 DEF Identical
<1>12. CASE Differs
  BY <1>12 DEF Differs, MadeOfScan
<1>13. CASE Copy
  BY <1>13 DEF Copy, MadeOfScan
<1>14. CASE CopyFails
  BY <1>14 DEF CopyFails
<1>15. CASE UpToDate
  BY <1>15 DEF UpToDate
<1>16. CASE Build
  BY <1>16 DEF Build, Written, MadeOfScan
<1>17. CASE BuildFails
  BY <1>17 DEF BuildFails
<1>18. CASE TestsPass
  BY <1>18 DEF TestsPass
<1>19. CASE TestsFail
  BY <1>19 DEF TestsFail
<1>20. CASE Report
  <2>1. clone = "whole" /\ head \in Nat /\ boundary \in Nat /\ 1 =< boundary /\ boundary =< head
    BY <1>20 DEF Report
  <2>2. ScanAt(head) \in Nat /\ ScanAt(head) >= 1 /\ ScanAt(head) =< head
    BY <2>1, LastChange
  <2>3. /\ baseline' \in Nat /\ baseline' >= 1
        /\ ScanAt(head) =< baseline' /\ baseline' =< head
    BY <1>20, <2>1, <2>2 DEF Report
  <2>4. ScanAt(baseline') = ScanAt(head)
    BY <2>1, <2>3, SameVersion
  <2> QED
    BY <1>20, <2>3, <2>4 DEF Report
<1>21. CASE Crash
  BY <1>21 DEF Crash
<1>22. CASE CrashInBuild
  BY <1>22 DEF CrashInBuild, Written, MadeOfScan
<1>23. CASE MainlineMovesOn
  BY <1>23 DEF MainlineMovesOn
<1>24. CASE Pull
  BY <1>24 DEF Pull, Ended
<1>25. CASE AbortAm
  BY <1>25 DEF AbortAm, Ended
<1>26. CASE Clean
  BY <1>26 DEF Clean, Ended
<1>27. CASE UNCHANGED vars
  BY <1>27 DEF vars
<1> QED
  BY <1>1, <1>2, <1>3, <1>4, <1>5, <1>6, <1>7, <1>8, <1>9, <1>10, <1>11, <1>12, <1>13, <1>14,
     <1>15, <1>16, <1>17, <1>18, <1>19, <1>20, <1>21, <1>22, <1>23, <1>24, <1>25, <1>26, <1>27 DEF Next, Script

LEMMA EvidenceInvariant == Spec => []EvidenceInv
<1> QED
  BY InitHolds, StepHolds, PTL DEF Spec

(***************************************************************************)
(* The evidence the script prints is true of the tree it is printed for,   *)
(* whatever was killed, pulled, aborted or cleaned before                  *)
(* (verify-kernel.sh:69-72).                                               *)
(***************************************************************************)
THEOREM EvidenceCorrect == Spec => []EvidenceTrue
<1>1. EvidenceInv => EvidenceTrue
  BY DEF EvidenceInv, StepInv, TreeInv, BaselineInv, EvidenceTrue
<1> QED
  BY <1>1, EvidenceInvariant, PTL

-----------------------------------------------------------------------------
(* A run that can complete. *)

Course == {"log", "am", "apply", "diff", "cp", "run", "report"} \cup Targets

\* It takes one step further, ends well, or is killed.
Onward ==
  \/ pc' = "crashed"
  \/ (OnCourse \/ pc = "complete")' /\ (pc' = pc \/ Stage[pc] < Stage[pc'])

\* The steps of a run in their order.
LEMMA Stages ==
  /\ Stage["log"] = 1 /\ Stage["am"] = 2 /\ Stage["apply"] = 3 /\ Stage["diff"] = 4
  /\ Stage["cp"] = 5 /\ Stage["scan.o"] = 6 /\ Stage["tests.o"] = 7
  /\ Stage["ubifs_ut"] = 8 /\ Stage["run"] = 9 /\ Stage["report"] = 10
  /\ Stage["complete"] = 11
  BY MakeOrder DEF Stage

LEMMA CourseStep ==
  ASSUME EvidenceInv, Next, ~SigPipe, OnCourse
  PROVE  Onward
<1> USE DEF history, build, report
<1>1. /\ pc \in Course
      /\ clone = "whole" /\ ScanAt(head) \in Passing
      /\ pc = "log" => ~session /\ (IF applied THEN above < LogWindow ELSE copy = None)
      /\ pc \in {"log", "diff"} => TornRemade
      /\ pc = "am" => ~session /\ copy = None
      /\ pc \in {"cp", "run"} \cup Targets => torn = {}
  BY DEF OnCourse, Startable, LogWindow, Course
<1>2. /\ pc \notin Ended /\ pc # "clone"
      /\ fs = ScanAt(head) /\ fs # None /\ fs \in Compiling
      /\ pc \in {"run"} \cup Targets => copy = fs
      /\ pc = "run" => binary = copy
      /\ pc = "apply" => torn = {}
  <2>1. fs = ScanAt(head) /\ fs \in Passing
    BY <1>1 DEF EvidenceInv, TreeInv
  <2>2. fs # None /\ fs \in Compiling
    BY <2>1, MainlineAssumption DEF None
  <2>3. pc \notin Ended /\ pc # "clone"
    BY <1>1, MakeOrder DEF Course, Ended
  <2>4. /\ pc \in {"run"} \cup Targets => copy = fs
        /\ pc = "run" => binary = copy
        /\ pc = "apply" => torn = {}
    BY DEF EvidenceInv, StepInv, BuildInv
  <2> QED
    BY <2>1, <2>2, <2>3, <2>4
<1>3. ASSUME UNCHANGED <<clone, head>>,
             \/ pc' = "complete"
             \/ pc' = "am" /\ ~session' /\ copy' = None
             \/ pc' \in {"apply", "report"}
             \/ pc' = "diff" /\ TornRemade'
             \/ pc' \in {"cp", "run"} \cup Targets /\ torn' = {},
             Stage[pc] < Stage[pc']
      PROVE  Onward
  <2>1. ScanAt(head)' = ScanAt(head)
    BY <1>3 DEF ScanAt
  <2> QED
    BY <1>1, <1>3, <2>1, MakeOrder DEF Onward, OnCourse
<1>4. CASE CloneBegins \/ CloneFetches \/ CloneEnds \/ CloneFails \/ ReuseClone \/ Pull
           \/ AbortAm \/ Clean
  BY <1>1, <1>2, <1>4
  DEF CloneBegins, CloneFetches, CloneEnds, CloneFails, ReuseClone, Pull, AbortAm, Clean
<1>5. CASE PatchFound
  <2>1. TornRemade'
    BY <1>1, <1>5 DEF PatchFound, TornRemade
  <2> QED
    BY <1>3, <1>5, <2>1, Stages DEF PatchFound
<1>6. CASE PatchNotFound
  BY <1>1, <1>3, <1>6, Stages DEF PatchNotFound, Listed
<1>7. CASE AmBegins
  BY <1>3, <1>7, Stages DEF AmBegins
<1>8. CASE AmEnds
  <2>1. torn' = {}
    BY <1>2, <1>8 DEF AmEnds
  <2>2. TornRemade'
    BY <2>1 DEF TornRemade
  <2> QED
    BY <1>3, <1>8, <2>2, Stages DEF AmEnds
<1>9. CASE AmFails
  BY <1>1, <1>9 DEF AmFails
<1>10. CASE Identical
  <2>1. torn' = {}
    BY <1>1, <1>10 DEF Identical, TornRemade
  <2> QED
    BY <1>3, <1>10, <2>1, Stages, MakeOrder DEF Identical
<1>11. CASE Differs
  <2>1. torn' = {}
    BY <1>1, <1>11 DEF Differs, TornRemade
  <2> QED
    BY <1>3, <1>11, <2>1, Stages DEF Differs
<1>12. CASE Copy
  BY <1>1, <1>3, <1>12, Stages, MakeOrder DEF Copy
<1>13. CASE CopyFails
  BY <1>2, <1>13 DEF CopyFails
<1>14. CASE UpToDate
  <2>1. pc \in Targets
    BY <1>14 DEF UpToDate, EvidenceInv, BuildInv
  <2> QED
    BY <1>1, <1>3, <1>14, <2>1, Stages, MakeOrder DEF UpToDate
<1>15. CASE Build
  <2>1. torn' = {}
    BY <1>1, <1>15 DEF Build
  <2> QED
    BY <1>3, <1>15, <2>1, Stages, MakeOrder DEF Build
<1>16. CASE BuildFails
  BY <1>1, <1>2, <1>16 DEF BuildFails, Buildable
<1>17. CASE TestsPass
  BY <1>3, <1>17, Stages DEF TestsPass
<1>18. CASE TestsFail
  BY <1>1, <1>2, <1>18 DEF TestsFail
<1>19. CASE Report
  BY <1>3, <1>19, Stages DEF Report
<1>20. CASE Crash \/ CrashInBuild
  BY <1>20 DEF Crash, CrashInBuild, Onward
<1>21. CASE MainlineMovesOn
  <2>1. ScanAt(head)' = ScanAt(head) /\ TornRemade' = TornRemade
    BY <1>21 DEF MainlineMovesOn, ScanAt, TornRemade
  <2>2. OnCourse' /\ pc' = pc
    BY <1>21, <2>1 DEF MainlineMovesOn, OnCourse, Startable
  <2> QED
    BY <2>2 DEF Onward
<1> QED
  BY <1>4, <1>5, <1>6, <1>7, <1>8, <1>9, <1>10, <1>11, <1>12, <1>13, <1>14, <1>15, <1>16,
     <1>17, <1>18, <1>19, <1>20, <1>21 DEF Next, Script

(***************************************************************************)
(* A run that starts on a whole clone, with the patch in sight or not      *)
(* applied, a scan.c that passes, and nothing torn in build/ that will not *)
(* be remade, never fails: each of its steps leads further, to completion  *)
(* (verify-kernel.sh:12) unless it is killed.  What makes the test pass is *)
(* that the copying has made the two files agree, and make the binary.     *)
(***************************************************************************)
THEOREM CourseCorrect == Spec => StaysOnCourse
<1>1. EvidenceInv /\ [Next]_vars => [~SigPipe /\ OnCourse => Onward]_vars
  BY CourseStep
<1> QED
  BY <1>1, EvidenceInvariant, PTL DEF Spec, StaysOnCourse, Onward
=============================================================================
