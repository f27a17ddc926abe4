---------------------------- MODULE VerifyKernel ----------------------------
(***************************************************************************)
(* verify-kernel.sh: clone the kernel, apply the patch, bring the tested   *)
(* copy of scan.c up to date, run the tests, print the evidence.  The      *)
(* script may be killed (with everything it runs, as when the machine goes *)
(* down) and started again on what it has left behind; between runs the    *)
(* user may pull from the main line or abort a git am.                     *)
(*                                                                         *)
(* The main line is a row of commits 1, 2, ...  A version of a file is the *)
(* commit that last changed it.  The script is started in one directory by *)
(* one user at a time, with git, make and the patch at hand.               *)
(*                                                                         *)
(* make keeps its targets in build/, which no run of the script empties:   *)
(* tests.o stands for the two objects that are not made of scan.c.  make   *)
(* asks for time stamps only, so a target it was killed in is done to it.  *)
(*                                                                         *)
(* pc names the step that comes next, or how the last run ended:           *)
(*   "idle", "complete", "failed" (set -e), "crashed"                      *)
(***************************************************************************)
EXTENDS Integers

CONSTANTS
  Commits,      \* length the main line may reach
  ScanChanges,  \* the commits that change fs/ubifs/scan.c
  PatchBase,    \* the commit the patch was made on
  Compiling,    \* versions of scan.c that compile
  Passing,      \* versions of scan.c that pass the tests
  SigPipe,      \* can grep -q leave before git log has written its lines?
  CrashPoints   \* steps in which a run may be killed

ASSUME MainlineAssumption ==
  /\ Commits \in Nat \ {0} /\ PatchBase \in 1 .. Commits
  /\ ScanChanges \subseteq 1 .. Commits /\ 1 \in ScanChanges
  /\ Passing \subseteq Compiling /\ Compiling \subseteq ScanChanges

VARIABLES
  pc,
  mainline,   \* commits of the main line so far
  clone,      \* LINUX_DIR: "none", "empty" (a .git without a commit),
              \* "cut" (a commit, but not its tree) or "whole"
  boundary,   \* the oldest commit the clone has
  head,       \* the newest commit of the main line the clone has
  applied,    \* is the commit of the patch in the history of the clone?
  above,      \* if so, how many commits git log lists before it
  session,    \* is there a .git/rebase-apply?
  fs,         \* version of fs/ubifs/scan.c in the working tree, or None
  copy,       \* version of tools/testing/ubifs/src/scan.c, None or Torn
  made,       \* the targets in build/ that make takes for up to date
  torn,       \* those of them that are only a part of what they should be
  object,     \* version of scan.c that scan.o was last compiled from
  binary,     \* version of scan.c that ubifs_ut was last linked from
  tested,     \* version the last make test has passed with
  baseline    \* the commit printed as that of fs/ubifs/scan.c

history == <<clone, boundary, head, applied, above>>
build   == <<made, torn, object, binary>>
report  == <<tested, baseline>>
vars    == <<pc, mainline, history, session, fs, copy, build, report>>

None == 0    \* no such file
Torn == -1   \* a file that was being written

Objects == {"scan.o", "tests.o"}
Targets == Objects \cup {"ubifs_ut"}

\* What make goes on to.
After == [t \in Targets |-> CASE t = "scan.o"   -> "tests.o"
                              [] t = "tests.o"  -> "ubifs_ut"
                              [] t = "ubifs_ut" -> "run"]

\* What scan.c goes into.
MadeOfScan == {"scan.o", "ubifs_ut"}

\* Mutant of the next definition: only the last commit is looked at.
LogWindowOfOne == 1

LogWindow == 5   \* git log --oneline -5

Ended == {"idle", "complete", "failed", "crashed"}

\* The last of the commits 1 .. n that is in S.
LastIn(S, n) == CHOOSE c \in S : c =< n /\ \A d \in S : d =< n => d =< c

ScanAt(n) == LastIn(ScanChanges, n)

-----------------------------------------------------------------------------
(* [1/5] the tree. *)

CloneBegins ==
  /\ pc \in Ended
  /\ clone = "none"
  /\ pc' = "clone" /\ clone' = "empty"
  /\ UNCHANGED <<mainline, boundary, head, applied, above, session, fs, copy, build, report>>

CloneFetches ==
  /\ pc = "clone" /\ clone = "empty"
  /\ clone' = "cut"
  /\ boundary' = mainline /\ head' = mainline
  /\ UNCHANGED <<pc, mainline, applied, above, session, fs, copy, build, report>>

CloneEnds ==
  /\ pc = "clone" /\ clone = "cut"
  /\ pc' = "log" /\ clone' = "whole"
  /\ fs' = ScanAt(head)
  /\ UNCHANGED <<mainline, boundary, head, applied, above, session, copy, build, report>>

\* git clone removes what it has made, unless all that fails is the checkout.
CloneFails ==
  /\ pc = "clone"
  /\ pc' = "failed"
  /\ clone' = IF clone = "empty" THEN "none" ELSE clone
  /\ UNCHANGED <<mainline, boundary, head, applied, above, session, fs, copy, build, report>>

ReuseClone ==
  /\ pc \in Ended
  /\ clone # "none"
  /\ pc' = "log"
  /\ UNCHANGED <<mainline, history, session, fs, copy, build, report>>

(* [2/5] the patch. *)

Listed == applied /\ above < LogWindow

PatchFound ==
  /\ pc = "log"
  /\ Listed
  /\ pc' = "diff"
  /\ UNCHANGED <<mainline, history, session, fs, copy, build, report>>

\* The pipeline is false when grep finds nothing, be it because git log fails
\* where there is no commit, and, by pipefail, when git log dies of SIGPIPE
\* because grep -q has found it.
PatchNotFound ==
  /\ pc = "log"
  /\ ~Listed \/ SigPipe
  /\ pc' = "am"
  /\ UNCHANGED <<mainline, history, session, fs, copy, build, report>>

\* The files of the patch are all new, so it applies to an empty history too.
AmBegins ==
  /\ pc = "am"
  /\ clone \in {"empty", "whole"} /\ ~session /\ copy = None
  /\ pc' = "apply"
  /\ session' = TRUE
  /\ copy' = Torn
  /\ made' = {} /\ torn' = {}
  /\ UNCHANGED <<mainline, history, fs, object, binary, report>>

AmEnds ==
  /\ pc = "apply"
  /\ pc' = "diff"
  /\ copy' = ScanAt(PatchBase)
  /\ applied' = TRUE /\ above' = 0
  /\ session' = FALSE
  /\ UNCHANGED <<mainline, clone, boundary, head, fs, build, report>>

\* Mutant of the next definition: the script goes on without set -e.
AmFailsUnnoticed ==
  /\ pc = "am"
  /\ clone = "cut" \/ session \/ copy # None
  /\ pc' = "diff"
  /\ session' = TRUE
  /\ UNCHANGED <<mainline, history, fs, copy, build, report>>

\* git am refuses a tree that is not that of its commit, a patch whose files
\* exist, and to begin while another is in progress; it is in progress then.
AmFails ==
  /\ pc = "am"
  /\ clone = "cut" \/ session \/ copy # None
  /\ pc' = "failed"
  /\ session' = TRUE
  /\ UNCHANGED <<mainline, history, fs, copy, build, report>>

(* [3/5] the copy of scan.c; cp truncates it before it writes. *)

Identical ==
  /\ pc = "diff"
  /\ copy = fs /\ fs # None
  /\ pc' = "scan.o"
  /\ UNCHANGED <<mainline, history, session, fs, copy, build, report>>

\* Mutant of the next definition: the copy keeps the time stamp it had.
DiffersUnstamped ==
  /\ pc = "diff"
  /\ copy # fs /\ fs # None
  /\ pc' = "cp" /\ copy' = Torn
  /\ UNCHANGED <<mainline, history, session, fs, build, report>>

Differs ==
  /\ pc = "diff"
  /\ copy # fs /\ fs # None
  /\ pc' = "cp" /\ copy' = Torn
  /\ made' = made \ MadeOfScan /\ torn' = torn \ MadeOfScan
  /\ UNCHANGED <<mainline, history, session, fs, object, binary, report>>

Copy ==
  /\ pc = "cp"
  /\ pc' = "scan.o" /\ copy' = fs
  /\ UNCHANGED <<mainline, history, session, fs, build, report>>

CopyFails ==
  /\ pc = "diff"
  /\ fs = None
  /\ pc' = "failed"
  /\ UNCHANGED <<mainline, history, session, fs, copy, build, report>>

(* [4/5] make test: the targets in their order, then the binary is run. *)

UpToDate ==
  /\ pc \in made
  /\ pc' = After[pc]
  /\ UNCHANGED <<mainline, history, session, fs, copy, build, report>>

\* An object without its end does not link.
Buildable ==
  /\ pc = "scan.o" => copy \in Compiling
  /\ pc = "ubifs_ut" => torn \cap Objects = {}

\* The compiler or linker has written to target t, and its time stamp.
Written(t) ==
  /\ made' = (IF t \in Objects THEN made \ {"ubifs_ut"} ELSE made) \cup {t}
  /\ object' = IF t = "scan.o" THEN copy ELSE object
  /\ binary' = IF t = "ubifs_ut" THEN object ELSE binary

Build ==
  /\ pc \in Targets \ made
  /\ Buildable
  /\ pc' = After[pc]
  /\ Written(pc)
  /\ torn' = torn \cap made'
  /\ UNCHANGED <<mainline, history, session, fs, copy, report>>

\* What a failing compiler or linker has written is removed.
BuildFails ==
  /\ pc \in Targets \ made
  /\ ~Buildable
  /\ pc' = "failed"
  /\ UNCHANGED <<mainline, history, session, fs, copy, build, report>>

\* The part of a binary there is may be all that is run.
TestsPass ==
  /\ pc = "run"
  /\ binary \in Passing
  /\ pc' = "report" /\ tested' = binary
  /\ UNCHANGED <<mainline, history, session, fs, copy, build, baseline>>

TestsFail ==
  /\ pc = "run"
  /\ binary \notin Passing \/ "ubifs_ut" \in torn
  /\ pc' = "failed"
  /\ UNCHANGED <<mainline, history, session, fs, copy, build, report>>

(* [5/5] the report. *)

\* git log -1 -- fs/ubifs/scan.c takes the oldest commit of a clone, which
\* has no parent to compare with, to have changed every file.
Report ==
  /\ pc = "report"
  /\ pc' = "complete"
  /\ baseline' = IF ScanAt(head) > boundary THEN ScanAt(head) ELSE boundary
  /\ UNCHANGED <<mainline, history, session, fs, copy, build, tested>>

-----------------------------------------------------------------------------
(* What happens around the script. *)

Crash ==
  /\ pc \in CrashPoints
  /\ pc' = "crashed"
  /\ UNCHANGED <<mainline, history, session, fs, copy, build, report>>

\* Killed while a target is being written: nobody removes the part there is.
CrashInBuild ==
  /\ pc \in (Targets \cap CrashPoints) \ made
  /\ Buildable
  /\ pc' = "crashed"
  /\ Written(pc)
  /\ torn' = (torn \cap made') \cup {pc}
  /\ UNCHANGED <<mainline, history, session, fs, copy, report>>

MainlineMovesOn ==
  /\ mainline < Commits
  /\ mainline' = mainline + 1
  /\ UNCHANGED <<pc, history, session, fs, copy, build, report>>

\* git pull: what is fetched, and a merge commit when the patch is there;
\* git log orders by date, so only the merge is sure to come before the patch.
Pull ==
  /\ pc \in Ended
  /\ clone = "whole" /\ ~session /\ head < mainline
  /\ pc' = "idle"
  /\ head' = mainline /\ fs' = ScanAt(mainline)
  /\ IF applied
     THEN \E n \in 0 .. mainline - head : above' = above + n + 1
     ELSE UNCHANGED above
  /\ UNCHANGED <<mainline, clone, boundary, applied, session, copy, build, report>>

\* git am --abort; it knows nothing of files that git am was killed over
\* before they were in the index.
AbortAm ==
  /\ pc \in Ended
  /\ session
  /\ pc' = "idle"
  /\ session' = FALSE
  /\ copy' \in (IF applied THEN {copy} ELSE {None, copy})
  /\ UNCHANGED <<mainline, history, fs, build, report>>

\* make clean
Clean ==
  /\ pc \in Ended
  /\ made # {}
  /\ pc' = "idle"
  /\ made' = {} /\ torn' = {}
  /\ UNCHANGED <<mainline, history, session, fs, copy, object, binary, report>>

-----------------------------------------------------------------------------
\* LINUX_DIR does not exist, or is a clone with all of its history.
Init ==
  /\ pc = "idle"
  /\ mainline \in PatchBase .. Commits
  /\ \/ clone = "none" /\ head = 0 /\ fs = None
     \/ clone = "whole" /\ head \in PatchBase .. mainline /\ fs = ScanAt(head)
  /\ boundary = 1
  /\ applied = FALSE /\ above = 0 /\ session = FALSE
  /\ copy = None /\ tested = None /\ baseline = 0
  /\ made = {} /\ torn = {} /\ object = None /\ binary = None

Script ==
  \/ CloneBegins \/ CloneFetches \/ CloneEnds \/ CloneFails \/ ReuseClone
  \/ PatchFound \/ PatchNotFound \/ AmBegins \/ AmEnds \/ AmFails
  \/ Identical \/ Differs \/ Copy \/ CopyFails
  \/ UpToDate \/ Build \/ BuildFails \/ TestsPass \/ TestsFail \/ Report

Next == Script \/ Crash \/ CrashInBuild \/ MainlineMovesOn \/ Pull \/ AbortAm \/ Clean

Spec == Init /\ [][Next]_vars

\* A run, once started, goes on until it ends or is killed.  Nobody is obliged
\* to start one, to pull or to abort.
FairSpec == Spec /\ WF_vars(pc \notin Ended /\ Script)

-----------------------------------------------------------------------------
(***************************************************************************)
(* Whenever the script prints "Evidence chain complete" (lines 69-72),     *)
(* whatever earlier runs, killed ones included, have left in the clone and *)
(* in build/: the patch is in the history of a whole clone, the version of *)
(* scan.c in the binary that has passed is the copy in the tree, is what   *)
(* fs/ubifs/scan.c holds and is the one of the main line both at the       *)
(* commit the clone is at and at the commit printed as the baseline.       *)
(***************************************************************************)
EvidenceTrue ==
  pc = "complete" =>
    /\ clone = "whole" /\ applied
    /\ tested \in Passing
    /\ tested = copy /\ tested = fs /\ tested = ScanAt(head)
    /\ baseline =< head /\ tested = ScanAt(baseline)

(***************************************************************************)
(* "auto-updates if mainline moved on" (line 12).  If grep -q reads on, a  *)
(* run on a whole clone, with no git am in progress or half undone, the    *)
(* patch among the last five commits or not applied, a scan.c that passes, *)
(* and no torn target in build/ but those that a newer scan.c has remade,  *)
(* completes unless it is killed, whatever has been pulled and wherever    *)
(* earlier runs have failed or been killed.                                *)
(***************************************************************************)
TornRemade == torn \subseteq (IF copy = fs THEN {} ELSE MadeOfScan)

Startable ==
  /\ clone = "whole" /\ ~session
  /\ IF applied THEN above < 5 ELSE copy = None
  /\ ScanAt(head) \in Passing
  /\ TornRemade

RunsComplete ==
  (~SigPipe /\ pc = "log" /\ Startable) ~> (pc \in {"complete", "crashed"})

\* Such a run, at any of its steps.
OnCourse ==
  /\ pc \in {"log", "am", "apply", "diff", "cp", "run", "report"} \cup Targets
  /\ clone = "whole" /\ ScanAt(head) \in Passing
  /\ pc = "log" => Startable
  /\ pc = "am" => ~session /\ copy = None
  /\ pc = "diff" => TornRemade
  /\ pc \in {"cp", "run"} \cup Targets => torn = {}

\* How far its steps are.
Stage ==
  [p \in {"log", "am", "apply", "diff", "cp", "run", "report", "complete"} \cup Targets |->
     CASE p = "log" -> 1       [] p = "am" -> 2        [] p = "apply" -> 3
       [] p = "diff" -> 4      [] p = "cp" -> 5        [] p = "scan.o" -> 6
       [] p = "tests.o" -> 7   [] p = "ubifs_ut" -> 8  [] p = "run" -> 9
       [] p = "report" -> 10   [] p = "complete" -> 11]

(***************************************************************************)
(* Such a run stays on course and does not turn back: whichever way it     *)
(* takes, its next step is a later one, and of the ways in which a run     *)
(* ends only two are open to it, to complete and to be killed.  The main   *)
(* line may move on meanwhile.                                             *)
(***************************************************************************)
StaysOnCourse ==
  [][~SigPipe /\ OnCourse =>
       \/ pc' = "crashed"
       \/ (OnCourse \/ pc = "complete")' /\ (pc' = pc \/ Stage[pc] < Stage[pc'])]_vars
=============================================================================
