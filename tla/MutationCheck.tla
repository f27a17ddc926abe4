--------------------------- MODULE MutationCheck ----------------------------
(***************************************************************************)
(* make verify: run the unit tests on the code as it stands, then on one   *)
(* mutant of it after the other, and report whether each was caught.  A    *)
(* mutant is caught, for the recipe, when it does not compile or when its  *)
(* test program exits with an error.                                       *)
(*                                                                         *)
(*   "idle"    make is not running                                         *)
(*   "tests"   in main() of the test program of `build`                    *)
(*   "mutants" at the head of the recipe's loop over the mutants           *)
(***************************************************************************)
EXTENDS UnitTests, FiniteSets

CONSTANT Mutants   \* the list of the recipe's loop

ASSUME MutantsAssumption == Mutants \in Seq(Builds \ {"scan.c"})

VARIABLES
  pc,
  build,                    \* the build whose test program runs
  test,                     \* its next test
  ut_checks, ut_failures,   \* the two counters of the harness
  todo,                     \* mutants the loop has still to come to
  fail,                     \* the recipe's variable: has a mutant survived?
  verdict,                  \* how the last make verify ended
  failed                    \* history: on each build tested, the tests that failed

program == <<build, test, ut_checks, ut_failures>>
vars    == <<pc, program, todo, fail, verdict, failed>>

-----------------------------------------------------------------------------
\* Starting the test program of a build, after those recorded in `earlier`.
Launch(b, earlier) ==
  /\ pc' = "tests"
  /\ build' = b /\ test' = 1
  /\ ut_checks' = 0 /\ ut_failures' = 0
  /\ failed' = [x \in DOMAIN earlier \cup {b} |-> IF x = b THEN {} ELSE earlier[x]]

\* The prerequisites $(BIN) and test come before the recipe.
MakeVerify ==
  /\ pc = "idle"
  /\ Launch("scan.c", <<>>)
  /\ todo' = Mutants
  /\ fail' = FALSE
  /\ verdict' = "none"

RunTest ==
  /\ pc = "tests" /\ test =< Tests
  /\ LET checks == Checks(build, test)
         wrong  == {i \in DOMAIN checks : ~checks[i]}
     IN  /\ ut_checks' = ut_checks + Len(checks)
         /\ ut_failures' = ut_failures + Cardinality(wrong)
         /\ failed' = IF wrong = {} THEN failed
                      ELSE [failed EXCEPT ![build] = @ \cup {TestName(test)}]
  /\ test' = test + 1
  /\ UNCHANGED <<pc, build, todo, fail, verdict>>

\* Mutant of the next definition: fail is overwritten by each mutant.
ExitForgets ==
  /\ pc = "tests" /\ test > Tests
  /\ pc' = "mutants" /\ UNCHANGED verdict
  /\ fail' = (build # "scan.c" /\ ut_failures = 0)
  /\ UNCHANGED <<program, todo, failed>>

\* main() returns; make stops when the tests of the code itself have failed.
Exit ==
  /\ pc = "tests" /\ test > Tests
  /\ IF build = "scan.c" /\ ut_failures # 0
     THEN pc' = "idle" /\ verdict' = "FAIL"
     ELSE pc' = "mutants" /\ UNCHANGED verdict
  /\ fail' = (fail \/ (build # "scan.c" /\ ut_failures = 0))
  /\ UNCHANGED <<program, todo, failed>>

RunMutant ==
  /\ pc = "mutants" /\ todo # <<>>
  /\ Launch(Head(todo), failed)
  /\ todo' = Tail(todo)
  /\ UNCHANGED <<fail, verdict>>

\* The compiler's messages go to /dev/null and the mutant counts as caught.
MutantDoesNotCompile ==
  /\ pc = "mutants" /\ todo # <<>>
  /\ todo' = Tail(todo)
  /\ UNCHANGED <<pc, program, fail, verdict, failed>>

Report ==
  /\ pc = "mutants" /\ todo = <<>>
  /\ pc' = "idle"
  /\ verdict' = IF fail THEN "FAIL" ELSE "PASS"
  /\ UNCHANGED <<program, todo, fail, failed>>

Init ==
  /\ pc = "idle"
  /\ build = "scan.c" /\ test = 1
  /\ ut_checks = 0 /\ ut_failures = 0
  /\ todo = <<>> /\ fail = FALSE /\ verdict = "none"
  /\ failed = <<>>

Next ==
  \/ MakeVerify \/ RunTest \/ Exit
  \/ RunMutant \/ MutantDoesNotCompile \/ Report

Spec == Init /\ [][Next]_vars

-----------------------------------------------------------------------------
(***************************************************************************)
(* What the tests, and a verdict of make verify, are worth.                *)
(***************************************************************************)

Finished(b) == pc = "tests" /\ build = b /\ test > Tests

(***************************************************************************)
(* The scanner as it stands passes every check of the suite, of which      *)
(* there are 22 (README.md:46): the model agrees with the repository's own *)
(* expectations of each branch.                                            *)
(***************************************************************************)
CodePassesItsTests ==
  Finished("scan.c") => ut_checks = 22 /\ ut_failures = 0

\* The test written against each of the mutants of the Makefile.
Aim == [and3 |-> "pad_node_36_bytes_is_misaligned",
        ge   |-> "pad_node_ends_exactly_at_leb_end",
        neq  |-> "raw_padding_bytes"]

(***************************************************************************)
(* The test that is said to tell each of these regressions from the code   *)
(* (test_scan_a_node.c:122-123 and 132-133) does, and is the only one of   *)
(* the suite that does: none of the three is caught by accident.           *)
(***************************************************************************)
CaughtByItsTest ==
  \A m \in DOMAIN Aim : Finished(m) => failed[m] = {Aim[m]}

(***************************************************************************)
(* A PASS hides no survivor: whatever the list of mutants and whichever of *)
(* them compile, each one that ran failed a test, the last and all others. *)
(***************************************************************************)
NoSurvivorHidden ==
  verdict = "PASS" => \A b \in DOMAIN failed \ {"scan.c"} : failed[b] # {}

\* "make verify ... proves the tests catch regressions" (Makefile:12): a PASS
\* rests on a failed test for each of the mutants.
VerdictRestsOnTests ==
  verdict = "PASS" =>
    \A i \in DOMAIN Mutants : Mutants[i] \in DOMAIN failed /\ failed[Mutants[i]] # {}

\* "The remaining branches ... are covered as well so the whole function is
\* regression-proof" (test_scan_a_node.c:6-8): losing one of the comparisons
\* of the pad node branch is noticed.
RegressionsNoticed ==
  \A b \in PadEdits : Finished(b) => failed[b] # {}
=============================================================================
