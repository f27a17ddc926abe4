--------------------------- MODULE MCVerifyKernel ---------------------------
(***************************************************************************)
(* Crash points for VerifyKernel: every step of the script.                *)
(***************************************************************************)
EXTENDS VerifyKernel

AllSteps ==
  {"clone", "log", "am", "apply", "diff", "cp", "run", "report"} \cup Targets
=============================================================================
