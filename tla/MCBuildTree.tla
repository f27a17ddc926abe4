---------------------------- MODULE MCBuildTree -----------------------------
(***************************************************************************)
(* The inputs that change: one that one object reads, one that all read.   *)
(***************************************************************************)
EXTENDS BuildTree

FewSources == {"scan.c", "ubifs.h"}
=============================================================================
