-------------------------- MODULE MCMutationCheck ---------------------------
(***************************************************************************)
(* Lists of mutants for MutationCheck: the Makefile's, and the two that    *)
(* drop a comparison from the pad node branch.                             *)
(***************************************************************************)
EXTENDS MutationCheck

ShippedMutants == <<"and3", "ge", "neq">>
DroppedChecks  == <<"unbounded", "unsigned">>

\* Survivors in front of, between and behind mutants that are caught.
MixedMutants == <<"unbounded", "and3", "unmatched", "ge", "unsigned", "neq">>
=============================================================================
