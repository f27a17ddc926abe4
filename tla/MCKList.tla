------------------------------ MODULE MCKList -------------------------------
(***************************************************************************)
(* KList on a few cells, all of them alike.                                *)
(***************************************************************************)
EXTENDS KList, TLC

CellSymmetry == Permutations(Cells)
=============================================================================
