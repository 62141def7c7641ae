--------------------------- MODULE MCFinalAssembler ----------------------------
(***************************************************************************)
(* Small instances of FinalAssembler.                                      *)
(***************************************************************************)
EXTENDS FinalAssembler, TLC

CONSTANTS a, b, x, y

Symmetry == Permutations(ToolIds) \cup Permutations(Fragments)
===============================================================================
