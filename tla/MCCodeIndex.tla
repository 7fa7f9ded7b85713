---------------------------- MODULE MCCodeIndex ----------------------------
(* Finite instances of CodeIndex. *)
EXTENDS CodeIndex, TLC

MCSymmetry == Permutations(File) \union Permutations(Content) \union Permutations(Editor)
============================================================================
