------------------------------ MODULE MCFiles ------------------------------
(***************************************************************************)
(* Small instances of Files for TLC.                                       *)
(***************************************************************************)
EXTENDS Files, TLC

Symmetry == Permutations(Objects) \cup Permutations(Filenames)
=============================================================================
