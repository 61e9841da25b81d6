----------------------------- MODULE MCFileDialog -----------------------------
(***************************************************************************)
(* Small instances of FileDialog.                                          *)
(***************************************************************************)
EXTENDS FileDialog, TLC

CONSTANTS b1, b2, q1, q2, q3, p1, p2

Symmetric == Permutations(Queries) \cup Permutations(Browsers) \cup Permutations(Paths)
==============================================================================
