-------------------------- MODULE MCRootfsPrepare --------------------------
(* Small instances of RootfsPrepare for TLC.                               *)
EXTENDS RootfsPrepare, TLC

\* Attempts are interchangeable.
Symmetry == Permutations(Attempts)
============================================================================
