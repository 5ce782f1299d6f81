------------------------------ MODULE MCClaims ------------------------------
(* Small instances of Claims for TLC.                                      *)
EXTENDS Claims, TLC

\* Agents are interchangeable in invariants.
Symmetry == Permutations(Agents)
=============================================================================
