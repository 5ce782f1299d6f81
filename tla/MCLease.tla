------------------------------ MODULE MCLease ------------------------------
(* Small instances of Lease for TLC.                                       *)
EXTENDS Lease, TLC

CONSTANTS c1, c2, c3, here, there

\* Two clients on one host.
LocalHost == [c \in Clients |-> here]

\* One of the clients runs on another host.
TwoHosts == [c \in Clients |-> IF c = c1 THEN there ELSE here]

IdSymmetry == Permutations(Ids)
============================================================================
