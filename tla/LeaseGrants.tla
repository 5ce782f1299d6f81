---------------------------- MODULE LeaseGrants ----------------------------
(***************************************************************************)
(* What the lease command promises its clients, without files, flocks or   *)
(* processes: a set of leases in force in which no two conflict.  A lease  *)
(* enters the set only when it conflicts with none of those in force, one  *)
(* at a time; leases leave it for any reason (release, expiry, death).     *)
(***************************************************************************)
CONSTANT Conflict(_, _)
VARIABLE grants

Init == grants = {}

Grant ==
    \E l \in grants' \ grants :
        /\ grants' = grants \cup {l}
        /\ \A m \in grants : ~ Conflict(l, m)

Lose == grants' \subseteq grants

Next == Grant \/ Lose

Spec == Init /\ [][Next]_grants

\* No two leases in force conflict.
Compatible == \A l, m \in grants : ~ Conflict(l, m)
============================================================================
