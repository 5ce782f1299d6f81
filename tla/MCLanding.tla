----------------------------- MODULE MCLanding -----------------------------
(* Small instances of Landing for TLC.                                     *)
EXTENDS Landing

CONSTANTS l1, f0, f1

\* The lead's patch is allowlisted, those of the follower are not.
Docs == [p \in {l1, f0, f1} |-> IF p = l1 THEN "docs" ELSE "tools"]
\* One commit of the follower is older than the loop.
Moved == <<f0>>
=============================================================================
