----------------------------- MODULE MCQualify -----------------------------
(* Small instances of Qualify for TLC.                                     *)
EXTENDS Qualify

OneLine == <<"cu130">>
NoProfile == <<>>
=============================================================================
