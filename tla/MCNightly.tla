----------------------------- MODULE MCNightly -----------------------------
(* Small instances of Nightly for TLC.                                     *)
EXTENDS Nightly

\* One profile on both lines, and the shortest pipeline with a stage between.
Torch == <<<<"torch", "cu130">>, <<"torch", "cu129">>>>
Cu130 == {<<"torch", "cu130">>}
Stages3 == <<"release_wheels", "sbom", "consumer_conformance">>
=============================================================================
