-------------------------- MODULE MCBuildSession --------------------------
(* Small instances of BuildSession for TLC.                                *)
EXTENDS BuildSession

\* One preflight stage, the input inventory and one input.
SmallPrep == <<"phase", "stage", "inputs", "asset">>

\* A phase without stages.
TinyPrep == <<"phase">>
============================================================================
