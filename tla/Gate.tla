-------------------------------- MODULE Gate --------------------------------
(***************************************************************************)
(* One release gate: foundry/scripts/agents/triumvirate-gate-insula.sh     *)
(* runs the stages of a profile and tools/triumvirate_acceptance.py turns  *)
(* their sub-results and the waivers into an acceptance document.          *)
(*                                                                         *)
(* The checks all run, whatever fails.  A failed release stage, or failed  *)
(* native prefixes, makes every later release stage skipped.               *)
(***************************************************************************)
EXTENDS Integers, Sequences, FiniteSets, Functions

CONSTANTS
    Checks,   \* checks of the rootfs, the graphs, the prefixes and workloads
    Prefixes, \* stages that build and resolve the native prefixes
    Pipeline  \* release stages, in their order

ASSUME GateAssumption ==
    /\ IsFiniteSet(Checks) /\ IsFiniteSet(Prefixes)
    /\ Pipeline \in Seq(Range(Pipeline)) /\ Pipeline # <<>> /\ IsInjective(Pipeline)
    /\ Checks \cap Prefixes = {}
    /\ (Checks \cup Prefixes) \cap Range(Pipeline) = {}

Stages == Checks \cup Prefixes \cup Range(Pipeline)

\* release_pipeline_failed before the i-th release stage; ok tells which
\* stages pass if they run.
PipelineFailed(ok, i) ==
    \/ \E s \in Prefixes : ~ok[s]
    \/ \E j \in 1..(i - 1) : ~ok[Pipeline[j]]

\* The stages that run; the others are skipped (upstream failed).
Ran(ok) == Checks \cup Prefixes \cup
           {Pipeline[i] : i \in {j \in DOMAIN Pipeline : ~PipelineFailed(ok, j)}}

\* Mutant: a waiver covers a skipped stage too.
FailedSubResults_WaivedSkip(ok, waivers) ==
    {s \in Stages : (s \in Ran(ok) => ~ok[s]) /\ s \notin waivers}

\* failed_sub_results: a waiver covers a stage that ran and failed, never a
\* skipped one.
FailedSubResults(ok, waivers) ==
    {s \in Stages : s \in Ran(ok) => ~ok[s] /\ s \notin waivers}

\* Mutant: the release evidence is always passed on.
ReleaseSection_Always(ok) == TRUE

\* The release evidence is passed on unless the pipeline failed.
ReleaseSection(ok) == ~PipelineFailed(ok, Len(Pipeline) + 1)

\* build_acceptance_doc: failed, or passed with (full) or without (bare) a
\* release section.  files: every prefix, digest and evidence file is there,
\* says passed, and every waiver has its human decision.
Acceptance(ok, waivers, files) ==
    IF FailedSubResults(ok, waivers) # {} \/ ~files THEN "failed"
    ELSE IF ReleaseSection(ok) THEN "full" ELSE "bare"

\* A gate ends with exit code zero exactly if the acceptance passed and was
\* copied out of the insula.  A missing token, tool or rootfs and the timeout
\* of the caller end it before that, and so does a copy that fails.  With the
\* document come whether every stage ran and whether each of the pipeline
\* passed.
GateOutcomes ==
    {[acceptance |-> Acceptance(ok, waivers, files),
      ran |-> Ran(ok) = Stages,
      proven |-> \A i \in DOMAIN Pipeline : Pipeline[i] \in Ran(ok) /\ ok[Pipeline[i]]] :
        ok \in [Stages -> BOOLEAN], waivers \in SUBSET Stages, files \in BOOLEAN}
    \cup {[acceptance |-> "failed", ran |-> FALSE, proven |-> FALSE]}

=============================================================================
