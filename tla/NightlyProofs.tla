--------------------------- MODULE NightlyProofs ---------------------------
(***************************************************************************)
(* Proofs about Gate and Nightly for every pipeline, matrix and number of  *)
(* nights: what a gate accepts ran and, with a release section, passed;    *)
(* what is released was proven; and what the pruning keeps.                *)
(***************************************************************************)
EXTENDS Nightly, FiniteSetTheorems, TLAPS

(* A gate is accepted only if every stage ran: no waiver makes up for a stage
   that was skipped (failed_sub_results). *)
LEMMA AcceptedRanAll ==
    ASSUME NEW ok \in [Stages -> BOOLEAN], NEW waivers \in SUBSET Stages,
           NEW files \in BOOLEAN, Acceptance(ok, waivers, files) # "failed"
    PROVE  Ran(ok) = Stages
<1>1. FailedSubResults(ok, waivers) = {}
  BY DEF Acceptance
<1>2. \A s \in Stages : s \in Ran(ok)
  BY <1>1 DEF FailedSubResults
<1>3. Ran(ok) \subseteq Stages
  <2>1. \A i \in DOMAIN Pipeline : Pipeline[i] \in Range(Pipeline)
    BY DEF Range
  <2> QED BY <2>1 DEF Ran, Stages
<1> QED BY <1>2, <1>3

(* A gate is accepted with a release section only if every stage of the
   pipeline ran and passed, whatever was waived (build_acceptance_doc). *)
LEMMA FullIsProven ==
    ASSUME NEW ok \in [Stages -> BOOLEAN], NEW waivers \in SUBSET Stages,
           NEW files \in BOOLEAN, Acceptance(ok, waivers, files) = "full"
    PROVE  \A i \in DOMAIN Pipeline : Pipeline[i] \in Ran(ok) /\ ok[Pipeline[i]]
<1>1. ~PipelineFailed(ok, Len(Pipeline) + 1)
  BY DEF Acceptance, ReleaseSection
<1>2. DOMAIN Pipeline = 1..Len(Pipeline) /\ Len(Pipeline) \in Nat
  BY GateAssumption
<1>3. \A i \in DOMAIN Pipeline : ok[Pipeline[i]]
  BY <1>1, <1>2 DEF PipelineFailed
<1>4. \A i \in DOMAIN Pipeline : ~PipelineFailed(ok, i)
  BY <1>1, <1>2 DEF PipelineFailed
<1> QED BY <1>3, <1>4 DEF Ran

(* So it is with every outcome of a gate. *)
LEMMA OutcomesTrue ==
    ASSUME NEW o \in GateOutcomes
    PROVE  /\ o.acceptance \in {"failed", "bare", "full"}
           /\ o.acceptance # "failed" => o.ran
           /\ o.acceptance = "full" => o.proven
<1>1. CASE o = [acceptance |-> "failed", ran |-> FALSE, proven |-> FALSE]
  BY <1>1
<1>2. ASSUME NEW ok \in [Stages -> BOOLEAN], NEW waivers \in SUBSET Stages,
             NEW files \in BOOLEAN,
             o = [acceptance |-> Acceptance(ok, waivers, files),
                  ran |-> Ran(ok) = Stages,
                  proven |-> \A i \in DOMAIN Pipeline :
                                Pipeline[i] \in Ran(ok) /\ ok[Pipeline[i]]]
      PROVE  /\ o.acceptance \in {"failed", "bare", "full"}
             /\ o.acceptance # "failed" => o.ran
             /\ o.acceptance = "full" => o.proven
  <2>1. Acceptance(ok, waivers, files) \in {"failed", "bare", "full"}
    BY DEF Acceptance
  <2>2. o.acceptance = Acceptance(ok, waivers, files)
    BY <1>2
  <2>3. o.ran = (Ran(ok) = Stages)
    BY <1>2, Zenon
  <2>4. o.proven = \A i \in DOMAIN Pipeline :
                      Pipeline[i] \in Ran(ok) /\ ok[Pipeline[i]]
    BY <1>2, Zenon
  <2>5. o.acceptance # "failed" => o.ran
    BY <2>2, <2>3, AcceptedRanAll, Zenon
  <2>6. o.acceptance = "full" => o.proven
    BY <2>2, <2>4, FullIsProven, Zenon
  <2> QED BY <2>1, <2>2, <2>5, <2>6
<1>3. \/ o = [acceptance |-> "failed", ran |-> FALSE, proven |-> FALSE]
      \/ \E ok \in [Stages -> BOOLEAN], waivers \in SUBSET Stages, files \in BOOLEAN :
            o = [acceptance |-> Acceptance(ok, waivers, files),
                 ran |-> Ran(ok) = Stages,
                 proven |-> \A i \in DOMAIN Pipeline :
                               Pipeline[i] \in Ran(ok) /\ ok[Pipeline[i]]]
  BY DEF GateOutcomes
<1> QED BY <1>1, <1>2, <1>3

----------------------------------------------------------------------------
(* The inductive invariant *)

\* Steps of a night before it has a summary, and from the first to the second.
Testing == {"headroom", "wait", "lease", "gate", "det", "summary"}
Pruning == {"gc", "delete", "again"}

Proofs == [ran : SUBSET Gates, proven : SUBSET Gates, stray : SUBSET Gates]
Summaries == [verdict : {"none", "failed", "passed"}, sha : Nat,
              full : SUBSET Gates, dets : SUBSET Gates]
Jobs == [gate : Gates, sha : Nat, run : Nights]

NightTypes ==
    /\ tree \in Nat /\ sha \in Nat
    /\ cur \in 0..MaxNights /\ (npc # "idle" => cur \in Nights)
    /\ at \in DOMAIN Matrix
    /\ gates \in [Gates -> {"todo", "missing", "failed", "bare", "full"}]
    /\ dets \in [Gates -> DetResults]
    /\ did \in Proofs
    /\ proof \in [Nights -> Proofs]
    /\ summary \in [Nights -> Summaries]
    /\ dirs \subseteq Nights /\ cands \subseteq Nights
    /\ cpc # "idle" => job \in Jobs
    /\ releases \subseteq Jobs

\* A night has no summary before it is written.
NoneBefore ==
    \A n \in Nights :
        n > cur \/ (n = cur /\ npc \in Testing) => summary[n].verdict = "none"

\* A gate whose result is passed ran all of its stages, and proved the release
\* stages if it has a release section.
DidTrue ==
    \A g \in Gates :
        /\ gates[g] \in {"bare", "full"} => g \in did.ran
        /\ gates[g] = "full" => g \in did.proven

\* From the first to the second summary the results do not change.
SameResults ==
    npc \in Pruning => /\ summary[cur].verdict = "passed"
                       /\ summary[cur].full = {g \in Gates : gates[g] = "full"}
                       /\ summary[cur].dets = Reported(dets)
                       /\ proof[cur] = did

\* What a summary that once was green stands for, also when it turns red.
Proven(n) ==
    /\ summary[n].verdict # "none"
    /\ proof[n].ran = Gates
    /\ summary[n].full \subseteq proof[n].proven

GreenProven == \A n \in Nights : summary[n].verdict = "passed" => Proven(n)

Determined(r) == {r.gate[1]} \X Lines \subseteq summary[r.run].dets

\* What cut.py has checked so far.
JobProven ==
    /\ cpc # "idle" => Proven(job.run) /\ Determined(job)
    /\ cpc \in {"copy", "publish"} => job.gate \in summary[job.run].full

ReleasesProven ==
    \A r \in releases :
        Proven(r.run) /\ Determined(r) /\ r.gate \in summary[r.run].full

\* What is about to be deleted belongs to no release made before the scan.
CandsRaced ==
    /\ cands # {} => npc = "delete"
    /\ \A r \in releases : r.run \in cands => r.run \in raced

\* Green nights that stay green.
Settled == {n \in Nights : summary[n].verdict = "passed" /\ (n = cur => npc \notin Pruning)}
Newer(n) == {m \in Settled : m > n}

\* A green night was pruned, or is about to be, only for KeepGreen - 1 newer ones
\* that stay green.
PrunedForNewer ==
    \A n \in Nights :
        summary[n].verdict = "passed" /\ (n \notin dirs \/ n \in cands)
        => Cardinality(Newer(n)) >= KeepGreen - 1

\* The directory of the night is there until it is pruned.
CurThere == npc \in Testing => cur \in dirs

NightInv ==
    /\ NightTypes /\ NoneBefore /\ DidTrue /\ SameResults /\ GreenProven
    /\ JobProven /\ ReleasesProven /\ CandsRaced /\ ReleasedKept
    /\ CurThere /\ PrunedForNewer

----------------------------------------------------------------------------
(* The invariant is inductive *)

(* The matrix is a sequence of gates, and positions in it are numbers. *)
LEMMA MatrixFacts ==
    /\ Len(Matrix) \in Nat /\ DOMAIN Matrix = 1..Len(Matrix) /\ 1 \in DOMAIN Matrix
    /\ \A i \in DOMAIN Matrix : Matrix[i] \in Gates
    /\ NoJob.gate \in Gates
<1>1. Matrix \in Seq(Gates) /\ Matrix # <<>>
  BY NightlyAssumption DEF Gates
<1>2. /\ Len(Matrix) \in Nat /\ DOMAIN Matrix = 1..Len(Matrix) /\ 1 \in DOMAIN Matrix
      /\ \A i \in DOMAIN Matrix : Matrix[i] \in Gates
  BY <1>1
<1>3. \E g : g \in Gates
  BY <1>2
<1> QED BY <1>2, <1>3 DEF NoJob

(* The variables of nightly.sh keep their types when it ends. *)
LEMMA EndsTypes ==
    ASSUME NightTypes, Ends
    PROVE  /\ sha' \in Nat /\ cur' \in 0..MaxNights /\ npc' = "idle"
           /\ at' \in DOMAIN Matrix /\ did' \in Proofs
           /\ gates' \in [Gates -> {"todo", "missing", "failed", "bare", "full"}]
           /\ dets' \in [Gates -> DetResults]
BY MatrixFacts DEF NightTypes, Ends, DetResults, Proofs, NoProof

(* So they do when a gate is done. *)
LEMMA GateDoneTypes ==
    ASSUME NightTypes, npc # "idle", NEW result \in {"missing", "failed", "bare", "full"},
           NEW proofs \in Proofs, NEW failed \in BOOLEAN, GateDone(result, proofs, failed)
    PROVE  /\ sha' \in Nat /\ cur' \in 0..MaxNights
           /\ npc' # "idle" => cur' \in Nights
           /\ at' \in DOMAIN Matrix /\ did' \in Proofs
           /\ gates' \in [Gates -> {"todo", "missing", "failed", "bare", "full"}]
           /\ dets' \in [Gates -> DetResults]
<1>1. CASE orphan
  BY <1>1, EndsTypes DEF GateDone
<1>2. CASE ~orphan
  <2>1. at' \in DOMAIN Matrix
    BY <1>2, MatrixFacts DEF GateDone, NextGate, NightTypes
  <2> QED BY <1>2, <2>1 DEF GateDone, NightTypes
<1> QED BY <1>1, <1>2

LEMMA NotRunTypes ==
    ASSUME NightTypes, npc # "idle", NotRun
    PROVE  /\ sha' \in Nat /\ cur' \in 0..MaxNights
           /\ npc' # "idle" => cur' \in Nights
           /\ at' \in DOMAIN Matrix /\ did' \in Proofs
           /\ gates' \in [Gates -> {"todo", "missing", "failed", "bare", "full"}]
           /\ dets' \in [Gates -> DetResults]
<1>1. PICK result \in {"failed", "missing"} : GateDone(result, did, TRUE)
  BY DEF NotRun
<1> QED BY <1>1, GateDoneTypes DEF NightTypes

(* A new summary of the night is a summary. *)
LEMMA SummariseTypes ==
    ASSUME NightTypes, NEW good \in BOOLEAN, Summarise(good), cur \in Nights
    PROVE  summary' \in [Nights -> Summaries]
<1>1. {g \in Gates : gates[g] = "full"} \in SUBSET Gates /\ Reported(dets) \in SUBSET Gates
  BY DEF Reported
<1>2. summary[cur] \in Summaries /\ sha \in Nat
  BY DEF NightTypes
<1> QED BY <1>1, <1>2 DEF Summarise, NightTypes, Summaries

(* Every step keeps the types. *)
LEMMA NightTypesStep == NightTypes /\ [Next]_vars => NightTypes'
<1> SUFFICES ASSUME NightTypes, [Next]_vars PROVE NightTypes'
  OBVIOUS
<1> USE DEF night, estate, history, cutting, others
<1>1. CASE TreeMoves
  BY <1>1 DEF TreeMoves, NightTypes
<1>2. CASE ForeignMemory
  BY <1>2 DEF ForeignMemory, NightTypes
<1>3. CASE Ages
  BY <1>3 DEF Ages, NightTypes
<1>4. CASE Starts
  BY <1>4, NightlyAssumption DEF Starts, NightTypes, Nights
<1>5. CASE Headroom
  BY <1>5 DEF Headroom, NightTypes
<1>6. CASE GpuWait
  <2>1. CASE NotRun
    BY <1>6, <2>1, NotRunTypes DEF GpuWait, NightTypes
  <2>2. CASE npc' = "lease" /\ UNCHANGED <<orphan, cur, sha, at, late, gates, dets, red, did>>
    BY <1>6, <2>2 DEF GpuWait, NightTypes
  <2> QED BY <1>6, <2>1, <2>2 DEF GpuWait
<1>7. CASE Deadline
  BY <1>7 DEF Deadline, NightTypes
<1>8. CASE Leases
  <2>1. CASE NotRun
    BY <1>8, <2>1, NotRunTypes DEF Leases, NightTypes
  <2>2. CASE npc' = "gate" /\ UNCHANGED <<orphan, cur, sha, at, late, gates, dets, red, did>>
    BY <1>8, <2>2 DEF Leases, NightTypes
  <2> QED BY <1>8, <2>1, <2>2 DEF Leases
<1>9. CASE GateEnds
  <2>1. PICK o \in GateOutcomes, recorded \in BOOLEAN :
          LET passed == o.acceptance # "failed"
              done == {g \in {Matrix[at]} : passed /\ recorded}
          IN  GateDone(IF recorded THEN o.acceptance ELSE "missing",
                       [ran |-> did.ran \cup {g \in done : o.ran},
                        proven |-> did.proven \cup {g \in done : o.proven},
                        stray |-> did.stray \cup {g \in done : tree # sha}],
                       ~passed)
    BY <1>9 DEF GateEnds
  <2> DEFINE passed == o.acceptance # "failed"
             done == {g \in {Matrix[at]} : passed /\ recorded}
             proofs == [ran |-> did.ran \cup {g \in done : o.ran},
                        proven |-> did.proven \cup {g \in done : o.proven},
                        stray |-> did.stray \cup {g \in done : tree # sha}]
  <2>2. proofs \in Proofs
    BY MatrixFacts DEF Proofs, NightTypes
  <2>3. (IF recorded THEN o.acceptance ELSE "missing") \in {"missing", "failed", "bare", "full"}
    BY OutcomesTrue
  <2>4. npc # "idle"
    BY <1>9 DEF GateEnds
  <2> QED BY <1>9, <2>1, <2>2, <2>3, <2>4, GateDoneTypes DEF GateEnds, NightTypes
<1>10. CASE Determinism
  <2>1. CASE orphan
    BY <1>10, <2>1, EndsTypes DEF Determinism, NightTypes
  <2>2. CASE ~orphan
    BY <1>10, <2>2, MatrixFacts DEF Determinism, NightTypes, DetResults
  <2> QED BY <2>1, <2>2
<1>11. CASE WriteSummary
  <2>1. summary' \in [Nights -> Summaries]
    BY <1>11, SummariseTypes DEF WriteSummary, NightTypes
  <2>2. proof' \in [Nights -> Proofs]
    BY <1>11 DEF WriteSummary, NightTypes
  <2> QED BY <1>11, <2>1, <2>2 DEF WriteSummary, NightTypes
<1>12. CASE GcScan
  BY <1>12 DEF GcScan, NightTypes
<1>13. CASE GcDeletes
  BY <1>13 DEF GcDeletes, NightTypes
<1>14. CASE GcEnds
  BY <1>14 DEF GcEnds, NightTypes
<1>15. CASE SummaryAgain
  <2>1. CASE orphan
    BY <1>15, <2>1, EndsTypes DEF SummaryAgain, NightTypes
  <2>2. CASE ~orphan
    <3>1. summary' \in [Nights -> Summaries]
      BY <1>15, <2>2, SummariseTypes DEF SummaryAgain, NightTypes
    <3> QED BY <1>15, <2>2, <3>1 DEF SummaryAgain, NightTypes
  <2> QED BY <2>1, <2>2
<1>16. CASE WriteState
  BY <1>16, EndsTypes DEF WriteState, NightTypes
<1>17. CASE GpuUnknown
  BY <1>17, NotRunTypes DEF GpuUnknown, NightTypes
<1>18. CASE Killed
  <2>1. CASE Ends /\ cands' = {}
    BY <1>18, <2>1, EndsTypes DEF Killed, NightTypes
  <2>2. CASE UNCHANGED <<foreign, npc, cur, sha, at, late, gates, dets, red, did, cands>>
    BY <1>18, <2>2 DEF Killed, NightTypes
  <2> QED BY <1>18, <2>1, <2>2 DEF Killed
<1>19. CASE CutSelects
  <2>1. job' \in Jobs
    <3>1. PICK g \in Cuttable, c \in 0..tree, n \in dirs :
            job' = [gate |-> g, sha |-> c, run |-> n]
      BY <1>19 DEF CutSelects
    <3>2. g \in Gates /\ c \in Nat /\ n \in Nights
      BY NightlyAssumption DEF NightTypes, Gates
    <3> QED BY <3>1, <3>2 DEF Jobs
  <2> QED BY <1>19, <2>1 DEF CutSelects, NightTypes
<1>20. CASE CutChecks
  BY <1>20 DEF CutChecks, CutFails, NightTypes
<1>21. CASE CutCopies
  BY <1>21 DEF CutCopies, CutFails, NightTypes
<1>22. CASE CutPublishes
  BY <1>22 DEF CutPublishes, NightTypes
<1>23. CASE UNCHANGED vars
  BY <1>23 DEF vars, NightTypes
<1> QED
  BY <1>1, <1>2, <1>3, <1>4, <1>5, <1>6, <1>7, <1>8, <1>9, <1>10, <1>11, <1>12,
     <1>13, <1>14, <1>15, <1>16, <1>17, <1>18, <1>19, <1>20, <1>21, <1>22, <1>23
  DEF Next, Night, Cut

(* Only the two summaries change summaries. *)
LEMMA SummaryFrame == [Next]_vars => WriteSummary \/ SummaryAgain \/ UNCHANGED <<summary, proof>>
BY DEF Next, Night, Cut, vars, night, estate, history, cutting, others, TreeMoves,
       ForeignMemory, Ages, Starts, Headroom, GpuWait, Deadline, Leases, GateEnds,
       Determinism, GcScan, GcDeletes, GcEnds, WriteState, GpuUnknown, Killed,
       CutSelects, CutChecks, CutCopies, CutPublishes

(* Only cut.py changes what is cut and released. *)
LEMMA CutFrame == [Next]_vars => Cut \/ UNCHANGED <<cpc, job, releases, raced>>
BY DEF Next, Night, vars, night, estate, history, cutting, TreeMoves, ForeignMemory,
       Ages, Starts, Headroom, GpuWait, Deadline, Leases, GateEnds, Determinism,
       WriteSummary, GcScan, GcDeletes, GcEnds, SummaryAgain, WriteState, GpuUnknown,
       Killed

(* And cut.py changes nothing else. *)
LEMMA CutLeaves == Cut => UNCHANGED <<tree, night, estate, proof>>
BY DEF Cut, CutSelects, CutChecks, CutCopies, CutPublishes, others

(* What a summary says stays, once it is written, except that its verdict may
   turn red: the second summary is of the same results as the first. *)
LEMMA SummaryStays ==
    ASSUME NightInv, [Next]_vars, NEW n \in Nights, summary[n].verdict # "none"
    PROVE  /\ summary'[n].verdict # "none" /\ proof'[n] = proof[n]
           /\ summary'[n].full = summary[n].full /\ summary'[n].dets = summary[n].dets
<1> USE DEF NightInv, NightTypes
<1>1. CASE WriteSummary
  <2>1. npc = "summary"
    BY <1>1 DEF WriteSummary
  <2>2. n # cur
    BY <2>1 DEF NoneBefore, Testing
  <2>3. PICK slos \in BOOLEAN : Summarise(slos)
    BY <1>1 DEF WriteSummary
  <2>4. summary'[n] = summary[n]
    BY <2>2, <2>3 DEF Summarise
  <2>5. proof'[n] = proof[n]
    BY <1>1, <2>2 DEF WriteSummary
  <2> QED BY <2>4, <2>5
<1>2. CASE SummaryAgain /\ ~orphan
  <2>1. /\ summary[cur].full = {g \in Gates : gates[g] = "full"}
        /\ summary[cur].dets = Reported(dets)
    BY <1>2 DEF SummaryAgain, SameResults, Pruning
  <2>2. proof'[n] = proof[n]
    BY <1>2 DEF SummaryAgain, history
  <2>3. Summarise(TRUE) /\ cur \in Nights
    BY <1>2 DEF SummaryAgain
  <2>4. CASE n = cur
    <3>1. summary[cur] \in Summaries
      BY <2>3
    <3>2. CASE summary'[n] = [verdict |-> "passed", sha |-> sha,
                             full |-> {g \in Gates : gates[g] = "full"},
                             dets |-> Reported(dets)]
      BY <2>1, <2>2, <2>4, <3>2
    <3>3. CASE summary'[n] = [summary[cur] EXCEPT !.verdict = "failed", !.sha = sha]
      BY <2>2, <2>4, <3>1, <3>3 DEF Summaries
    <3> QED BY <2>3, <2>4, <3>2, <3>3 DEF Summarise
  <2>5. CASE n # cur
    BY <2>2, <2>3, <2>5 DEF Summarise
  <2> QED BY <2>4, <2>5
<1>3. CASE SummaryAgain /\ orphan
  BY <1>3 DEF SummaryAgain, history
<1>4. CASE UNCHANGED <<summary, proof>>
  BY <1>4
<1> QED BY <1>1, <1>2, <1>3, <1>4, SummaryFrame

(* So a proven night stays proven. *)
LEMMA ProvenStays ==
    ASSUME NightInv, [Next]_vars, NEW n \in Nights, Proven(n)
    PROVE  Proven(n)'
BY SummaryStays DEF Proven

(* A gate that is done and recorded as passed has the proof of it. *)
LEMMA GateDoneTrue ==
    ASSUME NightTypes, DidTrue, NEW result, NEW proofs \in Proofs, NEW failed,
           GateDone(result, proofs, failed),
           did.ran \subseteq proofs.ran, did.proven \subseteq proofs.proven,
           result \in {"bare", "full"} => Matrix[at] \in proofs.ran,
           result = "full" => Matrix[at] \in proofs.proven
    PROVE  DidTrue'
BY DEF NightTypes, DidTrue, GateDone, Ends, NoProof

(* The results of the gates are backed by what they did, after every step. *)
LEMMA DidTrueStep == ASSUME NightInv, [Next]_vars PROVE DidTrue'
<1> USE DEF NightInv
<1>1. ASSUME NotRun PROVE DidTrue'
  <2>1. PICK result \in {"failed", "missing"} : GateDone(result, did, TRUE)
    BY <1>1 DEF NotRun
  <2> QED BY <2>1, GateDoneTrue DEF NightTypes
<1>2. ASSUME Ends PROVE DidTrue'
  BY <1>2 DEF Ends, DidTrue
<1>3. ASSUME UNCHANGED <<gates, did>> PROVE DidTrue'
  BY <1>3 DEF DidTrue
<1>4. CASE GateEnds
  <2>1. PICK o \in GateOutcomes, recorded \in BOOLEAN :
          LET passed == o.acceptance # "failed"
              done == {g \in {Matrix[at]} : passed /\ recorded}
          IN  GateDone(IF recorded THEN o.acceptance ELSE "missing",
                       [ran |-> did.ran \cup {g \in done : o.ran},
                        proven |-> did.proven \cup {g \in done : o.proven},
                        stray |-> did.stray \cup {g \in done : tree # sha}],
                       ~passed)
    BY <1>4 DEF GateEnds
  <2> DEFINE passed == o.acceptance # "failed"
             done == {g \in {Matrix[at]} : passed /\ recorded}
             result == IF recorded THEN o.acceptance ELSE "missing"
             proofs == [ran |-> did.ran \cup {g \in done : o.ran},
                        proven |-> did.proven \cup {g \in done : o.proven},
                        stray |-> did.stray \cup {g \in done : tree # sha}]
  <2>2. proofs \in Proofs
    BY MatrixFacts DEF Proofs, NightTypes
  <2>3. result \in {"bare", "full"} => Matrix[at] \in proofs.ran
    BY OutcomesTrue
  <2>4. result = "full" => Matrix[at] \in proofs.proven
    BY OutcomesTrue
  <2>5. did.ran \subseteq proofs.ran /\ did.proven \subseteq proofs.proven
    OBVIOUS
  <2> QED BY <2>1, <2>2, <2>3, <2>4, <2>5, GateDoneTrue
<1>5. CASE GpuWait \/ Leases \/ GpuUnknown
  BY <1>1, <1>3, <1>5 DEF GpuWait, Leases, GpuUnknown
<1>6. CASE Determinism \/ SummaryAgain \/ WriteState \/ Killed
  BY <1>2, <1>3, <1>6 DEF Determinism, SummaryAgain, WriteState, Killed
<1>7. CASE TreeMoves \/ ForeignMemory \/ Ages \/ Starts \/ Headroom \/ Deadline
  BY <1>3, <1>7 DEF TreeMoves, ForeignMemory, Ages, Starts, Headroom, Deadline, night
<1>8. CASE WriteSummary \/ GcScan \/ GcDeletes \/ GcEnds \/ Cut \/ UNCHANGED vars
  BY <1>3, <1>8, CutLeaves DEF WriteSummary, GcScan, GcDeletes, GcEnds, night, vars
<1> QED BY <1>4, <1>5, <1>6, <1>7, <1>8 DEF Next, Night

(* A night becomes green only with every gate of the matrix passed. *)
LEMMA GreenProvenStep == ASSUME NightInv, [Next]_vars PROVE GreenProven'
<1> SUFFICES ASSUME NEW n \in Nights, summary'[n].verdict = "passed" PROVE Proven(n)'
  BY DEF GreenProven
<1>1. CASE summary[n].verdict = "passed"
  BY <1>1, ProvenStays DEF NightInv, GreenProven
<1>2. CASE summary[n].verdict # "passed"
  <2>1. WriteSummary \/ SummaryAgain
    BY <1>2, SummaryFrame
  <2>2. ~SummaryAgain
    <3> SUFFICES ASSUME SummaryAgain PROVE FALSE
      OBVIOUS
    <3>1. n # cur
      BY <1>2 DEF SummaryAgain, NightInv, SameResults, Pruning
    <3> QED BY <1>2, <3>1 DEF SummaryAgain, Summarise, NightInv, NightTypes
  <2>3. PICK slos \in BOOLEAN : Summarise(slos)
    BY <2>1, <2>2 DEF WriteSummary
  <2>4. n = cur
    BY <1>2, <2>3 DEF Summarise, NightInv, NightTypes
  <2>5. summary[cur] \in Summaries /\ summary[cur].verdict = "none"
    BY <2>1, <2>2, <2>4 DEF WriteSummary, NightInv, NightTypes, NoneBefore, Testing
  <2>6. /\ MatrixPassed
        /\ summary'[n].full = {g \in Gates : gates[g] = "full"}
    BY <2>3, <2>4, <2>5 DEF Summarise, Summaries, NightInv, NightTypes
  <2>7. proof'[n] = did
    BY <2>1, <2>2, <2>4 DEF WriteSummary, NightInv, NightTypes
  <2>8. did.ran = Gates
    BY <2>6 DEF MatrixPassed, StagePassed, NightInv, DidTrue, NightTypes, Proofs
  <2> QED BY <2>6, <2>7, <2>8 DEF Proven, NightInv, DidTrue
<1> QED BY <1>1, <1>2

(* What cut.py read of a green night remains true while it copies, and of what
   it has released. *)
LEMMA CutProvenStep == ASSUME NightInv, [Next]_vars PROVE JobProven' /\ ReleasesProven'
<1> USE DEF NightInv, NightTypes
<1>0. ASSUME NEW r \in Jobs, Proven(r.run), Determined(r)
      PROVE  /\ Proven(r.run)' /\ Determined(r)'
             /\ summary'[r.run].full = summary[r.run].full
  <2>1. r.run \in Nights /\ summary[r.run].verdict # "none"
    BY <1>0 DEF Jobs, Proven
  <2>2. Proven(r.run)'
    BY <1>0, <2>1, ProvenStays
  <2>3. /\ summary'[r.run].full = summary[r.run].full
        /\ summary'[r.run].dets = summary[r.run].dets
    BY <2>1, SummaryStays
  <2> QED BY <1>0, <2>2, <2>3 DEF Determined
<1>1. CASE UNCHANGED <<cpc, job, releases, raced>>
  <2>1. JobProven'
    BY <1>0, <1>1 DEF JobProven, Determined
  <2>2. ReleasesProven'
    BY <1>0, <1>1 DEF ReleasesProven
  <2> QED BY <2>1, <2>2
<1>2. CASE Cut
  <2>0. UNCHANGED <<summary, proof>>
    BY <1>2, CutLeaves DEF estate
  <2>1. CASE CutSelects
    <3>1. PICK g \in Cuttable, c \in 0..tree, n \in dirs :
            /\ Selectable(n, g, c)
            /\ job' = [gate |-> g, sha |-> c, run |-> n]
      BY <2>1 DEF CutSelects
    <3>2. /\ n \in Nights /\ summary[n].verdict = "passed"
          /\ {g[1]} \X Lines \subseteq summary[n].dets
      BY <3>1 DEF Selectable
    <3>3. Proven(n)
      BY <3>2 DEF GreenProven
    <3>4. job'.run = n /\ job'.gate = g
      BY <3>1
    <3> QED BY <2>0, <2>1, <3>2, <3>3, <3>4
        DEF CutSelects, JobProven, ReleasesProven, Proven, Determined
  <2>2. CASE CutChecks
    BY <2>0, <2>2 DEF CutChecks, CutFails, JobProven, ReleasesProven, Proven, Determined
  <2>3. CASE CutCopies
    BY <2>0, <2>3 DEF CutCopies, CutFails, JobProven, ReleasesProven, Proven, Determined
  <2>4. CASE CutPublishes
    BY <2>0, <2>4 DEF CutPublishes, JobProven, ReleasesProven, Proven, Determined
  <2> QED BY <1>2, <2>1, <2>2, <2>3, <2>4 DEF Cut
<1> QED BY <1>1, <1>2, CutFrame

\* What depends on how far the night is.
Phases == NoneBefore /\ SameResults /\ CurThere

(* Between its summaries a night has the results of the first one, and before
   them none. *)
LEMMA PhasesStep == ASSUME NightInv, [Next]_vars PROVE Phases'
<1> USE DEF NightInv, NightTypes, Phases, NoneBefore, SameResults, CurThere,
            Testing, Pruning, Nights, Reported
<1>1. ASSUME Ends, UNCHANGED summary PROVE Phases'
  BY <1>1 DEF Ends
<1>2. ASSUME npc \in Testing, UNCHANGED <<summary, cur, dirs>>, npc' \in Testing
      PROVE  Phases'
  BY <1>2
<1>3. ASSUME UNCHANGED <<npc, cur, summary, proof, gates, dets, did>>, npc \notin Testing
      PROVE  Phases'
  BY <1>3
<1>4. ASSUME UNCHANGED <<npc, cur, summary, proof, gates, dets, did, dirs>>
      PROVE  Phases'
  BY <1>4
<1>5. ASSUME NotRun, npc \in Testing, UNCHANGED <<summary, dirs>> PROVE Phases'
  BY <1>1, <1>2, <1>5 DEF NotRun, GateDone, NextGate
<1>6. CASE Starts
  <2>1. npc' = "headroom" /\ cur' = cur + 1 /\ summary' = summary /\ cur' \in dirs'
    BY <1>6 DEF Starts
  <2>2. \A n \in Nights : n >= cur + 1 => n > cur
    BY NightlyAssumption
  <2> QED BY <2>1, <2>2, NightlyAssumption
<1>7. CASE Headroom
  BY <1>2, <1>7 DEF Headroom, estate
<1>8. CASE GpuWait \/ GpuUnknown \/ Leases
  BY <1>2, <1>5, <1>8 DEF GpuWait, GpuUnknown, Leases, estate
<1>9. CASE GateEnds
  BY <1>1, <1>2, <1>9 DEF GateEnds, GateDone, NextGate, estate
<1>10. CASE Determinism
  BY <1>1, <1>2, <1>10 DEF Determinism, estate
<1>11. CASE WriteSummary
  <2>1. PICK slos \in BOOLEAN : Summarise(slos)
    BY <1>11 DEF WriteSummary
  <2>2. cur \in Nights /\ \A n \in Nights \ {cur} : summary'[n] = summary[n]
    BY <1>11, <2>1 DEF WriteSummary, Summarise
  <2>3. NoneBefore' /\ CurThere'
    BY <1>11, <2>2 DEF WriteSummary
  <2>4. summary[cur] \in Summaries
    BY <2>2
  <2>5. CASE summary'[cur].verdict = "passed"
    <3>1. /\ summary'[cur].full = {g \in Gates : gates[g] = "full"}
          /\ summary'[cur].dets = Reported(dets)
      BY <2>1, <2>2, <2>4, <2>5 DEF Summarise, Summaries
    <3>2. proof'[cur] = did /\ npc' = "gc" /\ UNCHANGED <<gates, dets, did, cur>>
      BY <1>11, <2>2, <2>5 DEF WriteSummary
    <3> QED BY <2>3, <2>5, <3>1, <3>2
  <2>6. CASE summary'[cur].verdict # "passed"
    BY <1>11, <2>3, <2>6 DEF WriteSummary
  <2> QED BY <2>5, <2>6
<1>12. CASE GcScan \/ GcEnds
  BY <1>12 DEF GcScan, GcEnds, history
<1>13. CASE GcDeletes
  BY <1>3, <1>13 DEF GcDeletes, night, history
<1>14. CASE SummaryAgain
  <2>1. CASE orphan
    BY <1>1, <1>14, <2>1 DEF SummaryAgain
  <2>2. CASE ~orphan
    BY <1>14, <2>2 DEF SummaryAgain, Summarise
  <2> QED BY <2>1, <2>2
<1>15. CASE WriteState
  BY <1>1, <1>15 DEF WriteState
<1>16. CASE Killed
  BY <1>1, <1>4, <1>16 DEF Killed, history
<1>17. CASE TreeMoves \/ ForeignMemory \/ Ages \/ Deadline
  BY <1>4, <1>17 DEF TreeMoves, ForeignMemory, Ages, Deadline, night, estate, history
<1>18. CASE Cut \/ UNCHANGED vars
  BY <1>4, <1>18, CutLeaves DEF night, estate, history, vars
<1> QED
  BY <1>6, <1>7, <1>8, <1>9, <1>10, <1>11, <1>12, <1>13, <1>14, <1>15, <1>16,
     <1>17, <1>18
  DEF Next, Night

(* The pruning is the only one that removes a run, and what it is about to
   remove was released, if at all, while it was under way. *)
LEMMA ReleasedKeptStep == ASSUME NightInv, [Next]_vars PROVE CandsRaced' /\ ReleasedKept'
<1> USE DEF NightInv, CandsRaced, ReleasedKept
<1>1. ASSUME UNCHANGED <<dirs, cands, releases, raced>>, cands # {} => npc' = "delete"
      PROVE  CandsRaced' /\ ReleasedKept'
  BY <1>1
<1>2. CASE GcScan
  BY <1>2 DEF GcScan, Referenced, cutting, history
<1>3. CASE GcDeletes
  BY <1>3 DEF GcDeletes, cutting, history, night
<1>4. CASE GcEnds
  BY <1>4 DEF GcEnds, cutting, history
<1>5. CASE Starts
  BY <1>5 DEF Starts, cutting, history
<1>6. CASE Killed
  BY <1>1, <1>6 DEF Killed, Ends, cutting, history
<1>7. CASE Cut
  <2>1. UNCHANGED <<npc, dirs, cands>>
    BY <1>7, CutLeaves DEF night, estate
  <2>2. CASE CutPublishes
    BY <2>1, <2>2 DEF CutPublishes
  <2>3. CASE CutSelects \/ CutChecks \/ CutCopies
    BY <1>1, <2>1, <2>3 DEF CutSelects, CutChecks, CutCopies
  <2> QED BY <1>7, <2>2, <2>3 DEF Cut
<1>8. CASE TreeMoves \/ ForeignMemory \/ Ages \/ UNCHANGED vars
  BY <1>1, <1>8 DEF TreeMoves, ForeignMemory, Ages, night, estate, cutting, history, vars
<1>9. CASE Headroom \/ GpuWait \/ Deadline \/ Leases \/ GateEnds \/ GpuUnknown
  BY <1>1, <1>9 DEF Headroom, GpuWait, Deadline, Leases, GateEnds, GpuUnknown,
                    estate, cutting, history
<1>10. CASE Determinism \/ WriteSummary \/ SummaryAgain \/ WriteState
  BY <1>1, <1>10 DEF Determinism, WriteSummary, SummaryAgain, WriteState, estate,
                     cutting, history
<1> QED BY <1>2, <1>3, <1>4, <1>5, <1>6, <1>7, <1>8, <1>9, <1>10 DEF Next, Night

(* A night that is green and past its pruning stays so. *)
LEMMA SettledStays == ASSUME NightInv, [Next]_vars PROVE Settled \subseteq Settled'
<1> USE DEF NightInv, NightTypes
<1>1. npc' \in Pruning => WriteSummary \/ (npc \in Pruning /\ cur' = cur)
  <2>1. CASE Starts \/ Headroom \/ GpuWait \/ Deadline \/ Leases \/ GateEnds
    BY <2>1 DEF Pruning, Starts, Headroom, GpuWait, Deadline, Leases, GateEnds,
                NotRun, GateDone, NextGate, Ends
  <2>2. CASE Determinism \/ GcScan \/ GcEnds \/ SummaryAgain \/ WriteState
    BY <2>2 DEF Pruning, Determinism, GcScan, GcEnds, SummaryAgain, WriteState, Ends
  <2>3. CASE GpuUnknown \/ Killed
    BY <2>3 DEF Pruning, GpuUnknown, Killed, NotRun, GateDone, NextGate, Ends
  <2>4. CASE TreeMoves \/ ForeignMemory \/ Ages \/ GcDeletes \/ Cut \/ UNCHANGED vars
    BY <2>4, CutLeaves DEF TreeMoves, ForeignMemory, Ages, GcDeletes, night, vars
  <2> QED BY <2>1, <2>2, <2>3, <2>4 DEF Next, Night
<1> SUFFICES ASSUME NEW n \in Nights, summary[n].verdict = "passed",
                    n = cur => npc \notin Pruning
             PROVE  summary'[n].verdict = "passed" /\ (n = cur' => npc' \notin Pruning)
  BY DEF Settled
<1>2. WriteSummary \/ SummaryAgain => n # cur
  BY DEF WriteSummary, SummaryAgain, NoneBefore, Testing, Pruning
<1>3. summary'[n].verdict = "passed"
  BY <1>2, SummaryFrame DEF WriteSummary, SummaryAgain, Summarise
<1>4. n = cur' => npc' \notin Pruning
  BY <1>1, <1>2 DEF WriteSummary
<1> QED BY <1>3, <1>4

(* So the green nights newer than n that stay become no fewer. *)
LEMMA NewerGrows ==
    ASSUME NightInv, [Next]_vars, NEW n \in Nights
    PROVE  /\ IsFiniteSet(Newer(n)) /\ Cardinality(Newer(n)) \in Nat
           /\ Cardinality(Newer(n))' \in Nat
           /\ Cardinality(Newer(n)) <= Cardinality(Newer(n))'
<1>1. IsFiniteSet(Nights)
  BY FS_Interval, NightlyAssumption DEF Nights
<1>2. Newer(n) \subseteq Nights /\ Newer(n)' \subseteq Nights
  BY DEF Newer, Settled
<1>3. IsFiniteSet(Newer(n)) /\ IsFiniteSet(Newer(n)')
  BY <1>1, <1>2, FS_Subset
<1>4. Newer(n) \subseteq Newer(n)'
  BY SettledStays DEF Newer
<1> QED BY <1>3, <1>4, FS_Subset, FS_CardinalityType

(* What a scan is about to prune has KeepGreen newer green nights, all but the
   current one of which stay green (gc_estate). *)
LEMMA ScanSparesNewest ==
    ASSUME NightInv, GcScan, NEW n \in Nights, summary[n].verdict = "passed",
           n \in dirs, n \notin Keep
    PROVE  Cardinality(Newer(n)) >= KeepGreen - 1
<1> DEFINE G == {m \in Green : m > n}
<1>1. G \subseteq Nights
  BY DEF Green, NightInv, NightTypes
<1>2. IsFiniteSet(Nights)
  BY FS_Interval, NightlyAssumption DEF Nights
<1>3. IsFiniteSet(G) /\ Cardinality(G) \in Nat
  BY <1>1, <1>2, FS_Subset, FS_CardinalityType
<1>4. ~(Cardinality(G) < KeepGreen)
  BY DEF Keep, Green
<1>5. IsFiniteSet(G \ {cur}) /\ Cardinality(G \ {cur}) \in Nat
      /\ Cardinality(G \ {cur}) >= KeepGreen - 1
  <2>1. /\ IsFiniteSet(G \ {cur})
        /\ Cardinality(G \ {cur}) = IF cur \in G THEN Cardinality(G) - 1 ELSE Cardinality(G)
    BY <1>3, FS_RemoveElement
  <2>2. Cardinality(G \ {cur}) \in Nat
    BY <2>1, FS_CardinalityType
  <2>3. KeepGreen \in Nat
    BY NightlyAssumption
  <2> HIDE DEF G
  <2> QED BY <1>3, <1>4, <2>1, <2>2, <2>3
<1>6. G \ {cur} \subseteq Newer(n)
  BY <1>1 DEF Newer, Settled, Green
<1>7. IsFiniteSet(Newer(n)) /\ Cardinality(Newer(n)) \in Nat
  BY <1>2, FS_Subset, FS_CardinalityType DEF Newer, Settled
<1>8. Cardinality(G \ {cur}) <= Cardinality(Newer(n))
  BY <1>6, <1>7, FS_Subset
<1> QED BY <1>5, <1>7, <1>8, NightlyAssumption

(* The pruning never goes further than that. *)
LEMMA PrunedForNewerStep == ASSUME NightInv, [Next]_vars PROVE PrunedForNewer'
<1> USE DEF NightInv, NightTypes
<1> SUFFICES ASSUME NEW n \in Nights, summary'[n].verdict = "passed",
                    n \notin dirs' \/ n \in cands'
             PROVE  Cardinality(Newer(n))' >= KeepGreen - 1
  BY DEF PrunedForNewer
<1>1. /\ n \notin dirs' => n \notin dirs \/ n \in cands
      /\ n \in cands' => n \in cands \/ (GcScan /\ n \in dirs /\ n \notin Keep)
  <2>1. CASE Starts \/ GcScan \/ GcDeletes \/ GcEnds \/ Killed
    BY <2>1 DEF Starts, GcScan, GcDeletes, GcEnds, Killed, Referenced
  <2>2. CASE TreeMoves \/ ForeignMemory \/ Ages \/ Cut \/ UNCHANGED vars
    BY <2>2, CutLeaves DEF TreeMoves, ForeignMemory, Ages, estate, vars
  <2>3. CASE Headroom \/ GpuWait \/ Deadline \/ Leases \/ GateEnds \/ GpuUnknown
    BY <2>3 DEF Headroom, GpuWait, Deadline, Leases, GateEnds, GpuUnknown, estate
  <2>4. CASE Determinism \/ WriteSummary \/ SummaryAgain \/ WriteState
    BY <2>4 DEF Determinism, WriteSummary, SummaryAgain, WriteState, estate
  <2> QED BY <2>1, <2>2, <2>3, <2>4 DEF Next, Night
<1>2. summary[n].verdict = "passed"
  <2> SUFFICES ASSUME summary[n].verdict # "passed" PROVE FALSE
    OBVIOUS
  <2>1. WriteSummary \/ SummaryAgain
    BY SummaryFrame
  <2>2. n = cur
    BY <2>1 DEF WriteSummary, SummaryAgain, Summarise
  <2>3. ~SummaryAgain
    BY <2>2 DEF SummaryAgain, SameResults, Pruning
  <2>4. cur \in dirs' /\ cands' = {}
    BY <2>1, <2>3 DEF WriteSummary, CurThere, CandsRaced, Testing
  <2> QED BY <2>2, <2>4
<1>3. Cardinality(Newer(n)) >= KeepGreen - 1
  BY <1>1, <1>2, ScanSparesNewest DEF PrunedForNewer
<1> QED BY <1>3, NewerGrows, NightlyAssumption

(* Initially there are Past green nights, each proven, and nothing is pruned. *)
LEMMA NightInit == Init => NightInv
<1> SUFFICES ASSUME Init PROVE NightInv
  OBVIOUS
<1> USE NightlyAssumption DEF Init
<1>1. Past \in Nat /\ MaxNights \in Nat /\ Past <= MaxNights
  OBVIOUS
<1>2. \A n \in Nights : n \in 1..Past <=> n <= Past
  BY <1>1 DEF Nights
<1>3. \A n \in Nights : summary[n] = IF n <= Past THEN GreenSummary(n) ELSE NoSummary
  OBVIOUS
<1>4. NightTypes
  <2>1. summary \in [Nights -> Summaries]
    BY <1>1 DEF Summaries, GreenSummary, NoSummary, Nights
  <2>2. proof \in [Nights -> Proofs]
    BY DEF Proofs, FullProof, NoProof
  <2>3. dirs \subseteq Nights
    BY <1>1 DEF Nights
  <2> QED BY <1>1, <2>1, <2>2, <2>3, MatrixFacts
      DEF NightTypes, DetResults, Proofs, NoProof
<1>5. NoneBefore /\ SameResults /\ CurThere
  BY <1>1, <1>3 DEF NoneBefore, SameResults, CurThere, Testing, Pruning, NoSummary, Nights
<1>6. DidTrue /\ JobProven /\ ReleasesProven /\ CandsRaced /\ ReleasedKept
  BY DEF DidTrue, JobProven, ReleasesProven, CandsRaced, ReleasedKept
<1>7. GreenProven
  BY <1>3 DEF GreenProven, Proven, GreenSummary, NoSummary, FullProof
<1>8. PrunedForNewer
  <2>1. \A n \in Nights : summary[n].verdict = "passed" => n \in dirs
    BY <1>2, <1>3 DEF NoSummary
  <2> QED BY <2>1 DEF PrunedForNewer
<1> QED BY <1>4, <1>5, <1>6, <1>7, <1>8 DEF NightInv

(* The inductive invariant holds in every reachable state. *)
LEMMA NightInvariant == Spec => []NightInv
<1>1. NightInv /\ [Next]_vars => NightInv'
  <2> SUFFICES ASSUME NightInv, [Next]_vars PROVE NightInv'
    OBVIOUS
  <2>1. NightTypes'
    BY NightTypesStep DEF NightInv
  <2>2. NoneBefore' /\ SameResults' /\ CurThere'
    BY PhasesStep DEF Phases
  <2>3. DidTrue' /\ GreenProven'
    BY DidTrueStep, GreenProvenStep
  <2>4. JobProven' /\ ReleasesProven'
    BY CutProvenStep
  <2>5. CandsRaced' /\ ReleasedKept' /\ PrunedForNewer'
    BY ReleasedKeptStep, PrunedForNewerStep
  <2> QED BY <2>1, <2>2, <2>3, <2>4, <2>5 DEF NightInv
<1> QED BY <1>1, NightInit, PTL DEF Spec

----------------------------------------------------------------------------
(* Theorems *)

(* A night is green only if every stage of every gate of the matrix ran, for
   every pipeline, every matrix and all waivers (failed_sub_results,
   release_matrix). *)
THEOREM GreenNightsRanAll == Spec => []GreenRanAll
<1>1. NightInv => GreenRanAll
  BY DEF NightInv, GreenProven, Proven, GreenRanAll
<1> QED BY <1>1, NightInvariant, PTL

(* What is released was proven in one run: its release stages passed, every
   gate ran all of its stages and the determinism checks of its profile are
   there on every line (select_nightly, build_acceptance_doc). *)
THEOREM ReleasesAreProven == Spec => []ReleasedIsProven
<1>1. NightInv => ReleasedIsProven
  BY DEF NightInv, ReleasesProven, Proven, Determined, ReleasedIsProven
<1> QED BY <1>1, NightInvariant, PTL

(* The run of a release stays, unless it was released while the pruning that
   removed it was under way (referenced_paths). *)
THEOREM ReleasedRunsStay == Spec => []ReleasedKept
<1>1. NightInv => ReleasedKept
  BY DEF NightInv
<1> QED BY <1>1, NightInvariant, PTL

(* However many nights are pruned, refused or killed halfway, the newest
   KeepGreen - 1 green ones are there (gc_estate). *)
THEOREM NewestGreenStay == Spec => []NewestGreenKept
<1>1. NightInv => NewestGreenKept
  <2> SUFFICES ASSUME NightInv, NEW n \in Nights, summary[n].verdict = "passed", n \notin dirs
               PROVE  ~(Cardinality({m \in Nights : m > n /\ summary[m].verdict = "passed"})
                          < KeepGreen - 1)
    BY DEF NewestGreenKept
  <2> DEFINE P == {m \in Nights : m > n /\ summary[m].verdict = "passed"}
  <2>1. Cardinality(Newer(n)) >= KeepGreen - 1
    BY DEF NightInv, PrunedForNewer
  <2>2. IsFiniteSet(Nights)
    BY FS_Interval, NightlyAssumption DEF Nights
  <2>3. IsFiniteSet(P) /\ Cardinality(P) \in Nat
    BY <2>2, FS_Subset, FS_CardinalityType
  <2>4. Newer(n) \subseteq P
    BY DEF Newer, Settled
  <2>5. Cardinality(Newer(n)) <= Cardinality(P) /\ Cardinality(Newer(n)) \in Nat
    BY <2>3, <2>4, FS_Subset, FS_CardinalityType
  <2> QED BY <2>1, <2>3, <2>5, NightlyAssumption
<1> QED BY <1>1, NightInvariant, PTL
============================================================================
