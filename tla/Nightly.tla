------------------------------ MODULE Nightly ------------------------------
(***************************************************************************)
(* The nightly: tools/ci/nightly.sh runs the release gates one after the   *)
(* other, then the determinism checks, and nightly_summary.py writes the   *)
(* summary and prunes old runs, while tools/release/cut.py cuts releases   *)
(* from the runs that passed.                                              *)
(*                                                                         *)
(* A night is the number of its run directory, in the order of the starts  *)
(* and, under the flock, of the ends.  A commit is a number too: the tree  *)
(* of the checkout, which a landing moves on while no gate runs in it.     *)
(***************************************************************************)
EXTENDS Gate

CONSTANTS
    Profiles, Lines, \* release profiles and CUDA lines
    Matrix,          \* the gates of a night, in their order
    Cuttable,        \* the gates whose releases are cut
    KeepGreen,       \* green nights that the pruning keeps
    Past,            \* green nights so far, each of its own commit
    MaxNights,       \* bound: nights
    MaxMoves,        \* bound: landings in the checkout
    MaxKills,        \* bound: kills of nightly.sh
    MaxCuts          \* bound: runs of cut.py

ASSUME NightlyAssumption ==
    /\ Matrix \in Seq(Profiles \X Lines) /\ Matrix # <<>>
    /\ IsInjective(Matrix) /\ Range(Matrix) = Profiles \X Lines
    /\ Cuttable \subseteq Profiles \X Lines
    /\ KeepGreen \in Nat \ {0}
    /\ Past \in 0..MaxNights
    /\ {MaxNights, MaxMoves, MaxKills, MaxCuts} \subseteq Nat

Gates == Profiles \X Lines
Nights == 1..MaxNights
NoNight == 0

VARIABLES
    tree,     \* commit in the checkout
    foreign,  \* whether gpu_wait.py would find a GPU in use
    npc,      \* next step of nightly.sh
    orphan,   \* whether nightly.sh was killed and only its child goes on
    cur,      \* night of the last start
    sha,      \* commit it is about
    at,       \* position in the matrix
    late,     \* whether the deadline of gpu_wait.py has passed
    gates,    \* what the result files say of the gates
    dets,     \* what they say of the determinism checks
    red,      \* overall_rc # 0, as far as it is read: a gate failed
    dirs,     \* nights whose run directory exists
    aged,     \* number of nights, the oldest, older than the minimum age
    summary,  \* what the summaries say
    cands,    \* directories the pruning is about to remove
    report,   \* its report: {} until it has written one
    state,    \* state.json: night and verdict
    kills,    \* kills so far
    cpc,      \* next step of cut.py
    cuts,     \* runs of cut.py so far
    job,      \* what is being cut: gate, commit and night
    releases, \* releases: gate, commit, night
    did,      \* history: of the gates of this night that passed, those of
              \* which every stage ran, those of which the release stages
              \* passed and those built from another commit
    proof,    \* history: did, of the nights that were green
    raced     \* history: nights released during the pruning

night == <<npc, orphan, cur, sha, at, late, gates, dets, red, did>>
estate == <<dirs, summary, cands, report, state>>
history == <<proof, raced>>
cutting == <<cpc, cuts, job, releases>>
vars == <<tree, foreign, night, aged, estate, kills, cutting, history>>

\* A missing result file, or what it says: failed (or blocked) or passed.  A
\* gate passes with an acceptance that has a release section, "full", or one
\* without, "bare".
DetResults == {"todo", "missing", "failed", "passed"}
\* What selecting and cutting read of a summary.
NoSummary == [verdict |-> "none", sha |-> 0, full |-> {}, dets |-> {}]
GreenSummary(n) == [verdict |-> "passed", sha |-> n, full |-> Gates, dets |-> Gates]
FullProof == [ran |-> Gates, proven |-> Gates, stray |-> {}]
NoProof == [ran |-> {}, proven |-> {}, stray |-> {}]
NoJob == [gate |-> CHOOSE g \in Gates : TRUE, sha |-> 0, run |-> NoNight]

Init ==
    /\ tree = Past /\ foreign = FALSE
    /\ npc = "idle" /\ orphan = FALSE /\ cur = Past /\ sha = 0 /\ at = 1
    /\ late = FALSE /\ red = FALSE
    /\ gates = [g \in Gates |-> "todo"] /\ dets = [g \in Gates |-> "todo"]
    /\ dirs = 1..Past /\ aged = 0
    /\ summary = [n \in Nights |-> IF n <= Past THEN GreenSummary(n) ELSE NoSummary]
    /\ cands = {} /\ report = "none"
    /\ state = [run |-> Past, verdict |-> IF Past = 0 THEN "none" ELSE "passed"]
    /\ kills = 0
    /\ cpc = "idle" /\ cuts = 0 /\ job = NoJob /\ releases = {}
    /\ did = NoProof
    /\ proof = [n \in Nights |-> IF n <= Past THEN FullProof ELSE NoProof]
    /\ raced = {}

----------------------------------------------------------------------------
(* Around the nightly *)

\* relay.py land refuses while a gate runs in the checkout.
TreeMoves ==
    /\ tree < Past + MaxMoves /\ npc # "gate"
    /\ tree' = tree + 1
    /\ UNCHANGED <<foreign, night, aged, estate, kills, cutting, history>>

\* Other programs take and free GPU memory.
ForeignMemory ==
    /\ npc = "wait"
    /\ foreign' = ~foreign
    /\ UNCHANGED <<tree, night, aged, estate, kills, cutting, history>>

\* The newest file of a run directory becomes older than the minimum age.
Ages ==
    /\ aged < cur /\ (aged + 1 = cur => npc = "idle")
    /\ aged' = aged + 1
    /\ UNCHANGED <<tree, foreign, night, estate, kills, cutting, history>>

----------------------------------------------------------------------------
(* nightly.sh *)

\* The flock is free again: the variables of the script and what only they
\* refer to are gone.
Ends ==
    /\ npc' = "idle" /\ orphan' = FALSE
    /\ at' = 1 /\ late' = FALSE /\ red' = FALSE /\ sha' = 0
    /\ gates' = [g \in Gates |-> "todo"] /\ dets' = [g \in Gates |-> "todo"]
    /\ did' = NoProof
    /\ UNCHANGED cur

\* flock -n, the commit of the target, the run directory.
Starts ==
    /\ npc = "idle" /\ cur < MaxNights
    /\ cur' = cur + 1
    /\ sha' = tree
    /\ dirs' = dirs \cup {cur'}
    /\ report' = "none"
    /\ npc' = "headroom"
    /\ UNCHANGED <<tree, foreign, orphan, at, late, gates, dets, red, did, aged,
                   summary, cands, state, kills, cutting, history>>

\* Without headroom nothing runs.
Headroom ==
    /\ npc = "headroom"
    /\ npc' \in {"wait", "summary"}
    /\ UNCHANGED <<tree, foreign, orphan, cur, sha, at, late, gates, dets, red, did,
                   aged, estate, kills, cutting, history>>

\* The next of the loop over the matrix; determinism only after green gates.
NextGate(failed) ==
    /\ red' = (red \/ failed)
    /\ late' = FALSE
    /\ IF at < Len(Matrix) THEN npc' = "wait" /\ at' = at + 1
       ELSE IF red' THEN npc' = "summary" /\ at' = at
       ELSE npc' = "det" /\ at' = 1

\* A gate is over; the subshell of a killed nightly.sh ends with it.  set -e is
\* off in run_release_gate: a result that cannot be written is missing, and
\* the exit code stays.
GateDone(result, proofs, failed) ==
    IF orphan THEN Ends
    ELSE /\ gates' = [gates EXCEPT ![Matrix[at]] = result]
         /\ did' = proofs
         /\ NextGate(failed)
         /\ UNCHANGED <<orphan, cur, sha, dets>>

NotRun == \E result \in {"failed", "missing"} : GateDone(result, did, TRUE)

\* The deadline of gpu_wait.py passes.
Deadline ==
    /\ npc = "wait" /\ ~late
    /\ late' = TRUE
    /\ UNCHANGED <<tree, foreign, npc, orphan, cur, sha, at, gates, dets, red, did, aged,
                   estate, kills, cutting, history>>

\* Mutant: the deadline is not looked at.
GpuWait_Forever ==
    /\ npc = "wait" /\ ~foreign
    /\ npc' = "lease"
    /\ UNCHANGED <<tree, foreign, orphan, cur, sha, at, late, gates, dets, red, did,
                   aged, estate, kills, cutting, history>>

\* gpu_wait.py wait: free memory, or exit code 75 (blocked) at the deadline.
GpuWait ==
    /\ npc = "wait"
    /\ \/ ~foreign /\ npc' = "lease"
          /\ UNCHANGED <<orphan, cur, sha, at, late, gates, dets, red, did>>
       \/ foreign /\ late /\ NotRun
    /\ foreign' = FALSE
    /\ UNCHANGED <<tree, aged, estate, kills, cutting, history>>

\* nvidia-smi is broken.
GpuUnknown ==
    /\ npc = "wait"
    /\ NotRun
    /\ foreign' = FALSE
    /\ UNCHANGED <<tree, aged, estate, kills, cutting, history>>

\* The insula lease and then the GPU lease, or exit code 75.
Leases ==
    /\ npc = "lease"
    /\ \/ npc' = "gate" /\ UNCHANGED <<orphan, cur, sha, at, late, gates, dets, red, did>>
       \/ NotRun
    /\ UNCHANGED <<tree, foreign, aged, estate, kills, cutting, history>>

\* The gate builds what is in the checkout.
GateEnds ==
    /\ npc = "gate"
    /\ \E o \in GateOutcomes, recorded \in BOOLEAN :
          LET passed == o.acceptance # "failed"
              done == {g \in {Matrix[at]} : passed /\ recorded}
          IN  GateDone(IF recorded THEN o.acceptance ELSE "missing",
                       [ran |-> did.ran \cup {g \in done : o.ran},
                        proven |-> did.proven \cup {g \in done : o.proven},
                        stray |-> did.stray \cup {g \in done : tree # sha}],
                       ~passed)
    /\ UNCHANGED <<tree, foreign, aged, estate, kills, cutting, history>>

\* run_determinism, for each of the matrix.
Determinism ==
    /\ npc = "det"
    /\ IF orphan THEN Ends
       ELSE /\ \E r \in DetResults \ {"todo"} : dets' = [dets EXCEPT ![Matrix[at]] = r]
            /\ IF at < Len(Matrix) THEN at' = at + 1 /\ npc' = npc
               ELSE at' = 1 /\ npc' = "summary"
            /\ UNCHANGED <<orphan, cur, sha, late, gates, red, did>>
    /\ UNCHANGED <<tree, foreign, aged, estate, kills, cutting, history>>

----------------------------------------------------------------------------
(* nightly_summary.py *)

Reported(results) == {g \in Gates : results[g] \notin {"todo", "missing"}}

\* release_stage_passed
StagePassed(g) == gates[g] \in {"bare", "full"}

\* Mutant: the gates that left a result decide.
MatrixPassed_Reported == \A g \in Reported(gates) : StagePassed(g)

\* release_matrix: every gate is there and passed.
MatrixPassed == \A g \in Gates : StagePassed(g)

\* cmd_summary: every stage there is passed, and the matrix, the build times,
\* the headroom and the report of the pruning are good.  The rest of a red
\* summary is not read, and kept only if it was green.
Summarise(good) ==
    summary' = [summary EXCEPT ![cur] =
        IF /\ good
           /\ Reported(gates) \cup Reported(dets) # {}
           /\ MatrixPassed
           /\ \A g \in Reported(dets) : dets[g] = "passed"
           /\ report # "failed"
        THEN [verdict |-> "passed", sha |-> sha,
              full |-> {g \in Gates : gates[g] = "full"}, dets |-> Reported(dets)]
        ELSE [summary[cur] EXCEPT !.verdict = "failed", !.sha = sha]]

\* The first summary; a green night goes on to the pruning.
WriteSummary ==
    /\ npc = "summary"
    /\ \E slos \in BOOLEAN : Summarise(slos)
    /\ IF summary'[cur].verdict = "passed"
       THEN npc' = "gc" /\ proof' = [proof EXCEPT ![cur] = did]
       ELSE npc' = "state" /\ UNCHANGED proof
    /\ UNCHANGED <<tree, foreign, orphan, cur, sha, at, late, gates, dets, red, did, aged,
                   dirs, cands, report, state, kills, cutting, raced>>

Green == {n \in dirs : summary[n].verdict = "passed"}

\* Mutant: one too few.
Keep_OneLess == {n \in Green : Cardinality({m \in Green : m > n}) < KeepGreen - 1}

\* The newest green nights.
Keep == {n \in Green : Cardinality({m \in Green : m > n}) < KeepGreen}

\* Mutant: releases do not count.
Referenced_Kept == Keep

\* referenced_paths: the runs that kept summaries and releases name.
Referenced == Keep \cup {r.run : r \in releases}

\* gc_estate up to the deletions; report only, refused for a path that
\* leaves the estate, or dead without a report, which leaves {}.
GcScan ==
    /\ npc = "gc"
    /\ \/ /\ cands' = {n \in dirs \ Referenced : n <= aged}
          /\ npc' = "delete"
          /\ UNCHANGED report
       \/ /\ npc' = "again"
          /\ \E r \in {"passed", "failed", "none"} : report' = r
          /\ UNCHANGED cands
    /\ UNCHANGED <<tree, foreign, orphan, cur, sha, at, late, gates, dets, red, did, aged,
                   dirs, summary, state, kills, cutting, history>>

\* The deletions, which look at no reference again.
GcDeletes ==
    /\ npc = "delete" /\ cands # {}
    /\ \E n \in cands :
          /\ cands' = cands \ {n}
          /\ dirs' = dirs \ {n}
    /\ UNCHANGED <<tree, foreign, night, aged, summary, report, state, kills, cutting,
                   history>>

\* All deleted; or one became unsafe and was left; or one failed and the
\* process died without a report.
GcEnds ==
    /\ npc = "delete"
    /\ \/ cands = {} /\ report' = "passed"
       \/ cands # {} /\ \E r \in {"failed", "none"} : report' = r
    /\ cands' = {}
    /\ npc' = "again"
    /\ UNCHANGED <<tree, foreign, orphan, cur, sha, at, late, gates, dets, red, did, aged,
                   dirs, summary, state, kills, cutting, history>>

\* The second summary, of the same results, and the report; the pruning of a
\* killed nightly.sh has nobody to go on.
SummaryAgain ==
    /\ npc = "again"
    /\ IF orphan THEN Ends /\ UNCHANGED summary
       ELSE /\ Summarise(TRUE)
            /\ npc' = "state"
            /\ UNCHANGED <<orphan, cur, sha, at, late, gates, dets, red, did>>
    /\ UNCHANGED <<tree, foreign, aged, dirs, cands, report, state, kills, cutting,
                   history>>

\* write_state, the attention log and the exit.
WriteState ==
    /\ npc = "state"
    /\ state' = [run |-> cur, verdict |-> summary[cur].verdict]
    /\ Ends
    /\ UNCHANGED <<tree, foreign, aged, dirs, summary, cands, report, kills, cutting,
                   history>>

\* nightly.sh is killed, alone or with its children, or set -e ends it.  The
\* subshell of a gate, a determinism check and the pruning go on without it
\* and hold the flock.
Killed ==
    /\ npc # "idle" /\ ~orphan /\ kills < MaxKills
    /\ kills' = kills + 1
    /\ \/ /\ npc \in {"wait", "lease", "gate", "det", "gc", "delete"}
          /\ orphan' = TRUE
          /\ UNCHANGED <<foreign, npc, cur, sha, at, late, gates, dets, red, did, cands>>
       \/ Ends /\ cands' = {} /\ foreign' = FALSE
    /\ UNCHANGED <<tree, aged, dirs, summary, report, state, cutting, history>>

Night == \/ Headroom \/ GpuWait \/ Deadline \/ Leases \/ GateEnds \/ Determinism
         \/ WriteSummary \/ GcScan \/ GcDeletes \/ GcEnds \/ SummaryAgain
         \/ WriteState

----------------------------------------------------------------------------
(* cut.py *)

\* Mutant: a determinism check without a result is no obstacle.
Selectable_NoDeterminism(n, g, c) ==
    n \in dirs /\ summary[n].verdict = "passed" /\ summary[n].sha = c

\* select_nightly: a passed summary of the commit in which the profile's gates
\* and determinism checks passed on every line.
Selectable(n, g, c) ==
    /\ n \in dirs /\ summary[n].verdict = "passed" /\ summary[n].sha = c
    /\ {g[1]} \X Lines \subseteq summary[n].dets

others == <<tree, foreign, night, aged, estate, kills, proof>>

\* The newest one.
CutSelects ==
    /\ cpc = "idle" /\ cuts < MaxCuts
    /\ \E g \in Cuttable, c \in 0..tree, n \in dirs :
          /\ Selectable(n, g, c)
          /\ \A m \in dirs : Selectable(m, g, c) => m <= n
          /\ job' = [gate |-> g, sha |-> c, run |-> n]
    /\ cuts' = cuts + 1
    /\ cpc' = "check"
    /\ UNCHANGED <<releases, raced>> /\ UNCHANGED others

CutFails == cpc' = "idle" /\ job' = NoJob

\* The acceptance document, its release section, the wheels' commits and
\* hashes; a release of that version must not exist.
CutChecks ==
    /\ cpc = "check"
    /\ \/ /\ job.run \in dirs
          /\ job.gate \in summary[job.run].full
          /\ \A r \in releases : r.gate # job.gate \/ r.sha # job.sha
          /\ cpc' = "copy" /\ UNCHANGED job
       \/ CutFails
    /\ UNCHANGED <<cuts, releases, raced>> /\ UNCHANGED others

\* Copies the wheels and the evidence into a staging directory, each against
\* its hash.
CutCopies ==
    /\ cpc = "copy"
    /\ \/ job.run \in dirs /\ cpc' = "publish" /\ UNCHANGED job
       \/ CutFails
    /\ UNCHANGED <<cuts, releases, raced>> /\ UNCHANGED others

\* The rename.
CutPublishes ==
    /\ cpc = "publish"
    /\ releases' = releases \cup {job}
    /\ raced' = IF npc \in {"delete", "again"} \/ job.run \notin dirs
                THEN raced \cup {job.run} ELSE raced
    /\ cpc' = "idle" /\ job' = NoJob
    /\ UNCHANGED cuts /\ UNCHANGED others

Cut == CutSelects \/ CutChecks \/ CutCopies \/ CutPublishes

Next == \/ TreeMoves \/ ForeignMemory \/ Ages \/ Starts \/ Night \/ GpuUnknown \/ Killed \/ Cut

\* A night that started goes on, and every deadline passes: cron starts it and
\* nothing else has to happen.
Spec == Init /\ [][Next]_vars /\ WF_vars(Night)

----------------------------------------------------------------------------
(* Properties *)

\* What is released was proven, in one run: no release stage of the released
\* gate failed or was skipped, waivers notwithstanding, every gate of the
\* matrix passed, and so did the determinism checks of the profile on every
\* line, whose missing results a passed summary does not show.
ReleasedIsProven ==
    \A r \in releases :
        /\ r.gate \in proof[r.run].proven
        /\ proof[r.run].ran = Gates
        /\ {r.gate[1]} \X Lines \subseteq summary[r.run].dets

\* A night is green only if every stage of every gate of the matrix ran: a
\* waiver never stands for a stage that was skipped, and a gate that left no
\* result is not overlooked.
GreenRanAll == \A n \in Nights : summary[n].verdict = "passed" => proof[n].ran = Gates

\* Pruning, refused or killed halfway, never goes below the newest KeepGreen - 1
\* green nights: only the current one may turn red after others were pruned
\* for it.
NewestGreenKept ==
    \A n \in Nights :
        /\ summary[n].verdict = "passed"
        /\ Cardinality({m \in Nights : m > n /\ summary[m].verdict = "passed"}) < KeepGreen - 1
        => n \in dirs

\* The run of a release stays for diagnosis, unless it was released while the
\* pruning that removed it was under way.
ReleasedKept == \A r \in releases : r.run \in dirs \/ r.run \in raced

\* Every night ends and frees the flock, even if other programs never free the
\* GPUs.
NightEnds == npc # "idle" ~> npc = "idle"

\* release_wheel_identity.py: "first-party release wheels belong to one git
\* commit", the one the release is cut for.
ReleasedFromSha == \A r \in releases : r.gate \notin proof[r.run].stray

=============================================================================
