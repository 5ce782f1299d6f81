------------------------------ MODULE Landing ------------------------------
(***************************************************************************)
(* Landing on the shared target: tools/agents/autoland.sh keeps a landing  *)
(* branch verified on top of the target and lands it with relay.py         *)
(* autoland-step, while the follower, in whose checkout the target lives,  *)
(* commits to it with verified-commit.sh, and tools/ci/ci-loop.sh runs the *)
(* fast gates whose summaries a landing needs.                             *)
(*                                                                         *)
(* A commit is the sequence of the patches of its history, so that an      *)
(* ancestor is a prefix and a rebase replays the patches that the new base *)
(* does not have.  Each patch changes one path.  The lead commits to its   *)
(* branch while no relay command runs in its worktree.                     *)
(***************************************************************************)
EXTENDS Integers, Sequences, FiniteSets, SequencesExt

CONSTANTS
    LeadPatches,     \* patches the lead may commit
    FollowerPatches, \* patches the follower may commit
    NoPatch,         \* no patch
    Before,          \* what the follower commits before the loop starts
    PathOf,          \* the path each patch changes
    NoGatePaths,     \* paths that no_gate_allowed_path accepts
    RequireGate,     \* AUTOLAND_REQUIRE_GATE
    Gates,           \* fast gates of the CI loop
    NoCommit,        \* no commit
    MaxRewrites,     \* bound: times the follower rewrites the target
    MaxCi,           \* bound: CI runs
    MaxKills         \* bound: kills of a CI run

ASSUME LandingAssumption ==
    /\ LeadPatches \cap FollowerPatches = {}
    /\ NoPatch \notin LeadPatches \cup FollowerPatches
    /\ Before \in Seq(FollowerPatches)
    /\ DOMAIN PathOf = LeadPatches \cup FollowerPatches
    /\ RequireGate \in BOOLEAN
    /\ "verify" \notin Gates
    /\ NoCommit \notin Seq(LeadPatches \cup FollowerPatches)
    /\ MaxRewrites \in Nat /\ MaxCi \in Nat /\ MaxKills \in Nat

VARIABLES
    target,   \* tip of the target, the HEAD of the follower's checkout
    dirty,    \* patch in the follower's working tree
    fpc,      \* next step of verified-commit.sh
    lead,     \* tip of the lead's branch
    head,     \* HEAD of the lead's worktree
    attached, \* whether that HEAD is on the lead's branch
    landing,  \* tip of the landing branch
    records,  \* commits recorded as verified
    cpc,      \* next step of the CI run
    csha,     \* commit the CI run is about
    results,  \* results of its gates so far
    summaries,\* CI summaries: commit, gates that passed, verdict
    ciLast,   \* last_sha of state.json
    ciRuns,   \* CI runs so far
    kills,    \* kills of CI runs so far
    pc,       \* next step of the autoland loop
    last,     \* target tip the loop has handled
    dropped,  \* patches the follower dropped from the target; they do not come
              \* back as the same commit
    verified, \* history: commits whose tree passed a verify
    gated,    \* history: commits and the gates that passed for them
    late,     \* history: the live gates started after the landing looked
    skewed    \* history: a relay command failed after VERIFY_PASSED

follower == <<target, dirty, fpc, dropped>>
worktree == <<lead, head, attached>>
ci == <<cpc, csha, results, summaries, ciLast, ciRuns, kills, gated, late>>
vars == <<follower, worktree, landing, records, ci, pc, last, verified, skewed>>

Patches == LeadPatches \cup FollowerPatches
\* is_ancestor
Ancestor(c, d) == IsPrefix(c, d)
\* The patches, and the paths, of the diff between an ancestor and a commit.
Since(c, d) == SubSeq(d, Len(c) + 1, Len(d))
Paths(c) == {PathOf[c[i]] : i \in DOMAIN c}
\* Mutant: nothing is replayed.
Rebased_None(c, base) == base

\* git rebase: replay, in their order, the patches that the new base does not
\* have.
Replayed(c, base) ==
    LET I == {i \in DOMAIN c : ~Contains(base, c[i])}
    IN  [k \in 1..Cardinality(I) |->
            c[CHOOSE i \in I : Cardinality({j \in I : j <= i}) = k]]
Rebased(c, base) == base \o Replayed(c, base)

\* Stages of a CI run: pending, passed, failed, or missing, without a result
\* file.
Stages == Gates \cup {"verify"}

\* The loop starts from what the lead's branch sits on, which the CI loop has
\* passed; the target may have moved on before.
Init ==
    /\ target = Before /\ lead = <<>> /\ head = <<>> /\ landing = <<>>
    /\ last = <<>>
    /\ dirty = NoPatch
    /\ fpc = "edit"
    /\ attached = TRUE
    /\ records = {}
    /\ cpc = "idle" /\ csha = NoCommit
    /\ results = [s \in Stages |-> "pending"]
    /\ summaries = {[sha |-> <<>>, passed |-> Gates, verdict |-> TRUE]}
    /\ ciLast = <<>>
    /\ ciRuns = 0 /\ kills = 0
    /\ gated = {<<>>} \X Gates
    /\ late = FALSE
    /\ pc = "poll"
    /\ dropped = {}
    /\ verified = {<<>>}
    /\ skewed = FALSE

----------------------------------------------------------------------------
(* The follower: verified-commit.sh *)

FollowerEdits ==
    /\ fpc = "edit" /\ dirty = NoPatch
    /\ \E p \in FollowerPatches :
          /\ ~Contains(target, p) /\ p \notin dropped
          /\ dirty' = p
    /\ UNCHANGED <<target, fpc, dropped, worktree, landing, records, ci, pc,
                   last, verified, skewed>>

\* Tracked files outside the commit, and an undeclared native rebuild, refuse.
CommitStarts ==
    /\ fpc = "edit" /\ dirty # NoPatch
    /\ fpc' = "verify"
    /\ UNCHANGED <<target, dirty, dropped, worktree, landing, records, ci, pc,
                   last, verified, skewed>>

\* standing-verify.sh tests the working tree: the target plus the patch.
CommitVerifies ==
    /\ fpc = "verify"
    /\ \/ /\ verified' = verified \cup {Append(target, dirty)}
          /\ fpc' = "commit"
       \/ fpc' = "edit" /\ UNCHANGED verified
    /\ UNCHANGED <<target, dirty, dropped, worktree, landing, records, ci, pc,
                   last, skewed>>

\* git commit: the patch goes on whatever the target is by now.
CommitMade ==
    /\ fpc = "commit"
    /\ target' = Append(target, dirty)
    /\ dirty' = NoPatch
    /\ fpc' = "edit"
    /\ UNCHANGED <<dropped, worktree, landing, records, ci, pc, last, verified,
                   skewed>>

\* The follower drops the newest commit of the target.
TargetRewritten ==
    /\ Cardinality(dropped) < MaxRewrites
    /\ target # <<>> /\ fpc = "edit" /\ dirty = NoPatch
    /\ target' = Front(target)
    /\ dropped' = dropped \cup {Last(target)}
    /\ UNCHANGED <<dirty, fpc, worktree, landing, records, ci, pc, last,
                   verified, skewed>>

----------------------------------------------------------------------------
(* The lead, CI and gates *)

LeadCommits ==
    /\ attached /\ pc \in {"poll", "branch", "step", "land", "merge"}
    /\ \E p \in LeadPatches :
          /\ ~Contains(lead, p)
          /\ lead' = Append(lead, p)
    /\ head' = lead'
    /\ UNCHANGED <<follower, attached, landing, records, ci, pc, last, verified,
                   skewed>>

----------------------------------------------------------------------------
(* ci-loop.sh, one run at a time under its flock *)

others == <<follower, worktree, landing, records, pc, last, verified, skewed>>

\* Mutant: the commit counts as handled from the start.
CiStarts_Marks ==
    /\ cpc = "idle" /\ ciRuns < MaxCi
    /\ \E c \in {target, landing} : c # ciLast /\ csha' = c
    /\ ciLast' = csha'
    /\ cpc' = "verify"
    /\ results' = [s \in Stages |-> "pending"]
    /\ ciRuns' = ciRuns + 1
    /\ UNCHANGED <<summaries, kills, gated, late>> /\ UNCHANGED others

\* The commit of CI_LOOP_TARGET is not the one of the last run.
CiStarts ==
    /\ cpc = "idle" /\ ciRuns < MaxCi
    /\ \E c \in {target, landing} : c # ciLast /\ csha' = c
    /\ cpc' = "verify"
    /\ results' = [s \in Stages |-> "pending"]
    /\ ciRuns' = ciRuns + 1
    /\ UNCHANGED <<summaries, ciLast, kills, gated, late>> /\ UNCHANGED others

\* run_standing_verify; set -e is off in its condition, so that a result that
\* cannot be written goes unnoticed.
CiVerifies ==
    /\ cpc = "verify"
    /\ \/ /\ \E r \in {"passed", "missing"} : results' = [results EXCEPT !["verify"] = r]
          /\ cpc' = "gates"
          /\ late' = (pc = "merge")
       \/ /\ \E r \in {"failed", "missing"} :
                results' = [s \in Stages |-> IF s = "verify" THEN r ELSE "missing"]
          /\ cpc' = "summary"
          /\ UNCHANGED late
    /\ UNCHANGED <<csha, summaries, ciLast, ciRuns, kills, gated>> /\ UNCHANGED others

\* run_gate: no lease and a red gate fail; a subshell that dies, or cannot
\* write, leaves no result whatever the gate said.
GateEnds(g) ==
    /\ cpc \in {"gates", "orphans"} /\ results[g] = "pending"
    /\ \E r \in {"passed", "failed", "missing"} : results' = [results EXCEPT ![g] = r]
    /\ gated' = IF results'[g] = "passed" THEN gated \cup {<<csha, g>>} ELSE gated
    /\ UNCHANGED <<cpc, csha, summaries, ciLast, ciRuns, kills, late>>
    /\ UNCHANGED others

\* The flock is free; the variables of the process are gone.
CiEnds ==
    /\ cpc' = "idle" /\ csha' = NoCommit
    /\ results' = [s \in Stages |-> "pending"]
    /\ late' = FALSE

GatesLive == cpc \in {"gates", "orphans"} /\ \E g \in Gates : results[g] = "pending"

\* All gates were waited for; without the loop, the last one drops the flock.
GatesJoined ==
    /\ cpc \in {"gates", "orphans"} /\ ~GatesLive
    /\ \/ cpc = "gates" /\ cpc' = "summary" /\ UNCHANGED <<csha, results, late>>
       \/ cpc = "orphans" /\ CiEnds
    /\ UNCHANGED <<summaries, ciLast, ciRuns, kills, gated>> /\ UNCHANGED others

\* The verdict of ci_summary.py: there is a result, and all there are passed.
Verdict == LET reported == {i \in Stages : results[i] # "missing"}
           IN  reported # {} /\ \A i \in reported : results[i] = "passed"

CiSummary ==
    /\ cpc = "summary"
    /\ summaries' = summaries \cup
          {[sha |-> csha, passed |-> {g \in Gates : results[g] = "passed"},
            verdict |-> Verdict]}
    /\ cpc' = "state"
    /\ UNCHANGED <<csha, results, ciLast, ciRuns, kills, gated, late>>
    /\ UNCHANGED others

\* write_state, whatever the verdict: a red commit is not run again.
CiState ==
    /\ cpc = "state"
    /\ ciLast' = csha
    /\ CiEnds
    /\ UNCHANGED <<summaries, ciRuns, kills, gated>> /\ UNCHANGED others

\* The loop is killed, or a write fails; its gates go on and keep the flock.
CiKilled ==
    /\ cpc \in {"verify", "gates", "summary", "state"} /\ kills < MaxKills
    /\ kills' = kills + 1
    /\ \/ cpc = "gates" /\ cpc' = "orphans" /\ UNCHANGED <<csha, results, late>>
       \/ cpc # "gates" /\ CiEnds
    /\ UNCHANGED <<summaries, ciLast, ciRuns, gated>> /\ UNCHANGED others

CiLoop == \/ CiVerifies \/ GatesJoined \/ CiSummary \/ CiState
          \/ \E g \in Gates : GateEnds(g)

----------------------------------------------------------------------------
(* The autoland loop: relay.py rebase *)

\* The follower is gone, a disk is full, a stall, or a review is due.
Stops ==
    /\ pc = "poll"
    /\ pc' = "exit"
    /\ UNCHANGED <<follower, worktree, landing, records, ci, last, verified,
                   skewed>>

Poll ==
    /\ pc = "poll" /\ target # last
    /\ \/ ~Ancestor(last, target) /\ pc' = "exit" /\ UNCHANGED last
       \/ Ancestor(last, target) /\ pc' = "rebase" /\ last' = target
    /\ UNCHANGED <<follower, worktree, landing, records, ci, verified, skewed>>

\* cmd_rebase: a detached worktree is refused, a conflict leaves it detached,
\* and a branch that contains the target is verified as it is.
Rebase ==
    /\ pc = "rebase"
    /\ \/ ~attached /\ pc' = "exit" /\ UNCHANGED <<head, attached>>
       \/ /\ attached /\ Ancestor(target, head)
          /\ pc' = "verify"
          /\ UNCHANGED <<head, attached>>
       \/ /\ attached /\ ~Ancestor(target, head)
          /\ attached' = FALSE
          /\ head' = Rebased(head, target)
          /\ pc' \in {"verify", "exit"}
    /\ UNCHANGED <<follower, lead, landing, records, ci, last, verified, skewed>>

\* run_verify: a red verify, or one that wrote into the tree, goes back to
\* the branch.
Verify ==
    /\ pc = "verify"
    /\ \/ /\ verified' = verified \cup {head}
          /\ pc' = "record"
          /\ UNCHANGED <<head, attached>>
       \/ /\ head' = lead /\ attached' = TRUE
          /\ pc' = "exit"
          /\ UNCHANGED verified
    /\ UNCHANGED <<follower, lead, landing, records, ci, last, skewed>>

\* VERIFY_PASSED is printed before the record is written: a failing write
\* ends the command, and the loop goes on as after a pass.
Record ==
    /\ pc = "record"
    /\ \/ /\ records' = records \cup {head}
          /\ pc' = "move"
          /\ UNCHANGED skewed
       \/ skewed' = TRUE /\ pc' = "branch" /\ UNCHANGED records
    /\ UNCHANGED <<follower, worktree, landing, ci, last, verified>>

\* git checkout -B moves the branch to the verified commit, or fails.
Move ==
    /\ pc = "move"
    /\ pc' = "branch"
    /\ \/ lead' = head /\ attached' = TRUE /\ UNCHANGED skewed
       \/ skewed' = TRUE /\ UNCHANGED <<lead, attached>>
    /\ UNCHANGED <<follower, head, landing, records, ci, last, verified>>

\* Mutant: the landing branch is left where it is.
BranchMoves_Not ==
    /\ pc = "branch"
    /\ pc' = "step"
    /\ UNCHANGED <<follower, worktree, landing, records, ci, last, verified,
                   skewed>>

\* git branch -f: the landing branch goes to the lead's branch.
BranchMoves ==
    /\ pc = "branch"
    /\ landing' = lead
    /\ pc' = "step"
    /\ UNCHANGED <<follower, worktree, records, ci, last, verified, skewed>>

----------------------------------------------------------------------------
(* relay.py autoland-step and land *)

\* Mutant: the record of the landing tip is not looked up.
Recorded_Any == TRUE

\* verify_pass_recorded
Recorded == landing \in records

\* Mutant: the verdict of the summary is believed.
Green_Verdict(c) == \E s \in summaries : s.sha = c /\ s.verdict

\* summary_has_required_fast_gates of some summary.
Green(c) == \E s \in summaries : s.sha = c /\ s.passed = Gates

\* Mutant: only the paths that this landing adds have to be allowlisted.
GateGreen_LandingDiff ==
    \/ ~RequireGate
    \/ Green(landing)
    \/ Paths(Since(target, landing)) \subseteq NoGatePaths

\* ci_gate_green_for_landing: the tip itself, or a common ancestor of the tip
\* and the target from which only allowlisted paths changed.
GateGreen ==
    \/ ~RequireGate
    \/ Green(landing)
    \/ \E s \in summaries :
          /\ Green(s.sha)
          /\ Ancestor(s.sha, target) /\ Ancestor(s.sha, landing)
          /\ Paths(Since(s.sha, landing)) \subseteq NoGatePaths

\* A dirty tracked file on a path of the landing diff.
Overlaps == dirty # NoPatch /\ PathOf[dirty] \in Paths(Since(target, landing))

\* cmd_autoland_step waits, or goes on to cmd_land.
AutolandStep ==
    /\ pc = "step"
    /\ pc' = IF /\ Recorded
                /\ ~Ancestor(landing, target)
                /\ Ancestor(target, landing)
                /\ GateGreen
                /\ ~Overlaps
             THEN "land" ELSE "poll"
    /\ UNCHANGED <<follower, worktree, landing, records, ci, last, verified,
                   skewed>>

\* Mutant: a live gate does not stop a landing.
Land_DuringGate ==
    /\ pc = "land"
    /\ pc' = IF Ancestor(target, landing) /\ ~Overlaps THEN "merge" ELSE "poll"
    /\ UNCHANGED <<follower, worktree, landing, records, ci, last, verified,
                   skewed>>

\* cmd_land refuses during a live gate, over dirty files, and when the landing
\* branch does not contain HEAD.
Land ==
    /\ pc = "land"
    /\ pc' = IF /\ ~Ancestor(landing, target)
                /\ ~GatesLive
                /\ Ancestor(target, landing)
                /\ ~Overlaps
             THEN "merge" ELSE "poll"
    /\ UNCHANGED <<follower, worktree, landing, records, ci, last, verified,
                   skewed>>

\* git merge --ff-only, which refuses what changed since the checks.
Merge ==
    /\ pc = "merge"
    /\ target' = IF Ancestor(target, landing) /\ ~Overlaps THEN landing ELSE target
    /\ pc' = "poll"
    /\ UNCHANGED <<dirty, fpc, dropped, worktree, landing, records, ci, last,
                   verified, skewed>>

Loop == \/ Poll \/ Rebase \/ Verify \/ Record \/ Move \/ BranchMoves
        \/ AutolandStep \/ Land \/ Merge

Next ==
    \/ FollowerEdits \/ CommitStarts \/ CommitVerifies \/ CommitMade
    \/ TargetRewritten \/ LeadCommits
    \/ CiStarts \/ CiLoop \/ CiKilled
    \/ Stops \/ Loop

\* The autoland loop and a CI run are processes of their own: their next steps
\* are always taken.
Spec == Init /\ [][Next]_vars /\ WF_vars(Loop) /\ WF_vars(CiLoop)

----------------------------------------------------------------------------
(* Properties *)

\* A landing reaches the target.
Lands == pc = "merge" /\ pc' = "poll" /\ target' # target

\* What relay.py lands on the target has been verified as it lands, whatever
\* the lead commits meanwhile and whether or not a relay command failed
\* halfway: autoland-step believes only the record of the exact tip.
LandedIsVerified ==
    [][Lands => target' \in verified]_vars

\* Every landing is covered by gates: the landed commit contains a commit for
\* which each fast gate really passed, missing results, killed CI runs and
\* reruns notwithstanding, and nothing since then touched a path outside the
\* allowlist, commits of the follower included.
LandedIsGated ==
    [][Lands =>
          \/ ~RequireGate
          \/ \E n \in 0..Len(target') :
                /\ {SubSeq(target', 1, n)} \X Gates \subseteq gated
                /\ Paths(SubSeq(target', n + 1, Len(target'))) \subseteq NoGatePaths]_vars

\* A landing moves the checkout under live gates, those that outlive a killed
\* CI loop included, only if they started after the landing looked for them.
GateKeepsTip == [][Lands => ~GatesLive \/ late]_vars

\* The CI loop takes a commit for handled, and skips it from then on, only if
\* a summary reports on it: a killed run is run again.
SkippedIsReported == ciLast \in {s.sha : s \in summaries}

\* No patch of the lead is lost: rebases and landings keep each one on the
\* lead's branch, or detached on its way there.
LeadKept ==
    [][\A p \in LeadPatches : Contains(lead, p) => Contains(lead', p)]_vars

\* The loop keeps up: again and again the landing branch contains the target,
\* unless the loop ended for attention or a relay command failed halfway.
KeepsUp == []<>(Ancestor(target, landing) \/ pc = "exit" \/ skewed)

\* verified-commit.sh: a commit is made "only after the standing verify passes
\* on exactly the tree being committed".
CommitIsVerified == [][fpc = "commit" /\ fpc' = "edit" => target' \in verified]_vars

=============================================================================
