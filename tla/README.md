# Verification of vaso

TLA+ models of the parts of this repository that coordinate processes through
files, locks, git branches and signals. TLC checks every property on small
instances; TLAPS proves the safety properties for every value of the constants.
Lines and paths refer to `src/`.

## The system and its parts

vaso builds wheels for several CUDA lines in sandboxed roots on shared
machines. There is no server: shell scripts and Python commands, started by
people, agents and CI, meet on one *estate* directory. What they share is

| Part | State | Operations | Meets others through |
| --- | --- | --- | --- |
| lease command (`insula/execution/lease.py`) | one JSON file and one flock per resource | acquire, release, check, list | every build, gate and fetch takes leases |
| insula shell (`insula/execution/insula.sh`) | held lease id in the environment, download files | run in sandbox, fetch, unbundle | leases, rootfs |
| rootfs preparation (`insula/rootfs/prepare.py`) | attempt records, staging directories, the destination | restore, build, reconcile, publish | flock inherited by construction commands |
| rootfs bundles and tools (`bundle.sh`, `foundry_tools.py`) | destination trees | bundle, unbundle, provision | called by preparation |
| build session (`foundry/tools/build_session.py`, `build_variants.py`, `build_report.py`) | event log, `summary.json`, `latest.json`, `result.txt` per run | run a matrix, recover, status | estate flock inherited by stage commands, signals |
| release qualification (`tools/release/qualify.py`, `process_runner.py`, `gpu_monitor.py`) | attempt directory with evidence per stage, summary, state | preflight, run stages, monitor, retain | GPU lease, flock, process groups |
| CI loop (`tools/ci/ci-loop.sh`, `ci_summary.py`) | results and summary per run, last commit | verify, run the fast gates, summarise | flock, leases, summaries read by landing |
| landing (`tools/agents/autoland.sh`, `relay.py`, `verified-commit.sh`) | target, lead and landing branches, verify records | rebase, verify, land, commit | one git checkout shared with the follower and the gates |
| nightly (`tools/ci/nightly.sh`, `nightly_summary.py`, `gpu_wait.py`) | run directories, summaries, state | gates, determinism, summary, pruning | flock, leases, the checkout, releases |
| release gate (`triumvirate-gate-insula.sh`, `triumvirate_acceptance.py`) | sub-results, acceptance document | stages, skipping, waivers | run by the nightly and the CI loop |
| release cutting (`tools/release/cut.py`, `nightly_selection.py`) | release directories | select, check, copy, publish | nightly run directories |
| ticket claims (`tools/agents/relay.py`) | one file per ticket | claim, heartbeat, release, list | claim files |
| publication (`tools/publish/`) | registry | push, pull, sanitise | pure I/O |
| rules, plans, guards, workloads | checked-in files | static checks | none |

What is hard in this code is what happens between two file operations: another
process runs, a process is killed and its children are not, a signal arrives
before its handler is installed, a PID is reused, a write fails. `PROJECT.json`
lists these hazards at their lines. What makes each part correct:

- leases: an unexpired lease has no rival and is in the file; CPU shares fit
  the budget; acquire returns;
- build session: one owner per estate with its orphans counted; records that a
  crash cannot falsify; a failed variant stops the matrix; a dead run is closed;
  a cancelled run ends;
- preparation: a destination is published once and whole; orphans keep others
  out; records of live attempts stay open and outcomes stay;
- claims: a ticket has one owner;
- qualification: passed evidence can be verified; a stage runs alone, is stopped
  when it fails and is not passed beside a foreign GPU process; an attempt ends;
- landing: what lands was verified and gated as it lands; the checkout does not
  move under a gate; no patch is lost; the landing branch keeps up; the CI loop
  skips only what it reported on;
- nightly and releases: green means that every stage of every gate ran; what is
  released was proven; pruning keeps the newest green nights and the runs of
  releases; every night ends.

## Modules

| Module | Models |
| --- | --- |
| `Lease` | the lease command |
| `LeaseGrants` | what it promises: a set of grants without conflict |
| `BuildSession` | the variant runner, its stages and its records |
| `RootfsPrepare` | attempts to prepare one rootfs destination |
| `Claims` | ticket claims of `relay.py` |
| `Qualify` | one qualification attempt, its stages and their processes |
| `Landing` | the autoland loop composed with the follower's commits and the CI loop |
| `Gate` | one release gate: which stages run, waivers, the acceptance |
| `Nightly` | the nightly (extends `Gate`), its pruning, and the cutting of releases |
| `MC...` | instances for TLC |
| `LeaseProofs`, `BuildSessionProofs`, `RootfsPrepareProofs`, `ClaimsProofs`, `QualifyProofs`, `LandingProofs`, `NightlyProofs` | inductive invariants and theorems about these modules |
| `Extrema` | lemmas for proofs: a nonempty set of numbers has a least, a bounded one a greatest |

Definitions named `X_Y` above a definition `X` are mutants: plausible bugs of
`X`, used to see that a property notices them.

### Lease

`leases[r]` is the file of resource `r`, `lock[r]` the client whose command has
its flock. A client is a long-running process with a PID; `pc`, `cmd`, `buf`
and `got` belong to the one lease.py command it runs at a time; `held` are the
leases it was told about. Taking the flock and loading the file (`Lock`) is one
step, writing the file and dropping the flock a later one (`GrantExclusive`,
`GrantGpu`, `GrantCpu`, `Unavailable`, `ReleaseHere`, `PruneHere`), printing a
third (`Reply`). In between clients die (`Die`), commands are killed alone
(`KillCommand`), PIDs are reused (`ReusePid`) and time passes (`Tick`). A
command of a dead client goes on as an orphan. `release`, `check` and `list`
without `--resource` walk several files, one flock after the other.

Abstractions: a lease identifier is a fresh model value; a malformed file or a
bad argument ends the command with no change and is not a step of its own;
device lists are sets, of which the code takes the lowest free ones.

A lease is *in force* while a running client holds it, or is about to be told,
and it has not expired. Expired leases promise nothing: nothing in the code
renews a lease, so a holder that overstays has no claim.

### BuildSession

`disk`, `events`, `result` and `latest` are the files; `mem` is the report in
the memory of the runner; `pc` walks through the program. `Record` stands for
a change of the report with its event and its save, whose writes are the steps
`WriteEvent`, `WriteSummary`, `WriteLatest` (and `WriteResult` in `finish`;
recovery writes it before the pointer). The work of an invocation is a `plan`:
the preparation (phases, stages, the input inventory, inputs with mirrors), then
the variants. `ctx` says which handler an exception reaches: the variant's, the
run's, or none. `child` is the stage command, `strays` are commands whose
runner does not wait for them; both hold the flock. A runner can be killed
(`Crash`), interrupted where its handlers raise (`Interrupt`), asked to forward
a signal (`Forward`), caught by a signal between `Popen` and the installation of
the forwarding handlers (`TermInLaunch`, `IntInLaunch`), and each write can fail
(`WriteFails`).

Abstractions: a report keeps the status of the run, its last stage and its
variants; phases are one value once work has begun; the periodic save after
every tenth input is not separate from the one at the end.

### RootfsPrepare

`record`, `noted`, `stage` and `dest` are the files of attempts on one
destination (attempts on other destinations are skipped by `reconcile`). The
flock is held by an attempt in its `with` block or by a construction command
that inherited it. `reconcile` is three steps per record, read, probe of the
PID, removal and closing, because the owner may end between them. `StepFails`
is the failure of any operation inside `try`. Cleanup and the final record come
after the flock is dropped, as in `main`.

### Claims

One claim file, every file operation a step. `told[a]` is until when agent `a`
was told it owns the ticket. The file of a dead creator stays empty and makes
every later command fail (`ReadEmpty`).

### Qualify

An attempt runs the stages of a plan (`Plan` from `make_plan`: diagnostics unless
one GPU was selected, then rounds over lines and profiles, of which the first is
cold and the later ones reuse its caches; `RoundStages` numbers the stages of
these nested loops). `pc` goes from the lease over the flock, the payload check and the
stages to the summary and the state file. The process side is apart: `leader`
is the process Popen started, `kid` a member of its group that may outlive it,
ignore SIGTERM or, once its stage passed, stay behind as an orphan that still
writes into the cache; the driver may go on reporting it for a while; `Monitor` is called before each poll. Exceptions unwind
(`Unwind`) through the releases of flock and lease to the `finally` block, as
in `_run_attempt`; an interrupt may also arrive inside that block
(`FinallyInterrupted`), and a write of the evidence may fail (`RetainFails`).
Others use the GPU (`ForeignMoves`), change the checkout (`SourceChanges`),
compete for lease and flock (`Rival`), and the lease lapses (`LeaseLapses`).
`VerifyReuse` is the check that later readers of the evidence make. Caches are
version numbers: an inventory sees equal content or not.

### Landing

A commit is the sequence of its patches, so that an ancestor is a prefix and a
rebase replays what the new base lacks (`Replayed`: exactly the missing patches,
each once and in their order); each patch changes one path. `target`
is HEAD of the follower's checkout, `lead` and `head` the branch and HEAD of the
lead's worktree (apart after a rebase until `checkout -B`), `landing` the landing
branch. The steps of `relay.py rebase`, `autoland-step` and `land` are separate
where other processes can act between them: the checks (`Land`) and the merge,
the verify and the record, the record and the branch. `verified-commit.sh` is
`CommitStarts`, `CommitVerifies`, `CommitMade`. The CI loop runs a verify and the
gates at once; a gate ends passed, failed or without a result file, a killed
loop leaves gates that hold its flock (`orphans`). `summaries` is what
`ci_gate_green_for_landing` reads; `gated` is what really passed.

Abstractions: rebase conflicts are a choice; untracked files, the tracker and
the command-line overrides (`--force-during-gate`) are left out; the 60 s wait
for a lease inside a gate is one of the ways in which it fails.

### Gate and Nightly

`Gate` has no state: from which stages would pass, which waivers exist and
whether the evidence files are complete follow the stages that run, the failed
sub-results, the acceptance document and the exit code. `Nightly` takes any of
these outcomes for each gate. Nights are numbered in the order of their starts;
a commit is the number of a tree. `npc` walks through `nightly.sh`; `orphan` says
that it was killed and only its child goes on, with the flock. The result of a
gate or check can be missing, because `set -e` has no effect in a function that
is called in a condition. The summary is written twice, around the pruning,
whose scan, single deletions and report are steps; `cut.py` selects, checks,
copies and publishes in between. History variables remember which stages really
ran (`did`, `proof`) and which releases raced with the pruning (`raced`).

Abstractions: pruning handles run directories only (work directories and output
bases follow the same references); SLOs and headroom are choices; the wheels of
a gate are identified with the run.

## What the runs show

| Run | Bounds | Result |
| --- | --- | --- |
| `lease_exclusive` | two clients, two hosts, one resource, two lifetimes, two timeouts | type correctness, exclusion, no lost record, refinement of `LeaseGrants`; under fairness every acquire returns |
| `lease_pools` | two clients, up to two devices of changing capacity, two CPU budgets, commands that walk both files | exclusion of device sets; shares split the budget |
| `build_matrix` | one run, three variants, two mirrors | a run recorded as built or prepared is; a failed variant stops the matrix; under fairness a cancelled run ends |
| `build_recovery` | two owners, one variant | orphans keep the estate; records in a safe order; closed runs stay closed; only a run that died in its first save stays running |
| `rootfs_safe` | three attempts | orphans exclude, live records stay open, destination and reports agree, recorded staging is reclaimed before a record is closed |
| `claims_fresh` | three agents, claims that do not lapse | an owner keeps its claim on file |
| `qualify` | three rounds of one stage (cold, reuse, reuse), two cache contents, a deadline of one tick, interrupts, a kill, a rival | passed evidence is verifiable, stages exclude each other and foreign processes, failed stages are stopped, `state.json` follows the summary; under fairness every attempt ends |
| `landing` | one patch of the lead, two of the follower (one before the start), one rewrite of the target, one gate beside the standing verify, two CI runs, one kill | landed is verified and gated, gates keep their tip, no patch is lost, skipped commits are reported; under fairness the landing branch keeps up |
| `nightly` | three past green nights and a fourth, two kept, one profile on two lines, gates of a check, the prefixes and three release stages, a landing, a kill, a release | released is proven, green ran everything, pruning keeps the newest and the released; under fairness every night ends |
| `claims_lapsed`, `landing_race`, `nightly_tree` | | violations, see below |

Bounds: two clients make every race on a lease file, since a flock is between
two; a third record is never needed for a conflict, which is between two
leases. In `lease_exclusive` `MaxTime` allows one expiry and a lease granted
after it. The clock of `lease_pools` stands still: its leases leave the files by
release and by the death of their owners, which prune through the same
`ActiveLeases`, and its budgets of 1 and 3 have more holders than CPUs and a
share with a remainder. Two owners are the least with a run to recover; two
mirrors the least with a retry; three variants the least with one before and
one after a failed one. Three attempts allow one to reconcile what another left
while a third waits. Three stages are the least with a reuse stage whose
predecessor reused (diagnostics only make the plan longer); one gate suffices
for a summary whose verdict is over fewer results than were due, since the
standing verify leaves one too; three past nights with `KeepGreen = 2` the least where the
pruning after a green night removes more than one. One kill per run: what
matters is where it strikes. `TokenLeft` keeps a fresh identifier for every acquire.
Deadlock checking is off where the bounds on runs, nights, commits or attempts
stop the system.

Fairness. `Lease`: the clock moves, a command that can go on does, and a command
waiting for a flock that is free again and again gets it (strong fairness of
`Lock`: the kernel wakes waiters of a released flock, and the code sleeps and
retries otherwise). `BuildSession`: the runner is scheduled; a command that was
sent a signal ends, because after 15 seconds the runner kills its group (strong
fairness, since heartbeats interleave). `Qualify`: the runner goes on and its clock
moves, so that deadlines pass; the processes of a stage owe nothing. `Landing`:
the autoland loop and a started CI run take their next steps; neither a commit,
nor the start of a CI run, is assumed. `Nightly`: a started night goes on and the
deadline of the GPU wait passes; foreign memory need never be freed, because a
gate and a check are under `timeout`. No fairness is assumed for commands that
were not cancelled, for writes that fail, or for clients.

### Disagreements with the documentation

Shown by a run:

- `claims_lapsed`: `claim` is "for one agent" (`tools/agents/relay.py:1433`). A
  command that read an expired claim removes or replaces a fresh one of another
  agent.
- `landing_race`: `verified-commit.sh:2` commits "only after the standing verify
  passes on exactly the tree being committed". A landing between verify and
  `git commit` changes the base of the commit.
- `nightly_tree`: wheels of a release "belong to one git commit"
  (`foundry/tools/release_wheel_identity.py:2`). The nightly resolves the commit
  once, and its gates build the checkout, which a landing may move between two
  of them; the wheels carry the resolved commit all the same.

Met while modelling; the models have these behaviours, and the properties are
stated so as to hold beside them:

- `docs/foundry.md:162` promises that the next owner marks a dead run as
  abandoned. The first save writes `summary.json` before `latest.json`
  (`build_session.py:243`); a run that dies in between is never found.
  `StuckOnlyAtBirth` shows that this is the only case.
- `docs/foundry.md:107` says cancellation forwards the signal. A SIGTERM between
  `Popen` and the handlers (`build_session.py:417-445`) becomes an
  `InterruptedError`, which `except OSError` (line 374) takes for a failed
  launch; the command runs on and the next mirror is tried.
- `docs/operator-guide.md:95` says a retry reconciles owners killed without an
  outcome. An attempt that ends between the read and the probe of its record
  (`prepare.py:150-154`) has its outcome replaced by `interrupted`.
- `docs/operator-guide.md:94` says signals remove owned staging. A signal or a
  kill right after `mkdtemp` (`prepare.py:216`) leaves the directory;
  `ReclaimedIsClean` holds for what was recorded.
- `docs/agents/cross-agent-collaboration.md:29` says "The landing ref points only
  at a verified tip". `relay.py:873` prints VERIFY_PASSED before the record is
  written and the branch moved; if one fails, `autoland.sh:121-122` moves the
  landing branch to commits nobody verified. `autoland-step` refuses them
  (`LandedIsVerified`).
- `nightly.sh:263-266` writes a failed report for a pruning that died "before
  writing a report", but only if `gc.json` is empty, and line 234 has put `{}`
  there: the second summary of such a night says passed while the script exits
  with 1.
- A release can be cut between the two summaries of a night that then turns red.
- The lifetime of the nightly's leases is 6 h and the time limit of a gate 8 h
  (`nightly.sh:30-31`).
- A waived failure of the last release stage gives a passed acceptance without a
  release section: the night is green and `cut.py` refuses it.
- `GATE_CMD` defaults to `tools/agents/triumvirate-gate.sh` (`ci-loop.sh:21`,
  `nightly.sh:27`), while the script is in `scripts/agents/`.

## What is proved

Every invariant and every action property of the passing runs is also a theorem,
for every value of the constants: any numbers of clients, attempts, agents,
runs, stages, patches, gates and nights. The theorems rest on the named
assumptions of the modules alone (`LeaseAssumption`, `BuildAssumption`, ...), which say
that names differ from one another, that bounds are numbers and that the plans
and matrices the scripts iterate over are nonempty sequences. `ClaimsStay` has one
hypothesis more, see below.

| Module | Theorems (property) |
| --- | --- |
| `LeaseProofs` | `TypeCorrect`, `Recorded` (`InForceRecorded`), `Exclusion` (`HoldersExclude`), `SharesFollow` (`SharesSplitBudget`), `Implements` (the refinement of `LeaseGrants`) |
| `BuildSessionProofs` | `SessionTypes`, `OwnersExclude` (`OneOwner`), `LogsLead`, `StuckAtBirth`, `BuiltMeansBuilt`, `MatricesStop`, `ClosedStay` (`ClosedForGood`) |
| `RootfsPrepareProofs` | `PrepareTypes`, `OrphansExclude`, `LiveRecordsStay` (`LiveRecordOpen`), `ReportsAreTrue` (`ReportedIsPublished`), `ReclaimPrecedesClose` (`ReclaimedIsClean`), `DestinationStays` (`DestinationKept`) |
| `ClaimsProofs` | `ClaimsStay` (`ClaimOnFile`) |
| `QualifyProofs` | `QualifyTypes`, `PassedVerifies` (`PassedIsVerifiable`), `StagesHoldFlock` (`StagesExclude`), `FailuresStop` (`FailedStageIsStopped`), `StatesFollow`, `PassesAlone` (`NotPassedBeside`) |
| `LandingProofs` | `LandingsVerified`, `LandingsGated`, `GatesKeepTip`, `LeadsPatchesKept` (`LeadKept`), `SkipsAreReported` |
| `NightlyProofs` | `GreenNightsRanAll`, `ReleasesAreProven`, `ReleasedRunsStay`, `NewestGreenStay` |

Each proof has the same shape: an inductive invariant, whose parts are named for
the reason they are there; one step per action, under it one per part that the
action can disturb; and the property from the invariant. TLC checked each
invariant on the instances above before it was proved. None of the properties is
inductive as it stands:

- `LeaseInv`. Exclusion alone would let a command write back a list that it loaded
  earlier. The invariant says what the buffer of a command that has the flock
  is: every record of the file that is in force is still in it, because the
  file cannot change while the flock is held and a holder that was pruned is
  dead or expired and does not come back. Identifiers are not shared between
  leases and the records of a file do not conflict. `ShareInv` adds that the
  tokens of the host-cpu file differ, so that rewriting the shares keeps the
  number of records they were computed from; the shares then fit by
  n * (b div n) <= b.
- `SessionInv`. A record is right only if what is still to be written is:
  `ControlInv` ties each place in the program to its exception handler, across
  the writes of a `Record` (`Resume` is where it goes on after them), `ReportInv`
  and `LogInv` say which report is in memory and how far its closing is written,
  `BirthInv` that a record which says running, apart from those of runs that died
  at birth, is the one `latest.json` selects, and `MatrixInv` that variants are
  built in order in memory too.
- `PrepareInv`. What `reconcile` learned of a record must still be true when it acts:
  `ProbedDead` says that an attempt whose PID was found gone stays done, and
  `OutIsTrue` that a result in memory is true before it is reported.
- `ClaimsInv`. A command about to create, replace or unlink the claim file owns it
  (`OwnerInv`). That is false once a claim lapses, as `claims_lapsed` shows, so the
  theorem assumes `NoLapse`, that every lifetime reaches beyond the observed time,
  as in `claims_fresh`: it is about the interleavings, not about expiry.
- `QualifyInv`. `LoopInv` relates memory to evidence: the stages so far are on disk,
  each reuse stage started from what the last earlier stage of its group left,
  and `group_inventories` has what the last of each group left. `PreviousIsLatest`
  shows that the predecessor `verify_reuse` looks for is that stage. `FinalInv` and
  `CompleteInv` order the final files after the last stage.
- `LandingInv`. `RecordsTrue` and `ResultsTrue` say that verify records and gate
  results are of commits that passed, `Covered` that what is about to land contains a
  gated commit and only allowlisted paths since; `HeadKeeps` that a rebased HEAD
  has the lead's patches until the branch follows. The
  lemma behind it, `RebasedKeeps`, shows that a replay loses no patch.
- `NightInv`. Two lemmas on `Gate` come first: a passed acceptance ran every
  stage, and one with a release section passed every release stage, whatever the
  waivers. `SameResults` carries the first summary to the second, `Proven` what
  `cut.py` has read of a night that may turn red afterwards, and
  `PrunedForNewer` counts the newer green nights for which one was pruned.

Only model-checked: liveness (`AcquireReturns`, `CancelStops`, `AttemptEnds`,
`KeepsUp`, `NightEnds`), which needs fairness and `ENABLED` and is outside the reach of
the prover; and the three violations, which are counterexamples.

## Plan

Done: `Lease`, `BuildSession`, `RootfsPrepare`, `Claims`, `Qualify`, `Landing` with the CI
loop, `Gate`, `Nightly` with the pruning and the cutting of releases; a theorem for
every safety property that a run checks.

Next:

1. `Claims` with lapsing claims: what still holds then (a claim is lost only to a
   command that had read an expired record), as a property and a theorem;
2. an abstract specification of the release chain, from gated commit to release,
   refined by `Nightly`, in the way `Lease` refines `LeaseGrants`;
3. what the landing branch and the summaries promise to the nightly, so that
   `Landing` and `Nightly` can be composed.

## Not modelled

The models cover the code that coordinates processes, a small share of the
repository's lines. Most of the rest is code of one process over its own
inputs, without a state that another could meet, where a model would repeat the
program: machine-learning workloads and benchmarks (`foundry/workloads`), build
plans and drivers of native packages (`foundry/native`), the generators and
static guards (`foundry/tools/gen_plans.py`, `rebuild_impact.py`, the `*_guard.py`
checks), Bazel rules, vendored packages, registry transport and snapshots
(`tools/publish`). Of a stage, a guard or a workload the models keep what the
coordinating code sees of it: that it passes, fails, hangs, dies, or leaves
processes or no result.

Report rendering, hashing, JSON validation and command lines appear only
through their outcomes. The share of CPU jobs in the environment of a running
build is fixed at acquire time, while the file's shares change, and is not
modelled. `bundle.sh unbundle` removes its destination before it moves the new
tree there (`bundle.sh:336`): inside `prepare.py` the destination is private, and
about a manual unbundle that is killed in between the repository promises
nothing. The ledger, evidence, review and status commands of `relay.py`, and the
wrappers around the external agent program, are not modelled.
