------------------------------ MODULE Qualify ------------------------------
(***************************************************************************)
(* Release qualification: tools/release/qualify.py runs the stages of      *)
(* qualification_policy.make_plan under a GPU lease and an estate flock,   *)
(* process_runner.run_command runs one stage with a deadline and           *)
(* gpu_monitor.Monitor watches who computes on the selected GPUs.          *)
(*                                                                         *)
(* One attempt (one invocation with its own evidence directory) is         *)
(* modelled step by step; of any other attempt on the estate only its hold *)
(* on the lease and the flock is, and its processes are foreign ones.  A   *)
(* stage command is a process group: a leader and one member that may      *)
(* compute on the GPU, outlive the leader, and be reported by the driver   *)
(* for a while after its exit (a "ghost").  The attempt may be interrupted *)
(* (SIGTERM raises KeyboardInterrupt) or killed between two steps, and     *)
(* every write of evidence may fail.                                       *)
(***************************************************************************)
EXTENDS Integers, Sequences, SequencesExt

CONSTANTS
    Lines,       \* product lines, in plan order
    Profiles,    \* release profiles, in plan order
    Diagnostics, \* number of cold and of reuse diagnostics
    Rounds,      \* number of rounds
    Single,      \* TRUE: --gpu-index was given
    Timeout      \* --stage-timeout, in ticks

ASSUME QualifyAssumption ==
    /\ Lines \in Seq(Range(Lines)) /\ Lines # <<>>
    /\ Profiles \in Seq(Range(Profiles))
    /\ Diagnostics \in Nat /\ Timeout \in Nat /\ Rounds \in Nat \ {0}
    /\ Single \in BOOLEAN

VARIABLES
    pc,       \* next step of the attempt
    at,       \* number of the present stage
    status,   \* summary["status"] in memory
    exc,      \* whether an exception is being unwound
    done,     \* summary["stages"] in memory, a sequence of statuses
    rec,      \* status of the record that run_command returns
    before,   \* cache inventory taken before the stage
    seen,     \* group_inventories
    evidence, \* results on disk, one per finished stage
    payload,  \* status in payload-verification.json
    summary,  \* summary.json, its status and stages
    state,    \* status in state.json
    cache,    \* content of the run directories, by cache group
    leader,   \* leader of the stage's process group
    kid,      \* the member of that group that may use the GPU
    known,    \* whether the monitor has seen that member as a descendant
    orphan,   \* a process of an earlier group that nobody waits for, "on"
              \* while the driver reports it
    foreign,  \* whether a process of somebody else is "on" the GPU
    lease,    \* who holds the GPU lease: "none", "us" or "rival"
    flock,    \* who holds qualification.lock
    lapsed,   \* whether the lease is past its lifetime
    elapsed,  \* time spent in the present stage, up to its deadline
    source,   \* checkout: "clean" when it is the candidate's
    beside    \* history: another process has computed on the GPU at every
              \* moment since the stage was launched

verdict == <<status, exc>>
work == <<at, done, rec, before, seen>>
disk == <<evidence, payload, summary, state>>
procs == <<leader, kid, known, orphan, beside>>
guards == <<lease, flock, lapsed>>
world == <<cache, foreign, source>>
vars == <<pc, verdict, work, disk, procs, guards, world, elapsed>>

----------------------------------------------------------------------------
(* make_plan *)

Stage(line, profile, group, reuse) ==
    [line |-> line, profile |-> profile, group |-> group, reuse |-> reuse]

DiagnosticStages ==
    [n \in 1 .. Diagnostics |-> Stage("cu130", "jax", <<"cold", n>>, FALSE)]
        \o [n \in 1 .. Diagnostics |-> Stage("cu130", "jax", <<"cold", 1>>, TRUE)]
        \o <<Stage("cu130", "jax", <<"profile", 0>>, FALSE),
             Stage("cu130", "jax", <<"profile", 0>>, TRUE)>>

\* The rounds: in each, for each line the profiles and then co-residence; the
\* first one builds the caches that the others reuse.
RoundStages ==
    LET P == Append(Profiles, "coresidence")
        perRound == Len(Lines) * Len(P)
        Nth(n) == LET line == Lines[1 + ((n \div Len(P)) % Len(Lines))]
                      profile == P[1 + (n % Len(P))]
                  IN  Stage(line, profile, <<line, profile>>, n >= perRound)
    IN  [n \in 1 .. Rounds * perRound |-> Nth(n - 1)]

\* A single GPU leaves the diagnostics out.
Plan == (IF Single THEN <<>> ELSE DiagnosticStages) \o RoundStages

Groups == {Plan[i].group : i \in DOMAIN Plan}

----------------------------------------------------------------------------
(* State *)

Steps == {"new", "acquire", "flock", "payload", "stage", "launch", "monitor",
          "poll", "stop", "retain", "release", "unlock", "end", "state", "gone"}
Caches == {"empty", "v1", "v2"}
Statuses == {"running", "blocked", "preflight", "failed", "passed"}
Evidence == [status : {"passed", "failed"}, before : Caches, after : Caches]
Holders == {"none", "us", "rival"}
\* Steps of the with block, which give the lease back when they raise.
Leased == {"flock", "payload", "stage", "launch", "stop", "retain"}
\* Steps of the loop over the plan.
Staging == {"stage", "launch", "monitor", "poll", "stop", "retain"}

TypeOK ==
    /\ pc \in Steps
    /\ at \in DOMAIN Plan
    /\ status \in Statuses /\ exc \in BOOLEAN
    /\ done \in Seq({"passed", "failed"})
    /\ rec \in {"running", "passed", "failed"}
    /\ before \in Caches
    /\ seen \in [Groups -> Caches \cup {"none"}]
    /\ evidence \in Seq(Evidence)
    /\ payload \in {"none", "passed", "failed"}
    /\ summary.status \in Statuses \cup {"none"}
    /\ summary.stages \in Seq({"passed", "failed"})
    /\ state \in Statuses \cup {"none"}
    /\ cache \in [Groups -> Caches]
    /\ leader \in {"none", "running", "zero", "nonzero"}
    /\ kid \in {"none", "idle", "on", "ghost"} /\ known \in BOOLEAN
    /\ orphan \in {"none", "idle", "on"}
    /\ foreign \in {"none", "on"}
    /\ lease \in Holders /\ flock \in Holders /\ lapsed \in BOOLEAN
    /\ elapsed \in 0 .. Timeout
    /\ source \in {"clean", "changed"}
    /\ beside \in BOOLEAN

Init ==
    /\ pc = "new"
    /\ at = 1
    /\ status = "blocked" /\ exc = FALSE
    /\ done = <<>>
    /\ rec = "running"
    /\ before = "empty"
    /\ seen = [g \in Groups |-> "none"]
    /\ evidence = <<>>
    /\ payload = "none"
    /\ summary = [status |-> "none", stages |-> <<>>]
    /\ state = "none"
    /\ cache = [g \in Groups |-> "empty"]
    /\ leader = "none"
    /\ kid = "none" /\ known = FALSE
    /\ orphan = "none"
    /\ foreign \in {"none", "on"}
    /\ lease = "none" /\ flock = "none" /\ lapsed = FALSE
    /\ elapsed = 0
    /\ source = "clean"
    /\ beside = FALSE

Now == Plan[at]

----------------------------------------------------------------------------
(* What the driver reports *)

\* Processes on the GPU other than those of the present group.
Others == "on" \in {orphan, foreign}

\* resource_blockers: any process, or memory in use, blocks.
Occupied == Others \/ kid \in {"on", "ghost"}

\* attribute_gpu_processes for the group's own member.
Attribution ==
    CASE kid = "ghost" -> IF known THEN "exited-owned" ELSE "unattributed-exited"
      [] kid = "on" -> IF leader = "running" THEN "owned"
                       ELSE IF known THEN "owned-reparented" ELSE "foreign"
      [] OTHER -> "none"

\* Mutant: only the processes of the group are looked at.
MonitorRejects_OwnOnly == Attribution \in {"foreign", "unattributed-exited"}

\* Monitor raises: a foreign process, or one that exited before its ownership
\* could be established, is on a selected device.
MonitorRejects == Others \/ Attribution \in {"foreign", "unattributed-exited"}

\* What is left when the group is no longer waited for.  One such process is
\* tracked: the most recent one.
Leftover ==
    IF kid \in {"on", "ghost"} THEN "on"
    ELSE IF leader = "running" \/ kid = "idle" THEN "idle"
    ELSE orphan

NoGroup ==
    /\ leader' = "none"
    /\ kid' = "none"
    /\ known' = FALSE
    /\ beside' = FALSE

----------------------------------------------------------------------------
(* The attempt: _run_attempt *)

\* An exception leaves the try block, through the lease and then the lock.
Unwind ==
    /\ exc' = TRUE
    /\ pc' = CASE pc \in Leased -> "release"
               [] pc = "release" -> "unlock"
               [] OTHER -> "end"

\* The process is gone with its memory.  Nobody reads its caches again: every
\* attempt gives its run directories names of their own.
Gone ==
    /\ pc' = "gone"
    /\ at' = 1
    /\ status' = "blocked" /\ exc' = FALSE
    /\ done' = <<>>
    /\ rec' = "running"
    /\ before' = "empty"
    /\ seen' = [g \in Groups |-> "none"]
    /\ cache' = [g \in Groups |-> "empty"]

\* Everything before the lease: the candidate, the source, the plan and the
\* GPUs are checked; without --execute that is all.
Preflight ==
    /\ pc = "new"
    /\ \/ Occupied /\ pc' = "end" /\ UNCHANGED verdict
       \/ ~Occupied /\ source = "clean" /\ pc' = "acquire" /\ UNCHANGED verdict
       \/ /\ ~Occupied /\ source = "clean"
          /\ status' = "preflight"
          /\ pc' = "end"
          /\ UNCHANGED exc
       \/ Unwind /\ UNCHANGED status
    /\ UNCHANGED <<work, disk, procs, guards, world, elapsed>>

\* lease.py prunes a lease past its lifetime; one of a dead process is gone.
AcquireLease ==
    /\ pc = "acquire"
    /\ \/ /\ lease = "none" \/ lapsed
          /\ lease' = "us"
          /\ lapsed' = FALSE
          /\ pc' = "flock"
          /\ UNCHANGED exc
       \/ lease # "none" /\ ~lapsed /\ Unwind /\ UNCHANGED <<lease, lapsed>>
    /\ UNCHANGED <<status, work, disk, procs, flock, world, elapsed>>

\* Mutant: the flock is not taken.
TakeFlock_Skipped ==
    /\ pc = "flock"
    /\ pc' = "payload"
    /\ UNCHANGED <<verdict, work, disk, procs, guards, world, elapsed>>

\* LOCK_NB: a held lock is an error.
TakeFlock ==
    /\ pc = "flock"
    /\ \/ flock = "none" /\ flock' = "us" /\ pc' = "payload" /\ UNCHANGED exc
       \/ flock # "none" /\ Unwind /\ UNCHANGED flock
    /\ UNCHANGED <<status, work, disk, procs, lease, lapsed, world, elapsed>>

VerifyPayload ==
    /\ pc = "payload"
    /\ \/ payload' = "passed" /\ status' = "running" /\ pc' = "stage"
       \/ payload' = "failed" /\ pc' = "release" /\ UNCHANGED status
    /\ UNCHANGED <<exc, work, evidence, summary, state, procs, guards, world,
                   elapsed>>

\* Mutant: reuse only asks for a cache that is not empty.
ReuseEstablished_NonEmpty == Now.reuse => cache[Now.group] # "empty"

\* A reuse stage needs the cache that its group's previous stage left.
ReuseEstablished ==
    Now.reuse => /\ cache[Now.group] # "empty"
                 /\ cache[Now.group] = seen[Now.group]

\* The head of the loop: source, GPUs and cache are checked before each stage.
CheckStage ==
    /\ pc = "stage"
    /\ \/ /\ source = "clean" /\ ~Occupied /\ ReuseEstablished
          /\ before' = cache[Now.group]
          /\ pc' = "launch"
          /\ UNCHANGED verdict
       \/ /\ source = "clean" /\ (Occupied \/ ~ReuseEstablished)
          /\ status' = "blocked"
          /\ pc' = "release"
          /\ UNCHANGED <<before, exc>>
       \/ source = "changed" /\ Unwind /\ UNCHANGED <<before, status>>
    /\ UNCHANGED <<at, done, rec, seen, disk, procs, guards, world, elapsed>>

\* state.json, then run_command: the log and Popen.  A failed Popen is a
\* failed record; an interrupt inside Popen leaves a process nobody knows.
Launch ==
    /\ pc = "launch"
    /\ state' = "running"
    /\ elapsed' = 0
    /\ \/ /\ leader' = "running"
          /\ rec' = "running"
          /\ beside' = Others
          /\ pc' = "monitor"
          /\ UNCHANGED orphan
       \/ /\ rec' = "failed"
          /\ orphan' \in {orphan, "idle"}
          /\ pc' = "retain"
          /\ UNCHANGED <<leader, beside>>
    /\ UNCHANGED <<verdict, at, done, before, seen, evidence, payload, summary,
                   kid, known, guards, world>>

----------------------------------------------------------------------------
(* run_command *)

Monitor ==
    /\ pc = "monitor"
    /\ IF MonitorRejects
       THEN pc' = "stop" /\ UNCHANGED known
       ELSE pc' = "poll" /\ known' = (known \/ Attribution = "owned")
    /\ UNCHANGED <<verdict, work, disk, leader, kid, orphan, beside, guards,
                   world, elapsed>>

\* Mutant: there is no deadline.
Overdue_Never == FALSE

Overdue == elapsed >= Timeout

\* The deadline is tested before the exit of the leader.  A leader that exits
\* with 0 leaves the other processes of its group running.
Poll ==
    /\ pc = "poll"
    /\ \/ /\ Overdue \/ leader = "nonzero"
          /\ pc' = "stop"
          /\ UNCHANGED <<rec, procs>>
       \/ /\ ~Overdue /\ leader = "running"
          /\ pc' = "monitor"
          /\ UNCHANGED <<rec, procs>>
       \/ /\ ~Overdue /\ leader = "zero"
          /\ rec' = "passed"
          /\ orphan' = Leftover
          /\ NoGroup
          /\ pc' = "retain"
    /\ UNCHANGED <<verdict, at, done, before, seen, disk, guards, world, elapsed>>

\* Mutant: only the leader is signalled.
StopGroup_Leader ==
    /\ pc = "stop"
    /\ rec' = "failed"
    /\ leader' = "none"
    /\ pc' = "retain"
    /\ UNCHANGED <<verdict, at, done, before, seen, disk, kid, known, orphan,
                   beside, guards, world, elapsed>>

\* _stop_group: SIGTERM, up to 15 s, then SIGKILL for whatever is left.  A
\* second interrupt during the wait still kills, but the record is lost.  The
\* driver may go on to report a killed process.
StopGroup ==
    /\ pc = "stop"
    /\ \/ rec' = "failed" /\ pc' = "retain" /\ UNCHANGED exc
       \/ Unwind /\ UNCHANGED rec
    /\ NoGroup
    /\ \/ UNCHANGED orphan
       \/ kid \in {"on", "ghost"} /\ orphan' = "on"
    /\ UNCHANGED <<status, at, done, before, seen, disk, guards, world, elapsed>>

----------------------------------------------------------------------------
(* After the command *)

\* Mutant: the loop goes one stage too far.
LastStage_TooFar == at > Len(Plan)

LastStage == at = Len(Plan)

Result == [status |-> rec, before |-> before, after |-> cache[Now.group]]

\* Results, the cache inventory and result.json are written, then the stage
\* joins the summary; the source is verified again after the last stage.
Retain ==
    /\ pc = "retain"
    /\ seen' = [seen EXCEPT ![Now.group] = cache[Now.group]]
    /\ evidence' = Append(evidence, Result)
    /\ done' = Append(done, rec)
    /\ \/ /\ rec = "failed"
          /\ status' = "failed"
          /\ pc' = "release"
          /\ UNCHANGED <<exc, at>>
       \/ /\ rec = "passed" /\ ~LastStage
          /\ at' = at + 1
          /\ pc' = "stage"
          /\ UNCHANGED verdict
       \/ /\ rec = "passed" /\ LastStage /\ source = "clean"
          /\ status' = "passed"
          /\ pc' = "release"
          /\ UNCHANGED <<exc, at>>
       \/ /\ rec = "passed" /\ LastStage /\ source = "changed"
          /\ Unwind
          /\ UNCHANGED <<status, at>>
    /\ UNCHANGED <<rec, before, payload, summary, state, procs, guards, world,
                   elapsed>>

\* A write of Retain fails: before result.json, before the stage joins the
\* summary, or after.
RetainFails ==
    /\ pc = "retain"
    /\ \/ UNCHANGED <<evidence, done>>
       \/ /\ evidence' = Append(evidence, Result)
          /\ done' \in {done, Append(done, rec)}
    /\ Unwind
    /\ UNCHANGED <<status, at, rec, before, seen, payload, summary, state,
                   procs, guards, world, elapsed>>

LeaseDropped == IF lease = "us" THEN lease' = "none" /\ lapsed' = FALSE
                                ELSE UNCHANGED <<lease, lapsed>>

\* The lease is given back first; releasing one that was pruned succeeds.
ReleaseLease ==
    /\ pc = "release"
    /\ LeaseDropped
    /\ pc' = "unlock"
    /\ UNCHANGED <<verdict, work, disk, procs, flock, world, elapsed>>

FlockDropped == flock' = IF flock = "us" THEN "none" ELSE flock

Unlock ==
    /\ pc = "unlock"
    /\ FlockDropped
    /\ pc' = "end"
    /\ UNCHANGED <<verdict, work, disk, procs, lease, lapsed, world, elapsed>>

\* Mutant: the exception does not change the status.
FinalStatus_Kept == status

\* The except clause.
FinalStatus ==
    IF ~exc THEN status ELSE IF done # <<>> THEN "failed" ELSE "blocked"

\* The finally clause: summary.json is new, then state.json is replaced.
WriteSummary ==
    /\ pc = "end"
    /\ summary' = [status |-> FinalStatus, stages |-> done]
    /\ pc' = "state"
    /\ UNCHANGED <<verdict, work, evidence, payload, state, procs, guards,
                   world, elapsed>>

WriteState ==
    /\ pc = "state"
    /\ state' = FinalStatus
    /\ Gone
    /\ UNCHANGED <<evidence, payload, summary, procs, guards, foreign, source,
                   elapsed>>

\* SIGTERM, or an error of a write, a hash or the release of the lease:
\* run_command catches it, or else _run_attempt does.
Interrupt ==
    /\ \/ pc \in {"monitor", "poll"} /\ pc' = "stop" /\ UNCHANGED <<exc, flock>>
       \/ /\ pc \in {"acquire", "flock", "payload", "stage", "launch", "release"}
          /\ Unwind
          /\ UNCHANGED flock
       \/ pc = "unlock" /\ Unwind /\ FlockDropped
    /\ UNCHANGED <<status, work, disk, procs, lease, lapsed, world, elapsed>>

\* Nothing catches it in the finally clause.
FinallyInterrupted ==
    /\ pc \in {"end", "state"}
    /\ Gone
    /\ UNCHANGED <<disk, procs, guards, foreign, source, elapsed>>

\* SIGKILL: the group goes on, the flock is dropped, and lease.py prunes the
\* lease of a dead process.
Crash ==
    /\ pc \notin {"new", "gone"}
    /\ Gone
    /\ FlockDropped
    /\ LeaseDropped
    /\ orphan' = Leftover
    /\ NoGroup
    /\ UNCHANGED <<disk, foreign, source, elapsed>>

----------------------------------------------------------------------------
(* Stage processes, others on the host, and time *)

\* A moment at which nobody else computes ends the history.
StillBeside == beside' = (beside /\ Others')

\* The member of the group starts and stops to compute, exits, and fades
\* from the driver's report.
KidMoves ==
    /\ leader # "none"
    /\ \/ kid = "none" /\ leader = "running" /\ kid' = "idle"
       \/ kid = "idle" /\ kid' \in {"on", "none"}
       \/ kid = "on" /\ kid' \in {"idle", "ghost"}
       \/ kid = "ghost" /\ kid' = "none"
    /\ known' = (known /\ kid' # "none")
    /\ UNCHANGED <<pc, verdict, work, disk, leader, orphan, beside, guards,
                   world, elapsed>>

LeaderExits ==
    /\ leader = "running"
    /\ leader' \in {"zero", "nonzero"}
    /\ UNCHANGED <<pc, verdict, work, disk, kid, known, orphan, beside, guards,
                   world, elapsed>>

OrphanMoves ==
    /\ orphan # "none"
    /\ orphan' \in {"none", "idle", "on"} \ {orphan}
    /\ UNCHANGED <<pc, verdict, work, disk, leader, kid, known, guards, world,
                   elapsed>>
    /\ StillBeside

\* The stage, or what is left of an earlier one, writes a cache.
CacheWritten ==
    /\ pc \notin {"end", "state", "gone"}
    /\ \E g \in Groups, v \in {"v1", "v2"} :
          /\ cache[g] # v
          /\ \/ leader # "none" /\ g = Now.group
             \/ orphan # "none" /\ \E i \in 1 .. at : g = Plan[i].group
          /\ cache' = [cache EXCEPT ![g] = v]
    /\ UNCHANGED <<pc, verdict, work, disk, procs, guards, foreign, source,
                   elapsed>>

ForeignMoves ==
    /\ foreign' \in {"none", "on"} \ {foreign}
    /\ UNCHANGED <<pc, verdict, work, disk, leader, kid, known, orphan, guards,
                   cache, source, elapsed>>
    /\ StillBeside

SourceChanges ==
    /\ source' \in {"clean", "changed"} \ {source}
    /\ UNCHANGED <<pc, verdict, work, disk, procs, guards, cache, foreign,
                   elapsed>>

\* Another attempt takes the lease, then the flock, and drops them.
Rival ==
    /\ \/ /\ lease = "none" \/ (lease = "us" /\ lapsed)
          /\ lease' = "rival" /\ lapsed' = FALSE
          /\ UNCHANGED flock
       \/ /\ lease = "rival" /\ flock = "none"
          /\ flock' = "rival"
          /\ UNCHANGED <<lease, lapsed>>
       \/ /\ lease = "rival"
          /\ lease' = "none" /\ lapsed' = FALSE
          /\ UNCHANGED flock
       \/ flock = "rival" /\ flock' = "none" /\ UNCHANGED <<lease, lapsed>>
    /\ UNCHANGED <<pc, verdict, work, disk, procs, world, elapsed>>

Tick ==
    /\ pc \in {"monitor", "poll"} /\ elapsed < Timeout
    /\ elapsed' = elapsed + 1
    /\ UNCHANGED <<pc, verdict, work, disk, procs, guards, world>>

\* The lifetime, len(plan) * stage_timeout + 600, ends while its holder hashes
\* inventories, composes releases or stops groups: nothing bounds those.
LeaseLapses ==
    /\ lease # "none" /\ ~lapsed
    /\ lapsed' = TRUE
    /\ UNCHANGED <<pc, verdict, work, disk, procs, lease, flock, world, elapsed>>

Own ==
    \/ Preflight \/ AcquireLease \/ TakeFlock \/ VerifyPayload \/ CheckStage
    \/ Launch \/ Monitor \/ Poll \/ StopGroup \/ Retain \/ RetainFails
    \/ ReleaseLease \/ Unlock \/ WriteSummary \/ WriteState

Next ==
    \/ Own \/ Interrupt \/ FinallyInterrupted \/ Crash
    \/ KidMoves \/ LeaderExits \/ OrphanMoves \/ CacheWritten
    \/ ForeignMoves \/ SourceChanges \/ Rival \/ Tick \/ LeaseLapses

Spec == Init /\ [][Next]_vars

\* An attempt that is not killed keeps taking steps, and time passes.
Fairness == WF_vars(Own) /\ WF_vars(Tick)

FairSpec == Spec /\ Fairness

----------------------------------------------------------------------------
(* verify_reuse: what a later attempt demands of retained evidence *)

\* The last earlier stage of the group of stage i, 0 when there is none.
Previous(i) ==
    LET P == {j \in 1 .. i - 1 : Plan[j].group = Plan[i].group}
    IN IF P = {} THEN 0 ELSE CHOOSE j \in P : \A k \in P : k <= j

VerifyReuse ==
    /\ summary.status = "passed"
    /\ payload = "passed"
    /\ Len(summary.stages) = Len(Plan)
    /\ \A i \in DOMAIN Plan :
          /\ i \in DOMAIN evidence
          /\ evidence[i].status = "passed"
          /\ summary.stages[i] = "passed"
          /\ Plan[i].reuse => /\ evidence[i].before # "empty"
                              /\ Previous(i) # 0
                              /\ evidence[i].before = evidence[Previous(i)].after

----------------------------------------------------------------------------
(* Properties *)

\* Whatever was interrupted, failed or was written late by a process of an
\* earlier stage, an attempt that ends as "passed-attempt" left evidence that
\* verify_reuse accepts: every stage passed and every reuse stage started
\* from exactly the cache that the previous stage of its group left.
PassedIsVerifiable == summary.status = "passed" => VerifyReuse

\* A stage that shared the GPU with somebody else's process at every moment
\* from its launch to its end is not recorded as passed: run_command calls
\* the monitor before it polls the leader.
NotPassedBeside ==
    [][pc = "poll" /\ pc' = "retain" /\ rec' = "passed" => ~beside]_vars

\* When run_command has returned a failed record, no process of the stage is
\* left, neither the leader nor a member that ignored SIGTERM.  (A process
\* whose Popen call was interrupted was never known to the runner.)
FailedStageIsStopped ==
    pc = "retain" /\ rec = "failed" => leader = "none" /\ kid = "none"

\* Stages run only while no other attempt holds the flock, even when the
\* lease has lapsed and was granted to that other attempt.
StagesExclude == pc \in Staging => flock = "us"

\* summary.json says "passed" only if nothing was unwound, errors while the
\* lease is given back included, and state.json never contradicts it.
StateFollowsSummary ==
    /\ pc = "state" /\ summary.status = "passed" => ~exc
    /\ state \notin {"none", "running"} => state = summary.status

\* An attempt that starts to acquire the lease ends: every stage has a
\* deadline, whatever its processes do.
AttemptEnds == (pc = "acquire") ~> (pc = "gone")

=============================================================================
