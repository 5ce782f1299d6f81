---------------------------- MODULE BuildSession ----------------------------
(***************************************************************************)
(* The Foundry variant runner: build_variants.py drives a build matrix,    *)
(* build_session.py records every step durably (append-only event log,     *)
(* then summary.json, then the latest.json pointer, at the end result.txt) *)
(* under one estate flock that stage commands inherit.                     *)
(*                                                                         *)
(* The runner's in-memory report and the files are separate: every durable *)
(* write is a step of its own, before which the runner may be killed, may  *)
(* be interrupted by a signal, or may fail to write.  Stage commands are   *)
(* processes that can outlive the runner.                                  *)
(***************************************************************************)
EXTENDS Integers, Sequences

CONSTANTS
    MaxRuns,   \* bound: runs started on the estate
    Variants,  \* number of line/profile variants, built in order
    PrepPlan,  \* preflight and input preparation, a sequence of work items
    Mirrors    \* number of usable URLs of an input

ASSUME BuildAssumption ==
    /\ MaxRuns \in Nat
    /\ Variants \in Nat
    /\ Mirrors \in Nat
    /\ PrepPlan \in Seq({"phase", "stage", "inputs", "asset"})

VARIABLES
    disk,       \* disk[r]: summary.json of run r
    events,     \* events[r]: closing statuses in events.jsonl of run r
    result,     \* result[r]: status rendered in result.txt of run r
    latest,     \* run that latest.json points at, 0 when there is none
    made,       \* number of run directories made
    cur,        \* run whose report the runner has in memory
    mem,        \* that report
    plan,       \* what this invocation does, a sequence of work items
    at,         \* position in plan
    mirror,     \* next URL to try for the current input
    pc,         \* next step of the runner, "idle" when no runner is alive
    cont,       \* where it goes on after the pending writes
    ctx,        \* which handler an exception would reach
    pending,    \* event about to be logged
    err,        \* exception being unwound
    child,      \* stage command the runner waits for: "none" or "alive"
    strays,     \* runs with a stage command that nobody waits for
    cancel,     \* whether a signal was forwarded to the command
    source      \* checkout, compared with the identity of the run

vars == <<disk, events, result, latest, made, cur, mem, plan, at, mirror, pc,
          cont, ctx, pending, err, child, strays, cancel, source>>

Runs == 1 .. MaxRuns
Variant == 1 .. Variants
Terminal == {"prepared", "built", "failed", "interrupted", "abandoned"}
Phases == {"starting", "working", "complete"}
StageStatus == {"none", "running", "passed", "failed", "interrupted", "abandoned"}
VariantStatus == {"pending", "running", "built", "failed", "interrupted",
                  "skipped", "abandoned"}

\* A report: status and phase of the run, status of its last stage, and of
\* its variants.  Earlier stages have ended.
Report == [status : Terminal \cup {"running"}, phase : Phases,
           stage : StageStatus, variants : [Variant -> VariantStatus]]

NoReport == [status |-> "absent", phase |-> "starting", stage |-> "none",
             variants |-> [v \in Variant |-> "pending"]]

NewReport == [NoReport EXCEPT !.status = "running"]

\* The native builds come after the preparation, one item per variant.
BuildPlan == PrepPlan \o <<"phase">> \o [v \in Variant |-> "variant"]

\* The variant that the item at the present position builds.
ThisVariant == at - Len(PrepPlan) - 1

----------------------------------------------------------------------------
(* Pure parts of the report *)

\* finish: close the report with a status.
Closed(m, status) ==
    [m EXCEPT !.status = status, !.phase = "complete",
       !.variants = [v \in Variant |->
          IF status = "prepared" /\ m.variants[v] = "pending" THEN "skipped"
          ELSE IF status \in {"failed", "interrupted"}
                  /\ m.variants[v] = "running" THEN status
          ELSE m.variants[v]]]

\* abandon_stale_run: close the report of a runner that is gone.
Abandoned(m) ==
    [m EXCEPT !.status = "abandoned", !.phase = "complete",
       !.stage = IF @ = "running" THEN "abandoned" ELSE @,
       !.variants = [v \in Variant |-> IF m.variants[v] = "running"
                                       THEN "abandoned" ELSE m.variants[v]]]

\* latest_report: the pointer selects; without it, the newest summary does.
Selected ==
    IF latest # 0 THEN latest
    ELSE LET S == {r \in Runs : disk[r] # NoReport}
         IN IF S = {} THEN 0 ELSE CHOOSE r \in S : \A s \in S : s <= r

Init ==
    /\ disk = [r \in Runs |-> NoReport]
    /\ events = [r \in Runs |-> {}]
    /\ result = [r \in Runs |-> "none"]
    /\ latest = 0
    /\ made = 0
    /\ strays = {}
    /\ cur = 0
    /\ mem = NoReport
    /\ plan = <<>>
    /\ at = 1
    /\ mirror = 1
    /\ pc = "idle"
    /\ cont = "idle"
    /\ ctx = "setup"
    /\ pending = "none"
    /\ err = "none"
    /\ child = "none"
    /\ cancel = "no"
    /\ source = "clean"

files == <<disk, events, result, latest, made>>
work == <<plan, at, mirror>>
procs == <<child, strays, cancel>>

\* The process of the runner ends, and its memory with it.
RunnerGone ==
    /\ cur' = 0
    /\ mem' = NoReport
    /\ plan' = <<>>
    /\ at' = 1
    /\ mirror' = 1
    /\ pc' = "idle"
    /\ cont' = "idle"
    /\ ctx' = "setup"
    /\ pending' = "none"
    /\ err' = "none"
    /\ child' = "none"
    /\ cancel' = "no"
    /\ source' = "clean"

----------------------------------------------------------------------------
(* Durable writes and exceptions *)

\* Mutant: the change is saved without its event.
Record_Quiet(m, event, k) ==
    /\ mem' = m
    /\ pending' = event
    /\ cont' = k
    /\ pc' = "summary"
    /\ UNCHANGED err

\* Change the report, log an event, save, and go on at k.
Record(m, event, k) ==
    /\ mem' = m
    /\ pending' = event
    /\ cont' = k
    /\ pc' = "event"
    /\ UNCHANGED err

\* Save without an event, and go on at k.
Save(k) ==
    /\ cont' = k
    /\ pc' = "summary"
    /\ UNCHANGED <<mem, pending, err>>

Raise(kind) ==
    /\ pc' = "throw"
    /\ err' = kind
    /\ UNCHANGED <<mem, pending, cont>>

Goto(label) ==
    /\ pc' = label
    /\ UNCHANGED <<mem, pending, cont, err>>

WriteEvent ==
    /\ pc = "event"
    /\ events' = [events EXCEPT ![cur] = IF pending \in Terminal
                                         THEN @ \cup {pending} ELSE @]
    /\ Goto("summary")
    /\ UNCHANGED <<disk, result, latest, made, cur, work, ctx, procs, source>>

\* Stale recovery writes result.txt before the pointer, a run after it.
WriteSummary ==
    /\ pc = "summary"
    /\ disk' = [disk EXCEPT ![cur] = mem]
    /\ Goto(IF ctx = "recover" THEN "result" ELSE "latest")
    /\ UNCHANGED <<events, result, latest, made, cur, work, ctx, procs, source>>

WriteLatest ==
    /\ pc = "latest"
    /\ latest' = cur
    /\ Goto(cont)
    /\ UNCHANGED <<disk, events, result, made, cur, work, ctx, procs, source>>

WriteResult ==
    /\ pc = "result"
    /\ result' = [result EXCEPT ![cur] = mem.status]
    /\ Goto(IF ctx = "recover" THEN "latest" ELSE "exit")
    /\ UNCHANGED <<disk, events, latest, made, cur, work, ctx, procs, source>>

Writing == pc \in {"event", "summary", "latest", "result"}

\* The saves of _execute, with the command running and signals forwarded.
Executing == Writing /\ cont = "wait"

\* What a stage leaves behind: its status, an event and a save.
EndStage(status) ==
    Record([mem EXCEPT !.stage = status], "stage_finished", "stageEnd")

\* A write fails.  Inside _execute the command is killed and the stage fails;
\* elsewhere the error goes to the handler.
WriteFails ==
    /\ Writing
    /\ IF Executing
       THEN EndStage("failed") /\ child' = "none" /\ UNCHANGED <<strays, cancel>>
       ELSE Raise("failed") /\ UNCHANGED procs
    /\ UNCHANGED <<files, cur, work, ctx, source>>

\* A signal interrupts the runner where its handler raises: in execute and in
\* finish, except inside _execute.
Interrupt ==
    /\ pc \in {"step", "mirror", "stage", "stageEnd", "after", "nextItem"} \/ Writing
    /\ ~ Executing
    /\ ctx \notin {"setup", "recover"}
    /\ Raise("interrupted")
    /\ UNCHANGED <<files, cur, work, ctx, procs, source>>

\* Mutant: the variant swallows the exception it has recorded.
Unwind_Swallow ==
    /\ pc = "throw"
    /\ \/ /\ ctx = "variant"
          /\ ctx' = "run"
          /\ Record([mem EXCEPT !.variants[ThisVariant] = err],
                    "variant_finished", "nextItem")
       \/ /\ ctx = "run"
          /\ ctx' = "finish"
          /\ Record(Closed(mem, err), err, "result")
       \/ /\ ctx \in {"setup", "recover", "finish"}
          /\ Goto("exit")
          /\ UNCHANGED ctx
    /\ UNCHANGED <<files, cur, work, procs, source>>

\* An exception inside a variant first closes the variant, then the run; one
\* that reaches no handler, or is raised while the run is being closed, ends
\* the process.
Unwind ==
    /\ pc = "throw"
    /\ \/ /\ ctx = "variant"
          /\ ctx' = "run"
          /\ Record([mem EXCEPT !.variants[ThisVariant] = err],
                    "variant_finished", "throw")
       \/ /\ ctx = "run"
          /\ ctx' = "finish"
          /\ Record(Closed(mem, err), err, "result")
       \/ /\ ctx \in {"setup", "recover", "finish"}
          /\ Goto("exit")
          /\ UNCHANGED ctx
    /\ UNCHANGED <<files, cur, work, procs, source>>

Exit ==
    /\ pc = "exit"
    /\ RunnerGone
    /\ UNCHANGED <<files, strays>>

----------------------------------------------------------------------------
(* Starting a run *)

\* Mutant: commands do not inherit the flock.
LockFree_NotInherited == pc = "idle"

\* The estate flock is free once the runner and every command that inherited
\* it are gone; a second invocation is refused meanwhile.
LockFree == pc = "idle" /\ child = "none" /\ strays = {}

StartRun ==
    /\ LockFree
    /\ made < MaxRuns
    /\ pc' = "recover"
    /\ ctx' = "recover"
    /\ plan' \in {PrepPlan, BuildPlan}
    /\ UNCHANGED <<files, cur, mem, at, mirror, cont, pending, err, procs,
                   source>>

\* Mutant: whatever report is selected is closed.
Stale_Any == IF Selected = 0 THEN FALSE ELSE disk[Selected].status # "absent"

\* Mutant: a report that latest.json points at is taken for closed.
Stale_OnlyUnpointed ==
    IF latest # 0 \/ Selected = 0 THEN FALSE ELSE disk[Selected].status = "running"

\* Only the selected report is looked at, and closed only when it says running.
Stale == IF Selected = 0 THEN FALSE ELSE disk[Selected].status = "running"

Recover ==
    /\ pc = "recover"
    /\ IF Stale
       THEN cur' = Selected /\ Record(Abandoned(disk[Selected]), "abandoned", "create")
       ELSE Goto("create") /\ UNCHANGED cur
    /\ UNCHANGED <<files, work, ctx, procs, source>>

\* BuildSession.__init__: a new directory, the source identity, first records.
Create ==
    /\ pc = "create"
    /\ made' = made + 1
    /\ cur' = made + 1
    /\ ctx' = "setup"
    /\ source' = "clean"
    /\ Record(NewReport, "run_started", "enter")
    /\ UNCHANGED <<disk, events, result, latest, work, procs>>

\* The handler of SIGTERM is installed and Runner.execute begins.
Enter ==
    /\ pc = "enter"
    /\ ctx' = "run"
    /\ Goto("step")
    /\ UNCHANGED <<files, cur, work, procs, source>>

----------------------------------------------------------------------------
(* The matrix *)

Item(kind) == pc = "step" /\ at <= Len(plan) /\ plan[at] = kind

\* execute compares the source once more when the inputs are prepared.
SourceHolds == at = Len(PrepPlan) + 1 => source = "clean"

SetPhase ==
    /\ Item("phase")
    /\ SourceHolds
    /\ Record([mem EXCEPT !.phase = "working"], "phase_changed", "nextItem")
    /\ UNCHANGED <<files, cur, work, ctx, procs, source>>

SourceEdited ==
    /\ pc = "step"
    /\ ~ SourceHolds
    /\ Raise("failed")
    /\ UNCHANGED <<files, cur, work, ctx, procs, source>>

PlainStage ==
    /\ Item("stage")
    /\ Goto("stage")
    /\ UNCHANGED <<files, cur, work, ctx, procs, source>>

\* prepare_inputs records how many inputs there are; without --fetch a
\* missing one fails the run here.
PlanInputs ==
    /\ Item("inputs")
    /\ \/ Record(mem, "inputs_planned", "nextItem")
       \/ Raise("failed")
    /\ UNCHANGED <<files, cur, work, ctx, procs, source>>

\* prepare_asset: the input is there and is installed, or cannot be had, or
\* is fetched from its mirrors.
Asset ==
    /\ Item("asset")
    /\ \/ Save("nextItem")
       \/ Raise("failed")
       \/ Goto("mirror")
    /\ mirror' = 1
    /\ UNCHANGED <<files, cur, plan, at, ctx, procs, source>>

\* Mutant: the mirrors never run out.
TryMirror_Forever ==
    /\ pc = "mirror"
    /\ mirror' = mirror + 1
    /\ Goto("stage")
    /\ UNCHANGED <<files, cur, plan, at, ctx, procs, source>>

TryMirror ==
    /\ pc = "mirror"
    /\ IF mirror <= Mirrors
       THEN mirror' = mirror + 1 /\ Goto("stage")
       ELSE Raise("failed") /\ UNCHANGED mirror
    /\ UNCHANGED <<files, cur, plan, at, ctx, procs, source>>

\* The variant is on record as running before its try block is entered.
StartVariant ==
    /\ Item("variant")
    /\ Record([mem EXCEPT !.variants[ThisVariant] = "running"],
              "variant_started", "stage")
    /\ UNCHANGED <<files, cur, work, ctx, procs, source>>

NextItem ==
    /\ pc = "nextItem"
    /\ at' = at + 1
    /\ Goto("step")
    /\ UNCHANGED <<files, cur, plan, mirror, ctx, procs, source>>

\* execute returns and finish closes the run.
FinishRun ==
    /\ pc = "step"
    /\ at > Len(plan)
    /\ SourceHolds
    /\ ctx' = "finish"
    /\ LET status == IF plan = BuildPlan THEN "built" ELSE "prepared"
       IN Record(Closed(mem, status), status, "result")
    /\ UNCHANGED <<files, cur, work, procs, source>>

----------------------------------------------------------------------------
(* One stage *)

\* check_source, then the stage is on record before its command starts.
BeginStage ==
    /\ pc = "stage"
    /\ ctx' = IF plan[at] = "variant" THEN "variant" ELSE ctx
    /\ IF source = "clean"
       THEN Record([mem EXCEPT !.stage = "running"], "stage_started", "launch")
       ELSE Raise("failed")
    /\ UNCHANGED <<files, cur, work, procs, source>>

\* The command starts with the flock, the forwarding handlers are installed
\* and its PID is saved.
Launch ==
    /\ pc = "launch"
    /\ child' = "alive"
    /\ cancel' = "no"
    /\ Save("wait")
    /\ UNCHANGED <<files, cur, work, ctx, strays, source>>

LaunchFails ==
    /\ pc = "launch"
    /\ EndStage("failed")
    /\ UNCHANGED <<files, cur, work, ctx, procs, source>>

\* SIGTERM before the forwarding handlers are installed raises an
\* InterruptedError, an OSError that stage takes for a launch failure; a
\* command that was started is waited for first.
TermInLaunch ==
    /\ pc = "launch"
    /\ cancel' = "no"
    /\ \/ EndStage("failed") /\ UNCHANGED child
       \/ Goto("drain") /\ child' = "alive"
    /\ UNCHANGED <<files, cur, work, ctx, strays, source>>

\* What a command leaves running when nobody kills its process group.
MayStray == strays' \in {strays, strays \cup {cur}}

\* SIGINT at that place, or in the wait below, raises a KeyboardInterrupt; a
\* command that was started goes on without anyone waiting for it.
IntInLaunch ==
    /\ pc \in {"launch", "drain"}
    /\ child' = "none"
    /\ Raise("interrupted")
    /\ MayStray
    /\ UNCHANGED <<files, cur, work, ctx, cancel, source>>

\* The command of an interrupted launch ends, or a second SIGTERM ends the
\* wait for it.
Drain ==
    /\ pc = "drain"
    /\ child' = "none"
    /\ MayStray
    /\ EndStage("failed")
    /\ UNCHANGED <<files, cur, work, ctx, cancel, source>>

\* Mutant: a command that exits in good order after a signal has passed.
ChildReturns_Graceful ==
    /\ pc = "wait"
    /\ child' = "none"
    /\ \E status \in {"passed", "failed", "interrupted"} : EndStage(status)
    /\ IF cancel = "yes" THEN UNCHANGED strays ELSE MayStray
    /\ UNCHANGED <<files, cur, work, ctx, cancel, source>>

\* The command ends.  After a forwarded signal that is at the latest by
\* SIGKILL, its whole group ends with it, and the stage is interrupted.
ChildReturns ==
    /\ pc = "wait"
    /\ child' = "none"
    /\ \E status \in {"passed", "failed", "interrupted"} :
         /\ cancel = "yes" => status = "interrupted"
         /\ EndStage(status)
    /\ IF cancel = "yes" THEN UNCHANGED strays ELSE MayStray
    /\ UNCHANGED <<files, cur, work, ctx, cancel, source>>

Heartbeat ==
    /\ pc = "wait"
    /\ Save("wait")
    /\ UNCHANGED <<files, cur, work, ctx, procs, source>>

\* A signal is forwarded to the process group of the command.
Forward ==
    /\ pc = "wait" \/ Executing
    /\ cancel' = "yes"
    /\ UNCHANGED <<files, cur, mem, work, pc, cont, ctx, pending, err, child,
                   strays, source>>

\* Mutant: a failed stage of a variant is treated like one of a mirror.
StageEnd_Swallow ==
    /\ pc = "stageEnd"
    /\ \/ mem.stage = "interrupted" /\ Raise("interrupted")
       \/ /\ mem.stage = "failed"
          /\ Goto(IF plan[at] = "asset" THEN "mirror" ELSE "after")
       \/ mem.stage = "passed" /\ source = "edited" /\ Raise("failed")
       \/ mem.stage = "passed" /\ source = "clean" /\ Goto("after")
    /\ UNCHANGED <<files, cur, work, ctx, procs, source>>

\* The stage raises, or checks the source again and returns; a StageFailure
\* of a download only moves on to the next mirror.
StageEnd ==
    /\ pc = "stageEnd"
    /\ \/ mem.stage = "interrupted" /\ Raise("interrupted")
       \/ /\ mem.stage = "failed"
          /\ IF plan[at] = "asset" THEN Goto("mirror") ELSE Raise("failed")
       \/ mem.stage = "passed" /\ source = "edited" /\ Raise("failed")
       \/ mem.stage = "passed" /\ source = "clean" /\ Goto("after")
    /\ UNCHANGED <<files, cur, work, ctx, procs, source>>

\* A plain stage is done.
AfterPlain ==
    /\ pc = "after"
    /\ plan[at] = "stage"
    /\ Goto("nextItem")
    /\ UNCHANGED <<files, cur, work, ctx, procs, source>>

\* A download is verified and installed, or recorded as an integrity failure.
AfterFetch ==
    /\ pc = "after"
    /\ plan[at] = "asset"
    /\ Save("nextItem") \/ Save("mirror") \/ Raise("failed")
    /\ UNCHANGED <<files, cur, work, ctx, procs, source>>

\* The wheels of a variant are validated and the variant is closed.
AfterBuild ==
    /\ pc = "after"
    /\ plan[at] = "variant"
    /\ \/ Raise("failed") /\ UNCHANGED ctx
       \/ /\ ctx' = "run"
          /\ Record([mem EXCEPT !.variants[ThisVariant] = "built"],
                    "variant_finished", "nextItem")
    /\ UNCHANGED <<files, cur, work, procs, source>>

----------------------------------------------------------------------------
(* The environment *)

\* The runner is killed; its command goes on and keeps the flock.
Crash ==
    /\ pc # "idle"
    /\ RunnerGone
    /\ strays' = IF child = "alive" THEN strays \cup {cur} ELSE strays
    /\ UNCHANGED files

StrayExits ==
    /\ \E r \in strays : strays' = strays \ {r}
    /\ UNCHANGED <<files, cur, mem, work, pc, cont, ctx, pending, err, child,
                   cancel, source>>

EditSource ==
    /\ source = "clean"
    /\ pc # "idle"
    /\ source' = "edited"
    /\ UNCHANGED <<files, cur, mem, work, pc, cont, ctx, pending, err, procs>>

RunnerStep ==
    \/ WriteEvent \/ WriteSummary \/ WriteLatest \/ WriteResult
    \/ Unwind \/ Exit \/ Recover \/ Create \/ Enter
    \/ SetPhase \/ SourceEdited \/ PlainStage \/ PlanInputs \/ Asset
    \/ TryMirror \/ StartVariant \/ NextItem \/ FinishRun
    \/ BeginStage \/ Launch \/ LaunchFails \/ StageEnd
    \/ AfterPlain \/ AfterFetch \/ AfterBuild

Signal == Interrupt \/ TermInLaunch \/ IntInLaunch \/ Forward

Next ==
    \/ StartRun
    \/ RunnerStep
    \/ Drain
    \/ ChildReturns
    \/ Heartbeat
    \/ WriteFails
    \/ Signal
    \/ Crash
    \/ StrayExits
    \/ EditSource

Spec == Init /\ [][Next]_vars

\* The runner is scheduled, and a command that was sent a signal ends (the
\* runner kills its process group after the grace period).
Fairness ==
    /\ WF_vars(RunnerStep)
    /\ SF_vars(cancel = "yes" /\ ChildReturns)

FairSpec == Spec /\ Fairness

----------------------------------------------------------------------------
(* Properties *)

\* Reports, pointers and program positions have their types.
TypeOK ==
    /\ disk \in [Runs -> Report \cup {NoReport}]
    /\ events \in [Runs -> SUBSET Terminal]
    /\ result \in [Runs -> Terminal \cup {"none"}]
    /\ latest \in Runs \cup {0}
    /\ made \in 0 .. MaxRuns
    /\ cur \in 0 .. made
    /\ mem \in Report \cup {NoReport}
    /\ plan \in {<<>>, PrepPlan, BuildPlan}
    /\ at \in 1 .. (Len(plan) + 1)
    /\ mirror \in 1 .. (Mirrors + 1)
    /\ ctx \in {"setup", "recover", "run", "variant", "finish"}
    /\ err \in {"none", "failed", "interrupted"}
    /\ child \in {"none", "alive"}
    /\ strays \in SUBSET Runs
    /\ cancel \in {"no", "yes"}
    /\ source \in {"clean", "edited"}

\* While a runner works on the estate no command of an earlier run is alive,
\* because commands inherit the flock (_execute's pass_fds).
OneOwner ==
    pc # "idle" => /\ strays \subseteq {cur}
                   /\ ctx = "recover" => strays = {}

\* A summary that says built has every variant built, one that says prepared
\* has none started, and the last stage of either has passed: no failed,
\* interrupted or open stage is passed over (stage, build_variant, finish).
BuiltIsBuilt ==
    \A r \in Runs :
        /\ disk[r].status = "built" =>
             \A v \in Variant : disk[r].variants[v] = "built"
        /\ disk[r].status = "prepared" =>
             \A v \in Variant : disk[r].variants[v] = "skipped"
        /\ disk[r].status \in {"built", "prepared"} =>
             disk[r].stage \in {"none", "passed"}

\* A variant is started only when those before it are built: a failed or
\* interrupted variant stops the matrix (variant re-raises).
MatrixStops ==
    \A r \in Runs : \A v, w \in Variant :
        v < w /\ disk[r].variants[w] \notin {"pending", "skipped"} =>
            disk[r].variants[v] = "built"

\* The event log is ahead of the summary and the summary of result.txt, so a
\* crash between the writes never leaves a result nobody can trace: a closed
\* summary has its closing event, and result.txt says what the summary says.
LogLeads ==
    \A r \in Runs :
        /\ disk[r].status \in Terminal => disk[r].status \in events[r]
        /\ result[r] # "none" => result[r] = disk[r].status

\* Once a run is closed its summary never changes again, whatever later runs
\* recover, and the pointer never goes back to an older run (finish,
\* abandon_stale_run).
ClosedForGood ==
    [][/\ \A r \in Runs : disk[r].status \in Terminal => disk'[r] = disk[r]
       /\ latest' >= latest]_vars

\* Past its recovery, a runner leaves no other record that says running,
\* except that of a run that died in its very first save (abandon_stale_run).
StuckOnlyAtBirth ==
    pc # "idle" /\ ctx \in {"run", "variant", "finish"} =>
        \A r \in Runs \ {cur} :
            disk[r].status = "running" => disk[r] = NewReport

\* A runner that forwarded a signal to its command ends, unless it could not
\* write its report meanwhile (_execute's grace period, stage and finish).
CancelStops ==
    (cancel = "yes" /\ pc = "wait") ~> (pc = "idle" \/ mem.stage = "failed")
=============================================================================
