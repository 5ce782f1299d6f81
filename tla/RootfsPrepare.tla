--------------------------- MODULE RootfsPrepare ---------------------------
(***************************************************************************)
(* insula/rootfs/prepare.py: concurrent attempts to prepare one rootfs     *)
(* destination.  An attempt keeps a result.json, takes the flock of the    *)
(* destination, closes the records of dead attempts, builds in a private   *)
(* staging directory with a command that inherits the flock, and publishes *)
(* with a rename that refuses an existing destination.                     *)
(*                                                                         *)
(* Attempts stand for their processes and PIDs.  An attempt may be killed  *)
(* or interrupted, or an operation of it may fail, at every step.          *)
(***************************************************************************)
EXTENDS Integers

CONSTANTS
    Attempts,  \* preparations of the destination, each one process
    None,      \* no attempt: the destination is absent, or nothing is probed
    Foreign    \* a writer that does not take part in the locking

ASSUME PrepareAssumption ==
    /\ None \notin Attempts
    /\ Foreign \notin Attempts \cup {None}

VARIABLES
    record,  \* record[a]: status in result.json of a
    noted,   \* noted[a]: whether that record names the staging directory
    stage,   \* stage[a]: the staging directory of a
    dest,    \* who made the destination
    pc,      \* pc[a]: next step of a
    out,     \* out[a]: the result that a has in memory, printed at the end
    todo,    \* todo[a]: records that a has yet to reconcile
    probed,  \* probed[a]: the attempt whose record a found running
    child,   \* child[a]: construction command of a, possibly without a
    pid      \* pid[a]: what kill(pid, 0) finds

vars == <<record, noted, stage, dest, pc, out, todo, probed, child, pid>>

Status == {"running", "reused", "prepared", "failed", "interrupted"}

\* Steps with the flock and before the staging directory is assigned, with
\* both, and with neither.
Reconciling == {"reconcile", "probe", "reclaim", "close"}
Building == {"mark", "note", "launch", "wait", "check", "seal", "publish"}
Outside == {"select", "queue"}

Init ==
    /\ record = [a \in Attempts |-> "absent"]
    /\ noted = [a \in Attempts |-> FALSE]
    /\ stage = [a \in Attempts |-> "none"]
    /\ dest = None
    /\ pc = [a \in Attempts |-> "new"]
    /\ out = [a \in Attempts |-> "running"]
    /\ todo = [a \in Attempts |-> {}]
    /\ probed = [a \in Attempts |-> None]
    /\ child = [a \in Attempts |-> "none"]
    /\ pid = [a \in Attempts |-> "gone"]

files == <<record, noted, stage, dest>>

At(a, label) == pc' = [pc EXCEPT ![a] = label]

Put(f, a, value) == [f EXCEPT ![a] = value]

----------------------------------------------------------------------------
(* Outcomes *)

\* The exception handlers and the end of the with block: the flock is dropped,
\* the outcome is in memory, the staging directory is removed next if it was
\* assigned.
Leave(a, status) ==
    /\ out' = Put(out, a, status)
    /\ At(a, IF pc[a] \in Building THEN "cleanup" ELSE "report")
    /\ todo' = Put(todo, a, {})
    /\ probed' = Put(probed, a, None)

\* Stop the construction: SIGTERM, ten seconds, SIGKILL.
StopChild(a) == child' = IF pc[a] = "wait" THEN Put(child, a, "none") ELSE child

\* Some operation of the step raises.
StepFails(a) ==
    /\ pc[a] \in Outside \cup Reconciling \cup Building
    /\ Leave(a, "failed")
    /\ StopChild(a)
    /\ UNCHANGED <<files, pid>>

\* SIGINT or SIGTERM.
Interrupt(a) ==
    /\ pc[a] \in Outside \cup Reconciling \cup Building
    /\ Leave(a, "interrupted")
    /\ StopChild(a)
    /\ UNCHANGED <<files, pid>>

\* SIGINT or SIGTERM right after mkdtemp, before staging is assigned, and
\* right after Popen, before the try block that stops the command.
InterruptInWindow(a) ==
    /\ out' = Put(out, a, "interrupted")
    /\ \/ pc[a] = "mark" /\ At(a, "report") /\ UNCHANGED child
       \/ pc[a] = "launch" /\ At(a, "cleanup") /\ child' = Put(child, a, "alive")
    /\ UNCHANGED <<files, todo, probed, pid>>

\* Mutant: a failed removal becomes a status of its own.
Cleanup_NewStatus(a) ==
    /\ pc[a] = "cleanup"
    /\ \/ stage' = Put(stage, a, "none") /\ UNCHANGED out
       \/ out' = Put(out, a, "cleanup_error") /\ UNCHANGED stage
    /\ At(a, "report")
    /\ UNCHANGED <<record, noted, dest, todo, probed, child, pid>>

\* remove_stage; a failure turns a success into a failure.
Cleanup(a) ==
    /\ pc[a] = "cleanup"
    /\ \/ stage' = Put(stage, a, "none") /\ UNCHANGED out
       \/ /\ out' = Put(out, a, IF out[a] \in {"prepared", "reused"}
                                THEN "failed" ELSE out[a])
          /\ UNCHANGED stage
    /\ At(a, "report")
    /\ UNCHANGED <<record, noted, dest, todo, probed, child, pid>>

\* The final record is written and printed, and the process ends.
Report(a) ==
    /\ pc[a] = "report"
    /\ record' = Put(record, a, out[a])
    /\ At(a, "done")
    /\ pid' = Put(pid, a, "gone")
    /\ UNCHANGED <<noted, stage, dest, out, todo, probed, child>>

----------------------------------------------------------------------------
(* The attempt *)

Begin(a) ==
    /\ pc[a] = "new"
    /\ record' = Put(record, a, "running")
    /\ pid' = Put(pid, a, "alive")
    /\ At(a, "select")
    /\ UNCHANGED <<noted, stage, dest, out, todo, probed, child>>

\* The destination is safe and the selection is recorded.
Select(a) ==
    /\ pc[a] = "select"
    /\ At(a, "queue")
    /\ UNCHANGED <<files, out, todo, probed, child, pid>>

\* Mutant: the construction does not inherit the flock.
LockFree_NotInherited == \A b \in Attempts : pc[b] \notin Reconciling \cup Building

\* The flock is held by an attempt in its with block and by every command
\* that inherited it.
LockFree ==
    \A b \in Attempts :
        pc[b] \notin Reconciling \cup Building /\ child[b] = "none"

Lock(a) ==
    /\ pc[a] = "queue"
    /\ LockFree
    /\ At(a, "reconcile")
    /\ todo' = Put(todo, a, {b \in Attempts : record[b] # "absent"})
    /\ UNCHANGED <<files, out, probed, child, pid>>

\* reconcile reads one record after the other, and looks for the process of
\* one that says running.
ReadRecord(a, b) ==
    /\ pc[a] = "reconcile"
    /\ b \in todo[a]
    /\ todo' = Put(todo, a, todo[a] \ {b})
    /\ IF record[b] = "running"
       THEN At(a, "probe") /\ probed' = Put(probed, a, b)
       ELSE UNCHANGED <<pc, probed>>
    /\ UNCHANGED <<files, out, child, pid>>

\* Mutant: the owner is taken for dead without looking.
Probe_Blind(a) ==
    /\ pc[a] = "probe"
    /\ At(a, "reclaim")
    /\ UNCHANGED <<files, out, todo, probed, child, pid>>

\* kill(pid, 0): alive or reused, gone, or of another user (an error).
Probe(a) ==
    /\ pc[a] = "probe"
    /\ \/ /\ pid[probed[a]] \in {"alive", "reused"}
          /\ At(a, "reconcile")
          /\ probed' = Put(probed, a, None)
          /\ UNCHANGED <<out, todo>>
       \/ /\ pid[probed[a]] = "gone"
          /\ At(a, "reclaim")
          /\ UNCHANGED <<out, todo, probed>>
       \/ pid[probed[a]] = "denied" /\ Leave(a, "failed")
    /\ UNCHANGED <<files, child, pid>>

\* Mutant: the record is closed before the directory is removed.
Reclaim_After(a) ==
    /\ pc[a] = "reclaim"
    /\ record' = Put(record, probed[a], "interrupted")
    /\ LET b == probed[a]
       IN stage' = IF noted[b] /\ stage[b] # "made" /\ record[b] = "interrupted"
                   THEN Put(stage, b, "none") ELSE stage
    /\ At(a, IF record[probed[a]] = "interrupted" THEN "close" ELSE "reclaim")
    /\ UNCHANGED <<noted, dest, out, todo, probed, child, pid>>

\* Only a staging directory that the record names and that carries the
\* owner's marker is removed.
Reclaim(a) ==
    /\ pc[a] = "reclaim"
    /\ LET b == probed[a]
       IN stage' = IF noted[b] /\ stage[b] # "made" THEN Put(stage, b, "none")
                   ELSE stage
    /\ At(a, "close")
    /\ UNCHANGED <<record, noted, dest, out, todo, probed, child, pid>>

CloseRecord(a) ==
    /\ pc[a] = "close"
    /\ record' = Put(record, probed[a], "interrupted")
    /\ probed' = Put(probed, a, None)
    /\ At(a, "reconcile")
    /\ UNCHANGED <<noted, stage, dest, out, todo, child, pid>>

\* An existing destination is verified against the selection, never changed.
Reuse(a) ==
    /\ pc[a] = "reconcile"
    /\ todo[a] = {}
    /\ dest # None
    /\ \/ dest # Foreign /\ Leave(a, "reused")
       \/ Leave(a, "failed")
    /\ UNCHANGED <<files, child, pid>>

MakeStage(a) ==
    /\ pc[a] = "reconcile"
    /\ todo[a] = {}
    /\ dest = None
    /\ stage' = Put(stage, a, "made")
    /\ At(a, "mark")
    /\ UNCHANGED <<record, noted, dest, out, todo, probed, child, pid>>

Mark(a) ==
    /\ pc[a] = "mark"
    /\ stage' = Put(stage, a, "marked")
    /\ At(a, "note")
    /\ UNCHANGED <<record, noted, dest, out, todo, probed, child, pid>>

NoteStage(a) ==
    /\ pc[a] = "note"
    /\ noted' = Put(noted, a, TRUE)
    /\ At(a, "launch")
    /\ UNCHANGED <<record, stage, dest, out, todo, probed, child, pid>>

\* unbundle or the Docker construction starts, with the flock.
Launch(a) ==
    /\ pc[a] = "launch"
    /\ child' = Put(child, a, "alive")
    /\ At(a, "wait")
    /\ UNCHANGED <<files, out, todo, probed, pid>>

\* The command ends, with the attempt waiting for it or without; an exit code
\* other than 0 fails the attempt.
ChildEnds(a) ==
    /\ child[a] = "alive"
    /\ child' = Put(child, a, "none")
    /\ IF pc[a] = "wait"
       THEN \/ Leave(a, "failed")
            \/ At(a, "check") /\ UNCHANGED <<out, todo, probed>>
       ELSE UNCHANGED <<pc, out, todo, probed>>
    /\ UNCHANGED <<files, pid>>

\* Tree, tooling and ecosystem are verified (or StepFails).
Check(a) ==
    /\ pc[a] = "check"
    /\ At(a, "seal")
    /\ UNCHANGED <<files, out, todo, probed, child, pid>>

\* The selection receipt completes the tree.
Seal(a) ==
    /\ pc[a] = "seal"
    /\ stage' = Put(stage, a, "sealed")
    /\ At(a, "publish")
    /\ UNCHANGED <<record, noted, dest, out, todo, probed, child, pid>>

\* Mutant: a plain rename takes the place of the destination.
Publish_Replace(a) ==
    /\ pc[a] = "publish"
    /\ dest' = a
    /\ stage' = Put(stage, a, "marked")
    /\ Leave(a, "prepared")
    /\ UNCHANGED <<record, noted, child, pid>>

\* Mutant: the error code of renameat2 is ignored.
Publish_Ignore(a) ==
    /\ pc[a] = "publish"
    /\ dest' = IF dest = None THEN a ELSE dest
    /\ stage' = Put(stage, a, "marked")
    /\ Leave(a, "prepared")
    /\ UNCHANGED <<record, noted, child, pid>>

\* renameat2 with RENAME_NOREPLACE; the fsync of the parent may fail after it.
Publish(a) ==
    /\ pc[a] = "publish"
    /\ IF dest = None
       THEN /\ dest' = a
            /\ stage' = Put(stage, a, "marked")
            /\ Leave(a, "prepared") \/ Leave(a, "failed") \/ Leave(a, "interrupted")
       ELSE Leave(a, "failed") /\ UNCHANGED <<dest, stage>>
    /\ UNCHANGED <<record, noted, child, pid>>

----------------------------------------------------------------------------
(* The environment *)

\* The process is killed.  Nothing is printed, the command goes on.
Crash(a) ==
    /\ pc[a] \notin {"new", "done"}
    /\ At(a, "done")
    /\ out' = Put(out, a, "running")
    /\ todo' = Put(todo, a, {})
    /\ probed' = Put(probed, a, None)
    /\ pid' = Put(pid, a, "gone")
    /\ UNCHANGED <<files, child>>

\* The PID of a dead attempt goes to another process, of this user or another.
ReusePid(a) ==
    /\ pc[a] = "done"
    /\ pid[a] = "gone"
    /\ \E other \in {"reused", "denied"} : pid' = Put(pid, a, other)
    /\ UNCHANGED <<files, pc, out, todo, probed, child>>

FreePid(a) ==
    /\ pid[a] \in {"reused", "denied"}
    /\ pid' = Put(pid, a, "gone")
    /\ UNCHANGED <<files, pc, out, todo, probed, child>>

ForeignWrite ==
    /\ dest = None
    /\ dest' = Foreign
    /\ UNCHANGED <<record, noted, stage, pc, out, todo, probed, child, pid>>

Next ==
    \/ \E a \in Attempts :
         \/ StepFails(a) \/ Interrupt(a) \/ InterruptInWindow(a)
         \/ Cleanup(a) \/ Report(a)
         \/ Begin(a) \/ Select(a) \/ Lock(a)
         \/ \E b \in Attempts : ReadRecord(a, b)
         \/ Probe(a) \/ Reclaim(a) \/ CloseRecord(a)
         \/ Reuse(a) \/ MakeStage(a) \/ Mark(a) \/ NoteStage(a)
         \/ Launch(a) \/ ChildEnds(a) \/ Check(a) \/ Seal(a) \/ Publish(a)
         \/ Crash(a) \/ ReusePid(a) \/ FreePid(a)
    \/ ForeignWrite

Spec == Init /\ [][Next]_vars

----------------------------------------------------------------------------
(* Properties *)

\* Every variable has its type.
TypeOK ==
    /\ record \in [Attempts -> Status \cup {"absent"}]
    /\ noted \in [Attempts -> BOOLEAN]
    /\ stage \in [Attempts -> {"none", "made", "marked", "sealed"}]
    /\ dest \in Attempts \cup {None, Foreign}
    /\ pc \in [Attempts -> Outside \cup Reconciling \cup Building
                             \cup {"new", "cleanup", "report", "done"}]
    /\ out \in [Attempts -> Status]
    /\ todo \in [Attempts -> SUBSET Attempts]
    /\ probed \in [Attempts -> Attempts \cup {None}]
    /\ child \in [Attempts -> {"none", "alive"}]
    /\ pid \in [Attempts -> {"alive", "gone", "reused", "denied"}]

\* A construction that outlives its attempt keeps everyone else out: no other
\* attempt reconciles or builds while it runs (pass_fds in command).
OrphanExcludes ==
    \A a, b \in Attempts :
        a # b /\ child[a] = "alive" => pc[b] \notin Reconciling \cup Building

\* Reconciliation closes no record of an attempt that is still at work,
\* queued, building or cleaning up, whatever PIDs were reused (reconcile).
LiveRecordOpen ==
    \A a \in Attempts : pc[a] \notin {"new", "done"} => record[a] = "running"

\* A published destination is never replaced or removed, also not by an
\* attempt that raced with a writer outside the locking (publish).
DestinationKept == [][dest # None => dest' = dest]_vars

\* An attempt that reports prepared is the one that made the destination, and
\* one that reports reused found one made by an attempt (main).
ReportedIsPublished ==
    \A a \in Attempts :
        /\ record[a] = "prepared" => dest = a
        /\ record[a] = "reused" => dest \in Attempts \ {a}

\* What a killed attempt had recorded of its staging directory is gone once its
\* record says interrupted: reconcile removes before it closes, so that a kill
\* of the reconciling attempt in between loses nothing (reconcile).
ReclaimedIsClean ==
    \A a \in Attempts :
        out[a] = "running" /\ noted[a] /\ record[a] = "interrupted" => stage[a] = "none"
=============================================================================
