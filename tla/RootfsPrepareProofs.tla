------------------------ MODULE RootfsPrepareProofs ------------------------
(***************************************************************************)
(* Proofs about RootfsPrepare for every set of attempts: the flock         *)
(* excludes, reconciliation leaves live attempts alone and reclaims before *)
(* it closes, reports are true and the destination is never replaced.      *)
(***************************************************************************)
EXTENDS RootfsPrepare, TLAPS

\* The flock: one attempt at a time is between Lock and Leave.
Inside(a) == pc[a] \in Reconciling \cup Building
FlockExcludes == \A a, b \in Attempts : a # b /\ Inside(a) => ~Inside(b)

\* A live attempt has its PID, so that a PID found gone is that of a dead one.
Live(a) == pc[a] \notin {"new", "done"}
LivePid == \A a \in Attempts : Live(a) => pid[a] = "alive"

\* What the reconciling attempt knows of the attempt it probed.
ProbedDead ==
    \A a \in Attempts :
        /\ probed[a] # None => pc[probed[a]] # "new"
        /\ pc[a] \in {"probe", "reclaim", "close"} => probed[a] \in Attempts
        /\ pc[a] \in {"reclaim", "close"} => pc[probed[a]] = "done"
        /\ pc[a] = "close" /\ noted[probed[a]] => stage[probed[a]] = "none"

NewIsAbsent == \A a \in Attempts : pc[a] = "new" => record[a] = "absent"

\* A record names a staging directory only after it was marked.
NotedMarked ==
    \A a \in Attempts :
        /\ pc[a] = "note" \/ noted[a] => stage[a] # "made"
        /\ noted[a] => ~(pc[a] \in {"new", "mark", "note"} \cup Outside \cup Reconciling)

\* What is in memory is already true, and an attempt that still has to publish
\* has not.
OutIsTrue ==
    \A a \in Attempts :
        /\ out[a] = "prepared" => dest = a
        /\ out[a] = "reused" => dest \in Attempts \ {a}
        /\ dest = a => pc[a] \in {"cleanup", "report", "done"}

PrepareInv ==
    /\ TypeOK /\ FlockExcludes /\ OrphanExcludes
    /\ LivePid /\ NewIsAbsent /\ LiveRecordOpen /\ ProbedDead
    /\ NotedMarked /\ ReclaimedIsClean
    /\ OutIsTrue /\ ReportedIsPublished

(* Initially nothing was recorded, assigned or probed. *)
LEMMA PrepareInit == Init => PrepareInv
BY PrepareAssumption
DEF Init, PrepareInv, TypeOK, FlockExcludes, OrphanExcludes, LivePid, NewIsAbsent,
    LiveRecordOpen, ProbedDead, NotedMarked, ReclaimedIsClean, OutIsTrue,
    ReportedIsPublished, Inside, Live, Outside, Reconciling, Building, Status

(* Every step keeps the inductive invariant.  The steps that it is for say
   which part of it they need. *)
LEMMA PrepareStep == PrepareInv /\ [Next]_vars => PrepareInv'
<1> SUFFICES ASSUME PrepareInv, [Next]_vars PROVE PrepareInv'
  OBVIOUS
<1> USE PrepareAssumption
    DEF PrepareInv, TypeOK, FlockExcludes, OrphanExcludes, LivePid, NewIsAbsent,
        LiveRecordOpen, ProbedDead, NotedMarked, ReclaimedIsClean, OutIsTrue,
        ReportedIsPublished, Inside, Live, Outside, Reconciling, Building,
        Status, files, At, Put
<1>1. ASSUME NEW a \in Attempts, StepFails(a) PROVE PrepareInv'
  BY <1>1 DEF StepFails, Leave, StopChild
<1>2. ASSUME NEW a \in Attempts, Interrupt(a) PROVE PrepareInv'
  BY <1>2 DEF Interrupt, Leave, StopChild
<1>3. ASSUME NEW a \in Attempts, InterruptInWindow(a) PROVE PrepareInv'
  BY <1>3 DEF InterruptInWindow
<1>4. ASSUME NEW a \in Attempts, Cleanup(a) PROVE PrepareInv'
  BY <1>4 DEF Cleanup
<1>5. ASSUME NEW a \in Attempts, Report(a) PROVE PrepareInv'
  \* What is written is what is in memory, and that is true.
  <2>1. /\ out[a] = "prepared" => dest = a
        /\ out[a] = "reused" => dest \in Attempts \ {a}
    OBVIOUS
  <2> QED BY <1>5, <2>1 DEF Report
<1>6. ASSUME NEW a \in Attempts, Begin(a) PROVE PrepareInv'
  BY <1>6 DEF Begin
<1>7. ASSUME NEW a \in Attempts, Select(a) PROVE PrepareInv'
  BY <1>7 DEF Select
<1>8. ASSUME NEW a \in Attempts, Lock(a) PROVE PrepareInv'
  \* Nobody is inside, and no construction that outlived its attempt either.
  <2>1. \A b \in Attempts : ~Inside(b) /\ child[b] = "none"
    BY <1>8 DEF Lock, LockFree
  <2> QED BY <1>8, <2>1 DEF Lock
<1>9. ASSUME NEW a \in Attempts, NEW b \in Attempts, ReadRecord(a, b) PROVE PrepareInv'
  BY <1>9 DEF ReadRecord
<1>10. ASSUME NEW a \in Attempts, Probe(a) PROVE PrepareInv'
  \* A PID that is gone is not that of a live attempt.
  <2>1. probed[a] \in Attempts
    BY <1>10 DEF Probe
  <2>2. pid[probed[a]] = "gone" => pc[probed[a]] = "done"
    BY <2>1, <1>10 DEF Probe
  <2> QED BY <1>10, <2>1, <2>2 DEF Probe, Leave
<1>11. ASSUME NEW a \in Attempts, Reclaim(a) PROVE PrepareInv'
  \* A directory that the record names carries its marker, so it is removed.
  <2>1. probed[a] \in Attempts /\ pc[probed[a]] = "done"
    BY <1>11 DEF Reclaim
  <2>2. noted[probed[a]] => stage'[probed[a]] = "none"
    BY <1>11, <2>1 DEF Reclaim
  <2> QED BY <1>11, <2>1, <2>2 DEF Reclaim
<1>12. ASSUME NEW a \in Attempts, CloseRecord(a) PROVE PrepareInv'
  \* The record that is closed is that of a dead attempt, already clean.
  <2>1. /\ probed[a] \in Attempts /\ pc[probed[a]] = "done"
        /\ noted[probed[a]] => stage[probed[a]] = "none"
    BY <1>12 DEF CloseRecord
  <2> QED BY <1>12, <2>1 DEF CloseRecord
<1>13. ASSUME NEW a \in Attempts, Reuse(a) PROVE PrepareInv'
  \* An attempt that has still to publish did not make the destination.
  <2>1. dest # a
    BY <1>13 DEF Reuse
  <2>2. CASE dest # Foreign /\ Leave(a, "reused")
    <3>1. dest \in Attempts \ {a}
      BY <1>13, <2>1, <2>2 DEF Reuse
    <3> QED BY <1>13, <2>2, <3>1 DEF Reuse, Leave
  <2>3. CASE Leave(a, "failed")
    BY <1>13, <2>3 DEF Reuse, Leave
  <2> QED BY <1>13, <2>2, <2>3 DEF Reuse
<1>14. ASSUME NEW a \in Attempts, MakeStage(a) PROVE PrepareInv'
  BY <1>14 DEF MakeStage
<1>15. ASSUME NEW a \in Attempts, Mark(a) PROVE PrepareInv'
  BY <1>15 DEF Mark
<1>16. ASSUME NEW a \in Attempts, NoteStage(a) PROVE PrepareInv'
  <2>1. stage[a] # "made"
    BY <1>16 DEF NoteStage
  <2> QED BY <1>16, <2>1 DEF NoteStage
<1>17. ASSUME NEW a \in Attempts, Launch(a) PROVE PrepareInv'
  BY <1>17 DEF Launch
<1>18. ASSUME NEW a \in Attempts, ChildEnds(a) PROVE PrepareInv'
  BY <1>18 DEF ChildEnds, Leave
<1>19. ASSUME NEW a \in Attempts, Check(a) PROVE PrepareInv'
  BY <1>19 DEF Check
<1>20. ASSUME NEW a \in Attempts, Seal(a) PROVE PrepareInv'
  BY <1>20 DEF Seal
<1>21. ASSUME NEW a \in Attempts, Publish(a) PROVE PrepareInv'
  \* The rename finds no destination, so no attempt has reported one.
  <2>1. CASE dest = None
    <3>1. \A b \in Attempts : out[b] \notin {"prepared", "reused"}
      BY <2>1
    <3>2. \A b \in Attempts : record[b] \notin {"prepared", "reused"}
      BY <2>1
    <3>3. ASSUME NEW s \in {"prepared", "failed", "interrupted"}, Leave(a, s),
                 dest' = a, stage' = Put(stage, a, "marked")
          PROVE  PrepareInv'
      BY <1>21, <2>1, <3>1, <3>2, <3>3 DEF Publish, Leave
    <3> QED BY <1>21, <2>1, <3>3 DEF Publish
  <2>2. CASE dest # None
    BY <1>21, <2>2 DEF Publish, Leave
  <2> QED BY <2>1, <2>2
<1>22. ASSUME NEW a \in Attempts, Crash(a) PROVE PrepareInv'
  \* The record still says running, so nothing is claimed of the stage.
  <2>1. record[a] = "running"
    BY <1>22 DEF Crash
  <2> QED BY <1>22, <2>1 DEF Crash
<1>23. ASSUME NEW a \in Attempts, ReusePid(a) PROVE PrepareInv'
  BY <1>23 DEF ReusePid
<1>24. ASSUME NEW a \in Attempts, FreePid(a) PROVE PrepareInv'
  BY <1>24 DEF FreePid
<1>25. ASSUME ForeignWrite PROVE PrepareInv'
  BY <1>25 DEF ForeignWrite
<1>26. CASE UNCHANGED vars
  BY <1>26 DEF vars
<1> QED
  BY <1>1, <1>2, <1>3, <1>4, <1>5, <1>6, <1>7, <1>8, <1>9, <1>10, <1>11, <1>12,
     <1>13, <1>14, <1>15, <1>16, <1>17, <1>18, <1>19, <1>20, <1>21, <1>22, <1>23,
     <1>24, <1>25, <1>26
  DEF Next

(* The inductive invariant holds in every reachable state. *)
LEMMA PrepareInvariant == Spec => []PrepareInv
BY PrepareInit, PrepareStep, PTL DEF Spec

(* Every variable keeps its type, for every set of attempts. *)
THEOREM PrepareTypes == Spec => []TypeOK
<1>1. PrepareInv => TypeOK
  BY DEF PrepareInv
<1> QED BY <1>1, PrepareInvariant, PTL

(* However many attempts run and die, a construction that outlived its attempt
   keeps all others out: the command inherited the flock (pass_fds in command). *)
THEOREM OrphansExclude == Spec => []OrphanExcludes
<1>1. PrepareInv => OrphanExcludes
  BY DEF PrepareInv
<1> QED BY <1>1, PrepareInvariant, PTL

(* reconcile closes no record of an attempt that is at work, whatever becomes of
   the PIDs of dead ones. *)
THEOREM LiveRecordsStay == Spec => []LiveRecordOpen
<1>1. PrepareInv => LiveRecordOpen
  BY DEF PrepareInv
<1> QED BY <1>1, PrepareInvariant, PTL

(* The record of prepared and of reused is true: the destination is there, made
   by the attempt that says prepared and by another one for reused (main). *)
THEOREM ReportsAreTrue == Spec => []ReportedIsPublished
<1>1. PrepareInv => ReportedIsPublished
  BY DEF PrepareInv
<1> QED BY <1>1, PrepareInvariant, PTL

(* The recorded staging directory of a killed attempt is gone once its record is
   closed, however often the reconciling attempts are killed too (reconcile). *)
THEOREM ReclaimPrecedesClose == Spec => []ReclaimedIsClean
<1>1. PrepareInv => ReclaimedIsClean
  BY DEF PrepareInv
<1> QED BY <1>1, PrepareInvariant, PTL

(* No step of any attempt replaces or removes a destination (publish). *)
THEOREM DestinationStays == Spec => DestinationKept
<1>1. [Next]_vars => [dest # None => dest' = dest]_vars
  <2> SUFFICES ASSUME Next, dest # None PROVE dest' = dest
    BY DEF vars
  <2> USE DEF files
  <2>1. ASSUME NEW a \in Attempts, Publish(a) PROVE dest' = dest
    BY <2>1 DEF Publish
  <2>2. CASE ForeignWrite
    BY <2>2 DEF ForeignWrite
  <2>3. ASSUME NEW a \in Attempts,
               \/ StepFails(a) \/ Interrupt(a) \/ InterruptInWindow(a)
               \/ Cleanup(a) \/ Report(a) \/ Begin(a) \/ Select(a) \/ Lock(a)
        PROVE  dest' = dest
    BY <2>3 DEF StepFails, Interrupt, InterruptInWindow, Cleanup, Report, Begin,
                Select, Lock
  <2>4. ASSUME NEW a \in Attempts,
               \/ \E b \in Attempts : ReadRecord(a, b)
               \/ Probe(a) \/ Reclaim(a) \/ CloseRecord(a)
               \/ Reuse(a) \/ MakeStage(a) \/ Mark(a) \/ NoteStage(a)
        PROVE  dest' = dest
    BY <2>4 DEF ReadRecord, Probe, Reclaim, CloseRecord, Reuse, MakeStage, Mark,
                NoteStage
  <2>5. ASSUME NEW a \in Attempts,
               \/ Launch(a) \/ ChildEnds(a) \/ Check(a) \/ Seal(a)
               \/ Crash(a) \/ ReusePid(a) \/ FreePid(a)
        PROVE  dest' = dest
    BY <2>5 DEF Launch, ChildEnds, Check, Seal, Crash, ReusePid, FreePid
  <2> QED BY <2>1, <2>2, <2>3, <2>4, <2>5 DEF Next
<1> QED BY <1>1, PTL DEF Spec, DestinationKept
============================================================================
