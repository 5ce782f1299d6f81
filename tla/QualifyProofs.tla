--------------------------- MODULE QualifyProofs ---------------------------
(***************************************************************************)
(* Proofs about Qualify for all lines, profiles, rounds and timeouts: the  *)
(* stages exclude other attempts, a failed stage leaves nothing running,   *)
(* and an attempt that passed left evidence that verify_reuse accepts.     *)
(***************************************************************************)
EXTENDS Qualify, SequenceTheorems, TLAPS

(* The plan is a sequence of stages and not empty (make_plan). *)
LEMMA PlanFacts ==
    /\ Len(Plan) \in Nat \ {0} /\ DOMAIN Plan = 1 .. Len(Plan)
    /\ \A i \in DOMAIN Plan : Plan[i].group \in Groups
<1> DEFINE P == Append(Profiles, "coresidence")
           D == IF Single THEN <<>> ELSE DiagnosticStages
           All == {D[i] : i \in DOMAIN D}
                    \cup {RoundStages[i] : i \in DOMAIN RoundStages}
<1>1. Len(Lines) \in Nat \ {0} /\ Len(P) \in Nat \ {0}
  BY QualifyAssumption
<1>2. Rounds * (Len(Lines) * Len(P)) \in Nat \ {0}
  <2>1. \A a, b \in Nat \ {0} : a * b \in Nat \ {0}
    OBVIOUS
  <2>2. Len(Lines) * Len(P) \in Nat \ {0}
    BY <1>1, <2>1
  <2> QED BY <2>1, <2>2, QualifyAssumption
<1>3. RoundStages \in Seq(All) /\ Len(RoundStages) = Rounds * (Len(Lines) * Len(P))
  <2>1. /\ DOMAIN RoundStages = 1 .. Rounds * (Len(Lines) * Len(P))
        /\ RoundStages = [n \in DOMAIN RoundStages |-> RoundStages[n]]
    BY Zenon DEF RoundStages
  <2>2. \A n \in DOMAIN RoundStages : RoundStages[n] \in All
    OBVIOUS
  <2> HIDE DEF P, All
  <2> QED BY <1>2, <2>1, <2>2
<1>4. D \in Seq(All) /\ Len(D) \in Nat
  <2> DEFINE Cold == [n \in 1 .. Diagnostics |-> Stage("cu130", "jax", <<"cold", n>>, FALSE)]
             Reuse == [n \in 1 .. Diagnostics |-> Stage("cu130", "jax", <<"cold", 1>>, TRUE)]
             Prof == <<Stage("cu130", "jax", <<"profile", 0>>, FALSE),
                       Stage("cu130", "jax", <<"profile", 0>>, TRUE)>>
             S == {Cold[n] : n \in 1 .. Diagnostics} \cup {Reuse[n] : n \in 1 .. Diagnostics}
                    \cup {Prof[1], Prof[2]}
  <2>a. Cold \in Seq(S) /\ Reuse \in Seq(S) /\ Prof \in Seq(S)
    <3>1. \A n \in 1 .. Diagnostics : Cold[n] \in S /\ Reuse[n] \in S
      OBVIOUS
    <3>2. Prof[1] \in S /\ Prof[2] \in S
      OBVIOUS
    <3>3. DOMAIN Cold = 1 .. Diagnostics /\ DOMAIN Reuse = 1 .. Diagnostics
      OBVIOUS
    <3>4. Prof = <<Prof[1], Prof[2]>>
      OBVIOUS
    <3>5. Cold = [n \in 1 .. Diagnostics |-> Cold[n]]
      BY Zenon
    <3>6. Reuse = [n \in 1 .. Diagnostics |-> Reuse[n]]
      BY Zenon
    <3> HIDE DEF Cold, Reuse, Prof, S
    <3>7. Diagnostics \in Nat
      BY QualifyAssumption
    <3>8. Cold \in Seq(S)
      BY <3>1, <3>5, <3>7
    <3>9. Reuse \in Seq(S)
      BY <3>1, <3>6, <3>7
    <3>10. Prof \in Seq(S)
      <4>1. \A T : \A x, y \in T : <<x, y>> \in Seq(T)
        OBVIOUS
      <4>2. <<Prof[1], Prof[2]>> \in Seq(S)
        BY <3>2, <4>1
      <4> QED BY <3>4, <4>2
    <3> QED BY <3>8, <3>9, <3>10
  <2>b. DiagnosticStages = (Cold \o Reuse) \o Prof
    BY DEF DiagnosticStages
  <2>1. DiagnosticStages \in Seq({DiagnosticStages[i] : i \in DOMAIN DiagnosticStages})
    <3> HIDE DEF Cold, Reuse, Prof, S
    <3>1. DiagnosticStages \in Seq(S)
      BY <2>a, <2>b
    <3> QED BY <3>1
  <2> QED BY <2>1, QualifyAssumption
<1>5. Plan = D \o RoundStages
  BY DEF Plan
<1>6. Plan \in Seq(All) /\ Len(Plan) \in Nat \ {0}
  BY <1>2, <1>3, <1>4, <1>5
<1> QED BY <1>6 DEF Groups

(* j is the last stage before i that has the cache group g. *)
LatestOf(j, g, i) ==
    /\ j \in 1 .. i - 1 /\ Plan[j].group = g
    /\ \A k \in 1 .. i - 1 : Plan[k].group = g => k <= j

(* The stage that Previous names is that one, where there is one. *)
LEMMA PreviousIsLatest ==
    ASSUME NEW i \in DOMAIN Plan, NEW j, LatestOf(j, Plan[i].group, i)
    PROVE  Previous(i) = j
<1> DEFINE P == {k \in 1 .. i - 1 : Plan[k].group = Plan[i].group}
<1>1. i \in Nat \ {0}
  BY PlanFacts
<1>2. j \in P /\ \A k \in P : k <= j
  BY <1>1 DEF LatestOf
<1>3. \A k \in P : (\A l \in P : l <= k) => k = j
  <2>1. \A k \in P : k \in Nat
    BY <1>1
  <2> HIDE DEF P
  <2>2. SUFFICES ASSUME NEW k \in P, \A l \in P : l <= k PROVE k = j
    OBVIOUS
  <2>3. k <= j /\ j <= k /\ k \in Nat /\ j \in Nat
    BY <1>2, <2>1, <2>2
  <2> QED BY <2>3
<1>4. Previous(i) = IF P = {} THEN 0 ELSE CHOOSE k \in P : \A l \in P : l <= k
  BY DEF Previous
<1> HIDE DEF P
<1>5. Previous(i) = CHOOSE k \in P : \A l \in P : l <= k
  BY <1>2, <1>4
<1> QED BY <1>2, <1>3, <1>5, Zenon

----------------------------------------------------------------------------
(* The inductive invariant *)

(* TypeOK in four parts. *)
MemoryTypes ==
    /\ pc \in Steps /\ at \in DOMAIN Plan
    /\ status \in Statuses /\ exc \in BOOLEAN
    /\ rec \in {"running", "passed", "failed"}
    /\ before \in Caches /\ seen \in [Groups -> Caches \cup {"none"}]
RecordTypes ==
    /\ done \in Seq({"passed", "failed"}) /\ evidence \in Seq(Evidence)
    /\ payload \in {"none", "passed", "failed"}
    /\ summary.status \in Statuses \cup {"none"}
    /\ summary.stages \in Seq({"passed", "failed"})
    /\ state \in Statuses \cup {"none"}
GroupTypes ==
    /\ leader \in {"none", "running", "zero", "nonzero"}
    /\ kid \in {"none", "idle", "on", "ghost"} /\ known \in BOOLEAN
    /\ orphan \in {"none", "idle", "on"} /\ beside \in BOOLEAN
HostTypes ==
    /\ cache \in [Groups -> Caches] /\ source \in {"clean", "changed"}
    /\ foreign \in {"none", "on"} /\ elapsed \in 0 .. Timeout
    /\ lease \in Holders /\ flock \in Holders /\ lapsed \in BOOLEAN

(* The parts make up TypeOK. *)
LEMMA TypeParts ==
    TypeOK <=> MemoryTypes /\ RecordTypes /\ GroupTypes /\ HostTypes
  BY DEF TypeOK, MemoryTypes, RecordTypes, GroupTypes, HostTypes

Early == {"new", "acquire", "flock", "payload"}
Loop == Early \cup Staging

(* Stage i passed, on record and in the summary, and a reuse stage started
   from what the last earlier stage of its group left. *)
GoodStage(i) ==
    /\ evidence[i].status = "passed" /\ done[i] = "passed"
    /\ Plan[i].reuse =>
          /\ evidence[i].before # "empty"
          /\ \E j \in 1 .. i - 1 : /\ LatestOf(j, Plan[i].group, i)
                                  /\ evidence[i].before = evidence[j].after

(* n stages are recorded, all of them good. *)
Recorded(n) ==
    /\ Len(done) = n /\ Len(evidence) = n
    /\ \A i \in 1 .. n : GoodStage(i)

(* In the loop, the stages before the present one are recorded, and
   group_inventories has what the last of each group left. *)
LoopInv ==
    pc \in Loop =>
       /\ Recorded(at - 1)
       /\ \A g \in Groups :
             seen[g] # "none" => \E j \in 1 .. at - 1 : /\ LatestOf(j, g, at)
                                                      /\ seen[g] = evidence[j].after
BeforeInv ==
    /\ pc \in Early => at = 1
    /\ pc \in Staging \ {"stage"} /\ Now.reuse =>
          before # "empty" /\ before = seen[Now.group]

(* A status of "passed" is in memory only after the last stage. *)
CompleteInv ==
    /\ pc \in Staging => payload = "passed"
    /\ status = "passed" =>
          /\ pc \in {"release", "unlock", "end", "state"}
          /\ payload = "passed" /\ Recorded(Len(Plan))

(* The final files are written last, from the final status. *)
FinalInv ==
    /\ pc \notin {"state", "gone"} => summary.status = "none"
    /\ pc = "state" => summary.status = FinalStatus
    /\ pc # "gone" => state \in {"none", "running"}

(* Only the stage steps have a group, and all of them hold the flock. *)
GroupInv ==
    /\ pc \notin {"monitor", "poll", "stop"} =>
          leader = "none" /\ kid = "none" /\ beside = FALSE
    /\ pc \in Staging \cup {"payload"} => flock = "us"
    /\ pc = "retain" => rec \in {"passed", "failed"}

(* The history of company on the GPU is current, and polling is only reached
   when the monitor has just seen none. *)
BesideInv ==
    /\ beside => Others
    /\ pc = "poll" => ~beside

QualifyInv ==
    /\ MemoryTypes /\ RecordTypes /\ GroupTypes /\ HostTypes
    /\ GroupInv /\ BesideInv /\ FinalInv
    /\ BeforeInv /\ CompleteInv /\ LoopInv
    /\ PassedIsVerifiable /\ StateFollowsSummary
----------------------------------------------------------------------------
(* Preservation: lemmas *)

(* The cache of the present stage's group, and the result written of it. *)
LEMMA ResultTypes ==
    ASSUME MemoryTypes, HostTypes
    PROVE  /\ Now.group \in Groups /\ cache[Now.group] \in Caches
           /\ rec \in {"passed", "failed"} => Result \in Evidence
<1>1. Now.group \in Groups /\ cache[Now.group] \in Caches
  BY PlanFacts DEF MemoryTypes, HostTypes, Now
<1> QED BY <1>1 DEF MemoryTypes, Result, Evidence

(* What is left of the memory of a process that is gone. *)
LEMMA GoneTypes == Gone => MemoryTypes'
<1>1. 1 \in DOMAIN Plan
  BY PlanFacts
<1> QED BY <1>1 DEF Gone, MemoryTypes, Steps, Statuses, Caches

(* The except clause leaves one of the statuses. *)
LEMMA FinalStatusTypes == MemoryTypes => FinalStatus \in Statuses
  BY DEF MemoryTypes, FinalStatus, Statuses

(* Appending the present stage's result leaves the earlier ones good, and a
   reuse stage that passed is good because its cache was the one last seen. *)
LEMMA RetainRecords ==
    ASSUME QualifyInv, pc = "retain", rec = "passed",
           evidence' = Append(evidence, Result), done' = Append(done, rec),
           NEW CONSTANT n, n = at
    PROVE  Recorded(n)'
<1>1. n \in Nat \ {0} /\ n \in DOMAIN Plan
  BY PlanFacts DEF QualifyInv, MemoryTypes
<1>2. Recorded(n - 1)
  BY DEF QualifyInv, LoopInv, Loop, Staging
<1>3. Len(done) = n - 1 /\ Len(evidence) = n - 1 /\ \A i \in 1 .. n - 1 : GoodStage(i)
  BY <1>2 DEF Recorded
<1>4. evidence \in Seq(Evidence) /\ done \in Seq({"passed", "failed"})
  BY DEF QualifyInv, RecordTypes
<1>5. Result \in Evidence /\ Result.status = "passed" /\ Result.before = before
  BY ResultTypes DEF QualifyInv, Result
<1>6. /\ Len(evidence') = n /\ Len(done') = n
      /\ evidence'[n] = Result /\ done'[n] = "passed"
      /\ \A i \in 1 .. n - 1 : evidence'[i] = evidence[i] /\ done'[i] = done[i]
  BY <1>1, <1>3, <1>4, <1>5
<1>7. ASSUME NEW i \in 1 .. n - 1
      PROVE  GoodStage(i)'
  <2>1. GoodStage(i)
    BY <1>3
  <2>2. evidence'[i] = evidence[i] /\ done'[i] = done[i]
    BY <1>6
  <2>3. \A j \in 1 .. i - 1 : evidence'[j] = evidence[j]
    <3>1. \A j \in 1 .. i - 1 : j \in 1 .. n - 1
      BY <1>1
    <3> QED BY <1>6, <3>1
  <2> QED BY <2>1, <2>2, <2>3 DEF GoodStage
<1>8. GoodStage(n)'
  <2>1. ASSUME Plan[n].reuse
        PROVE  /\ before # "empty"
               /\ \E j \in 1 .. n - 1 : /\ LatestOf(j, Plan[n].group, n)
                                        /\ before = evidence'[j].after
    <3>1. before # "empty" /\ before = seen[Plan[n].group] /\ before \in Caches
      BY <2>1 DEF QualifyInv, BeforeInv, MemoryTypes, Now, Staging
    <3>2. Plan[n].group \in Groups /\ seen[Plan[n].group] # "none"
      BY <1>1, <3>1, PlanFacts DEF Caches
    <3>3. PICK j \in 1 .. n - 1 : /\ LatestOf(j, Plan[n].group, n)
                                  /\ seen[Plan[n].group] = evidence[j].after
      BY <3>2 DEF QualifyInv, LoopInv, Loop, Staging
    <3> QED BY <1>6, <3>1, <3>3
  <2> QED BY <1>5, <1>6, <2>1 DEF GoodStage
<1>9. \A i \in 1 .. n : GoodStage(i)'
  <2>1. \A i \in 1 .. n : i \in 1 .. n - 1 \/ i = n
    BY <1>1
  <2> QED BY <1>7, <1>8, <2>1
<1> QED BY <1>6, <1>9 DEF Recorded

(* What a loop step records of the group that it ran. *)
LEMMA RetainSeen ==
    ASSUME QualifyInv, pc = "retain", evidence' = Append(evidence, Result),
           seen' = [seen EXCEPT ![Now.group] = cache[Now.group]],
           NEW CONSTANT g \in Groups, seen'[g] # "none"
    PROVE  \E j \in 1 .. at : LatestOf(j, g, at + 1) /\ seen'[g] = evidence'[j].after
<1>1. at \in Nat \ {0} /\ Now.group \in Groups
  BY PlanFacts, ResultTypes DEF QualifyInv, MemoryTypes
<1>2. /\ Len(evidence) = at - 1 /\ evidence \in Seq(Evidence)
      /\ Result \in Evidence /\ Result.after = cache[Now.group]
  BY ResultTypes DEF QualifyInv, LoopInv, Loop, Staging, Recorded, RecordTypes,
     GroupInv, Result
<1>3. /\ evidence'[at] = Result
      /\ \A j \in 1 .. at - 1 : evidence'[j] = evidence[j]
  BY <1>1, <1>2
<1>4. seen \in [Groups -> Caches \cup {"none"}]
  BY DEF QualifyInv, MemoryTypes
<1>5. \A k \in 1 .. at + 1 - 1 : k \in 1 .. at - 1 \/ k = at
  BY <1>1
<1>6. CASE g = Now.group
  <2>1. seen'[g] = evidence'[at].after
    BY <1>1, <1>2, <1>3, <1>4, <1>6
  <2>2. LatestOf(at, g, at + 1)
    BY <1>1, <1>6 DEF LatestOf, Now
  <2>3. at \in 1 .. at
    BY <1>1
  <2> QED BY <2>1, <2>2, <2>3, Zenon
<1>7. CASE g # Now.group
  <2>1. seen'[g] = seen[g]
    BY <1>1, <1>4, <1>7
  <2>2. PICK j \in 1 .. at - 1 : LatestOf(j, g, at) /\ seen[g] = evidence[j].after
    BY <2>1 DEF QualifyInv, LoopInv, Loop, Staging
  <2>3. Plan[at].group # g
    BY <1>7 DEF Now
  <2>4. j \in 1 .. at /\ j \in 1 .. at + 1 - 1
    BY <1>1
  <2>5. LatestOf(j, g, at + 1)
    BY <1>1, <1>5, <2>2, <2>3, <2>4 DEF LatestOf
  <2> QED BY <1>3, <2>1, <2>2, <2>4, <2>5
<1> QED BY <1>6, <1>7

(* A complete record satisfies what verify_reuse asks of each stage. *)
LEMMA RecordedVerifies ==
    ASSUME Recorded(Len(Plan)), done \in Seq({"passed", "failed"}),
           evidence \in Seq(Evidence), NEW i \in DOMAIN Plan
    PROVE  /\ i \in DOMAIN evidence /\ evidence[i].status = "passed"
           /\ done[i] = "passed"
           /\ Plan[i].reuse => /\ evidence[i].before # "empty"
                               /\ Previous(i) # 0
                               /\ evidence[i].before = evidence[Previous(i)].after
<1>1. i \in 1 .. Len(Plan) /\ Len(Plan) \in Nat
  BY PlanFacts
<1>2. GoodStage(i) /\ Len(evidence) = Len(Plan)
  BY <1>1 DEF Recorded
<1>3. ASSUME Plan[i].reuse
      PROVE  Previous(i) # 0 /\ evidence[i].before = evidence[Previous(i)].after
  <2>1. PICK j \in 1 .. i - 1 : /\ LatestOf(j, Plan[i].group, i)
                                /\ evidence[i].before = evidence[j].after
    BY <1>2, <1>3 DEF GoodStage
  <2>2. Previous(i) = j
    BY <2>1, PreviousIsLatest
  <2>3. j # 0
    BY <1>1
  <2> QED BY <2>1, <2>2, <2>3
<1> QED BY <1>1, <1>2, <1>3 DEF GoodStage

(* The types of what a step leaves alone. *)
LEMMA Untouched ==
    ASSUME QualifyInv
    PROVE  /\ UNCHANGED <<done, disk>> => RecordTypes'
           /\ UNCHANGED procs => GroupTypes'
           /\ UNCHANGED <<guards, world, elapsed>> => HostTypes'
<1>1. UNCHANGED <<done, disk>> => RecordTypes'
  BY DEF QualifyInv, RecordTypes, disk
<1>2. UNCHANGED procs => GroupTypes'
  BY DEF QualifyInv, GroupTypes, procs
<1>3. UNCHANGED <<guards, world, elapsed>> => HostTypes'
  BY DEF QualifyInv, HostTypes, guards, world
<1> QED BY <1>1, <1>2, <1>3

(* Steps of the processes, of others on the host and of time leave the
   attempt's memory and files alone. *)
LEMMA AttemptUntouched ==
    ASSUME QualifyInv, UNCHANGED <<pc, verdict, work, disk>>
    PROVE  /\ MemoryTypes' /\ RecordTypes' /\ FinalInv' /\ StateFollowsSummary'
           /\ BeforeInv' /\ CompleteInv' /\ LoopInv' /\ PassedIsVerifiable'
<1>1. MemoryTypes' /\ RecordTypes' /\ FinalInv' /\ StateFollowsSummary'
  BY DEF QualifyInv, MemoryTypes, RecordTypes, FinalInv, StateFollowsSummary,
     FinalStatus, verdict, work, disk
<1>2. BeforeInv' /\ CompleteInv' /\ LoopInv' /\ PassedIsVerifiable'
  BY DEF QualifyInv, BeforeInv, CompleteInv, LoopInv, PassedIsVerifiable,
     Recorded, GoodStage, VerifyReuse, Now, verdict, work, disk
<1> QED BY <1>1, <1>2

----------------------------------------------------------------------------
(* Preservation: one step per action *)

(* Every step of the attempt, of its processes and of others keeps it. *)
LEMMA StepKeepsInv == QualifyInv /\ [Next]_vars => QualifyInv'
<1> SUFFICES ASSUME QualifyInv, [Next]_vars PROVE QualifyInv'
  OBVIOUS
<1>1. CASE Preflight
  <2>1. RecordTypes' /\ GroupTypes' /\ HostTypes'
    BY <1>1, Untouched DEF Preflight, work
  <2>2. MemoryTypes'
    BY <1>1, PlanFacts DEF QualifyInv, MemoryTypes, Preflight, Occupied, verdict,
       Unwind, work, disk, procs, guards, world, Others, Leased, Steps,
       Statuses, Caches
  <2>3. GroupInv' /\ BesideInv'
    BY <1>1 DEF QualifyInv, GroupInv, BesideInv, Preflight, Occupied, verdict,
       Unwind, work, disk, procs, guards, world, Others, Leased, Staging
  <2>4. FinalInv' /\ PassedIsVerifiable' /\ StateFollowsSummary'
    BY <1>1 DEF QualifyInv, FinalInv, PassedIsVerifiable, StateFollowsSummary,
       Preflight, Occupied, verdict, Unwind, work, disk, procs, guards, world,
       Others, Leased, FinalStatus, VerifyReuse
  <2>5. BeforeInv' /\ CompleteInv' /\ LoopInv'
    BY <1>1 DEF QualifyInv, BeforeInv, CompleteInv, LoopInv, Preflight, Occupied,
       verdict, Unwind, work, disk, procs, guards, world, Others, Leased,
       Early, Loop, Staging, Recorded, GoodStage, Now
  <2> QED BY <2>1, <2>2, <2>3, <2>4, <2>5 DEF QualifyInv
<1>2. CASE AcquireLease
  <2>1. RecordTypes' /\ GroupTypes'
    BY <1>2, Untouched DEF AcquireLease, work
  <2>2. MemoryTypes'
    BY <1>2, PlanFacts DEF QualifyInv, MemoryTypes, AcquireLease, Unwind, work,
       disk, procs, world, Leased, Steps, Statuses, Caches
  <2>3. HostTypes'
    BY <1>2, QualifyAssumption DEF QualifyInv, HostTypes, AcquireLease, Unwind,
       work, disk, procs, world, Leased, Holders, Caches
  <2>4. GroupInv' /\ BesideInv'
    BY <1>2 DEF QualifyInv, GroupInv, BesideInv, AcquireLease, Unwind, work, disk,
       procs, world, Leased, Staging, Others
  <2>5. FinalInv' /\ PassedIsVerifiable' /\ StateFollowsSummary'
    BY <1>2 DEF QualifyInv, FinalInv, PassedIsVerifiable, StateFollowsSummary,
       AcquireLease, Unwind, work, disk, procs, world, Leased, FinalStatus,
       VerifyReuse
  <2>6. BeforeInv' /\ CompleteInv' /\ LoopInv'
    BY <1>2 DEF QualifyInv, BeforeInv, CompleteInv, LoopInv, AcquireLease, Unwind,
       work, disk, procs, world, Leased, Early, Loop, Staging, Recorded,
       GoodStage, Now
  <2> QED BY <2>1, <2>2, <2>3, <2>4, <2>5, <2>6 DEF QualifyInv
<1>3. CASE TakeFlock
  <2>1. RecordTypes' /\ GroupTypes'
    BY <1>3, Untouched DEF TakeFlock, work
  <2>2. MemoryTypes'
    BY <1>3, PlanFacts DEF QualifyInv, MemoryTypes, TakeFlock, Unwind, work, disk,
       procs, world, Leased, Steps, Statuses, Caches
  <2>3. HostTypes'
    BY <1>3, QualifyAssumption DEF QualifyInv, HostTypes, TakeFlock, Unwind, work,
       disk, procs, world, Leased, Holders, Caches
  <2>4. GroupInv' /\ BesideInv'
    BY <1>3 DEF QualifyInv, GroupInv, BesideInv, TakeFlock, Unwind, work, disk,
       procs, world, Leased, Staging, Others
  <2>5. FinalInv' /\ PassedIsVerifiable' /\ StateFollowsSummary'
    BY <1>3 DEF QualifyInv, FinalInv, PassedIsVerifiable, StateFollowsSummary,
       TakeFlock, Unwind, work, disk, procs, world, Leased, FinalStatus,
       VerifyReuse
  <2>6. BeforeInv' /\ CompleteInv' /\ LoopInv'
    BY <1>3 DEF QualifyInv, BeforeInv, CompleteInv, LoopInv, TakeFlock, Unwind,
       work, disk, procs, world, Leased, Early, Loop, Staging, Recorded,
       GoodStage, Now
  <2> QED BY <2>1, <2>2, <2>3, <2>4, <2>5, <2>6 DEF QualifyInv
<1>4. CASE VerifyPayload
  <2>1. GroupTypes' /\ HostTypes'
    BY <1>4, Untouched DEF VerifyPayload
  <2>2. MemoryTypes'
    BY <1>4, PlanFacts DEF QualifyInv, MemoryTypes, VerifyPayload, work, procs,
       guards, world, Steps, Statuses, Caches
  <2>3. RecordTypes'
    BY <1>4 DEF QualifyInv, RecordTypes, VerifyPayload, work, procs, guards, world,
       Statuses
  <2>4. GroupInv' /\ BesideInv'
    BY <1>4 DEF QualifyInv, GroupInv, BesideInv, VerifyPayload, work, procs,
       guards, world, Staging, Others
  <2>5. FinalInv' /\ PassedIsVerifiable' /\ StateFollowsSummary'
    BY <1>4 DEF QualifyInv, FinalInv, PassedIsVerifiable, StateFollowsSummary,
       VerifyPayload, work, procs, guards, world, FinalStatus, VerifyReuse
  <2>6. BeforeInv' /\ CompleteInv' /\ LoopInv'
    BY <1>4 DEF QualifyInv, BeforeInv, CompleteInv, LoopInv, VerifyPayload, work,
       procs, guards, world, Early, Loop, Staging, Recorded, GoodStage, Now
  <2> QED BY <2>1, <2>2, <2>3, <2>4, <2>5, <2>6 DEF QualifyInv
<1>5. CASE CheckStage
  <2>1. RecordTypes' /\ GroupTypes' /\ HostTypes'
    BY <1>5, Untouched DEF CheckStage
  <2>2. MemoryTypes'
    BY <1>5, ResultTypes DEF CheckStage, Occupied, verdict, Unwind, disk, procs,
       guards, world, Others, Leased, QualifyInv, MemoryTypes, Steps, Statuses
  <2>3. GroupInv' /\ BesideInv'
    BY <1>5 DEF QualifyInv, GroupInv, BesideInv, CheckStage, Occupied, verdict,
       Unwind, disk, procs, guards, world, Others, Leased, Staging
  <2>4. FinalInv' /\ PassedIsVerifiable' /\ StateFollowsSummary'
    BY <1>5 DEF QualifyInv, FinalInv, PassedIsVerifiable, StateFollowsSummary,
       CheckStage, Occupied, verdict, Unwind, disk, procs, guards, world,
       Others, Leased, FinalStatus, VerifyReuse
  <2>5. CompleteInv' /\ LoopInv'
      BY <1>5 DEF QualifyInv, CompleteInv, LoopInv, CheckStage, Occupied, verdict,
         Unwind, disk, procs, guards, world, Others, Leased, Early, Loop,
         Staging, Recorded, GoodStage, Now
  <2>6. BeforeInv'
    <3>1. CASE pc' = "launch"
      BY <1>5, <3>1 DEF CheckStage, Unwind, Leased, ReuseEstablished, BeforeInv,
         Early, Now
    <3>2. CASE pc' = "release"
      BY <1>5, <3>2 DEF BeforeInv, Early, Staging
    <3> QED BY <1>5, <3>1, <3>2 DEF CheckStage, Unwind, Leased
  <2> QED BY <2>1, <2>2, <2>3, <2>4, <2>5, <2>6 DEF QualifyInv
<1>6. CASE Launch
  <2>1. MemoryTypes'
    BY <1>6, PlanFacts DEF QualifyInv, MemoryTypes, Launch, Others, verdict, guards,
       world, Steps, Statuses, Caches
  <2>2. RecordTypes'
    BY <1>6 DEF QualifyInv, RecordTypes, Launch, Others, verdict, guards, world,
       Statuses
  <2>3. GroupTypes'
    <3>1. beside' \in BOOLEAN
      <4>1. (beside' = Others) \/ (beside' = beside)
        BY <1>6, Zenon DEF Launch
      <4>2. beside \in BOOLEAN
        BY <1>6 DEF QualifyInv, GroupTypes
      <4>3. Others \in BOOLEAN
        <5>1. Others = TRUE \/ Others = FALSE
          BY DEF Others
        <5> QED BY <5>1
      <4> QED BY <4>1, <4>2, <4>3, Zenon
    <3> QED BY <1>6, <3>1 DEF QualifyInv, GroupTypes, Launch
  <2>4. HostTypes'
    BY <1>6, QualifyAssumption DEF QualifyInv, HostTypes, Launch, Others, verdict,
       guards, world, Holders, Caches
  <2>5. GroupInv'
      BY <1>6 DEF QualifyInv, GroupInv, Launch, verdict, guards, world, Staging
  <2>6. BesideInv'
    <3>1. CASE pc' = "monitor"
      <4>1. beside' <=> Others'
        BY <1>6, <3>1, Zenon DEF Launch, world, Others
      <4> QED BY <1>6, <3>1, <4>1 DEF BesideInv
    <3>2. CASE pc' = "retain"
      BY <1>6, <3>2 DEF QualifyInv, BesideInv, GroupInv, Launch
    <3> QED BY <1>6, <3>1, <3>2 DEF Launch
  <2>7. FinalInv' /\ PassedIsVerifiable' /\ StateFollowsSummary'
    BY <1>6 DEF QualifyInv, FinalInv, PassedIsVerifiable, StateFollowsSummary,
       Launch, Others, verdict, guards, world, FinalStatus, VerifyReuse
  <2>8. BeforeInv' /\ CompleteInv' /\ LoopInv'
    BY <1>6 DEF QualifyInv, BeforeInv, CompleteInv, LoopInv, Launch, Others,
       verdict, guards, world, Early, Loop, Staging, Recorded, GoodStage, Now
  <2> QED BY <2>1, <2>2, <2>3, <2>4, <2>5, <2>6, <2>7, <2>8 DEF QualifyInv
<1>7. CASE Monitor
  <2>1. RecordTypes' /\ HostTypes'
    BY <1>7, Untouched DEF Monitor, work
  <2>2. MemoryTypes'
    BY <1>7, PlanFacts DEF QualifyInv, MemoryTypes, Monitor, MonitorRejects,
       verdict, work, disk, guards, world, Others, Steps, Statuses, Caches
  <2>3. GroupTypes'
    BY <1>7 DEF QualifyInv, GroupTypes, Monitor, MonitorRejects, verdict, work,
       disk, guards, world, Others
  <2>4. GroupInv' /\ BesideInv'
    BY <1>7 DEF QualifyInv, GroupInv, BesideInv, Monitor, MonitorRejects, verdict,
       work, disk, guards, world, Others, Staging
  <2>5. FinalInv' /\ PassedIsVerifiable' /\ StateFollowsSummary'
    BY <1>7 DEF QualifyInv, FinalInv, PassedIsVerifiable, StateFollowsSummary,
       Monitor, MonitorRejects, verdict, work, disk, guards, world, Others,
       FinalStatus, VerifyReuse
  <2>6. BeforeInv' /\ CompleteInv' /\ LoopInv'
    BY <1>7 DEF QualifyInv, BeforeInv, CompleteInv, LoopInv, Monitor,
       MonitorRejects, verdict, work, disk, guards, world, Others, Early,
       Loop, Staging, Recorded, GoodStage, Now
  <2> QED BY <2>1, <2>2, <2>3, <2>4, <2>5, <2>6 DEF QualifyInv
<1>8. CASE Poll
  <2>1. RecordTypes' /\ HostTypes'
    BY <1>8, Untouched DEF Poll
  <2>2. MemoryTypes'
    BY <1>8, PlanFacts DEF QualifyInv, MemoryTypes, Poll, procs, NoGroup, verdict,
       disk, guards, world, Steps, Statuses, Caches
  <2>3. GroupTypes'
    BY <1>8 DEF QualifyInv, GroupTypes, Leftover, Poll, procs, NoGroup, verdict,
       disk, guards, world, Others
  <2>4. GroupInv' /\ BesideInv'
    BY <1>8 DEF QualifyInv, GroupInv, BesideInv, Poll, procs, NoGroup, verdict,
       disk, guards, world, Staging, Others
  <2>5. FinalInv' /\ PassedIsVerifiable' /\ StateFollowsSummary'
    BY <1>8 DEF QualifyInv, FinalInv, PassedIsVerifiable, StateFollowsSummary,
       Poll, procs, NoGroup, verdict, disk, guards, world, FinalStatus,
       VerifyReuse
  <2>6. BeforeInv' /\ CompleteInv' /\ LoopInv'
    BY <1>8 DEF QualifyInv, BeforeInv, CompleteInv, LoopInv, Poll, procs, NoGroup,
       verdict, disk, guards, world, Early, Loop, Staging, Recorded,
       GoodStage, Now
  <2> QED BY <2>1, <2>2, <2>3, <2>4, <2>5, <2>6 DEF QualifyInv
<1>9. CASE StopGroup
  <2>1. RecordTypes' /\ HostTypes'
    BY <1>9, Untouched DEF StopGroup
  <2>2. MemoryTypes'
    BY <1>9, PlanFacts DEF QualifyInv, MemoryTypes, StopGroup, Unwind, NoGroup,
       disk, guards, world, Leased, Steps, Statuses, Caches
  <2>3. GroupTypes'
    BY <1>9 DEF QualifyInv, GroupTypes, StopGroup, Unwind, NoGroup, disk, guards,
       world, Leased, Others
  <2>4. GroupInv' /\ BesideInv'
    BY <1>9 DEF QualifyInv, GroupInv, BesideInv, StopGroup, Unwind, NoGroup, disk,
       guards, world, Leased, Staging, Others
  <2>5. FinalInv' /\ PassedIsVerifiable' /\ StateFollowsSummary'
    BY <1>9 DEF QualifyInv, FinalInv, PassedIsVerifiable, StateFollowsSummary,
       StopGroup, Unwind, NoGroup, disk, guards, world, Leased, FinalStatus,
       VerifyReuse
  <2>6. BeforeInv' /\ CompleteInv' /\ LoopInv'
    BY <1>9 DEF QualifyInv, BeforeInv, CompleteInv, LoopInv, StopGroup, Unwind,
       NoGroup, disk, guards, world, Leased, Early, Loop, Staging, Recorded,
       GoodStage, Now
  <2> QED BY <2>1, <2>2, <2>3, <2>4, <2>5, <2>6 DEF QualifyInv
<1>10. CASE Retain
  <2>1. GroupTypes' /\ HostTypes'
    BY <1>10, Untouched DEF Retain
  <2>2. MemoryTypes'
    <3>1. seen' \in [Groups -> Caches \cup {"none"}]
      BY <1>10, ResultTypes DEF QualifyInv, MemoryTypes, Retain
    <3>2. at' \in DOMAIN Plan
      BY <1>10, PlanFacts DEF QualifyInv, MemoryTypes, Retain, LastStage, Unwind,
         verdict
    <3> QED BY <1>10, <3>1, <3>2 DEF QualifyInv, MemoryTypes, Retain, LastStage,
       verdict, Unwind, procs, guards, world, Leased, Steps, Statuses
  <2>3. RecordTypes'
    BY <1>10, ResultTypes DEF Retain, LastStage, verdict, Unwind, procs, guards,
       world, Leased, QualifyInv, RecordTypes, GroupInv
  <2>4. GroupInv' /\ BesideInv'
    BY <1>10 DEF QualifyInv, GroupInv, BesideInv, Retain, LastStage, verdict,
       Unwind, procs, guards, world, Leased, Staging, Others
  <2>5. FinalInv' /\ PassedIsVerifiable' /\ StateFollowsSummary'
    BY <1>10 DEF QualifyInv, FinalInv, PassedIsVerifiable, StateFollowsSummary,
       Retain, LastStage, verdict, Unwind, procs, guards, world, Leased,
       FinalStatus, VerifyReuse
  <2>6. PICK n \in Nat : n = at
      BY <1>10, PlanFacts DEF QualifyInv, MemoryTypes
  <2>7. rec = "passed" => Recorded(n)'
      BY <1>10, <2>6, RetainRecords DEF Retain
  <2>8. BeforeInv'
      BY <1>10 DEF QualifyInv, BeforeInv, Retain, LastStage, verdict, Unwind, procs,
         guards, world, Leased, Early, Staging
  <2>9. CompleteInv'
    <3>1. status' = "passed" => rec = "passed" /\ n = Len(Plan) /\ pc' = "release"
      BY <1>10, <2>6 DEF QualifyInv, CompleteInv, Retain, LastStage, verdict, Unwind,
         procs, guards, world, Leased, Staging
    <3>2. payload' = "passed"
      BY <1>10 DEF QualifyInv, CompleteInv, Retain, Staging
    <3> QED BY <1>10, <2>7, <3>1, <3>2 DEF CompleteInv
  <2>10. LoopInv'
    <3>1. SUFFICES ASSUME pc' \in Loop PROVE LoopInv'
      BY <1>10 DEF LoopInv
    <3>2. rec = "passed" /\ at' = n + 1
      BY <1>10, <2>6, <3>1 DEF Retain, LastStage, verdict, Unwind, procs, guards,
         world, Leased, Loop, Early, Staging
    <3>3. Recorded(n)' /\ at' - 1 = n
      BY <1>10, <2>6, <2>7, <3>2
    <3>4. \A g \in Groups : seen'[g] # "none" =>
             \E j \in 1 .. n : LatestOf(j, g, n + 1) /\ seen'[g] = evidence'[j].after
      BY <1>10, <2>6, RetainSeen DEF Retain
    <3> QED BY <1>10, <3>2, <3>3, <3>4 DEF LoopInv
  <2> QED BY <2>1, <2>2, <2>3, <2>4, <2>5, <2>6, <2>7, <2>8, <2>9, <2>10 DEF QualifyInv
<1>11. CASE RetainFails
  <2>1. GroupTypes' /\ HostTypes'
    BY <1>11, Untouched DEF RetainFails
  <2>2. MemoryTypes'
    BY <1>11, PlanFacts DEF QualifyInv, MemoryTypes, RetainFails, Unwind, procs,
       guards, world, Leased, Steps, Statuses, Caches
  <2>3. RecordTypes'
    <3>1. rec \in {"passed", "failed"} /\ Result \in Evidence
      BY <1>11, ResultTypes DEF QualifyInv, GroupInv, RetainFails
    <3>2. /\ evidence' \in {evidence, Append(evidence, Result)}
          /\ done' \in {done, Append(done, rec)}
      BY <1>11 DEF RetainFails
    <3>3. /\ Append(evidence, Result) \in Seq(Evidence)
          /\ Append(done, rec) \in Seq({"passed", "failed"})
      BY <1>11, <3>1 DEF QualifyInv, RecordTypes
    <3> QED BY <1>11, <3>2, <3>3 DEF QualifyInv, RecordTypes, RetainFails
  <2>4. GroupInv' /\ BesideInv'
    BY <1>11 DEF QualifyInv, GroupInv, BesideInv, RetainFails, Unwind, procs,
       guards, world, Leased, Staging, Others
  <2>5. FinalInv' /\ PassedIsVerifiable' /\ StateFollowsSummary'
    BY <1>11 DEF QualifyInv, FinalInv, PassedIsVerifiable, StateFollowsSummary,
       RetainFails, Unwind, procs, guards, world, Leased, FinalStatus,
       VerifyReuse
  <2>6. BeforeInv' /\ CompleteInv' /\ LoopInv'
    BY <1>11 DEF QualifyInv, BeforeInv, CompleteInv, LoopInv, RetainFails, Unwind,
       procs, guards, world, Leased, Early, Loop, Staging, Recorded,
       GoodStage, Now
  <2> QED BY <2>1, <2>2, <2>3, <2>4, <2>5, <2>6 DEF QualifyInv
<1>12. CASE ReleaseLease
  <2>1. RecordTypes' /\ GroupTypes'
    BY <1>12, Untouched DEF ReleaseLease, work
  <2>2. MemoryTypes'
    BY <1>12, PlanFacts DEF QualifyInv, MemoryTypes, ReleaseLease, LeaseDropped,
       verdict, work, disk, procs, world, Steps, Statuses, Caches
  <2>3. HostTypes'
    BY <1>12, QualifyAssumption DEF QualifyInv, HostTypes, ReleaseLease,
       LeaseDropped, verdict, work, disk, procs, world, Holders, Caches
  <2>4. GroupInv' /\ BesideInv'
    BY <1>12 DEF QualifyInv, GroupInv, BesideInv, ReleaseLease, LeaseDropped,
       verdict, work, disk, procs, world, Staging, Others
  <2>5. FinalInv' /\ PassedIsVerifiable' /\ StateFollowsSummary'
    BY <1>12 DEF QualifyInv, FinalInv, PassedIsVerifiable, StateFollowsSummary,
       ReleaseLease, LeaseDropped, verdict, work, disk, procs, world,
       FinalStatus, VerifyReuse
  <2>6. BeforeInv' /\ CompleteInv' /\ LoopInv'
    BY <1>12 DEF QualifyInv, BeforeInv, CompleteInv, LoopInv, ReleaseLease,
       LeaseDropped, verdict, work, disk, procs, world, Early, Loop, Staging,
       Recorded, GoodStage, Now
  <2> QED BY <2>1, <2>2, <2>3, <2>4, <2>5, <2>6 DEF QualifyInv
<1>13. CASE Unlock
  <2>1. RecordTypes' /\ GroupTypes'
    BY <1>13, Untouched DEF Unlock, work
  <2>2. MemoryTypes'
    BY <1>13, PlanFacts DEF QualifyInv, MemoryTypes, Unlock, FlockDropped, verdict,
       work, disk, procs, world, Steps, Statuses, Caches
  <2>3. HostTypes'
    BY <1>13, QualifyAssumption DEF QualifyInv, HostTypes, Unlock, FlockDropped,
       verdict, work, disk, procs, world, Holders, Caches
  <2>4. GroupInv' /\ BesideInv'
    BY <1>13 DEF QualifyInv, GroupInv, BesideInv, Unlock, FlockDropped, verdict,
       work, disk, procs, world, Staging, Others
  <2>5. FinalInv' /\ PassedIsVerifiable' /\ StateFollowsSummary'
    BY <1>13 DEF QualifyInv, FinalInv, PassedIsVerifiable, StateFollowsSummary,
       Unlock, FlockDropped, verdict, work, disk, procs, world, FinalStatus,
       VerifyReuse
  <2>6. BeforeInv' /\ CompleteInv' /\ LoopInv'
    BY <1>13 DEF QualifyInv, BeforeInv, CompleteInv, LoopInv, Unlock, FlockDropped,
       verdict, work, disk, procs, world, Early, Loop, Staging, Recorded,
       GoodStage, Now
  <2> QED BY <2>1, <2>2, <2>3, <2>4, <2>5, <2>6 DEF QualifyInv
<1>14. CASE WriteSummary
  <2>1. GroupTypes' /\ HostTypes'
    BY <1>14, Untouched DEF WriteSummary
  <2>2. MemoryTypes'
    BY <1>14, PlanFacts DEF QualifyInv, MemoryTypes, WriteSummary, verdict, work,
       procs, guards, world, Steps, Statuses, Caches
  <2>3. RecordTypes'
    BY <1>14, FinalStatusTypes DEF WriteSummary, verdict, work, procs, guards, world,
       QualifyInv, RecordTypes
  <2>4. GroupInv' /\ BesideInv'
    BY <1>14 DEF QualifyInv, GroupInv, BesideInv, WriteSummary, verdict, work,
       procs, guards, world, Staging, Others
  <2>5. FinalInv' /\ StateFollowsSummary'
      BY <1>14 DEF QualifyInv, FinalInv, StateFollowsSummary, WriteSummary, verdict,
         work, procs, guards, world, FinalStatus
  <2>6. PassedIsVerifiable'
    <3>1. SUFFICES ASSUME FinalStatus = "passed" PROVE VerifyReuse'
      BY <1>14 DEF PassedIsVerifiable, WriteSummary
    <3>2. status = "passed"
      BY <1>14, <3>1 DEF FinalStatus
    <3>3. payload = "passed" /\ Recorded(Len(Plan))
      BY <1>14, <3>2 DEF QualifyInv, CompleteInv
    <3>4. Len(done) = Len(Plan)
      BY <1>14, <3>3 DEF Recorded
    <3>5. done \in Seq({"passed", "failed"}) /\ evidence \in Seq(Evidence)
      BY <1>14 DEF QualifyInv, RecordTypes
    <3>6. summary'.status = "passed" /\ summary'.stages = done
      BY <1>14, <3>1 DEF WriteSummary
    <3>7. evidence' = evidence /\ payload' = payload
      BY <1>14 DEF WriteSummary, disk
    <3> QED BY <1>14, <3>3, <3>4, <3>5, <3>6, <3>7, RecordedVerifies DEF VerifyReuse
  <2>7. BeforeInv' /\ CompleteInv' /\ LoopInv'
    BY <1>14 DEF QualifyInv, BeforeInv, CompleteInv, LoopInv, WriteSummary, verdict,
       work, procs, guards, world, Early, Loop, Staging, Recorded, GoodStage,
       Now
  <2> QED BY <2>1, <2>2, <2>3, <2>4, <2>5, <2>6, <2>7 DEF QualifyInv
<1>15. CASE WriteState
  <2>1. GroupTypes'
    BY <1>15, Untouched DEF WriteState
  <2>2. MemoryTypes'
    BY <1>15, GoneTypes DEF WriteState
  <2>3. RecordTypes'
    BY <1>15, FinalStatusTypes DEF WriteState, Gone, procs, guards, QualifyInv,
       RecordTypes, Gone, Statuses
  <2>4. HostTypes'
    BY <1>15, QualifyAssumption DEF QualifyInv, HostTypes, WriteState, Gone, procs,
       guards, Holders, Caches
  <2>5. GroupInv' /\ BesideInv'
    BY <1>15 DEF QualifyInv, GroupInv, BesideInv, WriteState, Gone, procs, guards,
       Staging, Others
  <2>6. FinalInv' /\ PassedIsVerifiable' /\ StateFollowsSummary'
    BY <1>15 DEF QualifyInv, FinalInv, PassedIsVerifiable, StateFollowsSummary,
       WriteState, Gone, procs, guards, FinalStatus, VerifyReuse
  <2>7. BeforeInv' /\ CompleteInv' /\ LoopInv'
    BY <1>15 DEF QualifyInv, BeforeInv, CompleteInv, LoopInv, WriteState, Gone,
       procs, guards, Early, Loop, Staging, Recorded, GoodStage, Now
  <2> QED BY <2>1, <2>2, <2>3, <2>4, <2>5, <2>6, <2>7 DEF QualifyInv
<1>16. CASE Interrupt
  <2>1. RecordTypes' /\ GroupTypes'
    BY <1>16, Untouched DEF Interrupt, work
  <2>2. MemoryTypes'
    BY <1>16, PlanFacts DEF QualifyInv, MemoryTypes, Interrupt, Unwind, FlockDropped,
       work, disk, procs, world, Leased, Steps, Statuses, Caches
  <2>3. HostTypes'
    BY <1>16, QualifyAssumption DEF QualifyInv, HostTypes, Interrupt, Unwind,
       FlockDropped, work, disk, procs, world, Leased, Holders, Caches
  <2>4. GroupInv' /\ BesideInv'
    BY <1>16 DEF QualifyInv, GroupInv, BesideInv, Interrupt, Unwind, FlockDropped,
       work, disk, procs, world, Leased, Staging, Others
  <2>5. FinalInv' /\ PassedIsVerifiable' /\ StateFollowsSummary'
    BY <1>16 DEF QualifyInv, FinalInv, PassedIsVerifiable, StateFollowsSummary,
       Interrupt, Unwind, FlockDropped, work, disk, procs, world, Leased,
       FinalStatus, VerifyReuse
  <2>6. BeforeInv' /\ CompleteInv' /\ LoopInv'
    BY <1>16 DEF QualifyInv, BeforeInv, CompleteInv, LoopInv, Interrupt, Unwind,
       FlockDropped, work, disk, procs, world, Leased, Early, Loop, Staging,
       Recorded, GoodStage, Now
  <2> QED BY <2>1, <2>2, <2>3, <2>4, <2>5, <2>6 DEF QualifyInv
<1>17. CASE FinallyInterrupted
  <2>1. GroupTypes'
    BY <1>17, Untouched DEF FinallyInterrupted
  <2>2. MemoryTypes'
    BY <1>17, GoneTypes DEF FinallyInterrupted
  <2>3. RecordTypes'
    BY <1>17 DEF QualifyInv, RecordTypes, FinallyInterrupted, Gone, disk, procs,
       guards, Statuses
  <2>4. HostTypes'
    BY <1>17, QualifyAssumption DEF QualifyInv, HostTypes, FinallyInterrupted, Gone,
       disk, procs, guards, Holders, Caches
  <2>5. GroupInv' /\ BesideInv'
    BY <1>17 DEF QualifyInv, GroupInv, BesideInv, FinallyInterrupted, Gone, disk,
       procs, guards, Staging, Others
  <2>6. FinalInv' /\ PassedIsVerifiable' /\ StateFollowsSummary'
    BY <1>17 DEF QualifyInv, FinalInv, PassedIsVerifiable, StateFollowsSummary,
       FinallyInterrupted, Gone, disk, procs, guards, FinalStatus, VerifyReuse
  <2>7. BeforeInv' /\ CompleteInv' /\ LoopInv'
    BY <1>17 DEF QualifyInv, BeforeInv, CompleteInv, LoopInv, FinallyInterrupted,
       Gone, disk, procs, guards, Early, Loop, Staging, Recorded, GoodStage,
       Now
  <2> QED BY <2>1, <2>2, <2>3, <2>4, <2>5, <2>6, <2>7 DEF QualifyInv
<1>18. CASE Crash
  <2>1. MemoryTypes'
    BY <1>18, GoneTypes DEF Crash
  <2>2. RecordTypes'
    BY <1>18 DEF QualifyInv, RecordTypes, Crash, Gone, FlockDropped, LeaseDropped,
       NoGroup, disk, Statuses
  <2>3. GroupTypes'
    BY <1>18 DEF QualifyInv, GroupTypes, Leftover, Crash, Gone, FlockDropped,
       LeaseDropped, NoGroup, disk, Others
  <2>4. HostTypes'
    BY <1>18, QualifyAssumption DEF QualifyInv, HostTypes, Crash, Gone, FlockDropped,
       LeaseDropped, NoGroup, disk, Holders, Caches
  <2>5. GroupInv' /\ BesideInv'
    BY <1>18 DEF QualifyInv, GroupInv, BesideInv, Crash, Gone, FlockDropped,
       LeaseDropped, NoGroup, disk, Staging, Others
  <2>6. FinalInv' /\ PassedIsVerifiable' /\ StateFollowsSummary'
    BY <1>18 DEF QualifyInv, FinalInv, PassedIsVerifiable, StateFollowsSummary,
       Crash, Gone, FlockDropped, LeaseDropped, NoGroup, disk, FinalStatus,
       VerifyReuse
  <2>7. BeforeInv' /\ CompleteInv' /\ LoopInv'
    BY <1>18 DEF QualifyInv, BeforeInv, CompleteInv, LoopInv, Crash, Gone,
       FlockDropped, LeaseDropped, NoGroup, disk, Early, Loop, Staging,
       Recorded, GoodStage, Now
  <2> QED BY <2>1, <2>2, <2>3, <2>4, <2>5, <2>6, <2>7 DEF QualifyInv
<1>19. CASE KidMoves
  <2>1. /\ MemoryTypes' /\ RecordTypes' /\ FinalInv' /\ StateFollowsSummary'
        /\ BeforeInv' /\ CompleteInv' /\ LoopInv' /\ PassedIsVerifiable'
    BY <1>19, AttemptUntouched DEF KidMoves
  <2>2. GroupTypes'
    BY <1>19 DEF QualifyInv, GroupTypes, KidMoves, verdict, work, disk, guards,
       world, Others
  <2>3. HostTypes'
    BY <1>19, Untouched DEF KidMoves
  <2>4. GroupInv' /\ BesideInv'
    BY <1>19 DEF QualifyInv, GroupInv, BesideInv, KidMoves, verdict, work, disk,
       guards, world, Staging, Others
  <2> QED BY <2>1, <2>2, <2>3, <2>4 DEF QualifyInv
<1>20. CASE LeaderExits
  <2>1. /\ MemoryTypes' /\ RecordTypes' /\ FinalInv' /\ StateFollowsSummary'
        /\ BeforeInv' /\ CompleteInv' /\ LoopInv' /\ PassedIsVerifiable'
    BY <1>20, AttemptUntouched DEF LeaderExits
  <2>2. GroupTypes'
    BY <1>20 DEF QualifyInv, GroupTypes, LeaderExits, verdict, work, disk, guards,
       world, Others
  <2>3. HostTypes'
    BY <1>20, Untouched DEF LeaderExits
  <2>4. GroupInv' /\ BesideInv'
    BY <1>20 DEF QualifyInv, GroupInv, BesideInv, LeaderExits, verdict, work, disk,
       guards, world, Staging, Others
  <2> QED BY <2>1, <2>2, <2>3, <2>4 DEF QualifyInv
<1>21. CASE OrphanMoves
  <2>1. /\ MemoryTypes' /\ RecordTypes' /\ FinalInv' /\ StateFollowsSummary'
        /\ BeforeInv' /\ CompleteInv' /\ LoopInv' /\ PassedIsVerifiable'
    BY <1>21, AttemptUntouched DEF OrphanMoves
  <2>2. GroupTypes'
    BY <1>21 DEF QualifyInv, GroupTypes, OrphanMoves, verdict, work, disk, guards,
       world, StillBeside, Others
  <2>3. HostTypes'
    BY <1>21, Untouched DEF OrphanMoves
  <2>4. GroupInv' /\ BesideInv'
    BY <1>21 DEF QualifyInv, GroupInv, BesideInv, OrphanMoves, verdict, work, disk,
       guards, world, StillBeside, Others, Staging
  <2> QED BY <2>1, <2>2, <2>3, <2>4 DEF QualifyInv
<1>22. CASE CacheWritten
  <2>1. /\ MemoryTypes' /\ RecordTypes' /\ FinalInv' /\ StateFollowsSummary'
        /\ BeforeInv' /\ CompleteInv' /\ LoopInv' /\ PassedIsVerifiable'
    BY <1>22, AttemptUntouched DEF CacheWritten
  <2>2. GroupTypes'
    BY <1>22, Untouched DEF CacheWritten
  <2>3. HostTypes'
    BY <1>22, QualifyAssumption DEF QualifyInv, HostTypes, CacheWritten, verdict,
       work, disk, procs, guards, Holders, Caches
  <2>4. GroupInv' /\ BesideInv'
    BY <1>22 DEF QualifyInv, GroupInv, BesideInv, CacheWritten, verdict, work, disk,
       procs, guards, Staging, Others
  <2> QED BY <2>1, <2>2, <2>3, <2>4 DEF QualifyInv
<1>23. CASE ForeignMoves
  <2>1. /\ MemoryTypes' /\ RecordTypes' /\ FinalInv' /\ StateFollowsSummary'
        /\ BeforeInv' /\ CompleteInv' /\ LoopInv' /\ PassedIsVerifiable'
    BY <1>23, AttemptUntouched DEF ForeignMoves
  <2>2. GroupTypes'
    BY <1>23 DEF QualifyInv, GroupTypes, ForeignMoves, verdict, work, disk, guards,
       StillBeside, Others
  <2>3. HostTypes'
    BY <1>23, QualifyAssumption DEF QualifyInv, HostTypes, ForeignMoves, verdict,
       work, disk, guards, StillBeside, Others, Holders, Caches
  <2>4. GroupInv' /\ BesideInv'
    BY <1>23 DEF QualifyInv, GroupInv, BesideInv, ForeignMoves, verdict, work, disk,
       guards, StillBeside, Others, Staging
  <2> QED BY <2>1, <2>2, <2>3, <2>4 DEF QualifyInv
<1>24. CASE SourceChanges
  <2>1. /\ MemoryTypes' /\ RecordTypes' /\ FinalInv' /\ StateFollowsSummary'
        /\ BeforeInv' /\ CompleteInv' /\ LoopInv' /\ PassedIsVerifiable'
    BY <1>24, AttemptUntouched DEF SourceChanges
  <2>2. GroupTypes'
    BY <1>24, Untouched DEF SourceChanges
  <2>3. HostTypes'
    BY <1>24, QualifyAssumption DEF QualifyInv, HostTypes, SourceChanges, verdict,
       work, disk, procs, guards, Holders, Caches
  <2>4. GroupInv' /\ BesideInv'
    BY <1>24 DEF QualifyInv, GroupInv, BesideInv, SourceChanges, verdict, work,
       disk, procs, guards, Staging, Others
  <2> QED BY <2>1, <2>2, <2>3, <2>4 DEF QualifyInv
<1>25. CASE Rival
  <2>1. /\ MemoryTypes' /\ RecordTypes' /\ FinalInv' /\ StateFollowsSummary'
        /\ BeforeInv' /\ CompleteInv' /\ LoopInv' /\ PassedIsVerifiable'
    BY <1>25, AttemptUntouched DEF Rival
  <2>2. GroupTypes'
    BY <1>25, Untouched DEF Rival
  <2>3. HostTypes'
    BY <1>25, QualifyAssumption DEF QualifyInv, HostTypes, Rival, verdict, work,
       disk, procs, world, Holders, Caches
  <2>4. GroupInv' /\ BesideInv'
    BY <1>25 DEF QualifyInv, GroupInv, BesideInv, Rival, verdict, work, disk, procs,
       world, Staging, Others
  <2> QED BY <2>1, <2>2, <2>3, <2>4 DEF QualifyInv
<1>26. CASE Tick
  <2>1. /\ MemoryTypes' /\ RecordTypes' /\ FinalInv' /\ StateFollowsSummary'
        /\ BeforeInv' /\ CompleteInv' /\ LoopInv' /\ PassedIsVerifiable'
    BY <1>26, AttemptUntouched DEF Tick
  <2>2. GroupTypes'
    BY <1>26, Untouched DEF Tick
  <2>3. HostTypes'
    BY <1>26, QualifyAssumption DEF QualifyInv, HostTypes, Tick, verdict, work, disk,
       procs, guards, world, Holders, Caches
  <2>4. GroupInv' /\ BesideInv'
    BY <1>26 DEF QualifyInv, GroupInv, BesideInv, Tick, verdict, work, disk, procs,
       guards, world, Staging, Others
  <2> QED BY <2>1, <2>2, <2>3, <2>4 DEF QualifyInv
<1>27. CASE LeaseLapses
  <2>1. /\ MemoryTypes' /\ RecordTypes' /\ FinalInv' /\ StateFollowsSummary'
        /\ BeforeInv' /\ CompleteInv' /\ LoopInv' /\ PassedIsVerifiable'
    BY <1>27, AttemptUntouched DEF LeaseLapses
  <2>2. GroupTypes'
    BY <1>27, Untouched DEF LeaseLapses
  <2>3. HostTypes'
    BY <1>27, QualifyAssumption DEF QualifyInv, HostTypes, LeaseLapses, verdict,
       work, disk, procs, world, Holders, Caches
  <2>4. GroupInv' /\ BesideInv'
    BY <1>27 DEF QualifyInv, GroupInv, BesideInv, LeaseLapses, verdict, work, disk,
       procs, world, Staging, Others
  <2> QED BY <2>1, <2>2, <2>3, <2>4 DEF QualifyInv
<1>28. CASE UNCHANGED vars
  <2>1. /\ MemoryTypes' /\ RecordTypes' /\ FinalInv' /\ StateFollowsSummary'
        /\ BeforeInv' /\ CompleteInv' /\ LoopInv' /\ PassedIsVerifiable'
    BY <1>28, AttemptUntouched DEF vars
  <2>2. GroupTypes' /\ HostTypes' /\ GroupInv' /\ BesideInv'
    BY <1>28 DEF QualifyInv, GroupTypes, HostTypes, GroupInv, BesideInv, Others,
       vars, work, procs, guards, world
  <2> QED BY <2>1, <2>2 DEF QualifyInv
<1> QED BY <1>1, <1>2, <1>3, <1>4, <1>5, <1>6, <1>7, <1>8, <1>9, <1>10, <1>11,
   <1>12, <1>13, <1>14, <1>15, <1>16, <1>17, <1>18, <1>19, <1>20, <1>21,
   <1>22, <1>23, <1>24, <1>25, <1>26, <1>27, <1>28 DEF Next, Own

(* No attempt has started anything at first. *)
LEMMA InitInv == Init => QualifyInv
<1> SUFFICES ASSUME Init PROVE QualifyInv
  OBVIOUS
<1>1. 1 \in DOMAIN Plan /\ Len(Plan) # 0
  BY PlanFacts
<1>2. MemoryTypes /\ RecordTypes /\ GroupTypes /\ HostTypes
  <2>1. MemoryTypes
    BY <1>1 DEF Init, MemoryTypes, Steps, Statuses, Caches
  <2>2. RecordTypes
    BY DEF Init, RecordTypes, Statuses
  <2>3. HostTypes
    <3>1. cache \in [Groups -> Caches]
      BY DEF Init, Caches
    <3>2. 0 \in 0 .. Timeout
      BY QualifyAssumption
    <3> QED BY <3>1, <3>2 DEF Init, HostTypes, Holders
  <2>4. GroupTypes
    BY DEF Init, GroupTypes
  <2> QED BY <2>1, <2>2, <2>3, <2>4
<1>3. GroupInv /\ FinalInv /\ BesideInv /\ BeforeInv /\ CompleteInv
  BY DEF Init, GroupInv, FinalInv, BesideInv, BeforeInv, CompleteInv, Staging
<1>4. LoopInv
  BY DEF Init, LoopInv, Recorded
<1> QED BY <1>2, <1>3, <1>4 DEF QualifyInv, PassedIsVerifiable,
        StateFollowsSummary, Init

(* The inductive invariant holds throughout. *)
THEOREM QualifyInvHolds == Spec => []QualifyInv
  BY InitInv, StepKeepsInv, PTL DEF Spec

(* Type correctness of the qualification attempt. *)
THEOREM QualifyTypes == Spec => []TypeOK
<1>1. QualifyInv => TypeOK
  BY TypeParts DEF QualifyInv
<1> QED BY <1>1, QualifyInvHolds, PTL

(* _run_attempt: evidence that ends as "passed" is evidence that verify_reuse
   accepts, for every plan and whatever was interrupted or failed before. *)
THEOREM PassedVerifies == Spec => []PassedIsVerifiable
<1>1. QualifyInv => PassedIsVerifiable
  BY DEF QualifyInv
<1> QED BY <1>1, QualifyInvHolds, PTL

(* _run_attempt: the stages run only under the estate's flock. *)
THEOREM StagesHoldFlock == Spec => []StagesExclude
<1>1. QualifyInv => StagesExclude
  BY DEF QualifyInv, GroupInv, StagesExclude
<1> QED BY <1>1, QualifyInvHolds, PTL

(* run_command: a failed record means that the group is stopped. *)
THEOREM FailuresStop == Spec => []FailedStageIsStopped
<1>1. QualifyInv => FailedStageIsStopped
  BY DEF QualifyInv, GroupInv, FailedStageIsStopped
<1> QED BY <1>1, QualifyInvHolds, PTL

(* The finally clause: state.json never contradicts summary.json. *)
THEOREM StatesFollow == Spec => []StateFollowsSummary
<1>1. QualifyInv => StateFollowsSummary
  BY DEF QualifyInv
<1> QED BY <1>1, QualifyInvHolds, PTL

(* run_command: no stage passes that had company on the GPU throughout. *)
THEOREM PassesAlone == Spec => NotPassedBeside
<1>1. QualifyInv => (pc = "poll" /\ pc' = "retain" /\ rec' = "passed" => ~beside)
  BY DEF QualifyInv, BesideInv
<1> QED BY <1>1, QualifyInvHolds, PTL DEF NotPassedBeside
============================================================================
