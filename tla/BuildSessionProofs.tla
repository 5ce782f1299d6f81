------------------------- MODULE BuildSessionProofs -------------------------
(***************************************************************************)
(* Proofs about BuildSession for every number of runs, variants and        *)
(* mirrors and every preparation: the event log leads the summary and the  *)
(* summary the result, a closed run stays closed, commands exclude later   *)
(* runners, and a summary that says built has built the whole matrix.      *)
(***************************************************************************)
EXTENDS BuildSession, SequenceTheorems, Extrema, TLAPS

----------------------------------------------------------------------------
(* The inductive invariant *)

(* TypeOK in three parts. *)
FileTypes ==
    /\ disk \in [Runs -> Report \cup {NoReport}]
    /\ events \in [Runs -> SUBSET Terminal]
    /\ result \in [Runs -> Terminal \cup {"none"}]
    /\ latest \in Runs \cup {0} /\ made \in 0 .. MaxRuns
WorkTypes ==
    /\ cur \in 0 .. made /\ mem \in Report \cup {NoReport}
    /\ plan \in {<<>>, PrepPlan, BuildPlan} /\ at \in 1 .. (Len(plan) + 1)
    /\ mirror \in 1 .. (Mirrors + 1)
HandlerTypes ==
    /\ ctx \in {"setup", "recover", "run", "variant", "finish"}
    /\ err \in {"none", "failed", "interrupted"}
    /\ child \in {"none", "alive"} /\ strays \in SUBSET Runs
    /\ cancel \in {"no", "yes"} /\ source \in {"clean", "edited"}

(* The parts make up TypeOK. *)
LEMMA TypeParts == TypeOK <=> FileTypes /\ WorkTypes /\ HandlerTypes
  BY DEF TypeOK, FileTypes, WorkTypes, HandlerTypes

Labels == {"idle", "recover", "create", "enter", "step", "mirror", "stage",
           "launch", "drain", "wait", "stageEnd", "after", "nextItem",
           "event", "summary", "latest", "result", "throw", "exit"}

(* Where the runner is, or goes on once the pending writes are done. *)
Resume ==
    IF pc \in {"event", "summary", "latest"} \/ (pc = "result" /\ ctx = "recover")
    THEN cont ELSE pc

Stages == {"launch", "drain", "wait", "stageEnd", "after"}
Matrix == Stages \cup {"step", "mirror", "stage", "nextItem"}

(* Which steps belong to which handler. *)
ControlInv ==
    /\ pc \in Labels /\ cont \in Labels
    /\ pc = "idle" => ctx = "setup" /\ child = "none"
    /\ pc # "idle" =>
          Resume \in CASE ctx = "recover" -> {"recover", "create", "throw", "exit"}
                       [] ctx = "setup" -> {"enter", "throw", "exit"}
                       [] ctx = "run" -> Matrix \cup {"throw"}
                       [] ctx = "variant" -> Stages \cup {"throw"}
                       [] ctx = "finish" -> {"result", "throw", "exit"}
    /\ pc = "result" =>
          ctx = "recover" \/ (ctx = "finish" /\ cont = "result")
    /\ Resume = "drain" => pc = "drain"
    /\ child = "alive" => Resume \in {"wait", "drain"}
    /\ Resume = "throw" => err # "none"

(* The place in the plan. *)
PlanInv ==
    /\ pc # "idle" => plan \in {PrepPlan, BuildPlan}
    /\ ctx \in {"setup", "recover"} => at = 1
    /\ Resume \in Matrix \ {"step"} => at <= Len(plan)
    /\ ctx = "variant" => at <= Len(plan) /\ plan[at] = "variant"

(* Which report the runner has in memory and how far it is closed. *)
ReportInv ==
    /\ \A r \in Runs : r > made => disk[r] = NoReport /\ result[r] = "none"
    /\ latest <= made
    /\ ctx = "recover" => made < MaxRuns
    /\ pc # "idle" /\ ctx # "recover" =>
          cur = made /\ cur \in Runs /\ mem \in Report
    /\ ctx = "recover" /\ Writing =>
          cur \in Runs /\ mem \in Report /\ mem.status = "abandoned"
    /\ pc # "idle" /\ ctx = "setup" => mem = NewReport
    /\ ctx \in {"run", "variant"} => mem.status = "running"
    /\ ctx = "finish" => mem.status \in Terminal

(* A terminal status is logged before it is saved, and saved once. *)
LogInv ==
    /\ pc = "event" /\ mem.status \in Terminal => pending = mem.status
    /\ pc = "summary" /\ mem.status \in Terminal => mem.status \in events[cur]
    /\ pc \in {"latest", "result"} => disk[cur] = mem
    /\ pc # "idle" /\ (ctx \in {"setup", "run", "variant"} \/ pc \in {"event", "summary"}) =>
          disk[cur].status \notin Terminal

(* Records that say running, apart from those of runs that died at birth. *)
Stuck(r) == disk[r].status = "running" /\ disk[r] # NewReport

BirthInv ==
    /\ \A r \in Runs : Stuck(r) => r = latest
    /\ pc # "idle" /\ ctx # "recover" => \A r \in Runs \ {cur} : ~Stuck(r)
    /\ ctx = "recover" /\ pc \in {"result", "latest", "create"} =>
          \A r \in Runs : ~Stuck(r)
    /\ ctx \in {"run", "variant", "finish"} \/ pc = "enter" => latest = cur
    /\ ctx = "recover" /\ Writing => latest \in {0, cur}

(* Variants are built in order. *)
InOrder(m) ==
    \A v, w \in Variant :
        v < w /\ m.variants[w] \notin {"pending", "skipped"} => m.variants[v] = "built"

(* A report that says built or prepared is right. *)
Honest(m) ==
    /\ m.status = "built" => \A v \in Variant : m.variants[v] = "built"
    /\ m.status = "prepared" => \A v \in Variant : m.variants[v] = "skipped"
    /\ m.status \in {"built", "prepared"} => m.stage \in {"none", "passed"}

MatrixInv ==
    /\ \A r \in Runs : InOrder(disk[r]) /\ Honest(disk[r])
    /\ InOrder(mem) /\ Honest(mem)
    /\ pc # "idle" /\ ctx \in {"setup", "run", "variant"} =>
          \A v \in Variant : /\ v < ThisVariant => mem.variants[v] = "built"
                             /\ v > ThisVariant => mem.variants[v] = "pending"
    /\ Resume = "nextItem" /\ plan[at] = "variant" =>
          mem.variants[ThisVariant] = "built"
    /\ Resume \in {"step", "after", "nextItem"} => mem.stage \in {"none", "passed"}

SessionInv ==
    /\ FileTypes /\ WorkTypes /\ HandlerTypes
    /\ ControlInv /\ PlanInv /\ ReportInv /\ LogInv /\ LogLeads
    /\ BirthInv /\ MatrixInv /\ OneOwner

(* Its part about what is on record. *)
RecordsInv ==
    FileTypes /\ ReportInv /\ LogInv /\ LogLeads /\ BirthInv /\ MatrixInv

----------------------------------------------------------------------------
(* The plan and the selected report *)

(* The variants of the full plan come after the preparation and one phase. *)
LEMMA PlanFacts ==
    /\ Len(PrepPlan) \in Nat /\ Variants \in Nat
    /\ Len(BuildPlan) = Len(PrepPlan) + 1 + Variants
    /\ \A i \in 1 .. Len(PrepPlan) : PrepPlan[i] # "variant" /\ BuildPlan[i] # "variant"
    /\ BuildPlan[Len(PrepPlan) + 1] = "phase"
    /\ \A i \in Len(PrepPlan) + 2 .. Len(BuildPlan) : BuildPlan[i] = "variant"
<1> DEFINE B == [v \in Variant |-> "variant"]
           Kinds == {"phase", "stage", "inputs", "asset", "variant"}
<1>1. /\ Len(PrepPlan) \in Nat /\ Variants \in Nat /\ PrepPlan \in Seq(Kinds)
      /\ \A i \in 1 .. Len(PrepPlan) : PrepPlan[i] # "variant"
  <2>1. \A i \in 1 .. Len(PrepPlan) : PrepPlan[i] \in {"phase", "stage", "inputs", "asset"}
    BY BuildAssumption
  <2>2. Len(PrepPlan) \in Nat /\ Variants \in Nat /\ PrepPlan \in Seq(Kinds)
    BY BuildAssumption
  <2> QED BY <2>1, <2>2
<1>2. B \in Seq(Kinds) /\ Len(B) = Variants /\ \A v \in 1 .. Variants : B[v] = "variant"
  <2>1. B \in [1 .. Variants -> Kinds] /\ \A v \in 1 .. Variants : B[v] = "variant"
    BY DEF Variant
  <2> HIDE DEF B, Kinds
  <2> QED BY <1>1, <2>1
<1>3. <<"phase">> \in Seq(Kinds) /\ Len(<<"phase">>) = 1 /\ <<"phase">>[1] = "phase"
  OBVIOUS
<1>4. BuildPlan = (PrepPlan \o <<"phase">>) \o B
  BY DEF BuildPlan
<1> HIDE DEF B
<1> DEFINE C == PrepPlan \o <<"phase">>
<1>5. /\ C \in Seq(Kinds) /\ Len(C) = Len(PrepPlan) + 1
      /\ \A i \in 1 .. Len(PrepPlan) : C[i] = PrepPlan[i]
      /\ C[Len(PrepPlan) + 1] = "phase"
  BY <1>1, <1>3
<1>6. BuildPlan = C \o B
  BY <1>4
<1> HIDE DEF C
<1>7. /\ Len(BuildPlan) = Len(C) + Len(B)
      /\ \A i \in 1 .. Len(C) : BuildPlan[i] = C[i]
      /\ \A i \in Len(C) + 1 .. Len(C) + Len(B) : BuildPlan[i] = B[i - Len(C)]
  <2> HIDE DEF Kinds
  <2>1. B \in Seq(Kinds) /\ C \in Seq(Kinds) /\ BuildPlan = C \o B
    BY <1>2, <1>5, <1>6
  <2> QED BY <2>1
<1>8. \A i \in Len(PrepPlan) + 2 .. Len(BuildPlan) : BuildPlan[i] = "variant"
  <2> SUFFICES ASSUME NEW i \in Len(PrepPlan) + 2 .. Len(BuildPlan)
               PROVE  BuildPlan[i] = "variant"
    OBVIOUS
  <2>1. i \in Len(C) + 1 .. Len(C) + Len(B) /\ i - Len(C) \in 1 .. Variants
    BY <1>1, <1>2, <1>5, <1>7
  <2> QED BY <1>2, <1>7, <2>1
<1> QED BY <1>1, <1>2, <1>5, <1>7, <1>8

(* An item of the plan builds a variant if and only if it comes after the
   preparation and its phase. *)
LEMMA VariantItem ==
    ASSUME plan \in {PrepPlan, BuildPlan}, at \in 1 .. Len(plan)
    PROVE  plan[at] = "variant" <=> ThisVariant \in Variant
<1>1. ThisVariant = at - Len(PrepPlan) - 1 /\ Variant = 1 .. Variants
  BY DEF ThisVariant, Variant
<1>2. CASE plan = PrepPlan
  BY <1>1, <1>2, PlanFacts
<1>3. CASE plan = BuildPlan
  <2>1. CASE at <= Len(PrepPlan) + 1
    <3>1. plan[at] # "variant"
      BY <1>3, <2>1, PlanFacts
    <3>2. ~(ThisVariant \in Variant)
      BY <1>1, <2>1, PlanFacts
    <3> QED BY <3>1, <3>2
  <2>2. CASE at > Len(PrepPlan) + 1
    <3>1. plan[at] = "variant"
      BY <1>3, <2>2, PlanFacts
    <3>2. ThisVariant \in Variant
      BY <1>1, <1>3, <2>2, PlanFacts
    <3> QED BY <3>1, <3>2
  <2> QED BY <2>1, <2>2, PlanFacts
<1> QED BY <1>2, <1>3

(* latest_report: the stale report is that of the pointer, if there is one. *)
LEMMA StaleFacts ==
    ASSUME FileTypes, Stale
    PROVE  /\ Selected \in Runs /\ disk[Selected].status = "running"
           /\ latest \in {0, Selected}
<1> DEFINE S == {r \in Runs : disk[r] # NoReport}
<1>1. Selected # 0 /\ disk[Selected].status = "running"
  BY DEF Stale
<1>2. CASE latest # 0
  <2>1. Selected = latest
    BY <1>2 DEF Selected
  <2> QED BY <1>1, <1>2, <2>1 DEF FileTypes
<1>3. CASE latest = 0
  <2>1. Selected = IF S = {} THEN 0 ELSE CHOOSE r \in S : \A s \in S : s <= r
    BY <1>3 DEF Selected
  <2>2. S # {}
    BY <1>1, <2>1
  <2>3. S \in SUBSET (0 .. MaxRuns) /\ MaxRuns \in Nat /\ S \subseteq Runs
    BY BuildAssumption DEF Runs
  <2> HIDE DEF S
  <2>4. \E r \in S : \A s \in S : s <= r
    BY <2>2, <2>3, GreatestNumber
  <2>5. Selected \in S
    BY <2>1, <2>2, <2>4, Zenon
  <2> QED BY <1>1, <1>3, <2>3, <2>5
<1> QED BY <1>2, <1>3

----------------------------------------------------------------------------
(* Reports *)

(* What the changes of a report leave alone. *)
LEMMA StageChange ==
    ASSUME NEW m \in Report, NEW s \in StageStatus
    PROVE  LET n == [m EXCEPT !.stage = s]
           IN  /\ n \in Report /\ n.status = m.status /\ n.stage = s
               /\ n.variants = m.variants
  BY DEF Report

(* Setting one variant leaves the others as they are. *)
LEMMA VariantChange ==
    ASSUME NEW m \in Report, NEW v \in Variant, NEW s \in VariantStatus, NEW n,
           n = [m EXCEPT !.variants[v] = s]
    PROVE  /\ n \in Report /\ n.status = m.status /\ n.stage = m.stage
           /\ n.variants[v] = s
           /\ \A w \in Variant : w # v => n.variants[w] = m.variants[w]
  BY DEF Report

(* A new report runs, and all its variants are pending. *)
LEMMA NewReportType ==
    /\ NewReport \in Report /\ NewReport.status = "running"
    /\ NewReport.stage = "none" /\ NoReport.status = "absent"
    /\ NoReport.stage = "none"
    /\ \A v \in Variant : /\ NewReport.variants[v] = "pending"
                          /\ NoReport.variants[v] = "pending"
  BY DEF NewReport, NoReport, Report, Phases, StageStatus, VariantStatus

(* Closing a report keeps the order of its variants. *)
LEMMA ClosedFacts ==
    ASSUME NEW m \in Report, InOrder(m),
           NEW s \in {"built", "prepared", "failed", "interrupted"}
    PROVE  /\ Closed(m, s) \in Report /\ Closed(m, s).status = s
           /\ InOrder(Closed(m, s)) /\ Closed(m, s).stage = m.stage
           /\ \A v \in Variant : /\ s = "built" => Closed(m, s).variants[v] = m.variants[v]
                                 /\ s = "prepared" /\ m.variants[v] = "pending" =>
                                       Closed(m, s).variants[v] = "skipped"
<1> DEFINE f == [v \in Variant |->
          IF s = "prepared" /\ m.variants[v] = "pending" THEN "skipped"
          ELSE IF s \in {"failed", "interrupted"}
                  /\ m.variants[v] = "running" THEN s
          ELSE m.variants[v]]
<1>1. Closed(m, s) = [m EXCEPT !.status = s, !.phase = "complete", !.variants = f]
  BY DEF Closed
<1>2. m.variants \in [Variant -> VariantStatus]
  BY DEF Report
<1>3. f \in [Variant -> VariantStatus]
  BY <1>2 DEF VariantStatus
<1>4. Closed(m, s) \in Report /\ Closed(m, s).status = s /\ Closed(m, s).stage = m.stage
      /\ Closed(m, s).variants = f
  <2> HIDE DEF f
  <2> QED BY <1>1, <1>3 DEF Report, Terminal, Phases
<1>5. \A v \in Variant :
         /\ f[v] = m.variants[v] \/ f[v] = "skipped"
                \/ (m.variants[v] = "running" /\ f[v] = s)
         /\ m.variants[v] = "built" => f[v] = "built"
         /\ m.variants[v] \in {"pending", "skipped"} => f[v] \in {"pending", "skipped"}
         /\ s = "built" => f[v] = m.variants[v]
         /\ s = "prepared" /\ m.variants[v] = "pending" => f[v] = "skipped"
  OBVIOUS
<1>6. InOrder(Closed(m, s))
  <2> HIDE DEF f
  <2> QED BY <1>4, <1>5 DEF InOrder
<1> QED BY <1>4, <1>5, <1>6

(* So does abandoning one. *)
LEMMA AbandonedFacts ==
    ASSUME NEW m \in Report, InOrder(m)
    PROVE  /\ Abandoned(m) \in Report /\ Abandoned(m).status = "abandoned"
           /\ InOrder(Abandoned(m))
<1> DEFINE f == [v \in Variant |-> IF m.variants[v] = "running"
                                   THEN "abandoned" ELSE m.variants[v]]
           t == IF m.stage = "running" THEN "abandoned" ELSE m.stage
<1>1. Abandoned(m) = [m EXCEPT !.status = "abandoned", !.phase = "complete",
                               !.stage = t, !.variants = f]
  BY DEF Abandoned
<1>2. m.variants \in [Variant -> VariantStatus] /\ t \in StageStatus
  BY DEF Report, StageStatus
<1>3. f \in [Variant -> VariantStatus]
  BY <1>2 DEF VariantStatus
<1>4. /\ Abandoned(m) \in Report /\ Abandoned(m).status = "abandoned"
      /\ Abandoned(m).variants = f
  <2> HIDE DEF f, t
  <2> QED BY <1>1, <1>2, <1>3 DEF Report, Terminal, Phases
<1>5. \A v \in Variant :
         /\ m.variants[v] = "built" => f[v] = "built"
         /\ m.variants[v] \in {"pending", "skipped"} => f[v] \in {"pending", "skipped"}
  OBVIOUS
<1>6. InOrder(Abandoned(m))
  <2> HIDE DEF f
  <2> QED BY <1>4, <1>5 DEF InOrder
<1> QED BY <1>4, <1>6

----------------------------------------------------------------------------
(* Preservation: lemmas *)

(* In a step of the matrix the run is open and its report is the newest. *)
LEMMA InMatrix ==
    ASSUME SessionInv, Resume \in Matrix \/ ctx \in {"run", "variant"}
    PROVE  /\ ctx \in {"run", "variant"} /\ pc # "idle" /\ Resume \in Matrix \cup {"throw"}
           /\ plan \in {PrepPlan, BuildPlan} /\ at \in Nat \ {0}
           /\ mem \in Report /\ mem.status = "running" /\ cur \in Runs /\ latest = cur
           /\ Resume \in Matrix \ {"step"} => at \in 1 .. Len(plan)
<1>1. ctx \in {"run", "variant"} /\ pc # "idle" /\ Resume \in Matrix \cup {"throw"}
  BY DEF SessionInv, ControlInv, HandlerTypes, Matrix, Stages, Resume
<1>2. plan \in {PrepPlan, BuildPlan} /\ at \in Nat \ {0}
  BY <1>1, PlanFacts DEF SessionInv, PlanInv, WorkTypes
<1>3. mem \in Report /\ mem.status = "running" /\ cur \in Runs /\ latest = cur
  BY <1>1 DEF SessionInv, ReportInv, BirthInv
<1>4. Resume \in Matrix \ {"step"} => at \in 1 .. Len(plan)
  BY <1>2, PlanFacts DEF SessionInv, PlanInv
<1> QED BY <1>1, <1>2, <1>3, <1>4

(* A step of the matrix writes no file; it keeps what is said of the files and
   of the report if it changes the variant at hand at most. *)
LEMMA MatrixStep ==
    ASSUME SessionInv, Resume \in Matrix \/ ctx \in {"run", "variant"},
           ctx' \in {"run", "variant"}, pc' \notin {"latest", "result", "idle"},
           UNCHANGED <<disk, events, result, latest, made, cur, plan, at>>,
           mem' \in Report, mem'.status = "running",
           \A v \in Variant : v # ThisVariant => mem'.variants[v] = mem.variants[v],
           Resume' = "nextItem" /\ plan[at] = "variant" =>
              mem'.variants[ThisVariant] = "built",
           Resume' \in {"step", "after", "nextItem"} => mem'.stage \in {"none", "passed"}
    PROVE  RecordsInv'
<1>1. ctx \in {"run", "variant"} /\ pc # "idle" /\ latest = cur
  BY InMatrix
<1>2. FileTypes' /\ LogLeads'
  BY DEF SessionInv, FileTypes, LogLeads
<1>3. ReportInv'
  BY <1>1 DEF SessionInv, ReportInv
<1>4. LogInv'
  BY <1>1 DEF SessionInv, LogInv, Terminal
<1>5. BirthInv'
  BY <1>1 DEF SessionInv, BirthInv, Stuck
<1>6. MatrixInv'
  <2>1. ThisVariant' = ThisVariant
    BY DEF ThisVariant
  <2>2. \A v \in Variant : /\ v < ThisVariant => mem'.variants[v] = "built"
                           /\ v > ThisVariant => mem'.variants[v] = "pending"
    <3>1. ThisVariant \in Int /\ \A v \in Variant : v \in Int
      BY InMatrix, PlanFacts DEF ThisVariant, Variant
    <3> QED BY <1>1, <3>1 DEF SessionInv, MatrixInv
  <2>3. InOrder(mem)'
    <3>1. ThisVariant \in Int /\ \A v \in Variant : v \in Int
      BY InMatrix, PlanFacts DEF ThisVariant, Variant
    <3>2. SUFFICES ASSUME NEW v \in Variant, NEW w \in Variant, v < w,
                          mem'.variants[w] \notin {"pending", "skipped"}
                   PROVE  mem'.variants[v] = "built"
      BY DEF InOrder
    <3>3. w <= ThisVariant
      BY <2>2, <3>1, <3>2
    <3> QED BY <2>2, <3>1, <3>2, <3>3
  <2>4. Honest(mem)'
    BY DEF Honest
  <2>5. \A r \in Runs : InOrder(disk[r])' /\ Honest(disk[r])'
    BY DEF SessionInv, MatrixInv, InOrder, Honest
  <2> QED BY <2>1, <2>2, <2>3, <2>4, <2>5 DEF MatrixInv
<1> QED BY <1>2, <1>3, <1>4, <1>5, <1>6 DEF RecordsInv

(* So does one that leaves the report alone. *)
LEMMA QuietStep ==
    ASSUME SessionInv, Resume \in Matrix \/ ctx \in {"run", "variant"},
           ctx' \in {"run", "variant"}, pc' \notin {"latest", "result", "idle"},
           UNCHANGED <<disk, events, result, latest, made, cur, plan, at, mem>>,
           Resume' = "nextItem" => Resume = "nextItem" \/ plan[at] # "variant",
           Resume' \in {"step", "after", "nextItem"} =>
              Resume \in {"step", "after", "nextItem"} \/ mem.stage = "passed"
    PROVE  RecordsInv'
<1>1. mem' \in Report /\ mem'.status = "running"
  BY InMatrix
<1>2. /\ Resume' = "nextItem" /\ plan[at] = "variant" =>
           mem'.variants[ThisVariant] = "built"
      /\ Resume' \in {"step", "after", "nextItem"} => mem'.stage \in {"none", "passed"}
  BY DEF SessionInv, MatrixInv
<1> QED BY <1>1, <1>2, MatrixStep

(* An exception, or an exit, leaves all that is on record alone. *)
LEMMA ThrowStep ==
    ASSUME SessionInv, pc # "idle", pc' \in {"throw", "exit"},
           UNCHANGED <<disk, events, result, latest, made, cur, plan, at, mem, ctx>>
    PROVE  RecordsInv'
<1>1. FileTypes' /\ LogLeads'
  BY DEF SessionInv, FileTypes, LogLeads
<1>2. ReportInv' /\ LogInv'
  BY DEF SessionInv, ReportInv, LogInv, Writing
<1>3. BirthInv'
  BY DEF SessionInv, BirthInv, Stuck, Writing
<1>4. MatrixInv'
  BY DEF SessionInv, MatrixInv, InOrder, Honest, Resume, ThisVariant
<1> QED BY <1>1, <1>2, <1>3, <1>4 DEF RecordsInv

(* A step of a command, of a signal or of the checkout leaves the runner and
   its records where they are. *)
LEMMA FrameStep ==
    ASSUME SessionInv,
           UNCHANGED <<files, cur, mem, work, pc, cont, ctx, pending, err, child>>
    PROVE  RecordsInv' /\ WorkTypes' /\ ControlInv' /\ PlanInv'
<1>1. FileTypes' /\ LogLeads' /\ WorkTypes' /\ PlanInv'
  BY DEF SessionInv, FileTypes, LogLeads, WorkTypes, PlanInv, Resume, files, work
<1>2. ReportInv' /\ LogInv'
  BY DEF SessionInv, ReportInv, LogInv, Writing, files
<1>3. BirthInv'
  BY DEF SessionInv, BirthInv, Stuck, Writing, files
<1>4. MatrixInv'
  BY DEF SessionInv, MatrixInv, InOrder, Honest, Resume, ThisVariant, files, work
<1>5. ControlInv'
  BY DEF SessionInv, ControlInv, Resume
<1> QED BY <1>1, <1>2, <1>3, <1>4, <1>5 DEF RecordsInv

(* A stage is put on record as begun or as ended. *)
LEMMA StageStep ==
    ASSUME SessionInv, Resume \in Matrix, NEW CONSTANT s \in StageStatus,
           mem' = [mem EXCEPT !.stage = s], pc' = "event",
           cont' \in {"launch", "stageEnd"}, ctx' \in {"run", "variant"},
           UNCHANGED <<disk, events, result, latest, made, cur, plan, at>>
    PROVE  RecordsInv' /\ mem' \in Report
<1>1. mem \in Report /\ mem.status = "running"
  BY InMatrix
<1>2. mem' \in Report /\ mem'.status = "running" /\ mem'.variants = mem.variants
  BY <1>1, StageChange
<1>3. Resume' \in {"launch", "stageEnd"}
  BY DEF Resume
<1> QED BY <1>2, <1>3, MatrixStep

(* The process of the runner is gone. *)
LEMMA GoneStep ==
    ASSUME SessionInv, RunnerGone, UNCHANGED files
    PROVE  RecordsInv' /\ WorkTypes' /\ ControlInv' /\ PlanInv'
<1>1. /\ pc' = "idle" /\ ctx' = "setup" /\ mem' = NoReport /\ cur' = 0 /\ at' = 1
      /\ plan' = <<>> /\ mirror' = 1 /\ child' = "none" /\ Resume' = "idle"
      /\ cont' = "idle"
  BY DEF RunnerGone, Resume
<1>2. FileTypes' /\ LogLeads' /\ ReportInv' /\ LogInv'
  BY <1>1 DEF SessionInv, FileTypes, LogLeads, ReportInv, LogInv, Writing, files
<1>3. BirthInv'
  BY <1>1 DEF SessionInv, BirthInv, Stuck, Writing, files
<1>4. InOrder(NoReport) /\ Honest(NoReport)
  BY NewReportType DEF InOrder, Honest
<1>5. MatrixInv'
  BY <1>1, <1>4 DEF SessionInv, MatrixInv, InOrder, Honest, files
<1>6. WorkTypes' /\ ControlInv' /\ PlanInv'
  <2>1. 1 \in 1 .. (Len(<<>>) + 1) /\ 1 \in 1 .. (Mirrors + 1) /\ 0 \in 0 .. made'
    BY BuildAssumption DEF SessionInv, FileTypes, files
  <2> QED BY <1>1, <2>1 DEF WorkTypes, ControlInv, PlanInv, Labels, Matrix, Stages
<1> QED BY <1>2, <1>3, <1>5, <1>6 DEF RecordsInv

(* The report is closed and its closing event is about to be logged. *)
LEMMA CloseStep ==
    ASSUME SessionInv, ctx = "run",
           NEW CONSTANT s \in {"built", "prepared", "failed", "interrupted"},
           Honest(Closed(mem, s)), mem' = Closed(mem, s), pending' = s,
           cont' = "result", pc' = "event", ctx' = "finish",
           UNCHANGED <<disk, events, result, latest, made, cur, plan, at>>
    PROVE  RecordsInv' /\ mem' \in Report
<1>1. mem \in Report /\ cur \in Runs /\ latest = cur /\ pc # "idle"
  BY InMatrix
<1>2. InOrder(mem)
  BY DEF SessionInv, MatrixInv
<1>3. mem' \in Report /\ mem'.status = s /\ InOrder(mem')
  BY <1>1, <1>2, ClosedFacts
<1>4. Resume' = "result" /\ s \in Terminal
  BY DEF Resume, Terminal
<1>5. FileTypes' /\ LogLeads' /\ ReportInv'
  BY <1>1, <1>3, <1>4 DEF SessionInv, FileTypes, LogLeads, ReportInv
<1>6. LogInv' /\ BirthInv'
  BY <1>1, <1>3 DEF SessionInv, LogInv, BirthInv, Stuck
<1>7. MatrixInv'
  BY <1>3, <1>4 DEF SessionInv, MatrixInv, InOrder, Honest
<1> QED BY <1>3, <1>5, <1>6, <1>7 DEF RecordsInv

(* Whoever writes has a report of a run of its own. *)
LEMMA WriterFacts ==
    ASSUME SessionInv, Writing
    PROVE  /\ cur \in Runs /\ cur <= made /\ mem \in Report /\ pc # "idle"
           /\ ctx = "setup" => mem = NewReport
           /\ ctx \in {"setup", "run", "variant"} => mem.status = "running"
           /\ ctx \in {"recover", "finish"} => mem.status \in Terminal
<1>1. pc # "idle" /\ ctx \in {"setup", "recover", "run", "variant", "finish"}
  BY DEF Writing, SessionInv, HandlerTypes
<1>2. cur \in Runs /\ mem \in Report /\ cur <= made
  BY <1>1 DEF SessionInv, ReportInv, WorkTypes, FileTypes, Runs
<1>3. ctx = "setup" => mem = NewReport /\ mem.status = "running"
  BY <1>1, NewReportType DEF SessionInv, ReportInv
<1> QED BY <1>1, <1>2, <1>3 DEF SessionInv, ReportInv, Terminal

----------------------------------------------------------------------------
(* Preservation: one step per action *)

(* Every step of the runner, of a command, a signal or a crash keeps it. *)
LEMMA StepKeepsInv == SessionInv /\ [Next]_vars => SessionInv'
<1> SUFFICES ASSUME SessionInv, [Next]_vars PROVE SessionInv'
  OBVIOUS
<1>1. CASE StartRun
  <2>1. pc = "idle" /\ pc' = "recover" /\ ctx = "setup" /\ ctx' = "recover" /\ at = 1
    BY <1>1 DEF StartRun, LockFree, SessionInv, ControlInv, PlanInv
  <2>2. FileTypes' /\ LogLeads' /\ ReportInv' /\ LogInv'
    BY <1>1, <2>1 DEF StartRun, SessionInv, FileTypes, LogLeads, ReportInv, LogInv,
       Writing, files
  <2>3. BirthInv' /\ MatrixInv'
    BY <1>1, <2>1 DEF StartRun, SessionInv, BirthInv, Stuck, MatrixInv, InOrder, Honest,
       Resume, Writing, files
  <2>4. WorkTypes'
    BY <1>1, <2>1, PlanFacts, BuildAssumption DEF SessionInv, WorkTypes,
       StartRun, LockFree, files, work
  <2>5. HandlerTypes' /\ OneOwner'
    BY <1>1, <2>1, PlanFacts DEF SessionInv, HandlerTypes, OneOwner, StartRun,
       LockFree, procs
  <2>6. ControlInv' /\ PlanInv'
    BY <1>1, <2>1 DEF SessionInv, ControlInv, PlanInv, HandlerTypes, StartRun,
       LockFree, Labels, Resume, Matrix, Stages, procs, work
  <2> QED BY <2>2, <2>3, <2>4, <2>5, <2>6 DEF SessionInv
<1>2. CASE WriteEvent
  <2>1. cur \in Runs /\ mem \in Report /\ pc # "idle"
    BY <1>2, WriterFacts DEF WriteEvent, Writing
  <2>2. /\ \A r \in Runs : events[r] \subseteq events'[r]
        /\ pending \in Terminal => pending \in events'[cur]
        /\ events' \in [Runs -> SUBSET Terminal]
    BY <1>2, <2>1 DEF WriteEvent, SessionInv, FileTypes
  <2>3. FileTypes' /\ LogLeads' /\ LogInv'
    BY <1>2, <2>1, <2>2 DEF WriteEvent, Goto, SessionInv, FileTypes, LogLeads, LogInv
  <2>4. ReportInv' /\ BirthInv'
    BY <1>2, <2>1 DEF WriteEvent, Goto, SessionInv, ReportInv, BirthInv, Stuck, Writing
  <2>5. MatrixInv'
    BY <1>2 DEF WriteEvent, Goto, SessionInv, MatrixInv, InOrder, Honest, Resume,
       ThisVariant, work
  <2>6. WorkTypes'
    BY <1>2, BuildAssumption DEF SessionInv, WorkTypes, WriteEvent, Goto, files,
       work
  <2>7. HandlerTypes' /\ OneOwner'
    BY <1>2 DEF SessionInv, HandlerTypes, OneOwner, WriteEvent, Goto, procs
  <2>8. ControlInv' /\ PlanInv'
    BY <1>2 DEF SessionInv, ControlInv, PlanInv, HandlerTypes, WriteEvent, Goto,
       Labels, Resume, Matrix, Stages, procs, work
  <2> QED BY <2>3, <2>4, <2>5, <2>6, <2>7, <2>8 DEF SessionInv
<1>3. CASE WriteSummary
  <2>1. /\ cur \in Runs /\ mem \in Report /\ pc # "idle" /\ cur <= made
        /\ ctx = "setup" => mem = NewReport
        /\ ctx \in {"setup", "run", "variant"} => mem.status \notin Terminal
    BY <1>3, WriterFacts DEF WriteSummary, Writing, Terminal
  <2>2. disk'[cur] = mem /\ \A r \in Runs : r # cur => disk'[r] = disk[r]
    BY <1>3, <2>1 DEF WriteSummary, SessionInv, FileTypes
  <2>3. pc' = IF ctx = "recover" THEN "result" ELSE "latest"
    BY <1>3 DEF WriteSummary, Goto
  <2>4. FileTypes'
    BY <1>3, <2>1 DEF WriteSummary, SessionInv, FileTypes
  <2>5. LogLeads'
    <3>1. result[cur] = "none"
      BY <1>3, <2>1 DEF WriteSummary, SessionInv, LogInv, LogLeads, FileTypes
    <3> QED BY <1>3, <2>1, <2>2, <3>1 DEF WriteSummary, SessionInv, LogLeads, LogInv
  <2>6. ReportInv' /\ LogInv'
    <3>1. \A r \in Runs : r > made => r # cur
      BY <2>1 DEF SessionInv, FileTypes, Runs
    <3>2. ReportInv'
      BY <1>3, <2>1, <2>2, <2>3, <3>1 DEF WriteSummary, Goto, SessionInv, ReportInv,
         Writing
    <3>3. LogInv'
      BY <1>3, <2>1, <2>2, <2>3 DEF WriteSummary, Goto, SessionInv, LogInv
    <3> QED BY <3>2, <3>3
  <2>7. BirthInv'
    <3>1. Stuck(cur)' => cur = latest /\ ctx # "recover"
      BY <1>3, <2>1, <2>2 DEF WriteSummary, SessionInv, BirthInv,
         ReportInv, Stuck, Writing, HandlerTypes
    <3>2. \A r \in Runs : r # cur => (Stuck(r)' <=> Stuck(r))
      BY <1>3, <2>2 DEF WriteSummary, Stuck
    <3>3. ctx = "recover" => latest \in {0, cur} /\ 0 \notin Runs
      BY <1>3 DEF WriteSummary, SessionInv, BirthInv, Writing, Runs
    <3>4. /\ latest' = latest /\ cur' = cur /\ ctx' = ctx /\ pc' # "enter"
      BY <1>3, <2>3 DEF WriteSummary
    <3> QED BY <2>1, <2>3, <3>1, <3>2, <3>3, <3>4 DEF SessionInv, BirthInv, Writing
  <2>8. MatrixInv'
    <3>1. \A r \in Runs : InOrder(disk[r])' /\ Honest(disk[r])'
      BY <1>3, <2>2 DEF WriteSummary, SessionInv, MatrixInv, InOrder, Honest
    <3> QED BY <1>3, <2>3, <3>1 DEF WriteSummary, Goto, SessionInv, MatrixInv, InOrder,
            Honest, Resume, ThisVariant, work
  <2>9. WorkTypes'
    BY <1>3, BuildAssumption DEF SessionInv, WorkTypes, WriteSummary, Goto,
       files, work
  <2>10. HandlerTypes' /\ OneOwner'
    BY <1>3 DEF SessionInv, HandlerTypes, OneOwner, WriteSummary, Goto, procs
  <2>11. ControlInv' /\ PlanInv'
    <3>1. Resume = cont /\ Resume' = cont
      BY <1>3, <2>3 DEF WriteSummary, Goto, Resume
    <3>2. pc = "summary" /\ cont' = cont /\ ctx' = ctx /\ err' = err /\ child' = child /\ pc' # "idle"
      BY <1>3, <2>3 DEF WriteSummary, Goto, procs
    <3>3. ControlInv'
      BY <2>1, <2>3, <3>1, <3>2 DEF SessionInv, ControlInv, Labels
    <3>4. PlanInv'
      BY <1>3, <2>1, <3>1, <3>2 DEF SessionInv, PlanInv, WriteSummary, work
    <3> QED BY <3>3, <3>4
  <2> QED BY <2>4, <2>5, <2>6, <2>7, <2>8, <2>9, <2>10, <2>11 DEF SessionInv
<1>4. CASE WriteLatest
  <2>1. cur \in Runs /\ mem \in Report /\ pc # "idle" /\ cur <= made
    BY <1>4, WriterFacts DEF WriteLatest, Writing
  <2>2. /\ Resume = cont /\ pc' = cont /\ cont' = cont
        /\ pc' \notin {"event", "summary", "latest", "idle"}
        /\ pc' = "result" => ctx = "finish"
        /\ ctx' = ctx /\ Resume' = Resume
    BY <1>4 DEF WriteLatest, Goto, SessionInv, ControlInv, HandlerTypes, Resume, Matrix,
       Stages
  <2>3. FileTypes' /\ LogLeads'
    BY <1>4, <2>1 DEF WriteLatest, SessionInv, FileTypes, LogLeads
  <2>4. ReportInv' /\ LogInv'
    BY <1>4, <2>1, <2>2 DEF WriteLatest, Goto, SessionInv, ReportInv, LogInv, Writing
  <2>5. BirthInv'
    BY <1>4, <2>1, <2>2 DEF WriteLatest, Goto, SessionInv, BirthInv, Stuck, Writing
  <2>6. MatrixInv'
    BY <1>4, <2>2 DEF WriteLatest, Goto, SessionInv, MatrixInv, InOrder, Honest,
       ThisVariant, work
  <2>7. WorkTypes'
    BY <1>4 DEF SessionInv, WorkTypes, WriteLatest, Goto, work
  <2>8. HandlerTypes' /\ OneOwner'
    BY <1>4, <2>1 DEF SessionInv, HandlerTypes, OneOwner, WriteLatest, Goto, procs
  <2>9. ControlInv' /\ PlanInv'
    <3>1. pc' = "result" => cont' = "result"
      BY <2>2
    <3>2. Resume' = "drain" => pc' = "drain"
      BY <2>2
    <3> QED BY <1>4, <2>1, <2>2, <3>1, <3>2 DEF SessionInv, ControlInv, PlanInv,
            WriteLatest, Goto, procs, work
  <2> QED BY <2>3, <2>4, <2>5, <2>6, <2>7, <2>8, <2>9 DEF SessionInv
<1>5. CASE WriteResult
  <2>1. /\ cur \in Runs /\ mem \in Report /\ pc # "idle" /\ cur <= made
        /\ mem.status \in Terminal /\ disk[cur] = mem
    BY <1>5, WriterFacts DEF WriteResult, Writing, SessionInv, ControlInv, LogInv
  <2>2. pc' = IF ctx = "recover" THEN "latest" ELSE "exit"
    BY <1>5 DEF WriteResult, Goto
  <2>3. FileTypes' /\ LogLeads'
    BY <1>5, <2>1 DEF WriteResult, SessionInv, FileTypes, LogLeads
  <2>4. ReportInv' /\ LogInv'
    <3>1. \A r \in Runs : r > made => r # cur
      BY <2>1 DEF SessionInv, FileTypes, Runs
    <3>2. ReportInv'
      BY <1>5, <2>1, <2>2, <3>1 DEF WriteResult, Goto, SessionInv, ReportInv, FileTypes,
         Writing
    <3>3. LogInv'
      BY <1>5, <2>1, <2>2 DEF WriteResult, Goto, SessionInv, LogInv
    <3> QED BY <3>2, <3>3
  <2>5. BirthInv'
    BY <1>5, <2>1, <2>2 DEF WriteResult, Goto, SessionInv, BirthInv, Stuck, Writing
  <2>6. MatrixInv'
    BY <1>5, <2>2 DEF WriteResult, Goto, SessionInv, ControlInv, MatrixInv, InOrder,
       Honest, Resume, ThisVariant, work
  <2>7. WorkTypes'
    BY <1>5, BuildAssumption DEF SessionInv, WorkTypes, WriteResult, Goto, files,
       work
  <2>8. HandlerTypes' /\ OneOwner'
    BY <1>5 DEF SessionInv, HandlerTypes, OneOwner, WriteResult, Goto, procs
  <2>9. ControlInv' /\ PlanInv'
    BY <1>5 DEF SessionInv, ControlInv, PlanInv, HandlerTypes, WriteResult, Goto,
       Labels, Resume, Matrix, Stages, procs, work
  <2> QED BY <2>3, <2>4, <2>5, <2>6, <2>7, <2>8, <2>9 DEF SessionInv
<1>6. CASE Unwind
  <2>1. pc # "idle" /\ err \in {"failed", "interrupted"} /\ child # "alive"
    BY <1>6 DEF Unwind, SessionInv, ControlInv, HandlerTypes, Resume
  <2>2. CASE ctx = "variant"
    <3>1. /\ mem' = [mem EXCEPT !.variants[ThisVariant] = err]
          /\ ctx' = "run" /\ pc' = "event" /\ cont' = "throw"
      BY <1>6, <2>2 DEF Unwind, Record
    <3>2. /\ mem \in Report /\ mem.status = "running" /\ plan \in {PrepPlan, BuildPlan}
          /\ cur \in Runs /\ at \in Nat \ {0}
      BY <2>2, InMatrix
    <3>3. ThisVariant \in Variant
      <4>1. at <= Len(plan) /\ plan[at] = "variant" /\ Len(plan) \in Nat
        BY <2>2, <3>2, PlanFacts DEF SessionInv, PlanInv
      <4> QED BY <3>2, <4>1, VariantItem
    <3>4. /\ mem' \in Report /\ mem'.status = mem.status
          /\ \A w \in Variant : w # ThisVariant => mem'.variants[w] = mem.variants[w]
      <4>1. err \in VariantStatus
        BY <2>1 DEF VariantStatus
      <4>2. mem' = [mem EXCEPT !.variants[ThisVariant] = err]
        BY <3>1
      <4> QED BY <3>2, <3>3, <4>1, <4>2, VariantChange
    <3>5. Resume' = "throw"
      BY <3>1 DEF Resume
    <3>6. RecordsInv'
      BY <1>6, <2>2, <3>1, <3>2, <3>4, <3>5, MatrixStep DEF Unwind, files, work
    <3>7. WorkTypes' /\ HandlerTypes' /\ OneOwner'
      BY <1>6, <2>1, <2>2, <3>1, <3>4 DEF SessionInv, WorkTypes, HandlerTypes, OneOwner,
         Unwind, Record, files, work, procs
    <3>8. ControlInv' /\ PlanInv'
      BY <1>6, <2>1, <2>2, <3>1, <3>2, <3>5 DEF SessionInv, ControlInv, PlanInv, Unwind,
         Record, Labels, Matrix, Stages, procs, work
    <3> QED BY <3>6, <3>7, <3>8 DEF SessionInv, RecordsInv
  <2>3. CASE ctx = "run"
    <3>1. /\ mem' = Closed(mem, err) /\ pending' = err
          /\ ctx' = "finish" /\ pc' = "event" /\ cont' = "result"
      BY <1>6, <2>3 DEF Unwind, Record
    <3>2. Closed(mem, err).status = err
      <4>1. mem \in Report /\ InOrder(mem)
        BY <2>3, InMatrix DEF SessionInv, MatrixInv
      <4> QED BY <2>1, <4>1, ClosedFacts
    <3>3. Honest(Closed(mem, err))
      BY <2>1, <3>2 DEF Honest
    <3>4. RecordsInv' /\ mem' \in Report
      <4>1. PICK s \in {"failed", "interrupted"} : s = err
        BY <2>1
      <4> QED BY <1>6, <2>3, <3>1, <3>3, <4>1, CloseStep DEF Unwind, files, work
    <3>5. cur \in Runs
      BY <2>3, InMatrix
    <3>6. WorkTypes' /\ HandlerTypes' /\ OneOwner'
      BY <1>6, <2>1, <2>3, <3>1, <3>4 DEF SessionInv, WorkTypes, HandlerTypes, OneOwner,
         Unwind, Record, files, work, procs
    <3>7. ControlInv' /\ PlanInv'
      BY <1>6, <2>1, <2>3, <3>1 DEF SessionInv, ControlInv, PlanInv, Unwind, Record,
         Labels, Resume, Matrix, Stages, procs, work
    <3> QED BY <3>4, <3>6, <3>7 DEF SessionInv, RecordsInv
  <2>4. CASE ctx \in {"setup", "recover", "finish"}
    <3>1. pc' = "exit" /\ ctx' = ctx /\ mem' = mem /\ Resume' = "exit"
      BY <1>6, <2>4 DEF Unwind, Goto, Resume
    <3>2. RecordsInv'
      BY <1>6, <2>1, <3>1, ThrowStep DEF Unwind, files, work
    <3>3. WorkTypes' /\ HandlerTypes' /\ OneOwner'
      BY <1>6, <2>1, <2>4, <3>1 DEF SessionInv, WorkTypes, HandlerTypes, OneOwner, Unwind,
         Goto, files, work, procs
    <3>4. ControlInv' /\ PlanInv'
      BY <1>6, <2>1, <2>4, <3>1 DEF SessionInv, ControlInv, PlanInv, Unwind, Goto, Labels,
         Matrix, Stages, procs, work
    <3> QED BY <3>2, <3>3, <3>4 DEF SessionInv, RecordsInv
  <2> QED BY <1>6, <2>2, <2>3, <2>4 DEF Unwind
<1>7. CASE Exit
  <2>1. RecordsInv' /\ WorkTypes' /\ ControlInv' /\ PlanInv'
    BY <1>7, GoneStep DEF Exit
  <2>2. HandlerTypes' /\ OneOwner'
    BY <1>7 DEF SessionInv, HandlerTypes, OneOwner, Exit, RunnerGone
  <2> QED BY <2>1, <2>2 DEF SessionInv, RecordsInv
<1>8. CASE Recover
  <2>1. /\ pc # "idle" /\ ctx = "recover" /\ ctx' = ctx /\ child # "alive"
        /\ disk' = disk /\ events' = events /\ result' = result /\ latest' = latest
        /\ made' = made /\ strays' = strays
    BY <1>8 DEF Recover, SessionInv, ControlInv, HandlerTypes, Resume, Matrix, Stages,
       files, procs
  <2>2. FileTypes' /\ LogLeads'
    BY <2>1 DEF SessionInv, FileTypes, LogLeads
  <2>3. HandlerTypes' /\ OneOwner'
    BY <1>8, <2>1 DEF SessionInv, HandlerTypes, OneOwner, Recover, Record, Goto, procs
  <2>4. ControlInv' /\ PlanInv'
    BY <1>8, <2>1 DEF SessionInv, ControlInv, PlanInv, Recover, Record, Goto, Labels,
       Resume, Matrix, Stages, procs, work
  <2>5. CASE Stale
    <3>1. /\ cur' = Selected /\ mem' = Abandoned(disk[Selected])
          /\ pending' = "abandoned" /\ pc' = "event" /\ cont' = "create"
      BY <1>8, <2>5 DEF Recover, Record
    <3>2. /\ Selected \in Runs /\ disk[Selected].status = "running"
          /\ latest \in {0, Selected}
      BY <2>5, StaleFacts DEF SessionInv
    <3>3. disk[Selected] \in Report /\ Selected <= made
      <4>1. disk[Selected] # NoReport
        BY <3>2, NewReportType
      <4>2. disk[Selected] \in Report \cup {NoReport} /\ made \in Nat /\ Selected \in Nat
        BY <3>2 DEF SessionInv, FileTypes, Runs
      <4>3. ~(Selected > made)
        BY <3>2, <4>1 DEF SessionInv, ReportInv
      <4> QED BY <4>1, <4>2, <4>3
    <3>4. /\ mem' \in Report /\ mem'.status = "abandoned" /\ InOrder(mem')
          /\ Honest(mem')
      <4>1. InOrder(disk[Selected])
        BY <3>2 DEF SessionInv, MatrixInv
      <4>2. mem' \in Report /\ mem'.status = "abandoned" /\ InOrder(mem')
        BY <3>1, <3>3, <4>1, AbandonedFacts
      <4> QED BY <4>2 DEF Honest
    <3>5. ReportInv'
      BY <2>1, <3>1, <3>2, <3>4 DEF SessionInv, ReportInv
    <3>6. LogInv' /\ BirthInv'
      BY <2>1, <3>1, <3>2, <3>4 DEF SessionInv, LogInv, BirthInv, Stuck, Terminal
    <3>7. MatrixInv'
      BY <2>1, <3>1, <3>4 DEF SessionInv, MatrixInv, InOrder, Honest, Resume
    <3>8. WorkTypes'
      BY <1>8, <2>1, <3>1, <3>2, <3>3, <3>4 DEF SessionInv, WorkTypes, FileTypes, Recover,
         Runs, work
    <3> QED BY <2>2, <2>3, <2>4, <3>5, <3>6, <3>7, <3>8 DEF SessionInv
  <2>6. CASE ~Stale
    <3>1. cur' = cur /\ mem' = mem /\ pc' = "create" /\ Resume' = "create"
      BY <1>8, <2>6 DEF Recover, Goto, Resume
    <3>2. \A r \in Runs : ~Stuck(r)
      <4>1. SUFFICES ASSUME NEW r \in Runs, Stuck(r) PROVE FALSE
        OBVIOUS
      <4>2. r = latest /\ r # 0
        BY <4>1 DEF SessionInv, BirthInv, Runs
      <4>3. Selected = r
        BY <4>2 DEF Selected
      <4> QED BY <2>6, <4>1, <4>2, <4>3 DEF Stale, Stuck
    <3>3. ReportInv' /\ LogInv'
      BY <2>1, <3>1 DEF SessionInv, ReportInv, LogInv, Writing
    <3>4. BirthInv'
      BY <2>1, <3>1, <3>2 DEF SessionInv, BirthInv, Stuck, Writing
    <3>5. MatrixInv'
      BY <2>1, <3>1 DEF SessionInv, MatrixInv, InOrder, Honest
    <3>6. WorkTypes'
      BY <1>8, <2>1, <3>1 DEF SessionInv, WorkTypes, Recover, work
    <3> QED BY <2>2, <2>3, <2>4, <3>3, <3>4, <3>5, <3>6 DEF SessionInv
  <2> QED BY <2>5, <2>6
<1>9. CASE Create
  <2>1. /\ ctx = "recover" /\ child # "alive" /\ at = 1 /\ made < MaxRuns
        /\ made \in Nat /\ \A r \in Runs : ~Stuck(r)
    BY <1>9 DEF Create, SessionInv, ControlInv, HandlerTypes, PlanInv, ReportInv,
       BirthInv, FileTypes, Resume, Matrix, Stages
  <2>2. /\ ctx' = "setup" /\ pc' = "event" /\ cont' = "enter" /\ mem' = NewReport
        /\ cur' = made + 1 /\ made' = made + 1 /\ disk' = disk /\ events' = events
        /\ result' = result /\ latest' = latest /\ Resume' = "enter"
    BY <1>9 DEF Create, Record, Resume
  <2>3. cur' \in Runs /\ made' \in 0 .. MaxRuns
    BY <2>1, <2>2, BuildAssumption DEF Runs
  <2>4. FileTypes' /\ LogLeads'
    BY <2>2, <2>3 DEF SessionInv, FileTypes, LogLeads
  <2>5. disk[made + 1] = NoReport
    BY <2>1, <2>2, <2>3 DEF SessionInv, ReportInv
  <2>6. ReportInv'
    <3>1. \A r \in Runs : r > made + 1 => r > made
      BY <2>1 DEF Runs
    <3>2. latest \in Nat /\ latest <= made
      BY DEF SessionInv, FileTypes, ReportInv, Runs
    <3> QED BY <2>1, <2>2, <2>3, <3>1, <3>2, NewReportType DEF SessionInv, ReportInv
  <2>7. LogInv' /\ BirthInv'
    BY <2>1, <2>2, <2>5, NewReportType DEF SessionInv, LogInv, BirthInv, Stuck,
       Terminal
  <2>8. MatrixInv'
    <3>1. at' = 1 /\ plan' = plan
      BY <1>9, <2>1 DEF Create, work
    <3>2. ThisVariant' \in Int /\ ThisVariant' <= 0 /\ \A v \in Variant : v \in Nat /\ v > 0
      BY <3>1, PlanFacts DEF ThisVariant, Variant
    <3>3. \A v \in Variant : ~(v < ThisVariant')
      BY <3>2
    <3>4. InOrder(NewReport) /\ Honest(NewReport)
      BY NewReportType DEF InOrder, Honest
    <3> QED BY <2>2, <3>3, <3>4, NewReportType DEF SessionInv, MatrixInv, InOrder,
            Honest
  <2>9. WorkTypes'
    BY <1>9, <2>1, <2>2, NewReportType DEF SessionInv, WorkTypes, Create, work
  <2>10. HandlerTypes' /\ OneOwner'
    BY <1>9, <2>1, <2>2 DEF SessionInv, HandlerTypes, OneOwner, Create, Record, procs
  <2>11. ControlInv' /\ PlanInv'
    BY <1>9, <2>1, <2>2 DEF SessionInv, ControlInv, PlanInv, HandlerTypes, Create, Record,
       Labels, Resume, Matrix, Stages, procs, work
  <2> QED BY <2>4, <2>6, <2>7, <2>8, <2>9, <2>10, <2>11 DEF SessionInv
<1>10. CASE Enter
  <2>1. /\ ctx = "setup" /\ pc # "idle" /\ child # "alive" /\ mem = NewReport
        /\ latest = cur
    BY <1>10 DEF Enter, SessionInv, ControlInv, HandlerTypes, ReportInv, BirthInv, Resume,
       Matrix, Stages
  <2>2. ctx' = "run" /\ pc' = "step" /\ Resume' = "step" /\ mem' = mem
    BY <1>10 DEF Enter, Goto, Resume
  <2>3. FileTypes' /\ LogLeads' /\ ReportInv' /\ LogInv'
    BY <1>10, <2>1, <2>2, NewReportType DEF Enter, SessionInv, FileTypes, LogLeads,
       ReportInv, LogInv, files
  <2>4. BirthInv'
    BY <1>10, <2>1, <2>2 DEF Enter, SessionInv, BirthInv, Stuck, files
  <2>5. MatrixInv'
    BY <1>10, <2>1, <2>2, NewReportType DEF Enter, SessionInv, MatrixInv, InOrder, Honest,
       ThisVariant, files, work
  <2>6. WorkTypes'
    BY <1>10, <2>1, BuildAssumption DEF SessionInv, WorkTypes, Enter, Goto, files,
       work
  <2>7. HandlerTypes' /\ OneOwner'
    BY <1>10, <2>1 DEF SessionInv, HandlerTypes, OneOwner, Enter, Goto, procs
  <2>8. ControlInv' /\ PlanInv'
    BY <1>10, <2>1 DEF SessionInv, ControlInv, PlanInv, HandlerTypes, Enter, Goto,
       Labels, Resume, Matrix, Stages, procs, work
  <2> QED BY <2>3, <2>4, <2>5, <2>6, <2>7, <2>8 DEF SessionInv
<1>11. CASE SetPhase
  <2>1. Resume \in Matrix /\ ctx \in {"run", "variant"} /\ cur \in Runs /\ mem \in Report
    BY <1>11, InMatrix DEF SetPhase, Item, Resume, Matrix, Stages
  <2>2. /\ mem' \in Report /\ mem'.status = mem.status /\ mem'.stage = mem.stage
        /\ mem'.variants = mem.variants
    BY <1>11, <2>1 DEF SetPhase, Record, Report, Phases
  <2>3. Resume = "step" /\ Resume' = "nextItem" /\ plan[at] = "phase" /\ pc' = "event"
    BY <1>11 DEF SetPhase, Item, Record, Resume
  <2>4. mem.status = "running" /\ mem.stage \in {"none", "passed"}
    BY <2>1, <2>3, InMatrix DEF SessionInv, MatrixInv
  <2>5. RecordsInv'
    BY <1>11, <2>1, <2>2, <2>3, <2>4, MatrixStep DEF SetPhase, files, work
  <2>6. WorkTypes'
    BY <1>11, <2>1, <2>2, BuildAssumption DEF SessionInv, WorkTypes, SetPhase,
       Item, Record, files, work
  <2>7. HandlerTypes' /\ OneOwner'
    BY <1>11, <2>1 DEF SessionInv, HandlerTypes, OneOwner, SetPhase, Item, Record,
       procs
  <2>8. ControlInv' /\ PlanInv'
    BY <1>11, <2>1 DEF SessionInv, ControlInv, PlanInv, SetPhase, Item, Record,
       Labels, Resume, Matrix, Stages, procs, work
  <2> QED BY <2>5, <2>6, <2>7, <2>8 DEF SessionInv, RecordsInv
<1>12. CASE SourceEdited
  <2>1. Resume \in Matrix /\ ctx \in {"run", "variant"} /\ cur \in Runs /\ mem \in Report
    BY <1>12, InMatrix DEF SourceEdited, Resume, Matrix, Stages
  <2>2. RecordsInv'
    BY <1>12, <2>1, ThrowStep, InMatrix DEF SourceEdited, Raise, files, work
  <2>3. WorkTypes'
    BY <1>12, <2>1, BuildAssumption DEF SessionInv, WorkTypes, SourceEdited,
       Raise, files, work
  <2>4. HandlerTypes' /\ OneOwner'
    BY <1>12, <2>1 DEF SessionInv, HandlerTypes, OneOwner, SourceEdited, Raise,
       procs
  <2>5. ControlInv' /\ PlanInv'
    BY <1>12, <2>1 DEF SessionInv, ControlInv, PlanInv, SourceEdited, Raise,
       Labels, Resume, Matrix, Stages, procs, work
  <2> QED BY <2>2, <2>3, <2>4, <2>5 DEF SessionInv, RecordsInv
<1>13. CASE PlainStage
  <2>1. Resume \in Matrix /\ ctx \in {"run", "variant"} /\ cur \in Runs /\ mem \in Report
    BY <1>13, InMatrix DEF PlainStage, Item, Resume, Matrix, Stages
  <2>2. RecordsInv'
    BY <1>13, <2>1, QuietStep DEF PlainStage, Item, Goto, Resume, Matrix, Stages,
       files, work
  <2>3. WorkTypes'
    BY <1>13, <2>1, BuildAssumption DEF SessionInv, WorkTypes, PlainStage, Item,
       Goto, files, work
  <2>4. HandlerTypes' /\ OneOwner'
    BY <1>13, <2>1 DEF SessionInv, HandlerTypes, OneOwner, PlainStage, Item, Goto,
       procs
  <2>5. ControlInv' /\ PlanInv'
    BY <1>13, <2>1 DEF SessionInv, ControlInv, PlanInv, PlainStage, Item, Goto,
       Labels, Resume, Matrix, Stages, procs, work
  <2> QED BY <2>2, <2>3, <2>4, <2>5 DEF SessionInv, RecordsInv
<1>14. CASE PlanInputs
  <2>1. Resume \in Matrix /\ ctx \in {"run", "variant"} /\ cur \in Runs /\ mem \in Report
    BY <1>14, InMatrix DEF PlanInputs, Item, Resume, Matrix, Stages
  <2>2. RecordsInv'
    BY <1>14, <2>1, QuietStep DEF PlanInputs, Item, Record, Raise, Resume, Matrix,
       Stages, files, work
  <2>3. WorkTypes'
    BY <1>14, <2>1, BuildAssumption DEF SessionInv, WorkTypes, PlanInputs, Item,
       Record, Raise, files, work
  <2>4. HandlerTypes' /\ OneOwner'
    BY <1>14, <2>1 DEF SessionInv, HandlerTypes, OneOwner, PlanInputs, Item,
       Record, Raise, procs
  <2>5. ControlInv' /\ PlanInv'
    BY <1>14, <2>1 DEF SessionInv, ControlInv, PlanInv, PlanInputs, Item, Record,
       Raise, Labels, Resume, Matrix, Stages, procs, work
  <2> QED BY <2>2, <2>3, <2>4, <2>5 DEF SessionInv, RecordsInv
<1>15. CASE Asset
  <2>1. Resume \in Matrix /\ ctx \in {"run", "variant"} /\ cur \in Runs /\ mem \in Report
    BY <1>15, InMatrix DEF Asset, Item, Resume, Matrix, Stages
  <2>2. RecordsInv'
    BY <1>15, <2>1, QuietStep DEF Asset, Item, Save, Raise, Goto, Resume, Matrix,
       Stages, files, work
  <2>3. WorkTypes'
    BY <1>15, <2>1, BuildAssumption DEF SessionInv, WorkTypes, Asset, Item, Save,
       Raise, Goto, files, work
  <2>4. HandlerTypes' /\ OneOwner'
    BY <1>15, <2>1 DEF SessionInv, HandlerTypes, OneOwner, Asset, Item, Save,
       Raise, Goto, procs
  <2>5. ControlInv' /\ PlanInv'
    BY <1>15, <2>1 DEF SessionInv, ControlInv, PlanInv, Asset, Item, Save, Raise,
       Goto, Labels, Resume, Matrix, Stages, procs, work
  <2> QED BY <2>2, <2>3, <2>4, <2>5 DEF SessionInv, RecordsInv
<1>16. CASE TryMirror
  <2>1. Resume \in Matrix /\ ctx \in {"run", "variant"} /\ cur \in Runs /\ mem \in Report
    BY <1>16, InMatrix DEF TryMirror, Resume, Matrix, Stages
  <2>2. RecordsInv'
    BY <1>16, <2>1, QuietStep DEF TryMirror, Raise, Goto, Resume, Matrix, Stages,
       files, work
  <2>3. WorkTypes'
    BY <1>16, <2>1, BuildAssumption DEF SessionInv, WorkTypes, TryMirror, Raise,
       Goto, files, work
  <2>4. HandlerTypes' /\ OneOwner'
    BY <1>16, <2>1 DEF SessionInv, HandlerTypes, OneOwner, TryMirror, Raise, Goto,
       procs
  <2>5. ControlInv' /\ PlanInv'
    BY <1>16, <2>1 DEF SessionInv, ControlInv, PlanInv, TryMirror, Raise, Goto,
       Labels, Resume, Matrix, Stages, procs, work
  <2> QED BY <2>2, <2>3, <2>4, <2>5 DEF SessionInv, RecordsInv
<1>17. CASE StartVariant
  <2>1. Resume \in Matrix /\ ctx \in {"run", "variant"} /\ cur \in Runs /\ mem \in Report
    BY <1>17, InMatrix DEF StartVariant, Item, Resume, Matrix, Stages
  <2>2. ThisVariant \in Variant
    BY <1>17, <2>1, InMatrix, VariantItem DEF StartVariant, Item, SessionInv, WorkTypes
  <2>3. mem' = [mem EXCEPT !.variants[ThisVariant] = "running"]
    BY <1>17 DEF StartVariant, Record
  <2>4. /\ mem' \in Report /\ mem'.status = mem.status
        /\ \A w \in Variant : w # ThisVariant => mem'.variants[w] = mem.variants[w]
    <3>1. "running" \in VariantStatus
      BY DEF VariantStatus
    <3> QED BY <2>1, <2>2, <2>3, <3>1, VariantChange
  <2>5. Resume' = "stage" /\ pc' = "event"
    BY <1>17 DEF StartVariant, Record, Resume
  <2>6. RecordsInv'
    BY <1>17, <2>1, <2>4, <2>5, InMatrix, MatrixStep DEF StartVariant, files, work
  <2>7. WorkTypes'
    BY <1>17, <2>1, <2>4, BuildAssumption DEF SessionInv, WorkTypes, StartVariant,
       Item, Record, files, work
  <2>8. HandlerTypes' /\ OneOwner'
    BY <1>17, <2>1 DEF SessionInv, HandlerTypes, OneOwner, StartVariant, Item,
       Record, procs
  <2>9. ControlInv' /\ PlanInv'
    BY <1>17, <2>1 DEF SessionInv, ControlInv, PlanInv, StartVariant, Item,
       Record, Labels, Resume, Matrix, Stages, procs, work
  <2> QED BY <2>6, <2>7, <2>8, <2>9 DEF SessionInv, RecordsInv
<1>18. CASE NextItem
  <2>1. Resume \in Matrix /\ ctx \in {"run", "variant"} /\ cur \in Runs /\ mem \in Report
    BY <1>18, InMatrix DEF NextItem, Resume, Matrix, Stages
  <2>2. FileTypes' /\ LogLeads' /\ ReportInv' /\ LogInv' /\ BirthInv'
    BY <1>18, <2>1, InMatrix DEF SessionInv, FileTypes, LogLeads, ReportInv, LogInv,
       BirthInv, Stuck, NextItem, Goto, Terminal, files
  <2>3. MatrixInv'
    <3>1. at \in 1 .. Len(plan) /\ plan \in {PrepPlan, BuildPlan}
      BY <1>18, <2>1, InMatrix DEF NextItem, Resume, Matrix
    <3>2. ThisVariant \in Int /\ ThisVariant' = ThisVariant + 1
      BY <1>18, <3>1, PlanFacts DEF NextItem, ThisVariant
    <3>3. ThisVariant \in Variant => mem.variants[ThisVariant] = "built"
      BY <1>18, <3>1, VariantItem DEF NextItem, SessionInv, MatrixInv, Resume
    <3>4. mem' = mem /\ disk' = disk /\ Resume' = "step" /\ Resume = "nextItem"
      BY <1>18 DEF NextItem, Goto, Resume, files
    <3>5. \A v \in Variant : /\ v < ThisVariant' => mem.variants[v] = "built"
                             /\ v > ThisVariant' => mem.variants[v] = "pending"
      <4>1. \A v \in Variant : v \in Int
        BY PlanFacts DEF Variant
      <4> QED BY <2>1, <3>2, <3>3, <4>1, InMatrix DEF SessionInv, MatrixInv
    <3> QED BY <3>4, <3>5 DEF SessionInv, MatrixInv, InOrder, Honest
  <2>4. RecordsInv'
    BY <2>2, <2>3 DEF RecordsInv
  <2>5. at \in 1 .. Len(plan)
    BY <1>18, <2>1, InMatrix DEF NextItem, Resume, Matrix
  <2>6. WorkTypes'
    BY <1>18, <2>1, <2>5, BuildAssumption, PlanFacts DEF SessionInv, WorkTypes, NextItem,
       Goto, files, work
  <2>7. HandlerTypes' /\ OneOwner'
    BY <1>18, <2>1 DEF SessionInv, HandlerTypes, OneOwner, NextItem, Goto, procs
  <2>8. ControlInv' /\ PlanInv'
    BY <1>18, <2>1 DEF SessionInv, ControlInv, PlanInv, NextItem, Goto, Labels,
       Resume, Matrix, Stages, procs, work
  <2> QED BY <2>4, <2>6, <2>7, <2>8 DEF SessionInv, RecordsInv
<1>19. CASE FinishRun
  <2>1. /\ ctx = "run" /\ Resume = "step" /\ child # "alive" /\ mem \in Report
        /\ plan \in {PrepPlan, BuildPlan}
    <3>1. Resume = "step" /\ Resume \in Matrix
      BY <1>19 DEF FinishRun, Resume, Matrix
    <3>2. ctx = "run" /\ child # "alive"
      BY <3>1, InMatrix DEF SessionInv, ControlInv, Stages
    <3> QED BY <3>1, <3>2, InMatrix
  <2>2. at = Len(plan) + 1
    BY <1>19, <2>1, PlanFacts DEF FinishRun, SessionInv, WorkTypes
  <2>3. PICK s \in {"built", "prepared"} :
          /\ s = "built" <=> plan = BuildPlan
          /\ mem' = Closed(mem, s) /\ pending' = s
    BY <1>19 DEF FinishRun, Record
  <2>4. /\ ctx' = "finish" /\ pc' = "event" /\ cont' = "result"
    BY <1>19 DEF FinishRun, Record
  <2>5. Honest(Closed(mem, s))
    <3>1. \A v \in Variant : v \in Nat /\ v > 0 /\ v <= Variants
      BY PlanFacts DEF Variant
    <3>2. \A v \in Variant : /\ v < ThisVariant => mem.variants[v] = "built"
                             /\ v > ThisVariant => mem.variants[v] = "pending"
      BY <2>1, InMatrix DEF SessionInv, MatrixInv
    <3>3. mem.stage \in {"none", "passed"} /\ InOrder(mem)
      BY <2>1 DEF SessionInv, MatrixInv
    <3>4. CASE s = "built"
      <4>1. ThisVariant = Variants + 1
        BY <2>2, <2>3, <3>4, PlanFacts DEF ThisVariant
      <4>2. \A v \in Variant : mem.variants[v] = "built"
        BY <3>1, <3>2, <4>1, PlanFacts
      <4> QED BY <2>1, <3>3, <3>4, <4>2, ClosedFacts DEF Honest
    <3>5. CASE s = "prepared"
      <4>1. ThisVariant = 0
        BY <2>1, <2>2, <2>3, <3>5, PlanFacts DEF ThisVariant
      <4>2. \A v \in Variant : mem.variants[v] = "pending"
        BY <3>1, <3>2, <4>1
      <4> QED BY <2>1, <3>3, <3>5, <4>2, ClosedFacts DEF Honest
    <3> QED BY <3>4, <3>5
  <2>6. RecordsInv' /\ mem' \in Report
    BY <1>19, <2>1, <2>3, <2>4, <2>5, CloseStep DEF FinishRun, files, work
  <2>7. WorkTypes' /\ HandlerTypes' /\ OneOwner'
    BY <1>19, <2>1, <2>4, <2>6 DEF SessionInv, WorkTypes, HandlerTypes, OneOwner,
       FinishRun, Record, files, work, procs
  <2>8. ControlInv' /\ PlanInv'
    BY <1>19, <2>1, <2>4 DEF SessionInv, ControlInv, PlanInv, FinishRun, Record, Labels,
       Resume, Matrix, Stages, procs, work
  <2> QED BY <2>6, <2>7, <2>8 DEF SessionInv, RecordsInv
<1>20. CASE BeginStage
  <2>1. Resume \in Matrix /\ ctx \in {"run", "variant"} /\ cur \in Runs /\ mem \in Report
    BY <1>20, InMatrix DEF BeginStage, Resume, Matrix, Stages
  <2>2. ctx' \in {"run", "variant"}
    BY <1>20, <2>1 DEF BeginStage
  <2>3. RecordsInv' /\ mem' \in Report
    <3>1. CASE source = "clean"
      BY <1>20, <2>1, <2>2, <3>1, StageStep DEF BeginStage, Record, StageStatus, files,
         work
    <3>2. CASE source # "clean"
      BY <1>20, <2>1, <2>2, <3>2, QuietStep DEF BeginStage, Raise, Resume, files, work
    <3> QED BY <3>1, <3>2
  <2>4. WorkTypes'
    BY <1>20, <2>1, <2>3, BuildAssumption DEF SessionInv, WorkTypes, BeginStage,
       Record, Raise, files, work
  <2>5. HandlerTypes' /\ OneOwner'
    BY <1>20, <2>1 DEF SessionInv, HandlerTypes, OneOwner, BeginStage, Record,
       Raise, procs
  <2>6. ControlInv' /\ PlanInv'
    BY <1>20, <2>1, InMatrix DEF SessionInv, ControlInv, PlanInv, BeginStage,
       Record, Raise, Labels, Resume, Matrix, Stages, procs, work
  <2> QED BY <2>3, <2>4, <2>5, <2>6 DEF SessionInv, RecordsInv
<1>21. CASE Launch
  <2>1. Resume \in Matrix /\ ctx \in {"run", "variant"} /\ cur \in Runs /\ mem \in Report
    BY <1>21, InMatrix DEF Launch, Resume, Matrix, Stages
  <2>2. RecordsInv'
    BY <1>21, <2>1, QuietStep DEF Launch, Save, Resume, Matrix, Stages, files,
       work
  <2>3. WorkTypes'
    BY <1>21, <2>1, BuildAssumption DEF SessionInv, WorkTypes, Launch, Save,
       files, work
  <2>4. HandlerTypes' /\ OneOwner'
    BY <1>21, <2>1 DEF SessionInv, HandlerTypes, OneOwner, Launch, Save, procs
  <2>5. ControlInv' /\ PlanInv'
    BY <1>21, <2>1 DEF SessionInv, ControlInv, PlanInv, Launch, Save, Labels,
       Resume, Matrix, Stages, procs, work
  <2> QED BY <2>2, <2>3, <2>4, <2>5 DEF SessionInv, RecordsInv
<1>22. CASE LaunchFails
  <2>1. Resume \in Matrix /\ ctx \in {"run", "variant"} /\ cur \in Runs /\ mem \in Report
    BY <1>22, InMatrix DEF LaunchFails, Resume, Matrix, Stages
  <2>2. RecordsInv' /\ mem' \in Report
    BY <1>22, <2>1, StageStep DEF LaunchFails, EndStage, Record, StageStatus, files, work
  <2>3. WorkTypes'
    BY <1>22, <2>1, <2>2, BuildAssumption DEF SessionInv, WorkTypes, LaunchFails,
       EndStage, Record, files, work
  <2>4. HandlerTypes' /\ OneOwner'
    BY <1>22, <2>1 DEF SessionInv, HandlerTypes, OneOwner, LaunchFails, EndStage,
       Record, procs
  <2>5. ControlInv' /\ PlanInv'
    BY <1>22, <2>1 DEF SessionInv, ControlInv, PlanInv, LaunchFails, EndStage,
       Record, Labels, Resume, Matrix, Stages, procs, work
  <2> QED BY <2>2, <2>3, <2>4, <2>5 DEF SessionInv, RecordsInv
<1>23. CASE StageEnd
  <2>1. Resume \in Matrix /\ ctx \in {"run", "variant"} /\ cur \in Runs /\ mem \in Report
    BY <1>23, InMatrix DEF StageEnd, Resume, Matrix, Stages
  <2>2. RecordsInv'
    BY <1>23, <2>1, QuietStep DEF StageEnd, Raise, Goto, Resume, Matrix, Stages,
       files, work
  <2>3. WorkTypes'
    BY <1>23, <2>1, BuildAssumption DEF SessionInv, WorkTypes, StageEnd, Raise,
       Goto, files, work
  <2>4. HandlerTypes' /\ OneOwner'
    BY <1>23, <2>1 DEF SessionInv, HandlerTypes, OneOwner, StageEnd, Raise, Goto,
       procs
  <2>5. plan[at] # "variant" => ctx = "run"
    BY <2>1 DEF SessionInv, PlanInv
  <2>6. ControlInv' /\ PlanInv'
    BY <1>23, <2>1, <2>5 DEF SessionInv, ControlInv, PlanInv, StageEnd, Raise, Goto,
       Labels, Resume, Matrix, Stages, procs, work
  <2> QED BY <2>2, <2>3, <2>4, <2>6 DEF SessionInv, RecordsInv
<1>24. CASE AfterPlain
  <2>1. Resume \in Matrix /\ ctx \in {"run", "variant"} /\ cur \in Runs /\ mem \in Report
    BY <1>24, InMatrix DEF AfterPlain, Resume, Matrix, Stages
  <2>2. RecordsInv'
    BY <1>24, <2>1, QuietStep DEF AfterPlain, Goto, Resume, Matrix, Stages, files,
       work
  <2>3. WorkTypes'
    BY <1>24, <2>1, BuildAssumption DEF SessionInv, WorkTypes, AfterPlain, Goto,
       files, work
  <2>4. HandlerTypes' /\ OneOwner'
    BY <1>24, <2>1 DEF SessionInv, HandlerTypes, OneOwner, AfterPlain, Goto, procs
  <2>5. plan[at] # "variant" => ctx = "run"
    BY <2>1 DEF SessionInv, PlanInv
  <2>6. ControlInv' /\ PlanInv'
    BY <1>24, <2>1, <2>5 DEF SessionInv, ControlInv, PlanInv, AfterPlain, Goto, Labels,
       Resume, Matrix, Stages, procs, work
  <2> QED BY <2>2, <2>3, <2>4, <2>6 DEF SessionInv, RecordsInv
<1>25. CASE AfterFetch
  <2>1. Resume \in Matrix /\ ctx \in {"run", "variant"} /\ cur \in Runs /\ mem \in Report
    BY <1>25, InMatrix DEF AfterFetch, Resume, Matrix, Stages
  <2>2. RecordsInv'
    BY <1>25, <2>1, QuietStep DEF AfterFetch, Save, Raise, Resume, Matrix, Stages,
       files, work
  <2>3. WorkTypes'
    BY <1>25, <2>1, BuildAssumption DEF SessionInv, WorkTypes, AfterFetch, Save,
       Raise, files, work
  <2>4. HandlerTypes' /\ OneOwner'
    BY <1>25, <2>1 DEF SessionInv, HandlerTypes, OneOwner, AfterFetch, Save,
       Raise, procs
  <2>5. plan[at] # "variant" => ctx = "run"
    BY <2>1 DEF SessionInv, PlanInv
  <2>6. ControlInv' /\ PlanInv'
    BY <1>25, <2>1, <2>5 DEF SessionInv, ControlInv, PlanInv, AfterFetch, Save, Raise,
       Labels, Resume, Matrix, Stages, procs, work
  <2> QED BY <2>2, <2>3, <2>4, <2>6 DEF SessionInv, RecordsInv
<1>26. CASE AfterBuild
  <2>1. Resume \in Matrix /\ ctx \in {"run", "variant"} /\ cur \in Runs /\ mem \in Report
    BY <1>26, InMatrix DEF AfterBuild, Resume, Matrix, Stages
  <2>2. RecordsInv' /\ mem' \in Report
    <3>1. CASE Raise("failed") /\ UNCHANGED ctx
      BY <1>26, <2>1, <3>1, QuietStep DEF AfterBuild, Raise, Resume, files, work
    <3>2. CASE ~(Raise("failed") /\ UNCHANGED ctx)
      <4>0. ctx' = "run" /\ pc' = "event" /\ Resume' = "nextItem"
        BY <1>26, <3>2 DEF AfterBuild, Record, Resume
      <4>1. mem' = [mem EXCEPT !.variants[ThisVariant] = "built"]
        BY <1>26, <3>2 DEF AfterBuild, Record
      <4>2. ThisVariant \in Variant
        BY <1>26, <2>1, InMatrix, VariantItem DEF AfterBuild, Resume, Matrix, Stages
      <4>3. /\ mem' \in Report /\ mem'.status = mem.status /\ mem'.stage = mem.stage
            /\ mem'.variants[ThisVariant] = "built"
            /\ \A w \in Variant : w # ThisVariant => mem'.variants[w] = mem.variants[w]
        <5>1. "built" \in VariantStatus
          BY DEF VariantStatus
        <5>2. mem \in Report
          BY <2>1
        <5>3. mem'.stage = mem.stage
          BY <4>1, <4>2, <5>1, <5>2, VariantChange
        <5>4. mem'.variants[ThisVariant] = "built"
          BY <4>1, <4>2, <5>2 DEF Report
        <5> QED BY <4>1, <4>2, <5>1, <5>2, <5>3, <5>4, VariantChange
      <4>4. mem.stage \in {"none", "passed"} /\ mem.status = "running"
        BY <1>26, <2>1, InMatrix DEF AfterBuild, SessionInv, MatrixInv, Resume
      <4> QED BY <1>26, <2>1, <4>0, <4>3, <4>4, MatrixStep DEF AfterBuild, files, work
    <3> QED BY <3>1, <3>2
  <2>3. WorkTypes'
    BY <1>26, <2>1, <2>2, BuildAssumption DEF SessionInv, WorkTypes, AfterBuild,
       Record, Raise, files, work
  <2>4. HandlerTypes' /\ OneOwner'
    BY <1>26, <2>1 DEF SessionInv, HandlerTypes, OneOwner, AfterBuild, Record,
       Raise, procs
  <2>5. ControlInv' /\ PlanInv'
    BY <1>26, <2>1 DEF SessionInv, ControlInv, PlanInv, AfterBuild, Record, Raise,
       Labels, Resume, Matrix, Stages, procs, work
  <2> QED BY <2>2, <2>3, <2>4, <2>5 DEF SessionInv, RecordsInv
<1>27. CASE Drain
  <2>1. Resume \in Matrix /\ ctx \in {"run", "variant"} /\ cur \in Runs /\ mem \in Report
    BY <1>27, InMatrix DEF Drain, Resume, Matrix, Stages
  <2>2. RecordsInv' /\ mem' \in Report
    BY <1>27, <2>1, StageStep DEF Drain, EndStage, Record, StageStatus, files, work
  <2>3. WorkTypes'
    BY <1>27, <2>1, <2>2, BuildAssumption DEF SessionInv, WorkTypes, Drain,
       EndStage, Record, MayStray, files, work
  <2>4. HandlerTypes' /\ OneOwner'
    BY <1>27, <2>1 DEF SessionInv, HandlerTypes, OneOwner, Drain, EndStage,
       Record, MayStray, procs
  <2>5. ControlInv' /\ PlanInv'
    BY <1>27, <2>1 DEF SessionInv, ControlInv, PlanInv, Drain, EndStage, Record,
       MayStray, Labels, Resume, Matrix, Stages, procs, work
  <2> QED BY <2>2, <2>3, <2>4, <2>5 DEF SessionInv, RecordsInv
<1>28. CASE ChildReturns
  <2>1. Resume \in Matrix /\ ctx \in {"run", "variant"} /\ cur \in Runs /\ mem \in Report
    BY <1>28, InMatrix DEF ChildReturns, Resume, Matrix, Stages
  <2>2. PICK s \in {"passed", "failed", "interrupted"} : EndStage(s)
    BY <1>28 DEF ChildReturns
  <2>3. RecordsInv' /\ mem' \in Report
    BY <1>28, <2>1, <2>2, StageStep DEF ChildReturns, EndStage, Record, StageStatus,
       files, work
  <2>4. WorkTypes'
    BY <1>28, <2>1, <2>2, <2>3, BuildAssumption DEF SessionInv, WorkTypes,
       ChildReturns, EndStage, Record, MayStray, files, work
  <2>5. HandlerTypes' /\ OneOwner'
    BY <1>28, <2>1 DEF SessionInv, HandlerTypes, OneOwner, ChildReturns, EndStage,
       Record, MayStray, procs
  <2>6. ControlInv' /\ PlanInv'
    BY <1>28, <2>1, <2>2 DEF SessionInv, ControlInv, PlanInv, ChildReturns, EndStage,
       Record, MayStray, Labels, Resume, Matrix, Stages, procs, work
  <2> QED BY <2>3, <2>4, <2>5, <2>6 DEF SessionInv, RecordsInv
<1>29. CASE Heartbeat
  <2>1. Resume \in Matrix /\ ctx \in {"run", "variant"} /\ cur \in Runs /\ mem \in Report
    BY <1>29, InMatrix DEF Heartbeat, Resume, Matrix, Stages
  <2>2. RecordsInv'
    BY <1>29, <2>1, QuietStep DEF Heartbeat, Save, Resume, Matrix, Stages, files,
       work
  <2>3. WorkTypes'
    BY <1>29, <2>1, BuildAssumption DEF SessionInv, WorkTypes, Heartbeat, Save,
       files, work
  <2>4. HandlerTypes' /\ OneOwner'
    BY <1>29, <2>1 DEF SessionInv, HandlerTypes, OneOwner, Heartbeat, Save, procs
  <2>5. ControlInv' /\ PlanInv'
    BY <1>29, <2>1 DEF SessionInv, ControlInv, PlanInv, Heartbeat, Save, Labels,
       Resume, Matrix, Stages, procs, work
  <2> QED BY <2>2, <2>3, <2>4, <2>5 DEF SessionInv, RecordsInv
<1>30. CASE WriteFails
  <2>1. CASE Executing
    <3>1. Resume = "wait" /\ pc \in {"event", "summary", "latest", "result"}
      BY <2>1 DEF Executing, Writing, SessionInv, ControlInv, Resume
    <3>2. Resume \in Matrix /\ ctx \in {"run", "variant"} /\ cur \in Runs
      BY <3>1, InMatrix DEF Matrix, Stages
    <3>3. RecordsInv' /\ mem' \in Report
      BY <1>30, <2>1, <3>2, StageStep DEF WriteFails, EndStage, Record, StageStatus,
         files, work
    <3>4. WorkTypes' /\ HandlerTypes' /\ OneOwner'
      BY <1>30, <2>1, <3>1, <3>2, <3>3 DEF SessionInv, WorkTypes, HandlerTypes, OneOwner,
         WriteFails, EndStage, Record, files, work
    <3>5. ControlInv' /\ PlanInv'
      BY <1>30, <2>1, <3>1, <3>2 DEF SessionInv, ControlInv, PlanInv, WriteFails,
         EndStage, Record, Labels, Resume, Matrix, Stages, work
    <3> QED BY <3>3, <3>4, <3>5 DEF SessionInv, RecordsInv
  <2>2. CASE ~Executing
    <3>1. Raise("failed") /\ UNCHANGED procs
      BY <1>30, <2>2 DEF WriteFails
    <3>2. pc # "idle" /\ Resume' = "throw" /\ child # "alive"
      BY <1>30, <2>2, <3>1 DEF WriteFails, Raise, Executing, Writing, SessionInv,
         ControlInv, Resume, HandlerTypes
    <3>3. RecordsInv'
      BY <1>30, <3>1, <3>2, ThrowStep DEF WriteFails, Raise, files, work
    <3>4. WorkTypes' /\ HandlerTypes' /\ OneOwner'
      BY <1>30, <3>1, <3>2 DEF SessionInv, WorkTypes, HandlerTypes, OneOwner, WriteFails,
         Raise, files, work, procs
    <3>5. ControlInv' /\ PlanInv'
      BY <1>30, <3>1, <3>2 DEF SessionInv, ControlInv, PlanInv, WriteFails, Raise, Labels,
         Matrix, Stages, HandlerTypes, procs, work
    <3> QED BY <3>3, <3>4, <3>5 DEF SessionInv, RecordsInv
  <2> QED BY <2>1, <2>2
<1>31. CASE Interrupt
  <2>1. pc # "idle" /\ Resume' = "throw" /\ child # "alive"
    BY <1>31 DEF Interrupt, Raise, Executing, Writing, SessionInv, ControlInv, Resume,
       HandlerTypes
  <2>2. RecordsInv'
    BY <1>31, <2>1, ThrowStep DEF Interrupt, Raise, files, work
  <2>3. WorkTypes' /\ HandlerTypes' /\ OneOwner'
    BY <1>31, <2>1 DEF SessionInv, WorkTypes, HandlerTypes, OneOwner, Interrupt, Raise,
       files, work, procs
  <2>4. ControlInv' /\ PlanInv'
    BY <1>31, <2>1 DEF SessionInv, ControlInv, PlanInv, Interrupt, Raise, Labels, Matrix,
       Stages, HandlerTypes, procs, work
  <2> QED BY <2>2, <2>3, <2>4 DEF SessionInv, RecordsInv
<1>32. CASE TermInLaunch
  <2>1. Resume \in Matrix /\ ctx \in {"run", "variant"} /\ cur \in Runs /\ mem \in Report
    BY <1>32, InMatrix DEF TermInLaunch, Resume, Matrix, Stages
  <2>2. RecordsInv' /\ mem' \in Report
    <3>1. CASE EndStage("failed")
      BY <1>32, <2>1, <3>1, StageStep DEF TermInLaunch, EndStage, Record, StageStatus,
         files, work
    <3>2. CASE Goto("drain")
      BY <1>32, <2>1, <3>2, QuietStep DEF TermInLaunch, Goto, Resume, files, work
    <3> QED BY <1>32, <3>1, <3>2 DEF TermInLaunch
  <2>3. WorkTypes'
    BY <1>32, <2>1, <2>2, BuildAssumption DEF SessionInv, WorkTypes, TermInLaunch,
       EndStage, Record, Goto, files, work
  <2>4. HandlerTypes' /\ OneOwner'
    BY <1>32, <2>1 DEF SessionInv, HandlerTypes, OneOwner, TermInLaunch, EndStage,
       Record, Goto, procs
  <2>5. ControlInv' /\ PlanInv'
    BY <1>32, <2>1 DEF SessionInv, ControlInv, PlanInv, TermInLaunch, EndStage,
       Record, Goto, Labels, Resume, Matrix, Stages, procs, work
  <2> QED BY <2>2, <2>3, <2>4, <2>5 DEF SessionInv, RecordsInv
<1>33. CASE IntInLaunch
  <2>1. Resume \in Matrix /\ ctx \in {"run", "variant"} /\ cur \in Runs /\ mem \in Report
    BY <1>33, InMatrix DEF IntInLaunch, Resume, Matrix, Stages
  <2>2. RecordsInv'
    BY <1>33, <2>1, ThrowStep, InMatrix DEF IntInLaunch, Raise, MayStray, files, work
  <2>3. WorkTypes'
    BY <1>33, <2>1, BuildAssumption DEF SessionInv, WorkTypes, IntInLaunch, Raise,
       MayStray, files, work
  <2>4. HandlerTypes' /\ OneOwner'
    BY <1>33, <2>1 DEF SessionInv, HandlerTypes, OneOwner, IntInLaunch, Raise,
       MayStray, procs
  <2>5. ControlInv' /\ PlanInv'
    BY <1>33, <2>1 DEF SessionInv, ControlInv, PlanInv, IntInLaunch, Raise,
       MayStray, Labels, Resume, Matrix, Stages, procs, work
  <2> QED BY <2>2, <2>3, <2>4, <2>5 DEF SessionInv, RecordsInv
<1>34. CASE Forward
  <2>1. RecordsInv' /\ WorkTypes' /\ ControlInv' /\ PlanInv'
    BY <1>34, FrameStep DEF Forward
  <2>2. HandlerTypes' /\ OneOwner'
    BY <1>34 DEF SessionInv, HandlerTypes, OneOwner, Forward, procs
  <2> QED BY <2>1, <2>2 DEF SessionInv, RecordsInv
<1>35. CASE Crash
  <2>1. RecordsInv' /\ WorkTypes' /\ ControlInv' /\ PlanInv'
    BY <1>35, GoneStep DEF Crash
  <2>2. child = "alive" => cur \in Runs
    BY InMatrix DEF SessionInv, ControlInv, Matrix, Stages
  <2>3. HandlerTypes' /\ OneOwner'
    BY <1>35, <2>2 DEF SessionInv, HandlerTypes, OneOwner, Crash, RunnerGone
  <2> QED BY <2>1, <2>3 DEF SessionInv, RecordsInv
<1>36. CASE StrayExits
  <2>1. RecordsInv' /\ WorkTypes' /\ ControlInv' /\ PlanInv'
    BY <1>36, FrameStep DEF StrayExits
  <2>2. HandlerTypes' /\ OneOwner'
    BY <1>36 DEF SessionInv, HandlerTypes, OneOwner, StrayExits, procs
  <2> QED BY <2>1, <2>2 DEF SessionInv, RecordsInv
<1>37. CASE EditSource
  <2>1. RecordsInv' /\ WorkTypes' /\ ControlInv' /\ PlanInv'
    BY <1>37, FrameStep DEF EditSource, procs
  <2>2. HandlerTypes' /\ OneOwner'
    BY <1>37 DEF SessionInv, HandlerTypes, OneOwner, EditSource, procs
  <2> QED BY <2>1, <2>2 DEF SessionInv, RecordsInv
<1>38. CASE UNCHANGED vars
  <2>1. RecordsInv' /\ WorkTypes' /\ ControlInv' /\ PlanInv'
    BY <1>38, FrameStep DEF vars, files, work
  <2>2. HandlerTypes' /\ OneOwner'
    BY <1>38 DEF SessionInv, HandlerTypes, OneOwner, vars
  <2> QED BY <2>1, <2>2 DEF SessionInv, RecordsInv
<1> QED BY <1>1, <1>2, <1>3, <1>4, <1>5, <1>6, <1>7, <1>8, <1>9, <1>10, <1>11,
   <1>12, <1>13, <1>14, <1>15, <1>16, <1>17, <1>18, <1>19, <1>20, <1>21,
   <1>22, <1>23, <1>24, <1>25, <1>26, <1>27, <1>28, <1>29, <1>30, <1>31,
   <1>32, <1>33, <1>34, <1>35, <1>36, <1>37, <1>38 DEF Next, RunnerStep,
   Signal

(* An estate without runs satisfies it. *)
LEMMA InitInv == Init => SessionInv
<1> SUFFICES ASSUME Init PROVE SessionInv
  OBVIOUS
<1>1. \A r \in Runs : disk[r] = NoReport /\ result[r] = "none" /\ events[r] = {}
  BY DEF Init
<1>2. /\ pc = "idle" /\ cont = "idle" /\ ctx = "setup" /\ mem = NoReport /\ cur = 0
      /\ at = 1 /\ plan = <<>> /\ mirror = 1 /\ latest = 0 /\ made = 0
      /\ Resume = "idle"
  BY DEF Init, Resume
<1>3. FileTypes
  <2>1. 0 \in 0 .. MaxRuns
    BY BuildAssumption
  <2> QED BY <2>1 DEF Init, FileTypes
<1>4. WorkTypes
  <2>1. 1 \in 1 .. (Len(<<>>) + 1) /\ 1 \in 1 .. (Mirrors + 1) /\ 0 \in 0 .. 0
    BY BuildAssumption
  <2> QED BY <1>2, <2>1 DEF WorkTypes
<1>5. HandlerTypes /\ ControlInv /\ PlanInv /\ OneOwner
  BY <1>2 DEF Init, HandlerTypes, ControlInv, PlanInv, OneOwner, Labels, Matrix,
     Stages
<1>6. ReportInv /\ LogInv /\ LogLeads
  BY <1>1, <1>2, NewReportType DEF ReportInv, LogInv, LogLeads, Writing, Terminal
<1>7. BirthInv
  BY <1>1, <1>2, NewReportType DEF BirthInv, Stuck, Writing
<1>8. MatrixInv
  <2>1. InOrder(NoReport) /\ Honest(NoReport)
    BY NewReportType DEF InOrder, Honest
  <2> QED BY <1>1, <1>2, <2>1 DEF MatrixInv
<1> QED BY <1>3, <1>4, <1>5, <1>6, <1>7, <1>8 DEF SessionInv

(* The inductive invariant holds throughout. *)
THEOREM SessionInvHolds == Spec => []SessionInv
  BY InitInv, StepKeepsInv, PTL DEF Spec

----------------------------------------------------------------------------
(* The theorems *)

(* Type correctness of the variant runner. *)
THEOREM SessionTypes == Spec => []TypeOK
<1>1. SessionInv => TypeOK
  BY TypeParts DEF SessionInv
<1> QED BY <1>1, SessionInvHolds, PTL

(* _execute's pass_fds: a runner works alone, even after crashes that left
   commands of earlier runs behind. *)
THEOREM OwnersExclude == Spec => []OneOwner
<1>1. SessionInv => OneOwner
  BY DEF SessionInv
<1> QED BY <1>1, SessionInvHolds, PTL

(* save and finish: the event log leads the summary and that the result. *)
THEOREM LogsLead == Spec => []LogLeads
<1>1. SessionInv => LogLeads
  BY DEF SessionInv
<1> QED BY <1>1, SessionInvHolds, PTL

(* abandon_stale_run: only a run that died in its first save stays open. *)
THEOREM StuckAtBirth == Spec => []StuckOnlyAtBirth
<1>1. SessionInv => StuckOnlyAtBirth
  BY DEF SessionInv, BirthInv, Stuck, StuckOnlyAtBirth
<1> QED BY <1>1, SessionInvHolds, PTL

(* stage, build_variant and finish: a summary that says built or prepared is
   right about every variant and about the last stage. *)
THEOREM BuiltMeansBuilt == Spec => []BuiltIsBuilt
<1>1. SessionInv => BuiltIsBuilt
  BY DEF SessionInv, MatrixInv, Honest, BuiltIsBuilt
<1> QED BY <1>1, SessionInvHolds, PTL

(* variant: a variant that is not built stops the matrix. *)
THEOREM MatricesStop == Spec => []MatrixStops
<1>1. SessionInv => MatrixStops
  BY DEF SessionInv, MatrixInv, InOrder, MatrixStops
<1> QED BY <1>1, SessionInvHolds, PTL

(* finish and abandon_stale_run: a closed summary is never written again and
   the pointer never goes back. *)
THEOREM ClosedStay == Spec => ClosedForGood
<1> DEFINE A == /\ \A r \in Runs : disk[r].status \in Terminal => disk'[r] = disk[r]
                /\ latest' >= latest
<1>1. SessionInv /\ [Next]_vars => A \/ UNCHANGED vars
  <2> SUFFICES ASSUME SessionInv, [Next]_vars PROVE A \/ UNCHANGED vars
    OBVIOUS
  <2>1. latest \in Nat
    BY BuildAssumption DEF SessionInv, FileTypes, Runs
  <2>2. CASE WriteSummary
    <3>1. cur \in Runs /\ disk[cur].status \notin Terminal /\ latest' = latest
      BY <2>2, WriterFacts DEF WriteSummary, Writing, SessionInv, LogInv
    <3>2. \A r \in Runs : r # cur => disk'[r] = disk[r]
      BY <2>2 DEF WriteSummary, SessionInv, FileTypes
    <3> QED BY <2>1, <3>1, <3>2
  <2>3. CASE WriteLatest
    <3>1. disk' = disk /\ latest' = cur /\ cur \in Nat
      BY <2>3, WriterFacts DEF WriteLatest, Writing, Runs
    <3>2. latest <= cur
      BY <2>1, <2>3, <3>1, WriterFacts DEF WriteLatest, Writing, SessionInv, BirthInv,
         ReportInv
    <3> QED BY <2>1, <3>1, <3>2
  <2>4. CASE UNCHANGED <<disk, latest>>
    BY <2>1, <2>4
  <2>5. \/ WriteSummary \/ WriteLatest \/ UNCHANGED <<disk, latest>>
    BY DEF Next, RunnerStep, Signal, StartRun, WriteEvent, WriteResult, Unwind, Exit,
       Recover, Create, Enter, SetPhase, SourceEdited, PlainStage, PlanInputs,
       Asset, TryMirror, StartVariant, NextItem, FinishRun, BeginStage, Launch,
       LaunchFails, StageEnd, AfterPlain, AfterFetch, AfterBuild, Drain,
       ChildReturns, Heartbeat, WriteFails, Interrupt, TermInLaunch, IntInLaunch,
       Forward, Crash, StrayExits, EditSource, files, vars
  <2> QED BY <2>2, <2>3, <2>4, <2>5
<1> QED BY <1>1, SessionInvHolds, PTL DEF Spec, ClosedForGood
=============================================================================
