--------------------------- MODULE LandingProofs ---------------------------
(***************************************************************************)
(* Proofs about Landing for all patches, paths, gates and bounds: what is  *)
(* landed was verified and is covered by gates, live gates keep their tip, *)
(* no patch of the lead is lost, and CI skips only what it reported on.    *)
(***************************************************************************)
EXTENDS Landing, FiniteSetTheorems, SequenceTheorems, Extrema, TLAPS

----------------------------------------------------------------------------
(* Rebases *)

(* The elements of I up to i, counted, number them from 1, so that the patches
   a rebase replays are numbered. *)
LEMMA RankFound ==
    ASSUME NEW n \in Nat, NEW I \in SUBSET (1..n), NEW k \in 1..Cardinality(I)
    PROVE  \E i \in I : Cardinality({j \in I : j <= i}) = k
<1> DEFINE R(i) == {j \in I : j <= i}
<1>0. \A j \in I : j \in Nat /\ 1 <= j /\ j <= n
  OBVIOUS
<1>1. IsFiniteSet(I) /\ Cardinality(I) \in Nat
  <2>1. IsFiniteSet(1..n)
    BY FS_Interval
  <2> QED BY <2>1, FS_Subset, FS_CardinalityType
<1>2. \A i \in Nat : IsFiniteSet(R(i)) /\ Cardinality(R(i)) \in Nat
  BY <1>1, FS_Subset, FS_CardinalityType
<1>3. \A i \in Nat : /\ R(i) \subseteq Nat
                     /\ \A j \in Nat : j \in R(i) <=> j \in I /\ j <= i
  BY <1>0
<1> HIDE DEF R
<1>4. R(n) = I /\ Cardinality(R(n)) >= k
  <2>1. R(n) = I
    BY <1>0, <1>3
  <2> QED BY <1>1, <2>1
<1>5. Cardinality(R(0)) = 0
  <2>1. R(0) = {}
    BY <1>0, <1>3
  <2> QED BY <2>1, FS_EmptySet
<1> DEFINE T == {i \in 0..n : Cardinality(R(i)) >= k}
<1>6. PICK m \in T : \A i \in T : m <= i
  <2>1. T \in SUBSET Nat /\ n \in T
    BY <1>4
  <2> QED BY <2>1, LeastNumber
<1>7. m \in Nat /\ m # 0 /\ m <= n /\ Cardinality(R(m)) >= k
  BY <1>5
<1>8. m - 1 \in Nat /\ Cardinality(R(m - 1)) < k
  <2>1. m - 1 \in 0..n /\ m - 1 \notin T
    BY <1>6, <1>7
  <2> QED BY <1>1, <1>2, <2>1
<1> HIDE DEF T
<1>9. \A j \in Nat : j \in R(m) <=> j \in R(m - 1) \/ (j = m /\ m \in I)
  BY <1>0, <1>3, <1>7
<1>10. m \in I
  <2> SUFFICES ASSUME m \notin I PROVE FALSE
    OBVIOUS
  <2>1. R(m) = R(m - 1)
    BY <1>3, <1>7, <1>8, <1>9
  <2> QED BY <1>1, <1>2, <1>7, <1>8, <2>1
<1>11. Cardinality(R(m)) <= Cardinality(R(m - 1)) + 1
  <2>1. R(m) = R(m - 1) \cup {m}
    BY <1>3, <1>7, <1>8, <1>9, <1>10
  <2>2. \/ Cardinality(R(m - 1) \cup {m}) = Cardinality(R(m - 1))
        \/ Cardinality(R(m - 1) \cup {m}) = Cardinality(R(m - 1)) + 1
    BY <1>2, <1>8, FS_AddElement
  <2> QED BY <1>2, <1>8, <2>1, <2>2
<1>12. Cardinality(R(m)) = k
  BY <1>1, <1>2, <1>7, <1>8, <1>11
<1> QED BY <1>10, <1>12 DEF R

(* Different elements have different numbers. *)
LEMMA RankInjective ==
    ASSUME NEW n \in Nat, NEW I \in SUBSET (1..n), NEW a \in I, NEW b \in I,
           Cardinality({j \in I : j <= a}) = Cardinality({j \in I : j <= b})
    PROVE  a = b
<1> DEFINE R(i) == {j \in I : j <= i}
<1>0. \A j \in I : j \in Nat
  OBVIOUS
<1>1. IsFiniteSet(I)
  <2>1. IsFiniteSet(1..n)
    BY FS_Interval
  <2> QED BY <2>1, FS_Subset
<1>2. IsFiniteSet(R(a)) /\ IsFiniteSet(R(b))
  BY <1>1, FS_Subset
<1>3. \A i \in Nat : /\ R(i) \subseteq Nat
                     /\ \A j \in Nat : j \in R(i) <=> j \in I /\ j <= i
  BY <1>0
<1>4. Cardinality(R(a)) = Cardinality(R(b))
  OBVIOUS
<1> HIDE DEF R
<1>5. R(a) \subseteq R(b) \/ R(b) \subseteq R(a)
  BY <1>0, <1>3
<1>6. R(a) = R(b)
  BY <1>2, <1>4, <1>5, FS_Subset
<1>7. a <= b /\ b <= a
  BY <1>0, <1>3, <1>6
<1> QED BY <1>0, <1>7
(* A rebase yields a commit with all patches of the old one (git rebase). *)
LEMMA RebasedKeeps ==
    ASSUME NEW c \in Seq(Patches), NEW base \in Seq(Patches)
    PROVE  /\ Rebased(c, base) \in Seq(Patches)
           /\ \A p : Contains(c, p) => Contains(Rebased(c, base), p)
<1> DEFINE I == {i \in DOMAIN c : ~Contains(base, c[i])}
           At(k) == CHOOSE i \in I : Cardinality({j \in I : j <= i}) = k
           r == [k \in 1..Cardinality(I) |-> c[At(k)]]
<1>1. Len(c) \in Nat /\ DOMAIN c = 1..Len(c) /\ I \in SUBSET (1..Len(c))
  BY LenProperties
<1>0. \A i \in DOMAIN c : i \in I <=> ~Contains(base, c[i])
  OBVIOUS
<1>r. Rebased(c, base) = base \o r
  BY DEF Rebased, Replayed
<1> HIDE DEF I
<1>2. ASSUME NEW k \in 1..Cardinality(I)
      PROVE  At(k) \in I /\ Cardinality({j \in I : j <= At(k)}) = k
  <2>1. \E i \in I : Cardinality({j \in I : j <= i}) = k
    BY <1>1, RankFound
  <2> QED BY <2>1, Zenon
<1>3. IsFiniteSet(I) /\ Cardinality(I) \in Nat
  <2>1. IsFiniteSet(1..Len(c))
    BY <1>1, FS_Interval
  <2> QED BY <1>1, <2>1, FS_Subset, FS_CardinalityType
<1>4. \A k \in 1..Cardinality(I) : c[At(k)] \in Patches
  BY <1>1, <1>2, ElementOfSeq
<1>5. r \in Seq(Patches) /\ Len(r) = Cardinality(I)
  <2> HIDE DEF At, I
  <2> QED BY <1>3, <1>4
<1>7. Rebased(c, base) \in Seq(Patches)
  BY <1>5, <1>r
<1>8. ASSUME NEW p, Contains(c, p) PROVE Contains(base \o r, p)
  <2>1. PICK i \in 1..Len(c) : c[i] = p
    BY <1>8 DEF Contains
  <2>2. CASE Contains(base, p)
    <3>1. PICK m \in 1..Len(base) : base[m] = p
      BY <2>2 DEF Contains
    <3>2. (base \o r)[m] = p /\ m \in 1..Len(base \o r)
      <4> HIDE DEF r
      <4>1. Len(base) \in Nat
        BY LenProperties
      <4> QED BY <1>3, <1>5, <3>1, <4>1, ConcatProperties
    <3> QED BY <3>2 DEF Contains
  <2>3. CASE ~Contains(base, p)
    <3>1. i \in I
      BY <1>0, <1>1, <2>1, <2>3
    <3> DEFINE k == Cardinality({j \in I : j <= i})
    <3>2. k \in 1..Cardinality(I)
      <4>1. {j \in I : j <= i} \in SUBSET I /\ i \in {j \in I : j <= i}
        BY <1>1, <3>1
      <4>2. IsFiniteSet({j \in I : j <= i}) /\ k \in Nat /\ k <= Cardinality(I)
        BY <1>3, <4>1, FS_Subset, FS_CardinalityType
      <4>3. k # 0
        BY <4>1, <4>2, FS_EmptySet
      <4> QED BY <1>3, <4>2, <4>3
    <3>3. At(k) = i
      BY <1>1, <1>2, <3>1, <3>2, RankInjective
    <3>4. r[k] = p
      BY <2>1, <3>2, <3>3
    <3>5. (base \o r)[Len(base) + k] = p /\ Len(base) + k \in 1..Len(base \o r)
      <4> HIDE DEF r, k, I
      <4>1. Len(base) \in Nat
        BY LenProperties
      <4> QED BY <1>3, <1>5, <3>2, <3>4, <4>1, ConcatProperties
    <3> QED BY <3>5 DEF Contains
  <2> QED BY <2>2, <2>3
<1> QED BY <1>r, <1>7, <1>8

----------------------------------------------------------------------------
(* The inductive invariant *)

Results == {"pending", "passed", "failed", "missing"}

CommitTypes ==
    /\ {target, lead, head, landing} \subseteq Seq(Patches)
    /\ dirty \in FollowerPatches \cup {NoPatch}
    /\ fpc \in {"verify", "commit"} => dirty \in FollowerPatches
    /\ cpc # "idle" => csha \in Seq(Patches)
    /\ \A s \in summaries : s.sha \in Seq(Patches)
    /\ results \in [Stages -> Results]

\* HEAD of the lead's worktree has every patch of the lead's branch, from the
\* rebase until the branch is moved to it.
HeadKeeps ==
    /\ attached => head = lead
    /\ pc \in {"verify", "record", "move"} =>
          \A p \in LeadPatches : Contains(lead, p) => Contains(head, p)

\* A record is of a commit that passed, and a landing under way has one.
RecordsTrue ==
    /\ records \subseteq verified
    /\ pc = "record" => head \in verified
    /\ pc \in {"land", "merge"} => landing \in records

\* A result, and a summary, say passed only of gates that passed.
ResultsTrue ==
    /\ \A g \in Gates : results[g] = "passed" => <<csha, g>> \in gated
    /\ \A s \in summaries : \A g \in s.passed : <<s.sha, g>> \in gated

\* c contains a commit that all gates passed, and only allowlisted paths changed
\* since.
Covered(c) ==
    \E n \in 0..Len(c) :
        /\ {SubSeq(c, 1, n)} \X Gates \subseteq gated
        /\ Paths(SubSeq(c, n + 1, Len(c))) \subseteq NoGatePaths

LandingCovered == pc \in {"land", "merge"} => ~RequireGate \/ Covered(landing)

\* Gates that live at the merge started after the landing looked.
LiveIsLate == pc = "merge" => ~GatesLive \/ late

\* The CI run that is about to be marked as handled has its summary.
StateIsReported == cpc = "state" => csha \in {s.sha : s \in summaries}

LandingInv ==
    /\ CommitTypes /\ HeadKeeps /\ RecordsTrue /\ ResultsTrue /\ LandingCovered
    /\ LiveIsLate /\ StateIsReported /\ SkippedIsReported

----------------------------------------------------------------------------
(* The invariant is inductive *)

(* The gate of a landing is green only if gates cover what lands
   (ci_gate_green_for_landing). *)
LEMMA GreenCovers ==
    ASSUME LandingInv, GateGreen, RequireGate
    PROVE  Covered(landing)
<1> USE DEF LandingInv, CommitTypes
<1>1. landing \in Seq(Patches) /\ Len(landing) \in Nat
  BY LenProperties
<1>2. ASSUME NEW c \in Seq(Patches), Green(c)
      PROVE  {c} \X Gates \subseteq gated
  BY <1>2 DEF Green, ResultsTrue
<1>3. CASE Green(landing)
  <2>1. SubSeq(landing, 1, Len(landing)) = landing
    BY <1>1, SubSeqFull
  <2>2. SubSeq(landing, Len(landing) + 1, Len(landing)) = <<>>
    BY <1>1, SubSeqEmpty
  <2>3. Paths(<<>>) = {}
    BY DEF Paths
  <2>4. {SubSeq(landing, 1, Len(landing))} \X Gates \subseteq gated
    BY <1>1, <1>2, <1>3, <2>1
  <2>5. Paths(SubSeq(landing, Len(landing) + 1, Len(landing))) \subseteq NoGatePaths
    BY <2>2, <2>3
  <2> QED BY <1>1, <2>4, <2>5 DEF Covered
<1>4. ASSUME NEW s \in summaries, Green(s.sha), Ancestor(s.sha, landing),
             Paths(Since(s.sha, landing)) \subseteq NoGatePaths
      PROVE  Covered(landing)
  <2>1. s.sha \in Seq(Patches) /\ Len(s.sha) \in Nat
    BY LenProperties
  <2>2. SubSeq(s.sha, 1, Len(s.sha)) = s.sha
    BY <2>1, SubSeqFull
  <2>3. Len(s.sha) \in 0..Len(landing) /\ SubSeq(landing, 1, Len(s.sha)) = s.sha
    BY <1>1, <1>4, <2>1, <2>2 DEF Ancestor, IsPrefix
  <2> QED BY <1>2, <1>4, <2>1, <2>3 DEF Covered, Since
<1> QED BY <1>3, <1>4 DEF GateGreen

(* Every step keeps the inductive invariant. *)
LEMMA LandingStep == LandingInv /\ [Next]_vars => LandingInv'
<1> SUFFICES ASSUME LandingInv, [Next]_vars PROVE LandingInv'
  OBVIOUS
<1> USE LandingAssumption
    DEF LandingInv, CommitTypes, HeadKeeps, RecordsTrue, ResultsTrue,
        LandingCovered, LiveIsLate, StateIsReported, SkippedIsReported, GatesLive,
        Covered, Patches, Stages, Results, follower, worktree, ci, others
<1>1. CASE FollowerEdits
  BY <1>1 DEF FollowerEdits
<1>2. CASE CommitStarts
  BY <1>2 DEF CommitStarts
<1>3. CASE CommitVerifies
  BY <1>3 DEF CommitVerifies
<1>4. CASE CommitMade
  <2>1. CommitTypes'
    BY <1>4 DEF CommitMade
  <2> QED BY <1>4, <2>1 DEF CommitMade
<1>5. CASE TargetRewritten
  <2>1. Front(target) \in Seq(Patches)
    <3>1. Len(target) \in Nat /\ \A i \in 1..Len(target) - 1 : target[i] \in Patches
      BY DEF Patches
    <3> QED BY <3>1, SubSeqProperties DEF Front
  <2>2. CommitTypes'
    BY <1>5, <2>1 DEF TargetRewritten
  <2> QED BY <1>5, <2>2 DEF TargetRewritten
<1>6. CASE LeadCommits
  <2>1. CommitTypes' /\ HeadKeeps'
    BY <1>6 DEF LeadCommits
  <2> QED BY <1>6, <2>1 DEF LeadCommits
<1>7. CASE CiStarts
  BY <1>7 DEF CiStarts
<1>8. CASE CiVerifies
  BY <1>8 DEF CiVerifies
<1>9. CASE GatesJoined
  BY <1>9 DEF GatesJoined, CiEnds
<1>10. CASE CiSummary
  <2> DEFINE r == [sha |-> csha, passed |-> {g \in Gates : results[g] = "passed"},
                   verdict |-> Verdict]
  <2>1. r \in summaries' /\ r.sha = csha
    BY <1>10 DEF CiSummary
  <2> HIDE DEF r
  <2>2. StateIsReported'
    <3>1. \E s \in summaries' : csha = s.sha
      BY <2>1
    <3>2. csha' = csha
      BY <1>10 DEF CiSummary
    <3> QED BY <3>1, <3>2
  <2>3. CommitTypes'
    BY <1>10 DEF CiSummary
  <2>4. ResultsTrue'
    BY <1>10 DEF CiSummary
  <2>5. HeadKeeps' /\ RecordsTrue' /\ LandingCovered' /\ LiveIsLate'
    BY <1>10 DEF CiSummary
  <2>6. SkippedIsReported'
    BY <1>10 DEF CiSummary
  <2> QED BY <2>2, <2>3, <2>4, <2>5, <2>6
<1>11. CASE CiState
  BY <1>11 DEF CiState, CiEnds
<1>12. ASSUME NEW g \in Gates, GateEnds(g) PROVE LandingInv'
  \* A gate that passed for this commit is added before its result is.
  <2>1. CommitTypes' /\ LiveIsLate'
    BY <1>12 DEF GateEnds
  <2>2. ResultsTrue'
    BY <1>12 DEF GateEnds
  <2>3. LandingCovered'
    BY <1>12 DEF GateEnds
  <2>4. HeadKeeps' /\ RecordsTrue' /\ StateIsReported' /\ SkippedIsReported'
    BY <1>12 DEF GateEnds
  <2> QED BY <2>1, <2>2, <2>3, <2>4
<1>13. CASE CiKilled
  <2>1. CommitTypes' /\ LiveIsLate' /\ StateIsReported'
    BY <1>13 DEF CiKilled, CiEnds
  <2>2. ResultsTrue'
    BY <1>13 DEF CiKilled, CiEnds
  <2>3. HeadKeeps' /\ RecordsTrue' /\ LandingCovered' /\ SkippedIsReported'
    BY <1>13 DEF CiKilled
  <2> QED BY <2>1, <2>2, <2>3
<1>14. CASE Stops
  BY <1>14 DEF Stops
<1>15. CASE Poll
  BY <1>15 DEF Poll
<1>16. CASE Rebase
  \* The rebased commit has the patches of the branch, on which HEAD is.
  <2>1. head' \in Seq(Patches) /\ \A p : Contains(head, p) => Contains(head', p)
    <3>1. head \in Seq(Patches) /\ target \in Seq(Patches)
      OBVIOUS
    <3>2. head' = head \/ head' = Rebased(head, target)
      BY <1>16 DEF Rebase
    <3> HIDE DEF Patches
    <3> QED BY <3>1, <3>2, RebasedKeeps
  <2>2. CommitTypes'
    BY <1>16, <2>1 DEF Rebase
  <2>3. HeadKeeps'
    BY <1>16, <2>1 DEF Rebase
  <2> QED BY <1>16, <2>2, <2>3 DEF Rebase
<1>17. CASE Verify
  BY <1>17 DEF Verify
<1>18. CASE Record
  BY <1>18 DEF Record
<1>19. CASE Move
  BY <1>19 DEF Move
<1>20. CASE BranchMoves
  BY <1>20 DEF BranchMoves
<1>21. CASE AutolandStep
  \* Only a recorded tip goes on, and only one that gates cover.
  <2>1. RecordsTrue'
    BY <1>21 DEF AutolandStep, Recorded
  <2>2. LandingCovered'
    <3>1. CASE pc' = "land"
      <4>1. ~RequireGate \/ Covered(landing)
        BY <1>21, <3>1, GreenCovers DEF AutolandStep
      <4> QED BY <1>21, <4>1 DEF AutolandStep
    <3>2. CASE pc' # "land"
      BY <1>21, <3>2 DEF AutolandStep
    <3> QED BY <3>1, <3>2
  <2> QED BY <1>21, <2>1, <2>2 DEF AutolandStep
<1>22. CASE Land
  BY <1>22 DEF Land
<1>23. CASE Merge
  BY <1>23 DEF Merge
<1>24. CASE UNCHANGED vars
  BY <1>24 DEF vars
<1> QED
  BY <1>1, <1>2, <1>3, <1>4, <1>5, <1>6, <1>7, <1>8, <1>9, <1>10, <1>11, <1>12,
     <1>13, <1>14, <1>15, <1>16, <1>17, <1>18, <1>19, <1>20, <1>21, <1>22, <1>23,
     <1>24
  DEF Next, CiLoop, Loop

(* Initially the loop has handled what the CI loop passed. *)
LEMMA LandingInit == Init => LandingInv
<1> SUFFICES ASSUME Init PROVE LandingInv
  OBVIOUS
<1>1. Before \in Seq(Patches) /\ <<>> \in Seq(Patches)
  BY LandingAssumption, SeqMonotonic DEF Patches
<1> QED BY <1>1, LandingAssumption
    DEF Init, LandingInv, CommitTypes, HeadKeeps, RecordsTrue, ResultsTrue,
        LandingCovered, LiveIsLate, StateIsReported, SkippedIsReported, Stages,
        Results

(* The inductive invariant holds in every reachable state. *)
LEMMA LandingInvariant == Spec => []LandingInv
BY LandingInit, LandingStep, PTL DEF Spec

(* Only the merge lands, and it lands the landing branch. *)
LEMMA LandsMerges ==
    ASSUME LandingInv, [Next]_vars, Lands
    PROVE  Merge /\ target' = landing /\ UNCHANGED <<landing, records, verified, gated>>
<1>1. Merge
  BY DEF Lands, Next, CiLoop, Loop, vars, follower, worktree, ci, others,
         FollowerEdits, CommitStarts, CommitVerifies, CommitMade, TargetRewritten,
         LeadCommits, CiStarts, CiVerifies, GatesJoined, CiSummary, CiState,
         GateEnds, CiKilled, Stops, Poll, Rebase, Verify, Record, Move,
         BranchMoves, AutolandStep, Land
<1> QED BY <1>1 DEF Merge, Lands, ci

----------------------------------------------------------------------------
(* Theorems *)

(* Every landing is of a commit that passed a verify as it is, whatever the lead
   commits meanwhile and whichever relay command failed halfway (autoland-step). *)
THEOREM LandingsVerified == Spec => LandedIsVerified
<1>1. LandingInv /\ [Next]_vars => [Lands => target' \in verified]_vars
  <2> SUFFICES ASSUME LandingInv, [Next]_vars, Lands PROVE target' \in verified
    OBVIOUS
  <2>1. target' = landing /\ pc = "merge"
    BY LandsMerges DEF Lands
  <2> QED BY <2>1 DEF LandingInv, RecordsTrue
<1> QED BY <1>1, LandingInvariant, PTL DEF Spec, LandedIsVerified

(* Every landing contains a commit for which each fast gate really passed, with
   nothing but allowlisted paths changed since (ci_gate_green_for_landing). *)
THEOREM LandingsGated == Spec => LandedIsGated
<1> DEFINE G == \/ ~RequireGate
                \/ \E n \in 0..Len(target') :
                      /\ {SubSeq(target', 1, n)} \X Gates \subseteq gated
                      /\ Paths(SubSeq(target', n + 1, Len(target'))) \subseteq NoGatePaths
<1>1. LandingInv /\ [Next]_vars => [Lands => G]_vars
  <2> SUFFICES ASSUME LandingInv, [Next]_vars, Lands PROVE G
    OBVIOUS
  <2>1. target' = landing /\ pc = "merge"
    BY LandsMerges DEF Lands
  <2> QED BY <2>1 DEF LandingInv, LandingCovered, Covered
<1> QED BY <1>1, LandingInvariant, PTL DEF Spec, LandedIsGated

(* A landing moves the checkout under no live gate that was there when it
   looked, also not one that outlived its CI loop (cmd_land). *)
THEOREM GatesKeepTip == Spec => GateKeepsTip
<1>1. LandingInv /\ [Next]_vars => [Lands => ~GatesLive \/ late]_vars
  BY DEF LandingInv, LiveIsLate, Lands
<1> QED BY <1>1, LandingInvariant, PTL DEF Spec, GateKeepsTip

(* No patch of the lead's branch is ever lost: what a rebase replays has them
   all (cmd_rebase). *)
THEOREM LeadsPatchesKept == Spec => LeadKept
<1> DEFINE K == \A p \in LeadPatches : Contains(lead, p) => Contains(lead', p)
<1>1. LandingInv /\ [Next]_vars => [K]_vars
  <2> SUFFICES ASSUME LandingInv, [Next]_vars PROVE K
    OBVIOUS
  <2>1. CASE LeadCommits
    <3>1. PICK p \in LeadPatches : lead' = Append(lead, p)
      BY <2>1 DEF LeadCommits
    <3>2. lead \in Seq(Patches) /\ p \in Patches
      BY DEF LandingInv, CommitTypes, Patches
    <3> QED BY <3>1, <3>2 DEF Contains
  <2>2. CASE Move
    BY <2>2 DEF Move, LandingInv, HeadKeeps
  <2>3. CASE lead' = lead
    BY <2>3
  <2>4. LeadCommits \/ Move \/ lead' = lead
    BY DEF Next, CiLoop, Loop, vars, worktree, others, FollowerEdits,
           CommitStarts, CommitVerifies, CommitMade, TargetRewritten, CiStarts,
           CiVerifies, GatesJoined, CiSummary, CiState, GateEnds, CiKilled, Stops,
           Poll, Rebase, Verify, Record, BranchMoves, AutolandStep, Land, Merge
  <2> QED BY <2>1, <2>2, <2>3, <2>4
<1> QED BY <1>1, LandingInvariant, PTL DEF Spec, LeadKept

(* The CI loop skips a commit only if a summary reports on it (write_state). *)
THEOREM SkipsAreReported == Spec => []SkippedIsReported
<1>1. LandingInv => SkippedIsReported
  BY DEF LandingInv
<1> QED BY <1>1, LandingInvariant, PTL
============================================================================
