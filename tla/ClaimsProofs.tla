---------------------------- MODULE ClaimsProofs ----------------------------
(***************************************************************************)
(* Theorem about Claims: as long as no claim lapses, an owner keeps its    *)
(* claim on file.  A claim that lapses can be lost to a command that read  *)
(* the expired record (the violation of ClaimExcludes in MCClaims), so     *)
(* the theorem is about lifetimes that reach beyond the observed time.     *)
(***************************************************************************)
EXTENDS Claims, TLAPS

\* No claim is so short that it lapses within the observed time.
NoLapse == \A minutes \in Minutes : minutes > MaxTime

Ops == {"claim", "heartbeat", "release", "claims"}

TypeInv ==
    /\ file \in File
    /\ pc \in [Agents -> {"idle", "create", "write", "read", "unlink", "replace"}]
    /\ op \in [Agents -> Ops]
    /\ rec \in [Agents -> File]
    /\ told \in [Agents -> Nat]
    /\ now \in 0 .. MaxTime

\* A record on file has not lapsed, and a command that is about to create,
\* replace or unlink the file has a claim to it: nobody else may touch it.
\* What claim writes it has prepared before it reads the file.
OwnerInv ==
    /\ file.state = "record" => file.expires > MaxTime
    /\ \A a \in Agents :
         /\ pc[a] = "write" => file.state = "empty" /\ file.agent = a
         /\ pc[a] \in {"unlink", "replace"} =>
                file.state = "record" /\ file.agent = a
         /\ pc[a] = "create" => op[a] = "claim"
         /\ pc[a] \in {"write", "replace"} \/ (pc[a] = "read" /\ op[a] = "claim") =>
                /\ rec[a].state = "record"
                /\ rec[a].agent = a
                /\ rec[a].expires > MaxTime
         /\ pc[a] = "unlink" => told[a] = 0
         /\ pc[a] = "read" /\ op[a] = "release" => told[a] = 0

ClaimsInv == TypeInv /\ OwnerInv /\ ClaimOnFile

\* A new record is one of its agent that outlives the observed time.
LEMMA NewRecord ==
    ASSUME NoLapse, now \in 0 .. MaxTime, NEW a \in Agents, NEW minutes \in Minutes
    PROVE  /\ ClaimRecord(a, minutes) \in File
           /\ ClaimRecord(a, minutes).state = "record"
           /\ ClaimRecord(a, minutes).agent = a
           /\ ClaimRecord(a, minutes).expires > MaxTime
BY ClaimsAssumption DEF NoLapse, ClaimRecord, File

LEMMA InitInv == Init => ClaimsInv
BY ClaimsAssumption
   DEF Init, ClaimsInv, TypeInv, OwnerInv, ClaimOnFile, File, Absent, Ops

LEMMA StepKeepsInv ==
    ASSUME NoLapse, ClaimsInv, [Next]_vars
    PROVE  ClaimsInv'
<1> USE DEF ClaimsInv, TypeInv, OwnerInv, ClaimOnFile
<1>t. TypeInv /\ OwnerInv /\ ClaimOnFile
  OBVIOUS
<1>m. MaxTime \in Nat /\ Nobody \notin Agents
  BY ClaimsAssumption
<1>a. Absent \in File /\ Absent.state = "absent"
  BY DEF Absent, File
<1>x. file.state = "record" => ~ Expired(file)
  BY <1>m DEF Expired, File
<1>1. ASSUME NEW a \in Agents, NEW kind \in Ops, Begin(a, kind)
      PROVE  ClaimsInv'
  BY <1>1, <1>m DEF Begin, At, Tell, Ops
<1>2. ASSUME NEW a \in Agents, Create(a)
      PROVE  ClaimsInv'
  <2>1. PICK minutes \in Minutes : rec' = [rec EXCEPT ![a] = ClaimRecord(a, minutes)]
    BY <1>2 DEF Create
  <2> DEFINE r == ClaimRecord(a, minutes)
  <2>2. r \in File /\ r.state = "record" /\ r.agent = a /\ r.expires > MaxTime
    BY NewRecord
  <2> HIDE DEF r
  <2>3. CASE file = Absent
    <3>1. file' = [state |-> "empty", agent |-> a, expires |-> 0]
      BY <1>2, <2>3 DEF Create
    <3>2. file' \in File /\ file'.state = "empty" /\ file'.agent = a
      BY <3>1 DEF File
    <3> HIDE DEF File
    <3>3. QED
      BY <1>2, <1>m, <1>a, <2>1, <2>2, <2>3, <3>2 DEF Create, At, r
  <2>4. CASE file # Absent
    BY <1>2, <1>m, <2>1, <2>2, <2>4 DEF Create, At, r
  <2>5. QED
    BY <2>3, <2>4
<1>3. ASSUME NEW a \in Agents, Write(a)
      PROVE  ClaimsInv'
  BY <1>3, <1>m, <1>a DEF Write, Over, At, Tell, Ops, File
<1>4. ASSUME NEW a \in Agents, ReadEmpty(a)
      PROVE  ClaimsInv'
  BY <1>4, <1>m, <1>a DEF ReadEmpty, Over, At, Ops
<1>5. ASSUME NEW a \in Agents, ReadAbsent(a)
      PROVE  ClaimsInv'
  BY <1>5, <1>m, <1>a DEF ReadAbsent, Over, Goto, At, Tell, Ops
<1>6. ASSUME NEW a \in Agents, ReadForeign(a)
      PROVE  ClaimsInv'
  BY <1>6, <1>m, <1>a DEF ReadForeign, Over, At, Tell, Ops
<1>7. ASSUME NEW a \in Agents, ReadByClaim(a)
      PROVE  ClaimsInv'
  BY <1>7, <1>m, <1>x DEF ReadByClaim, Readable, Goto, At
<1>8. ASSUME NEW a \in Agents, ReadByHeartbeat(a)
      PROVE  ClaimsInv'
  BY <1>8, <1>m, <1>x, NewRecord DEF ReadByHeartbeat, Readable, At
<1>9. ASSUME NEW a \in Agents, ReadByRelease(a)
      PROVE  ClaimsInv'
  BY <1>9, <1>m, <1>x DEF ReadByRelease, Readable, Goto, At
<1>10. ASSUME NEW a \in Agents, ReadByList(a)
      PROVE  ClaimsInv'
  BY <1>10, <1>m, <1>a, <1>x DEF ReadByList, Readable, Over, At, Ops
<1>11. ASSUME NEW a \in Agents, Unlink(a)
      PROVE  ClaimsInv'
  BY <1>11, <1>m, <1>a DEF Unlink, Over, Goto, At, Ops
<1>12. ASSUME NEW a \in Agents, Replace(a)
      PROVE  ClaimsInv'
  BY <1>12, <1>m, <1>a DEF Replace, Over, At, Tell, Ops, File
<1>13. ASSUME NEW a \in Agents, Die(a)
      PROVE  ClaimsInv'
  BY <1>13, <1>m, <1>a DEF Die, Over, At, Tell, Ops
<1>14. CASE Tick
  BY <1>14, <1>m DEF Tick
<1>15. CASE UNCHANGED vars
  BY <1>15 DEF vars
<1>16. QED
  BY <1>1, <1>2, <1>3, <1>4, <1>5, <1>6, <1>7, <1>8, <1>9, <1>10, <1>11,
     <1>12, <1>13, <1>14, <1>15 DEF Next, Ops

\* While no claim lapses, an agent that was told it owns the ticket keeps its
\* claim on file, whatever claim, heartbeat, release and listing commands of
\* any number of agents do in between, and wherever agents die.
THEOREM ClaimsStay ==
    ASSUME NoLapse
    PROVE  Spec => []ClaimOnFile
<1>1. ClaimsInv /\ [Next]_vars => ClaimsInv'
  BY StepKeepsInv
<1>2. ClaimsInv => ClaimOnFile
  BY DEF ClaimsInv
<1>3. QED
  BY InitInv, <1>1, <1>2, PTL DEF Spec
=============================================================================
