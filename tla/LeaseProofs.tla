---------------------------- MODULE LeaseProofs ----------------------------
(***************************************************************************)
(* Proofs about Lease for every set of clients, hosts, resources and       *)
(* tokens: type correctness, that leases in force are recorded in their    *)
(* file and never conflict, that CPU shares split the budget, and that the *)
(* command implements LeaseGrants.                                         *)
(***************************************************************************)
EXTENDS Lease, FiniteSetTheorems, TLAPS

\* The lists in the files and in the commands are finite, so that their
\* lengths are numbers.
FiniteFiles ==
    /\ \A r \in Resources : IsFiniteSet(leases[r])
    /\ \A c \in Clients : IsFiniteSet(buf[c])

TypeInv == TypeOK /\ FiniteFiles

(* A share is a positive number of jobs, whatever the budget and the count
   (_recompute_cpu_jobs). *)
LEMMA SharePositive ==
    ASSUME NEW b \in Nat, NEW n \in Nat
    PROVE  Share(b, n) \in Nat /\ Share(b, n) >= 1
BY DEF Share

(* Recomputing the shares yields a finite list of lease records. *)
LEMMA RecomputeType ==
    ASSUME NEW S \in SUBSET Lease, IsFiniteSet(S), NEW b \in Nat
    PROVE  /\ RecomputeCpuJobs(S, b) \in SUBSET Lease
           /\ IsFiniteSet(RecomputeCpuJobs(S, b))
<1> DEFINE k == Share(b, Cardinality(S))
           T == {[l EXCEPT !.jobs = k] : l \in S}
           f == [l \in S |-> [l EXCEPT !.jobs = k]]
<1>1. k \in Nat
  BY FS_CardinalityType, SharePositive
<1>2. T \in SUBSET Lease
  BY <1>1 DEF Lease
<1>3. f \in Surjection(S, T)
  BY Zenon DEF Surjection
<1>4. IsFiniteSet(T)
  BY <1>3, FS_Surjection, Zenon
<1>5. RecomputeCpuJobs(S, b) = T
  BY DEF RecomputeCpuJobs
<1> QED BY <1>2, <1>4, <1>5, Zenon

(* Initially every variable has its type. *)
LEMMA TypeInit == Init => TypeInv
BY LeaseAssumption, FS_EmptySet
DEF Init, TypeInv, TypeOK, FiniteFiles, Command, Kinds, NoCommand

(* Replacing the file of r by a finite list of records keeps the types. *)
LEMMA WriteStateType ==
    ASSUME TypeInv, NEW c \in Clients, NEW r \in Resources,
           NEW S \in SUBSET Lease, IsFiniteSet(S), WriteState(c, r, S)
    PROVE  /\ leases' \in [Resources -> SUBSET Lease]
           /\ lock' \in [Resources -> Clients \cup {Nobody}]
           /\ buf' \in [Clients -> SUBSET Lease]
           /\ FiniteFiles'
           /\ UNCHANGED <<held, running, now>>
<1> USE DEF TypeInv, TypeOK, FiniteFiles, WriteState
<1>1. IsFiniteSet({})
  BY FS_EmptySet
<1>2. \A s \in Resources : IsFiniteSet(leases'[s])
  OBVIOUS
<1>3. \A d \in Clients : IsFiniteSet(buf'[d])
  BY <1>1
<1> QED BY <1>2, <1>3

(* A grant that writes a finite list of records keeps the types. *)
LEMMA GrantType ==
    ASSUME TypeInv, NEW c \in Clients, NEW r \in Resources,
           NEW S \in SUBSET Lease, IsFiniteSet(S), WriteState(c, r, S),
           NEW l \in Lease, Granted(c, l), budget' \in Nat
    PROVE  TypeInv'
<1>1. /\ leases' \in [Resources -> SUBSET Lease]
      /\ lock' \in [Resources -> Clients \cup {Nobody}]
      /\ buf' \in [Clients -> SUBSET Lease]
      /\ FiniteFiles'
      /\ UNCHANGED <<held, running, now>>
  BY WriteStateType
<1>2. pc' \in [Clients -> {"idle", "queued", "locked", "reply"}]
  BY DEF Granted, TypeInv, TypeOK
<1>3. got' \in [Clients -> SUBSET Lease] /\ UNCHANGED cmd
  BY DEF Granted, TypeInv, TypeOK
<1> QED BY <1>1, <1>2, <1>3 DEF TypeInv, TypeOK

(* Every step keeps the types. *)
LEMMA TypeStep == TypeInv /\ [Next]_vars => TypeInv'
<1> SUFFICES ASSUME TypeInv, [Next]_vars PROVE TypeInv'
  OBVIOUS
<1> USE LeaseAssumption DEF TypeInv, TypeOK, FiniteFiles
<1>1. ASSUME NEW c \in Clients, NEW r \in Resources, Acquire(c, r)
      PROVE  TypeInv'
  <2>1. PICK q \in Requests(r), ttl \in TTLs, wait \in Timeouts, b \in Budgets :
            Start(c, [kind |-> "acquire", todo |-> {r}, id |-> NoId,
                      pool |-> q.pool, amount |-> q.amount, ttl |-> ttl,
                      deadline |-> now + wait,
                      budget |-> IF r = HostCpu THEN b ELSE 0])
    BY <1>1 DEF Acquire
  <2>2. q.pool \in SUBSET Nat /\ q.amount \in Nat
    <3>1. CASE r = Gpu
      <4>1. PICK cap \in Capacities :
              \/ q \in {[pool |-> 0 .. cap - 1, amount |-> n] : n \in 1 .. cap}
              \/ q \in {[pool |-> D, amount |-> Cardinality(D)] :
                           D \in (SUBSET (0 .. cap - 1)) \ {{}}}
        BY <3>1 DEF Requests
      <4>2. ASSUME NEW D \in SUBSET (0 .. cap - 1)
            PROVE  Cardinality(D) \in Nat
        <5>1. cap \in Int /\ IsFiniteSet(0 .. cap - 1)
          BY FS_Interval
        <5>2. IsFiniteSet(D)
          BY <5>1, FS_Subset
        <5> QED BY <5>2, FS_CardinalityType
      <4>3. CASE q \in {[pool |-> 0 .. cap - 1, amount |-> n] : n \in 1 .. cap}
        BY <4>3
      <4>4. CASE q \in {[pool |-> D, amount |-> Cardinality(D)] :
                           D \in (SUBSET (0 .. cap - 1)) \ {{}}}
        <5>1. PICK D \in SUBSET (0 .. cap - 1) :
                q = [pool |-> D, amount |-> Cardinality(D)]
          BY <4>4
        <5>2. q.pool = D /\ q.amount = Cardinality(D)
          BY <5>1
        <5>3. 0 .. cap - 1 \subseteq Nat
          OBVIOUS
        <5> QED BY <4>2, <5>2, <5>3
      <4> QED BY <4>1, <4>3, <4>4
    <3>2. CASE r # Gpu
      BY <3>2 DEF Requests
    <3> QED BY <3>1, <3>2
  <2> QED BY <1>1, <2>1, <2>2 DEF Acquire, Start, Command, Kinds
<1>0. ASSUME NEW kind \in Kinds, NEW todo \in Todos, NEW i \in Ids \cup {NoId},
             NEW b \in Budgets
      PROVE  Walk(kind, todo, i, b) \in Command
  <2>1. b \in Nat /\ todo \in SUBSET Resources
    BY DEF Todos
  <2> QED BY <2>1, SMT DEF Walk, Command
<1>2. ASSUME NEW c \in Clients, NEW l \in held[c], NEW todo \in Todos,
             Release(c, l, todo)
      PROVE  TypeInv'
  <2>1. PICK b \in Budgets : Start(c, Walk("release", todo, l.id, b))
    BY <1>2 DEF Release
  <2>2. Walk("release", todo, l.id, b) \in Command
    BY <1>0 DEF Kinds, Lease
  <2> QED BY <1>2, <2>1, <2>2 DEF Release, Start
<1>3. ASSUME NEW c \in Clients, NEW i \in Ids, NEW todo \in Todos,
             Check(c, i, todo)
      PROVE  TypeInv'
  <2>1. PICK b \in Budgets : Start(c, Walk("check", todo, i, b))
    BY <1>3 DEF Check
  <2>2. Walk("check", todo, i, b) \in Command
    BY <1>0 DEF Kinds
  <2> QED BY <1>3, <2>1, <2>2 DEF Check, Start
<1>4. ASSUME NEW c \in Clients, NEW todo \in Todos, ListLeases(c, todo)
      PROVE  TypeInv'
  <2>1. PICK b \in Budgets : Start(c, Walk("list", todo, NoId, b))
    BY <1>4 DEF ListLeases
  <2>2. Walk("list", todo, NoId, b) \in Command
    BY <1>0 DEF Kinds
  <2> QED BY <1>4, <2>1, <2>2 DEF ListLeases, Start
<1>5. ASSUME NEW c \in Clients, NEW r \in Resources, Lock(c, r)
      PROVE  TypeInv'
  <2>1. /\ ActiveLeases(c, leases[r]) \in SUBSET leases[r]
        /\ IsFiniteSet(ActiveLeases(c, leases[r]))
    BY FS_Subset DEF ActiveLeases
  <2> QED BY <1>5, <2>1 DEF Lock
<1>6. ASSUME NEW c \in Clients, NEW r \in Resources, GrantExclusive(c, r)
      PROVE  TypeInv'
  <2>1. PICK i \in Ids : /\ WriteState(c, r, {NewRecord(c, r, i, {})})
                         /\ Granted(c, NewRecord(c, r, i, {}))
    BY <1>6 DEF GrantExclusive
  <2>2. NewRecord(c, r, i, {}) \in Lease
    BY DEF NewRecord, Lease, Command
  <2>3. IsFiniteSet({NewRecord(c, r, i, {})})
    BY FS_Singleton
  <2>4. budget' \in Nat
    BY <1>6 DEF GrantExclusive
  <2> QED BY ONLY TypeInv, <2>1, <2>2, <2>3, <2>4, GrantType, c \in Clients,
                  r \in Resources
<1>7. ASSUME NEW c \in Clients, NEW r \in Resources, GrantGpu(c, r)
      PROVE  TypeInv'
  <2>1. PICK D \in SUBSET (cmd[c].pool \ UsedDevices(buf[c])), i \in Ids :
            /\ WriteState(c, r, buf[c] \cup {NewRecord(c, r, i, D)})
            /\ Granted(c, NewRecord(c, r, i, D))
    BY <1>7 DEF GrantGpu
  <2>2. NewRecord(c, r, i, D) \in Lease
    BY DEF NewRecord, Lease, Command
  <2>3. IsFiniteSet(buf[c] \cup {NewRecord(c, r, i, D)})
    BY FS_AddElement
  <2>4. budget' \in Nat
    BY <1>7 DEF GrantGpu
  <2>5. buf[c] \cup {NewRecord(c, r, i, D)} \in SUBSET Lease
    BY <2>2
  <2> QED BY ONLY TypeInv, <2>1, <2>2, <2>3, <2>4, <2>5, GrantType,
                  c \in Clients, r \in Resources
<1>8. ASSUME NEW c \in Clients, NEW r \in Resources, GrantCpu(c, r)
      PROVE  TypeInv'
  <2> DEFINE S(i) == buf[c] \cup {NewRecord(c, r, i, {})}
             T(i) == RecomputeCpuJobs(S(i), cmd[c].budget)
  <2>1. PICK i \in Ids :
            /\ WriteState(c, r, T(i))
            /\ \E l \in T(i) : l.id = i /\ Granted(c, l)
    BY <1>8 DEF GrantCpu
  <2>2. S(i) \in SUBSET Lease /\ IsFiniteSet(S(i)) /\ cmd[c].budget \in Nat
    <3>1. NewRecord(c, r, i, {}) \in Lease /\ cmd[c].budget \in Nat
      BY DEF NewRecord, Lease, Command
    <3>2. IsFiniteSet(S(i))
      BY FS_AddElement
    <3> QED BY <3>1, <3>2
  <2> HIDE DEF S
  <2>3. T(i) \in SUBSET Lease /\ IsFiniteSet(T(i))
    BY <2>2, RecomputeType
  <2> HIDE DEF T
  <2>4. budget' \in Nat
    BY <1>8, <2>2 DEF GrantCpu
  <2> QED BY ONLY TypeInv, <2>1, <2>3, <2>4, GrantType, c \in Clients,
                  r \in Resources
<1>9. ASSUME NEW c \in Clients, NEW r \in Resources, Unavailable(c, r)
      PROVE  TypeInv'
  <2>1. WriteState(c, r, buf[c]) /\ UNCHANGED <<budget, got>>
    BY <1>9 DEF Unavailable
  <2>2. NoCommand \in Command
    BY DEF NoCommand, Command, Kinds
  <2>3. /\ pc' \in [Clients -> {"idle", "queued", "locked", "reply"}]
        /\ cmd' \in [Clients -> Command]
    BY <1>9, <2>2 DEF Unavailable, Done
  <2>4. /\ leases' \in [Resources -> SUBSET Lease]
        /\ lock' \in [Resources -> Clients \cup {Nobody}]
        /\ buf' \in [Clients -> SUBSET Lease]
        /\ FiniteFiles'
        /\ UNCHANGED <<held, running, now>>
    BY <2>1, WriteStateType
  <2> QED BY <2>1, <2>3, <2>4
<1> DEFINE B(c) == StoredBudget(c)
<1>10. ASSUME NEW c \in Clients
       PROVE  B(c) \in Nat
  BY DEF StoredBudget, Command
<1>11. ASSUME NEW c \in Clients, NEW r, NEW stop, NextResource(c, r, stop)
       PROVE  /\ pc' \in [Clients -> {"idle", "queued", "locked", "reply"}]
              /\ cmd' \in [Clients -> Command]
  <2>1. NoCommand \in Command
    BY DEF NoCommand, Command, Kinds
  <2>2. [cmd[c] EXCEPT !.todo = @ \ {r}] \in Command
    BY DEF Command
  <2>3. CASE Done(c)
    BY <2>1, <2>3 DEF Done
  <2>4. CASE /\ pc' = [pc EXCEPT ![c] = "queued"]
             /\ cmd' = [cmd EXCEPT ![c].todo = cmd[c].todo \ {r}]
    BY <2>2, <2>4
  <2> QED BY <1>11, <2>3, <2>4 DEF NextResource
<1>12. ASSUME NEW c \in Clients, NEW r \in Resources, ReleaseHere(c, r)
       PROVE  TypeInv'
  <2> DEFINE kept == {l \in buf[c] : l.id # cmd[c].id}
             found == kept # buf[c]
             cpu == found /\ r = HostCpu
             T == IF cpu THEN RecomputeCpuJobs(kept, StoredBudget(c))
                  ELSE IF found THEN kept ELSE leases[r]
  <2>1. /\ WriteState(c, r, T)
        /\ budget' = IF cpu THEN StoredBudget(c) ELSE budget
        /\ NextResource(c, r, FALSE)
        /\ UNCHANGED got
    BY <1>12 DEF ReleaseHere
  <2>2. kept \in SUBSET Lease /\ IsFiniteSet(kept)
    BY FS_Subset
  <2>3. T \in SUBSET Lease /\ IsFiniteSet(T)
    BY <1>10, <2>2, RecomputeType
  <2>4. budget' \in Nat
    BY <1>10, <2>1
  <2> HIDE DEF T
  <2> QED BY <1>11, <2>1, <2>3, <2>4, FS_EmptySet DEF WriteState
<1>13. ASSUME NEW c \in Clients, NEW r \in Resources, PruneHere(c, r)
       PROVE  TypeInv'
  <2> DEFINE T == IF r = HostCpu THEN RecomputeCpuJobs(buf[c], StoredBudget(c))
                  ELSE buf[c]
  <2>1. /\ WriteState(c, r, T)
        /\ budget' = IF r = HostCpu THEN StoredBudget(c) ELSE budget
        /\ \E stop \in BOOLEAN : NextResource(c, r, stop)
        /\ UNCHANGED got
    BY <1>13 DEF PruneHere
  <2>2. T \in SUBSET Lease /\ IsFiniteSet(T)
    BY <1>10, RecomputeType
  <2>3. budget' \in Nat
    BY <1>10, <2>1
  <2> HIDE DEF T
  <2> QED BY <1>11, <2>1, <2>2, <2>3, FS_EmptySet DEF WriteState
<1>14. ASSUME NEW c \in Clients, Reply(c) PROVE TypeInv'
  BY <1>14 DEF Reply, Done, NoCommand, Command, Kinds
<1>15. ASSUME NEW c \in Clients, KillCommand(c) PROVE TypeInv'
  BY <1>15, FS_EmptySet DEF KillCommand, Done, NoCommand, Command, Kinds
<1>16. ASSUME NEW c \in Clients, Die(c) PROVE TypeInv'
  BY <1>16 DEF Die
<1>17. ASSUME NEW c \in Clients, ReusePid(c) PROVE TypeInv'
  BY <1>17 DEF ReusePid
<1>18. CASE Tick
  BY <1>18 DEF Tick
<1>19. CASE UNCHANGED vars
  BY <1>19 DEF vars
<1> QED
  BY <1>1, <1>2, <1>3, <1>4, <1>5, <1>6, <1>7, <1>8, <1>9, <1>12, <1>13,
     <1>14, <1>15, <1>16, <1>17, <1>18, <1>19 DEF Next, Commit

(* TypeOK holds of every reachable state, for every instance. *)
THEOREM TypeCorrect == Spec => []TypeOK
<1>1. TypeInv => TypeOK
  BY DEF TypeInv
<1> QED BY <1>1, TypeInit, TypeStep, PTL DEF Spec

----------------------------------------------------------------------------
(* The inductive invariant behind mutual exclusion *)

\* A flock is held by a command inside its critical section, which holds no
\* other flock.
LockInv ==
    /\ \A r \in Resources : lock[r] # Nobody => pc[lock[r]] = "locked"
    /\ \A r, s \in Resources :
         lock[r] # Nobody /\ lock[r] = lock[s] => r = s

\* A lease waits to be printed only in a command that has written it, and a
\* dead client knows of no lease.
ReplyInv ==
    \A c \in Clients : /\ pc[c] # "reply" => got[c] = {}
                       /\ c \notin running => held[c] = {}

\* Leases carry the PID of their owner, tokens tell the owned leases apart,
\* and a lease is given up before its release starts.
OwnerInv ==
    /\ \A c \in Clients : \A l \in Owned(c) : l.pid = c
    /\ \A c, d \in Clients : \A l \in Owned(c), m \in Owned(d) :
         l.id = m.id => l = m
    /\ \A c, d \in Clients : cmd[c].kind = "release" =>
         \A l \in Owned(d) : l.id # cmd[c].id

ClientInv == LockInv /\ ReplyInv /\ OwnerInv

\* A record for the lease l, whose CPU share may have changed since.
RecordedIn(l, S) ==
    \E m \in S : /\ m.id = l.id
                 /\ m.pid = l.pid
                 /\ m.devices = l.devices
                 /\ m.expiry = l.expiry

\* A list of records without conflicts between them.
Sound(r, S) ==
    /\ r \in Exclusive => \A l, m \in S : l.id = m.id
    /\ r = Gpu => \A l, m \in S : l.id # m.id => l.devices \cap m.devices = {}

\* The files are sound and record the leases in force; so does the list that
\* a command has loaded and is about to write back, which adds nothing yet.
FileInv ==
    /\ \A r \in Resources : Sound(r, leases[r])
    /\ \A l \in InForce : RecordedIn(l, leases[l.resource])
    /\ \A r \in Resources : lock[r] # Nobody =>
         /\ buf[lock[r]] \subseteq leases[r]
         /\ \A l \in InForce : l.resource = r => RecordedIn(l, buf[lock[r]])

LeaseInv == TypeInv /\ ClientInv /\ FileInv

(* The invariant holds initially: nothing is leased. *)
LEMMA LeaseInit == Init => LeaseInv
<1> SUFFICES ASSUME Init PROVE LeaseInv
  OBVIOUS
<1>1. TypeInv
  BY TypeInit
<1>2. ClientInv
  BY LeaseAssumption
  DEF Init, ClientInv, LockInv, ReplyInv, OwnerInv, Owned, NoCommand
<1>3. InForce = {}
  BY DEF Init, InForce, Owned
<1>4. FileInv
  BY <1>3 DEF Init, FileInv, Sound
<1> QED BY <1>1, <1>2, <1>4 DEF LeaseInv

(* What every grant does to the client side: one lease with a fresh token
   and the PID of the client waits to be printed. *)
LEMMA GrantClient ==
    ASSUME LeaseInv, NEW c \in Clients, NEW r \in Resources,
           lock[r] = c, pc[c] = "locked", cmd[c].kind = "acquire",
           NEW S, WriteState(c, r, S),
           NEW l, l.pid = c, Fresh(l.id), Granted(c, l)
    PROVE  ClientInv'
<1> USE LeaseAssumption DEF LeaseInv, TypeInv, TypeOK, ClientInv
<1>1. \A d \in Clients : Owned(d)' = IF d = c THEN held[c] \cup {l} ELSE Owned(d)
  BY DEF Owned, WriteState, Granted
<1>2. \A d \in Clients : Owned(c) = held[c] /\ \A m \in Owned(d) : m.id # l.id
  BY DEF ReplyInv, Owned, Fresh
<1>3. LockInv'
  BY DEF LockInv, WriteState, Granted
<1>4. ReplyInv'
  BY DEF ReplyInv, WriteState, Granted
<1>5. OwnerInv'
  <2>1. \A d \in Clients : \A m \in Owned(d)' : m.pid = d
    BY <1>1, <1>2 DEF OwnerInv
  <2>2. \A d, e \in Clients : \A m \in Owned(d)', n \in Owned(e)' :
          m.id = n.id => m = n
    BY <1>1, <1>2 DEF OwnerInv
  <2>3. \A d, e \in Clients : cmd'[d].kind = "release" =>
          \A m \in Owned(e)' : m.id # cmd'[d].id
    BY <1>1, <1>2 DEF OwnerInv, Granted, Fresh
  <2> QED BY <2>1, <2>2, <2>3 DEF OwnerInv
<1> QED BY <1>3, <1>4, <1>5

(* Writing back and going on to the next resource or ending the command
   gives no client a lease. *)
LEMMA WriteBackClient ==
    ASSUME LeaseInv, NEW c \in Clients, NEW r \in Resources,
           lock[r] = c, pc[c] = "locked", NEW S, WriteState(c, r, S),
           UNCHANGED got,
           \/ Done(c)
           \/ pc' = [pc EXCEPT ![c] = "queued"] /\ UNCHANGED cmd
           \/ /\ pc' = [pc EXCEPT ![c] = "queued"]
              /\ cmd' = [cmd EXCEPT ![c].todo = cmd[c].todo \ {r}]
    PROVE  ClientInv'
<1> USE LeaseAssumption DEF LeaseInv, TypeInv, TypeOK, ClientInv
<1>1. pc' = [pc EXCEPT ![c] = "queued"] \/ pc' = [pc EXCEPT ![c] = "idle"]
  BY DEF Done
<1>2. \A d \in Clients : cmd'[d].kind = "release" =>
         cmd[d].kind = "release" /\ cmd'[d].id = cmd[d].id
  BY DEF Done, NoCommand, Command
<1>3. \A d \in Clients : Owned(d)' = Owned(d)
  BY DEF Owned, WriteState
<1>4. LockInv'
  BY <1>1 DEF LockInv, WriteState
<1>5. ReplyInv'
  BY <1>1 DEF ReplyInv, WriteState
<1>6. OwnerInv'
  BY <1>2, <1>3 DEF OwnerInv
<1> QED BY <1>4, <1>5, <1>6

(* Starting a command that is no release keeps the client side. *)
LEMMA StartClient ==
    ASSUME LeaseInv, NEW c \in Clients, NEW command, Start(c, command),
           command.kind # "release", UNCHANGED held
    PROVE  ClientInv'
<1> USE LeaseAssumption DEF LeaseInv, TypeInv, TypeOK, ClientInv
<1>1. \A d \in Clients : Owned(d)' = Owned(d)
  BY DEF Owned, Start
<1>2. \A d \in Clients : cmd'[d].kind = "release" => cmd'[d] = cmd[d]
  BY DEF Start
<1>3. LockInv' /\ ReplyInv'
  BY DEF LockInv, ReplyInv, Start
<1>4. OwnerInv'
  BY <1>1, <1>2 DEF OwnerInv
<1> QED BY <1>3, <1>4

(* Every step keeps the client side of the invariant. *)
LEMMA ClientStep == LeaseInv /\ [Next]_vars => ClientInv'
<1> SUFFICES ASSUME LeaseInv, [Next]_vars PROVE ClientInv'
  OBVIOUS
<1>1. ASSUME NEW c \in Clients, NEW r \in Resources, Acquire(c, r)
      PROVE  ClientInv'
  BY <1>1, StartClient DEF Acquire
<1>2. ASSUME NEW c \in Clients, NEW l \in held[c], NEW todo \in Todos,
             Release(c, l, todo)
      PROVE  ClientInv'
  <2> USE LeaseAssumption DEF LeaseInv, TypeInv, TypeOK, ClientInv
  <2>1. PICK b \in Budgets : Start(c, Walk("release", todo, l.id, b))
    BY <1>2 DEF Release
  <2>2. /\ cmd' = [cmd EXCEPT ![c] = Walk("release", todo, l.id, b)]
        /\ held' = [held EXCEPT ![c] = held[c] \ {l}]
        /\ UNCHANGED got
        /\ got[c] = {}
    BY <1>2, <2>1 DEF Release, Start, ReplyInv
  <2>3. \A d \in Clients : Owned(d)' = IF d = c THEN Owned(c) \ {l} ELSE Owned(d)
    BY <2>2 DEF Owned
  <2>4. LockInv' /\ ReplyInv'
    BY <2>1, <2>2 DEF LockInv, ReplyInv, Start
  <2>5. l \in Owned(c) /\ l.pid = c
    BY DEF Owned, OwnerInv
  <2>6. \A d \in Clients : \A m \in Owned(d)' : m.id # l.id
    BY <2>3, <2>5 DEF OwnerInv
  <2>7. OwnerInv'
    <3>1. \A d \in Clients : Owned(d)' \subseteq Owned(d)
      BY <2>3
    <3>2. \A d \in Clients : cmd'[d] = IF d = c
                                    THEN Walk("release", todo, l.id, b)
                                    ELSE cmd[d]
      BY <2>2
    <3> QED BY <2>6, <3>1, <3>2 DEF OwnerInv, Walk
  <2> QED BY <2>4, <2>7
<1>3. ASSUME NEW c \in Clients, NEW i \in Ids, NEW todo \in Todos,
             Check(c, i, todo)
      PROVE  ClientInv'
  BY <1>3, StartClient DEF Check, Walk
<1>4. ASSUME NEW c \in Clients, NEW todo \in Todos, ListLeases(c, todo)
      PROVE  ClientInv'
  BY <1>4, StartClient DEF ListLeases, Walk
<1>5. ASSUME NEW c \in Clients, NEW r \in Resources, Lock(c, r)
      PROVE  ClientInv'
  <2> USE LeaseAssumption DEF LeaseInv, TypeInv, TypeOK, ClientInv
  <2>1. LockInv' /\ ReplyInv'
    BY <1>5 DEF LockInv, ReplyInv, Lock
  <2>2. OwnerInv'
    BY <1>5 DEF OwnerInv, Owned, Lock
  <2> QED BY <2>1, <2>2
<1>6. ASSUME NEW c \in Clients, NEW r \in Resources, GrantExclusive(c, r)
      PROVE  ClientInv'
  <2>1. PICK i \in Ids : /\ Fresh(i)
                         /\ WriteState(c, r, {NewRecord(c, r, i, {})})
                         /\ Granted(c, NewRecord(c, r, i, {}))
    BY <1>6 DEF GrantExclusive
  <2>2. /\ NewRecord(c, r, i, {}).pid = c
        /\ NewRecord(c, r, i, {}).id = i
    BY DEF NewRecord
  <2>3. lock[r] = c /\ pc[c] = "locked" /\ cmd[c].kind = "acquire"
    BY <1>6 DEF GrantExclusive, Locked
  <2> QED BY <2>1, <2>2, <2>3, GrantClient
<1>7. ASSUME NEW c \in Clients, NEW r \in Resources, GrantGpu(c, r)
      PROVE  ClientInv'
  <2>1. PICK D \in SUBSET (cmd[c].pool \ UsedDevices(buf[c])), i \in Ids :
            /\ Fresh(i)
            /\ WriteState(c, r, buf[c] \cup {NewRecord(c, r, i, D)})
            /\ Granted(c, NewRecord(c, r, i, D))
    BY <1>7 DEF GrantGpu
  <2>2. /\ NewRecord(c, r, i, D).pid = c
        /\ NewRecord(c, r, i, D).id = i
    BY DEF NewRecord
  <2>3. lock[r] = c /\ pc[c] = "locked" /\ cmd[c].kind = "acquire"
    BY <1>7 DEF GrantGpu, Locked
  <2> QED BY <2>1, <2>2, <2>3, GrantClient
<1>8. ASSUME NEW c \in Clients, NEW r \in Resources, GrantCpu(c, r)
      PROVE  ClientInv'
  <2> DEFINE T(i) == RecomputeCpuJobs(buf[c] \cup {NewRecord(c, r, i, {})},
                                      cmd[c].budget)
  <2>1. PICK i \in Ids :
            /\ Fresh(i)
            /\ WriteState(c, r, T(i))
            /\ \E l \in T(i) : l.id = i /\ Granted(c, l)
    BY <1>8 DEF GrantCpu
  <2>2. PICK l \in T(i) : l.id = i /\ Granted(c, l)
    BY <2>1
  <2>3. l.pid = c
    <3>1. PICK m \in buf[c] \cup {NewRecord(c, r, i, {})} :
            l = [m EXCEPT !.jobs = Share(cmd[c].budget,
                     Cardinality(buf[c] \cup {NewRecord(c, r, i, {})}))]
      BY <2>2 DEF RecomputeCpuJobs
    <3>2. m \in Lease
      BY DEF LeaseInv, TypeInv, TypeOK, Lease, NewRecord, Command
    <3>3. l.id = m.id /\ l.pid = m.pid
      BY <3>1, <3>2 DEF Lease
    <3>4. m = NewRecord(c, r, i, {})
      BY <2>1, <2>2, <3>3 DEF Fresh
    <3> QED BY <3>3, <3>4 DEF NewRecord
  <2>4. lock[r] = c /\ pc[c] = "locked" /\ cmd[c].kind = "acquire"
    BY <1>8 DEF GrantCpu, Locked
  <2> HIDE DEF T
  <2> QED BY <2>1, <2>2, <2>3, <2>4, GrantClient
<1>9. ASSUME NEW c \in Clients, NEW r \in Resources, Unavailable(c, r)
      PROVE  ClientInv'
  BY <1>9, WriteBackClient DEF Unavailable, Locked
<1>10. ASSUME NEW c \in Clients, NEW r \in Resources, ReleaseHere(c, r)
       PROVE  ClientInv'
  <2>1. \E S : WriteState(c, r, S)
    BY <1>10 DEF ReleaseHere
  <2>2. NextResource(c, r, FALSE) /\ UNCHANGED got
    BY <1>10 DEF ReleaseHere
  <2>3. lock[r] = c /\ pc[c] = "locked"
    BY <1>10 DEF ReleaseHere, Locked
  <2> QED BY <2>1, <2>2, <2>3, WriteBackClient DEF NextResource
<1>11. ASSUME NEW c \in Clients, NEW r \in Resources, PruneHere(c, r)
       PROVE  ClientInv'
  <2>1. \E S : WriteState(c, r, S)
    BY <1>11 DEF PruneHere
  <2>2. (\E stop \in BOOLEAN : NextResource(c, r, stop)) /\ UNCHANGED got
    BY <1>11 DEF PruneHere
  <2>3. lock[r] = c /\ pc[c] = "locked"
    BY <1>11 DEF PruneHere, Locked
  <2> QED BY <2>1, <2>2, <2>3, WriteBackClient DEF NextResource
<1> USE LeaseAssumption DEF LeaseInv, TypeInv, TypeOK, ClientInv
<1>12. ASSUME NEW c \in Clients, Reply(c) PROVE ClientInv'
  <2>1. \A d \in Clients : Owned(d)' \subseteq Owned(d)
    BY <1>12 DEF Reply, Owned
  <2>2. \A d \in Clients : cmd'[d].kind = "release" => cmd'[d] = cmd[d]
    BY <1>12 DEF Reply, Done, NoCommand
  <2>3. LockInv' /\ ReplyInv'
    BY <1>12 DEF Reply, Done, LockInv, ReplyInv
  <2>4. OwnerInv'
    BY <2>1, <2>2 DEF OwnerInv
  <2> QED BY <2>3, <2>4
<1>13. ASSUME NEW c \in Clients, KillCommand(c) PROVE ClientInv'
  <2>1. \A d \in Clients : Owned(d)' \subseteq Owned(d)
    BY <1>13 DEF KillCommand, Owned
  <2>2. \A d \in Clients : cmd'[d].kind = "release" => cmd'[d] = cmd[d]
    BY <1>13 DEF KillCommand, Done, NoCommand
  <2>3. LockInv' /\ ReplyInv'
    BY <1>13 DEF KillCommand, Done, LockInv, ReplyInv
  <2>4. OwnerInv'
    BY <2>1, <2>2 DEF OwnerInv
  <2> QED BY <2>3, <2>4
<1>14. ASSUME NEW c \in Clients, Die(c) PROVE ClientInv'
  <2>1. \A d \in Clients : Owned(d)' \subseteq Owned(d)
    BY <1>14 DEF Die, Owned
  <2>2. LockInv' /\ ReplyInv' /\ UNCHANGED cmd
    BY <1>14 DEF Die, LockInv, ReplyInv
  <2>3. OwnerInv'
    BY <2>1, <2>2 DEF OwnerInv
  <2> QED BY <2>2, <2>3
<1>15. ASSUME NEW c \in Clients, ReusePid(c) PROVE ClientInv'
  BY <1>15 DEF ReusePid, LockInv, ReplyInv, OwnerInv, Owned
<1>16. CASE Tick
  BY <1>16 DEF Tick, LockInv, ReplyInv, OwnerInv, Owned
<1>17. CASE UNCHANGED vars
  BY <1>17 DEF vars, LockInv, ReplyInv, OwnerInv, Owned
<1> QED
  BY <1>1, <1>2, <1>3, <1>4, <1>5, <1>6, <1>7, <1>8, <1>9, <1>10, <1>11,
     <1>12, <1>13, <1>14, <1>15, <1>16, <1>17 DEF Next, Commit

(* Membership in InForce, spelled out. *)
LEMMA InForceMember ==
    \A l : l \in InForce <=>
             \E c \in running : l \in Owned(c) /\ l.expiry > now
BY DEF InForce

(* A step that leaves files, flocks and loaded lists alone and brings no
   lease into force keeps the file side. *)
LEMMA QuietFile ==
    ASSUME FileInv, UNCHANGED <<leases, lock, buf>>, InForce' \subseteq InForce
    PROVE  FileInv'
BY DEF FileInv, Sound, RecordedIn

(* Writing the file of r back: what has to hold of the new list. *)
LEMMA WriteBackFile ==
    ASSUME LeaseInv, NEW c \in Clients, NEW r \in Resources, lock[r] = c,
           NEW S, WriteState(c, r, S), Sound(r, S),
           \A l \in InForce' : l.resource = r => RecordedIn(l, S),
           \A l \in InForce' : l.resource # r => l \in InForce,
           InForce' \subseteq Lease
    PROVE  FileInv'
<1> USE LeaseAssumption DEF LeaseInv, TypeInv, TypeOK, WriteState
<1>1. \A s \in Resources : Sound(s, leases'[s])
  BY DEF FileInv, Sound
<1>2. \A l \in InForce' : RecordedIn(l, leases'[l.resource])
  BY DEF FileInv, Lease
<1>3. ASSUME NEW s \in Resources, lock'[s] # Nobody
      PROVE  /\ buf'[lock'[s]] \subseteq leases'[s]
             /\ \A l \in InForce' : l.resource = s =>
                  RecordedIn(l, buf'[lock'[s]])
  <2>1. s # r /\ lock'[s] = lock[s] /\ lock[s] # c
    BY <1>3 DEF ClientInv, LockInv
  <2>2. buf'[lock[s]] = buf[lock[s]] /\ leases'[s] = leases[s]
    BY <1>3, <2>1
  <2> QED BY <1>3, <2>1, <2>2 DEF FileInv
<1> QED BY <1>1, <1>2, <1>3 DEF FileInv, Sound, RecordedIn

(* The records of RecomputeCpuJobs stand for the same leases. *)
LEMMA RecomputeRecords ==
    ASSUME NEW S \in SUBSET Lease, NEW b, NEW l, RecordedIn(l, S)
    PROVE  RecordedIn(l, RecomputeCpuJobs(S, b))
<1>1. PICK m \in S : /\ m.id = l.id
                     /\ m.pid = l.pid
                     /\ m.devices = l.devices
                     /\ m.expiry = l.expiry
  BY DEF RecordedIn
<1> DEFINE n == [m EXCEPT !.jobs = Share(b, Cardinality(S))]
<1>2. n \in RecomputeCpuJobs(S, b)
  BY DEF RecomputeCpuJobs
<1>3. /\ n.id = m.id
      /\ n.pid = m.pid
      /\ n.devices = m.devices
      /\ n.expiry = m.expiry
  BY DEF Lease
<1> QED BY <1>1, <1>2, <1>3 DEF RecordedIn

(* A grant: the written list is the loaded one and the new record, whose
   devices none of the loaded records has. *)
LEMMA GrantFile ==
    ASSUME LeaseInv, TypeInv', NEW c \in Clients, NEW r \in Resources, lock[r] = c,
           pc[c] = "locked", NEW S, WriteState(c, r, S), NEW l \in Lease,
           l.resource = r, Granted(c, l), RecordedIn(l, S), Sound(r, S),
           \A m : RecordedIn(m, buf[c]) => RecordedIn(m, S)
    PROVE  FileInv'
<1> USE LeaseAssumption DEF LeaseInv, TypeInv, TypeOK
<1>1. InForce' \subseteq InForce \cup {l}
  <2>1. /\ \A d \in Clients : Owned(d)' \subseteq Owned(d) \cup {l}
        /\ UNCHANGED <<running, now>>
    BY DEF Owned, WriteState, Granted
  <2> QED BY <2>1 DEF InForce
<1>2. \A m \in InForce : m.resource = r => RecordedIn(m, buf[c])
  BY DEF FileInv
<1>3. \A m \in InForce' : m.resource = r => RecordedIn(m, S)
  BY <1>1, <1>2
<1>4. \A m \in InForce' : m.resource # r => m \in InForce
  BY <1>1
<1>5. InForce \subseteq Lease
  BY DEF InForce, Owned
<1> QED BY <1>1, <1>3, <1>4, <1>5, WriteBackFile

(* Every step keeps the file side of the invariant. *)
LEMMA FileStep == LeaseInv /\ TypeInv' /\ [Next]_vars => FileInv'
<1> SUFFICES ASSUME LeaseInv, TypeInv', [Next]_vars PROVE FileInv'
  OBVIOUS
<1> USE LeaseAssumption DEF LeaseInv, TypeInv, TypeOK
<1>1. ASSUME NEW c \in Clients, NEW command, Start(c, command),
             \A d \in Clients : held'[d] \subseteq held[d]
      PROVE  FileInv'
  <2>1. InForce' \subseteq InForce
    BY <1>1 DEF InForce, Owned, Start
  <2> QED BY <1>1, <2>1, QuietFile DEF Start
<1>2. ASSUME NEW c \in Clients, NEW r \in Resources, Acquire(c, r)
      PROVE  FileInv'
  BY <1>1, <1>2 DEF Acquire
<1>3. ASSUME NEW c \in Clients, NEW l \in held[c], NEW todo \in Todos,
             Release(c, l, todo)
      PROVE  FileInv'
  BY <1>1, <1>3 DEF Release
<1>4. ASSUME NEW c \in Clients, NEW i \in Ids, NEW todo \in Todos,
             Check(c, i, todo)
      PROVE  FileInv'
  BY <1>1, <1>4 DEF Check
<1>5. ASSUME NEW c \in Clients, NEW todo \in Todos, ListLeases(c, todo)
      PROVE  FileInv'
  BY <1>1, <1>5 DEF ListLeases
<1>6. ASSUME NEW c \in Clients, NEW r \in Resources, Lock(c, r)
      PROVE  FileInv'
  <2>1. InForce' = InForce /\ UNCHANGED <<leases, running, now>>
    BY <1>6 DEF Lock, InForce, Owned
  <2>2. buf'[c] \subseteq leases[r]
    BY <1>6 DEF Lock, ActiveLeases
  <2>3. ASSUME NEW l \in InForce, l.resource = r
        PROVE  RecordedIn(l, buf'[c])
    <3>1. l.pid \in running /\ l.expiry > now
      BY InForceMember DEF ClientInv, OwnerInv
    <3>2. PICK m \in leases[r] : /\ m.id = l.id
                                 /\ m.pid = l.pid
                                 /\ m.devices = l.devices
                                 /\ m.expiry = l.expiry
      BY <2>3 DEF FileInv, RecordedIn
    <3>3. m \in ActiveLeases(c, leases[r])
      BY <3>1, <3>2 DEF ActiveLeases, PidAlive
    <3>4. m \in buf'[c]
      BY <1>6, <3>2, <3>3 DEF Lock
    <3> QED BY <3>2, <3>4 DEF RecordedIn
  <2>4. ASSUME NEW s \in Resources, lock'[s] # Nobody
        PROVE  /\ buf'[lock'[s]] \subseteq leases[s]
               /\ \A l \in InForce : l.resource = s =>
                    RecordedIn(l, buf'[lock'[s]])
    <3>1. CASE s = r
      BY <1>6, <2>2, <2>3, <3>1 DEF Lock
    <3>2. CASE s # r
      <4>1. lock'[s] = lock[s] /\ lock[s] # c
        BY <1>6, <2>4, <3>2 DEF Lock, ClientInv, LockInv
      <4>2. buf'[lock[s]] = buf[lock[s]]
        BY <1>6, <2>4, <4>1 DEF Lock
      <4> QED BY <2>4, <4>1, <4>2 DEF FileInv
    <3> QED BY <3>1, <3>2
  <2> QED BY <2>1, <2>4 DEF FileInv, Sound, RecordedIn
<1>7. ASSUME NEW c \in Clients, NEW r \in Resources, lock[r] = c
      PROVE  /\ Sound(r, buf[c])
             /\ \A l \in InForce : l.resource = r => RecordedIn(l, buf[c])
  BY <1>7 DEF FileInv, Sound
<1>8. ASSUME NEW c \in Clients, NEW r \in Resources, GrantExclusive(c, r)
      PROVE  FileInv'
  <2>1. PICK i \in Ids : /\ WriteState(c, r, {NewRecord(c, r, i, {})})
                         /\ Granted(c, NewRecord(c, r, i, {}))
    BY <1>8 DEF GrantExclusive
  <2> DEFINE l == NewRecord(c, r, i, {})
  <2>2. l \in Lease /\ l.resource = r
    BY DEF NewRecord, Lease, Command
  <2>3. lock[r] = c /\ pc[c] = "locked" /\ buf[c] = {} /\ r \in Exclusive
    BY <1>8 DEF GrantExclusive, Locked
  <2>4. RecordedIn(l, {l}) /\ Sound(r, {l})
    BY <2>3 DEF RecordedIn, Sound
  <2>5. \A m : RecordedIn(m, buf[c]) => RecordedIn(m, {l})
    BY <2>3 DEF RecordedIn
  <2> HIDE DEF l
  <2> QED BY <2>1, <2>2, <2>3, <2>4, <2>5, GrantFile DEF l
<1>9. ASSUME NEW c \in Clients, NEW r \in Resources, GrantGpu(c, r)
      PROVE  FileInv'
  <2>1. PICK D \in SUBSET (cmd[c].pool \ UsedDevices(buf[c])), i \in Ids :
            /\ WriteState(c, r, buf[c] \cup {NewRecord(c, r, i, D)})
            /\ Granted(c, NewRecord(c, r, i, D))
    BY <1>9 DEF GrantGpu
  <2> DEFINE l == NewRecord(c, r, i, D)
             S == buf[c] \cup {l}
  <2>2. l \in Lease /\ l.resource = r /\ l.devices = D
    BY DEF NewRecord, Lease, Command
  <2>3. lock[r] = c /\ pc[c] = "locked" /\ r = Gpu /\ r \notin Exclusive
    BY <1>9 DEF GrantGpu, Locked
  <2> HIDE DEF l
  <2>4. \A m \in buf[c] : m.devices \cap l.devices = {}
    BY <2>2 DEF UsedDevices
  <2>5. Sound(r, S)
    BY <1>7, <2>3, <2>4 DEF Sound
  <2>6. RecordedIn(l, S) /\ \A m : RecordedIn(m, buf[c]) => RecordedIn(m, S)
    BY DEF RecordedIn
  <2>7. WriteState(c, r, S) /\ Granted(c, l)
    BY <2>1 DEF l
  <2> HIDE DEF S
  <2> QED BY <2>2, <2>3, <2>5, <2>6, <2>7, GrantFile
<1>10. ASSUME NEW c \in Clients, NEW r \in Resources, GrantCpu(c, r)
       PROVE  FileInv'
  <2> DEFINE n(i) == NewRecord(c, r, i, {})
             S(i) == buf[c] \cup {n(i)}
             T(i) == RecomputeCpuJobs(S(i), cmd[c].budget)
  <2>1. PICK i \in Ids : /\ Fresh(i)
                         /\ WriteState(c, r, T(i))
                         /\ \E l \in T(i) : l.id = i /\ Granted(c, l)
    BY <1>10 DEF GrantCpu
  <2>2. PICK l \in T(i) : l.id = i /\ Granted(c, l)
    BY <2>1
  <2>3. n(i) \in Lease /\ n(i).resource = r /\ n(i).id = i
    BY DEF NewRecord, Lease, Command
  <2>4. lock[r] = c /\ pc[c] = "locked" /\ r = HostCpu
    BY <1>10 DEF GrantCpu, Locked
  <2>5. PICK m \in S(i) :
          l = [m EXCEPT !.jobs = Share(cmd[c].budget, Cardinality(S(i)))]
    BY <2>2 DEF RecomputeCpuJobs
  <2>6. S(i) \in SUBSET Lease /\ IsFiniteSet(S(i)) /\ cmd[c].budget \in Nat
    <3>1. IsFiniteSet(buf[c]) /\ cmd[c].budget \in Nat
      BY DEF FiniteFiles, Command
    <3> QED BY <2>3, <3>1, FS_AddElement
  <2>7. l.id = m.id /\ l.resource = m.resource
    BY <2>5, <2>6 DEF Lease
  <2>8. m = n(i)
    BY <2>1, <2>2, <2>7 DEF Fresh
  <2> HIDE DEF n
  <2>9. \A k : RecordedIn(k, buf[c]) => RecordedIn(k, S(i))
    BY DEF RecordedIn
  <2> HIDE DEF S
  <2>10. \A k : RecordedIn(k, buf[c]) => RecordedIn(k, T(i))
    BY <2>6, <2>9, RecomputeRecords
  <2>11. l \in Lease
    BY <2>6, <2>2, RecomputeType
  <2> HIDE DEF T
  <2>12. RecordedIn(l, T(i))
    BY <2>2 DEF RecordedIn
  <2>13. Sound(r, T(i))
    BY <2>4 DEF Sound
  <2>14. l.resource = r
    BY <2>3, <2>7, <2>8
  <2> QED BY <2>1, <2>2, <2>4, <2>10, <2>11, <2>12, <2>13, <2>14, GrantFile
<1>11. ASSUME NEW c \in Clients, NEW r, NEW S, WriteState(c, r, S), UNCHANGED got
       PROVE  InForce' = InForce /\ InForce \subseteq Lease
  BY <1>11 DEF InForce, Owned, WriteState
<1>12. ASSUME NEW c \in Clients, NEW r \in Resources, Unavailable(c, r)
       PROVE  FileInv'
  <2>1. WriteState(c, r, buf[c]) /\ UNCHANGED got /\ lock[r] = c
    BY <1>12 DEF Unavailable, Locked
  <2> QED BY <1>7, <1>11, <2>1, WriteBackFile
<1>13. ASSUME NEW c \in Clients, NEW r \in Resources, ReleaseHere(c, r)
       PROVE  FileInv'
  <2> DEFINE kept == {l \in buf[c] : l.id # cmd[c].id}
             found == kept # buf[c]
             cpu == found /\ r = HostCpu
             T == IF cpu THEN RecomputeCpuJobs(kept, StoredBudget(c))
                  ELSE IF found THEN kept ELSE leases[r]
  <2>1. /\ WriteState(c, r, T)
        /\ UNCHANGED got
        /\ lock[r] = c
        /\ cmd[c].kind = "release"
    BY <1>13 DEF ReleaseHere, Locked
  <2>2. ASSUME NEW l \in InForce, l.resource = r
        PROVE  RecordedIn(l, kept)
    <3>1. l.id # cmd[c].id
      BY <2>1, InForceMember DEF ClientInv, OwnerInv
    <3>2. RecordedIn(l, buf[c])
      BY <1>7, <2>1, <2>2
    <3> QED BY <3>1, <3>2 DEF RecordedIn
  <2>3. Sound(r, kept) /\ Sound(r, leases[r])
    BY <1>7, <2>1 DEF Sound, FileInv
  <2>4. kept \in SUBSET Lease
    OBVIOUS
  <2>5. ASSUME NEW l \in InForce, l.resource = r
        PROVE  RecordedIn(l, T)
    <3>1. RecordedIn(l, kept) /\ RecordedIn(l, leases[r])
      BY <2>2, <2>5 DEF FileInv
    <3> QED BY <2>4, <3>1, RecomputeRecords
  <2>6. Sound(r, T)
    <3>1. CASE r = HostCpu
      BY <3>1 DEF Sound
    <3>2. CASE r # HostCpu
      BY <2>3, <3>2
    <3> QED BY <3>1, <3>2
  <2> HIDE DEF T
  <2> QED BY <1>11, <2>1, <2>5, <2>6, WriteBackFile
<1>14. ASSUME NEW c \in Clients, NEW r \in Resources, PruneHere(c, r)
       PROVE  FileInv'
  <2> DEFINE T == IF r = HostCpu THEN RecomputeCpuJobs(buf[c], StoredBudget(c))
                  ELSE buf[c]
  <2>1. WriteState(c, r, T) /\ UNCHANGED got /\ lock[r] = c
    BY <1>14 DEF PruneHere, Locked
  <2>2. ASSUME NEW l \in InForce, l.resource = r
        PROVE  RecordedIn(l, T)
    <3>1. RecordedIn(l, buf[c])
      BY <1>7, <2>1, <2>2
    <3> QED BY <3>1, RecomputeRecords
  <2>3. Sound(r, T)
    <3>1. CASE r = HostCpu
      BY <3>1 DEF Sound
    <3>2. CASE r # HostCpu
      BY <1>7, <2>1, <3>2
    <3> QED BY <3>1, <3>2
  <2> HIDE DEF T
  <2> QED BY <1>11, <2>1, <2>2, <2>3, WriteBackFile
<1>15. ASSUME NEW c \in Clients, Reply(c) PROVE FileInv'
  <2>1. InForce' \subseteq InForce
    BY <1>15 DEF Reply, InForce, Owned
  <2> QED BY <1>15, <2>1, QuietFile DEF Reply
<1>16. ASSUME NEW c \in Clients, KillCommand(c) PROVE FileInv'
  <2>1. InForce' \subseteq InForce /\ UNCHANGED leases
    BY <1>16 DEF KillCommand, InForce, Owned
  <2>2. \A s \in Resources : lock'[s] # Nobody =>
          lock'[s] = lock[s] /\ buf'[lock[s]] = buf[lock[s]]
    BY <1>16 DEF KillCommand
  <2> QED BY <2>1, <2>2 DEF FileInv, Sound, RecordedIn
<1>17. ASSUME NEW c \in Clients, Die(c) PROVE FileInv'
  <2>1. InForce' \subseteq InForce
    BY <1>17 DEF Die, InForce, Owned
  <2> QED BY <1>17, <2>1, QuietFile DEF Die
<1>18. ASSUME NEW c \in Clients, ReusePid(c) PROVE FileInv'
  <2>1. held[c] = {} /\ got[c] = {}
    BY <1>18 DEF ReusePid, ClientInv, ReplyInv
  <2>2. InForce' \subseteq InForce
    BY <1>18, <2>1 DEF ReusePid, InForce, Owned
  <2> QED BY <1>18, <2>2, QuietFile DEF ReusePid
<1>19. CASE Tick
  <2>1. InForce' \subseteq InForce
    BY <1>19 DEF Tick, InForce, Owned, Lease
  <2> QED BY <1>19, <2>1, QuietFile DEF Tick
<1>20. CASE UNCHANGED vars
  <2>1. InForce' \subseteq InForce
    BY <1>20 DEF vars, InForce, Owned
  <2> QED BY <1>20, <2>1, QuietFile DEF vars
<1> QED
  BY <1>2, <1>3, <1>4, <1>5, <1>6, <1>8, <1>9, <1>10, <1>12, <1>13, <1>14,
     <1>15, <1>16, <1>17, <1>18, <1>19, <1>20 DEF Next, Commit

(* The whole invariant is inductive. *)
LEMMA LeaseStep == LeaseInv /\ [Next]_vars => LeaseInv'
BY TypeStep, ClientStep, FileStep DEF LeaseInv

LEMMA LeaseInvariant == Spec => []LeaseInv
BY LeaseInit, LeaseStep, PTL DEF Spec

(* A lease in force is recorded in its file: no command of another client
   prunes it or writes over it. *)
THEOREM Recorded == Spec => []InForceRecorded
<1>1. LeaseInv => InForceRecorded
  BY DEF LeaseInv, FileInv, InForceRecorded, RecordedIn
<1> QED BY <1>1, LeaseInvariant, PTL

(* Sound files that record the leases in force exclude conflicts. *)
LEMMA ExclusionState == LeaseInv => HoldersExclude
<1> SUFFICES ASSUME LeaseInv, NEW l \in InForce, NEW m \in InForce,
                    Conflict(l, m)
             PROVE  FALSE
  BY DEF HoldersExclude
<1>1. l \in Lease /\ l.resource \in Resources
  BY DEF LeaseInv, TypeInv, TypeOK, InForce, Owned, Lease
<1>2. PICK x \in leases[l.resource] : x.id = l.id /\ x.devices = l.devices
  BY DEF LeaseInv, FileInv, RecordedIn
<1>3. PICK y \in leases[l.resource] : y.id = m.id /\ y.devices = m.devices
  BY DEF LeaseInv, FileInv, RecordedIn, Conflict
<1>4. Sound(l.resource, leases[l.resource])
  BY <1>1 DEF LeaseInv, FileInv
<1> QED BY <1>2, <1>3, <1>4 DEF Sound, Conflict

(* Leases in force never conflict: at most one running client relies on an
   unexpired lease of an exclusive resource, and device sets are disjoint. *)
THEOREM Exclusion == Spec => []HoldersExclude
BY ExclusionState, LeaseInvariant, PTL

----------------------------------------------------------------------------
(* The shares of the host-cpu file *)

\* Tokens tell the records of the host-cpu file apart, so that recomputing
\* the shares does not change their number.
TokensDiffer(S) == \A l, m \in S : l.id = m.id => l = m

ShareInv ==
    /\ HostCpu \in Resources => TokensDiffer(leases[HostCpu])
    /\ SharesSplitBudget

(* The list S splits the budget b. *)
Splits(S, b) ==
    \A l \in S : /\ l.jobs = Share(b, Cardinality(S))
                 /\ Cardinality(S) * l.jobs <= b \/ l.jobs = 1

(* The shares of n holders fit the budget, unless everybody has one job. *)
LEMMA SharesFit ==
    ASSUME NEW b \in Nat, NEW n \in Nat \ {0}
    PROVE  n * Share(b, n) <= b \/ Share(b, n) = 1
<1>1. n * (b \div n) <= b
  OBVIOUS
<1>2. CASE n > 1
  BY <1>1, <1>2 DEF Share
<1>3. CASE n = 1
  BY <1>3 DEF Share
<1> QED BY <1>2, <1>3

(* Recomputing keeps the number of the records and their tokens apart, and
   splits the budget (_recompute_cpu_jobs). *)
LEMMA RecomputeSplits ==
    ASSUME NEW S \in SUBSET Lease, IsFiniteSet(S), TokensDiffer(S), NEW b \in Nat
    PROVE  /\ TokensDiffer(RecomputeCpuJobs(S, b))
           /\ Splits(RecomputeCpuJobs(S, b), b)
<1> DEFINE k == Share(b, Cardinality(S))
           g(l) == [l EXCEPT !.jobs = k]
           T == {g(l) : l \in S}
           f == [l \in S |-> g(l)]
<1>1. Cardinality(S) \in Nat
  BY FS_CardinalityType
<1>2. k \in Nat
  BY <1>1, SharePositive
<1>3. \A l \in S : g(l).id = l.id /\ g(l).jobs = k
  BY <1>2 DEF Lease
<1> HIDE DEF k, g
<1>4. TokensDiffer(T)
  BY <1>3 DEF TokensDiffer
<1>5. f \in Bijection(S, T)
  <2>1. ASSUME NEW l \in S, NEW m \in S, g(l) = g(m)
        PROVE  l = m
    <3>1. l.id = m.id
      BY <1>3, <2>1
    <3> QED BY <3>1 DEF TokensDiffer
  <2>2. f \in Surjection(S, T)
    BY Zenon DEF Surjection
  <2>3. f \in Injection(S, T)
    BY <2>1 DEF Injection, IsInjective
  <2> QED BY <2>2, <2>3, Zenon DEF Bijection
<1>6. Cardinality(T) = Cardinality(S)
  <2>1. ExistsBijection(S, T)
    BY <1>5, Zenon DEF ExistsBijection
  <2> QED BY <2>1, FS_Bijection, Zenon
<1>7. ASSUME NEW l \in T
      PROVE  /\ l.jobs = Share(b, Cardinality(T))
             /\ Cardinality(T) * l.jobs <= b \/ l.jobs = 1
  <2>1. l.jobs = k
    BY <1>3
  <2>2. S # {}
    OBVIOUS
  <2>3. Cardinality(S) # 0
    BY <2>2, FS_EmptySet
  <2>4. Cardinality(S) * k <= b \/ k = 1
    BY <1>1, <2>3, SharesFit DEF k
  <2> QED BY <1>6, <2>1, <2>4 DEF k
<1>8. RecomputeCpuJobs(S, b) = T
  BY Zenon DEF RecomputeCpuJobs, g, k
<1> HIDE DEF T
<1> QED BY <1>4, <1>7, <1>8 DEF Splits

(* A step that leaves the host-cpu file alone. *)
LEMMA QuietShares ==
    ASSUME ShareInv, HostCpu \in Resources =>
             leases'[HostCpu] = leases[HostCpu] /\ budget' = budget
    PROVE  ShareInv'
BY DEF ShareInv, SharesSplitBudget, TokensDiffer, Share

(* A write of another file. *)
LEMMA OtherFile ==
    ASSUME ShareInv, TypeInv, NEW c, NEW r \in Resources, r # HostCpu,
           NEW S, WriteState(c, r, S), budget' = budget
    PROVE  ShareInv'
BY QuietShares DEF WriteState, TypeInv, TypeOK

(* A write of the host-cpu file with recomputed shares. *)
LEMMA SharedFile ==
    ASSUME TypeInv, HostCpu \in Resources, NEW c, NEW S \in SUBSET Lease,
           IsFiniteSet(S), TokensDiffer(S), NEW b \in Nat,
           WriteState(c, HostCpu, RecomputeCpuJobs(S, b)), budget' = b
    PROVE  ShareInv'
<1> DEFINE T == RecomputeCpuJobs(S, b)
<1>1. TokensDiffer(T) /\ Splits(T, b)
  BY RecomputeSplits
<1> HIDE DEF T
<1>2. leases'[HostCpu] = T
  BY DEF WriteState, TypeInv, TypeOK, T
<1> QED BY <1>1, <1>2 DEF ShareInv, SharesSplitBudget, TokensDiffer, Splits, Share

(* Every step keeps the budget split. *)
LEMMA ShareStep == LeaseInv /\ ShareInv /\ [Next]_vars => ShareInv'
<1> SUFFICES ASSUME LeaseInv, ShareInv, [Next]_vars PROVE ShareInv'
  OBVIOUS
<1>t. TypeInv
  BY DEF LeaseInv
<1>q. UNCHANGED <<leases, budget>> => ShareInv'
  BY QuietShares
<1>1. ASSUME NEW c \in Clients, NEW r \in Resources, Acquire(c, r) \/ Lock(c, r)
      PROVE  ShareInv'
  BY <1>1, <1>q DEF Acquire, Start, Lock
<1>2. ASSUME NEW c \in Clients, NEW r \in Resources, lock[r] = c
      PROVE  /\ buf[c] \in SUBSET Lease /\ IsFiniteSet(buf[c])
             /\ r = HostCpu => TokensDiffer(buf[c])
             /\ StoredBudget(c) \in Nat /\ cmd[c].budget \in Nat
  <2>1. buf[c] \subseteq leases[r]
    BY <1>2, LeaseAssumption DEF LeaseInv, FileInv
  <2>2. cmd[c].budget \in Nat
    BY <1>t DEF TypeInv, TypeOK, Command
  <2> QED BY <1>t, <2>1, <2>2
          DEF TypeInv, TypeOK, FiniteFiles, StoredBudget, ShareInv, TokensDiffer
<1>3. ASSUME NEW c \in Clients, NEW r \in Resources, GrantExclusive(c, r)
      PROVE  ShareInv'
  BY <1>3, <1>t, LeaseAssumption, OtherFile DEF GrantExclusive
<1>4. ASSUME NEW c \in Clients, NEW r \in Resources, GrantGpu(c, r)
      PROVE  ShareInv'
  <2>1. PICK S : WriteState(c, r, S)
    BY <1>4 DEF GrantGpu
  <2>2. r # HostCpu /\ budget' = budget
    BY <1>4, LeaseAssumption DEF GrantGpu
  <2> QED BY <1>t, <2>1, <2>2, OtherFile
<1>5. ASSUME NEW c \in Clients, NEW r \in Resources, GrantCpu(c, r)
      PROVE  ShareInv'
  <2>1. lock[r] = c /\ r = HostCpu /\ budget' = cmd[c].budget
    BY <1>5 DEF GrantCpu, Locked
  <2> DEFINE n(i) == NewRecord(c, r, i, {})
             S(i) == buf[c] \cup {n(i)}
  <2>2. PICK i \in Ids :
          /\ Fresh(i)
          /\ WriteState(c, r, RecomputeCpuJobs(S(i), cmd[c].budget))
    BY <1>5 DEF GrantCpu
  <2>3. n(i) \in Lease /\ n(i).id = i
    BY <1>t DEF NewRecord, Lease, Command, TypeInv, TypeOK
  <2>4. \A l \in buf[c] : l.id # i
    BY <2>2 DEF Fresh
  <2> HIDE DEF n
  <2>5. TokensDiffer(S(i))
    BY <1>2, <2>1, <2>3, <2>4 DEF TokensDiffer
  <2>6. S(i) \in SUBSET Lease /\ IsFiniteSet(S(i))
    BY <1>2, <2>1, <2>3, FS_AddElement
  <2> HIDE DEF S
  <2> QED BY <1>2, <1>t, <2>1, <2>2, <2>5, <2>6, SharedFile
<1>6. ASSUME NEW c \in Clients, NEW r \in Resources, Unavailable(c, r)
      PROVE  ShareInv'
  <2>1. WriteState(c, r, buf[c]) /\ budget' = budget /\ r # HostCpu
    BY <1>6, LeaseAssumption DEF Unavailable, Taken
  <2> QED BY <1>t, <2>1, OtherFile
<1>7. ASSUME NEW c \in Clients, NEW r \in Resources, ReleaseHere(c, r)
      PROVE  ShareInv'
  <2> DEFINE kept == {l \in buf[c] : l.id # cmd[c].id}
             found == kept # buf[c]
  <2>1. /\ lock[r] = c
        /\ WriteState(c, r, IF found /\ r = HostCpu
                            THEN RecomputeCpuJobs(kept, StoredBudget(c))
                            ELSE IF found THEN kept ELSE leases[r])
        /\ budget' = IF found /\ r = HostCpu THEN StoredBudget(c) ELSE budget
    BY <1>7 DEF ReleaseHere, Locked
  <2>2. kept \in SUBSET Lease /\ IsFiniteSet(kept)
    BY <1>2, <2>1, FS_Subset
  <2>3. r = HostCpu => TokensDiffer(kept)
    BY <1>2, <2>1 DEF TokensDiffer
  <2> HIDE DEF kept
  <2>4. CASE r # HostCpu
    BY <1>t, <2>1, <2>4, OtherFile
  <2>5. CASE r = HostCpu /\ found
    BY <1>2, <1>t, <2>1, <2>2, <2>3, <2>5, SharedFile
  <2>6. CASE r = HostCpu /\ ~ found
    BY <1>t, <2>1, <2>6, QuietShares DEF WriteState, TypeInv, TypeOK
  <2> QED BY <2>4, <2>5, <2>6
<1>8. ASSUME NEW c \in Clients, NEW r \in Resources, PruneHere(c, r)
      PROVE  ShareInv'
  <2>1. /\ lock[r] = c
        /\ WriteState(c, r, IF r = HostCpu
                            THEN RecomputeCpuJobs(buf[c], StoredBudget(c))
                            ELSE buf[c])
        /\ budget' = IF r = HostCpu THEN StoredBudget(c) ELSE budget
    BY <1>8 DEF PruneHere, Locked
  <2>2. CASE r # HostCpu
    BY <1>t, <2>1, <2>2, OtherFile
  <2>3. CASE r = HostCpu
    BY <1>2, <1>t, <2>1, <2>3, SharedFile
  <2> QED BY <2>2, <2>3
<1>9. ASSUME NEW c \in Clients, NEW l \in held[c], NEW todo \in Todos,
             Release(c, l, todo)
      PROVE  ShareInv'
  BY <1>9, <1>q DEF Release, Start
<1>10. ASSUME NEW c \in Clients, NEW i \in Ids, NEW todo \in Todos,
              Check(c, i, todo)
       PROVE  ShareInv'
  BY <1>10, <1>q DEF Check, Start
<1>11. ASSUME NEW c \in Clients, NEW todo \in Todos, ListLeases(c, todo)
       PROVE  ShareInv'
  BY <1>11, <1>q DEF ListLeases, Start
<1>12. ASSUME NEW c \in Clients, Reply(c) \/ KillCommand(c) \/ Die(c) \/ ReusePid(c)
       PROVE  ShareInv'
  BY <1>12, <1>q DEF Reply, KillCommand, Die, ReusePid
<1>13. CASE Tick \/ UNCHANGED vars
  BY <1>13, <1>q DEF Tick, vars
<1> QED
  BY <1>1, <1>3, <1>4, <1>5, <1>6, <1>7, <1>8, <1>9, <1>10, <1>11, <1>12,
     <1>13 DEF Next, Commit

(* The records of the host-cpu file have the share of their present number,
   and together they fit the budget unless each is down to one job, after
   every acquire, release and prune (_recompute_cpu_jobs). *)
THEOREM SharesFollow == Spec => []SharesSplitBudget
<1>1. Init => ShareInv
  BY DEF Init, ShareInv, SharesSplitBudget, TokensDiffer
<1>2. ShareInv => SharesSplitBudget
  BY DEF ShareInv
<1> QED BY <1>1, <1>2, ShareStep, LeaseInvariant, PTL DEF Spec

----------------------------------------------------------------------------
(* The command implements LeaseGrants *)

(* A grant adds at most its lease to the leases in force. *)
LEMMA GrantInForce ==
    ASSUME LeaseInv, NEW c \in Clients, pc[c] = "locked", NEW r, NEW S,
           WriteState(c, r, S), NEW l, Granted(c, l)
    PROVE  InForce' = InForce \/ InForce' = InForce \cup {l}
<1> USE DEF LeaseInv, TypeInv, TypeOK
<1>1. got[c] = {}
  BY DEF ClientInv, ReplyInv
<1>2. \A d \in Clients : Owned(d)' = IF d = c THEN Owned(c) \cup {l} ELSE Owned(d)
  BY <1>1 DEF Owned, WriteState, Granted
<1>3. UNCHANGED <<running, now>>
  BY DEF WriteState
<1>4. CASE c \in running /\ l.expiry > now
  <2>1. InForce' = InForce \cup {l}
    BY <1>2, <1>3, <1>4 DEF InForce
  <2> QED BY <2>1
<1>5. CASE ~ (c \in running /\ l.expiry > now)
  <2>1. InForce' = InForce
    BY <1>2, <1>3, <1>5 DEF InForce
  <2> QED BY <2>1
<1> QED BY <1>4, <1>5

(* A step brings at most one lease into force, and takes none out with it. *)
LEMMA InForceStep ==
    ASSUME LeaseInv, [Next]_vars
    PROVE  InForce' \subseteq InForce \/ \E l : InForce' = InForce \cup {l}
<1> USE DEF LeaseInv, TypeInv, TypeOK
<1>1. ASSUME NEW c \in Clients, NEW command, Start(c, command),
             \A d \in Clients : held'[d] \subseteq held[d]
      PROVE  InForce' \subseteq InForce
  BY <1>1 DEF InForce, Owned, Start
<1>2. ASSUME NEW c \in Clients, NEW r \in Resources, Acquire(c, r)
      PROVE  InForce' \subseteq InForce
  BY <1>1, <1>2 DEF Acquire
<1>3. ASSUME NEW c \in Clients, NEW l \in held[c], NEW todo \in Todos,
             Release(c, l, todo)
      PROVE  InForce' \subseteq InForce
  BY <1>1, <1>3 DEF Release
<1>4. ASSUME NEW c \in Clients, NEW i \in Ids, NEW todo \in Todos,
             Check(c, i, todo)
      PROVE  InForce' \subseteq InForce
  BY <1>1, <1>4 DEF Check
<1>5. ASSUME NEW c \in Clients, NEW todo \in Todos, ListLeases(c, todo)
      PROVE  InForce' \subseteq InForce
  BY <1>1, <1>5 DEF ListLeases
<1>6. ASSUME NEW c \in Clients, NEW r \in Resources, Lock(c, r)
      PROVE  InForce' \subseteq InForce
  BY <1>6 DEF Lock, InForce, Owned
<1>7. ASSUME NEW c \in Clients, NEW r \in Resources, GrantExclusive(c, r)
      PROVE  InForce' = InForce \/ \E l : InForce' = InForce \cup {l}
  BY <1>7, GrantInForce DEF GrantExclusive, Locked
<1>8. ASSUME NEW c \in Clients, NEW r \in Resources, GrantGpu(c, r)
      PROVE  InForce' = InForce \/ \E l : InForce' = InForce \cup {l}
  <2>1. PICK S, l : WriteState(c, r, S) /\ Granted(c, l)
    BY <1>8 DEF GrantGpu
  <2> QED BY <1>8, <2>1, GrantInForce DEF GrantGpu, Locked
<1>9. ASSUME NEW c \in Clients, NEW r \in Resources, GrantCpu(c, r)
      PROVE  InForce' = InForce \/ \E l : InForce' = InForce \cup {l}
  <2>1. PICK S, l : WriteState(c, r, S) /\ Granted(c, l)
    BY <1>9 DEF GrantCpu
  <2> QED BY <1>9, <2>1, GrantInForce DEF GrantCpu, Locked
<1>10. ASSUME NEW c \in Clients, NEW r \in Resources,
              Unavailable(c, r) \/ ReleaseHere(c, r) \/ PruneHere(c, r)
       PROVE  InForce' \subseteq InForce
  <2>1. UNCHANGED <<held, got, running, now>>
    BY <1>10 DEF Unavailable, ReleaseHere, PruneHere, WriteState
  <2> QED BY <2>1 DEF InForce, Owned
<1>11. ASSUME NEW c \in Clients, Reply(c) PROVE InForce' \subseteq InForce
  BY <1>11 DEF Reply, InForce, Owned
<1>12. ASSUME NEW c \in Clients, KillCommand(c) PROVE InForce' \subseteq InForce
  BY <1>12 DEF KillCommand, InForce, Owned
<1>13. ASSUME NEW c \in Clients, Die(c) PROVE InForce' \subseteq InForce
  BY <1>13 DEF Die, InForce, Owned
<1>14. ASSUME NEW c \in Clients, ReusePid(c) PROVE InForce' \subseteq InForce
  <2>1. held[c] = {} /\ got[c] = {}
    BY <1>14 DEF ReusePid, ClientInv, ReplyInv
  <2> QED BY <1>14, <2>1 DEF ReusePid, InForce, Owned
<1>15. CASE Tick
  BY <1>15 DEF Tick, InForce, Owned, Lease
<1>16. CASE UNCHANGED vars
  BY <1>16 DEF vars, InForce, Owned
<1> QED
  BY <1>2, <1>3, <1>4, <1>5, <1>6, <1>7, <1>8, <1>9, <1>10, <1>11, <1>12,
     <1>13, <1>14, <1>15, <1>16 DEF Next, Commit

(* The lease command implements the abstract promise: its leases in force
   change only by grants that conflict with none of them, and by losses. *)
THEOREM Implements == Spec => GrantsSpec
<1>1. Init => Grants!Init
  BY DEF Init, Grants!Init, InForce, Owned
<1>2. LeaseInv' => HoldersExclude'
  BY ExclusionState, PTL
<1>3. LeaseInv /\ LeaseInv' /\ [Next]_vars => [Grants!Next]_InForce
  <2> SUFFICES ASSUME LeaseInv, LeaseInv', [Next]_vars
               PROVE  Grants!Next
    OBVIOUS
  <2>1. HoldersExclude'
    BY <1>2
  <2>2. CASE InForce' \subseteq InForce
    BY <2>2 DEF Grants!Next, Grants!Lose
  <2>3. CASE ~ (InForce' \subseteq InForce)
    <3>1. PICK l : InForce' = InForce \cup {l}
      BY <2>3, InForceStep
    <3>2. l \in InForce' \ InForce
      BY <2>3, <3>1
    <3>3. \A m \in InForce : ~ Conflict(l, m)
      BY <2>1, <3>1 DEF HoldersExclude, Conflict
    <3> QED BY <3>1, <3>2, <3>3 DEF Grants!Next, Grants!Grant
  <2> QED BY <2>2, <2>3
<1> QED BY <1>1, <1>3, LeaseInvariant, PTL DEF Spec, GrantsSpec, Grants!Spec
============================================================================
