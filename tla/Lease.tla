------------------------------- MODULE Lease -------------------------------
(***************************************************************************)
(* The lease command insula/execution/lease.py: cooperative leases on the  *)
(* exclusive resources (insula:<line>, network-fetch), on GPU devices and  *)
(* on host CPU shares, kept in one JSON file per resource and guarded by   *)
(* one flock per resource.                                                 *)
(*                                                                         *)
(* A client is a long-running process (a shell script, a gate) that runs   *)
(* one lease.py command at a time with its own PID.  The command takes the *)
(* flock and loads the file in one step and writes the file and drops the  *)
(* flock in a later one; between them time passes and processes die.       *)
(* The client and its command are two processes: either dies alone.        *)
(***************************************************************************)
EXTENDS Integers, FiniteSets

CONSTANTS
    Clients,     \* processes that hold leases; a client stands for its PID
    Host,        \* the host of every client
    Resources,   \* the resources that have a lease file
    Exclusive,   \* insula:<line> and network-fetch
    Gpu,         \* the resource "gpu"
    HostCpu,     \* the resource "host-cpu"
    Ids,         \* lease identifiers (random tokens)
    Capacities,  \* GPU counts an acquire may see (--capacity, env, nvidia-smi)
    Budgets,     \* CPU budgets an acquire may see
    TTLs,        \* lease lifetimes asked for
    Timeouts,    \* how long an acquire is ready to wait
    MaxTime,     \* bound on the clock
    Nobody,      \* no client
    NoId         \* no lease identifier

ASSUME LeaseAssumption ==
    /\ Exclusive \subseteq Resources
    /\ Gpu \notin Exclusive
    /\ HostCpu \notin Exclusive
    /\ Gpu # HostCpu
    /\ Nobody \notin Clients
    /\ NoId \notin Ids
    /\ Capacities \subseteq Nat
    /\ Budgets \subseteq Nat \ {0}
    /\ TTLs \subseteq Nat \ {0}
    /\ Timeouts \subseteq Nat
    /\ MaxTime \in Nat
    /\ Resources \subseteq Exclusive \cup {Gpu, HostCpu}

VARIABLES
    leases,   \* leases[r]: the "leases" list of the file of r
    budget,   \* "budget" of the host-cpu file, 0 while it has none
    lock,     \* lock[r]: the client whose command holds the flock of r
    pc,       \* pc[c]: where the command of c is
    cmd,      \* cmd[c]: the arguments of that command, and what is left to do
    buf,      \* buf[c]: state["leases"] of the command while it holds a flock
    got,      \* got[c]: the lease it has written but not yet printed
    held,     \* held[c]: the leases c has been told it holds
    running,  \* the clients whose PID is in the process table of their host
    now       \* time.time() and time.monotonic()

vars == <<leases, budget, lock, pc, cmd, buf, got, held, running, now>>

Lease == [id : Ids, resource : Resources, pid : Clients, expiry : Nat,
          devices : SUBSET Nat, jobs : Nat]

Kinds == {"acquire", "release", "check", "list"}

Command == [kind : Kinds, todo : SUBSET Resources, id : Ids \cup {NoId},
            pool : SUBSET Nat, amount : Nat, ttl : Nat, deadline : Nat,
            budget : Nat]

\* The command record of a client that runs none.
NoCommand == [kind |-> "list", todo |-> {}, id |-> NoId, pool |-> {},
              amount |-> 0, ttl |-> 0, deadline |-> 0, budget |-> 0]

----------------------------------------------------------------------------
(* The pure helpers of lease.py                                            *)

\* Mutant: a holder on another host is looked up in the local process table.
PidAlive_LocalOnly(c, l) == Host[l.pid] = Host[c] /\ l.pid \in running

\* Whether a command run by c takes the holder of l for alive: a holder on
\* another host always is, and a recycled PID is too.
PidAlive(c, l) == Host[l.pid] # Host[c] \/ l.pid \in running

\* The records that a command of c keeps: not expired, holder alive.
ActiveLeases(c, S) == {l \in S : l.expiry > now /\ PidAlive(c, l)}

\* The share of one holder when n of them split the budget b.
Share(b, n) == LET s == b \div (IF n > 1 THEN n ELSE 1)
               IN IF s > 1 THEN s ELSE 1

\* Every record gets the share of the present number of records.
RecomputeCpuJobs(S, b) ==
    {[l EXCEPT !.jobs = Share(b, Cardinality(S))] : l \in S}

\* Mutant: records without readable devices free the capacity.
UsedDevices_Missing(S) == {}

UsedDevices(S) == UNION {l.devices : l \in S}

\* A token that no file, no client and no release command mentions.
Fresh(i) ==
    /\ \A r \in Resources : \A l \in leases[r] : l.id # i
    /\ \A c \in Clients :
         /\ cmd[c].kind = "release" => cmd[c].id # i
         /\ \A l \in held[c] \cup got[c] \cup buf[c] : l.id # i

\* Bound: the finite set of tokens has one for every acquire under way and
\* one more.
TokenLeft ==
    Cardinality({c \in Clients : pc[c] # "idle" /\ cmd[c].kind = "acquire"})
      < Cardinality({i \in Ids : Fresh(i)})

\* Mutant: the sign of the lifetime is wrong.
NewRecord_Past(c, r, i, D) ==
    [id |-> i, resource |-> r, pid |-> c, expiry |-> now - cmd[c].ttl,
     devices |-> D, jobs |-> 0]

NewRecord(c, r, i, D) ==
    [id |-> i, resource |-> r, pid |-> c, expiry |-> now + cmd[c].ttl,
     devices |-> D, jobs |-> 0]

\* The budget that release, check and list recompute with: the recorded one,
\* else their own.
StoredBudget(c) == IF budget # 0 THEN budget ELSE cmd[c].budget

----------------------------------------------------------------------------
Init ==
    /\ leases = [r \in Resources |-> {}]
    /\ budget = 0
    /\ lock = [r \in Resources |-> Nobody]
    /\ pc = [c \in Clients |-> "idle"]
    /\ cmd = [c \in Clients |-> NoCommand]
    /\ buf = [c \in Clients |-> {}]
    /\ got = [c \in Clients |-> {}]
    /\ held = [c \in Clients |-> {}]
    /\ running = Clients
    /\ now = 0

(* A client starts a command *)

Start(c, command) ==
    /\ pc[c] = "idle"
    /\ c \in running
    /\ pc' = [pc EXCEPT ![c] = "queued"]
    /\ cmd' = [cmd EXCEPT ![c] = command]
    /\ UNCHANGED <<leases, budget, lock, buf, got, running, now>>

\* What an acquire of r may ask for once its arguments are validated: the
\* devices it accepts and how many of them (all of the capacity, or exactly
\* the devices named by --devices).
Requests(r) ==
    IF r = Gpu
    THEN UNION {{[pool |-> 0 .. cap - 1, amount |-> n] : n \in 1 .. cap}
                  \cup {[pool |-> D, amount |-> Cardinality(D)] :
                           D \in (SUBSET (0 .. cap - 1)) \ {{}}} :
                cap \in Capacities}
    ELSE {[pool |-> {}, amount |-> 0]}

Acquire(c, r) ==
    /\ TokenLeft
    /\ \E q \in Requests(r), ttl \in TTLs, wait \in Timeouts, b \in Budgets :
         /\ now + wait <= MaxTime
         /\ Start(c, [kind |-> "acquire", todo |-> {r}, id |-> NoId,
                      pool |-> q.pool, amount |-> q.amount, ttl |-> ttl,
                      deadline |-> now + wait,
                      budget |-> IF r = HostCpu THEN b ELSE 0])
    /\ UNCHANGED held

\* release, check and list walk the resources of todo.
Walk(kind, todo, i, b) ==
    [kind |-> kind, todo |-> todo, id |-> i, pool |-> {}, amount |-> 0,
     ttl |-> 0, deadline |-> 0, budget |-> b]

\* A client stops using a lease and releases it, from its own resource or
\* from every one.
Release(c, l, todo) ==
    /\ l \in held[c]
    /\ todo \in {{l.resource}, Resources}
    /\ \E b \in Budgets : Start(c, Walk("release", todo, l.id, b))
    /\ held' = [held EXCEPT ![c] = @ \ {l}]

Check(c, i, todo) ==
    /\ \E b \in Budgets : Start(c, Walk("check", todo, i, b))
    /\ UNCHANGED held

ListLeases(c, todo) ==
    /\ \E b \in Budgets : Start(c, Walk("list", todo, NoId, b))
    /\ UNCHANGED held

----------------------------------------------------------------------------
(* The command works on one resource after the other under its flock       *)

\* Take the flock of r and load its file; all but release prune at once.
Lock(c, r) ==
    /\ pc[c] = "queued"
    /\ r \in cmd[c].todo
    /\ lock[r] = Nobody
    /\ lock' = [lock EXCEPT ![r] = c]
    /\ pc' = [pc EXCEPT ![c] = "locked"]
    /\ buf' = [buf EXCEPT ![c] = IF cmd[c].kind = "release" THEN leases[r]
                                 ELSE ActiveLeases(c, leases[r])]
    /\ UNCHANGED <<leases, budget, cmd, got, held, running, now>>

Locked(c, r, kind) ==
    /\ pc[c] = "locked"
    /\ lock[r] = c
    /\ cmd[c].kind = kind

\* Replace the file of r and drop the flock.
WriteState(c, r, S) ==
    /\ leases' = [leases EXCEPT ![r] = S]
    /\ lock' = [lock EXCEPT ![r] = Nobody]
    /\ buf' = [buf EXCEPT ![c] = {}]
    /\ UNCHANGED <<held, running, now>>

\* The command is over: back to the client.
Done(c) ==
    /\ pc' = [pc EXCEPT ![c] = "idle"]
    /\ cmd' = [cmd EXCEPT ![c] = NoCommand]

\* The lease is in the file; it still has to be printed.
Granted(c, l) ==
    /\ pc' = [pc EXCEPT ![c] = "reply"]
    /\ got' = [got EXCEPT ![c] = {l}]
    /\ UNCHANGED cmd

\* Mutant: a live holder does not stop the grant.
GrantExclusive_Shared(c, r) ==
    /\ Locked(c, r, "acquire")
    /\ r \in Exclusive
    /\ \E i \in Ids :
         /\ Fresh(i)
         /\ WriteState(c, r, buf[c] \cup {NewRecord(c, r, i, {})})
         /\ Granted(c, NewRecord(c, r, i, {}))
    /\ UNCHANGED budget

GrantExclusive(c, r) ==
    /\ Locked(c, r, "acquire")
    /\ r \in Exclusive
    /\ buf[c] = {}
    /\ \E i \in Ids :
         /\ Fresh(i)
         /\ WriteState(c, r, {NewRecord(c, r, i, {})})
         /\ Granted(c, NewRecord(c, r, i, {}))
    /\ UNCHANGED budget

\* The lowest free devices of the pool, or the named ones when all are free.
GrantGpu(c, r) ==
    /\ Locked(c, r, "acquire")
    /\ r = Gpu
    /\ LET free == cmd[c].pool \ UsedDevices(buf[c])
       IN \E D \in SUBSET free, i \in Ids :
            /\ Cardinality(D) = cmd[c].amount
            /\ \A d \in D, e \in free \ D : d < e
            /\ Fresh(i)
            /\ WriteState(c, r, buf[c] \cup {NewRecord(c, r, i, D)})
            /\ Granted(c, NewRecord(c, r, i, D))
    /\ UNCHANGED budget

GrantCpu(c, r) ==
    /\ Locked(c, r, "acquire")
    /\ r = HostCpu
    /\ \E i \in Ids :
         LET S == RecomputeCpuJobs(buf[c] \cup {NewRecord(c, r, i, {})},
                                   cmd[c].budget)
         IN /\ Fresh(i)
            /\ WriteState(c, r, S)
            /\ \E l \in S : l.id = i /\ Granted(c, l)
    /\ budget' = cmd[c].budget

Taken(c, r) ==
    \/ r \in Exclusive /\ buf[c] # {}
    \/ /\ r = Gpu
       /\ Cardinality(cmd[c].pool \ UsedDevices(buf[c])) < cmd[c].amount

\* Mutant: the retry loop forgets its timeout.
Unavailable_Forever(c, r) ==
    /\ Locked(c, r, "acquire")
    /\ Taken(c, r)
    /\ WriteState(c, r, buf[c])
    /\ pc' = [pc EXCEPT ![c] = "queued"]
    /\ UNCHANGED <<budget, got, cmd>>

\* The resource is taken: keep the pruned file, then sleep and try again, or
\* give up with exit status 75 once the timeout has passed.
Unavailable(c, r) ==
    /\ Locked(c, r, "acquire")
    /\ Taken(c, r)
    /\ WriteState(c, r, buf[c])
    /\ IF now >= cmd[c].deadline
       THEN Done(c)
       ELSE pc' = [pc EXCEPT ![c] = "queued"] /\ UNCHANGED cmd
    /\ UNCHANGED <<budget, got>>

\* The next resource of release, check or list, or the end of the command.
NextResource(c, r, stop) ==
    LET rest == cmd[c].todo \ {r}
    IN IF rest = {} \/ stop
       THEN Done(c)
       ELSE /\ pc' = [pc EXCEPT ![c] = "queued"]
            /\ cmd' = [cmd EXCEPT ![c].todo = rest]

\* Mutant: the shares of the remaining holders are not recomputed.
ReleaseHere_OldShares(c, r) ==
    /\ Locked(c, r, "release")
    /\ WriteState(c, r, {l \in buf[c] : l.id # cmd[c].id})
    /\ NextResource(c, r, FALSE)
    /\ UNCHANGED <<got, budget>>

\* Mutant: a release without --resource empties the files it passes through.
ReleaseHere_All(c, r) ==
    /\ Locked(c, r, "release")
    /\ WriteState(c, r, {})
    /\ NextResource(c, r, FALSE)
    /\ UNCHANGED <<got, budget>>

\* Remove the lease by its id; a file without it is left alone.
ReleaseHere(c, r) ==
    /\ Locked(c, r, "release")
    /\ LET kept == {l \in buf[c] : l.id # cmd[c].id}
           found == kept # buf[c]
           cpu == found /\ r = HostCpu
       IN /\ WriteState(c, r, IF cpu THEN RecomputeCpuJobs(kept, StoredBudget(c))
                              ELSE IF found THEN kept ELSE leases[r])
          /\ budget' = IF cpu THEN StoredBudget(c) ELSE budget
    /\ NextResource(c, r, FALSE)
    /\ UNCHANGED got

\* check and list write the pruned file back; check stops where it finds the id.
PruneHere(c, r) ==
    /\ \/ Locked(c, r, "check")
       \/ Locked(c, r, "list")
    /\ WriteState(c, r, IF r = HostCpu
                        THEN RecomputeCpuJobs(buf[c], StoredBudget(c))
                        ELSE buf[c])
    /\ budget' = IF r = HostCpu THEN StoredBudget(c) ELSE budget
    /\ NextResource(c, r, /\ cmd[c].kind = "check"
                          /\ \E l \in buf[c] : l.id = cmd[c].id)
    /\ UNCHANGED got

\* acquire prints the lease; a client that died in the meantime reads nothing.
Reply(c) ==
    /\ pc[c] = "reply"
    /\ held' = [held EXCEPT ![c] = IF c \in running THEN @ \cup got[c] ELSE @]
    /\ got' = [got EXCEPT ![c] = {}]
    /\ Done(c)
    /\ UNCHANGED <<leases, budget, lock, buf, running, now>>

----------------------------------------------------------------------------
(* Failures and time                                                       *)

\* The command is killed, or its write fails: the kernel drops its flock,
\* the file is the old or the new one, and nothing is printed.
KillCommand(c) ==
    /\ pc[c] # "idle"
    /\ lock' = [r \in Resources |-> IF lock[r] = c THEN Nobody ELSE lock[r]]
    /\ buf' = [buf EXCEPT ![c] = {}]
    /\ got' = [got EXCEPT ![c] = {}]
    /\ Done(c)
    /\ UNCHANGED <<leases, budget, held, running, now>>

\* The client dies; a command it was waiting for goes on as an orphan.
Die(c) ==
    /\ c \in running
    /\ running' = running \ {c}
    /\ held' = [held EXCEPT ![c] = {}]
    /\ UNCHANGED <<leases, budget, lock, pc, cmd, buf, got, now>>

\* The kernel hands the PID of a dead client to a new process.
ReusePid(c) ==
    /\ c \notin running
    /\ pc[c] = "idle"
    /\ running' = running \cup {c}
    /\ UNCHANGED <<leases, budget, lock, pc, cmd, buf, got, held, now>>

Tick ==
    /\ now < MaxTime
    /\ now' = now + 1
    /\ UNCHANGED <<leases, budget, lock, pc, cmd, buf, got, held, running>>

----------------------------------------------------------------------------
Todos == {{r} : r \in Resources} \cup {Resources}

\* What the command of c does while it holds the flock of r.
Commit(c, r) ==
    \/ GrantExclusive(c, r)
    \/ GrantGpu(c, r)
    \/ GrantCpu(c, r)
    \/ Unavailable(c, r)
    \/ ReleaseHere(c, r)
    \/ PruneHere(c, r)

Next ==
    \/ \E c \in Clients :
         \/ \E r \in Resources : Acquire(c, r) \/ Lock(c, r) \/ Commit(c, r)
         \/ \E l \in held[c], todo \in Todos : Release(c, l, todo)
         \/ \E i \in Ids, todo \in Todos : Check(c, i, todo)
         \/ \E todo \in Todos : ListLeases(c, todo)
         \/ Reply(c)
         \/ KillCommand(c)
         \/ Die(c)
         \/ ReusePid(c)
    \/ Tick

Spec == Init /\ [][Next]_vars

\* Time passes, a command that can run runs, and a command that waits for a
\* flock that is free again and again gets it.
Fairness ==
    /\ WF_vars(Tick)
    /\ \A c \in Clients :
         /\ WF_vars(Reply(c))
         /\ WF_vars(\E r \in Resources : Commit(c, r))
         /\ SF_vars(\E r \in Resources : Lock(c, r))

FairSpec == Spec /\ Fairness

----------------------------------------------------------------------------
(* Properties                                                              *)

\* Every variable has its type: files and replies hold well-formed lease
\* records, commands are in one of the four places lease.py can be in.
TypeOK ==
    /\ leases \in [Resources -> SUBSET Lease]
    /\ budget \in Nat
    /\ lock \in [Resources -> Clients \cup {Nobody}]
    /\ pc \in [Clients -> {"idle", "queued", "locked", "reply"}]
    /\ cmd \in [Clients -> Command]
    /\ buf \in [Clients -> SUBSET Lease]
    /\ got \in [Clients -> SUBSET Lease]
    /\ held \in [Clients -> SUBSET Lease]
    /\ running \in SUBSET Clients
    /\ now \in Nat

\* The leases that c holds or is about to be told it holds.
Owned(c) == held[c] \cup got[c]

\* The leases a running client may rely on now.
InForce == {l \in UNION {Owned(c) : c \in running} : l.expiry > now}

\* Two leases that must not be in force together.
Conflict(l, m) ==
    /\ l.id # m.id
    /\ l.resource = m.resource
    /\ \/ l.resource \in Exclusive
       \/ l.resource = Gpu /\ l.devices \cap m.devices # {}

\* No two running clients, nor one client twice, rely on an unexpired lease
\* of the same insula line, of network-fetch or of the same GPU, whatever
\* crashes, PID reuse and concurrent commands happened (_try_acquire).
HoldersExclude == \A l, m \in InForce : ~ Conflict(l, m)

\* The command implements the abstract promise of LeaseGrants: a lease comes
\* into force only by a grant that conflicts with no lease in force.
Grants == INSTANCE LeaseGrants WITH grants <- InForce

GrantsSpec == Grants!Spec

\* A lease in force is in its file: no concurrent acquire, release, check or
\* list of another command prunes or overwrites it (the flock in _locked).
InForceRecorded ==
    \A l \in InForce : \E m \in leases[l.resource] :
        m.id = l.id /\ m.pid = l.pid /\ m.devices = l.devices

\* The host-cpu file splits the budget over the records it holds now: after
\* every acquire, release and prune each record has the share of the present
\* count, and the shares together stay within the budget unless every holder
\* is down to one job (_recompute_cpu_jobs).
SharesSplitBudget ==
    HostCpu \in Resources =>
      LET S == leases[HostCpu]
          n == Cardinality(S)
      IN \A l \in S : /\ l.jobs = Share(budget, n)
                      /\ n * l.jobs <= budget \/ l.jobs = 1

\* An acquire always returns: granted, refused or timed out (the retry loop
\* of acquire never spins past its timeout).
AcquireReturns ==
    \A c \in Clients :
        (pc[c] # "idle" /\ cmd[c].kind = "acquire") ~> pc[c] = "idle"
============================================================================
