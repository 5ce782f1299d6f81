------------------------------- MODULE Claims -------------------------------
(***************************************************************************)
(* Ticket claims of tools/agents/relay.py: one JSON file per ticket under  *)
(* agents/claims, created with O_EXCL, replaced by rename and unlinked,    *)
(* with no lock.  Tickets have files of their own, so one ticket is        *)
(* modelled.  Every file operation is a step of its own: agents run their  *)
(* commands concurrently and die at any point.                             *)
(***************************************************************************)
EXTENDS Integers

CONSTANTS
    Agents,   \* agents, each running one relay command at a time
    Nobody,   \* no agent
    Minutes,  \* values of --lease-minutes
    MaxTime   \* bound on the clock

ASSUME ClaimsAssumption ==
    /\ Nobody \notin Agents
    /\ Minutes \subseteq Nat \ {0}
    /\ MaxTime \in Nat

VARIABLES
    file,  \* the claim file: Absent, just created by an agent, or a record
    pc,    \* pc[a]: next file operation of the command of a
    op,    \* op[a]: the command
    rec,   \* rec[a]: the record that the command writes
    told,  \* told[a]: until when a was told it owns the ticket, 0 if not
    now    \* time.time()

vars == <<file, pc, op, rec, told, now>>

\* "empty" is a file whose creator has not written its record yet.
File == [state : {"absent", "empty", "record"}, agent : Agents \cup {Nobody},
         expires : Nat]

Absent == [state |-> "absent", agent |-> Nobody, expires |-> 0]

ClaimRecord(a, minutes) ==
    [state |-> "record", agent |-> a, expires |-> now + minutes]

Expired(r) == r.expires <= now

Init ==
    /\ file = Absent
    /\ pc = [a \in Agents |-> "idle"]
    /\ op = [a \in Agents |-> "claim"]
    /\ rec = [a \in Agents |-> Absent]
    /\ told = [a \in Agents |-> 0]
    /\ now = 0

At(a, label) == pc' = [pc EXCEPT ![a] = label]

\* The command is over.
Over(a) ==
    /\ At(a, "idle")
    /\ op' = [op EXCEPT ![a] = "claim"]
    /\ rec' = [rec EXCEPT ![a] = Absent]

\* The command goes on with its next file operation.
Goto(a, label) == At(a, label) /\ UNCHANGED <<op, rec>>

Tell(a, t) == told' = [told EXCEPT ![a] = t]

----------------------------------------------------------------------------
(* Commands begin *)

\* claim tries to create the file; the others read it first.  An agent that
\* releases no longer counts on its claim.
Begin(a, kind) ==
    /\ pc[a] = "idle"
    /\ op' = [op EXCEPT ![a] = kind]
    /\ At(a, IF kind = "claim" THEN "create" ELSE "read")
    /\ IF kind = "release" THEN Tell(a, 0) ELSE UNCHANGED told
    /\ UNCHANGED <<file, rec, now>>

\* Each round of the loop of acquire_claim: a new record and an exclusive
\* create.
Create(a) ==
    /\ pc[a] = "create"
    /\ \E minutes \in Minutes : rec' = [rec EXCEPT ![a] = ClaimRecord(a, minutes)]
    /\ IF file = Absent
       THEN /\ file' = [state |-> "empty", agent |-> a, expires |-> 0]
            /\ At(a, "write")
       ELSE At(a, "read") /\ UNCHANGED file
    /\ UNCHANGED <<op, told, now>>

\* The record goes to the file that was created, which may be unlinked by now.
Write(a) ==
    /\ pc[a] = "write"
    /\ file' = IF file.state = "empty" /\ file.agent = a THEN rec[a] ELSE file
    /\ Tell(a, rec[a].expires)
    /\ Over(a)
    /\ UNCHANGED now

----------------------------------------------------------------------------
(* The file is read, and then acted upon *)

\* A file without JSON is an error of every command.
ReadEmpty(a) ==
    /\ pc[a] = "read"
    /\ file.state = "empty"
    /\ Over(a)
    /\ UNCHANGED <<file, told, now>>

\* Without a file claim starts over, and a heartbeat learns of its loss.
ReadAbsent(a) ==
    /\ pc[a] = "read"
    /\ file = Absent
    /\ IF op[a] = "claim" THEN Goto(a, "create") ELSE Over(a)
    /\ IF op[a] = "heartbeat" THEN Tell(a, 0) ELSE UNCHANGED told
    /\ UNCHANGED <<file, now>>

\* A live claim of another agent refuses all but the listing.
ReadForeign(a) ==
    /\ pc[a] = "read"
    /\ file.state = "record"
    /\ file.agent # a
    /\ ~ Expired(file)
    /\ Over(a)
    /\ IF op[a] = "heartbeat" THEN Tell(a, 0) ELSE UNCHANGED told
    /\ UNCHANGED <<file, now>>

\* Mutant: the owner is not compared.
Readable_AnyOwner(a) == pc[a] = "read" /\ file.state = "record"

\* The command may go on to change the file.
Readable(a) ==
    /\ pc[a] = "read"
    /\ file.state = "record"
    /\ file.agent = a \/ Expired(file)

\* claim replaces its own live claim and unlinks an expired one.
ReadByClaim(a) ==
    /\ Readable(a)
    /\ op[a] = "claim"
    /\ Goto(a, IF Expired(file) THEN "unlink" ELSE "replace")
    /\ UNCHANGED <<file, told, now>>

\* A heartbeat replaces its own claim, and anybody's expired one.
ReadByHeartbeat(a) ==
    /\ Readable(a)
    /\ op[a] = "heartbeat"
    /\ \E minutes \in Minutes : rec' = [rec EXCEPT ![a] = ClaimRecord(a, minutes)]
    /\ At(a, "replace")
    /\ UNCHANGED <<file, op, told, now>>

ReadByRelease(a) ==
    /\ Readable(a)
    /\ op[a] = "release"
    /\ Goto(a, "unlink")
    /\ UNCHANGED <<file, told, now>>

\* The listing unlinks what is expired and goes on.
ReadByList(a) ==
    /\ Readable(a)
    /\ op[a] = "claims"
    /\ IF Expired(file) THEN Goto(a, "unlink") ELSE Over(a)
    /\ UNCHANGED <<file, told, now>>

\* unlink takes whatever file is there by now; claim then starts over.
Unlink(a) ==
    /\ pc[a] = "unlink"
    /\ file' = Absent
    /\ IF op[a] = "claim" THEN Goto(a, "create") ELSE Over(a)
    /\ UNCHANGED <<told, now>>

Replace(a) ==
    /\ pc[a] = "replace"
    /\ file' = rec[a]
    /\ Tell(a, rec[a].expires)
    /\ Over(a)
    /\ UNCHANGED now

----------------------------------------------------------------------------
\* The agent and its command die; the file stays as it is.
Die(a) ==
    /\ Tell(a, 0)
    /\ Over(a)
    /\ UNCHANGED <<file, now>>

Tick ==
    /\ now < MaxTime
    /\ now' = now + 1
    /\ UNCHANGED <<file, pc, op, rec, told>>

Next ==
    \/ \E a \in Agents :
         \/ \E kind \in {"claim", "heartbeat", "release", "claims"} : Begin(a, kind)
         \/ Create(a) \/ Write(a)
         \/ ReadEmpty(a) \/ ReadAbsent(a) \/ ReadForeign(a)
         \/ ReadByClaim(a) \/ ReadByHeartbeat(a) \/ ReadByRelease(a)
         \/ ReadByList(a)
         \/ Unlink(a) \/ Replace(a)
         \/ Die(a)
    \/ Tick

Spec == Init /\ [][Next]_vars

----------------------------------------------------------------------------
(* Properties *)

\* relay.py "claim a ticket for one agent": no two agents were told that they
\* own the ticket now.
ClaimExcludes ==
    \A a, b \in Agents : a # b => ~ (told[a] > now /\ told[b] > now)

\* An agent that was told it owns the ticket still has its claim on file: no
\* command of another agent removes or replaces it (acquire_claim,
\* refresh_claim, release_claim, live_claims).
ClaimOnFile ==
    \A a \in Agents : told[a] > now => file.state = "record" /\ file.agent = a
=============================================================================
