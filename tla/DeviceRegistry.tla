--------------------------- MODULE DeviceRegistry ---------------------------
(***************************************************************************)
(* DevicesService: registration, status changes by operators, heartbeats   *)
(* with automatic suspension, and the audit events all of them append      *)
(* without waiting.                                                        *)
(*                                                                         *)
(* A request r takes one call after the other.  It loads a row, changes    *)
(* its copy, and saves it: save() selects the row again and updates the    *)
(* columns in which the copy differs from that second row.  Of the columns  *)
(* only those are kept that a decision reads: last_seen_at, revoked_at and  *)
(* auto_suspended_at are written with the status and read by nobody.        *)
(***************************************************************************)
EXTENDS Integers, FiniteSets

CONSTANTS
    Requests,       \* the requests that can be under way together
    Devices,        \* ids of devices
    Names,          \* device names
    Jobs,           \* the calls that are made
    Threshold,      \* HEARTBEAT_AUTO_SUSPEND_THRESHOLD
    MaxFails        \* bound on the failure count of a device

Statuses == {"active", "inactive", "revoked", "suspended"}

Barred == {"revoked", "suspended"}

\* What is asked for: a device with a name, a status, what a device reports.
Job ==
    [op : {"register"}, dev : Devices, arg : Names] \union
    [op : {"status"}, dev : Devices, arg : Statuses] \union
    [op : {"heartbeat"}, dev : Devices, arg : {"online", "degraded"}]

ASSUME JobsAssumption == Jobs \subseteq Job /\ Jobs # {} /\ Names # {}

ASSUME BoundsAssumption == Threshold \in Nat \ {0} /\ MaxFails \in Nat

VARIABLES
    pc,             \* pc[r]: where request r is
    job,            \* job[r]: its call
    row,            \* row[d]: the row of d, status "none" if there is none
    entity,         \* entity[r]: the row r has loaded, with r's changes
    suspends,       \* suspends[r]: shouldAutoSuspend
    diff,           \* diff[r]: the columns its save() will update
    audits,         \* audit events on their way to the chain of the tenant
    overtaken,      \* overtaken[r]: the row has changed since r loaded it
    owing           \* owing[d]: who changed d's status and has not yet told the ledger

vars == <<pc, job, row, entity, suspends, diff, audits, overtaken, owing>>

Row == [name : Names, status : Statuses \union {"none"}, fails : 0..MaxFails]

Actions == {"REGISTERED", "STATUS_CHANGED", "REVOKED", "AUTH_FAILED", "AUTH_SUCCESS",
            "HEARTBEAT", "AUTO_SUSPENDED"}

\* main: the event of its call that tells of the new status.  read: whether the
\* append has read the head of the chain, and whether that head still is it.
Audit == [by : Requests, dev : Devices, act : Actions, main : BOOLEAN,
          read : {"no", "head", "behind"}]

TypeOK ==
    /\ pc \in [Requests -> {"idle", "insert", "auth", "limit", "load", "reload",
                            "write", "saved"}]
    /\ job \in [Requests -> Jobs]
    /\ row \in [Devices -> Row]
    /\ entity \in [Requests -> Row]
    /\ suspends \in [Requests -> BOOLEAN]
    /\ diff \in [Requests -> SUBSET {"name", "status", "fails"}]
    /\ audits \subseteq Audit
    /\ overtaken \in [Requests -> BOOLEAN]
    /\ owing \in [Devices -> SUBSET Requests]

NewRow_NoStatus(n) ==  \* mutation: a new device is left to be activated
    [name |-> n, status |-> "pending", fails |-> 0]

\* createDevice: the entity it saves.
NewRow(n) ==
    [name |-> n, status |-> "active", fails |-> 0]

NoRow == [NewRow(CHOOSE n \in Names : TRUE) EXCEPT !.status = "none"]

NoJob == CHOOSE j \in Jobs : TRUE

Init ==
    /\ pc = [r \in Requests |-> "idle"]
    /\ job = [r \in Requests |-> NoJob]
    /\ row = [d \in Devices |-> NoRow]
    /\ entity = [r \in Requests |-> NoRow]
    /\ suspends = [r \in Requests |-> FALSE]
    /\ diff = [r \in Requests |-> {}]
    /\ audits = {}
    /\ overtaken = [r \in Requests |-> FALSE]
    /\ owing = [d \in Devices |-> {}]

Dev(r) == job[r].dev

Goto(r, phase) == pc' = [pc EXCEPT ![r] = phase]

\* The call is over, and with it what it had in its variables.
Forget(r) ==
    /\ Goto(r, "idle")
    /\ job' = [job EXCEPT ![r] = NoJob]
    /\ entity' = [entity EXCEPT ![r] = NoRow]
    /\ suspends' = [suspends EXCEPT ![r] = FALSE]
    /\ diff' = [diff EXCEPT ![r] = {}]
    /\ overtaken' = [overtaken EXCEPT ![r] = FALSE]

Exists(d) == row[d].status # "none"

-----------------------------------------------------------------------------
(***************************************************************************)
(* A call comes in.  A request takes the next one when its audit events    *)
(* are over.                                                               *)
(***************************************************************************)
FirstPhase == [register |-> "insert", status |-> "load", heartbeat |-> "auth"]

\* A registration makes up the id of its device.
Fresh(d) ==
    /\ ~ Exists(d)
    /\ \A q \in Requests : pc[q] = "insert" => Dev(q) # d

Call(r, j) ==
    /\ pc[r] = "idle"
    /\ \A a \in audits : a.by # r
    /\ j.op = "register" => Fresh(j.dev)
    /\ job' = [job EXCEPT ![r] = j]
    /\ Goto(r, FirstPhase[j.op])
    /\ UNCHANGED <<row, entity, suspends, diff, audits, overtaken, owing>>

\* Audit events that start on their way.
Fire(r, acts, main) ==
    audits' = audits \union {[by |-> r, dev |-> Dev(r), act |-> a, main |-> a = main,
                               read |-> "no"] : a \in acts}

(***************************************************************************)
(* createDevice                                                            *)
(***************************************************************************)
\* IDX_devices_tenant_name
NameTaken(r) == \E d \in Devices : Exists(d) /\ row[d].name = job[r].arg

Insert(r) ==
    /\ pc[r] = "insert"
    /\ ~ NameTaken(r)
    /\ entity' = [entity EXCEPT ![r] = NewRow(job[r].arg)]
    /\ row' = [row EXCEPT ![Dev(r)] = NewRow(job[r].arg)]
    /\ owing' = [owing EXCEPT ![Dev(r)] = {r}]
    /\ Goto(r, "saved")
    /\ UNCHANGED <<job, suspends, diff, audits, overtaken>>

\* 409, 'Device name already exists for tenant'
NameConflict(r) ==
    /\ pc[r] = "insert"
    /\ NameTaken(r)
    /\ Forget(r)
    /\ UNCHANGED <<row, audits, owing>>

(***************************************************************************)
(* DeviceAuthGuard, RateLimitGuard                                         *)
(***************************************************************************)
MayAuthenticate(status) == status \notin Barred \union {"none"}

\* validateDeviceKey lets the key of the device in.
Authenticate(r) ==
    /\ pc[r] = "auth"
    /\ MayAuthenticate(row[Dev(r)].status)
    /\ Fire(r, {"AUTH_SUCCESS"}, "HEARTBEAT")
    /\ Goto(r, "limit")
    /\ UNCHANGED <<job, row, entity, suspends, diff, overtaken, owing>>

\* 401; a key without a device is refused without an event.
Refuse(r) ==
    /\ pc[r] = "auth"
    /\ ~ MayAuthenticate(row[Dev(r)].status)
    /\ Fire(r, IF Exists(Dev(r)) THEN {"AUTH_FAILED"} ELSE {}, "HEARTBEAT")
    /\ Forget(r)
    /\ UNCHANGED <<row, owing>>

\* One heartbeat a minute is let through, the others get 429.
Limit(r) ==
    /\ pc[r] = "limit"
    /\ \/ /\ Goto(r, "load")
          /\ UNCHANGED <<job, entity, suspends, diff, overtaken>>
       \/ Forget(r)
    /\ UNCHANGED <<row, audits, owing>>

-----------------------------------------------------------------------------
(***************************************************************************)
(* setDeviceStatus and recordHeartbeatForActor                             *)
(***************************************************************************)
StatusSet(e, s) ==
    [e EXCEPT !.status = s, !.fails = IF s = "active" THEN 0 ELSE @]

Suspends_AnyStatus(e, beat) ==  \* mutation: the status is not looked at
    /\ beat = "degraded"
    /\ e.fails + 1 >= Threshold

\* shouldAutoSuspend; an inactive device has become active by then.
Suspends(e, beat) ==
    /\ beat = "degraded"
    /\ e.status \in {"active", "inactive"}
    /\ e.fails + 1 >= Threshold

Beaten(e, beat) ==
    [e EXCEPT !.status = IF Suspends(e, beat) THEN "suspended"
                         ELSE IF e.status = "inactive" THEN "active" ELSE e.status,
              !.fails = IF beat = "degraded" THEN @ + 1 ELSE 0]

Load(r) ==
    /\ pc[r] = "load"
    /\ Exists(Dev(r))
    /\ row[Dev(r)].fails < MaxFails
    /\ entity' = [entity EXCEPT ![r] =
                    IF job[r].op = "status" THEN StatusSet(row[Dev(r)], job[r].arg)
                                            ELSE Beaten(row[Dev(r)], job[r].arg)]
    /\ suspends' = [suspends EXCEPT ![r] = /\ job[r].op = "heartbeat"
                                          /\ Suspends(row[Dev(r)], job[r].arg)]
    /\ overtaken' = [overtaken EXCEPT ![r] = FALSE]
    /\ Goto(r, "reload")
    /\ UNCHANGED <<job, row, diff, audits, owing>>

\* 404
NotFound(r) ==
    /\ pc[r] = "load"
    /\ ~ Exists(Dev(r))
    /\ Forget(r)
    /\ UNCHANGED <<row, audits, owing>>

\* save() selects the row and compares.
Reload(r) ==
    /\ pc[r] = "reload"
    /\ diff' = [diff EXCEPT ![r] = {c \in DOMAIN entity[r] : entity[r][c] # row[Dev(r)][c]}]
    /\ Goto(r, "write")
    /\ UNCHANGED <<job, row, entity, suspends, audits, overtaken, owing>>

Saved(r) == [c \in DOMAIN entity[r] |->
                IF c \in diff[r] THEN entity[r][c] ELSE row[Dev(r)][c]]

\* save() updates the columns in which they differ.
Write(r) ==
    /\ pc[r] = "write"
    /\ row' = [row EXCEPT ![Dev(r)] = Saved(r)]
    /\ overtaken' = [q \in Requests |->
                        overtaken[q] \/ (q # r /\ Dev(q) = Dev(r) /\ pc[q] \in {"reload", "write"})]
    /\ owing' = [owing EXCEPT ![Dev(r)] =
                    IF Saved(r).status # row[Dev(r)].status THEN {r} ELSE @]
    /\ Goto(r, "saved")
    /\ UNCHANGED <<job, entity, suspends, diff, audits>>

MainEvent(r) ==
    CASE job[r].op = "register"  -> "REGISTERED"
      [] job[r].op = "heartbeat" -> IF suspends[r] THEN "AUTO_SUSPENDED" ELSE "HEARTBEAT"
      [] OTHER -> IF job[r].arg = "revoked" THEN "REVOKED" ELSE "STATUS_CHANGED"

Announced_OnlyHeartbeat(r) ==  \* mutation: the suspension is not audited
    IF job[r].op = "heartbeat" THEN {"HEARTBEAT"} ELSE {MainEvent(r)}

\* What the call appends once the row is saved.
Announced(r) ==
    {MainEvent(r)} \union IF job[r].op = "heartbeat" THEN {"HEARTBEAT"} ELSE {}

\* save() has returned: the audit events start, the answer is sent.
Answer(r) ==
    /\ pc[r] = "saved"
    /\ Fire(r, Announced(r), MainEvent(r))
    /\ Forget(r)
    /\ UNCHANGED <<row, owing>>

-----------------------------------------------------------------------------
(***************************************************************************)
(* appendDeviceAudit: every event is appended on its own, nobody waits.    *)
(***************************************************************************)
AuditRead(a) ==
    /\ a \in audits
    /\ a.read = "no"
    /\ audits' = (audits \ {a}) \union {[a EXCEPT !.read = "head"]}
    /\ UNCHANGED <<pc, job, row, entity, suspends, diff, overtaken, owing>>

\* The event that tells of a change of status is recorded, or lost.
Ends(a) == owing' = [owing EXCEPT ![a.dev] = IF a.main THEN @ \ {a.by} ELSE @]

Behind(as) == {[b EXCEPT !.read = IF @ = "head" THEN "behind" ELSE @] : b \in as}

AuditAppend(a) ==
    /\ a \in audits
    /\ a.read = "head"
    /\ audits' = Behind(audits \ {a})
    /\ Ends(a)
    /\ UNCHANGED <<pc, job, row, entity, suspends, diff, overtaken>>

\* The place in the chain is taken, or the append fails: the error is logged.
AuditLost(a) ==
    /\ a \in audits
    /\ a.read # "no"
    /\ audits' = audits \ {a}
    /\ Ends(a)
    /\ UNCHANGED <<pc, job, row, entity, suspends, diff, overtaken>>

\* Another writer of the tenant appends.
OtherAppend ==
    /\ \E a \in audits : a.read = "head"
    /\ audits' = Behind(audits)
    /\ UNCHANGED <<pc, job, row, entity, suspends, diff, overtaken, owing>>

\* A statement fails, or the process before it has started the audit events.
Fail(r) ==
    /\ pc[r] # "idle"
    /\ Forget(r)
    /\ owing' = [owing EXCEPT ![Dev(r)] = @ \ {r}]
    /\ UNCHANGED <<row, audits>>

Next ==
    \/ \E r \in Requests :
          \/ \E j \in Jobs : Call(r, j)
          \/ Insert(r)
          \/ NameConflict(r)
          \/ Authenticate(r)
          \/ Refuse(r)
          \/ Limit(r)
          \/ Load(r)
          \/ NotFound(r)
          \/ Reload(r)
          \/ Write(r)
          \/ Answer(r)
          \/ Fail(r)
    \/ \E a \in audits : AuditRead(a) \/ AuditAppend(a) \/ AuditLost(a)
    \/ OtherAppend

Spec == Init /\ [][Next]_vars

-----------------------------------------------------------------------------
(***************************************************************************)
(* Properties                                                              *)
(***************************************************************************)
\* Suspended devices are rejected "until an operator reactivates them", and a
\* revocation is an operator's: a suspended or revoked device gets another status
\* only by an operator, or by the save of a heartbeat that had loaded the row
\* before the decision was written.  No heartbeat that was let in before it, and
\* loads the row after it, undoes it or turns a revocation into a suspension.
BarHolds ==
    [][\A d \in Devices :
          row[d].status \in Barred /\ row'[d].status # row[d].status
              => \E r \in Requests : /\ pc[r] = "write" /\ pc'[r] = "saved" /\ Dev(r) = d
                                     /\ job[r].op = "status" \/ overtaken[r]]_vars

\* "Device lifecycle actions are appended": as long as no audit event of a
\* change of status was recorded or lost, it is on its way.
ChangeAudited ==
    \A d \in Devices : \A r \in owing[d] :
        \/ pc[r] = "saved" /\ Dev(r) = d
        \/ \E a \in audits : a.by = r /\ a.dev = d /\ a.main

=============================================================================
