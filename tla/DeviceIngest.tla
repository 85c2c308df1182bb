---------------------------- MODULE DeviceIngest ----------------------------
(***************************************************************************)
(* DevicesService: single events and batches of one device, their nonces,  *)
(* and the appends they make to the chain of the device's tenant.          *)
(*                                                                         *)
(* Only what a batch writes stays uncommitted over several steps: it runs  *)
(* in one transaction from its first nonce to its last event.  A single    *)
(* event reserves its nonce in one statement and appends in a transaction  *)
(* of its own, whose insert and commit are one step here (LedgerChain has  *)
(* them apart).  A statement that meets an uncommitted row of another      *)
(* transaction waits for that transaction to end.                          *)
(***************************************************************************)
EXTENDS Integers, Sequences, FiniteSets

CONSTANTS
    Requests,       \* the calls that are made, each once
    Events,         \* what the device sends; a retry sends the same event
    Nonced,         \* the events that carry a nonce, their own
    Scans,          \* the events of type inventory.scan
    Jobs,           \* what requests may carry
    MaxOther,       \* bound on the appends of the tenant's other writers
    MaxExpiry       \* bound on how often a nonce outlives its five minutes

ASSUME EventsAssumption == Nonced \subseteq Events /\ Scans \subseteq Events

ASSUME JobsAssumption ==
    Jobs \subseteq [batch : BOOLEAN, items : Seq(Events)]

ASSUME BoundsAssumption == MaxOther \in Nat /\ MaxExpiry \in Nat

VARIABLES
    pc,             \* pc[r]: where request r is
    job, pos,       \* job[r]: what it carries; pos[r]: the item it works on
    head,           \* head[r]: the chain sequence of the head it has read
    nonce,          \* device_nonces: "none", "fresh", or "old" past its TTL
    epoch,          \* how often e's nonce has got old
    mark,           \* mark[r]: that count when r reserved its current nonce
    held, purged,   \* nonces r's transaction has inserted, and deleted
    keys, staged,   \* chain sequences and events r's transaction has inserted
    height,         \* the sequence of the last committed event of the tenant
    log,            \* the committed events of the device
    others          \* how many events other writers have appended

txn == <<held, purged, keys, staged>>

vars == <<pc, job, pos, head, nonce, epoch, mark, txn, height, log, others>>

Active == {"purge", "reserve", "head", "insert", "scanhead", "scaninsert", "next"}

Ended == {"ok", "replay", "failed"}

Entry == [req : Requests, event : Events, epoch : Nat]

TypeOK ==
    /\ pc \in [Requests -> Active \union Ended \union {"new"}]
    /\ job \in [Requests -> Jobs]
    /\ pos \in [Requests -> Nat]
    /\ head \in [Requests -> Nat]
    /\ nonce \in [Events -> {"none", "fresh", "old"}]
    /\ epoch \in [Events -> 0..MaxExpiry]
    /\ mark \in [Requests -> 0..MaxExpiry]
    /\ held \in [Requests -> SUBSET Nonced]
    /\ purged \in [Requests -> SUBSET Nonced]
    /\ keys \in [Requests -> SUBSET Nat]
    /\ staged \in [Requests -> SUBSET Entry]
    /\ height \in Nat
    /\ log \subseteq Entry
    /\ others \in 0..MaxOther

Init ==
    /\ pc = [r \in Requests |-> "new"]
    /\ \E j \in Jobs : job = [r \in Requests |-> j]
    /\ pos = [r \in Requests |-> 1]
    /\ head = [r \in Requests |-> 0]
    /\ nonce = [e \in Events |-> "none"]
    /\ epoch = [e \in Events |-> 0]
    /\ mark = [r \in Requests |-> 0]
    /\ held = [r \in Requests |-> {}]
    /\ purged = [r \in Requests |-> {}]
    /\ keys = [r \in Requests |-> {}]
    /\ staged = [r \in Requests |-> {}]
    /\ height = 0
    /\ log = {}
    /\ others = 0

Item(r) == job[r].items[pos[r]]

Goto(r, phase) == pc' = [pc EXCEPT ![r] = phase]

Start_Always(e) == "purge"  \* mutation: a nonce is reserved also for an event without one

\* recordDeviceEvent reserves a nonce only if the event has one.
Start(e) == IF e \in Nonced THEN "purge" ELSE "head"

\* The schemas let an event through, or a batch of at least one.
Ingest(r, j) ==
    /\ pc[r] = "new"
    /\ j.items # <<>>
    /\ ~ j.batch => Len(j.items) = 1
    /\ job' = [job EXCEPT ![r] = j]
    /\ Goto(r, Start(j.items[1]))
    /\ UNCHANGED <<pos, head, nonce, epoch, mark, txn, height, log, others>>

-----------------------------------------------------------------------------
(***************************************************************************)
(* reserveNonce                                                            *)
(***************************************************************************)
Old == {e \in Nonced : nonce[e] = "old"}

\* The row of e is locked by another batch.
NonceLocked(r, e) == \E q \in Requests \ {r} : e \in held[q] \union purged[q]

PurgeWaits(r) == pc[r] = "purge" /\ \E e \in Old : NonceLocked(r, e)

Purge_Every(r) ==  \* mutation: the DELETE has no condition on created_at
    /\ pc[r] = "purge"
    /\ IF job[r].batch
       THEN /\ purged' = [purged EXCEPT ![r] = {e \in Nonced : nonce[e] # "none"}]
            /\ UNCHANGED nonce
       ELSE /\ nonce' = [e \in Events |-> "none"]
            /\ UNCHANGED purged
    /\ Goto(r, "reserve")
    /\ UNCHANGED <<job, pos, head, epoch, mark, held, keys, staged, height, log, others>>

\* delete({ createdAt: LessThan(expiresBefore) })
Purge(r) ==
    /\ pc[r] = "purge"
    /\ ~ PurgeWaits(r)
    /\ IF job[r].batch
       THEN /\ purged' = [purged EXCEPT ![r] = @ \union Old]
            /\ UNCHANGED nonce
       ELSE /\ nonce' = [e \in Events |-> IF e \in Old THEN "none" ELSE nonce[e]]
            /\ UNCHANGED purged
    /\ Goto(r, "reserve")
    /\ UNCHANGED <<job, pos, head, epoch, mark, held, keys, staged, height, log, others>>

ReserveWaits(r) == pc[r] = "reserve" /\ NonceLocked(r, Item(r))

\* IDX_device_nonces_device_nonce: a row r sees has the nonce.
NonceTaken(r) ==
    \/ Item(r) \in held[r]
    \/ nonce[Item(r)] # "none" /\ Item(r) \notin purged[r]

\* save({ deviceId, nonceValue }), in the batch's transaction if there is one.
Reserve(r) ==
    /\ pc[r] = "reserve"
    /\ ~ ReserveWaits(r)
    /\ ~ NonceTaken(r)
    /\ IF job[r].batch
       THEN /\ held' = [held EXCEPT ![r] = @ \union {Item(r)}]
            /\ UNCHANGED nonce
       ELSE /\ nonce' = [nonce EXCEPT ![Item(r)] = "fresh"]
            /\ UNCHANGED held
    /\ mark' = [mark EXCEPT ![r] = epoch[Item(r)]]
    /\ Goto(r, "head")
    /\ UNCHANGED <<job, pos, head, epoch, purged, keys, staged, height, log, others>>

-----------------------------------------------------------------------------
(***************************************************************************)
(* A request that throws.  A batch is rolled back as a whole.              *)
(***************************************************************************)
Release(r) ==
    /\ held' = [held EXCEPT ![r] = {}]
    /\ purged' = [purged EXCEPT ![r] = {}]
    /\ keys' = [keys EXCEPT ![r] = {}]
    /\ staged' = [staged EXCEPT ![r] = {}]

EndWith_Leaks(r, answer) ==  \* mutation: the failed batch's transaction is left open
    /\ Goto(r, answer)
    /\ UNCHANGED <<job, pos, head, nonce, epoch, mark, txn, height, log, others>>

EndWith(r, answer) ==
    /\ Goto(r, answer)
    /\ Release(r)
    /\ UNCHANGED <<job, pos, head, nonce, epoch, mark, height, log, others>>

\* 23505 on the nonce: 409, 'Device event nonce has already been used'; in a
\* batch, the error of the item that makes the batch fail.
Replayed(r) ==
    /\ pc[r] = "reserve"
    /\ ~ ReserveWaits(r)
    /\ NonceTaken(r)
    /\ EndWith(r, IF job[r].batch THEN "failed" ELSE "replay")

\* Any other error: a lost connection, a scan that is rejected, a crash.
Fail(r) ==
    /\ pc[r] \in Active
    /\ EndWith(r, "failed")

-----------------------------------------------------------------------------
(***************************************************************************)
(* appendEvent, and scanItem after an inventory.scan.  The scan's append   *)
(* has its own connection also when the event is part of a batch: it sees  *)
(* what is committed and waits for what the batch has inserted.            *)
(***************************************************************************)
Top(r) == IF keys[r] = {} THEN height ELSE CHOOSE k \in keys[r] : \A i \in keys[r] : i <= k

ReadHead(r) ==
    /\ pc[r] \in {"head", "scanhead"}
    /\ head' = [head EXCEPT ![r] = IF pc[r] = "head" THEN Top(r) ELSE height]
    /\ Goto(r, IF pc[r] = "head" THEN "insert" ELSE "scaninsert")
    /\ UNCHANGED <<job, pos, nonce, epoch, mark, txn, height, log, others>>

KeyLocked(r) == \E q \in Requests \ {r} : head[r] + 1 \in keys[q]

InsertWaits(r) == pc[r] = "insert" /\ KeyLocked(r)

\* A scan's own transaction also waits for the batch it is part of.
ScanWaits(r) == pc[r] = "scaninsert" /\ (KeyLocked(r) \/ head[r] + 1 \in keys[r])

KeyTaken(r) == head[r] + 1 <= height

AfterInsert(r) == IF Item(r) \in Scans THEN "scanhead" ELSE "next"

Insert_OwnTransaction(r) ==  \* mutation: the batch does not pass its transaction on
    /\ pc[r] = "insert"
    /\ ~ InsertWaits(r)
    /\ ~ KeyTaken(r)
    /\ LET entry == [req |-> r, event |-> Item(r), epoch |-> mark[r]]
       IN /\ height' = head[r] + 1
          /\ log' = log \union {entry}
    /\ Goto(r, AfterInsert(r))
    /\ UNCHANGED <<job, pos, head, nonce, epoch, mark, txn, others>>

Insert(r) ==
    /\ pc[r] = "insert"
    /\ ~ InsertWaits(r)
    /\ ~ KeyTaken(r)
    /\ LET entry == [req |-> r, event |-> Item(r), epoch |-> mark[r]]
       IN IF job[r].batch
          THEN /\ keys' = [keys EXCEPT ![r] = @ \union {head[r] + 1}]
               /\ staged' = [staged EXCEPT ![r] = @ \union {entry}]
               /\ UNCHANGED <<height, log>>
          ELSE /\ height' = head[r] + 1
               /\ log' = log \union {entry}
               /\ UNCHANGED <<keys, staged>>
    /\ Goto(r, AfterInsert(r))
    /\ UNCHANGED <<job, pos, head, nonce, epoch, mark, held, purged, others>>

ScanInsert(r) ==
    /\ pc[r] = "scaninsert"
    /\ ~ ScanWaits(r)
    /\ ~ KeyTaken(r)
    /\ height' = head[r] + 1
    /\ Goto(r, "next")
    /\ UNCHANGED <<job, pos, head, nonce, epoch, mark, txn, log, others>>

\* ConflictException('Ledger chain sequence conflict'), which nobody retries.
Conflict(r) ==
    /\ pc[r] \in {"insert", "scaninsert"}
    /\ ~ InsertWaits(r)
    /\ ~ ScanWaits(r)
    /\ KeyTaken(r)
    /\ EndWith(r, "failed")

NextItem(r) ==
    /\ pc[r] = "next"
    /\ pos[r] < Len(job[r].items)
    /\ pos' = [pos EXCEPT ![r] = @ + 1]
    /\ Goto(r, Start(job[r].items[pos[r] + 1]))
    /\ UNCHANGED <<job, head, nonce, epoch, mark, txn, height, log, others>>

\* The last item is done: a batch commits all it has written; the answer is sent.
Finish(r) ==
    /\ pc[r] = "next"
    /\ pos[r] = Len(job[r].items)
    /\ nonce' = [e \in Events |-> IF e \in held[r] THEN "fresh"
                                    ELSE IF e \in purged[r] THEN "none" ELSE nonce[e]]
    /\ height' = Top(r)
    /\ log' = log \union staged[r]
    /\ Release(r)
    /\ Goto(r, "ok")
    /\ UNCHANGED <<job, pos, head, epoch, mark, others>>

-----------------------------------------------------------------------------
(***************************************************************************)
(* The surroundings                                                        *)
(***************************************************************************)
\* Another writer of the tenant commits an event: another service, or the audit
\* events the device service appends without waiting for them.
OtherAppend ==
    /\ others < MaxOther
    /\ \A q \in Requests : height + 1 \notin keys[q]
    /\ others' = others + 1
    /\ height' = height + 1
    /\ UNCHANGED <<pc, job, pos, head, nonce, epoch, mark, txn, log>>

\* DEVICE_NONCE_TTL_MS goes by.
Expire(e) ==
    /\ nonce[e] = "fresh"
    /\ epoch[e] < MaxExpiry
    /\ nonce' = [nonce EXCEPT ![e] = "old"]
    /\ epoch' = [epoch EXCEPT ![e] = @ + 1]
    /\ UNCHANGED <<pc, job, pos, head, mark, txn, height, log, others>>

(***************************************************************************)
(* PostgreSQL aborts a transaction that waits in a circle of waiting       *)
(* transactions.  It knows nothing of a batch that is idle in its          *)
(* transaction while the process waits for another one.                    *)
(***************************************************************************)
WaitsFor(r, q) ==
    \/ PurgeWaits(r) /\ \E e \in Old : e \in held[q] \union purged[q]
    \/ ReserveWaits(r) /\ Item(r) \in held[q] \union purged[q]
    \/ InsertWaits(r) /\ head[r] + 1 \in keys[q]

DeadlockVictim(r) ==
    /\ \E S \in SUBSET Requests :
          /\ r \in S
          /\ \A p \in S : \E q \in S \ {p} : WaitsFor(p, q)
          /\ \A q \in S : \E p \in S \ {q} : WaitsFor(p, q)
    /\ EndWith(r, "failed")

Step(r) ==
    \/ Purge(r) \/ Reserve(r) \/ Replayed(r) \/ ReadHead(r) \/ Insert(r)
    \/ ScanInsert(r) \/ Conflict(r) \/ NextItem(r) \/ Finish(r) \/ DeadlockVictim(r)

Next ==
    \/ \E r \in Requests :
          \/ \E j \in Jobs : Ingest(r, j)
          \/ Purge(r)
          \/ Reserve(r)
          \/ Replayed(r)
          \/ ReadHead(r)
          \/ Insert(r)
          \/ ScanInsert(r)
          \/ Conflict(r)
          \/ NextItem(r)
          \/ Finish(r)
          \/ DeadlockVictim(r)
          \/ Fail(r)
    \/ OtherAppend
    \/ \E e \in Events : Expire(e)

Spec == Init /\ [][Next]_vars

(***************************************************************************)
(* A request goes on as soon as the statement it waits for returns, and a  *)
(* circle of waits is broken.  Requests need not come, nor fail.           *)
(***************************************************************************)
FairSpec == Spec /\ \A r \in Requests : WF_vars(Step(r))

-----------------------------------------------------------------------------
(***************************************************************************)
(* Properties                                                              *)
(***************************************************************************)
Recorded(r) == {n.event : n \in {m \in log : m.req = r}}

\* "Reusing the same nonce for the same device inside that window returns 409"
\* (device-management.md): however retries, batches and expiry interleave, one
\* reservation of a nonce lets one request record its event.
OncePerWindow ==
    \A m, n \in log : m.event = n.event /\ m.event \in Nonced /\ m.epoch = n.epoch
                          => m.req = n.req

\* A batch is recorded as a whole, when it is answered, or not at all.
BatchAtomic ==
    \A r \in Requests : job[r].batch =>
        \/ Recorded(r) = {}
        \/ pc[r] = "ok" /\ \A i \in 1..Len(job[r].items) : job[r].items[i] \in Recorded(r)

\* Every request that is made is answered.
EveryRequestAnswered == \A r \in Requests : pc[r] \in Active ~> pc[r] \in Ended
=============================================================================
