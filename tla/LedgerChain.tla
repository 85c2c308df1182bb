----------------------------- MODULE LedgerChain -----------------------------
(***************************************************************************)
(* LedgerEventsService.appendEvent over the ledger_events table.           *)
(*                                                                         *)
(* A writer is one database transaction in flight: either the one          *)
(* appendEvent opens for itself (`own') or one a caller opened and passes  *)
(* as transactionManager, in which it appends several events               *)
(* (`batch', DevicesService.recordDeviceEventsBatch).  The transactions    *)
(* run at READ COMMITTED: a read sees the committed rows and the           *)
(* transaction's own.  An INSERT whose (tenant, chain_sequence) another    *)
(* open transaction has inserted waits for that transaction to end; one    *)
(* whose key is committed fails with 23505.                                *)
(***************************************************************************)
EXTENDS LedgerHash

CONSTANTS
    Writers,        \* transactions that may be open at the same time
    Modes           \* which kinds of transaction are opened

ASSUME ModesAssumption == Modes \subseteq {"own", "batch"}

VARIABLES
    rows,           \* the committed rows of ledger_events
    phase,          \* phase[w]: where writer w's transaction is
    call,           \* call[w]: the append it is working on
    pending,        \* pending[w]: the rows it has inserted and not committed
    head,           \* head[w]: sequence and hash of the chain head it has read
    done,           \* done[w]: the events it has committed and not answered yet
    issued,         \* events some append has been called with
    notified,       \* events handed to NotificationsGateway.emitLedgerEvent
    acked           \* events whose append the caller saw succeed

txn == <<phase, call, pending, head, done>>

vars == <<rows, txn, issued, notified, acked>>

Phases == {"idle", "open", "read", "saved", "committed"}

Call == [mode : {"own", "batch"}, tenant : Tenants, event : Events]

ChainHead == [seq : Nat, hash : Hash]

NoHead_ZeroBased ==  \* mutation: counts from 0, so that a missing head is at -1
    [seq |-> -1, hash |-> NoHash]

\* No previous event: the next chain sequence is 1, the previous hash is null.
NoHead == [seq |-> 0, hash |-> NoHash]

TypeOK ==
    /\ rows \subseteq Row
    /\ phase \in [Writers -> Phases]
    /\ call \in [Writers -> Call]
    /\ pending \in [Writers -> SUBSET Row]
    /\ head \in [Writers -> ChainHead]
    /\ done \in [Writers -> SUBSET Events]
    /\ issued \subseteq Events
    /\ notified \subseteq Events
    /\ acked \subseteq Events

Init ==
    /\ rows = {}
    /\ phase = [w \in Writers |-> "idle"]
    /\ \E t \in Tenants, e \in Events :
          call = [w \in Writers |-> [mode |-> "own", tenant |-> t, event |-> e]]
    /\ pending = [w \in Writers |-> {}]
    /\ head = [w \in Writers |-> NoHead]
    /\ done = [w \in Writers |-> {}]
    /\ issued = {}
    /\ notified = {}
    /\ acked = {}

\* The rows a query of w's transaction for its tenant sees.
Visible(w) == RowsOf(rows \union pending[w], call[w].tenant)

\* The row an append of w inserts, given the head it has read.
NewRow(w) ==
    LET t == call[w].tenant
        e == call[w].event
        n == head[w].seq + 1
        h == head[w].hash
    IN [tenant |-> t, event |-> e, seq |-> n, prev |-> h, hash |-> HashOf(h, t, e, n)]

SameKey(r, q) == r.tenant = q.tenant /\ r.seq = q.seq

\* The CHECK constraints of the migration.
ChecksHold(r) == r.seq > 0 /\ (r.seq = 1 <=> r.prev = NoHash)

\* Another open transaction has inserted the key and not committed it.
LockedByOther(w, r) ==
    \E v \in Writers \ {w} : \E q \in pending[v] : SameKey(r, q)

KeyTaken_NoUnique(r) == FALSE  \* mutation: UQ_ledger_events_tenant_chain_sequence is missing

\* A committed row holds the key.
KeyTaken(r) == \E q \in rows : SameKey(r, q)

(***************************************************************************)
(* appendEvent is called with a fresh event: with no manager it opens a    *)
(* transaction, in a batch the caller has opened one.                      *)
(***************************************************************************)
Begin(w, t, m, e) ==
    /\ phase[w] = "idle"
    /\ e \notin issued
    /\ issued' = issued \union {e}
    /\ phase' = [phase EXCEPT ![w] = "open"]
    /\ call' = [call EXCEPT ![w] = [mode |-> m, tenant |-> t, event |-> e]]
    /\ UNCHANGED <<rows, pending, head, done, notified, acked>>

\* findOne ... ORDER BY chainSequence DESC: the head, or none.
ReadHead(w) ==
    /\ phase[w] = "open"
    /\ \/ /\ Visible(w) = {}
          /\ head' = [head EXCEPT ![w] = NoHead]
       \/ \E r \in Visible(w) :
             /\ \A q \in Visible(w) : q.seq <= r.seq
             /\ head' = [head EXCEPT ![w] = [seq |-> r.seq, hash |-> r.hash]]
    /\ phase' = [phase EXCEPT ![w] = "read"]
    /\ UNCHANGED <<rows, call, pending, done, issued, notified, acked>>

Insert_EmitFirst(w) ==  \* mutation: the gateway is called as soon as the row is saved
    /\ phase[w] = "read"
    /\ ChecksHold(NewRow(w))
    /\ ~ LockedByOther(w, NewRow(w))
    /\ ~ KeyTaken(NewRow(w))
    /\ pending' = [pending EXCEPT ![w] = @ \union {NewRow(w)}]
    /\ phase' = [phase EXCEPT ![w] = "saved"]
    /\ notified' = notified \union {call[w].event}
    /\ UNCHANGED <<rows, call, head, done, issued, acked>>

(***************************************************************************)
(* save(): the row goes in if no transaction holds its key.  In a batch    *)
(* appendEvent is then done, so it calls the gateway at once, with the     *)
(* caller's transaction still open.                                        *)
(***************************************************************************)
Insert(w) ==
    /\ phase[w] = "read"
    /\ ChecksHold(NewRow(w))
    /\ ~ LockedByOther(w, NewRow(w))
    /\ ~ KeyTaken(NewRow(w))
    /\ pending' = [pending EXCEPT ![w] = @ \union {NewRow(w)}]
    /\ phase' = [phase EXCEPT ![w] = "saved"]
    /\ notified' = IF call[w].mode = "batch" THEN notified \union {call[w].event}
                                             ELSE notified
    /\ UNCHANGED <<rows, call, head, done, issued, acked>>

\* The transaction ends without a commit.
Abort(w) ==
    /\ phase' = [phase EXCEPT ![w] = "idle"]
    /\ pending' = [pending EXCEPT ![w] = {}]
    /\ UNCHANGED <<rows, call, head, done, issued, notified, acked>>

Conflict_Hangs(w) ==  \* mutation: the error of save() is never delivered
    /\ phase[w] = "read"
    /\ ~ LockedByOther(w, NewRow(w))
    /\ KeyTaken(NewRow(w))
    /\ UNCHANGED vars

(***************************************************************************)
(* 23505: the transaction is rolled back and appendEvent throws            *)
(* ConflictException.  Nothing retries it.                                 *)
(***************************************************************************)
Conflict(w) ==
    /\ phase[w] = "read"
    /\ ~ LockedByOther(w, NewRow(w))
    /\ KeyTaken(NewRow(w))
    /\ Abort(w)

\* A batch goes on to its next event in the same transaction.
NextInBatch(w, e) ==
    /\ phase[w] = "saved"
    /\ call[w].mode = "batch"
    /\ e \notin issued
    /\ issued' = issued \union {e}
    /\ phase' = [phase EXCEPT ![w] = "open"]
    /\ call' = [call EXCEPT ![w] = [mode |-> "batch", tenant |-> call[w].tenant,
                                    event |-> e]]
    /\ UNCHANGED <<rows, pending, head, done, notified, acked>>

Commit_LastOnly(w) ==  \* mutation: of a batch only the last row is committed
    /\ phase[w] = "saved"
    /\ rows' = rows \union {r \in pending[w] : r.event = call[w].event}
    /\ done' = [done EXCEPT ![w] = {r.event : r \in pending[w]}]
    /\ pending' = [pending EXCEPT ![w] = {}]
    /\ phase' = [phase EXCEPT ![w] = "committed"]
    /\ UNCHANGED <<call, head, issued, notified, acked>>

\* COMMIT
Commit(w) ==
    /\ phase[w] = "saved"
    /\ rows' = rows \union pending[w]
    /\ done' = [done EXCEPT ![w] = {r.event : r \in pending[w]}]
    /\ pending' = [pending EXCEPT ![w] = {}]
    /\ phase' = [phase EXCEPT ![w] = "committed"]
    /\ UNCHANGED <<call, head, issued, notified, acked>>

(***************************************************************************)
(* manager.transaction() has resolved: an own append calls the gateway,    *)
(* which a batch did at each insert; then the caller gets its response.    *)
(***************************************************************************)
Respond(w) ==
    /\ phase[w] = "committed"
    /\ notified' = IF call[w].mode = "own" THEN notified \union done[w] ELSE notified
    /\ acked' = acked \union done[w]
    /\ done' = [done EXCEPT ![w] = {}]
    /\ phase' = [phase EXCEPT ![w] = "idle"]
    /\ UNCHANGED <<rows, call, pending, head, issued>>

(***************************************************************************)
(* The transaction fails before COMMIT for any other reason: a lost        *)
(* connection, or another item of the batch that throws.                   *)
(***************************************************************************)
Rollback(w) ==
    /\ phase[w] \in {"open", "read", "saved"}
    /\ Abort(w)

\* The API process dies: Postgres rolls back what was open, nobody is told.
Crash ==
    /\ \E w \in Writers : phase[w] # "idle"
    /\ phase' = [w \in Writers |-> "idle"]
    /\ pending' = [w \in Writers |-> {}]
    /\ done' = [w \in Writers |-> {}]
    /\ UNCHANGED <<rows, call, head, issued, notified, acked>>

Step(w) == ReadHead(w) \/ Insert(w) \/ Conflict(w) \/ Commit(w) \/ Respond(w)

Next ==
    \/ \E w \in Writers :
          \/ \E t \in Tenants, m \in Modes, e \in Events : Begin(w, t, m, e)
          \/ ReadHead(w)
          \/ Insert(w)
          \/ Conflict(w)
          \/ \E e \in Events : NextInBatch(w, e)
          \/ Commit(w)
          \/ Respond(w)
          \/ Rollback(w)
    \/ Crash

Spec == Init /\ [][Next]_vars

(***************************************************************************)
(* The event loop runs every continuation and Postgres answers every       *)
(* statement, so a transaction that can take its next step does.           *)
(***************************************************************************)
FairSpec == Spec /\ \A w \in Writers : WF_vars(Step(w))

-----------------------------------------------------------------------------
(***************************************************************************)
(* Properties.                                                             *)
(***************************************************************************)

\* verifyChain finds no failure in any tenant's committed chain, whatever
\* appends raced, were refused, rolled back or cut short by a crash.
ChainVerifies == \A t \in Tenants : ChainValid(RowsOf(rows, t))

Recorded == {r.event : r \in rows}

\* An event whose append was reported as a success is in the committed chain.
AckedDurable == acked \subseteq Recorded

\* "Emit notifications after durable persistence" (ledger-model.md): a client
\* is only notified of events that are committed.  An append in a transaction of
\* its caller cannot keep this: it notifies when the row is saved, and the row
\* may be rolled back.
NotifiedDurable ==
    [][\A e \in notified' \ notified :
          \/ e \in Recorded'
          \/ \E w \in Writers : call[w].mode = "batch" /\ call[w].event = e]_vars

\* Every transaction that was opened ends: no append waits for ever on the key
\* another one holds, and none loops.
AppendsEnd == \A w \in Writers : phase[w] # "idle" ~> phase[w] = "idle"

(***************************************************************************)
(* Why the chain verifies.  A set of rows of one tenant is a good chain if *)
(* its sequence numbers are 1..n for some n, no two rows share one, and    *)
(* each row carries the hash of its predecessor and its own.  The          *)
(* committed rows are a good chain, and so are the rows each transaction   *)
(* sees, its own uncommitted ones included; what is uncommitted never has  *)
(* the key of a committed row or of another transaction's row.             *)
(***************************************************************************)
Contiguous(rs) == rs = {} \/ \E h \in rs : {r.seq : r \in rs} = 1..h.seq

KeysUnique(rs) == \A r, q \in rs : r.seq = q.seq => r = q

Linked(rs) ==
    \A r \in rs : /\ r.hash = RowHash(r)
                  /\ r.seq = 1 => r.prev = NoHash
                  /\ r.seq > 1 => \E q \in rs : q.seq = r.seq - 1 /\ r.prev = q.hash

GoodChain(rs) == Contiguous(rs) /\ KeysUnique(rs) /\ Linked(rs)

\* The head a transaction has read is a row it still sees, at or above all its own.
HeadSound(w) ==
    \/ head[w] = NoHead /\ pending[w] = {}
    \/ /\ \E r \in Visible(w) : r.seq = head[w].seq /\ r.hash = head[w].hash
       /\ \A q \in pending[w] : q.seq <= head[w].seq

CommittedGood == \A t \in Tenants : GoodChain(RowsOf(rows, t))

VisibleGood == \A w \in Writers : GoodChain(Visible(w))

PendingSound ==
    \A w \in Writers :
        /\ \A r \in pending[w] : /\ r.tenant = call[w].tenant
                                /\ ~ KeyTaken(r)
                                /\ ~ LockedByOther(w, r)
        /\ phase[w] \in {"idle", "committed"} => pending[w] = {}
        /\ phase[w] = "read" => HeadSound(w)

DoneRecorded == \A w \in Writers : done[w] \subseteq Recorded

\* The inductive invariant.
ChainInv == CommittedGood /\ VisibleGood /\ PendingSound /\ DoneRecorded /\ AckedDurable

(***************************************************************************)
(* The chain implements the log of LedgerLog: position i of a tenant's log *)
(* is the event of the committed row with chain_sequence i.                *)
(***************************************************************************)
Height(rs) ==
    IF rs = {} THEN 0 ELSE (CHOOSE r \in rs : \A q \in rs : q.seq <= r.seq).seq

EventAt(rs, i) == (CHOOSE r \in rs : r.seq = i).event

LogOf(rs) == [i \in 1..Height(rs) |-> EventAt(rs, i)]

Log == INSTANCE LedgerLog WITH log <- [t \in Tenants |-> LogOf(RowsOf(rows, t))]

\* Every step appends to one tenant's log or leaves all logs alone.
ImplementsLog == Log!LogSpec
=============================================================================
