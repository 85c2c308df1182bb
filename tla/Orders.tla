------------------------------- MODULE Orders -------------------------------
(***************************************************************************)
(* OrdersService: creation with idempotency keys, the status lifecycle,    *)
(* and the proof built from the ledger, for the orders of one tenant.      *)
(*                                                                         *)
(* A request is one call of createOrder, updateStatus or cancelOrder.  It  *)
(* stops at every await, and any other request may run there.  The orders  *)
(* row and the ledger event are written by two transactions: the row is    *)
(* saved first, then LedgerEventsService.appendEvent is called.  To this   *)
(* service an append adds one event or throws, as module LedgerChain shows *)
(* (a chain conflict, a lost connection).  A crash of the process is a     *)
(* failure of every request under way, so it is Fail taken for each.       *)
(***************************************************************************)
EXTENDS Integers, FiniteSets

CONSTANTS
    Requests,       \* the calls that are made, each once
    Orders,         \* order ids
    Numbers,        \* display numbers, ORD-<date>-<0000..9999>
    Keys, NoKey,    \* idempotency keys, and a request without one
    NoOrder         \* the order of a request that has none yet

ASSUME NoneAssumption == NoKey \notin Keys /\ NoOrder \notin Orders

VARIABLES
    exists,         \* ids of the committed rows of orders
    key, number,    \* key[o], number[o]: the unique columns of order o
    row,            \* row[o]: its status and the timestamps that are set
    pc,             \* pc[r]: where request r is
    job,            \* job[r]: what it was asked
    cand,           \* cand[r]: the order number it has found free
    seen, base,     \* the row r loaded, and the row save() compared with
    time, born,     \* timestamp and created_at of the event r appends
    ledger,         \* the tenant's committed events about orders
    called, begun,  \* how many timestamps and created_at have been taken
    updates,        \* order.updated messages handed to the gateway
    stale,          \* orders saved from a row that had changed meanwhile
    overlapped,     \* orders changed by two requests at the same time
    lost            \* orders saved by a request that did not get its event in

table == <<exists, key, number, row>>
clocks == <<time, born, called, begun>>
history == <<stale, overlapped, lost>>
vars == <<table, pc, job, cand, seen, base, clocks, ledger, updates, history>>

Statuses == {"pending", "confirmed", "processing", "shipped", "delivered",
             "cancelled", "failed"}

VALID_STATUS_TRANSITIONS ==
    [s \in Statuses |->
        CASE s = "pending"    -> {"confirmed", "cancelled", "failed"}
          [] s = "confirmed"  -> {"processing", "cancelled", "failed"}
          [] s = "processing" -> {"shipped", "cancelled", "failed"}
          [] s = "shipped"    -> {"delivered", "failed"}
          [] OTHER            -> {}]

STATUS_TIMESTAMPS == {"confirmed", "shipped", "delivered", "cancelled"}

Row == [status : Statuses, stamps : SUBSET STATUS_TIMESTAMPS]

NewOrder == [status |-> "pending", stamps |-> {}]

Job == [kind : {"create", "change"}, key : Keys \union {NoKey},
        order : Orders \union {NoOrder}, to : Statuses]

Event == [order : Orders, action : {"ORDER_CREATED", "ORDER_CANCELLED",
                                    "ORDER_STATUS_CHANGED"},
          prev : Statuses \union {"none"}, status : Statuses, time : Nat, born : Nat]

Update == [type : {"created", "status_changed", "cancelled"}, order : Orders,
           status : Statuses]

\* Phases with nothing written, and phases with the row written and no event yet.
Unsaved == {"lookup", "number", "insert", "loaded", "diffed"}
Owing == {"saved", "called", "txn"}
Active == Unsaved \union Owing
Phases == Active \union {"new", "ok", "failed"}

TypeOK ==
    /\ exists \subseteq Orders
    /\ key \in [Orders -> Keys \union {NoKey}]
    /\ number \in [Orders -> Numbers]
    /\ row \in [Orders -> Row]
    /\ pc \in [Requests -> Phases]
    /\ job \in [Requests -> Job]
    /\ cand \in [Requests -> Numbers]
    /\ seen \in [Requests -> Row]
    /\ base \in [Requests -> Row]
    /\ time \in [Requests -> Nat] /\ born \in [Requests -> Nat]
    /\ called \in Nat /\ begun \in Nat
    /\ ledger \subseteq Event
    /\ updates \subseteq Update
    /\ stale \subseteq Orders /\ overlapped \subseteq Orders /\ lost \subseteq Orders

Init ==
    /\ exists = {}
    /\ key = [o \in Orders |-> NoKey]
    /\ \E n \in Numbers : /\ number = [o \in Orders |-> n]
                          /\ cand = [r \in Requests |-> n]
    /\ row = [o \in Orders |-> NewOrder]
    /\ pc = [r \in Requests |-> "new"]
    /\ job = [r \in Requests |-> [kind |-> "create", key |-> NoKey,
                                  order |-> NoOrder, to |-> "pending"]]
    /\ seen = [r \in Requests |-> NewOrder]
    /\ base = [r \in Requests |-> NewOrder]
    /\ time = [r \in Requests |-> 0] /\ born = [r \in Requests |-> 0]
    /\ called = 0 /\ begun = 0
    /\ ledger = {}
    /\ updates = {}
    /\ stale = {} /\ overlapped = {} /\ lost = {}

Goto(r, phase) == pc' = [pc EXCEPT ![r] = phase]

Emit(type, o) ==
    updates' = updates \union {[type |-> type, order |-> o, status |-> row[o].status]}

-----------------------------------------------------------------------------
(***************************************************************************)
(* createOrder                                                             *)
(***************************************************************************)
Create(r, k) ==
    /\ pc[r] = "new"
    /\ job' = [job EXCEPT ![r] = [kind |-> "create", key |-> k, order |-> NoOrder,
                                  to |-> "pending"]]
    /\ Goto(r, IF k = NoKey THEN "number" ELSE "lookup")
    /\ UNCHANGED <<table, cand, seen, base, clocks, ledger, updates, history>>

\* An order with the key exists: it is the answer, and createOrder announces it
\* as created once more, whatever its status and whether or not its event got in.
LookupFound(r) ==
    /\ pc[r] = "lookup"
    /\ \E o \in exists :
          /\ key[o] = job[r].key
          /\ job' = [job EXCEPT ![r] = [kind |-> "create", key |-> job[r].key,
                                        order |-> o, to |-> "pending"]]
          /\ Emit("created", o)
    /\ Goto(r, "ok")
    /\ UNCHANGED <<table, cand, seen, base, clocks, ledger, history>>

LookupNone(r) ==
    /\ pc[r] = "lookup"
    /\ \A o \in exists : key[o] # job[r].key
    /\ Goto(r, "number")
    /\ UNCHANGED <<table, job, cand, seen, base, clocks, ledger, updates, history>>

\* generateOrderNumber: a number no committed row has.
ChooseNumber(r) ==
    /\ pc[r] = "number"
    /\ \E n \in Numbers : /\ \A o \in exists : number[o] # n
                          /\ cand' = [cand EXCEPT ![r] = n]
    /\ Goto(r, "insert")
    /\ UNCHANGED <<table, job, seen, base, clocks, ledger, updates, history>>

UniqueViolation_NoKeyIndex(r) ==  \* mutation: only order_number has a unique index
    \E o \in exists : number[o] = cand[r]

\* The unique indexes on order_number and on (tenant, idempotency_key).
UniqueViolation(r) ==
    \E o \in exists : \/ number[o] = cand[r]
                      \/ job[r].key # NoKey /\ key[o] = job[r].key

\* save(entity): the new row is committed under a new id.
InsertOrder(r) ==
    /\ pc[r] = "insert"
    /\ ~ UniqueViolation(r)
    /\ \E o \in Orders \ exists :
          /\ exists' = exists \union {o}
          /\ key' = [key EXCEPT ![o] = job[r].key]
          /\ number' = [number EXCEPT ![o] = cand[r]]
          /\ row' = [row EXCEPT ![o] = NewOrder]
          /\ job' = [job EXCEPT ![r] = [kind |-> "create", key |-> job[r].key,
                                        order |-> o, to |-> "pending"]]
    /\ Goto(r, "saved")
    /\ UNCHANGED <<cand, seen, base, clocks, ledger, updates, history>>

-----------------------------------------------------------------------------
(***************************************************************************)
(* updateStatus, and cancelOrder, which is s = "cancelled"                 *)
(***************************************************************************)
Change_Unchecked(r, o, s) ==  \* mutation: assertValidTransition is not called
    /\ pc[r] = "new"
    /\ o \in exists
    /\ job' = [job EXCEPT ![r] = [kind |-> "change", key |-> NoKey, order |-> o, to |-> s]]
    /\ seen' = [seen EXCEPT ![r] = row[o]]
    /\ Goto(r, "loaded")
    /\ overlapped' = IF \E q \in Requests : pc[q] \in Active /\ job[q].order = o
                     THEN overlapped \union {o} ELSE overlapped
    /\ UNCHANGED <<table, cand, base, clocks, ledger, updates, stale, lost>>

\* changeStatus loads the row and checks the transition on what it loaded.
Change(r, o, s) ==
    /\ pc[r] = "new"
    /\ o \in exists
    /\ job' = [job EXCEPT ![r] = [kind |-> "change", key |-> NoKey, order |-> o, to |-> s]]
    /\ seen' = [seen EXCEPT ![r] = row[o]]
    /\ Goto(r, IF s \in VALID_STATUS_TRANSITIONS[row[o].status] THEN "loaded" ELSE "failed")
    /\ overlapped' = IF \E q \in Requests : pc[q] \in Active /\ job[q].order = o
                     THEN overlapped \union {o} ELSE overlapped
    /\ UNCHANGED <<table, cand, base, clocks, ledger, updates, stale, lost>>

\* save(entity) first selects the row again, to find the columns that differ.
Reload(r) ==
    /\ pc[r] = "loaded"
    /\ base' = [base EXCEPT ![r] = row[job[r].order]]
    /\ Goto(r, "diffed")
    /\ UNCHANGED <<table, job, cand, seen, clocks, ledger, updates, history>>

OwnStamp_Unchecked(r) == {job[r].to}  \* mutation: every status is stamped

OwnStamp(r) == {job[r].to} \intersect STATUS_TIMESTAMPS

\* The entity changeStatus hands to save().
Entity(r) == [status |-> job[r].to, stamps |-> seen[r].stamps \union OwnStamp(r)]

\* The columns save() found different are written, the others keep their value.
Saved(r, current) ==
    LET e == Entity(r)
        written == (e.stamps \ base[r].stamps) \union (base[r].stamps \ e.stamps)
                      \union OwnStamp(r)
    IN [status |-> IF e.status # base[r].status THEN e.status ELSE current.status,
        stamps |-> (e.stamps \intersect written) \union (current.stamps \ written)]

Write(r) ==
    /\ pc[r] = "diffed"
    /\ LET o == job[r].order
       IN /\ row' = [row EXCEPT ![o] = Saved(r, row[o])]
          /\ stale' = IF row[o] # seen[r] THEN stale \union {o} ELSE stale
    /\ Goto(r, "saved")
    /\ UNCHANGED <<exists, key, number, job, cand, seen, base, clocks, ledger,
                   updates, overlapped, lost>>

-----------------------------------------------------------------------------
(***************************************************************************)
(* appendOrderEvent, called by both once the row is saved                  *)
(***************************************************************************)
\* appendEvent takes the event's timestamp before it opens its transaction ...
Stamp(r) ==
    /\ pc[r] = "saved"
    /\ called' = called + 1
    /\ time' = [time EXCEPT ![r] = called + 1]
    /\ Goto(r, "called")
    /\ UNCHANGED <<table, job, cand, seen, base, born, begun, ledger, updates, history>>

\* ... whose start is the row's created_at (DEFAULT now()).
BeginAppend(r) ==
    /\ pc[r] = "called"
    /\ begun' = begun + 1
    /\ born' = [born EXCEPT ![r] = begun + 1]
    /\ Goto(r, "txn")
    /\ UNCHANGED <<table, job, cand, seen, base, time, called, ledger, updates, history>>

Action(r) ==
    IF job[r].kind = "create" THEN "ORDER_CREATED"
    ELSE IF job[r].to = "cancelled" THEN "ORDER_CANCELLED" ELSE "ORDER_STATUS_CHANGED"

Previous_FromSaved(r) ==  \* mutation: previousStatus is read after it was assigned
    IF job[r].kind = "create" THEN "none" ELSE job[r].to

Previous(r) == IF job[r].kind = "create" THEN "none" ELSE seen[r].status

OrderEvent(r) ==
    [order |-> job[r].order, action |-> Action(r), prev |-> Previous(r),
     status |-> job[r].to, time |-> time[r], born |-> born[r]]

UpdateType(r) ==
    IF job[r].kind = "create" THEN "created"
    ELSE IF job[r].to = "cancelled" THEN "cancelled" ELSE "status_changed"

UpdateOf(r) == [type |-> UpdateType(r), order |-> job[r].order, status |-> job[r].to]

\* The event is committed; the caller gets the saved entity and the update is
\* published with it.
Record(r) ==
    /\ pc[r] = "txn"
    /\ ledger' = ledger \union {OrderEvent(r)}
    /\ updates' = updates \union {UpdateOf(r)}
    /\ Goto(r, "ok")
    /\ UNCHANGED <<table, job, cand, seen, base, clocks, history>>

(***************************************************************************)
(* The request throws: 23505 on an insert, no free number in ten draws, a  *)
(* ConflictException of the ledger, a lost connection, a crash.  Nothing   *)
(* undoes a row that is saved.                                             *)
(***************************************************************************)
Fail(r) ==
    /\ pc[r] \in Active
    /\ Goto(r, "failed")
    /\ lost' = IF pc[r] \in Owing THEN lost \union {job[r].order} ELSE lost
    /\ UNCHANGED <<table, job, cand, seen, base, clocks, ledger, updates, stale, overlapped>>

Next ==
    \E r \in Requests :
        \/ \E k \in Keys \union {NoKey} : Create(r, k)
        \/ LookupFound(r)
        \/ LookupNone(r)
        \/ ChooseNumber(r)
        \/ InsertOrder(r)
        \/ \E o \in Orders, s \in Statuses : Change(r, o, s)
        \/ Reload(r)
        \/ Write(r)
        \/ Stamp(r)
        \/ BeginAppend(r)
        \/ Record(r)
        \/ Fail(r)

Spec == Init /\ [][Next]_vars

-----------------------------------------------------------------------------
(***************************************************************************)
(* The proof of an order: buildTimeline, buildProof, verifyProof           *)
(***************************************************************************)
\* buildTimeline: the order's events by created_at.
Timeline(o) == {e \in ledger : e.order = o}

First(es, e) == \A f \in es : e.born <= f.born

\* f comes right after e in the timeline.
FollowedBy(es, e, f) ==
    /\ e.born < f.born
    /\ \A g \in es : ~ (e.born < g.born /\ g.born < f.born)

\* validateProofEventChain, on the proof the service has just built.  Order id,
\* number and correlation id are those of the order it was built for.
Chronological(es) == \A e, f \in es : FollowedBy(es, e, f) => e.time <= f.time

StartsWithCreated(es) == \A e \in es : First(es, e) => e.action = "ORDER_CREATED"

ProofValid(o) ==
    LET es == Timeline(o)
    IN es # {} /\ Chronological(es) /\ StartsWithCreated(es)

-----------------------------------------------------------------------------
(***************************************************************************)
(* Properties                                                              *)
(***************************************************************************)
Settled(o) == \A r \in Requests : job[r].order = o => pc[r] \notin Active

\* Creation is idempotent: two requests with one key that both succeed are given
\* the same order, though both may have looked the key up before either saved.
IdempotentCreate ==
    \A r, q \in Requests :
        /\ pc[r] = "ok" /\ job[r].kind = "create" /\ job[r].key # NoKey
        /\ pc[q] = "ok" /\ job[q].kind = "create" /\ job[q].key = job[r].key
        => job[r].order = job[q].order

(***************************************************************************)
(* "Ledger events explain how that state changed" (ledger-model.md).  For  *)
(* an order on which no save overwrote a change made since it was loaded   *)
(* and no event was lost, the events, with those still being appended,     *)
(* lead from creation to the current status: each status is entered as     *)
(* often as it is left, the current one once more.                         *)
(***************************************************************************)
Entered(o, s) ==
    Cardinality({e \in ledger : e.order = o /\ e.status = s})
        + Cardinality({r \in Requests : pc[r] \in Owing /\ job[r].order = o /\ job[r].to = s})

Left(o, s) ==
    Cardinality({e \in ledger : e.order = o /\ e.prev = s})
        + Cardinality({r \in Requests : pc[r] \in Owing /\ job[r].order = o /\ Previous(r) = s})

StatusExplained ==
    \A o \in exists \ (stale \union lost) :
        \A s \in Statuses :
            Entered(o, s) = Left(o, s) + (IF s = row[o].status THEN 1 ELSE 0)

(***************************************************************************)
(* An order handled by one request at a time, none of which failed after   *)
(* its save, has a proof the service itself accepts, and its events are a  *)
(* chain of allowed transitions.                                           *)
(***************************************************************************)
ValidEventChain(es) ==
    \A e, f \in es : FollowedBy(es, e, f) =>
        /\ f.prev = e.status
        /\ f.status \in VALID_STATUS_TRANSITIONS[f.prev]

SerialProofValid ==
    \A o \in exists \ (overlapped \union lost) :
        Settled(o) => ProofValid(o) /\ ValidEventChain(Timeline(o))

=============================================================================
