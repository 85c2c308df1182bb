---------------------------- MODULE OrdersProofs ----------------------------
(***************************************************************************)
(* Proofs about Orders, for any sets of requests, orders, numbers and      *)
(* keys: its types, that creation is idempotent, that the ledger explains  *)
(* the status of an order, and that the proof of an order one request at a *)
(* time has handled is valid.                                              *)
(***************************************************************************)
EXTENDS Orders, FiniteSetTheorems, TLAPS

\* What save() writes, and the event of the change, are well typed.
LEMMA SavedType ==
    ASSUME TypeOK, NEW r \in Requests, NEW current \in Row
    PROVE  Saved(r, current) \in Row
<1>1. /\ job[r].to \in Statuses
      /\ seen[r].stamps \subseteq STATUS_TIMESTAMPS
      /\ base[r] \in Row /\ current.status \in Statuses
      /\ current.stamps \subseteq STATUS_TIMESTAMPS
  BY DEF TypeOK, Job, Row
<1>2. Entity(r).status \in Statuses /\ Entity(r).stamps \subseteq STATUS_TIMESTAMPS
  BY <1>1 DEF Entity, OwnStamp
<1>3. QED
  BY <1>1, <1>2 DEF Saved, Row

LEMMA EventType ==
    ASSUME TypeOK, NEW r \in Requests, job[r].order \in Orders
    PROVE  OrderEvent(r) \in Event /\ UpdateOf(r) \in Update
<1>1. /\ job[r].to \in Statuses /\ seen[r].status \in Statuses
      /\ time[r] \in Nat /\ born[r] \in Nat
  BY DEF TypeOK, Job, Row
<1>2. Previous(r) \in Statuses \union {"none"}
  BY <1>1 DEF Previous
<1>3. Action(r) \in {"ORDER_CREATED", "ORDER_CANCELLED", "ORDER_STATUS_CHANGED"}
  BY DEF Action
<1>4. UpdateType(r) \in {"created", "status_changed", "cancelled"}
  BY DEF UpdateType
<1>5. QED
  BY <1>1, <1>2, <1>3, <1>4 DEF OrderEvent, Event, UpdateOf, Update

(***************************************************************************)
(* The strengthening of TypeOK: a request that has its row saved, or has   *)
(* loaded it, knows an order that exists.                                  *)
(***************************************************************************)
OrderKnown ==
    \A r \in Requests : pc[r] \in {"loaded", "diffed", "saved", "called", "txn"}
                            => job[r].order \in exists

\* Only changes load, so that what is saved without having been loaded is new.
LoadsAreChanges ==
    \A r \in Requests : pc[r] \in {"loaded", "diffed"} => job[r].kind = "change"

\* The unique index on (tenant, idempotency_key).
KeysDistinct == \A o, p \in exists : key[o] # NoKey /\ key[o] = key[p] => o = p

\* A creation that has saved or found its order has the one that carries its key.
CreationsKeyed ==
    \A r \in Requests :
        job[r].kind = "create" /\ pc[r] \in {"saved", "called", "txn", "ok"} =>
            job[r].order \in exists /\ key[job[r].order] = job[r].key

\* The inductive invariant.
CreateInv == TypeOK /\ OrderKnown /\ LoadsAreChanges /\ KeysDistinct /\ CreationsKeyed

LEMMA InitInv == Init => CreateInv
  BY DEF Init, CreateInv, TypeOK, OrderKnown, LoadsAreChanges, KeysDistinct, CreationsKeyed,
     Phases, Active, Unsaved, Owing, Job, Row, NewOrder, Statuses

LEMMA TypeStep ==
    ASSUME TypeOK, OrderKnown, [Next]_vars
    PROVE  TypeOK'
<1> USE DEF Phases, Active, Unsaved, Owing, Goto, table, clocks, history
<1>1. ASSUME NEW r \in Requests, NEW k \in Keys \union {NoKey}, Create(r, k)
      PROVE  TypeOK'
  BY <1>1 DEF Create, TypeOK, Job, Statuses
<1>2. ASSUME NEW r \in Requests, LookupFound(r)
      PROVE  TypeOK'
  <2>1. PICK o \in exists :
          /\ job' = [job EXCEPT ![r] = [kind |-> "create", key |-> job[r].key,
                                        order |-> o, to |-> "pending"]]
          /\ Emit("created", o)
    BY <1>2 DEF LookupFound
  <2>2. o \in Orders /\ row[o].status \in Statuses /\ job[r].key \in Keys \union {NoKey}
    BY DEF TypeOK, Row, Job
  <2>3. updates' \subseteq Update
    BY <2>1, <2>2 DEF Emit, TypeOK, Update
  <2>4. job' \in [Requests -> Job]
    BY <2>1, <2>2 DEF TypeOK, Job, Statuses
  <2>5. QED
    BY <1>2, <2>3, <2>4 DEF LookupFound, TypeOK
<1>3. ASSUME NEW r \in Requests, LookupNone(r)
      PROVE  TypeOK'
  BY <1>3 DEF LookupNone, TypeOK
<1>4. ASSUME NEW r \in Requests, ChooseNumber(r)
      PROVE  TypeOK'
  BY <1>4 DEF ChooseNumber, TypeOK
<1>5. ASSUME NEW r \in Requests, InsertOrder(r)
      PROVE  TypeOK'
  <2>1. job[r].key \in Keys \union {NoKey} /\ cand[r] \in Numbers /\ NewOrder \in Row
    BY DEF TypeOK, Job, NewOrder, Row, Statuses
  <2>2. QED
    BY <1>5, <2>1 DEF InsertOrder, TypeOK, Job, Statuses
<1>6. ASSUME NEW r \in Requests, NEW o \in Orders, NEW s \in Statuses, Change(r, o, s)
      PROVE  TypeOK'
  BY <1>6 DEF Change, TypeOK, Job
<1>7. ASSUME NEW r \in Requests, Reload(r)
      PROVE  TypeOK'
  <2>1. job[r].order \in Orders
    BY <1>7 DEF Reload, OrderKnown, TypeOK
  <2>2. QED
    BY <1>7, <2>1 DEF Reload, TypeOK
<1>8. ASSUME NEW r \in Requests, Write(r)
      PROVE  TypeOK'
  <2>1. job[r].order \in Orders
    BY <1>8 DEF Write, OrderKnown, TypeOK
  <2>2. Saved(r, row[job[r].order]) \in Row
    BY <2>1, SavedType DEF TypeOK
  <2>3. QED
    BY <1>8, <2>1, <2>2 DEF Write, TypeOK
<1>9. ASSUME NEW r \in Requests, Stamp(r)
      PROVE  TypeOK'
  BY <1>9 DEF Stamp, TypeOK
<1>10. ASSUME NEW r \in Requests, BeginAppend(r)
       PROVE  TypeOK'
  BY <1>10 DEF BeginAppend, TypeOK
<1>11. ASSUME NEW r \in Requests, Record(r)
       PROVE  TypeOK'
  <2>1. job[r].order \in Orders
    BY <1>11 DEF Record, OrderKnown, TypeOK
  <2>2. OrderEvent(r) \in Event /\ UpdateOf(r) \in Update
    BY <2>1, EventType
  <2>3. QED
    BY <1>11, <2>2 DEF Record, TypeOK
<1>12. ASSUME NEW r \in Requests, Fail(r)
       PROVE  TypeOK'
  <2>1. pc[r] \in Owing => job[r].order \in Orders
    BY DEF OrderKnown, TypeOK
  <2>2. QED
    BY <1>12, <2>1 DEF Fail, TypeOK
<1>13. CASE UNCHANGED vars
  BY <1>13 DEF vars, TypeOK
<1>14. QED
  BY <1>1, <1>2, <1>3, <1>4, <1>5, <1>6, <1>7, <1>8, <1>9, <1>10, <1>11, <1>12, <1>13 DEF Next

\* Every step keeps the rest of the invariant.
LEMMA CreateStep ==
    ASSUME CreateInv, [Next]_vars
    PROVE  CreateInv'
<1> USE DEF CreateInv, Active, Unsaved, Owing, Goto, table, clocks
<1>1. TypeOK /\ TypeOK'
  BY TypeStep
<1>2. ASSUME NEW r \in Requests, NEW k \in Keys \union {NoKey}, Create(r, k)
      PROVE  CreateInv'
  BY <1>1, <1>2 DEF Create, TypeOK, OrderKnown, LoadsAreChanges, KeysDistinct, CreationsKeyed
<1>3. ASSUME NEW r \in Requests, LookupFound(r)
      PROVE  CreateInv'
  BY <1>1, <1>3 DEF LookupFound, TypeOK, OrderKnown, LoadsAreChanges, KeysDistinct, CreationsKeyed
<1>4. ASSUME NEW r \in Requests, LookupNone(r) \/ ChooseNumber(r)
      PROVE  CreateInv'
  BY <1>1, <1>4 DEF LookupNone, ChooseNumber, TypeOK, OrderKnown, LoadsAreChanges, KeysDistinct,
     CreationsKeyed
<1>5. ASSUME NEW r \in Requests, InsertOrder(r)
      PROVE  CreateInv'
  <2>1. PICK o \in Orders \ exists :
          /\ exists' = exists \union {o}
          /\ key' = [key EXCEPT ![o] = job[r].key]
          /\ job' = [job EXCEPT ![r] = [kind |-> "create", key |-> job[r].key,
                                        order |-> o, to |-> "pending"]]
    BY <1>5 DEF InsertOrder
  <2>2. pc' = [pc EXCEPT ![r] = "saved"] /\ ~ UniqueViolation(r)
    BY <1>5 DEF InsertOrder
  <2>3. key' [o] = job[r].key /\ \A p \in exists : key'[p] = key[p]
    BY <2>1 DEF TypeOK
  <2>4. KeysDistinct'
    BY <2>1, <2>2, <2>3 DEF KeysDistinct, UniqueViolation, TypeOK
  <2>5. CreationsKeyed'
    BY <2>1, <2>2, <2>3 DEF CreationsKeyed, TypeOK
  <2>6. OrderKnown' /\ LoadsAreChanges'
    BY <2>1, <2>2 DEF OrderKnown, LoadsAreChanges, TypeOK
  <2>7. QED
    BY <1>1, <2>4, <2>5, <2>6
<1>6. ASSUME NEW r \in Requests, NEW o \in Orders, NEW s \in Statuses, Change(r, o, s)
      PROVE  CreateInv'
  BY <1>1, <1>6 DEF Change, TypeOK, OrderKnown, LoadsAreChanges, KeysDistinct, CreationsKeyed
<1>7. ASSUME NEW r \in Requests, Reload(r) \/ Write(r)
      PROVE  CreateInv'
  BY <1>1, <1>7 DEF Reload, Write, TypeOK, OrderKnown, LoadsAreChanges, KeysDistinct,
     CreationsKeyed
<1>8. ASSUME NEW r \in Requests, Stamp(r) \/ BeginAppend(r) \/ Record(r) \/ Fail(r)
      PROVE  CreateInv'
  BY <1>1, <1>8 DEF Stamp, BeginAppend, Record, Fail, TypeOK, OrderKnown, LoadsAreChanges,
     KeysDistinct, CreationsKeyed
<1>9. CASE UNCHANGED vars
  BY <1>1, <1>9 DEF vars, OrderKnown, LoadsAreChanges, KeysDistinct, CreationsKeyed
<1>10. QED
  BY <1>2, <1>3, <1>4, <1>5, <1>6, <1>7, <1>8, <1>9 DEF Next

LEMMA CreateInvariant == Spec => []CreateInv
<1>1. CreateInv /\ [Next]_vars => CreateInv'
  BY CreateStep
<1>2. QED
  BY <1>1, InitInv, PTL DEF Spec

\* The orders table, the requests and the ledger keep their types.
THEOREM TypeCorrect == Spec => []TypeOK
<1>1. CreateInv => TypeOK
  BY DEF CreateInv
<1>2. QED
  BY <1>1, CreateInvariant, PTL

\* createOrder answers all requests with one idempotency key with one order, for
\* any number of requests between lookup and insert.
THEOREM CreationIdempotent == Spec => []IdempotentCreate
<1>1. CreateInv => IdempotentCreate
  BY DEF CreateInv, IdempotentCreate, KeysDistinct, CreationsKeyed
<1>2. QED
  BY <1>1, CreateInvariant, PTL

-----------------------------------------------------------------------------
(***************************************************************************)
(* Events and rows: what both of the order's other properties rest on.     *)
(***************************************************************************)
\* A change under way is one the lifecycle allows from what its request loaded.
Allowed ==
    \A r \in Requests :
        /\ pc[r] \in {"loaded", "diffed"} \union Owing /\ job[r].kind = "change" =>
              job[r].to \in VALID_STATUS_TRANSITIONS[seen[r].status]
        /\ pc[r] \in Owing /\ job[r].kind = "create" => job[r].to = "pending"
        /\ pc[r] \in {"lookup", "number", "insert"} => job[r].order = NoOrder

\* Events are about orders that exist, and no two of them, those that are being
\* written included, have the same created_at.
EventsDistinct ==
    /\ \A e \in ledger : e.order \in exists /\ e.born <= begun /\ e.time <= called
    /\ \A e, f \in ledger : e.born = f.born => e = f
    /\ \A r \in Requests : pc[r] = "txn" => born[r] <= begun /\ \A e \in ledger : e.born # born[r]
    /\ \A r, q \in Requests : pc[r] = "txn" /\ pc[q] = "txn" /\ born[r] = born[q] => r = q
    /\ \A r \in Requests : pc[r] \in {"called", "txn"} => time[r] <= called

EventInv == CreateInv /\ Allowed /\ EventsDistinct

LEMMA TransitionTypes ==
    \A s \in Statuses : VALID_STATUS_TRANSITIONS[s] \subseteq Statuses \ {s, "pending"}
BY DEF VALID_STATUS_TRANSITIONS, Statuses

\* What the steps of one request leave as it is for every other one.
Others(r) ==
    \A q \in Requests \ {r} :
        pc'[q] = pc[q] /\ job'[q] = job[q] /\ seen'[q] = seen[q] /\ base'[q] = base[q]
        /\ time'[q] = time[q] /\ born'[q] = born[q]

LEMMA OnlyOne ==
    ASSUME TypeOK, NEW r \in Requests,
           \/ \E k \in Keys \union {NoKey} : Create(r, k)
           \/ LookupFound(r) \/ LookupNone(r) \/ ChooseNumber(r) \/ InsertOrder(r)
           \/ \E o \in Orders, s \in Statuses : Change(r, o, s)
           \/ Reload(r) \/ Write(r) \/ Stamp(r) \/ BeginAppend(r) \/ Record(r) \/ Fail(r)
    PROVE  Others(r)
<1> USE DEF TypeOK, Goto, clocks, Others
<1>1. CASE \E k \in Keys \union {NoKey} : Create(r, k)
  BY <1>1 DEF Create
<1>2. CASE LookupFound(r)
  BY <1>2 DEF LookupFound
<1>3. CASE LookupNone(r) \/ ChooseNumber(r)
  BY <1>3 DEF LookupNone, ChooseNumber
<1>4. CASE InsertOrder(r)
  BY <1>4 DEF InsertOrder
<1>5. CASE \E o \in Orders, s \in Statuses : Change(r, o, s)
  BY <1>5 DEF Change
<1>6. CASE Reload(r) \/ Write(r)
  BY <1>6 DEF Reload, Write
<1>7. CASE Stamp(r) \/ BeginAppend(r)
  BY <1>7 DEF Stamp, BeginAppend
<1>8. CASE Record(r) \/ Fail(r)
  BY <1>8 DEF Record, Fail
<1>9. QED
  BY <1>1, <1>2, <1>3, <1>4, <1>5, <1>6, <1>7, <1>8

LEMMA AllowedStep ==
    ASSUME CreateInv, Allowed, [Next]_vars
    PROVE  Allowed'
<1> USE DEF Owing, Goto, CreateInv
<1>1. ASSUME NEW r \in Requests, Others(r),
             /\ pc'[r] \in {"loaded", "diffed"} \union Owing /\ job'[r].kind = "change" =>
                   job'[r].to \in VALID_STATUS_TRANSITIONS[seen'[r].status]
             /\ pc'[r] \in Owing /\ job'[r].kind = "create" => job'[r].to = "pending"
             /\ pc'[r] \in {"lookup", "number", "insert"} => job'[r].order = NoOrder
      PROVE  Allowed'
  BY <1>1 DEF Allowed, Others
<1>2. ASSUME NEW r \in Requests, NEW k \in Keys \union {NoKey}, Create(r, k)
      PROVE  Allowed'
  BY <1>1, <1>2, OnlyOne DEF Create, TypeOK
<1>3. ASSUME NEW r \in Requests, LookupFound(r)
      PROVE  Allowed'
  BY <1>1, <1>3, OnlyOne DEF LookupFound, TypeOK
<1>4. ASSUME NEW r \in Requests, LookupNone(r) \/ ChooseNumber(r)
      PROVE  Allowed'
  BY <1>1, <1>4, OnlyOne DEF LookupNone, ChooseNumber, TypeOK, Allowed
<1>5. ASSUME NEW r \in Requests, InsertOrder(r)
      PROVE  Allowed'
  <2>1. pc'[r] = "saved" /\ job'[r].kind = "create" /\ job'[r].to = "pending"
    BY <1>5 DEF InsertOrder, TypeOK
  <2>2. QED
    BY <1>1, <1>5, <2>1, OnlyOne
<1>6. ASSUME NEW r \in Requests, NEW o \in Orders, NEW s \in Statuses, Change(r, o, s)
      PROVE  Allowed'
  BY <1>1, <1>6, OnlyOne DEF Change, TypeOK
<1>7. ASSUME NEW r \in Requests, Reload(r) \/ Write(r)
      PROVE  Allowed'
  BY <1>1, <1>7, OnlyOne DEF Reload, Write, TypeOK, Allowed, LoadsAreChanges
<1>8. ASSUME NEW r \in Requests, Stamp(r) \/ BeginAppend(r) \/ Record(r) \/ Fail(r)
      PROVE  Allowed'
  BY <1>1, <1>8, OnlyOne DEF Stamp, BeginAppend, Record, Fail, TypeOK, Allowed
<1>9. CASE UNCHANGED vars
  BY <1>9 DEF vars, Allowed
<1>10. QED
  BY <1>2, <1>3, <1>4, <1>5, <1>6, <1>7, <1>8, <1>9 DEF Next

LEMMA EventsStep ==
    ASSUME CreateInv, EventsDistinct, [Next]_vars
    PROVE  EventsDistinct'
<1> USE DEF CreateInv
\* Nothing is begun or recorded.
<1>1. ASSUME NEW r \in Requests, Others(r), pc'[r] \notin {"called", "txn"}, exists \subseteq exists',
             UNCHANGED <<ledger, called, begun>>
      PROVE  EventsDistinct'
  BY <1>1 DEF EventsDistinct, Others
<1>2. ASSUME NEW r \in Requests,
             \/ \E k \in Keys \union {NoKey} : Create(r, k)
             \/ LookupFound(r) \/ LookupNone(r) \/ ChooseNumber(r) \/ InsertOrder(r)
             \/ \E o \in Orders, s \in Statuses : Change(r, o, s)
             \/ Reload(r) \/ Write(r) \/ Fail(r)
      PROVE  EventsDistinct'
  <2>1. Others(r)
    BY <1>2, OnlyOne
  <2>2. /\ pc'[r] \notin {"called", "txn"} /\ exists \subseteq exists'
        /\ UNCHANGED <<ledger, called, begun>>
    <3> USE DEF Goto, TypeOK, table, clocks
    <3>1. CASE \E k \in Keys \union {NoKey} : Create(r, k)
      BY <3>1 DEF Create
    <3>2. CASE LookupFound(r) \/ LookupNone(r) \/ ChooseNumber(r)
      BY <3>2 DEF LookupFound, LookupNone, ChooseNumber
    <3>3. CASE InsertOrder(r)
      BY <3>3 DEF InsertOrder
    <3>4. CASE \E o \in Orders, s \in Statuses : Change(r, o, s)
      BY <3>4 DEF Change
    <3>5. CASE Reload(r) \/ Write(r) \/ Fail(r)
      BY <3>5 DEF Reload, Write, Fail
    <3>6. QED
      BY <1>2, <3>1, <3>2, <3>3, <3>4, <3>5
  <2>3. QED
    BY <1>1, <2>1, <2>2
<1>3. ASSUME NEW r \in Requests, Stamp(r)
      PROVE  EventsDistinct'
  <2>1. Others(r)
    BY <1>3, OnlyOne
  <2>2. /\ pc'[r] # "txn" /\ UNCHANGED <<exists, ledger, begun>> /\ called' = called + 1
        /\ time'[r] = called + 1
    BY <1>3 DEF Stamp, Goto, TypeOK, table
  <2>3. \A n \in Nat : n <= called => n <= called + 1
    BY DEF TypeOK
  <2>4. /\ \A e \in ledger : e.time <= called'
        /\ \A q \in Requests \ {r} : pc[q] \in {"called", "txn"} => time[q] <= called'
        /\ time'[r] <= called'
    <3>1. \A e \in ledger : e.time \in Nat
      BY DEF TypeOK, Event
    <3>2. (\A q \in Requests : time[q] \in Nat) /\ called + 1 <= called + 1
      BY DEF TypeOK
    <3>3. QED
      BY <2>2, <2>3, <3>1, <3>2 DEF EventsDistinct
  <2>5. QED
    BY <2>1, <2>2, <2>4 DEF EventsDistinct, Others
<1>4. ASSUME NEW r \in Requests, BeginAppend(r)
      PROVE  EventsDistinct'
  <2>1. Others(r)
    BY <1>4, OnlyOne
  <2>2. /\ pc[r] = "called" /\ pc'[r] = "txn" /\ UNCHANGED <<exists, ledger, called>>
        /\ begun' = begun + 1 /\ born'[r] = begun + 1 /\ time' = time
    BY <1>4 DEF BeginAppend, Goto, TypeOK, table
  <2>3. \A n \in Nat : n <= begun => n <= begun + 1 /\ n # begun + 1
    BY DEF TypeOK
  <2>4. begun + 1 <= begun + 1
    BY DEF TypeOK
  <2>5. \A e \in ledger : e.born \in Nat
    BY DEF TypeOK, Event
  <2>6. \A q \in Requests : born[q] \in Nat
    BY DEF TypeOK
  <2>7. \A e \in ledger : e.order \in exists' /\ e.born <= begun' /\ e.time <= called'
                          /\ e.born # born'[r]
    BY <2>2, <2>3, <2>5 DEF EventsDistinct
  <2>8. \A q \in Requests \ {r} : pc'[q] = "txn" =>
           born'[q] <= begun' /\ born'[q] # born'[r] /\ \A e \in ledger : e.born # born'[q]
    BY <2>1, <2>2, <2>3, <2>6 DEF EventsDistinct, Others
  <2>9. \A q \in Requests : pc'[q] \in {"called", "txn"} => time'[q] <= called'
    BY <2>1, <2>2 DEF EventsDistinct, Others
  <2>10. born'[r] <= begun'
    BY <2>2, <2>4
  <2>11. QED
    BY <2>1, <2>2, <2>7, <2>8, <2>9, <2>10 DEF EventsDistinct, Others
<1>5. ASSUME NEW r \in Requests, Record(r)
      PROVE  EventsDistinct'
  <2> DEFINE x == OrderEvent(r)
  <2>1. Others(r)
    BY <1>5, OnlyOne
  <2>2. /\ pc[r] = "txn" /\ pc'[r] # "txn" /\ UNCHANGED <<exists, begun, called>>
        /\ ledger' = ledger \union {x}
    BY <1>5 DEF Record, Goto, TypeOK, table, clocks
  <2>3. x.order = job[r].order /\ x.born = born[r] /\ x.time = time[r]
    BY DEF OrderEvent
  <2>4. x.order \in exists /\ x.born <= begun /\ \A e \in ledger : e.born # x.born
    BY <2>2, <2>3 DEF EventsDistinct, OrderKnown
  <2>5. time[r] <= called
    BY <2>2 DEF EventsDistinct
  <2> HIDE DEF x
  <2>6. \A e \in ledger' : e.order \in exists' /\ e.born <= begun' /\ e.time <= called'
    BY <2>2, <2>3, <2>4, <2>5 DEF EventsDistinct
  <2>7. \A e, f \in ledger' : e.born = f.born => e = f
    BY <2>2, <2>4 DEF EventsDistinct
  <2>8. \A q \in Requests \ {r} : pc'[q] = "txn" =>
           born'[q] <= begun' /\ \A e \in ledger' : e.born # born'[q]
    BY <2>1, <2>2, <2>3 DEF EventsDistinct, Others
  <2>9. \A q \in Requests : pc'[q] \in {"called", "txn"} => q # r /\ time'[q] <= called'
    <3>1. pc'[r] = "ok"
      BY <1>5 DEF Record, Goto, TypeOK
    <3>2. QED
      BY <2>1, <2>2, <3>1 DEF EventsDistinct, Others
  <2>10. QED
    BY <2>1, <2>2, <2>6, <2>7, <2>8, <2>9 DEF EventsDistinct, Others
<1>6. CASE UNCHANGED vars
  BY <1>6 DEF vars, table, clocks, EventsDistinct
<1>7. QED
  BY <1>2, <1>3, <1>4, <1>5, <1>6 DEF Next

LEMMA EventInvStep ==
    ASSUME EventInv, [Next]_vars
    PROVE  EventInv'
BY CreateStep, AllowedStep, EventsStep DEF EventInv

-----------------------------------------------------------------------------
(***************************************************************************)
(* The events explain the status.  A save that overwrites nothing writes   *)
(* the status that was asked for, as the row save() compares with is then  *)
(* the one the request has loaded.                                         *)
(***************************************************************************)
Rank == [s \in Statuses |->
            CASE s = "pending" -> 0 [] s = "confirmed" -> 1 [] s = "processing" -> 2
              [] s = "shipped" -> 3 [] s = "delivered" -> 4 [] s = "cancelled" -> 5
              [] s = "failed" -> 6]

\* The row of an order that is not stale goes forward only, and what a request has
\* loaded of it, and loaded again, is behind it.
Forward ==
    \A r \in Requests :
        /\ pc[r] = "loaded" /\ job[r].order \notin stale =>
              Rank[seen[r].status] <= Rank[row[job[r].order].status]
        /\ pc[r] = "diffed" /\ job[r].order \notin stale =>
              /\ Rank[seen[r].status] <= Rank[base[r].status]
              /\ Rank[base[r].status] <= Rank[row[job[r].order].status]


LEMMA RankUp ==
    /\ \A s \in Statuses : Rank[s] \in Nat
    /\ \A s, t \in Statuses : Rank[s] = Rank[t] => s = t
    /\ \A s \in Statuses : \A t \in VALID_STATUS_TRANSITIONS[s] : Rank[s] < Rank[t]
BY DEF Rank, Statuses, VALID_STATUS_TRANSITIONS

LEMMA WriteFresh ==
    ASSUME EventInv, Forward, NEW r \in Requests, Write(r),
           job[r].order \notin stale'
    PROVE  LET o == job[r].order
           IN /\ o \in Orders /\ job[r].kind = "change" /\ row[o] = seen[r]
              /\ row' = [row EXCEPT ![o] = Saved(r, row[o])]
              /\ row'[o].status = job[r].to
              /\ job[r].to \in VALID_STATUS_TRANSITIONS[row[o].status]
<1> DEFINE o == job[r].order
<1>1. pc[r] = "diffed" /\ row' = [row EXCEPT ![o] = Saved(r, row[o])]
      /\ row[o] = seen[r] /\ o \notin stale
  BY DEF Write
<1>2. /\ o \in Orders /\ job[r].kind = "change"
      /\ job[r].to \in VALID_STATUS_TRANSITIONS[row[o].status]
  BY <1>1 DEF EventInv, CreateInv, OrderKnown, LoadsAreChanges, TypeOK, Allowed
<1>3. /\ row[o].status \in Statuses /\ base[r].status \in Statuses
      /\ job[r].to \in Statuses
  BY <1>2 DEF EventInv, CreateInv, TypeOK, Row, Job
<1>4. base[r].status = row[o].status
  <2>1. /\ Rank[row[o].status] <= Rank[base[r].status]
        /\ Rank[base[r].status] <= Rank[row[o].status]
    BY <1>1 DEF Forward
  <2>2. Rank[row[o].status] \in Nat /\ Rank[base[r].status] \in Nat
    BY <1>3, RankUp
  <2>3. \A m, n \in Nat : m <= n /\ n <= m => m = n
    OBVIOUS
  <2>4. QED
    BY <1>3, <2>1, <2>2, <2>3, RankUp
<1>5. job[r].to # base[r].status
  BY <1>2, <1>3, <1>4, TransitionTypes
<1>6. Saved(r, row[o]).status = job[r].to
  BY <1>5 DEF Saved, Entity
<1>7. row'[o].status = job[r].to
  BY <1>1, <1>2, <1>6 DEF EventInv, CreateInv, TypeOK
<1>8. QED
  BY <1>1, <1>2, <1>7

LEMMA ForwardStep ==
    ASSUME EventInv, Forward, [Next]_vars
    PROVE  Forward'
<1> USE DEF EventInv, CreateInv
\* No order is written, and r has not loaded or reloaded anything.
<1>1. ASSUME NEW r \in Requests, Others(r), pc'[r] \notin {"loaded", "diffed"}, stale \subseteq stale',
             \A p \in exists : row'[p] = row[p]
      PROVE  Forward'
  BY <1>1 DEF Forward, Others, OrderKnown
<1>2. ASSUME NEW r \in Requests,
             \/ \E k \in Keys \union {NoKey} : Create(r, k)
             \/ LookupFound(r) \/ LookupNone(r) \/ ChooseNumber(r)
             \/ Stamp(r) \/ BeginAppend(r) \/ Record(r) \/ Fail(r)
      PROVE  Forward'
  <2>1. Others(r)
    BY <1>2, OnlyOne
  <2>2. pc'[r] \notin {"loaded", "diffed"} /\ stale' = stale /\ row' = row
    <3> USE DEF Goto, TypeOK, table, history
    <3>1. CASE \E k \in Keys \union {NoKey} : Create(r, k)
      BY <3>1 DEF Create
    <3>2. CASE LookupFound(r) \/ LookupNone(r) \/ ChooseNumber(r)
      BY <3>2 DEF LookupFound, LookupNone, ChooseNumber
    <3>3. CASE Stamp(r) \/ BeginAppend(r)
      BY <3>3 DEF Stamp, BeginAppend
    <3>4. CASE Record(r) \/ Fail(r)
      BY <3>4 DEF Record, Fail
    <3>5. QED
      BY <1>2, <3>1, <3>2, <3>3, <3>4
  <2>3. QED
    BY <1>1, <2>1, <2>2
<1>3. ASSUME NEW r \in Requests, InsertOrder(r)
      PROVE  Forward'
  <2>1. pc'[r] = "saved" /\ stale' = stale /\ \A p \in exists : row'[p] = row[p]
    BY <1>3 DEF InsertOrder, Goto, TypeOK, history
  <2>2. QED
    BY <1>1, <1>3, <2>1, OnlyOne
<1>4. ASSUME NEW r \in Requests, NEW o \in Orders, NEW s \in Statuses, Change(r, o, s)
      PROVE  Forward'
  <2>1. /\ Others(r) /\ row' = row /\ stale' = stale
        /\ pc'[r] # "diffed" /\ job'[r].order = o /\ seen'[r] = row[o]
    BY <1>4, OnlyOne DEF Change, Goto, TypeOK, table
  <2>2. Rank[row[o].status] <= Rank[row[o].status]
    BY RankUp DEF TypeOK, Row
  <2>3. QED
    BY <2>1, <2>2 DEF Forward, Others
<1>5. ASSUME NEW r \in Requests, Reload(r)
      PROVE  Forward'
  <2> DEFINE o == job[r].order
  <2>1. /\ Others(r) /\ pc[r] = "loaded" /\ pc'[r] = "diffed" /\ base'[r] = row[o]
        /\ UNCHANGED <<row, stale, job, seen>> /\ o \in Orders
    BY <1>5, OnlyOne DEF Reload, Goto, TypeOK, table, history, OrderKnown
  <2>2. Rank[row[o].status] <= Rank[row[o].status]
    BY <2>1, RankUp DEF TypeOK, Row
  <2>3. QED
    BY <2>1, <2>2 DEF Forward, Others
<1>6. ASSUME NEW r \in Requests, Write(r)
      PROVE  Forward'
  <2> DEFINE o == job[r].order
  <2>1. /\ Others(r) /\ pc'[r] = "saved" /\ stale \subseteq stale'
        /\ \A p \in Orders \ {o} : row'[p] = row[p]
    BY <1>6, OnlyOne DEF Write, Goto, TypeOK
  <2>2. o \notin stale' => Rank[row[o].status] < Rank[row'[o].status]
                           /\ row[o].status \in Statuses /\ row'[o].status \in Statuses
    <3>1. ASSUME o \notin stale'
          PROVE  Rank[row[o].status] < Rank[row'[o].status]
                 /\ row[o].status \in Statuses /\ row'[o].status \in Statuses
      <4>1. o \in Orders /\ row'[o].status = job[r].to
            /\ job[r].to \in VALID_STATUS_TRANSITIONS[row[o].status]
        BY <1>6, <3>1, WriteFresh
      <4>2. row[o].status \in Statuses /\ job[r].to \in Statuses
        BY <4>1 DEF TypeOK, Row, Job
      <4>3. QED
        BY <4>1, <4>2, RankUp
    <3>2. QED
      BY <3>1
  <2>3. ASSUME NEW q \in Requests \ {r}, pc[q] \in {"loaded", "diffed"}, job[q].order \notin stale'
        PROVE  Rank[row[job[q].order].status] <= Rank[row'[job[q].order].status]
               /\ Rank[row[job[q].order].status] \in Nat /\ Rank[row'[job[q].order].status] \in Nat
    <3>1. job[q].order \in Orders
      BY <2>3 DEF OrderKnown, TypeOK
    <3>2. row[job[q].order].status \in Statuses
      BY <3>1 DEF TypeOK, Row
    <3>3. CASE job[q].order = o
      <4>1. \A m, n \in Nat : m < n => m <= n
        OBVIOUS
      <4>2. Rank[row[o].status] \in Nat /\ Rank[row'[o].status] \in Nat
        BY <2>2, <2>3, <3>3, RankUp
      <4>3. QED
        BY <2>2, <2>3, <3>3, <4>1, <4>2
    <3>4. CASE job[q].order # o
      <4>1. row'[job[q].order] = row[job[q].order]
        BY <2>1, <3>1, <3>4
      <4>2. QED
        BY <3>2, <4>1, RankUp
    <3>5. QED
      BY <3>3, <3>4
  <2>4. \A q \in Requests : Rank[seen[q].status] \in Nat /\ Rank[base[q].status] \in Nat
    BY RankUp DEF TypeOK, Row
  <2>5. \A k, m, n \in Nat : k <= m /\ m <= n => k <= n
    OBVIOUS
  <2>6. ASSUME NEW q \in Requests, pc'[q] \in {"loaded", "diffed"}, job'[q].order \notin stale'
        PROVE  /\ pc'[q] = "loaded" => Rank[seen'[q].status] <= Rank[row'[job'[q].order].status]
               /\ pc'[q] = "diffed" =>
                     /\ Rank[seen'[q].status] <= Rank[base'[q].status]
                     /\ Rank[base'[q].status] <= Rank[row'[job'[q].order].status]
    <3>1. /\ q # r /\ pc[q] = pc'[q] /\ job'[q] = job[q] /\ seen'[q] = seen[q] /\ base'[q] = base[q]
          /\ job[q].order \notin stale
      BY <2>1, <2>6 DEF Others
    <3>2. /\ pc[q] = "loaded" => Rank[seen[q].status] <= Rank[row[job[q].order].status]
          /\ pc[q] = "diffed" => /\ Rank[seen[q].status] <= Rank[base[q].status]
                                 /\ Rank[base[q].status] <= Rank[row[job[q].order].status]
      BY <3>1 DEF Forward
    <3>3. QED
      BY <2>3, <2>4, <2>5, <2>6, <3>1, <3>2
  <2>7. QED
    BY <2>6 DEF Forward
<1>7. CASE UNCHANGED vars
  BY <1>7 DEF vars, table, history, Forward
<1>8. QED
  BY <1>2, <1>3, <1>4, <1>5, <1>6, <1>7 DEF Next

\* The requests that have saved a row and owe its event.
SavedNow == {r \in Requests : pc[r] \in Owing}

Explained(o) ==
    \A s \in Statuses : Entered(o, s) = Left(o, s) + (IF s = row[o].status THEN 1 ELSE 0)

StatusInv == EventInv /\ IsFiniteSet(ledger) /\ IsFiniteSet(SavedNow) /\ Forward /\ StatusExplained

\* The four sets that Entered and Left count.
EventsTo(o, s) == {e \in ledger : e.order = o /\ e.status = s}
EventsFrom(o, s) == {e \in ledger : e.order = o /\ e.prev = s}
OwingTo(o, s) == {r \in Requests : pc[r] \in Owing /\ job[r].order = o /\ job[r].to = s}
OwingFrom(o, s) == {r \in Requests : pc[r] \in Owing /\ job[r].order = o /\ Previous(r) = s}

LEMMA Counts ==
    ASSUME IsFiniteSet(ledger), IsFiniteSet(SavedNow), NEW o, NEW s
    PROVE  /\ IsFiniteSet(EventsTo(o, s)) /\ Cardinality(EventsTo(o, s)) \in Nat
           /\ IsFiniteSet(EventsFrom(o, s)) /\ Cardinality(EventsFrom(o, s)) \in Nat
           /\ IsFiniteSet(OwingTo(o, s)) /\ Cardinality(OwingTo(o, s)) \in Nat
           /\ IsFiniteSet(OwingFrom(o, s)) /\ Cardinality(OwingFrom(o, s)) \in Nat
           /\ Entered(o, s) = Cardinality(EventsTo(o, s)) + Cardinality(OwingTo(o, s))
           /\ Left(o, s) = Cardinality(EventsFrom(o, s)) + Cardinality(OwingFrom(o, s))
<1>1. EventsTo(o, s) \in SUBSET ledger /\ EventsFrom(o, s) \in SUBSET ledger
  BY DEF EventsTo, EventsFrom
<1>2. OwingTo(o, s) \in SUBSET SavedNow /\ OwingFrom(o, s) \in SUBSET SavedNow
  BY DEF OwingTo, OwingFrom, SavedNow
<1>3. /\ IsFiniteSet(EventsTo(o, s)) /\ IsFiniteSet(EventsFrom(o, s))
      /\ IsFiniteSet(OwingTo(o, s)) /\ IsFiniteSet(OwingFrom(o, s))
  BY <1>1, <1>2, FS_Subset
<1>4. /\ Cardinality(EventsTo(o, s)) \in Nat /\ Cardinality(EventsFrom(o, s)) \in Nat
      /\ Cardinality(OwingTo(o, s)) \in Nat /\ Cardinality(OwingFrom(o, s)) \in Nat
  BY <1>3, FS_CardinalityType
<1>5. QED
  BY <1>3, <1>4 DEF Entered, Left, EventsTo, EventsFrom, OwingTo, OwingFrom

\* An element that goes from one set into another one, or only into it.
LEMMA MoveCount ==
    ASSUME NEW A, NEW B, NEW x, NEW y, IsFiniteSet(A), IsFiniteSet(B), x \notin A, y \in B
    PROVE  Cardinality(A \union {x}) + Cardinality(B \ {y}) = Cardinality(A) + Cardinality(B)
<1>1. PICK a \in Nat, b \in Nat : Cardinality(A) = a /\ Cardinality(B) = b
  BY FS_CardinalityType
<1>2. Cardinality(A \union {x}) = a + 1 /\ Cardinality(B \ {y}) = b - 1
  BY <1>1, FS_AddElement, FS_RemoveElement
<1>3. (a + 1) + (b - 1) = a + b
  OBVIOUS
<1>4. QED
  BY <1>1, <1>2, <1>3

\* Nothing has happened that is counted for this order.
LEMMA SameCounts ==
    ASSUME NEW o,
           {e \in ledger' : e.order = o} = {e \in ledger : e.order = o},
           \A q \in Requests :
              /\ pc'[q] \in Owing /\ job'[q].order = o <=> pc[q] \in Owing /\ job[q].order = o
              /\ pc[q] \in Owing /\ job[q].order = o => job'[q] = job[q] /\ seen'[q] = seen[q]
    PROVE  \A s \in Statuses : Entered(o, s)' = Entered(o, s) /\ Left(o, s)' = Left(o, s)
<1> SUFFICES ASSUME NEW s \in Statuses
             PROVE  Entered(o, s)' = Entered(o, s) /\ Left(o, s)' = Left(o, s)
  OBVIOUS
<1>1. EventsTo(o, s)' = EventsTo(o, s) /\ EventsFrom(o, s)' = EventsFrom(o, s)
  BY DEF EventsTo, EventsFrom
<1>2. OwingTo(o, s)' = OwingTo(o, s)
  BY DEF OwingTo
<1>3. OwingFrom(o, s)' = OwingFrom(o, s)
  BY DEF OwingFrom, Previous
<1>4. QED
  BY <1>1, <1>2, <1>3 DEF Entered, Left, EventsTo, EventsFrom, OwingTo, OwingFrom

LEMMA FinitePreserved ==
    ASSUME IsFiniteSet(ledger), IsFiniteSet(SavedNow), TypeOK, [Next]_vars
    PROVE  IsFiniteSet(ledger') /\ IsFiniteSet(SavedNow')
<1>1. ledger' = ledger \/ \E x : ledger' = ledger \union {x}
  BY DEF Next, Create, LookupFound, LookupNone, ChooseNumber, InsertOrder, Change, Reload, Write,
     Stamp, BeginAppend, Record, Fail, vars
<1>2. IsFiniteSet(ledger')
  BY <1>1, FS_AddElement
<1>3. SavedNow' \subseteq SavedNow \/ \E r \in Requests : SavedNow' \subseteq SavedNow \union {r}
  <2>1. ASSUME NEW r \in Requests, Others(r)
        PROVE  SavedNow' \subseteq SavedNow \union {r}
    BY <2>1 DEF Others, SavedNow
  <2>2. UNCHANGED vars => SavedNow' \subseteq SavedNow
    BY DEF vars, SavedNow
  <2>3. QED
    BY <2>1, <2>2, OnlyOne DEF Next
<1>4. \A r \in Requests : IsFiniteSet(SavedNow \union {r})
  BY FS_AddElement
<1>5. IsFiniteSet(SavedNow')
  BY <1>3, <1>4, FS_Subset
<1>6. QED
  BY <1>2, <1>5

\* The event is in the ledger: the request no longer counts, the event does.
LEMMA RecordExplains ==
    ASSUME StatusInv, NEW r \in Requests, Record(r), NEW s \in Statuses
    PROVE  LET o == job[r].order
           IN Entered(o, s)' = Entered(o, s) /\ Left(o, s)' = Left(o, s)
<1> DEFINE o == job[r].order
           x == OrderEvent(r)
<1>1. /\ pc[r] = "txn" /\ ledger' = ledger \union {x} /\ UNCHANGED <<job, seen>>
      /\ pc'[r] = "ok" /\ \A q \in Requests \ {r} : pc'[q] = pc[q]
  BY DEF Record, StatusInv, EventInv, CreateInv, TypeOK, Goto
<1>2. x.order = o /\ x.status = job[r].to /\ x.prev = Previous(r) /\ x.born = born[r]
  BY DEF OrderEvent
<1>3. x \notin ledger
  BY <1>1, <1>2 DEF StatusInv, EventInv, EventsDistinct
<1> HIDE DEF x
<1>4. EventsTo(o, s)' = IF job[r].to = s THEN EventsTo(o, s) \union {x} ELSE EventsTo(o, s)
  BY <1>1, <1>2 DEF EventsTo
<1>5. EventsFrom(o, s)' = IF Previous(r) = s THEN EventsFrom(o, s) \union {x} ELSE EventsFrom(o, s)
  BY <1>1, <1>2 DEF EventsFrom
<1>6. OwingTo(o, s)' = IF job[r].to = s THEN OwingTo(o, s) \ {r} ELSE OwingTo(o, s)
  BY <1>1 DEF OwingTo, Owing
<1>7. OwingFrom(o, s)' = IF Previous(r) = s THEN OwingFrom(o, s) \ {r} ELSE OwingFrom(o, s)
  BY <1>1 DEF OwingFrom, Owing, Previous
<1>8. /\ x \notin EventsTo(o, s) /\ x \notin EventsFrom(o, s)
      /\ job[r].to = s => r \in OwingTo(o, s)
      /\ Previous(r) = s => r \in OwingFrom(o, s)
  BY <1>1, <1>3 DEF EventsTo, EventsFrom, OwingTo, OwingFrom, Owing
<1>9. /\ IsFiniteSet(EventsTo(o, s)) /\ IsFiniteSet(EventsFrom(o, s))
      /\ IsFiniteSet(OwingTo(o, s)) /\ IsFiniteSet(OwingFrom(o, s))
  BY Counts DEF StatusInv
<1>10. /\ Cardinality(EventsTo(o, s)') + Cardinality(OwingTo(o, s)')
            = Cardinality(EventsTo(o, s)) + Cardinality(OwingTo(o, s))
       /\ Cardinality(EventsFrom(o, s)') + Cardinality(OwingFrom(o, s)')
            = Cardinality(EventsFrom(o, s)) + Cardinality(OwingFrom(o, s))
  BY <1>4, <1>5, <1>6, <1>7, <1>8, <1>9, MoveCount
<1>11. QED
  BY <1>10 DEF Entered, Left, EventsTo, EventsFrom, OwingTo, OwingFrom

\* A new order is pending, and its creation owes the event that says so.
LEMMA InsertExplains ==
    ASSUME StatusInv, NEW r \in Requests, InsertOrder(r), NEW o \in exists' \ exists
    PROVE  Explained(o)'
<1>1. /\ o \notin exists /\ o \in Orders /\ job'[r].order = o /\ job'[r].to = "pending"
      /\ job'[r].kind = "create" /\ row'[o].status = "pending" /\ pc'[r] = "saved"
      /\ ledger' = ledger
      /\ \A q \in Requests \ {r} : pc'[q] = pc[q] /\ job'[q] = job[q]
  BY DEF InsertOrder, StatusInv, EventInv, CreateInv, TypeOK, Goto, NewOrder
<1>2. \A e \in ledger : e.order # o
  BY <1>1 DEF StatusInv, EventInv, EventsDistinct
<1>3. \A q \in Requests : pc'[q] \in Owing /\ job'[q].order = o <=> q = r
  BY <1>1 DEF StatusInv, EventInv, CreateInv, OrderKnown, Owing
<1>4. ASSUME NEW s \in Statuses
      PROVE  Entered(o, s)' = Left(o, s)' + (IF s = row'[o].status THEN 1 ELSE 0)
  <2>1. EventsTo(o, s)' = {} /\ EventsFrom(o, s)' = {}
    BY <1>1, <1>2 DEF EventsTo, EventsFrom
  <2>2. OwingTo(o, s)' = IF s = "pending" THEN {r} ELSE {}
    BY <1>1, <1>3 DEF OwingTo
  <2>3. Previous(r)' = "none" /\ s # "none"
    BY <1>1 DEF Previous, Statuses
  <2>4. OwingFrom(o, s)' = {}
    BY <1>3, <2>3 DEF OwingFrom
  <2>5. Cardinality({}) = 0 /\ Cardinality({r}) = 1
    BY FS_EmptySet, FS_Singleton
  <2>6. /\ Entered(o, s)' = Cardinality(EventsTo(o, s)') + Cardinality(OwingTo(o, s)')
        /\ Left(o, s)' = Cardinality(EventsFrom(o, s)') + Cardinality(OwingFrom(o, s)')
    BY DEF Entered, Left, EventsTo, EventsFrom, OwingTo, OwingFrom
  <2>7. QED
    BY <1>1, <2>1, <2>2, <2>4, <2>5, <2>6
<1>5. QED
  BY <1>4 DEF Explained

\* A save that overwrites nothing leaves the status it has loaded.
LEMMA WriteExplains ==
    ASSUME StatusInv, NEW r \in Requests, Write(r),
           job[r].order \in exists \ (stale' \union lost)
    PROVE  Explained(job[r].order)'
<1> DEFINE o == job[r].order
<1>1. /\ o \in Orders /\ job[r].kind = "change" /\ row[o] = seen[r] /\ row'[o].status = job[r].to
      /\ job[r].to \in VALID_STATUS_TRANSITIONS[row[o].status]
  BY WriteFresh DEF StatusInv
<1>2. /\ pc[r] = "diffed" /\ pc'[r] = "saved" /\ UNCHANGED <<ledger, job, seen>>
      /\ \A q \in Requests \ {r} : pc'[q] = pc[q]
  BY DEF Write, StatusInv, EventInv, CreateInv, TypeOK, Goto, clocks
<1>3. o \in exists \ (stale \union lost)
  BY DEF Write
<1>4. row[o].status \in Statuses /\ job[r].to \in Statuses /\ job[r].to # row[o].status
  BY <1>1, TransitionTypes DEF StatusInv, EventInv, CreateInv, TypeOK, Row
<1>5. Previous(r) = row[o].status
  BY <1>1 DEF Previous
<1>6. ASSUME NEW s \in Statuses
      PROVE  Entered(o, s)' = Left(o, s)' + (IF s = row'[o].status THEN 1 ELSE 0)
  <2>1. EventsTo(o, s)' = EventsTo(o, s) /\ EventsFrom(o, s)' = EventsFrom(o, s)
    BY <1>2 DEF EventsTo, EventsFrom
  <2>2. OwingTo(o, s)' = IF s = job[r].to THEN OwingTo(o, s) \union {r} ELSE OwingTo(o, s)
    BY <1>2 DEF OwingTo, Owing
  <2>3. OwingFrom(o, s)' = IF s = row[o].status THEN OwingFrom(o, s) \union {r} ELSE OwingFrom(o, s)
    BY <1>2, <1>5 DEF OwingFrom, Owing, Previous
  <2>4. r \notin OwingTo(o, s) /\ r \notin OwingFrom(o, s)
    BY <1>2 DEF OwingTo, OwingFrom, Owing
  <2>5. /\ IsFiniteSet(OwingTo(o, s)) /\ IsFiniteSet(OwingFrom(o, s))
        /\ Entered(o, s) = Cardinality(EventsTo(o, s)) + Cardinality(OwingTo(o, s))
        /\ Left(o, s) = Cardinality(EventsFrom(o, s)) + Cardinality(OwingFrom(o, s))
    BY Counts DEF StatusInv
  <2>6. PICK a \in Nat, b \in Nat, c \in Nat, d \in Nat :
           /\ Cardinality(EventsTo(o, s)) = a /\ Cardinality(OwingTo(o, s)) = b
           /\ Cardinality(EventsFrom(o, s)) = c /\ Cardinality(OwingFrom(o, s)) = d
    BY Counts DEF StatusInv
  <2>7. a + b = c + d + (IF s = row[o].status THEN 1 ELSE 0)
    <3>1. Entered(o, s) = Left(o, s) + (IF s = row[o].status THEN 1 ELSE 0)
      BY <1>3 DEF StatusInv, StatusExplained
    <3>2. QED
      BY <2>5, <2>6, <3>1
  <2>8. /\ Entered(o, s)' = a + (IF s = job[r].to THEN b + 1 ELSE b)
        /\ Left(o, s)' = c + (IF s = row[o].status THEN d + 1 ELSE d)
    <3>1. /\ Cardinality(OwingTo(o, s)') = IF s = job[r].to THEN b + 1 ELSE b
          /\ Cardinality(OwingFrom(o, s)') = IF s = row[o].status THEN d + 1 ELSE d
      <4>1. Cardinality(OwingTo(o, s) \union {r}) = b + 1
        BY <2>4, <2>5, <2>6, FS_AddElement
      <4>2. Cardinality(OwingFrom(o, s) \union {r}) = d + 1
        BY <2>4, <2>5, <2>6, FS_AddElement
      <4>3. QED
        BY <2>2, <2>3, <2>6, <4>1, <4>2
    <3>2. /\ Entered(o, s)' = Cardinality(EventsTo(o, s)') + Cardinality(OwingTo(o, s)')
          /\ Left(o, s)' = Cardinality(EventsFrom(o, s)') + Cardinality(OwingFrom(o, s)')
      BY DEF Entered, Left, EventsTo, EventsFrom, OwingTo, OwingFrom
    <3>3. QED
      BY <2>1, <2>6, <3>1, <3>2
  <2>9. CASE s = job[r].to
    <3>1. s # row[o].status /\ s = row'[o].status
      BY <1>1, <1>4, <2>9
    <3>2. a + b = c + d
      BY <2>7, <3>1
    <3>3. a + (b + 1) = (c + d) + 1
      BY <3>2
    <3>4. QED
      BY <2>8, <2>9, <3>1, <3>3
  <2>10. CASE s # job[r].to
    <3>1. s # row'[o].status
      BY <1>1, <2>10
    <3>2. a + b = c + (IF s = row[o].status THEN d + 1 ELSE d) + 0
      BY <2>7
    <3>3. QED
      BY <2>8, <2>10, <3>1, <3>2
  <2>11. QED
    BY <2>9, <2>10
<1>7. QED
  BY <1>2, <1>6 DEF Explained

LEMMA StatusStep ==
    ASSUME StatusInv, [Next]_vars
    PROVE  StatusExplained'
<1> USE DEF StatusInv, EventInv, CreateInv
\* Nothing that counts has happened, or only to an order that has lost an event.
<1>1. ASSUME NEW r \in Requests, Others(r), UNCHANGED <<ledger, exists, row, stale>>,
             lost \subseteq lost',
             \/ pc[r] \notin Owing /\ pc'[r] \notin Owing
             \/ pc[r] \in Owing /\ job'[r] = job[r] /\ seen'[r] = seen[r] /\
                   (pc'[r] \in Owing \/ job[r].order \in lost')
      PROVE  StatusExplained'
  <2>1. ASSUME NEW o \in exists \ (stale \union lost')
        PROVE  Explained(o)'
    <3>1. \A q \in Requests :
             /\ pc'[q] \in Owing /\ job'[q].order = o <=> pc[q] \in Owing /\ job[q].order = o
             /\ pc[q] \in Owing /\ job[q].order = o => job'[q] = job[q] /\ seen'[q] = seen[q]
      BY <1>1, <2>1 DEF Others
    <3>2. \A s \in Statuses : Entered(o, s)' = Entered(o, s) /\ Left(o, s)' = Left(o, s)
      BY <1>1, <3>1, SameCounts
    <3>3. Explained(o)
      BY <1>1, <2>1 DEF StatusExplained, Explained
    <3>4. QED
      BY <1>1, <3>2, <3>3 DEF Explained
  <2>2. QED
    BY <1>1, <2>1 DEF StatusExplained, Explained
<1>2. ASSUME NEW r \in Requests,
             \/ \E k \in Keys \union {NoKey} : Create(r, k)
             \/ LookupFound(r) \/ LookupNone(r) \/ ChooseNumber(r)
             \/ \E o \in Orders, s \in Statuses : Change(r, o, s)
             \/ Reload(r) \/ Stamp(r) \/ BeginAppend(r) \/ Fail(r)
      PROVE  StatusExplained'
  <2>1. Others(r)
    BY <1>2, OnlyOne
  <2>2. /\ UNCHANGED <<ledger, exists, row, stale>> /\ lost \subseteq lost'
        /\ \/ pc[r] \notin Owing /\ pc'[r] \notin Owing
           \/ pc[r] \in Owing /\ job'[r] = job[r] /\ seen'[r] = seen[r] /\
                 (pc'[r] \in Owing \/ job[r].order \in lost')
    <3> USE DEF Goto, TypeOK, table, history, Owing
    <3>1. CASE \E k \in Keys \union {NoKey} : Create(r, k)
      BY <3>1 DEF Create
    <3>2. CASE LookupFound(r) \/ LookupNone(r) \/ ChooseNumber(r)
      BY <3>2 DEF LookupFound, LookupNone, ChooseNumber
    <3>3. CASE \E o \in Orders, s \in Statuses : Change(r, o, s)
      BY <3>3 DEF Change
    <3>4. CASE Reload(r) \/ Stamp(r) \/ BeginAppend(r)
      BY <3>4 DEF Reload, Stamp, BeginAppend
    <3>5. CASE Fail(r)
      BY <3>5 DEF Fail
    <3>6. QED
      BY <1>2, <3>1, <3>2, <3>3, <3>4, <3>5
  <2>3. QED
    BY <1>1, <2>1, <2>2
\* Another order than the one the step is about.
<1>3. ASSUME NEW r \in Requests, Others(r), NEW o \in exists \ (stale \union lost),
             {e \in ledger' : e.order = o} = {e \in ledger : e.order = o},
             pc[r] \in Owing => job[r].order # o, pc'[r] \in Owing => job'[r].order # o,
             row'[o] = row[o]
      PROVE  Explained(o)'
  <2>1. \A s \in Statuses : Entered(o, s)' = Entered(o, s) /\ Left(o, s)' = Left(o, s)
    BY <1>3, SameCounts DEF Others
  <2>2. Explained(o)
    BY <1>3 DEF StatusExplained, Explained
  <2>3. QED
    BY <1>3, <2>1, <2>2 DEF Explained
<1>4. ASSUME NEW r \in Requests, InsertOrder(r)
      PROVE  StatusExplained'
  <2>1. ASSUME NEW o \in exists' \ (stale' \union lost')
        PROVE  Explained(o)'
    <3>1. CASE o \notin exists
      BY <1>4, <2>1, <3>1, InsertExplains
    <3>2. CASE o \in exists
      <4>1. /\ pc[r] \notin Owing /\ job'[r].order # o /\ row'[o] = row[o]
            /\ o \in exists \ (stale \union lost) /\ ledger' = ledger
        BY <1>4, <2>1, <3>2 DEF InsertOrder, TypeOK, Owing, history
      <4>2. QED
        BY <1>3, <1>4, <4>1, OnlyOne
    <3>3. QED
      BY <3>1, <3>2
  <2>2. QED
    BY <2>1 DEF StatusExplained, Explained
<1>5. ASSUME NEW r \in Requests, Write(r)
      PROVE  StatusExplained'
  <2>1. ASSUME NEW o \in exists' \ (stale' \union lost')
        PROVE  Explained(o)'
    <3>1. o \in exists \ (stale' \union lost) /\ ledger' = ledger /\ job' = job
          /\ pc[r] \notin Owing /\ stale \subseteq stale'
      BY <1>5, <2>1 DEF Write, Owing
    <3>2. CASE o = job[r].order
      <4>1. Explained(job[r].order)'
        BY <1>5, <3>1, <3>2, WriteExplains
      <4>2. QED
        BY <3>1, <3>2, <4>1 DEF Explained
    <3>3. CASE o # job[r].order
      <4>1. row'[o] = row[o]
        BY <1>5, <3>1, <3>3 DEF Write, TypeOK
      <4>2. QED
        BY <1>3, <1>5, <3>1, <3>3, <4>1, OnlyOne
    <3>4. QED
      BY <3>2, <3>3
  <2>2. QED
    BY <2>1 DEF StatusExplained, Explained
<1>6. ASSUME NEW r \in Requests, Record(r)
      PROVE  StatusExplained'
  <2>1. ASSUME NEW o \in exists' \ (stale' \union lost')
        PROVE  Explained(o)'
    <3>1. /\ o \in exists \ (stale \union lost) /\ row' = row /\ job' = job
          /\ ledger' = ledger \union {OrderEvent(r)} /\ OrderEvent(r).order = job[r].order
      BY <1>6, <2>1 DEF Record, table, history, OrderEvent
    <3>2. CASE o = job[r].order
      <4>1. \A s \in Statuses : Entered(o, s)' = Entered(o, s) /\ Left(o, s)' = Left(o, s)
        BY <1>6, <3>1, <3>2, RecordExplains
      <4>2. Explained(o)
        BY <3>1 DEF StatusExplained, Explained
      <4>3. QED
        BY <3>1, <4>1, <4>2 DEF Explained
    <3>3. CASE o # job[r].order
      <4>1. {e \in ledger' : e.order = o} = {e \in ledger : e.order = o}
        BY <3>1, <3>3
      <4>2. QED
        BY <1>3, <1>6, <3>1, <3>3, <4>1, OnlyOne
    <3>4. QED
      BY <3>2, <3>3
  <2>2. QED
    BY <2>1 DEF StatusExplained, Explained
<1>7. CASE UNCHANGED vars
  BY <1>7 DEF vars, table, history, StatusExplained, Entered, Left, Previous
<1>8. QED
  BY <1>2, <1>4, <1>5, <1>6, <1>7 DEF Next

LEMMA EventsInit == Init => EventInv /\ IsFiniteSet(ledger) /\ IsFiniteSet(SavedNow)
<1>1. Init => Allowed /\ EventsDistinct /\ ledger = {} /\ SavedNow = {}
  BY DEF Init, Allowed, EventsDistinct, SavedNow, Owing
<1>2. QED
  BY <1>1, InitInv, FS_EmptySet DEF EventInv

\* The ledger events of an order, with those still being appended, explain its
\* status, for any number of concurrent changes, as long as no save has overwritten
\* another one and no event is lost.
THEOREM LedgerExplainsStatus == Spec => []StatusExplained
<1>1. Init => StatusInv
  <2>1. Init => Forward /\ StatusExplained
    BY DEF Init, Forward, StatusExplained
  <2>2. QED
    BY <2>1, EventsInit DEF StatusInv
<1>2. StatusInv /\ [Next]_vars => StatusInv'
  <2>1. ASSUME StatusInv, [Next]_vars
        PROVE  StatusInv'
    <3>1. EventInv' /\ Forward' /\ StatusExplained'
      BY <2>1, EventInvStep, ForwardStep, StatusStep DEF StatusInv
    <3>2. IsFiniteSet(ledger') /\ IsFiniteSet(SavedNow')
      BY <2>1, FinitePreserved DEF StatusInv, EventInv, CreateInv
    <3>3. QED
      BY <3>1, <3>2 DEF StatusInv
  <2>2. QED
    BY <2>1
<1>3. StatusInv => StatusExplained
  BY DEF StatusInv
<1>4. QED
  BY <1>1, <1>2, <1>3, PTL DEF Spec

-----------------------------------------------------------------------------
(***************************************************************************)
(* The proof of an order that one request at a time has handled.           *)
(***************************************************************************)
Serial == exists \ (overlapped \union lost)

IsOn(r, o) == pc[r] \in Active /\ job[r].order = o

\* What the one request on an order has loaded is the row; what it has taken from
\* the clocks is later than every event of the order.
Own(r, o) ==
    /\ pc[r] \in {"loaded", "diffed"} => seen[r] = row[o]
    /\ pc[r] = "diffed" => base[r] = row[o]
    /\ pc[r] \in Owing => row[o].status = job[r].to
    /\ pc[r] \in {"called", "txn"} => \A e \in Timeline(o) : e.time <= time[r]
    /\ pc[r] = "txn" => \A e \in Timeline(o) : e.born < born[r]

Last(es, e) == e \in es /\ \A f \in es : f.born <= e.born

LastHas(o, status) == \E e \in Timeline(o) : Last(Timeline(o), e) /\ e.status = status

\* The last event is that of the row, or of what a change that owes one has loaded.
LastExplains(o) ==
    \/ /\ \A r \in Requests : IsOn(r, o) => pc[r] \notin Owing
       /\ LastHas(o, row[o].status)
    \/ \E r \in Requests :
          /\ IsOn(r, o) /\ pc[r] \in Owing
          /\ IF job[r].kind = "create" THEN Timeline(o) = {} ELSE LastHas(o, seen[r].status)

ProofSound(es) == Chronological(es) /\ StartsWithCreated(es) /\ ValidEventChain(es)

SerialOrder(o) ==
    /\ \A r, q \in Requests : IsOn(r, o) /\ IsOn(q, o) => r = q
    /\ \A r \in Requests : IsOn(r, o) => Own(r, o)
    /\ LastExplains(o)
    /\ ProofSound(Timeline(o))

SerialInv == EventInv /\ \A o \in Serial : SerialOrder(o)

\* An event that is later than all others, and leaves the status the last of them
\* has entered, keeps the proof valid.
LEMMA Appended ==
    ASSUME NEW es \in SUBSET Event, NEW x \in Event, ProofSound(es),
           \A e, f \in es : e.born = f.born => e = f,
           \A e \in es : e.time <= x.time /\ e.born < x.born,
           \/ es = {} /\ x.action = "ORDER_CREATED"
           \/ \E e \in es : Last(es, e) /\ x.prev = e.status
                            /\ x.status \in VALID_STATUS_TRANSITIONS[x.prev]
    PROVE  ProofSound(es \union {x}) /\ Last(es \union {x}, x)
<1> DEFINE all == es \union {x}
<1>1. \A e \in all : e.born \in Nat
  BY DEF Event
<1>2. \A m, n \in Nat : m < n => ~ (n < m) /\ m # n /\ m <= n /\ ~ (n <= m)
  OBVIOUS
<1>3. \A n \in Nat : ~ (n < n) /\ n <= n
  OBVIOUS
<1>4. \A e \in all : ~ (x.born < e.born) /\ e.born <= x.born
  BY <1>1, <1>2, <1>3
<1>5. \A e, f \in all : FollowedBy(all, e, f) =>
         e \in es /\ (f # x => f \in es /\ FollowedBy(es, e, f))
  BY <1>4 DEF FollowedBy
<1>6. Chronological(all)
  BY <1>5 DEF Chronological, ProofSound
<1>7. StartsWithCreated(all)
  <2>1. CASE es = {}
    BY <2>1 DEF StartsWithCreated
  <2>2. CASE es # {}
    <3>1. \A e \in all : First(all, e) => e \in es /\ First(es, e)
      BY <1>1, <1>2, <2>2 DEF First
    <3>2. QED
      BY <3>1 DEF StartsWithCreated, ProofSound
  <2>3. QED
    BY <2>1, <2>2
<1>8. ASSUME NEW e \in es, FollowedBy(all, e, x)
      PROVE  x.prev = e.status /\ x.status \in VALID_STATUS_TRANSITIONS[x.prev]
  <2>1. PICK l \in es : Last(es, l) /\ x.prev = l.status
                        /\ x.status \in VALID_STATUS_TRANSITIONS[x.prev]
    BY <1>8
  <2>2. ~ (e.born < l.born) /\ e.born <= l.born
    BY <1>8, <2>1 DEF FollowedBy, Last
  <2>3. \A m, n \in Nat : m <= n /\ ~ (m < n) => m = n
    OBVIOUS
  <2>4. e = l
    BY <1>1, <2>2, <2>3
  <2>5. QED
    BY <2>1, <2>4
<1>9. ValidEventChain(all)
  BY <1>5, <1>8 DEF ValidEventChain, ProofSound
<1>10. QED
  BY <1>4, <1>6, <1>7, <1>9 DEF ProofSound, Last

\* A step that is not about the order.
LEMMA SerialSame ==
    ASSUME NEW o, NEW r \in Requests, Others(r), SerialOrder(o),
           Timeline(o)' = Timeline(o), row'[o] = row[o], ~ IsOn(r, o), ~ IsOn(r, o)'
    PROVE  SerialOrder(o)'
<1>1. \A q \in Requests : IsOn(q, o)' <=> IsOn(q, o)
  BY DEF IsOn, Others
<1>2. \A q \in Requests : IsOn(q, o) =>
         /\ q # r /\ pc'[q] = pc[q] /\ job'[q] = job[q] /\ seen'[q] = seen[q]
         /\ base'[q] = base[q] /\ time'[q] = time[q] /\ born'[q] = born[q]
  BY DEF Others
<1>3. \A q \in Requests : IsOn(q, o) => Own(q, o)'
  BY <1>2 DEF SerialOrder, Own
<1>4. LastExplains(o)'
  BY <1>1, <1>2 DEF SerialOrder, LastExplains, LastHas
<1>5. QED
  BY <1>1, <1>3, <1>4 DEF SerialOrder

\* A step of the only request on the order.
LEMMA SerialAlone ==
    ASSUME NEW o, NEW r \in Requests, Others(r), \A q \in Requests \ {r} : ~ IsOn(q, o),
           IsOn(r, o)' => Own(r, o)', LastExplains(o)', ProofSound(Timeline(o))'
    PROVE  SerialOrder(o)'
<1>1. \A q \in Requests \ {r} : ~ IsOn(q, o)'
  BY DEF IsOn, Others
<1>2. QED
  BY <1>1 DEF SerialOrder

LEMMA OnlyRequest ==
    ASSUME NEW o, NEW r \in Requests, SerialOrder(o), IsOn(r, o)
    PROVE  /\ \A q \in Requests \ {r} : ~ IsOn(q, o)
           /\ Own(r, o)
           /\ ProofSound(Timeline(o))
           /\ pc[r] \notin Owing => LastHas(o, row[o].status)
           /\ pc[r] \in Owing =>
                IF job[r].kind = "create" THEN Timeline(o) = {} ELSE LastHas(o, seen[r].status)
BY DEF SerialOrder, LastExplains

\* The step of a request that has nothing saved yet, and saves nothing.
LEMMA SerialLoad ==
    ASSUME SerialInv, NEW o \in Serial', NEW r \in Requests,
           \/ \E p \in Orders, s \in Statuses : Change(r, p, s)
           \/ Reload(r)
    PROVE  SerialOrder(o)'
<1> USE DEF SerialInv, EventInv, CreateInv
<1>1. /\ Others(r) /\ UNCHANGED <<exists, row, ledger, lost>> /\ o \in Serial
      /\ Timeline(o)' = Timeline(o) /\ SerialOrder(o) /\ o \in Orders
  <2>1. UNCHANGED <<exists, row, ledger, lost>> /\ overlapped \subseteq overlapped'
    BY DEF Change, Reload, table, history
  <2>2. QED
    BY <2>1, OnlyOne DEF Serial, Timeline, TypeOK
<1>2. CASE ~ IsOn(r, o) /\ ~ IsOn(r, o)'
  BY <1>1, <1>2, SerialSame
<1>3. CASE \E s \in Statuses : Change(r, o, s) /\ pc'[r] = "loaded"
  <2>1. pc'[r] = "loaded" /\ seen'[r] = row[o] /\ o \notin overlapped'
    BY <1>3 DEF Change, TypeOK, Serial
  <2>2. \A q \in Requests : ~ IsOn(q, o)
    BY <1>3, <2>1 DEF Change, IsOn
  <2>3. LastHas(o, row[o].status) /\ ProofSound(Timeline(o))
    BY <1>1, <2>2 DEF SerialOrder, LastExplains
  <2>4. LastHas(o, row[o].status)'
    BY <1>1, <2>3 DEF LastHas
  <2>5. LastExplains(o)'
    BY <1>1, <2>1, <2>2, <2>4 DEF LastExplains, IsOn, Others, Owing
  <2>6. QED
    BY <1>1, <2>1, <2>2, <2>3, <2>5, SerialAlone DEF Own, Owing
<1>4. CASE Reload(r) /\ IsOn(r, o)
  <2>1. /\ pc[r] = "loaded" /\ pc'[r] = "diffed" /\ base'[r] = row[o] /\ seen' = seen
        /\ job' = job
    BY <1>4 DEF Reload, TypeOK, Goto, IsOn
  <2>2. /\ \A q \in Requests \ {r} : ~ IsOn(q, o)
        /\ seen[r] = row[o] /\ LastHas(o, row[o].status) /\ ProofSound(Timeline(o))
    BY <1>1, <1>4, <2>1, OnlyRequest DEF Own, Owing
  <2>3. LastHas(o, row[o].status)'
    BY <1>1, <2>2 DEF LastHas
  <2>4. LastExplains(o)'
    BY <1>1, <2>1, <2>2, <2>3 DEF LastExplains, IsOn, Others, Owing
  <2>5. QED
    BY <1>1, <2>1, <2>2, <2>4, SerialAlone DEF Own, Owing
<1>5. QED
  <2>1. CASE Reload(r)
    <3>1. job' = job /\ pc[r] = "loaded"
      BY <2>1 DEF Reload
    <3>2. QED
      BY <1>2, <1>4, <2>1, <3>1 DEF IsOn, Active, Unsaved
  <2>2. CASE \E p \in Orders, s \in Statuses : Change(r, p, s)
    <3>1. PICK p \in Orders, s \in Statuses : Change(r, p, s)
      BY <2>2
    <3>2. pc[r] = "new" /\ (pc'[r] = "loaded" \/ pc'[r] = "failed") /\ job'[r].order = p
      BY <3>1 DEF Change, TypeOK, Goto
    <3>3. ~ IsOn(r, o) /\ (IsOn(r, o)' => p = o /\ pc'[r] = "loaded")
      BY <3>2 DEF IsOn, Active, Unsaved, Owing
    <3>4. QED
      BY <1>2, <1>3, <3>1, <3>3
  <2>3. QED
    BY <2>1, <2>2

\* The row is saved: by a change, whose order has its last event from before it ...
LEMMA SerialWrite ==
    ASSUME SerialInv, NEW o \in Serial', NEW r \in Requests, Write(r)
    PROVE  SerialOrder(o)'
<1> USE DEF SerialInv, EventInv, CreateInv
<1>1. /\ Others(r) /\ UNCHANGED <<ledger, job, seen, exists>> /\ o \in Serial
      /\ pc[r] = "diffed" /\ pc'[r] = "saved"
      /\ row' = [row EXCEPT ![job[r].order] = Saved(r, row[job[r].order])]
      /\ Timeline(o)' = Timeline(o) /\ SerialOrder(o) /\ o \in Orders
  BY OnlyOne DEF Write, Goto, Serial, Timeline, TypeOK
<1>2. CASE job[r].order # o
  BY <1>1, <1>2, SerialSame DEF IsOn, TypeOK
<1>3. CASE job[r].order = o
  <2>1. /\ \A q \in Requests \ {r} : ~ IsOn(q, o)
        /\ seen[r] = row[o] /\ base[r] = row[o]
        /\ LastHas(o, row[o].status) /\ ProofSound(Timeline(o))
    BY <1>1, <1>3, OnlyRequest DEF Own, Owing, IsOn, Active, Unsaved
  <2>2. job[r].kind = "change" /\ job[r].to # row[o].status
    <3>1. job[r].kind = "change" /\ job[r].to \in VALID_STATUS_TRANSITIONS[row[o].status]
      BY <1>1, <2>1 DEF LoadsAreChanges, Allowed
    <3>2. row[o].status \in Statuses
      BY <1>1 DEF TypeOK, Row
    <3>3. QED
      BY <3>1, <3>2, TransitionTypes
  <2>3. row'[o].status = job[r].to
    <3>1. Saved(r, row[o]).status = job[r].to
      BY <2>1, <2>2 DEF Saved, Entity
    <3>2. QED
      BY <1>1, <1>3, <3>1 DEF TypeOK
  <2>4. LastHas(o, seen[r].status)'
    BY <1>1, <2>1 DEF LastHas
  <2>5. IsOn(r, o)' /\ pc'[r] \in Owing
    BY <1>1, <1>3 DEF IsOn, Active, Owing
  <2>6. LastExplains(o)'
    BY <1>1, <2>2, <2>4, <2>5 DEF LastExplains
  <2>7. Own(r, o)'
    BY <1>1, <2>3 DEF Own
  <2>8. QED
    BY <1>1, <2>1, <2>6, <2>7, SerialAlone
<1>4. QED
  BY <1>2, <1>3

\* ... or by a creation, whose order has none.
LEMMA SerialInsert ==
    ASSUME SerialInv, NEW o \in Serial', NEW r \in Requests, InsertOrder(r)
    PROVE  SerialOrder(o)'
<1> USE DEF SerialInv, EventInv, CreateInv
<1>1. PICK p \in Orders \ exists :
        /\ exists' = exists \union {p} /\ row' = [row EXCEPT ![p] = NewOrder]
        /\ job' = [job EXCEPT ![r] = [kind |-> "create", key |-> job[r].key,
                                      order |-> p, to |-> "pending"]]
  BY DEF InsertOrder
<1>2. /\ Others(r) /\ pc[r] = "insert" /\ pc'[r] = "saved" /\ ledger' = ledger
      /\ UNCHANGED <<lost, overlapped>> /\ Timeline(o)' = Timeline(o)
      /\ o \in exists' /\ (o # p => o \in Serial /\ SerialOrder(o))
  BY <1>1, OnlyOne DEF InsertOrder, Goto, TypeOK, history, Serial, Timeline
<1>3. job[r].order = NoOrder /\ NoOrder \notin Orders /\ job'[r].order = p /\ job'[r].to = "pending"
      /\ job'[r].kind = "create"
  BY <1>1, <1>2, NoneAssumption DEF Allowed, TypeOK
<1>4. CASE o # p
  <2>1. row'[o] = row[o] /\ ~ IsOn(r, o) /\ ~ IsOn(r, o)'
    BY <1>1, <1>2, <1>3, <1>4 DEF TypeOK, IsOn
  <2>2. QED
    BY <1>2, <1>4, <2>1, SerialSame
<1>5. CASE o = p
  <2>1. \A q \in Requests : ~ IsOn(q, o)
    BY <1>1, <1>5, NoneAssumption DEF IsOn, Active, Unsaved, Owing, OrderKnown, Allowed
  <2>2. Timeline(o) = {}
    BY <1>1, <1>5 DEF EventsDistinct, Timeline
  <2>3. row'[o].status = "pending"
    BY <1>1, <1>5 DEF TypeOK, NewOrder
  <2>4. IsOn(r, o)' /\ pc'[r] \in Owing
    BY <1>2, <1>3, <1>5 DEF IsOn, Active, Owing
  <2>5. LastExplains(o)'
    BY <1>2, <1>3, <2>2, <2>4 DEF LastExplains
  <2>6. ProofSound(Timeline(o))'
    BY <1>2, <2>2 DEF ProofSound, Chronological, StartsWithCreated, ValidEventChain
  <2>7. Own(r, o)'
    BY <1>2, <1>3, <2>3 DEF Own
  <2>8. QED
    BY <1>2, <2>1, <2>5, <2>6, <2>7, SerialAlone
<1>6. QED
  BY <1>4, <1>5

\* The clocks are read: later than for every event there is.
LEMMA SerialClocks ==
    ASSUME SerialInv, NEW o \in Serial', NEW r \in Requests, Stamp(r) \/ BeginAppend(r)
    PROVE  SerialOrder(o)'
<1> USE DEF SerialInv, EventInv, CreateInv
<1>1. /\ Others(r) /\ UNCHANGED <<ledger, job, seen, row>> /\ o \in Serial
      /\ pc[r] \in Owing /\ pc'[r] \in Owing
      /\ Timeline(o)' = Timeline(o) /\ SerialOrder(o)
  BY OnlyOne DEF Stamp, BeginAppend, Goto, Serial, Timeline, TypeOK, table, history, Owing
<1>2. CASE job[r].order # o
  BY <1>1, <1>2, SerialSame DEF IsOn
<1>3. CASE job[r].order = o
  <2>1. IsOn(r, o) /\ IsOn(r, o)'
    BY <1>1, <1>3 DEF IsOn, Active
  <2>2. /\ \A q \in Requests \ {r} : ~ IsOn(q, o)
        /\ Own(r, o) /\ ProofSound(Timeline(o))
        /\ IF job[r].kind = "create" THEN Timeline(o) = {} ELSE LastHas(o, seen[r].status)
    BY <1>1, <2>1, OnlyRequest
  <2>3. LastExplains(o)'
    BY <1>1, <2>1, <2>2 DEF LastExplains, LastHas
  <2>4. \A e \in Timeline(o) : e.time \in Nat /\ e.born \in Nat /\ e.time <= called /\ e.born <= begun
    BY DEF Timeline, EventsDistinct, TypeOK, Event
  <2>5. Own(r, o)'
    <3>1. CASE Stamp(r)
      <4>1. pc'[r] = "called" /\ time'[r] = called + 1
        BY <3>1 DEF Stamp, Goto, TypeOK
      <4>2. \A n \in Nat : n <= called => n <= called + 1
        BY DEF TypeOK
      <4>3. QED
        BY <1>1, <2>2, <2>4, <4>1, <4>2 DEF Own
    <3>2. CASE BeginAppend(r)
      <4>1. pc[r] = "called" /\ pc'[r] = "txn" /\ born'[r] = begun + 1 /\ time' = time
        BY <3>2 DEF BeginAppend, Goto, TypeOK
      <4>2. \A n \in Nat : n <= begun => n < begun + 1
        BY DEF TypeOK
      <4>3. QED
        BY <1>1, <2>2, <2>4, <4>1, <4>2 DEF Own
    <3>3. QED
      BY <3>1, <3>2
  <2>6. QED
    BY <1>1, <2>2, <2>3, <2>5, SerialAlone
<1>4. QED
  BY <1>2, <1>3

\* The event follows the last one of its order.
LEMMA SerialRecord ==
    ASSUME SerialInv, NEW o \in Serial', NEW r \in Requests, Record(r)
    PROVE  SerialOrder(o)'
<1> USE DEF SerialInv, EventInv, CreateInv
<1> DEFINE x == OrderEvent(r)
<1>1. /\ Others(r) /\ UNCHANGED <<job, seen, row>> /\ o \in Serial /\ SerialOrder(o)
      /\ pc[r] = "txn" /\ pc'[r] = "ok" /\ ledger' = ledger \union {x}
  BY OnlyOne DEF Record, Goto, Serial, TypeOK, table, history
<1>2. /\ x.order = job[r].order /\ x.action = Action(r) /\ x.prev = Previous(r)
      /\ x.status = job[r].to /\ x.time = time[r] /\ x.born = born[r]
  BY DEF OrderEvent
<1>3. x \in Event
  BY <1>1, EventType DEF OrderKnown, TypeOK
<1> HIDE DEF x
<1>4. ~ IsOn(r, o)'
  BY <1>1 DEF IsOn, Active, Unsaved, Owing
<1>5. CASE job[r].order # o
  <2>1. Timeline(o)' = Timeline(o)
    BY <1>1, <1>2, <1>5 DEF Timeline
  <2>2. QED
    BY <1>1, <1>4, <1>5, <2>1, SerialSame DEF IsOn
<1>6. CASE job[r].order = o
  <2>1. IsOn(r, o) /\ pc[r] \in Owing
    BY <1>1, <1>6 DEF IsOn, Active, Owing
  <2>2. /\ \A q \in Requests \ {r} : ~ IsOn(q, o)
        /\ Own(r, o) /\ ProofSound(Timeline(o))
        /\ IF job[r].kind = "create" THEN Timeline(o) = {} ELSE LastHas(o, seen[r].status)
    BY <1>1, <2>1, OnlyRequest
  <2>3. Timeline(o)' = Timeline(o) \union {x}
    BY <1>1, <1>2, <1>6 DEF Timeline
  <2>4. /\ Timeline(o) \in SUBSET Event
        /\ \A e, f \in Timeline(o) : e.born = f.born => e = f
    BY DEF Timeline, TypeOK, EventsDistinct
  <2>5. \A e \in Timeline(o) : e.time <= x.time /\ e.born < x.born
    BY <1>1, <1>2, <2>2 DEF Own
  <2>6. \/ Timeline(o) = {} /\ x.action = "ORDER_CREATED"
        \/ \E e \in Timeline(o) : Last(Timeline(o), e) /\ x.prev = e.status
                                  /\ x.status \in VALID_STATUS_TRANSITIONS[x.prev]
    <3>1. CASE job[r].kind = "create"
      BY <1>2, <2>2, <3>1 DEF Action
    <3>2. CASE job[r].kind # "create"
      <4>1. x.prev = seen[r].status /\ x.status \in VALID_STATUS_TRANSITIONS[seen[r].status]
        BY <1>2, <2>1, <3>2 DEF Previous, Allowed, TypeOK, Job
      <4>2. QED
        BY <2>2, <3>2, <4>1 DEF LastHas
    <3>3. QED
      BY <3>1, <3>2
  <2>7. ProofSound(Timeline(o) \union {x}) /\ Last(Timeline(o) \union {x}, x)
    BY <1>3, <2>2, <2>4, <2>5, <2>6, Appended
  <2>8. x.status = row'[o].status
    BY <1>1, <1>2, <2>1, <2>2 DEF Own
  <2>9. LastHas(o, row[o].status)'
    BY <2>3, <2>7, <2>8 DEF LastHas
  <2>10. \A q \in Requests : IsOn(q, o)' => pc'[q] \notin Owing
    BY <1>1, <1>4, <2>2 DEF IsOn, Others
  <2>11. LastExplains(o)'
    BY <2>9, <2>10 DEF LastExplains
  <2>12. QED
    BY <1>1, <1>4, <2>2, <2>3, <2>7, <2>11, SerialAlone
<1>7. QED
  BY <1>5, <1>6

\* A request that fails before its save leaves the order as it was.
LEMMA SerialFail ==
    ASSUME SerialInv, NEW o \in Serial', NEW r \in Requests, Fail(r)
    PROVE  SerialOrder(o)'
<1> USE DEF SerialInv, EventInv, CreateInv
<1>1. /\ Others(r) /\ UNCHANGED <<job, row, ledger>> /\ o \in Serial /\ SerialOrder(o)
      /\ pc'[r] = "failed" /\ Timeline(o)' = Timeline(o)
      /\ (pc[r] \in Owing => job[r].order # o)
  BY OnlyOne DEF Fail, Goto, Serial, TypeOK, table, Timeline
<1>2. ~ IsOn(r, o)'
  BY <1>1 DEF IsOn, Active, Unsaved, Owing
<1>3. CASE ~ IsOn(r, o)
  BY <1>1, <1>2, <1>3, SerialSame
<1>4. CASE IsOn(r, o)
  <2>1. /\ \A q \in Requests \ {r} : ~ IsOn(q, o)
        /\ LastHas(o, row[o].status) /\ ProofSound(Timeline(o))
    BY <1>1, <1>4, OnlyRequest DEF IsOn
  <2>2. LastHas(o, row[o].status)'
    BY <1>1, <2>1 DEF LastHas
  <2>3. LastExplains(o)'
    BY <1>1, <1>2, <2>1, <2>2 DEF LastExplains, IsOn, Others
  <2>4. QED
    BY <1>1, <1>2, <2>1, <2>3, SerialAlone
<1>5. QED
  BY <1>3, <1>4

\* A creation that has saved nothing is on no order.
LEMMA SerialElsewhere ==
    ASSUME SerialInv, NEW o \in Serial', NEW r \in Requests,
           \/ \E k \in Keys \union {NoKey} : Create(r, k)
           \/ LookupFound(r) \/ LookupNone(r) \/ ChooseNumber(r)
    PROVE  SerialOrder(o)'
<1> USE DEF SerialInv, EventInv, CreateInv
<1>1. /\ UNCHANGED <<exists, row, ledger, overlapped, lost>>
      /\ \/ pc'[r] = "ok"
         \/ pc'[r] \in {"lookup", "number", "insert"} /\ job'[r].order = NoOrder
      /\ pc[r] \in {"new", "lookup", "number"}
  <2> USE DEF TypeOK, Goto, table, history
  <2>1. CASE \E k \in Keys \union {NoKey} : Create(r, k)
    BY <2>1 DEF Create
  <2>2. CASE LookupFound(r)
    BY <2>2 DEF LookupFound
  <2>3. CASE LookupNone(r) \/ ChooseNumber(r)
    BY <2>3 DEF LookupNone, ChooseNumber, Allowed
  <2>4. QED
    BY <2>1, <2>2, <2>3
<1>2. o \in Serial /\ o \in Orders /\ SerialOrder(o) /\ Timeline(o)' = Timeline(o) /\ Others(r)
  BY <1>1, OnlyOne DEF Serial, Timeline, TypeOK
<1>3. ~ IsOn(r, o) /\ ~ IsOn(r, o)'
  BY <1>1, <1>2, NoneAssumption DEF IsOn, Active, Unsaved, Owing, Allowed
<1>4. QED
  BY <1>1, <1>2, <1>3, SerialSame

LEMMA SerialStep ==
    ASSUME SerialInv, [Next]_vars
    PROVE  SerialInv'
<1>1. EventInv'
  BY EventInvStep DEF SerialInv
<1>2. ASSUME NEW o \in Serial'
      PROVE  SerialOrder(o)'
  <2>1. CASE UNCHANGED vars
    <3>1. o \in Serial /\ SerialOrder(o)
      BY <2>1 DEF vars, table, history, Serial, SerialInv
    <3>2. UNCHANGED <<row, pc, job, seen, base, time, born, ledger>>
      BY <2>1 DEF vars, table, clocks
    <3>3. QED
      BY <3>1, <3>2 DEF SerialOrder, IsOn, Own, LastExplains, LastHas, Timeline
  <2>2. QED
    BY <2>1, SerialLoad, SerialWrite, SerialInsert, SerialClocks, SerialRecord, SerialFail,
       SerialElsewhere DEF Next
<1>3. QED
  BY <1>1, <1>2 DEF SerialInv

\* An order that one request at a time has handled, none of which failed after its
\* save, has a proof that verifyProof accepts, whose events are allowed transitions.
THEOREM SerialProofsValid == Spec => []SerialProofValid
<1>1. Init => SerialInv
  <2>1. Init => Serial = {}
    BY DEF Init, Serial
  <2>2. QED
    BY <2>1, EventsInit DEF SerialInv
<1>2. SerialInv /\ [Next]_vars => SerialInv'
  BY SerialStep
<1>3. SerialInv => SerialProofValid
  <2>1. ASSUME SerialInv, NEW o \in exists \ (overlapped \union lost), Settled(o)
        PROVE  ProofValid(o) /\ ValidEventChain(Timeline(o))
    <3>1. SerialOrder(o) /\ \A r \in Requests : ~ IsOn(r, o)
      BY <2>1 DEF SerialInv, Serial, Settled, IsOn
    <3>2. LastHas(o, row[o].status)
      BY <3>1 DEF SerialOrder, LastExplains
    <3>3. Timeline(o) # {}
      BY <3>2 DEF LastHas
    <3>4. QED
      BY <3>1, <3>3 DEF SerialOrder, ProofSound, ProofValid
  <2>2. QED
    BY <2>1 DEF SerialProofValid
<1>4. QED
  BY <1>1, <1>2, <1>3, PTL DEF Spec
=============================================================================
