------------------------- MODULE DeviceIngestProofs -------------------------
(***************************************************************************)
(* Proofs about DeviceIngest, for any sets of requests, events and jobs,   *)
(* and any number of other appends and of expiries: its types, that one    *)
(* reservation of a nonce lets one request record its event, and that a    *)
(* batch is recorded as a whole or not at all.                             *)
(***************************************************************************)
EXTENDS DeviceIngest, TLAPS

Items(r) == job[r].items

\* Where a request is, and what its transaction may hold there.
WorkingAt(r) ==
    /\ pc[r] = "new" => pos[r] = 1
    /\ pc[r] # "new" => pos[r] \in 1..Len(Items(r))
    /\ pc[r] \in {"purge", "reserve"} => Item(r) \in Nonced
    /\ ~ job[r].batch \/ pc[r] \notin Active =>
          held[r] = {} /\ purged[r] = {} /\ keys[r] = {} /\ staged[r] = {}
    /\ keys[r] # {} => \E k \in keys[r] : \A i \in keys[r] : i <= k
    /\ \A m \in staged[r] : m.req = r

Working == \A r \in Requests : WorkingAt(r)

LEMMA JobTypes ==
    ASSUME TypeOK, NEW r \in Requests
    PROVE  Items(r) \in Seq(Events) /\ Len(Items(r)) \in Nat /\ job[r].batch \in BOOLEAN
<1>1. job[r] \in [batch : BOOLEAN, items : Seq(Events)]
  BY JobsAssumption DEF TypeOK
<1>2. Items(r) \in Seq(Events) /\ job[r].batch \in BOOLEAN
  BY <1>1 DEF Items
<1>3. QED
  BY <1>2

LEMMA ItemType ==
    ASSUME TypeOK, Working, NEW r \in Requests, pc[r] # "new"
    PROVE  Item(r) \in Events
<1>1. pos[r] \in 1..Len(Items(r)) /\ Items(r) \in Seq(Events)
  BY JobTypes DEF Working, WorkingAt
<1>2. QED
  BY <1>1 DEF Item, Items

\* The highest place a transaction sees taken is a place.
LEMMA TopType ==
    ASSUME TypeOK, Working, NEW r \in Requests
    PROVE  Top(r) \in Nat
<1>1. CASE keys[r] = {}
  BY <1>1 DEF Top, TypeOK
<1>2. CASE keys[r] # {}
  <2>1. \E k \in keys[r] : \A i \in keys[r] : i <= k
    BY <1>2 DEF Working, WorkingAt
  <2>2. Top(r) \in keys[r]
    BY <1>2, <2>1 DEF Top
  <2>3. QED
    BY <2>2 DEF TypeOK
<1>3. QED
  BY <1>1, <1>2

\* Only a request that runs a statement waits.
LEMMA Waiting ==
    ASSUME NEW r \in Requests, DeadlockVictim(r)
    PROVE  pc[r] \in {"purge", "reserve", "insert"}
<1>1. \E q : WaitsFor(r, q)
  BY DEF DeadlockVictim
<1>2. QED
  BY <1>1 DEF WaitsFor, PurgeWaits, ReserveWaits, InsertWaits

LEMMA InitWorking == Init => TypeOK /\ Working
<1> SUFFICES ASSUME Init PROVE TypeOK /\ Working
  OBVIOUS
<1>1. job \in [Requests -> Jobs]
  BY DEF Init
<1>2. others \in 0..MaxOther /\ 0 \in 0..MaxExpiry
  BY BoundsAssumption DEF Init
<1>3. TypeOK
  BY <1>1, <1>2 DEF Init, TypeOK
<1>4. Working
  BY DEF Init, Working, WorkingAt, Active
<1>5. QED
  BY <1>3, <1>4

LEMMA TypeStep ==
    ASSUME TypeOK, Working, [Next]_vars
    PROVE  TypeOK'
<1> USE DEF Goto, txn, Active, Ended
<1>1. ASSUME NEW r \in Requests, NEW j \in Jobs, Ingest(r, j)
      PROVE  TypeOK'
  BY <1>1 DEF Ingest, Start, TypeOK
<1>2. ASSUME NEW r \in Requests, Purge(r)
      PROVE  TypeOK'
  <2>1. Old \subseteq Nonced
    BY DEF Old
  <2>2. nonce' \in [Events -> {"none", "fresh", "old"}] /\ purged' \in [Requests -> SUBSET Nonced]
    BY <1>2, <2>1 DEF Purge, TypeOK
  <2>3. QED
    BY <1>2, <2>2 DEF Purge, TypeOK
<1>3. ASSUME NEW r \in Requests, Reserve(r)
      PROVE  TypeOK'
  <2>1. pc[r] = "reserve" /\ Item(r) \in Nonced /\ Item(r) \in Events
    BY <1>3, ItemType DEF Reserve, Working, WorkingAt
  <2>2. nonce' \in [Events -> {"none", "fresh", "old"}] /\ held' \in [Requests -> SUBSET Nonced]
    BY <1>3, <2>1 DEF Reserve, TypeOK
  <2>3. mark' \in [Requests -> 0..MaxExpiry]
    BY <1>3, <2>1 DEF Reserve, TypeOK
  <2>4. QED
    BY <1>3, <2>2, <2>3 DEF Reserve, TypeOK
<1>4. ASSUME NEW r \in Requests, NEW answer \in Ended, EndWith(r, answer)
      PROVE  TypeOK'
  BY <1>4 DEF EndWith, Release, TypeOK
<1>5. ASSUME NEW r \in Requests, Replayed(r) \/ Fail(r) \/ Conflict(r) \/ DeadlockVictim(r)
      PROVE  TypeOK'
  BY <1>4, <1>5 DEF Replayed, Fail, Conflict, DeadlockVictim
<1>6. ASSUME NEW r \in Requests, ReadHead(r)
      PROVE  TypeOK'
  <2>1. Top(r) \in Nat
    BY TopType
  <2>2. head' \in [Requests -> Nat]
    BY <1>6, <2>1 DEF ReadHead, TypeOK
  <2>3. QED
    BY <1>6, <2>2 DEF ReadHead, TypeOK
<1>7. ASSUME NEW r \in Requests, Insert(r)
      PROVE  TypeOK'
  <2> DEFINE entry == [req |-> r, event |-> Item(r), epoch |-> mark[r]]
  <2>1. entry \in Entry
    BY <1>7, ItemType DEF Insert, Entry, TypeOK
  <2>2. head[r] + 1 \in Nat
    BY DEF TypeOK
  <2>3. keys' \in [Requests -> SUBSET Nat] /\ height' \in Nat
    BY <1>7, <2>2 DEF Insert, TypeOK
  <2>4. staged' \in [Requests -> SUBSET Entry] /\ log' \subseteq Entry
    BY <1>7, <2>1 DEF Insert, TypeOK
  <2>5. QED
    BY <1>7, <2>3, <2>4 DEF Insert, AfterInsert, TypeOK
<1>8. ASSUME NEW r \in Requests, ScanInsert(r)
      PROVE  TypeOK'
  BY <1>8 DEF ScanInsert, TypeOK
<1>9. ASSUME NEW r \in Requests, NextItem(r)
      PROVE  TypeOK'
  BY <1>9 DEF NextItem, Start, TypeOK
<1>10. ASSUME NEW r \in Requests, Finish(r)
       PROVE  TypeOK'
  <2>1. height' \in Nat
    BY <1>10, TopType DEF Finish
  <2>2. nonce' \in [Events -> {"none", "fresh", "old"}] /\ log' \subseteq Entry
    BY <1>10 DEF Finish, TypeOK
  <2>3. QED
    BY <1>10, <2>1, <2>2 DEF Finish, Release, TypeOK
<1>11. CASE OtherAppend
  BY <1>11, BoundsAssumption DEF OtherAppend, TypeOK
<1>12. ASSUME NEW e \in Events, Expire(e)
       PROVE  TypeOK'
  BY <1>12, BoundsAssumption DEF Expire, TypeOK
<1>13. CASE UNCHANGED vars
  BY <1>13 DEF vars, TypeOK
<1>14. QED
  BY <1>1, <1>2, <1>3, <1>5, <1>6, <1>7, <1>8, <1>9, <1>10, <1>11, <1>12, <1>13 DEF Next

LEMMA WorkingStep ==
    ASSUME TypeOK, Working, [Next]_vars
    PROVE  Working'
<1> USE DEF Goto, txn, Active, TypeOK
<1>1. ASSUME NEW q \in Requests, pc'[q] = pc[q], job'[q] = job[q], pos'[q] = pos[q],
             held'[q] = held[q], purged'[q] = purged[q], keys'[q] = keys[q], staged'[q] = staged[q]
      PROVE  WorkingAt(q)'
  BY <1>1 DEF Working, WorkingAt, Items, Item
<1>2. ASSUME NEW r \in Requests, NEW j \in Jobs, Ingest(r, j)
      PROVE  WorkingAt(r)'
  <2>1. /\ pc[r] = "new" /\ job' = [job EXCEPT ![r] = j]
        /\ pc' = [pc EXCEPT ![r] = Start(j.items[1])]
        /\ UNCHANGED <<pos, held, purged, keys, staged>> /\ j.items # <<>>
    BY <1>2 DEF Ingest
  <2>2. j.items \in Seq(Events)
    BY JobsAssumption
  <2>3. 1 \in 1..Len(j.items)
    BY <2>1, <2>2
  <2>4. pos[r] = 1 /\ held[r] = {} /\ purged[r] = {} /\ keys[r] = {} /\ staged[r] = {}
    BY <2>1 DEF Working, WorkingAt
  <2>5. job'[r] = j /\ pc'[r] = Start(j.items[1])
    BY <2>1
  <2>6. QED
    BY <2>1, <2>3, <2>4, <2>5 DEF WorkingAt, Items, Item, Start
<1>3. ASSUME NEW r \in Requests, Purge(r)
      PROVE  WorkingAt(r)'
  BY <1>3 DEF Purge, Working, WorkingAt, Items, Item
<1>4. ASSUME NEW r \in Requests, Reserve(r)
      PROVE  WorkingAt(r)'
  BY <1>4 DEF Reserve, Working, WorkingAt, Items, Item
<1>5. ASSUME NEW r \in Requests, NEW answer \in Ended, EndWith(r, answer), pc[r] # "new"
      PROVE  WorkingAt(r)'
  BY <1>5 DEF EndWith, Release, Ended, Working, WorkingAt, Items, Item
<1>6. ASSUME NEW r \in Requests, ReadHead(r)
      PROVE  WorkingAt(r)'
  BY <1>6 DEF ReadHead, Working, WorkingAt, Items, Item
<1>7. ASSUME NEW r \in Requests, Insert(r)
      PROVE  WorkingAt(r)'
  <2> DEFINE entry == [req |-> r, event |-> Item(r), epoch |-> mark[r]]
  <2>1. /\ pc[r] = "insert" /\ pc' = [pc EXCEPT ![r] = AfterInsert(r)]
        /\ job' = job /\ pos' = pos /\ held' = held /\ purged' = purged
        /\ IF job[r].batch
           THEN keys' = [keys EXCEPT ![r] = @ \union {head[r] + 1}]
                /\ staged' = [staged EXCEPT ![r] = @ \union {entry}]
           ELSE keys' = keys /\ staged' = staged
    BY <1>7 DEF Insert
  <2>2. pc'[r] \in {"scanhead", "next"}
    BY <2>1 DEF AfterInsert
  <2>3. CASE ~ job[r].batch
    BY <2>1, <2>2, <2>3 DEF Working, WorkingAt, Items, Item
  <2>4. CASE job[r].batch
    <3>1. keys'[r] = keys[r] \union {head[r] + 1} /\ staged'[r] = staged[r] \union {entry}
      BY <2>1, <2>4
    <3>2. \E k \in keys'[r] : \A i \in keys'[r] : i <= k
      <4>1. CASE keys[r] = {}
        BY <3>1, <4>1
      <4>2. CASE keys[r] # {}
        <5>1. PICK k \in keys[r] : \A i \in keys[r] : i <= k
          BY <4>2 DEF Working, WorkingAt
        <5>2. k \in Nat /\ head[r] + 1 \in Nat /\ keys[r] \subseteq Nat
          OBVIOUS
        <5>3. CASE k <= head[r] + 1
          <6>1. \A i \in keys'[r] : i <= head[r] + 1
            BY <3>1, <5>1, <5>2, <5>3
          <6>2. QED
            BY <3>1, <6>1
        <5>4. CASE ~ k <= head[r] + 1
          <6>1. \A i \in keys'[r] : i <= k
            BY <3>1, <5>1, <5>2, <5>4
          <6>2. QED
            BY <3>1, <6>1
        <5>5. QED
          BY <5>3, <5>4
      <4>3. QED
        BY <4>1, <4>2
    <3>3. \A m \in staged'[r] : m.req = r
      BY <3>1 DEF Working, WorkingAt
    <3>4. QED
      BY <2>1, <2>2, <2>4, <3>2, <3>3 DEF Working, WorkingAt, Items, Item
  <2>5. QED
    BY <2>3, <2>4
<1>8. ASSUME NEW r \in Requests, ScanInsert(r)
      PROVE  WorkingAt(r)'
  BY <1>8 DEF ScanInsert, Working, WorkingAt, Items, Item
<1>9. ASSUME NEW r \in Requests, NextItem(r)
      PROVE  WorkingAt(r)'
  <2>1. /\ pc[r] = "next" /\ pos[r] < Len(Items(r)) /\ pos' = [pos EXCEPT ![r] = @ + 1]
        /\ pc' = [pc EXCEPT ![r] = Start(Items(r)[pos[r] + 1])]
        /\ UNCHANGED <<job, held, purged, keys, staged>>
    BY <1>9 DEF NextItem, Items
  <2>2. pos'[r] = pos[r] + 1 /\ pos'[r] \in 1..Len(Items(r))
    BY <2>1, JobTypes DEF Working, WorkingAt
  <2>3. Item(r)' = Items(r)[pos[r] + 1] /\ Items(r)' = Items(r)
    BY <2>1, <2>2 DEF Item, Items
  <2>4. pc'[r] \in {"purge", "head"} /\ (pc'[r] = "purge" => Item(r)' \in Nonced)
    BY <2>1, <2>3 DEF Start
  <2>5. QED
    BY <2>1, <2>2, <2>3, <2>4 DEF Working, WorkingAt
<1>10. ASSUME NEW r \in Requests, Finish(r)
       PROVE  WorkingAt(r)'
  BY <1>10 DEF Finish, Release, Working, WorkingAt, Items, Item
<1>11. ASSUME NEW q \in Requests
       PROVE  WorkingAt(q)'
  <2>1. ASSUME NEW r \in Requests, NEW j \in Jobs, Ingest(r, j)
        PROVE  WorkingAt(q)'
    BY <1>1, <1>2, <2>1 DEF Ingest
  <2>2. ASSUME NEW r \in Requests, Purge(r)
        PROVE  WorkingAt(q)'
    BY <1>1, <1>3, <2>2 DEF Purge
  <2>3. ASSUME NEW r \in Requests, Reserve(r)
        PROVE  WorkingAt(q)'
    BY <1>1, <1>4, <2>3 DEF Reserve
  <2>4. ASSUME NEW r \in Requests, NEW answer \in Ended, EndWith(r, answer), pc[r] # "new"
        PROVE  WorkingAt(q)'
    BY <1>1, <1>5, <2>4 DEF EndWith, Release
  <2>5. ASSUME NEW r \in Requests, Replayed(r) \/ Fail(r) \/ Conflict(r) \/ DeadlockVictim(r)
        PROVE  WorkingAt(q)'
    <3>1. PICK answer \in Ended : EndWith(r, answer)
      BY <2>5 DEF Replayed, Fail, Conflict, DeadlockVictim, Ended
    <3>2. pc[r] # "new"
      BY <2>5, Waiting DEF Replayed, Fail, Conflict, DeadlockVictim
    <3>3. QED
      BY <2>4, <3>1, <3>2
  <2>6. ASSUME NEW r \in Requests, ReadHead(r) \/ ScanInsert(r) \/ NextItem(r)
        PROVE  WorkingAt(q)'
    BY <1>1, <1>6, <1>8, <1>9, <2>6 DEF ReadHead, ScanInsert, NextItem
  <2>7. ASSUME NEW r \in Requests, Insert(r)
        PROVE  WorkingAt(q)'
    BY <1>1, <1>7, <2>7 DEF Insert
  <2>8. ASSUME NEW r \in Requests, Finish(r)
        PROVE  WorkingAt(q)'
    BY <1>1, <1>10, <2>8 DEF Finish, Release
  <2>9. CASE UNCHANGED <<pc, job, pos, held, purged, keys, staged>>
    BY <1>1, <2>9
  <2>10. QED
    BY <2>1, <2>2, <2>3, <2>5, <2>6, <2>7, <2>8, <2>9 DEF Next, OtherAppend, Expire, vars
<1>12. QED
  BY <1>11 DEF Working

LEMMA Types == Spec => [](TypeOK /\ Working)
<1>1. TypeOK /\ Working /\ [Next]_vars => TypeOK' /\ Working'
  BY TypeStep, WorkingStep
<1>2. QED
  BY <1>1, InitWorking, PTL DEF Spec

\* Requests, nonces, transactions and the log keep their types.
THEOREM TypeCorrect == Spec => []TypeOK
  BY Types, PTL

-----------------------------------------------------------------------------
(***************************************************************************)
(* Nonces                                                                  *)
(***************************************************************************)
\* The rows of one transaction: it has deleted only what is past its TTL, and
\* inserted only what is not there, or what it has deleted.
LocksAt(r) ==
    /\ \A q \in Requests \ {r} : (held[r] \union purged[r]) \cap (held[q] \union purged[q]) = {}
    /\ \A e \in purged[r] : nonce[e] = "old"
    /\ \A e \in held[r] : nonce[e] = "none" \/ e \in purged[r]

Locks == \A r \in Requests : LocksAt(r)

Flying(r) == pc[r] \in {"head", "insert"} /\ Item(r) \in Nonced

\* Request r has recorded event e, or goes on to do it, under reservation k.
Claimed(r, e, k) ==
    \/ \E m \in log \union staged[r] : m.req = r /\ m.event = e /\ m.epoch = k
    \/ Flying(r) /\ Item(r) = e /\ mark[r] = k

\* A claim on the nonce's current life has its row: committed, or inserted by the
\* transaction that makes the claim.
Backed ==
    /\ \A m \in log : m.event \in Nonced =>
          m.epoch <= epoch[m.event] /\ (m.epoch = epoch[m.event] => nonce[m.event] = "fresh")
    /\ \A r \in Requests : \A m \in staged[r] : m.event \in Nonced =>
          m.epoch <= epoch[m.event] /\ (m.epoch = epoch[m.event] => m.event \in held[r])
    /\ \A r \in Requests : Flying(r) =>
          /\ mark[r] <= epoch[Item(r)]
          /\ mark[r] = epoch[Item(r)] =>
                IF job[r].batch THEN Item(r) \in held[r] ELSE nonce[Item(r)] = "fresh"

OneClaim ==
    \A q, r \in Requests, e \in Nonced, k \in Nat : Claimed(q, e, k) /\ Claimed(r, e, k) => q = r

\* The inductive invariant of nonces.
NonceInv == Locks /\ Backed /\ OneClaim

\* The rows of other transactions are not those a step of r reserves or gives up.
LEMMA LocksStep ==
    ASSUME TypeOK, Working, Locks, [Next]_vars
    PROVE  Locks'
<1> USE DEF Goto, txn
<1>e. \A q \in Requests : held[q] \subseteq Events /\ purged[q] \subseteq Events
  BY EventsAssumption DEF TypeOK
<1>1. ASSUME NEW r \in Requests, Purge(r)
      PROVE  Locks'
  <2>1. \A e \in Old : \A q \in Requests \ {r} : e \notin held[q] \union purged[q]
    BY <1>1 DEF Purge, PurgeWaits, NonceLocked
  <2>2. CASE job[r].batch
    <3>1. /\ held' = held /\ nonce' = nonce
          /\ purged'[r] = purged[r] \union Old
          /\ \A q \in Requests \ {r} : purged'[q] = purged[q]
      BY <1>1, <2>2 DEF Purge, TypeOK
    <3>2. \A e \in Old : nonce[e] = "old"
      BY DEF Old
    <3>3. QED
      BY <2>1, <3>1, <3>2 DEF Locks, LocksAt
  <2>3. CASE ~ job[r].batch
    <3>1. /\ held' = held /\ purged' = purged
          /\ nonce' = [e \in Events |-> IF e \in Old THEN "none" ELSE nonce[e]]
      BY <1>1, <2>3 DEF Purge
    <3>2. held[r] = {} /\ purged[r] = {}
      BY <2>3 DEF Working, WorkingAt
    <3>3. \A q \in Requests : \A e \in held[q] \union purged[q] : nonce'[e] = nonce[e]
      BY <1>e, <2>1, <3>1, <3>2
    <3>4. QED
      BY <3>1, <3>3 DEF Locks, LocksAt
  <2>4. QED
    BY <2>2, <2>3
<1>2. ASSUME NEW r \in Requests, Reserve(r)
      PROVE  Locks'
  <2>1. /\ \A q \in Requests \ {r} : Item(r) \notin held[q] \union purged[q]
        /\ Item(r) \notin held[r]
        /\ nonce[Item(r)] = "none" \/ Item(r) \in purged[r]
    BY <1>2 DEF Reserve, ReserveWaits, NonceTaken, NonceLocked
  <2>2. CASE job[r].batch
    <3>1. /\ purged' = purged /\ nonce' = nonce
          /\ held'[r] = held[r] \union {Item(r)}
          /\ \A q \in Requests \ {r} : held'[q] = held[q]
      BY <1>2, <2>2 DEF Reserve, TypeOK
    <3>2. QED
      BY <2>1, <3>1 DEF Locks, LocksAt
  <2>3. CASE ~ job[r].batch
    <3>1. /\ held' = held /\ purged' = purged
          /\ nonce' = [nonce EXCEPT ![Item(r)] = "fresh"]
      BY <1>2, <2>3 DEF Reserve
    <3>2. held[r] = {} /\ purged[r] = {}
      BY <2>3 DEF Working, WorkingAt
    <3>3. \A q \in Requests : \A e \in held[q] \union purged[q] : nonce'[e] = nonce[e]
      BY <1>e, <2>1, <3>1, <3>2 DEF TypeOK
    <3>4. QED
      BY <3>1, <3>3 DEF Locks, LocksAt
  <2>4. QED
    BY <2>2, <2>3
<1>3. ASSUME NEW r \in Requests, Replayed(r) \/ Fail(r) \/ Conflict(r) \/ DeadlockVictim(r)
      PROVE  Locks'
  <2>1. /\ nonce' = nonce /\ held'[r] = {} /\ purged'[r] = {}
        /\ \A q \in Requests \ {r} : held'[q] = held[q] /\ purged'[q] = purged[q]
    BY <1>3 DEF Replayed, Fail, Conflict, DeadlockVictim, EndWith, Release, TypeOK
  <2>2. QED
    BY <2>1 DEF Locks, LocksAt
<1>4. ASSUME NEW r \in Requests, Finish(r)
      PROVE  Locks'
  <2>1. /\ held'[r] = {} /\ purged'[r] = {}
        /\ \A q \in Requests \ {r} : held'[q] = held[q] /\ purged'[q] = purged[q]
        /\ nonce' = [e \in Events |-> IF e \in held[r] THEN "fresh"
                                       ELSE IF e \in purged[r] THEN "none" ELSE nonce[e]]
    BY <1>4 DEF Finish, Release, TypeOK
  <2>2. \A q \in Requests \ {r} : \A e \in held[q] \union purged[q] :
          e \in Events /\ e \notin held[r] \union purged[r]
    BY <1>e DEF Locks, LocksAt
  <2>3. QED
    BY <2>1, <2>2 DEF Locks, LocksAt
<1>5. ASSUME NEW e \in Events, Expire(e)
      PROVE  Locks'
  BY <1>5 DEF Expire, Locks, LocksAt, TypeOK
<1>6. CASE UNCHANGED <<nonce, held, purged>>
  BY <1>6 DEF Locks, LocksAt
<1>7. QED
  BY <1>1, <1>2, <1>3, <1>4, <1>5, <1>6 DEF Next, Ingest, ReadHead, Insert, ScanInsert, NextItem,
     OtherAppend, vars

\* The claims there are, are backed by a step that reserves nothing.
LEMMA BackedStep ==
    ASSUME TypeOK, Working, Locks, Backed, [Next]_vars
    PROVE  Backed'
<1> USE DEF Goto, txn
<1> DEFINE Current(e, k) == k <= epoch[e] /\ (k = epoch[e] => nonce[e] = "fresh")
<1>e. Nonced \subseteq Events
  BY EventsAssumption
<1>1. ASSUME NEW r \in Requests, NEW j \in Jobs, Ingest(r, j)
      PROVE  Backed'
  <2>1. /\ UNCHANGED <<log, staged, held, epoch, nonce, mark>>
        /\ \A q \in Requests \ {r} : pc'[q] = pc[q] /\ job'[q] = job[q] /\ pos'[q] = pos[q]
        /\ pc'[r] = Start(j.items[1]) /\ job'[r] = j /\ pos'[r] = 1
    BY <1>1 DEF Ingest, TypeOK, Working, WorkingAt
  <2>2. ~ Flying(r)'
    BY <2>1 DEF Flying, Item, Start
  <2>3. \A q \in Requests \ {r} : Flying(q)' = Flying(q) /\ Item(q)' = Item(q)
    BY <2>1 DEF Flying, Item
  <2>4. QED
    BY <2>1, <2>2, <2>3 DEF Backed
<1>2. ASSUME NEW r \in Requests, Purge(r)
      PROVE  Backed'
  <2>1. \A e \in Events : nonce[e] = "fresh" => nonce'[e] = "fresh"
    BY <1>2 DEF Purge, Old
  <2>2. /\ UNCHANGED <<log, staged, held, epoch, mark, job, pos>>
        /\ pc[r] = "purge" /\ pc' = [pc EXCEPT ![r] = "reserve"]
    BY <1>2 DEF Purge
  <2>3. \A q \in Requests : Item(q)' = Item(q) /\ (Flying(q)' => Flying(q))
    BY <2>2 DEF Flying, Item, TypeOK
  <2>4. \A m \in log : m.event \in Nonced =>
          m.epoch <= epoch[m.event] /\ (m.epoch = epoch[m.event] => nonce'[m.event] = "fresh")
    BY <1>e, <2>1 DEF Backed
  <2>5. \A q \in Requests : Flying(q) =>
          /\ mark[q] <= epoch[Item(q)]
          /\ mark[q] = epoch[Item(q)] =>
                IF job[q].batch THEN Item(q) \in held[q] ELSE nonce'[Item(q)] = "fresh"
    BY <1>e, <2>1 DEF Backed, Flying
  <2>6. QED
    BY <2>2, <2>3, <2>4, <2>5 DEF Backed
<1>3. ASSUME NEW r \in Requests, Reserve(r)
      PROVE  Backed'
  <2>1. /\ UNCHANGED <<log, staged, epoch, job, pos>>
        /\ pc' = [pc EXCEPT ![r] = "head"] /\ mark' = [mark EXCEPT ![r] = epoch[Item(r)]]
        /\ IF job[r].batch THEN held' = [held EXCEPT ![r] = @ \union {Item(r)}] /\ nonce' = nonce
           ELSE nonce' = [nonce EXCEPT ![Item(r)] = "fresh"] /\ held' = held
    BY <1>3 DEF Reserve
  <2>2. Item(r) \in Nonced
    BY <1>3 DEF Reserve, Working, WorkingAt
  <2>3. \A e \in Events : nonce[e] = "fresh" => nonce'[e] = "fresh"
    BY <2>1 DEF TypeOK
  <2>4. \A q \in Requests : held[q] \subseteq held'[q] /\ Item(q)' = Item(q)
    BY <2>1 DEF TypeOK, Item
  <2>5. \A q \in Requests \ {r} : (Flying(q)' <=> Flying(q)) /\ mark'[q] = mark[q]
    BY <2>1 DEF Flying, Item, TypeOK
  <2>6. mark'[r] = epoch[Item(r)] /\ epoch[Item(r)] \in Nat
    BY <1>e, <2>1, <2>2, BoundsAssumption DEF TypeOK
  <2>7. IF job[r].batch THEN Item(r) \in held'[r] ELSE nonce'[Item(r)] = "fresh"
    BY <1>e, <2>1, <2>2 DEF TypeOK
  <2>8. \A m \in log : m.event \in Nonced =>
          m.epoch <= epoch[m.event] /\ (m.epoch = epoch[m.event] => nonce'[m.event] = "fresh")
    BY <1>e, <2>3 DEF Backed
  <2>9. \A q \in Requests \ {r} : Flying(q) =>
          /\ mark[q] <= epoch[Item(q)]
          /\ mark[q] = epoch[Item(q)] =>
                IF job[q].batch THEN Item(q) \in held'[q] ELSE nonce'[Item(q)] = "fresh"
    BY <1>e, <2>3, <2>4 DEF Backed, Flying
  <2>10. \A q \in Requests : \A m \in staged[q] : m.event \in Nonced =>
           m.epoch <= epoch[m.event] /\ (m.epoch = epoch[m.event] => m.event \in held'[q])
    BY <2>4 DEF Backed
  <2>11. QED
    BY <2>1, <2>4, <2>5, <2>6, <2>7, <2>8, <2>9, <2>10 DEF Backed
<1>4. ASSUME NEW r \in Requests, NEW answer \in Ended, EndWith(r, answer)
      PROVE  Backed'
  <2>1. /\ UNCHANGED <<log, epoch, nonce, mark, job, pos>>
        /\ pc'[r] \in Ended /\ staged'[r] = {}
        /\ \A q \in Requests \ {r} : pc'[q] = pc[q] /\ staged'[q] = staged[q] /\ held'[q] = held[q]
    BY <1>4 DEF EndWith, Release, TypeOK
  <2>2. \A q \in Requests : Item(q)' = Item(q)
    BY <2>1 DEF Item
  <2>3. ~ Flying(r)' /\ \A q \in Requests \ {r} : Flying(q)' = Flying(q)
    BY <2>1, <2>2 DEF Flying, Ended
  <2>4. QED
    BY <2>1, <2>2, <2>3 DEF Backed
<1>5. ASSUME NEW r \in Requests, Replayed(r) \/ Fail(r) \/ Conflict(r) \/ DeadlockVictim(r)
      PROVE  Backed'
  BY <1>4, <1>5 DEF Replayed, Fail, Conflict, DeadlockVictim, Ended
<1>6. ASSUME NEW r \in Requests, ReadHead(r) \/ ScanInsert(r)
      PROVE  Backed'
  <2>1. UNCHANGED <<log, staged, held, epoch, nonce, mark, job, pos>>
    BY <1>6 DEF ReadHead, ScanInsert
  <2>2. \A q \in Requests : Item(q)' = Item(q) /\ (Flying(q)' => Flying(q))
    BY <1>6, <2>1 DEF ReadHead, ScanInsert, Item, Flying, TypeOK
  <2>3. QED
    BY <2>1, <2>2 DEF Backed
<1>7. ASSUME NEW r \in Requests, Insert(r)
      PROVE  Backed'
  <2> DEFINE entry == [req |-> r, event |-> Item(r), epoch |-> mark[r]]
  <2>1. /\ UNCHANGED <<held, epoch, nonce, mark, job, pos>>
        /\ pc[r] = "insert" /\ pc' = [pc EXCEPT ![r] = AfterInsert(r)]
        /\ IF job[r].batch
           THEN staged' = [staged EXCEPT ![r] = @ \union {entry}] /\ log' = log
           ELSE staged' = staged /\ log' = log \union {entry}
    BY <1>7 DEF Insert
  <2>2. \A q \in Requests : Item(q)' = Item(q) /\ (Flying(q)' => Flying(q))
    BY <2>1 DEF Item, Flying, AfterInsert, TypeOK
  <2>3. entry.event \in Nonced =>
          /\ entry.epoch <= epoch[entry.event]
          /\ entry.epoch = epoch[entry.event] =>
                IF job[r].batch THEN entry.event \in held[r] ELSE nonce[entry.event] = "fresh"
    BY <2>1 DEF Backed, Flying
  <2> HIDE DEF entry
  <2>4. CASE job[r].batch
    <3>1. log' = log /\ staged'[r] = staged[r] \union {entry}
          /\ \A q \in Requests \ {r} : staged'[q] = staged[q]
      BY <2>1, <2>4 DEF TypeOK
    <3>2. QED
      BY <2>1, <2>2, <2>3, <2>4, <3>1 DEF Backed
  <2>5. CASE ~ job[r].batch
    BY <2>1, <2>2, <2>3, <2>5 DEF Backed
  <2>6. QED
    BY <2>4, <2>5
<1>8. ASSUME NEW r \in Requests, NextItem(r)
      PROVE  Backed'
  <2>1. /\ UNCHANGED <<log, staged, held, epoch, nonce, mark, job>>
        /\ pos' = [pos EXCEPT ![r] = @ + 1]
        /\ pc' = [pc EXCEPT ![r] = Start(job[r].items[pos[r] + 1])]
    BY <1>8 DEF NextItem
  <2>2. ~ Flying(r)'
    BY <2>1 DEF Flying, Item, Start, TypeOK
  <2>3. \A q \in Requests \ {r} : Item(q)' = Item(q) /\ Flying(q)' = Flying(q)
    BY <2>1 DEF Flying, Item, TypeOK
  <2>4. QED
    BY <2>1, <2>2, <2>3 DEF Backed
<1>9. ASSUME NEW r \in Requests, Finish(r)
      PROVE  Backed'
  <2>1. /\ UNCHANGED <<epoch, mark, job, pos>> /\ log' = log \union staged[r]
        /\ pc'[r] = "ok" /\ staged'[r] = {}
        /\ \A q \in Requests \ {r} : pc'[q] = pc[q] /\ staged'[q] = staged[q] /\ held'[q] = held[q]
        /\ nonce' = [e \in Events |-> IF e \in held[r] THEN "fresh"
                                       ELSE IF e \in purged[r] THEN "none" ELSE nonce[e]]
    BY <1>9 DEF Finish, Release, TypeOK
  <2>2. \A e \in Events : nonce[e] = "fresh" => nonce'[e] = "fresh"
    BY <2>1 DEF Locks, LocksAt, TypeOK
  <2>3. \A e \in held[r] : nonce'[e] = "fresh"
    BY <1>e, <2>1 DEF TypeOK
  <2>4. \A m \in log' : m.event \in Nonced =>
          m.epoch <= epoch[m.event] /\ (m.epoch = epoch[m.event] => nonce'[m.event] = "fresh")
    BY <1>e, <2>1, <2>2, <2>3 DEF Backed
  <2>5. \A q \in Requests : Item(q)' = Item(q)
    BY <2>1 DEF Item
  <2>6. ~ Flying(r)' /\ \A q \in Requests \ {r} : Flying(q)' = Flying(q)
    BY <2>1, <2>5 DEF Flying
  <2>7. \A q \in Requests \ {r} : Flying(q) =>
          /\ mark[q] <= epoch[Item(q)]
          /\ mark[q] = epoch[Item(q)] =>
                IF job[q].batch THEN Item(q) \in held[q] ELSE nonce'[Item(q)] = "fresh"
    BY <1>e, <2>2 DEF Backed, Flying
  <2>8. QED
    BY <2>1, <2>4, <2>5, <2>6, <2>7 DEF Backed
<1>10. ASSUME NEW e \in Events, Expire(e)
       PROVE  Backed'
  <2>1. /\ UNCHANGED <<log, staged, held, mark, job, pos, pc>>
        /\ nonce[e] = "fresh" /\ nonce' = [nonce EXCEPT ![e] = "old"]
        /\ epoch' = [epoch EXCEPT ![e] = @ + 1]
    BY <1>10 DEF Expire, txn
  <2>2. \A d \in Events, k \in Int : k <= epoch[d] =>
          /\ k <= epoch'[d]
          /\ k = epoch'[d] => d # e /\ k = epoch[d] /\ nonce'[d] = nonce[d]
    BY <2>1, BoundsAssumption DEF TypeOK
  <2>3. \A q \in Requests : Item(q)' = Item(q) /\ Flying(q)' = Flying(q)
    BY <2>1 DEF Flying, Item
  <2>4. \A m \in log : m.epoch \in Int
    BY DEF TypeOK, Entry
  <2>5. \A q \in Requests : mark[q] \in Int /\ \A m \in staged[q] : m.epoch \in Int
    BY BoundsAssumption DEF TypeOK, Entry
  <2>6. \A m \in log : m.event \in Nonced =>
          m.epoch <= epoch'[m.event] /\ (m.epoch = epoch'[m.event] => nonce'[m.event] = "fresh")
    BY <1>e, <2>2, <2>4 DEF Backed
  <2>7. \A q \in Requests : \A m \in staged[q] : m.event \in Nonced =>
          m.epoch <= epoch'[m.event] /\ (m.epoch = epoch'[m.event] => m.event \in held[q])
    BY <1>e, <2>2, <2>5 DEF Backed
  <2>8. \A q \in Requests : Flying(q) =>
          /\ mark[q] <= epoch'[Item(q)]
          /\ mark[q] = epoch'[Item(q)] =>
                IF job[q].batch THEN Item(q) \in held[q] ELSE nonce'[Item(q)] = "fresh"
    BY <1>e, <2>2, <2>5 DEF Backed, Flying
  <2>9. QED
    BY <2>1, <2>3, <2>6, <2>7, <2>8 DEF Backed
<1>11. CASE UNCHANGED <<log, staged, held, epoch, nonce, mark, job, pos, pc>>
  BY <1>11 DEF Backed, Flying, Item
<1>12. QED
  BY <1>1, <1>2, <1>3, <1>5, <1>6, <1>7, <1>8, <1>9, <1>10, <1>11 DEF Next, OtherAppend, vars

\* Only a reservation makes a claim, on the nonce's current life.
LEMMA ClaimsStep ==
    ASSUME TypeOK, Working, [Next]_vars,
           NEW q \in Requests, NEW e \in Nonced, NEW k \in Nat, Claimed(q, e, k)'
    PROVE  Claimed(q, e, k) \/ (Reserve(q) /\ Item(q) = e /\ k = epoch[e])
<1> USE DEF Goto, txn
<1>1. ASSUME (\E m \in log \union staged[q] : m.req = q /\ m.event = e /\ m.epoch = k)'
      PROVE  Claimed(q, e, k)
  <2>1. PICK m \in log' \union staged'[q] : m.req = q /\ m.event = e /\ m.epoch = k
    BY <1>1
  <2>2. CASE m \in log \union staged[q]
    BY <2>1, <2>2 DEF Claimed
  <2>3. ASSUME NEW r \in Requests, Insert(r), m \notin log \union staged[q]
        PROVE  Claimed(q, e, k)
    <3>1. m = [req |-> r, event |-> Item(r), epoch |-> mark[r]] /\ pc[r] = "insert"
      BY <2>1, <2>3 DEF Insert, TypeOK
    <3>2. QED
      BY <2>1, <3>1 DEF Claimed, Flying
  <2>4. ASSUME NEW r \in Requests, Finish(r), m \notin log \union staged[q]
        PROVE  Claimed(q, e, k)
    <3>1. m \in staged[r]
      BY <2>1, <2>4 DEF Finish, Release, TypeOK
    <3>2. r = q
      BY <2>1, <3>1 DEF Working, WorkingAt
    <3>3. QED
      BY <2>4, <3>1, <3>2
  <2>5. ASSUME NEW r \in Requests, Replayed(r) \/ Fail(r) \/ Conflict(r) \/ DeadlockVictim(r)
        PROVE  m \in log \union staged[q]
    BY <2>1, <2>5 DEF Replayed, Fail, Conflict, DeadlockVictim, EndWith, Release, TypeOK
  <2>6. CASE UNCHANGED <<log, staged>>
    BY <2>1, <2>2, <2>6
  <2>7. QED
    BY <2>2, <2>3, <2>4, <2>5, <2>6 DEF Next, Ingest, Purge, Reserve, ReadHead, ScanInsert, NextItem,
       OtherAppend, Expire, vars
<1>2. ASSUME (Flying(q) /\ Item(q) = e /\ mark[q] = k)'
      PROVE  Claimed(q, e, k) \/ (Reserve(q) /\ Item(q) = e /\ k = epoch[e])
  <2>1. pc'[q] \in {"head", "insert"} /\ Item(q)' \in Nonced /\ Item(q)' = e /\ mark'[q] = k
    BY <1>2 DEF Flying
  <2>2. CASE pc[q] \in {"head", "insert"} /\ UNCHANGED <<Item(q), mark[q]>>
    BY <2>1, <2>2 DEF Claimed, Flying
  <2>3. ASSUME NEW r \in Requests, NEW j \in Jobs, Ingest(r, j), r = q
        PROVE  FALSE
    <3>1. pc'[q] = Start(j.items[1]) /\ job'[q] = j /\ pos'[q] = 1
      BY <2>3 DEF Ingest, TypeOK, Working, WorkingAt
    <3>2. QED
      BY <2>1, <3>1 DEF Item, Start
  <2>4. ASSUME NEW r \in Requests, NextItem(r), r = q
        PROVE  FALSE
    <3>1. pc'[q] = Start(job[q].items[pos[q] + 1]) /\ job' = job /\ pos'[q] = pos[q] + 1
      BY <2>4 DEF NextItem, TypeOK
    <3>2. QED
      BY <2>1, <3>1 DEF Item, Start
  <2>5. ASSUME Reserve(q)
        PROVE  Item(q) = e /\ k = epoch[e]
    BY <2>1, <2>5 DEF Reserve, Item, TypeOK
  <2>6. ASSUME NEW r \in Requests, r = q,
               Purge(r) \/ Replayed(r) \/ Fail(r) \/ Conflict(r) \/ DeadlockVictim(r) \/ Insert(r)
                 \/ ScanInsert(r) \/ Finish(r)
        PROVE  FALSE
    BY <2>1, <2>6 DEF Purge, Replayed, Fail, Conflict, DeadlockVictim, EndWith, Insert, AfterInsert,
       ScanInsert, Finish, TypeOK
  <2>7. ASSUME ReadHead(q)
        PROVE  Claimed(q, e, k)
    <3>1. pc[q] = "head" /\ Item(q) \in Nonced /\ Item(q) = e /\ mark[q] = k
      BY <2>1, <2>7 DEF ReadHead, Item, TypeOK
    <3>2. QED
      BY <3>1 DEF Claimed, Flying
  <2>8. ASSUME pc'[q] = pc[q], job'[q] = job[q], pos'[q] = pos[q], mark'[q] = mark[q]
        PROVE  Claimed(q, e, k)
    BY <2>1, <2>8 DEF Item, Claimed, Flying
  <2>9. ASSUME NEW r \in Requests, NEW j \in Jobs, Ingest(r, j), r # q
        PROVE  Claimed(q, e, k)
    BY <2>8, <2>9 DEF Ingest
  <2>10. ASSUME NEW r \in Requests, r # q,
                Purge(r) \/ Reserve(r) \/ Insert(r) \/ ReadHead(r) \/ ScanInsert(r) \/ NextItem(r)
                  \/ Finish(r)
         PROVE  Claimed(q, e, k)
    <3>1. pc'[q] = pc[q] /\ job'[q] = job[q] /\ pos'[q] = pos[q] /\ mark'[q] = mark[q]
      BY <2>10 DEF Purge, Reserve, Insert, ReadHead, ScanInsert, NextItem, Finish, TypeOK
    <3>2. QED
      BY <2>8, <3>1
  <2>11. ASSUME NEW r \in Requests, r # q, Replayed(r) \/ Fail(r) \/ Conflict(r) \/ DeadlockVictim(r)
         PROVE  Claimed(q, e, k)
    <3>1. pc'[q] = pc[q] /\ job'[q] = job[q] /\ pos'[q] = pos[q] /\ mark'[q] = mark[q]
      BY <2>11 DEF Replayed, Fail, Conflict, DeadlockVictim, EndWith, TypeOK
    <3>2. QED
      BY <2>8, <3>1
  <2>12. CASE UNCHANGED <<pc, job, pos, mark>>
    BY <2>8, <2>12
  <2>13. QED
    BY <2>3, <2>4, <2>5, <2>6, <2>7, <2>9, <2>10, <2>11, <2>12 DEF Next, OtherAppend, Expire, vars
<1>3. QED
  BY <1>1, <1>2 DEF Claimed

\* Who reserves a nonce finds no claim of another request on its current life.
LEMMA ReserveAlone ==
    ASSUME TypeOK, Working, Locks, Backed,
           NEW q \in Requests, NEW r \in Requests, q # r, Reserve(r), Item(r) \in Nonced
    PROVE  ~ Claimed(q, Item(r), epoch[Item(r)])
<1>1. Item(r) \notin held[q] \union purged[q]
  BY DEF Reserve, ReserveWaits, NonceLocked
<1>2. nonce[Item(r)] # "fresh"
  <2>1. Item(r) \in purged[r] \/ nonce[Item(r)] = "none"
    BY DEF Reserve, NonceTaken
  <2>2. QED
    BY <2>1 DEF Locks, LocksAt
<1>3. QED
  BY <1>1, <1>2 DEF Claimed, Backed

LEMMA OneClaimStep ==
    ASSUME TypeOK, Working, NonceInv, [Next]_vars
    PROVE  OneClaim'
<1> SUFFICES ASSUME NEW q \in Requests, NEW r \in Requests, NEW e \in Nonced, NEW k \in Nat,
                    Claimed(q, e, k)', Claimed(r, e, k)', q # r
             PROVE  FALSE
  BY DEF OneClaim
<1>1. Claimed(q, e, k) \/ (Reserve(q) /\ Item(q) = e /\ k = epoch[e])
  BY ClaimsStep
<1>2. Claimed(r, e, k) \/ (Reserve(r) /\ Item(r) = e /\ k = epoch[e])
  BY ClaimsStep
<1>3. Reserve(q) => ~ Reserve(r)
  BY DEF Reserve, Goto, TypeOK
<1>4. QED
  BY <1>1, <1>2, <1>3, ReserveAlone DEF NonceInv, OneClaim

\* One reservation of a nonce lets one request record its event.
THEOREM NoncesUsedOnce == Spec => []OncePerWindow
<1>1. Init => NonceInv
  BY DEF Init, NonceInv, Locks, LocksAt, Backed, OneClaim, Claimed, Flying
<1>2. TypeOK /\ Working /\ NonceInv /\ [Next]_vars => NonceInv'
  BY LocksStep, BackedStep, OneClaimStep DEF NonceInv
<1>3. TypeOK /\ NonceInv => OncePerWindow
  <2> SUFFICES ASSUME TypeOK, NonceInv, NEW m \in log, NEW n \in log,
                      m.event = n.event, m.event \in Nonced, m.epoch = n.epoch
               PROVE  m.req = n.req
    BY DEF OncePerWindow
  <2>1. m \in Entry /\ n \in Entry
    BY DEF TypeOK
  <2>2. {m.req, n.req} \subseteq Requests /\ m.epoch \in Nat
    BY <2>1 DEF Entry
  <2>3. Claimed(m.req, m.event, m.epoch) /\ Claimed(n.req, m.event, m.epoch)
    BY DEF Claimed
  <2>4. QED
    BY <2>2, <2>3 DEF NonceInv, OneClaim
<1>4. QED
  BY <1>1, <1>2, <1>3, Types, PTL DEF Spec

-----------------------------------------------------------------------------
(***************************************************************************)
(* Batches                                                                 *)
(***************************************************************************)
\* How many of its items a batch is through with the append of.
Through(r) == IF pc[r] \in {"scanhead", "scaninsert", "next"} THEN pos[r] ELSE pos[r] - 1

Has(entries, r, i) == \E m \in entries : m.event = Items(r)[i]

\* An unfinished batch keeps the events it is through with to itself.
BatchAt(r) ==
    /\ job[r].batch /\ pc[r] \in Active => \A i \in 1..Through(r) : Has(staged[r], r, i)
    /\ job[r].batch /\ pc[r] # "ok" => \A m \in log : m.req # r
    /\ job[r].batch /\ pc[r] = "ok" => \A i \in 1..Len(Items(r)) :
          Has({m \in log : m.req = r}, r, i)
    /\ pc[r] = "new" => \A m \in log : m.req # r

Batches == \A r \in Requests : BatchAt(r)

LEMMA BatchStep ==
    ASSUME TypeOK, Working, Batches, [Next]_vars
    PROVE  Batches'
<1> USE DEF Goto, txn
\* A request that another one leaves alone.
<1>1. ASSUME NEW q \in Requests, pc'[q] = pc[q], job'[q] = job[q], pos'[q] = pos[q],
             staged'[q] = staged[q], {m \in log' : m.req = q} = {m \in log : m.req = q}
      PROVE  BatchAt(q)'
  <2>1. \A m \in log' : m.req = q => m \in log
    BY <1>1
  <2>2. BatchAt(q)
    BY DEF Batches
  <2>3. QED
    BY <1>1, <2>1, <2>2 DEF BatchAt, Has, Through, Items
<1>2. ASSUME NEW r \in Requests, NEW j \in Jobs, Ingest(r, j)
      PROVE  BatchAt(r)'
  <2>1. /\ pc[r] = "new" /\ pc'[r] \in {"purge", "head"} /\ pos'[r] = 1 /\ log' = log
    BY <1>2 DEF Ingest, Start, TypeOK, Working, WorkingAt
  <2>2. Through(r)' = 0
    BY <2>1 DEF Through
  <2>3. QED
    BY <2>1, <2>2 DEF BatchAt, Batches
\* The steps of a batch between two of its appends.
<1>3. ASSUME NEW r \in Requests, pc[r] \in Active, pc'[r] \in Active, Through(r)' = Through(r),
             UNCHANGED <<job, log>>, staged'[r] = staged[r]
      PROVE  BatchAt(r)'
  BY <1>3 DEF BatchAt, Batches, Has, Items, Active
<1>4. ASSUME NEW r \in Requests, Purge(r) \/ Reserve(r) \/ ReadHead(r)
      PROVE  BatchAt(r)'
  <2>1. Through(r)' = Through(r) /\ pc[r] \in Active /\ pc'[r] \in Active
    BY <1>4 DEF Purge, Reserve, ReadHead, Through, TypeOK, Active
  <2>2. QED
    BY <1>3, <1>4, <2>1 DEF Purge, Reserve, ReadHead
<1>5. ASSUME NEW r \in Requests, NextItem(r)
      PROVE  BatchAt(r)'
  <2>1. Through(r)' = Through(r) /\ pc[r] \in Active /\ pc'[r] \in Active
    BY <1>5 DEF NextItem, Start, Through, TypeOK, Active
  <2>2. QED
    BY <1>3, <1>5, <2>1 DEF NextItem
<1>6. ASSUME NEW r \in Requests, ScanInsert(r)
      PROVE  BatchAt(r)'
  <2>1. Through(r)' = Through(r) /\ pc[r] \in Active /\ pc'[r] \in Active
    BY <1>6 DEF ScanInsert, Through, TypeOK, Active
  <2>2. QED
    BY <1>3, <1>6, <2>1 DEF ScanInsert
<1>7. ASSUME NEW r \in Requests, NEW answer \in {"replay", "failed"}, EndWith(r, answer), pc[r] \in Active
      PROVE  BatchAt(r)'
  <2>1. pc'[r] = answer /\ job' = job /\ log' = log
    BY <1>7 DEF EndWith, TypeOK
  <2>2. QED
    BY <1>7, <2>1 DEF BatchAt, Batches, Active
<1>8. ASSUME NEW r \in Requests, Insert(r)
      PROVE  BatchAt(r)'
  <2> DEFINE entry == [req |-> r, event |-> Item(r), epoch |-> mark[r]]
  <2>1. /\ pc[r] = "insert" /\ pc'[r] \in {"scanhead", "next"} /\ job' = job /\ pos' = pos
        /\ job[r].batch => staged'[r] = staged[r] \union {entry} /\ log' = log
    BY <1>8 DEF Insert, AfterInsert, TypeOK
  <2>2. CASE job[r].batch
    <3>1. Through(r) = pos[r] - 1 /\ Through(r)' = pos[r] /\ pos[r] \in Nat
      BY <2>1 DEF Through, TypeOK
    <3>2. \A i \in 1..(pos[r] - 1) : Has(staged[r], r, i)
      BY <2>1, <2>2, <3>1 DEF BatchAt, Batches, Active
    <3>3. \A i \in 1..pos[r] : Has(staged'[r], r, i)
      <4>1. entry.event = Items(r)[pos[r]]
        BY DEF Item, Items
      <4>2. Has(staged'[r], r, pos[r])
        BY <2>1, <2>2, <4>1 DEF Has
      <4>3. \A i \in 1..(pos[r] - 1) : Has(staged'[r], r, i)
        BY <2>1, <2>2, <3>2 DEF Has
      <4>4. \A i \in 1..pos[r] : i = pos[r] \/ i \in 1..(pos[r] - 1)
        BY <3>1
      <4>5. QED
        BY <4>2, <4>3, <4>4
    <3>4. \A i \in 1..Through(r)' : Has(staged[r], r, i)'
      BY <2>1, <3>1, <3>3 DEF Has, Items
    <3>5. QED
      BY <2>1, <2>2, <3>4 DEF BatchAt, Batches
  <2>3. CASE ~ job[r].batch
    BY <2>1, <2>3 DEF BatchAt
  <2>4. QED
    BY <2>2, <2>3
<1>9. ASSUME NEW r \in Requests, Finish(r)
      PROVE  BatchAt(r)'
  <2>1. /\ pc[r] = "next" /\ pos[r] = Len(Items(r)) /\ pc'[r] = "ok" /\ job' = job
        /\ log' = log \union staged[r]
    BY <1>9 DEF Finish, Items, TypeOK
  <2>2. CASE job[r].batch
    <3>1. \A i \in 1..Len(Items(r)) : Has(staged[r], r, i)
      BY <2>1, <2>2 DEF BatchAt, Batches, Through, Active
    <3>2. staged[r] \subseteq {m \in log' : m.req = r}
      BY <2>1 DEF Working, WorkingAt
    <3>3. \A i \in 1..Len(Items(r)) : Has({m \in log' : m.req = r}, r, i)
      BY <3>1, <3>2 DEF Has
    <3>4. QED
      BY <2>1, <2>2, <3>3 DEF BatchAt, Has, Items, Active
  <2>3. CASE ~ job[r].batch
    BY <2>1, <2>3 DEF BatchAt
  <2>4. QED
    BY <2>2, <2>3
\* What a step of r leaves of the others.
<1>10. ASSUME NEW q \in Requests
       PROVE  BatchAt(q)'
  <2>1. ASSUME NEW r \in Requests, r # q,
               \/ \E j \in Jobs : Ingest(r, j)
               \/ Purge(r) \/ Reserve(r) \/ ReadHead(r) \/ NextItem(r) \/ ScanInsert(r)
        PROVE  BatchAt(q)'
    <3>1. /\ pc'[q] = pc[q] /\ job'[q] = job[q] /\ pos'[q] = pos[q] /\ staged' = staged /\ log' = log
      BY <2>1 DEF Ingest, Purge, Reserve, ReadHead, NextItem, ScanInsert, TypeOK
    <3>2. QED
      BY <1>1, <3>1
  <2>2. ASSUME NEW r \in Requests, r # q, Insert(r)
        PROVE  BatchAt(q)'
    <3>1. {m \in log' : m.req = q} = {m \in log : m.req = q}
      BY <2>2 DEF Insert
    <3>2. pc'[q] = pc[q] /\ job'[q] = job[q] /\ pos'[q] = pos[q] /\ staged'[q] = staged[q]
      BY <2>2 DEF Insert, TypeOK
    <3>3. QED
      BY <1>1, <3>1, <3>2
  <2>3. ASSUME NEW r \in Requests, r # q, Finish(r)
        PROVE  BatchAt(q)'
    <3>1. \A m \in staged[r] : m.req # q
      BY <2>3 DEF Working, WorkingAt
    <3>2. {m \in log' : m.req = q} = {m \in log : m.req = q}
      BY <2>3, <3>1 DEF Finish
    <3>3. QED
      BY <1>1, <2>3, <3>2 DEF Finish, Release
  <2>4. ASSUME NEW r \in Requests, Replayed(r) \/ Fail(r) \/ Conflict(r) \/ DeadlockVictim(r)
        PROVE  BatchAt(q)'
    <3>1. PICK answer \in {"replay", "failed"} : EndWith(r, answer)
      BY <2>4 DEF Replayed, Fail, Conflict, DeadlockVictim
    <3>2. pc[r] \in Active
      BY <2>4, Waiting DEF Replayed, Fail, Conflict, DeadlockVictim, Active
    <3>3. CASE q = r
      BY <1>7, <3>1, <3>2, <3>3
    <3>4. CASE q # r
      BY <1>1, <3>1, <3>4 DEF EndWith, Release
    <3>5. QED
      BY <3>3, <3>4
  <2>5. CASE UNCHANGED <<pc, job, pos, staged, log>>
    BY <1>1, <2>5
  <2>6. QED
    BY <1>2, <1>4, <1>5, <1>6, <1>8, <1>9, <2>1, <2>2, <2>3, <2>4, <2>5
    DEF Next, OtherAppend, Expire, vars
<1>11. QED
  BY <1>10 DEF Batches

\* A batch is recorded as a whole, when it is answered, or not at all.
THEOREM BatchesAtomic == Spec => []BatchAtomic
<1>1. Init => Batches
  BY DEF Init, Batches, BatchAt, Active
<1>2. TypeOK /\ Working /\ Batches /\ [Next]_vars => Batches'
  BY BatchStep
<1>3. Batches => BatchAtomic
  <2> SUFFICES ASSUME Batches, NEW r \in Requests, job[r].batch
               PROVE  \/ Recorded(r) = {}
                      \/ pc[r] = "ok" /\ \A i \in 1..Len(job[r].items) : job[r].items[i] \in Recorded(r)
    BY DEF BatchAtomic
  <2>1. CASE pc[r] # "ok"
    BY <2>1 DEF Batches, BatchAt, Recorded
  <2>2. CASE pc[r] = "ok"
    <3>1. \A i \in 1..Len(Items(r)) : \E m \in {n \in log : n.req = r} : m.event = Items(r)[i]
      BY <2>2 DEF Batches, BatchAt, Has
    <3>2. QED
      BY <2>2, <3>1 DEF Recorded, Items
  <2>3. QED
    BY <2>1, <2>2
<1>4. QED
  BY <1>1, <1>2, <1>3, Types, PTL DEF Spec
=============================================================================
