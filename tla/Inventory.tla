----------------------------- MODULE Inventory -----------------------------
(***************************************************************************)
(* InventoryService: stock, reservations, location and scans of the items  *)
(* of one tenant.                                                          *)
(*                                                                         *)
(* Every operation loads the row, checks what it loaded, computes a new    *)
(* row, saves it and then appends the event, with an await at each arrow.  *)
(* save() selects the row once more and updates the columns in which the   *)
(* entity differs from it.  Imports, bulk moves and scan batches handle    *)
(* their items one after the other, each as a request of its own, so they  *)
(* are that many requests here; the release of expired reservations loads  *)
(* all its items at the start and is one request (op "sweep"), and so are   *)
(* the detection of anomalies and the generation of alerts.                *)
(***************************************************************************)
EXTENDS Integers

CONSTANTS
    Requests,       \* the calls that are made, each once
    Items,          \* items, one for each SKU
    Locations,
    Nobody,         \* the expiry of a reservation without a timeout
    MaxQuantity,    \* bound on quantities
    Minimum,        \* metadata.minimumQuantity (5): stock of an item that counts as low
    Jobs            \* what is asked

ASSUME NobodyAssumption == Nobody \notin Requests

ASSUME MaxQuantityAssumption == MaxQuantity \in Nat

ASSUME MinimumAssumption == Minimum \in Nat

Statuses == {"available", "reserved", "in_transit", "damaged", "expired", "removed"}

Ops == {"add", "reserve", "release", "sweep", "move", "adjust", "status", "remove", "scan",
        "detect", "alert"}

\* n: a quantity; to: a location or a status, "-" where the request has none.
Job == [op : Ops, item : Items, n : 0..MaxQuantity, to : Locations \union Statuses \union {"-"},
        timed : BOOLEAN]

ASSUME JobsAssumption == Jobs \subseteq Job /\ Jobs # {} /\ Items # {}

VARIABLES
    exists,         \* items with a row in inventory_items
    row,            \* row[i]: its columns
    pc,             \* pc[r]: where request r is
    job,            \* job[r]: what it was asked
    todo,           \* todo[r]: the items a sweep or a report has still to look at
    item,           \* item[r]: the item it works on
    seen,           \* seen[r][i]: the row of i as r loaded it
    base,           \* base[r]: the row save() compares the entity with
    ledger,         \* ledger[i]: the stock that the events of i add up to
    elapsed,        \* reservations whose timeout has gone by
    stale,          \* items saved by a request that had loaded another row
    lost            \* items saved by a request that did not get its event in

history == <<stale, lost>>
vars == <<exists, row, pc, job, todo, item, seen, base, ledger, elapsed, history>>

\* metadata is one jsonb column.  A reservation's deadline is named by the
\* request that made it; wrong says that lastLocationMismatch is set.
Meta == [expires : Requests \union {Nobody}, wrong : BOOLEAN]

Row == [q : Nat, res : Nat, status : Statuses, loc : Locations, meta : Meta]

Active == {"insert", "loaded", "diffed", "saved", "again", "report"}
Phases == Active \union {"new", "ok", "failed"}

TypeOK ==
    /\ exists \subseteq Items
    /\ row \in [Items -> Row]
    /\ pc \in [Requests -> Phases]
    /\ job \in [Requests -> Jobs]
    /\ todo \in [Requests -> SUBSET Items]
    /\ item \in [Requests -> Items]
    /\ seen \in [Requests -> [Items -> Row]]
    /\ base \in [Requests -> Row]
    /\ ledger \in [Items -> [q : Int, res : Int]]
    /\ elapsed \subseteq Requests
    /\ stale \subseteq Items /\ lost \subseteq Items

NoMeta == [expires |-> Nobody, wrong |-> FALSE]

Added(n, l) == [q |-> n, res |-> 0, status |-> "available", loc |-> l, meta |-> NoMeta]

\* Some items have been added before, and nothing has been done with them since.
Init ==
    /\ exists \in SUBSET Items
    /\ \E l \in Locations :
          /\ row = [x \in Items |-> Added(MaxQuantity, l)]
          /\ seen = [r \in Requests |-> row]
          /\ base = [r \in Requests |-> Added(MaxQuantity, l)]
    /\ ledger = [x \in Items |-> [q |-> IF x \in exists THEN MaxQuantity ELSE 0, res |-> 0]]
    /\ job = [r \in Requests |-> CHOOSE j \in Jobs : TRUE]
    /\ item = [r \in Requests |-> CHOOSE i \in Items : TRUE]
    /\ pc = [r \in Requests |-> "new"]
    /\ todo = [r \in Requests |-> {}]
    /\ elapsed = {}
    /\ stale = {} /\ lost = {}

Goto(r, phase) == pc' = [pc EXCEPT ![r] = phase]

-----------------------------------------------------------------------------
(***************************************************************************)
(* The checks of each operation on the row e it has loaded, and the entity *)
(* it then hands to save().                                                *)
(***************************************************************************)
ReserveAllowed_Unbounded(j, e) ==  \* mutation: the quantity is not compared with the stock
    e.status # "removed" /\ e.res = 0

ReserveAllowed(j, e) == e.status # "removed" /\ e.res = 0 /\ j.n <= e.q

StatusAllowed(j, e) ==
    /\ e.status # "removed" /\ j.to \notin {"removed", "reserved"}
    /\ e.res = 0 /\ e.status # j.to

RemoveAllowed(e) == e.status \notin {"removed", "reserved"} /\ e.res = 0

Allowed(j, e) ==
    CASE j.op = "reserve" -> ReserveAllowed(j, e)
      [] j.op = "release" -> e.res > 0
      [] j.op = "move"    -> e.status # "removed" /\ e.loc # j.to
      [] j.op = "adjust"  -> e.status # "removed" /\ j.n >= e.res /\ j.n # e.q
      [] j.op = "status"  -> StatusAllowed(j, e)
      [] j.op = "remove"  -> RemoveAllowed(e)
      [] j.op = "scan"    -> TRUE

Mismatch(j, e) == j.op = "scan" /\ j.to # "-" /\ j.to # e.loc

Reserved(r, e) ==
    [e EXCEPT !.q = e.q - job[r].n, !.res = job[r].n, !.status = "reserved",
              !.meta = IF job[r].timed THEN [e.meta EXCEPT !.expires = r] ELSE e.meta]

Released_KeepsTimeout(e) ==  \* mutation: reservationExpiresAt stays in the metadata
    [e EXCEPT !.q = e.q + e.res, !.res = 0, !.status = "available"]

Released(e) ==
    [e EXCEPT !.q = e.q + e.res, !.res = 0, !.status = "available",
              !.meta = [e.meta EXCEPT !.expires = Nobody]]

Moved(j, e) == [e EXCEPT !.loc = j.to]

Adjusted(j, e) == [e EXCEPT !.q = j.n]

StatusChanged(j, e) == [e EXCEPT !.status = j.to]

Removed(e) == [e EXCEPT !.q = 0, !.res = 0, !.status = "removed"]

Scanned(j, e) == [e EXCEPT !.meta.wrong = Mismatch(j, e)]

Entity(r) ==
    LET j == job[r]
        e == seen[r][item[r]]
    IN CASE j.op = "reserve"              -> Reserved(r, e)
         [] j.op \in {"release", "sweep"} -> Released(e)
         [] j.op = "move"                 -> Moved(j, e)
         [] j.op = "adjust"               -> Adjusted(j, e)
         [] j.op = "status"               -> StatusChanged(j, e)
         [] j.op = "remove"               -> Removed(e)
         [] j.op = "scan"                 -> Scanned(j, e)

\* What the event of r adds to the stock of its item.
Delta(r) ==
    LET j == job[r]
        e == seen[r][item[r]]
    IN CASE j.op = "add"                 -> [q |-> j.n, res |-> 0]
         [] j.op = "reserve"             -> [q |-> - j.n, res |-> j.n]
         [] j.op \in {"release", "sweep"} -> [q |-> e.res, res |-> - e.res]
         [] j.op = "adjust"              -> [q |-> j.n - e.q, res |-> 0]
         [] j.op = "remove"              -> [q |-> - e.q, res |-> 0]
         [] OTHER                        -> [q |-> 0, res |-> 0]

-----------------------------------------------------------------------------
\* The body as the schemas let it through; a removal, a release and a status change
\* take no quantity, the other operations no status.
WellFormed(j) ==
    /\ j.op \in {"add", "adjust"} => j.n >= 0
    /\ j.op = "reserve" => j.n > 0
    /\ j.op = "move"    => j.to \in Locations
    /\ j.op = "status"  => j.to \in Statuses
    /\ j.op = "scan"    => j.to \in Locations \union {"-"}

\* A handler of the controllers parses the body of r and calls the service.
Received(r, j) ==
    /\ pc[r] = "new" /\ WellFormed(j)
    /\ job' = [job EXCEPT ![r] = j]

\* persistItem: the new row is built and handed to save().
Add(r, j) ==
    /\ j.op = "add" /\ Received(r, j)
    /\ item' = [item EXCEPT ![r] = j.item]
    /\ Goto(r, "insert")
    /\ UNCHANGED <<exists, row, todo, seen, base, ledger, elapsed, history>>

Insert_NoUnique(r) ==  \* mutation: (tenant_id, sku) is not unique, a second row hides the first
    /\ pc[r] = "insert"
    /\ exists' = exists \union {item[r]}
    /\ \E l \in Locations : row' = [row EXCEPT ![item[r]] = Added(job[r].n, l)]
    /\ Goto(r, "saved")
    /\ UNCHANGED <<job, todo, item, seen, base, ledger, elapsed, history>>

\* The unique index on (tenant_id, sku) lets one insert in.
Insert(r) ==
    /\ pc[r] = "insert"
    /\ item[r] \notin exists
    /\ exists' = exists \union {item[r]}
    /\ \E l \in Locations : row' = [row EXCEPT ![item[r]] = Added(job[r].n, l)]
    /\ Goto(r, "saved")
    /\ UNCHANGED <<job, todo, item, seen, base, ledger, elapsed, history>>

\* findTenantItem (persistScan: findOne by SKU or serial number) and the checks.
Load(r, j) ==
    /\ j.op \notin {"add", "sweep", "detect", "alert"} /\ Received(r, j)
    /\ j.item \in exists
    /\ item' = [item EXCEPT ![r] = j.item]
    /\ seen' = [seen EXCEPT ![r] = row]
    /\ Goto(r, IF Allowed(j, row[j.item]) THEN "loaded" ELSE "failed")
    /\ UNCHANGED <<exists, row, todo, base, ledger, elapsed, history>>

Due_AnyReserved(i) ==  \* mutation: the deadline is not compared with the clock
    i \in exists /\ row[i].status = "reserved" /\ row[i].res > 0

\* The reservations the sweep releases, on the rows its find() has returned.
Due(i) ==
    /\ i \in exists /\ row[i].status = "reserved" /\ row[i].res > 0
    /\ row[i].meta.expires \in elapsed

\* persistExpiredReservationRelease: one find() for all items, then a loop.
Sweep(r, j) ==
    /\ j.op = "sweep" /\ Received(r, j)
    /\ seen' = [seen EXCEPT ![r] = row]
    /\ LET due == {i \in Items : Due(i)}
       IN IF due = {} THEN /\ Goto(r, "ok")
                           /\ UNCHANGED <<todo, item>>
          ELSE \E i \in due : /\ item' = [item EXCEPT ![r] = i]
                              /\ todo' = [todo EXCEPT ![r] = due \ {i}]
                              /\ Goto(r, "loaded")
    /\ UNCHANGED <<exists, row, base, ledger, elapsed, history>>

\* save(entity): the select ...
Reload(r) ==
    /\ pc[r] = "loaded"
    /\ base' = [base EXCEPT ![r] = row[item[r]]]
    /\ Goto(r, "diffed")
    /\ UNCHANGED <<exists, row, job, todo, item, seen, ledger, elapsed, history>>

\* The columns of entity e that differ from b, over the current row c.
Merge(e, b, c) ==
    [q      |-> IF e.q # b.q THEN e.q ELSE c.q,
     res    |-> IF e.res # b.res THEN e.res ELSE c.res,
     status |-> IF e.status # b.status THEN e.status ELSE c.status,
     loc    |-> IF e.loc # b.loc THEN e.loc ELSE c.loc,
     meta   |-> IF e.meta # b.meta THEN e.meta ELSE c.meta]

\* ... and the update, after which the comparison is forgotten.
Write(r) ==
    /\ pc[r] = "diffed"
    /\ LET i == item[r]
       IN /\ row' = [row EXCEPT ![i] = Merge(Entity(r), base[r], row[i])]
          /\ stale' = IF {row[i], base[r]} = {seen[r][i]} THEN stale ELSE stale \union {i}
    /\ base' = [base EXCEPT ![r] = seen[r][item[r]]]
    /\ Goto(r, "saved")
    /\ UNCHANGED <<exists, job, todo, item, seen, ledger, elapsed, lost>>

\* appendInventoryEvent, INVENTORY_SCANNED with accepted = false for a mismatch.
AppendEvent(r) ==
    /\ pc[r] = "saved"
    /\ ledger' = [ledger EXCEPT ![item[r]] = [q |-> @.q + Delta(r).q, res |-> @.res + Delta(r).res]]
    /\ IF todo[r] # {}
       THEN \E i \in todo[r] : /\ item' = [item EXCEPT ![r] = i]
                               /\ todo' = [todo EXCEPT ![r] = @ \ {i}]
                               /\ Goto(r, "loaded")
       ELSE /\ Goto(r, IF Mismatch(job[r], seen[r][item[r]]) THEN "again" ELSE "ok")
            /\ UNCHANGED <<item, todo>>
    /\ UNCHANGED <<exists, row, job, seen, base, elapsed, history>>

\* INVENTORY_ANOMALY_DETECTED follows, and the scan is answered 409.
AppendAnomaly(r) ==
    /\ pc[r] = "again"
    /\ Goto(r, "failed")
    /\ UNCHANGED <<exists, row, job, todo, item, seen, base, ledger, elapsed, history>>

\* detectItemAnomalies and detectItemAlerts, as far as the row tells: the findings on
\* item i.  Those on its dates (expired, expiring_soon, missing_scan) may be there.
Findings(i) ==
    IF i \notin exists \/ row[i].status = "removed" THEN {}
    ELSE (IF row[i].q <= Minimum THEN {"low_stock"} ELSE {}) \union
         (IF row[i].status = "damaged" THEN {"damaged_not_removed"} ELSE {}) \union
         (IF row[i].meta.wrong THEN {"unexpected_location"} ELSE {})

\* buildAnomalies, buildAlerts: one find(), and what is found in its rows.
Report(r, j) ==
    /\ j.op \in {"detect", "alert"} /\ Received(r, j)
    /\ \E dated \in SUBSET {i \in exists : row[i].status # "removed"} :
          LET found == dated \union {i \in Items : Findings(i) # {}}
          IN /\ todo' = [todo EXCEPT ![r] = found]
             /\ Goto(r, IF found = {} THEN "ok" ELSE "report")
    /\ UNCHANGED <<exists, row, item, seen, base, ledger, elapsed, history>>

\* The events of one item's findings, after findTenantItem has loaded it again; they
\* say how the item is now, and why by what was found.
AppendFindings(r) ==
    /\ pc[r] = "report"
    /\ \E i \in todo[r] :
          /\ todo' = [todo EXCEPT ![r] = @ \ {i}]
          /\ Goto(r, IF todo[r] = {i} THEN "ok" ELSE "report")
    /\ UNCHANGED <<exists, row, job, item, seen, base, ledger, elapsed, history>>

\* The request throws: the SKU exists, a conflict in the chain, a lost
\* connection, a crash.  A row that is saved stays.
Fail(r) ==
    /\ pc[r] \in Active
    /\ Goto(r, "failed")
    /\ lost' = IF pc[r] = "saved" THEN lost \union {item[r]} ELSE lost
    /\ UNCHANGED <<exists, row, job, todo, item, seen, base, ledger, elapsed, stale>>

\* timeoutMinutes go by for the reservation r has made.
Elapse(r) ==
    /\ r \notin elapsed
    /\ job[r].op = "reserve" /\ job[r].timed /\ pc[r] \in {"diffed", "saved", "ok", "failed"}
    /\ elapsed' = elapsed \union {r}
    /\ UNCHANGED <<exists, row, pc, job, todo, item, seen, base, ledger, history>>

Next ==
    \E r \in Requests :
        \/ \E j \in Jobs : Add(r, j) \/ Load(r, j) \/ Sweep(r, j) \/ Report(r, j)
        \/ Insert(r)
        \/ Reload(r)
        \/ Write(r)
        \/ AppendEvent(r)
        \/ AppendAnomaly(r)
        \/ AppendFindings(r)
        \/ Fail(r)
        \/ Elapse(r)

Spec == Init /\ [][Next]_vars

-----------------------------------------------------------------------------
(***************************************************************************)
(* Properties                                                              *)
(***************************************************************************)
Settled(i) == \A r \in Requests : pc[r] = "saved" => item[r] # i

\* As long as no save has overwritten a change it had not seen and no event was
\* lost, the events of an item add up to the stock and the reservation in its row.
StockExplained ==
    \A i \in exists \ (stale \union lost) :
        Settled(i) => ledger[i] = [q |-> row[i].q, res |-> row[i].res]

\* The columns of a row fit together: an item is reserved exactly while it has a
\* reserved quantity, only a reservation has a deadline, nothing is left of a
\* removed item.
RowConsistent ==
    \A i \in exists \ stale :
        /\ row[i].status = "reserved" <=> row[i].res > 0
        /\ row[i].meta.expires # Nobody => row[i].res > 0
        /\ row[i].status = "removed" => row[i].q = 0 /\ row[i].res = 0

\* A reservation ends by a release, or by a sweep after its own timeout; without
\* stale saves nothing else takes it from its order.
ReservationEnds ==
    [][\A i \in exists :
          row[i].res > 0 /\ row'[i].res = 0 /\ i \notin stale' =>
              \E r \in Requests :
                  /\ pc[r] = "diffed" /\ pc'[r] = "saved" /\ item[r] = i
                  /\ \/ job[r].op = "release"
                     \/ job[r].op = "sweep" /\ row[i].meta.expires \in elapsed]_vars

=============================================================================
