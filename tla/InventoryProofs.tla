--------------------------- MODULE InventoryProofs ---------------------------
(***************************************************************************)
(* Proofs about Inventory, for any sets of requests, items, locations and  *)
(* jobs: its types, that the columns of a row fit together, that a         *)
(* reservation is ended only by a release or a sweep, and that the events  *)
(* of an item add up to its row, as long as no save overwrites a change it *)
(* has not seen and no event is lost.                                      *)
(***************************************************************************)
EXTENDS Inventory, TLAPS

RowOps == {"reserve", "release", "move", "adjust", "status", "remove", "scan"}

\* A reservation a sweep has found, in the row it has loaded.
Overdue(r, i) ==
    /\ i \in exists
    /\ seen[r][i].status = "reserved" /\ seen[r][i].res > 0
    /\ seen[r][i].meta.expires \in elapsed

\* The job of a request has passed the schemas.
Asked == \A r \in Requests : pc[r] # "new" => WellFormed(job[r])

\* A list of items belongs to a sweep under way, or to a report.
TodoSound ==
    \A r \in Requests :
        /\ pc[r] \in {"new", "insert"} => todo[r] = {}
        /\ pc[r] \in {"loaded", "diffed", "saved"} =>
              \A i \in todo[r] : job[r].op = "sweep" /\ Overdue(r, i)

\* What is going to be saved has passed the checks on the row that was loaded.
LoadSound ==
    \A r \in Requests : pc[r] \in {"loaded", "diffed"} =>
        /\ item[r] \in exists
        /\ \/ job[r].op = "sweep" /\ Overdue(r, item[r])
           \/ job[r].op \in RowOps /\ Allowed(job[r], seen[r][item[r]])

\* The inductive invariant.
RowInv == TypeOK /\ Asked /\ TodoSound /\ LoadSound /\ RowConsistent

\* The entity an operation hands to save() is a row.
LEMMA EntityType ==
    ASSUME TypeOK, Asked, LoadSound, NEW r \in Requests, pc[r] \in {"loaded", "diffed"}
    PROVE  Entity(r) \in Row
<1> DEFINE j == job[r]
           e == seen[r][item[r]]
<1>1. /\ e \in Row /\ j \in Job /\ WellFormed(j)
  BY JobsAssumption DEF TypeOK, Asked
<1>2. /\ e.q \in Nat /\ e.res \in Nat /\ e.status \in Statuses /\ e.loc \in Locations
      /\ e.meta.expires \in Requests \union {Nobody} /\ e.meta \in Meta
  BY <1>1 DEF Row, Meta
<1>3. j.n \in Nat
  BY <1>1, MaxQuantityAssumption DEF Job
<1>4. j.op = "sweep" \/ (j.op \in RowOps /\ Allowed(j, e))
  BY DEF LoadSound
<1>5. CASE j.op = "reserve"
  <2>1. j.n <= e.q
    BY <1>4, <1>5 DEF Allowed, ReserveAllowed
  <2>2. e.q - j.n \in Nat
    BY <1>2, <1>3, <2>1
  <2>3. [e.meta EXCEPT !.expires = r] \in Meta
    BY <1>2 DEF Meta
  <2>4. (IF j.timed THEN [e.meta EXCEPT !.expires = r] ELSE e.meta) \in Meta
    BY <1>2, <2>3
  <2>5. Reserved(r, e) \in Row
    BY <1>1, <1>3, <2>2, <2>4 DEF Reserved, Row, Statuses
  <2>6. QED
    BY <1>5, <2>5 DEF Entity
<1>6. CASE j.op \in {"release", "sweep"}
  <2>1. [e.meta EXCEPT !.expires = Nobody] \in Meta
    BY <1>2 DEF Meta
  <2>2. e.q + e.res \in Nat
    BY <1>2
  <2>3. Released(e) \in Row
    BY <1>1, <2>1, <2>2 DEF Released, Row, Statuses
  <2>4. QED
    BY <1>6, <2>3 DEF Entity
<1>7. CASE j.op = "move"
  BY <1>1, <1>2, <1>7 DEF Entity, Moved, WellFormed, Row
<1>8. CASE j.op = "adjust"
  BY <1>1, <1>3, <1>8 DEF Entity, Adjusted, Row
<1>9. CASE j.op = "status"
  BY <1>1, <1>2, <1>9 DEF Entity, StatusChanged, WellFormed, Row
<1>10. CASE j.op = "remove"
  BY <1>1, <1>10 DEF Entity, Removed, Row, Statuses
<1>11. CASE j.op = "scan"
  <2>1. [e.meta EXCEPT !.wrong = Mismatch(j, e)] \in Meta
    BY <1>2 DEF Meta, Mismatch
  <2>2. Scanned(j, e) \in Row
    BY <1>1, <2>1 DEF Scanned, Row
  <2>3. QED
    BY <1>11, <2>2 DEF Entity
<1>12. QED
  BY <1>4, <1>5, <1>6, <1>7, <1>8, <1>9, <1>10, <1>11 DEF RowOps

\* What one update leaves of an entity and the current row is a row.
LEMMA MergeType ==
    ASSUME NEW e \in Row, NEW b \in Row, NEW c \in Row
    PROVE  Merge(e, b, c) \in Row
  BY DEF Merge, Row

\* An update over the row it was compared with writes the entity.
LEMMA MergeFresh ==
    ASSUME NEW e \in Row, NEW c \in Row
    PROVE  Merge(e, c, c) = e
  BY DEF Merge, Row

LEMMA InitInv == Init => RowInv
<1> SUFFICES ASSUME Init PROVE RowInv
  OBVIOUS
<1>1. PICK l \in Locations :
        /\ row = [x \in Items |-> Added(MaxQuantity, l)]
        /\ seen = [r \in Requests |-> row]
        /\ base = [r \in Requests |-> Added(MaxQuantity, l)]
  BY DEF Init
<1>2. Added(MaxQuantity, l) \in Row
  BY MaxQuantityAssumption DEF Added, Row, NoMeta, Meta, Statuses
<1>3. (CHOOSE j \in Jobs : TRUE) \in Jobs /\ (CHOOSE i \in Items : TRUE) \in Items
  BY JobsAssumption
<1>4. TypeOK
  BY <1>1, <1>2, <1>3, MaxQuantityAssumption DEF Init, TypeOK, Phases, Active
<1>5. RowConsistent
  BY <1>1, <1>4 DEF TypeOK, RowConsistent, Added, NoMeta
<1>6. Asked /\ TodoSound /\ LoadSound
  BY DEF Init, Asked, TodoSound, LoadSound
<1>7. QED
  BY <1>4, <1>5, <1>6 DEF RowInv

\* Delta(r) is a pair of integers once the job has been asked.
LEMMA DeltaType ==
    ASSUME TypeOK, Asked, NEW r \in Requests, pc[r] = "saved"
    PROVE  Delta(r).q \in Int /\ Delta(r).res \in Int
<1>1. /\ seen[r][item[r]].q \in Int /\ seen[r][item[r]].res \in Int
      /\ job[r].n \in Int
  BY JobsAssumption, MaxQuantityAssumption DEF TypeOK, Row, Job
<1>2. QED
  BY <1>1 DEF Delta

LEMMA TypeStep ==
    ASSUME TypeOK, Asked, LoadSound, [Next]_vars
    PROVE  TypeOK'
<1> USE DEF Phases, Active, Goto, history
<1>1. ASSUME NEW r \in Requests, NEW j \in Jobs, Add(r, j)
      PROVE  TypeOK'
  BY <1>1, JobsAssumption DEF Add, Received, TypeOK, Job
<1>2. ASSUME NEW r \in Requests, NEW j \in Jobs, Load(r, j)
      PROVE  TypeOK'
  BY <1>2, JobsAssumption DEF Load, Received, TypeOK, Job
<1>3. ASSUME NEW r \in Requests, NEW j \in Jobs, Sweep(r, j)
      PROVE  TypeOK'
  <2>1. /\ item' \in [Requests -> Items] /\ todo' \in [Requests -> SUBSET Items]
        /\ pc' \in [Requests -> Phases]
    <3> DEFINE due == {i \in Items : Due(i)}
    <3>1. CASE due = {}
      BY <1>3, <3>1 DEF Sweep, TypeOK
    <3>2. CASE due # {}
      <4>1. PICK i \in due : /\ item' = [item EXCEPT ![r] = i]
                             /\ todo' = [todo EXCEPT ![r] = due \ {i}]
                             /\ Goto(r, "loaded")
        BY <1>3, <3>2 DEF Sweep
      <4>2. i \in Items /\ due \ {i} \in SUBSET Items
        OBVIOUS
      <4> HIDE DEF due
      <4>3. QED
        BY <4>1, <4>2 DEF TypeOK
    <3>3. QED
      BY <3>1, <3>2
  <2>2. job' \in [Requests -> Jobs] /\ seen' \in [Requests -> [Items -> Row]]
    BY <1>3 DEF Sweep, Received, TypeOK
  <2>3. QED
    BY <1>3, <2>1, <2>2 DEF Sweep, TypeOK
<1>4. ASSUME NEW r \in Requests, NEW j \in Jobs, Report(r, j)
      PROVE  TypeOK'
  <2>1. todo' \in [Requests -> SUBSET Items]
    BY <1>4 DEF Report, TypeOK
  <2>2. QED
    BY <1>4, <2>1 DEF Report, Received, TypeOK
<1>5. ASSUME NEW r \in Requests, Insert(r)
      PROVE  TypeOK'
  <2>1. item[r] \in Items /\ job[r].n \in Nat
    BY JobsAssumption, MaxQuantityAssumption DEF TypeOK, Job
  <2>2. \A l \in Locations : Added(job[r].n, l) \in Row
    BY <2>1 DEF Added, Row, NoMeta, Meta, Statuses
  <2>3. QED
    BY <1>5, <2>1, <2>2 DEF Insert, TypeOK
<1>6. ASSUME NEW r \in Requests, Reload(r)
      PROVE  TypeOK'
  BY <1>6 DEF Reload, TypeOK
<1>7. ASSUME NEW r \in Requests, Write(r)
      PROVE  TypeOK'
  <2>1. Entity(r) \in Row
    BY <1>7, EntityType DEF Write
  <2>2. item[r] \in Items /\ base[r] \in Row /\ row[item[r]] \in Row
    BY DEF TypeOK
  <2>3. Merge(Entity(r), base[r], row[item[r]]) \in Row
    BY <2>1, <2>2, MergeType
  <2>4. row' \in [Items -> Row] /\ base' \in [Requests -> Row] /\ stale' \subseteq Items
    <3>1. row' = [row EXCEPT ![item[r]] = Merge(Entity(r), base[r], row[item[r]])]
      BY <1>7 DEF Write
    <3>2. base' = [base EXCEPT ![r] = seen[r][item[r]]] /\ stale' \subseteq stale \union {item[r]}
      BY <1>7 DEF Write
    <3>3. seen[r][item[r]] \in Row /\ row \in [Items -> Row] /\ base \in [Requests -> Row]
          /\ stale \subseteq Items
      BY <2>2 DEF TypeOK
    <3> QED
      BY <2>2, <2>3, <3>1, <3>2, <3>3
  <2>5. pc' \in [Requests -> Phases]
    BY <1>7 DEF Write, Goto, Phases, TypeOK
  <2>6. QED
    BY <1>7, <2>4, <2>5 DEF Write, TypeOK
<1>8. ASSUME NEW r \in Requests, AppendEvent(r)
      PROVE  TypeOK'
  <2>1. item[r] \in Items /\ todo[r] \subseteq Items
    BY DEF TypeOK
  <2>2. ledger' \in [Items -> [q : Int, res : Int]]
    BY <1>8, <2>1, DeltaType DEF AppendEvent, TypeOK
  <2>3. /\ item' \in [Requests -> Items] /\ todo' \in [Requests -> SUBSET Items]
        /\ pc' \in [Requests -> Phases]
    <3>1. CASE todo[r] = {}
      BY <1>8, <3>1 DEF AppendEvent, TypeOK
    <3>2. CASE todo[r] # {}
      <4>1. PICK i \in todo[r] : /\ item' = [item EXCEPT ![r] = i]
                                 /\ todo' = [todo EXCEPT ![r] = @ \ {i}]
                                 /\ Goto(r, "loaded")
        BY <1>8, <3>2 DEF AppendEvent
      <4>2. i \in Items /\ todo[r] \ {i} \in SUBSET Items
        BY <2>1
      <4>3. QED
        BY <4>1, <4>2 DEF TypeOK
    <3>3. QED
      BY <3>1, <3>2
  <2>4. QED
    BY <1>8, <2>2, <2>3 DEF AppendEvent, TypeOK
<1>9. ASSUME NEW r \in Requests, AppendAnomaly(r) \/ Fail(r)
      PROVE  TypeOK'
  BY <1>9 DEF AppendAnomaly, Fail, TypeOK
<1>10. ASSUME NEW r \in Requests, AppendFindings(r)
       PROVE  TypeOK'
  BY <1>10 DEF AppendFindings, TypeOK
<1>11. ASSUME NEW r \in Requests, Elapse(r)
       PROVE  TypeOK'
  BY <1>11 DEF Elapse, TypeOK
<1>12. CASE UNCHANGED vars
  BY <1>12 DEF vars, TypeOK
<1>13. QED
  BY <1>1, <1>2, <1>3, <1>4, <1>5, <1>6, <1>7, <1>8, <1>9, <1>10, <1>11, <1>12 DEF Next

\* A save over the row it was computed from writes the entity as it is.
LEMMA WriteFresh ==
    ASSUME TypeOK, Asked, LoadSound, NEW r \in Requests, Write(r), item[r] \notin stale'
    PROVE  /\ row[item[r]] = seen[r][item[r]]
           /\ row' = [row EXCEPT ![item[r]] = Entity(r)]
<1>1. row[item[r]] = seen[r][item[r]] /\ base[r] = row[item[r]]
  BY DEF Write
<1>2. Entity(r) \in Row /\ row[item[r]] \in Row
  BY EntityType DEF Write, TypeOK
<1>3. Merge(Entity(r), base[r], row[item[r]]) = Entity(r)
  BY <1>1, <1>2, MergeFresh
<1>4. QED
  BY <1>1, <1>3 DEF Write

Fit(c) ==
    /\ c.status = "reserved" <=> c.res > 0
    /\ c.meta.expires # Nobody => c.res > 0
    /\ c.status = "removed" => c.q = 0 /\ c.res = 0

\* Every operation that is allowed on a row whose columns fit leaves one.
LEMMA EntityFits ==
    ASSUME TypeOK, Asked, LoadSound, NEW r \in Requests, pc[r] = "diffed",
           Fit(seen[r][item[r]])
    PROVE  Fit(Entity(r))
<1> DEFINE j == job[r]
           e == seen[r][item[r]]
<1>1. e \in Row /\ j \in Job /\ WellFormed(j) /\ Fit(e)
  BY JobsAssumption DEF TypeOK, Asked
<1>2. e.res \in Nat /\ e.meta \in Meta
  BY <1>1 DEF Row
<1>3. (j.op = "sweep" /\ e.res > 0) \/ (j.op \in RowOps /\ Allowed(j, e))
  BY DEF LoadSound, Overdue
<1>4. CASE j.op = "reserve"
  BY <1>1, <1>2, <1>4 DEF Entity, Reserved, WellFormed, Fit, Row
<1>5. CASE j.op \in {"release", "sweep"}
  <2>1. Entity(r) = Released(e)
    BY <1>5 DEF Entity
  <2>2. Released(e).res = 0 /\ Released(e).status = "available" /\ Released(e).meta.expires = Nobody
    BY <1>1, <1>2 DEF Released, Row, Meta
  <2>3. QED
    BY <2>1, <2>2 DEF Fit
<1>6. CASE j.op = "move"
  BY <1>1, <1>6 DEF Entity, Moved, Fit, Row
<1>7. CASE j.op = "adjust"
  BY <1>1, <1>3, <1>7 DEF Entity, Adjusted, Allowed, Fit, Row
<1>8. CASE j.op = "status"
  BY <1>1, <1>2, <1>3, <1>8 DEF Entity, StatusChanged, Allowed, StatusAllowed, Fit, Row
<1>9. CASE j.op = "remove"
  BY <1>1, <1>2, <1>3, <1>9 DEF Entity, Removed, Allowed, RemoveAllowed, Fit, Row
<1>10. CASE j.op = "scan"
  <2>1. /\ Entity(r).q = e.q /\ Entity(r).res = e.res /\ Entity(r).status = e.status
        /\ Entity(r).meta.expires = e.meta.expires
    BY <1>1, <1>2, <1>10 DEF Entity, Scanned, Row, Meta
  <2>2. QED
    BY <1>1, <2>1 DEF Fit
<1>11. QED
  BY <1>3, <1>4, <1>5, <1>6, <1>7, <1>8, <1>9, <1>10 DEF RowOps

\* Only an insert and a save change rows.
LEMMA RowChange ==
    ASSUME [Next]_vars
    PROVE  (\E r \in Requests : Insert(r) \/ Write(r)) \/ UNCHANGED <<exists, row, stale>>
<1> USE DEF history
<1>1. ASSUME NEW r \in Requests, NEW j \in Jobs, Add(r, j) \/ Load(r, j) \/ Sweep(r, j) \/ Report(r, j)
      PROVE  UNCHANGED <<exists, row, stale>>
  BY <1>1 DEF Add, Load, Sweep, Report
<1>2. ASSUME NEW r \in Requests, Reload(r) \/ Fail(r) \/ Elapse(r)
      PROVE  UNCHANGED <<exists, row, stale>>
  BY <1>2 DEF Reload, Fail, Elapse
<1>3. ASSUME NEW r \in Requests, AppendEvent(r) \/ AppendAnomaly(r) \/ AppendFindings(r)
      PROVE  UNCHANGED <<exists, row, stale>>
  BY <1>3 DEF AppendEvent, AppendAnomaly, AppendFindings
<1>4. CASE UNCHANGED vars
  BY <1>4 DEF vars
<1>5. QED
  BY <1>1, <1>2, <1>3, <1>4 DEF Next

LEMMA RowConsistentStep ==
    ASSUME RowInv, TypeOK', [Next]_vars
    PROVE  RowConsistent'
<1> USE DEF RowInv, Goto, history
<1>1. ASSUME NEW r \in Requests, Insert(r)
      PROVE  RowConsistent'
  BY <1>1 DEF Insert, TypeOK, RowConsistent, Added, NoMeta
<1>2. ASSUME NEW r \in Requests, Write(r)
      PROVE  RowConsistent'
  <2>1. pc[r] = "diffed" /\ exists' = exists /\ stale \subseteq stale' /\ item[r] \in Items
    BY <1>2 DEF Write, TypeOK
  <2>2. \A i \in Items : i # item[r] => row'[i] = row[i]
    BY <1>2, <2>1 DEF Write, TypeOK
  <2>3. item[r] \in exists
    BY <2>1 DEF LoadSound
  <2>4. CASE item[r] \in stale'
    BY <2>1, <2>2, <2>4 DEF RowConsistent, TypeOK
  <2>5. CASE item[r] \notin stale'
    <3>1. row[item[r]] = seen[r][item[r]] /\ row' = [row EXCEPT ![item[r]] = Entity(r)]
      BY <1>2, <2>5, WriteFresh
    <3>2. Fit(seen[r][item[r]])
      BY <2>1, <2>3, <2>5, <3>1 DEF RowConsistent, Fit
    <3>3. Fit(row'[item[r]])
      BY <2>1, <3>1, <3>2, EntityFits DEF TypeOK
    <3>4. ASSUME NEW i \in exists \ stale', i # item[r]
          PROVE  Fit(row'[i])
      BY <2>1, <2>2, <3>4 DEF RowConsistent, Fit, TypeOK
    <3>5. \A i \in exists' \ stale' : Fit(row'[i])
      BY <2>1, <3>3, <3>4
    <3>6. QED
      BY <3>5 DEF RowConsistent, Fit
  <2>6. QED
    BY <2>4, <2>5
<1>3. CASE UNCHANGED <<exists, row, stale>>
  BY <1>3 DEF RowConsistent
<1>4. QED
  BY <1>1, <1>2, <1>3, RowChange

\* A request that stops working on its row, while the others stand still.
LEMMA StopStep ==
    ASSUME RowInv, NEW r \in Requests, pc[r] # "new",
           UNCHANGED <<exists, job, seen, elapsed>>,
           \A q \in Requests \ {r} : /\ pc'[q] = pc[q] /\ item'[q] = item[q]
                                     /\ todo'[q] = todo[q],
           pc'[r] \in {"again", "report", "ok", "failed"}
    PROVE  Asked' /\ TodoSound' /\ LoadSound'
<1>1. Asked'
  BY DEF RowInv, Asked
<1>2. TodoSound'
  BY DEF RowInv, TodoSound, Overdue
<1>3. LoadSound'
  BY DEF RowInv, LoadSound, Overdue
<1>4. QED
  BY <1>1, <1>2, <1>3

\* The requests keep to their jobs, lists and checks.
LEMMA RequestStep ==
    ASSUME RowInv, TypeOK', [Next]_vars
    PROVE  Asked' /\ TodoSound' /\ LoadSound'
<1> USE DEF RowInv, Goto, history, Active
<1>1. ASSUME NEW r \in Requests, NEW j \in Jobs, Add(r, j)
      PROVE  Asked' /\ TodoSound' /\ LoadSound'
  BY <1>1 DEF Add, Received, TypeOK, Asked, TodoSound, LoadSound, Overdue
<1>2. ASSUME NEW r \in Requests, NEW j \in Jobs, Load(r, j)
      PROVE  Asked' /\ TodoSound' /\ LoadSound'
  <2>1. /\ pc[r] = "new" /\ job' = [job EXCEPT ![r] = j] /\ WellFormed(j)
        /\ item' = [item EXCEPT ![r] = j.item] /\ j.item \in exists
        /\ seen' = [seen EXCEPT ![r] = row]
        /\ pc' = [pc EXCEPT ![r] = IF Allowed(j, row[j.item]) THEN "loaded" ELSE "failed"]
        /\ UNCHANGED <<exists, todo, elapsed>>
        /\ j.op \in RowOps
    BY <1>2, JobsAssumption DEF Load, Received, Job, Ops, RowOps
  <2>2. Asked'
    BY <2>1 DEF Asked, TypeOK
  <2>3. TodoSound'
    BY <2>1 DEF TodoSound, Overdue, TypeOK
  <2>4. LoadSound'
    <3> SUFFICES ASSUME NEW q \in Requests, pc'[q] \in {"loaded", "diffed"}
                 PROVE  /\ item'[q] \in exists'
                        /\ \/ job'[q].op = "sweep" /\ Overdue(q, item[q])'
                           \/ job'[q].op \in RowOps /\ Allowed(job'[q], seen'[q][item'[q]])
      BY DEF LoadSound
    <3>1. CASE q = r
      BY <2>1, <3>1 DEF TypeOK
    <3>2. CASE q # r
      BY <2>1, <3>2 DEF LoadSound, Overdue, TypeOK
    <3>3. QED
      BY <3>1, <3>2
  <2>5. QED
    BY <2>2, <2>3, <2>4
<1>3. ASSUME NEW r \in Requests, NEW j \in Jobs, Sweep(r, j)
      PROVE  Asked' /\ TodoSound' /\ LoadSound'
  <2> DEFINE due == {i \in Items : Due(i)}
  <2>1. /\ pc[r] = "new" /\ job' = [job EXCEPT ![r] = j] /\ WellFormed(j) /\ j.op = "sweep"
        /\ seen' = [seen EXCEPT ![r] = row]
        /\ UNCHANGED <<exists, elapsed>>
    BY <1>3 DEF Sweep, Received
  <2>2. \A i \in due : /\ i \in exists /\ row[i].status = "reserved" /\ row[i].res > 0
                       /\ row[i].meta.expires \in elapsed
    BY DEF Due
  <2>3. CASE due = {}
    BY <1>3, <2>1, <2>3 DEF Sweep, TypeOK, Asked, TodoSound, LoadSound, Overdue
  <2>4. CASE due # {}
    <3>1. PICK i \in due : /\ item' = [item EXCEPT ![r] = i]
                           /\ todo' = [todo EXCEPT ![r] = due \ {i}]
                           /\ pc' = [pc EXCEPT ![r] = "loaded"]
      BY <1>3, <2>4 DEF Sweep
    <3> HIDE DEF due
    <3>2. \A q \in Requests : q # r => /\ pc'[q] = pc[q] /\ job'[q] = job[q] /\ item'[q] = item[q]
                                       /\ todo'[q] = todo[q] /\ seen'[q] = seen[q]
      BY <2>1, <3>1 DEF TypeOK
    <3>3. /\ pc'[r] = "loaded" /\ job'[r] = j /\ item'[r] = i /\ seen'[r] = row
          /\ todo'[r] = due \ {i}
      BY <2>1, <3>1 DEF TypeOK
    <3>4. Asked'
      BY <2>1, <3>2, <3>3 DEF Asked
    <3>5. TodoSound'
      BY <2>1, <2>2, <3>2, <3>3 DEF TodoSound, Overdue
    <3>6. LoadSound'
      BY <2>1, <2>2, <3>2, <3>3 DEF LoadSound, Overdue
    <3>7. QED
      BY <3>4, <3>5, <3>6
  <2>5. QED
    BY <2>3, <2>4
<1>4. ASSUME NEW r \in Requests, NEW j \in Jobs, Report(r, j)
      PROVE  Asked' /\ TodoSound' /\ LoadSound'
  <2>1. /\ pc[r] = "new" /\ job' = [job EXCEPT ![r] = j] /\ WellFormed(j)
        /\ pc' \in {[pc EXCEPT ![r] = "ok"], [pc EXCEPT ![r] = "report"]}
        /\ UNCHANGED <<exists, item, seen, elapsed>>
    BY <1>4 DEF Report, Received
  <2>2. \A q \in Requests : q # r => todo'[q] = todo[q]
    BY <1>4 DEF Report, TypeOK
  <2>3. QED
    BY <2>1, <2>2 DEF TypeOK, Asked, TodoSound, LoadSound, Overdue
<1>5. ASSUME NEW r \in Requests, Insert(r)
      PROVE  Asked' /\ TodoSound' /\ LoadSound'
  BY <1>5 DEF Insert, TypeOK, Asked, TodoSound, LoadSound, Overdue
<1>6. ASSUME NEW r \in Requests, Reload(r) \/ Write(r)
      PROVE  Asked' /\ TodoSound' /\ LoadSound'
  <2>1. /\ UNCHANGED <<exists, job, todo, item, seen, elapsed>>
        /\ pc[r] \in {"loaded", "diffed"} /\ pc'[r] \in {"diffed", "saved"}
        /\ \A q \in Requests \ {r} : pc'[q] = pc[q]
    BY <1>6 DEF Reload, Write, TypeOK
  <2>2. Asked'
    BY <2>1 DEF Asked
  <2>3. TodoSound'
    BY <2>1 DEF TodoSound, Overdue
  <2>4. LoadSound'
    BY <2>1 DEF LoadSound, Overdue
  <2>5. QED
    BY <2>2, <2>3, <2>4
<1>7. ASSUME NEW r \in Requests, AppendEvent(r)
      PROVE  Asked' /\ TodoSound' /\ LoadSound'
  <2>1. /\ pc[r] = "saved" /\ UNCHANGED <<exists, job, seen, elapsed>>
    BY <1>7 DEF AppendEvent
  <2>2. CASE todo[r] = {}
    <3>1. /\ UNCHANGED <<item, todo>> /\ pc'[r] \in {"again", "ok"}
          /\ \A q \in Requests \ {r} : pc'[q] = pc[q]
      BY <1>7, <2>2 DEF AppendEvent, TypeOK
    <3>2. QED
      BY <2>1, <3>1, StopStep
  <2>3. CASE todo[r] # {}
    <3>1. PICK i \in todo[r] : /\ item' = [item EXCEPT ![r] = i]
                               /\ todo' = [todo EXCEPT ![r] = @ \ {i}]
                               /\ pc' = [pc EXCEPT ![r] = "loaded"]
      BY <1>7, <2>3 DEF AppendEvent
    <3>2. job[r].op = "sweep" /\ Overdue(r, i)
      BY <2>1, <3>1 DEF TodoSound
    <3>3. QED
      BY <2>1, <3>1, <3>2 DEF TypeOK, Asked, TodoSound, LoadSound, Overdue
  <2>4. QED
    BY <2>2, <2>3
<1>8. ASSUME NEW r \in Requests, AppendAnomaly(r) \/ Fail(r)
      PROVE  Asked' /\ TodoSound' /\ LoadSound'
  <2>1. /\ UNCHANGED <<exists, job, todo, item, seen, elapsed>>
        /\ pc[r] # "new" /\ pc'[r] = "failed"
        /\ \A q \in Requests \ {r} : pc'[q] = pc[q]
    BY <1>8 DEF AppendAnomaly, Fail, TypeOK
  <2>2. QED
    BY <2>1, StopStep
<1>9. ASSUME NEW r \in Requests, AppendFindings(r)
      PROVE  Asked' /\ TodoSound' /\ LoadSound'
  <2>1. /\ pc[r] = "report" /\ pc'[r] \in {"ok", "report"}
        /\ UNCHANGED <<exists, job, item, seen, elapsed>>
        /\ \A q \in Requests \ {r} : pc'[q] = pc[q] /\ todo'[q] = todo[q]
    BY <1>9 DEF AppendFindings, TypeOK
  <2>2. QED
    BY <2>1, StopStep
<1>10. ASSUME NEW r \in Requests, Elapse(r)
       PROVE  Asked' /\ TodoSound' /\ LoadSound'
  BY <1>10 DEF Elapse, TypeOK, Asked, TodoSound, LoadSound, Overdue
<1>11. CASE UNCHANGED vars
  BY <1>11 DEF vars, TypeOK, Asked, TodoSound, LoadSound, Overdue
<1>12. QED
  BY <1>1, <1>2, <1>3, <1>4, <1>5, <1>6, <1>7, <1>8, <1>9, <1>10, <1>11 DEF Next

LEMMA RowInvariant == Spec => []RowInv
<1>1. RowInv /\ [Next]_vars => RowInv'
  BY TypeStep, RowConsistentStep, RequestStep DEF RowInv
<1>2. QED
  BY <1>1, InitInv, PTL DEF Spec

\* The rows and the requests keep their types: no operation takes more from the
\* stock than there is.
THEOREM TypeCorrect == Spec => []TypeOK
<1>1. RowInv => TypeOK
  BY DEF RowInv
<1>2. QED
  BY <1>1, RowInvariant, PTL

\* Status, reserved quantity, deadline and stock of an item fit together, in every
\* interleaving in which no save has hit a row it had not seen.
THEOREM RowsFit == Spec => []RowConsistent
<1>1. RowInv => RowConsistent
  BY DEF RowInv
<1>2. QED
  BY <1>1, RowInvariant, PTL

\* Of the steps that save over the row they have seen, only a release or an overdue
\* sweep ends a reservation.
LEMMA EndStep ==
    ASSUME RowInv, [Next]_vars, NEW i \in exists, row[i].res > 0, row'[i].res = 0, i \notin stale'
    PROVE  \E r \in Requests :
              /\ pc[r] = "diffed" /\ pc'[r] = "saved" /\ item[r] = i
              /\ \/ job[r].op = "release"
                 \/ job[r].op = "sweep" /\ row[i].meta.expires \in elapsed
<1> USE DEF RowInv, Goto, history
<1>1. ASSUME NEW r \in Requests, Insert(r)
      PROVE  FALSE
  BY <1>1 DEF Insert, TypeOK
<1>2. ASSUME NEW r \in Requests, Write(r)
      PROVE  /\ pc[r] = "diffed" /\ pc'[r] = "saved" /\ item[r] = i
             /\ \/ job[r].op = "release"
                \/ job[r].op = "sweep" /\ row[i].meta.expires \in elapsed
  <2>1. pc[r] = "diffed" /\ pc'[r] = "saved" /\ item[r] = i
    BY <1>2 DEF Write, TypeOK
  <2>2. row[i] = seen[r][i] /\ row'[i] = Entity(r) /\ row[i] \in Row
    BY <1>2, <2>1, WriteFresh DEF TypeOK
  <2>3. (job[r].op = "sweep" /\ Overdue(r, i)) \/ (job[r].op \in RowOps /\ Allowed(job[r], row[i]))
    BY <2>1, <2>2 DEF LoadSound
  <2>4. CASE job[r].op = "sweep"
    BY <2>1, <2>2, <2>3, <2>4 DEF Overdue, RowOps
  <2>5. CASE job[r].op = "release"
    BY <2>1, <2>5
  <2>6. CASE job[r].op \in RowOps \ {"release"}
    <3>1. job[r].op \in {"move", "adjust", "scan"} => Entity(r).res = row[i].res
      BY <2>1, <2>2 DEF Entity, Moved, Adjusted, Scanned, Row
    <3>2. job[r].op \in {"reserve", "status", "remove"} => row[i].res = 0
      BY <2>2, <2>3 DEF RowOps, Allowed, ReserveAllowed, StatusAllowed, RemoveAllowed
    <3>3. QED
      BY <2>2, <2>6, <3>1, <3>2 DEF RowOps, Row
  <2>7. QED
    BY <2>3, <2>4, <2>5, <2>6
<1>3. CASE UNCHANGED <<exists, row, stale>>
  BY <1>3
<1>4. QED
  BY <1>1, <1>2, <1>3, RowChange

\* A reservation is taken from its order by nothing else.
THEOREM ReservationsEnd == Spec => ReservationEnds
<1>1. RowInv /\ [Next]_vars =>
        [\A i \in exists :
            row[i].res > 0 /\ row'[i].res = 0 /\ i \notin stale' =>
               \E r \in Requests :
                  /\ pc[r] = "diffed" /\ pc'[r] = "saved" /\ item[r] = i
                  /\ \/ job[r].op = "release"
                     \/ job[r].op = "sweep" /\ row[i].meta.expires \in elapsed]_vars
  BY EndStep
<1>2. QED
  BY <1>1, RowInvariant, PTL DEF Spec, ReservationEnds

-----------------------------------------------------------------------------
(***************************************************************************)
(* The stock.  The row is ahead of the ledger by what the requests that    *)
(* have saved it still owe.  A sum over a set is what every relation       *)
(* between sets and numbers holds of it that starts with <<{}, 0>> and     *)
(* goes on by adding one more element: its laws need no induction.         *)
(***************************************************************************)
Sums == (SUBSET Requests) \X Int

Additive(f, R) ==
    /\ <<{}, 0>> \in R
    /\ \A A \in SUBSET Requests, n \in Int, x \in Requests :
          <<A, n>> \in R /\ x \notin A => <<A \union {x}, n + f[x]>> \in R

SumsTo(S, f, t) == \A R \in SUBSET Sums : Additive(f, R) => <<S, t>> \in R

\* The empty set sums to 0, and to nothing else.
LEMMA SumOfNone ==
    ASSUME NEW f \in [Requests -> Int]
    PROVE  SumsTo({}, f, 0) /\ \A t \in Int : SumsTo({}, f, t) => t = 0
<1>1. SumsTo({}, f, 0)
  BY DEF SumsTo, Additive
<1>2. ASSUME NEW t \in Int, SumsTo({}, f, t)
      PROVE  t = 0
  <2> DEFINE R == {p \in Sums : p[1] = {} => p[2] = 0}
  <2>1. Additive(f, R)
    <3>1. <<{}, 0>> \in R
      BY DEF Sums
    <3>2. ASSUME NEW A \in SUBSET Requests, NEW n \in Int, NEW x \in Requests
          PROVE  <<A \union {x}, n + f[x]>> \in R
      <4>1. n + f[x] \in Int /\ A \union {x} # {}
        OBVIOUS
      <4>2. QED
        BY <4>1 DEF Sums
    <3>3. QED
      BY <3>1, <3>2 DEF Additive
  <2>2. <<{}, t>> \in R
    BY <1>2, <2>1 DEF SumsTo
  <2>3. QED
    BY <2>2
<1>3. QED
  BY <1>1, <1>2

LEMMA SumAdd ==
    ASSUME NEW f, NEW S \in SUBSET Requests, NEW t \in Int, NEW x \in Requests, x \notin S,
           SumsTo(S, f, t)
    PROVE  SumsTo(S \union {x}, f, t + f[x])
  BY DEF SumsTo, Additive

LEMMA SumRemove ==
    ASSUME NEW f \in [Requests -> Int], NEW S \in SUBSET Requests, NEW t \in Int,
           NEW x \in S, SumsTo(S, f, t)
    PROVE  SumsTo(S \ {x}, f, t - f[x])
<1> SUFFICES ASSUME NEW R \in SUBSET Sums, Additive(f, R)
             PROVE  <<S \ {x}, t - f[x]>> \in R
  BY DEF SumsTo
<1> DEFINE T == {p \in Sums : <<p[1] \ {x}, IF x \in p[1] THEN p[2] - f[x] ELSE p[2]>> \in R}
<1>1. <<{}, 0>> \in T
  BY DEF Sums, Additive
<1>2. ASSUME NEW A \in SUBSET Requests, NEW n \in Int, NEW y \in Requests,
             <<A, n>> \in T, y \notin A
      PROVE  <<A \union {y}, n + f[y]>> \in T
  <2>1. f[x] \in Int /\ f[y] \in Int
    OBVIOUS
  <2>2. <<A \union {y}, n + f[y]>> \in Sums
    BY <2>1 DEF Sums
  <2>3. <<A \ {x}, IF x \in A THEN n - f[x] ELSE n>> \in R
    BY <1>2
  <2>4. CASE y = x
    <3>1. (A \union {y}) \ {x} = A \ {x} /\ (n + f[y]) - f[x] = n /\ x \notin A
      BY <1>2, <2>1, <2>4
    <3>2. QED
      BY <2>2, <2>3, <2>4, <3>1
  <2>5. CASE y # x /\ x \in A
    <3>1. (A \union {y}) \ {x} = (A \ {x}) \union {y} /\ y \notin A \ {x}
      BY <1>2, <2>5
    <3>2. (n + f[y]) - f[x] = (n - f[x]) + f[y] /\ n - f[x] \in Int
      BY <2>1
    <3>3. <<(A \ {x}) \union {y}, (n - f[x]) + f[y]>> \in R
      BY <2>3, <2>5, <3>1, <3>2 DEF Additive
    <3>4. QED
      BY <2>2, <2>5, <3>1, <3>2, <3>3
  <2>6. CASE y # x /\ x \notin A
    <3>1. (A \union {y}) \ {x} = (A \ {x}) \union {y} /\ y \notin A \ {x}
      BY <1>2, <2>6
    <3>2. <<(A \ {x}) \union {y}, n + f[y]>> \in R
      BY <2>3, <2>6, <3>1 DEF Additive
    <3>3. QED
      BY <2>2, <2>6, <3>1, <3>2
  <2>7. QED
    BY <2>4, <2>5, <2>6
<1>3. Additive(f, T)
  BY <1>1, <1>2 DEF Additive
<1>4. <<S, t>> \in T
  BY <1>3 DEF SumsTo
<1>5. QED
  BY <1>4

LEMMA SumSame ==
    ASSUME NEW f \in [Requests -> Int], NEW g, NEW S \in SUBSET Requests, NEW t \in Int,
           \A x \in S : f[x] = g[x], SumsTo(S, f, t)
    PROVE  SumsTo(S, g, t)
<1> SUFFICES ASSUME NEW R \in SUBSET Sums, Additive(g, R)
             PROVE  <<S, t>> \in R
  BY DEF SumsTo
<1> DEFINE T == {p \in Sums : p[1] \subseteq S => p \in R}
<1>1. <<{}, 0>> \in T
  BY DEF Sums, Additive
<1>2. ASSUME NEW A \in SUBSET Requests, NEW n \in Int, NEW y \in Requests,
             <<A, n>> \in T, y \notin A
      PROVE  <<A \union {y}, n + f[y]>> \in T
  <2>1. <<A \union {y}, n + f[y]>> \in Sums
    BY DEF Sums
  <2>2. CASE A \union {y} \subseteq S
    <3>1. <<A, n>> \in R /\ f[y] = g[y]
      BY <1>2, <2>2
    <3>2. <<A \union {y}, n + g[y]>> \in R
      BY <1>2, <3>1 DEF Additive
    <3>3. QED
      BY <2>1, <3>1, <3>2
  <2>3. QED
    BY <2>1, <2>2
<1>3. Additive(f, T)
  BY <1>1, <1>2 DEF Additive
<1>4. <<S, t>> \in T
  BY <1>3 DEF SumsTo
<1>5. QED
  BY <1>4

\* The requests that have saved item i and not appended its event, and what each of
\* them owes the ledger.
SavedOn(i) == {r \in Requests : pc[r] = "saved" /\ item[r] = i}
OwedQ == [r \in Requests |-> Delta(r).q]
OwedRes == [r \in Requests |-> Delta(r).res]

InsertsAdd == \A r \in Requests : pc[r] = "insert" => job[r].op = "add"

\* What is saved has a row, and what has no row has no events.
SavedKnown ==
    /\ \A r \in Requests : pc[r] = "saved" => item[r] \in exists
    /\ \A i \in Items \ exists : ledger[i] = [q |-> 0, res |-> 0]

Stock(i) ==
    /\ SumsTo(SavedOn(i), OwedQ, row[i].q - ledger[i].q)
    /\ SumsTo(SavedOn(i), OwedRes, row[i].res - ledger[i].res)

\* The inductive invariant.
StockInv ==
    /\ RowInv /\ InsertsAdd /\ SavedKnown
    /\ \A i \in exists \ (stale \union lost) : Stock(i)

LEMMA OwedType ==
    ASSUME TypeOK
    PROVE  OwedQ \in [Requests -> Int] /\ OwedRes \in [Requests -> Int]
<1>1. ASSUME NEW r \in Requests
      PROVE  Delta(r).q \in Int /\ Delta(r).res \in Int
  <2>1. /\ seen[r][item[r]].q \in Int /\ seen[r][item[r]].res \in Int
        /\ job[r].n \in Int
    BY JobsAssumption, MaxQuantityAssumption DEF TypeOK, Row, Job
  <2>2. QED
    BY <2>1 DEF Delta
<1>2. QED
  BY <1>1 DEF OwedQ, OwedRes

LEMMA BalanceType ==
    ASSUME TypeOK, NEW i \in Items
    PROVE  /\ row[i].q \in Int /\ row[i].res \in Int
           /\ ledger[i].q \in Int /\ ledger[i].res \in Int
           /\ row[i].q - ledger[i].q \in Int /\ row[i].res - ledger[i].res \in Int
<1>1. /\ row[i].q \in Int /\ row[i].res \in Int
      /\ ledger[i].q \in Int /\ ledger[i].res \in Int
  BY DEF TypeOK, Row
<1>2. QED
  BY <1>1

\* What an operation makes of the row it has loaded is what its event says.
LEMMA EntityStock ==
    ASSUME TypeOK, Asked, LoadSound, NEW r \in Requests, pc[r] = "diffed"
    PROVE  /\ Entity(r).q = seen[r][item[r]].q + Delta(r).q
           /\ Entity(r).res = seen[r][item[r]].res + Delta(r).res
<1> DEFINE j == job[r]
           e == seen[r][item[r]]
<1>1. e \in Row /\ j \in Job
  BY JobsAssumption DEF TypeOK
<1>2. e.q \in Int /\ e.res \in Int /\ j.n \in Int /\ e.meta \in Meta
  BY <1>1, MaxQuantityAssumption DEF Row, Job
<1>3. j.op = "sweep" \/ (j.op \in RowOps /\ Allowed(j, e))
  BY DEF LoadSound
<1>4. CASE j.op = "reserve"
  <2>1. e.res = 0
    BY <1>3, <1>4 DEF Allowed, ReserveAllowed
  <2>2. Entity(r).q = e.q - j.n /\ Entity(r).res = j.n
    BY <1>1, <1>4 DEF Entity, Reserved, Row
  <2>3. Delta(r).q = - j.n /\ Delta(r).res = j.n
    BY <1>4 DEF Delta
  <2>4. QED
    BY <1>2, <2>1, <2>2, <2>3
<1>5. CASE j.op \in {"release", "sweep"}
  <2>1. Entity(r).q = e.q + e.res /\ Entity(r).res = 0
    BY <1>1, <1>5 DEF Entity, Released, Row
  <2>2. Delta(r).q = e.res /\ Delta(r).res = - e.res
    BY <1>5 DEF Delta
  <2>3. QED
    BY <1>2, <2>1, <2>2
<1>6. CASE j.op \in {"move", "status", "scan"}
  <2>1. Entity(r).q = e.q /\ Entity(r).res = e.res
    BY <1>1, <1>6 DEF Entity, Moved, StatusChanged, Scanned, Row
  <2>2. Delta(r).q = 0 /\ Delta(r).res = 0
    BY <1>6 DEF Delta
  <2>3. QED
    BY <1>2, <2>1, <2>2
<1>7. CASE j.op = "adjust"
  <2>1. Entity(r).q = j.n /\ Entity(r).res = e.res
    BY <1>1, <1>7 DEF Entity, Adjusted, Row
  <2>2. Delta(r).q = j.n - e.q /\ Delta(r).res = 0
    BY <1>7 DEF Delta
  <2>3. QED
    BY <1>2, <2>1, <2>2
<1>8. CASE j.op = "remove"
  <2>1. e.res = 0
    BY <1>3, <1>8 DEF Allowed, RemoveAllowed
  <2>2. Entity(r).q = 0 /\ Entity(r).res = 0
    BY <1>1, <1>8 DEF Entity, Removed, Row
  <2>3. Delta(r).q = - e.q /\ Delta(r).res = 0
    BY <1>8 DEF Delta
  <2>4. QED
    BY <1>2, <2>1, <2>2, <2>3
<1>9. QED
  BY <1>3, <1>4, <1>5, <1>6, <1>7, <1>8 DEF RowOps

\* The balance of an item stays while the same requests owe the same.
LEMMA StockSame ==
    ASSUME TypeOK, NEW i \in Items, Stock(i),
           SavedOn(i)' = SavedOn(i),
           \A r \in SavedOn(i) : Delta(r)' = Delta(r),
           row'[i] = row[i], ledger'[i] = ledger[i]
    PROVE  Stock(i)'
<1> DEFINE S == SavedOn(i)
           t == row[i].q - ledger[i].q
           u == row[i].res - ledger[i].res
<1>1. t \in Int /\ u \in Int /\ S \in SUBSET Requests
  BY BalanceType DEF SavedOn
<1>2. \A r \in S : OwedQ[r] = OwedQ'[r] /\ OwedRes[r] = OwedRes'[r]
  BY DEF OwedQ, OwedRes, SavedOn
<1>3. SumsTo(S, OwedQ, t) /\ SumsTo(S, OwedRes, u)
  BY DEF Stock
<1>4. SumsTo(S, OwedQ', t) /\ SumsTo(S, OwedRes', u)
  <2> HIDE DEF S, t, u
  <2>1. SumsTo(S, OwedQ', t)
    BY <1>1, <1>2, <1>3, OwedType, SumSame
  <2>2. SumsTo(S, OwedRes', u)
    BY <1>1, <1>2, <1>3, OwedType, SumSame
  <2>3. QED
    BY <2>1, <2>2
<1>5. QED
  BY <1>4 DEF Stock

\* A request that has saved nothing before or after a step does not disturb it.
LEMMA QuietStep ==
    ASSUME TypeOK, NEW r \in Requests, pc[r] # "saved", pc'[r] # "saved",
           \A q \in Requests \ {r} : /\ pc'[q] = pc[q] /\ item'[q] = item[q]
                                     /\ job'[q] = job[q] /\ seen'[q] = seen[q],
           UNCHANGED <<row, ledger>>,
           NEW i \in Items, Stock(i)
    PROVE  Stock(i)'
<1>1. SavedOn(i)' = SavedOn(i)
  BY DEF SavedOn
<1>2. ASSUME NEW q \in SavedOn(i)
      PROVE  Delta(q)' = Delta(q)
  BY <1>2 DEF SavedOn, Delta
<1>3. QED
  BY <1>1, <1>2, StockSame

\* The columns of the new row are all owed to the ledger by the request that adds it.
LEMMA StockInsert ==
    ASSUME StockInv, TypeOK', NEW r \in Requests, Insert(r),
           NEW i \in exists' \ (stale' \union lost')
    PROVE  Stock(i)'
<1> USE DEF StockInv, RowInv, Goto, history
<1>1. /\ pc[r] = "insert" /\ pc' = [pc EXCEPT ![r] = "saved"]
      /\ exists' = exists \union {item[r]} /\ item[r] \notin exists /\ item[r] \in Items
      /\ UNCHANGED <<job, item, seen, ledger, stale, lost>>
  BY DEF Insert, TypeOK
<1>2. PICK l \in Locations : row' = [row EXCEPT ![item[r]] = Added(job[r].n, l)]
  BY DEF Insert
<1>3. OwedQ' = OwedQ /\ OwedRes' = OwedRes
  BY <1>1 DEF OwedQ, OwedRes, Delta
<1>4. i \in Items
  BY <1>1 DEF TypeOK
<1>5. CASE i # item[r]
  <2>1. i \in exists \ (stale \union lost) /\ row'[i] = row[i] /\ ledger'[i] = ledger[i]
    BY <1>1, <1>2, <1>4, <1>5 DEF TypeOK
  <2>2. SavedOn(i)' = SavedOn(i)
    BY <1>1, <1>5 DEF SavedOn, TypeOK
  <2>3. \A q \in SavedOn(i) : Delta(q)' = Delta(q)
    BY <1>1 DEF Delta
  <2>4. QED
    BY <1>4, <2>1, <2>2, <2>3, StockSame
<1>6. CASE i = item[r]
  <2>1. SavedOn(i) = {} /\ SavedOn(i)' = {r} /\ r \notin {}
    BY <1>1, <1>6 DEF SavedOn, SavedKnown, TypeOK
  <2>2. ledger[i] = [q |-> 0, res |-> 0]
    BY <1>1, <1>6 DEF SavedKnown
  <2>3. row'[i].q = job[r].n /\ row'[i].res = 0 /\ job[r].n \in Int
    BY <1>2, <1>4, <1>6, JobsAssumption, MaxQuantityAssumption DEF TypeOK, Added, Job
  <2>4. OwedQ[r] = job[r].n /\ OwedRes[r] = 0
    BY <1>1 DEF OwedQ, OwedRes, Delta, InsertsAdd
  <2>5. row'[i].q - ledger'[i].q = 0 + OwedQ[r] /\ row'[i].res - ledger'[i].res = 0 + OwedRes[r]
    BY <1>1, <2>2, <2>3, <2>4
  <2>6. SumsTo({}, OwedQ, 0) /\ SumsTo({}, OwedRes, 0)
    BY OwedType, SumOfNone
  <2>7. SumsTo({} \union {r}, OwedQ, 0 + OwedQ[r]) /\ SumsTo({} \union {r}, OwedRes, 0 + OwedRes[r])
    <3>1. {} \in SUBSET Requests /\ 0 \in Int /\ r \notin {}
      OBVIOUS
    <3>2. SumsTo({} \union {r}, OwedQ, 0 + OwedQ[r])
      BY <2>6, <3>1, SumAdd
    <3>3. SumsTo({} \union {r}, OwedRes, 0 + OwedRes[r])
      BY <2>6, <3>1, SumAdd
    <3>4. QED
      BY <3>2, <3>3
  <2>8. {} \union {r} = {r}
    OBVIOUS
  <2>9. QED
    BY <1>3, <2>1, <2>5, <2>7, <2>8 DEF Stock
<1>7. QED
  BY <1>5, <1>6

\* A save over the row that was seen changes it by what the event is going to say.
LEMMA StockWrite ==
    ASSUME StockInv, TypeOK', NEW r \in Requests, Write(r),
           NEW i \in exists' \ (stale' \union lost')
    PROVE  Stock(i)'
<1> USE DEF StockInv, RowInv, Goto, history
<1>1. /\ pc[r] = "diffed" /\ pc' = [pc EXCEPT ![r] = "saved"]
      /\ item[r] \in Items /\ stale \subseteq stale'
      /\ UNCHANGED <<exists, job, item, seen, ledger, lost>>
  BY DEF Write, TypeOK
<1>2. OwedQ' = OwedQ /\ OwedRes' = OwedRes
  BY <1>1 DEF OwedQ, OwedRes, Delta
<1>3. i \in Items /\ Stock(i)
  BY <1>1 DEF TypeOK
<1>4. CASE i # item[r]
  <2>1. row'[i] = row[i] /\ ledger'[i] = ledger[i]
    BY <1>1, <1>3, <1>4 DEF Write, TypeOK
  <2>2. SavedOn(i)' = SavedOn(i)
    BY <1>1, <1>4 DEF SavedOn, TypeOK
  <2>3. \A q \in SavedOn(i) : Delta(q)' = Delta(q)
    BY <1>1 DEF Delta
  <2>4. QED
    BY <1>3, <2>1, <2>2, <2>3, StockSame
<1>5. CASE i = item[r]
  <2>1. row[i] = seen[r][i] /\ row' = [row EXCEPT ![i] = Entity(r)]
    BY <1>5, WriteFresh
  <2>2. row'[i] = Entity(r)
    BY <1>3, <2>1 DEF TypeOK
  <2>3. row'[i].q = row[i].q + OwedQ[r] /\ row'[i].res = row[i].res + OwedRes[r]
    BY <1>1, <1>5, <2>1, <2>2, EntityStock DEF OwedQ, OwedRes
  <2>4. SavedOn(i)' = SavedOn(i) \union {r} /\ r \notin SavedOn(i) /\ SavedOn(i) \in SUBSET Requests
    BY <1>1, <1>5 DEF SavedOn, TypeOK
  <2> DEFINE t == row[i].q - ledger[i].q
             u == row[i].res - ledger[i].res
  <2>5. t \in Int /\ u \in Int
    BY <1>3, BalanceType
  <2>6. row'[i].q - ledger'[i].q = t + OwedQ[r] /\ row'[i].res - ledger'[i].res = u + OwedRes[r]
    <3>1. \A a, b, c \in Int : (a + c) - b = (a - b) + c
      OBVIOUS
    <3>2. /\ row[i].q \in Int /\ row[i].res \in Int
          /\ ledger[i].q \in Int /\ ledger[i].res \in Int
      BY <1>3, BalanceType
    <3>3. OwedQ[r] \in Int /\ OwedRes[r] \in Int
      BY OwedType
    <3>4. QED
      BY <1>1, <2>3, <3>1, <3>2, <3>3
  <2>7. SumsTo(SavedOn(i), OwedQ, t) /\ SumsTo(SavedOn(i), OwedRes, u)
    BY <1>3 DEF Stock
  <2> HIDE DEF t, u
  <2>8. /\ SumsTo(SavedOn(i) \union {r}, OwedQ, t + OwedQ[r])
        /\ SumsTo(SavedOn(i) \union {r}, OwedRes, u + OwedRes[r])
    BY <2>4, <2>5, <2>7, SumAdd
  <2>9. QED
    BY <1>2, <2>4, <2>6, <2>8 DEF Stock
<1>6. QED
  BY <1>4, <1>5

\* The event adds to the ledger what its request owes, and the request owes no more.
LEMMA StockAppend ==
    ASSUME StockInv, TypeOK', NEW r \in Requests, AppendEvent(r),
           NEW i \in exists' \ (stale' \union lost')
    PROVE  Stock(i)'
<1> USE DEF StockInv, RowInv, Goto, history
<1>1. /\ pc[r] = "saved" /\ pc'[r] # "saved" /\ item[r] \in Items
      /\ UNCHANGED <<exists, row, job, seen, stale, lost>>
      /\ ledger' = [ledger EXCEPT ![item[r]] = [q |-> @.q + Delta(r).q, res |-> @.res + Delta(r).res]]
      /\ \A q \in Requests \ {r} : pc'[q] = pc[q] /\ item'[q] = item[q]
  BY DEF AppendEvent, TypeOK
<1>2. i \in Items /\ Stock(i)
  BY <1>1 DEF TypeOK
<1>3. \A q \in Requests \ {r} : Delta(q)' = Delta(q)
  BY <1>1 DEF Delta
<1>4. CASE i # item[r]
  <2>1. ledger'[i] = ledger[i]
    BY <1>1, <1>2, <1>4 DEF TypeOK
  <2>2. SavedOn(i)' = SavedOn(i) /\ r \notin SavedOn(i)
    BY <1>1, <1>4 DEF SavedOn
  <2>3. \A q \in SavedOn(i) : Delta(q)' = Delta(q)
    BY <1>3, <2>2 DEF SavedOn
  <2>4. QED
    BY <1>1, <1>2, <2>1, <2>2, <2>3, StockSame
<1>5. CASE i = item[r]
  <2> DEFINE S == SavedOn(i)
             t == row[i].q - ledger[i].q
             u == row[i].res - ledger[i].res
  <2>1. S \in SUBSET Requests /\ r \in S /\ SavedOn(i)' = S \ {r}
    BY <1>1, <1>5 DEF SavedOn
  <2>2. t \in Int /\ u \in Int
    BY <1>2, BalanceType
  <2>3. OwedQ[r] \in Int /\ OwedRes[r] \in Int
    BY OwedType
  <2>4. row'[i].q - ledger'[i].q = t - OwedQ[r] /\ row'[i].res - ledger'[i].res = u - OwedRes[r]
    <3>1. \A a, b, c \in Int : a - (b + c) = (a - b) - c
      OBVIOUS
    <3>2. /\ row[i].q \in Int /\ row[i].res \in Int
          /\ ledger[i].q \in Int /\ ledger[i].res \in Int
      BY <1>2, BalanceType
    <3>3. ledger'[i].q = ledger[i].q + OwedQ[r] /\ ledger'[i].res = ledger[i].res + OwedRes[r]
      BY <1>1, <1>2, <1>5 DEF TypeOK, OwedQ, OwedRes
    <3>4. QED
      BY <1>1, <2>3, <3>1, <3>2, <3>3
  <2>5. SumsTo(S, OwedQ, t) /\ SumsTo(S, OwedRes, u)
    BY <1>2 DEF Stock
  <2>6. \A q \in S \ {r} : OwedQ[q] = OwedQ'[q] /\ OwedRes[q] = OwedRes'[q]
    BY <1>3, <2>1 DEF OwedQ, OwedRes
  <2> HIDE DEF S, t, u
  <2>7. SumsTo(S \ {r}, OwedQ, t - OwedQ[r]) /\ SumsTo(S \ {r}, OwedRes, u - OwedRes[r])
    BY <2>1, <2>2, <2>5, OwedType, SumRemove
  <2>8. t - OwedQ[r] \in Int /\ u - OwedRes[r] \in Int /\ S \ {r} \in SUBSET Requests
    BY <2>1, <2>2, <2>3
  <2>9. SumsTo(S \ {r}, OwedQ', t - OwedQ[r])
    BY <2>6, <2>7, <2>8, OwedType, SumSame
  <2>10. SumsTo(S \ {r}, OwedRes', u - OwedRes[r])
    BY <2>6, <2>7, <2>8, OwedType, SumSame
  <2>11. QED
    BY <2>1, <2>4, <2>9, <2>10 DEF Stock
<1>6. QED
  BY <1>4, <1>5

\* A request that fails with a saved row leaves the item among the lost ones.
LEMMA StockFail ==
    ASSUME StockInv, TypeOK', NEW r \in Requests, Fail(r),
           NEW i \in exists' \ (stale' \union lost')
    PROVE  Stock(i)'
<1> USE DEF StockInv, RowInv, Goto, history
<1>1. /\ pc'[r] = "failed" /\ \A q \in Requests \ {r} : pc'[q] = pc[q]
      /\ UNCHANGED <<exists, row, job, item, seen, ledger, stale>> /\ lost \subseteq lost'
  BY DEF Fail, TypeOK
<1>2. i \in Items /\ Stock(i)
  BY <1>1 DEF TypeOK
<1>3. SavedOn(i)' = SavedOn(i)
  <2>1. r \notin SavedOn(i)
    BY DEF Fail, SavedOn
  <2>2. QED
    BY <1>1, <2>1 DEF SavedOn
<1>4. \A q \in SavedOn(i) : Delta(q)' = Delta(q)
  BY <1>1 DEF Delta
<1>5. QED
  BY <1>1, <1>2, <1>3, <1>4, StockSame

\* The other operations neither save nor append.
LEMMA StockQuiet ==
    ASSUME StockInv, TypeOK', NEW r \in Requests,
           \/ \E j \in Jobs : Add(r, j) \/ Load(r, j) \/ Sweep(r, j) \/ Report(r, j)
           \/ Reload(r) \/ AppendAnomaly(r) \/ AppendFindings(r)
    PROVE  /\ InsertsAdd' /\ SavedKnown'
           /\ \A i \in exists' \ (stale' \union lost') : Stock(i)'
<1> USE DEF StockInv, RowInv, Goto, history
<1> DEFINE Quiet ==
             /\ pc[r] # "saved" /\ pc'[r] # "saved"
             /\ \A q \in Requests \ {r} : /\ pc'[q] = pc[q] /\ item'[q] = item[q]
                                          /\ job'[q] = job[q] /\ seen'[q] = seen[q]
             /\ UNCHANGED <<exists, row, ledger, stale, lost>>
             /\ pc'[r] = "insert" => job'[r].op = "add"
<1>1. Quiet
  <2>1. ASSUME NEW j \in Jobs, Add(r, j) \/ Load(r, j)
        PROVE  Quiet
    BY <2>1 DEF Add, Load, Received, TypeOK
  <2>2. ASSUME NEW j \in Jobs, Report(r, j)
        PROVE  Quiet
    BY <2>2 DEF Report, Received, TypeOK
  <2>3. ASSUME NEW j \in Jobs, Sweep(r, j)
        PROVE  Quiet
    BY <2>3 DEF Sweep, Received, TypeOK
  <2>4. CASE Reload(r) \/ AppendAnomaly(r) \/ AppendFindings(r)
    BY <2>4 DEF Reload, AppendAnomaly, AppendFindings, TypeOK
  <2>5. QED
    BY <2>1, <2>2, <2>3, <2>4
<1>2. InsertsAdd'
  BY <1>1 DEF InsertsAdd
<1>3. SavedKnown'
  BY <1>1 DEF SavedKnown
<1>4. ASSUME NEW i \in exists' \ (stale' \union lost')
      PROVE  Stock(i)'
  <2>1. i \in Items /\ Stock(i)
    BY <1>1 DEF TypeOK
  <2>2. QED
    BY <1>1, <2>1, QuietStep
<1>5. QED
  BY <1>2, <1>3, <1>4

LEMMA StockStep ==
    ASSUME StockInv, TypeOK', [Next]_vars
    PROVE  /\ InsertsAdd' /\ SavedKnown'
           /\ \A i \in exists' \ (stale' \union lost') : Stock(i)'
<1> USE DEF StockInv, RowInv, Goto, history
<1>1. ASSUME NEW r \in Requests, Insert(r)
      PROVE  InsertsAdd' /\ SavedKnown'
  BY <1>1 DEF Insert, InsertsAdd, SavedKnown, TypeOK
<1>2. ASSUME NEW r \in Requests, Write(r)
      PROVE  InsertsAdd' /\ SavedKnown'
  BY <1>2 DEF Write, InsertsAdd, SavedKnown, LoadSound, TypeOK
<1>3. ASSUME NEW r \in Requests, AppendEvent(r)
      PROVE  InsertsAdd' /\ SavedKnown'
  <2>1. /\ pc[r] = "saved" /\ pc'[r] \notin {"saved", "insert"} /\ item[r] \in Items
        /\ UNCHANGED <<exists, job>>
        /\ \A q \in Requests \ {r} : pc'[q] = pc[q] /\ item'[q] = item[q]
        /\ \A i \in Items \ {item[r]} : ledger'[i] = ledger[i]
    BY <1>3 DEF AppendEvent, TypeOK
  <2>2. item[r] \in exists
    BY <2>1 DEF SavedKnown
  <2>3. InsertsAdd'
    BY <2>1 DEF InsertsAdd
  <2>4. SavedKnown'
    BY <2>1, <2>2 DEF SavedKnown
  <2>5. QED
    BY <2>3, <2>4
<1>4. ASSUME NEW r \in Requests, Fail(r)
      PROVE  InsertsAdd' /\ SavedKnown'
  BY <1>4 DEF Fail, InsertsAdd, SavedKnown, TypeOK
<1>5. ASSUME NEW r \in Requests, Elapse(r)
      PROVE  UNCHANGED <<exists, row, pc, job, item, seen, ledger, stale, lost>>
  BY <1>5 DEF Elapse
<1>6. CASE UNCHANGED <<exists, row, pc, job, item, seen, ledger, stale, lost>>
  <2>1. InsertsAdd' /\ SavedKnown'
    BY <1>6 DEF InsertsAdd, SavedKnown
  <2>2. ASSUME NEW i \in exists' \ (stale' \union lost')
        PROVE  Stock(i)'
    <3>1. i \in Items /\ Stock(i)
      BY <1>6 DEF TypeOK
    <3>2. SavedOn(i)' = SavedOn(i) /\ \A q \in SavedOn(i) : Delta(q)' = Delta(q)
      BY <1>6 DEF SavedOn, Delta
    <3>3. QED
      BY <1>6, <3>1, <3>2, StockSame
  <2>3. QED
    BY <2>1, <2>2
<1>7. CASE UNCHANGED vars
  BY <1>6, <1>7 DEF vars
<1>8. QED
  BY <1>1, <1>2, <1>3, <1>4, <1>5, <1>6, <1>7,
     StockInsert, StockWrite, StockAppend, StockFail, StockQuiet DEF Next

LEMMA StockInit == Init => StockInv
<1> SUFFICES ASSUME Init PROVE StockInv
  OBVIOUS
<1>1. RowInv
  BY InitInv
<1>2. TypeOK
  BY <1>1 DEF RowInv
<1>3. InsertsAdd /\ SavedKnown
  BY DEF Init, InsertsAdd, SavedKnown
<1>4. ASSUME NEW i \in exists
      PROVE  Stock(i)
  <2>1. i \in Items /\ row[i].q = MaxQuantity /\ row[i].res = 0
    BY <1>2, <1>4 DEF Init, TypeOK, Added
  <2>2. ledger[i].q = MaxQuantity /\ ledger[i].res = 0
    BY <1>4, <2>1 DEF Init
  <2>3. row[i].q - ledger[i].q = 0 /\ row[i].res - ledger[i].res = 0
    BY <2>1, <2>2, MaxQuantityAssumption
  <2>4. SavedOn(i) = {}
    BY DEF Init, SavedOn
  <2>5. SumsTo({}, OwedQ, 0) /\ SumsTo({}, OwedRes, 0)
    BY <1>2, OwedType, SumOfNone
  <2>6. QED
    BY <2>3, <2>4, <2>5 DEF Stock
<1>5. QED
  BY <1>1, <1>3, <1>4 DEF StockInv

LEMMA StockExplains == StockInv => StockExplained
<1> SUFFICES ASSUME StockInv, NEW i \in exists \ (stale \union lost), Settled(i)
             PROVE  ledger[i] = [q |-> row[i].q, res |-> row[i].res]
  BY DEF StockExplained
<1>1. TypeOK /\ Stock(i) /\ i \in Items
  BY DEF StockInv, RowInv, TypeOK
<1>2. SavedOn(i) = {}
  BY DEF Settled, SavedOn
<1>3. row[i].q - ledger[i].q \in Int /\ row[i].res - ledger[i].res \in Int
  BY <1>1, BalanceType
<1>4. row[i].q - ledger[i].q = 0
  BY <1>1, <1>2, <1>3, OwedType, SumOfNone DEF Stock
<1>5. row[i].res - ledger[i].res = 0
  BY <1>1, <1>2, <1>3, OwedType, SumOfNone DEF Stock
<1>6. ledger[i].q = row[i].q /\ ledger[i].res = row[i].res
  <2>1. \A a, b \in Int : a - b = 0 => b = a
    OBVIOUS
  <2>2. QED
    BY <1>1, <1>4, <1>5, <2>1, BalanceType
<1>7. ledger[i] \in [q : Int, res : Int]
  BY <1>1 DEF TypeOK
<1>8. QED
  BY <1>6, <1>7

\* Whatever the interleaving of the requests, the events of an item add up to its row,
\* as soon as those that have saved it have appended theirs: the events are appended
\* in any order, and only a stale save or a lost event breaks the account.
THEOREM EventsExplainStock == Spec => []StockExplained
<1>1. StockInv /\ [Next]_vars => StockInv'
  <2> SUFFICES ASSUME StockInv, [Next]_vars PROVE StockInv'
    OBVIOUS
  <2>1. RowInv'
    BY TypeStep, RowConsistentStep, RequestStep DEF StockInv, RowInv
  <2>2. QED
    BY <2>1, StockStep DEF StockInv, RowInv
<1>2. QED
  BY <1>1, StockInit, StockExplains, PTL DEF Spec
=============================================================================
