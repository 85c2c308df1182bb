------------------------ MODULE DeviceRegistryProofs ------------------------
(***************************************************************************)
(* Proofs about DeviceRegistry, for any sets of requests, devices, names   *)
(* and jobs, and any threshold: its types, that a change of status has its *)
(* audit event on the way, and that no heartbeat let in before a decision  *)
(* and loading the row after it undoes the decision.                       *)
(***************************************************************************)
EXTENDS DeviceRegistry, TLAPS

LEMMA Defaults == NoRow \in Row /\ NoJob \in Jobs
<1>1. (CHOOSE n \in Names : TRUE) \in Names
  BY JobsAssumption
<1>2. (CHOOSE j \in Jobs : TRUE) \in Jobs
  BY JobsAssumption
<1>3. \A n \in Names : NewRow(n) \in Row
  BY BoundsAssumption DEF NewRow, Row, Statuses
<1>4. QED
  BY <1>1, <1>2, <1>3 DEF NoRow, NoJob, Row

LEMMA JobTypes ==
    ASSUME TypeOK, NEW r \in Requests
    PROVE  /\ Dev(r) \in Devices
           /\ job[r].op \in {"register", "status", "heartbeat"}
           /\ job[r].op = "register" => job[r].arg \in Names
           /\ job[r].op = "status" => job[r].arg \in Statuses
BY JobsAssumption DEF TypeOK, Dev, Job

\* Each call is in the phases of its operation.
PhaseOps ==
    \A r \in Requests :
        /\ pc[r] = "insert" => job[r].op = "register"
        /\ pc[r] \in {"load", "reload", "write"} => job[r].op # "register"
        /\ pc[r] \in {"auth", "limit"} => job[r].op = "heartbeat"

LEMMA InitTypes == Init => TypeOK /\ PhaseOps
BY Defaults DEF Init, TypeOK, PhaseOps

\* A call that is over leaves well-typed variables.
LEMMA ForgetType ==
    ASSUME TypeOK, NEW r \in Requests, Forget(r)
    PROVE  /\ pc' = [pc EXCEPT ![r] = "idle"]
           /\ job' \in [Requests -> Jobs] /\ entity' \in [Requests -> Row]
           /\ suspends' \in [Requests -> BOOLEAN]
           /\ diff' \in [Requests -> SUBSET {"name", "status", "fails"}]
           /\ overtaken' \in [Requests -> BOOLEAN]
           /\ \A q \in Requests \ {r} : job'[q] = job[q] /\ entity'[q] = entity[q]
                                        /\ overtaken'[q] = overtaken[q]
BY Defaults DEF Forget, Goto, TypeOK

LEMMA FireType ==
    ASSUME TypeOK, NEW r \in Requests, NEW acts \in SUBSET Actions, NEW main, Fire(r, acts, main)
    PROVE  audits' \subseteq Audit
<1>1. Dev(r) \in Devices
  BY JobTypes
<1>2. \A a \in acts : [by |-> r, dev |-> Dev(r), act |-> a, main |-> a = main, read |-> "no"] \in Audit
  BY <1>1 DEF Audit
<1>3. QED
  BY <1>2 DEF Fire, TypeOK

LEMMA MainType ==
    ASSUME TypeOK, NEW r \in Requests
    PROVE  MainEvent(r) \in Actions /\ Announced(r) \subseteq Actions
BY JobTypes DEF MainEvent, Announced, Actions

\* The rows that operators and heartbeats make of a row.
LEMMA RowTypes ==
    ASSUME NEW e \in Row, e.fails < MaxFails
    PROVE  /\ \A s \in Statuses : StatusSet(e, s) \in Row
           /\ \A beat : Beaten(e, beat) \in Row
<1>1. /\ e.fails \in 0..MaxFails /\ e.fails + 1 \in 0..MaxFails /\ 0 \in 0..MaxFails
      /\ e.status \in Statuses \union {"none"} /\ {"suspended", "active"} \subseteq Statuses
  BY BoundsAssumption DEF Row, Statuses
<1>2. \A s \in Statuses \union {"none"}, n \in 0..MaxFails : [e EXCEPT !.status = s, !.fails = n] \in Row
  BY DEF Row
<1>3. ASSUME NEW s \in Statuses
      PROVE  StatusSet(e, s) \in Row
  <2>1. (IF s = "active" THEN 0 ELSE e.fails) \in 0..MaxFails
    BY <1>1
  <2>2. QED
    BY <1>2, <2>1 DEF StatusSet
<1>4. ASSUME NEW beat
      PROVE  Beaten(e, beat) \in Row
  <2> DEFINE s == IF Suspends(e, beat) THEN "suspended"
                  ELSE IF e.status = "inactive" THEN "active" ELSE e.status
             n == IF beat = "degraded" THEN e.fails + 1 ELSE 0
  <2>1. s \in Statuses \union {"none"}
    BY <1>1
  <2>2. n \in 0..MaxFails
    BY <1>1
  <2>3. Beaten(e, beat) = [e EXCEPT !.status = s, !.fails = n]
    BY DEF Beaten
  <2> HIDE DEF s, n
  <2>4. QED
    BY <1>2, <2>1, <2>2, <2>3
<1>5. QED
  BY <1>3, <1>4

LEMMA TypeStep ==
    ASSUME TypeOK, PhaseOps, [Next]_vars
    PROVE  TypeOK'
<1> USE DEF Goto
<1>1. ASSUME NEW r \in Requests, NEW j \in Jobs, Call(r, j)
      PROVE  TypeOK'
  <2>1. j.op \in {"register", "status", "heartbeat"}
    BY JobsAssumption DEF Job
  <2>2. FirstPhase[j.op] \in {"insert", "load", "auth"}
    BY <2>1 DEF FirstPhase
  <2>3. QED
    BY <1>1, <2>2 DEF Call, TypeOK
<1>2. ASSUME NEW r \in Requests, Insert(r)
      PROVE  TypeOK'
  <2>1. job[r].arg \in Names /\ Dev(r) \in Devices
    BY <1>2, JobTypes DEF Insert, PhaseOps
  <2>2. NewRow(job[r].arg) \in Row
    BY <2>1, BoundsAssumption DEF NewRow, Row, Statuses
  <2>3. QED
    BY <1>2, <2>1, <2>2 DEF Insert, TypeOK
<1>3. ASSUME NEW r \in Requests, NameConflict(r) \/ NotFound(r)
      PROVE  TypeOK'
  BY <1>3, ForgetType DEF NameConflict, NotFound, TypeOK
<1>4. ASSUME NEW r \in Requests, Authenticate(r)
      PROVE  TypeOK'
  <2>1. audits' \subseteq Audit
    BY <1>4, FireType DEF Authenticate, Actions
  <2>2. QED
    BY <1>4, <2>1 DEF Authenticate, TypeOK
<1>5. ASSUME NEW r \in Requests, Refuse(r)
      PROVE  TypeOK'
  <2>1. audits' \subseteq Audit
    BY <1>5, FireType DEF Refuse, Actions
  <2>2. QED
    BY <1>5, <2>1, ForgetType DEF Refuse, TypeOK
<1>6. ASSUME NEW r \in Requests, Limit(r)
      PROVE  TypeOK'
  <2>1. CASE Forget(r)
    BY <1>6, <2>1, ForgetType DEF Limit, TypeOK
  <2>2. CASE Goto(r, "load") /\ UNCHANGED <<job, entity, suspends, diff, overtaken>>
    BY <1>6, <2>2 DEF Limit, TypeOK
  <2>3. QED
    BY <1>6, <2>1, <2>2 DEF Limit
<1>7. ASSUME NEW r \in Requests, Load(r)
      PROVE  TypeOK'
  <2> DEFINE e == row[Dev(r)]
  <2>1. e \in Row /\ e.fails < MaxFails /\ pc[r] = "load"
    BY <1>7, JobTypes DEF Load, TypeOK
  <2>2. job[r].op = "status" => StatusSet(e, job[r].arg) \in Row
    BY <2>1, JobTypes, RowTypes
  <2>3. Beaten(e, job[r].arg) \in Row
    BY <2>1, RowTypes
  <2>4. Suspends(e, job[r].arg) \in BOOLEAN
    BY DEF Suspends
  <2> HIDE DEF e
  <2>5. entity' \in [Requests -> Row] /\ suspends' \in [Requests -> BOOLEAN]
    BY <1>7, <2>2, <2>3, <2>4 DEF Load, TypeOK, e
  <2>6. QED
    BY <1>7, <2>5 DEF Load, TypeOK
<1>8. ASSUME NEW r \in Requests, Reload(r)
      PROVE  TypeOK'
  <2>1. DOMAIN entity[r] = {"name", "status", "fails"}
    BY DEF TypeOK, Row
  <2>2. QED
    BY <1>8, <2>1 DEF Reload, TypeOK
<1>9. ASSUME NEW r \in Requests, Write(r)
      PROVE  TypeOK'
  <2>1. entity[r] \in Row /\ Dev(r) \in Devices /\ row[Dev(r)] \in Row
    BY JobTypes DEF TypeOK
  <2>2. Saved(r) \in Row
    BY <2>1 DEF Saved, Row
  <2>3. QED
    BY <1>9, <2>1, <2>2 DEF Write, TypeOK
<1>10. ASSUME NEW r \in Requests, Answer(r)
       PROVE  TypeOK'
  <2>1. audits' \subseteq Audit
    BY <1>10, FireType, MainType DEF Answer
  <2>2. QED
    BY <1>10, <2>1, ForgetType DEF Answer, TypeOK
<1>11. ASSUME NEW r \in Requests, Fail(r)
       PROVE  TypeOK'
  <2>1. owing' \in [Devices -> SUBSET Requests]
    BY <1>11, JobTypes DEF Fail, TypeOK
  <2>2. QED
    BY <1>11, <2>1, ForgetType DEF Fail, TypeOK
<1>12. ASSUME NEW a \in audits, AuditRead(a) \/ AuditAppend(a) \/ AuditLost(a)
       PROVE  TypeOK'
  <2>1. a \in Audit /\ [a EXCEPT !.read = "head"] \in Audit
    BY DEF TypeOK, Audit
  <2>2. \A as \in SUBSET Audit : Behind(as) \subseteq Audit
    BY DEF Behind, Audit
  <2>3. audits' \subseteq Audit
    BY <1>12, <2>1, <2>2 DEF AuditRead, AuditAppend, AuditLost, TypeOK
  <2>4. owing' \in [Devices -> SUBSET Requests]
    BY <1>12 DEF AuditRead, AuditAppend, AuditLost, Ends, TypeOK
  <2>5. QED
    BY <1>12, <2>3, <2>4 DEF AuditRead, AuditAppend, AuditLost, TypeOK
<1>13. CASE OtherAppend
  <2>1. Behind(audits) \subseteq Audit
    BY DEF Behind, Audit, TypeOK
  <2>2. QED
    BY <1>13, <2>1 DEF OtherAppend, TypeOK
<1>14. CASE UNCHANGED vars
  BY <1>14 DEF vars, TypeOK
<1>15. QED
  BY <1>1, <1>2, <1>3, <1>4, <1>5, <1>6, <1>7, <1>8, <1>9, <1>10, <1>11, <1>12, <1>13, <1>14 DEF Next

LEMMA PhaseStep ==
    ASSUME TypeOK, PhaseOps, [Next]_vars
    PROVE  PhaseOps'
<1> USE DEF Goto, PhaseOps, TypeOK
<1>1. ASSUME NEW r \in Requests, NEW j \in Jobs, Call(r, j)
      PROVE  PhaseOps'
  <2>1. j.op \in {"register", "status", "heartbeat"}
    BY JobsAssumption DEF Job
  <2>2. QED
    BY <1>1, <2>1 DEF Call, FirstPhase
<1>2. ASSUME NEW r \in Requests, Forget(r)
      PROVE  PhaseOps'
  BY <1>2 DEF Forget
<1>3. ASSUME NEW r \in Requests, NameConflict(r) \/ Refuse(r) \/ NotFound(r) \/ Answer(r) \/ Fail(r)
      PROVE  PhaseOps'
  BY <1>2, <1>3 DEF NameConflict, Refuse, NotFound, Answer, Fail
\* A call goes on in one of its phases; only a heartbeat is authenticated.
<1>4. ASSUME NEW r \in Requests, Insert(r) \/ Load(r) \/ Reload(r) \/ Write(r)
      PROVE  PhaseOps'
  BY <1>4 DEF Insert, Load, Reload, Write
<1>5. ASSUME NEW r \in Requests, Authenticate(r) \/ Limit(r)
      PROVE  PhaseOps'
  BY <1>2, <1>5 DEF Authenticate, Limit
<1>6. CASE UNCHANGED <<pc, job>>
  BY <1>6
<1>7. QED
  BY <1>1, <1>3, <1>4, <1>5, <1>6 DEF Next, AuditRead, AuditAppend, AuditLost, OtherAppend, vars

LEMMA Types == Spec => [](TypeOK /\ PhaseOps)
<1>1. TypeOK /\ PhaseOps /\ [Next]_vars => TypeOK' /\ PhaseOps'
  BY TypeStep, PhaseStep
<1>2. QED
  BY <1>1, InitTypes, PTL DEF Spec

\* Rows, calls and audit events keep their types.
THEOREM TypeCorrect == Spec => []TypeOK
  BY Types, PTL

-----------------------------------------------------------------------------
(***************************************************************************)
(* Audit events                                                            *)
(***************************************************************************)
\* The event that tells of r's change of d is on its way.
Told(r, d) == \E a \in audits : a.by = r /\ a.dev = d /\ a.main

LEMMA AuditedStep ==
    ASSUME TypeOK, ChangeAudited, [Next]_vars
    PROVE  ChangeAudited'
<1> USE DEF Goto, TypeOK
\* Steps that take no audit event away, and owe nothing new.
<1>1. ASSUME \A d \in Devices : owing'[d] \subseteq owing[d],
             \A a \in audits : \E b \in audits' : b.by = a.by /\ b.dev = a.dev /\ (a.main => b.main),
             \A d \in Devices : \A r \in owing'[d] : pc[r] = "saved" /\ Dev(r) = d =>
                (pc'[r] = "saved" /\ Dev(r)' = d) \/ Told(r, d)'
      PROVE  ChangeAudited'
  <2>1. \A r, d : Told(r, d) => Told(r, d)'
    BY <1>1 DEF Told
  <2>2. QED
    BY <1>1, <2>1 DEF ChangeAudited, Told
<1>2. ASSUME NEW r \in Requests, NEW j \in Jobs, Call(r, j)
      PROVE  ChangeAudited'
  BY <1>1, <1>2 DEF Call, Dev
<1>3. ASSUME NEW r \in Requests, Insert(r) \/ Write(r)
      PROVE  ChangeAudited'
  <2>1. /\ audits' = audits /\ job' = job /\ pc[r] # "saved" /\ pc' = [pc EXCEPT ![r] = "saved"]
        /\ \A d \in Devices : owing'[d] = owing[d] \/ (d = Dev(r) /\ owing'[d] = {r})
    BY <1>3 DEF Insert, Write
  <2>2. \A q, d : Told(q, d) => Told(q, d)'
    BY <2>1 DEF Told
  <2>3. QED
    BY <2>1, <2>2 DEF ChangeAudited, Told, Dev
<1>4. ASSUME NEW r \in Requests, Forget(r), audits \subseteq audits', owing' = owing, pc[r] # "saved"
      PROVE  ChangeAudited'
  BY <1>1, <1>4 DEF Forget, Dev
<1>5. ASSUME NEW r \in Requests, NameConflict(r) \/ Refuse(r) \/ NotFound(r) \/ Limit(r)
      PROVE  ChangeAudited'
  <2>1. CASE Forget(r)
    BY <1>4, <1>5, <2>1 DEF NameConflict, Refuse, NotFound, Limit, Fire
  <2>2. CASE Limit(r) /\ ~ Forget(r)
    BY <1>1, <2>2 DEF Limit, Dev
  <2>3. QED
    BY <1>5, <2>1, <2>2 DEF NameConflict, Refuse, NotFound
<1>6. ASSUME NEW r \in Requests, Authenticate(r) \/ Load(r) \/ Reload(r)
      PROVE  ChangeAudited'
  BY <1>1, <1>6 DEF Authenticate, Load, Reload, Fire, Dev
<1>7. ASSUME NEW r \in Requests, Answer(r)
      PROVE  ChangeAudited'
  <2>1. /\ Fire(r, Announced(r), MainEvent(r)) /\ Forget(r) /\ owing' = owing
    BY <1>7 DEF Answer
  <2>2. MainEvent(r) \in Announced(r)
    BY DEF Announced
  <2> DEFINE new == [by |-> r, dev |-> Dev(r), act |-> MainEvent(r), main |-> TRUE, read |-> "no"]
  <2>3. new \in audits' /\ new.by = r /\ new.dev = Dev(r) /\ new.main
    BY <2>1, <2>2 DEF Fire
  <2> HIDE DEF new
  <2>4. audits \subseteq audits' /\ \A q \in Requests \ {r} : pc'[q] = pc[q] /\ Dev(q)' = Dev(q)
    BY <2>1 DEF Fire, Forget, Dev
  <2>5. \A q, d : Told(q, d) => Told(q, d)'
    BY <2>4 DEF Told
  <2>6. \A d \in Devices : Dev(r) = d => Told(r, d)'
    BY <2>3 DEF Told
  <2>7. QED
    BY <2>1, <2>4, <2>5, <2>6 DEF ChangeAudited, Told
<1>8. ASSUME NEW r \in Requests, Fail(r)
      PROVE  ChangeAudited'
  <2>1. /\ audits' = audits /\ owing' = [owing EXCEPT ![Dev(r)] = @ \ {r}]
        /\ \A q \in Requests \ {r} : pc'[q] = pc[q] /\ Dev(q)' = Dev(q)
    BY <1>8 DEF Fail, Forget, Dev
  <2>2. QED
    BY <1>1, <2>1
<1>9. ASSUME NEW a \in audits, AuditRead(a)
      PROVE  ChangeAudited'
  <2>1. audits' = (audits \ {a}) \union {[a EXCEPT !.read = "head"]} /\ a \in Audit
    BY <1>9 DEF AuditRead
  <2> DEFINE new == [a EXCEPT !.read = "head"]
  <2>2. new \in audits' /\ new.by = a.by /\ new.dev = a.dev /\ new.main = a.main
    BY <2>1 DEF Audit
  <2>3. \A c \in audits \ {a} : c \in audits'
    BY <2>1
  <2> HIDE DEF new
  <2>4. \A c \in audits : \E b \in audits' : b.by = c.by /\ b.dev = c.dev /\ (c.main => b.main)
    BY <2>2, <2>3
  <2>5. QED
    BY <1>1, <1>9, <2>4 DEF AuditRead, Dev
\* The event that is over was the one owed, or was not to tell.
<1>10. ASSUME NEW a \in audits, Ends(a), UNCHANGED <<pc, job>>,
              \A c \in audits \ {a} : \E b \in audits' : b.by = c.by /\ b.dev = c.dev /\ (c.main => b.main)
       PROVE  ChangeAudited'
  <2>1. a \in Audit
    OBVIOUS
  <2>2. /\ \A d \in Devices : owing'[d] \subseteq owing[d]
        /\ a.main => a.by \notin owing'[a.dev]
    BY <1>10, <2>1 DEF Ends, Audit
  <2>3. ASSUME NEW d \in Devices, NEW r \in owing'[d]
        PROVE  (pc'[r] = "saved" /\ Dev(r)' = d) \/ Told(r, d)'
    <3>1. (pc[r] = "saved" /\ Dev(r) = d) \/ Told(r, d)
      BY <2>2, <2>3 DEF ChangeAudited, Told
    <3>2. ASSUME NEW c \in audits, c.by = r, c.dev = d, c.main
          PROVE  Told(r, d)'
      <4>1. c # a
        BY <2>2, <2>3, <3>2
      <4>2. QED
        BY <1>10, <3>2, <4>1 DEF Told
    <3>3. QED
      BY <1>10, <3>1, <3>2 DEF Told, Dev
  <2>4. QED
    BY <2>3 DEF ChangeAudited, Told
<1>12. \A as \in SUBSET Audit : \A c \in as :
          \E b \in Behind(as) : b.by = c.by /\ b.dev = c.dev /\ (c.main => b.main)
  <2> SUFFICES ASSUME NEW as \in SUBSET Audit, NEW c \in as
               PROVE  \E b \in Behind(as) : b.by = c.by /\ b.dev = c.dev /\ (c.main => b.main)
    OBVIOUS
  <2> DEFINE new == [c EXCEPT !.read = IF @ = "head" THEN "behind" ELSE @]
  <2>1. new \in Behind(as)
    BY DEF Behind
  <2>2. new.by = c.by /\ new.dev = c.dev /\ new.main = c.main
    BY DEF Audit
  <2> HIDE DEF new
  <2>3. QED
    BY <2>1, <2>2
<1>13. ASSUME NEW a \in audits, AuditAppend(a) \/ AuditLost(a)
       PROVE  ChangeAudited'
  BY <1>10, <1>12, <1>13 DEF AuditAppend, AuditLost
<1>14. CASE OtherAppend
  BY <1>1, <1>12, <1>14 DEF OtherAppend, Dev
<1>15. CASE UNCHANGED vars
  BY <1>15 DEF vars, ChangeAudited, Dev
<1>16. QED
  BY <1>2, <1>3, <1>5, <1>6, <1>7, <1>8, <1>9, <1>13, <1>14, <1>15 DEF Next

\* A change of status has its audit event on the way until that is recorded or lost.
THEOREM ChangesAudited == Spec => []ChangeAudited
<1>1. Init => ChangeAudited
  BY DEF Init, ChangeAudited
<1>2. TypeOK /\ ChangeAudited /\ [Next]_vars => ChangeAudited'
  BY AuditedStep
<1>3. QED
  BY <1>1, <1>2, TypeCorrect, PTL DEF Spec

-----------------------------------------------------------------------------
(***************************************************************************)
(* Suspensions and revocations                                             *)
(***************************************************************************)
\* A registration has its device to itself; a save has a row; and a heartbeat that
\* nobody has overtaken wants the status of a barred device to stay.
Saving ==
    /\ \A r \in Requests : pc[r] = "insert" =>
          ~ Exists(Dev(r)) /\ \A q \in Requests \ {r} : pc[q] = "insert" => Dev(q) # Dev(r)
    /\ \A r \in Requests : pc[r] \in {"reload", "write"} =>
          Exists(Dev(r)) /\ entity[r].status # "none"
    /\ \A r \in Requests :
          /\ pc[r] \in {"reload", "write"} /\ job[r].op = "heartbeat" /\ ~ overtaken[r]
          /\ row[Dev(r)].status \in Barred
          => entity[r].status = row[Dev(r)].status

LEMMA SavingStep ==
    ASSUME TypeOK, PhaseOps, Saving, [Next]_vars
    PROVE  Saving'
<1> USE DEF Goto
\* Steps of one request that write no row, and begin neither an insert nor a save.
<1>1. ASSUME row' = row,
             \A q \in Requests :
                /\ pc'[q] \in {"insert", "reload", "write"} =>
                      /\ pc[q] \in {"insert", "reload", "write"} /\ (pc'[q] = "insert" <=> pc[q] = "insert")
                      /\ job'[q] = job[q] /\ entity'[q] = entity[q] /\ overtaken'[q] = overtaken[q]
      PROVE  Saving'
  <2>1. \A d : Exists(d)' = Exists(d)
    BY <1>1 DEF Exists
  <2>2. \A q \in Requests : pc'[q] \in {"insert", "reload", "write"} => Dev(q)' = Dev(q)
    BY <1>1 DEF Dev
  <2>3. QED
    BY <1>1, <2>1, <2>2 DEF Saving
<1>2. ASSUME NEW r \in Requests, NEW j \in Jobs, Call(r, j)
      PROVE  Saving'
  <2>1. /\ job'[r] = j /\ pc[r] = "idle" /\ row' = row /\ entity' = entity /\ overtaken' = overtaken
        /\ \A q \in Requests \ {r} : pc'[q] = pc[q] /\ job'[q] = job[q] /\ Dev(q)' = Dev(q)
    BY <1>2 DEF Call, TypeOK, Dev
  <2>2. pc'[r] \in {"insert", "load", "auth"} /\ (pc'[r] = "insert" => j.op = "register")
    <3>1. j.op \in {"register", "status", "heartbeat"}
      BY JobsAssumption DEF Job
    <3>2. QED
      BY <1>2, <3>1 DEF Call, FirstPhase, TypeOK
  <2>3. pc'[r] = "insert" => Fresh(Dev(r)')
    BY <1>2, <2>1, <2>2 DEF Call, Dev
  <2>4. \A d : Exists(d)' = Exists(d)
    BY <2>1 DEF Exists
  <2>5. pc'[r] = "insert" =>
          ~ Exists(Dev(r)') /\ \A q \in Requests \ {r} : pc[q] = "insert" => Dev(q) # Dev(r)'
    BY <2>3 DEF Fresh
  <2>6. QED
    BY <2>1, <2>2, <2>4, <2>5 DEF Saving
<1>3. ASSUME NEW r \in Requests, Insert(r)
      PROVE  Saving'
  <2>1. /\ pc[r] = "insert" /\ pc' = [pc EXCEPT ![r] = "saved"] /\ job' = job /\ overtaken' = overtaken
        /\ row' = [row EXCEPT ![Dev(r)] = NewRow(job[r].arg)]
        /\ \A q \in Requests \ {r} : entity'[q] = entity[q]
    BY <1>3 DEF Insert, TypeOK
  <2>2. row'[Dev(r)].status = "active" /\ \A d \in Devices \ {Dev(r)} : row'[d] = row[d]
    BY <2>1, JobTypes DEF NewRow, TypeOK
  <2>3. \A q \in Requests \ {r} : pc'[q] = pc[q] /\ Dev(q)' = Dev(q) /\ Dev(q) \in Devices
    BY <2>1, JobTypes DEF Dev, TypeOK
  <2>4. \A q \in Requests \ {r} : pc[q] = "insert" => Dev(q) # Dev(r)
    BY <2>1 DEF Saving
  <2>5. pc'[r] = "saved"
    BY <2>1 DEF TypeOK
  <2>6. QED
    BY <2>1, <2>2, <2>3, <2>4, <2>5 DEF Saving, Exists, Barred
<1>4. ASSUME NEW r \in Requests, Load(r)
      PROVE  Saving'
  <2> DEFINE e == row[Dev(r)]
  <2>1. /\ pc[r] = "load" /\ e.status # "none" /\ pc'[r] = "reload" /\ row' = row /\ job' = job
        /\ entity'[r] = IF job[r].op = "status" THEN StatusSet(e, job[r].arg)
                                                ELSE Beaten(e, job[r].arg)
        /\ \A q \in Requests \ {r} : pc'[q] = pc[q] /\ entity'[q] = entity[q]
                                     /\ overtaken'[q] = overtaken[q]
    BY <1>4 DEF Load, Exists, TypeOK
  <2>2. e \in Row
    BY JobTypes DEF TypeOK
  <2>3. job[r].op = "status" => entity'[r].status = job[r].arg /\ job[r].arg \in Statuses
    BY <2>1, <2>2, JobTypes DEF StatusSet, Row
  <2>4. job[r].op # "status" =>
          entity'[r].status = IF Suspends(e, job[r].arg) THEN "suspended"
                              ELSE IF e.status = "inactive" THEN "active" ELSE e.status
    BY <2>1, <2>2 DEF Beaten, Row
  <2>5. job[r].op # "status" /\ e.status \in Barred => entity'[r].status = e.status
    BY <2>4 DEF Suspends, Barred
  <2>6. entity'[r].status # "none"
    BY <2>1, <2>3, <2>4 DEF Statuses
  <2>7. \A q \in Requests : Dev(q)' = Dev(q) /\ \A d : Exists(d)' = Exists(d)
    BY <2>1 DEF Dev, Exists
  <2> HIDE DEF e
  <2>8. Exists(Dev(r)) /\ row[Dev(r)] = e
    BY <2>1 DEF Exists, e
  <2>9. QED
    BY <2>1, <2>5, <2>6, <2>7, <2>8 DEF Saving
<1>5. ASSUME NEW r \in Requests, Write(r)
      PROVE  Saving'
  <2>1. /\ pc[r] = "write" /\ pc' = [pc EXCEPT ![r] = "saved"] /\ job' = job /\ entity' = entity
        /\ row' = [row EXCEPT ![Dev(r)] = Saved(r)]
        /\ overtaken' = [q \in Requests |->
                           overtaken[q] \/ (q # r /\ Dev(q) = Dev(r) /\ pc[q] \in {"reload", "write"})]
    BY <1>5 DEF Write
  <2>2. Dev(r) \in Devices /\ entity[r] \in Row /\ row[Dev(r)] \in Row
    BY JobTypes DEF TypeOK
  <2>3. Saved(r).status # "none"
    BY <2>1, <2>2 DEF Saved, Saving, Exists, Row
  <2>4. \A q \in Requests : Dev(q)' = Dev(q) /\ Dev(q) \in Devices
    BY <2>1, JobTypes DEF Dev
  <2>5. \A d \in Devices : (Exists(d)' <=> Exists(d)) /\ (d # Dev(r) => row'[d] = row[d])
    BY <2>1, <2>2, <2>3 DEF Exists, Saving, TypeOK
  <2>6. \A q \in Requests : pc'[q] \in {"insert", "reload", "write"} => q # r /\ pc'[q] = pc[q]
    BY <2>1 DEF TypeOK
  <2>7. \A q \in Requests : q # r /\ pc[q] \in {"reload", "write"} /\ ~ overtaken'[q] =>
          ~ overtaken[q] /\ Dev(q) # Dev(r)
    BY <2>1
  <2>8. QED
    BY <2>1, <2>4, <2>5, <2>6, <2>7 DEF Saving
<1>6. ASSUME NEW r \in Requests, Forget(r), row' = row
      PROVE  Saving'
  <2>1. \A q \in Requests \ {r} : pc'[q] = pc[q] /\ job'[q] = job[q] /\ entity'[q] = entity[q]
                                  /\ overtaken'[q] = overtaken[q]
    BY <1>6 DEF Forget, TypeOK
  <2>2. pc'[r] = "idle"
    BY <1>6 DEF Forget, TypeOK
  <2>3. QED
    BY <1>1, <1>6, <2>1, <2>2
<1>7. ASSUME NEW r \in Requests,
             NameConflict(r) \/ Refuse(r) \/ NotFound(r) \/ Answer(r) \/ Fail(r)
      PROVE  Saving'
  BY <1>6, <1>7 DEF NameConflict, Refuse, NotFound, Answer, Fail
<1>8. ASSUME NEW r \in Requests, Authenticate(r) \/ Limit(r)
      PROVE  Saving'
  <2>1. CASE Forget(r)
    BY <1>6, <1>8, <2>1 DEF Authenticate, Limit
  <2>2. CASE ~ Forget(r)
    <3>1. /\ UNCHANGED <<row, job, entity, overtaken>>
          /\ pc'[r] \in {"limit", "load"} /\ \A q \in Requests \ {r} : pc'[q] = pc[q]
      BY <1>8, <2>2 DEF Authenticate, Limit, TypeOK
    <3>2. QED
      BY <1>1, <3>1
  <2>3. QED
    BY <2>1, <2>2
<1>9. ASSUME NEW r \in Requests, Reload(r)
      PROVE  Saving'
  <2>1. /\ UNCHANGED <<row, job, entity, overtaken>> /\ pc[r] = "reload"
        /\ pc'[r] = "write" /\ \A q \in Requests \ {r} : pc'[q] = pc[q]
    BY <1>9 DEF Reload, TypeOK
  <2>2. QED
    BY <1>1, <2>1
<1>10. CASE UNCHANGED <<pc, row, job, entity, overtaken>>
  BY <1>1, <1>10
<1>11. QED
  BY <1>2, <1>3, <1>4, <1>5, <1>7, <1>8, <1>9, <1>10 DEF Next, AuditRead, AuditAppend, AuditLost,
     OtherAppend, vars

\* No heartbeat that loads the row after a decision undoes it.
THEOREM BarsHold == Spec => BarHolds
<1>1. Init => Saving
  BY DEF Init, Saving
<1>2. TypeOK /\ PhaseOps /\ Saving /\ [Next]_vars => Saving'
  BY SavingStep
<1>3. ASSUME TypeOK, PhaseOps, Saving, [Next]_vars, NEW d \in Devices,
             row[d].status \in Barred, row'[d].status # row[d].status
      PROVE  \E r \in Requests : /\ pc[r] = "write" /\ pc'[r] = "saved" /\ Dev(r) = d
                                 /\ job[r].op = "status" \/ overtaken[r]
  <2>1. ASSUME NEW r \in Requests, Insert(r)
        PROVE  FALSE
    <3>1. pc[r] = "insert" /\ ~ Exists(Dev(r)) /\ row' = [row EXCEPT ![Dev(r)] = NewRow(job[r].arg)]
      BY <1>3, <2>1 DEF Insert, Saving
    <3>2. QED
      BY <1>3, <3>1 DEF Exists, Barred, TypeOK
  <2>2. ASSUME NEW r \in Requests, Write(r)
        PROVE  /\ pc[r] = "write" /\ pc'[r] = "saved" /\ Dev(r) = d
               /\ job[r].op = "status" \/ overtaken[r]
    <3>1. /\ pc[r] = "write" /\ pc'[r] = "saved" /\ row' = [row EXCEPT ![Dev(r)] = Saved(r)]
      BY <1>3, <2>2 DEF Write, Goto, TypeOK
    <3>2. Dev(r) = d /\ Saved(r).status # row[d].status
      BY <1>3, <3>1 DEF TypeOK
    <3>3. entity[r] \in Row /\ row[d] \in Row
      BY <1>3 DEF TypeOK
    <3>4. entity[r].status # row[d].status
      BY <3>2, <3>3 DEF Saved, Row
    <3>5. job[r].op \in {"status", "heartbeat"}
      BY <1>3, <3>1, JobTypes DEF PhaseOps
    <3>6. QED
      BY <1>3, <3>1, <3>2, <3>4, <3>5 DEF Saving
  <2>3. row' # row
    BY <1>3
  <2>4. QED
    BY <1>3, <2>1, <2>2, <2>3 DEF Next, Call, NameConflict, Authenticate, Refuse, Limit, Load, NotFound,
       Reload, Answer, Fail, AuditRead, AuditAppend, AuditLost, OtherAppend, vars
<1>4. TypeOK /\ PhaseOps /\ Saving /\ [Next]_vars =>
        [\A d \in Devices :
            row[d].status \in Barred /\ row'[d].status # row[d].status
              => \E r \in Requests : /\ pc[r] = "write" /\ pc'[r] = "saved" /\ Dev(r) = d
                                     /\ job[r].op = "status" \/ overtaken[r]]_vars
  BY <1>3
<1>5. QED
  BY <1>1, <1>2, <1>4, Types, PTL DEF Spec, BarHolds
=============================================================================
