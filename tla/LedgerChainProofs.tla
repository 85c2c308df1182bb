-------------------------- MODULE LedgerChainProofs --------------------------
(***************************************************************************)
(* Proofs about LedgerChain, for any sets of tenants, events and writers:  *)
(* its types, the inductive invariant ChainInv, that verifyChain accepts   *)
(* every committed chain, and that the chain implements LedgerLog.         *)
(***************************************************************************)
EXTENDS LedgerChain, FiniteSetTheorems, FunctionTheorems, TLAPS

-----------------------------------------------------------------------------
(***************************************************************************)
(* Types                                                                   *)
(***************************************************************************)

\* The row an append inserts is a row of the table.
LEMMA NewRowType ==
    ASSUME TypeOK, NEW w \in Writers
    PROVE  NewRow(w) \in Row
<1> DEFINE n == head[w].seq + 1
           l == <<call[w].tenant, call[w].event, n>>
<1>1. /\ head[w].hash \in Seq(Link) /\ n \in Nat \ {0}
      /\ call[w].tenant \in Tenants /\ call[w].event \in Events
  BY DEF TypeOK, ChainHead, Call, Hash
<1>2. l \in Link
  BY <1>1 DEF Link
<1>3. Append(head[w].hash, l) \in Seq(Link)
  BY <1>1, <1>2
<1>4. QED
  BY <1>1, <1>3 DEF NewRow, Row, HashOf, Hash

\* Every step keeps the types.
LEMMA TypeStep ==
    ASSUME TypeOK, [Next]_vars
    PROVE  TypeOK'
<1>1. ASSUME NEW w \in Writers, NEW t \in Tenants, NEW m \in Modes, NEW e \in Events,
             Begin(w, t, m, e)
      PROVE  TypeOK'
  BY <1>1, ModesAssumption DEF Begin, TypeOK, Phases, Call
<1>2. ASSUME NEW w \in Writers, ReadHead(w)
      PROVE  TypeOK'
  <2>1. Visible(w) \subseteq Row
    BY DEF TypeOK, Visible, RowsOf
  <2>2. NoHead \in ChainHead
    BY DEF NoHead, ChainHead, NoHash, Hash
  <2>3. \A r \in Row : [seq |-> r.seq, hash |-> r.hash] \in ChainHead
    BY DEF Row, ChainHead
  <2>4. head' \in [Writers -> ChainHead]
    BY <1>2, <2>1, <2>2, <2>3 DEF ReadHead, TypeOK
  <2>5. QED
    BY <1>2, <2>4 DEF ReadHead, TypeOK, Phases
<1>3. ASSUME NEW w \in Writers, Insert(w)
      PROVE  TypeOK'
  BY <1>3, NewRowType DEF Insert, TypeOK, Phases, Call
<1>4. ASSUME NEW w \in Writers, Abort(w)
      PROVE  TypeOK'
  BY <1>4 DEF Abort, TypeOK, Phases
<1>5. ASSUME NEW w \in Writers, NEW e \in Events, NextInBatch(w, e)
      PROVE  TypeOK'
  BY <1>5 DEF NextInBatch, TypeOK, Phases, Call
<1>6. ASSUME NEW w \in Writers, Commit(w)
      PROVE  TypeOK'
  BY <1>6 DEF Commit, TypeOK, Phases, Row
<1>7. ASSUME NEW w \in Writers, Respond(w)
      PROVE  TypeOK'
  BY <1>7 DEF Respond, TypeOK, Phases
<1>8. CASE Crash
  BY <1>8 DEF Crash, TypeOK, Phases
<1>9. CASE UNCHANGED vars
  BY <1>9 DEF vars, txn, TypeOK
<1>10. QED
  BY <1>1, <1>2, <1>3, <1>4, <1>5, <1>6, <1>7, <1>8, <1>9 DEF Next, Conflict, Rollback

\* The table, the transactions and the history variables keep their types.
THEOREM TypeCorrect == Spec => []TypeOK
<1>1. Init => TypeOK
  BY DEF Init, TypeOK, Phases, Call, ChainHead, NoHead, NoHash, Hash
<1>2. TypeOK /\ [Next]_vars => TypeOK'
  BY TypeStep
<1>3. QED
  BY <1>1, <1>2, PTL DEF Spec

-----------------------------------------------------------------------------
(***************************************************************************)
(* Good chains                                                             *)
(***************************************************************************)

\* Below a row of a good chain there is a row for every sequence number.
LEMMA GoodDown ==
    ASSUME NEW rs, rs \subseteq Row, GoodChain(rs), NEW r \in rs, NEW k \in 1..r.seq
    PROVE  \E q \in rs : q.seq = k
<1>1. PICK h \in rs : {q.seq : q \in rs} = 1..h.seq
  BY DEF GoodChain, Contiguous
<1>2. r.seq \in 1..h.seq /\ h.seq \in Nat /\ r.seq \in Nat
  BY <1>1 DEF Row
<1>3. k \in {q.seq : q \in rs}
  BY <1>1, <1>2
<1>4. QED
  BY <1>3

\* The next row of a good chain: first in an empty one, else after its top row.
Next1(rs, r) == rs = {} /\ r.seq = 1 /\ r.prev = NoHash

NextN(rs, r) == \E h \in rs : /\ \A q \in rs : q.seq <= h.seq
                              /\ r.seq = h.seq + 1
                              /\ r.prev = h.hash

\* Adding the next row keeps a chain good.
LEMMA GoodExtend ==
    ASSUME NEW rs, rs \subseteq Row, GoodChain(rs), NEW r \in Row,
           r.hash = RowHash(r), Next1(rs, r) \/ NextN(rs, r)
    PROVE  GoodChain(rs \union {r})
<1>1. CASE Next1(rs, r)
  <2>1. rs \union {r} = {r} /\ {q.seq : q \in {r}} = 1..r.seq
    BY <1>1 DEF Next1
  <2>2. QED
    BY <1>1, <2>1 DEF Next1, GoodChain, Contiguous, KeysUnique, Linked
<1>2. CASE NextN(rs, r)
  <2>1. PICK h \in rs : /\ \A q \in rs : q.seq <= h.seq
                        /\ r.seq = h.seq + 1
                        /\ r.prev = h.hash
    BY <1>2 DEF NextN
  <2>2. PICK g \in rs : {q.seq : q \in rs} = 1..g.seq
    BY <2>1 DEF GoodChain, Contiguous
  <2>3. \A q \in rs : q.seq \in Nat \ {0}
    BY DEF Row
  <2>4. h.seq \in 1..g.seq /\ g.seq <= h.seq
    BY <2>1, <2>2
  <2>5. {q.seq : q \in rs} = 1..h.seq
    BY <2>2, <2>3, <2>4
  <2>6. {q.seq : q \in rs \union {r}} = {q.seq : q \in rs} \union {r.seq}
    OBVIOUS
  <2>7. 1..r.seq = (1..h.seq) \union {r.seq}
    BY <2>1, <2>3
  <2>8. Contiguous(rs \union {r})
    BY <2>5, <2>6, <2>7 DEF Contiguous
  <2>9. KeysUnique(rs \union {r})
    BY <2>1, <2>3 DEF GoodChain, KeysUnique
  <2>10. Linked(rs \union {r})
    <3>1. r.seq > 1 /\ h.seq = r.seq - 1
      BY <2>1, <2>3
    <3>2. \E q \in rs : q.seq = r.seq - 1 /\ r.prev = q.hash
      BY <2>1, <3>1
    <3>3. Linked(rs)
      BY DEF GoodChain
    <3>4. QED
      BY <3>1, <3>2, <3>3 DEF Linked
  <2>11. QED
    BY <2>8, <2>9, <2>10 DEF GoodChain
<1>3. QED
  BY <1>1, <1>2

\* A good chain without its uncommitted top is known by its height: if all of
\* the rows of A are in the good chain B and B has a row A has no key for, then
\* B has a row just above A.
LEMMA JustAbove ==
    ASSUME NEW A, NEW B, A \subseteq Row, B \subseteq Row, A \subseteq B,
           GoodChain(A), GoodChain(B),
           NEW p \in B, \A q \in A : q.seq # p.seq
    PROVE  \E n \in Nat : {q.seq : q \in A} = 1..n /\ \E r \in B \ A : r.seq = n + 1
<1>1. PICK n \in Nat : {q.seq : q \in A} = 1..n
  <2>1. CASE A = {}
    <3>1. {q.seq : q \in A} = 1..0
      BY <2>1
    <3>2. QED
      BY <3>1
  <2>2. CASE A # {}
    BY <2>2 DEF GoodChain, Contiguous, Row
  <2>3. QED
    BY <2>1, <2>2
<1>2. p.seq \in Nat \ {0} /\ p.seq \notin 1..n
  <2>1. p.seq \in Nat \ {0}
    BY DEF Row
  <2>2. p.seq \notin {q.seq : q \in A}
    OBVIOUS
  <2>3. QED
    BY <1>1, <2>1, <2>2
<1>3. n + 1 \in 1..p.seq
  BY <1>2
<1>4. PICK r \in B : r.seq = n + 1
  BY <1>3, GoodDown
<1>5. r \notin A
  <2>1. n + 1 \notin {q.seq : q \in A}
    BY <1>1
  <2>2. QED
    BY <1>4, <2>1
<1>6. QED
  BY <1>1, <1>4, <1>5

\* Two transactions of one tenant never both hold uncommitted rows.
LEMMA PendingExclusive ==
    ASSUME TypeOK, ChainInv, NEW v \in Writers, NEW w \in Writers, v # w,
           call[v].tenant = call[w].tenant
    PROVE  pending[v] = {} \/ pending[w] = {}
<1> DEFINE t == call[w].tenant
           A == RowsOf(rows, t)
<1> SUFFICES ASSUME NEW p \in pending[v], NEW q \in pending[w]
             PROVE  FALSE
  OBVIOUS
<1>1. t \in Tenants
  BY DEF TypeOK, Call
<1>2. A \subseteq Row /\ GoodChain(A)
  BY <1>1 DEF TypeOK, RowsOf, ChainInv, CommittedGood
<1>3. ASSUME NEW u \in {v, w}, NEW r \in pending[u]
      PROVE  \E n \in Nat : /\ {x.seq : x \in A} = 1..n
                            /\ \E y \in pending[u] : y.tenant = t /\ y.seq = n + 1
  <2>1. r.tenant = t /\ ~ KeyTaken(r)
    BY <1>3 DEF ChainInv, PendingSound
  <2>2. A \subseteq Visible(u) /\ r \in Visible(u) /\ Visible(u) \subseteq Row
    BY <1>3, <2>1 DEF Visible, RowsOf, TypeOK
  <2>3. GoodChain(Visible(u))
    BY <1>3 DEF ChainInv, VisibleGood
  <2>4. \A x \in A : x.seq # r.seq
    BY <2>1 DEF KeyTaken, SameKey, RowsOf
  <2>5. PICK n \in Nat : {x.seq : x \in A} = 1..n /\ \E y \in Visible(u) \ A : y.seq = n + 1
    BY <1>2, <2>2, <2>3, <2>4, JustAbove
  <2>6. Visible(u) \ A \subseteq pending[u] /\ \A y \in Visible(u) : y.tenant = t
    BY <1>3 DEF Visible, RowsOf
  <2>7. QED
    BY <2>5, <2>6
<1>4. PICK n \in Nat : /\ {x.seq : x \in A} = 1..n
                       /\ \E y \in pending[v] : y.tenant = t /\ y.seq = n + 1
  BY <1>3
<1>5. PICK m \in Nat : /\ {x.seq : x \in A} = 1..m
                       /\ \E y \in pending[w] : y.tenant = t /\ y.seq = m + 1
  BY <1>3
<1>6. n = m
  <2>1. 1..n = 1..m
    BY <1>4, <1>5
  <2>2. n \in 1..n \/ n = 0
    OBVIOUS
  <2>3. m \in 1..m \/ m = 0
    OBVIOUS
  <2>4. QED
    BY <2>1, <2>2, <2>3
<1>7. QED
  BY <1>4, <1>5, <1>6 DEF ChainInv, PendingSound, LockedByOther, SameKey
-----------------------------------------------------------------------------
(***************************************************************************)
(* The inductive invariant                                                 *)
(***************************************************************************)

\* A row that would be inserted continues the chain its transaction sees.
LEMMA InsertContinues ==
    ASSUME TypeOK, ChainInv, NEW w \in Writers, phase[w] = "read",
           ~ KeyTaken(NewRow(w)), ChecksHold(NewRow(w))
    PROVE  Next1(Visible(w), NewRow(w)) \/ NextN(Visible(w), NewRow(w))
<1> DEFINE V == Visible(w)
           r == NewRow(w)
<1>1. V \subseteq Row /\ GoodChain(V) /\ HeadSound(w) /\ r \in Row
  BY NewRowType DEF TypeOK, Visible, RowsOf, ChainInv, VisibleGood, PendingSound
<1>2. /\ r.tenant = call[w].tenant /\ r.seq = head[w].seq + 1
      /\ r.prev = head[w].hash /\ head[w].seq \in Nat
  BY DEF NewRow, TypeOK, ChainHead
<1>3. \A q \in V : q.seq # r.seq
  <2>1. \A q \in V : q.tenant = r.tenant /\ (q \in rows \/ q \in pending[w])
    BY <1>2 DEF Visible, RowsOf
  <2>2. \A q \in pending[w] : q.seq <= head[w].seq
    BY <1>1 DEF HeadSound
  <2>3. \A q \in V : q.seq \in Nat
    BY <1>1 DEF Row
  <2>4. \A q \in rows : q.tenant = r.tenant => q.seq # r.seq
    BY DEF KeyTaken, SameKey
  <2>5. QED
    BY <1>2, <2>1, <2>2, <2>3, <2>4
<1>4. \A q \in V : q.seq <= head[w].seq
  <2> SUFFICES ASSUME NEW q \in V, ~ (q.seq <= head[w].seq)
               PROVE  FALSE
    OBVIOUS
  <2>1. r.seq \in 1..q.seq
    BY <1>1, <1>2 DEF Row
  <2>2. QED
    BY <1>1, <1>3, <2>1, GoodDown
<1>5. CASE \E h \in V : h.seq = head[w].seq /\ h.hash = head[w].hash
  BY <1>2, <1>4, <1>5 DEF NextN
<1>6. CASE head[w] = NoHead
  <2>1. head[w].seq = 0 /\ head[w].hash = NoHash
    BY <1>6 DEF NoHead
  <2>2. V = {}
    BY <1>1, <1>4, <2>1 DEF Row
  <2>3. QED
    BY <1>2, <2>1, <2>2 DEF Next1
<1>7. QED
  BY <1>1, <1>5, <1>6 DEF HeadSound

\* The invariant survives a transaction that ends without a commit.
LEMMA AbortInv ==
    ASSUME TypeOK, ChainInv, NEW w \in Writers, Abort(w)
    PROVE  ChainInv'
<1>1. rows' = rows /\ call' = call /\ head' = head /\ done' = done /\ acked' = acked
  BY DEF Abort
<1>2. pending'[w] = {} /\ phase'[w] = "idle"
  BY DEF Abort, TypeOK
<1>3. \A v \in Writers \ {w} : pending'[v] = pending[v] /\ phase'[v] = phase[v]
  BY DEF Abort, TypeOK
<1>4. CommittedGood' /\ DoneRecorded' /\ AckedDurable'
  BY <1>1 DEF ChainInv, CommittedGood, DoneRecorded, AckedDurable, Recorded
<1>5. VisibleGood'
  <2> SUFFICES ASSUME NEW v \in Writers
               PROVE  GoodChain(RowsOf(rows \union pending'[v], call[v].tenant))
    BY <1>1 DEF VisibleGood, Visible
  <2>1. CASE v = w
    <3>1. rows \union pending'[v] = rows
      BY <1>2, <2>1
    <3>2. QED
      BY <3>1 DEF ChainInv, CommittedGood, TypeOK, Call
  <2>2. CASE v # w
    BY <1>3, <2>2 DEF ChainInv, VisibleGood, Visible
  <2>3. QED
    BY <2>1, <2>2
<1>6. PendingSound'
  <2> SUFFICES ASSUME NEW v \in Writers
               PROVE  (/\ \A r \in pending[v] : /\ r.tenant = call[v].tenant
                                              /\ ~ KeyTaken(r)
                                              /\ ~ LockedByOther(v, r)
                       /\ phase[v] \in {"idle", "committed"} => pending[v] = {}
                       /\ phase[v] = "read" => HeadSound(v))'
    BY DEF PendingSound
  <2>1. CASE v = w
    BY <1>2, <2>1
  <2>2. CASE v # w
    <3>1. \A u \in Writers : pending'[u] \subseteq pending[u]
      BY <1>2, <1>3
    <3>2. HeadSound(v)' = HeadSound(v)
      BY <1>1, <1>3, <2>2 DEF HeadSound, Visible
    <3>3. \A r : LockedByOther(v, r)' => LockedByOther(v, r)
      BY <3>1 DEF LockedByOther
    <3>4. \A r : KeyTaken(r)' = KeyTaken(r)
      BY <1>1 DEF KeyTaken
    <3>5. QED
      BY <1>1, <1>3, <2>2, <3>2, <3>3, <3>4 DEF ChainInv, PendingSound
  <2>3. QED
    BY <2>1, <2>2
<1>7. QED
  BY <1>4, <1>5, <1>6 DEF ChainInv
\* What one writer's part of PendingSound says.
WriterSound(w) ==
    /\ \A r \in pending[w] : /\ r.tenant = call[w].tenant
                            /\ ~ KeyTaken(r)
                            /\ ~ LockedByOther(w, r)
    /\ phase[w] \in {"idle", "committed"} => pending[w] = {}
    /\ phase[w] = "read" => HeadSound(w)

\* The invariant survives the steps that touch neither rows nor pending: a new
\* append, in a transaction of its own or the next of a batch.
LEMMA CallInv ==
    ASSUME TypeOK, ChainInv, NEW w \in Writers, NEW c \in Call,
           rows' = rows, pending' = pending, head' = head, done' = done, acked' = acked,
           phase' = [phase EXCEPT ![w] = "open"], call' = [call EXCEPT ![w] = c],
           pending[w] = {} \/ c.tenant = call[w].tenant
    PROVE  ChainInv'
<1>1. CommittedGood' /\ DoneRecorded' /\ AckedDurable'
  BY DEF ChainInv, CommittedGood, DoneRecorded, AckedDurable, Recorded
<1>2. phase'[w] = "open" /\ call'[w] = c
  BY DEF TypeOK
<1>3. \A v \in Writers \ {w} : phase'[v] = phase[v] /\ call'[v] = call[v]
  BY DEF TypeOK
<1>4. VisibleGood'
  <2> SUFFICES ASSUME NEW v \in Writers
               PROVE  GoodChain(RowsOf(rows \union pending[v], call'[v].tenant))
    BY DEF VisibleGood, Visible
  <2>1. CASE call'[v].tenant = call[v].tenant
    BY <2>1 DEF ChainInv, VisibleGood, Visible
  <2>2. CASE call'[v].tenant # call[v].tenant
    <3>1. v = w /\ pending[v] = {}
      BY <1>2, <1>3, <2>2
    <3>2. rows \union pending[v] = rows /\ call'[v].tenant \in Tenants
      BY <1>2, <3>1 DEF Call
    <3>3. QED
      BY <3>2 DEF ChainInv, CommittedGood
  <2>3. QED
    BY <2>1, <2>2
<1>5. PendingSound'
  <2> SUFFICES ASSUME NEW v \in Writers
               PROVE  WriterSound(v)'
    BY DEF PendingSound, WriterSound
  <2>1. WriterSound(v)
    BY DEF ChainInv, PendingSound, WriterSound
  <2>2. \A r : KeyTaken(r)' = KeyTaken(r) /\ LockedByOther(v, r)' = LockedByOther(v, r)
    BY DEF KeyTaken, LockedByOther
  <2>3. CASE v = w
    BY <1>2, <2>1, <2>2, <2>3 DEF WriterSound
  <2>4. CASE v # w
    <3>1. HeadSound(v)' = HeadSound(v)
      BY <1>3, <2>4 DEF HeadSound, Visible
    <3>2. QED
      BY <1>3, <2>1, <2>2, <2>4, <3>1 DEF WriterSound
  <2>5. QED
    BY <2>3, <2>4
<1>6. QED
  BY <1>1, <1>4, <1>5 DEF ChainInv

\* Reading the head.
LEMMA ReadHeadInv ==
    ASSUME TypeOK, ChainInv, NEW w \in Writers, ReadHead(w)
    PROVE  ChainInv'
<1>1. /\ rows' = rows /\ call' = call /\ pending' = pending /\ done' = done
      /\ acked' = acked /\ phase[w] = "open"
  BY DEF ReadHead
<1>2. \A v \in Writers \ {w} : phase'[v] = phase[v] /\ head'[v] = head[v]
  BY DEF ReadHead, TypeOK
<1>3. CommittedGood' /\ DoneRecorded' /\ AckedDurable' /\ VisibleGood'
  BY <1>1 DEF ChainInv, CommittedGood, DoneRecorded, AckedDurable, Recorded, VisibleGood,
              Visible
<1>4. \A v \in Writers : Visible(v)' = Visible(v)
  BY <1>1 DEF Visible
<1>5. HeadSound(w)'
  <2>1. \A q \in pending[w] : q \in Visible(w)
    BY DEF ChainInv, PendingSound, Visible, RowsOf
  <2>2. CASE Visible(w) = {} /\ head' = [head EXCEPT ![w] = NoHead]
    BY <1>1, <2>1, <2>2 DEF HeadSound, TypeOK
  <2>3. ASSUME NEW r \in Visible(w), \A q \in Visible(w) : q.seq <= r.seq,
               head' = [head EXCEPT ![w] = [seq |-> r.seq, hash |-> r.hash]]
        PROVE  HeadSound(w)'
    <3>1. head'[w].seq = r.seq /\ head'[w].hash = r.hash
      BY <2>3 DEF TypeOK
    <3>2. QED
      BY <1>1, <1>4, <2>1, <2>3, <3>1 DEF HeadSound
  <2>4. QED
    BY <2>2, <2>3 DEF ReadHead
<1>6. PendingSound'
  <2> SUFFICES ASSUME NEW v \in Writers
               PROVE  WriterSound(v)'
    BY DEF PendingSound, WriterSound
  <2>1. WriterSound(v)
    BY DEF ChainInv, PendingSound, WriterSound
  <2>2. \A r : KeyTaken(r)' = KeyTaken(r) /\ LockedByOther(v, r)' = LockedByOther(v, r)
    BY <1>1 DEF KeyTaken, LockedByOther
  <2>3. CASE v = w
    <3>1. phase'[v] = "read"
      BY <2>3 DEF ReadHead, TypeOK
    <3>2. QED
      BY <1>1, <1>5, <2>1, <2>2, <2>3, <3>1 DEF WriterSound
  <2>4. CASE v # w
    <3>1. HeadSound(v)' = HeadSound(v)
      BY <1>1, <1>2, <1>4, <2>4 DEF HeadSound
    <3>2. QED
      BY <1>1, <1>2, <2>1, <2>2, <2>4, <3>1 DEF WriterSound
  <2>5. QED
    BY <2>3, <2>4
<1>7. QED
  BY <1>3, <1>6 DEF ChainInv

\* Inserting a row.
LEMMA InsertInv ==
    ASSUME TypeOK, ChainInv, NEW w \in Writers, Insert(w)
    PROVE  ChainInv'
<1> DEFINE r == NewRow(w)
<1>1. /\ rows' = rows /\ call' = call /\ head' = head /\ done' = done /\ acked' = acked
      /\ ~ LockedByOther(w, r) /\ ~ KeyTaken(r) /\ ChecksHold(r) /\ phase[w] = "read"
  BY DEF Insert
<1>2. pending'[w] = pending[w] \union {r} /\ phase'[w] = "saved"
  BY DEF Insert, TypeOK
<1>3. \A v \in Writers \ {w} : phase'[v] = phase[v] /\ pending'[v] = pending[v]
  BY DEF Insert, TypeOK
<1>4. CommittedGood' /\ DoneRecorded' /\ AckedDurable'
  BY <1>1 DEF ChainInv, CommittedGood, DoneRecorded, AckedDurable, Recorded
<1>5. r \in Row /\ r.tenant = call[w].tenant /\ r.hash = RowHash(r)
  BY NewRowType DEF NewRow, RowHash
<1>6. Visible(w)' = Visible(w) \union {r}
  BY <1>1, <1>2, <1>5 DEF Visible, RowsOf
<1>7. \A v \in Writers \ {w} : Visible(v)' = Visible(v)
  BY <1>1, <1>3 DEF Visible
<1>8. VisibleGood'
  <2> SUFFICES ASSUME NEW v \in Writers
               PROVE  GoodChain(Visible(v)')
    BY DEF VisibleGood
  <2>1. CASE v = w
    <3>1. Visible(w) \subseteq Row /\ GoodChain(Visible(w))
      BY DEF TypeOK, Visible, RowsOf, ChainInv, VisibleGood
    <3>2. QED
      BY <1>1, <1>5, <1>6, <2>1, <3>1, InsertContinues, GoodExtend
  <2>2. CASE v # w
    BY <1>7, <2>2 DEF ChainInv, VisibleGood
  <2>3. QED
    BY <2>1, <2>2
<1>9. PendingSound'
  <2> SUFFICES ASSUME NEW v \in Writers
               PROVE  WriterSound(v)'
    BY DEF PendingSound, WriterSound
  <2>1. WriterSound(v)
    BY DEF ChainInv, PendingSound, WriterSound
  <2>2. \A q : KeyTaken(q)' = KeyTaken(q)
    BY <1>1 DEF KeyTaken
  <2>3. CASE v = w
    <3>1. \A q : LockedByOther(w, q)' = LockedByOther(w, q)
      BY <1>3 DEF LockedByOther
    <3>2. QED
      BY <1>1, <1>2, <1>5, <2>1, <2>2, <2>3, <3>1 DEF WriterSound
  <2>4. CASE v # w
    <3>1. HeadSound(v)' = HeadSound(v)
      BY <1>1, <1>3, <1>7, <2>4 DEF HeadSound
    <3>2. ASSUME NEW q \in pending[v]
          PROVE  ~ LockedByOther(v, q)'
      <4>1. ~ SameKey(q, r)
        BY <1>1, <2>4, <3>2 DEF LockedByOther, SameKey
      <4>2. ~ LockedByOther(v, q)
        BY <2>1, <3>2 DEF WriterSound
      <4>3. QED
        BY <1>2, <1>3, <4>1, <4>2 DEF LockedByOther
    <3>3. QED
      BY <1>1, <1>3, <2>1, <2>2, <2>4, <3>1, <3>2 DEF WriterSound
  <2>5. QED
    BY <2>3, <2>4
<1>10. QED
  BY <1>4, <1>8, <1>9 DEF ChainInv
\* Committing the rows of a transaction.
LEMMA CommitInv ==
    ASSUME TypeOK, ChainInv, NEW w \in Writers, Commit(w)
    PROVE  ChainInv'
<1>1. /\ rows' = rows \union pending[w] /\ call' = call /\ head' = head
      /\ acked' = acked
  BY DEF Commit
<1>2. /\ pending'[w] = {} /\ phase'[w] = "committed"
      /\ done'[w] = {r.event : r \in pending[w]}
  BY DEF Commit, TypeOK
<1>3. \A v \in Writers \ {w} : /\ phase'[v] = phase[v] /\ pending'[v] = pending[v]
                               /\ done'[v] = done[v]
  BY DEF Commit, TypeOK
<1>4. \A r \in pending[w] : r.tenant = call[w].tenant
  BY DEF ChainInv, PendingSound
<1>5. CommittedGood'
  <2> SUFFICES ASSUME NEW t \in Tenants
               PROVE  GoodChain(RowsOf(rows', t))
    BY DEF CommittedGood
  <2>1. CASE t = call[w].tenant
    <3>1. RowsOf(rows', t) = Visible(w)
      BY <1>1, <2>1 DEF Visible
    <3>2. QED
      BY <3>1 DEF ChainInv, VisibleGood
  <2>2. CASE t # call[w].tenant
    <3>1. RowsOf(rows', t) = RowsOf(rows, t)
      BY <1>1, <1>4, <2>2 DEF RowsOf
    <3>2. QED
      BY <3>1 DEF ChainInv, CommittedGood
  <2>3. QED
    BY <2>1, <2>2
<1>6. Recorded \subseteq Recorded' /\ {r.event : r \in pending[w]} \subseteq Recorded'
  BY <1>1 DEF Recorded
<1>7. DoneRecorded'
  <2> SUFFICES ASSUME NEW v \in Writers
               PROVE  done'[v] \subseteq Recorded'
    BY DEF DoneRecorded
  <2>1. QED
    BY <1>2, <1>3, <1>6 DEF ChainInv, DoneRecorded
<1>8. AckedDurable'
  BY <1>1, <1>6 DEF ChainInv, AckedDurable
<1>9. ASSUME NEW v \in Writers \ {w}
      PROVE  GoodChain(Visible(v)') /\ Visible(v) \subseteq Visible(v)'
  <2>1. Visible(v) \subseteq Visible(v)'
    BY <1>1, <1>3 DEF Visible, RowsOf
  <2>2. CASE call[v].tenant # call[w].tenant
    <3>1. Visible(v)' = Visible(v)
      BY <1>1, <1>3, <1>4, <2>2 DEF Visible, RowsOf
    <3>2. QED
      BY <2>1, <3>1 DEF ChainInv, VisibleGood
  <2>3. CASE call[v].tenant = call[w].tenant /\ pending[w] = {}
    <3>1. Visible(v)' = Visible(v)
      BY <1>1, <1>3, <2>3 DEF Visible, RowsOf
    <3>2. QED
      BY <2>1, <3>1 DEF ChainInv, VisibleGood
  <2>4. CASE call[v].tenant = call[w].tenant /\ pending[v] = {}
    <3>1. Visible(v)' = Visible(w)
      BY <1>1, <1>3, <2>4 DEF Visible, RowsOf
    <3>2. QED
      BY <2>1, <3>1 DEF ChainInv, VisibleGood
  <2>5. QED
    BY <2>2, <2>3, <2>4, PendingExclusive
<1>10. VisibleGood'
  <2> SUFFICES ASSUME NEW v \in Writers
               PROVE  GoodChain(Visible(v)')
    BY DEF VisibleGood
  <2>1. CASE v = w
    <3>1. Visible(w)' = Visible(w)
      BY <1>1, <1>2 DEF Visible, RowsOf
    <3>2. QED
      BY <2>1, <3>1 DEF ChainInv, VisibleGood
  <2>2. QED
    BY <1>9, <2>1
<1>11. PendingSound'
  <2> SUFFICES ASSUME NEW v \in Writers
               PROVE  WriterSound(v)'
    BY DEF PendingSound, WriterSound
  <2>1. WriterSound(v)
    BY DEF ChainInv, PendingSound, WriterSound
  <2>2. CASE v = w
    BY <1>2, <2>2 DEF WriterSound
  <2>3. CASE v # w
    <3>1. HeadSound(v) => HeadSound(v)'
      BY <1>1, <1>3, <1>9, <2>3 DEF HeadSound
    <3>2. \A q : LockedByOther(v, q)' => LockedByOther(v, q)
      BY <1>2, <1>3 DEF LockedByOther
    <3>3. ASSUME NEW q \in pending[v]
          PROVE  ~ KeyTaken(q)'
      <4>1. ~ KeyTaken(q) /\ ~ LockedByOther(v, q)
        BY <2>1, <3>3 DEF WriterSound
      <4>2. \A p \in pending[w] : ~ SameKey(q, p)
        BY <2>3, <4>1 DEF LockedByOther
      <4>3. QED
        BY <1>1, <4>1, <4>2 DEF KeyTaken
    <3>4. QED
      BY <1>1, <1>3, <2>1, <2>3, <3>1, <3>2, <3>3 DEF WriterSound
  <2>4. QED
    BY <2>2, <2>3
<1>12. QED
  BY <1>5, <1>7, <1>8, <1>10, <1>11 DEF ChainInv

\* The caller is answered.
LEMMA RespondInv ==
    ASSUME TypeOK, ChainInv, NEW w \in Writers, Respond(w)
    PROVE  ChainInv'
<1>1. /\ rows' = rows /\ call' = call /\ head' = head /\ pending' = pending
      /\ phase[w] = "committed" /\ acked' = acked \union done[w]
  BY DEF Respond
<1>2. \A v \in Writers \ {w} : phase'[v] = phase[v]
  BY DEF Respond, TypeOK
<1>3. \A v \in Writers : done'[v] \subseteq done[v]
  BY DEF Respond, TypeOK
<1>4. CommittedGood' /\ VisibleGood'
  BY <1>1 DEF ChainInv, CommittedGood, VisibleGood, Visible
<1>5. DoneRecorded' /\ AckedDurable'
  BY <1>1, <1>3 DEF ChainInv, DoneRecorded, AckedDurable, Recorded
<1>6. PendingSound'
  <2> SUFFICES ASSUME NEW v \in Writers
               PROVE  WriterSound(v)'
    BY DEF PendingSound, WriterSound
  <2>1. WriterSound(v)
    BY DEF ChainInv, PendingSound, WriterSound
  <2>2. /\ HeadSound(v)' = HeadSound(v)
        /\ \A r : KeyTaken(r)' = KeyTaken(r) /\ LockedByOther(v, r)' = LockedByOther(v, r)
    BY <1>1 DEF HeadSound, Visible, KeyTaken, LockedByOther
  <2>3. CASE v = w
    <3>1. pending[v] = {}
      BY <1>1, <2>1, <2>3 DEF WriterSound
    <3>2. phase'[v] = "idle"
      BY <2>3 DEF Respond, TypeOK
    <3>3. QED
      BY <1>1, <3>1, <3>2 DEF WriterSound
  <2>4. CASE v # w
    BY <1>1, <1>2, <2>1, <2>2, <2>4 DEF WriterSound
  <2>5. QED
    BY <2>3, <2>4
<1>7. QED
  BY <1>4, <1>5, <1>6 DEF ChainInv

\* The process dies.
LEMMA CrashInv ==
    ASSUME TypeOK, ChainInv, Crash
    PROVE  ChainInv'
<1>1. /\ rows' = rows /\ call' = call /\ acked' = acked
      /\ \A w \in Writers : phase'[w] = "idle" /\ pending'[w] = {} /\ done'[w] = {}
  BY DEF Crash
<1>2. CommittedGood' /\ DoneRecorded' /\ AckedDurable'
  BY <1>1 DEF ChainInv, CommittedGood, DoneRecorded, AckedDurable, Recorded
<1>3. VisibleGood'
  <2> SUFFICES ASSUME NEW w \in Writers
               PROVE  GoodChain(Visible(w)')
    BY DEF VisibleGood
  <2>1. Visible(w)' = RowsOf(rows, call[w].tenant)
    BY <1>1 DEF Visible, RowsOf
  <2>2. QED
    BY <2>1 DEF ChainInv, CommittedGood, TypeOK, Call
<1>4. PendingSound'
  BY <1>1 DEF PendingSound
<1>5. QED
  BY <1>2, <1>3, <1>4 DEF ChainInv

\* Every step keeps the invariant.
LEMMA ChainInvStep ==
    ASSUME TypeOK, ChainInv, [Next]_vars
    PROVE  ChainInv'
<1>1. ASSUME NEW w \in Writers, NEW t \in Tenants, NEW m \in Modes, NEW e \in Events,
             Begin(w, t, m, e)
      PROVE  ChainInv'
  <2>1. [mode |-> m, tenant |-> t, event |-> e] \in Call
    BY ModesAssumption DEF Call
  <2>2. pending[w] = {}
    BY <1>1 DEF Begin, ChainInv, PendingSound
  <2>3. QED
    BY <1>1, <2>1, <2>2, CallInv DEF Begin
<1>2. ASSUME NEW w \in Writers, NEW e \in Events, NextInBatch(w, e)
      PROVE  ChainInv'
  <2>1. [mode |-> "batch", tenant |-> call[w].tenant, event |-> e] \in Call
    BY DEF Call, TypeOK
  <2>2. QED
    BY <1>2, <2>1, CallInv DEF NextInBatch
<1>3. CASE UNCHANGED vars
  <2>1. UNCHANGED <<rows, phase, call, pending, head, done, acked>>
    BY <1>3 DEF vars, txn
  <2>2. QED
    BY <2>1 DEF ChainInv, CommittedGood, VisibleGood, Visible, PendingSound, HeadSound,
                KeyTaken, LockedByOther, DoneRecorded, AckedDurable, Recorded
<1>4. QED
  BY <1>1, <1>2, <1>3, ReadHeadInv, InsertInv, AbortInv, CommitInv, RespondInv, CrashInv
  DEF Next, Conflict, Rollback

\* ChainInv holds throughout, so no race, refusal, rollback or crash ever
\* leaves the committed rows of a tenant, or what a transaction sees of them,
\* with a gap, a fork or a broken link (appendEvent, the unique constraint).
THEOREM ChainInvariant == Spec => []ChainInv
<1>1. Init => ChainInv
  <2> SUFFICES ASSUME Init PROVE ChainInv
    OBVIOUS
  <2>1. \A t : RowsOf(rows, t) = {}
    BY DEF Init, RowsOf
  <2>2. \A w \in Writers : Visible(w) = {}
    BY DEF Init, Visible, RowsOf
  <2>3. GoodChain({})
    BY DEF GoodChain, Contiguous, KeysUnique, Linked
  <2>4. CommittedGood /\ VisibleGood
    BY <2>1, <2>2, <2>3 DEF CommittedGood, VisibleGood
  <2>5. PendingSound /\ DoneRecorded /\ AckedDurable
    BY DEF Init, PendingSound, DoneRecorded, AckedDurable
  <2>6. QED
    BY <2>4, <2>5 DEF ChainInv
<1>2. TypeOK /\ ChainInv /\ [Next]_vars => ChainInv'
  BY ChainInvStep
<1>3. QED
  BY <1>1, <1>2, TypeCorrect, PTL DEF Spec

\* An acknowledged append is in the committed chain for good.
THEOREM AcknowledgedIsRecorded == Spec => []AckedDurable
<1>1. ChainInv => AckedDurable
  BY DEF ChainInv
<1>2. QED
  BY <1>1, ChainInvariant, PTL

\* What a step tells subscribers is committed, or a batch still open says it.
LEMMA NotifiedStep ==
    ASSUME ChainInv, [Next]_vars, NEW e \in notified' \ notified
    PROVE  \/ e \in Recorded'
           \/ \E w \in Writers : call[w].mode = "batch" /\ call[w].event = e
<1>1. ASSUME NEW w \in Writers, Insert(w)
      PROVE  call[w].mode = "batch" /\ call[w].event = e
  BY <1>1 DEF Insert
<1>2. ASSUME NEW w \in Writers, Respond(w)
      PROVE  e \in Recorded'
  <2>1. e \in done[w] /\ rows' = rows
    BY <1>2 DEF Respond
  <2>2. QED
    BY <2>1 DEF ChainInv, DoneRecorded, Recorded
<1>3. ASSUME notified' = notified
      PROVE  FALSE
  BY <1>3
<1>4. QED
  BY <1>1, <1>2, <1>3 DEF Next, Begin, ReadHead, Conflict, Abort, NextInBatch, Commit, Rollback,
     Crash, vars

\* Emission after durable persistence, and its exception: a subscriber is told of
\* an event only when it is committed, or by an append in its caller's transaction.
THEOREM NotifiedIsRecorded == Spec => NotifiedDurable
<1>1. ChainInv /\ [Next]_vars =>
        [\A e \in notified' \ notified :
            \/ e \in Recorded'
            \/ \E w \in Writers : call[w].mode = "batch" /\ call[w].event = e]_vars
  BY NotifiedStep
<1>2. QED
  BY <1>1, ChainInvariant, PTL DEF Spec, NotifiedDurable

-----------------------------------------------------------------------------
(***************************************************************************)
(* verifyChain accepts a good chain                                        *)
(***************************************************************************)

\* In a good chain a row is read at the place its sequence number names.
LEMMA GoodPlace ==
    ASSUME NEW rs, rs \subseteq Row, GoodChain(rs), NEW r \in rs
    PROVE  ExpectedSequence(rs, r) = r.seq
<1> DEFINE S == Below(rs, r)
           T == 1..(r.seq - 1)
           f == [q \in S |-> q.seq]
<1>1. r.seq \in Nat \ {0} /\ \A q \in rs : q.seq \in Nat \ {0}
  BY DEF Row
<1>2. f \in [S -> T]
  BY <1>1 DEF Below
<1>3. \A p, q \in S : f[p] = f[q] => p = q
  BY DEF Below, GoodChain, KeysUnique
<1>4. \A k \in T : \E q \in S : f[q] = k
  <2> SUFFICES ASSUME NEW k \in T PROVE \E q \in S : q.seq = k
    OBVIOUS
  <2>1. k \in 1..r.seq /\ k < r.seq
    BY <1>1
  <2>2. PICK q \in rs : q.seq = k
    BY <2>1, GoodDown
  <2>3. QED
    BY <2>1, <2>2 DEF Below
<1>5. f \in Bijection(S, T)
  BY <1>2, <1>3, <1>4 DEF Bijection, Injection, Surjection, IsInjective
<1>6. ExistsBijection(T, S)
  BY <1>5, Fun_ExistsBijSymmetric DEF ExistsBijection
<1>7. IsFiniteSet(T) /\ Cardinality(T) = r.seq - 1
  <2>1. r.seq - 1 \in Int /\ 1 \in Int
    BY <1>1
  <2>2. /\ IsFiniteSet(T)
        /\ Cardinality(T) = IF 1 > r.seq - 1 THEN 0 ELSE (r.seq - 1) - 1 + 1
    BY <2>1, FS_Interval
  <2>3. QED
    BY <1>1, <2>2
<1>8. Cardinality(S) = r.seq - 1
  BY <1>6, <1>7, FS_Bijection
<1>9. QED
  BY <1>1, <1>8 DEF ExpectedSequence

\* No row of a good chain is a failure.
LEMMA GoodVerifies ==
    ASSUME NEW rs, rs \subseteq Row, GoodChain(rs)
    PROVE  ChainValid(rs)
<1> SUFFICES ASSUME NEW r \in rs
             PROVE  /\ ~ SequenceFailure(rs, r) /\ ~ FirstFailure(r)
                    /\ ~ LinkFailure(rs, r) /\ ~ HashFailure(r)
  BY DEF ChainValid, Failures
<1>1. ~ SequenceFailure(rs, r)
  BY GoodPlace DEF SequenceFailure
<1>2. ~ FirstFailure(r) /\ ~ HashFailure(r)
  BY DEF GoodChain, Linked, FirstFailure, HashFailure
<1>3. ~ LinkFailure(rs, r)
  <2> SUFFICES ASSUME r.seq > 1
               PROVE  \E q \in ReadBefore(rs, r) : r.prev = q.hash
    BY DEF LinkFailure
  <2>1. PICK q \in rs : q.seq = r.seq - 1 /\ r.prev = q.hash
    BY DEF GoodChain, Linked
  <2>2. \A p \in rs : p.seq \in Nat
    BY DEF Row
  <2>3. q \in ReadBefore(rs, r)
    BY <2>1, <2>2 DEF ReadBefore, Below
  <2>4. QED
    BY <2>1, <2>3
<1>4. QED
  BY <1>1, <1>2, <1>3

\* verifyChain reports no failure for any tenant, in any state the system can
\* reach.
THEOREM ChainAlwaysVerifies == Spec => []ChainVerifies
<1>1. TypeOK /\ ChainInv => ChainVerifies
  <2> SUFFICES ASSUME TypeOK, ChainInv, NEW t \in Tenants
               PROVE  ChainValid(RowsOf(rows, t))
    BY DEF ChainVerifies
  <2>1. RowsOf(rows, t) \subseteq Row /\ GoodChain(RowsOf(rows, t))
    BY DEF TypeOK, RowsOf, ChainInv, CommittedGood
  <2>2. QED
    BY <2>1, GoodVerifies
<1>2. QED
  BY <1>1, TypeCorrect, ChainInvariant, PTL
-----------------------------------------------------------------------------
(***************************************************************************)
(* The chain implements the log                                            *)
(***************************************************************************)

\* A good chain numbered 1..n has height n and is the sequence of its events.
LEMMA LogOfGood ==
    ASSUME NEW rs, rs \subseteq Row, GoodChain(rs)
    PROVE  /\ Height(rs) \in Nat
           /\ {r.seq : r \in rs} = 1..Height(rs)
           /\ \A r \in rs : EventAt(rs, r.seq) = r.event
           /\ LogOf(rs) \in Seq(Events)
           /\ Len(LogOf(rs)) = Height(rs)
<1>1. Height(rs) \in Nat /\ {r.seq : r \in rs} = 1..Height(rs)
  <2>1. CASE rs = {}
    <3>1. Height(rs) = 0 /\ {r.seq : r \in rs} = 1..0
      BY <2>1 DEF Height
    <3>2. QED
      BY <3>1
  <2>2. CASE rs # {}
    <3>1. PICK g \in rs : {r.seq : r \in rs} = 1..g.seq
      BY <2>2 DEF GoodChain, Contiguous
    <3>2. \A q \in rs : q.seq \in Nat \ {0} /\ q.seq <= g.seq
      <4>1. \A q \in rs : q.seq \in 1..g.seq
        BY <3>1
      <4>2. QED
        BY <4>1 DEF Row
    <3>3. \E h \in rs : \A q \in rs : q.seq <= h.seq
      BY <3>2
    <3>4. PICK h \in rs : Height(rs) = h.seq /\ \A q \in rs : q.seq <= h.seq
      BY <2>2, <3>3 DEF Height
    <3>5. h.seq = g.seq
      BY <3>2, <3>4
    <3>6. QED
      BY <3>1, <3>2, <3>4, <3>5
  <2>3. QED
    BY <2>1, <2>2
<1>2. ASSUME NEW r \in rs
      PROVE  EventAt(rs, r.seq) = r.event
  <2>1. (CHOOSE q \in rs : q.seq = r.seq) = r
    BY DEF GoodChain, KeysUnique
  <2>2. QED
    BY <2>1 DEF EventAt
<1>3. ASSUME NEW i \in 1..Height(rs)
      PROVE  EventAt(rs, i) \in Events
  <2>1. PICK r \in rs : r.seq = i
    BY <1>1
  <2>2. QED
    BY <1>2, <2>1 DEF Row
<1>4. LogOf(rs) \in [1..Height(rs) -> Events]
  BY <1>3 DEF LogOf
<1>5. LogOf(rs) \in Seq(Events) /\ Len(LogOf(rs)) = Height(rs)
  BY <1>1, <1>4
<1>6. QED
  BY <1>1, <1>2, <1>5

\* The log of a good chain that contains another as a proper part extends its log.
LEMMA LogExtends ==
    ASSUME NEW A, NEW B, A \subseteq B, A # B, A \subseteq Row, B \subseteq Row,
           GoodChain(A), GoodChain(B)
    PROVE  Log!Extends(LogOf(B), LogOf(A))
<1> DEFINE n == Height(A)
           m == Height(B)
<1>1. /\ n \in Nat /\ {r.seq : r \in A} = 1..n
      /\ m \in Nat /\ {r.seq : r \in B} = 1..m
      /\ Len(LogOf(A)) = n /\ Len(LogOf(B)) = m
  BY LogOfGood
<1>2. n < m
  <2>1. PICK p \in B : p \notin A
    OBVIOUS
  <2>2. \A q \in A : q.seq # p.seq
    BY <2>1 DEF GoodChain, KeysUnique
  <2>3. p.seq \in 1..m /\ p.seq \notin 1..n
    <3>1. p.seq \in {r.seq : r \in B} /\ p.seq \notin {r.seq : r \in A}
      BY <2>2
    <3>2. QED
      BY <1>1, <3>1
  <2>4. QED
    BY <1>1, <2>3
<1>3. ASSUME NEW i \in 1..n
      PROVE  LogOf(B)[i] = LogOf(A)[i]
  <2>1. PICK r \in A : r.seq = i
    BY <1>1
  <2>2. r \in B /\ i \in 1..m
    BY <1>1, <1>2, <2>1
  <2>3. EventAt(A, i) = r.event
    BY <2>1, LogOfGood
  <2>4. EventAt(B, i) = r.event
    BY <2>1, <2>2, LogOfGood
  <2>5. QED
    BY <2>2, <2>3, <2>4 DEF LogOf
<1>4. QED
  BY <1>1, <1>2, <1>3 DEF Log!Extends

\* The log of each tenant, as the abstract specification sees it.
TheLog == [t \in Tenants |-> LogOf(RowsOf(rows, t))]

\* Only a commit moves the logs, and it extends the log of one tenant.
LEMMA LogStep ==
    ASSUME TypeOK, ChainInv, TypeOK', ChainInv', [Next]_vars
    PROVE  [Log!LogNext]_TheLog
<1>1. CASE rows' = rows
  BY <1>1 DEF TheLog
<1>2. ASSUME NEW w \in Writers, Commit(w), rows' # rows
      PROVE  Log!LogNext
  <2> DEFINE t == call[w].tenant
             A == RowsOf(rows, t)
             B == RowsOf(rows', t)
  <2>1. t \in Tenants /\ rows' = rows \union pending[w]
    BY <1>2 DEF TypeOK, Call, Commit
  <2>2. \A r \in pending[w] : r.tenant = t
    BY DEF ChainInv, PendingSound
  <2>3. /\ A \subseteq Row /\ GoodChain(A)
        /\ B \subseteq Row /\ GoodChain(B)
    BY <2>1 DEF TypeOK, RowsOf, ChainInv, CommittedGood
  <2>4. A \subseteq B /\ A # B
    BY <1>2, <2>1, <2>2 DEF RowsOf
  <2>5. Log!Extends(LogOf(B), LogOf(A))
    BY <2>3, <2>4, LogExtends
  <2>6. \A u \in Tenants \ {t} : RowsOf(rows', u) = RowsOf(rows, u)
    BY <2>1, <2>2 DEF RowsOf
  <2>7. \A u \in Tenants : LogOf(RowsOf(rows', u)) \in Seq(Events)
    <3> SUFFICES ASSUME NEW u \in Tenants PROVE LogOf(RowsOf(rows', u)) \in Seq(Events)
      OBVIOUS
    <3>1. RowsOf(rows', u) \subseteq Row /\ GoodChain(RowsOf(rows', u))
      BY DEF TypeOK, RowsOf, ChainInv, CommittedGood
    <3>2. QED
      BY <3>1, LogOfGood
  <2>8. Log!LogAppend(t)
    BY <2>1, <2>5, <2>6, <2>7 DEF Log!LogAppend
  <2>9. QED
    BY <2>1, <2>8 DEF Log!LogNext
<1>3. CASE UNCHANGED vars
  BY <1>1, <1>3 DEF vars
<1>4. QED
  BY <1>1, <1>2, <1>3 DEF Next, Begin, ReadHead, Insert, Conflict, NextInBatch, Respond,
     Rollback, Abort, Crash

\* appendEvent on ledger_events implements a per-tenant append-only log: what
\* is committed is never taken back, moved or replaced, and what a refused or
\* rolled back transaction wrote never shows.
THEOREM ChainImplementsLog == Spec => ImplementsLog
<1>1. Init => Log!LogInit
  <2> SUFFICES ASSUME Init, NEW t \in Tenants
               PROVE  LogOf(RowsOf(rows, t)) = << >>
    BY DEF Log!LogInit
  <2>1. RowsOf(rows, t) = {}
    BY DEF Init, RowsOf
  <2>2. LogOf({}) = << >>
    <3>1. Height({}) = 0
      BY DEF Height
    <3>2. QED
      BY <3>1 DEF LogOf
  <2>3. QED
    BY <2>1, <2>2
<1>2. TypeOK /\ ChainInv /\ TypeOK' /\ ChainInv' /\ [Next]_vars => [Log!LogNext]_TheLog
  BY LogStep
<1>3. QED
  BY <1>1, <1>2, TypeCorrect, ChainInvariant, PTL DEF Spec, ImplementsLog, Log!LogSpec, TheLog
=============================================================================
