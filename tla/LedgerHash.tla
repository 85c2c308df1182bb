----------------------------- MODULE LedgerHash -----------------------------
(***************************************************************************)
(* The hash chain of ledger_events: what a row commits to                  *)
(* (LedgerEventsService.computeEventHash) and what the audit of a tenant's *)
(* chain reports (LedgerEventsService.verifyChain).                        *)
(*                                                                         *)
(* SHA-256 is taken to be collision free, so a hash is represented by what *)
(* it commits to.  computeEventHash covers the previous hash together with *)
(* the row's own fields, hence a hash is the list of the fields of every   *)
(* row from the first one up to the row that carries it; a null            *)
(* previous_hash is the empty list.  `event' stands for the fields an      *)
(* append receives (type, actor, subject, payload hash, result and         *)
(* timestamp).                                                             *)
(***************************************************************************)
EXTENDS Integers, Sequences, FiniteSets

CONSTANTS Tenants, Events

Link == Tenants \X Events \X (Nat \ {0})

Hash == Seq(Link)

NoHash == << >>

Row == [tenant : Tenants, event : Events, seq : Nat \ {0},
        prev : Hash, hash : Hash]

HashOf(prev, tenant, event, seq) == Append(prev, <<tenant, event, seq>>)

RowHash(r) == HashOf(r.prev, r.tenant, r.event, r.seq)

RowsOf(rs, t) == {r \in rs : r.tenant = t}

(***************************************************************************)
(* verifyChain reads a tenant's rows in the order of chain_sequence and    *)
(* walks them with expectedSequence = 1, 2, ... and previousHash = the     *)
(* stored hash of the row before.  Below a row r of rs: its place in that  *)
(* order, and the row read just before it.                                 *)
(***************************************************************************)
Below(rs, r) == {q \in rs : q.seq < r.seq}

ExpectedSequence(rs, r) == Cardinality(Below(rs, r)) + 1

ReadBefore(rs, r) == {q \in Below(rs, r) : \A p \in Below(rs, r) : p.seq <= q.seq}

SequenceFailure(rs, r) == r.seq # ExpectedSequence(rs, r)

FirstFailure(r) == r.seq = 1 /\ r.prev # NoHash

LinkFailure(rs, r) == r.seq > 1 /\ ~ \E q \in ReadBefore(rs, r) : r.prev = q.hash

HashFailure(r) == r.hash # RowHash(r)

\* The rows verifyChain names in `failures'; the chain is valid if there are none.
Failures(rs) ==
    {r \in rs : \/ SequenceFailure(rs, r)
                \/ FirstFailure(r)
                \/ LinkFailure(rs, r)
                \/ HashFailure(r)}

ChainValid(rs) == Failures(rs) = {}
=============================================================================
