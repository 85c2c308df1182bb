------------------------------ MODULE LedgerLog ------------------------------
(***************************************************************************)
(* What the ledger promises to the rest of the system: for each tenant one *)
(* log of events, to which a step adds one or more new events at the end   *)
(* and from which nothing is ever taken, moved or replaced.  A transaction *)
(* that is refused or rolled back leaves the log as it was.                *)
(***************************************************************************)
EXTENDS Integers, Sequences

CONSTANTS Tenants, Events

VARIABLE log

LogTypeOK == log \in [Tenants -> Seq(Events)]

LogInit == log = [t \in Tenants |-> << >>]

Extends(new, old) ==
    /\ Len(new) > Len(old)
    /\ \A i \in 1..Len(old) : new[i] = old[i]

LogAppend(t) ==
    /\ log' \in [Tenants -> Seq(Events)]
    /\ Extends(log'[t], log[t])
    /\ \A u \in Tenants \ {t} : log'[u] = log[u]

LogNext == \E t \in Tenants : LogAppend(t)

LogSpec == LogInit /\ [][LogNext]_log
=============================================================================
