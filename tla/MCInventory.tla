----------------------------- MODULE MCInventory -----------------------------
(***************************************************************************)
(* Inventory for TLC: the requests that are made.                          *)
(***************************************************************************)
EXTENDS Inventory, TLC

CONSTANTS dock, shelf, crate, tool

Ask(op, i, n, to, timed) == [op |-> op, item |-> i, n |-> n, to |-> to, timed |-> timed]

\* Every operation on one item, and on another what a sweep needs to find both.
AllJobs ==
    {Ask("add", crate, 1, "-", FALSE),
     Ask("reserve", crate, 1, "-", TRUE), Ask("reserve", crate, 2, "-", FALSE),
     Ask("release", crate, 0, "-", FALSE), Ask("sweep", crate, 0, "-", FALSE),
     Ask("move", crate, 0, shelf, FALSE), Ask("adjust", crate, 1, "-", FALSE),
     Ask("status", crate, 0, "damaged", FALSE), Ask("remove", crate, 0, "-", FALSE),
     Ask("scan", crate, 0, "-", FALSE), Ask("scan", crate, 0, shelf, FALSE),
     Ask("reserve", tool, 1, "-", TRUE), Ask("detect", crate, 0, "-", FALSE)}

Symmetry == Permutations(Requests)
=============================================================================
