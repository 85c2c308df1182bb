-------------------------- MODULE MCDeviceRegistry --------------------------
(***************************************************************************)
(* DeviceRegistry for TLC: two requests that take any number of calls one  *)
(* after the other, to a device and to a second one of the same name.      *)
(***************************************************************************)
EXTENDS DeviceRegistry, TLC

CONSTANTS d1, d2, scanner

Calls ==
    [op : {"register"}, dev : {d1, d2}, arg : {scanner}] \union
    [op : {"status"}, dev : {d1}, arg : Statuses] \union
    [op : {"heartbeat"}, dev : {d1}, arg : {"online", "degraded"}]

Symmetry == Permutations(Requests)
=============================================================================
