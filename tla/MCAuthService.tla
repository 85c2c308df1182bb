--------------------------- MODULE MCAuthService ---------------------------
(***************************************************************************)
(* AuthService for TLC: one session and one service token.                 *)
(***************************************************************************)
EXTENDS AuthService, TLC

CONSTANTS web, key

First == [session |-> web, n |-> 1]
Second == [session |-> web, n |-> 2]

Ask(op, a, p) == [op |-> op, access |-> a, refresh |-> p, key |-> key]

\* Logouts with the tokens of the first pair, the second, or one of each.
AllJobs ==
    {Ask(op, First, First) : op \in Ops}
        \union {Ask("logout", Second, Second), Ask("logout", First, Second), Ask("use", Second, First)}

Symmetry == Permutations(Requests)
=============================================================================
