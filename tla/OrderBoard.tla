----------------------------- MODULE OrderBoard -----------------------------
(***************************************************************************)
(* The order pages of one browser tab and what keeps them up to date:      *)
(* OrderListComponent and OrderDetailComponent, OrderRealtimeService,      *)
(* OrdersGateway, and the controller that answers the pages' calls.  Other *)
(* users create and change orders meanwhile.  The user is signed in and    *)
(* has orders.read and orders.status.write.                                *)
(***************************************************************************)
EXTENDS Naturals, FiniteSets, Sequences, SequencesExt, Functions

CONSTANTS
    MaxOrders,      \* bound: orders of the tenant, numbered as they are created
    PageSize,       \* orders on a page of the list (5)
    MaxConns,       \* bound: connections the tab's sockets make
    MaxCalls,       \* bound: HTTP calls of the page under way at a time
    Filters,        \* the status filters that are used
    MaxWork         \* bound: the ranks of all orders together

ASSUME BoardAssumption ==
    /\ MaxOrders \in Nat \ {0} /\ PageSize \in Nat \ {0} /\ MaxConns \in Nat \ {0}
    /\ MaxCalls \in Nat \ {0}

ASSUME WorkAssumption == MaxWork \in Nat

ASSUME FiltersAssumption ==
    Filters \subseteq {"any", "pending", "confirmed", "cancelled"}

VARIABLES
    rows,           \* orders: the status of each, "none" while it does not exist
    unsent,         \* orders saved whose event is not in the ledger yet
    sockets,        \* sockets[c]: how far handleConnection is with connection c
    alive,          \* connections whose socket is connected, for the server
    registered,     \* sockets in connectedClients; the connected ones are in the room
    page,           \* the page the tab shows
    sock, link,     \* the connection of its socket, and what the tab knows of it
    updates,        \* order.updated events under way
    requests,       \* HTTP calls under way, the oldest first
    loading,
    lines, total, pg, form,     \* the list page: rows, total, page, status filter
    order,          \* the detail page: the status it shows of its order
    late            \* history: orders on the page whose last news has not reached it, or
                    \* was followed by something older

table == <<rows, unsent>>
gateway == <<sockets, alive, registered>>
socket == <<sock, link, updates>>
list == <<lines, total, pg, form>>

boardVars == <<table, gateway, page, socket, requests, loading, list, order, late>>

Orders == 1..MaxOrders
Conns == 1..MaxConns

\* The status machine in short: pending, a later status that may still be
\* cancelled, a final one.
Statuses == {"pending", "confirmed", "cancelled"}

Rank(s) == CASE s = "none" -> 0 [] s = "pending" -> 1 [] s = "confirmed" -> 2 [] s = "cancelled" -> 3

MayBecome(s, t) == s # "none" /\ Rank(s) < Rank(t)

Work(r) == FoldFunction(+, 0, [o \in Orders |-> Rank(r[o])])

\* The order the detail page is about.
Mine == 1

Line == [o : Orders, s : Statuses]

\* want: a status, as the list's filter ("any" for none) or as the one to set;
\* arg: a page; rows, total, st: the answer.
Call == [kind |-> "list", phase |-> "asked", want |-> "any", arg |-> 0,
         rows |-> <<>>, total |-> 0, st |-> "none"]

Calls == [kind : {"list", "detail", "set"}, phase : {"asked", "saved", "answered", "refused"},
          want : Statuses \union {"any"}, arg : Nat,
          rows : Seq(Line), total : Nat, st : Statuses \union {"none"}]

BoardTypeOK ==
    /\ rows \in [Orders -> Statuses \union {"none"}]
    /\ unsent \subseteq Line
    /\ sockets \in [Conns -> {"unused", "verify", "done"}]
    /\ alive \subseteq Conns /\ registered \subseteq Conns
    /\ page \in {"none", "list", "detail"}
    /\ sock \in Conns \union {0}
    /\ link \in {"none", "open", "lost", "closed"}
    /\ link = "none" <=> page = "none"
    /\ updates \in Seq(Line)
    /\ requests \in Seq(Calls) /\ Len(requests) <= MaxCalls
    /\ loading \in BOOLEAN
    /\ lines \in Seq(Line) /\ Len(lines) <= PageSize
    /\ total \in Nat /\ pg \in Nat \ {0} /\ form \in Statuses \union {"any"}
    /\ order \in Statuses \union {"none"} /\ late \subseteq Orders

BoardInit ==
    /\ rows = [o \in Orders |-> IF o = Mine THEN "pending" ELSE "none"]
    /\ unsent = {}
    /\ sockets = [c \in Conns |-> "unused"]
    /\ alive = {} /\ registered = {}
    /\ page = "none" /\ sock = 0 /\ link = "none" /\ updates = <<>>
    /\ requests = <<>> /\ loading = FALSE
    /\ lines = <<>> /\ total = 0 /\ pg = 1 /\ form = "any"
    /\ order = "none" /\ late = {}

-----------------------------------------------------------------------------
(***************************************************************************)
(* The gateway.                                                            *)
(***************************************************************************)
Unused == {c \in Conns : sockets[c] = "unused"}

\* The tab's socket makes a connection; handleConnection starts to verify the
\* token, and the tab is told `connect' without waiting for that.
SocketOpened(c) ==
    /\ c \in Unused /\ \A d \in Unused : c <= d
    /\ sockets' = [sockets EXCEPT ![c] = "verify"]
    /\ alive' = alive \union {c}
    /\ sock' = c /\ link' = "open" /\ updates' = <<>>
    /\ UNCHANGED registered

\* verifyAsync and isJtiBlacklisted accept the token: the socket joins its room
\* and is entered in the map, whether or not it is still connected.
SocketAccepted(c) ==
    /\ sockets[c] = "verify"
    /\ sockets' = [sockets EXCEPT ![c] = "done"]
    /\ registered' = registered \union {c}
    /\ UNCHANGED <<table, alive, page, socket, requests, loading, list, order, late>>

\* The server closes socket c: a socket that is connected leaves its room and
\* the map, and its tab does not connect again by itself.
Close(c) ==
    /\ alive' = alive \ {c}
    /\ link' = IF c = sock /\ c \in alive /\ link = "open" THEN "closed" ELSE link

Rejected(c) ==
    /\ sockets[c] = "verify"
    /\ sockets' = [sockets EXCEPT ![c] = "done"]
    /\ Close(c)
    /\ UNCHANGED <<table, registered, page, sock, updates, requests, loading, list, order, late>>

\* The connection of c has ended and the server notices: handleDisconnect.
Disconnected(c) ==
    /\ c \in alive /\ ~(c = sock /\ link = "open")
    /\ alive' = alive \ {c}
    /\ registered' = registered \ {c}
    /\ UNCHANGED <<table, sockets, page, socket, requests, loading, list, order, late>>

PingTimeout_OnlyCloses(c) ==  \* mutation: the entry is left to handleDisconnect
    /\ c \in registered
    /\ registered' = IF c \in alive THEN registered \ {c} ELSE registered
    /\ Close(c)
    /\ UNCHANGED <<table, sockets, page, sock, updates, requests, loading, list, order, late>>

\* sendHeartbeat, every 30 seconds, pings every socket of the map.  No answer within
\* 5 seconds, or a wrong one: the entry is deleted and the socket closed.
PingTimeout(c) ==
    /\ c \in registered
    /\ registered' = registered \ {c}
    /\ Close(c)
    /\ UNCHANGED <<table, sockets, page, sock, updates, requests, loading, list, order, late>>

Subjects(m) == {m[i].o : i \in 1..Len(m)}

\* An event of order o is still to come, m being the events under way.
Coming(o, m) == o \in Subjects(m) \/ \E u \in unsent : u.o = o

\* What a list says of order o.
Given(rs, o) ==
    IF \E i \in 1..Len(rs) : rs[i].o = o
    THEN rs[CHOOSE i \in 1..Len(rs) : rs[i].o = o].s
    ELSE "none"

\* `late' when the orders S have news that will not come; once the page was told s
\* of order o, and there is more to come.
OnPage(o) ==
    \/ page = "list" /\ Given(lines, o) # "none"
    \/ page = "detail" /\ o = Mine /\ order # "none"

Missed(S) == late \union {o \in S : OnPage(o)}

After(o, s, more) == IF s = rows[o] \/ more THEN late \ {o} ELSE late \union {o}

\* The connection is lost without a word to either side; the tab notices.
SocketLost ==
    /\ link = "open"
    /\ link' = "lost" /\ updates' = <<>>
    /\ late' = Missed(Subjects(updates))
    /\ UNCHANGED <<table, gateway, page, sock, requests, loading, list, order>>

\* socket.io connects again by itself, unless the server has closed the socket.
Reconnect(c) ==
    /\ link = "lost"
    /\ SocketOpened(c)
    /\ UNCHANGED <<table, page, requests, loading, list, order, late>>

-----------------------------------------------------------------------------
(***************************************************************************)
(* The server: other users' requests, and the page's calls.                *)
(***************************************************************************)
Changed(o, s) ==
    /\ rows' = [rows EXCEPT ![o] = s]
    /\ Work(rows') <= MaxWork
    /\ unsent' = unsent \union {[o |-> o, s |-> s]}

\* Somebody creates the next order.
Create(o) ==
    /\ rows[o] = "none" /\ rows[o - 1] # "none"
    /\ Changed(o, "pending")
    /\ UNCHANGED <<gateway, page, socket, requests, loading, list, order, late>>

\* Somebody changes the status of an order.
Change(o, s) ==
    /\ MayBecome(rows[o], s)
    /\ Changed(o, s)
    /\ UNCHANGED <<gateway, page, socket, requests, loading, list, order, late>>

\* updateStatus and cancelOrder, up to the save.
Set(k) ==
    /\ requests[k].kind = "set" /\ requests[k].phase = "asked"
    /\ IF MayBecome(rows[Mine], requests[k].want)
       THEN /\ Changed(Mine, requests[k].want)
            /\ requests' = [requests EXCEPT ![k].phase = "saved"]
       ELSE /\ requests' = [requests EXCEPT ![k].phase = "refused"]
            /\ UNCHANGED table
    /\ UNCHANGED <<gateway, page, socket, loading, list, order, late>>

\* The call that made u, if the page did, gets its answer.
Replied(u, phase) ==
    LET made(c) == c.kind = "set" /\ c.phase = "saved" /\ u = [o |-> Mine, s |-> c.want]
    IN [k \in 1..Len(requests) |-> IF made(requests[k])
                                   THEN [requests[k] EXCEPT !.phase = phase]
                                   ELSE requests[k]]

\* The event is appended and emitted to the room; then the request is answered.
Emit(u) ==
    /\ u \in unsent
    /\ unsent' = unsent \ {u}
    /\ requests' = Replied(u, "answered")
    /\ IF sock \in registered \intersect alive /\ link = "open"
       THEN /\ updates' = Append(updates, [o |-> u.o, s |-> u.s])
            /\ UNCHANGED late
       ELSE /\ late' = Missed({u.o})
            /\ UNCHANGED updates
    /\ UNCHANGED <<rows, gateway, page, sock, link, loading, list, order>>

\* The append fails: nothing is emitted and the request fails, the row stays.
Unrecorded(u) ==
    /\ u \in unsent
    /\ unsent' = unsent \ {u}
    /\ requests' = Replied(u, "refused")
    /\ late' = Missed({u.o})
    /\ UNCHANGED <<rows, gateway, page, socket, loading, list, order>>

Matches(f, s) == f = "any" \/ f = s

\* The n-th of the numbers in A.
Ranked(A, n) == CHOOSE i \in A : Cardinality({j \in A : j <= i}) = n

\* The elements of s that are in K, in their order.
Filter(s, K) ==
    LET at == {i \in 1..Len(s) : s[i] \in K}
    IN [n \in 1..Cardinality(at) |-> s[Ranked(at, n)]]

\* findOrders: the orders with status f, the latest first.
Found(f) ==
    LET latestFirst == [i \in Orders |-> LET o == MaxOrders + 1 - i IN [o |-> o, s |-> rows[o]]]
    IN Filter(latestFirst, {line \in Line : Matches(f, line.s)})

\* Page p of the sequence s.
Slice(s, p) ==
    LET first == (p - 1) * PageSize
        size == IF Len(s) <= first THEN 0
                ELSE IF Len(s) - first < PageSize THEN Len(s) - first ELSE PageSize
    IN [i \in 1..size |-> s[first + i]]

\* GET orders: a page of the list and how many there are.
List(k) ==
    /\ requests[k].kind = "list" /\ requests[k].phase = "asked"
    /\ LET found == Found(requests[k].want)
       IN requests' = [requests EXCEPT ![k].phase = "answered", ![k].want = "any",
                                    ![k].total = Len(found),
                                    ![k].rows = Slice(found, requests[k].arg)]
    /\ UNCHANGED <<table, gateway, page, socket, loading, list, order, late>>

\* GET orders/:id: what it says is as old as this.
Get(k) ==
    /\ requests[k].kind = "detail" /\ requests[k].phase = "asked"
    /\ requests' = [requests EXCEPT ![k].phase = "answered", ![k].st = rows[Mine]]
    /\ UNCHANGED <<table, gateway, page, socket, loading, list, order, late>>

-----------------------------------------------------------------------------
(***************************************************************************)
(* The pages.                                                              *)
(***************************************************************************)
CanAsk == Len(requests) < MaxCalls

\* The calls c and one more.
Asked(c, kind, arg, want) ==
    Append(c, [Call EXCEPT !.kind = kind, !.arg = arg, !.want = want])

Without(k) == RemoveAt(requests, k)

\* loadOrders; load of the detail page.
LoadOrders(c, p) == requests' = Asked(c, "list", p, form) /\ loading' = TRUE

LoadDetail(c) == requests' = Asked(c, "detail", 0, "any") /\ loading' = TRUE

\* ngOnInit: the page connects and loads.
OpenPage(c, p) ==
    /\ page = "none" /\ page' = p
    /\ Unused = Conns
    /\ SocketOpened(c)
    /\ IF p = "list" THEN LoadOrders(requests, 1) ELSE LoadDetail(requests)
    /\ UNCHANGED <<table, list, order, late>>

\* ngOnDestroy: the socket is closed, calls and subscriptions are dropped.
ClosePage ==
    /\ page # "none" /\ page' = "none"
    /\ sock' = 0 /\ link' = "none" /\ updates' = <<>>
    /\ requests' = <<>> /\ loading' = FALSE
    /\ lines' = <<>> /\ total' = 0 /\ pg' = 1 /\ form' = "any"
    /\ order' = "none" /\ late' = {}
    /\ UNCHANGED <<table, gateway>>

EditFilter(f) ==
    /\ page = "list" /\ form' = f
    /\ UNCHANGED <<table, gateway, page, socket, requests, loading, lines, total, pg, order, late>>

TotalPages == IF total = 0 THEN 1 ELSE (total + PageSize - 1) \div PageSize

\* applyFilters (its button is off while the list loads), previousPage, nextPage.
Browse(p) ==
    /\ page = "list" /\ CanAsk
    /\ \/ p = 1 /\ ~loading
       \/ p = pg - 1 /\ p >= 1
       \/ p = pg + 1 /\ p <= TotalPages
    /\ LoadOrders(requests, p)
    /\ UNCHANGED <<table, gateway, page, socket, list, order, late>>

ListAnswered(k) ==
    /\ requests[k].kind = "list" /\ requests[k].phase = "answered"
    /\ lines' = requests[k].rows /\ total' = requests[k].total /\ pg' = requests[k].arg
    /\ loading' = FALSE /\ requests' = Without(k)
    /\ late' = {o \in Orders : /\ Given(requests[k].rows, o) \notin {"none", rows[o]}
                               /\ ~Coming(o, updates)}
    /\ UNCHANGED <<table, gateway, page, socket, form, order>>

\* applyRealtimeOrder: the line e replaces the order's, goes when it does not match
\* the form's filter, or comes first on whatever page is shown.
ApplyOrder_KeepsMismatch(e) ==  \* mutation: an order that leaves the filter stays on the page
    LET here == \E i \in 1..Len(lines) : lines[i].o = e.o
    IN CASE here /\ Matches(form, e.s) ->
                /\ lines' = [i \in 1..Len(lines) |-> IF lines[i].o = e.o THEN e ELSE lines[i]]
                /\ UNCHANGED total
         [] ~here /\ Matches(form, e.s) ->
                /\ lines' = Slice(<<e>> \o lines, 1)
                /\ total' = total + 1
         [] OTHER -> UNCHANGED <<lines, total>>

ApplyOrder_NoSlice(e) ==  \* mutation: the list grows beyond a page
    LET here == \E i \in 1..Len(lines) : lines[i].o = e.o
        others == {line \in Line : line.o # e.o}
    IN CASE here /\ Matches(form, e.s) ->
                /\ lines' = [i \in 1..Len(lines) |-> IF lines[i].o = e.o THEN e ELSE lines[i]]
                /\ UNCHANGED total
         [] here /\ ~Matches(form, e.s) ->
                /\ lines' = Filter(lines, others)
                /\ total' = IF total = 0 THEN 0 ELSE total - 1
         [] ~here /\ Matches(form, e.s) ->
                /\ lines' = <<e>> \o lines
                /\ total' = total + 1
         [] OTHER -> UNCHANGED <<lines, total>>

ApplyOrder(e) ==
    LET here == \E i \in 1..Len(lines) : lines[i].o = e.o
        others == {line \in Line : line.o # e.o}
    IN CASE here /\ Matches(form, e.s) ->
                /\ lines' = [i \in 1..Len(lines) |-> IF lines[i].o = e.o THEN e ELSE lines[i]]
                /\ UNCHANGED total
         [] here /\ ~Matches(form, e.s) ->
                /\ lines' = Filter(lines, others)
                /\ total' = IF total = 0 THEN 0 ELSE total - 1
         [] ~here /\ Matches(form, e.s) ->
                /\ lines' = Slice(<<e>> \o lines, 1)
                /\ total' = total + 1
         [] OTHER -> UNCHANGED <<lines, total>>

\* handleRealtimeEvent: a creation loads the page again.
ListEvent ==
    /\ page = "list" /\ updates # <<>>
    /\ LET e == Head(updates)
       IN /\ late' = After(e.o, e.s, Coming(e.o, Tail(updates)))
          /\ IF e.s = "pending"
             THEN /\ CanAsk
                  /\ LoadOrders(requests, pg)
                  /\ UNCHANGED <<lines, total>>
             ELSE /\ ApplyOrder(e)
                  /\ UNCHANGED <<requests, loading>>
    /\ updates' = Tail(updates)
    /\ UNCHANGED <<table, gateway, page, sock, link, pg, form, order>>

\* The detail page loads again on an event of the order it shows.
DetailEvent ==
    /\ page = "detail" /\ updates # <<>>
    /\ IF order # "none" /\ Head(updates).o = Mine
       THEN CanAsk /\ LoadDetail(requests)
       ELSE UNCHANGED <<requests, loading>>
    /\ updates' = Tail(updates)
    /\ UNCHANGED <<table, gateway, page, sock, link, list, order, late>>

Reading(c) == \E k \in 1..Len(c) : c[k].kind = "detail"

DetailAnswered(k) ==
    /\ requests[k].kind = "detail" /\ requests[k].phase = "answered"
    /\ order' = requests[k].st
    /\ loading' = FALSE /\ requests' = Without(k)
    /\ late' = After(Mine, requests[k].st, Coming(Mine, updates) \/ Reading(Without(k)))
    /\ UNCHANGED <<table, gateway, page, socket, list>>

\* The refresh button of the detail page.
Refresh ==
    /\ page = "detail" /\ order # "none" /\ CanAsk
    /\ LoadDetail(requests)
    /\ UNCHANGED <<table, gateway, page, socket, list, order, late>>

\* advanceStatus, cancelOrder.
ChangeMine(s) ==
    /\ page = "detail" /\ CanAsk
    /\ MayBecome(order, s)
    /\ requests' = Asked(requests, "set", 0, s)
    /\ UNCHANGED <<table, gateway, page, socket, loading, list, order, late>>

\* applyOrderUpdate: the answer is shown and the order is loaded again.
SetAnswered(k) ==
    /\ requests[k].kind = "set" /\ requests[k].phase = "answered"
    /\ order' = requests[k].want
    /\ LoadDetail(Without(k))
    /\ UNCHANGED <<table, gateway, page, socket, list, late>>

\* The error callbacks: the server refuses, or a call is lost on the way, before or
\* after the server has done what it asks.
Refused(k) ==
    /\ requests[k].phase \in {"asked", "answered", "refused"}
    /\ loading' = (loading /\ requests[k].kind = "set")
    /\ requests' = Without(k)
    /\ late' = IF requests[k].kind = "detail" /\ order # rows[Mine] THEN Missed({Mine}) ELSE late
    /\ UNCHANGED <<table, gateway, page, socket, list, order>>

Others ==
    \/ \E o \in Orders \ {Mine} : Create(o)
    \/ \E o \in Orders, s \in Statuses : Change(o, s)
    \/ \E u \in unsent : Emit(u) \/ Unrecorded(u)

Gateway ==
    \/ \E c \in Conns :
          \/ SocketAccepted(c) \/ Rejected(c)
          \/ Disconnected(c)
          \/ PingTimeout(c)
          \/ Reconnect(c)
    \/ SocketLost

Pages ==
    \/ \E c \in Conns, p \in {"list", "detail"} : OpenPage(c, p)
    \/ ClosePage
    \/ \E f \in Filters : EditFilter(f)
    \/ \E p \in 1..MaxOrders : Browse(p)
    \/ ListEvent \/ DetailEvent \/ Refresh
    \/ \E s \in Statuses : ChangeMine(s)
    \/ \E k \in 1..Len(requests) :
          \/ Set(k) \/ List(k) \/ Get(k)
          \/ ListAnswered(k) \/ DetailAnswered(k) \/ SetAnswered(k)
          \/ Refused(k)

BoardNext == Others \/ Gateway \/ Pages

\* The interval fires, and a socket that is not connected never answers its ping.
Fairness == \A c \in Conns : WF_boardVars(c \notin alive /\ PingTimeout(c))

BoardSpec == BoardInit /\ [][BoardNext]_boardVars /\ Fairness

-----------------------------------------------------------------------------
(***************************************************************************)
(* Properties                                                              *)
(***************************************************************************)
Settled ==
    unsent = {} /\ updates = <<>> /\ requests = <<>>

\* "... before refreshing the active list" (order-management.md): when nothing is
\* under way the pages show each order as it is, unless its last event did not
\* reach them, a reload failed, or an answer older than the event came after it.
PageCurrent ==
    Settled =>
        /\ page = "list" => \A i \in 1..Len(lines) :
               lines[i].s = rows[lines[i].o] \/ lines[i].o \in late
        /\ page = "detail" /\ order # "none" => order = rows[Mine] \/ Mine \in late

\* "Remove from active clients map", "Disconnect unresponsive clients"
\* (SPRINT-5-TASKS.md): a socket that is gone does not stay in the map, not even
\* one that is registered after it has disconnected.
GhostsRemoved ==
    \A c \in Conns : c \in registered /\ c \notin alive ~> c \notin registered
=============================================================================
