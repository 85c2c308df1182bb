--------------------------- MODULE Notifications ---------------------------
(***************************************************************************)
(* Live notifications of one browser tab: NotificationService with the     *)
(* notification centre and the pages that use it, and NotificationsGateway *)
(* at the other end of its socket.  The user is signed in and has          *)
(* ledger.read.  Of the gateway's sockets only the tab's current one is    *)
(* kept.                                                                   *)
(***************************************************************************)
EXTENDS Integers, FiniteSets

CONSTANTS
    Consumers,      \* the notification centre and the pages with live events
    MaxEvents,      \* bound: appends to the tenant's ledger
    MaxTries,       \* connection errors after which the client gives up (5)
    MaxSkew,        \* bound: appends that begin within the error of the browser's clock
    MaxFetches      \* bound: recoveries under way

ASSUME ConsumersAssumption == Consumers \subseteq {"centre", "ledger", "inventory"}

ASSUME EventsAssumption ==
    MaxEvents \in Nat /\ MaxTries \in Nat \ {0} /\ MaxSkew \in Nat /\ MaxFetches \in Nat

\* An append is a transaction with its event; further events of a device's batch have
\* its created_at and its commit.  Appends are numbered as they begin, which is the
\* order of created_at: the database's now() is when the transaction began.

VARIABLES
    state,          \* connectionStateSubject
    manager,        \* socket.io's client: what the socket is doing, "none" for null
    tries,          \* connection errors since it was last connected
    hasConnected,
    failTimer,      \* reconnectFailureTimer is set
    since,          \* lastDisconnectedAt: appends up to this number are older; or Never
    active,         \* activeSubscriptions
    mounted,        \* the components on the screen
    todo,           \* those that have not been told `connected' yet (take(1))
    conn,           \* the gateway's side of the socket
    rooms,          \* the rooms it has joined
    asks, acks,     \* subscriptions and their answers under way
    mail,           \* notifications under way
    fetches,        \* recoveries of missed events under way
    begun,          \* the appends that have begun are 1..begun
    appending,      \* those not yet committed
    toEmit,         \* those not yet emitted
    events,         \* those committed
    seen,           \* those that consumers have been given
    noted,          \* history: the browser's time when the loss was noticed, or Never
    owed            \* history: the appends committed since then

client == <<state, manager, tries, hasConnected, failTimer, since, active>>
screen == <<mounted, todo>>
channel == <<conn, rooms, asks, acks, mail>>
ledger == <<begun, appending, toEmit, events>>
outage == <<noted, owed>>

liveVars == <<client, screen, channel, ledger, fetches, seen, outage>>

States == {"connected", "connecting", "reconnecting", "disconnected", "failed"}

\* roomsForFilter: a subject type without an id is the room of the tenant.
Room(c) == IF c = "inventory" THEN "tenant" ELSE "event_type"

Rooms == {Room(c) : c \in Consumers}

Never == MaxEvents + 1

\* rows: what the API has found, once it has read; noted, owed: history, as they
\* were when the connection was back.
Fetch == [since : 0..MaxEvents, read : BOOLEAN, rows : SUBSET (1..MaxEvents),
          noted : 0..MaxEvents, owed : SUBSET (1..MaxEvents)]

\* lost, kicked: the connection is gone, or the gateway has closed it, and the
\* client does not know yet.
LiveTypeOK ==
    /\ state \in States
    /\ manager \in {"none", "opening", "backoff", "up", "stopped"}
    /\ tries \in 0..MaxTries
    /\ hasConnected \in BOOLEAN
    /\ failTimer \in BOOLEAN
    /\ since \in 0..MaxEvents \union {Never}
    /\ active \subseteq Rooms
    /\ todo \subseteq mounted
    /\ mounted \subseteq Consumers
    /\ conn \in {"none", "verifying", "registered", "lost", "kicked"}
    /\ conn # "none" <=> manager = "up"
    /\ rooms \subseteq Rooms
    /\ asks \subseteq Rooms
    /\ acks \subseteq rooms
    /\ mail \subseteq 1..begun
    /\ fetches \subseteq Fetch
    /\ begun \in 0..MaxEvents
    /\ appending \subseteq 1..begun
    /\ toEmit \subseteq 1..begun
    /\ events \subseteq (1..begun) \ appending
    /\ seen \subseteq 1..begun
    /\ noted \in 0..MaxEvents \union {Never}
    /\ owed \subseteq events

LiveInit ==
    /\ state = "disconnected"
    /\ manager = "none"
    /\ tries = 0
    /\ hasConnected = FALSE
    /\ failTimer = FALSE
    /\ since = Never
    /\ active = {}
    /\ mounted = {}
    /\ todo = {}
    /\ conn = "none"
    /\ rooms = {}
    /\ asks = {}
    /\ acks = {}
    /\ mail = {}
    /\ fetches = {}
    /\ begun = 0
    /\ appending = {}
    /\ toEmit = {}
    /\ events = {}
    /\ seen = {}
    /\ noted = Never
    /\ owed = {}

-----------------------------------------------------------------------------
(***************************************************************************)
(* connect, disconnect and who calls them                                  *)
(***************************************************************************)
\* Nothing is left of the connection.
Unlinked ==
    /\ conn' = "none"
    /\ rooms' = {}
    /\ asks' = {}
    /\ acks' = {}
    /\ mail' = {}

\* new Date(), as a number of appends: the browser's clock is behind or ahead of the
\* database's, and appends that have begun may still be open.
BrowserTime == {v \in 0..MaxEvents : begun - MaxSkew <= v /\ v <= begun + MaxSkew}

\* Closing a connected socket calls its `disconnect' handler, which takes it for
\* a loss, sets the timer and notes the time; the state is overwritten after it.
Disconnect ==
    /\ LET handled == manager = "up" /\ state \in {"connected", "reconnecting"} IN
       /\ failTimer' = handled
       /\ IF handled THEN since' \in BrowserTime /\ noted' = since'
          ELSE since' = Never /\ noted' = Never
    /\ state' = "disconnected"
    /\ manager' = "none"
    /\ tries' = 0
    /\ hasConnected' = FALSE
    /\ active' = {}
    /\ owed' = {}
    /\ Unlinked

Open ==
    /\ state' = "connecting"
    /\ manager' = "opening"
    /\ tries' = 0
    /\ hasConnected' = FALSE
    /\ failTimer' = FALSE
    /\ since' = Never
    /\ active' = {}
    /\ noted' = Never
    /\ owed' = {}
    /\ Unlinked

\* connect: a socket that is or gets connected is kept.
Connect(asked) ==
    IF manager # "none" /\ state \in {"connecting", "connected", "reconnecting"}
    THEN asks' = asks \union asked /\ UNCHANGED <<client, conn, rooms, acks, mail, outage>>
    ELSE Open

\* ngOnInit: connect, then subscribe once the state is `connected', perhaps now.
\* One page is open at a time.
Mount(c) ==
    /\ c \notin mounted
    /\ c = "centre" \/ mounted \subseteq {"centre"}
    /\ mounted' = mounted \union {c}
    /\ IF state = "connected" THEN Connect({Room(c)}) /\ UNCHANGED todo
       ELSE Connect({}) /\ todo' = todo \union {c}
    /\ UNCHANGED <<ledger, fetches, seen>>

Untold_Leaks(c) == todo  \* mutation: a component that is gone is still told

\* takeUntil(destroy$)
Untold(c) == todo \ {c}

\* ngOnDestroy: unsubscribe, whose answer nobody gets since disconnect follows,
\* also for the components that stay.
Unmount(c) ==
    /\ c \in mounted
    /\ mounted' = mounted \ {c}
    /\ todo' = Untold(c)
    /\ Disconnect
    /\ UNCHANGED <<ledger, fetches, seen>>

\* pagehide, beforeunload
PageHide ==
    /\ Disconnect
    /\ UNCHANGED <<screen, ledger, fetches, seen>>

\* The centre offers it when the connection has failed or is closed.
Retry ==
    /\ "centre" \in mounted
    /\ state \in {"failed", "disconnected"}
    /\ Open
    /\ UNCHANGED <<screen, ledger, fetches, seen>>

\* The window's online event; while reconnecting connect does nothing.
Online ==
    /\ state = "failed"
    /\ Open
    /\ UNCHANGED <<screen, ledger, fetches, seen>>

-----------------------------------------------------------------------------
(***************************************************************************)
(* The handlers of the socket                                              *)
(***************************************************************************)
ShouldAttemptReconnect == hasConnected \/ state \in {"connected", "reconnecting"}

MarkReconnecting_NoTimer ==  \* mutation: nothing ends the waiting
    /\ state' = "reconnecting"
    /\ UNCHANGED failTimer

MarkReconnecting ==
    /\ state' = "reconnecting"
    /\ failTimer' = TRUE

\* What is asked for on a new connection: each filter held, and the filters of
\* the components that have waited for it.
Resubscribed == active

\* on('connect')
Connected ==
    /\ manager = "opening"
    /\ manager' = "up"
    /\ conn' = "verifying"
    /\ rooms' = {}
    /\ acks' = {}
    /\ mail' = {}
    /\ fetches' = IF state = "reconnecting" /\ since # Never
                  THEN fetches \union {[since |-> since, read |-> FALSE, rows |-> {},
                                        noted |-> noted, owed |-> owed]}
                  ELSE fetches
    /\ Cardinality(fetches') <= MaxFetches
    /\ state' = "connected"
    /\ tries' = 0
    /\ hasConnected' = TRUE
    /\ failTimer' = FALSE
    /\ since' = Never
    /\ asks' = Resubscribed \union {Room(c) : c \in todo}
    /\ todo' = {}
    /\ noted' = Never
    /\ owed' = {}
    /\ UNCHANGED <<active, mounted, ledger, seen>>

SinceAfterError_Now == begun  \* mutation: each error counts as a new loss

\* markReconnecting leaves lastDisconnectedAt as it is.
SinceAfterError == since

\* on('connect_error'); also the attempts that go on after the state is failed.
ConnectError ==
    /\ manager = "opening"
    /\ tries' = tries + 1
    /\ manager' = IF tries' < MaxTries THEN "backoff" ELSE "stopped"
    /\ IF ~ ShouldAttemptReconnect
       THEN state' = "failed" /\ UNCHANGED <<hasConnected, failTimer>>
       ELSE IF tries' < MaxTries THEN MarkReconnecting /\ UNCHANGED hasConnected
       ELSE state' = "failed" /\ hasConnected' = FALSE /\ failTimer' = FALSE
    /\ since' = SinceAfterError
    /\ UNCHANGED <<active, screen, channel, ledger, fetches, seen, outage>>

\* socket.io's client tries again.
TryAgain ==
    /\ manager = "backoff"
    /\ manager' = "opening"
    /\ UNCHANGED <<state, tries, hasConnected, failTimer, since, active, screen, channel, ledger,
                   fetches, seen, outage>>

\* on('disconnect'): socket.io does not try again after the gateway has closed.
Lost ==
    /\ conn \in {"lost", "kicked"}
    /\ IF ShouldAttemptReconnect
       THEN MarkReconnecting /\ since' \in BrowserTime /\ noted' = since'
       ELSE state' = "disconnected" /\ UNCHANGED <<failTimer, since, noted>>
    /\ manager' = IF conn = "lost" THEN "backoff" ELSE "stopped"
    /\ Unlinked
    /\ UNCHANGED <<tries, hasConnected, active, screen, ledger, fetches, seen, owed>>

\* The window's offline event; the socket may be as it was.
Offline ==
    /\ ShouldAttemptReconnect
    /\ MarkReconnecting
    /\ UNCHANGED <<manager, tries, hasConnected, since, active, screen, channel, ledger, fetches,
                   seen, outage>>

\* reconnectFailureTimer; the attempts of socket.io go on.
FailTimerFires ==
    /\ failTimer
    /\ failTimer' = FALSE
    /\ IF state = "reconnecting" THEN state' = "failed" /\ hasConnected' = FALSE
       ELSE UNCHANGED <<state, hasConnected>>
    /\ UNCHANGED <<manager, tries, since, active, screen, channel, ledger, fetches, seen, outage>>

\* rememberSubscription
Acked(room) ==
    /\ conn # "lost"
    /\ room \in acks
    /\ acks' = acks \ {room}
    /\ active' = active \union {room}
    /\ UNCHANGED <<state, manager, tries, hasConnected, failTimer, since, screen, conn, rooms, asks,
                   mail, ledger, fetches, seen, outage>>

\* on('notification.created')
Notified(e) ==
    /\ conn # "lost"
    /\ e \in mail
    /\ mail' = mail \ {e}
    /\ seen' = seen \union {e}
    /\ UNCHANGED <<client, screen, conn, rooms, asks, acks, ledger, fetches, outage>>

\* The answer of GET /ledger/events.  Of the rows, those created no earlier than the
\* time noted are shown, unless they have been shown before.
Recovered(f) ==
    /\ f \in fetches
    /\ f.read
    /\ fetches' = fetches \ {f}
    /\ seen' = seen \union {e \in f.rows : e > f.since}
    /\ UNCHANGED <<client, screen, channel, ledger, outage>>

NotRecovered(f) ==
    /\ f \in fetches
    /\ fetches' = fetches \ {f}
    /\ UNCHANGED <<client, screen, channel, ledger, seen, outage>>

-----------------------------------------------------------------------------
(***************************************************************************)
(* NotificationsGateway and the network                                    *)
(***************************************************************************)
\* handleConnection: the token is checked, and the socket registered or closed.
Verified ==
    /\ conn = "verifying"
    /\ conn' \in {"registered", "kicked"}
    /\ UNCHANGED <<client, screen, rooms, asks, acks, mail, ledger, fetches, seen, outage>>

\* handleSubscribe
Join(room) ==
    /\ conn = "registered"
    /\ room \in asks
    /\ asks' = asks \ {room}
    /\ rooms' = rooms \union {room}
    /\ acks' = acks \union {room}
    /\ UNCHANGED <<client, screen, conn, mail, ledger, fetches, seen, outage>>

\* waitForClientState: the check has taken more than 200 ms.
NotYet(room) ==
    /\ conn = "verifying"
    /\ room \in asks
    /\ conn' = "kicked"
    /\ UNCHANGED <<client, screen, rooms, asks, acks, mail, ledger, fetches, seen, outage>>

LinkLost ==
    /\ conn \in {"verifying", "registered"}
    /\ conn' = "lost"
    /\ UNCHANGED <<client, screen, rooms, asks, acks, mail, ledger, fetches, seen, outage>>

-----------------------------------------------------------------------------
(***************************************************************************)
(* LedgerEventsService                                                     *)
(***************************************************************************)
\* A transaction that appends begins, and created_at is set.
AppendBegins ==
    /\ begun < MaxEvents
    /\ begun' = begun + 1
    /\ appending' = appending \union {begun + 1}
    /\ toEmit' = toEmit \union {begun + 1}
    /\ UNCHANGED <<client, screen, channel, events, fetches, seen, outage>>

\* Others that have begun earlier may commit later.  It is owed when the loss of the
\* connection is known and it is not back.
AppendCommits(e) ==
    /\ e \in appending
    /\ appending' = appending \ {e}
    /\ events' = events \union {e}
    /\ owed' = IF state = "reconnecting" /\ manager # "up" THEN owed \union {e} ELSE owed
    /\ UNCHANGED <<client, screen, channel, begun, toEmit, fetches, seen, noted>>

\* A conflict on the chain, or the caller's transaction fails.
AppendFails(e) ==
    /\ e \in appending
    /\ appending' = appending \ {e}
    /\ toEmit' = toEmit \ {e}
    /\ UNCHANGED <<client, screen, channel, begun, events, fetches, seen, outage>>

\* After the commit, or before it in the caller's transaction; a socket in several
\* rooms gets it once.
EmitLedgerEvent(e) ==
    /\ e \in toEmit
    /\ toEmit' = toEmit \ {e}
    /\ mail' = IF rooms # {} /\ conn = "registered" THEN mail \union {e} ELSE mail
    /\ UNCHANGED <<client, screen, conn, rooms, asks, acks, begun, appending, events, fetches,
                   seen, outage>>

\* findAll: what is committed by the time the table is read.
FindAll(f) ==
    /\ f \in fetches
    /\ ~ f.read
    /\ fetches' = (fetches \ {f}) \union {[f EXCEPT !.read = TRUE, !.rows = events]}
    /\ UNCHANGED <<client, screen, channel, ledger, seen, outage>>

-----------------------------------------------------------------------------
LiveNext ==
    \/ \E c \in Consumers : Mount(c) \/ Unmount(c)
    \/ PageHide
    \/ Retry
    \/ Online
    \/ Connected
    \/ ConnectError
    \/ TryAgain
    \/ Lost
    \/ Offline
    \/ FailTimerFires
    \/ \E room \in Rooms : Acked(room) \/ Join(room) \/ NotYet(room)
    \/ \E e \in 1..begun : Notified(e)
    \/ \E f \in fetches : FindAll(f) \/ Recovered(f) \/ NotRecovered(f)
    \/ Verified
    \/ LinkLost
    \/ AppendBegins
    \/ \E e \in 1..begun : AppendCommits(e) \/ AppendFails(e) \/ EmitLedgerEvent(e)

LiveSpec == LiveInit /\ [][LiveNext]_liveVars

\* An attempt to connect ends, and the timer fires.
LiveFairSpec == LiveSpec /\ WF_liveVars(Connected \/ ConnectError) /\ WF_liveVars(FailTimerFires)

-----------------------------------------------------------------------------
(***************************************************************************)
(* Properties                                                              *)
(***************************************************************************)
\* The connection does not stay in between: it is up, failed or closed in the
\* end, and the user can retry, whoever closed it and whatever attempts did.
Settles == state \in {"connecting", "reconnecting"} ~> state \notin {"connecting", "reconnecting"}

\* "Fetch missed events from API": a recovery that is answered gives what was
\* committed from the time the loss was noticed until the connection was back, however
\* many attempts that took, whatever was lost again since and in whatever order the
\* appends committed.  It leaves out what had begun before the browser's clock at the
\* notice: that is an append open at the notice, or one just after it if that clock is
\* ahead, and nobody emits it to the tab either.
OutageRecovered ==
    [][\A f \in fetches :
          Recovered(f) => {e \in f.owed : e > f.noted} \subseteq seen']_liveVars

=============================================================================
