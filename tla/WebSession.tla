----------------------------- MODULE WebSession -----------------------------
(***************************************************************************)
(* The session of the web client in several tabs of one browser, and the   *)
(* auth endpoints it talks to: AuthService and authInterceptor of          *)
(* ledger-web, the login page and the logout of the shell.  One user can   *)
(* sign in.  A pair is what a login or a refresh returns: an access token  *)
(* and a refresh token with one number.                                    *)
(***************************************************************************)
EXTENDS Naturals, FiniteSets

CONSTANTS
    Tabs,
    Slots,          \* places for calls under way, besides each tab's refresh
    MaxPairs,       \* bound: pairs issued, afterwards only refusals
    MaxReloads      \* bound: pages loaded again, and restarts of the API

ASSUME SlotsAssumption ==
    Tabs # {} /\ Tabs \cap Slots = {} /\ MaxPairs \in Nat /\ MaxReloads \in Nat

VARIABLES
    issued,         \* API: the pairs issued are 1..issued
    refreshIds,     \* API: refreshTokenIds
    local,          \* localStorage: the pair stored for all tabs, 0 for none
    session,        \* session[t]: sessionStorage of tab t
    remember,       \* localStorage: tnl.rememberSession
    shown,          \* shown[t]: authState holds the user
    timer,          \* timer[t]: refreshTimer is set
    open,           \* open[t]: a page of the application is open, not /login or /unauthorized
    calls,          \* the HTTP calls under way
    reloads

server == <<issued, refreshIds>>
storage == <<local, session, shown, timer>>

vars == <<server, storage, remember, open, calls, reloads>>

\* renew: the refresh of an api call that got 401; retry: the call sent again.
Steps == {"idle", "login", "logout", "refresh", "renew", "api", "retry"}

Replies == {"waiting", "ok", "401", "403", "failed"}

NoCall == [step |-> "idle", tab |-> CHOOSE t \in Tabs : TRUE, bearer |-> 0, body |-> 0,
           reply |-> "waiting", got |-> 0, alive |-> TRUE]

TypeOK ==
    /\ issued \in 0..MaxPairs
    /\ refreshIds \subseteq 1..issued
    /\ local \in 0..issued
    /\ session \in [Tabs -> 0..issued]
    /\ remember \in BOOLEAN
    /\ shown \in [Tabs -> BOOLEAN]
    /\ timer \in [Tabs -> BOOLEAN]
    /\ \A t \in Tabs : timer[t] => shown[t]
    /\ open \in [Tabs -> BOOLEAN]
    /\ calls \in [Slots \union Tabs ->
                    [step : Steps, tab : Tabs, bearer : 0..issued, body : 0..issued,
                     reply : Replies, got : 0..issued, alive : BOOLEAN]]
    /\ \A t \in Tabs : calls[t].step \in {"idle", "refresh"}
    /\ reloads \in 0..MaxReloads

Init ==
    /\ issued = 0
    /\ refreshIds = {}
    /\ local = 0
    /\ session = [t \in Tabs |-> 0]
    /\ remember = FALSE
    /\ shown = [t \in Tabs |-> FALSE]
    /\ timer = [t \in Tabs |-> FALSE]
    /\ open = [t \in Tabs |-> FALSE]
    /\ calls = [c \in Slots \union Tabs |-> NoCall]
    /\ reloads = 0

-----------------------------------------------------------------------------
(***************************************************************************)
(* AuthService of the browser                                              *)
(***************************************************************************)
\* getStoredValue: localStorage first.
Token(t) == IF local # 0 THEN local ELSE session[t]

SaveSession_KeepsOther(t, n) ==  \* mutation: the other storage keeps its pair
    /\ local' = IF remember THEN n ELSE local
    /\ session' = [session EXCEPT ![t] = IF remember THEN @ ELSE n]
    /\ shown' = [shown EXCEPT ![t] = TRUE]
    /\ timer' = [timer EXCEPT ![t] = TRUE]

SaveSession_NoTimer(t, n) ==  \* mutation: the refresh is not scheduled again
    /\ local' = IF remember THEN n ELSE 0
    /\ session' = [session EXCEPT ![t] = IF remember THEN 0 ELSE n]
    /\ shown' = [shown EXCEPT ![t] = TRUE]
    /\ UNCHANGED timer

\* One storage gets the pair, the other loses its own; scheduleRefresh.
SaveSession(t, n) ==
    /\ local' = IF remember THEN n ELSE 0
    /\ session' = [session EXCEPT ![t] = IF remember THEN 0 ELSE n]
    /\ shown' = [shown EXCEPT ![t] = TRUE]
    /\ timer' = [timer EXCEPT ![t] = TRUE]

ClearSession_KeepsUser(t) ==  \* mutation: the stored pair goes, the user stays
    /\ local' = 0
    /\ session' = [session EXCEPT ![t] = 0]
    /\ timer' = [timer EXCEPT ![t] = FALSE]
    /\ UNCHANGED shown

ClearSession_KeepsTimer(t) ==  \* mutation: the timer still runs
    /\ local' = 0
    /\ session' = [session EXCEPT ![t] = 0]
    /\ shown' = [shown EXCEPT ![t] = FALSE]
    /\ UNCHANGED timer

\* Both storages and the timer; what other tabs show stays.
ClearSession(t) ==
    /\ local' = 0
    /\ session' = [session EXCEPT ![t] = 0]
    /\ timer' = [timer EXCEPT ![t] = FALSE]
    /\ shown' = [shown EXCEPT ![t] = FALSE]

Leave(t) == open' = [open EXCEPT ![t] = FALSE]

\* The interceptor gives up.
SignOut(t) == ClearSession(t) /\ Leave(t)

\* authGuard: every page requires a token, and a permission of the user shown:
\* with a token another tab has stored and no user it goes to /unauthorized.
Admitted(t, user) == Token(t) # 0 /\ user

\* shouldAttachAuthHeader: not to login, refresh and logout.
Bearer(t, step) == IF step \in {"api", "retry"} THEN Token(t) ELSE 0

Request(t, step, body, bearer) ==
    [NoCall EXCEPT !.step = step, !.tab = t, !.body = body, !.bearer = bearer]

Sent(c, t, step, body) == calls' = [calls EXCEPT ![c] = Request(t, step, body, Bearer(t, step))]

Done(c) == calls' = [calls EXCEPT ![c] = NoCall]

-----------------------------------------------------------------------------
(***************************************************************************)
(* What the user and the timers do                                         *)
(***************************************************************************)
\* LoginComponent.submit: rememberMe is stored before the call.
Login(t, c, rememberMe) ==
    /\ ~ open[t]
    /\ calls[c].step = "idle"
    /\ remember' = rememberMe
    /\ Sent(c, t, "login", 0)
    /\ UNCHANGED <<server, storage, open, reloads>>

\* App.logout: the session is cleared before the call is made.
Logout(t, c) ==
    /\ shown[t]
    /\ calls[c].step = "idle"
    /\ ClearSession(t)
    /\ IF Token(t) = 0 THEN Leave(t) /\ UNCHANGED calls
       ELSE /\ calls' = [calls EXCEPT ![c] = Request(t, "logout", Token(t), 0)]
            /\ UNCHANGED open
    /\ UNCHANGED <<server, remember, reloads>>

\* A page of the application calls the API.
Use(t, c) ==
    /\ open[t]
    /\ calls[c].step = "idle"
    /\ Sent(c, t, "api", 0)
    /\ UNCHANGED <<server, storage, remember, open, reloads>>

Navigate(t) ==
    /\ \E there \in {FALSE, Admitted(t, shown[t])} : open' = [open EXCEPT ![t] = there]
    /\ UNCHANGED <<server, storage, remember, calls, reloads>>

\* The callback of scheduleRefresh; without a token its error clears the session.
TimerFires(t) ==
    /\ timer[t]
    /\ calls[t].step = "idle"
    /\ IF Token(t) = 0 THEN ClearSession(t) /\ UNCHANGED calls
       ELSE /\ Sent(t, t, "refresh", Token(t))
            /\ timer' = [timer EXCEPT ![t] = FALSE]
            /\ UNCHANGED <<local, session, shown>>
    /\ UNCHANGED <<server, remember, open, reloads>>

\* The page is loaded again: restoreUser and scheduleRefresh read the storage,
\* and nobody waits for the calls under way.
Reload(t) ==
    /\ reloads < MaxReloads
    /\ reloads' = reloads + 1
    /\ shown' = [shown EXCEPT ![t] = Token(t) # 0]
    /\ timer' = [timer EXCEPT ![t] = Token(t) # 0]
    /\ open' = [open EXCEPT ![t] = Admitted(t, Token(t) # 0)]
    /\ calls' = [c \in DOMAIN calls |->
                   IF calls[c].tab = t THEN [calls[c] EXCEPT !.alive = FALSE] ELSE calls[c]]
    /\ UNCHANGED <<server, local, session, remember>>

-----------------------------------------------------------------------------
(***************************************************************************)
(* The API                                                                 *)
(***************************************************************************)
Reply(c, how) == calls' = [calls EXCEPT ![c].reply = how]

Refuse(c) == Reply(c, "401") /\ UNCHANGED server

\* A new pair; a refresh takes the refresh token that was presented away.
Issue(c, used) ==
    /\ issued < MaxPairs
    /\ issued' = issued + 1
    /\ refreshIds' = (refreshIds \ used) \union {issued + 1}
    /\ calls' = [calls EXCEPT ![c].reply = "ok", ![c].got = issued + 1]

\* The guards accept no call without a token; one with a token may be too late.
Accepted(c) == calls[c].bearer # 0

Serve(c) ==
    LET call == calls[c] IN
    /\ call.step # "idle"
    /\ call.reply = "waiting"
    /\ \/ call.step = "login" /\ (Issue(c, {}) \/ Refuse(c))
       \/ /\ call.step \in {"refresh", "renew"}
          /\ IF call.body \in refreshIds THEN Issue(c, {call.body}) ELSE Refuse(c)
       \/ /\ call.step = "logout"
          /\ IF Accepted(c)
             THEN /\ Reply(c, "ok")
                  /\ refreshIds' = refreshIds \ {call.body}
                  /\ UNCHANGED issued
             ELSE Refuse(c)
       \/ /\ call.step \in {"api", "retry"}
          /\ \/ Refuse(c)
             \/ Accepted(c) /\ (Reply(c, "ok") \/ Reply(c, "403")) /\ UNCHANGED server
       \* 429, any other status, or no answer
       \/ Reply(c, "failed") /\ UNCHANGED server
    /\ UNCHANGED <<storage, remember, open, reloads>>

\* refreshTokenIds is in memory.
Restart ==
    /\ reloads < MaxReloads
    /\ reloads' = reloads + 1
    /\ refreshIds' = {}
    /\ UNCHANGED <<issued, storage, remember, open, calls>>

-----------------------------------------------------------------------------
(***************************************************************************)
(* What the tab does with an answer: authInterceptor and the callbacks     *)
(***************************************************************************)
LoginAnswered(c, t) ==
    /\ calls[c].step = "login"
    /\ \/ calls[c].reply = "ok" /\ SaveSession(t, calls[c].got) /\ open' = [open EXCEPT ![t] = TRUE]
       \/ calls[c].reply = "401" /\ SignOut(t)
       \/ calls[c].reply = "failed" /\ UNCHANGED <<storage, open>>
    /\ Done(c)

LogoutAnswered(c, t) ==
    /\ calls[c].step = "logout"
    /\ IF calls[c].reply = "401" THEN SignOut(t) ELSE Leave(t) /\ UNCHANGED storage
    /\ Done(c)

\* Only 401 goes to the login page; every error clears the session.
RefreshAnswered(c, t) ==
    /\ calls[c].step = "refresh"
    /\ \/ calls[c].reply = "ok" /\ SaveSession(t, calls[c].got) /\ UNCHANGED open
       \/ calls[c].reply = "401" /\ SignOut(t)
       \/ calls[c].reply = "failed" /\ ClearSession(t) /\ UNCHANGED open
    /\ Done(c)

\* 401: the token stored now is refreshed, which is not that of the call if
\* another call has been faster.
ApiAnswered(c, t) ==
    /\ calls[c].step = "api"
    /\ \/ calls[c].reply \in {"ok", "failed"} /\ Done(c) /\ UNCHANGED <<storage, open>>
       \/ calls[c].reply = "403" /\ Done(c) /\ Leave(t) /\ UNCHANGED storage
       \/ calls[c].reply = "401" /\ Token(t) = 0 /\ Done(c) /\ SignOut(t)
       \/ /\ calls[c].reply = "401" /\ Token(t) # 0
          /\ Sent(c, t, "renew", Token(t)) /\ UNCHANGED <<storage, open>>

\* The new pair is stored, and the call sent again with what is read back.
RenewAnswered(c, t) ==
    /\ calls[c].step = "renew"
    /\ \/ /\ calls[c].reply = "ok"
          /\ SaveSession(t, calls[c].got)
          /\ calls' = [calls EXCEPT ![c] =
                         [Request(t, "retry", 0, IF local' # 0 THEN local' ELSE session'[t])
                            EXCEPT !.got = calls[c].got]]
          /\ UNCHANGED open
       \/ calls[c].reply \in {"401", "failed"} /\ Done(c) /\ SignOut(t)

\* Any error of the call sent again ends the session, not only 401.
RetryAnswered(c, t) ==
    /\ calls[c].step = "retry"
    /\ IF calls[c].reply = "ok" THEN UNCHANGED <<storage, open>> ELSE SignOut(t)
    /\ Done(c)

Answer(c) ==
    /\ calls[c].reply # "waiting"
    /\ IF calls[c].alive
       THEN LET t == calls[c].tab IN
            \/ LoginAnswered(c, t)
            \/ LogoutAnswered(c, t)
            \/ RefreshAnswered(c, t)
            \/ ApiAnswered(c, t)
            \/ RenewAnswered(c, t)
            \/ RetryAnswered(c, t)
       ELSE Done(c) /\ UNCHANGED <<storage, open>>
    /\ UNCHANGED <<server, remember, reloads>>

-----------------------------------------------------------------------------
Next ==
    \/ \E t \in Tabs :
          \/ \E c \in Slots : \/ \E rememberMe \in BOOLEAN : Login(t, c, rememberMe)
                              \/ Logout(t, c)
                              \/ Use(t, c)
          \/ Navigate(t)
          \/ TimerFires(t)
          \/ Reload(t)
    \/ \E c \in Slots \union Tabs : Serve(c) \/ Answer(c)
    \/ Restart

Spec == Init /\ [][Next]_vars

\* A timer that is set fires, a call is answered, and the answer is handled.
FairSpec ==
    /\ Spec
    /\ \A t \in Tabs : WF_vars(TimerFires(t))
    /\ \A c \in Slots \union Tabs : WF_vars(Serve(c)) /\ WF_vars(Answer(c))

-----------------------------------------------------------------------------
(***************************************************************************)
(* Properties                                                              *)
(***************************************************************************)
\* A tab that shows a user has its refresh timer set or that refresh under way,
\* whatever other calls, other tabs and reloads do: the session of an open tab
\* cannot run out unnoticed.
RefreshScheduled ==
    \A t \in Tabs : shown[t] =>
        timer[t] \/ \E c \in DOMAIN calls :
                       calls[c].step = "refresh" /\ calls[c].tab = t /\ calls[c].alive

\* "Retry once after successful refresh": a call that got 401 is sent again with
\* the access token its own refresh has brought, not one another storage holds.
RetryIsFresh ==
    \A c \in DOMAIN calls : calls[c].step = "retry" => calls[c].bearer = calls[c].got

\* A tab does not go on showing a user whose refresh token is gone from its
\* storage or from the API (a logout, a restart, another tab): it signs out or
\* comes to a live session.
DeadSessionEnds ==
    \A t \in Tabs : shown[t] /\ Token(t) \notin refreshIds
                    ~> ~ shown[t] \/ Token(t) \in refreshIds

\* "Revoke a refresh token and end the authenticated session"
\* (auth.controller.ts:167): the token of a logout that the API has answered is
\* not live.  The code: see the finding.
LogoutRevokes ==
    \A c \in DOMAIN calls :
        calls[c].step = "logout" /\ calls[c].reply \in {"ok", "401"} =>
            calls[c].body \notin refreshIds
=============================================================================
