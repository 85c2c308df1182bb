-------------------------- MODULE WebClientProofs ---------------------------
(***************************************************************************)
(* Proofs about the web client, in three parts: the session in WebSession, *)
(* for any number of tabs, calls, reloads and pairs; the live              *)
(* notifications in Notifications, for any number of appends and tries and *)
(* any error of the browser's clock; the order pages in OrderBoard, for    *)
(* any number of orders, connections and calls and any page size.          *)
(***************************************************************************)
EXTENDS WebSession, Notifications, OrderBoard, FiniteSetTheorems,
        WellFoundedInduction, TLAPS

-----------------------------------------------------------------------------
(***************************************************************************)
(* The session.                                                            *)
(***************************************************************************)
All == Slots \union Tabs

CallType == [step : Steps, tab : Tabs, bearer : 0..issued, body : 0..issued,
             reply : Replies, got : 0..issued, alive : BOOLEAN]

\* What is kept of the tabs.
StorageOK ==
    /\ local \in 0..issued
    /\ session \in [Tabs -> 0..issued]
    /\ shown \in [Tabs -> BOOLEAN]
    /\ timer \in [Tabs -> BOOLEAN]
    /\ \A t \in Tabs : timer[t] => shown[t]

\* What one call is: well typed; a refresh has the place of its tab, and no other
\* call has it; an answer has brought a pair; a retry carries what its refresh brought.
CallOK(c) ==
    /\ calls[c] \in CallType
    /\ c \in Tabs => calls[c].step \in {"idle", "refresh"}
    /\ calls[c].step = "refresh" => c = calls[c].tab
    /\ calls[c].reply = "ok" /\ calls[c].step \in {"login", "refresh", "renew"} => calls[c].got > 0
    /\ calls[c].step = "retry" => calls[c].bearer = calls[c].got

CallsOK ==
    /\ calls = [c \in All |-> calls[c]]
    /\ \A c \in All : CallOK(c)

RestOK ==
    /\ issued \in 0..MaxPairs /\ refreshIds \subseteq 1..issued
    /\ remember \in BOOLEAN /\ open \in [Tabs -> BOOLEAN] /\ reloads \in 0..MaxReloads

\* A tab that shows a user: its timer is set, or its own place has its refresh.
Scheduled ==
    \A t \in Tabs : shown[t] =>
        timer[t] \/ (calls[t].step = "refresh" /\ calls[t].alive)

\* The inductive invariant.
SessionInv == StorageOK /\ CallsOK /\ RestOK /\ Scheduled

LEMMA Consequences == SessionInv => TypeOK /\ RefreshScheduled /\ RetryIsFresh
<1> SUFFICES ASSUME SessionInv PROVE TypeOK /\ RefreshScheduled /\ RetryIsFresh
  OBVIOUS
<1>1. calls \in [All -> CallType] /\ DOMAIN calls = All
  BY DEF SessionInv, CallsOK, CallOK
<1>2. TypeOK
  BY <1>1 DEF SessionInv, StorageOK, CallsOK, CallOK, RestOK, TypeOK, CallType, All
<1>3. RefreshScheduled
  <2> SUFFICES ASSUME NEW t \in Tabs, shown[t], ~ timer[t]
               PROVE  \E c \in DOMAIN calls :
                         calls[c].step = "refresh" /\ calls[c].tab = t /\ calls[c].alive
    BY DEF RefreshScheduled
  <2>1. t \in All /\ calls[t].step = "refresh" /\ calls[t].alive /\ calls[t].tab = t
    BY DEF SessionInv, Scheduled, CallsOK, CallOK, All
  <2>2. QED
    BY <1>1, <2>1
<1>4. RetryIsFresh
  BY <1>1 DEF SessionInv, CallsOK, CallOK, RetryIsFresh
<1>5. QED
  BY <1>2, <1>3, <1>4

LEMMA NoCallType ==
    ASSUME issued \in Nat
    PROVE  NoCall \in CallType /\ NoCall.step = "idle" /\ NoCall.reply = "waiting"
<1>1. (CHOOSE t \in Tabs : TRUE) \in Tabs
  BY SlotsAssumption
<1>2. 0 \in 0..issued
  OBVIOUS
<1>3. QED
  BY <1>1, <1>2 DEF NoCall, CallType, Steps, Replies

LEMMA InitSession == Init => SessionInv
<1> SUFFICES ASSUME Init PROVE SessionInv
  OBVIOUS
<1>1. issued = 0 /\ issued \in 0..MaxPairs /\ reloads \in 0..MaxReloads
  BY SlotsAssumption DEF Init
<1>2. \A c \in All : calls[c] = NoCall
  BY DEF Init, All
<1>3. CallsOK
  BY <1>1, <1>2, NoCallType DEF Init, CallsOK, CallOK, All
<1>4. 0 \in 0..issued
  BY <1>1
<1>5. StorageOK
  BY <1>4 DEF Init, StorageOK
<1>6. RestOK /\ Scheduled
  BY <1>1 DEF Init, RestOK, Scheduled
<1>7. QED
  BY <1>3, <1>5, <1>6 DEF SessionInv

\* A call that is made, and what one that is sent looks like.
LEMMA RequestType ==
    ASSUME SessionInv, NEW t \in Tabs, NEW step \in Steps, NEW n \in 0..issued, NEW b \in 0..issued
    PROVE  LET call == Request(t, step, n, b) IN
           /\ call \in CallType
           /\ call.step = step /\ call.tab = t /\ call.bearer = b /\ call.body = n
           /\ call.reply = "waiting" /\ call.got = 0 /\ call.alive
<1>1. NoCall \in CallType /\ NoCall.reply = "waiting" /\ NoCall.got = 0 /\ NoCall.alive
  <2>1. issued \in Nat
    BY SlotsAssumption DEF SessionInv, RestOK
  <2>2. QED
    BY <2>1, NoCallType DEF NoCall
<1>2. QED
  BY <1>1 DEF Request, CallType

LEMMA RetryType ==
    ASSUME SessionInv, NEW t \in Tabs, NEW b \in 0..issued
    PROVE  /\ Request(t, "retry", 0, b) \in CallType
           /\ Request(t, "retry", 0, b).step = "retry"
           /\ Request(t, "retry", 0, b).reply = "waiting"
           /\ Request(t, "retry", 0, b).bearer = b
<1>1. 0 \in 0..issued /\ "retry" \in Steps
  BY SlotsAssumption DEF SessionInv, RestOK, Steps
<1>2. QED
  BY <1>1, RequestType

LEMMA TokenType ==
    ASSUME StorageOK, NEW t \in Tabs, issued \in Nat
    PROVE  Token(t) \in 0..issued /\ \A step : Bearer(t, step) \in 0..issued
BY DEF StorageOK, Token, Bearer

\* The storage of a tab after each of the things AuthService does to it.
LEMMA SaveStep ==
    ASSUME SessionInv, issued' = issued, NEW t \in Tabs, NEW n \in 0..issued, SaveSession(t, n)
    PROVE  StorageOK' /\ shown'[t] /\ timer'[t]
           /\ \A s \in Tabs \ {t} : shown'[s] = shown[s] /\ timer'[s] = timer[s]
<1>1. issued \in Nat
  BY SlotsAssumption DEF SessionInv, RestOK
<1>2. QED
  BY <1>1 DEF SessionInv, StorageOK, RestOK, SaveSession

LEMMA ClearStep ==
    ASSUME SessionInv, issued' = issued, NEW t \in Tabs, ClearSession(t)
    PROVE  StorageOK' /\ ~ shown'[t]
           /\ \A s \in Tabs \ {t} : shown'[s] = shown[s] /\ timer'[s] = timer[s]
<1>1. issued \in Nat
  BY SlotsAssumption DEF SessionInv, RestOK
<1>2. QED
  BY <1>1 DEF SessionInv, StorageOK, RestOK, ClearSession

\* One place gets another call; the others stay.
LEMMA PlaceStep ==
    ASSUME SessionInv, issued' = issued, NEW c \in All, NEW call,
           calls' = [calls EXCEPT ![c] = call],
           call \in CallType,
           c \in Tabs => call.step \in {"idle", "refresh"},
           call.step = "refresh" => c = call.tab,
           call.reply = "ok" /\ call.step \in {"login", "refresh", "renew"} => call.got > 0,
           call.step = "retry" => call.bearer = call.got
    PROVE  CallsOK' /\ calls'[c] = call /\ \A d \in All \ {c} : calls'[d] = calls[d]
<1>1. DOMAIN calls = All /\ calls = [d \in All |-> calls[d]]
  BY DEF SessionInv, CallsOK
<1>2. calls' = [d \in All |-> calls'[d]] /\ calls'[c] = call /\ \A d \in All \ {c} : calls'[d] = calls[d]
  BY <1>1
<1>3. CallType' = CallType
  BY DEF CallType
<1>4. QED
  BY <1>2, <1>3 DEF SessionInv, CallsOK, CallOK

-----------------------------------------------------------------------------
\* What a user does in a tab, and its timer.
LEMMA UserStep ==
    ASSUME SessionInv, NEW t \in Tabs, NEW c \in Slots,
           (\E rememberMe \in BOOLEAN : Login(t, c, rememberMe)) \/ Logout(t, c) \/ Use(t, c)
    PROVE  SessionInv'
<1>1. c \in All /\ c \notin Tabs /\ issued \in Nat
  BY SlotsAssumption DEF All, SessionInv, RestOK
<1>2. Token(t) \in 0..issued /\ 0 \in 0..issued /\ \A step : Bearer(t, step) \in 0..issued
  BY <1>1, TokenType DEF SessionInv
<1>3. {"login", "logout", "api"} \subseteq Steps
  BY DEF Steps
<1>4. ASSUME NEW rememberMe \in BOOLEAN, Login(t, c, rememberMe)
      PROVE  SessionInv'
  <2> DEFINE call == Request(t, "login", 0, Bearer(t, "login"))
  <2>1. /\ call \in CallType /\ call.step = "login" /\ call.reply = "waiting"
    BY <1>2, <1>3, RequestType
  <2>2. /\ calls' = [calls EXCEPT ![c] = call] /\ UNCHANGED <<server, storage, open, reloads>>
        /\ remember' = rememberMe
    BY <1>4 DEF Login, Sent
  <2> HIDE DEF call
  <2>3. CallsOK' /\ \A d \in All \ {c} : calls'[d] = calls[d]
    BY <1>1, <2>1, <2>2, PlaceStep DEF server
  <2>4. QED
    BY <1>1, <2>2, <2>3 DEF SessionInv, StorageOK, RestOK, Scheduled, All, server, storage
<1>5. ASSUME Use(t, c)
      PROVE  SessionInv'
  <2> DEFINE call == Request(t, "api", 0, Bearer(t, "api"))
  <2>1. /\ call \in CallType /\ call.step = "api" /\ call.reply = "waiting"
    BY <1>2, <1>3, RequestType
  <2>2. /\ calls' = [calls EXCEPT ![c] = call]
        /\ UNCHANGED <<server, storage, remember, open, reloads>>
    BY <1>5 DEF Use, Sent
  <2> HIDE DEF call
  <2>3. CallsOK' /\ \A d \in All \ {c} : calls'[d] = calls[d]
    BY <1>1, <2>1, <2>2, PlaceStep DEF server
  <2>4. QED
    BY <1>1, <2>2, <2>3 DEF SessionInv, StorageOK, RestOK, Scheduled, All, server, storage
<1>6. ASSUME Logout(t, c)
      PROVE  SessionInv'
  <2> DEFINE call == Request(t, "logout", Token(t), 0)
  <2>1. /\ call \in CallType /\ call.step = "logout" /\ call.reply = "waiting"
    BY <1>2, <1>3, RequestType
  <2>2. /\ ClearSession(t) /\ UNCHANGED <<server, remember, reloads>>
        /\ \/ calls' = calls /\ Leave(t)
           \/ calls' = [calls EXCEPT ![c] = call] /\ open' = open
    BY <1>6 DEF Logout
  <2> HIDE DEF call
  <2>3. StorageOK' /\ ~ shown'[t]
        /\ \A s \in Tabs \ {t} : shown'[s] = shown[s] /\ timer'[s] = timer[s]
    BY <2>2, ClearStep DEF server
  <2>4. CallsOK' /\ \A d \in All \ {c} : calls'[d] = calls[d]
    <3>1. CASE calls' = calls
      BY <2>2, <3>1 DEF SessionInv, CallsOK, CallOK, CallType, server
    <3>2. CASE calls' = [calls EXCEPT ![c] = call]
      BY <1>1, <2>1, <2>2, <3>2, PlaceStep DEF server
    <3>3. QED
      BY <2>2, <3>1, <3>2
  <2>5. RestOK'
    BY <2>2 DEF SessionInv, RestOK, Leave, server
  <2>6. Scheduled'
    BY <1>1, <2>3, <2>4 DEF SessionInv, Scheduled, All
  <2>7. QED
    BY <2>3, <2>4, <2>5, <2>6 DEF SessionInv
<1>7. QED
  BY <1>4, <1>5, <1>6

LEMMA TimerStep ==
    ASSUME SessionInv, NEW t \in Tabs, TimerFires(t)
    PROVE  SessionInv'
<1>1. t \in All /\ issued \in Nat /\ Token(t) \in 0..issued /\ \A step : Bearer(t, step) \in 0..issued
  <2>1. issued \in Nat
    BY SlotsAssumption DEF SessionInv, RestOK
  <2>2. QED
    BY <2>1, TokenType DEF SessionInv, All
<1>2. UNCHANGED <<server, remember, open, reloads>>
  BY DEF TimerFires
<1>3. RestOK'
  BY <1>2 DEF SessionInv, RestOK, server
<1>4. CASE Token(t) = 0
  <2>1. ClearSession(t) /\ calls' = calls
    BY <1>4 DEF TimerFires
  <2>2. StorageOK' /\ ~ shown'[t]
        /\ \A s \in Tabs \ {t} : shown'[s] = shown[s] /\ timer'[s] = timer[s]
    BY <1>2, <2>1, ClearStep DEF server
  <2>3. CallsOK'
    BY <1>2, <2>1 DEF SessionInv, CallsOK, CallOK, CallType, server
  <2>4. Scheduled'
    BY <2>1, <2>2 DEF SessionInv, Scheduled
  <2>5. QED
    BY <1>3, <2>2, <2>3, <2>4 DEF SessionInv
<1>5. CASE Token(t) # 0
  <2> DEFINE call == Request(t, "refresh", Token(t), Bearer(t, "refresh"))
  <2>1. /\ call \in CallType /\ call.step = "refresh" /\ call.tab = t /\ call.reply = "waiting"
        /\ call.alive
    BY <1>1, RequestType DEF Steps
  <2>2. /\ calls' = [calls EXCEPT ![t] = call] /\ timer' = [timer EXCEPT ![t] = FALSE]
        /\ UNCHANGED <<local, session, shown>>
    BY <1>5 DEF TimerFires, Sent
  <2> HIDE DEF call
  <2>3. CallsOK' /\ calls'[t] = call /\ \A d \in All \ {t} : calls'[d] = calls[d]
    BY <1>1, <1>2, <2>1, <2>2, PlaceStep DEF server
  <2>4. StorageOK'
    BY <1>2, <2>2 DEF SessionInv, StorageOK, server
  <2>5. Scheduled'
    BY <2>1, <2>2, <2>3 DEF SessionInv, StorageOK, Scheduled, All
  <2>6. QED
    BY <1>3, <2>3, <2>4, <2>5 DEF SessionInv
<1>6. QED
  BY <1>4, <1>5

LEMMA NavigateStep ==
    ASSUME SessionInv, NEW t \in Tabs, Navigate(t)
    PROVE  SessionInv'
<1>1. PICK there \in {FALSE, Admitted(t, shown[t])} : open' = [open EXCEPT ![t] = there]
  BY DEF Navigate
<1>2. Admitted(t, shown[t]) \in BOOLEAN
  BY DEF Admitted
<1>3. open' \in [Tabs -> BOOLEAN]
  BY <1>1, <1>2 DEF SessionInv, RestOK
<1>4. UNCHANGED <<server, storage, remember, calls, reloads>>
  BY DEF Navigate
<1>5. CallsOK'
  BY <1>4 DEF SessionInv, CallsOK, CallOK, CallType, server
<1>6. QED
  BY <1>3, <1>4, <1>5 DEF SessionInv, StorageOK, RestOK, Scheduled, server, storage

\* A page that is loaded again reads the storage, and sets its timer if it shows a user.
LEMMA ReloadStep ==
    ASSUME SessionInv, NEW t \in Tabs, Reload(t)
    PROVE  SessionInv'
<1>1. /\ UNCHANGED <<server, local, session, remember>> /\ reloads < MaxReloads
      /\ reloads' = reloads + 1
      /\ shown' = [shown EXCEPT ![t] = Token(t) # 0] /\ timer' = [timer EXCEPT ![t] = Token(t) # 0]
      /\ open' = [open EXCEPT ![t] = Admitted(t, Token(t) # 0)]
      /\ calls' = [c \in DOMAIN calls |->
                     IF calls[c].tab = t THEN [calls[c] EXCEPT !.alive = FALSE] ELSE calls[c]]
  BY DEF Reload
<1>2. (Token(t) # 0) \in BOOLEAN /\ Admitted(t, Token(t) # 0) \in BOOLEAN
  BY DEF Admitted
<1>3. StorageOK'
  BY <1>1, <1>2 DEF SessionInv, StorageOK, server
<1>4. RestOK'
  BY <1>1, <1>2, SlotsAssumption DEF SessionInv, RestOK, server
<1>5. DOMAIN calls = All
  BY DEF SessionInv, CallsOK
<1>6. CallsOK'
  <2>1. calls' = [c \in All |-> calls'[c]]
    BY <1>1, <1>5
  <2>2. ASSUME NEW c \in All
        PROVE  CallOK(c)'
    <3>1. CallOK(c) /\ CallType' = CallType
      BY <1>1 DEF SessionInv, CallsOK, CallType, server
    <3>2. CASE calls[c].tab = t
      <4>1. calls'[c] = [calls[c] EXCEPT !.alive = FALSE]
        BY <1>1, <1>5, <3>2
      <4>2. calls'[c] \in CallType /\ calls'[c].step = calls[c].step /\ calls'[c].tab = calls[c].tab
            /\ calls'[c].reply = calls[c].reply /\ calls'[c].got = calls[c].got
            /\ calls'[c].bearer = calls[c].bearer
        BY <3>1, <4>1 DEF CallOK, CallType
      <4>3. QED
        BY <3>1, <4>2 DEF CallOK
    <3>3. CASE calls[c].tab # t
      <4>1. calls'[c] = calls[c]
        BY <1>1, <1>5, <3>3
      <4>2. QED
        BY <3>1, <4>1 DEF CallOK
    <3>4. QED
      BY <3>2, <3>3
  <2>3. QED
    BY <2>1, <2>2 DEF CallsOK
<1>7. Scheduled'
  <2> SUFFICES ASSUME NEW s \in Tabs, shown'[s]
               PROVE  timer'[s] \/ (calls'[s].step = "refresh" /\ calls'[s].alive)
    BY DEF Scheduled
  <2>1. CASE s = t
    BY <1>1, <2>1 DEF SessionInv, StorageOK
  <2>2. CASE s # t
    <3>1. s \in All /\ shown[s] /\ timer'[s] = timer[s]
      BY <1>1, <2>2 DEF SessionInv, StorageOK, All
    <3>2. calls[s].step = "refresh" => calls[s].tab = s
      BY <3>1 DEF SessionInv, CallsOK, CallOK
    <3>3. calls[s].step = "refresh" => calls'[s] = calls[s]
      BY <1>1, <1>5, <2>2, <3>1, <3>2
    <3>4. QED
      BY <3>1, <3>3 DEF SessionInv, Scheduled
  <2>3. QED
    BY <2>1, <2>2
<1>8. QED
  BY <1>3, <1>4, <1>6, <1>7 DEF SessionInv

-----------------------------------------------------------------------------
\* The API answers a call without a new pair.
LEMMA ReplyStep ==
    ASSUME SessionInv, NEW c \in All, NEW how \in Replies, Reply(c, how),
           issued' = issued, refreshIds' \subseteq refreshIds,
           how = "ok" => calls[c].step \in {"logout", "api", "retry"},
           UNCHANGED <<storage, remember, open, reloads>>
    PROVE  SessionInv'
<1> DEFINE call == [calls[c] EXCEPT !.reply = how]
<1>1. DOMAIN calls = All /\ CallOK(c)
  BY DEF SessionInv, CallsOK
<1>2. /\ call \in CallType /\ call.step = calls[c].step /\ call.tab = calls[c].tab
      /\ call.bearer = calls[c].bearer /\ call.got = calls[c].got /\ call.reply = how
      /\ call.alive = calls[c].alive
  BY <1>1 DEF CallOK, CallType
<1>3. calls' = [calls EXCEPT ![c] = call]
  BY DEF Reply
<1> HIDE DEF call
<1>4. CallsOK' /\ calls'[c] = call /\ \A d \in All \ {c} : calls'[d] = calls[d]
  BY <1>1, <1>2, <1>3, PlaceStep DEF CallOK
<1>5. \A d \in All : calls'[d].step = calls[d].step /\ calls'[d].alive = calls[d].alive
  BY <1>2, <1>4
<1>6. Scheduled'
  BY <1>5 DEF SessionInv, Scheduled, All, storage
<1>7. QED
  BY <1>4, <1>6 DEF SessionInv, StorageOK, RestOK, storage

\* The API issues a pair.
LEMMA IssueStep ==
    ASSUME SessionInv, NEW c \in All, NEW used, Issue(c, used),
           UNCHANGED <<storage, remember, open, reloads>>,
           calls[c].step \in {"login", "refresh", "renew"}
    PROVE  SessionInv'
<1> DEFINE n == issued + 1
           call == [calls[c] EXCEPT !.reply = "ok", !.got = n]
<1>1. DOMAIN calls = All /\ calls = [d \in All |-> calls[d]] /\ \A d \in All : CallOK(d)
  BY DEF SessionInv, CallsOK
<1>2. /\ issued \in Nat /\ issued' = n /\ n \in 0..MaxPairs
      /\ refreshIds' \subseteq refreshIds \union {n}
  BY SlotsAssumption DEF SessionInv, RestOK, Issue
<1>3. calls' = [calls EXCEPT ![c] = call]
  BY DEF Issue
<1>4. calls'[c] = call /\ \A d \in All \ {c} : calls'[d] = calls[d]
  BY <1>1, <1>3
<1>5. CallType \subseteq CallType'
  BY <1>2 DEF CallType
<1>6. /\ call \in CallType' /\ call.step = calls[c].step /\ call.tab = calls[c].tab
      /\ call.got = n /\ call.alive = calls[c].alive
  <2>1. calls[c] \in CallType'
    BY <1>1, <1>5 DEF CallOK
  <2>2. n \in 0..issued' /\ "ok" \in Replies
    BY <1>2 DEF Replies
  <2>3. QED
    BY <2>1, <2>2 DEF CallType
<1>7. n > 0
  BY <1>2
<1> HIDE DEF call, n
<1>8. CallOK(c)'
  BY <1>1, <1>4, <1>6, <1>7 DEF CallOK
<1>9. \A d \in All \ {c} : CallOK(d)'
  BY <1>1, <1>4, <1>5 DEF CallOK
<1>10. CallsOK'
  BY <1>1, <1>3, <1>8, <1>9 DEF CallsOK
<1>11. StorageOK'
  BY <1>2 DEF SessionInv, StorageOK, storage, n
<1>12. RestOK'
  BY <1>2 DEF SessionInv, RestOK, n
<1>13. Scheduled'
  BY <1>4, <1>6 DEF SessionInv, Scheduled, All, storage
<1>14. QED
  BY <1>10, <1>11, <1>12, <1>13 DEF SessionInv

LEMMA ServeStep ==
    ASSUME SessionInv, NEW c \in All, Serve(c)
    PROVE  SessionInv'
<1>1. UNCHANGED <<storage, remember, open, reloads>>
  BY DEF Serve
<1>2. {"ok", "401", "403", "failed"} \subseteq Replies
  BY DEF Replies
<1>3. ASSUME NEW used, Issue(c, used), calls[c].step \in {"login", "refresh", "renew"}
      PROVE  SessionInv'
  BY <1>1, <1>3, IssueStep
<1>4. ASSUME NEW how \in {"401", "403", "failed"}, Reply(c, how), UNCHANGED server
      PROVE  SessionInv'
  BY <1>1, <1>2, <1>4, ReplyStep DEF server
<1>5. CASE Reply(c, "ok") /\ calls[c].step \in {"logout", "api", "retry"} /\ issued' = issued
           /\ refreshIds' \subseteq refreshIds
  BY <1>1, <1>2, <1>5, ReplyStep
<1>6. CASE Refuse(c)
  BY <1>4, <1>6 DEF Refuse
<1>7. QED
  BY <1>3, <1>4, <1>5, <1>6 DEF Serve, server

LEMMA RestartStep ==
    ASSUME SessionInv, Restart
    PROVE  SessionInv'
<1>1. /\ reloads' \in 0..MaxReloads /\ refreshIds' = {}
      /\ UNCHANGED <<issued, storage, remember, open, calls>>
  BY SlotsAssumption DEF SessionInv, RestOK, Restart
<1>2. CallsOK'
  BY <1>1 DEF SessionInv, CallsOK, CallOK, CallType
<1>3. QED
  BY <1>1, <1>2 DEF SessionInv, StorageOK, RestOK, Scheduled, storage

-----------------------------------------------------------------------------
\* The place of a call that is over is free.
LEMMA DoneStep ==
    ASSUME SessionInv, NEW c \in All, Done(c), issued' = issued
    PROVE  CallsOK' /\ \A d \in All \ {c} : calls'[d] = calls[d]
<1>1. NoCall \in CallType /\ NoCall.step = "idle"
  <2>1. issued \in Nat
    BY SlotsAssumption DEF SessionInv, RestOK
  <2>2. QED
    BY <2>1, NoCallType
<1>2. calls' = [calls EXCEPT ![c] = NoCall]
  BY DEF Done
<1>3. QED
  BY <1>1, <1>2, PlaceStep

\* What an answer does to the tab it is for: it signs in, signs out, or stays.
TabChange(t) ==
    \/ \E n \in 1..issued : SaveSession(t, n)
    \/ ClearSession(t)
    \/ UNCHANGED storage

LEMMA AnswerStep ==
    ASSUME SessionInv, NEW c \in All, Answer(c)
    PROVE  SessionInv'
<1> DEFINE t == calls[c].tab
<1>1. /\ CallOK(c) /\ t \in Tabs /\ calls[c].reply # "waiting" /\ issued \in Nat /\ c \in All
      /\ calls[c].got \in 0..issued
  BY SlotsAssumption DEF SessionInv, CallsOK, CallOK, CallType, RestOK, Answer
<1>2. UNCHANGED <<server, remember, reloads>>
  BY DEF Answer
<1> HIDE DEF t
<1>3. ASSUME open' \in [Tabs -> BOOLEAN]
      PROVE  RestOK'
  BY <1>2, <1>3 DEF SessionInv, RestOK, server
<1>4. Leave(t) => open' \in [Tabs -> BOOLEAN]
  BY DEF Leave, SessionInv, RestOK
<1>5. open' = open => open' \in [Tabs -> BOOLEAN]
  BY DEF SessionInv, RestOK
<1>6. open' = [open EXCEPT ![t] = TRUE] => open' \in [Tabs -> BOOLEAN]
  BY DEF SessionInv, RestOK
\* The call is over, and the tab is signed in or out, or was not to be refreshed.
<1>7. ASSUME Done(c), TabChange(t), open' \in [Tabs -> BOOLEAN],
             UNCHANGED storage => calls[c].step # "refresh" \/ ~ calls[c].alive
      PROVE  SessionInv'
  <2>1. CallsOK' /\ \A d \in All \ {c} : calls'[d] = calls[d]
    BY <1>2, <1>7, DoneStep DEF server
  <2>2. CASE UNCHANGED storage
    <3>1. Scheduled'
      BY <1>1, <1>7, <2>1, <2>2 DEF SessionInv, Scheduled, All, storage
    <3>2. StorageOK'
      BY <1>2, <2>2 DEF SessionInv, StorageOK, storage, server
    <3>3. QED
      BY <1>3, <1>7, <2>1, <3>1, <3>2 DEF SessionInv
  <2>3. ASSUME \/ \E n \in 1..issued : SaveSession(t, n)
               \/ ClearSession(t)
        PROVE  SessionInv'
    <3>1. StorageOK' /\ (shown'[t] => timer'[t])
          /\ \A s \in Tabs \ {t} : shown'[s] = shown[s] /\ timer'[s] = timer[s]
      BY <1>1, <1>2, <2>3, SaveStep, ClearStep DEF server
    <3>2. \A s \in Tabs \ {t} : calls[s].step = "refresh" => calls'[s] = calls[s]
      <4>1. c \in Tabs \ {t} => calls[c].step # "refresh"
        BY <1>1 DEF CallOK, t
      <4>2. QED
        BY <2>1, <4>1 DEF All
    <3>3. Scheduled'
      BY <3>1, <3>2 DEF SessionInv, Scheduled
    <3>4. QED
      BY <1>3, <1>7, <2>1, <3>1, <3>3 DEF SessionInv
  <2>4. QED
    BY <1>7, <2>2, <2>3 DEF TabChange
\* The call is followed by another one at its place, which was not a refresh.
<1>8. ASSUME NEW call \in CallType, calls' = [calls EXCEPT ![c] = call],
             call.step \in {"renew", "retry"}, call.reply = "waiting",
             call.step = "retry" => call.bearer = call.got,
             calls[c].step \in {"api", "renew"}, TabChange(t), open' \in [Tabs -> BOOLEAN]
      PROVE  SessionInv'
  <2>1. c \notin Tabs
    BY <1>1, <1>8 DEF CallOK
  <2>2. CallsOK' /\ \A d \in All \ {c} : calls'[d] = calls[d]
    BY <1>2, <1>8, <2>1, PlaceStep DEF server
  <2>3. \A s \in Tabs : calls'[s] = calls[s]
    BY <2>1, <2>2 DEF All
  <2>4. CASE UNCHANGED storage
    BY <1>2, <1>3, <1>8, <2>2, <2>3, <2>4 DEF SessionInv, StorageOK, Scheduled, storage, server
  <2>5. ASSUME \/ \E n \in 1..issued : SaveSession(t, n)
               \/ ClearSession(t)
        PROVE  SessionInv'
    <3>1. StorageOK' /\ (shown'[t] => timer'[t])
          /\ \A s \in Tabs \ {t} : shown'[s] = shown[s] /\ timer'[s] = timer[s]
      BY <1>1, <1>2, <2>5, SaveStep, ClearStep DEF server
    <3>2. Scheduled'
      BY <2>3, <3>1 DEF SessionInv, Scheduled
    <3>3. QED
      BY <1>3, <1>8, <2>2, <3>1, <3>2 DEF SessionInv
  <2>6. QED
    BY <1>8, <2>4, <2>5 DEF TabChange
<1>9. CASE ~ calls[c].alive
  BY <1>5, <1>7, <1>9 DEF Answer, TabChange
<1>10. calls[c].reply = "ok" /\ calls[c].step \in {"login", "refresh", "renew"} => calls[c].got \in 1..issued
  BY <1>1 DEF CallOK
<1>11. ASSUME LoginAnswered(c, t)
       PROVE  SessionInv'
  BY <1>4, <1>5, <1>6, <1>7, <1>10, <1>11 DEF LoginAnswered, SignOut, TabChange
<1>12. ASSUME LogoutAnswered(c, t)
       PROVE  SessionInv'
  BY <1>4, <1>7, <1>12 DEF LogoutAnswered, SignOut, TabChange
<1>13. ASSUME RefreshAnswered(c, t)
       PROVE  SessionInv'
  <2>1. /\ Done(c) /\ open' \in [Tabs -> BOOLEAN]
        /\ (\E n \in 1..issued : SaveSession(t, n)) \/ ClearSession(t)
    BY <1>4, <1>5, <1>10, <1>13 DEF RefreshAnswered, SignOut
  <2>2. TabChange(t)
    BY <2>1 DEF TabChange
  <2>3. CASE ~ UNCHANGED storage
    BY <1>7, <2>1, <2>2, <2>3
  <2>4. CASE UNCHANGED storage
    <3>1. StorageOK' /\ (shown'[t] => timer'[t])
      BY <1>1, <1>2, <2>1, SaveStep, ClearStep DEF server
    <3>2. CallsOK' /\ \A d \in All \ {c} : calls'[d] = calls[d]
      BY <1>2, <2>1, DoneStep DEF server
    <3>3. c = t
      BY <1>1, <1>13 DEF RefreshAnswered, CallOK, t
    <3>4. Scheduled'
      BY <2>4, <3>1, <3>2, <3>3 DEF SessionInv, Scheduled, All, storage
    <3>5. QED
      BY <1>3, <2>1, <3>1, <3>2, <3>4 DEF SessionInv
  <2>5. QED
    BY <2>3, <2>4
<1>14. ASSUME ApiAnswered(c, t)
       PROVE  SessionInv'
  <2> DEFINE call == Request(t, "renew", Token(t), Bearer(t, "renew"))
  <2>1. call \in CallType /\ call.step = "renew" /\ call.reply = "waiting"
    <3>1. Token(t) \in 0..issued /\ Bearer(t, "renew") \in 0..issued
      BY <1>1, TokenType DEF SessionInv
    <3>2. QED
      BY <1>1, <3>1, RequestType DEF Steps
  <2> HIDE DEF call
  <2>2. CASE Sent(c, t, "renew", Token(t)) /\ UNCHANGED <<storage, open>>
    BY <1>5, <1>8, <1>14, <2>1, <2>2 DEF ApiAnswered, Sent, TabChange, call
  <2>3. CASE Done(c)
    BY <1>4, <1>5, <1>7, <1>14, <2>3 DEF ApiAnswered, SignOut, TabChange
  <2>4. QED
    BY <1>14, <2>2, <2>3 DEF ApiAnswered
<1>15. ASSUME RenewAnswered(c, t)
       PROVE  SessionInv'
  <2>1. CASE Done(c) /\ SignOut(t)
    BY <1>4, <1>7, <1>15, <2>1 DEF RenewAnswered, SignOut, TabChange
  <2>2. CASE calls[c].reply = "ok" /\ SaveSession(t, calls[c].got)
    <3> DEFINE n == calls[c].got
               token == IF local' # 0 THEN local' ELSE session'[t]
               call == [Request(t, "retry", 0, token) EXCEPT !.got = n]
    <3>1. n \in 1..issued /\ calls[c].step = "renew"
      BY <1>10, <1>15, <2>2 DEF RenewAnswered
    <3>2. token = n
      BY <1>1, <2>2, <3>1 DEF SaveSession, SessionInv, StorageOK
    <3>3. calls' = [calls EXCEPT ![c] = call] /\ open' = open
      BY <1>15, <2>2 DEF RenewAnswered
    <3> HIDE DEF token, n
    <3>4. /\ call \in CallType /\ call.step = "retry" /\ call.reply = "waiting"
          /\ call.bearer = n /\ call.got = n
      <4>1. n \in 0..issued
        BY <1>1, <3>1
      <4> DEFINE req == Request(t, "retry", 0, n)
      <4> HIDE DEF call, t
      <4>2. req \in CallType /\ req.step = "retry" /\ req.reply = "waiting" /\ req.bearer = n
        <5>1. t \in Tabs /\ n \in 0..issued
          BY <1>1, <4>1
        <5>2. QED
          BY <5>1, RetryType
      <4>3. call = [req EXCEPT !.got = n]
        BY <3>2 DEF call
      <4> HIDE DEF req, call
      <4>4. QED
        BY <4>1, <4>2, <4>3 DEF CallType
    <3> HIDE DEF call
    <3>5. TabChange(t)
      BY <2>2, <3>1 DEF TabChange, n
    <3>6. QED
      BY <1>5, <1>8, <3>1, <3>3, <3>4, <3>5
  <2>3. QED
    BY <1>15, <2>1, <2>2 DEF RenewAnswered
<1>16. ASSUME RetryAnswered(c, t)
       PROVE  SessionInv'
  BY <1>4, <1>5, <1>7, <1>16 DEF RetryAnswered, SignOut, TabChange
<1>17. QED
  BY <1>9, <1>11, <1>12, <1>13, <1>14, <1>15, <1>16 DEF Answer, t

LEMMA SessionStep ==
    ASSUME SessionInv, [Next]_vars
    PROVE  SessionInv'
<1>1. CASE UNCHANGED vars
  BY <1>1 DEF SessionInv, StorageOK, CallsOK, CallOK, CallType, RestOK, Scheduled, vars, server, storage
<1>2. QED
  BY <1>1, UserStep, NavigateStep, TimerStep, ReloadStep, ServeStep, AnswerStep, RestartStep
  DEF Next, All

LEMMA SessionInvariant == Spec => []SessionInv
  BY InitSession, SessionStep, PTL DEF Spec

\* The API, the browser's storage and the calls keep their types.
THEOREM TypeCorrect == Spec => []TypeOK
  BY SessionInvariant, Consequences, PTL

\* A tab that shows a user has its refresh timer set or that refresh under way.
THEOREM RefreshesScheduled == Spec => []RefreshScheduled
  BY SessionInvariant, Consequences, PTL

\* A call is sent again with the access token its own refresh has brought.
THEOREM RetriesFresh == Spec => []RetryIsFresh
  BY SessionInvariant, Consequences, PTL

-----------------------------------------------------------------------------
(***************************************************************************)
(* Live notifications.                                                     *)
(***************************************************************************)
\* The client still holds what its clock said when the loss was noticed.
Noted ==
    /\ manager \in {"opening", "backoff", "up"} => tries < MaxTries
    /\ since = noted

\* A recovery asks for what is newer than that time, and what it owes was
\* committed before the table was read.
Covers(f) ==
    /\ f.since = f.noted
    /\ f.owed \subseteq events
    /\ f.rows \subseteq events
    /\ f.read => f.owed \subseteq f.rows

\* The inductive invariant.
LiveInv == LiveTypeOK /\ Noted /\ \A f \in fetches : Covers(f)

LEMMA LiveStart ==
    ASSUME LiveInit
    PROVE  LiveInv
<1>1. LiveTypeOK
  <2>1. hasConnected \in BOOLEAN /\ failTimer \in BOOLEAN
    BY DEF LiveInit
  <2>2. QED
    BY <2>1, EventsAssumption DEF LiveInit, LiveTypeOK, States
<1>2. Noted /\ \A f \in fetches : Covers(f)
  BY EventsAssumption DEF LiveInit, Noted, Never
<1>3. QED
  BY <1>1, <1>2 DEF LiveInv

LEMMA RoomType == \A c \in Consumers : Room(c) \in Rooms
  BY DEF Rooms

\* The client closes its socket, or makes a new one.
LEMMA ClosedStep ==
    ASSUME LiveInv, Disconnect \/ Open,
           mounted' \subseteq Consumers, todo' \subseteq mounted',
           UNCHANGED <<ledger, fetches, seen>>
    PROVE  LiveInv'
<1>1. LiveTypeOK'
  <2>1. hasConnected' \in BOOLEAN /\ failTimer' \in BOOLEAN
    BY DEF Disconnect, Open
  <2>2. QED
    BY <2>1, EventsAssumption DEF LiveInv, LiveTypeOK, Disconnect, Open, Unlinked, States,
       BrowserTime, Never, ledger
<1>2. Noted'
  <2>1. begun \in 0..MaxEvents
    BY DEF LiveInv, LiveTypeOK
  <2>2. QED
    BY <2>1, EventsAssumption DEF Noted, Disconnect, Open, BrowserTime, Never
<1>3. \A f \in fetches' : Covers(f)'
  BY DEF LiveInv, Covers, ledger
<1>4. QED
  BY <1>1, <1>2, <1>3 DEF LiveInv

LEMMA MountStep ==
    ASSUME LiveInv, NEW c \in Consumers, Mount(c)
    PROVE  LiveInv'
<1>1. /\ mounted' = mounted \union {c} /\ mounted' \subseteq Consumers /\ todo' \subseteq mounted'
      /\ UNCHANGED <<ledger, fetches, seen>>
  BY DEF LiveInv, LiveTypeOK, Mount
<1>2. PICK a \in SUBSET Rooms : Connect(a)
  BY RoomType DEF Mount
<1>3. CASE Open
  BY <1>1, <1>3, ClosedStep
<1>4. CASE /\ asks' = asks \union a
           /\ UNCHANGED <<client, conn, rooms, acks, mail, outage>>
  <2>1. LiveTypeOK'
    BY <1>1, <1>4 DEF LiveInv, LiveTypeOK, client, ledger, outage, Never
  <2>2. Noted' /\ \A f \in fetches' : Covers(f)'
    BY <1>1, <1>4 DEF LiveInv, Noted, Covers, client, ledger, outage, Never
  <2>3. QED
    BY <2>1, <2>2 DEF LiveInv
<1>5. QED
  BY <1>2, <1>3, <1>4 DEF Connect

LEMMA LeaveStep ==
    ASSUME LiveInv,
           \/ \E c \in Consumers : Unmount(c)
           \/ PageHide \/ Retry \/ Online
    PROVE  LiveInv'
<1>1. Disconnect \/ Open
  BY DEF Unmount, PageHide, Retry, Online
<1>2. mounted' \subseteq Consumers /\ todo' \subseteq mounted'
  BY DEF LiveInv, LiveTypeOK, Unmount, Untold, PageHide, Retry, Online, screen
<1>3. UNCHANGED <<ledger, fetches, seen>>
  BY DEF Unmount, PageHide, Retry, Online
<1>4. QED
  BY <1>1, <1>2, <1>3, ClosedStep

LEMMA ConnectedStep ==
    ASSUME LiveInv, Connected
    PROVE  LiveInv'
<1> DEFINE new == [since |-> since, read |-> FALSE, rows |-> {},
                   noted |-> noted, owed |-> owed]
<1>1. \A c \in todo : Room(c) \in Rooms
  BY RoomType DEF LiveInv, LiveTypeOK
<1>2. since # Never => new \in Fetch /\ Covers(new)
  BY EventsAssumption DEF LiveInv, LiveTypeOK, Fetch, Never, Noted, Covers
<1>3. fetches' = fetches \/ (since # Never /\ fetches' = fetches \union {new})
  BY DEF Connected
<1> HIDE DEF new
<1>4. fetches' \subseteq Fetch /\ \A f \in fetches' : Covers(f)
  BY <1>2, <1>3 DEF LiveInv, LiveTypeOK
<1>5. UNCHANGED ledger
  BY DEF Connected
<1>6. LiveTypeOK'
  <2>1. hasConnected' \in BOOLEAN /\ failTimer' \in BOOLEAN
    BY DEF Connected
  <2>2. QED
    BY <1>1, <1>4, <2>1, EventsAssumption DEF LiveInv, LiveTypeOK, Connected, States,
       Resubscribed, ledger, Never
<1>7. Noted'
  BY EventsAssumption DEF Noted, Connected, Never
<1>8. QED
  BY <1>4, <1>5, <1>6, <1>7 DEF LiveInv, Covers, ledger

\* The handlers that leave the recoveries as they are.
LEMMA HandlerStep ==
    ASSUME LiveInv,
           ConnectError \/ TryAgain \/ Lost \/ Offline \/ FailTimerFires
    PROVE  LiveInv'
<1> USE DEF screen, channel, ledger, States, MarkReconnecting
<1>1. UNCHANGED <<ledger, fetches>>
  BY DEF ConnectError, TryAgain, Lost, Offline, FailTimerFires
<1>2. \A f \in fetches' : Covers(f)'
  BY <1>1 DEF LiveInv, Covers
<1>3. CASE ConnectError
  <2>1. hasConnected' \in BOOLEAN /\ failTimer' \in BOOLEAN
    BY <1>3 DEF LiveInv, LiveTypeOK, ConnectError
  <2>2. tries' \in 0..MaxTries /\ (manager' \in {"opening", "backoff", "up"} => tries' < MaxTries)
    BY <1>3, EventsAssumption DEF LiveInv, Noted, LiveTypeOK, ConnectError
  <2>3. LiveTypeOK'
    BY <1>3, <2>1, <2>2 DEF LiveInv, LiveTypeOK, ConnectError, SinceAfterError, outage, Never
  <2>4. Noted'
    BY <1>3, <2>2 DEF LiveInv, Noted, ConnectError, SinceAfterError, outage, Never
  <2>5. QED
    BY <1>2, <2>3, <2>4 DEF LiveInv
<1>4. CASE TryAgain
  BY <1>2, <1>4 DEF LiveInv, Noted, LiveTypeOK, TryAgain, outage, Never
<1>5. CASE Lost
  <2>1. begun \in 0..MaxEvents /\ manager = "up"
    BY <1>5 DEF LiveInv, LiveTypeOK, Lost
  <2>2. Noted'
    BY <1>5, <2>1, EventsAssumption DEF LiveInv, Noted, Lost, BrowserTime, Never
  <2>3. LiveTypeOK'
    BY <1>5, EventsAssumption DEF LiveInv, LiveTypeOK, Lost, Unlinked, BrowserTime, Never
  <2>4. QED
    BY <1>2, <2>2, <2>3 DEF LiveInv
<1>6. CASE Offline
  BY <1>2, <1>6 DEF LiveInv, Noted, LiveTypeOK, Offline, outage, Never
<1>7. CASE FailTimerFires
  BY <1>2, <1>7 DEF LiveInv, Noted, LiveTypeOK, FailTimerFires, outage, Never
<1>8. QED
  BY <1>3, <1>4, <1>5, <1>6, <1>7

\* The tab's other handlers, the gateway and the network.
LEMMA LinkStep ==
    ASSUME LiveInv,
           \/ \E room \in Rooms : Acked(room) \/ Join(room) \/ NotYet(room)
           \/ \E e \in 1..begun : Notified(e)
           \/ Verified \/ LinkLost
    PROVE  LiveInv'
<1> USE DEF client, screen, ledger, outage, Never
<1>1. UNCHANGED <<manager, tries, since, fetches, ledger, outage>>
  BY DEF Acked, Join, NotYet, Notified, Verified, LinkLost
<1>2. Noted' /\ \A f \in fetches' : Covers(f)'
  BY <1>1 DEF LiveInv, Noted, Covers
<1>3. ASSUME NEW room \in Rooms, Acked(room)
      PROVE  LiveTypeOK'
  BY <1>3 DEF LiveInv, LiveTypeOK, Acked
<1>4. ASSUME NEW room \in Rooms, Join(room) \/ NotYet(room)
      PROVE  LiveTypeOK'
  BY <1>4 DEF LiveInv, LiveTypeOK, Join, NotYet
<1>5. ASSUME NEW e \in 1..begun, Notified(e)
      PROVE  LiveTypeOK'
  BY <1>5 DEF LiveInv, LiveTypeOK, Notified
<1>6. CASE Verified \/ LinkLost
  <2>1. LiveTypeOK'
    BY <1>6 DEF LiveInv, LiveTypeOK, Verified, LinkLost
  <2>2. QED
    BY <1>2, <2>1 DEF LiveInv
<1>7. QED
  BY <1>2, <1>3, <1>4, <1>5, <1>6 DEF LiveInv

\* The table is read for a recovery, or the recovery ends.
LEMMA FetchStep ==
    ASSUME LiveInv, NEW f \in fetches, FindAll(f) \/ Recovered(f) \/ NotRecovered(f)
    PROVE  LiveInv'
<1> USE DEF client, screen, channel, ledger, outage, Never
<1>1. UNCHANGED <<manager, tries, since, ledger, outage>>
  BY DEF FindAll, Recovered, NotRecovered
<1>2. Noted'
  BY <1>1 DEF LiveInv, Noted
<1>3. CASE FindAll(f)
  <2> DEFINE new == [f EXCEPT !.read = TRUE, !.rows = events]
  <2>1. fetches' = (fetches \ {f}) \union {new}
    BY <1>3 DEF FindAll
  <2>2. new \in Fetch /\ Covers(new)
    <3>1. f \in Fetch /\ Covers(f) /\ events \subseteq 1..MaxEvents
      BY EventsAssumption DEF LiveInv, LiveTypeOK
    <3>2. QED
      BY <3>1 DEF Fetch, Covers
  <2> HIDE DEF new
  <2>3. fetches' \subseteq Fetch /\ \A g \in fetches' : Covers(g)
    BY <2>1, <2>2 DEF LiveInv, LiveTypeOK
  <2>4. LiveTypeOK'
    BY <1>3, <2>3 DEF LiveInv, LiveTypeOK, FindAll
  <2>5. QED
    BY <1>1, <1>2, <2>3, <2>4 DEF LiveInv, Covers
<1>4. CASE Recovered(f) \/ NotRecovered(f)
  <2>1. fetches' \subseteq fetches
    BY <1>4 DEF Recovered, NotRecovered
  <2>2. \A g \in fetches' : Covers(g)'
    BY <1>1, <2>1 DEF LiveInv, Covers
  <2>3. seen' \subseteq 1..begun
    <3>1. f.rows \subseteq 1..begun
      BY DEF LiveInv, LiveTypeOK, Covers
    <3>2. QED
      BY <1>4, <3>1 DEF LiveInv, LiveTypeOK, Recovered, NotRecovered
  <2>4. LiveTypeOK'
    BY <1>4, <2>1, <2>3 DEF LiveInv, LiveTypeOK, Recovered, NotRecovered
  <2>5. QED
    BY <1>2, <2>2, <2>4 DEF LiveInv
<1>5. QED
  BY <1>3, <1>4

LEMMA AppendStep ==
    ASSUME LiveInv,
           \/ AppendBegins
           \/ \E e \in 1..begun : AppendCommits(e) \/ AppendFails(e) \/ EmitLedgerEvent(e)
    PROVE  LiveInv'
<1> USE DEF client, screen, channel, outage, Never
<1>1. UNCHANGED <<manager, tries, since, noted, fetches>> /\ events \subseteq events'
  BY DEF AppendBegins, AppendCommits, AppendFails, EmitLedgerEvent
<1>2. Noted' /\ \A f \in fetches' : Covers(f)'
  BY <1>1 DEF LiveInv, Noted, Covers
<1>3. CASE AppendBegins
  <2>1. begun' = begun + 1 /\ begun' \in 0..MaxEvents /\ begun \in Nat
    BY <1>3, EventsAssumption DEF LiveInv, LiveTypeOK, AppendBegins
  <2>2. 1..begun' = (1..begun) \union {begun'} /\ begun' \notin 1..begun
    BY <2>1
  <2>3. LiveTypeOK'
    BY <1>3, <2>1, <2>2 DEF LiveInv, LiveTypeOK, AppendBegins
  <2>4. QED
    BY <1>2, <2>3 DEF LiveInv
<1>4. ASSUME NEW e \in 1..begun, AppendCommits(e)
      PROVE  LiveTypeOK'
  BY <1>4 DEF LiveInv, LiveTypeOK, AppendCommits
<1>5. ASSUME NEW e \in 1..begun, AppendFails(e)
      PROVE  LiveTypeOK'
  BY <1>5 DEF LiveInv, LiveTypeOK, AppendFails
<1>6. ASSUME NEW e \in 1..begun, EmitLedgerEvent(e)
      PROVE  LiveTypeOK'
  BY <1>6 DEF LiveInv, LiveTypeOK, EmitLedgerEvent
<1>7. QED
  BY <1>2, <1>3, <1>4, <1>5, <1>6 DEF LiveInv

LEMMA LiveStep ==
    ASSUME LiveInv, [LiveNext]_(liveVars)
    PROVE  LiveInv'
<1>1. CASE UNCHANGED liveVars
  BY <1>1 DEF liveVars, client, screen, channel, ledger, outage, LiveInv, LiveTypeOK, Noted, Covers, Never
<1>2. QED
  BY <1>1, MountStep, LeaveStep, ConnectedStep, HandlerStep, LinkStep, FetchStep, AppendStep
  DEF LiveNext

LEMMA LiveInvariant == LiveSpec => []LiveInv
<1>1. LiveInit => LiveInv
  BY LiveStart
<1>2. LiveInv /\ [LiveNext]_(liveVars) => LiveInv'
  BY LiveStep
<1>3. QED
  BY <1>1, <1>2, PTL DEF LiveSpec

\* The tab's and the gateway's state keep their types: a socket that is up has a
\* connection at the gateway, which answers only for rooms it has joined.
THEOREM LiveTypeCorrect == LiveSpec => []LiveTypeOK
<1>1. LiveInv => LiveTypeOK
  BY DEF LiveInv
<1>2. QED
  BY <1>1, LiveInvariant, PTL

\* A recovery that is answered gives what was committed from the time the loss was
\* noticed until the connection was back and had not begun before the browser's clock
\* at the notice, for any number of appends that commit in any order, any error of
\* that clock and any number of tries.
THEOREM OutagesRecovered == LiveSpec => OutageRecovered
<1>1. ASSUME LiveInv, NEW f \in fetches, Recovered(f)
      PROVE  {e \in f.owed : e > f.noted} \subseteq seen'
  <2>1. f.since = f.noted /\ f.owed \subseteq f.rows
    BY <1>1 DEF LiveInv, Covers, Recovered
  <2>2. QED
    BY <1>1, <2>1 DEF Recovered
<1>2. LiveInv /\ [LiveNext]_(liveVars) =>
        [\A f \in fetches :
           Recovered(f) => {e \in f.owed : e > f.noted} \subseteq seen']_(liveVars)
  BY <1>1
<1>3. QED
  BY <1>2, LiveInvariant, PTL DEF LiveSpec, OutageRecovered

-----------------------------------------------------------------------------
(***************************************************************************)
(* The order pages.                                                        *)
(***************************************************************************)
\* A set of natural numbers has a least element.
LEMMA LeastNumber ==
    ASSUME NEW M \in SUBSET Nat, M # {}
    PROVE  \E m \in M : \A n \in M : m <= n
<1> DEFINE R == OpToRel(<, Nat)
<1>1. PICK m \in M : \A n \in M : ~ (<<n, m>> \in R)
  <2> HIDE DEF R
  <2>1. IsWellFoundedOn(R, Nat)
    BY NatLessThanWellFounded DEF R
  <2>2. QED
    BY <2>1, WFMin
<1>2. ASSUME NEW n \in M
      PROVE  m <= n
  <2>1. ~ (n < m)
    BY <1>1 DEF OpToRel
  <2>2. QED
    BY <2>1
<1>3. QED
  BY <1>2

\* Each number up to the size of a finite set of indices is the rank of one of them.
LEMMA RankTaken ==
    ASSUME NEW b \in Nat, NEW A \in SUBSET (1..b), NEW n \in 1..Cardinality(A)
    PROVE  Ranked(A, n) \in A
<1> DEFINE Upto(m) == {j \in A : j <= m}
           M == {m \in Nat : n <= Cardinality(Upto(m))}
<1>1. \A j \in A : j \in Int /\ 1 <= j /\ j <= b
  OBVIOUS
<1>2. \A m \in Nat : Upto(m) \in SUBSET A
  OBVIOUS
<1>3. Upto(0) = {} /\ Upto(b) = A
  <2>1. \A j \in A : ~ (j <= 0) /\ j <= b
    BY <1>1
  <2>2. QED
    BY <2>1
<1>4. ASSUME NEW m \in Nat
      PROVE  /\ m \notin Upto(m - 1)
             /\ Upto(m) = IF m \in A THEN Upto(m - 1) \union {m} ELSE Upto(m - 1)
  <2>1. \A j \in A : j <= m - 1 <=> j <= m /\ j # m
    BY <1>1
  <2>2. ~ (m <= m - 1) /\ m <= m
    OBVIOUS
  <2>3. m \notin Upto(m - 1)
    BY <2>2
  <2>4. \A j : j \in Upto(m) <=> j \in Upto(m - 1) \/ (j \in A /\ j = m)
    BY <2>1, <2>2
  <2> HIDE DEF Upto
  <2>5. QED
    BY <2>3, <2>4
<1>5. M \in SUBSET Nat /\ \A m \in Nat : m \in M <=> n <= Cardinality(Upto(m))
  OBVIOUS
<1> HIDE DEF Upto, M
<1>6. IsFiniteSet(A)
  <2>1. IsFiniteSet(1..b)
    BY FS_Interval
  <2>2. QED
    BY <2>1, FS_Subset
<1>7. \A m \in Nat : IsFiniteSet(Upto(m)) /\ Cardinality(Upto(m)) \in Nat
  <2>1. \A m \in Nat : IsFiniteSet(Upto(m))
    BY <1>2, <1>6, FS_Subset
  <2>2. QED
    BY <2>1, FS_CardinalityType
<1>8. Cardinality(A) \in Nat /\ n \in Nat /\ 1 <= n /\ n <= Cardinality(A)
  BY <1>6, FS_CardinalityType
<1>9. PICK m \in M : \A k \in M : m <= k
  <2>1. b \in M
    BY <1>3, <1>5, <1>8
  <2>2. QED
    BY <1>5, <2>1, LeastNumber
<1>10. m \in Nat /\ n <= Cardinality(Upto(m))
  BY <1>5
<1>11. m # 0
  <2>1. Cardinality(Upto(0)) = 0
    BY <1>3, FS_EmptySet
  <2>2. QED
    BY <1>8, <1>10, <2>1
<1>12. m - 1 \in Nat /\ ~ (m <= m - 1)
  BY <1>10, <1>11
<1>13. ~ (n <= Cardinality(Upto(m - 1)))
  BY <1>5, <1>9, <1>12
<1>14. m \in A
  BY <1>4, <1>10, <1>13
<1>15. Cardinality(Upto(m)) = Cardinality(Upto(m - 1)) + 1
  <2>1. Upto(m) = Upto(m - 1) \union {m} /\ m \notin Upto(m - 1)
    BY <1>4, <1>10, <1>14
  <2>2. IsFiniteSet(Upto(m - 1))
    BY <1>7, <1>12
  <2>3. QED
    BY <2>1, <2>2, FS_AddElement
<1>16. Cardinality(Upto(m)) = n
  <2>1. \A c \in Nat : ~ (n <= c) /\ n <= c + 1 => c + 1 = n
    BY <1>8
  <2>2. Cardinality(Upto(m - 1)) \in Nat
    BY <1>7, <1>12
  <2>3. QED
    BY <1>10, <1>13, <1>15, <2>1, <2>2
<1>17. \E i \in A : Cardinality({j \in A : j <= i}) = n
  BY <1>14, <1>16 DEF Upto
<1>18. QED
  BY <1>17 DEF Ranked

\* What a filter leaves is a sequence of elements that pass it.
LEMMA FilterElements ==
    ASSUME NEW T, NEW s \in Seq(T), NEW K
    PROVE  /\ Filter(s, K) \in Seq(T)
           /\ Len(Filter(s, K)) <= Len(s)
           /\ \A n \in 1..Len(Filter(s, K)) :
                 \E i \in 1..Len(s) : Filter(s, K)[n] = s[i] /\ s[i] \in K
<1> DEFINE at == {i \in 1..Len(s) : s[i] \in K}
           size == Cardinality(at)
           f == [n \in 1..size |-> s[Ranked(at, n)]]
<1>1. Len(s) \in Nat /\ at \in SUBSET (1..Len(s)) /\ \A i \in at : s[i] \in K
  OBVIOUS
<1>2. Filter(s, K) = f
  BY DEF Filter
<1> HIDE DEF at
<1>3. size \in Nat /\ size <= Len(s)
  <2>1. IsFiniteSet(1..Len(s)) /\ Cardinality(1..Len(s)) = IF 1 > Len(s) THEN 0 ELSE Len(s) - 1 + 1
    BY <1>1, FS_Interval
  <2>2. Cardinality(1..Len(s)) = Len(s)
    BY <1>1, <2>1
  <2>3. IsFiniteSet(at) /\ Cardinality(at) <= Len(s)
    BY <1>1, <2>1, <2>2, FS_Subset
  <2>4. Cardinality(at) \in Nat
    BY <2>3, FS_CardinalityType
  <2>5. QED
    BY <2>3, <2>4
<1>4. \A n \in 1..size : Ranked(at, n) \in at
  <2>1. \A n \in 1..Cardinality(at) : Ranked(at, n) \in at
    BY <1>1, RankTaken
  <2>2. QED
    BY <2>1
<1>5. \A n \in 1..size : \E i \in 1..Len(s) : s[Ranked(at, n)] = s[i] /\ s[i] \in K
  BY <1>1, <1>4
<1> HIDE DEF size
<1>6. f \in Seq(T) /\ Len(f) = size /\ \A n \in 1..size : f[n] = s[Ranked(at, n)]
  <2>1. ASSUME NEW n \in 1..size
        PROVE  s[Ranked(at, n)] \in T
    <3>1. Ranked(at, n) \in 1..Len(s)
      BY <1>1, <1>4
    <3>2. \A i \in 1..Len(s) : s[i] \in T
      OBVIOUS
    <3>3. QED
      BY <3>1, <3>2
  <2>2. QED
    BY <1>3, <2>1
<1> HIDE DEF f
<1>7. QED
  BY <1>2, <1>3, <1>5, <1>6

LEMMA SliceElements ==
    ASSUME NEW T, NEW s \in Seq(T), NEW p \in Nat \ {0}
    PROVE  /\ Slice(s, p) \in Seq(T)
           /\ Len(Slice(s, p)) <= PageSize
           /\ \A n \in 1..Len(Slice(s, p)) :
                 \E i \in 1..Len(s) : Slice(s, p)[n] = s[i]
<1> DEFINE first == (p - 1) * PageSize
           size == IF Len(s) <= first THEN 0
                   ELSE IF Len(s) - first < PageSize THEN Len(s) - first ELSE PageSize
           f == [i \in 1..size |-> s[first + i]]
<1>1. first \in Nat /\ PageSize \in Nat /\ Len(s) \in Nat
  <2>1. p - 1 \in Nat /\ PageSize \in Nat
    BY BoardAssumption
  <2>2. \A a, b \in Nat : a * b \in Nat
    OBVIOUS
  <2>3. QED
    BY <2>1, <2>2
<1>2. Slice(s, p) = f
  BY DEF Slice
<1> HIDE DEF first
<1>3. size \in Nat /\ size <= PageSize
  BY <1>1
<1>4. \A i \in 1..size : first + i \in 1..Len(s)
  BY <1>1
<1> HIDE DEF size
<1>5. f \in Seq(T) /\ Len(f) = size
  BY <1>3, <1>4
<1>6. QED
  BY <1>2, <1>3, <1>4, <1>5

\* One element is taken out, the others stay.
LEMMA RemoveElement ==
    ASSUME NEW T, NEW s \in Seq(T), NEW k \in 1..Len(s)
    PROVE  /\ RemoveAt(s, k) \in Seq(T)
           /\ Len(RemoveAt(s, k)) = Len(s) - 1
           /\ \A n \in 1..Len(RemoveAt(s, k)) :
                 \E i \in 1..Len(s) : RemoveAt(s, k)[n] = s[i]
           /\ \A i \in 1..Len(s) : i # k =>
                 \E n \in 1..Len(RemoveAt(s, k)) : RemoveAt(s, k)[n] = s[i]
<1> DEFINE t == SubSeq(s, 1, k - 1) \o SubSeq(s, k + 1, Len(s))
<1>1. t = RemoveAt(s, k)
  BY DEF RemoveAt
<1>2. t \in Seq(T) /\ Len(t) = Len(s) - 1 /\ \A i \in 1..Len(t) : t[i] = IF i < k THEN s[i] ELSE s[i + 1]
  <2> DEFINE a == SubSeq(s, 1, k - 1)
             b == SubSeq(s, k + 1, Len(s))
  <2>1. a \in Seq(T) /\ Len(a) = k - 1 /\ \A i \in 1..(k - 1) : a[i] = s[i]
    OBVIOUS
  <2>2. b \in Seq(T) /\ Len(b) = Len(s) - k /\ \A i \in 1..(Len(s) - k) : b[i] = s[k + i]
    OBVIOUS
  <2> HIDE DEF a, b
  <2>3. /\ a \o b \in Seq(T) /\ Len(a \o b) = Len(s) - 1
        /\ \A i \in 1..(Len(s) - 1) : (a \o b)[i] = IF i <= k - 1 THEN a[i] ELSE b[i - (k - 1)]
    BY <2>1, <2>2
  <2>4. ASSUME NEW i \in 1..(Len(s) - 1)
        PROVE  (a \o b)[i] = IF i < k THEN s[i] ELSE s[i + 1]
    <3>1. CASE i < k
      BY <2>1, <2>3, <3>1
    <3>2. CASE ~ (i < k)
      <4>1. i - (k - 1) \in 1..(Len(s) - k) /\ k + (i - (k - 1)) = i + 1 /\ ~ (i <= k - 1)
        BY <3>2
      <4>2. QED
        BY <2>2, <2>3, <3>2, <4>1
    <3>3. QED
      BY <3>1, <3>2
  <2>5. QED
    BY <2>3, <2>4 DEF a, b
<1> HIDE DEF t
<1>3. \A n \in 1..Len(t) : \E i \in 1..Len(s) : t[n] = s[i]
  <2> SUFFICES ASSUME NEW n \in 1..Len(t)
               PROVE  \E i \in 1..Len(s) : t[n] = s[i]
    OBVIOUS
  <2>1. n \in 1..Len(s) /\ n + 1 \in 1..Len(s)
    BY <1>2
  <2>2. QED
    BY <1>2, <2>1
<1>4. \A i \in 1..Len(s) : i # k => \E n \in 1..Len(t) : t[n] = s[i]
  <2> SUFFICES ASSUME NEW i \in 1..Len(s), i # k
               PROVE  \E n \in 1..Len(t) : t[n] = s[i]
    OBVIOUS
  <2>1. CASE i < k
    BY <1>2, <2>1
  <2>2. CASE i > k
    <3>1. i - 1 \in 1..Len(t) /\ ~ (i - 1 < k) /\ (i - 1) + 1 = i
      BY <1>2, <2>2
    <3>2. QED
      BY <1>2, <3>1
  <2>3. QED
    BY <2>1, <2>2
<1>5. QED
  BY <1>1, <1>2, <1>3, <1>4

\* The new value is in the place of the old one.
LEMMA ReplaceElement ==
    ASSUME NEW T, NEW s \in Seq(T), NEW k \in 1..Len(s), NEW e \in T
    PROVE  /\ [s EXCEPT ![k] = e] \in Seq(T)
           /\ Len([s EXCEPT ![k] = e]) = Len(s)
           /\ \A i \in 1..Len(s) : [s EXCEPT ![k] = e][i] = IF i = k THEN e ELSE s[i]
  OBVIOUS

LEMMA AppendElement ==
    ASSUME NEW T, NEW s \in Seq(T), NEW e \in T
    PROVE  /\ Append(s, e) \in Seq(T)
           /\ Len(Append(s, e)) = Len(s) + 1
           /\ \A i \in 1..Len(s) : Append(s, e)[i] = s[i]
           /\ Append(s, e)[Len(s) + 1] = e
  OBVIOUS

LEMMA HeadElement ==
    ASSUME NEW T, NEW s \in Seq(T), s # <<>>
    PROVE  /\ Head(s) \in T /\ Head(s) = s[1] /\ Len(s) >= 1
           /\ Tail(s) \in Seq(T) /\ Len(Tail(s)) = Len(s) - 1
           /\ \A i \in 1..(Len(s) - 1) : Tail(s)[i] = s[i + 1]
  OBVIOUS

LEMMA EmptySeq == \A T : \A s \in Seq(T) : Len(s) = 0 => s = <<>>
  OBVIOUS

\* The answers a saved change waits for.
LEMMA RepliedType ==
    ASSUME BoardTypeOK, NEW u, NEW phase \in {"answered", "refused"}
    PROVE  /\ Replied(u, phase) \in Seq(Calls)
           /\ Len(Replied(u, phase)) = Len(requests)
           /\ \A k \in 1..Len(requests) :
                 LET c == Replied(u, phase)[k]
                 IN /\ c.kind = requests[k].kind /\ c.arg = requests[k].arg
                    /\ c.want = requests[k].want /\ c.rows = requests[k].rows
<1> DEFINE made(c) == c.kind = "set" /\ c.phase = "saved" /\ u = [o |-> Mine, s |-> c.want]
           new(c) == IF made(c) THEN [c EXCEPT !.phase = phase] ELSE c
           f == [k \in 1..Len(requests) |-> new(requests[k])]
<1>1. Replied(u, phase) = f
  BY DEF Replied
<1>2. requests \in Seq(Calls) /\ \A k \in 1..Len(requests) : requests[k] \in Calls
  BY DEF BoardTypeOK
<1> HIDE DEF made
<1>3. ASSUME NEW c \in Calls
      PROVE  /\ new(c) \in Calls /\ new(c).kind = c.kind /\ new(c).arg = c.arg
             /\ new(c).want = c.want /\ new(c).rows = c.rows
  BY DEF Calls
<1> HIDE DEF new
<1>4. /\ f \in Seq(Calls) /\ Len(f) = Len(requests)
      /\ \A k \in 1..Len(requests) : f[k] = new(requests[k])
  BY <1>2, <1>3
<1> HIDE DEF f
<1>5. QED
  BY <1>1, <1>2, <1>3, <1>4

LEMMA FoundType ==
    ASSUME BoardTypeOK, NEW f
    PROVE  /\ Found(f) \in Seq(Line)
           /\ \A n \in 1..Len(Found(f)) : Found(f)[n].s = rows[Found(f)[n].o]
<1> DEFINE at(i) == LET o == MaxOrders + 1 - i IN [o |-> o, s |-> rows[o]]
           all == [i \in Orders |-> at(i)]
           K == {line \in Line : Matches(f, line.s)}
           AnyLine == [o : Orders, s : Statuses \union {"none"}]
<1>1. Found(f) = Filter(all, K)
  BY DEF Found
<1>2. \A i \in Orders : at(i) \in AnyLine /\ at(i).s = rows[at(i).o]
  BY BoardAssumption DEF BoardTypeOK, Orders
<1>3. K \subseteq Line
  OBVIOUS
<1> HIDE DEF at, K, AnyLine
<1>4. all \in Seq(AnyLine) /\ \A i \in 1..Len(all) : all[i].s = rows[all[i].o]
  BY <1>2, BoardAssumption DEF Orders
<1> HIDE DEF all
<1> DEFINE r == Filter(all, K)
<1>5. /\ r \in Seq(AnyLine)
      /\ \A n \in 1..Len(r) : \E i \in 1..Len(all) : r[n] = all[i] /\ all[i] \in K
  BY <1>4, FilterElements
<1> HIDE DEF r
<1>6. \A n \in 1..Len(r) : r[n] \in Line /\ r[n].s = rows[r[n].o]
  BY <1>3, <1>4, <1>5
<1>7. r \in Seq(Line)
  BY <1>5, <1>6
<1>8. QED
  BY <1>1, <1>6, <1>7 DEF r

\* A line is no newer than the order's row.
Known(l, r) == Rank(l.s) <= Rank(r[l.o])

\* A page of the list, as it is shown and as an answer brings it: it says one thing
\* of an order, and nothing newer than the row.
PageOK(s, r) ==
    /\ s \in Seq(Line) /\ Len(s) <= PageSize
    /\ \A i, j \in 1..Len(s) : s[i].o = s[j].o => s[i].s = s[j].s
    /\ \A i \in 1..Len(s) : Known(s[i], r)

\* A call of page p.
RequestOK(c, r, p) ==
    /\ PageOK(c.rows, r)
    /\ c.kind = "list" => c.arg # 0
    /\ c.kind = "set" => c.want # "any"
    /\ p = "list" => c.kind = "list"
    /\ p = "detail" => c.kind # "list"

RequestsOK(c, r, p) == \A i \in 1..Len(c) : RequestOK(c[i], r, p)

\* News of order o is to come, among the events m or with the changes u.
Awaited(o, m, u) == (\E i \in 1..Len(m) : m[i].o = o) \/ \E n \in u : n.o = o

\* What says s of order o is right, or is late, or is about to be told.
Told(o, s, r, l, m, u) == s = r[o] \/ o \in l \/ Awaited(o, m, u)

NewsInv ==
    /\ \A n \in unsent : Known(n, rows)
    /\ \A i \in 1..Len(updates) : Known(updates[i], rows)
    /\ link = "lost" => updates = <<>>

RequestInv == RequestsOK(requests, rows, page)

ListInv ==
    /\ PageOK(lines, rows)
    /\ page = "list" => \A i \in 1..Len(lines) :
           Told(lines[i].o, lines[i].s, rows, late, updates, unsent)

DetailInv ==
    page = "detail" /\ order # "none" =>
        Told(Mine, order, rows, late, updates, unsent) \/ Reading(requests)

NoPage ==
    page = "none" => requests = <<>> /\ lines = <<>> /\ order = "none" /\ updates = <<>>

\* The inductive invariant.
BoardInv == BoardTypeOK /\ NewsInv /\ RequestInv /\ ListInv /\ DetailInv /\ NoPage

\* A step that leaves the rows and the page alone.
LEMMA BoardQuiet ==
    ASSUME BoardInv, BoardTypeOK', link' = "lost" => link = "lost" \/ updates' = <<>>,
           UNCHANGED <<rows, unsent, updates, requests, page, lines, order, late>>
    PROVE  BoardInv'
<1>1. NewsInv' /\ RequestInv'
  BY DEF BoardInv, NewsInv, RequestInv, RequestsOK, Known, RequestOK, PageOK
<1>2. ListInv' /\ DetailInv' /\ NoPage'
  BY DEF BoardInv, ListInv, DetailInv, NoPage, PageOK, Known, Told, Awaited, Reading
<1>3. QED
  BY <1>1, <1>2 DEF BoardInv

LEMMA BoardStart ==
    ASSUME BoardInit
    PROVE  BoardInv
<1>1. BoardTypeOK
  <2>1. /\ rows \in [Orders -> Statuses \union {"none"}]
        /\ sockets \in [Conns -> {"unused", "verify", "done"}]
    BY DEF BoardInit, Statuses
  <2>2. <<>> \in Seq(Line) /\ <<>> \in Seq(Calls) /\ Len(<<>>) = 0
    OBVIOUS
  <2>3. loading \in BOOLEAN
    BY DEF BoardInit
  <2>4. QED
    BY <2>1, <2>2, <2>3, BoardAssumption DEF BoardInit, BoardTypeOK
<1>2. NewsInv /\ RequestInv /\ DetailInv /\ NoPage
  BY DEF BoardInit, NewsInv, RequestInv, RequestsOK, DetailInv, NoPage
<1>3. PageOK(lines, rows) /\ page # "list"
  <2>1. <<>> \in Seq(Line) /\ Len(<<>>) = 0
    OBVIOUS
  <2>2. QED
    BY <2>1, BoardAssumption DEF BoardInit, PageOK
<1>4. QED
  BY <1>1, <1>2, <1>3 DEF BoardInv, ListInv

\* The gateway leaves the rows alone, and the page too while the link holds.
LEMMA GatewayStep ==
    ASSUME BoardInv, NEW c \in Conns,
           SocketAccepted(c) \/ Rejected(c) \/ Disconnected(c)
           \/ PingTimeout(c) \/ Reconnect(c)
    PROVE  BoardInv'
<1> USE DEF table, gateway, socket, list
<1>1. CASE SocketAccepted(c)
  <2>1. BoardTypeOK'
    BY <1>1 DEF BoardInv, BoardTypeOK, SocketAccepted
  <2>2. QED
    BY <1>1, <2>1, BoardQuiet DEF SocketAccepted
<1>2. CASE Rejected(c)
  <2>1. BoardTypeOK'
    BY <1>2 DEF BoardInv, BoardTypeOK, Rejected, Close
  <2>2. QED
    BY <1>2, <2>1, BoardQuiet DEF Rejected, Close
<1>3. CASE Disconnected(c)
  <2>1. BoardTypeOK'
    BY <1>3 DEF BoardInv, BoardTypeOK, Disconnected
  <2>2. QED
    BY <1>3, <2>1, BoardQuiet DEF Disconnected
<1>4. CASE PingTimeout(c)
  <2>1. BoardTypeOK'
    BY <1>4 DEF BoardInv, BoardTypeOK, PingTimeout, Close
  <2>2. QED
    BY <1>4, <2>1, BoardQuiet DEF PingTimeout, Close
<1>5. CASE Reconnect(c)
  <2>1. updates' = updates
    BY <1>5 DEF BoardInv, NewsInv, Reconnect, SocketOpened
  <2>2. BoardTypeOK'
    BY <1>5, <2>1 DEF BoardInv, BoardTypeOK, Reconnect, SocketOpened
  <2>3. QED
    BY <1>5, <2>1, <2>2, BoardQuiet DEF Reconnect, SocketOpened
<1>6. QED
  BY <1>1, <1>2, <1>3, <1>4, <1>5

\* What is shown of an order is what the list is given for it.
LEMMA GivenOf ==
    ASSUME NEW r, NEW s, PageOK(s, r), NEW i \in 1..Len(s)
    PROVE  Given(s, s[i].o) = s[i].s /\ s[i].s # "none"
<1>1. \E j \in 1..Len(s) : s[j].o = s[i].o
  OBVIOUS
<1>2. s[i] \in Line
  BY DEF PageOK
<1>3. s[i].s \in Statuses
  BY <1>2 DEF Line
<1>4. QED
  BY <1>1, <1>3 DEF PageOK, Given, Statuses

LEMMA LinkLostStep ==
    ASSUME BoardInv, SocketLost
    PROVE  BoardInv'
<1> USE DEF table, gateway, list
<1>1. /\ updates' = <<>> /\ link = "open" /\ link' = "lost"
      /\ late' = late \union {o \in Subjects(updates) : OnPage(o)}
      /\ UNCHANGED <<rows, unsent, requests, page, lines, order>>
  BY DEF SocketLost, Missed
<1>2. BoardTypeOK'
  <2>1. Subjects(updates) \subseteq Orders
    <3>1. \A i \in 1..Len(updates) : updates[i] \in Line
      BY DEF BoardInv, BoardTypeOK
    <3>2. QED
      BY <3>1 DEF Subjects, Line
  <2>2. <<>> \in Seq(Line)
    OBVIOUS
  <2>3. QED
    BY <1>1, <2>1, <2>2 DEF BoardInv, BoardTypeOK, SocketLost
<1>3. NewsInv' /\ RequestInv' /\ NoPage'
  BY <1>1 DEF BoardInv, NewsInv, RequestInv, RequestsOK, NoPage
<1>4. ListInv'
  <2>1. PageOK(lines', rows')
    BY <1>1 DEF BoardInv, ListInv
  <2>2. ASSUME page' = "list", NEW i \in 1..Len(lines')
        PROVE  Told(lines'[i].o, lines'[i].s, rows', late', updates', unsent')
    <3>1. Told(lines[i].o, lines[i].s, rows, late, updates, unsent)
      BY <1>1, <2>2 DEF BoardInv, ListInv
    <3>2. Given(lines, lines[i].o) # "none"
      BY <1>1, GivenOf DEF BoardInv, ListInv
    <3>3. (\E n \in 1..Len(updates) : updates[n].o = lines[i].o) => lines[i].o \in late'
      BY <1>1, <2>2, <3>2 DEF Subjects, OnPage
    <3>4. QED
      BY <1>1, <3>1, <3>3 DEF Told, Awaited
  <2>3. QED
    BY <2>1, <2>2 DEF ListInv
<1>5. DetailInv'
  <2> SUFFICES ASSUME page' = "detail", order' # "none", ~ Reading(requests')
               PROVE  Told(Mine, order', rows', late', updates', unsent')
    BY DEF DetailInv
  <2>1. Told(Mine, order, rows, late, updates, unsent)
    BY <1>1 DEF BoardInv, DetailInv
  <2>2. (\E n \in 1..Len(updates) : updates[n].o = Mine) => Mine \in late'
    BY <1>1 DEF Subjects, OnPage
  <2>3. QED
    BY <1>1, <2>1, <2>2 DEF Told, Awaited
<1>6. QED
  BY <1>2, <1>3, <1>4, <1>5 DEF BoardInv

LEMMA RankFacts ==
    /\ \A s \in Statuses \union {"none"} : Rank(s) \in Nat
    /\ Rank("none") = 0 /\ Rank("pending") = 1
    /\ \A s \in Statuses : Rank(s) <= 1 => s = "pending"
  BY DEF Rank, Statuses

\* A row only moves on, so that what is no newer than it stays so.
LEMMA StaysKnown ==
    ASSUME NEW r \in [Orders -> Statuses \union {"none"}],
           NEW o \in Orders, NEW s \in Statuses, Rank(r[o]) < Rank(s),
           NEW l \in Line, Known(l, r)
    PROVE  Known(l, [r EXCEPT ![o] = s])
<1>1. l.o \in Orders /\ l.s \in Statuses
  BY DEF Line
<1>2. CASE l.o = o
  <2>1. Rank(l.s) <= Rank(r[o])
    BY <1>2 DEF Known
  <2>2. Rank(l.s) \in Nat /\ Rank(r[o]) \in Nat /\ Rank(s) \in Nat
    BY <1>1, RankFacts
  <2>3. Rank(l.s) <= Rank(s)
    BY <2>1, <2>2
  <2>4. [r EXCEPT ![o] = s][l.o] = s
    BY <1>1, <1>2
  <2>5. QED
    BY <2>3, <2>4 DEF Known
<1>3. CASE l.o # o
  <2>1. [r EXCEPT ![o] = s][l.o] = r[l.o]
    BY <1>1, <1>3
  <2>2. QED
    BY <2>1 DEF Known
<1>4. QED
  BY <1>2, <1>3

LEMMA PageStaysOK ==
    ASSUME NEW r \in [Orders -> Statuses \union {"none"}],
           NEW o \in Orders, NEW s \in Statuses, Rank(r[o]) < Rank(s),
           NEW p, PageOK(p, r)
    PROVE  PageOK(p, [r EXCEPT ![o] = s])
<1>1. \A i \in 1..Len(p) : p[i] \in Line /\ Known(p[i], r)
  BY DEF PageOK
<1>2. \A i \in 1..Len(p) : Known(p[i], [r EXCEPT ![o] = s])
  BY <1>1, StaysKnown
<1>3. QED
  BY <1>2 DEF PageOK

\* A row is saved: its news is to come.
LEMMA ChangedStep ==
    ASSUME BoardInv, NEW o \in Orders, NEW s \in Statuses,
           Rank(rows[o]) < Rank(s), Changed(o, s),
           requests' \in Seq(Calls), Len(requests') = Len(requests),
           \A k \in 1..Len(requests) :
              /\ requests'[k].kind = requests[k].kind /\ requests'[k].arg = requests[k].arg
              /\ requests'[k].want = requests[k].want /\ requests'[k].rows = requests[k].rows,
           UNCHANGED <<sockets, alive, registered, page, sock, link, updates, loading,
                       lines, total, pg, form, order, late>>
    PROVE  BoardInv'
<1> DEFINE n == [o |-> o, s |-> s]
           r == [rows EXCEPT ![o] = s]
<1>1. rows' = r /\ unsent' = unsent \union {n}
  BY DEF Changed
<1>2. rows \in [Orders -> Statuses \union {"none"}] /\ unsent \subseteq Line
  BY DEF BoardInv, BoardTypeOK
<1>3. n \in Line /\ n.o = o /\ n.s = s
  BY DEF Line
<1>4. /\ r \in [Orders -> Statuses \union {"none"}] /\ r[o] = s
      /\ \A q \in Orders : q # o => r[q] = rows[q]
  BY <1>2
<1>5. Known(n, r)
  <2>1. Rank(s) \in Nat
    BY RankFacts
  <2>2. Rank(s) <= Rank(s)
    BY <2>1
  <2>3. QED
    BY <1>3, <1>4, <2>2 DEF Known
<1>6. \A l \in Line : Known(l, rows) => Known(l, r)
  BY <1>2, StaysKnown
<1>7. \A p : PageOK(p, rows) => PageOK(p, r)
  BY <1>2, PageStaysOK
<1>8. ASSUME NEW q \in Orders, NEW t, Told(q, t, rows, late, updates, unsent)
      PROVE  Told(q, t, r, late, updates, unsent')
  <2>1. CASE q = o
    BY <1>1, <1>3, <2>1 DEF Told, Awaited
  <2>2. CASE q # o
    BY <1>1, <1>4, <1>8, <2>2 DEF Told, Awaited
  <2>3. QED
    BY <2>1, <2>2
<1> HIDE DEF n, r
<1>9. BoardTypeOK'
  BY <1>1, <1>2, <1>3, <1>4 DEF BoardInv, BoardTypeOK
<1>10. NewsInv'
  <2>1. \A i \in 1..Len(updates) : updates[i] \in Line
    BY DEF BoardInv, BoardTypeOK
  <2>2. QED
    BY <1>1, <1>2, <1>5, <1>6, <2>1 DEF BoardInv, NewsInv
<1>11. RequestInv'
  <2> SUFFICES ASSUME NEW k \in 1..Len(requests')
               PROVE  RequestOK(requests'[k], rows', page')
    BY DEF RequestInv, RequestsOK
  <2>1. RequestOK(requests[k], rows, page)
    BY DEF BoardInv, RequestInv, RequestsOK
  <2>2. QED
    BY <1>1, <1>7, <2>1 DEF RequestOK
<1>12. ListInv'
  <2>1. PageOK(lines', rows')
    BY <1>1, <1>7 DEF BoardInv, ListInv
  <2>2. ASSUME page' = "list", NEW i \in 1..Len(lines')
        PROVE  Told(lines'[i].o, lines'[i].s, rows', late', updates', unsent')
    <3>1. lines[i].o \in Orders
      <4>1. lines'[i] \in Line
        BY <2>1 DEF PageOK
      <4>2. QED
        BY <4>1 DEF Line
    <3>2. Told(lines[i].o, lines[i].s, rows, late, updates, unsent)
      BY <2>2 DEF BoardInv, ListInv
    <3>3. QED
      BY <1>1, <1>8, <3>1, <3>2
  <2>3. QED
    BY <2>1, <2>2 DEF ListInv
<1>13. DetailInv'
  <2> SUFFICES ASSUME page' = "detail", order' # "none", ~ Reading(requests')
               PROVE  Told(Mine, order', rows', late', updates', unsent')
    BY DEF DetailInv
  <2>1. ~ Reading(requests)
    BY DEF Reading
  <2>2. Told(Mine, order, rows, late, updates, unsent)
    BY <2>1 DEF BoardInv, DetailInv
  <2>3. Mine \in Orders
    BY BoardAssumption DEF Mine, Orders
  <2>4. QED
    BY <1>1, <1>8, <2>2, <2>3
<1>14. NoPage'
  <2>1. page' = "none" => requests' = <<>>
    <3>1. page' = "none" => Len(requests') = 0
      BY DEF BoardInv, NoPage
    <3>2. QED
      BY <3>1, EmptySeq
  <2>2. QED
    BY <2>1 DEF BoardInv, NoPage
<1>15. QED
  BY <1>9, <1>10, <1>11, <1>12, <1>13, <1>14 DEF BoardInv

\* The server answers calls; nothing else moves.
LEMMA AnsweredStep ==
    ASSUME BoardInv, requests' \in Seq(Calls), Len(requests') = Len(requests),
           \A k \in 1..Len(requests) :
              /\ requests'[k].kind = requests[k].kind
              /\ RequestOK(requests'[k], rows, page),
           UNCHANGED <<rows, unsent, sockets, alive, registered, page, sock, link, updates,
                       loading, lines, total, pg, form, order, late>>
    PROVE  BoardInv'
<1>1. BoardTypeOK'
  BY DEF BoardInv, BoardTypeOK
<1>2. NewsInv' /\ ListInv' /\ RequestInv'
  BY DEF BoardInv, NewsInv, ListInv, RequestInv, RequestsOK
<1>3. DetailInv'
  <2>1. Reading(requests) => Reading(requests')
    BY DEF Reading
  <2>2. QED
    BY <2>1 DEF BoardInv, DetailInv
<1>4. NoPage'
  <2>1. page' = "none" => Len(requests') = 0
    BY DEF BoardInv, NoPage
  <2>2. page' = "none" => requests' = <<>>
    BY <2>1, EmptySeq
  <2>3. QED
    BY <2>2 DEF BoardInv, NoPage
<1>5. QED
  BY <1>1, <1>2, <1>3, <1>4 DEF BoardInv

\* A page of what is found says what the rows say.
LEMMA FoundPage ==
    ASSUME BoardTypeOK, NEW f, NEW p \in Nat \ {0}
    PROVE  PageOK(Slice(Found(f), p), rows)
<1> DEFINE s == Found(f)
           q == Slice(s, p)
<1>1. s \in Seq(Line) /\ \A n \in 1..Len(s) : s[n].s = rows[s[n].o]
  BY FoundType
<1> HIDE DEF s
<1>2. /\ q \in Seq(Line) /\ Len(q) <= PageSize
      /\ \A n \in 1..Len(q) : \E i \in 1..Len(s) : q[n] = s[i]
  BY <1>1, SliceElements
<1> HIDE DEF q
<1>3. \A n \in 1..Len(q) : q[n] \in Line /\ q[n].s = rows[q[n].o]
  BY <1>1, <1>2
<1>4. \A n \in 1..Len(q) : Known(q[n], rows)
  <2> SUFFICES ASSUME NEW n \in 1..Len(q)
               PROVE  Known(q[n], rows)
    OBVIOUS
  <2>1. q[n].s \in Statuses
    BY <1>3 DEF Line
  <2>2. Rank(q[n].s) \in Nat
    BY <2>1, RankFacts
  <2>3. Rank(q[n].s) <= Rank(q[n].s)
    BY <2>2
  <2>4. QED
    BY <1>3, <2>3 DEF Known
<1>5. PageOK(q, rows)
  BY <1>2, <1>3, <1>4 DEF PageOK
<1>6. QED
  BY <1>5 DEF q, s

LEMMA CreateStep ==
    ASSUME BoardInv, NEW o \in Orders, Create(o)
    PROVE  BoardInv'
<1>1. Rank(rows[o]) < Rank("pending") /\ "pending" \in Statuses
  BY RankFacts DEF Create, Statuses
<1>2. requests' = requests /\ requests \in Seq(Calls)
  BY DEF BoardInv, BoardTypeOK, Create
<1>3. QED
  BY <1>1, <1>2, ChangedStep DEF Create, gateway, socket, list

LEMMA ChangeStep ==
    ASSUME BoardInv, NEW o \in Orders, NEW s \in Statuses,
           Change(o, s)
    PROVE  BoardInv'
<1>1. Rank(rows[o]) < Rank(s)
  BY DEF Change, MayBecome
<1>2. requests' = requests /\ requests \in Seq(Calls)
  BY DEF BoardInv, BoardTypeOK, Change
<1>3. QED
  BY <1>1, <1>2, ChangedStep DEF Change, gateway, socket, list

LEMMA SetStep ==
    ASSUME BoardInv, NEW k \in 1..Len(requests), Set(k)
    PROVE  BoardInv'
<1>1. PICK phase \in {"saved", "refused"} : requests' = [requests EXCEPT ![k].phase = phase]
  BY DEF Set
<1> DEFINE g == [requests[k] EXCEPT !.phase = phase]
<1>2. requests \in Seq(Calls) /\ requests[k] \in Calls
  BY DEF BoardInv, BoardTypeOK
<1>3. /\ g \in Calls /\ g.kind = requests[k].kind /\ g.arg = requests[k].arg
      /\ g.want = requests[k].want /\ g.rows = requests[k].rows
  BY <1>2 DEF Calls
<1>4. requests' = [requests EXCEPT ![k] = g]
  BY <1>1, <1>2
<1> HIDE DEF g
<1>5. /\ requests' \in Seq(Calls) /\ Len(requests') = Len(requests)
      /\ \A i \in 1..Len(requests) : requests'[i] = IF i = k THEN g ELSE requests[i]
  BY <1>2, <1>3, <1>4, ReplaceElement
<1>6. \A i \in 1..Len(requests) :
         /\ requests'[i].kind = requests[i].kind /\ requests'[i].arg = requests[i].arg
         /\ requests'[i].want = requests[i].want /\ requests'[i].rows = requests[i].rows
  BY <1>3, <1>5
<1>7. CASE MayBecome(rows[Mine], requests[k].want)
  <2>1. requests[k].want \in Statuses
    <3>1. requests[k].want # "any"
      BY DEF Set, BoardInv, RequestInv, RequestsOK, RequestOK
    <3>2. QED
      BY <1>2, <3>1 DEF Calls
  <2>2. Mine \in Orders
    BY BoardAssumption DEF Mine, Orders
  <2>3. Rank(rows[Mine]) < Rank(requests[k].want)
    BY <1>7 DEF MayBecome
  <2>4. Changed(Mine, requests[k].want)
    BY <1>7 DEF Set
  <2>5. QED
    BY <1>5, <1>6, <2>1, <2>2, <2>3, <2>4, ChangedStep
       DEF Set, gateway, socket, list
<1>8. CASE ~ MayBecome(rows[Mine], requests[k].want)
  <2>1. ASSUME NEW i \in 1..Len(requests)
        PROVE  RequestOK(requests'[i], rows, page)
    <3>1. RequestOK(requests[i], rows, page)
      BY DEF BoardInv, RequestInv, RequestsOK
    <3>2. QED
      BY <1>6, <3>1 DEF RequestOK
  <2>2. QED
    BY <1>5, <1>6, <1>8, <2>1, AnsweredStep
       DEF Set, table, gateway, socket, list
<1>9. QED
  BY <1>7, <1>8

\* One call is answered with g.
LEMMA OneAnswered ==
    ASSUME BoardInv, NEW k \in 1..Len(requests), NEW g \in Calls,
           g.kind = requests[k].kind, RequestOK(g, rows, page),
           requests' = [requests EXCEPT ![k] = g],
           UNCHANGED <<rows, unsent, sockets, alive, registered, page, sock, link, updates,
                       loading, lines, total, pg, form, order, late>>
    PROVE  BoardInv'
<1>1. requests \in Seq(Calls)
  BY DEF BoardInv, BoardTypeOK
<1>2. /\ requests' \in Seq(Calls) /\ Len(requests') = Len(requests)
      /\ \A i \in 1..Len(requests) : requests'[i] = IF i = k THEN g ELSE requests[i]
  BY <1>1, ReplaceElement
<1>3. \A i \in 1..Len(requests) : RequestOK(requests[i], rows, page)
  BY DEF BoardInv, RequestInv, RequestsOK
<1>4. \A i \in 1..Len(requests) :
         /\ requests'[i].kind = requests[i].kind
         /\ RequestOK(requests'[i], rows, page)
  BY <1>2, <1>3
<1>5. QED
  BY <1>2, <1>4, AnsweredStep

LEMMA ListStep ==
    ASSUME BoardInv, NEW k \in 1..Len(requests), List(k)
    PROVE  BoardInv'
<1> DEFINE found == Found(requests[k].want)
           size == Len(found)
           answer == Slice(found, requests[k].arg)
           g == [requests[k] EXCEPT !.phase = "answered", !.want = "any", !.total = size,
                                    !.rows = answer]
<1>1. requests' = [requests EXCEPT ![k].phase = "answered", ![k].want = "any",
                                   ![k].total = size, ![k].rows = answer]
  BY DEF List
<1>2. requests \in Seq(Calls) /\ requests[k] \in Calls /\ BoardTypeOK
  BY DEF BoardInv, BoardTypeOK
<1>3. RequestOK(requests[k], rows, page) /\ requests[k].kind = "list"
  BY DEF BoardInv, RequestInv, RequestsOK, List
<1>4. requests[k].arg \in Nat \ {0}
  BY <1>2, <1>3 DEF Calls, RequestOK
<1>5. PageOK(answer, rows)
  BY <1>2, <1>4, FoundPage
<1>6. size \in Nat
  BY <1>2, FoundType
<1>7. answer \in Seq(Line)
  BY <1>5 DEF PageOK
<1> HIDE DEF size, answer
<1>8. /\ g \in Calls /\ g.kind = requests[k].kind /\ g.arg = requests[k].arg
      /\ g.want = "any" /\ g.rows = answer
  BY <1>2, <1>6, <1>7 DEF Calls
<1>9. requests' = [requests EXCEPT ![k] = g]
  BY <1>1, <1>2
<1> HIDE DEF g
<1>10. RequestOK(g, rows, page)
  BY <1>3, <1>4, <1>5, <1>8 DEF RequestOK
<1>11. QED
  BY <1>8, <1>9, <1>10, OneAnswered
     DEF List, table, gateway, socket, list

LEMMA GetStep ==
    ASSUME BoardInv, NEW k \in 1..Len(requests), Get(k)
    PROVE  BoardInv'
<1> DEFINE g == [requests[k] EXCEPT !.phase = "answered", !.st = rows[Mine]]
<1>1. requests' = [requests EXCEPT ![k].phase = "answered", ![k].st = rows[Mine]]
  BY DEF Get
<1>2. requests \in Seq(Calls) /\ requests[k] \in Calls
  BY DEF BoardInv, BoardTypeOK
<1>3. rows[Mine] \in Statuses \union {"none"}
  BY BoardAssumption DEF BoardInv, BoardTypeOK, Mine, Orders
<1>4. RequestOK(requests[k], rows, page)
  BY DEF BoardInv, RequestInv, RequestsOK
<1>5. /\ g \in Calls /\ g.kind = requests[k].kind /\ g.arg = requests[k].arg
      /\ g.want = requests[k].want /\ g.rows = requests[k].rows
  BY <1>2, <1>3 DEF Calls
<1>6. requests' = [requests EXCEPT ![k] = g]
  BY <1>1, <1>2
<1> HIDE DEF g
<1>7. RequestOK(g, rows, page)
  BY <1>4, <1>5 DEF RequestOK
<1>8. QED
  BY <1>5, <1>6, <1>7, OneAnswered
     DEF Get, table, gateway, socket, list

\* News moves on, and the orders on the page that awaited it are late or await it still.
LEMMA NewsStep ==
    ASSUME BoardInv, unsent' \subseteq unsent,
           requests' \in Seq(Calls), Len(requests') = Len(requests),
           \A k \in 1..Len(requests) :
              /\ requests'[k].kind = requests[k].kind /\ requests'[k].arg = requests[k].arg
              /\ requests'[k].want = requests[k].want /\ requests'[k].rows = requests[k].rows,
           updates' \in Seq(Line), \A i \in 1..Len(updates') : Known(updates'[i], rows),
           link = "lost" \/ page = "none" => updates' = updates,
           late' \subseteq Orders,
           \A q, t : OnPage(q) /\ Told(q, t, rows, late, updates, unsent)
                     => Told(q, t, rows, late', updates', unsent'),
           UNCHANGED <<rows, sockets, alive, registered, page, sock, link, loading,
                       lines, total, pg, form, order>>
    PROVE  BoardInv'
<1>1. BoardTypeOK'
  BY DEF BoardInv, BoardTypeOK
<1>2. NewsInv'
  BY DEF BoardInv, NewsInv
<1>3. RequestInv'
  <2> SUFFICES ASSUME NEW k \in 1..Len(requests')
               PROVE  RequestOK(requests'[k], rows', page')
    BY DEF RequestInv, RequestsOK
  <2>1. RequestOK(requests[k], rows, page)
    BY DEF BoardInv, RequestInv, RequestsOK
  <2>2. QED
    BY <2>1 DEF RequestOK
<1>4. ListInv'
  <2>1. PageOK(lines', rows')
    BY DEF BoardInv, ListInv
  <2>2. ASSUME page' = "list", NEW i \in 1..Len(lines')
        PROVE  Told(lines'[i].o, lines'[i].s, rows', late', updates', unsent')
    <3>1. Told(lines[i].o, lines[i].s, rows, late, updates, unsent)
      BY <2>2 DEF BoardInv, ListInv
    <3>2. Given(lines, lines[i].o) # "none"
      BY GivenOf DEF BoardInv, ListInv
    <3>3. OnPage(lines[i].o)
      BY <2>2, <3>2 DEF OnPage
    <3>4. QED
      BY <3>1, <3>3
  <2>3. QED
    BY <2>1, <2>2 DEF ListInv
<1>5. DetailInv'
  <2> SUFFICES ASSUME page' = "detail", order' # "none", ~ Reading(requests')
               PROVE  Told(Mine, order', rows', late', updates', unsent')
    BY DEF DetailInv
  <2>1. ~ Reading(requests)
    BY DEF Reading
  <2>2. Told(Mine, order, rows, late, updates, unsent)
    BY <2>1 DEF BoardInv, DetailInv
  <2>3. OnPage(Mine)
    BY DEF OnPage
  <2>4. QED
    BY <2>2, <2>3
<1>6. NoPage'
  <2>1. page' = "none" => Len(requests') = 0
    BY DEF BoardInv, NoPage
  <2>2. page' = "none" => requests' = <<>>
    BY <2>1, EmptySeq
  <2>3. QED
    BY <2>2 DEF BoardInv, NoPage
<1>7. QED
  BY <1>1, <1>2, <1>3, <1>4, <1>5, <1>6 DEF BoardInv

\* A change's event is on its way to the page, or will not come: then it is late.
LEMMA ReportedStep ==
    ASSUME BoardInv, NEW u \in unsent, unsent' = unsent \ {u},
           NEW phase \in {"answered", "refused"}, requests' = Replied(u, phase),
           \/ link = "open" /\ updates' = Append(updates, [o |-> u.o, s |-> u.s]) /\ late' = late
           \/ updates' = updates /\ late' = Missed({u.o}),
           UNCHANGED <<rows, sockets, alive, registered, page, sock, link, loading,
                       lines, total, pg, form, order>>
    PROVE  BoardInv'
<1>1. u \in Line /\ Known(u, rows)
  BY DEF BoardInv, BoardTypeOK, NewsInv
<1>2. /\ u.o \in Orders /\ updates \in Seq(Line) /\ late \subseteq Orders
      /\ \A i \in 1..Len(updates) : Known(updates[i], rows)
  BY <1>1 DEF BoardInv, BoardTypeOK, NewsInv, Line
<1>3. /\ requests' \in Seq(Calls) /\ Len(requests') = Len(requests)
      /\ \A k \in 1..Len(requests) :
            /\ requests'[k].kind = requests[k].kind /\ requests'[k].arg = requests[k].arg
            /\ requests'[k].want = requests[k].want /\ requests'[k].rows = requests[k].rows
  BY RepliedType DEF BoardInv
<1>4. CASE link = "open" /\ updates' = Append(updates, [o |-> u.o, s |-> u.s]) /\ late' = late
  <2>1. updates' = Append(updates, u)
    BY <1>1, <1>4 DEF Line
  <2>2. /\ updates' \in Seq(Line) /\ Len(updates') = Len(updates) + 1
        /\ \A i \in 1..Len(updates) : updates'[i] = updates[i]
        /\ updates'[Len(updates) + 1] = u
    BY <1>1, <1>2, <2>1, AppendElement
  <2>3. \A i \in 1..Len(updates') : Known(updates'[i], rows)
    <3>1. \A i \in 1..Len(updates') : i \in 1..Len(updates) \/ i = Len(updates) + 1
      BY <1>2, <2>2
    <3>2. QED
      BY <1>1, <1>2, <2>2, <3>1
  <2>4. ASSUME NEW q, NEW t, Told(q, t, rows, late, updates, unsent)
        PROVE  Told(q, t, rows, late', updates', unsent')
    <3>1. \A i \in 1..Len(updates) : i \in 1..Len(updates')
      BY <1>2, <2>2
    <3>2. Len(updates) + 1 \in 1..Len(updates')
      BY <1>2, <2>2
    <3>3. QED
      BY <1>4, <2>2, <2>4, <3>1, <3>2 DEF Told, Awaited
  <2>5. link # "lost" /\ page # "none"
    BY <1>4 DEF BoardInv, BoardTypeOK
  <2>6. QED
    BY <1>2, <1>3, <1>4, <2>2, <2>3, <2>4, <2>5, NewsStep
<1>5. CASE updates' = updates /\ late' = Missed({u.o})
  <2>1. late' = late \union {o \in {u.o} : OnPage(o)}
    BY <1>5 DEF Missed
  <2>2. late' \subseteq Orders
    BY <1>2, <2>1
  <2>3. ASSUME NEW q, NEW t, OnPage(q), Told(q, t, rows, late, updates, unsent)
        PROVE  Told(q, t, rows, late', updates', unsent')
    <3>1. CASE q = u.o
      BY <2>1, <2>3, <3>1 DEF Told
    <3>2. CASE q # u.o
      BY <1>5, <2>1, <2>3, <3>2 DEF Told, Awaited
    <3>3. QED
      BY <3>1, <3>2
  <2>4. QED
    BY <1>2, <1>3, <1>5, <2>2, <2>3, NewsStep
<1>6. QED
  BY <1>4, <1>5

LEMMA EmitStep ==
    ASSUME BoardInv, NEW u \in unsent, Emit(u) \/ Unrecorded(u)
    PROVE  BoardInv'
<1> USE DEF gateway, socket, list
<1>1. CASE Emit(u)
  BY <1>1, ReportedStep DEF Emit
<1>2. CASE Unrecorded(u)
  BY <1>2, ReportedStep DEF Unrecorded
<1>3. QED
  BY <1>1, <1>2

\* A call that page p makes.
Fits(kind, arg, want, p) ==
    /\ kind \in {"list", "detail", "set"} /\ arg \in Nat
    /\ want \in Statuses \union {"any"}
    /\ kind = "list" => arg # 0
    /\ kind = "set" => want # "any"
    /\ p = "list" => kind = "list"
    /\ p = "detail" => kind # "list"

LEMMA OneMore ==
    ASSUME NEW c, NEW kind, NEW arg, NEW want, NEW p, c \in Seq(Calls),
           Fits(kind, arg, want, p), RequestsOK(c, rows, p)
    PROVE  /\ Asked(c, kind, arg, want) \in Seq(Calls)
           /\ Len(Asked(c, kind, arg, want)) = Len(c) + 1
           /\ RequestsOK(Asked(c, kind, arg, want), rows, p)
           /\ Reading(c) \/ kind = "detail" => Reading(Asked(c, kind, arg, want))
<1> DEFINE new(d) == [d EXCEPT !.kind = kind, !.arg = arg, !.want = want]
           a == Asked(c, kind, arg, want)
           n == Len(c) + 1
<1>1. Call \in Calls
  <2>1. <<>> \in Seq(Line)
    OBVIOUS
  <2>2. QED
    BY <2>1 DEF Call, Calls
<1>2. ASSUME NEW d \in Calls
      PROVE  /\ new(d) \in Calls /\ new(d).kind = kind /\ new(d).arg = arg
             /\ new(d).want = want /\ new(d).rows = d.rows
  BY DEF Calls, Fits
<1>3. a = Append(c, new(Call))
  BY DEF Asked
<1> HIDE DEF a, new
<1>4. /\ new(Call) \in Calls /\ new(Call).kind = kind
      /\ new(Call).arg = arg /\ new(Call).want = want
      /\ new(Call).rows = Call.rows
  BY <1>1, <1>2
<1>5. /\ a \in Seq(Calls) /\ Len(a) = n
      /\ \A i \in 1..Len(c) : a[i] = c[i]
      /\ a[n].kind = kind /\ a[n].arg = arg /\ a[n].want = want /\ a[n].rows = Call.rows
  BY <1>3, <1>4, AppendElement
<1>6. n \in 1..n /\ (\A i \in 1..Len(c) : i \in 1..n) /\ \A i \in 1..n : i \in 1..Len(c) \/ i = n
  OBVIOUS
<1>7. Reading(c) \/ kind = "detail" => Reading(a)
  BY <1>5, <1>6 DEF Reading
<1>8. RequestOK(a[n], rows, p)
  <2>1. <<>> \in Seq(Line) /\ Len(<<>>) = 0
    OBVIOUS
  <2>2. PageOK(Call.rows, rows)
    BY <2>1, BoardAssumption DEF PageOK, Call
  <2>3. QED
    BY <1>5, <2>2 DEF RequestOK, Fits
<1>9. RequestsOK(a, rows, p)
  BY <1>5, <1>6, <1>8 DEF RequestsOK
<1>10. QED
  BY <1>5, <1>7, <1>9 DEF a

\* A call is over.
LEMMA OneLess ==
    ASSUME BoardInv, NEW k \in 1..Len(requests)
    PROVE  /\ Without(k) \in Seq(Calls)
           /\ Len(Without(k)) = Len(requests) - 1 /\ Len(Without(k)) < MaxCalls
           /\ RequestsOK(Without(k), rows, page)
           /\ Reading(requests) /\ requests[k].kind # "detail" => Reading(Without(k))
           /\ page # "none"
<1> DEFINE d == RemoveAt(requests, k)
<1>1. requests \in Seq(Calls) /\ Len(requests) <= MaxCalls /\ MaxCalls \in Nat
  BY BoardAssumption DEF BoardInv, BoardTypeOK
<1>2. /\ d \in Seq(Calls) /\ Len(d) = Len(requests) - 1
      /\ \A n \in 1..Len(d) : \E i \in 1..Len(requests) : d[n] = requests[i]
      /\ \A i \in 1..Len(requests) : i # k => \E n \in 1..Len(d) : d[n] = requests[i]
  BY <1>1, RemoveElement
<1>3. Without(k) = d
  BY DEF Without
<1> HIDE DEF d
<1>4. Len(d) < MaxCalls
  BY <1>1, <1>2
<1>5. RequestsOK(d, rows, page)
  BY <1>2 DEF BoardInv, RequestInv, RequestsOK
<1>6. Reading(requests) /\ requests[k].kind # "detail" => Reading(d)
  BY <1>2 DEF Reading
<1>7. page # "none"
  <2>1. Len(requests) # 0
    BY <1>1
  <2>2. requests # <<>>
    BY <2>1
  <2>3. QED
    BY <2>2 DEF BoardInv, NoPage
<1>8. QED
  BY <1>2, <1>3, <1>4, <1>5, <1>6, <1>7

\* Only the page's calls move, and perhaps more is late.
LEMMA CallStep ==
    ASSUME BoardInv, page # "none", DetailInv',
           requests' \in Seq(Calls), Len(requests') <= MaxCalls,
           RequestsOK(requests', rows, page), loading' \in BOOLEAN,
           late \subseteq late', late' \subseteq Orders,
           UNCHANGED <<rows, unsent, sockets, alive, registered, page, sock, link, updates,
                       lines, total, pg, form, order>>
    PROVE  BoardInv'
<1>1. BoardTypeOK'
  BY DEF BoardInv, BoardTypeOK
<1>2. NewsInv' /\ RequestInv' /\ NoPage'
  BY DEF BoardInv, NewsInv, RequestInv, RequestsOK, NoPage
<1>3. ListInv'
  BY DEF BoardInv, ListInv, Told
<1>4. QED
  BY <1>1, <1>2, <1>3 DEF BoardInv

LEMMA AskingStep ==
    ASSUME BoardInv,
           \/ \E p \in 1..MaxOrders : Browse(p)
           \/ Refresh
           \/ \E s \in Statuses : ChangeMine(s)
    PROVE  BoardInv'
<1> USE DEF table, gateway, socket, list
<1>1. /\ requests \in Seq(Calls) /\ form \in Statuses \union {"any"}
      /\ loading \in BOOLEAN /\ late \subseteq Orders
      /\ RequestsOK(requests, rows, page)
  BY DEF BoardInv, BoardTypeOK, RequestInv, RequestsOK
<1>2. ASSUME NEW kind, NEW arg, NEW want, Fits(kind, arg, want, page),
             page # "none", Len(requests) < MaxCalls,
             requests' = Asked(requests, kind, arg, want), loading' \in BOOLEAN,
             UNCHANGED <<rows, unsent, sockets, alive, registered, page, sock, link, updates,
                         lines, total, pg, form, order, late>>
      PROVE  BoardInv'
  <2>1. /\ requests' \in Seq(Calls) /\ Len(requests') = Len(requests) + 1
        /\ RequestsOK(requests', rows, page)
        /\ Reading(requests) => Reading(requests')
    BY <1>1, <1>2, OneMore
  <2>2. Len(requests') <= MaxCalls
    BY <1>1, <1>2, <2>1, BoardAssumption
  <2>3. DetailInv'
    BY <1>2, <2>1 DEF BoardInv, DetailInv
  <2>4. QED
    BY <1>1, <1>2, <2>1, <2>2, <2>3, CallStep
<1>3. ASSUME NEW p \in 1..MaxOrders, Browse(p)
      PROVE  BoardInv'
  <2>1. Fits("list", p, form, page)
    BY <1>1, <1>3 DEF Fits, Browse
  <2>2. QED
    BY <1>2, <1>3, <2>1 DEF Browse, CanAsk, LoadOrders
<1>4. CASE Refresh
  <2>1. Fits("detail", 0, "any", page)
    BY <1>4 DEF Fits, Refresh
  <2>2. QED
    BY <1>2, <1>4, <2>1 DEF Refresh, CanAsk, LoadDetail
<1>5. ASSUME NEW s \in Statuses, ChangeMine(s)
      PROVE  BoardInv'
  <2>1. Fits("set", 0, s, page)
    BY <1>5 DEF Fits, ChangeMine, Statuses
  <2>2. QED
    BY <1>1, <1>2, <1>5, <2>1 DEF ChangeMine, CanAsk
<1>6. QED
  BY <1>3, <1>4, <1>5

LEMMA OpenStep ==
    ASSUME BoardInv, NEW c \in Conns, NEW p \in {"list", "detail"},
           OpenPage(c, p)
    PROVE  BoardInv'
<1> USE DEF table, list
<1>1. /\ page = "none" /\ page' = p /\ requests = <<>> /\ lines = <<>> /\ order = "none"
      /\ sock' = c /\ link' = "open" /\ updates' = <<>>
      /\ UNCHANGED <<rows, unsent, lines, total, pg, form, order, late, registered>>
  BY DEF BoardInv, NoPage, OpenPage, SocketOpened
<1>2. form \in Statuses \union {"any"}
  BY DEF BoardInv, BoardTypeOK
<1>3. /\ requests' \in Seq(Calls) /\ Len(requests') = 1
      /\ RequestsOK(requests', rows, p)
      /\ loading' = TRUE
  <2>1. requests \in Seq(Calls) /\ Len(requests) = 0
    BY <1>1 DEF BoardInv, BoardTypeOK
  <2>2. RequestsOK(requests, rows, p)
    BY <2>1 DEF RequestsOK
  <2>3. CASE p = "list"
    <3>1. Fits("list", 1, form, p)
      BY <1>2, <2>3 DEF Fits
    <3>2. /\ Asked(requests, "list", 1, form) \in Seq(Calls)
          /\ Len(Asked(requests, "list", 1, form)) = Len(requests) + 1
          /\ RequestsOK(Asked(requests, "list", 1, form), rows, p)
      BY <2>1, <2>2, <3>1, OneMore
    <3>3. requests' = Asked(requests, "list", 1, form) /\ loading' = TRUE
      BY <2>3 DEF OpenPage, LoadOrders
    <3>4. QED
      BY <2>1, <3>2, <3>3
  <2>4. CASE p = "detail"
    <3>1. Fits("detail", 0, "any", p)
      BY <2>4 DEF Fits
    <3>2. /\ Asked(requests, "detail", 0, "any") \in Seq(Calls)
          /\ Len(Asked(requests, "detail", 0, "any")) = Len(requests) + 1
          /\ RequestsOK(Asked(requests, "detail", 0, "any"), rows, p)
      BY <2>1, <2>2, <3>1, OneMore
    <3>3. requests' = Asked(requests, "detail", 0, "any") /\ loading' = TRUE
      BY <2>4 DEF OpenPage, LoadDetail
    <3>4. QED
      BY <2>1, <3>2, <3>3
  <2>5. QED
    BY <2>3, <2>4
<1>4. BoardTypeOK'
  <2>1. sockets' \in [Conns -> {"unused", "verify", "done"}] /\ alive' \subseteq Conns
    BY DEF BoardInv, BoardTypeOK, OpenPage, SocketOpened
  <2>2. <<>> \in Seq(Line) /\ Len(requests') <= MaxCalls
    BY <1>3, BoardAssumption
  <2>3. loading' \in BOOLEAN
    BY <1>3
  <2>4. QED
    BY <1>1, <1>3, <2>1, <2>2, <2>3 DEF BoardInv, BoardTypeOK
<1>5. NewsInv' /\ RequestInv' /\ NoPage'
  BY <1>1, <1>3 DEF BoardInv, NewsInv, RequestInv, RequestsOK, NoPage
<1>6. ListInv' /\ DetailInv'
  BY <1>1 DEF BoardInv, ListInv, DetailInv
<1>7. QED
  BY <1>4, <1>5, <1>6 DEF BoardInv

LEMMA ClosePageStep ==
    ASSUME BoardInv, ClosePage
    PROVE  BoardInv'
<1> USE DEF table, gateway
<1>1. <<>> \in Seq(Line) /\ <<>> \in Seq(Calls) /\ Len(<<>>) = 0
  OBVIOUS
<1>2. BoardTypeOK'
  <2>1. loading' \in BOOLEAN
    BY DEF ClosePage
  <2>2. QED
    BY <1>1, <2>1, BoardAssumption DEF BoardInv, BoardTypeOK, ClosePage
<1>3. NewsInv' /\ RequestInv' /\ NoPage' /\ DetailInv'
  BY DEF BoardInv, NewsInv, RequestInv, RequestsOK, NoPage, DetailInv, ClosePage
<1>4. PageOK(lines', rows')
  BY <1>1, BoardAssumption DEF PageOK, ClosePage
<1>5. QED
  BY <1>2, <1>3, <1>4 DEF BoardInv, ListInv, ClosePage

LEMMA EditFilterStep ==
    ASSUME BoardInv, NEW f \in Filters, EditFilter(f)
    PROVE  BoardInv'
<1> USE DEF table, gateway, socket
<1>1. f \in Statuses \union {"any"}
  BY FiltersAssumption DEF Statuses
<1>2. BoardTypeOK'
  BY <1>1 DEF BoardInv, BoardTypeOK, EditFilter
<1>3. QED
  BY <1>2, BoardQuiet DEF EditFilter

LEMMA ListAnsweredStep ==
    ASSUME BoardInv, NEW k \in 1..Len(requests), ListAnswered(k)
    PROVE  BoardInv'
<1> USE DEF table, gateway, socket
<1> DEFINE c == requests[k]
<1>1. /\ lines' = c.rows /\ total' = c.total /\ pg' = c.arg /\ loading' = FALSE
      /\ requests' = Without(k) /\ c.kind = "list"
      /\ late' = {o \in Orders : Given(c.rows, o) \notin {"none", rows[o]}
                                       /\ ~Coming(o, updates)}
      /\ UNCHANGED <<rows, unsent, sockets, alive, registered, page, sock, link, updates,
                     form, order>>
  BY DEF ListAnswered
<1>2. RequestOK(c, rows, page) /\ c \in Calls
  BY DEF BoardInv, BoardTypeOK, RequestInv, RequestsOK
<1>3. PageOK(c.rows, rows) /\ c.total \in Nat /\ c.arg \in Nat \ {0}
  BY <1>1, <1>2 DEF RequestOK, Calls
<1>4. /\ Without(k) \in Seq(Calls) /\ Len(Without(k)) < MaxCalls
      /\ RequestsOK(Without(k), rows, page)
      /\ page # "none"
  BY OneLess
<1>5. page # "detail"
  BY <1>1, <1>2 DEF RequestOK
<1> HIDE DEF c
<1>6. BoardTypeOK'
  <2>1. loading' \in BOOLEAN
    BY <1>1
  <2>2. c.rows \in Seq(Line) /\ Len(c.rows) <= PageSize
    BY <1>3 DEF PageOK
  <2>3. Len(Without(k)) <= MaxCalls
    BY <1>4, BoardAssumption
  <2>4. QED
    BY <1>1, <1>3, <1>4, <2>1, <2>2, <2>3 DEF BoardInv, BoardTypeOK
<1>7. NewsInv' /\ RequestInv' /\ NoPage' /\ DetailInv'
  BY <1>1, <1>4, <1>5 DEF BoardInv, NewsInv, RequestInv, RequestsOK, NoPage, DetailInv
<1>8. ListInv'
  <2>1. PageOK(lines', rows')
    BY <1>1, <1>3
  <2>2. ASSUME NEW i \in 1..Len(lines')
        PROVE  Told(lines'[i].o, lines'[i].s, rows', late', updates', unsent')
    <3>1. lines'[i] \in Line
      BY <2>1 DEF PageOK
    <3>2. lines'[i].o \in Orders
      BY <3>1 DEF Line
    <3>3. Given(lines', lines'[i].o) = lines'[i].s /\ lines'[i].s # "none"
      BY <2>1, GivenOf
    <3>4. Coming(lines'[i].o, updates) => Awaited(lines'[i].o, updates, unsent)
      BY DEF Coming, Subjects, Awaited
    <3>5. QED
      BY <1>1, <3>2, <3>3, <3>4 DEF Told
  <2>3. QED
    BY <2>1, <2>2 DEF ListInv
<1>9. QED
  BY <1>6, <1>7, <1>8 DEF BoardInv

LEMMA RefusedStep ==
    ASSUME BoardInv, NEW k \in 1..Len(requests), Refused(k)
    PROVE  BoardInv'
<1> USE DEF table, gateway, socket, list
<1> DEFINE d == Without(k)
<1>1. /\ d \in Seq(Calls) /\ Len(d) < MaxCalls /\ Len(d) = Len(requests) - 1
      /\ RequestsOK(d, rows, page) /\ page # "none"
      /\ Reading(requests) /\ requests[k].kind # "detail" => Reading(d)
  BY OneLess
<1>2. /\ requests' = d
      /\ UNCHANGED <<rows, unsent, sockets, alive, registered, page, sock, link, updates,
                     lines, total, pg, form, order>>
  BY DEF Refused
<1> HIDE DEF d
<1>3. Len(requests') <= MaxCalls
  <2>1. Len(d) \in Nat /\ MaxCalls \in Nat
    BY <1>1, BoardAssumption
  <2>2. QED
    BY <1>1, <1>2, <2>1
<1>4. loading' \in BOOLEAN
  BY DEF Refused
<1>5. late \subseteq Orders /\ Mine \in Orders
  BY BoardAssumption DEF BoardInv, BoardTypeOK, Mine, Orders
<1>6. late \subseteq late' /\ late' \subseteq Orders
  BY <1>5 DEF Refused, Missed
<1>7. DetailInv'
  <2> SUFFICES ASSUME page = "detail", order # "none", ~ Reading(d)
               PROVE  Told(Mine, order, rows, late', updates, unsent)
    BY <1>2 DEF DetailInv
  <2>1. CASE requests[k].kind = "detail" /\ order # rows[Mine]
    <3>1. late' = late \union {o \in {Mine} : OnPage(o)}
      BY <2>1 DEF Refused, Missed
    <3>2. OnPage(Mine)
      BY DEF OnPage
    <3>3. QED
      BY <3>1, <3>2 DEF Told
  <2>2. CASE order = rows[Mine]
    BY <2>2 DEF Told
  <2>3. CASE requests[k].kind # "detail"
    <3>1. ~ Reading(requests)
      BY <1>1, <2>3
    <3>2. Told(Mine, order, rows, late, updates, unsent)
      BY <3>1 DEF BoardInv, DetailInv
    <3>3. QED
      BY <1>6, <3>2 DEF Told
  <2>4. QED
    BY <2>1, <2>2, <2>3
<1>8. QED
  BY <1>1, <1>2, <1>3, <1>4, <1>6, <1>7, CallStep

\* The detail page shows an answer.
LEMMA ShownStep ==
    ASSUME BoardInv, page = "detail",
           requests' \in Seq(Calls), Len(requests') <= MaxCalls,
           RequestsOK(requests', rows, page), loading' \in BOOLEAN,
           order' \in Statuses \union {"none"}, late' \subseteq Orders,
           order' # "none" => \/ Told(Mine, order', rows, late', updates, unsent)
                              \/ Reading(requests'),
           UNCHANGED <<rows, unsent, sockets, alive, registered, page, sock, link, updates,
                       lines, total, pg, form>>
    PROVE  BoardInv'
<1>1. BoardTypeOK'
  BY DEF BoardInv, BoardTypeOK
<1>2. NewsInv' /\ RequestInv' /\ NoPage' /\ DetailInv'
  BY DEF BoardInv, NewsInv, RequestInv, NoPage, DetailInv
<1>3. ListInv'
  BY DEF BoardInv, ListInv
<1>4. QED
  BY <1>1, <1>2, <1>3 DEF BoardInv

LEMMA DetailAnsweredStep ==
    ASSUME BoardInv, NEW k \in 1..Len(requests), DetailAnswered(k)
    PROVE  BoardInv'
<1> USE DEF table, gateway, socket, list
<1> DEFINE d == Without(k)
           more == Coming(Mine, updates) \/ Reading(d)
<1>1. /\ d \in Seq(Calls) /\ Len(d) < MaxCalls /\ Len(d) = Len(requests) - 1
      /\ RequestsOK(d, rows, page) /\ page # "none"
  BY OneLess
<1>2. requests[k] \in Calls /\ RequestOK(requests[k], rows, page) /\ late \subseteq Orders
  BY DEF BoardInv, BoardTypeOK, RequestInv, RequestsOK
<1>3. page = "detail"
  <2>1. page # "list"
    BY <1>2 DEF RequestOK, DetailAnswered
  <2>2. QED
    BY <1>1, <2>1 DEF BoardInv, BoardTypeOK
<1>4. order' \in Statuses \union {"none"}
  BY <1>2 DEF DetailAnswered, Calls
<1>5. late' = IF order' = rows[Mine] \/ more THEN late \ {Mine}
                                                  ELSE late \union {Mine}
  BY DEF DetailAnswered, After
<1>6. /\ requests' = d
      /\ UNCHANGED <<rows, unsent, sockets, alive, registered, page, sock, link, updates,
                     lines, total, pg, form>>
  BY DEF DetailAnswered
<1>7. Coming(Mine, updates) => Awaited(Mine, updates, unsent)
  BY DEF Coming, Subjects, Awaited
<1> HIDE DEF d
<1>8. Len(requests') <= MaxCalls
  <2>1. Len(d) \in Nat /\ MaxCalls \in Nat
    BY <1>1, BoardAssumption
  <2>2. QED
    BY <1>1, <1>6, <2>1
<1>9. loading' \in BOOLEAN
  BY DEF DetailAnswered
<1>10. late' \subseteq Orders
  <2>1. Mine \in Orders
    BY BoardAssumption DEF Mine, Orders
  <2>2. QED
    BY <1>2, <1>5, <2>1
<1>11. Told(Mine, order', rows, late', updates, unsent) \/ Reading(d)
  BY <1>5, <1>7 DEF Told
<1>12. QED
  BY <1>1, <1>3, <1>4, <1>6, <1>8, <1>9, <1>10, <1>11, ShownStep

LEMMA SetAnsweredStep ==
    ASSUME BoardInv, NEW k \in 1..Len(requests), SetAnswered(k)
    PROVE  BoardInv'
<1> USE DEF table, gateway, socket, list
<1> DEFINE d == Without(k)
           a == Asked(d, "detail", 0, "any")
<1>1. /\ d \in Seq(Calls) /\ Len(d) < MaxCalls /\ Len(d) = Len(requests) - 1
      /\ RequestsOK(d, rows, page) /\ page # "none"
  BY OneLess
<1>2. requests[k] \in Calls /\ RequestOK(requests[k], rows, page) /\ late \subseteq Orders
  BY DEF BoardInv, BoardTypeOK, RequestInv, RequestsOK
<1>3. page = "detail"
  <2>1. page # "list"
    BY <1>2 DEF RequestOK, SetAnswered
  <2>2. QED
    BY <1>1, <2>1 DEF BoardInv, BoardTypeOK
<1>4. order' \in Statuses \union {"none"}
  <2>1. requests[k].want # "any"
    BY <1>2 DEF RequestOK, SetAnswered
  <2>2. QED
    BY <1>2, <2>1 DEF SetAnswered, Calls
<1>5. /\ requests' = a
      /\ UNCHANGED <<rows, unsent, sockets, alive, registered, page, sock, link, updates,
                     lines, total, pg, form, late>>
  BY DEF SetAnswered, LoadDetail
<1>6. loading' \in BOOLEAN
  BY DEF SetAnswered, LoadDetail
<1> HIDE DEF d
<1>7. Fits("detail", 0, "any", page)
  BY <1>3 DEF Fits
<1>8. a \in Seq(Calls) /\ Len(a) = Len(d) + 1
  BY <1>1, <1>7, OneMore
<1>9. RequestsOK(a, rows, page)
  BY <1>1, <1>7, OneMore
<1>10. Reading(a)
  BY <1>1, <1>7, OneMore
<1> HIDE DEF a
<1>11. Len(requests') <= MaxCalls
  <2>1. Len(d) \in Nat /\ MaxCalls \in Nat
    BY <1>1, BoardAssumption
  <2>2. QED
    BY <1>1, <1>5, <1>8, <2>1
<1>12. QED
  BY <1>2, <1>3, <1>4, <1>5, <1>6, <1>8, <1>9, <1>10, <1>11, ShownStep

\* An event has come: only its own order may have awaited it alone.
LEMMA EventCame ==
    ASSUME BoardInv, updates # <<>>
    PROVE  /\ Head(updates) \in Line /\ Known(Head(updates), rows)
           /\ Tail(updates) \in Seq(Line)
           /\ \A i \in 1..Len(Tail(updates)) : Known(Tail(updates)[i], rows)
           /\ \A q : q # Head(updates).o /\ Awaited(q, updates, unsent)
                     => Awaited(q, Tail(updates), unsent)
           /\ \A q : Coming(q, Tail(updates)) => Awaited(q, Tail(updates), unsent)
           /\ page # "none"
<1> DEFINE t == Tail(updates)
<1>1. updates \in Seq(Line) /\ Len(updates) \in Nat
  BY DEF BoardInv, BoardTypeOK
<1>2. /\ Head(updates) \in Line /\ Head(updates) = updates[1] /\ Len(updates) >= 1
      /\ t \in Seq(Line) /\ Len(t) = Len(updates) - 1
      /\ \A i \in 1..(Len(updates) - 1) : t[i] = updates[i + 1]
  BY <1>1, HeadElement
<1> HIDE DEF t
<1>3. \A i \in 1..Len(updates) : Known(updates[i], rows)
  BY DEF BoardInv, NewsInv
<1>4. 1 \in 1..Len(updates) /\ \A i \in 1..(Len(updates) - 1) : i + 1 \in 1..Len(updates)
  BY <1>1, <1>2
<1>5. Known(Head(updates), rows) /\ \A i \in 1..Len(t) : Known(t[i], rows)
  BY <1>2, <1>3, <1>4
<1>6. ASSUME NEW q, q # Head(updates).o, Awaited(q, updates, unsent)
      PROVE  Awaited(q, t, unsent)
  <2>1. CASE \E n \in unsent : n.o = q
    BY <2>1 DEF Awaited
  <2>2. ASSUME NEW i \in 1..Len(updates), updates[i].o = q
        PROVE  Awaited(q, t, unsent)
    <3>1. i # 1
      BY <1>2, <1>6, <2>2
    <3>2. i - 1 \in 1..(Len(updates) - 1) /\ (i - 1) + 1 = i
      BY <1>1, <3>1
    <3>3. t[i - 1].o = q
      BY <1>2, <2>2, <3>2
    <3>4. QED
      BY <1>2, <3>2, <3>3 DEF Awaited
  <2>3. QED
    BY <1>6, <2>1, <2>2 DEF Awaited
<1>7. \A q : Coming(q, t) => Awaited(q, t, unsent)
  BY DEF Coming, Subjects, Awaited
<1>8. page # "none"
  BY DEF BoardInv, NoPage
<1>9. QED
  BY <1>2, <1>5, <1>6, <1>7, <1>8 DEF t

LEMMA DetailEventStep ==
    ASSUME BoardInv, DetailEvent
    PROVE  BoardInv'
<1> USE DEF table, gateway, list
<1> DEFINE a == Asked(requests, "detail", 0, "any")
<1>1. /\ page = "detail" /\ updates # <<>> /\ updates' = Tail(updates)
      /\ UNCHANGED <<rows, unsent, sockets, alive, registered, page, sock, link,
                     lines, total, pg, form, order, late>>
      /\ IF order # "none" /\ Head(updates).o = Mine
         THEN Len(requests) < MaxCalls /\ requests' = a /\ loading' = TRUE
         ELSE UNCHANGED <<requests, loading>>
  BY DEF DetailEvent, CanAsk, LoadDetail
<1>2. /\ updates' \in Seq(Line) /\ \A i \in 1..Len(updates') : Known(updates'[i], rows)
      /\ \A q : q # Head(updates).o /\ Awaited(q, updates, unsent) => Awaited(q, updates', unsent)
  BY <1>1, EventCame
<1>3. /\ requests \in Seq(Calls) /\ RequestsOK(requests, rows, page)
      /\ Len(requests) \in Nat /\ MaxCalls \in Nat /\ Len(requests) <= MaxCalls
  BY BoardAssumption DEF BoardInv, BoardTypeOK, RequestInv
<1>4. a \in Seq(Calls) /\ Len(a) = Len(requests) + 1 /\ RequestsOK(a, rows, page) /\ Reading(a)
  <2>1. Fits("detail", 0, "any", page)
    BY <1>1 DEF Fits
  <2>2. a \in Seq(Calls) /\ Len(a) = Len(requests) + 1
    BY <1>3, <2>1, OneMore
  <2>3. RequestsOK(a, rows, page)
    BY <1>3, <2>1, OneMore
  <2>4. Reading(a)
    BY <1>3, <2>1, OneMore
  <2>5. QED
    BY <2>2, <2>3, <2>4
<1> HIDE DEF a
<1>5. loading' \in BOOLEAN
  <2>1. loading \in BOOLEAN
    BY DEF BoardInv, BoardTypeOK
  <2>2. QED
    BY <1>1, <2>1
<1>6. requests' \in Seq(Calls) /\ Len(requests') <= MaxCalls /\ RequestsOK(requests', rows, page)
  BY <1>1, <1>3, <1>4
<1>7. BoardTypeOK'
  BY <1>1, <1>2, <1>5, <1>6 DEF BoardInv, BoardTypeOK
<1>8. NewsInv' /\ RequestInv' /\ NoPage' /\ ListInv'
  <2>1. link' = "lost" => updates' = <<>>
    BY <1>1 DEF BoardInv, NewsInv
  <2>2. QED
    BY <1>1, <1>2, <1>6, <2>1 DEF BoardInv, NewsInv, RequestInv, NoPage, ListInv
<1>9. DetailInv'
  <2> SUFFICES ASSUME order # "none", ~ Reading(requests')
               PROVE  Told(Mine, order, rows, late, updates', unsent)
    BY <1>1 DEF DetailInv
  <2>1. Head(updates).o # Mine /\ requests' = requests
    BY <1>1, <1>4
  <2>2. Told(Mine, order, rows, late, updates, unsent)
    BY <1>1, <2>1 DEF BoardInv, DetailInv
  <2>3. QED
    BY <1>2, <2>1, <2>2 DEF Told
<1>10. QED
  BY <1>7, <1>8, <1>9 DEF BoardInv

\* What the list shows when it has applied e: e for its order, and other lines it had.
LEMMA AppliedPage ==
    ASSUME BoardInv, NEW e \in Line, ApplyOrder(e)
    PROVE  /\ lines' \in Seq(Line) /\ Len(lines') <= PageSize /\ total' \in Nat
           /\ \A i \in 1..Len(lines') :
                 lines'[i] = e \/ \E j \in 1..Len(lines) : lines'[i] = lines[j] /\ lines[j].o # e.o
<1> DEFINE here == \E i \in 1..Len(lines) : lines[i].o = e.o
           others == {line \in Line : line.o # e.o}
           replaced == [i \in 1..Len(lines) |-> IF lines[i].o = e.o THEN e ELSE lines[i]]
<1>1. /\ lines \in Seq(Line) /\ Len(lines) <= PageSize /\ total \in Nat
      /\ Len(lines) \in Nat /\ PageSize \in Nat
      /\ \A i \in 1..Len(lines) : lines[i] \in Line
  BY BoardAssumption DEF BoardInv, BoardTypeOK
<1>2. CASE here /\ Matches(form, e.s)
  <2>1. lines' = replaced /\ total' = total
    BY <1>2 DEF ApplyOrder
  <2>2. /\ replaced \in Seq(Line) /\ Len(replaced) = Len(lines)
        /\ \A i \in 1..Len(lines) : replaced[i] = IF lines[i].o = e.o THEN e ELSE lines[i]
    BY <1>1
  <2> HIDE DEF replaced
  <2>3. QED
    BY <1>1, <2>1, <2>2
<1>3. CASE here /\ ~ Matches(form, e.s)
  <2> DEFINE f == Filter(lines, others)
  <2>1. lines' = f /\ total' = IF total = 0 THEN 0 ELSE total - 1
    BY <1>3 DEF ApplyOrder
  <2>2. \A line \in others : line.o # e.o
    OBVIOUS
  <2> HIDE DEF others, here, replaced
  <2>3. f \in Seq(Line) /\ Len(f) <= Len(lines)
    BY <1>1, FilterElements
  <2>4. \A n \in 1..Len(f) : \E i \in 1..Len(lines) : f[n] = lines[i] /\ lines[i] \in others
    BY <1>1, FilterElements
  <2> HIDE DEF f
  <2>5. Len(f) <= PageSize
    <3>1. Len(f) \in Nat
      BY <2>3
    <3>2. QED
      BY <1>1, <2>3, <3>1
  <2>6. \A n \in 1..Len(f) : \E i \in 1..Len(lines) : f[n] = lines[i] /\ lines[i].o # e.o
    BY <2>2, <2>4
  <2>7. total' \in Nat
    BY <1>1, <2>1
  <2>8. QED
    BY <2>1, <2>3, <2>5, <2>6, <2>7
<1>4. CASE ~ here /\ Matches(form, e.s)
  <2> DEFINE s == <<e>> \o lines
  <2>1. lines' = Slice(s, 1) /\ total' = total + 1
    BY <1>4 DEF ApplyOrder
  <2>2. s \in Seq(Line) /\ Len(s) = Len(lines) + 1 /\ s[1] = e
        /\ \A i \in 1..Len(s) : i # 1 => s[i] = lines[i - 1]
    BY <1>1
  <2> HIDE DEF s
  <2>3. /\ lines' \in Seq(Line) /\ Len(lines') <= PageSize
        /\ \A n \in 1..Len(lines') : \E i \in 1..Len(s) : lines'[n] = s[i]
    <3>1. /\ Slice(s, 1) \in Seq(Line) /\ Len(Slice(s, 1)) <= PageSize
          /\ \A n \in 1..Len(Slice(s, 1)) : \E i \in 1..Len(s) : Slice(s, 1)[n] = s[i]
      BY <2>2, SliceElements
    <3>2. QED
      BY <2>1, <3>1
  <2>4. \A i \in 1..Len(s) : s[i] = e \/ \E j \in 1..Len(lines) : s[i] = lines[j] /\ lines[j].o # e.o
    <3> SUFFICES ASSUME NEW i \in 1..Len(s), i # 1
                 PROVE  \E j \in 1..Len(lines) : s[i] = lines[j] /\ lines[j].o # e.o
      BY <2>2
    <3>1. i - 1 \in 1..Len(lines)
      BY <1>1, <2>2
    <3>2. QED
      BY <1>4, <2>2, <3>1
  <2>5. QED
    BY <1>1, <2>1, <2>3, <2>4
<1>5. CASE ~ here /\ ~ Matches(form, e.s)
  <2>1. lines' = lines /\ total' = total
    BY <1>5 DEF ApplyOrder
  <2>2. QED
    BY <1>1, <1>5, <2>1
<1>6. QED
  BY <1>2, <1>3, <1>4, <1>5

LEMMA ListEventStep ==
    ASSUME BoardInv, ListEvent
    PROVE  BoardInv'
<1> USE DEF table, gateway
<1> DEFINE e == Head(updates)
           a == Asked(requests, "list", pg, form)
           more == Coming(e.o, Tail(updates))
<1>1. /\ page = "list" /\ updates # <<>> /\ updates' = Tail(updates)
      /\ UNCHANGED <<rows, unsent, sockets, alive, registered, page, sock, link, pg, form, order>>
      /\ late' = IF e.s = rows[e.o] \/ more THEN late \ {e.o} ELSE late \union {e.o}
      /\ IF e.s = "pending"
         THEN /\ Len(requests) < MaxCalls /\ requests' = a /\ loading' = TRUE
              /\ UNCHANGED <<lines, total>>
         ELSE ApplyOrder(e) /\ UNCHANGED <<requests, loading>>
  BY DEF ListEvent, After, CanAsk, LoadOrders
<1>2. /\ e \in Line /\ Known(e, rows)
      /\ updates' \in Seq(Line) /\ \A i \in 1..Len(updates') : Known(updates'[i], rows)
      /\ \A q : q # e.o /\ Awaited(q, updates, unsent) => Awaited(q, updates', unsent)
      /\ more => Awaited(e.o, updates', unsent)
  BY <1>1, EventCame
<1>3. /\ requests \in Seq(Calls) /\ RequestsOK(requests, rows, page)
      /\ Len(requests) \in Nat /\ MaxCalls \in Nat /\ Len(requests) <= MaxCalls
      /\ late \subseteq Orders /\ e.o \in Orders
  BY <1>2, BoardAssumption DEF BoardInv, BoardTypeOK, RequestInv, Line
<1>4. a \in Seq(Calls) /\ Len(a) = Len(requests) + 1 /\ RequestsOK(a, rows, page)
  <2>1. pg \in Nat \ {0} /\ form \in Statuses \union {"any"}
    BY DEF BoardInv, BoardTypeOK
  <2>2. Fits("list", pg, form, page)
    BY <1>1, <2>1 DEF Fits
  <2>3. a \in Seq(Calls) /\ Len(a) = Len(requests) + 1
    BY <1>3, <2>2, OneMore
  <2>4. RequestsOK(a, rows, page)
    BY <1>3, <2>2, OneMore
  <2>5. QED
    BY <2>3, <2>4
<1> HIDE DEF a, e, more
<1>5. /\ PageOK(lines, rows) /\ total \in Nat
      /\ \A i \in 1..Len(lines) : Told(lines[i].o, lines[i].s, rows, late, updates, unsent)
  BY <1>1 DEF BoardInv, ListInv, BoardTypeOK
<1>6. ASSUME NEW q, NEW s, q # e.o, Told(q, s, rows, late, updates, unsent)
      PROVE  Told(q, s, rows, late', updates', unsent)
  BY <1>1, <1>2, <1>6 DEF Told
<1>7. Told(e.o, e.s, rows, late', updates', unsent)
  BY <1>1, <1>2 DEF Told
<1>8. ASSUME e.s = "pending", NEW l \in Line, Known(l, rows), l.o = e.o
      PROVE  Told(l.o, l.s, rows, late', updates', unsent)
  <2>1. CASE e.s = rows[e.o]
    <3>1. l.s \in Statuses /\ Rank(l.s) <= Rank("pending")
      BY <1>8, <2>1 DEF Known, Line
    <3>2. l.s = "pending"
      BY <3>1, RankFacts
    <3>3. QED
      BY <1>8, <2>1, <3>2 DEF Told
  <2>2. CASE e.s # rows[e.o]
    BY <1>1, <1>2, <1>8, <2>2 DEF Told
  <2>3. QED
    BY <2>1, <2>2
<1>9. /\ PageOK(lines', rows) /\ total' \in Nat
      /\ \A i \in 1..Len(lines') : Told(lines'[i].o, lines'[i].s, rows, late', updates', unsent)
  <2>1. CASE e.s = "pending"
    <3>1. lines' = lines /\ total' = total
      BY <1>1, <2>1
    <3>2. ASSUME NEW i \in 1..Len(lines)
          PROVE  Told(lines[i].o, lines[i].s, rows, late', updates', unsent)
      <4>1. lines[i] \in Line /\ Known(lines[i], rows)
        BY <1>5 DEF PageOK
      <4>2. CASE lines[i].o = e.o
        BY <1>8, <2>1, <4>1, <4>2
      <4>3. CASE lines[i].o # e.o
        BY <1>5, <1>6, <4>3
      <4>4. QED
        BY <4>2, <4>3
    <3>3. QED
      BY <1>5, <3>1, <3>2
  <2>2. CASE e.s # "pending"
    <3>1. /\ lines' \in Seq(Line) /\ Len(lines') <= PageSize /\ total' \in Nat
          /\ \A i \in 1..Len(lines') :
                lines'[i] = e \/ \E j \in 1..Len(lines) : lines'[i] = lines[j] /\ lines[j].o # e.o
      BY <1>1, <1>2, <2>2, AppliedPage
    <3>2. \A i \in 1..Len(lines') : Known(lines'[i], rows)
      BY <1>2, <1>5, <3>1 DEF PageOK
    <3>3. ASSUME NEW i \in 1..Len(lines'), NEW j \in 1..Len(lines'), lines'[i].o = lines'[j].o
          PROVE  lines'[i].s = lines'[j].s
      <4>1. \A m, n \in 1..Len(lines) : lines[m].o = lines[n].o => lines[m].s = lines[n].s
        BY <1>5 DEF PageOK
      <4>2. CASE lines'[i] = e \/ lines'[j] = e
        BY <3>1, <3>3, <4>2
      <4>3. CASE lines'[i] # e /\ lines'[j] # e
        <5>1. PICK m \in 1..Len(lines) : lines'[i] = lines[m]
          BY <3>1, <4>3
        <5>2. PICK n \in 1..Len(lines) : lines'[j] = lines[n]
          BY <3>1, <4>3
        <5>3. QED
          BY <3>3, <4>1, <5>1, <5>2
      <4>4. QED
        BY <4>2, <4>3
    <3>4. PageOK(lines', rows)
      BY <3>1, <3>2, <3>3 DEF PageOK
    <3>5. \A i \in 1..Len(lines') : Told(lines'[i].o, lines'[i].s, rows, late', updates', unsent)
      BY <1>5, <1>6, <1>7, <3>1
    <3>6. QED
      BY <3>1, <3>4, <3>5
  <2>3. QED
    BY <2>1, <2>2
<1>10. requests' \in Seq(Calls) /\ Len(requests') <= MaxCalls /\ RequestsOK(requests', rows, page)
  BY <1>1, <1>3, <1>4
<1>11. BoardTypeOK'
  <2>1. loading' \in BOOLEAN
    <3>1. loading \in BOOLEAN
      BY DEF BoardInv, BoardTypeOK
    <3>2. QED
      BY <1>1, <3>1
  <2>2. late' \subseteq Orders
    BY <1>1, <1>3
  <2>3. lines' \in Seq(Line) /\ Len(lines') <= PageSize
    BY <1>9 DEF PageOK
  <2>4. QED
    BY <1>1, <1>2, <1>9, <1>10, <2>1, <2>2, <2>3 DEF BoardInv, BoardTypeOK
<1>12. NewsInv' /\ RequestInv' /\ NoPage' /\ ListInv' /\ DetailInv'
  <2>1. link' = "lost" => updates' = <<>>
    BY <1>1 DEF BoardInv, NewsInv
  <2>2. QED
    BY <1>1, <1>2, <1>9, <1>10, <2>1 DEF BoardInv, NewsInv, RequestInv, NoPage, ListInv, DetailInv
<1>13. QED
  BY <1>11, <1>12 DEF BoardInv

LEMMA BoardStutter ==
    ASSUME BoardInv, UNCHANGED boardVars
    PROVE  BoardInv'
<1> USE DEF boardVars, table, gateway, socket, list
<1>1. BoardTypeOK'
  BY DEF BoardInv, BoardTypeOK
<1>2. QED
  BY <1>1, BoardQuiet

LEMMA BoardSteps ==
    ASSUME BoardInv, [BoardNext]_boardVars
    PROVE  BoardInv'
<1>1. CASE Others
  <2>1. ASSUME NEW o \in Orders \ {Mine}, Create(o)
        PROVE  BoardInv'
    BY <2>1, CreateStep
  <2>2. ASSUME NEW o \in Orders, NEW s \in Statuses, Change(o, s)
        PROVE  BoardInv'
    BY <2>2, ChangeStep
  <2>3. ASSUME NEW u \in unsent, Emit(u) \/ Unrecorded(u)
        PROVE  BoardInv'
    BY <2>3, EmitStep
  <2>4. QED
    BY <1>1, <2>1, <2>2, <2>3 DEF Others
<1>2. CASE Gateway
  <2>1. CASE SocketLost
    BY <2>1, LinkLostStep
  <2>2. ASSUME NEW c \in Conns,
               SocketAccepted(c) \/ Rejected(c) \/ Disconnected(c)
               \/ PingTimeout(c) \/ Reconnect(c)
        PROVE  BoardInv'
    BY <2>2, GatewayStep
  <2>3. QED
    BY <1>2, <2>1, <2>2 DEF Gateway
<1>3. CASE Pages
  <2>1. ASSUME NEW k \in 1..Len(requests),
               \/ Set(k) \/ List(k) \/ Get(k)
               \/ ListAnswered(k) \/ DetailAnswered(k) \/ SetAnswered(k)
               \/ Refused(k)
        PROVE  BoardInv'
    BY <2>1, SetStep, ListStep, GetStep, ListAnsweredStep, DetailAnsweredStep, SetAnsweredStep,
       RefusedStep
  <2>2. ASSUME NEW c \in Conns, NEW p \in {"list", "detail"}, OpenPage(c, p)
        PROVE  BoardInv'
    BY <2>2, OpenStep
  <2>3. ASSUME NEW f \in Filters, EditFilter(f)
        PROVE  BoardInv'
    BY <2>3, EditFilterStep
  <2>4. CASE ClosePage \/ ListEvent \/ DetailEvent
    BY <2>4, ClosePageStep, ListEventStep, DetailEventStep
  <2>5. CASE \/ \E p \in 1..MaxOrders : Browse(p)
             \/ Refresh
             \/ \E s \in Statuses : ChangeMine(s)
    BY <2>5, AskingStep
  <2>6. QED
    BY <1>3, <2>1, <2>2, <2>3, <2>4, <2>5 DEF Pages
<1>4. CASE UNCHANGED boardVars
  BY <1>4, BoardStutter
<1>5. QED
  BY <1>1, <1>2, <1>3, <1>4 DEF BoardNext

\* When nothing is under way, what a page shows has been told all there was to tell it.
LEMMA BoardConsequences ==
    ASSUME BoardInv
    PROVE  BoardTypeOK /\ PageCurrent
<1>1. BoardTypeOK
  BY DEF BoardInv
<1>2. ASSUME Settled
      PROVE  /\ \A o : ~ Awaited(o, updates, unsent)
             /\ ~ Reading(requests)
  <2>1. Len(updates) = 0 /\ Len(requests) = 0 /\ unsent = {}
    BY <1>2 DEF Settled
  <2>2. QED
    BY <2>1 DEF Awaited, Reading
<1>3. PageCurrent
  BY <1>2 DEF BoardInv, ListInv, DetailInv, Told, PageCurrent
<1>4. QED
  BY <1>1, <1>3

\* The tab, its calls, its socket and the events under way keep their types, for any
\* number of orders, page size, connections and calls.
THEOREM BoardTypeCorrect ==
    BoardSpec => []BoardTypeOK
<1>1. BoardInit => BoardInv
  BY BoardStart
<1>2. BoardInv /\ [BoardNext]_boardVars => BoardInv'
  BY BoardSteps
<1>3. BoardInv => BoardTypeOK
  BY BoardConsequences
<1>4. QED
  BY <1>1, <1>2, <1>3, PTL DEF BoardSpec

\* Whatever the page missed, was told twice or in an old answer, once nothing is under
\* way it shows each order as it is or counts it among the late ones: the reloads of
\* OrderListComponent and OrderDetailComponent lose no other news.
THEOREM PagesCurrent ==
    BoardSpec => []PageCurrent
<1>1. BoardInit => BoardInv
  BY BoardStart
<1>2. BoardInv /\ [BoardNext]_boardVars => BoardInv'
  BY BoardSteps
<1>3. BoardInv => PageCurrent
  BY BoardConsequences
<1>4. QED
  BY <1>1, <1>2, <1>3, PTL DEF BoardSpec
=============================================================================
