-------------------------- MODULE AuthServiceProofs --------------------------
(***************************************************************************)
(* Proofs about AuthService, for any sets of requests, sessions, service   *)
(* tokens and jobs, and any number of restarts: its types, and that        *)
(* refresh tokens rotate, that a logout ends its session and blocks its    *)
(* access token, and that deactivations and revocations hold.              *)
(***************************************************************************)
EXTENDS AuthService, TLAPS

\* The types, and what each phase says of the job.
PhaseOps ==
    \A r \in Requests :
        /\ pc[r] = "permit" => job[r].op # "logout"
        /\ pc[r] \in {"reload", "write"} => job[r].op \in {"assign", "deactivate"}
        /\ pc[r] = "save" => job[r].op \in {"create", "revoke"}
        /\ pc[r] \in {"blacklist", "append"} => job[r].op = "logout"

LEMMA InitTypes == Init => TypeOK /\ PhaseOps
<1> SUFFICES ASSUME Init PROVE TypeOK /\ PhaseOps
  OBVIOUS
<1>1. (CHOOSE j \in Jobs : TRUE) \in Jobs
  BY JobsAssumption
<1>2. job \in [Requests -> Jobs]
  BY <1>1 DEF Init
<1>3. issued \in [Sessions -> 0..MaxPairs] /\ restarts \in 0..MaxRestarts
  BY BoundsAssumption DEF Init
<1>4. loggedOut \in [{"now", "before"} -> SUBSET Pair] /\ late \in [Requests -> {"no", "now", "before"}]
  BY DEF Init
<1>5. TypeOK
  BY <1>2, <1>3, <1>4 DEF Init, TypeOK, Phases, Active
<1>6. PhaseOps
  BY DEF Init, PhaseOps
<1>7. QED
  BY <1>5, <1>6

\* A refreshed pair is one of the session's pairs.
LEMMA NextPair ==
    ASSUME TypeOK, NEW p \in Pair, issued[p.session] < MaxPairs
    PROVE  [p EXCEPT !.n = issued[p.session] + 1] \in Pair
<1>1. p.session \in Sessions /\ issued[p.session] \in 0..MaxPairs
  BY DEF Pair, TypeOK
<1>2. issued[p.session] + 1 \in 1..MaxPairs
  BY <1>1, BoundsAssumption
<1>3. QED
  BY <1>2 DEF Pair

LEMMA TypeStep ==
    ASSUME TypeOK, [Next]_vars
    PROVE  TypeOK'
<1> USE DEF Phases, Active, Goto, memory, tables, history
<1>1. ASSUME NEW s \in Sessions, Login(s)
      PROVE  TypeOK'
  <2>1. [session |-> s, n |-> 1] \in Pair /\ 1 \in 0..MaxPairs
    BY BoundsAssumption DEF Pair
  <2>2. QED
    BY <1>1, <2>1 DEF Login, TypeOK
<1>2. ASSUME NEW p \in Pair, Refresh(p)
      PROVE  TypeOK'
  <2>1. [p EXCEPT !.n = issued[p.session] + 1] \in Pair
    BY <1>2, NextPair DEF Refresh
  <2>2. p.session \in Sessions /\ issued[p.session] + 1 \in 0..MaxPairs
    BY <1>2, BoundsAssumption DEF Refresh, Pair, TypeOK
  <2>3. QED
    BY <1>2, <2>1, <2>2 DEF Refresh, TypeOK
<1>3. ASSUME NEW p \in Pair, Expire(p)
      PROVE  TypeOK'
  BY <1>3 DEF Expire, TypeOK
<1>4. ASSUME NEW r \in Requests, NEW j \in Jobs, Arrive(r, j)
      PROVE  TypeOK'
  BY <1>4 DEF Arrive, Lateness, TypeOK
<1>5. ASSUME NEW r \in Requests, CheckRedis(r)
      PROVE  TypeOK'
  BY <1>5 DEF CheckRedis, RedisAnswers, TypeOK
<1>6. ASSUME NEW r \in Requests, Permit(r)
      PROVE  TypeOK'
  BY <1>6 DEF Permit, TypeOK
<1>7. ASSUME NEW r \in Requests, Logout(r)
      PROVE  TypeOK'
  <2>1. job[r].access \in Pair
    BY JobsAssumption DEF TypeOK, Job
  <2>2. QED
    BY <1>7, <2>1 DEF Logout, Revoke, Blacklisted, TypeOK
<1>8. ASSUME NEW r \in Requests, LogoutRefused(r)
      PROVE  TypeOK'
  BY <1>8 DEF LogoutRefused, TypeOK
<1>9. ASSUME NEW r \in Requests, BlacklistInRedis(r)
      PROVE  TypeOK'
  <2>1. job[r].access \in Pair
    BY JobsAssumption DEF TypeOK, Job
  <2>2. QED
    BY <1>9, <2>1 DEF BlacklistInRedis, RedisAnswers, TypeOK
<1>10. ASSUME NEW r \in Requests, AppendLogout(r)
       PROVE  TypeOK'
  <2>1. job[r].access \in Pair
    BY JobsAssumption DEF TypeOK, Job
  <2>2. QED
    BY <1>10, <2>1 DEF AppendLogout, TypeOK
<1>11. ASSUME NEW r \in Requests, ChangeUser(r)
       PROVE  TypeOK'
  BY <1>11 DEF ChangeUser, Wanted, TypeOK
<1>12. ASSUME NEW r \in Requests, Reload(r)
       PROVE  TypeOK'
  BY <1>12 DEF Reload, TypeOK
<1>13. ASSUME NEW r \in Requests, Write(r)
       PROVE  TypeOK'
  <2>1. row' \in BOOLEAN /\ barred' \in BOOLEAN
    BY <1>13 DEF Write, RowAfter, Wanted, TypeOK
  <2>2. QED
    BY <1>13, <2>1 DEF Write, TypeOK
<1>14. ASSUME NEW r \in Requests, ChangeToken(r)
       PROVE  TypeOK'
  BY <1>14 DEF ChangeToken, TypeOK
<1>15. ASSUME NEW r \in Requests, SaveToken(r)
       PROVE  TypeOK'
  BY <1>15 DEF SaveToken, SavedState, TypeOK
<1>16. ASSUME NEW r \in Requests, Fail(r)
       PROVE  TypeOK'
  BY <1>16 DEF Fail, TypeOK
<1>17. CASE Restart
  <2>1. restarts' \in 0..MaxRestarts
    BY <1>17, BoundsAssumption DEF Restart, TypeOK
  <2>2. QED
    BY <1>17, <2>1 DEF Restart, TypeOK
<1>18. CASE UNCHANGED vars
  BY <1>18 DEF vars, TypeOK
<1>19. QED
  BY <1>1, <1>2, <1>3, <1>4, <1>5, <1>6, <1>7, <1>8, <1>9, <1>10, <1>11, <1>12, <1>13, <1>14,
     <1>15, <1>16, <1>17, <1>18 DEF Next

\* Each phase is reached by its own operations only.
LEMMA PhaseStep ==
    ASSUME TypeOK, PhaseOps, [Next]_vars
    PROVE  PhaseOps'
<1> USE DEF Goto, TypeOK, PhaseOps, Active
<1>1. ASSUME NEW r \in Requests, NEW j \in Jobs, Arrive(r, j)
      PROVE  PhaseOps'
  BY <1>1 DEF Arrive
<1>2. ASSUME NEW r \in Requests, CheckRedis(r) \/ Permit(r) \/ Logout(r) \/ LogoutRefused(r)
      PROVE  PhaseOps'
  BY <1>2 DEF CheckRedis, Permit, Logout, LogoutRefused
<1>3. ASSUME NEW r \in Requests, BlacklistInRedis(r) \/ AppendLogout(r) \/ ChangeUser(r) \/ Reload(r)
      PROVE  PhaseOps'
  BY <1>3 DEF BlacklistInRedis, AppendLogout, ChangeUser, Reload
<1>4. ASSUME NEW r \in Requests, Write(r) \/ ChangeToken(r) \/ SaveToken(r) \/ Fail(r)
      PROVE  PhaseOps'
  BY <1>4 DEF Write, ChangeToken, SaveToken, Fail
<1>5. CASE Restart
  BY <1>5 DEF Restart
<1>6. CASE UNCHANGED <<pc, job>>
  BY <1>6
<1>7. QED
  BY <1>1, <1>2, <1>3, <1>4, <1>5, <1>6 DEF Next, Login, Refresh, Expire, vars

LEMMA Types == Spec => [](TypeOK /\ PhaseOps)
<1>1. TypeOK /\ PhaseOps /\ [Next]_vars => TypeOK' /\ PhaseOps'
  BY TypeStep, PhaseStep
<1>2. QED
  BY <1>1, InitTypes, PTL DEF Spec

\* Sessions, blacklists, records and requests keep their types.
THEOREM TypeCorrect == Spec => []TypeOK
  BY Types, PTL

-----------------------------------------------------------------------------
(***************************************************************************)
(* Refresh tokens and logouts                                              *)
(***************************************************************************)
\* No refresh token of session s is accepted, and s cannot be logged in to again.
Over(s) == issued[s] > 0 /\ \A p \in refreshTokenIds : p.session # s

LogoutDone ==
    \A r \in Requests : job[r].op = "logout" /\ pc[r] \in {"blacklist", "append", "ok"} =>
        Over(job[r].refresh.session)

\* What a logout has blocked stays in the memory of the process.
BlockedHere ==
    /\ loggedOut["now"] \subseteq localBlacklist
    /\ \A r \in Requests : pc[r] \in {"blacklist", "append"} => job[r].access \in localBlacklist
    /\ \A r \in Requests : pc[r] = "guard" => late[r] # "now"

\* The inductive invariant of sessions.
SessionInv == TypeOK /\ PhaseOps /\ OneRefreshToken /\ LogoutDone /\ BlockedHere

LEMMA InitSession == Init => SessionInv
<1>1. Init => OneRefreshToken /\ LogoutDone /\ BlockedHere
  BY DEF Init, OneRefreshToken, LogoutDone, BlockedHere
<1>2. QED
  BY <1>1, InitTypes DEF SessionInv

\* One login, then a chain of refreshes each of which takes the last token away.
LEMMA OneTokenStep ==
    ASSUME SessionInv, [Next]_vars
    PROVE  OneRefreshToken'
<1> USE DEF SessionInv, memory
<1>1. ASSUME NEW s \in Sessions, Login(s)
      PROVE  OneRefreshToken'
  <2> DEFINE new == [session |-> s, n |-> 1]
  <2>1. /\ issued[s] = 0 /\ issued' = [issued EXCEPT ![s] = 1]
        /\ refreshTokenIds' = refreshTokenIds \union {new}
    BY <1>1 DEF Login
  <2>2. \A p \in refreshTokenIds : p \in Pair /\ p.session \in Sessions /\ p.n > 0
    BY DEF TypeOK, Pair
  <2>3. \A p \in refreshTokenIds : p.session # s /\ issued'[p.session] = issued[p.session]
    BY <2>1, <2>2 DEF OneRefreshToken, TypeOK
  <2>4. issued'[s] = 1
    BY <2>1 DEF TypeOK
  <2>5. QED
    BY <2>1, <2>3, <2>4 DEF OneRefreshToken
<1>2. ASSUME NEW p \in Pair, Refresh(p)
      PROVE  OneRefreshToken'
  <2> DEFINE new == [p EXCEPT !.n = issued[p.session] + 1]
  <2>1. /\ p \in refreshTokenIds
        /\ issued' = [issued EXCEPT ![p.session] = @ + 1]
        /\ refreshTokenIds' = (refreshTokenIds \ {p}) \union {new}
    BY <1>2 DEF Refresh
  <2>2. p.session \in Sessions /\ new.session = p.session /\ new.n = issued[p.session] + 1
    BY DEF Pair
  <2>3. \A q \in refreshTokenIds \ {p} : q.session # p.session /\ q.session \in Sessions
    BY <2>1 DEF OneRefreshToken, TypeOK, Pair
  <2>4. /\ issued'[p.session] = new.n
        /\ \A q \in refreshTokenIds \ {p} : issued'[q.session] = issued[q.session]
    BY <2>1, <2>2, <2>3 DEF TypeOK
  <2> HIDE DEF new
  <2>5. QED
    BY <2>1, <2>2, <2>3, <2>4 DEF OneRefreshToken
<1>3. ASSUME refreshTokenIds' \subseteq refreshTokenIds, issued' = issued
      PROVE  OneRefreshToken'
  BY <1>3 DEF OneRefreshToken
<1>4. QED
  BY <1>1, <1>2, <1>3 DEF Next, Expire, Arrive, CheckRedis, Permit, Logout, Revoke, LogoutRefused,
     BlacklistInRedis, AppendLogout, ChangeUser, Reload, Write, ChangeToken, SaveToken, Fail,
     Restart, vars

\* A session that is over stays over.
LEMMA OverStays ==
    ASSUME SessionInv, [Next]_vars, NEW s \in Sessions, Over(s)
    PROVE  Over(s)'
<1> USE DEF SessionInv, memory
<1>1. ASSUME NEW u \in Sessions, Login(u)
      PROVE  Over(s)'
  BY <1>1 DEF Login, Over, TypeOK
<1>2. ASSUME NEW p \in Pair, Refresh(p)
      PROVE  Over(s)'
  <2>1. p.session # s /\ [p EXCEPT !.n = issued[p.session] + 1].session # s
    BY <1>2 DEF Refresh, Over, Pair
  <2>2. issued'[s] = issued[s]
    BY <1>2, <2>1 DEF Refresh, TypeOK
  <2>3. QED
    BY <1>2, <2>1, <2>2 DEF Refresh, Over
<1>3. ASSUME refreshTokenIds' \subseteq refreshTokenIds, issued' = issued
      PROVE  Over(s)'
  BY <1>3 DEF Over
<1>4. QED
  BY <1>1, <1>2, <1>3 DEF Next, Expire, Arrive, CheckRedis, Permit, Logout, Revoke, LogoutRefused,
     BlacklistInRedis, AppendLogout, ChangeUser, Reload, Write, ChangeToken, SaveToken, Fail,
     Restart, vars

\* A logout past its check has ended the session, and nothing else gets that far.
LEMMA LogoutDoneStep ==
    ASSUME SessionInv, [Next]_vars
    PROVE  LogoutDone'
<1> USE DEF SessionInv, memory, Goto
<1>1. \A r \in Requests : job[r].refresh.session \in Sessions
  BY JobsAssumption DEF TypeOK, Job, Pair
<1>2. ASSUME NEW r \in Requests, job'[r].op = "logout", pc'[r] \in {"blacklist", "append", "ok"}
      PROVE  job'[r] = job[r] /\ Over(job[r].refresh.session)'
  <2>1. ASSUME NEW q \in Requests, NEW j \in Jobs, Arrive(q, j)
        PROVE  q # r /\ job'[r] = job[r] /\ pc'[r] = pc[r]
    BY <1>2, <2>1 DEF Arrive, TypeOK
  <2>2. CASE pc[r] \in {"blacklist", "append", "ok"} /\ job'[r] = job[r]
    BY <1>1, <1>2, <2>2, OverStays DEF LogoutDone
  <2>3. ASSUME Logout(r)
        PROVE  job'[r] = job[r] /\ Over(job[r].refresh.session)'
    <3> DEFINE p == job[r].refresh
    <3>1. /\ p \in refreshTokenIds /\ refreshTokenIds' = refreshTokenIds \ {p}
          /\ issued' = issued /\ job' = job
      BY <2>3 DEF Logout, Revoke
    <3>2. p.n > 0 /\ p.n = issued[p.session]
      BY <3>1 DEF OneRefreshToken, TypeOK, Pair
    <3>3. \A q \in refreshTokenIds' : q.session # p.session
      BY <3>1 DEF OneRefreshToken
    <3>4. QED
      BY <3>1, <3>2, <3>3 DEF Over
  <2>4. ASSUME NEW q \in Requests, CheckRedis(q) \/ Permit(q) \/ LogoutRefused(q)
        PROVE  job' = job /\ (pc'[r] \in {"blacklist", "append", "ok"} => pc[r] = pc'[r])
    BY <1>2, <2>4 DEF CheckRedis, Permit, LogoutRefused, TypeOK, PhaseOps
  <2>5. ASSUME NEW q \in Requests, BlacklistInRedis(q) \/ AppendLogout(q) \/ ChangeUser(q) \/ Reload(q)
        PROVE  job' = job /\ pc[r] \in {"blacklist", "append", "ok"}
    BY <1>2, <2>5 DEF BlacklistInRedis, AppendLogout, ChangeUser, Reload, TypeOK, PhaseOps
  <2>6. ASSUME NEW q \in Requests, Write(q) \/ ChangeToken(q) \/ SaveToken(q) \/ Fail(q)
        PROVE  job' = job /\ pc[r] \in {"blacklist", "append", "ok"}
    BY <1>2, <2>6 DEF Write, ChangeToken, SaveToken, Fail, TypeOK, PhaseOps
  <2>7. ASSUME Restart
        PROVE  job' = job /\ pc[r] \in {"blacklist", "append", "ok"}
    BY <1>2, <2>7 DEF Restart, TypeOK, Active
  <2>8. ASSUME NEW q \in Requests, q # r, Logout(q)
        PROVE  job' = job /\ pc[r] \in {"blacklist", "append", "ok"}
    BY <1>2, <2>8 DEF Logout, TypeOK
  <2>9. CASE UNCHANGED <<pc, job>>
    BY <1>2, <2>2, <2>9
  <2>10. QED
    BY <1>2, <2>1, <2>2, <2>3, <2>4, <2>5, <2>6, <2>7, <2>8, <2>9 DEF Next, Login, Refresh, Expire, vars
<1>3. QED
  BY <1>2 DEF LogoutDone, Over

\* Nothing but a restart takes an entry off the process' own blacklist.
LEMMA BlockedStep ==
    ASSUME SessionInv, [Next]_vars
    PROVE  BlockedHere'
<1> USE DEF SessionInv, memory, history, Goto, TypeOK, BlockedHere
<1>1. ASSUME NEW r \in Requests, NEW j \in Jobs, Arrive(r, j)
      PROVE  BlockedHere'
  BY <1>1 DEF Arrive, Lateness
<1>2. ASSUME NEW r \in Requests, CheckRedis(r) \/ Permit(r) \/ LogoutRefused(r)
      PROVE  BlockedHere'
  BY <1>2 DEF CheckRedis, Permit, LogoutRefused
<1>3. ASSUME NEW r \in Requests, Logout(r)
      PROVE  BlockedHere'
  BY <1>3 DEF Logout, Blacklisted
<1>4. ASSUME NEW r \in Requests, BlacklistInRedis(r) \/ AppendLogout(r)
      PROVE  BlockedHere'
  BY <1>4 DEF BlacklistInRedis, AppendLogout
<1>5. ASSUME NEW r \in Requests, ChangeUser(r) \/ Reload(r) \/ Write(r)
      PROVE  BlockedHere'
  BY <1>5 DEF ChangeUser, Reload, Write
<1>6. ASSUME NEW r \in Requests, ChangeToken(r) \/ SaveToken(r) \/ Fail(r)
      PROVE  BlockedHere'
  BY <1>6 DEF ChangeToken, SaveToken, Fail
<1>7. CASE Restart
  BY <1>7 DEF Restart, Active
<1>8. CASE UNCHANGED <<pc, job, late, loggedOut, localBlacklist>>
  BY <1>8
<1>9. QED
  BY <1>1, <1>2, <1>3, <1>4, <1>5, <1>6, <1>7, <1>8 DEF Next, Login, Refresh, Expire, vars

LEMMA SessionInvariant == Spec => []SessionInv
<1>1. SessionInv /\ [Next]_vars => SessionInv'
  BY TypeStep, PhaseStep, OneTokenStep, LogoutDoneStep, BlockedStep DEF SessionInv
<1>2. QED
  BY <1>1, InitSession, PTL DEF Spec

\* A session never has two refresh tokens that are accepted.
THEOREM RefreshTokensRotate == Spec => []OneRefreshToken
<1>1. SessionInv => OneRefreshToken
  BY DEF SessionInv
<1>2. QED
  BY <1>1, SessionInvariant, PTL

\* A logout that was answered has ended its session for good.
THEOREM LogoutsEndSessions == Spec => []SessionEnds
<1>1. SessionInv => SessionEnds
  BY DEF SessionInv, LogoutDone, Over, SessionEnds
<1>2. QED
  BY <1>1, SessionInvariant, PTL

\* The access token of an answered logout does not pass the guard again.
THEOREM LogoutsHold == Spec => LogoutHolds
<1>1. ASSUME SessionInv, [Next]_vars, NEW r \in Requests, pc[r] = "guard",
             pc'[r] \in {"permit", "granted"}
      PROVE  /\ late[r] # "now"
             /\ late[r] = "before" => job[r].access \notin redis \/ link' = "down"
  <2>1. late[r] # "now"
    BY <1>1 DEF SessionInv, BlockedHere
  <2>2. ASSUME NEW q \in Requests, CheckRedis(q)
        PROVE  q = r /\ (job[r].access \notin redis \/ link' = "down")
    <3>1. q = r
      BY <1>1, <2>2 DEF CheckRedis, Goto, SessionInv, TypeOK
    <3>2. PICK up \in BOOLEAN :
            /\ RedisAnswers(up)
            /\ Goto(r, IF up /\ job[r].access \in redis THEN "refused"
                       ELSE IF job[r].op = "logout" THEN "granted" ELSE "permit")
      BY <2>2, <3>1 DEF CheckRedis
    <3>3. CASE up
      <4>1. job[r].access \in redis => pc'[r] = "refused"
        BY <1>1, <3>2, <3>3 DEF Goto, SessionInv, TypeOK
      <4>2. QED
        BY <1>1, <3>1, <4>1
    <3>4. CASE ~ up
      BY <3>1, <3>2, <3>4 DEF RedisAnswers
    <3>5. QED
      BY <3>3, <3>4
  <2>3. ASSUME NEW q \in Requests, NEW j \in Jobs, Arrive(q, j)
        PROVE  FALSE
    BY <1>1, <2>3 DEF Arrive, Goto, SessionInv, TypeOK
  <2>4. ASSUME NEW q \in Requests, Permit(q) \/ Logout(q) \/ LogoutRefused(q) \/ BlacklistInRedis(q)
                                   \/ AppendLogout(q)
        PROVE  FALSE
    BY <1>1, <2>4 DEF Permit, Logout, LogoutRefused, BlacklistInRedis, AppendLogout, Goto,
       SessionInv, TypeOK
  <2>5. ASSUME NEW q \in Requests, ChangeUser(q) \/ Reload(q) \/ Write(q) \/ ChangeToken(q)
                                   \/ SaveToken(q) \/ Fail(q)
        PROVE  FALSE
    BY <1>1, <2>5 DEF ChangeUser, Reload, Write, ChangeToken, SaveToken, Fail, Goto, SessionInv, TypeOK
  <2>6. CASE Restart
    BY <1>1, <2>6 DEF Restart, Active, SessionInv, TypeOK
  <2>7. CASE UNCHANGED pc
    BY <1>1, <2>7
  <2>8. QED
    BY <1>1, <2>1, <2>2, <2>3, <2>4, <2>5, <2>6, <2>7 DEF Next, Login, Refresh, Expire, vars
<1>2. SessionInv /\ [Next]_vars =>
        [\A r \in Requests :
            pc[r] = "guard" /\ pc'[r] \in {"permit", "granted"} =>
                /\ late[r] # "now"
                /\ late[r] = "before" => job[r].access \notin redis \/ link' = "down"]_vars
  BY <1>1
<1>3. QED
  BY <1>2, SessionInvariant, PTL DEF Spec, LogoutHolds

-----------------------------------------------------------------------------
(***************************************************************************)
(* Deactivations and revocations                                           *)
(***************************************************************************)
\* A deactivation no assignment overlaps finds, and leaves, the record inactive:
\* in memory from its first step, in the row once it has selected and written it.
BarInv ==
    /\ \A r \in clean : job[r].op = "deactivate" /\ pc[r] \in Storing \union {"ok", "failed"}
    /\ \A r \in clean : pc[r] \in Storing => ~ active /\ Running("assign") = {}
    /\ \A r \in clean : pc[r] = "write" /\ ~ base[r] => ~ row
    /\ barred => ~ active /\ ~ row /\ Running("assign") = {}

LEMMA BarStep ==
    ASSUME TypeOK, PhaseOps, BarInv, [Next]_vars
    PROVE  BarInv'
<1> USE DEF TypeOK, Goto, memory, tables, history
<1>1. ASSUME NEW r \in Requests, NEW j \in Jobs, Arrive(r, j)
      PROVE  BarInv'
  BY <1>1 DEF Arrive, BarInv, Running, Storing
<1>2. ASSUME NEW r \in Requests, CheckRedis(r) \/ Permit(r) \/ Logout(r) \/ LogoutRefused(r)
      PROVE  BarInv'
  BY <1>2 DEF CheckRedis, Permit, Logout, LogoutRefused, BarInv, Running, Storing
<1>3. ASSUME NEW r \in Requests,
             BlacklistInRedis(r) \/ AppendLogout(r) \/ ChangeToken(r) \/ SaveToken(r) \/ Fail(r)
      PROVE  BarInv'
  BY <1>3 DEF BlacklistInRedis, AppendLogout, ChangeToken, SaveToken, Fail, BarInv, Running, Storing
<1>4. ASSUME NEW r \in Requests, ChangeUser(r), Wanted(r)
      PROVE  BarInv'
  <2>1. \A q \in clean' : q \in clean /\ q # r /\ pc[q] \notin Storing /\ pc'[q] = pc[q]
    BY <1>4 DEF ChangeUser, BarInv, Running, Wanted
  <2>2. /\ job' = job /\ base' = base /\ row' = row
        /\ barred' = FALSE
    BY <1>4 DEF ChangeUser
  <2>3. QED
    BY <2>1, <2>2 DEF BarInv, Storing
<1>5. ASSUME NEW r \in Requests, ChangeUser(r), ~ Wanted(r)
      PROVE  BarInv'
  <2>1. /\ job[r].op = "deactivate" /\ active' = FALSE
        /\ pc[r] = "granted" /\ pc' = [pc EXCEPT ![r] = "reload"]
        /\ barred' = barred /\ job' = job /\ base' = base /\ row' = row
        /\ clean' = IF Running("assign") = {} THEN clean \union {r} ELSE clean
    BY <1>5 DEF ChangeUser, Wanted
  <2>2. Running("assign")' = Running("assign")
    BY <2>1 DEF Running, Storing
  <2>3. \A q \in clean' : q = r \/ q \in clean
    BY <2>1
  <2>4. \A q \in clean' : job'[q].op = "deactivate" /\ pc'[q] \in Storing \union {"ok", "failed"}
    BY <2>1, <2>3 DEF BarInv, Storing
  <2>5. \A q \in clean' : pc'[q] \in Storing => Running("assign") = {}
    <3>1. r \notin clean
      BY <2>1 DEF BarInv, Storing
    <3>2. QED
      BY <2>1, <2>3, <3>1 DEF BarInv
  <2>6. \A q \in clean' : pc'[q] = "write" /\ ~ base[q] => ~ row
    BY <2>1, <2>3 DEF BarInv
  <2>7. QED
    BY <2>1, <2>2, <2>4, <2>5, <2>6 DEF BarInv
<1>6. ASSUME NEW r \in Requests, Reload(r)
      PROVE  BarInv'
  BY <1>6 DEF Reload, BarInv, Running, Storing
<1>7. ASSUME NEW r \in Requests, Write(r)
      PROVE  BarInv'
  <2>1. /\ pc[r] = "write" /\ pc' = [pc EXCEPT ![r] = "ok"]
        /\ active' = active /\ job' = job /\ base' = base /\ clean' = clean
        /\ row' = RowAfter(r) /\ barred' = (barred \/ r \in clean)
    BY <1>7 DEF Write
  <2>2. Running("assign")' \subseteq Running("assign")
    BY <2>1 DEF Running, Storing
  <2>3. Running("assign") = {} => ~ Wanted(r)
    BY <2>1 DEF Running, Storing, Wanted
  <2>4. Running("assign") = {} /\ ~ row => ~ row'
    BY <2>1, <2>3 DEF RowAfter
  <2>5. r \in clean => ~ row' /\ ~ active /\ Running("assign") = {}
    <3> SUFFICES ASSUME r \in clean PROVE ~ row' /\ ~ active /\ Running("assign") = {}
      OBVIOUS
    <3>1. ~ active /\ Running("assign") = {} /\ (~ base[r] => ~ row)
      BY <2>1 DEF BarInv, Storing
    <3>2. base[r] => row' = FALSE
      BY <2>1, <2>3, <3>1 DEF RowAfter, Wanted
    <3>3. QED
      BY <2>4, <3>1, <3>2
  <2>6. \A q \in clean : pc'[q] \in Storing => pc[q] \in Storing /\ pc'[q] = pc[q]
    BY <2>1 DEF Storing
  <2>7. QED
    BY <2>1, <2>2, <2>4, <2>5, <2>6 DEF BarInv, Storing
<1>8. CASE Restart
  BY <1>8 DEF Restart, BarInv, Active, Running, Storing
<1>9. CASE UNCHANGED <<active, row, pc, job, base, clean, barred>>
  BY <1>9 DEF BarInv, Running
<1>10. QED
  BY <1>1, <1>2, <1>3, <1>4, <1>5, <1>6, <1>7, <1>8, <1>9 DEF Next, Login, Refresh, Expire, vars

\* A deactivation that was answered holds, in memory and in the row.
THEOREM DeactivationsHold == Spec => []DeactivationHolds
<1>1. Init => BarInv
  BY DEF Init, BarInv
<1>2. TypeOK /\ PhaseOps /\ BarInv /\ [Next]_vars => BarInv'
  BY BarStep
<1>3. BarInv => DeactivationHolds
  BY DEF BarInv, DeactivationHolds
<1>4. QED
  BY <1>1, <1>2, <1>3, Types, PTL DEF Spec

\* A service token is revoked after its one creation was answered, so nothing
\* makes it live again.
RevokeInv ==
    /\ \A q, r \in Requests :
          /\ job[q].op = "create" /\ job[r].op = "create" /\ job[q].key = job[r].key
          /\ pc[q] # "new" /\ pc[r] # "new"
          => q = r
    /\ \A r \in Requests : job[r].op = "revoke" /\ pc[r] # "new" => Known(job[r].key)
    /\ \A r \in Requests : job[r].op = "revoke" /\ pc[r] = "save" => tokens[job[r].key] = "revoked"
    /\ \A r \in Requests : job[r].op = "revoke" /\ pc[r] = "ok" =>
          tokens[job[r].key] = "revoked" /\ saved[job[r].key] = "revoked"

LEMMA RevokeStep ==
    ASSUME TypeOK, PhaseOps, RevokeInv, [Next]_vars
    PROVE  RevokeInv'
<1> USE DEF TypeOK, Goto, memory, tables, history
<1>1. ASSUME NEW r \in Requests, NEW j \in Jobs, Arrive(r, j)
      PROVE  RevokeInv'
  <2>1. /\ pc[r] = "new" /\ pc'[r] \in {"refused", "guard"} /\ job'[r] = j
        /\ \A q \in Requests \ {r} : pc'[q] = pc[q] /\ job'[q] = job[q]
        /\ tokens' = tokens /\ saved' = saved
    BY <1>1 DEF Arrive
  <2>2. j.op = "create" => Unused(j.key)
    BY <1>1 DEF Arrive
  <2>3. j.op = "revoke" => Known(j.key)
    BY <1>1 DEF Arrive
  <2>4. \A k : Known(k) => Known(k)'
    BY <2>1 DEF Known
  <2>5. \A q, p \in Requests :
          /\ job'[q].op = "create" /\ job'[p].op = "create" /\ job'[q].key = job'[p].key
          /\ pc'[q] # "new" /\ pc'[p] # "new"
          => q = p
    BY <2>1, <2>2 DEF RevokeInv, Unused
  <2>6. \A q \in Requests : job'[q].op = "revoke" /\ pc'[q] # "new" => Known(job[q].key)'
    BY <2>1, <2>3, <2>4 DEF RevokeInv
  <2>7. QED
    BY <2>1, <2>5, <2>6 DEF RevokeInv
\* The steps that leave the tokens alone, and make no request new.
<1>2. ASSUME UNCHANGED <<job, tokens, saved>>,
             \A r \in Requests :
                /\ pc'[r] = "new" <=> pc[r] = "new"
                /\ pc[r] = "ok" => pc'[r] = "ok"
                /\ pc'[r] \in {"ok", "save"} /\ job[r].op \in {"create", "revoke"} => pc'[r] = pc[r]
      PROVE  RevokeInv'
  <2>1. \A k : Known(k) => Known(k)'
    BY <1>2 DEF Known
  <2>2. QED
    BY <1>2, <2>1 DEF RevokeInv
<1>3. ASSUME NEW r \in Requests, CheckRedis(r) \/ Permit(r) \/ Logout(r) \/ LogoutRefused(r)
      PROVE  RevokeInv'
  BY <1>2, <1>3 DEF CheckRedis, Permit, Logout, LogoutRefused
<1>4. ASSUME NEW r \in Requests,
             BlacklistInRedis(r) \/ AppendLogout(r) \/ ChangeUser(r) \/ Reload(r) \/ Write(r) \/ Fail(r)
      PROVE  RevokeInv'
  BY <1>2, <1>4 DEF BlacklistInRedis, AppendLogout, ChangeUser, Reload, Write, Fail, PhaseOps
<1>5. ASSUME NEW r \in Requests, ChangeToken(r)
      PROVE  RevokeInv'
  <2>1. /\ pc[r] = "granted" /\ pc' = [pc EXCEPT ![r] = "save"] /\ job' = job /\ saved' = saved
        /\ job[r].op \in {"create", "revoke"}
        /\ tokens' = [tokens EXCEPT ![job[r].key] =
                         IF job[r].op = "create" THEN "live" ELSE "revoked"]
    BY <1>5 DEF ChangeToken
  <2>2. \A k : Known(k) => Known(k)'
    BY <2>1 DEF Known
  <2>3. \A q \in Requests : job[q].key \in Keys
    BY JobsAssumption DEF Job
  <2>4. job[r].op = "create" => \A q \in Requests : job[q].op = "revoke" /\ pc[q] # "new" =>
                                   job[q].key # job[r].key
    BY <2>1 DEF RevokeInv, Known
  <2>5. \A q \in Requests :
          /\ job[q].op = "revoke" /\ pc[q] # "new" /\ tokens[job[q].key] = "revoked"
          => tokens'[job[q].key] = "revoked"
    BY <2>1, <2>3, <2>4
  <2>6. job[r].op = "revoke" => tokens'[job[r].key] = "revoked"
    BY <2>1, <2>3
  <2>7. QED
    BY <2>1, <2>2, <2>5, <2>6 DEF RevokeInv
<1>6. ASSUME NEW r \in Requests, SaveToken(r)
      PROVE  RevokeInv'
  <2>1. /\ pc[r] = "save" /\ pc' = [pc EXCEPT ![r] = "ok"] /\ job' = job /\ tokens' = tokens
        /\ saved' = [saved EXCEPT ![job[r].key] =
                         IF job[r].op = "create" THEN "live" ELSE "revoked"]
    BY <1>6 DEF SaveToken, SavedState
  <2>2. \A k : Known(k) => Known(k)'
    BY <2>1 DEF Known
  <2>3. \A q \in Requests : job[q].key \in Keys
    BY JobsAssumption DEF Job
  <2>4. job[r].op = "create" => \A q \in Requests : job[q].op = "revoke" /\ pc[q] # "new" =>
                                   job[q].key # job[r].key
    BY <2>1 DEF RevokeInv, Known
  <2>5. \A q \in Requests :
          /\ job[q].op = "revoke" /\ pc[q] # "new" /\ saved[job[q].key] = "revoked"
          => saved'[job[q].key] = "revoked"
    BY <2>1, <2>3, <2>4
  <2>6. job[r].op = "revoke" => saved'[job[r].key] = "revoked"
    BY <2>1, <2>3
  <2>7. QED
    BY <2>1, <2>2, <2>5, <2>6 DEF RevokeInv
<1>7. CASE Restart
  <2>1. \A k : Known(k) => Known(k)'
    BY <1>7 DEF Restart, Known, Active
  <2>2. QED
    BY <1>7, <2>1 DEF Restart, RevokeInv, Active
<1>8. CASE UNCHANGED <<tokens, saved, pc, job>>
  BY <1>8 DEF RevokeInv, Known
<1>9. QED
  BY <1>1, <1>3, <1>4, <1>5, <1>6, <1>7, <1>8 DEF Next, Login, Refresh, Expire, vars

\* A revocation that was answered holds for ever, across failures and restarts.
THEOREM RevocationsHold == Spec => []RevocationHolds
<1>1. Init => RevokeInv
  BY DEF Init, RevokeInv
<1>2. TypeOK /\ PhaseOps /\ RevokeInv /\ [Next]_vars => RevokeInv'
  BY RevokeStep
<1>3. RevokeInv => RevocationHolds
  BY DEF RevokeInv, RevocationHolds
<1>4. QED
  BY <1>1, <1>2, <1>3, Types, PTL DEF Spec
=============================================================================
