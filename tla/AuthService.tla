---------------------------- MODULE AuthService ----------------------------
(***************************************************************************)
(* AuthService, TokenBlacklistService and the guards: login sessions, the  *)
(* access tokens a logout revokes, the administrator's user record and     *)
(* service tokens.                                                         *)
(*                                                                         *)
(* The API is one process.  It keeps refresh token ids and a blacklist in  *)
(* memory only, copies of user records and service tokens in memory in     *)
(* front of their tables, and a second copy of the blacklist in Redis,     *)
(* which it never tries again in its life once an operation on it failed.  *)
(* A restart empties the memory and fills the copies from the tables.      *)
(*                                                                         *)
(* Code between two awaits is one action.                                  *)
(***************************************************************************)
EXTENDS Integers

CONSTANTS
    Requests,       \* the calls that are made, each once
    Sessions,       \* logins
    MaxPairs,       \* bound on the token pairs of a session
    Keys,           \* service tokens
    Jobs,           \* what is asked
    MaxRestarts     \* bound on restarts

ASSUME BoundsAssumption == MaxPairs \in Nat \ {0} /\ MaxRestarts \in Nat

\* The n-th pair of an access and a refresh token a session is given.
Pair == [session : Sessions, n : 1..MaxPairs]

Ops == {"use", "logout", "assign", "deactivate", "create", "revoke"}

\* access and refresh: the tokens sent with the request; key: a service token.
Job == [op : Ops, access : Pair, refresh : Pair, key : Keys]

ASSUME JobsAssumption == Jobs \subseteq Job /\ Jobs # {}

VARIABLES
    issued,         \* issued[s]: how many pairs session s was given
    refreshTokenIds,
    localBlacklist, \* access tokens
    redis,          \* access tokens with a key in Redis
    link,           \* the Redis client: "new", "ready", or "down" for good
    expired,        \* access tokens past their exp
    active,         \* the user record in usersById
    row,            \* active in the table of user records
    tokens,         \* tokens[k]: service token k in memory
    saved,          \* saved[k]: its row
    pc,             \* pc[r]: where request r is
    job,            \* job[r]: what it asks for
    base,           \* base[r]: active as save() selected it
    restarts,
    loggedOut,      \* loggedOut[w]: tokens of logouts answered since the last
                    \* restart (w = "now") and before it (w = "before")
    late,           \* late[r]: the w under which r's token was on its arrival
    clean,          \* deactivations no role assignment overlapped with
    barred          \* one of them was answered, and no assignment has run since

memory == <<refreshTokenIds, localBlacklist, link, active, tokens>>
tables == <<row, saved>>
history == <<loggedOut, late, clean, barred>>
vars == <<issued, memory, redis, expired, tables, pc, job, base, restarts, history>>

Active == {"guard", "permit", "granted", "blacklist", "append", "reload", "write", "save"}
Phases == Active \union {"new", "ok", "refused", "failed"}

TypeOK ==
    /\ issued \in [Sessions -> 0..MaxPairs]
    /\ refreshTokenIds \subseteq Pair
    /\ localBlacklist \subseteq Pair /\ redis \subseteq Pair /\ expired \subseteq Pair
    /\ link \in {"new", "ready", "down"}
    /\ active \in BOOLEAN /\ row \in BOOLEAN
    /\ tokens \in [Keys -> {"none", "live", "revoked"}]
    /\ saved \in [Keys -> {"none", "live", "revoked"}]
    /\ pc \in [Requests -> Phases]
    /\ job \in [Requests -> Jobs]
    /\ base \in [Requests -> BOOLEAN]
    /\ restarts \in 0..MaxRestarts
    /\ loggedOut \in [{"now", "before"} -> SUBSET Pair]
    /\ late \in [Requests -> {"no", "now", "before"}]
    /\ clean \subseteq Requests
    /\ barred \in BOOLEAN

\* onModuleInit has seeded the administrator; nobody has logged in.
Init ==
    /\ issued = [s \in Sessions |-> 0]
    /\ refreshTokenIds = {} /\ localBlacklist = {} /\ redis = {} /\ expired = {}
    /\ link = "new"
    /\ active = TRUE /\ row = TRUE
    /\ tokens = [k \in Keys |-> "none"] /\ saved = [k \in Keys |-> "none"]
    /\ pc = [r \in Requests |-> "new"]
    /\ job = [r \in Requests |-> CHOOSE j \in Jobs : TRUE]
    /\ base = [r \in Requests |-> TRUE]
    /\ restarts = 0
    /\ loggedOut = [w \in {"now", "before"} |-> {}]
    /\ late = [r \in Requests |-> "no"]
    /\ clean = {}
    /\ barred = FALSE

Goto(r, phase) == pc' = [pc EXCEPT ![r] = phase]

Issued == {p \in Pair : p.n <= issued[p.session]}

-----------------------------------------------------------------------------
\* login: the account is active, and a first pair is made.
Login(s) ==
    /\ issued[s] = 0
    /\ active
    /\ issued' = [issued EXCEPT ![s] = 1]
    /\ refreshTokenIds' = refreshTokenIds \union {[session |-> s, n |-> 1]}
    /\ UNCHANGED <<localBlacklist, link, active, tokens, redis, expired, tables,
                   pc, job, base, restarts, history>>

Refresh_KeepsOld(p) ==  \* mutation: the refresh token is not revoked by its use
    /\ p \in refreshTokenIds /\ issued[p.session] < MaxPairs
    /\ issued' = [issued EXCEPT ![p.session] = @ + 1]
    /\ refreshTokenIds' = refreshTokenIds \union {[p EXCEPT !.n = issued[p.session] + 1]}
    /\ UNCHANGED <<localBlacklist, link, active, tokens, redis, expired, tables,
                   pc, job, base, restarts, history>>

Refresh_StoresNext(p) ==  \* mutation: the id stored is that of a later pair
    /\ p \in refreshTokenIds /\ issued[p.session] < MaxPairs
    /\ issued' = [issued EXCEPT ![p.session] = @ + 1]
    /\ refreshTokenIds' = (refreshTokenIds \ {p}) \union {[p EXCEPT !.n = issued[p.session] + 2]}
    /\ UNCHANGED <<localBlacklist, link, active, tokens, redis, expired, tables,
                   pc, job, base, restarts, history>>

\* refresh: verifyRefreshToken, revokeRefreshToken and a new pair, with no await.
Refresh(p) ==
    /\ p \in refreshTokenIds
    /\ issued[p.session] < MaxPairs
    /\ issued' = [issued EXCEPT ![p.session] = @ + 1]
    /\ refreshTokenIds' = (refreshTokenIds \ {p}) \union {[p EXCEPT !.n = issued[p.session] + 1]}
    /\ UNCHANGED <<localBlacklist, link, active, tokens, redis, expired, tables,
                   pc, job, base, restarts, history>>

-----------------------------------------------------------------------------
(***************************************************************************)
(* The guards of every other request: the JWT and its jti, first locally,  *)
(* then in Redis; then, logout excepted, the permissions of the account.   *)
(***************************************************************************)
Lateness(p) ==
    IF p \in loggedOut["now"] THEN "now"
    ELSE IF p \in loggedOut["before"] THEN "before" ELSE "no"

\* Each creation makes an id of its own.
Unused(k) == \A q \in Requests : job[q].op = "create" /\ job[q].key = k => pc[q] = "new"

\* A key is revoked by its id, which only the answer to its creation tells.
Known(k) == \E q \in Requests : pc[q] = "ok" /\ job[q].op = "create" /\ job[q].key = k

Arrive(r, j) ==
    /\ pc[r] = "new"
    /\ {j.access, j.refresh} \subseteq Issued
    /\ j.access \notin expired
    /\ j.op = "create" => Unused(j.key)
    /\ j.op = "revoke" => Known(j.key)
    /\ job' = [job EXCEPT ![r] = j]
    /\ late' = [late EXCEPT ![r] = Lateness(j.access)]
    /\ Goto(r, IF j.access \in localBlacklist THEN "refused" ELSE "guard")
    /\ UNCHANGED <<issued, memory, redis, expired, tables, base, restarts,
                   loggedOut, clean, barred>>

\* ensureRedis and one command: up says whether both succeed.
RedisAnswers(up) ==
    /\ link = "down" => ~ up
    /\ link' = IF up THEN "ready" ELSE "down"

\* isJtiBlacklisted: without Redis, no.
CheckRedis(r) ==
    /\ pc[r] = "guard"
    /\ \E up \in BOOLEAN :
          /\ RedisAnswers(up)
          /\ Goto(r, IF up /\ job[r].access \in redis THEN "refused"
                     ELSE IF job[r].op = "logout" THEN "granted" ELSE "permit")
    /\ UNCHANGED <<issued, refreshTokenIds, localBlacklist, active, tokens, redis, expired,
                   tables, job, base, restarts, history>>

\* PermissionsGuard: isActorActive.
Permit(r) ==
    /\ pc[r] = "permit"
    /\ Goto(r, IF ~ active THEN "refused" ELSE IF job[r].op = "use" THEN "ok" ELSE "granted")
    /\ UNCHANGED <<issued, memory, redis, expired, tables, job, base, restarts, history>>

-----------------------------------------------------------------------------
(***************************************************************************)
(* logout                                                                  *)
(***************************************************************************)
Revoke_Nothing(p) == UNCHANGED refreshTokenIds  \* mutation: the refresh token stays valid

Revoke(p) == refreshTokenIds' = refreshTokenIds \ {p}

Blacklisted_RedisOnly(p) == localBlacklist  \* mutation: nothing is kept in the process

Blacklisted(p) == localBlacklist \union {p}

\* The refresh token is verified and revoked; an access token that has expired
\* meanwhile makes the request fail; another one is put on the local blacklist.
Logout(r) ==
    /\ pc[r] = "granted" /\ job[r].op = "logout"
    /\ job[r].refresh \in refreshTokenIds
    /\ Revoke(job[r].refresh)
    /\ IF job[r].access \in expired
       THEN /\ Goto(r, "failed")
            /\ UNCHANGED localBlacklist
       ELSE /\ localBlacklist' = Blacklisted(job[r].access)
            /\ Goto(r, "blacklist")
    /\ UNCHANGED <<issued, link, active, tokens, redis, expired, tables, job, base,
                   restarts, history>>

\* 401: the refresh token is not one of refreshTokenIds.
LogoutRefused(r) ==
    /\ pc[r] = "granted" /\ job[r].op = "logout"
    /\ job[r].refresh \notin refreshTokenIds
    /\ Goto(r, "refused")
    /\ UNCHANGED <<issued, memory, redis, expired, tables, job, base, restarts, history>>

\* blacklistJti: the key in Redis, if Redis answers.
BlacklistInRedis(r) ==
    /\ pc[r] = "blacklist"
    /\ \E up \in BOOLEAN :
          /\ RedisAnswers(up)
          /\ redis' = IF up THEN redis \union {job[r].access} ELSE redis
    /\ Goto(r, "append")
    /\ UNCHANGED <<issued, refreshTokenIds, localBlacklist, active, tokens, expired, tables,
                   job, base, restarts, history>>

\* The LOGOUT event is appended, and the logout answered.
AppendLogout(r) ==
    /\ pc[r] = "append"
    /\ loggedOut' = [loggedOut EXCEPT !["now"] = @ \union {job[r].access}]
    /\ Goto(r, "ok")
    /\ UNCHANGED <<issued, memory, redis, expired, tables, job, base, restarts,
                   late, clean, barred>>

-----------------------------------------------------------------------------
(***************************************************************************)
(* assignUserRoles and deactivateUser: usersById at once, then the table.  *)
(***************************************************************************)
Wanted(r) == job[r].op = "assign"

Storing == {"reload", "write"}

Running(op) == {q \in Requests : job[q].op = op /\ pc[q] \in Storing}

ChangeUser(r) ==
    /\ pc[r] = "granted" /\ job[r].op \in {"assign", "deactivate"}
    /\ active' = Wanted(r)
    /\ Goto(r, "reload")
    /\ IF Wanted(r)
       THEN /\ clean' = clean \ Running("deactivate")
            /\ barred' = FALSE
       ELSE /\ clean' = IF Running("assign") = {} THEN clean \union {r} ELSE clean
            /\ UNCHANGED barred
    /\ UNCHANGED <<issued, refreshTokenIds, localBlacklist, link, tokens, redis, expired,
                   tables, job, base, restarts, loggedOut, late>>

\* upsertUserRoleRecord: save() selects the row once more ...
Reload(r) ==
    /\ pc[r] = "reload"
    /\ base' = [base EXCEPT ![r] = row]
    /\ Goto(r, "write")
    /\ UNCHANGED <<issued, memory, redis, expired, tables, job, restarts, history>>

RowAfter_Skipped(r) == row  \* mutation: the record is changed in memory only

RowAfter(r) == IF Wanted(r) # base[r] THEN Wanted(r) ELSE row

\* ... and updates active if it differs; the answer follows.
Write(r) ==
    /\ pc[r] = "write"
    /\ row' = RowAfter(r)
    /\ barred' = (barred \/ r \in clean)
    /\ Goto(r, "ok")
    /\ UNCHANGED <<issued, memory, redis, expired, saved, job, base, restarts,
                   loggedOut, late, clean>>

-----------------------------------------------------------------------------
(***************************************************************************)
(* createServiceToken and revokeServiceToken: the same order.              *)
(***************************************************************************)
ChangeToken(r) ==
    /\ pc[r] = "granted" /\ job[r].op \in {"create", "revoke"}
    /\ tokens' = [tokens EXCEPT ![job[r].key] = IF job[r].op = "create" THEN "live" ELSE "revoked"]
    /\ Goto(r, "save")
    /\ UNCHANGED <<issued, refreshTokenIds, localBlacklist, link, active, redis, expired,
                   tables, job, base, restarts, history>>

SavedState_NoRevoked(r) == "live"  \* mutation: the update leaves out the column revoked

SavedState(r) == IF job[r].op = "create" THEN "live" ELSE "revoked"

SaveToken(r) ==
    /\ pc[r] = "save"
    /\ saved' = [saved EXCEPT ![job[r].key] = SavedState(r)]
    /\ Goto(r, "ok")
    /\ UNCHANGED <<issued, memory, redis, expired, row, job, base, restarts, history>>

-----------------------------------------------------------------------------
\* A statement on the database fails: an error is answered, memory stays as it is.
Fail(r) ==
    /\ pc[r] \in {"append", "reload", "write", "save"}
    /\ Goto(r, "failed")
    /\ UNCHANGED <<issued, memory, redis, expired, tables, job, base, restarts, history>>

\* The access token's exp goes by; its blacklist entries have the same lifetime.
Expire(p) ==
    /\ p \in Issued \ expired
    /\ expired' = expired \union {p}
    /\ UNCHANGED <<issued, memory, redis, tables, pc, job, base, restarts, history>>

\* The process stops at any point and starts again: onModuleInit.
Restart ==
    /\ restarts < MaxRestarts
    /\ restarts' = restarts + 1
    /\ refreshTokenIds' = {} /\ localBlacklist' = {}
    /\ link' = "new"
    /\ active' = row
    /\ tokens' = saved
    /\ pc' = [r \in Requests |-> IF pc[r] \in Active THEN "failed" ELSE pc[r]]
    /\ loggedOut' = [w \in {"now", "before"} |->
                        IF w = "now" THEN {} ELSE loggedOut["now"] \union loggedOut["before"]]
    /\ UNCHANGED <<issued, redis, expired, tables, job, base, late, clean, barred>>

Next ==
    \/ \E s \in Sessions : Login(s)
    \/ \E p \in Pair : Refresh(p) \/ Expire(p)
    \/ \E r \in Requests :
          \/ \E j \in Jobs : Arrive(r, j)
          \/ CheckRedis(r)
          \/ Permit(r)
          \/ Logout(r)
          \/ LogoutRefused(r)
          \/ BlacklistInRedis(r)
          \/ AppendLogout(r)
          \/ ChangeUser(r)
          \/ Reload(r)
          \/ Write(r)
          \/ ChangeToken(r)
          \/ SaveToken(r)
          \/ Fail(r)
    \/ Restart

Spec == Init /\ [][Next]_vars

-----------------------------------------------------------------------------
(***************************************************************************)
(* Properties                                                              *)
(***************************************************************************)
\* Refresh tokens are rotated (security-model.md): a session has at most one that
\* is accepted, the last it was given, however refreshes and logouts race.
OneRefreshToken ==
    \A p, q \in refreshTokenIds :
        /\ p.session = q.session => p = q
        /\ p.n = issued[p.session]

\* A logout that was answered has ended its session for good: no refresh token of
\* the session is accepted any more, not even one a concurrent refresh has made.
SessionEnds ==
    \A r \in Requests : job[r].op = "logout" /\ pc[r] = "ok" =>
        \A p \in refreshTokenIds : p.session # job[r].refresh.session

\* An access token whose logout was answered before a request with it arrived does
\* not pass the guard, whatever happens to Redis; after a restart, as long as
\* Redis has its key and answers.
LogoutHolds ==
    [][\A r \in Requests :
          pc[r] = "guard" /\ pc'[r] \in {"permit", "granted"} =>
              /\ late[r] # "now"
              /\ late[r] = "before" => job[r].access \notin redis \/ link' = "down"]_vars

\* "Deactivate a tenant user and block future protected API access"
\* (auth-api-reference.md): a deactivation that was answered, and with which no
\* role assignment overlapped, holds in memory and survives restarts.
DeactivationHolds == barred => ~ active /\ ~ row

\* "Revoked tokens are denied immediately" (service-token-management.md): and for
\* ever, across failures and restarts, once the revocation was answered.
RevocationHolds ==
    \A r \in Requests : job[r].op = "revoke" /\ pc[r] = "ok" => tokens[job[r].key] = "revoked"
=============================================================================
