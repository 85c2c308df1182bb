----------------------------- MODULE Throttler -----------------------------
(***************************************************************************)
(* RateLimitGuard over RedisThrottlerStorage: what calls with one key are  *)
(* let through.  Each Redis command is a step of its own; the bucket in    *)
(* the process' memory is read and written in one.  After a failure the    *)
(* process uses its own bucket until it is started again.                  *)
(***************************************************************************)
EXTENDS Integers

CONSTANTS
    Requests,       \* the calls with this key that can be under way together
    Limit,          \* maxRequests
    Ttl,            \* windowMs, in ticks of the clock
    Block           \* blockDuration, in ticks

ASSUME LimitsAssumption == {Limit, Ttl, Block} \subseteq Nat \ {0}

(***************************************************************************)
(* Times are what is left of them, and get less with every tick.           *)
(***************************************************************************)
VARIABLES
    pc,             \* pc[r]: the next command of call r
    hits, left,     \* the counter in Redis, and how long it lives
    blocked,        \* how long the block in Redis lives
    bucket,         \* the bucket in memory
    ready,          \* redisReady: the client is connected
    unavailable,    \* redisUnavailable: Redis is not used any more
    told,           \* told[r]: how long a block was to last when r was made
    passed          \* passed[s][i]: the calls store s has let through in this tick and
                    \* the i before it

redis == <<hits, left, blocked>>

vars == <<pc, redis, bucket, ready, unavailable, told, passed>>

Commands == {"exists", "counter", "blockedIncr", "incr", "pexpire", "set"}

\* Longer than any time that passes: the key has no expiry.
Forever == Ttl + Block

Stores == {"redis", "local"}

TypeOK ==
    /\ pc \in [Requests -> Commands \union {"idle", "ensure", "connect", "ok", "refused"}]
    /\ hits \in 0..(Limit + 1)
    /\ left \in 0..Ttl \union {Forever}
    /\ hits = 0 <=> left = 0
    /\ blocked \in 0..Block
    /\ bucket \in [hits : 0..(Limit + 1), left : 0..Ttl, blocked : 0..Block]
    /\ ready \in BOOLEAN
    /\ unavailable \in BOOLEAN
    /\ ready => ~ unavailable
    /\ told \in [Requests -> 0..Block]
    /\ passed \in [Stores -> [0..(Ttl - 1) -> Nat]]

NoBucket == [hits |-> 0, left |-> 0, blocked |-> 0]

NonePassed == [i \in 0..(Ttl - 1) |-> 0]

Init ==
    /\ pc = [r \in Requests |-> "idle"]
    /\ hits = 0
    /\ left = 0
    /\ blocked = 0
    /\ bucket = NoBucket
    /\ ready = FALSE
    /\ unavailable = FALSE
    /\ told = [r \in Requests |-> 0]
    /\ passed = [s \in Stores |-> NonePassed]

Goto(r, phase) == pc' = [pc EXCEPT ![r] = phase]

\* A call is let through by a store.
Pass(r, s) ==
    /\ Goto(r, "ok")
    /\ passed' = [passed EXCEPT ![s] = [i \in 0..(Ttl - 1) |-> @[i] + 1]]

Refuse(r) ==
    /\ Goto(r, "refused")
    /\ UNCHANGED passed

-----------------------------------------------------------------------------
(***************************************************************************)
(* increment, ensureRedis                                                  *)
(***************************************************************************)
Call(r) ==
    /\ pc[r] = "idle"
    /\ Goto(r, "ensure")
    /\ told' = [told EXCEPT ![r] = IF unavailable THEN 0 ELSE blocked]
    /\ UNCHANGED <<redis, bucket, ready, unavailable, passed>>

(***************************************************************************)
(* incrementLocal                                                          *)
(***************************************************************************)
LocalOver == bucket.hits + 1 > Limit

\* The bucket's window is looked at before its block.
Local(r) ==
    \/ /\ bucket.left = 0
       /\ bucket' = [hits |-> 1, left |-> Ttl, blocked |-> 0]
       /\ Pass(r, "local")
    \/ /\ bucket.left > 0
       /\ bucket.blocked > 0
       /\ UNCHANGED bucket
       /\ Refuse(r)
    \/ /\ bucket.left > 0
       /\ bucket.blocked = 0
       /\ LocalOver
       /\ bucket' = [bucket EXCEPT !.hits = Limit + 1, !.blocked = Block]
       /\ Refuse(r)
    \/ /\ bucket.left > 0
       /\ bucket.blocked = 0
       /\ ~ LocalOver
       /\ bucket' = [bucket EXCEPT !.hits = @ + 1]
       /\ Pass(r, "local")

Ensure(r) ==
    /\ pc[r] = "ensure"
    /\ IF unavailable THEN Local(r)
       ELSE /\ Goto(r, IF ready THEN "exists" ELSE "connect")
            /\ UNCHANGED <<bucket, passed>>
    /\ UNCHANGED <<redis, ready, unavailable, told>>

Connect(r) ==
    /\ pc[r] = "connect"
    /\ ~ unavailable
    /\ ready' = TRUE
    /\ Goto(r, "exists")
    /\ UNCHANGED <<redis, bucket, unavailable, told, passed>>

\* A command fails, also one that is on its way when another call closes the
\* client: the rest of the call is done in memory.
Unavailable(r) ==
    /\ pc[r] \in Commands \union {"connect"}
    /\ unavailable' = TRUE
    /\ ready' = FALSE
    /\ Local(r)
    /\ UNCHANGED <<redis, told>>

-----------------------------------------------------------------------------
(***************************************************************************)
(* incrementRedis                                                          *)
(***************************************************************************)
IsBlocked_ByCounter == hits > Limit  \* mutation: the counter is asked, not the block

IsBlocked == blocked > 0

Exists(r) ==
    /\ pc[r] = "exists"
    /\ ready
    /\ Goto(r, IF IsBlocked THEN "counter" ELSE "incr")
    /\ UNCHANGED <<redis, bucket, ready, unavailable, told, passed>>

\* A blocked call is counted too, if there is a counter.
ExistsCounter(r) ==
    /\ pc[r] = "counter"
    /\ ready
    /\ IF hits > 0 THEN Goto(r, "blockedIncr") /\ UNCHANGED passed ELSE Refuse(r)
    /\ UNCHANGED <<redis, bucket, ready, unavailable, told>>

Counted_Wraps == (hits + 1) % (Limit + 1)  \* mutation: the counter starts again at its limit

\* Of the count it matters only whether it is above the limit.
Counted == IF hits > Limit THEN hits ELSE hits + 1

\* INCR makes a counter without an expiry if there is none.
Incremented ==
    /\ hits' = Counted
    /\ left' = IF hits = 0 THEN Forever ELSE left

BlockedIncr(r) ==
    /\ pc[r] = "blockedIncr"
    /\ ready
    /\ Incremented
    /\ Refuse(r)
    /\ UNCHANGED <<blocked, bucket, ready, unavailable, told>>

Over_OffByOne(n) == n > Limit + 1  \* mutation: one call more than the limit

Over(n) == n > Limit

Incr(r) ==
    /\ pc[r] = "incr"
    /\ ready
    /\ Incremented
    /\ IF Counted = 1 THEN Goto(r, "pexpire") /\ UNCHANGED passed
       ELSE IF Over(Counted) THEN Goto(r, "set") /\ UNCHANGED passed
       ELSE Pass(r, "redis")
    /\ UNCHANGED <<blocked, bucket, ready, unavailable, told>>

\* The first hit; no limit is below one.
PExpire(r) ==
    /\ pc[r] = "pexpire"
    /\ ready
    /\ left' = Ttl
    /\ Pass(r, "redis")
    /\ UNCHANGED <<hits, blocked, bucket, ready, unavailable, told>>

SetBlock(r) ==
    /\ pc[r] = "set"
    /\ ready
    /\ blocked' = Block
    /\ Refuse(r)
    /\ UNCHANGED <<hits, left, bucket, ready, unavailable, told>>

\* Another call has closed the client: `this.redisClient?.' skips the commands
\* that are left, and the count is taken to be 1.
ClientGone(r) ==
    /\ pc[r] \in Commands
    /\ unavailable
    /\ IF pc[r] = "pexpire" THEN Pass(r, "redis")
       ELSE /\ Goto(r, IF pc[r] \in {"exists", "incr"} THEN "ok" ELSE "refused")
            /\ UNCHANGED passed
    /\ UNCHANGED <<redis, bucket, ready, unavailable, told>>

-----------------------------------------------------------------------------
\* The handler runs, or the client gets 429 and RATE_LIMIT_EXCEEDED is appended.
Answered(r) ==
    /\ pc[r] \in {"ok", "refused"}
    /\ Goto(r, "idle")
    /\ told' = [told EXCEPT ![r] = 0]
    /\ UNCHANGED <<redis, bucket, ready, unavailable, passed>>

Less(t) == IF t = 0 \/ t = Forever THEN t ELSE t - 1

Tick ==
    /\ left' = Less(left)
    /\ hits' = IF left' = 0 THEN 0 ELSE hits
    /\ blocked' = Less(blocked)
    /\ bucket' = [bucket EXCEPT !.left = Less(@), !.blocked = Less(@)]
    /\ told' = [r \in Requests |-> Less(told[r])]
    /\ passed' = [s \in Stores |-> [i \in 0..(Ttl - 1) |-> IF i = 0 THEN 0 ELSE passed[s][i - 1]]]
    /\ UNCHANGED <<pc, ready, unavailable>>

\* A new process has an empty memory; Redis keeps its keys.
Restart ==
    /\ pc' = [r \in Requests |-> "idle"]
    /\ bucket' = NoBucket
    /\ ready' = FALSE
    /\ unavailable' = FALSE
    /\ told' = [r \in Requests |-> 0]
    /\ passed' = [passed EXCEPT !["local"] = NonePassed]
    /\ UNCHANGED redis

Next ==
    \/ \E r \in Requests :
          \/ Call(r)
          \/ Ensure(r)
          \/ Connect(r)
          \/ Unavailable(r)
          \/ Exists(r)
          \/ ExistsCounter(r)
          \/ BlockedIncr(r)
          \/ Incr(r)
          \/ PExpire(r)
          \/ SetBlock(r)
          \/ ClientGone(r)
          \/ Answered(r)
    \/ Tick
    \/ Restart

Spec == Init /\ [][Next]_vars

-----------------------------------------------------------------------------
(***************************************************************************)
(* Properties                                                              *)
(***************************************************************************)
\* "maximum write requests allowed per window" (rate-limiting-configuration.md):
\* windows are fixed, so two of them can meet in a span as long as one, and no
\* store lets more than twice the limit through in it, whatever commands
\* overlap, fail, or are separated by a restart.
WithinLimit ==
    \A s \in Stores : passed[s][Ttl - 1] <= 2 * Limit

\* A client that is told of a block is not let through before its end, as long
\* as Redis answers: not even when the counter has expired before the block.
BlockHolds ==
    [][\A r \in Requests :
          pc[r] # "ok" /\ pc'[r] = "ok" => told[r] = 0 \/ unavailable']_vars
=============================================================================
