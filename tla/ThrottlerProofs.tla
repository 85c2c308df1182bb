-------------------------- MODULE ThrottlerProofs --------------------------
(***************************************************************************)
(* Proofs about Throttler, for any number of calls, any limit, window and  *)
(* block: its types, that a client that was told of a block is not let     *)
(* through before its end as long as Redis answers, and that no store lets *)
(* more than twice the limit through in a span as long as a window.        *)
(***************************************************************************)
EXTENDS Throttler, TLAPS

LEMMA Bounds == /\ Limit \in Nat /\ Limit > 0 /\ Ttl \in Nat /\ Ttl > 0 /\ Block \in Nat /\ Block > 0
                /\ Forever \in Nat /\ Forever > Ttl /\ Forever > Block /\ 0 \in 0..(Ttl - 1)
<1>1. Limit \in Nat \ {0} /\ Ttl \in Nat \ {0} /\ Block \in Nat \ {0}
  BY LimitsAssumption
<1>2. QED
  BY <1>1 DEF Forever

\* A counter without an expiry has at most one call that will give it one, and
\* does not expire before that: no call gives an expiry to a counter that is gone.
Expiring ==
    /\ \A r \in Requests : pc[r] = "pexpire" => left = Forever
    /\ \A r, q \in Requests : pc[r] = "pexpire" /\ pc[q] = "pexpire" => r = q

Phases == Commands \union {"idle", "ensure", "connect", "ok", "refused"}

-----------------------------------------------------------------------------
(***************************************************************************)
(* What a step of one call does to pc and passed                           *)
(***************************************************************************)
Moves(r, phases) ==
    /\ pc' \in [Requests -> Phases]
    /\ pc'[r] \in phases
    /\ \A q \in Requests \ {r} : pc'[q] = pc[q]

LEMMA GotoMoves ==
    ASSUME TypeOK, NEW r \in Requests, NEW phase \in Phases, Goto(r, phase)
    PROVE  Moves(r, {phase})
BY DEF TypeOK, Goto, Moves, Phases

LEMMA PassTypes ==
    ASSUME TypeOK, NEW r \in Requests, NEW s \in Stores, Pass(r, s)
    PROVE  Moves(r, {"ok"}) /\ passed' \in [Stores -> [0..(Ttl - 1) -> Nat]]
<1>1. Moves(r, {"ok"})
  BY GotoMoves DEF Pass, Phases
<1>2. passed[s] \in [0..(Ttl - 1) -> Nat]
  BY DEF TypeOK
<1> DEFINE more == [i \in 0..(Ttl - 1) |-> passed[s][i] + 1]
<1>3. more \in [0..(Ttl - 1) -> Nat]
  <2>1. ASSUME NEW i \in 0..(Ttl - 1)
        PROVE  passed[s][i] + 1 \in Nat
    <3>1. passed[s][i] \in Nat
      BY <1>2
    <3>2. QED
      BY <3>1
  <2>2. QED
    BY <2>1
<1>4. passed' = [passed EXCEPT ![s] = more]
  BY DEF Pass
<1> HIDE DEF more
<1>5. QED
  BY <1>1, <1>3, <1>4 DEF TypeOK

LEMMA RefuseTypes ==
    ASSUME TypeOK, NEW r \in Requests, Refuse(r)
    PROVE  Moves(r, {"refused"}) /\ passed' \in [Stores -> [0..(Ttl - 1) -> Nat]]
BY GotoMoves DEF Refuse, TypeOK, Phases

LEMMA LocalTypes ==
    ASSUME TypeOK, NEW r \in Requests, Local(r)
    PROVE  /\ Moves(r, {"ok", "refused"})
           /\ passed' \in [Stores -> [0..(Ttl - 1) -> Nat]]
           /\ bucket' \in [hits : 0..(Limit + 1), left : 0..Ttl, blocked : 0..Block]
<1>1. Pass(r, "local") \/ Refuse(r)
  BY DEF Local
<1>2. Moves(r, {"ok", "refused"}) /\ passed' \in [Stores -> [0..(Ttl - 1) -> Nat]]
  BY <1>1, PassTypes, RefuseTypes DEF Moves, Stores
<1>3. bucket \in [hits : 0..(Limit + 1), left : 0..Ttl, blocked : 0..Block]
  BY DEF TypeOK
<1>4. \/ bucket' = [hits |-> 1, left |-> Ttl, blocked |-> 0]
      \/ bucket' = bucket
      \/ bucket' = [bucket EXCEPT !.hits = Limit + 1, !.blocked = Block]
      \/ bucket' = [bucket EXCEPT !.hits = @ + 1] /\ ~ LocalOver
  BY DEF Local
<1>5. bucket' \in [hits : 0..(Limit + 1), left : 0..Ttl, blocked : 0..Block]
  <2>1. bucket.hits \in 0..(Limit + 1) /\ bucket.left \in 0..Ttl /\ bucket.blocked \in 0..Block
    BY <1>3
  <2>2. ~ LocalOver => bucket.hits + 1 \in 0..(Limit + 1)
    BY <2>1, Bounds DEF LocalOver
  <2>3. Limit + 1 \in 0..(Limit + 1) /\ Block \in 0..Block /\ Ttl \in 0..Ttl /\ 0 \in 0..Block
        /\ 1 \in 0..(Limit + 1)
    BY Bounds
  <2>4. CASE bucket' = [hits |-> 1, left |-> Ttl, blocked |-> 0]
    BY <2>3, <2>4
  <2>5. CASE bucket' = [bucket EXCEPT !.hits = Limit + 1, !.blocked = Block]
    BY <1>3, <2>3, <2>5
  <2>6. CASE bucket' = [bucket EXCEPT !.hits = @ + 1] /\ ~ LocalOver
    <3> DEFINE n == bucket.hits + 1
    <3>1. bucket' = [bucket EXCEPT !.hits = n] /\ n \in 0..(Limit + 1)
      BY <2>2, <2>6
    <3> HIDE DEF n
    <3>2. QED
      BY <1>3, <3>1
  <2>7. QED
    BY <1>3, <1>4, <2>4, <2>5, <2>6
<1>6. QED
  BY <1>2, <1>5

\* INCR leaves a counter that lives, or lives for ever.
LEMMA IncrementedTypes ==
    ASSUME TypeOK, Incremented
    PROVE  /\ hits' \in 0..(Limit + 1) /\ left' \in 0..Ttl \union {Forever}
           /\ hits' # 0 /\ left' # 0
           /\ (left = Forever => left' = Forever)
           /\ (Counted = 1 => left' = Forever)
           /\ (Counted = 1 => \A r \in Requests : Expiring => pc[r] # "pexpire")
BY Bounds DEF TypeOK, Incremented, Counted, Expiring

-----------------------------------------------------------------------------
LEMMA TypesStep ==
    ASSUME TypeOK, Expiring, [Next]_vars
    PROVE  TypeOK' /\ Expiring'
<1> DEFINE Window == [Stores -> [0..(Ttl - 1) -> Nat]]
\* Steps that leave Redis' keys alone: nobody comes to give a counter an expiry.
<1>1. ASSUME NEW r \in Requests, Moves(r, Phases \ {"pexpire"}), UNCHANGED <<hits, left>>,
             blocked' \in 0..Block, passed' \in Window,
             bucket' \in [hits : 0..(Limit + 1), left : 0..Ttl, blocked : 0..Block],
             ready' \in BOOLEAN, unavailable' \in BOOLEAN, ready' => ~ unavailable',
             told' \in [Requests -> 0..Block]
      PROVE  TypeOK' /\ Expiring'
  <2>1. TypeOK'
    BY <1>1 DEF TypeOK, Moves, Phases
  <2>2. \A q \in Requests : pc'[q] = "pexpire" => pc[q] = "pexpire"
    BY <1>1 DEF Moves
  <2>3. QED
    BY <1>1, <2>1, <2>2 DEF Expiring
<1>2. ASSUME NEW r \in Requests, Call(r)
      PROVE  TypeOK' /\ Expiring'
  <2>1. Moves(r, {"ensure"})
    BY <1>2, GotoMoves DEF Call, Phases
  <2>2. told' \in [Requests -> 0..Block]
    BY <1>2, Bounds DEF Call, TypeOK
  <2>3. QED
    BY <1>1, <1>2, <2>1, <2>2 DEF Call, Moves, Phases, TypeOK, redis
<1>3. ASSUME NEW r \in Requests, Ensure(r)
      PROVE  TypeOK' /\ Expiring'
  <2>1. CASE Local(r)
    BY <1>1, <1>3, <2>1, LocalTypes DEF Ensure, Moves, Phases, TypeOK, redis
  <2>2. CASE ~ unavailable
    <3>1. Moves(r, {"exists", "connect"})
      BY <1>3, <2>2, GotoMoves DEF Ensure, Moves, Phases, Commands
    <3>2. QED
      BY <1>1, <1>3, <2>2, <3>1 DEF Ensure, Moves, Phases, Commands, TypeOK, redis
  <2>3. QED
    BY <1>3, <2>1, <2>2 DEF Ensure
<1>4. ASSUME NEW r \in Requests, Connect(r)
      PROVE  TypeOK' /\ Expiring'
  <2>1. Moves(r, {"exists"})
    BY <1>4, GotoMoves DEF Connect, Phases, Commands
  <2>2. QED
    BY <1>1, <1>4, <2>1 DEF Connect, Moves, Phases, Commands, TypeOK, redis
<1>5. ASSUME NEW r \in Requests, Unavailable(r)
      PROVE  TypeOK' /\ Expiring'
  BY <1>1, <1>5, LocalTypes DEF Unavailable, Moves, Phases, TypeOK, redis
<1>6. ASSUME NEW r \in Requests, Exists(r) \/ ExistsCounter(r)
      PROVE  TypeOK' /\ Expiring'
  <2>1. \/ Goto(r, "counter") /\ passed' = passed
        \/ Goto(r, "incr") /\ passed' = passed
        \/ Goto(r, "blockedIncr") /\ passed' = passed
        \/ Refuse(r)
    BY <1>6 DEF Exists, ExistsCounter
  <2>2. Moves(r, Phases \ {"pexpire"}) /\ passed' \in Window
    BY <2>1, GotoMoves, RefuseTypes DEF Moves, Phases, Commands, TypeOK
  <2>3. QED
    BY <1>1, <1>6, <2>2 DEF Exists, ExistsCounter, TypeOK, redis
<1>7. ASSUME NEW r \in Requests, BlockedIncr(r)
      PROVE  TypeOK' /\ Expiring'
  <2>1. Moves(r, {"refused"}) /\ passed' \in Window
    BY <1>7, RefuseTypes DEF BlockedIncr
  <2>2. TypeOK'
    BY <1>7, <2>1, IncrementedTypes DEF BlockedIncr, TypeOK, Moves, Phases
  <2>3. \A q \in Requests : pc'[q] = "pexpire" => pc[q] = "pexpire"
    BY <2>1 DEF Moves
  <2>4. QED
    BY <1>7, <2>2, <2>3, IncrementedTypes DEF BlockedIncr, Expiring
<1>8. ASSUME NEW r \in Requests, Incr(r)
      PROVE  TypeOK' /\ Expiring'
  <2>1. CASE Counted = 1
    <3>1. Moves(r, {"pexpire"}) /\ passed' = passed
      BY <1>8, <2>1, GotoMoves DEF Incr, Phases, Commands
    <3>2. \A q \in Requests : pc[q] # "pexpire"
      BY <1>8, <2>1, IncrementedTypes DEF Incr
    <3>3. \A q \in Requests : pc'[q] = "pexpire" => q = r
      BY <3>1, <3>2 DEF Moves
    <3>4. TypeOK'
      BY <1>8, <3>1, IncrementedTypes DEF Incr, TypeOK, Moves, Phases
    <3>5. QED
      BY <1>8, <2>1, <3>3, <3>4, IncrementedTypes DEF Incr, Expiring
  <2>2. CASE Counted # 1
    <3>1. Moves(r, {"set", "ok"}) /\ passed' \in Window
      <4>1. CASE Over(Counted)
        BY <1>8, <2>2, <4>1, GotoMoves DEF Incr, Moves, Phases, Commands, TypeOK
      <4>2. CASE ~ Over(Counted)
        BY <1>8, <2>2, <4>2, PassTypes DEF Incr, Moves, Stores
      <4>3. QED
        BY <4>1, <4>2
    <3>2. TypeOK'
      BY <1>8, <3>1, IncrementedTypes DEF Incr, TypeOK, Moves, Phases
    <3>3. \A q \in Requests : pc'[q] = "pexpire" => pc[q] = "pexpire"
      BY <3>1 DEF Moves
    <3>4. QED
      BY <1>8, <3>2, <3>3, IncrementedTypes DEF Incr, Expiring
  <2>3. QED
    BY <2>1, <2>2
<1>9. ASSUME NEW r \in Requests, PExpire(r)
      PROVE  TypeOK' /\ Expiring'
  <2>1. Moves(r, {"ok"}) /\ passed' \in Window
    BY <1>9, PassTypes DEF PExpire, Stores
  <2>2. \A q \in Requests : pc'[q] # "pexpire"
    BY <1>9, <2>1 DEF PExpire, Expiring, Moves
  <2>3. left = Forever /\ hits # 0
    BY <1>9, Bounds DEF PExpire, Expiring, TypeOK
  <2>4. TypeOK'
    BY <1>9, <2>1, <2>3, Bounds DEF PExpire, TypeOK, Moves, Phases
  <2>5. QED
    BY <2>2, <2>4 DEF Expiring
<1>10. ASSUME NEW r \in Requests, SetBlock(r)
       PROVE  TypeOK' /\ Expiring'
  <2>1. Moves(r, {"refused"}) /\ passed' \in Window
    BY <1>10, RefuseTypes DEF SetBlock
  <2>2. blocked' \in 0..Block
    BY <1>10, Bounds DEF SetBlock
  <2>3. QED
    BY <1>1, <1>10, <2>1, <2>2 DEF SetBlock, Moves, Phases, TypeOK
<1>11. ASSUME NEW r \in Requests, ClientGone(r)
       PROVE  TypeOK' /\ Expiring'
  <2>1. Moves(r, {"ok", "refused"}) /\ passed' \in Window
    <3>1. CASE pc[r] = "pexpire"
      BY <1>11, <3>1, PassTypes DEF ClientGone, Moves, Stores
    <3>2. CASE pc[r] # "pexpire"
      <4>1. Moves(r, {IF pc[r] \in {"exists", "incr"} THEN "ok" ELSE "refused"})
        BY <1>11, <3>2, GotoMoves DEF ClientGone, Phases
      <4>2. QED
        BY <1>11, <3>2, <4>1 DEF ClientGone, Moves, TypeOK
    <3>3. QED
      BY <3>1, <3>2
  <2>2. QED
    BY <1>1, <1>11, <2>1 DEF ClientGone, Moves, Phases, TypeOK, redis
<1>12. ASSUME NEW r \in Requests, Answered(r)
       PROVE  TypeOK' /\ Expiring'
  <2>1. Moves(r, {"idle"})
    BY <1>12, GotoMoves DEF Answered, Phases
  <2>2. told' \in [Requests -> 0..Block]
    BY <1>12, Bounds DEF Answered, TypeOK
  <2>3. QED
    BY <1>1, <1>12, <2>1, <2>2 DEF Answered, Moves, Phases, TypeOK, redis
<1>13. CASE Tick
  <2>1. \A t \in 0..Block : Less(t) \in 0..Block
    BY Bounds DEF Less
  <2>2. left' \in 0..Ttl \union {Forever} /\ (left = Forever => left' = Forever)
        /\ (left = 0 => left' = 0)
    BY <1>13, Bounds DEF Tick, Less, TypeOK
  <2>3. hits' \in 0..(Limit + 1) /\ (hits' = 0 <=> left' = 0)
    BY <1>13, <2>2, Bounds DEF Tick, TypeOK
  <2>4. blocked' \in 0..Block /\ told' \in [Requests -> 0..Block]
    BY <1>13, <2>1 DEF Tick, TypeOK
  <2>5. bucket' \in [hits : 0..(Limit + 1), left : 0..Ttl, blocked : 0..Block]
    <3>1. bucket \in [hits : 0..(Limit + 1), left : 0..Ttl, blocked : 0..Block]
      BY DEF TypeOK
    <3>2. \A t \in 0..Ttl : Less(t) \in 0..Ttl
      BY Bounds DEF Less
    <3>3. bucket' = [bucket EXCEPT !.left = Less(@), !.blocked = Less(@)]
      BY <1>13 DEF Tick
    <3>4. QED
      BY <2>1, <3>1, <3>2, <3>3
  <2>6. passed' \in Window
    <3>1. \A s \in Stores : \A i \in 0..(Ttl - 1) : (IF i = 0 THEN 0 ELSE passed[s][i - 1]) \in Nat
      BY Bounds DEF TypeOK
    <3>2. QED
      BY <1>13, <3>1 DEF Tick
  <2>7. TypeOK'
    BY <1>13, <2>2, <2>3, <2>4, <2>5, <2>6 DEF Tick, TypeOK
  <2>8. QED
    BY <1>13, <2>2, <2>7 DEF Tick, Expiring
<1>14. CASE Restart
  <2>1. bucket' \in [hits : 0..(Limit + 1), left : 0..Ttl, blocked : 0..Block]
    BY <1>14, Bounds DEF Restart, NoBucket
  <2>2. passed' \in Window
    BY <1>14, Bounds DEF Restart, NonePassed, TypeOK
  <2>3. pc' \in [Requests -> Phases] /\ told' \in [Requests -> 0..Block]
        /\ \A r \in Requests : pc'[r] = "idle"
    BY <1>14, Bounds DEF Restart, Phases
  <2>4. TypeOK'
    BY <1>14, <2>1, <2>2, <2>3 DEF Restart, redis, TypeOK, Phases
  <2>5. QED
    BY <2>3, <2>4 DEF Expiring
<1>15. CASE UNCHANGED vars
  BY <1>15 DEF vars, redis, TypeOK, Expiring
<1>16. QED
  BY <1>2, <1>3, <1>4, <1>5, <1>6, <1>7, <1>8, <1>9, <1>10, <1>11, <1>12, <1>13, <1>14, <1>15
     DEF Next

LEMMA Types == Spec => [](TypeOK /\ Expiring)
<1>1. Init => TypeOK /\ Expiring
  <2> SUFFICES ASSUME Init PROVE TypeOK /\ Expiring
    OBVIOUS
  <2>1. bucket \in [hits : 0..(Limit + 1), left : 0..Ttl, blocked : 0..Block]
    BY Bounds DEF Init, NoBucket
  <2>2. passed \in [Stores -> [0..(Ttl - 1) -> Nat]]
    BY Bounds DEF Init, NonePassed
  <2>3. /\ pc \in [Requests -> Commands \union {"idle", "ensure", "connect", "ok", "refused"}]
        /\ \A r \in Requests : pc[r] # "pexpire"
    BY DEF Init
  <2>4. told \in [Requests -> 0..Block] /\ 0 \in 0..(Limit + 1) /\ 0 \in 0..Ttl /\ 0 \in 0..Block
    BY Bounds DEF Init
  <2>5. hits = 0 /\ left = 0 /\ blocked = 0 /\ ready = FALSE /\ unavailable = FALSE
    BY DEF Init
  <2>6. QED
    BY <2>1, <2>2, <2>3, <2>4, <2>5 DEF TypeOK, Expiring
<1>2. QED
  BY <1>1, TypesStep, PTL DEF Spec

\* Keys, buckets and counts keep their types: in particular a counter is there
\* exactly as long as it has time left, whatever order the commands come in.
THEOREM TypeCorrect == Spec => []TypeOK
  BY Types, PTL

-----------------------------------------------------------------------------
(***************************************************************************)
(* Blocks                                                                  *)
(***************************************************************************)
\* As long as Redis answers, its block lasts at least as long as any client was
\* told, and no call of such a client has got past the block.
Blocking ==
    unavailable \/ \A r \in Requests :
        told[r] <= blocked /\ (told[r] # 0 => pc[r] \notin {"incr", "pexpire"})

LEMMA BlockingStep ==
    ASSUME TypeOK, Blocking, [Next]_vars
    PROVE  /\ Blocking'
           /\ \A r \in Requests : pc[r] # "ok" /\ pc'[r] = "ok" => told[r] = 0 \/ unavailable'
<1> DEFINE Held == \A r \in Requests : pc[r] # "ok" /\ pc'[r] = "ok" => told[r] = 0 \/ unavailable'
<1>1. ASSUME NEW r \in Requests, Call(r)
      PROVE  Blocking' /\ Held
  <2>1. Moves(r, {"ensure"})
    BY <1>1, GotoMoves DEF Call, Phases
  <2>2. QED
    BY <1>1, <2>1, Bounds DEF Call, Blocking, Moves, TypeOK, redis
<1>2. ASSUME NEW r \in Requests, UNCHANGED <<told, blocked, unavailable>>,
             Moves(r, Phases \ {"incr", "pexpire", "ok"})
      PROVE  Blocking' /\ Held
  BY <1>2 DEF Blocking, Moves
<1>4. ASSUME NEW r \in Requests, Ensure(r)
      PROVE  Blocking' /\ Held
  <2>1. CASE unavailable
    BY <1>4, <2>1 DEF Ensure, Blocking
  <2>2. CASE ~ unavailable
    <3>1. Moves(r, {"exists", "connect"})
      BY <1>4, <2>2, GotoMoves DEF Ensure, Moves, Phases, Commands
    <3>2. QED
      BY <1>2, <1>4, <3>1 DEF Ensure, Moves, Phases, Commands, redis
  <2>3. QED
    BY <2>1, <2>2
<1>5. ASSUME NEW r \in Requests, Connect(r) \/ ExistsCounter(r)
      PROVE  Blocking' /\ Held
  <2>1. Goto(r, "exists") \/ Goto(r, "blockedIncr") \/ Goto(r, "refused")
    BY <1>5 DEF Connect, ExistsCounter, Refuse
  <2>2. Moves(r, {"exists", "blockedIncr", "refused"})
    BY <2>1, GotoMoves DEF Moves, Phases, Commands
  <2>3. QED
    BY <1>2, <1>5, <2>2 DEF Connect, ExistsCounter, Moves, Phases, Commands, redis
<1>6. ASSUME NEW r \in Requests, Unavailable(r) \/ ClientGone(r)
      PROVE  Blocking' /\ Held
  BY <1>6 DEF Unavailable, ClientGone, Blocking
\* The call asks for the block: if there is none, no block has been told of.
<1>7. ASSUME NEW r \in Requests, Exists(r)
      PROVE  Blocking' /\ Held
  <2>1. Moves(r, {IF IsBlocked THEN "counter" ELSE "incr"})
    BY <1>7, GotoMoves DEF Exists, Phases, Commands
  <2>2. ~ unavailable
    BY <1>7 DEF Exists, TypeOK
  <2>3. IsBlocked \/ told[r] = 0
    BY <2>2, Bounds DEF IsBlocked, Blocking, TypeOK
  <2>4. QED
    BY <1>7, <2>1, <2>2, <2>3 DEF Exists, Blocking, Moves, redis
<1>8. ASSUME NEW r \in Requests, BlockedIncr(r)
      PROVE  Blocking' /\ Held
  <2>1. Moves(r, {"refused"})
    BY <1>8, RefuseTypes DEF BlockedIncr
  <2>2. QED
    BY <1>2, <1>8, <2>1 DEF BlockedIncr, Moves, Phases
<1>9. ASSUME NEW r \in Requests, Incr(r) \/ PExpire(r)
      PROVE  Blocking' /\ Held
  <2>1. told[r] = 0 /\ ~ unavailable
    BY <1>9 DEF Incr, PExpire, Blocking, TypeOK
  <2>2. \/ Goto(r, "pexpire") \/ Goto(r, "set") \/ Goto(r, "ok")
    BY <1>9 DEF Incr, PExpire, Pass
  <2>3. Moves(r, {"pexpire", "set", "ok"})
    BY <2>2, GotoMoves DEF Moves, Phases, Commands
  <2>4. UNCHANGED <<told, blocked, unavailable>>
    BY <1>9 DEF Incr, PExpire
  <2>5. QED
    BY <2>1, <2>3, <2>4 DEF Blocking, Moves
<1>10. ASSUME NEW r \in Requests, SetBlock(r)
       PROVE  Blocking' /\ Held
  <2>1. Moves(r, {"refused"})
    BY <1>10, RefuseTypes DEF SetBlock
  <2>2. QED
    BY <1>10, <2>1, Bounds DEF SetBlock, Blocking, Moves, TypeOK
<1>11. ASSUME NEW r \in Requests, Answered(r)
       PROVE  Blocking' /\ Held
  <2>1. Moves(r, {"idle"})
    BY <1>11, GotoMoves DEF Answered, Phases
  <2>2. QED
    BY <1>11, <2>1, Bounds DEF Answered, Blocking, Moves, TypeOK, redis
<1>12. CASE Tick
  <2>1. \A t, b \in 0..Block : t <= b => Less(t) <= Less(b)
    BY Bounds DEF Less
  <2>2. \A t \in 0..Block : Less(t) # 0 => t # 0
    BY DEF Less
  <2>3. blocked' = Less(blocked) /\ pc' = pc /\ unavailable' = unavailable
        /\ \A r \in Requests : told'[r] = Less(told[r])
    BY <1>12 DEF Tick
  <2>4. QED
    BY <2>1, <2>2, <2>3 DEF Blocking, TypeOK
<1>13. CASE Restart
  BY <1>13, Bounds DEF Restart, redis, Blocking, TypeOK
<1>14. CASE UNCHANGED vars
  BY <1>14 DEF vars, redis, Blocking
<1>15. QED
  BY <1>1, <1>4, <1>5, <1>6, <1>7, <1>8, <1>9, <1>10, <1>11, <1>12, <1>13, <1>14 DEF Next

\* A client that was told of a block is not let through before its end.
THEOREM BlocksHold == Spec => BlockHolds
<1>1. Init => Blocking
  BY Bounds DEF Init, Blocking
<1>2. TypeOK /\ Blocking /\ [Next]_vars => Blocking'
  BY BlockingStep
<1>3. TypeOK /\ Blocking /\ [Next]_vars =>
        [\A r \in Requests : pc[r] # "ok" /\ pc'[r] = "ok" => told[r] = 0 \/ unavailable']_vars
  BY BlockingStep
<1>4. QED
  BY <1>1, <1>2, <1>3, Types, PTL DEF Spec, BlockHolds

-----------------------------------------------------------------------------
(***************************************************************************)
(* The limit.  A window of the local bucket is as old as its time to live  *)
(* says; one of Redis may be older, as its counter gets its expiry by a    *)
(* command of its own, or never.  Calls of the window before the current   *)
(* one are older than this, and those of the one before that are older     *)
(* than a window is long.                                                  *)
(***************************************************************************)
Growing ==
    \A s \in Stores : \A i, j \in 0..(Ttl - 1) : i <= j => passed[s][i] <= passed[s][j]

LocalWindow ==
    LET p == passed["local"]
        age == Ttl - bucket.left
    IN IF bucket.left = 0 THEN p[0] = 0 /\ p[Ttl - 1] <= Limit
       ELSE p[age] <= bucket.hits /\ p[age] <= Limit /\ p[Ttl - 1] - p[age] <= Limit

\* The call that has made the counter and is not let through yet.
Pending == IF \E r \in Requests : pc[r] = "pexpire" THEN 1 ELSE 0

\* The counter was made `age' ticks ago, or more if that is a whole window.
MadeAt(age) ==
    LET p == passed["redis"]
    IN /\ p[age] + Pending <= hits /\ p[age] + Pending <= Limit
       /\ p[Ttl - 1] - p[age] <= Limit
       /\ left = Forever \/ Ttl - left <= age

RedisWindow ==
    IF hits = 0 THEN passed["redis"][0] = 0 /\ passed["redis"][Ttl - 1] <= Limit
    ELSE \E age \in 0..(Ttl - 1) : MadeAt(age)

\* The inductive invariant.
LimitInv == TypeOK /\ Expiring /\ Growing /\ LocalWindow /\ RedisWindow

\* What one call let through adds, and what a tick takes away.
LEMMA PassCounts ==
    ASSUME TypeOK, NEW r \in Requests, NEW s \in Stores, Pass(r, s)
    PROVE  /\ \A i \in 0..(Ttl - 1) : passed[s][i] \in Nat /\ passed'[s][i] = passed[s][i] + 1
           /\ \A t \in Stores \ {s} : passed'[t] = passed[t]
BY DEF TypeOK, Pass

LEMMA GrowingStep ==
    ASSUME TypeOK, Growing, [Next]_vars
    PROVE  Growing'
<1>1. CASE passed' = passed
  BY <1>1 DEF Growing
<1>2. ASSUME NEW r \in Requests, NEW s \in Stores, Pass(r, s)
      PROVE  Growing'
  BY <1>2, PassCounts DEF Growing
<1>3. CASE Tick
  <2>1. \A s \in Stores : \A i \in 0..(Ttl - 1) :
           /\ passed'[s][i] = IF i = 0 THEN 0 ELSE passed[s][i - 1]
           /\ passed[s][i] \in Nat
           /\ i # 0 => i - 1 \in 0..(Ttl - 1)
    <3>1. \A s \in Stores : \A i \in 0..(Ttl - 1) :
             passed'[s][i] = IF i = 0 THEN 0 ELSE passed[s][i - 1]
      BY <1>3 DEF Tick
    <3>2. \A s \in Stores : \A i \in 0..(Ttl - 1) : passed[s][i] \in Nat
      BY DEF TypeOK
    <3>3. \A i \in 0..(Ttl - 1) : i # 0 => i - 1 \in 0..(Ttl - 1)
      BY Bounds
    <3>4. QED
      BY <3>1, <3>2, <3>3
  <2>2. \A i, j \in 0..(Ttl - 1) : i <= j /\ i # 0 => j # 0 /\ i - 1 <= j - 1
    BY Bounds
  <2>3. ASSUME NEW s \in Stores, NEW i \in 0..(Ttl - 1), NEW j \in 0..(Ttl - 1), i <= j
        PROVE  passed'[s][i] <= passed'[s][j]
    <3>1. CASE i = 0
      BY <2>1, <3>1
    <3>2. CASE i # 0
      <4>1. passed[s][i - 1] <= passed[s][j - 1]
        BY <2>1, <2>2, <2>3, <3>2 DEF Growing
      <4>2. QED
        BY <2>1, <2>2, <2>3, <3>2, <4>1
    <3>3. QED
      BY <3>1, <3>2
  <2>4. QED
    BY <2>3 DEF Growing
<1>4. CASE Restart
  <2>1. passed'["local"] = NonePassed /\ passed'["redis"] = passed["redis"]
    BY <1>4 DEF Restart, TypeOK, Stores
  <2>2. \A i \in 0..(Ttl - 1) : passed'["local"][i] = 0
    BY <2>1 DEF NonePassed
  <2>3. QED
    BY <2>1, <2>2 DEF Growing, Stores
<1>5. passed' = passed \/ Tick \/ Restart \/ \E r \in Requests, s \in Stores : Pass(r, s)
  <2>1. ASSUME NEW r \in Requests, Call(r) \/ Connect(r) \/ Exists(r) \/ Answered(r)
        PROVE  passed' = passed
    BY <2>1 DEF Call, Connect, Exists, Answered
  <2>2. ASSUME NEW r \in Requests, ExistsCounter(r) \/ BlockedIncr(r) \/ SetBlock(r)
        PROVE  passed' = passed
    BY <2>2 DEF ExistsCounter, BlockedIncr, SetBlock, Refuse
  <2>3. ASSUME NEW r \in Requests, Ensure(r) \/ Unavailable(r)
        PROVE  passed' = passed \/ Pass(r, "local")
    BY <2>3 DEF Ensure, Unavailable, Local, Refuse
  <2>4. ASSUME NEW r \in Requests, Incr(r) \/ PExpire(r) \/ ClientGone(r)
        PROVE  passed' = passed \/ Pass(r, "redis")
    BY <2>4 DEF Incr, PExpire, ClientGone
  <2>5. "redis" \in Stores /\ "local" \in Stores
    BY DEF Stores
  <2>6. QED
    BY <2>1, <2>2, <2>3, <2>4, <2>5 DEF Next, vars
<1>6. QED
  BY <1>1, <1>2, <1>3, <1>4, <1>5

LEMMA LocalWindowStep ==
    ASSUME LimitInv, [Next]_vars
    PROVE  LocalWindow'
<1> DEFINE p == passed["local"]
           q == passed'["local"]
           age == Ttl - bucket.left
<1>1. /\ \A i \in 0..(Ttl - 1) : p[i] \in Nat
      /\ bucket.hits \in Nat /\ bucket.left \in 0..Ttl /\ bucket.blocked \in Nat
      /\ Ttl - 1 \in 0..(Ttl - 1) /\ 0 \in 0..(Ttl - 1)
      /\ bucket.left # 0 => age \in 0..(Ttl - 1)
  <2>1. \A i \in 0..(Ttl - 1) : p[i] \in Nat
    BY DEF LimitInv, TypeOK, Stores
  <2>2. bucket \in [hits : 0..(Limit + 1), left : 0..Ttl, blocked : 0..Block]
    BY DEF LimitInv, TypeOK
  <2>3. QED
    BY <2>1, <2>2, Bounds
<1>2. /\ bucket.left = 0 => p[0] = 0 /\ p[Ttl - 1] <= Limit
      /\ bucket.left # 0 => p[age] <= bucket.hits /\ p[age] <= Limit /\ p[Ttl - 1] - p[age] <= Limit
  BY DEF LimitInv, LocalWindow
<1>3. CASE bucket' = bucket /\ q = p
  BY <1>3 DEF LimitInv, LocalWindow
<1>4. ASSUME NEW r \in Requests, Local(r)
      PROVE  LocalWindow'
  <2>1. Pass(r, "local") => \A i \in 0..(Ttl - 1) : q[i] = p[i] + 1
    BY PassCounts DEF LimitInv, Stores
  <2>2. CASE bucket.left = 0
    <3>1. bucket' = [hits |-> 1, left |-> Ttl, blocked |-> 0] /\ Pass(r, "local")
      BY <1>4, <2>2, <1>1 DEF Local
    <3>2. q[0] = 1 /\ q[Ttl - 1] = p[Ttl - 1] + 1 /\ p[Ttl - 1] <= Limit /\ p[Ttl - 1] \in Nat
      BY <1>1, <1>2, <2>1, <2>2, <3>1
    <3>3. bucket'.left = Ttl /\ bucket'.hits = 1 /\ Ttl - Ttl = 0
      BY <3>1, Bounds
    <3>4. QED
      BY <3>2, <3>3, Bounds DEF LocalWindow
  <2>3. CASE bucket.left # 0 /\ Pass(r, "local")
    <3>1. bucket' = [bucket EXCEPT !.hits = @ + 1] /\ ~ LocalOver
      BY <1>4, <2>3, <1>1 DEF Local, Pass, Refuse, Goto, LimitInv, TypeOK
    <3>2. bucket'.hits = bucket.hits + 1 /\ bucket'.left = bucket.left /\ bucket.hits + 1 <= Limit
      BY <3>1, <1>1, Bounds DEF LocalOver, LimitInv, TypeOK
    <3>3. q[age] = p[age] + 1 /\ q[Ttl - 1] = p[Ttl - 1] + 1
      BY <1>1, <2>1, <2>3
    <3>4. p[age] \in Nat /\ p[Ttl - 1] \in Nat
      BY <1>1, <2>3
    <3>5. QED
      BY <1>1, <1>2, <2>3, <3>2, <3>3, <3>4, Bounds DEF LocalWindow
  <2>4. CASE bucket.left # 0 /\ ~ Pass(r, "local")
    <3>1. /\ q = p
          /\ bucket' = bucket \/ bucket' = [bucket EXCEPT !.hits = Limit + 1, !.blocked = Block]
      BY <1>4, <2>4 DEF Local, Refuse
    <3>2. bucket'.left = bucket.left /\ (bucket'.hits = bucket.hits \/ bucket'.hits = Limit + 1)
      BY <3>1 DEF LimitInv, TypeOK
    <3>3. p[age] \in Nat
      BY <1>1, <2>4
    <3>4. QED
      BY <1>2, <2>4, <3>1, <3>2, <3>3, Bounds DEF LocalWindow
  <2>5. QED
    BY <2>2, <2>3, <2>4
<1>5. CASE Tick
  <2>1. \A i \in 0..(Ttl - 1) : q[i] = IF i = 0 THEN 0 ELSE p[i - 1]
    BY <1>5 DEF Tick, Stores
  <2>2. bucket'.left = Less(bucket.left) /\ bucket'.hits = bucket.hits
    BY <1>5 DEF Tick, LimitInv, TypeOK
  <2>3. \A i, j \in 0..(Ttl - 1) : i <= j => p[i] <= p[j]
    BY DEF LimitInv, Growing, Stores
  <2>4. q[0] = 0 /\ q[Ttl - 1] <= p[Ttl - 1] /\ q[Ttl - 1] \in Nat
    BY <1>1, <2>1, <2>3, Bounds
  <2>5. CASE bucket.left <= 1
    <3>1. bucket'.left = 0 /\ p[Ttl - 1] <= Limit
      BY <1>1, <1>2, <2>2, <2>5, Bounds DEF Less
    <3>2. QED
      BY <1>1, <2>4, <3>1, Bounds DEF LocalWindow
  <2>6. CASE bucket.left > 1
    <3>1. /\ bucket'.left = bucket.left - 1 /\ bucket'.left # 0 /\ Ttl - bucket'.left = age + 1
          /\ age + 1 \in 0..(Ttl - 1) /\ (age + 1) - 1 = age /\ age + 1 # 0 /\ age \in 0..(Ttl - 1)
      BY <1>1, <2>2, <2>6, Bounds DEF Less
    <3>2. q[age + 1] = p[age]
      BY <2>1, <3>1
    <3>3. p[age] \in Nat /\ p[Ttl - 1] \in Nat
      BY <1>1, <3>1
    <3>4. QED
      BY <1>1, <1>2, <2>2, <2>4, <2>6, <3>1, <3>2, <3>3, Bounds DEF LocalWindow
  <2>7. QED
    BY <1>1, <2>5, <2>6
<1>6. CASE Restart
  <2>1. q = NonePassed /\ bucket'.left = 0
    BY <1>6 DEF Restart, NoBucket, LimitInv, TypeOK, Stores
  <2>2. QED
    BY <1>1, <2>1, Bounds DEF LocalWindow, NonePassed
<1>7. QED
  <2>1. ASSUME NEW r \in Requests, Call(r) \/ Connect(r) \/ Exists(r) \/ Answered(r)
        PROVE  bucket' = bucket /\ q = p
    BY <2>1 DEF Call, Connect, Exists, Answered
  <2>2. ASSUME NEW r \in Requests, ExistsCounter(r) \/ BlockedIncr(r) \/ SetBlock(r)
        PROVE  bucket' = bucket /\ q = p
    BY <2>2 DEF ExistsCounter, BlockedIncr, SetBlock, Refuse
  <2>3. ASSUME NEW r \in Requests, Ensure(r) \/ Unavailable(r)
        PROVE  Local(r) \/ (bucket' = bucket /\ q = p)
    BY <2>3 DEF Ensure, Unavailable
  <2>4. ASSUME NEW r \in Requests, Incr(r) \/ PExpire(r) \/ ClientGone(r)
        PROVE  bucket' = bucket /\ q = p
    <3>1. bucket' = bucket /\ (passed' = passed \/ Pass(r, "redis"))
      BY <2>4 DEF Incr, PExpire, ClientGone
    <3>2. Pass(r, "redis") => q = p
      BY PassCounts DEF LimitInv, Stores
    <3>3. QED
      BY <3>1, <3>2
  <2>5. QED
    BY <1>3, <1>4, <1>5, <1>6, <2>1, <2>2, <2>3, <2>4 DEF Next, vars

LEMMA Room ==
    ASSUME NEW n \in {0, 1}, NEW a \in {0, 1}, NEW b \in {0, 1}, NEW h \in Nat, NEW k \in Nat,
           NEW x \in Nat, NEW y \in Nat, x + a <= h, x + a <= Limit, y - x <= Limit,
           n + b + h <= a + k, n + b <= a \/ k <= Limit
    PROVE  x + n + b <= k /\ x + n + b <= Limit /\ (y + n) - (x + n) <= Limit
BY Bounds

\* The counter is as it was, or has been incremented, and calls are let through by
\* it only for the room that is left in it.
LEMMA RedisWindowKept ==
    ASSUME LimitInv, NEW n \in {0, 1},
           \A i \in 0..(Ttl - 1) : passed'["redis"][i] = passed["redis"][i] + n,
           NEW a \in {0, 1}, NEW b \in {0, 1}, Pending = a, Pending' = b,
           NEW k \in Nat \ {0}, hits # 0, hits' = k, n + b + hits <= a + k,
           n + b <= a \/ k <= Limit,
           left' = left \/ left' = Forever \/ left' = Ttl
    PROVE  RedisWindow'
<1> DEFINE p == passed["redis"]
           q == passed'["redis"]
<1>1. PICK age \in 0..(Ttl - 1) : MadeAt(age)
  BY DEF LimitInv, RedisWindow
<1>2. p[age] \in Nat /\ p[Ttl - 1] \in Nat
  <2>1. \A i \in 0..(Ttl - 1) : p[i] \in Nat
    BY DEF LimitInv, TypeOK, Stores
  <2>2. QED
    BY <2>1, Bounds
<1>3. q[age] = p[age] + n /\ q[Ttl - 1] = p[Ttl - 1] + n
  BY Bounds
<1>4. hits \in Nat
  BY Bounds DEF LimitInv, TypeOK
<1>5. p[age] + a <= hits /\ p[age] + a <= Limit /\ p[Ttl - 1] - p[age] <= Limit
  BY <1>1 DEF MadeAt
<1>6. q[age] + b <= hits' /\ q[age] + b <= Limit /\ q[Ttl - 1] - q[age] <= Limit
  <2>1. /\ p[age] + n + b <= k /\ p[age] + n + b <= Limit
        /\ (p[Ttl - 1] + n) - (p[age] + n) <= Limit
    <3>1. PICK x \in Nat, y \in Nat, h \in Nat : p[age] = x /\ p[Ttl - 1] = y /\ hits = h
      BY <1>2, <1>4
    <3>2. x + a <= h /\ x + a <= Limit /\ y - x <= Limit /\ n + b + h <= a + k
      BY <1>5, <3>1
    <3>3. x + n + b <= k /\ x + n + b <= Limit /\ (y + n) - (x + n) <= Limit
      BY <3>2, Room, Bounds
    <3>4. QED
      BY <3>1, <3>3
  <2>2. QED
    BY <1>3, <2>1
<1>7. left' = Forever \/ Ttl - left' <= age
  BY <1>1, Bounds DEF MadeAt
<1>8. MadeAt(age)'
  BY <1>6, <1>7 DEF MadeAt
<1>9. QED
  BY <1>8 DEF RedisWindow

\* Nothing that counts has happened in Redis.
LEMMA RedisWindowSame ==
    ASSUME LimitInv, UNCHANGED <<hits, left, passed["redis"]>>,
           NEW a \in {0, 1}, NEW b \in {0, 1}, Pending = a, Pending' = b, b <= a
    PROVE  RedisWindow'
<1>1. CASE hits = 0
  BY <1>1 DEF LimitInv, RedisWindow
<1>2. CASE hits # 0
  <2>1. \A i \in 0..(Ttl - 1) : passed'["redis"][i] = passed["redis"][i] + 0
    <3>1. \A i \in 0..(Ttl - 1) : passed["redis"][i] \in Nat
      BY DEF LimitInv, TypeOK, Stores
    <3>2. QED
      BY <3>1
  <2>2. hits \in Nat
    BY Bounds DEF LimitInv, TypeOK
  <2>3. 0 + b + hits <= a + hits' /\ 0 + b <= a
    BY <2>2
  <2>4. QED
    BY <1>2, <2>1, <2>2, <2>3, RedisWindowKept
<1>3. QED
  BY <1>1, <1>2

LEMMA PendingStep ==
    ASSUME TypeOK, Expiring, NEW r \in Requests
    PROVE  \E a, b \in {0, 1} :
              /\ Pending = a /\ Pending' = b
              /\ Moves(r, Phases \ {"pexpire"}) => b <= a
              /\ Moves(r, Phases \ {"pexpire"}) /\ pc[r] # "pexpire" => a = b
              /\ Moves(r, Phases \ {"pexpire"}) /\ pc[r] = "pexpire" => a = 1 /\ b = 0
BY DEF Expiring, Moves, Pending

LEMMA RedisWindowStep ==
    ASSUME LimitInv, [Next]_vars
    PROVE  RedisWindow'
<1> DEFINE p == passed["redis"]
           q == passed'["redis"]
<1> USE DEF LimitInv
<1>1. /\ \A i \in 0..(Ttl - 1) : p[i] \in Nat
      /\ hits \in Nat /\ left \in Nat /\ (hits = 0 <=> left = 0)
      /\ Ttl - 1 \in 0..(Ttl - 1) /\ 0 \in 0..(Ttl - 1)
  <2>1. \A i \in 0..(Ttl - 1) : p[i] \in Nat
    BY DEF TypeOK, Stores
  <2>2. QED
    BY <2>1, Bounds DEF TypeOK
<1>2. ASSUME NEW r \in Requests, NEW phases \in SUBSET (Phases \ {"pexpire"}), Moves(r, phases)
      PROVE  Moves(r, Phases \ {"pexpire"})
  BY <1>2 DEF Moves
<1>3. ASSUME NEW r \in Requests, Moves(r, Phases \ {"pexpire"}), UNCHANGED <<hits, left, p>>
      PROVE  RedisWindow'
  <2>1. PICK a, b \in {0, 1} : Pending = a /\ Pending' = b /\ b <= a
    BY <1>3, PendingStep DEF LimitInv
  <2>2. QED
    BY <1>3, <2>1, RedisWindowSame
<1>4. ASSUME NEW r \in Requests, NEW phase \in Phases \ {"pexpire"}, Goto(r, phase),
             UNCHANGED <<hits, left, p>>
      PROVE  RedisWindow'
  BY <1>2, <1>3, <1>4, GotoMoves
<1>5. ASSUME NEW r \in Requests, Local(r), UNCHANGED redis
      PROVE  RedisWindow'
  <2>1. Moves(r, {"ok", "refused"})
    BY <1>5, LocalTypes
  <2>2. passed' = passed \/ Pass(r, "local")
    BY <1>5 DEF Local, Refuse
  <2>3. q = p
    BY <2>2, PassCounts DEF Stores
  <2>4. Moves(r, Phases \ {"pexpire"})
    BY <1>2, <2>1 DEF Phases
  <2>5. QED
    BY <1>3, <1>5, <2>3, <2>4 DEF redis
<1>6. ASSUME NEW r \in Requests, Call(r) \/ Connect(r) \/ Exists(r) \/ Answered(r)
      PROVE  RedisWindow'
  <2>1. PICK phase \in {"ensure", "exists", "counter", "incr", "idle"} : Goto(r, phase)
    BY <1>6 DEF Call, Connect, Exists, Answered
  <2>2. UNCHANGED <<hits, left, passed>>
    BY <1>6 DEF Call, Connect, Exists, Answered, redis
  <2>3. QED
    BY <1>4, <2>1, <2>2 DEF Phases, Commands
<1>7. ASSUME NEW r \in Requests, ExistsCounter(r) \/ SetBlock(r)
      PROVE  RedisWindow'
  <2>1. Goto(r, "blockedIncr") \/ Goto(r, "refused")
    BY <1>7 DEF ExistsCounter, SetBlock, Refuse
  <2>2. UNCHANGED <<hits, left, passed>>
    BY <1>7 DEF ExistsCounter, SetBlock, Refuse, redis
  <2>3. QED
    BY <1>4, <2>1, <2>2 DEF Phases, Commands
<1>8. ASSUME NEW r \in Requests, Ensure(r) \/ Unavailable(r)
      PROVE  RedisWindow'
  <2>1. CASE Local(r)
    BY <1>5, <1>8, <2>1 DEF Ensure, Unavailable
  <2>2. CASE ~ Local(r)
    <3>1. UNCHANGED <<hits, left, passed>> /\ (Goto(r, "exists") \/ Goto(r, "connect"))
      BY <1>8, <2>2 DEF Ensure, Unavailable, redis
    <3>2. QED
      BY <1>4, <3>1 DEF Phases, Commands
  <2>3. QED
    BY <2>1, <2>2
\* The first hit of a counter opens a window; whether it is let through comes later.
<1>9. ASSUME NEW r \in Requests, Incr(r) \/ BlockedIncr(r), hits = 0
      PROVE  RedisWindow'
  <2>1. hits' = 1 /\ left' = Forever
    BY <1>9, Bounds DEF Incr, BlockedIncr, Incremented, Counted
  <2>2. q = p
    BY <1>9, Bounds DEF Incr, BlockedIncr, Counted, Refuse
  <2>3. p[0] = 0 /\ p[Ttl - 1] <= Limit /\ p[Ttl - 1] \in Nat
    BY <1>1, <1>9 DEF RedisWindow
  <2>4. PICK b \in {0, 1} : Pending' = b
    BY DEF Pending
  <2>5. /\ q[0] + Pending' <= hits' /\ q[0] + Pending' <= Limit
        /\ q[Ttl - 1] - q[0] <= Limit
    BY <2>1, <2>2, <2>3, <2>4, Bounds
  <2>6. MadeAt(0)'
    BY <2>1, <2>5 DEF MadeAt
  <2>7. QED
    BY <1>1, <2>1, <2>6 DEF RedisWindow
<1>10. ASSUME NEW r \in Requests, Incr(r) \/ BlockedIncr(r), hits # 0
       PROVE  RedisWindow'
  <2>1. /\ left' = left /\ hits' = Counted /\ hits' \in Nat \ {0} /\ hits' >= hits
        /\ (hits' <= Limit => hits' = hits + 1) /\ hits' # 1
    BY <1>1, <1>10, Bounds DEF Incr, BlockedIncr, Incremented, Counted
  <2>2. \/ Goto(r, "refused") /\ q = p
        \/ Goto(r, "set") /\ q = p
        \/ Pass(r, "redis") /\ hits' <= Limit
    BY <1>1, <1>10, <2>1, Bounds DEF Incr, BlockedIncr, Refuse, Over
  <2>3. pc[r] # "pexpire" /\ Moves(r, Phases \ {"pexpire"})
    <3>1. \/ Moves(r, {"refused"}) \/ Moves(r, {"set"}) \/ Moves(r, {"ok"})
      BY <2>2, GotoMoves DEF Pass, Phases, Commands
    <3>2. Moves(r, Phases \ {"pexpire"})
      BY <1>2, <3>1 DEF Phases, Commands
    <3>3. QED
      BY <1>10, <3>2 DEF Incr, BlockedIncr
  <2>4. PICK a \in {0, 1} : Pending = a /\ Pending' = a
    BY <2>3, PendingStep
  <2>5. CASE q = p
    <3>1. \A i \in 0..(Ttl - 1) : q[i] = p[i] + 0
      BY <1>1, <2>5
    <3>2. 0 + a + hits <= a + hits' /\ 0 + a <= a
      BY <1>1, <2>1, <2>4
    <3>3. QED
      BY <1>10, <2>1, <2>4, <3>1, <3>2, RedisWindowKept
  <2>6. CASE Pass(r, "redis") /\ hits' <= Limit
    <3>1. \A i \in 0..(Ttl - 1) : q[i] = p[i] + 1
      BY <2>6, PassCounts DEF Stores
    <3>2. 1 + a + hits <= a + hits'
      BY <1>1, <2>1, <2>4, <2>6
    <3>3. QED
      BY <1>10, <2>1, <2>4, <2>6, <3>1, <3>2, RedisWindowKept
  <2>7. QED
    BY <2>2, <2>5, <2>6
\* The call that has made the counter is let through.
<1>11. ASSUME NEW r \in Requests, pc[r] = "pexpire", Pass(r, "redis"), hits' = hits,
              left' = left \/ left' = Ttl
       PROVE  RedisWindow'
  <2>1. hits # 0
    BY <1>1, <1>11, Bounds DEF Expiring
  <2>2. Moves(r, Phases \ {"pexpire"})
    <3>1. Moves(r, {"ok"})
      BY <1>11, GotoMoves DEF Pass, Phases
    <3>2. QED
      BY <1>2, <3>1 DEF Phases
  <2>3. Pending = 1 /\ Pending' = 0
    BY <1>11, <2>2, PendingStep
  <2>4. \A i \in 0..(Ttl - 1) : q[i] = p[i] + 1
    BY <1>11, PassCounts DEF Stores
  <2>5. 1 + 0 + hits <= 1 + hits' /\ 1 + 0 <= 1
    BY <1>1, <1>11
  <2>6. QED
    BY <1>1, <1>11, <2>1, <2>3, <2>4, <2>5, RedisWindowKept
<1>12. ASSUME NEW r \in Requests, PExpire(r) \/ ClientGone(r)
       PROVE  RedisWindow'
  <2>1. CASE pc[r] = "pexpire"
    BY <1>11, <1>12, <2>1 DEF PExpire, ClientGone, redis
  <2>2. CASE pc[r] # "pexpire"
    <3>1. UNCHANGED <<hits, left, passed>> /\ (Goto(r, "ok") \/ Goto(r, "refused"))
      BY <1>12, <2>2 DEF PExpire, ClientGone, redis
    <3>2. QED
      BY <1>4, <3>1 DEF Phases
  <2>3. QED
    BY <2>1, <2>2
\* A counter that expires is as old as a window is long.
<1>13. CASE Tick
  <2>1. \A i \in 0..(Ttl - 1) : q[i] = IF i = 0 THEN 0 ELSE p[i - 1]
    BY <1>13 DEF Tick, Stores
  <2>2. /\ left' = Less(left) /\ pc' = pc
        /\ hits' = IF left' = 0 THEN 0 ELSE hits
    BY <1>13 DEF Tick
  <2>3. \A i, j \in 0..(Ttl - 1) : i <= j => p[i] <= p[j]
    BY DEF Growing, Stores
  <2>4. q[0] = 0 /\ q[Ttl - 1] <= p[Ttl - 1] /\ q[Ttl - 1] \in Nat
    BY <1>1, <2>1, <2>3, Bounds
  <2>5. CASE hits = 0
    <3>1. hits' = 0 /\ p[Ttl - 1] <= Limit
      BY <1>1, <2>2, <2>5, Bounds DEF Less, RedisWindow
    <3>2. QED
      BY <1>1, <2>4, <3>1, Bounds DEF RedisWindow
  <2>6. CASE hits # 0
    <3>1. PICK age \in 0..(Ttl - 1) : MadeAt(age)
      BY <2>6 DEF RedisWindow
    <3>2. PICK a \in {0, 1} : Pending = a /\ Pending' = a
      BY <2>2 DEF Pending
    <3>3. /\ p[age] \in Nat /\ p[Ttl - 1] \in Nat
          /\ p[age] + a <= hits /\ p[age] + a <= Limit /\ p[Ttl - 1] - p[age] <= Limit
          /\ left = Forever \/ Ttl - left <= age
      BY <1>1, <3>1, <3>2 DEF MadeAt
    <3>4. CASE left' = 0
      <4>1. left = 1 /\ left # Forever
        BY <1>1, <2>2, <2>6, <3>4, Bounds DEF Less
      <4>2. age = Ttl - 1
        BY <3>1, <4>1, Bounds DEF MadeAt
      <4>3. hits' = 0 /\ p[Ttl - 1] <= Limit
        BY <2>2, <3>1, <3>2, <3>4, <3>3, <4>2, Bounds DEF MadeAt
      <4>4. QED
        BY <1>1, <2>4, <4>3, Bounds DEF RedisWindow
    <3>5. CASE left' # 0
      <4>1. hits' = hits /\ left' \in Nat \ {0} /\ (left' # Forever => left' = left - 1 /\ left # Forever)
        BY <1>1, <2>2, <2>6, <3>5, Bounds DEF Less
      <4>2. ASSUME NEW i \in 0..(Ttl - 1), q[i] + a <= hits, q[i] + a <= Limit,
                   q[Ttl - 1] - q[i] <= Limit, left' # Forever => Ttl - left' <= i
            PROVE  RedisWindow'
        <5>1. MadeAt(i)'
          BY <3>2, <4>1, <4>2 DEF MadeAt
        <5>2. QED
          BY <2>6, <4>1, <5>1 DEF RedisWindow
      <4>3. CASE age = Ttl - 1
        <5>1. \A v, y \in Nat : v <= y /\ y + a <= hits /\ y + a <= Limit =>
                 v + a <= hits /\ v + a <= Limit /\ v - v <= Limit
          BY <1>1, Bounds
        <5>2. \A t \in Nat \ {0} : Ttl - t <= Ttl - 1
          BY Bounds
        <5>3. Ttl - left' <= Ttl - 1
          BY <4>1, <5>2
        <5>4. QED
          BY <1>1, <2>4, <3>3, <4>2, <4>3, <5>1, <5>3
      <4>4. CASE age # Ttl - 1
        <5>1. age + 1 \in 0..(Ttl - 1) /\ age + 1 # 0 /\ (age + 1) - 1 = age
          BY <4>4, Bounds
        <5>2. q[age + 1] = p[age]
          BY <2>1, <5>1
        <5>3. \A x, y, v \in Nat : y - x <= Limit /\ v <= y => v - x <= Limit
          BY Bounds
        <5>4. q[Ttl - 1] - q[age + 1] <= Limit
          <6>1. PICK x \in Nat, y \in Nat, v \in Nat : p[age] = x /\ p[Ttl - 1] = y /\ q[Ttl - 1] = v
            BY <2>4, <3>3
          <6>2. v - x <= Limit
            BY <2>4, <3>3, <5>3, <6>1
          <6>3. QED
            BY <5>2, <6>1, <6>2
        <5>5. left' # Forever => Ttl - left' <= age + 1
          <6>1. \A t \in Nat : Ttl - t <= age => Ttl - (t - 1) <= age + 1
            BY Bounds
          <6>2. QED
            BY <1>1, <3>3, <4>1, <6>1
        <5>6. QED
          BY <3>3, <4>2, <5>1, <5>2, <5>4, <5>5
      <4>5. QED
        BY <4>3, <4>4
    <3>6. QED
      BY <3>4, <3>5
  <2>7. QED
    BY <2>5, <2>6
<1>14. CASE Restart
  <2>1. UNCHANGED <<hits, left>> /\ q = p
    BY <1>14 DEF Restart, redis, TypeOK, Stores
  <2>2. Pending' = 0 /\ (Pending = 0 \/ Pending = 1)
    BY <1>14 DEF Restart, Pending
  <2>3. QED
    BY <2>1, <2>2, RedisWindowSame
<1>15. CASE UNCHANGED vars
  <2>1. UNCHANGED <<hits, left, p>> /\ \E a \in {0, 1} : Pending = a /\ Pending' = a
    BY <1>15 DEF vars, redis, Pending
  <2>2. QED
    BY <2>1, RedisWindowSame
<1>16. QED
  BY <1>6, <1>7, <1>8, <1>9, <1>10, <1>12, <1>13, <1>14, <1>15 DEF Next

\* No store lets more than twice the limit through in a span as long as a window,
\* whatever commands overlap, fail, or are separated by a restart.
THEOREM LimitHolds == Spec => []WithinLimit
<1>1. Init => Growing /\ LocalWindow /\ RedisWindow
  <2>1. ASSUME Init
        PROVE  Growing /\ LocalWindow /\ RedisWindow
    <3>1. \A s \in Stores : \A i \in 0..(Ttl - 1) : passed[s][i] = 0
      BY <2>1 DEF Init, NonePassed
    <3>2. hits = 0 /\ bucket.left = 0
      BY <2>1 DEF Init, NoBucket
    <3>3. QED
      BY <3>1, <3>2, Bounds DEF Growing, LocalWindow, RedisWindow, Stores
  <2>2. QED
    BY <2>1
<1>2. LimitInv /\ [Next]_vars => (Growing /\ LocalWindow /\ RedisWindow)'
  BY GrowingStep, LocalWindowStep, RedisWindowStep DEF LimitInv
<1>3. LimitInv => WithinLimit
  <2>1. ASSUME LimitInv
        PROVE  WithinLimit
    <3>1. \A s \in Stores : \A i \in 0..(Ttl - 1) : passed[s][i] \in Nat
      BY <2>1 DEF LimitInv, TypeOK
    <3>2. passed["local"][Ttl - 1] <= 2 * Limit
      <4>1. bucket.left \in 0..Ttl
        BY <2>1 DEF LimitInv, TypeOK
      <4>2. QED
        BY <2>1, <3>1, <4>1, Bounds DEF LimitInv, LocalWindow, Stores
    <3>3. passed["redis"][Ttl - 1] <= 2 * Limit
      <4>1. Pending \in {0, 1}
        BY DEF Pending
      <4>2. QED
        BY <2>1, <3>1, <4>1, Bounds DEF LimitInv, RedisWindow, MadeAt, Stores
    <3>4. QED
      BY <3>2, <3>3 DEF WithinLimit, Stores
  <2>2. QED
    BY <2>1
<1>4. QED
  BY <1>1, <1>2, <1>3, Types, PTL DEF Spec, LimitInv
=============================================================================
