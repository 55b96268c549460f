---------------------------- MODULE FeedClientProofs ----------------------------
(***************************************************************************)
(* Proofs about FeedClient for any clients, addresses, limits and budget.   *)
(*                                                                          *)
(* The argument for BudgetHeld: every dial of the retry loop follows a      *)
(* socket or a dial that ended, so the loop never dials more often than     *)
(* failureCount counts, and a count at the limit stops the loop until a     *)
(* request brings a socket of its own.  For SocketsCounted: whatever takes a  *)
(* socket away counts down at once or leaves one vanished socket in its      *)
(* place, and a count is never down at zero while a socket is there.         *)
(***************************************************************************)
EXTENDS FeedClient, FiniteSetTheorems, TLAPS

-----------------------------------------------------------------------------
(* The server's part                                                        *)

LEMMA MaxType == \A k \in Key : MaxOf(k[1]) \in Nat \ {0}
BY ConfigAssumption DEF ConfigAssumption, MaxOf

LEMMA ServerInitTypes == ServerInit => ServerTypeOK
<1>1. \A k \in Key : 0 <= MaxOf(k[1]) + 1
  BY MaxType
<1>2. 0 \in 0..WindowTicks /\ 0 \in 0..MaxLost
  BY ConfigAssumption DEF ConfigAssumption
<1> QED BY <1>1, <1>2 DEF ServerInit, ServerTypeOK, LimiterTypeOK, SocketTypeOK

LEMMA LimiterTypes ==
    ASSUME ServerTypeOK, NEW c \in Client, NEW m \in Method, HttpRequest(c, m)
    PROVE  ServerTypeOK'
<1>1. clientIp[c] \in Address
  BY ClientIpAssumption DEF ClientIpAssumption
<1>2. CASE UNCHANGED limiterVars
  BY <1>2 DEF HttpRequest, limiterVars, socketVars, ServerTypeOK, LimiterTypeOK, SocketTypeOK
<1>3. CASE LetThrough(clientIp[c])
  BY <1>3 DEF HttpRequest, LetThrough, socketVars, ServerTypeOK, LimiterTypeOK, SocketTypeOK
<1>4. CASE CheckRateLimit(<<BucketOf(m), clientIp[c]>>)
  <2> DEFINE k == <<BucketOf(m), clientIp[c]>>
  <2>1. k \in Key /\ k[2] \in Address
    BY <1>1 DEF Key, Bucket, BucketOf
  <2>2. MaxOf(k[1]) \in Nat \ {0} /\ WindowTicks \in Nat \ {0}
    BY <2>1, MaxType, ConfigAssumption DEF ConfigAssumption
  <2> HIDE DEF k
  <2>3. Count(k) /\ refused' \subseteq refused \union {k[2]}
    BY <1>4 DEF CheckRateLimit, k
  <2>4. hits' \in [Key -> Nat] /\ \A j \in Key : hits'[j] <= MaxOf(j[1]) + 1
    BY <2>1, <2>2, <2>3 DEF Count, ServerTypeOK, LimiterTypeOK, SocketTypeOK
  <2>5. ttl' \in [Key -> 0..WindowTicks]
    BY <2>1, <2>2, <2>3 DEF Count, ServerTypeOK, LimiterTypeOK, SocketTypeOK
  <2>6. \A j \in Key : hits'[j] = 0 <=> ttl'[j] = 0
    BY <2>1, <2>2, <2>3 DEF Count, ServerTypeOK, LimiterTypeOK, SocketTypeOK
  <2>7. UNCHANGED socketVars
    BY DEF HttpRequest
  <2> QED BY <2>1, <2>3, <2>4, <2>5, <2>6, <2>7 DEF socketVars, ServerTypeOK, LimiterTypeOK, SocketTypeOK
<1> QED BY <1>2, <1>3, <1>4 DEF HttpRequest

LEMMA TickTypes == ServerTypeOK /\ Tick => ServerTypeOK'
<1> SUFFICES ASSUME ServerTypeOK, Tick PROVE ServerTypeOK'
  OBVIOUS
<1>1. \A k \in Key : MaxOf(k[1]) + 1 \in Nat /\ WindowTicks \in Nat
  BY MaxType, ConfigAssumption DEF ConfigAssumption
<1>2. hits' \in [Key -> Nat] /\ \A k \in Key : hits'[k] <= MaxOf(k[1]) + 1
  BY <1>1 DEF Tick, ServerTypeOK, LimiterTypeOK, SocketTypeOK
<1>3. ttl' \in [Key -> 0..WindowTicks] /\ \A k \in Key : hits'[k] = 0 <=> ttl'[k] = 0
  BY <1>1 DEF Tick, ServerTypeOK, LimiterTypeOK, SocketTypeOK
<1> QED BY <1>2, <1>3 DEF Tick, socketVars, ServerTypeOK, LimiterTypeOK, SocketTypeOK

LEMMA RestartTypes == ServerTypeOK /\ RedisRestarts => ServerTypeOK'
<1>1. \A k \in Key : 0 <= MaxOf(k[1]) + 1
  BY MaxType
<1>2. 0 \in 0..WindowTicks
  BY ConfigAssumption DEF ConfigAssumption
<1> QED BY <1>1, <1>2 DEF RedisRestarts, socketVars, ServerTypeOK, LimiterTypeOK, SocketTypeOK

LEMMA ClosedTypes ==
    ASSUME SocketTypeOK, NEW c \in Client
    PROVE  Closed(wsConnsByIp, c) \in [Address -> Nat]
BY ClientIpAssumption DEF ClientIpAssumption, SocketTypeOK, Closed

LEMMA SocketTypes ==
    ASSUME SocketTypeOK, NEW c \in Client,
           \/ NoticesLoss(c)
           \/ PeerGone(c, net = "bad")
           \/ Connected(c) /\ UNCHANGED lost
           \/ AcceptLost(c)
    PROVE  SocketTypeOK'
<1>1. MaxLost \in Nat /\ clientIp[c] \in Address
  BY ClientIpAssumption, ConfigAssumption DEF ClientIpAssumption, ConfigAssumption
<1>2. CASE NoticesLoss(c)
  BY <1>1, <1>2, ClosedTypes DEF NoticesLoss, SocketTypeOK
<1>3. CASE PeerGone(c, net = "bad")
  BY <1>1, <1>3, ClosedTypes DEF PeerGone, SocketTypeOK
<1>4. CASE Connected(c) /\ UNCHANGED lost
  BY <1>1, <1>4 DEF Connected, SocketTypeOK
<1>5. CASE AcceptLost(c)
  BY <1>1, <1>5 DEF AcceptLost, Connected, SocketTypeOK
<1> QED BY <1>2, <1>3, <1>4, <1>5

-----------------------------------------------------------------------------
(* The client's part                                                        *)

LEMMA UpToType ==
    ASSUME NEW n \in 0..MaxAttempts
    PROVE  /\ UpTo(n) \in 0..MaxAttempts /\ UpTo(n) \in 1..MaxAttempts
           /\ UpTo(n) < MaxAttempts => UpTo(n) = n + 1
BY AttemptsAssumption DEF AttemptsAssumption, UpTo

\* What onClose leaves, at the limit and below it.
LEMMA OnCloseEffect ==
    ASSUME ClientTypeOK, NEW c \in Client, OnClose(c)
    PROVE  /\ failureCount' = [failureCount EXCEPT ![c] = UpTo(failureCount[c])]
           /\ failureCount'[c] \in 0..MaxAttempts /\ failureCount'[c] \in 1..MaxAttempts
           /\ stableTimer' = [stableTimer EXCEPT ![c] = FALSE]
           /\ \/ /\ failureCount'[c] = MaxAttempts
                 /\ wsExhausted' = [wsExhausted EXCEPT ![c] = TRUE]
                 /\ feed' = [feed EXCEPT ![c] = IF feed[c] = "on" THEN "ended" ELSE feed[c]]
                 /\ allow' = [allow EXCEPT ![c] = FALSE]
              \/ /\ failureCount'[c] = failureCount[c] + 1 /\ failureCount'[c] < MaxAttempts
                 /\ UNCHANGED <<wsExhausted, feed, allow>>
<1>1. failureCount' = [failureCount EXCEPT ![c] = UpTo(failureCount[c])]
      /\ stableTimer' = [stableTimer EXCEPT ![c] = FALSE]
  BY DEF OnClose, Set
<1>2. failureCount'[c] = UpTo(failureCount[c]) /\ failureCount[c] \in 0..MaxAttempts
  BY <1>1 DEF ClientTypeOK
<1>3. failureCount'[c] \in 0..MaxAttempts /\ failureCount'[c] \in 1..MaxAttempts
      /\ (failureCount'[c] < MaxAttempts => failureCount'[c] = failureCount[c] + 1)
  BY <1>2, UpToType
<1>4. CASE failureCount'[c] >= MaxAttempts
  BY <1>1, <1>3, <1>4, AttemptsAssumption DEF OnClose, CloseClient, Set, AttemptsAssumption
<1>5. CASE ~(failureCount'[c] >= MaxAttempts)
  <2>1. UNCHANGED <<wsExhausted, feed, allow>>
    BY <1>5 DEF OnClose
  <2>2. failureCount'[c] < MaxAttempts
    BY <1>3, <1>5, AttemptsAssumption DEF AttemptsAssumption
  <2> QED BY <1>1, <1>3, <2>1, <2>2
<1> QED BY <1>4, <1>5

LEMMA OnCloseTypes ==
    ASSUME ClientTypeOK, NEW c \in Client, OnClose(c)
    PROVE  /\ feed' \in [Client -> {"off", "on", "ended"}]
           /\ allow' \in [Client -> BOOLEAN]
           /\ failureCount' \in [Client -> 0..MaxAttempts]
           /\ stableTimer' \in [Client -> BOOLEAN]
           /\ wsExhausted' \in [Client -> BOOLEAN]
           /\ stableTimer'[c] = FALSE /\ \A d \in Client \ {c} : stableTimer'[d] = stableTimer[d]
<1>1. UpTo(failureCount[c]) \in 0..MaxAttempts
  BY UpToType DEF ClientTypeOK
<1>2. failureCount' \in [Client -> 0..MaxAttempts]
  BY <1>1, OnCloseEffect DEF ClientTypeOK
<1>3. feed' \in [Client -> {"off", "on", "ended"}]
  BY OnCloseEffect DEF ClientTypeOK
<1>4. allow' \in [Client -> BOOLEAN]
  BY DEF OnClose, CloseClient, Set, ClientTypeOK
<1>5. wsExhausted' \in [Client -> BOOLEAN]
  BY DEF OnClose, Set, ClientTypeOK
<1>6. stableTimer' = [stableTimer EXCEPT ![c] = FALSE]
  BY DEF OnClose, Set
<1>7. stableTimer' \in [Client -> BOOLEAN]
      /\ stableTimer'[c] = FALSE /\ \A d \in Client \ {c} : stableTimer'[d] = stableTimer[d]
  BY <1>6 DEF ClientTypeOK
<1> QED BY <1>2, <1>3, <1>4, <1>5, <1>7

LEMMA DialTypes ==
    ASSUME ClientTypeOK, NEW c \in Client, DialOpens(c) \/ DialFails(c) \/ Drop(c)
    PROVE  ClientTypeOK'
<1>1. CASE DialOpens(c)
  BY <1>1 DEF DialOpens, OnOpen, Set, ClientTypeOK
<1>2. CASE DialFails(c)
  BY <1>2, OnCloseTypes DEF DialFails, Set, ClientTypeOK
<1>3. CASE Drop(c)
  BY <1>3, OnCloseTypes DEF Drop, Set, ClientTypeOK
<1> QED BY <1>1, <1>2, <1>3

LEMMA WakeTypes ==
    ASSUME ClientTypeOK, NEW c \in Client, Wake(c)
    PROVE  ClientTypeOK'
<1>1. /\ feed' \in [Client -> {"off", "on", "ended"}]
      /\ allow' \in [Client -> BOOLEAN]
      /\ failureCount' \in [Client -> 0..MaxAttempts]
      /\ stableTimer' \in [Client -> BOOLEAN]
      /\ wsExhausted' \in [Client -> BOOLEAN]
      /\ \A d \in Client \ {c} : stableTimer'[d] = stableTimer[d]
      /\ stableTimer'[c] => sock[c] = "open" /\ sock'[c] = "open"
  <2>1. CASE ~allow[c]
    BY <2>1 DEF Wake, ClientTypeOK
  <2>2. CASE allow[c] /\ sock[c] = "open"
    BY <2>2, OnCloseTypes DEF Wake
  <2>3. CASE allow[c] /\ sock[c] # "open"
    BY <2>3 DEF Wake, ClientTypeOK
  <2> QED BY <2>1, <2>2, <2>3
<1>2. redials' \in [Client -> 0..MaxAttempts]
  <2>1. redials[c] \in 0..MaxAttempts
    BY DEF ClientTypeOK
  <2>2. UpTo(redials[c]) \in 0..MaxAttempts
    BY <2>1, UpToType
  <2> QED BY <2>2 DEF Wake, Set, ClientTypeOK
<1>3. /\ sock' \in [Client -> {"none", "dialing", "open"}]
      /\ loop' \in [Client -> {"none", "sleeping", "dialing"}]
      /\ \A d \in Client : loop'[d] = "dialing" => sock'[d] = "dialing"
      /\ \A d \in Client \ {c} : sock'[d] = sock[d]
  BY DEF Wake, Set, ClientTypeOK
<1> QED BY <1>1, <1>2, <1>3 DEF ClientTypeOK

LEMMA OtherTypes ==
    ASSUME ClientTypeOK, NEW c \in Client,
           IdleClose(c) \/ Stable(c) \/ OpenFeed(c) \/ LeaveFeed(c) \/ Reconnect(c)
    PROVE  ClientTypeOK'
<1>1. 0 \in 0..MaxAttempts
  BY AttemptsAssumption DEF AttemptsAssumption
<1>2. CASE IdleClose(c)
  <2>1. failureCount[c] \in 0..MaxAttempts
    BY DEF ClientTypeOK
  <2>2. UpTo(failureCount[c]) \in 0..MaxAttempts
    BY <2>1, UpToType
  <2> QED BY <1>2, <2>2 DEF IdleClose, Set, ClientTypeOK
<1>3. CASE Stable(c)
  BY <1>1, <1>3 DEF Stable, Set, ClientTypeOK
<1>4. CASE OpenFeed(c)
  BY <1>1, <1>4 DEF OpenFeed, Request, Set, ClientTypeOK
<1>5. CASE LeaveFeed(c)
  BY <1>5 DEF LeaveFeed, Set, ClientTypeOK
<1>6. CASE Reconnect(c)
  BY <1>1, <1>6 DEF Reconnect, Request, Set, ClientTypeOK
<1> QED BY <1>2, <1>3, <1>4, <1>5, <1>6

-----------------------------------------------------------------------------

LEMMA TypeInit == Init => TypeOK
<1> SUFFICES ASSUME Init PROVE TypeOK
  OBVIOUS
<1>1. 0 \in 0..MaxAttempts
  BY AttemptsAssumption DEF AttemptsAssumption
<1>2. ClientTypeOK
  BY <1>1 DEF Init, ClientTypeOK
<1> QED BY <1>2, ServerInitTypes DEF Init, TypeOK

LEMMA ServerNext ==
    ASSUME TypeOK, [Next]_vars
    PROVE  ServerTypeOK' /\ net' \in {"up", "bad"}
<1>1. ASSUME UNCHANGED limiterVars, SocketTypeOK' PROVE ServerTypeOK'
  BY <1>1 DEF limiterVars, TypeOK, ServerTypeOK, LimiterTypeOK
<1>2. ASSUME UNCHANGED socketVars PROVE SocketTypeOK'
  BY <1>2 DEF socketVars, TypeOK, ServerTypeOK, SocketTypeOK
<1>3. SocketTypeOK
  BY DEF TypeOK, ServerTypeOK
<1>4. CASE Network \/ UNCHANGED vars
  BY <1>1, <1>2, <1>4 DEF Network, vars, TypeOK
<1>5. CASE Server
  <2>1. CASE Tick \/ RedisRestarts
    BY <2>1, <1>5, TickTypes, RestartTypes DEF Server, TypeOK
  <2>2. ASSUME NEW c \in Client, NoticesLoss(c) PROVE ServerTypeOK'
    BY <2>2, <1>1, <1>3, SocketTypes DEF NoticesLoss
  <2>3. ASSUME NEW c \in Client, NEW m \in Method, HttpRequest(c, m) PROVE ServerTypeOK'
    BY <2>3, LimiterTypes DEF TypeOK
  <2>4. net' = net
    BY <1>5 DEF Server
  <2> QED BY <1>5, <2>1, <2>2, <2>3, <2>4 DEF Server, TypeOK
<1>6. ASSUME NEW c \in Client, DialOpens(c) PROVE ServerTypeOK' /\ net' = net
  BY <1>6, <1>1, <1>3, SocketTypes DEF DialOpens
<1>7. ASSUME NEW c \in Client, Drop(c) \/ IdleClose(c) PROVE ServerTypeOK' /\ net' = net
  BY <1>7, <1>1, <1>3, SocketTypes DEF Drop, IdleClose
<1>8. ASSUME NEW c \in Client, Wake(c) PROVE ServerTypeOK' /\ net' = net
  <2>1. UNCHANGED limiterVars /\ net' = net /\ (PeerGone(c, net = "bad") \/ UNCHANGED socketVars)
    BY <1>8 DEF Wake
  <2> QED BY <2>1, <1>1, <1>2, <1>3, SocketTypes
<1>9. ASSUME NEW c \in Client, DialFails(c) PROVE ServerTypeOK' /\ net' = net
  <2>1. UNCHANGED limiterVars /\ net' = net /\ (AcceptLost(c) \/ UNCHANGED socketVars)
    BY <1>9 DEF DialFails
  <2> QED BY <2>1, <1>1, <1>2, <1>3, SocketTypes
<1>10. ASSUME NEW c \in Client, Stable(c) \/ OpenFeed(c) \/ LeaveFeed(c) \/ Reconnect(c)
       PROVE  ServerTypeOK' /\ net' = net
  BY <1>10, <1>1, <1>2 DEF Stable, OpenFeed, LeaveFeed, Reconnect
<1> QED BY <1>4, <1>5, <1>6, <1>7, <1>8, <1>9, <1>10 DEF Next, Library, TypeOK

LEMMA TypeNext == TypeOK /\ [Next]_vars => TypeOK'
<1> SUFFICES ASSUME TypeOK, [Next]_vars PROVE TypeOK'
  OBVIOUS
<1>1. ClientTypeOK
  BY DEF TypeOK
<1>2. CASE UNCHANGED clientVars
  BY <1>1, <1>2, ServerNext DEF clientVars, ClientTypeOK, TypeOK
<1>3. CASE Network \/ Server \/ UNCHANGED vars
  BY <1>2, <1>3 DEF Network, Server, vars
<1>4. ASSUME NEW c \in Client, Library(c) \/ Stable(c) \/ OpenFeed(c) \/ LeaveFeed(c) \/ Reconnect(c)
      PROVE  TypeOK'
  BY <1>1, <1>4, DialTypes, WakeTypes, OtherTypes, ServerNext DEF Library, TypeOK
<1> QED BY <1>3, <1>4 DEF Next

\* Every variable of the server's doors and of the clients keeps its type: a counter
\* passes its limit by at most one, the count and its expiry go together, and a
\* stable timer runs only while its socket is open.
THEOREM TypeCorrect == Spec => []TypeOK
BY TypeInit, TypeNext, PTL DEF Spec

-----------------------------------------------------------------------------
(* BudgetHeld                                                               *)

\* The loop's dials are paid for by failures, the next one in advance; at the
\* limit only a request's own socket is left.
Paid(c) ==
    /\ redials[c] <= failureCount[c]
    /\ sock[c] = "none" /\ allow[c] /\ loop[c] = "sleeping" => redials[c] < failureCount[c]
    /\ sock[c] = "none" /\ allow[c] => failureCount[c] < MaxAttempts
    /\ redials[c] < MaxAttempts

Fields(c) == <<feed[c], sock[c], loop[c], allow[c], failureCount[c], stableTimer[c],
               wsExhausted[c], redials[c]>>

\* A step of a client, or of anything else, leaves the other clients alone.
LEMMA OtherClients ==
    ASSUME TypeOK, NEW c \in Client, NEW d \in Client \ {c},
           Library(c) \/ Stable(c) \/ OpenFeed(c) \/ LeaveFeed(c) \/ Reconnect(c)
    PROVE  Fields(d)' = Fields(d)
<1>1. ClientTypeOK
  BY DEF TypeOK
<1>2. ASSUME OnClose(c)
      PROVE  /\ feed'[d] = feed[d] /\ allow'[d] = allow[d] /\ failureCount'[d] = failureCount[d]
             /\ stableTimer'[d] = stableTimer[d] /\ wsExhausted'[d] = wsExhausted[d]
  BY <1>1, <1>2 DEF OnClose, CloseClient, Set, ClientTypeOK
<1>3. CASE DialOpens(c)
  BY <1>1, <1>3 DEF DialOpens, OnOpen, Set, Fields, ClientTypeOK
<1>4. CASE DialFails(c) \/ Drop(c)
  BY <1>1, <1>2, <1>4 DEF DialFails, Drop, Set, Fields, ClientTypeOK
<1>5. CASE Wake(c)
  <2>1. /\ feed'[d] = feed[d] /\ allow'[d] = allow[d] /\ failureCount'[d] = failureCount[d]
        /\ stableTimer'[d] = stableTimer[d] /\ wsExhausted'[d] = wsExhausted[d]
    BY <1>2, <1>5 DEF Wake
  <2>2. sock'[d] = sock[d] /\ loop'[d] = loop[d] /\ redials'[d] = redials[d]
    BY <1>1, <1>5 DEF Wake, Set, ClientTypeOK
  <2> QED BY <2>1, <2>2 DEF Fields
<1>6. CASE IdleClose(c) \/ Stable(c) \/ OpenFeed(c) \/ LeaveFeed(c) \/ Reconnect(c)
  BY <1>1, <1>6 DEF IdleClose, Stable, OpenFeed, LeaveFeed, Reconnect, Request, Set, Fields,
                    ClientTypeOK
<1> QED BY <1>3, <1>4, <1>5, <1>6 DEF Library

LEMMA OnClosePays ==
    ASSUME ClientTypeOK, NEW c \in Client, OnClose(c), Paid(c)
    PROVE  /\ redials[c] <= failureCount'[c]
           /\ allow'[c] => redials[c] < failureCount'[c] /\ failureCount'[c] < MaxAttempts
<1>1. /\ failureCount[c] \in 0..MaxAttempts /\ redials[c] \in 0..MaxAttempts
      /\ redials[c] <= failureCount[c] /\ redials[c] < MaxAttempts
  BY DEF ClientTypeOK, Paid
<1>2. failureCount'[c] = UpTo(failureCount[c])
  BY DEF OnClose, Set, ClientTypeOK
<1>3. failureCount'[c] >= MaxAttempts => allow'[c] = FALSE
  BY DEF OnClose, CloseClient, Set, ClientTypeOK
<1> QED BY <1>1, <1>2, <1>3, AttemptsAssumption DEF UpTo, AttemptsAssumption

LEMMA DialPaid ==
    ASSUME ClientTypeOK, NEW c \in Client, Paid(c), DialOpens(c) \/ DialFails(c) \/ Drop(c)
    PROVE  Paid(c)'
<1>1. CASE DialOpens(c)
  <2>1. sock'[c] = "open" /\ redials'[c] = redials[c] /\ failureCount'[c] = failureCount[c]
    BY <1>1 DEF DialOpens, OnOpen, Set, ClientTypeOK
  <2> QED BY <2>1 DEF Paid
<1>2. CASE DialFails(c) \/ Drop(c)
  <2>1. redials'[c] = redials[c] /\ OnClose(c)
    BY <1>2 DEF DialFails, Drop
  <2> QED BY <2>1, OnClosePays DEF Paid
<1> QED BY <1>1, <1>2

LEMMA WakePaid ==
    ASSUME ClientTypeOK, NEW c \in Client, Paid(c), Wake(c)
    PROVE  Paid(c)'
<1>1. redials[c] \in 0..MaxAttempts /\ failureCount[c] \in 0..MaxAttempts
  BY DEF ClientTypeOK
<1>2. CASE ~allow[c]
  BY <1>2 DEF Wake, Paid
<1>3. ASSUME allow[c], allow'[c] PROVE Paid(c)'
  <2>1. sock'[c] = "dialing" /\ redials'[c] = UpTo(redials[c])
    BY <1>3 DEF Wake, Set, ClientTypeOK
  <2>2. redials[c] < failureCount'[c] /\ failureCount'[c] < MaxAttempts
    <3>1. CASE sock[c] = "open"
      BY <1>3, <3>1, OnClosePays DEF Wake
    <3>2. CASE sock[c] # "open"
      BY <1>3, <3>2 DEF Wake, Paid, ClientTypeOK
    <3> QED BY <3>1, <3>2
  <2>3. failureCount'[c] \in Nat
    <3>1. failureCount' \in [Client -> 0..MaxAttempts]
      BY WakeTypes DEF ClientTypeOK
    <3> QED BY <3>1, AttemptsAssumption DEF AttemptsAssumption
  <2> QED BY <1>1, <2>1, <2>2, <2>3, AttemptsAssumption DEF Paid, UpTo, AttemptsAssumption
<1>4. ASSUME allow[c], ~allow'[c] PROVE Paid(c)'
  <2>1. redials'[c] = redials[c]
    BY <1>4 DEF Wake
  <2>2. redials[c] <= failureCount'[c]
    BY <1>4, OnClosePays DEF Wake
  <2> QED BY <1>4, <2>1, <2>2 DEF Paid
<1> QED BY <1>2, <1>3, <1>4

LEMMA OtherPaid ==
    ASSUME ClientTypeOK, NEW c \in Client, Paid(c),
           IdleClose(c) \/ Stable(c) \/ OpenFeed(c) \/ LeaveFeed(c) \/ Reconnect(c)
    PROVE  Paid(c)'
<1>1. /\ failureCount[c] \in 0..MaxAttempts /\ redials[c] \in 0..MaxAttempts
      /\ MaxAttempts \in Nat \ {0}
  BY AttemptsAssumption DEF ClientTypeOK, AttemptsAssumption
<1>2. CASE IdleClose(c)
  <2>1. redials'[c] = redials[c] /\ allow'[c] = FALSE /\ failureCount'[c] = UpTo(failureCount[c])
    BY <1>2 DEF IdleClose, Set, ClientTypeOK
  <2> QED BY <1>1, <2>1 DEF Paid, UpTo
<1>3. CASE Stable(c)
  <2>1. redials'[c] = 0 /\ failureCount'[c] = 0 /\ sock'[c] = "open"
    BY <1>3 DEF Stable, Set, ClientTypeOK
  <2> QED BY <1>1, <2>1 DEF Paid
<1>4. CASE OpenFeed(c)
  <2>1. redials'[c] = 0 /\ failureCount'[c] = failureCount[c] /\ sock'[c] # "none"
    BY <1>4 DEF OpenFeed, Request, Set, ClientTypeOK
  <2> QED BY <1>1, <2>1 DEF Paid
<1>5. CASE LeaveFeed(c)
  BY <1>5 DEF LeaveFeed, Paid
<1>6. CASE Reconnect(c)
  <2>1. redials'[c] = 0 /\ failureCount'[c] = 0 /\ sock'[c] # "none"
    BY <1>6 DEF Reconnect, Request, Set, ClientTypeOK
  <2> QED BY <1>1, <2>1 DEF Paid
<1> QED BY <1>2, <1>3, <1>4, <1>5, <1>6

AllPaid == \A c \in Client : Paid(c)

LEMMA PaidInit == Init => AllPaid
<1> SUFFICES ASSUME Init, NEW c \in Client PROVE Paid(c)
  BY DEF AllPaid
<1>1. redials[c] = 0 /\ failureCount[c] = 0 /\ loop[c] = "none"
  BY DEF Init
<1> QED BY <1>1, AttemptsAssumption DEF Paid, AttemptsAssumption

LEMMA PaidNext == TypeOK /\ AllPaid /\ [Next]_vars => AllPaid'
<1> SUFFICES ASSUME TypeOK, AllPaid, [Next]_vars, NEW d \in Client PROVE Paid(d)'
  BY DEF AllPaid
<1>1. ClientTypeOK /\ Paid(d)
  BY DEF TypeOK, AllPaid
<1>2. CASE Network \/ Server \/ UNCHANGED vars
  BY <1>1, <1>2 DEF Network, Server, vars, clientVars, Paid
<1>3. ASSUME NEW c \in Client, Library(c) \/ Stable(c) \/ OpenFeed(c) \/ LeaveFeed(c) \/ Reconnect(c)
      PROVE  Paid(d)'
  <2>1. CASE c = d
    BY <1>1, <1>3, <2>1, DialPaid, WakePaid, OtherPaid DEF Library
  <2>2. CASE c # d
    <3>1. Fields(d)' = Fields(d)
      BY <1>3, <2>2, OtherClients
    <3> QED BY <1>1, <3>1 DEF Fields, Paid
  <2> QED BY <2>1, <2>2
<1> QED BY <1>2, <1>3 DEF Next

\* For every budget and any number of tabs: however sockets open, flap, are refused
\* or are left and re-entered, a retry loop dials fewer than MaxAttempts times
\* before a stable connection or a user's act.
THEOREM BudgetNeverExceeded == Spec => []BudgetHeld
<1>1. AllPaid => BudgetHeld
  BY DEF AllPaid, Paid, BudgetHeld
<1> QED BY <1>1, PaidInit, PaidNext, TypeCorrect, PTL DEF Spec

-----------------------------------------------------------------------------
(* NeverSilent                                                              *)

\* A subscription that is on has a socket or a loop that will dial; one that has
\* ended was ended by a client that gave up and has not dialed since.
Audible(c) ==
    /\ feed[c] = "on" => allow[c] /\ (sock[c] # "none" \/ loop[c] = "sleeping")
    /\ feed[c] = "ended" => wsExhausted[c] /\ sock[c] = "none" /\ ~allow[c]

LEMMA OnCloseAudible ==
    ASSUME ClientTypeOK, NEW c \in Client, OnClose(c)
    PROVE  \/ feed'[c] = feed[c] /\ allow'[c] = allow[c] /\ wsExhausted'[c] = wsExhausted[c]
           \/ feed'[c] # "on" /\ wsExhausted'[c] /\ ~allow'[c]
BY DEF OnClose, CloseClient, Set, ClientTypeOK

LEMMA ActorAudible ==
    ASSUME ClientTypeOK, NEW c \in Client, Audible(c),
           Library(c) \/ Stable(c) \/ OpenFeed(c) \/ LeaveFeed(c) \/ Reconnect(c)
    PROVE  Audible(c)'
<1>1. CASE DialOpens(c)
  <2>1. /\ sock[c] = "dialing" /\ sock'[c] = "open"
        /\ feed' = feed /\ allow' = allow
    BY <1>1 DEF DialOpens, Set, ClientTypeOK
  <2> QED BY <2>1 DEF Audible
<1>2. CASE DialFails(c)
  <2>1. sock[c] = "dialing" /\ sock'[c] = "none" /\ loop'[c] = "sleeping"
    BY <1>2 DEF DialFails, Set, ClientTypeOK
  <2> QED BY <1>2, <2>1, OnCloseAudible DEF DialFails, Audible
<1>3. CASE Drop(c)
  <2>1. sock[c] = "open" /\ sock'[c] = "none" /\ (feed'[c] = "on" => loop'[c] = "sleeping")
    BY <1>3 DEF Drop, Set, ClientTypeOK
  <2> QED BY <1>3, <2>1, OnCloseAudible DEF Drop, Audible
<1>4. CASE Wake(c)
  <2>1. CASE ~allow[c]
    BY <1>4, <2>1 DEF Wake, Audible
  <2>2. CASE allow[c] /\ sock[c] = "open"
    <3>1. OnClose(c) /\ (sock'[c] = IF allow'[c] THEN "dialing" ELSE "none")
      BY <1>4, <2>2 DEF Wake, Set, ClientTypeOK
    <3> QED BY <2>2, <3>1, OnCloseAudible DEF Audible
  <2>3. CASE allow[c] /\ sock[c] # "open"
    <3>1. sock'[c] = "dialing" /\ feed' = feed /\ allow' = allow
      BY <1>4, <2>3 DEF Wake, Set, ClientTypeOK
    <3> QED BY <2>3, <3>1 DEF Audible
  <2> QED BY <2>1, <2>2, <2>3
<1>5. CASE IdleClose(c)
  <2>1. sock[c] = "open" /\ feed[c] # "on" /\ feed' = feed
    BY <1>5 DEF IdleClose
  <2> QED BY <2>1 DEF Audible
<1>6. CASE Stable(c)
  <2>1. sock[c] = "open" /\ sock' = sock /\ feed' = feed /\ allow' = allow
    BY <1>6 DEF Stable, ClientTypeOK
  <2> QED BY <2>1 DEF Audible
<1>7. CASE OpenFeed(c) \/ Reconnect(c)
  <2>1. feed'[c] = "on" /\ allow'[c] = TRUE /\ sock'[c] # "none"
    BY <1>7 DEF OpenFeed, Reconnect, Request, Set, ClientTypeOK
  <2> QED BY <2>1 DEF Audible
<1>8. CASE LeaveFeed(c)
  <2>1. feed'[c] = "off"
    BY <1>8 DEF LeaveFeed, Set, ClientTypeOK
  <2> QED BY <2>1 DEF Audible
<1> QED BY <1>1, <1>2, <1>3, <1>4, <1>5, <1>6, <1>7, <1>8 DEF Library

AllAudible == \A c \in Client : Audible(c)

LEMMA AudibleNext == TypeOK /\ AllAudible /\ [Next]_vars => AllAudible'
<1> SUFFICES ASSUME TypeOK, AllAudible, [Next]_vars, NEW d \in Client PROVE Audible(d)'
  BY DEF AllAudible
<1>1. ClientTypeOK /\ Audible(d)
  BY DEF TypeOK, AllAudible
<1>2. CASE Network \/ Server \/ UNCHANGED vars
  BY <1>1, <1>2 DEF Network, Server, vars, clientVars, Audible
<1>3. ASSUME NEW c \in Client, Library(c) \/ Stable(c) \/ OpenFeed(c) \/ LeaveFeed(c) \/ Reconnect(c)
      PROVE  Audible(d)'
  <2>1. CASE c = d
    BY <1>1, <1>3, <2>1, ActorAudible
  <2>2. CASE c # d
    <3>1. Fields(d)' = Fields(d)
      BY <1>3, <2>2, OtherClients
    <3> QED BY <1>1, <3>1 DEF Fields, Audible
  <2> QED BY <2>1, <2>2
<1> QED BY <1>2, <1>3 DEF Next

\* In every reachable state a room view without a live feed shows the banner or
\* has a socket or a dial to come.
THEOREM FeedNeverSilent == Spec => []NeverSilent
<1>1. Init => AllAudible
  BY DEF Init, AllAudible, Audible
<1>2. TypeOK /\ AllAudible => NeverSilent
  BY DEF TypeOK, ClientTypeOK, AllAudible, Audible, NeverSilent
<1> QED BY <1>1, <1>2, AudibleNext, TypeCorrect, PTL DEF Spec

-----------------------------------------------------------------------------
(* SocketsCounted                                                           *)

\* What a step may do to the sockets of c's address and to their count.
Gains(c, s) ==
    /\ s \notin Sockets(clientIp[c])
    /\ Sockets(clientIp[c])' = Sockets(clientIp[c]) \union {s}
    /\ Enabled => wsConnsByIp[clientIp[c]] < MaxSockets
    /\ Connected(c)

Loses(c, s) ==
    /\ s \in Sockets(clientIp[c])
    /\ Sockets(clientIp[c])' = Sockets(clientIp[c]) \ {s}
    /\ wsConnsByIp' = Closed(wsConnsByIp, c)

Vanishes(c, s, t) ==
    /\ s \in Sockets(clientIp[c]) /\ t \notin Sockets(clientIp[c])
    /\ Sockets(clientIp[c])' = (Sockets(clientIp[c]) \ {s}) \union {t}
    /\ UNCHANGED wsConnsByIp

LEMMA SocketsFinite == \A a : IsFiniteSet(Sockets(a))
<1>1. IsFiniteSet(0..MaxLost)
  BY FS_Interval, ConfigAssumption DEF ConfigAssumption
<1>2. IsFiniteSet(Client \X (0..MaxLost))
  BY <1>1, FS_Product, ClientAssumption DEF ClientAssumption
<1>3. \A a : Sockets(a) \subseteq Client \X (0..MaxLost)
  BY DEF Sockets
<1> QED BY <1>2, <1>3, FS_Subset

LEMMA CountKept ==
    ASSUME TypeOK, SocketsCounted, NEW c \in Client,
           \A a \in Address \ {clientIp[c]} : Sockets(a)' = Sockets(a),
           \/ \E s : Gains(c, s) \/ Loses(c, s)
           \/ \E s, t : Vanishes(c, s, t)
           \/ Sockets(clientIp[c])' = Sockets(clientIp[c]) /\ UNCHANGED wsConnsByIp
    PROVE  SocketsCounted'
<1> DEFINE a == clientIp[c]
           n == wsConnsByIp[a]
<1>1. a \in Address /\ wsConnsByIp \in [Address -> Nat]
  BY ClientIpAssumption DEF ClientIpAssumption, TypeOK, ServerTypeOK, SocketTypeOK
<1>2. IsFiniteSet(Sockets(a)) /\ Cardinality(Sockets(a)) = n /\ n \in Nat
      /\ MaxSockets \in Nat \ {0} /\ (Enabled => n <= MaxSockets)
  BY <1>1, SocketsFinite, ConfigAssumption DEF SocketsCounted, ConfigAssumption
<1> DEFINE Counted == /\ Cardinality(Sockets(a)') = wsConnsByIp'[a]
                      /\ Enabled => wsConnsByIp'[a] <= MaxSockets
                      /\ \A b \in Address \ {a} : wsConnsByIp'[b] = wsConnsByIp[b]
<1>3. Counted
  <2>1. ASSUME NEW s, Gains(c, s) PROVE Counted
    <3>1. Cardinality(Sockets(a)') = n + 1
      BY <1>2, <2>1, FS_AddElement DEF Gains
    <3> QED BY <1>1, <1>2, <2>1, <3>1 DEF Gains, Connected
  <2>2. ASSUME NEW s, Loses(c, s) PROVE Counted
    <3>1. Cardinality(Sockets(a)') = n - 1
      BY <1>2, <2>2, FS_RemoveElement DEF Loses
    <3>2. Cardinality(Sockets(a)') \in Nat
      <4>1. IsFiniteSet(Sockets(a)')
        BY <1>2, <2>2, FS_RemoveElement DEF Loses
      <4> QED BY <4>1, FS_CardinalityType
    <3>3. wsConnsByIp' = [wsConnsByIp EXCEPT ![a] = IF n <= 1 THEN 0 ELSE n - 1]
      BY <2>2 DEF Loses, Closed
    <3>4. wsConnsByIp'[a] = (IF n <= 1 THEN 0 ELSE n - 1)
          /\ \A b \in Address \ {a} : wsConnsByIp'[b] = wsConnsByIp[b]
      BY <1>1, <3>3
    <3> HIDE DEF n, a
    <3>5. n = Cardinality(Sockets(a)') + 1
      BY <1>2, <3>1, <3>2
    <3> QED BY <1>2, <3>2, <3>4, <3>5
  <2>3. ASSUME NEW s, NEW t, Vanishes(c, s, t) PROVE Counted
    <3> DEFINE S == Sockets(a) \ {s}
    <3>1. IsFiniteSet(S) /\ Cardinality(S) = n - 1 /\ t \notin S
      BY <1>2, <2>3, FS_RemoveElement DEF Vanishes
    <3>2. Cardinality(S \union {t}) = Cardinality(S) + 1
      BY <3>1, FS_AddElement
    <3>3. Sockets(a)' = S \union {t} /\ UNCHANGED wsConnsByIp
      BY <2>3 DEF Vanishes
    <3> HIDE DEF S, n
    <3>4. Cardinality(Sockets(a)') = n
      BY <1>2, <3>1, <3>2, <3>3
    <3> QED BY <1>2, <3>3, <3>4 DEF n
  <2>4. CASE Sockets(a)' = Sockets(a) /\ UNCHANGED wsConnsByIp
    BY <1>2, <2>4
  <2> QED BY <2>1, <2>2, <2>3, <2>4
<1>4. ASSUME NEW b \in Address PROVE (wsConnsByIp[b] = Cardinality(Sockets(b))
                                     /\ (Enabled => wsConnsByIp[b] <= MaxSockets))'
  <2>1. CASE b = a
    BY <1>3, <2>1
  <2>2. CASE b # a
    <3>1. Sockets(b)' = Sockets(b) /\ wsConnsByIp'[b] = wsConnsByIp[b]
      BY <1>3, <2>2
    <3> QED BY <3>1 DEF SocketsCounted
  <2> QED BY <2>1, <2>2
<1> QED BY <1>4 DEF SocketsCounted

\* Which sockets there are depends on who has an open one and on what was lost.
LEMMA SocketsSame ==
    ASSUME TypeOK, NEW c \in Client,
           \A d \in Client \ {c} : (sock'[d] = "open" <=> sock[d] = "open") /\ lost'[d] = lost[d]
    PROVE  /\ \A a \in Address \ {clientIp[c]} : Sockets(a)' = Sockets(a)
           /\ \A s \in Sockets(clientIp[c])' : s[1] # c => s \in Sockets(clientIp[c])
           /\ \A s \in Sockets(clientIp[c]) : s[1] # c => s \in Sockets(clientIp[c])'
           /\ (sock'[c] = "open" <=> sock[c] = "open") /\ lost'[c] = lost[c]
                => Sockets(clientIp[c])' = Sockets(clientIp[c])
BY DEF Sockets

\* The open socket of c, and the i-th that vanished.
LEMMA SocketsOf ==
    ASSUME NEW c \in Client, NEW i \in 0..MaxLost
    PROVE  /\ <<c, i>> \in Sockets(clientIp[c]) <=>
                 IF i = 0 THEN sock[c] = "open" ELSE i <= lost[c]
           /\ <<c, i>> \in Sockets(clientIp[c])' <=>
                 IF i = 0 THEN sock'[c] = "open" ELSE i <= lost'[c]
BY DEF Sockets

LEMMA SocketsArePairs ==
    /\ \A a : \A s \in Sockets(a) : \E d \in Client, i \in 0..MaxLost : s = <<d, i>>
    /\ \A a : \A s \in Sockets(a)' : \E d \in Client, i \in 0..MaxLost : s = <<d, i>>
BY DEF Sockets

\* A dial that is answered adds a socket.
LEMMA OpenGains ==
    ASSUME TypeOK, NEW c \in Client, DialOpens(c)
    PROVE  Gains(c, <<c, 0>>)
<1>1. sock[c] # "open" /\ sock'[c] = "open" /\ lost' = lost
      /\ \A d \in Client \ {c} : sock'[d] = sock[d]
  BY DEF DialOpens, Set, TypeOK, ClientTypeOK
<1>2. 0 \in 0..MaxLost
  BY ConfigAssumption DEF ConfigAssumption
<1>3. Sockets(clientIp[c])' = Sockets(clientIp[c]) \union {<<c, 0>>}
  <2>1. ASSUME NEW d \in Client, NEW i \in 0..MaxLost
        PROVE  <<d, i>> \in Sockets(clientIp[c])' <=>
                  <<d, i>> \in Sockets(clientIp[c]) \/ <<d, i>> = <<c, 0>>
    BY <1>1, SocketsSame, SocketsOf
  <2> QED BY <1>1, <1>2, <2>1, SocketsOf, SocketsArePairs
<1> QED BY <1>1, <1>2, <1>3, SocketsOf DEF Gains, DialOpens, Admits

\* An open socket whose end is gone is counted down, or vanishes.
LEMMA GoneLoses ==
    ASSUME TypeOK, NEW c \in Client, PeerGone(c, net = "bad"), sock[c] = "open", sock'[c] # "open",
           \A d \in Client \ {c} : sock'[d] = sock[d]
    PROVE  Loses(c, <<c, 0>>) \/ Vanishes(c, <<c, 0>>, <<c, lost[c] + 1>>)
<1>1. MaxLost \in Nat /\ 0 \in 0..MaxLost /\ lost \in [Client -> 0..MaxLost]
  BY ConfigAssumption DEF ConfigAssumption, TypeOK, ServerTypeOK, SocketTypeOK
<1>2. <<c, 0>> \in Sockets(clientIp[c])
  BY <1>1, SocketsOf
<1>3. CASE wsConnsByIp' = Closed(wsConnsByIp, c) /\ UNCHANGED lost
  <2>1. ASSUME NEW d \in Client, NEW i \in 0..MaxLost
        PROVE  <<d, i>> \in Sockets(clientIp[c])' <=>
                  <<d, i>> \in Sockets(clientIp[c]) /\ <<d, i>> # <<c, 0>>
    BY <1>3, SocketsSame, SocketsOf
  <2>2. Sockets(clientIp[c])' = Sockets(clientIp[c]) \ {<<c, 0>>}
    BY <2>1, SocketsArePairs
  <2> QED BY <1>2, <1>3, <2>2 DEF Loses
<1>4. CASE lost[c] < MaxLost /\ lost' = [lost EXCEPT ![c] = @ + 1] /\ UNCHANGED wsConnsByIp
  <2> DEFINE j == lost[c] + 1
  <2>1. j \in 0..MaxLost /\ j # 0 /\ lost'[c] = j /\ lost[c] \in Nat
        /\ \A d \in Client \ {c} : lost'[d] = lost[d]
    BY <1>1, <1>4
  <2>2. <<c, j>> \notin Sockets(clientIp[c])
    BY <2>1, SocketsOf
  <2>3. ASSUME NEW d \in Client, NEW i \in 0..MaxLost
        PROVE  <<d, i>> \in Sockets(clientIp[c])' <=>
                  \/ <<d, i>> \in Sockets(clientIp[c]) /\ <<d, i>> # <<c, 0>>
                  \/ <<d, i>> = <<c, j>>
    <3>1. CASE d # c
      BY <2>1, <3>1, SocketsSame
    <3>2. CASE d = c /\ i = 0
      BY <2>1, <3>2, SocketsOf
    <3>3. CASE d = c /\ i # 0
      <4>1. i <= lost'[c] <=> i <= lost[c] \/ i = j
        BY <2>1
      <4> QED BY <3>3, <4>1, SocketsOf
    <3> QED BY <3>1, <3>2, <3>3
  <2>4. Sockets(clientIp[c])' = (Sockets(clientIp[c]) \ {<<c, 0>>}) \union {<<c, j>>}
    <3>1. <<c, j>> \in Sockets(clientIp[c])'
      BY <2>1, <2>3
    <3> QED BY <2>3, <3>1, SocketsArePairs
  <2> QED BY <1>2, <1>4, <2>2, <2>4 DEF Vanishes
<1> QED BY <1>3, <1>4 DEF PeerGone

\* A handshake the client never hears of adds a vanished socket.
LEMMA AcceptGains ==
    ASSUME TypeOK, NEW c \in Client, AcceptLost(c),
           \A d \in Client : sock'[d] = "open" <=> sock[d] = "open"
    PROVE  Gains(c, <<c, lost[c] + 1>>)
<1> DEFINE j == lost[c] + 1
<1>1. MaxLost \in Nat /\ lost \in [Client -> 0..MaxLost]
  BY ConfigAssumption DEF ConfigAssumption, TypeOK, ServerTypeOK, SocketTypeOK
<1>2. lost[c] < MaxLost /\ lost' = [lost EXCEPT ![c] = @ + 1]
  BY DEF AcceptLost
<1>3. j \in 0..MaxLost /\ j # 0 /\ lost'[c] = j /\ lost[c] \in Nat
      /\ \A d \in Client \ {c} : lost'[d] = lost[d]
  BY <1>1, <1>2
<1>4. <<c, j>> \notin Sockets(clientIp[c])
  BY <1>3, SocketsOf
<1>5. ASSUME NEW d \in Client, NEW i \in 0..MaxLost
      PROVE  <<d, i>> \in Sockets(clientIp[c])' <=>
                <<d, i>> \in Sockets(clientIp[c]) \/ <<d, i>> = <<c, j>>
  <2>1. CASE d # c
    BY <1>3, <2>1, SocketsSame
  <2>2. CASE d = c /\ i = 0
    BY <1>3, <2>2, SocketsOf
  <2>3. CASE d = c /\ i # 0
    <3>1. i <= lost'[c] <=> i <= lost[c] \/ i = j
      BY <1>3
    <3> QED BY <2>3, <3>1, SocketsOf
  <2> QED BY <2>1, <2>2, <2>3
<1>6. Sockets(clientIp[c])' = Sockets(clientIp[c]) \union {<<c, j>>}
  <2>1. <<c, j>> \in Sockets(clientIp[c])'
    BY <1>3, <1>5
  <2> QED BY <1>5, <2>1, SocketsArePairs
<1> QED BY <1>4, <1>6 DEF Gains, AcceptLost, Admits

\* A vanished socket the kernel gives up is counted down.
LEMMA NoticeLoses ==
    ASSUME TypeOK, NEW c \in Client, NoticesLoss(c), UNCHANGED sock
    PROVE  Loses(c, <<c, lost[c]>>)
<1>1. MaxLost \in Nat /\ lost[c] \in 0..MaxLost /\ lost[c] # 0 /\ lost'[c] = lost[c] - 1
      /\ \A d \in Client \ {c} : lost'[d] = lost[d]
  BY ConfigAssumption DEF ConfigAssumption, TypeOK, ServerTypeOK, SocketTypeOK, NoticesLoss
<1>2. ASSUME NEW d \in Client, NEW i \in 0..MaxLost
      PROVE  <<d, i>> \in Sockets(clientIp[c])' <=>
                <<d, i>> \in Sockets(clientIp[c]) /\ <<d, i>> # <<c, lost[c]>>
  <2>1. CASE d # c
    BY <1>1, <2>1, SocketsSame
  <2>2. CASE d = c
    <3>1. i <= lost'[c] <=> i <= lost[c] /\ i # lost[c]
      BY <1>1
    <3> QED BY <1>1, <2>2, <3>1, SocketsOf
  <2> QED BY <2>1, <2>2
<1>3. Sockets(clientIp[c])' = Sockets(clientIp[c]) \ {<<c, lost[c]>>}
  BY <1>2, SocketsArePairs
<1> QED BY <1>1, <1>3, SocketsOf DEF Loses, NoticesLoss

LEMMA SocketsNext == TypeOK /\ SocketsCounted /\ [Next]_vars => SocketsCounted'
<1> SUFFICES ASSUME TypeOK, SocketsCounted, [Next]_vars PROVE SocketsCounted'
  OBVIOUS
<1>1. ASSUME UNCHANGED <<wsConnsByIp, lost>>,
             \A c \in Client : sock'[c] = "open" <=> sock[c] = "open"
      PROVE  SocketsCounted'
  <2>1. \A a \in Address : Sockets(a)' = Sockets(a)
    BY <1>1 DEF Sockets
  <2> QED BY <1>1, <2>1 DEF SocketsCounted
<1>2. CASE Network \/ UNCHANGED vars
  BY <1>1, <1>2 DEF Network, vars, clientVars, socketVars
<1>3. CASE Server
  <2>1. CASE \E c \in Client : NoticesLoss(c)
    <3>1. PICK c \in Client : NoticesLoss(c) /\ UNCHANGED sock
      BY <1>3, <2>1 DEF Server, clientVars
    <3>2. \A d \in Client \ {c} : lost'[d] = lost[d]
      BY <3>1 DEF NoticesLoss, TypeOK, ServerTypeOK, SocketTypeOK
    <3> QED BY <3>1, <3>2, NoticeLoses, SocketsSame, CountKept
  <2>2. CASE ~\E c \in Client : NoticesLoss(c)
    BY <1>1, <1>3, <2>2 DEF Server, Tick, RedisRestarts, HttpRequest, socketVars, clientVars
  <2> QED BY <2>1, <2>2
<1>4. ASSUME NEW c \in Client, Library(c) \/ Stable(c) \/ OpenFeed(c) \/ LeaveFeed(c) \/ Reconnect(c)
      PROVE  SocketsCounted'
  <2>1. sock \in [Client -> {"none", "dialing", "open"}] /\ lost \in [Client -> 0..MaxLost]
    BY DEF TypeOK, ClientTypeOK, ServerTypeOK, SocketTypeOK
  <2>2. \A d \in Client \ {c} : sock'[d] = sock[d]
    BY <1>4, OtherClients DEF Fields
  <2>3. ASSUME PeerGone(c, net = "bad"), sock[c] = "open", sock'[c] # "open" PROVE SocketsCounted'
    <3>1. \A d \in Client \ {c} : lost'[d] = lost[d]
      BY <2>1, <2>3 DEF PeerGone
    <3> QED BY <2>2, <2>3, <3>1, GoneLoses, SocketsSame, CountKept
  <2>4. CASE DialOpens(c)
    <3>1. lost' = lost
      BY <2>4 DEF DialOpens
    <3> QED BY <2>2, <2>4, <3>1, OpenGains, SocketsSame, CountKept
  <2>5. CASE Stable(c) \/ OpenFeed(c) \/ LeaveFeed(c) \/ Reconnect(c)
    <3>1. sock'[c] = "open" <=> sock[c] = "open"
      BY <2>1, <2>5 DEF Stable, OpenFeed, LeaveFeed, Reconnect, Request, Set
    <3>2. UNCHANGED <<wsConnsByIp, lost>>
      BY <2>5 DEF Stable, OpenFeed, LeaveFeed, Reconnect, socketVars
    <3> QED BY <1>1, <2>2, <3>1, <3>2
  <2>9. CASE DialFails(c)
    <3>1. \A d \in Client : sock'[d] = "open" <=> sock[d] = "open"
      BY <2>1, <2>2, <2>9 DEF DialFails, Set
    <3>2. CASE UNCHANGED socketVars
      BY <1>1, <3>1, <3>2 DEF socketVars
    <3>3. CASE AcceptLost(c)
      <4>1. \A d \in Client \ {c} : lost'[d] = lost[d]
        BY <2>1, <3>3 DEF AcceptLost
      <4> QED BY <3>1, <3>3, <4>1, AcceptGains, SocketsSame, CountKept
    <3> QED BY <2>9, <3>2, <3>3 DEF DialFails
  <2>6. CASE Drop(c) \/ IdleClose(c)
    <3>1. sock[c] = "open" /\ sock'[c] # "open" /\ PeerGone(c, net = "bad")
      BY <2>1, <2>6 DEF Drop, IdleClose, Set
    <3> QED BY <2>3, <3>1
  <2>7. CASE Wake(c) /\ sock[c] = "open" /\ allow[c]
    <3>1. sock'[c] # "open" /\ PeerGone(c, net = "bad")
      BY <2>1, <2>7 DEF Wake, Set
    <3> QED BY <2>3, <2>7, <3>1
  <2>8. CASE Wake(c) /\ ~(sock[c] = "open" /\ allow[c])
    <3>1. sock'[c] = "open" <=> sock[c] = "open"
      BY <2>1, <2>8 DEF Wake, Set
    <3>2. UNCHANGED <<wsConnsByIp, lost>>
      BY <2>8 DEF Wake, socketVars
    <3> QED BY <1>1, <2>2, <3>1, <3>2
  <2> QED BY <1>4, <2>4, <2>5, <2>6, <2>7, <2>8, <2>9 DEF Library
<1> QED BY <1>2, <1>3, <1>4 DEF Next

\* For any clients, addresses and cap: the server's count of an address is at every
\* moment the number of its sockets, and the cap holds.
THEOREM SocketsAreCounted == Spec => []SocketsCounted
<1>1. Init => SocketsCounted
  <2> SUFFICES ASSUME Init, NEW a \in Address
               PROVE  wsConnsByIp[a] = Cardinality(Sockets(a))
                      /\ (Enabled => wsConnsByIp[a] <= MaxSockets)
    BY DEF SocketsCounted
  <2>1. Sockets(a) = {}
    BY ConfigAssumption DEF Init, ServerInit, Sockets, ConfigAssumption
  <2>2. wsConnsByIp[a] = 0 /\ MaxSockets \in Nat
    BY ConfigAssumption DEF Init, ServerInit, ConfigAssumption
  <2> QED BY <2>1, <2>2, FS_EmptySet
<1> QED BY <1>1, SocketsNext, TypeCorrect, PTL DEF Spec
=============================================================================
