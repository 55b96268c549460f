------------------------------- MODULE ApiServer -------------------------------
(***************************************************************************)
(* The doors of the API server, per client address: the fixed-window rate   *)
(* limit of HTTP requests, kept in Redis, and the cap on WebSockets, kept in *)
(* the process.                                                             *)
(*                                                                          *)
(* Time is counted in ticks, and a window is WindowTicks of them.  A socket *)
(* whose peer vanished stays counted until a write to it goes unanswered:    *)
(* server.ts sets no keep-alive and sends no ping, so in a quiet room for    *)
(* good.                                                                    *)
(***************************************************************************)
EXTENDS Naturals

CONSTANTS
    Client,         \* browser tabs
    Address,        \* what clientIp can return
    clientIp,       \* the address each client is known by
    MaxGet,         \* RATE_LIMIT_MAX
    MaxPost,        \* RATE_LIMIT_MUTATION_MAX
    WindowTicks,    \* RATE_LIMIT_WINDOW_MS
    MaxSockets,     \* RATE_LIMIT_WS_MAX_PER_IP
    Enabled,        \* RATE_LIMIT_ENABLED
    Method,         \* HTTP methods the clients use
    MaxLost         \* bound on the vanished sockets of a client

ASSUME ClientIpAssumption == clientIp \in [Client -> Address]
ASSUME MethodAssumption == Method \subseteq {"GET", "POST", "OPTIONS"}
ASSUME ConfigAssumption ==
    /\ MaxGet \in Nat \ {0} /\ MaxPost \in Nat \ {0} /\ WindowTicks \in Nat \ {0}
    /\ MaxSockets \in Nat \ {0} /\ Enabled \in BOOLEAN /\ MaxLost \in Nat

VARIABLES
    hits,           \* the Redis counters, one per bucket and address (0: no key)
    ttl,            \* ticks until each expires
    refused,        \* addresses whose last request got a 429
    wsConnsByIp,    \* the process's socket counts
    lost            \* sockets of each client that the server has not yet seen close

limiterVars == <<hits, ttl, refused>>
socketVars == <<wsConnsByIp, lost>>

Bucket == {"mut", "qry"}
Key == Bucket \X Address

\* A counter is not let past the first refusal: more of them change nothing.
MaxOf(bucket) == IF bucket = "mut" THEN MaxPost ELSE MaxGet

LimiterTypeOK ==
    /\ hits \in [Key -> Nat] /\ \A k \in Key : hits[k] <= MaxOf(k[1]) + 1
    /\ ttl \in [Key -> 0..WindowTicks]
    /\ \A k \in Key : hits[k] = 0 <=> ttl[k] = 0
    /\ refused \subseteq Address

SocketTypeOK ==
    /\ wsConnsByIp \in [Address -> Nat]
    /\ lost \in [Client -> 0..MaxLost]

ServerTypeOK == LimiterTypeOK /\ SocketTypeOK

ServerInit ==
    /\ hits = [k \in Key |-> 0]
    /\ ttl = [k \in Key |-> 0]
    /\ refused = {}
    /\ wsConnsByIp = [a \in Address |-> 0]
    /\ lost = [c \in Client |-> 0]

-----------------------------------------------------------------------------
(* HTTP                                                                     *)

\* GET queries have their bucket; POST carries mutations and the web client's
\* queries.  Preflights and probes pass unlimited.
Limited(method) == method \in {"GET", "POST"}
BucketOf(method) == IF method = "POST" THEN "mut" ELSE "qry"

\* Mutant: every hit restarts the window.
CountSlides(k) ==
    /\ hits' = [hits EXCEPT ![k] = IF @ <= MaxOf(k[1]) THEN @ + 1 ELSE @]
    /\ ttl' = [ttl EXCEPT ![k] = WindowTicks]

\* The Lua script: INCR, and PEXPIRE by the hit that created the key.
Count(k) ==
    /\ hits' = [hits EXCEPT ![k] = IF @ <= MaxOf(k[1]) THEN @ + 1 ELSE @]
    /\ ttl' = IF hits[k] = 0 THEN [ttl EXCEPT ![k] = WindowTicks] ELSE ttl

\* checkRateLimit, and the middleware's answer.
CheckRateLimit(k) ==
    /\ Enabled
    /\ Count(k)
    /\ refused' = IF hits'[k] <= MaxOf(k[1]) THEN refused \ {k[2]} ELSE refused \union {k[2]}

\* A disabled limiter, or one that fails (a Redis outage), lets the request through.
LetThrough(a) ==
    /\ refused' = refused \ {a}
    /\ UNCHANGED <<hits, ttl>>

HttpRequest(c, method) ==
    /\ IF Limited(method)
       THEN CheckRateLimit(<<BucketOf(method), clientIp[c]>>) \/ LetThrough(clientIp[c])
       ELSE UNCHANGED limiterVars
    /\ UNCHANGED socketVars

\* Time passes, and Redis drops the counters whose window is over.
Tick ==
    /\ \E k \in Key : ttl[k] > 0
    /\ ttl' = [k \in Key |-> IF ttl[k] > 0 THEN ttl[k] - 1 ELSE 0]
    /\ hits' = [k \in Key |-> IF ttl[k] <= 1 THEN 0 ELSE hits[k]]
    /\ UNCHANGED <<refused, socketVars>>

\* Redis restarts without its keys.
RedisRestarts ==
    /\ \E k \in Key : hits[k] > 0
    /\ hits' = [k \in Key |-> 0] /\ ttl' = [k \in Key |-> 0]
    /\ UNCHANGED <<refused, socketVars>>

-----------------------------------------------------------------------------
(* WebSockets                                                               *)

\* verifyClient
Admits(c) == Enabled => wsConnsByIp[clientIp[c]] < MaxSockets

\* The connection handler
Connected(c) == wsConnsByIp' = [wsConnsByIp EXCEPT ![clientIp[c]] = @ + 1]

\* Mutant: the close handler of an address at its cap does not count down.
ClosedKeepsCap(conns, c) ==
    [conns EXCEPT ![clientIp[c]] = IF @ <= 1 THEN 0 ELSE IF @ = MaxSockets THEN @ ELSE @ - 1]

\* The close handler.  An absent entry counts as one, and a count of zero is
\* deleted, which reads as zero.
Closed(conns, c) == [conns EXCEPT ![clientIp[c]] = IF @ <= 1 THEN 0 ELSE @ - 1]

\* A client's end of a socket is gone: the server sees it close, or, when the
\* network may lose that, not yet.
PeerGone(c, lossy) ==
    \/ wsConnsByIp' = Closed(wsConnsByIp, c) /\ UNCHANGED lost
    \/ /\ lossy /\ lost[c] < MaxLost
       /\ lost' = [lost EXCEPT ![c] = @ + 1]
       /\ UNCHANGED wsConnsByIp

\* A handshake that the server answers and counts, and the client never hears of.
AcceptLost(c) ==
    /\ Admits(c) /\ lost[c] < MaxLost
    /\ Connected(c)
    /\ lost' = [lost EXCEPT ![c] = @ + 1]

\* The kernel gives up a socket whose peer vanished and to which it had to write.
NoticesLoss(c) ==
    /\ lost[c] > 0
    /\ lost' = [lost EXCEPT ![c] = @ - 1]
    /\ wsConnsByIp' = Closed(wsConnsByIp, c)
    /\ UNCHANGED limiterVars

=============================================================================
