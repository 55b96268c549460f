------------------------------ MODULE FeedClient ------------------------------
(***************************************************************************)
(* The browser tab's WebSocket client: lib/trpc.ts with its reconnect       *)
(* budget, the room view that subscribes and offers Reconnect, and the       *)
(* API server's doors they knock on.                                        *)
(*                                                                          *)
(* The socket belongs to @trpc/client in lazy mode.  What that library does  *)
(* is modelled as lib/trpc.ts states and uses it: it dials for a request,    *)
(* calls onOpen and onClose, redials a lost socket from ONE retry loop that  *)
(* sleeps between dials, and its close() completes the subscriptions and     *)
(* stops that loop until the next request.                                  *)
(*                                                                          *)
(* Delays are left out: a sleep or a timer ends at any moment, but an idle   *)
(* socket is closed only after its stable timer (30 s against 10 s).         *)
(***************************************************************************)
EXTENDS ApiServer, FiniteSets

CONSTANT MaxAttempts    \* WS_MAX_RECONNECT_ATTEMPTS

ASSUME ClientAssumption == IsFiniteSet(Client)
ASSUME AttemptsAssumption == MaxAttempts \in Nat \ {0}

VARIABLES
    net,            \* the way to the server: "up", or "bad": it may refuse and it may drop
    feed,           \* the room view's subscription: off (no view), on, ended
    sock,           \* the client's socket
    loop,           \* the library's retry loop
    allow,          \* the library's allowReconnect
    failureCount,   \* saturates at MaxAttempts
    stableTimer,    \* set
    wsExhausted,
    redials         \* history: dials of the loop since a user or the stable timer reset it

clientVars == <<feed, sock, loop, allow, failureCount, stableTimer, wsExhausted, redials>>
vars == <<limiterVars, socketVars, net, clientVars>>

ClientTypeOK ==
    /\ feed \in [Client -> {"off", "on", "ended"}]
    /\ sock \in [Client -> {"none", "dialing", "open"}]
    /\ loop \in [Client -> {"none", "sleeping", "dialing"}]
    /\ allow \in [Client -> BOOLEAN]
    /\ failureCount \in [Client -> 0..MaxAttempts]
    /\ stableTimer \in [Client -> BOOLEAN]
    /\ wsExhausted \in [Client -> BOOLEAN]
    /\ redials \in [Client -> 0..MaxAttempts]
    /\ \A c \in Client : loop[c] = "dialing" => sock[c] = "dialing"
    /\ \A c \in Client : stableTimer[c] => sock[c] = "open"

TypeOK == ServerTypeOK /\ net \in {"up", "bad"} /\ ClientTypeOK

Init ==
    /\ ServerInit
    /\ net = "up"
    /\ feed = [c \in Client |-> "off"]
    /\ sock = [c \in Client |-> "none"]
    /\ loop = [c \in Client |-> "none"]
    /\ allow = [c \in Client |-> TRUE]
    /\ failureCount = [c \in Client |-> 0]
    /\ stableTimer = [c \in Client |-> FALSE]
    /\ wsExhausted = [c \in Client |-> FALSE]
    /\ redials = [c \in Client |-> 0]

Set(f, c, value) == f' = [f EXCEPT ![c] = value]

UpTo(n) == IF n < MaxAttempts THEN n + 1 ELSE n

-----------------------------------------------------------------------------
(* The callbacks of createBackoffWSClient                                   *)

\* Mutant: an open socket counts as a healthy one at once.
OnOpenResets(c) ==
    /\ Set(stableTimer, c, TRUE)
    /\ Set(failureCount, c, 0)
    /\ Set(redials, c, redials[c])

OnOpen(c) ==
    /\ Set(stableTimer, c, TRUE)
    /\ UNCHANGED <<failureCount, redials>>

\* The timer that onOpen set: the connection has stayed open.
Stable(c) ==
    /\ stableTimer[c]
    /\ Set(stableTimer, c, FALSE)
    /\ Set(failureCount, c, 0)
    /\ Set(wsExhausted, c, FALSE)
    /\ Set(redials, c, 0)
    /\ UNCHANGED <<limiterVars, socketVars, net, feed, sock, loop, allow>>

\* The library's close(): subscriptions complete, the loop may not dial again.
CloseClient(c) ==
    /\ Set(feed, c, IF feed[c] = "on" THEN "ended" ELSE feed[c])
    /\ Set(allow, c, FALSE)

\* Mutant: a timer of the closed socket may still fire.
OnCloseKeepsTimer(c) ==
    /\ Set(failureCount, c, UpTo(failureCount[c]))
    /\ IF failureCount'[c] >= MaxAttempts
       THEN Set(wsExhausted, c, TRUE) /\ CloseClient(c)
       ELSE UNCHANGED <<wsExhausted, feed, allow>>
    /\ UNCHANGED stableTimer

\* A socket or a dial has ended; at the limit the client gives up.
OnClose(c) ==
    /\ Set(stableTimer, c, FALSE)
    /\ Set(failureCount, c, UpTo(failureCount[c]))
    /\ IF failureCount'[c] >= MaxAttempts
       THEN Set(wsExhausted, c, TRUE) /\ CloseClient(c)
       ELSE UNCHANGED <<wsExhausted, feed, allow>>

-----------------------------------------------------------------------------
(* The library's socket                                                     *)

\* A request opens the socket when there is none.
Request(c) ==
    /\ Set(feed, c, "on")
    /\ Set(allow, c, TRUE)
    /\ Set(sock, c, IF sock[c] = "none" THEN "dialing" ELSE sock[c])

\* The handshake is answered: the server's verifyClient lets it in.
DialOpens(c) ==
    /\ sock[c] = "dialing" /\ Admits(c)
    /\ Set(sock, c, "open")
    /\ Set(loop, c, IF loop[c] = "dialing" THEN "none" ELSE loop[c])
    /\ Connected(c)
    /\ OnOpen(c)
    /\ UNCHANGED <<limiterVars, lost, net, feed, allow, wsExhausted>>

\* Nobody answers, the answer is lost, or the server refuses: onClose, and the loop
\* sleeps.
DialFails(c) ==
    /\ sock[c] = "dialing" /\ (net = "bad" \/ ~Admits(c))
    /\ UNCHANGED socketVars \/ (net = "bad" /\ AcceptLost(c))
    /\ Set(sock, c, "none")
    /\ OnClose(c)
    /\ Set(loop, c, "sleeping")
    /\ UNCHANGED <<limiterVars, net, redials>>

\* An open socket is lost.
Drop(c) ==
    /\ sock[c] = "open" /\ net = "bad"
    /\ PeerGone(c, net = "bad")
    /\ Set(sock, c, "none")
    /\ OnClose(c)
    /\ Set(loop, c, IF feed'[c] = "on" THEN "sleeping" ELSE loop[c])
    /\ UNCHANGED <<limiterVars, net, redials>>

\* The loop's sleep ends.  A socket that a request opened meanwhile is closed
\* for the loop's own dial.
Wake(c) ==
    /\ loop[c] = "sleeping" /\ sock[c] # "dialing"
    /\ IF ~allow[c]
       THEN /\ Set(loop, c, "none")
            /\ UNCHANGED <<socketVars, feed, sock, allow, failureCount,
                           stableTimer, wsExhausted, redials>>
       ELSE /\ IF sock[c] = "open"
               THEN PeerGone(c, net = "bad") /\ OnClose(c)
               ELSE UNCHANGED <<socketVars, feed, allow, failureCount, stableTimer, wsExhausted>>
            /\ IF allow'[c]
               THEN /\ Set(sock, c, "dialing")
                    /\ Set(loop, c, "dialing")
                    /\ Set(redials, c, UpTo(redials[c]))
               ELSE /\ Set(sock, c, "none")
                    /\ Set(loop, c, "none")
                    /\ UNCHANGED redials
    /\ UNCHANGED <<limiterVars, net>>

\* closeMs without a request: the library closes the socket itself.
IdleClose(c) ==
    /\ sock[c] = "open" /\ feed[c] # "on" /\ ~stableTimer[c]
    /\ PeerGone(c, net = "bad")
    /\ Set(sock, c, "none")
    /\ Set(failureCount, c, UpTo(failureCount[c]))
    /\ Set(wsExhausted, c, wsExhausted[c] \/ failureCount'[c] >= MaxAttempts)
    /\ Set(allow, c, FALSE)
    /\ UNCHANGED <<limiterVars, net, feed, loop, stableTimer, redials>>

-----------------------------------------------------------------------------
(* The user                                                                 *)

\* A room view mounts, or its token changes, and subscribes.
OpenFeed(c) ==
    /\ feed[c] = "off"
    /\ Request(c)
    /\ Set(redials, c, 0)
    /\ UNCHANGED <<limiterVars, socketVars, net, loop, failureCount, stableTimer, wsExhausted>>

LeaveFeed(c) ==
    /\ feed[c] # "off"
    /\ Set(feed, c, "off")
    /\ UNCHANGED <<limiterVars, socketVars, net, sock, loop, allow, failureCount,
                   stableTimer, wsExhausted, redials>>

\* The banner "Live feed disconnected".
Banner(c) == feed[c] # "off" /\ wsExhausted[c]

\* Mutant: the budget is re-armed, but the subscription is not restarted.
ReconnectOnlyRearms(c) ==
    /\ Banner(c)
    /\ Set(failureCount, c, 0)
    /\ Set(wsExhausted, c, FALSE)
    /\ Set(redials, c, 0)
    /\ UNCHANGED <<limiterVars, socketVars, net, feed, allow, sock, loop, stableTimer>>

\* retryWsRealtime, then sub.reset.
Reconnect(c) ==
    /\ Banner(c)
    /\ Set(failureCount, c, 0)
    /\ Set(wsExhausted, c, FALSE)
    /\ Request(c)
    /\ Set(redials, c, 0)
    /\ UNCHANGED <<limiterVars, socketVars, net, loop, stableTimer>>

-----------------------------------------------------------------------------

Network ==
    /\ net' = IF net = "up" THEN "bad" ELSE "up"
    /\ UNCHANGED <<limiterVars, socketVars, clientVars>>

Server ==
    /\ \/ Tick \/ RedisRestarts
       \/ \E c \in Client : NoticesLoss(c) \/ \E m \in Method : HttpRequest(c, m)
    /\ UNCHANGED <<net, clientVars>>

Library(c) == DialOpens(c) \/ DialFails(c) \/ Drop(c) \/ Wake(c) \/ IdleClose(c)

Next ==
    \/ Network \/ Server
    \/ \E c \in Client : Library(c) \/ Stable(c) \/ OpenFeed(c) \/ LeaveFeed(c) \/ Reconnect(c)

Alone(action) == UNCHANGED <<net, clientVars>> /\ action

\* A request of address a that finds the limiter working
LimitedRequest(a) ==
    CheckRateLimit(<<BucketOf("POST"), a>>) /\ UNCHANGED socketVars

\* Dials are answered, sleeps and timers end, a user who sees the banner presses the
\* button, windows pass, and pages ask for something now and then and find the
\* limiter working.  Nothing says that the server notices a vanished socket.
Fairness ==
    /\ \A c \in Client :
          /\ WF_vars(DialOpens(c) \/ DialFails(c)) /\ WF_vars(Wake(c)) /\ WF_vars(Stable(c))
          /\ WF_vars(Reconnect(c))
    /\ \A a \in {clientIp[c] : c \in Client} : WF_vars(Alone(LimitedRequest(a)))
    /\ WF_vars(Alone(Tick))

Spec == Init /\ [][Next]_vars /\ Fairness

-----------------------------------------------------------------------------
(* Properties                                                               *)

\* The storm protection of lib/trpc.ts: whatever opens, flaps, is refused or is
\* left and re-entered, the loop dials fewer than MaxAttempts times before a
\* connection proves stable or a user acts.
BudgetHeld == \A c \in Client : redials[c] < MaxAttempts

\* A room view without a live feed is either on its way to one or says so: its
\* socket is open or being dialed, the loop will dial, or the banner is up.
NeverSilent ==
    \A c \in Client : feed[c] # "off" =>
        \/ wsExhausted[c]
        \/ feed[c] = "on" /\ (sock[c] # "none" \/ (loop[c] = "sleeping" /\ allow[c]))

Live(c) == feed[c] = "on" /\ sock[c] = "open"

\* The sockets of an address as the server should count them: the open one of each
\* client (numbered 0), and those whose peer vanished unnoticed.
Sockets(a) ==
    {s \in Client \X (0..MaxLost) :
        /\ clientIp[s[1]] = a
        /\ IF s[2] = 0 THEN sock[s[1]] = "open" ELSE s[2] <= lost[s[1]]}

\* The server's count of an address neither leaks nor falls behind: it is the number of
\* its sockets, through every race of drops, late closes, redials, lost handshakes and
\* idle closes of all its clients (close takes a count of one or none to none,
\* server.ts), so the cap holds.  A vanished socket the server has not noticed is one
\* of them, and keeps its place.
SocketsCounted ==
    \A a \in Address : /\ wsConnsByIp[a] = Cardinality(Sockets(a))
                       /\ Enabled => wsConnsByIp[a] <= MaxSockets

\* Places of the cap that no vanished socket holds, and every client could have one.
Vanished(a) == {s \in Sockets(a) : s[2] > 0}
Room(a) ==
    Cardinality(Vanished(a)) + Cardinality({c \in Client : clientIp[c] = a}) <= MaxSockets

\* Once the network stays up, and the sockets that vanished unnoticed leave its address
\* a place for each client, every room view that stays open has its feed again, whatever
\* was dropped, refused, counted and given up before.  Without the places it may be
\* locked out for good: nothing makes the server notice.
ComesBack ==
    \A c \in Client :
        <>[](net = "up" /\ (Enabled => Room(clientIp[c]))) =>
            (feed[c] # "off" ~> (Live(c) \/ feed[c] = "off"))

\* An address that was refused is served again by a working limiter, however often its
\* clients ask during the window.
ServedAgain == \A a \in Address : a \in refused ~> a \notin refused
=============================================================================
