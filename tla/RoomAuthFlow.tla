----------------------------- MODULE RoomAuthFlow -----------------------------
(* The per-room disclosure flow of apps/web: /api/room-auth/start writes a    *)
(* RoomAuthFlow row holding the PKCE verifier, /callback consumes it, trades  *)
(* Minister's code for an id_token and parks the token on the same row, and   *)
(* /token hands the parked token to the browser and deletes the row.          *)
(*                                                                            *)
(* A request is one HTTP request; every action is one await of its handler,   *)
(* so requests interleave exactly where the handlers yield. The table is the  *)
(* only state they share. A row may vanish between any two awaits: every      *)
(* start and callback sweeps the expired rows.                                *)
EXTENDS Integers, FiniteSets

CONSTANTS
    Flow,       \* row ids (cuid); `state` is unique per row and names it too
    Request,    \* HTTP requests
    TTL,        \* ROOM_AUTH_FLOW_TTL_MS, in clock ticks
    MaxClock,   \* bound: ticks of the clock
    MaxFaults,  \* bound: database calls that fail, requests that die
    None

ASSUME TTLAssumption == TTL \in Nat
ASSUME BoundAssumption == MaxClock \in Nat /\ MaxFaults \in Nat
ASSUME NoneAssumption ==
    None \notin Flow \union Nat \union [expires : Nat, verifier : BOOLEAN, token : BOOLEAN]

VARIABLES
    clock,      \* Date.now()
    row,        \* the RoomAuthFlow table: None where there is no row
    pc,         \* the await each request is suspended at
    target,     \* the flow a request is about
    seen,       \* the row its findUnique returned
    faults,     \* failures so far
    expiry,     \* history: the expiresAt of every flow ever started
    undeleted,  \* history: flows whose delete failed
    exchanged,  \* history: requests that traded a code, per flow
    redirected, \* history: flows whose id the browser was given for pickup
    delivered   \* history: requests answered with the id_token, per flow

table == <<row, expiry, undeleted>>
history == <<exchanged, redirected, delivered>>
vars == <<clock, row, pc, target, seen, faults, expiry, undeleted, exchanged, redirected,
          delivered>>

\* verifier: codeVerifier is not null; token: idToken is not null. The nonce is
\* set while the token is null and emptied by the update that stores the token.
Row == [expires : Nat, verifier : BOOLEAN, token : BOOLEAN]

StartPc == {"start.sweep", "start.create"}
CallbackPc == {"callback.sweep", "callback.find", "callback.consume", "callback.check",
               "callback.exchange", "callback.save", "callback.drop"}
PickupPc == {"token.find", "token.delete", "token.answer"}
Pc == {"idle", "done"} \union StartPc \union CallbackPc \union PickupPc

Init ==
    /\ clock = 0
    /\ row = [f \in Flow |-> None]
    /\ pc = [r \in Request |-> "idle"]
    /\ target = [r \in Request |-> None]
    /\ seen = [r \in Request |-> None]
    /\ faults = 0
    /\ expiry = [f \in Flow |-> None]
    /\ undeleted = {}
    /\ exchanged = [f \in Flow |-> {}]
    /\ redirected = {}
    /\ delivered = [f \in Flow |-> {}]

-----------------------------------------------------------------------------
Stored == {f \in Flow : row[f] # None}
Started == {f \in Flow : expiry[f] # None}

\* `expiresAt < now`, the one expiry test of the sweep, the callback and the pickup.
ExpiredAt(flow, now) == flow.expires < now

Goto(r, from, to) == pc[r] = from /\ pc' = [pc EXCEPT ![r] = to]

MayFail == faults < MaxFaults /\ faults' = faults + 1
NoFault == UNCHANGED faults

DeleteRow(f) == row' = [row EXCEPT ![f] = None]

\* `roomAuthFlow.delete(...).catch(() => {})`: a row already gone, or a failing
\* database, is ignored.
DeleteIgnoringErrors(f) ==
    \/ DeleteRow(f) /\ NoFault /\ UNCHANGED undeleted
    \/ row' = row /\ MayFail /\ undeleted' = undeleted \union {f}

\* deleteMany of the rows that are expired now.
Swept == [f \in Flow |-> IF f \in Stored /\ ExpiredAt(row[f], clock) THEN None ELSE row[f]]

\* sweepExpiredRoomAuthFlows: best effort, its error is swallowed.
Sweep ==
    \/ row' = Swept /\ NoFault
    \/ row' = row /\ MayFail

Tick ==
    /\ clock < MaxClock
    /\ clock' = clock + 1
    /\ UNCHANGED <<pc, target, seen, faults, table, history>>

-----------------------------------------------------------------------------
(* GET /api/room-auth/start, for a room that exists and within the limiter.  *)

\* The row's id is drawn on arrival, so that Flow bounds the starts.
Start(r) ==
    /\ Goto(r, "idle", "start.sweep")
    /\ \E f \in Flow \ {target[s] : s \in Request} : target' = [target EXCEPT ![r] = f]
    /\ UNCHANGED <<clock, seen, faults, table, history>>

StartSweep(r) ==
    /\ Goto(r, "start.sweep", "start.create")
    /\ Sweep
    /\ UNCHANGED <<clock, target, seen, expiry, undeleted, history>>

\* A fresh id, state, nonce and verifier; the browser leaves for Minister.
StartCreate(r) ==
    /\ Goto(r, "start.create", "done")
    /\ row' = [row EXCEPT ![target[r]] =
                 [expires |-> clock + TTL, verifier |-> TRUE, token |-> FALSE]]
    /\ expiry' = [expiry EXCEPT ![target[r]] = clock + TTL]
    /\ UNCHANGED <<clock, target, seen, faults, undeleted, history>>

-----------------------------------------------------------------------------
(* GET /api/room-auth/callback.                                               *)

\* The browser comes back from Minister with a `state`: again, in a second tab,
\* or reloading the page.
Callback(r) ==
    /\ Goto(r, "idle", "callback.sweep")
    /\ \E f \in Started : target' = [target EXCEPT ![r] = f]
    /\ UNCHANGED <<clock, seen, faults, table, history>>

CallbackSweep(r) ==
    /\ Goto(r, "callback.sweep", "callback.find")
    /\ Sweep
    /\ UNCHANGED <<clock, target, seen, expiry, undeleted, history>>

\* An unknown state, or a verifier already consumed, is rejected.
CallbackFind(r) ==
    /\ pc[r] = "callback.find"
    /\ LET flow == row[target[r]] IN
       IF flow # None /\ flow.verifier
       THEN Goto(r, "callback.find", "callback.consume") /\ seen' = [seen EXCEPT ![r] = flow]
       ELSE Goto(r, "callback.find", "done") /\ UNCHANGED seen
    /\ UNCHANGED <<clock, target, faults, table, history>>

\* Mutant: updateMany by state alone.
ConsumableByState(f) == f \in Stored

\* updateMany where state = s and codeVerifier is not null.
Consumable(f) == f \in Stored /\ row[f].verifier

\* Mutant: the losing callback cleans the flow up.
CallbackConsumeCleansUp(r) ==
    /\ pc[r] = "callback.consume"
    /\ IF Consumable(target[r])
       THEN /\ Goto(r, "callback.consume", "callback.check")
            /\ row' = [row EXCEPT ![target[r]].verifier = FALSE]
       ELSE Goto(r, "callback.consume", "done") /\ DeleteRow(target[r])
    /\ UNCHANGED <<clock, target, seen, faults, expiry, undeleted, history>>

\* Count 0: another callback took the verifier first.
CallbackConsume(r) ==
    /\ pc[r] = "callback.consume"
    /\ IF Consumable(target[r])
       THEN /\ Goto(r, "callback.consume", "callback.check")
            /\ row' = [row EXCEPT ![target[r]].verifier = FALSE]
       ELSE Goto(r, "callback.consume", "done") /\ UNCHANGED row
    /\ UNCHANGED <<clock, target, seen, faults, expiry, undeleted, history>>

\* Expired flows, and callbacks Minister sent without a code, delete the row.
CallbackCheck(r) ==
    /\ \E hasCode \in BOOLEAN :
         Goto(r, "callback.check",
              IF hasCode /\ ~ExpiredAt(seen[r], clock)
              THEN "callback.exchange" ELSE "callback.drop")
    /\ UNCHANGED <<clock, target, seen, faults, table, history>>

\* client.exchangeCode: Minister accepts the code and the SDK the id_token, or not.
CallbackExchange(r) ==
    /\ \E verified \in BOOLEAN :
         Goto(r, "callback.exchange", IF verified THEN "callback.save" ELSE "callback.drop")
    /\ exchanged' = [exchanged EXCEPT ![target[r]] = @ \union {r}]
    /\ UNCHANGED <<clock, target, seen, faults, table, redirected, delivered>>

\* Mutant: upsert where the code updates.
SaveTokenUpserts(r) ==
    /\ Goto(r, "callback.save", "done")
    /\ row' = [row EXCEPT ![target[r]] =
                 [expires |-> seen[r].expires, verifier |-> FALSE, token |-> TRUE]]
    /\ redirected' = redirected \union {target[r]}
    /\ NoFault

\* Mutant: the verifier is nulled only when the token is stored.
SaveTokenKeepsVerifier(r) ==
    /\ target[r] \in Stored
    /\ Goto(r, "callback.save", "done")
    /\ row' = [row EXCEPT ![target[r]] = [@ EXCEPT !.token = TRUE, !.verifier = TRUE]]
    /\ redirected' = redirected \union {target[r]}
    /\ NoFault

\* roomAuthFlow.update by id: throws when the row is gone (P2025) or the
\* database fails, and the catch block takes over.
SaveToken(r) ==
    /\ target[r] \in Stored
    /\ Goto(r, "callback.save", "done")
    /\ row' = [row EXCEPT ![target[r]].token = TRUE]
    /\ redirected' = redirected \union {target[r]}
    /\ NoFault

SaveFails(r) ==
    /\ Goto(r, "callback.save", "callback.drop")
    /\ IF target[r] \in Stored THEN MayFail ELSE NoFault
    /\ UNCHANGED <<row, redirected>>

CallbackSave(r) ==
    /\ SaveToken(r) \/ SaveFails(r)
    /\ UNCHANGED <<clock, target, seen, expiry, undeleted, exchanged, delivered>>

CallbackDrop(r) ==
    /\ Goto(r, "callback.drop", "done")
    /\ DeleteIgnoringErrors(target[r])
    /\ UNCHANGED <<clock, target, seen, expiry, history>>

-----------------------------------------------------------------------------
(* GET /api/room-auth/token: the browser presents the id it was redirected    *)
(* with, perhaps from several tabs.                                           *)

Pickup(r) ==
    /\ Goto(r, "idle", "token.find")
    /\ \E f \in redirected : target' = [target EXCEPT ![r] = f]
    /\ UNCHANGED <<clock, seen, faults, table, history>>

PickupFind(r) ==
    /\ pc[r] = "token.find"
    /\ LET flow == row[target[r]] IN
       IF flow # None /\ flow.token
       THEN Goto(r, "token.find", "token.delete") /\ seen' = [seen EXCEPT ![r] = flow]
       ELSE Goto(r, "token.find", "done") /\ UNCHANGED seen
    /\ UNCHANGED <<clock, target, faults, table, history>>

\* Mutant: the pickup leaves the row to the sweep.
PickupDeleteLeavesRow(r) ==
    /\ Goto(r, "token.delete", "token.answer")
    /\ UNCHANGED <<clock, target, seen, faults, table, history>>

PickupDelete(r) ==
    /\ Goto(r, "token.delete", "token.answer")
    /\ DeleteIgnoringErrors(target[r])
    /\ UNCHANGED <<clock, target, seen, expiry, history>>

PickupAnswer(r) ==
    /\ Goto(r, "token.answer", "done")
    /\ delivered' = IF ExpiredAt(seen[r], clock) THEN delivered
                    ELSE [delivered EXCEPT ![target[r]] = @ \union {r}]
    /\ UNCHANGED <<clock, target, seen, faults, table, exchanged, redirected>>

-----------------------------------------------------------------------------
\* The web server stops, or the browser goes away, in the middle of a request.
Die(r) ==
    /\ pc[r] \notin {"idle", "done"}
    /\ pc' = [pc EXCEPT ![r] = "done"]
    /\ MayFail
    /\ UNCHANGED <<clock, target, seen, table, history>>

\* No request is being handled, and perhaps none comes any more.
Quiet ==
    /\ \A r \in Request : pc[r] \in {"idle", "done"}
    /\ UNCHANGED vars

Handle(r) ==
    \/ StartSweep(r) \/ StartCreate(r)
    \/ CallbackSweep(r) \/ CallbackFind(r) \/ CallbackConsume(r) \/ CallbackCheck(r)
    \/ CallbackExchange(r) \/ CallbackSave(r) \/ CallbackDrop(r)
    \/ PickupFind(r) \/ PickupDelete(r) \/ PickupAnswer(r)

Next ==
    \/ Tick
    \/ \E r \in Request : Start(r) \/ Callback(r) \/ Pickup(r) \/ Handle(r) \/ Die(r)
    \/ Quiet

Spec == Init /\ [][Next]_vars

-----------------------------------------------------------------------------
(* Properties.                                                                *)

\* Every variable holds a value of its type, and a row never holds the PKCE
\* verifier together with the token bought with it.
TypeOK ==
    /\ clock \in Nat
    /\ row \in [Flow -> Row \union {None}]
    /\ pc \in [Request -> Pc]
    /\ target \in [Request -> Flow \union {None}]
    /\ seen \in [Request -> Row \union {None}]
    /\ faults \in Nat
    /\ expiry \in [Flow -> Nat \union {None}]
    /\ undeleted \subseteq Flow
    /\ exchanged \in [Flow -> SUBSET Request]
    /\ redirected \subseteq Flow
    /\ delivered \in [Flow -> SUBSET Request]
    /\ \A f \in Stored : ~(row[f].verifier /\ row[f].token)

\* callback/route.ts:44-46: of all callbacks that carry one `state`, at once or
\* one after the other, at most one ever trades its code with the verifier.
ExchangedOnce == \A f \in Flow : \A r, s \in exchanged[f] : r = s

\* callback/route.ts:79-91: a browser sent to the room with a pickup id finds the
\* token parked there until a pickup reads it or the flow expires: neither the
\* callbacks that lost the race for the verifier nor any sweep removes it.
ReadByPickup(f) == \E r \in Request : target[r] = f /\ seen[r] # None /\ seen[r].token

PickupHonoured ==
    \A f \in redirected :
        \/ f \in Stored /\ row[f].token
        \/ ReadByPickup(f)
        \/ expiry[f] < clock

\* token/route.ts:28-29: unless its delete failed, a flow's row is gone by the time the
\* token is answered, so a pickup that starts later gets nothing, and no callback
\* still running puts it back.
AnsweredRowIsGone ==
    \A f \in Flow : delivered[f] # {} => f \notin Stored \/ f \in undeleted

\* A flow whose row was swept, dropped or picked up never has a row again: a
\* callback that finished its exchange after the sweep answers with an error.
GoneForGood == [][\A f \in Flow : f \in Started \ Stored => f \notin Stored']_vars

=============================================================================
