--------------------------- MODULE RoomSubscription ---------------------------
(***************************************************************************)
(* roomMessages: the async generator behind message.subscribe, with its     *)
(* Redis connection and the reader (tRPC's WebSocket loop) that pulls it.    *)
(* JavaScript runs one callback at a time, so an action is the code between  *)
(* two awaits.  The queue fills from Redis callbacks, the generator sleeps   *)
(* on a promise when the queue is empty, and abort may come at any await.    *)
(***************************************************************************)
EXTENDS Naturals, Sequences

CONSTANTS
    Broadcast,  \* what may be published in the room
    None

ASSUME NoneIsNoBroadcast == None \notin Broadcast

VARIABLES
    gen,        \* where the generator is suspended; "off": not running, nothing left
                \* open; "thrown": not running, its Redis connection still open
    attached,   \* Redis routes the room's channel to this connection
    queue,      \* queue: received, not yet yielded
    value,      \* the broadcast yielded and not yet taken by the reader
    aborted     \* signal.aborted

subscription == <<gen, attached, queue, value, aborted>>

\* subscribing: awaits sub.subscribe.  yielded: suspended at yield.
\* asleep: awaits the wake promise.  awake: that promise was resolved.
Suspended == {"subscribing", "yielded", "asleep", "awake"}

Running == gen \in Suspended

SubscriptionTypeOK ==
    /\ gen \in Suspended \union {"off", "thrown"}
    /\ attached \in BOOLEAN
    /\ queue \in Seq(Broadcast)
    /\ value \in Broadcast \union {None}
    /\ aborted \in BOOLEAN
    /\ (gen = "yielded") <=> (value # None)

SubscriptionInit ==
    /\ gen = "off"
    /\ attached = FALSE
    /\ queue = <<>>
    /\ value = None
    /\ aborted = FALSE

-----------------------------------------------------------------------------

\* finally: the listener goes, the connection quits, the locals are dead.
End ==
    /\ gen' = "off"
    /\ attached' = FALSE
    /\ queue' = <<>>
    /\ value' = None
    /\ UNCHANGED aborted

\* Bug for the mutants: pop() instead of shift().
DrainTakesNewest ==
    IF queue # <<>>
    THEN /\ gen' = "yielded"
         /\ value' = queue[Len(queue)]
         /\ queue' = SubSeq(queue, 1, Len(queue) - 1)
         /\ UNCHANGED <<attached, aborted>>
    ELSE /\ gen' = "asleep"
         /\ value' = None
         /\ UNCHANGED <<attached, queue, aborted>>

\* The inner `while (queue.length) yield`, then the abort test, then the sleep.
Drain ==
    IF queue # <<>>
    THEN /\ gen' = "yielded"
         /\ value' = Head(queue)
         /\ queue' = Tail(queue)
         /\ UNCHANGED <<attached, aborted>>
    ELSE IF aborted
    THEN End
    ELSE /\ gen' = "asleep"
         /\ value' = None
         /\ UNCHANGED <<attached, queue, aborted>>

\* The outer `while (!signal.aborted)`.
Loop == IF aborted THEN End ELSE Drain

\* The signal may have been aborted while the router checked the read gate.
Open ==
    /\ ~Running
    /\ gen' = "subscribing"
    /\ aborted' \in BOOLEAN
    /\ UNCHANGED <<attached, queue, value>>

\* Redis performs SUBSCRIBE, the first time or again after a lost connection.
Attach ==
    /\ Running
    /\ ~attached
    /\ attached' = TRUE
    /\ UNCHANGED <<gen, queue, value, aborted>>

\* The await of sub.subscribe returns.
Subscribed ==
    /\ gen = "subscribing"
    /\ attached
    /\ Loop

\* ... or throws.  It stands before the try, so the finally does not run: nobody
\* quits the connection or takes the abort listener away.
SubscribeFails ==
    /\ gen = "subscribing"
    /\ ~attached
    /\ gen' = "thrown"
    /\ queue' = <<>>
    /\ UNCHANGED <<attached, value, aborted>>

\* ioredis lost its connection: what is published until it is back is missed.
Detach ==
    /\ Running
    /\ attached
    /\ attached' = FALSE
    /\ UNCHANGED <<gen, queue, value, aborted>>

\* Bug for the mutants: the message listener forgets to wake the generator.
DeliverWithoutWake(b) ==
    /\ attached
    /\ queue' = Append(queue, b)
    /\ UNCHANGED <<gen, attached, value, aborted>>

\* sub.on('message'): queue.push and wake.
Deliver(b) ==
    /\ attached
    /\ queue' = Append(queue, b)
    /\ gen' = IF gen = "asleep" THEN "awake" ELSE gen
    /\ UNCHANGED <<attached, value, aborted>>

Resume == gen = "awake" /\ Loop

\* Bug for the mutants: the yielded broadcast stays in the reader's hand.
PullKeepsValue ==
    /\ gen = "yielded"
    /\ ~aborted
    /\ IF queue # <<>> THEN UNCHANGED subscription
       ELSE gen' = "asleep" /\ UNCHANGED <<attached, queue, value, aborted>>

\* The reader takes the yielded broadcast and asks for the next one.
Pull ==
    /\ gen = "yielded"
    /\ ~aborted
    /\ Drain

\* The reader of an aborted subscription calls return() instead of next().
Return ==
    /\ gen = "yielded"
    /\ aborted
    /\ End

\* Bug for the mutants: the abort listener does not wake the sleeper.
AbortWithoutWake ==
    /\ Running
    /\ ~aborted
    /\ aborted' = TRUE
    /\ UNCHANGED <<gen, attached, queue, value>>

\* The WebSocket closed, or the client stopped the subscription.
Abort ==
    /\ Running
    /\ ~aborted
    /\ aborted' = TRUE
    /\ gen' = IF gen = "asleep" THEN "awake" ELSE gen
    /\ UNCHANGED <<attached, queue, value>>

-----------------------------------------------------------------------------

Pending == (IF value = None THEN <<>> ELSE <<value>>) \o queue

Channel == INSTANCE RoomChannel WITH open <- Running, pending <- Pending

(* Nothing delivered to a subscription is lost, repeated, reordered or left *)
(* in the queue by a generator that went to sleep just before it arrived    *)
(* (roomMessages, broadcast.ts:81-111).                                     *)
ImplementsChannel == Channel!Spec

(* A generator that sleeps has nothing to do: no broadcast in its queue and  *)
(* no abort it missed (broadcast.ts:104-110, the lost wake-up).              *)
SleepsOnlyWhenIdle == gen = "asleep" => queue = <<>> /\ ~aborted

(* An aborted subscription ends: past its SUBSCRIBE it always quits its Redis *)
(* connection, at a yield, asleep or just woken; an abort during SUBSCRIBE is *)
(* noticed when that returns, and if it throws instead the generator ends and *)
(* leaves the connection open (broadcast.ts:98-119).                          *)
SubscriptionEnds ==
    /\ (aborted /\ Running /\ gen # "subscribing") ~> gen = "off"
    /\ (aborted /\ gen = "subscribing") ~> ~Running
=============================================================================
