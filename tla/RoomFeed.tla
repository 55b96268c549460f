------------------------------- MODULE RoomFeed -------------------------------
(***************************************************************************)
(* The feed of one PERSISTENT room in one browser: the history query seeds   *)
(* it, the subscription appends to it, and an operator's delete replaces a   *)
(* row by a marker.  Three sources race: the Message table as the history    *)
(* query read it, the broadcasts senders and operators publish after their   *)
(* commit, and the marker an operator's own browser applies at once.         *)
(*                                                                          *)
(* The last hop, from the server's WebSocket to the browser, keeps order and *)
(* is part of Pull; a connection lost on that hop is Abort.                  *)
(***************************************************************************)
EXTENDS RoomSubscription, FiniteSets, SequencesExt

CONSTANTS
    Message,        \* ids of the messages sent to the room
    Operator,       \* this browser is the operator's
    HistoryLimit,   \* rows message.list returns
    MaxDeletes,     \* bound on deleted messages
    MaxEvents       \* bound on subscriptions opened, history queries, system
                    \* broadcasts and failures, taken together

MessageOf(m) == [kind |-> "message", id |-> m]
TombstoneOf(m) == [kind |-> "tombstone", id |-> m]
Notice == [kind |-> "system", id |-> None]

RoomBroadcast == {MessageOf(m) : m \in Message} \union {TombstoneOf(m) : m \in Message}
                   \union {Notice}

ASSUME BroadcastAssumption == Broadcast = RoomBroadcast /\ None \notin Message
ASSUME LimitAssumption == Operator \in BOOLEAN /\ HistoryLimit \in Nat \ {0}
ASSUME BoundsAssumption == {MaxDeletes, MaxEvents} \subseteq Nat

VARIABLES
    table,      \* ids of the Message rows, oldest first
    deleted,    \* rows with a deletedAt
    sender,     \* progress of the send that stores each message
    operator,   \* progress of the delete of each message, and whether the
                \* subscription of this feed received its tombstone
    query,      \* the history query: "idle", "asked" or "answered"
    rows,       \* the rows message.list answered with
    items,      \* items of the feed, in display order
    seen,       \* seenIdsRef: ids the feed has had
    events      \* how many of those have happened

server == <<table, deleted, sender, operator>>
browser == <<query, rows, items, seen>>
vars == <<subscription, server, browser, events>>

Item == [id : Message \union {None}, deleted : BOOLEAN]

TypeOK ==
    /\ SubscriptionTypeOK
    /\ table \in Seq(Message)
    /\ deleted \subseteq ToSet(table)
    /\ sender \in [Message -> {"idle", "stored", "answered"}]
    /\ operator \in [Message -> {"idle", "deleted", "heard", "missed"}]
    /\ query \in {"idle", "asked", "answered"}
    /\ rows \in Seq(Item)
    /\ query # "answered" => rows = <<>>
    /\ items \in Seq(Item)
    /\ seen \subseteq Message
    /\ events \in 0..MaxEvents

Init ==
    /\ SubscriptionInit
    /\ table = <<>>
    /\ deleted = {}
    /\ sender = [m \in Message |-> "idle"]
    /\ operator = [m \in Message |-> "idle"]
    /\ query = "idle"
    /\ rows = <<>>
    /\ items = <<>>
    /\ seen = {}
    /\ events = 0

Row(m) == [id |-> m, deleted |-> FALSE]
NoticeItem == [id |-> None, deleted |-> FALSE]

Event == events < MaxEvents /\ events' = events + 1

-----------------------------------------------------------------------------
(* The API: what senders and operators commit, and then publish.            *)

\* PUBLISH reaches the subscription if Redis has it, and is forgotten otherwise.
Published(b) == IF attached THEN Deliver(b) ELSE UNCHANGED subscription

\* sendMessage commits the row ...
Store(m) ==
    /\ sender[m] = "idle"
    /\ table' = Append(table, m)
    /\ sender' = [sender EXCEPT ![m] = "stored"]
    /\ UNCHANGED <<subscription, deleted, operator, browser, events>>

\* ... and publishes it after the prune ...
Publish(m) ==
    /\ sender[m] = "stored"
    /\ Published(MessageOf(m))
    /\ sender' = [sender EXCEPT ![m] = "answered"]
    /\ UNCHANGED <<table, deleted, operator, browser, events>>

\* ... unless Redis or the process fails.
PublishLost(m) ==
    /\ sender[m] = "stored"
    /\ Event
    /\ sender' = [sender EXCEPT ![m] = "answered"]
    /\ UNCHANGED <<subscription, table, deleted, operator, browser>>

\* admin.deleteMessage: the transaction of deleteMessage ...
Delete(m) ==
    /\ operator[m] = "idle"
    /\ m \in ToSet(table)
    /\ Cardinality(deleted) < MaxDeletes
    /\ deleted' = deleted \union {m}
    /\ operator' = [operator EXCEPT ![m] = "deleted"]
    /\ UNCHANGED <<subscription, table, sender, browser, events>>

\* ... then publishTombstone ...
PublishTombstone(m) ==
    /\ operator[m] = "deleted"
    /\ Published(TombstoneOf(m))
    /\ operator' = [operator EXCEPT ![m] = IF attached THEN "heard" ELSE "missed"]
    /\ UNCHANGED <<table, deleted, sender, browser, events>>

\* ... which a retry of a failed call does not repeat (alreadyDeleted).
TombstoneLost(m) ==
    /\ operator[m] = "deleted"
    /\ Event
    /\ operator' = [operator EXCEPT ![m] = "missed"]
    /\ UNCHANGED <<subscription, table, deleted, sender, browser>>

\* admin.broadcast
PublishNotice ==
    /\ Event
    /\ Published(Notice)
    /\ UNCHANGED <<server, browser>>

-----------------------------------------------------------------------------
(* The browser's feed.                                                      *)

Marked(feed, m) == [i \in DOMAIN feed |-> IF feed[i].id = m
                                          THEN [feed[i] EXCEPT !.deleted = TRUE]
                                          ELSE feed[i]]

\* Bug for the mutants: the duplicate filter stands before the kind test.
AppendFiltersFirst(b) ==
    IF b.id \in seen THEN UNCHANGED <<items, seen>>
    ELSE /\ items' = IF b.kind = "tombstone" THEN Marked(items, b.id)
                     ELSE Append(items, [id |-> b.id, deleted |-> FALSE])
         /\ seen' = seen \union ({b.id} \ {None})

\* appendBroadcast
AppendBroadcast(b) ==
    \/ /\ b.kind = "tombstone"
       /\ items' = Marked(items, b.id)
       /\ UNCHANGED seen
    \/ /\ b.kind = "message"
       /\ IF b.id \in seen THEN UNCHANGED <<items, seen>>
          ELSE /\ items' = Append(items, Row(b.id))
               /\ seen' = seen \union {b.id}
    \/ /\ b.kind = "system"
       /\ items' = Append(items, NoticeItem)
       /\ UNCHANGED seen

\* The history query: sent, answered by message.list, and seeded into the feed.
Ask ==
    /\ query = "idle"
    /\ Event
    /\ query' = "asked"
    /\ UNCHANGED <<subscription, server, rows, items, seen>>

Newest == SubSeq(table, Max({1, Len(table) - HistoryLimit + 1}), Len(table))

Listed == [i \in DOMAIN Newest |-> [id |-> Newest[i], deleted |-> Newest[i] \in deleted]]

ListHistory ==
    /\ query = "asked"
    /\ query' = "answered"
    /\ rows' = Listed
    /\ UNCHANGED <<subscription, server, items, seen, events>>

\* The answer is in historyQuery.data: its ids count as seen, once seeded.
Seeded ==
    /\ query = "answered"
    /\ query' = "idle"
    /\ rows' = <<>>
    /\ seen' = seen \union {rows[i].id : i \in DOMAIN rows}
    /\ UNCHANGED <<subscription, server, events>>

\* Bugs for the mutants: every row is seeded, or the answer replaces the feed.
SeedUnfiltered == Seeded /\ items' = rows \o items
SeedReplaces == Seeded /\ items' = rows

\* Positions of the rows not seen yet, and the order of rows at such positions.
Fresh == {i \in DOMAIN rows : rows[i].id \notin seen}
Ascending(at) == \A j, k \in DOMAIN at : j < k => at[j] < at[k]

\* The effect on historyQuery.data: the fresh rows, in their order, go before the feed.
Seed ==
    /\ Seeded
    /\ \E at \in [1..Cardinality(Fresh) -> Fresh] :
          /\ Ascending(at)
          /\ items' = [j \in DOMAIN at |-> rows[at[j]]] \o items

\* The operator's browser marks the row as soon as its call is answered.
Confirm(m) ==
    /\ Operator
    /\ operator[m] \in {"heard", "missed"}
    /\ AppendBroadcast(TombstoneOf(m))
    /\ UNCHANGED <<subscription, server, query, rows, events>>

-----------------------------------------------------------------------------
(* The subscription of this browser.                                        *)

OpenFeed ==
    /\ Event
    /\ Open
    /\ UNCHANGED <<server, browser>>

Connect == Attach /\ UNCHANGED <<server, browser, events>>

Continue == (Subscribed \/ Resume \/ Return) /\ UNCHANGED <<server, browser, events>>

\* The browser's onError shows that the subscription could not start.
FeedFails ==
    /\ SubscribeFails
    /\ Event
    /\ items' = Append(items, NoticeItem)
    /\ UNCHANGED <<server, query, rows, seen>>

LoseRedis == Detach /\ Event /\ UNCHANGED <<server, browser>>

Receive == Pull /\ AppendBroadcast(value) /\ UNCHANGED <<server, query, rows, events>>

CloseFeed == Abort /\ UNCHANGED <<server, browser, events>>

\* Every call was answered and the subscription sleeps or is over.
Quiet ==
    /\ \A m \in Message : sender[m] = "answered" /\ operator[m] # "deleted"
    /\ query = "idle"
    /\ gen \in {"asleep", "off", "thrown"}
    /\ UNCHANGED vars

Next ==
    \/ \E m \in Message : \/ Store(m) \/ Publish(m) \/ PublishLost(m)
                          \/ Delete(m) \/ PublishTombstone(m) \/ TombstoneLost(m)
                          \/ Confirm(m)
    \/ PublishNotice
    \/ Ask \/ ListHistory \/ Seed
    \/ OpenFeed \/ Connect \/ Continue \/ FeedFails \/ LoseRedis \/ Receive \/ CloseFeed
    \/ Quiet

Spec == Init /\ [][Next]_vars

\* The event loop runs every callback that is due, ioredis answers SUBSCRIBE or
\* gives up, and the reader of a live subscription asks again.
Answered == gen = "subscribing" /\ (Connect \/ FeedFails)

FairSpec == Spec /\ WF_vars(Answered) /\ WF_vars(Continue \/ Receive)

-----------------------------------------------------------------------------

(* However history, refetches and broadcasts overlap, a message has one row *)
(* (room-view.tsx:147-150 and 163-165).                                     *)
ShownOnce == \A i, j \in DOMAIN items :
                items[i].id = items[j].id /\ items[i].id # None => i = j

(* Rows once shown stay together and in their order, and a marker never turns *)
(* back into content (room-view.tsx:125-170).                                 *)
RowsStay ==
    [][\E k \in 0..Len(items') - Len(items) : \A i \in DOMAIN items :
          /\ items'[i + k].id = items[i].id
          /\ items[i].deleted => items'[i + k].deleted]_vars

Shown(m) == \E i \in DOMAIN items : items[i].id = m
ShownAsContent(m) == \E i \in DOMAIN items : items[i].id = m /\ ~items[i].deleted

(* A tombstone on its way to a feed that shows the message turns the row into *)
(* a marker, unless the subscription ends first (room-view.tsx:129-145).      *)
TombstoneMarksShownRow ==
    \A m \in Message :
        (Shown(m) /\ TombstoneOf(m) \in ToSet(Pending))
            ~> (~ShownAsContent(m) \/ ~Running)

Settled ==
    /\ \A m \in Message : sender[m] # "stored" /\ operator[m] # "deleted"
    /\ query = "idle"
    /\ gen = "asleep"

(* Once everything has arrived, a feed shows no content of a message whose    *)
(* tombstone it received: "the server also publishes a tombstone broadcast    *)
(* that reconciles other open feeds" (room-view.tsx:200-201).                 *)
TombstoneReconciles ==
    Settled => \A m \in Message : operator[m] = "heard" => ~ShownAsContent(m)
=============================================================================
