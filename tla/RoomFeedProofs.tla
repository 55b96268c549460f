---------------------------- MODULE RoomFeedProofs ----------------------------
(***************************************************************************)
(* Proofs about a room's feed and its subscription, for any broadcasts and   *)
(* any bounds.  A step of the feed is a step of roomMessages or leaves it    *)
(* alone (FeedStep), so the first invariant and the refinement speak of      *)
(* RoomSubscription only.  The second invariant is about the rows: what the  *)
(* feed shows is in seen, and neither the table nor an answer of the history *)
(* query has a message twice.                                                *)
(***************************************************************************)
EXTENDS RoomFeed, SequenceTheorems, FiniteSetTheorems, TLAPS

SubscriptionNext ==
    \/ Open \/ Attach \/ Detach \/ Abort
    \/ Subscribed \/ SubscribeFails \/ Resume \/ Pull \/ Return
    \/ \E b \in Broadcast : Deliver(b)

\* Nothing reaches a subscription that is not running.
Idle == ~Running => ~attached /\ queue = <<>>

IInv == SubscriptionTypeOK /\ Idle /\ SleepsOnlyWhenIdle

USE DEF Suspended, Running, subscription

LEMMA FeedStep == ASSUME [Next]_vars PROVE SubscriptionNext \/ UNCHANGED subscription
<1>1. RoomBroadcast = Broadcast
  BY BroadcastAssumption
<1>2. \A m \in Message : {MessageOf(m), TombstoneOf(m), Notice} \subseteq RoomBroadcast
  BY DEF RoomBroadcast
<1>3. \A b \in RoomBroadcast : Published(b) => SubscriptionNext \/ UNCHANGED subscription
  BY <1>1 DEF Published, SubscriptionNext
<1>4. Notice \in RoomBroadcast
  BY DEF RoomBroadcast
<1>5. CASE PublishNotice
  BY <1>3, <1>4, <1>5 DEF PublishNotice
<1>6. ASSUME NEW m \in Message, Publish(m) \/ PublishTombstone(m)
      PROVE  SubscriptionNext \/ UNCHANGED subscription
  BY <1>2, <1>3, <1>6 DEF Publish, PublishTombstone
<1>7. ASSUME NEW m \in Message,
             Store(m) \/ PublishLost(m) \/ Delete(m) \/ TombstoneLost(m) \/ Confirm(m)
      PROVE  UNCHANGED subscription
  BY <1>7 DEF Store, PublishLost, Delete, TombstoneLost, Confirm
<1>8. CASE Ask \/ ListHistory \/ Seed \/ Quiet \/ UNCHANGED vars
  BY <1>8 DEF Ask, ListHistory, Seed, Seeded, Quiet, vars
<1>9. CASE OpenFeed \/ Connect \/ Continue \/ FeedFails \/ LoseRedis \/ Receive \/ CloseFeed
  BY <1>9 DEF OpenFeed, Connect, Continue, FeedFails, LoseRedis, Receive, CloseFeed,
              SubscriptionNext
<1> QED
  BY <1>5, <1>6, <1>7, <1>8, <1>9 DEF Next

-----------------------------------------------------------------------------
(* The invariant.                                                           *)

LEMMA InitIInv == Init => IInv
<1> SUFFICES ASSUME SubscriptionInit PROVE IInv
  BY DEF Init
<1>1. SubscriptionTypeOK
  BY EmptySeq DEF SubscriptionInit, SubscriptionTypeOK
<1>2. Idle
  BY Zenon DEF SubscriptionInit, Idle
<1>3. SleepsOnlyWhenIdle
  BY DEF SubscriptionInit, SleepsOnlyWhenIdle
<1> QED
  BY <1>1, <1>2, <1>3 DEF IInv

\* The three ways the loop of roomMessages goes on keep the invariant.
LEMMA EndKeeps == IInv /\ End => IInv'
<1> SUFFICES ASSUME IInv, End PROVE IInv'
  OBVIOUS
<1>1. SubscriptionTypeOK'
  BY EmptySeq DEF IInv, SubscriptionTypeOK, End
<1>2. Idle'
  BY Zenon DEF Idle, End
<1>3. SleepsOnlyWhenIdle'
  BY DEF SleepsOnlyWhenIdle, End
<1> QED
  BY <1>1, <1>2, <1>3 DEF IInv

LEMMA DrainKeeps == IInv /\ Running /\ Drain => IInv'
<1> SUFFICES ASSUME IInv, Running, Drain PROVE IInv'
  OBVIOUS
<1>1. CASE queue # <<>>
  <2>1. Head(queue) \in Broadcast /\ Tail(queue) \in Seq(Broadcast)
    BY <1>1, HeadTailProperties DEF IInv, SubscriptionTypeOK
  <2> QED
    BY <1>1, <2>1, NoneIsNoBroadcast
      DEF Drain, IInv, SubscriptionTypeOK, Idle, SleepsOnlyWhenIdle
<1>2. CASE queue = <<>> /\ aborted
  <2>1. End
    BY <1>2 DEF Drain
  <2> QED
    BY <2>1, EndKeeps
<1>3. CASE queue = <<>> /\ ~aborted
  BY <1>3 DEF Drain, IInv, SubscriptionTypeOK, Idle, SleepsOnlyWhenIdle
<1> QED
  BY <1>1, <1>2, <1>3

LEMMA LoopKeeps == IInv /\ Running /\ Loop => IInv'
  BY EndKeeps, DrainKeeps DEF Loop

LEMMA DeliverKeeps == ASSUME IInv, NEW b \in Broadcast, Deliver(b) PROVE IInv'
<1>1. Append(queue, b) \in Seq(Broadcast)
  BY AppendProperties DEF IInv, SubscriptionTypeOK
<1> QED
  BY <1>1 DEF Deliver, IInv, SubscriptionTypeOK, Idle, SleepsOnlyWhenIdle

LEMMA StepKeeps == IInv /\ [Next]_vars => IInv'
<1> SUFFICES ASSUME IInv, SubscriptionNext \/ UNCHANGED subscription PROVE IInv'
  BY FeedStep
<1>1. CASE Open
  BY <1>1 DEF Open, IInv, SubscriptionTypeOK, Idle, SleepsOnlyWhenIdle
<1>7. CASE Attach
  BY <1>7 DEF Attach, IInv, SubscriptionTypeOK, Idle, SleepsOnlyWhenIdle
<1>8. CASE Detach
  BY <1>8 DEF Detach, IInv, SubscriptionTypeOK, Idle, SleepsOnlyWhenIdle
<1>9. CASE Abort
  BY <1>9 DEF Abort, IInv, SubscriptionTypeOK, Idle, SleepsOnlyWhenIdle
<1>2. CASE Subscribed \/ Resume
  BY <1>2, LoopKeeps DEF Subscribed, Resume
<1>3. CASE Pull
  BY <1>3, DrainKeeps DEF Pull
<1>4. CASE Return
  BY <1>4, EndKeeps DEF Return
<1>10. CASE SubscribeFails
  BY <1>10, EmptySeq DEF SubscribeFails, IInv, SubscriptionTypeOK, Idle, SleepsOnlyWhenIdle
<1>5. CASE \E b \in Broadcast : Deliver(b)
  BY <1>5, DeliverKeeps
<1>6. CASE UNCHANGED subscription
  BY <1>6 DEF IInv, SubscriptionTypeOK, Idle, SleepsOnlyWhenIdle
<1> QED
  BY <1>1, <1>2, <1>3, <1>4, <1>5, <1>6, <1>7, <1>8, <1>9, <1>10 DEF SubscriptionNext

THEOREM Invariant == Spec => []IInv
  BY InitIInv, StepKeeps, PTL DEF Spec

(* A generator asleep has an empty queue and no abort to notice: the wake-up  *)
(* of roomMessages is never lost (broadcast.ts:81-111).                       *)
THEOREM NoLostWakeUp == Spec => []SleepsOnlyWhenIdle
<1>1. IInv => SleepsOnlyWhenIdle
  BY DEF IInv
<1> QED
  BY Invariant, <1>1, PTL

-----------------------------------------------------------------------------
(* The subscription implements the channel.                                 *)

ChannelStep == Channel!Next \/ (UNCHANGED Running /\ UNCHANGED Pending)

USE DEF Channel!Next, Channel!Start, Channel!Put, Channel!Take, Channel!End, ChannelStep

LEMMA PendingType == IInv => Pending \in Seq(Broadcast)
<1> SUFFICES ASSUME IInv PROVE Pending \in Seq(Broadcast)
  OBVIOUS
<1>1. CASE value = None
  BY <1>1, ConcatEmptySeq DEF Pending, IInv, SubscriptionTypeOK
<1>2. CASE value # None
  <2>1. <<value>> \in Seq(Broadcast) /\ queue \in Seq(Broadcast)
    BY <1>2 DEF IInv, SubscriptionTypeOK
  <2> QED
    BY <1>2, <2>1, ConcatProperties DEF Pending
<1> QED
  BY <1>1, <1>2

\* The finally block drops what is pending, with the subscription.
LEMMA EndEnds == Running /\ End => ChannelStep
<1> SUFFICES ASSUME Running, End PROVE ChannelStep
  OBVIOUS
<1>1. gen' = "off" /\ Pending' = <<>>
  BY DEF End, Pending
<1> QED
  BY <1>1

\* The loop moves the head of the queue into the reader's hand ...
LEMMA LoopHandsOn == IInv /\ value = None /\ Running /\ Loop => ChannelStep
<1> SUFFICES ASSUME IInv, value = None, Running, Loop PROVE ChannelStep
  OBVIOUS
<1>1. CASE aborted
  BY <1>1, EndEnds DEF Loop
<1>2. CASE ~aborted /\ queue # <<>>
  <2>1. /\ gen' = "yielded" /\ value' = Head(queue) /\ queue' = Tail(queue)
    BY <1>2 DEF Loop, Drain
  <2>2. queue = <<Head(queue)>> \o Tail(queue) /\ Head(queue) \in Broadcast
    BY <1>2, HeadTailProperties DEF IInv, SubscriptionTypeOK
  <2>3. Pending' = Pending
    BY <2>1, <2>2, NoneIsNoBroadcast, ConcatEmptySeq DEF Pending, IInv, SubscriptionTypeOK
  <2> QED
    BY <2>1, <2>3
<1>3. CASE ~aborted /\ queue = <<>>
  <2>1. gen' = "asleep" /\ value' = None /\ queue' = queue
    BY <1>3 DEF Loop, Drain
  <2> QED
    BY <2>1 DEF Pending
<1> QED
  BY <1>1, <1>2, <1>3

\* ... and the reader, asking for the next one, leaves exactly the tail.
LEMMA PullTakes == IInv /\ Pull => ChannelStep
<1> SUFFICES ASSUME IInv, Pull PROVE ChannelStep
  OBVIOUS
<1>1. gen = "yielded" /\ value \in Broadcast /\ value # None /\ queue \in Seq(Broadcast)
  BY DEF Pull, IInv, SubscriptionTypeOK
<1>2. Pending = <<value>> \o queue /\ Pending # <<>> /\ Tail(Pending) = queue
  BY <1>1 DEF Pending
<1>3. CASE queue # <<>>
  <2>1. gen' = "yielded" /\ value' = Head(queue) /\ queue' = Tail(queue)
    BY <1>3 DEF Pull, Drain
  <2>2. queue = <<Head(queue)>> \o Tail(queue) /\ Head(queue) \in Broadcast
    BY <1>1, <1>3, HeadTailProperties
  <2>3. Pending' = queue
    BY <2>1, <2>2, NoneIsNoBroadcast DEF Pending
  <2> QED
    BY <1>1, <1>2, <2>1, <2>3
<1>4. CASE queue = <<>>
  <2>1. gen' = "asleep" /\ value' = None /\ queue' = queue
    BY <1>4 DEF Pull, Drain
  <2>2. Pending' = <<>>
    BY <1>4, <2>1 DEF Pending
  <2> QED
    BY <1>1, <1>2, <1>4, <2>1, <2>2
<1> QED
  BY <1>3, <1>4

LEMMA DeliverPuts == ASSUME NEW b \in Broadcast PROVE IInv /\ Deliver(b) => ChannelStep
<1> SUFFICES ASSUME IInv, Deliver(b) PROVE ChannelStep
  OBVIOUS
<1>1. Running /\ Running'
  BY DEF Deliver, IInv, Idle
<1>2. value' = value /\ queue' = Append(queue, b) /\ queue \in Seq(Broadcast)
  BY DEF Deliver, IInv, SubscriptionTypeOK
<1>3. value \in Broadcast \union {None}
  BY DEF IInv, SubscriptionTypeOK
<1>4. Pending' = Append(Pending, b)
  <2>1. CASE value = None
    BY <2>1, <1>2, ConcatEmptySeq, AppendProperties DEF Pending
  <2>2. CASE value # None
    BY <2>2, <1>2, <1>3 DEF Pending
  <2> QED
    BY <2>1, <2>2
<1> QED
  BY <1>1, <1>4

LEMMA StepRefines == IInv /\ [Next]_vars => ChannelStep
<1> SUFFICES ASSUME IInv, SubscriptionNext \/ UNCHANGED subscription PROVE ChannelStep
  BY FeedStep
<1>1. CASE Open
  <2>1. ~Running /\ Running' /\ value' = value /\ queue' = queue
    BY <1>1 DEF Open
  <2> QED
    BY <2>1 DEF Pending
<1>2. CASE Attach \/ Detach \/ Abort \/ UNCHANGED subscription
  <2>1. value' = value /\ queue' = queue /\ Running' = Running
    BY <1>2 DEF Attach, Detach, Abort
  <2> QED
    BY <2>1 DEF Pending
<1>3. CASE Subscribed \/ Resume
  <2>1. value = None /\ Running /\ Loop
    BY <1>3 DEF Subscribed, Resume, IInv, SubscriptionTypeOK
  <2> QED
    BY <2>1, LoopHandsOn
<1>4. CASE Return
  <2>1. Running /\ End
    BY <1>4 DEF Return
  <2> QED
    BY <2>1, EndEnds
<1>7. CASE SubscribeFails
  <2>1. Running /\ ~Running' /\ Pending' = <<>>
    BY <1>7 DEF SubscribeFails, Pending, IInv, SubscriptionTypeOK
  <2> QED
    BY <2>1
<1>5. CASE Pull
  BY <1>5, PullTakes
<1>6. CASE \E b \in Broadcast : Deliver(b)
  BY <1>6, DeliverPuts
<1> QED
  BY <1>1, <1>2, <1>3, <1>4, <1>5, <1>6, <1>7 DEF SubscriptionNext

(* Whatever senders, operators, Redis and the browser do, the subscription   *)
(* hands over what was delivered to it in order, each broadcast once: every  *)
(* step of roomMessages is a step of the channel or leaves it alone          *)
(* (broadcast.ts:73-120).                                                    *)
THEOREM RefinesChannel == Spec => Channel!Init /\ [][Channel!Next]_<<Running, Pending>>
<1>1. Init => Channel!Init
  BY DEF Init, SubscriptionInit, Channel!Init, Pending
<1>2. IInv /\ [Next]_vars => [Channel!Next]_<<Running, Pending>>
  BY StepRefines
<1> QED
  BY Invariant, <1>1, <1>2, PTL DEF Spec

-----------------------------------------------------------------------------
(* The rows.                                                                *)

Distinct(s) == \A i, j \in DOMAIN s : s[i] = s[j] => i = j

\* A send stores its row once.
TableOnce ==
    /\ Distinct(table)
    /\ \A i \in DOMAIN table : sender[table[i]] # "idle"

\* An answer of the history query has messages only, each once.
RowsOnce ==
    /\ \A i \in DOMAIN rows : rows[i].id \in Message
    /\ \A i, j \in DOMAIN rows : rows[i].id = rows[j].id => i = j

ShownIsSeen == \A i \in DOMAIN items : items[i].id \in seen \union {None}

FeedInv == TypeOK /\ TableOnce /\ RowsOnce /\ ShownIsSeen /\ ShownOnce

\* The variables of the feed without the subscription.
FeedTypes ==
    /\ table \in Seq(Message)
    /\ deleted \subseteq ToSet(table)
    /\ sender \in [Message -> {"idle", "stored", "answered"}]
    /\ operator \in [Message -> {"idle", "deleted", "heard", "missed"}]
    /\ query \in {"idle", "asked", "answered"}
    /\ rows \in Seq(Item)
    /\ query # "answered" => rows = <<>>
    /\ items \in Seq(Item)
    /\ seen \subseteq Message
    /\ events \in 0..MaxEvents

LEMMA TypeParts == TypeOK <=> SubscriptionTypeOK /\ FeedTypes
BY DEF TypeOK, FeedTypes

\* Marking a row keeps the feed's rows, in their places.
LEMMA MarkedProperties ==
  ASSUME NEW feed \in Seq(Item), NEW m \in Message
  PROVE  /\ Marked(feed, m) \in Seq(Item)
         /\ DOMAIN Marked(feed, m) = DOMAIN feed
         /\ Len(Marked(feed, m)) = Len(feed)
         /\ \A i \in DOMAIN feed : /\ Marked(feed, m)[i].id = feed[i].id
                                   /\ feed[i].deleted => Marked(feed, m)[i].deleted
<1>1. \A i \in DOMAIN feed : feed[i] \in Item /\ [feed[i] EXCEPT !.deleted = TRUE] \in Item
  <2>1. ASSUME NEW item \in Item PROVE [item EXCEPT !.deleted = TRUE] \in Item
    BY DEF Item
  <2>2. QED BY <2>1
<1>2. DOMAIN feed = 1..Len(feed) /\ Len(feed) \in Nat BY LenProperties
<1>3. Marked(feed, m) \in [1..Len(feed) -> Item] BY <1>1, <1>2 DEF Marked
<1>4. Marked(feed, m) \in Seq(Item) /\ Len(Marked(feed, m)) = Len(feed) BY <1>2, <1>3
<1>5. \A i \in DOMAIN feed : /\ Marked(feed, m)[i].id = feed[i].id
                             /\ feed[i].deleted => Marked(feed, m)[i].deleted
  BY <1>1 DEF Marked, Item
<1>6. QED BY <1>2, <1>3, <1>4, <1>5

\* A new last item that is a notice, or a message not seen before.
LEMMA AppendedItem ==
  ASSUME items \in Seq(Item), seen \subseteq Message, ShownIsSeen, ShownOnce,
         NEW item \in Item, item.id = None \/ item.id \notin seen,
         items' = Append(items, item), item.id \in seen' \union {None},
         seen \subseteq seen', seen' \subseteq Message
  PROVE  items' \in Seq(Item) /\ ShownIsSeen' /\ ShownOnce'
<1>1. /\ items' \in Seq(Item) /\ DOMAIN items' = 1..Len(items) + 1 /\ Len(items) \in Nat
      /\ \A i \in 1..Len(items) : items'[i] = items[i]
      /\ items'[Len(items) + 1] = item /\ DOMAIN items = 1..Len(items)
  BY AppendProperties, LenProperties
<1>2. ShownIsSeen' BY <1>1 DEF ShownIsSeen
<1>3. ShownOnce' BY <1>1 DEF ShownOnce, ShownIsSeen
<1>4. QED BY <1>1, <1>2, <1>3

LEMMA BroadcastKeepsRows ==
  ASSUME items \in Seq(Item), seen \subseteq Message, ShownIsSeen, ShownOnce,
         NEW b \in RoomBroadcast, AppendBroadcast(b)
  PROVE  /\ items' \in Seq(Item) /\ seen' \subseteq Message /\ ShownIsSeen' /\ ShownOnce'
         /\ Len(items) <= Len(items')
         /\ \A i \in DOMAIN items : /\ items'[i].id = items[i].id
                                    /\ items[i].deleted => items'[i].deleted
<1>a. Len(items) \in Nat /\ DOMAIN items = 1..Len(items) BY LenProperties
<1>1. CASE b.kind = "tombstone"
  <2>1. b.id \in Message BY <1>1 DEF RoomBroadcast, MessageOf, TombstoneOf, Notice
  <2>2. items' = Marked(items, b.id) /\ seen' = seen BY <1>1 DEF AppendBroadcast
  <2>3. ShownIsSeen' /\ ShownOnce' BY <2>1, <2>2, MarkedProperties DEF ShownIsSeen, ShownOnce
  <2>4. QED BY <1>a, <2>1, <2>2, <2>3, MarkedProperties
<1>2. CASE b.kind = "message"
  <2>1. b.id \in Message BY <1>2 DEF RoomBroadcast, MessageOf, TombstoneOf, Notice
  <2>2. CASE b.id \in seen
    BY <1>a, <1>2, <2>2 DEF AppendBroadcast, ShownIsSeen, ShownOnce
  <2>3. CASE b.id \notin seen
    <3>1. items' = Append(items, Row(b.id)) /\ seen' = seen \union {b.id}
      BY <1>2, <2>3 DEF AppendBroadcast
    <3>2. Row(b.id) \in Item /\ Row(b.id).id = b.id BY <2>1 DEF Row, Item
    <3>3. QED BY <1>a, <2>1, <2>3, <3>1, <3>2, AppendedItem, AppendProperties
  <2>4. QED BY <2>2, <2>3
<1>3. CASE b.kind = "system"
  <2>1. items' = Append(items, NoticeItem) /\ seen' = seen BY <1>3 DEF AppendBroadcast
  <2>2. NoticeItem \in Item /\ NoticeItem.id = None BY DEF NoticeItem, Item
  <2>3. QED BY <1>a, <2>1, <2>2, AppendedItem, AppendProperties
<1>4. QED BY <1>1, <1>2, <1>3 DEF RoomBroadcast, MessageOf, TombstoneOf, Notice

\* The effect on the history: new rows before the feed's own.
LEMMA SeedKeepsRows ==
  ASSUME items \in Seq(Item), rows \in Seq(Item), seen \subseteq Message, ShownIsSeen,
         ShownOnce, RowsOnce, Seed
  PROVE  /\ items' \in Seq(Item) /\ seen' \subseteq Message /\ ShownIsSeen' /\ ShownOnce'
         /\ \E k \in 0..Len(items') - Len(items) : \A i \in DOMAIN items :
                items'[i + k] = items[i]
<1>1. DOMAIN rows = 1..Len(rows) /\ Len(rows) \in Nat /\ DOMAIN items = 1..Len(items)
      /\ Len(items) \in Nat
  BY LenProperties
<1>2. Cardinality(Fresh) \in Nat
  <2>1. IsFiniteSet(1..Len(rows)) BY <1>1, FS_Interval
  <2>2. IsFiniteSet(Fresh) BY <1>1, <2>1, FS_Subset DEF Fresh
  <2>3. QED BY <2>2, FS_CardinalityType
<1>3. PICK at \in [1..Cardinality(Fresh) -> Fresh] :
         Ascending(at) /\ items' = [j \in DOMAIN at |-> rows[at[j]]] \o items
  BY DEF Seed
<1> DEFINE new == [j \in DOMAIN at |-> rows[at[j]]]
           n == Cardinality(Fresh)
<1>4. \A j \in 1..n : /\ at[j] \in DOMAIN rows /\ new[j] = rows[at[j]] /\ new[j] \in Item
                      /\ new[j].id \in Message /\ new[j].id \notin seen
  BY <1>1, <1>3 DEF Fresh, RowsOnce
<1>5. \A j, k \in 1..n : new[j].id = new[k].id => j = k
  <2>1. SUFFICES ASSUME NEW j \in 1..n, NEW k \in 1..n, new[j].id = new[k].id PROVE j = k
    OBVIOUS
  <2>2. at[j] = at[k] BY <1>4, <2>1 DEF RowsOnce
  <2>3. at[j] \in Nat BY <1>1, <1>4
  <2>4. QED BY <1>2, <1>3, <2>2, <2>3 DEF Ascending
<1>6. new \in [1..n -> Item] BY <1>3, <1>4
<1>7. new \in Seq(Item) /\ Len(new) = n BY <1>2, <1>6
<1> HIDE DEF new, n
<1>8. /\ items' \in Seq(Item) /\ Len(items') = n + Len(items) /\ n \in Nat
      /\ \A i \in 1..n : items'[i] = new[i]
      /\ \A i \in 1..Len(items) : items'[i + n] = items[i]
      /\ \A i \in 1..n + Len(items) : i \notin 1..n => items'[i] = items[i - n]
                                                      /\ i - n \in 1..Len(items)
  <2>1. items' = new \o items BY <1>3 DEF new
  <2>2. n \in Nat BY <1>2 DEF n
  <2>3. /\ items' \in Seq(Item) /\ Len(items') = n + Len(items)
        /\ \A i \in 1..n + Len(items) :
              items'[i] = IF i <= n THEN new[i] ELSE items[i - n]
    BY <1>7, <2>1, ConcatProperties
  <2>4. \A i \in 1..n + Len(items) : i \notin 1..n => ~(i <= n) /\ i - n \in 1..Len(items)
    BY <1>1, <2>2
  <2>5. \A i \in 1..n : i \in 1..n + Len(items) /\ i <= n BY <1>1, <2>2
  <2>6. \A i \in 1..Len(items) : /\ i + n \in 1..n + Len(items) /\ ~(i + n <= n)
                                 /\ (i + n) - n = i
    BY <1>1, <2>2
  <2>7. QED BY <2>2, <2>3, <2>4, <2>5, <2>6
<1>9. DOMAIN items' = 1..n + Len(items) BY <1>8, LenProperties
<1>10. seen' = seen \union {rows[i].id : i \in DOMAIN rows} BY DEF Seed, Seeded
<1>11. seen' \subseteq Message BY <1>10 DEF RowsOnce
<1>12. ShownIsSeen'
  <2>1. \A i \in 1..n : items'[i].id \in seen' BY <1>4, <1>8, <1>10 DEF n
  <2>2. QED BY <1>1, <1>8, <1>9, <1>10, <2>1 DEF ShownIsSeen
<1>13. ShownOnce'
  <2>1. SUFFICES ASSUME NEW i \in DOMAIN items', NEW j \in DOMAIN items',
                        items'[i].id = items'[j].id, items'[i].id # None
                 PROVE  i = j
    BY DEF ShownOnce
  <2>2. CASE i \in 1..n /\ j \in 1..n BY <1>5, <1>8, <2>1, <2>2 DEF n
  <2>3. CASE i \notin 1..n /\ j \notin 1..n
    <3>1. /\ i - n \in DOMAIN items /\ j - n \in DOMAIN items
          /\ items[i - n].id = items[j - n].id /\ items[i - n].id # None
      BY <1>1, <1>8, <1>9, <2>1, <2>3
    <3>2. i - n = j - n BY <3>1 DEF ShownOnce
    <3>3. QED BY <1>1, <1>8, <1>9, <3>2
  <2>4. ASSUME NEW h \in 1..n, NEW k \in DOMAIN items', k \notin 1..n,
               items'[h].id = items'[k].id
        PROVE  items'[h].id = None
    <3>1. items'[h].id \notin seen /\ items'[h].id \in Message BY <1>4, <1>8 DEF n
    <3>2. items'[k].id \in seen \union {None} BY <1>1, <1>8, <1>9, <2>4 DEF ShownIsSeen
    <3>3. QED BY <2>4, <3>1, <3>2
  <2>5. QED BY <2>1, <2>2, <2>3, <2>4
<1>14. n \in 0..Len(items') - Len(items) BY <1>1, <1>8
<1>15. QED BY <1>1, <1>8, <1>11, <1>12, <1>13, <1>14

\* What message.list answers with: rows of the table, none twice.
LEMMA ListedProperties ==
  ASSUME table \in Seq(Message), Distinct(table)
  PROVE  /\ Listed \in Seq(Item)
         /\ \A i \in DOMAIN Listed : Listed[i].id \in Message
         /\ \A i, j \in DOMAIN Listed : Listed[i].id = Listed[j].id => i = j
<1> DEFINE from == Max({1, Len(table) - HistoryLimit + 1})
<1>1. Len(table) \in Nat /\ DOMAIN table = 1..Len(table) BY LenProperties
<1>2. from \in Nat /\ from >= 1
  <2>1. HistoryLimit \in Nat BY LimitAssumption
  <2>2. \E x \in {1, Len(table) - HistoryLimit + 1} :
           \A y \in {1, Len(table) - HistoryLimit + 1} : x >= y
    BY <1>1, <2>1
  <2>3. /\ from \in {1, Len(table) - HistoryLimit + 1}
        /\ \A y \in {1, Len(table) - HistoryLimit + 1} : from >= y
    BY <2>2 DEF Max
  <2>4. QED BY <1>1, <2>1, <2>3
<1> HIDE DEF from
<1>3. Newest = SubSeq(table, from, Len(table)) BY DEF Newest, from
<1>4. \A i \in from..Len(table) : i \in DOMAIN table /\ table[i] \in Message BY <1>1, <1>2
<1>5. /\ Newest \in Seq(Message)
      /\ Len(Newest) = IF from <= Len(table) THEN Len(table) - from + 1 ELSE 0
      /\ \A i \in 1..Len(table) - from + 1 : Newest[i] = table[from + i - 1]
  BY <1>1, <1>2, <1>3, <1>4, SubSeqProperties
<1>6. DOMAIN Newest = 1..Len(Newest) /\ Len(Newest) \in Nat BY <1>5, LenProperties
<1>7. \A i \in DOMAIN Newest : Newest[i] \in Message BY <1>5, <1>6
<1>8. \A i, j \in DOMAIN Newest : Newest[i] = Newest[j] => i = j
  <2>1. \A i \in DOMAIN Newest : /\ Newest[i] = table[from + i - 1]
                                 /\ from + i - 1 \in DOMAIN table
    BY <1>1, <1>2, <1>5, <1>6
  <2>2. SUFFICES ASSUME NEW i \in DOMAIN Newest, NEW j \in DOMAIN Newest,
                        Newest[i] = Newest[j]
                 PROVE  i = j
    OBVIOUS
  <2>3. from + i - 1 = from + j - 1 BY <2>1, <2>2 DEF Distinct
  <2>4. QED BY <1>2, <1>6, <2>2, <2>3
<1>9. \A i \in DOMAIN Newest : [id |-> Newest[i], deleted |-> Newest[i] \in deleted] \in Item
  BY <1>7 DEF Item
<1>10. Listed \in [1..Len(Newest) -> Item] BY <1>6, <1>9 DEF Listed
<1>11. Listed \in Seq(Item) BY <1>6, <1>10
<1>12. DOMAIN Listed = DOMAIN Newest /\ \A i \in DOMAIN Newest : Listed[i].id = Newest[i]
  BY DEF Listed
<1>13. QED BY <1>7, <1>8, <1>11, <1>12

LEMMA StoreKeepsTable ==
  ASSUME FeedTypes, TableOnce, NEW m \in Message, Store(m)
  PROVE  FeedTypes' /\ TableOnce'
<1>1. /\ table' \in Seq(Message) /\ DOMAIN table' = 1..Len(table) + 1 /\ Len(table) \in Nat
      /\ \A i \in 1..Len(table) : table'[i] = table[i]
      /\ table'[Len(table) + 1] = m /\ DOMAIN table = 1..Len(table)
  BY AppendProperties, LenProperties DEF Store, FeedTypes
<1>2. /\ sender' = [sender EXCEPT ![m] = "stored"] /\ sender[m] = "idle"
      /\ UNCHANGED <<deleted, operator, query, rows, items, seen, events>>
  BY DEF Store, browser
<1>3. \A i \in DOMAIN table : table[i] \in Message /\ table[i] # m
  BY <1>1, <1>2 DEF FeedTypes, TableOnce
<1>4. ToSet(table) \subseteq ToSet(table') BY <1>1 DEF ToSet
<1>5. FeedTypes' BY <1>1, <1>2, <1>4 DEF FeedTypes
<1>6. Distinct(table)' BY <1>1, <1>3 DEF TableOnce, Distinct
<1>7. \A i \in DOMAIN table' : sender'[table'[i]] # "idle"
  BY <1>1, <1>2, <1>3 DEF FeedTypes, TableOnce
<1>8. QED BY <1>5, <1>6, <1>7 DEF TableOnce

\* What senders and operators do besides: no send goes back to its start.
LEMMA ServerKeepsTable ==
  ASSUME FeedTypes, TableOnce, NEW m \in Message,
         \/ Publish(m) \/ PublishLost(m) \/ Delete(m) \/ PublishTombstone(m) \/ TombstoneLost(m)
  PROVE  FeedTypes' /\ TableOnce'
<1>1. UNCHANGED <<table, query, rows, items, seen>>
  BY DEF Publish, PublishLost, Delete, PublishTombstone, TombstoneLost, browser
<1>2. /\ sender' = sender \/ sender' = [sender EXCEPT ![m] = "answered"]
      /\ operator' \in [Message -> {"idle", "deleted", "heard", "missed"}]
  BY DEF Publish, PublishLost, Delete, PublishTombstone, TombstoneLost, FeedTypes
<1>3. deleted' = deleted \/ (deleted' = deleted \union {m} /\ m \in ToSet(table))
  BY DEF Publish, PublishLost, Delete, PublishTombstone, TombstoneLost
<1>4. events' \in 0..MaxEvents
  BY BoundsAssumption
    DEF Publish, PublishLost, Delete, PublishTombstone, TombstoneLost, Event, FeedTypes
<1>5. FeedTypes' BY <1>1, <1>2, <1>3, <1>4 DEF FeedTypes
<1>6. \A i \in DOMAIN table : table[i] \in Message BY LenProperties DEF FeedTypes
<1>7. TableOnce' BY <1>1, <1>2, <1>6 DEF FeedTypes, TableOnce
<1>8. QED BY <1>5, <1>7

\* Steps that leave the server and the rows of the query alone.
LEMMA BrowserFrame ==
  ASSUME FeedInv, UNCHANGED <<server, query, rows>>, SubscriptionTypeOK',
         events' \in 0..MaxEvents, items' \in Seq(Item), seen' \subseteq Message,
         ShownIsSeen', ShownOnce'
  PROVE  FeedInv'
<1>1. FeedTypes' BY TypeParts DEF FeedInv, FeedTypes, server
<1>2. TypeOK' BY <1>1, TypeParts DEF TypeOK, FeedTypes
<1>3. TableOnce' /\ RowsOnce' BY DEF FeedInv, TableOnce, RowsOnce, Distinct, server
<1>4. QED BY <1>2, <1>3 DEF FeedInv

\* Steps of the subscription that show nothing, and stuttering.
QuietStep ==
    \/ OpenFeed \/ Connect \/ Continue \/ LoseRedis \/ CloseFeed \/ PublishNotice \/ Quiet
    \/ UNCHANGED vars

\* Steps that show something of the broadcast b.
ShowStep(b) ==
    /\ AppendBroadcast(b)
    /\ UNCHANGED <<server, query, rows, events>>

LEMMA ShowSteps ==
  ASSUME IInv, (\E m \in Message : Confirm(m)) \/ Receive
  PROVE  \E b \in RoomBroadcast : ShowStep(b)
<1>1. ASSUME NEW m \in Message, Confirm(m) PROVE \E b \in RoomBroadcast : ShowStep(b)
  <2>1. TombstoneOf(m) \in RoomBroadcast BY DEF RoomBroadcast
  <2>2. ShowStep(TombstoneOf(m)) BY <1>1 DEF Confirm, ShowStep
  <2>3. QED BY <2>1, <2>2
<1>2. CASE Receive
  <2>1. value \in Broadcast BY <1>2 DEF Receive, Pull, IInv, SubscriptionTypeOK
  <2>2. value \in RoomBroadcast BY <2>1, BroadcastAssumption
  <2>3. ShowStep(value) BY <1>2 DEF Receive, ShowStep
  <2>4. QED BY <2>2, <2>3
<1>3. QED BY <1>1, <1>2

LEMMA NoticeShown ==
  ASSUME FeedInv, FeedFails
  PROVE  /\ items' \in Seq(Item) /\ ShownIsSeen' /\ ShownOnce' /\ seen' = seen
         /\ Len(items') = Len(items) + 1 /\ \A i \in DOMAIN items : items'[i] = items[i]
<1>1. NoticeItem \in Item /\ NoticeItem.id = None BY DEF NoticeItem, Item
<1>2. items' = Append(items, NoticeItem) /\ seen' = seen BY DEF FeedFails
<1>3. items \in Seq(Item) /\ seen \subseteq Message BY TypeParts DEF FeedInv, FeedTypes
<1>4. DOMAIN items = 1..Len(items) BY <1>3, LenProperties
<1>5. QED BY <1>1, <1>2, <1>3, <1>4, AppendedItem, AppendProperties DEF FeedInv

LEMMA FeedInvNext == IInv /\ IInv' /\ FeedInv /\ [Next]_vars => FeedInv'
<1> SUFFICES ASSUME IInv, IInv', FeedInv, [Next]_vars PROVE FeedInv'
  OBVIOUS
<1>a. FeedTypes /\ TableOnce /\ RowsOnce /\ ShownIsSeen /\ ShownOnce /\ SubscriptionTypeOK'
  BY TypeParts DEF FeedInv, IInv
<1>b. /\ items \in Seq(Item) /\ rows \in Seq(Item) /\ seen \subseteq Message
      /\ events \in 0..MaxEvents
  BY <1>a DEF FeedTypes
<1>c. Event => events' \in 0..MaxEvents BY <1>b, BoundsAssumption DEF Event
<1>d. TypeOK' <=> FeedTypes' BY <1>a DEF TypeOK, FeedTypes
<1>1. ASSUME NEW m \in Message,
             \/ Store(m) \/ Publish(m) \/ PublishLost(m) \/ Delete(m) \/ PublishTombstone(m)
             \/ TombstoneLost(m)
      PROVE  FeedInv'
  <2>1. FeedTypes' /\ TableOnce' BY <1>1, <1>a, StoreKeepsTable, ServerKeepsTable
  <2>2. UNCHANGED <<rows, items, seen>>
    BY <1>1 DEF Store, Publish, PublishLost, Delete, PublishTombstone, TombstoneLost, browser
  <2>3. RowsOnce' /\ ShownIsSeen' /\ ShownOnce'
    BY <1>a, <2>2 DEF RowsOnce, ShownIsSeen, ShownOnce
  <2>4. QED BY <1>d, <2>1, <2>3 DEF FeedInv
<1>2. CASE Ask
  <2>1. /\ UNCHANGED <<server, rows, items, seen>> /\ query' = "asked" /\ query = "idle"
        /\ events' \in 0..MaxEvents
    BY <1>2, <1>c DEF Ask
  <2>2. FeedTypes' BY <1>a, <2>1 DEF FeedTypes, server
  <2>3. TableOnce' /\ RowsOnce' /\ ShownIsSeen' /\ ShownOnce'
    BY <1>a, <2>1 DEF TableOnce, Distinct, RowsOnce, ShownIsSeen, ShownOnce, server
  <2>4. QED BY <1>d, <2>2, <2>3 DEF FeedInv
<1>3. CASE ListHistory
  <2>1. /\ UNCHANGED <<server, items, seen, events>> /\ query' = "answered" /\ rows' = Listed
    BY <1>3 DEF ListHistory
  <2>2. /\ rows' \in Seq(Item) /\ RowsOnce'
    BY <1>a, <2>1, ListedProperties DEF FeedTypes, TableOnce, RowsOnce
  <2>3. FeedTypes' BY <1>a, <2>1, <2>2 DEF FeedTypes, server
  <2>4. TableOnce' /\ ShownIsSeen' /\ ShownOnce'
    BY <1>a, <2>1 DEF TableOnce, Distinct, ShownIsSeen, ShownOnce, server
  <2>5. QED BY <1>d, <2>2, <2>3, <2>4 DEF FeedInv
<1>4. CASE Seed
  <2>1. /\ UNCHANGED <<server, events>> /\ query' = "idle" /\ rows' = <<>>
    BY <1>4 DEF Seed, Seeded
  <2>2. items' \in Seq(Item) /\ seen' \subseteq Message /\ ShownIsSeen' /\ ShownOnce'
    BY <1>4, <1>a, <1>b, SeedKeepsRows
  <2>3. rows' \in Seq(Item) /\ DOMAIN rows' = {} BY <2>1, EmptySeq, LenProperties
  <2>4. FeedTypes' BY <1>a, <2>1, <2>2, <2>3 DEF FeedTypes, server
  <2>5. TableOnce' /\ RowsOnce' BY <1>a, <2>1, <2>3 DEF TableOnce, Distinct, RowsOnce, server
  <2>6. QED BY <1>d, <2>2, <2>4, <2>5 DEF FeedInv
<1>5. CASE QuietStep
  <2>1. UNCHANGED <<server, browser>> /\ events' \in 0..MaxEvents
    BY <1>5, <1>b, <1>c DEF QuietStep, OpenFeed, Connect, Continue, LoseRedis, CloseFeed,
                            PublishNotice, Quiet, vars
  <2>2. ShownIsSeen' /\ ShownOnce' BY <1>a, <2>1 DEF browser, ShownIsSeen, ShownOnce
  <2>3. QED BY <1>a, <1>b, <2>1, <2>2, BrowserFrame DEF browser
<1>6. CASE (\E m \in Message : Confirm(m)) \/ Receive
  <2>1. PICK b \in RoomBroadcast : ShowStep(b) BY <1>6, ShowSteps
  <2>2. QED BY <1>a, <1>b, <2>1, BroadcastKeepsRows, BrowserFrame DEF ShowStep
<1>7. CASE FeedFails
  <2>1. UNCHANGED <<server, query, rows>> /\ events' \in 0..MaxEvents
    BY <1>7, <1>c DEF FeedFails
  <2>2. QED BY <1>7, <1>a, <1>b, <2>1, NoticeShown, BrowserFrame
<1>8. QED BY <1>1, <1>2, <1>3, <1>4, <1>5, <1>6, <1>7 DEF Next, QuietStep

LEMMA FeedInvariant == Spec => [](IInv /\ FeedInv)
<1>1. Init => FeedInv
  <2>1. SUFFICES ASSUME Init PROVE FeedInv OBVIOUS
  <2>2. SubscriptionTypeOK BY <2>1, InitIInv DEF IInv
  <2>3. <<>> \in Seq(Message) /\ <<>> \in Seq(Item) BY EmptySeq
  <2>4. FeedTypes BY <2>1, <2>3, BoundsAssumption DEF Init, FeedTypes
  <2>5. DOMAIN table = {} /\ DOMAIN rows = {} /\ DOMAIN items = {}
    BY <2>1, <2>3, EmptySeq, LenProperties DEF Init
  <2>6. QED BY <2>2, <2>4, <2>5, TypeParts
             DEF FeedInv, TableOnce, Distinct, RowsOnce, ShownIsSeen, ShownOnce
<1>2. Spec => []IInv BY Invariant
<1>3. QED BY <1>1, <1>2, FeedInvNext, PTL DEF Spec

\* The tables, the query and the feed keep their types.
THEOREM FeedTypesHold == Spec => []TypeOK
<1>1. FeedInv => TypeOK BY DEF FeedInv
<1>2. QED BY <1>1, FeedInvariant, PTL

\* However history, refetches and broadcasts overlap, and however many messages the
\* history query lists, a message has one row (room-view.tsx:147-150 and 163-165).
THEOREM MessageShownOnce == Spec => []ShownOnce
<1>1. FeedInv => ShownOnce BY DEF FeedInv
<1>2. QED BY <1>1, FeedInvariant, PTL

\* Rows once shown stay together and in their order, and a marker stays a marker: a
\* history answer only goes before them, a broadcast only after them.
THEOREM RowsStayShown == Spec => RowsStay
<1> DEFINE Stays == \E k \in 0..Len(items') - Len(items) : \A i \in DOMAIN items :
                        /\ items'[i + k].id = items[i].id
                        /\ items[i].deleted => items'[i + k].deleted
<1>1. ASSUME IInv, FeedInv, [Next]_vars PROVE Stays
  <2>a. /\ items \in Seq(Item) /\ rows \in Seq(Item) /\ seen \subseteq Message
        /\ ShownIsSeen /\ ShownOnce /\ RowsOnce
    BY <1>1, TypeParts DEF FeedInv, FeedTypes
  <2>b. Len(items) \in Nat /\ DOMAIN items = 1..Len(items) BY <2>a, LenProperties
  <2>c. ASSUME Len(items') \in Nat, Len(items) <= Len(items'),
               \A i \in DOMAIN items : /\ items'[i].id = items[i].id
                                       /\ items[i].deleted => items'[i].deleted
        PROVE  Stays
    <3>1. 0 \in 0..Len(items') - Len(items) BY <2>b, <2>c
    <3>2. \A i \in DOMAIN items : i + 0 = i BY <2>b
    <3>3. QED BY <2>c, <3>1, <3>2
  <2>1. CASE Seed
    <3>1. PICK k \in 0..Len(items') - Len(items) :
             \A i \in DOMAIN items : items'[i + k] = items[i]
      BY <2>1, <2>a, SeedKeepsRows
    <3>2. QED BY <3>1
  <2>2. CASE (\E m \in Message : Confirm(m)) \/ Receive
    <3>1. PICK b \in RoomBroadcast : ShowStep(b) BY <1>1, <2>2, ShowSteps
    <3>2. /\ items' \in Seq(Item) /\ Len(items) <= Len(items')
          /\ \A i \in DOMAIN items : /\ items'[i].id = items[i].id
                                     /\ items[i].deleted => items'[i].deleted
      BY <2>a, <3>1, BroadcastKeepsRows DEF ShowStep
    <3>3. Len(items') \in Nat BY <3>2, LenProperties
    <3>4. QED BY <2>c, <3>2, <3>3
  <2>3. CASE FeedFails
    <3>1. Len(items') = Len(items) + 1 /\ \A i \in DOMAIN items : items'[i] = items[i]
      BY <1>1, <2>3, NoticeShown
    <3>2. QED BY <2>b, <2>c, <3>1
  <2>4. CASE UNCHANGED items
    BY <2>b, <2>c, <2>4
  <2>5. QED
    BY <1>1, <2>1, <2>2, <2>3, <2>4
      DEF Next, Store, Publish, PublishLost, Delete, PublishTombstone, TombstoneLost,
          PublishNotice, Ask, ListHistory, OpenFeed, Connect, Continue, LoseRedis, CloseFeed,
          Quiet, vars, browser
<1>2. IInv /\ FeedInv /\ [Next]_vars => [Stays]_vars BY <1>1
<1>3. QED BY <1>2, FeedInvariant, PTL DEF Spec, RowsStay
=============================================================================
