# Discreetly in TLA+

Models, model checks and proofs of Discreetly v2: anonymous group chat in rooms, where
membership is proved in zero knowledge (RLN), and a member who sends more than the room's
limit gives the secret away and is banned. The models are translated from the code in
`services/api`, `apps/web` and `packages/db`; the source lines of every definition are in
`PROJECT.json` ("map").

To check a run: `tlc -workers 2 -config <run>.cfg MC<Module>.tla`. To check proofs:
`tlapm <Module>Proofs.tla` (for `RoomAuthFlow`, `RoomAuthProofs.tla`).

## The system

| Part | State it keeps | Operations | What is hard | What makes it correct |
|---|---|---|---|---|
| Membership (`api/membership`, `api/admin/ban-admin.ts`, the limit part of `room.update`) | PostgreSQL: `Membership`, `MembershipLeaf`, `Ban`, `Room.userMessageLimit` | join, rotate, ban by leaf, ban by join nullifier, unban, limit change | transactions at READ COMMITTED, reads before row locks, unique-index races, deadlock | one leaf per user; author tokens that resolve; a ban takes the identity out of the tree; one swap per Ministry re-key |
| Message pipeline (`api/messaging`, `message.send`, `delete-message.ts`) | `Message` rows, Redis collision records, the RLN epoch | verify, look up, store or record, prune, slash, publish, tombstone | nothing is one transaction: every await lets other sends, the clock and operators in; prune and record expiry against late sends | one message per nullifier; only double-signalers are slashed, and they are; the newest rows are kept |
| Room-auth disclosure (`web/api/room-auth`, `lib/room-auth.ts`) | `RoomAuthFlow` rows | start, callback, pickup, sweep | concurrent callbacks and pickups, sweeps between awaits, deletes that fail | one exchange per state; a parked token waits for its pickup; rows never come back |
| Realtime fan-out (`api/realtime`) | a queue, a promise and a Redis connection per subscriber | publish, subscribe, wake, abort | lost wake-ups, aborts at any await, lost Redis connections | ordered, complete, once; sleeps only when idle; ends when aborted |
| Message feed (`web/components/room-view.tsx`) | items and seen ids of one browser | seed history, append, tombstone, refetch | history, live broadcasts and tombstones in any order | one row per message, rows stay, markers stay |
| Room administration (`api/admin/admin.router.ts`, `room-crypto.ts`, `audit.ts`) | `Room`, `AuditLog` | create, seedDefaults, update, delete, broadcast | a call is several statements and no transaction; slug races; a throw half-way | an audit log and answers that agree with what was done |
| Operator console (`web/app/admin/page.tsx`, `components/admin/policy-builder.tsx`, `lib/policy-builder.ts`) | cached lists, the dialog's form and policy tree | open, edit, toggle, submit, the buttons, refetch | answers that close or refetch something else than they were asked from; a policy the builder cannot show | no save changes a policy nobody touched; a tab shows what was done in it |
| Rate limiter (`api/middleware/rate-limit.ts`) and the server's doors (`api/server.ts`) | a Redis counter per window, a socket count per address | hit, expire; admit, count, close | fails open, windows that slide, sockets nobody saw close, several browsers on one address | an address is served again; the cap's count is that of its sockets |
| tRPC client (`web/lib/trpc.ts`) | failure count, stable timer, exhausted flag | dial, open, close, reconnect, give up, re-arm | flapping, timers, a retry loop and requests that share one socket | bounded dialling, no silent feed, a way back |
| Ministry branch and identity (`web/lib/minister-anon.ts`, `identity-context.tsx`, `auth.ts`) | one branch slot per account in `localStorage`, a session cookie, a captured fragment and a derivation per tab | sign in and out, adopt, derive, cancel | accounts that change under a tab, late session answers, effect order, cancelled derivations | the identity a room shows is its account's |
| Join panel and composer (`web/components/join-panel.tsx`, `message-composer.tsx`, `lib/rln.ts`) | a message id counter in `localStorage`, a stashed token per tab | disclose, join, reserve an id, prove, send | tabs and accounts that share the counter without a lock, sends outlived by their composer, a clock that moves under a send | no id used twice in an epoch, short of two tabs at once or a clock set back |
| Policy gate, token verification, cryptography, circuits, AES boxes, pages, seed scripts, end-to-end tests, the moderation experiment | none shared | pure functions, I/O, presentation | none for a model checker | taken for what they guarantee, or left out |

The parts meet in four places. PostgreSQL is shared by all request handlers: the API keeps
no state in memory but the socket counts, so two requests interact only through rows and
their locks. Redis carries the broadcasts of a room from the handlers that commit to the
subscriptions that are open, keeps nothing, and holds the collision records of ephemeral
rooms and the rate-limit counters. A collision in the pipeline calls the same ban as the operator, and
the ban prunes the leaf that the next send would have proved membership with. In a browser,
`localStorage` and the session cookie are what the tabs share.

## Modules

| Module | Models | Extended or used by |
|---|---|---|
| `Membership` | the membership tables and the statements of the requests that write them | `MCMembership`, `MembershipProofs`, `MembershipContractProofs` |
| `MembershipContract` | what those tables promise, one atomic step per request | `Membership` (refinement) |
| `MembershipTree` | what the pipeline sees of those requests: a tree with one leaf per member, changing at any time | `MessagePipeline`, `MembershipContractProofs` (refinement) |
| `MessagePipeline` | `sendMessage` from verification to publish, with the prune, the collision stores and the ban | `MCMessagePipeline`, `MessagePipelineProofs` |
| `RoomAuthFlow` | the three routes of the disclosure flow over their table | `MCRoomAuthFlow`, `RoomAuthProofs` |
| `RoomChannel` | what a subscription promises its reader: a queue that loses nothing | `RoomSubscription` (refinement) |
| `RoomSubscription` | the generator `roomMessages`, its Redis connection and its abort signal | `RoomFeed` |
| `RoomFeed` | one browser's feed, composed with the subscription, the senders, the operator and the history query | `MCRoomFeed`, `RoomFeedProofs` |
| `PolicyTree` | what a policy and a node of the builder's tree are | `PolicyBuilder`, `RoomAdmin` |
| `PolicyBuilder` | the policy trees of the console: reading, editing, writing | `OperatorConsole` |
| `RoomAdmin` | the operator's procedures on rooms, statement by statement | `RoomConsole` |
| `RoomConsole` | the console in a browser over those procedures, beside another operator, for any policy builder | `OperatorConsole`, `RoomConsoleProofs` |
| `OperatorConsole` | that console with `PolicyBuilder` in it, and what a save sends for the policy | `MCRoomConsole` |
| `ApiServer` | the rate limit and the socket cap, per address | `FeedClient` |
| `FeedClient` | the browser's socket with its reconnect budget and the room view that uses it, against those doors | `MCFeedClient`, `FeedClientProofs` |
| `BrowserIdentity` | sign-in, branch adoption and the derivation of a room's identity, in the tabs of one browser | `RoomVisit` |
| `RoomVisit` | disclosure, join and sending from those tabs | `MCRoomVisit`, `RoomVisitProofs` |

### Membership

A request is an actor with a program counter (`pc`), and one action is one SQL statement of
its transaction, or a run of statements between which nothing can be observed. What a
statement read stays in `arg`, `authorToken` and `seenLeaf`, as it does in the handler's
local variables. Row locks are explicit (`rowLock` for a `Membership` row, `HoldsLeaf` for
the leaf a rotation has updated and not yet committed), unique-index waits are `RcSettled`.
A committing action writes all of the transaction's rows at once; `Abort` and
`DeadlockVictim` end one with nothing written. `CanRun` says, without ENABLED, that a request has what its next
statement waits for; `SomeRequestRuns` is that requests never all wait. `join` goes `JoinFind` (Prisma's upsert with
an empty update finds the row), `JoinCreate` (it does not), `JoinLock`, `JoinCheck`,
`JoinInsert`; `rotate` goes `RotateRead`, `RotateFind`, `RotateLeaf`, `RotateRow`; the bans
`BanFind`, `BanRowLock`, `Prune`; `unban` `UnbanRow`, `UnbanClear`; the limit change
`LimitCheck`, `LimitWrite`.

A request's name also stands for the leaf, token and Ban row it generates, which saves three
sets of fresh values. The policy gate, the room look-up and the rejection of invalid tokens
change nothing and are left out: every modelled request is one the gate let through.
Prisma's `upsert` of a ban is modelled as one locking statement.

`MembershipContract` says the same with one step per request. `Contract` in `Membership`
maps a user's key to the commitment of their leaf. `overlap` records whether two requests were
ever under way at once; `strict` in the contract is its negation. As long as it stays true a
banned user gets no key and a key is replaced only under a later epoch; after that
the code keeps the rest of the contract and not those two guards.

### MessagePipeline

One action is the code between two awaits of `sendMessage`: `ReadLeaves`, `Verify`,
`Check`, `Store` (the unique index on room, epoch and nullifier decides), `Recheck` after a
conflict, `PruneRead` and `PruneDelete`, `Publish`; in an EPHEMERAL room `CheckAndRecord`
is the atomic Lua script of `ephemeral-collision.ts`. `Collision` is the ban that follows a
recovered identity. The clock counts epochs.

The membership requests come in as `ChangeTree`, any step of `MembershipTree`: any member may get a
leaf, have it replaced or lose it between any two awaits, and a leaf may be made of any identity that no
leaf holds at that moment, one that was in the tree before included. So an identity that was re-keyed,
banned or slashed may be back, as `rotateDevice` and a join after an unban allow. `MembershipTree` has none
of the guards of status and epoch: `TreeChangesCovered` proves that whatever `Membership` does to its leaves
is a course of this tree, so that what holds of the sends under it holds under the real requests. `parted`
is history: the sends whose identity lost its leaf after their tree check to something else than their own collision.

Proofs are what they guarantee: identity, epoch and message id fix the nullifier, the content
fixes x, and two points of one nullifier with different x give the identity away. The author
link (`senderMembershipId`) decides nothing here and is left out. A client's epoch may be one
ahead of the server's, as `verifyMessage` allows. `persistence` and `rateLimit` are those of the room for
its whole life (see Not modelled).

`Prompt` is an assumption about time. With it the clock does not leave a verified send's
acceptance window before the send has stored; without it a slow handler can store after
the row it should have collided with was pruned, which `prune_outruns_send` shows.

### RoomAuthFlow

One action is one await of a route handler. `row[f]` is the table; `verifier` and `token` say
which of the two secrets the row holds. Every start and callback sweeps expired rows, so a row
may vanish between any two awaits of another request. A failing database call is `MayFail`, a
request that dies is `Die`. The start limiter and Minister's answer are nondeterministic.

The pickup reads and deletes in two statements, so two pickups at once both return the
token; what does hold is `AnsweredRowIsGone`.

### RoomSubscription, RoomChannel and RoomFeed

`gen` is where the generator is suspended: awaiting SUBSCRIBE, at its `yield`, asleep on the
wake promise, or resumed. `Loop` and `Drain` are its two nested loops. `Abort` may come at any
of them, and before the first (`Open` chooses `aborted`, because the router awaits two
look-ups before it starts the generator). `End` is the `finally`. `SUBSCRIBE` stands before its `try`, so
`SubscribeFails` leaves the generator "thrown" without it: nobody quits the Redis connection or takes the abort
listener away. `Attach` and `Detach` are Redis: what is published
while a subscription is detached never reaches it. `RoomChannel` is the abstract queue: Put,
Take, and an End that drops what is pending; `Pending` maps the implementation to it.

`RoomFeed` adds the table as the history query sees it, the senders (`Store`, then `Publish`),
the operator (`Delete`, then `PublishTombstone`), the history query (`Ask`, `ListHistory`,
`Seed`) and the browser's `AppendBroadcast`. `Seed` puts the answer's unseen rows (`Fresh`), in their
order (`Ascending`), before the feed: the filter of the code, said without a recursive operator. The last hop, from the server's socket to the
browser, keeps order and is part of `Receive`; a loss on it is `CloseFeed`. System broadcasts
carry no id. The room is PERSISTENT; the feed of an EPHEMERAL room is the subscription alone.

### PolicyTree, PolicyBuilder, RoomAdmin, RoomConsole and OperatorConsole

A policy is a tree of records; a builder node is the same with an id. `Serialize` and `Deserialize`
are the two conversions, with what they lose: blank attributes are dropped, of two rows for one
attribute the later wins, and every `where` value comes back as text (`AsText`). `Edits` is the set of trees
one interaction can lead to. These are RECURSIVE operators, so nothing is proved about them. `RoomAdmin`
and `RoomConsole` take them as parameters (`ValidPolicy`, `ReadablePolicy`, `TreeOf`, `PolicyOf`, `EditsOf`,
`IdsOf`), so that what is proved of the procedures and of the console holds whatever they compute;
`room_console.cfg` gives the parameters `PolicyBuilder`'s operators.

In `RoomAdmin` a call is a record with the statement it is at; one action is one awaited
statement, and `Throw` may end a call before any of them. `createRoomRow`'s retry on a colliding
`rlnIdentifier` is `Collide`, a lost slug race `LostRace`. `Accounted` relates the rows, the audit log
and the answers after any interleaving of two operators' calls. Bans are one step, as their own
interleavings are `Membership`'s. `With` is Prisma's partial update: the fields a request names, over the row. Ids are given
out in order and a deleted row keeps its place, so an id tells a room for ever.

`RoomConsole` adds the browser: each cached query is asked, read at the server, and arrives or
fails; an invalidation drops the fetch under way, except the first one. Every button is a
mutation of its own, so they run side by side; the answer of a save closes whichever dialog is
open by then. `Refetched` says which queries a success invalidates. `dialog.parseError` is the guard
of a policy the builder cannot show. `own`, `dialog.loaded`, `dialog.toggled` and `dialog.edited` are history, used
by properties only. The other operator is the constant `OthersCalls`; `OthersAssumption` says what such a
call looks like: a create carries a whole row with a slug, an update no slug, since the same console
never changes the slug of a room that exists.

### ApiServer and FeedClient

`hits` and `ttl` are the counters of the Lua script, `wsConnsByIp` is the map in the server's
process. A request finds the limiter enabled, failing (it lets the request through) or disabled.
`lost` counts sockets whose peer vanished without the server noticing: the network may drop a socket that
way (`PeerGone`), or lose the answer of a handshake (`AcceptLost`), which its client then sees fail. The kernel may
notice later (`NoticesLoss`), when something was written to the socket; nothing makes it, as the server sets no
ping and no keep-alive (`server.ts:209-215`). `SocketsCounted` compares the count of an address
with its sockets as they are (`Sockets`: the open one of each client, and the vanished ones).

`FeedClient` keeps the callbacks of `createBackoffWSClient` (`OnOpen`, `OnClose`, the stable timer),
`retryWsRealtime` and the room view's subscription, over the socket of `@trpc/client`. That
library is outside the repository; what is assumed of it is what `lib/trpc.ts` states and relies
on: it dials for a request (`Request`), calls `onOpen` and `onClose`, redials from one retry loop
(`Wake`), closes an idle socket (`IdleClose`), and `close()` completes the subscriptions and stops
the loop until the next request. Delays are left out, with one exception the constants settle: an idle
socket (30 s) is closed after its stable timer (10 s). `redials` is history.

### BrowserIdentity and RoomVisit

A tab has a session answer under way (`asked`), the session it shows, a captured branch, and a
derivation of the room's identity with those it has cancelled (`jobs`); accounts have a slot in
`localStorage` and, at Ministry, a root with an epoch. A branch is named by account and epoch. React runs a
child's effects before its parent's, so `SessionArrives` starts the room's derivation from the
slot as it was and then adopts the captured branch into it; `ready` is set by the
provider's first effect, before any session, and nothing resets it, so it gates nothing.
`hasBranch` is only displayed and left out. `AdoptMinisterBranch` reads the slot and decides,
`PersistBranch` writes it: `localStorage` has no lock between tabs, so what is written may replace what
another tab wrote meanwhile. Within a tab a script runs to its end (`Idle`, `Event`).

`RoomVisit` adds the room's join panel and composer. The tree is kept as the leaf of each account,
an accepted join is one step (`Membership` says when the server accepts it), and a refused one
changes nothing here. `handleSend` up to its first await is three steps, between which other tabs and the
clock may move: `StartSend` samples the epoch, `ReadCounter` reads the counter, and `Reserve` writes it back one higher
(`Counted`) or finds the storage rejecting it. `Tick` moves the browser's clock either way, as `Date.now()` may be set
back. `EndSend` is the proof and the request, which may fail and lose the
id. A composer that unmounts leaves its sends running, a document that unloads does not.
`signed`, `twice` and `disturbed` are history: `disturbed` is set by a reservation that begins in the middle of another
tab's, or in an epoch older than the counter's, for which `nextMessageId` starts again at 0. The author token of a send is not modelled.

## Runs

| Run | Instance | Shows |
|---|---|---|
| `membership` | 4 requests, 3 at once, 2 users, 2 commitments, 2 limits, epochs 0..1 | `OneLeaf`, `JoinTokenResolves`, `BanRowMeansBanned`, `PrunedLeafStaysPruned`, `SomeRequestRuns` and `ImplementsContract` under every interleaving; `SerialPromises` (a banned user has no leaf, a leaf is of the room's limit, a swap takes a later epoch) as long as requests have not overlapped |
| `join_during_ban` | 4 requests, 2 at once | violation of `BannedHasNoLeaf` |
| `rotate_twice_one_epoch` | 3 requests, 2 at once, 3 commitments | violation of `ReplacementAdvancesEpoch` |
| `messages` | a PERSISTENT room: 3 sends of 1 identity, 2 contents, clock 0..2 (0..1 with an operator's delete or with two sends and a change of the tree, 0 with three and a change), cap 2; and an EPHEMERAL one: 2 sends of 2 members over 2 identities that come, go and return, clock 0..4, one dying request | `AcceptedOnce`, `OnlyDoubleSignalersSlashed`, `DoubleSignalSlashed`, `NewestKept` |
| `prune_outruns_send` | 3 sends, cap 1, no `Prompt` | violation of `AcceptedOnce` |
| `room_auth` | 2 flows, 5 requests, TTL 1, clock 0..2, one failure | `ExchangedOnce`, `PickupHonoured`, `AnsweredRowIsGone`, `GoneForGood` |
| `room_feed` | 2 messages, 1 delete, 3 events (subscriptions, queries, notices, failures), fair | `ShownOnce`, `RowsStay`, `SleepsOnlyWhenIdle`, `ImplementsChannel`, `SubscriptionEnds`, `TombstoneMarksShownRow` |
| `deleted_still_shown` | 1 message, one subscription, one query, no failure | violation of `TombstoneReconciles` |
| `room_console` | 2 calls of 2 operators, 3 rooms, 2 starters, 3 events (interactions, throws, collisions, refetches), trees of 3 nodes | `Accounted`, `OwnChangesListed`, `PolicyKept` |
| `connections` | 2 tabs of one address, cap 3, budget 2, one vanished socket per tab, 1 request per window of 2 ticks, fair | `BudgetHeld`, `NeverSilent`, `SocketsCounted`, `ComesBack`, `ServedAgain` |
| `browser` | 2 tabs, 2 accounts, epochs 1..2, 3 document loads, 2 derivations per tab; limit 2, 3 sends, clock 0..1 either way | `NeverDoubleSignals`, `OwnIdentity` |
| `adopted_not_derived` | 1 tab, 1 account, 2 loads | violation of `DerivesAdopted` |

Every passing run also checks the type invariant of its module.

**Why the bounds are enough.** A hazard of the membership tables takes at most four requests:
two to set a state up (a join, a ban) and two that race. Two users let one hold the
commitment the other asks for. Two sends collide, and the third prunes or deletes what they
collide over; the clock must pass the acceptance window of ±1 epoch (2) and, with Redis, the
four epochs a record lives (4). Two flows and five requests give one flow two callbacks and
two pickups, with the start of another flow to sweep. In the feed, two messages make order
visible; three events are a subscription, a history query and one thing that goes wrong, a
refetch or a second subscription; `HistoryLimit` 1 makes the answer shorter than the table.
In the console two calls are what it takes to race, and three interactions are what it takes to
open a dialog, change it and do something else; three rooms leave room for both starters of a seed.
Two tabs of one address with one vanished socket each pass a cap of three, so that there are states in
which the vanished ones leave room for both tabs and states in which they do not; a budget of two is the
smallest with a redial in it. In the browser two accounts and two tabs are who can mix up a
slot, a late answer or a counter, three loads a sign-in, a sign-out and a sign-in of the other
account, and three sends exceed a limit of two.

Three runs bound combinations in their MC module. `browser` explores two parts of its state
space (`SmallSpec`): `Quiet`, in which nobody has joined and identities come and go freely, and
`Alone`, in which one account that is never re-rooted joins and sends, with one session answer or
one derivation under way at a time, and at most five documents, sends, epochs and stashed tokens together. It follows a disturbed browser no
further: `NeverDoubleSignals` promises nothing of it. (Asked for `~twice` instead, without that cut, TLC finds both
ways to a double signal: two tabs that overlap, and a clock set back.) The proofs have no such restriction. `room_console` lets either the calls or the events reach their bound, not both:
two calls with two events, one with three. `messages` bounds each kind of room to the cases that concern
it (`SavedBound`, `FleetingBound`).

**Symmetry.** Requests, users, commitments, contents, flows, tabs and accounts are
interchangeable in the safety runs that declare it; the only action and temporal properties
checked under symmetry are box properties and the safety-only refinement of the membership
contract. The runs with liveness use none.

**Fairness.** Nothing obliges a request to arrive, an operator to act, Redis to come back or,
outside `FeedClient`, time to pass. In `RoomFeed`, WF on `Answered` says ioredis either
subscribes or gives up after its retries, and WF on `Continue \/ Receive` that due callbacks run and that
the reader of a live subscription asks for the next value. In `FeedClient`, WF per client on the dial's
answer, the loop's sleep and the stable timer are timers and time-outs that end; WF on `Reconnect` is the user who sees the banner and presses the button, without
whom `ComesBack` is not true and is not meant to be; WF on `Tick` is time, and WF on a
request of each address that finds the limiter working (`LimitedRequest`) is what shows an address that it is served
again. That a request which finds the limiter failing is served needs no run. The network is never obliged to be up, nor
the kernel to notice a vanished socket: `ComesBack` assumes that the network stays up and that the vanished
sockets of the address leave its clients room under the cap. Without the second it is false.

## What the violations show

- `join_during_ban`: `joinRoom` reads the status before it waits for the row lock, and does
  not look again. A ban that commits meanwhile prunes nothing, and the banned user ends up with a
  leaf, in the tree.
- `rotate_twice_one_epoch`: `rotateDevice` compares epochs without a lock. Two rotations under
  one epoch both pass, and the leaf is swapped twice.
- `prune_outruns_send`: the prune's live window is measured by the pruning request, the
  acceptance window by the sending one, earlier. Two messages pass under one nullifier.
- `deleted_still_shown`: a tombstone for a row that is not in the feed yet is dropped, and
  the row then arrives with its content: from a send that published after the delete, or from a
  history answer read before it.
- `adopted_not_derived`: the `ready` flag that should hold the first derivation back until the branch
  is adopted does not. A sign-in that returns to a room page leaves the room without an identity
  (or, after a re-rooting, with the old one) until it is left or reloaded.

Other divergences are modelled, or stated as hazards, and have no run. A re-join after an unban
keeps the stored epoch of the first join (`JoinedRow`). A limit change may commit around a join
that read the old limit (`LeafUsesRoomLimit` is part of `SerialPromises`, for requests that do not overlap). A send by a member
re-keyed or banned since is answered `banned` although nobody is slashed by it (`Collision`), and a later rotation or
re-join may bring that identity back: `DoubleSignalSlashed` exempts this and nothing else. A SUBSCRIBE that throws
leaves its Redis connection and abort listener (`SubscribeFails`; `broadcast.ts:102` stands before the `try`). The builder gives every
`where` value back as a text, in a policy nobody touched too (`policy-builder.ts:108-111,172`): a saved dialog turns
`olderThanMonths: 12` into `"12"`, which a gate that matches exactly (`services/api/scripts/seed-rooms.ts:17-22`) no longer
accepts; `PolicyKept` is about everything but those types. Two tabs that reserve a message id at the same time, or a clock
set back into an epoch older than the counter's, use an id twice, and the room answers with a ban; `NeverDoubleSignals` says
when. Vanished sockets that fill the cap of an address in a quiet room lock it out for good (`server.ts:199,209-215`); the
condition of `ComesBack` says where that begins. Two pickups of
one disclosure both get the token. A captured branch goes to whichever account the first session
answer names, under the epoch of that answer's token, and may replace what another tab stored meanwhile
(`AdoptMinisterBranch`, `PersistBranch`). Two devices of one account derive one identity and count ids
apart; `NeverDoubleSignals` is about one browser. The author token is recorded per room and not per
account.

## Proofs

All are for any sets of requests, users, members, messages, flows, clients, tabs and accounts
and any bounds, from the named assumptions of each module (types of the bounds, `None` outside
the data sets, finitely many sends, `Broadcast` being the broadcasts of the room's messages, an
address for every client, finitely many clients, a starter list without repetitions, slugs that are not empty). `None` in
`Membership` is also no pair of a commitment and a limit (`NoneAssumption`), as it stands for an absent
rate commitment.

`MembershipProofs`: the inductive invariant is `TypeInv` (with the part of a request's input
each statement needs), `Locked` (a join after its lock holds it), `NoLeafYet` (what a
join about to insert read is still true: every other writer of that user's leaves would need
the lock), `Rotating` (the leaf a rotation updated is still there, because it holds the leaf's
row), `LeafMade` (leaf ids belong to finished joins) and `OneLeaf`. `OneLeaf` alone is not
inductive: two joins past their check would break it. From it: `TypeCorrect`,
`OneLeafHolds`, `PrunedLeaves`. `BansAreOfBanned` and `TokensResolve` have invariants of
their own: who holds the row between a ban's two statements, and a token once read
(`TokenRead`) or missing (`NoRowNoToken`).

`MembershipContractProofs`: the statements of any interleaving have the effect of the contract's atomic
requests in commit order (`Implementation`). Every step either changes what `Contract` maps, and is then
the commit of `JoinCheck` when the join is refused a leaf (`Register`), `JoinInsert` (`Admit`), `RotateRow` (`Rekey`), `Prune` (`Ban`) or `UnbanClear`
(`Unban`), or is a stutter. What a commit relies on is protected, or was read earlier. Protected are the key (`KeysDiffer`,
`KeyReserved`: the unique index), the epoch of a rotation (`EpochClaimed`), the row locks (`HoldsLock`, `UnbansRow`) and
the token a join mints (`TokenMade`, `MintsOrKeeps`). Read earlier are status, epoch and limit (`Knows`), which are
still true as long as no requests overlap (`Alone`): this is where `strict` comes from. The
same invariant, `SInv`, gives `SerialPromisesKept`. `TreeChangesCovered` goes on from there to `MembershipTree`: an
`Admit` enters a vacant key, a `Rekey` replaces one, a `Ban` takes it away, the other requests leave the keys alone; so
every behaviour of `Membership`, with any overlap, is one of the tree under which `MessagePipeline` is proved.

`NeverAllWait` follows the waits of `Membership` to their end. Whoever waits for a unique key or a leaf row waits for a
rotation at its second write (`RotationRuns`); whoever waits for a membership row waits for a request that
holds it, and such a holder waits at most for a rotation (`HolderRuns`, `HolderIsRunning`). A rotation
waits only for the row of its own user. Its holder cannot be a join about to insert, because that
user has a leaf (`NoLeafYet`); if it is a ban about to prune, the two wait for each other and are the
deadlock that PostgreSQL breaks; any other holder can run. So that cycle is the only one. `StepsRunOut` adds that
each step uses up one of a request's remaining statements (`StepsLeft`): nothing is retried in a loop.
`OnlyJoinsOutliveBans` bounds what `join_during_ban` shows: a banned user's leaf, unless it was there as such before, is
the insert of a join, and never the work of a rotation, an unban or the ban itself.

`MessagePipelineProofs`: `PipelineTypes`; `SlashedDoubleSignalled` from `FoundCollides` (what a
look-up returned on the way to the ban really collides); `SpentOnce`, that `Prompt` implies
`AcceptedOnce`, from `Retained` (an accepted signal is still stored, or its epoch is over)
and `InTime` (a send between verification and insert is within its epoch). The lemma they turn on
is that a prune and an expiry remove only what no accepted window can still reach.
`PruneKeepsNewest` needs no `Prompt`: between the two queries of a prune, `Cap` rows stay at or above its boundary
(`EdgeKept`), because another prune deletes below its own boundary and that one keeps `Cap` rows too. `DoubleSignalIsSlashed`
(under `Prompt`) follows from `Judged`: whoever stands behind an answer `duplicate` repeats an accepted
signal (`Repeats`), an identity keeps the leaf a send was proved from until something takes it, which is then either that send's
own collision or noted in `parted` (`LeafHeld`), and so whoever is answered `banned` has taken the leaf or lost it to something
else (`Verdict`). Identities may return; nothing in the argument needs that they do not.

`RoomAuthProofs`: the invariant joins `Targets`, `Rows`, `Reads`, `OneConsumer` (at most one
callback ever holds the verifier of a flow), `Released` (once the browser was sent on, nobody
is left who would remove its token) and `Answered`. From it `StateSingleUse`, `TokenWaits`,
`RowGoneWhenAnswered`, `RowsStayGone` and `RoomAuthTypes`. The key lemma is `Loses`: a row loses
its verifier once and for all.

`RoomFeedProofs`: a step of the feed is a step of the subscription or leaves it alone
(`FeedStep`). For the subscription the invariant is the subscription's types, `Idle` (nothing reaches a subscription
that is not running) and `SleepsOnlyWhenIdle`. From it `NoLostWakeUp`, and `RefinesChannel`: each step maps
to a step of `RoomChannel` or a stutter. For the feed it is `FeedInv`: a message is in the table once
(`TableOnce`), so in an answer once (`RowsOnce`), and whatever is shown was noted as seen (`ShownIsSeen`), which
is what `Seed` and `AppendBroadcast` test. From it `FeedTypesHold`, `MessageShownOnce` and `RowsStayShown`.

`RoomConsoleProofs`: `AdminInv` is about the procedures, `ConsoleInv` about the browser. `RowsOK` says ids are given
out in order, so an insert takes one nobody had (`Inserted`, from the cardinality of those in use); `CallShape` which
statement a call can be at and with what, `CallDone` what it has done by then, `SeedDone` that a seed has dealt
with a prefix of the starters, each created or skipped, with the log of the call saying which. A step of one
call is a `Frame` for the others: slugs stay with their ids, deleted rows stay deleted, the log grows by rows of the
call that moves, versions grow; `OthersKept` shows that nothing the others rely on is lost. From it
`AnswersAccountedFor`. `ListsOK` says a list that was read or has arrived is as new as the operator's own
changes, which a settling answer keeps true only because the queries it refetches are those of the tab its
button is on (`ButtonsOK`, `Asks`). From it `ChangesShown`. `TypesHold` is the types. `PolicyOnlyByChoice` is
the half of `PolicyKept` that is the dialog's and not the builder's, for any builder: a policy it cannot read
stays under the guard of `parseError` until the operator leaves the open policy, and one that was not touched is
sent as what serializing its tree gives (`PolicyHeld`).

`FeedClientProofs`: `TypeCorrect`; `BudgetNeverExceeded` from `Paid` (the loop's dials are covered by
counted failures, the next one in advance while the loop sleeps without a socket, and a count at
the limit leaves no way to dial but a request); `FeedNeverSilent` from `Audible` (a subscription that
is on has a socket or a loop that will dial, one that ended was ended by a client that gave up and has
not dialed since). `BudgetHeld` alone is not inductive: a loop about to wake could be one dial
short of the budget. `SocketsAreCounted`: a step adds one socket, open or of a lost handshake, to an address and one to its count (`Gains`), takes one
from both (`Loses`), or turns an open socket into a vanished one and leaves the count (`Vanishes`), and
touches no other address; with the cardinalities (`CountKept`) the property is inductive by itself.

`RoomVisitProofs`: `TypeCorrect`, whose one part beyond types is that a tab has at most one live
derivation; `CounterNeverReused` from `Careful`, which holds until the browser is disturbed: `Reserved` (whatever was
reserved or has left lies below the counter, in this epoch or an earlier one), `ReservedOnce` (a reserved signal is
that of one send) and `Undisturbed` (one tab at a time is between its epoch and its write, and what it has read
is what the counter still holds); `IdentityIsOwn` from `OwnJobs` (a live
derivation is of the account the tab shows).

**Only model-checked:** everything under fairness (`SubscriptionEnds`, `TombstoneMarksShownRow`,
`ComesBack`, `ServedAgain`, the liveness half of `ImplementsChannel`), for which the prover has no rules;
of `PolicyKept`, what the builder's recursive operators
make of a policy and that its ids are unique.

## Not modelled

- The policy gate, read access and the join nullifier: stateless decisions of external evaluators
  over one token. Every modelled request is one the gate let through.
- The Minister SDK's signature check, field arithmetic, Shamir recovery and circuits: external,
  taken for what they guarantee.
- A room whose `rateLimit` is changed under stored messages, which renumbers the epochs, or whose
  persistence is switched under a send (`admin.router.ts:215,279`), which leaves its record in the other store: `RoomAdmin`
  writes the row, `MessagePipeline` keeps the room fixed, and the two are not composed.
- The time in which a client has not noticed yet that its handshake was lost: `AcceptLost` is part of the dial's failure.
- The silence of a live WebSocket whose subscription lost its Redis connection in the server: `Detach` of
  `RoomSubscription`; `NeverSilent` is about the WebSocket.
- A broadcast that a listener drops before it is in the queue is no step of `RoomChannel`, whose `Put` is the queue's;
  `OwnChangesListed` is about the tab a change was made in, and says nothing of what other tabs have cached.
- What a room view does with the identity of before while a new derivation is loading (`room-view.tsx:331-370`), or with a
  derivation that throws and leaves it loading: `OwnIdentity` is about settled room views.
- A crash between storing a message and publishing it loses the broadcast; the pipeline models it
  (a request that dies), and no property promises the broadcast.
- AES boxes, session colours, badges' wording and all rendering; configuration, health and logging;
  CORS, routing and error formatting; the seed script, the end-to-end tests, the deployment; the
  moderation experiment, which the product does not reach.

What would come next: `room.update` with a changed `rateLimit` or persistence composed with the pipeline, several devices of one
account in `RoomVisit`, and the author link of a send, from the join's token to an author ban.
