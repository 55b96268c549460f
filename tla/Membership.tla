------------------------------ MODULE Membership ------------------------------
(***************************************************************************)
(* The membership tables of ONE room (Membership, MembershipLeaf, Ban and   *)
(* Room.userMessageLimit) and the requests that write them: join, rotate,   *)
(* ban by leaf, ban by join nullifier, unban and the limit change.          *)
(*                                                                          *)
(* The API is stateless, so every request is an actor of its own and the    *)
(* only shared state is PostgreSQL.  A request is a sequence of statements  *)
(* inside one READ COMMITTED transaction: each statement reads what is      *)
(* committed when it runs, an UPDATE or SELECT .. FOR UPDATE waits for the   *)
(* row, and the writes become visible together when the transaction ends.   *)
(* One action is one statement (or a run of statements nothing can observe  *)
(* in between); what a statement read is kept in arg, authorToken, seenLeaf.  *)
(*                                                                          *)
(* A request runs once, so its name also stands for whatever it generates:  *)
(* the leaf id, the author token and the Ban row id made by r are all r.    *)
(***************************************************************************)
EXTENDS Naturals, FiniteSets

CONSTANTS
    Request,        \* requests served, each runs once
    Nullifier,      \* join nullifiers: one per (user, room)
    Commitment,     \* identity commitments clients present
    Limit,          \* values Room.userMessageLimit may take
    MaxEpoch,       \* bound on minister_anon_epoch; 0 stands for "no claim"
    MaxInFlight,    \* bound on the requests running at the same time
    Op,             \* the operations this instance exercises
    None

Ops == {"join", "rotate", "banLeaf", "banNullifier", "unban", "setLimit"}

ASSUME OpsAssumption == Op \subseteq Ops
ASSUME NoneAssumption ==
    None \notin Request \union Nullifier \union Commitment \union (Commitment \X Limit)
ASSUME BoundsAssumption == MaxEpoch \in Nat /\ MaxInFlight \in Nat

VARIABLES
    limit,      \* Room.userMessageLimit
    member,     \* committed Membership row per nullifier ("NONE": no row)
    leaf,       \* committed MembershipLeaf rows
    ban,        \* committed Ban rows
    rowLock,    \* the transaction holding (or still inserting) each Membership row
    pc,         \* next statement of each request
    arg,        \* input of each request, with the room limit its router read
    authorToken,\* token each join has read or minted so far
    seenLeaf,   \* leaf id a rotation resolved
    issued,     \* history: the <<nullifier, token>> pairs joins returned to callers
    overlap     \* history: whether two requests have ever run at the same time

tables == <<limit, member, leaf, ban>>
vars == <<limit, member, leaf, ban, rowLock, pc, arg, authorToken, seenLeaf, issued,
          overlap>>

Epoch == 0..MaxEpoch
RateCommitment == Commitment \X Limit

MemberRow == [status : {"NONE", "ACTIVE", "BANNED"},
              token  : Request \union {None},
              epoch  : Epoch]

LeafRow == [id : Request, owner : Nullifier, rc : RateCommitment]

BanRow == [id : Request, nul : Nullifier, rc : RateCommitment \union {None}]

Call == [op : Ops, nul : Nullifier \union {None}, ic : Commitment \union {None},
         epoch : Epoch, lim : Limit]

PC == {"idle", "joinFind", "joinCreate", "joinLock", "joinCheck", "joinInsert",
       "rotateRead", "rotateFind", "rotateLeaf", "rotateRow",
       "banFind", "banRow", "banUpsert", "prune",
       "unbanRow", "unbanClear", "limitCheck", "limitWrite", "done"}

TypeOK ==
    /\ limit \in Limit
    /\ member \in [Nullifier -> MemberRow]
    /\ leaf \in SUBSET LeafRow
    /\ ban \in SUBSET BanRow
    /\ rowLock \in [Nullifier -> Request \union {None}]
    /\ pc \in [Request -> PC]
    /\ arg \in [Request -> Call \union {None}]
    /\ authorToken \in [Request -> Request \union {None}]
    /\ seenLeaf \in [Request -> Request \union {None}]
    /\ issued \in SUBSET (Nullifier \X Request)
    /\ overlap \in BOOLEAN

-----------------------------------------------------------------------------

NoMember == [status |-> "NONE", token |-> None, epoch |-> 0]

Init ==
    /\ limit \in Limit
    /\ member = [n \in Nullifier |-> NoMember]
    /\ leaf = {}
    /\ ban = {}
    /\ rowLock = [n \in Nullifier |-> None]
    /\ pc = [r \in Request |-> "idle"]
    /\ arg = [r \in Request |-> None]
    /\ authorToken = [r \in Request |-> None]
    /\ seenLeaf = [r \in Request |-> None]
    /\ issued = {}
    /\ overlap = FALSE

Nul(r) == arg[r].nul
Rc(r) == <<arg[r].ic, arg[r].lim>>      \* getRateCommitmentHash(ic, limit)

LeavesOf(n) == {l \in leaf : l.owner = n}
InFlight == {r \in Request : pc[r] \notin {"idle", "done"}}

\* A rotation between its leaf UPDATE and its commit holds the leaf's row.
HoldsLeaf(q, id) == pc[q] = "rotateRow" /\ seenLeaf[q] = id

\* The unique index on (roomId, rateCommitment) makes a writer of rc wait while
\* another transaction's uncommitted UPDATE adds or removes that key.
RcSettled(rc, r) ==
    \A q \in Request \ {r} :
        pc[q] = "rotateRow" =>
            /\ Rc(q) # rc
            /\ \A l \in leaf : l.id = seenLeaf[q] => l.rc # rc

Goto(r, label) == pc' = [pc EXCEPT ![r] = label] /\ UNCHANGED <<issued, overlap>>

\* The transaction ends: its row locks are released, the caller is answered and
\* the request's local state is gone.
Release(r) ==
    /\ pc' = [pc EXCEPT ![r] = "done"]
    /\ rowLock' = [n \in Nullifier |-> IF rowLock[n] = r THEN None ELSE rowLock[n]]
    /\ arg' = [arg EXCEPT ![r] = None]
    /\ authorToken' = [authorToken EXCEPT ![r] = None]
    /\ seenLeaf' = [seenLeaf EXCEPT ![r] = None]
    /\ UNCHANGED overlap

\* ... with an answer that carries no token.
Finish(r) == Release(r) /\ UNCHANGED issued

\* ... with the statement having failed: nothing it wrote becomes visible.
Fail(r) == Finish(r) /\ UNCHANGED tables

LockRow(r, n) ==
    /\ rowLock[n] = None
    /\ rowLock' = [rowLock EXCEPT ![n] = r]

-----------------------------------------------------------------------------
(* Arrival.  The router reads the room, and with it the limit, before the   *)
(* transaction starts; the policy gate is not modelled here.                *)

Begin(r, call, label) ==
    /\ pc[r] = "idle"
    /\ call.op \in Op
    /\ Cardinality(InFlight) < MaxInFlight
    /\ arg' = [arg EXCEPT ![r] = call]
    /\ pc' = [pc EXCEPT ![r] = label]
    /\ overlap' = (overlap \/ InFlight # {})
    /\ UNCHANGED <<tables, rowLock, authorToken, seenLeaf, issued>>

Join(r) == \E n \in Nullifier, c \in Commitment, e \in Epoch :
    Begin(r, [op |-> "join", nul |-> n, ic |-> c, epoch |-> e, lim |-> limit], "joinFind")

Rotate(r) == \E n \in Nullifier, c \in Commitment, e \in Epoch :
    Begin(r, [op |-> "rotate", nul |-> n, ic |-> c, epoch |-> e, lim |-> limit], "rotateRead")

BanLeaf(r) == \E c \in Commitment :
    Begin(r, [op |-> "banLeaf", nul |-> None, ic |-> c, epoch |-> 0, lim |-> limit], "banFind")

BanNullifier(r) == \E n \in Nullifier :
    Begin(r, [op |-> "banNullifier", nul |-> n, ic |-> None, epoch |-> 0, lim |-> limit],
          "banUpsert")

Unban(r) == \E n \in Nullifier :
    Begin(r, [op |-> "unban", nul |-> n, ic |-> None, epoch |-> 0, lim |-> limit], "unbanRow")

SetLimit(r) == \E l \in Limit \ {limit} :
    Begin(r, [op |-> "setLimit", nul |-> None, ic |-> None, epoch |-> 0, lim |-> l],
          "limitCheck")

-----------------------------------------------------------------------------
(* joinRoom                                                                 *)

\* Mutant: the ban status of an existing row is not looked at.
JoinFindAdmitsBanned(r) ==
    /\ pc[r] = "joinFind"
    /\ Goto(r, IF member[Nul(r)].status = "NONE" THEN "joinCreate" ELSE "joinLock")
    /\ authorToken' = [authorToken EXCEPT ![r] = member[Nul(r)].token]
    /\ UNCHANGED <<tables, rowLock, arg, seenLeaf>>

\* upsert, first half: look the row up.  The update part is empty, so an
\* existing row is read without being locked.
JoinFind(r) ==
    LET row == member[Nul(r)] IN
    /\ pc[r] = "joinFind"
    /\ \/ /\ row.status = "NONE"
          /\ Goto(r, "joinCreate")
          /\ UNCHANGED <<rowLock, arg, authorToken, seenLeaf>>
       \/ /\ row.status = "BANNED"
          /\ Finish(r)                            \* banned
       \/ /\ row.status = "ACTIVE"
          /\ Goto(r, "joinLock")
          /\ authorToken' = [authorToken EXCEPT ![r] = row.token]
          /\ UNCHANGED <<rowLock, arg, seenLeaf>>
    /\ UNCHANGED tables

\* upsert, second half: insert the row.  A row committed in between is a unique
\* violation, which aborts the join.
JoinCreate(r) ==
    /\ pc[r] = "joinCreate"
    /\ \/ /\ member[Nul(r)].status = "NONE"
          /\ LockRow(r, Nul(r))
          /\ Goto(r, "joinCheck")
          /\ UNCHANGED <<arg, authorToken, seenLeaf>>
       \/ /\ member[Nul(r)].status # "NONE"
          /\ Finish(r)
    /\ UNCHANGED tables

\* Mutant: the row is not locked before the device checks.
JoinUnlocked(r) ==
    /\ pc[r] = "joinLock"
    /\ Goto(r, "joinCheck")
    /\ UNCHANGED <<tables, rowLock, arg, authorToken, seenLeaf>>

\* SELECT .. FOR UPDATE
JoinLock(r) ==
    /\ pc[r] = "joinLock"
    /\ LockRow(r, Nul(r))
    /\ Goto(r, "joinCheck")
    /\ UNCHANGED <<tables, arg, authorToken, seenLeaf>>

\* Mutants: the token is not re-read under the lock; it is not minted at all.
JoinTokenNotReread(r) ==
    IF member[Nul(r)].status # "NONE" /\ authorToken[r] # None THEN authorToken[r] ELSE r

JoinTokenNotMinted(r) ==
    IF member[Nul(r)].status = "NONE" THEN r ELSE member[Nul(r)].token

\* The token this join leaves on the row, and returns when it makes the leaf: a
\* new row's own, the one read by the upsert, else the one re-read under the
\* lock, else a fresh one.
JoinToken(r) ==
    LET row == member[Nul(r)] IN
    CASE row.status = "NONE"  -> r
      [] authorToken[r] # None  -> authorToken[r]
      [] row.token # None     -> row.token
      [] OTHER                -> r

\* Mutant: every join restamps the epoch, a refused one with an older token too.
JoinedRowRestamps(r) ==
    [status |-> IF member[Nul(r)].status = "NONE" THEN "ACTIVE" ELSE member[Nul(r)].status,
     token |-> JoinToken(r), epoch |-> arg[r].epoch]

\* The Membership row as this join commits it.
JoinedRow(r) ==
    LET row == member[Nul(r)] IN
    IF row.status = "NONE"
    THEN [status |-> "ACTIVE", token |-> JoinToken(r), epoch |-> arg[r].epoch]
    ELSE [row EXCEPT !.token = JoinToken(r)]

\* Mutant: a refused join answers without ending its transaction.
JoinCheckLeaksLock(r) ==
    /\ pc[r] = "joinCheck"
    /\ IF (\E l \in leaf : l.rc = Rc(r)) \/ LeavesOf(Nul(r)) # {}
       THEN Goto(r, "done") /\ UNCHANGED authorToken
       ELSE Goto(r, "joinInsert") /\ authorToken' = [authorToken EXCEPT ![r] = JoinToken(r)]
    /\ UNCHANGED <<tables, rowLock, arg, seenLeaf>>

\* Device checks under the lock.  A refused join still commits the row.
JoinCheck(r) ==
    LET taken == \E l \in leaf : l.rc = Rc(r)
        full  == LeavesOf(Nul(r)) # {}
    IN
    /\ pc[r] = "joinCheck"
    /\ \/ /\ ~taken /\ ~full
          /\ Goto(r, "joinInsert")
          /\ authorToken' = [authorToken EXCEPT ![r] = JoinToken(r)]
          /\ UNCHANGED <<tables, rowLock, arg, seenLeaf>>
       \/ /\ taken \/ full
          /\ member' = [member EXCEPT ![Nul(r)] = JoinedRow(r)]
          /\ Finish(r)                     \* already-on-device, or device-limit
          /\ UNCHANGED <<limit, leaf, ban>>

\* Create the leaf and commit.  A commitment taken since the check is a unique
\* violation: the whole join, the new row included, rolls back.
JoinInsert(r) ==
    /\ pc[r] = "joinInsert"
    /\ RcSettled(Rc(r), r)
    /\ \/ /\ \A l \in leaf : l.rc # Rc(r)
          /\ leaf' = leaf \union {[id |-> r, owner |-> Nul(r), rc |-> Rc(r)]}
          /\ member' = [member EXCEPT ![Nul(r)] = JoinedRow(r)]
          /\ issued' = issued \union {<<Nul(r), JoinToken(r)>>}
          /\ Release(r)                    \* ok, with the token
          /\ UNCHANGED <<limit, ban>>
       \/ /\ \E l \in leaf : l.rc = Rc(r)
          /\ Fail(r)

-----------------------------------------------------------------------------
(* rotateDevice                                                             *)

\* Mutant: an equal epoch is accepted.
EpochRefusedIfLower(e, row) == e < row.epoch

EpochRefused(e, row) == e <= row.epoch

\* Status and epoch are read without a lock.
RotateRead(r) ==
    LET row == member[Nul(r)] IN
    /\ pc[r] = "rotateRead"
    /\ \/ /\ \/ row.status \in {"NONE", "BANNED"}      \* no-membership, banned
             \/ EpochRefused(arg[r].epoch, row)        \* stale-epoch
          /\ Finish(r)
       \/ /\ row.status = "ACTIVE"
          /\ ~EpochRefused(arg[r].epoch, row)
          /\ Goto(r, "rotateFind")
          /\ UNCHANGED <<rowLock, arg, authorToken, seenLeaf>>
    /\ UNCHANGED tables

\* Resolve the membership's leaf and check the new commitment is free.
RotateFind(r) ==
    /\ pc[r] = "rotateFind"
    /\ \/ /\ LeavesOf(Nul(r)) = {}
          /\ Finish(r)                     \* no-leaf
       \/ \E old \in LeavesOf(Nul(r)) :
            IF \E l \in leaf : l.rc = Rc(r) /\ l.id # old.id
            THEN Finish(r)                  \* new-leaf-exists
            ELSE /\ Goto(r, "rotateLeaf")
                 /\ seenLeaf' = [seenLeaf EXCEPT ![r] = old.id]
                 /\ UNCHANGED <<rowLock, arg, authorToken>>
    /\ UNCHANGED tables

\* Mutant: the leaf is written whether or not it still exists.
RotateLeafUpserts(r) ==
    /\ pc[r] = "rotateLeaf"
    /\ RcSettled(Rc(r), r)
    /\ \A l \in leaf : l.rc = Rc(r) => l.id = seenLeaf[r]
    /\ Goto(r, "rotateRow")
    /\ UNCHANGED <<tables, rowLock, arg, authorToken, seenLeaf>>

\* UPDATE the leaf by id: waits for the row and the key, fails when the leaf is
\* gone or the commitment was taken meanwhile.
RotateLeaf(r) ==
    LET ok == /\ \E l \in leaf : l.id = seenLeaf[r]
              /\ \A l \in leaf : l.rc = Rc(r) => l.id = seenLeaf[r]
    IN
    /\ pc[r] = "rotateLeaf"
    /\ \A q \in Request \ {r} : ~HoldsLeaf(q, seenLeaf[r])
    /\ RcSettled(Rc(r), r)
    /\ \/ ok /\ Goto(r, "rotateRow") /\ UNCHANGED <<rowLock, arg, authorToken, seenLeaf>>
       \/ ~ok /\ Finish(r)
    /\ UNCHANGED tables

\* UPDATE the membership's anonEpoch and commit both writes.
RotateRow(r) ==
    /\ pc[r] = "rotateRow"
    /\ rowLock[Nul(r)] = None
    /\ leaf' = {l \in leaf : l.id # seenLeaf[r]}
                 \union {[id |-> seenLeaf[r], owner |-> Nul(r), rc |-> Rc(r)]}
    /\ member' = [member EXCEPT ![Nul(r)].epoch = arg[r].epoch]
    /\ Finish(r)
    /\ UNCHANGED <<limit, ban>>

-----------------------------------------------------------------------------
(* banMembershipByLeaf (operator ban by commitment, RLN collision ban),     *)
(* banByJoinNullifier and unban                                             *)

BanFind(r) ==
    /\ pc[r] = "banFind"
    /\ \/ /\ \A l \in leaf : l.rc # Rc(r)
          /\ Finish(r)                     \* no-leaf
       \/ \E l \in leaf :
            /\ l.rc = Rc(r)
            /\ arg' = [arg EXCEPT ![r].nul = l.owner]
            /\ Goto(r, "banRow")
            /\ UNCHANGED <<rowLock, authorToken, seenLeaf>>
    /\ UNCHANGED tables

\* UPDATE the owning membership by id (ban by leaf), or upsert the membership by
\* nullifier: both wait for the row and then hold it.
BanRowLock(r) ==
    /\ pc[r] \in {"banRow", "banUpsert"}
    /\ LockRow(r, Nul(r))
    /\ Goto(r, "prune")
    /\ UNCHANGED <<tables, arg, authorToken, seenLeaf>>

\* DELETE the leaves (waiting for any row a rotation holds), add the Ban row and
\* the audit row, commit with the status set.
Prune(r) ==
    LET n == Nul(r) IN
    /\ pc[r] = "prune"
    /\ \A l \in LeavesOf(n), q \in Request : ~HoldsLeaf(q, l.id)
    /\ leaf' = leaf \ LeavesOf(n)
    /\ member' = [member EXCEPT ![n].status = "BANNED"]
    /\ ban' = ban \union {[id |-> r, nul |-> n,
                           rc |-> IF arg[r].op = "banLeaf" THEN Rc(r) ELSE None]}
    /\ Finish(r)
    /\ UNCHANGED limit

\* Mutant: the two writes of unban are not in one transaction.
UnbanRowCommits(r) ==
    /\ pc[r] = "unbanRow"
    /\ rowLock[Nul(r)] = None
    /\ Goto(r, "unbanClear")
    /\ member' = [member EXCEPT ![Nul(r)].status = IF @ = "NONE" THEN "NONE" ELSE "ACTIVE"]
    /\ UNCHANGED <<limit, leaf, ban, rowLock, arg, authorToken, seenLeaf>>

\* updateMany on the membership: no row, nothing to wait for.
UnbanRow(r) ==
    /\ pc[r] = "unbanRow"
    /\ Goto(r, "unbanClear")
    /\ \/ member[Nul(r)].status # "NONE" /\ LockRow(r, Nul(r))
       \/ member[Nul(r)].status = "NONE" /\ UNCHANGED rowLock
    /\ UNCHANGED <<tables, arg, authorToken, seenLeaf>>

UnbanClear(r) ==
    /\ pc[r] = "unbanClear"
    /\ ban' = {b \in ban : b.nul # Nul(r)}
    /\ member' = IF rowLock[Nul(r)] = r
                 THEN [member EXCEPT ![Nul(r)].status = "ACTIVE"]
                 ELSE member
    /\ Finish(r)
    /\ UNCHANGED <<limit, leaf>>

-----------------------------------------------------------------------------
(* admin room.update of userMessageLimit: check the room is empty, write.   *)
(* The two statements are not in a transaction.                             *)

\* Mutant: the members are not looked at.
LimitCheckSkipped(r) ==
    /\ pc[r] = "limitCheck"
    /\ Goto(r, "limitWrite")
    /\ UNCHANGED <<tables, rowLock, arg, authorToken, seenLeaf>>

LimitCheck(r) ==
    /\ pc[r] = "limitCheck"
    /\ \/ /\ \A n \in Nullifier : member[n].status = "NONE"
          /\ Goto(r, "limitWrite")
          /\ UNCHANGED <<rowLock, arg, authorToken, seenLeaf>>
       \/ /\ \E n \in Nullifier : member[n].status # "NONE"
          /\ Finish(r)                     \* BAD_REQUEST
    /\ UNCHANGED tables

LimitWrite(r) ==
    /\ pc[r] = "limitWrite"
    /\ limit' = arg[r].lim
    /\ Finish(r)
    /\ UNCHANGED <<member, leaf, ban>>

-----------------------------------------------------------------------------
(* What ends a transaction early: the server or its connection is lost, or  *)
(* Prisma's transaction timeout fires (Abort); PostgreSQL breaks a deadlock  *)
(* by failing one of the transactions in it (DeadlockVictim).  Either way   *)
(* nothing it wrote becomes visible and the caller gets an error.           *)

Abort(r) ==
    /\ r \in InFlight
    /\ Fail(r)

\* r waits for q: a rotation for its membership row, a ban for the leaf row.
WaitsFor(r, q) ==
    \/ pc[r] = "rotateRow" /\ rowLock[Nul(r)] = q
    \/ pc[r] = "prune" /\ \E l \in LeavesOf(Nul(r)) : HoldsLeaf(q, l.id)

Deadlocked(r) == \E q \in Request \ {r} : WaitsFor(r, q) /\ WaitsFor(q, r)

DeadlockVictim(r) ==
    /\ Deadlocked(r)
    /\ Fail(r)

-----------------------------------------------------------------------------

Arrive(r) ==
    \/ Join(r) \/ Rotate(r) \/ BanLeaf(r) \/ BanNullifier(r) \/ Unban(r) \/ SetLimit(r)

Statement(r) ==
    \/ JoinFind(r) \/ JoinCreate(r) \/ JoinLock(r) \/ JoinCheck(r) \/ JoinInsert(r)
    \/ RotateRead(r) \/ RotateFind(r) \/ RotateLeaf(r) \/ RotateRow(r)
    \/ BanFind(r) \/ BanRowLock(r) \/ Prune(r)
    \/ UnbanRow(r) \/ UnbanClear(r)
    \/ LimitCheck(r) \/ LimitWrite(r)
    \/ DeadlockVictim(r)

\* Every request has been answered: the instance is over.
AllDone == (\A r \in Request : pc[r] = "done") /\ UNCHANGED vars

Next == (\E r \in Request : Arrive(r) \/ Statement(r) \/ Abort(r)) \/ AllDone

Spec == Init /\ [][Next]_vars

-----------------------------------------------------------------------------
(* The contract the tables implement.  A user's key is the commitment of    *)
(* their leaf; every request takes effect in the step that commits it.      *)

KeyOf(n) == IF LeavesOf(n) = {} THEN None ELSE (CHOOSE l \in LeavesOf(n) : TRUE).rc

Contract == INSTANCE MembershipContract WITH
    User   <- Nullifier,
    Key    <- RateCommitment,
    Token  <- Request,
    strict <- ~overlap,
    status <- [n \in Nullifier |-> member[n].status],
    key    <- [n \in Nullifier |-> KeyOf(n)],
    token  <- [n \in Nullifier |-> member[n].token],
    epoch  <- [n \in Nullifier |-> member[n].epoch]

\* The whole protocol of statements and locks implements the contract: requests
\* that interleave have the effect of atomic ones, applied in commit order.
ImplementsContract == Contract!Spec

-----------------------------------------------------------------------------
(* Properties                                                               *)

\* One leaf per membership (D-2): however joins, rotations and bans of one user
\* interleave, the user never holds two leaves, that is two RLN nullifier streams.
OneLeaf == \A l1, l2 \in leaf : l1.owner = l2.owner => l1 = l2

\* A join that made a leaf returned the author token the row still carries: two
\* concurrent joins on a token-less row never leave one of the callers with a
\* secret that no longer resolves (membership.ts, the re-read under the lock).
JoinTokenResolves == \A p \in issued : member[p[1]].token = p[2]

\* A Ban row always belongs to a membership that is banned: unban and ban of the
\* same member, however interleaved, never leave an ACTIVE member listed as banned.
BanRowMeansBanned == \A b \in ban : member[b.nul].status = "BANNED"

\* A deleted leaf never comes back: a leaf appears only in the step in which the
\* join that made it commits.  A rotation that resolved the leaf before a ban
\* pruned it cannot write it back (membershipLeaf.update by id).
PrunedLeafStaysPruned ==
    [][\A l \in leaf' : (\E k \in leaf : k.id = l.id) \/ pc[l.id] = "joinInsert"]_vars

\* Banning removes the identity from the tree: a BANNED membership has no leaf.
BannedHasNoLeaf == \A l \in leaf : member[l.owner].status # "BANNED"

\* A leaf before a step and what the step makes of it.
Replaced == {p \in leaf \X leaf' : p[1].id = p[2].id /\ p[1] # p[2]}

\* A leaf is replaced only together with a strict advance of the stored epoch
\* (finding C1): one Ministry re-key swaps the leaf exactly once.
SwapAdvancesEpoch == \A p \in Replaced : member'[p[1].owner].epoch > member[p[1].owner].epoch
ReplacementAdvancesEpoch == [][SwapAdvancesEpoch]_vars

\* Every stored rate commitment was hashed with the room's current limit, so the
\* commitment that ban-by-identity recomputes is the one stored (admin.router.ts:
\* the limit changes only while the room has no membership, banned ones included).
LeafUsesRoomLimit == \A l \in leaf : l.rc[2] = limit

\* As long as no two requests ever overlapped, the code keeps all three: whatever
\* joins, re-keys, bans, unbans and limit changes came before, a ban leaves nothing of
\* its user in the tree, a leaf is of the room's limit, and a swap takes a later epoch.
SerialPromises ==
    [][~overlap' => BannedHasNoLeaf' /\ LeafUsesRoomLimit' /\ SwapAdvancesEpoch]_vars

\* What r's statement waits for is there: the row lock, the unique key, the leaf.
RowFree(r) == rowLock[Nul(r)] = None
LeafFree(r, id) == \A q \in Request \ {r} : ~HoldsLeaf(q, id)

CanRun(r) ==
    \/ pc[r] \in {"joinFind", "joinCheck", "rotateRead", "rotateFind", "banFind",
                  "unbanClear", "limitCheck", "limitWrite"}
    \/ pc[r] \in {"joinLock", "rotateRow", "banRow", "banUpsert"} /\ RowFree(r)
    \/ pc[r] = "joinCreate" /\ (member[Nul(r)].status = "NONE" => RowFree(r))
    \/ pc[r] = "unbanRow" /\ (member[Nul(r)].status # "NONE" => RowFree(r))
    \/ pc[r] = "joinInsert" /\ RcSettled(Rc(r), r)
    \/ pc[r] = "rotateLeaf" /\ RcSettled(Rc(r), r) /\ LeafFree(r, seenLeaf[r])
    \/ pc[r] = "prune" /\ \A l \in LeavesOf(Nul(r)) : LeafFree(r, l.id)
    \/ Deadlocked(r)

\* No interleaving of row locks and unique-index waits leaves the requests in flight
\* waiting for each other: one of them has what it waits for, or is a deadlock's
\* victim.  Every statement moves its request on, so all are answered in the end.
SomeRequestRuns == InFlight # {} => \E r \in InFlight : CanRun(r)

=============================================================================
