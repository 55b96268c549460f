---------------------------- MODULE MessagePipeline ----------------------------
(***************************************************************************)
(* sendMessage for ONE room: verify a proof, look for an earlier signal     *)
(* under the same RLN nullifier, store or record it, prune the history, and *)
(* ban the sender whose two signals share a nullifier.  The room's          *)
(* persistence and rateLimit stay as they are (room.update may change them  *)
(* under a send; README, Not modelled).                                     *)
(*                                                                          *)
(* Nothing here is a transaction but the ban: every await of the handler is *)
(* a point where other sends, the clock, joins, rotations and bans get in.  *)
(* One action is the code between two awaits.                               *)
(*                                                                          *)
(* Cryptography is modelled by what it guarantees: a valid proof comes from *)
(* a leaf of the tree and a message id below the limit; identity, epoch and *)
(* message id fix the nullifier, the content fixes x, and two points of one *)
(* nullifier with different x give the identity away.                       *)
(*                                                                          *)
(* A request handles one proof and stores at most one row, so a request's   *)
(* name also names the row or the Redis record it wrote.                    *)
(***************************************************************************)
EXTENDS Naturals, FiniteSets

CONSTANTS
    Request,        \* sends, each handled once
    Member,         \* memberships of the room
    Identity,       \* identity commitments a leaf may be made of
    MessageId,      \* message ids below the room's userMessageLimit
    Content,        \* message contents, that is values of x
    Persistence,    \* Room.persistence
    Cap,            \* MAX_ROOM_MESSAGES
    MaxClock,       \* bound on the clock, in epochs
    Prompt,         \* the clock waits for sends that are about to lose their epoch
    MaxFailures,    \* bound on the requests that die half-way
    MaxDeletes,     \* bound on the operator's deletes
    None

ASSUME PersistenceAssumption == Persistence \in {"PERSISTENT", "EPHEMERAL"}
ASSUME CapAssumption == Cap \in Nat \ {0}
ASSUME BoundAssumption == MaxClock \in Nat /\ MaxFailures \in Nat /\ MaxDeletes \in Nat
ASSUME RequestAssumption == IsFiniteSet(Request)
ASSUME PromptAssumption == Prompt \in BOOLEAN

VARIABLES
    clock,      \* floor(Date.now() / rateLimit)
    leaf,       \* the identity of each member's leaf (MembershipTree)
    message,    \* Message rows: the request that stored it and its createdAt
    point,      \* Redis records: the request that made it and its epoch
    tombstone,  \* rows the operator deleted
    pc,         \* where each request is, at the end its answer
    signal,     \* the proof of each request
    seenEpoch,  \* currentEpoch as sampled by the request
    found,      \* request whose row or record the last look-up returned
    edge,       \* createdAt of the boundary row the prune has read
    accepted,   \* history: requests that passed the check and stored or recorded
    slashed,    \* history: collisions that pruned a leaf, and whose identity it was
    parted      \* history: sends whose identity lost its leaf after their tree check
                \* to something else than their own collision

store == <<message, point, tombstone>>
local == <<seenEpoch, found, edge>>
vars == <<clock, leaf, store, pc, signal, local, accepted, slashed, parted>>

Epoch == 0..MaxClock

\* A client's epoch may be one ahead of the server's.
Signal == [id : Identity, epoch : 0..MaxClock + 1, mid : MessageId, x : Content]

ASSUME NoneAssumption == None \notin Request \union Signal \union Identity

Row == [by : Request, at : Nat]
Point == [by : Request, at : Epoch]
Slash == [by : Request, id : Identity]

Answer == {"sent", "duplicate", "banned", "rejected", "failed"}
PC == {"idle", "readLeaves", "verify", "check", "store", "recheck", "collision",
       "pruneRead", "pruneDelete", "publish"} \union Answer

TypeOK ==
    /\ clock \in Epoch
    /\ leaf \in [Member -> Identity \union {None}]
    /\ message \in SUBSET Row
    /\ point \in SUBSET Point
    /\ tombstone \in SUBSET Request
    /\ pc \in [Request -> PC]
    /\ signal \in [Request -> Signal \union {None}]
    /\ seenEpoch \in [Request -> Epoch]
    /\ found \in [Request -> Request \union {None}]
    /\ edge \in [Request -> Nat]
    /\ accepted \in SUBSET Request
    /\ slashed \in SUBSET Slash
    /\ parted \in SUBSET Request

-----------------------------------------------------------------------------

Tree == INSTANCE MembershipTree

Init ==
    /\ clock = 0
    /\ Tree!Init
    /\ message = {}
    /\ point = {}
    /\ tombstone = {}
    /\ pc = [r \in Request |-> "idle"]
    /\ signal = [r \in Request |-> None]
    /\ seenEpoch = [r \in Request |-> 0]
    /\ found = [r \in Request |-> None]
    /\ edge = [r \in Request |-> 0]
    /\ accepted = {}
    /\ slashed = {}
    /\ parted = {}

\* The identities in the tree.
Leaf == {leaf[m] : m \in Member} \ {None}

\* A send past the tree check was made from an identity that had a leaf then.
Proven(r) == pc[r] \notin {"idle", "readLeaves", "rejected", "failed"}

\* The sends that lose, by a change of the tree, the leaf they were proved from.
Parting == {r \in Request : Proven(r) /\ signal[r].id \in Leaf /\ signal[r].id \notin Leaf'}

SameNullifier(s, t) == s.id = t.id /\ s.epoch = t.epoch /\ s.mid = t.mid

Collides(s, t) == SameNullifier(s, t) /\ s.x # t.x

Goto(r, label) == pc' = [pc EXCEPT ![r] = label]

\* The request is answered; what it had read is gone.
Reply(r, answer) ==
    /\ Goto(r, answer)
    /\ seenEpoch' = [seenEpoch EXCEPT ![r] = 0]
    /\ found' = [found EXCEPT ![r] = None]
    /\ edge' = [edge EXCEPT ![r] = 0]

-----------------------------------------------------------------------------
(* The environment: time, the membership operations, the operator.          *)

\* With Prompt, an epoch does not end under a verified send of the epoch before
\* that has not stored yet.
Tick ==
    /\ clock < MaxClock
    /\ Prompt => \A r \in Request :
           pc[r] \in {"check", "store", "recheck"} => clock <= signal[r].epoch
    /\ clock' = clock + 1
    /\ UNCHANGED <<leaf, store, pc, signal, local, accepted, slashed, parted>>

\* A join, a rotation or a ban committed: anything Membership.tla can do to the tree
\* (MembershipContractProofs, TreeChangesCovered).
ChangeTree ==
    /\ Tree!Next
    /\ parted' = parted \union Parting
    /\ UNCHANGED <<clock, store, pc, signal, local, accepted, slashed>>

\* The operator's soft delete: the row, its nullifier and its proof stay.
DeleteMessage ==
    /\ Cardinality(tombstone) < MaxDeletes
    /\ \E m \in message :
          /\ m.by \notin tombstone
          /\ tombstone' = tombstone \union {m.by}
    /\ UNCHANGED <<clock, leaf, message, point, pc, signal, local, accepted, slashed, parted>>

-----------------------------------------------------------------------------
(* sendMessage                                                              *)

\* The proof's epoch is accepted one either side of the server's.
InWindow(epoch, current) == epoch <= current + 1 /\ current <= epoch + 1

\* A member proves for the epoch of its own clock, at most one off the server's
\* (one further off is rejected, like one that Tick makes late).
Submit(r) ==
    /\ pc[r] = "idle"
    /\ \E s \in Signal :
          /\ InWindow(s.epoch, clock)
          /\ signal' = [signal EXCEPT ![r] = s]
    /\ Goto(r, "readLeaves")
    /\ UNCHANGED <<clock, leaf, store, local, accepted, slashed, parted>>

\* The leaves are read here, and the proof checked against their root below.  A
\* proof made from other leaves, or from the same ones in another order, fails.
ReadLeaves(r) ==
    /\ pc[r] = "readLeaves"
    /\ \/ /\ signal[r].id \in Leaf
          /\ Goto(r, "verify")
          /\ UNCHANGED local
       \/ Reply(r, "rejected")
    /\ UNCHANGED <<clock, leaf, store, signal, accepted, slashed, parted>>

\* Mutant: the proof's own epoch is taken for the current one.
VerifyTrustsProof(r) ==
    /\ pc[r] = "verify"
    /\ Goto(r, "check")
    /\ seenEpoch' = [seenEpoch EXCEPT ![r] = signal[r].epoch]
    /\ UNCHANGED <<clock, leaf, store, signal, found, edge, accepted, slashed, parted>>

\* currentEpoch is sampled once and kept for the prune.
Verify(r) ==
    /\ pc[r] = "verify"
    /\ \/ /\ InWindow(signal[r].epoch, clock)
          /\ Goto(r, "check")
          /\ seenEpoch' = [seenEpoch EXCEPT ![r] = clock]
          /\ UNCHANGED <<found, edge>>
       \/ /\ ~InWindow(signal[r].epoch, clock)
          /\ Reply(r, "rejected")
    /\ UNCHANGED <<clock, leaf, store, signal, accepted, slashed, parted>>

\* Mutant: x is not compared, so a repeated proof counts as a collision.
OutcomeIgnoresX(r, q) == "collision"

\* checkCollision against the earlier request q.
Outcome(r, q) == IF signal[q].x = signal[r].x THEN "duplicate" ELSE "collision"

\* A duplicate is answered; a collision goes on to the ban with the prior point.
Classify(r, q) ==
    \/ /\ Outcome(r, q) = "duplicate"
       /\ Reply(r, "duplicate")
    \/ /\ Outcome(r, q) = "collision"
       /\ Goto(r, "collision")
       /\ found' = [found EXCEPT ![r] = q]
       /\ UNCHANGED <<seenEpoch, edge>>

Prior(r) == {q \in Request : /\ \E m \in message : m.by = q
                             /\ SameNullifier(signal[q], signal[r])}

Check(r) ==
    /\ Persistence = "PERSISTENT"
    /\ pc[r] = "check"
    /\ \/ \E q \in Prior(r) : Classify(r, q)
       \/ Prior(r) = {} /\ Goto(r, "store") /\ UNCHANGED local
    /\ UNCHANGED <<clock, leaf, store, signal, accepted, slashed, parted>>

\* Mutant: the unique violation is taken for a repeat of the same proof.
StoreConflictIsDuplicate(r) ==
    /\ pc[r] = "store"
    /\ \/ /\ Prior(r) = {}
          /\ message' = message \union {[by |-> r, at |-> Cardinality(accepted) + 1]}
          /\ accepted' = accepted \union {r}
          /\ Goto(r, "pruneRead")
          /\ UNCHANGED local
       \/ /\ Prior(r) # {}
          /\ Reply(r, "duplicate")
          /\ UNCHANGED <<message, accepted>>
    /\ UNCHANGED <<clock, leaf, point, tombstone, signal, slashed, parted>>

\* Mutant: there is no unique index to lose against.
StoreWithoutIndex(r) ==
    /\ pc[r] = "store"
    /\ message' = message \union {[by |-> r, at |-> Cardinality(accepted) + 1]}
    /\ accepted' = accepted \union {r}
    /\ Goto(r, "pruneRead")
    /\ UNCHANGED <<clock, leaf, point, tombstone, signal, local, slashed, parted>>

\* The unique index on (roomId, epoch, rlnNullifier) decides between two sends
\* that both found nothing: the loser looks again.
Store(r) ==
    /\ pc[r] = "store"
    /\ \/ /\ Prior(r) = {}
          /\ message' = message \union {[by |-> r, at |-> Cardinality(accepted) + 1]}
          /\ accepted' = accepted \union {r}
          /\ Goto(r, "pruneRead")
       \/ /\ Prior(r) # {}
          /\ Goto(r, "recheck")
          /\ UNCHANGED <<message, accepted>>
    /\ UNCHANGED <<clock, leaf, point, tombstone, signal, local, slashed, parted>>

\* After a unique violation; a row pruned in between leaves only the error.
Recheck(r) ==
    /\ pc[r] = "recheck"
    /\ \/ \E q \in Prior(r) : Classify(r, q)
       \/ Prior(r) = {} /\ Reply(r, "failed")
    /\ UNCHANGED <<clock, leaf, store, signal, accepted, slashed, parted>>

\* Mutant: the record lives for two epochs.
TTLTwoEpochs == 2

TTL == 4        \* ttlMs = rateLimit * 4, in epochs

\* EPHEMERAL: one Lua script gets the record or sets it.
CheckAndRecord(r) ==
    LET prior == {p \in point : SameNullifier(signal[p.by], signal[r])} IN
    /\ Persistence = "EPHEMERAL"
    /\ pc[r] = "check"
    /\ \/ /\ \E p \in prior : Classify(r, p.by)
          /\ UNCHANGED <<point, accepted>>
       \/ /\ prior = {}
          /\ point' = point \union {[by |-> r, at |-> clock]}
          /\ accepted' = accepted \union {r}
          /\ Goto(r, "publish")
          /\ UNCHANGED local
    /\ UNCHANGED <<clock, leaf, message, tombstone, signal, slashed, parted>>

\* Redis drops a record, at the earliest TTL epochs after it was set.
Expire ==
    /\ \E p \in point : /\ p.at + TTL <= clock
                        /\ point' = point \ {p}
    /\ UNCHANGED <<clock, leaf, message, tombstone, pc, signal, local, accepted, slashed, parted>>

\* banOnCollision: Shamir recovery gives the identity, its leaf the membership to
\* ban, in one transaction.  Without a leaf nobody is banned; the answer is the
\* same.
Collision(r) ==
    LET id == signal[found[r]].id IN
    /\ pc[r] = "collision"
    /\ \/ \E m \in Member :
             /\ Tree!Holds(m, id)
             /\ Tree!Leave(m)
             /\ slashed' = slashed \union {[by |-> r, id |-> id]}
       \/ /\ Tree!Vacant(id)
          /\ UNCHANGED <<leaf, slashed>>
    /\ parted' = parted \union (Parting \ {r})
    /\ Reply(r, "banned")
    /\ UNCHANGED <<clock, store, signal, accepted>>

Newer(at) == {m \in message : m.at > at}

\* pruneRoomHistory, first query: the Cap-th newest row.
PruneRead(r) ==
    /\ pc[r] = "pruneRead"
    /\ \/ /\ Cardinality(message) < Cap
          /\ Goto(r, "publish")
          /\ UNCHANGED edge
       \/ \E m \in message :
            /\ Cardinality(Newer(m.at)) = Cap - 1
            /\ edge' = [edge EXCEPT ![r] = m.at]
            /\ Goto(r, "pruneDelete")
    /\ UNCHANGED <<clock, leaf, store, signal, seenEpoch, found, accepted, slashed, parted>>

\* Mutant: the boundary row goes too.
PrunableWithEdge(r) == {m \in message : /\ m.at <= edge[r]
                                        /\ signal[m.by].epoch + 1 < seenEpoch[r]}

Prunable(r) == {m \in message : m.at < edge[r] /\ signal[m.by].epoch + 1 < seenEpoch[r]}

\* Second query: delete what is older and out of the live window.
PruneDelete(r) ==
    /\ pc[r] = "pruneDelete"
    /\ message' = message \ Prunable(r)
    /\ Goto(r, "publish")
    /\ UNCHANGED <<clock, leaf, point, tombstone, signal, local, accepted, slashed, parted>>

Publish(r) ==
    /\ pc[r] = "publish"
    /\ Reply(r, "sent")
    /\ UNCHANGED <<clock, leaf, store, signal, accepted, slashed, parted>>

Answered(r) == pc[r] \in Answer
Failed == {r \in Request : pc[r] = "failed"}

\* The server, the database or Redis goes away under the request, or the ban's
\* transaction is a deadlock victim: what was not written yet never is.
Die(r) ==
    /\ pc[r] # "idle" /\ ~Answered(r)
    /\ Cardinality(Failed) < MaxFailures
    /\ Reply(r, "failed")
    /\ UNCHANGED <<clock, leaf, store, signal, accepted, slashed, parted>>

-----------------------------------------------------------------------------

Handle(r) ==
    \/ ReadLeaves(r) \/ Verify(r) \/ Check(r) \/ Store(r) \/ Recheck(r)
    \/ CheckAndRecord(r) \/ Collision(r) \/ PruneRead(r) \/ PruneDelete(r) \/ Publish(r)

Environment ==
    Tick \/ ChangeTree \/ DeleteMessage \/ Expire

AllDone == (\A r \in Request : Answered(r)) /\ UNCHANGED vars

Next == Environment \/ (\E r \in Request : Submit(r) \/ Handle(r) \/ Die(r)) \/ AllDone

Spec == Init /\ [][Next]_vars

-----------------------------------------------------------------------------
(* Properties                                                               *)

\* One signal per nullifier: of all sends under one identity, epoch and message
\* id, only one is ever stored or relayed, even after its row was pruned,
\* tombstoned or its record expired.  So an identity gets at most
\* userMessageLimit messages through in an epoch.
AcceptedOnce ==
    \A q, r \in accepted : SameNullifier(signal[q], signal[r]) => q = r

\* No identity is slashed that did not sign two contents under one nullifier: a
\* repeated request, a re-key or another member's spam never costs a member the room.
OnlyDoubleSignalersSlashed ==
    \A s \in slashed : \E q, r \in Request :
        /\ signal[q] # None /\ signal[r] # None
        /\ Collides(signal[q], signal[r]) /\ signal[r].id = s.id

\* The prune keeps the newest Cap rows, whatever other sends insert and delete
\* between its two queries.
NewestKept ==
    [][\A m \in message : Cardinality(Newer(m.at)) < Cap => m \in message']_vars

\* The send was answered with one of the outcomes of sendMessage.
Handled(r) == pc[r] \in {"sent", "duplicate", "banned"}

\* The collision of r took the identity's leaf away.
Slashes(r) == [by |-> r, id |-> signal[r].id] \in slashed

\* Two sends with different contents under one nullifier, both answered as handled:
\* however their look-ups and inserts interleaved, and whatever was pruned, deleted
\* or expired since, one of them is answered `banned` and has taken the leaf away,
\* unless a rotation or a ban did so after that send's tree check.  (The identity may
\* come back: after an unban, or by a rotation of a member who had rotated away.)
DoubleSignalSlashed ==
    \A q, r \in Request :
        Handled(q) /\ Handled(r) /\ Collides(signal[q], signal[r]) =>
            \E s \in {q, r} : pc[s] = "banned" /\ (Slashes(s) \/ s \in parted)

=============================================================================
