--------------------------- MODULE MCMessagePipeline ---------------------------
(* Small instances of MessagePipeline for TLC.                               *)
EXTENDS MessagePipeline, TLC

CONSTANTS r1, r2, r3, m1, m2, i1, i2, xa, xb

Requests3 == {r1, r2, r3}
OneMember == {m1}
TwoMembers == {m1, m2}
OneIdentity == {i1}
TwoIdentities == {i1, i2}
OneId == {0}
TwoContents == {xa, xb}

\* Requests, members, identities and contents are interchangeable.
Symmetry == Permutations(Request) \union Permutations(Member)
              \union Permutations(Identity) \union Permutations(Content)

-----------------------------------------------------------------------------
(* Rooms of both kinds in one run, each with the bounds its own cases need.  *)

VARIABLE persistence

Ephemeral == INSTANCE MessagePipeline WITH Persistence <- "EPHEMERAL"

InitEither == Init /\ persistence \in {"PERSISTENT", "EPHEMERAL"}

Started == {r \in Request : pc[r] # "idle"}
Signing == {signal[r].id : r \in Started}
InTree == {m \in Member : leaf[m] # None}

\* Saved rooms: all the sends of one identity, with one delete on a clock one epoch
\* shorter, or a change of the tree under two sends on that clock or under all of them
\* in one epoch, and without failures.
SavedBound ==
    /\ clock <= 2 /\ Cardinality(Signing) <= 1 /\ Cardinality(InTree) <= 1 /\ Failed = {}
    /\ tombstone # {} => clock <= 1 /\ parted = {}
    /\ parted # {} => clock = 0 \/ (clock = 1 /\ Cardinality(Started) <= 2)

\* Ephemeral rooms: two sends, with joins, re-keys, bans and one failure, on a clock
\* that outlasts the Redis records.
FleetingBound == Cardinality(Started) <= 2

NextEither ==
    /\ \/ persistence = "PERSISTENT" /\ Next /\ SavedBound'
       \/ persistence = "EPHEMERAL" /\ Ephemeral!Next /\ FleetingBound'
    /\ UNCHANGED persistence

\* Rooms of the one kind that Persistence says.
SpecOne == Init /\ persistence = Persistence /\ [][Next /\ UNCHANGED persistence]_<<vars, persistence>>

SpecEither == InitEither /\ [][NextEither]_<<vars, persistence>>
=============================================================================
