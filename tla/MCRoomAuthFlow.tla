---------------------------- MODULE MCRoomAuthFlow ----------------------------
(* Small instances of RoomAuthFlow for TLC.                                  *)
EXTENDS RoomAuthFlow, TLC

CONSTANTS f1, f2, r1, r2, r3, r4, r5

OneFlow == {f1}
TwoFlows == {f1, f2}
Requests4 == {r1, r2, r3, r4}
Requests5 == {r1, r2, r3, r4, r5}

\* Flows and requests are interchangeable.
Symmetry == Permutations(Flow) \union Permutations(Request)
=============================================================================
