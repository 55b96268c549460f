----------------------------- MODULE MCMembership -----------------------------
(* Small instances of Membership for TLC.                                    *)
EXTENDS Membership, TLC

CONSTANTS r1, r2, r3, r4, n1, n2, c1, c2, c3

Requests2 == {r1, r2}
Requests3 == {r1, r2, r3}
Requests4 == {r1, r2, r3, r4}
OneNullifier == {n1}
TwoNullifiers == {n1, n2}
OneCommitment == {c1}
TwoCommitments == {c1, c2}
ThreeCommitments == {c1, c2, c3}
OneLimit == {1}
TwoLimits == {1, 2}

MemberOps == Ops \ {"setLimit"}

\* Requests, users and commitments are interchangeable: no action and no checked
\* invariant or box property tells two of them apart.
Symmetry == Permutations(Request) \union Permutations(Nullifier)
              \union Permutations(Commitment)
=============================================================================
