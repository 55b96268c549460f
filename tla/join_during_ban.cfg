SPECIFICATION Spec
CONSTANTS
    r1 = r1  r2 = r2  r3 = r3  r4 = r4
    n1 = n1  n2 = n2
    c1 = c1  c2 = c2  c3 = c3
    None = None
    Request <- Requests4
    Nullifier <- TwoNullifiers
    Commitment <- OneCommitment
    Limit <- OneLimit
    MaxEpoch = 0
    MaxInFlight = 2
    Op <- MemberOps
SYMMETRY Symmetry
INVARIANT BannedHasNoLeaf
