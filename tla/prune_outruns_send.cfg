SPECIFICATION SpecOne
CONSTANTS
    r1 = r1  r2 = r2  r3 = r3
    m1 = m1  m2 = m2
    i1 = i1  i2 = i2
    xa = xa  xb = xb
    None = None
    Request <- Requests3
    Member <- OneMember
    Identity <- OneIdentity
    MessageId <- OneId
    Content <- TwoContents
    Persistence = "PERSISTENT"
    Cap = 1
    MaxClock = 2
    Prompt = FALSE
    MaxFailures = 0
    MaxDeletes = 0
SYMMETRY Symmetry
INVARIANTS AcceptedOnce
