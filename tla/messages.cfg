SPECIFICATION SpecEither
CONSTANTS
    r1 = r1  r2 = r2  r3 = r3
    m1 = m1  m2 = m2
    i1 = i1  i2 = i2
    xa = xa  xb = xb
    None = None
    Request <- Requests3
    Member <- TwoMembers
    Identity <- TwoIdentities
    MessageId <- OneId
    Content <- TwoContents
    Persistence = "PERSISTENT"
    Cap = 2
    MaxClock = 4
    Prompt = TRUE
    MaxFailures = 1
    MaxDeletes = 1
SYMMETRY Symmetry
INVARIANTS TypeOK AcceptedOnce OnlyDoubleSignalersSlashed DoubleSignalSlashed
PROPERTIES NewestKept
\* The bounded sends are answered and the clock has run out.
CHECK_DEADLOCK FALSE
