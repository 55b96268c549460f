SPECIFICATION SmallSpec
CONSTANTS
    t1 = t1  t2 = t2
    ada = ada  bob = bob
    None = None
    Tab <- TwoTabs
    Account <- TwoAccounts
    MaxEpoch = 2
    MaxLoads = 3
    MaxDerivations = 2
    Limit = 2
    MaxClock = 1
    MaxSends = 3
SYMMETRY Symmetry
INVARIANTS TypeOK NeverDoubleSignals OwnIdentity
\* The bounded documents, sends and epochs run out.
CHECK_DEADLOCK FALSE
