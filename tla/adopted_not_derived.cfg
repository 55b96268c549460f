SPECIFICATION Spec
CONSTANTS
    t1 = t1  t2 = t2
    ada = ada  bob = bob
    None = None
    Tab <- OneTab
    Account <- OneAccount
    MaxEpoch = 2
    MaxLoads = 2
    MaxDerivations = 2
    Limit = 2
    MaxClock = 1
    MaxSends = 2
SYMMETRY Symmetry
INVARIANTS DerivesAdopted
\* The bounded documents, sends and epochs run out.
CHECK_DEADLOCK FALSE
