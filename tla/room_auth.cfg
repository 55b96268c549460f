SPECIFICATION Spec
CONSTANTS
    f1 = f1  f2 = f2
    r1 = r1  r2 = r2  r3 = r3  r4 = r4  r5 = r5
    None = None
    Flow <- TwoFlows
    Request <- Requests5
    TTL = 1
    MaxClock = 2
    MaxFaults = 1
SYMMETRY Symmetry
INVARIANTS TypeOK ExchangedOnce PickupHonoured AnsweredRowIsGone
PROPERTIES GoneForGood
