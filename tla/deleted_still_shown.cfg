SPECIFICATION Spec
CONSTANTS
    m1 = m1  m2 = m2
    None = None
    Message <- OneMessage
    Broadcast <- OneBroadcast
    Operator = FALSE
    HistoryLimit = 1
    MaxDeletes = 1
    MaxEvents = 2
INVARIANT TombstoneReconciles
