SPECIFICATION FairSpec
CONSTANTS
    m1 = m1  m2 = m2
    None = None
    Message <- TwoMessages
    Broadcast <- TwoBroadcasts
    Operator = TRUE
    HistoryLimit = 1
    MaxDeletes = 1
    MaxEvents = 3
INVARIANTS TypeOK ShownOnce SleepsOnlyWhenIdle
PROPERTIES RowsStay ImplementsChannel SubscriptionEnds TombstoneMarksShownRow
