SPECIFICATION SmallSpec
CONSTANTS
    ValidPolicy <- Valid
    ReadablePolicy <- Readable
    TreeOf <- Deserialize
    PolicyOf <- Serialize
    EditsOf <- Edits
    IdsOf <- Ids
    BadgeType = {"account-age"}
    Key = {"provider"}
    Text = {"github"}
    MaxWhere = 1
    MaxNodes = 3
    Caller = {"save", "remove", "seed", "pin", "broadcast", "bans", "members", "other"}
    Name = {"Lobby", "tea"}
    Slug = {"lobby", "random", "tea"}
    Starter <- Starters
    MaxRooms = 3
    MaxCalls = 2
    MaxAttempts = 2
    Slugify <- Slugs
    StoredPolicy <- Stored
    OthersCalls <- Others
    MaxEvents = 3
INVARIANTS TypeOK Accounted OwnChangesListed
PROPERTIES PolicyKept
CHECK_DEADLOCK FALSE
