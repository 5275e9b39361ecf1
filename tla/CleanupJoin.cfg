\* A viewer comes while a timer wakes up.
CONSTANTS
    Rooms = {r1}
    Clients = {c1, c2}
    Notices = {}
    NoRoom = NoRoom
    MaxResults = 0
    InboxCap = 1
    SendCap = 2
    LocalCap = 1
    Via = {"redis"}
    UseMongo = TRUE
SPECIFICATION HubSpec
SYMMETRY Symmetry
INVARIANT CleanupSparesViewers
CHECK_DEADLOCK FALSE
