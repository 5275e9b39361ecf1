\* A second timer finds a room that is just being started.
CONSTANTS
    Rooms = {r1, r2}
    Clients = {c1, c2, c3}
    Notices = {}
    NoRoom = NoRoom
    MaxResults = 0
    InboxCap = 1
    SendCap = 2
    LocalCap = 1
    Via = {"redis"}
    UseMongo = TRUE
SPECIFICATION HubSpec
SYMMETRY Symmetry
INVARIANT CleanupNeverPanics
CHECK_DEADLOCK FALSE
