\* A viewer leaves before the initial state is sent.
CONSTANTS
    Rooms = {r1}
    Clients = {c1, c2}
    Notices = {}
    NoRoom = NoRoom
    MaxResults = 0
    InboxCap = 1
    SendCap = 3
    LocalCap = 1
    Via = {"local"}
    UseMongo = FALSE
SPECIFICATION HubSpec
SYMMETRY Symmetry
INVARIANT InitialNeverPanics
CHECK_DEADLOCK FALSE
