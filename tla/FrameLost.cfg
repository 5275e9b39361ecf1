\* Two messages are written in one frame.
CONSTANTS
    Rooms = {r1}
    Clients = {c1}
    Notices = {}
    NoRoom = NoRoom
    MaxResults = 1
    InboxCap = 1
    SendCap = 3
    LocalCap = 1
    Via = {"redis"}
    UseMongo = TRUE
SPECIFICATION HubSpec
SYMMETRY Symmetry
PROPERTY PageShowsWritten
CHECK_DEADLOCK FALSE
