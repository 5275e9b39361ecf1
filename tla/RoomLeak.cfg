\* The only viewer is dropped for being slow.
CONSTANTS
    Rooms = {r1}
    Clients = {c1}
    Notices = {}
    NoRoom = NoRoom
    MaxResults = 1
    InboxCap = 1
    SendCap = 1
    LocalCap = 1
    Via = {"redis"}
    UseMongo = TRUE
SPECIFICATION FairHubSpec
PROPERTY EmptyRoomsGo
CHECK_DEADLOCK FALSE
