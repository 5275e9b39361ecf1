\* A room stops between the copying of the subscribers and the sending.
CONSTANTS
    Rooms = {r1}
    Clients = {c1}
    Notices = {}
    NoRoom = NoRoom
    MaxResults = 1
    InboxCap = 1
    SendCap = 2
    LocalCap = 1
    Via = {"local"}
    UseMongo = FALSE
SPECIFICATION HubSpec
SYMMETRY Symmetry
INVARIANT PublishNeverPanics
CHECK_DEADLOCK FALSE
