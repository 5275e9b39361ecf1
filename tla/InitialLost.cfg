\* The upgrade handler returns before the initial state is fetched.
CONSTANTS
    Rooms = {r1}
    Clients = {c1, c2}
    Notices = {}
    NoRoom = NoRoom
    MaxResults = 0
    InboxCap = 1
    SendCap = 3
    LocalCap = 1
    Via = {"redis"}
    UseMongo = TRUE
SPECIFICATION HubSpec
SYMMETRY Symmetry
INVARIANT InitialStateArrives
CHECK_DEADLOCK FALSE
