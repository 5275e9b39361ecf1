\* Results through the local channels; two viewers, and two rooms one after the other.
CONSTANTS
    Rooms = {r1, r2}
    Clients = {c1, c2}
    Notices = {}
    NoRoom = NoRoom
    MaxResults = 1
    InboxCap = 1
    SendCap = 1
    LocalCap = 1
    Via = {"local"}
    UseMongo = FALSE
SPECIFICATION HubSpec
SYMMETRY Symmetry
INVARIANTS MembersCanReceive OneLiveRoom
CHECK_DEADLOCK FALSE
