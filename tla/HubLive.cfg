\* One room, a viewer that may be slow or leave, three results and a status change.
CONSTANTS
    Rooms = {r1}
    Clients = {c1}
    Notices = {n1}
    NoRoom = NoRoom
    MaxResults = 3
    InboxCap = 2
    SendCap = 2
    LocalCap = 1
    Via = {"redis"}
    UseMongo = TRUE
SPECIFICATION FairHubSpec
INVARIANTS HubTypeOK NoSilentGap OrderKept
PROPERTIES ResultsGetThrough StatusGetsThrough
CHECK_DEADLOCK FALSE
