\* Two polls, one after the other; the connection of each effect may break once.
CONSTANTS
    Polls = {p, q}
    MaxSockets = 3
    Fetches = {f1}
    MaxActs = 1
    MaxEffects = 2
    MaxFailures = 1
    None = None
SPECIFICATION FairLivePageSpec
INVARIANTS LivePageTypeOK OneConnection
PROPERTIES NothingAfterUnmount SocketsEnd Converges
CHECK_DEADLOCK FALSE
