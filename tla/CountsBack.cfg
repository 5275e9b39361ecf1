\* By hand: CountsNeverGoBack is violated.
CONSTANTS
    Polls = {p, q}
    MaxSockets = 3
    Fetches = {f1}
    MaxActs = 1
    MaxEffects = 2
    MaxFailures = 1
    None = None
SPECIFICATION LivePageSpec
PROPERTY CountsNeverGoBack
CHECK_DEADLOCK FALSE
