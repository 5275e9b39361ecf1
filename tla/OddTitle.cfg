\* By hand: AcceptedByBoth is violated.
CONSTANTS
    Titles <- OddTitles
    Texts <- Letters
    LongTexts = {}
    TrimGo <- Trim
    LowerJS <- Lower
    LowerGo <- Lower
    MaxOptions = 3
    MaxCreates = 1
    Fields <- Typed
    UseMongo = FALSE
    MaxCalls = 2
    MaxActs = 4
    None = None
SPECIFICATION DashboardSpec
INVARIANT AcceptedByBoth
CHECK_DEADLOCK FALSE
