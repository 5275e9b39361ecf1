\* By hand: JumpsFromForm is violated.
CONSTANTS
    Titles <- TwoTitles
    Texts <- Letters
    LongTexts = {}
    TrimGo <- Trim
    LowerJS <- Lower
    LowerGo <- Lower
    MaxOptions = 3
    MaxCreates = 1
    Fields <- Typed
    UseMongo = FALSE
    MaxCalls = 2
    MaxActs = 4
    None = None
SPECIFICATION DashboardSpec
PROPERTY JumpsFromForm
CHECK_DEADLOCK FALSE
