\* Two tabs of one browser.
CONSTANTS
    Stores = {"mongo", "memory"}
    Emails = {e, g}
    Passwords = {x, y}
    MaxRequests = 2
    Tabs = {t1, t2}
    Polls = {p}
    Urls <- FormUrls
    MaxActs = 2
    None = None
SPECIFICATION WebAppSpec
SYMMETRY Symmetry
INVARIANTS WebAppTypeOK SessionConsistent OneAccountPerAddress NothingStuck
CHECK_DEADLOCK FALSE
