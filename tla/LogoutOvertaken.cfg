\* By hand: UserHasToken is violated.
CONSTANTS
    Stores = {"memory"}
    Emails = {e, g}
    Passwords = {x}
    MaxRequests = 2
    Tabs = {t1, t2}
    Polls = {p}
    Urls <- FormUrls
    MaxActs = 2
    None = None
SPECIFICATION WebAppSpec
INVARIANT UserHasToken
CHECK_DEADLOCK FALSE
