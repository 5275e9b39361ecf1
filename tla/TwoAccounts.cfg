\* By hand: OneAccountAnyway is violated.
CONSTANTS
    Stores = {"unindexed"}
    Emails = {e, g}
    Passwords = {x}
    MaxRequests = 2
    Tabs = {t1, t2}
    Polls = {p}
    Urls <- FormUrls
    MaxActs = 2
    None = None
SPECIFICATION WebAppSpec
INVARIANT OneAccountAnyway
CHECK_DEADLOCK FALSE
