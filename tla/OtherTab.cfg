\* By hand: ActsAsShown is violated.
CONSTANTS
    Stores = {"memory"}
    Emails = {e, g}
    Passwords = {x}
    MaxRequests = 2
    Tabs = {t1, t2}
    Polls = {p}
    Urls <- FormUrls
    MaxActs = 2
    None = None
SPECIFICATION WebAppSpec
INVARIANT ActsAsShown
CHECK_DEADLOCK FALSE
