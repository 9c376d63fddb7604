SPECIFICATION PeopleSpec
CONSTANTS
    Accounts = {a, b}
    Invitations = {i}
    Slots = {s1, s2}
    MaxCalls = 3
    PastStatuses = {"CONNECTED"}
    None = None
INVARIANT
    BlockIsKept
CHECK_DEADLOCK FALSE
