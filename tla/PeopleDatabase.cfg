SPECIFICATION PeopleSpec
CONSTANTS
    Accounts = {a, b, c}
    Invitations = {i}
    Slots = {s1, s2}
    MaxCalls = 3
    PastStatuses = {"INVITED", "CONNECTED", "BLOCKED"}
    None = None
SYMMETRY Symmetry
INVARIANT
    OneAcceptance
PROPERTY
    ResolvedOnce
CHECK_DEADLOCK FALSE
