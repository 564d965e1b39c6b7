SPECIFICATION LiveSpec
CONSTANTS
    own = own
    b1 = b1
    s1 = s1
    s2 = s2
    Storage = {s1, s2}
    Own = own
    Admin = {b1}
    Target <- First
    Leaving = {s2}
    Claimable <- Kinds
    None = None
    Limit = 2
INVARIANT Safe
PROPERTIES
    DeletionsEnd
    ClaimsBind
CHECK_DEADLOCK FALSE
