SPECIFICATION LiveSpec
CONSTANTS
    User = {u1, u2}
    Node = {n1, n2}
    u1 = u1
    u2 = u2
    n1 = n1
    n2 = n2
    Binding <- OneBinding
    Client = {c1, c2}
    Quota <- AllQuotas
    None = None
    Empty = Empty
    Limit = 3
    Lower <- Chars
    Claims <- Payloads
    Clusters <- ClustersOf
    Requests <- RequestsOf
    Quantities <- QuantitiesOf
INVARIANTS
    Safe
    AccessHolds
PROPERTIES
    NodesFollowUsers
    SessionsAreOwn
CHECK_DEADLOCK FALSE
