SPECIFICATION FairSpec
CONSTANTS
    c1 = c1
    c2 = c2
    None = None
    Clients = {c1, c2}
    Kinds <- kinds
    MaxVersion = 1
INVARIANTS TypeOK ClientsAgree
PROPERTIES ClosingEnds
CHECK_DEADLOCK FALSE
