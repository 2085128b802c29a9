CONSTANTS
    l1 = l1
    l2 = l2
    p1 = p1
    p2 = p2
    None = None
    Link <- TwoLinks
    ErrorLink <- OneErrorLink
    Pin <- TwoPins
    MaxUsers = 3
    Incidents = 2
SPECIFICATION Spec
INVARIANTS
    TypeOK
    WhoIsInBelongs
    LinksWait
CHECK_DEADLOCK FALSE
