SPECIFICATION LinksSpec
CONSTANTS
    None = None
    p1 = p1
    p2 = p2
    q = q
PROPERTIES
    LinksRecover
    MembershipConverges
    SubscriptionLearned
CHECK_DEADLOCK FALSE
