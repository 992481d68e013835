SPECIFICATION SitemapsFairSpec
CONSTANTS
    d1 = d1
    d2 = d2
    p1 = p1
    p2 = p2
    p3 = p3
    Doc = {d1, d2}
    Page = {p1, p2, p3}
    Foreign = Foreign
    NoDoc = NoDoc
    Fetch = {f1, f2}
    Scan = {s1}
    Conventional <- MCConventional
    RobotsTxt <- MCRobotsTxt
    IndexAt <- MCIndexAt
    UrlsetAt <- MCUrlsetAt
    MaxDiscovered = 2
    MaxNested = 2
    MaxIndexDepth = 1
    MaxPerDomain = 2
    MaxRedirects = 1
    BehindProxy = TRUE
INVARIANT WalkBounded
INVARIANT OverrunNeedsOverlap
PROPERTY ChangesAreRecorded
PROPERTY WalksUseUp
PROPERTY EveryFetchEnds
CHECK_DEADLOCK FALSE
