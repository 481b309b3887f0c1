CONSTANTS
    web = web
    bare = bare
    dns = dns
    http = http
    stream = stream
    z1 = z1
    n1 = n1
    n2 = n2
    s1 = s1
    s2 = s2
    NoUps = NoUps
    NoZone = NoZone
    NoStr = NoStr
    NoVal = NoVal
    Kind = {http, stream}
    Built = {http}
    Conf = {http}
    Upstream = {web}
    KindOf <- MCKindOf
    Zone = {z1}
    ZoneOf <- MCZoneOf
    Name = {n1, n2}
    Server = {s1}
    Resolve <- Addresses
    Weights = {NoVal, 1}
    ConnLimits = {NoVal}
    FailLimits = {NoVal}
    Timeouts = {NoVal}
    Junk = {0}
    UintMod = 8
    SlabChunks = 9
    Configured <- ListConfigs
SPECIFICATION FairSpec
INVARIANTS
    TypeOK
    CountersAgree
    NoNullRead
    LeftOneDeletesNothing
    DelLeavesOnlyHead
    DelKeepsOthers
    EditTouchesOnlyAsked
    AddIsReported
PROPERTIES
    GroupsStayServed
    SlabConserved
    CallReturns
    ImplementsPeerTable
