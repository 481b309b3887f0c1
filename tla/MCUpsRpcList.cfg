CONSTANTS
    web = web
    bare = bare
    dns = dns
    http = http
    stream = stream
    z1 = z1
    n1 = n1
    n2 = n2
    s1 = s1
    s2 = s2
    NoUps = NoUps
    NoZone = NoZone
    NoStr = NoStr
    NoVal = NoVal
    Kind = {http, stream}
    Built = {http, stream}
    Conf = {http, stream}
    Upstream = {web, bare, dns}
    KindOf <- MCKindOf
    Zone = {z1}
    ZoneOf <- MCZoneOf
    Name = {n1}
    Server = {s1}
    Resolve <- AnyAddress
    Weights = {NoVal}
    ConnLimits = {NoVal}
    FailLimits = {NoVal}
    Timeouts = {NoVal}
    Junk = {0}
    UintMod = 8
    SlabChunks = 5
    Configured <- BackupConfigs
    Http = http
    Stream = stream
    Order <- MCOrder
    MaxItems = 2
SPECIFICATION RpcSpec
INVARIANTS
    ListingIsCurrent
PROPERTIES
    SlabConserved
