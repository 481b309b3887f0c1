SPECIFICATION Spec
CONSTANTS
    w1 = w1
    w2 = w2
    w3 = w3
    n1 = n1
    n2 = n2
    Worker = {w1, w2}
    Chunks = 3
    NewGroups = 1
    Null = Null
    Name = {n1, n2}
    NoName = NoName
    Wants = {n1, n2}
    Weights = {1}
    Ops = {"del"}
    MaxChangers = 2
    MaxCrashes = 0
    UintMod = 16
    Configured <- TwoPeers
    Backups <- NoBackups
INVARIANTS
    LastPeerStays
