SPECIFICATION FairSpec
CONSTANTS
    w1 = w1
    w2 = w2
    w3 = w3
    n1 = n1
    n2 = n2
    Worker = {w1, w2}
    Chunks = 3
    NewGroups = 2
    Null = Null
    Name = {n1, n2}
    NoName = NoName
    Wants = {n1}
    Weights = {2}
    Ops = {"add", "del", "edit"}
    MaxChangers = 1
    MaxCrashes = 1
    UintMod = 16
    Configured <- TwoAlike
    Backups <- NoBackups
INVARIANTS
    SummaryDrift
    ListSound
    LastPeerStays
PROPERTIES
    OnlyAskedUnlinked
    ChangesAreAtomic
    CallEnds
