SPECIFICATION Spec
CONSTANTS
    w1 = w1
    w2 = w2
    w3 = w3
    n1 = n1
    n2 = n2
    Worker = {w1, w2, w3}
    Chunks = 3
    NewGroups = 1
    Null = Null
    Name = {n1}
    NoName = NoName
    Wants = {NoName}
    Weights = {2}
    Ops = {"add", "edit", "lst"}
    MaxChangers = 2
    MaxCrashes = 0
    UintMod = 16
    Configured <- OnePeer
    Backups <- NoBackups
SYMMETRY Workers
INVARIANTS
    TypeOK
    SummaryDrift
    ListSound
    NoOverrun
PROPERTIES
    ChangesAreAtomic
