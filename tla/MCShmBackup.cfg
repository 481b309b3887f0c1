SPECIFICATION Spec
CONSTANTS
    w1 = w1
    w2 = w2
    w3 = w3
    n1 = n1
    n2 = n2
    Worker = {w1, w2, w3}
    Chunks = 3
    NewGroups = 2
    Null = Null
    Name = {n1}
    NoName = NoName
    Wants = {NoName}
    Weights = {1}
    Ops = {"add"}
    MaxChangers = 3
    MaxCrashes = 1
    UintMod = 16
    Configured <- OnePeer
    Backups <- NoBackups
PROPERTIES
    BackupLostByRaceOnly
