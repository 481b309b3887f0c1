SPECIFICATION FairSpec
CONSTANTS
    Strings <- MCStrings
    NoMethod = NoMethod
    Null = Null
    NGX_OK = NGX_OK
    NGX_ERROR = NGX_ERROR
    NGX_DONE = NGX_DONE
    MaxParts = 3
INVARIANTS
    TypeOK
    RefsBalanced
    UsedWhileKept
    LengthBodyIsWhole
    RunsOnlyWhole
    RunsWhatIsNamed
    StatusTellsWhatRan
    MessageMatchesCode
PROPERTIES
    RequestEnds
