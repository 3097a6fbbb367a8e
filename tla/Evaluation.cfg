SPECIFICATION FairSpec
CONSTANTS
    Null = Null
    Bad = Bad
    Hash <- MCHash
    TextRelation <- MCTextRelation
    TimeOf <- MCTimeOf
    SemVerOf <- MCSemVerOf
    Flags <- MCFlags
    Segments <- MCSegments
    Contents <- MCContents
    Patches <- MCPatches
    Users <- MCUsers
    Wanted <- MCWanted
    OptionSets <- MCOptionSets
    Offline = FALSE
    SendEvents = TRUE
    Uptime = 40
    MaxWrites = 1
    MaxFailures = 1
    MaxDepth = 6
INVARIANTS
    TypeOK
    FollowsMeaning
    CountsEvaluations
    EventsExplain
    AnswersWithValue
    OneSnapshot
PROPERTY
    Returns
CHECK_DEADLOCK FALSE
