SPECIFICATION Spec
CONSTANTS
    Null = Null
    Bad = Bad
    Hash = Hash
    TextRelation = TextRelation
    TimeOf = TimeOf
    SemVerOf = SemVerOf
    Keys = {"a", "b"}
    Threads = {t1, t2}
    Clients = {c1, c2}
    Scripts <- MCScripts
    FileLists <- MCFileLists
    AppUsers <- MCAppUsers
    MaxUpdates = 2
    MaxFailures = 1
SYMMETRY MCSymmetry
INVARIANTS
    TypeOK
    Configured
    ClientsFollow
    FirstFileWins
CHECK_DEADLOCK FALSE
