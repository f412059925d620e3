SPECIFICATION StoreSpec
CONSTANTS
    g1 = g1  w1 = w1  w2 = w2  t1 = t1  t2 = t2
    Group = {g1}
    Word = {w1, w2}
    WordLength <- MCWordLength
    Settings <- MCSettings
    Requests <- MCRequests
    Files <- MCFiles
    Databases <- MCDatabases
    Task = {t1, t2}
    MaxInstance = 2
    MaxCommands = 2
    MaxErrors = 1
    MaxInterrupts = 1
INVARIANTS
    WordsWithinLimit
    QuiescentMeansSaved
    AnsweredIsStored
PROPERTIES
    MigrationResumes
    MisfitIsLeftAlone
    SaveIsAlone
CHECK_DEADLOCK FALSE
