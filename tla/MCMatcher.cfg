SPECIFICATION Spec
CONSTANTS
    Letter = {"a", "b", "A"}
    Fold <- MCFold
    MaxText = 5
    Config <- MCConfig
    Table <- MCTable
    MaxRegexes = 2
    Long <- MCLong
    Risky <- MCRisky
    Broken <- MCBroken
    Message <- MCMessage
    Policy <- MCPolicy
    MaxMatches = 2
    MaxSearched = 3
INVARIANTS
    SearchIsRight
    SnapshotIsSelection
    SkipsAreExact
    ReportedWordIsRight
    UnreportedWordIsAbsent
    ReportedRegexIsRight
PROPERTIES
    Decides
