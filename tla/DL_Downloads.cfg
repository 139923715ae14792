SPECIFICATION FairSpec
CONSTANTS
    Names = {n1}
    NoName = NoName
    MaxStarts = 2
INVARIANTS TypeOK PartsBelongToDownloads LibraryIsTruthful OnlyUpdatesLoseTheirTask
PROPERTIES DoneIsArchived TasksAreDecided
