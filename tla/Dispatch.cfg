\* Every command line there is.
SPECIFICATION FairSpec
CONSTANTS
    Argvs <- ArgvSpace
INVARIANTS
    TypeOK
    RefusedHasNoEffect
    RecordsReleased
    FallbackListsSix
    SilentOneMeansDone
PROPERTIES
    WritesOnlyToReset
    Ends
