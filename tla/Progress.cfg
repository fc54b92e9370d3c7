CONSTANTS
    NULL = NULL
    MaxClicks = 1
    MaxFailures = 1
SPECIFICATION FairSpec
INVARIANTS
    TypeOK
    ShownIsTrue
    NeverStalls
PROPERTIES
    QuietAfterLeaving
    Promise
    SettledIsShown
