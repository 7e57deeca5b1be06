\* Three Run calls, together or one after another, over three modules.
CONSTANTS
    Runs = {r1, r2, r3}
    N = 3
    MaxHandlers = 2
    None = None
SPECIFICATION FairSpec
CHECK_DEADLOCK FALSE
INVARIANTS LiveModulesNest NothingLeaks CleanMeansDrained
PROPERTY RunReturns
