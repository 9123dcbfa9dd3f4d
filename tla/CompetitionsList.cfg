\* Three competitions, one that cannot be decoded; the app is started again.
CONSTANTS
    darts = darts
    chess = chess
    old = old
    nothing = nothing
    Id = {darts, chess, old}
    Unreadable = {old}
    MaxDay = 2
    MaxChanges = 4
    MaxRelaunches = 1
SPECIFICATION ListFairSpec
INVARIANTS
    ListIsLastResult
PROPERTIES
    CatchesUp
\* When every change has been shown nothing more happens.
CHECK_DEADLOCK FALSE
