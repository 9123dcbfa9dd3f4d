\* Three listeners that come and go, every failure.
CONSTANTS
    list = list
    profile = profile
    users = users
    Query = {list, profile, users}
    Cached = {list}
    Stoppable = {list, profile, users}
    MaxRestarts = 2
SPECIFICATION OnlineFairSpec
INVARIANTS
    TrackerAsserts
    StreamAsNeeded
    CurrentIsSentAgain
PROPERTIES
    FirstEventComes
