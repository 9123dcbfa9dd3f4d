\* Two users, one without an array of friends, whose updates of it may be refused.
CONSTANTS
    ann = ann
    bob = bob
    col = col
    nil = nil
    User = {ann, col}
    Unlisted = {col}
    MaxRequests = 2
    MaxDate = 1
    MaxQueue = 2
    MaxFriends = 1
    Faults = {"unanswered", "unread"}
    Refusable = {"friends"}
SPECIFICATION FairSpec
INVARIANTS
    TypeOK
    FriendsHaveAsked
PROPERTIES
    RequestsKept
    RequestsArrive
