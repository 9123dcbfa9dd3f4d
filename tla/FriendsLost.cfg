\* The second acceptance from one copy of the profile undoes the first.
CONSTANTS
    ann = ann
    bob = bob
    col = col
    nil = nil
    User = {ann, bob, col}
    Unlisted = {}
    MaxRequests = 2
    MaxDate = 2
    MaxQueue = 2
    MaxFriends = 1
    Faults = {}
    Refusable = {}
SPECIFICATION Spec
PROPERTIES
    FriendsKept
