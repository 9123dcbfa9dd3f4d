\* Two users, sign-ins answered in any order, the process ended.
CONSTANTS
    ann = ann
    bob = bob
    User = {ann, bob}
    nobody = nobody
    MaxRequests = 3
    MaxRelaunches = 1
    MaxDepth = 2
SPECIFICATION ScreensSpec
INVARIANTS
    ShownIsStored
    CredentialsOfStored
    DownOncePerFlag
    BarOnFirstScreens
PROPERTIES
    LoadingEnds
\* On a login screen with no sign-ins left nothing more happens.
CHECK_DEADLOCK FALSE
