\* One target: its listener comes and goes, the stream is lost, and the server
\* forgets what was removed.
CONSTANTS
    users = users
    d1 = d1
    d2 = d2
    Target = {users}
    Doc = {d1, d2}
    Removable = {users}
    Forgetful = TRUE
    MaxListens = 2
    MaxChanges = 2
    MaxBreaks = 1
    MaxMessages = 3
SPECIFICATION FairSpec
INVARIANTS
    OutstandingAreUnanswered
    TokenIsOfKeys
    KeysAreTold
    CurrentIsConfirmed
PROPERTIES
    ResultsArrive
\* No more listeners, changes or breaks: everything has been told.
CHECK_DEADLOCK FALSE
