\* Three players, three games; scores that win, lose and draw.
CONSTANTS
    ann = ann
    bob = bob
    col = col
    NoMatch = NoMatch
    User <- MCUser
    players <- MCPlayers
    Score = {0, 1}
    MaxFinishes = 3
SPECIFICATION Spec
INVARIANTS
    TypeOK
    CellsAgree
    CountExact
    FinishedIffAllPlayed
    PointsAreDecidedGames
PROPERTIES
    ImplementsTournament
