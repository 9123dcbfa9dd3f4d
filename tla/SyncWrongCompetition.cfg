\* One phone: the listener of the competition left behind replaces the one on screen.
CONSTANTS
    ann = ann
    bob = bob
    col = col
    dan = dan
    eva = eva
    cup = cup
    duel = duel
    phone1 = phone1
    phone2 = phone2
    NoMatch = NoMatch
    NoCompetition = NoCompetition
    User <- MCUser
    players <- MCPlayers
    Device = {phone1}
    Competition = {cup, duel}
    Score = {0, 1}
    MaxFinishes = 1
    MaxAttempts = 1
    Faults = {}
SPECIFICATION Spec
INVARIANTS
    MatchInItsCompetition
