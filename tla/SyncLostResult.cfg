\* Two phones, a reliable network: one result undoes the other.
CONSTANTS
    ann = ann
    bob = bob
    col = col
    dan = dan
    eva = eva
    cup = cup
    duel = duel
    phone1 = phone1
    phone2 = phone2
    NoMatch = NoMatch
    NoCompetition = NoCompetition
    User <- MCUser
    players <- MCPlayers
    Device = {phone1, phone2}
    Competition = {cup}
    Score = {0, 1}
    MaxFinishes = 2
    MaxAttempts = 1
    Faults = {}
SPECIFICATION Spec
PROPERTIES
    ResultsKept
