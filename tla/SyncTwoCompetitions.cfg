\* One phone that goes back and forth between a competition of three and one of two,
\* on a network that keeps order and loses nothing.
CONSTANTS
    ann = ann
    bob = bob
    col = col
    dan = dan
    eva = eva
    cup = cup
    duel = duel
    phone1 = phone1
    phone2 = phone2
    NoMatch = NoMatch
    NoCompetition = NoCompetition
    User <- MCUser
    players <- MCPlayers
    Device = {phone1}
    Competition = {cup, duel}
    Score = {0, 1}
    MaxFinishes = 2
    MaxAttempts = 1
    Faults = {}
SPECIFICATION FairSpec
INVARIANTS
    OnlyOpenedIsShown
PROPERTIES
    Converges
