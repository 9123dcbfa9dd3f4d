\* Two phones on one game, every fault of the network.
CONSTANTS
    ann = ann
    bob = bob
    col = col
    dan = dan
    eva = eva
    cup = cup
    duel = duel
    phone1 = phone1
    phone2 = phone2
    NoMatch = NoMatch
    NoCompetition = NoCompetition
    User <- MCUser
    players <- MCPlayers
    Device = {phone1, phone2}
    Competition = {duel}
    Score = {0, 1}
    MaxFinishes = 2
    MaxAttempts = 2
    Faults = {"fail", "unanswered", "reorder"}
SPECIFICATION Spec
SYMMETRY Phones
INVARIANTS
    TypeOK
    CellsAgreeEverywhere
    CountsSound
    AllPlayedIsFinished
