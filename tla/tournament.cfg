SPECIFICATION FairSpec
CONSTANTS
    Games <- SmallGames
    WalkOvers = {1, 3, 5}
    Missing = {6}
INVARIANTS
    TypeOK
    HalfAdvance
    LevelClosed
PROPERTIES
    LosersLost
    TournamentEnds
CHECK_DEADLOCK FALSE
