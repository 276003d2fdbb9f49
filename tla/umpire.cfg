SPECIFICATION FairSpec
CONSTANTS
    Rounds = 3
    Leavers = {1, 2}
INVARIANTS
    TypeOK
    RoundsKept
    ScoresFair
    EndOfGame
PROPERTIES
    MatchEnds
CHECK_DEADLOCK FALSE
