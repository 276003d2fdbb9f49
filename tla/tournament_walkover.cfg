SPECIFICATION Spec
CONSTANTS
    Games <- SixPlayers
    WalkOvers = {1}
    Missing = {}
INVARIANTS
    WalkOverIsActive
CHECK_DEADLOCK FALSE
