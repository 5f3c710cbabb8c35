\* Three items in two boards, one on a page, with two changes during the walk.
SPECIFICATION WalkSpec
CONSTANTS
    Items = {1, 2, 3}
    Boards = {b1, b2}
    Parent <- Answers
    Limit = 1
    MaxRank = 1
    MaxTurns = 2
INVARIANTS SteadyIsShown ShownOnce
CHECK_DEADLOCK FALSE
