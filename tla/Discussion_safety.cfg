\* One administrator, who may do whatever anybody may; pages of one comment each.
SPECIFICATION Spec
CONSTANTS
    Users = {admin}
    Admins = {admin}
    Boards = {b1}
    Tags = {t1}
    MaxPosts = 2
    MaxComments = 3
    MaxReactions = 1
    BatchSize = 1
    NoBoard = noboard
INVARIANTS NothingOutlivesItsPost ThreadsAreWhole PostsHaveBoards
 
CHECK_DEADLOCK FALSE
