\* One post with a comment and a reaction, two workers, two failures or restarts.
SPECIFICATION Spec
CONSTANTS
    Workers = {w1, w2}
    MaxPosts = 1
    MaxComments = 1
    MaxEvents = 4
    MaxChanges = 2
    MaxFaults = 2
SYMMETRY Symmetry
INVARIANTS IndexTrue FeedTrue CountedOnce NotifiedOnce
PROPERTIES ReadStaysRead
CHECK_DEADLOCK FALSE
