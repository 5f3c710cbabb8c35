\* Two posts, two attachments, one failure or crash anywhere; the grace is two ticks.
SPECIFICATION FairSpec
CONSTANTS
    Posts = {p1, p2}
    Attachments = {a1, a2}
    NoPost = nopost
    NoAttachment = noattachment
    Grace = 2
    BatchSize = 2
    MaxFaults = 1
INVARIANTS ListedIsEmbedded ShownHasFile FilesAccounted
PROPERTIES RemovedAtLast HiddenIsFinal EventuallyCollected
CHECK_DEADLOCK FALSE
