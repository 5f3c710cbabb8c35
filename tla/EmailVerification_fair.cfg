\* Two deliveries at a time, two tokens, crashes; no event delivered beyond its need.
SPECIFICATION FairSpec
CONSTANTS
    Deliverers = {w1, w2}
    TTL = 2
    Grace = 2
    MaxTokens = 2
    MaxTime = 3
    MaxRepeats = 0
    MaxFaults = 2
CHECK_DEADLOCK FALSE
INVARIANTS VerifiedByMail
PROPERTY EventuallyUsable
