\* Two workers that may stall at any point share batches of two; a crash or a failed statement.
SPECIFICATION FairSpec
CONSTANTS
    MaxMessages = 2
    Workers = {w1, w2}
    Admins = {}
    BatchSize = 2
    MaxAttempts = 2
    Lease = 1
    BaseBackoff = 1
    MaxBackoffFactor = 1
    MaxFaults = 1
INVARIANTS NoEventLost DeadIsExhausted
PROPERTIES ImplementsAtLeastOnce EventuallySettled
