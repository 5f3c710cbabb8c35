\* Workers that keep up and fetch one message at a time; a crash is still possible.
SPECIFICATION TimelySpec
CONSTANTS
    MaxMessages = 2
    Workers = {w1, w2}
    Admins = {a1}
    BatchSize = 1
    MaxAttempts = 2
    Lease = 2
    BaseBackoff = 1
    MaxBackoffFactor = 2
    MaxFaults = 1
SYMMETRY Symmetry
INVARIANTS SingleOwner
PROPERTIES ExactlyOnceWhenHealthy DeadLeftOnlyByAdmin
