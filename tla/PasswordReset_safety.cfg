\* One delivery at a time, perhaps repeated, beside two clients, a fault and the cleanup job.
SPECIFICATION Spec
CONSTANTS
    Deliverers = {w1}
    Clients = {c1, c2}
    NoClient = none
    TTL = 1
    Grace = 1
    MaxTokens = 2
    MaxTime = 1
    MaxRepeats = 1
    MaxFaults = 2
    MaxResets = 2
SYMMETRY Symmetry
CHECK_DEADLOCK FALSE
INVARIANTS UsableWasMailed UsedOnceUnlessRepeated SessionsOfThisPassword
