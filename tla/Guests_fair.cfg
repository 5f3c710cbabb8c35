\* One client upgrades, uses and abandons two guests; the batch holds both; two failures or crashes.
SPECIFICATION FairSpec
CONSTANTS
    Guests = {g1, g2}
    Clients = {c1}
    NoClient = none
    PendingGrace = 1
    UnusedGrace = 1
    BatchSize = 2
    MaxUpgrades = 1
    MaxFaults = 2
INVARIANTS ContentKeepsAccount SessionIsWorthIt TokensMatchAccount
PROPERTIES DeletedStaysDeleted EventuallyCleaned
