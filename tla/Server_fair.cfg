\* Two clients, one an administrator, the relay and a job on the default pool of two.
SPECIFICATION FairSpec
CONSTANTS
    Clients = {c1, c2}
    Admins = {c1}
    MaxConns = 2
    MaxBackground = 1
    Wrap = 2
PROPERTIES ImplementsSerialStore RequestsAnswered StopsInOrder StopsAtLast
