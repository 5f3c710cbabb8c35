\* Two clients and a worker over a page, a detail and two sessions.
SPECIFICATION Spec
CONSTANTS
    Clients = {c1, c2}
    Workers = {w1}
    Pages = {p1}
    Details = {d1}
    Tokens = {t1, t2}
    None = None
    MaxChanges = 2
SYMMETRY Symmetry
INVARIANTS StaleOnlyByRace SessionsFound
