\* Two clients read one page, which is stored but missing from the prefix index.
SPECIFICATION Spec
CONSTANTS
    Clients = {c1, c2}
    Workers = {w1}
    Pages = {p1}
    Details = {}
    Tokens = {}
    None = None
    MaxChanges = 1
INVARIANT PagesFound
