SPECIFICATION Spec
CONSTANTS
    s1 = s1
    p1 = p1
    o1 = o1
    r1 = r1
    r2 = r2
    NoOne = NoOne
    Sids = {s1}
    Stored = {p1}
    Asks = {}
    Edits = {}
    Closes = {}
    Deletes = {}
    Opens = {o1}
    Renames = {r1, r2}
    ShellGuards = TRUE
    LateFailures = TRUE
INVARIANT SingleWriter
