SPECIFICATION Spec
CONSTANTS
    s1 = s1
    p1 = p1
    a1 = a1
    e1 = e1
    d1 = d1
    d2 = d2
    o1 = o1
    r1 = r1
    NoOne = NoOne
    Sids = {s1}
    Stored = {p1}
    Asks = {a1}
    Edits = {e1}
    Closes = {}
    Deletes = {d1, d2}
    Opens = {o1}
    Renames = {r1}
    ShellGuards = FALSE
    LateFailures = FALSE
SYMMETRY Symmetry
INVARIANTS
    SingleWriter
    CloseDiscardsTurn
