SPECIFICATION FairSpec
CONSTANTS
    s1 = s1
    s2 = s2
    a1 = a1
    c1 = c1
    d1 = d1
    o1 = o1
    NoOne = NoOne
    Sids = {s1, s2}
    Stored = {}
    Asks = {a1}
    Edits = {}
    Closes = {c1}
    Deletes = {d1}
    Opens = {o1}
    Renames = {}
    ShellGuards = TRUE
    LateFailures = TRUE
INVARIANTS
    DeleteGateOpen
PROPERTIES
    OneWriterPerRecipe
    ClosedSessionGoes
    ResumeEnds
