SPECIFICATION Spec
CONSTANTS
    Posts = {p1}
    Reads = {}
    Dedicated = {d1}
    Settings = {c1}
    Quick = {q1}
    Malformed = {c1, d1}
    Spoilt = {"engine", "provider"}
    Starts = {"upgrade", "fresh", "settled"}
    MaxMishaps = 2
    FaultyUpgrade = FALSE
    None = none
    Failed = failed
CHECK_DEADLOCK FALSE
INVARIANTS
    TypeOK
    NeverTorn
    EndpointSurvives
    ViewShowsDisk
PROPERTIES
    SettersKeepSiblings
