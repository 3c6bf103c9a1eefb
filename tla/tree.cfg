SPECIFICATION Spec
CONSTANTS
    Versions = {v1}
    NoVersion = none
    MaxResult = 2
    MaxLabel = 0
    EditAt <- OutsideWindows
INVARIANTS
    ResultsStand
    HitIsComplete
    DriftIsSignalled
PROPERTIES
    HistoryOnlyGrows
    NoSilentClobber
