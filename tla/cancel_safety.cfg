SPECIFICATION Spec
CONSTANTS
    t1 = t1
    t2 = t2
    p1 = p1
    r1 = r1
    s1 = s1
    NoOne = NoOne
    Turns = {t1, t2}
    Pulls = {p1}
    Resumes = {r1}
    Stops = {s1}
    Cap = 1
    FreshTarget = TRUE
SYMMETRY Symmetry
INVARIANTS
    TypeOK
    SingleInFlight
    WatchdogStandsDown
    OnlyItsUserCancels
    StopHonoured
