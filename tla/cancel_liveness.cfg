SPECIFICATION FairSpec
CONSTANTS
    t1 = t1
    t2 = t2
    s1 = s1
    NoOne = NoOne
    Turns = {t1, t2}
    Pulls = {}
    Resumes = {}
    Stops = {s1}
    Cap = 1
    FreshTarget = TRUE
PROPERTIES
    StopEndsTurn
    HungTurnEnds
