SPECIFICATION FairSpec
CONSTANTS
    Tools = {b1, t1}
    Builtin = {b1}
    Calls = {c1, c2}
    Bridged = {c2}
    Stops = {x1}
    Resets = {z1}
    NoCall = NoCall
INVARIANTS AnswerHonoured
PROPERTIES ConsentBeforeRun CancelHasCause DecidedGateEnds
CHECK_DEADLOCK FALSE
