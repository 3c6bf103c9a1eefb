SPECIFICATION FairSpec
CONSTANTS
    Gateway = {g1, g2}
    Native = {n1}
    Gated = {g1}
    Tokened = {g1}
    Reported = {g1, n1}
    Name <- ToolNames
    MaxResumes = 1
    None = none
INVARIANTS
    LiveMatchesSettled
    AnswerIsLast
PROPERTIES
    TurnSettles
