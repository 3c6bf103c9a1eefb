SPECIFICATION FairSpec
CONSTANTS
    Plain = {m1}
    Delegation = {d1, d2}
    Sub = {s1}
    Promoting = {s1}
    Signature <- OneSignature
    Contents <- TurnContents
    SteerAt = 2
    StepCap = 1
    SubStepCap = 2
    MaxResumes = 1
    BatchCap = 1
    None = none
INVARIANTS
    MainTraceIsExact
    SubTraceIsPrefix
    PromotionsSurvive
    ProseLandsOnce
    RepeatsAreRefused
PROPERTIES
    StopEnds
