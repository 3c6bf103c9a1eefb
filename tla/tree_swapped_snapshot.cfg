SPECIFICATION Spec
CONSTANTS
    Versions = {v1, v2}
    NoVersion = none
    MaxResult = 2
    MaxLabel = 0
    EditAt = {}
PROPERTIES
    HitKeepsData
