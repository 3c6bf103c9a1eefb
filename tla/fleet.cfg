SPECIFICATION FairSpec
CONSTANTS
    pipe = pipe
    stream = stream
    web = web
    None = none
    Fleet <- ThreeServers
    Sse = {stream}
    Http = {web}
    Untimed = {stream}
    PageCap = 2
    Runtimes = {"builtin", "external"}
INVARIANTS
    ExpiredMeansKilled
    OneMissedPerFire
    KilledStaysKilled
PROPERTY WaitsEnd
