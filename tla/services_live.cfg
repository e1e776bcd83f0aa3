\* Every part on a small instance, under fairness: a boot, one call to the
\* notifications, two files, a health check, two hops and two requests.
SPECIFICATION FairSpec
CONSTANTS
    MaxRetries = 3
    MaxDeaths = 1
    Callers = {c1}
    People = {p1}
    PageLimit = 1
    OldNotes = 1
    MaxNotes = 2
    Files = {f1, f2}
    Uploaders = {u1}
    Downloaders = {d1}
    MaxFiles = 2
    MaxAttempts = 2
    CacheKeys = {k1, k2}
    SampleSize = 1
    MaxBreaks = 2
    Messages = {m1, m2}
    Flows = {f1}
    NoFlow = NoFlow
    Patterns = {"business", "log.create"}
    Viewers = {admin}
    Admins = {admin}
    Requests = {r1, r2}
    Servers = {s1}
    Users = {alice}
    Ips = {}
    Routes = {scenarios}
    NoUser = NoUser
    NoIp = NoIp
    Limit = 2
    Ttl = 1
    RateFloor = 1000
    ExpirySlack = 0
    Skew = 0
    MaxLatency = 1
    MaxTime = 1
    MaxFaults = 2
PROPERTIES
    ServesOnlyWhole
    BootEnds
    CallsEnd
    Answered
    RepliedDespiteLogging
CHECK_DEADLOCK FALSE
