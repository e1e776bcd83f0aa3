SPECIFICATION WatchSpec
CONSTANTS
    Requests = {r1, r2}
    Servers = {s1}
    Users = {}
    Ips = {}
    Routes = {scenarios}
    NoUser = NoUser
    NoIp = NoIp
    Limit = 2
    Ttl = 3
    RateFloor = 1000
    ExpirySlack = 1
    Skew = 0
    MaxLatency = 1
    MaxTime = 7
    MaxFaults = 0
    MaxCharges = 9
    MaxSlip = 2
SYMMETRY Interchangeable
INVARIANTS
    TypeOK
    WindowBound
    NoSlip
PROPERTIES
    RemainingHonoured
    RetryAfterExact
