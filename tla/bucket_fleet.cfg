SPECIFICATION WatchSpec
CONSTANTS
    Requests = {r1, r2}
    Servers = {s1, s2}
    Users = {}
    Ips = {}
    Routes = {scenarios}
    NoUser = NoUser
    NoIp = NoIp
    Limit = 1
    Ttl = 1
    RateFloor = 1000
    ExpirySlack = 0
    Skew = 1
    MaxLatency = 1
    MaxTime = 2
    MaxFaults = 1
    MaxCharges = 5
    MaxSlip = 2
SYMMETRY Interchangeable
INVARIANTS
    WindowBound
