SPECIFICATION RedisMayStayDownSpec
CONSTANTS
    Requests = {r1, r2}
    Servers = {s1, s2}
    Users = {alice}
    Ips = {}
    Routes = {scenarios}
    NoUser = NoUser
    NoIp = NoIp
    Limit = 2
    Ttl = 1
    RateFloor = 1000
    ExpirySlack = 0
    Skew = 1
    MaxLatency = 1
    MaxTime = 1
    MaxFaults = 1
PROPERTIES
    FailsOpen
