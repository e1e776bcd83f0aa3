SPECIFICATION FairSpec
CONSTANTS
    Scenarios = {s1}
    Runs = {r1, r2}
    Statuses = {200, 401}
    Categories = {"valid"}
    Templates = {"plain"}
    MaxEdits = 1
    MaxCrashes = 1
INVARIANTS
    TypeOK
    VerdictsConsistent
    VerdictIsRecorded
PROPERTIES
    RunsEnd
CHECK_DEADLOCK FALSE
