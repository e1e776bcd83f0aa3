SPECIFICATION ReplaySpec
CONSTANTS
    Scenarios = {s1}
    Runs = {r1}
    Statuses = {200, 401}
    Categories = {"valid", "auth"}
    Templates = {"plain", "placeholder"}
    MaxEdits = 1
    MaxCrashes = 0
PROPERTIES
    AuthCasesUntouched
CHECK_DEADLOCK FALSE
