SPECIFICATION TraceSpec
CONSTANTS
    Messages = {m1, m2}
    Flows = {f1}
    NoFlow = NoFlow
    Patterns = {"business"}
    Viewers = {}
    Admins = {}
    PageLimit = 1
    MaxFaults = 0
INVARIANTS
    TraceInOrder
CHECK_DEADLOCK FALSE
