\* One request of a user who exists; the query of a guard fails.
CONSTANTS
    Accounts = {a1}
    Requests = {h1}
    MaxChanges = 1
SPECIFICATION HttpSpec
INVARIANT ErrorShape
CHECK_DEADLOCK FALSE
