\* A caller, and a client that lists its notifications with a filter.
CONSTANTS
    Callers = {c1}
    People = {p1, p2}
    PageLimit = 1
    OldNotes = 2
    MaxNotes = 2
SPECIFICATION NotificationsSpec
INVARIANT ListedAsAsked
CHECK_DEADLOCK FALSE
