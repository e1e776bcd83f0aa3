\* The process and its parts: two callers and two users of notifications,
\* two files, two uploads and a download, one reset token whose time to live
\* ends, an HTTP request while two accounts change, a row of any kind and two
\* updates of it, every kind of password; the process dies once.
CONSTANTS
    Callers = {c1, c2}
    People = {p1, p2}
    PageLimit = 1
    OldNotes = 2
    MaxNotes = 3
    Files = {f1, f2}
    Uploaders = {u1, u2}
    MaxFiles = 2
    Downloaders = {d1}
    MaxEdits = 2
    MaxAttempts = 2
    Tokens = {t1}
    MaxTtl = 2
    MaxClock = 4
    MaxResends = 1
    MaxDeaths = 1
    Accounts = {a1, a2}
    Requests = {h1}
    MaxChanges = 3
SPECIFICATION Spec
SYMMETRY Symmetry
INVARIANTS
    TypeOK
    ReadAcknowledged
    WalkSkipsNothing
    ReportedIsStored
    StraysHaveFailedCalls
    TokenBeforeMail
    ExpiresAsAsked
    SpentForGood
    HandledForEntitled
    SpokenAsAsked
    DownloadTruthful
    OmittedKept
PROPERTIES
    BoardRefined
    LoginStaysOpen
CHECK_DEADLOCK FALSE
