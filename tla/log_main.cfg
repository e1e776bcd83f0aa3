SPECIFICATION Spec
CONSTANTS
    Messages = {m1, m2, m3}
    Flows = {f1}
    NoFlow = NoFlow
    Patterns = {"business", "log.create", "log.query"}
    Viewers = {admin, tutor}
    Admins = {admin}
    PageLimit = 1
    MaxFaults = 1
SYMMETRY Interchangeable
INVARIANTS
    TypeOK
    NoSilentLoss
    FeedOnlyToAdmins
    PagesAreFull
PROPERTIES
    JournalSpec
