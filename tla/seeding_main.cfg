SPECIFICATION Spec
CONSTANTS
    NumLevels = 2
    DemoLevel = 2
    NumAccounts = 2
    NumSlots = 2
    NumCases = 2
    NumSamples = 2
    Limits = {1, 2}
    NumStudents = 1
    NumClasses = 2
    Tutors = {1, 2}
    Suffixes = {1, 2}
    MaxStarts = 3
    MaxKills = 1
    MaxYear = 2
INVARIANTS
    TypeOK
    NaturalKeysUnique
    FinishedAsPromised
    DemoOfOneRun
PROPERTIES
    OthersRowsSurvive
