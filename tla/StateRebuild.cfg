CONSTANTS
    None = None
    Contents <- AllBundles
    Starts <- Histories
    MaxFiles = 4
    MaxCommits = 2
SPECIFICATION Spec
CHECK_DEADLOCK FALSE
INVARIANTS TypeOK Grounded
PROPERTIES EligibilityKept ReceiptsSurvive RebuildIsReported
