\* Deadlock off: the bounded number of commands comes to an end.
CHECK_DEADLOCK FALSE
CONSTANTS
    Processes = {p, q}
    None = None
    Batches <- SmallBatches
    MaxBatchRecords = 2
    MaxRecordBytes = 3
    MaxTotalBytes = 4
    MaxRecords = 2
    Tasks <- SmallTasks
    CaseOf <- SmallCaseOf
    RaterOf <- SmallRaterOf
    OriginalBatches <- SmallOriginals
    AdjudicationBatches <- SmallAdjudications
    Work <- SmallWork
    Role <- SmallRole
    Parents <- SmallParents
    Rights <- SmallRights
    SuiteRights = "redistributable"
    Originals <- DraftOriginals
    Adjudications = {"a1"}
    Selections <- SmallSelections
    Removable = {"preparation", "report"}
    MaxCommands = 3
    MaxApprovals = 1
    MaxAtOnce = 2
SYMMETRY Symmetry
SPECIFICATION AnnotationsSpec
INVARIANTS BatchesWhole LimitsAgree SessionIsSound ReportsAreCurrent ReleasesAreApproved
