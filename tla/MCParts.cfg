\* The store's files run out, and a plan that has been judged is at its end.
CHECK_DEADLOCK FALSE
CONSTANTS
    Digests = {d1, d2}
    Writers = {p1, p2}
    Files = {f1, f2, f3}
    None = None
    Ids = {"a", "b", "c"}
    MaxRows = 3
    Findings <- SmallFindings
    Defects <- SmallDefects
    Producers = {"none", "human", "model"}
    Conclusions = {"edit", "abstain"}
    Markings <- SmallMarkings
    MaxFindings = 2
    Reviewers = {"r1", "r2"}
    Reviews <- SomeReviews
    References <- SomeReferences
    Checklists = {{"c"}}
    Nonempty = {TRUE}
    MaxCases = 2
    Checks <- SmallChecks
    Rubrics <- SmallRubrics
    Sources = {"s1"}
    Criteria <- PanelCriteria
    Levels <- PanelLevels
    ReplyRows <- SmallRows
    RowLists <- SmallRowLists
    AnswerMaps <- SmallAnswerMaps
    Refused = Refused
    Candidates <- PanelCandidates
    Kind <- SmallKind
    FamilyOf <- SmallFamilies
    Castings <- SmallCastings
    Recorded <- SmallRecorded
    OtherCases <- SmallCases
    Scored <- SmallScored
    Strengths <- SmallStrengths
    Policies <- SmallPolicies
    Usages <- SmallUsages
    Fraction = 3
    Million = 1
    ShortContext = 2
    Base = 10
    MaxAttempts = 3
SPECIFICATION PartsSpec
INVARIANTS NeverTorn AckedSurvives VerdictIsRight FindingsAreFair DecisionsAreFair ChecksNeedEvidence RepliesAreWhole ConsensusIsBlind JudgeFiguresRight AdmissionExact CapsHold
