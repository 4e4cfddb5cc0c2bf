CONSTANTS
    None = None
    PolicyModes = {"open", "hidden"}
    ArticleModes = {"hidden"}
    Releases = {1, 2}
    MaxClock = 3
    MaxFaults = 1
    Commands = {k1, k2}
    MaxVersion = 4
    MaxModerationFaults = 1
    Contents = {c0, c1, c2}
    Workers = {w1, w2}
    MaxChanges = 3
    MaxKills = 1
    Requests = {r1, r2}
    TokenLimit = 1
    CodeLimit = 1
    MaxBounces = 1
    MaxBuilds = 2
    MaxApprovals = 2
    MaxPrepared = 2
    MaxReviews = 2
    MaxProjections = 3
SPECIFICATION ReaderSpec
CHECK_DEADLOCK FALSE
INVARIANTS ReaderTypeOK CommentsFollowPolicy
           DecidesOnWhatWasSeen AppliedHasEvent OpenReportIsVisible
           RowsHaveTheirFiles SessionsAreProved ActivePairIsWhole
PROPERTIES ApprovalSurvives Settles CommandsSettle SnapshotCatchesUp
           WithdrawnIsNotHanded ClosedIsNotHanded
