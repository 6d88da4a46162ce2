SPECIFICATION FairSpec
CONSTANTS
    Names = {"a", "b"}
    Workers = {w1, w2}
    Editors = {e1, e2}
    Times = {1, 2, 4}
    CronTimes = {1, 4}
    Requested <- OneTime
    Revisions <- TwoRevisions
    BatchSize = 2
    MaxTime = 2
    MaxSkew = 1
    MaxEdits = 2
    MaxCrashes = 1
INVARIANTS
    TypeOK
    ClaimedOnce
    EnabledIsPlanned
PROPERTIES
    DueRuns
CHECK_DEADLOCK FALSE
