SPECIFICATION Spec
CONSTANTS
    s1 = s1
    NoSecret = NoSecret
    Programs <- MCPrograms
    Secrets <- MCSecrets
    MaxRuns = 3
    MaxSaves = 2
    MaxFaults = 1
CHECK_DEADLOCK FALSE
INVARIANT PageShowsMemory
INVARIANT AppFollowsSettings
INVARIANT ConfirmedSurvives
