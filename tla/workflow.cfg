\* One ray with three requests of clients and one disturbance.
SPECIFICATION Spec
CONSTANTS
    MaxSteps = 32  MaxModelCalls = 4  MaxToolCalls = 4  MaxTokens = 8  MaxFailures = 5
    BuiltIns = {}
    MaxBeats = 12
    MaxDisturbances = 1
    Plans = 1  MaxAttempts = 1  MaxWait = 1  MinFirst = 1  MaxFirst = 1  Margin = 0
    Schedules <- NoSchedule
    RetryAfters = {0}
    Responses = {}
    Absent = Absent
    Keys <- NoKeys
    Workflows <- Five
    SpawnOf <- Free
    Denied = {}
    Controls <- Everything
    MaxRequests = 3
INVARIANTS ResultsBelongToTheAttempt ChildrenEndOnce DarkMeansSettled
CHECK_DEADLOCK FALSE
