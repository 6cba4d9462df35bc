\* A daemon dies while a tool runs, under the policy when nothing is configured.
SPECIFICATION Spec
CONSTANTS
    calculate = "calculate"  run_command = "run_command"  alice = alice  bob = bob
    MaxSteps = 8  MaxModelCalls = 2  MaxToolCalls = 8  MaxTokens = 8  MaxFailures = 3
    BuiltIns = {"calculate", "run_command"}
    UserPolicy <- Default
    ProjectPolicies = {}
    RiskOf <- Risks
    MaxBeats = 4
    MaxDisturbances = 1
    Plans = 1
    Schedules <- OneSchedule
    MaxAttempts = 3
    MaxWait = 3
    MinFirst = 1
    MaxFirst = 4
    Margin = 1
    RetryAfters = {0, 9}
    Responses <- Answers
    Absent = Absent
    Keys <- KeyOrder
    Tools = {"calculate", "run_command"}
    KindOf <- Kinds
    Inputs = {"remote", "local-sum"}
    Frames = {}
    Clients = {}
    Decides = {}
    MaxRequests = 6
INVARIANTS UnknownIsNotRepeated
CHECK_DEADLOCK FALSE
