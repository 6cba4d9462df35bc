\* Two threads, a stop, and a Worker that misbehaves; a dead Worker's pipe is an error.
SPECIFICATION Spec
CONSTANTS
    Callers = {"a", "b"}
    Runtimes = {"native_worker", "cpython"}
    Sizes = {"small", "large"}
    Signals = FALSE
    MaxRequests = 3
    MaxParts = 1
    MaxFaults = 1
INVARIANTS AnswersAreOwn ShutdownIsLast
PROPERTIES CallsReturn
CHECK_DEADLOCK FALSE
