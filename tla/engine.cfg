\* One caller on one ray: cancels, remounts, a crash or stop and a failing append.
SPECIFICATION LateSpec
CONSTANTS
    d1 = d1  c1 = c1  r1 = r1  a1 = a1  a2 = a2
    NoAct = NoAct  NoRay = NoRay
    Daemons = {d1}
    Callers = {c1}
    Host <- LoneHost
    Rays = {r1}
    Acts = {a1, a2}
    RayOf <- SameRay
    Derived = {a1}
    Window = 100
    MaxBeats = 3
    MaxInputs = 1
    MaxEpoch = 2
    MaxCancels = 1
    MaxCrashes = 2
    MaxFaults = 1
INVARIANTS OneActAfterCancel TerminalsCloseStarts
PROPERTIES ImplementsLifecycle StartedIsSettled
CHECK_DEADLOCK FALSE
