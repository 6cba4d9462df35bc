\* One daemon, two Lenses, two edits, a fault or a refusal, a crash, one caller.
SPECIFICATION Spec
CONSTANTS
    d1 = d1  c1 = c1  x1 = x1  x2 = x2
    Off = Off
    Daemons = {d1}
    Lenses = {l1, l2}
    Artifacts = {x1, x2}
    Manifest <- OneNeedsAll
    NoLock = NoLock
    RequireSignatures = FALSE
    Callers = {c1}
    Host <- OneHost
    MaxEpoch = 3
    MaxEdits = 2
    MaxFailures = 1
    MaxCrashes = 1
INVARIANTS BeamsFollowThePath RetiredLensesStop PathIsOrdered
PROPERTIES ImplementsAtomicMount
SYMMETRY Alike
CHECK_DEADLOCK FALSE
