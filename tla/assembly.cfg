\* Every graph of three relays on every path, and assemblies of the structural Lenses.
SPECIFICATION Spec
CONSTANTS
    Assemblies <- Library
    PathsOf <- AnyPath
    MaxTurns = 2
    MaxFailures = 1
INVARIANTS NoLensSeesStaleLight LightGoesEverywhere BoxesAreTransparent DelaysCommitOnce
CHECK_DEADLOCK FALSE
