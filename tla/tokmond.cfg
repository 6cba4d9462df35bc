\* A request, its retry, cancel and deadline during edits and their checks.
SPECIFICATION FairSpec
CONSTANTS
    first = first  again = again
    one = one
    Ids = {one}
    Copies = {first, again}
    IdOf <- OneRequest
    Worker = Worker
    Nobody = Nobody
    Cap = 1
    MaxEdits = 1
    MaxChecks = 2
INVARIANTS StateIsTheVerdict
PROPERTIES CancelIsNotLost BeginsOnAnOpenRuntime RequestIsAnswered
CHECK_DEADLOCK FALSE
