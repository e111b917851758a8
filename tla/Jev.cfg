SPECIFICATION JevSpec
CONSTANTS
    c1 = c1
    c2 = c2
    Callers <- TwoCallers
    Free = Free
    Cancellable = {c1}
    MaxRetries = 2
    MinInterval = 2
    BackoffBase = 2
    MaxBackoff = 2
    ForbiddenWait = 1
    Second = 1
    Width = 3
    RetryAfters <- Headers
    Horizon = 1
INVARIANTS RateBound RetriesAreWarranted ServerIsLeftAlone
PROPERTIES EndsAreWarranted PausesAreSane EvaluateEnds
