SPECIFICATION RunSpec
CONSTANTS
    r1 = r1
    r2 = r2
    x1 = x1
    x2 = x2
    edited = edited
    added = added
    None = None
    Paths = {edited, added}
    Added = {added}
    Deleted = {}
    Linked = {added}
    Runs = {r1, r2}
    Restorers = {x1}
    Agendas <- WholeOrPieces
    Fails <- Failing
    CrashIn <- CrashAnywhere
    Overlap = FALSE
INVARIANTS WorkSafe RunsOnRightTree OneUser
PROPERTIES LeavesNoTrace RecoversUntorn Takeover
