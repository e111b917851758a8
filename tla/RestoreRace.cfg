SPECIFICATION RunSpec
CONSTANTS
    r1 = r1
    r2 = r2
    x1 = x1
    x2 = x2
    edited = edited
    added = added
    None = None
    Paths = {edited, added}
    Added = {added}
    Deleted = {}
    Linked = {}
    Runs = {r1}
    Restorers = {x1}
    Agendas <- Whole
    Fails <- NoFails
    CrashIn <- NoFails
    Overlap = TRUE
INVARIANT WorkSafe
