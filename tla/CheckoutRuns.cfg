SPECIFICATION CheckoutSpec
CONSTANTS
    r1 = r1
    r2 = r2
    x1 = x1
    x2 = x2
    edited = edited
    added = added
    deleted = deleted
    symlink = symlink
    None = None
    Paths = {edited, added, deleted, symlink}
    Added = {added}
    Deleted = {deleted}
    Linked = {symlink}
    Runs <- TwoRuns
    Restorers = {}
    Slices <- WholeOrPiece
    Fails <- MkdirSound
    CrashIn <- AllPhases
    Overlap = TRUE
INVARIANTS WorkSafe OldRunOnBase
PROPERTY StashIsUndoLog
