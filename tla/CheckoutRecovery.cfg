SPECIFICATION CheckoutSpec
CONSTANTS
    r1 = r1
    r2 = r2
    x1 = x1
    x2 = x2
    edited = edited
    added = added
    deleted = deleted
    symlink = symlink
    None = None
    Paths = {edited, added, deleted}
    Added = {added}
    Deleted = {deleted}
    Linked = {added}
    Runs <- OneRun
    Restorers <- TwoRestorers
    Slices <- Whole
    Fails <- CleanSound
    CrashIn <- NoCrashInClean
    Overlap = FALSE
PROPERTY RestoreComplete
