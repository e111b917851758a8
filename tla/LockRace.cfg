SPECIFICATION LockSpec
CONSTANTS
    p1 = p1
    p2 = p2
    p3 = p3
    NoFile = NoFile
    Procs <- Three
    Pid <- OwnPid
    Overlap = TRUE
    Fails = {}
INVARIANT Mutex
