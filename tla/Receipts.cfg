SPECIFICATION ReceiptSpec
CONSTANTS
    Commands = {d1, d2}
    Nobody = Nobody
    Names = {n1, n2}
    Fails = {"dir", "mkdir", "open", "create", "write", "rename", "remove"}
INVARIANTS ReceiptIsComplete ReportIsTrue UnsafeIsRefused
PROPERTY StoreIsReceiptLog
