SPECIFICATION Spec
CONSTANTS
    Names = {A, M}
    Methods = {M}
    NoTest = NoTest
    MaxTestLines = 4
    MaxCodeLines = 4
    Contexts = {0, 1}
    Absent = Absent
    Outside = Outside
    PageSize = 2
    MaxPages = 2
    CompareLimit = 3
    Counts = {0, 1, 2, 3, 4, 5}
    MaxStates = 2
    QuotedFile = 2
    BelowDir = {1, 3}
    TextLengths = {1, 3, 9}
    NoPatch = 1
    Budget = 7
    MarkerLength = 2
    Losses = {0, 1, 3}
INVARIANTS
    UndoesOnePiece PiecesCoverTheCode NamesAreTouched EditedTestsAreListed
    InputIsWhole AdviceIsEarned BudgetIsShared
CHECK_DEADLOCK FALSE
