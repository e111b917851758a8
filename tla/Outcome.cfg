SPECIFICATION OutcomeSpec
CONSTANTS
    MaxItems = 3
    MaxPieces = 2
    Modes = {"whole", "each", "pieces"}
    IOErrors = TRUE
INVARIANTS ProvenIsEarned VerdictFollowsEvidence InterruptionIsError RowsMatchEvidence FilesComeBack
PROPERTY CommandEnds
