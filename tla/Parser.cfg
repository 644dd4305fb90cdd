\* Every small sheet, and books and answers at the limits.
SPECIFICATION Spec
CONSTANTS
    Books <- MCBooks
    Answers <- MCAnswers
    SearchRows = 3
    MaxSheets = 2
    MaxColumns = 3
    MaxLines = 5
    None = None
CHECK_DEADLOCK FALSE
INVARIANTS
    ColumnsAsMeant
    NothingIsLost
    NumbersAreTheSheets
    LimitsHold
