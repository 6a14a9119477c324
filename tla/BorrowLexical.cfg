SPECIFICATION CheckSpec
CONSTANTS
    Ops = {"borrow", "consume", "block", "end"}
    Headers = {"flag"}
    MaxTokens = 6
    DeadCode = FALSE
INVARIANTS BorrowEndsWithScope
CHECK_DEADLOCK FALSE
