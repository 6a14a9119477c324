SPECIFICATION Spec
CONSTANTS
    Ops = {"make", "move", "consume", "discard", "borrow", "refTemp", "copy", "use", "temp", "block", "if", "else", "loop", "while", "for", "break", "continue", "return", "end"}
    Headers = {"flag", "take"}
    MaxTokens = 7
    DeadCode = TRUE
    ShortTokens = 5
CONSTRAINT Explored
INVARIANTS TypeOK BorrowsCounted CheckedLocalsLive NothingLeaks AcceptedMovesAreSafe
PROPERTIES OwnerOutlivesReference
CHECK_DEADLOCK FALSE
