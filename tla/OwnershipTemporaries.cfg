SPECIFICATION Spec
CONSTANTS
    Ops = {"make", "consume", "if", "loop", "while", "for", "break", "return", "end"}
    Headers = {"flag", "temp"}
    MaxTokens = 6
    DeadCode = FALSE
INVARIANTS TemporariesDropped
CHECK_DEADLOCK FALSE
