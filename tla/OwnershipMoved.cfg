SPECIFICATION Spec
CONSTANTS
    Ops = {"make", "consume", "if", "loop", "while", "for", "break", "return", "end"}
    Headers = {"flag"}
    MaxTokens = 6
    DeadCode = FALSE
INVARIANTS MovedIsUnusable
CHECK_DEADLOCK FALSE
