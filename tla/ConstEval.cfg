SPECIFICATION Spec
CONSTANTS
    Forms = {"literal", "param", "local", "empty", "assert", "probe", "f", "and", "stmt", "let",
             "runtime", "if", "ifelse", "loop", "while", "break", "breakvalue", "continue", "return"}
    Callees <- AllCallees
    MaxSize = 6
    StepBudget = 8
    CallDepth = 2
    Fuel = 8
INVARIANTS
    TypeOK
    FoldPreservesExecution
    EvalMatchesExecution
    FoldKeepsTypes
    NothingLeftToFold
CHECK_DEADLOCK FALSE
