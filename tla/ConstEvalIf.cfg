SPECIFICATION Spec
CONSTANTS
    Forms = {"literal", "param", "local", "let", "stmt", "probe", "if", "valued_then"}
    Callees <- AllCallees
    MaxSize = 5
    StepBudget = 8
    CallDepth = 2
    Fuel = 8
INVARIANTS FoldKeepsTypes
CHECK_DEADLOCK FALSE
