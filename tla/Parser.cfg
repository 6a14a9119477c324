SPECIFICATION Spec
CONSTANTS
    Contexts <- MCContexts
    Identifiers <- MCIdentifiers
INVARIANTS AcceptedAsDocumented DocumentedIsAccepted
CHECK_DEADLOCK FALSE
