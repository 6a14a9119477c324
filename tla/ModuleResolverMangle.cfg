SPECIFICATION Spec
CONSTANTS
    Paths <- MCPaths
    Root = "main"
    Prelude = "prelude"
    Names <- MCNamesWithPrefix
    FileSystems <- MCFileSystems
    Prefixed <- MCPrefixed
    Unloadable = Unloadable
    NoBinding = NoBinding
    MainShapes = {"alone", "lookalike", "alias"}
    AShapes = {"leaf", "private", "reexport", "consume", "both", "backEdge"}
    BShapes = {"leaf", "shadow", "cycle", "doubled", "missing"}
    PreludeShapes = {"std", "wide", "imports", "missing"}
INVARIANTS FlattenedNamesDistinct
CHECK_DEADLOCK FALSE
