SPECIFICATION Spec
CONSTANTS
    Paths <- MCPaths
    Root = "main"
    Prelude = "prelude"
    Names <- MCNames
    FileSystems <- MCFileSystems
    Prefixed <- MCPrefixed
    Unloadable = Unloadable
    NoBinding = NoBinding
    MainShapes = {"alone", "simple", "alias", "twice", "collide", "typeAndFn", "std"}
    AShapes = {"leaf", "private", "reexport", "consume", "both", "backEdge"}
    BShapes = {"leaf", "shadow", "cycle", "doubled", "missing"}
    PreludeShapes = {"std", "wide", "imports", "missing"}
INVARIANTS TypeOK StackIsResolving ExportsVisible ReferenceStable FlattenedNamesDistinct ReferencesSound
PROPERTIES ResolvedFrozen Terminates ImplementsLinking
CHECK_DEADLOCK FALSE
