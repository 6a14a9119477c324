SPECIFICATION Spec
CONSTANTS
  Programs <- MCPrograms
  kMaxGenericInstantiationDepth = 3
  Depths = {12}
INVARIANTS
  TypeOK
  TypeRefusalIsReal
  EmittedTypesAreFinite
  RememberedHold
  ConstraintVerdictIsRight
  NoDanglingInstance
  PromisedIsBegun
  EmittedOnceAndNeeded
  LoweringRefusalIsReal
  EmittedCallsMeetConstraints
PROPERTY Terminates
