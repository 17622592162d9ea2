SPECIFICATION Spec
CONSTANTS
  Inputs <- MCInputs
  Stale = Stale
INVARIANTS
  TypeOK
  RootOfResult
  FailsExactlyInSubfield
