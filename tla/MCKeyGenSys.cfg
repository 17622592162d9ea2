SPECIFICATION Spec
CONSTANTS
  Seeds = {s1, s2, s3}
  SEMI = FALSE
  DefaultPivots = DefaultPivots
  Stale = Stale
  Zeros = Zeros
  NoKey = NoKey
  s1 = s1
  s2 = s2
  s3 = s3
INVARIANTS
  TypeOK
  OneAttempt
PROPERTIES
  DeliversFirstGoodKey
  ReturnsIfGoodSeedExists
