SPECIFICATION Spec
CONSTANTS
  SYS_T = 2
  SYS_N = 3
  RANGE = 4
  BLOCK = 4
INVARIANTS
  TypeOK
  WeightIsT
  AllFromLastBlock
PROPERTIES
  RejectsOnlyUnusable
  Terminates
