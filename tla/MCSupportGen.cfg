SPECIFICATION Spec
CONSTANTS
  WIDE = 6
  NARROW = 3
  Perms <- MCPerms
INVARIANTS
  CbTypeOK
  FieldsApart
  NetworkSoFar
  CycleMinima
  NoRetry
  SupportFollowsPi
