SPECIFICATION Spec
CONSTANTS
  GFBITS = 3
  TAPS <- MCTaps
  SYS_T = 2
  SYS_N = 8
  SEMI = FALSE
  WIN_ROWS = 2
  WIN_COLS = 4
  Inputs <- MCInputs3
INVARIANTS
  TypeOK
  PublicKeyMatchesSupport
  FailsExactlyWhenSingular
