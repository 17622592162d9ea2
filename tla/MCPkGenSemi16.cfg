SPECIFICATION Spec
CONSTANTS
  GFBITS = 4
  TAPS <- MCTaps
  SYS_T = 2
  SYS_N = 14
  SEMI = TRUE
  WIN_ROWS = 3
  WIN_COLS = 6
  Inputs <- MCInputs4
INVARIANTS
  PublicKeyMatchesSupport
  PivotsRecordTheMove
