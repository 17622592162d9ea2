SPECIFICATION Spec
CONSTANTS
  GFBITS = 4
  TAPS <- MCTaps
  SYS_T = 3
  SYS_N = 16
  Inputs <- MCInputs3
INVARIANTS
  DecodesExactly
