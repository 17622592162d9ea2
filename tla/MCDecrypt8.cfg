SPECIFICATION Spec
CONSTANTS
  GFBITS = 3
  TAPS <- MCTaps
  SYS_T = 2
  SYS_N = 8
  Inputs <- MCInputs2
INVARIANTS
  TypeOK
  DecodesExactly
  LengthWithinRound
  RegisterGeneratesPrefix
