SPECIFICATION Spec
CONSTANTS
  GFBITS = 4
  TAPS <- MCTaps
  SYS_T = 2
  SYS_N = 15
  BYTE = 3
  Keys <- MCKeys
  PkArrays = {p1}
  PkBoxes = {p2}
  SkArrays = {s1}
  SkBoxes = {s2}
  SsBuffers = {x1, x2}
  PublicKeys <- MCPublicKeys
  Drawn <- MCDrawn
  ZEROIZE = TRUE
  FlipBits <- MCFlipBits
  MAX_SENT = 1
  MAX_LIVE = 4
  p1 = p1
  p2 = p2
  s1 = s1
  s2 = s2
  x1 = x1
  x2 = x2
SYMMETRY MCSymmetry
INVARIANTS
  AgreeOnSameCiphertext
  NoFalseAgreement
  NothingLeftBehind
