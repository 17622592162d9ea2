SPECIFICATION Spec
CONSTANTS
  Widths = {3, 4}
  Cases <- MCCases
INVARIANT RevIsInverse
