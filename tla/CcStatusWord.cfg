CONSTANTS
  Regs <- Pairs
  Words <- Pairs
  Width = 2
  Cases <- Optimized
SPECIFICATION Spec
INVARIANT ElisionSound
