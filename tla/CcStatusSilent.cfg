CONSTANTS
  Regs <- Bytes
  Words <- NoWords
  Width = 2
  Cases <- SilentShifts
SPECIFICATION Spec
INVARIANT ElisionSound
