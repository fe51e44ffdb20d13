CONSTANTS
  Regs <- BytesAndPairs
  Words <- Pairs
  Width = 2
  Cases <- Recorded
SPECIFICATION Spec
INVARIANTS TypeOK ByteElisionSound
