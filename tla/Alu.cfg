CONSTANTS
  R = 4
  Bits <- MCBits
  Bytes = {0, 1, 3}
  Cases <- Sound
SPECIFICATION Spec
INVARIANTS TypeOK ResultCorrect OthersKept
