CONSTANTS
  R = 4
  Bits <- MCBits
  Bytes = {0, 3}
  Cases <- LongMinus
SPECIFICATION Spec
INVARIANT ResultCorrect
