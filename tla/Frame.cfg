CONSTANTS
  Fns <- MCFns
  Main = "main"
  Size <- MCSize
  Live <- MCLive
  NParams <- MCNParams
  FpNeeded <- WithFp
  Nested <- NestedLeaf
  Alloca <- MCAlloca
  CallSaved <- SavedBC
  Modes = {"HI"}
  Vals = {7}
  ArgVals = {8, 9}
  Sites <- MCSites
  StartRa = 99
  DynSizes = {1}
  Top = 20
  Bottom = 0
  MaxOut = 2
  MaxDyn = 1
  MaxDepth = 3
SPECIFICATION Spec
INVARIANTS TypeOK FrameInv SavedInv ParamsArrive StaticChainArrives
PROPERTIES CallSavedKept ImplementsCalls
