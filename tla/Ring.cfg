SPECIFICATION Spec
CONSTANTS
  x = x  y = y
  Uninit = Uninit
  Value = {x, y}
  InitAlloc = 4
  Inputs <- MCInputs
  MaxPop = 2
  MaxAlloc = 8
INVARIANTS
  TypeOK
  Initialised
PROPERTY ImplementsQueue
