SPECIFICATION FairSpec
CONSTANTS
  client = client  client2 = client2  sequence = sequence
  Writer = Writer  Reader = Reader  None = None
  a = a  b = b  c = c  d = d
  Zero = Zero  Garbage = Garbage
  Procs = {client, sequence}
  Req = {a, b, c, d}
  HasRes <- MCHasRes
  Program <- CompositeProgram
  NumLocks = 2
  MaxWrite = 2
  WriterMax = 3
  BufSize = 2
  Word = 8
  Earlier = 7
  StaleHasRes = {TRUE}
INVARIANTS
  ResultBufferBound
  ResultOrder
  BatchFits
PROPERTIES
  Returns
  Terminates
  ImplementsService
