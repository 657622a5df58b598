SPECIFICATION Spec
CONSTANTS
  client = client  client2 = client2  sequence = sequence
  Writer = Writer  Reader = Reader  None = None
  a = a  b = b  c = c  d = d
  Zero = Zero  Garbage = Garbage
  Procs = {client, client2}
  Req = {a, b}
  HasRes <- MCHasRes
  Program <- ClientProgram
  NumLocks = 2
  MaxWrite = 2
  WriterMax = 2
  BufSize = 2
  Word = 8
  Earlier = 7
  StaleHasRes = {TRUE}
INVARIANT CondIdReadLive
