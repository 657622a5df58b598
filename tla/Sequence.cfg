SPECIFICATION Spec
CONSTANTS
  client = client  client2 = client2  sequence = sequence
  Writer = Writer  Reader = Reader  None = None
  a = a  b = b  c = c  d = d
  Zero = Zero  Garbage = Garbage
  Procs = {client, client2, sequence}
  Req = {a, c, d}
  HasRes <- MCHasRes
  Program <- SequenceProgram
  NumLocks = 2
  MaxWrite = 2
  WriterMax = 2
  BufSize = 2
  Word = 16
  Earlier = 15
  StaleHasRes = {TRUE}
INVARIANTS
  TypeOK
  WholePulses
  OwnResult
  NoDangling
  NoLostWakeup
PROPERTY CompletedOnce
