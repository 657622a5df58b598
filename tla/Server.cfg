SPECIFICATION FairSpec
CONSTANTS
  w1 = w1  w2 = w2  d1 = d1  dds = dds  plain = plain  broken = broken
  Main = Main  Zmq = Zmq  None = None
  Threads = {w1, w2, Zmq, Main}
  Workers = {w1, w2}
  Boards = {d1}
  BoardOrder <- MCBoardOrder
  ZeroList <- MCZeroList
  MagicBytes = MagicBytes
  PowerUp = PowerUp
  Pages = {dds}
  NameOrder <- MCNameOrder
  Values = {plain, broken}
  Split = {broken}
  Empty = Empty
  Jobs <- MCJobs
  Startups <- MCStartups
  Messages <- MCMessages
  Quota = 2
  Faults = 1
INVARIANTS
  TypeOK
  MagicMeansConfigured
  StoredParams
  HoldOwned
  FreshTiming
  StatusTrue
  AnsweredOnce
CHECK_DEADLOCK FALSE
PROPERTIES
  EveryAnswer
