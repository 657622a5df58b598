SPECIFICATION Spec
CONSTANTS
  Codes <- OverrunCodes
  max_wait_t = 5000
  m_min_t = 50000
  Word = 1048576
  MaxRequests = 45
  ClockStep = 40000
  MaxTime = 160000
INVARIANT TimeToServe
CHECK_DEADLOCK FALSE
