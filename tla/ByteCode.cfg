SPECIFICATION Spec
CONSTANTS
  Codes <- MCCodes
  max_wait_t = 5000
  m_min_t = 50000
  Word = 1048576
  MaxRequests = 19
  ClockStep = 40000
  MaxTime = 160000
INVARIANTS
  TypeOK
  TicksAdd
  LeadKept
  NoSliver
CHECK_DEADLOCK FALSE
