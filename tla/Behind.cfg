SPECIFICATION Spec
CONSTANTS
  Codes <- BehindCodes
  max_wait_t = 5000
  m_min_t = 50000
  Word = 1048576
  MaxRequests = 5
  ClockStep = 40000
  MaxTime = 160000
PROPERTY JustToLead
CHECK_DEADLOCK FALSE
