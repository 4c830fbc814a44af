CONSTANTS
  Timeout = 2
  Margin = 4
  MaxWait = 3
  Backoff = 1
  Lives <- MCLives
  Asked <- MCAsked
  NoHeader = NoHeader
  Overflow = Overflow
  MaxTime = 20
SPECIFICATION Spec
INVARIANTS ValidOnArrival DoIsBounded HonoursRetryAfter
CHECK_DEADLOCK FALSE
