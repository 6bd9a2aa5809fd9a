SPECIFICATION GwSpec
CONSTANTS
  p = p  q = q  a = a  b = b
  Paths = {p, q}
  Blobs = {a, b}
  Empty = Empty
  Contents <- MCContents
  Output <- MCOutput
  Preempted = FALSE
  Mapped = FALSE
  Failing = {}
  MaxCalls = 2
  MaxTimeouts = 1
  MaxSwitches = 0
  MaxFaults = 0
  MaxRestarts = 0
CHECK_DEADLOCK FALSE
INVARIANT PushExact
