SPECIFICATION GwFairSpec
CONSTANTS
  p = p  q = q  a = a  b = b
  Paths = {p, q}
  Blobs = {a, b}
  Empty = Empty
  Contents <- MCContents
  Output <- MCOutput
  Preempted = FALSE
  Mapped = FALSE
  Failing = {"OPEN_W", "WRITE", "OPEN_R", "RUN"}
  MaxCalls = 3
  MaxTimeouts = 0
  MaxSwitches = 1
  MaxFaults = 1
  MaxRestarts = 0
CHECK_DEADLOCK FALSE
INVARIANTS Exact Handshake
PROPERTIES KeepsPromise CallReturns
