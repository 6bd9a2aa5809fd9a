SPECIFICATION FairSpec
CONSTANTS
  t1 = t1
  t2 = t2
  a = a
  b = b
  in = in
  hup = hup
  Threads = {t1}
  NFds = 2
  Objects = {a, b}
  Headless = {b}
  Obj <- MCObjOne
  Want <- MCWantOne
  Events = {in}
  Always = {}
  OneEvents = {}
  Wakers = {w1}
  MaxGen = 1
  RotorMask = 3
  Requests = {0, 2, 3}
  NoTimeout = NoTimeout
  RtWrap = 8
  MaxAge = 4
INVARIANTS ReportExact NoEarlyTimeout
PROPERTIES ReadyReturns TimedReturns
CHECK_DEADLOCK FALSE
