SPECIFICATION Spec
CONSTANTS
  t1 = t1
  t2 = t2
  a = a
  b = b
  in = in
  hup = hup
  Threads = {t1}
  NFds = 0
  Objects = {a}
  Headless = {}
  Obj <- MCObjNone
  Want <- MCWantNone
  Events = {in}
  Always = {}
  OneEvents = {}
  Wakers = {w1}
  MaxGen = 1
  RotorMask = 3
  Requests = {3, 5}
  NoTimeout = NoTimeout
  RtWrap = 4
  MaxAge = 6
INVARIANT NoEarlyTimeout
CHECK_DEADLOCK FALSE
