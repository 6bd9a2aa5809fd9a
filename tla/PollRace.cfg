SPECIFICATION Spec
CONSTANTS
  t1 = t1
  t2 = t2
  a = a
  b = b
  in = in
  hup = hup
  Threads = {t1, t2}
  NFds = 2
  Objects = {a, b}
  Headless = {}
  Obj <- MCObjTwo
  Want <- MCWantTwo
  Events = {in, hup}
  Always = {hup}
  OneEvents = {}
  Wakers = {w1}
  MaxGen = 1
  RotorMask = 3
  Requests = {}
  NoTimeout = NoTimeout
  RtWrap = 8
  MaxAge = 0
INVARIANTS TypeOK NoLostWakeup Detached
PROPERTY SleepsUnhinted
CHECK_DEADLOCK FALSE
