SPECIFICATION HostSpec
CONSTANTS
  t1 = t1  t2 = t2
  s1 = s1  s2 = s2
  Threads = {t1, t2}
  Sessions = {s1, s2}
  MaxSessions = 1
  p = p  q = q  a = a  b = b
  Paths = {p, q}
  Blobs = {a, b}
  Empty = Empty
  Contents <- MCContents
  Output <- MCOutput
  Preempted = FALSE
  Mapped = FALSE
  Failing = {"OPEN_W", "WRITE", "OPEN_R", "RUN"}
  MaxCalls = 2
  MaxTimeouts = 1
  MaxSwitches = 1
  MaxFaults = 1
  MaxRestarts = 1
  TextLength = 2
  Looks = 2
  FileLengths = {1, 3}
  ChunkSize = 2
  FifoSize = 4
  MaxHookCalls = 2
  MaxHookFailures = 1
  Script <- MCScript
  Repeats = 2
  MaxNoise = 2
  MaxGiveUps = 1
  ListTries = 2
  LibPaths = {2, 3}
  FolderOf <- MCFolderOf
  NameOf <- MCNameOf
  LibRoots <- MCLibRoots
  MediaSizes = {2}
  Tiny = 1
  Tolerance = 1
  MaxChanges = 2
  MaxLibCalls = 2
  NoFile = NoFile
  SerialSizes = {1, 2}
  BatchSize = 1
  Radix = 2
  MaxSerialCalls = 2
  MaxSerialFaults = 1
  Vocabulary = {a, b}
  Interactions <- MCInteractions
  NoExpect = Empty
  MaxWords = 4
SYMMETRY Symmetry
INVARIANTS
  NoOrphan NoHandleNoProcess RemovesTheDead SessionBound
  HostTypeOK PushFromIdle HookSound HarnessSound LibrarySound
  SerialSound OneShotSound
PROPERTIES
  KeepsSteady
CHECK_DEADLOCK FALSE
