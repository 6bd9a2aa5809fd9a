SPECIFICATION PartSpec
CONSTANTS
  Paths = {0, 1, 2, 3}
  Parent <- MCParent
  Sizes = {1, 4, 9}
  BlockSize = 2
  EntriesPerBlock = 2
  BitsPerBlock = 16
  InodesPerBlock = 2
  InodesPerCg = 4
  InodeSlack = 2
  MinCgData = 3
  CgSlack = 2
  MaxExtents = 2
  MaxExtentLength = 2
  Megabyte = 14
  PartSizes = {10, 14, 40}
  MaxInjects = 2
  Instances = {i1, i2}
  Snapshots = {s1}
  Handlers = {h1}
  NoInstance = NoInstance
  NoSnapshot = NoSnapshot
  MaxDisks = 3
  MaxCalls = 4
  Packages = {1, 2, 3, 4, 5, 6, 7}
  Needs <- MCNeeds
  Clash <- MCClash
  Discs <- MCDiscs
  OnDisc <- MCOnDisc
  Combined = "all"
  EarlyDiscs = {"f"}
  Wanted = {1, 2, 5, 6}
  Essential = {6}
  Critical = {3, 5}
  Required = {7}
  Core = {3, 6}
  Base = {5, 6, 7}
  Decisions = {{1}, {3}, {1, 4}, {2, 6, 7}}
  RoundsMax = 10
  AlsoRounds = 2
  Batch = 1
  ApplyBatch = 6
  GoTries = 2
  LiveTries = 2
  QuitTries = 2
  MaxIdle = 1
  ConfigLines = 2
  Callers = {c1}
  MaxShellCalls = 3
  MaxShellFailures = 1
  MaxDglCommands = 4
  FrameMax = 3
  Sleepers = {t1}
  Durations = {1, 3, 4, 5}
  Cap = 4
  RtWord = 5
  TickTime = 2
  MaxReal = 11
  Entries = {faces, toolchest}
  Mode = "instance"
  SkipSets <- SomeSkips
  MaxKills = 1
  MaxRuns = 3
  MaxFresh = 1
INVARIANTS
  PartTypeOK VolumeSound InstancesSound SelectionSound
  BootSafe ShellAnswers StreamSound NeverShort InstallSound
PROPERTIES
  PartsEnd SelectionKept PromotesComplete
CHECK_DEADLOCK FALSE
