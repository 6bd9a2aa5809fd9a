SPECIFICATION Spec
CONSTANTS
  Entries = {faces, toolchest}
  Mode = "disk"
  SkipSets <- NoSkips
  MaxKills = 0
  MaxRuns = 1
  MaxFresh = 1
CHECK_DEADLOCK FALSE
INVARIANT InstalledIsVerified
