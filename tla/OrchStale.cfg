SPECIFICATION Spec
CONSTANTS
  Entries = {faces, toolchest}
  Mode = "instance"
  SkipSets <- NoSkips
  MaxKills = 1
  MaxRuns = 3
  MaxFresh = 2
CHECK_DEADLOCK FALSE
PROPERTY PromotesComplete
