SPECIFICATION MCSpec
CONSTANTS
  Image = {i1, i2, i3}
  NULL = NULL
  SettleFrames = 1
  MaxKills = 1
  Period = 2
  MaxCrashes = 1
INVARIANTS CleanMeansSaved CleanExitSaved
PROPERTIES GuestProgressKept  ChangeReachesFile
