SPECIFICATION Spec
CONSTANTS
  EveryPoints = 3
  TargetBytes = 4
  SnapshotEvery = 2
  SnapshotBytes = {0, 1, 3}
  MaxPoint = 6
  MaxRuns = 2
INVARIANTS SlicesTile CallsInTheirSlice SlicesFollowPolicy ManifestComplete
PROPERTIES SealedFrozen
CHECK_DEADLOCK FALSE
