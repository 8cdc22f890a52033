SPECIFICATION Spec
CONSTANTS
  Volumes = {1, 2}
  Internal = 1
  Users <- MCUsers
  Having = {{0, 10}}
  Snapshots = {7}
  f = f  g = g
  Files = {f, g}
  Repertoires <- MCRepertoires
  MaxCalls = 3
  MaxFaults = 1
  MaxDeaths = 1
  MaxVersion = 2
  Missing = Missing
CHECK_DEADLOCK FALSE
SYMMETRY Symmetry
INVARIANT SnapshotIsExact
PROPERTIES RestoreIsExact NeverMismatched MigrationKeepsDefault MoveSound
