SPECIFICATION Spec
CONSTANTS
  Users = {0, 10}
  Owner = 0
  s1 = s1  s2 = s2
  Samples = {s1, s2}
  Shipped = {s3}
  s3 = s3
  Scenarios <- MCScenarios
  Flags <- MCFlags
  Missing = Missing
  MaxCalls = 3
  MaxFaults = 1
  MaxBoot = 1
SYMMETRY Symmetry
CHECK_DEADLOCK FALSE
INVARIANTS Matched NeverModifiesMapped FailedLeavesNothing BadProfileForgotten
  PrivacyKept ProfileAnswersTrue
PROPERTY NoSampleLost
