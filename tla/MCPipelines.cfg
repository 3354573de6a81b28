\* Tasks that fail and are retried, and a process that is started again.
SPECIFICATION ProcessSpec
CONSTANTS
  Defaults <- MCDefaults
  Resolutions <- MCResolutions
  Arguments <- MCArguments
  AllCoins = {c1, c2, c3}
  Broken = {c3}
  Short = 1
  Long = 2
  MaxFailures = 5
  MaxSource = 1
INVARIANTS
  GivesUpAfterRetries
  AsksForMissing
PROPERTY
  KeepsServing
