SPECIFICATION Spec
CONSTANTS
  Services <- AllServices
  Modes <- AllModes
  Words <- TwoWords
INVARIANTS
  RightCall
  Verdict
