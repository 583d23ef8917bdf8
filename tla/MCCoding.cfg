SPECIFICATION Spec
CONSTANTS
  a = a
  b = b
  env = env
  blank = blank
  old = old
  new = new
  Paths <- MCPaths
  Unsafe <- MCUnsafe
  Texts <- MCTexts
  Blank <- blank
  NoFile = NoFile
  Original <- MCOriginal
  Heads <- MCHeads
  lint = lint
  test = test
  Checks <- MCChecks
  MaxIterations = 2
CHECK_DEADLOCK FALSE
INVARIANT TypeOK
INVARIANT GeneratedFilesAreTested
INVARIANT FixedFilesAreTested
INVARIANT GeneratedVerifiedRan
PROPERTY BranchStaysInBounds
PROPERTY LoopEnds
