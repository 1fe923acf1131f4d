CONSTANTS
  san = san
  lib = lib
  f = f
  g = g
  main = main
  BlockedFrames <- MCBlocked
  SiteFrames <- MCSites
  OtherFrames <- MCOther
  Func <- MCFunc
  target_path = target_path
  Blocks = {b1, b2, b3, b4}
  MaxDepth = 3
  Seeds = 2
  MaxEntries = 3
  always_reports = TRUE
  NULL = NULL
SPECIFICATION Spec
INVARIANTS InnermostBelowBlocked DetailOwn QueueAtMatrixSite MatrixSiteKept BlocksOwned
SYMMETRY BlockSymmetry
CHECK_DEADLOCK FALSE
