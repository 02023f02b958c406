SPECIFICATION Spec
CONSTANTS
  PathPieces <- MCPathPieces
  QueryPieces <- MCQueryPieces
  Starts <- MCStarts
  MaxPieces = 4
  Root <- MCRoot
  Dirs <- MCDirs
  Files <- MCFiles
  Routes <- MCRoutes
  ForwardedParams <- MCForwarded
CHECK_DEADLOCK FALSE
INVARIANTS ServedExactly DecodedOnce QueryForwarded
