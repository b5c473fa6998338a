SPECIFICATION Spec
CONSTANTS
  Regimes = {"h1", "h2"}
  Strays <- MCStrays
  Paths <- MCPaths
  Directories <- MCDirectories
  Floors = {5, 10}
INVARIANT
  ErroredRunsFlagged
CHECK_DEADLOCK FALSE
