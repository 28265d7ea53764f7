SPECIFICATION Spec
CONSTANTS
  Directories <- SomeDirectories
  Interops <- SomeInterops
  Matrices <- SomeMatrices
  Outputs <- SomeOutputs
  Portfolios <- SomePortfolios
INVARIANT DirectoriesResolve
INVARIANT InteropIsTested
INVARIANT MatrixIsBacked
INVARIANT LinesAreWhole
INVARIANT PortfolioIsJust
CHECK_DEADLOCK FALSE
