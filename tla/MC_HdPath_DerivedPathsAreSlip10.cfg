CONSTANTS
    Width <- MCWidth
    Paths <- MCPaths
    Seeds <- MCSeeds
SPECIFICATION Spec
INVARIANT DerivedPathsAreSlip10
\* Each run is one call of a parser, which returns.
CHECK_DEADLOCK FALSE
