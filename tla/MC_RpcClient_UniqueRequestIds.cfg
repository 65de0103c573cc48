CONSTANTS
    c1 = c1
    c2 = c2
    noChain = noChain
    noRet = noRet
    Callers <- MCCallers
    MaxCalls = 2
    NodeChainId = 4
    ChainAnswers <- MCChainAnswers
    NoChain <- noChain
    NoRet <- noRet
SYMMETRY MCSymmetry
SPECIFICATION Spec
INVARIANT UniqueRequestIds
\* Each goroutine makes MaxCalls calls and then stops.
CHECK_DEADLOCK FALSE
