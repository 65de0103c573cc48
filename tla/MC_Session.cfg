CONSTANTS
    u1 = u1
    g1 = g1
    g2 = g2
    noKey = noKey
    noSession = noSession
    noRestore = noRestore
    UserKeys <- MCUserKeys
    GenKeys <- MCGenKeys
    ScopeArgs <- MCScopeArgs
    Intervals <- MCIntervals
    MaxTime = 1
    MaxCreates = 2
    NoKey <- noKey
    NoSession <- noSession
    NoRestore <- noRestore
SPECIFICATION Spec
SYMMETRY MCSymmetry
INVARIANT SessionsRevocable
PROPERTY ImplementsSessionRegistry
