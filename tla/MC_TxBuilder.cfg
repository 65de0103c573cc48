CONSTANTS
    k1 = k1
    k2 = k2
    a1 = a1
    a2 = a2
    Keys <- MCKeys
    KeyScheme <- MCKeyScheme
    Actions <- MCActions
    TargetParts <- MCTargetParts
    Chains <- MCChains
    MaxSeq = 1
    InfoInputs <- MCInfoInputs
    NoData = NoData
    NoAuth = NoAuth
    NoSender = NoSender
    NoTx = NoTx
SPECIFICATION Spec
INVARIANT TypeOK
INVARIANT SignedTxVerifies
