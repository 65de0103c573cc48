CONSTANTS
    noTag = noTag
    panic = panic
    Inputs <- MCInputs
    Tags <- MCTags
    AddressNormal <- MCAddressNormal
    NoTag <- noTag
    Panic <- panic
SPECIFICATION Spec
INVARIANT ObjectIdOfCanonical
