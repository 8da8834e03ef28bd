SPECIFICATION Spec
CONSTANTS
    x = x
    y = y
    s1 = s1
    s2 = s2
    Genesis = Genesis
    Contents <- MCContents
    Escaped <- MCEscaped
    Stamps <- MCStamps
    Base = 2
    Digits = 2
    StoredDigits = 1
    Signers <- MCSigners
    PageLimit = 1
    MaxRows = 2
    MaxDamage = 2
CONSTRAINT Relevant
SYMMETRY Symmetric
INVARIANTS
    TypeOK
    VerifiedIsWritten
    ReadableStampsVerify
    ToolAgrees
    AnchorsCover
    ExportCoversAnchors
CHECK_DEADLOCK FALSE
