CONSTANTS
    Atom <- MCAtom
    Params <- MCParams
    MaxParams = 3
    Key <- MCKey
    Garbage <- MCGarbage
    Source <- MCSource

SPECIFICATION ReadersSpec

INVARIANT
    BytesReadAsItems

PROPERTIES
    ParsesAsSpecified
    OrderIsIrrelevant
