CONSTANTS
    Atom <- MCAtom
    Params <- MCParams
    MaxParams = 1
    Key <- MCKey
    Garbage <- MCGarbage
    Source <- MCSource

SPECIFICATION ReadersSpec

INVARIANT
    DocumentedFormatIsRead
