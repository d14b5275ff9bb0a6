CONSTANTS
    x = x
    y = y
    n1 = n1
    n2 = n2
    Host <- MCHost
    Nak <- MCNak
    Atom <- MCAtom
    Answer <- MCAnswer
    SvcbEnabled = TRUE
    EchEnabled = TRUE

SPECIFICATION Spec

INVARIANT EchConfigIsTheHostsOwn
