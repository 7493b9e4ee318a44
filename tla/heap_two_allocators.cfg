SPECIFICATION Spec
CONSTANTS
    c0 = c0
    c1 = c1
    h1 = h1
    h2 = h2
    h3 = h3
    h4 = h4
    Core = {c0, c1}
    Null = Null
    NPool = 4
    PoolNumber <- MCPoolNumber
    BlockSize <- MCBlockSize
SYMMETRY Handles
CONSTANTS
    Handle = {h1, h2, h3, h4}
    Size = {2, 3}
INVARIANT NeverWrongFlag
