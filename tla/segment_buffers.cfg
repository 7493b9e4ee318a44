SPECIFICATION Spec
CONSTANTS
    c0 = c0
    c1 = c1
    t0 = t0
    t1 = t1
    u0 = u0
    h1 = h1
    h2 = h2
    n1 = n1
    n2 = n2
    Core = {c0, c1}
    Handle = {h1, h2}
    Null = Null
    Name = {n1, n2}
    NoName = NoName
    NPool = 3
    BlockSize <- MCBlockSize
    Allocator = {c0}
    Word = 3
    Thread = {t0, t1}
    CoreOf <- MCOneEach
    Call <- MCOneWay
    PoolNumber <- MCPoolNumber
    Size = {1, 2}
    Offset = {0, 1}
    UpdateMode = {FALSE}
SYMMETRY Symmetry
INVARIANTS CopiesSafe
PROPERTY ImplementsBuffers
CHECK_DEADLOCK FALSE
