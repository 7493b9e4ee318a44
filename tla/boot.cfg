SPECIFICATION Spec
CONSTANTS
    Core <- MCCore
    NPool = 2
    PoolNumber <- MCPoolNumber
    BlockSize <- MCBlockSize
    Size = {2}
    NDevice = 1
    NInfo = 5
    Length = 2
    Builds <- MCBuilds
    v1 = v1
    v2 = v2
    Zero = Zero
    Junk = Junk
    Nil = Nil
    MaxResets = 1
INVARIANTS TypeOK PeersPaired BlocksApart TeardownComplete
PROPERTY BootCompletes
CHECK_DEADLOCK FALSE
