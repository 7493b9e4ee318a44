SPECIFICATION Spec
CONSTANTS
    Word = 134217728
    NPool = 15
    BlockBytes <- MCBlockBytes
    AreaBytes = 836
    InfoBytes = 96
    Regions <- MCRegions
    Tables <- MCTables
INVARIANTS LayoutSound RefusalsJust
CHECK_DEADLOCK FALSE
