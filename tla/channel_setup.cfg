SPECIFICATION Spec
CONSTANTS
    h1 = h1
    h2 = h2
    h3 = h3
    h4 = h4
    Core = {0, 1}
    Number = {1, 2, 9}
    Handle = {h1, h2, h3}
    Given <- AnyInfo
    Nil = Nil
    Reserved = {501, 510}
    Call <- SendsDestroys
SYMMETRY Infos
INVARIANTS TypeOK NothingLeftBehind ListenersHold DoorbellCovers
CHECK_DEADLOCK FALSE
