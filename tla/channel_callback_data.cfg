SPECIFICATION Spec
CONSTANTS
    h1 = h1
    h2 = h2
    h3 = h3
    h4 = h4
    Core = {0, 1}
    Number = {1}
    Handle = {h1, h2}
    Given <- AnyInfo
    Nil = Nil
    Reserved = {501, 510}
    Call <- Sends
INVARIANT CallbackHasData
CHECK_DEADLOCK FALSE
