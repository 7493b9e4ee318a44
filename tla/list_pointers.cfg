SPECIFICATION Spec
CONSTANTS
    n1 = n1
    n2 = n2
    n3 = n3
    n4 = n4
    n5 = n5
    Node = {n1, n2, n3, n4, n5}
    Nil = Nil
    Order <- MCOrder
INVARIANTS TypeOK AssertsHold WellLinked
PROPERTY ImplementsTwoLists
