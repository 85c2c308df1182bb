SPECIFICATION Spec
CONSTANTS
    Requests = {r1, r2, r3}
    Orders = {o1, o2}
    Numbers = {n1, n2}
    Keys = {k1}
    NoKey = NoKey
    NoOrder = NoOrder
SYMMETRY Symmetry
INVARIANTS TypeOK IdempotentCreate StatusExplained SerialProofValid
CHECK_DEADLOCK FALSE
