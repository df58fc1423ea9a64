SPECIFICATION Spec
CONSTANTS
    n1 = n1 n2 = n2 n3 = n3 k1 = k1 k2 = k2 k3 = k3 Nobody = Nobody
    Owner <- MCOwner Buffer = 2
    Key = {k1, k2, k3} NodeID = {n1, n2} Mismatched = {}
    MayCrash = {n2} MayBreak = FALSE
CHECK_DEADLOCK FALSE
INVARIANT EveryLineParses
