\* Two verifiers, a chain of two rotations, forged certificates.
SPECIFICATION Spec
CONSTANTS
    Verifiers = {v1, v2}
    k1 = k1
    k2 = k2
    k3 = k3
    k4 = k4
    Keys = {k1, k2, k3, k4}
    InitialKey = k1
    Orders <- ChainOrders
    NoCert = NoCert
    MaxTime = 3
INVARIANTS OnlyVouchedAccepted
PROPERTIES AfterWindowOnlyNew Convergence
CHECK_DEADLOCK FALSE
