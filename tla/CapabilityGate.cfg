\* Sealed actions over every bundle of up to three proofs of the pool.
SPECIFICATION Spec
CONSTANTS
    ka = ka
    kb = kb
    kc = kc
    RootKey = kroot
    Keys = {ka, kb, kc, kroot}
    Root = Root
    h1 = h1
    h2 = h2
    h3 = h3
    h4 = h4
    res = res
    other = other
    NoSig = NoSig
    Proofs <- MCProofPool
    Requests <- MCRequests
    Alter <- MCAlter
    Times = {1, 2}
    MAX_CHAIN_DEPTH = 2
INVARIANTS RootGrantCovers ChainHeldByItsSigners EveryGrantHolds
           RevocationBinds PermitAsSealed
PROPERTIES ImplementsPolicy EveryCallReturns
CHECK_DEADLOCK FALSE
