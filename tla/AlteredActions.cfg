\* What untrusted code makes of a sealed action, against the words of its comment.
SPECIFICATION Spec
CONSTANTS
    ka = ka
    kb = kb
    kc = kc
    RootKey = kroot
    Keys = {ka, kb, kc, kroot}
    Root = Root
    h1 = h1
    h2 = h2
    h3 = h3
    h4 = h4
    res = res
    other = other
    NoSig = NoSig
    Proofs <- MCProofPool
    Requests <- MCRequests
    Alter <- MCAlter
    Times = {1, 2}
    MAX_CHAIN_DEPTH = 2
INVARIANTS AlteredIsRejected
CHECK_DEADLOCK FALSE
