\* Three nodes, each the peer of every other.
SPECIFICATION Spec
CONSTANTS
    a = a
    b = b
    c = c
    Nodes = {a, b, c}
    Capabilities = {cap}
    Owner <- OwnerA
    Peers <- AllPeers
    threshold = 2
    Signers = {c}
    Mutable = {a}
    MaxEvents = 3
INVARIANTS RevokedStaysRevoked AcceptedWereSigned ClocksAreCausal
PROPERTIES RevocationSpreads
CHECK_DEADLOCK FALSE
