---------------------------- MODULE MCKeyRotation -----------------------------
(***************************************************************************)
(* Key rotation for TLC: a chain of two rotations, the second an emergency *)
(* one, and forged certificates.                                           *)
(***************************************************************************)
EXTENDS KeyRotation

CONSTANTS k1, k2, k3, k4

Order(by, from, to, at, window) ==
    [by |-> by, old_pubkey |-> from, new_pubkey |-> to, new_epoch |-> 1,
     effective_at |-> at, overlap_window_seconds |-> window]

\* One certificate per key, forgeries by keys that do not retire themselves.
ChainOrders ==
    {Order(k1, k1, k2, 1, 1), Order(k2, k2, k3, 2, 0), Order(k3, k3, k3, 2, 0),
     Order(k4, k1, k4, 0, 0), Order(k4, k4, k3, 1, 1)}

ASSUME ProcedureFollowed == \E age \in [Keys -> 1 .. 3] : Procedure(age)
===============================================================================
