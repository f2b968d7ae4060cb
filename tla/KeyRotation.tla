----------------------------- MODULE KeyRotation ------------------------------
(***************************************************************************)
(* Rotation of the root key (key_rotation.py): certificates signed by the  *)
(* key they retire, and one ActiveKeySet per verifier, which keeps the     *)
(* current key and at most one pending certificate and cuts over when it   *)
(* is next asked for its accepted keys.                                    *)
(*                                                                         *)
(* Certificates are distributed by means outside the module: they may      *)
(* reach a verifier in any order, late, twice or never.  A signature is    *)
(* the pair of the signing key and the signed message.                     *)
(***************************************************************************)
EXTENDS Naturals

CONSTANTS
    Verifiers,
    Keys,
    InitialKey,   \* initial_pubkey of every ActiveKeySet
    Orders,       \* calls of issue_rotation that may be made: [by, old_pubkey,
                  \*   new_pubkey, new_epoch, effective_at, overlap_window_seconds]
    NoCert,       \* None
    MaxTime       \* bound: the clock

ASSUME InitialKeyAssumption == InitialKey \in Keys
ASSUME OrdersAssumption ==
    \A o \in Orders : /\ o.by \in Keys /\ o.old_pubkey \in Keys /\ o.new_pubkey \in Keys
                      /\ o.new_epoch \in Nat /\ o.effective_at \in Nat
                      /\ o.overlap_window_seconds \in Nat
ASSUME MaxTimeAssumption == MaxTime \in Nat

VARIABLES
    now,       \* time.time()
    issued,    \* certificates in circulation
    current,   \* _current of each verifier
    pending,   \* _pending of each verifier
    accepted,  \* what accepted_keys last returned
    lapsed     \* history: certificates that were pending at their cutover

vars == <<now, issued, current, pending, accepted, lapsed>>

-------------------------------------------------------------------------------
(* Certificates *)

cutover_at(c) == c.effective_at + c.overlap_window_seconds

signing_message(c) ==
    <<c.old_pubkey, c.new_pubkey, c.new_epoch, c.effective_at, c.overlap_window_seconds>>

verify_rotation(c, key) == c.signature = <<key, signing_message(c)>>

\* A verifier's pending certificate joins lapsed when its window is over at t.
Lapse(p, t) ==
    [v \in Verifiers |->
        IF p[v] # NoCert /\ t >= cutover_at(p[v]) THEN lapsed[v] \cup {p[v]} ELSE lapsed[v]]

-------------------------------------------------------------------------------
(* Operations *)

\* The signer o.by is the callable the caller hands in; nothing ties it to
\* old_pubkey.
issue_rotation(o) ==
    /\ o.old_pubkey # o.new_pubkey
    /\ o.new_epoch >= 1
    /\ LET c == [old_pubkey |-> o.old_pubkey, new_pubkey |-> o.new_pubkey,
                 new_epoch |-> o.new_epoch, effective_at |-> o.effective_at,
                 overlap_window_seconds |-> o.overlap_window_seconds]
       IN  issued' = issued \cup
             {[old_pubkey |-> c.old_pubkey, new_pubkey |-> c.new_pubkey,
               new_epoch |-> c.new_epoch, effective_at |-> c.effective_at,
               overlap_window_seconds |-> c.overlap_window_seconds,
               signature |-> <<o.by, signing_message(c)>>]}
    /\ UNCHANGED <<now, current, pending, accepted, lapsed>>

\* Mutant: a certificate for another key than the current one is applied.
apply_rotation_any_key(v, c) ==
    /\ verify_rotation(c, c.old_pubkey)
    /\ pending' = [pending EXCEPT ![v] = c]
    /\ lapsed' = Lapse(pending', now)
    /\ UNCHANGED <<now, issued, current, accepted>>

\* Mutant: the signature is not looked at.
apply_rotation_unsigned(v, c) ==
    /\ c.old_pubkey = current[v]
    /\ pending' = [pending EXCEPT ![v] = c]
    /\ lapsed' = Lapse(pending', now)
    /\ UNCHANGED <<now, issued, current, accepted>>

\* A certificate that does not retire the current key, or is not signed by it,
\* raises and changes nothing.  One that is applied replaces what is pending.
apply_rotation(v, c) ==
    /\ c.old_pubkey = current[v]
    /\ verify_rotation(c, current[v])
    /\ pending' = [pending EXCEPT ![v] = c]
    /\ lapsed' = Lapse(pending', now)
    /\ UNCHANGED <<now, issued, current, accepted>>

\* Mutant: the old key stays current when the window is over.
accepted_keys_no_advance(v) ==
    /\ accepted' = [accepted EXCEPT ![v] =
          IF pending[v] # NoCert /\ now >= pending[v].effective_at
          THEN {current[v], pending[v].new_pubkey} ELSE {current[v]}]
    /\ UNCHANGED <<now, issued, current, pending, lapsed>>

\* A query that changes state: the first call after the window cuts over.
accepted_keys(v) ==
    LET c == pending[v]
    IN  /\ IF c # NoCert /\ now >= cutover_at(c)
           THEN /\ current' = [current EXCEPT ![v] = c.new_pubkey]
                /\ pending' = [pending EXCEPT ![v] = NoCert]
                /\ accepted' = [accepted EXCEPT ![v] = {c.new_pubkey}]
           ELSE /\ accepted' = [accepted EXCEPT ![v] =
                      IF c # NoCert /\ now >= c.effective_at
                      THEN {current[v], c.new_pubkey} ELSE {current[v]}]
                /\ UNCHANGED <<current, pending>>
        /\ UNCHANGED <<now, issued, lapsed>>

Tick ==
    /\ now < MaxTime
    /\ now' = now + 1
    /\ lapsed' = Lapse(pending, now')
    /\ UNCHANGED <<issued, current, pending, accepted>>

-------------------------------------------------------------------------------
Init ==
    /\ now = 0
    /\ issued = {}
    /\ current = [v \in Verifiers |-> InitialKey]
    /\ pending = [v \in Verifiers |-> NoCert]
    /\ accepted = [v \in Verifiers |-> {InitialKey}]
    /\ lapsed = [v \in Verifiers |-> {}]

Next ==
    \/ \E o \in Orders : issue_rotation(o)
    \/ \E v \in Verifiers, c \in issued : apply_rotation(v, c)
    \/ \E v \in Verifiers : accepted_keys(v)
    \/ Tick

\* Time passes, every verifier goes on checking signatures, and the operator
\* goes on distributing every certificate to every verifier until it applies
\* (steps 3 and 4 of the procedure).  Nobody has to issue anything.
Deliver(v, key) == \E c \in issued : c.old_pubkey = key /\ apply_rotation(v, c)

Fairness ==
    /\ WF_vars(Tick)
    /\ \A v \in Verifiers :
          WF_vars(accepted_keys(v)) /\ \A key \in Keys : SF_vars(Deliver(v, key))

Spec == Init /\ [][Next]_vars /\ Fairness

-------------------------------------------------------------------------------
(* Properties *)

Certificates ==
    [old_pubkey : Keys, new_pubkey : Keys, new_epoch : Nat, effective_at : Nat,
     overlap_window_seconds : Nat,
     signature : Keys \X (Keys \X Keys \X Nat \X Nat \X Nat)]

ASSUME NoCertAssumption == NoCert \notin Certificates

\* The type of the state.
TypeOK ==
    /\ now \in 0 .. MaxTime
    /\ issued \subseteq Certificates
    /\ current \in [Verifiers -> Keys]
    /\ pending \in [Verifiers -> issued \cup {NoCert}]
    /\ accepted \in [Verifiers -> SUBSET Keys]
    /\ lapsed \in [Verifiers -> SUBSET issued]

\* S contains the new key of every certificate that a key of S has signed to
\* retire itself.
ClosedUnderRotation(S) ==
    \A c \in issued :
        c.old_pubkey \in S /\ verify_rotation(c, c.old_pubkey) => c.new_pubkey \in S

\* The keys the initial key vouches for, directly or through keys it vouches
\* for: what every such set contains.
Vouched ==
    {k \in Keys : \A S \in SUBSET Keys :
        InitialKey \in S /\ ClosedUnderRotation(S) => k \in S}

\* No order of certificates, forged ones among them, makes a verifier accept,
\* now or at its next cutover, a key outside the chain from the initial key.
OnlyVouchedAccepted ==
    \A v \in Verifiers :
        /\ accepted[v] \subseteq Vouched
        /\ current[v] \in Vouched
        /\ pending[v] # NoCert => pending[v].new_pubkey \in Vouched

\* Steps 1 and 2 of the procedure: a key signs one certificate to retire itself,
\* in favour of a key that is younger than itself (age).
Procedure(age) ==
    \A o \in Orders : o.by = o.old_pubkey /\ o.old_pubkey # o.new_pubkey =>
        /\ age[o.old_pubkey] < age[o.new_pubkey]
        /\ \A p \in Orders : p.by = p.old_pubkey /\ p.old_pubkey = o.old_pubkey
                               /\ p.old_pubkey # p.new_pubkey => p = o

\* key_rotation.py:18 and :199: once the window of a certificate that a
\* verifier was waiting on is over, that verifier never again answers with the
\* key the certificate retires, if the procedure is followed: apply_rotation
\* does not look at what it replaces, so that a second certificate of the key,
\* applied between the end of the window and the next call of accepted_keys,
\* puts the key back.
AfterWindowOnlyNew ==
    [][\A v \in Verifiers :
          accepted_keys(v) =>
              \A c \in lapsed[v] : c.old_pubkey \notin accepted'[v]]_vars

\* No signed certificate leads away from key k.
Newest(k) == \A c \in issued : c.old_pubkey = k => ~verify_rotation(c, k)

\* Every verifier ends up with one key, the last of the chain, though a
\* certificate that arrives before the previous cutover is refused.
Convergence == <>[](\A v \in Verifiers : \E k \in Vouched : Newest(k) /\ accepted[v] = {k})

===============================================================================
