-------------------------- MODULE KeyRotationProofs ---------------------------
(***************************************************************************)
(* For every set of verifiers, keys and calls of issue_rotation: the state *)
(* is well typed and only keys vouched for by the initial key are accepted.*)
(* Where the rotation procedure is followed, a retired key stays retired.  *)
(***************************************************************************)
EXTENDS KeyRotation, TLAPS

\* What is pending was signed by the key that is current, and retires it.
PendingSigned ==
    \A v \in Verifiers :
        pending[v] # NoCert =>
            /\ pending[v].old_pubkey = current[v]
            /\ verify_rotation(pending[v], current[v])

\* The inductive invariant: a verifier is as good as its pending certificate.
IInv == TypeOK /\ PendingSigned /\ OnlyVouchedAccepted

\* A key stays vouched for when further certificates are issued.
LEMMA VouchedGrows ==
    ASSUME issued \subseteq issued'
    PROVE  Vouched \subseteq Vouched'
<1>1. ASSUME NEW S \in SUBSET Keys, ClosedUnderRotation(S)'
      PROVE  ClosedUnderRotation(S)
  BY <1>1 DEF ClosedUnderRotation, verify_rotation, signing_message
<1> QED BY <1>1 DEF Vouched

\* The new key of a certificate that a vouched key signed is vouched for.
LEMMA VouchedStep ==
    ASSUME TypeOK, NEW c \in issued, c.old_pubkey \in Vouched,
           verify_rotation(c, c.old_pubkey)
    PROVE  c.new_pubkey \in Vouched
<1>1. c.new_pubkey \in Keys
  BY DEF TypeOK, Certificates
<1>2. ASSUME NEW S \in SUBSET Keys, InitialKey \in S, ClosedUnderRotation(S)
      PROVE  c.new_pubkey \in S
  <2>1. c.old_pubkey \in S
    BY <1>2 DEF Vouched
  <2> QED BY <1>2, <2>1 DEF ClosedUnderRotation
<1> QED BY <1>1, <1>2 DEF Vouched

LEMMA InitialVouched == InitialKey \in Vouched
BY InitialKeyAssumption DEF Vouched

LEMMA LapseType ==
    ASSUME TypeOK, NEW p \in [Verifiers -> issued \cup {NoCert}], NEW t
    PROVE  Lapse(p, t) \in [Verifiers -> SUBSET issued]
BY DEF TypeOK, Lapse

LEMMA IInvInit == Init => IInv
<1> SUFFICES ASSUME Init PROVE IInv
  OBVIOUS
<1>1. TypeOK
  BY InitialKeyAssumption, MaxTimeAssumption DEF Init, TypeOK
<1>2. PendingSigned
  BY DEF Init, PendingSigned
<1>3. OnlyVouchedAccepted
  BY InitialVouched DEF Init, OnlyVouchedAccepted
<1> QED BY <1>1, <1>2, <1>3 DEF IInv

LEMMA IInvNext == IInv /\ [Next]_vars => IInv'
<1> SUFFICES ASSUME IInv, [Next]_vars PROVE IInv'
  OBVIOUS
<1> USE DEF IInv
<1>1. ASSUME NEW o \in Orders, issue_rotation(o) PROVE IInv'
  <2>1. issued \subseteq issued'
    BY <1>1 DEF issue_rotation
  <2>2. TypeOK'
    <3>1. issued' \subseteq Certificates
      BY <1>1, OrdersAssumption DEF issue_rotation, TypeOK, Certificates, signing_message
    <3> QED BY <1>1, <2>1, <3>1 DEF issue_rotation, TypeOK
  <2>3. PendingSigned'
    BY <1>1 DEF issue_rotation, PendingSigned, verify_rotation, signing_message
  <2>4. Vouched \subseteq Vouched'
    BY <2>1, VouchedGrows
  <2>5. OnlyVouchedAccepted'
    BY <1>1, <2>4 DEF issue_rotation, OnlyVouchedAccepted
  <2> QED BY <2>2, <2>3, <2>5
<1>2. ASSUME NEW v \in Verifiers, NEW c \in issued, apply_rotation(v, c) PROVE IInv'
  <2>0. pending' \in [Verifiers -> issued \cup {NoCert}]
    BY <1>2 DEF apply_rotation, TypeOK
  <2>1. TypeOK'
    <3>1. PICK p \in [Verifiers -> issued \cup {NoCert}] : p = pending'
      BY <2>0
    <3>2. lapsed' \in [Verifiers -> SUBSET issued]
      BY <1>2, <3>1, LapseType DEF apply_rotation
    <3> QED BY <1>2, <2>0, <3>2 DEF apply_rotation, TypeOK
  <2>2. PendingSigned'
    BY <1>2 DEF apply_rotation, PendingSigned, verify_rotation, signing_message, TypeOK
  <2>3. c.new_pubkey \in Vouched
    BY <1>2, VouchedStep DEF OnlyVouchedAccepted, apply_rotation
  <2>4. Vouched' = Vouched
    BY <1>2 DEF apply_rotation, Vouched, ClosedUnderRotation, verify_rotation, signing_message
  <2>5. OnlyVouchedAccepted'
    BY <1>2, <2>3, <2>4 DEF apply_rotation, OnlyVouchedAccepted, TypeOK
  <2> QED BY <2>1, <2>2, <2>5
<1>3. ASSUME NEW v \in Verifiers, accepted_keys(v) PROVE IInv'
  <2>1. Vouched' = Vouched
    BY <1>3 DEF accepted_keys, Vouched, ClosedUnderRotation, verify_rotation, signing_message
  <2>2. Vouched \subseteq Keys
    BY DEF Vouched
  <2>3. CASE pending[v] # NoCert /\ now >= cutover_at(pending[v])
    <3>1. /\ current' = [current EXCEPT ![v] = pending[v].new_pubkey]
          /\ pending' = [pending EXCEPT ![v] = NoCert]
          /\ accepted' = [accepted EXCEPT ![v] = {pending[v].new_pubkey}]
          /\ UNCHANGED <<now, issued, lapsed>>
      BY <1>3, <2>3 DEF accepted_keys
    <3>2. pending[v].new_pubkey \in Vouched
      BY <2>3 DEF OnlyVouchedAccepted
    <3>3. TypeOK'
      BY <2>2, <3>1, <3>2 DEF TypeOK
    <3>4. PendingSigned'
      BY <3>1 DEF PendingSigned, TypeOK, verify_rotation, signing_message
    <3>5. OnlyVouchedAccepted'
      BY <2>1, <3>1, <3>2 DEF OnlyVouchedAccepted, TypeOK
    <3> QED BY <3>3, <3>4, <3>5
  <2>4. CASE ~(pending[v] # NoCert /\ now >= cutover_at(pending[v]))
    <3> DEFINE keys == IF pending[v] # NoCert /\ now >= pending[v].effective_at
                       THEN {current[v], pending[v].new_pubkey} ELSE {current[v]}
    <3>1. /\ accepted' = [accepted EXCEPT ![v] = keys]
          /\ UNCHANGED <<now, issued, lapsed, current, pending>>
      BY <1>3, <2>4 DEF accepted_keys
    <3>2. keys \subseteq Vouched
      BY DEF OnlyVouchedAccepted
    <3> HIDE DEF keys
    <3>3. TypeOK'
      BY <2>2, <3>1, <3>2 DEF TypeOK
    <3>4. PendingSigned'
      BY <3>1 DEF PendingSigned, verify_rotation, signing_message
    <3>5. OnlyVouchedAccepted'
      BY <2>1, <3>1, <3>2 DEF OnlyVouchedAccepted, TypeOK
    <3> QED BY <3>3, <3>4, <3>5
  <2> QED BY <2>3, <2>4
<1>4. CASE Tick
  <2>0. now' \in 0 .. MaxTime
    BY <1>4, MaxTimeAssumption DEF Tick, TypeOK
  <2>1. lapsed' \in [Verifiers -> SUBSET issued]
    BY <1>4, LapseType DEF Tick, TypeOK
  <2>2. TypeOK'
    BY <1>4, <2>0, <2>1 DEF Tick, TypeOK
  <2>3. Vouched' = Vouched
    BY <1>4 DEF Tick, Vouched, ClosedUnderRotation, verify_rotation, signing_message
  <2>4. PendingSigned' /\ OnlyVouchedAccepted'
    BY <1>4, <2>3 DEF Tick, PendingSigned, OnlyVouchedAccepted, verify_rotation, signing_message
  <2> QED BY <2>2, <2>4
<1>5. CASE UNCHANGED vars
  <2>1. Vouched' = Vouched
    BY <1>5 DEF vars, Vouched, ClosedUnderRotation, verify_rotation, signing_message
  <2> QED BY <1>5, <2>1 DEF vars, TypeOK, PendingSigned, OnlyVouchedAccepted,
                            verify_rotation, signing_message
<1> QED BY <1>1, <1>2, <1>3, <1>4, <1>5 DEF Next

\* ActiveKeySet is well typed whatever certificates circulate.
THEOREM TypeCorrect == Spec => []TypeOK
<1>1. IInv => TypeOK
  BY DEF IInv
<1> QED BY <1>1, IInvInit, IInvNext, PTL DEF Spec

\* apply_rotation and accepted_keys: every key a verifier answers with is
\* vouched for by the initial key, for any number of verifiers, keys and
\* certificates, forged ones included, applied in any order.
THEOREM OnlyVouchedAlwaysAccepted == Spec => []OnlyVouchedAccepted
<1>1. IInv => OnlyVouchedAccepted
  BY DEF IInv
<1> QED BY <1>1, IInvInit, IInvNext, PTL DEF Spec

-------------------------------------------------------------------------------
(* Cutover *)

\* The certificate issue_rotation returns for o.
Issued(o) ==
    LET c == [old_pubkey |-> o.old_pubkey, new_pubkey |-> o.new_pubkey,
              new_epoch |-> o.new_epoch, effective_at |-> o.effective_at,
              overlap_window_seconds |-> o.overlap_window_seconds]
    IN  [old_pubkey |-> c.old_pubkey, new_pubkey |-> c.new_pubkey,
         new_epoch |-> c.new_epoch, effective_at |-> c.effective_at,
         overlap_window_seconds |-> c.overlap_window_seconds,
         signature |-> <<o.by, signing_message(c)>>]

AllIssued ==
    \A c \in issued : \E o \in Orders : o.old_pubkey # o.new_pubkey /\ c = Issued(o)

\* The key a certificate retires signed it.
Proper(c) == verify_rotation(c, c.old_pubkey)

\* A verifier whose certificate has lapsed is still waiting on it, or has gone
\* on to a key that is younger than the one it retires.
Overtaken(age) ==
    \A v \in Verifiers : \A c \in lapsed[v] :
        /\ Proper(c)
        /\ now >= cutover_at(c)
        /\ pending[v] = c \/ age[c.old_pubkey] < age[current[v]]

CutoverInv(age) == IInv /\ AllIssued /\ Overtaken(age)

\* Under the procedure a key has one proper certificate, for a younger key.
LEMMA ProperCertificates ==
    ASSUME NEW age \in [Keys -> Nat], Procedure(age), AllIssued,
           NEW c \in issued, Proper(c)
    PROVE  /\ c.old_pubkey \in Keys /\ c.new_pubkey \in Keys
           /\ age[c.old_pubkey] < age[c.new_pubkey]
           /\ \A d \in issued : Proper(d) /\ d.old_pubkey = c.old_pubkey => d = c
<1>1. ASSUME NEW d \in issued, Proper(d)
      PROVE  \E o \in Orders : /\ o.old_pubkey # o.new_pubkey /\ d = Issued(o)
                               /\ o.by = o.old_pubkey /\ d.old_pubkey = o.old_pubkey
                               /\ d.new_pubkey = o.new_pubkey
  <2>1. PICK o \in Orders : o.old_pubkey # o.new_pubkey /\ d = Issued(o)
    BY DEF AllIssued
  <2>2. /\ d.old_pubkey = o.old_pubkey /\ d.new_pubkey = o.new_pubkey
        /\ d.signature[1] = o.by
    BY <2>1 DEF Issued
  <2>3. d.signature[1] = d.old_pubkey
    BY <1>1 DEF Proper, verify_rotation
  <2> QED BY <2>1, <2>2, <2>3
<1>2. PICK o \in Orders : /\ o.old_pubkey # o.new_pubkey /\ c = Issued(o)
                          /\ o.by = o.old_pubkey /\ c.old_pubkey = o.old_pubkey
                          /\ c.new_pubkey = o.new_pubkey
  BY <1>1
<1>3. ASSUME NEW d \in issued, Proper(d), d.old_pubkey = c.old_pubkey PROVE d = c
  <2>1. PICK p \in Orders : /\ p.old_pubkey # p.new_pubkey /\ d = Issued(p)
                            /\ p.by = p.old_pubkey /\ d.old_pubkey = p.old_pubkey
    BY <1>1, <1>3
  <2> QED BY <1>2, <1>3, <2>1 DEF Procedure
<1> QED BY <1>2, <1>3, OrdersAssumption DEF Procedure

\* An answer of accepted_keys, given what is pending and current.
LEMMA AnswerIsYoung ==
    ASSUME NEW age \in [Keys -> Nat], Procedure(age), CutoverInv(age),
           NEW v \in Verifiers, accepted_keys(v), NEW c \in lapsed[v]
    PROVE  c.old_pubkey \notin accepted'[v]
<1>1. c \in issued /\ current[v] \in Keys /\ accepted \in [Verifiers -> SUBSET Keys]
      /\ pending[v] \in issued \cup {NoCert}
  BY DEF CutoverInv, IInv, TypeOK
<1>2. /\ Proper(c) /\ now >= cutover_at(c)
      /\ pending[v] = c \/ age[c.old_pubkey] < age[current[v]]
  BY DEF CutoverInv, Overtaken
<1>3. c.old_pubkey \in Keys /\ c.new_pubkey \in Keys /\ age[c.old_pubkey] < age[c.new_pubkey]
  BY <1>1, <1>2, ProperCertificates DEF CutoverInv
<1>4. CASE pending[v] = c /\ c # NoCert
  <2>1. accepted'[v] = {c.new_pubkey}
    BY <1>1, <1>2, <1>4 DEF accepted_keys
  <2> QED BY <1>3, <2>1
<1>5. CASE age[c.old_pubkey] < age[current[v]] /\ pending[v] # NoCert
  <2>1. pending[v] \in issued /\ Proper(pending[v]) /\ pending[v].old_pubkey = current[v]
    BY <1>1, <1>5 DEF CutoverInv, IInv, PendingSigned, Proper
  <2>2. age[current[v]] < age[pending[v].new_pubkey] /\ pending[v].new_pubkey \in Keys
    BY <2>1, ProperCertificates DEF CutoverInv
  <2>3. accepted'[v] \subseteq {current[v], pending[v].new_pubkey}
    BY <1>1 DEF accepted_keys
  <2>4. age[c.old_pubkey] < age[pending[v].new_pubkey]
    BY <1>1, <1>3, <1>5, <2>2
  <2>5. c.old_pubkey # current[v] /\ c.old_pubkey # pending[v].new_pubkey
    BY <1>1, <1>3, <1>5, <2>2, <2>4
  <2> QED BY <2>3, <2>5
<1>6. CASE age[c.old_pubkey] < age[current[v]] /\ pending[v] = NoCert
  <2>1. accepted'[v] = {current[v]}
    BY <1>1, <1>6 DEF accepted_keys
  <2> QED BY <1>1, <1>3, <1>6, <2>1
<1>7. c # NoCert
  BY <1>1, NoCertAssumption DEF CutoverInv, IInv, TypeOK
<1> QED BY <1>2, <1>4, <1>5, <1>6, <1>7

\* A certificate that lapses is pending, and so proper.
LEMMA LapseOvertaken ==
    ASSUME NEW age, NEW p, NEW t,
           now \in Nat, t \in Nat, now <= t, Overtaken(age), issued \subseteq Certificates,
           lapsed \in [Verifiers -> SUBSET issued],
           \A v \in Verifiers : p[v] # NoCert => p[v] \in issued /\ Proper(p[v])
    PROVE  \A v \in Verifiers : \A c \in Lapse(p, t)[v] :
              /\ Proper(c) /\ t >= cutover_at(c)
              /\ c \in lapsed[v] \/ p[v] = c
<1> SUFFICES ASSUME NEW v \in Verifiers, NEW c \in Lapse(p, t)[v]
             PROVE  /\ Proper(c) /\ t >= cutover_at(c)
                    /\ c \in lapsed[v] \/ p[v] = c
  OBVIOUS
<1>1. CASE c \in lapsed[v]
  <2>1. cutover_at(c) \in Nat
    BY <1>1 DEF Certificates, cutover_at
  <2> QED BY <1>1, <2>1 DEF Overtaken
<1>2. CASE c \notin lapsed[v]
  BY <1>2 DEF Lapse
<1> QED BY <1>1, <1>2

LEMMA CutoverInit == ASSUME NEW age PROVE Init => CutoverInv(age)
BY IInvInit DEF Init, CutoverInv, AllIssued, Overtaken

LEMMA CutoverNext ==
    ASSUME NEW age \in [Keys -> Nat], Procedure(age), CutoverInv(age), [Next]_vars
    PROVE  CutoverInv(age)'
<1>0. IInv /\ IInv'
  BY IInvNext DEF CutoverInv
<1> USE DEF IInv, TypeOK
<1>1. AllIssued'
  <2>1. ASSUME NEW o \in Orders, issue_rotation(o) PROVE AllIssued'
    BY <2>1 DEF issue_rotation, CutoverInv, AllIssued, Issued, signing_message
  <2>2. issued' = issued => AllIssued'
    BY DEF CutoverInv, AllIssued, Issued, signing_message
  <2> QED BY <2>1, <2>2 DEF Next, apply_rotation, accepted_keys, Tick, vars
<1>2. \A c : Proper(c)' <=> Proper(c)
  BY DEF Proper, verify_rotation, signing_message
<1>3. \A v \in Verifiers : pending[v] # NoCert => pending[v] \in issued /\ Proper(pending[v])
  BY <1>0 DEF PendingSigned, Proper
<1>4. ASSUME UNCHANGED <<now, current, pending, lapsed>> PROVE Overtaken(age)'
  BY <1>2, <1>4 DEF CutoverInv, Overtaken, cutover_at
<1>5. ASSUME NEW v \in Verifiers, NEW c \in issued, apply_rotation(v, c) PROVE Overtaken(age)'
  <2>1. /\ pending' = [pending EXCEPT ![v] = c] /\ c.old_pubkey = current[v] /\ Proper(c)
        /\ lapsed' = Lapse(pending', now) /\ UNCHANGED <<now, issued, current>>
    BY <1>5 DEF apply_rotation, Proper
  <2>2. PICK p : p = pending'
    OBVIOUS
  <2>3. \A u \in Verifiers : p[u] # NoCert => p[u] \in issued /\ Proper(p[u])
    BY <1>0, <1>3, <2>1, <2>2
  <2>4. \A u \in Verifiers : \A d \in Lapse(p, now)[u] :
           /\ Proper(d) /\ now >= cutover_at(d)
           /\ d \in lapsed[u] \/ p[u] = d
    BY <1>0, <2>3, LapseOvertaken, MaxTimeAssumption DEF CutoverInv
  <2>5. ASSUME NEW u \in Verifiers, NEW d \in lapsed[u], p[u] # d
        PROVE  age[d.old_pubkey] < age[current[u]]
    <3>1. pending[u] = d \/ age[d.old_pubkey] < age[current[u]]
      BY DEF CutoverInv, Overtaken
    <3>2. CASE pending[u] = d
      <4>1. u = v
        BY <1>0, <2>1, <2>2, <2>5, <3>2
      <4>2. d \in issued /\ Proper(d) /\ d.old_pubkey = current[v]
        BY <1>0, <3>2, <4>1, NoCertAssumption DEF CutoverInv, PendingSigned, Overtaken
      <4>3. d = c
        BY <2>1, <4>2, ProperCertificates DEF CutoverInv
      <4> QED BY <1>0, <2>1, <2>2, <2>5, <4>1, <4>3
    <3> QED BY <3>1, <3>2
  <2> QED BY <1>2, <2>1, <2>2, <2>4, <2>5 DEF Overtaken, cutover_at
<1>6. ASSUME NEW v \in Verifiers, accepted_keys(v) PROVE Overtaken(age)'
  <2>1. CASE pending[v] # NoCert /\ now >= cutover_at(pending[v])
    <3>1. /\ current' = [current EXCEPT ![v] = pending[v].new_pubkey]
          /\ pending' = [pending EXCEPT ![v] = NoCert]
          /\ UNCHANGED <<now, issued, lapsed>>
      BY <1>6, <2>1 DEF accepted_keys
    <3>2. /\ pending[v].old_pubkey = current[v] /\ pending[v].new_pubkey \in Keys
          /\ age[current[v]] < age[pending[v].new_pubkey]
      <4>1. pending[v] \in issued /\ Proper(pending[v])
        BY <1>3, <2>1
      <4>2. pending[v].old_pubkey = current[v]
        BY <1>0, <2>1 DEF PendingSigned
      <4> QED BY <4>1, <4>2, ProperCertificates DEF CutoverInv
    <3>3. ASSUME NEW u \in Verifiers, NEW d \in lapsed[u]
          PROVE  pending'[u] = d \/ age[d.old_pubkey] < age[current'[u]]
      <4>1. pending[u] = d \/ age[d.old_pubkey] < age[current[u]]
        BY DEF CutoverInv, Overtaken
      <4>2. CASE u # v
        BY <1>0, <3>1, <4>1, <4>2
      <4>3. CASE u = v
        <5>1. d \in issued /\ d.old_pubkey \in Keys
          BY <1>0 DEF Certificates
        <5>2. current'[v] = pending[v].new_pubkey
          BY <1>0, <3>1
        <5>3. age[d.old_pubkey] \in Nat /\ age[current[v]] \in Nat
              /\ age[pending[v].new_pubkey] \in Nat
          BY <1>0, <3>2, <5>1
        <5> QED BY <3>2, <4>1, <4>3, <5>2, <5>3
      <4> QED BY <4>2, <4>3
    <3> QED BY <1>2, <3>1, <3>3 DEF CutoverInv, Overtaken, cutover_at
  <2>2. CASE ~(pending[v] # NoCert /\ now >= cutover_at(pending[v]))
    BY <1>4, <1>6, <2>2 DEF accepted_keys
  <2> QED BY <2>1, <2>2
<1>7. ASSUME Tick PROVE Overtaken(age)'
  <2>1. now' \in Nat /\ now <= now' /\ lapsed' = Lapse(pending, now')
        /\ UNCHANGED <<issued, pending, current>>
    BY <1>0, <1>7, MaxTimeAssumption DEF Tick
  <2>2. PICK t : t = now'
    OBVIOUS
  <2>3. \A u \in Verifiers : \A d \in Lapse(pending, t)[u] :
           /\ Proper(d) /\ t >= cutover_at(d)
           /\ d \in lapsed[u] \/ pending[u] = d
    BY <1>0, <1>3, <2>1, <2>2, LapseOvertaken, MaxTimeAssumption DEF CutoverInv
  <2>4. ASSUME NEW u \in Verifiers, NEW d \in lapsed'[u]
        PROVE  /\ Proper(d) /\ now' >= cutover_at(d)
               /\ pending[u] = d \/ age[d.old_pubkey] < age[current[u]]
    BY <2>1, <2>2, <2>3 DEF CutoverInv, Overtaken
  <2> QED BY <1>2, <2>1, <2>4 DEF Overtaken, cutover_at
<1>8. Overtaken(age)'
  BY <1>4, <1>5, <1>6, <1>7 DEF Next, issue_rotation, vars
<1> QED BY <1>0, <1>1, <1>8 DEF CutoverInv

\* accepted_keys under the procedure: once a certificate that a verifier was
\* waiting on has run out its window, no answer contains the key it retires,
\* for any keys, verifiers, forged certificates and order of delivery.
THEOREM AfterWindowAlwaysOnlyNew ==
    ASSUME NEW age \in [Keys -> Nat], Procedure(age)
    PROVE  Spec => AfterWindowOnlyNew
<1>1. Init => CutoverInv(age)
  BY CutoverInit
<1>2. CutoverInv(age) /\ [Next]_vars => CutoverInv(age)'
  BY CutoverNext
<1>3. CutoverInv(age) /\ [Next]_vars =>
        [\A v \in Verifiers :
          accepted_keys(v) =>
              \A c \in lapsed[v] : c.old_pubkey \notin accepted'[v]]_vars
  BY AnswerIsYoung
<1> QED BY <1>1, <1>2, <1>3, PTL DEF Spec, AfterWindowOnlyNew

===============================================================================
