--------------------------- MODULE AuthorityProofs ---------------------------
(***************************************************************************)
(* Authority, proved for every set of authorities, leaves, transitions,    *)
(* callers and idempotency keys.                                           *)
(***************************************************************************)
EXTENDS Authority, TLAPS

\* The part of TypeOK about the shapes of rows.
Shapes ==
    /\ keyFlag \in {"derived", "recorded"}
    /\ authority \in [Authorities -> AuthorityRows]
    /\ secrets \subseteq Authorities
    /\ leaf \in [Leaves -> LeafRows]
    /\ expired \subseteq Authorities \cup Leaves
    /\ revoked \subseteq Authorities
    /\ crl \in [Authorities -> CRLRows]
    /\ transition \in [Transitions -> TransitionRows]
    /\ calls \in [Callers -> CallRows]

\* The part of TypeOK about the two levels of a hierarchy.
Levels ==
    \A a \in Authorities :
        /\ authority[a].kind = "root" => authority[a].parent = None
        /\ authority[a].kind = "intermediate" =>
            /\ authority[a].parent # None
            /\ authority[authority[a].parent].kind = "root"
            /\ authority[authority[a].parent].exists

\* What a row refers to is stored, and an authority that is not stored has left
\* nothing behind.
References ==
    /\ \A a \in Authorities :
        ~Exists(a) => authority[a] = NoAuthority /\ a \notin secrets
    /\ \A l \in Leaves : leaf[l].issuer # None => Exists(leaf[l].issuer)
    /\ \A t \in Transitions :
        transition[t].state # "none" =>
            transition[t].source # None /\ Exists(transition[t].source)

\* What a call in progress works on is stored, and what it signed was signed
\* with a key this installation held.
CallFacts ==
    \A c \in Callers :
        /\ calls[c].pc \in {"issue", "attach"} => calls[c].authority # None
        /\ calls[c].authority # None => Exists(calls[c].authority)
        /\ calls[c].pc \in {"create", "issue"} /\ calls[c].authority # None =>
            \/ calls[c].authority \in secrets
            \/ authority[calls[c].authority].destroyed

AuthorityInv ==
    /\ Shapes
    /\ Levels
    /\ References
    /\ CallFacts
    /\ DestroyedKeyStaysGone
    /\ NothingOutlivesItsKey
    /\ IssuedUnderControl
    /\ EmergencyContained
    /\ OneAuthorityPerRequest

\* The bound on the operations outside calls.
Bounded == changes \in 0..MaxChanges

-----------------------------------------------------------------------------
(* Rows.                                                                   *)

\* The rows that stand for "not there" are rows.
LEMMA EmptyRows ==
    /\ NoAuthority \in AuthorityRows
    /\ NoLeaf \in LeafRows
    /\ NewCRL \in CRLRows
    /\ NoTransition \in TransitionRows
    /\ IdleCall \in CallRows
BY DEF NoAuthority, AuthorityRows, NoLeaf, LeafRows, NewCRL, CRLRows,
       NoTransition, TransitionRows, TransitionStates, IdleCall, CallRows

\* A step keeps what identifies an authority.
Identities ==
    \A a \in Authorities :
        /\ authority'[a].exists = authority[a].exists
        /\ authority'[a].kind = authority[a].kind
        /\ authority'[a].parent = authority[a].parent
        /\ authority'[a].origin = authority[a].origin
        /\ authority'[a].request = authority[a].request

\* A step moves the issuance state of authorities at most.
OnlyStates ==
    /\ Identities
    /\ \A a \in Authorities :
        /\ authority'[a].key = authority[a].key
        /\ authority'[a].destroyed = authority[a].destroyed
        /\ authority'[a].archived = authority[a].archived
        /\ authority'[a].pendingTakeover = authority[a].pendingTakeover
        /\ ~Exists(a) => authority'[a] = authority[a]

\* No emergency is opened or widened.
NoNewEmergency ==
    \A t \in Transitions :
        (Open(t) /\ transition[t].mode = "emergency")' =>
            /\ Open(t)
            /\ transition[t].mode = "emergency"
            /\ transition'[t].source = transition[t].source
            /\ transition'[t].impacts = transition[t].impacts

\* The hierarchy follows from what identifies authorities.
LEMMA HierarchyKept ==
    ASSUME Identities, NEW a \in Authorities
    PROVE  /\ Descendants(a)' = Descendants(a)
           /\ Hierarchy(a)' = Hierarchy(a)
           /\ leaf' = leaf => Signed(a)' = Signed(a)
BY DEF Identities, Descendants, Hierarchy, Signed, Exists

\* SaveAuthority keeps the calls' records and what they work on.
LEMMA Saving ==
    ASSUME calls \in [Callers -> CallRows], NEW S, SaveAuthorities(S)
    PROVE  /\ calls' \in [Callers -> CallRows]
           /\ \A c \in Callers : /\ calls'[c].pc = calls[c].pc
                                 /\ calls'[c].authority = calls[c].authority
BY DEF SaveAuthorities, CallRows

\* A call that ends is idle and the others go on.
LEMMA Finishing ==
    ASSUME calls \in [Callers -> CallRows], NEW c \in Callers, Finish(c)
    PROVE  /\ calls' \in [Callers -> CallRows]
           /\ calls'[c] = IdleCall
           /\ \A d \in Callers : d # c => calls'[d] = calls[d]
BY EmptyRows DEF Finish

\* The uncovered publication states are publication states.
LEMMA UncoveredType ==
    ASSUME crl \in [Authorities -> CRLRows], NEW a \in Authorities
    PROVE  Uncovered(a) \in [Authorities -> CRLRows]
BY DEF Uncovered, CRLRows

-----------------------------------------------------------------------------
(* What follows from what a step leaves alone.                             *)

\* Levels and stored rows, for steps that create nothing.
LEMMA RowsFrame ==
    ASSUME Shapes, Levels, References, OneAuthorityPerRequest, Identities,
           authority' \in [Authorities -> AuthorityRows],
           \A a \in Authorities :
               ~Exists(a) => authority'[a] = authority[a] /\ a \notin secrets'
    PROVE  /\ Levels'
           /\ OneAuthorityPerRequest'
           /\ UNCHANGED <<leaf, transition>> => References'
BY DEF Shapes, Levels, References, OneAuthorityPerRequest, Identities, Exists,
       LeafRows, TransitionRows, AuthorityRows

\* Calls in progress, for steps that prepare no call and lose no key but by
\* destroying it.
LEMMA CallsFrame ==
    ASSUME Shapes, CallFacts, calls' \in [Callers -> CallRows],
           \A c \in Callers : \/ calls'[c] = IdleCall
                              \/ /\ calls'[c].pc = calls[c].pc
                                 /\ calls'[c].authority = calls[c].authority,
           \A a \in Authorities :
               /\ Exists(a) => authority'[a].exists
               /\ authority[a].destroyed => authority'[a].destroyed
               /\ a \in secrets => a \in secrets' \/ authority'[a].destroyed
    PROVE  CallFacts'
BY DEF Shapes, CallFacts, Exists, CallRows, IdleCall

\* The properties of keys and of what was signed with them, for steps that
\* change no key, issue nothing, and let at most time pass.
LEMMA KeysFrame ==
    ASSUME AuthorityInv, OnlyStates, UNCHANGED <<secrets, leaf>>,
           expired \subseteq expired'
    PROVE  /\ DestroyedKeyStaysGone'
           /\ NothingOutlivesItsKey'
           /\ IssuedUnderControl'
<1>1. \A a \in Authorities : Signed(a)' = Signed(a)
  BY HierarchyKept DEF OnlyStates
<1>2. DestroyedKeyStaysGone'
  BY DEF AuthorityInv, DestroyedKeyStaysGone, OnlyStates
<1>3. NothingOutlivesItsKey'
  BY <1>1 DEF AuthorityInv, NothingOutlivesItsKey, OnlyStates
<1>4. IssuedUnderControl'
  BY <1>1 DEF AuthorityInv, IssuedUnderControl, OnlyStates
<1> QED BY <1>2, <1>3, <1>4

\* Containment, for steps that issue nothing and open no emergency.
LEMMA EmergencyFrame ==
    ASSUME AuthorityInv, Identities, NoNewEmergency, leaf' = leaf,
           expired \subseteq expired', revoked \subseteq revoked'
    PROVE  EmergencyContained'
<1>1. \A a \in Authorities : Hierarchy(a)' = Hierarchy(a)
  BY HierarchyKept
<1> QED
  BY <1>1 DEF AuthorityInv, Shapes, TransitionRows, EmergencyContained,
     NoNewEmergency, References, Identities, Open

\* Both.
LEMMA QuietFrame ==
    ASSUME AuthorityInv, OnlyStates, NoNewEmergency, UNCHANGED <<secrets, leaf>>,
           expired \subseteq expired', revoked \subseteq revoked'
    PROVE  /\ DestroyedKeyStaysGone'
           /\ NothingOutlivesItsKey'
           /\ IssuedUnderControl'
           /\ EmergencyContained'
BY KeysFrame, EmergencyFrame DEF OnlyStates

-----------------------------------------------------------------------------
(* Steps that leave authorities, keys, certificates and transitions alone.  *)

\* The preparation of a call reads, and signs with a key that is stored.
LEMMA PrepareStep ==
    ASSUME AuthorityInv, NEW c \in Callers,
           \/ \E i \in RequestIDs, p \in Authorities \cup {None} :
                PrepareCreate(c, i, p)
           \/ \E a \in Authorities : PrepareIssue(c, a) \/ PrepareAttach(c, a)
    PROVE  AuthorityInv'
<1>1. UNCHANGED <<keyFlag, authority, secrets, leaf, expired, revoked, crl,
                  transition>>
  BY DEF PrepareCreate, PrepareIssue, PrepareAttach
<1>2. PICK pc \in {"create", "issue", "attach"}, a \in Authorities \cup {None},
           i \in RequestIDs \cup {None} :
        /\ Start(c, pc, a, i)
        /\ a # None => Exists(a)
        /\ pc # "create" => a # None
        /\ pc # "attach" /\ a # None => a \in secrets
  BY AuthorityConstants
     DEF PrepareCreate, PrepareIssue, PrepareAttach, SigningSecret
<1>3. /\ calls' \in [Callers -> CallRows]
      /\ calls'[c].pc = pc /\ calls'[c].authority = a
      /\ \A d \in Callers : d # c => calls'[d] = calls[d]
  BY <1>2 DEF Start, AuthorityInv, Shapes, CallRows
<1>4. Shapes'
  BY <1>1, <1>3 DEF AuthorityInv, Shapes
<1>5. CallFacts'
  BY <1>1, <1>2, <1>3 DEF AuthorityInv, CallFacts, Exists
<1>6. OnlyStates /\ NoNewEmergency
  BY <1>1 DEF OnlyStates, Identities, NoNewEmergency, Open
<1>7. Levels' /\ References' /\ OneAuthorityPerRequest'
  BY <1>1 DEF AuthorityInv, Levels, References, OneAuthorityPerRequest, Exists
<1> QED BY <1>1, <1>4, <1>5, <1>6, <1>7, QuietFrame DEF AuthorityInv

\* A request that ends without an effect, a renaming, a revocation under an
\* authority, a publication and the passing of time.
LEMMA QuietStep ==
    ASSUME AuthorityInv,
           \/ \E c \in Callers : EndCall(c)
           \/ \E a \in Authorities : \/ Rename(a)
                                     \/ Revoke(a)
                                     \/ PublishCRL(a)
                                     \/ ClosePublication(a)
           \/ Expiry
    PROVE  AuthorityInv'
<1>1. UNCHANGED <<keyFlag, authority, secrets, leaf, revoked, transition>>
  BY DEF EndCall, Rename, Revoke, PublishCRL, ClosePublication, Expiry,
         ExpireAuthority, ExpireLeaf
<1>2. /\ calls' \in [Callers -> CallRows]
      /\ \A c \in Callers : \/ calls'[c] = IdleCall
                            \/ /\ calls'[c].pc = calls[c].pc
                               /\ calls'[c].authority = calls[c].authority
  BY Saving, Finishing
     DEF EndCall, Rename, Revoke, PublishCRL, ClosePublication, Expiry,
         ExpireAuthority, ExpireLeaf, AuthorityInv, Shapes
<1>3. expired \subseteq expired' /\ expired' \subseteq Authorities \cup Leaves
  BY DEF EndCall, Rename, Revoke, PublishCRL, ClosePublication, Expiry,
         ExpireAuthority, ExpireLeaf, AuthorityInv, Shapes
<1>4. crl' \in [Authorities -> CRLRows]
  <2>1. ASSUME NEW a \in Authorities, PublishCRL(a) \/ ClosePublication(a)
        PROVE  crl' \in [Authorities -> CRLRows]
    BY <2>1 DEF PublishCRL, ClosePublication, AuthorityInv, Shapes, CRLRows
  <2>2. ASSUME NEW a \in Authorities, Revoke(a)
        PROVE  crl' \in [Authorities -> CRLRows]
    BY <2>2, UncoveredType DEF Revoke, AuthorityInv, Shapes
  <2> QED
    BY <2>1, <2>2
       DEF EndCall, Rename, Expiry, ExpireAuthority, ExpireLeaf, AuthorityInv, Shapes
<1>5. Shapes'
  BY <1>1, <1>2, <1>3, <1>4 DEF AuthorityInv, Shapes
<1>6. CallFacts'
  BY <1>1, <1>2, CallsFrame DEF AuthorityInv, Exists
<1>7. OnlyStates /\ NoNewEmergency
  BY <1>1 DEF OnlyStates, Identities, NoNewEmergency, Open
<1>8. Levels' /\ References' /\ OneAuthorityPerRequest'
  BY <1>1 DEF AuthorityInv, Levels, References, OneAuthorityPerRequest, Exists
<1> QED BY <1>1, <1>3, <1>5, <1>6, <1>7, <1>8, QuietFrame DEF AuthorityInv

\* SetTarget, ConfirmDeployment, Complete and Close widen no emergency.
LEMMA TransitionStepKeeps ==
    ASSUME AuthorityInv, NEW t \in Transitions, TransitionStep(t)
    PROVE  AuthorityInv'
<1>1. UNCHANGED <<keyFlag, authority, secrets, leaf, expired, revoked, crl, calls>>
  BY DEF TransitionStep, SetTarget, ConfirmDeployment, Complete, Close
<1>2. PICK row \in TransitionRows :
        /\ transition' = [transition EXCEPT ![t] = row]
        /\ row.source = transition[t].source
        /\ row.impacts = transition[t].impacts
        /\ row.mode = transition[t].mode
        /\ transition[t].state # "none"
        /\ row.state \in {"in_progress", "externally_completed"} => Open(t)
  <2> transition[t] \in TransitionRows
    BY DEF AuthorityInv, Shapes
  <2>1. CASE SetTarget(t)
    <3>1. transition' = [transition EXCEPT ![t] =
                            [transition[t] EXCEPT !.targeted = TRUE]]
      BY <2>1 DEF SetTarget
    <3> QED BY <2>1, <3>1 DEF SetTarget, TransitionRows, Open
  <2>2. CASE ConfirmDeployment(t)
    <3>1. transition' = [transition EXCEPT ![t] =
                            [transition[t] EXCEPT !.confirmed = TRUE]]
      BY <2>2 DEF ConfirmDeployment
    <3> QED BY <2>2, <3>1 DEF ConfirmDeployment, TransitionRows, Open
  <2>3. CASE Complete(t)
    <3>1. transition' = [transition EXCEPT ![t] =
                            [transition[t] EXCEPT !.state = "externally_completed"]]
      BY <2>3 DEF Complete
    <3> QED BY <2>3, <3>1 DEF Complete, TransitionRows, TransitionStates, Open
  <2>4. CASE Close(t)
    <3>1. transition' = [transition EXCEPT ![t] =
                            [transition[t] EXCEPT !.state = "closed"]]
      BY <2>4 DEF Close
    <3> QED BY <2>4, <3>1 DEF Close, TransitionRows, TransitionStates, Open
  <2> QED BY <2>1, <2>2, <2>3, <2>4 DEF TransitionStep
<1>3. /\ transition' \in [Transitions -> TransitionRows]
      /\ \A u \in Transitions :
            /\ transition'[u].source = transition[u].source
            /\ transition'[u].impacts = transition[u].impacts
            /\ transition'[u].mode = transition[u].mode
            /\ transition'[u].state # "none" => transition[u].state # "none"
            /\ Open(u)' => Open(u)
  BY <1>2 DEF AuthorityInv, Shapes, Open
<1>4. Shapes'
  BY <1>1, <1>3 DEF AuthorityInv, Shapes
<1>5. CallFacts' /\ Levels' /\ OneAuthorityPerRequest'
  BY <1>1 DEF AuthorityInv, CallFacts, Levels, OneAuthorityPerRequest, Exists
<1>6. References'
  BY <1>1, <1>3 DEF AuthorityInv, References, Exists
<1>7. OnlyStates /\ NoNewEmergency
  BY <1>1, <1>3 DEF OnlyStates, Identities, NoNewEmergency
<1> QED BY <1>1, <1>4, <1>5, <1>6, <1>7, QuietFrame DEF AuthorityInv

-----------------------------------------------------------------------------
(* Steps that change the row of a stored authority.                        *)

\* SetIssuanceState moves one issuance state.
LEMMA SetIssuanceStateStep ==
    ASSUME AuthorityInv, NEW a \in Authorities, NEW state \in {"enabled", "stopped"},
           SetIssuanceState(a, state)
    PROVE  AuthorityInv'
<1> DEFINE row == [authority[a] EXCEPT !.state = state]
<1>1. /\ UNCHANGED <<keyFlag, secrets, leaf, expired, revoked, crl, transition>>
      /\ authority' = [authority EXCEPT ![a] = row]
      /\ SaveAuthorities({a})
      /\ Exists(a)
  BY DEF SetIssuanceState
<1>2. authority[a] \in AuthorityRows
  BY DEF AuthorityInv, Shapes
<1>3. authority' \in [Authorities -> AuthorityRows] /\ OnlyStates
  BY <1>1, <1>2 DEF AuthorityInv, Shapes, AuthorityRows, OnlyStates, Identities,
     Exists
<1>4. Shapes'
  BY <1>1, <1>3, Saving DEF AuthorityInv, Shapes
<1>5. CallFacts'
  BY <1>1, <1>3, Saving, CallsFrame
     DEF AuthorityInv, Shapes, OnlyStates, Identities, Exists
<1>6. NoNewEmergency
  BY <1>1 DEF NoNewEmergency, Open
<1>7. Levels' /\ References' /\ OneAuthorityPerRequest'
  BY <1>1, <1>3, RowsFrame DEF AuthorityInv, References, OnlyStates
<1> QED BY <1>1, <1>3, <1>4, <1>5, <1>6, <1>7, QuietFrame DEF AuthorityInv

\* The row change of DestroyKey, Archive, CommitAttach and ConfirmTakeover: no
\* state of a stored authority moves, a key is destroyed or comes, the authority
\* is archived or its takeover confirmed.
LEMMA RowChange ==
    ASSUME AuthorityInv, NEW a \in Authorities, Exists(a),
           NEW row \in AuthorityRows,
           authority' = [authority EXCEPT ![a] = row],
           row.exists, row.kind = authority[a].kind,
           row.parent = authority[a].parent, row.origin = authority[a].origin,
           row.request = authority[a].request,
           authority[a].destroyed => row.destroyed,
           secrets' \subseteq Authorities,
           \A b \in Authorities \ {a} : b \in secrets' <=> b \in secrets,
           a \in secrets => a \in secrets' \/ row.destroyed,
           calls' \in [Callers -> CallRows],
           \A c \in Callers : \/ calls'[c] = IdleCall
                              \/ /\ calls'[c].pc = calls[c].pc
                                 /\ calls'[c].authority = calls[c].authority,
           UNCHANGED <<keyFlag, leaf, expired, revoked, crl, transition>>
    PROVE  /\ Shapes' /\ Levels' /\ References' /\ CallFacts'
           /\ OneAuthorityPerRequest' /\ EmergencyContained'
           /\ \A b \in Authorities : Signed(b)' = Signed(b)
           /\ authority'[a] = row
           /\ \A b \in Authorities \ {a} : authority'[b] = authority[b]
<1>1. authority' \in [Authorities -> AuthorityRows]
  BY DEF AuthorityInv, Shapes
<1>2. authority'[a] = row /\ \A b \in Authorities \ {a} : authority'[b] = authority[b]
  BY DEF AuthorityInv, Shapes
<1>3. Identities
  BY <1>2 DEF Identities, Exists, AuthorityInv, Shapes, AuthorityRows
<1>4. Shapes'
  BY <1>1 DEF AuthorityInv, Shapes
<1>5. Levels' /\ References' /\ OneAuthorityPerRequest'
  <2>1. \A b \in Authorities :
            ~Exists(b) => authority'[b] = authority[b] /\ b \notin secrets'
    BY <1>2 DEF AuthorityInv, References
  <2> QED BY <1>1, <1>3, <2>1, RowsFrame DEF AuthorityInv
<1>6. CallFacts'
  <2>1. \A b \in Authorities :
            /\ Exists(b) => authority'[b].exists
            /\ authority[b].destroyed => authority'[b].destroyed
            /\ b \in secrets => b \in secrets' \/ authority'[b].destroyed
    BY <1>2 DEF Exists
  <2> QED BY <2>1, CallsFrame DEF AuthorityInv
<1>7. EmergencyContained'
  <2>1. NoNewEmergency
    BY DEF NoNewEmergency, Open
  <2> QED BY <1>3, <2>1, EmergencyFrame
<1> QED BY <1>2, <1>3, <1>4, <1>5, <1>6, <1>7, HierarchyKept

\* DestroyKey deletes the stored key of an authority all whose certificates have
\* expired, and the flag says so.
LEMMA DestroyKeyStep ==
    ASSUME AuthorityInv, NEW a \in Authorities, DestroyKey(a)
    PROVE  AuthorityInv'
<1> DEFINE row == [authority[a] EXCEPT !.destroyed = TRUE, !.key = FALSE]
<1>1. /\ UNCHANGED <<keyFlag, leaf, expired, revoked, crl, transition>>
      /\ authority' = [authority EXCEPT ![a] = row]
      /\ secrets' = secrets \ {a}
      /\ SaveAuthorities({a})
      /\ Exists(a)
      /\ Dependents(a) \subseteq expired
  BY DEF DestroyKey, AllDependentCertificatesExpired
<1>2. authority[a] \in AuthorityRows
  BY DEF AuthorityInv, Shapes
<1>3. /\ row \in AuthorityRows
      /\ row.exists /\ row.kind = authority[a].kind
      /\ row.parent = authority[a].parent /\ row.origin = authority[a].origin
      /\ row.request = authority[a].request /\ row.destroyed /\ ~row.key
      /\ row.pendingTakeover = authority[a].pendingTakeover
  BY <1>1, <1>2 DEF AuthorityRows, Exists
<1>4. /\ calls' \in [Callers -> CallRows]
      /\ \A c \in Callers : /\ calls'[c].pc = calls[c].pc
                            /\ calls'[c].authority = calls[c].authority
  BY <1>1, Saving DEF AuthorityInv, Shapes
<1> HIDE DEF row
<1>5. secrets' \subseteq Authorities
  BY <1>1 DEF AuthorityInv, Shapes
<1>6. /\ Shapes' /\ Levels' /\ References' /\ CallFacts'
      /\ OneAuthorityPerRequest' /\ EmergencyContained'
      /\ \A b \in Authorities : Signed(b)' = Signed(b)
      /\ authority'[a] = row
      /\ \A b \in Authorities \ {a} : authority'[b] = authority[b]
  BY <1>1, <1>3, <1>4, <1>5, RowChange
<1>7. DestroyedKeyStaysGone'
  BY <1>1, <1>3, <1>6 DEF AuthorityInv, DestroyedKeyStaysGone
<1>8. NothingOutlivesItsKey'
  <2>1. Signed(a) \subseteq expired
    BY <1>1 DEF Signed, Dependents
  <2> QED BY <1>1, <1>6, <2>1 DEF AuthorityInv, NothingOutlivesItsKey
<1>9. IssuedUnderControl'
  BY <1>1, <1>3, <1>6 DEF AuthorityInv, IssuedUnderControl
<1> QED BY <1>6, <1>7, <1>8, <1>9 DEF AuthorityInv

\* Archive and ConfirmTakeover change one flag of a row and no key.
LEMMA FlagStep ==
    ASSUME AuthorityInv, NEW a \in Authorities, Archive(a) \/ ConfirmTakeover(a)
    PROVE  AuthorityInv'
<1>1. /\ UNCHANGED <<keyFlag, secrets, leaf, expired, revoked, crl, transition>>
      /\ SaveAuthorities({a})
      /\ Exists(a)
  BY DEF Archive, ConfirmTakeover
<1>2. authority[a] \in AuthorityRows
  BY DEF AuthorityInv, Shapes
<1>3. PICK row \in AuthorityRows :
        /\ authority' = [authority EXCEPT ![a] = row]
        /\ row.exists /\ row.kind = authority[a].kind
        /\ row.parent = authority[a].parent /\ row.origin = authority[a].origin
        /\ row.request = authority[a].request
        /\ row.destroyed = authority[a].destroyed /\ row.key = authority[a].key
        /\ row.pendingTakeover => authority[a].pendingTakeover
        /\ row.archived => authority[a].archived \/ Dependents(a) \subseteq expired
  <2>1. CASE Archive(a)
    <3> DEFINE r == [authority[a] EXCEPT !.archived = TRUE]
    <3>1. authority' = [authority EXCEPT ![a] = r] /\ Dependents(a) \subseteq expired
      BY <2>1 DEF Archive, AllDependentCertificatesExpired
    <3>2. /\ r \in AuthorityRows
          /\ r.exists /\ r.kind = authority[a].kind
          /\ r.parent = authority[a].parent /\ r.origin = authority[a].origin
          /\ r.request = authority[a].request
          /\ r.destroyed = authority[a].destroyed /\ r.key = authority[a].key
          /\ r.pendingTakeover = authority[a].pendingTakeover
      BY <1>1, <1>2 DEF AuthorityRows, Exists
    <3> HIDE DEF r
    <3> QED BY <3>1, <3>2
  <2>2. CASE ConfirmTakeover(a)
    <3> DEFINE r == [authority[a] EXCEPT !.pendingTakeover = FALSE]
    <3>1. authority' = [authority EXCEPT ![a] = r]
      BY <2>2 DEF ConfirmTakeover
    <3>2. /\ r \in AuthorityRows
          /\ r.exists /\ r.kind = authority[a].kind
          /\ r.parent = authority[a].parent /\ r.origin = authority[a].origin
          /\ r.request = authority[a].request
          /\ r.destroyed = authority[a].destroyed /\ r.key = authority[a].key
          /\ ~r.pendingTakeover /\ r.archived = authority[a].archived
      BY <1>1, <1>2 DEF AuthorityRows, Exists
    <3> HIDE DEF r
    <3> QED BY <3>1, <3>2
  <2> QED BY <2>1, <2>2
<1>4. /\ calls' \in [Callers -> CallRows]
      /\ \A c \in Callers : /\ calls'[c].pc = calls[c].pc
                            /\ calls'[c].authority = calls[c].authority
  BY <1>1, Saving DEF AuthorityInv, Shapes
<1>5. secrets' \subseteq Authorities
  BY <1>1 DEF AuthorityInv, Shapes
<1>6. /\ Shapes' /\ Levels' /\ References' /\ CallFacts'
      /\ OneAuthorityPerRequest' /\ EmergencyContained'
      /\ \A b \in Authorities : Signed(b)' = Signed(b)
      /\ authority'[a] = row
      /\ \A b \in Authorities \ {a} : authority'[b] = authority[b]
  BY <1>1, <1>3, <1>4, <1>5, RowChange
<1>7. DestroyedKeyStaysGone'
  BY <1>1, <1>3, <1>6 DEF AuthorityInv, DestroyedKeyStaysGone
<1>8. NothingOutlivesItsKey'
  <2>1. Dependents(a) \subseteq expired => Signed(a) \subseteq expired
    BY DEF Signed, Dependents
  <2> QED BY <1>1, <1>3, <1>6, <2>1 DEF AuthorityInv, NothingOutlivesItsKey
<1>9. IssuedUnderControl'
  BY <1>1, <1>3, <1>6 DEF AuthorityInv, IssuedUnderControl
<1> QED BY <1>6, <1>7, <1>8, <1>9 DEF AuthorityInv

\* An attached key is one that was never destroyed: its authority is read again
\* when the upload is stored.
LEMMA CommitAttachStep ==
    ASSUME AuthorityInv, NEW c \in Callers, CommitAttach(c)
    PROVE  AuthorityInv'
<1>1. PICK a \in Authorities : a = calls[c].authority /\ Exists(a)
  BY DEF CommitAttach, AuthorityInv, Shapes, CallRows, CallFacts
<1> DEFINE row == [authority[a] EXCEPT !.key = TRUE]
<1>2. /\ UNCHANGED <<keyFlag, leaf, expired, revoked, crl, transition>>
      /\ authority' = [authority EXCEPT ![a] = row]
      /\ secrets' = secrets \cup {a}
      /\ ~authority[a].destroyed
  BY <1>1 DEF CommitAttach, AttachAllowed, Attachable
<1>3. authority[a] \in AuthorityRows
  BY DEF AuthorityInv, Shapes
<1>4. /\ row \in AuthorityRows
      /\ row.exists /\ row.kind = authority[a].kind
      /\ row.parent = authority[a].parent /\ row.origin = authority[a].origin
      /\ row.request = authority[a].request
      /\ row.destroyed = authority[a].destroyed /\ row.key
      /\ row.archived = authority[a].archived
      /\ row.pendingTakeover = authority[a].pendingTakeover
  BY <1>1, <1>3 DEF AuthorityRows, Exists
<1> HIDE DEF row
<1>5. /\ calls' \in [Callers -> CallRows]
      /\ \A d \in Callers : \/ calls'[d] = IdleCall
                            \/ /\ calls'[d].pc = calls[d].pc
                               /\ calls'[d].authority = calls[d].authority
  BY EmptyRows DEF CommitAttach, AuthorityInv, Shapes, CallRows
<1>6. secrets' \subseteq Authorities
  BY <1>2 DEF AuthorityInv, Shapes
<1>7. /\ Shapes' /\ Levels' /\ References' /\ CallFacts'
      /\ OneAuthorityPerRequest' /\ EmergencyContained'
      /\ \A b \in Authorities : Signed(b)' = Signed(b)
      /\ authority'[a] = row
      /\ \A b \in Authorities \ {a} : authority'[b] = authority[b]
  BY <1>1, <1>2, <1>4, <1>5, <1>6, RowChange
<1>8. DestroyedKeyStaysGone'
  BY <1>2, <1>4, <1>7 DEF AuthorityInv, DestroyedKeyStaysGone
<1>9. NothingOutlivesItsKey'
  BY <1>2, <1>4, <1>7 DEF AuthorityInv, NothingOutlivesItsKey
<1>10. IssuedUnderControl'
  BY <1>2, <1>4, <1>7 DEF AuthorityInv, IssuedUnderControl
<1> QED BY <1>7, <1>8, <1>9, <1>10 DEF AuthorityInv

-----------------------------------------------------------------------------
(* Steps that create a transition.                                         *)

\* stopIssuanceIfEnabled moves issuance states of stored authorities.
LEMMA Stopping ==
    ASSUME AuthorityInv, NEW S, authority' = Stopped(S)
    PROVE  authority' \in [Authorities -> AuthorityRows] /\ OnlyStates
<1>1. \A a \in Authorities :
        authority'[a] = IF a \in Stoppable(S)
                        THEN [authority[a] EXCEPT !.state = "stopped"]
                        ELSE authority[a]
  BY DEF Stopped
<1>2. \A a \in Authorities :
        authority[a] \in AuthorityRows
  BY DEF AuthorityInv, Shapes
<1>3. \A a \in Authorities : ~Exists(a) => a \notin Stoppable(S)
  BY DEF AuthorityInv, References, Stoppable, NoAuthority
<1>4. ASSUME NEW a \in Authorities PROVE authority'[a] \in AuthorityRows
  <2>1. [authority[a] EXCEPT !.state = "stopped"] \in AuthorityRows
    BY <1>2 DEF AuthorityRows
  <2> QED BY <1>1, <1>2, <2>1
<1>5. authority' \in [Authorities -> AuthorityRows]
  BY <1>4 DEF Stopped
<1>6. OnlyStates
  BY <1>1, <1>2, <1>3 DEF OnlyStates, Identities, AuthorityRows
<1> QED BY <1>5, <1>6

\* What the creation of a transition leaves alone, whatever its mode.
LEMMA CreatingTransition ==
    ASSUME AuthorityInv, NEW t \in Transitions, NEW a \in Authorities,
           NEW S, NEW targeted \in BOOLEAN, NEW mode \in {"normal", "emergency"},
           NEW impacts \in SUBSET Leaves,
           Exists(a), authority' = Stopped(S), NEW U, SaveAuthorities(U),
           transition' = [transition EXCEPT ![t] =
                            NewTransition(a, targeted, mode, impacts)],
           revoked' \subseteq Authorities,
           crl' \in [Authorities -> CRLRows],
           UNCHANGED <<keyFlag, secrets, leaf, expired>>
    PROVE  /\ Shapes' /\ Levels' /\ References' /\ CallFacts'
           /\ OneAuthorityPerRequest' /\ OnlyStates
           /\ DestroyedKeyStaysGone' /\ NothingOutlivesItsKey'
           /\ IssuedUnderControl'
<1>1. authority' \in [Authorities -> AuthorityRows] /\ OnlyStates
  BY Stopping
<1>2. /\ calls' \in [Callers -> CallRows]
      /\ \A c \in Callers : /\ calls'[c].pc = calls[c].pc
                            /\ calls'[c].authority = calls[c].authority
  BY Saving DEF AuthorityInv, Shapes
<1>3. /\ transition' \in [Transitions -> TransitionRows]
      /\ transition'[t].source = a
      /\ \A u \in Transitions \ {t} : transition'[u] = transition[u]
  BY DEF AuthorityInv, Shapes, NewTransition, TransitionRows, TransitionStates
<1>4. Shapes'
  BY <1>1, <1>2, <1>3 DEF AuthorityInv, Shapes
<1>5. CallFacts'
  BY <1>1, <1>2, CallsFrame DEF AuthorityInv, OnlyStates, Identities, Exists
<1>6. \A b \in Authorities :
        ~Exists(b) => authority'[b] = authority[b] /\ b \notin secrets'
  BY <1>1 DEF AuthorityInv, References, OnlyStates
<1>7. Levels' /\ OneAuthorityPerRequest'
  BY <1>1, <1>6, RowsFrame DEF AuthorityInv, OnlyStates
<1>8. References'
  <2>1. \A b \in Authorities : Exists(b)' = Exists(b)
    BY <1>1 DEF OnlyStates, Identities, Exists
  <2>2. a # None
    BY AuthorityConstants
  <2>3. \A u \in Transitions \ {t} : transition[u].source \in Authorities \cup {None}
    BY DEF AuthorityInv, Shapes, TransitionRows
  <2>4. \A u \in Transitions :
            (transition[u].state # "none")' =>
                transition'[u].source # None /\ Exists(transition[u].source)'
    BY <1>3, <2>1, <2>2, <2>3 DEF AuthorityInv, References, Exists
  <2>5. \A l \in Leaves : leaf'[l].issuer # None => Exists(leaf[l].issuer)'
    BY <2>1 DEF AuthorityInv, References, Shapes, LeafRows, Exists
  <2>6. \A b \in Authorities :
            ~Exists(b)' => authority'[b] = NoAuthority /\ b \notin secrets'
    BY <1>6, <2>1 DEF AuthorityInv, References
  <2> QED BY <2>4, <2>5, <2>6 DEF References
<1> QED BY <1>1, <1>4, <1>5, <1>7, <1>8, KeysFrame

\* A normal transition is not an emergency.
LEMMA CreateNormalStep ==
    ASSUME AuthorityInv, NEW t \in Transitions, NEW a \in Authorities,
           NEW targeted \in BOOLEAN, CreateNormal(t, a, targeted)
    PROVE  AuthorityInv'
<1>1. /\ Exists(a)
      /\ authority' = Stopped({a})
      /\ SaveAuthorities(Stoppable({a}))
      /\ transition' = [transition EXCEPT ![t] =
                            NewTransition(a, targeted, "normal", {})]
      /\ UNCHANGED <<keyFlag, secrets, leaf, expired, revoked, crl>>
  BY DEF CreateNormal
<1>2. revoked' \subseteq Authorities /\ crl' \in [Authorities -> CRLRows]
  BY <1>1 DEF AuthorityInv, Shapes
<1>3. /\ Shapes' /\ Levels' /\ References' /\ CallFacts'
      /\ OneAuthorityPerRequest' /\ OnlyStates
      /\ DestroyedKeyStaysGone' /\ NothingOutlivesItsKey'
      /\ IssuedUnderControl'
  BY <1>1, <1>2, CreatingTransition
<1>4. NoNewEmergency
  BY <1>1 DEF NoNewEmergency, NewTransition, Open, AuthorityInv, Shapes
<1>5. EmergencyContained'
  BY <1>1, <1>3, <1>4, EmergencyFrame DEF OnlyStates
<1> QED BY <1>3, <1>5 DEF AuthorityInv

\* An emergency lists every leaf below its source and revokes the source's own
\* certificate, in the transaction that opens it.
LEMMA CreateEmergencyStep ==
    ASSUME AuthorityInv, NEW t \in Transitions, NEW a \in Authorities,
           NEW targeted \in BOOLEAN, CreateEmergency(t, a, targeted)
    PROVE  AuthorityInv'
<1> DEFINE impacts == CollectLeafCertificateIDs(a)
<1>1. /\ Exists(a)
      /\ authority' = Stopped(Hierarchy(a))
      /\ SaveAuthorities(Stoppable(Hierarchy(a)))
      /\ RevokeUnderParent(a)
      /\ transition' = [transition EXCEPT ![t] =
                            NewTransition(a, targeted, "emergency", impacts)]
      /\ UNCHANGED <<keyFlag, secrets, leaf, expired>>
  BY DEF CreateEmergency
<1>2. /\ revoked \subseteq revoked' /\ revoked' \subseteq Authorities
      /\ authority[a].kind = "intermediate" => a \in revoked'
  BY <1>1 DEF RevokeUnderParent, AuthorityInv, Shapes
<1>3. crl' \in [Authorities -> CRLRows]
  <2>1. CASE authority[a].kind = "root"
    BY <1>1, <2>1 DEF RevokeUnderParent, AuthorityInv, Shapes
  <2>2. CASE authority[a].kind # "root"
    <3>1. authority[a].parent \in Authorities
      BY <2>2 DEF AuthorityInv, Shapes, AuthorityRows, Levels
    <3> QED BY <1>1, <2>2, <3>1, UncoveredType
            DEF RevokeUnderParent, AuthorityInv, Shapes
  <2> QED BY <2>1, <2>2
<1>4. impacts \in SUBSET Leaves
  BY DEF CollectLeafCertificateIDs
<1>5. /\ Shapes' /\ Levels' /\ References' /\ CallFacts'
      /\ OneAuthorityPerRequest' /\ OnlyStates
      /\ DestroyedKeyStaysGone' /\ NothingOutlivesItsKey'
      /\ IssuedUnderControl'
  BY <1>1, <1>2, <1>3, <1>4, CreatingTransition
<1>6. EmergencyContained'
  <2>1. \A b \in Authorities :
            Hierarchy(b)' = Hierarchy(b) /\ authority'[b].kind = authority[b].kind
    BY <1>5, HierarchyKept DEF OnlyStates, Identities
  <2>2. /\ transition'[t].source = a /\ transition'[t].impacts = impacts
        /\ \A u \in Transitions \ {t} : transition'[u] = transition[u]
    BY <1>1 DEF NewTransition, AuthorityInv, Shapes
  <2>3. \A l \in Leaves : leaf'[l].issuer \in Hierarchy(a)' => l \in impacts
    BY <1>1, <2>1 DEF CollectLeafCertificateIDs
  <2>4. ASSUME NEW u \in Transitions \ {t},
               Open(u)', transition'[u].mode = "emergency"
        PROVE  /\ transition[u].source \in Authorities
               /\ Open(u) /\ transition[u].mode = "emergency"
               /\ transition'[u] = transition[u]
    BY <2>2, <2>4 DEF Open, AuthorityInv, Shapes, TransitionRows, References
  <2>5. ASSUME NEW u \in Transitions, NEW source \in Authorities,
               source = transition'[u].source,
               Open(u)', transition'[u].mode = "emergency"
        PROVE  /\ \A l \in Leaves :
                    leaf'[l].origin = "issued" /\ leaf'[l].issuer \in Hierarchy(source)'
                    => l \in transition'[u].impacts \cup expired'
               /\ authority'[source].kind = "intermediate" => source \in revoked'
    <3>1. CASE u = t
      BY <1>2, <2>1, <2>2, <2>3, <2>5, <3>1
    <3>2. CASE u # t
      BY <1>1, <1>2, <2>1, <2>4, <2>5, <3>2 DEF EmergencyContained, AuthorityInv
    <3> QED BY <3>1, <3>2
  <2> QED BY <2>2, <2>4, <2>5 DEF EmergencyContained
<1> QED BY <1>5, <1>6 DEF AuthorityInv

-----------------------------------------------------------------------------
(* Steps that store an authority or a leaf.                                *)

\* An authority that is not stored has signed nothing.
LEMMA NothingBelow ==
    ASSUME AuthorityInv, NEW a \in Authorities, ~Exists(a)
    PROVE  /\ \A b \in Authorities : authority[b].parent # a
           /\ \A l \in Leaves : leaf[l].issuer # a
<1>1. \A b \in Authorities : authority[b].parent # a
  BY AuthorityConstants
     DEF AuthorityInv, Shapes, AuthorityRows, Levels, Exists
<1>2. \A l \in Leaves : leaf[l].issuer # a
  BY AuthorityConstants DEF AuthorityInv, References
<1> QED BY <1>1, <1>2

\* commitCreate and insertImportedAuthority: a row is added below p, which signed
\* it here only if it may sign and its key is stored.
LEMMA AddingAuthority ==
    ASSUME AuthorityInv, NEW a \in Authorities, ~Exists(a),
           NEW p \in Authorities \cup {None}, NEW row \in AuthorityRows,
           p # None => Exists(p) /\ authority[p].kind = "root",
           authority' = [authority EXCEPT ![a] = row],
           row.exists, ~row.destroyed, ~row.archived, row.parent = p,
           row.kind = IF p = None THEN "root" ELSE "intermediate",
           row.origin = "generated" /\ p # None =>
               /\ p \in secrets
               /\ ~authority[p].destroyed
               /\ ~authority[p].archived
               /\ ~authority[p].pendingTakeover,
           row.request # None => ~Replays(row.request),
           secrets' = IF row.key THEN secrets \cup {a} ELSE secrets,
           calls' \in [Callers -> CallRows],
           \A c \in Callers : \/ calls'[c] = IdleCall
                              \/ /\ calls'[c].pc = calls[c].pc
                                 /\ calls'[c].authority = calls[c].authority,
           UNCHANGED <<keyFlag, leaf, expired, revoked, crl, transition>>
    PROVE  AuthorityInv'
<1>1. /\ authority' \in [Authorities -> AuthorityRows]
      /\ authority'[a] = row
      /\ \A b \in Authorities \ {a} : authority'[b] = authority[b]
  BY DEF AuthorityInv, Shapes
<1>2. /\ \A b \in Authorities : authority[b].parent # a
      /\ \A l \in Leaves : leaf[l].issuer # a
      /\ a \notin secrets
      /\ p # a
  BY NothingBelow, AuthorityConstants DEF AuthorityInv, References
<1>3. Shapes'
  BY <1>1 DEF AuthorityInv, Shapes
<1>4. Levels'
  <2>1. ASSUME NEW b \in Authorities \ {a}
        PROVE  /\ authority'[b].kind = "root" => authority'[b].parent = None
               /\ authority'[b].kind = "intermediate" =>
                    /\ authority'[b].parent # None
                    /\ authority'[b].parent \in Authorities \ {a}
                    /\ authority'[authority'[b].parent].kind = "root"
                    /\ authority'[authority'[b].parent].exists
    BY <1>1, <1>2 DEF AuthorityInv, Levels, Shapes, AuthorityRows
  <2>2. /\ row.kind = "root" => row.parent = None
        /\ row.kind = "intermediate" =>
            /\ row.parent # None
            /\ authority'[row.parent].kind = "root"
            /\ authority'[row.parent].exists
    BY <1>1, <1>2 DEF Exists
  <2> QED BY <1>1, <2>1, <2>2 DEF Levels
<1>5. References'
  <2>1. \A b \in Authorities : Exists(b) => Exists(b)'
    BY <1>1 DEF Exists
  <2>2. \A b \in Authorities :
            ~Exists(b)' => authority'[b] = NoAuthority /\ b \notin secrets'
    BY <1>1 DEF AuthorityInv, References, Exists
  <2>3. \A l \in Leaves : leaf'[l].issuer # None => Exists(leaf[l].issuer)'
    BY <2>1 DEF AuthorityInv, References, Shapes, LeafRows, Exists
  <2>4. \A u \in Transitions :
            transition'[u].state # "none" =>
                transition'[u].source # None /\ Exists(transition[u].source)'
    BY <2>1 DEF AuthorityInv, References, Shapes, TransitionRows, Exists
  <2> QED BY <2>2, <2>3, <2>4 DEF References
<1>6. CallFacts'
  <2>1. \A b \in Authorities :
            /\ Exists(b) => authority'[b].exists
            /\ authority[b].destroyed => authority'[b].destroyed
            /\ b \in secrets => b \in secrets' \/ authority'[b].destroyed
    BY <1>1 DEF Exists, AuthorityInv, References, NoAuthority
  <2> QED BY <2>1, CallsFrame DEF AuthorityInv
<1>7. /\ Signed(a)' = {}
      /\ \A b \in Authorities \ {a} :
            Signed(b)' \subseteq
                Signed(b) \cup {x \in {a} : b = p /\ row.origin = "generated"}
  BY <1>1, <1>2 DEF Signed, Descendants, Exists
<1>8. DestroyedKeyStaysGone'
  BY <1>1, <1>2 DEF AuthorityInv, DestroyedKeyStaysGone
<1>9. NothingOutlivesItsKey'
  <2>1. ASSUME NEW b \in Authorities \ {a},
               authority[b].destroyed \/ authority[b].archived
        PROVE  Signed(b)' \subseteq expired
    <3>1. ~(b = p /\ row.origin = "generated")
      BY <2>1, AuthorityConstants
    <3>2. Signed(b)' \subseteq Signed(b)
      BY <1>7, <3>1
    <3> QED BY <2>1, <3>2 DEF AuthorityInv, NothingOutlivesItsKey
  <2> QED BY <1>1, <1>7, <2>1 DEF NothingOutlivesItsKey
<1>10. IssuedUnderControl'
  <2>1. ASSUME NEW b \in Authorities \ {a}, Signed(b)' # {}
        PROVE  /\ b \in secrets \/ authority[b].destroyed
               /\ ~authority[b].pendingTakeover
    <3>1. CASE b = p /\ row.origin = "generated"
      BY <3>1, AuthorityConstants
    <3>2. CASE ~(b = p /\ row.origin = "generated")
      <4>1. Signed(b) # {}
        BY <1>7, <2>1, <3>2
      <4> QED BY <4>1 DEF AuthorityInv, IssuedUnderControl
    <3> QED BY <3>1, <3>2
  <2> QED BY <1>1, <1>7, <2>1 DEF IssuedUnderControl
<1>11. EmergencyContained'
  <2>1. ASSUME NEW u \in Transitions, NEW source \in Authorities,
               source = transition[u].source, Open(u)
        PROVE  /\ source # a
               /\ \A l \in Leaves : leaf'[l].issuer \in Hierarchy(source)'
                                        => leaf[l].issuer \in Hierarchy(source)
    BY <1>1, <1>2, <2>1
       DEF Open, AuthorityInv, References, Hierarchy, Descendants, Exists
  <2>2. \A u \in Transitions : Open(u) => transition[u].source \in Authorities
    BY DEF Open, AuthorityInv, References, Shapes, TransitionRows
  <2>3. \A u \in Transitions : Open(u)' = Open(u)
    BY DEF Open
  <2> QED BY <1>1, <2>1, <2>2, <2>3 DEF AuthorityInv, EmergencyContained
<1>12. OneAuthorityPerRequest'
  <2>1. \A b \in Authorities \ {a} :
            authority[b].request # None => authority[b].request # row.request
    BY DEF AuthorityInv, References, Replays, Exists, NoAuthority
  <2> QED BY <1>1, <2>1 DEF AuthorityInv, OneAuthorityPerRequest
<1> QED
  BY <1>3, <1>4, <1>5, <1>6, <1>8, <1>9, <1>10, <1>11, <1>12 DEF AuthorityInv

\* commitCreate reads the parent again inside its transaction.
LEMMA CommitCreateStep ==
    ASSUME AuthorityInv, NEW c \in Callers, NEW a \in Authorities,
           CommitCreate(c, a)
    PROVE  AuthorityInv'
<1>1. PICK p \in Authorities \cup {None}, i \in RequestIDs \cup {None} :
        p = calls[c].authority /\ i = calls[c].request
  BY DEF AuthorityInv, Shapes, CallRows
<1> DEFINE row == [NoAuthority EXCEPT !.exists = TRUE, !.parent = p, !.key = TRUE,
                      !.kind = IF p = None THEN "root" ELSE "intermediate",
                      !.request = i]
<1>2. /\ ~Exists(a)
      /\ authority' = [authority EXCEPT ![a] = row]
      /\ secrets' = secrets \cup {a}
      /\ Finish(c)
      /\ ~Replays(i)
      /\ UNCHANGED <<keyFlag, leaf, expired, revoked, crl, transition>>
  BY <1>1 DEF CommitCreate, CreateReplays
<1>3. p # None => /\ Exists(p)
                  /\ authority[p].kind = "root"
                  /\ p \in secrets
                  /\ ~authority[p].destroyed
                  /\ ~authority[p].archived
                  /\ ~authority[p].pendingTakeover
  BY <1>1 DEF CommitCreate, CanIssue, SigningKeyLive, AuthorityInv, CallFacts
<1>4. /\ row \in AuthorityRows /\ row.exists /\ ~row.destroyed /\ ~row.archived
      /\ row.parent = p /\ row.key /\ row.request = i
      /\ row.kind = IF p = None THEN "root" ELSE "intermediate"
  BY <1>1 DEF NoAuthority, AuthorityRows
<1> HIDE DEF row
<1>5. /\ calls' \in [Callers -> CallRows]
      /\ \A d \in Callers : calls'[d] = IdleCall \/ calls'[d] = calls[d]
  BY <1>2, Finishing DEF AuthorityInv, Shapes
<1> QED BY <1>1, <1>2, <1>3, <1>4, <1>5, AddingAuthority

\* An imported authority was not signed here.
LEMMA ImportAuthorityStep ==
    ASSUME AuthorityInv, NEW a \in Authorities, NEW p \in Authorities \cup {None},
           NEW withKey \in BOOLEAN, NEW takenOver \in BOOLEAN,
           ImportAuthority(a, p, withKey, takenOver)
    PROVE  AuthorityInv'
<1> DEFINE row == [NoAuthority EXCEPT !.exists = TRUE, !.parent = p, !.key = withKey,
                      !.kind = IF p = None THEN "root" ELSE "intermediate",
                      !.state = "stopped", !.origin = "imported",
                      !.pendingTakeover = takenOver]
<1>1. /\ ~Exists(a)
      /\ p # None => Exists(p) /\ authority[p].kind = "root"
      /\ authority' = [authority EXCEPT ![a] = row]
      /\ secrets' = IF withKey THEN secrets \cup {a} ELSE secrets
      /\ UNCHANGED <<keyFlag, leaf, expired, revoked, crl, transition, calls>>
  BY DEF ImportAuthority
<1>2. /\ row \in AuthorityRows /\ row.exists /\ ~row.destroyed /\ ~row.archived
      /\ row.parent = p /\ row.key = withKey /\ row.request = None
      /\ row.kind = IF p = None THEN "root" ELSE "intermediate"
      /\ row.origin = "imported"
  BY DEF NoAuthority, AuthorityRows
<1> HIDE DEF row
<1>3. calls' \in [Callers -> CallRows]
  BY <1>1 DEF AuthorityInv, Shapes
<1> QED BY <1>1, <1>2, <1>3, AddingAuthority

\* A leaf is stored under an authority that may sign it, or is imported.
LEMMA AddingLeaf ==
    ASSUME AuthorityInv, NEW l \in Leaves, NEW a \in Authorities,
           NEW origin \in {"issued", "imported"}, Exists(a),
           leaf' = [leaf EXCEPT ![l] = [issuer |-> a, origin |-> origin]],
           origin = "issued" =>
               /\ a \in secrets
               /\ ~authority[a].destroyed
               /\ ~authority[a].archived
               /\ ~authority[a].pendingTakeover
               /\ ~Affected(a),
           leaf[l] = NoLeaf,
           calls' \in [Callers -> CallRows],
           \A c \in Callers : \/ calls'[c] = IdleCall
                              \/ /\ calls'[c].pc = calls[c].pc
                                 /\ calls'[c].authority = calls[c].authority,
           UNCHANGED <<keyFlag, authority, secrets, expired, revoked, crl,
                       transition>>
    PROVE  AuthorityInv'
<1>1. /\ leaf' \in [Leaves -> LeafRows]
      /\ leaf'[l].issuer = a /\ leaf'[l].origin = origin
      /\ \A m \in Leaves \ {l} : leaf'[m] = leaf[m]
  BY DEF AuthorityInv, Shapes, LeafRows
<1>2. Shapes'
  BY <1>1 DEF AuthorityInv, Shapes
<1>3. Levels' /\ OneAuthorityPerRequest' /\ DestroyedKeyStaysGone'
  BY DEF AuthorityInv, Levels, OneAuthorityPerRequest, DestroyedKeyStaysGone
<1>4. References'
  BY <1>1 DEF AuthorityInv, References, Exists
<1>5. CallFacts'
  BY CallsFrame DEF AuthorityInv, Exists
<1>6. \A b \in Authorities :
        /\ Hierarchy(b)' = Hierarchy(b)
        /\ Signed(b)' \subseteq
            Signed(b) \cup {x \in {l} : b = a /\ origin = "issued"}
  BY <1>1 DEF Hierarchy, Signed, Descendants, Exists
<1>7. NothingOutlivesItsKey'
  BY <1>6 DEF AuthorityInv, NothingOutlivesItsKey
<1>8. IssuedUnderControl'
  BY <1>6 DEF AuthorityInv, IssuedUnderControl
<1>9. EmergencyContained'
  <2>1. ASSUME NEW u \in Transitions, Open(u), transition[u].mode = "emergency"
        PROVE  /\ transition[u].source \in Authorities
               /\ origin = "issued" => a \notin Hierarchy(transition[u].source)
    BY <2>1 DEF Open, Affected, AuthorityInv, References, Shapes, TransitionRows
  <2> QED BY <1>1, <1>6, <2>1 DEF AuthorityInv, EmergencyContained, Open
<1> QED BY <1>2, <1>3, <1>4, <1>5, <1>7, <1>8, <1>9 DEF AuthorityInv

\* commitIssue and commitRenew judge the issuer again inside the transaction.
LEMMA LeafStep ==
    ASSUME AuthorityInv, NEW l \in Leaves,
           \/ \E c \in Callers : CommitIssue(c, l)
           \/ \E a \in Authorities : ImportLeaf(l, a)
    PROVE  AuthorityInv'
<1>1. ASSUME NEW c \in Callers, CommitIssue(c, l) PROVE AuthorityInv'
  <2>1. PICK a \in Authorities : a = calls[c].authority
    BY <1>1 DEF CommitIssue, AuthorityInv, Shapes, CallRows, CallFacts
  <2>2. /\ leaf' = [leaf EXCEPT ![l] = [issuer |-> a, origin |-> "issued"]]
        /\ leaf[l] = NoLeaf
        /\ Finish(c)
        /\ UNCHANGED <<keyFlag, authority, secrets, expired, revoked, crl,
                       transition>>
    BY <1>1, <2>1 DEF CommitIssue
  <2>3. /\ Exists(a)
        /\ a \in secrets
        /\ ~authority[a].destroyed
        /\ ~authority[a].archived
        /\ ~authority[a].pendingTakeover
        /\ ~Affected(a)
    BY <1>1, <2>1, AuthorityConstants
       DEF CommitIssue, IssuerStillValid, CanIssue, SigningKeyLive, AuthorityInv,
           CallFacts
  <2>4. /\ calls' \in [Callers -> CallRows]
        /\ \A d \in Callers : calls'[d] = IdleCall \/ calls'[d] = calls[d]
    BY <2>2, Finishing DEF AuthorityInv, Shapes
  <2> QED BY <2>2, <2>3, <2>4, AddingLeaf
<1>2. ASSUME NEW a \in Authorities, ImportLeaf(l, a) PROVE AuthorityInv'
  <2>1. calls' \in [Callers -> CallRows]
    BY <1>2 DEF ImportLeaf, AuthorityInv, Shapes
  <2> QED BY <1>2, <2>1, AddingLeaf DEF ImportLeaf
<1> QED BY <1>1, <1>2

-----------------------------------------------------------------------------
(* The specification.                                                      *)

\* The empty database.
LEMMA AuthorityInit ==
    ASSUME Init
    PROVE  AuthorityInv /\ Bounded
<1>1. Shapes
  BY EmptyRows DEF Init, Shapes
<1>2. \A a \in Authorities : Signed(a) = {}
  BY AuthorityConstants DEF Init, Signed, Descendants, Exists, NoAuthority, NoLeaf
<1>3. \A a \in Authorities :
        /\ authority[a] = NoAuthority
        /\ NoAuthority.kind = "root" /\ NoAuthority.parent = None
        /\ ~NoAuthority.destroyed /\ ~NoAuthority.archived /\ ~NoAuthority.key
        /\ NoAuthority.request = None
  BY DEF Init, NoAuthority
<1>4. Levels /\ OneAuthorityPerRequest /\ DestroyedKeyStaysGone
  BY <1>3 DEF Init, Levels, OneAuthorityPerRequest, DestroyedKeyStaysGone
<1>5. References /\ CallFacts
  BY <1>3 DEF Init, References, CallFacts, NoLeaf, NoTransition, IdleCall
<1>6. NothingOutlivesItsKey /\ IssuedUnderControl
  BY <1>2 DEF NothingOutlivesItsKey, IssuedUnderControl
<1>7. EmergencyContained
  BY DEF Init, EmergencyContained, Open, NoTransition
<1> QED
  BY <1>1, <1>4, <1>5, <1>6, <1>7, AuthorityConstants DEF AuthorityInv, Bounded, Init

\* Every operation keeps the invariant.
LEMMA AuthorityNext ==
    ASSUME AuthorityInv, Bounded, [Next]_vars
    PROVE  AuthorityInv' /\ Bounded'
<1>1. CASE UNCHANGED vars
  BY <1>1 DEF vars, AuthorityInv, Bounded, Shapes, Levels, References, CallFacts,
     DestroyedKeyStaysGone, NothingOutlivesItsKey, IssuedUnderControl,
     EmergencyContained, OneAuthorityPerRequest, Exists, Signed, Descendants,
     Hierarchy, Open
<1>2. CASE Change
  <2>1. Bounded'
    BY <1>2, AuthorityConstants DEF Change, Bounded
  <2>2. PICK a \in Authorities : AuthorityStep(a)
    BY <1>2 DEF Change
  <2>3. AuthorityInv'
    BY <2>2, QuietStep, SetIssuanceStateStep, DestroyKeyStep, FlagStep,
       ImportAuthorityStep, LeafStep, CreateNormalStep, CreateEmergencyStep
       DEF AuthorityStep
  <2> QED BY <2>1, <2>3
<1>3. CASE Progress
  <2>1. ASSUME NEW c \in Callers, CallStep(c) PROVE AuthorityInv'
    BY <2>1, PrepareStep, CommitCreateStep, LeafStep, CommitAttachStep, QuietStep
       DEF CallStep
  <2>2. ASSUME Expiry PROVE AuthorityInv'
    BY <2>2, QuietStep
  <2> QED BY <1>3, <2>1, <2>2, TransitionStepKeeps DEF Progress, Bounded
<1> QED BY <1>1, <1>2, <1>3 DEF Next

\* In every behaviour.
THEOREM AuthorityInvariant == Spec => [](AuthorityInv /\ Bounded)
BY AuthorityInit, AuthorityNext, PTL DEF Spec

\* Rows keep their shapes, and every intermediate authority a stored root above it.
THEOREM AuthorityTypeCorrect == Spec => []TypeOK
<1>1. AuthorityInv /\ Bounded => TypeOK
  BY DEF AuthorityInv, Bounded, Shapes, Levels, TypeOK
<1> QED BY <1>1, AuthorityInvariant, PTL

\* However preparations, commits and emergencies interleave, no certificate
\* issued here below an open emergency escapes TransitionService's impact list.
THEOREM EmergencyContainedCorrect == Spec => []EmergencyContained
<1>1. AuthorityInv => EmergencyContained
  BY DEF AuthorityInv
<1> QED BY <1>1, AuthorityInvariant, PTL

\* DestroyKey and Archive leave no valid certificate behind that was signed here.
THEOREM NothingOutlivesItsKeyCorrect == Spec => []NothingOutlivesItsKey
<1>1. AuthorityInv => NothingOutlivesItsKey
  BY DEF AuthorityInv
<1> QED BY <1>1, AuthorityInvariant, PTL

\* commitCreate, commitIssue and commitRenew sign only under authorities whose key
\* this installation held and whose takeover is confirmed.
THEOREM IssuedUnderControlCorrect == Spec => []IssuedUnderControl
<1>1. AuthorityInv => IssuedUnderControl
  BY DEF AuthorityInv
<1> QED BY <1>1, AuthorityInvariant, PTL

\* No AttachSigningKey brings a destroyed key back, whenever it was prepared.
THEOREM DestroyedKeyStaysGoneCorrect == Spec => []DestroyedKeyStaysGone
<1>1. AuthorityInv => DestroyedKeyStaysGone
  BY DEF AuthorityInv
<1> QED BY <1>1, AuthorityInvariant, PTL

\* Racing creations with one idempotency key store one authority.
THEOREM OneAuthorityPerRequestCorrect == Spec => []OneAuthorityPerRequest
<1>1. AuthorityInv => OneAuthorityPerRequest
  BY DEF AuthorityInv
<1> QED BY <1>1, AuthorityInvariant, PTL

=============================================================================
