------------------------------ MODULE Authority ------------------------------
(***************************************************************************)
(* Certification authorities and the transitions away from them, as        *)
(* implemented by                                                          *)
(*   internal/app/service/authority.go   (AuthorityService)                *)
(*   internal/app/service/transition.go  (TransitionService)               *)
(*   internal/app/service/importing.go   (AttachSigningKey,                *)
(*                                        ConfirmTakeover)                 *)
(*   internal/domain/authority.go        (Authority)                       *)
(*   internal/domain/transition.go       (Transition)                      *)
(*   internal/storage/sqlstore/pki       (authorities, ca_key_generations) *)
(*                                                                         *)
(* A hierarchy has two levels: roots sign intermediates, intermediates     *)
(* sign leaves.  Creating an authority, issuing a leaf and attaching a key *)
(* read and sign outside the write transaction and check again inside it;  *)
(* every other operation is one write transaction.  A request that carries *)
(* a stale expected version changes nothing, so only AttachSigningKey,     *)
(* which compares versions twice, shows that check.                        *)
(*                                                                         *)
(* Serial numbers, settings and leaf histories are Issuance's, CRL numbers *)
(* and documents CRLPublication's, files and chains Import's.  Of time     *)
(* only expiry is kept: CanIssue keeps a certificate inside the window of  *)
(* its issuer's, so what an authority issued expires before it does.       *)
(***************************************************************************)
EXTENDS Naturals, FiniteSets

CONSTANTS
    Authorities,  \* authority ids, each with one CA key generation
    Leaves,       \* leaf certificate ids
    Transitions,  \* transition ids
    Callers,      \* requests that may be in progress at a time
    RequestIDs,   \* idempotency keys of authority creations
    None,         \* an empty reference
    MaxChanges    \* bound on the operations that are not part of a call

ASSUME AuthorityConstants ==
    /\ None \notin Authorities \cup RequestIDs
    /\ MaxChanges \in Nat

VARIABLES
    keyFlag,     \* how the store answers KeyAvailable, see KeyAvailable
    authority,   \* authorities and ca_key_generations
    secrets,     \* authorities whose encrypted signing key is stored
    leaf,        \* leaf certificates
    expired,     \* authorities and leaves whose certificate is past not_after
    revoked,     \* authorities whose own certificate is revoked
    crl,         \* crl_states
    transition,  \* transitions, transition_impacts, deployment_confirmations
    calls,       \* the requests in progress
    changes      \* operations so far, see MaxChanges

vars == <<keyFlag, authority, secrets, leaf, expired, revoked, crl,
          transition, calls, changes>>

AuthorityRows ==
    [exists : BOOLEAN, kind : {"root", "intermediate"},
     parent : Authorities \cup {None},
     state : {"inventory", "enabled", "stopped"}, archived : BOOLEAN,
     origin : {"generated", "imported"}, key : BOOLEAN, destroyed : BOOLEAN,
     pendingTakeover : BOOLEAN,
     request : RequestIDs \cup {None}]

NoAuthority ==
    [exists |-> FALSE, kind |-> "root", parent |-> None, state |-> "inventory",
     archived |-> FALSE, origin |-> "generated", key |-> FALSE,
     destroyed |-> FALSE, pendingTakeover |-> FALSE, request |-> None]

LeafRows == [issuer : Authorities \cup {None}, origin : {"issued", "imported"}]

NoLeaf == [issuer |-> None, origin |-> "issued"]

\* published: "current" when the published CRL covers every revocation.
CRLRows == [published : {"none", "stale", "current"}, closed : BOOLEAN]

NewCRL == [published |-> "none", closed |-> FALSE]

TransitionStates == {"none", "in_progress", "externally_completed", "closed"}

TransitionRows ==
    [state : TransitionStates, source : Authorities \cup {None},
     targeted : BOOLEAN, mode : {"normal", "emergency"},
     impacts : SUBSET Leaves, confirmed : BOOLEAN]

NoTransition ==
    [state |-> "none", source |-> None, targeted |-> FALSE, mode |-> "normal",
     impacts |-> {}, confirmed |-> FALSE]

\* authority: the parent, the issuer or the authority a key is attached to;
\* current: no SaveAuthority has touched it since the request was prepared.
CallRows ==
    [pc : {"idle", "create", "issue", "attach"},
     authority : Authorities \cup {None}, request : RequestIDs \cup {None},
     current : BOOLEAN]

IdleCall == [pc |-> "idle", authority |-> None, request |-> None,
             current |-> TRUE]

-----------------------------------------------------------------------------
(* What the code reads.                                                    *)

Exists(a) == authority[a].exists

\* readAuthorityRow, authorityFromFacts: the SQL store keeps no column for the
\* flag and derives it from key_destroyed_at; a store that keeps the domain
\* object, as the one of the port tests does, returns the flag itself.
KeyAvailable(a) ==
    IF keyFlag = "derived" THEN ~authority[a].destroyed ELSE authority[a].key

\* ListAffectedDescendants: authorities managed below a.
Descendants(a) == {b \in Authorities : Exists(b) /\ authority[b].parent = a}

Hierarchy(a) == {a} \cup Descendants(a)

Open(t) == transition[t].state \in {"in_progress", "externally_completed"}

\* hasEmergencyImpact: an emergency that is not closed, on the authority or on
\* one above it.
Affected(a) ==
    \E t \in Transitions :
        /\ Open(t)
        /\ transition[t].mode = "emergency"
        /\ a \in Hierarchy(transition[t].source)

\* Mutant of CanIssue: an unresolved compromise is not looked at.
CanIssueAffected(a, kind) ==
    /\ ~authority[a].archived
    /\ authority[a].kind = kind
    /\ authority[a].state = "enabled"
    /\ KeyAvailable(a)
    /\ ~authority[a].pendingTakeover
    /\ a \notin expired

\* Mutant of CanIssue: an unconfirmed takeover is not looked at.
CanIssueUnconfirmed(a, kind) ==
    /\ ~authority[a].archived
    /\ authority[a].kind = kind
    /\ authority[a].state = "enabled"
    /\ KeyAvailable(a)
    /\ ~Affected(a)
    /\ a \notin expired

\* Authority.CanIssue.  No caller sets IssuerContext.TakeoverConfirmed.
CanIssue(a, kind) ==
    /\ ~authority[a].archived
    /\ authority[a].kind = kind
    /\ authority[a].state = "enabled"
    /\ KeyAvailable(a)
    /\ ~Affected(a)
    /\ ~authority[a].pendingTakeover
    /\ a \notin expired

\* verifyCASigningKeyLive.  Its comparisons of the certificate, the generation
\* and the key material cannot fail: an authority has one of each.
SigningKeyLive(a) == ~authority[a].destroyed

\* caSigningSecret
SigningSecret(a) == SigningKeyLive(a) /\ a \in secrets

\* Authority.CanSignCRL
CanSignCRL(a) == ~authority[a].archived /\ KeyAvailable(a) /\ a \notin expired

\* ListCertificatesByIssuer, less the authority's own certificate.
Dependents(a) ==
    {l \in Leaves : leaf[l].issuer = a} \cup Descendants(a)

\* The dependents that were signed here, not imported.
Signed(a) ==
    {l \in Leaves : leaf[l].issuer = a /\ leaf[l].origin = "issued"}
        \cup {b \in Descendants(a) : authority[b].origin = "generated"}

\* isHistoryOnlyCA
HistoryOnly(a) ==
    /\ ~KeyAvailable(a)
    /\ ~authority[a].destroyed
    /\ authority[a].origin = "imported"

\* authorityClosureFacts
AllDependentCertificatesExpired(a) == Dependents(a) \subseteq expired

RequiredCRLsPublished(a) ==
    \/ HistoryOnly(a)
    \/ Dependents(a) = {}
    \/ crl[a].published = "current"

\* ReplayStoredResult of authority.create: the key already has a result.
Replays(i) == \E a \in Authorities : Exists(a) /\ authority[a].request = i

-----------------------------------------------------------------------------
(* What the code writes.                                                   *)

\* SaveAuthority: the version of each authority of S moves on.
SaveAuthorities(S) ==
    calls' = [c \in Callers |->
                IF calls[c].pc = "attach" /\ calls[c].authority \in S
                THEN [calls[c] EXCEPT !.current = FALSE] ELSE calls[c]]

\* applyRevocations for issuer a: a published CRL no longer covers it all.
Uncovered(a) ==
    IF crl[a].published = "none" THEN crl
    ELSE [crl EXCEPT ![a].published = "stale"]

Start(c, pc, a, i) ==
    calls' = [calls EXCEPT ![c] = [pc |-> pc, authority |-> a, request |-> i,
                                   current |-> TRUE]]

Finish(c) == calls' = [calls EXCEPT ![c] = IdleCall]

Init ==
    /\ keyFlag \in {"derived", "recorded"}
    /\ authority = [a \in Authorities |-> NoAuthority]
    /\ secrets = {}
    /\ leaf = [l \in Leaves |-> NoLeaf]
    /\ expired = {}
    /\ revoked = {}
    /\ crl = [a \in Authorities |-> NewCRL]
    /\ transition = [t \in Transitions |-> NoTransition]
    /\ calls = [c \in Callers |-> IdleCall]
    /\ changes = 0

-----------------------------------------------------------------------------
(* AuthorityService.Create                                                 *)

\* prepareCreate, after replayCreateBeforePreparation found no result: the new
\* certificate is signed with the parent's key, or is self-signed (p = None).
PrepareCreate(c, i, p) ==
    /\ calls[c].pc = "idle"
    /\ ~Replays(i)
    /\ p # None => Exists(p) /\ SigningSecret(p) /\ CanIssue(p, "root")
    /\ Start(c, "create", p, i)
    /\ UNCHANGED <<keyFlag, authority, secrets, leaf, expired, revoked, crl,
                   transition>>

\* Mutant of CreateReplays: commitCreate does not look for a stored result.
CreateReplaysNever(c) == FALSE

CreateReplays(c) == Replays(calls[c].request)

\* commitCreate: another request with this key came first, or the parent may
\* no longer sign (EndCall), or the authority and its key are stored.
CommitCreate(c, a) ==
    LET p == calls[c].authority IN
    /\ calls[c].pc = "create"
    /\ ~CreateReplays(c)
    /\ p # None => CanIssue(p, "root") /\ SigningKeyLive(p)
    /\ ~Exists(a)
    /\ authority' = [authority EXCEPT ![a] =
            [NoAuthority EXCEPT !.exists = TRUE, !.parent = p, !.key = TRUE,
                !.kind = IF p = None THEN "root" ELSE "intermediate",
                !.request = calls[c].request]]
    /\ secrets' = secrets \cup {a}
    /\ Finish(c)
    /\ UNCHANGED <<keyFlag, leaf, expired, revoked, crl, transition>>

\* IssuanceService: prepareIssue and prepareRenew read the issuer and sign.
PrepareIssue(c, a) ==
    /\ calls[c].pc = "idle"
    /\ Exists(a)
    /\ SigningSecret(a)
    /\ CanIssue(a, "intermediate")
    /\ Start(c, "issue", a, None)
    /\ UNCHANGED <<keyFlag, authority, secrets, leaf, expired, revoked, crl,
                   transition>>

\* Mutant of IssuerStillValid: the commit trusts what the preparation read.
IssuerTrusted(a) == TRUE

\* The issuer is read and judged again inside the write transaction.
IssuerStillValid(a) == CanIssue(a, "intermediate") /\ SigningKeyLive(a)

\* commitIssue and commitRenew
CommitIssue(c, l) ==
    LET a == calls[c].authority IN
    /\ calls[c].pc = "issue"
    /\ IssuerStillValid(a)
    /\ leaf[l] = NoLeaf
    /\ leaf' = [leaf EXCEPT ![l] = [issuer |-> a, origin |-> "issued"]]
    /\ Finish(c)
    /\ UNCHANGED <<keyFlag, authority, secrets, expired, revoked, crl,
                   transition>>

\* A request ends without an effect: it replays a stored result, is refused by
\* a check of its commit, is canceled, or its process dies.
EndCall(c) ==
    /\ calls[c].pc # "idle"
    /\ Finish(c)
    /\ UNCHANGED <<keyFlag, authority, secrets, leaf, expired, revoked, crl,
                   transition>>

-----------------------------------------------------------------------------
(* The rest of AuthorityService                                            *)

Rename(a) ==
    /\ Exists(a)
    /\ ~authority[a].archived
    /\ SaveAuthorities({a})
    /\ UNCHANGED <<keyFlag, authority, secrets, leaf, expired, revoked, crl,
                   transition>>

\* SetIssuanceState: Enable and StopIssuance.
SetIssuanceState(a, state) ==
    /\ Exists(a)
    /\ ~authority[a].archived
    /\ state = "stopped" => authority[a].state = "enabled"
    /\ authority[a].state # state
    /\ authority' = [authority EXCEPT ![a].state = state]
    /\ SaveAuthorities({a})
    /\ UNCHANGED <<keyFlag, secrets, leaf, expired, revoked, crl, transition>>

DestroyKey(a) ==
    /\ Exists(a)
    /\ ~authority[a].destroyed
    /\ KeyAvailable(a)
    /\ authority[a].state # "enabled"
    /\ AllDependentCertificatesExpired(a)
    /\ RequiredCRLsPublished(a)
    /\ authority' = [authority EXCEPT ![a].destroyed = TRUE, ![a].key = FALSE]
    /\ secrets' = secrets \ {a}
    /\ SaveAuthorities({a})
    /\ UNCHANGED <<keyFlag, leaf, expired, revoked, crl, transition>>

Archive(a) ==
    /\ Exists(a)
    /\ ~authority[a].archived
    /\ authority[a].state # "enabled"
    /\ AllDependentCertificatesExpired(a)
    /\ RequiredCRLsPublished(a)
    /\ authority' = [authority EXCEPT ![a].archived = TRUE]
    /\ SaveAuthorities({a})
    /\ UNCHANGED <<keyFlag, secrets, leaf, expired, revoked, crl, transition>>

-----------------------------------------------------------------------------
(* Imported authorities                                                    *)

\* insertImportedAuthority, insertPendingTakeover: an authority that was run
\* elsewhere, with or without its key, and with or without a takeover to be
\* confirmed.  It does not issue until it is enabled.
ImportAuthority(a, p, withKey, takenOver) ==
    /\ ~Exists(a)
    /\ p # None => Exists(p) /\ authority[p].kind = "root"
    /\ authority' = [authority EXCEPT ![a] =
            [NoAuthority EXCEPT !.exists = TRUE, !.parent = p, !.key = withKey,
                !.kind = IF p = None THEN "root" ELSE "intermediate",
                !.state = "stopped", !.origin = "imported",
                !.pendingTakeover = takenOver]]
    /\ secrets' = IF withKey THEN secrets \cup {a} ELSE secrets
    /\ UNCHANGED <<keyFlag, leaf, expired, revoked, crl, transition, calls>>

\* insertImportedLeaf.  The issuer may be stopped, destroyed or archived.
ImportLeaf(l, a) ==
    /\ leaf[l] = NoLeaf
    /\ Exists(a)
    /\ authority[a].kind = "intermediate"
    /\ leaf' = [leaf EXCEPT ![l] = [issuer |-> a, origin |-> "imported"]]
    /\ UNCHANGED <<keyFlag, authority, secrets, expired, revoked, crl,
                   transition, calls>>

\* What AttachSigningKey checks before it decrypts the uploaded key, and again
\* in the write transaction.  Its check for a compromised key is left out: no
\* service marks a CA key compromised yet.
Attachable(a) ==
    /\ ~KeyAvailable(a)
    /\ ~authority[a].destroyed
    /\ a \notin secrets

PrepareAttach(c, a) ==
    /\ calls[c].pc = "idle"
    /\ Exists(a)
    /\ Attachable(a)
    /\ Start(c, "attach", a, None)
    /\ UNCHANGED <<keyFlag, authority, secrets, leaf, expired, revoked, crl,
                   transition>>

\* Mutant of AttachAllowed: the commit trusts what the preparation read.
AttachTrusted(c) == TRUE

AttachAllowed(c) ==
    LET a == calls[c].authority IN
    /\ calls[c].current
    /\ Attachable(a)
    /\ ~authority[a].archived

CommitAttach(c) ==
    LET a == calls[c].authority IN
    /\ calls[c].pc = "attach"
    /\ AttachAllowed(c)
    /\ authority' = [authority EXCEPT ![a].key = TRUE]
    /\ secrets' = secrets \cup {a}
    /\ calls' = [d \in Callers |->
                    IF d = c THEN IdleCall
                    ELSE IF calls[d].pc = "attach" /\ calls[d].authority = a
                    THEN [calls[d] EXCEPT !.current = FALSE] ELSE calls[d]]
    /\ UNCHANGED <<keyFlag, leaf, expired, revoked, crl, transition>>

ConfirmTakeover(a) ==
    /\ Exists(a)
    /\ authority[a].pendingTakeover
    /\ authority' = [authority EXCEPT ![a].pendingTakeover = FALSE]
    /\ SaveAuthorities({a})
    /\ UNCHANGED <<keyFlag, secrets, leaf, expired, revoked, crl, transition>>

-----------------------------------------------------------------------------
(* Certificates under an authority                                         *)

\* A revocation is recorded for a certificate the authority issued.
Revoke(a) ==
    /\ Dependents(a) # {}
    /\ crl' = Uncovered(a)
    /\ UNCHANGED <<keyFlag, authority, secrets, leaf, expired, revoked,
                   transition, calls>>

\* CRLService.Publish, of which CRLPublication models the steps.
PublishCRL(a) ==
    /\ Exists(a)
    /\ CanSignCRL(a)
    /\ SigningSecret(a)
    /\ ~crl[a].closed
    /\ crl' = [crl EXCEPT ![a].published = "current"]
    /\ UNCHANGED <<keyFlag, authority, secrets, leaf, expired, revoked,
                   transition, calls>>

\* CRLState.Close.  No service calls it yet; it is the one way a publication
\* can end, and TransitionService.Close waits for it.
ClosePublication(a) ==
    /\ Exists(a)
    /\ ~crl[a].closed
    /\ AllDependentCertificatesExpired(a)
    /\ crl[a].published # "none"
    /\ crl' = [crl EXCEPT ![a].closed = TRUE]
    /\ UNCHANGED <<keyFlag, authority, secrets, leaf, expired, revoked,
                   transition, calls>>

\* The clock passes not_after of an authority or of a leaf.
ExpireAuthority(a) ==
    /\ Exists(a)
    /\ a \notin expired
    /\ Signed(a) \subseteq expired
    /\ expired' = expired \cup {a}
    /\ UNCHANGED <<keyFlag, authority, secrets, leaf, revoked, crl, transition,
                   calls>>

ExpireLeaf(l) ==
    /\ leaf[l] # NoLeaf
    /\ l \notin expired
    /\ expired' = expired \cup {l}
    /\ UNCHANGED <<keyFlag, authority, secrets, leaf, revoked, crl, transition,
                   calls>>

-----------------------------------------------------------------------------
(* TransitionService                                                       *)

\* stopIssuanceIfEnabled for each authority of S.
Stoppable(S) ==
    {a \in S : ~authority[a].archived /\ authority[a].state = "enabled"}

Stopped(S) ==
    [a \in Authorities |->
        IF a \in Stoppable(S) THEN [authority[a] EXCEPT !.state = "stopped"]
        ELSE authority[a]]

\* collectLeafCertificateIDs for the source and each of its descendants.
\* Every leaf certificate, an imported one too, has a series.
CollectLeafCertificateIDs(a) == {l \in Leaves : leaf[l].issuer \in Hierarchy(a)}

NewTransition(a, targeted, mode, impacts) ==
    [state |-> "in_progress", source |-> a, targeted |-> targeted, mode |-> mode,
     impacts |-> impacts, confirmed |-> FALSE]

\* Create in normal mode stops the source.
CreateNormal(t, a, targeted) ==
    /\ transition[t] = NoTransition
    /\ Exists(a)
    /\ authority' = Stopped({a})
    /\ SaveAuthorities(Stoppable({a}))
    /\ transition' = [transition EXCEPT ![t] =
                        NewTransition(a, targeted, "normal", {})]
    /\ UNCHANGED <<keyFlag, secrets, leaf, expired, revoked, crl>>

\* revokeUnderParent: the source's own certificate is revoked by its parent.
\* A row that is there already changes only if it did not need review yet.
RevokeUnderParent(a) ==
    IF authority[a].kind = "root" THEN UNCHANGED <<revoked, crl>>
    ELSE /\ revoked' = revoked \cup {a}
         /\ \/ crl' = Uncovered(authority[a].parent)
            \/ a \in revoked /\ UNCHANGED crl

\* Create in emergency mode: emergencyBlockAndImpact, recordImpacts,
\* revokeUnderParent.
CreateEmergency(t, a, targeted) ==
    /\ transition[t] = NoTransition
    /\ Exists(a)
    /\ authority' = Stopped(Hierarchy(a))
    /\ SaveAuthorities(Stoppable(Hierarchy(a)))
    /\ RevokeUnderParent(a)
    /\ transition' = [transition EXCEPT ![t] =
            NewTransition(a, targeted, "emergency", CollectLeafCertificateIDs(a))]
    /\ UNCHANGED <<keyFlag, secrets, leaf, expired>>

\* Any stored authority will do as a target, the source too, and nothing reads
\* which one it is.
SetTarget(t) ==
    /\ transition[t].state = "in_progress"
    /\ transition' = [transition EXCEPT ![t].targeted = TRUE]
    /\ UNCHANGED <<keyFlag, authority, secrets, leaf, expired, revoked, crl,
                   calls>>

ConfirmDeployment(t) ==
    /\ transition[t].state = "in_progress"
    /\ transition' = [transition EXCEPT ![t].confirmed = TRUE]
    /\ UNCHANGED <<keyFlag, authority, secrets, leaf, expired, revoked, crl,
                   calls>>

\* gatherClosureFacts.  No code links a replacement to an impact, so an impact
\* is addressed when its certificate has expired.
AllImpactsAddressed(t) == transition[t].impacts \subseteq expired

Complete(t) ==
    /\ transition[t].state = "in_progress"
    /\ transition[t].targeted
    /\ AllImpactsAddressed(t)
    /\ transition[t].confirmed
    /\ transition' = [transition EXCEPT ![t].state = "externally_completed"]
    /\ UNCHANGED <<keyFlag, authority, secrets, leaf, expired, revoked, crl,
                   calls>>

Close(t) ==
    /\ transition[t].state = "externally_completed"
    /\ crl[transition[t].source].closed
    /\ transition' = [transition EXCEPT ![t].state = "closed"]
    /\ UNCHANGED <<keyFlag, authority, secrets, leaf, expired, revoked, crl,
                   calls>>

-----------------------------------------------------------------------------

CallStep(c) ==
    \/ \E i \in RequestIDs, p \in Authorities \cup {None} : PrepareCreate(c, i, p)
    \/ \E a \in Authorities :
        CommitCreate(c, a) \/ PrepareIssue(c, a) \/ PrepareAttach(c, a)
    \/ \E l \in Leaves : CommitIssue(c, l)
    \/ CommitAttach(c)
    \/ EndCall(c)

AuthorityStep(a) ==
    \/ Rename(a)
    \/ \E state \in {"enabled", "stopped"} : SetIssuanceState(a, state)
    \/ DestroyKey(a)
    \/ Archive(a)
    \/ \E p \in Authorities \cup {None}, withKey, takenOver \in BOOLEAN :
            ImportAuthority(a, p, withKey, takenOver)
    \/ \E l \in Leaves : ImportLeaf(l, a)
    \/ ConfirmTakeover(a)
    \/ Revoke(a)
    \/ PublishCRL(a)
    \/ ClosePublication(a)
    \/ \E t \in Transitions, targeted \in BOOLEAN :
        CreateNormal(t, a, targeted) \/ CreateEmergency(t, a, targeted)

TransitionStep(t) ==
    \/ SetTarget(t)
    \/ ConfirmDeployment(t)
    \/ Complete(t)
    \/ Close(t)

Expiry ==
    \/ \E a \in Authorities : ExpireAuthority(a)
    \/ \E l \in Leaves : ExpireLeaf(l)

Change ==
    /\ changes < MaxChanges
    /\ changes' = changes + 1
    /\ \E a \in Authorities : AuthorityStep(a)

Progress ==
    /\ \/ \E c \in Callers : CallStep(c)
       \/ \E t \in Transitions : TransitionStep(t)
       \/ Expiry
    /\ UNCHANGED changes

Next == Change \/ Progress

Spec == Init /\ [][Next]_vars

-----------------------------------------------------------------------------
(* Properties                                                              *)

\* The rows have the shapes the schema and the domain constructors give them,
\* and an intermediate authority has a root above it.
TypeOK ==
    /\ keyFlag \in {"derived", "recorded"}
    /\ authority \in [Authorities -> AuthorityRows]
    /\ secrets \subseteq Authorities
    /\ leaf \in [Leaves -> LeafRows]
    /\ expired \subseteq Authorities \cup Leaves
    /\ revoked \subseteq Authorities
    /\ crl \in [Authorities -> CRLRows]
    /\ transition \in [Transitions -> TransitionRows]
    /\ calls \in [Callers -> CallRows]
    /\ changes \in 0..MaxChanges
    /\ \A a \in Authorities :
        /\ authority[a].kind = "root" => authority[a].parent = None
        /\ authority[a].kind = "intermediate" =>
            /\ authority[a].parent # None
            /\ authority[authority[a].parent].kind = "root"
            /\ authority[authority[a].parent].exists

\* An emergency that is not closed has on its impact list every certificate
\* issued here, below its source, that is still valid, and the certificate of a
\* compromised intermediate is revoked: no issuance that was being prepared
\* when the emergency was reported, and none after an administrator enables the
\* stopped authorities again, adds one that TransitionService does not track.
EmergencyContained ==
    \A t \in Transitions :
        LET source == transition[t].source IN
        Open(t) /\ transition[t].mode = "emergency" =>
            /\ \A l \in Leaves :
                leaf[l].origin = "issued" /\ leaf[l].issuer \in Hierarchy(source)
                    => l \in transition[t].impacts \cup expired
            /\ authority[source].kind = "intermediate" => source \in revoked

\* An authority whose key is destroyed, or that is archived, has issued nothing
\* that is still valid, so nothing it could ever have to revoke: DestroyKey and
\* Archive look at what is stored, not at what is being signed meanwhile.
NothingOutlivesItsKey ==
    \A a \in Authorities :
        authority[a].destroyed \/ authority[a].archived =>
            Signed(a) \subseteq expired

\* Nothing was ever issued under an authority whose signing key this
\* installation never held, or whose takeover is still to be confirmed.
IssuedUnderControl ==
    \A a \in Authorities :
        Signed(a) # {} =>
            /\ a \in secrets \/ authority[a].destroyed
            /\ ~authority[a].pendingTakeover

\* A destroyed signing key is gone and no upload that was under way brings it
\* back: the store holds a key exactly while KeyAvailable was last set.
DestroyedKeyStaysGone ==
    \A a \in Authorities :
        /\ authority[a].destroyed => a \notin secrets /\ ~authority[a].key
        /\ a \in secrets <=> authority[a].key

\* Requests with one idempotency key create one authority, however they race.
OneAuthorityPerRequest ==
    \A a, b \in Authorities :
        /\ authority[a].request # None
        /\ authority[a].request = authority[b].request
        => a = b

=============================================================================
