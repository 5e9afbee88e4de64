------------------------------ MODULE Identity ------------------------------
(***************************************************************************)
(* The administrator account, its sessions and reset links, the throttle   *)
(* on unauthenticated attempts, setup and the settings row:                *)
(*   internal/app/service/identity.go, preauth.go, auth.go, setup.go,      *)
(*   internal/app/service/settings_service.go,                             *)
(*   internal/domain/identity.go,                                          *)
(*   internal/storage/sqlstore/identity                                    *)
(*                                                                         *)
(* Password hashing and the merge of a settings patch run outside the      *)
(* transaction that uses their result: a call reads, works, and commits in *)
(* a world that may have moved.  SetupService.CreateAdmin is the only      *)
(* writer of new accounts, so there is at most one account.                *)
(*                                                                         *)
(* A password hash is the number of resets completed before it was made:   *)
(* every hash has its own salt.  The clock does not go back here.          *)
(***************************************************************************)
EXTENDS Naturals, FiniteSets

CONSTANTS
    Callers,           \* concurrent calls of the services
    Sessions,          \* ids of sessions rows
    Tokens,            \* ids of password_reset_tokens rows
    Names,             \* login names tried
    AdminName,         \* the login name CreateAdmin stores
    IPs,               \* client addresses
    None,              \* no id
    Threshold,         \* PreAuthFailureThreshold
    WindowWidth,       \* PreAuthFailureWindow
    IdleTimeout,       \* SessionIdleTimeout
    AbsoluteLifetime,  \* DefaultSessionPolicy
    LinkValidity,      \* DefaultResetPolicy
    MaxTime,           \* bound on the clock
    MaxSettings        \* bound on the settings version

ASSUME IdentityConstants ==
    /\ None \notin Callers \cup Sessions \cup Tokens
    /\ AdminName \in Names
    /\ {Threshold, WindowWidth, IdleTimeout, AbsoluteLifetime, LinkValidity}
          \subseteq Nat \ {0}
    /\ MaxTime \in Nat
    /\ MaxSettings \in Nat \ {0}

VARIABLES
    installation,  \* setup_stage and first_admin_id
    account,       \* the accounts row
    session,       \* sessions, by id
    token,         \* password_reset_tokens, by id
    limits,        \* auth_rate_limits: failure_count by subject and window
    settings,      \* service_settings: version, and the patches it contains
    call,          \* what each call carries from its reads to its commit
    answered,      \* history: rejections answered, by subject and window
    now

rows == <<installation, account, session, token, limits, settings>>
vars == <<rows, call, answered, now>>

NoAccount == [id |-> None, state |-> "absent", epoch |-> 0, hash |-> 0, version |-> 0]

NoSession == [status |-> "none", epoch |-> 0, hash |-> 0, seen |-> 0, until |-> 0]

\* The id stays taken; nothing else is left of the row.
DeletedSession == [NoSession EXCEPT !.status = "deleted"]

NoToken == [status |-> "none", epoch |-> 0, until |-> 0]

Subjects ==
    ({"login_account"} \X Names) \cup ({"login_ip", "reset_ip"} \X IPs)
        \cup {<<"reset_account", AdminName>>}

\* currentWindowStart, as the number of the window.
WindowOf(t) == t \div WindowWidth

Windows == 0 .. WindowOf(MaxTime)

NoCall ==
    [pc |-> "idle", subjects |-> {}, id |-> None, version |-> 0, hash |-> 0,
     ok |-> FALSE, base |-> {}]

Pcs == {"idle", "admin", "login", "reset", "request", "settings"}

-----------------------------------------------------------------------------
(* The throttle.                                                           *)

LoginSubjects(name, ip) == {<<"login_account", name>>, <<"login_ip", ip>>}

\* resetSubjects, or resetIPOnlySubject when no row has the token's hash.
ResetSubjects(known, ip) ==
    IF known THEN {<<"reset_account", AdminName>>, <<"reset_ip", ip>>}
    ELSE {<<"reset_ip", ip>>}

\* requirePreAuthAdmission.  blocked_until is the end of the window whose count
\* reached the threshold, so it never refuses more than the count does.
Admitted(subjects) ==
    \A s \in subjects : limits[s][WindowOf(now)] < Threshold

\* Mutant of AdmittedAtCommit: the re-check inside the transaction is dropped.
AdmittedBefore(r) == TRUE

\* The authoritative re-check inside the write transaction.
AdmittedAtCommit(r) == Admitted(call[r].subjects)

Counted(counts, subjects, w) ==
    [s \in Subjects |->
        IF s \in subjects THEN [counts[s] EXCEPT ![w] = @ + 1] ELSE counts[s]]

\* recordPreAuthFailure reads the clock again; the rejection is answered after
\* the counters are committed.
RecordFailure(r, t) ==
    /\ limits' = Counted(limits, call[r].subjects, WindowOf(t))
    /\ answered' = Counted(answered, call[r].subjects, WindowOf(t))

-----------------------------------------------------------------------------
(* Account, SessionState and AdminResetToken.                              *)

AccountExists == account.id # None

\* ValidateAt with the account of the session.
ValidateAt(s) ==
    /\ session[s].status = "open"
    /\ account.state = "active"
    /\ session[s].epoch = account.epoch
    /\ now < session[s].seen + IdleTimeout
    /\ now < session[s].until

\* Account.BeginReset.
BeginResetOutcome ==
    [id |-> account.id, state |-> "reset_pending", epoch |-> account.epoch + 1,
     hash |-> account.hash, version |-> account.version + 1]

\* Account.CompleteReset.
CompleteResetOutcome ==
    [id |-> account.id, state |-> "active", epoch |-> account.epoch + 1,
     hash |-> account.hash + 1, version |-> account.version + 1]

\* CanConsume.
CanConsume(t) ==
    /\ token[t].status = "live"
    /\ now < token[t].until
    /\ token[t].epoch = account.epoch
    /\ account.state = "reset_pending"

DeleteAllSessions ==
    session' = [s \in Sessions |->
        IF session[s].status = "open" THEN DeletedSession ELSE session[s]]

\* InvalidateResetTokens: the rows that are neither consumed nor invalidated.
Invalidated(tokens) ==
    [t \in Tokens |->
        IF tokens[t].status = "live" THEN [tokens[t] EXCEPT !.status = "invalidated"]
        ELSE tokens[t]]

-----------------------------------------------------------------------------
(* Calls.                                                                  *)

Idle(r) == call[r].pc = "idle"

Ends(r) == call' = [call EXCEPT ![r] = NoCall]

\* A call ends without a write: cancelled, refused by a check, out of a failed
\* read or a rolled back transaction, or with the process.
CallEnds(r) ==
    /\ ~ Idle(r)
    /\ Ends(r)
    /\ UNCHANGED <<rows, answered, now>>

\* The admission check before the hash refuses; that is not counted.
AttemptRefused(r, subjects) ==
    /\ Idle(r)
    /\ ~ Admitted(subjects)
    /\ UNCHANGED vars

\* CreateAdmin hashes the password of the new account.
CreateAdminPrepare(r) ==
    /\ Idle(r)
    /\ call' = [call EXCEPT ![r] = [NoCall EXCEPT !.pc = "admin"]]
    /\ UNCHANGED <<rows, answered, now>>

AdminRequired ==
    /\ installation.stage = "account_required"
    /\ installation.firstAdmin = None

CreateAdminCommit(r) ==
    /\ call[r].pc = "admin"
    /\ AdminRequired
    /\ account' = [NoAccount EXCEPT !.id = r, !.state = "active"]
    /\ installation' = [stage |-> "pki_required", firstAdmin |-> r]
    /\ Ends(r)
    /\ UNCHANGED <<session, token, limits, settings, answered, now>>

\* Login up to the verification: admission, the account row, the password.
\* An unknown name is verified against a dummy hash, which never matches.
LoginPrepare(r, name, ip) ==
    LET found == AccountExists /\ name = AdminName
    IN /\ Idle(r)
       /\ Admitted(LoginSubjects(name, ip))
       /\ \E verified \in BOOLEAN :
            /\ verified => found
            /\ call' = [call EXCEPT ![r] =
                  [pc |-> "login", subjects |-> LoginSubjects(name, ip),
                   id |-> IF found THEN account.id ELSE None,
                   version |-> IF found THEN account.version ELSE 0,
                   hash |-> IF found THEN account.hash ELSE 0,
                   ok |-> verified, base |-> {}]]
       /\ UNCHANGED <<rows, answered, now>>

\* Mutant of CredentialsStand: the version read outside is not compared.
CredentialsVerified(r) == AccountExists /\ call[r].id = account.id /\ call[r].ok

\* The account found under the lock is the one the password was verified for.
CredentialsStand(r) ==
    /\ AccountExists
    /\ call[r].id = account.id
    /\ call[r].version = account.version
    /\ call[r].ok

\* The commit of Login that opens a session.
LoginSucceeds(r, s) ==
    /\ call[r].pc = "login"
    /\ AdmittedAtCommit(r)
    /\ CredentialsStand(r)
    /\ account.state = "active"
    /\ session[s].status = "none"
    /\ session' = [session EXCEPT ![s] =
          [status |-> "open", epoch |-> account.epoch, hash |-> call[r].hash,
           seen |-> now, until |-> now + AbsoluteLifetime]]
    /\ Ends(r)
    /\ UNCHANGED <<installation, account, token, limits, settings, answered, now>>

\* The commit of Login that counts a failure.
LoginRejected(r, t) ==
    /\ call[r].pc = "login"
    /\ AdmittedAtCommit(r)
    /\ ~ CredentialsStand(r)
    /\ t \in now .. MaxTime
    /\ RecordFailure(r, t)
    /\ now' = t
    /\ Ends(r)
    /\ UNCHANGED <<installation, account, session, token, settings>>

\* Authenticate: validate the session and extend it, in one transaction.
Authenticate(r, s) ==
    /\ Idle(r)
    /\ ValidateAt(s)
    /\ session' = [session EXCEPT ![s].seen = now]
    /\ call' = [call EXCEPT ![r] =
          [NoCall EXCEPT !.pc = "request", !.id = s, !.version = account.epoch]]
    /\ UNCHANGED <<installation, account, token, limits, settings, answered, now>>

\* requireCurrentAuth, under the locks of the transaction that writes.
RequireCurrentAuth(r) ==
    /\ account.epoch = call[r].version
    /\ call[r].id \in Sessions
    /\ ValidateAt(call[r].id)

Logout(r) ==
    /\ call[r].pc = "request"
    /\ RequireCurrentAuth(r)
    /\ session' = [session EXCEPT ![call[r].id] = DeletedSession]
    /\ Ends(r)
    /\ UNCHANGED <<installation, account, token, limits, settings, answered, now>>

-----------------------------------------------------------------------------
(* Password reset.                                                         *)

\* BeginReset, a local operation in one transaction.
BeginReset(t) ==
    /\ AccountExists
    /\ token[t].status = "none"
    /\ account' = BeginResetOutcome
    /\ DeleteAllSessions
    /\ token' = [Invalidated(token) EXCEPT ![t] =
          [status |-> "live", epoch |-> account.epoch + 1, until |-> now + LinkValidity]]
    /\ UNCHANGED <<installation, limits, settings, call, answered, now>>

\* CompleteReset up to the new hash: resolveResetSubjects and the admission.
CompleteResetPrepare(r, t, ip) ==
    LET known == token[t].status # "none"
    IN /\ Idle(r)
       /\ Admitted(ResetSubjects(known, ip))
       /\ call' = [call EXCEPT ![r] =
             [NoCall EXCEPT !.pc = "reset", !.id = t, !.ok = known,
                            !.subjects = ResetSubjects(known, ip)]]
       /\ UNCHANGED <<rows, answered, now>>

\* The row the token names was known at the start and can be consumed now.
ResetStands(r) == call[r].ok /\ CanConsume(call[r].id)

CompleteResetCommit(r) ==
    /\ call[r].pc = "reset"
    /\ AdmittedAtCommit(r)
    /\ ResetStands(r)
    /\ account' = CompleteResetOutcome
    /\ DeleteAllSessions
    /\ token' = Invalidated([token EXCEPT ![call[r].id].status = "consumed"])
    /\ Ends(r)
    /\ UNCHANGED <<installation, limits, settings, answered, now>>

\* rejectReset and rejectResetWithCause.
CompleteResetRejected(r, t) ==
    /\ call[r].pc = "reset"
    /\ AdmittedAtCommit(r)
    /\ ~ ResetStands(r)
    /\ t \in now .. MaxTime
    /\ RecordFailure(r, t)
    /\ now' = t
    /\ Ends(r)
    /\ UNCHANGED <<installation, account, session, token, settings>>

\* invalidateAllAdminSessions, when a restored database is finalised.  The epoch
\* and the version stay.
InvalidateAllAdminSessions ==
    /\ installation.firstAdmin # None
    /\ DeleteAllSessions
    /\ token' = Invalidated(token)
    /\ UNCHANGED <<installation, account, limits, settings, call, answered, now>>

-----------------------------------------------------------------------------
(* Setup and settings.                                                     *)

\* Complete; once complete it changes nothing.
SetupComplete(r) ==
    /\ call[r].pc = "request"
    /\ RequireCurrentAuth(r)
    /\ installation.stage = "pki_required"
    /\ installation' = [installation EXCEPT !.stage = "complete"]
    /\ Ends(r)
    /\ UNCHANGED <<account, session, token, limits, settings, answered, now>>

\* Update up to the encoded snapshot.  The caller names the version it has seen
\* (an older one is only refused at the commit, which CallEnds covers);
\* prepareUpdate merges the patch over the row as it is, without its version.
SettingsPrepare(r) ==
    /\ call[r].pc = "request"
    /\ call' = [call EXCEPT ![r] =
          [@ EXCEPT !.pc = "settings", !.hash = settings.version,
                    !.base = settings.patches \cup {settings.version + 1}]]
    /\ UNCHANGED <<rows, answered, now>>

\* Mutant of SettingsStand: the version the caller names is not compared.
SettingsStandAlways(r) == TRUE

SettingsStand(r) == settings.version = call[r].hash

\* The commit of Update.
SettingsCommit(r) ==
    /\ call[r].pc = "settings"
    /\ RequireCurrentAuth(r)
    /\ SettingsStand(r)
    /\ settings.version < MaxSettings
    /\ settings' = [version |-> settings.version + 1, patches |-> call[r].base]
    /\ Ends(r)
    /\ UNCHANGED <<installation, account, session, token, limits, answered, now>>

-----------------------------------------------------------------------------

Tick ==
    /\ now < MaxTime
    /\ now' = now + 1
    /\ UNCHANGED <<rows, call, answered>>

Zero == [s \in Subjects |-> [w \in Windows |-> 0]]

\* The installation row and the settings row exist before the first request.
Init ==
    /\ installation = [stage |-> "account_required", firstAdmin |-> None]
    /\ account = NoAccount
    /\ session = [s \in Sessions |-> NoSession]
    /\ token = [t \in Tokens |-> NoToken]
    /\ limits = Zero
    /\ settings = [version |-> 1, patches |-> {}]
    /\ call = [r \in Callers |-> NoCall]
    /\ answered = Zero
    /\ now = 0

Next ==
    \/ \E r \in Callers :
        \/ CallEnds(r)
        \/ CreateAdminPrepare(r)
        \/ CreateAdminCommit(r)
        \/ Logout(r)
        \/ CompleteResetCommit(r)
        \/ SetupComplete(r)
        \/ SettingsPrepare(r)
        \/ SettingsCommit(r)
        \/ \E s \in Sessions : LoginSucceeds(r, s) \/ Authenticate(r, s)
        \/ \E ip \in IPs, name \in Names :
              LoginPrepare(r, name, ip) \/ AttemptRefused(r, LoginSubjects(name, ip))
        \/ \E ip \in IPs, t \in Tokens :
              \/ CompleteResetPrepare(r, t, ip)
              \/ AttemptRefused(r, ResetSubjects(token[t].status # "none", ip))
        \/ \E t \in 0 .. MaxTime : LoginRejected(r, t) \/ CompleteResetRejected(r, t)
    \/ \E t \in Tokens : BeginReset(t)
    \/ InvalidateAllAdminSessions
    \/ Tick

Spec == Init /\ [][Next]_vars

-----------------------------------------------------------------------------
(* Properties.                                                             *)

CallRows ==
    [pc : Pcs, subjects : SUBSET Subjects,
     id : Callers \cup Sessions \cup Tokens \cup {None},
     version : Nat, hash : Nat, ok : BOOLEAN, base : SUBSET Nat]

AccountRows ==
    [id : Callers \cup {None}, state : {"absent", "active", "reset_pending"},
     epoch : Nat, hash : Nat, version : Nat]

SessionRows ==
    [status : {"none", "open", "deleted"}, epoch : Nat, hash : Nat, seen : Nat, until : Nat]

TokenRows ==
    [status : {"none", "live", "consumed", "invalidated"}, epoch : Nat, until : Nat]

Counters == [Subjects -> [Windows -> Nat]]

RowTypes ==
    /\ installation \in
          [stage : {"account_required", "pki_required", "complete"},
           firstAdmin : Callers \cup {None}]
    /\ account \in AccountRows
    /\ session \in [Sessions -> SessionRows]
    /\ token \in [Tokens -> TokenRows]
    /\ limits \in Counters
    /\ answered \in Counters
    /\ settings \in [version : Nat, patches : SUBSET Nat]
    /\ now \in 0 .. MaxTime

CallTypes ==
    /\ call \in [Callers -> CallRows]
    /\ \A r \in Callers :
          /\ call[r].pc \in {"request", "settings"} => call[r].id \in Sessions
          /\ call[r].pc = "reset" => call[r].id \in Tokens

\* Every row has its type, and a call that carries a session or a token id
\* carries one of the right kind.
TypeOK == RowTypes /\ CallTypes

\* A sessions row exists only for an active account, in its current epoch, and
\* was opened with the password the account has now: a Login that verified the
\* old password before a reset never leaves a session behind, however its
\* commit falls between BeginReset and CompleteReset.
EverySessionCurrent ==
    \A s \in Sessions :
        session[s].status = "open" =>
            /\ account.state = "active"
            /\ session[s].epoch = account.epoch
            /\ session[s].hash = account.hash

\* At most one reset link is outstanding, and it belongs to the reset the
\* account is pending on: BeginReset, CompleteReset and a restore end the others.
OneLiveLink ==
    \A t \in Tokens :
        token[t].status = "live" =>
            /\ account.state = "reset_pending"
            /\ token[t].epoch = account.epoch
            /\ \A u \in Tokens : token[u].status = "live" => u = t

\* However many attempts pass the first admission check together, no subject is
\* answered more than PreAuthFailureThreshold rejections in one window.
AttemptsBounded ==
    \A s \in Subjects, w \in Windows : answered[s][w] <= Threshold

\* The first administrator is created once: concurrent CreateAdmin calls, whose
\* hashes were all made before the first commit, never replace the account.
FirstAdminStays ==
    [][account.id # None => account'.id = account.id]_vars

\* No committed settings patch is lost to an Update that merged its own over an
\* older snapshot.
SettingsKept == settings.patches = 2 .. settings.version

=============================================================================
