--------------------------- MODULE IdentityProofs ---------------------------
(***************************************************************************)
(* Identity, proved for every set of callers, sessions and links and every *)
(* value of the time limits.                                               *)
(***************************************************************************)
EXTENDS Identity, TLAPS

\* The account is the one the installation row names.
AdminRecorded ==
    /\ account.id = installation.firstAdmin
    /\ account.id = None => account.state = "absent"

\* What a login read is what the account is, unless its version has moved.
LoginsRead ==
    \A r \in Callers :
        call[r].pc = "login" =>
            /\ call[r].id \in {None, account.id}
            /\ call[r].id # None => call[r].version <= account.version
            /\ call[r].id # None /\ call[r].version = account.version
                  => call[r].hash = account.hash

\* What a settings update merged over is the row, unless its version has moved.
UpdatesRead ==
    \A r \in Callers :
        call[r].pc = "settings" =>
            /\ call[r].hash <= settings.version
            /\ call[r].hash = settings.version
                  => call[r].base = settings.patches \cup {settings.version + 1}

\* The facts about rows alone.
RowFacts ==
    /\ AdminRecorded
    /\ EverySessionCurrent
    /\ OneLiveLink
    /\ settings.version >= 1
    /\ SettingsKept

IdentityInv == TypeOK /\ RowFacts /\ LoginsRead /\ UpdatesRead

-----------------------------------------------------------------------------
(* Helpers of the model.                                                   *)

\* Every subject a login or a reset is counted under is a subject.
LEMMA SubjectsKnown ==
    ASSUME NEW ip \in IPs
    PROVE  /\ \A name \in Names : LoginSubjects(name, ip) \subseteq Subjects
           /\ \A known \in BOOLEAN : ResetSubjects(known, ip) \subseteq Subjects
<1>1. ASSUME NEW name \in Names PROVE LoginSubjects(name, ip) \subseteq Subjects
  <2>1. <<"login_account", name>> \in {"login_account"} \X Names
    OBVIOUS
  <2>2. <<"login_ip", ip>> \in {"login_ip", "reset_ip"} \X IPs
    OBVIOUS
  <2> QED BY <2>1, <2>2, Zenon DEF LoginSubjects, Subjects
<1>2. ASSUME NEW known \in BOOLEAN PROVE ResetSubjects(known, ip) \subseteq Subjects
  <2>1. <<"reset_ip", ip>> \in {"login_ip", "reset_ip"} \X IPs
    OBVIOUS
  <2>2. ResetSubjects(known, ip)
            \subseteq {<<"reset_account", AdminName>>, <<"reset_ip", ip>>}
    BY Zenon DEF ResetSubjects
  <2> QED BY <2>1, <2>2, Zenon DEF Subjects
<1> QED BY <1>1, <1>2

\* Counting a failure keeps the counters' type (recordPreAuthFailure).
LEMMA CountedType ==
    ASSUME NEW counts \in Counters, NEW subjects \in SUBSET Subjects, NEW w
    PROVE  Counted(counts, subjects, w) \in Counters
<1>1. ASSUME NEW f \in [Windows -> Nat]
      PROVE  [f EXCEPT ![w] = @ + 1] \in [Windows -> Nat]
  <2>1. CASE w \in Windows
    BY <2>1
  <2>2. CASE w \notin Windows
    BY <2>2
  <2> QED BY <2>1, <2>2
<1>2. \A s \in Subjects : counts[s] \in [Windows -> Nat]
  BY DEF Counters
<1> QED BY <1>1, <1>2, Zenon DEF Counted, Counters

\* The call record of a call that has ended.
LEMMA NoCallType == NoCall \in CallRows /\ NoCall.pc = "idle"
BY DEF NoCall, CallRows, Pcs

\* What BeginReset and CompleteReset make of the account.
LEMMA AccountMoves ==
    ASSUME account \in AccountRows
    PROVE  /\ BeginResetOutcome \in AccountRows
           /\ BeginResetOutcome.id = account.id
           /\ BeginResetOutcome.state = "reset_pending"
           /\ BeginResetOutcome.epoch = account.epoch + 1
           /\ BeginResetOutcome.version = account.version + 1
           /\ CompleteResetOutcome \in AccountRows
           /\ CompleteResetOutcome.id = account.id
           /\ CompleteResetOutcome.version = account.version + 1
BY DEF BeginResetOutcome, CompleteResetOutcome, AccountRows

\* Session rows with a new last_seen_at are session rows (Touch).
LEMMA Touched ==
    ASSUME NEW row \in SessionRows, NEW t \in Nat
    PROVE  /\ [row EXCEPT !.seen = t] \in SessionRows
           /\ [row EXCEPT !.seen = t].status = row.status
           /\ [row EXCEPT !.seen = t].epoch = row.epoch
           /\ [row EXCEPT !.seen = t].hash = row.hash
BY DEF SessionRows

\* DeleteAllSessions, in BeginReset, CompleteReset and a restore, leaves none open.
LEMMA AllSessionsDeleted ==
    ASSUME session \in [Sessions -> SessionRows], DeleteAllSessions
    PROVE  /\ session' \in [Sessions -> SessionRows]
           /\ \A s \in Sessions : session'[s].status # "open"
BY DEF DeleteAllSessions, DeletedSession, NoSession, SessionRows

\* InvalidateResetTokens leaves no link live.
LEMMA AllLinksInvalidated ==
    ASSUME NEW tokens \in [Tokens -> TokenRows]
    PROVE  /\ Invalidated(tokens) \in [Tokens -> TokenRows]
           /\ \A t \in Tokens : Invalidated(tokens)[t].status # "live"
BY DEF Invalidated, TokenRows

-----------------------------------------------------------------------------
(* What a step leaves alone.                                               *)

\* One call moves to the record c; the others stay.
LEMMA CallMoves ==
    ASSUME CallTypes, NEW r \in Callers, NEW c \in CallRows,
           call' = [call EXCEPT ![r] = c],
           c.pc \in {"request", "settings"} => c.id \in Sessions,
           c.pc = "reset" => c.id \in Tokens
    PROVE  /\ CallTypes'
           /\ call'[r] = c
           /\ \A q \in Callers : q # r => call'[q] = call[q]
BY DEF CallTypes

\* Steps that write no row keep what is known of rows.
LEMMA RowsKept ==
    ASSUME RowTypes, RowFacts, UNCHANGED rows
    PROVE  /\ RowFacts'
           /\ UNCHANGED <<answered, now>> => RowTypes'
BY DEF rows, RowTypes, RowFacts, AdminRecorded, EverySessionCurrent, OneLiveLink,
       SettingsKept

\* A call that becomes neither a login nor an update, while account and settings
\* stay, leaves the other calls with what they have read.
LEMMA ReadsKept ==
    ASSUME IdentityInv, NEW r \in Callers, UNCHANGED <<account, settings>>,
           \A q \in Callers : q # r => call'[q] = call[q],
           call'[r].pc \notin {"login", "settings"}
    PROVE  LoginsRead' /\ UpdatesRead'
BY DEF IdentityInv, LoginsRead, UpdatesRead

\* A call that ends.
LEMMA CallEnded ==
    ASSUME CallTypes, NEW r \in Callers, Ends(r)
    PROVE  /\ CallTypes'
           /\ call'[r].pc = "idle"
           /\ \A q \in Callers : q # r => call'[q] = call[q]
BY NoCallType, CallMoves DEF Ends

-----------------------------------------------------------------------------
(* The invariant.                                                          *)

\* Init establishes the invariant.
LEMMA InitInv == Init => IdentityInv
BY IdentityConstants, NoCallType
   DEF Init, IdentityInv, TypeOK, RowTypes, CallTypes, RowFacts, AdminRecorded,
       LoginsRead, EverySessionCurrent, OneLiveLink, UpdatesRead, SettingsKept,
       NoAccount, NoSession, NoToken, Zero, AccountRows, SessionRows, TokenRows, Counters

\* Calls that only read, or end without a write.
LEMMA ReadSteps ==
    ASSUME IdentityInv, NEW r \in Callers,
           \/ CallEnds(r)
           \/ CreateAdminPrepare(r)
           \/ SettingsPrepare(r)
           \/ \E name \in Names, ip \in IPs : LoginPrepare(r, name, ip)
           \/ \E t \in Tokens, ip \in IPs : CompleteResetPrepare(r, t, ip)
    PROVE  IdentityInv'
<1> USE IdentityConstants DEF IdentityInv, TypeOK
<1>1. CASE CallEnds(r)
  BY <1>1, CallEnded, RowsKept, ReadsKept DEF CallEnds, rows
<1>2. CASE CreateAdminPrepare(r)
  <2> DEFINE c == [NoCall EXCEPT !.pc = "admin"]
  <2>1. c \in CallRows /\ c.pc = "admin"
    BY DEF NoCall, CallRows, Pcs
  <2>2. call' = [call EXCEPT ![r] = c]
    BY <1>2 DEF CreateAdminPrepare
  <2> HIDE DEF c
  <2> QED BY <1>2, <2>1, <2>2, CallMoves, RowsKept, ReadsKept
             DEF CreateAdminPrepare, rows
<1>3. CASE SettingsPrepare(r)
  <2> DEFINE c == [call[r] EXCEPT !.pc = "settings", !.hash = settings.version,
                                  !.base = settings.patches \cup {settings.version + 1}]
  <2>1. /\ c \in CallRows
        /\ c.pc = "settings" /\ c.id \in Sessions
        /\ c.hash = settings.version
        /\ c.base = settings.patches \cup {settings.version + 1}
    <3>1. call[r] \in CallRows /\ call[r].id \in Sessions
      BY <1>3 DEF SettingsPrepare, CallTypes
    <3>2. settings.version \in Nat
          /\ settings.patches \cup {settings.version + 1} \in SUBSET Nat
      BY DEF RowTypes
    <3> QED BY <3>1, <3>2 DEF CallRows, Pcs
  <2>2. call' = [call EXCEPT ![r] = c]
    BY <1>3 DEF SettingsPrepare
  <2>3. UNCHANGED rows /\ UNCHANGED <<answered, now>>
    BY <1>3 DEF SettingsPrepare
  <2> HIDE DEF c
  <2>4. CallTypes' /\ call'[r] = c /\ \A q \in Callers : q # r => call'[q] = call[q]
    BY <2>1, <2>2, CallMoves
  <2>5. RowTypes' /\ RowFacts'
    BY <2>3, RowsKept
  <2>6. LoginsRead' /\ UpdatesRead'
    BY <2>1, <2>3, <2>4 DEF rows, LoginsRead, UpdatesRead, RowTypes
  <2> QED BY <2>4, <2>5, <2>6
<1>4. CASE \E name \in Names, ip \in IPs : LoginPrepare(r, name, ip)
  <2>1. PICK name \in Names, ip \in IPs : LoginPrepare(r, name, ip)
    BY <1>4
  <2>2. LoginSubjects(name, ip) \in SUBSET Subjects
    BY SubjectsKnown
  <2>3. PICK c \in CallRows :
           /\ call' = [call EXCEPT ![r] = c]
           /\ c.pc = "login"
           /\ \/ c.id = None
              \/ c.id = account.id /\ c.version = account.version
                                   /\ c.hash = account.hash
    <3>1. PICK verified \in BOOLEAN, found \in BOOLEAN :
             call' = [call EXCEPT ![r] =
                [pc |-> "login", subjects |-> LoginSubjects(name, ip),
                 id |-> IF found THEN account.id ELSE None,
                 version |-> IF found THEN account.version ELSE 0,
                 hash |-> IF found THEN account.hash ELSE 0,
                 ok |-> verified, base |-> {}]]
      BY <2>1, Zenon DEF LoginPrepare
    <3> DEFINE i == IF found THEN account.id ELSE None
               v == IF found THEN account.version ELSE 0
               h == IF found THEN account.hash ELSE 0
               d == [pc |-> "login", subjects |-> LoginSubjects(name, ip),
                     id |-> i, version |-> v, hash |-> h, ok |-> verified, base |-> {}]
    <3>2. /\ i \in Callers \cup {None} /\ v \in Nat /\ h \in Nat
          /\ i = None \/ (i = account.id /\ v = account.version /\ h = account.hash)
      BY DEF RowTypes, AccountRows
    <3>3. call' = [call EXCEPT ![r] = d]
      BY <3>1
    <3> HIDE DEF i, v, h
    <3>4. d \in CallRows
      BY <2>2, <3>2 DEF CallRows, Pcs
    <3>5. d.pc = "login" /\ d.id = i /\ d.version = v /\ d.hash = h
      OBVIOUS
    <3> HIDE DEF d
    <3> QED BY <3>2, <3>3, <3>4, <3>5
  <2>4. UNCHANGED rows /\ UNCHANGED <<answered, now>>
    BY <2>1 DEF LoginPrepare
  <2>5. CallTypes' /\ call'[r] = c /\ \A q \in Callers : q # r => call'[q] = call[q]
    BY <2>3, CallMoves
  <2>6. RowTypes' /\ RowFacts'
    BY <2>4, RowsKept
  <2>7. LoginsRead' /\ UpdatesRead'
    BY <2>3, <2>4, <2>5 DEF rows, LoginsRead, UpdatesRead, RowTypes, AccountRows
  <2> QED BY <2>5, <2>6, <2>7
<1>5. CASE \E t \in Tokens, ip \in IPs : CompleteResetPrepare(r, t, ip)
  <2>1. PICK t \in Tokens, ip \in IPs : CompleteResetPrepare(r, t, ip)
    BY <1>5
  <2> DEFINE known == token[t].status # "none"
  <2> DEFINE c == [NoCall EXCEPT !.pc = "reset", !.id = t, !.ok = known,
                                 !.subjects = ResetSubjects(known, ip)]
  <2>2. ResetSubjects(known, ip) \in SUBSET Subjects
    BY SubjectsKnown
  <2>3. c \in CallRows /\ c.pc = "reset" /\ c.id \in Tokens
    BY <2>2 DEF NoCall, CallRows, Pcs
  <2>4. call' = [call EXCEPT ![r] = c]
    BY <2>1 DEF CompleteResetPrepare
  <2>5. UNCHANGED rows /\ UNCHANGED <<answered, now>>
    BY <2>1 DEF CompleteResetPrepare
  <2> HIDE DEF c
  <2> QED BY <2>3, <2>4, <2>5, CallMoves, RowsKept, ReadsKept DEF rows
<1> QED BY <1>1, <1>2, <1>3, <1>4, <1>5

\* The commits of CreateAdmin, Complete and Update.
LEMMA SetupSteps ==
    ASSUME IdentityInv, NEW r \in Callers,
           CreateAdminCommit(r) \/ SetupComplete(r) \/ SettingsCommit(r)
    PROVE  IdentityInv'
<1> USE IdentityConstants DEF IdentityInv, TypeOK
<1>1. CASE CreateAdminCommit(r)
  <2>1. account.id = None /\ account.state = "absent"
    BY <1>1 DEF CreateAdminCommit, AdminRequired, RowFacts, AdminRecorded
  <2>2. CallTypes' /\ call'[r].pc = "idle" /\ \A q \in Callers : q # r => call'[q] = call[q]
    BY <1>1, CallEnded DEF CreateAdminCommit
  <2>3. RowTypes'
    BY <1>1 DEF CreateAdminCommit, NoAccount, RowTypes, AccountRows
  <2>4. RowFacts'
    BY <1>1, <2>1
       DEF CreateAdminCommit, NoAccount, RowFacts, AdminRecorded, EverySessionCurrent,
           OneLiveLink, SettingsKept
  <2>5. LoginsRead' /\ UpdatesRead'
    BY <1>1, <2>1, <2>2 DEF CreateAdminCommit, LoginsRead, UpdatesRead
  <2> QED BY <2>2, <2>3, <2>4, <2>5
<1>2. CASE SetupComplete(r)
  <2>1. CallTypes' /\ call'[r].pc = "idle" /\ \A q \in Callers : q # r => call'[q] = call[q]
    BY <1>2, CallEnded DEF SetupComplete
  <2>2. RowTypes'
    BY <1>2 DEF SetupComplete, RowTypes
  <2>3. RowFacts'
    BY <1>2 DEF SetupComplete, RowTypes, RowFacts, AdminRecorded, EverySessionCurrent,
                OneLiveLink, SettingsKept
  <2>4. LoginsRead' /\ UpdatesRead'
    BY <1>2, <2>1, ReadsKept DEF SetupComplete
  <2> QED BY <2>1, <2>2, <2>3, <2>4
<1>3. CASE SettingsCommit(r)
  <2>1. settings' = [version |-> settings.version + 1,
                     patches |-> settings.patches \cup {settings.version + 1}]
    BY <1>3 DEF SettingsCommit, SettingsStand, UpdatesRead
  <2>2. /\ settings.version \in Nat /\ settings.version >= 1
        /\ settings.patches = 2 .. settings.version
    BY DEF RowTypes, RowFacts, SettingsKept
  <2>3. CallTypes' /\ call'[r].pc = "idle" /\ \A q \in Callers : q # r => call'[q] = call[q]
    BY <1>3, CallEnded DEF SettingsCommit
  <2>4. settings' \in [version : Nat, patches : SUBSET Nat] /\ settings'.version >= 1
        /\ settings'.version = settings.version + 1
    BY <2>1, <2>2
  <2>5. SettingsKept'
    BY <2>1, <2>2 DEF SettingsKept
  <2>6. RowTypes'
    BY <1>3, <2>4 DEF SettingsCommit, RowTypes
  <2>7. RowFacts'
    BY <1>3, <2>4, <2>5
       DEF SettingsCommit, RowFacts, AdminRecorded, EverySessionCurrent, OneLiveLink
  <2>8. UpdatesRead'
    <3> SUFFICES ASSUME NEW q \in Callers, call'[q].pc = "settings"
                 PROVE  call'[q].hash <= settings.version
      BY <2>2, <2>4, <2>3 DEF UpdatesRead, CallTypes, CallRows
    <3> QED BY <2>3 DEF UpdatesRead
  <2>9. LoginsRead'
    BY <1>3, <2>3 DEF SettingsCommit, LoginsRead
  <2> QED BY <2>3, <2>6, <2>7, <2>8, <2>9
<1> QED BY <1>1, <1>2, <1>3

\* Login, Authenticate and Logout.
LEMMA SessionSteps ==
    ASSUME IdentityInv, NEW r \in Callers,
           \/ Logout(r)
           \/ \E s \in Sessions : LoginSucceeds(r, s) \/ Authenticate(r, s)
           \/ \E t \in 0 .. MaxTime : LoginRejected(r, t) \/ CompleteResetRejected(r, t)
    PROVE  IdentityInv'
<1> USE IdentityConstants DEF IdentityInv, TypeOK
<1>1. CASE Logout(r)
  <2>1. CallTypes' /\ call'[r].pc = "idle" /\ \A q \in Callers : q # r => call'[q] = call[q]
    BY <1>1, CallEnded DEF Logout
  <2>2. /\ session' \in [Sessions -> SessionRows]
        /\ \A s \in Sessions : session'[s].status = "open" => session'[s] = session[s]
    BY <1>1 DEF Logout, DeletedSession, NoSession, SessionRows, RowTypes
  <2>3. RowTypes'
    BY <1>1, <2>2 DEF Logout, RowTypes
  <2>4. RowFacts'
    BY <1>1, <2>2
       DEF Logout, RowFacts, AdminRecorded, EverySessionCurrent, OneLiveLink, SettingsKept
  <2>5. LoginsRead' /\ UpdatesRead'
    BY <1>1, <2>1, ReadsKept DEF Logout
  <2> QED BY <2>1, <2>3, <2>4, <2>5
<1>2. CASE \E s \in Sessions : LoginSucceeds(r, s)
  <2>1. PICK s \in Sessions : LoginSucceeds(r, s)
    BY <1>2
  <2>2. CallTypes' /\ call'[r].pc = "idle" /\ \A q \in Callers : q # r => call'[q] = call[q]
    BY <2>1, CallEnded DEF LoginSucceeds
  <2>3. call[r].hash = account.hash /\ account.state = "active"
    BY <2>1 DEF LoginSucceeds, CredentialsStand, AccountExists, LoginsRead
  <2>4. /\ account.epoch \in Nat /\ account.hash \in Nat
        /\ now \in Nat /\ now + AbsoluteLifetime \in Nat
    BY DEF RowTypes, AccountRows
  <2> DEFINE row == [status |-> "open", epoch |-> account.epoch, hash |-> account.hash,
                     seen |-> now, until |-> now + AbsoluteLifetime]
  <2>5. session' = [session EXCEPT ![s] = row]
    BY <2>1, <2>3 DEF LoginSucceeds
  <2>6. row \in SessionRows /\ row.epoch = account.epoch /\ row.hash = account.hash
    BY <2>4 DEF SessionRows
  <2> HIDE DEF row
  <2>7. RowTypes'
    BY <2>1, <2>5, <2>6 DEF LoginSucceeds, RowTypes
  <2>8. EverySessionCurrent'
    BY <2>1, <2>3, <2>5, <2>6
       DEF LoginSucceeds, RowTypes, RowFacts, EverySessionCurrent
  <2>9. RowFacts'
    BY <2>1, <2>8 DEF LoginSucceeds, RowFacts, AdminRecorded, OneLiveLink, SettingsKept
  <2>10. LoginsRead' /\ UpdatesRead'
    BY <2>1, <2>2, ReadsKept DEF LoginSucceeds
  <2> QED BY <2>2, <2>7, <2>9, <2>10
<1>3. CASE \E s \in Sessions : Authenticate(r, s)
  <2>1. PICK s \in Sessions : Authenticate(r, s)
    BY <1>3
  <2> DEFINE c == [NoCall EXCEPT !.pc = "request", !.id = s, !.version = account.epoch]
  <2>2. c \in CallRows /\ c.pc = "request" /\ c.id \in Sessions
    BY DEF NoCall, CallRows, Pcs, RowTypes, AccountRows
  <2>3. call' = [call EXCEPT ![r] = c]
    BY <2>1 DEF Authenticate
  <2> HIDE DEF c
  <2>4. CallTypes' /\ call'[r] = c /\ \A q \in Callers : q # r => call'[q] = call[q]
    BY <2>2, <2>3, CallMoves
  <2>5. /\ session' \in [Sessions -> SessionRows]
        /\ \A u \in Sessions : /\ session'[u].status = session[u].status
                               /\ session'[u].epoch = session[u].epoch
                               /\ session'[u].hash = session[u].hash
    <3>1. session' = [session EXCEPT ![s] = [session[s] EXCEPT !.seen = now]]
      BY <2>1 DEF Authenticate
    <3>2. now \in Nat /\ session \in [Sessions -> SessionRows]
      BY DEF RowTypes
    <3>3. session[s] \in SessionRows
      BY <3>2
    <3> QED BY <3>1, <3>2, <3>3, Touched
  <2>6. RowTypes'
    BY <2>1, <2>5 DEF Authenticate, RowTypes
  <2>7. RowFacts'
    BY <2>1, <2>5 DEF Authenticate, RowFacts, AdminRecorded, EverySessionCurrent,
                      OneLiveLink, SettingsKept
  <2>8. LoginsRead' /\ UpdatesRead'
    BY <2>1, <2>2, <2>4, ReadsKept DEF Authenticate
  <2> QED BY <2>4, <2>6, <2>7, <2>8
<1>4. CASE \E t \in 0 .. MaxTime : LoginRejected(r, t) \/ CompleteResetRejected(r, t)
  <2>1. PICK t \in 0 .. MaxTime : LoginRejected(r, t) \/ CompleteResetRejected(r, t)
    BY <1>4
  <2>2. /\ RecordFailure(r, t) /\ now' = t /\ Ends(r)
        /\ UNCHANGED <<installation, account, session, token, settings>>
    BY <2>1 DEF LoginRejected, CompleteResetRejected
  <2>3. CallTypes' /\ call'[r].pc = "idle" /\ \A q \in Callers : q # r => call'[q] = call[q]
    BY <2>2, CallEnded
  <2>4. call[r].subjects \in SUBSET Subjects
    BY DEF CallTypes, CallRows
  <2>5. limits' \in Counters /\ answered' \in Counters
    BY <2>2, <2>4, CountedType DEF RecordFailure, RowTypes
  <2>6. RowTypes'
    BY <2>2, <2>5 DEF RowTypes
  <2>7. RowFacts'
    BY <2>2 DEF RowFacts, AdminRecorded, EverySessionCurrent, OneLiveLink, SettingsKept
  <2>8. LoginsRead' /\ UpdatesRead'
    BY <2>2, <2>3, ReadsKept
  <2> QED BY <2>3, <2>6, <2>7, <2>8
<1> QED BY <1>1, <1>2, <1>3, <1>4

\* BeginReset, CompleteReset and the restore: no session and at most the new link
\* survive, and the account's version moves with its password.
LEMMA ResetSteps ==
    ASSUME IdentityInv,
           \/ \E r \in Callers : CompleteResetCommit(r)
           \/ \E t \in Tokens : BeginReset(t)
           \/ InvalidateAllAdminSessions
    PROVE  IdentityInv'
<1> USE IdentityConstants DEF IdentityInv, TypeOK
<1>1. CASE \E r \in Callers : CompleteResetCommit(r)
  <2>1. PICK r \in Callers : CompleteResetCommit(r)
    BY <1>1
  <2>2. CallTypes' /\ call'[r].pc = "idle" /\ \A q \in Callers : q # r => call'[q] = call[q]
    BY <2>1, CallEnded DEF CompleteResetCommit
  <2> DEFINE spent == [token EXCEPT ![call[r].id].status = "consumed"]
  <2>3. spent \in [Tokens -> TokenRows]
    BY <2>1 DEF CompleteResetCommit, CallTypes, RowTypes, TokenRows
  <2>4. token' = Invalidated(spent)
    BY <2>1 DEF CompleteResetCommit
  <2> HIDE DEF spent
  <2>5. /\ token' \in [Tokens -> TokenRows]
        /\ \A t \in Tokens : token'[t].status # "live"
    BY <2>3, <2>4, AllLinksInvalidated
  <2>6. /\ session' \in [Sessions -> SessionRows]
        /\ \A s \in Sessions : session'[s].status # "open"
    BY <2>1, AllSessionsDeleted DEF CompleteResetCommit, RowTypes
  <2>7. /\ account' \in AccountRows
        /\ account'.id = account.id /\ account'.version = account.version + 1
        /\ account.state = "reset_pending"
    BY <2>1, AccountMoves DEF CompleteResetCommit, ResetStands, CanConsume, RowTypes
  <2>8. RowTypes'
    BY <2>1, <2>5, <2>6, <2>7 DEF CompleteResetCommit, RowTypes
  <2>9. RowFacts'
    BY <2>1, <2>5, <2>6, <2>7
       DEF CompleteResetCommit, RowFacts, AdminRecorded, EverySessionCurrent,
           OneLiveLink, SettingsKept
  <2>10. LoginsRead'
    BY <2>2, <2>7 DEF LoginsRead, RowTypes, AccountRows, CallTypes, CallRows
  <2>11. UpdatesRead'
    BY <2>1, <2>2 DEF CompleteResetCommit, UpdatesRead
  <2> QED BY <2>2, <2>8, <2>9, <2>10, <2>11
<1>2. CASE \E t \in Tokens : BeginReset(t)
  <2>1. PICK t \in Tokens : BeginReset(t)
    BY <1>2
  <2>2. /\ session' \in [Sessions -> SessionRows]
        /\ \A s \in Sessions : session'[s].status # "open"
    BY <2>1, AllSessionsDeleted DEF BeginReset, RowTypes
  <2>3. /\ account' \in AccountRows
        /\ account'.id = account.id /\ account'.version = account.version + 1
        /\ account'.state = "reset_pending" /\ account'.epoch = account.epoch + 1
    BY <2>1, AccountMoves DEF BeginReset, RowTypes
  <2> DEFINE row == [status |-> "live", epoch |-> account.epoch + 1,
                     until |-> now + LinkValidity]
  <2>4. row \in TokenRows /\ row.epoch = account'.epoch
    BY <2>3 DEF TokenRows, RowTypes, AccountRows
  <2>5. token' = [Invalidated(token) EXCEPT ![t] = row]
    BY <2>1 DEF BeginReset
  <2> HIDE DEF row
  <2>6. /\ token' \in [Tokens -> TokenRows]
        /\ token'[t] = row
        /\ \A u \in Tokens : token'[u].status = "live" => u = t
    BY <2>4, <2>5, AllLinksInvalidated DEF RowTypes
  <2>7. RowTypes'
    BY <2>1, <2>2, <2>3, <2>6 DEF BeginReset, RowTypes
  <2>8. RowFacts'
    BY <2>1, <2>2, <2>3, <2>4, <2>6
       DEF BeginReset, AccountExists, RowFacts, AdminRecorded, EverySessionCurrent,
           OneLiveLink, SettingsKept
  <2>9. LoginsRead' /\ UpdatesRead' /\ CallTypes'
    BY <2>1, <2>3 DEF BeginReset, LoginsRead, UpdatesRead, RowTypes, AccountRows, CallTypes, CallRows
  <2> QED BY <2>7, <2>8, <2>9
<1>3. CASE InvalidateAllAdminSessions
  <2>1. /\ session' \in [Sessions -> SessionRows]
        /\ \A s \in Sessions : session'[s].status # "open"
    BY <1>3, AllSessionsDeleted DEF InvalidateAllAdminSessions, RowTypes
  <2>2. /\ token' \in [Tokens -> TokenRows]
        /\ \A t \in Tokens : token'[t].status # "live"
    BY <1>3, AllLinksInvalidated DEF InvalidateAllAdminSessions, RowTypes
  <2>3. RowTypes'
    BY <1>3, <2>1, <2>2 DEF InvalidateAllAdminSessions, RowTypes
  <2>4. RowFacts'
    BY <1>3, <2>1, <2>2
       DEF InvalidateAllAdminSessions, RowFacts, AdminRecorded, EverySessionCurrent,
           OneLiveLink, SettingsKept
  <2>5. LoginsRead' /\ UpdatesRead' /\ CallTypes'
    BY <1>3 DEF InvalidateAllAdminSessions, LoginsRead, UpdatesRead, CallTypes
  <2> QED BY <2>3, <2>4, <2>5
<1> QED BY <1>1, <1>2, <1>3

\* Time passing, and steps that change nothing.
LEMMA TickStep ==
    ASSUME IdentityInv, Tick \/ UNCHANGED vars
    PROVE  IdentityInv'
<1>1. UNCHANGED rows /\ UNCHANGED call
  BY DEF Tick, vars
<1>2. RowFacts'
  BY <1>1, RowsKept DEF IdentityInv, TypeOK
<1>3. LoginsRead' /\ UpdatesRead' /\ CallTypes'
  BY <1>1 DEF rows, IdentityInv, TypeOK, LoginsRead, UpdatesRead, CallTypes
<1>4. now' \in 0 .. MaxTime /\ UNCHANGED answered
  BY IdentityConstants DEF Tick, vars, IdentityInv, TypeOK, RowTypes
<1>5. RowTypes'
  BY <1>1, <1>4 DEF rows, IdentityInv, TypeOK, RowTypes
<1> QED BY <1>2, <1>3, <1>5 DEF IdentityInv, TypeOK

\* Every action of Next keeps the invariant.
LEMMA StepInv == IdentityInv /\ [Next]_vars => IdentityInv'
<1> SUFFICES ASSUME IdentityInv, [Next]_vars PROVE IdentityInv'
  OBVIOUS
<1>1. ASSUME NEW r \in Callers, NEW subjects, AttemptRefused(r, subjects)
      PROVE  IdentityInv'
  BY <1>1, TickStep DEF AttemptRefused
<1> QED BY <1>1, ReadSteps, SetupSteps, SessionSteps, ResetSteps, TickStep DEF Next

-----------------------------------------------------------------------------
(* Results.                                                                *)

\* The invariant holds of every behaviour.
THEOREM IdentityInvariant == Spec => []IdentityInv
BY InitInv, StepInv, PTL DEF Spec

\* The type invariant of the model.
THEOREM IdentityTypeOK == Spec => []TypeOK
<1>1. IdentityInv => TypeOK
  BY DEF IdentityInv
<1> QED BY <1>1, IdentityInvariant, PTL

\* No session outlives a reset or is opened by a password that is no longer the
\* account's, whatever the interleaving of Login, BeginReset and CompleteReset.
THEOREM SessionsAreCurrent == Spec => []EverySessionCurrent
<1>1. IdentityInv => EverySessionCurrent
  BY DEF IdentityInv, RowFacts
<1> QED BY <1>1, IdentityInvariant, PTL

\* At most one reset link is outstanding, for the reset the account waits for.
THEOREM AtMostOneLiveLink == Spec => []OneLiveLink
<1>1. IdentityInv => OneLiveLink
  BY DEF IdentityInv, RowFacts
<1> QED BY <1>1, IdentityInvariant, PTL

\* Settings updates never overwrite each other.
THEOREM SettingsAreKept == Spec => []SettingsKept
<1>1. IdentityInv => SettingsKept
  BY DEF IdentityInv, RowFacts
<1> QED BY <1>1, IdentityInvariant, PTL

\* The first administrator is never replaced.
THEOREM FirstAdminIsKept == Spec => FirstAdminStays
<1>1. IdentityInv /\ [Next]_vars => [account.id # None => account'.id = account.id]_vars
  <2> SUFFICES ASSUME IdentityInv, Next, account.id # None
               PROVE  account'.id = account.id
    BY DEF vars
  <2>1. ASSUME NEW r \in Callers, CreateAdminCommit(r) PROVE FALSE
    BY <2>1 DEF CreateAdminCommit, AdminRequired, IdentityInv, RowFacts, AdminRecorded
  <2>2. account' = account \/ account' = BeginResetOutcome \/ account' = CompleteResetOutcome
    BY <2>1, Zenon
       DEF Next, CallEnds, CreateAdminPrepare, Logout, CompleteResetCommit, SetupComplete,
           SettingsPrepare, SettingsCommit, LoginSucceeds, Authenticate, LoginPrepare,
           AttemptRefused, CompleteResetPrepare, LoginRejected, CompleteResetRejected,
           BeginReset, InvalidateAllAdminSessions, Tick, vars, rows
  <2> QED BY <2>2, AccountMoves DEF IdentityInv, TypeOK, RowTypes
<1> QED BY <1>1, IdentityInvariant, PTL DEF Spec, FirstAdminStays

-----------------------------------------------------------------------------
(* The throttle.                                                           *)

\* Every answer is counted, no count is above the threshold, and no window has
\* counted anything before it began.
Throttled ==
    /\ answered = limits
    /\ \A s \in Subjects, w \in Windows :
          /\ limits[s][w] <= Threshold
          /\ w > WindowOf(now) => limits[s][w] = 0

\* A later time is in the same or a later window (currentWindowStart).
LEMMA WindowsInOrder ==
    ASSUME NEW t \in 0 .. MaxTime, NEW u \in 0 .. MaxTime, t <= u
    PROVE  WindowOf(t) \in Windows /\ WindowOf(t) <= WindowOf(u)
<1>1. ASSUME NEW a \in Nat, NEW b \in Nat, a <= b
      PROVE  a \div WindowWidth \in Nat /\ a \div WindowWidth <= b \div WindowWidth
  BY <1>1, IdentityConstants
<1>2. /\ WindowOf(t) \in Nat /\ WindowOf(u) \in Nat /\ WindowOf(MaxTime) \in Nat
      /\ WindowOf(t) <= WindowOf(u) /\ WindowOf(u) <= WindowOf(MaxTime)
  BY <1>1, IdentityConstants DEF WindowOf
<1> QED BY <1>2 DEF Windows

\* A rejection is counted in a window that still has room: the admission was
\* checked in the same transaction, or the window has only just begun.
LEMMA RejectionThrottled ==
    ASSUME IdentityInv, Throttled, NEW r \in Callers, NEW t \in 0 .. MaxTime,
           LoginRejected(r, t) \/ CompleteResetRejected(r, t)
    PROVE  Throttled'
<1> USE IdentityConstants
<1>1. /\ Admitted(call[r].subjects) /\ now <= t /\ now' = t
      /\ limits' = Counted(limits, call[r].subjects, WindowOf(t))
      /\ answered' = limits'
  BY DEF LoginRejected, CompleteResetRejected, AdmittedAtCommit, RecordFailure,
         IdentityInv, TypeOK, RowTypes, Throttled
<1>2. now \in 0 .. MaxTime /\ limits \in [Subjects -> [Windows -> Nat]]
  BY DEF IdentityInv, TypeOK, RowTypes, Counters
<1>3. /\ WindowOf(now) \in Windows /\ WindowOf(t) \in Windows
      /\ WindowOf(now) <= WindowOf(t)
  BY <1>1, <1>2, WindowsInOrder
<1>4. \A w \in Windows : w \in Nat
  BY DEF Windows
<1>5. ASSUME NEW s \in Subjects, NEW w \in Windows
      PROVE  /\ limits'[s][w] <= Threshold
             /\ w > WindowOf(now') => limits'[s][w] = 0
  <2>1. limits[s] \in [Windows -> Nat] /\ limits[s][w] \in Nat
    BY <1>2
  <2>2. CASE s \in call[r].subjects /\ w = WindowOf(t)
    <3>1. limits'[s][w] = limits[s][w] + 1
      BY <1>1, <1>3, <2>1, <2>2 DEF Counted
    <3>2. limits[s][w] < Threshold
      <4>1. CASE WindowOf(t) = WindowOf(now)
        BY <1>1, <2>2, <4>1 DEF Admitted
      <4>2. CASE WindowOf(t) > WindowOf(now)
        BY <2>2, <4>2 DEF Throttled
      <4> QED BY <1>3, <1>4, <4>1, <4>2
    <3> QED BY <1>1, <1>4, <2>1, <2>2, <3>1, <3>2
  <2>3. CASE ~ (s \in call[r].subjects /\ w = WindowOf(t))
    <3>1. limits'[s][w] = limits[s][w]
      BY <1>1, <2>1, <2>3 DEF Counted
    <3> QED BY <1>1, <1>3, <1>4, <3>1 DEF Throttled
  <2> QED BY <2>2, <2>3
<1> QED BY <1>1, <1>5 DEF Throttled

\* Time passing closes windows and opens empty ones.
LEMMA TickThrottled ==
    ASSUME IdentityInv, Throttled, Tick
    PROVE  Throttled'
<1>1. now \in 0 .. MaxTime /\ now' \in 0 .. MaxTime /\ now <= now'
  BY IdentityConstants DEF Tick, IdentityInv, TypeOK, RowTypes
<1>2. WindowOf(now) <= WindowOf(now') /\ WindowOf(now) \in Windows /\ WindowOf(now') \in Windows
  BY <1>1, WindowsInOrder
<1>3. \A w \in Windows : w \in Nat
  BY DEF Windows
<1>4. UNCHANGED <<limits, answered>>
  BY DEF Tick, rows
<1> QED BY <1>2, <1>3, <1>4 DEF Throttled

\* Under any number of concurrent attempts no subject gets more rejections in a
\* window than PreAuthFailureThreshold.
THEOREM AttemptsAreBounded == Spec => []AttemptsBounded
<1>1. Init => Throttled
  BY IdentityConstants DEF Init, Throttled, Zero
<1>2. IdentityInv /\ Throttled /\ [Next]_vars => Throttled'
  <2> SUFFICES ASSUME IdentityInv, Throttled, [Next]_vars PROVE Throttled'
    OBVIOUS
  <2>1. ASSUME UNCHANGED <<limits, answered, now>> PROVE Throttled'
    BY <2>1 DEF Throttled
  <2>2. \/ UNCHANGED <<limits, answered, now>>
        \/ Tick
        \/ \E r \in Callers, t \in 0 .. MaxTime :
              LoginRejected(r, t) \/ CompleteResetRejected(r, t)
    BY Zenon
       DEF Next, CallEnds, CreateAdminPrepare, CreateAdminCommit, Logout,
           CompleteResetCommit, SetupComplete, SettingsPrepare, SettingsCommit,
           LoginSucceeds, Authenticate, LoginPrepare, AttemptRefused,
           CompleteResetPrepare, BeginReset, InvalidateAllAdminSessions, vars, rows
  <2> QED BY <2>1, <2>2, RejectionThrottled, TickThrottled
<1>3. Throttled => AttemptsBounded
  BY DEF Throttled, AttemptsBounded
<1> QED BY <1>1, <1>2, <1>3, IdentityInvariant, PTL DEF Spec

=============================================================================
