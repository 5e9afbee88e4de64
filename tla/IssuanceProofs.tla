---------------------------- MODULE IssuanceProofs ----------------------------
(***************************************************************************)
(* Issuance, proved for every set of series, certificates, authorities,    *)
(* serial numbers, callers and idempotency keys, every rotation interval   *)
(* and every number of attempts.                                           *)
(***************************************************************************)
EXTENDS Issuance, TLAPS

\* What rows refer to is stored; a certificate's key is a generation its series
\* has reached.
References ==
    /\ \A x \in Certificates : ~certificate[x].exists => certificate[x] = NoCertificate
    /\ \A x \in Certificates : certificate[x].exists =>
        /\ certificate[x].series # None
        /\ series[certificate[x].series].exists
        /\ certificate[x].generation \in 1..series[certificate[x].series].generation
        /\ certificate[x].previous # None =>
              certificate[certificate[x].previous].exists
    /\ \A s \in Series : series[s].exists =>
        /\ series[s].certificate # None
        /\ certificate[series[s].certificate].exists
        /\ certificate[series[s].certificate].series = s
        /\ series[s].generation \in Generations

\* A stored answer names a stored certificate.
AnswersStored ==
    \A op \in Operations, id \in RequestIDs :
        requests[op][id].certificate # None =>
            certificate[requests[op][id].certificate].exists

Rows == References /\ AnswersStored

\* What a renewal prepared is what PlanRenewal says of the series, unless the
\* version of the series has moved.
Planned(row) ==
    LET s == row.input.series
        g == row.prep.generation
    IN  /\ g = series[s].generation
        /\ row.prep.rotated => row.prep.count = 0
        /\ ~row.prep.rotated =>
            /\ row.prep.count = generations[s][g].count + 1
            /\ row.prep.count < RotateEvery

CallFact(row) ==
    /\ row.pc # "idle" => row.id \in RequestIDs
    /\ row.pc # "idle" /\ row.operation = "renew" =>
        /\ row.input.series # None
        /\ series[row.input.series].exists
        /\ row.input.source # None
        /\ row.expected <= series[row.input.series].version
    /\ row.pc = "commit" /\ row.operation = "renew"
          /\ series[row.input.series].version = row.expected
        => Planned(row)

CallFacts == \A c \in Callers : CallFact(calls[c])

RowFacts ==
    /\ Rows
    /\ HistoryIsLinear
    /\ RotationKept
    /\ SerialsUnique
    /\ OneCertificatePerRequest

IssuanceInv == TypeOK /\ RowFacts /\ CallFacts

-----------------------------------------------------------------------------
(* Records.                                                                *)

\* The rows that stand for "not there" are rows.
LEMMA EmptyRows ==
    /\ NoSeries \in SeriesRows
    /\ NoGeneration \in GenerationRows
    /\ NoCertificate \in CertificateRows
    /\ NoInput \in Inputs
    /\ NoRequest \in RequestRows
    /\ NoPreparation \in Preparations
    /\ IdleCall \in CallRows
BY DEF NoSeries, SeriesRows, NoGeneration, GenerationRows, Custodies, NoCertificate,
       CertificateRows, NoInput, Inputs, NoRequest, RequestRows, NoPreparation,
       Preparations, IdleCall, CallRows, Operations

\* PlanRenewal keeps the key below RotateEvery certificates.
LEMMA PlanFacts ==
    ASSUME NEW row \in GenerationRows
    PROVE  /\ PlanRenewal(row).rotated \in BOOLEAN
           /\ PlanRenewal(row).count \in Nat
           /\ PlanRenewal(row).rotated => PlanRenewal(row).count = 0
           /\ ~PlanRenewal(row).rotated =>
                /\ PlanRenewal(row).count = row.count + 1
                /\ PlanRenewal(row).count < RotateEvery
BY IssuanceConstants DEF PlanRenewal, GenerationRows

-----------------------------------------------------------------------------
(* What follows from what a step leaves alone.                             *)

\* Steps that write no row keep what is known of rows.
LEMMA RowsKept ==
    ASSUME RowFacts, UNCHANGED pki
    PROVE  RowFacts'
BY DEF pki, RowFacts, Rows, References, AnswersStored, HistoryIsLinear, RotationKept,
       SerialsUnique, OneCertificatePerRequest

\* What is known of a call stays known while series stay or move forward.
LEMMA CallFactKept ==
    ASSUME TypeOK, series' \in [Series -> SeriesRows], NEW row \in CallRows,
           CallFact(row),
           \A s \in Series : series[s].exists =>
               /\ series'[s].exists
               /\ series'[s].version >= series[s].version
               /\ series'[s].version = series[s].version =>
                    /\ series'[s].generation = series[s].generation
                    /\ generations'[s] = generations[s]
    PROVE  CallFact(row)'
<1>1. CASE row.pc # "idle" /\ row.operation = "renew"
  <2>1. PICK s \in Series : s = row.input.series
    BY <1>1 DEF CallRows, Inputs, CallFact
  <2>2. /\ series[s].exists
        /\ row.expected \in Nat /\ series[s].version \in Nat
        /\ series'[s].version \in Nat
        /\ row.expected <= series[s].version
    BY <1>1, <2>1 DEF TypeOK, CallRows, SeriesRows, CallFact
  <2>3. ASSUME series'[s].version = row.expected
        PROVE  /\ series[s].version = row.expected
               /\ series'[s].generation = series[s].generation
               /\ generations'[s] = generations[s]
    BY <2>2, <2>3
  <2>4. row.expected <= series'[s].version
    BY <2>2
  <2>5. row.pc = "commit" /\ series'[s].version = row.expected => Planned(row)'
    <3> SUFFICES ASSUME row.pc = "commit", series'[s].version = row.expected
                 PROVE  Planned(row)'
      OBVIOUS
    <3>1. Planned(row)
      BY <1>1, <2>1, <2>3 DEF CallFact
    <3>2. /\ series'[s].generation = series[s].generation
          /\ generations'[s] = generations[s]
      BY <2>3
    <3> QED BY <2>1, <3>1, <3>2 DEF Planned
  <2> QED BY <1>1, <2>1, <2>2, <2>4, <2>5 DEF CallFact
<1>2. CASE ~(row.pc # "idle" /\ row.operation = "renew")
  BY <1>2 DEF CallFact
<1> QED BY <1>1, <1>2

\* One call moves to the record row while the rows it reads stay.
LEMMA SettingCall ==
    ASSUME TypeOK, CallFacts, NEW c \in Callers, NEW row \in CallRows, Set(c, row),
           CallFact(row), UNCHANGED <<series, generations>>
    PROVE  calls' \in [Callers -> CallRows] /\ CallFacts'
<1>1. /\ calls' \in [Callers -> CallRows]
      /\ \A d \in Callers : calls'[d] = IF d = c THEN row ELSE calls[d]
  BY DEF Set, TypeOK
<1>2. ASSUME NEW d \in Callers PROVE CallFact(calls[d])'
  <2>1. PICK r \in CallRows : r = calls'[d]
    BY <1>1
  <2>2. CallFact(r)
    BY <1>1, <2>1 DEF CallFacts
  <2>3. CallFact(r)'
    BY <2>2 DEF CallFact, Planned
  <2> QED BY <2>1, <2>3 DEF CallFact, Planned
<1> QED BY <1>1, <1>2 DEF CallFacts

\* One call ends while series stay or move forward.
LEMMA EndingCall ==
    ASSUME TypeOK, CallFacts, series' \in [Series -> SeriesRows],
           NEW c \in Callers, Ends(c),
           \A s \in Series : series[s].exists =>
               /\ series'[s].exists
               /\ series'[s].version >= series[s].version
               /\ series'[s].version = series[s].version =>
                    /\ series'[s].generation = series[s].generation
                    /\ generations'[s] = generations[s]
    PROVE  calls' \in [Callers -> CallRows] /\ CallFacts'
<1>1. /\ calls' \in [Callers -> CallRows]
      /\ \A d \in Callers : calls'[d] = IF d = c THEN IdleCall ELSE calls[d]
  BY EmptyRows DEF Ends, Set, TypeOK
<1>2. CallFact(IdleCall)
  BY DEF CallFact, IdleCall
<1>3. ASSUME NEW d \in Callers PROVE CallFact(calls[d])'
  <2>1. PICK r \in CallRows : r = calls'[d]
    BY <1>1
  <2>2. CallFact(r)
    BY <1>1, <1>2, <2>1 DEF CallFacts
  <2>3. CallFact(r)'
    BY <2>2, CallFactKept
  <2> QED BY <2>1, <2>3 DEF CallFact, Planned
<1> QED BY <1>1, <1>3 DEF CallFacts

-----------------------------------------------------------------------------
(* Steps that store nothing.                                               *)

\* A call moves to a record of which the same is known.
LEMMA CallMoves ==
    ASSUME IssuanceInv, NEW c \in Callers, NEW row \in CallRows, Set(c, row),
           CallFact(row), UNCHANGED <<pki, facts>>
    PROVE  IssuanceInv'
<1>1. UNCHANGED <<series, generations, certificate, requests, revoked, compromised,
                  issuing, settings>>
  BY DEF pki, facts
<1>2. calls' \in [Callers -> CallRows] /\ CallFacts'
  BY <1>1, SettingCall DEF IssuanceInv
<1>3. TypeOK'
  BY <1>1, <1>2 DEF IssuanceInv, TypeOK
<1>4. RowFacts'
  BY RowsKept DEF IssuanceInv
<1> QED BY <1>2, <1>3, <1>4 DEF IssuanceInv

\* A new call knows what its client saw.
LEMMA CallBegins ==
    ASSUME IssuanceInv, NEW c \in Callers, NEW id \in RequestIDs,
           \/ \E a \in Authorities : Issue(c, id, a)
           \/ \E s \in Series, x \in Certificates, a \in Authorities \cup {None} :
                 \E v \in 0..series[s].version : Renew(c, id, s, x, a, v)
    PROVE  IssuanceInv'
<1>1. PICK op \in Operations, input \in Inputs, expected \in Nat :
        /\ Call(c, op, id, input, expected)
        /\ op = "renew" => /\ input.series # None /\ input.source # None
                           /\ series[input.series].exists
                           /\ expected <= series[input.series].version
  <2>1. ASSUME NEW a \in Authorities, Issue(c, id, a)
        PROVE  Call(c, "issue", id, [series |-> None, source |-> None, authority |-> a], 0)
    BY <2>1 DEF Issue
  <2>2. ASSUME NEW s \in Series, NEW x \in Certificates,
               NEW a \in Authorities \cup {None}, NEW v \in 0..series[s].version,
               Renew(c, id, s, x, a, v)
        PROVE  /\ Call(c, "renew", id, [series |-> s, source |-> x, authority |-> a], v)
               /\ series[s].exists /\ v <= series[s].version /\ v \in Nat
    BY <2>2 DEF Renew
  <2>3. \A s \in Series \cup {None}, x \in Certificates \cup {None},
           a \in Authorities \cup {None} :
            [series |-> s, source |-> x, authority |-> a] \in Inputs
    BY DEF Inputs
  <2>4. CASE \E a \in Authorities : Issue(c, id, a)
    BY <2>1, <2>3, <2>4 DEF Operations
  <2>5. CASE \E s \in Series, x \in Certificates, a \in Authorities \cup {None} :
                 \E v \in 0..series[s].version : Renew(c, id, s, x, a, v)
    <3>1. PICK s \in Series, x \in Certificates, a \in Authorities \cup {None} :
                 \E v \in 0..series[s].version : Renew(c, id, s, x, a, v)
      BY <2>5
    <3>2. PICK v \in 0..series[s].version : Renew(c, id, s, x, a, v)
      BY <3>1
    <3> DEFINE input == [series |-> s, source |-> x, authority |-> a]
    <3>3. input \in Inputs /\ input.series = s /\ input.source = x
      BY <2>3
    <3> HIDE DEF input
    <3>4. s # None /\ x # None
      BY IssuanceConstants
    <3>5. Call(c, "renew", id, input, v) /\ series[s].exists /\ v <= series[s].version
            /\ v \in Nat
      BY <2>2, <3>2 DEF input
    <3> QED BY <3>3, <3>4, <3>5 DEF Operations
  <2> QED BY <2>4, <2>5
<1> DEFINE row == [IdleCall EXCEPT !.pc = "replay", !.operation = op, !.id = id,
                                   !.input = input, !.expected = expected]
<1>2. Set(c, row) /\ UNCHANGED <<pki, facts>>
  BY <1>1 DEF Call
<1>3. row \in CallRows /\ row.pc = "replay" /\ row.operation = op /\ row.id = id
        /\ row.input = input /\ row.expected = expected
  BY EmptyRows DEF CallRows, IdleCall
<1> HIDE DEF row
<1>4. CallFact(row)
  BY <1>1, <1>3 DEF CallFact
<1> QED BY <1>2, <1>3, <1>4, CallMoves

\* A call that has ended has nothing to be known of.
LEMMA CallEnds ==
    ASSUME IssuanceInv, NEW c \in Callers, Ends(c), UNCHANGED <<pki, facts>>
    PROVE  IssuanceInv'
<1>1. CallFact(IdleCall)
  BY DEF CallFact, IdleCall
<1> QED BY <1>1, EmptyRows, CallMoves DEF Ends

\* A call that goes on to prepare, for the first time or again.
LEMMA CallPrepares ==
    ASSUME IssuanceInv, NEW c \in Callers, calls[c].pc # "idle",
           NEW row \in CallRows, Set(c, row), row.pc = "prepare",
           row.operation = calls[c].operation, row.id = calls[c].id,
           row.input = calls[c].input, row.expected = calls[c].expected,
           UNCHANGED <<pki, facts>>
    PROVE  IssuanceInv'
<1>1. CallFact(row)
  BY DEF IssuanceInv, CallFacts, CallFact
<1> QED BY <1>1, CallMoves

\* replayBeforePreparation ends the call or lets it prepare.
LEMMA ReplayStep ==
    ASSUME IssuanceInv, NEW c \in Callers, ReplayBeforePreparation(c)
    PROVE  IssuanceInv'
<1> DEFINE row == [calls[c] EXCEPT !.pc = "prepare"]
<1>1. /\ UNCHANGED <<pki, facts>>
      /\ calls[c].pc # "idle"
      /\ Ends(c) \/ Set(c, row)
  BY DEF ReplayBeforePreparation, Goes
<1>2. calls[c] \in CallRows
  BY DEF IssuanceInv, TypeOK
<1>3. /\ row \in CallRows /\ row.pc = "prepare"
      /\ row.operation = calls[c].operation /\ row.id = calls[c].id
      /\ row.input = calls[c].input /\ row.expected = calls[c].expected
  BY <1>2 DEF CallRows
<1> HIDE DEF row
<1> QED BY <1>1, <1>3, CallEnds, CallPrepares

\* A stale preparation is made again or given up.
LEMMA StaleStep ==
    ASSUME IssuanceInv, NEW c \in Callers, CommitStale(c)
    PROVE  IssuanceInv'
<1> DEFINE row == Retry(c)
<1>1. /\ UNCHANGED <<pki, facts>>
      /\ calls[c].pc # "idle"
      /\ Ends(c) \/ Set(c, row)
  BY DEF CommitStale
<1>2. calls[c] \in CallRows
  BY DEF IssuanceInv, TypeOK
<1>3. /\ row \in CallRows /\ row.pc = "prepare"
      /\ row.operation = calls[c].operation /\ row.id = calls[c].id
      /\ row.input = calls[c].input /\ row.expected = calls[c].expected
  <2>1. PICK n \in Nat, prep \in Preparations :
            n = calls[c].attempt + 1 /\ prep = NoPreparation
    BY <1>2, EmptyRows DEF CallRows
  <2>2. row = [calls[c] EXCEPT !.pc = "prepare", !.prep = prep, !.attempt = n]
    BY <2>1 DEF Retry
  <2> HIDE DEF row
  <2> QED BY <1>2, <2>2 DEF CallRows
<1> HIDE DEF row
<1> QED BY <1>1, <1>3, CallEnds, CallPrepares

\* A preparation reads the series and plans with it.
LEMMA PrepareStep ==
    ASSUME IssuanceInv, NEW c \in Callers, Prepare(c)
    PROVE  IssuanceInv'
<1>1. UNCHANGED <<pki, facts>> /\ calls[c].pc = "prepare"
  BY DEF Prepare
<1>2. calls[c] \in CallRows /\ CallFact(calls[c])
  BY DEF IssuanceInv, TypeOK, CallFacts
<1>3. TargetAuthority(c) \in Authorities
  BY DEF Prepare, IssuanceInv, TypeOK
<1>4. ASSUME NEW prep \in Preparations,
             Set(c, [calls[c] EXCEPT !.pc = "commit", !.prep = prep]),
             calls[c].operation = "renew" =>
                /\ prep.generation = SeriesOf(c).generation
                /\ prep.rotated => prep.count = 0
                /\ ~prep.rotated =>
                    /\ prep.count =
                         generations[calls[c].input.series][prep.generation].count + 1
                    /\ prep.count < RotateEvery
      PROVE  IssuanceInv'
  <2> DEFINE row == [calls[c] EXCEPT !.pc = "commit", !.prep = prep]
  <2>1. /\ row \in CallRows /\ row.pc = "commit" /\ row.prep = prep
        /\ row.operation = calls[c].operation /\ row.id = calls[c].id
        /\ row.input = calls[c].input /\ row.expected = calls[c].expected
    BY <1>2 DEF CallRows
  <2>2. Set(c, row)
    BY <1>4
  <2> HIDE DEF row
  <2>3. row.operation = "renew" => Planned(row)
    BY <1>4, <2>1 DEF Planned, SeriesOf
  <2>4. CallFact(row)
    BY <1>1, <1>2, <2>1, <2>3 DEF CallFact
  <2> QED BY <1>1, <2>1, <2>2, <2>4, CallMoves
<1>5. CASE calls[c].operation = "issue"
  <2>1. PICK n \in Serials :
            Set(c, [calls[c] EXCEPT !.pc = "commit", !.prep = PrepareIssue(c, n)])
    BY <1>5 DEF Prepare
  <2>2. PrepareIssue(c, n) \in Preparations
    BY <1>3 DEF PrepareIssue, NoPreparation, Preparations, IssuanceInv, TypeOK, Custodies
  <2> QED BY <1>4, <1>5, <2>1, <2>2
<1>6. CASE calls[c].operation = "renew"
  <2>1. PICK n \in Serials :
            Set(c, [calls[c] EXCEPT !.pc = "commit", !.prep = PrepareRenew(c, n)])
    BY <1>6 DEF Prepare
  <2>2. PICK s \in Series, g \in Generations, gen \in GenerationRows :
            /\ s = calls[c].input.series
            /\ g = series[s].generation
            /\ gen = generations[s][g]
    <3>1. PICK s \in Series : s = calls[c].input.series
      BY <1>1, <1>2, <1>6 DEF CallFact, CallRows, Inputs
    <3>2. series[s].exists
      BY <1>1, <1>2, <1>6, <3>1 DEF CallFact
    <3>3. series[s].generation \in Generations
      BY <3>2 DEF IssuanceInv, RowFacts, Rows, References
    <3>4. generations[s][series[s].generation] \in GenerationRows
      BY <3>3 DEF IssuanceInv, TypeOK
    <3> QED BY <3>1, <3>3, <3>4
  <2>3. /\ PrepareRenew(c, n).generation = g
        /\ PrepareRenew(c, n).rotated = PlanRenewal(gen).rotated
        /\ PrepareRenew(c, n).count = PlanRenewal(gen).count
        /\ PrepareRenew(c, n) =
             [issuer |-> TargetAuthority(c), generation |-> g, custody |-> gen.custody,
              rotated |-> PlanRenewal(gen).rotated, count |-> PlanRenewal(gen).count,
              serial |-> n, settings |-> settings]
    BY <2>2 DEF PrepareRenew, SeriesOf
  <2>4. PrepareRenew(c, n) \in Preparations
    <3>1. /\ g \in Nat /\ gen.custody \in Custodies /\ settings \in Nat
          /\ PlanRenewal(gen).rotated \in BOOLEAN /\ PlanRenewal(gen).count \in Nat
      BY PlanFacts, IssuanceConstants
         DEF GenerationRows, IssuanceInv, TypeOK, Generations
    <3> QED BY <1>3, <2>3, <3>1 DEF Preparations
  <2>5. /\ PlanRenewal(gen).rotated => PlanRenewal(gen).count = 0
        /\ ~PlanRenewal(gen).rotated => /\ PlanRenewal(gen).count = gen.count + 1
                                        /\ PlanRenewal(gen).count < RotateEvery
    BY PlanFacts
  <2>6. SeriesOf(c).generation = g /\ generations[calls[c].input.series][g] = gen
    BY <2>2 DEF SeriesOf
  <2>7. PICK prep \in Preparations : prep = PrepareRenew(c, n)
    BY <2>4
  <2>8. /\ prep.generation = g
        /\ prep.rotated = PlanRenewal(gen).rotated
        /\ prep.count = PlanRenewal(gen).count
    BY <2>3, <2>7
  <2>9. Set(c, [calls[c] EXCEPT !.pc = "commit", !.prep = prep])
    BY <2>1, <2>7
  <2> QED BY <1>4, <2>5, <2>6, <2>8, <2>9
<1> QED BY <1>2, <1>5, <1>6 DEF CallRows, Operations

\* Revocations, compromises, deliveries, authorities and settings change beside
\* the calls.
LEMMA FactsStep ==
    ASSUME IssuanceInv,
           \/ \E x \in Certificates : Revoke(x)
           \/ \E s \in Series, g \in Generations :
                 MarkCompromised(s, g)
           \/ \E a \in Authorities : AuthorityChanges(a)
           \/ SettingsUpdated
    PROVE  IssuanceInv'
<1>1. UNCHANGED pki /\ UNCHANGED calls
  BY DEF Revoke, MarkCompromised, AuthorityChanges, SettingsUpdated
<1>2. RowFacts'
  BY <1>1, RowsKept DEF IssuanceInv
<1>3. CallFacts'
  BY <1>1 DEF IssuanceInv, CallFacts, CallFact, Planned, pki
<1>4. /\ revoked' \subseteq Certificates
      /\ compromised' \subseteq Series \X Generations
      /\ issuing' \subseteq Authorities
      /\ settings' \in Nat
  BY DEF Revoke, MarkCompromised, AuthorityChanges, SettingsUpdated,
         IssuanceInv, TypeOK
<1>5. TypeOK'
  BY <1>1, <1>4 DEF IssuanceInv, TypeOK, pki
<1> QED BY <1>2, <1>3, <1>5 DEF IssuanceInv

-----------------------------------------------------------------------------
(* Steps that store a certificate.                                         *)

\* A certificate is stored: the parts of the invariant that ask only that the
\* certificate is new.
LEMMA SerialsKept ==
    ASSUME TypeOK, SerialsUnique, NEW x \in Certificates, NEW cert \in CertificateRows,
           certificate' = [certificate EXCEPT ![x] = cert],
           ~SerialUsed(cert.issuer, cert.serial)
    PROVE  SerialsUnique'
<1>1. certificate'[x] = cert
      /\ \A y \in Certificates \ {x} : certificate'[y] = certificate[y]
  BY DEF TypeOK
<1>2. \A y \in Certificates \ {x} :
        certificate[y].exists /\ certificate[y].issuer = cert.issuer
            => certificate[y].serial # cert.serial
  BY DEF SerialUsed
<1> QED BY <1>1, <1>2 DEF SerialsUnique

\* The result of a key is stored with the certificate it names.
LEMMA Answering ==
    ASSUME TypeOK, Rows, OneCertificatePerRequest,
           NEW x \in Certificates, ~certificate[x].exists,
           NEW cert \in CertificateRows, cert.exists,
           certificate' = [certificate EXCEPT ![x] = cert],
           NEW op \in Operations, NEW id \in RequestIDs, NEW input \in Inputs,
           requests[op][id].certificate = None,
           requests' = [requests EXCEPT ![op][id] =
                            [input |-> input, certificate |-> x]]
    PROVE  /\ requests' \in [Operations -> [RequestIDs -> RequestRows]]
           /\ OneCertificatePerRequest'
           /\ AnswersStored'
<1>1. [input |-> input, certificate |-> x] \in RequestRows
  BY DEF RequestRows
<1>2. requests' \in [Operations -> [RequestIDs -> RequestRows]]
  BY <1>1 DEF TypeOK
<1>3. \A q \in Operations, i \in RequestIDs :
        requests'[q][i] = IF q = op /\ i = id
                          THEN [input |-> input, certificate |-> x]
                          ELSE requests[q][i]
  BY DEF TypeOK
<1>4. \A q \in Operations, i \in RequestIDs : requests[q][i].certificate # x
  BY IssuanceConstants DEF Rows, AnswersStored
<1>5. /\ requests'[op][id].certificate = x
      /\ \A q \in Operations, i \in RequestIDs :
            q # op \/ i # id => requests'[q][i] = requests[q][i]
  BY <1>3
<1>6. \A y \in Certificates \ {x} : certificate'[y] = certificate[y]
  BY DEF TypeOK
<1>7. ASSUME NEW y \in Certificates,
             certificate'[y].operation \in {"initial", "renew", "rekey"}
      PROVE  \E q \in Operations, i \in RequestIDs : requests'[q][i].certificate = y
  <2>1. CASE y = x
    BY <1>5, <2>1
  <2>2. CASE y # x
    <3>1. PICK q \in Operations, i \in RequestIDs : requests[q][i].certificate = y
      BY <1>6, <1>7, <2>2 DEF OneCertificatePerRequest
    <3>2. q # op \/ i # id
      BY <3>1, IssuanceConstants
    <3> QED BY <1>5, <3>1, <3>2
  <2> QED BY <2>1, <2>2
<1>8. ASSUME NEW q \in Operations, NEW q2 \in Operations,
             NEW i \in RequestIDs, NEW i2 \in RequestIDs,
             requests'[q][i].certificate # None,
             requests'[q][i].certificate = requests'[q2][i2].certificate
      PROVE  q = q2 /\ i = i2
  BY <1>4, <1>5, <1>8 DEF OneCertificatePerRequest
<1>9. AnswersStored'
  <2>1. certificate'[x].exists
    BY DEF TypeOK
  <2>2. ASSUME NEW q \in Operations, NEW i \in RequestIDs,
               requests'[q][i].certificate # None
        PROVE  certificate'[requests'[q][i].certificate].exists
    <3>1. CASE q = op /\ i = id
      BY <1>5, <2>1, <3>1
    <3>2. CASE q # op \/ i # id
      BY <1>4, <1>5, <1>6, <2>2, <3>2 DEF Rows, AnswersStored, TypeOK, RequestRows
    <3> QED BY <3>1, <3>2
  <2> QED BY <2>2 DEF AnswersStored
<1> QED BY <1>2, <1>7, <1>8, <1>9 DEF OneCertificatePerRequest

\* A first certificate: the series is new, so nothing else names it.
LEMMA StoringFirst ==
    ASSUME TypeOK, RowFacts, NEW s \in Series, NEW x \in Certificates,
           NEW a \in Authorities, NEW n \in Serials \cup {None},
           NEW custody \in Custodies,
           NEW op \in {"initial", "import"}, StoreFirst(s, x, a, n, custody, op)
    PROVE  /\ series' \in [Series -> SeriesRows]
           /\ generations' \in [Series -> [Generations -> GenerationRows]]
           /\ certificate' \in [Certificates -> CertificateRows]
           /\ \A t \in Series : series[t].exists =>
                 series'[t] = series[t] /\ generations'[t] = generations[t]
           /\ ~certificate[x].exists
           /\ \E cert \in CertificateRows :
                 /\ certificate' = [certificate EXCEPT ![x] = cert]
                 /\ cert.exists /\ cert.issuer = a /\ cert.serial = n
                 /\ cert.operation = op
           /\ References'
           /\ UNCHANGED requests => AnswersStored'
           /\ HistoryIsLinear'
           /\ RotationKept'
<1> DEFINE row == [exists |-> TRUE, version |-> 0, authority |-> a,
                   certificate |-> x, generation |-> 1]
           gen == [exists |-> TRUE, count |-> 0, custody |-> custody]
           cert == [exists |-> TRUE, series |-> s, generation |-> 1, issuer |-> a,
                    serial |-> n, previous |-> None, count |-> 0, operation |-> op]
<1>1. /\ ~series[s].exists
      /\ ~certificate[x].exists
      /\ series' = [series EXCEPT ![s] = row]
      /\ generations' = [generations EXCEPT ![s][1] = gen]
      /\ certificate' = [certificate EXCEPT ![x] = cert]
  BY DEF StoreFirst, Fresh
<1>2. row \in SeriesRows /\ gen \in GenerationRows /\ cert \in CertificateRows
  BY DEF SeriesRows, GenerationRows, CertificateRows
<1>3. /\ row.exists /\ row.certificate = x /\ row.generation = 1
      /\ gen.exists /\ gen.count = 0
      /\ cert.exists /\ cert.series = s /\ cert.generation = 1 /\ cert.issuer = a
      /\ cert.serial = n /\ cert.previous = None /\ cert.count = 0
      /\ cert.operation = op
  OBVIOUS
<1> HIDE DEF row, gen, cert
<1>4. 1 \in Generations
  BY IssuanceConstants DEF Generations
<1>5. /\ series' \in [Series -> SeriesRows]
      /\ series'[s] = row
      /\ \A t \in Series \ {s} : series'[t] = series[t]
  BY <1>1, <1>2 DEF TypeOK
<1>6. /\ generations' \in [Series -> [Generations -> GenerationRows]]
      /\ generations'[s][1] = gen
      /\ \A t \in Series \ {s} : generations'[t] = generations[t]
  BY <1>1, <1>2, <1>4 DEF TypeOK
<1>7. /\ certificate' \in [Certificates -> CertificateRows]
      /\ certificate'[x] = cert
      /\ \A y \in Certificates \ {x} : certificate'[y] = certificate[y]
  BY <1>1, <1>2 DEF TypeOK
<1>8. \A y \in Certificates \ {x} :
        certificate[y].exists =>
            /\ certificate[y].series \in Series \ {s}
            /\ certificate[y].previous # x
  BY <1>1, IssuanceConstants DEF RowFacts, Rows, References, TypeOK, CertificateRows
<1>9. \A y \in Certificates \ {x} :
        ~certificate[y].exists => certificate[y].previous = None
  BY DEF RowFacts, Rows, References, NoCertificate
<1>10. s # None /\ x # None
  BY IssuanceConstants
<1>11. References' /\ (UNCHANGED requests => AnswersStored')
  <2>1. \A y \in Certificates : ~certificate'[y].exists => certificate'[y] = NoCertificate
    BY <1>3, <1>7 DEF RowFacts, Rows, References
  <2>2. ASSUME NEW y \in Certificates, certificate'[y].exists
        PROVE  /\ certificate'[y].series # None
               /\ series'[certificate'[y].series].exists
               /\ certificate'[y].generation \in
                      1..series'[certificate'[y].series].generation
               /\ certificate'[y].previous # None =>
                      certificate'[certificate'[y].previous].exists
    <3>1. CASE y = x
      BY <1>3, <1>5, <1>7, <1>10, <3>1
    <3>2. CASE y # x
      BY <1>1, <1>5, <1>7, <1>8, <2>2, <3>2
         DEF RowFacts, Rows, References, TypeOK, CertificateRows
    <3> QED BY <3>1, <3>2
  <2>3. ASSUME NEW t \in Series, series'[t].exists
        PROVE  /\ series'[t].certificate # None
               /\ certificate'[series'[t].certificate].exists
               /\ certificate'[series'[t].certificate].series = t
               /\ series'[t].generation \in Generations
    <3>1. CASE t = s
      BY <1>3, <1>4, <1>5, <1>7, <1>10, <3>1
    <3>2. CASE t # s
      BY <1>1, <1>5, <1>7, <2>3, <3>2 DEF RowFacts, Rows, References, TypeOK, SeriesRows
    <3> QED BY <3>1, <3>2
  <2>4. \A q \in Operations, i \in RequestIDs :
            requests[q][i].certificate # None =>
                certificate'[requests[q][i].certificate].exists
    BY <1>1, <1>3, <1>7 DEF RowFacts, Rows, AnswersStored, TypeOK, RequestRows
  <2> QED BY <2>1, <2>2, <2>3, <2>4 DEF References, AnswersStored
<1>12. HistoryIsLinear'
  <2>1. \A y \in Certificates : certificate'[y].previous # x
    BY <1>3, <1>7, <1>8, <1>9, <1>10
  <2>2. \A y \in Certificates, z \in Certificates :
            certificate'[y].previous # None
                /\ certificate'[y].previous = certificate'[z].previous => y = z
    BY <1>3, <1>7 DEF RowFacts, HistoryIsLinear
  <2>3. ASSUME NEW y \in Certificates \ {x}, certificate'[y].exists
        PROVE  series'[certificate'[y].series].certificate = y
                <=> \A z \in Certificates : certificate'[z].previous # y
    <3>1. /\ certificate[y].exists /\ certificate'[y].series = certificate[y].series
          /\ series'[certificate[y].series] = series[certificate[y].series]
      BY <1>5, <1>7, <1>8, <2>3
    <3>2. certificate[x].previous = None /\ cert.previous = None
      BY <1>1, <1>3 DEF RowFacts, Rows, References, NoCertificate
    <3>3. y # None
      BY IssuanceConstants
    <3>4. (\A z \in Certificates : certificate'[z].previous # y)
            <=> (\A z \in Certificates : certificate[z].previous # y)
      BY <1>7, <3>2, <3>3
    <3> QED BY <3>1, <3>4 DEF RowFacts, HistoryIsLinear
  <2> QED BY <1>3, <1>5, <1>7, <2>1, <2>2, <2>3 DEF HistoryIsLinear
<1>13. RotationKept'
  <2>1. ASSUME NEW y \in Certificates \ {x}, certificate'[y].exists
        PROVE  /\ certificate[y].exists /\ certificate'[y] = certificate[y]
               /\ certificate[y].series \in Series \ {s}
               /\ generations'[certificate[y].series] = generations[certificate[y].series]
    BY <1>6, <1>7, <1>8, <2>1
  <2>2. RotateEvery \in Nat \ {0}
    BY IssuanceConstants
  <2>3. /\ generations'[s][1].exists
        /\ cert.count <= generations'[s][1].count
        /\ generations'[s][1].count < RotateEvery
        /\ \A y \in Certificates \ {x} :
                certificate'[y].exists => certificate'[y].series # s
    BY <1>3, <1>6, <2>1, <2>2
  <2>4. ASSUME NEW y \in Certificates \ {x}, certificate'[y].exists
        PROVE  LET r == generations'[certificate'[y].series][certificate'[y].generation]
               IN  /\ r.exists
                   /\ certificate'[y].count <= r.count
                   /\ r.count < RotateEvery
                   /\ \A z \in Certificates \ {y} :
                        /\ certificate'[z].exists
                        /\ certificate'[z].series = certificate'[y].series
                        /\ certificate'[z].generation = certificate'[y].generation
                        => certificate'[z].count # certificate'[y].count
    BY <1>3, <1>7, <2>1, <2>4 DEF RowFacts, RotationKept
  <2> QED BY <1>3, <1>7, <2>3, <2>4 DEF RotationKept
<1> QED
  BY <1>1, <1>2, <1>3, <1>5, <1>6, <1>7, <1>11, <1>12, <1>13

\* The series s moves from its current certificate src to x, under the same key
\* or under the next one.
Renews(s, x, src, g0, g, cnt, cert, gen, row) ==
    /\ series[s].exists /\ ~certificate[x].exists
    /\ src = series[s].certificate /\ g0 = series[s].generation
    /\ \/ g = g0 + 1 /\ cnt = 0
       \/ g = g0 /\ cnt = generations[s][g0].count + 1 /\ cnt < RotateEvery
    /\ cert.exists /\ cert.series = s /\ cert.generation = g
    /\ cert.previous = src /\ cert.count = cnt
    /\ gen.exists /\ gen.count = cnt
    /\ row.exists /\ row.certificate = x /\ row.generation = g
    /\ row.version = series[s].version + 1
    /\ certificate' = [certificate EXCEPT ![x] = cert]
    /\ generations' = [generations EXCEPT ![s][g] = gen]
    /\ series' = [series EXCEPT ![s] = row]

\* What a renewal changes, and what it keeps.
LEMMA StoringRenewal ==
    ASSUME TypeOK, RowFacts, NEW s \in Series, NEW x \in Certificates,
           NEW src \in Certificates, NEW g0 \in Generations, NEW g \in Generations,
           NEW cnt \in Nat, NEW cert \in CertificateRows, NEW gen \in GenerationRows,
           NEW row \in SeriesRows, Renews(s, x, src, g0, g, cnt, cert, gen, row)
    PROVE  /\ series' \in [Series -> SeriesRows]
           /\ generations' \in [Series -> [Generations -> GenerationRows]]
           /\ certificate' \in [Certificates -> CertificateRows]
           /\ \A t \in Series : series[t].exists =>
               /\ series'[t].exists
               /\ series'[t].version >= series[t].version
               /\ series'[t].version = series[t].version =>
                    /\ series'[t].generation = series[t].generation
                    /\ generations'[t] = generations[t]
           /\ References'
           /\ HistoryIsLinear'
           /\ RotationKept'
<1> /\ series[s].exists /\ ~certificate[x].exists
    /\ src = series[s].certificate /\ g0 = series[s].generation
    /\ \/ g = g0 + 1 /\ cnt = 0
       \/ g = g0 /\ cnt = generations[s][g0].count + 1 /\ cnt < RotateEvery
    /\ cert.exists /\ cert.series = s /\ cert.generation = g
    /\ cert.previous = src /\ cert.count = cnt
    /\ gen.exists /\ gen.count = cnt
    /\ row.exists /\ row.certificate = x /\ row.generation = g
    /\ row.version = series[s].version + 1
    /\ certificate' = [certificate EXCEPT ![x] = cert]
    /\ generations' = [generations EXCEPT ![s][g] = gen]
    /\ series' = [series EXCEPT ![s] = row]
  BY DEF Renews
<1>1. /\ series' \in [Series -> SeriesRows]
      /\ series'[s] = row
      /\ \A t \in Series \ {s} : series'[t] = series[t]
  BY DEF TypeOK
<1>2. /\ generations' \in [Series -> [Generations -> GenerationRows]]
      /\ generations'[s][g] = gen
      /\ \A h \in Generations \ {g} : generations'[s][h] = generations[s][h]
      /\ \A t \in Series \ {s} : generations'[t] = generations[t]
  BY DEF TypeOK
<1>3. /\ certificate' \in [Certificates -> CertificateRows]
      /\ certificate'[x] = cert
      /\ \A y \in Certificates \ {x} : certificate'[y] = certificate[y]
  BY DEF TypeOK
<1>4. \A t \in Series : series[t].version \in Nat /\ series[t].generation \in Nat
  BY DEF TypeOK, SeriesRows
<1>5. \A t \in Series : series[t].exists =>
        /\ series'[t].exists
        /\ series'[t].version >= series[t].version
        /\ series'[t].version = series[t].version =>
             /\ series'[t].generation = series[t].generation
             /\ generations'[t] = generations[t]
  <2>1. \A t \in Series \ {s} : series'[t].version >= series[t].version
    BY <1>1, <1>4
  <2> QED BY <1>1, <1>2, <1>4, <2>1
<1>6. /\ certificate[src].exists /\ certificate[src].series = s /\ src # x
      /\ \A y \in Certificates : certificate[y].previous # x
      /\ x # None /\ src # None /\ s # None
      /\ certificate[x].previous = None
  <2>1. certificate[src].exists /\ certificate[src].series = s
    BY DEF RowFacts, Rows, References
  <2>2. x # None /\ src # None /\ s # None
    BY IssuanceConstants
  <2>3. \A y \in Certificates : certificate[y].previous # x
    BY <2>2 DEF RowFacts, Rows, References, NoCertificate
  <2>4. certificate[x].previous = None
    BY DEF RowFacts, Rows, References, NoCertificate
  <2> QED BY <2>1, <2>2, <2>3, <2>4
<1>7. g >= g0 /\ g0 >= 1 /\ g \in Nat /\ g0 \in Nat
  BY IssuanceConstants DEF Generations
<1>8. References'
  <2>1. \A y \in Certificates : ~certificate'[y].exists => certificate'[y] = NoCertificate
    BY <1>3 DEF RowFacts, Rows, References
  <2>2. ASSUME NEW y \in Certificates, certificate'[y].exists
        PROVE  /\ certificate'[y].series # None
               /\ series'[certificate'[y].series].exists
               /\ certificate'[y].generation \in
                      1..series'[certificate'[y].series].generation
               /\ certificate'[y].previous # None =>
                      certificate'[certificate'[y].previous].exists
    <3>1. CASE y = x
      BY <1>1, <1>3, <1>6, <1>7, <3>1
    <3>2. CASE y # x
      <4>1. /\ certificate'[y] = certificate[y] /\ certificate[y].exists
            /\ certificate[y].series \in Series
            /\ certificate[y].generation \in 1..series[certificate[y].series].generation
            /\ series[certificate[y].series].exists
        BY <1>3, <2>2, <3>2 DEF RowFacts, Rows, References, TypeOK, CertificateRows
      <4>2. certificate[y].generation \in 1..series'[certificate[y].series].generation
        <5>1. CASE certificate[y].series = s
          BY <1>1, <1>7, <4>1, <5>1
        <5>2. CASE certificate[y].series # s
          BY <1>1, <4>1, <5>2
        <5> QED BY <5>1, <5>2
      <4>3. certificate[y].previous # None =>
                certificate'[certificate[y].previous].exists
        BY <1>3, <4>1 DEF RowFacts, Rows, References, TypeOK, CertificateRows
      <4> QED BY <1>1, <4>1, <4>2, <4>3, IssuanceConstants
    <3> QED BY <3>1, <3>2
  <2>3. ASSUME NEW t \in Series, series'[t].exists
        PROVE  /\ series'[t].certificate # None
               /\ certificate'[series'[t].certificate].exists
               /\ certificate'[series'[t].certificate].series = t
               /\ series'[t].generation \in Generations
    <3>1. CASE t = s
      BY <1>1, <1>3, <1>6, <3>1
    <3>2. CASE t # s
      BY <1>1, <1>3, <2>3, <3>2 DEF RowFacts, Rows, References, TypeOK, SeriesRows
    <3> QED BY <3>1, <3>2
  <2> QED BY <2>1, <2>2, <2>3 DEF References
<1>9. HistoryIsLinear'
  <2>1. \A y \in Certificates : certificate[y].previous # src
    BY <1>6 DEF RowFacts, HistoryIsLinear
  <2>2. \A y \in Certificates, z \in Certificates :
            certificate'[y].previous # None
                /\ certificate'[y].previous = certificate'[z].previous => y = z
    BY <1>3, <2>1 DEF RowFacts, HistoryIsLinear
  <2>3. ASSUME NEW y \in Certificates \ {x}, certificate'[y].exists
        PROVE  series'[certificate'[y].series].certificate = y
                <=> \A z \in Certificates : certificate'[z].previous # y
    <3>1. /\ certificate[y].exists /\ certificate'[y].series = certificate[y].series
          /\ certificate[y].series \in Series
      BY <1>3, <2>3, IssuanceConstants
         DEF RowFacts, Rows, References, TypeOK, CertificateRows
    <3>2. CASE y = src
      BY <1>1, <1>3, <1>6, <3>1, <3>2
    <3>3. CASE y # src
      <4>1. (\A z \in Certificates : certificate'[z].previous # y)
              <=> (\A z \in Certificates : certificate[z].previous # y)
        BY <1>3, <1>6, <3>3, IssuanceConstants
      <4>2. series'[certificate[y].series].certificate = y
              <=> series[certificate[y].series].certificate = y
        BY <1>1, <3>1, <3>3
      <4> QED BY <3>1, <4>1, <4>2 DEF RowFacts, HistoryIsLinear
    <3> QED BY <3>2, <3>3
  <2>4. \A z \in Certificates : certificate'[z].previous # x
    BY <1>3, <1>6
  <2> QED BY <1>1, <1>3, <2>2, <2>3, <2>4 DEF HistoryIsLinear
<1>10. RotationKept'
  <2>1. ASSUME NEW y \in Certificates \ {x}, certificate'[y].exists
        PROVE  /\ certificate[y].exists /\ certificate'[y] = certificate[y]
               /\ certificate[y].series \in Series
               /\ certificate[y].count \in Nat
               /\ certificate[y].generation \in Generations
               /\ certificate[y].series = s => certificate[y].generation <= g0
    <3>1. certificate[y].exists /\ certificate'[y] = certificate[y]
      BY <1>3, <2>1
    <3>2. /\ certificate[y].series \in Series
          /\ certificate[y].count \in Nat
          /\ certificate[y].generation \in 1..series[certificate[y].series].generation
          /\ series[certificate[y].series].exists
      BY <3>1 DEF RowFacts, Rows, References, TypeOK, CertificateRows
    <3>3. series[certificate[y].series].generation \in Generations
      BY <3>2 DEF RowFacts, Rows, References
    <3> QED BY <3>1, <3>2, <3>3, IssuanceConstants DEF Generations
  <2>2. ASSUME NEW y \in Certificates \ {x}, certificate'[y].exists,
               certificate[y].series = s, certificate[y].generation = g
        PROVE  /\ g = g0 /\ cnt = generations[s][g0].count + 1
               /\ certificate[y].count < cnt
    <3>1. g = g0
      BY <1>7, <2>1, <2>2
    <3>2. cnt = generations[s][g0].count + 1
      BY <1>7, <3>1
    <3>3. certificate[y].count <= generations[s][g0].count
      BY <2>1, <2>2, <3>1 DEF RowFacts, RotationKept
    <3>4. generations[s][g0].count \in Nat
      BY DEF TypeOK, GenerationRows
    <3> QED BY <2>1, <2>2, <3>1, <3>2, <3>3, <3>4
  <2>3. cnt < RotateEvery
    BY IssuanceConstants
  <2>4. ASSUME NEW y \in Certificates \ {x}, certificate'[y].exists
        PROVE  LET r == generations'[certificate'[y].series][certificate'[y].generation]
               IN  /\ r.exists
                   /\ certificate'[y].count <= r.count
                   /\ r.count < RotateEvery
    <3>1. CASE certificate[y].series = s /\ certificate[y].generation = g
      BY <1>2, <2>1, <2>2, <2>3, <2>4, <3>1
    <3>2. CASE ~(certificate[y].series = s /\ certificate[y].generation = g)
      <4>1. generations'[certificate[y].series][certificate[y].generation]
                = generations[certificate[y].series][certificate[y].generation]
        BY <1>2, <2>1, <2>4, <3>2
      <4> QED BY <2>1, <2>4, <4>1 DEF RowFacts, RotationKept
    <3> QED BY <3>1, <3>2
  <2>5. ASSUME NEW y \in Certificates, NEW z \in Certificates \ {y},
               certificate'[y].exists, certificate'[z].exists,
               certificate'[z].series = certificate'[y].series,
               certificate'[z].generation = certificate'[y].generation
        PROVE  certificate'[z].count # certificate'[y].count
    <3>1. CASE y = x
      BY <1>3, <2>1, <2>2, <2>5, <3>1
    <3>2. CASE z = x
      BY <1>3, <2>1, <2>2, <2>5, <3>2
    <3>3. CASE y # x /\ z # x
      BY <2>1, <2>5, <3>3 DEF RowFacts, RotationKept
    <3> QED BY <3>1, <3>2, <3>3
  <2>6. /\ generations'[s][g].exists
        /\ cert.count <= generations'[s][g].count
        /\ generations'[s][g].count < RotateEvery
    BY <1>2, <2>3
  <2>7. ASSUME NEW y \in Certificates, certificate'[y].exists
        PROVE  LET r == generations'[certificate'[y].series][certificate'[y].generation]
               IN  /\ r.exists
                   /\ certificate'[y].count <= r.count
                   /\ r.count < RotateEvery
    BY <1>3, <2>4, <2>6, <2>7
  <2> QED BY <2>5, <2>7 DEF RotationKept
<1> QED BY <1>1, <1>2, <1>3, <1>5, <1>8, <1>9, <1>10

\* commitIssue and commitRenew.
LEMMA CommitStep ==
    ASSUME IssuanceInv, NEW c \in Callers, NEW x \in Certificates,
           CommitStored(c, x), Ends(c), UNCHANGED facts
    PROVE  IssuanceInv'
<1>1. calls[c] \in CallRows /\ CallFact(calls[c])
  BY DEF IssuanceInv, TypeOK, CallFacts
<1>2. PICK call \in CallRows, prep \in Preparations :
        call = calls[c] /\ prep = calls[c].prep
  BY <1>1 DEF CallRows
<1>3. PICK id \in RequestIDs, op \in Operations, input \in Inputs :
        id = call.id /\ op = call.operation /\ input = call.input
  BY <1>1, <1>2 DEF CommitStored, CallRows, CallFact
<1>4. PICK a \in Authorities, n \in Serials \cup {None} :
        a = prep.issuer /\ n = prep.serial /\ ~SerialUsed(a, n)
  BY <1>2 DEF CommitStored, CommitAllowed, PreparationCurrent, IssuanceInv, TypeOK,
     Preparations
<1>5. /\ requests[op][id].certificate = None
      /\ requests' = [requests EXCEPT ![op][id] = [input |-> input, certificate |-> x]]
  BY <1>2, <1>3 DEF CommitStored, Unanswered, Stored, StoreRequestResult
<1>6. ASSUME NEW cert \in CertificateRows, cert.exists,
             certificate' = [certificate EXCEPT ![x] = cert],
             cert.issuer = a, cert.serial = n, ~certificate[x].exists,
             series' \in [Series -> SeriesRows],
             generations' \in [Series -> [Generations -> GenerationRows]],
             References', HistoryIsLinear', RotationKept',
             \A t \in Series : series[t].exists =>
               /\ series'[t].exists
               /\ series'[t].version >= series[t].version
               /\ series'[t].version = series[t].version =>
                    /\ series'[t].generation = series[t].generation
                    /\ generations'[t] = generations[t]
      PROVE  IssuanceInv'
  <2>1. SerialsUnique'
    BY <1>4, <1>6, SerialsKept DEF IssuanceInv, RowFacts
  <2>2. /\ requests' \in [Operations -> [RequestIDs -> RequestRows]]
        /\ OneCertificatePerRequest' /\ AnswersStored'
    BY <1>5, <1>6, Answering DEF IssuanceInv, RowFacts
  <2>3. calls' \in [Callers -> CallRows] /\ CallFacts'
    BY <1>6, EndingCall DEF IssuanceInv
  <2>4. certificate' \in [Certificates -> CertificateRows]
    BY <1>6 DEF IssuanceInv, TypeOK
  <2>5. TypeOK'
    BY <1>6, <2>2, <2>3, <2>4 DEF IssuanceInv, TypeOK, facts
  <2> QED BY <1>6, <2>1, <2>2, <2>3, <2>5 DEF IssuanceInv, RowFacts, Rows
<1>7. CASE IssueStored(c, x)
  <2>1. PICK s \in Series : StoreFirst(s, x, a, n, "pending_delivery", "initial")
    BY <1>2, <1>4, <1>7 DEF IssueStored
  <2>2. "pending_delivery" \in Custodies
    BY DEF Custodies
  <2>3. /\ series' \in [Series -> SeriesRows]
        /\ generations' \in [Series -> [Generations -> GenerationRows]]
        /\ \A t \in Series : series[t].exists =>
              series'[t] = series[t] /\ generations'[t] = generations[t]
        /\ ~certificate[x].exists
        /\ \E cert \in CertificateRows :
              /\ certificate' = [certificate EXCEPT ![x] = cert]
              /\ cert.exists /\ cert.issuer = a /\ cert.serial = n
        /\ References' /\ HistoryIsLinear' /\ RotationKept'
    BY <2>1, <2>2, StoringFirst DEF IssuanceInv
  <2>4. \A t \in Series : series[t].version \in Nat
    BY DEF IssuanceInv, TypeOK, SeriesRows
  <2>5. \A t \in Series : series[t].exists =>
          /\ series'[t].exists
          /\ series'[t].version >= series[t].version
    BY <2>3, <2>4
  <2> QED BY <1>6, <2>3, <2>5
<1>8. CASE RenewStored(c, x)
  <2>1. op = "renew" /\ call.pc = "commit"
    BY <1>2, <1>3, <1>8 DEF RenewStored, CommitStored
  <2>2. PICK s \in Series : s = input.series /\ series[s].exists
    BY <1>1, <1>2, <1>3, <2>1 DEF CallFact, Inputs
  <2>3. /\ series[s].version = call.expected
        /\ series[s].certificate = input.source
    BY <1>2, <1>3, <2>1, <2>2 DEF CommitStored, CommitAllowed, SeriesUnchanged, SeriesOf
  <2>4. PICK src \in Certificates : src = input.source
    BY <1>1, <1>2, <1>3, <2>1 DEF CallFact, Inputs
  <2>5. PICK g0 \in Generations : g0 = series[s].generation
    BY <2>2 DEF IssuanceInv, RowFacts, Rows, References
  <2>6. Planned(call)
    BY <1>1, <1>2, <1>3, <2>1, <2>2, <2>3 DEF CallFact
  <2>7. /\ prep.generation = g0
        /\ prep.rotated => prep.count = 0
        /\ ~prep.rotated => /\ prep.count = generations[s][g0].count + 1
                            /\ prep.count < RotateEvery
    BY <1>2, <1>3, <2>2, <2>5, <2>6 DEF Planned
  <2> DEFINE g == IF prep.rotated THEN g0 + 1 ELSE g0
             cnt == prep.count
             custody == IF prep.rotated THEN "pending_delivery"
                        ELSE generations[s][g].custody
             cert == [exists |-> TRUE, series |-> s, generation |-> g, issuer |-> a,
                      serial |-> n, previous |-> src, count |-> cnt,
                      operation |-> IF prep.rotated THEN "rekey" ELSE "renew"]
             gen == [exists |-> TRUE, count |-> cnt, custody |-> custody]
             row == [series[s] EXCEPT !.certificate = x, !.generation = g,
                                      !.version = series[s].version + 1]
  <2>8. GenerationAfter(c) = g
    BY <1>2, <2>7 DEF GenerationAfter
  <2>9. g \in Generations /\ ~certificate[x].exists
    BY <1>8, <2>8 DEF RenewStored, Fresh
  <2>10. certificate' = [certificate EXCEPT ![x] = cert]
    BY <1>2, <1>3, <1>4, <1>8, <2>2, <2>4, <2>8 DEF RenewStored
  <2>11. generations' = [generations EXCEPT ![s][g] = gen]
    <3>1. generations' = [generations EXCEPT ![s][g] =
               [exists |-> TRUE, count |-> prep.count,
                custody |-> IF prep.rotated THEN "pending_delivery" ELSE @.custody]]
      BY <1>2, <1>3, <1>8, <2>2, <2>8 DEF RenewStored
    <3> QED BY <3>1, <2>9 DEF IssuanceInv, TypeOK
  <2>12. series' = [series EXCEPT ![s] = row]
    BY <1>2, <1>3, <1>8, <2>2, <2>8 DEF RenewStored
  <2>13. cnt \in Nat /\ custody \in Custodies /\ g \in Nat /\ prep.rotated \in BOOLEAN
    <3>1. cnt \in Nat /\ prep.rotated \in BOOLEAN
      BY DEF Preparations
    <3>2. generations[s][g].custody \in Custodies
      BY <2>9 DEF IssuanceInv, TypeOK, GenerationRows
    <3>3. g \in Nat
      BY <2>9, IssuanceConstants DEF Generations
    <3> QED BY <3>1, <3>2, <3>3 DEF Custodies
  <2>14. \/ g = g0 + 1 /\ cnt = 0
         \/ g = g0 /\ cnt = generations[s][g0].count + 1 /\ cnt < RotateEvery
    BY <2>7
  <2>15. series[s] \in SeriesRows
    BY DEF IssuanceInv, TypeOK
  <2> HIDE DEF g, cnt, custody
  <2>16. /\ cert \in CertificateRows /\ gen \in GenerationRows
         /\ cert.exists /\ cert.series = s /\ cert.generation = g
         /\ cert.issuer = a /\ cert.serial = n /\ cert.previous = src
         /\ cert.count = cnt /\ gen.exists /\ gen.count = cnt
    BY <2>13 DEF CertificateRows, GenerationRows
  <2>17. /\ row \in SeriesRows /\ row.exists /\ row.certificate = x
         /\ row.generation = g /\ row.version = series[s].version + 1
    <3>1. PICK v \in Nat : v = series[s].version + 1
      BY <2>15 DEF SeriesRows
    <3>2. row = [series[s] EXCEPT !.certificate = x, !.generation = g, !.version = v]
      BY <3>1
    <3> QED BY <2>2, <2>13, <2>15, <3>1, <3>2 DEF SeriesRows
  <2> HIDE DEF cert, gen, row
  <2>18. PICK g1 \in Generations, cnt1 \in Nat, cert1 \in CertificateRows,
              gen1 \in GenerationRows, row1 \in SeriesRows :
            g1 = g /\ cnt1 = cnt /\ cert1 = cert /\ gen1 = gen /\ row1 = row
    BY <2>9, <2>13, <2>16, <2>17
  <2>19. TypeOK /\ RowFacts
    BY DEF IssuanceInv
  <2>20. Renews(s, x, src, g0, g1, cnt1, cert1, gen1, row1)
    BY <2>2, <2>3, <2>4, <2>5, <2>9, <2>10, <2>11, <2>12, <2>14, <2>16, <2>17, <2>18
       DEF Renews
  <2>21. /\ series' \in [Series -> SeriesRows]
         /\ generations' \in [Series -> [Generations -> GenerationRows]]
         /\ \A t \in Series : series[t].exists =>
              /\ series'[t].exists
              /\ series'[t].version >= series[t].version
              /\ series'[t].version = series[t].version =>
                   /\ series'[t].generation = series[t].generation
                   /\ generations'[t] = generations[t]
         /\ References' /\ HistoryIsLinear' /\ RotationKept'
    BY <2>19, <2>20, StoringRenewal
  <2> QED BY <1>6, <2>9, <2>10, <2>16, <2>18, <2>21
<1> QED BY <1>7, <1>8 DEF CommitStored

\* insertImportedLeaf: no request, so no answer.
LEMMA ImportStep ==
    ASSUME IssuanceInv, NEW s \in Series, NEW x \in Certificates, NEW a \in Authorities,
           NEW n \in Serials, InsertImportedLeaf(s, x, a, n)
    PROVE  IssuanceInv'
<1>1. /\ ~SerialUsed(a, n)
      /\ StoreFirst(s, x, a, n, "client_held", "import")
      /\ UNCHANGED <<requests, facts, calls>>
  BY DEF InsertImportedLeaf
<1>2. "client_held" \in Custodies
  BY DEF Custodies
<1>3. /\ series' \in [Series -> SeriesRows]
      /\ generations' \in [Series -> [Generations -> GenerationRows]]
      /\ certificate' \in [Certificates -> CertificateRows]
      /\ \A t \in Series : series[t].exists =>
            series'[t] = series[t] /\ generations'[t] = generations[t]
      /\ ~certificate[x].exists
      /\ \E cert \in CertificateRows :
            /\ certificate' = [certificate EXCEPT ![x] = cert]
            /\ cert.exists /\ cert.issuer = a /\ cert.serial = n
            /\ cert.operation = "import"
      /\ References' /\ AnswersStored' /\ HistoryIsLinear' /\ RotationKept'
  BY <1>1, <1>2, StoringFirst DEF IssuanceInv
<1>4. PICK cert \in CertificateRows :
        /\ certificate' = [certificate EXCEPT ![x] = cert]
        /\ cert.exists /\ cert.issuer = a /\ cert.serial = n
        /\ cert.operation = "import"
  BY <1>3
<1>5. SerialsUnique'
  BY <1>1, <1>4, SerialsKept DEF IssuanceInv, RowFacts
<1>6. OneCertificatePerRequest'
  <2>1. /\ certificate'[x].operation = "import"
        /\ \A y \in Certificates \ {x} : certificate'[y] = certificate[y]
    BY <1>4 DEF IssuanceInv, TypeOK
  <2> QED BY <1>1, <2>1 DEF IssuanceInv, RowFacts, OneCertificatePerRequest
<1>7. CallFacts'
  <2>1. \A t \in Series : series[t].version \in Nat
    BY DEF IssuanceInv, TypeOK, SeriesRows
  <2>2. \A t \in Series : series[t].exists =>
          /\ series'[t].exists
          /\ series'[t].version >= series[t].version
          /\ series'[t].version = series[t].version =>
               /\ series'[t].generation = series[t].generation
               /\ generations'[t] = generations[t]
    BY <1>3, <2>1
  <2>3. ASSUME NEW d \in Callers PROVE CallFact(calls[d])'
    <3>1. PICK r \in CallRows : r = calls[d]
      BY DEF IssuanceInv, TypeOK
    <3>2. CallFact(r)'
      BY <1>3, <2>2, <3>1, CallFactKept DEF IssuanceInv, CallFacts
    <3> QED BY <1>1, <3>1, <3>2 DEF CallFact, Planned
  <2> QED BY <2>3 DEF CallFacts
<1>8. TypeOK'
  BY <1>1, <1>3 DEF IssuanceInv, TypeOK, facts
<1> QED BY <1>3, <1>5, <1>6, <1>7, <1>8 DEF IssuanceInv, RowFacts, Rows

-----------------------------------------------------------------------------
(* The specification.                                                      *)

\* The empty database.
LEMMA IssuanceInit ==
    ASSUME Init
    PROVE  IssuanceInv
<1>1. TypeOK
  BY EmptyRows DEF Init, TypeOK
<1>2. /\ \A x \in Certificates : ~certificate[x].exists
      /\ \A x \in Certificates : certificate[x].operation = "none"
      /\ \A x \in Certificates : certificate[x].previous = None
      /\ \A s \in Series : ~series[s].exists
      /\ \A op \in Operations, id \in RequestIDs : requests[op][id].certificate = None
  BY DEF Init, NoCertificate, NoSeries, NoRequest
<1>3. Rows
  BY <1>2 DEF Init, Rows, References, AnswersStored
<1>4. HistoryIsLinear /\ RotationKept /\ SerialsUnique /\ OneCertificatePerRequest
  BY <1>2 DEF HistoryIsLinear, RotationKept, SerialsUnique, OneCertificatePerRequest
<1>5. CallFacts
  BY DEF Init, CallFacts, CallFact, IdleCall
<1> QED BY <1>1, <1>3, <1>4, <1>5 DEF IssuanceInv, RowFacts

\* Every step keeps the invariant.
LEMMA IssuanceNext ==
    ASSUME IssuanceInv, [Next]_vars
    PROVE  IssuanceInv'
<1>1. CASE UNCHANGED vars
  <2>1. RowFacts'
    BY <1>1, RowsKept DEF vars, IssuanceInv
  <2> QED BY <1>1, <2>1 DEF vars, pki, facts, IssuanceInv, TypeOK, CallFacts, CallFact,
          Planned
<1>2. ASSUME NEW c \in Callers, CallStep(c) PROVE IssuanceInv'
  <2>1. CASE Commit(c)
    BY <2>1, CommitStep DEF Commit
  <2>2. CASE CommitReplays(c) \/ CallFails(c)
    BY <2>2, CallEnds DEF CommitReplays, CallFails
  <2> QED BY <1>2, <2>1, <2>2, ReplayStep, PrepareStep, StaleStep DEF CallStep
<1> QED BY <1>1, <1>2, CallBegins, ImportStep, FactsStep DEF Next

\* In every behaviour.
THEOREM IssuanceInvariant == Spec => []IssuanceInv
BY IssuanceInit, IssuanceNext, PTL DEF Spec

\* Every variable holds rows of the table it models.
THEOREM IssuanceTypeCorrect == Spec => []TypeOK
<1>1. IssuanceInv => TypeOK
  BY DEF IssuanceInv
<1> QED BY <1>1, IssuanceInvariant, PTL

\* Concurrent renewals never fork the history of a series: commitRenew asks again
\* for the version its client saw.
THEOREM HistoryIsLinearCorrect == Spec => []HistoryIsLinear
<1>1. IssuanceInv => HistoryIsLinear
  BY DEF IssuanceInv, RowFacts
<1> QED BY <1>1, IssuanceInvariant, PTL

\* rotate_every is kept for every interval and number of concurrent renewals.
THEOREM RotationKeptCorrect == Spec => []RotationKept
<1>1. IssuanceInv => RotationKept
  BY DEF IssuanceInv, RowFacts
<1> QED BY <1>1, IssuanceInvariant, PTL

\* However often a request is sent, its key answers one certificate, and every
\* certificate that was issued answers one key.
THEOREM OneCertificatePerRequestCorrect == Spec => []OneCertificatePerRequest
<1>1. IssuanceInv => OneCertificatePerRequest
  BY DEF IssuanceInv, RowFacts
<1> QED BY <1>1, IssuanceInvariant, PTL

\* No two certificates of one issuer share a serial number, although it is drawn
\* before the transaction that stores it.
THEOREM SerialsUniqueCorrect == Spec => []SerialsUnique
<1>1. IssuanceInv => SerialsUnique
  BY DEF IssuanceInv, RowFacts
<1> QED BY <1>1, IssuanceInvariant, PTL

\* The answer to a key is given once and for all.
THEOREM AnswerStableCorrect == Spec => AnswerStable
<1> DEFINE A == \A op \in Operations, id \in RequestIDs :
                    requests[op][id].certificate # None =>
                        requests'[op][id] = requests[op][id]
<1>1. ASSUME IssuanceInv, [Next]_vars PROVE [A]_vars
  <2>1. CASE UNCHANGED requests
    BY <2>1
  <2>2. ASSUME NEW c \in Callers, NEW x \in Certificates, CommitStored(c, x) PROVE A
    <3>1. /\ Stored(c).certificate = None
          /\ StoreRequestResult(c, x)
      BY <2>2 DEF CommitStored, Unanswered
    <3>2. PICK o \in Operations, i \in RequestIDs :
            o = calls[c].operation /\ i = calls[c].id
      BY <1>1, <2>2 DEF CommitStored, IssuanceInv, TypeOK, CallRows, CallFacts, CallFact
    <3> QED BY <1>1, <3>1, <3>2 DEF Stored, StoreRequestResult, IssuanceInv, TypeOK
  <2>3. \/ UNCHANGED requests
        \/ \E c \in Callers, x \in Certificates : CommitStored(c, x)
    BY <1>1 DEF Next, vars, pki, Issue, Renew, Call, CallStep, ReplayBeforePreparation,
       Prepare, Commit, CommitReplays, CommitStale, CallFails, InsertImportedLeaf,
       Revoke, MarkCompromised, AuthorityChanges, SettingsUpdated
  <2> QED BY <2>1, <2>2, <2>3
<1>2. Spec => [][A]_vars
  BY <1>1, IssuanceInvariant, PTL DEF Spec
<1> QED BY <1>2 DEF AnswerStable

\* A key that is revoked or compromised by the time of the commit gets no further
\* certificate.
THEOREM ExposedKeyNotRenewedCorrect == Spec => ExposedKeyNotRenewed
<1> DEFINE A == \A x \in Certificates :
                    certificate'[x].operation = "renew" /\ ~certificate[x].exists =>
                        /\ <<certificate'[x].series, certificate'[x].generation>>
                               \notin compromised
                        /\ certificate'[x].previous \notin revoked
<1>1. ASSUME IssuanceInv, [Next]_vars PROVE [A]_vars
  <2>1. CASE UNCHANGED certificate
    BY <1>1, <2>1 DEF IssuanceInv, RowFacts, Rows, References, NoCertificate
  <2>2. ASSUME NEW c \in Callers, NEW x \in Certificates, CommitStored(c, x) PROVE A
    <3>1. CASE IssueStored(c, x)
      <4>1. \A y \in Certificates \ {x} : certificate'[y] = certificate[y]
        BY <1>1, <3>1 DEF IssueStored, StoreFirst, IssuanceInv, TypeOK
      <4>2. certificate'[x].operation = "initial"
        BY <1>1, <3>1 DEF IssueStored, StoreFirst, IssuanceInv, TypeOK
      <4> QED BY <1>1, <4>1, <4>2 DEF IssuanceInv, RowFacts, Rows, References, NoCertificate
    <3>2. CASE RenewStored(c, x)
      <4>1. \A y \in Certificates \ {x} : certificate'[y] = certificate[y]
        BY <1>1, <3>2 DEF RenewStored, IssuanceInv, TypeOK
      <4>2. /\ certificate'[x].operation =
                    IF calls[c].prep.rotated THEN "rekey" ELSE "renew"
            /\ certificate'[x].series = calls[c].input.series
            /\ certificate'[x].generation = GenerationAfter(c)
            /\ certificate'[x].previous = calls[c].input.source
            /\ calls[c].operation = "renew"
        BY <1>1, <3>2 DEF RenewStored, IssuanceInv, TypeOK
      <4>3. ~calls[c].prep.rotated =>
                KeyRenewable(calls[c].input.series, calls[c].prep.generation,
                             calls[c].input.source)
        BY <2>2, <4>2 DEF CommitStored, CommitAllowed
      <4>4. ~calls[c].prep.rotated => GenerationAfter(c) = calls[c].prep.generation
        BY DEF GenerationAfter
      <4> QED
        BY <1>1, <4>1, <4>2, <4>3, <4>4
           DEF KeyRenewable, IssuanceInv, RowFacts, Rows, References, NoCertificate
    <3> QED BY <2>2, <3>1, <3>2 DEF CommitStored
  <2>3. ASSUME NEW s \in Series, NEW x \in Certificates, NEW a \in Authorities,
               NEW n \in Serials, InsertImportedLeaf(s, x, a, n)
        PROVE  A
    <3>1. /\ \A y \in Certificates \ {x} : certificate'[y] = certificate[y]
          /\ certificate'[x].operation = "import"
      BY <1>1, <2>3 DEF InsertImportedLeaf, StoreFirst, IssuanceInv, TypeOK
    <3> QED BY <1>1, <3>1 DEF IssuanceInv, RowFacts, Rows, References, NoCertificate
  <2>4. \/ UNCHANGED certificate
        \/ \E c \in Callers, x \in Certificates : CommitStored(c, x)
        \/ \E s \in Series, x \in Certificates, a \in Authorities, n \in Serials :
                InsertImportedLeaf(s, x, a, n)
    BY <1>1 DEF Next, vars, pki, Issue, Renew, Call, CallStep, ReplayBeforePreparation,
       Prepare, Commit, CommitReplays, CommitStale, CallFails,
       Revoke, MarkCompromised, AuthorityChanges, SettingsUpdated
  <2> QED BY <2>1, <2>2, <2>3, <2>4
<1>2. Spec => [][A]_vars
  BY <1>1, IssuanceInvariant, PTL DEF Spec
<1> QED BY <1>2 DEF ExposedKeyNotRenewed

=============================================================================
