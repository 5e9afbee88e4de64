---------------------------- MODULE ImportProofs ----------------------------
(***************************************************************************)
(* Proofs about Import, for every set of certificates, CRLs, uploads and   *)
(* callers.                                                                *)
(*                                                                         *)
(* An upload is a sequence of any length and what becomes of a file        *)
(* depends on the files before it.  Least turns the well-foundedness of <  *)
(* into induction over a set of numbers; with it ResolveImportItems is     *)
(* shown to satisfy its own equation (Resolved), and everything the rest   *)
(* needs of a resolution is read off that equation.  ImportInv is the      *)
(* inductive invariant: beside the properties it says what a prepared call *)
(* knows, that a certified key is stored, and that a destroyed key is      *)
(* gone.  Kept is what no step takes away, and most of ImportInv follows   *)
(* from it and from what a step adds.                                      *)
(***************************************************************************)
EXTENDS Import, FiniteSetTheorems, WellFoundedInduction, TLAPS

-----------------------------------------------------------------------------
(* Numbers.                                                                *)

\* The order that has a least element in every set of numbers.
Less == {ss \in Nat \X Nat : ss[1] < ss[2]}

\* A set of numbers that is not empty has a least one.
LEMMA Least ==
    ASSUME NEW T \in SUBSET Nat, T # {}
    PROVE  \E m \in T : \A k \in T : m <= k
<1>1. IsWellFoundedOn(OpToRel(<, Nat), Nat)
  BY NatLessThanWellFounded
<1>2. IsWellFoundedOn(Less, Nat)
  BY <1>1 DEF OpToRel, Less
<1>3. PICK m \in T : \A k \in T : ~(<<k, m>> \in Less)
  BY <1>2, WFMin
<1>4. ASSUME NEW k \in T PROVE m <= k
  <2>1. k \in Nat /\ m \in Nat
    OBVIOUS
  <2>2. ~(k < m)
    BY <1>3, <2>1 DEF Less
  <2> QED BY <2>1, <2>2
<1> QED BY <1>4

\* Induction, over a set of numbers.
LEMMA Induct ==
    ASSUME NEW S \in SUBSET Nat, 0 \in S, \A n \in S : n + 1 \in S
    PROVE  S = Nat
<1>1. SUFFICES ASSUME Nat \ S # {} PROVE FALSE
  OBVIOUS
<1>2. PICK m \in Nat \ S : \A k \in Nat \ S : m <= k
  BY <1>1, Least
<1>3. m # 0 /\ m - 1 \in Nat
  BY <1>2
<1>4. m - 1 \in S
  BY <1>2, <1>3
<1> QED BY <1>2, <1>3, <1>4

\* A set of numbers listed by a sequence has a greatest.
LEMMA Greatest ==
    ASSUME NEW n \in Nat, NEW f, NEW first, NEW T \in SUBSET Nat, first \in T,
           \A x \in T : x = first \/ \E i \in 1..n : f[i] = x
    PROVE  \E m \in T : \A x \in T : x <= m
<1> DEFINE Upto(k) == {x \in T : x = first \/ \E i \in 1..k : f[i] = x}
           S == {k \in Nat : \E m \in Upto(k) : \A x \in Upto(k) : x <= m}
<1>1. 0 \in S
  <2>1. Upto(0) = {first} /\ first <= first
    OBVIOUS
  <2> QED BY <2>1
<1>2. ASSUME NEW k \in S PROVE k + 1 \in S
  <2>1. PICK m \in Upto(k) : \A x \in Upto(k) : x <= m
    BY <1>2
  <2>2. m \in Nat /\ k \in Nat
    BY <2>1
  <2>3. \A x : x \in Upto(k + 1) <=> x \in Upto(k) \/ (x = f[k + 1] /\ x \in T)
    BY <2>2
  <2>4. \A x \in Upto(k + 1) : x \in Nat
    OBVIOUS
  <2>5. \E l \in Upto(k + 1) : \A x \in Upto(k + 1) : x <= l
    <3> HIDE DEF Upto
    <3>1. CASE f[k + 1] \in T /\ m <= f[k + 1]
      BY <2>1, <2>2, <2>3, <2>4, <3>1
    <3>2. CASE ~(f[k + 1] \in T /\ m <= f[k + 1])
      BY <2>1, <2>2, <2>3, <2>4, <3>2
    <3> QED BY <3>1, <3>2
  <2> HIDE DEF Upto
  <2> QED BY <2>2, <2>5
<1>3. n \in S
  <2> HIDE DEF S
  <2>1. S \in SUBSET Nat
    BY DEF S
  <2>2. S = Nat
    BY <1>1, <1>2, <2>1, Induct
  <2> QED BY <2>2
<1>4. Upto(n) = T
  OBVIOUS
<1> QED BY <1>3, <1>4

-----------------------------------------------------------------------------
(* Resolution.                                                             *)

\* What becomes of a file depends on the files before it.
LEMMA ResolveLocal ==
    ASSUME NEW files \in Seq(FileRows), NEW f, NEW g, NEW i \in DOMAIN files,
           \A j \in 1..(i - 1) : f[j] = g[j]
    PROVE  ResolveItem(files, f, i) = ResolveItem(files, g, i)
<1>1. KeyTaken(files, f, i) <=> KeyTaken(files, g, i)
  BY DEF KeyTaken
<1>2. ResolveIssuer(files, f, i) = ResolveIssuer(files, g, i)
  <2>1. \A j \in DOMAIN files : j < i => f[j] = g[j]
    OBVIOUS
  <2>2. BatchIssuers(files, f, i) = BatchIssuers(files, g, i)
    BY <2>1 DEF BatchIssuers
  <2> QED BY <2>2 DEF ResolveIssuer
<1> QED BY <1>1, <1>2 DEF ResolveItem

\* So every upload has a resolution, and it satisfies its own equation.
LEMMA Resolved ==
    ASSUME NEW files \in Seq(FileRows)
    PROVE  ResolveImportItems(files) =
              [i \in DOMAIN files |-> ResolveItem(files, ResolveImportItems(files), i)]
<1> DEFINE Upto(k, f) == f = [i \in 1..k |-> ResolveItem(files, f, i)]
           n == Len(files)
           S == {k \in Nat : k <= n => \E f : Upto(k, f)}
<1>n. n \in Nat /\ DOMAIN files = 1..n
  OBVIOUS
<1>1. 0 \in S
  <2> DEFINE f == [i \in 1..0 |-> 0]
  <2>1. Upto(0, f)
    OBVIOUS
  <2> QED BY <2>1
<1>2. ASSUME NEW k \in S PROVE k + 1 \in S
  <2> SUFFICES ASSUME k + 1 <= n PROVE \E f : Upto(k + 1, f)
    OBVIOUS
  <2>0. k \in Nat /\ k + 1 <= n
    OBVIOUS
  <2>1. PICK f : Upto(k, f)
    BY <2>0, <1>n
  <2> DEFINE g == [i \in 1..(k + 1) |-> ResolveItem(files, f, i)]
  <2>2. \A i \in 1..k : g[i] = f[i]
    BY <2>1
  <2>3. ASSUME NEW i \in 1..(k + 1)
        PROVE  ResolveItem(files, g, i) = ResolveItem(files, f, i)
    <3> HIDE DEF g, S
    <3>1. i \in DOMAIN files /\ \A j \in 1..(i - 1) : g[j] = f[j]
      BY <2>0, <2>2, <1>n
    <3> QED BY <3>1, ResolveLocal
  <2>4. Upto(k + 1, g)
    BY <2>3
  <2> HIDE DEF g
  <2> QED BY <2>4
<1>3. \E f : Upto(n, f)
  <2> HIDE DEF S
  <2>1. S \in SUBSET Nat
    BY DEF S
  <2>2. S = Nat
    BY <1>1, <1>2, <2>1, Induct
  <2>3. n \in S
    BY <2>2, <1>n
  <2> QED BY <2>3, <1>n DEF S
<1> QED BY <1>3, <1>n DEF ResolveImportItems

\* The item of a file is what its kind says.
LEMMA FileTypes ==
    ASSUME NEW files \in Seq(FileRows), NEW i \in DOMAIN files
    PROVE  /\ IsCert(files[i]) => files[i].item \in Certs
           /\ files[i].kind = "crl" => files[i].item \in CRLs
           /\ files[i].kind = "ca_key" => files[i].item \in Keys
           /\ i \in Nat \ {0} /\ ~(IsCert(files[i]) /\ files[i].kind = "crl")
<1>1. files[i] \in FileRows /\ i \in Nat \ {0}
  OBVIOUS
<1> QED BY <1>1 DEF FileRows, FilesOf, IsCert

\* The first file with the item of file i.
LEMMA FirstOf ==
    ASSUME NEW files \in Seq(FileRows), NEW i \in DOMAIN files,
           NEW same,
           same = {j \in 1..(i - 1) : IsCert(files[j]) /\ files[j].item = files[i].item},
           same # {}
    PROVE  (CHOOSE j \in same : \A k \in same : j <= k) \in same
<1>1. \E j \in same : \A k \in same : j <= k
  <2>1. same \in SUBSET Nat
    OBVIOUS
  <2> QED BY <2>1, Least
<1> QED BY <1>1

\* A file is new, repeats a stored certificate, repeats a file, or is refused.
LEMMA ItemResolved ==
    ASSUME NEW files \in Seq(FileRows), NEW out, out = ResolveImportItems(files),
           NEW i \in DOMAIN files, IsCert(files[i])
    PROVE  /\ out[i].status = "new" =>
                /\ ~Stored(files[i].item)
                /\ ~KeyTaken(files, out, i)
                /\ \A j \in 1..(i - 1) :
                        ~(IsCert(files[j]) /\ files[j].item = files[i].item)
                /\ out[i] = ResolveIssuer(files, out, i)
           /\ out[i].status = "duplicate" =>
                \/ out[i].first = 0 /\ Stored(files[i].item)
                \/ \E j \in 1..(i - 1) : /\ IsCert(files[j])
                                         /\ files[j].item = files[i].item
                                         /\ out[i].first = j
           /\ out[i].status \in {"new", "duplicate", "conflict"}
<1> DEFINE same == {j \in 1..(i - 1) : IsCert(files[j]) /\ files[j].item = files[i].item}
<1>1. out[i] = ResolveItem(files, out, i)
  BY Resolved
<1>a. /\ New.status = "new" /\ Conflict.status = "conflict"
      /\ \A j : Duplicate(j).status = "duplicate" /\ Duplicate(j).first = j
  BY DEF New, Conflict, Duplicate
<1>2. CASE same # {}
  <2>1. (CHOOSE j \in same : \A k \in same : j <= k) \in same
    BY <1>2, FirstOf
  <2>2. out[i] = Duplicate(CHOOSE j \in same : \A k \in same : j <= k)
    BY <1>1, <1>2 DEF ResolveItem
  <2> HIDE DEF same
  <2>3. out[i].status = "duplicate" /\ out[i].first \in same
    BY <2>1, <2>2, <1>a
  <2> QED BY <2>3 DEF same
<1>3. CASE same = {} /\ Stored(files[i].item)
  <2>1. out[i] = Duplicate(0)
    BY <1>1, <1>3 DEF ResolveItem
  <2> QED BY <1>3, <2>1, <1>a
<1>4. CASE same = {} /\ ~Stored(files[i].item)
  <2>1. out[i] = IF KeyTaken(files, out, i) THEN Conflict ELSE ResolveIssuer(files, out, i)
    BY <1>1, <1>4 DEF ResolveItem
  <2>2. ResolveIssuer(files, out, i).status \in {"new", "conflict"}
    BY DEF ResolveIssuer, New, Conflict
  <2> QED BY <1>4, <2>1, <2>2, <1>a
<1> QED BY <1>2, <1>3, <1>4

\* The issuer found for a new file: none, for a root; the file of a CA in the
\* upload; or the stored CA the sender named.
Rooted(files, out, i) ==
    /\ out[i].batch = 0 /\ out[i].issuer = None
    /\ SelfIssued(files[i].item) /\ files[i].item \in CAs

InBatch(files, out, i) ==
    LET j == out[i].batch IN
    /\ j \in DOMAIN files /\ IsCert(files[j]) /\ files[j].item \in CAs
    /\ ~SelfIssued(files[i].item)
    /\ CertFacts[files[j].item].subject = CertFacts[files[i].item].issuer
    /\ files[i].item \in CAs <=> SelfIssued(files[j].item)

UnderStored(files, out, i) ==
    LET p == out[i].issuer IN
    /\ out[i].batch = 0 /\ p \in CAs /\ Stored(p)
    /\ ~SelfIssued(files[i].item)
    /\ CertFacts[p].subject = CertFacts[files[i].item].issuer
    /\ files[i].item \in CAs <=> IsRoot(p)

\* A new file has one of these issuers.
LEMMA IssuerResolved ==
    ASSUME NEW files \in Seq(FileRows), NEW out, out = ResolveImportItems(files),
           NEW i \in NewCerts(files, out)
    PROVE  Rooted(files, out, i) \/ InBatch(files, out, i) \/ UnderStored(files, out, i)
<1> DEFINE c == files[i].item
           batch == BatchIssuers(files, out, i)
           j == CHOOSE k \in batch : TRUE
<1>1. /\ i \in DOMAIN files /\ c \in Certs /\ out[i] = ResolveIssuer(files, out, i)
      /\ out[i].status = "new"
  BY ItemResolved, FileTypes DEF NewCerts
<1>2. Conflict.status = "conflict" /\ New.batch = 0 /\ New.issuer = None
  BY DEF Conflict, New
<1>c. c \in CAs <=> CertFacts[c].ca
  BY <1>1 DEF CAs
<1>3. CASE SelfIssued(c)
  <2>1. out[i] = IF c \in CAs THEN New ELSE Conflict
    BY <1>1, <1>3 DEF ResolveIssuer
  <2> QED BY <1>1, <1>2, <1>3, <2>1 DEF Rooted
<1>4. CASE ~SelfIssued(c) /\ Cardinality(batch) > 1
  <2>1. out[i] = Conflict
    BY <1>1, <1>4 DEF ResolveIssuer
  <2> QED BY <1>1, <1>2, <2>1
<1>5. CASE ~SelfIssued(c) /\ Cardinality(batch) = 1
  <2>1. batch # {}
    <3> HIDE DEF batch
    <3>1. batch = {} => Cardinality(batch) = 0
      BY FS_EmptySet, Zenon
    <3> QED BY <1>5, <3>1
  <2>2. j \in batch
    BY <2>1
  <2>3. ~(Cardinality(batch) > 1)
    BY <1>5
  <2>4. out[i] = IF DepthAllowed(c, SelfIssued(files[j].item))
                 THEN [New EXCEPT !.batch = j] ELSE Conflict
    BY <1>1, <1>5, <2>3 DEF ResolveIssuer
  <2>5. DepthAllowed(c, SelfIssued(files[j].item)) /\ out[i].batch = j
    <3> HIDE DEF j, c
    <3> QED BY <1>1, <1>2, <2>4 DEF New
  <2> QED BY <1>c, <1>5, <2>2, <2>5 DEF InBatch, DepthAllowed, BatchIssuers
<1>6. CASE ~SelfIssued(c) /\ ~(Cardinality(batch) > 1) /\ Cardinality(batch) # 1
  <2> DEFINE hint == files[i].hint
  <2>1. out[i] = IF /\ hint # None /\ hint \in CAs /\ Stored(hint)
                    /\ CertFacts[hint].subject = CertFacts[c].issuer
                    /\ DepthAllowed(c, IsRoot(hint))
                 THEN [New EXCEPT !.issuer = hint] ELSE Conflict
    BY <1>1, <1>6 DEF ResolveIssuer
  <2>2. /\ hint \in CAs /\ Stored(hint)
        /\ CertFacts[hint].subject = CertFacts[c].issuer
        /\ DepthAllowed(c, IsRoot(hint))
        /\ out[i].issuer = hint /\ out[i].batch = 0
    <3> HIDE DEF hint, c
    <3> QED BY <1>1, <1>2, <2>1 DEF New
  <2> QED BY <1>c, <1>6, <2>2 DEF UnderStored, DepthAllowed
<1> QED BY <1>3, <1>4, <1>5, <1>6

\* A new file is the only one with its certificate, and with its key.
LEMMA NewDistinct ==
    ASSUME NEW files \in Seq(FileRows), NEW out, out = ResolveImportItems(files),
           NEW i \in NewCerts(files, out), NEW j \in NewCerts(files, out),
           \/ files[i].item = files[j].item
           \/ CertFacts[files[i].item].key = CertFacts[files[j].item].key
    PROVE  i = j
<1>1. ASSUME NEW x \in NewCerts(files, out), NEW y \in NewCerts(files, out), x < y
      PROVE  CertFacts[files[x].item].key # CertFacts[files[y].item].key
  <2>1. /\ x \in 1..(y - 1) /\ IsCert(files[x]) /\ out[x].status = "new"
        /\ y \in DOMAIN files /\ IsCert(files[y])
    BY <1>1 DEF NewCerts
  <2>2. ~KeyTaken(files, out, y)
    BY <1>1, <2>1, ItemResolved DEF NewCerts
  <2> QED BY <2>1, <2>2 DEF KeyTaken
<1>2. i \in Nat /\ j \in Nat
  BY DEF NewCerts
<1> QED BY <1>1, <1>2

\* If no file is refused every certificate is stored, or new in some file.
LEMMA EveryCertificate ==
    ASSUME NEW files \in Seq(FileRows), NEW out, out = ResolveImportItems(files),
           \A i \in DOMAIN files : out[i].status # "conflict",
           NEW i \in DOMAIN files, IsCert(files[i]), ~Stored(files[i].item)
    PROVE  \E j \in NewCerts(files, out) : files[j].item = files[i].item
<1> DEFINE T == {j \in DOMAIN files : IsCert(files[j]) /\ files[j].item = files[i].item}
<1>1. PICK m \in T : \A k \in T : m <= k
  <2>1. T \in SUBSET Nat /\ T # {}
    OBVIOUS
  <2> HIDE DEF T
  <2> QED BY <2>1, Least
<1>2. m \in DOMAIN files /\ IsCert(files[m]) /\ files[m].item = files[i].item
  BY <1>1
<1>3. ~(\E j \in 1..(m - 1) : IsCert(files[j]) /\ files[j].item = files[m].item)
  <2> SUFFICES ASSUME NEW j \in 1..(m - 1), IsCert(files[j]), files[j].item = files[m].item
               PROVE  FALSE
    OBVIOUS
  <2>1. j \in T /\ j < m
    BY <1>2
  <2> QED BY <1>1, <2>1
<1>4. out[m].status = "new"
  BY <1>2, <1>3, ItemResolved
<1> QED BY <1>2, <1>4 DEF NewCerts

-----------------------------------------------------------------------------
(* The certificates of a committed upload.                                 *)

\* Stored certificates stay what they are.
StoredKept == \A c \in Certs : Stored(c) => issuer'[c] = issuer[c]

\* The issuer found is a CA or none, and never the certificate itself.
LEMMA IssuerFound ==
    ASSUME NEW files \in Seq(FileRows), NEW out, out = ResolveImportItems(files),
           NEW i \in NewCerts(files, out)
    PROVE  /\ files[i].item \in Certs /\ ~Stored(files[i].item)
           /\ IssuerOf(files, out, i) \in CAs \cup {None}
           /\ IssuerOf(files, out, i) # files[i].item
           /\ IssuerOf(files, out, i) = None <=> SelfIssued(files[i].item)
<1>1. /\ i \in DOMAIN files /\ files[i].item \in Certs /\ ~Stored(files[i].item)
      /\ None \notin Certs /\ CAs \subseteq Certs
  BY ItemResolved, FileTypes, ImportConstants DEF NewCerts, CAs
<1>2. CASE Rooted(files, out, i)
  BY <1>1, <1>2 DEF Rooted, IssuerOf
<1>3. CASE InBatch(files, out, i)
  <2>1. out[i].batch # 0
    BY <1>3 DEF InBatch
  <2> QED BY <1>1, <1>3, <2>1 DEF InBatch, IssuerOf, SelfIssued
<1>4. CASE UnderStored(files, out, i)
  BY <1>1, <1>4 DEF UnderStored, IssuerOf, SelfIssued
<1> QED BY <1>1, <1>2, <1>3, <1>4, IssuerResolved

\* StoreCertificates stores the new ones and leaves the rest alone.
LEMMA CertificatesStored ==
    ASSUME TypeOK, NEW files \in Seq(FileRows), NEW out,
           out = ResolveImportItems(files), StoreCertificates(files, out)
    PROVE  /\ \A i \in NewCerts(files, out) :
                issuer'[files[i].item] = IssuerOf(files, out, i)
           /\ \A c \in Certs : \/ issuer'[c] = issuer[c]
                               \/ \E i \in NewCerts(files, out) : files[i].item = c
           /\ StoredKept
           /\ \A c \in Certs :
                Stored(c)' <=> \/ Stored(c)
                               \/ \E i \in NewCerts(files, out) : files[i].item = c
           /\ issuer' \in [Certs -> Certs \cup {None}]
<1> DEFINE new == NewCerts(files, out)
           added == {files[i].item : i \in new}
           At(c) == CHOOSE i \in new : files[i].item = c
<1>1. issuer' = [c \in Certs |->
                    IF c \in added THEN IssuerOf(files, out, At(c)) ELSE issuer[c]]
  BY DEF StoreCertificates
<1>2. \A i \in new : /\ files[i].item \in Certs /\ ~Stored(files[i].item)
                     /\ IssuerOf(files, out, i) \in CAs \cup {None}
                     /\ IssuerOf(files, out, i) # files[i].item
  BY IssuerFound
<1>3. ASSUME NEW i \in new PROVE At(files[i].item) = i
  <2>1. At(files[i].item) \in new /\ files[At(files[i].item)].item = files[i].item
    OBVIOUS
  <2> HIDE DEF At
  <2> QED BY <2>1, NewDistinct
<1>4. \A i \in new : issuer'[files[i].item] = IssuerOf(files, out, i)
  <2> HIDE DEF At
  <2> QED BY <1>1, <1>2, <1>3
<1>5. \A c \in Certs : issuer'[c] = issuer[c] \/ \E i \in new : files[i].item = c
  BY <1>1
<1>6. StoredKept
  BY <1>2, <1>5 DEF StoredKept
<1>7. \A c \in Certs : Stored(c)' <=> Stored(c) \/ \E i \in new : files[i].item = c
  <2> HIDE DEF new
  <2> QED BY <1>2, <1>4, <1>5, <1>6 DEF Stored, StoredKept
<1>8. issuer' \in [Certs -> Certs \cup {None}]
  <2>1. ASSUME NEW c \in Certs PROVE issuer'[c] \in Certs \cup {None}
    <3> HIDE DEF new
    <3> QED BY <1>2, <1>4, <1>5 DEF TypeOK, CAs
  <2> HIDE DEF At, added
  <2> QED BY <1>1, <2>1
<1> QED BY <1>4, <1>5, <1>6, <1>7, <1>8

\* What commitImport stores hangs together.
LEMMA ChainsCommitted ==
    ASSUME TypeOK, ChainsSound, NEW files \in Seq(FileRows), NEW out,
           out = ResolveImportItems(files), Consistent(files, out),
           IssuersResolved(files, out), StoreCertificates(files, out)
    PROVE  ChainsSound'
<1> DEFINE new == NewCerts(files, out)
           Sound(c) == IF IsRoot(c)
                       THEN /\ c \in CAs /\ SelfIssued(c)
                            /\ CertFacts[c].signer = CertFacts[c].key
                       ELSE /\ issuer[c] \in CAs /\ Stored(issuer[c])
                            /\ CertFacts[issuer[c]].subject = CertFacts[c].issuer
                            /\ CertFacts[issuer[c]].key = CertFacts[c].signer
                            /\ c \in CAs <=> IsRoot(issuer[c])
<1>0. CAs \subseteq Certs /\ None \notin Certs
  BY ImportConstants DEF CAs
<1>1. /\ \A i \in new : issuer'[files[i].item] = IssuerOf(files, out, i)
      /\ \A c \in Certs : Stored(c) => issuer'[c] = issuer[c]
      /\ \A c \in Certs : Stored(c)' <=> Stored(c) \/ \E i \in new : files[i].item = c
  BY CertificatesStored DEF StoredKept
<1>2. SUFFICES ASSUME NEW c \in Certs, Stored(c)' PROVE Sound(c)'
  BY DEF ChainsSound
<1>3. CASE Stored(c)
  BY <1>0, <1>1, <1>3 DEF ChainsSound, IsRoot
<1>4. CASE ~Stored(c)
  <2>1. PICK i \in new : files[i].item = c
    BY <1>1, <1>2, <1>4
  <2>2. /\ i \in DOMAIN files /\ issuer'[c] = IssuerOf(files, out, i)
        /\ ChainValid(files, out, i)
    BY <1>1, <2>1 DEF Consistent, NewCerts
  <2>3. CASE Rooted(files, out, i)
    <3>1. issuer'[c] = None
      BY <2>2, <2>3 DEF Rooted, IssuerOf
    <3> QED BY <2>1, <2>2, <2>3, <3>1 DEF Rooted, ChainValid, IsRoot
  <2>4. CASE InBatch(files, out, i)
    <3> DEFINE j == out[i].batch
               p == files[j].item
    <3>1. j # 0 /\ issuer'[c] = p /\ p \in CAs /\ p # None
      BY <1>0, <2>2, <2>4 DEF InBatch, IssuerOf
    <3>2. j \in new
      BY <2>1, <2>4, <3>1 DEF InBatch, IssuersResolved, NewCerts
    <3>3. Stored(p)'
      BY <1>0, <1>1, <3>1, <3>2
    <3>4. IsRoot(p)' <=> SelfIssued(p)
      BY <1>1, <3>2, IssuerFound DEF IsRoot
    <3>5. CertFacts[p].key = CertFacts[c].signer
      BY <2>1, <2>2, <3>1 DEF ChainValid
    <3>6. CertFacts[p].subject = CertFacts[c].issuer /\ (c \in CAs <=> SelfIssued(p))
      BY <2>1, <2>4 DEF InBatch
    <3> HIDE DEF p
    <3> QED BY <3>1, <3>3, <3>4, <3>5, <3>6 DEF IsRoot
  <2>5. CASE UnderStored(files, out, i)
    <3> DEFINE p == out[i].issuer
    <3>1. issuer'[c] = p /\ p \in CAs /\ p # None /\ Stored(p) /\ p \in Certs
      BY <1>0, <2>2, <2>5 DEF UnderStored, IssuerOf
    <3>2. Stored(p)' /\ (IsRoot(p)' <=> IsRoot(p))
      BY <1>1, <3>1 DEF IsRoot
    <3>3. CertFacts[p].key = CertFacts[c].signer
      BY <2>1, <2>2, <3>1 DEF ChainValid
    <3>4. CertFacts[p].subject = CertFacts[c].issuer /\ (c \in CAs <=> IsRoot(p))
      BY <2>1, <2>5 DEF UnderStored
    <3> HIDE DEF p
    <3> QED BY <3>1, <3>2, <3>3, <3>4 DEF IsRoot
  <2> QED BY <2>3, <2>4, <2>5, IssuerResolved
<1> QED BY <1>3, <1>4

\* The slot checked by SerialsAvailable is the one the certificate gets.
LEMMA SlotStored ==
    ASSUME TypeOK, NEW files \in Seq(FileRows), NEW out,
           out = ResolveImportItems(files), StoreCertificates(files, out),
           NEW i \in NewCerts(files, out)
    PROVE  /\ Slot(files, out, i) =
                <<IssuedBy(files[i].item)', CertFacts[files[i].item].serial>>
           /\ IssuedBy(files[i].item)' \in CAs
           /\ CertFacts[files[i].item].serial \in Serials
<1>1. issuer'[files[i].item] = IssuerOf(files, out, i)
  BY CertificatesStored
<1>2. /\ files[i].item \in Certs /\ IssuerOf(files, out, i) \in CAs \cup {None}
      /\ IssuerOf(files, out, i) = None <=> SelfIssued(files[i].item)
  BY IssuerFound
<1>3. IssuerOf(files, out, i) = None => files[i].item \in CAs
  BY <1>2, IssuerResolved DEF Rooted, InBatch, UnderStored
<1> QED BY <1>1, <1>2, <1>3, ImportConstants DEF Slot, IssuedBy, IsRoot

\* The certificates of an upload bring no key and no serial twice.
LEMMA IdentitiesCommitted ==
    ASSUME TypeOK, ChainsSound, IdentitiesUnique, NEW files \in Seq(FileRows), NEW out,
           out = ResolveImportItems(files), SerialsAvailable(files, out),
           StoreCertificates(files, out),
           NEW c \in Certs, NEW d \in Certs, Stored(c)', Stored(d)',
           \/ CertFacts[c].key = CertFacts[d].key
           \/ IssuedBy(c)' = IssuedBy(d)' /\ CertFacts[c].serial = CertFacts[d].serial
    PROVE  c = d
<1> DEFINE new == NewCerts(files, out)
<1>1. /\ \A i \in new : issuer'[files[i].item] = IssuerOf(files, out, i)
      /\ \A e \in Certs : Stored(e) => issuer'[e] = issuer[e]
      /\ \A e \in Certs : Stored(e)' <=> Stored(e) \/ \E i \in new : files[i].item = e
  BY CertificatesStored DEF StoredKept
<1>2. \A e \in Certs : Stored(e) => IssuedBy(e)' = IssuedBy(e)
  BY <1>1 DEF IssuedBy, IsRoot
\* A new certificate against a stored one.
<1>3. ASSUME NEW i \in new, NEW e \in Certs, Stored(e),
             \/ CertFacts[files[i].item].key = CertFacts[e].key
             \/ /\ IssuedBy(files[i].item)' = IssuedBy(e)'
                /\ CertFacts[files[i].item].serial = CertFacts[e].serial
      PROVE  FALSE
  <2> DEFINE a == files[i].item
             p == IssuerOf(files, out, i)
  <2>1. a \in Certs /\ ~Stored(a) /\ ~KeyTaken(files, out, i)
    BY ItemResolved, FileTypes DEF NewCerts
  <2>2. CertFacts[a].key # CertFacts[e].key
    BY <1>3, <2>1 DEF KeyTaken, KeysUsed
  <2>3. IssuedBy(e) = IssuedBy(a)' /\ CertFacts[a].serial = CertFacts[e].serial
    BY <1>2, <1>3, <2>2
  <2>4. CASE p # None
    <3>1. WithSerial(p, CertFacts[a].serial) = {}
      BY <2>4 DEF SerialsAvailable, Slot
    <3>2. IssuedBy(a)' = p
      BY <1>1, <2>4 DEF IssuedBy, IsRoot
    <3> HIDE DEF p
    <3> QED BY <1>3, <2>3, <3>1, <3>2 DEF WithSerial
  <2>5. CASE p = None
    <3>1. IssuedBy(a)' = a
      BY <1>1, <2>5 DEF IssuedBy, IsRoot
    <3>2. IsRoot(e) \/ Stored(issuer[e])
      BY <1>3 DEF ChainsSound
    <3> QED BY <1>3, <2>1, <2>3, <3>1, <3>2 DEF IssuedBy
  <2> QED BY <2>4, <2>5
\* Two new certificates.
<1>4. ASSUME NEW i \in new, NEW j \in new,
             \/ CertFacts[files[i].item].key = CertFacts[files[j].item].key
             \/ /\ IssuedBy(files[i].item)' = IssuedBy(files[j].item)'
                /\ CertFacts[files[i].item].serial = CertFacts[files[j].item].serial
      PROVE  i = j
  <2>1. CASE CertFacts[files[i].item].key = CertFacts[files[j].item].key
    BY <2>1, NewDistinct
  <2>2. CASE CertFacts[files[i].item].key # CertFacts[files[j].item].key
    <3>1. Slot(files, out, i) = Slot(files, out, j)
      BY <1>4, <2>2, SlotStored
    <3> QED BY <3>1 DEF SerialsAvailable
  <2> QED BY <2>1, <2>2
<1>5. CASE Stored(c) /\ Stored(d)
  BY <1>2, <1>5 DEF IdentitiesUnique
<1>6. CASE Stored(c) /\ ~Stored(d)
  <2>1. PICK i \in new : files[i].item = d
    BY <1>1, <1>6
  <2> QED BY <1>3, <1>6, <2>1
<1>7. CASE ~Stored(c) /\ Stored(d)
  <2>1. PICK i \in new : files[i].item = c
    BY <1>1, <1>7
  <2> QED BY <1>3, <1>7, <2>1
<1>8. CASE ~Stored(c) /\ ~Stored(d)
  <2>1. PICK i \in new : files[i].item = c
    BY <1>1, <1>8
  <2>2. PICK j \in new : files[j].item = d
    BY <1>1, <1>8
  <2> QED BY <1>4, <2>1, <2>2
<1> QED BY <1>5, <1>6, <1>7, <1>8

-----------------------------------------------------------------------------
(* The ledger.                                                             *)

\* A change that applyRevocations applies.
ChangeSound(ch) ==
    /\ ch.ca \in CAs /\ ch.serial \in Serials
    /\ ch.facts \in Facts /\ ch.link \in Certs \cup {None} /\ ch.review \in BOOLEAN
    /\ Effective(ch)

\* What never happens to a recorded serial.
LedgerKept ==
    \A ca \in CAs, n \in Serials : Recorded(ca, n) =>
        /\ ledger'[<<ca, n>>].facts = ledger[<<ca, n>>].facts
        /\ ledger[<<ca, n>>].link # None => ledger'[<<ca, n>>].link = ledger[<<ca, n>>].link
        /\ ledger[<<ca, n>>].review => ledger'[<<ca, n>>].review

\* Merge keeps the first facts, a link and a review, and records the serial.
LEMMA MergeKeeps ==
    ASSUME NEW ch, ChangeSound(ch), NEW row \in RevocationRows,
           row = ledger[<<ch.ca, ch.serial>>]
    PROVE  /\ Merge(row, ch) \in RevocationRows
           /\ Merge(row, ch).facts # None
           /\ row.facts # None =>
                /\ Merge(row, ch).facts = row.facts
                /\ row.link # None => Merge(row, ch).link = row.link
                /\ row.review => Merge(row, ch).review
           /\ Merge(row, ch).link \in {row.link, ch.link}
<1>1. None \notin Facts
  BY ImportConstants
<1>2. /\ row.facts \in Facts \cup {None} /\ row.link \in Certs \cup {None}
      /\ row.review \in BOOLEAN
  BY DEF RevocationRows
<1>3. CASE row.facts = None
  <2>1. Merge(row, ch) = [facts |-> ch.facts, link |-> ch.link, review |-> ch.review]
    BY <1>1, <1>3 DEF Merge, ChangeSound
  <2> QED BY <1>1, <1>3, <2>1 DEF ChangeSound, RevocationRows
<1>4. CASE row.facts # None /\ row.facts = ch.facts
  <2>1. Merge(row, ch) = [row EXCEPT !.link = ch.link]
    BY <1>4 DEF Merge
  <2>2. row.link = None
    BY <1>4 DEF ChangeSound, Effective
  <2> QED BY <1>1, <1>4, <2>1, <2>2 DEF ChangeSound, RevocationRows
<1>5. CASE row.facts # None /\ row.facts # ch.facts
  <2>1. Merge(row, ch) = [row EXCEPT !.review = TRUE]
    BY <1>5 DEF Merge
  <2> QED BY <1>1, <1>5, <2>1 DEF RevocationRows
<1> QED BY <1>3, <1>4, <1>5

\* So a transaction that applies sound changes undoes nothing in the ledger.
LEMMA ChangesApplied ==
    ASSUME TypeOK, NEW chs, \A ch \in chs : ChangeSound(ch),
           ledger' = ApplyChanges(chs)
    PROVE  /\ ledger' \in [CAs \X Serials -> RevocationRows]
           /\ LedgerKept
           /\ \A ch \in chs : Recorded(ch.ca, ch.serial)'
           /\ \A ca \in CAs, n \in Serials :
                 \/ ledger'[<<ca, n>>].link = ledger[<<ca, n>>].link
                 \/ \E ch \in chs : /\ ch.ca = ca /\ ch.serial = n
                                    /\ ledger'[<<ca, n>>].link = ch.link
<1> DEFINE For(s) == CHOOSE ch \in chs : <<ch.ca, ch.serial>> = s
<1>1. ledger' = [s \in CAs \X Serials |->
                    IF \E ch \in chs : <<ch.ca, ch.serial>> = s
                    THEN Merge(ledger[s], For(s)) ELSE ledger[s]]
  BY DEF ApplyChanges
<1>2. ASSUME NEW ca \in CAs, NEW n \in Serials
      PROVE  \/ /\ ledger'[<<ca, n>>] = ledger[<<ca, n>>]
                /\ ~\E ch \in chs : ch.ca = ca /\ ch.serial = n
             \/ \E ch \in chs : /\ ch.ca = ca /\ ch.serial = n
                                /\ ledger'[<<ca, n>>] = Merge(ledger[<<ca, n>>], ch)
  <2>1. CASE \E ch \in chs : <<ch.ca, ch.serial>> = <<ca, n>>
    <3>1. For(<<ca, n>>) \in chs
          /\ <<For(<<ca, n>>).ca, For(<<ca, n>>).serial>> = <<ca, n>>
      BY <2>1
    <3> HIDE DEF For
    <3>2. ledger'[<<ca, n>>] = Merge(ledger[<<ca, n>>], For(<<ca, n>>))
      BY <1>1, <2>1
    <3> QED BY <3>1, <3>2
  <2>2. CASE ~\E ch \in chs : <<ch.ca, ch.serial>> = <<ca, n>>
    <3> HIDE DEF For
    <3> QED BY <1>1, <2>2
  <2> QED BY <2>1, <2>2
<1>3. \A ca \in CAs, n \in Serials : ledger[<<ca, n>>] \in RevocationRows
  BY DEF TypeOK
<1>4. ASSUME NEW ca \in CAs, NEW n \in Serials
      PROVE  /\ ledger'[<<ca, n>>] \in RevocationRows
             /\ ledger[<<ca, n>>].facts # None =>
                   /\ ledger'[<<ca, n>>].facts = ledger[<<ca, n>>].facts
                   /\ ledger[<<ca, n>>].link # None =>
                            ledger'[<<ca, n>>].link = ledger[<<ca, n>>].link
                   /\ ledger[<<ca, n>>].review => ledger'[<<ca, n>>].review
             /\ (\E ch \in chs : ch.ca = ca /\ ch.serial = n) =>
                            ledger'[<<ca, n>>].facts # None
             /\ \/ ledger'[<<ca, n>>].link = ledger[<<ca, n>>].link
                \/ \E ch \in chs : /\ ch.ca = ca /\ ch.serial = n
                                   /\ ledger'[<<ca, n>>].link = ch.link
  <2>1. CASE /\ ledger'[<<ca, n>>] = ledger[<<ca, n>>]
             /\ ~\E ch \in chs : ch.ca = ca /\ ch.serial = n
    BY <1>3, <2>1
  <2>2. ASSUME NEW ch \in chs, ch.ca = ca, ch.serial = n,
               ledger'[<<ca, n>>] = Merge(ledger[<<ca, n>>], ch)
        PROVE  /\ ledger'[<<ca, n>>] \in RevocationRows
               /\ ledger[<<ca, n>>].facts # None =>
                     /\ ledger'[<<ca, n>>].facts = ledger[<<ca, n>>].facts
                     /\ ledger[<<ca, n>>].link # None =>
                            ledger'[<<ca, n>>].link = ledger[<<ca, n>>].link
                     /\ ledger[<<ca, n>>].review => ledger'[<<ca, n>>].review
               /\ ledger'[<<ca, n>>].facts # None
               /\ ledger'[<<ca, n>>].link \in {ledger[<<ca, n>>].link, ch.link}
    BY <1>3, <2>2, MergeKeeps
  <2> QED BY <1>2, <2>1, <2>2
<1>5. ledger' \in [CAs \X Serials -> RevocationRows]
  <2>1. ledger' = [s \in CAs \X Serials |-> ledger'[s]]
    BY <1>1
  <2>2. \A s \in CAs \X Serials : ledger'[s] \in RevocationRows
    <3>1. \A s \in CAs \X Serials : \E ca \in CAs, n \in Serials : s = <<ca, n>>
      OBVIOUS
    <3> QED BY <1>4, <3>1
  <2> HIDE DEF For
  <2> QED BY <2>1, <2>2
<1> QED BY <1>4, <1>5 DEF LedgerKept, Recorded, ChangeSound

\* The issuer found for a CRL is a CA with its name and its key, stored or new.
LEMMA CRLIssuerFound ==
    ASSUME NEW files \in Seq(FileRows), NEW out, out = ResolveImportItems(files),
           NEW i \in DOMAIN files, files[i].kind = "crl", CRLValid(files, out, i)
    PROVE  LET ca == CRLIssuer(files, out, i).cert
           IN  /\ ca \in CAs /\ CRLNames(files[i].item, ca)
               /\ CRLFacts[files[i].item].signer = CertFacts[ca].key
               /\ Stored(ca) \/ \E j \in NewCerts(files, out) : files[j].item = ca
<1> DEFINE T == CRLTargets(files, out, i)
           d == files[i].item
<1>1. CRLIssuer(files, out, i) \in T
  <2>1. T # {}
    <3> HIDE DEF T
    <3>1. T = {} => Cardinality(T) = 0
      BY FS_EmptySet, Zenon
    <3> QED BY <3>1 DEF CRLValid, T
  <2> QED BY <2>1 DEF CRLIssuer
<1>2. ASSUME NEW t \in T
      PROVE  /\ t.cert \in CAs /\ CRLNames(d, t.cert)
             /\ Stored(t.cert) \/ \E j \in NewCerts(files, out) : files[j].item = t.cert
  <2> DEFINE named == {j \in DOMAIN files :
                         /\ IsCert(files[j]) /\ files[j].item \in CAs
                         /\ CRLNames(d, files[j].item)
                         /\ CRLFacts[d].aki \in {None, CertFacts[files[j].item].key}
                         /\ out[j].status # "conflict"}
             fresh == {[file |-> j, cert |-> files[j].item] :
                         j \in {k \in named : out[k].status = "new"}}
             again == {[file |-> 0, cert |-> files[j].item] :
                         j \in {k \in named : /\ out[k].status = "duplicate"
                                              /\ out[k].first = 0}}
             existing == {[file |-> 0, cert |-> c] :
                            c \in {ca \in CAs : Stored(ca) /\ CRLNames(d, ca)}}
  <2>1. t \in fresh \/ t \in again \/ t \in existing
    <3> HIDE DEF fresh, again, existing
    <3>1. T = IF files[i].hint # None THEN {x \in existing : x.cert = files[i].hint}
              ELSE IF fresh \cup again # {} THEN fresh \cup again ELSE existing
      BY DEF CRLTargets, fresh, again, existing
    <3> HIDE DEF T
    <3> QED BY <1>2, <3>1
  <2>2. CASE t \in fresh
    BY <2>2 DEF NewCerts
  <2>3. CASE t \in again
    <3>1. PICK j \in named : /\ out[j].status = "duplicate" /\ out[j].first = 0
                             /\ t = [file |-> 0, cert |-> files[j].item]
      BY <2>3
    <3>2. Stored(files[j].item)
      BY <3>1, ItemResolved
    <3> QED BY <3>1, <3>2
  <2>4. CASE t \in existing
    BY <2>4
  <2> QED BY <2>1, <2>2, <2>3, <2>4
<1>3. CRLFacts[d].signer = CertFacts[CRLIssuer(files, out, i).cert].key
  BY <1>1 DEF CRLValid
<1> QED BY <1>1, <1>2, <1>3

\* The changes of an upload are sound and link what the upload leaves stored.
LEMMA ImportChangesSound ==
    ASSUME TypeOK, NEW files \in Seq(FileRows), NEW out,
           out = ResolveImportItems(files), Consistent(files, out),
           StoreCertificates(files, out), NEW ch \in ImportChanges(files, out)
    PROVE  /\ ChangeSound(ch)
           /\ ch.link # None => ch.link \in WithSerial(ch.ca, ch.serial)'
<1>0. Effective(ch)
  BY DEF ImportChanges
<1>a. ASSUME NEW c \in Certs
      PROVE  Stored(c)' <=> \/ Stored(c)
                            \/ \E i \in NewCerts(files, out) : files[i].item = c
  BY CertificatesStored
<1>b. \A c \in Certs : Stored(c) => Stored(c)' /\ IssuedBy(c)' = IssuedBy(c)
  BY <1>a, CertificatesStored DEF StoredKept, IssuedBy, IsRoot
<1>1. ASSUME NEW i \in NewCerts(files, out), ch \in CertificateChanges(files, out, i)
      PROVE  /\ ChangeSound(ch)
             /\ ch.link # None => ch.link \in WithSerial(ch.ca, ch.serial)'
  <2> DEFINE c == files[i].item
             s == Slot(files, out, i)
  <2>1. /\ c \in Certs /\ s = <<IssuedBy(c)', CertFacts[c].serial>>
        /\ s[1] \in CAs /\ s[2] \in Serials
    BY SlotStored, IssuerFound
  <2>2. ledger[s].facts \in Facts \cup {None} /\ Compromise \in Facts
    BY <2>1 DEF TypeOK, RevocationRows, Facts
  <2>3. /\ ch.ca = s[1] /\ ch.serial = s[2] /\ ch.link = c /\ ch.review = FALSE
        /\ ch.facts \in Facts
    <3>1. \/ ch = Change(<<i, "compromise">>, s[1], s[2], Compromise, c, FALSE)
          \/ \E f \in {ledger[s].facts} \ {None} :
                ch = Change(<<i, "history">>, s[1], s[2], f, c, FALSE)
      BY <1>1 DEF CertificateChanges
    <3> HIDE DEF c, s
    <3> QED BY <2>2, <3>1 DEF Change
  <2>4. c \in WithSerial(s[1], s[2])'
    BY <1>a, <2>1 DEF WithSerial
  <2> HIDE DEF c, s
  <2> QED BY <1>0, <2>1, <2>3, <2>4 DEF ChangeSound
<1>2. ASSUME NEW i \in DOMAIN files, files[i].kind = "crl",
             ch \in EntryChanges(files, out, i)
      PROVE  /\ ChangeSound(ch)
             /\ ch.link # None => ch.link \in WithSerial(ch.ca, ch.serial)'
  <2>0. PICK ca : ca = CRLIssuer(files, out, i).cert
    OBVIOUS
  <2>1. ca \in CAs /\ files[i].item \in CRLs
    BY <2>0, <1>2, CRLIssuerFound, FileTypes DEF Consistent
  <2>2. ASSUME NEW n, NEW x \in LinkedBefore(files, out, i, ca, n)
        PROVE  x \in WithSerial(ca, n)'
    <3>1. CASE x \in WithSerial(ca, n)
      BY <1>b, <3>1 DEF WithSerial
    <3>2. ASSUME NEW k \in NewCerts(files, out), Slot(files, out, k) = <<ca, n>>,
                 x = files[k].item
          PROVE  x \in WithSerial(ca, n)'
      <4>1. /\ files[k].item \in Certs /\ Stored(files[k].item)'
            /\ <<IssuedBy(files[k].item)', CertFacts[files[k].item].serial>> = <<ca, n>>
        BY <1>a, <3>2, SlotStored, IssuerFound
      <4> QED BY <3>2, <4>1 DEF WithSerial
    <3> QED BY <2>2, <3>1, <3>2 DEF LinkedBefore
  <2>3. PICK e \in CRLFacts[files[i].item].entries : ch = EntryChange(files, out, i, e)
    BY <1>2 DEF EntryChanges
  <2>4. PICK linked, link :
           /\ linked = LinkedBefore(files, out, i, ca, e.serial)
           /\ link = IF linked = {} THEN None ELSE CHOOSE c \in linked : TRUE
    OBVIOUS
  <2>5. link = None \/ link \in WithSerial(ca, e.serial)'
    <3>1. link = None \/ link \in linked
      BY <2>4
    <3> QED BY <2>2, <2>4, <3>1
  <2>6. /\ e.serial \in Serials /\ e.facts \in Facts
        /\ CRLFacts[files[i].item].expired \in BOOLEAN
    BY <2>1, ImportConstants DEF Facts
  <2>7. /\ ch.ca = ca /\ ch.serial = e.serial /\ ch.facts = e.facts /\ ch.link = link
        /\ ch.review = CRLFacts[files[i].item].expired
    BY <2>0, <2>3, <2>4 DEF EntryChange, Change
  <2>8. link \in Certs \cup {None}
    BY <2>5 DEF WithSerial
  <2>9. ChangeSound(ch)
    BY <1>0, <2>1, <2>6, <2>7, <2>8 DEF ChangeSound
  <2> QED BY <2>5, <2>7, <2>9
<1>3. \/ \E i \in NewCerts(files, out) : ch \in CertificateChanges(files, out, i)
      \/ \E i \in DOMAIN files : files[i].kind = "crl" /\ ch \in EntryChanges(files, out, i)
  BY DEF ImportChanges
<1> QED BY <1>1, <1>2, <1>3

\* An entry of a CRL leaves its serial recorded.
LEMMA EntriesRecorded ==
    ASSUME TypeOK, NEW files \in Seq(FileRows), NEW out,
           out = ResolveImportItems(files), Consistent(files, out),
           StoreCertificates(files, out), ledger' = ApplyChanges(ImportChanges(files, out)),
           NEW i \in DOMAIN files, files[i].kind = "crl",
           NEW e \in CRLFacts[files[i].item].entries,
           NEW ca, ca = CRLIssuer(files, out, i).cert
    PROVE  Recorded(ca, e.serial)'
<1>1. ca \in CAs /\ files[i].item \in CRLs /\ e.serial \in Serials
  BY CRLIssuerFound, FileTypes, ImportConstants DEF Consistent
<1>2. \A x \in ImportChanges(files, out) : ChangeSound(x)
  BY ImportChangesSound
<1>3. /\ \A x \in ImportChanges(files, out) : Recorded(x.ca, x.serial)'
      /\ LedgerKept
  BY <1>2, ChangesApplied
<1>4. PICK ch : ch = EntryChange(files, out, i, e)
  OBVIOUS
<1>5. ch \in EntryChanges(files, out, i)
  BY <1>4 DEF EntryChanges
<1>6. ch.ca = ca /\ ch.serial = e.serial
  BY <1>4 DEF EntryChange, Change
<1>7. CASE Effective(ch)
  <2>1. ch \in ImportChanges(files, out)
    BY <1>5, <1>7 DEF ImportChanges
  <2> QED BY <1>3, <1>6, <2>1
<1>8. CASE ~Effective(ch)
  <2>1. ledger[<<ca, e.serial>>].facts # None
    BY <1>6, <1>8 DEF Effective
  <2> QED BY <1>1, <1>3, <2>1 DEF LedgerKept, Recorded
<1> QED BY <1>7, <1>8

\* The floor after an upload is not below the old one nor any number read.
LEMMA FloorRaised ==
    ASSUME TypeOK, NEW files \in Seq(FileRows), NEW out, Consistent(files, out),
           StoreRevocations(files, out)
    PROVE  /\ crl' \in [CAs -> CRLRows]
           /\ \A ca \in CAs : crl[ca].floor <= crl'[ca].floor
           /\ \A i \in DOMAIN files :
                 files[i].kind = "crl" /\ CRLIssuer(files, out, i).cert \in CAs =>
                    CRLFacts[files[i].item].number
                        <= crl'[CRLIssuer(files, out, i).cert].floor
<1> DEFINE chs == ImportChanges(files, out)
           read == {i \in DOMAIN files : files[i].kind = "crl"}
           Numbers(ca) == {CRLFacts[files[i].item].number :
                              i \in {j \in read : CRLIssuer(files, out, j).cert = ca}}
<1>1. crl' = [ca \in CAs |-> [floor |-> Observed(ca, Numbers(ca)),
                              generation |-> Bumped(ca, chs)]]
  BY DEF StoreRevocations
<1>2. ASSUME NEW ca \in CAs
      PROVE  /\ Observed(ca, Numbers(ca)) \in Nat
             /\ \A m \in Numbers(ca) \cup {crl[ca].floor} : m <= Observed(ca, Numbers(ca))
  <2>1. PICK n \in Nat : DOMAIN files = 1..n
    OBVIOUS
  <2>2. PICK f : f = [i \in DOMAIN files |-> CRLFacts[files[i].item].number]
    OBVIOUS
  <2>3. PICK All : All = Numbers(ca) \cup {crl[ca].floor}
    OBVIOUS
  <2>4. crl[ca].floor \in Nat
    BY DEF TypeOK, CRLRows
  <2>5. \A x \in Numbers(ca) : x \in Nat /\ \E i \in 1..n : f[i] = x
    BY <2>1, <2>2, FileTypes, ImportConstants
  <2> HIDE DEF Numbers
  <2>6. All \in SUBSET Nat
    BY <2>3, <2>4, <2>5
  <2>7. \A x \in All : x = crl[ca].floor \/ \E i \in 1..n : f[i] = x
    BY <2>3, <2>5
  <2>8. \E m \in All : \A x \in All : x <= m
    <3>1. crl[ca].floor \in All
      BY <2>3
    <3> QED BY <2>6, <2>7, <3>1, Greatest, Zenon
  <2>9. Observed(ca, Numbers(ca)) = CHOOSE m \in All : \A x \in All : x <= m
    BY <2>3 DEF Observed
  <2>10. /\ Observed(ca, Numbers(ca)) \in All
         /\ \A x \in All : x <= Observed(ca, Numbers(ca))
    BY <2>8, <2>9
  <2> QED BY <2>3, <2>6, <2>10
<1>3. ASSUME NEW ca \in CAs PROVE Bumped(ca, chs) \in Nat
  BY DEF Bumped, TypeOK, CRLRows
<1>4. \A i \in DOMAIN files : files[i].kind = "crl" =>
         CRLFacts[files[i].item].number \in Numbers(CRLIssuer(files, out, i).cert)
  OBVIOUS
<1> HIDE DEF Numbers, chs
<1>5. \A ca \in CAs : crl'[ca].floor = Observed(ca, Numbers(ca))
  BY <1>1
<1>6. crl' \in [CAs -> CRLRows]
  BY <1>1, <1>2, <1>3 DEF CRLRows
<1> QED BY <1>2, <1>4, <1>5, <1>6

-----------------------------------------------------------------------------
(* The inductive invariant.                                                *)

\* A call about to commit has an upload and a request, and each key it prepared
\* for a file of the upload was matched to the certificate in that file.
CallsKnown ==
    \A c \in Callers : calls[c].pc = "commit" =>
        /\ calls[c].upload \in Uploads /\ calls[c].request \in RequestIDs
        /\ \A k \in calls[c].keys : k.target.file # 0 =>
              /\ k.target.file \in DOMAIN calls[c].upload.files
              /\ calls[c].upload.files[k.target.file].item = k.target.cert

\* A certified key is stored.  DestroyKey takes the secret of a stored CA, and
\* no step brings it back.
KeysKnown ==
    /\ KeysUsed \subseteq materials
    /\ secrets \cap destroyed = {}
    /\ \A ca \in destroyed : Stored(ca)

\* What holds in every state.
ImportInv ==
    /\ TypeOK /\ CallsKnown /\ KeysKnown
    /\ ChainsSound /\ IdentitiesUnique /\ AllOrNothing /\ NumbersAboveImported

\* An empty store.
LEMMA InitInv == Init => ImportInv
<1> SUFFICES ASSUME Init PROVE ImportInv
  OBVIOUS
<1>0. CAs \subseteq Certs /\ None \notin Certs
  BY ImportConstants DEF CAs
<1>1. \A c \in Certs : ~Stored(c)
  BY DEF Init, Stored
<1>2. TypeOK
  <2>1. NoRevocation \in RevocationRows
    BY DEF NoRevocation, RevocationRows
  <2>2. IdleCall \in CallRows
    <3>1. {} \in SUBSET KeyRows
      OBVIOUS
    <3> QED BY <3>1 DEF IdleCall, CallRows
  <2>3. [floor |-> 0, generation |-> 0] \in CRLRows
    BY DEF CRLRows
  <2>4. MaxChanges \in Nat
    BY ImportConstants
  <2> QED BY <2>1, <2>2, <2>3, <2>4 DEF Init, TypeOK
<1>3. CallsKnown
  BY DEF Init, CallsKnown, IdleCall
<1>4. KeysKnown
  BY <1>0, <1>1 DEF Init, KeysKnown, KeysUsed
<1>5. ChainsSound
  BY <1>1 DEF ChainsSound
<1>6. IdentitiesUnique
  BY <1>1 DEF IdentitiesUnique, Init, NoRevocation
<1>7. AllOrNothing
  BY <1>0, <1>1 DEF AllOrNothing, Init, Committed
<1>8. NumbersAboveImported
  BY DEF NumbersAboveImported, Init
<1> QED BY <1>2, <1>3, <1>4, <1>5, <1>6, <1>7, <1>8 DEF ImportInv

-----------------------------------------------------------------------------
(* What no step takes away.                                                *)

\* What every step keeps.
Kept ==
    /\ StoredKept
    /\ LedgerKept
    /\ destroyed \subseteq destroyed' \ secrets'
    /\ \A q \in Committed : batches'[q] = batches[q]
    /\ documents \subseteq documents'
    /\ \A ca \in CAs : crl[ca].floor <= crl'[ca].floor

\* A CRL is applied: see AllOrNothing.
CRLApplied(d) ==
    /\ d \in documents
    /\ \E ca \in CAs :
        /\ Stored(ca) /\ CRLNames(d, ca)
        /\ CRLFacts[d].signer = CertFacts[ca].key
        /\ \A e \in CRLFacts[d].entries : Recorded(ca, e.serial)

\* Every certificate and every CRL of the upload is there.
UploadApplied(u) ==
    \A i \in DOMAIN u.files :
        /\ IsCert(u.files[i]) => Stored(u.files[i].item)
        /\ u.files[i].kind = "crl" => CRLApplied(u.files[i].item)

\* The upload contains the CA.
Brought(ca, u) == \E i \in DOMAIN u.files : IsCert(u.files[i]) /\ u.files[i].item = ca

\* AllOrNothing says that what commitImport did for each upload is still there.
LEMMA AllOrNothingUploads ==
    AllOrNothing <=>
        /\ \A q \in RequestIDs : batches[q] # None => UploadApplied(batches[q])
        /\ \A ca \in CAs : Stored(ca) =>
              \E q \in RequestIDs : batches[q] # None /\ Brought(ca, batches[q])
BY DEF AllOrNothing, UploadApplied, Brought, CRLApplied, Files, Committed

\* The same after a step.
LEMMA AllOrNothingUploadsNext ==
    AllOrNothing' <=>
        /\ \A q \in RequestIDs : batches'[q] # None => UploadApplied(batches[q])'
        /\ \A ca \in CAs : Stored(ca)' =>
              \E q \in RequestIDs : batches'[q] # None /\ Brought(ca, batches[q])'
BY DEF AllOrNothing, UploadApplied, Brought, CRLApplied, Files, Committed

\* An upload stays applied.
LEMMA UploadKept ==
    ASSUME Kept, NEW u, u.files \in Seq(FileRows), UploadApplied(u)
    PROVE  UploadApplied(u)'
<1>0. CAs \subseteq Certs
  BY DEF CAs
<1>1. \A c \in Certs : Stored(c) => Stored(c)'
  BY DEF Kept, StoredKept, Stored
<1>2. ASSUME NEW d \in CRLs, CRLApplied(d) PROVE CRLApplied(d)'
  <2>1. PICK ca \in CAs :
           /\ Stored(ca) /\ CRLNames(d, ca) /\ CRLFacts[d].signer = CertFacts[ca].key
           /\ \A e \in CRLFacts[d].entries : Recorded(ca, e.serial)
    BY <1>2 DEF CRLApplied
  <2>2. ASSUME NEW e \in CRLFacts[d].entries PROVE Recorded(ca, e.serial)'
    <3>1. e.serial \in Serials
      BY ImportConstants
    <3> QED BY <2>1, <3>1 DEF Kept, LedgerKept, Recorded
  <2>3. Stored(ca)' /\ d \in documents'
    BY <1>0, <1>1, <1>2, <2>1 DEF Kept, CRLApplied
  <2> QED BY <2>1, <2>2, <2>3 DEF CRLApplied, CRLNames
<1>3. ASSUME NEW i \in DOMAIN u.files
      PROVE  /\ IsCert(u.files[i]) => u.files[i].item \in Certs
             /\ u.files[i].kind = "crl" => u.files[i].item \in CRLs
  BY FileTypes
<1> QED BY <1>1, <1>2, <1>3 DEF UploadApplied

\* So does every committed one, if nothing is committed and no CA is stored.
LEMMA KeptAllOrNothing ==
    ASSUME TypeOK, AllOrNothing, Kept, UNCHANGED batches,
           \A ca \in CAs : Stored(ca)' => Stored(ca)
    PROVE  AllOrNothing'
<1>1. ASSUME NEW q \in RequestIDs, batches'[q] # None PROVE UploadApplied(batches[q])'
  <2>1. PICK u : u = batches[q]
    OBVIOUS
  <2>2. UploadApplied(u) /\ u.files \in Seq(FileRows)
    BY <1>1, <2>1, AllOrNothingUploads, ImportConstants DEF TypeOK
  <2>3. UploadApplied(u)'
    BY <2>2, UploadKept
  <2> QED BY <2>1, <2>3
<1>2. ASSUME NEW ca \in CAs, Stored(ca)'
      PROVE  \E q \in RequestIDs : batches'[q] # None /\ Brought(ca, batches[q])'
  BY <1>2, AllOrNothingUploads
<1> QED BY <1>1, <1>2, AllOrNothingUploadsNext

\* A number imported before stays below the floor.
LEMMA KeptNumber ==
    ASSUME TypeOK, crl' \in [CAs -> CRLRows], NumbersAboveImported, Kept,
           NEW d \in documents
    PROVE  \E ca \in CAs : /\ Stored(ca)' /\ CRLNames(d, ca)
                           /\ CRLFacts[d].signer = CertFacts[ca].key
                           /\ CRLFacts[d].number <= crl'[ca].floor
<1>1. PICK ca \in CAs : /\ Stored(ca) /\ CRLNames(d, ca)
                        /\ CRLFacts[d].signer = CertFacts[ca].key
                        /\ CRLFacts[d].number <= crl[ca].floor
  BY DEF NumbersAboveImported
<1>2. CRLFacts[d].number \in Nat /\ crl[ca].floor \in Nat /\ crl'[ca].floor \in Nat
  BY ImportConstants DEF TypeOK, CRLRows
<1>3. Stored(ca)'
  BY <1>1 DEF Kept, StoredKept, Stored, CAs
<1> QED BY <1>1, <1>2, <1>3 DEF Kept

\* So does every number, if no CRL is imported.
LEMMA KeptNumbers ==
    ASSUME TypeOK, crl' \in [CAs -> CRLRows], NumbersAboveImported, Kept,
           UNCHANGED documents
    PROVE  NumbersAboveImported'
BY KeptNumber DEF NumbersAboveImported, CRLNames

\* A step that leaves certificates, ledger, CRLs and results alone.
Quiet == UNCHANGED <<issuer, ledger, crl, documents, batches>>

\* Such a step disturbs none of the properties.
LEMMA QuietKeeps ==
    ASSUME ImportInv, Quiet
    PROVE  /\ ChainsSound' /\ IdentitiesUnique' /\ AllOrNothing' /\ NumbersAboveImported'
           /\ StoredKept /\ LedgerKept /\ KeysUsed' = KeysUsed
           /\ \A c : Stored(c)' <=> Stored(c)
<1>1. ChainsSound'
  BY DEF ImportInv, Quiet, ChainsSound, Stored, IsRoot, SelfIssued
<1>2. IdentitiesUnique'
  BY DEF ImportInv, Quiet, IdentitiesUnique, Stored, IsRoot, IssuedBy, WithSerial
<1>3. AllOrNothing'
  BY DEF ImportInv, Quiet, AllOrNothing, Stored, CRLNames, Recorded, Files, Committed,
     IsCert
<1>4. NumbersAboveImported'
  BY DEF ImportInv, Quiet, NumbersAboveImported, Stored, CRLNames
<1>5. StoredKept /\ LedgerKept
  BY DEF Quiet, StoredKept, LedgerKept
<1>6. \A c : Stored(c)' <=> Stored(c)
  BY DEF Quiet, Stored
<1> QED BY <1>1, <1>2, <1>3, <1>4, <1>5, <1>6 DEF KeysUsed

-----------------------------------------------------------------------------
(* The steps.                                                              *)

\* prepareImportKeys matches a key to a stored CA or to a CA file of the upload.
LEMMA PreparedTyped ==
    ASSUME NEW files \in Seq(FileRows)
    PROVE  \A k \in PreparedKeys(files) :
              /\ k \in KeyRows
              /\ k.target.file # 0 => /\ k.target.file \in DOMAIN files
                                      /\ files[k.target.file].item = k.target.cert
<1>1. ASSUME NEW i \in DOMAIN files, NEW t \in KeyTargets(files, files[i])
      PROVE  /\ t \in [file : Nat, cert : CAs]
             /\ t.file # 0 => t.file \in DOMAIN files /\ files[t.file].item = t.cert
  <2> DEFINE first == {j \in DOMAIN files :
                    /\ IsCert(files[j]) /\ files[j].item \in CAs
                    /\ \A k \in 1..(j - 1) :
                            IsCert(files[k]) => files[k].item # files[j].item}
             batch == {IF Stored(files[j].item)
                       THEN [file |-> 0, cert |-> files[j].item]
                       ELSE [file |-> j, cert |-> files[j].item] : j \in first}
             existing == {[file |-> 0, cert |-> c] : c \in {d \in CAs : Stored(d)}}
  <2>1. t \in KeyCandidates(files, files[i])
    BY DEF KeyTargets
  <2>2. t \in batch \/ t \in existing
    <3>1. KeyCandidates(files, files[i]) =
            IF files[i].hint # None THEN {x \in existing : x.cert = files[i].hint}
            ELSE IF batch # {} THEN batch ELSE existing
      BY DEF KeyCandidates
    <3> HIDE DEF batch, existing
    <3> QED BY <2>1, <3>1
  <2>3. CASE t \in batch
    <3>1. PICK j \in first : t = IF Stored(files[j].item)
                                 THEN [file |-> 0, cert |-> files[j].item]
                                 ELSE [file |-> j, cert |-> files[j].item]
      BY <2>3
    <3>2. j \in DOMAIN files /\ j \in Nat /\ files[j].item \in CAs
      OBVIOUS
    <3> HIDE DEF first
    <3> QED BY <3>1, <3>2
  <2>4. CASE t \in existing
    BY <2>4
  <2> QED BY <2>2, <2>3, <2>4
<1>2. ASSUME NEW k \in PreparedKeys(files)
      PROVE  \E i \in DOMAIN files : \E t \in KeyTargets(files, files[i]) :
                k = [file |-> i, target |-> t, minted |-> files[i].item \notin materials]
  BY DEF PreparedKeys, KeyFiles
<1>3. ASSUME NEW k \in PreparedKeys(files)
      PROVE  /\ k \in KeyRows
             /\ k.target.file # 0 => /\ k.target.file \in DOMAIN files
                                     /\ files[k.target.file].item = k.target.cert
  <2>0. PICK i \in DOMAIN files : \E t \in KeyTargets(files, files[i]) :
           k = [file |-> i, target |-> t, minted |-> files[i].item \notin materials]
    BY <1>2
  <2>1. PICK t \in KeyTargets(files, files[i]) :
           k = [file |-> i, target |-> t, minted |-> files[i].item \notin materials]
    BY <2>0
  <2>2. PICK m \in BOOLEAN : m = (files[i].item \notin materials)
    OBVIOUS
  <2>3. k = [file |-> i, target |-> t, minted |-> m]
    BY <2>1, <2>2, Zenon
  <2>4. i \in Nat
    OBVIOUS
  <2> QED BY <1>1, <2>3, <2>4 DEF KeyRows
<1> QED BY <1>3

\* Preparing a call writes nothing.
LEMMA PrepareStep ==
    ASSUME ImportInv, NEW c \in Callers, NEW q \in RequestIDs, NEW u \in Uploads,
           PrepareImport(c, q, u), UNCHANGED changes
    PROVE  ImportInv' /\ Kept
<1>0. Quiet /\ UNCHANGED <<materials, secrets, destroyed>>
  BY DEF PrepareImport, Quiet, pkiVars, ledgerVars
<1>a. /\ ChainsSound' /\ IdentitiesUnique' /\ AllOrNothing' /\ NumbersAboveImported'
      /\ StoredKept /\ LedgerKept /\ KeysUsed' = KeysUsed
      /\ \A x : Stored(x)' <=> Stored(x)
  BY <1>0, QuietKeeps
<1>1. /\ u.files \in Seq(FileRows)
      /\ PreparedKeys(u.files) \subseteq KeyRows
      /\ \A k \in PreparedKeys(u.files) : k.target.file # 0 =>
            /\ k.target.file \in DOMAIN u.files
            /\ u.files[k.target.file].item = k.target.cert
  BY ImportConstants, PreparedTyped
<1>2. PICK row : row = [pc |-> "commit", upload |-> u, request |-> q,
                        keys |-> PreparedKeys(u.files)]
  OBVIOUS
<1>3. row \in CallRows /\ calls' = [calls EXCEPT ![c] = row]
  BY <1>1, <1>2 DEF CallRows, PrepareImport
<1>4. calls \in [Callers -> CallRows]
  BY DEF ImportInv, TypeOK
<1>5. TypeOK'
  BY <1>a, <1>3, <1>4 DEF ImportInv, TypeOK, PrepareImport, pkiVars, ledgerVars
<1>6. CallsKnown'
  BY <1>1, <1>2, <1>3, <1>4 DEF ImportInv, CallsKnown
<1>7. KeysKnown'
  BY <1>0, <1>a DEF ImportInv, KeysKnown
<1>8. Kept
  BY <1>0, <1>a DEF Kept, ImportInv, KeysKnown, TypeOK, Quiet, CRLRows
<1> QED BY <1>a, <1>5, <1>6, <1>7, <1>8 DEF ImportInv

\* A step that is none of a call leaves what the calls know.
LEMMA CallsUnchanged ==
    ASSUME CallsKnown, UNCHANGED calls PROVE CallsKnown'
BY DEF CallsKnown

\* Nor does a call that ends without its commit.
LEMMA EndStep ==
    ASSUME ImportInv, NEW c \in Callers, EndCall(c), UNCHANGED changes
    PROVE  ImportInv' /\ Kept
<1>0. Quiet /\ UNCHANGED <<materials, secrets, destroyed>>
  BY DEF EndCall, Quiet, pkiVars, ledgerVars
<1>a. /\ ChainsSound' /\ IdentitiesUnique' /\ AllOrNothing' /\ NumbersAboveImported'
      /\ StoredKept /\ LedgerKept /\ KeysUsed' = KeysUsed
      /\ \A x : Stored(x)' <=> Stored(x)
  BY <1>0, QuietKeeps
<1>3. IdleCall \in CallRows /\ IdleCall.pc = "idle"
  <2>1. {} \in SUBSET KeyRows
    OBVIOUS
  <2> QED BY <2>1 DEF IdleCall, CallRows
<1>4. calls \in [Callers -> CallRows] /\ calls' = [calls EXCEPT ![c] = IdleCall]
  BY DEF ImportInv, TypeOK, EndCall
<1>5. TypeOK'
  BY <1>a, <1>3, <1>4 DEF ImportInv, TypeOK, EndCall, pkiVars, ledgerVars
<1>6. CallsKnown'
  BY <1>3, <1>4 DEF ImportInv, CallsKnown
<1>7. KeysKnown'
  BY <1>0, <1>a DEF ImportInv, KeysKnown
<1>8. Kept
  BY <1>0, <1>a DEF Kept, ImportInv, KeysKnown, TypeOK, Quiet, CRLRows
<1> QED BY <1>a, <1>5, <1>6, <1>7, <1>8 DEF ImportInv

\* Destroying, uploading or marking a key changes no certificate and no row.
LEMMA KeysStep ==
    ASSUME ImportInv, changes < MaxChanges, changes' = changes + 1,
           \/ \E ca \in CAs : DestroyKey(ca)
           \/ \E k \in Keys : UploadTLSKey(k) \/ MarkCompromised(k)
    PROVE  ImportInv' /\ Kept
<1>0. Quiet /\ UNCHANGED calls
  BY DEF DestroyKey, UploadTLSKey, MarkCompromised, Quiet, ledgerVars
<1>a. /\ ChainsSound' /\ IdentitiesUnique' /\ AllOrNothing' /\ NumbersAboveImported'
      /\ StoredKept /\ LedgerKept /\ KeysUsed' = KeysUsed
      /\ \A x : Stored(x)' <=> Stored(x)
  BY <1>0, QuietKeeps
<1>b. changes' \in 0..MaxChanges
  BY ImportConstants DEF ImportInv, TypeOK
<1>c. CallsKnown'
  BY <1>0, CallsUnchanged DEF ImportInv
<1>1. ASSUME NEW ca \in CAs, DestroyKey(ca) PROVE TypeOK' /\ KeysKnown' /\ Kept
  <2>1. TypeOK'
    BY <1>a, <1>b, <1>1 DEF ImportInv, TypeOK, DestroyKey, ledgerVars
  <2>2. KeysKnown'
    BY <1>a, <1>1 DEF ImportInv, KeysKnown, DestroyKey
  <2>3. destroyed \subseteq destroyed' \ secrets'
    BY <1>1 DEF ImportInv, KeysKnown, DestroyKey
  <2> QED BY <1>0, <1>a, <2>1, <2>2, <2>3 DEF Kept, ImportInv, TypeOK, Quiet, CRLRows
<1>2. ASSUME NEW k \in Keys, UploadTLSKey(k) \/ MarkCompromised(k)
      PROVE  TypeOK' /\ KeysKnown' /\ Kept
  <2>1. /\ UNCHANGED <<store, issuer, issued, secrets, destroyed, takeovers, ledgerVars,
                       batches, calls>>
        /\ materials \subseteq materials' /\ compromised' \subseteq materials'
        /\ materials' \subseteq Keys
    BY <1>2 DEF UploadTLSKey, MarkCompromised, ImportInv, TypeOK
  <2>2. TypeOK'
    BY <1>a, <1>b, <2>1 DEF ImportInv, TypeOK, ledgerVars
  <2>3. KeysKnown'
    BY <1>a, <2>1 DEF ImportInv, KeysKnown
  <2>4. destroyed \subseteq destroyed' \ secrets'
    BY <2>1 DEF ImportInv, KeysKnown
  <2> QED BY <1>0, <1>a, <2>2, <2>3, <2>4 DEF Kept, ImportInv, TypeOK, Quiet, CRLRows
<1> QED BY <1>a, <1>c, <1>1, <1>2 DEF ImportInv

\* An issued leaf brings a fresh key and a free serial under a CA that signs it.
LEMMA IssueStep ==
    ASSUME ImportInv, NEW l \in Certs, NEW ca \in CAs, StoreIssued(l, ca),
           UNCHANGED changes
    PROVE  ImportInv' /\ Kept
<1>0. CAs \subseteq Certs /\ None \notin Certs /\ CertFacts[l].key \in Keys
  BY ImportConstants DEF CAs
<1>1. /\ issuer' = [issuer EXCEPT ![l] = ca] /\ issuer'[l] = ca /\ l # ca
      /\ \A c \in Certs : c # l => issuer'[c] = issuer[c]
  BY <1>0 DEF StoreIssued, ImportInv, TypeOK
<1>2. ~Stored(l) /\ l \notin CAs /\ Stored(ca) /\ ~IsRoot(ca)
  BY DEF StoreIssued
<1>3. StoredKept
  BY <1>1, <1>2 DEF StoredKept
<1>4. /\ \A c \in Certs : Stored(c)' <=> Stored(c) \/ c = l
      /\ \A c \in Certs : Stored(c) => IssuedBy(c)' = IssuedBy(c)
      /\ IssuedBy(l)' = ca /\ ~IsRoot(l)'
  BY <1>0, <1>1, <1>2 DEF Stored, IssuedBy, IsRoot
<1>5. TypeOK'
  <2>1. issuer' \in [Certs -> Certs \cup {None}]
    BY <1>0, <1>1 DEF ImportInv, TypeOK
  <2>2. issued' \subseteq {c \in Certs \ CAs : Stored(c)}'
    BY <1>2, <1>4 DEF ImportInv, TypeOK, StoreIssued
  <2> QED BY <1>0, <2>1, <2>2 DEF ImportInv, TypeOK, StoreIssued, ledgerVars
<1>6. CallsKnown'
  BY CallsUnchanged DEF ImportInv, StoreIssued
<1>7. KeysKnown'
  <2>1. \A k \in KeysUsed' : k \in KeysUsed \/ k = CertFacts[l].key
    BY <1>4 DEF KeysUsed
  <2> QED BY <1>0, <1>4, <2>1 DEF ImportInv, TypeOK, KeysKnown, StoreIssued
<1>8. ChainsSound'
  <2>1. SUFFICES ASSUME NEW c \in Certs, Stored(c)'
        PROVE  (IF IsRoot(c)
                THEN c \in CAs /\ SelfIssued(c) /\ CertFacts[c].signer = CertFacts[c].key
                ELSE /\ issuer[c] \in CAs /\ Stored(issuer[c])
                     /\ CertFacts[issuer[c]].subject = CertFacts[c].issuer
                     /\ CertFacts[issuer[c]].key = CertFacts[c].signer
                     /\ c \in CAs <=> IsRoot(issuer[c]))'
    BY DEF ChainsSound
  <2>2. CASE c = l
    <3>1. Stored(ca)' /\ ~IsRoot(ca)'
      BY <1>0, <1>1, <1>2, <1>4 DEF IsRoot
    <3> QED BY <1>1, <1>2, <1>4, <2>2, <3>1 DEF StoreIssued, IsRoot
  <2>3. CASE c # l
    <3>1. Stored(c)
      BY <1>4, <2>1, <2>3
    <3>2. issuer'[c] = issuer[c] /\ (IsRoot(c)' <=> IsRoot(c))
      BY <1>1, <2>3 DEF IsRoot
    <3>3. CASE IsRoot(c)
      BY <3>1, <3>2, <3>3 DEF ImportInv, ChainsSound
    <3>4. CASE ~IsRoot(c)
      <4>1. /\ issuer[c] \in CAs /\ Stored(issuer[c])
            /\ CertFacts[issuer[c]].subject = CertFacts[c].issuer
            /\ CertFacts[issuer[c]].key = CertFacts[c].signer
            /\ c \in CAs <=> IsRoot(issuer[c])
        BY <3>1, <3>4 DEF ImportInv, ChainsSound
      <4>2. issuer[c] \in Certs /\ issuer[c] # l
        BY <1>0, <1>2, <4>1
      <4>3. Stored(issuer[c])' /\ (IsRoot(issuer[c])' <=> IsRoot(issuer[c]))
        <5>1. PICK p : p = issuer[c]
          OBVIOUS
        <5>2. Stored(p)' /\ (IsRoot(p)' <=> IsRoot(p))
          BY <1>1, <1>4, <4>1, <4>2, <5>1 DEF IsRoot
        <5> QED BY <3>2, <5>1, <5>2
      <4> QED BY <3>2, <3>4, <4>1, <4>3
    <3> QED BY <3>3, <3>4
  <2> QED BY <2>2, <2>3
<1>9. IdentitiesUnique'
  <2>1. ASSUME NEW c \in Certs, Stored(c)
        PROVE  /\ CertFacts[c].key # CertFacts[l].key
               /\ ~(IssuedBy(c) = ca /\ CertFacts[c].serial = CertFacts[l].serial)
    BY <2>1 DEF StoreIssued, ImportInv, KeysKnown, KeysUsed, WithSerial
  <2>2. ASSUME NEW c \in Certs, NEW d \in Certs, Stored(c)', Stored(d)',
               \/ CertFacts[c].key = CertFacts[d].key
               \/ IssuedBy(c)' = IssuedBy(d)' /\ CertFacts[c].serial = CertFacts[d].serial
        PROVE  c = d
    BY <1>4, <2>1, <2>2 DEF ImportInv, IdentitiesUnique
  <2>3. ASSUME NEW p \in CAs, NEW n \in Serials, NEW c \in WithSerial(p, n)
        PROVE  c \in WithSerial(p, n)'
    BY <1>4, <2>3 DEF WithSerial
  <2>4. UNCHANGED ledger
    BY DEF StoreIssued, ledgerVars
  <2>5. ASSUME NEW p \in CAs, NEW n \in Serials, ledger'[<<p, n>>].link # None
        PROVE  ledger'[<<p, n>>].link \in WithSerial(p, n)'
    BY <2>3, <2>4, <2>5 DEF ImportInv, IdentitiesUnique
  <2> QED BY <2>2, <2>5 DEF IdentitiesUnique
<1>10. Kept
  <2>1. LedgerKept
    BY DEF LedgerKept, StoreIssued, ledgerVars
  <2>2. destroyed \subseteq destroyed' \ secrets'
    BY DEF ImportInv, KeysKnown, StoreIssued
  <2> QED BY <1>3, <2>1, <2>2 DEF Kept, ImportInv, TypeOK, CRLRows, StoreIssued, ledgerVars
<1>11. AllOrNothing'
  <2>1. \A c \in CAs : Stored(c)' => Stored(c)
    BY <1>0, <1>2, <1>4
  <2> QED BY <1>10, <2>1, KeptAllOrNothing DEF ImportInv, StoreIssued
<1>12. NumbersAboveImported'
  BY <1>5, <1>10, KeptNumbers DEF ImportInv, TypeOK, StoreIssued, ledgerVars
<1> QED BY <1>5, <1>6, <1>7, <1>8, <1>9, <1>10, <1>11, <1>12 DEF ImportInv

\* A revocation made here is one more change of the ledger.
LEMMA RevokeStep ==
    ASSUME ImportInv, NEW c \in Certs, Revoke(c), changes < MaxChanges,
           changes' = changes + 1
    PROVE  ImportInv' /\ Kept
<1>1. PICK ch : ch = Change(<<0, "request">>, IssuedBy(c), CertFacts[c].serial,
                            Revocation, c, FALSE)
  OBVIOUS
<1>2. /\ ch.ca = IssuedBy(c) /\ ch.serial = CertFacts[c].serial /\ ch.facts = Revocation
      /\ ch.link = c /\ ch.review = FALSE
  BY <1>1 DEF Change
<1>3. Stored(c) /\ IssuedBy(c) \in CAs
  BY DEF Revoke, ImportInv, TypeOK, ChainsSound, IssuedBy
<1>4. /\ Effective(ch) /\ ledger' = ApplyChanges({ch})
      /\ crl' = [crl EXCEPT ![ch.ca].generation = Bumped(ch.ca, {ch})]
      /\ UNCHANGED <<store, pkiVars, takeovers, documents, batches, calls>>
  BY <1>1 DEF Revoke
<1>5. ChangeSound(ch)
  BY <1>2, <1>3, <1>4, ImportConstants DEF ChangeSound, Facts
<1>6. /\ ledger' \in [CAs \X Serials -> RevocationRows] /\ LedgerKept
      /\ \A p \in CAs, n \in Serials :
            \/ ledger'[<<p, n>>].link = ledger[<<p, n>>].link
            \/ ch.ca = p /\ ch.serial = n /\ ledger'[<<p, n>>].link = ch.link
  <2>1. PICK chs : chs = {ch}
    OBVIOUS
  <2>2. TypeOK /\ (\A x \in chs : ChangeSound(x)) /\ ledger' = ApplyChanges(chs)
    BY <1>4, <1>5, <2>1 DEF ImportInv
  <2>3. /\ ledger' \in [CAs \X Serials -> RevocationRows] /\ LedgerKept
        /\ \A p \in CAs, n \in Serials :
              \/ ledger'[<<p, n>>].link = ledger[<<p, n>>].link
              \/ \E x \in chs : /\ x.ca = p /\ x.serial = n
                                /\ ledger'[<<p, n>>].link = x.link
    BY <2>2, ChangesApplied
  <2> QED BY <2>1, <2>3
<1>7. UNCHANGED <<issuer, materials, secrets, destroyed>>
  BY <1>4 DEF pkiVars
<1>8. crl' \in [CAs -> CRLRows] /\ \A p \in CAs : crl'[p].floor = crl[p].floor
  <2>1. ch.ca \in CAs
    BY <1>5 DEF ChangeSound
  <2>2. Bumped(ch.ca, {ch}) \in Nat
    BY <2>1 DEF Bumped, ImportInv, TypeOK, CRLRows
  <2> QED BY <1>4, <2>1, <2>2 DEF ImportInv, TypeOK, CRLRows
<1>9. TypeOK'
  <2>1. changes' \in 0..MaxChanges
    BY ImportConstants DEF ImportInv, TypeOK
  <2> QED BY <1>4, <1>6, <1>8, <2>1 DEF ImportInv, TypeOK, pkiVars, Stored
<1>10. CallsKnown' /\ KeysKnown'
  BY <1>4, <1>7, CallsUnchanged DEF ImportInv, KeysKnown, KeysUsed, Stored
<1>11. ChainsSound'
  BY <1>7 DEF ImportInv, ChainsSound, Stored, IsRoot, SelfIssued
<1>12. IdentitiesUnique'
  <2>1. \A p, n : WithSerial(p, n)' = WithSerial(p, n)
    BY <1>7 DEF WithSerial, Stored, IssuedBy, IsRoot
  <2>2. c \in WithSerial(ch.ca, ch.serial)
    BY <1>2, <1>3 DEF WithSerial
  <2>3. ASSUME NEW p \in CAs, NEW n \in Serials, ledger'[<<p, n>>].link # None
        PROVE  ledger'[<<p, n>>].link \in WithSerial(p, n)'
    BY <1>2, <1>6, <2>1, <2>2, <2>3 DEF ImportInv, IdentitiesUnique
  <2>4. \A x, y \in Certs :
            /\ Stored(x)' /\ Stored(y)'
            /\ \/ CertFacts[x].key = CertFacts[y].key
               \/ /\ IssuedBy(x)' = IssuedBy(y)'
                  /\ CertFacts[x].serial = CertFacts[y].serial
            => x = y
    BY <1>7 DEF ImportInv, IdentitiesUnique, Stored, IssuedBy, IsRoot
  <2> QED BY <2>3, <2>4 DEF IdentitiesUnique
<1>13. Kept
  <2>1. StoredKept
    BY <1>7 DEF StoredKept
  <2>2. destroyed \subseteq destroyed' \ secrets'
    BY <1>7 DEF ImportInv, KeysKnown
  <2>3. \A p \in CAs : crl[p].floor <= crl'[p].floor
    BY <1>8 DEF ImportInv, TypeOK, CRLRows
  <2> QED BY <1>4, <1>6, <2>1, <2>2, <2>3 DEF Kept
<1>14. AllOrNothing'
  BY <1>4, <1>7, <1>13, KeptAllOrNothing DEF ImportInv, Stored
<1>15. NumbersAboveImported'
  BY <1>4, <1>8, <1>13, KeptNumbers DEF ImportInv
<1> QED BY <1>9, <1>10, <1>11, <1>12, <1>13, <1>14, <1>15 DEF ImportInv

\* commitImport, which stores certificates, keys, CRLs and revocations at once.
LEMMA CommitStep ==
    ASSUME ImportInv, NEW c \in Callers, CommitImport(c), UNCHANGED changes
    PROVE  ImportInv' /\ Kept
<1>1. PICK u, q, keys, files, out :
         /\ u = calls[c].upload /\ q = calls[c].request /\ keys = calls[c].keys
         /\ files = u.files /\ out = ResolveImportItems(files)
  OBVIOUS
<1>2. /\ u \in Uploads /\ q \in RequestIDs /\ keys \subseteq KeyRows
      /\ files \in Seq(FileRows) /\ u.takeovers \subseteq CAs
      /\ \A k \in keys : k.target.file # 0 =>
            /\ k.target.file \in DOMAIN files
            /\ files[k.target.file].item = k.target.cert
  <2>1. calls[c] \in CallRows /\ calls[c].pc = "commit"
    BY DEF ImportInv, TypeOK, CommitImport
  <2> QED BY <1>1, <2>1, ImportConstants DEF ImportInv, CallsKnown, CallRows
<1>3. /\ batches[q] = None /\ batches' = [batches EXCEPT ![q] = u]
      /\ Consistent(files, out) /\ IssuersResolved(files, out)
      /\ SerialsAvailable(files, out) /\ AttachAllowed(keys)
      /\ StoreCertificates(files, out) /\ StoreKeys(files, out, keys)
      /\ StoreTakeovers(files, out, u.takeovers)
      /\ StoreRevocations(files, out)
      /\ calls' = [calls EXCEPT ![c] = IdleCall]
      /\ UNCHANGED <<store, issued, compromised, destroyed>>
  BY <1>1 DEF CommitImport, NotReplayed, Applicable, StoreBatch
<1>4. /\ u # None /\ CAs \subseteq Certs /\ None \notin Certs
  BY <1>2, ImportConstants DEF CAs
<1>t. TypeOK /\ KeysKnown /\ ChainsSound /\ IdentitiesUnique /\ AllOrNothing
      /\ NumbersAboveImported /\ CallsKnown
  BY DEF ImportInv
<1> DEFINE new == NewCerts(files, out)
\* Certificates.
<1>5. /\ StoredKept
      /\ \A x \in Certs : Stored(x)' <=> Stored(x) \/ \E i \in new : files[i].item = x
      /\ issuer' \in [Certs -> Certs \cup {None}]
  BY <1>1, <1>2, <1>3, <1>t, CertificatesStored
<1>6. \A i \in new : /\ i \in DOMAIN files /\ IsCert(files[i])
                     /\ files[i].item \in Certs /\ ~Stored(files[i].item)
  BY <1>1, <1>2, IssuerFound DEF NewCerts
<1>7. ChainsSound'
  BY <1>1, <1>2, <1>3, <1>t, ChainsCommitted
\* The ledger.
<1>8. PICK chs : chs = ImportChanges(files, out)
  OBVIOUS
<1>9. /\ ledger' = ApplyChanges(chs)
      /\ \A ch \in chs : /\ ChangeSound(ch)
                         /\ ch.link # None => ch.link \in WithSerial(ch.ca, ch.serial)'
  BY <1>1, <1>2, <1>3, <1>t, <1>8, ImportChangesSound DEF StoreRevocations
<1>10. /\ ledger' \in [CAs \X Serials -> RevocationRows] /\ LedgerKept
       /\ \A p \in CAs, n \in Serials :
             \/ ledger'[<<p, n>>].link = ledger[<<p, n>>].link
             \/ \E ch \in chs : /\ ch.ca = p /\ ch.serial = n
                                /\ ledger'[<<p, n>>].link = ch.link
  BY <1>9, <1>t, ChangesApplied
<1>11. /\ crl' \in [CAs -> CRLRows]
       /\ \A p \in CAs : crl[p].floor <= crl'[p].floor
       /\ \A i \in DOMAIN files :
             files[i].kind = "crl" /\ CRLIssuer(files, out, i).cert \in CAs =>
                CRLFacts[files[i].item].number <= crl'[CRLIssuer(files, out, i).cert].floor
  BY <1>2, <1>3, <1>t, FloorRaised
<1>12. /\ \A i \in DOMAIN files : files[i].kind = "crl" => files[i].item \in documents'
       /\ \A d \in documents' :
             \/ d \in documents
             \/ \E i \in DOMAIN files : files[i].kind = "crl" /\ files[i].item = d
       /\ documents \subseteq documents'
  BY <1>3 DEF StoreRevocations
\* A CRL of the upload: its CA is stored, and its entries are recorded.
<1>13. ASSUME NEW i \in DOMAIN files, files[i].kind = "crl"
       PROVE  \E p \in CAs :
                 /\ Stored(p)' /\ CRLNames(files[i].item, p)
                 /\ CRLFacts[files[i].item].signer = CertFacts[p].key
                 /\ CRLFacts[files[i].item].number <= crl'[p].floor
                 /\ \A e \in CRLFacts[files[i].item].entries : Recorded(p, e.serial)'
  <2>1. PICK p : p = CRLIssuer(files, out, i).cert
    OBVIOUS
  <2>2. CRLValid(files, out, i)
    BY <1>3, <1>13 DEF Consistent
  <2>3. /\ p \in CAs /\ CRLNames(files[i].item, p)
        /\ CRLFacts[files[i].item].signer = CertFacts[p].key
        /\ Stored(p) \/ \E j \in new : files[j].item = p
    BY <1>1, <1>2, <1>13, <2>1, <2>2, CRLIssuerFound
  <2>4. Stored(p)'
    BY <1>4, <1>5, <2>3
  <2>5. ASSUME NEW e \in CRLFacts[files[i].item].entries PROVE Recorded(p, e.serial)'
    BY <1>1, <1>2, <1>3, <1>8, <1>9, <1>13, <1>t, <2>1, EntriesRecorded
  <2> QED BY <1>11, <1>13, <2>1, <2>3, <2>4, <2>5
\* Keys.
<1>14. secrets' \subseteq CAs /\ secrets' \cap destroyed = {}
  <2>1. \A k \in keys : k.target.cert \in CAs
    BY <1>2 DEF KeyRows
  <2>2. ASSUME NEW s \in secrets' PROVE s \in CAs /\ s \notin destroyed
    <3>1. CASE s \in secrets
      BY <1>t, <3>1 DEF TypeOK, KeysKnown
    <3>2. ASSUME NEW i \in new, NEW k \in keys, k.target.file = i, s = files[i].item
          PROVE  s \in CAs /\ s \notin destroyed
      <4>1. i # 0
        BY <1>2, <1>6
      <4>2. s = k.target.cert
        BY <1>2, <3>2, <4>1
      <4> QED BY <1>6, <1>t, <2>1, <3>2, <4>2 DEF KeysKnown
    <3>3. ASSUME NEW k \in KeysToAttach(keys), s = k.target.cert
          PROVE  s \in CAs /\ s \notin destroyed
      BY <1>3, <2>1, <3>3 DEF KeysToAttach, AttachAllowed
    <3>4. \/ s \in secrets
          \/ \E i \in new : KeysOf(keys, i) # {} /\ s = files[i].item
          \/ \E k \in KeysToAttach(keys) : s = k.target.cert
      BY <1>3 DEF StoreKeys
    <3>5. \A i \in new : KeysOf(keys, i) # {} => \E k \in keys : k.target.file = i
      BY DEF KeysOf
    <3> QED BY <3>1, <3>2, <3>3, <3>4, <3>5
  <2> QED BY <2>2
<1>15. /\ materials' \subseteq Keys /\ materials \subseteq materials'
       /\ \A i \in new : CertFacts[files[i].item].key \in materials'
  <2>1. materials' = materials \cup {CertFacts[x].key : x \in {files[i].item : i \in new}}
    BY <1>3 DEF StoreCertificates
  <2>2. ASSUME NEW i \in new
        PROVE  /\ CertFacts[files[i].item].key \in Keys
               /\ CertFacts[files[i].item].key \in materials'
    BY <1>6, <2>1, ImportConstants
  <2>3. ASSUME NEW k \in materials' PROVE k \in Keys
    <3>1. k \in materials \/ \E i \in new : k = CertFacts[files[i].item].key
      BY <2>1
    <3> QED BY <1>t, <2>2, <3>1 DEF TypeOK
  <2> QED BY <2>1, <2>2, <2>3
<1>16. takeovers' \subseteq CAs
  BY <1>2, <1>3, <1>t DEF StoreTakeovers, TypeOK
<1>17. documents' \subseteq CRLs
  BY <1>2, <1>12, <1>t, FileTypes DEF TypeOK
<1>18. IdleCall \in CallRows /\ IdleCall.pc = "idle"
  <2>1. {} \in SUBSET KeyRows
    OBVIOUS
  <2> QED BY <2>1 DEF IdleCall, CallRows
<1>19. TypeOK'
  <2>1. issued' \subseteq {x \in Certs \ CAs : Stored(x)}'
    BY <1>3, <1>5, <1>t DEF TypeOK
  <2>2. calls' \in [Callers -> CallRows] /\ batches' \in [RequestIDs -> Uploads \cup {None}]
    BY <1>2, <1>3, <1>18, <1>t DEF TypeOK
  <2>3. /\ compromised' \subseteq materials' /\ destroyed' \subseteq CAs
        /\ store' \in {"sqlite", "postgres", "double"} /\ changes' \in 0..MaxChanges
    BY <1>3, <1>15, <1>t DEF TypeOK
  <2> QED BY <1>5, <1>10, <1>11, <1>14, <1>15, <1>16, <1>17, <2>1, <2>2, <2>3 DEF TypeOK
<1>20. CallsKnown'
  BY <1>3, <1>18, <1>t DEF CallsKnown, TypeOK
<1>21. KeysKnown'
  <2>1. ASSUME NEW x \in Certs, Stored(x)' PROVE CertFacts[x].key \in materials'
    BY <1>5, <1>15, <1>t, <2>1 DEF KeysKnown, KeysUsed
  <2>2. \A ca \in destroyed' : Stored(ca)'
    BY <1>3, <1>4, <1>5, <1>t DEF KeysKnown, TypeOK
  <2> QED BY <1>3, <1>14, <2>1, <2>2 DEF KeysKnown, KeysUsed
<1>22. IdentitiesUnique'
  <2>1. ASSUME NEW x \in Certs, NEW y \in Certs, Stored(x)', Stored(y)',
               \/ CertFacts[x].key = CertFacts[y].key
               \/ IssuedBy(x)' = IssuedBy(y)' /\ CertFacts[x].serial = CertFacts[y].serial
        PROVE  x = y
    BY <1>1, <1>2, <1>3, <1>t, <2>1, IdentitiesCommitted
  <2>2. ASSUME NEW p \in CAs, NEW n \in Serials, ledger'[<<p, n>>].link # None
        PROVE  ledger'[<<p, n>>].link \in WithSerial(p, n)'
    <3>1. CASE ledger'[<<p, n>>].link = ledger[<<p, n>>].link
      <4>1. PICK x : x = ledger[<<p, n>>].link
        OBVIOUS
      <4>2. x \in WithSerial(p, n)
        BY <1>t, <2>2, <3>1, <4>1 DEF IdentitiesUnique
      <4>3. x \in WithSerial(p, n)'
        BY <1>5, <4>2 DEF WithSerial, StoredKept, IssuedBy, IsRoot
      <4> QED BY <3>1, <4>1, <4>3
    <3>2. ASSUME NEW ch \in chs, ch.ca = p, ch.serial = n,
                 ledger'[<<p, n>>].link = ch.link
          PROVE  ledger'[<<p, n>>].link \in WithSerial(p, n)'
      BY <1>9, <2>2, <3>2
    <3> QED BY <1>10, <3>1, <3>2
  <2> QED BY <2>1, <2>2 DEF IdentitiesUnique
<1>23. Kept
  <2>1. destroyed \subseteq destroyed' \ secrets'
    BY <1>3, <1>14
  <2>2. \A r \in Committed : batches'[r] = batches[r]
    BY <1>3, <1>t DEF Committed, TypeOK
  <2> QED BY <1>5, <1>10, <1>11, <1>12, <2>1, <2>2 DEF Kept
\* The upload is applied, and so are those before it.
<1>24. AllOrNothing'
  <2>1. UploadApplied(u)'
    <3>1. ASSUME NEW i \in DOMAIN files, IsCert(files[i]) PROVE Stored(files[i].item)'
      <4>1. files[i].item \in Certs
        BY <1>2, <3>1, FileTypes
      <4>2. ~Stored(files[i].item) => \E j \in new : files[j].item = files[i].item
        BY <1>1, <1>2, <1>3, <3>1, EveryCertificate DEF Consistent
      <4> QED BY <1>5, <4>1, <4>2
    <3>2. ASSUME NEW i \in DOMAIN files, files[i].kind = "crl"
          PROVE  CRLApplied(files[i].item)'
      BY <1>12, <1>13, <3>2 DEF CRLApplied, CRLNames
    <3> QED BY <1>1, <3>1, <3>2 DEF UploadApplied, IsCert
  <2>2. ASSUME NEW r \in RequestIDs, batches'[r] # None PROVE UploadApplied(batches[r])'
    <3>1. CASE r = q
      <4>1. batches'[r] = u
        BY <1>2, <1>3, <1>t, <3>1 DEF TypeOK
      <4> QED BY <2>1, <4>1
    <3>2. CASE r # q
      <4>1. PICK v : v = batches[r]
        OBVIOUS
      <4>2. batches'[r] = v /\ v # None
        BY <1>3, <1>t, <2>2, <3>2, <4>1 DEF TypeOK
      <4>3. UploadApplied(v) /\ v.files \in Seq(FileRows)
        BY <1>t, <4>1, <4>2, AllOrNothingUploads, ImportConstants DEF TypeOK
      <4>4. UploadApplied(v)'
        BY <1>23, <4>3, UploadKept
      <4> QED BY <4>2, <4>4
    <3> QED BY <3>1, <3>2
  <2>3. ASSUME NEW ca \in CAs, Stored(ca)'
        PROVE  \E r \in RequestIDs : batches'[r] # None /\ Brought(ca, batches[r])'
    <3>1. CASE Stored(ca)
      <4>1. PICK r \in RequestIDs : batches[r] # None /\ Brought(ca, batches[r])
        BY <1>t, <3>1, AllOrNothingUploads
      <4>2. batches'[r] = batches[r]
        BY <1>23, <4>1 DEF Kept, Committed
      <4> QED BY <4>1, <4>2 DEF Brought, IsCert
    <3>2. CASE ~Stored(ca)
      <4>1. PICK i \in new : files[i].item = ca
        BY <1>4, <1>5, <2>3, <3>2
      <4>2. batches'[q] = u
        BY <1>2, <1>3, <1>t DEF TypeOK
      <4> QED BY <1>1, <1>2, <1>4, <1>6, <4>1, <4>2 DEF Brought, IsCert
    <3> QED BY <3>1, <3>2
  <2> QED BY <2>2, <2>3, AllOrNothingUploadsNext
<1>25. NumbersAboveImported'
  <2>1. ASSUME NEW d \in documents'
        PROVE  \E p \in CAs : /\ Stored(p)' /\ CRLNames(d, p)
                              /\ CRLFacts[d].signer = CertFacts[p].key
                              /\ CRLFacts[d].number <= crl'[p].floor
    <3>1. CASE d \in documents
      BY <1>11, <1>23, <1>t, <3>1, KeptNumber
    <3>2. ASSUME NEW i \in DOMAIN files, files[i].kind = "crl", files[i].item = d
          PROVE  \E p \in CAs : /\ Stored(p)' /\ CRLNames(d, p)
                                /\ CRLFacts[d].signer = CertFacts[p].key
                                /\ CRLFacts[d].number <= crl'[p].floor
      BY <1>13, <3>2
    <3> QED BY <1>12, <3>1, <3>2
  <2> QED BY <2>1 DEF NumbersAboveImported, CRLNames
<1> QED BY <1>7, <1>19, <1>20, <1>21, <1>22, <1>23, <1>24, <1>25 DEF ImportInv

-----------------------------------------------------------------------------
(* The theorems.                                                           *)

\* Every step preserves the invariant and takes nothing away.
LEMMA NextInv == ImportInv /\ [Next]_vars => ImportInv' /\ (Kept \/ UNCHANGED vars)
<1> SUFFICES ASSUME ImportInv, [Next]_vars PROVE ImportInv' /\ (Kept \/ UNCHANGED vars)
  OBVIOUS
<1>1. CASE UNCHANGED vars
  <2>1. Quiet
    BY <1>1 DEF Quiet, vars, pkiVars, ledgerVars
  <2>2. /\ ChainsSound' /\ IdentitiesUnique' /\ AllOrNothing' /\ NumbersAboveImported'
        /\ KeysUsed' = KeysUsed /\ \A x : Stored(x)' <=> Stored(x)
    BY <2>1, QuietKeeps
  <2>3. TypeOK'
    BY <1>1, <2>2 DEF ImportInv, TypeOK, vars, pkiVars, ledgerVars
  <2>4. CallsKnown' /\ KeysKnown'
    BY <1>1, <2>2 DEF ImportInv, CallsKnown, KeysKnown, vars, pkiVars
  <2> QED BY <1>1, <2>2, <2>3, <2>4 DEF ImportInv
<1>2. ASSUME NEW c \in Callers, NEW q \in RequestIDs, NEW u \in Uploads,
             PrepareImport(c, q, u), UNCHANGED changes
      PROVE  ImportInv' /\ Kept
  BY <1>2, PrepareStep
<1>3. ASSUME NEW c \in Callers, CommitImport(c) \/ EndCall(c), UNCHANGED changes
      PROVE  ImportInv' /\ Kept
  BY <1>3, CommitStep, EndStep
<1>4. ASSUME NEW l \in Certs, NEW ca \in CAs, StoreIssued(l, ca), UNCHANGED changes
      PROVE  ImportInv' /\ Kept
  BY <1>4, IssueStep
<1>5. ASSUME changes < MaxChanges, changes' = changes + 1, Others
      PROVE  ImportInv' /\ Kept
  BY <1>5, RevokeStep, KeysStep DEF Others
<1> QED BY <1>1, <1>2, <1>3, <1>4, <1>5 DEF Next

\* So the invariant holds in every reachable state.
LEMMA ImportInvariance == Spec => []ImportInv
<1>1. ImportInv /\ [Next]_vars => ImportInv'
  BY NextInv
<1> QED BY <1>1, InitInv, PTL DEF Spec

\* The rows keep the shapes the schema gives them.
THEOREM ImportTypeCorrect == Spec => []TypeOK
BY ImportInvariance, PTL DEF ImportInv

\* Of a committed upload every certificate and every CRL with all its entries is
\* stored, and no CA is stored but by a committed upload, although commitImport
\* goes file by file against a store that changed since it prepared the keys.
THEOREM AllOrNothingCorrect == Spec => []AllOrNothing
BY ImportInvariance, PTL DEF ImportInv

\* Whatever the order of the files and whoever stored the issuer, a stored
\* certificate hangs on a stored CA that signed it: resolveImportItems matches
\* names, verifyChains signatures.
THEOREM ChainsSoundCorrect == Spec => []ChainsSound
BY ImportInvariance, PTL DEF ImportInv

\* No key is certified twice, no serial of a CA used twice, and a row of the
\* ledger links the certificate that has its serial.
THEOREM IdentitiesUniqueCorrect == Spec => []IdentitiesUnique
BY ImportInvariance, PTL DEF ImportInv

\* ObserveImportedNumber keeps the floor above every CRL imported for the CA.
THEOREM NumbersAboveImportedCorrect == Spec => []NumbersAboveImported
BY ImportInvariance, PTL DEF ImportInv

\* First facts, links and review marks stay (Merge), a destroyed key does not
\* come back (attachImportedExistingKey), and the result of a request stays.
THEOREM NothingUndoneCorrect == Spec => NothingUndone
<1> DEFINE A == /\ \A ca \in CAs, n \in Serials :
                      LET old == ledger[<<ca, n>>]
                          new == ledger'[<<ca, n>>]
                      IN Recorded(ca, n) =>
                          /\ new.facts = old.facts
                          /\ old.link # None => new.link = old.link
                          /\ old.review => new.review
                /\ destroyed \subseteq destroyed' \ secrets'
                /\ \A q \in Committed : batches'[q] = batches[q]
<1>1. ASSUME ImportInv, [Next]_vars PROVE [A]_vars
  BY <1>1, NextInv DEF Kept, LedgerKept
<1>2. Spec => [][A]_vars
  BY <1>1, ImportInvariance, PTL DEF Spec
<1> QED BY <1>2 DEF NothingUndone

=============================================================================
