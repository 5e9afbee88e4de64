---------------------------- MODULE CRLRefinement ----------------------------
(***************************************************************************)
(* CRLPublication implements RevocationList.  The ledger is read from the  *)
(* stamps of the revocations rows, the list is the published document of   *)
(* the CRL state, and the signer is retired when Publish refuses it.       *)
(***************************************************************************)
EXTENDS CRLPublication

\* The stamps of the revocations rows.
Stamps == [s \in Serials |-> revocation[s].stamp]

List == INSTANCE RevocationList WITH
    changed    <- Stamps,
    generation <- crl.revGen,
    list       <- crl.published,
    retired    <- ~CanSignCRL

\* Every step of the code, whichever worker finishes first and whatever comes
\* between its two transactions, is a step of the promised list or leaves it
\* alone: the list never goes back, never misses a revocation it is credited
\* with, is not touched once the signer has retired, and a signer that retires
\* leaves one that has caught up.
ImplementsRevocationList == List!ListSpec
==============================================================================
