--------------------------- MODULE OneShotHandoff ---------------------------
(***************************************************************************)
(* What the delivery of a leaf private key promises, with no store, clock, *)
(* link, process or crash in sight: a key is deposited, claimed by one     *)
(* transfer, given out at most once and only after the claim, and ends     *)
(* confirmed or revoked, never both.  A revocation may overtake a claimed  *)
(* transfer; then the key may still go out, but is never confirmed.        *)
(***************************************************************************)
EXTENDS Naturals

CONSTANT Keys

VARIABLES
    custody,   \* "none", "held", "claimed", "confirmed" or "revoked"
    claimed,   \* the keys some transfer ever claimed
    released   \* how often a key was given out

handoffVars == <<custody, claimed, released>>

HandoffInit ==
    /\ custody = [k \in Keys |-> "none"]
    /\ claimed = {}
    /\ released = [k \in Keys |-> 0]

Deposit(k) ==
    /\ custody[k] = "none"
    /\ custody' = [custody EXCEPT ![k] = "held"]
    /\ UNCHANGED <<claimed, released>>

Claim(k) ==
    /\ custody[k] = "held"
    /\ k \notin claimed
    /\ custody' = [custody EXCEPT ![k] = "claimed"]
    /\ claimed' = claimed \cup {k}
    /\ UNCHANGED released

Release(k) ==
    /\ k \in claimed
    /\ released[k] = 0
    /\ custody[k] \in {"claimed", "revoked"}
    /\ released' = [released EXCEPT ![k] = 1]
    /\ UNCHANGED <<custody, claimed>>

Confirm(k) ==
    /\ custody[k] = "claimed"
    /\ released[k] = 1
    /\ custody' = [custody EXCEPT ![k] = "confirmed"]
    /\ UNCHANGED <<claimed, released>>

Revoke(k) ==
    /\ custody[k] \in {"held", "claimed"}
    /\ custody' = [custody EXCEPT ![k] = "revoked"]
    /\ UNCHANGED <<claimed, released>>

HandoffNext ==
    \E k \in Keys :
        Deposit(k) \/ Claim(k) \/ Release(k) \/ Confirm(k) \/ Revoke(k)

HandoffSpec == HandoffInit /\ [][HandoffNext]_handoffVars
=============================================================================
