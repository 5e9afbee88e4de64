--------------------------- MODULE RevocationList ---------------------------
(***************************************************************************)
(* What the publication of revocations promises to whoever reads the CRL   *)
(* of a CA key, with no number reserved, no worker, job, lease, import or  *)
(* stored row in sight: revocations are recorded one generation at a time; *)
(* the list is replaced as a whole, by one with a higher number that lists *)
(* every revocation last changed up to the generation it covers and only   *)
(* recorded ones, and drops none; and the signer retires only when the     *)
(* list has caught up, after which the list stands for good.               *)
(***************************************************************************)
EXTENDS Naturals

CONSTANT Serials

VARIABLES
    changed,     \* the generation of the last change of a revocation, 0 for none
    generation,  \* the generation the ledger has reached
    list,        \* the CRL a reader gets, number 0 for none
    retired      \* whether the signer has retired

listVars == <<changed, generation, list, retired>>

Lists == [number : Nat, covered : Nat, listed : SUBSET Serials]

Recorded == {s \in Serials : changed[s] > 0}

ListInit ==
    /\ changed = [s \in Serials |-> 0]
    /\ generation = 0
    /\ list = [number |-> 0, covered |-> 0, listed |-> {}]
    /\ retired = FALSE

\* Revocations are recorded, or facts added to recorded ones.
Record(S) ==
    /\ generation' = generation + 1
    /\ changed' = [s \in Serials |-> IF s \in S THEN generation + 1 ELSE changed[s]]
    /\ UNCHANGED <<list, retired>>

\* The list is replaced.
Replace ==
    /\ ~retired
    /\ list' \in Lists
    /\ list'.number > list.number
    /\ list'.covered \in list.covered..generation
    /\ list.listed \subseteq list'.listed
    /\ {s \in Recorded : changed[s] <= list'.covered} \subseteq list'.listed
    /\ list'.listed \subseteq Recorded
    /\ UNCHANGED <<changed, generation, retired>>

\* The signer retires, leaving a list of all that is recorded.
Retire ==
    /\ ~retired
    /\ list.number > 0
    /\ list.covered = generation
    /\ retired' = TRUE
    /\ UNCHANGED <<changed, generation, list>>

ListNext ==
    \/ \E S \in (SUBSET Serials) \ {{}} : Record(S)
    \/ Replace
    \/ Retire

ListSpec == ListInit /\ [][ListNext]_listVars
=============================================================================
