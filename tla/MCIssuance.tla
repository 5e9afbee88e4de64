------------------------------ MODULE MCIssuance ------------------------------
(* Instances of Issuance for TLC.                                          *)
EXTENDS Issuance, TLC

Symmetry ==
    Permutations(Serials) \cup Permutations(Callers) \cup Permutations(RequestIDs)
=============================================================================
