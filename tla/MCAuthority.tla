----------------------------- MODULE MCAuthority -----------------------------
(* Instances of Authority for TLC.                                         *)
EXTENDS Authority, TLC

Symmetry ==
    Permutations(Authorities) \cup Permutations(Leaves)
        \cup Permutations(Callers) \cup Permutations(RequestIDs)
=============================================================================
