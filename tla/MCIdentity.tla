----------------------------- MODULE MCIdentity -----------------------------
(* Identity with the symmetry its safety run uses.                         *)
EXTENDS Identity, TLC

Symmetry ==
    Permutations(Callers) \cup Permutations(Sessions) \cup Permutations(Tokens)

=============================================================================
