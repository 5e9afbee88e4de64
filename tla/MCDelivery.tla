---------------------------- MODULE MCDelivery ----------------------------
(* Instances of Delivery for TLC.                                          *)
EXTENDS DeliveryRefinement, TLC

Symmetry == Permutations(Deliveries) \cup Permutations(Grants) \cup Permutations(Requests)
=============================================================================
