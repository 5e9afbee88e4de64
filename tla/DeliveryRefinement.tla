------------------------- MODULE DeliveryRefinement -------------------------
(***************************************************************************)
(* Delivery implements OneShotHandoff.  The custody of a key is the state  *)
(* column of its row, a claim is a consumed_at, a release a call of the    *)
(* sink.                                                                   *)
(***************************************************************************)
EXTENDS Delivery

Custody ==
    [none             |-> "none",
     pending          |-> "held",
     transferring     |-> "claimed",
     server_completed |-> "confirmed",
     failed           |-> "revoked"]

Handoff == INSTANCE OneShotHandoff WITH
    Keys     <- Deliveries,
    custody  <- [d \in Deliveries |-> Custody[delivery[d].state]],
    claimed  <- {d \in Deliveries : delivery[d].consumedAt # Unset},
    released <- handed

\* Every step of the delivery code is a step of the promised hand-off or
\* leaves it alone.
ImplementsHandoff == Handoff!HandoffSpec
=============================================================================
