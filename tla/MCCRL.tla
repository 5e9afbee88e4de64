------------------------------- MODULE MCCRL -------------------------------
(* One serial with two sets of facts, two workers, an imported CRL whose     *)
(* number may be above or below the reserved one, and one fault.             *)
EXTENDS CRLRefinement
=============================================================================
