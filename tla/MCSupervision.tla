---------------------------- MODULE MCSupervision ----------------------------
(***************************************************************************)
(* Supervision on small instances.  Controllers and items are              *)
(* interchangeable; worker identities are handed out in a fixed order.     *)
(***************************************************************************)
EXTENDS Supervision, TLC

Same == Permutations(Controllers) \cup Permutations(Items)

=============================================================================
