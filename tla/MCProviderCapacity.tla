-------------------------- MODULE MCProviderCapacity --------------------------
(***************************************************************************)
(* ProviderCapacity on a small instance: two calls reserve one token, one  *)
(* reserves two.                                                           *)
(***************************************************************************)
EXTENDS ProviderCapacity

CONSTANTS a, b, c

Reserved == [x \in Calls |-> IF x = c THEN 2 ELSE 1]

=============================================================================
