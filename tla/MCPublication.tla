--------------------------- MODULE MCPublication ---------------------------
(***************************************************************************)
(* Publication on small instances.  Builders (all of them publish too) are *)
(* interchangeable, and so are members; settings are not, because a        *)
(* process without a job has one.                                          *)
(***************************************************************************)
EXTENDS Publication, TLC

Same == Permutations(Builders) \cup Permutations(Members)

=============================================================================
