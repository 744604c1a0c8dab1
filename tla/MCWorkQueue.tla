---------------------------- MODULE MCWorkQueue ----------------------------
(***************************************************************************)
(* Instances of WorkQueue for model checking.  Worker identities and items *)
(* are only compared for equality, so permuting them is sound for safety.  *)
(***************************************************************************)
EXTENDS WorkQueue, TLC

WorkerSymmetry == Permutations(Workers)

Symmetry == WorkerSymmetry \cup Permutations(Items)

=============================================================================
