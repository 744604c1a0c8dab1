---------------------------- MODULE MCWindows -----------------------------
(* Instance of Windows for TLC: workers are alike.                         *)
EXTENDS Windows, TLC

Alike == Permutations(Workers)

(* Bound: one command or one fault, and each window is more generous than  *)
(* the one before it, so that a retry held in one is due in the next.      *)
Sparse ==
    /\ commands + faults <= 1
    /\ \A j \in Jobs(db) : db.windows[j].limit = j

=============================================================================
