----------------------------- MODULE Lifecycle -----------------------------
(***************************************************************************)
(* The lifecycle decisions of raglifecycle.crexx: pure functions of facts  *)
(* that a caller has read inside its own writer transaction.  A job state  *)
(* is projected from its items, and a retry request is given the one       *)
(* disposition that applies first.                                         *)
(***************************************************************************)
EXTENDS Integers

JobStates == {"queued", "running", "paused", "cancel_requested",
              "completed", "completed_with_errors", "cancelled", "failed"}

ItemStates == {"queued", "running", "cancel_requested", "processed",
               "skipped", "dead_letter", "cancelled"}

TerminalJob(job) ==
    job \in {"completed", "completed_with_errors", "cancelled", "failed"}

(* Items that still hold or await work, and items a worker owns. *)
ActiveItem == {"queued", "running", "cancel_requested"}
OwnedItem  == {"running", "cancel_requested"}
DoneItem   == {"processed", "skipped"}

(***************************************************************************)
(* The state a job shows for its items: active, dead and cancelled say     *)
(* whether any item is in that condition, window is the state of the       *)
(* owning maintenance window ("" when the job has none), and incomplete    *)
(* that an embedding-only run left gaps.                                   *)
(***************************************************************************)
LifecycleJobState(current, active, dead, cancelled, window, incomplete) ==
    LET asked == {"paused", "cancel_requested"} IN
    CASE \/ current = "cancelled"
         \/ window = "active" /\ current \notin asked
            -> current
      [] OTHER ->
         IF active THEN
            CASE current \in asked                   -> current
              [] current \notin asked
                   /\ window \notin {"", "active"}    -> "paused"
              [] OTHER                               -> "running"
         ELSE IF current = "cancel_requested" THEN "cancelled"
         ELSE IF current = "paused" /\ dead /\ window = "" THEN "paused"
         ELSE IF incomplete \/ dead THEN "completed_with_errors"
         ELSE IF cancelled
                 /\ window \notin {"budget-exhausted", "deadline", "complete"}
              THEN "cancelled"
         ELSE "completed"

(***************************************************************************)
(* What becomes of a retry request.  The tests are ordered: an owned or    *)
(* finished item settles the question before its attempt ceiling, and the  *)
(* ceiling before a hold of its job.                                       *)
(***************************************************************************)
RetryDisposition(item, owned, uncertain, review, ceiling, spent, delayed, hold) ==
    IF item \in DoneItem \cup {"resolved"}      THEN "already-complete"
    ELSE IF owned                               THEN "existing-work"
    ELSE IF uncertain                           THEN "provider-outcome-uncertain"
    ELSE IF item = "superseded"                 THEN "superseded"
    ELSE IF review                              THEN "review-required"
    ELSE IF ceiling = 0                         THEN "policy-unavailable"
    ELSE IF spent >= ceiling                    THEN "attempt-limit"
    ELSE IF hold # ""                           THEN hold
    ELSE IF delayed                             THEN "retry-delay"
    ELSE "runnable"

(* A request stays pending until its item is finished or replaced. *)
RequestSettled(disposition) ==
    disposition \in {"already-complete", "superseded", "waived"}

=============================================================================
