----------------------- MODULE WorkQueueHistoryProofs -----------------------
(***************************************************************************)
(* More proofs about WorkQueue: the jobs row never drifts from its items,  *)
(* a requested cancellation is a barrier, what is finished stays as it is, *)
(* no request is repeated blindly, and what is published is accounted for. *)
(* All of them rest on the invariant of WorkQueueProofs.                   *)
(***************************************************************************)
EXTENDS WorkQueueProofs

-----------------------------------------------------------------------------
(* The jobs row and its items.                                             *)

(* JobMatchesItems of a job state j and item states s that a transaction   *)
(* has arrived at.                                                         *)
Matches(j, s) ==
    LET active == {i \in Items : s[i] \in ActiveItem} IN
    /\ TerminalJob(j) => active = {}
    /\ j \in {"queued", "running"} => active # {}
    /\ j = "cancel_requested" =>
          active # {} /\ \A i \in active : s[i] = "cancel_requested"

Stopping == {"cancel_requested", "cancelled"}

(* From job state j and item states s nothing that is stopping comes back, *)
(* and nothing more of it is finished.                                     *)
Held(j, s) ==
    jobState \in Stopping =>
        /\ j \in Stopping
        /\ \A i \in Items : s[i] \in DoneItem => state[i] \in DoneItem

(* The projection of the job suits its items, if a cancelled job has no    *)
(* active item and a job to be cancelled has only such as will be          *)
(* cancelled (lifecyclejobstate).                                          *)
LEMMA RefreshedMatches ==
  ASSUME NEW j \in JobStates, NEW s \in [Items -> ItemStates],
         j = "cancelled" => \A i \in Items : s[i] \notin ActiveItem,
         j = "cancel_requested" =>
            \A i \in Items : s[i] \in ActiveItem => s[i] = "cancel_requested"
  PROVE  /\ Matches(RefreshedJob(j, s), s)
         /\ j \in Stopping => RefreshedJob(j, s) \in Stopping
  <1> DEFINE active == \E i \in Items : s[i] \in ActiveItem
             dead == \E i \in Items : s[i] \in {"dead_letter"}
             cancelled == \E i \in Items : s[i] \in {"cancelled"}
             new == LifecycleJobState(j, active, dead, cancelled, "", FALSE)
  <1>1. RefreshedJob(j, s) = new
    BY DEF RefreshedJob
  <1>2. CASE j = "cancelled"
    <2>1. new = "cancelled"
      BY <1>2 DEF LifecycleJobState
    <2> QED
      BY <1>1, <1>2, <2>1 DEF Matches, TerminalJob, Stopping
  <1>3. CASE active /\ j # "cancelled"
    <2>1. /\ j \in {"paused", "cancel_requested"} => new = j
          /\ j \notin {"paused", "cancel_requested"} => new = "running"
      BY <1>3 DEF LifecycleJobState
    <2> QED
      BY <1>1, <1>3, <2>1 DEF Matches, TerminalJob, Stopping
  <1>4. CASE ~active /\ j # "cancelled"
    <2>1. /\ new \in {"cancelled", "paused", "completed_with_errors", "completed"}
          /\ j = "cancel_requested" => new = "cancelled"
      BY <1>4 DEF LifecycleJobState
    <2> QED
      BY <1>1, <1>4, <2>1 DEF Matches, TerminalJob, Stopping
  <1> QED
    BY <1>2, <1>3, <1>4

(* The hold of a stopped job keeps every retry request waiting. *)
LEMMA HeldRequests ==
  ASSUME NEW j \in Stopping \cup {"paused"}, NEW s, NEW o, NEW r
  PROVE  Requeued(j, s, o, r) = {}
  BY DEF Requeued, Disposition, RetryDisposition, JobHold, Stopping, DoneItem

(* Reconsideration leaves a job that suits its items                       *)
(* (_reconsideritemretries).                                               *)
LEMMA ReconsideredMatches ==
  ASSUME NEW j \in JobStates, NEW s \in [Items -> ItemStates], NEW o,
         NEW r \in [Items -> RetryStates], Matches(j, s)
  PROVE  /\ Matches(ReconsideredJob(j, s, o, r), ReconsideredStates(j, s, o, r))
         /\ j \in Stopping => ReconsideredJob(j, s, o, r) = j
  <1> DEFINE again == Requeued(j, s, o, r)
             t == ReconsideredStates(j, s, o, r)
  <1>1. t = [i \in Items |-> IF i \in again THEN "queued" ELSE s[i]]
    BY DEF ReconsideredStates
  <1>2. again \subseteq Items
    BY DEF Requeued
  <1>3. CASE again = {}
    <2>1. t = s
      BY <1>1, <1>3
    <2>2. ReconsideredJob(j, s, o, r) = j
      BY <1>3 DEF ReconsideredJob
    <2> QED
      BY <2>1, <2>2
  <1>4. CASE again # {}
    <2>1. j \notin Stopping \cup {"paused"}
      BY <1>4, HeldRequests
    <2>2. ReconsideredJob(j, s, o, r) \in {"queued", "running"}
      BY <1>4, <2>1 DEF ReconsideredJob, JobStates, Stopping
    <2>3. \E i \in Items : ReconsideredStates(j, s, o, r)[i] \in ActiveItem
      BY <1>1, <1>2, <1>4 DEF ActiveItem
    <2> QED
      BY <2>1, <2>2, <2>3 DEF Matches, TerminalJob, Stopping
  <1> QED
    BY <1>3, <1>4

(* A transaction that ends with a reconsideration. *)
LEMMA ReconsiderHolds ==
  ASSUME NEW j \in JobStates, NEW s \in [Items -> ItemStates], NEW o,
         NEW r \in [Items -> RetryStates], Matches(j, s), Held(j, s)
  PROVE  LET k == ReconsideredJob(j, s, o, r)
             t == ReconsideredStates(j, s, o, r)
         IN  Matches(k, t) /\ Held(k, t)
  <1>1. \A i \in Items : ReconsideredStates(j, s, o, r)[i] \in {s[i], "queued"}
    BY ReconsideredFacts
  <1>2. Held(ReconsideredJob(j, s, o, r), ReconsideredStates(j, s, o, r))
    BY <1>1, ReconsideredMatches DEF Held, DoneItem
  <1> QED
    BY <1>2, ReconsideredMatches

(* A transaction that ends with a refresh. *)
LEMMA RefreshHolds ==
  ASSUME NEW j \in JobStates, NEW s \in [Items -> ItemStates], NEW o,
         NEW r \in [Items -> RetryStates], Held(j, s),
         j = "cancelled" => \A i \in Items : s[i] \notin ActiveItem,
         j = "cancel_requested" =>
            \A i \in Items : s[i] \in ActiveItem => s[i] = "cancel_requested",
         Refresh(j, s, o, r)
  PROVE  Matches(jobState', state') /\ Held(jobState', state')
  <1> DEFINE k == RefreshedJob(j, s)
  <1>1. k \in JobStates
    BY RefreshedType
  <1>2. Matches(k, s) /\ Held(k, s)
    BY RefreshedMatches DEF Held
  <1>3. jobState' = ReconsideredJob(k, s, o, r) /\ state' = ReconsideredStates(k, s, o, r)
    BY DEF Refresh, Reconsider
  <1> HIDE DEF k
  <1> QED
    BY <1>1, <1>2, <1>3, ReconsiderHolds

(* JobMatchesItems is Matches of the rows. *)
LEMMA RowsMatch ==
  /\ JobMatchesItems <=> Matches(jobState, state)
  /\ JobMatchesItems' <=> Matches(jobState', state')
  BY DEF JobMatchesItems, Matches

(* Under a fence the job is not stopping: an item that is running suits    *)
(* neither a cancelled job nor one that is to be cancelled.                *)
LEMMA RunningIsUnstopped ==
  ASSUME IInv, JobMatchesItems, NEW i \in Items, state[i] = "running"
  PROVE  jobState \notin Stopping
  BY DEF JobMatchesItems, Stopping, ActiveItem, TerminalJob

(* The end of a claim suits the job: only an item that was running can be  *)
(* queued again.                                                           *)
LEMMA SettledMatches ==
  ASSUME IInv, JobMatchesItems, NEW w \in Workers, claim[w] \in Attempts,
         NEW next \in ItemStates \ OwnedItem, NEW ended, Settled(w, next, ended),
         state[claim[w][1]] = "running" \/ next = "cancelled"
  PROVE  JobMatchesItems' /\ Held(jobState', state')
  <1> DEFINE i == claim[w][1]
             s == [state EXCEPT ![i] = next]
             o == [outcome EXCEPT ![claim[w]] = ended]
  <1>1. i \in Items
    BY DEF Attempts
  <1>2. /\ jobState \in JobStates /\ state \in [Items -> ItemStates]
        /\ retry \in [Items -> RetryStates]
    BY PartsOfInvariant DEF TablesOK
  <1>3. Refresh(jobState, s, o, retry)
    BY DEF Settled
  <1>4. /\ s \in [Items -> ItemStates] /\ s[i] = next
        /\ \A k \in Items \ {i} : s[k] = state[k]
    BY <1>1, <1>2
  <1>5. Held(jobState, s)
    <2>1. CASE state[i] = "running"
      BY <1>1, <2>1, RunningIsUnstopped DEF Held
    <2>2. CASE next = "cancelled"
      BY <1>1, <1>4, <2>2 DEF Held, DoneItem
    <2> QED
      BY <2>1, <2>2
  <1>6. \A k \in Items :
           jobState \in Stopping /\ s[k] \in ActiveItem =>
              k # i /\ s[k] = state[k]
    <2>1. CASE state[i] = "running"
      BY <1>1, <2>1, RunningIsUnstopped
    <2>2. CASE next = "cancelled"
      BY <1>1, <1>4, <2>2 DEF ActiveItem
    <2> QED
      BY <2>1, <2>2
  <1>7. /\ jobState = "cancelled" => \A k \in Items : s[k] \notin ActiveItem
        /\ jobState = "cancel_requested" =>
              \A k \in Items : s[k] \in ActiveItem => s[k] = "cancel_requested"
    BY <1>6 DEF JobMatchesItems, TerminalJob, Stopping
  <1> HIDE DEF s, o
  <1> QED
    BY <1>2, <1>3, <1>4, <1>5, <1>7, RefreshHolds, RowsMatch

(* A failed attempt under its fence suits the job (failattempt).           *)
LEMMA FailedMatches ==
  ASSUME IInv, JobMatchesItems, NEW w \in Workers, claim[w] \in Attempts, ActiveFence(w),
         NEW retryable, NEW uncalled, NEW citation,
         Failed(w, retryable, uncalled, citation)
  PROVE  JobMatchesItems' /\ Held(jobState', state')
  <1>1. PICK next \in ItemStates \ OwnedItem,
             ended \in Outcomes \ {"none", "running", "succeeded", "skipped"} :
             Settled(w, next, ended)
    BY FailedSettles
  <1>2. state[claim[w][1]] = "running"
    BY DEF ActiveFence
  <1> QED
    BY <1>1, <1>2, SettledMatches

(* A step that touches neither the job nor its items.                      *)
LEMMA RestingJob ==
  ASSUME JobMatchesItems, UNCHANGED <<jobState, state>>
  PROVE  JobMatchesItems' /\ Held(jobState', state')
  BY RowsMatch DEF Held

(* Every end of a claim suits the job. *)
LEMMA EndMatches ==
  ASSUME IInv, JobMatchesItems, NEW w \in Workers,
         \/ Defer(w) \/ FailUnanswered(w) \/ FailDenied(w) \/ FailResult(w)
         \/ FailPublication(w) \/ Publish(w) \/ Skip(w) \/ AcknowledgeCancel(w)
  PROVE  JobMatchesItems' /\ Held(jobState', state')
  <1>1. claim[w] \in Attempts
    <2>1. pc[w] \in {"reserve", "unanswered", "denied", "finish", "retry", "acknowledge"}
      BY DEF Defer, FailUnanswered, FailDenied, FailResult, FailPublication, Publish, Skip,
             AcknowledgeCancel
    <2> QED
      BY <2>1, InPass
  <1>2. CASE UNCHANGED <<jobState, state>>
    BY <1>2, RestingJob
  <1>3. ASSUME ActiveFence(w), \E retryable, uncalled, citation : Failed(w, retryable, uncalled, citation)
        PROVE  JobMatchesItems' /\ Held(jobState', state')
    BY <1>1, <1>3, FailedMatches
  <1>4. CASE FailUnanswered(w) /\ ~UNCHANGED <<jobState, state>>
    BY <1>3, <1>4 DEF FailUnanswered, jobVars, itemVars
  <1>5. CASE FailDenied(w) /\ ~UNCHANGED <<jobState, state>>
    BY <1>3, <1>5 DEF FailDenied, jobVars, itemVars
  <1>6. CASE FailResult(w) /\ ~UNCHANGED <<jobState, state>>
    BY <1>3, <1>6 DEF FailResult, jobVars, itemVars
  <1>7. CASE FailPublication(w) /\ ~UNCHANGED <<jobState, state>>
    BY <1>3, <1>7 DEF FailPublication, jobVars, itemVars
  <1>8. ASSUME NEW next \in {"queued", "processed", "skipped", "cancelled"},
               NEW ended, Settled(w, next, ended),
               state[claim[w][1]] = "running" \/ next = "cancelled"
        PROVE  JobMatchesItems' /\ Held(jobState', state')
    <2>1. next \in ItemStates \ OwnedItem
      BY DEF ItemStates, OwnedItem
    <2> QED
      BY <1>1, <1>8, <2>1, SettledMatches
  <1>9. CASE Defer(w)
    BY <1>8, <1>9 DEF Defer, Admissible, ActiveFence
  <1>10. CASE Publish(w)
    BY <1>8, <1>10 DEF Publish, ActiveFence
  <1>11. CASE Skip(w) /\ ~UNCHANGED <<jobState, state>>
    BY <1>8, <1>11 DEF Skip, ActiveFence, jobVars
  <1>12. CASE AcknowledgeCancel(w) /\ ~UNCHANGED <<jobState, state>>
    BY <1>8, <1>12 DEF AcknowledgeCancel, jobVars
  <1> QED
    BY <1>2, <1>4, <1>5, <1>6, <1>7, <1>9, <1>10, <1>11, <1>12

(* Recovery suits the job before it reconsiders anything: a job without    *)
(* active items is refreshed, and one to be cancelled loses only items     *)
(* that are cancelled (claimnext).                                         *)
LEMMA DrainedMatches ==
  ASSUME IInv, JobMatchesItems
  PROVE  Matches(DrainedJob, RecoveredStates) /\ Held(DrainedJob, RecoveredStates)
  <1> DEFINE s == RecoveredStates
  <1>1. jobState \in JobStates /\ state \in [Items -> ItemStates] /\ TypeOK /\ SingleOwner
    BY PartsOfInvariant DEF TablesOK, Tables
  <1>2. /\ s \in [Items -> ItemStates]
        /\ \A i \in Items \ Lapsed : s[i] = state[i]
        /\ \A i \in Lapsed : /\ state[i] \in OwnedItem
                             /\ s[i] \in {"queued", "dead_letter", "cancelled"}
    BY <1>1, RecoveredItems
  <1>3. \A i \in Lapsed : i \in Items /\ (state[i] = "cancel_requested" => s[i] = "cancelled")
    BY DEF RecoveredStates, Lapsed
  <1> HIDE DEF s
  <1>4. Held(jobState, s)
    BY <1>2 DEF Held, DoneItem
  <1>5. TerminalJob(jobState) => \A i \in Items : s[i] = state[i] /\ s[i] \notin ActiveItem
    BY <1>2, <1>3 DEF JobMatchesItems, OwnedItem, ActiveItem
  <1>6. jobState = "cancel_requested" =>
           \A i \in Items : s[i] \in ActiveItem => s[i] = "cancel_requested"
    BY <1>2, <1>3 DEF JobMatchesItems, OwnedItem, ActiveItem
  <1>7. CASE Drained
    <2>1. DrainedJob = RefreshedJob(jobState, s)
      BY <1>7 DEF DrainedJob, s
    <2>2. jobState = "cancelled" => \A i \in Items : s[i] \notin ActiveItem
      BY <1>5 DEF TerminalJob
    <2>3. Matches(DrainedJob, s) /\ (jobState \in Stopping => DrainedJob \in Stopping)
      BY <1>1, <1>2, <1>6, <2>1, <2>2, RefreshedMatches
    <2> QED
      BY <1>4, <2>3 DEF Held, s
  <1>8. CASE ~Drained
    <2>1. DrainedJob = jobState
      BY <1>8 DEF DrainedJob
    <2>2. CASE Lapsed = {}
      BY <1>2, <1>4, <2>1, <2>2 DEF Matches, JobMatchesItems, s
    <2>3. CASE Lapsed # {} /\ jobState \in {"running", "queued", "paused", "cancel_requested"}
      <3>1. \E i \in Items : s[i] \in ActiveItem
        BY <1>8, <2>3 DEF Drained, s
      <3> QED
        BY <1>4, <1>6, <2>1, <2>3, <3>1 DEF Matches, TerminalJob, s
    <2>4. CASE Lapsed # {} /\ jobState \notin {"running", "queued", "paused", "cancel_requested"}
      <3>1. TerminalJob(jobState)
        BY <1>1, <2>4 DEF TerminalJob, JobStates
      <3>2. jobState # "cancel_requested"
        BY <2>4
      <3> QED
        BY <1>4, <1>5, <2>1, <2>4, <3>1, <3>2 DEF Matches, s
    <2> QED
      BY <2>2, <2>3, <2>4
  <1> QED
    BY <1>7, <1>8

(* What a claim is offered suits the job. *)
LEMMA OfferedMatches ==
  ASSUME IInv, JobMatchesItems
  PROVE  Matches(OfferedJob, OfferedStates) /\ Held(OfferedJob, OfferedStates)
  <1>1. /\ DrainedJob \in JobStates /\ RecoveredStates \in [Items -> ItemStates]
        /\ retry \in [Items -> RetryStates]
    BY PartsOfInvariant, RecoveredJobType, RecoveredItems DEF TablesOK, Tables
  <1> QED
    BY <1>1, DrainedMatches, ReconsiderHolds DEF OfferedJob, OfferedStates

(* Recovery without a claim suits the job. *)
LEMMA RecoveryMatches ==
  ASSUME IInv, JobMatchesItems, RecoverLeases
  PROVE  JobMatchesItems' /\ Held(jobState', state')
  <1>1. CASE Drained
    <2>1. DrainedJob = RefreshedJob(jobState, RecoveredStates)
      BY <1>1 DEF DrainedJob
    <2>2. jobState' = OfferedJob /\ state' = OfferedStates
      BY <1>1, <2>1 DEF RecoverLeases, Refresh, Reconsider, OfferedJob, OfferedStates
    <2> QED
      BY <2>2, OfferedMatches, RowsMatch
  <1>2. CASE ~Drained
    <2>1. jobState' = DrainedJob /\ state' = RecoveredStates
      BY <1>2 DEF RecoverLeases, DrainedJob
    <2> QED
      BY <2>1, DrainedMatches, RowsMatch
  <1> QED
    BY <1>1, <1>2

(* A claim makes an offered job run, and no offer is made of one that is   *)
(* stopping (claimnext).                                                   *)
LEMMA ClaimMatches ==
  ASSUME IInv, JobMatchesItems, NEW w \in Workers, Claim(w)
  PROVE  JobMatchesItems' /\ Held(jobState', state')
  <1>1. CASE ClaimNothing(w)
    BY <1>1, OfferedMatches, RowsMatch DEF ClaimNothing
  <1>2. CASE ClaimNext(w)
    <2>1. PICK i \in Items : jobState' = "running"
                             /\ state' = [OfferedStates EXCEPT ![i] = "running"]
      BY <1>2 DEF ClaimNext
    <2>2. OfferedJob \notin Stopping
      BY <1>2 DEF ClaimNext, Stopping
    <2>3. jobState \notin Stopping
      BY <2>2, OfferedMatches DEF Held
    <2>4. state'[i] \in ActiveItem
      BY <2>1, OfferedFacts DEF ActiveItem
    <2>5. Matches(jobState', state')
      BY <2>1, <2>4 DEF Matches, TerminalJob
    <2> QED
      BY <2>3, <2>5, RowsMatch DEF Held
  <1> QED
    BY <1>1, <1>2 DEF Claim

(* The commands of the operator suit the job. *)
LEMMA OperatorMatches ==
  ASSUME IInv, JobMatchesItems, Operator
  PROVE  JobMatchesItems' /\ Held(jobState', state')
  <1>1. /\ jobState \in JobStates /\ state \in [Items -> ItemStates]
        /\ retry \in [Items -> RetryStates]
    BY PartsOfInvariant DEF TablesOK
  <1>2. CASE RequestCancel
    <2> DEFINE s == [i \in Items |-> CASE state[i] = "queued"  -> "cancelled"
                                       [] state[i] = "running" -> "cancel_requested"
                                       [] OTHER                -> state[i]]
    <2>1. /\ s \in [Items -> ItemStates]
          /\ \A i \in Items : s[i] \in ActiveItem => s[i] = "cancel_requested"
      BY <1>1 DEF ItemStates, ActiveItem
    <2>2. jobState \notin Stopping /\ Refresh("cancel_requested", s, outcome, retry)
      BY <1>2 DEF RequestCancel, Stopping, TerminalJob
    <2>3. Held("cancel_requested", s) /\ "cancel_requested" \in JobStates
      BY <2>2 DEF Held, JobStates
    <2> HIDE DEF s
    <2> QED
      BY <1>1, <2>1, <2>2, <2>3, RefreshHolds, RowsMatch
  <1>3. CASE PauseJob
    BY <1>3, RowsMatch DEF PauseJob, Matches, TerminalJob, Held, Stopping
  <1>4. CASE ResumeJob
    <2>1. jobState \notin Stopping
      BY <1>4 DEF ResumeJob, Stopping
    <2>2. CASE \E i \in Items : state[i] \in ActiveItem
      <3>1. jobState' = "queued" /\ state' = state
        BY <1>4, <2>2 DEF ResumeJob
      <3> QED
        BY <2>1, <2>2, <3>1, RowsMatch DEF Matches, TerminalJob, Held
    <2>3. CASE ~\E i \in Items : state[i] \in ActiveItem
      <3>1. Refresh("queued", state, outcome, retry)
        BY <1>4, <2>3 DEF ResumeJob
      <3>2. Held("queued", state) /\ "queued" \in JobStates
        BY <2>1 DEF Held, JobStates
      <3> QED
        BY <1>1, <2>3, <3>1, <3>2, RefreshHolds, RowsMatch
    <2> QED
      BY <2>2, <2>3
  <1>5. ASSUME NEW i \in Items, RetryDeadLetter(i)
        PROVE  JobMatchesItems' /\ Held(jobState', state')
    <2> DEFINE r == [retry EXCEPT ![i] = IF @ = "none" THEN "pending" ELSE @]
    <2>1. r \in [Items -> RetryStates]
      BY <1>1 DEF RetryStates
    <2>2. /\ jobState' = ReconsideredJob(jobState, state, outcome, r)
          /\ state' = ReconsideredStates(jobState, state, outcome, r)
      BY <1>5 DEF RetryDeadLetter, Reconsider
    <2> HIDE DEF r
    <2>3. Matches(jobState, state) /\ Held(jobState, state)
      BY RowsMatch DEF Held
    <2> QED
      BY <1>1, <2>1, <2>2, <2>3, ReconsiderHolds, RowsMatch
  <1> QED
    BY <1>2, <1>3, <1>4, <1>5 DEF Operator

(* Every step suits the job, and what is stopping stays stopping. *)
LEMMA StepMatches ==
  ASSUME IInv, JobMatchesItems, [Next]_vars
  PROVE  JobMatchesItems' /\ Held(jobState', state')
  <1>1. CASE UNCHANGED <<jobState, state>>
    BY <1>1, RestingJob
  <1>2. ASSUME NEW w \in Workers, RecoverAfterHold(w) \/ RecoverExited(w)
        PROVE  JobMatchesItems' /\ Held(jobState', state')
    BY <1>2, RecoveryMatches DEF RecoverAfterHold, RecoverExited
  <1>3. ASSUME NEW w \in Workers, Pass(w) PROVE JobMatchesItems' /\ Held(jobState', state')
    <2>1. CASE \/ ReadReceipt(w) \/ PolicyUnavailable(w) \/ Deny(w) \/ ReserveBusy(w)
               \/ Process(w) \/ PreventCall(w) \/ UseStoredVector(w)
               \/ LoseResponse(w) \/ Decide(w) \/ PublicationFails(w) \/ SeeCancel(w)
               \/ EndPass(w)
      <3>1. UNCHANGED tables
        BY <2>1 DEF ReadReceipt, PolicyUnavailable, Deny, ReserveBusy, Process,
                    PreventCall, UseStoredVector, LoseResponse, Decide, PublicationFails,
                    SeeCancel, EndPass
      <3> QED
        BY <1>1, <3>1 DEF tables, jobVars, itemVars
    <2>2. CASE \/ Reserve(w) \/ BeginRequest(w) \/ RecordResponse(w) \/ HoldUncertain(w)
               \/ Settle(w) \/ SettleOriginal(w) \/ LinkReceipt(w)
      <3>1. UNCHANGED <<jobState, state>>
        BY <2>2 DEF Reserve, BeginRequest, RecordResponse, HoldUncertain, Settle,
                    SettleOriginal, LinkReceipt, jobVars, itemVars
      <3> QED
        BY <1>1, <3>1
    <2>3. CASE \/ Defer(w) \/ FailUnanswered(w) \/ FailDenied(w) \/ FailResult(w)
               \/ FailPublication(w) \/ Publish(w) \/ Skip(w) \/ AcknowledgeCancel(w)
      BY <2>3, EndMatches
    <2> QED
      BY <1>2, <1>3, <2>1, <2>2, <2>3 DEF Pass
  <1>4. ASSUME NEW w \in Workers, Exit(w) \/ Reap(w)
        PROVE  JobMatchesItems' /\ Held(jobState', state')
    <2>1. CASE Exit(w) \/ ReleaseExited(w)
      <3>1. UNCHANGED <<jobState, state>>
        BY <2>1 DEF Exit, ReleaseExited, tables, jobVars, itemVars
      <3> QED
        BY <1>1, <3>1
    <2> QED
      BY <1>2, <1>4, <2>1 DEF Reap
  <1>5. ASSUME NEW i \in Items, LeaseLapses(i) PROVE JobMatchesItems' /\ Held(jobState', state')
    BY <1>5, <1>1 DEF LeaseLapses, jobVars
  <1>6. CASE UNCHANGED vars
    BY <1>1, <1>6 DEF vars, tables, jobVars, itemVars
  <1> QED
    BY <1>3, <1>4, <1>5, <1>6, ClaimMatches, OperatorMatches DEF Next

(* A new job has items, and they are queued. *)
LEMMA InitMatches == Init => JobMatchesItems
  <1> SUFFICES ASSUME Init PROVE JobMatchesItems
    OBVIOUS
  <1>1. PICK i \in Items : TRUE
    BY WorkAssumption
  <1>2. state[i] \in ActiveItem /\ jobState = "queued"
    BY DEF Init, ActiveItem
  <1> QED
    BY <1>2 DEF JobMatchesItems, TerminalJob

(* The job row never drifts from its items, for every number of items,     *)
(* workers and attempts (lifecyclejobstate, requestcancel, claimnext).     *)
THEOREM JobAgreement == Spec => []JobMatchesItems
  <1>1. IInv /\ JobMatchesItems /\ [Next]_vars => JobMatchesItems'
    BY StepMatches
  <1> QED
    BY <1>1, InitMatches, Invariant, PTL DEF Spec

(* Only a worker under its fence begins a request, and no item of a        *)
(* stopping job is under one.                                              *)
LEMMA IntentsUnderFence ==
  ASSUME IInv, [Next]_vars, intent' # intent
  PROVE  \E w \in Workers : /\ BeginRequest(w) /\ ActiveFence(w)
                            /\ intent' = intent \cup {claim[w]}
                            /\ claim[w] \in Attempts
  <1>1. PICK w \in Workers : Pass(w)
    <2>1. \A w \in Workers : Claim(w) \/ Exit(w) \/ Reap(w) => intent' = intent
      BY DEF Claim, ClaimNext, ClaimNothing, Exit, Reap, ReleaseExited, RecoverExited,
             RecoverLeases, RecoverLedger, tables, ledgerVars
    <2>2. \A i \in Items : LeaseLapses(i) => intent' = intent
      BY DEF LeaseLapses, ledgerVars
    <2>3. Operator => intent' = intent
      BY DEF Operator, RequestCancel, PauseJob, ResumeJob, RetryDeadLetter, Elsewhere, ledgerVars
    <2>4. UNCHANGED vars => intent' = intent
      BY DEF vars, tables, ledgerVars
    <2> QED
      BY <2>1, <2>2, <2>3, <2>4 DEF Next
  <1>2. CASE BeginRequest(w)
    <2>1. pc[w] = "admit" /\ ActiveFence(w) /\ intent' = intent \cup {claim[w]}
      BY <1>2 DEF BeginRequest
    <2> QED
      BY <1>2, <2>1, InPass
  <1>3. CASE ~BeginRequest(w)
    BY <1>1, <1>3
       DEF Pass, ReadReceipt, PolicyUnavailable, Reserve, Defer, Deny, ReserveBusy, Process,
           PreventCall, UseStoredVector,
           RecordResponse, LoseResponse, HoldUncertain, RecoverAfterHold, RecoverLeases,
           RecoverLedger, Settle, SettleOriginal, LinkReceipt, Decide, FailUnanswered,
           FailDenied, FailResult, Publish, Skip, PublicationFails, FailPublication, SeeCancel,
           EndPass, AcknowledgeCancel, tables, ledgerVars
  <1> QED
    BY <1>2, <1>3

(* After a cancellation is requested no call begins, nothing is published  *)
(* and the job is not revived, whatever workers and operators do           *)
(* (requestcancel and the fences of every writer).                         *)
THEOREM Cancellation == Spec => CancelBarrier
  <1> DEFINE Barrier ==
        (jobState \in {"cancel_requested", "cancelled"}) =>
          /\ intent' = intent
          /\ jobState' \in {"cancel_requested", "cancelled"}
          /\ \A i \in Items : state'[i] \in DoneItem => state[i] \in DoneItem
  <1>1. ASSUME IInv, JobMatchesItems, [Next]_vars, jobState \in Stopping
        PROVE  intent' = intent
    <2> SUFFICES ASSUME intent' # intent PROVE FALSE
      OBVIOUS
    <2>1. PICK w \in Workers : ActiveFence(w) /\ claim[w] \in Attempts
      BY <1>1, IntentsUnderFence
    <2>2. claim[w][1] \in Items /\ state[claim[w][1]] = "running"
      BY <2>1 DEF ActiveFence, Attempts
    <2> QED
      BY <1>1, <2>2, RunningIsUnstopped
  <1>2. IInv /\ JobMatchesItems /\ [Next]_vars => Barrier
    BY <1>1, StepMatches DEF Held, Stopping
  <1>3. IInv /\ JobMatchesItems /\ [Next]_vars => [Barrier]_vars
    BY <1>2
  <1> QED
    BY <1>3, JobAgreement, Invariant, PTL DEF Spec, CancelBarrier

-----------------------------------------------------------------------------
(* What no step undoes.                                                    *)

(* Items and attempts only go forward; a citation correction is granted to *)
(* an item that is given up in the same transaction.                       *)
Ages ==
    /\ \A i \in Items : state[i] \in DoneItem =>
          state'[i] = state[i] /\ corrected'[i] = corrected[i]
    /\ \A a \in Attempts :
          /\ outcome[a] \notin {"none", "running"} => outcome'[a] = outcome[a]
          /\ outcome[a] = "running" => outcome'[a] # "none"
          /\ outcome'[a] = "running" => corrected'[a[1]] = corrected[a[1]]

(* Where neither items nor attempts change, nothing ages. *)
LEMMA RestingAges ==
  ASSUME UNCHANGED <<state, outcome, corrected>>
  PROVE  Ages
  BY DEF Ages

(* The end of a claim ages the item and the attempt, and no other. *)
LEMMA SettledAges ==
  ASSUME IInv, NEW w \in Workers, claim[w] \in Attempts, outcome[claim[w]] = "running",
         NEW next \in ItemStates \ OwnedItem, NEW ended \in Outcomes \ {"none", "running"},
         Settled(w, next, ended),
         \A i \in Items : i # claim[w][1] => corrected'[i] = corrected[i]
  PROVE  Ages
  <1> DEFINE a == claim[w]
             i == a[1]
             s == [state EXCEPT ![i] = next]
             o == [outcome EXCEPT ![a] = ended]
  <1>1. i \in Items /\ state[i] \in OwnedItem /\ fence[i] = a[2] /\ a = <<i, a[2]>>
    BY PartsOfInvariant DEF Tables, SingleOwner, Attempts
  <1>2. /\ state \in [Items -> ItemStates] /\ jobState \in JobStates
        /\ retry \in [Items -> RetryStates] /\ outcome \in [Attempts -> Outcomes]
    BY PartsOfInvariant DEF TablesOK, Outcomes
  <1>3. outcome' = o /\ Refresh(jobState, s, o, retry)
    BY DEF Settled
  <1>4. s \in [Items -> ItemStates] /\ \A k \in Items \ {i} : s[k] = state[k]
    BY <1>1, <1>2
  <1>5. /\ outcome'[a] = ended
        /\ \A b \in Attempts \ {a} : outcome'[b] = outcome[b]
    BY <1>2, <1>3
  <1> HIDE DEF s, o
  <1>6. \A k \in Items : state'[k] = s[k] \/ s[k] \in {"dead_letter", "cancelled"}
    <2>1. RefreshedJob(jobState, s) \in JobStates
      BY <1>2, RefreshedType
    <2>2. state' = ReconsideredStates(RefreshedJob(jobState, s), s, o, retry)
      BY <1>3 DEF Refresh, Reconsider
    <2> QED
      BY <1>2, <1>4, <2>1, <2>2, ReconsideredFacts
  <1>7. ASSUME NEW k \in Items, state[k] \in DoneItem
        PROVE  state'[k] = state[k] /\ corrected'[k] = corrected[k]
    <2>1. k # i
      BY <1>1, <1>7 DEF DoneItem, OwnedItem
    <2> QED
      BY <1>4, <1>6, <1>7, <2>1 DEF DoneItem
  <1>8. ASSUME NEW b \in Attempts, outcome'[b] = "running"
        PROVE  corrected'[b[1]] = corrected[b[1]]
    <2>1. b # a /\ outcome[b] = "running" /\ b[1] \in Items /\ b = <<b[1], b[2]>>
      BY <1>5, <1>8 DEF Attempts
    <2>2. b[1] # i
      BY <1>1, <2>1, PartsOfInvariant DEF Tables, SingleOwner
    <2> QED
      BY <2>1, <2>2
  <1> QED
    BY <1>5, <1>7, <1>8 DEF Ages

(* failattempt grants a correction to the item it gives up only. *)
LEMMA FailedAges ==
  ASSUME IInv, NEW w \in Workers, claim[w] \in Attempts, ActiveFence(w),
         NEW retryable, NEW uncalled, NEW citation,
         Failed(w, retryable, uncalled, citation)
  PROVE  Ages
  <1>1. PICK next \in ItemStates \ OwnedItem,
             ended \in Outcomes \ {"none", "running", "succeeded", "skipped"} :
             Settled(w, next, ended)
    BY FailedSettles
  <1>2. outcome[claim[w]] = "running"
    BY DEF ActiveFence
  <1>3. \A i \in Items : i # claim[w][1] => corrected'[i] = corrected[i]
    BY PartsOfInvariant DEF Failed, TablesOK
  <1>4. ended \in Outcomes \ {"none", "running"}
    BY <1>1
  <1> QED
    BY <1>1, <1>2, <1>3, <1>4, SettledAges

(* The ends of a pass. *)
LEMMA EndAges ==
  ASSUME IInv, NEW w \in Workers,
         \/ Defer(w) \/ FailUnanswered(w) \/ FailDenied(w) \/ FailResult(w)
         \/ FailPublication(w) \/ Publish(w) \/ Skip(w) \/ AcknowledgeCancel(w)
  PROVE  Ages
  <1>1. claim[w] \in Attempts
    <2>1. pc[w] \in {"reserve", "unanswered", "denied", "finish", "retry", "acknowledge"}
      BY DEF Defer, FailUnanswered, FailDenied, FailResult, FailPublication, Publish, Skip,
             AcknowledgeCancel
    <2> QED
      BY <2>1, InPass
  <1>2. CASE UNCHANGED <<state, outcome, corrected>>
    BY <1>2, RestingAges
  <1>3. ASSUME ActiveFence(w),
               \E retryable, uncalled, citation : Failed(w, retryable, uncalled, citation)
        PROVE  Ages
    BY <1>1, <1>3, FailedAges
  <1>4. CASE FailUnanswered(w) /\ ~UNCHANGED <<state, outcome, corrected>>
    BY <1>3, <1>4 DEF FailUnanswered, itemVars
  <1>5. CASE FailDenied(w) /\ ~UNCHANGED <<state, outcome, corrected>>
    BY <1>3, <1>5 DEF FailDenied, itemVars
  <1>6. CASE FailResult(w) /\ ~UNCHANGED <<state, outcome, corrected>>
    BY <1>3, <1>6 DEF FailResult, itemVars
  <1>7. CASE FailPublication(w) /\ ~UNCHANGED <<state, outcome, corrected>>
    BY <1>3, <1>7 DEF FailPublication, itemVars
  <1>8. ASSUME NEW next \in {"queued", "processed", "skipped", "cancelled"},
               NEW ended \in {"cancelled", "succeeded", "skipped"}, outcome[claim[w]] = "running",
               Settled(w, next, ended), UNCHANGED corrected
        PROVE  Ages
    <2>1. next \in ItemStates \ OwnedItem /\ ended \in Outcomes \ {"none", "running"}
      BY DEF ItemStates, OwnedItem, Outcomes
    <2> QED
      BY <1>1, <1>8, <2>1, SettledAges
  <1>9. CASE Defer(w)
    BY <1>8, <1>9 DEF Defer, Admissible, ActiveFence
  <1>10. CASE Publish(w)
    BY <1>8, <1>10 DEF Publish, ActiveFence
  <1>11. CASE Skip(w) /\ ~UNCHANGED <<state, outcome, corrected>>
    BY <1>8, <1>11 DEF Skip, ActiveFence
  <1>12. CASE AcknowledgeCancel(w) /\ ~UNCHANGED <<state, outcome, corrected>>
    BY <1>8, <1>12 DEF AcknowledgeCancel
  <1> QED
    BY <1>2, <1>4, <1>5, <1>6, <1>7, <1>9, <1>10, <1>11, <1>12

(* Recovery ends what has lapsed and touches nothing that is done. *)
LEMMA RecoveryAges ==
  ASSUME IInv, outcome' = RecoveredOutcome, Revived(state'), UNCHANGED corrected
  PROVE  Ages
  <1> USE PartsOfInvariant, RecoveredItems, RecoveredAttempts DEF Tables
  <1>1. \A i \in Items : state[i] \in DoneItem => state'[i] = state[i]
    BY DEF Revived, DoneItem, OwnedItem
  <1> QED
    BY <1>1 DEF Ages

(* A claim begins an attempt of which there was nothing yet. *)
LEMMA ClaimAges ==
  ASSUME IInv, NEW w \in Workers, ClaimNext(w)
  PROVE  Ages
  <1> USE PartsOfInvariant, RecoveredItems, RecoveredAttempts DEF Tables
  <1>1. PICK i \in Items :
          /\ OfferedStates[i] = "queued"
          /\ fence[i] < MaxFence
          /\ state' = [OfferedStates EXCEPT ![i] = "running"]
          /\ outcome' = [RecoveredOutcome EXCEPT ![<<i, fence[i] + 1>>] = "running"]
    BY DEF ClaimNext
  <1>2. OfferedStates \in [Items -> ItemStates] /\ Revived(OfferedStates) /\ UNCHANGED corrected
    BY OfferedFacts DEF ClaimNext, RecoverLedger
  <1>3. \A k \in Items : state[k] \in DoneItem => state'[k] = state[k]
    BY <1>1, <1>2 DEF Revived, DoneItem, OwnedItem
  <1>4. <<i, fence[i] + 1>> \in Attempts /\ outcome[<<i, fence[i] + 1>>] = "none"
    <2>1. fence[i] \in Nat /\ <<i, fence[i] + 1>> \in Attempts
      BY <1>1, WorkAssumption DEF TablesOK, Attempts
    <2> QED
      BY <2>1 DEF Numbered
  <1>5. \A a \in Attempts : a # <<i, fence[i] + 1>> => outcome'[a] = RecoveredOutcome[a]
    BY <1>1
  <1> QED
    BY <1>1, <1>2, <1>3, <1>4, <1>5 DEF Ages

(* No command changes a finished item, and none takes a retry request back *)
(* from an unfinished one.                                                 *)
LEMMA CommandFacts ==
  ASSUME IInv, Operator
  PROVE  \E j \in JobStates, s \in [Items -> ItemStates], r \in [Items -> RetryStates] :
            /\ \A i \in Items :
                  \/ s[i] = state[i]
                  \/ state[i] = "queued" /\ s[i] = "cancelled"
                  \/ state[i] = "running" /\ s[i] = "cancel_requested"
            /\ \A i \in Items : retry[i] = "pending" => r[i] = "pending"
            /\ \/ state' = s /\ retry' = r
               \/ /\ state' = ReconsideredStates(j, s, outcome, r)
                  /\ retry' = ReconsideredRequests(j, s, outcome, r)
  <1>1. /\ jobState \in JobStates /\ state \in [Items -> ItemStates]
        /\ retry \in [Items -> RetryStates]
    BY PartsOfInvariant DEF TablesOK
  <1>2. CASE RequestCancel
    <2> DEFINE s == [i \in Items |-> CASE state[i] = "queued"  -> "cancelled"
                                       [] state[i] = "running" -> "cancel_requested"
                                       [] OTHER                -> state[i]]
    <2>1. /\ s \in [Items -> ItemStates]
          /\ \A i \in Items :
                \/ s[i] = state[i]
                \/ state[i] = "queued" /\ s[i] = "cancelled"
                \/ state[i] = "running" /\ s[i] = "cancel_requested"
      BY <1>1 DEF ItemStates
    <2>2. Refresh("cancel_requested", s, outcome, retry)
      BY <1>2 DEF RequestCancel
    <2> HIDE DEF s
    <2>3. RefreshedJob("cancel_requested", s) \in JobStates
      BY RefreshedType DEF JobStates
    <2> QED
      BY <1>1, <2>1, <2>2, <2>3 DEF Refresh, Reconsider
  <1>3. CASE UNCHANGED <<state, retry>>
    BY <1>1, <1>3
  <1>4. CASE ResumeJob /\ ~UNCHANGED <<state, retry>>
    <2>1. Refresh("queued", state, outcome, retry)
      BY <1>4 DEF ResumeJob
    <2>2. RefreshedJob("queued", state) \in JobStates
      BY RefreshedType DEF JobStates
    <2> QED
      BY <1>1, <2>1, <2>2 DEF Refresh, Reconsider
  <1>5. ASSUME NEW i \in Items, RetryDeadLetter(i)
        PROVE  \E r \in [Items -> RetryStates] :
                  /\ \A k \in Items : retry[k] = "pending" => r[k] = "pending"
                  /\ state' = ReconsideredStates(jobState, state, outcome, r)
                  /\ retry' = ReconsideredRequests(jobState, state, outcome, r)
    <2> DEFINE r == [retry EXCEPT ![i] = IF @ = "none" THEN "pending" ELSE @]
    <2>1. r \in [Items -> RetryStates] /\ \A k \in Items : retry[k] = "pending" => r[k] = "pending"
      BY <1>1 DEF RetryStates
    <2>2. /\ state' = ReconsideredStates(jobState, state, outcome, r)
          /\ retry' = ReconsideredRequests(jobState, state, outcome, r)
      BY <1>5 DEF RetryDeadLetter, Reconsider
    <2> QED
      BY <2>1, <2>2
  <1>6. PauseJob => UNCHANGED <<state, retry>>
    BY DEF PauseJob
  <1>7. CASE \E i \in Items : RetryDeadLetter(i)
    BY <1>1, <1>5, <1>7
  <1> QED
    BY <1>2, <1>3, <1>4, <1>6, <1>7 DEF Operator

(* No command changes a finished item. *)
LEMMA CommandKeepsDone ==
  ASSUME IInv, Operator
  PROVE  \A i \in Items : state[i] \in DoneItem => state'[i] = state[i]
  <1>1. PICK j \in JobStates, s \in [Items -> ItemStates], r \in [Items -> RetryStates] :
            /\ \A i \in Items :
                  \/ s[i] = state[i]
                  \/ state[i] = "queued" /\ s[i] = "cancelled"
                  \/ state[i] = "running" /\ s[i] = "cancel_requested"
            /\ state' = s \/ state' = ReconsideredStates(j, s, outcome, r)
    BY CommandFacts
  <1>2. \A i \in Items : state[i] \in DoneItem => s[i] = state[i]
    BY <1>1 DEF DoneItem
  <1>3. \A i \in Items : s[i] \in DoneItem => state'[i] = s[i]
    BY <1>1, ReconsideredFacts DEF DoneItem
  <1> QED
    BY <1>2, <1>3

(* Every step lets items and attempts only go forward. *)
LEMMA StepAges ==
  ASSUME IInv, [Next]_vars
  PROVE  Ages
  <1>1. ASSUME NEW w \in Workers, RecoverAfterHold(w) \/ RecoverExited(w) PROVE Ages
    <2>1. RecoverLeases
      BY <1>1 DEF RecoverAfterHold, RecoverExited
    <2> QED
      BY <2>1, RecoverLeasesFacts, RecoveryAges DEF RecoverLeases, RecoverLedger
  <1>2. ASSUME NEW w \in Workers, Claim(w) PROVE Ages
    <2>1. CASE ClaimNothing(w)
      BY <2>1, OfferedFacts, RecoveryAges DEF ClaimNothing, RecoverLedger
    <2> QED
      BY <1>2, <2>1, ClaimAges DEF Claim
  <1>3. ASSUME NEW w \in Workers, Pass(w) PROVE Ages
    <2>1. CASE \/ ReadReceipt(w) \/ PolicyUnavailable(w) \/ Deny(w) \/ ReserveBusy(w)
               \/ Process(w) \/ PreventCall(w) \/ UseStoredVector(w)
               \/ LoseResponse(w) \/ Decide(w) \/ PublicationFails(w) \/ SeeCancel(w)
               \/ EndPass(w)
      <3>1. UNCHANGED tables
        BY <2>1 DEF ReadReceipt, PolicyUnavailable, Deny, ReserveBusy, Process,
                    PreventCall, UseStoredVector, LoseResponse, Decide, PublicationFails,
                    SeeCancel, EndPass
      <3> QED
        BY <3>1, RestingAges DEF tables, itemVars
    <2>2. CASE \/ Reserve(w) \/ BeginRequest(w) \/ RecordResponse(w) \/ HoldUncertain(w)
               \/ Settle(w) \/ SettleOriginal(w) \/ LinkReceipt(w)
      <3>1. UNCHANGED <<state, outcome, corrected>>
        BY <2>2 DEF Reserve, BeginRequest, RecordResponse, HoldUncertain, Settle,
                    SettleOriginal, LinkReceipt, itemVars
      <3> QED
        BY <3>1, RestingAges
    <2>3. CASE \/ Defer(w) \/ FailUnanswered(w) \/ FailDenied(w) \/ FailResult(w)
               \/ FailPublication(w) \/ Publish(w) \/ Skip(w) \/ AcknowledgeCancel(w)
      BY <2>3, EndAges
    <2> QED
      BY <1>1, <1>3, <2>1, <2>2, <2>3 DEF Pass
  <1>4. ASSUME NEW w \in Workers, Exit(w) \/ Reap(w) PROVE Ages
    <2>1. CASE Exit(w) \/ ReleaseExited(w)
      <3>1. UNCHANGED <<state, outcome, corrected>>
        BY <2>1 DEF Exit, ReleaseExited, tables, itemVars
      <3> QED
        BY <3>1, RestingAges
    <2> QED
      BY <1>1, <1>4, <2>1 DEF Reap
  <1>5. ASSUME NEW i \in Items, LeaseLapses(i) PROVE Ages
    BY <1>5, RestingAges DEF LeaseLapses
  <1>6. CASE Operator
    <2>1. UNCHANGED <<outcome, corrected>>
      BY <1>6 DEF Operator, RequestCancel, PauseJob, ResumeJob, RetryDeadLetter, Elsewhere
    <2>2. \A i \in Items : state[i] \in DoneItem => state'[i] = state[i]
      BY <1>6, CommandKeepsDone
    <2> QED
      BY <2>1, <2>2 DEF Ages
  <1>7. CASE UNCHANGED vars
    BY <1>7, RestingAges DEF vars, tables, itemVars
  <1> QED
    BY <1>2, <1>3, <1>4, <1>5, <1>6, <1>7 DEF Next

-----------------------------------------------------------------------------
(* The invariant of the records of an attempt.                             *)

(* Places of a pass in which no request has been made for the claim.       *)
Unasked == {"claimed", "unanswered", "reserve", "denied", "process", "admit"}

(* Nothing is recorded of an attempt that has not begun. *)
Unborn ==
    \A a \in Attempts : outcome[a] = "none" =>
        a \notin intent /\ answer[a] = "none" /\ run[a] = None

(* A citation correction is behind the attempt that an item now has. *)
Corrections ==
    \A i \in Items :
        /\ corrected[i] <= fence[i]
        /\ state[i] \in OwnedItem => corrected[i] < fence[i]

(* Awaited of item states s and requests r that a transaction has arrived  *)
(* at.                                                                     *)
AwaitedIn(s, r) ==
    \A i \in Items : \A a \in Unanswered \cap AttemptsOf(i) :
        \/ r[i] = "pending"
        \/ s[i] \notin ActiveItem
        \/ s[i] \in OwnedItem /\ a = <<i, fence[i]>>

(* While a request of an item is unanswered the item is held, unless its   *)
(* own attempt is the one that waits or the operator has asked for a       *)
(* retry.                                                                  *)
Awaited == AwaitedIn(state, retry)

(* A run belongs to the attempt it was made for, and is settled unless its *)
(* answer is lost.                                                         *)
Runs ==
    \A a \in Attempts : run[a] # None =>
        /\ run[a] \in AttemptsOf(a[1]) /\ run[a][2] <= a[2]
        /\ run[run[a]] = run[a]
        /\ run[a] \in receipts \/ (run[a] = a /\ answer[a] = "none")

(* The settlement of an answered attempt has recorded its run. *)
Settlements ==
    \A a \in receipts : outcome[a] = "running" /\ answer[a] # "none" => run[a] # None

(* The request of a worker's own attempt, from place to place. *)
Asking(w) ==
    LET c == claim[w] IN
    /\ pc[w] \in Unasked => c \notin intent
    /\ pc[w] \in Unasked \cup {"calling", "uncertain"} =>
          answer[c] = "none" /\ run[c] = None /\ c \notin receipts
    /\ pc[w] \in {"settle", "link", "decide", "finish", "retry"} => c \notin Unanswered
    /\ pc[w] \in {"settle", "link"} => run[c] = None \/ (run[c] = c /\ c \in receipts)
    /\ pc[w] = "settle" /\ c \in receipts => answer[c] # "none"
    /\ pc[w] = "settle" /\ orig[w] = None /\ answer[c] # "none" => result[w] \in Verdicts
    /\ pc[w] \in {"settle", "link", "decide", "finish", "retry"} /\ result[w] = "cached" =>
          c \notin intent
    /\ pc[w] \in {"decide", "finish"} /\ result[w] = "cached" =>
          IF run[c] = None THEN c \in receipts ELSE run[c] \in receipts

(* The earlier attempt whose answer a worker has found. *)
Reusing(w) ==
    LET o == orig[w] IN
    o # None =>
        /\ claim[w] # None /\ o[1] = claim[w][1]
        /\ o \in intent /\ answer[o] # "none"
        /\ pc[w] \in {"admit", "calling"} /\ outcome[o] = "running" => o \in receipts
        /\ pc[w] = "settle" /\ outcome[o] = "running" =>
              o \in receipts \/ result[w] \in Verdicts
        /\ pc[w] = "link" /\ result[w] \in Verdicts => run[o] # None

(* What a worker that is about to publish has behind it. *)
Accepting(w) ==
    LET c == claim[w] IN
    result[w] \in {"accepted", "cached"} =>
        /\ pc[w] \in {"settle", "link", "decide", "finish", "retry"}
        /\ result[w] = "cached" => c[1] \in Embeddings
        /\ result[w] = "accepted" /\ outcome[c] = "running" => AnsweredSince(c)
        /\ pc[w] \in {"decide", "finish"} /\ result[w] = "accepted"
              /\ outcome[c] = "running" => run[c] # None /\ run[c] \in receipts

Rows == Unborn /\ Corrections /\ Awaited /\ Runs /\ Settlements

Passes(w) == Asking(w) /\ Reusing(w) /\ Accepting(w)

Records == Rows /\ \A w \in Workers : Passes(w)

-----------------------------------------------------------------------------
(* Unanswered requests hold their item.                                    *)

(* A retry request is only settled when its item is finished, and only a   *)
(* request queues an item again.                                           *)
LEMMA RequestFacts ==
  ASSUME NEW j, NEW s \in [Items -> ItemStates], NEW o, NEW r \in [Items -> RetryStates],
         NEW i \in Items
  PROVE  /\ r[i] = "pending" /\ s[i] \notin DoneItem =>
               ReconsideredRequests(j, s, o, r)[i] = "pending"
         /\ \/ ReconsideredStates(j, s, o, r)[i] = s[i]
            \/ /\ r[i] = "pending" /\ s[i] \in {"dead_letter", "cancelled"}
               /\ ReconsideredStates(j, s, o, r)[i] = "queued"
  <1>1. s[i] \notin DoneItem => ~RequestSettled(Disposition(j, s, o, i))
    <2>1. CASE s[i] \in DoneItem
      BY <2>1
    <2>2. CASE s[i] \notin DoneItem
      <3> DEFINE d == Disposition(j, s, o, i)
      <3>1. s[i] # "resolved" /\ s[i] # "superseded"
        BY DEF ItemStates
      <3>2. d \in {"existing-work", "policy-unavailable", "attempt-limit", "job-paused",
                   "job-cancelled", "runnable"}
        BY <2>2, <3>1 DEF Disposition, RetryDisposition, JobHold
      <3> QED
        BY <3>2 DEF RequestSettled
    <2> QED
      BY <2>1, <2>2
  <1>2. i \in Requeued(j, s, o, r) => r[i] = "pending" /\ s[i] \in {"dead_letter", "cancelled"}
    BY RequeuedAreDead DEF Requeued
  <1> QED
    BY <1>1, <1>2 DEF ReconsideredRequests, ReconsideredStates

(* Reconsideration queues nothing that waits for an answer on its own. *)
LEMMA ReconsideredAwaits ==
  ASSUME NEW j, NEW s \in [Items -> ItemStates], NEW o, NEW r \in [Items -> RetryStates],
         AwaitedIn(s, r)
  PROVE  AwaitedIn(ReconsideredStates(j, s, o, r), ReconsideredRequests(j, s, o, r))
  <1> DEFINE t == ReconsideredStates(j, s, o, r)
             q == ReconsideredRequests(j, s, o, r)
  <1>1. ASSUME NEW i \in Items, NEW a \in Unanswered \cap AttemptsOf(i)
        PROVE  q[i] = "pending" \/ t[i] \notin ActiveItem \/ (t[i] \in OwnedItem /\ a = <<i, fence[i]>>)
    <2>1. r[i] = "pending" \/ s[i] \notin ActiveItem \/ (s[i] \in OwnedItem /\ a = <<i, fence[i]>>)
      BY <1>1 DEF AwaitedIn
    <2>2. /\ r[i] = "pending" /\ s[i] \notin DoneItem => q[i] = "pending"
          /\ t[i] = s[i] \/ (r[i] = "pending" /\ s[i] \in {"dead_letter", "cancelled"})
      BY RequestFacts
    <2>3. CASE t[i] = s[i]
      BY <2>1, <2>2, <2>3 DEF DoneItem, ActiveItem
    <2>4. CASE r[i] = "pending" /\ s[i] \in {"dead_letter", "cancelled"}
      BY <2>2, <2>4 DEF DoneItem
    <2> QED
      BY <2>2, <2>3, <2>4
  <1> QED
    BY <1>1 DEF AwaitedIn

(* Awaited after a step that leaves intents, answers and fences alone. *)
LEMMA StillAwaited ==
  ASSUME UNCHANGED <<intent, answer, fence>>, AwaitedIn(state', retry')
  PROVE  Awaited'
  <1>1. Unanswered' = Unanswered
    BY DEF Unanswered
  <1> QED
    BY <1>1 DEF Awaited, AwaitedIn, AttemptsOf

(* An item is queued again by its worker only when the attempt of that     *)
(* worker has its answer, or never asked.                                  *)
LEMMA SettledAwaits ==
  ASSUME IInv, Awaited, NEW w \in Workers, claim[w] \in Attempts,
         outcome[claim[w]] = "running", NEW next \in ItemStates \ OwnedItem, NEW ended,
         Settled(w, next, ended), UNCHANGED ledgerVars,
         claim[w] \notin Unanswered \/ next \notin ActiveItem
  PROVE  Awaited'
  <1> DEFINE i == claim[w][1]
             s == [state EXCEPT ![i] = next]
             o == [outcome EXCEPT ![claim[w]] = ended]
  <1>1. i \in Items /\ state[i] \in OwnedItem /\ claim[w] = <<i, fence[i]>>
    BY PartsOfInvariant DEF Tables, SingleOwner, Attempts
  <1>2. state \in [Items -> ItemStates] /\ retry \in [Items -> RetryStates]
    BY PartsOfInvariant DEF TablesOK
  <1>3. Refresh(jobState, s, o, retry) /\ UNCHANGED fence
    BY DEF Settled
  <1>4. s \in [Items -> ItemStates] /\ s[i] = next /\ \A k \in Items \ {i} : s[k] = state[k]
    BY <1>1, <1>2
  <1> HIDE DEF s, o
  <1>5. AwaitedIn(s, retry)
    <2>1. ASSUME NEW k \in Items, NEW a \in Unanswered \cap AttemptsOf(k)
          PROVE  retry[k] = "pending" \/ s[k] \notin ActiveItem
                 \/ (s[k] \in OwnedItem /\ a = <<k, fence[k]>>)
      <3>1. retry[k] = "pending" \/ state[k] \notin ActiveItem
            \/ (state[k] \in OwnedItem /\ a = <<k, fence[k]>>)
        BY <2>1 DEF Awaited, AwaitedIn
      <3>2. CASE k # i
        BY <1>4, <3>1, <3>2
      <3>3. CASE k = i
        BY <1>1, <1>4, <2>1, <3>1, <3>3 DEF OwnedItem, ActiveItem
      <3> QED
        BY <3>2, <3>3
    <2> QED
      BY <2>1 DEF AwaitedIn
  <1>6. AwaitedIn(state', retry')
    BY <1>2, <1>3, <1>4, <1>5, ReconsideredAwaits DEF Refresh, Reconsider
  <1> QED
    BY <1>3, <1>6, StillAwaited DEF ledgerVars

(* Recovery holds the lapsed items whose attempt was never answered. *)
LEMMA RecoveredAwaits ==
  ASSUME IInv, Awaited
  PROVE  AwaitedIn(RecoveredStates, retry)
  <1> USE PartsOfInvariant, RecoveredItems DEF Tables
  <1>1. ASSUME NEW i \in Items, NEW a \in Unanswered \cap AttemptsOf(i)
        PROVE  retry[i] = "pending" \/ RecoveredStates[i] \notin ActiveItem
               \/ (RecoveredStates[i] \in OwnedItem /\ a = <<i, fence[i]>>)
    <2>1. retry[i] = "pending" \/ state[i] \notin ActiveItem
            \/ (state[i] \in OwnedItem /\ a = <<i, fence[i]>>)
      BY <1>1 DEF Awaited, AwaitedIn
    <2>2. CASE i \notin Lapsed
      BY <2>1, <2>2
    <2>3. CASE i \in Lapsed /\ retry[i] # "pending"
      <3>1. state[i] \in OwnedItem /\ a = <<i, fence[i]>>
        BY <2>1, <2>3 DEF OwnedItem, ActiveItem
      <3>2. a \in Attempts /\ outcome[a] = "running"
        <4>1. a \in Attempts
          BY DEF Unanswered, TablesOK
        <4> QED
          BY <3>1, <4>1 DEF SingleOwner
      <3>3. a \in Abandoned
        BY <2>3, <3>1, <3>2, RecoveredAttempts
      <3>4. Doubtful(i)
        BY <1>1, <3>3 DEF Doubtful, RecoveredUncertain, Unanswered
      <3>5. RecoveredStates[i] \in {"cancelled", "dead_letter"}
        BY <2>3, <3>1, <3>4 DEF RecoveredStates, OwnedItem
      <3> QED
        BY <3>5 DEF ActiveItem
    <2> QED
      BY <2>2, <2>3
  <1> QED
    BY <1>1 DEF AwaitedIn

(* What a claim is offered, and what recovery leaves, awaits no answer. *)
LEMMA OfferedAwaits ==
  ASSUME IInv, Awaited
  PROVE  AwaitedIn(OfferedStates, OfferedRequests)
  <1>1. RecoveredStates \in [Items -> ItemStates] /\ retry \in [Items -> RetryStates]
    BY PartsOfInvariant, RecoveredItems DEF Tables, TablesOK
  <1> QED
    BY <1>1, RecoveredAwaits, ReconsideredAwaits DEF OfferedStates, OfferedRequests

(* Recovery without a claim. *)
LEMMA RecoveryAwaits ==
  ASSUME IInv, Awaited, RecoverLeases
  PROVE  Awaited'
  <1>1. AwaitedIn(state', retry')
    <2>1. CASE Drained
      <3>1. DrainedJob = RefreshedJob(jobState, RecoveredStates)
        BY <2>1 DEF DrainedJob
      <3>2. state' = OfferedStates /\ retry' = OfferedRequests
        BY <2>1, <3>1 DEF RecoverLeases, Refresh, Reconsider, OfferedRequests, OfferedStates
      <3> QED
        BY <3>2, OfferedAwaits
    <2>2. CASE ~Drained
      BY <2>2, RecoveredAwaits DEF RecoverLeases
    <2> QED
      BY <2>1, <2>2
  <1> QED
    BY <1>1, StillAwaited DEF RecoverLeases, RecoverLedger

(* A claim is only made of an item that awaits nothing, or that the        *)
(* operator has released.                                                  *)
LEMMA ClaimAwaits ==
  ASSUME IInv, Awaited, NEW w \in Workers, Claim(w)
  PROVE  Awaited'
  <1>1. CASE ClaimNothing(w)
    <2>1. AwaitedIn(state', retry')
      BY <1>1, OfferedAwaits DEF ClaimNothing
    <2> QED
      BY <1>1, <2>1, StillAwaited DEF ClaimNothing, RecoverLedger
  <1>2. CASE ClaimNext(w)
    <2>1. PICK i \in Items :
            /\ OfferedStates[i] = "queued"
            /\ state' = [OfferedStates EXCEPT ![i] = "running"]
            /\ retry' = OfferedRequests
            /\ fence' = [fence EXCEPT ![i] = @ + 1]
      BY <1>2 DEF ClaimNext
    <2>2. Unanswered' = Unanswered
      BY <1>2 DEF ClaimNext, RecoverLedger, Unanswered
    <2>3. OfferedStates \in [Items -> ItemStates] /\ fence \in [Items -> 0 .. MaxFence]
      BY OfferedFacts, PartsOfInvariant DEF TablesOK
    <2>4. ASSUME NEW k \in Items, NEW a \in Unanswered' \cap AttemptsOf(k)
          PROVE  retry'[k] = "pending" \/ state'[k] \notin ActiveItem
                 \/ (state'[k] \in OwnedItem /\ a = <<k, fence'[k]>>)
      <3>1. OfferedRequests[k] = "pending" \/ OfferedStates[k] \notin ActiveItem
              \/ (OfferedStates[k] \in OwnedItem /\ a = <<k, fence[k]>>)
        BY <2>2, <2>4, OfferedAwaits DEF AwaitedIn
      <3>2. CASE k = i
        BY <2>1, <3>1, <3>2 DEF ActiveItem, OwnedItem
      <3>3. CASE k # i
        BY <2>1, <2>3, <3>1, <3>3
      <3> QED
        BY <3>2, <3>3
    <2> QED
      BY <2>4 DEF Awaited, AwaitedIn, AttemptsOf
  <1> QED
    BY <1>1, <1>2 DEF Claim

(* Commands queue nothing that awaits an answer. *)
LEMMA CommandAwaits ==
  ASSUME IInv, Awaited, Operator
  PROVE  Awaited'
  <1>1. PICK j \in JobStates, s \in [Items -> ItemStates], r \in [Items -> RetryStates] :
            /\ \A i \in Items :
                  \/ s[i] = state[i]
                  \/ state[i] = "queued" /\ s[i] = "cancelled"
                  \/ state[i] = "running" /\ s[i] = "cancel_requested"
            /\ \A i \in Items : retry[i] = "pending" => r[i] = "pending"
            /\ \/ state' = s /\ retry' = r
               \/ /\ state' = ReconsideredStates(j, s, outcome, r)
                  /\ retry' = ReconsideredRequests(j, s, outcome, r)
    BY CommandFacts
  <1>2. AwaitedIn(s, r)
    BY <1>1 DEF Awaited, AwaitedIn, ActiveItem, OwnedItem
  <1>3. AwaitedIn(state', retry')
    BY <1>1, <1>2, ReconsideredAwaits
  <1>4. UNCHANGED <<intent, answer, fence>>
    BY DEF Operator, RequestCancel, PauseJob, ResumeJob, RetryDeadLetter, Elsewhere, ledgerVars
  <1> QED
    BY <1>3, <1>4, StillAwaited

-----------------------------------------------------------------------------
(* The rows of the records.                                                *)

(* Intents and receipts are only added, answers and runs only filled in. *)
Accumulates ==
    /\ intent \subseteq intent' /\ receipts \subseteq receipts'
    /\ \A a \in Attempts :
          /\ answer[a] # "none" => answer'[a] = answer[a]
          /\ run[a] # None => run'[a] = run[a]

(* What a claim's own attempt is known by. *)
LEMMA ClaimedAttempt ==
  ASSUME IInv, NEW w \in Workers, claim[w] # None
  PROVE  /\ claim[w] \in Attempts /\ claim[w][1] \in Items
         /\ claim[w] = <<claim[w][1], claim[w][2]>>
         /\ outcome[claim[w]] # "none"
         /\ outcome[claim[w]] = "running" =>
               /\ state[claim[w][1]] \in OwnedItem
               /\ claim[w][2] = fence[claim[w][1]]
  BY PartsOfInvariant DEF WorkersOK, Tables, Numbered, SingleOwner, Attempts

(* An attempt with a receipt has begun. *)
LEMMA ReceiptsHaveBegun ==
  ASSUME IInv
  PROVE  \A a \in receipts : a \in Attempts /\ outcome[a] # "none"
  BY PartsOfInvariant DEF TablesOK, Tables, LedgerBalanced, Numbered

(* An attempt that runs after a step ran before it, or had not begun. *)
LEMMA RanBefore ==
  ASSUME IInv, Ages, NEW a \in Attempts
  PROVE  /\ outcome'[a] = "running" /\ outcome[a] # "none" => outcome[a] = "running"
         /\ outcome'[a] = "none" => outcome[a] = "none"
  BY DEF Ages

(* Fences only grow. *)
LEMMA FencesGrow ==
  ASSUME IInv, IInv', Ages, NEW i \in Items
  PROVE  fence[i] <= fence'[i] /\ fence[i] \in Nat /\ fence'[i] \in Nat
  <1>1. fence[i] \in 0 .. MaxFence /\ fence'[i] \in 0 .. MaxFence /\ MaxFence \in Nat
    BY PartsOfInvariant, WorkAssumption DEF IInv, TypeOK
  <1>2. CASE fence[i] # 0
    <2>1. <<i, fence[i]>> \in Attempts
      BY <1>1, <1>2 DEF Attempts
    <2>2. outcome[<<i, fence[i]>>] # "none"
      BY <1>1, <2>1 DEF IInv, Numbered
    <2>3. outcome'[<<i, fence[i]>>] # "none"
      BY <2>1, <2>2, RanBefore
    <2> QED
      BY <1>1, <2>1, <2>3 DEF IInv, Numbered
  <1> QED
    BY <1>1, <1>2

(* A citation correction remembers the fence of the attempt it was granted *)
(* to (failattempt).                                                       *)
LEMMA CorrectedFences ==
  ASSUME IInv, [Next]_vars
  PROVE  \A i \in Items : corrected'[i] = corrected[i] \/ corrected'[i] = fence[i]
  <1>1. ASSUME NEW w \in Workers, ActiveFence(w), NEW r, NEW u, NEW c, Failed(w, r, u, c)
        PROVE  \A i \in Items : corrected'[i] = corrected[i] \/ corrected'[i] = fence[i]
    <2>1. corrected \in [Items -> 0 .. MaxFence]
      BY PartsOfInvariant DEF TablesOK
    <2>2. claim[w] = <<claim[w][1], fence[claim[w][1]]>>
      BY <1>1 DEF ActiveFence, Mine
    <2>3. claim[w][2] = fence[claim[w][1]]
      BY <2>2
    <2>4. \/ corrected' = [corrected EXCEPT ![claim[w][1]] = claim[w][2]]
          \/ corrected' = [corrected EXCEPT ![claim[w][1]] = corrected[claim[w][1]]]
      BY <1>1 DEF Failed
    <2> QED
      BY <2>1, <2>3, <2>4
  <1>2. ASSUME NEW w \in Workers,
               FailUnanswered(w) \/ FailDenied(w) \/ FailResult(w) \/ FailPublication(w)
        PROVE  \/ UNCHANGED corrected
               \/ ActiveFence(w) /\ \E r, u, c : Failed(w, r, u, c)
    <2>1. CASE FailUnanswered(w)
      BY <2>1 DEF FailUnanswered, itemVars
    <2>2. CASE FailDenied(w)
      BY <2>2 DEF FailDenied, itemVars
    <2>3. CASE FailResult(w)
      BY <2>3 DEF FailResult, itemVars
    <2>4. CASE FailPublication(w)
      BY <2>4 DEF FailPublication, itemVars
    <2> QED
      BY <1>2, <2>1, <2>2, <2>3, <2>4
  <1>3. ASSUME NEW w \in Workers, Pass(w),
               ~(FailUnanswered(w) \/ FailDenied(w) \/ FailResult(w) \/ FailPublication(w))
        PROVE  UNCHANGED corrected
    BY <1>3 DEF Pass, ReadReceipt, PolicyUnavailable, Reserve, Defer, Deny, ReserveBusy, Process,
           PreventCall, UseStoredVector,
           BeginRequest, RecordResponse, LoseResponse, HoldUncertain, RecoverAfterHold,
           RecoverLeases, RecoverLedger, Settle, SettleOriginal, LinkReceipt, Decide, Publish,
           Skip, PublicationFails, SeeCancel, EndPass, AcknowledgeCancel, tables, itemVars
  <1>4. \A w \in Workers : Claim(w) \/ Exit(w) \/ Reap(w) => UNCHANGED corrected
    BY DEF Claim, ClaimNext, ClaimNothing, Exit, Reap, ReleaseExited, RecoverExited,
           RecoverLeases, RecoverLedger, tables, itemVars
  <1>5. \A i \in Items : LeaseLapses(i) => UNCHANGED corrected
    BY DEF LeaseLapses
  <1>6. Operator => UNCHANGED corrected
    BY DEF Operator, RequestCancel, PauseJob, ResumeJob, RetryDeadLetter, Elsewhere
  <1>7. UNCHANGED vars => UNCHANGED corrected
    BY DEF vars, tables, itemVars
  <1> QED
    BY <1>1, <1>2, <1>3, <1>4, <1>5, <1>6, <1>7 DEF Next

(* A correction is behind every later claim of its item. *)
LEMMA CorrectionsKept ==
  ASSUME IInv, IInv', Corrections, Ages, [Next]_vars
  PROVE  Corrections'
  <1>1. ASSUME NEW i \in Items
        PROVE  corrected'[i] <= fence'[i]
    BY CorrectedFences, FencesGrow, PartsOfInvariant DEF Corrections, TablesOK
  <1>2. ASSUME NEW i \in Items, state'[i] \in OwnedItem
        PROVE  corrected'[i] < fence'[i]
    <2> DEFINE a == <<i, fence'[i]>>
    <2>1. fence'[i] # 0 /\ fence'[i] \in 0 .. MaxFence /\ MaxFence \in Nat
      BY <1>2, WorkAssumption DEF IInv, Numbered, TypeOK
    <2>2. a \in Attempts
      BY <2>1 DEF Attempts
    <2>3. outcome'[a] = "running"
      BY <1>2, <2>2 DEF IInv, SingleOwner
    <2>4. corrected'[i] = corrected[i]
      BY <2>2, <2>3 DEF Ages
    <2>5. corrected[i] \in Nat
      BY PartsOfInvariant, WorkAssumption DEF TablesOK
    <2>6. CASE fence'[i] = fence[i]
      <3>1. outcome[a] # "none"
        BY <2>1, <2>2, <2>6 DEF IInv, Numbered
      <3>2. outcome[a] = "running"
        BY <2>2, <2>3, <3>1, RanBefore
      <3>3. state[i] \in OwnedItem
        BY <2>2, <3>2 DEF IInv, SingleOwner
      <3> QED
        BY <2>4, <2>6, <3>3 DEF Corrections
    <2>7. CASE fence'[i] # fence[i]
      BY <2>4, <2>5, <2>7, FencesGrow DEF Corrections
    <2> QED
      BY <2>6, <2>7
  <1> QED
    BY <1>1, <1>2 DEF Corrections

(* A step that files nothing leaves the rows in order, if the items it     *)
(* queues await no answer.                                                 *)
LEMMA FiledRows ==
  ASSUME IInv, IInv', Rows, Ages, [Next]_vars,
         UNCHANGED <<intent, answer, run, receipts>>, Awaited'
  PROVE  Rows'
  <1>1. Unborn'
    BY RanBefore DEF Rows, Unborn
  <1>2. Settlements'
    BY ReceiptsHaveBegun, RanBefore DEF Rows, Settlements
  <1>3. Runs'
    BY DEF Rows, Runs, AttemptsOf
  <1>4. Corrections'
    BY CorrectionsKept DEF Rows
  <1> QED
    BY <1>1, <1>2, <1>3, <1>4 DEF Rows

(* A run that is made for attempt b. *)
LEMMA OwnRun ==
  ASSUME IInv, Runs, NEW b \in Attempts, run[b] = None,
         run' = [run EXCEPT ![b] = b], UNCHANGED answer, receipts \subseteq receipts',
         b \in receipts' \/ answer[b] = "none"
  PROVE  Runs'
  <1>1. run \in [Attempts -> Attempts \cup {None}]
    BY PartsOfInvariant DEF TablesOK
  <1>2. run'[b] = b /\ \A a \in Attempts \ {b} : run'[a] = run[a]
    BY <1>1
  <1>3. b \in AttemptsOf(b[1]) /\ b[2] <= b[2]
    BY WorkAssumption DEF Attempts, AttemptsOf
  <1>4. ASSUME NEW a \in Attempts \ {b}, run'[a] # None
        PROVE  /\ run'[a] \in AttemptsOf(a[1]) /\ run'[a][2] <= a[2]
               /\ run'[run'[a]] = run'[a]
               /\ run'[a] \in receipts' \/ (run'[a] = a /\ answer'[a] = "none")
    <2>1. run'[a] = run[a] /\ run[a] \in Attempts /\ run[run[a]] = run[a]
      BY <1>1, <1>2, <1>4 DEF Runs
    <2>2. run[a] # b
      BY <2>1, NoneIsNoAttempt
    <2> QED
      BY <1>2, <1>4, <2>1, <2>2 DEF Runs
  <1> QED
    BY <1>2, <1>3, <1>4 DEF Runs, AttemptsOf

(* An item that nothing happens to awaits what it did. *)
LEMMA RestingAwaits ==
  ASSUME Awaited, UNCHANGED <<state, retry, fence, intent, answer>>
  PROVE  Awaited'
  BY DEF Awaited, AwaitedIn, Unanswered, AttemptsOf

(* The intent of a request under its fence (beginproviderrequest). *)
LEMMA BeginRequestRows ==
  ASSUME IInv, Rows, NEW w \in Workers, BeginRequest(w)
  PROVE  Accumulates /\ Rows'
  <1>1. UNCHANGED <<state, retry, fence, corrected, outcome, answer, run, receipts>>
    BY DEF BeginRequest, itemVars
  <1>2. intent' = intent \/ (ActiveFence(w) /\ intent' = intent \cup {claim[w]})
    BY DEF BeginRequest
  <1>3. claim[w] \in Attempts /\ outcome[claim[w]] # "none"
    BY InPass, ClaimedAttempt DEF BeginRequest
  <1>4. Accumulates
    BY <1>1, <1>2 DEF Accumulates
  <1>5. Unborn'
    BY <1>1, <1>2, <1>3 DEF Rows, Unborn
  <1>6. ASSUME NEW i \in Items, NEW a \in Unanswered' \cap AttemptsOf(i)
        PROVE  \/ retry[i] = "pending" \/ state[i] \notin ActiveItem
               \/ state[i] \in OwnedItem /\ a = <<i, fence[i]>>
    <2>1. CASE a \in Unanswered
      BY <1>6, <2>1 DEF Rows, Awaited, AwaitedIn
    <2>2. CASE a \notin Unanswered
      <3>1. ActiveFence(w) /\ a = claim[w]
        BY <1>1, <1>2, <1>6, <2>2 DEF Unanswered
      <3>2. a[1] = i
        BY <1>6 DEF AttemptsOf
      <3> QED
        BY <3>1, <3>2 DEF ActiveFence, Mine, OwnedItem
    <2> QED
      BY <2>1, <2>2
  <1>7. Awaited'
    BY <1>1, <1>6 DEF Awaited, AwaitedIn, AttemptsOf
  <1>8. Corrections' /\ Runs' /\ Settlements'
    BY <1>1 DEF Rows, Corrections, Runs, Settlements, AttemptsOf
  <1> QED
    BY <1>4, <1>5, <1>7, <1>8 DEF Rows

(* The answer of a request (recordproviderresponse). *)
LEMMA RecordResponseRows ==
  ASSUME IInv, Rows, NEW w \in Workers, Asking(w), RecordResponse(w)
  PROVE  Accumulates /\ Rows'
  <1>1. UNCHANGED <<state, retry, fence, corrected, outcome, intent, run, receipts>>
    BY DEF RecordResponse, itemVars
  <1>2. PICK v \in Verdicts : answer' = [answer EXCEPT ![claim[w]] = v]
    BY DEF RecordResponse
  <1>3. claim[w] \in Attempts /\ outcome[claim[w]] # "none"
    BY InPass, ClaimedAttempt DEF RecordResponse
  <1>4. answer[claim[w]] = "none" /\ run[claim[w]] = None /\ claim[w] \notin receipts
    BY DEF Asking, RecordResponse
  <1>5. answer \in [Attempts -> Verdicts \cup {"none"}]
    BY PartsOfInvariant DEF TablesOK
  <1>6. \A a \in Attempts : a # claim[w] => answer'[a] = answer[a]
    BY <1>2, <1>5
  <1>7. Accumulates
    BY <1>1, <1>4, <1>6 DEF Accumulates
  <1>8. Unborn'
    BY <1>1, <1>3, <1>6 DEF Rows, Unborn
  <1>9. Awaited'
    <2>1. Unanswered' \subseteq Unanswered
      <3>1. intent \subseteq Attempts
        BY PartsOfInvariant DEF TablesOK
      <3> QED
        BY <1>1, <1>4, <1>6, <3>1 DEF Unanswered
    <2> QED
      BY <1>1, <2>1 DEF Rows, Awaited, AwaitedIn, AttemptsOf
  <1>10. Runs'
    BY <1>1, <1>4, <1>6 DEF Rows, Runs, AttemptsOf
  <1>11. Settlements'
    BY <1>1, <1>4, <1>6, ReceiptsHaveBegun DEF Rows, Settlements
  <1>12. Corrections'
    BY <1>1 DEF Rows, Corrections
  <1> QED
    BY <1>7, <1>8, <1>9, <1>10, <1>11, <1>12 DEF Rows

(* A step that only settles, or keeps the usage of, attempt b. *)
LEMMA SettlingRows ==
  ASSUME IInv, Rows, NEW b \in Attempts, outcome[b] # "none", run[b] = None,
         UNCHANGED <<state, retry, fence, corrected, outcome, intent, answer>>,
         receipts \subseteq receipts', receipts' \subseteq receipts \cup {b},
         \/ /\ run' = [run EXCEPT ![b] = b]
            /\ b \in receipts' \/ answer[b] = "none"
         \/ /\ run' = run
            /\ b \in receipts' /\ outcome[b] = "running" => answer[b] = "none"
  PROVE  Accumulates /\ Rows'
  <1>1. run \in [Attempts -> Attempts \cup {None}]
    BY PartsOfInvariant DEF TablesOK
  <1>2. \A a \in Attempts : a # b => run'[a] = run[a]
    BY <1>1
  <1>3. Accumulates
    BY <1>2 DEF Accumulates
  <1>4. Unborn'
    BY <1>2 DEF Rows, Unborn
  <1>5. Corrections' /\ Awaited'
    BY RestingAwaits DEF Rows, Corrections
  <1>6. Runs'
    <2>1. CASE run' = run
      BY <2>1 DEF Rows, Runs, AttemptsOf
    <2>2. CASE run' # run
      BY <2>2, OwnRun DEF Rows
    <2> QED
      BY <2>1, <2>2
  <1>7. ASSUME NEW a \in receipts', outcome[a] = "running", answer[a] # "none"
        PROVE  run'[a] # None
    <2>1. CASE a # b
      BY <1>2, <1>7, <2>1, ReceiptsHaveBegun DEF Rows, Settlements
    <2>2. CASE a = b
      BY <1>1, <1>7, <2>2, NoneIsNoAttempt
    <2> QED
      BY <2>1, <2>2
  <1>8. Settlements'
    BY <1>7 DEF Settlements
  <1> QED
    BY <1>3, <1>4, <1>5, <1>6, <1>8 DEF Rows

(* A step that leaves items, attempts and records alone. *)
LEMMA RestingRows ==
  ASSUME Rows, UNCHANGED <<state, retry, fence, corrected, outcome, intent, answer, run, receipts>>
  PROVE  Accumulates /\ Rows'
  BY RestingAwaits
     DEF Rows, Accumulates, Unborn, Corrections, Runs, Settlements, AttemptsOf

(* The uncertainty hold keeps the usage of an attempt that has no run. *)
LEMMA HoldUncertainRows ==
  ASSUME IInv, Rows, NEW w \in Workers, Asking(w), HoldUncertain(w)
  PROVE  Accumulates /\ Rows'
  <1>1. UNCHANGED <<state, retry, fence, corrected, outcome, intent, answer, receipts>>
    BY DEF HoldUncertain
  <1>2. claim[w] \in Attempts /\ outcome[claim[w]] # "none"
    BY InPass, ClaimedAttempt DEF HoldUncertain
  <1>3. answer[claim[w]] = "none" /\ run[claim[w]] = None
    BY DEF Asking, HoldUncertain
  <1>4. run' = run \/ run' = [run EXCEPT ![claim[w]] = claim[w]]
    BY <1>3 DEF HoldUncertain
  <1>5. CASE run' = run
    BY <1>1, <1>5, RestingRows
  <1>6. CASE run' = [run EXCEPT ![claim[w]] = claim[w]]
    BY <1>1, <1>2, <1>3, <1>6, SettlingRows
  <1> QED
    BY <1>4, <1>5, <1>6

(* The worker settles its own attempt (settlecall). *)
LEMMA SettleRows ==
  ASSUME IInv, Rows, NEW w \in Workers, Asking(w), Settle(w)
  PROVE  Accumulates /\ Rows'
  <1>1. UNCHANGED <<state, retry, fence, corrected, outcome, intent, answer>>
    BY DEF Settle, itemVars
  <1>2. claim[w] \in Attempts /\ outcome[claim[w]] # "none"
    BY InPass, ClaimedAttempt DEF Settle
  <1>3. CASE claim[w] \in receipts
    BY <1>1, <1>3, RestingRows DEF Settle
  <1>4. CASE claim[w] \notin receipts
    <2>1. run[claim[w]] = None
      BY <1>4 DEF Asking, Settle
    <2>2. /\ receipts' = receipts \cup {claim[w]}
          /\ run' = [run EXCEPT ![claim[w]] = IF result[w] \in Verdicts THEN claim[w] ELSE @]
      BY <1>4 DEF Settle, SettleCall
    <2>3. run \in [Attempts -> Attempts \cup {None}]
      BY PartsOfInvariant DEF TablesOK
    <2>4. result[w] \notin Verdicts => run' = run
      BY <2>2, <2>3
    <2>5. result[w] \notin Verdicts => answer[claim[w]] = "none"
      BY DEF Asking, Settle
    <2>6. result[w] \in Verdicts => run' = [run EXCEPT ![claim[w]] = claim[w]]
      BY <2>2
    <2> QED
      BY <1>1, <1>2, <2>1, <2>2, <2>4, <2>5, <2>6, SettlingRows
  <1> QED
    BY <1>3, <1>4

(* The worker settles the attempt whose answer it reuses                   *)
(* (recoverprovideraccounting).                                            *)
LEMMA SettleOriginalRows ==
  ASSUME IInv, Rows, NEW w \in Workers, Reusing(w), SettleOriginal(w)
  PROVE  Accumulates /\ Rows'
  <1> DEFINE o == orig[w]
  <1>1. UNCHANGED <<state, retry, fence, corrected, outcome, intent, answer>>
    BY DEF SettleOriginal, itemVars
  <1>2. pc[w] = "settle" /\ o # None
    BY DEF SettleOriginal
  <1>3. o \in intent /\ answer[o] # "none"
        /\ (outcome[o] = "running" => o \in receipts \/ result[w] \in Verdicts)
    BY <1>2 DEF Reusing
  <1>4. o \in Attempts /\ outcome[o] # "none"
    BY <1>3, PartsOfInvariant DEF TablesOK, Rows, Unborn
  <1>5. CASE UNCHANGED <<receipts, run>>
    BY <1>1, <1>5, RestingRows
  <1>6. CASE ~UNCHANGED <<receipts, run>>
    <2>1. run[o] = None /\ o \notin receipts /\ SettleCall(o, result[w] \in Verdicts)
      BY <1>6 DEF SettleOriginal
    <2>2. /\ receipts' = receipts \cup {o}
          /\ run' = [run EXCEPT ![o] = IF result[w] \in Verdicts THEN o ELSE @]
      BY <2>1 DEF SettleCall
    <2>3. run \in [Attempts -> Attempts \cup {None}]
      BY PartsOfInvariant DEF TablesOK
    <2>4. result[w] \notin Verdicts => run' = run
      BY <2>2, <2>3
    <2>5. result[w] \in Verdicts => run' = [run EXCEPT ![o] = o]
      BY <2>2
    <2> QED
      BY <1>1, <1>3, <1>4, <2>1, <2>2, <2>4, <2>5, SettlingRows
  <1> QED
    BY <1>5, <1>6

(* The reusing attempt is linked to the run of the original                *)
(* (recoverprovideraccounting).                                            *)
LEMMA LinkReceiptRows ==
  ASSUME IInv, Rows, NEW w \in Workers, Reusing(w), LinkReceipt(w)
  PROVE  Accumulates /\ Rows'
  <1> DEFINE c == claim[w]
             o == orig[w]
             r == run[o]
  <1>1. UNCHANGED <<state, retry, fence, corrected, outcome, intent, answer, receipts>>
    BY DEF LinkReceipt, itemVars, ledgerVars
  <1>2. c \in Attempts /\ outcome[c] # "none"
    BY InPass, ClaimedAttempt DEF LinkReceipt
  <1>3. run \in [Attempts -> Attempts \cup {None}]
    BY PartsOfInvariant DEF TablesOK
  <1>4. CASE run' = run
    BY <1>1, <1>4, RestingRows
  <1>5. CASE run' # run
    <2>1. ActiveFence(w) /\ run[c] = None /\ run' = [run EXCEPT ![c] = r] /\ pc[w] = "link"
      BY <1>3, <1>5 DEF LinkReceipt
    <2>2. r # None
      BY <1>3, <1>5, <2>1
    <2>3. o # None
      BY <2>1, PartsOfInvariant DEF Pledged
    <2>4. o[1] = c[1] /\ o \in intent /\ answer[o] # "none"
      BY <2>3 DEF Reusing
    <2>5. o \in Attempts /\ outcome[o] # "none"
      BY <2>4, PartsOfInvariant DEF TablesOK, Rows, Unborn
    <2>6. r \in AttemptsOf(c[1]) /\ r[2] <= o[2] /\ run[r] = r /\ r \in receipts
      BY <2>2, <2>4, <2>5 DEF Rows, Runs
    <2>7. o[2] <= fence[c[1]] /\ c[2] = fence[c[1]]
      BY <1>2, <2>1, <2>4, <2>5, PartsOfInvariant, ClaimedAttempt
         DEF Tables, Numbered, SingleOwner, ActiveFence
    <2>8. r[2] <= c[2]
      <3>1. r[2] \in Int /\ o[2] \in Int /\ c[2] \in Int
        BY <1>2, <2>5, <2>6, WorkAssumption DEF Attempts, AttemptsOf
      <3> QED
        BY <2>6, <2>7, <3>1
    <2>9. \A a \in Attempts : a # c => run'[a] = run[a]
      BY <1>3, <2>1
    <2>10. run'[c] = r /\ r # c /\ r \in Attempts
      BY <1>2, <1>3, <2>1, <2>2, <2>5, <2>6
    <2>11. Accumulates
      BY <1>1, <2>1, <2>9 DEF Accumulates
    <2>12. Unborn'
      BY <1>1, <1>2, <2>9 DEF Rows, Unborn
    <2>13. ASSUME NEW a \in Attempts, run'[a] # None
           PROVE  /\ run'[a] \in AttemptsOf(a[1]) /\ run'[a][2] <= a[2]
                  /\ run'[run'[a]] = run'[a]
                  /\ run'[a] \in receipts \/ (run'[a] = a /\ answer[a] = "none")
      <3>1. CASE a = c
        BY <2>6, <2>8, <2>9, <2>10, <3>1
      <3>2. CASE a # c
        <4>1. run'[a] = run[a] /\ run[a] \in Attempts /\ run[run[a]] = run[a]
          BY <1>3, <2>9, <2>13, <3>2 DEF Rows, Runs
        <4>2. run[a] # c
          BY <2>1, <4>1, NoneIsNoAttempt
        <4> QED
          BY <2>9, <2>13, <4>1, <4>2 DEF Rows, Runs
      <3> QED
        BY <3>1, <3>2
    <2>14. Runs'
      BY <1>1, <2>13 DEF Runs, AttemptsOf
    <2>15. Settlements'
      BY <1>1, <2>9, <2>2, <2>10, ReceiptsHaveBegun DEF Rows, Settlements
    <2>16. Corrections' /\ Awaited'
      BY <1>1, RestingAwaits DEF Rows, Corrections
    <2> QED
      BY <2>11, <2>12, <2>14, <2>15, <2>16 DEF Rows
  <1> QED
    BY <1>4, <1>5

-----------------------------------------------------------------------------
(* The passes of the workers.                                              *)

(* What a worker has found, and what it is about to publish, rests on      *)
(* records that no step takes back.                                        *)
LEMMA FoundStays ==
  ASSUME IInv, Rows, Accumulates, Ages, NEW x \in Workers, Reusing(x), Accepting(x),
         UNCHANGED <<pc[x], claim[x], orig[x], result[x]>>
  PROVE  Reusing(x)' /\ Accepting(x)'
  <1>1. Reusing(x)'
    <2> DEFINE o == orig[x]
    <2> SUFFICES ASSUME o # None PROVE Reusing(x)'
      BY DEF Reusing
    <2>1. o \in intent /\ answer[o] # "none"
      BY DEF Reusing
    <2>2. o \in Attempts /\ outcome[o] # "none"
      BY <2>1, PartsOfInvariant DEF TablesOK, Rows, Unborn
    <2>3. outcome'[o] = "running" => outcome[o] = "running"
      BY <2>2, RanBefore
    <2>4. o \in intent' /\ answer'[o] = answer[o] /\ (o \in receipts => o \in receipts')
      BY <2>1, <2>2 DEF Accumulates
    <2>5. run[o] # None => run'[o] # None
      BY <2>2 DEF Accumulates
    <2> QED
      BY <2>3, <2>4, <2>5 DEF Reusing
  <1>2. Accepting(x)'
    <2> DEFINE c == claim[x]
    <2> SUFFICES ASSUME result[x] \in {"accepted", "cached"} PROVE Accepting(x)'
      BY DEF Accepting
    <2>1. pc[x] \in {"settle", "link", "decide", "finish", "retry"}
      BY DEF Accepting
    <2>2. c \in Attempts /\ outcome[c] # "none" /\ c = <<c[1], c[2]>> /\ c[1] \in Items
      BY <2>1, InPass, ClaimedAttempt
    <2>3. outcome'[c] = "running" =>
            outcome[c] = "running" /\ corrected'[c[1]] = corrected[c[1]]
      BY <2>2, RanBefore DEF Ages
    <2>4. ASSUME result[x] = "accepted", outcome'[c] = "running" PROVE AnsweredSince(c)'
      <3>1. PICK f \in corrected[c[1]] + 1 .. c[2] : answer[<<c[1], f>>] = "accepted"
        BY <2>3, <2>4 DEF Accepting, AnsweredSince
      <3>2. <<c[1], f>> \in Attempts
        <4>1. corrected[c[1]] \in Nat /\ c[2] \in 1 .. MaxFence
          BY <2>2, PartsOfInvariant, WorkAssumption DEF TablesOK, Attempts
        <4>2. f \in 1 .. MaxFence
          BY <4>1, WorkAssumption
        <4> QED
          BY <2>2, <4>2 DEF Attempts
      <3>3. answer'[<<c[1], f>>] = "accepted"
        BY <3>1, <3>2 DEF Accumulates
      <3> QED
        BY <2>3, <2>4, <3>3 DEF AnsweredSince
    <2>5. run[c] # None => run'[c] = run[c]
      BY <2>2 DEF Accumulates
    <2> QED
      BY <2>1, <2>3, <2>4, <2>5 DEF Accepting, Accumulates
  <1> QED
    BY <1>1, <1>2

(* The request of a worker stays as it is while the records of its claim   *)
(* do, or while its answered attempt is settled for it.                    *)
LEMMA AskingStays ==
  ASSUME IInv, Accumulates, NEW x \in Workers, Asking(x),
         UNCHANGED <<pc[x], claim[x], orig[x], result[x]>>,
         claim[x] \in Attempts =>
            /\ claim[x] \in intent' <=> claim[x] \in intent
            /\ answer'[claim[x]] = answer[claim[x]]
            /\ \/ /\ run'[claim[x]] = run[claim[x]]
                  /\ claim[x] \in receipts' <=> claim[x] \in receipts
               \/ /\ answer[claim[x]] # "none"
                  /\ claim[x] \in receipts' /\ run'[claim[x]] \in {None, claim[x]}
  PROVE  Asking(x)'
  <1>1. CASE claim[x] \in Attempts
    <2>1. run[claim[x]] \in receipts => run[claim[x]] \in receipts'
      BY PartsOfInvariant DEF Accumulates, TablesOK
    <2> QED
      BY <1>1, <2>1, NoneIsNoAttempt DEF Asking, Unanswered
  <1>2. CASE claim[x] \notin Attempts
    <2>1. pc[x] \in {"idle", "exited", "released", "gone"}
      BY <1>2, InPass
    <2> QED
      BY <2>1 DEF Asking, Unasked
  <1> QED
    BY <1>1, <1>2

(* A worker that nothing happens to, where nothing is filed. *)
LEMMA PassStays ==
  ASSUME IInv, Rows, Accumulates, Ages, NEW x \in Workers, Passes(x),
         UNCHANGED <<intent, answer, run, receipts>>,
         UNCHANGED <<pc[x], claim[x], orig[x], result[x]>>
  PROVE  Passes(x)'
  BY FoundStays, AskingStays DEF Passes

(* A worker that leaves its pass, or returns to its loop, claims nothing   *)
(* of the records.                                                         *)
LEMMA PassLeft ==
  ASSUME NEW w \in Workers,
         pc'[w] \in {"tail", "idle", "exited"}, orig'[w] = None, result'[w] = "none"
  PROVE  Passes(w)'
  BY DEF Passes, Asking, Reusing, Accepting, Unasked

(* Only worker w moves. *)
Moved(w) ==
    \A x \in Workers \ {w} :
        /\ pc'[x] = pc[x] /\ claim'[x] = claim[x]
        /\ orig'[x] = orig[x] /\ result'[x] = result[x]

(* What the steps of a pass do to the worker that takes them. *)
LEMMA WorkerMoves ==
  ASSUME IInv, NEW w \in Workers
  PROVE  /\ \A next : Goto(w, next) =>
               /\ Moved(w) /\ pc'[w] = next
               /\ UNCHANGED <<claim, orig, result>>
         /\ \A next, r : GotoWith(w, next, r) =>
               /\ Moved(w) /\ pc'[w] = next /\ result'[w] = r
               /\ UNCHANGED <<claim, orig>>
         /\ \A failed : Leave(w, failed) =>
               Moved(w) /\ pc'[w] = "tail" /\ orig'[w] = None /\ result'[w] = "none"
         /\ \A failed : Return(w, failed) =>
               /\ Moved(w) /\ pc'[w] \in {"exited", "idle"}
               /\ orig'[w] = None /\ result'[w] = "none"
  <1>1. /\ pc \in [Workers -> Places]
        /\ claim \in [Workers -> Attempts \cup {None}]
        /\ orig \in [Workers -> Attempts \cup {None}]
        /\ result \in [Workers -> Results]
    BY PartsOfInvariant DEF WorkersOK
  <1> QED
    BY <1>1 DEF Goto, GotoWith, Leave, Return, Moved

(* A step that files nothing keeps the passes if the worker that moves     *)
(* leaves its pass.                                                        *)
LEMMA FiledPasses ==
  ASSUME IInv, Records, Accumulates, Ages, UNCHANGED <<intent, answer, run, receipts>>,
         NEW w \in Workers, Moved(w), Passes(w)'
  PROVE  \A x \in Workers : Passes(x)'
  BY PassStays DEF Records, Moved

-----------------------------------------------------------------------------
(* The steps of a pass.                                                    *)

(* The latest intent of the item is the attempt whose answer the worker    *)
(* has found, if that attempt still runs.                                  *)
LEMMA FoundIsLatest ==
  ASSUME IInv, Rows, NEW w \in Workers, Reusing(w), orig[w] # None,
         outcome[orig[w]] = "running"
  PROVE  /\ Recent(claim[w][1]) # {} /\ Latest(claim[w][1]) = orig[w]
         /\ answer[orig[w]] # "none"
  <1> DEFINE o == orig[w]
             i == claim[w][1]
  <1>1. o[1] = i /\ o \in intent /\ answer[o] # "none"
    BY DEF Reusing
  <1>2. o \in Attempts /\ o = <<i, o[2]>> /\ i \in Items
    BY <1>1, PartsOfInvariant DEF TablesOK, Attempts
  <1>3. state[i] \in OwnedItem /\ fence[i] = o[2]
    BY <1>1, <1>2, PartsOfInvariant DEF Tables, SingleOwner
  <1>4. o \in Recent(i)
    BY <1>1, <1>2, <1>3 DEF Rows, Corrections, Recent, AttemptsOf, Attempts
  <1>5. \A b \in Recent(i) : b \in Attempts /\ b = <<i, b[2]>> /\ b[2] <= fence[i]
    <2>1. ASSUME NEW b \in Recent(i)
          PROVE  b \in Attempts /\ b[1] = i /\ b[2] <= fence[i]
      <3>1. b \in intent /\ b \in AttemptsOf(i)
        BY DEF Recent
      <3>2. b \in Attempts /\ b[1] = i
        BY <1>2, <3>1 DEF AttemptsOf, Attempts
      <3>3. outcome[b] # "none"
        BY <3>1, <3>2 DEF Rows, Unborn
      <3> QED
        BY <3>2, <3>3, PartsOfInvariant DEF Tables, Numbered
    <2> QED
      BY <2>1 DEF Attempts
  <1>6. Latest(i) \in Recent(i) /\ o[2] <= Latest(i)[2]
    BY <1>2, <1>4, LatestIsRecent
  <1>7. Latest(i)[2] = o[2]
    <2>1. Latest(i)[2] \in Int /\ o[2] \in Int
      BY <1>2, <1>5, <1>6 DEF Attempts
    <2> QED
      BY <1>3, <1>5, <1>6, <2>1
  <1> QED
    BY <1>1, <1>2, <1>4, <1>5, <1>6, <1>7

(* Nothing but the worker moves. *)
LEMMA QuietAges ==
  ASSUME UNCHANGED tables
  PROVE  /\ Accumulates /\ Ages
         /\ UNCHANGED <<intent, answer, run, receipts, outcome, corrected, state, fence>>
  BY RestingAges DEF Accumulates, tables, itemVars, ledgerVars

(* Reading the receipt (recoverproviderresponse). *)
LEMMA ReadReceiptPass ==
  ASSUME IInv, Records, NEW w \in Workers, ReadReceipt(w)
  PROVE  Moved(w) /\ Passes(w)'
  <1> DEFINE i == claim[w][1]
  <1>1. /\ pc[w] = "claimed" /\ claim[w] \in Attempts /\ i \in Items /\ claim[w] # None
        /\ orig[w] = None /\ result[w] \notin {"accepted", "cached"} /\ Asking(w)
    BY InPass, PartsOfInvariant DEF ReadReceipt, Pledged, Records, Passes, Accepting
  <1>2. UNCHANGED <<intent, answer, run, receipts, outcome, corrected>>
    BY QuietAges DEF ReadReceipt
  <1>3. CASE Goto(w, "reserve") \/ Goto(w, "unanswered")
    <2>1. Moved(w) /\ pc'[w] \in {"reserve", "unanswered"} /\ UNCHANGED <<claim, orig, result>>
      BY <1>3, WorkerMoves
    <2> QED
      BY <1>1, <1>2, <2>1 DEF Passes, Asking, Reusing, Accepting, Unasked
  <1>4. CASE ReceiptState(w) = "reuse"
    <2>1. /\ pc' = [pc EXCEPT ![w] = "process"] /\ orig' = [orig EXCEPT ![w] = Latest(i)]
          /\ UNCHANGED <<claim, result>>
      BY <1>4 DEF ReadReceipt
    <2>2. Moved(w) /\ pc'[w] = "process" /\ orig'[w] = Latest(i)
      BY <2>1, PartsOfInvariant DEF WorkersOK, Moved
    <2>3. Recent(i) # {} /\ answer[Latest(i)] # "none"
      BY <1>4 DEF ReceiptState
    <2>4. Latest(i) \in intent /\ Latest(i)[1] = i
      BY <1>1, <2>3, LatestIsRecent DEF Recent, AttemptsOf
    <2> QED
      BY <1>1, <1>2, <2>1, <2>2, <2>3, <2>4 DEF Passes, Asking, Reusing, Accepting, Unasked
  <1> QED
    BY <1>3, <1>4 DEF ReadReceipt, ReceiptState

(* Reservation, or its refusal. *)
LEMMA ReservePass ==
  ASSUME IInv, Records, NEW w \in Workers,
         Reserve(w) \/ Deny(w) \/ ReserveBusy(w) \/ PolicyUnavailable(w)
  PROVE  Moved(w) /\ Passes(w)'
  <1>1. /\ pc[w] \in {"claimed", "reserve"} /\ orig[w] = None /\ result[w] \notin {"accepted", "cached"} /\ Asking(w)
    BY PartsOfInvariant DEF Reserve, Deny, ReserveBusy, PolicyUnavailable, Pledged, Records, Passes, Accepting
  <1>2. UNCHANGED <<intent, answer, run, receipts>>
    BY DEF Reserve, Deny, ReserveBusy, PolicyUnavailable, tables, ledgerVars
  <1>3. \/ Goto(w, "process") \/ Goto(w, "denied") \/ GotoWith(w, "denied", "deferred")
        \/ GotoWith(w, "denied", "refused")
    BY DEF Reserve, Deny, ReserveBusy, PolicyUnavailable
  <1>4. /\ Moved(w) /\ pc'[w] \in {"process", "denied"} /\ UNCHANGED <<claim, orig>>
        /\ result'[w] \in {result[w], "deferred", "refused"}
    BY <1>3, WorkerMoves
  <1> QED
    BY <1>1, <1>2, <1>4 DEF Passes, Asking, Reusing, Accepting, Unasked

(* The second look at the receipt (process). *)
LEMMA ProcessPass ==
  ASSUME IInv, Records, NEW w \in Workers, Process(w)
  PROVE  Moved(w) /\ Passes(w)'
  <1> DEFINE c == claim[w]
             i == c[1]
             o == orig[w]
  <1>1. /\ pc[w] = "process" /\ c \in Attempts /\ i \in Items /\ c # None
        /\ result[w] \notin {"accepted", "cached"} /\ Asking(w) /\ Reusing(w) /\ Rows
    BY InPass DEF Process, Records, Passes, Accepting
  <1>2. UNCHANGED <<intent, answer, run, receipts, outcome, corrected>>
    BY QuietAges DEF Process
  <1>3. o # None /\ outcome[o] = "running" =>
            Recent(i) # {} /\ Latest(i) = o /\ answer[o] # "none"
    BY <1>1, FoundIsLatest
  <1>4. CASE ReceiptState(w) = "fresh"
    <2>1. Moved(w) /\ pc'[w] = "admit" /\ UNCHANGED <<claim, orig, result>>
      BY <1>4, WorkerMoves DEF Process
    <2>2. o # None /\ outcome[o] = "running" => o \in receipts
      BY <1>3, <1>4 DEF ReceiptState
    <2> QED
      BY <1>1, <1>2, <2>1, <2>2 DEF Passes, Asking, Reusing, Accepting, Unasked
  <1>5. CASE ReceiptState(w) = "unanswered"
    <2>1. Moved(w) /\ pc'[w] = "settle" /\ result'[w] = "refused" /\ UNCHANGED <<claim, orig>>
      BY <1>5, WorkerMoves DEF Process
    <2>2. ~(o # None /\ outcome[o] = "running")
      BY <1>3, <1>5 DEF ReceiptState
    <2> QED
      BY <1>1, <1>2, <2>1, <2>2 DEF Passes, Asking, Reusing, Accepting, Unasked, Unanswered
  <1>6. CASE ReceiptState(w) = "reuse"
    <2> DEFINE l == Latest(i)
    <2>1. Moved(w) /\ pc'[w] = "settle" /\ result'[w] = answer[l] /\ UNCHANGED <<claim, orig>>
      BY <1>6, WorkerMoves DEF Process
    <2>2. Recent(i) # {} /\ answer[l] # "none"
      BY <1>6 DEF ReceiptState
    <2>3. l \in intent /\ l \in AttemptsOf(i) /\ l[2] > corrected[i]
      BY <1>1, <2>2, LatestIsRecent DEF Recent
    <2>4. l \in Attempts /\ l = <<i, l[2]>> /\ l[2] \in 1 .. MaxFence
      BY <1>1, <2>3 DEF AttemptsOf, Attempts
    <2>5. result'[w] \in Verdicts /\ result'[w] # "cached"
      BY <2>1, <2>2, <2>4, PartsOfInvariant, WorkAssumption DEF TablesOK
    <2>6. ASSUME result'[w] = "accepted", outcome[c] = "running"
          PROVE  AnsweredSince(c)
      <3>1. c[2] = fence[i] /\ c[2] \in 1 .. MaxFence
        BY <1>1, <2>6, ClaimedAttempt DEF Attempts
      <3>2. l[2] <= fence[i]
        <4>1. outcome[l] # "none"
          BY <1>1, <2>3, <2>4 DEF Rows, Unborn
        <4>2. l[2] <= fence[l[1]]
          BY <2>4, <4>1, PartsOfInvariant DEF Tables, Numbered
        <4> QED
          BY <2>4, <4>2
      <3>3. corrected[i] \in Nat
        BY <1>1, PartsOfInvariant, WorkAssumption DEF TablesOK
      <3>4. l[2] \in corrected[i] + 1 .. c[2]
        BY <2>3, <2>4, <3>1, <3>2, <3>3
      <3> QED
        BY <2>1, <2>4, <2>6, <3>4 DEF AnsweredSince
    <2>7. c \notin intent /\ answer[c] = "none" /\ run[c] = None /\ c \notin receipts
      BY <1>1 DEF Asking, Unasked
    <2>8. Asking(w)'
      BY <1>2, <2>1, <2>7 DEF Asking, Unasked, Unanswered
    <2>9. Reusing(w)'
      BY <1>1, <1>2, <2>1, <2>5 DEF Reusing
    <2>10. Accepting(w)'
      BY <1>2, <2>1, <2>5, <2>6 DEF Accepting, AnsweredSince
    <2> QED
      BY <2>1, <2>8, <2>9, <2>10 DEF Passes
  <1> QED
    BY <1>4, <1>5, <1>6 DEF ReceiptState

(* The steps between the receipt and the settlement that file nothing.     *)
LEMMA CallPass ==
  ASSUME IInv, Records, NEW w \in Workers,
         PreventCall(w) \/ UseStoredVector(w) \/ LoseResponse(w)
  PROVE  Moved(w) /\ Passes(w)'
  <1>1. /\ result[w] \notin {"accepted", "cached"} /\ Asking(w) /\ Reusing(w)
        /\ UNCHANGED <<intent, answer, run, receipts, outcome>>
    BY QuietAges DEF PreventCall, UseStoredVector, LoseResponse, Records, Passes, Accepting
  <1>2. CASE PreventCall(w)
    <2>1. PICK r \in {"deferred", "refused"} : GotoWith(w, "settle", r)
      BY <1>2 DEF PreventCall
    <2>2. Moved(w) /\ pc'[w] = "settle" /\ result'[w] = r /\ UNCHANGED <<claim, orig>>
      BY <2>1, WorkerMoves
    <2>3. pc[w] = "admit"
      BY <1>2 DEF PreventCall
    <2> QED
      BY <1>1, <2>2, <2>3 DEF Passes, Asking, Reusing, Accepting, Unasked, Unanswered
  <1>3. CASE LoseResponse(w)
    <2>1. Moved(w) /\ pc'[w] = "uncertain" /\ UNCHANGED <<claim, orig, result>>
      BY <1>3, WorkerMoves DEF LoseResponse
    <2>2. pc[w] = "calling"
      BY <1>3 DEF LoseResponse
    <2> QED
      BY <1>1, <2>1, <2>2 DEF Passes, Asking, Reusing, Accepting, Unasked
  <1>4. CASE UseStoredVector(w)
    <2>1. Moved(w) /\ pc'[w] = "settle" /\ result'[w] = "cached" /\ UNCHANGED <<claim, orig>>
      BY <1>4, WorkerMoves DEF UseStoredVector
    <2>2. pc[w] = "admit" /\ claim[w][1] \in Embeddings
      BY <1>4 DEF UseStoredVector
    <2> QED
      BY <1>1, <2>1, <2>2 DEF Passes, Asking, Reusing, Accepting, Unasked, Unanswered
  <1> QED
    BY <1>2, <1>3, <1>4

(* The intent of the request (beginproviderrequest). *)
LEMMA BeginRequestPass ==
  ASSUME IInv, Records, NEW w \in Workers, BeginRequest(w)
  PROVE  Moved(w) /\ Passes(w)'
  <1>1. /\ pc[w] = "admit" /\ result[w] \notin {"accepted", "cached"} /\ Asking(w) /\ Reusing(w)
        /\ UNCHANGED <<answer, run, receipts, outcome>>
    BY DEF BeginRequest, Records, Passes, Accepting
  <1>2. intent \subseteq intent'
    BY DEF BeginRequest
  <1>3. CASE Goto(w, "calling")
    <2>1. Moved(w) /\ pc'[w] = "calling" /\ UNCHANGED <<claim, orig, result>>
      BY <1>3, WorkerMoves
    <2> QED
      BY <1>1, <1>2, <2>1 DEF Passes, Asking, Reusing, Accepting, Unasked
  <1>4. CASE UNCHANGED intent /\ GotoWith(w, "settle", "refused")
    <2>1. Moved(w) /\ pc'[w] = "settle" /\ result'[w] = "refused" /\ UNCHANGED <<claim, orig>>
      BY <1>4, WorkerMoves
    <2> QED
      BY <1>1, <1>4, <2>1 DEF Passes, Asking, Reusing, Accepting, Unasked, Unanswered
  <1> QED
    BY <1>3, <1>4 DEF BeginRequest

(* The answer (recordproviderresponse). *)
LEMMA RecordResponsePass ==
  ASSUME IInv, Records, NEW w \in Workers, RecordResponse(w)
  PROVE  Moved(w) /\ Passes(w)'
  <1> DEFINE c == claim[w]
             i == c[1]
  <1>1. /\ pc[w] = "calling" /\ Asking(w) /\ Reusing(w) /\ Rows
        /\ c \in Attempts /\ i \in Items /\ c = <<i, c[2]>>
        /\ UNCHANGED <<run, receipts, outcome, intent, corrected>>
    BY InPass DEF RecordResponse, Records, Passes, itemVars
  <1>2. PICK v \in Verdicts : answer' = [answer EXCEPT ![c] = v] /\ GotoWith(w, "settle", v)
    BY DEF RecordResponse
  <1>3. Moved(w) /\ pc'[w] = "settle" /\ result'[w] = v /\ UNCHANGED <<claim, orig>>
    BY <1>2, WorkerMoves
  <1>4. /\ answer'[c] = v /\ v # "none" /\ v # "cached"
        /\ \A a \in Attempts : a # c => answer'[a] = answer[a]
    BY <1>1, <1>2, PartsOfInvariant, WorkAssumption DEF TablesOK
  <1>5. answer[c] = "none" /\ run[c] = None /\ c \notin receipts
    BY <1>1 DEF Asking
  <1>6. Asking(w)'
    BY <1>1, <1>3, <1>4, <1>5 DEF Asking, Unasked, Unanswered
  <1>7. Reusing(w)'
    <2>1. intent \subseteq Attempts
      BY PartsOfInvariant DEF TablesOK
    <2> QED
      BY <1>1, <1>3, <1>4, <2>1 DEF Reusing
  <1>8. Accepting(w)'
    <2>1. ASSUME v = "accepted", outcome[c] = "running" PROVE AnsweredSince(c)'
      <3>1. corrected[i] < c[2]
        BY <1>1, <2>1, ClaimedAttempt, InPass DEF Rows, Corrections
      <3>2. corrected[i] \in Nat /\ c[2] \in Nat
        BY <1>1, PartsOfInvariant, WorkAssumption DEF TablesOK, Attempts
      <3>3. c[2] \in corrected'[i] + 1 .. c[2]
        BY <1>1, <3>1, <3>2
      <3>4. answer'[<<i, c[2]>>] = "accepted"
        BY <1>1, <1>4, <2>1
      <3> QED
        BY <1>3, <3>3, <3>4 DEF AnsweredSince
    <2> QED
      BY <1>1, <1>3, <1>4, <2>1 DEF Accepting
  <1> QED
    BY <1>3, <1>6, <1>7, <1>8 DEF Passes

(* The uncertainty hold. *)
LEMMA HoldUncertainPass ==
  ASSUME IInv, Records, NEW w \in Workers, HoldUncertain(w)
  PROVE  Moved(w) /\ Passes(w)'
  <1>1. /\ pc[w] = "uncertain" /\ result[w] \notin {"accepted", "cached"} /\ Reusing(w)
        /\ UNCHANGED <<answer, intent>>
    BY DEF HoldUncertain, Records, Passes, Accepting
  <1>2. CASE Goto(w, "recover")
    <2>1. Moved(w) /\ pc'[w] = "recover" /\ UNCHANGED <<claim, orig, result>>
      BY <1>2, WorkerMoves
    <2> QED
      BY <1>1, <2>1 DEF Passes, Asking, Reusing, Accepting, Unasked
  <1>3. CASE Leave(w, TRUE)
    BY <1>3, WorkerMoves, PassLeft
  <1> QED
    BY <1>2, <1>3 DEF HoldUncertain

(* The settlement of the worker's own attempt (settlecall). *)
LEMMA SettlePass ==
  ASSUME IInv, Records, NEW w \in Workers, Settle(w)
  PROVE  Moved(w) /\ Passes(w)'
  <1> DEFINE c == claim[w]
  <1>1. CASE Leave(w, TRUE)
    BY <1>1, WorkerMoves, PassLeft
  <1>2. CASE Goto(w, "decide")
    <2>1. /\ pc[w] = "settle" /\ orig[w] = None /\ Asking(w) /\ Accepting(w) /\ Rows
          /\ c \in Attempts
          /\ UNCHANGED <<intent, answer, outcome, corrected>>
      BY InPass DEF Settle, Records, Passes, itemVars
    <2>2. Moved(w) /\ pc'[w] = "decide" /\ UNCHANGED <<claim, orig, result>>
      BY <1>2, WorkerMoves
    <2>3. ASSUME result[w] = "accepted", outcome[c] = "running"
          PROVE  run'[c] # None /\ run'[c] \in receipts'
      <3>1. result[w] \in Verdicts
        BY <2>3, PartsOfInvariant DEF WorkersOK, Results
      <3>2. CASE c \in receipts
        <4>1. UNCHANGED <<receipts, run>>
          BY <3>2 DEF Settle
        <4>2. run[c] # None
          BY <2>1, <2>3, <3>2 DEF Asking, Rows, Settlements
        <4> QED
          BY <2>1, <4>1, <4>2 DEF Asking
      <3>3. CASE c \notin receipts
        <4>1. receipts' = receipts \cup {c} /\ run' = [run EXCEPT ![c] = c]
          BY <3>1, <3>3 DEF Settle, SettleCall
        <4>2. run'[c] = c
          BY <2>1, <4>1, PartsOfInvariant DEF TablesOK
        <4> QED
          BY <2>1, <4>1, <4>2, NoneIsNoAttempt
      <3> QED
        BY <3>2, <3>3
    <2>4. ASSUME result[w] = "cached"
          PROVE  IF run'[c] = None THEN c \in receipts' ELSE run'[c] \in receipts'
      <3>1. run[c] = None \/ (run[c] = c /\ c \in receipts)
        BY <2>1 DEF Asking
      <3>2. CASE c \in receipts
        BY <3>1, <3>2 DEF Settle
      <3>3. CASE c \notin receipts
        <4>1. receipts' = receipts \cup {c} /\ run' = [run EXCEPT ![c] = run[c]]
          BY <2>4, <3>3, WorkAssumption DEF Settle, SettleCall
        <4>2. run'[c] = None
          BY <2>1, <3>1, <3>3, <4>1, PartsOfInvariant DEF TablesOK
        <4> QED
          BY <4>1, <4>2
      <3> QED
        BY <3>2, <3>3
    <2>5. Asking(w)' /\ Reusing(w)'
      BY <2>1, <2>2, <2>4 DEF Asking, Reusing, Unasked, Unanswered
    <2>6. Accepting(w)'
      BY <2>1, <2>2, <2>3 DEF Accepting, AnsweredSince
    <2> QED
      BY <2>2, <2>5, <2>6 DEF Passes
  <1> QED
    BY <1>1, <1>2 DEF Settle

(* The settlement of the original attempt (recoverprovideraccounting). *)
LEMMA SettleOriginalPass ==
  ASSUME IInv, Records, NEW w \in Workers, SettleOriginal(w)
  PROVE  Moved(w) /\ Passes(w)'
  <1> DEFINE c == claim[w]
             o == orig[w]
  <1>1. CASE Leave(w, TRUE)
    BY <1>1, WorkerMoves, PassLeft
  <1>2. CASE Goto(w, "link")
    <2>1. /\ pc[w] = "settle" /\ o # None /\ Asking(w) /\ Reusing(w) /\ Accepting(w)
          /\ c \in Attempts /\ c \notin opened
          /\ UNCHANGED <<intent, answer, outcome, corrected>>
      BY InPass, PartsOfInvariant DEF SettleOriginal, Records, Passes, itemVars, Pledged
    <2>2. Moved(w) /\ pc'[w] = "link" /\ UNCHANGED <<claim, orig, result>>
      BY <1>2, WorkerMoves
    <2>3. o \in Attempts
      BY <2>1, PartsOfInvariant DEF WorkersOK
    <2>4. CASE run[o] # None
      <3>1. UNCHANGED <<receipts, run>>
        BY <2>4 DEF SettleOriginal
      <3> QED
        BY <2>1, <2>2, <2>4, <3>1 DEF Passes, Asking, Reusing, Accepting, Unasked, Unanswered, AnsweredSince
    <2>5. CASE run[o] = None
      <3>1. o \in opened \ receipts /\ SettleCall(o, result[w] \in Verdicts)
        <4>1. ~Leave(w, TRUE)
          BY <2>2, WorkerMoves
        <4> QED
          BY <2>5, <4>1 DEF SettleOriginal
      <3>2. /\ receipts' = receipts \cup {o} /\ o # c
            /\ run' = [run EXCEPT ![o] = IF result[w] \in Verdicts THEN o ELSE @]
        BY <2>1, <3>1 DEF SettleCall
      <3>3. run'[c] = run[c] /\ (result[w] \in Verdicts => run'[o] # None)
        BY <2>3, <3>2, PartsOfInvariant, NoneIsNoAttempt DEF TablesOK
      <3>4. Asking(w)'
        BY <2>1, <2>2, <3>2, <3>3 DEF Asking, Unasked, Unanswered
      <3>5. Reusing(w)' /\ Accepting(w)'
        BY <2>1, <2>2, <3>2, <3>3 DEF Reusing, Accepting, AnsweredSince
      <3> QED
        BY <2>2, <3>4, <3>5 DEF Passes
    <2> QED
      BY <2>4, <2>5
  <1> QED
    BY <1>1, <1>2 DEF SettleOriginal

(* The link of the reusing attempt (recoverprovideraccounting). *)
LEMMA LinkReceiptPass ==
  ASSUME IInv, Records, NEW w \in Workers, LinkReceipt(w)
  PROVE  Moved(w) /\ Passes(w)'
  <1> DEFINE c == claim[w]
             o == orig[w]
  <1>1. CASE Leave(w, TRUE)
    BY <1>1, WorkerMoves, PassLeft
  <1>2. CASE Goto(w, "decide")
    <2>1. /\ pc[w] = "link" /\ o # None /\ Asking(w) /\ Reusing(w) /\ Accepting(w) /\ Rows
          /\ c \in Attempts /\ o \in Attempts
          /\ UNCHANGED <<intent, answer, outcome, corrected, receipts>>
      BY InPass, PartsOfInvariant
         DEF LinkReceipt, Records, Passes, itemVars, ledgerVars, Pledged, WorkersOK
    <2>2. Moved(w) /\ pc'[w] = "decide" /\ UNCHANGED <<claim, orig, result>>
      BY <1>2, WorkerMoves
    <2>3. ~Leave(w, TRUE)
      BY <2>2, WorkerMoves
    <2>4. run'[c] = IF run[c] = None THEN run[o] ELSE run[c]
      BY <2>1, <2>3, PartsOfInvariant DEF LinkReceipt, TablesOK
    <2>5. run'[c] # None /\ run'[c] \in receipts
      <3>1. run[c] # None \/ run[o] # None
        BY <2>3 DEF LinkReceipt
      <3>2. CASE run[c] # None
        BY <2>1, <2>4, <3>2 DEF Asking
      <3>3. CASE run[c] = None
        <4>1. run[o] # None /\ answer[o] # "none"
          BY <2>1, <3>1, <3>3 DEF Reusing
        <4>2. run[o] \in receipts
          BY <2>1, <4>1 DEF Rows, Runs
        <4> QED
          BY <2>4, <3>3, <4>1, <4>2
      <3> QED
        BY <3>2, <3>3
    <2>6. Asking(w)' /\ Reusing(w)'
      BY <2>1, <2>2, <2>5 DEF Asking, Reusing, Unasked, Unanswered
    <2>7. Accepting(w)'
      BY <2>1, <2>2, <2>5 DEF Accepting, AnsweredSince
    <2> QED
      BY <2>2, <2>6, <2>7 DEF Passes
  <1> QED
    BY <1>1, <1>2 DEF LinkReceipt

(* The steps after the accounting that leave the tables alone. *)
LEMMA DecidePass ==
  ASSUME IInv, Records, NEW w \in Workers,
         Decide(w) \/ PublicationFails(w) \/ SeeCancel(w) \/ EndPass(w)
  PROVE  Moved(w) /\ Passes(w)'
  <1>1. CASE (\E failed : Leave(w, failed)) \/ (\E failed : Return(w, failed))
    BY <1>1, WorkerMoves, PassLeft
  <1>2. CASE \/ pc[w] = "decide" /\ Goto(w, "finish")
             \/ pc[w] = "finish" /\ Goto(w, "retry")
             \/ pc[w] = "tail" /\ Goto(w, "acknowledge")
    <2>1. /\ Moved(w) /\ UNCHANGED <<claim, orig, result>>
          /\ \/ pc[w] = "decide" /\ pc'[w] = "finish"
             \/ pc[w] = "finish" /\ pc'[w] = "retry"
             \/ pc[w] = "tail" /\ pc'[w] = "acknowledge"
      BY <1>2, WorkerMoves
    <2>2. Asking(w) /\ Reusing(w) /\ Accepting(w)
      BY DEF Records, Passes
    <2>3. UNCHANGED <<intent, answer, run, receipts, outcome, corrected>>
      BY QuietAges DEF Decide, PublicationFails, SeeCancel, EndPass
    <2>4. Asking(w)' /\ Reusing(w)'
      BY <2>1, <2>2, <2>3 DEF Asking, Reusing, Unasked, Unanswered
    <2>5. Accepting(w)'
      BY <2>1, <2>2, <2>3 DEF Accepting, AnsweredSince
    <2> QED
      BY <2>1, <2>4, <2>5 DEF Passes
  <1> QED
    BY <1>1, <1>2 DEF Decide, PublicationFails, SeeCancel, EndPass

(* Wherever a pass ends it is left behind. *)
LEMMA EndPasses ==
  ASSUME IInv, NEW w \in Workers,
         \/ Defer(w) \/ FailUnanswered(w) \/ FailDenied(w) \/ FailResult(w)
         \/ FailPublication(w) \/ Publish(w) \/ Skip(w) \/ AcknowledgeCancel(w)
         \/ RecoverAfterHold(w) \/ Exit(w)
  PROVE  Moved(w) /\ Passes(w)'
  <1>1. (\E failed : Leave(w, failed)) \/ (\E failed : Return(w, failed))
    BY DEF Defer, FailUnanswered, FailDenied, FailResult, FailPublication, Publish, Skip,
           AcknowledgeCancel, RecoverAfterHold, Exit
  <1> QED
    BY <1>1, WorkerMoves, PassLeft

(* A new claim: nothing is recorded of its attempt (claimnext). *)
LEMMA ClaimPass ==
  ASSUME IInv, Records, NEW w \in Workers, ClaimNext(w)
  PROVE  Moved(w) /\ Passes(w)'
  <1>1. PICK i \in Items :
          /\ fence[i] < MaxFence
          /\ claim' = [claim EXCEPT ![w] = <<i, fence[i] + 1>>]
          /\ pc' = [pc EXCEPT ![w] = "claimed"]
    BY DEF ClaimNext
  <1> DEFINE a == <<i, fence[i] + 1>>
  <1>2. a \in Attempts /\ outcome[a] = "none"
    <2>1. fence[i] \in Nat /\ a \in Attempts
      BY <1>1, PartsOfInvariant, WorkAssumption DEF TablesOK, Attempts
    <2> QED
      BY <2>1, PartsOfInvariant DEF Tables, Numbered
  <1>3. a \notin intent /\ answer[a] = "none" /\ run[a] = None /\ a \notin receipts
    BY <1>2, ReceiptsHaveBegun DEF Records, Rows, Unborn
  <1>4. pc[w] = "idle" /\ orig[w] = None /\ result[w] \notin {"accepted", "cached"}
    BY PartsOfInvariant DEF ClaimNext, Pledged, Records, Passes, Accepting
  <1>5. /\ UNCHANGED <<intent, answer, run, receipts, orig, result>>
    BY DEF ClaimNext, RecoverLedger
  <1>6. Moved(w) /\ claim'[w] = a /\ pc'[w] = "claimed"
    BY <1>1, <1>5, PartsOfInvariant DEF WorkersOK, Moved
  <1> QED
    BY <1>3, <1>4, <1>5, <1>6 DEF Passes, Asking, Reusing, Accepting, Unasked

(* The controller reaps an exited worker. *)
LEMMA ReapPass ==
  ASSUME IInv, Records, NEW w \in Workers, Reap(w)
  PROVE  Moved(w) /\ Passes(w)'
  <1>1. /\ pc[w] \in {"exited", "released"} /\ Reusing(w) /\ result[w] \notin {"accepted", "cached"}
        /\ UNCHANGED <<intent, answer>>
    BY DEF Reap, ReleaseExited, RecoverExited, RecoverLeases, RecoverLedger, ledgerVars,
           Records, Passes, Accepting
  <1>2. Goto(w, "released") \/ Goto(w, "gone")
    BY DEF Reap, ReleaseExited, RecoverExited
  <1>3. Moved(w) /\ pc'[w] \in {"released", "gone"} /\ UNCHANGED <<claim, orig, result>>
    BY <1>2, WorkerMoves
  <1> QED
    BY <1>1, <1>3 DEF Passes, Asking, Reusing, Accepting, Unasked

-----------------------------------------------------------------------------
(* The records after every step.                                           *)

(* A step of w that files nothing. *)
LEMMA FiledStep ==
  ASSUME IInv, IInv', Records, [Next]_vars,
         UNCHANGED <<intent, answer, run, receipts>>, Awaited',
         NEW w \in Workers, Moved(w), Passes(w)'
  PROVE  Records' /\ Accumulates
  <1>1. Accumulates /\ Ages
    BY StepAges DEF Accumulates
  <1>2. Rows'
    BY <1>1, FiledRows DEF Records
  <1> QED
    BY <1>1, <1>2, FiledPasses DEF Records

(* A step that files nothing and moves no worker. *)
LEMMA OutsideStep ==
  ASSUME IInv, IInv', Records, [Next]_vars,
         UNCHANGED <<intent, answer, run, receipts>>, Awaited', UNCHANGED workerVars
  PROVE  Records' /\ Accumulates
  <1>1. Accumulates /\ Ages
    BY StepAges DEF Accumulates
  <1>2. Rows'
    BY <1>1, FiledRows DEF Records
  <1>3. \A x \in Workers : Passes(x)'
    BY <1>1, PassStays DEF Records, workerVars
  <1> QED
    BY <1>1, <1>2, <1>3 DEF Records

(* A step of w that files something of attempt b: of its own claim, or the *)
(* settlement of the answered attempt that it reuses.                      *)
LEMMA FilingStep ==
  ASSUME IInv, Records, Ages, NEW w \in Workers, NEW b \in Attempts,
         Accumulates, Rows', Moved(w), Passes(w)',
         \A a \in Attempts \ {b} :
            /\ a \in intent' <=> a \in intent
            /\ answer'[a] = answer[a] /\ run'[a] = run[a]
            /\ a \in receipts' <=> a \in receipts,
         \/ b = claim[w]
         \/ /\ b \in intent' <=> b \in intent
            /\ answer'[b] = answer[b] /\ answer[b] # "none"
            /\ \/ run'[b] = run[b] /\ (b \in receipts' <=> b \in receipts)
               \/ b \in receipts' /\ run'[b] \in {None, b}
  PROVE  Records'
  <1>1. ASSUME NEW x \in Workers, x # w PROVE Passes(x)'
    <2>1. Passes(x) /\ UNCHANGED <<pc[x], claim[x], orig[x], result[x]>>
      BY <1>1 DEF Records, Moved
    <2>2. Reusing(x)' /\ Accepting(x)'
      BY <2>1, FoundStays DEF Records, Passes
    <2>3. claim[x] = b => b # claim[w]
      <3>1. claim[w] = b => claim[w] # claim[x]
        BY <1>1, PartsOfInvariant, NoneIsNoAttempt DEF Tables, SingleOwner
      <3> QED
        BY <3>1
    <2>4. Asking(x)'
      BY <2>1, <2>3, AskingStays DEF Passes
    <2> QED
      BY <2>2, <2>4 DEF Passes
  <1> QED
    BY <1>1 DEF Records

(* The steps of a pass that file something. *)
LEMMA LedgerStep ==
  ASSUME IInv, Records, [Next]_vars, NEW w \in Workers,
         \/ BeginRequest(w) \/ RecordResponse(w) \/ HoldUncertain(w)
         \/ Settle(w) \/ SettleOriginal(w) \/ LinkReceipt(w)
  PROVE  Records' /\ Accumulates
  <1>1. Ages /\ Rows /\ Asking(w) /\ Reusing(w)
    BY StepAges DEF Records, Passes
  <1>2. claim[w] \in Attempts
    <2>1. pc[w] \in {"admit", "calling", "uncertain", "settle", "link"}
      BY DEF BeginRequest, RecordResponse, HoldUncertain, Settle, SettleOriginal, LinkReceipt
    <2> QED
      BY <2>1, InPass
  <1>3. run \in [Attempts -> Attempts \cup {None}] /\ answer \in [Attempts -> Verdicts \cup {"none"}]
    BY PartsOfInvariant DEF TablesOK
  <1>4. Accumulates /\ Rows'
    BY <1>1, BeginRequestRows, RecordResponseRows, HoldUncertainRows, SettleRows,
       SettleOriginalRows, LinkReceiptRows
  <1>5. Moved(w) /\ Passes(w)'
    BY BeginRequestPass, RecordResponsePass, HoldUncertainPass, SettlePass,
       SettleOriginalPass, LinkReceiptPass
  <1>6. CASE ~SettleOriginal(w)
    <2>1. \A a \in Attempts \ {claim[w]} :
            /\ a \in intent' <=> a \in intent
            /\ answer'[a] = answer[a] /\ run'[a] = run[a]
            /\ a \in receipts' <=> a \in receipts
      BY <1>2, <1>3, <1>6
         DEF BeginRequest, RecordResponse, HoldUncertain, Settle, SettleCall, LinkReceipt,
             ledgerVars
    <2> QED
      BY <1>1, <1>2, <1>4, <1>5, <2>1, FilingStep
  <1>7. CASE SettleOriginal(w)
    <2> DEFINE o == orig[w]
    <2>1. o # None /\ UNCHANGED <<intent, answer>>
      BY <1>7 DEF SettleOriginal
    <2>2. o \in Attempts /\ answer[o] # "none"
      BY <1>1, <2>1, PartsOfInvariant DEF Reusing, WorkersOK
    <2>3. \/ UNCHANGED <<run, receipts>>
          \/ /\ run[o] = None /\ receipts' = receipts \cup {o}
             /\ run' = [run EXCEPT ![o] = IF result[w] \in Verdicts THEN o ELSE @]
      BY <1>7 DEF SettleOriginal, SettleCall
    <2>4. /\ \A a \in Attempts \ {o} : run'[a] = run[a] /\ (a \in receipts' <=> a \in receipts)
          /\ \/ run'[o] = run[o] /\ (o \in receipts' <=> o \in receipts)
             \/ o \in receipts' /\ run'[o] \in {None, o}
      BY <1>3, <2>2, <2>3
    <2> QED
      BY <1>1, <1>4, <1>5, <2>1, <2>2, <2>4, FilingStep
  <1> QED
    BY <1>4, <1>6, <1>7

(* The steps that end a pass with a change of the item. *)
LEMMA EndAwaits ==
  ASSUME IInv, Records, NEW w \in Workers,
         \/ Defer(w) \/ FailUnanswered(w) \/ FailDenied(w) \/ FailResult(w)
         \/ FailPublication(w) \/ Publish(w) \/ Skip(w) \/ AcknowledgeCancel(w)
  PROVE  Awaited' /\ UNCHANGED <<intent, answer, run, receipts>>
  <1>1. pc[w] \in {"reserve", "unanswered", "denied", "finish", "retry", "acknowledge"}
    BY DEF Defer, FailUnanswered, FailDenied, FailResult, FailPublication, Publish, Skip,
           AcknowledgeCancel
  <1>2. claim[w] \in Attempts /\ Asking(w) /\ Awaited
    BY <1>1, InPass DEF Records, Passes, Rows
  <1>3. pc[w] # "acknowledge" => claim[w] \notin Unanswered
    BY <1>1, <1>2 DEF Asking, Unasked, Unanswered
  <1>4. UNCHANGED ledgerVars
    BY DEF Defer, FailUnanswered, FailDenied, FailResult, FailPublication, Publish, Skip,
           AcknowledgeCancel
  <1>5. UNCHANGED run
    BY DEF Defer, FailUnanswered, FailDenied, FailResult, FailPublication, Publish, Skip,
           AcknowledgeCancel, Failed, Settled
  <1>6. CASE UNCHANGED <<state, retry, fence>>
    BY <1>2, <1>4, <1>5, <1>6, RestingAwaits DEF ledgerVars
  <1>7. ASSUME ActiveFence(w), pc[w] # "acknowledge",
               \E r, u, c : Failed(w, r, u, c)
        PROVE  Awaited'
    <2>1. outcome[claim[w]] = "running"
      BY <1>7 DEF ActiveFence
    <2>2. PICK next \in ItemStates \ OwnedItem,
               ended \in Outcomes \ {"none", "running", "succeeded", "skipped"} :
               Settled(w, next, ended)
      BY <1>2, <1>7, FailedSettles
    <2> QED
      BY <1>2, <1>3, <1>4, <1>7, <2>1, <2>2, SettledAwaits
  <1>8. CASE FailUnanswered(w) /\ ~UNCHANGED <<state, retry, fence>>
    BY <1>4, <1>5, <1>7, <1>8 DEF FailUnanswered, itemVars, ledgerVars
  <1>9. CASE FailDenied(w) /\ ~UNCHANGED <<state, retry, fence>>
    BY <1>4, <1>5, <1>7, <1>9 DEF FailDenied, itemVars, ledgerVars
  <1>10. CASE FailResult(w) /\ ~UNCHANGED <<state, retry, fence>>
    BY <1>4, <1>5, <1>7, <1>10 DEF FailResult, itemVars, ledgerVars
  <1>11. CASE FailPublication(w) /\ ~UNCHANGED <<state, retry, fence>>
    BY <1>4, <1>5, <1>7, <1>11 DEF FailPublication, itemVars, ledgerVars
  <1>12. ASSUME NEW next \in {"queued", "processed", "skipped", "cancelled"}, NEW ended,
                outcome[claim[w]] = "running", Settled(w, next, ended),
                pc[w] = "acknowledge" => next = "cancelled"
         PROVE  Awaited'
    <2>1. next \in ItemStates \ OwnedItem
      BY DEF ItemStates, OwnedItem
    <2>2. claim[w] \notin Unanswered \/ next \notin ActiveItem
      BY <1>3, <1>12 DEF ActiveItem
    <2> QED
      BY <1>2, <1>4, <1>12, <2>1, <2>2, SettledAwaits
  <1>13. CASE Defer(w)
    BY <1>4, <1>5, <1>12, <1>13 DEF Defer, Admissible, ActiveFence, ledgerVars
  <1>14. CASE Publish(w)
    BY <1>4, <1>5, <1>12, <1>14 DEF Publish, ActiveFence, ledgerVars
  <1>15. CASE Skip(w) /\ ~UNCHANGED <<state, retry, fence>>
    BY <1>4, <1>5, <1>12, <1>15 DEF Skip, ActiveFence, ledgerVars
  <1>16. CASE AcknowledgeCancel(w) /\ ~UNCHANGED <<state, retry, fence>>
    BY <1>4, <1>5, <1>12, <1>16 DEF AcknowledgeCancel, ledgerVars
  <1> QED
    BY <1>6, <1>8, <1>9, <1>10, <1>11, <1>13, <1>14, <1>15, <1>16

(* Every step keeps the records, and takes nothing of them back. *)
LEMMA StepRecords ==
  ASSUME IInv, IInv', Records, [Next]_vars
  PROVE  Records' /\ Accumulates
  <1>1. Awaited
    BY DEF Records, Rows
  <1>2. UNCHANGED tables =>
          Awaited' /\ UNCHANGED <<intent, answer, run, receipts>>
    BY <1>1, RestingAwaits DEF tables, itemVars, ledgerVars
  <1>3. ASSUME NEW w \in Workers, Pass(w) PROVE Records' /\ Accumulates
    <2>1. CASE \/ ReadReceipt(w) \/ PolicyUnavailable(w) \/ Deny(w) \/ ReserveBusy(w)
               \/ Process(w) \/ PreventCall(w) \/ UseStoredVector(w)
               \/ LoseResponse(w) \/ Decide(w) \/ PublicationFails(w) \/ SeeCancel(w)
               \/ EndPass(w)
      <3>1. UNCHANGED tables
        BY <2>1 DEF ReadReceipt, PolicyUnavailable, Deny, ReserveBusy, Process,
                    PreventCall, UseStoredVector, LoseResponse, Decide, PublicationFails,
                    SeeCancel, EndPass
      <3>2. Moved(w) /\ Passes(w)'
        BY <2>1, ReadReceiptPass, ReservePass, ProcessPass, CallPass, DecidePass
      <3> QED
        BY <1>2, <3>1, <3>2, FiledStep
    <2>2. CASE Reserve(w)
      <3>1. Awaited' /\ UNCHANGED <<intent, answer, run, receipts>>
        BY <1>1, <2>2, RestingAwaits DEF Reserve, itemVars
      <3>2. Moved(w) /\ Passes(w)'
        BY <2>2, ReservePass
      <3> QED
        BY <3>1, <3>2, FiledStep
    <2>3. CASE \/ BeginRequest(w) \/ RecordResponse(w) \/ HoldUncertain(w)
               \/ Settle(w) \/ SettleOriginal(w) \/ LinkReceipt(w)
      BY <2>3, LedgerStep
    <2>4. CASE \/ Defer(w) \/ FailUnanswered(w) \/ FailDenied(w) \/ FailResult(w)
               \/ FailPublication(w) \/ Publish(w) \/ Skip(w) \/ AcknowledgeCancel(w)
      BY <2>4, EndAwaits, EndPasses, FiledStep
    <2>5. CASE RecoverAfterHold(w)
      <3>1. Awaited' /\ UNCHANGED <<intent, answer, run, receipts>>
        BY <1>1, <2>5, RecoveryAwaits DEF RecoverAfterHold, RecoverLeases, RecoverLedger
      <3> QED
        BY <2>5, <3>1, EndPasses, FiledStep
    <2> QED
      BY <1>3, <2>1, <2>2, <2>3, <2>4, <2>5 DEF Pass
  <1>4. ASSUME NEW w \in Workers, Claim(w) PROVE Records' /\ Accumulates
    <2>1. Awaited' /\ UNCHANGED <<intent, answer, run, receipts>>
      BY <1>1, <1>4, ClaimAwaits DEF Claim, ClaimNext, ClaimNothing, RecoverLedger
    <2>2. CASE ClaimNext(w)
      BY <2>1, <2>2, ClaimPass, FiledStep
    <2>3. CASE ClaimNothing(w)
      BY <2>1, <2>3, OutsideStep DEF ClaimNothing
    <2> QED
      BY <1>4, <2>2, <2>3 DEF Claim
  <1>5. ASSUME NEW w \in Workers, Exit(w) PROVE Records' /\ Accumulates
    BY <1>2, <1>5, EndPasses, FiledStep DEF Exit
  <1>6. ASSUME NEW w \in Workers, Reap(w) PROVE Records' /\ Accumulates
    <2>1. CASE ReleaseExited(w)
      <3>1. Awaited' /\ UNCHANGED <<intent, answer, run, receipts>>
        BY <1>1, <2>1, RestingAwaits DEF ReleaseExited, ledgerVars
      <3> QED
        BY <1>6, <3>1, ReapPass, FiledStep
    <2>2. CASE RecoverExited(w)
      <3>1. Awaited' /\ UNCHANGED <<intent, answer, run, receipts>>
        BY <1>1, <2>2, RecoveryAwaits DEF RecoverExited, RecoverLeases, RecoverLedger
      <3> QED
        BY <1>6, <3>1, ReapPass, FiledStep
    <2> QED
      BY <1>6, <2>1, <2>2 DEF Reap
  <1>7. ASSUME NEW i \in Items, LeaseLapses(i) PROVE Records' /\ Accumulates
    <2>1. Awaited' /\ UNCHANGED <<intent, answer, run, receipts>>
      BY <1>1, <1>7, RestingAwaits DEF LeaseLapses, ledgerVars
    <2> QED
      BY <1>7, <2>1, OutsideStep DEF LeaseLapses
  <1>8. CASE Operator
    <2>1. UNCHANGED <<intent, answer, run, receipts>> /\ UNCHANGED workerVars
      BY <1>8 DEF Operator, RequestCancel, PauseJob, ResumeJob, RetryDeadLetter, Elsewhere,
                  ledgerVars
    <2> QED
      BY <1>1, <1>8, <2>1, CommandAwaits, OutsideStep
  <1>9. CASE UNCHANGED vars
    BY <1>2, <1>9, OutsideStep DEF vars
  <1> QED
    BY <1>3, <1>4, <1>5, <1>6, <1>7, <1>8, <1>9 DEF Next

(* No record exists before the first claim. *)
LEMMA InitRecords == Init => Records
  <1> SUFFICES ASSUME Init PROVE Records
    OBVIOUS
  <1>1. Unborn
    BY DEF Init, Unborn
  <1>2. Corrections
    BY DEF Init, Corrections, OwnedItem
  <1>3. Awaited
    BY DEF Init, Awaited, AwaitedIn, Unanswered
  <1>4. Runs /\ Settlements
    BY DEF Init, Runs, Settlements
  <1>5. \A w \in Workers : Passes(w)
    BY DEF Init, Passes, Asking, Reusing, Accepting, Unasked
  <1> QED
    BY <1>1, <1>2, <1>3, <1>4, <1>5 DEF Records, Rows

(* The invariant of the records, for every number of items, workers and    *)
(* attempts: what is known of requests, answers, settlements and           *)
(* corrections wherever a pass has got to (recoverproviderresponse,        *)
(* beginproviderrequest, recordproviderresponse, settlecall,               *)
(* recoverprovideraccounting, failattempt).                                *)
THEOREM RecordsKept == Spec => []Records
  <1>1. IInv /\ IInv' /\ Records /\ [Next]_vars => Records'
    BY StepRecords
  <1> QED
    BY <1>1, InitRecords, Invariant, PTL DEF Spec

(* Recovery, retries and late workers never undo what is finished: a       *)
(* finished item, an ended attempt, an answer and a run link stay as they  *)
(* are (claimnext, recordproviderresponse, settlecall,                     *)
(* recoverprovideraccounting).                                             *)
THEOREM History == Spec => HistoryIsImmutable
  <1> DEFINE Immutable ==
        /\ \A i \in Items : state[i] \in DoneItem => state'[i] = state[i]
        /\ \A a \in Attempts :
            /\ outcome[a] \notin {"none", "running"} => outcome'[a] = outcome[a]
            /\ answer[a] # "none" => answer'[a] = answer[a]
            /\ run[a] # None => run'[a] = run[a]
  <1>1. ASSUME IInv, IInv', Records, [Next]_vars PROVE [Immutable]_vars
    BY <1>1, StepAges, StepRecords DEF Ages, Accumulates
  <1> QED
    BY <1>1, Invariant, RecordsKept, PTL DEF Spec, HistoryIsImmutable

(* A request is not repeated blindly: while one of an item is unanswered   *)
(* another is made only when the operator has asked for a retry            *)
(* (recoverproviderresponse, reservecall, retrydeadletter).                *)
THEOREM NoBlindRepeats == Spec => NoBlindRepeat
  <1> DEFINE Asked ==
        \A a \in intent' \ intent :
          Unanswered \cap AttemptsOf(a[1]) # {} => RetryRequested(a[1])
  <1>1. ASSUME IInv, Records, [Next]_vars, NEW a \in intent' \ intent,
               NEW b \in Unanswered \cap AttemptsOf(a[1])
        PROVE  RetryRequested(a[1])
    <2>1. PICK w \in Workers : /\ BeginRequest(w) /\ ActiveFence(w)
                               /\ intent' = intent \cup {claim[w]}
                               /\ claim[w] \in Attempts
      BY <1>1, IntentsUnderFence
    <2>2. a = claim[w] /\ a[1] \in Items /\ state[a[1]] = "running" /\ a = <<a[1], fence[a[1]]>>
      BY <1>1, <2>1 DEF ActiveFence, Mine, Attempts
    <2>3. b # a
      BY <1>1 DEF Unanswered
    <2> QED
      BY <1>1, <2>2, <2>3
         DEF Records, Rows, Awaited, AwaitedIn, RetryRequested, ActiveItem
  <1>2. IInv /\ Records /\ [Next]_vars => [Asked]_vars
    BY <1>1
  <1> QED
    BY <1>2, Invariant, RecordsKept, PTL DEF Spec, NoBlindRepeat

-----------------------------------------------------------------------------
(* What is published is accounted for.                                     *)

(* Only a fenced publication finishes an attempt. *)
LEMMA NewWinner ==
  ASSUME IInv, [Next]_vars, NEW a \in Attempts,
         outcome'[a] \in Finished, outcome[a] \notin Finished
  PROVE  \E w \in Workers : /\ a = claim[w] /\ ActiveFence(w)
                            /\ pc[w] = "finish" /\ Usable(w)
                            /\ UNCHANGED <<corrected, intent, run, receipts, answer>>
  <1>1. outcome'[a] # outcome[a]
    OBVIOUS
  <1>2. outcome' # RecoveredOutcome
    BY PartsOfInvariant, RecoveredAttempts DEF Tables, Finished
  <1>3. ASSUME NEW w \in Workers, ActiveFence(w), claim[w] \in Attempts,
               NEW r, NEW u, NEW c, Failed(w, r, u, c)
        PROVE  FALSE
    <2>1. PICK next \in ItemStates \ OwnedItem,
               ended \in Outcomes \ {"none", "running", "succeeded", "skipped"} :
               Settled(w, next, ended)
      BY <1>3, FailedSettles
    <2>2. outcome' = [outcome EXCEPT ![claim[w]] = ended]
      BY <2>1 DEF Settled
    <2> QED
      BY <1>3, <2>1, <2>2, PartsOfInvariant DEF TablesOK, Finished
  <1>4. ASSUME NEW w \in Workers,
               \/ FailUnanswered(w) \/ FailDenied(w) \/ FailResult(w) \/ FailPublication(w)
        PROVE  FALSE
    <2>1. claim[w] \in Attempts
      <3>1. pc[w] \in {"unanswered", "denied", "finish", "retry"}
        BY <1>4 DEF FailUnanswered, FailDenied, FailResult, FailPublication
      <3> QED
        BY <3>1, InPass
    <2>2. CASE FailUnanswered(w)
      BY <1>1, <1>3, <2>1, <2>2 DEF FailUnanswered
    <2>3. CASE FailDenied(w)
      BY <1>1, <1>3, <2>1, <2>3 DEF FailDenied
    <2>4. CASE FailResult(w)
      BY <1>1, <1>3, <2>1, <2>4 DEF FailResult
    <2>5. CASE FailPublication(w)
      BY <1>1, <1>3, <2>1, <2>5 DEF FailPublication
    <2> QED
      BY <1>4, <2>2, <2>3, <2>4, <2>5
  <1>5. ASSUME NEW w \in Workers, Defer(w) \/ AcknowledgeCancel(w) PROVE FALSE
    <2>1. outcome' = [outcome EXCEPT ![claim[w]] = "cancelled"]
      BY <1>1, <1>5 DEF Defer, AcknowledgeCancel, Settled
    <2> QED
      BY <1>1, <2>1, PartsOfInvariant DEF TablesOK, Finished
  <1>6. ASSUME NEW w \in Workers, Publish(w) \/ Skip(w)
        PROVE  /\ a = claim[w] /\ ActiveFence(w)
               /\ pc[w] = "finish" /\ Usable(w)
               /\ UNCHANGED <<corrected, intent, run, receipts, answer>>
    <2>1. /\ ActiveFence(w) /\ pc[w] = "finish" /\ Usable(w)
          /\ UNCHANGED <<corrected, intent, receipts, answer>>
      BY <1>1, <1>6 DEF Publish, Skip, ledgerVars
    <2>2. PICK ended : outcome' = [outcome EXCEPT ![claim[w]] = ended] /\ UNCHANGED run
      BY <1>1, <1>6 DEF Publish, Skip, Settled
    <2>3. a = claim[w]
      BY <1>1, <2>2, PartsOfInvariant DEF TablesOK
    <2> QED
      BY <2>1, <2>2, <2>3
  <1>7. ASSUME NEW w \in Workers, Pass(w) PROVE Publish(w) \/ Skip(w)
    BY <1>1, <1>2, <1>4, <1>5, <1>7
       DEF Pass, ReadReceipt, PolicyUnavailable, Reserve, Deny, ReserveBusy, Process,
           PreventCall, UseStoredVector, BeginRequest,
           RecordResponse, LoseResponse, HoldUncertain, RecoverAfterHold, RecoverLeases,
           Settle, SettleOriginal, LinkReceipt, Decide, PublicationFails, SeeCancel, EndPass,
           tables
  <1>8. ASSUME NEW w \in Workers, Claim(w) PROVE FALSE
    <2>1. CASE ClaimNothing(w)
      BY <1>2, <2>1 DEF ClaimNothing
    <2>2. CASE ClaimNext(w)
      <3>1. PICK i \in Items : outcome' = [RecoveredOutcome EXCEPT ![<<i, fence[i] + 1>>] = "running"]
        BY <2>2 DEF ClaimNext
      <3>2. outcome'[a] = RecoveredOutcome[a] \/ outcome'[a] = "running"
        BY <3>1, PartsOfInvariant, RecoveredAttempts DEF Tables
      <3> QED
        BY <3>2, PartsOfInvariant, RecoveredAttempts DEF Tables, Finished
    <2> QED
      BY <1>8, <2>1, <2>2 DEF Claim
  <1>9. \A w \in Workers : ~(Exit(w) \/ Reap(w))
    BY <1>1, <1>2 DEF Exit, Reap, ReleaseExited, RecoverExited, RecoverLeases, tables
  <1>10. \A i \in Items : ~LeaseLapses(i)
    BY <1>1 DEF LeaseLapses
  <1>11. ~Operator
    BY <1>1 DEF Operator, RequestCancel, PauseJob, ResumeJob, RetryDeadLetter, Elsewhere
  <1>12. ~UNCHANGED vars
    BY <1>1 DEF vars, tables
  <1> QED
    BY <1>6, <1>7, <1>8, <1>9, <1>10, <1>11, <1>12 DEF Next

(* A finished attempt rests on what it did: its requests are over, and the *)
(* answers it could use and the corrections of its item stay.              *)
LEMMA BasisStays ==
  ASSUME IInv, IInv', Records, WinnersDone, [Next]_vars,
         NEW a \in Attempts, outcome[a] \in Finished
  PROVE  /\ FromStored(a) => FromStored(a)'
         /\ AnsweredSince(a) => AnsweredSince(a)'
  <1>1. Ages /\ Accumulates
    BY StepAges, StepRecords
  <1>2. a[1] \in Items /\ a[2] \in 1 .. MaxFence
    BY DEF Attempts
  <1>3. a \notin intent => a \notin intent'
    <2> SUFFICES ASSUME a \notin intent, a \in intent' PROVE FALSE
      OBVIOUS
    <2>1. PICK w \in Workers : ActiveFence(w) /\ intent' = intent \cup {claim[w]}
      BY IntentsUnderFence
    <2>2. a = claim[w]
      BY <2>1
    <2> QED
      BY <2>1, <2>2 DEF ActiveFence, Finished
  <1>4. ASSUME AnsweredSince(a) PROVE AnsweredSince(a)'
    <2>1. PICK f \in corrected[a[1]] + 1 .. a[2] : answer[<<a[1], f>>] = "accepted"
      BY <1>4 DEF AnsweredSince
    <2>2. corrected'[a[1]] = corrected[a[1]]
      BY <1>1, <1>2 DEF WinnersDone, Ages
    <2>3. corrected[a[1]] \in Nat
      BY <1>2, PartsOfInvariant, WorkAssumption DEF TablesOK
    <2>4. f \in 1 .. MaxFence
      BY <1>2, <2>3, WorkAssumption
    <2>5. <<a[1], f>> \in Attempts
      BY <1>2, <2>4 DEF Attempts
    <2>6. answer'[<<a[1], f>>] = "accepted"
      BY <1>1, <2>1, <2>5 DEF Accumulates
    <2> QED
      BY <2>2, <2>6 DEF AnsweredSince
  <1> QED
    BY <1>3, <1>4 DEF FromStored

(* What one attempt must show. *)
AccountOf(a) ==
    \/ FromStored(a) /\ run[a] = None /\ a \in receipts
    \/ /\ run[a] \in receipts \cap AttemptsOf(a[1])
       /\ run[a][2] <= a[2] /\ run[run[a]] = run[a]
       /\ FromStored(a) \/ AnsweredSince(a)

(* A finished attempt stays accounted for, and one that finishes has its   *)
(* accounts settled. *)
LEMMA StepAccounted ==
  ASSUME IInv, IInv', Records, WinnersDone, PublishedIsAccounted, [Next]_vars
  PROVE  PublishedIsAccounted'
  <1>1. Accumulates /\ Records'
    BY StepRecords
  <1>2. ASSUME NEW a \in Attempts, outcome'[a] \in Finished
        PROVE  AccountOf(a)'
    <2>1. CASE outcome[a] \in Finished
      <3>1. AccountOf(a)
        BY <2>1 DEF PublishedIsAccounted, Finished, AccountOf
      <3>2. /\ FromStored(a) => FromStored(a)'
            /\ AnsweredSince(a) => AnsweredSince(a)'
        BY <2>1, BasisStays
      <3>3. CASE run[a] # None
        <4>1. run[a] \in Attempts
          BY <3>3, PartsOfInvariant DEF TablesOK
        <4>2. run'[a] = run[a] /\ run'[run[a]] = run[run[a]]
          <5>1. run[run[a]] = run[a]
            BY <3>1, <3>3 DEF AccountOf
          <5> QED
            BY <1>1, <3>3, <4>1, <5>1 DEF Accumulates
        <4> QED
          BY <1>1, <3>1, <3>2, <3>3, <4>1, <4>2 DEF AccountOf, AttemptsOf, Accumulates
      <3>4. CASE run[a] = None
        <4>1. FromStored(a) /\ a \in receipts
          BY <3>1, <3>4, PartsOfInvariant, NoneIsNoAttempt DEF AccountOf, TablesOK
        <4>2. FromStored(a)' /\ a \in receipts'
          BY <1>1, <3>2, <4>1 DEF Accumulates
        <4>3. CASE run'[a] = None
          BY <4>2, <4>3 DEF AccountOf
        <4>4. CASE run'[a] # None
          <5>1. /\ run'[a] \in AttemptsOf(a[1]) /\ run'[a][2] <= a[2]
                /\ run'[run'[a]] = run'[a] /\ run'[a] \in receipts'
            BY <1>1, <4>2, <4>4 DEF Records, Rows, Runs, AttemptsOf
          <5> QED
            BY <4>2, <5>1 DEF AccountOf, AttemptsOf
        <4> QED
          BY <4>3, <4>4
      <3> QED
        BY <3>3, <3>4
    <2>2. CASE outcome[a] \notin Finished
      <3>1. PICK w \in Workers : /\ a = claim[w] /\ ActiveFence(w)
                                 /\ pc[w] = "finish" /\ Usable(w)
                                 /\ UNCHANGED <<corrected, intent, run, receipts, answer>>
        BY <1>2, <2>2, NewWinner
      <3>2. Asking(w) /\ Accepting(w) /\ Rows /\ outcome[a] = "running"
        BY <3>1 DEF Records, Passes, ActiveFence
      <3>3. AccountOf(a)
        <4>1. run[a] # None =>
                 /\ run[a] \in AttemptsOf(a[1]) /\ run[a][2] <= a[2] /\ run[run[a]] = run[a]
          BY <3>2 DEF Rows, Runs
        <4>2. CASE result[w] = "accepted"
          BY <3>1, <3>2, <4>1, <4>2 DEF Accepting, AccountOf
        <4>3. CASE result[w] = "cached"
          BY <3>1, <3>2, <4>1, <4>3 DEF Asking, Accepting, AccountOf, FromStored
        <4> QED
          BY <3>1, <4>2, <4>3 DEF Usable
      <3> QED
        BY <3>1, <3>3 DEF AccountOf, FromStored, AnsweredSince, AttemptsOf
    <2> QED
      BY <2>1, <2>2
  <1> QED
    BY <1>2 DEF PublishedIsAccounted, AccountOf, Finished, AttemptsOf

(* Nothing is published before its usage is settled, and what is published *)
(* answers the item as it now stands or, where it is an embedding, was     *)
(* stored already and cost no request: for every number of items, workers  *)
(* and attempts (settlecall, recoverprovideraccounting,                    *)
(* recoverproviderresponse, _cachedembedding).                             *)
THEOREM Accounted == Spec => []PublishedIsAccounted
  <1>1. Init => PublishedIsAccounted
    BY DEF Init, PublishedIsAccounted
  <1>2. Init => WinnersDone
    BY InitPromise
  <1>3. IInv /\ WinnersDone /\ [Next]_vars => WinnersDone'
    BY StepPromise
  <1>4. IInv /\ IInv' /\ Records /\ WinnersDone /\ PublishedIsAccounted /\ [Next]_vars
           => PublishedIsAccounted'
    BY StepAccounted
  <1> QED
    BY <1>1, <1>2, <1>3, <1>4, Invariant, RecordsKept, PTL DEF Spec
=============================================================================
