----------------------------- MODULE WorkQueue -----------------------------
(***************************************************************************)
(* One durable job of the work queue: its items, their fenced attempts,    *)
(* the event ledger that reserves, records and settles paid provider       *)
(* calls, the worker processes that claim the items, the controller that   *)
(* reaps an exited worker, and the operator commands.                      *)
(*                                                                         *)
(* Each procedure of the code opens BEGIN IMMEDIATE and commits once, so a *)
(* transaction is one action; a worker's reads outside a transaction and   *)
(* the steps between two transactions are actions of their own, and every  *)
(* other process may act in between.                                       *)
(*                                                                         *)
(* Abstractions: an attempt is named by its item and its fence; a lease is *)
(* live or lapsed; retry_at only decides when a queued item is picked, so  *)
(* any queued item may be picked next; one call costs one unit of the call *)
(* budget and the other allowance dimensions are left out; the job has no  *)
(* maintenance window and no replay family.                                *)
(***************************************************************************)
EXTENDS Lifecycle, Admission, FiniteSets

CONSTANTS
    Items,            \* the items of the job
    Embeddings,       \* those whose type is embedding
    Workers,          \* worker processes; identities are never reused
    None,             \* no worker, no run, no attempt
    Verdicts,         \* what an answer turns out to be when it is validated
    MaxAttempts,      \* budget policy: maximum_attempts
    CallBudget,       \* model_call_budget of the job
    InflightCeiling,  \* budget policy: maximum_inflight_calls
    MaxFence          \* model bound: claims made of one item

ASSUME WorkAssumption ==
    /\ MaxAttempts \in Nat \ {0}
    /\ CallBudget \in Nat
    /\ InflightCeiling \in Nat \ {0}
    /\ MaxFence \in Nat
    /\ IsFiniteSet(Items) /\ Items # {}  \* a job without items is complete at once
    /\ Embeddings \subseteq Items
    /\ Verdicts \subseteq {"accepted", "uncited", "invalid", "failed"}
    /\ None \notin Workers
    /\ None \notin Items \X Nat

Attempts == Items \X (1 .. MaxFence)

VARIABLES
    jobState, reservedCalls,       \* the jobs row
    state, owner, live, fence,     \* job_items: live says lease_until > now
    corrected,   \* fence at the citation-correction-requested event, or 0
    retry,       \* the item's retry request
    outcome,     \* attempts: outcome of each attempt
    run,         \* attempts: provider run, named by the attempt it was made for
    opened, closed, intent, uncertain, receipts,   \* job_events of an attempt
    answer,      \* provider-response of an attempt, as validation will see it
    pc, claim, orig, result, broken                \* a worker process

jobVars    == <<jobState, reservedCalls>>
itemVars   == <<state, owner, live, fence, corrected, retry>>
ledgerVars == <<opened, closed, intent, uncertain, receipts, answer>>
workerVars == <<pc, claim, orig, result, broken>>
tables == <<jobVars, itemVars, outcome, run, ledgerVars>>
vars == <<tables, workerVars>>

TypeOK ==
    /\ jobState \in JobStates
    /\ reservedCalls \in Nat
    /\ state \in [Items -> ItemStates]
    /\ owner \in [Items -> Workers \cup {None}]
    /\ live \in [Items -> BOOLEAN]
    /\ fence \in [Items -> 0 .. MaxFence]
    /\ corrected \in [Items -> 0 .. MaxFence]
    /\ retry \in [Items -> {"none", "pending", "completed"}]
    /\ outcome \in [Attempts -> {"none", "running", "succeeded", "skipped",
                       "failed", "dead_letter", "expired", "cancelled"}]
    /\ run \in [Attempts -> Attempts \cup {None}]
    /\ opened \in SUBSET Attempts
    /\ closed \in SUBSET Attempts
    /\ intent \in SUBSET Attempts
    /\ uncertain \in SUBSET Attempts
    /\ receipts \in SUBSET Attempts
    /\ answer \in [Attempts -> Verdicts \cup {"none"}]
    /\ pc \in [Workers -> {"idle", "claimed", "unanswered", "reserve",
                 "denied", "process", "admit", "calling", "uncertain",
                 "recover", "settle", "link", "decide", "finish", "retry",
                 "tail", "acknowledge", "exited", "released", "gone"}]
    /\ claim \in [Workers -> Attempts \cup {None}]
    /\ orig \in [Workers -> Attempts \cup {None}]
    /\ result \in [Workers -> Verdicts \cup {"none", "deferred", "refused", "cached"}]
    /\ broken \in [Workers -> BOOLEAN]

Init ==
    /\ jobState = "queued" /\ reservedCalls = 0
    /\ state = [i \in Items |-> "queued"]
    /\ owner = [i \in Items |-> None]
    /\ live = [i \in Items |-> FALSE]
    /\ fence = [i \in Items |-> 0]
    /\ corrected = [i \in Items |-> 0]
    /\ retry = [i \in Items |-> "none"]
    /\ outcome = [a \in Attempts |-> "none"]
    /\ run = [a \in Attempts |-> None]
    /\ opened = {} /\ closed = {} /\ intent = {}
    /\ uncertain = {} /\ receipts = {}
    /\ answer = [a \in Attempts |-> "none"]
    /\ pc = [w \in Workers |-> "idle"]
    /\ claim = [w \in Workers |-> None]
    /\ orig = [w \in Workers |-> None]
    /\ result = [w \in Workers |-> "none"]
    /\ broken = [w \in Workers |-> FALSE]

-----------------------------------------------------------------------------
(* Reads shared by the transactions. *)

AttemptsOf(i) == {i} \X (1 .. MaxFence)

(* itemretrycount: a cancelled attempt was never called and is not counted. *)
Spent(o, i) ==
    Cardinality({a \in AttemptsOf(i) : o[a] \notin {"none", "cancelled"}})

Unanswered == {a \in intent : answer[a] = "none"}

RetryRequested(i) == retry[i] = "pending"

RetryBlocked(i) == Unanswered \cap AttemptsOf(i) # {} /\ ~RetryRequested(i)

Mine(w, i) == owner[i] = w /\ claim[w] = <<i, fence[i]>>

(* Faults of activeworkfence: it looks at the item alone; it also accepts  *)
(* an item whose cancellation is requested.                                *)
ActiveFenceOfAnyone(w) ==
    LET i == claim[w][1] IN state[i] = "running" /\ live[i]

ActiveFenceWhenCancelled(w) ==
    LET i == claim[w][1] IN
    /\ Mine(w, i) /\ state[i] \in OwnedItem /\ live[i]
    /\ outcome[claim[w]] = "running"

(* activeworkfence: only the live lease of a running attempt may write. *)
ActiveFence(w) ==
    LET i == claim[w][1] IN
    /\ Mine(w, i) /\ state[i] = "running" /\ live[i]
    /\ outcome[claim[w]] = "running"

-----------------------------------------------------------------------------
(* Projection of the job and reconsideration of retry requests, given the  *)
(* job state j, item states s, outcomes o and requests r that the          *)
(* enclosing transaction has arrived at.                                   *)

RefreshedJob(j, s) ==
    LET some(S) == \E i \in Items : s[i] \in S IN
    LifecycleJobState(j, some(ActiveItem), some({"dead_letter"}),
                      some({"cancelled"}), "", FALSE)

JobHold(j) == CASE j = "paused" -> "job-paused"
                [] j \in {"cancelled", "cancel_requested"} -> "job-cancelled"
                [] OTHER -> ""

Disposition(j, s, o, i) ==
    RetryDisposition(s[i], s[i] \in ActiveItem, FALSE, FALSE,
                     MaxAttempts, Spent(o, i), FALSE, JobHold(j))

Requeued(j, s, o, r) ==
    {i \in Items : r[i] = "pending" /\ Disposition(j, s, o, i) = "runnable"}

ReconsideredStates(j, s, o, r) ==
    LET again == Requeued(j, s, o, r) IN
    [i \in Items |-> IF i \in again THEN "queued" ELSE s[i]]

ReconsideredJob(j, s, o, r) ==
    IF /\ Requeued(j, s, o, r) # {}
       /\ j \in {"completed", "completed_with_errors", "failed"}
    THEN "queued" ELSE j

ReconsideredRequests(j, s, o, r) ==
    [i \in Items |->
        IF r[i] = "pending" /\ RequestSettled(Disposition(j, s, o, i))
        THEN "completed" ELSE r[i]]

(* _reconsideritemretries as the last statements of a transaction. *)
Reconsider(j, s, o, r) ==
    /\ jobState' = ReconsideredJob(j, s, o, r)
    /\ state' = ReconsideredStates(j, s, o, r)
    /\ retry' = ReconsideredRequests(j, s, o, r)

(* _refreshjob *)
Refresh(j, s, o, r) == Reconsider(RefreshedJob(j, s), s, o, r)

-----------------------------------------------------------------------------
(* Lease recovery, the first half of claimnext.                            *)

Lapsed == {i \in Items : state[i] \in OwnedItem /\ ~live[i]}

(* The attempts recovery ends: the current one of every lapsed item. *)
Abandoned == {a \in Attempts : /\ outcome[a] = "running"
                               /\ a[2] = fence[a[1]]
                               /\ a[1] \in Lapsed}

(* Fault: the expired attempt is left running. *)
RecoveredOutcomeOpen == outcome

RecoveredOutcome ==
    LET ended == Abandoned IN
    [a \in Attempts |-> IF a \in ended THEN "expired" ELSE outcome[a]]

RecoveredUncertain == uncertain \cup (Abandoned \cap Unanswered)

(* Fault: lease recovery forgets the open reservation. *)
RecoveredClosedNever == closed

(* closeexpiredreservations *)
RecoveredClosed == closed \cup (Abandoned \cap opened)

RecoveredCalls ==
    IF Lapsed = {} THEN reservedCalls ELSE Cardinality(opened \ RecoveredClosed)

Doubtful(i) == \E a \in RecoveredUncertain \cap AttemptsOf(i) : answer[a] = "none"

EverAnswered(i) == \E a \in AttemptsOf(i) : answer[a] # "none"

(* Fault: a requested cancellation is left to the worker that is gone.     *)
RecoveredStatesWithoutCancel ==
    [i \in Items |-> IF i \in Lapsed /\ state[i] = "running" THEN "queued" ELSE state[i]]

RecoveredStates ==
    [i \in Items |->
        CASE i \notin Lapsed -> state[i]
          [] i \in Lapsed /\ state[i] = "cancel_requested" -> "cancelled"
          [] i \in Lapsed /\ state[i] = "running" ->
             IF \/ Doubtful(i)
                \/ Spent(RecoveredOutcome, i) >= MaxAttempts /\ ~EverAnswered(i)
             THEN "dead_letter" ELSE "queued"]

RecoveredOwner == [i \in Items |-> IF i \in Lapsed THEN None ELSE owner[i]]

(* Fault: recovery never finishes a job. *)
DrainedNever == FALSE

(* Recovery refreshes a job that it leaves without active items. *)
Drained ==
    /\ Lapsed # {}
    /\ jobState \in {"running", "queued", "paused", "cancel_requested"}
    /\ \A i \in Items : RecoveredStates[i] \notin ActiveItem

DrainedJob == IF Drained THEN RefreshedJob(jobState, RecoveredStates) ELSE jobState

RecoverLedger ==
    /\ reservedCalls' = RecoveredCalls
    /\ closed' = RecoveredClosed
    /\ uncertain' = RecoveredUncertain
    /\ UNCHANGED <<corrected, run, opened, intent, receipts, answer>>

(* claimnext with claims disabled: recovery alone. *)
RecoverLeases ==
    /\ RecoverLedger
    /\ outcome' = RecoveredOutcome
    /\ owner' = RecoveredOwner
    /\ UNCHANGED <<live, fence>>
    /\ IF Drained
       THEN Refresh(jobState, RecoveredStates, RecoveredOutcome, retry)
       ELSE state' = RecoveredStates /\ UNCHANGED <<jobState, retry>>

(* What a claim sees once recovery and reconsideration are done. *)
OfferedStates == ReconsideredStates(DrainedJob, RecoveredStates, RecoveredOutcome, retry)
OfferedJob    == ReconsideredJob(DrainedJob, RecoveredStates, RecoveredOutcome, retry)
OfferedRequests == ReconsideredRequests(DrainedJob, RecoveredStates, RecoveredOutcome, retry)

(* claimnext finds work: recovery, reconsideration and the claim commit    *)
(* together.                                                               *)
ClaimNext(w) ==
    /\ pc[w] = "idle"
    /\ OfferedJob \in {"queued", "running"}
    /\ \E i \in Items :
         LET a == <<i, fence[i] + 1>> IN
         /\ OfferedStates[i] = "queued"
         /\ fence[i] < MaxFence                               \* model bound
         /\ jobState' = "running"
         /\ state' = [OfferedStates EXCEPT ![i] = "running"]
         /\ retry' = OfferedRequests
         /\ owner' = [RecoveredOwner EXCEPT ![i] = w]
         /\ live' = [live EXCEPT ![i] = TRUE]
         /\ fence' = [fence EXCEPT ![i] = @ + 1]
         /\ outcome' = [RecoveredOutcome EXCEPT ![a] = "running"]
         /\ claim' = [claim EXCEPT ![w] = a]
         /\ pc' = [pc EXCEPT ![w] = "claimed"]
    /\ RecoverLedger
    /\ UNCHANGED <<orig, result, broken>>

(* claimnext finds nothing due, and commits what it recovered. *)
ClaimNothing(w) ==
    /\ pc[w] = "idle"
    /\ jobState' = OfferedJob
    /\ state' = OfferedStates
    /\ retry' = OfferedRequests
    /\ owner' = RecoveredOwner
    /\ outcome' = RecoveredOutcome
    /\ RecoverLedger
    /\ UNCHANGED <<live, fence, workerVars>>

-----------------------------------------------------------------------------
(* One pass of a worker over its claim (_runworkeronce).                   *)

Goto(w, next) ==
    pc' = [pc EXCEPT ![w] = next] /\ UNCHANGED <<claim, orig, result, broken>>

(* The provider result r is known. *)
GotoWith(w, next, r) ==
    /\ pc' = [pc EXCEPT ![w] = next]
    /\ result' = [result EXCEPT ![w] = r]
    /\ UNCHANGED <<claim, orig, broken>>

(* _runworkeronce returns; an error (failed) will end the worker process. *)
Leave(w, failed) ==
    /\ pc' = [pc EXCEPT ![w] = "tail"]
    /\ orig' = [orig EXCEPT ![w] = None]
    /\ result' = [result EXCEPT ![w] = "none"]
    /\ broken' = [broken EXCEPT ![w] = failed]
    /\ UNCHANGED claim

(* recoverproviderresponse considers the latest intent of the item that no *)
(* citation correction has superseded.                                     *)
Recent(i) == {a \in intent \cap AttemptsOf(i) : a[2] > corrected[i]}

Latest(i) == CHOOSE a \in Recent(i) : \A b \in Recent(i) : b[2] <= a[2]

ReceiptState(w) ==
    LET i == claim[w][1] IN
    IF Recent(i) = {} THEN "fresh"
    ELSE IF answer[Latest(i)] = "none"
         THEN IF Latest(i) # claim[w] /\ RetryRequested(i)
              THEN "fresh" ELSE "unanswered"
    ELSE IF answer[Latest(i)] = "failed" /\ Latest(i) \in receipts
         THEN "fresh"      \* a settled transport failure may be retried
    ELSE "reuse"

ReadReceipt(w) ==
    /\ pc[w] = "claimed"
    /\ CASE ReceiptState(w) = "fresh"      -> Goto(w, "reserve")
         [] ReceiptState(w) = "unanswered" -> Goto(w, "unanswered")
         [] ReceiptState(w) = "reuse" ->
              /\ pc' = [pc EXCEPT ![w] = "process"]
              /\ orig' = [orig EXCEPT ![w] = Latest(claim[w][1])]
              /\ UNCHANGED <<claim, result, broken>>
    /\ UNCHANGED tables

(* The budget policy of the job, or the reservation the item asks for, is  *)
(* missing or malformed: the attempt is failed and the worker stops.       *)
PolicyUnavailable(w) ==
    /\ pc[w] = "claimed" /\ ReceiptState(w) # "unanswered"
    /\ GotoWith(w, "denied", "refused")
    /\ UNCHANGED tables

(* The two dimensions of the reservation that the model keeps. *)
AdmissionRank ==
    LET runs    == Cardinality({run[a] : a \in Attempts} \ {None})
        pending == Cardinality({a \in opened \ closed : run[a] = None})
        unknown == Cardinality({a \in Unanswered \cap opened \cap closed : run[a] = None})
    IN  Worst(Rank(InflightCeiling, 0, reservedCalls, 0, 1, FALSE),
              Rank(CallBudget, runs, pending, unknown, 1, FALSE))

Admissible(w) ==
    /\ ActiveFence(w) /\ claim[w] \notin opened /\ ~RetryBlocked(claim[w][1])

(* reservecall *)
Reserve(w) ==
    /\ pc[w] = "reserve" /\ Admissible(w) /\ AdmissionState(AdmissionRank) = "admitted"
    /\ opened' = opened \cup {claim[w]}
    /\ reservedCalls' = reservedCalls + 1
    /\ Goto(w, "process")
    /\ UNCHANGED <<jobState, itemVars, outcome, run, closed, intent, uncertain,
                   receipts, answer>>

(* Ends w's hold on its item: the item becomes next, its attempt ended.    *)
Settled(w, next, ended) ==
    LET a == claim[w] IN
    /\ outcome' = [outcome EXCEPT ![a] = ended]
    /\ owner' = [owner EXCEPT ![a[1]] = None]
    /\ live' = [live EXCEPT ![a[1]] = FALSE]
    /\ Refresh(jobState, [state EXCEPT ![a[1]] = next],
               [outcome EXCEPT ![a] = ended], retry)
    /\ UNCHANGED <<reservedCalls, fence, run>>

(* _deferuncalledclaim: the capacity is only held by peers. *)
Defer(w) ==
    /\ pc[w] = "reserve" /\ Admissible(w) /\ AdmissionState(AdmissionRank) = "waiting"
    /\ Settled(w, "queued", "cancelled")
    /\ Leave(w, FALSE)
    /\ UNCHANGED <<corrected, ledgerVars>>

Deny(w) ==
    /\ pc[w] = "reserve"
    /\ \/ ~Admissible(w)
       \/ AdmissionState(AdmissionRank) \notin {"admitted", "waiting"}
    /\ Goto(w, "denied")
    /\ UNCHANGED tables

(* BEGIN IMMEDIATE ran into a busy writer: nothing was read or asked for. *)
ReserveBusy(w) ==
    /\ pc[w] = "reserve"
    /\ GotoWith(w, "denied", "deferred")
    /\ UNCHANGED tables

(* process() reads the receipt again before it asks for an admission. *)
Process(w) ==
    /\ pc[w] = "process"
    /\ CASE ReceiptState(w) = "fresh"      -> Goto(w, "admit")
         [] ReceiptState(w) = "unanswered" -> GotoWith(w, "settle", "refused")
         [] ReceiptState(w) = "reuse" ->
              GotoWith(w, "settle", answer[Latest(claim[w][1])])
    /\ UNCHANGED tables

(* No call is made: admitprovidercall asks for a delay, or configuration,  *)
(* credentials or the admission itself fail.                               *)
PreventCall(w) ==
    /\ pc[w] = "admit"
    /\ \E r \in {"deferred", "refused"} : GotoWith(w, "settle", r)
    /\ UNCHANGED tables

(* Fault: the stored vector is used without settling the reservation. *)
UseStoredVectorUnsettled(w) ==
    /\ pc[w] = "admit" /\ claim[w][1] \in Embeddings
    /\ GotoWith(w, "decide", "cached")
    /\ UNCHANGED tables

(* _cachedembedding: the vector of this text is stored already.  The pass  *)
(* succeeds without a call, and is settled without a provider run.         *)
UseStoredVector(w) ==
    /\ pc[w] = "admit" /\ claim[w][1] \in Embeddings
    /\ GotoWith(w, "settle", "cached")
    /\ UNCHANGED tables

(* Fault: the intent is recorded whoever holds the item by now. *)
BeginRequestUnfenced(w) ==
    /\ pc[w] = "admit"
    /\ intent' = intent \cup {claim[w]}
    /\ Goto(w, "calling")
    /\ UNCHANGED <<jobVars, itemVars, outcome, run, opened, closed, uncertain,
                   receipts, answer>>

(* beginproviderrequest: the durable intent precedes the call. *)
BeginRequest(w) ==
    /\ pc[w] = "admit"
    /\ IF ActiveFence(w)
       THEN intent' = intent \cup {claim[w]} /\ Goto(w, "calling")
       ELSE UNCHANGED intent /\ GotoWith(w, "settle", "refused")
    /\ UNCHANGED <<jobVars, itemVars, outcome, run, opened, closed, uncertain,
                   receipts, answer>>

(* recordproviderresponse: the answer belongs to its intent, however late. *)
(* An embedding cites nothing.                                             *)
RecordResponse(w) ==
    /\ pc[w] = "calling"
    /\ \E v \in Verdicts :
         /\ v = "uncited" => claim[w][1] \notin Embeddings
         /\ answer' = [answer EXCEPT ![claim[w]] = v]
         /\ GotoWith(w, "settle", v)
    /\ UNCHANGED <<jobVars, itemVars, outcome, run, opened, closed, intent,
                   uncertain, receipts>>

(* The envelope arrived but could not be stored. *)
LoseResponse(w) ==
    /\ pc[w] = "calling"
    /\ Goto(w, "uncertain")
    /\ UNCHANGED tables

(* The uncertainty hold: known usage stays with the attempt, the item's    *)
(* lease ends at once.                                                     *)
HoldUncertain(w) ==
    /\ pc[w] = "uncertain"
    /\ IF claim[w] \in opened
       THEN /\ run' = [run EXCEPT ![claim[w]] = IF @ = None THEN claim[w] ELSE @]
            /\ uncertain' = uncertain \cup {claim[w]}
            /\ live' = [live EXCEPT ![claim[w][1]] = @ /\ ~Mine(w, claim[w][1])]
            /\ Goto(w, "recover")
       ELSE Leave(w, TRUE) /\ UNCHANGED <<run, uncertain, live>>
    /\ UNCHANGED <<jobVars, state, owner, fence, corrected, retry, outcome,
                   opened, closed, intent, receipts, answer>>

RecoverAfterHold(w) ==
    /\ pc[w] = "recover"
    /\ RecoverLeases
    /\ Leave(w, TRUE)

(* Fault: a settlement releases capacity that recovery has released.       *)
SettleCallAgain(a, called) ==
    /\ receipts' = receipts \cup {a}
    /\ run' = [run EXCEPT ![a] = IF called THEN a ELSE @]
    /\ closed' = closed \cup {a} /\ reservedCalls' = reservedCalls - 1

(* settlecall for the reservation of attempt a.  It asks for no fence: the *)
(* durable original attempt authorises accounting after its lease.         *)
SettleCall(a, called) ==
    /\ receipts' = receipts \cup {a}
    /\ run' = [run EXCEPT ![a] = IF called THEN a ELSE @]
    /\ IF a \in closed THEN UNCHANGED <<closed, reservedCalls>>
       ELSE closed' = closed \cup {a} /\ reservedCalls' = reservedCalls - 1

Settle(w) ==
    /\ pc[w] = "settle" /\ orig[w] = None
    /\ IF claim[w] \notin receipts
       THEN SettleCall(claim[w], result[w] \in Verdicts) /\ Goto(w, "decide")
       ELSE /\ UNCHANGED <<receipts, run, closed, reservedCalls>>
            /\ \/ Goto(w, "decide")     \* an exact duplicate
               \/ Leave(w, TRUE)        \* a conflicting one
    /\ UNCHANGED <<jobState, itemVars, outcome, opened, intent, uncertain, answer>>

(* recoverprovideraccounting, first half: settle the original attempt if   *)
(* its own worker has not.                                                 *)
SettleOriginal(w) ==
    /\ pc[w] = "settle" /\ orig[w] # None
    /\ CASE run[orig[w]] # None ->
              Goto(w, "link") /\ UNCHANGED <<receipts, run, closed, reservedCalls>>
         [] run[orig[w]] = None /\ orig[w] \in opened \ receipts ->
              SettleCall(orig[w], result[w] \in Verdicts) /\ Goto(w, "link")
         [] run[orig[w]] = None /\ orig[w] \notin opened \ receipts ->
              Leave(w, TRUE) /\ UNCHANGED <<receipts, run, closed, reservedCalls>>
    /\ UNCHANGED <<jobState, itemVars, outcome, opened, intent, uncertain, answer>>

(* Fault: the reusing attempt goes on without the link. *)
LinkReceiptNot(w) ==
    /\ pc[w] = "link"
    /\ Goto(w, "decide")
    /\ UNCHANGED tables

(* Second half: the reusing attempt is linked to the original's run.  An   *)
(* original settled without one has none to name, and the foreign key      *)
(* refuses the link.                                                       *)
LinkReceipt(w) ==
    /\ pc[w] = "link"
    /\ IF ActiveFence(w) /\ (run[claim[w]] # None \/ run[orig[w]] # None)
       THEN /\ run' = [run EXCEPT ![claim[w]] = IF @ = None THEN run[orig[w]] ELSE @]
            /\ Goto(w, "decide")
       ELSE Leave(w, TRUE) /\ UNCHANGED run
    /\ UNCHANGED <<jobVars, itemVars, outcome, ledgerVars>>

(* Accounting is done; a cancelled or late pass publishes nothing. *)
Decide(w) ==
    /\ pc[w] = "decide"
    /\ IF state[claim[w][1]] # "cancel_requested" /\ ActiveFence(w)
       THEN Goto(w, "finish")
       ELSE Leave(w, FALSE)
    /\ UNCHANGED tables

-----------------------------------------------------------------------------
(* The ends of a pass: failattempt, the publications, skipitem, and the    *)
(* acknowledgement of a cancellation.                                      *)

(* failattempt under an active fence.  An uncalled attempt is not counted; *)
(* one citation correction is granted outside the attempt ceiling.         *)
Failed(w, retryable, uncalled, citation) ==
    LET a == claim[w]
        i == a[1]
        correct == citation /\ corrected[i] = 0 /\ EverAnswered(i)
        spared  == uncalled /\ retryable
        again   == \/ correct
                   \/ /\ spared \/ (retryable /\ Spent(outcome, i) < MaxAttempts)
                      /\ uncalled \/ corrected[i] = 0
    IN  /\ Settled(w, IF again THEN "queued" ELSE "dead_letter",
                      IF ~again THEN "dead_letter"
                      ELSE IF spared THEN "cancelled" ELSE "failed")
        /\ corrected' = [corrected EXCEPT ![i] = IF correct THEN a[2] ELSE @]

(* The intent of an earlier attempt is unanswered: the item is held. *)
FailUnanswered(w) ==
    /\ pc[w] = "unanswered"
    /\ IF ActiveFence(w)
       THEN Failed(w, FALSE, FALSE, FALSE) /\ Leave(w, FALSE)
       ELSE UNCHANGED <<jobVars, itemVars, outcome, run>> /\ Leave(w, TRUE)
    /\ UNCHANGED ledgerVars

(* The reservation was denied, or no policy to reserve by was found (the   *)
(* one that is not retried); the worker stops either way.                  *)
FailDenied(w) ==
    /\ pc[w] = "denied"
    /\ IF ActiveFence(w)
       THEN Failed(w, result[w] # "refused", result[w] = "deferred", FALSE)
       ELSE UNCHANGED <<jobVars, itemVars, outcome, run>>
    /\ Leave(w, TRUE)
    /\ UNCHANGED ledgerVars

(* The pass has something to publish. *)
Usable(w) == result[w] \in {"accepted", "cached"}

(* The provider result was not usable.  A settled transport failure may be *)
(* retryable; rejected content is not.  Only the embedding and resolution  *)
(* paths (among "invalid") go on after failattempt lost its fence.         *)
FailResult(w) ==
    /\ pc[w] = "finish" /\ ~Usable(w)
    /\ IF ActiveFence(w)
       THEN /\ \E retryable \in CASE result[w] = "failed"   -> BOOLEAN
                                [] result[w] = "deferred" -> {TRUE}
                                [] OTHER                  -> {FALSE} :
                 Failed(w, retryable, result[w] = "deferred", result[w] = "uncited")
            /\ Leave(w, FALSE)
       ELSE /\ \E lost \in IF result[w] = "invalid" THEN BOOLEAN ELSE {TRUE} :
                 Leave(w, lost)
            /\ UNCHANGED <<jobVars, itemVars, outcome, run>>
    /\ UNCHANGED ledgerVars

(* Publication: graph or vector, attempt and item in one fenced            *)
(* transaction; the manifest of a graph is written after its commit and    *)
(* may fail.                                                               *)
Publish(w) ==
    /\ pc[w] = "finish" /\ Usable(w) /\ ActiveFence(w)
    /\ Settled(w, "processed", "succeeded")
    /\ \E stale \in BOOLEAN :
         (stale => claim[w][1] \notin Embeddings) /\ Leave(w, stale)
    /\ UNCHANGED <<corrected, ledgerVars>>

(* skipitem: the answer supports no claim. *)
Skip(w) ==
    /\ pc[w] = "finish" /\ Usable(w) /\ claim[w][1] \notin Embeddings
    /\ IF ActiveFence(w)
       THEN Settled(w, "skipped", "skipped") /\ Leave(w, FALSE)
       ELSE UNCHANGED <<jobVars, state, owner, live, fence, retry, outcome, run>>
            /\ Leave(w, TRUE)
    /\ UNCHANGED <<corrected, ledgerVars>>

(* The publication is rolled back: a batch or proposal is retried by       *)
(* failattempt, an embedding promotion stops the worker.                   *)
PublicationFails(w) ==
    /\ pc[w] = "finish" /\ Usable(w)
    /\ \/ claim[w][1] \notin Embeddings /\ Goto(w, "retry")
       \/ Leave(w, TRUE)
    /\ UNCHANGED tables

FailPublication(w) ==
    /\ pc[w] = "retry"
    /\ IF ActiveFence(w)
       THEN Failed(w, TRUE, FALSE, FALSE) /\ Leave(w, FALSE)
       ELSE UNCHANGED <<jobVars, itemVars, outcome, run>> /\ Leave(w, TRUE)
    /\ UNCHANGED ledgerVars

(* Back to the worker loop, or out of it when the pass ended in an error. *)
Return(w, failed) ==
    /\ pc' = [pc EXCEPT ![w] = IF failed THEN "exited" ELSE "idle"]
    /\ claim' = [claim EXCEPT ![w] = None]
    /\ orig' = [orig EXCEPT ![w] = None]
    /\ result' = [result EXCEPT ![w] = "none"]
    /\ broken' = [broken EXCEPT ![w] = FALSE]

(* runworkeronce: reads, outside any transaction and by item rather than   *)
(* by fence, whether a cancellation awaits this attempt.                   *)
CancelPending(w) == state[claim[w][1]] = "cancel_requested" /\ claim[w] \notin opened \ closed

SeeCancel(w) ==
    /\ pc[w] = "tail" /\ CancelPending(w)
    /\ Goto(w, "acknowledge")
    /\ UNCHANGED tables

EndPass(w) ==
    /\ pc[w] = "tail" /\ ~CancelPending(w)
    /\ Return(w, broken[w])
    /\ UNCHANGED tables

(* acknowledgecancel checks the fence but not the lease. *)
AcknowledgeCancel(w) ==
    /\ pc[w] = "acknowledge"
    /\ LET i == claim[w][1] IN
       IF Mine(w, i) /\ state[i] = "cancel_requested" /\ outcome[claim[w]] = "running"
       THEN Settled(w, "cancelled", "cancelled") /\ Return(w, FALSE)
       ELSE Return(w, TRUE) /\ UNCHANGED <<jobVars, state, owner, live, fence, retry, outcome, run>>
    /\ UNCHANGED <<corrected, ledgerVars>>

-----------------------------------------------------------------------------
(* The end of a worker process, and the controller that observes it.       *)

Running(w) == pc[w] \notin {"exited", "released", "gone"}

(* A stop between passes, a kill or a crash anywhere. *)
Exit(w) ==
    /\ Running(w)
    /\ Return(w, TRUE)
    /\ UNCHANGED tables

(* recoverworkerclaims, first transaction: the leases of the exited worker *)
(* end now.                                                                *)
ReleaseExited(w) ==
    /\ pc[w] = "exited"
    /\ live' = [i \in Items |-> live[i] /\ ~(owner[i] = w /\ state[i] \in OwnedItem)]
    /\ Goto(w, "released")
    /\ UNCHANGED <<jobVars, state, owner, fence, corrected, retry, outcome, run, ledgerVars>>

(* Second transaction: recovery without a claim. *)
RecoverExited(w) ==
    /\ pc[w] = "released"
    /\ RecoverLeases
    /\ Goto(w, "gone")

(* lease_until passes. *)
LeaseLapses(i) ==
    /\ live[i]
    /\ live' = [live EXCEPT ![i] = FALSE]
    /\ UNCHANGED <<jobVars, state, owner, fence, corrected, retry, outcome, run,
                   ledgerVars, workerVars>>

-----------------------------------------------------------------------------
(* Operator commands.                                                      *)

Elsewhere == <<reservedCalls, owner, live, fence, corrected, outcome, run, ledgerVars, workerVars>>

RequestCancel ==
    /\ ~TerminalJob(jobState) /\ jobState # "cancel_requested"
    /\ Refresh("cancel_requested",
               [i \in Items |-> CASE state[i] = "queued"  -> "cancelled"
                                  [] state[i] = "running" -> "cancel_requested"
                                  [] OTHER                -> state[i]],
               outcome, retry)
    /\ UNCHANGED Elsewhere

PauseJob ==
    /\ jobState \in {"queued", "running"}
    /\ jobState' = "paused"
    /\ UNCHANGED <<state, retry, Elsewhere>>

(* A resumed job that has only held work returns to its hold. *)
ResumeJob ==
    /\ jobState = "paused"
    /\ IF \E i \in Items : state[i] \in ActiveItem
       THEN jobState' = "queued" /\ UNCHANGED <<state, retry>>
       ELSE Refresh("queued", state, outcome, retry)
    /\ UNCHANGED Elsewhere

(* An explicit retry of one item; a second request for it joins the first. *)
RetryDeadLetter(i) ==
    /\ Reconsider(jobState, state, outcome,
                  [retry EXCEPT ![i] = IF @ = "none" THEN "pending" ELSE @])
    /\ UNCHANGED Elsewhere

-----------------------------------------------------------------------------
Claim(w) == ClaimNext(w) \/ ClaimNothing(w)

(* One step of a worker between its claim and its return to the loop. *)
Pass(w) ==
    \/ ReadReceipt(w)   \/ PolicyUnavailable(w)
    \/ Reserve(w)       \/ Defer(w)
    \/ Deny(w)          \/ ReserveBusy(w)     \/ Process(w)
    \/ PreventCall(w)   \/ UseStoredVector(w)
    \/ BeginRequest(w)  \/ RecordResponse(w)
    \/ LoseResponse(w)  \/ HoldUncertain(w)   \/ RecoverAfterHold(w)
    \/ Settle(w)        \/ SettleOriginal(w)  \/ LinkReceipt(w)
    \/ Decide(w)        \/ FailUnanswered(w)  \/ FailDenied(w)
    \/ FailResult(w)    \/ Publish(w)         \/ Skip(w)
    \/ PublicationFails(w) \/ FailPublication(w)
    \/ SeeCancel(w)     \/ EndPass(w)         \/ AcknowledgeCancel(w)

Reap(w) == ReleaseExited(w) \/ RecoverExited(w)

Operator ==
    \/ RequestCancel \/ PauseJob \/ ResumeJob
    \/ \E i \in Items : RetryDeadLetter(i)

Next ==
    \/ \E w \in Workers : Claim(w) \/ Pass(w) \/ Exit(w) \/ Reap(w)
    \/ \E i \in Items : LeaseLapses(i)
    \/ Operator

Spec == Init /\ [][Next]_vars

(* A running worker keeps polling and takes its next step, the controller  *)
(* reaps what has exited, and time passes.  Nothing obliges a worker to    *)
(* exit or an operator to act.                                             *)
Fairness ==
    /\ \A w \in Workers : WF_vars(Claim(w)) /\ WF_vars(Pass(w)) /\ WF_vars(Reap(w))
    /\ \A i \in Items : WF_vars(LeaseLapses(i))

FairSpec == Spec /\ Fairness

-----------------------------------------------------------------------------
(* Safety.                                                                 *)

(* An item belongs to at most one attempt: it has an owner exactly while   *)
(* an attempt of its current fence is running, and two workers never hold  *)
(* the same fenced claim, however leases lapse and processes exit          *)
(* (claimnext, activeworkfence).                                           *)
SingleOwner ==
    /\ \A i \in Items : (owner[i] # None) <=> (state[i] \in OwnedItem)
    /\ \A a \in Attempts :
          outcome[a] = "running" <=> state[a[1]] \in OwnedItem /\ fence[a[1]] = a[2]
    /\ \A w, x \in Workers : w # x /\ claim[w] # None => claim[w] # claim[x]

(* The counter of the jobs row agrees with the event ledger, and capacity  *)
(* is held only by attempts still running, so no path out of a claim leaks *)
(* a reservation (reservecall, settlecall, closeexpiredreservations).      *)
LedgerBalanced ==
    /\ closed \subseteq opened
    /\ reservedCalls = Cardinality(opened \ closed)
    /\ \A a \in opened \ closed : outcome[a] = "running"

(* The job row never drifts from its items: a terminal job has no active   *)
(* item, an unfinished one that is not held has, and a cancellation waits  *)
(* for exactly the items whose workers must still acknowledge it           *)
(* (lifecyclejobstate, requestcancel, the recovery of claimnext).          *)
JobMatchesItems ==
    LET active == {i \in Items : state[i] \in ActiveItem} IN
    /\ TerminalJob(jobState) => active = {}
    /\ jobState \in {"queued", "running"} => active # {}
    /\ jobState = "cancel_requested" =>
          active # {} /\ \A i \in active : state[i] = "cancel_requested"

(* What a finished attempt rests on. *)
FromStored(a) == a[1] \in Embeddings /\ a \notin intent

AnsweredSince(a) ==
    \E f \in corrected[a[1]] + 1 .. a[2] : answer[<<a[1], f>>] = "accepted"

(* Nothing is published before its usage is settled, and what is published *)
(* answers the item as it now stands.  A finished attempt is linked to the *)
(* settled run of an attempt of its item, its own or an earlier one, and   *)
(* rests on an accepted answer given since the last citation correction;   *)
(* only an embedding may rest on a stored vector instead, and then it made *)
(* no request, and has no run only where its own reservation was settled   *)
(* (settlecall, recoverprovideraccounting, recoverproviderresponse,        *)
(* _cachedembedding).                                                      *)
PublishedIsAccounted ==
    \A a \in Attempts :
        outcome[a] \in {"succeeded", "skipped"} =>
            \/ FromStored(a) /\ run[a] = None /\ a \in receipts
            \/ /\ run[a] \in receipts \cap AttemptsOf(a[1])
               /\ run[a][2] <= a[2] /\ run[run[a]] = run[a]
               /\ FromStored(a) \/ AnsweredSince(a)

(* A request is not repeated blindly: an attempt of an item that has an    *)
(* unanswered request makes another only when the operator has asked for a *)
(* retry (recoverproviderresponse, reservecall, retrydeadletter).          *)
NoBlindRepeat ==
    [][\A a \in intent' \ intent :
          Unanswered \cap AttemptsOf(a[1]) # {} => RetryRequested(a[1])]_vars

(* Once a cancellation is requested no call of the job begins, nothing of  *)
(* it is published, and the job cannot be revived (requestcancel and the   *)
(* fences of every writer).                                                *)
CancelBarrier ==
    [][(jobState \in {"cancel_requested", "cancelled"}) =>
          /\ intent' = intent
          /\ jobState' \in {"cancel_requested", "cancelled"}
          /\ \A i \in Items : state'[i] \in DoneItem => state[i] \in DoneItem]_vars

(* Recovery, retries and late workers never undo what is finished: a       *)
(* finished item, an ended attempt, an answer and a run link stay as they  *)
(* are, and an attempt ends before its item is claimed again.              *)
HistoryIsImmutable ==
    [][/\ \A i \in Items : state[i] \in DoneItem => state'[i] = state[i]
       /\ \A a \in Attempts :
            /\ outcome[a] \notin {"none", "running"} => outcome'[a] = outcome[a]
            /\ answer[a] # "none" => answer'[a] = answer[a]
            /\ run[a] # None => run'[a] = run[a]]_vars

(* The abstract specification, and how its state is found in the tables.   *)
Holder == [i \in Items |-> IF state[i] \in OwnedItem THEN fence[i] ELSE 0]

Winners ==
    [i \in Items |->
        {f \in 1 .. MaxFence : outcome[<<i, f>>] \in {"succeeded", "skipped"}}]

Promise == INSTANCE ItemPromise WITH holder <- Holder, last <- fence, winners <- Winners

(* The queue keeps its promise of exclusive, numbered attempts of which at *)
(* most one finishes the item.                                             *)
KeepsPromise == Promise!PromiseSpec

-----------------------------------------------------------------------------
(* Liveness.                                                               *)

(* A requested cancellation is completed, whatever its workers are doing.  *)
CancelCompletes == jobState = "cancel_requested" ~> jobState = "cancelled"

(* Every reservation is given back, by settlement or by recovery.          *)
ReservationsReturn == \A a \in Attempts : a \in opened ~> a \in closed

-----------------------------------------------------------------------------
(* A statement made of the code in a comment that it does not keep in      *)
(* every interleaving.                                                     *)

(* "Once requested, a failed correction cannot trigger another paid retry":*)
(* at most one reserved call follows a citation correction (failattempt).  *)
CorrectionIsLast ==
    \A i \in Items : corrected[i] > 0 =>
        Cardinality({a \in intent \cap opened \cap AttemptsOf(i) : a[2] > corrected[i]}) <= 1

=============================================================================
