-------------------------- MODULE WorkQueueProofs --------------------------
(***************************************************************************)
(* Proofs about WorkQueue, for every set of items and workers and every    *)
(* value of the ceilings, and about the admission decision it takes.       *)
(***************************************************************************)
EXTENDS WorkQueue, FiniteSetTheorems, WellFoundedInduction, TLAPS

(* Attempts are numbered by the claims of their item: no row of an attempt *)
(* exists before the claim that names it.                                  *)
Numbered ==
    /\ \A a \in Attempts : outcome[a] # "none" <=> a[2] <= fence[a[1]]
    /\ \A a \in opened : outcome[a] # "none"
    /\ \A w \in Workers : claim[w] # None => claim[w][2] <= fence[claim[w][1]]
    /\ \A i \in Items : state[i] \in OwnedItem => fence[i] # 0

(* What the place of a worker in its pass says of its claim and of the     *)
(* reservation it made for it.                                             *)
Pledged ==
    \A w \in Workers :
        /\ pc[w] \notin {"idle", "exited", "released", "gone"} => claim[w] # None
        /\ pc[w] \in {"idle", "claimed", "reserve"} => orig[w] = None
        /\ pc[w] = "link" => orig[w] # None
        /\ pc[w] \in {"claimed", "unanswered", "reserve", "denied"} =>
              claim[w] \notin opened
        /\ orig[w] # None => claim[w] \notin opened
        /\ pc[w] \in {"process", "admit", "calling", "settle"} /\ orig[w] = None =>
              claim[w] \in opened
        /\ pc[w] \in {"link", "decide", "finish", "retry", "acknowledge"} =>
              claim[w] \notin opened \ closed

IInv ==
    /\ TypeOK
    /\ SingleOwner
    /\ LedgerBalanced
    /\ receipts \subseteq closed
    /\ Numbered
    /\ Pledged

-----------------------------------------------------------------------------
(* Finite sets and the choice of the latest attempt.                       *)

(* The model bound on claims makes the attempts of the job finitely        *)
(* many.                                                                   *)
LEMMA AttemptsFinite == IsFiniteSet(Attempts)
  <1>1. IsFiniteSet(1 .. MaxFence)
    BY FS_Interval, WorkAssumption
  <1> QED
    BY <1>1, FS_Product, WorkAssumption DEF Attempts

(* A non-empty set of fences has a greatest one. *)
LEMMA GreatestFence ==
  ASSUME NEW S \in SUBSET (1 .. MaxFence), S # {}
  PROVE  \E m \in S : \A n \in S : n <= m
  <1> DEFINE R == {ss \in Nat \X Nat : ss[1] < ss[2]}
             T == {MaxFence - n : n \in S}
  <1>1. IsWellFoundedOn(R, Nat)
    BY NatLessThanWellFounded DEF OpToRel
  <1>2. T \subseteq Nat /\ T # {}
    <2>1. MaxFence \in Nat
      BY WorkAssumption
    <2>2. \A n \in S : MaxFence - n \in Nat
      BY <2>1
    <2>3. PICK n \in S : TRUE
      OBVIOUS
    <2>4. MaxFence - n \in T
      OBVIOUS
    <2> QED
      BY <2>2, <2>4
  <1> HIDE DEF R
  <1>3. PICK x \in T : \A y \in T : ~(<<y, x>> \in R)
    BY <1>1, <1>2, WFMin
  <1>4. PICK m \in S : x = MaxFence - m
    BY <1>3
  <1>5. ASSUME NEW n \in S PROVE n <= m
    <2>1. MaxFence - n \in T /\ MaxFence - m \in T
      BY <1>4
    <2>2. ~(<<MaxFence - n, MaxFence - m>> \in R)
      BY <1>3, <1>4, <2>1
    <2>3. ~(MaxFence - n < MaxFence - m)
      BY <2>1, <2>2, <1>2 DEF R
    <2> QED
      BY <2>3, WorkAssumption
  <1> QED
    BY <1>5

(* recoverproviderresponse always finds the latest of the recent attempts. *)
LEMMA LatestIsRecent ==
  ASSUME NEW i \in Items, Recent(i) # {}
  PROVE  Latest(i) \in Recent(i) /\ \A b \in Recent(i) : b[2] <= Latest(i)[2]
  <1> DEFINE S == {n \in 1 .. MaxFence : <<i, n>> \in Recent(i)}
  <1>1. Recent(i) \subseteq {i} \X (1 .. MaxFence)
    BY DEF Recent, AttemptsOf
  <1>2. S # {}
    BY <1>1
  <1>3. PICK m \in S : \A n \in S : n <= m
    BY <1>2, GreatestFence
  <1>4. <<i, m>> \in Recent(i) /\ \A b \in Recent(i) : b[2] <= <<i, m>>[2]
    BY <1>1, <1>3
  <1> QED
    BY <1>4 DEF Latest

-----------------------------------------------------------------------------
(* The projection of the job and the reconsideration of retry requests.    *)

RetryStates == {"none", "pending", "completed"}

(* lifecyclejobstate yields a job state. *)
LEMMA LifecycleType ==
  ASSUME NEW j \in JobStates, NEW active, NEW dead, NEW cancelled, NEW incomplete
  PROVE  LifecycleJobState(j, active, dead, cancelled, "", incomplete) \in JobStates
  BY DEF LifecycleJobState, JobStates

(* _refreshjob leaves a job state in the jobs row. *)
LEMMA RefreshedType ==
  ASSUME NEW j \in JobStates, NEW s
  PROVE  RefreshedJob(j, s) \in JobStates
  BY LifecycleType DEF RefreshedJob

(* Only an item that nobody owns and that is not finished is queued again. *)
LEMMA RequeuedAreDead ==
  ASSUME NEW j, NEW s \in [Items -> ItemStates], NEW o, NEW r, NEW i \in Requeued(j, s, o, r)
  PROVE  s[i] \in {"dead_letter", "cancelled"}
  BY DEF Requeued, Disposition, RetryDisposition, ItemStates, ActiveItem, DoneItem

(* _reconsideritemretries keeps the tables typed and only requeues dead    *)
(* letters.                                                                *)
LEMMA ReconsideredFacts ==
  ASSUME NEW j \in JobStates, NEW s \in [Items -> ItemStates], NEW o,
         NEW r \in [Items -> RetryStates]
  PROVE  /\ ReconsideredJob(j, s, o, r) \in JobStates
         /\ ReconsideredStates(j, s, o, r) \in [Items -> ItemStates]
         /\ ReconsideredRequests(j, s, o, r) \in [Items -> RetryStates]
         /\ \A i \in Items :
              \/ ReconsideredStates(j, s, o, r)[i] = s[i]
              \/ /\ s[i] \in {"dead_letter", "cancelled"}
                 /\ ReconsideredStates(j, s, o, r)[i] = "queued"
  <1>1. ReconsideredJob(j, s, o, r) \in JobStates
    BY DEF ReconsideredJob, JobStates
  <1>2. ReconsideredStates(j, s, o, r) \in [Items -> ItemStates]
    BY DEF ReconsideredStates, ItemStates
  <1>3. ReconsideredRequests(j, s, o, r) \in [Items -> RetryStates]
    BY DEF ReconsideredRequests, RetryStates
  <1>4. ASSUME NEW i \in Items
        PROVE  \/ ReconsideredStates(j, s, o, r)[i] = s[i]
               \/ /\ s[i] \in {"dead_letter", "cancelled"}
                  /\ ReconsideredStates(j, s, o, r)[i] = "queued"
    BY RequeuedAreDead DEF ReconsideredStates
  <1> QED
    BY <1>1, <1>2, <1>3, <1>4

-----------------------------------------------------------------------------
(* Lease recovery.                                                         *)

(* Recovery ends the attempts of the lapsed items and no other.            *)
LEMMA RecoveredAttempts ==
  ASSUME TypeOK, SingleOwner
  PROVE  /\ Abandoned \subseteq Attempts
         /\ \A a \in Attempts : a \in Abandoned <=>
               outcome[a] = "running" /\ a[1] \in Lapsed
         /\ \A a \in Abandoned : outcome[a] = "running" /\ RecoveredOutcome[a] = "expired"
         /\ \A a \in Attempts \ Abandoned : RecoveredOutcome[a] = outcome[a]
         /\ RecoveredOutcome \in [Attempts -> {"none", "running", "succeeded", "skipped",
                       "failed", "dead_letter", "expired", "cancelled"}]
  <1>1. \A a \in Attempts : outcome[a] = "running" => fence[a[1]] = a[2]
    BY DEF SingleOwner
  <1>2. \A a \in Attempts : a \in Abandoned <=> outcome[a] = "running" /\ a[1] \in Lapsed
    BY <1>1 DEF Abandoned
  <1>3. Abandoned \subseteq Attempts
    BY DEF Abandoned
  <1>4. RecoveredOutcome \in [Attempts -> {"none", "running", "succeeded", "skipped",
                       "failed", "dead_letter", "expired", "cancelled"}]
    BY DEF RecoveredOutcome, TypeOK
  <1>5. \A a \in Attempts : RecoveredOutcome[a] = IF a \in Abandoned THEN "expired" ELSE outcome[a]
    BY DEF RecoveredOutcome
  <1> QED
    BY <1>2, <1>3, <1>4, <1>5

(* A lapsed item is left without an owner.                                 *)
LEMMA RecoveredItems ==
  ASSUME TypeOK, SingleOwner
  PROVE  /\ RecoveredStates \in [Items -> ItemStates]
         /\ RecoveredOwner \in [Items -> Workers \cup {None}]
         /\ \A i \in Items \ Lapsed : /\ RecoveredStates[i] = state[i]
                                      /\ RecoveredOwner[i] = owner[i]
         /\ \A i \in Lapsed : /\ state[i] \in OwnedItem
                              /\ RecoveredStates[i] \in {"queued", "dead_letter", "cancelled"}
                              /\ RecoveredOwner[i] = None
  <1>1. \A i \in Items : i \in Lapsed => state[i] \in {"running", "cancel_requested"}
    BY DEF Lapsed, OwnedItem
  <1>2. ASSUME NEW i \in Items \ Lapsed PROVE RecoveredStates[i] = state[i]
    BY DEF RecoveredStates
  <1>3. ASSUME NEW i \in Lapsed
        PROVE  RecoveredStates[i] \in {"queued", "dead_letter", "cancelled"}
    <2>1. i \in Items
      BY DEF Lapsed
    <2>2. CASE state[i] = "cancel_requested"
      BY <2>1, <2>2 DEF RecoveredStates
    <2>3. CASE state[i] = "running"
      BY <2>1, <2>3 DEF RecoveredStates
    <2> QED
      BY <1>1, <2>1, <2>2, <2>3
  <1>4. \A i \in Items : RecoveredStates[i] \in ItemStates
    BY <1>2, <1>3 DEF TypeOK, ItemStates
  <1>5. RecoveredStates \in [Items -> ItemStates]
    BY <1>4 DEF RecoveredStates
  <1>6. Lapsed \subseteq Items
    BY DEF Lapsed
  <1>7. /\ RecoveredOwner \in [Items -> Workers \cup {None}]
        /\ \A i \in Items : RecoveredOwner[i] = IF i \in Lapsed THEN None ELSE owner[i]
    BY DEF RecoveredOwner, TypeOK
  <1> QED
    BY <1>1, <1>2, <1>3, <1>5, <1>6, <1>7 DEF OwnedItem

(* The ledger follows: what recovery ends no longer holds capacity.        *)
LEMMA RecoveredLedger ==
  ASSUME TypeOK, SingleOwner, LedgerBalanced
  PROVE  /\ closed \subseteq RecoveredClosed
         /\ RecoveredClosed \subseteq opened
         /\ RecoveredUncertain \subseteq Attempts
         /\ RecoveredCalls = Cardinality(opened \ RecoveredClosed)
         /\ \A a \in opened \ RecoveredClosed : outcome[a] = "running" /\ a \notin Abandoned
  <1>1. closed \subseteq RecoveredClosed /\ RecoveredClosed \subseteq opened
    BY DEF RecoveredClosed, LedgerBalanced
  <1>2. RecoveredUncertain \subseteq Attempts
    BY DEF RecoveredUncertain, Abandoned, TypeOK
  <1>3. RecoveredCalls = Cardinality(opened \ RecoveredClosed)
    <2>1. CASE Lapsed = {}
      <3>1. RecoveredClosed = closed
        BY <2>1 DEF RecoveredClosed, Abandoned
      <3> QED
        BY <2>1, <3>1 DEF RecoveredCalls, LedgerBalanced
    <2>2. CASE Lapsed # {}
      BY <2>2 DEF RecoveredCalls
    <2> QED
      BY <2>1, <2>2
  <1>4. \A a \in opened \ RecoveredClosed : outcome[a] = "running" /\ a \notin Abandoned
    BY DEF RecoveredClosed, LedgerBalanced
  <1> QED
    BY <1>1, <1>2, <1>3, <1>4

-----------------------------------------------------------------------------
(* What kinds of step leave the invariant alone.                           *)

Tables ==
    /\ SingleOwner
    /\ LedgerBalanced
    /\ receipts \subseteq closed
    /\ Numbered

TablesOK ==
    /\ jobState \in JobStates
    /\ state \in [Items -> ItemStates]
    /\ owner \in [Items -> Workers \cup {None}]
    /\ live \in [Items -> BOOLEAN]
    /\ fence \in [Items -> 0 .. MaxFence]
    /\ corrected \in [Items -> 0 .. MaxFence]
    /\ retry \in [Items -> RetryStates]
    /\ outcome \in [Attempts -> {"none", "running", "succeeded", "skipped",
                       "failed", "dead_letter", "expired", "cancelled"}]
    /\ run \in [Attempts -> Attempts \cup {None}]
    /\ opened \subseteq Attempts /\ closed \subseteq Attempts
    /\ intent \subseteq Attempts /\ uncertain \subseteq Attempts
    /\ receipts \subseteq Attempts
    /\ answer \in [Attempts -> Verdicts \cup {"none"}]

Places == {"idle", "claimed", "unanswered", "reserve", "denied", "process",
           "admit", "calling", "uncertain", "recover", "settle", "link",
           "decide", "finish", "retry", "tail", "acknowledge", "exited",
           "released", "gone"}

Results == Verdicts \cup {"none", "deferred", "refused", "cached"}

WorkersOK ==
    /\ pc \in [Workers -> Places]
    /\ claim \in [Workers -> Attempts \cup {None}]
    /\ orig \in [Workers -> Attempts \cup {None}]
    /\ result \in [Workers -> Results]
    /\ broken \in [Workers -> BOOLEAN]

(* The counter is typed once the ledger balances. *)
LEMMA InvariantParts ==
  ASSUME TablesOK', WorkersOK', Tables', Pledged'
  PROVE  IInv'
  <1>1. IsFiniteSet((opened \ closed)')
    <2>1. (opened \ closed)' \in SUBSET Attempts
      BY DEF TablesOK
    <2> QED
      BY <2>1, AttemptsFinite, FS_Subset
  <1>2. (reservedCalls \in Nat)'
    BY <1>1, FS_CardinalityType DEF Tables, LedgerBalanced
  <1>3. TypeOK'
    BY <1>2 DEF TypeOK, TablesOK, WorkersOK, Places, Results, RetryStates
  <1> QED
    BY <1>3 DEF IInv, Tables

(* The parts make the invariant, after a step as before it. *)
LEMMA PartsOfInvariant ==
  ASSUME IInv
  PROVE  TypeOK /\ TablesOK /\ WorkersOK /\ Tables /\ Pledged
  BY DEF IInv, TypeOK, TablesOK, WorkersOK, Places, Results, RetryStates, Tables

(* None names neither an attempt nor a worker. *)
LEMMA NoneIsNoAttempt == None \notin Attempts /\ None \notin Workers
  BY WorkAssumption DEF Attempts

(* No item changes hands and no reservation is opened or closed.           *)
LEMMA Bystanders ==
  ASSUME TypeOK, Tables,
         UNCHANGED <<reservedCalls, owner, fence, outcome, opened, closed, receipts>>,
         \A i \in Items : state'[i] \in OwnedItem <=> state[i] \in OwnedItem,
         \A w \in Workers : claim'[w] \in {claim[w], None}
  PROVE  Tables'
  <1>1. SingleOwner'
    <2>1. \A i \in Items : (owner'[i] # None) <=> (state'[i] \in OwnedItem)
      BY DEF Tables, SingleOwner
    <2>2. \A a \in Attempts :
             outcome'[a] = "running" <=> state'[a[1]] \in OwnedItem /\ fence'[a[1]] = a[2]
      BY DEF Tables, SingleOwner, Attempts
    <2>3. \A w, x \in Workers : w # x /\ claim'[w] # None => claim'[w] # claim'[x]
      BY DEF Tables, SingleOwner
    <2> QED
      BY <2>1, <2>2, <2>3 DEF SingleOwner
  <1>2. LedgerBalanced'
    BY DEF Tables, LedgerBalanced
  <1>3. Numbered'
    BY DEF Tables, Numbered
  <1> QED
    BY <1>1, <1>2, <1>3 DEF Tables

(* The steps of the pc of one worker.                                      *)
LEMMA Moves ==
  ASSUME WorkersOK, NEW w \in Workers
  PROVE  /\ \A next \in Places :
              Goto(w, next) =>
                 /\ WorkersOK'
                 /\ pc' = [pc EXCEPT ![w] = next]
                 /\ UNCHANGED <<claim, orig>>
         /\ \A next \in Places, r \in Results :
              GotoWith(w, next, r) =>
                 /\ WorkersOK'
                 /\ pc' = [pc EXCEPT ![w] = next]
                 /\ UNCHANGED <<claim, orig>>
         /\ \A failed \in BOOLEAN :
              Leave(w, failed) =>
                 /\ WorkersOK'
                 /\ pc' = [pc EXCEPT ![w] = "tail"]
                 /\ orig' = [orig EXCEPT ![w] = None]
                 /\ UNCHANGED claim
         /\ \A failed \in BOOLEAN :
              Return(w, failed) =>
                 /\ WorkersOK'
                 /\ pc' = [pc EXCEPT ![w] = IF failed THEN "exited" ELSE "idle"]
                 /\ claim' = [claim EXCEPT ![w] = None]
                 /\ orig' = [orig EXCEPT ![w] = None]
  <1>1. ASSUME NEW next \in Places, Goto(w, next) PROVE WorkersOK'
    BY <1>1 DEF WorkersOK, Goto
  <1>2. ASSUME NEW next \in Places, NEW r \in Results, GotoWith(w, next, r)
        PROVE  WorkersOK'
    BY <1>2 DEF WorkersOK, GotoWith
  <1>3. ASSUME NEW failed \in BOOLEAN, Leave(w, failed) PROVE WorkersOK'
    BY <1>3 DEF WorkersOK, Leave, Places, Results
  <1>4. ASSUME NEW failed \in BOOLEAN, Return(w, failed) PROVE WorkersOK'
    BY <1>4 DEF WorkersOK, Return, Places, Results
  <1> QED
    BY <1>1, <1>2, <1>3, <1>4 DEF Goto, GotoWith, Leave, Return

(* A worker keeps the pledges of the place it moves to while the ledger    *)
(* stands still.                                                           *)
LEMMA PledgedGoto ==
  ASSUME WorkersOK, Pledged, NEW w \in Workers, NEW next \in Places,
         claim[w] # None,
         pc' = [pc EXCEPT ![w] = next], UNCHANGED <<claim, orig, opened, closed>>,
         next \in {"idle", "claimed", "reserve"} => orig[w] = None,
         next = "link" => orig[w] # None,
         next \in {"claimed", "unanswered", "reserve", "denied"} => claim[w] \notin opened,
         next \in {"process", "admit", "calling", "settle"} /\ orig[w] = None =>
            claim[w] \in opened,
         next \in {"link", "decide", "finish", "retry", "acknowledge"} =>
            claim[w] \notin opened \ closed
  PROVE  Pledged'
  BY DEF Pledged, WorkersOK

(* A worker that leaves its pass keeps what Pledged says of it. *)
LEMMA PledgedLeave ==
  ASSUME WorkersOK, Pledged, NEW w \in Workers, claim[w] # None,
         pc' = [pc EXCEPT ![w] = "tail"], orig' = [orig EXCEPT ![w] = None],
         UNCHANGED <<claim, opened>>, closed \subseteq closed'
  PROVE  Pledged'
  BY DEF Pledged, WorkersOK

(* A worker back in its loop, or out of it, pledges nothing. *)
LEMMA PledgedReturn ==
  ASSUME WorkersOK, Pledged, NEW w \in Workers,
         pc' = [pc EXCEPT ![w] = "exited"] \/ pc' = [pc EXCEPT ![w] = "idle"],
         orig' = [orig EXCEPT ![w] = None], claim' = [claim EXCEPT ![w] = None],
         UNCHANGED <<opened, closed>>
  PROVE  Pledged'
  <1>1. \A x \in Workers : orig'[x] # None => claim'[x] \notin opened'
    BY DEF Pledged, WorkersOK
  <1> QED
    BY <1>1 DEF Pledged, WorkersOK

-----------------------------------------------------------------------------
(* Steps that only move a worker through its pass.                         *)

(* A step that leaves items, attempts and ledger alone keeps the           *)
(* invariant if its workers do.                                            *)
LEMMA QuietStep ==
  ASSUME IInv, UNCHANGED tables, WorkersOK', Pledged',
         \A w \in Workers : claim'[w] \in {claim[w], None}
  PROVE  IInv'
  <1> USE PartsOfInvariant
  <1>1. TablesOK'
    BY DEF TablesOK, tables, jobVars, itemVars, ledgerVars
  <1>2. Tables'
    BY Bystanders DEF tables, jobVars, itemVars, ledgerVars
  <1> QED
    BY <1>1, <1>2, InvariantParts

(* A worker that only moves on keeps the invariant if its new place is     *)
(* earned.                                                                 *)
LEMMA QuietGoto ==
  ASSUME IInv, UNCHANGED tables, NEW w \in Workers, NEW next \in Places, WorkersOK',
         claim[w] # None,
         pc' = [pc EXCEPT ![w] = next], UNCHANGED <<claim, orig>>,
         next \in {"idle", "claimed", "reserve"} => orig[w] = None,
         next = "link" => orig[w] # None,
         next \in {"claimed", "unanswered", "reserve", "denied"} => claim[w] \notin opened,
         next \in {"process", "admit", "calling", "settle"} /\ orig[w] = None =>
            claim[w] \in opened,
         next \in {"link", "decide", "finish", "retry", "acknowledge"} =>
            claim[w] \notin opened \ closed
  PROVE  IInv'
  <1>1. Pledged'
    BY PartsOfInvariant, PledgedGoto DEF tables, ledgerVars
  <1> QED
    BY <1>1, QuietStep

(* A worker that only leaves its pass keeps the invariant. *)
LEMMA QuietLeave ==
  ASSUME IInv, UNCHANGED tables, NEW w \in Workers, NEW failed \in BOOLEAN,
         claim[w] # None, Leave(w, failed)
  PROVE  IInv'
  <1>1. WorkersOK' /\ UNCHANGED claim
    BY PartsOfInvariant, Moves
  <1>2. Pledged'
    BY PartsOfInvariant, Moves, PledgedLeave DEF tables, ledgerVars
  <1> QED
    BY <1>1, <1>2, QuietStep

(* A worker that only returns to its loop, or exits, keeps the             *)
(* invariant.                                                              *)
LEMMA QuietReturn ==
  ASSUME IInv, UNCHANGED tables, NEW w \in Workers, NEW failed \in BOOLEAN,
         Return(w, failed)
  PROVE  IInv'
  <1>1. WorkersOK' /\ claim' = [claim EXCEPT ![w] = None]
    BY PartsOfInvariant, Moves
  <1>2. Pledged'
    BY PartsOfInvariant, Moves, PledgedReturn DEF tables, ledgerVars
  <1>3. \A x \in Workers : claim'[x] \in {claim[x], None}
    BY <1>1, PartsOfInvariant DEF WorkersOK
  <1> QED
    BY <1>1, <1>2, <1>3, QuietStep

(* The worker holds a claim wherever its pass has got to.                  *)
LEMMA InPass ==
  ASSUME IInv, NEW w \in Workers, pc[w] \notin {"idle", "exited", "released", "gone"}
  PROVE  /\ claim[w] \in Attempts /\ claim[w] # None
         /\ claim[w][1] \in Items /\ claim[w][2] \in 1 .. MaxFence
         /\ claim[w] = <<claim[w][1], claim[w][2]>>
  BY PartsOfInvariant, NoneIsNoAttempt DEF Pledged, WorkersOK, Attempts

(* Reading the receipt keeps the invariant (recoverproviderresponse). *)
LEMMA ReadReceiptStep ==
  ASSUME IInv, NEW w \in Workers, ReadReceipt(w)
  PROVE  IInv'
  <1> USE InPass, PartsOfInvariant
  <1>1. pc[w] = "claimed" /\ UNCHANGED tables
    BY DEF ReadReceipt
  <1>2. /\ claim[w] # None /\ claim[w] \in Attempts /\ claim[w][1] \in Items
        /\ claim[w] \notin opened /\ orig[w] = None
    BY <1>1 DEF Pledged
  <1>3. CASE ReceiptState(w) = "fresh"
    <2>1. Goto(w, "reserve")
      BY <1>3 DEF ReadReceipt
    <2> QED
      BY <1>1, <1>2, <2>1, Moves, QuietGoto DEF Places
  <1>4. CASE ReceiptState(w) = "unanswered"
    <2>1. Goto(w, "unanswered")
      BY <1>4 DEF ReadReceipt
    <2> QED
      BY <1>1, <1>2, <2>1, Moves, QuietGoto DEF Places
  <1>5. CASE ReceiptState(w) = "reuse"
    <2> DEFINE l == Latest(claim[w][1])
    <2>1. /\ pc' = [pc EXCEPT ![w] = "process"]
          /\ orig' = [orig EXCEPT ![w] = l]
          /\ UNCHANGED <<claim, result, broken>>
      BY <1>5 DEF ReadReceipt
    <2>2. Recent(claim[w][1]) # {}
      BY <1>5 DEF ReceiptState
    <2>3. l \in Attempts
      BY <1>2, <2>2, LatestIsRecent DEF Recent, AttemptsOf, Attempts
    <2> HIDE DEF l
    <2>4. WorkersOK'
      BY <2>1, <2>3 DEF WorkersOK, Places
    <2>5. Pledged'
      BY <1>1, <1>2, <2>1, <2>3, NoneIsNoAttempt
         DEF Pledged, WorkersOK, tables, ledgerVars
    <2> QED
      BY <1>1, <2>1, <2>4, <2>5, QuietStep
  <1>6. ReceiptState(w) \in {"fresh", "unanswered", "reuse"}
    BY DEF ReceiptState
  <1> QED
    BY <1>3, <1>4, <1>5, <1>6

(* A denied or busy reservation, or none for want of a policy, changes no  *)
(* table (reservecall, _reservationcaps).                                  *)
LEMMA DenyStep ==
  ASSUME IInv, NEW w \in Workers, Deny(w) \/ ReserveBusy(w) \/ PolicyUnavailable(w)
  PROVE  IInv'
  <1>1. pc[w] \in {"claimed", "reserve"} /\ UNCHANGED tables
    BY DEF Deny, ReserveBusy, PolicyUnavailable
  <1>2. claim[w] # None /\ claim[w] \notin opened
    BY <1>1, InPass, PartsOfInvariant DEF Pledged
  <1>3. \/ Goto(w, "denied") \/ GotoWith(w, "denied", "deferred")
        \/ GotoWith(w, "denied", "refused")
    BY DEF Deny, ReserveBusy, PolicyUnavailable
  <1>4. "denied" \in Places /\ "deferred" \in Results /\ "refused" \in Results
    BY DEF Places, Results
  <1>5. WorkersOK' /\ pc' = [pc EXCEPT ![w] = "denied"] /\ UNCHANGED <<claim, orig>>
    BY <1>3, <1>4, PartsOfInvariant, Moves
  <1> QED
    BY <1>1, <1>2, <1>4, <1>5, QuietGoto

(* The second read of the receipt keeps the invariant (_process). *)
LEMMA ProcessStep ==
  ASSUME IInv, NEW w \in Workers, Process(w) \/ PreventCall(w) \/ UseStoredVector(w)
  PROVE  IInv'
  <1> USE PartsOfInvariant
  <1>1. pc[w] \in {"process", "admit"} /\ UNCHANGED tables
    BY DEF Process, PreventCall, UseStoredVector
  <1>2. /\ claim[w] # None /\ claim[w] \in Attempts /\ claim[w][1] \in Items
        /\ orig[w] = None => claim[w] \in opened
    BY <1>1, InPass DEF Pledged
  <1>3. PICK next \in {"admit", "settle"} :
           Goto(w, next) \/ \E r \in Results : GotoWith(w, next, r)
    <2>1. CASE PreventCall(w) \/ UseStoredVector(w)
      BY <2>1 DEF PreventCall, UseStoredVector, Results
    <2>2. CASE Process(w) /\ ReceiptState(w) = "fresh"
      BY <2>2 DEF Process
    <2>3. CASE Process(w) /\ ReceiptState(w) = "unanswered"
      BY <2>3 DEF Process, Results
    <2>4. CASE Process(w) /\ ReceiptState(w) = "reuse"
      <3>1. Recent(claim[w][1]) # {}
        BY <2>4 DEF ReceiptState
      <3>2. Latest(claim[w][1]) \in Attempts
        BY <1>2, <3>1, LatestIsRecent DEF Recent, AttemptsOf, Attempts
      <3>3. answer[Latest(claim[w][1])] \in Results
        BY <3>2 DEF TablesOK, Results
      <3> QED
        BY <2>4, <3>3 DEF Process
    <2>5. ReceiptState(w) \in {"fresh", "unanswered", "reuse"}
      BY DEF ReceiptState
    <2> QED
      BY <2>1, <2>2, <2>3, <2>4, <2>5
  <1>4. next \in Places
    BY DEF Places
  <1>5. WorkersOK' /\ pc' = [pc EXCEPT ![w] = next] /\ UNCHANGED <<claim, orig>>
    BY <1>3, <1>4, Moves
  <1> QED
    BY <1>1, <1>2, <1>4, <1>5, QuietGoto

(* The decision to publish changes no table (_runworkeronce). *)
LEMMA DecideStep ==
  ASSUME IInv, NEW w \in Workers, Decide(w) \/ PublicationFails(w) \/ SeeCancel(w)
  PROVE  IInv'
  <1> USE PartsOfInvariant
  <1>1. pc[w] \in {"decide", "finish", "tail"} /\ UNCHANGED tables
    BY DEF Decide, PublicationFails, SeeCancel
  <1>2. claim[w] # None
    BY <1>1, InPass
  <1>3. claim[w] \notin opened \ closed
    BY DEF Decide, PublicationFails, SeeCancel, CancelPending, Pledged
  <1>4. ASSUME NEW next \in {"finish", "retry", "acknowledge"}, Goto(w, next)
        PROVE  IInv'
    <2>1. next \in Places
      BY DEF Places
    <2>2. WorkersOK' /\ pc' = [pc EXCEPT ![w] = next] /\ UNCHANGED <<claim, orig>>
      BY <1>4, <2>1, Moves
    <2> QED
      BY <1>1, <1>2, <1>3, <2>1, <2>2, QuietGoto
  <1>5. ASSUME NEW failed \in BOOLEAN, Leave(w, failed)
        PROVE  IInv'
    BY <1>1, <1>2, <1>5, QuietLeave
  <1> QED
    BY <1>4, <1>5 DEF Decide, PublicationFails, SeeCancel

(* The end of a pass and the exit of a process keep the invariant. *)
LEMMA ReturnStep ==
  ASSUME IInv, NEW w \in Workers, EndPass(w) \/ Exit(w)
  PROVE  IInv'
  <1>1. broken[w] \in BOOLEAN
    BY PartsOfInvariant DEF WorkersOK
  <1>2. UNCHANGED tables /\ \E failed \in BOOLEAN : Return(w, failed)
    BY <1>1 DEF EndPass, Exit
  <1> QED
    BY <1>2, QuietReturn

-----------------------------------------------------------------------------
(* Steps that write to the ledger without opening or closing a             *)
(* reservation, and leases that end.                                       *)

(* What touches neither items nor ledger keeps the parts about them. *)
LEMMA NoteStep ==
  ASSUME IInv, TablesOK', WorkersOK', Pledged', UNCHANGED claim,
         UNCHANGED <<reservedCalls, state, owner, fence, outcome, opened, closed, receipts>>
  PROVE  IInv'
  <1>1. Tables'
    BY PartsOfInvariant, Bystanders
  <1> QED
    BY <1>1, InvariantParts

(* The durable intent keeps the invariant (beginproviderrequest). *)
LEMMA BeginRequestStep ==
  ASSUME IInv, NEW w \in Workers, BeginRequest(w)
  PROVE  IInv'
  <1> USE PartsOfInvariant
  <1>1. pc[w] = "admit" /\ UNCHANGED <<jobVars, itemVars, outcome, run, opened, closed,
                                        uncertain, receipts, answer>>
    BY DEF BeginRequest
  <1>2. claim[w] # None /\ claim[w] \in Attempts /\ (orig[w] = None => claim[w] \in opened)
    BY <1>1, InPass DEF Pledged
  <1>3. TablesOK'
    BY <1>1, <1>2 DEF BeginRequest, TablesOK, jobVars, itemVars
  <1>4. "calling" \in Places /\ "settle" \in Places /\ "refused" \in Results
    BY DEF Places, Results
  <1>5. PICK next \in {"calling", "settle"} :
           WorkersOK' /\ pc' = [pc EXCEPT ![w] = next] /\ UNCHANGED <<claim, orig>>
    BY <1>4, Moves DEF BeginRequest
  <1>6. Pledged'
    BY <1>1, <1>2, <1>4, <1>5, PledgedGoto
  <1> QED
    BY <1>1, <1>3, <1>5, <1>6, NoteStep DEF jobVars, itemVars

(* An answer, however late, keeps the invariant                            *)
(* (recordproviderresponse).                                               *)
LEMMA RecordResponseStep ==
  ASSUME IInv, NEW w \in Workers, RecordResponse(w)
  PROVE  IInv'
  <1> USE PartsOfInvariant
  <1>1. pc[w] = "calling" /\ UNCHANGED <<jobVars, itemVars, outcome, run, opened, closed,
                                          intent, uncertain, receipts>>
    BY DEF RecordResponse
  <1>2. claim[w] # None /\ claim[w] \in Attempts /\ (orig[w] = None => claim[w] \in opened)
    BY <1>1, InPass DEF Pledged
  <1>3. PICK v \in Verdicts :
           answer' = [answer EXCEPT ![claim[w]] = v] /\ GotoWith(w, "settle", v)
    BY DEF RecordResponse
  <1>4. TablesOK'
    BY <1>1, <1>3 DEF TablesOK, jobVars, itemVars
  <1>5. "settle" \in Places /\ v \in Results
    BY DEF Places, Results
  <1>6. WorkersOK' /\ pc' = [pc EXCEPT ![w] = "settle"] /\ UNCHANGED <<claim, orig>>
    BY <1>3, <1>5, Moves
  <1>7. Pledged'
    BY <1>1, <1>2, <1>5, <1>6, PledgedGoto
  <1> QED
    BY <1>1, <1>4, <1>6, <1>7, NoteStep DEF jobVars, itemVars

(* An answer that cannot be stored changes no table. *)
LEMMA LoseResponseStep ==
  ASSUME IInv, NEW w \in Workers, LoseResponse(w)
  PROVE  IInv'
  <1>1. pc[w] = "calling" /\ UNCHANGED tables
    BY DEF LoseResponse
  <1>2. claim[w] # None
    BY <1>1, InPass
  <1>3. "uncertain" \in Places
    BY DEF Places
  <1>4. WorkersOK' /\ pc' = [pc EXCEPT ![w] = "uncertain"] /\ UNCHANGED <<claim, orig>>
    BY <1>3, Moves, PartsOfInvariant DEF LoseResponse
  <1> QED
    BY <1>1, <1>2, <1>3, <1>4, QuietGoto

(* The uncertainty hold keeps the invariant (retainuncertainusage). *)
LEMMA HoldUncertainStep ==
  ASSUME IInv, NEW w \in Workers, HoldUncertain(w)
  PROVE  IInv'
  <1> USE PartsOfInvariant
  <1>1. pc[w] = "uncertain" /\ UNCHANGED <<jobVars, state, owner, fence, corrected, retry,
                       outcome, opened, closed, intent, receipts, answer>>
    BY DEF HoldUncertain
  <1>2. claim[w] # None /\ claim[w] \in Attempts
    BY <1>1, InPass
  <1>3. TablesOK'
    BY <1>1, <1>2 DEF HoldUncertain, TablesOK, jobVars
  <1>4. "recover" \in Places
    BY DEF Places
  <1>5. WorkersOK' /\ Pledged' /\ UNCHANGED claim
    <2>1. CASE Goto(w, "recover")
      <3>1. WorkersOK' /\ pc' = [pc EXCEPT ![w] = "recover"] /\ UNCHANGED <<claim, orig>>
        BY <1>4, <2>1, Moves
      <3> QED
        BY <1>1, <1>2, <1>4, <3>1, PledgedGoto
    <2>2. CASE Leave(w, TRUE)
      <3>1. WorkersOK' /\ pc' = [pc EXCEPT ![w] = "tail"]
            /\ orig' = [orig EXCEPT ![w] = None] /\ UNCHANGED claim
        BY <2>2, Moves
      <3> QED
        BY <1>1, <1>2, <3>1, PledgedLeave
    <2> QED
      BY <2>1, <2>2 DEF HoldUncertain
  <1> QED
    BY <1>1, <1>3, <1>5, NoteStep DEF jobVars

(* Linking a reused answer to its run keeps the invariant. *)
LEMMA LinkReceiptStep ==
  ASSUME IInv, NEW w \in Workers, LinkReceipt(w)
  PROVE  IInv'
  <1> USE PartsOfInvariant
  <1>1. pc[w] = "link" /\ UNCHANGED <<jobVars, itemVars, outcome, ledgerVars>>
    BY DEF LinkReceipt
  <1>2. claim[w] # None /\ claim[w] \in Attempts /\ claim[w] \notin opened \ closed
    BY <1>1, InPass DEF Pledged
  <1>3. TablesOK'
    <2>1. run[orig[w]] \in Attempts \cup {None}
      BY <1>1 DEF TablesOK, WorkersOK, Pledged
    <2>2. run' \in [Attempts -> Attempts \cup {None}]
      BY <1>2, <2>1 DEF LinkReceipt, TablesOK, ActiveFence
    <2> QED
      BY <1>1, <2>2 DEF TablesOK, jobVars, itemVars, ledgerVars
  <1>4. "decide" \in Places
    BY DEF Places
  <1>5. WorkersOK' /\ Pledged' /\ UNCHANGED claim
    <2>1. CASE Goto(w, "decide")
      <3>1. WorkersOK' /\ pc' = [pc EXCEPT ![w] = "decide"] /\ UNCHANGED <<claim, orig>>
        BY <1>4, <2>1, Moves
      <3> QED
        BY <1>1, <1>2, <1>4, <3>1, PledgedGoto DEF ledgerVars
    <2>2. CASE Leave(w, TRUE)
      <3>1. WorkersOK' /\ pc' = [pc EXCEPT ![w] = "tail"]
            /\ orig' = [orig EXCEPT ![w] = None] /\ UNCHANGED claim
        BY <2>2, Moves
      <3> QED
        BY <1>1, <1>2, <3>1, PledgedLeave DEF ledgerVars
    <2> QED
      BY <2>1, <2>2 DEF LinkReceipt
  <1> QED
    BY <1>1, <1>3, <1>5, NoteStep DEF jobVars, itemVars, ledgerVars

(* Ending the leases of an exited worker keeps the invariant               *)
(* (recoverworkerclaims).                                                  *)
LEMMA ReleaseExitedStep ==
  ASSUME IInv, NEW w \in Workers, ReleaseExited(w)
  PROVE  IInv'
  <1> USE PartsOfInvariant
  <1>1. pc[w] = "exited" /\ UNCHANGED <<jobVars, state, owner, fence, corrected, retry,
                                        outcome, run, ledgerVars>>
    BY DEF ReleaseExited
  <1>2. "released" \in Places
    BY DEF Places
  <1>3. WorkersOK' /\ pc' = [pc EXCEPT ![w] = "released"] /\ UNCHANGED <<claim, orig>>
    BY <1>2, Moves DEF ReleaseExited
  <1>4. live' \in [Items -> BOOLEAN]
    BY DEF ReleaseExited, TablesOK
  <1>5. TablesOK'
    BY <1>1, <1>4 DEF TablesOK, jobVars, ledgerVars
  <1>6. Pledged'
    BY <1>1, <1>3 DEF Pledged, WorkersOK, ledgerVars
  <1> QED
    BY <1>1, <1>3, <1>5, <1>6, NoteStep DEF jobVars, ledgerVars

(* The passing of a lease keeps the invariant. *)
LEMMA LeaseLapsesStep ==
  ASSUME IInv, NEW i \in Items, LeaseLapses(i)
  PROVE  IInv'
  <1> USE PartsOfInvariant
  <1>1. TablesOK'
    BY DEF LeaseLapses, TablesOK, jobVars, ledgerVars
  <1>2. WorkersOK' /\ Pledged'
    BY DEF LeaseLapses, WorkersOK, Pledged, workerVars, ledgerVars
  <1> QED
    BY <1>1, <1>2, NoteStep DEF LeaseLapses, jobVars, ledgerVars, workerVars

-----------------------------------------------------------------------------
(* Reservations: opened once for a fenced claim, closed once.              *)

(* Finitely many reservations are open. *)
LEMMA OpenReservations == ASSUME IInv PROVE IsFiniteSet(opened \ closed)
  BY PartsOfInvariant, AttemptsFinite, FS_Subset DEF TablesOK

(* A reservation counts itself once (reservecall). *)
LEMMA ReserveStep ==
  ASSUME IInv, NEW w \in Workers, Reserve(w)
  PROVE  IInv'
  <1> USE PartsOfInvariant
  <1>1. /\ pc[w] = "reserve"
        /\ opened' = opened \cup {claim[w]} /\ reservedCalls' = reservedCalls + 1
        /\ Goto(w, "process")
        /\ UNCHANGED <<jobState, itemVars, outcome, run, closed, intent, uncertain,
                       receipts, answer>>
        /\ claim[w] \notin opened /\ outcome[claim[w]] = "running"
    BY DEF Reserve, Admissible, ActiveFence
  <1>2. claim[w] # None /\ claim[w] \in Attempts /\ orig[w] = None
    BY <1>1, InPass DEF Pledged
  <1>3. "process" \in Places
    BY DEF Places
  <1>4. WorkersOK' /\ pc' = [pc EXCEPT ![w] = "process"] /\ UNCHANGED <<claim, orig>>
    BY <1>1, <1>3, Moves
  <1>5. TablesOK'
    BY <1>1, <1>2 DEF TablesOK, itemVars
  <1>6. SingleOwner' /\ Numbered' /\ (receipts \subseteq closed)'
    BY <1>1, <1>2, <1>4 DEF Tables, SingleOwner, Numbered, itemVars
  <1>7. LedgerBalanced'
    <2>1. claim[w] \notin closed /\ claim[w] \notin opened \ closed
      BY <1>1 DEF Tables, LedgerBalanced
    <2>2. opened' \ closed' = (opened \ closed) \cup {claim[w]}
      BY <1>1, <2>1
    <2>3. Cardinality(opened' \ closed') = Cardinality(opened \ closed) + 1
      BY <2>1, <2>2, OpenReservations, FS_AddElement
    <2>4. reservedCalls = Cardinality(opened \ closed)
      BY DEF Tables, LedgerBalanced
    <2>5. reservedCalls' = Cardinality(opened' \ closed')
      BY <1>1, <2>3, <2>4
    <2> QED
      BY <1>1, <2>2, <2>5 DEF Tables, LedgerBalanced
  <1>8. Pledged'
    <2>1. \A x \in Workers \ {w} : claim[x] # claim[w]
      BY <1>2 DEF Tables, SingleOwner
    <2> QED
      BY <1>1, <1>2, <1>4, <2>1 DEF Pledged, WorkersOK
  <1> QED
    BY <1>4, <1>5, <1>6, <1>7, <1>8, InvariantParts DEF Tables

(* A settlement gives the capacity of an open reservation back, and leaves *)
(* a closed one as it is.                                                  *)
LEMMA SettleCallFacts ==
  ASSUME IInv, NEW a \in opened, NEW called, SettleCall(a, called),
         UNCHANGED <<jobState, itemVars, outcome, opened, intent, uncertain, answer, claim>>
  PROVE  /\ TablesOK'
         /\ Tables'
         /\ closed' = closed \cup {a}
  <1> USE PartsOfInvariant
  <1>1. a \in Attempts
    BY DEF TablesOK
  <1>2. closed' = closed \cup {a} /\ receipts' = receipts \cup {a}
    BY DEF SettleCall
  <1>3. TablesOK'
    <2>1. run' \in [Attempts -> Attempts \cup {None}]
      BY <1>1 DEF SettleCall, TablesOK
    <2> QED
      BY <1>1, <1>2, <2>1 DEF TablesOK, itemVars
  <1>4. SingleOwner' /\ Numbered' /\ (receipts \subseteq closed)'
    BY <1>2 DEF Tables, SingleOwner, Numbered, itemVars
  <1>5. LedgerBalanced'
    <2>1. reservedCalls = Cardinality(opened \ closed)
      BY DEF Tables, LedgerBalanced
    <2>2. CASE a \in closed
      BY <1>2, <2>2 DEF SettleCall, Tables, LedgerBalanced
    <2>3. CASE a \notin closed
      <3>1. opened' \ closed' = (opened \ closed) \ {a} /\ a \in opened \ closed
        BY <1>2, <2>3
      <3>2. Cardinality(opened' \ closed') = Cardinality(opened \ closed) - 1
        BY <3>1, OpenReservations, FS_RemoveElement
      <3>3. reservedCalls' = reservedCalls - 1
        BY <2>3 DEF SettleCall
      <3> QED
        BY <1>2, <2>1, <3>1, <3>2, <3>3 DEF Tables, LedgerBalanced
    <2> QED
      BY <2>2, <2>3
  <1> QED
    BY <1>2, <1>3, <1>4, <1>5 DEF Tables

(* The places a settlement leads to.                                       *)
LEMMA SettledPledges ==
  ASSUME IInv, NEW w \in Workers, NEW next \in {"link", "decide"},
         claim[w] # None, Goto(w, next), opened' = opened, closed \subseteq closed',
         claim[w] \notin opened' \ closed', next = "link" => orig[w] # None
  PROVE  WorkersOK' /\ Pledged'
  <1> USE PartsOfInvariant
  <1>1. next \in Places
    BY DEF Places
  <1>2. WorkersOK' /\ pc' = [pc EXCEPT ![w] = next] /\ UNCHANGED <<claim, orig>>
    BY <1>1, Moves
  <1>3. Pledged'
    BY <1>2 DEF Pledged, WorkersOK
  <1> QED
    BY <1>2, <1>3

(* A settlement by the calling worker keeps the invariant (settlecall). *)
LEMMA SettleStep ==
  ASSUME IInv, NEW w \in Workers, Settle(w)
  PROVE  IInv'
  <1> USE PartsOfInvariant
  <1>1. /\ pc[w] = "settle" /\ orig[w] = None
        /\ UNCHANGED <<jobState, itemVars, outcome, opened, intent, uncertain, answer>>
    BY DEF Settle
  <1>2. claim[w] # None /\ claim[w] \in Attempts /\ claim[w] \in opened
    BY <1>1, InPass DEF Pledged
  <1>3. CASE claim[w] \notin receipts
    <2>1. SettleCall(claim[w], result[w] \in Verdicts) /\ Goto(w, "decide")
      BY <1>3 DEF Settle
    <2>2. UNCHANGED claim
      BY <2>1 DEF Goto
    <2>3. TablesOK' /\ Tables' /\ closed' = closed \cup {claim[w]}
      BY <1>1, <1>2, <2>1, <2>2, SettleCallFacts
    <2>4. WorkersOK' /\ Pledged'
      BY <1>1, <1>2, <2>1, <2>3, SettledPledges
    <2> QED
      BY <2>3, <2>4, InvariantParts
  <1>4. CASE claim[w] \in receipts
    <2>1. UNCHANGED tables
      BY <1>1, <1>4 DEF Settle, tables, jobVars, ledgerVars
    <2>2. CASE Leave(w, TRUE)
      BY <1>2, <2>1, <2>2, QuietLeave
    <2>3. CASE Goto(w, "decide")
      <3>1. claim[w] \notin opened \ closed
        BY <1>4 DEF Tables
      <3>2. WorkersOK' /\ Pledged' /\ UNCHANGED claim
        BY <1>1, <1>2, <2>1, <2>3, <3>1, SettledPledges DEF tables, ledgerVars, Goto
      <3> QED
        BY <2>1, <3>2, QuietStep
    <2> QED
      BY <1>4, <2>2, <2>3 DEF Settle
  <1> QED
    BY <1>3, <1>4

(* The settlement of an earlier attempt keeps the invariant                *)
(* (recoverprovideraccounting).                                            *)
LEMMA SettleOriginalStep ==
  ASSUME IInv, NEW w \in Workers, SettleOriginal(w)
  PROVE  IInv'
  <1> USE PartsOfInvariant
  <1>1. /\ pc[w] = "settle" /\ orig[w] # None
        /\ UNCHANGED <<jobState, itemVars, outcome, opened, intent, uncertain, answer>>
    BY DEF SettleOriginal
  <1>2. claim[w] # None /\ claim[w] \notin opened
    BY <1>1, InPass DEF Pledged
  <1>3. CASE run[orig[w]] # None
    <2>1. Goto(w, "link") /\ UNCHANGED <<receipts, run, closed, reservedCalls>>
      BY <1>3 DEF SettleOriginal
    <2>2. UNCHANGED tables
      BY <1>1, <2>1 DEF tables, jobVars, ledgerVars
    <2>3. WorkersOK' /\ Pledged' /\ UNCHANGED claim
      BY <1>1, <1>2, <2>1, SettledPledges DEF Goto
    <2> QED
      BY <2>2, <2>3, QuietStep
  <1>4. CASE run[orig[w]] = None /\ orig[w] \in opened \ receipts
    <2>1. SettleCall(orig[w], result[w] \in Verdicts) /\ Goto(w, "link")
      BY <1>4 DEF SettleOriginal
    <2>2. UNCHANGED claim
      BY <2>1 DEF Goto
    <2>3. TablesOK' /\ Tables' /\ closed' = closed \cup {orig[w]}
      BY <1>1, <1>4, <2>1, <2>2, SettleCallFacts
    <2>4. WorkersOK' /\ Pledged'
      BY <1>1, <1>2, <2>1, <2>3, SettledPledges
    <2> QED
      BY <2>3, <2>4, InvariantParts
  <1>5. CASE run[orig[w]] = None /\ orig[w] \notin opened \ receipts
    <2>1. Leave(w, TRUE) /\ UNCHANGED <<receipts, run, closed, reservedCalls>>
      BY <1>5 DEF SettleOriginal
    <2>2. UNCHANGED tables
      BY <1>1, <2>1 DEF tables, jobVars, ledgerVars
    <2> QED
      BY <1>2, <2>1, <2>2, QuietLeave
  <1> QED
    BY <1>3, <1>4, <1>5

-----------------------------------------------------------------------------
(* The ends of a claim.                                                    *)

Outcomes == {"none", "running", "succeeded", "skipped", "failed", "dead_letter",
             "expired", "cancelled"}

(* Ending a claim keeps the tables typed and the parts about them. *)
LEMMA SettledFacts ==
  ASSUME IInv, NEW w \in Workers,
         NEW next \in ItemStates \ OwnedItem, NEW ended \in Outcomes \ {"none", "running"},
         claim[w] \in Attempts, outcome[claim[w]] = "running",
         claim[w] \notin opened \ closed,
         Settled(w, next, ended), corrected' \in [Items -> 0 .. MaxFence],
         UNCHANGED ledgerVars,
         \A x \in Workers : claim'[x] \in {claim[x], None}
  PROVE  TablesOK' /\ Tables'
  <1> USE PartsOfInvariant
  <1> DEFINE a == claim[w]
             i == a[1]
             s == [state EXCEPT ![i] = next]
             o == [outcome EXCEPT ![a] = ended]
  <1>1. a \in Attempts /\ i \in Items /\ fence[i] = a[2] /\ state[i] \in OwnedItem
    BY DEF Tables, SingleOwner, Attempts
  <1>2. /\ outcome' = o
        /\ owner' = [owner EXCEPT ![i] = None]
        /\ live' = [live EXCEPT ![i] = FALSE]
        /\ Refresh(jobState, s, o, retry)
        /\ UNCHANGED <<reservedCalls, fence, run>>
    BY DEF Settled
  <1>3. /\ s \in [Items -> ItemStates]
        /\ \A k \in Items : s[k] \in OwnedItem <=> state[k] \in OwnedItem /\ k # i
    BY <1>1 DEF TablesOK
  <1>4. o \in [Attempts -> Outcomes] /\ o[a] = ended
        /\ \A b \in Attempts \ {a} : o[b] = outcome[b]
    BY <1>1 DEF TablesOK, Outcomes
  <1> HIDE DEF a, i, s, o
  <1>5. RefreshedJob(jobState, s) \in JobStates
    BY RefreshedType DEF TablesOK
  <1>6. /\ jobState' \in JobStates
        /\ state' \in [Items -> ItemStates]
        /\ retry' \in [Items -> RetryStates]
        /\ \A k \in Items : \/ state'[k] = s[k]
                            \/ s[k] \in {"dead_letter", "cancelled"} /\ state'[k] = "queued"
    <2> DEFINE j == RefreshedJob(jobState, s)
    <2>1. /\ jobState' = ReconsideredJob(j, s, o, retry)
          /\ state' = ReconsideredStates(j, s, o, retry)
          /\ retry' = ReconsideredRequests(j, s, o, retry)
      BY <1>2 DEF Refresh, Reconsider
    <2>2. retry \in [Items -> RetryStates]
      BY DEF TablesOK
    <2> HIDE DEF j
    <2> QED
      BY <1>3, <1>5, <2>1, <2>2, ReconsideredFacts DEF j
  <1>7. \A k \in Items : state'[k] \in OwnedItem <=> state[k] \in OwnedItem /\ k # i
    BY <1>3, <1>6 DEF OwnedItem
  <1>8. TablesOK'
    BY <1>1, <1>2, <1>4, <1>6, NoneIsNoAttempt DEF TablesOK, Outcomes, ledgerVars
  <1>9. SingleOwner'
    <2>1. \A k \in Items : (owner'[k] # None) <=> (state'[k] \in OwnedItem)
      BY <1>1, <1>2, <1>7 DEF Tables, SingleOwner, TablesOK
    <2>2. ASSUME NEW b \in Attempts
          PROVE  outcome'[b] = "running" <=> state'[b[1]] \in OwnedItem /\ fence'[b[1]] = b[2]
      <3>1. b[1] \in Items
        BY DEF Attempts
      <3>2. CASE b = a
        BY <1>2, <1>4, <1>7, <3>1, <3>2 DEF i
      <3>3. CASE b # a
        <4>1. outcome'[b] = outcome[b] /\ fence' = fence
          BY <1>2, <1>4, <3>3
        <4>2. fence[b[1]] = b[2] => b[1] # i
          BY <1>1, <3>3 DEF Attempts, i
        <4>3. outcome[b] = "running" <=> state[b[1]] \in OwnedItem /\ fence[b[1]] = b[2]
          BY DEF Tables, SingleOwner
        <4> QED
          BY <1>7, <3>1, <4>1, <4>2, <4>3
      <3> QED
        BY <3>2, <3>3
    <2>3. \A x, y \in Workers : x # y /\ claim'[x] # None => claim'[x] # claim'[y]
      BY DEF Tables, SingleOwner
    <2> QED
      BY <2>1, <2>2, <2>3 DEF SingleOwner
  <1>10. LedgerBalanced' /\ (receipts \subseteq closed)'
    <2>1. \A b \in opened \ closed : b # a /\ outcome'[b] = "running"
      BY <1>2, <1>4 DEF a, Tables, LedgerBalanced, TablesOK
    <2> QED
      BY <1>2, <2>1 DEF Tables, LedgerBalanced, ledgerVars
  <1>11. Numbered'
    <2>1. \A b \in Attempts : outcome'[b] # "none" <=> outcome[b] # "none"
      BY <1>2, <1>4 DEF a
    <2> QED
      BY <1>2, <1>7, <2>1 DEF Tables, Numbered, TablesOK, ledgerVars
  <1> QED
    BY <1>8, <1>9, <1>10, <1>11 DEF Tables

(* An end of a claim, and the worker's way back to its loop.               *)
LEMMA EndStep ==
  ASSUME IInv, NEW w \in Workers,
         NEW next \in ItemStates \ OwnedItem, NEW ended \in Outcomes \ {"none", "running"},
         claim[w] \in Attempts, outcome[claim[w]] = "running",
         claim[w] \notin opened \ closed,
         Settled(w, next, ended), corrected' \in [Items -> 0 .. MaxFence],
         UNCHANGED ledgerVars,
         NEW failed \in BOOLEAN, Leave(w, failed) \/ Return(w, failed)
  PROVE  IInv'
  <1> USE PartsOfInvariant
  <1>1. claim[w] # None
    BY NoneIsNoAttempt
  <1>2. CASE Leave(w, failed)
    <2>1. /\ WorkersOK' /\ pc' = [pc EXCEPT ![w] = "tail"]
          /\ orig' = [orig EXCEPT ![w] = None] /\ UNCHANGED claim
      BY <1>2, Moves
    <2>2. TablesOK' /\ Tables'
      BY <2>1, SettledFacts
    <2>3. Pledged'
      BY <1>1, <2>1, PledgedLeave DEF ledgerVars
    <2> QED
      BY <2>1, <2>2, <2>3, InvariantParts
  <1>3. CASE Return(w, failed)
    <2>1. /\ WorkersOK'
          /\ pc' = [pc EXCEPT ![w] = "exited"] \/ pc' = [pc EXCEPT ![w] = "idle"]
          /\ orig' = [orig EXCEPT ![w] = None] /\ claim' = [claim EXCEPT ![w] = None]
      BY <1>3, Moves
    <2>2. \A x \in Workers : claim'[x] \in {claim[x], None}
      BY <2>1 DEF WorkersOK
    <2>3. TablesOK' /\ Tables'
      BY <2>2, SettledFacts
    <2>4. Pledged'
      BY <2>1, PledgedReturn DEF ledgerVars
    <2> QED
      BY <2>1, <2>3, <2>4, InvariantParts
  <1> QED
    BY <1>2, <1>3

(* failattempt ends the claim in one of its ways.                          *)
LEMMA FailedSettles ==
  ASSUME IInv, NEW w \in Workers, claim[w] \in Attempts,
         NEW retryable, NEW uncalled, NEW citation,
         Failed(w, retryable, uncalled, citation)
  PROVE  /\ \E next \in ItemStates \ OwnedItem,
               ended \in Outcomes \ {"none", "running", "succeeded", "skipped"} :
              Settled(w, next, ended)
         /\ corrected' \in [Items -> 0 .. MaxFence]
  <1>1. claim[w][1] \in Items /\ claim[w][2] \in 0 .. MaxFence
    BY WorkAssumption DEF Attempts
  <1>2. corrected' \in [Items -> 0 .. MaxFence]
    BY <1>1, PartsOfInvariant DEF Failed, TablesOK
  <1>3. PICK next \in {"queued", "dead_letter"}, ended \in {"dead_letter", "cancelled", "failed"} :
           Settled(w, next, ended)
    BY DEF Failed
  <1>4. /\ next \in ItemStates \ OwnedItem
        /\ ended \in Outcomes \ {"none", "running", "succeeded", "skipped"}
    BY DEF ItemStates, OwnedItem, Outcomes
  <1> QED
    BY <1>2, <1>3, <1>4

(* A failed attempt gives its item up and keeps the invariant              *)
(* (failattempt).                                                          *)
LEMMA FailStep ==
  ASSUME IInv, NEW w \in Workers,
         pc[w] \notin {"idle", "exited", "released", "gone"},
         claim[w] \notin opened \ closed, ActiveFence(w),
         NEW retryable, NEW uncalled, NEW citation,
         Failed(w, retryable, uncalled, citation),
         UNCHANGED ledgerVars, NEW failed \in BOOLEAN, Leave(w, failed)
  PROVE  IInv'
  <1>1. claim[w] \in Attempts
    BY InPass
  <1>2. outcome[claim[w]] = "running"
    BY DEF ActiveFence
  <1>3. PICK next \in ItemStates \ OwnedItem, ended \in Outcomes \ {"none", "running"} :
           Settled(w, next, ended)
    BY <1>1, FailedSettles
  <1>4. corrected' \in [Items -> 0 .. MaxFence]
    BY <1>1, FailedSettles
  <1> QED
    BY <1>1, <1>2, <1>3, <1>4, EndStep

(* A deferred claim gives its item up (_deferuncalledclaim). *)
LEMMA DeferStep ==
  ASSUME IInv, NEW w \in Workers, Defer(w)
  PROVE  IInv'
  <1>1. /\ pc[w] = "reserve" /\ claim[w] \notin opened /\ outcome[claim[w]] = "running"
        /\ Settled(w, "queued", "cancelled") /\ Leave(w, FALSE)
        /\ UNCHANGED <<corrected, ledgerVars>>
    BY DEF Defer, Admissible, ActiveFence
  <1>2. claim[w] \in Attempts
    BY <1>1, InPass
  <1>3. "queued" \in ItemStates \ OwnedItem /\ "cancelled" \in Outcomes \ {"none", "running"}
    BY DEF ItemStates, OwnedItem, Outcomes
  <1>4. corrected' \in [Items -> 0 .. MaxFence]
    BY <1>1, PartsOfInvariant DEF TablesOK
  <1> QED
    BY <1>1, <1>2, <1>3, <1>4, EndStep

(* The failures of a pass: under the fence the claim ends, without it only *)
(* the worker moves.                                                       *)
LEMMA FailureStep ==
  ASSUME IInv, NEW w \in Workers,
         FailUnanswered(w) \/ FailDenied(w) \/ FailResult(w) \/ FailPublication(w)
  PROVE  IInv'
  <1>1. pc[w] \in {"unanswered", "denied", "finish", "retry"} /\ UNCHANGED ledgerVars
    BY DEF FailUnanswered, FailDenied, FailResult, FailPublication
  <1>2. claim[w] # None /\ claim[w] \notin opened \ closed
    BY <1>1, InPass, PartsOfInvariant DEF Pledged
  <1>3. PICK failed \in BOOLEAN : Leave(w, failed)
    BY DEF FailUnanswered, FailDenied, FailResult, FailPublication
  <1>4. CASE ActiveFence(w)
    <2>1. \E retryable, uncalled, citation : Failed(w, retryable, uncalled, citation)
      <3>1. CASE FailUnanswered(w)
        BY <1>4, <3>1 DEF FailUnanswered
      <3>2. CASE FailDenied(w)
        BY <1>4, <3>2 DEF FailDenied
      <3>3. CASE FailResult(w)
        BY <1>4, <3>3 DEF FailResult
      <3>4. CASE FailPublication(w)
        BY <1>4, <3>4 DEF FailPublication
      <3> QED
        BY <3>1, <3>2, <3>3, <3>4
    <2> QED
      BY <1>1, <1>2, <1>3, <1>4, <2>1, FailStep
  <1>5. CASE ~ActiveFence(w)
    <2>1. UNCHANGED <<jobVars, itemVars, outcome, run>>
      BY <1>5 DEF FailUnanswered, FailDenied, FailResult, FailPublication
    <2>2. UNCHANGED tables
      BY <1>1, <2>1 DEF tables
    <2> QED
      BY <1>2, <1>3, <2>2, QuietLeave
  <1> QED
    BY <1>4, <1>5

(* A publication or a skip keeps the invariant (_completeproviderbatch,    *)
(* skipitem).                                                              *)
LEMMA PublishStep ==
  ASSUME IInv, NEW w \in Workers, Publish(w) \/ Skip(w)
  PROVE  IInv'
  <1>1. pc[w] = "finish" /\ UNCHANGED <<corrected, ledgerVars>>
    BY DEF Publish, Skip
  <1>2. claim[w] \in Attempts /\ claim[w] # None /\ claim[w] \notin opened \ closed
    BY <1>1, InPass, PartsOfInvariant DEF Pledged
  <1>3. PICK failed \in BOOLEAN : Leave(w, failed)
    BY DEF Publish, Skip
  <1>4. corrected' \in [Items -> 0 .. MaxFence]
    BY <1>1, PartsOfInvariant DEF TablesOK
  <1>5. CASE ActiveFence(w)
    <2>1. PICK next \in {"processed", "skipped"}, ended \in {"succeeded", "skipped"} :
             Settled(w, next, ended)
      BY <1>5 DEF Publish, Skip
    <2>2. next \in ItemStates \ OwnedItem /\ ended \in Outcomes \ {"none", "running"}
      BY DEF ItemStates, OwnedItem, Outcomes
    <2>3. outcome[claim[w]] = "running"
      BY <1>5 DEF ActiveFence
    <2> QED
      BY <1>1, <1>2, <1>3, <1>4, <2>1, <2>2, <2>3, EndStep
  <1>6. CASE ~ActiveFence(w)
    <2>1. UNCHANGED tables
      BY <1>1, <1>6 DEF Publish, Skip, tables, itemVars
    <2> QED
      BY <1>2, <1>3, <2>1, QuietLeave
  <1> QED
    BY <1>5, <1>6

(* An acknowledged cancellation keeps the invariant (acknowledgecancel). *)
LEMMA AcknowledgeCancelStep ==
  ASSUME IInv, NEW w \in Workers, AcknowledgeCancel(w)
  PROVE  IInv'
  <1> DEFINE i == claim[w][1]
             acknowledged == /\ Mine(w, i) /\ state[i] = "cancel_requested"
                             /\ outcome[claim[w]] = "running"
  <1>1. pc[w] = "acknowledge" /\ UNCHANGED <<corrected, ledgerVars>>
    BY DEF AcknowledgeCancel
  <1>2. claim[w] \in Attempts /\ claim[w] # None /\ claim[w] \notin opened \ closed
    BY <1>1, InPass, PartsOfInvariant DEF Pledged
  <1>3. CASE acknowledged
    <2>1. Settled(w, "cancelled", "cancelled") /\ Return(w, FALSE)
      BY <1>3 DEF AcknowledgeCancel
    <2>2. "cancelled" \in ItemStates \ OwnedItem /\ "cancelled" \in Outcomes \ {"none", "running"}
      BY DEF ItemStates, OwnedItem, Outcomes
    <2>3. corrected' \in [Items -> 0 .. MaxFence]
      BY <1>1, PartsOfInvariant DEF TablesOK
    <2> QED
      BY <1>1, <1>2, <1>3, <2>1, <2>2, <2>3, EndStep
  <1>4. CASE ~acknowledged
    <2>1. /\ Return(w, TRUE)
          /\ UNCHANGED <<jobVars, state, owner, live, fence, retry, outcome, run>>
      BY <1>4 DEF AcknowledgeCancel
    <2>2. UNCHANGED tables
      BY <1>1, <2>1 DEF tables, itemVars
    <2> QED
      BY <2>1, <2>2, QuietReturn
  <1> QED
    BY <1>3, <1>4

-----------------------------------------------------------------------------
(* Recovery and claims.                                                    *)

(* The job, items and requests that a recovery may leave.                  *)
LEMMA RecoveredJobType ==
  ASSUME IInv
  PROVE  /\ DrainedJob \in JobStates
         /\ RefreshedJob(jobState, RecoveredStates) \in JobStates
  <1>1. jobState \in JobStates
    BY PartsOfInvariant DEF TablesOK
  <1>2. RefreshedJob(jobState, RecoveredStates) \in JobStates
    BY <1>1, RefreshedType
  <1> QED
    BY <1>1, <1>2 DEF DrainedJob

Revived(s) ==
    \A i \in Items : \/ s[i] = RecoveredStates[i]
                     \/ RecoveredStates[i] \in {"dead_letter", "cancelled"} /\ s[i] = "queued"

(* What a claim is offered after recovery and reconsideration. *)
LEMMA OfferedFacts ==
  ASSUME IInv
  PROVE  /\ OfferedJob \in JobStates
         /\ OfferedStates \in [Items -> ItemStates]
         /\ OfferedRequests \in [Items -> RetryStates]
         /\ Revived(OfferedStates)
  <1> USE PartsOfInvariant
  <1>1. RecoveredStates \in [Items -> ItemStates]
    BY RecoveredItems DEF Tables
  <1>2. retry \in [Items -> RetryStates]
    BY DEF TablesOK
  <1> QED
    BY <1>1, <1>2, RecoveredJobType, ReconsideredFacts
       DEF OfferedJob, OfferedStates, OfferedRequests, Revived

(* What recovery without a claim does to every table. *)
LEMMA RecoverLeasesFacts ==
  ASSUME IInv, RecoverLeases
  PROVE  /\ jobState' \in JobStates
         /\ state' \in [Items -> ItemStates]
         /\ retry' \in [Items -> RetryStates]
         /\ Revived(state')
  <1> USE PartsOfInvariant
  <1>1. RecoveredStates \in [Items -> ItemStates]
    BY RecoveredItems DEF Tables
  <1>2. retry \in [Items -> RetryStates] /\ jobState \in JobStates
    BY DEF TablesOK
  <1>3. CASE Drained
    <2> DEFINE j == RefreshedJob(jobState, RecoveredStates)
    <2>1. /\ jobState' = ReconsideredJob(j, RecoveredStates, RecoveredOutcome, retry)
          /\ state' = ReconsideredStates(j, RecoveredStates, RecoveredOutcome, retry)
          /\ retry' = ReconsideredRequests(j, RecoveredStates, RecoveredOutcome, retry)
      BY <1>3 DEF RecoverLeases, Refresh, Reconsider
    <2>2. j \in JobStates
      BY RecoveredJobType
    <2> HIDE DEF j
    <2> QED
      BY <1>1, <1>2, <2>1, <2>2, ReconsideredFacts DEF Revived
  <1>4. CASE ~Drained
    BY <1>1, <1>2, <1>4 DEF RecoverLeases, Revived
  <1> QED
    BY <1>3, <1>4

(* A recovery without a claim.                                             *)
LEMMA RecoveryStep ==
  ASSUME IInv, RecoverLedger, outcome' = RecoveredOutcome, owner' = RecoveredOwner,
         UNCHANGED <<live, fence, claim>>,
         jobState' \in JobStates, state' \in [Items -> ItemStates],
         retry' \in [Items -> RetryStates], Revived(state')
  PROVE  TablesOK' /\ Tables' /\ opened' = opened /\ closed \subseteq closed'
  <1> USE PartsOfInvariant
  <1> USE RecoveredAttempts, RecoveredItems, RecoveredLedger DEF Tables
  <1>1. /\ closed' = RecoveredClosed /\ uncertain' = RecoveredUncertain
        /\ reservedCalls' = RecoveredCalls
        /\ UNCHANGED <<corrected, run, opened, intent, receipts, answer>>
    BY DEF RecoverLedger
  <1>2. TablesOK'
    BY <1>1 DEF TablesOK, Outcomes
  <1>3. \A i \in Items : state'[i] \in OwnedItem <=> state[i] \in OwnedItem /\ i \notin Lapsed
    BY DEF Revived, OwnedItem
  <1>4. SingleOwner'
    <2>1. \A i \in Items : (owner'[i] # None) <=> (state'[i] \in OwnedItem)
      BY <1>3 DEF SingleOwner
    <2>2. ASSUME NEW a \in Attempts
          PROVE  outcome'[a] = "running" <=> state'[a[1]] \in OwnedItem /\ fence'[a[1]] = a[2]
      <3>1. a[1] \in Items
        BY DEF Attempts
      <3>2. outcome[a] = "running" <=> state[a[1]] \in OwnedItem /\ fence[a[1]] = a[2]
        BY DEF SingleOwner
      <3> QED
        BY <1>3, <3>1, <3>2
    <2> QED
      BY <2>1, <2>2 DEF SingleOwner
  <1>5. LedgerBalanced' /\ (receipts \subseteq closed)'
    <2>1. closed' \subseteq opened' /\ reservedCalls' = Cardinality(opened' \ closed')
      BY <1>1
    <2>2. \A a \in opened' \ closed' : outcome'[a] = "running"
      BY <1>1 DEF TablesOK
    <2> QED
      BY <1>1, <2>1, <2>2 DEF LedgerBalanced
  <1>6. Numbered'
    <2>1. \A a \in Attempts : outcome'[a] # "none" <=> outcome[a] # "none"
      OBVIOUS
    <2> QED
      BY <1>1, <1>3, <2>1 DEF Numbered, TablesOK
  <1> QED
    BY <1>1, <1>2, <1>4, <1>5, <1>6

(* Recovery committed by a poll that finds nothing keeps the invariant     *)
(* (claimnext).                                                            *)
LEMMA ClaimNothingStep ==
  ASSUME IInv, NEW w \in Workers, ClaimNothing(w)
  PROVE  IInv'
  <1> USE PartsOfInvariant
  <1>1. /\ RecoverLedger /\ outcome' = RecoveredOutcome /\ owner' = RecoveredOwner
        /\ UNCHANGED <<live, fence, workerVars>>
        /\ jobState' \in JobStates /\ state' \in [Items -> ItemStates]
        /\ retry' \in [Items -> RetryStates] /\ Revived(state')
    BY OfferedFacts DEF ClaimNothing
  <1>2. TablesOK' /\ Tables' /\ opened' = opened /\ closed \subseteq closed'
    BY <1>1, RecoveryStep DEF workerVars
  <1>3. WorkersOK' /\ Pledged'
    BY <1>1, <1>2 DEF WorkersOK, Pledged, workerVars
  <1> QED
    BY <1>2, <1>3, InvariantParts

(* Recovery for an exited worker keeps the invariant                       *)
(* (recoverworkerclaims).                                                  *)
LEMMA RecoverExitedStep ==
  ASSUME IInv, NEW w \in Workers, RecoverExited(w)
  PROVE  IInv'
  <1> USE PartsOfInvariant
  <1>1. pc[w] = "released" /\ RecoverLeases /\ Goto(w, "gone")
    BY DEF RecoverExited
  <1>2. "gone" \in Places
    BY DEF Places
  <1>3. WorkersOK' /\ pc' = [pc EXCEPT ![w] = "gone"] /\ UNCHANGED <<claim, orig>>
    BY <1>1, <1>2, Moves
  <1>4. TablesOK' /\ Tables' /\ opened' = opened /\ closed \subseteq closed'
    BY <1>1, <1>3, RecoverLeasesFacts, RecoveryStep DEF RecoverLeases
  <1>5. Pledged'
    BY <1>1, <1>3, <1>4 DEF Pledged, WorkersOK
  <1> QED
    BY <1>3, <1>4, <1>5, InvariantParts

(* Recovery after an uncertainty hold keeps the invariant                  *)
(* (_runworkeronce).                                                       *)
LEMMA RecoverAfterHoldStep ==
  ASSUME IInv, NEW w \in Workers, RecoverAfterHold(w)
  PROVE  IInv'
  <1> USE PartsOfInvariant
  <1>1. pc[w] = "recover" /\ RecoverLeases /\ Leave(w, TRUE)
    BY DEF RecoverAfterHold
  <1>2. claim[w] # None
    BY <1>1, InPass
  <1>3. /\ WorkersOK' /\ pc' = [pc EXCEPT ![w] = "tail"]
        /\ orig' = [orig EXCEPT ![w] = None] /\ UNCHANGED claim
    BY <1>1, Moves
  <1>4. TablesOK' /\ Tables' /\ opened' = opened /\ closed \subseteq closed'
    BY <1>1, <1>3, RecoverLeasesFacts, RecoveryStep DEF RecoverLeases
  <1>5. Pledged'
    BY <1>2, <1>3, <1>4, PledgedLeave
  <1> QED
    BY <1>3, <1>4, <1>5, InvariantParts

(* A claim takes the next number of an item that recovery has left to      *)
(* nobody.                                                                 *)
LEMMA ClaimNextStep ==
  ASSUME IInv, NEW w \in Workers, ClaimNext(w)
  PROVE  IInv'
  <1> USE PartsOfInvariant
  <1>1. PICK i \in Items :
          LET a == <<i, fence[i] + 1>> IN
          /\ OfferedStates[i] = "queued"
          /\ fence[i] < MaxFence
          /\ jobState' = "running"
          /\ state' = [OfferedStates EXCEPT ![i] = "running"]
          /\ retry' = OfferedRequests
          /\ owner' = [RecoveredOwner EXCEPT ![i] = w]
          /\ live' = [live EXCEPT ![i] = TRUE]
          /\ fence' = [fence EXCEPT ![i] = @ + 1]
          /\ outcome' = [RecoveredOutcome EXCEPT ![a] = "running"]
          /\ claim' = [claim EXCEPT ![w] = a]
          /\ pc' = [pc EXCEPT ![w] = "claimed"]
    BY DEF ClaimNext
  <1> DEFINE a == <<i, fence[i] + 1>>
  <1>2. /\ pc[w] = "idle" /\ orig' = orig /\ result' = result /\ broken' = broken
        /\ closed' = RecoveredClosed /\ uncertain' = RecoveredUncertain
        /\ reservedCalls' = RecoveredCalls
        /\ UNCHANGED <<corrected, run, opened, intent, receipts, answer>>
    BY DEF ClaimNext, RecoverLedger
  <1>3. /\ a \in Attempts /\ fence[i] \in Nat /\ fence[i] + 1 \in 0 .. MaxFence
        /\ i \in Items /\ a[1] = i /\ a[2] = fence[i] + 1 /\ a # None /\ w # None
    BY <1>1, WorkAssumption, NoneIsNoAttempt DEF TablesOK, Attempts
  <1>4. outcome[a] = "none" /\ a \notin opened /\ \A x \in Workers : claim[x] # a
    BY <1>3 DEF Tables, Numbered
  <1> HIDE DEF a
  <1>5. /\ OfferedStates \in [Items -> ItemStates]
        /\ OfferedRequests \in [Items -> RetryStates]
        /\ \A k \in Items :
              OfferedStates[k] \in OwnedItem <=> state[k] \in OwnedItem /\ k \notin Lapsed
    BY OfferedFacts, RecoveredItems DEF Revived, OwnedItem, Tables
  <1>6. OfferedStates[i] \notin OwnedItem
    BY <1>1 DEF OwnedItem
  <1>7. \A k \in Items : state'[k] \in OwnedItem <=>
             k = i \/ (state[k] \in OwnedItem /\ k \notin Lapsed)
    BY <1>1, <1>5 DEF OwnedItem
  <1> USE RecoveredAttempts, RecoveredItems, RecoveredLedger DEF Tables
  <1>8. /\ outcome' \in [Attempts -> Outcomes] /\ outcome'[a] = "running"
        /\ \A b \in Attempts \ {a} : outcome'[b] = RecoveredOutcome[b]
    BY <1>1, <1>3 DEF Outcomes, a
  <1>9. fence' \in [Items -> 0 .. MaxFence] /\ fence'[i] = fence[i] + 1
        /\ \A k \in Items \ {i} : fence'[k] = fence[k]
    BY <1>1, <1>3 DEF TablesOK
  <1>10. TablesOK'
    <2>1. /\ jobState' \in JobStates
          /\ state' \in [Items -> ItemStates]
          /\ retry' \in [Items -> RetryStates]
      BY <1>1, <1>5 DEF JobStates, ItemStates
    <2>2. owner' \in [Items -> Workers \cup {None}] /\ live' \in [Items -> BOOLEAN]
      BY <1>1 DEF TablesOK
    <2> QED
      BY <1>2, <1>8, <1>9, <2>1, <2>2 DEF TablesOK, Outcomes
  <1>11. SingleOwner'
    <2>1. \A k \in Items : (owner'[k] # None) <=> (state'[k] \in OwnedItem)
      BY <1>1, <1>3, <1>7 DEF SingleOwner
    <2>2. ASSUME NEW b \in Attempts
          PROVE  outcome'[b] = "running" <=> state'[b[1]] \in OwnedItem /\ fence'[b[1]] = b[2]
      <3>1. b[1] \in Items /\ b[2] \in Nat /\ b = <<b[1], b[2]>>
        BY WorkAssumption DEF Attempts
      <3>2. CASE b = a
        BY <1>3, <1>7, <1>8, <1>9, <3>2
      <3>3. CASE b # a /\ b[1] = i
        <4>1. fence'[b[1]] # b[2]
          BY <1>9, <3>1, <3>3 DEF a
        <4>2. RecoveredOutcome[b] # "running"
          BY <1>5, <1>6, <3>1, <3>3 DEF SingleOwner
        <4> QED
          BY <1>8, <3>3, <4>1, <4>2
      <3>4. CASE b[1] # i
        <4>1. b # a
          BY <1>3, <3>4
        <4>2. outcome[b] = "running" <=> state[b[1]] \in OwnedItem /\ fence[b[1]] = b[2]
          BY DEF SingleOwner
        <4> QED
          BY <1>7, <1>8, <1>9, <3>1, <3>4, <4>1, <4>2
      <3> QED
        BY <3>2, <3>3, <3>4
    <2>3. \A x, y \in Workers : x # y /\ claim'[x] # None => claim'[x] # claim'[y]
      BY <1>1, <1>4 DEF a, SingleOwner, WorkersOK
    <2> QED
      BY <2>1, <2>2, <2>3 DEF SingleOwner
  <1>12. LedgerBalanced' /\ (receipts \subseteq closed)'
    <2>1. \A b \in opened' \ closed' : outcome'[b] = "running"
      BY <1>2, <1>4, <1>8 DEF TablesOK
    <2> QED
      BY <1>2, <2>1 DEF LedgerBalanced
  <1>13. Numbered'
    <2>1. ASSUME NEW b \in Attempts PROVE outcome'[b] # "none" <=> b[2] <= fence'[b[1]]
      <3>1. b[1] \in Items /\ b[2] \in Nat /\ b = <<b[1], b[2]>>
        BY WorkAssumption DEF Attempts
      <3>2. outcome[b] # "none" <=> b[2] <= fence[b[1]]
        BY DEF Numbered
      <3>3. CASE b = a
        BY <1>3, <1>8, <1>9, <3>3
      <3>4. CASE b # a
        <4>1. outcome'[b] # "none" <=> outcome[b] # "none"
          BY <1>8, <3>4
        <4>2. b[1] = i => b[2] # fence[i] + 1
          BY <3>1, <3>4 DEF a
        <4>3. fence[b[1]] \in Nat
          BY <3>1 DEF TablesOK
        <4> QED
          BY <1>9, <3>1, <3>2, <4>1, <4>2, <4>3
      <3> QED
        BY <3>3, <3>4
    <2>2. \A b \in opened' : outcome'[b] # "none"
      BY <1>2, <1>8 DEF Numbered, TablesOK
    <2>3. ASSUME NEW x \in Workers, claim'[x] # None
          PROVE  claim'[x][2] <= fence'[claim'[x][1]]
      <3>1. CASE x = w
        BY <1>1, <1>3, <1>9, <3>1 DEF a, WorkersOK
      <3>2. CASE x # w
        <4>1. claim'[x] = claim[x] /\ claim[x] \in Attempts
          BY <1>1, <2>3, <3>2 DEF WorkersOK
        <4>2. claim[x][1] \in Items /\ claim[x][2] \in Nat /\ fence[claim[x][1]] \in Nat
          BY <4>1, WorkAssumption DEF Attempts, TablesOK
        <4>3. claim[x][2] <= fence[claim[x][1]]
          BY <2>3, <4>1 DEF Numbered
        <4> QED
          BY <1>3, <1>9, <4>1, <4>2, <4>3
      <3> QED
        BY <3>1, <3>2
    <2>4. \A k \in Items : state'[k] \in OwnedItem => fence'[k] # 0
      BY <1>3, <1>7, <1>9 DEF Numbered
    <2> QED
      BY <2>1, <2>2, <2>3, <2>4 DEF Numbered
  <1>14. WorkersOK'
    BY <1>1, <1>2, <1>3 DEF WorkersOK, Places, a
  <1>15. Pledged'
    <2>1. claim' = [claim EXCEPT ![w] = a] /\ pc' = [pc EXCEPT ![w] = "claimed"]
      BY <1>1 DEF a
    <2> QED
      BY <1>2, <1>3, <1>4, <2>1 DEF Pledged, WorkersOK
  <1> QED
    BY <1>10, <1>11, <1>12, <1>13, <1>14, <1>15, InvariantParts DEF Tables

-----------------------------------------------------------------------------
(* Operator commands.                                                      *)

(* A command may queue dead items and ask owned ones to cancel, but it     *)
(* neither gives an item an owner nor takes one away.                      *)
LEMMA CommandStep ==
  ASSUME IInv, UNCHANGED Elsewhere,
         NEW j \in JobStates, NEW s \in [Items -> ItemStates], NEW r \in [Items -> RetryStates],
         Reconsider(j, s, outcome, r),
         \A i \in Items : s[i] \in OwnedItem <=> state[i] \in OwnedItem
  PROVE  IInv'
  <1> USE PartsOfInvariant
  <1>1. UNCHANGED <<reservedCalls, owner, live, fence, corrected, outcome, run, ledgerVars,
                    workerVars>>
    BY DEF Elsewhere
  <1>2. /\ jobState' \in JobStates
        /\ state' \in [Items -> ItemStates]
        /\ retry' \in [Items -> RetryStates]
        /\ \A i \in Items : \/ state'[i] = s[i]
                            \/ s[i] \in {"dead_letter", "cancelled"} /\ state'[i] = "queued"
    BY ReconsideredFacts DEF Reconsider
  <1>3. \A i \in Items : state'[i] \in OwnedItem <=> state[i] \in OwnedItem
    BY <1>2 DEF OwnedItem
  <1>4. TablesOK' /\ WorkersOK' /\ Pledged'
    BY <1>1, <1>2 DEF TablesOK, WorkersOK, Pledged, ledgerVars, workerVars
  <1>5. Tables'
    BY <1>1, <1>3, Bystanders DEF ledgerVars, workerVars
  <1> QED
    BY <1>4, <1>5, InvariantParts

(* Every operator command keeps the invariant. *)
LEMMA OperatorStep ==
  ASSUME IInv, Operator
  PROVE  IInv'
  <1> USE PartsOfInvariant
  <1>1. /\ jobState \in JobStates /\ state \in [Items -> ItemStates]
        /\ retry \in [Items -> RetryStates]
    BY DEF TablesOK
  <1>2. CASE RequestCancel
    <2> DEFINE s == [i \in Items |-> CASE state[i] = "queued"  -> "cancelled"
                                       [] state[i] = "running" -> "cancel_requested"
                                       [] OTHER                -> state[i]]
    <2>1. /\ s \in [Items -> ItemStates]
          /\ \A i \in Items : s[i] \in OwnedItem <=> state[i] \in OwnedItem
      BY <1>1 DEF ItemStates, OwnedItem
    <2>2. Refresh("cancel_requested", s, outcome, retry) /\ UNCHANGED Elsewhere
      BY <1>2 DEF RequestCancel
    <2> HIDE DEF s
    <2>3. RefreshedJob("cancel_requested", s) \in JobStates
      BY RefreshedType DEF JobStates
    <2>4. Reconsider(RefreshedJob("cancel_requested", s), s, outcome, retry)
      BY <2>2 DEF Refresh
    <2> QED
      BY <1>1, <2>1, <2>2, <2>3, <2>4, CommandStep
  <1>3. CASE PauseJob \/ (ResumeJob /\ UNCHANGED <<state, retry>> /\ jobState' = "queued")
    <2>1. UNCHANGED <<state, retry, Elsewhere>> /\ jobState' \in JobStates
      BY <1>3 DEF PauseJob, ResumeJob, JobStates
    <2>2. TablesOK' /\ WorkersOK' /\ Pledged'
      BY <2>1 DEF Elsewhere, TablesOK, WorkersOK, Pledged, ledgerVars, workerVars
    <2>3. Tables'
      BY <2>1, Bystanders DEF Elsewhere, ledgerVars, workerVars
    <2> QED
      BY <2>2, <2>3, InvariantParts
  <1>4. CASE ResumeJob /\ ~(UNCHANGED <<state, retry>> /\ jobState' = "queued")
    <2>1. Refresh("queued", state, outcome, retry) /\ UNCHANGED Elsewhere
      BY <1>4 DEF ResumeJob
    <2>2. RefreshedJob("queued", state) \in JobStates
      BY RefreshedType DEF JobStates
    <2> QED
      BY <1>1, <2>1, <2>2, CommandStep DEF Refresh
  <1>5. ASSUME NEW i \in Items, RetryDeadLetter(i) PROVE IInv'
    <2> DEFINE r == [retry EXCEPT ![i] = IF @ = "none" THEN "pending" ELSE @]
    <2>1. Reconsider(jobState, state, outcome, r) /\ UNCHANGED Elsewhere
      BY <1>5 DEF RetryDeadLetter
    <2>2. r \in [Items -> RetryStates]
      BY <1>1 DEF RetryStates
    <2> HIDE DEF r
    <2> QED
      BY <1>1, <2>1, <2>2, CommandStep
  <1> QED
    BY <1>2, <1>3, <1>4, <1>5 DEF Operator

-----------------------------------------------------------------------------
(* The invariant.                                                          *)

(* The invariant holds of a job no worker has seen. *)
LEMMA InitInvariant == Init => IInv
  <1> SUFFICES ASSUME Init PROVE IInv
    OBVIOUS
  <1>1. TypeOK
    BY WorkAssumption DEF Init, TypeOK, JobStates, ItemStates
  <1>2. SingleOwner
    BY DEF Init, SingleOwner, OwnedItem, Attempts
  <1>3. LedgerBalanced
    BY FS_EmptySet DEF Init, LedgerBalanced
  <1>4. Numbered
    <2>1. ASSUME NEW a \in Attempts PROVE ~(a[2] <= fence[a[1]])
      BY WorkAssumption DEF Init, Attempts
    <2> QED
      BY <2>1 DEF Init, Numbered, OwnedItem
  <1>5. Pledged
    BY DEF Init, Pledged
  <1> QED
    BY <1>1, <1>2, <1>3, <1>4, <1>5 DEF IInv, Init

(* Every step keeps the invariant, one action at a time. *)
LEMMA NextInvariant == IInv /\ [Next]_vars => IInv'
  <1> SUFFICES ASSUME IInv, [Next]_vars PROVE IInv'
    OBVIOUS
  <1>1. ASSUME NEW w \in Workers, Claim(w) PROVE IInv'
    BY <1>1, ClaimNextStep, ClaimNothingStep DEF Claim
  <1>2. ASSUME NEW w \in Workers, Pass(w) PROVE IInv'
    <2>1. CASE \/ ReadReceipt(w) \/ PolicyUnavailable(w) \/ Deny(w) \/ ReserveBusy(w)
               \/ Process(w) \/ PreventCall(w) \/ UseStoredVector(w)
      BY <2>1, ReadReceiptStep, DenyStep, ProcessStep
    <2>2. CASE BeginRequest(w) \/ RecordResponse(w) \/ LoseResponse(w) \/ HoldUncertain(w)
      BY <2>2, BeginRequestStep, RecordResponseStep, LoseResponseStep, HoldUncertainStep
    <2>3. CASE Reserve(w) \/ Settle(w) \/ SettleOriginal(w) \/ LinkReceipt(w)
      BY <2>3, ReserveStep, SettleStep, SettleOriginalStep, LinkReceiptStep
    <2>4. CASE Decide(w) \/ PublicationFails(w) \/ SeeCancel(w) \/ EndPass(w)
      BY <2>4, DecideStep, ReturnStep
    <2>5. CASE Defer(w) \/ RecoverAfterHold(w) \/ AcknowledgeCancel(w)
      BY <2>5, DeferStep, RecoverAfterHoldStep, AcknowledgeCancelStep
    <2>6. CASE \/ FailUnanswered(w) \/ FailDenied(w) \/ FailResult(w) \/ FailPublication(w)
               \/ Publish(w) \/ Skip(w)
      BY <2>6, FailureStep, PublishStep
    <2> QED
      BY <1>2, <2>1, <2>2, <2>3, <2>4, <2>5, <2>6 DEF Pass
  <1>3. ASSUME NEW w \in Workers, Exit(w) PROVE IInv'
    BY <1>3, ReturnStep
  <1>4. ASSUME NEW w \in Workers, Reap(w) PROVE IInv'
    BY <1>4, ReleaseExitedStep, RecoverExitedStep DEF Reap
  <1>5. ASSUME NEW i \in Items, LeaseLapses(i) PROVE IInv'
    BY <1>5, LeaseLapsesStep
  <1>6. CASE Operator
    BY <1>6, OperatorStep
  <1>7. CASE UNCHANGED vars
    <2>1. UNCHANGED tables /\ UNCHANGED workerVars
      BY <1>7 DEF vars
    <2>2. WorkersOK' /\ Pledged'
      BY <2>1, PartsOfInvariant
         DEF WorkersOK, Pledged, tables, ledgerVars, workerVars
    <2> QED
      BY <2>1, <2>2, QuietStep DEF workerVars
  <1> QED
    BY <1>1, <1>2, <1>3, <1>4, <1>5, <1>6, <1>7 DEF Next

(* The inductive invariant holds in every reachable state: the tables      *)
(* are typed, owners single, the ledger balanced, receipts closed,         *)
(* attempts numbered, and each worker has earned its place in its pass.    *)
THEOREM Invariant == Spec => []IInv
  BY InitInvariant, NextInvariant, PTL DEF Spec

(* Every variable keeps its type; the counter of reserved calls never goes *)
(* below zero (settlecall, closeexpiredreservations).                      *)
THEOREM TypeCorrect == Spec => []TypeOK
  <1>1. IInv => TypeOK
    BY DEF IInv
  <1> QED
    BY <1>1, Invariant, PTL

(* An item never has two owners and no attempt outlives its claim, however *)
(* leases lapse and processes exit (claimnext, activeworkfence).           *)
THEOREM OwnersAreSingle == Spec => []SingleOwner
  <1>1. IInv => SingleOwner
    BY DEF IInv
  <1> QED
    BY <1>1, Invariant, PTL

(* The counter of reserved calls agrees with the event ledger, and no path *)
(* out of a claim leaks a reservation (reservecall, settlecall,            *)
(* closeexpiredreservations).                                              *)
THEOREM LedgerBalances == Spec => []LedgerBalanced
  <1>1. IInv => LedgerBalanced
    BY DEF IInv
  <1> QED
    BY <1>1, Invariant, PTL

-----------------------------------------------------------------------------
(* The queue implements the promise of ItemPromise.                        *)

Finished == {"succeeded", "skipped"}

(* An attempt that finished its item left it finished.                     *)
WinnersDone == \A a \in Attempts : outcome[a] \in Finished => state[a[1]] \in DoneItem

(* An unfinished item has no winner. *)
LEMMA NoWinner ==
  ASSUME WinnersDone, NEW i \in Items, state[i] \notin DoneItem
  PROVE  Winners[i] = {}
  <1>1. \A f \in 1 .. MaxFence : <<i, f>> \in Attempts
    BY DEF Attempts
  <1> QED
    BY <1>1 DEF WinnersDone, Winners, Finished

(* An item that keeps its holder and its finished attempts rests. *)
LEMMA RestItem ==
  ASSUME NEW i \in Items, fence'[i] = fence[i],
         state'[i] \in OwnedItem <=> state[i] \in OwnedItem,
         \A f \in 1 .. MaxFence : outcome'[<<i, f>>] \in Finished <=> outcome[<<i, f>>] \in Finished
  PROVE  Promise!Rest(i)
  <1>1. Holder'[i] = Holder[i]
    BY DEF Holder
  <1>2. Winners'[i] = Winners[i]
    BY DEF Winners, Finished
  <1> QED
    BY <1>1, <1>2 DEF Promise!Rest

(* An item that loses its holder unfinished is dropped. *)
LEMMA DropItem ==
  ASSUME NEW i \in Items, fence'[i] = fence[i], fence[i] # 0,
         state[i] \in OwnedItem, state'[i] \notin OwnedItem,
         \A f \in 1 .. MaxFence : outcome'[<<i, f>>] \in Finished <=> outcome[<<i, f>>] \in Finished
  PROVE  Promise!Drop(i)
  <1>1. Holder[i] # 0 /\ Holder'[i] = 0
    BY DEF Holder
  <1>2. Winners'[i] = Winners[i]
    BY DEF Winners, Finished
  <1> QED
    BY <1>1, <1>2 DEF Promise!Drop

(* An item whose current attempt finishes it gets its one winner. *)
LEMMA FinishItem ==
  ASSUME WinnersDone, NEW i \in Items, fence'[i] = fence[i], fence[i] \in 1 .. MaxFence,
         state[i] \in OwnedItem, state'[i] \notin OwnedItem,
         \A f \in 1 .. MaxFence : outcome'[<<i, f>>] \in Finished <=>
             (outcome[<<i, f>>] \in Finished \/ f = fence[i])
  PROVE  Promise!Finish(i)
  <1>1. Holder[i] = fence[i] /\ Holder'[i] = 0 /\ fence[i] # 0
    BY DEF Holder
  <1>2. Winners[i] = {}
    BY NoWinner DEF OwnedItem, DoneItem
  <1>3. Winners'[i] = {fence[i]}
    BY <1>2 DEF Winners, Finished
  <1> QED
    BY <1>1, <1>2, <1>3 DEF Promise!Finish

(* An item claimed anew is granted. *)
LEMMA GrantItem ==
  ASSUME WinnersDone, NEW i \in Items, fence'[i] = fence[i] + 1,
         state[i] \notin DoneItem, state'[i] \in OwnedItem,
         \A f \in 1 .. MaxFence : outcome'[<<i, f>>] \in Finished <=> outcome[<<i, f>>] \in Finished
  PROVE  Promise!Grant(i)
  <1>1. Holder'[i] = fence'[i]
    BY DEF Holder
  <1>2. Winners'[i] = Winners[i]
    BY DEF Winners, Finished
  <1> QED
    BY <1>1, <1>2, NoWinner DEF Promise!Grant

(* A step that leaves items and attempts alone is a stutter of the         *)
(* promise.                                                                *)
LEMMA QuietPromise ==
  ASSUME WinnersDone, UNCHANGED <<fence, outcome>>,
         \A i \in Items : state'[i] \in OwnedItem <=> state[i] \in OwnedItem,
         \A i \in Items : state[i] \in DoneItem => state'[i] \in DoneItem
  PROVE  WinnersDone' /\ Promise!PromiseNext
  <1>1. WinnersDone'
    BY DEF WinnersDone, Attempts
  <1>2. ASSUME NEW i \in Items PROVE Promise!Rest(i)
    BY RestItem
  <1> QED
    BY <1>1, <1>2 DEF Promise!PromiseNext

(* The end of a claim is a Drop or a Finish. *)
LEMMA SettledPromise ==
  ASSUME IInv, WinnersDone, NEW w \in Workers,
         NEW next \in ItemStates \ OwnedItem, NEW ended \in Outcomes \ {"none", "running"},
         ended \in Finished => next \in DoneItem,
         claim[w] \in Attempts, outcome[claim[w]] = "running",
         Settled(w, next, ended)
  PROVE  WinnersDone' /\ Promise!PromiseNext
  <1> USE PartsOfInvariant
  <1> DEFINE a == claim[w]
             i == a[1]
             s == [state EXCEPT ![i] = next]
             o == [outcome EXCEPT ![a] = ended]
  <1>1. /\ a \in Attempts /\ i \in Items /\ a = <<i, fence[i]>>
        /\ fence[i] \in 1 .. MaxFence /\ fence[i] # 0 /\ state[i] \in OwnedItem
    BY WorkAssumption DEF Tables, SingleOwner, Attempts
  <1>2. outcome' = o /\ fence' = fence /\ Refresh(jobState, s, o, retry)
    BY DEF Settled
  <1>3. s \in [Items -> ItemStates] /\ s[i] = next /\ \A k \in Items \ {i} : s[k] = state[k]
    BY <1>1 DEF TablesOK
  <1>4. o[a] = ended /\ \A b \in Attempts \ {a} : o[b] = outcome[b]
    BY <1>1 DEF TablesOK
  <1> HIDE DEF a, i, s, o
  <1>5. \A k \in Items : \/ state'[k] = s[k]
                         \/ s[k] \in {"dead_letter", "cancelled"} /\ state'[k] = "queued"
    <2> DEFINE j == RefreshedJob(jobState, s)
    <2>1. j \in JobStates /\ retry \in [Items -> RetryStates]
      BY RefreshedType DEF TablesOK
    <2>2. state' = ReconsideredStates(j, s, o, retry)
      BY <1>2 DEF Refresh, Reconsider
    <2> HIDE DEF j
    <2> QED
      BY <1>3, <2>1, <2>2, ReconsideredFacts
  <1>6. WinnersDone'
    <2>1. ASSUME NEW b \in Attempts, outcome'[b] \in Finished PROVE state'[b[1]] \in DoneItem
      <3>1. b[1] \in Items
        BY DEF Attempts
      <3>2. CASE b = a
        BY <1>2, <1>3, <1>4, <1>5, <2>1, <3>1, <3>2 DEF i, DoneItem
      <3>3. CASE b # a
        <4>1. state[b[1]] \in DoneItem
          BY <1>2, <1>4, <2>1, <3>3 DEF WinnersDone
        <4>2. b[1] # i
          BY <1>1, <4>1 DEF OwnedItem, DoneItem
        <4> QED
          BY <1>3, <1>5, <3>1, <4>1, <4>2 DEF DoneItem
      <3> QED
        BY <3>2, <3>3
    <2> QED
      BY <2>1 DEF WinnersDone
  <1>7. ASSUME NEW k \in Items, k # i PROVE Promise!Rest(k)
    <2>1. state'[k] \in OwnedItem <=> state[k] \in OwnedItem
      BY <1>3, <1>5, <1>7 DEF OwnedItem
    <2>2. ASSUME NEW f \in 1 .. MaxFence PROVE outcome'[<<k, f>>] = outcome[<<k, f>>]
      BY <1>1, <1>2, <1>4, <1>7 DEF Attempts
    <2> QED
      BY <1>2, <2>1, <2>2, RestItem
  <1>8. Promise!Drop(i) \/ Promise!Finish(i)
    <2>1. state'[i] \notin OwnedItem
      BY <1>1, <1>3, <1>5 DEF OwnedItem
    <2>2. ASSUME NEW f \in 1 .. MaxFence
          PROVE  /\ f = fence[i] => /\ outcome[<<i, f>>] \notin Finished
                                    /\ outcome'[<<i, f>>] = ended
                 /\ f # fence[i] => outcome'[<<i, f>>] = outcome[<<i, f>>]
      BY <1>1, <1>2, <1>4 DEF Attempts, Finished, a
    <2>3. CASE ended \in Finished
      BY <1>1, <1>2, <2>1, <2>2, <2>3, FinishItem
    <2>4. CASE ended \notin Finished
      BY <1>1, <1>2, <2>1, <2>2, <2>4, DropItem
    <2> QED
      BY <2>3, <2>4
  <1> QED
    BY <1>6, <1>7, <1>8 DEF Promise!PromiseNext

(* Recovery finishes no attempt. *)
LEMMA RecoveredWinners ==
  ASSUME IInv
  PROVE  \A a \in Attempts : RecoveredOutcome[a] \in Finished <=> outcome[a] \in Finished
  BY PartsOfInvariant, RecoveredAttempts DEF Tables, Finished

(* Recovery drops the lapsed items and leaves the others alone. *)
LEMMA RecoveryPromise ==
  ASSUME IInv, WinnersDone, outcome' = RecoveredOutcome, fence' = fence, Revived(state')
  PROVE  WinnersDone' /\ Promise!PromiseNext
  <1> USE PartsOfInvariant, RecoveredItems, RecoveredWinners DEF Tables
  <1>1. \A i \in Items : state[i] \in DoneItem => state'[i] = state[i]
    BY DEF Revived, DoneItem, OwnedItem
  <1>2. WinnersDone'
    BY <1>1 DEF WinnersDone, Attempts
  <1>3. ASSUME NEW i \in Items
        PROVE  Promise!Rest(i) \/ Promise!Drop(i)
    <2>1. \A f \in 1 .. MaxFence :
             outcome'[<<i, f>>] \in Finished <=> outcome[<<i, f>>] \in Finished
      BY DEF Attempts
    <2>2. CASE i \in Lapsed
      <3>1. state[i] \in OwnedItem /\ state'[i] \notin OwnedItem /\ fence[i] # 0
        BY <2>2 DEF Revived, OwnedItem, Numbered
      <3> QED
        BY <2>1, <3>1, DropItem
    <2>3. CASE i \notin Lapsed
      <3>1. state'[i] \in OwnedItem <=> state[i] \in OwnedItem
        BY <2>3 DEF Revived, OwnedItem
      <3> QED
        BY <2>1, <3>1, RestItem
    <2> QED
      BY <2>2, <2>3
  <1> QED
    BY <1>2, <1>3 DEF Promise!PromiseNext

(* A claim grants one item and drops the lapsed ones. *)
LEMMA ClaimPromise ==
  ASSUME IInv, WinnersDone, NEW w \in Workers, ClaimNext(w)
  PROVE  WinnersDone' /\ Promise!PromiseNext
  <1> USE PartsOfInvariant, RecoveredItems, RecoveredWinners DEF Tables
  <1>1. PICK i \in Items :
          /\ OfferedStates[i] = "queued"
          /\ fence[i] < MaxFence
          /\ state' = [OfferedStates EXCEPT ![i] = "running"]
          /\ fence' = [fence EXCEPT ![i] = @ + 1]
          /\ outcome' = [RecoveredOutcome EXCEPT ![<<i, fence[i] + 1>>] = "running"]
    BY DEF ClaimNext
  <1>2. /\ OfferedStates \in [Items -> ItemStates] /\ Revived(OfferedStates)
        /\ fence[i] \in Nat /\ fence'[i] = fence[i] + 1
        /\ \A k \in Items \ {i} : fence'[k] = fence[k] /\ state'[k] = OfferedStates[k]
        /\ state'[i] = "running"
    BY <1>1, OfferedFacts, WorkAssumption DEF TablesOK
  <1>3. \A k \in Items : state[k] \in DoneItem => state'[k] = state[k]
    BY <1>1, <1>2 DEF Revived, DoneItem, OwnedItem
  <1>4. \A a \in Attempts : outcome'[a] \in Finished <=> outcome[a] \in Finished
    <2>1. <<i, fence[i] + 1>> \in Attempts
      BY <1>1, <1>2, WorkAssumption DEF Attempts
    <2>2. outcome[<<i, fence[i] + 1>>] = "none"
      BY <1>2, <2>1 DEF Numbered, TablesOK
    <2>3. RecoveredOutcome \in [Attempts -> Outcomes]
      BY RecoveredAttempts DEF Outcomes
    <2> QED
      BY <1>1, <2>1, <2>2, <2>3 DEF Finished
  <1>5. WinnersDone'
    BY <1>3, <1>4 DEF WinnersDone, Attempts
  <1>6. ASSUME NEW k \in Items
        PROVE  Promise!Grant(k) \/ Promise!Rest(k) \/ Promise!Drop(k)
    <2>1. \A f \in 1 .. MaxFence :
             outcome'[<<k, f>>] \in Finished <=> outcome[<<k, f>>] \in Finished
      BY <1>4 DEF Attempts
    <2>2. CASE k = i
      <3>1. state[k] \notin DoneItem
        BY <1>1, <1>2, <1>3, <2>2 DEF DoneItem
      <3>2. state'[k] \in OwnedItem
        BY <1>2, <2>2 DEF OwnedItem
      <3> QED
        BY <1>2, <2>1, <2>2, <3>1, <3>2, GrantItem
    <2>3. CASE k # i /\ k \in Lapsed
      <3>1. state[k] \in OwnedItem /\ state'[k] \notin OwnedItem /\ fence[k] # 0
        BY <1>2, <2>3 DEF Revived, OwnedItem, Numbered
      <3> QED
        BY <1>2, <2>1, <2>3, <3>1, DropItem
    <2>4. CASE k # i /\ k \notin Lapsed
      <3>1. state'[k] \in OwnedItem <=> state[k] \in OwnedItem
        BY <1>2, <2>4 DEF Revived, OwnedItem
      <3> QED
        BY <1>2, <2>1, <2>4, <3>1, RestItem
    <2> QED
      BY <2>2, <2>3, <2>4
  <1> QED
    BY <1>5, <1>6 DEF Promise!PromiseNext

(* Operator commands neither grant, drop nor finish. *)
LEMMA CommandPromise ==
  ASSUME IInv, WinnersDone, Operator
  PROVE  WinnersDone' /\ Promise!PromiseNext
  <1> USE PartsOfInvariant
  <1>1. UNCHANGED <<fence, outcome>>
    BY DEF Operator, RequestCancel, PauseJob, ResumeJob, RetryDeadLetter, Elsewhere
  <1>2. /\ jobState \in JobStates /\ state \in [Items -> ItemStates]
        /\ retry \in [Items -> RetryStates]
    BY DEF TablesOK
  <1>3. \A i \in Items : /\ state'[i] \in OwnedItem <=> state[i] \in OwnedItem
                         /\ state[i] \in DoneItem => state'[i] \in DoneItem
    <2>1. ASSUME NEW j \in JobStates, NEW s \in [Items -> ItemStates],
                 NEW r \in [Items -> RetryStates],
                 state' = ReconsideredStates(j, s, outcome, r),
                 \A i \in Items : /\ s[i] \in OwnedItem <=> state[i] \in OwnedItem
                                  /\ state[i] \in DoneItem => s[i] \in DoneItem
          PROVE  \A i \in Items : /\ state'[i] \in OwnedItem <=> state[i] \in OwnedItem
                                  /\ state[i] \in DoneItem => state'[i] \in DoneItem
      BY <2>1, ReconsideredFacts DEF OwnedItem, DoneItem
    <2>2. CASE RequestCancel
      <3> DEFINE s == [i \in Items |-> CASE state[i] = "queued"  -> "cancelled"
                                         [] state[i] = "running" -> "cancel_requested"
                                         [] OTHER                -> state[i]]
      <3>1. /\ s \in [Items -> ItemStates]
            /\ \A i \in Items : /\ s[i] \in OwnedItem <=> state[i] \in OwnedItem
                                /\ state[i] \in DoneItem => s[i] \in DoneItem
        BY <1>2 DEF ItemStates, OwnedItem, DoneItem
      <3>2. Refresh("cancel_requested", s, outcome, retry)
        BY <2>2 DEF RequestCancel
      <3> HIDE DEF s
      <3>3. RefreshedJob("cancel_requested", s) \in JobStates
        BY RefreshedType DEF JobStates
      <3>4. state' = ReconsideredStates(RefreshedJob("cancel_requested", s), s, outcome, retry)
        BY <3>2 DEF Refresh, Reconsider
      <3> QED
        BY <1>2, <2>1, <3>1, <3>3, <3>4
    <2>3. CASE (PauseJob \/ ResumeJob) /\ UNCHANGED state
      BY <2>3
    <2>4. CASE ResumeJob /\ state' # state
      <3>1. Refresh("queued", state, outcome, retry)
        BY <2>4 DEF ResumeJob
      <3>2. RefreshedJob("queued", state) \in JobStates
        BY RefreshedType DEF JobStates
      <3>3. state' = ReconsideredStates(RefreshedJob("queued", state), state, outcome, retry)
        BY <3>1 DEF Refresh, Reconsider
      <3> QED
        BY <1>2, <2>1, <3>2, <3>3
    <2>5. ASSUME NEW i \in Items, RetryDeadLetter(i)
          PROVE  \A k \in Items : /\ state'[k] \in OwnedItem <=> state[k] \in OwnedItem
                                  /\ state[k] \in DoneItem => state'[k] \in DoneItem
      <3> DEFINE r == [retry EXCEPT ![i] = IF @ = "none" THEN "pending" ELSE @]
      <3>1. r \in [Items -> RetryStates]
        BY <1>2 DEF RetryStates
      <3>2. state' = ReconsideredStates(jobState, state, outcome, r)
        BY <2>5 DEF RetryDeadLetter, Reconsider
      <3> HIDE DEF r
      <3> QED
        BY <1>2, <2>1, <3>1, <3>2
    <2>6. PauseJob => UNCHANGED state
      BY DEF PauseJob
    <2> QED
      BY <2>2, <2>3, <2>4, <2>5, <2>6 DEF Operator
  <1> QED
    BY <1>1, <1>3, QuietPromise

(* A pass ends a claim at most once, and only with a finished item when it *)
(* publishes.                                                              *)
LEMMA EndPromise ==
  ASSUME IInv, WinnersDone, NEW w \in Workers,
         \/ Defer(w) \/ FailUnanswered(w) \/ FailDenied(w) \/ FailResult(w)
         \/ FailPublication(w) \/ Publish(w) \/ Skip(w) \/ AcknowledgeCancel(w)
  PROVE  WinnersDone' /\ Promise!PromiseNext
  <1>1. claim[w] \in Attempts
    <2>1. pc[w] \in {"reserve", "unanswered", "denied", "finish", "retry", "acknowledge"}
      BY DEF Defer, FailUnanswered, FailDenied, FailResult, FailPublication, Publish, Skip,
             AcknowledgeCancel
    <2> QED
      BY <2>1, InPass
  <1>2. CASE UNCHANGED <<state, fence, outcome>>
    BY <1>2, QuietPromise
  <1>3. ASSUME outcome[claim[w]] = "running",
               NEW retryable, NEW uncalled, NEW citation,
               Failed(w, retryable, uncalled, citation)
        PROVE  WinnersDone' /\ Promise!PromiseNext
    <2>1. PICK next \in ItemStates \ OwnedItem,
               ended \in Outcomes \ {"none", "running", "succeeded", "skipped"} :
               Settled(w, next, ended)
      BY <1>1, <1>3, FailedSettles
    <2>2. ended \in Outcomes \ {"none", "running"} /\ ended \notin Finished
      BY DEF Finished
    <2> QED
      BY <1>1, <1>3, <2>1, <2>2, SettledPromise
  <1>4. CASE FailUnanswered(w) /\ ~UNCHANGED <<state, fence, outcome>>
    BY <1>3, <1>4 DEF FailUnanswered, ActiveFence, itemVars
  <1>5. CASE FailDenied(w) /\ ~UNCHANGED <<state, fence, outcome>>
    BY <1>3, <1>5 DEF FailDenied, ActiveFence, itemVars
  <1>6. CASE FailResult(w) /\ ~UNCHANGED <<state, fence, outcome>>
    BY <1>3, <1>6 DEF FailResult, ActiveFence, itemVars
  <1>7. CASE FailPublication(w) /\ ~UNCHANGED <<state, fence, outcome>>
    BY <1>3, <1>7 DEF FailPublication, ActiveFence, itemVars
  <1>8. ASSUME NEW next \in {"queued", "processed", "skipped", "cancelled"},
               NEW ended \in {"cancelled", "succeeded", "skipped"},
               ended \in Finished => next \in DoneItem,
               outcome[claim[w]] = "running", Settled(w, next, ended)
        PROVE  WinnersDone' /\ Promise!PromiseNext
    <2>1. next \in ItemStates \ OwnedItem /\ ended \in Outcomes \ {"none", "running"}
      BY DEF ItemStates, OwnedItem, Outcomes
    <2> QED
      BY <1>1, <1>8, <2>1, SettledPromise
  <1>9. CASE Defer(w)
    BY <1>8, <1>9 DEF Defer, Admissible, ActiveFence, Finished
  <1>10. CASE Publish(w)
    BY <1>8, <1>10 DEF Publish, ActiveFence, DoneItem
  <1>11. CASE Skip(w) /\ ~UNCHANGED <<state, fence, outcome>>
    BY <1>8, <1>11 DEF Skip, ActiveFence, DoneItem
  <1>12. CASE AcknowledgeCancel(w) /\ ~UNCHANGED <<state, fence, outcome>>
    BY <1>8, <1>12 DEF AcknowledgeCancel, Finished
  <1> QED
    BY <1>2, <1>4, <1>5, <1>6, <1>7, <1>9, <1>10, <1>11, <1>12

(* Every step of the queue is a step or a stutter of the promise. *)
LEMMA StepPromise ==
  ASSUME IInv, WinnersDone, [Next]_vars
  PROVE  WinnersDone' /\ [Promise!PromiseNext]_(Promise!promiseVars)
  <1>1. CASE UNCHANGED <<state, fence, outcome>>
    BY <1>1, QuietPromise
  <1>2. ASSUME NEW w \in Workers, Claim(w) PROVE WinnersDone' /\ Promise!PromiseNext
    <2>1. CASE ClaimNext(w)
      BY <2>1, ClaimPromise
    <2>2. CASE ClaimNothing(w)
      BY <2>2, OfferedFacts, RecoveryPromise DEF ClaimNothing
    <2> QED
      BY <1>2, <2>1, <2>2 DEF Claim
  <1>3. ASSUME NEW w \in Workers, RecoverAfterHold(w) \/ RecoverExited(w)
        PROVE  WinnersDone' /\ Promise!PromiseNext
    <2>1. RecoverLeases
      BY <1>3 DEF RecoverAfterHold, RecoverExited
    <2> QED
      BY <2>1, RecoverLeasesFacts, RecoveryPromise DEF RecoverLeases
  <1>4. ASSUME NEW w \in Workers, Pass(w) PROVE WinnersDone' /\ Promise!PromiseNext
    <2>1. CASE \/ ReadReceipt(w) \/ PolicyUnavailable(w) \/ Deny(w) \/ ReserveBusy(w)
               \/ Process(w) \/ PreventCall(w) \/ UseStoredVector(w)
               \/ LoseResponse(w) \/ Decide(w) \/ PublicationFails(w) \/ SeeCancel(w)
               \/ EndPass(w)
      <3>1. UNCHANGED tables
        BY <2>1 DEF ReadReceipt, PolicyUnavailable, Deny, ReserveBusy, Process,
                    PreventCall, UseStoredVector, LoseResponse, Decide, PublicationFails, SeeCancel, EndPass
      <3> QED
        BY <3>1, QuietPromise DEF tables, itemVars
    <2>2. CASE \/ Reserve(w) \/ BeginRequest(w) \/ RecordResponse(w) \/ HoldUncertain(w)
               \/ Settle(w) \/ SettleOriginal(w) \/ LinkReceipt(w)
      <3>1. UNCHANGED <<state, fence, outcome>>
        BY <2>2 DEF Reserve, BeginRequest, RecordResponse, HoldUncertain, Settle,
                    SettleOriginal, LinkReceipt, itemVars
      <3> QED
        BY <3>1, QuietPromise
    <2>3. CASE \/ Defer(w) \/ FailUnanswered(w) \/ FailDenied(w) \/ FailResult(w)
               \/ FailPublication(w) \/ Publish(w) \/ Skip(w) \/ AcknowledgeCancel(w)
      BY <2>3, EndPromise
    <2> QED
      BY <1>3, <1>4, <2>1, <2>2, <2>3 DEF Pass
  <1>5. ASSUME NEW w \in Workers, Exit(w) \/ Reap(w)
        PROVE  WinnersDone' /\ Promise!PromiseNext
    <2>1. CASE Exit(w) \/ ReleaseExited(w)
      <3>1. UNCHANGED <<state, fence, outcome>>
        BY <2>1 DEF Exit, ReleaseExited, tables, itemVars
      <3> QED
        BY <3>1, QuietPromise
    <2> QED
      BY <1>3, <1>5, <2>1 DEF Reap
  <1>6. ASSUME NEW i \in Items, LeaseLapses(i) PROVE WinnersDone' /\ Promise!PromiseNext
    BY <1>6, QuietPromise DEF LeaseLapses
  <1>7. CASE Operator
    BY <1>7, CommandPromise
  <1>8. CASE UNCHANGED vars
    BY <1>1, <1>8 DEF vars, tables, itemVars
  <1> QED
    BY <1>2, <1>4, <1>5, <1>6, <1>7, <1>8 DEF Next

(* An untouched job maps to the initial state of the promise. *)
LEMMA InitPromise == Init => WinnersDone /\ Promise!PromiseInit
  <1> SUFFICES ASSUME Init PROVE WinnersDone /\ Promise!PromiseInit
    OBVIOUS
  <1>1. WinnersDone
    BY DEF Init, WinnersDone, Finished
  <1>2. \A i \in Items : Winners[i] = {}
    BY DEF Init, Winners, Attempts
  <1>3. Winners = [i \in Items |-> {}]
    BY <1>2 DEF Winners
  <1>4. Holder = [i \in Items |-> 0] /\ fence = [i \in Items |-> 0]
    BY DEF Init, Holder, OwnedItem
  <1> QED
    BY <1>1, <1>3, <1>4 DEF Promise!PromiseInit

(* The work queue implements its abstract specification: attempts of an    *)
(* item are exclusive and numbered, and at most one finishes it.           *)
THEOREM Refinement == Spec => KeepsPromise
  <1>1. Init => WinnersDone /\ Promise!PromiseInit
    BY InitPromise
  <1>2. IInv /\ WinnersDone /\ [Next]_vars =>
           WinnersDone' /\ [Promise!PromiseNext]_(Promise!promiseVars)
    BY StepPromise
  <1> QED
    BY <1>1, <1>2, Invariant, PTL DEF Spec, KeepsPromise, Promise!PromiseSpec

-----------------------------------------------------------------------------
(* The admission decision (ragadmission).  Its subtractions are written    *)
(* so that no intermediate value leaves the range of its inputs; the sums  *)
(* below would.                                                            *)

(* A dimension admits a call exactly when the call fits beside everything  *)
(* measured, held and unknown, or when the dimension is unlimited          *)
(* (ragadmissiondecision).                                                 *)
THEOREM AdmittedIffFits ==
  ASSUME NEW allowance \in Nat, NEW consumed \in Nat, NEW held \in Nat,
         NEW doubtful \in Nat, NEW requested \in Nat, NEW unlimited \in BOOLEAN
  PROVE  Rank(allowance, consumed, held, doubtful, requested, unlimited) = 0 <=>
            \/ unlimited /\ allowance = 0
            \/ consumed + held + doubtful + requested <= allowance
  BY DEF Rank

(* A call waits exactly when only its peers stand in the way: it fits      *)
(* beside what is measured and unknown, but not beside what they hold too, *)
(* so a waiting call is worth waiting for and no such call is refused      *)
(* (ragadmissiondecision).                                                 *)
THEOREM WaitingIsForPeers ==
  ASSUME NEW allowance \in Nat, NEW consumed \in Nat, NEW held \in Nat,
         NEW doubtful \in Nat, NEW requested \in Nat, NEW unlimited \in BOOLEAN
  PROVE  Rank(allowance, consumed, held, doubtful, requested, unlimited) = 1 <=>
            /\ ~(unlimited /\ allowance = 0)
            /\ consumed + doubtful + requested <= allowance
            /\ consumed + held + doubtful + requested > allowance
  BY DEF Rank

(* More use never turns a refusal into an admission: the decision is       *)
(* monotone in everything it counts.                                       *)
THEOREM RankIsMonotone ==
  ASSUME NEW allowance \in Nat, NEW consumed \in Nat, NEW held \in Nat,
         NEW doubtful \in Nat, NEW requested \in Nat, NEW unlimited \in BOOLEAN,
         NEW c \in Nat, NEW h \in Nat, NEW u \in Nat, NEW r \in Nat
  PROVE  Rank(allowance, consumed, held, doubtful, requested, unlimited)
           <= Rank(allowance, consumed + c, held + h, doubtful + u, requested + r, unlimited)
  BY DEF Rank

(* The worst rank of several dimensions admits only what each one admits.  *)
THEOREM WorstAdmitsAll ==
  ASSUME NEW r \in Ranks, NEW s \in Ranks
  PROVE  /\ Worst(r, s) \in Ranks
         /\ AdmissionState(Worst(r, s)) = "admitted" <=>
               AdmissionState(r) = "admitted" /\ AdmissionState(s) = "admitted"
  BY DEF Worst, Ranks, AdmissionState

(* Under a bounded ceiling work fits exactly when what is consumed and     *)
(* what is asked together stay within it (aggregatefits).                  *)
THEOREM FittingWorkStaysWithin ==
  ASSUME NEW ceiling \in Nat, NEW consumed \in Nat, NEW requested \in Nat,
         NEW unlimited \in BOOLEAN, ~(unlimited /\ ceiling = 0)
  PROVE  AggregateFits(ceiling, consumed, requested, unlimited) <=>
            consumed + requested <= ceiling
  BY DEF AggregateFits

=============================================================================
