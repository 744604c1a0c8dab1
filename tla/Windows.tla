------------------------------ MODULE Windows ------------------------------
(***************************************************************************)
(* Maintenance windows and their backlog (ragbacklog.crexx).  A question   *)
(* is a durable task for each version of its evidence.  A window admits    *)
(* work for a bounded time: its checkpoint finds questions, dispatches     *)
(* tasks as items of the window's job, and closes the window; workers      *)
(* claim the items, call a provider and settle the tasks; an operator      *)
(* starts, pauses, continues, cancels, moves a deadline and asks retries.  *)
(*                                                                         *)
(* db is the database: every action is one transaction, and the operators  *)
(* below take a database to the next one, so that a transaction is their   *)
(* composition.  Time is what the code compares: a window's deadline       *)
(* leaves room for a call, is too near for one, or has passed; a task is   *)
(* delayed until its earliest date.                                        *)
(***************************************************************************)
EXTENDS Lifecycle, FiniteSets, FiniteSetsExt, SequencesExt

CONSTANTS
    Questions,      \* subjects that the census may find
    Workers,
    Versions,       \* evidence of a question is 1 .. Versions, and only grows
    Limits,         \* maximum_attempts a window's policy may give a task
    ItemLimit,      \* item_limit of a window's policy
    ItemAttempts,   \* claims an item may use before it is a dead letter
    MaxWindows,     \* bound: windows, each with a job of its own
    MaxCommands,    \* bound: commands of the operator, but for starts
    MaxFaults,      \* bound: crashes and leases lost to a slow worker
    None

ASSUME WindowsAssumption ==
    /\ Versions \in Nat \ {0} /\ MaxWindows \in Nat \ {0}
    /\ ItemLimit \in Nat \ {0} /\ ItemAttempts \in Nat \ {0}
    /\ Limits \subseteq Nat \ {0} /\ Limits # {} /\ IsFiniteSet(Limits)
    /\ IsFiniteSet(Questions)
    /\ MaxCommands \in Nat /\ MaxFaults \in Nat /\ None \notin Workers

VARIABLES
    db,         \* the tables, see TypeOK
    pass,       \* per worker: where its pass is, the item it claimed, and the
                \* item whose answer it uses
    commands,
    faults

vars == <<db, pass, commands, faults>>

Tasks == Questions \X (1..Versions)

TaskStates == {"none", "pending", "dispatched", "unresolved",
               "resolved", "failed", "superseded"}

WindowStates == {"active", "paused", "cancelled", "deadline",
                 "budget-exhausted", "complete"}

Idle == [at |-> "idle", item |-> None, answer |-> None]

(* Items are named by their task and the number of their attempt, which is *)
(* unique (schema), windows and their jobs by the order of their start.    *)
Init ==
    /\ \E k \in [Questions -> {"resolution", "extraction"}] :
         db = [kind     |-> k,
               evidence |-> [q \in Questions |-> 1],
               tasks    |-> [t \in Tasks |-> [state |-> "none", count |-> 0, paid |-> 0,
                                              delayed |-> FALSE, request |-> "none"]],
               items    |-> <<>>,
               windows  |-> <<>>,
               jobs     |-> <<>>,
               conflict |-> FALSE]
    /\ pass = [w \in Workers |-> Idle]
    /\ commands = 0 /\ faults = 0

-----------------------------------------------------------------------------
(* What a transaction reads.                                               *)

Evidence(d, q) == <<q, d.evidence[q]>>      \* the task of current evidence

Fresh(d, t) == Evidence(d, t[1]) = t

Items(d) == DOMAIN d.items

Jobs(d) == DOMAIN d.jobs

ItemsOf(d, j) == {i \in Items(d) : d.items[i].job = j}

Attempted(d, t) == {i \in Items(d) : i[1] = t}

Held(d, S) == {i \in S : d.items[i].state \in ActiveItem}

Open(d, t) == Held(d, Attempted(d, t))

Requested(d, t) == d.tasks[t].request # "none"

(* _recoverablecount: settled answers of the task that await a decision.   *)
Recoverable(d, t) ==
    /\ d.kind[t[1]] = "resolution"
    /\ \E i \in Attempted(d, t) : d.items[i].reply = "stored"

Active(d) == {j \in Jobs(d) : d.windows[j].state = "active"}

-----------------------------------------------------------------------------
(* Projections and retries, shared by most transactions.                   *)

(* refreshlifecyclejob: the job of an active window keeps its state.       *)
Refreshed(d, j) ==
    LET some(S) == \E i \in ItemsOf(d, j) : d.items[i].state \in S
    IN  LifecycleJobState(d.jobs[j], some(ActiveItem), some({"dead_letter"}),
                          some({"cancelled"}), d.windows[j].state, FALSE)

Refresh(d, j) == [d EXCEPT !.jobs[j] = Refreshed(d, j)]

(* taskretryfacts for a pending request, which lifts the hold of an        *)
(* unanswered call.  scope is the jobs whose window may admit the retry;   *)
(* without one the ceiling is that of an earlier window, which can only    *)
(* change the name of the hold.                                            *)
Disposition(d, t, scope) ==
    LET owned(i) == \/ d.items[i].state \in OwnedItem
                    \/ d.items[i].state = "queued" /\ d.items[i].job \in Active(d)
        awaited  == \E i \in Attempted(d, t) : d.items[i].reply = "awaited"
        open     == {j \in scope \cap Active(d) : /\ d.windows[j].time # "passed"
                                                  /\ d.jobs[j] \in {"queued", "running"}}
        ceiling  == IF open = {} THEN Max(Limits) ELSE Max({d.windows[j].limit : j \in open})
        spent    == IF Recoverable(d, t) /\ ~awaited THEN 0 ELSE d.tasks[t].paid
    IN  RetryDisposition(d.tasks[t].state, \E i \in Attempted(d, t) : owned(i),
                         FALSE, FALSE, ceiling, spent, d.tasks[t].delayed,
                         IF open = {} THEN "closed-window" ELSE "")

(* _updatetaskretry: the pending requests of S are given a disposition.    *)
Reconsidered(d, S, scope) ==
    LET answer(t) == Disposition(d, t, scope)
        ready(t)  == answer(t) \in {"runnable", "retry-delay"}
        request(t) == CASE RequestSettled(answer(t)) -> "none"
                        [] ready(t)                  -> "ready"
                        [] OTHER                     -> "held"
        revived(t) == ready(t) /\ d.tasks[t].state \in {"failed", "unresolved"}
    IN  IF \A t \in S : ~Requested(d, t) THEN d
        ELSE [d EXCEPT !.tasks = [t \in Tasks |->
            IF t \notin S \/ ~Requested(d, t) THEN d.tasks[t]
            ELSE [d.tasks[t] EXCEPT !.state   = IF revived(t) THEN "pending" ELSE @,
                                    !.request = request(t)]]]

(* _reconsidertaskretries.                                                 *)
Reconsider(d, scope) == Reconsidered(d, Tasks, scope)

(* _reconcileoutcomes under the policy of job p: tasks without an open     *)
(* item follow their last item, then the attempt limit, then the retries.  *)
(* A task of scope has an item in one of its jobs, or scope is every job.  *)
Reconcile(d, p, scope) ==
    LET mine(t)    == scope = Jobs(d) \/ \E i \in Attempted(d, t) : d.items[i].job \in scope
        over(t)    == d.tasks[t].state = "dispatched" /\ Open(d, t) = {} /\ mine(t)
        settled(t) == d.items[<<t, d.tasks[t].count>>].state \in DoneItem
        waits(t)   == d.tasks[t].paid > 0 /\ ~Recoverable(d, t) /\ ~Requested(d, t)
        followed(t) == IF ~over(t) THEN d.tasks[t]
                       ELSE [d.tasks[t] EXCEPT
                               !.state   = IF settled(t) THEN "resolved" ELSE "pending",
                               !.delayed = @ \/ waits(t)]
        spent(t)   == /\ followed(t).state = "pending" /\ mine(t)
                      /\ d.tasks[t].paid >= d.windows[p].limit /\ ~Recoverable(d, t)
    IN  Reconsider([d EXCEPT !.tasks = [t \in Tasks |->
                       IF spent(t) THEN [followed(t) EXCEPT !.state = "failed"]
                       ELSE followed(t)]], scope)

-----------------------------------------------------------------------------
(* Closing a window.                                                       *)

(* Fault: an item that returns to the queue forgets its claims.            *)
WithItemsForgotten(d, S, state) ==
    IF S = {} THEN d
    ELSE [d EXCEPT !.items = [i \in Items(d) |->
        IF i \in S THEN [d.items[i] EXCEPT !.state = state, !.owner = None, !.live = FALSE,
                                          !.tries = 0]
        ELSE d.items[i]]]

(* Items change their state, and leave their owners.                       *)
WithItems(d, S, state) ==
    IF S = {} THEN d
    ELSE [d EXCEPT !.items = [i \in Items(d) |->
        IF i \in S THEN [d.items[i] EXCEPT !.state = state, !.owner = None, !.live = FALSE,
                                          !.tries = IF state = "queued" THEN @ ELSE 0]
        ELSE d.items[i]]]

QueuedOf(d, j) == {i \in ItemsOf(d, j) : d.items[i].state = "queued"}

(* Fault: every task of a cancelled item waits again, whatever its state.  *)
CloseAll(d, j, reason) ==
    LET parked  == WithItems(d, QueuedOf(d, j), "cancelled")
        left(t) == \E i \in ItemsOf(d, j) : i[1] = t /\ parked.items[i].state = "cancelled"
        closed  == [parked EXCEPT
                      !.tasks = [t \in Tasks |->
                                   IF left(t) THEN [d.tasks[t] EXCEPT !.state = "pending"]
                                   ELSE d.tasks[t]],
                      !.windows[j].state = IF @ = "active" THEN reason ELSE @]
    IN  Reconsider(Refresh(closed, j), {j})

(* Fault: the job is left as it was.                                       *)
CloseQuietly(d, j, reason) ==
    LET parked  == WithItems(d, QueuedOf(d, j), "cancelled")
        left(t) == /\ d.tasks[t].state = "dispatched"
                   /\ \E i \in ItemsOf(d, j) : i[1] = t /\ parked.items[i].state = "cancelled"
        closed  == [parked EXCEPT
                      !.tasks = [t \in Tasks |->
                                   IF left(t) THEN [d.tasks[t] EXCEPT !.state = "pending"]
                                   ELSE d.tasks[t]],
                      !.windows[j].state = IF @ = "active" THEN reason ELSE @]
    IN  Reconsider(closed, {j})

(* _closewindow: the queue is cancelled, its tasks wait for another        *)
(* window; calls in flight may still settle.                               *)
Close(d, j, reason) ==
    LET parked  == WithItems(d, QueuedOf(d, j), "cancelled")
        left(t) == /\ d.tasks[t].state = "dispatched"
                   /\ \E i \in ItemsOf(d, j) : i[1] = t /\ parked.items[i].state = "cancelled"
        closed  == [parked EXCEPT
                      !.tasks = [t \in Tasks |->
                                   IF left(t) THEN [d.tasks[t] EXCEPT !.state = "pending"]
                                   ELSE d.tasks[t]],
                      !.windows[j].state = IF @ = "active" THEN reason ELSE @]
    IN  Reconsider(Refresh(closed, j), {j})

-----------------------------------------------------------------------------
(* Finding questions and dispatching them.                                 *)

(* Fault: an open item of older evidence does not hold the question.       *)
EnqueueAnyway(d, Q) ==
    LET known(q) == {s \in Tasks : s[1] = q /\ d.tasks[s].state \notin {"none", "superseded"}}
        waits(q) == \E s \in known(q) : /\ d.tasks[s].state \in {"pending", "unresolved", "failed"}
                                        /\ d.tasks[s].delayed
        new(q)   == q \in Q /\ ~waits(q) /\ d.tasks[Evidence(d, q)].state = "none"
        found(t) == IF ~new(t[1]) THEN d.tasks[t]
                    ELSE IF Fresh(d, t) THEN [d.tasks[t] EXCEPT !.state = "pending"]
                    ELSE IF d.tasks[t].state \in {"pending", "unresolved"}
                         THEN [d.tasks[t] EXCEPT !.state = "superseded"]
                    ELSE d.tasks[t]
    IN  [d EXCEPT !.tasks = [t \in Tasks |-> found(t)]]

(* enqueuebacklogtask, for the questions the census finds.  A resolved     *)
(* task lends its date to the one that replaces it.                        *)
Enqueue(d, Q) ==
    LET known(q) == {s \in Tasks : s[1] = q /\ d.tasks[s].state \notin {"none", "superseded"}}
        held(q)  == \E s \in known(q) : Open(d, s) # {}
        waits(q) == \E s \in known(q) : /\ d.tasks[s].state \in {"pending", "unresolved", "failed"}
                                        /\ d.tasks[s].delayed
        new(q)   == q \in Q /\ ~held(q) /\ ~waits(q) /\ d.tasks[Evidence(d, q)].state = "none"
        lent(q)  == \E s \in known(q) :
                       /\ d.tasks[s].state = "resolved" /\ d.tasks[s].delayed
                       /\ \A c \in Tasks : c[1] = q /\ c[2] > s[2] => d.tasks[c].state = "none"
        found(t) == IF ~new(t[1]) THEN d.tasks[t]
                    ELSE IF Fresh(d, t)
                         THEN [d.tasks[t] EXCEPT !.state = "pending", !.delayed = lent(t[1])]
                    ELSE IF d.tasks[t].state \in {"pending", "unresolved"}
                         THEN [d.tasks[t] EXCEPT !.state = "superseded"]
                    ELSE d.tasks[t]
    IN  [d EXCEPT !.tasks = [t \in Tasks |-> found(t)]]

(* _eligiblebacklog with _taskdispatchsafe.                                *)
Eligible(d, j) ==
    {t \in Tasks : LET task == d.tasks[t] IN
        /\ task.state = "pending" /\ ~task.delayed /\ task.request # "held"
        /\ Open(d, t) = {}
        /\ \/ Requested(d, t)
           \/ \A i \in Attempted(d, t) : d.items[i].reply # "awaited"
        /\ task.paid < d.windows[j].limit \/ Recoverable(d, t)}

(* A new item of job j.                                                    *)
Unclaimed(j) == [state |-> "queued", job |-> j, owner |-> None,
                 live |-> FALSE, tries |-> 0, reply |-> "none"]

(* The item of the task's next attempt; its number is unique for the task. *)
Send(d, j, t) ==
    LET n == d.tasks[t].count + 1 IN
    IF <<t, n>> \in Items(d) THEN [d EXCEPT !.conflict = TRUE]
    ELSE [d EXCEPT
            !.items = [i \in Items(d) \cup {<<t, n>>} |->
                         IF i \in Items(d) THEN d.items[i] ELSE Unclaimed(j)],
            !.tasks[t] = IF @.state \in {"pending", "unresolved", "failed"}
                         THEN [@ EXCEPT !.state = "dispatched", !.count = n] ELSE @]

(* _refreshduetask, then the item: a task whose evidence has changed gives *)
(* way to the task of the current evidence, if that one is pending.        *)
DispatchOne(d, j, t) ==
    LET s    == Evidence(d, t[1])
        next == [d EXCEPT
                   !.tasks[s] = IF @.state # "none" THEN @
                                ELSE [@ EXCEPT !.state = "pending",
                                               !.delayed = d.tasks[t].delayed],
                   !.tasks[t].state = "superseded"]
    IN  IF d.conflict THEN d
        ELSE IF Fresh(d, t) THEN Send(d, j, t)
        ELSE IF next.tasks[s].state = "pending" THEN Send(next, j, s)
        ELSE next

(* The tasks of a list, one after another.                                 *)
Sent(d, j, list) ==
    LET sent[k \in 0..Len(list)] ==
            IF k = 0 THEN d ELSE DispatchOne(sent[k - 1], j, list[k])
    IN  sent[Len(list)]

(* _dispatch: the due tasks are chosen first, as many as the window has    *)
(* room for, oldest evidence of a question first, and then sent.           *)
Dispatched(d, j) ==
    LET due  == Eligible(d, j)
        room == d.windows[j].room - Cardinality(ItemsOf(d, j))
        n    == IF room < Cardinality(due) THEN room ELSE Cardinality(due)
        before(t, list, k) == \E i \in 1..(k - 1) : list[i] = t
    IN  {Sent(d, j, list) :
            list \in {c \in [1..n -> due] :
                        \A k \in 1..n :
                           /\ ~before(c[k], c, k)
                           /\ \A t \in due : t[1] = c[k][1] /\ t[2] < c[k][2] => before(t, c, k)}}

-----------------------------------------------------------------------------
(* tickbacklogwindow: the databases a checkpoint of job j may leave.  One  *)
(* whose window still has work changes nothing, or reconciles it.  The     *)
(* census may meet any of the questions.  A window with nothing queued and *)
(* nothing due is complete, unless its census has more to see or a delayed *)
(* task may still come due.                                                *)

Discovered(d, j) ==
    {Reconsider(Enqueue(d, Q), {j}) : Q \in SUBSET Questions}

Refilled(d, j) ==
    UNION {LET spent(e) == QueuedOf(e, j) = {} /\ Eligible(e, j) = {}
           IN  UNION {IF e.conflict THEN {}
                      ELSE IF spent(e) THEN {e, Close(e, j, "complete")} ELSE {e} :
                         e \in Dispatched(found, j)} : found \in Discovered(d, j)}

Ticked(d, j) ==
    LET closed == Jobs(d) \ Active(d)
        swept  == WithItems(d, UNION {QueuedOf(d, k) : k \in closed}, "cancelled")
        done   == Reconcile(swept, j, Jobs(d))
    IN  IF d.windows[j].state # "active" THEN {Reconcile(d, j, {j})}
        ELSE IF d.jobs[j] = "paused" THEN {Close(d, j, "paused")}
        ELSE IF d.jobs[j] \in {"cancel_requested", "cancelled"} THEN {Close(d, j, "cancelled")}
        ELSE IF d.windows[j].time # "open" THEN {Close(done, j, "deadline")}
        ELSE IF Held(d, ItemsOf(d, j)) # {} THEN {d, done}
        ELSE IF Cardinality(ItemsOf(d, j)) >= d.windows[j].room
             THEN {Close(done, j, "budget-exhausted")}
        ELSE Refilled(done, j)

-----------------------------------------------------------------------------
(* A worker's pass (runworkeronce).  A checkpoint comes before a claim, at *)
(* the end of a pass whose window has closed, and of the commands that     *)
(* start and continue a window.  It is an action of its own, for it is a   *)
(* transaction of its own and may be skipped: by a worker that has read a  *)
(* queue still to be worked, or that finds the database held.              *)

Checkpoint(j) ==
    /\ db' \in Ticked(db, j)
    /\ UNCHANGED <<pass, commands, faults>>

(* claimnext's recovery of lapsed leases, before it looks for work.        *)
Recovered(d) ==
    LET lapsed  == {i \in Items(d) : d.items[i].state \in OwnedItem /\ ~d.items[i].live}
        asked   == {i \in lapsed : d.items[i].state = "cancel_requested"}
        dead    == {i \in lapsed \ asked : \/ d.items[i].reply = "awaited"
                                           \/ /\ d.items[i].tries >= ItemAttempts
                                              /\ d.items[i].reply # "stored"}
        freed   == WithItems(WithItems(WithItems(d, lapsed, "queued"),
                                       asked, "cancelled"), dead, "dead_letter")
        idle(j) == /\ d.jobs[j] \in {"running", "queued", "paused", "cancel_requested"}
                   /\ Held(freed, ItemsOf(freed, j)) = {}
    IN  IF lapsed = {} THEN d
        ELSE [freed EXCEPT !.jobs = [j \in Jobs(d) |->
                IF idle(j) THEN Refreshed(freed, j) ELSE d.jobs[j]]]

(* claimnext: any queued item of a queued or running job, whatever its     *)
(* window's state.                                                         *)
Claim(w) ==
    /\ pass[w].at = "idle"
    /\ LET d     == Recovered(db)
           ready == {i \in Items(d) : /\ d.items[i].state = "queued"
                                      /\ d.jobs[d.items[i].job] \in {"queued", "running"}}
       IN  \/ /\ ready = {} /\ d # db
              /\ db' = d
              /\ UNCHANGED pass
           \/ \E i \in ready :
                /\ db' = [d EXCEPT !.items[i].state = "running", !.items[i].owner = w,
                                   !.items[i].live = TRUE,
                                   !.items[i].tries = IF @ < ItemAttempts THEN @ + 1 ELSE @,
                                   !.jobs[d.items[i].job] = "running"]
                /\ pass' = [pass EXCEPT ![w] =
                      [at |-> IF d.kind[i[1][1]] = "resolution" THEN "claimed" ELSE "checked",
                       item |-> i, answer |-> i]]
    /\ UNCHANGED <<commands, faults>>

(* activeworkfence of the pass of worker w.                                *)
Fence(w) ==
    LET item == db.items[pass[w].item]
    IN  item.state = "running" /\ item.owner = w /\ item.live

(* A pass goes on, or ends.  It ends with nothing left to do once it has   *)
(* settled its item; one that has lost its fence leaves, as its item may   *)
(* have been asked to stop.                                                *)
Goes(w, at) ==
    /\ pass' = [pass EXCEPT ![w].at = at]
    /\ UNCHANGED <<commands, faults>>

Ends(w) ==
    /\ pass' = [pass EXCEPT ![w] = Idle]
    /\ UNCHANGED <<commands, faults>>

Leaves(w) ==
    /\ UNCHANGED db
    /\ IF db.items[pass[w].item].owner = w THEN Goes(w, "leaving") ELSE Ends(w)

TaskOf(w) == pass[w].item[1]

JobOf(w) == db.items[pass[w].item].job

(* checkbacklogclaim: a question whose evidence has changed is not asked.  *)
(* The job is not refreshed; the next checkpoint sees the drained queue.   *)
Check(w) ==
    LET i == pass[w].item IN
    /\ pass[w].at = "claimed"
    /\ IF ~Fence(w) THEN Leaves(w)
       ELSE IF Fresh(db, i[1]) THEN UNCHANGED db /\ Goes(w, "checked")
       ELSE /\ db' = [WithItems(db, {i}, "skipped") EXCEPT !.tasks[i[1]].state = "superseded"]
            /\ Ends(w)

(* _deferuncalledclaim: the item waits for a later call, or its task for   *)
(* another window.                                                         *)
Deferred(d, i) ==
    LET j      == d.items[i].job
        closed == d.windows[j].state # "active"
        put    == WithItems(d, {i}, IF closed THEN "cancelled" ELSE "queued")
        kept   == [put EXCEPT !.items[i].tries = IF closed THEN 0 ELSE @ - 1,
                              !.tasks[i[1]].state = IF closed /\ @ = "dispatched"
                                                    THEN "pending" ELSE @]
    IN  Refresh(kept, j)

(* The latest settled answer of a task.                                    *)
Latest(t) ==
    LET stored == {k \in Attempted(db, t) : db.items[k].reply = "stored"}
    IN  {k \in stored : \A o \in stored : o[2] <= k[2]}

(* The pass goes on with the answer of item k.                             *)
Recalls(w, k) ==
    /\ pass' = [pass EXCEPT ![w] = [at |-> "reusing", item |-> @.item, answer |-> k]]
    /\ UNCHANGED <<commands, faults>>

(* A settled answer is used before another call is reserved; otherwise     *)
(* reservecall admits the call, or defers it: the window has closed or has *)
(* no time left for a call, or another limit of the job is met.            *)
Reserve(w) ==
    LET i        == pass[w].item
        resolves == db.kind[i[1][1]] = "resolution"
        recalled == IF resolves THEN Recoverable(db, i[1]) ELSE db.items[i].reply = "stored"
        admits   == db.windows[JobOf(w)].state = "active" /\ db.windows[JobOf(w)].time = "open"
    IN  /\ pass[w].at = "checked"
        /\ \/ /\ recalled /\ UNCHANGED db
              /\ IF resolves THEN \E k \in Latest(i[1]) : Recalls(w, k)
                 ELSE Goes(w, "deciding")
           \/ /\ ~recalled /\ ~Fence(w)
              /\ Leaves(w)
           \/ /\ ~recalled /\ Fence(w) /\ admits
              /\ db' = [db EXCEPT !.items[i].reply = "awaited"]
              /\ Goes(w, "calling")
           \/ /\ ~recalled /\ Fence(w)
              /\ db' = Deferred(db, i)
              /\ Ends(w)

(* The provider answers; its receipt and its cost are recorded whether or  *)
(* not the worker still owns the item.  The count of paid calls is used    *)
(* only against a limit, and stops at the largest one.                     *)
Answer(w) ==
    LET i       == pass[w].item
        paid(d) == [d EXCEPT !.tasks[i[1]].paid = IF @ < Max(Limits) THEN @ + 1 ELSE @]
    IN  /\ pass[w].at = "calling"
        /\ \/ /\ db' = paid([db EXCEPT !.items[i].reply = "stored"])
              /\ Goes(w, "deciding")
           \/ /\ db' = paid([db EXCEPT !.items[i].reply = "none"])
              /\ Goes(w, "failing")

(* completebacklogdecision of a resolution: the answer decides its task,   *)
(* unless the evidence has changed; it may ask for another step only while *)
(* calls remain.  The task's state is written whatever it was, and an      *)
(* answer that has decided its task meanwhile decides it again.            *)
Outcomes(w) ==
    LET t == TaskOf(w) IN
    IF ~Fresh(db, t) THEN {"superseded"}
    ELSE {"resolved", "unresolved"} \cup
         (IF db.tasks[t].paid < db.windows[JobOf(w)].limit THEN {"pending"} ELSE {})

Decide(w) ==
    LET i == pass[w].item IN
    /\ pass[w].at \in {"deciding", "reusing"}
    /\ db.kind[i[1][1]] = "resolution"
    /\ IF ~Fence(w) THEN Leaves(w)
       ELSE /\ \E outcome \in Outcomes(w) :
                 db' = [WithItems(db, {i}, "processed") EXCEPT
                          !.items[pass[w].answer].reply = IF @ = "stored" THEN "none" ELSE @,
                          !.tasks[i[1]].state = outcome]
            /\ Ends(w)

(* The publication of an extraction: its item is done and its job          *)
(* refreshed, and the task waits for a checkpoint.                         *)
Publish(w) ==
    LET i == pass[w].item IN
    /\ pass[w].at = "deciding"
    /\ db.kind[i[1][1]] = "extraction"
    /\ IF ~Fence(w) THEN Leaves(w)
       ELSE /\ db' = Refresh([WithItems(db, {i}, "processed") EXCEPT !.items[i].reply = "none"],
                             JobOf(w))
            /\ Ends(w)

(* A stored answer that an earlier pass left, and that does not validate,  *)
(* fails no attempt: the item is left to its lease.                        *)
Abandon(w) ==
    /\ pass[w].at = "reusing"
    /\ UNCHANGED db
    /\ Ends(w)

(* failattempt: the provider failed, its answer does not validate, or the  *)
(* publication was lost.  An attempt may be repeated while its item has    *)
(* claims left, but not for an answer that a resolution rejects.  A failed *)
(* attempt voids the answer it was given.                                  *)
Fail(w) ==
    LET i     == pass[w].item
        again == /\ pass[w].at = "failing" \/ db.kind[i[1][1]] = "extraction"
                 /\ db.items[i].tries < ItemAttempts
    IN  /\ pass[w].at \in {"failing", "deciding"}
        /\ IF ~Fence(w) THEN Leaves(w)
           ELSE /\ \E state \in {"dead_letter"} \cup (IF again THEN {"queued"} ELSE {}) :
                     db' = Refresh([WithItems(db, {i}, state) EXCEPT !.items[i].reply = "none"],
                                   JobOf(w))
                /\ Ends(w)

(* acknowledgecancel, by the worker that owns the item.                    *)
Leave(w) ==
    LET i     == pass[w].item
        asked == db.items[i].state = "cancel_requested" /\ db.items[i].owner = w
    IN  /\ pass[w].at = "leaving"
        /\ db' = IF asked THEN Refresh(WithItems(db, {i}, "cancelled"), JobOf(w)) ELSE db
        /\ Ends(w)

-----------------------------------------------------------------------------
(* The operator.                                                           *)

Commanded(d) ==
    /\ commands < MaxCommands
    /\ db' = d /\ commands' = commands + 1
    /\ UNCHANGED <<pass, faults>>

Happens(d) == db' = d /\ UNCHANGED <<pass, commands, faults>>

Owned(j) == {i \in ItemsOf(db, j) : db.items[i].state \in OwnedItem}

(* startbacklogwindow.                                                     *)
Start ==
    /\ Len(db.jobs) < MaxWindows /\ Active(db) = {}
    /\ \A k \in Jobs(db) : Owned(k) = {}
    /\ \E limit \in Limits :
         Happens([db EXCEPT !.jobs = Append(@, "queued"),
                            !.windows = Append(@, [state |-> "active", time |-> "open",
                                                   limit |-> limit, room |-> ItemLimit])])

Pause(j) ==
    /\ db.jobs[j] \in {"queued", "running"}
    /\ Commanded([db EXCEPT !.jobs[j] = "paused"])

(* resumejob refuses a window that has closed or passed its deadline.      *)
Resume(j) ==
    /\ db.jobs[j] = "paused"
    /\ db.windows[j].state = "active" /\ db.windows[j].time # "passed"
    /\ Commanded([db EXCEPT !.jobs[j] = "queued"])

(* requestcancel: the tasks are left to the next checkpoint.               *)
Cancel(j) ==
    LET asked == [WithItems(db, QueuedOf(db, j), "cancelled") EXCEPT
                    !.jobs[j] = "cancel_requested",
                    !.items   = [i \in Items(db) |->
                                   IF i \in ItemsOf(db, j) /\ @[i].state = "running"
                                   THEN [@[i] EXCEPT !.state = "cancel_requested"] ELSE @[i]]]
    IN  /\ db.jobs[j] \in {"queued", "running", "paused"}
        /\ Commanded(Refresh(asked, j))

(* preparecontinuation and continuebacklogwindow: the same window again.   *)
(* Past its deadline it is given another period to finish what it has.     *)
Continue(j) ==
    LET passed == db.windows[j].time = "passed"
        again  == [db EXCEPT
                     !.windows[j].state = "active",
                     !.windows[j].time  = IF passed THEN "open" ELSE @,
                     !.windows[j].room  = IF passed THEN Cardinality(ItemsOf(db, j)) ELSE @,
                     !.jobs[j] = "queued"]
    IN  /\ db.jobs[j] \notin {"cancelled", "cancel_requested"}
        /\ Owned(j) = {}
        /\ \A w \in Workers : pass[w].at # "idle" => JobOf(w) # j
        /\ Active(db) \subseteq {j}
        /\ Commanded(Refresh(again, j))

(* setbacklogdeadline.                                                     *)
SetDeadline(j) ==
    /\ db.windows[j].time # "open"
    /\ db.jobs[j] \notin {"cancelled", "cancel_requested"}
    /\ Commanded([db EXCEPT !.windows[j].time = "open"])

(* requestbacklogretry.                                                    *)
Retry(t) ==
    /\ db.tasks[t].state # "none"
    /\ Commanded(Reconsidered([db EXCEPT !.tasks[t].request = IF @ = "none" THEN "ready" ELSE @],
                              {t}, Jobs(db)))

-----------------------------------------------------------------------------
(* What happens around the program.                                        *)

EvidenceChanges(q) ==
    /\ db.evidence[q] < Versions
    /\ Happens([db EXCEPT !.evidence[q] = @ + 1])

DueArrives(t) ==
    /\ db.tasks[t].delayed
    /\ Happens([db EXCEPT !.tasks[t].delayed = FALSE])

(* The deadline comes near, then passes.                                   *)
Elapse(j) ==
    /\ db.windows[j].time # "passed"
    /\ Happens([db EXCEPT !.windows[j].time = IF @ = "open" THEN "late" ELSE "passed"])

Crash(w) ==
    /\ pass[w].at # "idle" /\ faults < MaxFaults
    /\ pass' = [pass EXCEPT ![w] = Idle]
    /\ faults' = faults + 1
    /\ UNCHANGED <<db, commands>>

(* A lease ends: its holder has gone, or a fault delays its heartbeat.     *)
LeaseEnds(i) ==
    LET slow == pass[db.items[i].owner].item = i IN
    /\ db.items[i].state \in OwnedItem /\ db.items[i].live
    /\ slow => faults < MaxFaults
    /\ db' = [db EXCEPT !.items[i].live = FALSE]
    /\ faults' = IF slow THEN faults + 1 ELSE faults
    /\ UNCHANGED <<pass, commands>>

-----------------------------------------------------------------------------
WorkerStep(w) ==
    \/ Claim(w) \/ Check(w) \/ Reserve(w) \/ Answer(w) \/ Decide(w) \/ Publish(w)
    \/ Abandon(w) \/ Fail(w) \/ Leave(w)

Operator ==
    \/ Start
    \/ \E j \in Jobs(db) : \/ Pause(j) \/ Resume(j) \/ Cancel(j)
                           \/ Continue(j) \/ SetDeadline(j)
    \/ \E t \in Tasks : Retry(t)

Environment ==
    \/ \E q \in Questions : EvidenceChanges(q)
    \/ \E t \in Tasks : DueArrives(t)
    \/ \E j \in Jobs(db) : Elapse(j)
    \/ \E w \in Workers : Crash(w)
    \/ \E i \in Items(db) : LeaseEnds(i)

Next ==
    \/ \E j \in Jobs(db) : Checkpoint(j)
    \/ \E w \in Workers : WorkerStep(w)
    \/ Operator
    \/ Environment

Spec == Init /\ [][Next]_vars

-----------------------------------------------------------------------------
(* Every table holds values of its columns.  An item gives back the claim  *)
(* of a deferred call, and never one that it has not used; a window that   *)
(* continues past its deadline has no more items than it was started with. *)
TypeOK ==
    /\ db.kind \in [Questions -> {"resolution", "extraction"}]
    /\ db.evidence \in [Questions -> 1..Versions]
    /\ db.tasks \in [Tasks -> [state : TaskStates, count : Nat, paid : 0..Max(Limits),
                               delayed : BOOLEAN, request : {"none", "ready", "held"}]]
    /\ Items(db) \subseteq Tasks \X Nat
    /\ \A i \in Items(db) :
         db.items[i] \in [state : ItemStates, job : Jobs(db),
                         owner : Workers \cup {None}, live : BOOLEAN,
                         tries : 0..ItemAttempts, reply : {"none", "awaited", "stored"}]
    /\ Len(db.windows) = Len(db.jobs) /\ Len(db.jobs) \in 0..MaxWindows
    /\ \A j \in Jobs(db) :
         /\ db.jobs[j] \in JobStates
         /\ db.windows[j] \in [state : WindowStates, time : {"open", "late", "passed"},
                               limit : Limits, room : 0..ItemLimit]
    /\ ~db.conflict
    /\ \A w \in Workers :
         /\ pass[w].at \in {"idle", "claimed", "checked", "calling", "deciding",
                           "reusing", "failing", "leaving"}
         /\ IF pass[w].at = "idle" THEN pass[w] = Idle
            ELSE pass[w].item \in Items(db) /\ pass[w].answer \in Items(db)
    /\ commands \in 0..MaxCommands /\ faults \in 0..MaxFaults

(* Active items are exclusive: a question has one at most, over all the    *)
(* versions of its evidence, its windows and its retries ("Active items    *)
(* remain exclusive in both cases", ragbacklog.crexx:417-418).  A dispatch *)
(* that sends two tasks of one question breaks it (finding 8).             *)
OneOpenItem ==
    \A q \in Questions : Cardinality(Held(db, {i \in Items(db) : i[1][1] = q})) <= 1

(* A resolved task whose items are all over is never asked again: no late  *)
(* worker, checkpoint, dispatch, retry, or closing or continued window     *)
(* reopens it.  Another open item of it may write it once more (Decide),   *)
(* which is a consequence of finding 8.                                    *)
SettledStays ==
    [][\A t \in Tasks : db.tasks[t].state = "resolved" /\ Open(db, t) = {}
                           => db'.tasks[t].state = "resolved"]_vars

(* Work starts only in an active window.  A claim never looks at it: the   *)
(* state of the job must hold back what a recovered lease or a failed      *)
(* attempt puts into the queue of a window that has closed.                *)
ClaimsInActiveWindow ==
    [][\A i \in Items(db') :
         LET begun == i \notin Items(db) \/ db.items[i].owner # db'.items[i].owner
         IN  db'.items[i].state = "running" /\ begun
                => db'.windows[db'.items[i].job].state = "active"]_vars

=============================================================================
