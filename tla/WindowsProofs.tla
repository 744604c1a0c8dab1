--------------------------- MODULE WindowsProofs ---------------------------
(***************************************************************************)
(* Proofs about maintenance windows.  Every transaction is shown to keep   *)
(* the tables in order (Good) and to be a Reach of the one before: no work *)
(* begins outside an active window, and a resolved task is written only by *)
(* the worker of an open item of it.  Nothing rests on a question having   *)
(* at most one open item, which is false (OneOpenItem).                    *)
(***************************************************************************)
EXTENDS Windows, FiniteSetTheorems, SequenceTheorems, WellFoundedInduction, TLAPS

-----------------------------------------------------------------------------
(* Tables and calm transactions.                                           *)

(* Rows of maintenance_tasks, job_items and maintenance_windows. A task    *)
(* may count any number of attempts.                                       *)
TaskRow == [state : TaskStates, count : Nat, paid : 0..Max(Limits), delayed : BOOLEAN,
            request : {"none", "ready", "held"}]

ItemRow(jobs) == [state : ItemStates, job : jobs, owner : Workers \cup {None},
                  live : BOOLEAN, tries : 0..ItemAttempts, reply : {"none", "awaited", "stored"}]

WindowRow == [state : WindowStates, time : {"open", "late", "passed"}, limit : Limits,
              room : 0..ItemLimit]

(* The tables hold values of their columns, but for what is said of the    *)
(* numbers of attempts.                                                    *)
Tables(d) ==
    /\ d = [kind |-> d.kind, evidence |-> d.evidence, tasks |-> d.tasks, items |-> d.items,
            windows |-> d.windows, jobs |-> d.jobs, conflict |-> d.conflict]
    /\ d.kind \in [Questions -> {"resolution", "extraction"}]
    /\ d.evidence \in [Questions -> 1..Versions]
    /\ d.tasks \in [Tasks -> TaskRow]
    /\ Items(d) \in SUBSET (Tasks \X Nat) /\ IsFiniteSet(Items(d))
    /\ d.items \in [Items(d) -> ItemRow(Jobs(d))]
    /\ \E n \in 0..MaxWindows : Jobs(d) = 1..n
    /\ d.jobs \in [Jobs(d) -> JobStates]
    /\ d.windows \in [Jobs(d) -> WindowRow]
    /\ d.conflict \in BOOLEAN

(* Who owns an item has claimed it.                                        *)
Tried(d) == \A i \in Items(d) : d.items[i].state \in OwnedItem => d.items[i].tries >= 1

(* The job of a window that is not active is out of the reach of a claim.  *)
Shut(d) ==
    \A j \in Jobs(d) : d.windows[j].state # "active" => d.jobs[j] \notin {"queued", "running"}

(* A window never holds more items than it admits.                         *)
Fits(d) == \A j \in Jobs(d) : Cardinality(ItemsOf(d, j)) <= d.windows[j].room

(* The invariant of the tables.                                            *)
Good(d) == Tables(d) /\ Tried(d) /\ Shut(d) /\ Fits(d)

(* What a transaction other than a claim leaves alone: items keep their    *)
(* jobs and their holders, no item becomes open, no window gets room.      *)
Calm(d, e) ==
    /\ e.kind = d.kind /\ e.evidence = d.evidence /\ e.conflict = d.conflict
    /\ Items(e) = Items(d) /\ Jobs(e) = Jobs(d)
    /\ \A i \in Items(d) :
         /\ e.items[i].job = d.items[i].job
         /\ e.items[i].state \in ActiveItem => d.items[i].state \in ActiveItem
         /\ e.items[i].state = "running" => /\ d.items[i].state = "running"
                                            /\ e.items[i].owner = d.items[i].owner
    /\ \A j \in Jobs(d) : e.windows[j].room = d.windows[j].room
    /\ \A t \in Tasks : e.tasks[t].count = d.tasks[t].count

(* What it leaves of the tasks: the settled ones.                          *)
Settles(d, e) ==
    \A t \in Tasks : d.tasks[t].state = "resolved" => e.tasks[t].state = "resolved"

(* Calm transactions compose.                                              *)
LEMMA CalmAgain ==
    ASSUME NEW d, NEW e, NEW f, Calm(d, e), Calm(e, f)
    PROVE  Calm(d, f)
<1>1. ASSUME NEW i \in Items(d)
      PROVE  /\ f.items[i].job = d.items[i].job
             /\ f.items[i].state \in ActiveItem => d.items[i].state \in ActiveItem
             /\ f.items[i].state = "running" => /\ d.items[i].state = "running"
                                                /\ f.items[i].owner = d.items[i].owner
  <2>1. i \in Items(e)
    BY DEF Calm
  <2>2. /\ e.items[i].job = d.items[i].job
        /\ e.items[i].state \in ActiveItem => d.items[i].state \in ActiveItem
        /\ e.items[i].state = "running" => /\ d.items[i].state = "running"
                                           /\ e.items[i].owner = d.items[i].owner
    BY DEF Calm
  <2>3. /\ f.items[i].job = e.items[i].job
        /\ f.items[i].state \in ActiveItem => e.items[i].state \in ActiveItem
        /\ f.items[i].state = "running" => /\ e.items[i].state = "running"
                                           /\ f.items[i].owner = e.items[i].owner
    BY <2>1 DEF Calm
  <2> QED BY <2>2, <2>3
<1>2. \A j \in Jobs(d) : f.windows[j].room = d.windows[j].room
  BY DEF Calm
<1>3. \A t \in Tasks : f.tasks[t].count = d.tasks[t].count
  BY DEF Calm
<1> QED
  BY <1>1, <1>2, <1>3 DEF Calm

(* A calm transaction opens no item of a task.                             *)
LEMMA CalmOpen ==
    ASSUME NEW d, NEW e, Calm(d, e), NEW t
    PROVE  Open(e, t) \subseteq Open(d, t)
BY DEF Calm, Open, Held, Attempted

(* So does what they leave of the tasks.                                   *)
LEMMA SettlesAgain ==
    ASSUME NEW d, NEW e, NEW f, Settles(d, e), Settles(e, f)
    PROVE  Settles(d, f)
BY DEF Settles

(* Windows stay within their room where no item is added.                  *)
LEMMA CalmFits ==
    ASSUME NEW d, NEW e, Calm(d, e), Fits(d)
    PROVE  Fits(e)
<1>1. \A j : ItemsOf(e, j) = ItemsOf(d, j)
  BY DEF Calm, ItemsOf
<1> QED
  BY <1>1 DEF Calm, Fits

(* The order of the naturals, as a relation.                               *)
Below == {pair \in Nat \X Nat : pair[1] < pair[2]}

(* A set of numbers that is not empty has a least one.                     *)
LEMMA Least ==
    ASSUME NEW T \in SUBSET Nat, T # {} PROVE \E m \in T : \A n \in T : m <= n
<1>1. IsWellFoundedOn(Below, Nat)
  BY NatLessThanWellFounded DEF OpToRel, Below
<1>2. PICK m \in T : \A n \in T : ~(<<n, m>> \in Below)
  BY <1>1, WFMin
<1>3. ASSUME NEW n \in T PROVE m <= n
  <2>1. <<n, m>> \in Nat \X Nat /\ ~(<<n, m>> \in Below)
    BY <1>2
  <2>2. ~(n < m)
    BY <2>1 DEF Below
  <2> QED BY <2>2
<1> QED BY <1>3

(* A largest limit of attempts exists, because there are finitely many.    *)
LEMMA LargestLimit ==
    /\ Max(Limits) \in Limits /\ Max(Limits) \in Nat \ {0}
    /\ \A n \in Limits : n <= Max(Limits)
<1>1. Limits \in SUBSET (Nat \ {0}) /\ Limits # {} /\ IsFiniteSet(Limits)
  BY WindowsAssumption
<1> DEFINE above(n) == {m \in Limits : m > n}
           T == {Cardinality(above(n)) : n \in Limits}
<1>2. \A n \in Limits : IsFiniteSet(above(n)) /\ Cardinality(above(n)) \in Nat
  BY <1>1, FS_Subset, FS_CardinalityType
<1>3. PICK k \in T : \A c \in T : k <= c
  <2>1. T \in SUBSET Nat /\ T # {}
    <3> HIDE DEF above
    <3> QED BY <1>1, <1>2
  <2> HIDE DEF T
  <2> QED BY <2>1, Least
<1>4. PICK n \in Limits : k = Cardinality(above(n))
  OBVIOUS
<1>5. \A m \in Limits : m <= n
  <2> SUFFICES ASSUME NEW m \in Limits, ~(m <= n) PROVE FALSE
    OBVIOUS
  <2>1. above(m) \in SUBSET (above(n) \ {m}) /\ m \in above(n)
    <3>1. m > n /\ n \in Nat /\ m \in Nat
      BY <1>1
    <3>2. \A x \in Limits : x > m => x > n /\ x # m
      BY <1>1, <3>1
    <3> QED BY <3>1, <3>2
  <2>2. IsFiniteSet(above(n) \ {m}) /\ Cardinality(above(n) \ {m}) = Cardinality(above(n)) - 1
    BY <2>1, <1>2, FS_RemoveElement
  <2>3. Cardinality(above(m)) <= Cardinality(above(n)) - 1
    BY <2>1, <2>2, FS_Subset
  <2>4. Cardinality(above(n)) <= Cardinality(above(m))
    BY <1>3, <1>4
  <2> HIDE DEF above
  <2> QED BY <2>3, <2>4, <1>2
<1>6. Max(Limits) \in Limits /\ \A m \in Limits : Max(Limits) >= m
  BY <1>1, <1>5 DEF Max
<1> QED
  BY <1>1, <1>6

(* The projection of the job of a window.                                  *)
LEMMA JobState ==
    ASSUME NEW current \in JobStates, NEW active \in BOOLEAN, NEW dead \in BOOLEAN,
           NEW cancelled \in BOOLEAN, NEW window \in WindowStates
    PROVE  LET job == LifecycleJobState(current, active, dead, cancelled, window, FALSE) IN
           /\ job \in JobStates
           /\ window # "active" => job \notin {"queued", "running"}
<1>1. CASE current = "cancelled" \/ (window = "active" /\ current \notin {"paused", "cancel_requested"})
  BY <1>1 DEF LifecycleJobState, JobStates
<1>2. CASE ~(current = "cancelled" \/ (window = "active" /\ current \notin {"paused", "cancel_requested"}))
  <2>1. CASE active
    BY <1>2, <2>1 DEF LifecycleJobState, JobStates, WindowStates
  <2>2. CASE ~active
    BY <1>2, <2>2 DEF LifecycleJobState, JobStates, WindowStates
  <2> QED BY <2>1, <2>2
<1> QED BY <1>1, <1>2

(* refreshlifecyclejob computes a state of a job, and none that can be     *)
(* claimed from under a window that is not active.                         *)
LEMMA RefreshedState ==
    ASSUME NEW d, Tables(d), NEW j \in Jobs(d)
    PROVE  /\ Refreshed(d, j) \in JobStates
           /\ d.windows[j].state # "active" => Refreshed(d, j) \notin {"queued", "running"}
<1> DEFINE some(S) == \E i \in ItemsOf(d, j) : d.items[i].state \in S
<1>1. d.jobs[j] \in JobStates /\ d.windows[j].state \in WindowStates
  BY DEF Tables, WindowRow
<1>2. Refreshed(d, j) = LifecycleJobState(d.jobs[j], some(ActiveItem), some({"dead_letter"}),
                          some({"cancelled"}), d.windows[j].state, FALSE)
  BY DEF Refreshed
<1>3. some(ActiveItem) \in BOOLEAN /\ some({"dead_letter"}) \in BOOLEAN /\ some({"cancelled"}) \in BOOLEAN
  OBVIOUS
<1> HIDE DEF some
<1> QED
  BY <1>1, <1>2, <1>3, JobState

(* It writes that state and nothing else.                                  *)
LEMMA RefreshJob ==
    ASSUME NEW d, Tables(d), NEW j \in Jobs(d)
    PROVE  LET e == Refresh(d, j) IN
           /\ Tables(e)
           /\ e.kind = d.kind /\ e.evidence = d.evidence /\ e.tasks = d.tasks /\ e.items = d.items
           /\ e.windows = d.windows /\ e.conflict = d.conflict /\ Jobs(e) = Jobs(d)
           /\ \A k \in Jobs(d) : e.jobs[k] = IF k = j THEN Refreshed(d, j) ELSE d.jobs[k]
<1> DEFINE r == Refreshed(d, j)
           e == Refresh(d, j)
<1>1. r \in JobStates
  BY RefreshedState
<1>2. e = [d EXCEPT !.jobs[j] = r]
  BY DEF Refresh
<1> HIDE DEF r, e
<1>3. /\ e = [kind |-> e.kind, evidence |-> e.evidence, tasks |-> e.tasks, items |-> e.items,
              windows |-> e.windows, jobs |-> e.jobs, conflict |-> e.conflict]
      /\ e.kind = d.kind /\ e.evidence = d.evidence /\ e.tasks = d.tasks /\ e.items = d.items
      /\ e.windows = d.windows /\ e.conflict = d.conflict
      /\ e.jobs = [d.jobs EXCEPT ![j] = r]
  BY <1>2 DEF Tables
<1>4. /\ Jobs(e) = Jobs(d)
      /\ \A k \in Jobs(d) : e.jobs[k] = IF k = j THEN r ELSE d.jobs[k]
      /\ e.jobs \in [Jobs(e) -> JobStates]
  BY <1>1, <1>3 DEF Tables, Jobs
<1>5. Items(e) = Items(d)
  BY <1>3 DEF Items
<1>6. Tables(e)
  BY <1>3, <1>4, <1>5 DEF Tables
<1> QED BY <1>3, <1>4, <1>6 DEF r, e

(* Refreshing shuts a job if its window is closed, and leaves one open as  *)
(* it was.                                                                 *)
LEMMA RefreshCalm ==
    ASSUME NEW d, Tables(d), NEW j \in Jobs(d)
    PROVE  /\ Calm(d, Refresh(d, j)) /\ Settles(d, Refresh(d, j))
           /\ (\A k \in Jobs(d) \ {j} : d.windows[k].state # "active"
                                          => d.jobs[k] \notin {"queued", "running"})
                => Shut(Refresh(d, j))
           /\ Tried(d) => Tried(Refresh(d, j))
<1> DEFINE e == Refresh(d, j)
<1>1. /\ e.kind = d.kind /\ e.evidence = d.evidence /\ e.tasks = d.tasks /\ e.items = d.items
      /\ e.windows = d.windows /\ e.conflict = d.conflict /\ Jobs(e) = Jobs(d)
      /\ \A k \in Jobs(d) : e.jobs[k] = IF k = j THEN Refreshed(d, j) ELSE d.jobs[k]
  BY RefreshJob
<1> HIDE DEF e
<1>2. Items(e) = Items(d)
  BY <1>1 DEF Items
<1>3. Calm(d, e) /\ (Tried(d) => Tried(e))
  BY <1>1, <1>2 DEF Calm, Tried
<1>4. Settles(d, e)
  BY <1>1 DEF Settles
<1>5. (\A k \in Jobs(d) \ {j} : d.windows[k].state # "active" => d.jobs[k] \notin {"queued", "running"})
        => Shut(e)
  BY <1>1, RefreshedState DEF Shut
<1> QED BY <1>3, <1>4, <1>5 DEF e

(* Items that are put in a state nobody owns.                              *)
LEMMA PutItems ==
    ASSUME NEW d, Tables(d), NEW S \in SUBSET Items(d), NEW state \in ItemStates \ OwnedItem
    PROVE  LET e == WithItems(d, S, state) IN
           /\ Tables(e)
           /\ e.kind = d.kind /\ e.evidence = d.evidence /\ e.tasks = d.tasks
           /\ e.windows = d.windows /\ e.jobs = d.jobs /\ e.conflict = d.conflict
           /\ Items(e) = Items(d) /\ Jobs(e) = Jobs(d)
           /\ \A i \in Items(d) \ S : e.items[i] = d.items[i]
           /\ \A i \in S : /\ e.items[i].state = state /\ e.items[i].owner = None
                           /\ e.items[i].job = d.items[i].job /\ e.items[i].reply = d.items[i].reply
           /\ Tried(d) => Tried(e)
           /\ (state = "queued" => \A i \in S : d.items[i].state \in ActiveItem) => Calm(d, e)
<1> DEFINE put(i) == [d.items[i] EXCEPT !.state = state, !.owner = None, !.live = FALSE,
                                        !.tries = IF state = "queued" THEN @ ELSE 0]
           I == [i \in Items(d) |-> IF i \in S THEN put(i) ELSE d.items[i]]
           e == WithItems(d, S, state)
<1>1. e.items = I /\ e = [kind |-> d.kind, evidence |-> d.evidence, tasks |-> d.tasks,
              items |-> e.items, windows |-> d.windows, jobs |-> d.jobs, conflict |-> d.conflict]
  <2>1. CASE S = {}
    <3>1. e = d
      BY <2>1 DEF WithItems
    <3>2. d.items = I
      BY <2>1 DEF Tables
    <3> HIDE DEF e, I
    <3> QED BY <3>1, <3>2 DEF Tables
  <2>2. CASE S # {}
    <3>1. e = [d EXCEPT !.items = I]
      BY <2>2 DEF WithItems
    <3> HIDE DEF e, I
    <3> QED BY <3>1 DEF Tables
  <2> QED BY <2>1, <2>2
<1>2. \A i \in S : /\ put(i) \in ItemRow(Jobs(d))
                   /\ put(i).state = state /\ put(i).owner = None
                   /\ put(i).job = d.items[i].job /\ put(i).reply = d.items[i].reply
  <2> SUFFICES ASSUME NEW i \in S
               PROVE  /\ put(i) \in ItemRow(Jobs(d))
                      /\ put(i).state = state /\ put(i).owner = None
                      /\ put(i).job = d.items[i].job /\ put(i).reply = d.items[i].reply
    OBVIOUS
  <2>1. d.items[i] \in ItemRow(Jobs(d)) /\ 0 \in 0..ItemAttempts
    BY WindowsAssumption DEF Tables
  <2> QED BY <2>1 DEF ItemRow
<1> HIDE DEF put, e
<1>3. I \in [Items(d) -> ItemRow(Jobs(d))]
  BY <1>2 DEF Tables
<1>4. /\ \A i \in Items(d) \ S : I[i] = d.items[i]
      /\ \A i \in S : /\ I[i].state = state /\ I[i].owner = None
                      /\ I[i].job = d.items[i].job /\ I[i].reply = d.items[i].reply
  BY <1>2
<1> HIDE DEF I
<1>5. Items(e) = Items(d) /\ Jobs(e) = Jobs(d)
  BY <1>1, <1>3 DEF Items, Jobs
<1>6. Tables(e)
  BY <1>1, <1>3, <1>5 DEF Tables
<1>7. Tried(d) => Tried(e)
  BY <1>1, <1>4, <1>5 DEF Tried
<1>8. (state = "queued" => \A i \in S : d.items[i].state \in ActiveItem) => Calm(d, e)
  BY <1>1, <1>4, <1>5 DEF Calm, ActiveItem, OwnedItem
<1> QED BY <1>1, <1>4, <1>5, <1>6, <1>7, <1>8 DEF e

-----------------------------------------------------------------------------
(* Tasks, closing and the census.                                          *)

(* Only tasks change, and their attempts are not counted.                  *)
LEMMA TasksChange ==
    ASSUME NEW d, Tables(d), NEW T \in [Tasks -> TaskRow],
           \A t \in Tasks : T[t].count = d.tasks[t].count
    PROVE  LET e == [d EXCEPT !.tasks = T] IN
           /\ Tables(e) /\ Calm(d, e)
           /\ e.tasks = T /\ e.items = d.items /\ e.windows = d.windows /\ e.jobs = d.jobs
           /\ Good(d) => Good(e)
           /\ \A t : Open(e, t) = Open(d, t)
<1> DEFINE e == [d EXCEPT !.tasks = T]
<1>1. e = [kind |-> d.kind, evidence |-> d.evidence, tasks |-> T, items |-> d.items,
           windows |-> d.windows, jobs |-> d.jobs, conflict |-> d.conflict]
  <2>1. d = [kind |-> d.kind, evidence |-> d.evidence, tasks |-> d.tasks, items |-> d.items,
             windows |-> d.windows, jobs |-> d.jobs, conflict |-> d.conflict]
    BY DEF Tables
  <2> QED BY ONLY <2>1
<1> HIDE DEF e
<1>2. Items(e) = Items(d) /\ Jobs(e) = Jobs(d)
  BY <1>1 DEF Items, Jobs
<1>3. Tables(e)
  BY <1>1, <1>2 DEF Tables
<1>4. Calm(d, e)
  BY <1>1, <1>2 DEF Calm
<1>5. Good(d) => Good(e)
  <2>1. Tried(d) => Tried(e)
    BY <1>1, <1>2 DEF Tried
  <2>2. Shut(d) => Shut(e)
    BY <1>1, <1>2 DEF Shut
  <2> QED BY <1>3, <1>4, <2>1, <2>2, CalmFits DEF Good
<1>6. \A t : Open(e, t) = Open(d, t)
  BY <1>1, <1>2 DEF Open, Held, Attempted
<1> QED BY <1>1, <1>3, <1>4, <1>5, <1>6 DEF e

(* A retry revives failed and unresolved tasks only.                       *)
LEMMA RetriesCalm ==
    ASSUME NEW d, Tables(d), NEW S, NEW scope
    PROVE  LET e == Reconsidered(d, S, scope) IN
           /\ Tables(e) /\ Calm(d, e) /\ Settles(d, e)
           /\ e.items = d.items /\ e.windows = d.windows /\ e.jobs = d.jobs
           /\ Good(d) => Good(e)
<1> DEFINE answer(t) == Disposition(d, t, scope)
           ready(t)  == answer(t) \in {"runnable", "retry-delay"}
           request(t) == CASE RequestSettled(answer(t)) -> "none"
                           [] ready(t)                  -> "ready"
                           [] OTHER                     -> "held"
           revived(t) == ready(t) /\ d.tasks[t].state \in {"failed", "unresolved"}
           new(t) == [d.tasks[t] EXCEPT !.state   = IF revived(t) THEN "pending" ELSE @,
                                        !.request = request(t)]
           T == [t \in Tasks |-> IF t \notin S \/ ~Requested(d, t) THEN d.tasks[t] ELSE new(t)]
           e == Reconsidered(d, S, scope)
<1>1. CASE \A t \in S : ~Requested(d, t)
  <2>1. e = d
    BY <1>1 DEF Reconsidered
  <2>2. Calm(d, d) /\ Settles(d, d)
    BY DEF Calm, Settles
  <2> HIDE DEF e
  <2> QED BY <2>1, <2>2 DEF e
<1>2. CASE ~\A t \in S : ~Requested(d, t)
  <2>1. e = [d EXCEPT !.tasks = T]
    BY <1>2 DEF Reconsidered
  <2>2. \A t \in Tasks : request(t) \in {"none", "ready", "held"}
    <3> SUFFICES ASSUME NEW t \in Tasks PROVE request(t) \in {"none", "ready", "held"}
      OBVIOUS
    <3> DEFINE a == answer(t)
    <3>1. request(t) = CASE RequestSettled(a) -> "none"
                         [] a \in {"runnable", "retry-delay"} -> "ready"
                         [] OTHER -> "held"
      OBVIOUS
    <3> HIDE DEF a, request
    <3> QED BY <3>1 DEF RequestSettled
  <2> HIDE DEF request, ready, answer
  <2>3. \A t \in Tasks : /\ new(t) \in TaskRow
                         /\ new(t).count = d.tasks[t].count
                         /\ new(t).state = IF revived(t) THEN "pending" ELSE d.tasks[t].state
    BY <2>2 DEF Tables, TaskRow, TaskStates
  <2>4. /\ T \in [Tasks -> TaskRow] /\ \A t \in Tasks : T[t].count = d.tasks[t].count
        /\ \A t \in Tasks : \/ T[t].state = d.tasks[t].state
                            \/ d.tasks[t].state \in {"failed", "unresolved"} /\ T[t].state = "pending"
    <3> HIDE DEF new
    <3> QED BY <2>3 DEF Tables
  <2> HIDE DEF T, e
  <2>5. /\ Tables(e) /\ Calm(d, e) /\ e.tasks = T
        /\ e.items = d.items /\ e.windows = d.windows /\ e.jobs = d.jobs
        /\ Good(d) => Good(e)
    BY <2>1, <2>4, TasksChange
  <2>6. Settles(d, e)
    BY <2>4, <2>5 DEF Settles
  <2> QED BY <2>5, <2>6 DEF e
<1> QED BY <1>1, <1>2

(* Tasks follow their last item once nothing of them is open.              *)
LEMMA ReconcileCalm ==
    ASSUME NEW d, Tables(d), NEW p, NEW scope
    PROVE  LET e == Reconcile(d, p, scope) IN
           /\ Tables(e) /\ Calm(d, e) /\ Settles(d, e)
           /\ e.items = d.items /\ e.windows = d.windows /\ e.jobs = d.jobs
           /\ Good(d) => Good(e)
<1> DEFINE mine(t)    == scope = Jobs(d) \/ \E i \in Attempted(d, t) : d.items[i].job \in scope
           over(t)    == d.tasks[t].state = "dispatched" /\ Open(d, t) = {} /\ mine(t)
           settled(t) == d.items[<<t, d.tasks[t].count>>].state \in DoneItem
           waits(t)   == d.tasks[t].paid > 0 /\ ~Recoverable(d, t) /\ ~Requested(d, t)
           followed(t) == IF ~over(t) THEN d.tasks[t]
                          ELSE [d.tasks[t] EXCEPT
                                  !.state   = IF settled(t) THEN "resolved" ELSE "pending",
                                  !.delayed = @ \/ waits(t)]
           spent(t)   == /\ followed(t).state = "pending" /\ mine(t)
                         /\ d.tasks[t].paid >= d.windows[p].limit /\ ~Recoverable(d, t)
           T == [t \in Tasks |-> IF spent(t) THEN [followed(t) EXCEPT !.state = "failed"]
                                 ELSE followed(t)]
           c == [d EXCEPT !.tasks = T]
           e == Reconcile(d, p, scope)
<1>1. e = Reconsider(c, scope)
  BY DEF Reconcile
<1>2. \A t \in Tasks : waits(t) \in BOOLEAN
  OBVIOUS
<1> HIDE DEF waits, mine, settled
<1>3. \A t \in Tasks : /\ followed(t) \in TaskRow
                       /\ followed(t).count = d.tasks[t].count
                       /\ ~over(t) => followed(t) = d.tasks[t]
  <2> SUFFICES ASSUME NEW t \in Tasks
               PROVE  /\ followed(t) \in TaskRow
                      /\ followed(t).count = d.tasks[t].count
                      /\ ~over(t) => followed(t) = d.tasks[t]
    OBVIOUS
  <2>1. d.tasks[t] \in TaskRow
    BY DEF Tables
  <2> HIDE DEF over
  <2> QED BY <1>2, <2>1 DEF TaskRow, TaskStates
<1> HIDE DEF followed
<1>4. \A t \in Tasks : /\ spent(t) => /\ [followed(t) EXCEPT !.state = "failed"] \in TaskRow
                                      /\ [followed(t) EXCEPT !.state = "failed"].count = d.tasks[t].count
                                      /\ [followed(t) EXCEPT !.state = "failed"].state = "failed"
  BY <1>3 DEF TaskRow, TaskStates
<1>5. \A t \in Tasks : spent(t) => followed(t).state = "pending"
  OBVIOUS
<1> HIDE DEF spent
<1>6. T \in [Tasks -> TaskRow] /\ \A t \in Tasks : T[t].count = d.tasks[t].count
  BY <1>3, <1>4
<1>7. \A t \in Tasks : \/ d.tasks[t].state = "dispatched" /\ Open(d, t) = {}
                       \/ T[t].state = d.tasks[t].state
                       \/ d.tasks[t].state = "pending" /\ T[t].state = "failed"
  BY <1>3, <1>4, <1>5
<1> HIDE DEF T, c, e
<1>8. /\ Tables(c) /\ Calm(d, c) /\ c.tasks = T
      /\ c.items = d.items /\ c.windows = d.windows /\ c.jobs = d.jobs
      /\ Good(d) => Good(c)
      /\ \A t : Open(c, t) = Open(d, t)
  <2>1. c = [d EXCEPT !.tasks = T]
    BY DEF c
  <2> QED BY <2>1, <1>6, TasksChange
<1>9. Settles(d, c)
  BY <1>7, <1>8 DEF Settles
<1>10. /\ Tables(e) /\ Calm(c, e) /\ Settles(c, e)
       /\ e.items = c.items /\ e.windows = c.windows /\ e.jobs = c.jobs
       /\ Good(c) => Good(e)
  BY <1>1, <1>8, RetriesCalm DEF Reconsider
<1>11. Calm(d, e) /\ Settles(d, e)
  BY <1>8, <1>9, <1>10, CalmAgain, SettlesAgain
<1> QED BY <1>8, <1>10, <1>11 DEF e

(* A closed window leaves nothing in its queue, and its job is out of the  *)
(* reach of a claim.                                                       *)
LEMMA CloseCalm ==
    ASSUME NEW d, Good(d), NEW j \in Jobs(d), NEW reason \in WindowStates \ {"active"}
    PROVE  /\ Good(Close(d, j, reason))
           /\ Calm(d, Close(d, j, reason)) /\ Settles(d, Close(d, j, reason))
           /\ \A i \in Items(d) \ QueuedOf(d, j) : Close(d, j, reason).items[i] = d.items[i]
<1> DEFINE parked  == WithItems(d, QueuedOf(d, j), "cancelled")
           left(t) == /\ d.tasks[t].state = "dispatched"
                      /\ \E i \in ItemsOf(d, j) : i[1] = t /\ parked.items[i].state = "cancelled"
           new(t) == IF left(t) THEN [d.tasks[t] EXCEPT !.state = "pending"] ELSE d.tasks[t]
           T == [t \in Tasks |-> new(t)]
           row == [d.windows[j] EXCEPT !.state = IF @ = "active" THEN reason ELSE @]
           closed  == [parked EXCEPT !.tasks = T,
                                     !.windows[j].state = IF @ = "active" THEN reason ELSE @]
           e == Close(d, j, reason)
<1>0. Tables(d) /\ Tried(d) /\ Shut(d) /\ Fits(d)
  BY DEF Good
<1>1. e = Reconsider(Refresh(closed, j), {j})
  BY DEF Close
<1>2. /\ Tables(parked)
      /\ parked.kind = d.kind /\ parked.evidence = d.evidence /\ parked.tasks = d.tasks
      /\ parked.windows = d.windows /\ parked.jobs = d.jobs /\ parked.conflict = d.conflict
      /\ Items(parked) = Items(d) /\ Jobs(parked) = Jobs(d)
      /\ Tried(parked) /\ Calm(d, parked)
      /\ \A i \in Items(d) \ QueuedOf(d, j) : parked.items[i] = d.items[i]
  <2>1. QueuedOf(d, j) \in SUBSET Items(d)
    BY DEF QueuedOf, ItemsOf
  <2>2. "cancelled" \in ItemStates \ OwnedItem
    BY DEF ItemStates, OwnedItem
  <2> HIDE DEF parked
  <2> QED BY <1>0, <2>1, <2>2, PutItems DEF parked
<1> HIDE DEF parked, left
<1>3. /\ T \in [Tasks -> TaskRow]
      /\ \A t \in Tasks : /\ T[t].count = d.tasks[t].count
                          /\ \/ T[t].state = d.tasks[t].state
                             \/ d.tasks[t].state = "dispatched" /\ T[t].state = "pending"
  <2>1. \A t \in Tasks : /\ [d.tasks[t] EXCEPT !.state = "pending"] \in TaskRow
                         /\ [d.tasks[t] EXCEPT !.state = "pending"].count = d.tasks[t].count
                         /\ [d.tasks[t] EXCEPT !.state = "pending"].state = "pending"
                         /\ d.tasks[t] \in TaskRow
    BY <1>0 DEF Tables, TaskRow, TaskStates
  <2>2. \A t \in Tasks : left(t) => d.tasks[t].state = "dispatched"
    BY DEF left
  <2>3. \A t \in Tasks : /\ new(t) \in TaskRow /\ new(t).count = d.tasks[t].count
                         /\ \/ new(t).state = d.tasks[t].state
                            \/ d.tasks[t].state = "dispatched" /\ new(t).state = "pending"
    BY <2>1, <2>2
  <2> HIDE DEF new
  <2> QED BY <2>3
<1>4. row \in WindowRow /\ row.state # "active" /\ row.room = d.windows[j].room
  <2>1. d.windows[j] \in WindowRow
    BY <1>0 DEF Tables
  <2> QED BY <2>1 DEF WindowRow
<1>5. closed = [kind |-> d.kind, evidence |-> d.evidence, tasks |-> T, items |-> parked.items,
                windows |-> [d.windows EXCEPT ![j] = row], jobs |-> d.jobs, conflict |-> d.conflict]
  <2>1. parked = [kind |-> parked.kind, evidence |-> parked.evidence, tasks |-> parked.tasks,
                  items |-> parked.items, windows |-> parked.windows, jobs |-> parked.jobs,
                  conflict |-> parked.conflict]
    BY <1>2 DEF Tables
  <2>2. closed = [kind |-> parked.kind, evidence |-> parked.evidence, tasks |-> T,
                  items |-> parked.items,
                  windows |-> [parked.windows EXCEPT ![j].state = IF @ = "active" THEN reason ELSE @],
                  jobs |-> parked.jobs, conflict |-> parked.conflict]
    <3> HIDE DEF T
    <3>0. closed = [parked EXCEPT !.tasks = T,
                                  !.windows[j].state = IF @ = "active" THEN reason ELSE @]
      OBVIOUS
    <3> HIDE DEF closed
    <3>1. closed = [kind |-> closed.kind, evidence |-> closed.evidence, tasks |-> closed.tasks,
                    items |-> closed.items, windows |-> closed.windows, jobs |-> closed.jobs,
                    conflict |-> closed.conflict]
      BY ONLY <2>1, <3>0
    <3>2. /\ closed.tasks = T
          /\ closed.windows = [parked.windows EXCEPT ![j].state = IF @ = "active" THEN reason ELSE @]
      BY ONLY <2>1, <3>0
    <3>3. /\ closed.kind = parked.kind /\ closed.evidence = parked.evidence
          /\ closed.items = parked.items /\ closed.jobs = parked.jobs
          /\ closed.conflict = parked.conflict
      BY ONLY <2>1, <3>0
    <3> QED BY ONLY <3>1, <3>2, <3>3
  <2>3. [parked.windows EXCEPT ![j].state = IF @ = "active" THEN reason ELSE @]
           = [d.windows EXCEPT ![j] = row]
    BY <1>2
  <2> QED BY <1>2, <2>2, <2>3
<1> HIDE DEF T, row, closed
<1>6. /\ closed.items = parked.items /\ closed.tasks = T /\ closed.kind = d.kind
      /\ closed.evidence = d.evidence /\ closed.conflict = d.conflict /\ closed.jobs = d.jobs
      /\ closed.windows = [d.windows EXCEPT ![j] = row]
      /\ Items(closed) = Items(d) /\ Jobs(closed) = Jobs(d)
  BY <1>2, <1>5 DEF Items, Jobs
<1>7. /\ \A k \in Jobs(d) : closed.windows[k] = IF k = j THEN row ELSE d.windows[k]
      /\ closed.windows \in [Jobs(d) -> WindowRow]
  BY <1>0, <1>4, <1>6 DEF Tables
<1>8. Tables(closed)
  BY <1>2, <1>3, <1>5, <1>6, <1>7 DEF Tables
<1>9. Calm(parked, closed) /\ Tried(closed)
  BY <1>2, <1>3, <1>4, <1>6, <1>7 DEF Calm, Tried
<1>10. Settles(d, closed)
  BY <1>3, <1>6 DEF Settles
<1> DEFINE shown == Refresh(closed, j)
<1>11. Tables(shown) /\ Calm(closed, shown) /\ Settles(closed, shown) /\ Tried(shown) /\ Shut(shown)
  <2>1. \A k \in Jobs(closed) \ {j} : closed.windows[k].state # "active"
                                        => closed.jobs[k] \notin {"queued", "running"}
    BY <1>0, <1>6, <1>7 DEF Shut
  <2>2. j \in Jobs(closed)
    BY <1>6
  <2> HIDE DEF shown
  <2>3. Tables(shown)
    BY <1>8, <2>2, RefreshJob DEF shown
  <2> QED BY <1>8, <1>9, <2>1, <2>2, <2>3, RefreshCalm DEF shown
<1> HIDE DEF shown
<1>12. Calm(d, shown) /\ Settles(d, shown)
  <2>1. Calm(d, closed)
    BY <1>2, <1>9, CalmAgain
  <2> QED BY <2>1, <1>10, <1>11, CalmAgain, SettlesAgain
<1>13. Good(shown)
  BY <1>0, <1>11, <1>12, CalmFits DEF Good
<1>14. e = Reconsidered(shown, Tasks, {j})
  BY <1>1 DEF Reconsider, shown
<1>15. Good(e) /\ Calm(shown, e) /\ Settles(shown, e) /\ e.items = shown.items
  BY <1>13, <1>14, RetriesCalm DEF Good
<1>16. shown.items = closed.items
  <2>1. j \in Jobs(closed)
    BY <1>6
  <2> QED BY <1>8, <2>1, RefreshJob DEF shown
<1>17. \A i \in Items(d) \ QueuedOf(d, j) : e.items[i] = d.items[i]
  BY <1>2, <1>6, <1>15, <1>16
<1> QED BY <1>12, <1>15, <1>17, CalmAgain, SettlesAgain DEF e

(* The census makes tasks, and replaces those that nothing is done about.  *)
LEMMA EnqueueCalm ==
    ASSUME NEW d, Tables(d), NEW Q
    PROVE  LET e == Enqueue(d, Q) IN
           /\ Tables(e) /\ Calm(d, e) /\ Settles(d, e)
           /\ Good(d) => Good(e)
<1> DEFINE known(q) == {s \in Tasks : s[1] = q /\ d.tasks[s].state \notin {"none", "superseded"}}
           held(q)  == \E s \in known(q) : Open(d, s) # {}
           waits(q) == \E s \in known(q) : /\ d.tasks[s].state \in {"pending", "unresolved", "failed"}
                                           /\ d.tasks[s].delayed
           new(q)   == q \in Q /\ ~held(q) /\ ~waits(q) /\ d.tasks[Evidence(d, q)].state = "none"
           lent(q)  == \E s \in known(q) :
                          /\ d.tasks[s].state = "resolved" /\ d.tasks[s].delayed
                          /\ \A c \in Tasks : c[1] = q /\ c[2] > s[2] => d.tasks[c].state = "none"
           found(t) == IF ~new(t[1]) THEN d.tasks[t]
                       ELSE IF Fresh(d, t)
                            THEN [d.tasks[t] EXCEPT !.state = "pending", !.delayed = lent(t[1])]
                       ELSE IF d.tasks[t].state \in {"pending", "unresolved"}
                            THEN [d.tasks[t] EXCEPT !.state = "superseded"]
                       ELSE d.tasks[t]
           T == [t \in Tasks |-> found(t)]
           e == Enqueue(d, Q)
<1>1. e = [d EXCEPT !.tasks = T]
  BY DEF Enqueue
<1>2. \A q : lent(q) \in BOOLEAN
  OBVIOUS
<1>3. \A t \in Tasks : new(t[1]) => /\ Fresh(d, t) => d.tasks[t].state = "none"
                                    /\ d.tasks[t].state \notin {"none", "superseded"} => Open(d, t) = {}
  BY DEF Fresh
<1> HIDE DEF lent, new
<1>4. \A t \in Tasks : /\ found(t) \in TaskRow /\ found(t).count = d.tasks[t].count
                       /\ \/ found(t).state = d.tasks[t].state
                          \/ d.tasks[t].state = "none"
                          \/ /\ d.tasks[t].state \in {"pending", "unresolved"}
                             /\ Open(d, t) = {}
  <2> SUFFICES ASSUME NEW t \in Tasks
               PROVE  /\ found(t) \in TaskRow /\ found(t).count = d.tasks[t].count
                      /\ \/ found(t).state = d.tasks[t].state
                         \/ d.tasks[t].state = "none"
                         \/ d.tasks[t].state \in {"pending", "unresolved"} /\ Open(d, t) = {}
    OBVIOUS
  <2>1. d.tasks[t] \in TaskRow
    BY DEF Tables
  <2> QED BY <1>2, <1>3, <2>1 DEF TaskRow, TaskStates
<1> HIDE DEF found
<1>5. T \in [Tasks -> TaskRow] /\ \A t \in Tasks : T[t] = found(t)
  BY <1>4
<1> HIDE DEF T, e
<1>6. /\ Tables(e) /\ Calm(d, e) /\ e.tasks = T
      /\ Good(d) => Good(e)
      /\ \A t : Open(e, t) = Open(d, t)
  BY <1>1, <1>4, <1>5, TasksChange
<1>7. Settles(d, e)
  BY <1>4, <1>5, <1>6 DEF Settles
<1> QED BY <1>6, <1>7 DEF e

(* The census, with the retries it reconsiders.                            *)
LEMMA DiscoveredCalm ==
    ASSUME NEW d, Tables(d), NEW j, NEW e \in Discovered(d, j)
    PROVE  /\ Tables(e) /\ Calm(d, e) /\ Settles(d, e)
           /\ Good(d) => Good(e)
<1>1. PICK Q \in SUBSET Questions : e = Reconsider(Enqueue(d, Q), {j})
  BY DEF Discovered
<1> DEFINE c == Enqueue(d, Q)
<1>2. Tables(c) /\ Calm(d, c) /\ Settles(d, c) /\ (Good(d) => Good(c))
  BY EnqueueCalm
<1> HIDE DEF c
<1>3. e = Reconsidered(c, Tasks, {j})
  BY <1>1 DEF c, Reconsider
<1>4. Tables(e) /\ Calm(c, e) /\ Settles(c, e) /\ (Good(c) => Good(e))
  BY <1>2, <1>3, RetriesCalm
<1> QED BY <1>2, <1>4, CalmAgain, SettlesAgain

-----------------------------------------------------------------------------
(* Dispatch: one task.                                                     *)

(* What sending tasks for window j adds: at most n items, all of them      *)
(* queued and for current evidence.                                        *)
Adds(d, e, j, n) ==
    /\ e.kind = d.kind /\ e.evidence = d.evidence /\ e.windows = d.windows /\ e.jobs = d.jobs
    /\ d.conflict => e.conflict
    /\ \A i \in Items(d) : i \in Items(e) /\ e.items[i] = d.items[i]
    /\ \A i \in Items(e) \ Items(d) :
         e.items[i].state = "queued" /\ e.items[i].job = j /\ Fresh(d, i[1])
    /\ Cardinality(ItemsOf(e, j)) <= Cardinality(ItemsOf(d, j)) + n

(* The items of a window are finite in number.                             *)
LEMMA FiniteItems ==
    ASSUME NEW d, Tables(d), NEW j
    PROVE  IsFiniteSet(ItemsOf(d, j)) /\ Cardinality(ItemsOf(d, j)) \in Nat
<1>1. ItemsOf(d, j) \in SUBSET Items(d) /\ IsFiniteSet(Items(d))
  BY DEF ItemsOf, Tables
<1> QED
  BY <1>1, FS_Subset, FS_CardinalityType

(* What two dispatches add is what one of both adds.                       *)
LEMMA AddsAgain ==
    ASSUME NEW d, NEW e, NEW f, NEW j, NEW m \in Nat, NEW n \in Nat,
           Tables(d), Tables(e), Tables(f), Adds(d, e, j, m), Adds(e, f, j, n)
    PROVE  Adds(d, f, j, m + n)
<1>1. ASSUME NEW i \in Items(f) \ Items(d)
      PROVE  f.items[i].state = "queued" /\ f.items[i].job = j /\ Fresh(d, i[1])
  <2>1. CASE i \in Items(e)
    BY <2>1 DEF Adds
  <2>2. CASE i \notin Items(e)
    BY <2>2 DEF Adds, Fresh, Evidence
  <2> QED BY <2>1, <2>2
<1>2. \A i \in Items(d) : i \in Items(f) /\ f.items[i] = d.items[i]
  BY DEF Adds
<1>3. /\ Cardinality(ItemsOf(d, j)) \in Nat /\ Cardinality(ItemsOf(e, j)) \in Nat
      /\ Cardinality(ItemsOf(f, j)) \in Nat
  BY FiniteItems
<1>4. Cardinality(ItemsOf(f, j)) <= Cardinality(ItemsOf(d, j)) + (m + n)
  BY <1>3 DEF Adds
<1> QED
  BY <1>1, <1>2, <1>4 DEF Adds

(* The states of a task that the guarded update of _dispatch accepts.      *)
Sendable == {"pending", "unresolved", "failed"}

(* Sending a task adds one item and counts the attempt, if the task may be *)
(* sent; or the number of its attempt is taken.                            *)
LEMMA SendOne ==
    ASSUME NEW d, Tables(d), NEW j \in Jobs(d), NEW t \in Tasks, Fresh(d, t)
    PROVE  LET e == Send(d, j, t)
               n == d.tasks[t].count + 1
           IN
           /\ Tables(e) /\ Adds(d, e, j, 1) /\ (Tried(d) => Tried(e))
           /\ \A u \in Tasks \ {t} : e.tasks[u] = d.tasks[u]
           /\ \/ e.conflict /\ e.tasks = d.tasks /\ e.items = d.items
              \/ /\ e.conflict = d.conflict
                 /\ <<t, n>> \notin Items(d) /\ Items(e) = Items(d) \cup {<<t, n>>}
                 /\ e.items[<<t, n>>].state = "queued"
                 /\ IF d.tasks[t].state \in Sendable
                    THEN e.tasks[t].state = "dispatched" /\ e.tasks[t].count = n
                    ELSE e.tasks[t] = d.tasks[t]
<1> DEFINE n == d.tasks[t].count + 1
           i == <<t, n>>
           item == Unclaimed(j)
           e == Send(d, j, t)
<1>0. d.tasks[t] \in TaskRow /\ n \in Nat /\ i \in Tasks \X Nat
  BY DEF Tables, TaskRow
<1>1. CASE i \in Items(d)
  <2>1. e = [d EXCEPT !.conflict = TRUE]
    BY <1>1 DEF Send
  <2> HIDE DEF e, i, n
  <2>2. e = [kind |-> d.kind, evidence |-> d.evidence, tasks |-> d.tasks, items |-> d.items,
             windows |-> d.windows, jobs |-> d.jobs, conflict |-> TRUE]
    <3>1. d = [kind |-> d.kind, evidence |-> d.evidence, tasks |-> d.tasks, items |-> d.items,
               windows |-> d.windows, jobs |-> d.jobs, conflict |-> d.conflict]
      BY DEF Tables
    <3> QED BY ONLY <2>1, <3>1
  <2>3. Items(e) = Items(d) /\ Jobs(e) = Jobs(d)
    BY <2>2 DEF Items, Jobs
  <2>4. Tables(e)
    BY <2>2, <2>3 DEF Tables
  <2>5. ItemsOf(e, j) = ItemsOf(d, j) /\ Cardinality(ItemsOf(d, j)) \in Nat
    BY <2>2, <2>3, FiniteItems DEF ItemsOf
  <2>6. Adds(d, e, j, 1)
    <3>1. Cardinality(ItemsOf(e, j)) <= Cardinality(ItemsOf(d, j)) + 1
      BY ONLY <2>5
    <3>2. Items(e) \ Items(d) = {}
      BY <2>3
    <3>3. \A k \in Items(d) : k \in Items(e) /\ e.items[k] = d.items[k]
      BY <2>2, <2>3
    <3>4. /\ e.kind = d.kind /\ e.evidence = d.evidence /\ e.windows = d.windows /\ e.jobs = d.jobs
          /\ e.conflict
      BY <2>2
    <3> QED BY <3>1, <3>2, <3>3, <3>4 DEF Adds
  <2>7. Tried(d) => Tried(e)
    BY <2>2, <2>3 DEF Tried
  <2> QED BY <2>2, <2>4, <2>6, <2>7 DEF e
<1>2. CASE i \notin Items(d)
  <2> DEFINE row == IF d.tasks[t].state \in Sendable
                    THEN [d.tasks[t] EXCEPT !.state = "dispatched", !.count = n]
                    ELSE d.tasks[t]
             I == [k \in Items(d) \cup {i} |-> IF k \in Items(d) THEN d.items[k] ELSE item]
             T == [d.tasks EXCEPT ![t] = row]
  <2>1. e = [d EXCEPT !.items = I,
                      !.tasks[t] = IF @.state \in {"pending", "unresolved", "failed"}
                                   THEN [@ EXCEPT !.state = "dispatched", !.count = n] ELSE @]
    BY <1>2 DEF Send
  <2>3. d = [kind |-> d.kind, evidence |-> d.evidence, tasks |-> d.tasks, items |-> d.items,
             windows |-> d.windows, jobs |-> d.jobs, conflict |-> d.conflict]
    BY DEF Tables
  <2>4. /\ row \in TaskRow
        /\ d.tasks[t].state \in Sendable => row.state = "dispatched" /\ row.count = n
        /\ d.tasks[t].state \notin Sendable => row = d.tasks[t]
    <3> HIDE DEF n, e, I, T, i
    <3> QED BY <1>0 DEF TaskRow, TaskStates
  <2>5. item \in ItemRow(Jobs(d)) /\ item.state = "queued" /\ item.job = j /\ item.tries = 0
    BY WindowsAssumption DEF ItemRow, ItemStates, Unclaimed
  <2>6. /\ e = [kind |-> e.kind, evidence |-> e.evidence, tasks |-> e.tasks, items |-> e.items,
                windows |-> e.windows, jobs |-> e.jobs, conflict |-> e.conflict]
        /\ e.kind = d.kind /\ e.evidence = d.evidence /\ e.windows = d.windows
        /\ e.jobs = d.jobs /\ e.conflict = d.conflict
        /\ e.items = I
        /\ e.tasks = [d.tasks EXCEPT ![t] = IF @.state \in {"pending", "unresolved", "failed"}
                                   THEN [@ EXCEPT !.state = "dispatched", !.count = n] ELSE @]
    <3> HIDE DEF e, I, n
    <3> QED BY ONLY <2>1, <2>3
  <2>7. e.items = I /\ e.tasks = T
    BY <2>6 DEF Sendable
  <2> HIDE DEF e, item, row
  <2>8. T \in [Tasks -> TaskRow] /\ T[t] = row /\ \A u \in Tasks \ {t} : T[u] = d.tasks[u]
    BY <2>4 DEF Tables
  <2>9. /\ Items(e) = Items(d) \cup {i}
        /\ \A k \in Items(d) : e.items[k] = d.items[k]
        /\ e.items[i] = item
        /\ Jobs(e) = Jobs(d)
    <3> HIDE DEF i, T
    <3> QED BY <1>2, <2>6, <2>7 DEF Items, Jobs
  <2> HIDE DEF I, T
  <2>10. e.items \in [Items(e) -> ItemRow(Jobs(e))]
    <3>1. d.items \in [Items(d) -> ItemRow(Jobs(d))]
      BY DEF Tables
    <3>2. e.items = [k \in Items(e) |-> e.items[k]]
      BY <2>7, <2>9 DEF I
    <3> HIDE DEF i
    <3> QED BY <2>5, <2>9, <3>1, <3>2
  <2>11. IsFiniteSet(Items(e)) /\ Items(e) \in SUBSET (Tasks \X Nat)
    <3> HIDE DEF i
    <3>1. IsFiniteSet(Items(d)) /\ Items(d) \in SUBSET (Tasks \X Nat)
      BY DEF Tables
    <3>2. IsFiniteSet(Items(d) \cup {i})
      BY <3>1, FS_AddElement
    <3> QED BY ONLY <1>0, <2>9, <3>1, <3>2
  <2>12. Tables(e)
    <3> HIDE DEF i
    <3> QED BY <2>6, <2>7, <2>8, <2>9, <2>10, <2>11 DEF Tables
  <2>13. Cardinality(ItemsOf(e, j)) <= Cardinality(ItemsOf(d, j)) + 1
    <3> HIDE DEF i
    <3>1. ItemsOf(e, j) = ItemsOf(d, j) \cup {i}
      BY <2>5, <2>9 DEF ItemsOf
    <3>2. /\ IsFiniteSet(ItemsOf(d, j)) /\ Cardinality(ItemsOf(d, j)) \in Nat
          /\ Cardinality(ItemsOf(d, j) \cup {i}) = IF i \in ItemsOf(d, j) THEN Cardinality(ItemsOf(d, j))
                                                   ELSE Cardinality(ItemsOf(d, j)) + 1
      BY FiniteItems, FS_AddElement
    <3> QED BY <3>1, <3>2
  <2>14. Adds(d, e, j, 1)
    <3>1. i[1] = t
      OBVIOUS
    <3> HIDE DEF i
    <3> QED BY <2>5, <2>6, <2>9, <2>13, <3>1 DEF Adds
  <2>15. Tried(d) => Tried(e)
    <3> HIDE DEF i
    <3> QED BY <2>5, <2>9 DEF Tried, OwnedItem
  <2>16. e.items[i].state = "queued"
    BY <2>5, <2>9
  <2>17. \A u \in Tasks \ {t} : e.tasks[u] = d.tasks[u]
    BY <2>7, <2>8
  <2>18. IF d.tasks[t].state \in Sendable
         THEN e.tasks[t].state = "dispatched" /\ e.tasks[t].count = n
         ELSE e.tasks[t] = d.tasks[t]
    BY <2>4, <2>7, <2>8
  <2> QED BY <1>2, <2>6, <2>9, <2>12, <2>14, <2>15, <2>16, <2>17, <2>18 DEF e
<1> QED BY <1>1, <1>2

(* The task of the current evidence is another one for a task that is not  *)
(* fresh.                                                                  *)
LEMMA EvidenceTask ==
    ASSUME NEW d, Tables(d), NEW t \in Tasks
    PROVE  /\ Evidence(d, t[1]) \in Tasks /\ Fresh(d, Evidence(d, t[1]))
           /\ ~Fresh(d, t) => Evidence(d, t[1]) # t
<1>1. t[1] \in Questions /\ d.evidence[t[1]] \in 1..Versions
  BY DEF Tables, Tasks
<1> QED
  BY <1>1 DEF Evidence, Fresh, Tasks

(* The task that gives way to the task of the current evidence.            *)
Gives(d, t) ==
    LET s == Evidence(d, t[1]) IN
    [d EXCEPT !.tasks[s] = IF @.state # "none" THEN @
                           ELSE [@ EXCEPT !.state = "pending", !.delayed = d.tasks[t].delayed],
              !.tasks[t].state = "superseded"]

(* A task that gives way is superseded; its successor waits unless it      *)
(* exists.                                                                 *)
LEMMA GivesWay ==
    ASSUME NEW d, Tables(d), NEW t \in Tasks, ~Fresh(d, t)
    PROVE  LET e == Gives(d, t)
               s == Evidence(d, t[1])
           IN
           /\ Tables(e) /\ Calm(d, e)
           /\ e.items = d.items /\ e.windows = d.windows /\ e.jobs = d.jobs
           /\ Good(d) => Good(e)
           /\ \A u : Open(e, u) = Open(d, u)
           /\ e.tasks[t].state = "superseded"
           /\ e.tasks[s].state = IF d.tasks[s].state = "none" THEN "pending" ELSE d.tasks[s].state
           /\ \A u \in Tasks \ {s, t} : e.tasks[u] = d.tasks[u]
<1> DEFINE s == Evidence(d, t[1])
           new == IF d.tasks[s].state # "none" THEN d.tasks[s]
                  ELSE [d.tasks[s] EXCEPT !.state = "pending", !.delayed = d.tasks[t].delayed]
           old == [d.tasks[t] EXCEPT !.state = "superseded"]
           T == [d.tasks EXCEPT ![s] = new, ![t] = old]
           e == Gives(d, t)
<1>1. s \in Tasks /\ s # t
  BY EvidenceTask
<1>2. d.tasks[t] \in TaskRow /\ d.tasks[s] \in TaskRow /\ d.tasks \in [Tasks -> TaskRow]
  BY <1>1 DEF Tables
<1>3. /\ old \in TaskRow /\ old.state = "superseded" /\ old.count = d.tasks[t].count
      /\ new \in TaskRow /\ new.count = d.tasks[s].count
      /\ new.state = IF d.tasks[s].state = "none" THEN "pending" ELSE d.tasks[s].state
  <2> HIDE DEF s
  <2> QED BY <1>2 DEF TaskRow, TaskStates
<1>4. e = [d EXCEPT !.tasks = T]
  <2>1. (s = Evidence(d, t[1])) /\ d.tasks \in [Tasks -> TaskRow]
    BY <1>2
  <2>2. d = [kind |-> d.kind, evidence |-> d.evidence, tasks |-> d.tasks, items |-> d.items,
             windows |-> d.windows, jobs |-> d.jobs, conflict |-> d.conflict]
    BY DEF Tables
  <2> HIDE DEF s
  <2>3. e = [d EXCEPT !.tasks[s] = IF @.state # "none" THEN @
                           ELSE [@ EXCEPT !.state = "pending", !.delayed = d.tasks[t].delayed],
              !.tasks[t].state = "superseded"]
    BY DEF Gives, s
  <2> QED BY ONLY <1>1, <1>2, <2>2, <2>3
<1> HIDE DEF s, new, old, e
<1>5. /\ T \in [Tasks -> TaskRow] /\ T[t] = old /\ T[s] = new
      /\ \A u \in Tasks \ {s, t} : T[u] = d.tasks[u]
  BY <1>1, <1>2, <1>3
<1> HIDE DEF T
<1>6. \A u \in Tasks : T[u].count = d.tasks[u].count
  BY <1>3, <1>5
<1>7. /\ Tables(e) /\ Calm(d, e)
      /\ e.tasks = T /\ e.items = d.items /\ e.windows = d.windows /\ e.jobs = d.jobs
      /\ Good(d) => Good(e)
      /\ \A u : Open(e, u) = Open(d, u)
  BY <1>4, <1>5, <1>6, TasksChange
<1> QED
  BY <1>3, <1>5, <1>7 DEF s, e

(* What sending one task does to the tasks: the one that is sent expects   *)
(* its item, or gives way.                                                 *)
Moves(d, e, t) ==
    /\ \A u \in Tasks : d.tasks[u].state = "resolved" => e.tasks[u].state = "resolved"
    /\ \A u \in Tasks \ {t} :
         \/ e.tasks[u].state = d.tasks[u].state
         \/ /\ Fresh(d, u) /\ d.tasks[u].state \in {"none", "pending"}
            /\ \/ e.tasks[u].state = "pending"
               \/ e.tasks[u].state = "dispatched" /\ Open(e, u) # {}

(* An item that is queued is open.                                         *)
LEMMA NewOpen ==
    ASSUME NEW d, NEW t, NEW n, <<t, n>> \in Items(d), d.items[<<t, n>>].state = "queued"
    PROVE  <<t, n>> \in Open(d, t)
BY DEF Open, Held, Attempted, ActiveItem

(* Sending a task that is due, in the state it was chosen in or sent in    *)
(* meanwhile.                                                              *)
LEMMA DispatchStep ==
    ASSUME NEW d, Tables(d), NEW j \in Jobs(d), NEW t \in Tasks,
           d.tasks[t].state \in (IF Fresh(d, t) THEN {"pending", "dispatched"} ELSE {"pending"})
    PROVE  LET e == DispatchOne(d, j, t) IN
           /\ Tables(e) /\ Adds(d, e, j, 1) /\ (Tried(d) => Tried(e))
           /\ Moves(d, e, t)
<1> DEFINE e == DispatchOne(d, j, t)
           s == Evidence(d, t[1])
           g == Gives(d, t)
<1>1. CASE d.conflict
  <2>1. e = d
    BY <1>1 DEF DispatchOne
  <2> HIDE DEF e
  <2>2. Adds(d, d, j, 1)
    <3>1. Cardinality(ItemsOf(d, j)) \in Nat
      BY FiniteItems
    <3> QED BY <3>1 DEF Adds
  <2> QED BY <2>1, <2>2 DEF Moves, e
<1>2. CASE ~d.conflict /\ Fresh(d, t)
  <2>1. e = Send(d, j, t)
    BY <1>2 DEF DispatchOne
  <2> HIDE DEF e
  <2>2. /\ Tables(e) /\ Adds(d, e, j, 1) /\ (Tried(d) => Tried(e))
        /\ \A u \in Tasks \ {t} : e.tasks[u] = d.tasks[u]
    <3>1. Tables(d) /\ j \in Jobs(d) /\ t \in Tasks /\ Fresh(d, t)
      BY <1>2
    <3>2. /\ Tables(Send(d, j, t)) /\ Adds(d, Send(d, j, t), j, 1) /\ (Tried(d) => Tried(Send(d, j, t)))
          /\ \A u \in Tasks \ {t} : Send(d, j, t).tasks[u] = d.tasks[u]
      BY ONLY <3>1, SendOne
    <3> QED BY ONLY <2>1, <3>2
  <2>3. Moves(d, e, t)
    BY <1>2, <2>2 DEF Moves, Sendable
  <2> QED BY <2>2, <2>3 DEF e
<1>3. CASE ~d.conflict /\ ~Fresh(d, t)
  <2>1. /\ Tables(g) /\ Calm(d, g)
        /\ g.items = d.items /\ g.windows = d.windows /\ g.jobs = d.jobs
        /\ \A u : Open(g, u) = Open(d, u)
        /\ g.tasks[t].state = "superseded"
        /\ g.tasks[s].state = IF d.tasks[s].state = "none" THEN "pending" ELSE d.tasks[s].state
        /\ \A u \in Tasks \ {s, t} : g.tasks[u] = d.tasks[u]
    BY <1>3, GivesWay
  <2>2. s \in Tasks /\ Fresh(d, s) /\ s # t
    BY <1>3, EvidenceTask
  <2>3. e = IF g.tasks[s].state = "pending" THEN Send(g, j, s) ELSE g
    BY <1>3 DEF DispatchOne, Gives
  <2> HIDE DEF e, g, s
  <2>4. /\ g.kind = d.kind /\ g.evidence = d.evidence /\ g.conflict = d.conflict
        /\ Items(g) = Items(d) /\ Jobs(g) = Jobs(d) /\ ItemsOf(g, j) = ItemsOf(d, j)
        /\ Fresh(g, s) /\ \A u : Fresh(g, u) <=> Fresh(d, u)
    BY <2>1, <2>2 DEF Calm, ItemsOf, Items, Jobs, Fresh, Evidence
  <2>5. Adds(d, g, j, 0) /\ (Tried(d) => Tried(g))
    <3>1. Cardinality(ItemsOf(d, j)) \in Nat
      BY FiniteItems
    <3>2. Tried(d) => Tried(g)
      BY <2>1, <2>4 DEF Tried
    <3>3. Cardinality(ItemsOf(g, j)) <= Cardinality(ItemsOf(d, j)) + 0
      BY ONLY <2>4, <3>1
    <3>4. Items(g) \ Items(d) = {} /\ \A i \in Items(d) : i \in Items(g) /\ g.items[i] = d.items[i]
      BY <2>1, <2>4
    <3> QED BY <2>1, <2>4, <3>2, <3>3, <3>4 DEF Adds
  <2>6. \A u \in Tasks : d.tasks[u].state = "resolved" => g.tasks[u].state = "resolved"
    BY <1>3, <2>1, <2>2
  <2>7. CASE g.tasks[s].state # "pending"
    <3>1. e = g
      BY <2>3, <2>7
    <3>2. Moves(d, g, t)
      BY <2>1, <2>6, <2>7 DEF Moves
    <3>3. Adds(d, g, j, 1)
      <4>1. Adds(g, g, j, 1)
        <5>1. Cardinality(ItemsOf(g, j)) \in Nat
          BY <2>1, FiniteItems
        <5> QED BY <5>1 DEF Adds
      <4>2. Adds(d, g, j, 0 + 1)
        BY <2>1, <2>5, <4>1, AddsAgain
      <4> QED BY <4>2
    <3> QED BY <2>1, <2>5, <3>1, <3>2, <3>3 DEF e
  <2>8. CASE g.tasks[s].state = "pending"
    <3>1. e = Send(g, j, s)
      BY <2>3, <2>8
    <3> DEFINE n == g.tasks[s].count + 1
    <3>2. j \in Jobs(g)
      BY <2>4
    <3>3. /\ Tables(e) /\ Adds(g, e, j, 1) /\ (Tried(g) => Tried(e))
          /\ \A u \in Tasks \ {s} : e.tasks[u] = g.tasks[u]
          /\ \/ e.conflict /\ e.tasks = g.tasks /\ e.items = g.items
             \/ /\ <<s, n>> \in Items(e) /\ e.items[<<s, n>>].state = "queued"
                /\ e.tasks[s].state = "dispatched"
      BY <2>1, <2>2, <2>4, <2>8, <3>1, <3>2, SendOne DEF Sendable
    <3> HIDE DEF n
    <3>4. \/ e.tasks[s].state = "pending"
          \/ e.tasks[s].state = "dispatched" /\ Open(e, s) # {}
      BY <2>8, <3>3, NewOpen
    <3>5. d.tasks[s].state \in {"none", "pending"}
      BY <2>1, <2>8
    <3>6. \A u \in Tasks : d.tasks[u].state = "resolved" => e.tasks[u].state = "resolved"
      BY <1>3, <2>6, <3>3, <3>5
    <3>7. \A u \in Tasks \ {s, t} : e.tasks[u].state = d.tasks[u].state
      BY <2>1, <3>3
    <3>8. Moves(d, e, t)
      BY <2>2, <3>4, <3>5, <3>6, <3>7 DEF Moves
    <3>9. Adds(d, e, j, 0 + 1)
      BY <2>1, <2>5, <3>3, AddsAgain
    <3> QED BY <2>5, <3>3, <3>8, <3>9 DEF e
  <2> QED BY <2>7, <2>8
<1> QED BY <1>1, <1>2, <1>3

-----------------------------------------------------------------------------
(* Dispatch: the list.                                                     *)

(* The databases of a dispatch exist, one for each task of its list.       *)
Walks(d, j, list, n) ==
    \E f : f = [k \in 0..n |-> IF k = 0 THEN d ELSE DispatchOne(f[k - 1], j, list[k])]

(* By the least length for which they do not.                              *)
LEMMA Walked ==
    ASSUME NEW d, NEW j, NEW list, NEW n \in Nat PROVE Walks(d, j, list, n)
<1> DEFINE T == {m \in Nat : ~Walks(d, j, list, m)}
<1>1. SUFFICES ASSUME T # {} PROVE FALSE
  BY <1>1
<1>2. PICK m \in T : \A k \in T : m <= k
  <2> T \in SUBSET Nat
    OBVIOUS
  <2> HIDE DEF T
  <2> QED BY <1>1, Least
<1>3. m # 0
  <2> DEFINE f == [k \in 0..0 |-> d]
  <2>1. \A k \in 0..0 : k = 0
    OBVIOUS
  <2>2. f = [k \in 0..0 |-> IF k = 0 THEN d ELSE DispatchOne(f[k - 1], j, list[k])]
    BY <2>1
  <2>3. Walks(d, j, list, 0)
    BY <2>2 DEF Walks
  <2> QED BY <2>3
<1>4. m - 1 \in Nat /\ ~(m <= m - 1)
  BY <1>3
<1>5. PICK g : g = [k \in 0..(m - 1) |-> IF k = 0 THEN d ELSE DispatchOne(g[k - 1], j, list[k])]
  BY <1>2, <1>4 DEF Walks
<1> DEFINE f == [k \in 0..m |-> IF k = m THEN DispatchOne(g[m - 1], j, list[m]) ELSE g[k]]
<1>6. ASSUME NEW k \in 0..m
      PROVE  f[k] = IF k = 0 THEN d ELSE DispatchOne(f[k - 1], j, list[k])
  <2>1. CASE k = m
    <3>1. f[k] = DispatchOne(g[m - 1], j, list[m]) /\ f[k - 1] = g[m - 1]
      BY <1>3, <2>1
    <3> HIDE DEF f
    <3> QED BY <3>1, <2>1, <1>3
  <2>2. CASE k # m
    <3>1. k \in 0..(m - 1) /\ f[k] = g[k]
      BY <2>2
    <3>2. g[k] = IF k = 0 THEN d ELSE DispatchOne(g[k - 1], j, list[k])
      BY <1>5, <3>1
    <3>3. k # 0 => f[k - 1] = g[k - 1]
      BY <2>2
    <3> HIDE DEF f
    <3> QED BY <3>1, <3>2, <3>3
  <2> QED BY <2>1, <2>2
<1>7. f = [k \in 0..m |-> f[k]]
  OBVIOUS
<1> HIDE DEF f
<1>8. f = [k \in 0..m |-> IF k = 0 THEN d ELSE DispatchOne(f[k - 1], j, list[k])]
  BY <1>6, <1>7
<1>9. Walks(d, j, list, m)
  BY <1>8 DEF Walks
<1> QED
  BY <1>2, <1>9

(* Sent is the end of such a walk.                                         *)
LEMMA SentWalk ==
    ASSUME NEW d, NEW j, NEW list, Len(list) \in Nat
    PROVE  \E f : /\ f[0] = d /\ f[Len(list)] = Sent(d, j, list)
                  /\ \A k \in 1..Len(list) : f[k] = DispatchOne(f[k - 1], j, list[k])
<1> DEFINE n == Len(list)
           sent == CHOOSE f : f = [k \in 0..n |-> IF k = 0 THEN d ELSE DispatchOne(f[k - 1], j, list[k])]
<1>1. sent = [k \in 0..n |-> IF k = 0 THEN d ELSE DispatchOne(sent[k - 1], j, list[k])]
  <2>1. Walks(d, j, list, n)
    BY Walked
  <2> QED BY <2>1 DEF Walks
<1>2. Sent(d, j, list) = sent[n]
  BY DEF Sent
<1> HIDE DEF sent, n
<1>3. n \in Nat
  BY DEF n
<1>4. sent[0] = d /\ \A k \in 1..n : sent[k] = DispatchOne(sent[k - 1], j, list[k])
  BY <1>1, <1>3
<1> QED
  BY <1>2, <1>4 DEF n

(* A list of tasks to send, in which none is twice.                        *)
List(d, list, n) ==
    /\ list \in [1..n -> Tasks]
    /\ \A i, k \in 1..n : list[i] = list[k] => i = k
    /\ \A i \in 1..n : d.tasks[list[i]].state = "pending" /\ Open(d, list[i]) = {}

(* The state of a task whose turn has not come.                            *)
Due(d, e, u) ==
    IF Fresh(d, u) THEN \/ e.tasks[u].state = "pending"
                        \/ e.tasks[u].state = "dispatched" /\ Open(e, u) # {}
    ELSE e.tasks[u].state = "pending" /\ Open(e, u) = {}

(* A dispatch of a list after k of its tasks.                              *)
Course(d, e, j, list, n, k) ==
    /\ Tables(e) /\ Adds(d, e, j, k) /\ (Tried(d) => Tried(e))
    /\ \A u \in Tasks : d.tasks[u].state = "resolved" => e.tasks[u].state = "resolved"
    /\ \A i \in (k + 1)..n : Due(d, e, list[i])

(* What sending does to the open items of a task: none are lost, and only  *)
(* fresh tasks get one.                                                    *)
LEMMA AddsOpen ==
    ASSUME NEW d, NEW e, NEW j, NEW n, Adds(d, e, j, n), NEW u
    PROVE  /\ Open(d, u) \subseteq Open(e, u)
           /\ ~Fresh(d, u) => Open(e, u) = Open(d, u)
           /\ \A v : Fresh(e, v) <=> Fresh(d, v)
           /\ Jobs(e) = Jobs(d)
<1>1. \A i \in Items(d) : i \in Items(e) /\ e.items[i] = d.items[i]
  BY DEF Adds
<1>2. Open(d, u) \subseteq Open(e, u)
  BY <1>1 DEF Open, Held, Attempted
<1>3. \A i \in Items(e) \ Items(d) : Fresh(d, i[1])
  BY DEF Adds
<1>4. ~Fresh(d, u) => Open(e, u) \subseteq Open(d, u)
  BY <1>1, <1>3 DEF Open, Held, Attempted
<1>5. \A v : Fresh(e, v) <=> Fresh(d, v)
  BY DEF Adds, Fresh, Evidence
<1> QED
  BY <1>2, <1>4, <1>5 DEF Adds, Jobs

(* One more task is sent, which was still due.                             *)
LEMMA CourseStep ==
    ASSUME NEW d, Tables(d), NEW j \in Jobs(d), NEW list, NEW n \in Nat, List(d, list, n),
           NEW k \in 0..(n - 1), NEW e, Course(d, e, j, list, n, k)
    PROVE  Course(d, DispatchOne(e, j, list[k + 1]), j, list, n, k + 1)
<1> DEFINE t == list[k + 1]
           f == DispatchOne(e, j, t)
<1>1. Tables(e) /\ Adds(d, e, j, k) /\ k \in Nat /\ k + 1 \in 1..n /\ k + 1 \in (k + 1)..n
  BY DEF Course
<1>2. t \in Tasks /\ Due(d, e, t)
  BY <1>1 DEF List, Course
<1>3. Jobs(e) = Jobs(d) /\ \A v : Fresh(e, v) <=> Fresh(d, v)
  BY <1>1, AddsOpen
<1> HIDE DEF f, t
<1>4. e.tasks[t].state \in (IF Fresh(e, t) THEN {"pending", "dispatched"} ELSE {"pending"})
  BY <1>2, <1>3 DEF Due
<1>5. Tables(f) /\ Adds(e, f, j, 1) /\ (Tried(e) => Tried(f)) /\ Moves(e, f, t)
  <2>1. f = DispatchOne(e, j, t)
    BY DEF f
  <2> QED BY <1>1, <1>2, <1>3, <1>4, <2>1, DispatchStep
<1>6. Adds(d, f, j, k + 1)
  BY <1>1, <1>5, AddsAgain
<1>7. ASSUME NEW i \in (k + 2)..n PROVE Due(d, f, list[i])
  <2>1. i \in (k + 1)..n /\ i \in 1..n /\ i # k + 1
    OBVIOUS
  <2>2. list[i] \in Tasks \ {t} /\ Due(d, e, list[i])
    BY <1>1, <2>1 DEF List, Course, t
  <2> DEFINE u == list[i]
  <2>3. /\ Open(e, u) \subseteq Open(f, u)
        /\ ~Fresh(e, u) => Open(f, u) = Open(e, u)
    BY <1>5, AddsOpen
  <2> HIDE DEF u
  <2>4. u \in Tasks \ {t} /\ Due(d, e, u)
    BY <2>2 DEF u
  <2>5. \/ f.tasks[u].state = e.tasks[u].state
        \/ /\ Fresh(e, u) /\ e.tasks[u].state \in {"none", "pending"}
           /\ \/ f.tasks[u].state = "pending"
              \/ f.tasks[u].state = "dispatched" /\ Open(f, u) # {}
    BY <1>5, <2>4 DEF Moves
  <2>6. Due(d, f, u)
    BY <1>3, <2>3, <2>4, <2>5 DEF Due
  <2> QED BY <2>6 DEF u
<1>8. \A u \in Tasks : d.tasks[u].state = "resolved" => f.tasks[u].state = "resolved"
  BY <1>5 DEF Course, Moves
<1>9. Tried(d) => Tried(f)
  BY <1>5 DEF Course
<1>10. \A i \in ((k + 1) + 1)..n : Due(d, f, list[i])
  <2>1. (k + 1) + 1 = k + 2
    OBVIOUS
  <2> QED BY <1>7, <2>1
<1>11. Course(d, f, j, list, n, k + 1)
  BY <1>5, <1>6, <1>8, <1>9, <1>10 DEF Course
<1> QED
  BY <1>11 DEF f, t

(* Before the first task.                                                  *)
LEMMA CourseStart ==
    ASSUME NEW d, Tables(d), NEW j \in Jobs(d), NEW list, NEW n \in Nat, List(d, list, n)
    PROVE  Course(d, d, j, list, n, 0)
<1>1. \A i \in (0 + 1)..n : d.tasks[list[i]].state = "pending" /\ Open(d, list[i]) = {}
  BY DEF List
<1>2. \A i \in (0 + 1)..n : Due(d, d, list[i])
  BY <1>1 DEF Due
<1>3. Adds(d, d, j, 0)
  <2>1. Cardinality(ItemsOf(d, j)) \in Nat
    BY FiniteItems
  <2> QED BY <2>1 DEF Adds
<1> QED
  BY <1>2, <1>3 DEF Course

(* All tasks, by the walk that ends in Sent: the least place where         *)
(* the course is lost has one before it.                                     *)
LEMMA SentCourse ==
    ASSUME NEW d, Tables(d), NEW j \in Jobs(d), NEW list, NEW n \in Nat, List(d, list, n)
    PROVE  Course(d, Sent(d, j, list), j, list, n, n)
<1>1. list \in Seq(Tasks) /\ Len(list) = n
  BY DEF List
<1>2. PICK f : /\ f[0] = d /\ f[n] = Sent(d, j, list)
               /\ \A k \in 1..n : f[k] = DispatchOne(f[k - 1], j, list[k])
  BY <1>1, SentWalk
<1> DEFINE T == {k \in 0..n : ~Course(d, f[k], j, list, n, k)}
<1>3. SUFFICES ASSUME T # {} PROVE FALSE
  <2>1. n \in 0..n
    OBVIOUS
  <2> QED BY <1>2, <2>1
<1>4. PICK m \in T : \A k \in T : m <= k
  <2> T \in SUBSET Nat
    OBVIOUS
  <2> HIDE DEF T
  <2> QED BY <1>3, Least
<1>5. m \in 0..n /\ ~Course(d, f[m], j, list, n, m)
  BY <1>4
<1>6. m # 0
  BY <1>2, <1>5, CourseStart
<1>7. m - 1 \in 0..(n - 1) /\ ~(m <= m - 1) /\ m - 1 \in 0..n /\ m \in 1..n /\ (m - 1) + 1 = m
  BY <1>5, <1>6
<1>8. Course(d, f[m - 1], j, list, n, m - 1)
  BY <1>4, <1>7
<1>9. Course(d, DispatchOne(f[m - 1], j, list[(m - 1) + 1]), j, list, n, (m - 1) + 1)
  BY <1>7, <1>8, CourseStep
<1>10. f[m] = DispatchOne(f[m - 1], j, list[m])
  BY <1>2, <1>7
<1> QED
  BY <1>5, <1>7, <1>9, <1>10

(* What a dispatch does.                                                   *)
LEMMA DispatchedAdds ==
    ASSUME NEW d, Good(d), NEW j \in Jobs(d), NEW e \in Dispatched(d, j),
           Cardinality(ItemsOf(d, j)) <= d.windows[j].room
    PROVE  /\ Good(e) /\ Jobs(e) = Jobs(d)
           /\ \A i \in Items(d) : i \in Items(e) /\ e.items[i] = d.items[i]
           /\ \A i \in Items(e) \ Items(d) : e.items[i].state = "queued"
           /\ e.windows = d.windows /\ e.kind = d.kind /\ e.evidence = d.evidence
           /\ \A u \in Tasks : d.tasks[u].state = "resolved" => e.tasks[u].state = "resolved"
<1> DEFINE due == Eligible(d, j)
           room == d.windows[j].room - Cardinality(ItemsOf(d, j))
           n == IF room < Cardinality(due) THEN room ELSE Cardinality(due)
           before(t, list, k) == \E i \in 1..(k - 1) : list[i] = t
<1>1. PICK list \in [1..n -> due] :
        /\ e = Sent(d, j, list)
        /\ \A k \in 1..n : ~before(list[k], list, k)
  BY DEF Dispatched
<1>2. Tables(d) /\ d.windows[j].room \in Nat /\ Cardinality(ItemsOf(d, j)) \in Nat
  <2>1. Tables(d)
    BY DEF Good
  <2>2. d.windows[j] \in WindowRow
    BY <2>1 DEF Tables
  <2> QED BY <2>1, <2>2, FiniteItems, WindowsAssumption DEF WindowRow
<1>3. due \subseteq Tasks /\ IsFiniteSet(due) /\ Cardinality(due) \in Nat
  <2>1. due \subseteq Tasks
    BY DEF Eligible
  <2>2. IsFiniteSet(Tasks)
    <3>1. IsFiniteSet(1..Versions) /\ IsFiniteSet(Questions)
      BY WindowsAssumption, FS_Interval
    <3> QED BY <3>1, FS_Product DEF Tasks
  <2> HIDE DEF due
  <2> QED BY <2>1, <2>2, FS_Subset, FS_CardinalityType
<1>4. room \in Nat
  BY <1>2
<1>5. n \in Nat /\ n <= room
  <2> HIDE DEF room, due
  <2> QED BY <1>3, <1>4
<1>6. \A t \in due : d.tasks[t].state = "pending" /\ Open(d, t) = {}
  BY DEF Eligible
<1>7. List(d, list, n)
  <2> HIDE DEF n, due
  <2>1. list \in [1..n -> Tasks]
    BY <1>1, <1>3
  <2>2. ASSUME NEW i \in 1..n, NEW k \in 1..n, list[i] = list[k] PROVE i = k
    <3>1. ~(i \in 1..(k - 1)) /\ ~(k \in 1..(i - 1))
      BY <1>1, <2>2
    <3> QED BY <1>5, <3>1
  <2>3. \A i \in 1..n : d.tasks[list[i]].state = "pending" /\ Open(d, list[i]) = {}
    BY <1>1, <1>6
  <2> QED BY <2>1, <2>2, <2>3 DEF List
<1> HIDE DEF n
<1>8. Course(d, e, j, list, n, n)
  BY <1>1, <1>2, <1>5, <1>7, SentCourse
<1>9. Tables(e) /\ Adds(d, e, j, n) /\ (Tried(d) => Tried(e))
  BY <1>8 DEF Course
<1>10. Jobs(e) = Jobs(d)
  BY <1>9 DEF Adds, Jobs
<1>11. Shut(e)
  BY <1>9, <1>10 DEF Good, Shut, Adds
<1>12. Fits(e)
  <2> SUFFICES ASSUME NEW k \in Jobs(d) PROVE Cardinality(ItemsOf(e, k)) <= e.windows[k].room
    BY <1>10 DEF Fits
  <2>1. CASE k = j
    <3>1. Cardinality(ItemsOf(e, j)) <= Cardinality(ItemsOf(d, j)) + n /\ e.windows = d.windows
      BY <1>9 DEF Adds
    <3>2. Cardinality(ItemsOf(e, j)) \in Nat
      BY <1>9, FiniteItems
    <3> QED BY <1>2, <1>5, <2>1, <3>1, <3>2
  <2>2. CASE k # j
    <3>1. ItemsOf(e, k) = ItemsOf(d, k)
      BY <1>9, <2>2 DEF Adds, ItemsOf
    <3> QED BY <1>9, <3>1 DEF Good, Fits, Adds
  <2> QED BY <2>1, <2>2
<1>14. /\ \A i \in Items(d) : i \in Items(e) /\ e.items[i] = d.items[i]
       /\ \A i \in Items(e) \ Items(d) : e.items[i].state = "queued"
       /\ e.windows = d.windows /\ e.kind = d.kind /\ e.evidence = d.evidence
  BY <1>9 DEF Adds
<1>15. Good(e)
  BY <1>9, <1>11, <1>12 DEF Good
<1> QED
  BY <1>8, <1>10, <1>14, <1>15 DEF Course

-----------------------------------------------------------------------------
(* Checkpoints.                                                            *)

(* A step in which no work begins, and no settled task is reopened.        *)
Quiet(d, e) ==
    /\ Items(d) \subseteq Items(e)
    /\ \A i \in Items(e) : e.items[i].state = "running"
                             => /\ i \in Items(d) /\ e.items[i].owner = d.items[i].owner
    /\ ~d.conflict => ~e.conflict

(* A settled task without an open item stays settled.                      *)
Stays(d, e) ==
    \A t \in Tasks : d.tasks[t].state = "resolved" /\ Open(d, t) = {}
                       => e.tasks[t].state = "resolved"

(* No work begins in a calm transaction.                                   *)
LEMMA CalmQuiet ==
    ASSUME NEW d, NEW e, Calm(d, e) PROVE Quiet(d, e)
BY DEF Calm, Quiet

(* What a transaction does that is not of a worker or the operator.        *)
Step(d, e) ==
    Good(e) /\ Quiet(d, e) /\ Settles(d, e) /\ Jobs(e) = Jobs(d) /\ e.evidence = d.evidence

(* A calm transaction is such a step.                                      *)
LEMMA CalmStep ==
    ASSUME NEW d, NEW e, Good(d), Good(e), Calm(d, e), Settles(d, e)
    PROVE  Step(d, e)
BY CalmQuiet DEF Step, Calm

(* The census and the dispatch of a checkpoint, after what it wrote        *)
(* before.                                                                 *)
LEMMA RefilledStep ==
    ASSUME NEW d, NEW c, Good(c), Good(d), Calm(c, d), Settles(c, d),
           NEW j \in Jobs(d), NEW e \in Refilled(d, j)
    PROVE  Step(c, e)
<1>0. PICK found \in Discovered(d, j) :
         \E f \in Dispatched(found, j) :
            /\ ~f.conflict
            /\ \/ e = f
               \/ e = Close(f, j, "complete") /\ QueuedOf(f, j) = {}
  BY DEF Refilled
<1>1. PICK f \in Dispatched(found, j) :
         /\ ~f.conflict
         /\ \/ e = f
            \/ e = Close(f, j, "complete") /\ QueuedOf(f, j) = {}
  BY <1>0
<1>2. Tables(c) /\ Tables(d)
  BY DEF Good
<1>3. Good(found) /\ Calm(d, found) /\ Settles(d, found)
  BY <1>2, DiscoveredCalm
<1>4. Calm(c, found) /\ Settles(c, found)
  BY <1>3, CalmAgain, SettlesAgain
<1>5. j \in Jobs(found) /\ Tables(found) /\ Cardinality(ItemsOf(found, j)) <= found.windows[j].room
  BY <1>3 DEF Calm, Good, Fits
<1>6. /\ Good(f) /\ Jobs(f) = Jobs(found)
      /\ \A i \in Items(found) : i \in Items(f) /\ f.items[i] = found.items[i]
      /\ \A i \in Items(f) \ Items(found) : f.items[i].state = "queued"
      /\ f.evidence = found.evidence
      /\ \A u \in Tasks : found.tasks[u].state = "resolved" => f.tasks[u].state = "resolved"
  BY <1>3, <1>5, DispatchedAdds
<1>7. Quiet(c, f)
  <2>1. \A i \in Items(f) : f.items[i].state = "running" => i \in Items(found) /\ f.items[i] = found.items[i]
    BY <1>6
  <2>2. Items(c) \subseteq Items(f)
    BY <1>4, <1>6 DEF Calm
  <2> QED BY <1>1, <1>4, <2>1, <2>2 DEF Calm, Quiet
<1>8. Settles(c, f)
  BY <1>4, <1>6 DEF Settles
<1>11. Jobs(f) = Jobs(c) /\ f.evidence = c.evidence
  BY <1>4, <1>6 DEF Calm
<1>12. Step(c, f)
  BY <1>6, <1>7, <1>8, <1>11 DEF Step
<1>13. CASE e = Close(f, j, "complete") /\ QueuedOf(f, j) = {}
  <2>1. Good(e) /\ Calm(f, e) /\ Settles(f, e)
    <3>1. "complete" \in WindowStates \ {"active"} /\ j \in Jobs(f)
      BY <1>5, <1>6 DEF WindowStates
    <3> QED BY <1>6, <1>13, <3>1, CloseCalm
  <2>6. Quiet(c, e)
    <3>1. Items(e) = Items(f) /\ \A i \in Items(f) : e.items[i].state = "running"
                => f.items[i].state = "running" /\ e.items[i].owner = f.items[i].owner
      BY <2>1 DEF Calm
    <3>2. ~e.conflict
      BY <1>1, <2>1 DEF Calm
    <3> QED BY <1>7, <3>1, <3>2 DEF Quiet
  <2>7. Settles(c, e)
    BY <1>8, <2>1 DEF Settles
  <2>8. Jobs(e) = Jobs(c) /\ e.evidence = c.evidence
    BY <1>11, <2>1 DEF Calm
  <2> QED BY <2>1, <2>6, <2>7, <2>8 DEF Step
<1> QED
  BY <1>1, <1>12, <1>13

(* A whole checkpoint (tickbacklogwindow).                                 *)
LEMMA TickedStep ==
    ASSUME NEW d, Good(d), NEW j \in Jobs(d), NEW e \in Ticked(d, j)
    PROVE  Step(d, e)
<1> DEFINE closed == Jobs(d) \ Active(d)
           parked == UNION {QueuedOf(d, k) : k \in closed}
           swept  == WithItems(d, parked, "cancelled")
           done   == Reconcile(swept, j, Jobs(d))
<1>1. Tables(d)
  BY DEF Good
<1>2. /\ Tables(swept)
      /\ swept.tasks = d.tasks
      /\ swept.windows = d.windows /\ swept.jobs = d.jobs
      /\ Jobs(swept) = Jobs(d)
      /\ (Tried(d) => Tried(swept)) /\ Calm(d, swept)
  <2>1. parked \in SUBSET Items(d)
    BY DEF QueuedOf, ItemsOf
  <2>2. "cancelled" \in ItemStates \ OwnedItem /\ "cancelled" # "queued"
    BY DEF ItemStates, OwnedItem
  <2> HIDE DEF parked, swept
  <2> QED BY <1>1, <2>1, <2>2, PutItems DEF swept
<1> HIDE DEF swept
<1>3. Settles(d, swept)
  BY <1>2 DEF Settles
<1>4. Good(swept)
  <2>1. Shut(swept)
    BY <1>2 DEF Good, Shut
  <2> QED BY <1>2, <2>1, CalmFits DEF Good
<1>5. Good(done) /\ Calm(d, done) /\ Settles(d, done)
  <2>1. Good(done) /\ Calm(swept, done) /\ Settles(swept, done)
    BY <1>2, <1>4, ReconcileCalm
  <2> QED BY <1>2, <1>3, <2>1, CalmAgain, SettlesAgain
<1> HIDE DEF done
<1>6. j \in Jobs(done)
  BY <1>5 DEF Calm
<1>7. ASSUME NEW c, Good(c), Calm(d, c), Settles(d, c), NEW reason \in WindowStates \ {"active"}
      PROVE  Step(d, Close(c, j, reason))
  <2>1. j \in Jobs(c)
    BY <1>7 DEF Calm
  <2>2. Good(Close(c, j, reason)) /\ Calm(c, Close(c, j, reason)) /\ Settles(c, Close(c, j, reason))
    BY <1>7, <2>1, CloseCalm
  <2>3. Calm(d, Close(c, j, reason)) /\ Settles(d, Close(c, j, reason))
    BY <1>7, <2>2, CalmAgain, SettlesAgain
  <2> QED BY <2>2, <2>3, CalmStep
<1>8. Calm(d, d) /\ Settles(d, d)
  BY DEF Calm, Settles
<1>9. {"paused", "cancelled", "deadline", "budget-exhausted"} \subseteq WindowStates \ {"active"}
  BY DEF WindowStates
<1>10. Good(Reconcile(d, j, {j})) /\ Calm(d, Reconcile(d, j, {j})) /\ Settles(d, Reconcile(d, j, {j}))
  BY <1>1, ReconcileCalm
<1>11. \/ e = Reconcile(d, j, {j})
       \/ e = Close(d, j, "paused") \/ e = Close(d, j, "cancelled")
       \/ e = Close(done, j, "deadline") \/ e = Close(done, j, "budget-exhausted")
       \/ e = d \/ e = done
       \/ e \in Refilled(done, j)
  BY DEF Ticked, done, swept
<1>12. Step(d, Close(d, j, "paused")) /\ Step(d, Close(d, j, "cancelled"))
  BY <1>7, <1>8, <1>9
<1>13. Step(d, Close(done, j, "deadline")) /\ Step(d, Close(done, j, "budget-exhausted"))
  BY <1>5, <1>7, <1>9
<1>14. Step(d, d) /\ Step(d, done) /\ Step(d, Reconcile(d, j, {j}))
  BY <1>5, <1>8, <1>10, CalmStep
<1>15. e \in Refilled(done, j) => Step(d, e)
  BY <1>5, <1>6, RefilledStep
<1> QED
  BY <1>11, <1>12, <1>13, <1>14, <1>15

-----------------------------------------------------------------------------
(* Transactions of workers.                                                *)

(* A transaction that writes columns of rows that exist.                   *)
LEMMA TablesWrite ==
    ASSUME NEW d, Tables(d), NEW e,
           NEW T \in [Tasks -> TaskRow], NEW I \in [Items(d) -> ItemRow(Jobs(d))],
           NEW W \in [Jobs(d) -> WindowRow], NEW J \in [Jobs(d) -> JobStates],
           e = [kind |-> d.kind, evidence |-> d.evidence, tasks |-> T, items |-> I,
                windows |-> W, jobs |-> J, conflict |-> d.conflict]
    PROVE  /\ Tables(e) /\ Items(e) = Items(d) /\ Jobs(e) = Jobs(d)
           /\ e.tasks = T /\ e.items = I /\ e.windows = W /\ e.jobs = J
           /\ e.kind = d.kind /\ e.evidence = d.evidence /\ e.conflict = d.conflict
<1>1. /\ e.tasks = T /\ e.items = I /\ e.windows = W /\ e.jobs = J
      /\ e.kind = d.kind /\ e.evidence = d.evidence /\ e.conflict = d.conflict
  OBVIOUS
<1>2. Items(e) = Items(d) /\ Jobs(e) = Jobs(d)
  BY <1>1 DEF Items, Jobs
<1>3. Tables(e)
  BY <1>1, <1>2 DEF Tables
<1> QED
  BY <1>1, <1>2, <1>3

(* What a database with good tables is made of.                            *)
LEMMA TablesShape ==
    ASSUME NEW d, Tables(d)
    PROVE  /\ d = [kind |-> d.kind, evidence |-> d.evidence, tasks |-> d.tasks, items |-> d.items,
                   windows |-> d.windows, jobs |-> d.jobs, conflict |-> d.conflict]
           /\ d.tasks \in [Tasks -> TaskRow] /\ d.items \in [Items(d) -> ItemRow(Jobs(d))]
           /\ d.windows \in [Jobs(d) -> WindowRow] /\ d.jobs \in [Jobs(d) -> JobStates]
BY DEF Tables

(* Work that begins, begins in an active window.                           *)
Begins(d, e) ==
    \A i \in Items(e) :
        LET begun == i \notin Items(d) \/ d.items[i].owner # e.items[i].owner
        IN  e.items[i].state = "running" /\ begun => e.windows[e.items[i].job].state = "active"

(* What every transaction does.                                            *)
Reach(d, e) ==
    Good(e) /\ ~e.conflict /\ Items(d) \subseteq Items(e) /\ Begins(d, e) /\ Stays(d, e)

(* Nothing begins in a quiet step.                                         *)
LEMMA QuietBegins ==
    ASSUME NEW d, NEW e, Quiet(d, e) PROVE Begins(d, e)
BY DEF Quiet, Begins

(* A step without a worker or an operator is a transaction.                *)
LEMMA StepReach ==
    ASSUME NEW d, NEW e, Step(d, e), ~d.conflict PROVE Reach(d, e)
<1>1. Begins(d, e)
  BY QuietBegins DEF Step
<1>2. ~e.conflict /\ Items(d) \subseteq Items(e)
  BY DEF Step, Quiet
<1> QED
  BY <1>1, <1>2 DEF Step, Settles, Stays, Reach

(* So is a calm one.                                                       *)
LEMMA CalmReach ==
    ASSUME NEW d, NEW e, Good(d), ~d.conflict, Good(e), Calm(d, e), Settles(d, e)
    PROVE  Reach(d, e)
BY CalmStep, StepReach

(* So is one that changes nothing.                                         *)
LEMMA SameReach ==
    ASSUME NEW d, Good(d), ~d.conflict
    PROVE  Reach(d, d)
BY CalmReach DEF Calm, Settles

(* The tasks do not change where items are put back.                       *)
LEMMA PutCalm ==
    ASSUME NEW d, Good(d), NEW S \in SUBSET Items(d), NEW state \in ItemStates \ OwnedItem,
           state = "queued" => \A i \in S : d.items[i].state \in ActiveItem
    PROVE  LET e == WithItems(d, S, state) IN
           /\ Good(e) /\ Calm(d, e) /\ Settles(d, e)
           /\ e.tasks = d.tasks /\ e.windows = d.windows /\ e.jobs = d.jobs
           /\ \A i \in Items(d) \ S : e.items[i] = d.items[i]
           /\ \A i \in S : /\ e.items[i].state = state
                           /\ e.items[i].job = d.items[i].job /\ e.items[i].reply = d.items[i].reply
<1> DEFINE e == WithItems(d, S, state)
<1>1. Tables(d)
  BY DEF Good
<1>2. /\ Tables(e)
      /\ e.tasks = d.tasks /\ e.windows = d.windows /\ e.jobs = d.jobs
      /\ Jobs(e) = Jobs(d) /\ (Tried(d) => Tried(e)) /\ Calm(d, e)
      /\ \A i \in Items(d) \ S : e.items[i] = d.items[i]
      /\ \A i \in S : /\ e.items[i].state = state
                      /\ e.items[i].job = d.items[i].job /\ e.items[i].reply = d.items[i].reply
  BY <1>1, PutItems
<1> HIDE DEF e
<1>3. Shut(e)
  BY <1>2 DEF Good, Shut
<1>4. Settles(d, e)
  BY <1>2 DEF Settles
<1>5. Good(e)
  BY <1>2, <1>3, CalmFits DEF Good
<1> QED
  BY <1>2, <1>4, <1>5 DEF e

(* Recovery of lapsed leases (claimnext) is calm: whatever it puts back    *)
(* was open.                                                               *)
LEMMA RecoveredCalm ==
    ASSUME NEW d, Good(d)
    PROVE  /\ Good(Recovered(d)) /\ Calm(d, Recovered(d)) /\ Settles(d, Recovered(d))
           /\ Recovered(d).windows = d.windows
<1> DEFINE lapsed  == {i \in Items(d) : d.items[i].state \in OwnedItem /\ ~d.items[i].live}
           asked   == {i \in lapsed : d.items[i].state = "cancel_requested"}
           dead    == {i \in lapsed \ asked : \/ d.items[i].reply = "awaited"
                                              \/ /\ d.items[i].tries >= ItemAttempts
                                                 /\ d.items[i].reply # "stored"}
           first   == WithItems(d, lapsed, "queued")
           second  == WithItems(first, asked, "cancelled")
           freed   == WithItems(second, dead, "dead_letter")
           idle(j) == /\ d.jobs[j] \in {"running", "queued", "paused", "cancel_requested"}
                      /\ Held(freed, ItemsOf(freed, j)) = {}
           J == [j \in Jobs(d) |-> IF idle(j) THEN Refreshed(freed, j) ELSE d.jobs[j]]
           e == [freed EXCEPT !.jobs = J]
<1>1. CASE lapsed = {}
  <2>1. Recovered(d) = d
    BY <1>1 DEF Recovered
  <2> QED BY <2>1 DEF Calm, Settles
<1>2. CASE lapsed # {}
  <2>1. Recovered(d) = e
    BY <1>2 DEF Recovered
  <2>2. {"queued", "cancelled", "dead_letter"} \subseteq ItemStates \ OwnedItem
    BY DEF ItemStates, OwnedItem
  <2>3. /\ lapsed \in SUBSET Items(d) /\ asked \in SUBSET Items(d) /\ dead \in SUBSET Items(d)
        /\ \A i \in lapsed : d.items[i].state \in ActiveItem
    BY DEF ActiveItem, OwnedItem
  <2> HIDE DEF lapsed, asked, dead
  <2>4. Good(first) /\ Calm(d, first) /\ Settles(d, first) /\ first.windows = d.windows /\ first.jobs = d.jobs
    BY <2>2, <2>3, PutCalm
  <2> HIDE DEF first
  <2>5. Good(second) /\ Calm(first, second) /\ Settles(first, second)
        /\ second.windows = first.windows /\ second.jobs = first.jobs
    <3>1. asked \in SUBSET Items(first)
      BY <2>3, <2>4 DEF Calm
    <3>2. "cancelled" \in ItemStates \ OwnedItem /\ "cancelled" # "queued"
      BY <2>2
    <3>3. second = WithItems(first, asked, "cancelled")
      BY DEF second
    <3>4. Good(first)
      BY <2>4
    <3> QED BY ONLY <3>1, <3>2, <3>3, <3>4, PutCalm
  <2> HIDE DEF second
  <2>6. Good(freed) /\ Calm(second, freed) /\ Settles(second, freed)
        /\ freed.windows = second.windows /\ freed.jobs = second.jobs
    <3>1. dead \in SUBSET Items(second)
      BY <2>3, <2>4, <2>5 DEF Calm
    <3>2. "dead_letter" \in ItemStates \ OwnedItem /\ "dead_letter" # "queued"
      BY <2>2
    <3>3. freed = WithItems(second, dead, "dead_letter")
      BY DEF freed
    <3>4. Good(second)
      BY <2>5
    <3> QED BY ONLY <3>1, <3>2, <3>3, <3>4, PutCalm
  <2> HIDE DEF freed
  <2>7. Calm(d, freed) /\ Settles(d, freed) /\ freed.windows = d.windows /\ freed.jobs = d.jobs
    <3>1. Calm(d, second) /\ Settles(d, second)
      BY <2>4, <2>5, CalmAgain, SettlesAgain
    <3> QED BY <2>4, <2>5, <2>6, <3>1, CalmAgain, SettlesAgain
  <2>8. Tables(d) /\ Tables(freed) /\ Jobs(freed) = Jobs(d)
    BY <2>6, <2>7 DEF Good, Calm
  <2>9. \A j \in Jobs(d) : /\ Refreshed(freed, j) \in JobStates
                           /\ d.windows[j].state # "active" => Refreshed(freed, j) \notin {"queued", "running"}
    BY <2>7, <2>8, RefreshedState
  <2>10. J \in [Jobs(d) -> JobStates]
    BY <2>8, <2>9, TablesShape
  <2>11. \A j \in Jobs(d) : d.windows[j].state # "active" => J[j] \notin {"queued", "running"}
    BY <2>9 DEF Good, Shut
  <2> HIDE DEF J, e
  <2>12. e = [kind |-> freed.kind, evidence |-> freed.evidence, tasks |-> freed.tasks,
              items |-> freed.items, windows |-> freed.windows, jobs |-> J, conflict |-> freed.conflict]
    <3>1. e = [freed EXCEPT !.jobs = J]
      BY DEF e
    <3>2. freed = [kind |-> freed.kind, evidence |-> freed.evidence, tasks |-> freed.tasks,
                   items |-> freed.items, windows |-> freed.windows, jobs |-> freed.jobs,
                   conflict |-> freed.conflict]
      BY <2>8, TablesShape
    <3> QED BY ONLY <3>1, <3>2
  <2>13. /\ Tables(e) /\ Items(e) = Items(freed) /\ Jobs(e) = Jobs(freed)
         /\ e.tasks = freed.tasks /\ e.items = freed.items /\ e.windows = freed.windows /\ e.jobs = J
         /\ e.kind = freed.kind /\ e.evidence = freed.evidence /\ e.conflict = freed.conflict
    <3>1. /\ freed.tasks \in [Tasks -> TaskRow] /\ freed.items \in [Items(freed) -> ItemRow(Jobs(freed))]
          /\ freed.windows \in [Jobs(freed) -> WindowRow] /\ J \in [Jobs(freed) -> JobStates]
      BY <2>8, <2>10, TablesShape
    <3> QED BY <2>8, <2>12, <3>1, TablesWrite
  <2>14. Calm(freed, e) /\ Settles(freed, e)
    BY <2>13 DEF Calm, Settles
  <2>15. Calm(d, e) /\ Settles(d, e)
    BY <2>7, <2>14, CalmAgain, SettlesAgain
  <2>16. Shut(e) /\ Tried(e) /\ Fits(e)
    <3>1. Shut(e)
      BY <2>7, <2>8, <2>11, <2>13 DEF Shut
    <3>2. Tried(e)
      BY <2>6, <2>13 DEF Good, Tried
    <3>3. Fits(e)
      BY <2>15, CalmFits DEF Good
    <3> QED BY <3>1, <3>2, <3>3
  <2> QED BY <2>1, <2>7, <2>13, <2>15, <2>16 DEF Good
<1> QED BY <1>1, <1>2

(* A claim after recovery. The job it claims from is queued or running, so *)
(* its window is active.                                                   *)
LEMMA ClaimReach ==
    ASSUME NEW c, Good(c), ~c.conflict, NEW w \in Workers, NEW i,
           LET d == Recovered(c) IN
           /\ i \in Items(d) /\ d.items[i].state = "queued"
           /\ d.jobs[d.items[i].job] \in {"queued", "running"}
    PROVE  LET d == Recovered(c) IN
           Reach(c, [d EXCEPT !.items[i].state = "running", !.items[i].owner = w,
                                   !.items[i].live = TRUE,
                                   !.items[i].tries = IF @ < ItemAttempts THEN @ + 1 ELSE @,
                                   !.jobs[d.items[i].job] = "running"])
<1> DEFINE d == Recovered(c)
           k == d.items[i].job
           row == [d.items[i] EXCEPT !.state = "running", !.owner = w, !.live = TRUE,
                                     !.tries = IF @ < ItemAttempts THEN @ + 1 ELSE @]
           I == [d.items EXCEPT ![i] = row]
           J == [d.jobs EXCEPT ![k] = "running"]
           e == [d EXCEPT !.items[i].state = "running", !.items[i].owner = w,
                                   !.items[i].live = TRUE,
                                   !.items[i].tries = IF @ < ItemAttempts THEN @ + 1 ELSE @,
                                   !.jobs[d.items[i].job] = "running"]
<1>1. Good(d) /\ Calm(c, d) /\ Settles(c, d) /\ d.windows = c.windows
  BY RecoveredCalm
<1>2. i \in Items(d) /\ d.items[i].state = "queued" /\ d.jobs[k] \in {"queued", "running"}
  OBVIOUS
<1> HIDE DEF d
<1>3. Tables(d)
  BY <1>1 DEF Good
<1>4. d.items[i] \in ItemRow(Jobs(d)) /\ k \in Jobs(d)
  <2>1. d.items[i] \in ItemRow(Jobs(d))
    BY <1>2, <1>3, TablesShape
  <2> QED BY <2>1 DEF ItemRow
<1>5. /\ row \in ItemRow(Jobs(d)) /\ row.state = "running" /\ row.tries >= 1 /\ row.job = k
  <2> DEFINE p == d.items[i]
             n == IF p.tries < ItemAttempts THEN p.tries + 1 ELSE p.tries
  <2>1. /\ p = [state |-> p.state, job |-> p.job, owner |-> p.owner, live |-> p.live,
                tries |-> p.tries, reply |-> p.reply]
        /\ p.job \in Jobs(d) /\ p.tries \in 0..ItemAttempts
        /\ p.reply \in {"none", "awaited", "stored"}
    BY <1>4 DEF ItemRow
  <2>2. n \in 0..ItemAttempts /\ n >= 1
    <3> HIDE DEF p
    <3> QED BY <2>1, WindowsAssumption
  <2>3. row = [p EXCEPT !.state = "running", !.owner = w, !.live = TRUE,
                        !.tries = IF @ < ItemAttempts THEN @ + 1 ELSE @]
    OBVIOUS
  <2>4. k = p.job
    OBVIOUS
  <2> HIDE DEF p, row, k
  <2>5. row = [state |-> "running", job |-> p.job, owner |-> w, live |-> TRUE,
               tries |-> n, reply |-> p.reply]
    BY ONLY <2>1, <2>3
  <2> HIDE DEF n
  <2> QED BY <2>1, <2>2, <2>4, <2>5 DEF ItemRow, ItemStates
<1>6. I \in [Items(d) -> ItemRow(Jobs(d))] /\ I[i] = row /\ \A o \in Items(d) \ {i} : I[o] = d.items[o]
  <2> HIDE DEF row
  <2> QED BY <1>2, <1>3, <1>5, TablesShape
<1>7. /\ J \in [Jobs(d) -> JobStates] /\ J[k] = "running" /\ \A o \in Jobs(d) \ {k} : J[o] = d.jobs[o]
  <2> HIDE DEF k
  <2> QED BY <1>3, <1>4, TablesShape DEF JobStates
<1>8. e.items = I /\ e.jobs = J
  <2>1. d = [kind |-> d.kind, evidence |-> d.evidence, tasks |-> d.tasks, items |-> d.items,
             windows |-> d.windows, jobs |-> d.jobs, conflict |-> d.conflict]
    BY <1>3, TablesShape
  <2>2. /\ e.items = [d.items EXCEPT ![i].state = "running", ![i].owner = w, ![i].live = TRUE,
                                     ![i].tries = IF @ < ItemAttempts THEN @ + 1 ELSE @]
        /\ e.jobs = J
    BY ONLY <2>1
  <2>3. [d.items EXCEPT ![i].state = "running", ![i].owner = w, ![i].live = TRUE,
                        ![i].tries = IF @ < ItemAttempts THEN @ + 1 ELSE @] = I
    <3>1. d.items = [o \in Items(d) |-> d.items[o]]
      BY <1>3, TablesShape
    <3> QED BY ONLY <3>1, <1>2
  <2> QED BY <2>2, <2>3
<1> HIDE DEF e, I, J, row, k
<1>9. e.tasks = d.tasks /\ e.windows = d.windows
      /\ e = [kind |-> d.kind, evidence |-> d.evidence, tasks |-> d.tasks, items |-> I,
              windows |-> d.windows, jobs |-> J, conflict |-> d.conflict]
  <2>1. d = [kind |-> d.kind, evidence |-> d.evidence, tasks |-> d.tasks, items |-> d.items,
             windows |-> d.windows, jobs |-> d.jobs, conflict |-> d.conflict]
    BY <1>3, TablesShape
  <2>2. e = [d EXCEPT !.items[i].state = "running", !.items[i].owner = w,
                                   !.items[i].live = TRUE,
                                   !.items[i].tries = IF @ < ItemAttempts THEN @ + 1 ELSE @,
                                   !.jobs[d.items[i].job] = "running"]
    BY DEF e
  <2>3. e = [kind |-> e.kind, evidence |-> e.evidence, tasks |-> e.tasks, items |-> e.items,
             windows |-> e.windows, jobs |-> e.jobs, conflict |-> e.conflict]
    BY ONLY <2>1, <2>2
  <2>4. /\ e.kind = d.kind /\ e.evidence = d.evidence /\ e.tasks = d.tasks
        /\ e.windows = d.windows /\ e.conflict = d.conflict
    BY ONLY <2>1, <2>2
  <2> QED BY ONLY <1>8, <2>3, <2>4
<1>10. /\ Tables(e) /\ Items(e) = Items(d) /\ Jobs(e) = Jobs(d) /\ e.conflict = d.conflict
  BY <1>3, <1>6, <1>7, <1>9, TablesShape, TablesWrite
<1>11. d.windows[k].state = "active"
  BY <1>1, <1>2, <1>4 DEF Good, Shut
<1>12. /\ e.items[i].state = "running" /\ e.items[i].job = k /\ e.items[i].tries >= 1
       /\ d.items[i].job = k
       /\ \A o \in Items(d) \ {i} : e.items[o] = d.items[o]
  <2>1. d.items[i].job = k
    BY DEF k
  <2> QED BY <1>5, <1>6, <1>8, <2>1
<1>13. Tried(e)
  BY <1>1, <1>10, <1>12 DEF Good, Tried
<1>14. Shut(e)
  BY <1>1, <1>7, <1>8, <1>9, <1>10, <1>11 DEF Good, Shut
<1>15. Fits(e)
  <2>1. \A j : ItemsOf(e, j) = ItemsOf(d, j)
    BY <1>10, <1>12 DEF ItemsOf
  <2> QED BY <1>1, <1>9, <1>10, <2>1 DEF Good, Fits
<1>16. ~e.conflict /\ Items(c) \subseteq Items(e)
  BY <1>1, <1>10 DEF Calm
<1>17. Begins(c, e)
  <2> SUFFICES ASSUME NEW o \in Items(e), e.items[o].state = "running",
                      o \notin Items(c) \/ c.items[o].owner # e.items[o].owner
               PROVE  e.windows[e.items[o].job].state = "active"
    BY DEF Begins
  <2>1. o = i
    <3>1. o # i => e.items[o] = d.items[o]
      BY <1>10, <1>12
    <3> QED BY <1>1, <1>10, <3>1 DEF Calm
  <2> QED BY <1>9, <1>11, <1>12, <2>1
<1>18. Stays(c, e)
  BY <1>1, <1>9 DEF Stays, Settles
<1>22. Reach(c, e)
  BY <1>10, <1>13, <1>14, <1>15, <1>16, <1>17, <1>18 DEF Reach, Good
<1> QED
  BY <1>22 DEF e, d

(* One column of one task.                                                 *)
LEMMA TaskWrite ==
    ASSUME NEW d, Tables(d), NEW t \in Tasks, NEW row \in TaskRow, row.count = d.tasks[t].count
    PROVE  LET e == [d EXCEPT !.tasks = [d.tasks EXCEPT ![t] = row]] IN
           /\ Tables(e) /\ Calm(d, e)
           /\ e.items = d.items /\ e.windows = d.windows /\ e.jobs = d.jobs
           /\ Good(d) => Good(e)
           /\ \A u : Open(e, u) = Open(d, u)
           /\ e.tasks[t] = row /\ \A u \in Tasks \ {t} : e.tasks[u] = d.tasks[u]
<1> DEFINE T == [d.tasks EXCEPT ![t] = row]
<1>1. d.tasks \in [Tasks -> TaskRow]
  BY TablesShape
<1>2. T \in [Tasks -> TaskRow] /\ T[t] = row /\ \A u \in Tasks \ {t} : T[u] = d.tasks[u]
  BY <1>1
<1> HIDE DEF T
<1>3. \A u \in Tasks : T[u].count = d.tasks[u].count
  BY <1>2
<1>4. LET e == [d EXCEPT !.tasks = T] IN
      /\ Tables(e) /\ Calm(d, e)
      /\ e.tasks = T /\ e.items = d.items /\ e.windows = d.windows /\ e.jobs = d.jobs
      /\ Good(d) => Good(e)
      /\ \A u : Open(e, u) = Open(d, u)
  BY <1>2, <1>3, TasksChange
<1> QED
  BY <1>2, <1>4 DEF T

(* The state of one task.                                                  *)
LEMMA StateWrite ==
    ASSUME NEW d, Tables(d), NEW t \in Tasks, NEW state \in TaskStates
    PROVE  LET e == [d EXCEPT !.tasks[t].state = state] IN
           /\ Tables(e) /\ Calm(d, e)
           /\ e.items = d.items /\ e.windows = d.windows /\ e.jobs = d.jobs
           /\ Good(d) => Good(e)
           /\ \A u : Open(e, u) = Open(d, u)
           /\ e.tasks[t].state = state /\ \A u \in Tasks \ {t} : e.tasks[u] = d.tasks[u]
<1> DEFINE row == [d.tasks[t] EXCEPT !.state = state]
           e == [d EXCEPT !.tasks = [d.tasks EXCEPT ![t] = row]]
<1>1. row \in TaskRow /\ row.count = d.tasks[t].count /\ row.state = state
  <2>1. d.tasks[t] \in TaskRow
    BY TablesShape
  <2> QED BY <2>1 DEF TaskRow
<1>2. [d EXCEPT !.tasks[t].state = state] = e
  OBVIOUS
<1> HIDE DEF row
<1>3. /\ Tables(e) /\ Calm(d, e)
      /\ e.items = d.items /\ e.windows = d.windows /\ e.jobs = d.jobs
      /\ Good(d) => Good(e)
      /\ \A u : Open(e, u) = Open(d, u)
      /\ e.tasks[t] = row /\ \A u \in Tasks \ {t} : e.tasks[u] = d.tasks[u]
  BY <1>1, TaskWrite
<1> HIDE DEF e
<1> QED
  BY <1>1, <1>2, <1>3

(* refreshlifecyclejob keeps the invariant.                                *)
LEMMA RefreshGood ==
    ASSUME NEW d, Good(d), NEW j \in Jobs(d)
    PROVE  LET e == Refresh(d, j) IN
           /\ Good(e) /\ Calm(d, e) /\ Settles(d, e)
           /\ e.tasks = d.tasks /\ e.items = d.items /\ e.windows = d.windows
<1> DEFINE e == Refresh(d, j)
<1>1. Tables(d) /\ Tried(d)
  BY DEF Good
<1>2. Tables(e) /\ e.tasks = d.tasks /\ e.items = d.items /\ e.windows = d.windows
  BY <1>1, RefreshJob
<1>3. \A k \in Jobs(d) \ {j} : d.windows[k].state # "active" => d.jobs[k] \notin {"queued", "running"}
  BY DEF Good, Shut
<1>4. Calm(d, e) /\ Settles(d, e) /\ Shut(e) /\ Tried(e)
  BY <1>1, <1>3, RefreshCalm
<1> HIDE DEF e
<1>5. Good(e)
  BY <1>2, <1>4, CalmFits DEF Good
<1> QED
  BY <1>2, <1>4, <1>5 DEF e

(* One item is written, which stays in its job and with its owner.         *)
LEMMA ItemWrite ==
    ASSUME NEW d, Good(d), NEW i \in Items(d), NEW row \in ItemRow(Jobs(d)),
           row.job = d.items[i].job, row.state = d.items[i].state, row.owner = d.items[i].owner,
           row.state \in OwnedItem => row.tries >= 1
    PROVE  LET e == [d EXCEPT !.items = [d.items EXCEPT ![i] = row]] IN
           /\ Good(e) /\ Calm(d, e) /\ Settles(d, e)
           /\ e.tasks = d.tasks /\ e.windows = d.windows /\ e.jobs = d.jobs
           /\ e.items[i] = row /\ \A o \in Items(d) \ {i} : e.items[o] = d.items[o]
<1> DEFINE I == [d.items EXCEPT ![i] = row]
           e == [d EXCEPT !.items = I]
<1>1. Tables(d)
  BY DEF Good
<1>2. I \in [Items(d) -> ItemRow(Jobs(d))] /\ I[i] = row /\ \A o \in Items(d) \ {i} : I[o] = d.items[o]
  BY <1>1, TablesShape
<1> HIDE DEF I, e
<1>3. e = [kind |-> d.kind, evidence |-> d.evidence, tasks |-> d.tasks, items |-> I,
           windows |-> d.windows, jobs |-> d.jobs, conflict |-> d.conflict]
  <2>1. e = [d EXCEPT !.items = I]
    BY DEF e
  <2>2. d = [kind |-> d.kind, evidence |-> d.evidence, tasks |-> d.tasks, items |-> d.items,
             windows |-> d.windows, jobs |-> d.jobs, conflict |-> d.conflict]
    BY <1>1, TablesShape
  <2> QED BY ONLY <2>1, <2>2
<1>4. /\ Tables(e) /\ Items(e) = Items(d) /\ Jobs(e) = Jobs(d)
      /\ e.tasks = d.tasks /\ e.items = I /\ e.windows = d.windows /\ e.jobs = d.jobs
      /\ e.kind = d.kind /\ e.evidence = d.evidence /\ e.conflict = d.conflict
  BY <1>1, <1>2, <1>3, TablesShape, TablesWrite
<1>5. \A o \in Items(d) : /\ e.items[o].job = d.items[o].job /\ e.items[o].state = d.items[o].state
                          /\ e.items[o].owner = d.items[o].owner
                          /\ e.items[o].state \in OwnedItem => e.items[o].tries >= 1
  BY <1>2, <1>4 DEF Good, Tried
<1>6. Calm(d, e)
  BY <1>4, <1>5 DEF Calm
<1>7. Settles(d, e)
  BY <1>4 DEF Settles
<1>8. Tried(e) /\ Shut(e)
  BY <1>4, <1>5 DEF Good, Tried, Shut
<1>9. Good(e)
  BY <1>4, <1>6, <1>8, CalmFits DEF Good
<1> QED
  BY <1>2, <1>4, <1>6, <1>7, <1>9 DEF e, I

(* The reply of one item.                                                  *)
LEMMA ReplyWrite ==
    ASSUME NEW d, Good(d), NEW i, NEW reply \in {"none", "awaited", "stored"}
    PROVE  LET e == [d EXCEPT !.items[i].reply = reply] IN
           /\ Good(e) /\ Calm(d, e) /\ Settles(d, e)
           /\ e.tasks = d.tasks /\ e.windows = d.windows /\ e.jobs = d.jobs
           /\ \A o \in Items(d) : e.items[o].state = d.items[o].state
<1> DEFINE row == [d.items[i] EXCEPT !.reply = reply]
           e == [d EXCEPT !.items = [d.items EXCEPT ![i] = row]]
<1>0. Tables(d)
  BY DEF Good
<1>1. [d EXCEPT !.items[i].reply = reply] = e
  OBVIOUS
<1>2. CASE i \in Items(d)
  <2>1. row \in ItemRow(Jobs(d)) /\ row.job = d.items[i].job /\ row.state = d.items[i].state
        /\ row.owner = d.items[i].owner /\ row.tries = d.items[i].tries
    <3>1. d.items[i] \in ItemRow(Jobs(d))
      BY <1>0, <1>2, TablesShape
    <3> QED BY <3>1 DEF ItemRow
  <2>2. row.state \in OwnedItem => row.tries >= 1
    BY <1>2, <2>1 DEF Good, Tried
  <2> HIDE DEF row
  <2>3. /\ Good(e) /\ Calm(d, e) /\ Settles(d, e)
        /\ e.tasks = d.tasks /\ e.windows = d.windows /\ e.jobs = d.jobs
        /\ e.items[i] = row /\ \A o \in Items(d) \ {i} : e.items[o] = d.items[o]
    BY <1>2, <2>1, <2>2, ItemWrite
  <2> HIDE DEF e
  <2> QED BY <1>1, <2>1, <2>3
<1>3. CASE i \notin Items(d)
  <2>1. d.items = [o \in Items(d) |-> d.items[o]]
    BY <1>0, TablesShape
  <2>2. [d.items EXCEPT ![i] = row] = d.items
    <3> HIDE DEF row
    <3> QED BY ONLY <1>3, <2>1
  <2>3. d = [kind |-> d.kind, evidence |-> d.evidence, tasks |-> d.tasks, items |-> d.items,
             windows |-> d.windows, jobs |-> d.jobs, conflict |-> d.conflict]
    BY <1>0, TablesShape
  <2>4. e = d
    <3>1. e = [d EXCEPT !.items = d.items]
      BY <2>2
    <3> HIDE DEF e
    <3> QED BY ONLY <2>3, <3>1
  <2> QED BY <1>1, <2>4 DEF Calm, Settles
<1> QED
  BY <1>2, <1>3

(* Where a pass of a worker is.                                            *)
Stages == {"idle", "claimed", "checked", "calling", "deciding", "reusing", "failing", "leaving"}

PassRow == LET some == (Tasks \X Nat) \cup {None} IN [at : Stages, item : some, answer : some]

(* A pass that is not idle has an item, and one whose answer it may use.   *)
Placed(d, row) ==
    IF row.at = "idle" THEN row = Idle ELSE row.item \in Items(d) /\ row.answer \in Items(d)

Passes(d, p) == p \in [Workers -> PassRow] /\ \A w \in Workers : Placed(d, p[w])

(* A pass is put at a stage with an item.                                  *)
LEMMA PassWrite ==
    ASSUME NEW d, NEW e, NEW p, Passes(d, p), Items(d) \subseteq Items(e),
           NEW w \in Workers, NEW row \in PassRow, Placed(e, row)
    PROVE  Passes(e, [p EXCEPT ![w] = row])
<1>1. p \in [Workers -> PassRow]
  BY DEF Passes
<1>2. ASSUME NEW v \in Workers PROVE Placed(e, [p EXCEPT ![w] = row][v])
  <2>1. CASE v = w
    BY <1>1, <2>1
  <2>2. CASE v # w
    <3>1. Placed(d, p[v]) /\ [p EXCEPT ![w] = row][v] = p[v]
      BY <1>1, <2>2 DEF Passes
    <3> QED BY <3>1 DEF Placed
  <2> QED BY <2>1, <2>2
<1>3. [p EXCEPT ![w] = row] \in [Workers -> PassRow]
  BY <1>1
<1> QED
  BY <1>2, <1>3 DEF Passes

(* A pass with an item and an answer is placed.                            *)
LEMMA PlacedRow ==
    ASSUME NEW e, Tables(e), NEW at \in Stages \ {"idle"}, NEW i \in Items(e), NEW k \in Items(e)
    PROVE  LET row == [at |-> at, item |-> i, answer |-> k] IN row \in PassRow /\ Placed(e, row)
<1>1. i \in Tasks \X Nat /\ k \in Tasks \X Nat
  BY DEF Tables
<1> QED
  BY <1>1 DEF PassRow, Placed

(* Items are never deleted, so the other passes keep theirs.               *)
LEMMA PassStays ==
    ASSUME NEW d, NEW e, NEW p, Passes(d, p), Items(d) \subseteq Items(e)
    PROVE  Passes(e, p)
BY DEF Passes, Placed

(* A pass goes on with its item.                                           *)
LEMMA GoesOn ==
    ASSUME NEW d, NEW e, NEW p, Passes(d, p), Items(d) \subseteq Items(e), Tables(e),
           NEW w \in Workers, p[w].at # "idle", NEW at \in Stages \ {"idle"}
    PROVE  Passes(e, [p EXCEPT ![w].at = at])
<1> DEFINE i == p[w].item
           k == p[w].answer
           row == [at |-> at, item |-> i, answer |-> k]
<1>1. p[w] \in PassRow /\ Placed(d, p[w])
  BY DEF Passes
<1>2. i \in Items(e) /\ k \in Items(e)
  BY <1>1 DEF Placed
<1>3. p[w] = [at |-> p[w].at, item |-> i, answer |-> k]
  BY <1>1 DEF PassRow
<1> HIDE DEF i, k
<1>4. [p[w] EXCEPT !.at = at] = row
  BY ONLY <1>3
<1>5. [p EXCEPT ![w].at = at] = [p EXCEPT ![w] = row]
  BY <1>4
<1>6. row \in PassRow /\ Placed(e, row)
  BY <1>2, PlacedRow
<1> HIDE DEF row
<1> QED
  BY <1>5, <1>6, PassWrite

(* A pass goes on with the answer of another item.                         *)
LEMMA RecallsOn ==
    ASSUME NEW d, NEW p, Passes(d, p), Tables(d), NEW w \in Workers, p[w].at # "idle",
           NEW k \in Items(d)
    PROVE  Passes(d, [p EXCEPT ![w] = [at |-> "reusing", item |-> @.item, answer |-> k]])
<1> DEFINE i == p[w].item
           row == [at |-> "reusing", item |-> i, answer |-> k]
<1>1. p[w] \in PassRow /\ Placed(d, p[w])
  BY DEF Passes
<1>2. i \in Items(d)
  BY <1>1 DEF Placed
<1> HIDE DEF i
<1>5. [p EXCEPT ![w] = [at |-> "reusing", item |-> @.item, answer |-> k]] = [p EXCEPT ![w] = row]
  BY DEF i
<1>6. row \in PassRow /\ Placed(d, row)
  BY <1>2, PlacedRow DEF Stages
<1> HIDE DEF row
<1> QED
  BY <1>5, <1>6, PassWrite

(* A pass ends.                                                            *)
LEMMA EndsHere ==
    ASSUME NEW d, NEW e, NEW p, Passes(d, p), Items(d) \subseteq Items(e), Tables(e),
           NEW w \in Workers
    PROVE  Passes(e, [p EXCEPT ![w] = Idle])
<1>1. Idle \in PassRow /\ Placed(e, Idle)
  BY DEF Idle, PassRow, Placed, Stages
<1> QED
  BY <1>1, PassWrite

(* A worker that holds the fence settles its item and its task.            *)
LEMMA SettleReach ==
    ASSUME NEW d, Good(d), ~d.conflict, NEW i \in Items(d), d.items[i].state = "running",
           NEW c, Good(c), Calm(d, c), c.tasks = d.tasks, c.items[i].state \notin ActiveItem,
           NEW state \in TaskStates
    PROVE  Reach(d, [c EXCEPT !.tasks[i[1]].state = state])
<1> DEFINE t == i[1]
           e == [c EXCEPT !.tasks[t].state = state]
<1>1. Tables(d) /\ Tables(c)
  BY DEF Good
<1>2. t \in Tasks
  BY <1>1 DEF Tables
<1> HIDE DEF t
<1>3. /\ Tables(e) /\ Calm(c, e) /\ e.items = c.items /\ Good(e)
      /\ \A u : Open(e, u) = Open(c, u)
      /\ \A u \in Tasks \ {t} : e.tasks[u] = c.tasks[u]
  BY <1>1, <1>2, StateWrite
<1> HIDE DEF e
<1>4. Calm(d, e)
  BY <1>3, CalmAgain
<1>5. Quiet(d, e)
  BY <1>4, CalmQuiet
<1>6. i \in Open(d, t)
  BY DEF Open, Held, Attempted, ActiveItem, t
<1>7. Stays(d, e)
  <2>1. \A u \in Tasks \ {t} : e.tasks[u] = d.tasks[u]
    BY <1>3
  <2> QED BY <1>6, <2>1 DEF Stays
<1>12. Begins(d, e) /\ Items(d) \subseteq Items(e) /\ ~e.conflict
  BY <1>5, QuietBegins DEF Quiet
<1>13. Reach(d, e)
  BY <1>3, <1>7, <1>12 DEF Reach
<1> QED
  BY <1>13 DEF e, t

(* A call that is not made gives back its claim.                           *)
LEMMA DeferredReach ==
    ASSUME NEW d, Good(d), ~d.conflict, NEW i \in Items(d), d.items[i].state = "running"
    PROVE  Reach(d, Deferred(d, i))
<1> DEFINE j      == d.items[i].job
           closed == d.windows[j].state # "active"
           state  == IF closed THEN "cancelled" ELSE "queued"
           put    == WithItems(d, {i}, state)
           t      == i[1]
           row    == [put.items[i] EXCEPT !.tries = IF closed THEN 0 ELSE @ - 1]
           once   == [put EXCEPT !.items = [put.items EXCEPT ![i] = row]]
           task   == [once.tasks[t] EXCEPT !.state = IF closed /\ @ = "dispatched"
                                                    THEN "pending" ELSE @]
           kept   == [put EXCEPT !.items[i].tries = IF closed THEN 0 ELSE @ - 1,
                              !.tasks[i[1]].state = IF closed /\ @ = "dispatched"
                                                    THEN "pending" ELSE @]
           twice  == [once EXCEPT !.tasks = [once.tasks EXCEPT ![t] = task]]
<1>1. Deferred(d, i) = Refresh(kept, j)
  BY DEF Deferred
<1>2. Tables(d) /\ t \in Tasks /\ d.items[i] \in ItemRow(Jobs(d)) /\ d.items[i].tries >= 1
  <2>1. Tables(d)
    BY DEF Good
  <2>2. d.items[i].tries >= 1
    BY DEF Good, Tried, OwnedItem
  <2> QED BY <2>1, <2>2, TablesShape DEF Tables
<1>3. j \in Jobs(d)
  BY <1>2 DEF ItemRow
<1>4. state \in ItemStates \ OwnedItem /\ state \in {"queued", "cancelled"}
      /\ closed \in BOOLEAN /\ (closed => state = "cancelled") /\ (~closed => state = "queued")
  BY DEF ItemStates, OwnedItem
<1>5. put.items[i].tries = IF state = "queued" THEN d.items[i].tries ELSE 0
  <2>1. d = [kind |-> d.kind, evidence |-> d.evidence, tasks |-> d.tasks, items |-> d.items,
             windows |-> d.windows, jobs |-> d.jobs, conflict |-> d.conflict]
    BY <1>2, TablesShape
  <2> DEFINE new == [d.items[i] EXCEPT !.state = state, !.owner = None, !.live = FALSE,
                                       !.tries = IF state = "queued" THEN @ ELSE 0]
             I == [o \in Items(d) |-> IF o \in {i}
                     THEN [d.items[o] EXCEPT !.state = state, !.owner = None, !.live = FALSE,
                                             !.tries = IF state = "queued" THEN @ ELSE 0]
                     ELSE d.items[o]]
  <2>2. put = [d EXCEPT !.items = I]
    BY DEF WithItems
  <2>3. I[i] = new
    OBVIOUS
  <2> HIDE DEF I, state, put
  <2>4. put.items = I
    BY ONLY <2>1, <2>2
  <2>5. new.tries = IF state = "queued" THEN d.items[i].tries ELSE 0
    BY <1>2 DEF ItemRow
  <2> QED BY <2>3, <2>4, <2>5
<1> HIDE DEF closed, state
<1>6. /\ Good(put) /\ Calm(d, put) /\ Settles(d, put)
      /\ put.tasks = d.tasks /\ put.windows = d.windows /\ put.jobs = d.jobs
      /\ put.items[i].state = state /\ put.items[i].job = j
  <2>1. {i} \in SUBSET Items(d) /\ (state = "queued" => \A o \in {i} : d.items[o].state \in ActiveItem)
    BY DEF ActiveItem
  <2> HIDE DEF put
  <2>2. put = WithItems(d, {i}, state)
    BY DEF put
  <2> DEFINE S == {i}
  <2>3. i \in S
    OBVIOUS
  <2> HIDE DEF S
  <2>4. S \in SUBSET Items(d) /\ (state = "queued" => \A o \in S : d.items[o].state \in ActiveItem)
        /\ put = WithItems(d, S, state) /\ state \in ItemStates \ OwnedItem /\ Good(d)
    BY <1>4, <2>1, <2>2 DEF S
  <2>5. /\ Good(put) /\ Calm(d, put) /\ Settles(d, put)
        /\ put.tasks = d.tasks /\ put.windows = d.windows /\ put.jobs = d.jobs
        /\ \A o \in S : /\ put.items[o].state = state
                        /\ put.items[o].job = d.items[o].job /\ put.items[o].reply = d.items[o].reply
    <3>1. LET e == WithItems(d, S, state) IN
          /\ Good(e) /\ Calm(d, e) /\ Settles(d, e)
          /\ e.tasks = d.tasks /\ e.windows = d.windows /\ e.jobs = d.jobs
          /\ \A o \in S : /\ e.items[o].state = state
                          /\ e.items[o].job = d.items[o].job /\ e.items[o].reply = d.items[o].reply
      BY ONLY <2>4, PutCalm
    <3> QED BY ONLY <2>4, <3>1
  <2> QED BY <2>3, <2>5
<1> HIDE DEF put
<1>7. i \in Items(put) /\ Tables(put) /\ put.items[i] \in ItemRow(Jobs(put))
  <2>1. i \in Items(put) /\ Tables(put)
    BY <1>6 DEF Calm, Good
  <2> QED BY <2>1, TablesShape
<1>8. /\ row \in ItemRow(Jobs(put)) /\ row.job = put.items[i].job /\ row.state = put.items[i].state
      /\ row.owner = put.items[i].owner
  <2>1. (IF closed THEN 0 ELSE put.items[i].tries - 1) \in 0..ItemAttempts
    <3>1. d.items[i].tries \in 1..ItemAttempts
      BY <1>2 DEF ItemRow
    <3> QED BY <1>4, <1>5, <3>1, WindowsAssumption
  <2> QED BY <1>7, <2>1 DEF ItemRow
<1>9. row.state \notin OwnedItem
  BY <1>4, <1>6, <1>8
<1> HIDE DEF row
<1>10. /\ Good(once) /\ Calm(put, once) /\ Settles(put, once)
       /\ once.tasks = put.tasks /\ once.windows = put.windows /\ once.jobs = put.jobs
  BY <1>6, <1>7, <1>8, <1>9, ItemWrite
<1>11. kept = twice
  <2>1. put = [kind |-> put.kind, evidence |-> put.evidence, tasks |-> put.tasks, items |-> put.items,
               windows |-> put.windows, jobs |-> put.jobs, conflict |-> put.conflict]
    BY <1>7, TablesShape
  <2>2. kept = [once EXCEPT !.tasks[t].state = IF closed /\ @ = "dispatched" THEN "pending" ELSE @]
    BY DEF row
  <2> HIDE DEF kept, once
  <2> QED BY <2>2
<1> HIDE DEF once, kept
<1>12. Tables(once) /\ once.tasks[t] \in TaskRow
  <2>1. Tables(once)
    BY <1>10 DEF Good
  <2> QED BY <1>2, <2>1, TablesShape
<1>13. /\ task \in TaskRow /\ task.count = once.tasks[t].count
       /\ \/ task.state = once.tasks[t].state
          \/ once.tasks[t].state = "dispatched" /\ task.state = "pending"
  BY <1>12 DEF TaskRow, TaskStates
<1> HIDE DEF task
<1>14. /\ Good(twice) /\ Calm(once, twice)
       /\ twice.tasks[t] = task /\ \A u \in Tasks \ {t} : twice.tasks[u] = once.tasks[u]
  BY <1>2, <1>10, <1>12, <1>13, TaskWrite
<1> HIDE DEF twice
<1>15. Settles(once, twice)
  BY <1>13, <1>14 DEF Settles
<1>16. Calm(d, twice) /\ Settles(d, twice)
  <2>1. Calm(d, once) /\ Settles(d, once)
    BY <1>6, <1>10, CalmAgain, SettlesAgain
  <2> QED BY <1>14, <1>15, <2>1, CalmAgain, SettlesAgain
<1>17. j \in Jobs(twice)
  BY <1>3, <1>16 DEF Calm
<1>18. /\ Good(Refresh(twice, j)) /\ Calm(twice, Refresh(twice, j)) /\ Settles(twice, Refresh(twice, j))
  BY <1>14, <1>17, RefreshGood
<1>19. Calm(d, Refresh(twice, j)) /\ Settles(d, Refresh(twice, j))
  BY <1>16, <1>18, CalmAgain, SettlesAgain
<1> QED
  BY <1>1, <1>11, <1>18, <1>19, CalmReach

-----------------------------------------------------------------------------
(* Every action of a worker.                                               *)

(* What every action does.                                                 *)
Moved == Reach(db, db') /\ Passes(db', pass')

(* What later steps need of a transaction.                                 *)
LEMMA ReachTables ==
    ASSUME NEW d, NEW e, Reach(d, e) PROVE Tables(e) /\ Items(d) \subseteq Items(e)
BY DEF Reach, Good

(* The pass of a worker goes on.                                           *)
LEMMA GoesMoves ==
    ASSUME Passes(db, pass), Reach(db, db'), NEW w \in Workers, pass[w].at # "idle",
           NEW at \in Stages \ {"idle"}, Goes(w, at)
    PROVE  Moved
<1>1. Tables(db') /\ Items(db) \subseteq Items(db')
  BY ReachTables
<1>2. pass' = [pass EXCEPT ![w].at = at]
  BY DEF Goes
<1>3. Passes(db', [pass EXCEPT ![w].at = at])
  BY <1>1, GoesOn
<1> QED
  BY <1>2, <1>3 DEF Moved

(* The pass of a worker ends.                                              *)
LEMMA EndsMoves ==
    ASSUME Passes(db, pass), Reach(db, db'), NEW w \in Workers, Ends(w)
    PROVE  Moved
<1>1. Tables(db') /\ Items(db) \subseteq Items(db')
  BY ReachTables
<1>2. pass' = [pass EXCEPT ![w] = Idle]
  BY DEF Ends
<1>3. Passes(db', [pass EXCEPT ![w] = Idle])
  BY <1>1, EndsHere
<1> QED
  BY <1>2, <1>3 DEF Moved

(* No pass changes.                                                        *)
LEMMA StayMoves ==
    ASSUME Passes(db, pass), Reach(db, db'), UNCHANGED pass
    PROVE  Moved
<1>1. Passes(db', pass)
  BY ReachTables, PassStays
<1> QED
  BY <1>1 DEF Moved

(* The worker finds that it has lost its item.                             *)
LEMMA LeavesMoves ==
    ASSUME Good(db), ~db.conflict, Passes(db, pass), NEW w \in Workers, pass[w].at # "idle",
           Leaves(w)
    PROVE  Moved
<1>1. Reach(db, db')
  <2>1. Reach(db, db)
    BY SameReach
  <2>2. db' = db
    BY DEF Leaves
  <2> QED BY <2>1, <2>2
<1>2. "leaving" \in Stages \ {"idle"}
  BY DEF Stages
<1> QED
  BY <1>1, <1>2, GoesMoves, EndsMoves DEF Leaves

(* The fence holds only for a running item (activeworkfence).              *)
LEMMA FenceHolds ==
    ASSUME Passes(db, pass), NEW w \in Workers, pass[w].at # "idle"
    PROVE  pass[w].item \in Items(db) /\ (Fence(w) => db.items[pass[w].item].state = "running")
BY DEF Passes, Placed, Fence

(* An item has a task and a job.                                           *)
LEMMA ItemTask ==
    ASSUME NEW d, Good(d), NEW i \in Items(d)
    PROVE  i[1] \in Tasks /\ d.items[i].job \in Jobs(d)
<1>1. Tables(d)
  BY DEF Good
<1>2. d.items[i] \in ItemRow(Jobs(d))
  BY <1>1, TablesShape
<1> QED
  BY <1>1, <1>2 DEF Tables, ItemRow

(* One item is put in a state nobody owns.                                 *)
LEMMA PutOne ==
    ASSUME NEW d, Good(d), NEW i \in Items(d), NEW state \in ItemStates \ OwnedItem,
           state = "queued" => d.items[i].state \in ActiveItem
    PROVE  LET e == WithItems(d, {i}, state) IN
           /\ Good(e) /\ Calm(d, e) /\ Settles(d, e)
           /\ e.tasks = d.tasks /\ e.windows = d.windows /\ e.jobs = d.jobs
           /\ e.items[i].state = state
<1> DEFINE S == {i}
<1>1. /\ S \in SUBSET Items(d) /\ i \in S
      /\ state = "queued" => \A o \in S : d.items[o].state \in ActiveItem
  OBVIOUS
<1> HIDE DEF S
<1>2. LET e == WithItems(d, S, state) IN
      /\ Good(e) /\ Calm(d, e) /\ Settles(d, e)
      /\ e.tasks = d.tasks /\ e.windows = d.windows /\ e.jobs = d.jobs
      /\ \A o \in S : /\ e.items[o].state = state
                      /\ e.items[o].job = d.items[o].job /\ e.items[o].reply = d.items[o].reply
  BY <1>1, PutCalm
<1>3. LET e == WithItems(d, S, state) IN
      /\ Good(e) /\ Calm(d, e) /\ Settles(d, e)
      /\ e.tasks = d.tasks /\ e.windows = d.windows /\ e.jobs = d.jobs
      /\ e.items[i].state = state
  BY ONLY <1>1, <1>2
<1> QED
  BY <1>3 DEF S

(* claimnext.                                                              *)
LEMMA ClaimMoves ==
    ASSUME Good(db), ~db.conflict, Passes(db, pass), NEW w \in Workers, Claim(w)
    PROVE  Moved
<1> DEFINE d == Recovered(db)
<1>1. Good(d) /\ Calm(db, d) /\ Settles(db, d)
  BY RecoveredCalm
<1>2. CASE db' = d /\ UNCHANGED pass
  <2>1. Reach(db, d)
    BY <1>1, CalmReach
  <2>2. Reach(db, db')
    BY <1>2, <2>1
  <2> QED BY <1>2, <2>2, StayMoves
<1>3. ASSUME NEW i,
             /\ i \in Items(d) /\ d.items[i].state = "queued"
             /\ d.jobs[d.items[i].job] \in {"queued", "running"},
             db' = [d EXCEPT !.items[i].state = "running", !.items[i].owner = w,
                                   !.items[i].live = TRUE,
                                   !.items[i].tries = IF @ < ItemAttempts THEN @ + 1 ELSE @,
                                   !.jobs[d.items[i].job] = "running"],
             pass' = [pass EXCEPT ![w] =
                      [at |-> IF d.kind[i[1][1]] = "resolution" THEN "claimed" ELSE "checked",
                       item |-> i, answer |-> i]]
      PROVE  Moved
  <2>1. Reach(db, [d EXCEPT !.items[i].state = "running", !.items[i].owner = w,
                                   !.items[i].live = TRUE,
                                   !.items[i].tries = IF @ < ItemAttempts THEN @ + 1 ELSE @,
                                   !.jobs[d.items[i].job] = "running"])
    BY <1>3, ClaimReach
  <2>2. Reach(db, db')
    BY ONLY <1>3, <2>1
  <2>3. Tables(db') /\ Items(db) \subseteq Items(db')
    BY <2>2, ReachTables
  <2>4. i \in Items(db')
    BY <1>1, <1>3, <2>3 DEF Calm
  <2> HIDE DEF d
  <2> DEFINE at == IF d.kind[i[1][1]] = "resolution" THEN "claimed" ELSE "checked"
  <2>5. at \in Stages /\ at # "idle"
    BY DEF Stages
  <2> DEFINE row == [at |-> at, item |-> i, answer |-> i]
  <2>6. pass' = [pass EXCEPT ![w] = row]
    BY <1>3
  <2> HIDE DEF at
  <2>8. row \in PassRow /\ Placed(db', row)
    BY <2>3, <2>4, <2>5, PlacedRow
  <2> HIDE DEF row
  <2>7. Passes(db', [pass EXCEPT ![w] = row])
    BY <2>3, <2>8, PassWrite
  <2> QED BY <2>2, <2>6, <2>7 DEF Moved
<1> QED
  BY <1>2, <1>3 DEF Claim

(* checkbacklogclaim.                                                      *)
LEMMA CheckMoves ==
    ASSUME Good(db), ~db.conflict, Passes(db, pass), NEW w \in Workers, Check(w)
    PROVE  Moved
<1> DEFINE i == pass[w].item
           c == WithItems(db, {i}, "skipped")
<1>1. pass[w].at # "idle"
  BY DEF Check
<1>2. i \in Items(db) /\ (Fence(w) => db.items[i].state = "running")
  BY <1>1, FenceHolds
<1>3. CASE ~Fence(w)
  BY <1>1, <1>3, LeavesMoves DEF Check
<1>4. CASE UNCHANGED db /\ Goes(w, "checked")
  <2>1. Reach(db, db')
    BY <1>4, SameReach
  <2>2. "checked" \in Stages \ {"idle"}
    BY DEF Stages
  <2> QED BY <1>1, <1>4, <2>1, <2>2, GoesMoves
<1>5. CASE /\ Fence(w)
           /\ db' = [c EXCEPT !.tasks[i[1]].state = "superseded"]
           /\ Ends(w)
  <2> HIDE DEF i
  <2>1. /\ Good(c) /\ Calm(db, c) /\ c.tasks = db.tasks
        /\ c.items[i].state = "skipped"
    <3>1. "skipped" \in ItemStates \ OwnedItem /\ "skipped" # "queued"
      BY DEF ItemStates, OwnedItem
    <3> HIDE DEF c
    <3>2. c = WithItems(db, {i}, "skipped")
      BY DEF c
    <3> QED BY <1>2, <3>1, <3>2, PutOne
  <2> HIDE DEF c
  <2>2. c.items[i].state \notin ActiveItem /\ "superseded" \in TaskStates
    BY <2>1 DEF ActiveItem, TaskStates
  <2>3. Reach(db, [c EXCEPT !.tasks[i[1]].state = "superseded"])
    BY <1>2, <1>5, <2>1, <2>2, SettleReach
  <2>4. Reach(db, db')
    BY ONLY <1>5, <2>3
  <2> QED BY <1>5, <2>4, EndsMoves
<1> QED
  BY <1>3, <1>4, <1>5 DEF Check

(* reservecall.                                                            *)
LEMMA ReserveMoves ==
    ASSUME Good(db), ~db.conflict, Passes(db, pass), NEW w \in Workers, Reserve(w)
    PROVE  Moved
<1> DEFINE i == pass[w].item
<1>1. pass[w].at # "idle"
  BY DEF Reserve
<1>2. i \in Items(db) /\ (Fence(w) => db.items[i].state = "running")
  BY <1>1, FenceHolds
<1>3. {"reusing", "deciding", "calling"} \subseteq Stages \ {"idle"}
  BY DEF Stages
<1>4. \/ UNCHANGED db /\ Goes(w, "deciding")
      \/ UNCHANGED db /\ \E k \in Latest(i[1]) : Recalls(w, k)
      \/ Leaves(w)
      \/ db' = [db EXCEPT !.items[i].reply = "awaited"] /\ Goes(w, "calling")
      \/ Fence(w) /\ db' = Deferred(db, i) /\ Ends(w)
  BY DEF Reserve
<1> HIDE DEF i
<1>5. CASE UNCHANGED db /\ Goes(w, "deciding")
  <2>1. Reach(db, db')
    BY <1>5, SameReach
  <2> QED BY <1>1, <1>3, <1>5, <2>1, GoesMoves
<1>9. CASE UNCHANGED db /\ \E k \in Latest(i[1]) : Recalls(w, k)
  <2>1. PICK k \in Latest(i[1]) : Recalls(w, k)
    BY <1>9
  <2>2. k \in Items(db) /\ Tables(db)
    BY DEF Latest, Attempted, Good
  <2>3. Reach(db, db')
    BY <1>9, SameReach
  <2>4. Passes(db, [pass EXCEPT ![w] = [at |-> "reusing", item |-> @.item, answer |-> k]])
    BY <1>1, <2>2, RecallsOn
  <2> QED BY <1>9, <2>1, <2>3, <2>4 DEF Recalls, Moved
<1>6. CASE Leaves(w)
  BY <1>1, <1>6, LeavesMoves
<1>7. CASE db' = [db EXCEPT !.items[i].reply = "awaited"] /\ Goes(w, "calling")
  <2> DEFINE e == [db EXCEPT !.items[i].reply = "awaited"]
  <2>1. Good(e) /\ Calm(db, e) /\ Settles(db, e)
    BY ReplyWrite
  <2>2. Reach(db, e)
    BY <2>1, CalmReach
  <2>3. Reach(db, db')
    BY <1>7, <2>2
  <2> QED BY <1>1, <1>3, <1>7, <2>3, GoesMoves
<1>8. CASE Fence(w) /\ db' = Deferred(db, i) /\ Ends(w)
  <2>1. Reach(db, Deferred(db, i))
    BY <1>2, <1>8, DeferredReach
  <2>2. Reach(db, db')
    BY <1>8, <2>1
  <2> QED BY <1>8, <2>2, EndsMoves
<1> QED
  BY <1>4, <1>5, <1>6, <1>7, <1>8, <1>9

(* A call is recorded with its task and item.                              *)
LEMMA PaidReach ==
    ASSUME NEW d, Good(d), ~d.conflict, NEW i, NEW t \in Tasks, NEW reply \in {"none", "awaited", "stored"}
    PROVE  Reach(d, [[d EXCEPT !.items[i].reply = reply] EXCEPT
                       !.tasks[t].paid = IF @ < Max(Limits) THEN @ + 1 ELSE @])
<1> DEFINE c == [d EXCEPT !.items[i].reply = reply]
           row == [c.tasks[t] EXCEPT !.paid = IF @ < Max(Limits) THEN @ + 1 ELSE @]
           e == [c EXCEPT !.tasks = [c.tasks EXCEPT ![t] = row]]
<1>1. Good(c) /\ Calm(d, c) /\ Settles(d, c)
  BY ReplyWrite
<1> HIDE DEF c
<1>2. [c EXCEPT !.tasks[t].paid = IF @ < Max(Limits) THEN @ + 1 ELSE @] = e
  OBVIOUS
<1>3. Tables(c) /\ c.tasks[t] \in TaskRow
  <2>1. Tables(c)
    BY <1>1 DEF Good
  <2> QED BY <2>1, TablesShape
<1>4. row \in TaskRow /\ row.count = c.tasks[t].count /\ row.state = c.tasks[t].state
  <2>1. c.tasks[t].paid \in 0..Max(Limits) /\ Max(Limits) \in Nat
    BY <1>3, LargestLimit DEF TaskRow
  <2>2. (IF c.tasks[t].paid < Max(Limits) THEN c.tasks[t].paid + 1 ELSE c.tasks[t].paid) \in 0..Max(Limits)
    BY <2>1
  <2> QED BY <1>3, <2>2 DEF TaskRow
<1> HIDE DEF row
<1>5. /\ Tables(e) /\ Calm(c, e) /\ Good(e)
      /\ e.tasks[t] = row /\ \A u \in Tasks \ {t} : e.tasks[u] = c.tasks[u]
  BY <1>1, <1>3, <1>4, TaskWrite
<1> HIDE DEF e
<1>6. Settles(c, e)
  BY <1>4, <1>5 DEF Settles
<1>7. Calm(d, e) /\ Settles(d, e)
  BY <1>1, <1>5, <1>6, CalmAgain, SettlesAgain
<1>8. Reach(d, e)
  BY <1>5, <1>7, CalmReach
<1> QED
  BY <1>2, <1>8 DEF c

(* The call of _runworkeronce, and its settlement.                         *)
LEMMA AnswerMoves ==
    ASSUME Good(db), ~db.conflict, Passes(db, pass), NEW w \in Workers, Answer(w)
    PROVE  Moved
<1> DEFINE i == pass[w].item
           after(reply) == [[db EXCEPT !.items[i].reply = reply] EXCEPT
                       !.tasks[i[1]].paid = IF @ < Max(Limits) THEN @ + 1 ELSE @]
<1>1. pass[w].at # "idle"
  BY DEF Answer
<1>2. i \in Items(db) /\ i[1] \in Tasks
  <2>1. i \in Items(db)
    BY <1>1, FenceHolds
  <2> QED BY <2>1, ItemTask
<1>3. {"deciding", "failing"} \subseteq Stages \ {"idle"}
  BY DEF Stages
<1>4. \/ db' = after("stored") /\ Goes(w, "deciding")
      \/ db' = after("none") /\ Goes(w, "failing")
  BY DEF Answer
<1> HIDE DEF i
<1>5. Reach(db, after("stored")) /\ Reach(db, after("none"))
  BY <1>2, PaidReach
<1> HIDE DEF after
<1>6. Reach(db, db')
  BY <1>4, <1>5
<1> QED
  BY <1>1, <1>3, <1>4, <1>6, GoesMoves

(* A decision marks the answer it rests on as used.                        *)
LEMMA AnswerUsed ==
    ASSUME NEW d, Good(d), NEW k \in Items(d)
    PROVE  LET c == [d EXCEPT !.items[k].reply = IF @ = "stored" THEN "none" ELSE @] IN
           /\ Good(c) /\ Calm(d, c) /\ c.tasks = d.tasks
           /\ \A o \in Items(d) : c.items[o].state = d.items[o].state
<1> DEFINE reply == IF d.items[k].reply = "stored" THEN "none" ELSE d.items[k].reply
           c == [d EXCEPT !.items[k].reply = reply]
<1>1. reply \in {"none", "awaited", "stored"}
  <2>1. d.items[k] \in ItemRow(Jobs(d))
    BY TablesShape DEF Good
  <2> QED BY <2>1 DEF ItemRow
<1>2. [d EXCEPT !.items[k].reply = IF @ = "stored" THEN "none" ELSE @] = c
  OBVIOUS
<1> HIDE DEF reply
<1>3. Good(c)
  BY <1>1, ReplyWrite
<1>4. Calm(d, c)
  BY <1>1, ReplyWrite
<1>5. c.tasks = d.tasks
  OBVIOUS
<1>6. \A o \in Items(d) : c.items[o].state = d.items[o].state
  BY <1>1, ReplyWrite
<1> QED
  BY <1>2, <1>3, <1>4, <1>5, <1>6

(* completebacklogdecision.                                                *)
LEMMA DecideMoves ==
    ASSUME Good(db), ~db.conflict, Passes(db, pass), NEW w \in Workers, Decide(w)
    PROVE  Moved
<1> DEFINE i == pass[w].item
           put == WithItems(db, {i}, "processed")
           k == pass[w].answer
           c == [put EXCEPT !.items[k].reply = IF @ = "stored" THEN "none" ELSE @]
<1>1. pass[w].at # "idle"
  BY DEF Decide
<1>2. i \in Items(db) /\ (Fence(w) => db.items[i].state = "running")
  BY <1>1, FenceHolds
<1>3. CASE ~Fence(w)
  BY <1>1, <1>3, LeavesMoves DEF Decide
<1>4. CASE Fence(w)
  <2>1. PICK outcome \in Outcomes(w) :
           db' = [put EXCEPT !.items[k].reply = IF @ = "stored" THEN "none" ELSE @,
                             !.tasks[i[1]].state = outcome]
    BY <1>4 DEF Decide
  <2>2. db' = [c EXCEPT !.tasks[i[1]].state = outcome]
    BY <2>1
  <2>3. outcome \in TaskStates
    BY DEF Outcomes, TaskStates
  <2> HIDE DEF i
  <2>4. Good(put) /\ Calm(db, put) /\ put.tasks = db.tasks /\ put.items[i].state = "processed"
    <3>1. "processed" \in ItemStates \ OwnedItem /\ "processed" # "queued"
      BY DEF ItemStates, OwnedItem
    <3> HIDE DEF put
    <3>2. put = WithItems(db, {i}, "processed")
      BY DEF put
    <3> QED BY <1>2, <3>1, <3>2, PutOne
  <2> HIDE DEF put
  <2>5. /\ Good(c) /\ Calm(put, c) /\ c.tasks = put.tasks
        /\ \A o \in Items(put) : c.items[o].state = put.items[o].state
    <3>1. k \in Items(put)
      BY <1>1, <2>4 DEF Passes, Placed, Calm
    <3> HIDE DEF k
    <3> QED BY <2>4, <3>1, AnswerUsed
  <2> HIDE DEF c
  <2>6. /\ Good(c) /\ Calm(db, c) /\ c.tasks = db.tasks /\ c.items[i].state \notin ActiveItem
    <3>1. i \in Items(put)
      BY <1>2, <2>4 DEF Calm
    <3>2. c.items[i].state = "processed"
      BY <2>4, <2>5, <3>1
    <3>3. Calm(db, c)
      BY <2>4, <2>5, CalmAgain
    <3> QED BY <2>4, <2>5, <3>2, <3>3 DEF ActiveItem
  <2>7. Reach(db, [c EXCEPT !.tasks[i[1]].state = outcome])
    BY <1>2, <1>4, <2>3, <2>6, SettleReach
  <2>8. Reach(db, db')
    BY ONLY <2>2, <2>7
  <2>9. Ends(w)
    BY <1>4 DEF Decide
  <2> QED BY <2>8, <2>9, EndsMoves
<1> QED
  BY <1>3, <1>4

(* An attempt that ends, and voids its answer.                             *)
LEMMA EndReach ==
    ASSUME NEW d, Good(d), ~d.conflict, NEW i \in Items(d), d.items[i].state = "running",
           NEW state \in ItemStates \ OwnedItem
    PROVE  Reach(d, Refresh([WithItems(d, {i}, state) EXCEPT !.items[i].reply = "none"],
                            d.items[i].job))
<1> DEFINE j == d.items[i].job
           put == WithItems(d, {i}, state)
           c == [put EXCEPT !.items[i].reply = "none"]
           e == Refresh(c, j)
<1>1. Good(put) /\ Calm(d, put) /\ Settles(d, put)
  BY PutOne DEF ActiveItem
<1> HIDE DEF put
<1>2. Good(c) /\ Calm(put, c) /\ Settles(put, c)
  BY <1>1, ReplyWrite
<1> HIDE DEF c
<1>3. j \in Jobs(c)
  BY <1>1, <1>2, ItemTask DEF Calm
<1> HIDE DEF j
<1>4. Good(e) /\ Calm(c, e) /\ Settles(c, e)
  BY <1>2, <1>3, RefreshGood
<1> HIDE DEF e
<1>5. Calm(d, c) /\ Settles(d, c)
  BY <1>1, <1>2, CalmAgain, SettlesAgain
<1>6. Calm(d, e) /\ Settles(d, e)
  BY <1>4, <1>5, CalmAgain, SettlesAgain
<1>7. Reach(d, e)
  BY <1>4, <1>6, CalmReach
<1> QED
  BY <1>7 DEF e, c, put, j

(* Completion of a discovery batch.                                        *)
LEMMA PublishMoves ==
    ASSUME Good(db), ~db.conflict, Passes(db, pass), NEW w \in Workers, Publish(w)
    PROVE  Moved
<1> DEFINE i == pass[w].item
           after == Refresh([WithItems(db, {i}, "processed") EXCEPT !.items[i].reply = "none"],
                            db.items[i].job)
<1>1. pass[w].at # "idle"
  BY DEF Publish
<1>2. i \in Items(db) /\ (Fence(w) => db.items[i].state = "running")
  BY <1>1, FenceHolds
<1>3. Leaves(w) \/ (Fence(w) /\ db' = after /\ Ends(w))
  BY DEF Publish, JobOf
<1>4. CASE Leaves(w)
  BY <1>1, <1>4, LeavesMoves
<1>5. CASE Fence(w) /\ db' = after /\ Ends(w)
  <2>1. "processed" \in ItemStates \ OwnedItem
    BY DEF ItemStates, OwnedItem
  <2> HIDE DEF i
  <2>2. Reach(db, after)
    BY <1>2, <1>5, <2>1, EndReach
  <2> HIDE DEF after
  <2>3. Reach(db, db')
    BY <1>5, <2>2
  <2> QED BY <1>5, <2>3, EndsMoves
<1> QED
  BY <1>3, <1>4, <1>5

(* failattempt.                                                            *)
LEMMA FailMoves ==
    ASSUME Good(db), ~db.conflict, Passes(db, pass), NEW w \in Workers, Fail(w)
    PROVE  Moved
<1> DEFINE i == pass[w].item
           after(state) == Refresh([WithItems(db, {i}, state) EXCEPT !.items[i].reply = "none"],
                                   db.items[i].job)
<1>1. pass[w].at # "idle"
  BY DEF Fail
<1>2. i \in Items(db) /\ (Fence(w) => db.items[i].state = "running")
  BY <1>1, FenceHolds
<1>3. Leaves(w) \/ (Fence(w) /\ (\E state \in {"dead_letter", "queued"} : db' = after(state)) /\ Ends(w))
  BY DEF Fail, JobOf
<1>4. CASE Leaves(w)
  BY <1>1, <1>4, LeavesMoves
<1>5. CASE Fence(w) /\ (\E state \in {"dead_letter", "queued"} : db' = after(state)) /\ Ends(w)
  <2>1. {"dead_letter", "queued"} \subseteq ItemStates \ OwnedItem
    BY DEF ItemStates, OwnedItem
  <2> HIDE DEF i
  <2>2. \A state \in {"dead_letter", "queued"} : Reach(db, after(state))
    BY <1>2, <1>5, <2>1, EndReach
  <2> HIDE DEF after
  <2>3. Reach(db, db')
    BY <1>5, <2>2
  <2> QED BY <1>5, <2>3, EndsMoves
<1> QED
  BY <1>3, <1>4, <1>5

(* acknowledgecancel.                                                      *)
LEMMA LeaveMoves ==
    ASSUME Good(db), ~db.conflict, Passes(db, pass), NEW w \in Workers, Leave(w)
    PROVE  Moved
<1> DEFINE i == pass[w].item
           put == WithItems(db, {i}, "cancelled")
           j == db.items[i].job
<1>1. pass[w].at # "idle" /\ Ends(w)
  BY DEF Leave
<1>2. i \in Items(db)
  BY <1>1, FenceHolds
<1>3. db' = db \/ db' = Refresh(put, j)
  BY DEF Leave, JobOf
<1> HIDE DEF i
<1>4. Good(put) /\ Calm(db, put) /\ Settles(db, put)
  <2>1. "cancelled" \in ItemStates \ OwnedItem /\ "cancelled" # "queued"
    BY DEF ItemStates, OwnedItem
  <2> HIDE DEF put
  <2>2. put = WithItems(db, {i}, "cancelled")
    BY DEF put
  <2> QED BY <1>2, <2>1, <2>2, PutOne
<1>5. j \in Jobs(put)
  BY <1>2, <1>4, ItemTask DEF Calm
<1> HIDE DEF put, j
<1>6. Reach(db, Refresh(put, j))
  <2>1. Good(Refresh(put, j)) /\ Calm(put, Refresh(put, j)) /\ Settles(put, Refresh(put, j))
    BY <1>4, <1>5, RefreshGood
  <2>2. Calm(db, Refresh(put, j)) /\ Settles(db, Refresh(put, j))
    BY <1>4, <2>1, CalmAgain, SettlesAgain
  <2> QED BY <2>1, <2>2, CalmReach
<1>7. Reach(db, db)
  BY SameReach
<1>8. Reach(db, db')
  BY <1>3, <1>6, <1>7
<1> QED
  BY <1>1, <1>8, EndsMoves

(* A stored answer that is rejected ends the pass.                         *)
LEMMA AbandonMoves ==
    ASSUME Good(db), ~db.conflict, Passes(db, pass), NEW w \in Workers, Abandon(w)
    PROVE  Moved
<1>1. UNCHANGED db /\ Ends(w)
  BY DEF Abandon
<1>2. Reach(db, db)
  BY SameReach
<1>3. Reach(db, db')
  BY <1>1, <1>2
<1> QED
  BY <1>1, <1>3, EndsMoves

-----------------------------------------------------------------------------
(* Commands of the operator, time and evidence.                            *)

(* Tasks and items are left as they were.                                  *)
LEMMA SameRows ==
    ASSUME NEW d, NEW e, Good(d), ~d.conflict, Good(e),
           e.items = d.items, e.tasks = d.tasks, e.conflict = d.conflict
    PROVE  Reach(d, e)
<1>1. Items(e) = Items(d)
  BY DEF Items
<1>6. Begins(d, e) /\ Stays(d, e)
  BY <1>1 DEF Begins, Stays
<1> QED
  BY <1>1, <1>6 DEF Reach

(* The state of one job, which stays shut where its window is.             *)
LEMMA JobWrite ==
    ASSUME NEW d, Good(d), NEW j \in Jobs(d), NEW state \in JobStates,
           d.windows[j].state # "active" => state \notin {"queued", "running"}
    PROVE  LET e == [d EXCEPT !.jobs[j] = state] IN
           /\ Good(e) /\ e.items = d.items /\ e.tasks = d.tasks /\ e.conflict = d.conflict
<1> DEFINE J == [d.jobs EXCEPT ![j] = state]
           e == [d EXCEPT !.jobs = J]
<1>1. Tables(d)
  BY DEF Good
<1>2. J \in [Jobs(d) -> JobStates] /\ J[j] = state /\ \A k \in Jobs(d) \ {j} : J[k] = d.jobs[k]
  BY <1>1, TablesShape
<1> HIDE DEF J, e
<1>3. e = [kind |-> d.kind, evidence |-> d.evidence, tasks |-> d.tasks, items |-> d.items,
           windows |-> d.windows, jobs |-> J, conflict |-> d.conflict]
  <2>1. e = [d EXCEPT !.jobs = J]
    BY DEF e
  <2>2. d = [kind |-> d.kind, evidence |-> d.evidence, tasks |-> d.tasks, items |-> d.items,
             windows |-> d.windows, jobs |-> d.jobs, conflict |-> d.conflict]
    BY <1>1, TablesShape
  <2> QED BY ONLY <2>1, <2>2
<1>4. /\ Tables(e) /\ Items(e) = Items(d) /\ Jobs(e) = Jobs(d)
      /\ e.tasks = d.tasks /\ e.items = d.items /\ e.windows = d.windows /\ e.jobs = J
      /\ e.conflict = d.conflict
  BY <1>1, <1>2, <1>3, TablesShape, TablesWrite
<1>5. Tried(e) /\ Shut(e) /\ Fits(e)
  <2>1. Shut(e)
    BY <1>2, <1>4 DEF Good, Shut
  <2> QED BY <1>4, <2>1 DEF Good, Tried, Fits, ItemsOf
<1> QED
  BY <1>4, <1>5 DEF Good, e, J

(* The deadline of one window.                                             *)
LEMMA TimeWrite ==
    ASSUME NEW d, Good(d), NEW j \in Jobs(d), NEW time \in {"open", "late", "passed"}
    PROVE  LET e == [d EXCEPT !.windows[j].time = time] IN
           /\ Good(e) /\ e.items = d.items /\ e.tasks = d.tasks /\ e.conflict = d.conflict
<1> DEFINE row == [d.windows[j] EXCEPT !.time = time]
           W == [d.windows EXCEPT ![j] = row]
           e == [d EXCEPT !.windows = W]
<1>1. Tables(d)
  BY DEF Good
<1>2. row \in WindowRow /\ row.state = d.windows[j].state /\ row.room = d.windows[j].room
  <2>1. d.windows[j] \in WindowRow
    BY <1>1, TablesShape
  <2> QED BY <2>1 DEF WindowRow
<1>3. [d EXCEPT !.windows[j].time = time] = e
  OBVIOUS
<1> HIDE DEF row
<1>4. W \in [Jobs(d) -> WindowRow] /\ W[j] = row /\ \A k \in Jobs(d) \ {j} : W[k] = d.windows[k]
  BY <1>1, <1>2, TablesShape
<1> HIDE DEF W
<1>5. e = [kind |-> d.kind, evidence |-> d.evidence, tasks |-> d.tasks, items |-> d.items,
           windows |-> W, jobs |-> d.jobs, conflict |-> d.conflict]
  <2>1. d = [kind |-> d.kind, evidence |-> d.evidence, tasks |-> d.tasks, items |-> d.items,
             windows |-> d.windows, jobs |-> d.jobs, conflict |-> d.conflict]
    BY <1>1, TablesShape
  <2> QED BY ONLY <2>1
<1> HIDE DEF e
<1>6. /\ Tables(e) /\ Items(e) = Items(d) /\ Jobs(e) = Jobs(d)
      /\ e.tasks = d.tasks /\ e.items = d.items /\ e.windows = W /\ e.jobs = d.jobs
      /\ e.conflict = d.conflict
  BY <1>1, <1>4, <1>5, TablesShape, TablesWrite
<1>7. \A k \in Jobs(d) : e.windows[k].state = d.windows[k].state /\ e.windows[k].room = d.windows[k].room
  BY <1>2, <1>4, <1>6
<1>8. Tried(e) /\ Shut(e) /\ Fits(e)
  BY <1>6, <1>7 DEF Good, Tried, Shut, Fits, ItemsOf
<1> QED
  BY <1>3, <1>6, <1>8 DEF Good

(* The same window again: its room is what it had, or what it has.         *)
LEMMA AgainGood ==
    ASSUME NEW d, Good(d), NEW j \in Jobs(d)
    PROVE  LET passed == d.windows[j].time = "passed"
               e == [d EXCEPT
                     !.windows[j].state = "active",
                     !.windows[j].time  = IF passed THEN "open" ELSE @,
                     !.windows[j].room  = IF passed THEN Cardinality(ItemsOf(d, j)) ELSE @,
                     !.jobs[j] = "queued"]
           IN  /\ Good(e) /\ Jobs(e) = Jobs(d)
               /\ e.items = d.items /\ e.tasks = d.tasks /\ e.conflict = d.conflict
<1> DEFINE passed == d.windows[j].time = "passed"
           p == d.windows[j]
           size == Cardinality(ItemsOf(d, j))
           row == [p EXCEPT !.state = "active",
                            !.time = IF passed THEN "open" ELSE @,
                            !.room = IF passed THEN size ELSE @]
           W == [d.windows EXCEPT ![j] = row]
           J == [d.jobs EXCEPT ![j] = "queued"]
           e == [d EXCEPT
                     !.windows[j].state = "active",
                     !.windows[j].time  = IF passed THEN "open" ELSE @,
                     !.windows[j].room  = IF passed THEN size ELSE @,
                     !.jobs[j] = "queued"]
<1>1. Tables(d) /\ p \in WindowRow
  <2>1. Tables(d)
    BY DEF Good
  <2> QED BY <2>1, TablesShape
<1>2. size \in Nat /\ size <= p.room /\ p.room \in 0..ItemLimit
  BY <1>1, FiniteItems DEF WindowRow, Good, Fits
<1> DEFINE time == IF passed THEN "open" ELSE p.time
           room == IF passed THEN size ELSE p.room
<1>3. time \in {"open", "late", "passed"} /\ room \in 0..ItemLimit /\ size <= room
  <2>1. p.time \in {"open", "late", "passed"}
    BY <1>1 DEF WindowRow
  <2>2. ItemLimit \in Nat
    BY WindowsAssumption
  <2> HIDE DEF size, p, passed
  <2> QED BY <1>2, <2>1, <2>2
<1>4. row = [state |-> "active", time |-> time, limit |-> p.limit, room |-> room]
  <2>1. p = [state |-> p.state, time |-> p.time, limit |-> p.limit, room |-> p.room]
    BY <1>1 DEF WindowRow
  <2>2. row = [p EXCEPT !.state = "active", !.time = time, !.room = room]
    OBVIOUS
  <2> HIDE DEF p, row, time, room
  <2> QED BY ONLY <2>1, <2>2
<1>5. row \in WindowRow /\ row.state = "active" /\ row.room = room
  <2>1. p.limit \in Limits
    BY <1>1 DEF WindowRow
  <2> HIDE DEF row, time, room, p
  <2> QED BY <1>3, <1>4, <2>1 DEF WindowRow, WindowStates
<1> HIDE DEF room, time
<1>6. W \in [Jobs(d) -> WindowRow] /\ W[j] = row /\ \A k \in Jobs(d) \ {j} : W[k] = d.windows[k]
  <2> HIDE DEF row
  <2> QED BY <1>1, <1>5, TablesShape
<1>7. J \in [Jobs(d) -> JobStates] /\ \A k \in Jobs(d) \ {j} : J[k] = d.jobs[k]
  BY <1>1, TablesShape DEF JobStates
<1>8. e = [kind |-> d.kind, evidence |-> d.evidence, tasks |-> d.tasks, items |-> d.items,
           windows |-> W, jobs |-> J, conflict |-> d.conflict]
  <2>1. d = [kind |-> d.kind, evidence |-> d.evidence, tasks |-> d.tasks, items |-> d.items,
             windows |-> d.windows, jobs |-> d.jobs, conflict |-> d.conflict]
    BY <1>1, TablesShape
  <2>2. e = [d EXCEPT
                     !.windows[j].state = "active",
                     !.windows[j].time  = IF passed THEN "open" ELSE @,
                     !.windows[j].room  = IF passed THEN size ELSE @,
                     !.jobs[j] = "queued"]
    OBVIOUS
  <2>3. [d.windows EXCEPT ![j].state = "active", ![j].time = IF passed THEN "open" ELSE @,
                          ![j].room = IF passed THEN size ELSE @] = W
    <3>1. d.windows = [k \in Jobs(d) |-> d.windows[k]]
      BY <1>1, TablesShape
    <3> HIDE DEF size, passed
    <3> QED BY ONLY <3>1
  <2> HIDE DEF size, passed, e
  <2>4. e = [kind |-> e.kind, evidence |-> e.evidence, tasks |-> e.tasks, items |-> e.items,
             windows |-> e.windows, jobs |-> e.jobs, conflict |-> e.conflict]
    BY ONLY <2>1, <2>2
  <2>5. /\ e.kind = d.kind /\ e.evidence = d.evidence /\ e.tasks = d.tasks
        /\ e.items = d.items /\ e.conflict = d.conflict /\ e.jobs = J
    BY ONLY <2>1, <2>2
  <2>6. e.windows = [d.windows EXCEPT ![j].state = "active", ![j].time = IF passed THEN "open" ELSE @,
                                      ![j].room = IF passed THEN size ELSE @]
    BY ONLY <2>1, <2>2
  <2>7. e.windows = W
    BY <2>3, <2>6
  <2> QED BY ONLY <2>4, <2>5, <2>7
<1> HIDE DEF e, W, J, row
<1>9. /\ Tables(e) /\ Items(e) = Items(d) /\ Jobs(e) = Jobs(d)
      /\ e.tasks = d.tasks /\ e.items = d.items /\ e.windows = W /\ e.jobs = J
      /\ e.conflict = d.conflict
  BY <1>1, <1>6, <1>7, <1>8, TablesShape, TablesWrite
<1>10. Tried(e)
  BY <1>9 DEF Good, Tried
<1>11. Shut(e)
  BY <1>5, <1>6, <1>7, <1>9 DEF Good, Shut
<1>12. Fits(e)
  <2>1. \A k : ItemsOf(e, k) = ItemsOf(d, k)
    BY <1>9 DEF ItemsOf
  <2>2. size = Cardinality(ItemsOf(d, j))
    OBVIOUS
  <2> HIDE DEF size
  <2> QED BY <1>3, <1>5, <1>6, <1>9, <2>1, <2>2 DEF Good, Fits
<1>13. Good(e)
  BY <1>9, <1>10, <1>11, <1>12 DEF Good
<1> HIDE DEF passed
<1> QED
  BY <1>9, <1>13 DEF e, size, passed

(* startbacklogwindow: a new window with no items and a job of its own.    *)
LEMMA StartMoves ==
    ASSUME Good(db), ~db.conflict, Passes(db, pass), Start
    PROVE  Moved
<1> DEFINE n == Len(db.jobs)
<1>1. PICK limit \in Limits :
        Happens([db EXCEPT !.jobs = Append(@, "queued"),
                           !.windows = Append(@, [state |-> "active", time |-> "open",
                                                  limit |-> limit, room |-> ItemLimit])])
  BY DEF Start
<1> DEFINE row == [state |-> "active", time |-> "open", limit |-> limit, room |-> ItemLimit]
           J == Append(db.jobs, "queued")
           W == Append(db.windows, row)
           e == [db EXCEPT !.jobs = J, !.windows = W]
<1>2. Tables(db)
  BY DEF Good
<1>3. db.jobs \in Seq(JobStates) /\ n \in Nat /\ Jobs(db) = 1..n /\ n < MaxWindows
  <2>1. PICK m \in 0..MaxWindows : Jobs(db) = 1..m
    BY <1>2 DEF Tables
  <2>2. db.jobs \in [1..m -> JobStates]
    BY <1>2, <2>1, TablesShape
  <2>3. db.jobs \in Seq(JobStates) /\ Len(db.jobs) = m
    BY <2>2, WindowsAssumption
  <2> QED BY <2>1, <2>3 DEF Start
<1> HIDE DEF n
<1>4. db.windows \in Seq(WindowRow) /\ Len(db.windows) = n
  <2>1. db.windows \in [1..n -> WindowRow]
    BY <1>2, <1>3, TablesShape
  <2> QED BY <1>3, <2>1
<1>5. row \in WindowRow /\ row.state = "active" /\ row.room = ItemLimit
  BY WindowsAssumption DEF WindowRow, WindowStates
<1> HIDE DEF row
<1>6. /\ J \in [1..(n + 1) -> JobStates] /\ \A k \in 1..n : J[k] = db.jobs[k]
  <2>1. J \in Seq(JobStates) /\ Len(J) = n + 1
    BY <1>3 DEF n, JobStates
  <2>2. \A k \in 1..n : J[k] = db.jobs[k]
    BY <1>3 DEF n
  <2> HIDE DEF J
  <2> QED BY <1>3, <2>1, <2>2
<1>7. /\ W \in [1..(n + 1) -> WindowRow] /\ W[n + 1] = row /\ \A k \in 1..n : W[k] = db.windows[k]
  <2>1. W \in Seq(WindowRow) /\ Len(W) = n + 1
    BY <1>4, <1>5
  <2>2. W[n + 1] = row /\ \A k \in 1..n : W[k] = db.windows[k]
    BY <1>4
  <2> HIDE DEF W
  <2> QED BY <1>3, <2>1, <2>2
<1> HIDE DEF J, W, e
<1>8. e = [kind |-> db.kind, evidence |-> db.evidence, tasks |-> db.tasks, items |-> db.items,
           windows |-> W, jobs |-> J, conflict |-> db.conflict]
  <2>1. db = [kind |-> db.kind, evidence |-> db.evidence, tasks |-> db.tasks, items |-> db.items,
              windows |-> db.windows, jobs |-> db.jobs, conflict |-> db.conflict]
    BY <1>2, TablesShape
  <2>2. e = [db EXCEPT !.jobs = J, !.windows = W]
    BY DEF e
  <2> QED BY ONLY <2>1, <2>2
<1>9. /\ e.kind = db.kind /\ e.evidence = db.evidence /\ e.tasks = db.tasks /\ e.items = db.items
      /\ e.windows = W /\ e.jobs = J /\ e.conflict = db.conflict
      /\ Items(e) = Items(db) /\ Jobs(e) = 1..(n + 1)
  BY <1>6, <1>8 DEF Items, Jobs
<1>10. Tables(e)
  <2>1. db.items \in [Items(db) -> ItemRow(1..n)] /\ 1..n \subseteq 1..(n + 1)
    BY <1>2, <1>3, TablesShape
  <2>2. e.items \in [Items(e) -> ItemRow(Jobs(e))]
    <3>1. ItemRow(1..n) \subseteq ItemRow(1..(n + 1))
      BY <2>1 DEF ItemRow
    <3> QED BY <1>9, <2>1, <3>1
  <2>3. n + 1 \in 0..MaxWindows
    BY <1>3, WindowsAssumption
  <2>4. /\ e = [kind |-> e.kind, evidence |-> e.evidence, tasks |-> e.tasks, items |-> e.items,
                windows |-> e.windows, jobs |-> e.jobs, conflict |-> e.conflict]
    BY <1>8, <1>9
  <2>5. e.jobs \in [Jobs(e) -> JobStates] /\ e.windows \in [Jobs(e) -> WindowRow]
    BY <1>6, <1>7, <1>9
  <2>6. \E m \in 0..MaxWindows : Jobs(e) = 1..m
    BY <1>9, <2>3
  <2> QED BY <1>2, <1>9, <2>2, <2>4, <2>5, <2>6 DEF Tables
<1>11. Tried(e)
  BY <1>9 DEF Good, Tried
<1>12. Shut(e)
  <2> SUFFICES ASSUME NEW k \in 1..(n + 1), e.windows[k].state # "active"
               PROVE  e.jobs[k] \notin {"queued", "running"}
    BY <1>9 DEF Shut
  <2>1. k \in 1..n
    BY <1>3, <1>5, <1>7, <1>9
  <2> QED BY <1>3, <1>6, <1>7, <1>9, <2>1 DEF Good, Shut
<1>13. Fits(e)
  <2> SUFFICES ASSUME NEW k \in 1..(n + 1) PROVE Cardinality(ItemsOf(e, k)) <= e.windows[k].room
    BY <1>9 DEF Fits
  <2>1. ItemsOf(e, k) = ItemsOf(db, k)
    BY <1>9 DEF ItemsOf
  <2>2. CASE k \in 1..n
    BY <1>3, <1>7, <1>9, <2>1, <2>2 DEF Good, Fits
  <2>3. CASE k = n + 1
    <3>1. \A i \in Items(db) : db.items[i].job \in 1..n
      BY <1>3, ItemTask
    <3>2. ItemsOf(db, k) = {}
      BY <1>3, <2>3, <3>1 DEF ItemsOf
    <3>3. Cardinality(ItemsOf(db, k)) = 0
      BY <3>2, FS_EmptySet
    <3> QED BY <1>5, <1>7, <1>9, <2>1, <2>3, <3>3, WindowsAssumption
  <2> QED BY <1>3, <2>2, <2>3
<1>14. Reach(db, e)
  BY <1>9, <1>10, <1>11, <1>12, <1>13, SameRows DEF Good
<1>15. db' = e /\ UNCHANGED pass
  BY <1>1 DEF Happens, e, J, W, row
<1> QED
  BY <1>14, <1>15, StayMoves

(* _jobstate to paused.                                                    *)
LEMMA PauseMoves ==
    ASSUME Good(db), ~db.conflict, Passes(db, pass), NEW j \in Jobs(db), Pause(j)
    PROVE  Moved
<1> DEFINE e == [db EXCEPT !.jobs[j] = "paused"]
<1>1. db' = e /\ UNCHANGED pass
  BY DEF Pause, Commanded
<1>2. Good(e) /\ e.items = db.items /\ e.tasks = db.tasks /\ e.conflict = db.conflict
  <2>1. "paused" \in JobStates /\ "paused" \notin {"queued", "running"}
    BY DEF JobStates
  <2> QED BY <2>1, JobWrite
<1> HIDE DEF e
<1>3. Reach(db, e)
  BY <1>2, SameRows
<1> QED
  BY <1>1, <1>3, StayMoves

(* _jobstate to queued, under an active window only.                       *)
LEMMA ResumeMoves ==
    ASSUME Good(db), ~db.conflict, Passes(db, pass), NEW j \in Jobs(db), Resume(j)
    PROVE  Moved
<1> DEFINE e == [db EXCEPT !.jobs[j] = "queued"]
<1>1. db' = e /\ UNCHANGED pass /\ db.windows[j].state = "active"
  BY DEF Resume, Commanded
<1>2. Good(e) /\ e.items = db.items /\ e.tasks = db.tasks /\ e.conflict = db.conflict
  <2>1. "queued" \in JobStates
    BY DEF JobStates
  <2> QED BY <1>1, <2>1, JobWrite
<1> HIDE DEF e
<1>3. Reach(db, e)
  BY <1>2, SameRows
<1> QED
  BY <1>1, <1>3, StayMoves

(* continuebacklogwindow.                                                  *)
LEMMA ContinueMoves ==
    ASSUME Good(db), ~db.conflict, Passes(db, pass), NEW j \in Jobs(db), Continue(j)
    PROVE  Moved
<1> DEFINE passed == db.windows[j].time = "passed"
           c == [db EXCEPT
                     !.windows[j].state = "active",
                     !.windows[j].time  = IF passed THEN "open" ELSE @,
                     !.windows[j].room  = IF passed THEN Cardinality(ItemsOf(db, j)) ELSE @,
                     !.jobs[j] = "queued"]
           e == Refresh(c, j)
<1>1. db' = e /\ UNCHANGED pass
  BY DEF Continue, Commanded
<1>2. /\ Good(c) /\ Jobs(c) = Jobs(db)
      /\ c.items = db.items /\ c.tasks = db.tasks /\ c.conflict = db.conflict
  BY AgainGood
<1> HIDE DEF c
<1>3. Good(e) /\ Calm(c, e) /\ e.tasks = c.tasks /\ e.items = c.items
  BY <1>2, RefreshGood
<1> HIDE DEF e
<1>4. Reach(db, e)
  BY <1>2, <1>3, SameRows DEF Calm
<1> QED
  BY <1>1, <1>4, StayMoves

(* setbacklogdeadline.                                                     *)
LEMMA SetDeadlineMoves ==
    ASSUME Good(db), ~db.conflict, Passes(db, pass), NEW j \in Jobs(db), SetDeadline(j)
    PROVE  Moved
<1> DEFINE e == [db EXCEPT !.windows[j].time = "open"]
<1>1. db' = e /\ UNCHANGED pass
  BY DEF SetDeadline, Commanded
<1>2. Good(e) /\ e.items = db.items /\ e.tasks = db.tasks /\ e.conflict = db.conflict
  BY TimeWrite
<1> HIDE DEF e
<1>3. Reach(db, e)
  BY <1>2, SameRows
<1> QED
  BY <1>1, <1>3, StayMoves

(* Time passes.                                                            *)
LEMMA ElapseMoves ==
    ASSUME Good(db), ~db.conflict, Passes(db, pass), NEW j \in Jobs(db), Elapse(j)
    PROVE  Moved
<1> DEFINE time == IF db.windows[j].time = "open" THEN "late" ELSE "passed"
           e == [db EXCEPT !.windows[j].time = time]
<1>1. db' = e /\ UNCHANGED pass
  BY DEF Elapse, Happens
<1>2. time \in {"open", "late", "passed"}
  OBVIOUS
<1> HIDE DEF time
<1>3. Good(e) /\ e.items = db.items /\ e.tasks = db.tasks /\ e.conflict = db.conflict
  BY <1>2, TimeWrite
<1> HIDE DEF e
<1>4. Reach(db, e)
  BY <1>3, SameRows
<1> QED
  BY <1>1, <1>4, StayMoves

(* The evidence of a question grows, which makes its tasks stale.          *)
LEMMA EvidenceMoves ==
    ASSUME Good(db), ~db.conflict, Passes(db, pass), NEW q \in Questions, EvidenceChanges(q)
    PROVE  Moved
<1> DEFINE E == [db.evidence EXCEPT ![q] = @ + 1]
           e == [db EXCEPT !.evidence = E]
<1>1. db' = e /\ UNCHANGED pass /\ db.evidence[q] < Versions
  BY DEF EvidenceChanges, Happens
<1>2. Tables(db)
  BY DEF Good
<1>3. E \in [Questions -> 1..Versions]
  <2>1. db.evidence \in [Questions -> 1..Versions]
    BY <1>2 DEF Tables
  <2> QED BY <1>1, <2>1, WindowsAssumption
<1> HIDE DEF E, e
<1>4. e = [kind |-> db.kind, evidence |-> E, tasks |-> db.tasks, items |-> db.items,
           windows |-> db.windows, jobs |-> db.jobs, conflict |-> db.conflict]
  <2>1. db = [kind |-> db.kind, evidence |-> db.evidence, tasks |-> db.tasks, items |-> db.items,
              windows |-> db.windows, jobs |-> db.jobs, conflict |-> db.conflict]
    BY <1>2, TablesShape
  <2>2. e = [db EXCEPT !.evidence = E]
    BY DEF e
  <2> QED BY ONLY <2>1, <2>2
<1>5. Items(e) = Items(db) /\ Jobs(e) = Jobs(db)
  BY <1>4 DEF Items, Jobs
<1>6. Tables(e)
  BY <1>2, <1>3, <1>4, <1>5 DEF Tables
<1>7. Tried(e) /\ Shut(e) /\ Fits(e)
  BY <1>4, <1>5 DEF Good, Tried, Shut, Fits, ItemsOf
<1>8. Reach(db, e)
  BY <1>4, <1>6, <1>7, SameRows DEF Good
<1> QED
  BY <1>1, <1>8, StayMoves

(* A worker is killed: its item stays as it is until its lease is          *)
(* recovered.                                                              *)
LEMMA CrashMoves ==
    ASSUME Good(db), ~db.conflict, Passes(db, pass), NEW w \in Workers, Crash(w)
    PROVE  Moved
<1>1. Reach(db, db)
  BY SameReach
<1>2. db' = db /\ pass' = [pass EXCEPT ![w] = Idle]
  BY DEF Crash
<1>3. Reach(db, db')
  BY <1>1, <1>2
<1>4. Passes(db', [pass EXCEPT ![w] = Idle])
  BY <1>3, ReachTables, EndsHere
<1> QED
  BY <1>2, <1>3, <1>4 DEF Moved

(* requestcancel: open items are cancelled, running ones are asked to      *)
(* stop.                                                                   *)
LEMMA CancelMoves ==
    ASSUME Good(db), ~db.conflict, Passes(db, pass), NEW j \in Jobs(db), Cancel(j)
    PROVE  Moved
<1> DEFINE put == WithItems(db, QueuedOf(db, j), "cancelled")
           new(i) == IF i \in ItemsOf(db, j) /\ put.items[i].state = "running"
                     THEN [put.items[i] EXCEPT !.state = "cancel_requested"] ELSE put.items[i]
           I == [i \in Items(db) |-> new(i)]
           J == [put.jobs EXCEPT ![j] = "cancel_requested"]
           asked == [put EXCEPT
                       !.jobs[j] = "cancel_requested",
                       !.items   = [i \in Items(db) |->
                                      IF i \in ItemsOf(db, j) /\ @[i].state = "running"
                                      THEN [@[i] EXCEPT !.state = "cancel_requested"] ELSE @[i]]]
           e == Refresh(asked, j)
<1>1. db' = e /\ UNCHANGED pass
  BY DEF Cancel, Commanded
<1>2. /\ Good(put) /\ Calm(db, put) /\ Settles(db, put)
      /\ put.tasks = db.tasks /\ put.windows = db.windows /\ put.jobs = db.jobs
  <2>1. QueuedOf(db, j) \in SUBSET Items(db) /\ "cancelled" \in ItemStates \ OwnedItem
        /\ "cancelled" # "queued"
    BY DEF QueuedOf, ItemsOf, ItemStates, OwnedItem
  <2>2. LET c == WithItems(db, QueuedOf(db, j), "cancelled") IN
        /\ Good(c) /\ Calm(db, c) /\ Settles(db, c)
        /\ c.tasks = db.tasks /\ c.windows = db.windows /\ c.jobs = db.jobs
    BY <2>1, PutCalm
  <2> QED BY <2>2
<1> HIDE DEF put
<1>3. Tables(put) /\ Items(put) = Items(db) /\ Jobs(put) = Jobs(db)
  BY <1>2 DEF Good, Calm
<1>4. \A i \in Items(db) :
        /\ new(i) \in ItemRow(Jobs(put)) /\ new(i).job = put.items[i].job
        /\ new(i).owner = put.items[i].owner /\ new(i).tries = put.items[i].tries
        /\ \/ new(i).state = put.items[i].state
           \/ put.items[i].state = "running" /\ new(i).state = "cancel_requested"
  <2> SUFFICES ASSUME NEW i \in Items(db)
               PROVE  /\ new(i) \in ItemRow(Jobs(put)) /\ new(i).job = put.items[i].job
                      /\ new(i).owner = put.items[i].owner /\ new(i).tries = put.items[i].tries
                      /\ \/ new(i).state = put.items[i].state
                         \/ put.items[i].state = "running" /\ new(i).state = "cancel_requested"
    OBVIOUS
  <2>1. put.items[i] \in ItemRow(Jobs(put))
    BY <1>3, TablesShape
  <2> DEFINE p == put.items[i]
             c == [p EXCEPT !.state = "cancel_requested"]
  <2>2. /\ c \in ItemRow(Jobs(put)) /\ c.job = p.job /\ c.owner = p.owner /\ c.tries = p.tries
        /\ c.state = "cancel_requested"
    BY <2>1 DEF ItemRow, ItemStates
  <2>3. new(i) = IF i \in ItemsOf(db, j) /\ p.state = "running" THEN c ELSE p
    OBVIOUS
  <2> HIDE DEF c, new
  <2> QED BY <2>1, <2>2, <2>3
<1> HIDE DEF new
<1>5. I \in [Items(put) -> ItemRow(Jobs(put))] /\ \A i \in Items(db) : I[i] = new(i)
  BY <1>3, <1>4
<1>6. /\ J \in [Jobs(put) -> JobStates] /\ J[j] = "cancel_requested"
      /\ \A k \in Jobs(db) \ {j} : J[k] = db.jobs[k]
  BY <1>2, <1>3, TablesShape DEF JobStates
<1>7. asked = [kind |-> put.kind, evidence |-> put.evidence, tasks |-> put.tasks, items |-> I,
               windows |-> put.windows, jobs |-> J, conflict |-> put.conflict]
  <2>1. put = [kind |-> put.kind, evidence |-> put.evidence, tasks |-> put.tasks, items |-> put.items,
               windows |-> put.windows, jobs |-> put.jobs, conflict |-> put.conflict]
    BY <1>3, TablesShape
  <2>2. asked = [put EXCEPT !.jobs = J, !.items = I]
    BY DEF new
  <2> HIDE DEF asked, I, J
  <2> QED BY ONLY <2>1, <2>2
<1> HIDE DEF asked, I, J
<1>8. /\ Tables(asked) /\ Items(asked) = Items(db) /\ Jobs(asked) = Jobs(db)
      /\ asked.tasks = put.tasks /\ asked.items = I /\ asked.windows = put.windows /\ asked.jobs = J
      /\ asked.kind = put.kind /\ asked.evidence = put.evidence /\ asked.conflict = put.conflict
  BY <1>3, <1>5, <1>6, <1>7, TablesShape, TablesWrite
<1>9. Calm(put, asked)
  BY <1>3, <1>4, <1>5, <1>8 DEF Calm, ActiveItem
<1>10. Settles(put, asked)
  BY <1>8 DEF Settles
<1>11. Tried(asked)
  <2>1. \A i \in Items(put) : put.items[i].state \in OwnedItem => put.items[i].tries >= 1
    BY <1>2 DEF Good, Tried
  <2> QED BY <1>3, <1>4, <1>5, <1>8, <2>1 DEF Tried, OwnedItem
<1>12. Shut(asked)
  BY <1>2, <1>6, <1>8 DEF Good, Shut
<1>13. Good(asked)
  BY <1>2, <1>8, <1>9, <1>11, <1>12, CalmFits DEF Good
<1>14. Good(e) /\ Calm(asked, e) /\ Settles(asked, e)
  BY <1>8, <1>13, RefreshGood
<1> HIDE DEF e
<1>15. Calm(db, e) /\ Settles(db, e)
  <2>1. Calm(db, asked) /\ Settles(db, asked)
    BY <1>2, <1>9, <1>10, CalmAgain, SettlesAgain
  <2> QED BY <1>14, <2>1, CalmAgain, SettlesAgain
<1>16. Reach(db, e)
  BY <1>14, <1>15, CalmReach
<1> QED
  BY <1>1, <1>16, StayMoves

(* requestbacklogretry.                                                    *)
LEMMA RetryMoves ==
    ASSUME Good(db), ~db.conflict, Passes(db, pass), NEW t \in Tasks, Retry(t)
    PROVE  Moved
<1> DEFINE row == [db.tasks[t] EXCEPT !.request = IF @ = "none" THEN "ready" ELSE @]
           c == [db EXCEPT !.tasks = [db.tasks EXCEPT ![t] = row]]
           e == Reconsidered(c, {t}, Jobs(db))
<1>1. db' = e /\ UNCHANGED pass
  BY DEF Retry, Commanded
<1>2. Tables(db)
  BY DEF Good
<1>3. row \in TaskRow /\ row.count = db.tasks[t].count /\ row.state = db.tasks[t].state
  <2>1. db.tasks[t] \in TaskRow
    BY <1>2, TablesShape
  <2> QED BY <2>1 DEF TaskRow
<1> HIDE DEF row
<1>4. /\ Good(c) /\ Calm(db, c)
      /\ c.tasks[t] = row /\ \A u \in Tasks \ {t} : c.tasks[u] = db.tasks[u]
  BY <1>2, <1>3, TaskWrite
<1> HIDE DEF c
<1>5. Settles(db, c)
  BY <1>3, <1>4 DEF Settles
<1>6. Good(e) /\ Calm(c, e) /\ Settles(c, e)
  <2>1. Tables(c)
    BY <1>4 DEF Good
  <2> QED BY <1>4, <2>1, RetriesCalm
<1> HIDE DEF e
<1>7. Calm(db, e) /\ Settles(db, e)
  BY <1>4, <1>5, <1>6, CalmAgain, SettlesAgain
<1>8. Reach(db, e)
  BY <1>6, <1>7, CalmReach
<1> QED
  BY <1>1, <1>8, StayMoves

(* An earliest date is reached.                                            *)
LEMMA DueMoves ==
    ASSUME Good(db), ~db.conflict, Passes(db, pass), NEW t \in Tasks, DueArrives(t)
    PROVE  Moved
<1> DEFINE row == [db.tasks[t] EXCEPT !.delayed = FALSE]
           e == [db EXCEPT !.tasks = [db.tasks EXCEPT ![t] = row]]
<1>1. db' = e /\ UNCHANGED pass
  BY DEF DueArrives, Happens
<1>2. Tables(db)
  BY DEF Good
<1>3. row \in TaskRow /\ row.count = db.tasks[t].count /\ row.state = db.tasks[t].state
  <2>1. db.tasks[t] \in TaskRow
    BY <1>2, TablesShape
  <2> QED BY <2>1 DEF TaskRow
<1> HIDE DEF row
<1>4. /\ Good(e) /\ Calm(db, e)
      /\ e.tasks[t] = row /\ \A u \in Tasks \ {t} : e.tasks[u] = db.tasks[u]
  BY <1>2, <1>3, TaskWrite
<1> HIDE DEF e
<1>5. Settles(db, e)
  BY <1>3, <1>4 DEF Settles
<1>6. Reach(db, e)
  BY <1>4, <1>5, CalmReach
<1> QED
  BY <1>1, <1>6, StayMoves

(* A lease ends.                                                           *)
LEMMA LeaseMoves ==
    ASSUME Good(db), ~db.conflict, Passes(db, pass), NEW i \in Items(db), LeaseEnds(i)
    PROVE  Moved
<1> DEFINE row == [db.items[i] EXCEPT !.live = FALSE]
           e == [db EXCEPT !.items = [db.items EXCEPT ![i] = row]]
<1>1. db' = e /\ UNCHANGED pass
  BY DEF LeaseEnds
<1>2. Tables(db)
  BY DEF Good
<1>3. /\ row \in ItemRow(Jobs(db)) /\ row.job = db.items[i].job /\ row.state = db.items[i].state
      /\ row.owner = db.items[i].owner /\ row.tries = db.items[i].tries
  <2>1. db.items[i] \in ItemRow(Jobs(db))
    BY <1>2, TablesShape
  <2> QED BY <2>1 DEF ItemRow
<1>4. row.state \in OwnedItem => row.tries >= 1
  BY <1>3 DEF Good, Tried
<1> HIDE DEF row
<1>5. Good(e) /\ Calm(db, e) /\ Settles(db, e)
  BY <1>3, <1>4, ItemWrite
<1> HIDE DEF e
<1>6. Reach(db, e)
  BY <1>5, CalmReach
<1> QED
  BY <1>1, <1>6, StayMoves

(* tickbacklogwindow.                                                      *)
LEMMA CheckpointMoves ==
    ASSUME Good(db), ~db.conflict, Passes(db, pass), NEW j \in Jobs(db), Checkpoint(j)
    PROVE  Moved
<1>1. db' \in Ticked(db, j) /\ UNCHANGED pass
  BY DEF Checkpoint
<1>2. Step(db, db')
  BY <1>1, TickedStep
<1>3. Reach(db, db')
  BY <1>2, StepReach
<1> QED
  BY <1>1, <1>3, StayMoves

(* Every action is such a transaction.                                     *)
LEMMA NextMoves ==
    ASSUME Good(db), ~db.conflict, Passes(db, pass), Next
    PROVE  Moved
<1>1. ASSUME NEW j \in Jobs(db), Checkpoint(j) PROVE Moved
  BY <1>1, CheckpointMoves
<1>2. ASSUME NEW w \in Workers, WorkerStep(w) PROVE Moved
  BY <1>2, ClaimMoves, CheckMoves, ReserveMoves, AnswerMoves, DecideMoves, PublishMoves,
     AbandonMoves, FailMoves, LeaveMoves DEF WorkerStep
<1>3. ASSUME Operator PROVE Moved
  BY <1>3, StartMoves, PauseMoves, ResumeMoves, CancelMoves, ContinueMoves, SetDeadlineMoves,
     RetryMoves DEF Operator
<1>4. ASSUME Environment PROVE Moved
  BY <1>4, EvidenceMoves, DueMoves, ElapseMoves, CrashMoves, LeaseMoves DEF Environment
<1> QED
  BY <1>1, <1>2, <1>3, <1>4 DEF Next

-----------------------------------------------------------------------------
(* The theorems.                                                           *)

(* The invariant.                                                          *)
Sane ==
    /\ Good(db) /\ ~db.conflict /\ Passes(db, pass)
    /\ commands \in 0..MaxCommands /\ faults \in 0..MaxFaults

(* The library before the first window.                                    *)
LEMMA InitSane ==
    ASSUME Init PROVE Sane
<1> DEFINE task == [state |-> "none", count |-> 0, paid |-> 0,
                    delayed |-> FALSE, request |-> "none"]
<1>1. PICK k \in [Questions -> {"resolution", "extraction"}] :
         db = [kind     |-> k,
               evidence |-> [q \in Questions |-> 1],
               tasks    |-> [t \in Tasks |-> task],
               items    |-> <<>>,
               windows  |-> <<>>,
               jobs     |-> <<>>,
               conflict |-> FALSE]
  BY DEF Init
<1>2. task \in TaskRow
  BY LargestLimit DEF TaskRow, TaskStates
<1> HIDE DEF task
<1>3. /\ db = [kind |-> db.kind, evidence |-> db.evidence, tasks |-> db.tasks, items |-> db.items,
               windows |-> db.windows, jobs |-> db.jobs, conflict |-> db.conflict]
      /\ db.kind = k /\ db.evidence = [q \in Questions |-> 1] /\ db.tasks = [t \in Tasks |-> task]
      /\ db.items = <<>> /\ db.windows = <<>> /\ db.jobs = <<>> /\ db.conflict = FALSE
  BY <1>1
<1>4. Items(db) = {} /\ Jobs(db) = {} /\ Jobs(db) = 1..0
  BY <1>3 DEF Items, Jobs
<1>5. Tables(db)
  <2>1. /\ db.items \in [Items(db) -> ItemRow(Jobs(db))] /\ db.jobs \in [Jobs(db) -> JobStates]
        /\ db.windows \in [Jobs(db) -> WindowRow]
    BY <1>3, <1>4
  <2>2. IsFiniteSet(Items(db)) /\ Items(db) \in SUBSET (Tasks \X Nat)
    BY <1>4, FS_EmptySet
  <2>3. db.evidence \in [Questions -> 1..Versions]
    BY <1>3, WindowsAssumption
  <2>4. 0 \in 0..MaxWindows
    BY WindowsAssumption
  <2>5. \E n \in 0..MaxWindows : Jobs(db) = 1..n
    BY <1>4, <2>4
  <2>6. db.tasks \in [Tasks -> TaskRow]
    BY <1>2, <1>3
  <2>7. db.kind \in [Questions -> {"resolution", "extraction"}] /\ db.conflict \in BOOLEAN
    BY <1>3
  <2> QED BY <1>3, <2>1, <2>2, <2>3, <2>5, <2>6, <2>7 DEF Tables
<1>6. Tried(db) /\ Shut(db) /\ Fits(db)
  BY <1>4 DEF Tried, Shut, Fits
<1>7. Passes(db, pass)
  BY DEF Init, Passes, Placed, PassRow, Idle, Stages
<1>8. commands \in 0..MaxCommands /\ faults \in 0..MaxFaults
  BY WindowsAssumption DEF Init
<1> QED
  BY <1>3, <1>5, <1>6, <1>7, <1>8 DEF Sane, Good

(* Commands and faults stay within their bounds.                           *)
LEMMA Spent ==
    ASSUME commands \in 0..MaxCommands, faults \in 0..MaxFaults, [Next]_vars
    PROVE  commands' \in 0..MaxCommands /\ faults' \in 0..MaxFaults
<1>0. MaxCommands \in Nat /\ MaxFaults \in Nat
  BY WindowsAssumption
<1>1. ASSUME NEW d, Commanded(d) PROVE commands' \in 0..MaxCommands /\ faults' \in 0..MaxFaults
  BY <1>0, <1>1 DEF Commanded
<1>2. ASSUME NEW d, Happens(d) PROVE commands' \in 0..MaxCommands /\ faults' \in 0..MaxFaults
  BY <1>2 DEF Happens
<1>3. ASSUME UNCHANGED <<commands, faults>> PROVE commands' \in 0..MaxCommands /\ faults' \in 0..MaxFaults
  BY <1>3
<1>4. ASSUME NEW j \in Jobs(db), Checkpoint(j) PROVE commands' \in 0..MaxCommands /\ faults' \in 0..MaxFaults
  BY <1>4 DEF Checkpoint
<1>5. ASSUME NEW w \in Workers, WorkerStep(w) PROVE UNCHANGED <<commands, faults>>
  <2>1. Goes(w, "leaving") \/ Ends(w) => UNCHANGED <<commands, faults>>
    BY DEF Goes, Ends
  <2>2. Leaves(w) => UNCHANGED <<commands, faults>>
    BY <2>1 DEF Leaves
  <2>3. Claim(w) => UNCHANGED <<commands, faults>>
    BY DEF Claim
  <2>4. Check(w) => UNCHANGED <<commands, faults>>
    BY <2>2 DEF Check, Goes, Ends
  <2>5. Reserve(w) => UNCHANGED <<commands, faults>>
    BY <2>2 DEF Reserve, Recalls, Goes, Ends
  <2>6. Answer(w) => UNCHANGED <<commands, faults>>
    BY DEF Answer, Goes
  <2>7. Decide(w) => UNCHANGED <<commands, faults>>
    BY <2>2 DEF Decide, Ends
  <2>8. Publish(w) => UNCHANGED <<commands, faults>>
    BY <2>2 DEF Publish, Ends
  <2>9. Abandon(w) \/ Leave(w) => UNCHANGED <<commands, faults>>
    BY DEF Abandon, Leave, Ends
  <2>10. Fail(w) => UNCHANGED <<commands, faults>>
    BY <2>2 DEF Fail, Ends
  <2> QED BY <1>5, <2>3, <2>4, <2>5, <2>6, <2>7, <2>8, <2>9, <2>10 DEF WorkerStep
<1>6. ASSUME Operator PROVE commands' \in 0..MaxCommands /\ faults' \in 0..MaxFaults
  BY <1>1, <1>2, <1>6 DEF Operator, Start, Pause, Resume, Cancel, Continue, SetDeadline, Retry
<1>7. ASSUME NEW w \in Workers, Crash(w) PROVE commands' \in 0..MaxCommands /\ faults' \in 0..MaxFaults
  BY <1>0, <1>7 DEF Crash
<1>8. ASSUME NEW i \in Items(db), LeaseEnds(i) PROVE commands' \in 0..MaxCommands /\ faults' \in 0..MaxFaults
  BY <1>0, <1>8 DEF LeaseEnds
<1>9. ASSUME Environment PROVE commands' \in 0..MaxCommands /\ faults' \in 0..MaxFaults
  BY <1>2, <1>7, <1>8, <1>9 DEF Environment, EvidenceChanges, DueArrives, Elapse
<1>10. ASSUME UNCHANGED vars PROVE commands' \in 0..MaxCommands /\ faults' \in 0..MaxFaults
  BY <1>10 DEF vars
<1> QED
  BY <1>3, <1>4, <1>5, <1>6, <1>9, <1>10 DEF Next

(* A step of the system or none.                                           *)
LEMMA SaneReach ==
    ASSUME Sane, [Next]_vars PROVE Reach(db, db') /\ Passes(db', pass')
<1>1. CASE Next
  BY <1>1, NextMoves DEF Sane, Moved
<1>2. CASE UNCHANGED vars
  <2>1. db' = db /\ pass' = pass
    BY <1>2 DEF vars
  <2>2. Reach(db, db) /\ Passes(db, pass)
    BY SameReach DEF Sane
  <2> QED BY <2>1, <2>2
<1> QED
  BY <1>1, <1>2

(* The invariant is inductive.                                             *)
LEMMA SaneStep ==
    ASSUME Sane, [Next]_vars PROVE Sane'
<1>1. Reach(db, db') /\ Passes(db', pass')
  BY SaneReach
<1>2. commands' \in 0..MaxCommands /\ faults' \in 0..MaxFaults
  BY Spent DEF Sane
<1>3. Good(db') /\ ~db'.conflict
  BY <1>1 DEF Reach
<1> QED
  BY <1>1, <1>2, <1>3 DEF Sane

(* Whatever workers, operators, evidence and time do: the tables hold      *)
(* values of their columns, an owned item was claimed, the job of a window *)
(* that is not active cannot be claimed from (_closewindow,                *)
(* refreshlifecyclejob), a window has no more items than its item_limit    *)
(* (_dispatch), a checkpoint that cannot insert an attempt leaves nothing  *)
(* behind, and the pass of a worker has an item that exists.               *)
THEOREM WindowsSane == Spec => []Sane
<1>1. Init => Sane
  BY InitSane
<1>2. Sane /\ [Next]_vars => Sane'
  BY SaneStep
<1> QED
  BY <1>1, <1>2, PTL DEF Spec

(* claimnext does not look at windows, and still a worker claims an item   *)
(* only while the window of its job is active, for every number of         *)
(* windows, workers and attempts.                                          *)
THEOREM WorkBeginsInActiveWindow == Spec => ClaimsInActiveWindow
<1>1. Sane /\ [Next]_vars
        => [\A i \in Items(db') :
              LET begun == i \notin Items(db) \/ db.items[i].owner # db'.items[i].owner
              IN  db'.items[i].state = "running" /\ begun
                     => db'.windows[db'.items[i].job].state = "active"]_vars
  <2> SUFFICES ASSUME Sane, [Next]_vars
               PROVE  \A i \in Items(db') :
                        LET begun == i \notin Items(db) \/ db.items[i].owner # db'.items[i].owner
                        IN  db'.items[i].state = "running" /\ begun
                               => db'.windows[db'.items[i].job].state = "active"
    OBVIOUS
  <2>1. Begins(db, db')
    BY SaneReach DEF Reach
  <2> QED BY <2>1 DEF Begins
<1> QED
  BY <1>1, WindowsSane, PTL DEF Spec, ClaimsInActiveWindow

(* The invariant gives the types.                                          *)
LEMMA SaneTypes ==
    ASSUME Sane PROVE TypeOK
<1>1. Tables(db) /\ Passes(db, pass)
  BY DEF Sane, Good
<1>2. /\ db.kind \in [Questions -> {"resolution", "extraction"}]
      /\ db.evidence \in [Questions -> 1..Versions]
      /\ db.tasks \in [Tasks -> TaskRow]
  BY <1>1 DEF Tables
<1>3. ASSUME NEW i \in Items(db) PROVE db.items[i] \in ItemRow(Jobs(db))
  BY <1>1, TablesShape
<1>8. Items(db) \subseteq Tasks \X Nat
  BY <1>1 DEF Tables
<1>4. Len(db.windows) = Len(db.jobs) /\ Len(db.jobs) \in 0..MaxWindows
  <2>1. PICK n \in 0..MaxWindows : Jobs(db) = 1..n
    BY <1>1 DEF Tables
  <2>2. db.jobs \in [1..n -> JobStates] /\ db.windows \in [1..n -> WindowRow] /\ n \in Nat
    BY <1>1, <2>1, TablesShape, WindowsAssumption
  <2>3. Len(db.jobs) = n /\ Len(db.windows) = n
    BY <2>2
  <2> QED BY <2>3
<1>5. \A j \in Jobs(db) : db.jobs[j] \in JobStates /\ db.windows[j] \in WindowRow
  BY <1>1, TablesShape
<1>6. \A w \in Workers :
         /\ pass[w].at \in Stages
         /\ IF pass[w].at = "idle" THEN pass[w] = Idle
            ELSE pass[w].item \in Items(db) /\ pass[w].answer \in Items(db)
  BY <1>1 DEF Passes, Placed, PassRow
<1>7. ~db.conflict /\ commands \in 0..MaxCommands /\ faults \in 0..MaxFaults
  BY DEF Sane
<1> QED
  BY <1>2, <1>3, <1>4, <1>5, <1>6, <1>7, <1>8 DEF TypeOK, TaskRow, ItemRow, WindowRow, Stages

(* Whatever happens, and however many items a dispatch sends for one       *)
(* question, every table holds values of its columns: an item never gives  *)
(* back a claim it has not used (_deferuncalledclaim), and a window that   *)
(* is continued past its deadline has no more room than it had             *)
(* (preparecontinuation).                                                  *)
THEOREM TypesHold == Spec => []TypeOK
<1>1. Sane => TypeOK
  BY SaneTypes
<1> QED
  BY <1>1, WindowsSane, PTL

(* A resolved task without an open item stays resolved, for every number   *)
(* of questions, versions of their evidence, windows, limits and workers:  *)
(* no checkpoint, dispatch, retry, command, recovery or late worker        *)
(* reopens it (completebacklogdecision and checkbacklogclaim, which write  *)
(* the task whatever its state, do so for an item that is open).           *)
THEOREM SettledForGood == Spec => SettledStays
<1>1. Sane /\ [Next]_vars
        => [\A t \in Tasks : db.tasks[t].state = "resolved" /\ Open(db, t) = {}
                               => db'.tasks[t].state = "resolved"]_vars
  BY SaneReach DEF Reach, Stays
<1> QED
  BY <1>1, WindowsSane, PTL DEF Spec, SettledStays

=============================================================================
