-------------------------- MODULE SupervisionProofs --------------------------
(***************************************************************************)
(* Proofs about Supervision, for every set of controllers, workers and     *)
(* items, any number of slots and replacements, and whatever the operator  *)
(* does.                                                                   *)
(***************************************************************************)
EXTENDS Supervision, FiniteSetTheorems, TLAPS

-----------------------------------------------------------------------------
(* The invariant.                                                          *)

(* The memory of a controller. *)
Memory ==
    [pc : Supervising \cup {"off", "cleaning", "reclaim", "reclaiming", "check", "activate",
                            "failing", "closing", "gone"},
     slot : [Slots -> Workers \cup {None}], pending : [Slots -> 0..2],
     next : [Slots -> Workers \cup {None}], told : SUBSET Slots,
     completed : 0..Count, failed : 0..Count, seen : 0..Count, cur : 1..(Count + 1),
     ready : BOOLEAN, draining : BOOLEAN, error : BOOLEAN,
     old : SUBSET Processes, erased : SUBSET Processes]

Entry == [state : {"queued", "running", "ended"}, owner : Workers \cup {None}, lapsed : BOOLEAN]

Event == [previous : Workers, replacement : Workers, by : Controllers, age : 0..Window]

ItemsOK ==
    /\ item \in [Items -> Entry]
    /\ \A i \in Items : item[i].state = "running" <=> item[i].owner # None

(* A controller that has inserted its row, and one whose slots are filled. *)
Begun   == Supervising \cup {"failing", "closing", "gone"}
Manning == (Supervising \ {"reserving"}) \cup {"failing", "closing"}

(* A controller that no worker takes for an available parent any more. *)
Departed(c) ==
    At(c, "gone") \/ (row[c] = "none" /\ ctl[c].pc \in {"failing", "closing"})

(* Where a worker process does no harm while its controller has departed.  *)
Harmless == {"no", "launched", "waiting", "done"}

(* A worker process that never began, or has ended with a row that says so. *)
Retired(w) == exec[w] = "no" \/ (exec[w] = "done" /\ row[w] \notin LiveRow)

(* Which rows exist: a controller inserts its own row, and a worker's row  *)
(* is reserved by its controller before its process begins.                *)
RowsOK ==
    /\ \A c \in Controllers : row[c] # "none" => ctl[c].pc \in Begun /\ row[c] # "starting"
    /\ \A w \in Workers :
          /\ boss[w] = None => exec[w] = "no" /\ row[w] = "none"
          /\ boss[w] # None => ctl[boss[w]].pc \in Begun
          /\ row[w] = "starting" => exec[w] \in {"no", "launched", "done"}
          /\ exec[w] = "no" => row[w] \in {"none", "starting"} \cup Ended

(* The slots of a controller hold its own workers; a parked slot is one    *)
(* whose exit was observed, and the counters count what was observed.      *)
Slotted(c) ==
    LET m == ctl[c] IN
    /\ \A s \in Slots :
          /\ m.slot[s] # None => boss[m.slot[s]] = c
          /\ m.pc \in Manning => m.slot[s] # None
          /\ m.next[s] # None <=> m.pending[s] = 2
          /\ m.next[s] # None => boss[m.next[s]] = c /\ exec[m.next[s]] = "no"
          /\ \A t \in Slots \ {s} : m.next[s] # None => m.next[s] # m.next[t]
          /\ m.pending[s] # 0 => s \in m.told
          /\ s \in m.told => m.slot[s] # None /\ exec[m.slot[s]] = "done"
    /\ m.pc \notin Manning \ {"launching"} => m.told = {}
    /\ m.pc \in {"finish", "release", "recover"} => m.seen \in m.told
    /\ m.pc = "beat" => m.seen \in m.told \cup {0}
    /\ m.pc \in {"beat", "finish", "release", "recover"} =>
          \A s \in Slots : s = m.seen => m.pending[s] = 0
    /\ m.completed = Cardinality(m.told)
    /\ m.failed = Cardinality({s \in m.told : code[m.slot[s]] = 1})

(* The slot whose exit was observed and is not recorded yet. *)
Observed(c) == IF ctl[c].pc \in {"beat", "finish"} THEN {ctl[c].seen} ELSE {}

(* A controller at work has every worker it reserved in a slot, or it has  *)
(* seen the end of it.                                                     *)
Accounted(c) ==
    ctl[c].pc \in Supervising =>
      /\ \A s \in ctl[c].told \ Observed(c) : row[ctl[c].slot[s]] \notin LiveRow
      /\ \A w \in Workers : boss[w] = c =>
            Retired(w) \/ \E s \in Slots : w = ctl[c].slot[s] \/ w = ctl[c].next[s]

(* LoopEndsEmpty, of one controller, as far as it is inductive. *)
Ending(c) ==
    /\ At(c, "failing") => ctl[c].error
    /\ row[c] = "stopped" => At(c, "gone")
    /\ (At(c, "closing") /\ ~ctl[c].error) \/ row[c] = "stopped" =>
          \A w \in Workers : boss[w] = c => Retired(w)

(* The controllers of a group that is erased have departed, and its        *)
(* workers are where they do no harm.                                      *)
Cleaning(c) ==
    LET m == ctl[c] IN
    /\ m.pc = "cleaning" => \A w \in m.old \cap Workers :
          boss[w] # None /\ (boss[w] \in m.old \/ Departed(boss[w]))
    /\ m.pc \in {"reclaim", "reclaiming"} =>
          /\ \A d \in m.old \cap Controllers : At(d, "gone")
          /\ \A w \in m.old \cap Workers :
                boss[w] # None /\ Departed(boss[w]) /\ exec[w] \in Harmless
    /\ \A w \in m.erased \cap Workers :
          boss[w] # None /\ Departed(boss[w]) /\ exec[w] \in Harmless /\ Owned(w) = {}

Kept(c) == Slotted(c) /\ Accounted(c) /\ Ending(c) /\ Cleaning(c)

Ledger == IsFiniteSet(events) /\ ReplacementsBounded /\ ReplacedForGood

IInv ==
    /\ TypeOK /\ RowsOK /\ OneController
    /\ \A c \in Controllers : Kept(c)
    /\ Ledger

-----------------------------------------------------------------------------
(* Types, and how many slots there are.                                    *)

(* The parts of the type invariant. *)
LEMMA Types ==
  ASSUME TypeOK
  PROVE  /\ row \in [Processes -> {"none"} \cup LiveRow \cup Ended]
         /\ want \in [Processes -> {"none", "drain"}]
         /\ boss \in [Workers -> Controllers \cup {None}]
         /\ exec \in [Workers -> {"no", "launched", "waiting", "top", "polled", "working", "done"}]
         /\ code \in [Workers -> 0..1]
         /\ ItemsOK
         /\ events \subseteq Event
         /\ ctl \in [Controllers -> Memory]
  BY DEF TypeOK, ItemsOK, Entry, Event, Memory

(* They make it up, after a step as well. *)
LEMMA TypesAfter ==
  ASSUME row' \in [Processes -> {"none"} \cup LiveRow \cup Ended],
         want' \in [Processes -> {"none", "drain"}],
         boss' \in [Workers -> Controllers \cup {None}],
         exec' \in [Workers -> {"no", "launched", "waiting", "top", "polled", "working", "done"}],
         code' \in [Workers -> 0..1], ItemsOK', env' \in Workers \cup {"healthy", "cooling", "due"},
         events' \subseteq Event, ctl' \in [Controllers -> Memory], faults' \in 0..MaxFaults
  PROVE  TypeOK'
  BY DEF TypeOK, ItemsOK, Entry, Event, Memory

(* A step that leaves the processes, the provider and the ledger alone. *)
LEMMA ControllerTypes ==
  ASSUME TypeOK, UNCHANGED <<boss, exec, code, env, events>>,
         row' \in [Processes -> {"none"} \cup LiveRow \cup Ended],
         want' \in [Processes -> {"none", "drain"}],
         ItemsOK', ctl' \in [Controllers -> Memory], faults' \in 0..MaxFaults
  PROVE  TypeOK'
  <1>1. /\ boss' \in [Workers -> Controllers \cup {None}]
        /\ exec' \in [Workers -> {"no", "launched", "waiting", "top", "polled", "working", "done"}]
        /\ code' \in [Workers -> 0..1] /\ env' \in Workers \cup {"healthy", "cooling", "due"}
        /\ events' \subseteq Event
    BY Types DEF TypeOK
  <1> QED
    BY <1>1, TypesAfter

(* The memory of a controller that goes from one place to another. *)
LEMMA Going ==
  ASSUME ctl \in [Controllers -> Memory], NEW c \in Controllers, NEW pc, Goto(c, pc)
  PROVE  /\ \A d \in Controllers \ {c} : ctl'[d] = ctl[d]
         /\ ctl'[c].pc = pc
         /\ ctl'[c].slot = ctl[c].slot /\ ctl'[c].pending = ctl[c].pending
         /\ ctl'[c].next = ctl[c].next /\ ctl'[c].told = ctl[c].told
         /\ ctl'[c].completed = ctl[c].completed /\ ctl'[c].failed = ctl[c].failed
         /\ ctl'[c].seen = ctl[c].seen /\ ctl'[c].ready = ctl[c].ready
         /\ ctl'[c].draining = ctl[c].draining /\ ctl'[c].error = ctl[c].error
         /\ ctl'[c].old = ctl[c].old /\ ctl'[c].erased = ctl[c].erased
         /\ pc \in Begun \cup {"cleaning", "reclaim", "reclaiming", "check", "activate"} =>
               ctl' \in [Controllers -> Memory]
  <1>1. ctl[c] \in Memory /\ ctl' = [ctl EXCEPT ![c] = [ctl[c] EXCEPT !.pc = pc]]
    BY DEF Goto
  <1>2. /\ \A d \in Controllers \ {c} : ctl'[d] = ctl[d]
        /\ ctl'[c] = [ctl[c] EXCEPT !.pc = pc]
    BY <1>1
  <1>3. pc \in Begun \cup {"cleaning", "reclaim", "reclaiming", "check", "activate"} =>
          [ctl[c] EXCEPT !.pc = pc] \in Memory
    BY <1>1 DEF Memory, Begun
  <1>4. /\ ctl'[c].pc = pc
        /\ ctl'[c].slot = ctl[c].slot /\ ctl'[c].pending = ctl[c].pending
        /\ ctl'[c].next = ctl[c].next /\ ctl'[c].told = ctl[c].told
        /\ ctl'[c].completed = ctl[c].completed /\ ctl'[c].failed = ctl[c].failed
        /\ ctl'[c].seen = ctl[c].seen /\ ctl'[c].ready = ctl[c].ready
        /\ ctl'[c].draining = ctl[c].draining /\ ctl'[c].error = ctl[c].error
        /\ ctl'[c].old = ctl[c].old /\ ctl'[c].erased = ctl[c].erased
    BY <1>1, <1>2 DEF Memory
  <1> QED
    BY <1>1, <1>2, <1>3, <1>4

(* None names no process, and no process is both controller and worker. *)
LEMMA Names ==
  /\ None \notin Workers /\ None \notin Controllers
  /\ \A c \in Controllers : c \in Processes /\ c \notin Workers
  /\ \A w \in Workers : w \in Processes /\ w \notin Controllers
  BY SupervisionAssumption DEF Processes

(* There are Count slots, numbered from 1. *)
LEMMA SlotCount ==
  /\ IsFiniteSet(Slots) /\ Cardinality(Slots) = Count
  /\ \A S \in SUBSET Slots : IsFiniteSet(S) /\ Cardinality(S) \in 0..Count
  /\ \A S \in SUBSET Slots : Cardinality(S) = Count => S = Slots
  <1>1. Count \in Nat /\ Count # 0
    BY SupervisionAssumption
  <1>2. IsFiniteSet(Slots) /\ Cardinality(Slots) = Count
    BY <1>1, FS_Interval DEF Slots
  <1>3. \A S \in SUBSET Slots : IsFiniteSet(S) /\ Cardinality(S) \in Nat
                                /\ Cardinality(S) <= Cardinality(Slots)
                                /\ (Cardinality(S) = Cardinality(Slots) => S = Slots)
    BY <1>2, FS_Subset, FS_CardinalityType
  <1> QED
    BY <1>1, <1>2, <1>3

-----------------------------------------------------------------------------
(* What no step takes back, and what a step leaves of a controller that    *)
(* does not take it.                                                       *)

(* Departed controllers and ended processes stay so, and a harmless worker *)
(* whose controller has departed never comes to claim anything.            *)
Fades ==
    /\ \A c \in Controllers :
          /\ At(c, "gone") => ctl'[c].pc = "gone"
          /\ Departed(c) => Departed(c)'
    /\ \A w \in Workers :
          /\ boss[w] # None => boss'[w] = boss[w]
          /\ exec[w] = "done" => exec'[w] = "done" /\ code'[w] = code[w]
          /\ exec[w] = "done" /\ row[w] \notin LiveRow => row'[w] \notin LiveRow
          /\ exec[w] \in Harmless /\ boss[w] # None /\ Departed(boss[w]) =>
                exec'[w] \in Harmless
          /\ exec[w] \in Harmless /\ Owned(w) = {} => Owned(w)' = {}

Bystander(c) ==
    /\ ctl'[c] = ctl[c]
    /\ row'[c] = "stopped" => row[c] = "stopped"
    /\ \A w \in Workers :
          /\ boss'[w] = c => boss[w] = c
          /\ boss[w] = c /\ exec[w] = "no" => exec'[w] = "no"

(* A controller that does not take the step keeps its part. *)
LEMMA BystanderKeeps ==
  ASSUME IInv, Fades, NEW c \in Controllers, Bystander(c)
  PROVE  Kept(c)'
  <1> DEFINE m == ctl[c]
  <1>1. m \in Memory /\ ctl'[c] = m
    BY Types DEF IInv, Bystander
  <1>2. /\ m.slot \in [Slots -> Workers \cup {None}] /\ m.next \in [Slots -> Workers \cup {None}]
        /\ m.told \subseteq Slots /\ m.old \subseteq Processes
    BY <1>1 DEF Memory
  <1>3. Slotted(c) /\ Accounted(c) /\ Ending(c) /\ Cleaning(c)
    BY DEF IInv, Kept
  <1>4. \A w \in Workers : boss[w] = c =>
          /\ boss'[w] = c
          /\ Retired(w) => Retired(w)'
    BY Names DEF Fades, Bystander, Retired
  <1>5. Slotted(c)'
    <2>1. {s \in m.told : code'[m.slot[s]] = 1} = {s \in m.told : code[m.slot[s]] = 1}
      BY <1>2, <1>3, Names DEF Slotted, Fades
    <2>2. \A s \in Slots :
            /\ m.slot[s] # None => boss'[m.slot[s]] = c
            /\ m.next[s] # None => boss'[m.next[s]] = c /\ exec'[m.next[s]] = "no"
            /\ s \in m.told => m.slot[s] # None /\ exec'[m.slot[s]] = "done"
      BY <1>2, <1>3, <1>4, Names DEF Slotted, Fades, Bystander
    <2>3. \A s \in Slots :
            /\ m.pc \in Manning => m.slot[s] # None
            /\ m.next[s] # None <=> m.pending[s] = 2
            /\ \A t \in Slots \ {s} : m.next[s] # None => m.next[s] # m.next[t]
            /\ m.pending[s] # 0 => s \in m.told
      BY <1>3 DEF Slotted
    <2>4. /\ m.pc \notin Manning \ {"launching"} => m.told = {}
          /\ m.pc \in {"finish", "release", "recover"} => m.seen \in m.told
          /\ m.pc = "beat" => m.seen \in m.told \cup {0}
          /\ m.pc \in {"beat", "finish", "release", "recover"} =>
                \A s \in Slots : s = m.seen => m.pending[s] = 0
          /\ m.completed = Cardinality(m.told)
          /\ m.failed = Cardinality({s \in m.told : code'[m.slot[s]] = 1})
      BY <1>3, <2>1 DEF Slotted
    <2> QED
      BY <1>1, <2>2, <2>3, <2>4 DEF Slotted, Manning
  <1>6. Accounted(c)'
    <2>1. Observed(c)' = Observed(c)
      BY <1>1 DEF Observed
    <2>2. \A s \in m.told : m.slot[s] \in Workers /\ boss[m.slot[s]] = c
                            /\ exec[m.slot[s]] = "done"
      BY <1>2, <1>3, Names DEF Slotted
    <2>3. \A w \in Workers : boss'[w] = c => boss[w] = c
      BY DEF Bystander
    <2>4. \A s \in m.told : row[m.slot[s]] \notin LiveRow => row'[m.slot[s]] \notin LiveRow
      BY <2>2 DEF Fades
    <2> QED
      BY <1>1, <1>3, <1>4, <2>1, <2>2, <2>3, <2>4 DEF Accounted
  <1>7. Ending(c)'
    BY <1>1, <1>3, <1>4 DEF Ending, Bystander, At
  <1>8. Cleaning(c)'
    <2>1. boss \in [Workers -> Controllers \cup {None}] /\ m.erased \subseteq Processes
      BY <1>1, Types DEF IInv, Memory
    <2>2. \A w \in Workers : boss[w] # None =>
             /\ boss'[w] # None
             /\ Departed(boss[w]) => Departed(boss[w])' /\ boss'[w] = boss[w]
      BY <2>1 DEF Fades
    <2> QED
      BY <1>1, <1>3, <2>1, <2>2 DEF Cleaning, Fades, At
  <1> QED
    BY <1>5, <1>6, <1>7, <1>8 DEF Kept

(* The ledger of replacements only records dead workers, and keeps them. *)
LEMMA LedgerKept ==
  ASSUME IInv, Fades, UNCHANGED events
  PROVE  Ledger'
  <1>1. \A e \in events : e.previous \in Workers
    BY Types DEF IInv, Event
  <1>2. ReplacedForGood'
    BY <1>1 DEF IInv, Ledger, ReplacedForGood, Fades, Harmless
  <1> QED
    BY <1>2 DEF IInv, Ledger, ReplacementsBounded
(* A harmless worker of a departed controller stays one. *)
LEMMA StaysHarmless ==
  ASSUME IInv, Fades, NEW w \in Workers,
         boss[w] # None, Departed(boss[w]), exec[w] \in Harmless
  PROVE  /\ boss'[w] = boss[w] /\ Departed(boss[w])' /\ exec'[w] \in Harmless
         /\ Owned(w) = {} => Owned(w)' = {}
  <1>1. boss[w] \in Controllers
    BY Types DEF IInv
  <1>2. boss'[w] = boss[w] /\ exec'[w] \in Harmless /\ (Owned(w) = {} => Owned(w)' = {})
    BY DEF Fades
  <1>3. ASSUME NEW c \in Controllers, c = boss[w] PROVE Departed(c)'
    BY <1>3 DEF Fades
  <1> QED
    BY <1>1, <1>2, <1>3

(* The invariant after a step, part by part. *)
LEMMA Assembled ==
  ASSUME IInv, TypeOK', RowsOK', OneController', Fades, Ledger',
         \A c \in Controllers : Bystander(c) \/ Kept(c)'
  PROVE  IInv'
  BY BystanderKeeps DEF IInv

-----------------------------------------------------------------------------
(* The step of a worker process. *)

(* A step moves one running worker on, and with it at most its own row and *)
(* exit code; it claims nothing while it is harmless.                      *)
WorkerMoves(w, at) ==
    /\ exec[w] \notin {"no", "done"}
    /\ at \in {"waiting", "top", "polled", "working", "done"}
    /\ exec' = [exec EXCEPT ![w] = at]
    /\ \A p \in Processes \ {w} : row'[p] = row[p]
    /\ row'[w] = "starting" => row' = row /\ at = "done"
    /\ \A v \in Workers \ {w} : code'[v] = code[v]
    /\ exec[w] \in Harmless /\ Departed(boss[w]) => at \in Harmless
    /\ \A v \in Workers : exec[v] \in Harmless /\ Owned(v) = {} => Owned(v)' = {}
    /\ UNCHANGED <<boss, ctl, events>>

(* The step of a worker keeps the invariant. *)
LEMMA WorkerStep ==
  ASSUME IInv, TypeOK', NEW w \in Workers, NEW at, WorkerMoves(w, at)
  PROVE  IInv'
  <1>1. /\ TypeOK /\ RowsOK /\ OneController
        /\ exec \in [Workers -> {"no", "launched", "waiting", "top", "polled", "working", "done"}]
        /\ boss \in [Workers -> Controllers \cup {None}]
    BY Types DEF IInv
  <1>2. /\ \A c \in Controllers : row'[c] = row[c] /\ ctl'[c] = ctl[c]
        /\ \A v \in Workers : boss'[v] = boss[v]
        /\ \A v \in Workers \ {w} : row'[v] = row[v] /\ exec'[v] = exec[v] /\ code'[v] = code[v]
        /\ exec'[w] = at /\ at # "no"
    BY <1>1, Names DEF WorkerMoves
  <1>3. boss[w] \in Controllers
    BY <1>1 DEF RowsOK, WorkerMoves
  <1>4. RowsOK'
    BY <1>1, <1>2, <1>3 DEF RowsOK, WorkerMoves
  <1>5. OneController'
    BY <1>1, <1>2 DEF OneController
  <1>6. Fades
    BY <1>1, <1>2, <1>3 DEF Fades, At, Departed, Retired, WorkerMoves, Harmless
  <1>7. \A c \in Controllers : Bystander(c)
    BY <1>2 DEF Bystander, WorkerMoves
  <1>8. Ledger'
    BY <1>6, LedgerKept DEF WorkerMoves
  <1> QED
    BY <1>4, <1>5, <1>6, <1>7, <1>8, Assembled

-----------------------------------------------------------------------------
(* The steps of the operator and of the clock. *)

(* No process moves; rows of processes that are no longer at work go. *)
OutsideMoves ==
    /\ \A p \in Processes : row'[p] = row[p] \/ (Prunable(p) /\ row'[p] = "none")
    /\ \A v \in Workers : Owned(v) = {} => Owned(v)' = {}
    /\ UNCHANGED <<boss, exec, code, ctl>>

(* Such a step keeps the invariant if it keeps the ledger. *)
LEMMA OutsideStep ==
  ASSUME IInv, TypeOK', OutsideMoves, Fades => Ledger'
  PROVE  IInv'
  <1>1. TypeOK /\ RowsOK /\ OneController
    BY DEF IInv
  <1>2. /\ \A p \in Processes : row'[p] = row[p] \/ row'[p] = "none"
        /\ \A c \in Controllers : ctl'[c] = ctl[c]
        /\ \A v \in Workers : boss'[v] = boss[v] /\ exec'[v] = exec[v] /\ code'[v] = code[v]
    BY DEF OutsideMoves
  <1>3. \A c \in Controllers : row[c] \in LiveRow /\ ctl[c].pc \in Supervising => row'[c] = row[c]
    <2> SUFFICES ASSUME NEW c \in Controllers, row[c] \in LiveRow, ctl[c].pc \in Supervising
                 PROVE  ~Prunable(c)
      BY Names DEF OutsideMoves
    <2> QED
      BY <1>1, Names DEF Prunable, Alive, RowsOK, LiveRow, Ended, Supervising
  <1>4. RowsOK'
    <2>1. boss \in [Workers -> Controllers \cup {None}]
      BY <1>1, Types
    <2> QED
      BY <1>1, <1>2, <2>1, Names DEF RowsOK
  <1>5. OneController'
    BY <1>1, <1>2, <1>3 DEF OneController
  <1>6. Fades
    BY <1>2, Names DEF Fades, At, Departed, Retired, LiveRow, OutsideMoves
  <1>7. \A c \in Controllers : Bystander(c)
    BY <1>2, Names DEF Bystander
  <1> QED
    BY <1>4, <1>5, <1>6, <1>7, Assembled
-----------------------------------------------------------------------------
(* The step of a controller. *)

(* A step that touches the memory of one controller, its row, rows of      *)
(* workers, and items, and no process.                                     *)
ControllerMoves(c) ==
    /\ ~At(c, "gone")
    /\ ctl[c].pc \in Begun => ctl'[c].pc \in Begun
    /\ Departed(c) => Departed(c)'
    /\ row'[c] # "none" => ctl'[c].pc \in Begun /\ row'[c] # "starting"
    /\ ctl'[c].pc \in Supervising =>
          /\ row'[c] \in LiveRow
          /\ ctl[c].pc \in Supervising \/ \A d \in Controllers \ {c} : row[d] \notin LiveRow
    /\ \A d \in Controllers \ {c} :
          /\ ctl'[d] = ctl[d]
          /\ row'[d] = row[d] \/ (At(d, "gone") /\ row'[d] = "none")
    /\ \A w \in Workers :
          /\ row'[w] \in {row[w], "none"} \/ (row[w] # "none" /\ row'[w] \in Ended)
          /\ exec[w] \in Harmless /\ Owned(w) = {} => Owned(w)' = {}
    /\ UNCHANGED <<boss, exec, code, events>>

(* Nothing comes back in such a step. *)
LEMMA ControllerFades ==
  ASSUME IInv, NEW c \in Controllers, ControllerMoves(c)
  PROVE  Fades
  <1>1. \A d \in Controllers : At(d, "gone") => ctl'[d].pc = "gone"
    BY DEF ControllerMoves, At
  <1>2. \A d \in Controllers : Departed(d) => Departed(d)'
    <2> SUFFICES ASSUME NEW d \in Controllers \ {c}, Departed(d)
                 PROVE  Departed(d)'
      BY DEF ControllerMoves
    <2> QED
      BY DEF ControllerMoves, Departed, At
  <1>3. \A w \in Workers : row[w] \notin LiveRow => row'[w] \notin LiveRow
    BY DEF ControllerMoves, LiveRow, Ended
  <1> QED
    BY <1>1, <1>2, <1>3 DEF Fades, ControllerMoves

(* It keeps the invariant if it keeps the part of its controller. *)
LEMMA ControllerStep ==
  ASSUME IInv, TypeOK', NEW c \in Controllers, ControllerMoves(c), Fades => Kept(c)'
  PROVE  IInv'
  <1>1. TypeOK /\ RowsOK /\ OneController
    BY DEF IInv
  <1>2. boss \in [Workers -> Controllers \cup {None}]
    BY <1>1, Types
  <1>3. Fades
    BY ControllerFades
  <1>4. RowsOK'
    <2>1. \A d \in Controllers : row'[d] # "none" => ctl'[d].pc \in Begun /\ row'[d] # "starting"
      BY <1>1 DEF RowsOK, ControllerMoves
    <2>2. \A d \in Controllers : ctl[d].pc \in Begun => ctl'[d].pc \in Begun
      BY DEF ControllerMoves
    <2>3. \A w \in Workers : /\ row[w] = "none" => row'[w] = "none"
                             /\ row'[w] = "starting" => row[w] = "starting"
      BY DEF ControllerMoves, Ended
    <2> QED
      BY <1>1, <1>2, <2>1, <2>2, <2>3 DEF RowsOK, ControllerMoves
  <1>5. OneController'
    BY <1>1 DEF OneController, ControllerMoves, At, Supervising
  <1>6. \A d \in Controllers \ {c} : Bystander(d)
    BY DEF Bystander, ControllerMoves
  <1>7. Ledger'
    BY <1>3, LedgerKept DEF ControllerMoves
  <1> QED
    BY <1>3, <1>4, <1>5, <1>6, <1>7, Assembled

-----------------------------------------------------------------------------
(* What a step of a controller leaves of its own part. *)

(* What was erased stays gone. *)
LEMMA ErasedKept ==
  ASSUME IInv, Fades, NEW c \in Controllers, ctl'[c].erased = ctl[c].erased,
         ctl'[c].pc \notin {"cleaning", "reclaim", "reclaiming"}
  PROVE  Cleaning(c)'
  <1>1. \A w \in ctl[c].erased \cap Workers :
          boss[w] # None /\ Departed(boss[w]) /\ exec[w] \in Harmless /\ Owned(w) = {}
    BY DEF IInv, Kept, Cleaning
  <1> QED
    BY <1>1, StaysHarmless DEF Cleaning

(* Where a controller that keeps its slots may go. *)
SameSlots(c) ==
    LET m == ctl[c]  n == ctl'[c]
    IN  /\ n.slot = m.slot /\ n.pending = m.pending /\ n.next = m.next
        /\ n.told = m.told /\ n.completed = m.completed /\ n.failed = m.failed
        /\ n.pc \in Manning => m.pc \in Manning
        /\ n.pc \in Manning \ {"launching"} \/ m.pc \notin Manning \ {"launching"}
        /\ n.pc \notin {"beat", "finish", "release", "recover"}
           \/ /\ n.seen = m.seen
              /\ m.pc \in {"finish", "release", "recover"} \/ (m.pc = "beat" /\ m.seen # 0)

(* Then its slots are in order after the step as before it. *)
LEMMA SlotsKept ==
  ASSUME IInv, NEW c \in Controllers, SameSlots(c), UNCHANGED <<boss, exec, code>>
  PROVE  Slotted(c)'
  <1> DEFINE m == ctl[c]
             n == ctl'[c]
  <1>1. m \in Memory /\ Slotted(c)
    BY Types DEF IInv, Kept
  <1>2. \A s \in Slots :
            /\ m.slot[s] # None => boss[m.slot[s]] = c
            /\ m.pc \in Manning => m.slot[s] # None
            /\ m.next[s] # None <=> m.pending[s] = 2
            /\ m.next[s] # None => boss[m.next[s]] = c /\ exec[m.next[s]] = "no"
            /\ \A t \in Slots \ {s} : m.next[s] # None => m.next[s] # m.next[t]
            /\ m.pending[s] # 0 => s \in m.told
            /\ s \in m.told => m.slot[s] # None /\ exec[m.slot[s]] = "done"
    BY <1>1 DEF Slotted
  <1>3. /\ m.pc \notin Manning \ {"launching"} => m.told = {}
        /\ m.completed = Cardinality(m.told)
        /\ m.failed = Cardinality({s \in m.told : code[m.slot[s]] = 1})
    BY <1>1 DEF Slotted
  <1>4. /\ n.pc \in {"finish", "release", "recover"} => n.seen \in n.told
        /\ n.pc = "beat" => n.seen \in n.told \cup {0}
        /\ n.pc \in {"beat", "finish", "release", "recover"} =>
              \A s \in Slots : s = n.seen => n.pending[s] = 0
    BY <1>1 DEF Slotted, SameSlots
  <1>5. /\ n.slot = m.slot /\ n.pending = m.pending /\ n.next = m.next
        /\ n.told = m.told /\ n.completed = m.completed /\ n.failed = m.failed
        /\ n.pc \in Manning => m.pc \in Manning
        /\ n.pc \notin Manning \ {"launching"} => m.pc \notin Manning \ {"launching"}
    BY DEF SameSlots
  <1> HIDE DEF m, n
  <1>6. \A s \in Slots :
            /\ n.slot[s] # None => boss'[n.slot[s]] = c
            /\ n.pc \in Manning => n.slot[s] # None
            /\ n.next[s] # None <=> n.pending[s] = 2
            /\ n.next[s] # None => boss'[n.next[s]] = c /\ exec'[n.next[s]] = "no"
            /\ \A t \in Slots \ {s} : n.next[s] # None => n.next[s] # n.next[t]
            /\ n.pending[s] # 0 => s \in n.told
            /\ s \in n.told => n.slot[s] # None /\ exec'[n.slot[s]] = "done"
    BY <1>2, <1>5
  <1>7. /\ n.pc \notin Manning \ {"launching"} => n.told = {}
        /\ n.completed = Cardinality(n.told)
        /\ n.failed = Cardinality({s \in n.told : code'[n.slot[s]] = 1})
    BY <1>3, <1>5
  <1> QED
    BY <1>4, <1>6, <1>7 DEF Slotted, n
(* A controller that ends keeps its part. *)
LEMMA GoneKept ==
  ASSUME IInv, Fades, NEW c \in Controllers, Gone(c), UNCHANGED <<boss, exec>>,
         row'[c] = "stopped" => \A w \in Workers : boss[w] = c => Retired(w)
  PROVE  Kept(c)'
  <1>1. ctl'[c] = [Idle EXCEPT !.pc = "gone", !.erased = ctl[c].erased]
    BY Types DEF IInv, Gone
  <1>2. /\ ctl'[c].pc = "gone" /\ ctl'[c].erased = ctl[c].erased
        /\ ctl'[c].slot = [s \in Slots |-> None] /\ ctl'[c].next = [s \in Slots |-> None]
        /\ ctl'[c].pending = [s \in Slots |-> 0] /\ ctl'[c].told = {}
        /\ ctl'[c].completed = 0 /\ ctl'[c].failed = 0
    BY <1>1 DEF Idle
  <1>3. Slotted(c)'
    <2>1. {s \in ctl'[c].told : code'[ctl'[c].slot[s]] = 1} = {}
      BY <1>2
    <2>2. Cardinality({}) = 0
      BY FS_EmptySet
    <2> QED
      BY <1>2, <2>1, <2>2 DEF Slotted, Manning, Supervising
  <1>4. Accounted(c)'
    BY <1>2 DEF Accounted, Supervising
  <1>5. Ending(c)'
    <2>1. \A w \in Workers : boss[w] = c /\ Retired(w) => Retired(w)'
      BY Names DEF Fades, Retired
    <2> QED
      BY <1>2, <2>1 DEF Ending, At
  <1>6. Cleaning(c)'
    BY <1>2, ErasedKept
  <1> QED
    BY <1>3, <1>4, <1>5, <1>6 DEF Kept

(* The workers of a controller at work stay accounted for, when what it    *)
(* stops to observe is recorded.                                           *)
LEMMA AccountedKept ==
  ASSUME IInv, Fades, NEW c \in Controllers, UNCHANGED <<boss, exec>>,
         ctl'[c].slot = ctl[c].slot, ctl'[c].next = ctl[c].next, ctl'[c].told = ctl[c].told,
         ctl'[c].pc \in Supervising =>
            /\ ctl[c].pc \in Supervising
            /\ \A s \in ctl[c].told : s \in Observed(c) \ Observed(c)' =>
                  row'[ctl[c].slot[s]] \notin LiveRow
  PROVE  Accounted(c)'
  <1>1. ctl[c] \in Memory /\ Slotted(c) /\ Accounted(c)
    BY Types DEF IInv, Kept
  <1>2. \A s \in ctl[c].told : /\ ctl[c].slot[s] \in Workers /\ boss[ctl[c].slot[s]] = c
                               /\ exec[ctl[c].slot[s]] = "done"
    BY <1>1 DEF Slotted, Memory
  <1>3. \A w \in Workers : boss[w] = c /\ Retired(w) => Retired(w)'
    BY Names DEF Fades, Retired
  <1> QED
    BY <1>1, <1>2, <1>3 DEF Accounted, Retired

-----------------------------------------------------------------------------
(* The items. *)

(* A lease that ends, a recovery and a settlement keep the types, and give *)
(* nobody an item.                                                         *)
LEMMA ItemsPass ==
  ASSUME ItemsOK
  PROVE  /\ \A w \in Workers : ReleaseLeases(w) => ItemsOK' /\ \A v \in Workers : Owned(v)' = Owned(v)
         /\ \A held \in SUBSET Lapsed :
               item' = Recovered(held) => ItemsOK' /\ \A v \in Workers : Owned(v)' \subseteq Owned(v)
         /\ \A w \in Workers : \A st \in {"queued", "ended"} :
               Settle(w, st) => ItemsOK' /\ \A v \in Workers : Owned(v)' \subseteq Owned(v)
  <1>1. item \in [Items -> Entry] /\ \A i \in Items : item[i].state = "running" <=> item[i].owner # None
    BY DEF ItemsOK
  <1>2. ASSUME NEW w \in Workers, ReleaseLeases(w)
        PROVE  ItemsOK' /\ \A v \in Workers : Owned(v)' = Owned(v)
    <2>1. /\ item' \in [Items -> Entry]
          /\ \A i \in Items : item'[i].state = item[i].state /\ item'[i].owner = item[i].owner
      BY <1>1, <1>2 DEF ReleaseLeases, Entry
    <2> QED
      BY <1>1, <2>1 DEF ItemsOK, Owned
  <1>3. ASSUME NEW held \in SUBSET Lapsed, item' = Recovered(held)
        PROVE  ItemsOK' /\ \A v \in Workers : Owned(v)' \subseteq Owned(v)
    <2>1. /\ item' \in [Items -> Entry]
          /\ \A i \in Items : item'[i] = item[i] \/ (item'[i].owner = None /\ item'[i].state # "running")
      BY <1>1, <1>3 DEF Recovered, Recovery, Entry
    <2> QED
      BY <1>1, <2>1, Names DEF ItemsOK, Owned
  <1>4. ASSUME NEW w \in Workers, NEW st \in {"queued", "ended"}, Settle(w, st)
        PROVE  ItemsOK' /\ \A v \in Workers : Owned(v)' \subseteq Owned(v)
    <2>1. /\ item' \in [Items -> Entry]
          /\ \A i \in Items : item'[i] = item[i] \/ (item'[i].owner = None /\ item'[i].state # "running")
      BY <1>1, <1>4 DEF Settle, Entry
    <2> QED
      BY <1>1, <2>1, Names DEF ItemsOK, Owned
  <1> QED
    BY <1>2, <1>3, <1>4
-----------------------------------------------------------------------------
(* job run takes the job over: every action keeps the invariant.           *)

(* A new controller has no slots, and no row. *)
LEMMA BeforeBegun ==
  ASSUME IInv, NEW c \in Controllers, ctl[c].pc \notin Begun
  PROVE  row[c] = "none" /\ ~Departed(c) /\ ctl[c].pc \notin Supervising /\ ~At(c, "gone")
  BY DEF IInv, RowsOK, Departed, Begun, At

(* A command is given. *)
LEMMA CommandStep ==
  ASSUME IInv, NEW c \in Controllers, NEW command \in {"run", "start"}, Command(c, command)
  PROVE  IInv'
  <1> DEFINE ids == {p \in Processes : row[p] # "none"}
  <1>1. ctl[c] \in Memory /\ ctl \in [Controllers -> Memory] /\ TypeOK /\ RowsOK /\ OneController
    BY Types DEF IInv
  <1>2. /\ ctl[c].pc = "off" /\ ctl[c].pc \notin Begun
        /\ \A d \in Controllers \ {c} : ctl'[d] = ctl[d]
        /\ ctl'[c].pc \in {"activate", "cleaning"} /\ ctl'[c].pc \notin Begun
        /\ ctl'[c].pc = "cleaning" => ctl'[c].old = ids
        /\ ctl'[c].slot = ctl[c].slot /\ ctl'[c].pending = ctl[c].pending
        /\ ctl'[c].next = ctl[c].next /\ ctl'[c].told = ctl[c].told
        /\ ctl'[c].completed = ctl[c].completed /\ ctl'[c].failed = ctl[c].failed
        /\ ctl'[c].erased = ctl[c].erased
    BY <1>1 DEF Command, At, Goto, Begun, Supervising, Memory
  <1>3. row[c] = "none" /\ ~Departed(c) /\ ~At(c, "gone")
    BY <1>2, BeforeBegun
  <1>4. TypeOK'
    <2>1. want' \in [Processes -> {"none", "drain"}]
      BY <1>1, Types DEF Command, Drained
    <2>2. ctl' = [ctl EXCEPT ![c].pc = "activate"]
          \/ ctl' = [ctl EXCEPT ![c].pc = "cleaning", ![c].old = ids]
      BY DEF Command, Goto
    <2>3. ids \in SUBSET Processes
      OBVIOUS
    <2> HIDE DEF ids
    <2>4. ctl' \in [Controllers -> Memory]
      <3>1. CASE ctl' = [ctl EXCEPT ![c].pc = "activate"]
        BY <1>1, <3>1 DEF Memory
      <3>2. CASE ctl' = [ctl EXCEPT ![c].pc = "cleaning", ![c].old = ids]
        BY <1>1, <2>3, <3>2 DEF Memory
      <3> QED
        BY <2>2, <3>1, <3>2
    <2> QED
      BY <1>1, <2>1, <2>4, Types, ControllerTypes DEF Command, TypeOK, ItemsOK, jobVars
  <1>5. ControllerMoves(c)
    BY <1>2, <1>3 DEF ControllerMoves, Command, Supervising, Owned, jobVars
  <1>6. ASSUME Fades PROVE Kept(c)'
    <2>1. Slotted(c)'
      BY <1>2, SlotsKept DEF SameSlots, Command, Manning, Supervising
    <2>2. Accounted(c)' /\ Ending(c)'
      BY <1>2, <1>3 DEF Accounted, Ending, Command, Supervising, At
    <2>3. ASSUME NEW w \in ids \cap Workers
          PROVE  boss[w] # None /\ (boss[w] \in ids \/ Departed(boss[w]))
      <3>1. boss[w] \in Controllers /\ ctl[boss[w]].pc \in Begun
        BY <1>1, Types DEF RowsOK
      <3>2. row[boss[w]] = "none" => ctl[boss[w]].pc \notin Supervising
        BY <1>1, <3>1 DEF OneController, LiveRow
      <3> QED
        BY <3>1, <3>2, Names DEF Departed, Begun, At
    <2>4. Cleaning(c)'
      <3>1. \A w \in ctl[c].erased \cap Workers :
              boss[w] # None /\ Departed(boss[w]) /\ exec[w] \in Harmless /\ Owned(w) = {}
        BY DEF IInv, Kept, Cleaning
      <3>2. \A w \in Workers : Departed(boss[w]) /\ boss[w] # None =>
               boss'[w] = boss[w] /\ Departed(boss[w])'
        <4> SUFFICES ASSUME NEW w \in Workers, Departed(boss[w]), boss[w] # None
                     PROVE  boss'[w] = boss[w] /\ Departed(boss[w])'
          OBVIOUS
        <4>1. boss[w] \in Controllers /\ boss'[w] = boss[w]
          BY <1>1, Types DEF Command
        <4>2. ASSUME NEW d \in Controllers, d = boss[w] PROVE Departed(d)'
          BY <4>2, <1>6 DEF Fades
        <4> QED
          BY <4>1, <4>2
      <3>3. boss' = boss
        BY DEF Command
      <3> QED
        BY <1>2, <2>3, <3>1, <3>2, <3>3, <1>6, StaysHarmless DEF Cleaning
    <2> QED
      BY <2>1, <2>2, <2>4 DEF Kept
  <1> QED
    BY <1>4, <1>5, <1>6, ControllerStep

(* Every process of the group has ended: its controllers have departed,    *)
(* and a worker that is only launched cannot find its parent any more.     *)
LEMMA GroupDrainedStep ==
  ASSUME IInv, NEW c \in Controllers, GroupDrained(c)
  PROVE  IInv'
  <1>1. ctl[c] \in Memory /\ ctl \in [Controllers -> Memory] /\ TypeOK /\ RowsOK /\ OneController
        /\ Cleaning(c)
    BY Types DEF IInv, Kept
  <1>2. /\ ctl[c].pc = "cleaning" /\ ctl[c].pc \notin Begun
        /\ \A d \in Controllers \ {c} : ctl'[d] = ctl[d]
        /\ ctl'[c].pc = "reclaim" /\ ctl'[c].old = Scope(c)
        /\ ctl'[c].slot = ctl[c].slot /\ ctl'[c].pending = ctl[c].pending
        /\ ctl'[c].next = ctl[c].next /\ ctl'[c].told = ctl[c].told
        /\ ctl'[c].completed = ctl[c].completed /\ ctl'[c].failed = ctl[c].failed
        /\ ctl'[c].erased = ctl[c].erased
    BY <1>1 DEF GroupDrained, At, Begun, Supervising, Memory
  <1>3. row[c] = "none" /\ ~Departed(c) /\ ~At(c, "gone")
    BY <1>2, BeforeBegun
  <1>4. TypeOK'
    <2>1. Scope(c) \subseteq Processes
      BY DEF Scope
    <2>2. ctl' \in [Controllers -> Memory]
      BY <1>1, <2>1 DEF GroupDrained, Memory
    <2> QED
      BY <1>1, <2>2, Types, ControllerTypes DEF GroupDrained, TypeOK, ItemsOK, jobVars
  <1>5. ControllerMoves(c)
    BY <1>2, <1>3 DEF ControllerMoves, GroupDrained, Begun, Supervising, Owned, jobVars
  <1>6. boss \in [Workers -> Controllers \cup {None}]
    BY <1>1, Types
  <1>7. \A d \in Scope(c) \cap Controllers : At(d, "gone")
    <2> SUFFICES ASSUME NEW d \in Scope(c) \cap Controllers PROVE At(d, "gone")
      OBVIOUS
    <2>1. row[d] # "none" /\ ~SeenAlive(d)
      BY <1>2 DEF GroupDrained, Scope
    <2> QED
      BY <1>1, <2>1, Names DEF RowsOK, SeenAlive, Alive, At, Begun, Supervising
  <1>8. \A w \in Scope(c) \cap Workers :
           boss[w] # None /\ Departed(boss[w]) /\ exec[w] \in Harmless
    <2> SUFFICES ASSUME NEW w \in Scope(c) \cap Workers
                 PROVE  boss[w] # None /\ Departed(boss[w]) /\ exec[w] \in Harmless
      OBVIOUS
    <2>1. /\ row[w] # "none" /\ ~SeenAlive(w)
          /\ w \in ctl[c].old \/ ParentOf(w) \in ctl[c].old
      BY <1>2 DEF GroupDrained, Scope
    <2>2. boss[w] \in Controllers /\ ctl[boss[w]].pc \in Begun
      BY <1>1, <1>6, <2>1 DEF RowsOK
    <2>3. exec[w] \in Harmless
      <3>1. exec[w] \in {"no", "launched", "waiting", "top", "polled", "working", "done"}
        BY <1>1, Types
      <3> QED
        BY <1>1, <2>1, <3>1 DEF RowsOK, SeenAlive, Alive, Harmless
    <2>4. boss[w] \in ctl[c].old \/ Departed(boss[w])
      <3>1. CASE w \in ctl[c].old
        BY <1>1, <1>2, <3>1 DEF Cleaning
      <3>2. CASE ParentOf(w) \in ctl[c].old
        <4>1. ParentOf(w) # None
          BY <1>1, <3>2, Names DEF Memory, Processes
        <4> QED
          BY <3>2, <4>1 DEF ParentOf
      <3> QED
        BY <2>1, <3>1, <3>2
    <2>5. Departed(boss[w])
      <3>1. CASE row[boss[w]] # "none" /\ boss[w] \in ctl[c].old
        BY <1>7, <2>2, <3>1, Names DEF Scope, Departed
      <3>2. CASE row[boss[w]] = "none"
        BY <1>1, <2>2, <3>2 DEF OneController, LiveRow, Departed, Begun, At
      <3> QED
        BY <2>4, <3>1, <3>2
    <2> QED
      BY <2>2, <2>3, <2>5, Names
  <1>9. ASSUME Fades PROVE Kept(c)'
    <2>1. Slotted(c)'
      BY <1>2, SlotsKept DEF SameSlots, GroupDrained, Manning, Supervising
    <2>2. Accounted(c)' /\ Ending(c)'
      BY <1>2, <1>3 DEF Accounted, Ending, GroupDrained, Supervising, At
    <2>3. Cleaning(c)'
      <3>1. \A w \in ctl[c].erased \cap Workers :
              boss[w] # None /\ Departed(boss[w]) /\ exec[w] \in Harmless /\ Owned(w) = {}
        BY <1>1 DEF Cleaning
      <3>2. \A d \in Scope(c) \cap Controllers : At(d, "gone")'
        BY <1>7, <1>9 DEF Fades, At
      <3> QED
        BY <1>2, <1>8, <1>9, <3>1, <3>2, StaysHarmless DEF Cleaning
    <2> QED
      BY <2>1, <2>2, <2>3 DEF Kept
  <1> QED
    BY <1>4, <1>5, <1>9, ControllerStep
(* A controller that ends, with its own row at most, keeps the invariant. *)
LEMMA GoneStep ==
  ASSUME IInv, NEW c \in Controllers, ~At(c, "gone"), Gone(c),
         row' \in [Processes -> {"none"} \cup LiveRow \cup Ended],
         \A p \in Processes \ {c} : row'[p] = row[p],
         row'[c] = row[c] \/ (row[c] # "none" /\ row'[c] \in Ended),
         row'[c] = "stopped" => \A w \in Workers : boss[w] = c => Retired(w),
         UNCHANGED <<want, boss, exec, code, item, env, events>>, faults' \in 0..MaxFaults
  PROVE  IInv'
  <1>1. ctl \in [Controllers -> Memory] /\ TypeOK /\ RowsOK
    BY Types DEF IInv
  <1>2. /\ ctl'[c].pc = "gone"
        /\ \A d \in Controllers \ {c} : ctl'[d] = ctl[d]
    BY <1>1 DEF Gone, Idle
  <1>3. TypeOK'
    <2>1. Idle \in Memory
      BY SlotCount, SupervisionAssumption DEF Idle, Memory
    <2>2. [Idle EXCEPT !.pc = "gone", !.erased = ctl[c].erased] \in Memory
      BY <1>1, <2>1 DEF Memory
    <2>3. ctl' \in [Controllers -> Memory]
      BY <1>1, <2>2 DEF Gone
    <2> QED
      BY <1>1, <2>3, Types, ControllerTypes DEF ItemsOK
  <1>4. ControllerMoves(c)
    <2>1. row'[c] # "none" => row'[c] # "starting"
      BY <1>1 DEF RowsOK, Ended
    <2>2. "gone" \in Begun /\ "gone" \notin Supervising
      BY DEF Begun, Supervising
    <2> QED
      BY <1>2, <2>1, <2>2, Names DEF ControllerMoves, Departed, At, Owned
  <1>5. Fades => Kept(c)'
    BY GoneKept
  <1> QED
    BY <1>3, <1>4, <1>5, ControllerStep

(* A controller that goes on and has not begun yet: what it has to show. *)
LEMMA TakeoverStep ==
  ASSUME IInv, TypeOK', NEW c \in Controllers, ctl[c].pc \notin Begun, ctl'[c].pc \notin Begun,
         \A d \in Controllers \ {c} : /\ ctl'[d] = ctl[d]
                                      /\ row'[d] = row[d] \/ (At(d, "gone") /\ row'[d] = "none"),
         row'[c] = row[c], \A w \in Workers : row'[w] \in {row[w], "none"},
         \A v \in Workers : Owned(v)' \subseteq Owned(v),
         UNCHANGED <<boss, exec, code, events>>,
         ctl'[c].slot = ctl[c].slot, ctl'[c].pending = ctl[c].pending,
         ctl'[c].next = ctl[c].next, ctl'[c].told = ctl[c].told,
         ctl'[c].completed = ctl[c].completed, ctl'[c].failed = ctl[c].failed,
         Fades => Cleaning(c)'
  PROVE  IInv'
  <1>1. row[c] = "none" /\ ~Departed(c) /\ ~At(c, "gone")
    BY BeforeBegun
  <1>2. ControllerMoves(c)
    BY <1>1 DEF ControllerMoves, Begun
  <1>3. Slotted(c)'
    BY SlotsKept DEF SameSlots, Begun, Manning, Supervising
  <1>4. Accounted(c)' /\ Ending(c)'
    BY <1>1 DEF Accounted, Ending, Begun, At
  <1> QED
    BY <1>2, <1>3, <1>4, ControllerStep DEF Kept

(* The deadline of the cleanup passes. *)
LEMMA GroupOverdueStep ==
  ASSUME IInv, NEW c \in Controllers, GroupOverdue(c)
  PROVE  IInv'
  <1>1. row \in [Processes -> {"none"} \cup LiveRow \cup Ended] /\ faults \in 0..MaxFaults
        /\ Ending(c)
    BY Types DEF IInv, TypeOK, Kept
  <1> QED
    BY <1>1, GoneStep DEF GroupOverdue, At, Ending, jobVars

(* The claims of an erased worker are released ... *)
LEMMA ReclaimStep ==
  ASSUME IInv, NEW c \in Controllers, NEW w \in Workers, Reclaim(c, w)
  PROVE  IInv'
  <1>1. ctl \in [Controllers -> Memory] /\ TypeOK /\ ItemsOK /\ Cleaning(c)
    BY Types DEF IInv, Kept
  <1>2. /\ ctl[c].pc = "reclaim" /\ ctl'[c].pc = "reclaiming"
        /\ ctl' \in [Controllers -> Memory]
        /\ \A d \in Controllers \ {c} : ctl'[d] = ctl[d]
        /\ ctl'[c].slot = ctl[c].slot /\ ctl'[c].pending = ctl[c].pending
        /\ ctl'[c].next = ctl[c].next /\ ctl'[c].told = ctl[c].told
        /\ ctl'[c].completed = ctl[c].completed /\ ctl'[c].failed = ctl[c].failed
        /\ ctl'[c].old = ctl[c].old /\ ctl'[c].erased = ctl[c].erased
    BY <1>1, Going DEF Reclaim, At
  <1>3. ItemsOK' /\ \A v \in Workers : Owned(v)' \subseteq Owned(v)
    BY <1>1, ItemsPass DEF Reclaim
  <1>4. TypeOK'
    BY <1>1, <1>2, <1>3, Types, ControllerTypes DEF Reclaim, TypeOK
  <1>5. ASSUME Fades PROVE Cleaning(c)'
    <2>1. \A d \in ctl[c].old \cap Controllers : At(d, "gone")'
      BY <1>1, <1>2, <1>5 DEF Cleaning, Fades, At
    <2> QED
      BY <1>1, <1>2, <1>5, <2>1, StaysHarmless DEF Cleaning
  <1> QED
    BY <1>2, <1>3, <1>4, <1>5, TakeoverStep DEF Reclaim, Begun, Supervising

(* ... and recovered, and what had lapsed besides. *)
LEMMA ReclaimedStep ==
  ASSUME IInv, NEW c \in Controllers, Reclaimed(c)
  PROVE  IInv'
  <1>1. ctl \in [Controllers -> Memory] /\ TypeOK /\ ItemsOK /\ Cleaning(c)
    BY Types DEF IInv, Kept
  <1>2. /\ ctl[c].pc = "reclaiming" /\ ctl'[c].pc = "reclaim"
        /\ ctl' \in [Controllers -> Memory]
        /\ \A d \in Controllers \ {c} : ctl'[d] = ctl[d]
        /\ ctl'[c].slot = ctl[c].slot /\ ctl'[c].pending = ctl[c].pending
        /\ ctl'[c].next = ctl[c].next /\ ctl'[c].told = ctl[c].told
        /\ ctl'[c].completed = ctl[c].completed /\ ctl'[c].failed = ctl[c].failed
        /\ ctl'[c].old = ctl[c].old /\ ctl'[c].erased = ctl[c].erased
    BY <1>1, Going DEF Reclaimed, At
  <1>3. ItemsOK' /\ \A v \in Workers : Owned(v)' \subseteq Owned(v)
    BY <1>1, ItemsPass DEF Reclaimed
  <1>4. TypeOK'
    BY <1>1, <1>2, <1>3, Types, ControllerTypes DEF Reclaimed, TypeOK
  <1>5. ASSUME Fades PROVE Cleaning(c)'
    <2>1. \A d \in ctl[c].old \cap Controllers : At(d, "gone")'
      BY <1>1, <1>2, <1>5 DEF Cleaning, Fades, At
    <2> QED
      BY <1>1, <1>2, <1>5, <2>1, StaysHarmless DEF Cleaning
  <1> QED
    BY <1>2, <1>3, <1>4, <1>5, TakeoverStep DEF Reclaimed, Begun, Supervising

(* The rows of the group are erased: nothing of it holds a claim. *)
LEMMA EraseStep ==
  ASSUME IInv, NEW c \in Controllers, Erase(c)
  PROVE  IInv'
  <1>1. ctl \in [Controllers -> Memory] /\ TypeOK /\ ItemsOK /\ Cleaning(c)
        /\ row \in [Processes -> {"none"} \cup LiveRow \cup Ended]
        /\ want \in [Processes -> {"none", "drain"}]
    BY Types DEF IInv, Kept
  <1>2. /\ ctl[c].pc = "reclaim" /\ ctl'[c].pc = "check"
        /\ \A d \in Controllers \ {c} : ctl'[d] = ctl[d]
        /\ ctl'[c].slot = ctl[c].slot /\ ctl'[c].pending = ctl[c].pending
        /\ ctl'[c].next = ctl[c].next /\ ctl'[c].told = ctl[c].told
        /\ ctl'[c].completed = ctl[c].completed /\ ctl'[c].failed = ctl[c].failed
        /\ ctl'[c].erased = ctl[c].old
    BY <1>1 DEF Erase, At, Memory
  <1>3. ItemsOK' /\ \A v \in Workers : Owned(v)' = Owned(v)
    BY <1>1 DEF Erase, jobVars, ItemsOK, Owned
  <1>4. /\ row' \in [Processes -> {"none"} \cup LiveRow \cup Ended]
        /\ want' \in [Processes -> {"none", "drain"}]
        /\ \A p \in Processes : row'[p] = IF p \in ctl[c].old THEN "none" ELSE row[p]
    BY <1>1 DEF Erase
  <1>5. TypeOK'
    <2> DEFINE n == [ctl[c] EXCEPT !.pc = "check", !.old = {}, !.erased = ctl[c].old]
    <2>2. ctl' = [ctl EXCEPT ![c] = n]
      BY <1>1 DEF Erase
    <2>4. ctl[c] \in Memory /\ ctl[c].old \in SUBSET Processes /\ {} \in SUBSET Processes
      BY <1>1 DEF Memory
    <2>3. n \in Memory
      BY <2>4 DEF Memory
    <2> HIDE DEF n
    <2>1. ctl' \in [Controllers -> Memory]
      BY <1>1, <2>2, <2>3
    <2> QED
      BY <1>1, <1>3, <1>4, <2>1, ControllerTypes DEF Erase, TypeOK, jobVars
  <1>6. \A d \in ctl[c].old \cap Controllers : At(d, "gone")
    BY <1>1, <1>2 DEF Cleaning
  <1>7. ASSUME Fades PROVE Cleaning(c)'
    <2>1. \A w \in ctl[c].old \cap Workers :
            boss[w] # None /\ Departed(boss[w]) /\ exec[w] \in Harmless /\ Owned(w) = {}
      BY <1>1, <1>2 DEF Cleaning, Erase
    <2> QED
      BY <1>2, <1>7, <2>1, StaysHarmless DEF Cleaning
  <1> QED
    BY <1>2, <1>3, <1>4, <1>5, <1>6, <1>7, Names, TakeoverStep DEF Erase, Begun, Supervising, At

(* The check of ownership. *)
LEMMA CheckOwnershipStep ==
  ASSUME IInv, NEW c \in Controllers, CheckOwnership(c)
  PROVE  IInv'
  <1>1. ctl \in [Controllers -> Memory] /\ TypeOK /\ ItemsOK /\ Cleaning(c) /\ Ending(c)
        /\ row \in [Processes -> {"none"} \cup LiveRow \cup Ended]
        /\ want \in [Processes -> {"none", "drain"}] /\ faults \in 0..MaxFaults
    BY Types DEF IInv, Kept, TypeOK
  <1>2. CASE Gone(c)
    BY <1>1, <1>2, GoneStep DEF CheckOwnership, At, Ending, jobVars
  <1>3. CASE Goto(c, "activate")
    <2>1. /\ ctl[c].pc = "check" /\ ctl'[c].pc = "activate"
          /\ ctl' \in [Controllers -> Memory]
          /\ \A d \in Controllers \ {c} : ctl'[d] = ctl[d]
          /\ ctl'[c].slot = ctl[c].slot /\ ctl'[c].pending = ctl[c].pending
          /\ ctl'[c].next = ctl[c].next /\ ctl'[c].told = ctl[c].told
          /\ ctl'[c].completed = ctl[c].completed /\ ctl'[c].failed = ctl[c].failed
          /\ ctl'[c].erased = ctl[c].erased
      BY <1>1, <1>3, Going DEF CheckOwnership, At
    <2>2. ItemsOK' /\ \A v \in Workers : Owned(v)' = Owned(v)
      BY <1>1 DEF CheckOwnership, jobVars, ItemsOK, Owned
    <2>3. TypeOK'
      BY <1>1, <2>1, <2>2, ControllerTypes DEF CheckOwnership, jobVars
    <2>4. Fades => Cleaning(c)'
      BY <2>1, ErasedKept
    <2> QED
      BY <2>1, <2>2, <2>3, <2>4, TakeoverStep DEF CheckOwnership, Begun, Supervising
  <1> QED
    BY <1>2, <1>3 DEF CheckOwnership
-----------------------------------------------------------------------------
(* The controller at work.                                                 *)

(* A controller that is at work or fails goes on: what it has to show. *)
LEMMA SuperviseStep ==
  ASSUME IInv, TypeOK', NEW c \in Controllers,
         ctl[c].pc \in Supervising \cup {"failing"},
         ctl'[c].pc \in Supervising \cup {"failing", "closing"},
         ctl'[c].pc \in Supervising => ctl[c].pc \in Supervising,
         \A d \in Controllers \ {c} : ctl'[d] = ctl[d] /\ row'[d] = row[d],
         \/ row'[c] = row[c]
         \/ row[c] # "none" /\ row'[c] \in {"idle", "running", "draining"}
         \/ row[c] # "none" /\ row'[c] = "failed" /\ ctl'[c].pc \notin Supervising,
         \A w \in Workers : row'[w] = row[w] \/ (row[w] # "none" /\ row'[w] \in Ended),
         \A v \in Workers : Owned(v)' \subseteq Owned(v),
         UNCHANGED <<boss, exec, code, events>>,
         ctl'[c].erased = ctl[c].erased,
         Slotted(c)', Fades => Accounted(c)',
         ctl'[c].pc = "failing" => ctl'[c].error,
         ctl'[c].pc = "closing" /\ ~ctl'[c].error =>
            \A w \in Workers : boss[w] = c => Retired(w)
  PROVE  IInv'
  <1>1. RowsOK /\ OneController /\ Ending(c)
    BY DEF IInv, Kept
  <1>2. /\ ctl[c].pc \in Supervising => row[c] \in LiveRow
        /\ row[c] # "starting" /\ row[c] # "stopped" /\ row'[c] # "stopped"
    BY <1>1 DEF OneController, RowsOK, Ending, At, Supervising
  <1>3. ControllerMoves(c)
    BY <1>1, <1>2 DEF ControllerMoves, Begun, Supervising, LiveRow, Departed, At
  <1>4. ASSUME Fades PROVE Kept(c)'
    <2>1. \A w \in Workers : boss[w] = c /\ Retired(w) => Retired(w)'
      BY <1>4, Names DEF Fades, Retired
    <2>2. Ending(c)'
      BY <1>2, <2>1 DEF Ending, At
    <2>3. Cleaning(c)'
      BY <1>4, ErasedKept DEF Supervising
    <2> QED
      BY <1>4, <2>2, <2>3 DEF Kept
  <1> QED
    BY <1>3, <1>4, ControllerStep

(* The controller gets its row, when no other one is at work. *)
LEMMA ActivateStep ==
  ASSUME IInv, NEW c \in Controllers, Activate(c)
  PROVE  IInv'
  <1>1. ctl \in [Controllers -> Memory] /\ TypeOK /\ ItemsOK /\ RowsOK /\ Slotted(c) /\ Ending(c)
        /\ row \in [Processes -> {"none"} \cup LiveRow \cup Ended]
        /\ want \in [Processes -> {"none", "drain"}] /\ faults \in 0..MaxFaults
        /\ boss \in [Workers -> Controllers \cup {None}]
    BY Types DEF IInv, Kept, TypeOK
  <1>2. CASE Gone(c) /\ UNCHANGED row
    BY <1>1, <1>2, GoneStep DEF Activate, At, Ending, jobVars
  <1>3. CASE /\ \A d \in Controllers \ {c} : row[d] \notin LiveRow
             /\ row' = [row EXCEPT ![c] = "idle"] /\ Goto(c, "reserving")
    <2>1. /\ ctl[c].pc = "activate" /\ ctl'[c].pc = "reserving"
          /\ ctl' \in [Controllers -> Memory]
          /\ \A d \in Controllers \ {c} : ctl'[d] = ctl[d]
          /\ ctl'[c].slot = ctl[c].slot /\ ctl'[c].pending = ctl[c].pending
          /\ ctl'[c].next = ctl[c].next /\ ctl'[c].told = ctl[c].told
          /\ ctl'[c].completed = ctl[c].completed /\ ctl'[c].failed = ctl[c].failed
          /\ ctl'[c].erased = ctl[c].erased
      BY <1>1, <1>3, Going DEF Activate, At, Begun, Supervising
    <2>2. ItemsOK' /\ \A v \in Workers : Owned(v)' = Owned(v)
      BY <1>1 DEF Activate, jobVars, ItemsOK, Owned
    <2>3. /\ row' \in [Processes -> {"none"} \cup LiveRow \cup Ended]
          /\ row'[c] = "idle" /\ \A p \in Processes \ {c} : row'[p] = row[p]
      BY <1>1, <1>3, Names DEF LiveRow
    <2>4. TypeOK'
      BY <1>1, <2>1, <2>2, <2>3, ControllerTypes DEF Activate, jobVars
    <2>5. row[c] = "none" /\ ~Departed(c) /\ ~At(c, "gone")
      BY <2>1, BeforeBegun DEF Begun, Supervising
    <2>6. ControllerMoves(c)
      BY <1>3, <2>1, <2>2, <2>3, <2>5, Names
         DEF ControllerMoves, Activate, Begun, Supervising, LiveRow
    <2>7. ASSUME Fades PROVE Kept(c)'
      <3>1. Slotted(c)'
        BY <2>1, SlotsKept DEF SameSlots, Activate, Manning, Supervising
      <3>2. \A w \in Workers : boss[w] # c
        BY <1>1, <2>1, Names DEF RowsOK, Begun, Supervising
      <3>3. ctl[c].told = {}
        BY <1>1, <2>1 DEF Slotted, Manning, Supervising
      <3>4. Accounted(c)'
        BY <2>1, <3>2, <3>3 DEF Accounted, Activate
      <3>5. Ending(c)'
        BY <2>1, <2>3 DEF Ending, At
      <3>6. Cleaning(c)'
        BY <2>1, <2>7, ErasedKept
      <3> QED
        BY <3>1, <3>4, <3>5, <3>6 DEF Kept
    <2> QED
      BY <2>4, <2>6, <2>7, ControllerStep
  <1> QED
    BY <1>2, <1>3 DEF Activate

(* A reservation fails. *)
LEMMA ReserveFailsStep ==
  ASSUME IInv, NEW c \in Controllers, ReserveFails(c)
  PROVE  IInv'
  <1>1. row \in [Processes -> {"none"} \cup LiveRow \cup Ended] /\ faults \in 0..MaxFaults
        /\ TypeOK
    BY Types DEF IInv, TypeOK
  <1>2. faults' \in 0..MaxFaults
    BY <1>1, SupervisionAssumption DEF ReserveFails, Fault
  <1>3. /\ row' \in [Processes -> {"none"} \cup LiveRow \cup Ended]
        /\ \A p \in Processes \ {c} : row'[p] = row[p]
        /\ row'[c] = row[c] \/ (row[c] # "none" /\ row'[c] = "failed")
    BY <1>1, Names DEF ReserveFails, Ended
  <1>4. row[c] # "stopped"
    BY DEF IInv, Kept, Ending, ReserveFails, At
  <1> QED
    BY <1>2, <1>3, <1>4, GoneStep DEF ReserveFails, At, jobVars, Ended

(* kill -9. *)
LEMMA KillControllerStep ==
  ASSUME IInv, NEW c \in Controllers, KillController(c)
  PROVE  IInv'
  <1>1. row \in [Processes -> {"none"} \cup LiveRow \cup Ended] /\ faults \in 0..MaxFaults
        /\ TypeOK /\ Ending(c)
    BY Types DEF IInv, TypeOK, Kept
  <1>2. faults' \in 0..MaxFaults
    BY <1>1, SupervisionAssumption DEF KillController, Fault
  <1>3. ~At(c, "gone")
    BY Names DEF KillController, Alive, At
  <1> QED
    BY <1>1, <1>2, <1>3, GoneStep DEF KillController, Ending, jobVars

(* Every child has exited, and the controller says how it went. *)
LEMMA CloseStep ==
  ASSUME IInv, NEW c \in Controllers, Close(c)
  PROVE  IInv'
  <1>1. row \in [Processes -> {"none"} \cup LiveRow \cup Ended] /\ faults \in 0..MaxFaults
        /\ TypeOK /\ Ending(c)
    BY Types DEF IInv, TypeOK, Kept
  <1>2. /\ row' \in [Processes -> {"none"} \cup LiveRow \cup Ended]
        /\ \A p \in Processes \ {c} : row'[p] = row[p]
        /\ row'[c] = row[c] \/ (row[c] # "none" /\ row'[c] \in Ended)
        /\ row'[c] = "stopped" => row[c] = "stopped" \/ ~ctl[c].error
    BY <1>1, Names DEF Close, Finished, Ended
  <1> QED
    BY <1>1, <1>2, GoneStep DEF Close, At, Ending, jobVars
(* The memory of a controller after an assignment to some of its fields. *)
LEMMA Remembering ==
  ASSUME ctl \in [Controllers -> Memory], NEW c \in Controllers, NEW n \in Memory,
         ctl' = [ctl EXCEPT ![c] = n]
  PROVE  /\ ctl' \in [Controllers -> Memory] /\ ctl'[c] = n
         /\ \A d \in Controllers \ {c} : ctl'[d] = ctl[d]
  OBVIOUS

(* A write fails. *)
LEMMA BreaksStep ==
  ASSUME IInv, NEW c \in Controllers, Breaks(c)
  PROVE  IInv'
  <1>1. ctl \in [Controllers -> Memory] /\ ctl[c] \in Memory /\ TypeOK /\ ItemsOK
        /\ row \in [Processes -> {"none"} \cup LiveRow \cup Ended]
        /\ want \in [Processes -> {"none", "drain"}] /\ faults \in 0..MaxFaults
    BY Types DEF IInv, TypeOK
  <1> DEFINE n == [ctl[c] EXCEPT !.pc = "failing", !.error = TRUE]
  <1>2. ctl' = [ctl EXCEPT ![c] = n]
    BY <1>1 DEF Breaks
  <1>3. n \in Memory
    BY <1>1 DEF Memory
  <1>4. /\ n.pc = "failing" /\ n.error = TRUE /\ n.erased = ctl[c].erased
        /\ n.slot = ctl[c].slot /\ n.pending = ctl[c].pending /\ n.next = ctl[c].next
        /\ n.told = ctl[c].told /\ n.completed = ctl[c].completed /\ n.failed = ctl[c].failed
    BY <1>1 DEF Memory
  <1> HIDE DEF n
  <1>5. /\ ctl' \in [Controllers -> Memory] /\ ctl'[c] = n
        /\ \A d \in Controllers \ {c} : ctl'[d] = ctl[d]
    BY <1>1, <1>2, <1>3, Remembering
  <1>6. ItemsOK' /\ \A v \in Workers : Owned(v)' = Owned(v)
    BY <1>1 DEF Breaks, jobVars, ItemsOK, Owned
  <1>7. TypeOK'
    <2>1. faults' \in 0..MaxFaults
      BY <1>1, SupervisionAssumption DEF Breaks, Fault
    <2> QED
      BY <1>1, <1>5, <1>6, <2>1, ControllerTypes DEF Breaks, jobVars
  <1>8. Slotted(c)'
    BY <1>4, <1>5, SlotsKept DEF SameSlots, Breaks, Manning, Supervising
  <1>9. Accounted(c)'
    BY <1>4, <1>5 DEF Accounted, Supervising
  <1> QED
    BY <1>4, <1>5, <1>6, <1>7, <1>8, <1>9, SuperviseStep DEF Breaks, Supervising

(* The heartbeat. *)
LEMMA BeatStep ==
  ASSUME IInv, NEW c \in Controllers, NEW due \in BOOLEAN, Beat(c, due)
  PROVE  IInv'
  <1>1. ctl \in [Controllers -> Memory] /\ ctl[c] \in Memory /\ TypeOK /\ ItemsOK
        /\ row \in [Processes -> {"none"} \cup LiveRow \cup Ended]
        /\ want \in [Processes -> {"none", "drain"}] /\ faults \in 0..MaxFaults
        /\ Slotted(c) /\ row[c] \in LiveRow /\ ctl[c].pc = "beat"
    BY Types DEF IInv, TypeOK, Kept, Beat, At, OneController, Supervising
  <1> DEFINE ready == ctl[c].ready \/ (~ctl[c].draining /\ Cardinality(Registered(c)) = Count)
             pc == IF ctl[c].seen = 0 THEN "slots" ELSE "finish"
             n == [ctl[c] EXCEPT !.ready = ready, !.cur = 1, !.pc = pc]
  <1>2. ctl' = [ctl EXCEPT ![c] = n]
    BY <1>1 DEF Beat
  <1>3. ready \in BOOLEAN
    BY <1>1 DEF Memory
  <1>4. 1 \in 1..(Count + 1) /\ pc \in {"slots", "finish"}
        /\ (pc = "finish" => ctl[c].seen # 0)
    BY SupervisionAssumption
  <1> HIDE DEF ready, pc
  <1>5. n \in Memory
    BY <1>1, <1>3, <1>4 DEF Memory, Supervising
  <1>6. /\ n.pc = pc /\ n.erased = ctl[c].erased /\ n.seen = ctl[c].seen
        /\ n.slot = ctl[c].slot /\ n.pending = ctl[c].pending /\ n.next = ctl[c].next
        /\ n.told = ctl[c].told /\ n.completed = ctl[c].completed /\ n.failed = ctl[c].failed
    BY <1>1 DEF Memory
  <1> HIDE DEF n
  <1>7. /\ ctl' \in [Controllers -> Memory] /\ ctl'[c] = n
        /\ \A d \in Controllers \ {c} : ctl'[d] = ctl[d]
    BY <1>1, <1>2, <1>5, Remembering
  <1>8. ItemsOK' /\ \A v \in Workers : Owned(v)' = Owned(v)
    BY <1>1 DEF Beat, jobVars, ItemsOK, Owned
  <1>9. /\ row' \in [Processes -> {"none"} \cup LiveRow \cup Ended]
        /\ \A p \in Processes \ {c} : row'[p] = row[p]
        /\ row'[c] = row[c] \/ row'[c] \in {"idle", "running", "draining"}
    BY <1>1, Names DEF Beat, LiveRow
  <1>10. TypeOK'
    BY <1>1, <1>7, <1>8, <1>9, ControllerTypes DEF Beat, jobVars
  <1>11. Slotted(c)'
    BY <1>1, <1>4, <1>6, <1>7, SlotsKept DEF SameSlots, Beat, Manning, Supervising
  <1>12. Fades => Accounted(c)'
    <2>1. \A s \in ctl[c].told : s \in Observed(c) => s \in Observed(c)'
      <3>1. \A s \in ctl[c].told : s # 0
        BY <1>1 DEF Memory, Slots
      <3>2. ctl[c].seen # 0 => pc = "finish"
        BY DEF pc
      <3> QED
        BY <1>1, <1>6, <1>7, <3>1, <3>2 DEF Observed
    <2> QED
      BY <1>1, <1>6, <1>7, <2>1, AccountedKept DEF Beat, Supervising
  <1> QED
    BY <1>1, <1>4, <1>6, <1>7, <1>8, <1>9, <1>10, <1>11, <1>12, Names, SuperviseStep
       DEF Beat, Supervising, LiveRow

(* The observed exit is recorded. *)
LEMMA FinishStep ==
  ASSUME IInv, NEW c \in Controllers, Finish(c)
  PROVE  IInv'
  <1> DEFINE pc == IF ctl[c].ready /\ ~ctl[c].draining THEN "release" ELSE "slots"
             w == ctl[c].slot[ctl[c].seen]
  <1>1. ctl \in [Controllers -> Memory] /\ ctl[c] \in Memory /\ TypeOK /\ ItemsOK
        /\ row \in [Processes -> {"none"} \cup LiveRow \cup Ended]
        /\ want \in [Processes -> {"none", "drain"}] /\ faults \in 0..MaxFaults
        /\ Slotted(c) /\ ctl[c].pc = "finish"
    BY Types DEF IInv, TypeOK, Kept, Finish, At
  <1>2. ctl[c].seen \in ctl[c].told /\ w \in Workers
    BY <1>1 DEF Slotted, Memory
  <1>3. Goto(c, pc) /\ pc \in {"release", "slots"} /\ pc \in Begun /\ pc \in Supervising
    BY DEF Finish, Goto, Begun, Supervising
  <1> HIDE DEF pc
  <1>4. /\ ctl' \in [Controllers -> Memory] /\ ctl'[c].pc = pc
        /\ \A d \in Controllers \ {c} : ctl'[d] = ctl[d]
        /\ ctl'[c].erased = ctl[c].erased /\ ctl'[c].seen = ctl[c].seen
        /\ ctl'[c].slot = ctl[c].slot /\ ctl'[c].pending = ctl[c].pending
        /\ ctl'[c].next = ctl[c].next /\ ctl'[c].told = ctl[c].told
        /\ ctl'[c].completed = ctl[c].completed /\ ctl'[c].failed = ctl[c].failed
    BY <1>1, <1>3, Going
  <1>5. ItemsOK' /\ \A v \in Workers : Owned(v)' = Owned(v)
    BY <1>1 DEF Finish, jobVars, ItemsOK, Owned
  <1>6. /\ row' = IF row[w] \in Ended THEN row ELSE Finished(w, Terminal(w))
        /\ Terminal(w) \in Ended
    BY DEF Finish, Terminal, Ended
  <1> HIDE DEF w
  <1>7. /\ row' \in [Processes -> {"none"} \cup LiveRow \cup Ended]
        /\ \A p \in Processes \ {w} : row'[p] = row[p]
        /\ row'[w] = row[w] \/ (row[w] # "none" /\ row'[w] \in Ended)
        /\ row'[w] \notin LiveRow
    BY <1>1, <1>2, <1>6, Names DEF Finished, LiveRow, Ended
  <1>8. TypeOK'
    BY <1>1, <1>4, <1>5, <1>7, ControllerTypes DEF Finish, jobVars
  <1>9. Slotted(c)'
    BY <1>1, <1>3, <1>4, SlotsKept DEF SameSlots, Finish, Manning, Supervising
  <1>10. Fades => Accounted(c)'
    BY <1>1, <1>4, <1>7, AccountedKept DEF Finish, Supervising, Observed, w
  <1>11. /\ \A d \in Controllers : row'[d] = row[d]
         /\ \A v \in Workers : row'[v] = row[v] \/ (row[v] # "none" /\ row'[v] \in Ended)
    BY <1>2, <1>7, Names
  <1> QED
    BY <1>1, <1>3, <1>4, <1>5, <1>8, <1>9, <1>10, <1>11, SuperviseStep
       DEF Finish, Supervising

(* Its claims are released ... *)
LEMMA ReleaseStep ==
  ASSUME IInv, NEW c \in Controllers, Release(c)
  PROVE  IInv'
  <1>1. ctl \in [Controllers -> Memory] /\ ctl[c] \in Memory /\ TypeOK /\ ItemsOK
        /\ row \in [Processes -> {"none"} \cup LiveRow \cup Ended]
        /\ want \in [Processes -> {"none", "drain"}] /\ faults \in 0..MaxFaults
        /\ Slotted(c) /\ ctl[c].pc = "release"
    BY Types DEF IInv, TypeOK, Kept, Release, At
  <1>2. ctl[c].seen \in ctl[c].told /\ ctl[c].slot[ctl[c].seen] \in Workers
    BY <1>1 DEF Slotted, Memory
  <1>3. /\ ctl' \in [Controllers -> Memory] /\ ctl'[c].pc = "recover"
        /\ \A d \in Controllers \ {c} : ctl'[d] = ctl[d]
        /\ ctl'[c].erased = ctl[c].erased /\ ctl'[c].seen = ctl[c].seen
        /\ ctl'[c].slot = ctl[c].slot /\ ctl'[c].pending = ctl[c].pending
        /\ ctl'[c].next = ctl[c].next /\ ctl'[c].told = ctl[c].told
        /\ ctl'[c].completed = ctl[c].completed /\ ctl'[c].failed = ctl[c].failed
    BY <1>1, Going DEF Release, Begun, Supervising
  <1>4. ItemsOK' /\ \A v \in Workers : Owned(v)' = Owned(v)
    BY <1>1, <1>2, ItemsPass DEF Release
  <1>5. TypeOK'
    BY <1>1, <1>3, <1>4, ControllerTypes DEF Release
  <1>6. Slotted(c)'
    BY <1>1, <1>3, SlotsKept DEF SameSlots, Release, Manning, Supervising
  <1>7. Fades => Accounted(c)'
    BY <1>1, <1>3, AccountedKept DEF Release, Supervising, Observed
  <1> QED
    BY <1>1, <1>3, <1>4, <1>5, <1>6, <1>7, SuperviseStep DEF Release, Supervising
(* Slots that are parked, or no longer, and observed as before. *)
LEMMA Reparked ==
  ASSUME IInv, NEW c \in Controllers, UNCHANGED <<boss, exec, code>>,
         ctl[c].pc \in Manning \ {"launching"}, ctl'[c].pc = "slots",
         ctl'[c].slot = ctl[c].slot, ctl'[c].told = ctl[c].told,
         ctl'[c].completed = ctl[c].completed, ctl'[c].failed = ctl[c].failed,
         \A s \in Slots : /\ ctl'[c].next[s] # None <=> ctl'[c].pending[s] = 2
                          /\ ctl'[c].next[s] \in {ctl[c].next[s], None}
                          /\ ctl'[c].pending[s] # 0 => s \in ctl[c].told
  PROVE  Slotted(c)'
  <1> DEFINE m == ctl[c]
             n == ctl'[c]
  <1>1. Slotted(c)
    BY DEF IInv, Kept
  <1>2. \A s \in Slots :
            /\ m.slot[s] # None => boss[m.slot[s]] = c
            /\ m.pc \in Manning => m.slot[s] # None
            /\ m.next[s] # None => boss[m.next[s]] = c /\ exec[m.next[s]] = "no"
            /\ \A t \in Slots \ {s} : m.next[s] # None => m.next[s] # m.next[t]
            /\ s \in m.told => m.slot[s] # None /\ exec[m.slot[s]] = "done"
    BY <1>1 DEF Slotted
  <1>3. /\ m.completed = Cardinality(m.told)
        /\ m.failed = Cardinality({s \in m.told : code[m.slot[s]] = 1})
    BY <1>1 DEF Slotted
  <1>4. n.pc = "slots" /\ n.pc \in Manning \ {"launching"}
    BY DEF Manning, Supervising
  <1>5. /\ m.pc \in Manning /\ n.slot = m.slot /\ n.told = m.told
        /\ n.completed = m.completed /\ n.failed = m.failed
        /\ \A s \in Slots : /\ n.next[s] # None <=> n.pending[s] = 2
                            /\ n.next[s] \in {m.next[s], None}
                            /\ n.pending[s] # 0 => s \in m.told
    OBVIOUS
  <1> HIDE DEF m, n
  <1>6. \A s \in Slots :
            /\ n.slot[s] # None => boss'[n.slot[s]] = c
            /\ n.pc \in Manning => n.slot[s] # None
            /\ n.next[s] # None <=> n.pending[s] = 2
            /\ n.next[s] # None => boss'[n.next[s]] = c /\ exec'[n.next[s]] = "no"
            /\ \A t \in Slots \ {s} : n.next[s] # None => n.next[s] # n.next[t]
            /\ n.pending[s] # 0 => s \in n.told
            /\ s \in n.told => n.slot[s] # None /\ exec'[n.slot[s]] = "done"
    BY <1>2, <1>5
  <1>7. /\ n.completed = Cardinality(n.told)
        /\ n.failed = Cardinality({s \in n.told : code'[n.slot[s]] = 1})
    BY <1>3, <1>5
  <1> QED
    BY <1>4, <1>6, <1>7 DEF Slotted, n

(* What is known of the slots of a controller that walks over them. *)
LEMMA AtWork ==
  ASSUME IInv, NEW c \in Controllers
  PROVE  /\ ctl \in [Controllers -> Memory] /\ ctl[c] \in Memory /\ TypeOK /\ ItemsOK
         /\ row \in [Processes -> {"none"} \cup LiveRow \cup Ended]
         /\ want \in [Processes -> {"none", "drain"}] /\ faults \in 0..MaxFaults
         /\ boss \in [Workers -> Controllers \cup {None}]
         /\ exec \in [Workers -> {"no", "launched", "waiting", "top", "polled", "working", "done"}]
         /\ code \in [Workers -> 0..1]
         /\ Slotted(c) /\ Accounted(c) /\ Ending(c) /\ RowsOK
         /\ ctl[c].pc \in Supervising => row[c] \in LiveRow
  BY Types DEF IInv, TypeOK, Kept, OneController

(* ... and recovered, and what had lapsed besides; the slot is parked. *)
LEMMA RecoverStep ==
  ASSUME IInv, NEW c \in Controllers, Recover(c)
  PROVE  IInv'
  <1>1. ctl \in [Controllers -> Memory] /\ ctl[c] \in Memory /\ TypeOK /\ ItemsOK
        /\ row \in [Processes -> {"none"} \cup LiveRow \cup Ended]
        /\ want \in [Processes -> {"none", "drain"}] /\ faults \in 0..MaxFaults
        /\ Slotted(c) /\ ctl[c].pc = "recover"
    BY AtWork DEF Recover, At
  <1> DEFINE p == [ctl[c].pending EXCEPT ![ctl[c].seen] = 1]
             n == [ctl[c] EXCEPT !.pc = "slots", !.pending = p]
  <1>2. ctl[c].seen \in ctl[c].told /\ ctl[c].seen \in Slots /\ ctl[c].pending[ctl[c].seen] = 0
    BY <1>1 DEF Slotted, Memory
  <1>3. ctl' = [ctl EXCEPT ![c] = n]
    BY <1>1 DEF Recover
  <1>4. /\ p \in [Slots -> 0..2] /\ p[ctl[c].seen] = 1
        /\ \A s \in Slots \ {ctl[c].seen} : p[s] = ctl[c].pending[s]
    BY <1>1, <1>2 DEF Memory
  <1> HIDE DEF p
  <1>5. n \in Memory
    BY <1>1, <1>4 DEF Memory, Supervising
  <1>6. /\ n.pc = "slots" /\ n.pending = p /\ n.erased = ctl[c].erased
        /\ n.slot = ctl[c].slot /\ n.next = ctl[c].next
        /\ n.told = ctl[c].told /\ n.completed = ctl[c].completed /\ n.failed = ctl[c].failed
    BY <1>1 DEF Memory
  <1> HIDE DEF n
  <1>7. /\ ctl' \in [Controllers -> Memory] /\ ctl'[c] = n
        /\ \A d \in Controllers \ {c} : ctl'[d] = ctl[d]
    BY <1>1, <1>3, <1>5, Remembering
  <1>8. ItemsOK' /\ \A v \in Workers : Owned(v)' \subseteq Owned(v)
    BY <1>1, ItemsPass DEF Recover
  <1>9. TypeOK'
    BY <1>1, <1>7, <1>8, ControllerTypes DEF Recover
  <1>10. Slotted(c)'
    <2>1. \A s \in Slots : ctl[c].next[s] # None <=> ctl[c].pending[s] = 2
      BY <1>1 DEF Slotted
    <2>2. \A s \in Slots : ctl[c].pending[s] # 0 => s \in ctl[c].told
      BY <1>1 DEF Slotted
    <2>3. \A s \in Slots : /\ n.next[s] # None <=> n.pending[s] = 2
                           /\ n.next[s] \in {ctl[c].next[s], None}
                           /\ n.pending[s] # 0 => s \in ctl[c].told
      BY <1>2, <1>4, <1>6, <2>1, <2>2
    <2> QED
      BY <1>1, <1>6, <1>7, <2>3, Reparked DEF Recover, Manning, Supervising
  <1>11. Fades => Accounted(c)'
    BY <1>1, <1>6, <1>7, AccountedKept DEF Recover, Supervising, Observed
  <1> QED
    BY <1>1, <1>6, <1>7, <1>8, <1>9, <1>10, <1>11, SuperviseStep DEF Recover, Supervising

(* A slot is passed by, or its replacement is refused. *)
LEMMA PassingStep ==
  ASSUME IInv, NEW c \in Controllers, NEW s \in Slots, PassSlot(c, s) \/ RefuseReplacement(c, s)
  PROVE  IInv'
  <1>1. ctl \in [Controllers -> Memory] /\ ctl[c] \in Memory /\ TypeOK /\ ItemsOK
        /\ row \in [Processes -> {"none"} \cup LiveRow \cup Ended]
        /\ want \in [Processes -> {"none", "drain"}] /\ faults \in 0..MaxFaults
        /\ Slotted(c) /\ ctl[c].pc = "slots" /\ s + 1 \in 1..(Count + 1)
        /\ UNCHANGED <<row, want, boss, exec, code, item, env, events, faults>>
    BY AtWork, SupervisionAssumption
       DEF PassSlot, RefuseReplacement, AtSlot, At, Slots, jobVars
  <1>2. PICK p \in [Slots -> 0..2] :
           /\ ctl' = [ctl EXCEPT ![c] = [ctl[c] EXCEPT !.cur = s + 1, !.pending = p]]
           /\ \A t \in Slots : p[t] = ctl[c].pending[t] \/ (p[t] = 0 /\ ctl[c].pending[t] = 1)
    <2>1. CASE PassSlot(c, s)
      <3>1. ctl' = [ctl EXCEPT ![c] = [ctl[c] EXCEPT !.cur = s + 1, !.pending = ctl[c].pending]]
        BY <1>1, <2>1 DEF PassSlot, Memory
      <3> QED
        BY <1>1, <3>1 DEF Memory
    <2>2. CASE RefuseReplacement(c, s)
      <3> DEFINE p == [ctl[c].pending EXCEPT ![s] = 0]
      <3>1. ctl' = [ctl EXCEPT ![c] = [ctl[c] EXCEPT !.cur = s + 1, !.pending = p]]
        BY <1>1, <2>2 DEF RefuseReplacement
      <3>2. /\ p \in [Slots -> 0..2]
            /\ \A t \in Slots : p[t] = ctl[c].pending[t] \/ (p[t] = 0 /\ ctl[c].pending[t] = 1)
        BY <1>1, <2>2 DEF Memory, RefuseReplacement
      <3> QED
        BY <3>1, <3>2
    <2> QED
      BY <2>1, <2>2
  <1> DEFINE n == [ctl[c] EXCEPT !.cur = s + 1, !.pending = p]
  <1>5. n \in Memory
    BY <1>1 DEF Memory
  <1>6. /\ n.pc = "slots" /\ n.pending = p /\ n.erased = ctl[c].erased
        /\ n.slot = ctl[c].slot /\ n.next = ctl[c].next
        /\ n.told = ctl[c].told /\ n.completed = ctl[c].completed /\ n.failed = ctl[c].failed
    BY <1>1 DEF Memory
  <1>7. /\ ctl' \in [Controllers -> Memory] /\ ctl'[c] = n
        /\ \A d \in Controllers \ {c} : ctl'[d] = ctl[d]
    BY <1>1, <1>2, <1>5, Remembering
  <1> HIDE DEF n
  <1>8. ItemsOK' /\ \A v \in Workers : Owned(v)' = Owned(v)
    BY <1>1 DEF ItemsOK, Owned
  <1>9. TypeOK'
    BY <1>1, <1>7, <1>8, ControllerTypes
  <1>10. Slotted(c)'
    <2>1. \A t \in Slots : ctl[c].next[t] # None <=> ctl[c].pending[t] = 2
      BY <1>1 DEF Slotted
    <2>2. \A t \in Slots : ctl[c].pending[t] # 0 => t \in ctl[c].told
      BY <1>1 DEF Slotted
    <2>3. \A t \in Slots : /\ n.next[t] # None <=> n.pending[t] = 2
                           /\ n.next[t] \in {ctl[c].next[t], None}
                           /\ n.pending[t] # 0 => t \in ctl[c].told
      BY <1>2, <1>6, <2>1, <2>2
    <2> QED
      BY <1>1, <1>6, <1>7, <2>3, Reparked DEF Manning, Supervising
  <1>11. Fades => Accounted(c)'
    BY <1>1, <1>6, <1>7, AccountedKept DEF Supervising, Observed
  <1> QED
    BY <1>1, <1>6, <1>7, <1>8, <1>9, <1>10, <1>11, SuperviseStep DEF Supervising

(* A replacement is given up; the row that was reserved for it may stay. *)
LEMMA AbandonStep ==
  ASSUME IInv, NEW c \in Controllers, NEW s \in Slots, Abandon(c, s) \/ AbandonFails(c, s)
  PROVE  IInv'
  <1>1. ctl \in [Controllers -> Memory] /\ ctl[c] \in Memory /\ TypeOK /\ ItemsOK
        /\ row \in [Processes -> {"none"} \cup LiveRow \cup Ended]
        /\ want \in [Processes -> {"none", "drain"}] /\ faults \in 0..MaxFaults
        /\ Slotted(c) /\ Accounted(c) /\ ctl[c].pc = "slots" /\ s + 1 \in 1..(Count + 1)
        /\ UNCHANGED <<want, boss, exec, code, item, env, events>> /\ faults' \in 0..MaxFaults
    BY AtWork, SupervisionAssumption DEF Abandon, AbandonFails, GiveUp, Fault, AtSlot, At, Slots, jobVars
  <1> DEFINE p == [ctl[c].pending EXCEPT ![s] = 0]
             x == [ctl[c].next EXCEPT ![s] = None]
             n == [ctl[c] EXCEPT !.cur = s + 1, !.pending = p, !.next = x]
             w == ctl[c].next[s]
  <1>2. ctl' = [ctl EXCEPT ![c] = n]
    <2>1. GiveUp(c, s)
      BY DEF Abandon, AbandonFails
    <2> QED
      BY <1>1, <2>1 DEF GiveUp
  <1>3. /\ p \in [Slots -> 0..2] /\ p[s] = 0 /\ x \in [Slots -> Workers \cup {None}] /\ x[s] = None
        /\ \A t \in Slots \ {s} : p[t] = ctl[c].pending[t] /\ x[t] = ctl[c].next[t]
        /\ w \in Workers \cup {None}
    BY <1>1 DEF Memory
  <1> HIDE DEF p, x
  <1>5. n \in Memory
    BY <1>1, <1>3 DEF Memory
  <1>6. /\ n.pc = "slots" /\ n.pending = p /\ n.next = x /\ n.erased = ctl[c].erased
        /\ n.slot = ctl[c].slot
        /\ n.told = ctl[c].told /\ n.completed = ctl[c].completed /\ n.failed = ctl[c].failed
    BY <1>1 DEF Memory
  <1>7. /\ ctl' \in [Controllers -> Memory] /\ ctl'[c] = n
        /\ \A d \in Controllers \ {c} : ctl'[d] = ctl[d]
    BY <1>1, <1>2, <1>5, Remembering
  <1> HIDE DEF n
  <1>8. ItemsOK' /\ \A v \in Workers : Owned(v)' = Owned(v)
    BY <1>1 DEF ItemsOK, Owned
  <1>9. /\ row' \in [Processes -> {"none"} \cup LiveRow \cup Ended]
        /\ \A q \in Processes \ {w} : row'[q] = row[q]
        /\ w # None => row'[w] = row[w] \/ (row[w] # "none" /\ row'[w] = "stopped")
    BY <1>1, <1>3, Names DEF Abandon, AbandonFails, Finished, LiveRow, Ended
  <1>10. TypeOK'
    BY <1>1, <1>7, <1>8, <1>9, ControllerTypes
  <1>11. Slotted(c)'
    <2>1. \A t \in Slots : ctl[c].next[t] # None <=> ctl[c].pending[t] = 2
      BY <1>1 DEF Slotted
    <2>2. \A t \in Slots : ctl[c].pending[t] # 0 => t \in ctl[c].told
      BY <1>1 DEF Slotted
    <2>3. \A t \in Slots : /\ n.next[t] # None <=> n.pending[t] = 2
                           /\ n.next[t] \in {ctl[c].next[t], None}
                           /\ n.pending[t] # 0 => t \in ctl[c].told
      BY <1>3, <1>6, <2>1, <2>2
    <2> QED
      BY <1>1, <1>6, <1>7, <2>3, Reparked DEF Manning, Supervising
  <1>12. ASSUME Fades PROVE Accounted(c)'
    <2>1. \A v \in Workers : boss[v] = c /\ Retired(v) => Retired(v)'
      BY <1>1, <1>12, Names DEF Fades, Retired
    <2>2. w # None => exec'[w] = "no"
      BY <1>1, <1>9 DEF Slotted
    <2>3. \A v \in Workers : boss[v] = c =>
            Retired(v)' \/ \E t \in Slots : v = n.slot[t] \/ v = n.next[t]
      <3> SUFFICES ASSUME NEW v \in Workers, boss[v] = c, ~Retired(v)'
                   PROVE  \E t \in Slots : v = n.slot[t] \/ v = n.next[t]
        OBVIOUS
      <3>1. PICK t \in Slots : v = ctl[c].slot[t] \/ v = ctl[c].next[t]
        BY <1>1, <2>1 DEF Accounted, Supervising
      <3>2. v # w
        BY <2>2, Names DEF Retired
      <3> QED
        BY <1>3, <1>6, <3>1, <3>2
    <2>4. \A t \in ctl[c].told : /\ ctl[c].slot[t] \in Workers /\ boss[ctl[c].slot[t]] = c
                                 /\ exec[ctl[c].slot[t]] = "done"
      BY <1>1 DEF Slotted, Memory
    <2>5. \A t \in ctl[c].told : row[ctl[c].slot[t]] \notin LiveRow
      BY <1>1 DEF Accounted, Observed, Supervising
    <2>6. \A t \in ctl[c].told : row'[ctl[c].slot[t]] \notin LiveRow
      BY <1>12, <2>4, <2>5 DEF Fades
    <2> QED
      BY <1>1, <1>6, <1>7, <2>3, <2>6 DEF Accounted
  <1>13. /\ \A d \in Controllers : row'[d] = row[d]
         /\ \A v \in Workers : row'[v] = row[v] \/ (row[v] # "none" /\ row'[v] \in Ended)
    BY <1>3, <1>9, Names DEF Ended
  <1> QED
    BY <1>1, <1>6, <1>7, <1>8, <1>10, <1>11, <1>12, <1>13, SuperviseStep DEF Supervising
(* The end of a turn: the group fails, is done, or goes on. *)
LEMMA EndSlotsStep ==
  ASSUME IInv, NEW c \in Controllers, EndSlots(c)
  PROVE  IInv'
  <1>1. ctl \in [Controllers -> Memory] /\ ctl[c] \in Memory /\ TypeOK /\ ItemsOK
        /\ row \in [Processes -> {"none"} \cup LiveRow \cup Ended]
        /\ want \in [Processes -> {"none", "drain"}] /\ faults \in 0..MaxFaults
        /\ Slotted(c) /\ Accounted(c) /\ ctl[c].pc = "slots"
        /\ UNCHANGED <<row, want, boss, exec, code, item, env, events, faults>>
    BY AtWork DEF EndSlots, At, jobVars
  <1> DEFINE m == ctl[c]
             startupFailed == m.failed > 0 /\ ~m.ready /\ ~m.draining
             pc == IF startupFailed THEN "failing"
                   ELSE IF m.completed = Count /\ \A s \in Slots : m.pending[s] = 0
                   THEN "closing" ELSE "loop"
             n == [ctl[c] EXCEPT !.error = startupFailed, !.cur = 1, !.pc = pc]
  <1>2. ctl' = [ctl EXCEPT ![c] = n]
    BY <1>1 DEF EndSlots
  <1>3. /\ startupFailed \in BOOLEAN /\ 1 \in 1..(Count + 1)
        /\ pc \in {"failing", "closing", "loop"}
        /\ pc = "failing" => startupFailed
        /\ pc = "closing" => m.completed = Count /\ \A s \in Slots : m.pending[s] = 0
    BY SupervisionAssumption
  <1> HIDE DEF startupFailed, pc
  <1>5. n \in Memory
    BY <1>1, <1>3 DEF Memory, Supervising
  <1>6. /\ n.pc = pc /\ n.error = startupFailed /\ n.erased = m.erased
        /\ n.slot = m.slot /\ n.pending = m.pending /\ n.next = m.next
        /\ n.told = m.told /\ n.completed = m.completed /\ n.failed = m.failed
    BY <1>1 DEF Memory
  <1> HIDE DEF n
  <1>7. /\ ctl' \in [Controllers -> Memory] /\ ctl'[c] = n
        /\ \A d \in Controllers \ {c} : ctl'[d] = ctl[d]
    BY <1>1, <1>2, <1>5, Remembering
  <1>8. ItemsOK' /\ \A v \in Workers : Owned(v)' = Owned(v)
    BY <1>1 DEF ItemsOK, Owned
  <1>9. TypeOK'
    BY <1>1, <1>7, <1>8, ControllerTypes
  <1>10. Slotted(c)'
    BY <1>1, <1>3, <1>6, <1>7, SlotsKept DEF SameSlots, Manning, Supervising
  <1>11. Fades => Accounted(c)'
    BY <1>1, <1>6, <1>7, AccountedKept DEF Supervising, Observed
  <1>12. ASSUME pc = "closing" PROVE \A w \in Workers : boss[w] = c => Retired(w)
    <2>1. m.completed = Cardinality(m.told) /\ m.told \in SUBSET Slots
      BY <1>1 DEF Slotted, Memory
    <2>2. m.told = Slots
      BY <1>3, <1>12, <2>1, SlotCount
    <2>3. \A s \in Slots : /\ exec[m.slot[s]] = "done" /\ row[m.slot[s]] \notin LiveRow
                           /\ m.next[s] = None
      BY <1>1, <1>3, <1>12, <2>2 DEF Slotted, Accounted, Observed, Supervising
    <2>4. \A w \in Workers : boss[w] = c =>
             Retired(w) \/ \E s \in Slots : w = m.slot[s] \/ w = m.next[s]
      BY <1>1 DEF Accounted, Supervising
    <2> QED
      BY <2>3, <2>4, Names DEF Retired
  <1> QED
    BY <1>1, <1>3, <1>6, <1>7, <1>8, <1>9, <1>10, <1>11, <1>12, SuperviseStep DEF Supervising

(* The failure is published. *)
LEMMA FailStep ==
  ASSUME IInv, NEW c \in Controllers, Fail(c)
  PROVE  IInv'
  <1>1. ctl \in [Controllers -> Memory] /\ ctl[c] \in Memory /\ TypeOK /\ ItemsOK
        /\ row \in [Processes -> {"none"} \cup LiveRow \cup Ended]
        /\ want \in [Processes -> {"none", "drain"}] /\ faults \in 0..MaxFaults
        /\ Slotted(c) /\ Ending(c) /\ ctl[c].pc = "failing"
        /\ UNCHANGED <<boss, exec, code, item, env, events, faults>>
    BY AtWork DEF Fail, At, jobVars
  <1>2. ctl[c].error = TRUE
    BY <1>1 DEF Ending, At, Memory
  <1>3. /\ ctl' \in [Controllers -> Memory] /\ ctl'[c].pc = "closing"
        /\ \A d \in Controllers \ {c} : ctl'[d] = ctl[d]
        /\ ctl'[c].erased = ctl[c].erased /\ ctl'[c].error = ctl[c].error
        /\ ctl'[c].slot = ctl[c].slot /\ ctl'[c].pending = ctl[c].pending
        /\ ctl'[c].next = ctl[c].next /\ ctl'[c].told = ctl[c].told
        /\ ctl'[c].completed = ctl[c].completed /\ ctl'[c].failed = ctl[c].failed
    BY <1>1, Going DEF Fail, Begun
  <1>4. ItemsOK' /\ \A v \in Workers : Owned(v)' = Owned(v)
    BY <1>1 DEF ItemsOK, Owned
  <1>5. /\ row' \in [Processes -> {"none"} \cup LiveRow \cup Ended]
        /\ \A p \in Processes \ {c} : row'[p] = row[p]
        /\ row'[c] = row[c] \/ (row[c] # "none" /\ row'[c] = "failed")
    BY <1>1, Names DEF Fail, Finished, Ended
  <1>6. want' \in [Processes -> {"none", "drain"}]
    BY <1>1 DEF Fail, Drained
  <1>7. TypeOK'
    BY <1>1, <1>3, <1>4, <1>5, <1>6, ControllerTypes
  <1>8. Slotted(c)'
    BY <1>1, <1>3, SlotsKept DEF SameSlots, Manning, Supervising
  <1>9. Accounted(c)'
    BY <1>3 DEF Accounted, Supervising
  <1>10. /\ \A d \in Controllers \ {c} : row'[d] = row[d]
         /\ \A w \in Workers : row'[w] = row[w]
    BY <1>5, Names
  <1> QED
    BY <1>1, <1>2, <1>3, <1>4, <1>5, <1>7, <1>8, <1>9, <1>10, SuperviseStep DEF Supervising

(* An exit is observed and counted, or nothing came in time. *)
LEMMA ObserveStep ==
  ASSUME IInv, NEW c \in Controllers, NEW s \in Slots \cup {0}, Observe(c, s)
  PROVE  IInv'
  <1>1. ctl \in [Controllers -> Memory] /\ ctl[c] \in Memory /\ TypeOK /\ ItemsOK
        /\ row \in [Processes -> {"none"} \cup LiveRow \cup Ended]
        /\ want \in [Processes -> {"none", "drain"}] /\ faults \in 0..MaxFaults
        /\ code \in [Workers -> 0..1]
        /\ Slotted(c) /\ Accounted(c) /\ ctl[c].pc = "loop" /\ s \in Exited(c) \cup {0}
        /\ UNCHANGED <<row, boss, exec, code, item, env, events, faults>>
    BY AtWork DEF Observe, At, jobVars
  <1> DEFINE m == ctl[c]
             told == IF s = 0 THEN m.told ELSE m.told \cup {s}
             completed == IF s = 0 THEN m.completed ELSE m.completed + 1
             failed == IF s # 0 THEN m.failed + code[m.slot[s]] ELSE m.failed
             bad == {t \in told : code[m.slot[t]] = 1}
  <1>2. PICK drain \in BOOLEAN :
           /\ want' = IF drain /\ ~m.draining
                      THEN [Drained(Children(c)) EXCEPT ![c] = "drain"] ELSE want
           /\ ctl' = [ctl EXCEPT ![c] = [m EXCEPT
                         !.pc = "beat", !.draining = m.draining \/ drain, !.told = told,
                         !.completed = completed, !.failed = failed, !.seen = s]]
    BY <1>1, Zenon DEF Observe
  <1>3. \A t \in Slots : /\ m.slot[t] \in Workers /\ boss[m.slot[t]] = c
                         /\ t \in m.told => exec[m.slot[t]] = "done"
                         /\ m.pending[t] # 0 => t \in m.told
    BY <1>1 DEF Slotted, Manning, Supervising, Memory
  <1>4. s # 0 => /\ s \in Slots /\ s \notin m.told /\ exec[m.slot[s]] = "done"
                 /\ code[m.slot[s]] \in 0..1
    BY <1>1, <1>3 DEF Exited
  <1>5. /\ told \in SUBSET Slots /\ \A t \in told : t \in m.told \/ t = s
        /\ m.told \subseteq told /\ (s = 0 \/ s \in told)
        /\ completed = Cardinality(told) /\ completed \in 0..Count
    <2>1. m.told \in SUBSET Slots /\ m.completed = Cardinality(m.told)
      BY <1>1 DEF Slotted, Memory
    <2>2. told \in SUBSET Slots
      BY <1>4, <2>1
    <2>3. s # 0 => Cardinality(m.told \cup {s}) = Cardinality(m.told) + 1
      BY <1>4, <2>1, SlotCount, FS_AddElement
    <2> QED
      BY <2>1, <2>2, <2>3, SlotCount
  <1>6. failed = Cardinality(bad) /\ failed \in 0..Count
    <2> DEFINE was == {t \in m.told : code[m.slot[t]] = 1}
    <2>1. m.failed = Cardinality(was) /\ was \in SUBSET Slots /\ bad \in SUBSET Slots
          /\ IsFiniteSet(was) /\ Cardinality(was) \in Nat
      BY <1>1, <1>5, SlotCount DEF Slotted, Memory
    <2>2. CASE s = 0 \/ code[m.slot[s]] = 0
      <3>1. bad = was /\ failed = m.failed
        BY <1>4, <2>1, <2>2
      <3> QED
        BY <2>1, <3>1, SlotCount
    <2>3. CASE s # 0 /\ code[m.slot[s]] = 1
      <3>1. bad = was \cup {s} /\ s \notin was /\ failed = m.failed + 1
        BY <1>4, <2>3
      <3>2. Cardinality(bad) = Cardinality(was) + 1
        BY <2>1, <3>1, FS_AddElement
      <3> QED
        BY <2>1, <3>1, <3>2, SlotCount
    <2> QED
      BY <1>4, <2>2, <2>3
  <1>7. s \in 0..Count /\ (m.draining \/ drain) \in BOOLEAN
    BY <1>1, SupervisionAssumption DEF Slots
  <1> DEFINE n == [m EXCEPT !.pc = "beat", !.draining = m.draining \/ drain, !.told = told,
                            !.completed = completed, !.failed = failed, !.seen = s]
  <1> HIDE DEF told, completed, failed, bad
  <1>8. n \in Memory
    BY <1>1, <1>5, <1>6, <1>7 DEF Memory, Supervising
  <1>9. /\ n.pc = "beat" /\ n.seen = s /\ n.erased = m.erased
        /\ n.slot = m.slot /\ n.pending = m.pending /\ n.next = m.next
        /\ n.told = told /\ n.completed = completed /\ n.failed = failed
    BY <1>1 DEF Memory
  <1>10. /\ ctl' \in [Controllers -> Memory] /\ ctl'[c] = n
         /\ \A d \in Controllers \ {c} : ctl'[d] = ctl[d]
    BY <1>1, <1>2, <1>8, Remembering
  <1> HIDE DEF n
  <1>11. ItemsOK' /\ \A v \in Workers : Owned(v)' = Owned(v)
    BY <1>1 DEF ItemsOK, Owned
  <1>12. want' \in [Processes -> {"none", "drain"}]
    <2>1. Drained(Children(c)) \in [Processes -> {"none", "drain"}]
      BY <1>1 DEF Drained
    <2> QED
      BY <1>1, <1>2, <2>1
  <1>13. TypeOK'
    BY <1>1, <1>10, <1>11, <1>12, ControllerTypes
  <1>14. Slotted(c)'
    <2>1. \A t \in Slots :
            /\ n.slot[t] # None => boss'[n.slot[t]] = c
            /\ n.slot[t] # None
            /\ n.next[t] # None <=> n.pending[t] = 2
            /\ n.next[t] # None => boss'[n.next[t]] = c /\ exec'[n.next[t]] = "no"
            /\ \A u \in Slots \ {t} : n.next[t] # None => n.next[t] # n.next[u]
            /\ n.pending[t] # 0 => t \in n.told
            /\ t \in n.told => exec'[n.slot[t]] = "done"
      <3>1. \A t \in Slots :
              /\ m.next[t] # None <=> m.pending[t] = 2
              /\ m.next[t] # None => boss[m.next[t]] = c /\ exec[m.next[t]] = "no"
              /\ \A u \in Slots \ {t} : m.next[t] # None => m.next[t] # m.next[u]
        BY <1>1 DEF Slotted
      <3>2. \A t \in Slots : t \in told => exec[m.slot[t]] = "done"
        BY <1>3, <1>4, <1>5 DEF Slots
      <3>3. \A t \in Slots : m.slot[t] # None
        BY <1>3, Names
      <3> HIDE DEF m
      <3> QED
        BY <1>1, <1>3, <1>5, <1>9, <3>1, <3>2, <3>3
    <2>2. /\ n.seen \in n.told \cup {0}
          /\ \A t \in Slots : t = n.seen => n.pending[t] = 0
      BY <1>3, <1>4, <1>5, <1>9 DEF Slots
    <2>3. n.completed = Cardinality(n.told)
          /\ n.failed = Cardinality({t \in n.told : code'[n.slot[t]] = 1})
      BY <1>1, <1>5, <1>6, <1>9 DEF bad
    <2>4. n.pc \in Manning \ {"launching"} /\ n.pc \notin {"finish", "release", "recover"}
      BY <1>9 DEF Manning, Supervising
    <2> QED
      BY <1>10, <2>1, <2>2, <2>3, <2>4 DEF Slotted
  <1>15. Accounted(c)'
    <2>1. \A t \in told \ {s} : row[m.slot[t]] \notin LiveRow
      BY <1>1, <1>5 DEF Accounted, Observed, Supervising
    <2>2. \A w \in Workers : boss[w] = c =>
            Retired(w) \/ \E t \in Slots : w = m.slot[t] \/ w = m.next[t]
      BY <1>1 DEF Accounted, Supervising
    <2>3. Observed(c)' = {s}
      BY <1>9, <1>10 DEF Observed
    <2> QED
      BY <1>1, <1>9, <1>10, <2>1, <2>2, <2>3 DEF Accounted, Retired
  <1> QED
    BY <1>1, <1>9, <1>10, <1>11, <1>13, <1>14, <1>15, SuperviseStep DEF Supervising
-----------------------------------------------------------------------------
(* The controller gives a worker a row, and later a process.               *)

(* The identity that is chosen is a worker's without a controller. *)
LEMMA NewWorker ==
  ASSUME IInv, Unused # {}
  PROVE  /\ NewIdentity \in Workers /\ boss[NewIdentity] = None
         /\ exec[NewIdentity] = "no" /\ row[NewIdentity] = "none"
  <1>1. NewIdentity \in Workers /\ boss[NewIdentity] = None
    BY DEF Unused, NewIdentity
  <1> QED
    BY <1>1 DEF IInv, RowsOK

(* A row is reserved for a new worker: what the controller has to show. *)
LEMMA InsertStep ==
  ASSUME IInv, TypeOK', NEW c \in Controllers, Unused # {}, Insert(NewIdentity, c),
         ctl[c].pc \in Supervising, ctl'[c].pc \in {"reserving", "launching", "slots"},
         \A d \in Controllers \ {c} : ctl'[d] = ctl[d],
         UNCHANGED <<exec, code, item>>,
         ctl'[c].erased = ctl[c].erased,
         Slotted(c)', Accounted(c)', Fades => Ledger'
  PROVE  IInv'
  <1> DEFINE n == NewIdentity
  <1>1. n \in Workers /\ boss[n] = None /\ exec[n] = "no" /\ row[n] = "none"
    BY NewWorker
  <1>2. /\ TypeOK /\ RowsOK /\ OneController /\ Ending(c)
        /\ row \in [Processes -> {"none"} \cup LiveRow \cup Ended]
        /\ boss \in [Workers -> Controllers \cup {None}]
    BY AtWork DEF IInv
  <1> HIDE DEF n
  <1>3. /\ row' = [row EXCEPT ![n] = "starting"] /\ boss' = [boss EXCEPT ![n] = c]
        /\ row[c] \in LiveRow
    BY <1>2 DEF Insert, n, OneController
  <1>4. /\ row'[n] = "starting" /\ \A p \in Processes \ {n} : row'[p] = row[p]
        /\ boss'[n] = c /\ \A w \in Workers \ {n} : boss'[w] = boss[w]
    BY <1>1, <1>2, <1>3, Names
  <1>5. \A d \in Controllers : row'[d] = row[d]
    BY <1>1, <1>4, Names
  <1>6. ctl'[c].pc \in Supervising /\ ctl'[c].pc \in Begun /\ ctl[c].pc \in Begun
    BY DEF Supervising, Begun
  <1>7. RowsOK'
    <2>1. \A d \in Controllers : row'[d] # "none" => ctl'[d].pc \in Begun /\ row'[d] # "starting"
      BY <1>2, <1>5, <1>6 DEF RowsOK
    <2>2. \A w \in Workers \ {n} :
            /\ boss'[w] = None => exec'[w] = "no" /\ row'[w] = "none"
            /\ boss'[w] # None => ctl'[boss'[w]].pc \in Begun
            /\ row'[w] = "starting" => exec'[w] \in {"no", "launched", "done"}
            /\ exec'[w] = "no" => row'[w] \in {"none", "starting"} \cup Ended
      BY <1>2, <1>4, <1>6, Names DEF RowsOK
    <2>3. boss'[n] # None /\ ctl'[boss'[n]].pc \in Begun /\ exec'[n] = "no"
      BY <1>1, <1>4, <1>6, Names
    <2> QED
      BY <1>4, <2>1, <2>2, <2>3 DEF RowsOK
  <1>8. OneController'
    BY <1>2, <1>5, <1>6 DEF OneController
  <1>9. Fades
    <2>1. \A d \in Controllers : At(d, "gone") => ctl'[d].pc = "gone"
      BY DEF At, Supervising
    <2>2. \A d \in Controllers : Departed(d) => Departed(d)'
      BY <1>3, <1>5 DEF Departed, At, Supervising, LiveRow
    <2>3. \A w \in Workers : /\ boss[w] # None \/ exec[w] = "done" => w # n
                             /\ Owned(w)' = Owned(w)
      BY <1>1 DEF Owned
    <2> QED
      BY <1>4, <2>1, <2>2, <2>3, Names DEF Fades
  <1>10. \A d \in Controllers \ {c} : Bystander(d)
    BY <1>4, <1>5 DEF Bystander
  <1>11. Ending(c)'
    <2>1. row[c] # "stopped"
      BY <1>3 DEF LiveRow
    <2> QED
      BY <1>5, <2>1 DEF Ending, At
  <1>12. Cleaning(c)'
    BY <1>6, <1>9, ErasedKept DEF Supervising
  <1> QED
    BY <1>7, <1>8, <1>9, <1>10, <1>11, <1>12, Assembled DEF Kept

(* A worker process is started: what the controller has to show. *)
LEMMA LaunchingStep ==
  ASSUME IInv, TypeOK', NEW c \in Controllers, NEW n \in Workers, boss[n] = c, exec[n] = "no",
         exec' = [exec EXCEPT ![n] = "launched"],
         ctl[c].pc \in Supervising, ctl'[c].pc \in {"launching", "loop", "slots"},
         \A d \in Controllers \ {c} : ctl'[d] = ctl[d],
         UNCHANGED <<row, boss, code, item, events>>,
         ctl'[c].erased = ctl[c].erased,
         Slotted(c)', Accounted(c)'
  PROVE  IInv'
  <1>1. /\ TypeOK /\ RowsOK /\ OneController /\ Ending(c) /\ row[c] \in LiveRow
        /\ exec \in [Workers -> {"no", "launched", "waiting", "top", "polled", "working", "done"}]
        /\ boss \in [Workers -> Controllers \cup {None}]
    BY AtWork DEF IInv
  <1>2. exec'[n] = "launched" /\ \A w \in Workers \ {n} : exec'[w] = exec[w]
    BY <1>1
  <1>3. ctl'[c].pc \in Supervising /\ ctl'[c].pc \in Begun
    BY DEF Supervising, Begun
  <1>4. RowsOK'
    BY <1>1, <1>2, <1>3, Names DEF RowsOK
  <1>5. OneController'
    BY <1>1, <1>3 DEF OneController
  <1>6. Fades
    <2>1. \A d \in Controllers : At(d, "gone") => ctl'[d].pc = "gone"
      BY DEF At, Supervising
    <2>2. \A d \in Controllers : Departed(d) => Departed(d)'
      BY <1>1 DEF Departed, At, Supervising, LiveRow
    <2> QED
      BY <1>2, <2>1, <2>2 DEF Fades, Retired, Harmless, Owned
  <1>7. \A d \in Controllers \ {c} : Bystander(d)
    BY <1>2 DEF Bystander
  <1>8. Ending(c)'
    BY <1>1 DEF Ending, At, LiveRow
  <1>9. Cleaning(c)'
    BY <1>3, <1>6, ErasedKept DEF Supervising
  <1>10. Ledger'
    BY <1>6, LedgerKept
  <1> QED
    BY <1>4, <1>5, <1>6, <1>7, <1>8, <1>9, <1>10, Assembled DEF Kept
(* The rows of the group, one slot after the other. *)
LEMMA ReserveStep ==
  ASSUME IInv, NEW c \in Controllers, Reserve(c)
  PROVE  IInv'
  <1>1. ctl \in [Controllers -> Memory] /\ ctl[c] \in Memory /\ TypeOK /\ ItemsOK
        /\ row \in [Processes -> {"none"} \cup LiveRow \cup Ended]
        /\ want \in [Processes -> {"none", "drain"}] /\ faults \in 0..MaxFaults
        /\ boss \in [Workers -> Controllers \cup {None}]
        /\ exec \in [Workers -> {"no", "launched", "waiting", "top", "polled", "working", "done"}]
        /\ code \in [Workers -> 0..1]
        /\ Slotted(c) /\ Accounted(c) /\ ctl[c].pc = "reserving"
        /\ UNCHANGED <<want, exec, code, item, env, events, faults>>
    BY AtWork DEF Reserve, At, jobVars
  <1> DEFINE w == NewIdentity
             m == ctl[c]
  <1>2. w \in Workers /\ boss[w] = None /\ exec[w] = "no" /\ row[w] = "none"
    BY NewWorker DEF Reserve
  <1>3. PICK s \in Slots :
          /\ m.slot[s] = None
          /\ \A t \in 1..(s - 1) : m.slot[t] # None
          /\ Insert(w, c)
          /\ ctl' = [ctl EXCEPT ![c].slot[s] = w,
                                ![c].pc = IF s = Count THEN "launching" ELSE "reserving"]
    BY DEF Reserve
  <1> DEFINE x == [m.slot EXCEPT ![s] = w]
             pc == IF s = Count THEN "launching" ELSE "reserving"
             n == [m EXCEPT !.slot = x, !.pc = pc]
  <1>4. ctl' = [ctl EXCEPT ![c] = n]
    BY <1>1, <1>3
  <1>5. /\ x \in [Slots -> Workers \cup {None}] /\ x[s] = w
        /\ \A t \in Slots \ {s} : x[t] = m.slot[t]
        /\ pc \in {"launching", "reserving"} /\ (pc = "launching" => s = Count)
    BY <1>1, <1>2 DEF Memory
  <1> HIDE DEF x, pc, w
  <1>6. n \in Memory
    BY <1>1, <1>5 DEF Memory, Supervising
  <1>7. /\ n.pc = pc /\ n.slot = x /\ n.erased = m.erased
        /\ n.pending = m.pending /\ n.next = m.next
        /\ n.told = m.told /\ n.completed = m.completed /\ n.failed = m.failed
    BY <1>1 DEF Memory
  <1> HIDE DEF n
  <1>8. /\ ctl' \in [Controllers -> Memory] /\ ctl'[c] = n
        /\ \A d \in Controllers \ {c} : ctl'[d] = ctl[d]
    BY <1>1, <1>4, <1>6, Remembering
  <1>9. /\ row' \in [Processes -> {"none"} \cup LiveRow \cup Ended]
        /\ boss' \in [Workers -> Controllers \cup {None}]
        /\ boss'[w] = c /\ \A v \in Workers \ {w} : boss'[v] = boss[v]
        /\ \A v \in Workers \ {w} : row'[v] = row[v]
    BY <1>1, <1>2, <1>3, Names DEF Insert, LiveRow
  <1>10. TypeOK'
    <2>1. ItemsOK'
      BY <1>1 DEF ItemsOK
    <2>2. env' \in Workers \cup {"healthy", "cooling", "due"} /\ events' \subseteq Event
      BY <1>1, Types DEF TypeOK
    <2> QED
      BY <1>1, <1>8, <1>9, <2>1, <2>2, TypesAfter
  <1>11. m.told = {} /\ \A t \in Slots : m.pending[t] = 0 /\ m.next[t] = None
    BY <1>1 DEF Slotted, Manning, Supervising
  <1>12. Slotted(c)'
    <2>1. \A t \in Slots : n.slot[t] # None => boss'[n.slot[t]] = c
      BY <1>1, <1>2, <1>5, <1>7, <1>9, Names DEF Slotted, Memory
    <2>2. n.pc \in Manning => \A t \in Slots : n.slot[t] # None
      <3> SUFFICES ASSUME n.pc \in Manning, NEW t \in Slots, t # s
                   PROVE  m.slot[t] # None
        BY <1>2, <1>5, <1>7, Names
      <3>1. s = Count
        BY <1>5, <1>7 DEF Manning, Supervising
      <3> QED
        BY <1>3, <3>1, SupervisionAssumption DEF Slots
    <2>3. {t \in n.told : code'[n.slot[t]] = 1} = m.told
      BY <1>7, <1>11
    <2>4. n.completed = Cardinality(n.told) /\ n.failed = Cardinality(m.told)
      <3>1. m.completed = Cardinality(m.told)
            /\ m.failed = Cardinality({t \in m.told : code[m.slot[t]] = 1})
        BY <1>1 DEF Slotted
      <3>2. {t \in m.told : code[m.slot[t]] = 1} = m.told
        BY <1>11
      <3> QED
        BY <1>7, <3>1, <3>2
    <2>5. n.pc \notin {"beat", "finish", "release", "recover"}
      BY <1>5, <1>7
    <2>6. n.told = {} /\ \A t \in Slots : n.pending[t] = 0 /\ n.next[t] = None
      BY <1>7, <1>11
    <2>7. n.failed = Cardinality({t \in n.told : code'[n.slot[t]] = 1})
      BY <2>3, <2>4
    <2> HIDE DEF m
    <2> QED
      BY <1>8, <2>1, <2>2, <2>4, <2>5, <2>6, <2>7 DEF Slotted
  <1>13. Accounted(c)'
    <2>1. \A v \in Workers : boss[v] = c =>
            Retired(v) \/ \E t \in Slots : v = m.slot[t] \/ v = m.next[t]
      BY <1>1 DEF Accounted, Supervising
    <2>2. \A v \in Workers : boss'[v] = c =>
            Retired(v)' \/ \E t \in Slots : v = n.slot[t] \/ v = n.next[t]
      <3> SUFFICES ASSUME NEW v \in Workers, boss'[v] = c, ~Retired(v)'
                   PROVE  \E t \in Slots : v = n.slot[t] \/ v = n.next[t]
        OBVIOUS
      <3>1. CASE v = w
        BY <1>5, <1>7, <3>1
      <3>2. CASE v # w
        <4>1. PICK t \in Slots : v = m.slot[t] \/ v = m.next[t]
          BY <1>1, <1>9, <2>1, <3>2 DEF Retired
        <4>2. t # s
          BY <1>3, <1>11, <4>1, Names
        <4> QED
          BY <1>5, <1>7, <4>1, <4>2
      <3> QED
        BY <3>1, <3>2
    <2> QED
      BY <1>7, <1>8, <1>11, <2>2 DEF Accounted
  <1> QED
    BY <1>1, <1>3, <1>5, <1>7, <1>8, <1>10, <1>12, <1>13, InsertStep, LedgerKept
       DEF Reserve, Supervising, w

(* Its processes, one slot after the other. *)
LEMMA LaunchStep ==
  ASSUME IInv, NEW c \in Controllers, Launch(c)
  PROVE  IInv'
  <1>1. ctl \in [Controllers -> Memory] /\ ctl[c] \in Memory /\ TypeOK /\ ItemsOK
        /\ row \in [Processes -> {"none"} \cup LiveRow \cup Ended]
        /\ want \in [Processes -> {"none", "drain"}] /\ faults \in 0..MaxFaults
        /\ boss \in [Workers -> Controllers \cup {None}]
        /\ exec \in [Workers -> {"no", "launched", "waiting", "top", "polled", "working", "done"}]
        /\ code \in [Workers -> 0..1]
        /\ Slotted(c) /\ Accounted(c) /\ ctl[c].pc = "launching"
        /\ UNCHANGED <<row, want, boss, code, item, env, events, faults>>
    BY AtWork DEF Launch, At, jobVars
  <1>2. PICK s \in Slots :
          /\ exec[ctl[c].slot[s]] = "no"
          /\ exec' = [exec EXCEPT ![ctl[c].slot[s]] = "launched"]
          /\ Goto(c, IF s = Count THEN "loop" ELSE "launching")
    BY DEF Launch
  <1> DEFINE w == ctl[c].slot[s]
             pc == IF s = Count THEN "loop" ELSE "launching"
  <1>3. w \in Workers /\ boss[w] = c /\ exec[w] = "no"
    BY <1>1, <1>2 DEF Slotted, Memory, Manning, Supervising
  <1>4. pc \in {"loop", "launching"} /\ pc \in Begun /\ pc \in Supervising
    BY DEF Begun, Supervising
  <1> HIDE DEF pc
  <1>5. /\ ctl' \in [Controllers -> Memory] /\ ctl'[c].pc = pc
        /\ \A d \in Controllers \ {c} : ctl'[d] = ctl[d]
        /\ ctl'[c].erased = ctl[c].erased
        /\ ctl'[c].slot = ctl[c].slot /\ ctl'[c].pending = ctl[c].pending
        /\ ctl'[c].next = ctl[c].next /\ ctl'[c].told = ctl[c].told
        /\ ctl'[c].completed = ctl[c].completed /\ ctl'[c].failed = ctl[c].failed
    BY <1>1, <1>2, <1>4, Going DEF pc
  <1>6. TypeOK'
    <2>1. exec' \in [Workers -> {"no", "launched", "waiting", "top", "polled", "working", "done"}]
      BY <1>1, <1>2
    <2>2. ItemsOK'
      BY <1>1 DEF ItemsOK
    <2>3. env' \in Workers \cup {"healthy", "cooling", "due"} /\ events' \subseteq Event
      BY <1>1, Types DEF TypeOK
    <2> QED
      BY <1>1, <1>5, <2>1, <2>2, <2>3, TypesAfter
  <1>7. \A t \in Slots : /\ ctl[c].slot[t] \in Workers /\ boss[ctl[c].slot[t]] = c
                         /\ ctl[c].pending[t] # 0 => t \in ctl[c].told
                         /\ ctl[c].next[t] # None <=> ctl[c].pending[t] = 2
                         /\ ctl[c].next[t] # None => t \in ctl[c].told
                         /\ t \in ctl[c].told => exec[ctl[c].slot[t]] = "done"
    BY <1>1 DEF Slotted, Memory, Manning, Supervising
  <1>8. ctl[c].told = {} /\ \A t \in Slots : ctl[c].next[t] = None /\ ctl[c].pending[t] = 0
    <2>1. ctl[c].told = {}
      BY <1>1 DEF Slotted, Manning, Supervising
    <2> QED
      BY <1>7, <2>1
  <1>9. Slotted(c)'
    <2>1. /\ ctl[c].completed = Cardinality(ctl[c].told)
          /\ ctl[c].failed = Cardinality({t \in ctl[c].told : code[ctl[c].slot[t]] = 1})
      BY <1>1 DEF Slotted
    <2>2. pc \notin {"beat", "finish", "release", "recover"}
      BY <1>4
    <2> QED
      BY <1>1, <1>5, <1>7, <1>8, <2>1, <2>2, Names DEF Slotted
  <1>10. Accounted(c)'
    <2>1. \A v \in Workers : boss[v] = c =>
            Retired(v) \/ \E t \in Slots : v = ctl[c].slot[t] \/ v = ctl[c].next[t]
      BY <1>1 DEF Accounted, Supervising
    <2>2. \A v \in Workers : boss[v] = c =>
            Retired(v)' \/ \E t \in Slots : v = ctl[c].slot[t] \/ v = ctl[c].next[t]
      BY <1>1, <1>2, <1>3, <2>1 DEF Retired
    <2> QED
      BY <1>1, <1>5, <1>8, <2>2 DEF Accounted
  <1> QED
    BY <1>1, <1>2, <1>3, <1>4, <1>5, <1>6, <1>9, <1>10, LaunchingStep DEF Supervising
(* The ledger after a replacement of a dead worker that was not replaced   *)
(* before, with room left in the window.                                   *)
LEMMA LedgerGrows ==
  ASSUME IInv, Fades, NEW c \in Controllers, NEW w \in Workers, NEW n \in Workers,
         exec[w] = "done", Owned(w) = {}, ~Repeated(w), ~(Cardinality(Recent(c)) >= MaxRestarts),
         events' = events \cup {[previous |-> w, replacement |-> n, by |-> c, age |-> 0]}
  PROVE  Ledger' /\ events' \subseteq Event
  <1> DEFINE e == [previous |-> w, replacement |-> n, by |-> c, age |-> 0]
  <1>1. events \subseteq Event /\ IsFiniteSet(events) /\ ReplacedForGood
    BY Types DEF IInv, Ledger
  <1>2. /\ e \in Event /\ e.previous = w /\ e.replacement = n /\ e.age = 0 /\ 0 < Window
    BY SupervisionAssumption DEF Event
  <1> HIDE DEF e
  <1>3. events' = events \cup {e}
    BY DEF e
  <1>4. events' \subseteq Event /\ IsFiniteSet(events')
    BY <1>1, <1>2, <1>3, FS_AddElement
  <1>5. ReplacementsBounded'
    <2>1. {f \in events' : f.age < Window} = Recent(c) \cup {e}
      BY <1>2, <1>3 DEF Recent
    <2>2. IsFiniteSet(Recent(c)) /\ Cardinality(Recent(c)) \in Nat
      BY <1>1, FS_Subset, FS_CardinalityType DEF Recent
    <2>3. Cardinality(Recent(c) \cup {e}) <= Cardinality(Recent(c)) + 1
      BY <2>2, FS_AddElement
    <2>4. Cardinality(Recent(c)) + 1 <= MaxRestarts
      BY <2>2, SupervisionAssumption
    <2>5. Cardinality(Recent(c) \cup {e}) \in Nat
      BY <2>2, FS_AddElement, FS_CardinalityType
    <2>6. Cardinality(Recent(c) \cup {e}) <= MaxRestarts
      BY <2>2, <2>3, <2>4, <2>5, SupervisionAssumption
    <2>7. Cardinality({f \in events' : f.age < Window}) <= MaxRestarts
      BY <2>1, <2>6
    <2> QED
      BY <2>7 DEF ReplacementsBounded
  <1>6. ReplacedForGood'
    <2>1. \A f \in events : f.previous \in Workers /\ f.previous # w
      BY <1>1 DEF Event, Repeated
    <2>2. \A f \in events : exec'[f.previous] = "done" /\ Owned(f.previous)' = {}
      <3> SUFFICES ASSUME NEW f \in events
                   PROVE  exec'[f.previous] = "done" /\ Owned(f.previous)' = {}
        OBVIOUS
      <3>1. f.previous \in Workers /\ exec[f.previous] = "done" /\ Owned(f.previous) = {}
        BY <1>1, <2>1 DEF ReplacedForGood
      <3> QED
        BY <3>1 DEF Fades, Harmless
    <2>3. exec'[w] = "done" /\ Owned(w)' = {}
      BY DEF Fades, Harmless
    <2>4. \A f, g \in events : f.previous = g.previous => f.replacement = g.replacement
      BY <1>1 DEF ReplacedForGood
    <2>5. \A f \in events' : f \in events \/ f = e
      BY <1>3
    <2>6. \A f \in events' : exec'[f.previous] = "done" /\ Owned(f.previous)' = {}
      <3> SUFFICES ASSUME NEW f \in events'
                   PROVE  exec'[f.previous] = "done" /\ Owned(f.previous)' = {}
        OBVIOUS
      <3>1. CASE f \in events
        BY <2>2, <3>1
      <3>2. CASE f = e
        BY <1>2, <2>3, <3>2
      <3> QED
        BY <2>5, <3>1, <3>2
    <2>7. \A f, g \in events' : f.previous = g.previous => f.replacement = g.replacement
      BY <1>2, <2>1, <2>4, <2>5
    <2> QED
      BY <2>6, <2>7 DEF ReplacedForGood
  <1> QED
    BY <1>4, <1>5, <1>6 DEF Ledger

(* A replacement gets its row. *)
LEMMA ReserveReplacementStep ==
  ASSUME IInv, NEW c \in Controllers, NEW s \in Slots, ReserveReplacement(c, s)
  PROVE  IInv'
  <1>1. ctl \in [Controllers -> Memory] /\ ctl[c] \in Memory /\ TypeOK /\ ItemsOK
        /\ row \in [Processes -> {"none"} \cup LiveRow \cup Ended]
        /\ want \in [Processes -> {"none", "drain"}] /\ faults \in 0..MaxFaults
        /\ boss \in [Workers -> Controllers \cup {None}]
        /\ exec \in [Workers -> {"no", "launched", "waiting", "top", "polled", "working", "done"}]
        /\ code \in [Workers -> 0..1]
        /\ Slotted(c) /\ Accounted(c) /\ ctl[c].pc = "slots" /\ s + 1 \in 1..(Count + 1)
        /\ ctl[c].pending[s] = 1
        /\ UNCHANGED <<want, exec, code, item, env, faults>>
    BY AtWork, SupervisionAssumption DEF ReserveReplacement, AtSlot, At, Slots, jobVars
  <1> DEFINE w == NewIdentity
             m == ctl[c]
             old == m.slot[s]
             p == [m.pending EXCEPT ![s] = 2]
             x == [m.next EXCEPT ![s] = w]
             n == [m EXCEPT !.cur = s + 1, !.pending = p, !.next = x]
  <1>2. w \in Workers /\ boss[w] = None /\ exec[w] = "no" /\ row[w] = "none"
    BY NewWorker DEF ReserveReplacement
  <1>3. /\ Unused # {} /\ Insert(w, c)
        /\ events' = events \cup {[previous |-> old, replacement |-> w, by |-> c, age |-> 0]}
        /\ Eligible(c, old) /\ ~Repeated(old) /\ ~MustWait(c)
    BY DEF ReserveReplacement
  <1>4. ctl' = [ctl EXCEPT ![c] = n]
    BY <1>1 DEF ReserveReplacement
  <1>5. s \in m.told /\ old \in Workers /\ exec[old] = "done" /\ m.next[s] = None
    BY <1>1 DEF Slotted, Memory
  <1>6. /\ p \in [Slots -> 0..2] /\ p[s] = 2 /\ x \in [Slots -> Workers \cup {None}] /\ x[s] = w
        /\ \A t \in Slots \ {s} : p[t] = m.pending[t] /\ x[t] = m.next[t]
    BY <1>1, <1>2 DEF Memory
  <1> HIDE DEF p, x, w
  <1>7. n \in Memory
    BY <1>1, <1>6 DEF Memory
  <1>8. /\ n.pc = "slots" /\ n.pending = p /\ n.next = x /\ n.erased = m.erased
        /\ n.slot = m.slot
        /\ n.told = m.told /\ n.completed = m.completed /\ n.failed = m.failed
    BY <1>1 DEF Memory
  <1> HIDE DEF n
  <1>9. /\ ctl' \in [Controllers -> Memory] /\ ctl'[c] = n
        /\ \A d \in Controllers \ {c} : ctl'[d] = ctl[d]
    BY <1>1, <1>4, <1>7, Remembering
  <1>10. /\ row' \in [Processes -> {"none"} \cup LiveRow \cup Ended]
         /\ boss' \in [Workers -> Controllers \cup {None}]
         /\ boss'[w] = c /\ \A v \in Workers \ {w} : boss'[v] = boss[v]
         /\ \A v \in Workers \ {w} : row'[v] = row[v]
    BY <1>1, <1>2, <1>3, Names DEF Insert, LiveRow
  <1>11. events' \subseteq Event /\ (Fades => Ledger')
    <2>1. Owned(old) = {} /\ ~(Cardinality(Recent(c)) >= MaxRestarts)
      BY <1>3 DEF Eligible, ReplacementAllowed, MustWait
    <2>2. events' \subseteq Event
      BY <1>2, <1>3, <1>5, Types, SupervisionAssumption DEF IInv, Event
    <2> HIDE DEF old
    <2> QED
      BY <1>2, <1>3, <1>5, <2>1, <2>2, LedgerGrows
  <1>12. TypeOK'
    <2>1. ItemsOK'
      BY <1>1 DEF ItemsOK
    <2>2. env' \in Workers \cup {"healthy", "cooling", "due"}
      BY <1>1 DEF TypeOK
    <2> QED
      BY <1>1, <1>9, <1>10, <1>11, <2>1, <2>2, TypesAfter
  <1>13. \A t \in Slots :
            /\ m.slot[t] \in Workers /\ boss[m.slot[t]] = c
            /\ m.next[t] # None <=> m.pending[t] = 2
            /\ m.next[t] # None => m.next[t] \in Workers /\ boss[m.next[t]] = c
                                   /\ exec[m.next[t]] = "no"
            /\ m.pending[t] # 0 => t \in m.told
            /\ t \in m.told => exec[m.slot[t]] = "done"
    BY <1>1 DEF Slotted, Memory, Manning, Supervising
  <1>14. \A t \in Slots : m.slot[t] # w /\ m.next[t] # w
    BY <1>2, <1>13, Names
  <1>15. Slotted(c)'
    <2>1. \A t \in Slots :
            /\ n.slot[t] # None
            /\ n.slot[t] # None => boss'[n.slot[t]] = c
            /\ n.next[t] # None <=> n.pending[t] = 2
            /\ n.next[t] # None => boss'[n.next[t]] = c /\ exec'[n.next[t]] = "no"
            /\ n.pending[t] # 0 => t \in n.told
            /\ t \in n.told => exec'[n.slot[t]] = "done"
      <3> SUFFICES ASSUME NEW t \in Slots
                   PROVE  /\ n.slot[t] # None
                          /\ n.slot[t] # None => boss'[n.slot[t]] = c
                          /\ n.next[t] # None <=> n.pending[t] = 2
                          /\ n.next[t] # None => boss'[n.next[t]] = c /\ exec'[n.next[t]] = "no"
                          /\ n.pending[t] # 0 => t \in n.told
                          /\ t \in n.told => exec'[n.slot[t]] = "done"
        OBVIOUS
      <3>1. n.slot[t] # None /\ boss'[n.slot[t]] = c /\ (t \in n.told => exec'[n.slot[t]] = "done")
        BY <1>1, <1>8, <1>10, <1>13, <1>14, Names
      <3>2. CASE t = s
        BY <1>1, <1>2, <1>5, <1>6, <1>8, <1>10, <3>1, <3>2, Names
      <3>3. CASE t # s
        BY <1>1, <1>6, <1>8, <1>10, <1>13, <1>14, <3>1, <3>3
      <3> QED
        BY <3>2, <3>3
    <2>2. \A t \in Slots : \A u \in Slots \ {t} : n.next[t] # None => n.next[t] # n.next[u]
      <3>1. \A t \in Slots : \A u \in Slots \ {t} : m.next[t] # None => m.next[t] # m.next[u]
        BY <1>1 DEF Slotted
      <3> QED
        BY <1>6, <1>8, <1>14, <3>1
    <2>3. /\ n.completed = Cardinality(n.told)
          /\ n.failed = Cardinality({t \in n.told : code'[n.slot[t]] = 1})
      BY <1>1, <1>8 DEF Slotted
    <2>4. n.pc \in Manning \ {"launching"} /\ n.pc \notin {"beat", "finish", "release", "recover"}
      BY <1>8 DEF Manning, Supervising
    <2> HIDE DEF m
    <2> QED
      BY <1>9, <2>1, <2>2, <2>3, <2>4 DEF Slotted
  <1>16. Accounted(c)'
    <2>1. /\ \A v \in Workers : boss[v] = c =>
                Retired(v) \/ \E t \in Slots : v = m.slot[t] \/ v = m.next[t]
          /\ \A t \in m.told : row[m.slot[t]] \notin LiveRow
      BY <1>1 DEF Accounted, Observed, Supervising
    <2>2. \A v \in Workers : boss'[v] = c =>
            Retired(v)' \/ \E t \in Slots : v = n.slot[t] \/ v = n.next[t]
      <3> SUFFICES ASSUME NEW v \in Workers, boss'[v] = c, ~Retired(v)'
                   PROVE  \E t \in Slots : v = n.slot[t] \/ v = n.next[t]
        OBVIOUS
      <3>1. CASE v = w
        BY <1>6, <1>8, <3>1
      <3>2. CASE v # w
        <4>1. PICK t \in Slots : v = m.slot[t] \/ v = m.next[t]
          BY <1>1, <1>10, <2>1, <3>2 DEF Retired
        <4>2. CASE t = s
          BY <1>5, <1>8, <4>1, <4>2, Names
        <4>3. CASE t # s
          BY <1>6, <1>8, <4>1, <4>3
        <4> QED
          BY <4>2, <4>3
      <3> QED
        BY <3>1, <3>2
    <2>3. \A t \in n.told : row'[n.slot[t]] \notin LiveRow
      <3>1. m.told \subseteq Slots
        BY <1>1 DEF Memory
      <3> QED
        BY <1>8, <1>10, <1>13, <1>14, <2>1, <3>1
    <2> HIDE DEF m
    <2> QED
      BY <1>9, <2>2, <2>3 DEF Accounted
  <1> QED
    BY <1>1, <1>3, <1>8, <1>9, <1>11, <1>12, <1>15, <1>16, InsertStep DEF Supervising, w

(* A replacement gets its process, and the slot is no longer counted. *)
LEMMA LaunchReplacementStep ==
  ASSUME IInv, NEW c \in Controllers, NEW s \in Slots, LaunchReplacement(c, s)
  PROVE  IInv'
  <1>1. ctl \in [Controllers -> Memory] /\ ctl[c] \in Memory /\ TypeOK /\ ItemsOK
        /\ row \in [Processes -> {"none"} \cup LiveRow \cup Ended]
        /\ want \in [Processes -> {"none", "drain"}] /\ faults \in 0..MaxFaults
        /\ boss \in [Workers -> Controllers \cup {None}]
        /\ exec \in [Workers -> {"no", "launched", "waiting", "top", "polled", "working", "done"}]
        /\ code \in [Workers -> 0..1]
        /\ Slotted(c) /\ Accounted(c) /\ ctl[c].pc = "slots" /\ s + 1 \in 1..(Count + 1)
        /\ ctl[c].pending[s] = 2
        /\ UNCHANGED <<row, want, boss, code, item, env, events, faults>>
    BY AtWork, SupervisionAssumption DEF LaunchReplacement, AtSlot, At, Slots, jobVars
  <1> DEFINE m == ctl[c]
             w == m.next[s]
             old == m.slot[s]
             told == m.told \ {s}
             p == [m.pending EXCEPT ![s] = 0]
             x == [m.next EXCEPT ![s] = None]
             y == [m.slot EXCEPT ![s] = w]
             completed == m.completed - 1
             failed == m.failed - code[old]
             k == [m EXCEPT !.cur = s + 1, !.pending = p, !.next = x, !.slot = y]
             n == [k EXCEPT !.told = told, !.completed = completed, !.failed = failed]
  <1>2. exec' = [exec EXCEPT ![w] = "launched"] /\ ctl' = [ctl EXCEPT ![c] = n]
    <2>1. exec' = [exec EXCEPT ![w] = "launched"]
      BY DEF LaunchReplacement
    <2>2. ctl' = [ctl EXCEPT ![c] = [m EXCEPT !.cur = s + 1, !.pending[s] = 0, !.next[s] = None,
                                             !.slot[s] = w, !.told = told,
                                             !.completed = completed, !.failed = failed]]
      BY <1>1 DEF LaunchReplacement, Memory
    <2> QED
      BY <1>1, <2>1, <2>2 DEF Memory
  <1>3. \A t \in Slots :
            /\ m.slot[t] \in Workers /\ boss[m.slot[t]] = c
            /\ m.next[t] # None <=> m.pending[t] = 2
            /\ m.next[t] # None => m.next[t] \in Workers /\ boss[m.next[t]] = c
                                   /\ exec[m.next[t]] = "no"
            /\ m.pending[t] # 0 => t \in m.told
            /\ t \in m.told => exec[m.slot[t]] = "done"
    BY <1>1 DEF Slotted, Memory, Manning, Supervising
  <1>4. /\ w \in Workers /\ boss[w] = c /\ exec[w] = "no"
        /\ s \in m.told /\ old \in Workers /\ exec[old] = "done" /\ code[old] \in 0..1
    BY <1>1, <1>3
  <1>5. m.told \in SUBSET Slots /\ told \in SUBSET Slots /\ s \notin told
    BY <1>1 DEF Memory
  <1>6. completed = Cardinality(told) /\ completed \in 0..Count
    <2>1. m.completed = Cardinality(m.told)
      BY <1>1 DEF Slotted
    <2>2. Cardinality(told) = Cardinality(m.told) - 1
      BY <1>4, <1>5, SlotCount, FS_RemoveElement
    <2> QED
      BY <1>5, <2>1, <2>2, SlotCount
  <1>7. /\ p \in [Slots -> 0..2] /\ p[s] = 0 /\ x \in [Slots -> Workers \cup {None}] /\ x[s] = None
        /\ y \in [Slots -> Workers \cup {None}] /\ y[s] = w
        /\ \A t \in Slots \ {s} : p[t] = m.pending[t] /\ x[t] = m.next[t] /\ y[t] = m.slot[t]
    BY <1>1, <1>4 DEF Memory
  <1>8. failed = Cardinality({t \in told : code[m.slot[t]] = 1}) /\ failed \in 0..Count
    <2> DEFINE was == {t \in m.told : code[m.slot[t]] = 1}
               bad == {t \in told : code[m.slot[t]] = 1}
    <2>1. m.failed = Cardinality(was) /\ was \in SUBSET Slots /\ bad \in SUBSET Slots
          /\ IsFiniteSet(was) /\ Cardinality(was) \in Nat
      BY <1>1, <1>5, SlotCount DEF Slotted
    <2>2. CASE code[old] = 0
      <3>1. bad = was /\ failed = m.failed
        BY <1>4, <2>1, <2>2
      <3> QED
        BY <2>1, <3>1, SlotCount
    <2>3. CASE code[old] = 1
      <3>1. bad = was \ {s} /\ s \in was /\ failed = m.failed - 1
        BY <1>4, <2>3
      <3> HIDE DEF bad, was
      <3>2. Cardinality(bad) = Cardinality(was) - 1
        BY <2>1, <3>1, FS_RemoveElement
      <3> QED
        BY <2>1, <3>1, <3>2, SlotCount DEF bad
    <2> QED
      BY <1>4, <2>2, <2>3
  <1> HIDE DEF p, x, y, told, completed, failed
  <1>9. n \in Memory
    <2>1. k \in Memory
      BY <1>1, <1>7 DEF Memory
    <2> HIDE DEF k
    <2> QED
      BY <1>5, <1>6, <1>8, <2>1 DEF Memory
  <1>10. /\ n.pc = "slots" /\ n.pending = p /\ n.next = x /\ n.slot = y /\ n.erased = m.erased
         /\ n.told = told /\ n.completed = completed /\ n.failed = failed
    BY <1>1 DEF Memory
  <1> HIDE DEF n
  <1>11. /\ ctl' \in [Controllers -> Memory] /\ ctl'[c] = n
         /\ \A d \in Controllers \ {c} : ctl'[d] = ctl[d]
    BY <1>1, <1>2, <1>9, Remembering
  <1>12. /\ exec' \in [Workers -> {"no", "launched", "waiting", "top", "polled", "working", "done"}]
         /\ \A v \in Workers \ {w} : exec'[v] = exec[v]
    BY <1>1, <1>2
  <1>13. TypeOK'
    <2>1. ItemsOK'
      BY <1>1 DEF ItemsOK
    <2>2. env' \in Workers \cup {"healthy", "cooling", "due"} /\ events' \subseteq Event
      BY <1>1, Types DEF TypeOK
    <2> QED
      BY <1>1, <1>11, <1>12, <2>1, <2>2, TypesAfter
  <1>14. told = m.told \ {s} /\ \A t \in told : t \in Slots /\ t # s /\ n.slot[t] = m.slot[t]
    BY <1>5, <1>7, <1>10 DEF told
  <1>15. \A t \in Slots : \A u \in Slots \ {t} : m.next[t] # None => m.next[t] # m.next[u]
    BY <1>1 DEF Slotted
  <1>16. Slotted(c)'
    <2>1. \A t \in Slots :
            /\ n.slot[t] # None /\ boss'[n.slot[t]] = c
            /\ n.next[t] # None <=> n.pending[t] = 2
            /\ n.next[t] # None => boss'[n.next[t]] = c /\ exec'[n.next[t]] = "no"
            /\ n.pending[t] # 0 => t \in n.told
            /\ t \in n.told => exec'[n.slot[t]] = "done"
      <3> SUFFICES ASSUME NEW t \in Slots
                   PROVE  /\ n.slot[t] # None /\ boss'[n.slot[t]] = c
                          /\ n.next[t] # None <=> n.pending[t] = 2
                          /\ n.next[t] # None => boss'[n.next[t]] = c /\ exec'[n.next[t]] = "no"
                          /\ n.pending[t] # 0 => t \in n.told
                          /\ t \in n.told => exec'[n.slot[t]] = "done"
        OBVIOUS
      <3>1. CASE t = s
        BY <1>1, <1>4, <1>7, <1>10, <1>14, <3>1, Names
      <3>2. CASE t # s
        <4>1. n.slot[t] = m.slot[t] /\ n.next[t] = m.next[t] /\ n.pending[t] = m.pending[t]
          BY <1>7, <1>10, <3>2
        <4>2. m.next[t] # None => m.next[t] # w
          BY <1>15, <3>2
        <4>3. t \in m.told => exec'[m.slot[t]] = "done"
          BY <1>3, <1>4, <1>12
        <4> QED
          BY <1>1, <1>3, <1>10, <1>12, <1>14, <3>2, <4>1, <4>2, <4>3, Names
      <3> QED
        BY <3>1, <3>2
    <2>2. \A t \in Slots : \A u \in Slots \ {t} : n.next[t] # None => n.next[t] # n.next[u]
      BY <1>7, <1>10, <1>15
    <2>3. {t \in n.told : code'[n.slot[t]] = 1} = {t \in told : code[m.slot[t]] = 1}
      BY <1>1, <1>10, <1>14
    <2>4. /\ n.completed = Cardinality(n.told)
          /\ n.failed = Cardinality({t \in n.told : code'[n.slot[t]] = 1})
      BY <1>6, <1>8, <1>10, <2>3
    <2>5. n.pc \in Manning \ {"launching"} /\ n.pc \notin {"beat", "finish", "release", "recover"}
      BY <1>10 DEF Manning, Supervising
    <2> HIDE DEF m
    <2> QED
      BY <1>11, <2>1, <2>2, <2>4, <2>5 DEF Slotted
  <1>17. Accounted(c)'
    <2>1. /\ \A v \in Workers : boss[v] = c =>
                Retired(v) \/ \E t \in Slots : v = m.slot[t] \/ v = m.next[t]
          /\ \A t \in m.told : row[m.slot[t]] \notin LiveRow
      BY <1>1 DEF Accounted, Observed, Supervising
    <2>2. \A v \in Workers : boss'[v] = c =>
            Retired(v)' \/ \E t \in Slots : v = n.slot[t] \/ v = n.next[t]
      <3> SUFFICES ASSUME NEW v \in Workers, boss'[v] = c, ~Retired(v)'
                   PROVE  \E t \in Slots : v = n.slot[t] \/ v = n.next[t]
        OBVIOUS
      <3>1. CASE v = w
        BY <1>7, <1>10, <3>1
      <3>2. CASE v # w
        <4>1. ~Retired(v) /\ boss[v] = c
          BY <1>1, <1>12, <3>2 DEF Retired
        <4>2. PICK t \in Slots : v = m.slot[t] \/ v = m.next[t]
          BY <2>1, <4>1
        <4>3. v # old
          BY <1>4, <2>1, <4>1 DEF Retired
        <4>4. t # s
          BY <3>2, <4>2, <4>3
        <4> QED
          BY <1>7, <1>10, <4>2, <4>4
      <3> QED
        BY <3>1, <3>2
    <2>3. \A t \in n.told : row'[n.slot[t]] \notin LiveRow
      BY <1>1, <1>10, <1>14, <2>1
    <2> HIDE DEF m
    <2> QED
      BY <1>11, <2>2, <2>3 DEF Accounted
  <1> QED
    BY <1>1, <1>2, <1>4, <1>10, <1>11, <1>13, <1>16, <1>17, LaunchingStep DEF Supervising
-----------------------------------------------------------------------------
(* The actions of a worker process.                                        *)

(* What is known of the state, for them. *)
LEMMA AtLarge ==
  ASSUME IInv
  PROVE  /\ TypeOK /\ RowsOK /\ ItemsOK
         /\ row \in [Processes -> {"none"} \cup LiveRow \cup Ended]
         /\ want \in [Processes -> {"none", "drain"}] /\ faults \in 0..MaxFaults
         /\ boss \in [Workers -> Controllers \cup {None}]
         /\ exec \in [Workers -> {"no", "launched", "waiting", "top", "polled", "working", "done"}]
         /\ code \in [Workers -> 0..1]
         /\ ctl \in [Controllers -> Memory] /\ events \subseteq Event
         /\ env \in Workers \cup {"healthy", "cooling", "due"}
  BY Types DEF IInv, TypeOK

(* The rows after a process is finished. *)
LEMMA Finishes ==
  ASSUME row \in [Processes -> {"none"} \cup LiveRow \cup Ended],
         NEW p \in Processes, NEW st \in Ended, row' = Finished(p, st)
  PROVE  /\ row' \in [Processes -> {"none"} \cup LiveRow \cup Ended]
         /\ \A q \in Processes \ {p} : row'[q] = row[q]
         /\ row'[p] \in {"none", st}
  BY DEF Finished

(* A worker leaves with an exit code, and publishes its end. *)
LEMMA ExitStep ==
  ASSUME IInv, NEW w \in Workers, NEW status \in 0..1, exec[w] \notin {"no", "done"},
         Exit(w, status), UNCHANGED <<want, boss, events, ctl, faults, env>>,
         ItemsOK', \A v \in Workers : Owned(v)' \subseteq Owned(v)
  PROVE  IInv'
  <1>1. LET st == IF status = 0 THEN "stopped" ELSE "failed"
        IN  st \in Ended /\ row' = Finished(w, st)
    BY DEF Exit, Ended
  <1>2. /\ row' \in [Processes -> {"none"} \cup LiveRow \cup Ended]
        /\ \A q \in Processes \ {w} : row'[q] = row[q]
        /\ row'[w] # "starting"
    BY <1>1, AtLarge, Names, Finishes DEF Ended
  <1>3. exec' = [exec EXCEPT ![w] = "done"] /\ code' = [code EXCEPT ![w] = status]
    BY DEF Exit
  <1>4. TypeOK'
    <2>1. /\ exec' \in [Workers -> {"no", "launched", "waiting", "top", "polled", "working", "done"}]
          /\ code' \in [Workers -> 0..1]
      BY <1>3, AtLarge
    <2> QED
      BY <1>2, <2>1, AtLarge, TypesAfter
  <1>5. WorkerMoves(w, "done")
    BY <1>2, <1>3, AtLarge DEF WorkerMoves, Harmless
  <1> QED
    BY <1>4, <1>5, WorkerStep

(* A worker goes on to another place, and its row stays. *)
LEMMA ContinueStep ==
  ASSUME IInv, NEW w \in Workers, NEW at \in {"top", "polled", "working"},
         exec[w] \in {"waiting", "top", "polled", "working"},
         Continue(w, at), UNCHANGED <<row, want, boss, code, events, ctl>>,
         faults' \in 0..MaxFaults, env' \in Workers \cup {"healthy", "cooling", "due"},
         exec[w] = "waiting" => ~Departed(boss[w]),
         ItemsOK', \A v \in Workers : exec[v] \in Harmless => Owned(v)' \subseteq Owned(v)
  PROVE  IInv'
  <1>1. exec' = [exec EXCEPT ![w] = at]
    BY DEF Continue
  <1>2. TypeOK'
    <2>1. exec' \in [Workers -> {"no", "launched", "waiting", "top", "polled", "working", "done"}]
      BY <1>1, AtLarge
    <2> QED
      BY <2>1, AtLarge, TypesAfter
  <1>3. row[w] # "starting"
    BY AtLarge DEF RowsOK
  <1>4. WorkerMoves(w, at)
    BY <1>1, <1>3, AtLarge DEF WorkerMoves, Harmless
  <1> QED
    BY <1>2, <1>4, WorkerStep

(* The items when a step leaves them alone. *)
LEMMA ItemsStay ==
  ASSUME ItemsOK, UNCHANGED item
  PROVE  ItemsOK' /\ \A v \in Workers : Owned(v)' = Owned(v)
  BY DEF ItemsOK, Owned

(* The row becomes active, or a late process finds no controller. *)
LEMMA RegisterStep ==
  ASSUME IInv, NEW w \in Workers, Register(w) \/ RegisterTooLate(w)
  PROVE  IInv'
  <1>1. CASE Register(w)
    <2>1. /\ exec' = [exec EXCEPT ![w] = "waiting"] /\ row' = [row EXCEPT ![w] = "idle"]
          /\ exec[w] = "launched"
          /\ UNCHANGED <<want, boss, code, item, env, events, ctl, faults>>
      BY <1>1 DEF Register, Continue, jobVars
    <2>2. ItemsOK' /\ \A v \in Workers : Owned(v)' = Owned(v)
      BY <2>1, AtLarge, ItemsStay
    <2>3. /\ row' \in [Processes -> {"none"} \cup LiveRow \cup Ended] /\ row'[w] = "idle"
          /\ \A p \in Processes \ {w} : row'[p] = row[p]
      BY <2>1, AtLarge, Names DEF LiveRow
    <2>4. TypeOK'
      <3>1. exec' \in [Workers -> {"no", "launched", "waiting", "top", "polled", "working", "done"}]
        BY <2>1, AtLarge
      <3> QED
        BY <2>1, <2>2, <2>3, <3>1, AtLarge, TypesAfter
    <2>5. WorkerMoves(w, "waiting")
      BY <2>1, <2>2, <2>3 DEF WorkerMoves, Harmless
    <2> QED
      BY <2>4, <2>5, WorkerStep
  <1>2. CASE RegisterTooLate(w)
    <2>1. /\ exec' = [exec EXCEPT ![w] = "done"] /\ code' = [code EXCEPT ![w] = 1]
          /\ exec[w] = "launched"
          /\ UNCHANGED <<row, want, boss, item, env, events, ctl, faults>>
      BY <1>2 DEF RegisterTooLate, jobVars
    <2>2. ItemsOK' /\ \A v \in Workers : Owned(v)' = Owned(v)
      BY <2>1, AtLarge, ItemsStay
    <2>3. TypeOK'
      <3>1. /\ exec' \in [Workers -> {"no", "launched", "waiting", "top", "polled", "working", "done"}]
            /\ code' \in [Workers -> 0..1]
        BY <2>1, AtLarge
      <3> QED
        BY <2>1, <2>2, <3>1, AtLarge, TypesAfter
    <2>4. WorkerMoves(w, "done")
      BY <2>1, <2>2, AtLarge DEF WorkerMoves, Harmless
    <2> QED
      BY <2>3, <2>4, WorkerStep
  <1> QED
    BY <1>1, <1>2

(* The group is admitted, or the controller is gone. *)
LEMMA AdmittedStep ==
  ASSUME IInv, NEW w \in Workers, Admitted(w)
  PROVE  IInv'
  <1>1. ItemsOK' /\ (\A v \in Workers : Owned(v)' = Owned(v))
        /\ exec[w] = "waiting" /\ UNCHANGED <<want, boss, events, ctl, faults, env>>
    BY AtLarge, ItemsStay DEF Admitted, jobVars
  <1>2. CASE ParentAvailable(w)
    <2>1. Continue(w, "top") /\ UNCHANGED <<row, code>>
      BY <1>2 DEF Admitted
    <2>2. ~Departed(boss[w])
      <3>1. boss[w] \in Controllers
        BY <1>1, AtLarge DEF RowsOK
      <3> QED
        BY <1>2, <3>1, Names DEF ParentAvailable, Alive, Departed, At
    <2> QED
      BY <1>1, <2>1, <2>2, AtLarge, ContinueStep
  <1>3. CASE ~ParentAvailable(w)
    <2>1. Exit(w, 0)
      BY <1>3 DEF Admitted
    <2> QED
      BY <1>1, <2>1, ExitStep
  <1> QED
    BY <1>2, <1>3

(* One turn of the worker's loop. *)
LEMMA PollStep ==
  ASSUME IInv, NEW w \in Workers, Poll(w)
  PROVE  IInv'
  <1>1. ItemsOK' /\ (\A v \in Workers : Owned(v)' = Owned(v))
        /\ exec[w] = "top" /\ UNCHANGED <<want, boss, events, ctl, faults, env>>
    BY AtLarge, ItemsStay DEF Poll, jobVars
  <1>2. Exit(w, 0) \/ Exit(w, 1) \/ (Continue(w, "polled") /\ UNCHANGED <<row, code>>)
    BY DEF Poll
  <1> QED
    BY <1>1, <1>2, AtLarge, ExitStep, ContinueStep

(* A claim, refused or not. *)
LEMMA ClaimRefusedStep ==
  ASSUME IInv, NEW w \in Workers, ClaimRefused(w)
  PROVE  IInv'
  <1>1. ItemsOK' /\ (\A v \in Workers : Owned(v)' = Owned(v))
        /\ exec[w] = "polled" /\ UNCHANGED <<want, boss, events, ctl, faults, env>>
    BY AtLarge, ItemsStay DEF ClaimRefused, jobVars
  <1>2. Exit(w, 0) \/ (Continue(w, "top") /\ UNCHANGED <<row, code>>)
    BY DEF ClaimRefused
  <1> QED
    BY <1>1, <1>2, AtLarge, ExitStep, ContinueStep

(* It recovers what has lapsed, and takes one of the items. *)
LEMMA ClaimStep ==
  ASSUME IInv, NEW w \in Workers, Claim(w)
  PROVE  IInv'
  <1>1. exec[w] = "polled" /\ UNCHANGED <<want, boss, events, ctl, faults, env>> /\ ItemsOK
    BY AtLarge DEF Claim
  <1>2. PICK held \in SUBSET Lapsed :
          LET after == Recovered(held)
              free == {i \in Items : after[i].state = "queued"}
          IN  \/ /\ item' = after
                 /\ Exit(w, 0) \/ (Continue(w, "top") /\ UNCHANGED <<row, code>>)
              \/ \E i \in free :
                   /\ item' = [after EXCEPT ![i] = [state |-> "running", owner |-> w, lapsed |-> FALSE]]
                   /\ Continue(w, "working") /\ UNCHANGED <<row, code>>
    BY DEF Claim
  <1>3. CASE /\ item' = Recovered(held)
             /\ Exit(w, 0) \/ (Continue(w, "top") /\ UNCHANGED <<row, code>>)
    <2>1. ItemsOK' /\ \A v \in Workers : Owned(v)' \subseteq Owned(v)
      BY <1>1, <1>3, ItemsPass
    <2> QED
      BY <1>1, <1>3, <2>1, AtLarge, ExitStep, ContinueStep
  <1>4. ASSUME NEW i \in Items,
               item' = [Recovered(held) EXCEPT
                           ![i] = [state |-> "running", owner |-> w, lapsed |-> FALSE]],
               Continue(w, "working"), UNCHANGED <<row, code>>
        PROVE  IInv'
    <2>1. /\ item' \in [Items -> Entry]
          /\ item'[i].owner = w /\ item'[i].state = "running"
          /\ \A j \in Items \ {i} : \/ item'[j] = item[j]
                                    \/ item'[j].owner = None /\ item'[j].state # "running"
      BY <1>1, <1>4 DEF ItemsOK, Recovered, Recovery, Entry
    <2>2. ItemsOK' /\ \A v \in Workers \ {w} : Owned(v)' \subseteq Owned(v)
      BY <1>1, <2>1, Names DEF ItemsOK, Owned
    <2>3. exec[w] \notin Harmless
      BY <1>1 DEF Harmless
    <2> QED
      BY <1>1, <1>4, <2>2, <2>3, AtLarge, ContinueStep
  <1> QED
    BY <1>2, <1>3, <1>4

(* The call: it becomes the probe, ends the item, is deferred or fails. *)
LEMMA CallStep ==
  ASSUME IInv, NEW w \in Workers,
         Probe(w) \/ Complete(w) \/ Deferred(w) \/ ProviderFails(w)
  PROVE  IInv'
  <1>1. CASE Probe(w)
    <2>1. ItemsOK' /\ \A v \in Workers : Owned(v)' = Owned(v)
      BY <1>1, AtLarge, ItemsStay DEF Probe
    <2>2. TypeOK'
      BY <1>1, <2>1, AtLarge, TypesAfter DEF Probe
    <2>3. OutsideMoves
      BY <1>1, <2>1 DEF Probe, OutsideMoves
    <2> QED
      BY <1>1, <2>2, <2>3, OutsideStep, LedgerKept DEF Probe
  <1>2. CASE Complete(w) \/ Deferred(w) \/ ProviderFails(w)
    <2>1. /\ exec[w] = "working" /\ Continue(w, "top")
          /\ \E st \in {"queued", "ended"} : Settle(w, st)
          /\ UNCHANGED <<row, want, boss, code, events, ctl>>
          /\ faults' \in 0..MaxFaults /\ env' \in Workers \cup {"healthy", "cooling", "due"}
      BY <1>2, AtLarge, SupervisionAssumption
         DEF Complete, Deferred, ProviderFails, Called, Fault
    <2>2. ItemsOK' /\ \A v \in Workers : Owned(v)' \subseteq Owned(v)
      BY <2>1, AtLarge, ItemsPass
    <2> QED
      BY <2>1, <2>2, ContinueStep
  <1> QED
    BY <1>1, <1>2

(* A worker is killed: its row and its claims stay. *)
LEMMA KillWorkerStep ==
  ASSUME IInv, NEW w \in Workers, KillWorker(w)
  PROVE  IInv'
  <1>1. /\ exec[w] \notin {"no", "done"}
        /\ exec' = [exec EXCEPT ![w] = "done"] /\ code' = [code EXCEPT ![w] = 1]
        /\ UNCHANGED <<row, want, boss, item, env, events, ctl>> /\ faults' \in 0..MaxFaults
    BY AtLarge, SupervisionAssumption DEF KillWorker, Alive, Fault, jobVars
  <1>2. ItemsOK' /\ \A v \in Workers : Owned(v)' = Owned(v)
    BY <1>1, AtLarge, ItemsStay
  <1>3. TypeOK'
    <2>1. /\ exec' \in [Workers -> {"no", "launched", "waiting", "top", "polled", "working", "done"}]
          /\ code' \in [Workers -> 0..1]
      BY <1>1, AtLarge
    <2> QED
      BY <1>1, <1>2, <2>1, AtLarge, TypesAfter
  <1>4. WorkerMoves(w, "done")
    BY <1>1, <1>2, AtLarge DEF WorkerMoves, Harmless
  <1> QED
    BY <1>3, <1>4, WorkerStep
-----------------------------------------------------------------------------
(* The operator and the clock.                                             *)

(* worker drain: a request, which nothing has read yet. *)
LEMMA RequestDrainStep ==
  ASSUME IInv, NEW w \in Workers, RequestDrain(w)
  PROVE  IInv'
  <1>1. UNCHANGED <<row, boss, exec, code, item, env, events, ctl, faults>>
    BY DEF RequestDrain, jobVars
  <1>2. ItemsOK' /\ \A v \in Workers : Owned(v)' = Owned(v)
    BY <1>1, AtLarge, ItemsStay
  <1>3. want' \in [Processes -> {"none", "drain"}]
    BY AtLarge DEF RequestDrain
  <1>4. TypeOK'
    BY <1>1, <1>2, <1>3, AtLarge, TypesAfter
  <1>5. OutsideMoves
    BY <1>1, <1>2 DEF OutsideMoves
  <1> QED
    BY <1>1, <1>4, <1>5, OutsideStep, LedgerKept

(* worker prune. *)
LEMMA PruneStep ==
  ASSUME IInv, NEW p \in Processes, Prune(p)
  PROVE  IInv'
  <1>1. /\ Prunable(p) /\ row' = [row EXCEPT ![p] = "none"] /\ want' = [want EXCEPT ![p] = "none"]
        /\ UNCHANGED <<boss, exec, code, item, env, events, ctl, faults>>
    BY DEF Prune, jobVars
  <1>2. ItemsOK' /\ \A v \in Workers : Owned(v)' = Owned(v)
    BY <1>1, AtLarge, ItemsStay
  <1>3. /\ want' \in [Processes -> {"none", "drain"}]
        /\ row' \in [Processes -> {"none"} \cup LiveRow \cup Ended]
        /\ row'[p] = "none" /\ \A q \in Processes \ {p} : row'[q] = row[q]
    BY <1>1, AtLarge
  <1>4. TypeOK'
    BY <1>1, <1>2, <1>3, AtLarge, TypesAfter
  <1>5. OutsideMoves
    BY <1>1, <1>2, <1>3 DEF OutsideMoves
  <1> QED
    BY <1>1, <1>4, <1>5, OutsideStep, LedgerKept

(* A lease runs out; the provider may be tried again. *)
LEMMA LapseStep ==
  ASSUME IInv, (\E i \in Items : Lapse(i)) \/ Warm
  PROVE  IInv'
  <1>1. /\ UNCHANGED <<row, want, boss, exec, code, events, ctl, faults>>
        /\ env' \in Workers \cup {"healthy", "cooling", "due"}
    BY AtLarge DEF Lapse, Warm
  <1>2. ItemsOK' /\ \A v \in Workers : Owned(v)' = Owned(v)
    <2>1. CASE Warm
      BY <2>1, AtLarge, ItemsStay DEF Warm
    <2>2. ASSUME NEW i \in Items, Lapse(i)
          PROVE  ItemsOK' /\ \A v \in Workers : Owned(v)' = Owned(v)
      <3>1. item \in [Items -> Entry] /\ ItemsOK
        BY AtLarge DEF ItemsOK
      <3>2. /\ item' \in [Items -> Entry]
            /\ \A j \in Items : item'[j].state = item[j].state /\ item'[j].owner = item[j].owner
        BY <2>2, <3>1 DEF Lapse, Entry
      <3> QED
        BY <3>1, <3>2 DEF ItemsOK, Owned
    <2> QED
      BY <2>1, <2>2
  <1>3. TypeOK'
    BY <1>1, <1>2, AtLarge, TypesAfter
  <1>4. OutsideMoves
    BY <1>1, <1>2 DEF OutsideMoves
  <1> QED
    BY <1>1, <1>3, <1>4, OutsideStep, LedgerKept

(* The image of a finite set is finite, and no larger. *)
LEMMA ImageSize ==
  ASSUME NEW S, IsFiniteSet(S), NEW f, f = [x \in S |-> f[x]]
  PROVE  LET T == {f[x] : x \in S}
         IN  IsFiniteSet(T) /\ Cardinality(T) <= Cardinality(S)
  <1>1. f \in Surjection(S, {f[x] : x \in S})
    BY DEF Surjection
  <1> QED
    BY <1>1, FS_Surjection

(* A replacement ages; one that leaves the window does not come back. *)
LEMMA TickStep ==
  ASSUME IInv, Tick
  PROVE  IInv'
  <1> DEFINE Older(e) == [e EXCEPT !.age = IF e.age < Window THEN e.age + 1 ELSE e.age]
  <1>1. /\ events' = {Older(e) : e \in events}
        /\ UNCHANGED <<row, want, boss, exec, code, item, env, ctl, faults>>
    BY DEF Tick, jobVars
  <1>2. ItemsOK' /\ \A v \in Workers : Owned(v)' = Owned(v)
    BY <1>1, AtLarge, ItemsStay
  <1>3. \A e \in Event : /\ Older(e) \in Event
                         /\ Older(e).previous = e.previous /\ Older(e).replacement = e.replacement
                         /\ Older(e).age < Window => e.age < Window
    BY SupervisionAssumption DEF Event
  <1>4. events \subseteq Event /\ IsFiniteSet(events) /\ ReplacedForGood /\ ReplacementsBounded
    BY AtLarge DEF IInv, Ledger
  <1> HIDE DEF Older
  <1>5. events' \subseteq Event
    BY <1>1, <1>3, <1>4
  <1>6. TypeOK'
    BY <1>1, <1>2, <1>5, AtLarge, TypesAfter
  <1>7. OutsideMoves
    BY <1>1, <1>2 DEF OutsideMoves
  <1>8. IsFiniteSet(events')
    <2> DEFINE f == [e \in events |-> Older(e)]
    <2>1. f = [e \in events |-> f[e]] /\ events' = {f[e] : e \in events}
      BY <1>1
    <2> HIDE DEF f
    <2> QED
      BY <1>4, <2>1, ImageSize
  <1>9. ReplacementsBounded'
    <2> DEFINE young == {e \in events : e.age < Window}
               after == {f \in events' : f.age < Window}
    <2>1. IsFiniteSet(young) /\ Cardinality(young) \in Nat /\ Cardinality(young) <= MaxRestarts
      BY <1>4, FS_Subset, FS_CardinalityType DEF ReplacementsBounded
    <2> DEFINE images == {Older(e) : e \in young}
    <2>2. IsFiniteSet(images) /\ Cardinality(images) <= Cardinality(young)
      <3> DEFINE f == [e \in young |-> Older(e)]
      <3>1. f = [e \in young |-> f[e]] /\ images = {f[e] : e \in young}
        OBVIOUS
      <3> HIDE DEF f, images, young
      <3> QED
        BY <2>1, <3>1, ImageSize
    <2>3. after \subseteq images
      BY <1>1, <1>3, <1>4
    <2>4. Cardinality(images) \in Nat /\ Cardinality(after) \in Nat
          /\ Cardinality(after) <= Cardinality(images)
      BY <2>2, <2>3, FS_Subset, FS_CardinalityType
    <2>5. Cardinality(after) <= MaxRestarts
      BY <2>1, <2>2, <2>4, SupervisionAssumption
    <2> QED
      BY <2>5 DEF ReplacementsBounded
  <1>10. ReplacedForGood'
    <2>1. \A f \in events' : \E e \in events :
             f.previous = e.previous /\ f.replacement = e.replacement
      BY <1>1, <1>3, <1>4
    <2>2. \A e \in events : e.previous \in Workers
      BY <1>4 DEF Event
    <2> QED
      BY <1>1, <1>2, <1>4, <2>1, <2>2 DEF ReplacedForGood
  <1> QED
    BY <1>6, <1>7, <1>8, <1>9, <1>10, OutsideStep DEF Ledger

-----------------------------------------------------------------------------
(* The invariant holds.                                                    *)

(* It holds at first: nothing has begun. *)
LEMMA Initially ==
  ASSUME Init
  PROVE  IInv
  <1>1. /\ row = [p \in Processes |-> "none"] /\ boss = [w \in Workers |-> None]
        /\ exec = [w \in Workers |-> "no"] /\ code = [w \in Workers |-> 0]
        /\ ctl = [c \in Controllers |-> Idle] /\ events = {}
        /\ item = [i \in Items |-> [state |-> "queued", owner |-> None, lapsed |-> FALSE]]
    BY DEF Init
  <1>2. /\ Idle \in Memory /\ Idle.pc = "off" /\ Idle.told = {} /\ Idle.erased = {}
        /\ Idle.completed = 0 /\ Idle.failed = 0
        /\ \A s \in Slots : /\ Idle.slot[s] = None /\ Idle.next[s] = None
                            /\ Idle.pending[s] = 0
    BY SupervisionAssumption DEF Idle, Memory
  <1> HIDE DEF Idle
  <1>3. TypeOK
    <2>1. ctl \in [Controllers -> Memory]
      BY <1>1, <1>2
    <2>2. ItemsOK
      BY <1>1 DEF ItemsOK, Entry
    <2>3. faults \in 0..MaxFaults /\ env \in Workers \cup {"healthy", "cooling", "due"}
          /\ want \in [Processes -> {"none", "drain"}]
      BY SupervisionAssumption DEF Init
    <2> QED
      BY <1>1, <2>1, <2>2, <2>3 DEF TypeOK, ItemsOK, Entry, Memory, LiveRow
  <1>4. RowsOK
    BY <1>1, Names DEF RowsOK
  <1>5. OneController
    BY <1>1, <1>2 DEF OneController, Supervising
  <1>6. ASSUME NEW c \in Controllers PROVE Kept(c)
    <2>1. ctl[c] = Idle /\ row[c] = "none"
      BY <1>1, Names
    <2>2. Slotted(c)
      <3>1. {s \in Idle.told : code[Idle.slot[s]] = 1} = {}
        BY <1>2
      <3>2. Cardinality({}) = 0
        BY FS_EmptySet
      <3> QED
        BY <1>2, <2>1, <3>1, <3>2 DEF Slotted, Manning, Supervising
    <2>3. Accounted(c) /\ Ending(c) /\ Cleaning(c)
      BY <1>2, <2>1 DEF Accounted, Ending, Cleaning, Supervising, At
    <2> QED
      BY <2>2, <2>3 DEF Kept
  <1>7. Ledger
    <2>1. {e \in events : e.age < Window} = {}
      BY <1>1
    <2>2. IsFiniteSet({}) /\ Cardinality({}) = 0
      BY FS_EmptySet
    <2> QED
      BY <1>1, <2>1, <2>2, SupervisionAssumption
         DEF Ledger, ReplacementsBounded, ReplacedForGood
  <1> QED
    BY <1>3, <1>4, <1>5, <1>6, <1>7 DEF IInv

(* A step that changes nothing keeps it. *)
LEMMA Stuttering ==
  ASSUME IInv, UNCHANGED vars
  PROVE  IInv'
  <1>1. UNCHANGED <<row, want, boss, exec, code, item, env, events, ctl, faults>>
    BY DEF vars, jobVars
  <1>2. ItemsOK' /\ \A v \in Workers : Owned(v)' = Owned(v)
    BY <1>1, AtLarge, ItemsStay
  <1>3. TypeOK'
    BY <1>1, <1>2, AtLarge, TypesAfter
  <1>4. OutsideMoves
    BY <1>1, <1>2 DEF OutsideMoves
  <1> QED
    BY <1>1, <1>3, <1>4, OutsideStep, LedgerKept

(* Every step keeps it. *)
LEMMA EveryStep ==
  ASSUME IInv, [Next]_vars
  PROVE  IInv'
  <1>1. ASSUME NEW c \in Controllers, Takeover(c) PROVE IInv'
    BY <1>1, GroupDrainedStep, ReclaimStep, ReclaimedStep, EraseStep, CheckOwnershipStep,
       ActivateStep DEF Takeover
  <1>2. ASSUME NEW c \in Controllers, Supervise(c) PROVE IInv'
    BY <1>2, ReserveStep, LaunchStep, ObserveStep, BeatStep, FinishStep, ReleaseStep, RecoverStep,
       EndSlotsStep, FailStep, CloseStep, PassingStep, AbandonStep DEF Supervise
  <1>3. ASSUME NEW c \in Controllers, Timed(c) PROVE IInv'
    BY <1>3, BeatStep, ObserveStep, ReserveReplacementStep, LaunchReplacementStep DEF Timed
  <1>4. ASSUME NEW w \in Workers, Work(w) PROVE IInv'
    BY <1>4, RegisterStep, AdmittedStep, PollStep, ClaimStep, ClaimRefusedStep, CallStep DEF Work
  <1>5. CASE Accident
    BY <1>5, GroupOverdueStep, ReserveFailsStep, BreaksStep, KillControllerStep, CallStep,
       KillWorkerStep, AbandonStep DEF Accident
  <1>6. CASE Operator
    BY <1>6, CommandStep, RequestDrainStep, PruneStep DEF Operator
  <1>7. CASE Clock
    BY <1>7, LapseStep, TickStep DEF Clock
  <1>8. CASE UNCHANGED vars
    BY <1>8, Stuttering
  <1> QED
    BY <1>1, <1>2, <1>3, <1>4, <1>5, <1>6, <1>7, <1>8 DEF Next

(* The invariant of the supervision: what every reachable state satisfies, *)
(* whichever commands are given and whatever fails.                        *)
THEOREM Supervised == Spec => []IInv
  BY Initially, EveryStep, PTL DEF Spec

(* Every row, process, item and controller is in a state the code knows,   *)
(* a claim has an owner, and the counters of a controller stay between     *)
(* zero and its number of slots.                                           *)
THEOREM TypesHold == Spec => []TypeOK
  <1>1. IInv => TypeOK
    BY DEF IInv
  <1> QED
    BY <1>1, Supervised, PTL

(* At most one controller supervises the job, and it has its row: neither  *)
(* a takeover nor a prune takes it away, and two commands that passed      *)
(* their checks together do not both start.                                *)
THEOREM Sole == Spec => []OneController
  <1>1. IInv => OneController
    BY DEF IInv
  <1> QED
    BY <1>1, Supervised, PTL

(* A crash loop stops: however many controllers ran and whatever was       *)
(* pruned, one window sees at most MaxRestarts replacements.               *)
THEOREM Bounded == Spec => []ReplacementsBounded
  <1>1. IInv => ReplacementsBounded
    BY DEF IInv, Ledger
  <1> QED
    BY <1>1, Supervised, PTL

(* A worker that was replaced is dead, holds nothing, and was replaced     *)
(* once.                                                                   *)
THEOREM Replaced == Spec => []ReplacedForGood
  <1>1. IInv => ReplacedForGood
    BY DEF IInv, Ledger
  <1> QED
    BY <1>1, Supervised, PTL

(* Once job run has erased a group, no worker of it ever holds or takes an *)
(* item again, also one that registers late.                               *)
THEOREM Cleaned == Spec => []CleanGroupIsGone
  <1>1. IInv => CleanGroupIsGone
    BY DEF IInv, Kept, Cleaning, CleanGroupIsGone, Harmless
  <1> QED
    BY <1>1, Supervised, PTL

(* A supervision loop that ends without an error, and a controller that    *)
(* reports "stopped", leave no process and no live row of theirs behind.   *)
THEOREM Emptied == Spec => []LoopEndsEmpty
  <1>1. IInv => LoopEndsEmpty
    BY DEF IInv, Kept, Ending, LoopEndsEmpty, Retired, RowsOK, LiveRow, Ended, Alive
  <1> QED
    BY <1>1, Supervised, PTL
=============================================================================
