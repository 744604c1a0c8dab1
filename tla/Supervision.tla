----------------------------- MODULE Supervision -----------------------------
(***************************************************************************)
(* Controllers, the worker processes they keep running for one job, and    *)
(* the rows of runtime_instances through which they see each other         *)
(* (ragprocess.crexx, ragsupervision.crexx).  A command, `job run' or      *)
(* `worker start', becomes a controller; `job run' first drains and erases *)
(* what earlier controllers left.  A controller that dies leaves its       *)
(* workers, a worker that dies leaves its claim, and every one of them     *)
(* acts on what it read some steps ago.                                    *)
(*                                                                         *)
(* One transaction is one action; a poll that only reads is merged with    *)
(* the write that follows it when that write repeats the test.  Left out:  *)
(* poll and item limits (unlimited here), several jobs, hosts, reused      *)
(* process numbers, pause and cancellation (WorkQueue has them), and       *)
(* writes that fail where a process fails or leaves already.  A            *)
(* worker's rows `idle' and `running' are both "idle": no query tells them *)
(* apart.  A live worker renews its lease (WorkQueue models the others).   *)
(***************************************************************************)
EXTENDS Integers, FiniteSets, FiniteSetsExt

CONSTANTS
    Controllers,  \* commands that may become the controller of the job
    Workers,      \* identities for worker processes, each used once
    Items,        \* items of the job
    Count,        \* processes a controller keeps running
    MaxRestarts,  \* max_restarts: replacements in one window
    Window,       \* restart_window_seconds, in steps of Tick
    Commands,     \* what the operator may do: "run", "start", "drain",
                  \* "signal" (a controller), "prune"
    MaxFaults,    \* model bound: crashes, failed writes and provider failures
    None

ASSUME SupervisionAssumption ==
    /\ IsFiniteSet(Workers) /\ IsFiniteSet(Controllers) /\ IsFiniteSet(Items)
    /\ Workers \cap Controllers = {}
    /\ Count \in Nat \ {0} /\ MaxRestarts \in Nat /\ Window \in Nat \ {0}
    /\ MaxFaults \in Nat
    /\ None \notin Workers \cup Controllers

VARIABLES
    row,      \* runtime_instances.state of a process, "none" without a row
    want,     \* its requested_state
    boss,     \* the controller that reserved a worker, None before that
    exec,     \* a worker process: where it is
    code,     \* its exit code: 0, 1 (any failure)
    item,     \* an item: state, worker_id, whether its lease has lapsed
    env,      \* the provider: "healthy", "cooling", "due" for its probe, or
              \* the worker that probes it
    events,   \* the worker-replacement events of job_events
    ctl,      \* a controller: its memory
    faults    \* faults so far

jobVars == <<item, env>>
vars == <<row, want, boss, exec, code, jobVars, events, ctl, faults>>

Slots     == 1..Count
Processes == Controllers \cup Workers

-----------------------------------------------------------------------------
(* Queries over the rows, the processes and the items. *)

Ended    == {"stopped", "failed"}
LiveRow  == {"starting", "idle", "running", "draining"}
Unused   == {w \in Workers : boss[w] = None}

Supervising == {"reserving", "launching", "loop", "beat", "finish", "release",
                "recover", "slots"}

Alive(p) ==
    IF p \in Workers
    THEN exec[p] \in {"launched", "waiting", "top", "polled", "working"}
    ELSE ctl[p].pc \notin {"off", "gone"}

(* A reservation has pid 0: no process can be looked up for it. *)
SeenAlive(p) == row[p] # "starting" /\ Alive(p)

(* parent_instance_id: deleting a controller's row clears it. *)
ParentOf(w) == IF boss[w] # None /\ row[boss[w]] # "none" THEN boss[w] ELSE None

Children(c) == {w \in Workers : row[w] # "none" /\ ParentOf(w) = c}

Owned(w)  == {i \in Items : item[i].state = "running" /\ item[i].owner = w}
Queued    == {i \in Items : item[i].state = "queued"}
Lapsed    == {i \in Items : item[i].state = "running" /\ item[i].lapsed}
JobOpen   == \E i \in Items : item[i].state \in {"queued", "running"}

Drained(P) == [p \in Processes |-> IF p \in P /\ row[p] \in LiveRow THEN "drain" ELSE want[p]]

ParentAvailable(w) ==
    LET c == boss[w]
    IN  /\ row[c] \in {"starting", "idle", "running"}
        /\ want[c] = "none"
        /\ Alive(c)

(* workerclaimallowed, asked inside the claim. *)
WorkerClaimAllowed(w) ==
    /\ row[w] \in LiveRow /\ want[w] = "none"
    /\ ParentOf(w) = boss[w]
    /\ row[boss[w]] = "running" /\ want[boss[w]] = "none" /\ Alive(boss[w])

ReplacementAllowed(w) ==
    /\ JobOpen
    /\ Owned(w) = {}
    /\ row[w] = "none" \/ want[w] = "none"
    /\ LET c == ParentOf(w)
       IN  c # None => want[c] = "none" /\ row[c] \in {"starting", "idle", "running"}

LiveWorkers == {w \in Workers : row[w] \in LiveRow}

(* replacementwait: whether a replacement has to wait for the provider. *)
EnvironmentWait(live) ==
    /\ Queued # {}
    /\ \/ env = "cooling"
       \/ env \in Workers \cup {"due"} /\ live # {}

(* Fault: each controller counts its own replacements. *)
RecentOfOwn(c) == {e \in events : e.age < Window /\ e.by = c}

(* The replacements inside the window, whichever controller made them. *)
Recent(c) == {e \in events : e.age < Window}

-----------------------------------------------------------------------------
Idle == [pc |-> "off", slot |-> [s \in Slots |-> None],
         pending |-> [s \in Slots |-> 0], next |-> [s \in Slots |-> None],
         told |-> {}, completed |-> 0, failed |-> 0, seen |-> 0, cur |-> 1,
         ready |-> FALSE, draining |-> FALSE, error |-> FALSE,
         old |-> {}, erased |-> {}]

Init ==
    /\ row = [p \in Processes |-> "none"]
    /\ want = [p \in Processes |-> "none"]
    /\ boss = [w \in Workers |-> None]
    /\ exec = [w \in Workers |-> "no"]
    /\ code = [w \in Workers |-> 0]
    /\ item = [i \in Items |-> [state |-> "queued", owner |-> None, lapsed |-> FALSE]]
    /\ env = "healthy"
    /\ events = {}
    /\ ctl = [c \in Controllers |-> Idle]
    /\ faults = 0

At(c, pc)   == ctl[c].pc = pc
Goto(c, pc) == ctl' = [ctl EXCEPT ![c].pc = pc]

(* A process that ends forgets its memory (`erased' is history). *)
Gone(c) == ctl' = [ctl EXCEPT ![c] = [Idle EXCEPT !.pc = "gone", !.erased = ctl[c].erased]]

Fault == faults < MaxFaults /\ faults' = faults + 1

-----------------------------------------------------------------------------
(* job run: cleanupjobprocesses, the check of ownership, activation. *)

Command(c, command) ==
    /\ command \in Commands
    /\ At(c, "off")
    /\ \/ /\ command = "start"
          /\ Goto(c, "activate")
          /\ UNCHANGED want
       \/ /\ command = "run"
          /\ LET ids == {p \in Processes : row[p] # "none"}
             IN  /\ want' = Drained(ids)
                 /\ ctl' = [ctl EXCEPT ![c].pc = "cleaning", ![c].old = ids]
    /\ UNCHANGED <<row, boss, exec, code, jobVars, events, faults>>

(* The rows of the selected group and of what its controllers reserved. *)
Scope(c) == {p \in Processes : /\ row[p] # "none"
                               /\ \/ p \in ctl[c].old
                                  \/ p \in Workers /\ ParentOf(p) \in ctl[c].old}

(* Fault: only the controllers have to be gone. *)
GroupDrainedAbove(c) ==
    /\ At(c, "cleaning")
    /\ \A p \in Scope(c) \ Workers : ~SeenAlive(p)
    /\ ctl' = [ctl EXCEPT ![c].pc = "reclaim", ![c].old = Scope(c)]
    /\ UNCHANGED <<row, want, boss, exec, code, jobVars, events, faults>>

GroupDrained(c) ==
    /\ At(c, "cleaning")
    /\ \A p \in Scope(c) : ~SeenAlive(p)
    /\ ctl' = [ctl EXCEPT ![c].pc = "reclaim", ![c].old = Scope(c)]
    /\ UNCHANGED <<row, want, boss, exec, code, jobVars, events, faults>>

(* The deadline passes first: the command fails, ownership is kept. *)
GroupOverdue(c) ==
    /\ At(c, "cleaning")
    /\ \E p \in Scope(c) : SeenAlive(p)
    /\ Gone(c)
    /\ UNCHANGED <<row, want, boss, exec, code, jobVars, events, faults>>

(* recoverworkerclaims ends the leases in a transaction of its own ... *)
ReleaseLeases(w) ==
    item' = [i \in Items |-> IF i \in Owned(w) THEN [item[i] EXCEPT !.lapsed = TRUE]
                                               ELSE item[i]]

(* ... and claimnext recovers whatever has lapsed: an item is queued again *)
(* or set aside, its outcome unknown or its attempts used up.              *)
Recovery(i, held) ==
    [state |-> IF i \in held THEN "ended" ELSE "queued", owner |-> None, lapsed |-> FALSE]

Recovered(held) == [i \in Items |-> IF i \in Lapsed THEN Recovery(i, held) ELSE item[i]]

Reclaim(c, w) ==
    /\ At(c, "reclaim")
    /\ w \in ctl[c].old /\ Owned(w) # {}
    /\ ReleaseLeases(w)
    /\ Goto(c, "reclaiming")
    /\ UNCHANGED <<row, want, boss, exec, code, env, events, faults>>

Reclaimed(c) ==
    /\ At(c, "reclaiming")
    /\ \E held \in SUBSET Lapsed : item' = Recovered(held)
    /\ Goto(c, "reclaim")
    /\ UNCHANGED <<row, want, boss, exec, code, env, events, faults>>

Erase(c) ==
    /\ At(c, "reclaim")
    /\ \A w \in ctl[c].old \cap Workers : Owned(w) = {}
    /\ row' = [p \in Processes |-> IF p \in ctl[c].old THEN "none" ELSE row[p]]
    /\ want' = [p \in Processes |-> IF p \in ctl[c].old THEN "none" ELSE want[p]]
    /\ ctl' = [ctl EXCEPT ![c].pc = "check", ![c].old = {}, ![c].erased = ctl[c].old]
    /\ UNCHANGED <<boss, exec, code, jobVars, events, faults>>

CheckOwnership(c) ==
    /\ At(c, "check")
    /\ IF \E p \in Processes : row[p] \in LiveRow THEN Gone(c) ELSE Goto(c, "activate")
    /\ UNCHANGED <<row, want, boss, exec, code, jobVars, events, faults>>

(* Fault: the overlap is left to the check before. *)
ActivateUnchecked(c) ==
    /\ At(c, "activate")
    /\ row' = [row EXCEPT ![c] = "idle"]
    /\ Goto(c, "reserving")
    /\ UNCHANGED <<want, boss, exec, code, jobVars, events, faults>>

Activate(c) ==
    /\ At(c, "activate")
    /\ IF \E d \in Controllers \ {c} : row[d] \in LiveRow
       THEN Gone(c) /\ UNCHANGED row
       ELSE row' = [row EXCEPT ![c] = "idle"] /\ Goto(c, "reserving")
    /\ UNCHANGED <<want, boss, exec, code, jobVars, events, faults>>

-----------------------------------------------------------------------------
(* The controller starts its group: it reserves all rows, then launches. *)

(* A random identity; which one does not matter. *)
NewIdentity == CHOOSE w \in Workers : boss[w] = None

(* The parent must exist: a foreign key. *)
Insert(w, c) ==
    /\ row[c] # "none"
    /\ row' = [row EXCEPT ![w] = "starting"]
    /\ boss' = [boss EXCEPT ![w] = c]

Reserve(c) ==
    /\ At(c, "reserving")
    /\ Unused # {}
    /\ \E s \in Slots :
          /\ ctl[c].slot[s] = None
          /\ \A t \in 1..(s - 1) : ctl[c].slot[t] # None
          /\ Insert(NewIdentity, c)
          /\ ctl' = [ctl EXCEPT ![c].slot[s] = NewIdentity,
                                ![c].pc = IF s = Count THEN "launching" ELSE "reserving"]
    /\ UNCHANGED <<want, exec, code, jobVars, events, faults>>

(* A reservation fails: no child exists yet, the controller ends. *)
ReserveFails(c) ==
    /\ At(c, "reserving")
    /\ Fault
    /\ row' = [row EXCEPT ![c] = IF row[c] = "none" THEN "none" ELSE "failed"]
    /\ Gone(c)
    /\ UNCHANGED <<want, boss, exec, code, jobVars, events>>

Launch(c) ==
    /\ At(c, "launching")
    /\ \E s \in Slots :
          /\ exec[ctl[c].slot[s]] = "no"
          /\ \A t \in 1..(s - 1) : exec[ctl[c].slot[t]] # "no"
          /\ exec' = [exec EXCEPT ![ctl[c].slot[s]] = "launched"]
          /\ Goto(c, IF s = Count THEN "loop" ELSE "launching")
    /\ UNCHANGED <<row, want, boss, code, jobVars, events, faults>>

(* Launch rejected, a heartbeat or another write fails, or the group is not *)
(* registered in time.                                                      *)
Breaks(c) ==
    /\ ctl[c].pc \in {"launching", "loop", "beat", "finish", "release", "recover", "slots"}
    /\ Fault
    /\ ctl' = [ctl EXCEPT ![c].pc = "failing", ![c].error = TRUE]
    /\ UNCHANGED <<row, want, boss, exec, code, jobVars, events>>

-----------------------------------------------------------------------------
(* The supervision loop. *)

(* Fault: the row is asked, not the process. *)
ExitedByRow(c) == {s \in Slots : row[ctl[c].slot[s]] # "idle" /\ s \notin ctl[c].told}

(* Slots whose child has exited and was not observed yet. *)
Exited(c) == {s \in Slots : exec[ctl[c].slot[s]] = "done" /\ s \notin ctl[c].told}

(* children.wait (0: nothing came in time), then the request of an         *)
(* operator or a signal; a request drains the children at once.            *)
Observe(c, s) ==
    /\ At(c, "loop")
    /\ s \in Exited(c) \cup {0}
    /\ \E signal \in {x \in BOOLEAN : x => "signal" \in Commands} :
          LET drain == want[c] # "none" \/ signal
          IN  /\ want' = IF drain /\ ~ctl[c].draining
                         THEN [Drained(Children(c)) EXCEPT ![c] = "drain"] ELSE want
              /\ ctl' = [ctl EXCEPT
                    ![c].pc = "beat",
                    ![c].draining = @ \/ drain,
                    ![c].told = IF s = 0 THEN @ ELSE @ \cup {s},
                    ![c].completed = IF s = 0 THEN @ ELSE @ + 1,
                    ![c].failed = IF s # 0 THEN @ + code[ctl[c].slot[s]] ELSE @,
                    ![c].seen = s]
    /\ UNCHANGED <<row, boss, exec, code, jobVars, events, faults>>

Registered(c) == {w \in Children(c) : row[w] = "idle"}

(* The group is admitted once all its members are registered; the row says *)
(* so at the next heartbeat, one in a second.                              *)
Beat(c, due) ==
    /\ At(c, "beat")
    /\ LET draining == ctl[c].draining
           ready == ctl[c].ready \/ (~draining /\ Cardinality(Registered(c)) = Count)
           state == IF draining THEN "draining" ELSE IF ready THEN "running" ELSE "idle"
       IN  /\ row' = IF due THEN [row EXCEPT ![c] = state] ELSE row
           /\ ctl' = [ctl EXCEPT ![c].ready = ready, ![c].cur = 1,
                                 ![c].pc = IF ctl[c].seen = 0 THEN "slots" ELSE "finish"]
    /\ UNCHANGED <<want, boss, exec, code, jobVars, events, faults>>

(* finishprocess is an UPDATE: without a row nothing happens. *)
Finished(p, state) == [row EXCEPT ![p] = IF @ = "none" THEN "none" ELSE state]

Terminal(w) == IF code[w] = 0 THEN "stopped" ELSE "failed"

(* Fault: only the exit of a worker that never registered is recorded. *)
FinishUnregistered(c) ==
    /\ At(c, "finish")
    /\ LET w == ctl[c].slot[ctl[c].seen]
       IN  /\ row' = IF row[w] = "starting" THEN Finished(w, Terminal(w)) ELSE row
           /\ ctl' = [ctl EXCEPT ![c].pc =
                         IF ctl[c].ready /\ ~ctl[c].draining THEN "release" ELSE "slots"]
    /\ UNCHANGED <<want, boss, exec, code, jobVars, events, faults>>

(* The observed exit is recorded unless the worker did so itself. *)
Finish(c) ==
    /\ At(c, "finish")
    /\ LET w == ctl[c].slot[ctl[c].seen]
       IN  /\ row' = IF row[w] \in Ended THEN row ELSE Finished(w, Terminal(w))
           /\ ctl' = [ctl EXCEPT ![c].pc =
                         IF ctl[c].ready /\ ~ctl[c].draining THEN "release" ELSE "slots"]
    /\ UNCHANGED <<want, boss, exec, code, jobVars, events, faults>>

Release(c) ==
    /\ At(c, "release")
    /\ ReleaseLeases(ctl[c].slot[ctl[c].seen])
    /\ Goto(c, "recover")
    /\ UNCHANGED <<row, want, boss, exec, code, env, events, faults>>

(* The exited slot is parked: pending. *)
Recover(c) ==
    /\ At(c, "recover")
    /\ \E held \in SUBSET Lapsed : item' = Recovered(held)
    /\ ctl' = [ctl EXCEPT ![c].pc = "slots", ![c].pending[ctl[c].seen] = 1]
    /\ UNCHANGED <<row, want, boss, exec, code, env, events, faults>>

(* One slot after the other.  A slot that is not parked is passed by. *)
AtSlot(c, s) == At(c, "slots") /\ s \in Slots /\ ctl[c].cur = s

Abandoned(c, s) == ctl[c].draining \/ ~ReplacementAllowed(ctl[c].slot[s])

(* Not parked, not yet time to look again or to launch. *)
PassSlot(c, s) ==
    /\ AtSlot(c, s)
    /\ ctl[c].pending[s] # 0 => ~Abandoned(c, s)
    /\ ctl' = [ctl EXCEPT ![c].cur = s + 1]
    /\ UNCHANGED <<row, want, boss, exec, code, jobVars, events, faults>>

(* The job ended or the group drains: no replacement.  A reserved one ends, *)
(* or keeps its row when that write fails: the failure is ignored.          *)
GiveUp(c, s) ==
    /\ AtSlot(c, s)
    /\ ctl[c].pending[s] # 0 /\ Abandoned(c, s)
    /\ ctl' = [ctl EXCEPT ![c].cur = s + 1, ![c].pending[s] = 0, ![c].next[s] = None]
    /\ UNCHANGED <<want, boss, exec, code, jobVars, events>>

Abandon(c, s) ==
    /\ GiveUp(c, s)
    /\ row' = IF ctl[c].next[s] = None THEN row ELSE Finished(ctl[c].next[s], "stopped")
    /\ UNCHANGED faults

AbandonFails(c, s) ==
    /\ GiveUp(c, s)
    /\ ctl[c].next[s] # None
    /\ Fault
    /\ UNCHANGED row

(* reserveworkerreplacement, one transaction: whether the slot may have one *)
(* at all, *)
Eligible(c, w) ==
    /\ row[w] \in Ended /\ want[w] = "none" /\ ParentOf(w) = c
    /\ ReplacementAllowed(w)
    /\ MaxRestarts > 0

Repeated(w) == \E e \in events : e.previous = w

(* and whether it has to wait. *)
MustWait(c) ==
    \/ Queued = {}
    \/ Cardinality(Recent(c)) >= MaxRestarts
    \/ EnvironmentWait(LiveWorkers)

ReserveReplacement(c, s) ==
    /\ AtSlot(c, s)
    /\ ctl[c].pending[s] = 1 /\ ~Abandoned(c, s)
    /\ LET w == ctl[c].slot[s]
           n == NewIdentity
       IN  /\ Eligible(c, w) /\ ~Repeated(w) /\ ~MustWait(c)
           /\ Unused # {}
           /\ Insert(n, c)
           /\ events' = events \cup {[previous |-> w, replacement |-> n, by |-> c, age |-> 0]}
           /\ ctl' = [ctl EXCEPT ![c].cur = s + 1, ![c].pending[s] = 2, ![c].next[s] = n]
    /\ UNCHANGED <<want, exec, code, jobVars, faults>>

(* The row of the exited worker is gone, or it was replaced before. *)
RefuseReplacement(c, s) ==
    /\ AtSlot(c, s)
    /\ ctl[c].pending[s] = 1 /\ ~Abandoned(c, s)
    /\ LET w == ctl[c].slot[s]
       IN  ~Eligible(c, w) \/ (Queued # {} /\ Repeated(w))
    /\ ctl' = [ctl EXCEPT ![c].cur = s + 1, ![c].pending[s] = 0]
    /\ UNCHANGED <<row, want, boss, exec, code, jobVars, events, faults>>

(* Fault: the slot still counts as failed. *)
LaunchStillFailed(c, s) ==
    /\ AtSlot(c, s)
    /\ ctl[c].pending[s] = 2 /\ ~Abandoned(c, s)
    /\ LET n == ctl[c].next[s]
       IN  /\ exec' = [exec EXCEPT ![n] = "launched"]
           /\ ctl' = [ctl EXCEPT
                 ![c].cur = s + 1, ![c].pending[s] = 0, ![c].next[s] = None,
                 ![c].slot[s] = n, ![c].told = @ \ {s},
                 ![c].completed = @ - 1]
    /\ UNCHANGED <<row, want, boss, code, jobVars, events, faults>>

(* Its backoff is over.  A rejected launch is seen as an exit. *)
LaunchReplacement(c, s) ==
    /\ AtSlot(c, s)
    /\ ctl[c].pending[s] = 2 /\ ~Abandoned(c, s)
    /\ LET n == ctl[c].next[s]
       IN  /\ exec' = [exec EXCEPT ![n] = "launched"]
           /\ ctl' = [ctl EXCEPT
                 ![c].cur = s + 1, ![c].pending[s] = 0, ![c].next[s] = None,
                 ![c].slot[s] = n, ![c].told = @ \ {s},
                 ![c].completed = @ - 1,
                 ![c].failed = @ - code[ctl[c].slot[s]]]
    /\ UNCHANGED <<row, want, boss, code, jobVars, events, faults>>

(* A failure before admission ends the group; all done and nothing parked  *)
(* ends the loop.                                                          *)
EndSlots(c) ==
    /\ At(c, "slots") /\ ctl[c].cur > Count
    /\ LET m == ctl[c]
           startupFailed == m.failed > 0 /\ ~m.ready /\ ~m.draining
       IN  ctl' = [ctl EXCEPT
              ![c].error = startupFailed,
              ![c].cur = 1,
              ![c].pc = IF startupFailed THEN "failing"
                        ELSE IF m.completed = Count /\ \A s \in Slots : m.pending[s] = 0
                        THEN "closing" ELSE "loop"]
    /\ UNCHANGED <<row, want, boss, exec, code, jobVars, events, faults>>

(* The error path: the failure is published, the launched workers drained. *)
Fail(c) ==
    /\ At(c, "failing")
    /\ row' = Finished(c, "failed")
    /\ want' = Drained({ctl[c].slot[s] : s \in Slots})
    /\ Goto(c, "closing")
    /\ UNCHANGED <<boss, exec, code, jobVars, events, faults>>

(* children.close returns when every child has exited. *)
Close(c) ==
    /\ At(c, "closing")
    /\ \A w \in Workers : boss[w] = c => ~Alive(w)
    /\ row' = Finished(c, IF ctl[c].error \/ ctl[c].failed > 0 THEN "failed" ELSE "stopped")
    /\ Gone(c)
    /\ UNCHANGED <<want, boss, exec, code, jobVars, events, faults>>

(* kill -9. *)
KillController(c) ==
    /\ Alive(c)
    /\ Fault
    /\ Gone(c)
    /\ UNCHANGED <<row, want, boss, exec, code, jobVars, events>>

-----------------------------------------------------------------------------
(* A worker process (_runapplicationworker, _runworkeronce). *)

Exit(w, status) ==
    /\ row' = Finished(w, IF status = 0 THEN "stopped" ELSE "failed")
    /\ exec' = [exec EXCEPT ![w] = "done"]
    /\ code' = [code EXCEPT ![w] = status]

Continue(w, at) == exec' = [exec EXCEPT ![w] = at]

(* The reserved row becomes active, or a late process whose row was erased *)
(* inserts a new one; either way the row names its controller.             *)
Register(w) ==
    /\ exec[w] = "launched"
    /\ row[boss[w]] # "none"
    /\ row' = [row EXCEPT ![w] = "idle"]
    /\ Continue(w, "waiting")
    /\ UNCHANGED <<want, boss, code, jobVars, events, ctl, faults>>

(* Without the controller's row the foreign key refuses both: the process  *)
(* exits and leaves the row as it is.                                      *)
RegisterTooLate(w) ==
    /\ exec[w] = "launched"
    /\ row[boss[w]] = "none"
    /\ exec' = [exec EXCEPT ![w] = "done"]
    /\ code' = [code EXCEPT ![w] = 1]
    /\ UNCHANGED <<row, want, boss, jobVars, events, ctl, faults>>

(* The whole group is registered before any child works. *)
Admitted(w) ==
    /\ exec[w] = "waiting"
    /\ IF ParentAvailable(w)
       THEN row[boss[w]] = "running" /\ Continue(w, "top") /\ UNCHANGED <<row, code>>
       ELSE Exit(w, 0)
    /\ UNCHANGED <<want, boss, jobVars, events, ctl, faults>>

(* One turn: the controller, a heartbeat on the own row, the own request. *)
Poll(w) ==
    /\ exec[w] = "top"
    /\ IF ~ParentAvailable(w) THEN Exit(w, 0)
       ELSE IF row[w] \notin LiveRow THEN Exit(w, 1)
       ELSE IF want[w] # "none" THEN Exit(w, 0)
       ELSE Continue(w, "polled") /\ UNCHANGED <<row, code>>
    /\ UNCHANGED <<want, boss, jobVars, events, ctl, faults>>

(* claimnext recovers lapsed items and claims one in one transaction ... *)
Claim(w) ==
    /\ exec[w] = "polled"
    /\ WorkerClaimAllowed(w)
    /\ \E held \in SUBSET Lapsed :
         LET after == Recovered(held)
             free == {i \in Items : after[i].state = "queued"}
         IN  \/ /\ free = {}
                /\ item' = after
                /\ IF \E i \in Items : after[i].state = "running"
                   THEN Continue(w, "top") /\ UNCHANGED <<row, code>> ELSE Exit(w, 0)
             \/ \E i \in free :
                   /\ item' = [after EXCEPT ![i] = [state |-> "running", owner |-> w, lapsed |-> FALSE]]
                   /\ Continue(w, "working") /\ UNCHANGED <<row, code>>
    /\ UNCHANGED <<want, boss, env, events, ctl, faults>>

(* ... which is rolled back, the recovery too, when it may not claim. *)
ClaimRefused(w) ==
    /\ exec[w] = "polled"
    /\ ~WorkerClaimAllowed(w)
    /\ IF JobOpen THEN Continue(w, "top") /\ UNCHANGED <<row, code>> ELSE Exit(w, 0)
    /\ UNCHANGED <<want, boss, jobVars, events, ctl, faults>>

Settle(w, state) ==
    item' = [i \in Items |-> IF i \in Owned(w)
                             THEN [state |-> state, owner |-> None, lapsed |-> FALSE] ELSE item[i]]

(* The first call after the cooldown is the probe (ProviderCapacity). *)
Probe(w) ==
    /\ exec[w] = "working" /\ env = "due"
    /\ env' = w
    /\ UNCHANGED <<row, want, boss, exec, code, item, events, ctl, faults>>

Called(w) == exec[w] = "working" /\ env \in {"healthy", w}

Complete(w) ==
    /\ Called(w)
    /\ Settle(w, "ended")
    /\ env' = "healthy"
    /\ Continue(w, "top")
    /\ UNCHANGED <<row, want, boss, code, events, ctl, faults>>

(* The call is not admitted: the provider cools or another worker probes. *)
Deferred(w) ==
    /\ exec[w] = "working"
    /\ env \in {"cooling"} \cup (Workers \ {w})
    /\ Settle(w, "queued")
    /\ Continue(w, "top")
    /\ UNCHANGED <<row, want, boss, code, env, events, ctl, faults>>

ProviderFails(w) ==
    /\ Called(w)
    /\ Fault
    /\ Settle(w, "queued")
    /\ env' = "cooling"
    /\ Continue(w, "top")
    /\ UNCHANGED <<row, want, boss, code, events, ctl>>

(* Killed, or never really started. *)
KillWorker(w) ==
    /\ Alive(w)
    /\ Fault
    /\ exec' = [exec EXCEPT ![w] = "done"]
    /\ code' = [code EXCEPT ![w] = 1]
    /\ UNCHANGED <<row, want, boss, jobVars, events, ctl>>

-----------------------------------------------------------------------------
(* The operator and time. *)

(* worker drain: requestprocess. *)
RequestDrain(w) ==
    /\ "drain" \in Commands
    /\ row[w] \in LiveRow /\ want[w] = "none"
    /\ want' = [want EXCEPT ![w] = "drain"]
    /\ UNCHANGED <<row, boss, exec, code, jobVars, events, ctl, faults>>

(* worker prune: ended rows, and stale ones whose process is gone; for a   *)
(* reservation, the process of its controller.                             *)
Prunable(p) ==
    \/ row[p] \in Ended
    \/ row[p] \in LiveRow \ {"starting"} /\ ~Alive(p)
    \/ row[p] = "starting" /\ (ParentOf(p) # None => ~Alive(ParentOf(p)))

Prune(p) ==
    /\ "prune" \in Commands
    /\ Prunable(p)
    /\ row' = [row EXCEPT ![p] = "none"]
    /\ want' = [want EXCEPT ![p] = "none"]
    /\ UNCHANGED <<boss, exec, code, jobVars, events, ctl, faults>>

(* The lease of a dead worker's claim runs out. *)
Lapse(i) ==
    /\ item[i].state = "running" /\ ~item[i].lapsed
    /\ exec[item[i].owner] = "done"
    /\ item' = [item EXCEPT ![i].lapsed = TRUE]
    /\ UNCHANGED <<row, want, boss, exec, code, env, events, ctl, faults>>

(* The cooldown is over, or the admission of a dead prober. *)
Warm ==
    /\ env = "cooling" \/ (env \in Workers /\ ~Alive(env))
    /\ env' = "due"
    /\ UNCHANGED <<row, want, boss, exec, code, item, events, ctl, faults>>

Tick ==
    /\ \E e \in events : e.age < Window
    /\ events' = {[e EXCEPT !.age = IF @ < Window THEN @ + 1 ELSE @] : e \in events}
    /\ UNCHANGED <<row, want, boss, exec, code, jobVars, ctl, faults>>

-----------------------------------------------------------------------------
Takeover(c) ==
    \/ GroupDrained(c) \/ \E w \in Workers : Reclaim(c, w)
    \/ Reclaimed(c) \/ Erase(c) \/ CheckOwnership(c) \/ Activate(c)

Supervise(c) ==
    \/ Reserve(c) \/ Launch(c) \/ Observe(c, 0) \/ Beat(c, FALSE) \/ Finish(c)
    \/ Release(c) \/ Recover(c) \/ EndSlots(c) \/ Fail(c) \/ Close(c)
    \/ \E s \in Slots : PassSlot(c, s) \/ Abandon(c, s) \/ RefuseReplacement(c, s)

(* What waits for the clock as well. *)
Timed(c) ==
    \/ Beat(c, TRUE)
    \/ \E s \in Slots : Observe(c, s) \/ ReserveReplacement(c, s) \/ LaunchReplacement(c, s)

Work(w) ==
    \/ Register(w) \/ RegisterTooLate(w) \/ Admitted(w) \/ Poll(w)
    \/ Claim(w) \/ ClaimRefused(w) \/ Probe(w) \/ Complete(w) \/ Deferred(w)

Accident ==
    \/ \E c \in Controllers :
          \/ GroupOverdue(c) \/ ReserveFails(c) \/ Breaks(c) \/ KillController(c)
          \/ \E s \in Slots : AbandonFails(c, s)
    \/ \E w \in Workers : ProviderFails(w) \/ KillWorker(w)

Operator ==
    \/ \E c \in Controllers, command \in {"run", "start"} : Command(c, command)
    \/ \E w \in Workers : RequestDrain(w)
    \/ \E p \in Processes : Prune(p)

Clock == Warm \/ Tick \/ \E i \in Items : Lapse(i)

Next ==
    \/ \E c \in Controllers : Takeover(c) \/ Supervise(c) \/ Timed(c)
    \/ \E w \in Workers : Work(w)
    \/ Accident \/ Operator \/ Clock

Spec == Init /\ [][Next]_vars

(* Fairness: processes run on, leases and cooldowns run out, and a          *)
(* controller that keeps looping sees each exit in some turn, is at each    *)
(* slot when its time has come, and writes a heartbeat now and then.        *)
LiveSpec ==
    /\ Spec
    /\ \A c \in Controllers :
          /\ WF_vars(Takeover(c)) /\ WF_vars(Supervise(c))
          /\ SF_vars(Beat(c, TRUE))
          /\ \A s \in Slots :
                /\ SF_vars(Observe(c, s))
                /\ SF_vars(ReserveReplacement(c, s)) /\ SF_vars(LaunchReplacement(c, s))
    /\ \A w \in Workers : WF_vars(Work(w))
    /\ WF_vars(Warm) /\ WF_vars(Tick)
    /\ \A i \in Items : WF_vars(Lapse(i))

-----------------------------------------------------------------------------
(* Types: every row, process, item and controller is in a state the code   *)
(* knows; a claim has an owner, and only a claim has one.                   *)
TypeOK ==
    /\ row \in [Processes -> {"none"} \cup LiveRow \cup Ended]
    /\ want \in [Processes -> {"none", "drain"}]
    /\ boss \in [Workers -> Controllers \cup {None}]
    /\ exec \in [Workers -> {"no", "launched", "waiting", "top", "polled", "working", "done"}]
    /\ code \in [Workers -> 0..1]
    /\ item \in [Items -> [state : {"queued", "running", "ended"},
                          owner : Workers \cup {None}, lapsed : BOOLEAN]]
    /\ \A i \in Items : item[i].state = "running" <=> item[i].owner # None
    /\ env \in Workers \cup {"healthy", "cooling", "due"}
    /\ events \subseteq [previous : Workers, replacement : Workers, by : Controllers, age : 0..Window]
    /\ ctl \in [Controllers ->
          [pc : Supervising \cup {"off", "cleaning", "reclaim", "reclaiming", "check", "activate",
                                  "failing", "closing", "gone"},
           slot : [Slots -> Workers \cup {None}], pending : [Slots -> 0..2],
           next : [Slots -> Workers \cup {None}], told : SUBSET Slots,
           completed : 0..Count, failed : 0..Count, seen : 0..Count, cur : 1..(Count + 1),
           ready : BOOLEAN, draining : BOOLEAN, error : BOOLEAN,
           old : SUBSET Processes, erased : SUBSET Processes]]
    /\ faults \in 0..MaxFaults

(* A crash loop stops: whichever controllers ran, and whatever was drained  *)
(* or pruned meanwhile, one window sees at most MaxRestarts replacements    *)
(* (reserveworkerreplacement; "controller restart and runtime pruning       *)
(* cannot erase them").                                                     *)
ReplacementsBounded ==
    Cardinality({e \in events : e.age < Window}) <= MaxRestarts

(* A worker that was replaced is dead, was replaced once, and its claims    *)
(* were recovered before: its replacement starts while nothing of the old   *)
(* worker can still be running.                                             *)
ReplacedForGood ==
    \A e \in events :
        /\ exec[e.previous] = "done"
        /\ Owned(e.previous) = {}
        /\ \A f \in events : f.previous = e.previous => f.replacement = e.replacement

(* At most one controller supervises the job, and it has its row: neither   *)
(* a takeover nor a prune removes the row of a controller at work, and two  *)
(* commands that passed their checks together do not both start.            *)
OneController ==
    \A c \in Controllers : ctl[c].pc \in Supervising =>
        /\ row[c] \in LiveRow
        /\ \A d \in Controllers \ {c} : ctl[d].pc \notin Supervising

(* Once `job run' has erased a group, no worker of it ever holds or takes   *)
(* an item again, registered late or not.                                   *)
CleanGroupIsGone ==
    \A c \in Controllers : \A w \in ctl[c].erased \cap Workers :
        /\ Owned(w) = {}
        /\ exec[w] \in {"no", "launched", "waiting", "done"}

(* A supervision loop that ends without an error leaves no process and no   *)
(* row that counts as a live worker behind, and neither does a controller   *)
(* that reports "stopped"; except the reservation of a process that never   *)
(* began, whose end could not be written.                                   *)
LoopEndsEmpty ==
    \A c \in Controllers :
        (At(c, "closing") /\ ~ctl[c].error) \/ row[c] = "stopped" =>
            \A w \in Workers : boss[w] = c =>
                /\ ~Alive(w)
                /\ row[w] \in LiveRow => row[w] = "starting" /\ exec[w] = "no"

(* The controller is told to stop, or fails. *)
Interrupted(c) ==
    ctl[c].draining \/ want[c] # "none" \/ ctl[c].error \/ (At(c, "gone") /\ row[c] \notin Ended)

AllEnded == \A i \in Items : item[i].state = "ended"

(* While an admitted, undrained group is supervised every item ends: the    *)
(* claims of exited workers are recovered and their slots filled again, an  *)
(* empty pool too ("With zero live workers exactly one reserved replacement *)
(* becomes the probe owner", replacementwait).                              *)
EveryItemEnds ==
    \A c \in Controllers : ctl[c].ready ~> AllEnded \/ Interrupted(c)

=============================================================================
