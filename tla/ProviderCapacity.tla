--------------------------- MODULE ProviderCapacity ---------------------------
(***************************************************************************)
(* Capacity of one provider and model, shared by independent workers       *)
(* (ragenvironment.crexx): admissions with a lease, requests and tokens in *)
(* a sliding minute, a cooldown after retryable failures, and the single   *)
(* probe that ends it.  A call here is an item with its attempts up to the *)
(* one that is admitted: each deferral ends an attempt, and the row of the *)
(* admission is named after the attempt that gets it.                      *)
(*                                                                         *)
(* Time is the epoch second of the database.  One transaction is one       *)
(* action; the look at the cooldown before it is an action of its own.     *)
(* The minute and the slack of a lease are parameters, 60 and 30 in the    *)
(* code; requests for capacity that can never be met (-1, -2) are left     *)
(* out.                                                                    *)
(***************************************************************************)
EXTENDS Integers, FiniteSets, FiniteSetsExt

CONSTANTS
    Calls,        \* items that want the provider to be called
    Tokens,       \* the token reservation of each
    Requests,     \* requests_per_minute
    TokenRate,    \* tokens_per_minute
    Concurrent,   \* concurrent_requests
    Timeout,      \* timeout_ms, in seconds
    Slack,        \* what a lease allows beyond the timeout
    Minute,       \* length of the window in which requests are counted
    Initial,      \* initial_backoff_ms, in seconds
    Maximum,      \* maximum_backoff_ms, in seconds
    Delays,       \* retry delays a failed answer may carry, in seconds
    Punctual,     \* whether whatever is due happens before time passes
    MaxTime       \* model bound: the last second

ASSUME CapacityAssumption ==
    /\ IsFiniteSet(Calls)
    /\ Requests \in Nat \ {0} /\ Concurrent \in Nat \ {0}
    /\ TokenRate \in Nat \ {0}
    /\ Tokens \in [Calls -> Nat] /\ \A c \in Calls : Tokens[c] <= TokenRate
    /\ Timeout \in Nat \ {0} /\ Slack \in Nat \ {0} /\ Minute \in Nat \ {0}
    /\ Initial \in Nat \ {0} /\ Maximum \in Nat \ {0}
    /\ Delays \subseteq Nat
    /\ Punctual \in BOOLEAN /\ MaxTime \in Nat

VARIABLES
    now,          \* unixepoch()
    pc,           \* a call: where its worker is
    due,          \* retry_at of its item while that is parked
    begun,        \* when the provider was called, while it is
    answer,       \* what the provider said
    delay,        \* the retry delay of a failed answer, 0 if there is none
    outcome,      \* provider_admissions.outcome, "none" without a row
    admitted,     \* provider_admissions.admitted_epoch
    released,     \* provider_admissions.released_epoch
    notBefore,    \* provider_cooldowns.not_before_epoch, 0 without a row
    failures      \* provider_cooldowns.failure_count, 0 without a row

callVars     == <<due, begun, answer, delay>>
rowVars      == <<outcome, admitted, released>>
cooldownVars == <<notBefore, failures>>
vars == <<now, pc, callVars, rowVars, cooldownVars>>

-----------------------------------------------------------------------------
(* Queries. *)

Larger(m, n)  == IF m > n THEN m ELSE n

(* Fault: the lease covers the timeout alone. *)
LeaseUntilTimeout(c) == admitted[c] + Timeout

(* lease_until_epoch: the timeout of the call and some time around it. *)
LeaseUntil(c) == admitted[c] + Timeout + Slack

(* Fault: expiry does not give the place back. *)
OpenAnyway(c) == outcome[c] \in {"active", "expired"}

Open(c) == outcome[c] = "active" /\ LeaseUntil(c) > now

(* Admissions that still count against the concurrency. *)
Active == {c \in Calls : Open(c)}

(* Fault: a released call no longer counts. *)
RecentOpen == {c \in Active : admitted[c] > now - Minute}

(* Admissions of the last minute, whatever became of them. *)
Recent == {c \in Calls : outcome[c] # "none" /\ admitted[c] > now - Minute}

TokensOf(S) == MapThenSumSet(LAMBDA c : Tokens[c], S)

HasRoom(c) ==
    /\ Cardinality(Recent) < Requests
    /\ TokensOf(Recent) + Tokens[c] <= TokenRate

(* Fault: the end of a cooldown opens the whole concurrency. *)
MayAdmitTogether(c) ==
    notBefore <= now /\ HasRoom(c) /\ Cardinality(Active) < Concurrent

MayAdmit(c) ==
    /\ notBefore <= now
    /\ failures = 0 \/ Active = {}
    /\ HasRoom(c)
    /\ Cardinality(Active) < Concurrent

(* How long a refused call is told to wait. *)
WaitFor(c) ==
    LET first == IF Recent = {} THEN now ELSE Min({admitted[d] : d \in Recent})
        rate  == IF HasRoom(c) THEN 1 ELSE Larger(1, first + Minute + 1 - now)
    IN Larger(rate, notBefore - now)

(* The delay of a cooldown after n earlier failures: the initial delay,    *)
(* doubled n times under the maximum, and no less than the answer asks     *)
(* for; a second is added because epochs are whole.                        *)
Backoff(n, asked) ==
    LET grown == IF n = 0 \/ Initial * 2 ^ n <= Maximum
                 THEN Initial * 2 ^ n ELSE Maximum
    IN Larger(grown, asked) + 1

-----------------------------------------------------------------------------
Init ==
    /\ now = 0
    /\ pc = [c \in Calls |-> "idle"]
    /\ due = [c \in Calls |-> 0]
    /\ begun = [c \in Calls |-> 0]
    /\ answer = [c \in Calls |-> "none"]
    /\ delay = [c \in Calls |-> 0]
    /\ outcome = [c \in Calls |-> "none"]
    /\ admitted = [c \in Calls |-> 0]
    /\ released = [c \in Calls |-> 0]
    /\ notBefore = 0 /\ failures = 0

Goto(c, step) == pc' = [pc EXCEPT ![c] = step]

(* The item is parked (failattempt) and taken up again when it is due. *)
Park(c, wait) ==
    /\ Goto(c, "idle")
    /\ due' = [due EXCEPT ![c] = now + wait]
    /\ UNCHANGED <<begun, answer, delay>>

-----------------------------------------------------------------------------
(* admitprovidercall *)

(* The look at the cooldown takes no lock. *)
Look(c) ==
    /\ pc[c] = "idle" /\ now >= due[c]
    /\ IF notBefore > now
       THEN Park(c, notBefore - now)
       ELSE /\ Goto(c, "looked")
            /\ due' = [due EXCEPT ![c] = 0]
            /\ UNCHANGED <<begun, answer, delay>>
    /\ UNCHANGED <<now, rowVars, cooldownVars>>

(* Overdue admissions expire first, in the same transaction. *)
Expired ==
    {c \in Calls : outcome[c] = "active" /\ LeaseUntil(c) <= now}

AfterExpiry ==
    [c \in Calls |-> IF c \in Expired THEN "expired" ELSE outcome[c]]

ReleasedAfterExpiry ==
    [c \in Calls |-> IF c \in Expired THEN now ELSE released[c]]

Admit(c) ==
    /\ pc[c] = "looked"
    /\ MayAdmit(c)
    /\ outcome' = [AfterExpiry EXCEPT ![c] = "active"]
    /\ admitted' = [admitted EXCEPT ![c] = now]
    /\ released' = ReleasedAfterExpiry
    /\ Goto(c, "admitted")
    /\ UNCHANGED <<now, callVars, cooldownVars>>

Defer(c) ==
    /\ pc[c] = "looked"
    /\ ~MayAdmit(c)
    /\ outcome' = AfterExpiry
    /\ released' = ReleasedAfterExpiry
    /\ Park(c, WaitFor(c))
    /\ UNCHANGED <<now, admitted, cooldownVars>>

(* The maintenance window of the job has closed: all is rolled back, and   *)
(* the item fails without a call.                                          *)
Refuse(c) ==
    /\ pc[c] = "looked"
    /\ Goto(c, "refused")
    /\ UNCHANGED <<now, callVars, rowVars, cooldownVars>>

-----------------------------------------------------------------------------
(* The call: _process, from the admission to its release. *)

Begin(c) ==
    /\ pc[c] = "admitted"
    /\ Goto(c, "calling")
    /\ begun' = [begun EXCEPT ![c] = now]
    /\ UNCHANGED <<now, due, answer, delay, rowVars, cooldownVars>>

(* The answer, or the failure that stands for it when the timeout strikes. *)
Answer(c) ==
    /\ pc[c] = "calling"
    /\ Goto(c, "answered")
    /\ begun' = [begun EXCEPT ![c] = 0]
    /\ \/ /\ answer' = [answer EXCEPT ![c] = "succeeded"]
          /\ UNCHANGED delay
       \/ /\ answer' = [answer EXCEPT ![c] = "failed"]
          /\ \E d \in Delays : delay' = [delay EXCEPT ![c] = d]
    /\ UNCHANGED <<now, due, rowVars, cooldownVars>>

(* Fault: any success ends the cooldown. *)
UpdateCooldownAny(c) ==
    \/ answer[c] = "succeeded" /\ failures' = 0 /\ notBefore' = 0
    \/ /\ answer[c] = "failed" /\ delay[c] > 0
       /\ notBefore' = Larger(notBefore, now + Backoff(failures, delay[c]))
       /\ failures' = failures + 1
    \/ /\ answer[c] = "failed" /\ delay[c] = 0
       /\ UNCHANGED cooldownVars

(* Fault: a success takes back one failure. *)
UpdateCooldownByOne(c) ==
    \/ answer[c] = "succeeded" /\ failures' = failures - 1 /\ notBefore' = 0
    \/ /\ answer[c] = "failed" /\ delay[c] > 0
       /\ notBefore' = Larger(notBefore, now + Backoff(failures, delay[c]))
       /\ failures' = failures + 1
    \/ /\ answer[c] = "failed" /\ delay[c] = 0
       /\ UNCHANGED cooldownVars

(* updatecooldown *)
UpdateCooldown(c) ==
    \/ /\ answer[c] = "succeeded"
       /\ IF admitted[c] >= notBefore
          THEN failures' = 0 /\ notBefore' = 0
          ELSE UNCHANGED cooldownVars
    \/ /\ answer[c] = "failed" /\ delay[c] > 0
       /\ notBefore' = Larger(notBefore, now + Backoff(failures, delay[c]))
       /\ failures' = failures + 1
    \/ /\ answer[c] = "failed" /\ delay[c] = 0
       /\ UNCHANGED cooldownVars

(* releaseprovidercall, also after the lease has expired. *)
Release(c) ==
    /\ pc[c] = "answered"
    /\ outcome[c] \in {"active", "expired"}
    /\ outcome' = [outcome EXCEPT ![c] = answer[c]]
    /\ released' = [released EXCEPT ![c] = now]
    /\ UpdateCooldown(c)
    /\ Goto(c, "released")
    /\ UNCHANGED <<now, callVars, admitted>>

(* A release that finds its admission settled leaves the cooldown alone,   *)
(* whether it agrees with what is there or conflicts with it.              *)
ReleaseAgain(c) ==
    /\ pc[c] = "answered"
    /\ outcome[c] \notin {"active", "expired"}
    /\ Goto(c, "settled")
    /\ UNCHANGED <<now, callVars, rowVars, cooldownVars>>

(* recoverprovideraccounting: a later attempt settles the stored answer of *)
(* this one, and releases its admission without a cooldown.                *)
RecoverRelease(c) ==
    /\ answer[c] # "none"
    /\ outcome[c] \in {"active", "expired"}
    /\ outcome' = [outcome EXCEPT ![c] = answer[c]]
    /\ released' = [released EXCEPT ![c] = now]
    /\ UNCHANGED <<now, pc, callVars, admitted, cooldownVars>>

Ended == {"refused", "released", "settled", "stopped"}

(* The worker process dies, and its connection with it. *)
Crash(c) ==
    /\ pc[c] \notin Ended \cup {"idle"}
    /\ Goto(c, "stopped")
    /\ begun' = [begun EXCEPT ![c] = 0]
    /\ UNCHANGED <<now, due, answer, delay, rowVars, cooldownVars>>

-----------------------------------------------------------------------------
(* Time.  A call does not outlast the timeout it is given, and begins      *)
(* within the slack of its lease.                                          *)

InTime(c) ==
    /\ pc[c] = "admitted" => now + 1 < admitted[c] + Slack
    /\ pc[c] = "calling" => now < begun[c] + Timeout

(* What a punctual worker would do before the second is over. *)
Waits(c) ==
    \/ pc[c] = "idle" /\ now < due[c]
    \/ pc[c] \in {"admitted", "calling"}
    \/ pc[c] \in Ended

Tick ==
    /\ now < MaxTime
    /\ \A c \in Calls : InTime(c)
    /\ Punctual => \A c \in Calls : Waits(c)
    /\ now' = now + 1
    /\ UNCHANGED <<pc, callVars, rowVars, cooldownVars>>

Step(c) ==
    \/ Look(c) \/ Admit(c) \/ Defer(c) \/ Refuse(c)
    \/ Begin(c) \/ Answer(c) \/ Release(c) \/ ReleaseAgain(c)

Next ==
    \/ Tick
    \/ \E c \in Calls : Step(c) \/ RecoverRelease(c) \/ Crash(c)

Spec == Init /\ [][Next]_vars

LiveSpec == Spec /\ WF_vars(Tick) /\ \A c \in Calls : WF_vars(Step(c))

-----------------------------------------------------------------------------
TypeOK ==
    /\ now \in 0 .. MaxTime
    /\ pc \in [Calls -> Ended \cup {"idle", "looked", "admitted",
                                    "calling", "answered"}]
    /\ due \in [Calls -> Nat] /\ begun \in [Calls -> 0 .. now]
    /\ answer \in [Calls -> {"none", "succeeded", "failed"}]
    /\ delay \in [Calls -> Delays \cup {0}]
    /\ outcome \in [Calls -> {"none", "active", "expired",
                              "succeeded", "failed"}]
    /\ admitted \in [Calls -> 0 .. now]
    /\ released \in [Calls -> 0 .. now]
    /\ notBefore \in Nat /\ failures \in Nat

(* Never more calls run at the provider than the profile allows, although  *)
(* an admission expires by time and its call is not asked: the lease       *)
(* covers a call that begins within its slack.                             *)
RunningWithinLimit ==
    Cardinality({c \in Calls : pc[c] = "calling"}) <= Concurrent

(* The admissions of the minute that ends with second t. *)
MinuteTo(t) ==
    {c \in Calls : outcome[c] # "none" /\ admitted[c] \in t - Minute + 1 .. t}

(* In no minute, wherever it begins, are more requests admitted than the   *)
(* profile allows; releases and expiry give nothing back early.            *)
RequestRateHolds ==
    \A t \in 0 .. MaxTime : Cardinality(MinuteTo(t)) <= Requests

(* A failure that entered the cooldown keeps everyone away for the delay   *)
(* it asked for: neither a worker that looked before it was recorded, nor  *)
(* an older call that succeeds, nor a shorter cooldown gets a call in.     *)
Blamed(f) == pc[f] = "released" /\ outcome[f] = "failed" /\ delay[f] > 0

BackoffHolds ==
    \A f, c \in Calls :
        Blamed(f) /\ outcome[c] # "none" /\ admitted[c] > released[f]
            => admitted[c] > released[f] + delay[f]

(* Until a call admitted after the cooldown has succeeded, one call at a   *)
(* time probes the provider, however many the profile allows.              *)
SingleProbe ==
    failures > 0 =>
        \A c, d \in Calls :
            /\ pc[c] = "calling" /\ admitted[c] >= notBefore
            /\ pc[d] = "calling" /\ admitted[d] >= notBefore
            => c = d

(* A call that is neither refused nor stopped gets its turn: capacity held *)
(* by a crashed worker comes back by itself, and no cooldown is for ever.  *)
EveryCallEnds == \A c \in Calls : <>(pc[c] \in Ended)

=============================================================================
