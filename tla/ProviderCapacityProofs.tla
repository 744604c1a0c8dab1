------------------------ MODULE ProviderCapacityProofs ------------------------
(***************************************************************************)
(* Theorems about ProviderCapacity, for all constants that satisfy         *)
(* CapacityAssumption: its types, the concurrency of the calls that run,   *)
(* the request rate, the cooldown and the single probe.                    *)
(***************************************************************************)
EXTENDS ProviderCapacity, FiniteSetTheorems, WellFoundedInduction, TLAPS

(* Rows, answers and steps of a call go together. *)
Phases ==
    \A c \in Calls :
        /\ pc[c] \in {"idle", "looked", "refused"} =>
              outcome[c] = "none" /\ answer[c] = "none"
        /\ pc[c] \in {"admitted", "calling"} =>
              outcome[c] = "active" /\ answer[c] = "none"
        /\ pc[c] = "answered" => outcome[c] # "none" /\ answer[c] # "none"
        /\ pc[c] = "released" => outcome[c] = answer[c]

(* A call that has not ended is inside its lease. *)
Timely ==
    \A c \in Calls :
        /\ pc[c] = "admitted" => now < admitted[c] + Slack
        /\ pc[c] = "calling" =>
              begun[c] < admitted[c] + Slack /\ now <= begun[c] + Timeout

Limited == Cardinality(Active) <= Concurrent

(* The cooldown of a failure is still there, or time has passed it. *)
Backed ==
    \A f \in Calls :
        Blamed(f) => \/ notBefore > released[f] + delay[f]
                     \/ now > released[f] + delay[f]

(* While failures count, one open admission is younger than the cooldown. *)
OneOpen ==
    failures > 0 =>
        \A c, d \in Calls :
            /\ Open(c) /\ admitted[c] >= notBefore
            /\ Open(d) /\ admitted[d] >= notBefore
            => c = d

IInv ==
    /\ TypeOK
    /\ Phases
    /\ Timely
    /\ Limited
    /\ RequestRateHolds
    /\ Backed
    /\ BackoffHolds
    /\ OneOpen

-----------------------------------------------------------------------------
(* Helpers. *)

(* A set of times has an earliest one: the times before it are the least   *)
(* of finite sets.                                                         *)
LEMMA EarliestTime ==
    ASSUME NEW S, S \subseteq Nat, S # {}
    PROVE  Min(S) \in S
<1> DEFINE Before(t) == 0 .. t - 1
<1> DEFINE T == {Before(t) : t \in S}
<1> DEFINE R == StrictSubsetOrdering(Nat)
<1>1. T \subseteq FiniteSubsetsOf(Nat)
  <2>1. ASSUME NEW t \in S
        PROVE  Before(t) \in SUBSET Nat /\ IsFiniteSet(Before(t))
    BY FS_Interval
  <2>2. QED
    BY <2>1 DEF FiniteSubsetsOf
<1>2. T # {}
  OBVIOUS
<1>3. IsWellFoundedOn(R, FiniteSubsetsOf(Nat))
  BY FS_StrictSubsetOrderingWellFounded
<1>4. \E x \in T : \A y \in T : ~ (<<y, x>> \in R)
  <2> HIDE DEF T, R
  <2>1. QED
    BY <1>1, <1>2, <1>3, WFMin
<1>5. PICK t \in S : \A u \in S : ~ (<<Before(u), Before(t)>> \in R)
  BY <1>4
<1>6. ASSUME NEW u \in S, u < t
      PROVE  FALSE
  <2>1. Before(u) \in SUBSET Nat /\ Before(t) \in SUBSET Nat
    OBVIOUS
  <2>2. Before(u) \subseteq Before(t) /\ u \in Before(t) /\ u \notin Before(u)
    BY <1>6
  <2>3. <<Before(u), Before(t)>> \in R
    BY <2>1, <2>2 DEF StrictSubsetOrdering
  <2>4. QED
    BY <2>3, <1>5
<1>7. \A u \in S : t <= u
  BY <1>6
<1>8. QED
  BY <1>7 DEF Min

(* A refused call is told to wait for a second at least. *)
LEMMA WaitIsPositive ==
    ASSUME TypeOK, NEW c \in Calls
    PROVE  WaitFor(c) \in Nat /\ WaitFor(c) >= 1
<1> DEFINE first == IF Recent = {} THEN now
                    ELSE Min({admitted[d] : d \in Recent})
<1>1. now \in Nat /\ notBefore \in Nat /\ MaxTime \in Nat /\ Minute \in Nat
  BY CapacityAssumption DEF TypeOK, CapacityAssumption
<1>2. first \in Nat
  <2>1. CASE Recent = {}
    BY <2>1, <1>1
  <2>2. CASE Recent # {}
    <3>1. {admitted[d] : d \in Recent} \subseteq Nat
      BY <1>1 DEF TypeOK, Recent
    <3>2. {admitted[d] : d \in Recent} # {}
      BY <2>2
    <3>3. Min({admitted[d] : d \in Recent}) \in Nat
      BY <3>1, <3>2, EarliestTime
    <3>4. QED
      BY <3>3, <2>2
  <2>3. QED
    BY <2>1, <2>2
<1> HIDE DEF first
<1>3. WaitFor(c) = Larger(IF HasRoom(c) THEN 1
                          ELSE Larger(1, first + Minute + 1 - now),
                          notBefore - now)
  BY DEF WaitFor, first
<1>4. QED
  BY <1>1, <1>2, <1>3 DEF Larger

(* A cooldown is longer than the answer asks for. *)
LEMMA BackoffIsLonger ==
    ASSUME NEW n \in Nat, NEW asked \in Nat
    PROVE  Backoff(n, asked) \in Nat /\ Backoff(n, asked) > asked
<1>1. 2 ^ n \in Int
  OBVIOUS
<1> DEFINE grown == IF n = 0 \/ Initial * 2 ^ n <= Maximum
                    THEN Initial * 2 ^ n ELSE Maximum
<1>2. grown \in Int
  <2>1. Initial \in Int /\ Maximum \in Int
    BY CapacityAssumption DEF CapacityAssumption
  <2>2. Initial * 2 ^ n \in Int
    BY <1>1, <2>1
  <2>3. QED
    BY <2>1, <2>2
<1> HIDE DEF grown
<1>3. Backoff(n, asked) = Larger(grown, asked) + 1
  BY DEF Backoff, grown
<1>4. QED
  BY <1>2, <1>3 DEF Larger

(* Sets of calls are finite, and smaller ones have no more members. *)
LEMMA CallSets ==
    ASSUME NEW S \in SUBSET Calls, NEW T \in SUBSET S
    PROVE  /\ IsFiniteSet(S) /\ Cardinality(S) \in Nat
           /\ Cardinality(T) \in Nat /\ Cardinality(T) <= Cardinality(S)
<1>1. IsFiniteSet(S) /\ IsFiniteSet(T)
  BY FS_Subset, CapacityAssumption DEF CapacityAssumption
<1>2. QED
  BY <1>1, FS_Subset, FS_CardinalityType

(* One more call makes a set larger by one at most. *)
LEMMA OneMore ==
    ASSUME NEW S \in SUBSET Calls, NEW T \in SUBSET Calls, NEW c \in Calls,
           T \subseteq S \cup {c}
    PROVE  Cardinality(T) <= Cardinality(S) + 1
<1>1. IsFiniteSet(S) /\ Cardinality(S) \in Nat
  BY CallSets
<1>2. /\ Cardinality(S \cup {c}) <= Cardinality(S) + 1
      /\ Cardinality(S \cup {c}) \in Nat
  <2>1. Cardinality(S \cup {c}) = IF c \in S THEN Cardinality(S)
                                 ELSE Cardinality(S) + 1
    BY <1>1, FS_AddElement
  <2>2. QED
    BY <1>1, <2>1
<1>3. Cardinality(T) <= Cardinality(S \cup {c}) /\ Cardinality(T) \in Nat
  BY CallSets
<1>4. QED
  BY <1>1, <1>2, <1>3

(* A call that has been admitted and has no answer holds its place. *)
LEMMA RunningIsOpen ==
    ASSUME IInv, NEW c \in Calls, pc[c] \in {"admitted", "calling"}
    PROVE  Open(c)
BY CapacityAssumption
   DEF IInv, TypeOK, Phases, Timely, Open, LeaseUntil, CapacityAssumption

-----------------------------------------------------------------------------
(* Types. *)

(* The bounds of the model are numbers. *)
LEMMA Numbers ==
    /\ Timeout \in Nat /\ Slack \in Nat /\ Minute \in Nat /\ MaxTime \in Nat
    /\ Timeout > 0 /\ Slack > 0 /\ Minute > 0
    /\ Delays \subseteq Nat
    /\ Concurrent \in Nat /\ Concurrent > 0
    /\ Requests \in Nat /\ Requests > 0
BY CapacityAssumption DEF CapacityAssumption

(* The times of a call are numbers, and what is recorded is past. *)
LEMMA TimesAreNumbers ==
    ASSUME TypeOK, NEW c \in Calls
    PROVE  /\ now \in Nat /\ notBefore \in Nat /\ failures \in Nat
           /\ delay[c] \in Nat
           /\ admitted[c] \in Nat /\ admitted[c] <= now
           /\ released[c] \in Nat /\ released[c] <= now
<1>1. now \in 0 .. MaxTime /\ notBefore \in Nat /\ failures \in Nat
  BY DEF TypeOK
<1>2. now \in Nat
  BY <1>1, Numbers
<1>3. delay[c] \in Delays \cup {0}
  BY DEF TypeOK
<1>4. delay[c] \in Nat
  <2>1. CASE delay[c] \in Delays
    <3>1. Delays \subseteq Nat
      BY Numbers
    <3>2. QED
      BY <2>1, <3>1, Zenon
  <2>2. CASE delay[c] = 0
    BY <2>2
  <2>3. QED
    BY <1>3, <2>1, <2>2
<1>5. admitted[c] \in 0 .. now /\ released[c] \in 0 .. now
  BY DEF TypeOK
<1>6. QED
  BY <1>1, <1>2, <1>4, <1>5

(* Every step keeps the types. *)
LEMMA TypeStep ==
    ASSUME TypeOK, [Next]_vars
    PROVE  TypeOK'
<1> USE Numbers DEF TypeOK
<1>1. CASE Tick
  BY <1>1 DEF Tick, callVars, rowVars, cooldownVars
<1>2. ASSUME NEW c \in Calls, Look(c)
      PROVE  TypeOK'
  <2>1. CASE notBefore > now
    BY <1>2, <2>1 DEF Look, Park, Goto, rowVars, cooldownVars
  <2>2. CASE ~(notBefore > now)
    BY <1>2, <2>2 DEF Look, Goto, rowVars, cooldownVars
  <2>3. QED
    BY <2>1, <2>2
<1>3. ASSUME NEW c \in Calls, Admit(c)
      PROVE  TypeOK'
  BY <1>3 DEF Admit, Goto, AfterExpiry, ReleasedAfterExpiry, callVars,
              cooldownVars
<1>4. ASSUME NEW c \in Calls, Defer(c)
      PROVE  TypeOK'
  <2>1. now + WaitFor(c) \in Nat
    BY WaitIsPositive
  <2>2. QED
    BY <1>4, <2>1 DEF Defer, Park, Goto, AfterExpiry, ReleasedAfterExpiry,
                      cooldownVars
<1>5. ASSUME NEW c \in Calls, Refuse(c)
      PROVE  TypeOK'
  BY <1>5 DEF Refuse, Goto, Ended, callVars, rowVars, cooldownVars
<1>6. ASSUME NEW c \in Calls, Begin(c)
      PROVE  TypeOK'
  BY <1>6 DEF Begin, Goto, rowVars, cooldownVars
<1>7. ASSUME NEW c \in Calls, Answer(c)
      PROVE  TypeOK'
  BY <1>7 DEF Answer, Goto, rowVars, cooldownVars
<1>8. ASSUME NEW c \in Calls, Release(c)
      PROVE  TypeOK'
  <2>1. notBefore' \in Nat /\ failures' \in Nat
    <3>1. Backoff(failures, delay[c]) \in Nat
      BY BackoffIsLonger
    <3>2. QED
      BY <1>8, <3>1 DEF Release, UpdateCooldown, Larger, cooldownVars
  <2>2. answer[c] \in {"succeeded", "failed"}
    BY <1>8 DEF Release, UpdateCooldown
  <2>3. QED
    BY <1>8, <2>1, <2>2 DEF Release, Goto, Ended, callVars
<1>9. ASSUME NEW c \in Calls, ReleaseAgain(c)
      PROVE  TypeOK'
  BY <1>9 DEF ReleaseAgain, Goto, Ended, callVars, rowVars, cooldownVars
<1>10. ASSUME NEW c \in Calls, RecoverRelease(c)
       PROVE  TypeOK'
  BY <1>10 DEF RecoverRelease, callVars, cooldownVars
<1>11. ASSUME NEW c \in Calls, Crash(c)
       PROVE  TypeOK'
  BY <1>11 DEF Crash, Goto, Ended, rowVars, cooldownVars
<1>12. CASE UNCHANGED vars
  BY <1>12 DEF vars, callVars, rowVars, cooldownVars
<1>13. QED
  BY <1>1, <1>2, <1>3, <1>4, <1>5, <1>6, <1>7, <1>8, <1>9, <1>10, <1>11,
     <1>12 DEF Next, Step

(* Every step keeps rows, answers and steps together. *)
LEMMA PhasesStep ==
    ASSUME TypeOK, Phases, Timely, [Next]_vars
    PROVE  Phases'
<1> USE Numbers DEF TypeOK, Phases
<1>1. CASE Tick
  BY <1>1 DEF Tick, callVars, rowVars
<1>2. ASSUME NEW c \in Calls, Look(c)
      PROVE  Phases'
  BY <1>2 DEF Look, Park, Goto, rowVars
<1>3. ASSUME NEW c \in Calls
      PROVE  pc[c] \in {"admitted", "calling"} => AfterExpiry[c] = "active"
  BY DEF Timely, AfterExpiry, Expired, LeaseUntil
<1>4. ASSUME NEW c \in Calls
      PROVE  /\ AfterExpiry[c] = "none" <=> outcome[c] = "none"
             /\ pc[c] = "released" => AfterExpiry[c] = answer[c]
  BY DEF AfterExpiry, Expired
<1>5. ASSUME NEW c \in Calls, Admit(c)
      PROVE  Phases'
  <2>1. outcome' = [AfterExpiry EXCEPT ![c] = "active"]
    BY <1>5 DEF Admit
  <2>2. \A d \in Calls : outcome'[d] = IF d = c THEN "active" ELSE AfterExpiry[d]
    BY <2>1 DEF AfterExpiry
  <2>3. pc' = [pc EXCEPT ![c] = "admitted"] /\ answer' = answer /\ pc[c] = "looked"
    BY <1>5 DEF Admit, Goto, callVars
  <2>4. QED
    BY <1>3, <1>4, <2>2, <2>3
<1>6. ASSUME NEW c \in Calls, Defer(c)
      PROVE  Phases'
  BY <1>3, <1>4, <1>6 DEF Defer, Park, Goto
<1>7. ASSUME NEW c \in Calls, Refuse(c) \/ Begin(c) \/ ReleaseAgain(c) \/ Crash(c)
      PROVE  Phases'
  BY <1>7 DEF Refuse, Begin, ReleaseAgain, Crash, Goto, callVars, rowVars
<1>8. ASSUME NEW c \in Calls, Answer(c)
      PROVE  Phases'
  BY <1>8 DEF Answer, Goto, rowVars
<1>9. ASSUME NEW c \in Calls, Release(c)
      PROVE  Phases'
  BY <1>9 DEF Release, Goto, callVars
<1>10. ASSUME NEW c \in Calls, RecoverRelease(c)
       PROVE  Phases'
  BY <1>10 DEF RecoverRelease, callVars
<1>11. CASE UNCHANGED vars
  BY <1>11 DEF vars, callVars, rowVars
<1>12. QED
  BY <1>1, <1>2, <1>5, <1>6, <1>7, <1>8, <1>9, <1>10, <1>11 DEF Next, Step

(* Every step keeps calls inside their leases: time waits for them. *)
LEMMA TimelyStep ==
    ASSUME TypeOK, Timely, [Next]_vars
    PROVE  Timely'
<1> USE Numbers DEF TypeOK, Timely
<1>1. CASE Tick
  BY <1>1 DEF Tick, InTime, callVars, rowVars
<1>2. ASSUME NEW c \in Calls, Look(c) \/ Defer(c) \/ Refuse(c)
      PROVE  Timely'
  BY <1>2 DEF Look, Defer, Refuse, Park, Goto, callVars, rowVars
<1>3. ASSUME NEW c \in Calls, Admit(c)
      PROVE  Timely'
  BY <1>3 DEF Admit, Goto, callVars
<1>4. ASSUME NEW c \in Calls, Begin(c)
      PROVE  Timely'
  BY <1>4 DEF Begin, Goto, rowVars
<1>5. ASSUME NEW c \in Calls, Answer(c)
      PROVE  Timely'
  BY <1>5 DEF Answer, Goto, rowVars
<1>6. ASSUME NEW c \in Calls, Release(c) \/ ReleaseAgain(c) \/ RecoverRelease(c)
      PROVE  Timely'
  BY <1>6 DEF Release, ReleaseAgain, RecoverRelease, Goto, callVars, rowVars
<1>7. ASSUME NEW c \in Calls, Crash(c)
      PROVE  Timely'
  BY <1>7 DEF Crash, Goto, rowVars
<1>8. CASE UNCHANGED vars
  BY <1>8 DEF vars, callVars, rowVars
<1>9. QED
  BY <1>1, <1>2, <1>3, <1>4, <1>5, <1>6, <1>7, <1>8 DEF Next, Step

-----------------------------------------------------------------------------
(* What is admitted. *)

(* Only an admission makes a row or opens a place. *)
RowsStay ==
    /\ admitted' = admitted
    /\ now' >= now
    /\ \A d \in Calls :
        /\ outcome'[d] = "none" <=> outcome[d] = "none"
        /\ Open(d)' => Open(d)

LEMMA StepOnRows ==
    ASSUME TypeOK, Phases, [Next]_vars, \A c \in Calls : ~Admit(c)
    PROVE  RowsStay
<1> USE Numbers DEF TypeOK, Open, LeaseUntil, RowsStay
<1>1. CASE Tick
  BY <1>1 DEF Tick, rowVars
<1>2. ASSUME NEW c \in Calls,
             Look(c) \/ Refuse(c) \/ Begin(c) \/ Answer(c) \/ ReleaseAgain(c)
             \/ Crash(c)
      PROVE  RowsStay
  BY <1>2 DEF Look, Refuse, Begin, Answer, ReleaseAgain, Crash, rowVars
<1>3. ASSUME NEW c \in Calls, Defer(c)
      PROVE  RowsStay
  BY <1>3 DEF Defer, AfterExpiry, Expired
<1>4. ASSUME NEW c \in Calls, Release(c) \/ RecoverRelease(c)
      PROVE  RowsStay
  <2>1. answer[c] \in {"succeeded", "failed"}
    BY <1>4 DEF Release, UpdateCooldown, RecoverRelease
  <2>2. QED
    BY <1>4, <2>1 DEF Release, RecoverRelease
<1>5. CASE UNCHANGED vars
  BY <1>5 DEF vars, rowVars
<1>6. QED
  BY <1>1, <1>2, <1>3, <1>4, <1>5 DEF Next, Step

(* What an admission does to the rows. *)
LEMMA AdmitRows ==
    ASSUME TypeOK, NEW c \in Calls, Admit(c)
    PROVE  /\ now' = now /\ notBefore' = notBefore /\ failures' = failures
           /\ \A d \in Calls :
                /\ admitted'[d] = IF d = c THEN now ELSE admitted[d]
                /\ d # c => (outcome'[d] = "none" <=> outcome[d] = "none")
                /\ d # c /\ Open(d)' => Open(d)
<1>1. /\ outcome' = [AfterExpiry EXCEPT ![c] = "active"]
      /\ admitted' = [admitted EXCEPT ![c] = now]
      /\ now' = now /\ notBefore' = notBefore /\ failures' = failures
  BY DEF Admit, cooldownVars
<1>2. \A d \in Calls :
        /\ outcome'[d] = IF d = c THEN "active" ELSE AfterExpiry[d]
        /\ admitted'[d] = IF d = c THEN now ELSE admitted[d]
  BY <1>1 DEF AfterExpiry, TypeOK
<1>3. QED
  BY <1>1, <1>2 DEF AfterExpiry, Expired, Open, LeaseUntil

(* Every step keeps the concurrency. *)
LEMMA LimitedStep ==
    ASSUME TypeOK, Phases, Limited, [Next]_vars
    PROVE  Limited'
<1>1. Active \in SUBSET Calls /\ Active' \in SUBSET Calls
  BY DEF Active
<1>2. CASE \A c \in Calls : ~Admit(c)
  <2>1. Active' \subseteq Active
    BY <1>2, StepOnRows DEF RowsStay, Active
  <2>2. QED
    BY <1>1, <2>1, CallSets, Numbers DEF Limited
<1>3. ASSUME NEW c \in Calls, Admit(c)
      PROVE  Limited'
  <2>1. Active' \subseteq Active \cup {c}
    BY <1>3, AdmitRows DEF Active
  <2>2. Cardinality(Active') <= Cardinality(Active) + 1
    BY <1>1, <2>1, OneMore
  <2>3. Cardinality(Active) < Concurrent
    BY <1>3 DEF Admit, MayAdmit
  <2>4. QED
    BY <1>1, <2>2, <2>3, CallSets, Numbers DEF Limited
<1>4. QED
  BY <1>2, <1>3

(* Every step keeps the request rate: what an admission adds to a minute   *)
(* still to come is in the minute it has counted.                          *)
LEMMA RateStep ==
    ASSUME TypeOK, Phases, RequestRateHolds, [Next]_vars
    PROVE  RequestRateHolds'
<1> USE DEF TypeOK
<1>1. CASE \A c \in Calls : ~Admit(c)
  <2>1. \A t \in 0 .. MaxTime : MinuteTo(t)' = MinuteTo(t)
    BY <1>1, StepOnRows DEF RowsStay, MinuteTo
  <2>2. QED
    BY <2>1 DEF RequestRateHolds
<1>2. ASSUME NEW c \in Calls, Admit(c)
      PROVE  RequestRateHolds'
  <2>1. ASSUME NEW t \in 0 .. MaxTime, t < now
        PROVE  Cardinality(MinuteTo(t)') <= Requests
    <3>1. MinuteTo(t)' \subseteq MinuteTo(t)
      BY <1>2, <2>1, AdmitRows, Numbers DEF MinuteTo
    <3>2. MinuteTo(t) \in SUBSET Calls
      BY DEF MinuteTo
    <3>3. Cardinality(MinuteTo(t)) <= Requests
      BY DEF RequestRateHolds
    <3>4. QED
      BY <3>1, <3>2, <3>3, CallSets, Numbers
  <2>2. ASSUME NEW t \in 0 .. MaxTime, t >= now
        PROVE  Cardinality(MinuteTo(t)') <= Requests
    <3>1. MinuteTo(t)' \subseteq Recent \cup {c}
      BY <1>2, <2>2, AdmitRows, Numbers DEF MinuteTo, Recent
    <3>2. Recent \in SUBSET Calls /\ MinuteTo(t)' \in SUBSET Calls
      BY DEF MinuteTo, Recent
    <3>3. Cardinality(MinuteTo(t)') <= Cardinality(Recent) + 1
      BY <3>1, <3>2, OneMore
    <3>4. Cardinality(Recent) < Requests
      BY <1>2 DEF Admit, MayAdmit, HasRoom
    <3>5. QED
      BY <3>2, <3>3, <3>4, CallSets, Numbers
  <2>3. \A t \in 0 .. MaxTime : t < now \/ t >= now
    BY Numbers
  <2>4. QED
    BY <2>1, <2>2, <2>3 DEF RequestRateHolds
<1>3. QED
  BY <1>1, <1>2

-----------------------------------------------------------------------------
(* The cooldown. *)

(* Only a release blames a failure or moves the cooldown. *)
LEMMA StepOnCooldown ==
    ASSUME TypeOK, Phases, [Next]_vars, \A c \in Calls : ~Release(c)
    PROVE  /\ notBefore' = notBefore /\ failures' = failures /\ now' >= now
           /\ \A f \in Calls :
                Blamed(f)' => /\ Blamed(f)
                              /\ released'[f] = released[f]
                              /\ delay'[f] = delay[f]
<1> DEFINE Stays ==
        /\ notBefore' = notBefore /\ failures' = failures /\ now' >= now
        /\ \A f \in Calls :
             Blamed(f)' => /\ Blamed(f)
                           /\ released'[f] = released[f]
                           /\ delay'[f] = delay[f]
<1> USE DEF TypeOK
<1>0. now \in Nat
  BY Numbers
<1>1. CASE Tick
  BY <1>0, <1>1 DEF Tick, Blamed, callVars, rowVars, cooldownVars
<1>2. ASSUME NEW c \in Calls, Admit(c) \/ Defer(c)
      PROVE  Stays
  <2>1. /\ now' = now /\ notBefore' = notBefore /\ failures' = failures
        /\ delay' = delay
        /\ \A f \in Calls : pc'[f] = "released" => pc[f] = "released" /\ f # c
    BY <1>2 DEF Admit, Defer, Park, Goto, callVars, cooldownVars
  <2>2. \A f \in Calls : f # c => outcome'[f] = AfterExpiry[f]
    BY <1>2 DEF Admit, Defer, AfterExpiry
  <2>3. /\ \A f \in Calls : released'[f] = ReleasedAfterExpiry[f]
        /\ \A f \in Calls : AfterExpiry[f] = "failed" =>
              outcome[f] = "failed" /\ ReleasedAfterExpiry[f] = released[f]
    BY <1>2 DEF Admit, Defer, AfterExpiry, ReleasedAfterExpiry, Expired
  <2>4. QED
    BY <1>0, <2>1, <2>2, <2>3 DEF Blamed
<1>3. ASSUME NEW c \in Calls, Look(c) \/ Refuse(c) \/ Begin(c) \/ ReleaseAgain(c)
      PROVE  Stays
  <2>1. /\ now' = now /\ delay' = delay /\ notBefore' = notBefore
        /\ failures' = failures /\ outcome' = outcome /\ released' = released
    BY <1>3 DEF Look, Refuse, Begin, ReleaseAgain, Park, Goto,
                callVars, rowVars, cooldownVars
  <2>2. \A f \in Calls : pc'[f] = "released" => pc[f] = "released"
    BY <1>3 DEF Look, Refuse, Begin, ReleaseAgain, Park, Goto
  <2>3. QED
    BY <1>0, <2>1, <2>2 DEF Blamed
<1>4. ASSUME NEW c \in Calls, Answer(c)
      PROVE  Stays
  <2>1. \A f \in Calls : pc'[f] = "released" =>
            pc[f] = "released" /\ delay'[f] = delay[f]
    BY <1>4 DEF Answer, Goto
  <2>2. /\ now' = now /\ outcome' = outcome /\ released' = released
        /\ notBefore' = notBefore /\ failures' = failures
    BY <1>4 DEF Answer, rowVars, cooldownVars
  <2>3. QED
    BY <1>0, <2>1, <2>2 DEF Blamed
<1>5. ASSUME NEW c \in Calls, Crash(c)
      PROVE  Stays
  BY <1>0, <1>5 DEF Crash, Goto, Blamed, rowVars, cooldownVars
<1>6. ASSUME NEW c \in Calls, RecoverRelease(c)
      PROVE  Stays
  <2>1. pc[c] # "released"
    BY <1>6 DEF RecoverRelease, Phases
  <2>2. QED
    BY <1>0, <1>6, <2>1 DEF RecoverRelease, Blamed, callVars, cooldownVars
<1>7. CASE UNCHANGED vars
  BY <1>0, <1>7 DEF vars, Blamed, callVars, rowVars, cooldownVars
<1>8. QED
  BY <1>1, <1>2, <1>3, <1>4, <1>5, <1>6, <1>7 DEF Next, Step

(* What a release does: to its own row, and to the cooldown. *)
LEMMA ReleaseRows ==
    ASSUME TypeOK, NEW c \in Calls, Release(c)
    PROVE  /\ now' = now /\ delay' = delay /\ admitted' = admitted
           /\ outcome' = [outcome EXCEPT ![c] = answer[c]]
           /\ released' = [released EXCEPT ![c] = now]
           /\ pc' = [pc EXCEPT ![c] = "released"]
           /\ notBefore' \in Nat
           /\ \/ /\ answer[c] = "failed" /\ delay[c] > 0
                 /\ notBefore' > now + delay[c] /\ notBefore' >= notBefore
              \/ /\ ~(answer[c] = "failed" /\ delay[c] > 0)
                 /\ \/ admitted[c] >= notBefore /\ failures' = 0
                    \/ notBefore' = notBefore /\ failures' = failures
<1>1. /\ now' = now /\ delay' = delay /\ admitted' = admitted
      /\ outcome' = [outcome EXCEPT ![c] = answer[c]]
      /\ released' = [released EXCEPT ![c] = now]
      /\ pc' = [pc EXCEPT ![c] = "released"]
      /\ UpdateCooldown(c)
  BY DEF Release, Goto, callVars
<1>2. /\ now \in Nat /\ notBefore \in Nat /\ failures \in Nat
      /\ delay[c] \in Nat
  BY TimesAreNumbers
<1>3. CASE answer[c] = "failed" /\ delay[c] > 0
  <2>1. /\ Backoff(failures, delay[c]) \in Nat
        /\ Backoff(failures, delay[c]) > delay[c]
    BY <1>2, BackoffIsLonger
  <2>2. notBefore' = Larger(notBefore, now + Backoff(failures, delay[c]))
    BY <1>1, <1>3 DEF UpdateCooldown
  <2>3. QED
    BY <1>1, <1>2, <1>3, <2>1, <2>2 DEF Larger
<1>4. CASE ~(answer[c] = "failed" /\ delay[c] > 0)
  <2>1. \/ admitted[c] >= notBefore /\ failures' = 0 /\ notBefore' = 0
        \/ notBefore' = notBefore /\ failures' = failures
    BY <1>1, <1>4 DEF UpdateCooldown, cooldownVars
  <2>2. QED
    BY <1>1, <1>2, <1>4, <2>1
<1>5. QED
  BY <1>3, <1>4

(* Every step keeps the delays of failures in force. *)
LEMMA BackedStep ==
    ASSUME TypeOK, Phases, Backed, [Next]_vars
    PROVE  Backed'
<1>1. SUFFICES ASSUME NEW f \in Calls, Blamed(f)'
               PROVE  \/ notBefore' > released'[f] + delay'[f]
                      \/ now' > released'[f] + delay'[f]
  BY DEF Backed
<1>2. /\ now \in Nat /\ notBefore \in Nat /\ delay[f] \in Nat
      /\ released[f] \in Nat
  BY TimesAreNumbers
<1>3. Blamed(f) => \/ notBefore > released[f] + delay[f]
                   \/ now > released[f] + delay[f]
  BY DEF Backed
<1>4. CASE \A c \in Calls : ~Release(c)
  <2>1. /\ Blamed(f) /\ notBefore' = notBefore /\ now' >= now
        /\ released'[f] = released[f] /\ delay'[f] = delay[f]
    BY <1>1, <1>4, StepOnCooldown
  <2>2. now' \in Nat
    BY TypeStep, Numbers DEF TypeOK
  <2>3. QED
    BY <1>2, <1>3, <2>1, <2>2
<1>5. ASSUME NEW c \in Calls, Release(c), f = c
      PROVE  notBefore' > released'[f] + delay'[f]
  BY <1>1, <1>5, ReleaseRows DEF Blamed, TypeOK
<1>6. ASSUME NEW c \in Calls, Release(c), f # c
      PROVE  \/ notBefore' > released'[f] + delay'[f]
             \/ now' > released'[f] + delay'[f]
  <2>1. /\ Blamed(f) /\ released'[f] = released[f] /\ delay'[f] = delay[f]
        /\ now' = now
    BY <1>1, <1>6, ReleaseRows DEF Blamed, TypeOK
  <2>2. admitted[c] \in Nat /\ admitted[c] <= now /\ delay[c] \in Nat
    BY TimesAreNumbers
  <2>3. notBefore' \in Nat /\ (notBefore' >= notBefore \/ admitted[c] >= notBefore)
    BY <1>2, <1>6, ReleaseRows
  <2>4. QED
    BY <1>2, <1>3, <2>1, <2>2, <2>3
<1>7. QED
  BY <1>4, <1>5, <1>6

(* Every step keeps calls away from the delay of a failure: who is         *)
(* admitted has seen the cooldown pass.                                    *)
LEMMA BackoffStep ==
    ASSUME TypeOK, Phases, Backed, BackoffHolds, [Next]_vars
    PROVE  BackoffHolds'
<1>1. SUFFICES ASSUME NEW f \in Calls, NEW d \in Calls, Blamed(f)',
                      outcome'[d] # "none", admitted'[d] > released'[f]
               PROVE  admitted'[d] > released'[f] + delay'[f]
  BY DEF BackoffHolds
<1>2. /\ now \in Nat /\ notBefore \in Nat /\ delay[f] \in Nat
      /\ released[f] \in Nat /\ admitted[d] \in Nat /\ admitted[d] <= now
  BY TimesAreNumbers
<1>3. Blamed(f) => /\ \/ notBefore > released[f] + delay[f]
                      \/ now > released[f] + delay[f]
                   /\ outcome[d] # "none" /\ admitted[d] > released[f]
                        => admitted[d] > released[f] + delay[f]
  BY DEF Backed, BackoffHolds
<1>4. ASSUME NEW c \in Calls, Release(c)
      PROVE  admitted'[d] > released'[f] + delay'[f]
  <2>1. answer[c] # "none" /\ outcome[c] # "none"
    BY <1>4 DEF Release, UpdateCooldown
  <2>2. f # c
    BY <1>1, <1>2, <1>4, ReleaseRows DEF TypeOK
  <2>3. /\ Blamed(f) /\ released'[f] = released[f] /\ delay'[f] = delay[f]
        /\ admitted'[d] = admitted[d] /\ outcome[d] # "none"
    BY <1>1, <1>4, <2>1, <2>2, ReleaseRows DEF Blamed, TypeOK
  <2>4. QED
    BY <1>1, <1>3, <2>3
<1>5. CASE \A c \in Calls : ~Release(c)
  <2>1. /\ Blamed(f) /\ released'[f] = released[f] /\ delay'[f] = delay[f]
    BY <1>1, <1>5, StepOnCooldown
  <2>2. CASE \A c \in Calls : ~Admit(c)
    <3>1. admitted'[d] = admitted[d] /\ outcome[d] # "none"
      BY <1>1, <2>2, StepOnRows DEF RowsStay
    <3>2. QED
      BY <1>1, <1>3, <2>1, <3>1
  <2>3. ASSUME NEW c \in Calls, Admit(c), d # c
        PROVE  admitted'[d] > released'[f] + delay'[f]
    <3>1. admitted'[d] = admitted[d] /\ outcome[d] # "none"
      BY <1>1, <2>3, AdmitRows
    <3>2. QED
      BY <1>1, <1>3, <2>1, <3>1
  <2>4. ASSUME NEW c \in Calls, Admit(c), d = c
        PROVE  admitted'[d] > released'[f] + delay'[f]
    <3>1. admitted'[d] = now /\ notBefore <= now
      BY <2>4, AdmitRows DEF Admit, MayAdmit
    <3>2. QED
      BY <1>2, <1>3, <2>1, <3>1
  <2>5. QED
    BY <2>2, <2>3, <2>4
<1>6. QED
  BY <1>4, <1>5

(* Every step keeps the probe single: a call is admitted next to counted   *)
(* failures only when nothing is open, and no open call is younger than a  *)
(* cooldown that has just been recorded.                                   *)
LEMMA OneOpenStep ==
    ASSUME TypeOK, Phases, OneOpen, [Next]_vars
    PROVE  OneOpen'
<1>1. SUFFICES ASSUME failures' > 0, NEW d \in Calls, NEW e \in Calls,
                      Open(d)', admitted'[d] >= notBefore',
                      Open(e)', admitted'[e] >= notBefore'
               PROVE  d = e
  BY DEF OneOpen
<1>2. /\ now \in Nat /\ failures \in Nat /\ notBefore \in Nat
      /\ admitted[d] \in Nat /\ admitted[d] <= now
      /\ admitted[e] \in Nat /\ admitted[e] <= now
  BY TimesAreNumbers
<1>3. CASE \A c \in Calls : ~Admit(c)
  <2>1. /\ admitted' = admitted /\ Open(d) /\ Open(e)
    BY <1>1, <1>3, StepOnRows DEF RowsStay
  <2>2. CASE \A c \in Calls : ~Release(c)
    <3>1. notBefore' = notBefore /\ failures' = failures
      BY <2>2, StepOnCooldown
    <3>2. QED
      BY <1>1, <2>1, <3>1 DEF OneOpen
  <2>3. ASSUME NEW c \in Calls, Release(c)
        PROVE  d = e
    <3>1. CASE notBefore' > now + delay[c]
      <4>1. delay[c] \in Nat /\ notBefore' \in Nat
        BY <2>3, ReleaseRows, TimesAreNumbers
      <4>2. QED
        BY <1>1, <1>2, <2>1, <3>1, <4>1
    <3>2. CASE notBefore' = notBefore /\ failures' = failures
      BY <1>1, <2>1, <3>2 DEF OneOpen
    <3>3. QED
      BY <1>1, <2>3, <3>1, <3>2, ReleaseRows
  <2>4. QED
    BY <2>2, <2>3
<1>4. ASSUME NEW c \in Calls, Admit(c)
      PROVE  d = e
  <2>1. failures' = failures /\ (d # c => Open(d)) /\ (e # c => Open(e))
    BY <1>1, <1>4, AdmitRows
  <2>2. Active = {}
    BY <1>1, <1>4, <2>1 DEF Admit, MayAdmit
  <2>3. QED
    BY <2>1, <2>2 DEF Active
<1>5. QED
  BY <1>3, <1>4

-----------------------------------------------------------------------------
(* The theorems. *)

LEMMA InitInv ==
    ASSUME Init
    PROVE  IInv
<1>1. Active = {} /\ \A t \in 0 .. MaxTime : MinuteTo(t) = {}
  BY DEF Init, Active, Open, MinuteTo
<1>2. TypeOK
  BY Numbers DEF Init, TypeOK
<1>3. Phases /\ Timely /\ Backed /\ BackoffHolds /\ OneOpen
  BY DEF Init, Phases, Timely, Backed, BackoffHolds, OneOpen, Blamed
<1>4. Limited /\ RequestRateHolds
  BY <1>1, FS_EmptySet, Numbers DEF Limited, RequestRateHolds
<1>5. QED
  BY <1>2, <1>3, <1>4 DEF IInv

LEMMA StepInv ==
    ASSUME IInv, [Next]_vars
    PROVE  IInv'
BY TypeStep, PhasesStep, TimelyStep, LimitedStep, RateStep, BackedStep,
   BackoffStep, OneOpenStep DEF IInv

THEOREM Invariance == Spec => []IInv
BY InitInv, StepInv, PTL DEF Spec

(* The variables of an admission and of its call have their types.         *)
THEOREM Typing == Spec => []TypeOK
<1>1. IInv => TypeOK
  BY DEF IInv
<1>2. QED
  BY <1>1, Invariance, PTL

(* Calls that run at the provider are within the concurrency of the        *)
(* profile, whatever expires meanwhile: each of them is inside its lease.  *)
THEOREM Concurrency == Spec => []RunningWithinLimit
<1>1. ASSUME IInv
      PROVE  RunningWithinLimit
  <2> DEFINE Running == {c \in Calls : pc[c] = "calling"}
  <2>1. Running \subseteq Active
    BY <1>1, RunningIsOpen DEF Active
  <2>2. Active \in SUBSET Calls
    BY DEF Active
  <2>3. /\ Cardinality(Running) <= Cardinality(Active)
        /\ Cardinality(Running) \in Nat /\ Cardinality(Active) \in Nat
    BY <2>1, <2>2, CallSets
  <2>4. Cardinality(Running) <= Concurrent
    BY <1>1, <2>3, Numbers DEF IInv, Limited
  <2>5. QED
    BY <2>4 DEF RunningWithinLimit
<1>2. QED
  BY <1>1, Invariance, PTL

(* In every minute, not only in those an admission looks back on, the      *)
(* requests of the profile are the most that are admitted.                 *)
THEOREM RequestRate == Spec => []RequestRateHolds
<1>1. IInv => RequestRateHolds
  BY DEF IInv
<1>2. QED
  BY <1>1, Invariance, PTL

(* A failure that entered the cooldown keeps everyone away for the delay   *)
(* it asked for, whatever other answers say.                               *)
THEOREM Cooldown == Spec => []BackoffHolds
<1>1. IInv => BackoffHolds
  BY DEF IInv
<1>2. QED
  BY <1>1, Invariance, PTL

(* While failures are counted, one call younger than the cooldown runs.    *)
THEOREM Probe == Spec => []SingleProbe
<1>1. IInv => SingleProbe
  BY RunningIsOpen DEF IInv, OneOpen, SingleProbe
<1>2. QED
  BY <1>1, Invariance, PTL

=============================================================================
