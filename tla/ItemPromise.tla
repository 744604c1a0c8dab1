---------------------------- MODULE ItemPromise ----------------------------
(***************************************************************************)
(* What the work queue promises of every item: its attempts are numbered,  *)
(* at most one of them holds the item at a time, a number is granted once, *)
(* and at most one attempt ever finishes the item, while it holds it.      *)
(* Nothing is granted after that.                                          *)
(*                                                                         *)
(* Items are independent, and one transaction of the queue may move        *)
(* several of them: recovery takes back every lapsed claim at once, and a  *)
(* claim may take back and grant again in the same commit.                 *)
(***************************************************************************)
EXTENDS Naturals

CONSTANT Items

VARIABLES
    holder,   \* number of the attempt that holds the item, or 0
    last,     \* number of the last attempt granted
    winners   \* the attempts that finished the item

promiseVars == <<holder, last, winners>>

PromiseInit ==
    /\ holder = [i \in Items |-> 0]
    /\ last = [i \in Items |-> 0]
    /\ winners = [i \in Items |-> {}]

(* A new attempt gets the item, taking it from a lapsed holder if need be. *)
Grant(i) ==
    /\ winners[i] = {} /\ winners'[i] = {}
    /\ last'[i] = last[i] + 1
    /\ holder'[i] = last'[i]

(* The holder gives the item up unfinished, or loses it. *)
Drop(i) ==
    /\ holder[i] # 0 /\ holder'[i] = 0
    /\ last'[i] = last[i] /\ winners'[i] = winners[i]

(* The holder finishes the item. *)
Finish(i) ==
    /\ holder[i] # 0 /\ holder'[i] = 0
    /\ winners[i] = {} /\ winners'[i] = {holder[i]}
    /\ last'[i] = last[i]

Rest(i) ==
    /\ holder'[i] = holder[i] /\ last'[i] = last[i] /\ winners'[i] = winners[i]

PromiseNext == \A i \in Items : Grant(i) \/ Drop(i) \/ Finish(i) \/ Rest(i)

PromiseSpec == PromiseInit /\ [][PromiseNext]_promiseVars

=============================================================================
