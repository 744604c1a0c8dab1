--------------------------- MODULE McpSessionProofs ---------------------------
(***************************************************************************)
(* Proofs about McpSession, for every set of sources, every page size and  *)
(* length of citation, any number of faults and of transactions of other   *)
(* processes.                                                              *)
(***************************************************************************)
EXTENDS McpSession, FiniteSetTheorems, WellFoundedInduction, TLAPS

(* From smaller to larger, none twice.                                     *)
Ascending(s) == \A i, j \in DOMAIN s : i < j => s[i] < s[j]

(* The kinds of steps in a script. *)
Words == {"", "initialize", "tools", "denied", "status", "sources", "overview", "inspect",
          "repeat", "cite", "citation", "path", "answer", "counts", "hashes", "meta", "version",
          "before", "readonly", "after"}

Steps == [do : {"call", "notify", "recall", "compare", "read"}, on : Words, into : Words]

(* Where run_mcp compares the library with what it was at the start.       *)
Verdict == Len(Session) - 6

-----------------------------------------------------------------------------
(* The invariant.                                                          *)

Views == [gen : Nat, rows : SUBSET Sources, closed : SUBSET Sources, runs : Nat, gaps : Nat,
          other : Nat, commits : Nat]

(* The request that waits for an answer, and a notification.               *)
Asked == [id |-> sequence, tool |-> Now.on, cursor |-> page.cursor]
Note  == [id |-> 0, tool |-> "", cursor |-> 0]

Calling == step \in DOMAIN Session /\ Now.do = "call" /\ sequence > 0

(* A state of the library from now on: another one has more commits.       *)
Since(view, from) ==
    /\ view \in Views /\ Known \subseteq view.rows
    /\ view.commits >= from.commits
    /\ view.commits = from.commits => view = from

(* An answer to r, read from a state between two others; c: to run_mcp.    *)
Fits(a, c, r, from, now) ==
    /\ a.id = r.id /\ a.tool = r.tool /\ a.failed \in BOOLEAN
    /\ Since(a.view, from)
    /\ a.view.commits <= now.commits /\ a.view.closed \subseteq now.closed
    /\ a.failed => a.items = <<>> /\ a.next = 0
    /\ c /\ ~a.failed /\ r.tool = "sources" =>
         a.items = Page(Open(a.view), r.cursor).items /\ a.next = Page(Open(a.view), r.cursor).next
    /\ c /\ ~a.failed /\ r.tool = "citation" =>
         a.items = Page(1..Span, r.cursor).items /\ a.next = Page(1..Span, r.cursor).next

(* One request is outstanding, behind at most one notification.            *)
Requests ==
    /\ inp = <<>> \/ inp = <<Note>> \/ (Calling /\ (inp = <<Asked>> \/ inp = <<Note, Asked>>))
    /\ at \in {"sent", "reading"} => Calling
    /\ inp # <<>> /\ inp[1] = Note =>
         \E k \in DOMAIN Session : k < step /\ Session[k].do = "notify"

(* What is answered is that request, and nothing is behind it.             *)
Replies ==
    /\ DOMAIN server = {"state", "reply", "code", "eof", "told"}
    /\ server.state \in {"answering", "writing", "stalled"} \/ out # <<>> => inp = <<>> /\ Calling
    /\ server.state \in {"answering", "writing", "stalled"} => out = <<>>
    /\ server.state \in {"answering", "writing"} =>
         Fits(server.reply, Checking, Asked, begun, lib)
    /\ out # <<>> => out = <<out[1]>> /\ Fits(out[1], Checking, Asked, begun, lib)

(* Between two steps of its script a client waits for nothing.             *)
Quiet ==
    at \in {"start", "step"} =>
        (inp = <<>> \/ inp = <<Note>>) /\ out = <<>> /\ server.state \in {"idle", "hung", "gone"}

(* The library moves on; what differs from the start is a later state.     *)
Library ==
    /\ lib \in Views /\ begun \in Views /\ Since(lib, begun)
    /\ DOMAIN shots = {"before", "readonly", "after"}
    /\ mixed =>
         /\ lib.commits > begun.commits
         /\ "version" \in DOMAIN shots["readonly"] => shots["readonly"].version > begun.commits
         /\ \A k \in DOMAIN Session :
              Session[k].do = "read" /\ Session[k].into = "before" => k < step

(* What the snapshots hold so far.                                         *)
Snapshots ==
    /\ \A k \in DOMAIN Session : Session[k] = Read("version", "before") /\ k < step =>
         "version" \in DOMAIN shots["before"] /\ shots["before"].version = begun.commits
    /\ Checking =>
         /\ "version" \in DOMAIN shots["readonly"] <=> step >= Verdict
         /\ step > Verdict /\ "readonly" \notin failures => shots["before"] = shots["readonly"]

(* A page continues the ones before it.                                    *)
Paging ==
    /\ page \in [got : Seq(Nat), seen : SUBSET Nat, cursor : Nat]
    /\ page # Empty => Checking /\ Calling /\ Now.on \in {"sources", "citation"}
    /\ page # Empty \/ at \in {"sent", "reading"} =>
         (Now.on \in {"cite", "citation"} /\ script # "followups" => Evidence)
    /\ Ascending(page.got) /\ \A i \in DOMAIN page.got : page.got[i] <= page.cursor
    /\ page # Empty /\ Now.on = "sources" => page.got \in Seq(Sources)
    /\ step = 10 /\ Checking /\ "outcome" \notin failures =>
         /\ \A s \in Known \ lib.closed : s <= page.cursor => s \in Range(page.got)
         /\ ~mixed => Range(page.got) = {s \in Open(begun) : s <= page.cursor}

(* The listing that the pages made.                                        *)
Listing ==
    /\ listed \in Seq(Nat) /\ Ascending(listed)
    /\ ~Checking \/ step <= 10 => listed = <<>>
    /\ Checking /\ step > 10 /\ "outcome" \notin failures =>
         /\ Known \ lib.closed \subseteq Range(listed)
         /\ ~mixed => Range(listed) = Open(begun)

(* How a client comes to its end.                                          *)
Ending ==
    /\ at \in {"closing", "waiting", "killing", "done"} /\ raised = "no" => step = Len(Session) + 1
    /\ at = "left" => status = 1
    /\ status = 0 /\ (Checking \/ Probing) =>
         step = Len(Session) + 1 /\ Gone /\ server.code = 0 /\ failures = {} /\ ~mixed

IInv ==
    /\ TypeOK /\ Requests /\ Replies /\ Quiet /\ Library /\ Snapshots /\ Paging /\ Listing
    /\ Ending

-----------------------------------------------------------------------------
(* Listings.                                                               *)

(* The order of the natural numbers as a relation: it is well founded.     *)
Below == {pair \in Nat \X Nat : pair[1] < pair[2]}

(* Induction over a set of numbers, as its least member.                   *)
LEMMA Least ==
    ASSUME NEW T \in SUBSET Nat, T # {} PROVE \E m \in T : \A n \in T : m <= n
<1>1. IsWellFoundedOn(Below, Nat)
  BY NatLessThanWellFounded DEF OpToRel, Below
<1>2. PICK m \in T : \A n \in T : ~(<<n, m>> \in Below)
  BY <1>1, WFMin
<1>3. ASSUME NEW n \in T PROVE m <= n
  <2>1. <<n, m>> \in Nat \X Nat /\ ~(<<n, m>> \in Below)
    BY <1>2
  <2>2. ~(n < m)
    BY <2>1 DEF Below
  <2>3. QED
    BY <2>2
<1>4. QED
  BY <1>3

(* s enumerates S from its smallest member to its largest.                 *)
Arranged(S, s) == s \in [1..Cardinality(S) -> S] /\ Range(s) = S /\ Ascending(s)

Arrangeable(S) == \E s : Arranged(S, s)

(* An order of the other members and the least before them.                *)
LEMMA Prefixed ==
    ASSUME NEW S \in SUBSET Nat, IsFiniteSet(S), NEW m \in S, \A n \in S : m <= n,
           Arrangeable(S \ {m})
    PROVE  Arrangeable(S)
<1> DEFINE n == Cardinality(S)
<1>1. n \in Nat /\ n # 0 /\ Cardinality(S \ {m}) = n - 1
  BY FS_CardinalityType, FS_EmptySet, FS_RemoveElement
<1>2. PICK s : Arranged(S \ {m}, s)
  BY DEF Arrangeable
<1> DEFINE t == [i \in 1..n |-> IF i = 1 THEN m ELSE s[i - 1]]
<1> HIDE DEF n
<1>3. \A i \in 1..n : i # 1 => i - 1 \in 1..(n - 1)
  BY <1>1
<1>4. s \in [1..(n - 1) -> S \ {m}]
  BY <1>1, <1>2 DEF Arranged
<1>5. t \in [1..n -> S]
  BY <1>3, <1>4
<1>6. Ascending(t)
  <2> SUFFICES ASSUME NEW i \in 1..n, NEW j \in 1..n, i < j PROVE t[i] < t[j]
    BY DEF Ascending
  <2>1. j - 1 \in 1..(n - 1) /\ t[j] = s[j - 1] /\ s[j - 1] \in S \ {m}
    BY <1>1, <1>4
  <2>2. CASE i = 1
    <3>1. t[i] = m
      BY <2>2
    <3>2. m <= t[j] /\ m # t[j] /\ t[j] \in Nat
      BY <2>1
    <3>3. QED
      BY <3>1, <3>2
  <2>3. CASE i # 1
    <3>1. i - 1 \in 1..(n - 1) /\ t[i] = s[i - 1] /\ i - 1 < j - 1
      BY <2>3, <1>1
    <3>2. DOMAIN s = 1..(n - 1)
      BY <1>4
    <3>3. s[i - 1] < s[j - 1]
      BY <1>2, <3>1, <2>1, <3>2 DEF Arranged, Ascending
    <3>4. QED
      BY <3>1, <2>1, <3>3
  <2>4. QED
    BY <2>2, <2>3
<1>7. Range(t) = S
  <2>1. ASSUME NEW x \in S PROVE x \in Range(t)
    <3>1. CASE x = m
      <4>1. 1 \in DOMAIN t /\ t[1] = m
        BY <1>1
      <4>2. QED
        BY <3>1, <4>1 DEF Range
    <3>2. CASE x # m
      <4>1. PICK i \in 1..(n - 1) : s[i] = x
        BY <3>2, <1>2, <1>4 DEF Arranged, Range
      <4>2. i + 1 \in DOMAIN t /\ t[i + 1] = x
        BY <4>1, <1>1
      <4>3. QED
        BY <4>2 DEF Range
    <3>3. QED
      BY <3>1, <3>2
  <2>2. QED
    BY <2>1, <1>5 DEF Range
<1>8. QED
  BY <1>5, <1>6, <1>7 DEF Arrangeable, Arranged, n

(* A smallest subset without an order would have one.                      *)
LEMMA OrderExists ==
    ASSUME NEW U \in SUBSET Nat, IsFiniteSet(U) PROVE Arrangeable(U)
<1> DEFINE Bad == {n \in Nat : \E S \in SUBSET U : Cardinality(S) = n /\ ~Arrangeable(S)}
<1>1. SUFFICES ASSUME Bad # {} PROVE FALSE
  BY <1>1, FS_CardinalityType
<1>2. PICK n \in Bad : \A k \in Bad : n <= k
  BY <1>1, Least
<1>3. PICK S \in SUBSET U : Cardinality(S) = n /\ ~Arrangeable(S)
  BY <1>2
<1>4. IsFiniteSet(S)
  BY FS_Subset
<1>5. CASE S = {}
  <2>1. Cardinality(S) = 0
    BY <1>5, FS_EmptySet
  <2>2. Arranged(S, <<>>)
    BY <1>5, <2>1 DEF Arranged, Ascending, Range
  <2>3. QED
    BY <2>2, <1>3 DEF Arrangeable
<1>6. CASE S # {}
  <2>1. PICK m \in S : \A k \in S : m <= k
    BY <1>6, Least
  <2>2. Cardinality(S \ {m}) = n - 1 /\ n \in Nat /\ n # 0
    BY <1>3, <1>4, <1>6, FS_RemoveElement, FS_CardinalityType, FS_EmptySet
  <2>3. n - 1 \in Nat /\ ~(n <= n - 1)
    BY <2>2
  <2>4. n - 1 \notin Bad
    BY <2>3, <1>2
  <2>5. Arrangeable(S \ {m})
    BY <2>2, <2>3, <2>4
  <2>6. QED
    BY <2>1, <2>5, <1>3, <1>4, Prefixed
<1>7. QED
  BY <1>5, <1>6

(* The rows of a query in their order. *)
LEMMA Ordered ==
    ASSUME NEW S \in SUBSET Nat, IsFiniteSet(S)
    PROVE  /\ InOrder(S) \in Seq(S) /\ Len(InOrder(S)) = Cardinality(S)
           /\ Range(InOrder(S)) = S /\ Ascending(InOrder(S))
<1>1. \E s \in [1..Cardinality(S) -> S] : Range(s) = S /\ \A i, j \in DOMAIN s : i < j => s[i] < s[j]
  BY OrderExists DEF Arrangeable, Arranged, Ascending
<1>2. /\ InOrder(S) \in [1..Cardinality(S) -> S] /\ Range(InOrder(S)) = S
      /\ \A i, j \in DOMAIN InOrder(S) : i < j => InOrder(S)[i] < InOrder(S)[j]
  BY <1>1 DEF InOrder
<1>3. Cardinality(S) \in Nat
  BY FS_CardinalityType
<1>4. QED
  BY <1>2, <1>3 DEF Ascending

(* A page holds the next rows in order; its cursor is the last of them     *)
(* when there are more.                                                    *)
LEMMA PageRows ==
    ASSUME NEW S \in SUBSET (Nat \ {0}), IsFiniteSet(S), NEW c \in Nat
    PROVE  LET p == Page(S, c) IN
           /\ p.items \in Seq(S) /\ Ascending(p.items) /\ p.next \in Nat
           /\ \A i \in DOMAIN p.items : p.items[i] > c /\ (p.next # 0 => p.items[i] <= p.next)
           /\ p.next # 0 => p.next > c
           /\ Range(p.items) = {x \in S : x > c /\ (p.next # 0 => x <= p.next)}
<1> DEFINE R == {x \in S : x > c}
           all == InOrder(R)
           n == IF Len(all) > Limit THEN Limit ELSE Len(all)
           items == SubSeq(all, 1, n)
           next == IF Len(all) > Limit THEN all[n] ELSE 0
<1>1. R \in SUBSET Nat /\ IsFiniteSet(R)
  BY FS_Subset
<1>2. all \in Seq(R) /\ Range(all) = R /\ Ascending(all)
  BY <1>1, Ordered
<1> HIDE DEF all
<1>3. Limit \in Nat \ {0} /\ Len(all) \in Nat /\ n \in 0..Len(all)
  BY <1>2, McpAssumption
<1>4. items \in Seq(R) /\ Len(items) = n /\ \A i \in 1..n : items[i] = all[i]
  BY <1>2, <1>3
<1>5. Page(S, c).items = items /\ Page(S, c).next = next
  <2>1. Len(all) > Limit => Last(items) = next
    BY <1>3, <1>4 DEF Last
  <2>2. QED
    BY <2>1 DEF Page, After, all
<1> HIDE DEF n, items
<1>6. \A i \in 1..Len(all) : all[i] \in R
  BY <1>2
<1>7. \A i, j \in 1..Len(all) : i < j => all[i] < all[j]
  BY <1>2 DEF Ascending
<1>8. DOMAIN items = 1..n
  BY <1>4
<1>9. next # 0 => n \in 1..Len(all) /\ n = Limit /\ Len(all) > Limit /\ next = all[n]
  BY <1>3 DEF n
<1>10. next = 0 => n = Len(all)
  BY <1>3, <1>6 DEF n
<1>11. ASSUME NEW i \in 1..n, next # 0 PROVE items[i] <= next
  <2>1. n \in 1..Len(all) /\ next = all[n] /\ all[n] \in Nat
    BY <1>11, <1>9, <1>6
  <2>2. i \in 1..Len(all) /\ items[i] = all[i] /\ all[i] \in Nat
    <3>1. i \in 1..Len(all)
      BY <1>3
    <3>2. all[i] \in R /\ R \subseteq Nat
      BY <3>1, <1>6
    <3>3. items[i] = all[i]
      BY <1>4
    <3>4. QED
      BY <3>1, <3>2, <3>3
  <2>3. i = n \/ i < n
    BY <1>3
  <2>4. i < n => all[i] < all[n]
    BY <2>1, <2>2, <1>7
  <2>5. QED
    BY <2>1, <2>2, <2>3, <2>4
<1>12. Range(items) = {x \in S : x > c /\ (next # 0 => x <= next)}
  <2>1. ASSUME NEW x \in Range(items) PROVE x \in S /\ x > c /\ (next # 0 => x <= next)
    <3>1. PICK i \in 1..n : x = items[i]
      BY <1>8 DEF Range
    <3>2. QED
      BY <3>1, <1>11, <1>4
  <2>2. ASSUME NEW x \in S, x > c, next # 0 => x <= next PROVE x \in Range(items)
    <3>1. PICK i \in 1..Len(all) : all[i] = x
      BY <2>2, <1>2 DEF Range
    <3>2. i \in 1..n
      <4>1. CASE next = 0
        BY <4>1, <1>10
      <4>2. CASE next # 0
        <5>0. n \in 1..Len(all) /\ next = all[n] /\ all[n] \in Nat /\ all[i] \in Nat
          BY <4>2, <1>9, <1>6, <3>1
        <5>1. ~(all[n] < all[i])
          BY <4>2, <5>0, <3>1, <2>2
        <5>2. ~(n < i)
          BY <5>1, <4>2, <1>9, <1>7
        <5>3. QED
          BY <5>2, <1>3
      <4>3. QED
        BY <4>1, <4>2
    <3>3. QED
      BY <3>1, <3>2, <1>4, <1>8 DEF Range
  <2>3. QED
    BY <2>1, <2>2
<1>13. Ascending(items)
  BY <1>8, <1>4, <1>7, <1>3 DEF Ascending
<1>14. \A i \in 1..n : items[i] > c
  BY <1>4
<1>15. next \in Nat /\ (next # 0 => next > c)
  <2>1. CASE next = 0
    BY <2>1
  <2>2. CASE next # 0
    <3>1. n \in 1..Len(all) /\ next = all[n]
      BY <2>2, <1>9
    <3>2. all[n] \in S /\ all[n] > c
      BY <3>1, <1>6
    <3>3. QED
      BY <3>1, <3>2
  <2>3. QED
    BY <2>1, <2>2
<1>16. items \in Seq(S)
  BY <1>4
<1> HIDE DEF next
<1>17. QED
  BY <1>5, <1>8, <1>11, <1>12, <1>13, <1>14, <1>15, <1>16

(* A page after the one that ended at its cursor continues it.             *)
LEMMA PageFollows ==
    ASSUME NEW s \in Seq(Nat), Ascending(s), NEW c \in Nat, \A i \in DOMAIN s : s[i] <= c,
           NEW t \in Seq(Nat), Ascending(t), \A i \in DOMAIN t : t[i] > c
    PROVE  /\ s \o t \in Seq(Nat) /\ Ascending(s \o t)
           /\ Range(s \o t) = Range(s) \cup Range(t)
<1>1. /\ s \o t \in Seq(Nat) /\ Len(s \o t) = Len(s) + Len(t)
      /\ \A i \in 1..Len(s) : (s \o t)[i] = s[i]
      /\ \A i \in 1..Len(t) : (s \o t)[Len(s) + i] = t[i]
  OBVIOUS
<1>2. /\ DOMAIN s = 1..Len(s) /\ DOMAIN t = 1..Len(t) /\ DOMAIN (s \o t) = 1..(Len(s) + Len(t))
      /\ Len(s) \in Nat /\ Len(t) \in Nat
  OBVIOUS
<1> DEFINE u == s \o t
<1> HIDE DEF u
<1>3. \A i \in 1..Len(s) : u[i] = s[i] /\ s[i] \in Nat
  BY <1>1 DEF u
<1>4. \A i \in 1..(Len(s) + Len(t)) : i > Len(s) => i - Len(s) \in 1..Len(t) /\ u[i] = t[i - Len(s)]
  BY <1>1, <1>2 DEF u
<1>5. ASSUME NEW i \in DOMAIN u, NEW j \in DOMAIN u, i < j PROVE u[i] < u[j]
  <2>0. i \in 1..(Len(s) + Len(t)) /\ j \in 1..(Len(s) + Len(t))
    BY <1>2 DEF u
  <2>1. CASE j <= Len(s)
    <3>1. i \in 1..Len(s) /\ j \in 1..Len(s)
      BY <2>0, <2>1, <1>2, <1>5
    <3>2. s[i] < s[j]
      BY <3>1, <1>2, <1>5 DEF Ascending
    <3>3. QED
      BY <3>1, <3>2, <1>3
  <2>2. CASE i <= Len(s) /\ j > Len(s)
    <3>1. i \in 1..Len(s) /\ u[i] = s[i] /\ s[i] <= c
      BY <2>0, <2>2, <1>2, <1>3
    <3>2. u[j] = t[j - Len(s)] /\ t[j - Len(s)] > c /\ t[j - Len(s)] \in Nat
      BY <2>0, <2>2, <1>2, <1>4
    <3>3. QED
      BY <3>1, <3>2, <1>3
  <2>3. CASE i > Len(s)
    <3>1. j > Len(s)
      BY <2>0, <2>3, <1>2, <1>5
    <3>2. i - Len(s) \in 1..Len(t) /\ u[i] = t[i - Len(s)]
      BY <2>0, <2>3, <1>4
    <3>3. j - Len(s) \in 1..Len(t) /\ u[j] = t[j - Len(s)]
      BY <2>0, <3>1, <1>4
    <3>4. i - Len(s) < j - Len(s)
      BY <2>0, <1>2, <1>5
    <3>5. t[i - Len(s)] < t[j - Len(s)]
      BY <3>2, <3>3, <3>4, <1>2 DEF Ascending
    <3>6. QED
      BY <3>2, <3>3, <3>5
  <2>4. QED
    BY <2>0, <2>1, <2>2, <2>3, <1>2
<1>6. Range(u) = Range(s) \cup Range(t)
  <2>1. ASSUME NEW x \in Range(u) PROVE x \in Range(s) \cup Range(t)
    <3>1. PICK i \in 1..(Len(s) + Len(t)) : u[i] = x
      BY <1>2 DEF Range, u
    <3>2. CASE i <= Len(s)
      <4>1. i \in DOMAIN s /\ s[i] = x
        BY <3>1, <3>2, <1>2, <1>3
      <4>2. QED
        BY <4>1 DEF Range
    <3>3. CASE i > Len(s)
      <4>1. i - Len(s) \in DOMAIN t /\ t[i - Len(s)] = x
        BY <3>1, <3>3, <1>2, <1>4
      <4>2. QED
        BY <4>1 DEF Range
    <3>4. QED
      BY <3>2, <3>3, <1>2
  <2>2. ASSUME NEW x \in Range(s) PROVE x \in Range(u)
    <3>1. PICK i \in 1..Len(s) : s[i] = x
      BY <1>2 DEF Range
    <3>2. i \in DOMAIN u /\ u[i] = x
      BY <3>1, <1>2, <1>3 DEF u
    <3>3. QED
      BY <3>2 DEF Range
  <2>3. ASSUME NEW x \in Range(t) PROVE x \in Range(u)
    <3>1. PICK i \in 1..Len(t) : t[i] = x
      BY <1>2 DEF Range
    <3>2. Len(s) + i \in DOMAIN u /\ u[Len(s) + i] = x
      BY <3>1, <1>1, <1>2 DEF u
    <3>3. QED
      BY <3>2 DEF Range
  <2>4. QED
    BY <2>1, <2>2, <2>3
<1>7. QED
  BY <1>1, <1>5, <1>6 DEF Ascending, u

(* A listing in order has no row twice.                                    *)
LEMMA NoRowTwice ==
    ASSUME NEW s \in Seq(Nat), Ascending(s) PROVE Cardinality(Range(s)) = Len(s)
<1>1. s \in [1..Len(s) -> Range(s)] /\ Len(s) \in Nat /\ DOMAIN s = 1..Len(s)
  BY DEF Range
<1>2. s \in Surjection(1..Len(s), Range(s))
  BY <1>1 DEF Surjection, Range
<1>3. \A i, j \in 1..Len(s) : i # j => s[i] # s[j]
  BY <1>1 DEF Ascending
<1>4. s \in Injection(1..Len(s), Range(s))
  BY <1>1, <1>3 DEF Injection, IsInjective
<1>5. IsFiniteSet(1..Len(s)) /\ Cardinality(1..Len(s)) = Len(s)
  <2>1. PICK n \in Nat : n = Len(s)
    BY <1>1
  <2>2. IsFiniteSet(1..n) /\ Cardinality(1..n) = IF 1 > n THEN 0 ELSE n - 1 + 1
    BY FS_Interval
  <2>3. QED
    BY <2>1, <2>2
<1>6. QED
  BY <1>2, <1>4, <1>5, FS_Surjection

-----------------------------------------------------------------------------
(* Scripts.                                                                *)

(* The entries of a script have the fields they are made of.               *)
LEMMA CallStep == \A t \in Words : Call(t) \in Steps /\ Call(t).do = "call" /\ Call(t).on = t
PROOF BY DEF Call, Steps, Words

LEMMA NotifyStep == Notify \in Steps /\ Notify.do = "notify" /\ Notify.on = ""
PROOF BY DEF Notify, Steps, Words

LEMMA RecallStep == Recall \in Steps /\ Recall.do = "recall" /\ Recall.on = ""
PROOF BY DEF Recall, Steps, Words

LEMMA CompareStep ==
    \A t \in Words : Compare(t) \in Steps /\ Compare(t).do = "compare" /\ Compare(t).on = t
PROOF BY DEF Compare, Steps, Words

LEMMA ReadStep ==
    \A w, n \in Words :
        Read(w, n) \in Steps /\ Read(w, n).do = "read" /\ Read(w, n).on = w /\ Read(w, n).into = n
PROOF BY DEF Read, Steps

(* u is s, of length m, followed by t, of length k.                        *)
Link(u, s, m, t, k) ==
    /\ u \in Seq(Steps) /\ Len(u) = m + k
    /\ \A n \in 1..m : u[n] = s[n]
    /\ \A n \in 1..k : u[m + n] = t[n]

LEMMA Linked ==
    ASSUME NEW s \in Seq(Steps), NEW t \in Seq(Steps), NEW m \in Nat, NEW k \in Nat,
           Len(s) = m, Len(t) = k
    PROVE  Link(s \o t, s, m, t, k)
PROOF BY DEF Link

(* s is a snapshot into n.                                                 *)
SnapshotAt(s, n) ==
    /\ s \in Seq(Steps) /\ Len(s) = 4
    /\ s[1] = Read("counts", n) /\ s[2] = Read("hashes", n)
    /\ s[3] = Read("meta", n) /\ s[4] = Read("version", n)

LEMMA SnapshotParts == \A n \in Words : SnapshotAt(Snapshot(n), n)
<1> SUFFICES ASSUME NEW n \in Words PROVE SnapshotAt(Snapshot(n), n)
  OBVIOUS
<1>1. /\ Read("counts", n) \in Steps /\ Read("hashes", n) \in Steps
      /\ Read("meta", n) \in Steps /\ Read("version", n) \in Steps
  <2>1. "counts" \in Words /\ "hashes" \in Words /\ "meta" \in Words /\ "version" \in Words
    BY DEF Words
  <2>2. QED
    BY <2>1, ReadStep
<1>2. QED
  BY <1>1 DEF Snapshot, SnapshotAt

(* What the retained client does at its places, listing aside. *)
CheckedAt(s, k) ==
    /\ s \in Seq(Steps) /\ Len(s) = 24 + k
    /\ s[1] = Read("counts", "before") /\ s[2] = Read("hashes", "before")
    /\ s[3] = Read("meta", "before") /\ s[4] = Read("version", "before")
    /\ s[5] = Call("initialize") /\ s[6] = Notify /\ s[7] = Call("tools")
    /\ s[8] = Call("denied") /\ s[9] = Call("status")
    /\ s[10 + k] = Call("inspect") /\ s[11 + k] = Call("repeat")
    /\ s[12 + k] = Call("cite") /\ s[13 + k] = Call("citation")
    /\ s[14 + k] = Read("counts", "readonly") /\ s[15 + k] = Read("hashes", "readonly")
    /\ s[16 + k] = Read("meta", "readonly") /\ s[17 + k] = Read("version", "readonly")
    /\ s[18 + k] = Compare("readonly") /\ s[19 + k] = Call("path")
    /\ s[20 + k] = Read("counts", "after") /\ s[21 + k] = Read("hashes", "after")
    /\ s[22 + k] = Read("meta", "after") /\ s[23 + k] = Read("version", "after")
    /\ s[24 + k] = Compare("after")

LEMMA CheckedParts ==
    ASSUME NEW l \in Seq(Steps)
    PROVE  /\ CheckedAt(Checked(l), Len(l))
           /\ \A n \in 1..Len(l) : Checked(l)[9 + n] = l[n]
<1> DEFINE a == Snapshot("before")
           b == <<Call("initialize"), Notify, Call("tools"), Call("denied"), Call("status")>>
           c == <<Call("inspect"), Call("repeat"), Call("cite"), Call("citation")>>
           d == Snapshot("readonly")
           e == <<Compare("readonly"), Call("path")>>
           f == Snapshot("after")
           g == <<Compare("after")>>
           ab == a \o b
           abl == ab \o l
           ac == abl \o c
           ad == ac \o d
           ae == ad \o e
           af == ae \o f
           k == Len(l)
<1>1. k \in Nat
  OBVIOUS
<1>2. /\ Call("initialize") \in Steps /\ Notify \in Steps /\ Call("tools") \in Steps
      /\ Call("denied") \in Steps /\ Call("status") \in Steps
  BY CallStep, NotifyStep DEF Words
<1>3. /\ b \in Seq(Steps) /\ Len(b) = 5
      /\ b[1] = Call("initialize") /\ b[2] = Notify /\ b[3] = Call("tools")
      /\ b[4] = Call("denied") /\ b[5] = Call("status")
  BY <1>2
<1>4. /\ Call("inspect") \in Steps /\ Call("repeat") \in Steps
      /\ Call("cite") \in Steps /\ Call("citation") \in Steps
  BY CallStep DEF Words
<1>5. /\ c \in Seq(Steps) /\ Len(c) = 4
      /\ c[1] = Call("inspect") /\ c[2] = Call("repeat")
      /\ c[3] = Call("cite") /\ c[4] = Call("citation")
  BY <1>4
<1>6. Compare("readonly") \in Steps /\ Call("path") \in Steps /\ Compare("after") \in Steps
  BY CallStep, CompareStep DEF Words
<1>7. /\ e \in Seq(Steps) /\ Len(e) = 2 /\ e[1] = Compare("readonly") /\ e[2] = Call("path")
      /\ g \in Seq(Steps) /\ Len(g) = 1 /\ g[1] = Compare("after")
  BY <1>6
<1>8. SnapshotAt(a, "before") /\ SnapshotAt(d, "readonly") /\ SnapshotAt(f, "after")
  BY SnapshotParts DEF Words
<1>9. Checked(l) = af \o g
  BY DEF Checked
<1> HIDE DEF a, b, c, d, e, f, g
<1>8a. /\ a \in Seq(Steps) /\ d \in Seq(Steps) /\ f \in Seq(Steps)
       /\ Len(a) = 4 /\ Len(d) = 4 /\ Len(f) = 4
  BY <1>8 DEF SnapshotAt
<1>10. Link(ab, a, 4, b, 5)
  BY <1>3, <1>8a, Linked
<1> HIDE DEF ab
<1>10a. ab \in Seq(Steps) /\ Len(ab) = 9
  BY <1>10 DEF Link
<1>11. Link(abl, ab, 9, l, k)
  BY <1>1, <1>10a, Linked
<1> HIDE DEF abl
<1>11a. abl \in Seq(Steps) /\ Len(abl) = 9 + k /\ 9 + k \in Nat
  BY <1>1, <1>11 DEF Link
<1>12. Link(ac, abl, 9 + k, c, 4)
  BY <1>11a, <1>5, Linked
<1> HIDE DEF ac
<1>12a. ac \in Seq(Steps) /\ Len(ac) = 13 + k /\ 13 + k \in Nat
  BY <1>1, <1>12 DEF Link
<1>13. Link(ad, ac, 13 + k, d, 4)
  BY <1>12a, <1>8a, Linked
<1> HIDE DEF ad
<1>13a. ad \in Seq(Steps) /\ Len(ad) = 17 + k /\ 17 + k \in Nat
  BY <1>1, <1>13 DEF Link
<1>14. Link(ae, ad, 17 + k, e, 2)
  BY <1>13a, <1>7, Linked
<1> HIDE DEF ae
<1>14a. ae \in Seq(Steps) /\ Len(ae) = 19 + k /\ 19 + k \in Nat
  BY <1>1, <1>14 DEF Link
<1>15. Link(af, ae, 19 + k, f, 4)
  BY <1>14a, <1>8a, Linked
<1> HIDE DEF af
<1>15a. af \in Seq(Steps) /\ Len(af) = 23 + k /\ 23 + k \in Nat
  BY <1>1, <1>15 DEF Link
<1>16. Link(Checked(l), af, 23 + k, g, 1)
  BY <1>9, <1>15a, <1>7, Linked
<1> DEFINE s == Checked(l)
<1> HIDE DEF s, k
<1>17. \A n \in 1..(9 + k) : s[n] = abl[n]
  <2> SUFFICES ASSUME NEW n \in 1..(9 + k) PROVE s[n] = abl[n]
    OBVIOUS
  <2>1. /\ n \in 1..(13 + k) /\ n \in 1..(17 + k)
        /\ n \in 1..(19 + k) /\ n \in 1..(23 + k)
    BY <1>1
  <2>2. s[n] = af[n] /\ af[n] = ae[n]
    BY <2>1, <1>15, <1>16 DEF Link, s
  <2>3. ae[n] = ad[n] /\ ad[n] = ac[n] /\ ac[n] = abl[n]
    BY <2>1, <1>12, <1>13, <1>14 DEF Link
  <2>4. QED
    BY <2>2, <2>3
<1>18. \A n \in 1..4 : s[n] = a[n]
  BY <1>1, <1>17, <1>11, <1>10 DEF Link
<1>19. \A n \in 1..5 : s[4 + n] = b[n]
  <2>1. \A n \in 1..5 : 4 + n \in 1..9 /\ 4 + n \in 1..(9 + k)
    BY <1>1
  <2>2. QED
    BY <2>1, <1>17, <1>11, <1>10 DEF Link
<1>20. \A n \in 1..k : s[9 + n] = l[n]
  <2>1. \A n \in 1..k : 9 + n \in 1..(9 + k)
    BY <1>1
  <2>2. QED
    BY <2>1, <1>17, <1>11 DEF Link
<1>21. \A n \in 1..4 : s[9 + k + n] = c[n]
  <2>1. \A n \in 1..4 : 9 + k + n \in 1..(13 + k)
    BY <1>1
  <2>2. \A n \in 1..(13 + k) : s[n] = ac[n]
    BY <1>1, <1>13, <1>14, <1>15, <1>16 DEF Link, s
  <2>3. QED
    BY <2>1, <2>2, <1>12 DEF Link
<1>22. \A n \in 1..4 : s[13 + k + n] = d[n]
  <2>1. \A n \in 1..4 : 13 + k + n \in 1..(17 + k)
    BY <1>1
  <2>2. \A n \in 1..(17 + k) : s[n] = ad[n]
    BY <1>1, <1>14, <1>15, <1>16 DEF Link, s
  <2>3. QED
    BY <2>1, <2>2, <1>13 DEF Link
<1>23. \A n \in 1..2 : s[17 + k + n] = e[n]
  <2>1. \A n \in 1..2 : 17 + k + n \in 1..(19 + k)
    BY <1>1
  <2>2. \A n \in 1..(19 + k) : s[n] = ae[n]
    BY <1>1, <1>15, <1>16 DEF Link, s
  <2>3. QED
    BY <2>1, <2>2, <1>14 DEF Link
<1>24. \A n \in 1..4 : s[19 + k + n] = f[n]
  <2>1. \A n \in 1..4 : 19 + k + n \in 1..(23 + k)
    BY <1>1
  <2>2. QED
    BY <2>1, <1>15, <1>16 DEF Link, s
<1>25. s[23 + k + 1] = g[1]
  BY <1>16 DEF Link, s
<1>16a. s \in Seq(Steps) /\ Len(s) = 24 + k
  BY <1>1, <1>16 DEF Link, s
<1>26. /\ s[1] = Read("counts", "before") /\ s[2] = Read("hashes", "before")
       /\ s[3] = Read("meta", "before") /\ s[4] = Read("version", "before")
  BY <1>18, <1>8 DEF SnapshotAt
<1>27. /\ s[5] = Call("initialize") /\ s[6] = Notify /\ s[7] = Call("tools")
       /\ s[8] = Call("denied") /\ s[9] = Call("status")
  BY <1>19, <1>3
<1>28. /\ s[10 + k] = Call("inspect") /\ s[11 + k] = Call("repeat")
       /\ s[12 + k] = Call("cite") /\ s[13 + k] = Call("citation")
  BY <1>1, <1>21, <1>5
<1>29. /\ s[14 + k] = Read("counts", "readonly") /\ s[15 + k] = Read("hashes", "readonly")
       /\ s[16 + k] = Read("meta", "readonly") /\ s[17 + k] = Read("version", "readonly")
  BY <1>1, <1>22, <1>8 DEF SnapshotAt
<1>30. /\ s[18 + k] = Compare("readonly") /\ s[19 + k] = Call("path")
  BY <1>1, <1>23, <1>7
<1>31. /\ s[20 + k] = Read("counts", "after") /\ s[21 + k] = Read("hashes", "after")
       /\ s[22 + k] = Read("meta", "after") /\ s[23 + k] = Read("version", "after")
  BY <1>1, <1>24, <1>8 DEF SnapshotAt
<1>32. s[24 + k] = Compare("after")
  BY <1>1, <1>25, <1>7
<1>33. CheckedAt(s, k)
  BY <1>16a, <1>26, <1>27, <1>28, <1>29, <1>30, <1>31, <1>32 DEF CheckedAt, s
<1>34. QED
  BY <1>33, <1>20 DEF s, k

(* What stands at place n of the retained client's script.                 *)
Placed(s, k, n) ==
    \/ n \in 1..4 /\ s[n].do = "read" /\ s[n].into = "before" /\ s[n].on # "sources"
    \/ n = 6 /\ s[n].do = "notify" /\ s[n].on # "sources"
    \/ /\ n \in {5, 7, 8, 9, 19 + k} \cup 10..(13 + k)
       /\ s[n].do = "call" /\ (s[n].on = "sources" <=> n = 10)
    \/ /\ n \in (14 + k)..(17 + k)
       /\ s[n].do = "read" /\ s[n].into = "readonly" /\ s[n].on # "sources"
       /\ s[n].on = "version" <=> n = 17 + k
    \/ n = 18 + k /\ s[n].do = "compare" /\ s[n].on = "readonly"
    \/ n \in (20 + k)..(23 + k) /\ s[n].do = "read" /\ s[n].into = "after" /\ s[n].on # "sources"
    \/ n = 24 + k /\ s[n].do = "compare" /\ s[n].on = "after"

LEMMA CheckedPlaces ==
    ASSUME NEW s, NEW k \in {1, 2}, CheckedAt(s, k), s[10] = Call("sources"),
           k = 2 => s[11] = Call("overview"), NEW n \in 1..Len(s)
    PROVE  Placed(s, k, n)
<1>1. /\ Compare("readonly").do = "compare" /\ Compare("readonly").on = "readonly"
      /\ Compare("after").do = "compare" /\ Compare("after").on = "after"
  BY DEF Compare
<1>2. \A w : Call(w).do = "call" /\ Call(w).on = w
  BY DEF Call
<1>4. n \in 1..(24 + k)
  BY DEF CheckedAt
<1>5. CASE n \in 1..4
  <2>1. PICK w \in {"counts", "hashes", "meta", "version"} : s[n] = Read(w, "before")
    BY <1>5 DEF CheckedAt
  <2>2. QED
    BY <1>5, <2>1 DEF Placed, Read
<1>6. CASE n = 6
  <2>1. s[n] = Notify
    BY <1>6 DEF CheckedAt
  <2>2. s[n].do = "notify" /\ s[n].on # "sources"
    BY <2>1, NotifyStep
  <2>3. QED
    BY <1>6, <2>2 DEF Placed
<1>7. CASE n \in {5, 7, 8, 9, 19 + k}
  <2>1. PICK w \in {"initialize", "tools", "denied", "status", "path"} : s[n] = Call(w)
    BY <1>7 DEF CheckedAt
  <2>2. s[n].do = "call" /\ s[n].on # "sources" /\ n # 10
    BY <1>7, <2>1, <1>2
  <2>3. QED
    BY <1>7, <2>2 DEF Placed
<1>8. CASE n \in 10..(13 + k)
  <2>1. n = 10 \/ (k = 2 /\ n = 11) \/ n \in {10 + k, 11 + k, 12 + k, 13 + k}
    BY <1>8
  <2>2. PICK w \in {"sources", "overview", "inspect", "repeat", "cite", "citation"} :
            s[n] = Call(w) /\ (w = "sources" <=> n = 10)
    BY <2>1 DEF CheckedAt
  <2>3. s[n].do = "call" /\ (s[n].on = "sources" <=> n = 10)
    BY <2>2, <1>2
  <2>4. QED
    BY <1>8, <2>3 DEF Placed
<1>9. CASE n \in (14 + k)..(17 + k)
  <2>1. n \in {14 + k, 15 + k, 16 + k, 17 + k}
    BY <1>9
  <2>2. PICK w \in {"counts", "hashes", "meta", "version"} :
            s[n] = Read(w, "readonly") /\ (w = "version" <=> n = 17 + k)
    BY <2>1 DEF CheckedAt
  <2>3. QED
    BY <1>9, <2>2 DEF Placed, Read
<1>10. CASE n \in {18 + k, 24 + k}
  <2>1. (n = 18 + k /\ s[n] = Compare("readonly")) \/ (n = 24 + k /\ s[n] = Compare("after"))
    BY <1>10 DEF CheckedAt
  <2>2. /\ s[n].do = "compare"
        /\ n = 18 + k => s[n].on = "readonly"
        /\ n = 24 + k => s[n].on = "after"
    BY <2>1, <1>1, <1>10
  <2>3. QED
    BY <1>10, <2>2 DEF Placed
<1>11. CASE n \in (20 + k)..(23 + k)
  <2>1. n \in {20 + k, 21 + k, 22 + k, 23 + k}
    BY <1>11
  <2>2. PICK w \in {"counts", "hashes", "meta", "version"} : s[n] = Read(w, "after")
    BY <2>1 DEF CheckedAt
  <2>3. QED
    BY <1>11, <2>2 DEF Placed, Read
<1>12. QED
  BY <1>4, <1>5, <1>6, <1>7, <1>8, <1>9, <1>10, <1>11

(* A script that takes no snapshot.                                        *)
Plain(s) ==
    /\ s \in Seq(Steps)
    /\ \A n \in 1..Len(s) : s[n].do \in {"call", "notify", "recall"} /\ (s[n].do = "notify" => n = 2)

LEMMA Doing ==
    /\ \A w : Call(w).do = "call" /\ Call(w).on = w
    /\ Notify.do = "notify" /\ Recall.do = "recall"
    /\ \A w, n : Read(w, n).do = "read" /\ Read(w, n).on = w /\ Read(w, n).into = n
    /\ \A n : Compare(n).do = "compare" /\ Compare(n).on = n
PROOF BY DEF Call, Notify, Recall, Read, Compare

LEMMA PlainScripts ==
    Plain(MeasureMcp) /\ Plain(AnswerPath) /\ Plain(Followups) /\ Plain(SmokeFollowups)
<1>1. Notify \in Steps /\ Recall \in Steps
  BY NotifyStep, RecallStep
<1>2. /\ Call("initialize") \in Steps /\ Call("tools") \in Steps /\ Call("status") \in Steps
      /\ Call("overview") \in Steps /\ Call("inspect") \in Steps /\ Call("repeat") \in Steps
  BY CallStep DEF Words
<1>3. /\ Call("cite") \in Steps /\ Call("path") \in Steps /\ Call("answer") \in Steps
      /\ Call("sources") \in Steps
  BY CallStep DEF Words
<1>4. Plain(MeasureMcp)
  <2>1. /\ MeasureMcp \in Seq(Steps) /\ Len(MeasureMcp) = 8 /\ MeasureMcp[2] = Notify
        /\ \A n \in {1, 3, 4, 5, 6, 7, 8} : MeasureMcp[n].do = "call"
    BY <1>1, <1>2, <1>3, Doing DEF MeasureMcp
  <2>2. QED
    BY <2>1, Doing DEF Plain
<1>5. Plain(AnswerPath)
  <2>1. /\ AnswerPath \in Seq(Steps) /\ Len(AnswerPath) = 6 /\ AnswerPath[2] = Notify
        /\ \A n \in {1, 3, 4, 5, 6} : AnswerPath[n].do = "call"
    BY <1>1, <1>2, <1>3, Doing DEF AnswerPath
  <2>2. QED
    BY <2>1, Doing DEF Plain
<1>6. Plain(Followups)
  <2>1. /\ Followups \in Seq(Steps) /\ Len(Followups) = 8 /\ Followups[2] = Notify
        /\ \A n \in {1, 3, 4, 6, 8} : Followups[n].do = "call"
        /\ \A n \in {5, 7} : Followups[n].do = "recall"
    BY <1>1, <1>2, <1>3, Doing DEF Followups
  <2>2. QED
    BY <2>1, Doing DEF Plain
<1>7. Plain(SmokeFollowups)
  <2>1. /\ SmokeFollowups \in Seq(Steps) /\ Len(SmokeFollowups) = 5
        /\ \A n \in {1, 2, 4, 5} : SmokeFollowups[n].do = "call"
        /\ SmokeFollowups[3].do = "recall"
    BY <1>1, <1>2, <1>3, Doing DEF SmokeFollowups
  <2>2. QED
    BY <2>1, Doing DEF Plain
<1>8. QED
  BY <1>4, <1>5, <1>6, <1>7

LEMMA ProbeScript ==
    /\ ProbeWide \in Seq(Steps) /\ Len(ProbeWide) = 5
    /\ ProbeWide[1] = Read("version", "before")
    /\ \A n \in 2..5 : ProbeWide[n].do \in {"call", "notify"} /\ (ProbeWide[n].do = "notify" => n = 3)
<1>1. /\ Notify \in Steps /\ Read("version", "before") \in Steps
  <2>1. "version" \in Words /\ "before" \in Words
    BY DEF Words
  <2>2. QED
    BY <2>1, NotifyStep, ReadStep
<1>2. Call("initialize") \in Steps /\ Call("inspect") \in Steps /\ Call("denied") \in Steps
  BY CallStep DEF Words
<1>3. /\ ProbeWide \in Seq(Steps) /\ Len(ProbeWide) = 5
      /\ ProbeWide[1] = Read("version", "before") /\ ProbeWide[3] = Notify
      /\ \A n \in {2, 4, 5} : ProbeWide[n].do = "call"
  BY <1>1, <1>2, Doing DEF ProbeWide
<1>4. QED
  BY <1>3, Doing

LEMMA CheckedScripts ==
    /\ CheckedAt(RunMcp, 1) /\ RunMcp[10] = Call("sources")
    /\ CheckedAt(Test5Mcp, 2) /\ Test5Mcp[10] = Call("sources") /\ Test5Mcp[11] = Call("overview")
<1>1. Call("sources") \in Steps /\ Call("overview") \in Steps
  BY CallStep DEF Words
<1> DEFINE l == <<Call("sources")>>
           m == <<Call("sources"), Call("overview")>>
<1>2. l \in Seq(Steps) /\ Len(l) = 1 /\ l[1] = Call("sources")
  BY <1>1
<1>3. m \in Seq(Steps) /\ Len(m) = 2 /\ m[1] = Call("sources") /\ m[2] = Call("overview")
  BY <1>1
<1>4. RunMcp = Checked(l) /\ Test5Mcp = Checked(m)
  BY DEF RunMcp, Test5Mcp
<1> HIDE DEF l, m
<1>5. CheckedAt(Checked(l), 1) /\ Checked(l)[10] = Call("sources")
  <2>1. CheckedAt(Checked(l), Len(l)) /\ \A n \in 1..Len(l) : Checked(l)[9 + n] = l[n]
    BY <1>2, CheckedParts
  <2>2. Checked(l)[9 + 1] = l[1]
    BY <2>1, <1>2
  <2>3. QED
    BY <2>1, <2>2, <1>2
<1>6. /\ CheckedAt(Checked(m), 2) /\ Checked(m)[10] = Call("sources")
      /\ Checked(m)[11] = Call("overview")
  <2>1. CheckedAt(Checked(m), Len(m)) /\ \A n \in 1..Len(m) : Checked(m)[9 + n] = m[n]
    BY <1>3, CheckedParts
  <2>2. Checked(m)[9 + 1] = m[1] /\ Checked(m)[9 + 2] = m[2]
    BY <2>1, <1>3
  <2>3. QED
    BY <2>1, <2>2, <1>3
<1>7. QED
  BY <1>4, <1>5, <1>6

(* The places of the scripts that the arguments below go by.               *)
Scripted ==
    /\ Session \in Seq(Steps)
    /\ \A j, k \in DOMAIN Session :
         Session[j].do = "notify" /\ Session[k].do = "notify" => j = k
    /\ \A j, k \in DOMAIN Session :
         Session[j].do = "call" /\ Session[k].do = "read" /\ Session[k].into = "before" => k < j
    /\ \A k \in DOMAIN Session :
         /\ Session[k].do = "read" => Session[k].into \in {"before", "readonly", "after"}
         /\ Session[k].do = "compare" => Session[k].on \in {"readonly", "after"}
    /\ Checking =>
         /\ Verdict \in DOMAIN Session /\ Verdict > 18
         /\ Session[4] = Read("version", "before") /\ Session[10] = Call("sources")
         /\ Session[Verdict] = Compare("readonly")
         /\ \A k \in DOMAIN Session :
              /\ Session[k].on = "sources" => k = 10
              /\ Session[k].do = "read" /\ Session[k].into = "before" => k < 10
              /\ Session[k].do = "read" /\ Session[k].into = "readonly" =>
                    k < Verdict /\ (Session[k].on = "version" <=> k = Verdict - 1)
              /\ k = Verdict - 1 => Session[k].do = "read" /\ Session[k].into = "readonly"
              /\ Session[k].do = "compare" /\ Session[k].on = "readonly" => k = Verdict
    /\ Probing => 1 \in DOMAIN Session /\ Session[1] = Read("version", "before")

LEMMA ScriptedChecks ==
    ASSUME NEW k \in {1, 2}, CheckedAt(Session, k), \A n \in 1..Len(Session) : Placed(Session, k, n),
           Session[10] = Call("sources"), ~Probing
    PROVE  Scripted
<1>1. Session \in Seq(Steps) /\ Len(Session) = 24 + k /\ DOMAIN Session = 1..(24 + k)
  BY DEF CheckedAt
<1>2. /\ Verdict = 18 + k /\ Session[4] = Read("version", "before")
      /\ Session[18 + k] = Compare("readonly")
  BY <1>1 DEF CheckedAt, Verdict
<1>3. \A n \in 1..(24 + k) : Placed(Session, k, n)
  BY <1>1
<1>4. \A n \in 1..(24 + k) : Session[n].do = "notify" => n = 6
  BY <1>3 DEF Placed
<1>5. \A n \in 1..(24 + k) : Session[n].do = "read" /\ Session[n].into = "before" => n <= 4
  BY <1>3 DEF Placed
<1>6. \A n \in 1..(24 + k) : Session[n].do = "call" => n > 4
  BY <1>3 DEF Placed
<1>7. \A n \in 1..(24 + k) :
        /\ Session[n].do = "read" => Session[n].into \in {"before", "readonly", "after"}
        /\ Session[n].do = "compare" => Session[n].on \in {"readonly", "after"}
  BY <1>3 DEF Placed
<1>8. \A n \in 1..(24 + k) :
        /\ Session[n].on = "sources" => n = 10
        /\ Session[n].do = "read" /\ Session[n].into = "readonly" =>
              n < 18 + k /\ (Session[n].on = "version" <=> n = 17 + k)
        /\ n = 17 + k => Session[n].do = "read" /\ Session[n].into = "readonly"
        /\ Session[n].do = "compare" /\ Session[n].on = "readonly" => n = 18 + k
  BY <1>3 DEF Placed
<1>9. QED
  BY <1>1, <1>2, <1>4, <1>5, <1>6, <1>7, <1>8 DEF Scripted

LEMMA AllScripted == ASSUME script \in Scripts PROVE Scripted
<1>1. CASE script = "run_mcp"
  <2>1. Session = RunMcp /\ ~Probing
    BY <1>1 DEF Session, Probing
  <2>2. \A n \in 1..Len(Session) : Placed(Session, 1, n)
    BY <2>1, CheckedScripts, CheckedPlaces
  <2>3. QED
    BY <2>1, <2>2, CheckedScripts, ScriptedChecks
<1>2. CASE script = "test5_mcp"
  <2>1. Session = Test5Mcp /\ ~Probing
    BY <1>2 DEF Session, Probing
  <2>2. \A n \in 1..Len(Session) : Placed(Session, 2, n)
    BY <2>1, CheckedScripts, CheckedPlaces
  <2>3. QED
    BY <2>1, <2>2, CheckedScripts, ScriptedChecks
<1>3. CASE script = "probe_wide"
  <2>1. Session = ProbeWide /\ ~Checking
    BY <1>3 DEF Session, Checking
  <2>2. QED
    BY <2>1, ProbeScript, Doing DEF Scripted
<1>4. ASSUME Plain(Session), ~Checking, ~Probing PROVE Scripted
  BY <1>4 DEF Plain, Scripted
<1>5. CASE script \in {"measure_mcp", "smoke_measure", "answer_path", "followups", "smoke_followups"}
  <2>1. Plain(Session)
    BY <1>5, PlainScripts DEF Session, SmokeMeasureMcp
  <2>2. ~Checking /\ ~Probing
    BY <1>5 DEF Checking, Probing
  <2>3. QED
    BY <1>4, <2>1, <2>2
<1>6. QED
  BY <1>1, <1>2, <1>3, <1>5, McpAssumption

-----------------------------------------------------------------------------
(* What a step leaves as it is.                                            *)

LEMMA SameScript ==
    ASSUME script' = script
    PROVE  /\ Session' = Session /\ Checking' = Checking /\ Probing' = Probing
           /\ Verdict' = Verdict
PROOF BY DEF Session, Checking, Probing, Verdict

LEMMA SameRequest ==
    ASSUME UNCHANGED <<script, step, sequence, page>>
    PROVE  Asked' = Asked /\ Now' = Now /\ Calling' = Calling
PROOF BY SameScript DEF Asked, Now, Calling

LEMMA KeepRequests ==
    ASSUME Requests, UNCHANGED <<script, step, sequence, page, inp>>,
           at' \in {"sent", "reading"} => Calling
    PROVE  Requests'
PROOF BY SameScript, SameRequest DEF Requests, Note

(* The library that another process leaves behind. *)
Grown == lib'.commits >= lib.commits /\ lib.closed \subseteq lib'.closed

LEMMA FitsLater ==
    ASSUME NEW a, NEW c, NEW r, NEW from, NEW now, NEW new, Fits(a, c, r, from, now),
           now.commits \in Nat, new.commits \in Nat, from.commits \in Nat,
           new.commits >= now.commits, now.closed \subseteq new.closed
    PROVE  Fits(a, c, r, from, new)
<1>1. a.view.commits \in Nat
  BY DEF Fits, Since, Views
<1>2. a.view.commits <= new.commits
  BY <1>1 DEF Fits
<1>3. QED
  BY <1>2 DEF Fits

LEMMA KeepReplies ==
    ASSUME Replies, UNCHANGED <<script, step, sequence, page, inp, out, begun>>,
           server'.state = server.state, server'.reply = server.reply, DOMAIN server' = DOMAIN server,
           lib \in Views, lib' \in Views, begun \in Views, Grown
    PROVE  Replies'
<1>1. lib.commits \in Nat /\ lib'.commits \in Nat /\ begun.commits \in Nat
  BY DEF Views
<1>2. ASSUME NEW a, Fits(a, Checking, Asked, begun, lib)
      PROVE  Fits(a, Checking', Asked', begun', lib')
  BY <1>1, <1>2, FitsLater, SameScript, SameRequest DEF Grown
<1>3. server.state \in {"answering", "writing"} =>
        Fits(server'.reply, Checking', Asked', begun', lib')
  BY <1>2 DEF Replies
<1>4. out # <<>> => out = <<out[1]>> /\ Fits(out[1], Checking', Asked', begun', lib')
  BY <1>2 DEF Replies
<1>5. QED
  BY <1>3, <1>4, SameRequest DEF Replies

LEMMA KeepQuiet ==
    ASSUME Quiet, UNCHANGED <<inp, out>>, server'.state = server.state,
           at' \in {"start", "step"} => at \in {"start", "step"}
    PROVE  Quiet'
PROOF BY DEF Quiet, Note

LEMMA KeepLibrary ==
    ASSUME Library, UNCHANGED <<script, lib, begun, shots, mixed>>,
           step \in Nat, step' \in Nat, step' >= step, Scripted
    PROVE  Library'
<1>1. \A k \in DOMAIN Session : k \in Nat
  BY DEF Scripted
<1>2. \A k \in DOMAIN Session : k < step => k < step'
  BY <1>1
<1>3. QED
  BY <1>2, SameScript DEF Library

LEMMA KeepSnapshots ==
    ASSUME Snapshots, UNCHANGED <<script, step, shots, begun>>, failures \subseteq failures'
    PROVE  Snapshots'
PROOF BY SameScript DEF Snapshots

LEMMA KeepPaging ==
    ASSUME Paging, UNCHANGED <<script, step, sequence, page, packet, begun>>,
           at' \in {"sent", "reading"} => at \in {"sent", "reading"},
           mixed => mixed', failures \subseteq failures', lib.closed \subseteq lib'.closed
    PROVE  Paging'
PROOF BY SameScript, SameRequest DEF Paging, Evidence, Open, Empty, NoView

LEMMA KeepListing ==
    ASSUME Listing, UNCHANGED <<script, step, listed, begun>>,
           mixed => mixed', failures \subseteq failures', lib.closed \subseteq lib'.closed
    PROVE  Listing'
PROOF BY SameScript DEF Listing, Open

LEMMA KeepEnding ==
    ASSUME Ending, TypeOK, UNCHANGED <<script, step, raised, status, mixed, failures>>,
           server'.code = server.code \/ ~Gone, Gone => Gone',
           at' \in {"waiting", "killing", "done"} =>
              at \in {"closing", "waiting", "killing", "done"},
           at' = "closing" /\ raised = "no" => step = Len(Session) + 1,
           at' = "left" => status = 1
    PROVE  Ending'
PROOF BY SameScript DEF Ending, Gone

-----------------------------------------------------------------------------
(* Steps of the client that only move it on.                               *)

LEMMA Bounds ==
    ASSUME TypeOK
    PROVE  /\ Scripted /\ step \in Nat /\ Len(Session) \in Nat
           /\ DOMAIN Session = 1..Len(Session) /\ step <= Len(Session) + 1
<1>1. Scripted
  BY AllScripted DEF TypeOK
<1>2. QED
  BY <1>1 DEF TypeOK, Scripted

LEMMA ControlStep ==
    ASSUME IInv,
           UNCHANGED <<script, recorded, step, sequence, answer, page, listed, packet, failures,
                       shots, begun, inp, out, mixed, lib>>,
           server'.state = server.state, server'.reply = server.reply, DOMAIN server' = DOMAIN server,
           at' \in {"sent", "reading"} => at \in {"sent", "reading"},
           at' \in {"start", "step"} => at \in {"start", "step"},
           TypeOK', Ending'
    PROVE  IInv'
<1>1. TypeOK /\ Requests /\ Replies /\ Quiet /\ Library /\ Snapshots /\ Paging /\ Listing
  BY DEF IInv
<1>2. Requests'
  BY <1>1, KeepRequests DEF Requests
<1>3. Replies'
  <2>1. Grown
    BY <1>1 DEF Grown, Library, Views
  <2>2. QED
    BY <1>1, <2>1, KeepReplies DEF Library
<1>4. Quiet'
  BY <1>1, KeepQuiet
<1>5. Library'
  BY <1>1, KeepLibrary, Bounds
<1>6. Snapshots'
  BY <1>1, KeepSnapshots
<1>7. Paging'
  BY <1>1, KeepPaging
<1>8. Listing'
  BY <1>1, KeepListing
<1>9. QED
  BY <1>2, <1>3, <1>4, <1>5, <1>6, <1>7, <1>8 DEF IInv

LEMMA StartStep == IInv /\ Start => IInv'
<1> SUFFICES ASSUME IInv, Start PROVE IInv'
  OBVIOUS
<1>1. TypeOK'
  BY SameScript DEF IInv, TypeOK, Start, shotVars, worldVars
<1>2. Ending'
  BY SameScript DEF IInv, Ending, TypeOK, Start, Gone
<1>3. QED
  BY <1>1, <1>2, ControlStep DEF Start, shotVars, worldVars

LEMMA FirstByteStep == IInv /\ FirstByte => IInv'
<1> SUFFICES ASSUME IInv, FirstByte PROVE IInv'
  OBVIOUS
<1>1. TypeOK'
  BY SameScript DEF IInv, TypeOK, FirstByte, shotVars, worldVars
<1>2. Ending'
  BY KeepEnding DEF IInv, FirstByte, Gone
<1>3. QED
  BY <1>1, <1>2, ControlStep DEF FirstByte, shotVars, worldVars

LEMMA GuardExpiresStep == IInv /\ GuardExpires => IInv'
<1> SUFFICES ASSUME IInv, GuardExpires PROVE IInv'
  OBVIOUS
<1>1. TypeOK'
  BY SameScript DEF IInv, TypeOK, GuardExpires, Raise, shotVars, worldVars
<1>2. Ending'
  BY SameScript DEF IInv, Ending, TypeOK, GuardExpires, Raise, Gone
<1>3. QED
  BY <1>1, <1>2, ControlStep DEF GuardExpires, Raise, shotVars, worldVars

LEMMA OutputEndsStep == IInv /\ OutputEnds => IInv'
<1> SUFFICES ASSUME IInv, OutputEnds PROVE IInv'
  OBVIOUS
<1>1. TypeOK'
  BY SameScript DEF IInv, TypeOK, OutputEnds, Raise, shotVars, worldVars
<1>2. Ending'
  BY SameScript DEF IInv, Ending, TypeOK, OutputEnds, Raise, Gone
<1>3. QED
  BY <1>1, <1>2, ControlStep DEF OutputEnds, Raise, shotVars, worldVars

LEMMA SessionOverStep == IInv /\ SessionOver => IInv'
<1> SUFFICES ASSUME IInv, SessionOver PROVE IInv'
  OBVIOUS
<1>1. TypeOK'
  BY SameScript DEF IInv, TypeOK, SessionOver, shotVars, worldVars
<1>2. step = Len(Session) + 1
  BY Bounds DEF IInv, SessionOver
<1>3. Ending'
  BY <1>2, KeepEnding DEF IInv, SessionOver, Gone
<1>4. QED
  BY <1>1, <1>3, ControlStep DEF SessionOver, shotVars, worldVars

LEMMA CloseInputStep == IInv /\ CloseInput => IInv'
<1> SUFFICES ASSUME IInv, CloseInput PROVE IInv'
  OBVIOUS
<1>0. /\ server'.state = server.state /\ server'.reply = server.reply /\ server'.code = server.code
      /\ DOMAIN server' = DOMAIN server
  BY DEF IInv, Replies, CloseInput
<1>1. TypeOK'
  BY <1>0, SameScript DEF IInv, TypeOK, CloseInput, shotVars, worldVars
<1>2. Ending'
  BY <1>0, SameScript DEF IInv, Ending, TypeOK, CloseInput, Gone
<1>3. QED
  BY <1>0, <1>1, <1>2, ControlStep DEF CloseInput, shotVars, worldVars

LEMMA WaitExpiresStep == IInv /\ WaitExpires => IInv'
<1> SUFFICES ASSUME IInv, WaitExpires PROVE IInv'
  OBVIOUS
<1>0. /\ server'.state = server.state /\ server'.reply = server.reply /\ server'.code = server.code
      /\ DOMAIN server' = DOMAIN server
  BY DEF IInv, Replies, WaitExpires
<1>1. TypeOK'
  BY <1>0, SameScript DEF IInv, TypeOK, WaitExpires, shotVars, worldVars
<1>2. Ending'
  BY <1>0, SameScript DEF IInv, Ending, TypeOK, WaitExpires, Gone
<1>3. QED
  BY <1>0, <1>1, <1>2, ControlStep DEF WaitExpires, shotVars, worldVars

LEMMA SecondWaitExpiresStep == IInv /\ SecondWaitExpires => IInv'
<1> SUFFICES ASSUME IInv, SecondWaitExpires PROVE IInv'
  OBVIOUS
<1>1. TypeOK'
  BY SameScript DEF IInv, TypeOK, SecondWaitExpires, shotVars, worldVars
<1>2. Ending'
  BY SameScript DEF IInv, Ending, TypeOK, SecondWaitExpires, Gone
<1>3. QED
  BY <1>1, <1>2, ControlStep DEF SecondWaitExpires, shotVars, worldVars

-----------------------------------------------------------------------------
(* Steps of the server.                                                    *)

(* What waits for the server; a request is no notification.                *)
LEMMA Queue ==
    ASSUME IInv
    PROVE  /\ Asked # Note => (Calling => Asked.id # 0)
           /\ Calling => Asked # Note /\ Asked.id = sequence /\ Asked.id # 0
           /\ inp = <<>> \/ inp = <<Note>> \/ (Calling /\ (inp = <<Asked>> \/ inp = <<Note, Asked>>))
<1>1. Asked.id = sequence /\ Note.id = 0
  BY DEF Asked, Note
<1>2. Calling => sequence # 0 /\ sequence \in Nat
  BY DEF IInv, TypeOK, Calling
<1>3. QED
  BY <1>1, <1>2 DEF IInv, Requests

(* The client and the library stay as they are.                            *)
LEMMA ServerStep ==
    ASSUME IInv,
           UNCHANGED <<script, recorded, step, at, raised, sequence, answer, page, listed, packet,
                       failures, status, shots, begun, mixed, lib>>,
           TypeOK', Requests', Replies', Quiet', Ending'
    PROVE  IInv'
<1>1. TypeOK /\ Library /\ Snapshots /\ Paging /\ Listing
  BY DEF IInv
<1>2. Library'
  BY <1>1, KeepLibrary, Bounds
<1>3. Snapshots'
  BY <1>1, KeepSnapshots
<1>4. Paging'
  BY <1>1, KeepPaging
<1>5. Listing'
  BY <1>1, KeepListing
<1>6. QED
  BY <1>2, <1>3, <1>4, <1>5 DEF IInv

LEMMA SayStep == IInv /\ Say => IInv'
<1> SUFFICES ASSUME IInv, Say PROVE IInv'
  OBVIOUS
<1>0. /\ server'.state = "writing" /\ server'.reply = server.reply /\ server'.code = server.code
      /\ DOMAIN server' = DOMAIN server
  BY DEF IInv, Replies, Say
<1>1. TypeOK'
  BY <1>0, SameScript DEF IInv, TypeOK, Say, clientVars, shotVars, worldVars
<1>2. Requests'
  BY KeepRequests DEF IInv, Requests, Say, clientVars, shotVars, worldVars
<1>3. Replies'
  BY <1>0, SameScript, SameRequest DEF IInv, Replies, Say, clientVars, shotVars, worldVars
<1>4. Quiet'
  BY DEF IInv, Quiet, Say, clientVars
<1>5. Ending'
  BY <1>0, KeepEnding DEF IInv, Say, Gone, clientVars, Ending
<1>6. QED
  BY <1>1, <1>2, <1>3, <1>4, <1>5, ServerStep DEF Say, clientVars, shotVars, worldVars

LEMMA SaidStep == IInv /\ Said => IInv'
<1> SUFFICES ASSUME IInv, Said PROVE IInv'
  OBVIOUS
<1>0. /\ server'.state = "idle" /\ server'.code = server.code /\ DOMAIN server' = DOMAIN server
  BY DEF IInv, Replies, Said
<1>a. out = <<>> /\ inp = <<>> /\ Calling
  BY DEF IInv, Replies, Said
<1>b. out' = <<server.reply>> /\ out'[1] = server.reply /\ Len(out') = 1
  BY <1>a DEF Said
<1>1. TypeOK'
  BY <1>0, <1>b, SameScript DEF IInv, TypeOK, Said, clientVars, shotVars, worldVars
<1>2. Requests'
  BY KeepRequests DEF IInv, Requests, Said, clientVars, shotVars, worldVars
<1>3. Replies'
  BY <1>0, <1>a, <1>b, SameScript, SameRequest
     DEF IInv, Replies, Said, clientVars, shotVars, worldVars
<1>4. Quiet'
  BY DEF IInv, Quiet, Said, clientVars
<1>5. Ending'
  BY <1>0, KeepEnding DEF IInv, Said, Gone, clientVars, Ending
<1>6. QED
  BY <1>1, <1>2, <1>3, <1>4, <1>5, ServerStep DEF Said, clientVars, shotVars, worldVars

(* The server is gone, or stays where it is; what it was asked is lost.    *)
LEMMA StopStep ==
    ASSUME IInv,
           UNCHANGED <<script, recorded, step, at, raised, sequence, answer, page, listed, packet,
                       failures, status, shots, begun, mixed, lib, out>>,
           inp' \in {inp, <<>>}, ~Gone, DOMAIN server' = DOMAIN server,
           server'.reply = server.reply,
           \/ server'.state = "gone"
           \/ server'.state = "hung" /\ server.state \in {"idle", "answering"}
           \/ server'.state = "stalled" /\ server.state = "writing",
           server'.state = "hung" /\ at \in {"start", "step"} => server.state = "idle"
    PROVE  IInv'
<1>1. TypeOK'
  BY SameScript DEF IInv, TypeOK
<1>2. Requests'
  <2>1. CASE inp' = inp
    BY <2>1, KeepRequests DEF IInv, Requests
  <2>2. CASE inp' = <<>>
    BY <2>2, SameScript, SameRequest DEF IInv, Requests
  <2>3. QED
    BY <2>1, <2>2
<1>3. Replies'
  BY SameScript, SameRequest DEF IInv, Replies
<1>4. Quiet'
  BY DEF IInv, Quiet, Note
<1>5. Ending'
  BY KeepEnding DEF IInv, Gone, Ending
<1>6. QED
  BY <1>1, <1>2, <1>3, <1>4, <1>5, ServerStep

LEMMA ServerEndsStep == IInv /\ ServerEnds => IInv'
<1> SUFFICES ASSUME IInv, ServerEnds PROVE IInv'
  OBVIOUS
<1>1. server'.state = "gone" /\ server'.reply = server.reply /\ DOMAIN server' = DOMAIN server
  BY DEF IInv, Replies, ServerEnds
<1>2. QED
  BY <1>1, StopStep DEF ServerEnds, Gone, clientVars, shotVars, worldVars

LEMMA TerminatedStep == IInv /\ Terminated => IInv'
<1> SUFFICES ASSUME IInv, Terminated PROVE IInv'
  OBVIOUS
<1>1. server'.state = "gone" /\ server'.reply = server.reply /\ DOMAIN server' = DOMAIN server
  BY DEF IInv, Replies, Terminated
<1>2. QED
  BY <1>1, StopStep DEF Terminated, clientVars, shotVars, worldVars

LEMMA CrashStep == IInv /\ Crash => IInv'
<1> SUFFICES ASSUME IInv, Crash PROVE IInv'
  OBVIOUS
<1>1. server'.state = "gone" /\ server'.reply = server.reply /\ DOMAIN server' = DOMAIN server
  BY DEF IInv, Replies, Crash
<1>2. QED
  BY <1>1, StopStep DEF Crash, clientVars, shotVars, worldVars

LEMMA HangStep == IInv /\ Hang => IInv'
<1> SUFFICES ASSUME IInv, Hang PROVE IInv'
  OBVIOUS
<1>1. /\ server'.reply = server.reply /\ DOMAIN server' = DOMAIN server
      /\ server'.state = IF server.state = "writing" THEN "stalled" ELSE "hung"
  BY DEF IInv, Replies, Hang
<1>2. server'.state = "hung" /\ at \in {"start", "step"} => server.state = "idle"
  BY <1>1 DEF IInv, Quiet, Hang
<1>3. QED
  BY <1>1, <1>2, StopStep DEF Hang, Gone, clientVars, shotVars, worldVars

-----------------------------------------------------------------------------
(* Steps that change the library.                                          *)

(* The library after another transaction. *)
Later == 
    /\ lib' \in Views /\ lib'.commits = lib.commits + 1
    /\ lib.rows \subseteq lib'.rows /\ lib.closed \subseteq lib'.closed
    /\ lib'.rows \subseteq Sources /\ lib'.closed \subseteq lib'.rows

LEMMA LibraryGrows ==
    ASSUME Library, Later, UNCHANGED <<script, step, shots, begun, mixed>>
    PROVE  Library' /\ Grown
<1>1. lib.commits \in Nat /\ begun.commits \in Nat
  BY DEF Library, Views
<1>2. Since(lib', begun)
  BY <1>1 DEF Library, Later, Since
<1>3. lib.commits > begun.commits => lib'.commits > begun.commits
  BY <1>1 DEF Later
<1>4. Library'
  BY <1>2, <1>3, SameScript DEF Library, Later, Since
<1>5. QED
  BY <1>1, <1>4 DEF Grown, Later

LEMMA Commits ==
    ASSUME NEW l \in Views, NEW m \in Views, m.commits = l.commits, l.rows \subseteq m.rows,
           l.closed \subseteq m.closed, m.closed \subseteq m.rows, lib = l, lib' = Commit(m)
    PROVE  Later
<1>1. /\ Commit(m) \in Views /\ Commit(m).commits = m.commits + 1
      /\ Commit(m).rows = m.rows /\ Commit(m).closed = m.closed
  BY DEF Commit, Views
<1>2. m.rows \subseteq Sources
  BY DEF Views
<1>3. QED
  BY <1>1, <1>2 DEF Later

LEMMA OtherWritesStep == IInv /\ OtherWrites => IInv'
<1> SUFFICES ASSUME IInv, OtherWrites PROVE IInv'
  OBVIOUS
<1>1. lib \in Views /\ lib.closed \subseteq lib.rows /\ lib.rows \subseteq Sources
  BY DEF IInv, Library, TypeOK
<1>2. PICK l \in Committed : lib' = Commit(l)
  BY DEF OtherWrites
<1>3. /\ l \in Views /\ l.commits = lib.commits /\ lib.rows \subseteq l.rows
      /\ lib.closed \subseteq l.closed /\ l.closed \subseteq l.rows
  <2>1. CASE \E s \in Sources \ lib.rows : l = [lib EXCEPT !.gen = @ + 1, !.rows = @ \cup {s}]
    <3>1. PICK s \in Sources : l = [lib EXCEPT !.gen = @ + 1, !.rows = @ \cup {s}]
      BY <2>1
    <3>2. PICK set \in SUBSET Sources : set = lib.rows \cup {s}
      BY <1>1
    <3>3. PICK gen \in Nat : gen = lib.gen + 1
      BY <1>1 DEF Views
    <3>4. l = [lib EXCEPT !.gen = gen, !.rows = set]
      BY <3>1, <3>2, <3>3
    <3>5. l \in Views /\ l.commits = lib.commits /\ l.rows = set /\ l.closed = lib.closed
      BY <3>4, <1>1 DEF Views
    <3>6. QED
      BY <3>2, <3>5, <1>1
  <2>2. CASE \E s \in Open(lib) : l = [lib EXCEPT !.gen = @ + 1, !.closed = @ \cup {s}]
    <3>1. PICK s \in lib.rows : l = [lib EXCEPT !.gen = @ + 1, !.closed = @ \cup {s}]
      BY <2>2 DEF Open
    <3>2. PICK set \in SUBSET Sources : set = lib.closed \cup {s}
      BY <1>1
    <3>3. PICK gen \in Nat : gen = lib.gen + 1
      BY <1>1 DEF Views
    <3>4. l = [lib EXCEPT !.gen = gen, !.closed = set]
      BY <3>1, <3>2, <3>3
    <3>5. l \in Views /\ l.commits = lib.commits /\ l.closed = set /\ l.rows = lib.rows
      BY <3>4, <1>1 DEF Views
    <3>6. QED
      BY <3>2, <3>5, <1>1
  <2>3. CASE l = [lib EXCEPT !.runs = @ + 1]
    BY <2>3, <1>1 DEF Views
  <2>4. CASE l = [lib EXCEPT !.other = @ + 1]
    BY <2>4, <1>1 DEF Views
  <2>5. QED
    BY <2>1, <2>2, <2>3, <2>4, <1>2 DEF Committed
<1>4. Later
  BY <1>1, <1>2, <1>3, Commits
<1>5. Library' /\ Grown
  BY <1>4, LibraryGrows DEF IInv, OtherWrites, clientVars, shotVars
<1>6. TypeOK'
  BY <1>4, SameScript DEF IInv, TypeOK, Later, OtherWrites, clientVars, shotVars
<1>7. Requests'
  BY KeepRequests DEF IInv, Requests, OtherWrites, clientVars, shotVars
<1>8. Replies'
  BY <1>1, <1>4, <1>5, KeepReplies DEF IInv, Library, Later, OtherWrites, clientVars, shotVars
<1>9. Quiet'
  BY KeepQuiet DEF IInv, OtherWrites, clientVars, shotVars
<1>10. Snapshots'
  BY KeepSnapshots DEF IInv, OtherWrites, clientVars, shotVars
<1>11. Paging'
  BY <1>5, KeepPaging DEF IInv, OtherWrites, clientVars, shotVars, Grown
<1>12. Listing'
  BY <1>5, KeepListing DEF IInv, OtherWrites, clientVars, shotVars, Grown
<1>13. Ending'
  BY KeepEnding DEF IInv, Ending, OtherWrites, clientVars, shotVars, Gone
<1>14. QED
  BY <1>5, <1>6, <1>7, <1>8, <1>9, <1>10, <1>11, <1>12, <1>13 DEF IInv

LEMMA AnswerFits ==
    ASSUME NEW a \in Answers(Asked), Library, lib' \in Views,
           lib'.commits >= lib.commits, lib'.closed = lib.closed
    PROVE  Fits(a, Checking, Asked, begun, lib')
<1>1. PICK f \in BOOLEAN :
        a = [id |-> Asked.id, tool |-> Asked.tool, failed |-> f, view |-> lib,
             items |-> IF f THEN <<>> ELSE Content(lib, Asked).items,
             next  |-> IF f THEN 0 ELSE Content(lib, Asked).next]
  <2>1. (CASE Denied(Asked.tool)   -> {TRUE}
           [] Protocol(Asked.tool) -> {FALSE}
           [] OTHER                  -> BOOLEAN) \subseteq BOOLEAN
    OBVIOUS
  <2>2. QED
    BY <2>1 DEF Answers
<1>2. Checking /\ Asked.tool = "sources" =>
        Content(lib, Asked) = Page(Open(lib), Asked.cursor)
  BY DEF Content
<1>3. Asked.tool = "citation" => Content(lib, Asked) = Page(1..Span, Asked.cursor)
  BY DEF Content
<1>4. /\ a.id = Asked.id /\ a.tool = Asked.tool /\ a.failed = f /\ a.view = lib
      /\ a.items = (IF f THEN <<>> ELSE Content(lib, Asked).items)
      /\ a.next = IF f THEN 0 ELSE Content(lib, Asked).next
  BY <1>1
<1>5. Since(a.view, begun)
  BY <1>4 DEF Library
<1>6. a.view.commits <= lib'.commits /\ a.view.closed \subseteq lib'.closed
  BY <1>4 DEF Library, Views
<1> HIDE DEF Asked
<1>7. QED
  BY <1>2, <1>3, <1>4, <1>5, <1>6 DEF Fits

LEMMA Ends ==
    \A a, b : /\ Head(<<a>>) = a /\ Tail(<<a>>) = <<>>
              /\ Head(<<a, b>>) = a /\ Tail(<<a, b>>) = <<b>>
<1> SUFFICES ASSUME NEW a, NEW b
             PROVE  /\ Head(<<a>>) = a /\ Tail(<<a>>) = <<>>
                    /\ Head(<<a, b>>) = a /\ Tail(<<a, b>>) = <<b>>
  OBVIOUS
<1>1. <<a>> \in Seq({a, b}) /\ <<a, b>> \in Seq({a, b})
  OBVIOUS
<1>2. Head(<<a>>) = a /\ Head(<<a, b>>) = a
  BY <1>1
<1>3. Tail(<<a>>) = <<>>
  BY <1>1
<1>4. Tail(<<a, b>>) = <<b>>
  BY <1>1
<1>5. QED
  BY <1>2, <1>3, <1>4

LEMMA DispatchStep == IInv /\ Dispatch => IInv'
<1> SUFFICES ASSUME IInv, Dispatch PROVE IInv'
  OBVIOUS
<1>0. UNCHANGED <<script, recorded, step, at, raised, sequence, answer, page, listed, packet,
                  failures, status, shots, begun, mixed, out>>
  BY DEF Dispatch, clientVars, shotVars
<1>1. lib \in Views /\ lib.closed \subseteq lib.rows /\ lib.rows \subseteq Sources
  BY DEF IInv, Library, TypeOK
<1>2. out = <<>>
  BY DEF IInv, Replies, Dispatch
<1>3. CASE Head(inp).id = 0
  <2>1. UNCHANGED <<server, lib>>
    BY <1>3 DEF Dispatch
  <2>2. inp = <<Note>> \/ (Calling /\ inp = <<Note, Asked>>)
    <3>1. inp = <<Asked>> => Head(inp).id = Asked.id
      BY Ends
    <3>2. QED
      BY <1>3, <3>1, Queue DEF Dispatch
  <2>3. inp' = <<>> \/ (Calling /\ inp' = <<Asked>>)
    <3>1. inp' = Tail(inp)
      BY DEF Dispatch
    <3>2. Tail(<<Note>>) = <<>> /\ Tail(<<Note, Asked>>) = <<Asked>>
      BY Ends
    <3>3. QED
      BY <2>2, <3>1, <3>2
  <2>4. at \in {"start", "step"} => inp' = <<>>
    <3>1. at \in {"start", "step"} => inp = <<Note>>
      BY DEF IInv, Quiet, Dispatch
    <3>2. QED
      BY <3>1, Ends DEF Dispatch
  <2>5. Requests'
    <3>1. <<Asked>>[1] = Asked /\ Note' = Note
      BY DEF Note
    <3>2. inp' # <<>> /\ inp'[1] = Note => FALSE
      BY <2>3, <3>1, Queue
    <3>3. at' \in {"sent", "reading"} => Calling'
      BY <1>0, SameRequest DEF IInv, Requests
    <3>4. inp' = <<>> \/ (Calling' /\ inp' = <<Asked>>')
      BY <1>0, <2>3, SameRequest
    <3>5. QED
      BY <3>1, <3>2, <3>3, <3>4 DEF Requests
  <2>6. Replies'
    BY <1>0, <1>2, <2>1, SameRequest DEF IInv, Replies, Dispatch
  <2>7. Quiet'
    BY <1>0, <2>1, <2>4 DEF IInv, Quiet
  <2>8. Ending'
    BY <1>0, <2>1, KeepEnding DEF IInv, Gone, Ending
  <2>9. TypeOK'
    <3>1. Len(inp') <= 2
      BY <2>3
    <3>2. QED
      BY <1>0, <2>1, <3>1, SameScript DEF IInv, TypeOK
  <2>10. QED
    BY <1>0, <2>1, <2>5, <2>6, <2>7, <2>8, <2>9, ServerStep
<1>4. CASE Head(inp).id # 0
  <2>1. inp = <<Asked>> /\ Calling
    <3>1. Head(<<Note>>).id = 0 /\ Head(<<Note, Asked>>).id = 0
      <4>1. Head(<<Note>>) = Note /\ Head(<<Note, Asked>>) = Note
        BY Ends
      <4>2. Note.id = 0
        BY DEF Note
      <4>3. QED
        BY <4>1, <4>2
    <3>2. QED
      BY <1>4, <3>1, Queue DEF Dispatch
  <2>2. inp' = <<>> /\ Head(inp) = Asked
    BY <2>1, Ends DEF Dispatch
  <2>3. PICK a \in Answers(Asked) :
          /\ server' = [server EXCEPT !.state = "answering", !.reply = a]
          /\ lib' = IF a.tool = "path" /\ ~a.failed
                    THEN Commit([lib EXCEPT !.gaps = @ + 1]) ELSE lib
    BY <1>4, <2>2 DEF Dispatch
  <2>4. Library' /\ Grown /\ lib' \in Views /\ lib'.closed = lib.closed
        /\ lib'.rows \subseteq Sources /\ lib'.closed \subseteq lib'.rows
    <3>1. CASE lib' = lib
      <4>1. Library'
        BY <1>0, <3>1, KeepLibrary, Bounds DEF IInv
      <4>2. QED
        BY <4>1, <3>1, <1>1 DEF Grown, Views
    <3>2. CASE lib' = Commit([lib EXCEPT !.gaps = @ + 1])
      <4>1. /\ [lib EXCEPT !.gaps = @ + 1] \in Views
            /\ [lib EXCEPT !.gaps = @ + 1].commits = lib.commits
            /\ [lib EXCEPT !.gaps = @ + 1].rows = lib.rows
            /\ [lib EXCEPT !.gaps = @ + 1].closed = lib.closed
        BY <1>1 DEF Views
      <4>2. Later
        BY <4>1, <3>2, <1>1, Commits
      <4>3. lib'.closed = lib.closed
        BY <4>1, <3>2 DEF Commit, Views
      <4>4. QED
        BY <4>2, <4>3, <1>0, LibraryGrows DEF Later, IInv
    <3>3. QED
      BY <3>1, <3>2, <2>3
  <2>5. Fits(a, Checking, Asked, begun, lib')
    BY <2>4, AnswerFits DEF Grown, IInv
  <2>6. server'.state = "answering" /\ server'.reply = a /\ server'.code = server.code
        /\ DOMAIN server' = DOMAIN server
    BY <2>3 DEF IInv, Replies
  <2>7. Requests'
    BY <1>0, <2>1, <2>2, SameScript, SameRequest DEF IInv, Requests
  <2>8. Replies'
    BY <1>0, <1>2, <2>1, <2>2, <2>5, <2>6, SameScript, SameRequest DEF IInv, Replies
  <2>9. at \notin {"start", "step"}
    BY <2>1, Queue DEF IInv, Quiet
  <2>10. Quiet'
    BY <1>0, <2>9 DEF Quiet
  <2>11. Snapshots'
    BY <1>0, KeepSnapshots DEF IInv
  <2>12. Paging'
    BY <1>0, <2>4, KeepPaging DEF IInv
  <2>13. Listing'
    BY <1>0, <2>4, KeepListing DEF IInv
  <2>14. Ending'
    BY <1>0, <2>6, KeepEnding DEF IInv, Gone, Ending, Dispatch
  <2>15. TypeOK'
    <3>1. Len(inp') <= 2
      BY <2>2
    <3>2. QED
      BY <1>0, <2>4, <2>6, <3>1, SameScript DEF IInv, TypeOK
  <2>16. QED
    BY <2>4, <2>7, <2>8, <2>10, <2>11, <2>12, <2>13, <2>14, <2>15 DEF IInv
<1>5. QED
  BY <1>3, <1>4

-----------------------------------------------------------------------------
(* Steps of the client along its script.                                   *)

(* Everything a check can find.                                            *)
Checks == {"id", "outcome", "generation", "repeat", "pages", "evidence", "readonly", "after",
           "exit", "written"}

(* Between two listings. *)
LEMMA NoPage ==
    ASSUME page' = Empty, at' \notin {"sent", "reading"}, begun' \in Views
    PROVE  Paging'
<1>1. /\ Empty.got = <<>> /\ Empty.cursor = 0 /\ Empty \in [got : Seq(Nat), seen : SUBSET Nat, cursor : Nat]
  BY DEF Empty
<1>2. Ascending(<<>>) /\ Range(<<>>) = {} /\ DOMAIN <<>> = {}
  BY DEF Ascending, Range
<1>3. \A s \in Sources : ~(s <= 0)
  BY McpAssumption
<1>4. Known \subseteq Sources /\ Open(begun') \subseteq Sources
  BY McpAssumption DEF Open, Views
<1>5. Empty' = Empty
  BY DEF Empty
<1>6. Open(begun)' = Open(begun')
  BY DEF Open
<1>7. QED
  BY <1>1, <1>2, <1>3, <1>4, <1>5, <1>6 DEF Paging

(* The next step of the script, nothing being listed.                      *)
LEMMA ProceedStep ==
    ASSUME IInv, at = "step", step <= Len(Session), Proceed,
           UNCHANGED <<script, recorded, raised, sequence, answer, page, listed, packet, status,
                       out, server, lib, mixed>>,
           page = Empty, failures \subseteq failures', failures' \subseteq Checks,
           inp' = <<>> \/ inp' = <<Note>>,
           inp' # <<>> => \E k \in DOMAIN Session : k <= step /\ Session[k].do = "notify",
           step = 10 => ~Checking,
           step >= 10 /\ Checking => begun' = begun,
           Library', Snapshots'
    PROVE  IInv'
<1>1. TypeOK /\ Scripted /\ step \in Nat /\ Len(Session) \in Nat /\ step' = step + 1 /\ at' = "step"
  BY Bounds DEF IInv, Proceed
<1>2. TypeOK'
  <2>1. Len(inp') <= 2
    <3>1. CASE inp' = <<>>
      BY ONLY <3>1
    <3>2. CASE inp' = <<Note>>
      BY ONLY <3>2
    <3>3. QED
      BY <3>1, <3>2
  <2>2. step' \in 1..(Len(Session) + 1)
    BY <1>1
  <2>3. QED
    BY <1>1, <2>1, <2>2, SameScript DEF TypeOK, Checks
<1>3. Requests'
  <2>1. \A k \in DOMAIN Session : k <= step => k < step'
    BY <1>1 DEF Scripted
  <2>2. Note' = Note
    BY DEF Note
  <2>3. QED
    BY <1>1, <2>1, <2>2, SameScript DEF Requests
<1>4. out' = <<>> /\ server'.state \in {"idle", "hung", "gone"}
  BY DEF IInv, Quiet
<1>5. Replies'
  BY <1>4 DEF IInv, Replies
<1>6. Quiet'
  <2>1. Note' = Note
    BY DEF Note
  <2>2. QED
    BY <1>4, <2>1 DEF Quiet
<1>7. Paging'
  BY <1>1, NoPage DEF Library
<1>8. Listing'
  <2>1. Listing
    BY DEF IInv
  <2>2. ~Checking \/ step' <= 10 => ~Checking \/ step <= 10
    BY <1>1
  <2>3. Checking /\ step' > 10 => step > 10 /\ begun' = begun
    BY <1>1
  <2>4. QED
    BY <2>1, <2>2, <2>3, SameScript DEF Listing, Open
<1>9. Ending'
  BY <1>1 DEF Ending, TypeOK
<1>10. QED
  BY <1>2, <1>3, <1>5, <1>6, <1>7, <1>8, <1>9 DEF IInv

(* An exception leads to the end of the session.                           *)
LEMMA RaiseStep ==
    ASSUME IInv, at = "step", at' = "closing", raised' \in {"yes", "pipe"},
           UNCHANGED <<script, recorded, step, answer, page, listed, packet, status, shots, begun,
                       inp, out, server, lib, mixed>>,
           sequence' \in {sequence, sequence + 1},
           failures \subseteq failures', failures' \subseteq Checks
    PROVE  IInv'
<1>1. TypeOK /\ sequence \in Nat /\ (Calling => Calling') /\ Now' = Now
  BY SameScript DEF IInv, TypeOK, Calling, Now
<1>2. TypeOK'
  BY <1>1, SameScript DEF TypeOK, Checks
<1>3. Requests'
  BY <1>1, SameScript DEF IInv, Requests, Quiet, Note
<1>4. Replies'
  BY DEF IInv, Replies, Quiet
<1>5. Quiet'
  BY DEF Quiet
<1>6. Library'
  BY Bounds, KeepLibrary DEF IInv
<1>7. Snapshots'
  BY KeepSnapshots DEF IInv
<1>8. Paging'
  BY <1>1, SameScript DEF IInv, Paging, Evidence, Open, Empty, NoView
<1>9. Listing'
  BY KeepListing DEF IInv
<1>10. Ending'
  BY <1>1 DEF Ending, TypeOK
<1>11. QED
  BY <1>2, <1>3, <1>4, <1>5, <1>6, <1>7, <1>8, <1>9, <1>10 DEF IInv

(* The step that follows one that neither reads nor compares.              *)
LEMMA SnapshotsStay ==
    ASSUME Snapshots, TypeOK, step \in DOMAIN Session, Now.do \notin {"read", "compare"},
           UNCHANGED <<script, shots, begun>>, step' \in {step, step + 1}, failures \subseteq failures'
    PROVE  Snapshots'
<1>1. Scripted /\ step \in Nat /\ DOMAIN Session = 1..Len(Session)
  BY Bounds
<1>2. CASE step' = step
  BY <1>2, KeepSnapshots
<1>3. CASE step' = step + 1
  <2>1. ASSUME NEW k \in DOMAIN Session, Session[k] = Read("version", "before"), k < step'
        PROVE  k < step
    <3>1. Session[k].do = "read"
      BY <2>1, Doing
    <3>2. k # step
      BY <3>1 DEF Now
    <3>3. QED
      BY <3>2, <2>1, <1>1, <1>3
  <2>2. Checking => Verdict \in Nat /\ step # Verdict /\ step # Verdict - 1
    <3>1. Checking => Session[Verdict].do = "compare" /\ Verdict \in DOMAIN Session
      BY <1>1, Doing DEF Scripted
    <3>2. Checking /\ step = Verdict - 1 => Session[step].do = "read"
      BY <1>1 DEF Scripted
    <3>3. QED
      BY <1>1, <3>1, <3>2 DEF Now
  <2>3. Checking => (step' >= Verdict <=> step >= Verdict) /\ (step' > Verdict => step > Verdict)
    BY <1>1, <1>3, <2>2
  <2>4. QED
    BY <2>1, <2>3, SameScript DEF Snapshots
<1>4. QED
  BY <1>2, <1>3

(* Where nothing can be listed. *)
LEMMA Unpaged ==
    ASSUME IInv, step <= Len(Session), Now.do # "call" PROVE page = Empty /\ (step = 10 => ~Checking)
<1>1. Scripted /\ step \in DOMAIN Session
  BY Bounds DEF IInv, TypeOK
<1>2. page = Empty
  BY DEF IInv, Paging, Calling
<1>3. Checking => Session[10].do = "call"
  BY <1>1, Doing DEF Scripted
<1>4. QED
  BY <1>2, <1>3 DEF Now

LEMMA ReadRecordedStep == IInv /\ ReadRecorded => IInv'
<1> SUFFICES ASSUME IInv, ReadRecorded PROVE IInv'
  OBVIOUS
<1>0. UNCHANGED <<script, recorded, sequence, answer, page, listed, packet, failures, status,
                  shots, begun, inp, out, server, mixed, lib>>
  BY DEF ReadRecorded, shotVars, worldVars
<1>1. failures' \subseteq Checks /\ at = "step" /\ step <= Len(Session) /\ step \in DOMAIN Session
  BY <1>0, Bounds DEF IInv, TypeOK, Checks, ReadRecorded
<1>2. CASE Raise("yes") /\ UNCHANGED step
  BY <1>0, <1>1, <1>2, RaiseStep DEF Raise
<1>3. CASE Proceed /\ UNCHANGED raised
  <2>1. Now.do = "recall"
    BY DEF ReadRecorded
  <2>2. step \in Nat /\ step' = step + 1
    BY <1>3, Bounds DEF IInv, Proceed
  <2>3. Library'
    BY <1>0, <2>2, Bounds, KeepLibrary DEF IInv
  <2>4. Snapshots'
    BY <1>0, <1>1, <2>1, <2>2, SnapshotsStay DEF IInv
  <2>5. inp' = <<>> \/ inp' = <<Note>>
    BY <1>0, <1>1 DEF IInv, Quiet
  <2>6. inp' # <<>> => \E k \in DOMAIN Session : k <= step /\ Session[k].do = "notify"
    BY <1>0, <2>2, <2>5, Bounds DEF IInv, Requests
  <2>7. QED
    BY <1>0, <1>1, <1>3, <2>1, <2>3, <2>4, <2>5, <2>6, Unpaged, ProceedStep
<1>4. QED
  BY <1>2, <1>3 DEF ReadRecorded

LEMMA SendNotificationStep == IInv /\ SendNotification => IInv'
<1> SUFFICES ASSUME IInv, SendNotification PROVE IInv'
  OBVIOUS
<1>0. UNCHANGED <<script, recorded, sequence, answer, page, listed, packet, failures, status,
                  shots, begun, out, server, mixed, lib, raised>> \/ Gone
  BY DEF SendNotification, shotVars, worldVars
<1>1. failures \subseteq Checks /\ at = "step" /\ step <= Len(Session) /\ step \in DOMAIN Session
  <2>1. at = "step" /\ step <= Len(Session)
    BY DEF SendNotification
  <2>2. QED
    BY <2>1, Bounds DEF IInv, TypeOK, Checks
<1>2. CASE Gone
  BY <1>1, <1>2, RaiseStep DEF Raise, SendNotification, shotVars, worldVars
<1>3. CASE ~Gone
  <2>1. Now.do = "notify" /\ inp' = Append(inp, Note) /\ Proceed
    BY <1>3 DEF SendNotification, Note
  <2>2. step \in Nat /\ step' = step + 1 /\ Scripted
    BY <2>1, Bounds DEF IInv, Proceed
  <2>3. Library'
    BY <1>0, <1>3, <2>2, KeepLibrary DEF IInv
  <2>4. Snapshots'
    BY <1>0, <1>1, <1>3, <2>1, <2>2, SnapshotsStay DEF IInv
  <2>5. inp = <<>>
    <3>1. inp = <<>> \/ inp = <<Note>>
      BY <1>1 DEF IInv, Quiet
    <3>2. inp = <<Note>> => \E k \in DOMAIN Session : k < step /\ Session[k].do = "notify"
      BY DEF IInv, Requests
    <3>3. \A k \in DOMAIN Session : Session[k].do = "notify" => k = step
      BY <1>1, <2>1, <2>2 DEF Scripted, Now
    <3>4. QED
      BY <2>2, <3>1, <3>2, <3>3
  <2>6. inp' = <<Note>>
    BY <2>1, <2>5
  <2>7. \E k \in DOMAIN Session : k <= step /\ Session[k].do = "notify"
    BY <1>1, <2>1, <2>2 DEF Now
  <2>8. QED
    BY <1>0, <1>1, <1>3, <2>1, <2>3, <2>4, <2>6, <2>7, Unpaged, ProceedStep
<1>4. QED
  BY <1>2, <1>3

LEMMA NothingToCiteStep == IInv /\ NothingToCite => IInv'
<1> SUFFICES ASSUME IInv, NothingToCite PROVE IInv'
  OBVIOUS
<1>0. UNCHANGED <<script, recorded, sequence, answer, page, listed, packet, status,
                  shots, begun, inp, out, server, mixed, lib>>
  BY DEF NothingToCite, shotVars, worldVars
<1>1. /\ failures \subseteq failures' /\ failures' \subseteq Checks
      /\ at = "step" /\ step <= Len(Session) /\ step \in DOMAIN Session
  BY <1>0, Bounds DEF IInv, TypeOK, Checks, NothingToCite
<1>2. CASE Raise("yes") /\ UNCHANGED step
  BY <1>0, <1>1, <1>2, RaiseStep DEF Raise
<1>3. CASE Proceed /\ UNCHANGED raised
  <2>1. Now.do = "call" /\ Now.on \in {"cite", "citation"} /\ ~Evidence /\ script # "followups"
    BY DEF NothingToCite
  <2>2. step \in Nat /\ step' = step + 1 /\ Scripted
    BY <1>3, Bounds DEF IInv, Proceed
  <2>3. Library'
    BY <1>0, <2>2, KeepLibrary DEF IInv
  <2>4. Snapshots'
    BY <1>0, <1>1, <2>1, <2>2, SnapshotsStay DEF IInv
  <2>5. inp' = <<>> \/ inp' = <<Note>>
    BY <1>0, <1>1 DEF IInv, Quiet
  <2>6. inp' # <<>> => \E k \in DOMAIN Session : k <= step /\ Session[k].do = "notify"
    BY <1>0, <2>2, <2>5, Bounds DEF IInv, Requests
  <2>7. page = Empty
    BY <2>1 DEF IInv, Paging
  <2>8. step = 10 => ~Checking
    BY <2>1, <2>2, Doing DEF Scripted, Now
  <2>9. QED
    BY <1>0, <1>1, <1>3, <2>3, <2>4, <2>5, <2>6, <2>7, <2>8, ProceedStep
<1>4. QED
  BY <1>2, <1>3 DEF NothingToCite

LEMMA CompareSnapshotsStep == IInv /\ CompareSnapshots => IInv'
<1> SUFFICES ASSUME IInv, CompareSnapshots PROVE IInv'
  OBVIOUS
<1>0. UNCHANGED <<script, recorded, raised, sequence, answer, page, listed, packet, status,
                  shots, begun, inp, out, server, mixed, lib>>
  BY DEF CompareSnapshots, shotVars, worldVars
<1>1. /\ at = "step" /\ step <= Len(Session) /\ step \in DOMAIN Session /\ Now.do = "compare"
      /\ Proceed /\ step \in Nat /\ step' = step + 1 /\ Scripted
  <2>1. at = "step" /\ step <= Len(Session) /\ Now.do = "compare" /\ Proceed
    BY DEF CompareSnapshots
  <2>2. QED
    BY <2>1, Bounds DEF IInv, TypeOK, Proceed
<1>2. failures \subseteq failures' /\ failures' \subseteq Checks
  <2>1. Now.on \in {"readonly", "after"}
    BY <1>1 DEF Scripted, Now
  <2>2. failures' = failures \/ failures' = failures \cup {Now.on}
    BY DEF CompareSnapshots
  <2>3. QED
    BY <2>1, <2>2 DEF IInv, TypeOK, Checks
<1>3. Library'
  BY <1>0, <1>1, KeepLibrary DEF IInv
<1>4. Snapshots'
  <2>1. ASSUME NEW k \in DOMAIN Session, Session[k] = Read("version", "before"), k < step'
        PROVE  k < step
    <3>1. Session[k].do = "read"
      BY <2>1, Doing
    <3>2. k # step
      BY <1>1, <3>1 DEF Now
    <3>3. QED
      BY <3>2, <2>1, <1>1, Bounds DEF IInv
  <2>2. ASSUME Checking PROVE Verdict \in Nat /\ step # Verdict - 1
    <3>1. Verdict \in Nat /\ (step = Verdict - 1 => Session[step].do = "read")
      BY <1>1, <2>2, Bounds DEF Scripted, IInv
    <3>2. QED
      BY <1>1, <3>1 DEF Now
  <2>3. ASSUME Checking, step' > Verdict, "readonly" \notin failures'
        PROVE  shots["before"] = shots["readonly"]
    <3>1. CASE step > Verdict
      BY <1>2, <2>3, <3>1 DEF IInv, Snapshots
    <3>2. CASE step = Verdict
      <4>1. Now = Compare("readonly")
        BY <1>1, <2>3, <3>2 DEF Scripted, Now
      <4>2. Now.on = "readonly"
        BY <4>1, Doing
      <4>3. SameLibrary(shots.before, shots.readonly)
        BY <2>3, <4>2 DEF CompareSnapshots
      <4>4. QED
        BY <4>3 DEF SameLibrary
    <3>3. QED
      BY <2>2, <2>3, <1>1, <3>1, <3>2
  <2>4. Checking => (step' >= Verdict <=> step >= Verdict)
    BY <2>2, <1>1
  <2>5. QED
    BY <1>0, <2>1, <2>3, <2>4, SameScript DEF IInv, Snapshots
<1>5. inp' = <<>> \/ inp' = <<Note>>
  BY <1>0, <1>1 DEF IInv, Quiet
<1>6. inp' # <<>> => \E k \in DOMAIN Session : k <= step /\ Session[k].do = "notify"
  BY <1>0, <1>1, <1>5, Bounds DEF IInv, Requests
<1>7. QED
  BY <1>0, <1>1, <1>2, <1>3, <1>4, <1>5, <1>6, Unpaged, ProceedStep

LEMMA ReadSnapshotStep == IInv /\ ReadSnapshot => IInv'
<1> SUFFICES ASSUME IInv, ReadSnapshot PROVE IInv'
  OBVIOUS
<1>0. UNCHANGED <<script, recorded, raised, sequence, answer, page, listed, packet, status,
                  failures, inp, out, server, mixed, lib>>
  BY DEF ReadSnapshot, worldVars
<1>1. /\ at = "step" /\ step <= Len(Session) /\ step \in DOMAIN Session /\ Now.do = "read"
      /\ Proceed /\ step \in Nat /\ step' = step + 1 /\ Scripted
  <2>1. at = "step" /\ step <= Len(Session) /\ Now.do = "read" /\ Proceed
    BY DEF ReadSnapshot
  <2>2. QED
    BY <2>1, Bounds DEF IInv, TypeOK, Proceed
<1>2. Now.into \in {"before", "readonly", "after"} /\ Session[step] = Now
  BY <1>1 DEF Scripted, Now
<1> DEFINE new == [w \in (DOMAIN shots[Now.into]) \cup {Now.on} |->
                      IF w = Now.on THEN Seen(w) ELSE shots[Now.into][w]]
<1>3. shots' = [shots EXCEPT ![Now.into] = new]
  BY DEF ReadSnapshot
<1>4. /\ DOMAIN shots' = {"before", "readonly", "after"} /\ shots'[Now.into] = new
      /\ \A n \in {"before", "readonly", "after"} : n # Now.into => shots'[n] = shots[n]
  <2>1. DOMAIN shots = {"before", "readonly", "after"}
    BY DEF IInv, Library
  <2>2. QED
    BY <1>2, <1>3, <2>1
<1>5. /\ DOMAIN new = DOMAIN shots[Now.into] \cup {Now.on}
      /\ Now.on = "version" => new.version = lib.commits
      /\ Now.on # "version" /\ "version" \in DOMAIN shots[Now.into] =>
           new.version = shots[Now.into].version
  <2>1. Seen("version") = lib.commits
    BY DEF Seen
  <2>2. QED
    BY <2>1
<1> HIDE DEF new
<1>6. begun' = IF Now.into = "before" /\ Now.on = "version" THEN lib ELSE begun
  BY DEF ReadSnapshot
<1>7. lib \in Views /\ begun \in Views /\ Since(lib, begun)
      /\ lib.commits \in Nat /\ begun.commits \in Nat
  BY DEF IInv, Library, Views
<1>8. Library'
  <2>1. begun' \in Views /\ Since(lib, begun')
    BY <1>6, <1>7 DEF Since
  <2>2. ASSUME mixed PROVE Now.into # "before" /\ begun' = begun
    <3>1. Now.into = "before" => step < step
      BY <1>1, <1>2, <2>2 DEF IInv, Library
    <3>2. QED
      BY <1>1, <1>6, <3>1
  <2>3. ASSUME mixed, "version" \in DOMAIN shots'["readonly"]
        PROVE  shots'["readonly"].version > begun.commits
    <3>1. CASE Now.into = "readonly" /\ Now.on = "version"
      BY <1>4, <1>5, <2>3, <3>1 DEF IInv, Library
    <3>2. CASE Now.into = "readonly" /\ Now.on # "version"
      BY <1>4, <1>5, <2>3, <3>2 DEF IInv, Library
    <3>3. CASE Now.into # "readonly"
      BY <1>4, <2>3, <3>3 DEF IInv, Library
    <3>4. QED
      BY <3>1, <3>2, <3>3
  <2>4. \A k \in DOMAIN Session : k < step => k < step'
    BY <1>1
  <2>5. QED
    BY <1>0, <1>4, <1>7, <2>1, <2>2, <2>3, <2>4, SameScript DEF IInv, Library
<1>9. Snapshots'
  <2>1. ASSUME NEW k \in DOMAIN Session, Session[k] = Read("version", "before"), k < step'
        PROVE  "version" \in DOMAIN shots'["before"] /\ shots'["before"].version = begun'.commits
    <3>1. CASE k < step
      <4>1. "version" \in DOMAIN shots["before"] /\ shots["before"].version = begun.commits
        BY <2>1, <3>1 DEF IInv, Snapshots
      <4>2. CASE Now.into = "before" /\ Now.on = "version"
        BY <1>4, <1>5, <1>6, <4>1, <4>2
      <4>3. CASE Now.into = "before" /\ Now.on # "version"
        BY <1>4, <1>5, <1>6, <4>1, <4>3
      <4>4. CASE Now.into # "before"
        BY <1>4, <1>6, <4>1, <4>4
      <4>5. QED
        BY <4>2, <4>3, <4>4
    <3>2. CASE k = step
      <4>1. Now.into = "before" /\ Now.on = "version"
        BY <1>2, <2>1, <3>2, Doing
      <4>2. QED
        BY <1>4, <1>5, <1>6, <4>1
    <3>3. QED
      BY <1>1, <2>1, <3>1, <3>2, Bounds DEF IInv
  <2>2. ASSUME Checking
        PROVE  /\ "version" \in DOMAIN shots'["readonly"] <=> step' >= Verdict
               /\ step' > Verdict /\ "readonly" \notin failures' => shots'["before"] = shots'["readonly"]
    <3>1. Verdict \in Nat /\ Verdict > 18 /\ step # Verdict
      <4>1. Session[Verdict].do = "compare"
        BY <1>1, <2>2, Doing DEF Scripted
      <4>2. QED
        BY <1>1, <1>2, <2>2, <4>1, Bounds DEF Scripted, IInv
    <3>2. /\ Now.into = "before" => step < 10
          /\ Now.into = "readonly" => step < Verdict /\ (Now.on = "version" <=> step = Verdict - 1)
          /\ step = Verdict - 1 => Now.into = "readonly"
      BY <1>1, <1>2, <2>2 DEF Scripted
    <3>3. "version" \in DOMAIN shots["readonly"] <=> step >= Verdict
      BY <2>2 DEF IInv, Snapshots
    <3>4. step' >= Verdict <=> step >= Verdict \/ step = Verdict - 1
      BY <1>1, <3>1
    <3>5. "version" \in DOMAIN shots'["readonly"] <=> step' >= Verdict
      <4>1. CASE Now.into = "readonly"
        BY <1>4, <1>5, <3>2, <3>3, <3>4, <4>1
      <4>2. CASE Now.into # "readonly"
        BY <1>2, <1>4, <3>2, <3>3, <3>4, <4>2
      <4>3. QED
        BY <4>1, <4>2
    <3>6. step' > Verdict => step > Verdict /\ Now.into \notin {"before", "readonly"}
      BY <1>1, <3>1, <3>2
    <3>7. QED
      BY <1>0, <1>4, <2>2, <3>5, <3>6 DEF IInv, Snapshots
  <2>3. QED
    BY <1>0, <2>1, <2>2, SameScript DEF Snapshots
<1>10. step >= 10 /\ Checking => begun' = begun
  <2>1. Checking /\ Now.into = "before" => step < 10
    BY <1>1, <1>2 DEF Scripted
  <2>2. QED
    BY <1>1, <1>6, <2>1
<1>11. inp' = <<>> \/ inp' = <<Note>>
  BY <1>0, <1>1 DEF IInv, Quiet
<1>12. inp' # <<>> => \E k \in DOMAIN Session : k <= step /\ Session[k].do = "notify"
  BY <1>0, <1>1, <1>11, Bounds DEF IInv, Requests
<1>13. failures' \subseteq Checks
  BY <1>0 DEF IInv, TypeOK, Checks
<1>14. QED
  BY <1>0, <1>1, <1>8, <1>9, <1>10, <1>11, <1>12, <1>13, Unpaged, ProceedStep

LEMMA Appended == \A a, b : Append(<<>>, a) = <<a>> /\ Append(<<b>>, a) = <<b, a>>
<1> SUFFICES ASSUME NEW a, NEW b PROVE Append(<<>>, a) = <<a>> /\ Append(<<b>>, a) = <<b, a>>
  OBVIOUS
<1> DEFINE s == Append(<<b>>, a)
           t == <<b, a>>
<1>1. s \in Seq({a, b}) /\ Len(s) = 2 /\ s[1] = b /\ s[2] = a
  <2>1. <<b>> \in Seq({a, b}) /\ Len(<<b>>) = 1 /\ <<b>>[1] = b
    OBVIOUS
  <2>2. QED
    BY <2>1
<1>2. t \in Seq({a, b}) /\ Len(t) = 2 /\ t[1] = b /\ t[2] = a
  OBVIOUS
<1> HIDE DEF s, t
<1>3. s \in [1..2 -> {a, b}] /\ t \in [1..2 -> {a, b}]
  BY <1>1, <1>2
<1>4. s = t
  BY <1>1, <1>2, <1>3
<1>5. QED
  BY <1>4 DEF s, t

LEMMA SendRequestStep == IInv /\ SendRequest => IInv'
<1> SUFFICES ASSUME IInv, SendRequest PROVE IInv'
  OBVIOUS
<1>0. UNCHANGED <<script, recorded, step, answer, page, listed, packet, failures, status,
                  shots, begun, out, server, mixed, lib>>
  BY DEF SendRequest, shotVars, worldVars
<1>1. /\ failures \subseteq Checks /\ at = "step" /\ step <= Len(Session) /\ step \in DOMAIN Session
      /\ sequence \in Nat /\ sequence' = sequence + 1 /\ Now.do = "call"
  <2>1. at = "step" /\ step <= Len(Session) /\ Now.do = "call" /\ sequence' = sequence + 1
    BY DEF SendRequest
  <2>2. QED
    BY <2>1, Bounds DEF IInv, TypeOK, Checks
<1>2. CASE Gone
  <2>1. raised' = "pipe" /\ at' = "closing" /\ inp' = inp
    BY <1>2 DEF SendRequest, Raise
  <2>2. QED
    BY <1>0, <1>1, <2>1, RaiseStep
<1>3. CASE ~Gone
  <2>1. /\ inp' = Append(inp, [id |-> sequence + 1, tool |-> Now.on, cursor |-> page.cursor])
        /\ at' \in {"sent", "reading"} /\ UNCHANGED raised
        /\ Now.on \in {"cite", "citation"} => Evidence \/ script = "followups"
    BY <1>3 DEF SendRequest
  <2>2. Now' = Now /\ Calling' /\ Note' = Note
    BY <1>0, <1>1, SameScript DEF Now, Calling, Note
  <2>3. Asked' = [id |-> sequence + 1, tool |-> Now.on, cursor |-> page.cursor]
    BY <1>0, <1>1, <2>2 DEF Asked
  <2>4. (inp = <<>> /\ inp' = <<Asked'>>) \/ (inp = <<Note>> /\ inp' = <<Note, Asked'>>)
    <3>1. inp = <<>> \/ inp = <<Note>>
      BY <1>1 DEF IInv, Quiet
    <3>2. inp' = Append(inp, Asked')
      BY <2>1, <2>3
    <3>3. \A a, b : Append(<<>>, a) = <<a>> /\ Append(<<b>>, a) = <<b, a>>
      BY Appended
    <3>4. QED
      BY <3>1, <3>2, <3>3
  <2>5. Asked' # Note
    <3>1. Asked'.id = sequence + 1 /\ Note.id = 0
      BY <2>3 DEF Note
    <3>2. QED
      BY <1>1, <3>1
  <2>6. Requests'
    <3>1. inp' # <<>> /\ inp'[1] = Note => inp = <<Note>>
      BY <2>4, <2>5
    <3>2. inp = <<Note>> => \E k \in DOMAIN Session : k < step /\ Session[k].do = "notify"
      BY DEF IInv, Requests
    <3>3. QED
      BY <1>0, <2>2, <2>4, <3>1, <3>2, SameScript DEF Requests
  <2>7. Replies'
    BY <1>0, <1>1 DEF IInv, Replies, Quiet
  <2>8. Quiet'
    BY <2>1 DEF Quiet
  <2>9. Library'
    BY <1>0, Bounds, KeepLibrary DEF IInv
  <2>10. Snapshots'
    BY <1>0, KeepSnapshots DEF IInv
  <2>11. Paging'
    BY <1>0, <2>1, <2>2, SameScript DEF IInv, Paging, Evidence, Open, Empty, NoView
  <2>12. Listing'
    BY <1>0, KeepListing DEF IInv
  <2>13. Ending'
    <3>1. status = -1
      BY <1>1 DEF IInv, TypeOK
    <3>2. QED
      BY <1>0, <2>1, <3>1 DEF Ending
  <2>14. TypeOK'
    <3>1. Len(inp') <= 2
      <4>1. CASE inp' = <<Asked'>>
        BY ONLY <4>1
      <4>2. CASE inp' = <<Note, Asked'>>
        BY ONLY <4>2
      <4>3. QED
        BY <2>4, <4>1, <4>2
    <3>2. sequence' \in Nat
      BY <1>1
    <3>3. QED
      BY <1>0, <1>1, <2>1, <3>1, <3>2, SameScript DEF IInv, TypeOK
  <2>15. QED
    BY <2>6, <2>7, <2>8, <2>9, <2>10, <2>11, <2>12, <2>13, <2>14 DEF IInv
<1>4. QED
  BY <1>2, <1>3

(* A verdict without failures is about one state of the library.           *)
LEMMA ConcludeStep == IInv /\ Conclude => IInv'
<1> SUFFICES ASSUME IInv, Conclude PROVE IInv'
  OBVIOUS
<1>0. UNCHANGED <<script, recorded, step, raised, sequence, answer, page, listed, packet,
                  shots, begun, inp, out, server, mixed, lib>>
  BY DEF Conclude, shotVars, worldVars
<1>1. /\ at \in {"waiting", "killing"} /\ Gone /\ at' = "done"
      /\ failures' = failures \cup LastChecks /\ status' = ExitStatus(failures')
  BY DEF Conclude
<1>2. LastChecks \subseteq {"exit", "written"}
  BY DEF LastChecks
<1>3. status' \in {0, 1} /\ (status' = 0 => failures' = {} /\ raised = "no")
  BY <1>1 DEF ExitStatus
<1>4. TypeOK'
  BY <1>0, <1>1, <1>2, <1>3, SameScript DEF IInv, TypeOK
<1>5. Requests'
  BY <1>0, <1>1, KeepRequests DEF IInv
<1>6. Replies'
  BY <1>0, SameScript, SameRequest DEF IInv, Replies
<1>7. Quiet'
  BY <1>1 DEF Quiet
<1>8. Library'
  BY <1>0, Bounds, KeepLibrary DEF IInv
<1>9. Snapshots'
  BY <1>0, <1>1, KeepSnapshots DEF IInv
<1>10. Paging'
  BY <1>0, <1>1, KeepPaging DEF IInv
<1>11. Listing'
  BY <1>0, <1>1, KeepListing DEF IInv
<1>12. ASSUME status' = 0, Checking \/ Probing
       PROVE  step = Len(Session) + 1 /\ server.code = 0 /\ failures' = {} /\ ~mixed
  <2>1. failures' = {} /\ failures = {} /\ LastChecks = {} /\ raised = "no"
    BY <1>1, <1>3, <1>12
  <2>2. step = Len(Session) + 1
    BY <1>1, <2>1 DEF IInv, Ending
  <2>3. server.code = 0
    BY <1>12, <2>1 DEF LastChecks
  <2>4. Scripted /\ DOMAIN Session = 1..Len(Session) /\ Len(Session) \in Nat
    BY Bounds DEF IInv
  <2>5. lib.commits \in Nat /\ begun.commits \in Nat
    BY DEF IInv, Library, Views
  <2>6. CASE Checking
    <3>1. 4 \in DOMAIN Session /\ 4 < step /\ step > Verdict /\ step >= Verdict
      <4>1. Verdict \in 1..Len(Session) /\ Verdict > 18
        BY <2>4, <2>6 DEF Scripted
      <4>2. QED
        BY <2>2, <2>4, <4>1
    <3>2. shots["before"].version = begun.commits
      BY <2>4, <2>6, <3>1 DEF IInv, Snapshots, Scripted
    <3>3. shots["before"] = shots["readonly"] /\ "version" \in DOMAIN shots["readonly"]
      BY <2>1, <2>6, <3>1 DEF IInv, Snapshots
    <3>4. mixed => shots["readonly"].version > begun.commits
      BY <3>3 DEF IInv, Library
    <3>5. QED
      BY <2>1, <2>2, <2>3, <2>5, <3>2, <3>3, <3>4
  <2>7. CASE Probing
    <3>1. 1 \in DOMAIN Session /\ 1 < step
      BY <2>2, <2>4, <2>7 DEF Scripted
    <3>2. shots["before"].version = begun.commits
      BY <2>4, <2>7, <3>1 DEF IInv, Snapshots, Scripted
    <3>3. lib.commits = shots.before.version
      <4>1. ~Checking
        BY <2>7 DEF Checking, Probing
      <4>2. QED
        BY <2>1, <2>7, <4>1 DEF LastChecks
    <3>4. mixed => lib.commits > begun.commits
      BY DEF IInv, Library
    <3>5. QED
      BY <2>1, <2>2, <2>3, <2>5, <3>2, <3>3, <3>4
  <2>8. QED
    BY <1>12, <2>6, <2>7
<1>13. Ending'
  <2>1. raised = "no" => step = Len(Session) + 1
    BY <1>1 DEF IInv, Ending
  <2>2. QED
    BY <1>0, <1>1, <1>12, <2>1, SameScript DEF Ending, Gone
<1>14. QED
  BY <1>4, <1>5, <1>6, <1>7, <1>8, <1>9, <1>10, <1>11, <1>13 DEF IInv

LEMMA InitIInv == Init => IInv
<1> SUFFICES ASSUME Init PROVE IInv
  OBVIOUS
<1>0. Scripted
  BY AllScripted DEF Init
<1>1. lib \in Views /\ lib.rows = Known /\ lib.closed = {} /\ lib.commits = 0 /\ begun = lib
  BY McpAssumption DEF Init, Views
<1>2. TypeOK
  <2>1. status \in -1..1 /\ (status # -1 <=> at \in {"done", "left"})
    BY DEF Init
  <2>2. listed \in Seq(Sources) /\ page.cursor \in Nat
    BY DEF Init, Empty
  <2>3. Len(inp) <= 2 /\ Len(out) <= 1
    BY DEF Init
  <2>4. step \in 1..(Len(Session) + 1)
    BY <1>0 DEF Init, Scripted
  <2>5. mixed \in BOOLEAN /\ server.state = "idle" /\ failures = {}
    BY DEF Init
  <2>6. /\ script \in Scripts /\ recorded \in {"none", "failed", "answer"}
        /\ at = "start" /\ raised = "no" /\ sequence \in Nat /\ answer \in Nat
    BY DEF Init
  <2>7. lib.rows \subseteq Sources /\ lib.closed \subseteq lib.rows
    BY <1>1, McpAssumption
  <2>8. QED
    BY <2>1, <2>2, <2>3, <2>4, <2>5, <2>6, <2>7 DEF TypeOK
<1>3. Requests /\ Replies /\ Quiet
  BY DEF Init, Requests, Replies, Quiet
<1>4. Library
  BY <1>1 DEF Init, Library, Since
<1>5. Snapshots
  <2>1. \A k \in DOMAIN Session : ~(k < step)
    BY <1>0 DEF Init, Scripted
  <2>2. DOMAIN shots["readonly"] = {}
    BY DEF Init
  <2>3. Checking => ~(step >= Verdict) /\ ~(step > Verdict)
    BY <1>0 DEF Init, Scripted
  <2>4. QED
    BY <2>1, <2>2, <2>3 DEF Snapshots
<1>6. Paging
  <2>1. page.got = <<>> /\ page.cursor = 0 /\ page \in [got : Seq(Nat), seen : SUBSET Nat, cursor : Nat]
    BY DEF Init, Empty
  <2>2. Ascending(<<>>)
    BY DEF Ascending
  <2>3. page = Empty /\ step = 1 /\ at = "start"
    BY DEF Init
  <2>4. QED
    BY <2>1, <2>2, <2>3 DEF Paging
<1>7. Listing
  <2>1. listed = <<>> /\ step = 1
    BY DEF Init
  <2>2. QED
    BY <2>1 DEF Listing, Ascending
<1>8. Ending
  BY DEF Init, Ending
<1>9. QED
  BY <1>2, <1>3, <1>4, <1>5, <1>6, <1>7, <1>8 DEF IInv

-----------------------------------------------------------------------------
(* An answer.                                                              *)

(* What is read is the answer to the request, and it is the only line.     *)
LEMMA Answered ==
    ASSUME IInv, at = "reading", out # <<>>
    PROVE  /\ inp = <<>> /\ Calling /\ out = <<Head(out)>> /\ Tail(out) = <<>>
           /\ Fits(Head(out), Checking, Asked, begun, lib)
           /\ Head(out).id = sequence /\ Head(out).tool = Now.on
           /\ server.state \in {"idle", "hung", "gone"}
<1>1. /\ inp = <<>> /\ Calling /\ out = <<out[1]>> /\ Fits(out[1], Checking, Asked, begun, lib)
      /\ server.state \notin {"answering", "writing", "stalled"}
  BY DEF IInv, Replies
<1>2. Head(out) = out[1] /\ Tail(out) = <<>>
  <2>1. PICK a : out = <<a>>
    BY <1>1
  <2>2. Head(<<a>>) = a /\ Tail(<<a>>) = <<>> /\ <<a>>[1] = a
    BY Ends
  <2>3. QED
    BY <2>1, <2>2
<1>3. Asked.id = sequence /\ Asked.tool = Now.on
  BY DEF Asked
<1>4. server.state \in {"idle", "hung", "gone"}
  BY <1>1 DEF IInv, TypeOK
<1>5. QED
  BY <1>1, <1>2, <1>3, <1>4 DEF Fits

(* The page in an answer continues the pages before it.                    *)
Continues(a) ==
    /\ a.items \in Seq(Nat) /\ Ascending(a.items) /\ a.next \in Nat
    /\ \A i \in DOMAIN a.items : a.items[i] > page.cursor /\ (a.next # 0 => a.items[i] <= a.next)
    /\ a.next # 0 => a.next > page.cursor
    /\ a.tool = "sources" => a.items \in Seq(Sources)
    /\ a.tool = "sources" /\ ~a.failed =>
         Range(a.items) = {x \in Open(a.view) : x > page.cursor /\ (a.next # 0 => x <= a.next)}

LEMMA Wider == ASSUME NEW S, NEW T, S \subseteq T, NEW s \in Seq(S) PROVE s \in Seq(T)
OBVIOUS

LEMMA PageOf ==
    ASSUME NEW a, Fits(a, Checking, Asked, begun, lib), Paged(a), page.cursor \in Nat
    PROVE  Continues(a)
<1>1. Asked.tool = a.tool /\ Asked.cursor = page.cursor
  BY DEF Asked, Fits
<1>2. Checking /\ a.tool \in {"sources", "citation"}
  BY DEF Paged
<1>3. CASE a.failed
  <2>1. a.items = <<>> /\ a.next = 0
    BY <1>3 DEF Fits
  <2>2. <<>> \in Seq(Nat) /\ <<>> \in Seq(Sources) /\ Ascending(<<>>) /\ DOMAIN <<>> = {}
    BY DEF Ascending
  <2>3. QED
    BY <1>3, <2>1, <2>2 DEF Continues
<1>4. CASE ~a.failed /\ a.tool = "sources"
  <2> DEFINE S == Open(a.view)
             p == Page(S, page.cursor)
  <2>1. S \subseteq Sources
    BY DEF Fits, Since, Views, Open
  <2>2. S \in SUBSET (Nat \ {0}) /\ IsFiniteSet(S)
    BY <2>1, McpAssumption, FS_Subset
  <2>3. a.items = p.items /\ a.next = p.next
    BY <1>1, <1>2, <1>4 DEF Fits
  <2>4. /\ p.items \in Seq(S) /\ Ascending(p.items) /\ p.next \in Nat
        /\ \A i \in DOMAIN p.items : p.items[i] > page.cursor /\ (p.next # 0 => p.items[i] <= p.next)
        /\ p.next # 0 => p.next > page.cursor
        /\ Range(p.items) = {x \in S : x > page.cursor /\ (p.next # 0 => x <= p.next)}
    <3> HIDE DEF S
    <3>1. QED
      BY <2>2, PageRows
  <2> HIDE DEF p
  <2>5. a.items \in Seq(Nat) /\ a.items \in Seq(Sources)
    <3> HIDE DEF S
    <3>1. QED
      BY <2>1, <2>2, <2>3, <2>4, Wider
  <2>6. QED
    BY <2>3, <2>4, <2>5, <1>4 DEF Continues
<1>5. CASE ~a.failed /\ a.tool = "citation"
  <2> DEFINE S == 1..Span
             p == Page(S, page.cursor)
  <2>1. S \in SUBSET (Nat \ {0}) /\ IsFiniteSet(S)
    <3>1. Span \in Nat
      BY McpAssumption
    <3>2. QED
      BY <3>1, FS_Interval
  <2>3. a.items = p.items /\ a.next = p.next
    BY <1>1, <1>2, <1>5 DEF Fits
  <2>4. /\ p.items \in Seq(S) /\ Ascending(p.items) /\ p.next \in Nat
        /\ \A i \in DOMAIN p.items : p.items[i] > page.cursor /\ (p.next # 0 => p.items[i] <= p.next)
        /\ p.next # 0 => p.next > page.cursor
    <3> HIDE DEF S
    <3>1. QED
      BY <2>1, PageRows
  <2> HIDE DEF p
  <2>5. a.items \in Seq(Nat)
    <3> HIDE DEF S
    <3>1. QED
      BY <2>1, <2>3, <2>4, Wider
  <2>6. QED
    BY <2>3, <2>4, <2>5, <1>5 DEF Continues
<1>6. QED
  BY <1>2, <1>3, <1>4, <1>5

(* What the pages read so far and this one make together; from: the        *)
(* library that both came from if nothing was published between them.      *)
LEMMA PagesJoin ==
    ASSUME Paging, NEW a, Continues(a), Since(a.view, begun), a.view.closed \subseteq lib.closed,
           begun \in Views
    PROVE  LET got == page.got \o a.items IN
           /\ got \in Seq(Nat) /\ Ascending(got)
           /\ \A i \in DOMAIN got : a.next # 0 => got[i] <= a.next
           /\ a.tool = "sources" /\ (page # Empty => Now.on = "sources") => got \in Seq(Sources)
           /\ step = 10 /\ Checking /\ "outcome" \notin failures /\ a.tool = "sources" /\ ~a.failed =>
                /\ \A s \in Known \ lib.closed : (a.next # 0 => s <= a.next) => s \in Range(got)
                /\ ~mixed /\ a.view = begun =>
                     Range(got) = {s \in Open(begun) : a.next # 0 => s <= a.next}
<1> DEFINE got == page.got \o a.items
<1>1. /\ page.got \in Seq(Nat) /\ Ascending(page.got) /\ page.cursor \in Nat
      /\ \A i \in DOMAIN page.got : page.got[i] <= page.cursor
  BY DEF Paging
<1>2. /\ a.items \in Seq(Nat) /\ Ascending(a.items) /\ a.next \in Nat
      /\ \A i \in DOMAIN a.items : a.items[i] > page.cursor
      /\ \A i \in DOMAIN a.items : a.next # 0 => a.items[i] <= a.next
      /\ a.next # 0 => a.next > page.cursor
  BY DEF Continues
<1>3. /\ got \in Seq(Nat) /\ Ascending(got) /\ Range(got) = Range(page.got) \cup Range(a.items)
  BY <1>1, <1>2, PageFollows
<1>4. ASSUME NEW i \in DOMAIN got, a.next # 0 PROVE got[i] <= a.next
  <2>1. got[i] \in Range(page.got) \cup Range(a.items) /\ got[i] \in Nat
    <3> HIDE DEF got
    <3>1. got[i] \in Range(got)
      BY DEF Range
    <3>2. got[i] \in Nat
      BY <1>3
    <3>3. QED
      BY <3>1, <3>2, <1>3
  <2>2. \A x \in Range(page.got) : x <= page.cursor /\ x \in Nat
    BY <1>1 DEF Range
  <2>3. \A x \in Range(a.items) : x <= a.next
    BY <1>2, <1>4 DEF Range
  <2>4. got[i] \in Range(page.got) => got[i] <= a.next
    BY <2>2, <1>1, <1>2, <1>4
  <2>5. QED
    BY <2>1, <2>3, <2>4
<1>5. ASSUME a.tool = "sources", page # Empty => Now.on = "sources" PROVE got \in Seq(Sources)
  <2>1. page.got \in Seq(Sources)
    <3>1. CASE page = Empty
      BY <3>1 DEF Empty
    <3>2. CASE page # Empty
      BY <3>2, <1>5 DEF Paging
    <3>3. QED
      BY <3>1, <3>2
  <2>2. a.items \in Seq(Sources)
    BY <1>5 DEF Continues
  <2>3. QED
    BY <2>1, <2>2
<1>6. ASSUME step = 10, Checking, "outcome" \notin failures, a.tool = "sources", ~a.failed
      PROVE  /\ \A s \in Known \ lib.closed : (a.next # 0 => s <= a.next) => s \in Range(got)
             /\ ~mixed /\ a.view = begun =>
                  Range(got) = {s \in Open(begun) : a.next # 0 => s <= a.next}
  <2>1. /\ \A s \in Known \ lib.closed : s <= page.cursor => s \in Range(page.got)
        /\ ~mixed => Range(page.got) = {s \in Open(begun) : s <= page.cursor}
    BY <1>6 DEF Paging
  <2>2. Range(a.items) = {x \in Open(a.view) : x > page.cursor /\ (a.next # 0 => x <= a.next)}
    BY <1>6 DEF Continues
  <2>3. Known \subseteq Nat /\ Known \ lib.closed \subseteq Open(a.view)
    BY McpAssumption DEF Since, Open
  <2>4. Open(begun) \subseteq Nat
    BY McpAssumption DEF Open, Views
  <2>5. ASSUME NEW s \in Known \ lib.closed, a.next # 0 => s <= a.next PROVE s \in Range(got)
    <3>1. CASE s <= page.cursor
      BY <2>1, <2>5, <3>1, <1>3
    <3>2. CASE ~(s <= page.cursor)
      <4>1. s > page.cursor
        <5>1. s \in Nat
          BY <2>3
        <5>2. QED
          BY <5>1, <3>2, <1>1
      <4>2. s \in Open(a.view)
        BY <2>3
      <4>3. QED
        BY <2>2, <2>5, <4>1, <4>2, <1>3
    <3>3. QED
      BY <3>1, <3>2
  <2>6. ASSUME ~mixed, a.view = begun
        PROVE  Range(got) = {s \in Open(begun) : a.next # 0 => s <= a.next}
    <3>1. \A s \in Open(begun) : s <= page.cursor => (a.next # 0 => s <= a.next)
      BY <2>4, <1>1, <1>2
    <3>2. \A s \in Open(begun) : s <= page.cursor \/ s > page.cursor
      BY <2>4, <1>1
    <3>3. Range(a.items) = {x \in Open(begun) : x > page.cursor /\ (a.next # 0 => x <= a.next)}
      BY <2>2, <2>6
    <3>4. Range(page.got) = {s \in Open(begun) : s <= page.cursor}
      BY <2>1, <2>6
    <3> HIDE DEF got
    <3>5. QED
      BY <3>1, <3>2, <3>3, <3>4, <1>3
  <2>7. QED
    BY <2>5, <2>6
<1>7. QED
  BY <1>3, <1>4, <1>5, <1>6

(* The ways an answer is taken: another page, the last one, no page.       *)
Onward(a) ==
    /\ Paged(a) /\ a.next # 0
    /\ page' = [got |-> page.got \o a.items, seen |-> page.seen \cup {a.next}, cursor |-> a.next]
    /\ UNCHANGED <<step, listed>>
    /\ (at' = "closing" /\ raised' = "yes") \/ (at' = "step" /\ UNCHANGED raised)

LastPage(a) ==
    /\ Paged(a) /\ a.next = 0 /\ page' = Empty /\ Proceed /\ UNCHANGED raised
    /\ listed' = IF a.tool = "sources" THEN page.got \o a.items ELSE listed

NotAPage(a) ==
    /\ UNCHANGED <<page, listed>>
    /\ \/ Raise("yes") /\ UNCHANGED step
       \/ ~Paged(a) /\ Proceed /\ UNCHANGED raised

LEMMA Ways ==
    ASSUME IInv, ReadAnswer
    PROVE  /\ UNCHANGED <<script, recorded, sequence, status, shots, begun, inp, server, lib>>
           /\ Onward(Head(out)) \/ LastPage(Head(out)) \/ NotAPage(Head(out))
           /\ failures \cup Failed(Head(out)) \subseteq failures' /\ failures' \subseteq Checks
           /\ step \in DOMAIN Session /\ step \in Nat /\ step' \in {step, step + 1}
           /\ at' \in {"step", "closing"}
           /\ at' = "closing" => raised' = "yes" /\ step' = step
           /\ raised' \in {raised, "yes"} /\ answer' = sequence /\ out' = <<>>
<1> DEFINE a == Head(out)
<1>0. UNCHANGED <<script, recorded, sequence, status, shots, begun, inp, server, lib>>
  BY DEF ReadAnswer, shotVars, worldVars
<1>1. at = "reading" /\ out # <<>> /\ answer' = a.id /\ out' = Tail(out)
  BY DEF ReadAnswer
<1>2. Calling /\ Tail(out) = <<>> /\ a.id = sequence
  BY <1>1, Answered
<1>3. \/ Paged(a) /\ TurnPage(a)
      \/ /\ failures' = failures \cup Failed(a)
         /\ \/ Raise("yes") /\ UNCHANGED step
            \/ ~Paged(a) /\ Proceed /\ UNCHANGED raised
         /\ UNCHANGED <<page, listed>>
  BY DEF ReadAnswer
<1> HIDE DEF a
<1>4. Onward(a) \/ LastPage(a) \/ NotAPage(a)
  BY <1>3 DEF Onward, LastPage, NotAPage, TurnPage, Raise
<1>5. failures' \in {failures \cup Failed(a), failures \cup Failed(a) \cup {"pages"}}
  <2>1. CASE TurnPage(a)
    BY <2>1 DEF TurnPage
  <2>2. CASE failures' = failures \cup Failed(a)
    BY <2>2
  <2>3. QED
    BY <1>3, <2>1, <2>2
<1>6. Failed(a) \subseteq {"id", "outcome", "generation", "repeat"}
  BY DEF Failed, Unexpected
<1>7. failures \subseteq Checks
  BY DEF IInv, TypeOK, Checks
<1>8. failures \cup Failed(a) \subseteq failures' /\ failures' \subseteq Checks
  BY <1>5, <1>6, <1>7 DEF Checks
<1>9. step \in DOMAIN Session /\ step \in Nat
  BY <1>2, Bounds DEF Calling, IInv
<1>10. /\ step' \in {step, step + 1} /\ at' \in {"step", "closing"}
       /\ at' = "closing" => raised' = "yes" /\ step' = step
       /\ raised' \in {raised, "yes"}
  BY <1>4 DEF Onward, LastPage, NotAPage, Proceed, Raise
<1>11. QED
  BY <1>0, <1>1, <1>2, <1>4, <1>8, <1>9, <1>10 DEF a

(* An answer from another library than at the start counts as mixed as     *)
(* long as the second snapshot is not complete.                            *)
LEMMA MixedOrSame ==
    ASSUME IInv, ReadAnswer
    PROVE  /\ mixed => mixed'
           /\ ~mixed' /\ "version" \notin DOMAIN shots["readonly"] => Head(out).view = begun
           /\ mixed' => mixed \/ (Head(out).view # begun /\ "version" \notin DOMAIN shots["readonly"])
           /\ mixed' \in BOOLEAN
PROOF BY DEF ReadAnswer, IInv, TypeOK

LEMMA ReadAnswerLibrary == ASSUME IInv, ReadAnswer PROVE Library' /\ Snapshots'
<1> DEFINE a == Head(out)
<1>1. at = "reading" /\ out # <<>>
  BY DEF ReadAnswer
<1>2. Calling /\ Fits(a, Checking, Asked, begun, lib)
  BY <1>1, Answered
<1>3. /\ UNCHANGED <<script, shots, begun, lib>> /\ failures \subseteq failures'
      /\ step \in DOMAIN Session /\ step \in Nat /\ step' \in {step, step + 1}
  BY Ways
<1>4. Scripted /\ DOMAIN Session = 1..Len(Session) /\ Len(Session) \in Nat
  BY Bounds DEF IInv
<1>5. Snapshots'
  <2>1. Now.do \notin {"read", "compare"}
    BY <1>2 DEF Calling
  <2>2. QED
    BY <1>3, <2>1, SnapshotsStay DEF IInv
<1>6. Library'
  <2>1. Since(a.view, begun) /\ a.view.commits <= lib.commits
    BY <1>2 DEF Fits
  <2>2. lib.commits \in Nat /\ begun.commits \in Nat /\ a.view.commits \in Nat
    BY <2>1 DEF IInv, Library, Views, Since
  <2>3. a.view # begun => lib.commits > begun.commits
    BY <2>1, <2>2 DEF Since
  <2>4. \A k \in DOMAIN Session :
          Session[k].do = "read" /\ Session[k].into = "before" => k < step
    <3>1. Session[step].do = "call"
      BY <1>2 DEF Calling, Now
    <3>2. QED
      BY <1>3, <1>4, <3>1 DEF Scripted
  <2>5. \A k \in DOMAIN Session : k < step => k < step'
    BY <1>3, <1>4
  <2>6. mixed' => mixed \/ (a.view # begun /\ "version" \notin DOMAIN shots["readonly"])
    BY MixedOrSame
  <2>7. mixed' => /\ lib.commits > begun.commits
                  /\ "version" \in DOMAIN shots["readonly"] => shots["readonly"].version > begun.commits
    BY <2>3, <2>6 DEF IInv, Library
  <2>8. QED
    BY <1>3, <2>4, <2>5, <2>7, SameScript DEF IInv, Library
<1>7. QED
  BY <1>5, <1>6

(* Without a failed check of the outcome, the page is the library's.       *)
LEMMA Listed ==
    ASSUME IInv, ReadAnswer, Paged(Head(out)), Head(out).tool = "sources", "outcome" \notin failures'
    PROVE  /\ ~Head(out).failed /\ "outcome" \notin failures
           /\ ~mixed' => ~mixed /\ Head(out).view = begun
<1> DEFINE a == Head(out)
<1>1. Checking /\ at = "reading" /\ out # <<>>
  BY DEF ReadAnswer, Paged
<1>2. Calling /\ Fits(a, Checking, Asked, begun, lib) /\ a.tool = Now.on
  BY <1>1, Answered
<1>3. "outcome" \notin Failed(a) /\ "outcome" \notin failures
  BY Ways
<1>4. a.failed = FALSE
  <2>1. a.failed = Denied(a.tool)
    BY <1>1, <1>3 DEF Failed, Unexpected
  <2>2. Denied(a.tool) = FALSE
    BY DEF Denied
  <2>3. QED
    BY <2>1, <2>2
<1>5. step = 10
  BY <1>1, <1>2, Bounds DEF IInv, Scripted, Calling, Now
<1>6. "version" \notin DOMAIN shots["readonly"]
  <2>1. Verdict \in Nat /\ Verdict > 18
    BY <1>1, Bounds DEF IInv, Scripted
  <2>2. QED
    BY <1>1, <1>5, <2>1 DEF IInv, Snapshots
<1>7. QED
  BY <1>3, <1>4, <1>6, MixedOrSame

(* What one more page makes of the listing.                                *)
LEMMA Joined ==
    ASSUME IInv, ReadAnswer, Paged(Head(out))
    PROVE  LET a == Head(out)
               got == page.got \o a.items
           IN /\ got \in Seq(Nat) /\ Ascending(got) /\ a.next \in Nat
              /\ \A i \in DOMAIN got : a.next # 0 => got[i] <= a.next
              /\ a.tool = "sources" => got \in Seq(Sources)
              /\ Checking /\ a.tool = Now.on /\ Calling /\ Scripted
              /\ a.tool = "sources" <=> step = 10
              /\ a.tool = "sources" /\ "outcome" \notin failures' =>
                   /\ \A s \in Known \ lib.closed : (a.next # 0 => s <= a.next) => s \in Range(got)
                   /\ ~mixed' => Range(got) = {s \in Open(begun) : a.next # 0 => s <= a.next}
<1> DEFINE a == Head(out)
           got == page.got \o a.items
<1>1. Checking /\ at = "reading" /\ out # <<>>
  BY DEF ReadAnswer, Paged
<1>2. Calling /\ Fits(a, Checking, Asked, begun, lib) /\ a.tool = Now.on /\ Scripted
  BY <1>1, Answered, Bounds DEF IInv
<1>3. Continues(a)
  <2>1. page.cursor \in Nat
    BY DEF IInv, TypeOK
  <2>2. QED
    BY <1>2, <2>1, PageOf
<1>4. Since(a.view, begun) /\ a.view.closed \subseteq lib.closed /\ begun \in Views
  BY <1>2 DEF Fits, IInv, Library
<1>5. Paging
  BY DEF IInv
<1>6. /\ got \in Seq(Nat) /\ Ascending(got)
      /\ \A i \in DOMAIN got : a.next # 0 => got[i] <= a.next
      /\ a.tool = "sources" /\ (page # Empty => Now.on = "sources") => got \in Seq(Sources)
      /\ step = 10 /\ Checking /\ "outcome" \notin failures /\ a.tool = "sources" /\ ~a.failed =>
           /\ \A s \in Known \ lib.closed : (a.next # 0 => s <= a.next) => s \in Range(got)
           /\ ~mixed /\ a.view = begun =>
                Range(got) = {s \in Open(begun) : a.next # 0 => s <= a.next}
  BY <1>3, <1>4, <1>5, PagesJoin
<1>7. a.next \in Nat
  BY <1>3 DEF Continues
<1>8. Now.on = "sources" <=> step = 10
  <2>1. step \in DOMAIN Session
    BY <1>2 DEF Calling
  <2>2. Session[10].on = "sources"
    BY <1>1, <1>2, Doing DEF Scripted
  <2>3. QED
    BY <1>1, <1>2, <2>1, <2>2 DEF Scripted, Now
<1>9. a.tool = "sources" /\ "outcome" \notin failures' =>
        ~a.failed /\ "outcome" \notin failures /\ (~mixed' => ~mixed /\ a.view = begun)
  BY Listed
<1> HIDE DEF got, a
<1>10. a.tool = "sources" /\ "outcome" \notin failures' =>
         /\ \A s \in Known \ lib.closed : (a.next # 0 => s <= a.next) => s \in Range(got)
         /\ ~mixed' => Range(got) = {s \in Open(begun) : a.next # 0 => s <= a.next}
  BY <1>1, <1>2, <1>6, <1>8, <1>9
<1>11. QED
  BY <1>1, <1>2, <1>6, <1>7, <1>8, <1>10 DEF got, a

LEMMA ReadAnswerPaging == ASSUME IInv, ReadAnswer PROVE Paging'
<1> DEFINE a == Head(out)
           got == page.got \o a.items
<1>1. at = "reading" /\ out # <<>>
  BY DEF ReadAnswer
<1>2. Calling /\ a.tool = Now.on
  BY <1>1, Answered
<1>3. /\ UNCHANGED <<script, sequence, begun, lib>> /\ failures \subseteq failures'
      /\ at' \in {"step", "closing"}
  BY Ways
<1>4. begun' \in Views
  BY <1>3 DEF IInv, Library
<1>5. Paged(a) => packet' = packet
  BY DEF ReadAnswer, Paged
<1>6. mixed => mixed'
  BY MixedOrSame
<1>7. CASE page' = Empty
  BY <1>3, <1>4, <1>7, NoPage
<1>8. CASE Onward(a)
  <2>1. /\ page'.got = got /\ page'.seen = page.seen \cup {a.next} /\ page'.cursor = a.next
        /\ page' = [got |-> got, seen |-> page.seen \cup {a.next}, cursor |-> a.next]
        /\ Paged(a) /\ a.next # 0 /\ UNCHANGED step
    BY <1>8 DEF Onward
  <2>2. /\ got \in Seq(Nat) /\ Ascending(got) /\ a.next \in Nat
        /\ \A i \in DOMAIN got : got[i] <= a.next
        /\ a.tool = "sources" => got \in Seq(Sources)
        /\ Checking
        /\ a.tool = "sources" <=> step = 10
        /\ a.tool = "sources" /\ "outcome" \notin failures' =>
             /\ \A s \in Known \ lib.closed : s <= a.next => s \in Range(got)
             /\ ~mixed' => Range(got) = {s \in Open(begun) : s <= a.next}
    BY <2>1, Joined
  <2> HIDE DEF got
  <2>3. page' \in [got : Seq(Nat), seen : SUBSET Nat, cursor : Nat]
    <3>1. page.seen \subseteq Nat
      BY DEF IInv, Paging
    <3>2. QED
      BY <2>1, <2>2, <3>1
  <2>4. Now' = Now /\ Calling' /\ Checking'
    BY <1>2, <1>3, <2>1, <2>2, SameScript DEF Now, Calling
  <2>5. Now.on \in {"sources", "citation"}
    BY <1>2, <2>1 DEF Paged
  <2>6. Now'.on \in {"cite", "citation"} /\ script' # "followups" => Evidence'
    <3>1. packet' = packet
      BY <1>5, <2>1
    <3>2. Now.on \in {"cite", "citation"} /\ script # "followups" => Evidence
      BY <1>1 DEF IInv, Paging
    <3>3. Evidence' = Evidence
      BY <3>1 DEF Evidence, Open, NoView
    <3>4. QED
      BY <1>3, <2>4, <3>2, <3>3
  <2>7. step' = 10 /\ Checking' /\ "outcome" \notin failures' =>
          /\ \A s \in Known \ lib'.closed : s <= page'.cursor => s \in Range(page'.got)
          /\ ~mixed' => Range(page'.got) = {s \in Open(begun') : s <= page'.cursor}
    BY <1>3, <2>1, <2>2
  <2>8. Ascending(page'.got) /\ \A i \in DOMAIN page'.got : page'.got[i] <= page'.cursor
    BY <2>1, <2>2
  <2>9. Now'.on = "sources" => page'.got \in Seq(Sources)
    BY <1>2, <2>1, <2>2, <2>4
  <2>10. Ascending(page.got)' = Ascending(page'.got) /\ Open(begun)' = Open(begun')
         /\ Range(page.got)' = Range(page'.got)
    BY DEF Ascending, Open, Range
  <2>11. QED
    BY <2>3, <2>4, <2>5, <2>6, <2>7, <2>8, <2>9, <2>10 DEF Paging
<1>9. CASE LastPage(a)
  BY <1>7, <1>9 DEF LastPage
<1>10. CASE NotAPage(a) /\ page # Empty
  <2>1. Paged(a)
    <3>1. Checking /\ Now.on \in {"sources", "citation"}
      BY <1>10 DEF IInv, Paging
    <3>2. QED
      BY <1>2, <3>1 DEF Paged
  <2>2. at' = "closing" /\ UNCHANGED <<step, page>>
    BY <1>10, <2>1 DEF NotAPage, Raise
  <2>3. packet' = packet
    BY <1>5, <2>1
  <2>4. QED
    BY <1>3, <1>6, <2>2, <2>3, KeepPaging DEF IInv
<1>11. CASE NotAPage(a) /\ page = Empty
  BY <1>7, <1>11 DEF NotAPage
<1>12. QED
  BY <1>8, <1>9, <1>10, <1>11, Ways

LEMMA ReadAnswerListing == ASSUME IInv, ReadAnswer PROVE Listing' /\ listed' \in Seq(Sources)
<1> DEFINE a == Head(out)
           got == page.got \o a.items
<1>1. at = "reading" /\ out # <<>>
  BY DEF ReadAnswer
<1>2. Calling /\ a.tool = Now.on
  BY <1>1, Answered
<1>3. /\ UNCHANGED <<script, begun, lib>> /\ failures \subseteq failures' /\ step \in Nat
  BY Ways
<1>4. mixed => mixed'
  BY MixedOrSame
<1>5. listed \in Seq(Sources)
  BY DEF IInv, TypeOK
<1>6. ASSUME UNCHANGED listed, step' = step \/ (step' = step + 1 /\ (step = 10 => ~Checking))
      PROVE  Listing' /\ listed' \in Seq(Sources)
  <2>1. Checking => (step' > 10 <=> step > 10) /\ (step' <= 10 <=> step <= 10)
    BY <1>3, <1>6
  <2>2. QED
    BY <1>3, <1>4, <1>5, <1>6, <2>1, SameScript DEF IInv, Listing, Open
<1>7. CASE Onward(a)
  BY <1>6, <1>7 DEF Onward
<1>8. CASE NotAPage(a)
  <2>1. CASE step' = step
    BY <1>6, <1>8, <2>1 DEF NotAPage
  <2>2. CASE step' # step
    <3>1. ~Paged(a) /\ UNCHANGED listed /\ step' = step + 1
      BY <1>8, <2>2 DEF NotAPage, Proceed
    <3>2. step = 10 => ~Checking
      <4>1. Checking => Session[10].on = "sources"
        BY Bounds, Doing DEF IInv, Scripted
      <4>2. step = 10 /\ Checking => a.tool = "sources"
        BY <1>2, <4>1 DEF Now
      <4>3. QED
        BY <3>1, <4>2 DEF Paged
    <3>3. QED
      BY <1>6, <3>1, <3>2
  <2>3. QED
    BY <2>1, <2>2
<1>9. CASE LastPage(a)
  <2>1. Paged(a) /\ a.next = 0 /\ step' = step + 1
        /\ listed' = IF a.tool = "sources" THEN got ELSE listed
    BY <1>9 DEF LastPage, Proceed
  <2>2. /\ got \in Seq(Nat) /\ Ascending(got)
        /\ a.tool = "sources" => got \in Seq(Sources)
        /\ a.tool = "sources" <=> step = 10
        /\ a.tool = "sources" /\ "outcome" \notin failures' =>
             /\ Known \ lib.closed \subseteq Range(got)
             /\ ~mixed' => Range(got) = Open(begun)
        /\ Checking
    BY <2>1, Joined
  <2> HIDE DEF got
  <2>3. CASE a.tool = "sources"
    <3>1. listed' = got /\ step' = 11 /\ step' > 10 /\ ~(step' <= 10)
      BY <2>1, <2>2, <2>3
    <3>2. Ascending(listed)' = Ascending(listed') /\ Open(begun)' = Open(begun')
          /\ Range(listed)' = Range(listed')
      BY DEF Ascending, Open, Range
    <3>3. QED
      BY <1>3, <2>2, <2>3, <3>1, <3>2, SameScript DEF Listing
  <2>4. CASE a.tool # "sources"
    BY <1>6, <2>1, <2>2, <2>4
  <2>5. QED
    BY <2>3, <2>4
<1>10. QED
  BY <1>7, <1>8, <1>9, Ways

LEMMA ReadAnswerStep == IInv /\ ReadAnswer => IInv'
<1> SUFFICES ASSUME IInv, ReadAnswer PROVE IInv'
  OBVIOUS
<1>1. at = "reading" /\ out # <<>>
  BY DEF ReadAnswer
<1>2. inp = <<>> /\ Calling /\ server.state \in {"idle", "hung", "gone"}
  BY <1>1, Answered
<1>3. /\ UNCHANGED <<script, recorded, sequence, status, shots, begun, inp, server, lib>>
      /\ failures' \subseteq Checks /\ step \in Nat /\ step \in DOMAIN Session
      /\ step' \in {step, step + 1} /\ at' \in {"step", "closing"}
      /\ at' = "closing" => raised' = "yes" /\ step' = step
      /\ raised' \in {raised, "yes"} /\ answer' = sequence /\ out' = <<>>
  BY Ways
<1>4. Library' /\ Snapshots' /\ Paging' /\ Listing' /\ listed' \in Seq(Sources)
  BY ReadAnswerLibrary, ReadAnswerPaging, ReadAnswerListing
<1>5. Requests'
  BY <1>2, <1>3, SameScript DEF Requests
<1>6. Replies'
  BY <1>2, <1>3 DEF IInv, Replies
<1>7. Quiet'
  BY <1>2, <1>3 DEF Quiet
<1>8. status = -1
  BY <1>1 DEF IInv, TypeOK
<1>9. Ending'
  BY <1>3, <1>8 DEF Ending
<1>10. TypeOK'
  <2>1. step' \in 1..(Len(Session) + 1)
    BY <1>3, Bounds DEF IInv
  <2>2. page'.cursor \in Nat
    BY <1>4 DEF Paging
  <2>3. mixed' \in BOOLEAN
    BY MixedOrSame
  <2>4. raised' \in {"no", "yes", "pipe"} /\ Len(out') <= 1 /\ answer' \in Nat
    BY <1>3 DEF IInv, TypeOK
  <2>5. QED
    BY <1>3, <1>4, <1>8, <2>1, <2>2, <2>3, <2>4, SameScript DEF IInv, TypeOK, Checks
<1>11. QED
  BY <1>4, <1>5, <1>6, <1>7, <1>9, <1>10 DEF IInv

-----------------------------------------------------------------------------
(* The theorems.                                                           *)

LEMMA StutterStep == IInv /\ UNCHANGED vars => IInv'
<1> SUFFICES ASSUME IInv, UNCHANGED vars PROVE IInv'
  OBVIOUS
<1>0. UNCHANGED <<script, recorded, step, at, raised, sequence, answer, page, listed, packet,
                  failures, status, shots, begun, inp, out, server, mixed, lib>>
  BY DEF vars, clientVars, shotVars, worldVars
<1>1. TypeOK'
  BY <1>0, SameScript DEF IInv, TypeOK
<1>2. Ending'
  BY <1>0, SameScript DEF IInv, Ending, Gone
<1>3. QED
  BY <1>0, <1>1, <1>2, ControlStep

LEMMA NextIInv == IInv /\ [Next]_vars => IInv'
<1> SUFFICES ASSUME IInv, [Next]_vars PROVE IInv'
  OBVIOUS
<1>1. CASE Client
  BY <1>1, StartStep, ReadSnapshotStep, CompareSnapshotsStep, NothingToCiteStep, SendRequestStep,
     SendNotificationStep, ReadRecordedStep, FirstByteStep, GuardExpiresStep, OutputEndsStep,
     ReadAnswerStep, SessionOverStep, CloseInputStep, ConcludeStep, WaitExpiresStep,
     SecondWaitExpiresStep DEF Client
<1>2. CASE Server
  BY <1>2, DispatchStep, SayStep, SaidStep, ServerEndsStep, TerminatedStep DEF Server
<1>3. CASE Crash \/ Hang \/ OtherWrites
  BY <1>3, CrashStep, HangStep, OtherWritesStep
<1>4. CASE UNCHANGED vars
  BY <1>4, StutterStep
<1>5. QED
  BY <1>1, <1>2, <1>3, <1>4 DEF Next

(* The invariant holds in every state of every session.                    *)
THEOREM Invariance == Spec => []IInv
<1>1. Init => IInv
  BY InitIInv
<1>2. IInv /\ [Next]_vars => IInv'
  BY NextIInv
<1>3. QED
  BY <1>1, <1>2, PTL DEF Spec

(* Every variable keeps its type: a client numbers its requests, holds one *)
(* open, and leaves with a status of 0 or 1 (the docs/qa clients, rpc).    *)
THEOREM Typed == Spec => []TypeOK
<1>1. IInv => TypeOK
  BY DEF IInv
<1>2. QED
  BY <1>1, Invariance, PTL

(* An answer saved under the label of a request answers that request,      *)
(* whatever expires, hangs or crashes (rpc, mcpdispatchsession).           *)
THEOREM Matched == Spec => AnswersMatch
<1>1. IInv /\ [Next]_vars => [answer' # answer => answer' = sequence]_vars
  <2> SUFFICES ASSUME IInv, Next, answer' # answer PROVE answer' = sequence
    OBVIOUS
  <2>1. CASE ReadAnswer
    BY <2>1, Ways
  <2>2. CASE Client /\ ~ReadAnswer
    BY <2>2 DEF Client, Start, ReadSnapshot, CompareSnapshots, NothingToCite, SendRequest,
       SendNotification, ReadRecorded, FirstByte, GuardExpires, OutputEnds, SessionOver, CloseInput,
       Conclude, WaitExpires, SecondWaitExpires
  <2>3. CASE Server
    BY <2>3 DEF Server, Dispatch, Say, Said, ServerEnds, Terminated, clientVars
  <2>4. CASE Crash \/ Hang \/ OtherWrites
    BY <2>4 DEF Crash, Hang, OtherWrites, clientVars
  <2>5. QED
    BY <2>1, <2>2, <2>3, <2>4 DEF Next
<1>2. QED
  BY <1>1, Invariance, PTL DEF Spec, AnswersMatch

(* The pages of a listing hold no source twice and every source that was   *)
(* there all the time, for every size of a page and whatever is published  *)
(* between two pages (run_mcp's loop over rag_source_list).                *)
THEOREM ExactPages == Spec => []PagesAreExact
<1>1. IInv => PagesAreExact
  <2> SUFFICES ASSUME IInv PROVE PagesAreExact
    OBVIOUS
  <2>1. Cardinality(Range(page.got)) = Len(page.got)
    BY NoRowTwice DEF IInv, Paging
  <2>2. Cardinality(Range(listed)) = Len(listed)
    BY NoRowTwice DEF IInv, Listing
  <2>3. listed # <<>> /\ "outcome" \notin failures => Known \ lib.closed \subseteq Range(listed)
    <3>1. step \in Nat
      BY Bounds DEF IInv
    <3>2. listed # <<>> => Checking /\ step > 10
      BY <3>1 DEF IInv, Listing
    <3>3. QED
      BY <3>2 DEF IInv, Listing
  <2>4. QED
    BY <2>1, <2>2, <2>3 DEF PagesAreExact
<1>2. QED
  BY <1>1, Invariance, PTL

(* A session that run_mcp or probe_wide calls a success ran to its end and *)
(* was answered from one state of the library, and run_mcp listed exactly  *)
(* the sources of that state, whatever other processes wrote between any   *)
(* two reads of its snapshots (run_mcp's checks, probe_wide's checks).     *)
THEOREM Verdicts == Spec => []CleanVerdict
<1>1. IInv => CleanVerdict
  <2> SUFFICES ASSUME IInv, status = 0, Checking \/ Probing
               PROVE  /\ step = Len(Session) + 1 /\ server.code = 0 /\ ~mixed
                      /\ Checking => /\ Range(listed) = Open(begun)
                                     /\ Cardinality(Open(begun)) = Len(listed)
    BY DEF CleanVerdict
  <2>1. step = Len(Session) + 1 /\ server.code = 0 /\ failures = {} /\ ~mixed
    BY DEF IInv, Ending
  <2>2. ASSUME Checking PROVE Range(listed) = Open(begun)
    <3>1. Verdict \in 1..Len(Session) /\ Verdict > 18 /\ Len(Session) \in Nat
      BY <2>2, Bounds DEF IInv, Scripted
    <3>2. step > 10
      BY <2>1, <3>1
    <3>3. QED
      BY <2>1, <2>2, <3>2 DEF IInv, Listing
  <2>3. Cardinality(Range(listed)) = Len(listed)
    BY NoRowTwice DEF IInv, Listing
  <2>4. QED
    BY <2>1, <2>2, <2>3
<1>2. QED
  BY <1>1, Invariance, PTL

=============================================================================
