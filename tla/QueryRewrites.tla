---------------------------- MODULE QueryRewrites ----------------------------
(***************************************************************************)
(* The diagnostic that accepted the rewritten queries of schema 18         *)
(* (docs/qa/sql-performance-fixes-20260913/measure.py), and the queries it *)
(* compares: the concepts a question names (_anchors of ragretrieval),     *)
(* the concepts an alias issue may mean (ragbacklog) and the pages after a *)
(* cursor (ragrepository).  It copies a database that others may write to, *)
(* runs the old queries, adds the indexes, runs the new ones and asserts   *)
(* that every result is the same.                                          *)
(*                                                                         *)
(* Texts are sequences of characters, characters are numbers in their      *)
(* order, and labels are in lower case.  Timings, query plans and the      *)
(* cases whose SQL the rewrite leaves alone are left out.                  *)
(***************************************************************************)
EXTENDS Integers, Sequences, SequencesExt, FiniteSets

CONSTANTS
    Databases,  \* the contents a library may have
    Questions,  \* normalized questions
    PageLimit,  \* rows of a page
    Back,       \* the late generation page starts this far from the end
    MaxSkip,    \* model bound: rows before the cursor
    Base, Width \* a generation is written with Width digits of this base

Sep == 1    \* char(31): generated identities have later ones only
Blank == 2  \* the space
Minus == -1 \* '-', below every digit

(* What the compared queries read of a library.  Alias target 0 is that of *)
(* an ambiguous alias; support rows are <<lineage group, support id>>.     *)
Text == Seq(Int)
Identity == Seq({ch \in Int : ch > Sep})
Table(rows) == {T \in SUBSET rows : IsFiniteSet(T)}
Library ==
    [concepts : Seq([label : Text, retired : BOOLEAN, closed : BOOLEAN]),
     aliases  : Table([label : Text, target : Nat, closed : BOOLEAN]),
     support  : Table(Text \X Identity),
     last     : Nat,
     issues   : SUBSET [label : Text, aliases : SUBSET Text],
     indexed  : BOOLEAN]

(* A lineage group may be any text (addproposalsupport); most have no       *)
(* character up to the separator.                                          *)
PlainGroups(db) == \A row \in db.support : row[1] \in Identity

(* Numbers below Power[k] have k digits.                                   *)
Power[k \in 0..Width] == IF k = 0 THEN 1 ELSE Base * Power[k - 1]

ASSUME RewriteAssumption ==
    /\ Databases \subseteq Library /\ Questions \subseteq Text
    /\ Base \in Nat \ {0, 1} /\ Width \in Nat \ {0}
    /\ \A db \in Databases : db.last \in 1..(Power[Width] - 1)
    /\ PageLimit \in Nat \ {0} /\ MaxSkip \in Nat
    /\ Back \in Nat /\ Back < Power[Width - 1]

VARIABLES
    at,        \* the next statement of the script, or how it ended
    source,    \* the library, which others may publish to
    target,    \* the diagnostic copy
    fresh,     \* the target path names no file yet
    skip,      \* rows before the cursor (OFFSET)
    before,    \* results of the old queries of the cases
    equal      \* what has been compared: name |-> BOOLEAN

vars == <<at, source, target, fresh, skip, before, equal>>

-----------------------------------------------------------------------------
(* Texts. *)

Padded(text) == <<Blank>> \o text \o <<Blank>>

Occurs(part, text) ==
    \E i \in 0..(Len(text) - Len(part)) : SubSeq(text, i + 1, i + Len(part)) = part

(* Byte order: a proper prefix comes first.                                *)
Less(s, t) ==
    \E n \in 0..Len(s) :
        /\ n < Len(t) /\ SubSeq(s, 1, n) = SubSeq(t, 1, n)
        /\ n = Len(s) \/ s[n + 1] < t[n + 1]

PairLess(p, q) == Less(p[1], q[1]) \/ (p[1] = q[1] /\ Less(p[2], q[2]))

(* ORDER BY: every row at the place that the rows before it leave.         *)
Sorted(S, Before(_, _)) ==
    [n \in 1..Cardinality(S) |->
        CHOOSE x \in S : Cardinality({y \in S : Before(y, x)}) = n - 1]

-----------------------------------------------------------------------------
(* The concepts a question names.                                          *)

Concepts(db) == {c \in DOMAIN db.concepts : ~db.concepts[c].closed}
Aliases(db) == {a \in db.aliases : ~a.closed}

CatalogueLess(x, y) ==
    \/ x.origin < y.origin
    \/ x.origin = y.origin /\ x.concept < y.concept
    \/ x.origin = y.origin /\ x.concept = y.concept /\ Less(x.label, y.label)

Named(db) ==
    {[origin |-> 0, concept |-> c, label |-> db.concepts[c].label] : c \in Concepts(db)}
    \cup {[origin |-> 1, concept |-> a.target, label |-> a.label] :
            a \in {b \in Aliases(db) : b.target # 0}}

(* The old algorithm walks the catalogue, concepts first, and keeps the    *)
(* first occurrence of every concept whose label is a phrase of the        *)
(* question.                                                               *)
Expected(db, question) ==
    LET rows  == {row \in Named(db) :
                    row.label # <<>> /\ Occurs(Padded(row.label), Padded(question))}
        found == Sorted(rows, CatalogueLess)
        first == {n \in DOMAIN found : \A k \in 1..(n - 1) : found[k].concept # found[n].concept}
        places == Sorted(first, <)
    IN [n \in DOMAIN places |-> found[places[n]].concept]

(* The recursive term of boundaries: the start, then every space.          *)
Boundaries(text) == {0} \cup {p \in 1..Len(text) : text[p] = Blank}

(* Fault: one word at a time, between neighbouring boundaries. *)
WordPhrases(text) ==
    {SubSeq(text, p[1] + 1, p[2] - 1) :
        p \in {q \in Boundaries(text) \X Boundaries(text) :
                 q[2] > q[1] + 1 /\ \A e \in Boundaries(text) : ~(q[1] < e /\ e < q[2])}}

Phrases(text) ==
    {SubSeq(text, p[1] + 1, p[2] - 1) :
        p \in {q \in Boundaries(text) \X Boundaries(text) : q[2] > q[1] + 1}}

Matches(db, question) ==
    {row \in Named(db) : row.label \in Phrases(question \o <<Blank>>)}

(* GROUP BY concept_id ORDER BY min(origin), concept_id *)
Anchors(db, question) ==
    LET found == Matches(db, question)
        Late(c) == \A row \in found : row.concept = c => row.origin = 1
        Order(c, d) == \/ ~Late(c) /\ Late(d)
                       \/ (Late(c) <=> Late(d)) /\ c < d
    IN Sorted({row.concept : row \in found}, Order)

-----------------------------------------------------------------------------
(* The concepts an alias issue may mean.                                   *)

Usable(db) == {c \in Concepts(db) : ~db.concepts[c].retired}

OldCandidates(db, issue) ==
    {c \in Usable(db) :
        \/ db.concepts[c].label = issue.label
        \/ \E a \in Aliases(db) :
              a.target = c /\ (a.label = issue.label \/ a.label \in issue.aliases)}

NewCandidates(db, issue) ==
    Usable(db) \cap ({c \in Concepts(db) : db.concepts[c].label = issue.label}
                     \cup {a.target : a \in
                             {b \in Aliases(db) : b.label \in {issue.label} \cup issue.aliases}})

-----------------------------------------------------------------------------
(* Pages.                                                                  *)

Joined(row) == row[1] \o <<Sep>> \o row[2]

FirstRows(rows) == SubSeq(rows, 1, IF Len(rows) > PageLimit THEN PageLimit ELSE Len(rows))

OldRows(rows, cursor) == {r \in rows : Less(cursor, Joined(r))}
OldPage(rows, cursor) == FirstRows(Sorted(OldRows(rows, cursor), PairLess))

(* instr: the first separator.                                             *)
Split(cursor) ==
    LET n == SelectInSeq(cursor, LAMBDA ch : ch = Sep)
    IN <<SubSeq(cursor, 1, n - 1), SubSeq(cursor, n + 1, Len(cursor))>>

NewRows(rows, cursor) == {r \in rows : PairLess(Split(cursor), r)}
NewPage(rows, cursor) == FirstRows(Sorted(NewRows(rows, cursor), PairLess))

(* printf('%020d'), and the same of a Python format: a sign takes the      *)
(* place of a digit.                                                       *)
Digits(n, width) == [i \in 1..width |-> (n \div Power[width - i]) % Base]
Written(n) == IF n < 0 THEN <<Minus>> \o Digits(-n, Width - 1) ELSE Digits(n, Width)

(* CAST(? AS INTEGER) *)
Value(text) == CHOOSE n \in -Back..(Power[Width] - 1) : Written(n) = text

OldGenerations(last, cursor) ==
    FirstRows(Sorted({g \in 1..last : Less(cursor, Written(g))}, <))
NewGenerations(last, cursor) ==
    FirstRows(Sorted({g \in 1..last : g > Value(cursor)}, <))

-----------------------------------------------------------------------------
(* The script. *)

(* The new file, before the backup has filled it.                          *)
NoCopy == [concepts |-> <<>>, aliases |-> {}, support |-> {}, last |-> 0, issues |-> {},
           indexed |-> FALSE]

Raised == at' = "raised" /\ UNCHANGED <<source, target, fresh, skip, before, equal>>

(* 'Choose a fresh diagnostic database'.                                   *)
Stale == at = "start" /\ ~fresh /\ Raised

(* The copy is one read transaction of the source.                         *)
Backup ==
    /\ at = "start" /\ fresh
    /\ target' = source /\ fresh' = FALSE /\ at' = "before"
    /\ UNCHANGED <<source, skip, before, equal>>

Before ==
    /\ at = "before"
    /\ before' = [i \in target.issues |-> OldCandidates(target, i)]
    /\ at' = "indexes"
    /\ UNCHANGED <<source, target, fresh, skip, equal>>

(* A library of schema 18 has the indexes: CREATE INDEX fails.             *)
AlreadyIndexed == at = "indexes" /\ target.indexed /\ Raised

Indexes ==
    /\ at = "indexes" /\ ~target.indexed
    /\ target' = [target EXCEPT !.indexed = TRUE] /\ at' = "after"
    /\ UNCHANGED <<source, fresh, skip, before, equal>>

Compared(name, same) == equal' = [n \in DOMAIN equal \cup {name} |->
                                    IF n = name THEN same ELSE equal[n]]

(* Fault: the new queries read the library itself. *)
AfterOnSource ==
    /\ at = "after"
    /\ Compared("cases", before = [i \in source.issues |-> NewCandidates(source, i)])
    /\ at' = "anchors"
    /\ UNCHANGED <<source, target, fresh, skip, before>>

After ==
    /\ at = "after"
    /\ Compared("cases", before = [i \in target.issues |-> NewCandidates(target, i)])
    /\ at' = "anchors"
    /\ UNCHANGED <<source, target, fresh, skip, before>>

CompareAnchors ==
    /\ at = "anchors"
    /\ Compared("anchors", \A q \in Questions : Expected(target, q) = Anchors(target, q))
    /\ at' = "pages"
    /\ UNCHANGED <<source, target, fresh, skip, before>>

(* fetchone() of an OFFSET beyond the last row is None.                    *)
TooFewRows == at = "pages" /\ Cardinality(target.support) <= skip /\ Raised

ComparePages ==
    /\ at = "pages" /\ Cardinality(target.support) > skip
    /\ LET cursor == Joined(Sorted(target.support, PairLess)[skip + 1])
           late == Written(target.last - Back)
       IN Compared("pages", /\ OldPage(target.support, cursor) = NewPage(target.support, cursor)
                            /\ OldGenerations(target.last, late) = NewGenerations(target.last, late))
    /\ at' = "result"
    /\ UNCHANGED <<source, target, fresh, skip, before>>

(* The result is written before the assertion is made.                     *)
Result ==
    /\ at = "result"
    /\ at' = IF \A n \in DOMAIN equal : equal[n] THEN "equal" ELSE "raised"
    /\ UNCHANGED <<source, target, fresh, skip, before, equal>>

(* Another process withdraws a concept or an alias.  Before the backup it  *)
(* would lead to a library that the script may as well start with.         *)
Withdrawn(db) ==
    {[db EXCEPT !.concepts[c].closed = TRUE] : c \in Concepts(db)}
    \cup {[db EXCEPT !.aliases = (@ \ {a}) \cup {[a EXCEPT !.closed = TRUE]}] : a \in Aliases(db)}

Publish ==
    /\ at \notin {"start", "equal", "raised"}
    /\ source' \in Withdrawn(source)
    /\ UNCHANGED <<at, target, fresh, skip, before, equal>>

Init ==
    /\ at = "start" /\ source \in Databases /\ target = NoCopy
    /\ fresh \in BOOLEAN /\ skip \in 0..MaxSkip
    /\ before = <<>> /\ equal = <<>>

Next ==
    \/ Stale \/ Backup \/ Before \/ AlreadyIndexed \/ Indexes \/ After
    \/ CompareAnchors \/ TooFewRows \/ ComparePages \/ Result \/ Publish

Spec == Init /\ [][Next]_vars

-----------------------------------------------------------------------------
(* Properties. *)

(* The recursive phrase query names the same concepts in the same order as *)
(* the walk over the catalogue, for questions and labels with leading,     *)
(* trailing and repeated spaces, empty labels, labels shared by concepts   *)
(* and aliases, ambiguous and withdrawn aliases (_anchors).                *)
AnchorsAgree == "anchors" \in DOMAIN equal => equal.anchors

(* The rewritten cases and pages return the rows of the old ones, whatever *)
(* others publish to the library between the two: candidates found by an   *)
(* index lookup instead of an outer join, and rows after a cursor compared *)
(* as a pair and as a number instead of as one text.  The pages need       *)
(* libraries with PlainGroups.                                             *)
CasesAgree == "cases" \in DOMAIN equal => equal.cases
PagesAgree == "pages" \in DOMAIN equal => equal.pages
RewritesAgree == CasesAgree /\ PagesAgree
=============================================================================
