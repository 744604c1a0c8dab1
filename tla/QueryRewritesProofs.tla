------------------------- MODULE QueryRewritesProofs -------------------------
(***************************************************************************)
(* Why the rewritten queries of QueryRewrites return the rows of the old   *)
(* ones, for texts and libraries of any size: the phrases between two      *)
(* boundaries of a question are the labels it contains between spaces, the *)
(* walk over the catalogue and the grouped query list the same concepts in *)
(* the same order, the candidates of an alias issue are the same, and the  *)
(* comparison of a cursor as a pair or as a number is its comparison as    *)
(* one text, so that the pages after a row are the same.                   *)
(***************************************************************************)
EXTENDS QueryRewrites, SequenceTheorems, FiniteSetTheorems, FunctionTheorems,
        WellFoundedInduction, TLAPS

(* A part of a text, character by character.                               *)
LEMMA PartOfText ==
    ASSUME NEW t \in Text, NEW i \in Nat, NEW m \in Nat, i + m <= Len(t)
    PROVE  /\ SubSeq(t, i + 1, i + m) \in Text
           /\ Len(SubSeq(t, i + 1, i + m)) = m
           /\ \A k \in 1..m : SubSeq(t, i + 1, i + m)[k] = t[i + k]
<1>1. \A j \in (i + 1)..(i + m) : t[j] \in Int
  BY DEF Text
<1>2. /\ SubSeq(t, i + 1, i + m) \in Seq(Int)
      /\ Len(SubSeq(t, i + 1, i + m)) = IF i + 1 <= i + m THEN (i + m) - (i + 1) + 1 ELSE 0
      /\ \A k \in 1..((i + m) - (i + 1) + 1) : SubSeq(t, i + 1, i + m)[k] = t[(i + 1) + k - 1]
  BY <1>1, SubSeqProperties
<1>3. \A k \in 1..m : (i + 1) + k - 1 = i + k
  OBVIOUS
<1> QED
  BY <1>2, <1>3 DEF Text

(* Texts of one length that agree everywhere are the same.                 *)
LEMMA SameText ==
    ASSUME NEW s \in Text, NEW t \in Text, Len(s) = Len(t), \A k \in 1..Len(s) : s[k] = t[k]
    PROVE  s = t
BY SeqEqual DEF Text

(* A padded text, character by character.                                  *)
LEMMA PaddedText ==
    ASSUME NEW text \in Text
    PROVE  /\ Padded(text) \in Text
           /\ Len(Padded(text)) = Len(text) + 2
           /\ Padded(text)[1] = Blank
           /\ Padded(text)[Len(text) + 2] = Blank
           /\ \A k \in 1..Len(text) : Padded(text)[k + 1] = text[k]
BY DEF Padded, Text, Blank

(* The question as the phrase query sees it is the padded question without *)
(* its first space.                                                        *)
LEMMA ShiftedText ==
    ASSUME NEW text \in Text
    PROVE  LET t == text \o <<Blank>> IN
           /\ t \in Text
           /\ Len(t) = Len(text) + 1
           /\ \A k \in 1..(Len(text) + 1) : t[k] = Padded(text)[k + 1]
BY DEF Padded, Text, Blank

(* A label is a phrase of the question exactly when the padded question    *)
(* contains the padded label: the boundaries of _anchors take the place of *)
(* the containment test of the old walk over the catalogue.                *)
THEOREM PhrasesAreContained ==
    ASSUME NEW label \in Text, label # <<>>, NEW question \in Text
    PROVE  label \in Phrases(question \o <<Blank>>) <=> Occurs(Padded(label), Padded(question))
<1> DEFINE t == question \o <<Blank>>
           n == Len(question)
           m == Len(label)
           P == Padded(question)
           L == Padded(label)
<1>1. /\ n \in Nat /\ m \in Nat \ {0}
      /\ t \in Text /\ Len(t) = n + 1
      /\ P \in Text /\ Len(P) = n + 2 /\ P[1] = Blank
      /\ \A k \in 1..(n + 1) : t[k] = P[k + 1]
  <2>1. n \in Nat /\ m \in Nat \ {0}
    BY DEF Text
  <2> QED
    BY <2>1, ShiftedText, PaddedText
<1>2. /\ L \in Text /\ Len(L) = m + 2 /\ L[1] = Blank /\ L[m + 2] = Blank
      /\ \A k \in 1..m : L[k + 1] = label[k]
  BY PaddedText
<1>0. label \in Text /\ Len(label) = m
  OBVIOUS
<1> HIDE DEF t, n, m, P, L
<1>3. \A p \in 0..(n + 1) : p \in Boundaries(t) <=> P[p + 1] = Blank
  BY <1>1 DEF Boundaries
<1>4. Boundaries(t) \subseteq 0..(n + 1)
  BY <1>1 DEF Boundaries
<1>5. ASSUME label \in Phrases(t)
      PROVE  Occurs(L, P)
  <2>1. PICK a \in Boundaries(t), b \in Boundaries(t) : b > a + 1 /\ label = SubSeq(t, a + 1, b - 1)
    BY <1>5 DEF Phrases
  <2>2. a \in 0..(n + 1) /\ b \in 0..(n + 1) /\ m = b - a - 1 /\ b = a + m + 1
    <3>1. /\ a \in 0..(n + 1) /\ b \in 0..(n + 1)
          /\ a + 1 \in Int /\ b - 1 \in Int /\ a + 1 <= b - 1
      BY <2>1, <1>4, <1>1
    <3>2. b - 1 = a + (b - a - 1) /\ b - a - 1 \in Nat /\ a + (b - a - 1) <= Len(t)
      BY <3>1, <1>1
    <3>3. Len(label) = b - a - 1
      BY <3>1, <3>2, <2>1, <1>1, PartOfText
    <3> QED
      BY <3>1, <3>3, <1>0, <1>1
  <2>3. \A k \in 1..m : label[k] = t[a + k]
    <3>1. b - 1 = a + m /\ a + m <= Len(t) /\ a \in Nat /\ m \in Nat
      BY <2>2, <1>1
    <3> QED
      BY <3>1, <2>1, <1>1, PartOfText
  <2>4. a \in 0..(Len(P) - Len(L))
    BY <2>2, <1>1, <1>2
  <2>5. SubSeq(P, a + 1, a + Len(L)) = L
    <3> DEFINE S == SubSeq(P, a + 1, a + Len(L))
    <3>1. S \in Text /\ Len(S) = m + 2 /\ \A k \in 1..(m + 2) : S[k] = P[a + k]
      <4>1. a \in Nat /\ Len(L) \in Nat /\ a + Len(L) <= Len(P) /\ P \in Text
        BY <2>2, <1>1, <1>2
      <4> HIDE DEF S
      <4>2. /\ SubSeq(P, a + 1, a + Len(L)) \in Text
            /\ Len(SubSeq(P, a + 1, a + Len(L))) = Len(L)
            /\ \A k \in 1..Len(L) : SubSeq(P, a + 1, a + Len(L))[k] = P[a + k]
        BY ONLY <4>1, PartOfText
      <4> QED
        BY ONLY <4>2, <1>2 DEF S
    <3>2. \A k \in 1..(m + 2) : S[k] = L[k]
      <4>1. TAKE k \in 1..(m + 2)
      <4>2. CASE k = 1
        BY <4>2, <3>1, <2>1, <2>2, <1>3, <1>2
      <4>3. CASE k = m + 2
        <5>1. S[k] = P[b + 1]
          BY <4>3, <3>1, <2>2, <1>1
        <5> QED
          BY <5>1, <4>3, <2>1, <2>2, <1>3, <1>2
      <4>4. CASE k # 1 /\ k # m + 2
        <5>1. PICK j \in 1..m : k = j + 1
          <6>1. k - 1 \in 1..m /\ k = (k - 1) + 1
            BY <4>4, <1>1
          <6> QED BY <6>1
        <5>2. S[k] = P[a + j + 1] /\ a + j \in 1..(n + 1)
          BY <5>1, <3>1, <2>2, <1>1
        <5>3. S[k] = t[a + j]
          BY <5>2, <1>1
        <5> QED
          BY <5>1, <5>3, <2>3, <1>2
      <4> QED BY <4>2, <4>3, <4>4
    <3> HIDE DEF S
    <3>3. S = L
      BY <3>1, <3>2, <1>2, SameText
    <3> QED BY <3>3 DEF S
  <2> QED
    BY <2>4, <2>5 DEF Occurs
<1>6. ASSUME Occurs(L, P)
      PROVE  label \in Phrases(t)
  <2>1. PICK i \in 0..(Len(P) - Len(L)) : SubSeq(P, i + 1, i + Len(L)) = L
    BY <1>6 DEF Occurs
  <2>2. i \in 0..(n - m) /\ i + m + 1 \in 0..(n + 1) /\ i \in 0..(n + 1)
    BY <2>1, <1>1, <1>2
  <2>3. \A k \in 1..(m + 2) : L[k] = P[i + k]
    <3>1. i \in Nat /\ Len(L) \in Nat /\ i + Len(L) <= Len(P)
      BY <2>2, <1>1, <1>2
    <3> QED
      BY <3>1, <2>1, <1>1, <1>2, PartOfText
  <2>4. i \in Boundaries(t)
    BY <2>2, <2>3, <1>1, <1>2, <1>3
  <2>5. i + m + 1 \in Boundaries(t)
    <3>1. L[m + 2] = P[i + m + 2]
      BY <2>3, <2>2, <1>1
    <3>2. P[(i + m + 1) + 1] = Blank
      <4>1. (i + m + 1) + 1 = i + m + 2
        BY <2>2, <1>1
      <4> QED BY <4>1, <3>1, <1>2
    <3> QED BY <3>2, <2>2, <1>3
  <2>6. SubSeq(t, i + 1, i + m) = label
    <3> DEFINE S == SubSeq(t, i + 1, i + m)
    <3>1. S \in Text /\ Len(S) = m /\ \A k \in 1..m : S[k] = t[i + k]
      <4>1. i \in Nat /\ m \in Nat /\ i + m <= Len(t) /\ t \in Text
        BY <2>2, <1>1
      <4> HIDE DEF S
      <4>2. /\ SubSeq(t, i + 1, i + m) \in Text
            /\ Len(SubSeq(t, i + 1, i + m)) = m
            /\ \A k \in 1..m : SubSeq(t, i + 1, i + m)[k] = t[i + k]
        BY ONLY <4>1, PartOfText
      <4> QED
        BY ONLY <4>2 DEF S
    <3>2. \A k \in 1..m : S[k] = label[k]
      <4>1. TAKE k \in 1..m
      <4>2. L[k + 1] = P[i + (k + 1)] /\ L[k + 1] = label[k]
        BY <2>3, <1>2, <1>1
      <4>3. t[i + k] = P[i + k + 1]
        <5>1. i + k \in 1..(n + 1)
          BY <2>2, <1>1
        <5> QED BY <5>1, <1>1
      <4>4. i + (k + 1) = i + k + 1
        BY <2>2, <1>1
      <4> QED BY <4>2, <4>3, <4>4, <3>1
    <3> HIDE DEF S
    <3>3. S = label
      BY <3>1, <3>2, <1>0, SameText
    <3> QED BY <3>3 DEF S
  <2>7. <<i, i + m + 1>> \in {q \in Boundaries(t) \X Boundaries(t) : q[2] > q[1] + 1}
    BY <2>4, <2>5, <2>2, <1>1
  <2>8. SubSeq(t, i + 1, (i + m + 1) - 1) = label
    BY <2>6, <2>2, <1>1
  <2> QED
    BY <2>7, <2>8 DEF Phrases
<1> QED
  BY <1>5, <1>6 DEF t, P, L
-----------------------------------------------------------------------------
(* The recursive phrase query finds the rows of the catalogue that the walk *)
(* over it finds, for every library and question (_anchors).                *)
THEOREM AnchorsFindTheSame ==
    ASSUME NEW db, \A row \in Named(db) : row.label \in Text, NEW question \in Text
    PROVE  Matches(db, question) =
               {row \in Named(db) : row.label # <<>> /\ Occurs(Padded(row.label), Padded(question))}
<1> DEFINE t == question \o <<Blank>>
<1>1. ASSUME NEW row \in Named(db)
      PROVE  row.label \in Phrases(t)
               <=> row.label # <<>> /\ Occurs(Padded(row.label), Padded(question))
  <2>1. CASE row.label # <<>>
    BY <1>1, <2>1, PhrasesAreContained
  <2>2. CASE row.label = <<>>
    <3>1. SUFFICES ASSUME row.label \in Phrases(t) PROVE FALSE
      BY <2>2
    <3>2. PICK a \in Boundaries(t), b \in Boundaries(t) : b > a + 1 /\ <<>> = SubSeq(t, a + 1, b - 1)
      BY <3>1, <2>2 DEF Phrases
    <3>3. t \in Text /\ Len(t) \in Nat
      BY ShiftedText DEF Text
    <3>4. a \in Nat /\ b \in Nat /\ b <= Len(t)
      BY <3>3 DEF Boundaries
    <3> HIDE DEF t
    <3>5. b - 1 = a + (b - a - 1) /\ b - a - 1 \in Nat \ {0} /\ a + (b - a - 1) <= Len(t)
      BY <3>2, <3>3, <3>4
    <3>6. Len(SubSeq(t, a + 1, b - 1)) = b - a - 1
      BY <3>3, <3>4, <3>5, PartOfText
    <3> QED
      BY <3>2, <3>5, <3>6
  <2> QED BY <2>1, <2>2
<1> QED
  BY <1>1 DEF Matches

(* The index lookup finds the candidates of the outer join, also where an  *)
(* alias and the label of a concept name the same thing.                   *)
LEMMA SameCandidates ==
    ASSUME NEW db, NEW issue
    PROVE  OldCandidates(db, issue) = NewCandidates(db, issue)
BY DEF OldCandidates, NewCandidates, Usable

-----------------------------------------------------------------------------
(* The copy keeps what the cases read of it, and before holds the          *)
(* candidates of the copy until they are compared.                         *)
Typed == source \in Library /\ target \in Library

Prepared == at \in {"indexes", "after"} => before = [i \in target.issues |-> OldCandidates(target, i)]

CasesInv == Typed /\ Prepared /\ CasesAgree

LEMMA CasesInit == Init => CasesInv
<1>1. NoCopy \in Library
  <2>1. \A rows : {} \in Table(rows)
    BY FS_EmptySet DEF Table
  <2>2. \A rows : <<>> \in Seq(rows)
    OBVIOUS
  <2> QED
    BY <2>1, <2>2 DEF NoCopy, Library
<1> QED
  BY <1>1, RewriteAssumption DEF Init, CasesInv, Typed, Prepared, CasesAgree

(* A withdrawal is a library again.                                        *)
LEMMA WithdrawnLibrary ==
    ASSUME NEW db \in Library, NEW new \in Withdrawn(db)
    PROVE  new \in Library
<1>1. CASE \E c \in Concepts(db) : new = [db EXCEPT !.concepts[c].closed = TRUE]
  <2>1. PICK c \in Concepts(db) : new = [db EXCEPT !.concepts[c].closed = TRUE]
    BY <1>1
  <2> DEFINE Row == [label : Text, retired : BOOLEAN, closed : BOOLEAN]
             kept == [db.concepts EXCEPT ![c].closed = TRUE]
  <2>2. db.concepts \in Seq(Row) /\ c \in 1..Len(db.concepts)
    BY <2>1 DEF Library, Concepts
  <2>3. [db.concepts[c] EXCEPT !.closed = TRUE] \in Row
    <3> DEFINE row == db.concepts[c]
    <3> HIDE DEF Row
    <3>1. row \in Row
      BY <2>2
    <3> HIDE DEF row
    <3> USE DEF Row
    <3>2. [row EXCEPT !.closed = TRUE] \in Row
      BY <3>1
    <3> QED
      BY <3>2 DEF row
  <2> HIDE DEF Row
  <2>4. kept \in Seq(Row)
    BY <2>2, <2>3
  <2>5. new = [db EXCEPT !.concepts = kept]
    BY <2>1 DEF Library
  <2> QED
    BY <2>4, <2>5 DEF Library, Row
<1>2. CASE \E a \in Aliases(db) :
             new = [db EXCEPT !.aliases = (@ \ {a}) \cup {[a EXCEPT !.closed = TRUE]}]
  <2>1. PICK a \in Aliases(db) :
           new = [db EXCEPT !.aliases = (@ \ {a}) \cup {[a EXCEPT !.closed = TRUE]}]
    BY <1>2
  <2> DEFINE Row == [label : Text, target : Nat, closed : BOOLEAN]
  <2>2. db.aliases \subseteq Row /\ a \in Row /\ IsFiniteSet(db.aliases)
    BY <2>1 DEF Library, Table, Aliases
  <2>3. [a EXCEPT !.closed = TRUE] \in Row
    BY <2>2
  <2> HIDE DEF Row
  <2>4. (db.aliases \ {a}) \cup {[a EXCEPT !.closed = TRUE]} \in Table(Row)
    BY <2>2, <2>3, FS_RemoveElement, FS_AddElement DEF Table
  <2> QED
    BY <2>1, <2>4 DEF Library, Row
<1> QED
  BY <1>1, <1>2 DEF Withdrawn

LEMMA CasesNext == CasesInv /\ [Next]_vars => CasesInv'
<1> SUFFICES ASSUME CasesInv, [Next]_vars PROVE CasesInv'
  OBVIOUS
<1> USE DEF CasesInv
<1>1. CASE Stale \/ AlreadyIndexed \/ TooFewRows
  BY <1>1 DEF Stale, AlreadyIndexed, TooFewRows, Raised, Typed, Prepared, CasesAgree
<1>2. CASE Backup
  BY <1>2 DEF Backup, Typed, Prepared, CasesAgree
<1>3. CASE Before
  BY <1>3 DEF Before, Typed, Prepared, CasesAgree
<1>4. CASE Indexes
  <2>1. target' \in Library /\ target'.issues = target.issues
        /\ target'.concepts = target.concepts /\ target'.aliases = target.aliases
    BY <1>4 DEF Indexes, Typed, Library
  <2>2. \A i : OldCandidates(target', i) = OldCandidates(target, i)
    BY <2>1 DEF OldCandidates, Usable, Concepts, Aliases
  <2> QED
    BY <1>4, <2>1, <2>2 DEF Indexes, Typed, Prepared, CasesAgree
<1>5. CASE After
  <2>1. before = [i \in target.issues |-> NewCandidates(target, i)]
    BY <1>5, SameCandidates DEF After, Prepared
  <2> QED
    BY <1>5, <2>1 DEF After, Compared, Typed, Prepared, CasesAgree
<1>6. CASE CompareAnchors
  BY <1>6 DEF CompareAnchors, Compared, Typed, Prepared, CasesAgree
<1>7. CASE ComparePages
  BY <1>7 DEF ComparePages, Compared, Typed, Prepared, CasesAgree
<1>8. CASE Result
  BY <1>8 DEF Result, Typed, Prepared, CasesAgree
<1>9. CASE Publish
  BY <1>9, WithdrawnLibrary DEF Publish, Typed, Prepared, CasesAgree
<1>10. CASE UNCHANGED vars
  BY <1>10 DEF vars, Typed, Prepared, CasesAgree
<1> QED
  BY <1>1, <1>2, <1>3, <1>4, <1>5, <1>6, <1>7, <1>8, <1>9, <1>10 DEF Next

(* The cases of the diagnostic never differ, whatever others publish while *)
(* it runs: the old and the new queries read the same copy, and find the   *)
(* same candidates in every library.                                       *)
THEOREM Cases == Spec => []CasesAgree
<1>1. CasesInv => CasesAgree
  BY DEF CasesInv
<1> QED
  BY <1>1, CasesInit, CasesNext, PTL DEF Spec

-----------------------------------------------------------------------------
(* n is where s and t part, s being the lesser.                            *)
Parts(s, t, n) ==
    /\ n \in 0..Len(s) /\ n < Len(t)
    /\ \A k \in 1..n : s[k] = t[k]
    /\ n = Len(s) \/ s[n + 1] < t[n + 1]

(* The first characters of a text.                                         *)
LEMMA PrefixOfText ==
    ASSUME NEW t \in Text, NEW n \in Nat, n <= Len(t)
    PROVE  /\ SubSeq(t, 1, n) \in Text
           /\ Len(SubSeq(t, 1, n)) = n
           /\ \A k \in 1..n : SubSeq(t, 1, n)[k] = t[k]
<1>1. \A j \in 1..n : t[j] \in Int
  BY DEF Text
<1>2. /\ SubSeq(t, 1, n) \in Seq(Int)
      /\ Len(SubSeq(t, 1, n)) = IF 1 <= n THEN n - 1 + 1 ELSE 0
      /\ \A k \in 1..(n - 1 + 1) : SubSeq(t, 1, n)[k] = t[1 + k - 1]
  BY <1>1, SubSeqProperties
<1>3. n - 1 + 1 = n /\ \A k \in 1..n : 1 + k - 1 = k
  OBVIOUS
<1> QED
  BY <1>2, <1>3 DEF Text

(* Less, character by character.                                           *)
LEMMA LessParts ==
    ASSUME NEW s \in Text, NEW t \in Text
    PROVE  Less(s, t) <=> \E n \in Nat : Parts(s, t, n)
<1>1. ASSUME NEW n \in 0..Len(s), n < Len(t)
      PROVE  SubSeq(s, 1, n) = SubSeq(t, 1, n) <=> \A k \in 1..n : s[k] = t[k]
  <2>1. Len(s) \in Nat /\ Len(t) \in Nat /\ n \in Nat /\ n <= Len(s) /\ n <= Len(t)
    BY <1>1 DEF Text
  <2> DEFINE S == SubSeq(s, 1, n)
             T == SubSeq(t, 1, n)
  <2>5. /\ S \in Text /\ Len(S) = n /\ \A k \in 1..n : S[k] = s[k]
        /\ T \in Text /\ Len(T) = n /\ \A k \in 1..n : T[k] = t[k]
    BY <2>1, PrefixOfText
  <2> HIDE DEF S, T
  <2>6. S = T <=> \A k \in 1..n : s[k] = t[k]
    BY <2>5, SameText
  <2> QED
    BY <2>6 DEF S, T
<1>2. Len(s) \in Nat
  BY DEF Text
<1> QED
  BY <1>1, <1>2 DEF Less, Parts

(* A group and an identity joined by the separator, character by character. *)
LEMMA JoinedText ==
    ASSUME NEW g \in Identity, NEW i \in Identity
    PROVE  LET J == Joined(<<g, i>>) IN
           /\ g \in Text /\ i \in Text /\ Len(g) \in Nat /\ Len(i) \in Nat
           /\ J \in Text /\ Len(J) = Len(g) + 1 + Len(i)
           /\ \A k \in 1..Len(g) : J[k] = g[k] /\ g[k] \in Int /\ g[k] > Sep
           /\ J[Len(g) + 1] = Sep
           /\ \A k \in 1..Len(i) : J[Len(g) + 1 + k] = i[k] /\ i[k] \in Int /\ i[k] > Sep
<1> DEFINE Ch == {ch \in Int : ch > Sep}
<1>1. g \in Seq(Ch) /\ i \in Seq(Ch) /\ Ch \subseteq Int /\ \A ch \in Ch : ch > Sep
  BY DEF Identity
<1> HIDE DEF Ch
<1>2. g \in Seq(Int) /\ i \in Seq(Int) /\ <<Sep>> \in Seq(Int) /\ Len(g) \in Nat /\ Len(i) \in Nat
  <2>1. \A q \in Seq(Ch) : Len(q) \in Nat /\ q \in [1..Len(q) -> Ch]
    OBVIOUS
  <2>2. \A q \in Seq(Ch) : q \in [1..Len(q) -> Int]
    BY <2>1, <1>1
  <2>3. \A q \in Seq(Ch) : q \in Seq(Int)
    BY <2>1, <2>2
  <2> QED
    BY <1>1, <2>1, <2>3 DEF Sep
<1>3. /\ \A k \in 1..Len(g) : g[k] \in Ch
      /\ \A k \in 1..Len(i) : i[k] \in Ch
  BY <1>1
<1>4. Joined(<<g, i>>) = g \o <<Sep>> \o i
  BY DEF Joined
<1>5. /\ g \o <<Sep>> \o i \in Seq(Int)
      /\ Len(g \o <<Sep>> \o i) = Len(g) + 1 + Len(i)
      /\ \A k \in 1..Len(g) : (g \o <<Sep>> \o i)[k] = g[k]
      /\ (g \o <<Sep>> \o i)[Len(g) + 1] = Sep
      /\ \A k \in 1..Len(i) : (g \o <<Sep>> \o i)[Len(g) + 1 + k] = i[k]
  BY <1>2
<1> QED
  BY <1>1, <1>2, <1>3, <1>4, <1>5 DEF Text

(* Two joined texts are ordered like their pairs: no group holds a         *)
(* character up to the separator, so a group that is a prefix of another   *)
(* comes first in both orders.                                             *)
LEMMA JoinedOrder ==
    ASSUME NEW g \in Identity, NEW i \in Identity, NEW h \in Identity, NEW j \in Identity
    PROVE  Less(Joined(<<g, i>>), Joined(<<h, j>>)) <=> Less(g, h) \/ (g = h /\ Less(i, j))
<1> DEFINE J == Joined(<<g, i>>)
           K == Joined(<<h, j>>)
           G == Len(g)
           H == Len(h)
<1>1. /\ g \in Text /\ i \in Text /\ G \in Nat /\ Len(i) \in Nat
      /\ J \in Text /\ Len(J) = G + 1 + Len(i)
      /\ \A k \in 1..G : J[k] = g[k] /\ g[k] \in Int /\ g[k] > Sep
      /\ J[G + 1] = Sep
      /\ \A k \in 1..Len(i) : J[G + 1 + k] = i[k] /\ i[k] \in Int /\ i[k] > Sep
  BY JoinedText
<1>2. /\ h \in Text /\ j \in Text /\ H \in Nat /\ Len(j) \in Nat
      /\ K \in Text /\ Len(K) = H + 1 + Len(j)
      /\ \A k \in 1..H : K[k] = h[k] /\ h[k] \in Int /\ h[k] > Sep
      /\ K[H + 1] = Sep
      /\ \A k \in 1..Len(j) : K[H + 1 + k] = j[k] /\ j[k] \in Int /\ j[k] > Sep
  BY JoinedText
<1>3. Sep \in Int
  BY DEF Sep
<1>4. G = Len(g) /\ H = Len(h)
  OBVIOUS
<1> HIDE DEF J, K, G, H
<1>5. ASSUME NEW n \in Nat, Parts(J, K, n)
      PROVE  (\E m \in Nat : Parts(g, h, m)) \/ (g = h /\ \E m \in Nat : Parts(i, j, m))
  <2>1. /\ n \in 0..(G + 1 + Len(i)) /\ n < H + 1 + Len(j)
        /\ \A k \in 1..n : J[k] = K[k]
        /\ n = G + 1 + Len(i) \/ J[n + 1] < K[n + 1]
    BY <1>5, <1>1, <1>2 DEF Parts
  <2>2. CASE n < G
    <3>1. n < H
      <4>1. SUFFICES ASSUME H <= n PROVE FALSE
        BY <1>2
      <4>2. H + 1 \in 1..G
        BY <4>1, <2>2, <1>1, <1>2
      <4>3. J[H + 1] > Sep /\ K[H + 1] = Sep /\ J[H + 1] \in Int
        BY <4>2, <1>1, <1>2
      <4>4. CASE H = n
        <5>1. J[H + 1] < K[H + 1]
          BY <4>4, <2>1, <2>2, <1>1, <1>2
        <5> QED BY <5>1, <4>3, <1>3
      <4>5. CASE H < n
        <5>1. H + 1 \in 1..n
          BY <4>5, <1>2
        <5> QED BY <5>1, <4>3, <2>1, <1>3
      <4> QED BY <4>1, <4>4, <4>5, <1>2
    <3>2. n + 1 \in 1..G /\ n + 1 \in 1..H /\ \A k \in 1..n : k \in 1..G /\ k \in 1..H
      BY <2>2, <3>1, <1>1, <1>2
    <3>3. g[n + 1] < h[n + 1]
      BY <3>2, <2>1, <2>2, <1>1, <1>2
    <3>4. \A k \in 1..n : g[k] = h[k]
      BY <3>2, <2>1, <1>1, <1>2
    <3>5. n \in 0..G
      BY <2>2, <1>1
    <3>6. Parts(g, h, n)
      BY <3>1, <3>3, <3>4, <3>5, <1>4 DEF Parts
    <3> QED BY <3>6
  <2>3. CASE G <= n
    <3>1. ~(H < G)
      <4>1. SUFFICES ASSUME H < G PROVE FALSE
        OBVIOUS
      <4>2. H + 1 \in 1..G /\ H + 1 \in 1..n
        BY <4>1, <2>3, <1>1, <1>2
      <4>3. J[H + 1] = K[H + 1]
        BY ONLY <4>2, <2>1
      <4>4. J[H + 1] > Sep /\ K[H + 1] = Sep /\ J[H + 1] \in Int
        BY <4>2, <1>1, <1>2
      <4> QED BY <4>3, <4>4, <1>3
    <3>2. \A k \in 1..G : k \in 1..n /\ k \in 1..H
      BY <3>1, <2>3, <1>1, <1>2
    <3>3. \A k \in 1..G : g[k] = h[k]
      BY <3>2, <2>1, <1>1, <1>2
    <3>4. CASE G < H
      <4>1. Parts(g, h, G)
        BY <3>3, <3>4, <1>1, <1>2, <1>4 DEF Parts
      <4> QED BY <4>1, <1>1
    <3>5. CASE G = H
      <4>1. g = h
        BY <3>3, <3>5, <1>1, <1>2, <1>4, SameText
      <4>2. n # G
        BY <3>5, <2>1, <1>1, <1>2, <1>3
      <4> DEFINE m == n - G - 1
      <4>3. m \in 0..Len(i) /\ m < Len(j) /\ n = G + 1 + m /\ m \in Nat
        BY <4>2, <2>3, <2>1, <3>5, <1>1, <1>2
      <4> HIDE DEF m
      <4>4. \A k \in 1..m : i[k] = j[k]
        <5>1. TAKE k \in 1..m
        <5>2. G + 1 + k \in 1..n /\ k \in 1..Len(i) /\ k \in 1..Len(j)
          BY <4>3, <1>1, <1>2
        <5>3. J[G + 1 + k] = K[H + 1 + k]
          BY <5>2, <2>1, <3>5
        <5> QED BY <5>2, <5>3, <1>1, <1>2
      <4>5. m = Len(i) \/ i[m + 1] < j[m + 1]
        <5>1. SUFFICES ASSUME m # Len(i) PROVE i[m + 1] < j[m + 1]
          OBVIOUS
        <5>2. J[n + 1] < K[n + 1]
          BY <5>1, <4>3, <2>1, <1>1
        <5>3. n + 1 = G + 1 + (m + 1) /\ n + 1 = H + 1 + (m + 1)
              /\ m + 1 \in 1..Len(i) /\ m + 1 \in 1..Len(j)
          BY <5>1, <4>3, <3>5, <1>1, <1>2
        <5> QED BY <5>2, <5>3, <1>1, <1>2
      <4>6. Parts(i, j, m)
        BY <4>3, <4>4, <4>5 DEF Parts
      <4> QED BY <4>1, <4>3, <4>6
    <3> QED BY <3>1, <3>4, <3>5, <1>1, <1>2
  <2> QED BY <2>2, <2>3, <1>1
<1>6. ASSUME NEW n \in Nat, Parts(g, h, n)
      PROVE  Parts(J, K, n)
  <2>1. /\ n \in 0..G /\ n < H
        /\ \A k \in 1..n : g[k] = h[k]
        /\ n = G \/ g[n + 1] < h[n + 1]
    BY <1>6, <1>4 DEF Parts
  <2>2. n + 1 \in 1..H /\ \A k \in 1..n : k \in 1..G /\ k \in 1..H
    BY <2>1, <1>1, <1>2
  <2>3. J[n + 1] < K[n + 1]
    <3>1. CASE n = G
      BY <3>1, <2>2, <1>1, <1>2, <1>3
    <3>2. CASE n # G
      <4>1. n + 1 \in 1..G
        BY <3>2, <2>1, <1>1
      <4> QED BY <4>1, <3>2, <2>1, <2>2, <1>1, <1>2
    <3> QED BY <3>1, <3>2
  <2>4. \A k \in 1..n : J[k] = K[k]
    BY <2>1, <2>2, <1>1, <1>2
  <2>5. n \in 0..Len(J) /\ n < Len(K)
    BY <2>1, <1>1, <1>2
  <2> QED BY <2>3, <2>4, <2>5 DEF Parts
<1>7. ASSUME g = h, NEW m \in Nat, Parts(i, j, m)
      PROVE  Parts(J, K, G + 1 + m)
  <2>1. /\ m \in 0..Len(i) /\ m < Len(j)
        /\ \A k \in 1..m : i[k] = j[k]
        /\ m = Len(i) \/ i[m + 1] < j[m + 1]
    BY <1>7 DEF Parts
  <2>2. G = H
    BY <1>7, <1>4
  <2> DEFINE n == G + 1 + m
  <2>3. n \in 0..Len(J) /\ n < Len(K) /\ n \in Nat
    BY <2>1, <2>2, <1>1, <1>2
  <2>4. \A k \in 1..n : J[k] = K[k]
    <3>1. TAKE k \in 1..n
    <3>2. CASE k \in 1..G
      BY <3>2, <2>2, <1>1, <1>2, <1>7
    <3>3. CASE k = G + 1
      <4>1. k = H + 1
        BY <3>3, <2>2
      <4> QED BY <3>3, <4>1, <1>1, <1>2
    <3>4. CASE k > G + 1
      <4>1. PICK l \in 1..m : k = G + 1 + l
        <5>1. k - G - 1 \in 1..m /\ k = G + 1 + (k - G - 1)
          BY <3>4, <2>1, <1>1
        <5> QED BY <5>1
      <4>2. l \in 1..Len(i) /\ l \in 1..Len(j) /\ k = H + 1 + l
        BY <4>1, <2>1, <2>2, <1>1, <1>2
      <4>3. J[k] = i[l]
        BY <4>1, <4>2, <1>1
      <4>4. K[k] = j[l]
        BY <4>2, <1>2
      <4> QED BY <4>3, <4>4, <4>1, <2>1
    <3> QED BY <3>2, <3>3, <3>4, <1>1
  <2>5. n = Len(J) \/ J[n + 1] < K[n + 1]
    <3>1. CASE m = Len(i)
      BY <3>1, <1>1
    <3>2. CASE m # Len(i)
      <4>1. /\ m + 1 \in 1..Len(i) /\ m + 1 \in 1..Len(j)
            /\ n + 1 = G + 1 + (m + 1) /\ n + 1 = H + 1 + (m + 1)
        BY <3>2, <2>1, <2>2, <1>1, <1>2
      <4> HIDE DEF n
      <4> QED BY <4>1, <3>2, <2>1, <1>1, <1>2
    <3> QED BY <3>1, <3>2
  <2> QED BY <2>3, <2>4, <2>5 DEF Parts
<1>8. G + 1 \in Nat /\ \A m \in Nat : G + 1 + m \in Nat
  BY <1>1
<1>9. (\E n \in Nat : Parts(J, K, n))
        <=> (\E m \in Nat : Parts(g, h, m)) \/ (g = h /\ \E m \in Nat : Parts(i, j, m))
  BY <1>5, <1>6, <1>7, <1>8
<1> QED
  BY <1>9, <1>1, <1>2, LessParts DEF J, K

(* A cursor that is a row is split into that row.                          *)
LEMMA SplitJoined ==
    ASSUME NEW g \in Identity, NEW i \in Identity
    PROVE  Split(Joined(<<g, i>>)) = <<g, i>>
<1> DEFINE J == Joined(<<g, i>>)
           G == Len(g)
           I == {k \in 1..Len(J) : J[k] = Sep}
<1>1. /\ g \in Text /\ i \in Text /\ G \in Nat /\ Len(i) \in Nat
      /\ J \in Text /\ Len(J) = G + 1 + Len(i)
      /\ \A k \in 1..G : J[k] = g[k] /\ g[k] \in Int /\ g[k] > Sep
      /\ J[G + 1] = Sep
      /\ \A k \in 1..Len(i) : J[G + 1 + k] = i[k] /\ i[k] \in Int /\ i[k] > Sep
  BY JoinedText
<1>0. G = Len(g)
  OBVIOUS
<1> HIDE DEF J, G
<1>2. I = {G + 1}
  <2>1. G + 1 \in I
    BY <1>1
  <2>2. ASSUME NEW k \in I, k # G + 1 PROVE FALSE
    <3>1. k \in 1..(G + 1 + Len(i)) /\ J[k] = Sep
      BY <1>1
    <3>2. CASE k \in 1..G
      BY <3>1, <3>2, <1>1 DEF Sep
    <3>3. CASE k > G + 1
      <4>1. k - G - 1 \in 1..Len(i) /\ k = G + 1 + (k - G - 1)
        BY <3>1, <3>3, <1>1
      <4>2. J[k] = i[k - G - 1] /\ i[k - G - 1] > Sep /\ i[k - G - 1] \in Int
        BY <4>1, <1>1
      <4> QED BY <4>2, <3>1 DEF Sep
    <3> QED BY <3>1, <3>2, <3>3, <2>2, <1>1
  <2> QED BY <2>1, <2>2
<1>3. Min({G + 1}) = G + 1
  BY <1>1 DEF Min
<1>4. SelectInSeq(J, LAMBDA ch : ch = Sep) = G + 1
  BY <1>2, <1>3 DEF SelectInSeq
<1>5. Split(J) = <<SubSeq(J, 1, G), SubSeq(J, G + 2, Len(J))>>
  <2>1. Split(J) = <<SubSeq(J, 1, (G + 1) - 1), SubSeq(J, (G + 1) + 1, Len(J))>>
    BY <1>4, Zenon DEF Split
  <2>2. (G + 1) - 1 = G /\ (G + 1) + 1 = G + 2
    BY <1>1
  <2> QED BY <2>1, <2>2
<1>6. SubSeq(J, 1, G) = g
  <2> DEFINE S == SubSeq(J, 1, G)
  <2>1. G \in Nat /\ G <= Len(J) /\ J \in Text
    BY <1>1
  <2>2. S \in Text /\ Len(S) = G /\ \A k \in 1..G : S[k] = J[k]
    BY ONLY <2>1, PrefixOfText
  <2> HIDE DEF S
  <2>3. S = g
    BY <2>2, <1>1, <1>0, SameText
  <2> QED BY <2>3 DEF S
<1>7. SubSeq(J, G + 2, Len(J)) = i
  <2>1. G + 2 = (G + 1) + 1 /\ Len(J) = (G + 1) + Len(i) /\ G + 1 \in Nat
    BY <1>1
  <2> DEFINE S == SubSeq(J, (G + 1) + 1, (G + 1) + Len(i))
  <2>2. S \in Text /\ Len(S) = Len(i) /\ \A k \in 1..Len(i) : S[k] = J[(G + 1) + k]
    <3>1. G + 1 \in Nat /\ Len(i) \in Nat /\ (G + 1) + Len(i) <= Len(J) /\ J \in Text
      BY <2>1, <1>1
    <3> QED BY ONLY <3>1, PartOfText
  <2> HIDE DEF S
  <2>3. S = i
    BY <2>2, <1>1, SameText
  <2> QED BY <2>1, <2>3 DEF S
<1> QED
  BY <1>5, <1>6, <1>7 DEF J

(* The rows after a cursor, compared as a pair, are those after the cursor *)
(* compared as one text, for any rows and any of them as the cursor.       *)
THEOREM SameRows ==
    ASSUME NEW rows \in SUBSET (Identity \X Identity), NEW cursor \in rows
    PROVE  NewRows(rows, Joined(cursor)) = OldRows(rows, Joined(cursor))
<1>1. \A r \in rows : r = <<r[1], r[2]>> /\ r[1] \in Identity /\ r[2] \in Identity
  OBVIOUS
<1>2. Split(Joined(cursor)) = cursor
  BY <1>1, SplitJoined
<1>3. ASSUME NEW r \in rows
      PROVE  PairLess(cursor, r) <=> Less(Joined(cursor), Joined(r))
  <2>1. Less(Joined(<<cursor[1], cursor[2]>>), Joined(<<r[1], r[2]>>))
          <=> Less(cursor[1], r[1]) \/ (cursor[1] = r[1] /\ Less(cursor[2], r[2]))
    BY <1>1, JoinedOrder
  <2> QED
    BY <2>1, <1>1 DEF PairLess
<1> QED
  BY <1>2, <1>3 DEF NewRows, OldRows

(* So is the page: the rows are the same set and both pages sort them by   *)
(* the pair (the lineage and embedding pages of ragrepository).            *)
THEOREM SamePages ==
    ASSUME NEW rows \in SUBSET (Identity \X Identity), NEW cursor \in rows
    PROVE  NewPage(rows, Joined(cursor)) = OldPage(rows, Joined(cursor))
BY SameRows DEF NewPage, OldPage

-----------------------------------------------------------------------------
(* Lists of a finite set in an order.                                      *)

(* R orders the members of S one after another.                            *)
Orders(R, S) ==
    /\ \A x \in S : <<x, x>> \notin R
    /\ \A x, y, z \in S : <<x, y>> \in R /\ <<y, z>> \in R => <<x, z>> \in R
    /\ \A x, y \in S : x # y => <<x, y>> \in R \/ <<y, x>> \in R

Earlier(S, R, x) == {y \in S : <<y, x>> \in R}

Enumeration(S, R) ==
    [n \in 1..Cardinality(S) |-> CHOOSE x \in S : Cardinality(Earlier(S, R, x)) = n - 1]

(* The number of earlier members is a place of its own for every member.   *)
LEMMA Places ==
    ASSUME NEW S, IsFiniteSet(S), NEW R, Orders(R, S)
    PROVE  /\ Cardinality(S) \in Nat
           /\ \A x \in S : /\ IsFiniteSet(Earlier(S, R, x))
                           /\ Cardinality(Earlier(S, R, x)) \in 0..(Cardinality(S) - 1)
           /\ \A x, y \in S : <<x, y>> \in R
                 <=> Cardinality(Earlier(S, R, x)) < Cardinality(Earlier(S, R, y))
<1> DEFINE rank(x) == Cardinality(Earlier(S, R, x))
<1>1. Cardinality(S) \in Nat
  BY FS_CardinalityType
<1>2. ASSUME NEW x \in S PROVE IsFiniteSet(Earlier(S, R, x)) /\ rank(x) \in 0..(Cardinality(S) - 1)
  <2>1. Earlier(S, R, x) \in SUBSET (S \ {x})
    BY DEF Earlier, Orders
  <2>2. IsFiniteSet(S \ {x}) /\ Cardinality(S \ {x}) = Cardinality(S) - 1
    BY FS_RemoveElement
  <2>3. IsFiniteSet(Earlier(S, R, x)) /\ rank(x) <= Cardinality(S \ {x}) /\ rank(x) \in Nat
    BY <2>1, <2>2, FS_Subset, FS_CardinalityType
  <2> QED
    BY <2>2, <2>3, <1>1
<1>3. ASSUME NEW x \in S, NEW y \in S, <<x, y>> \in R PROVE rank(x) < rank(y)
  <2>1. Earlier(S, R, x) \in SUBSET (Earlier(S, R, y) \ {x})
    BY <1>3 DEF Earlier, Orders
  <2>2. x \in Earlier(S, R, y)
    BY <1>3 DEF Earlier
  <2>3. /\ IsFiniteSet(Earlier(S, R, y) \ {x})
        /\ Cardinality(Earlier(S, R, y) \ {x}) = rank(y) - 1
    BY <1>2, <2>2, FS_RemoveElement
  <2>4. rank(x) <= rank(y) - 1
    BY <2>1, <2>3, FS_Subset
  <2> QED
    BY <2>4, <1>2, <1>1
<1>4. ASSUME NEW x \in S, NEW y \in S, rank(x) < rank(y) PROVE <<x, y>> \in R
  <2>1. x # y
    BY <1>4, <1>2, <1>1
  <2>2. ~(<<y, x>> \in R)
    BY <1>4, <1>3, <1>2, <1>1
  <2> QED
    BY <2>1, <2>2 DEF Orders
<1> QED
  BY <1>1, <1>2, <1>3, <1>4

(* So the members can be listed by their places.                           *)
LEMMA Enumerated ==
    ASSUME NEW S, IsFiniteSet(S), NEW R, Orders(R, S)
    PROVE  LET e == Enumeration(S, R) IN
           /\ Cardinality(S) \in Nat
           /\ e \in [1..Cardinality(S) -> S]
           /\ \A n \in 1..Cardinality(S) : Cardinality(Earlier(S, R, e[n])) = n - 1
           /\ \A x \in S : \E n \in 1..Cardinality(S) : e[n] = x
           /\ \A i, j \in 1..Cardinality(S) : i < j <=> <<e[i], e[j]>> \in R
<1> DEFINE N == Cardinality(S)
           rank(x) == Cardinality(Earlier(S, R, x))
           e == Enumeration(S, R)
<1>1. /\ N \in Nat
      /\ \A x \in S : rank(x) \in 0..(N - 1)
      /\ \A x, y \in S : <<x, y>> \in R <=> rank(x) < rank(y)
  BY Places
<1>2. \A x, y \in S : rank(x) = rank(y) => x = y
  <2> SUFFICES ASSUME NEW x \in S, NEW y \in S, rank(x) = rank(y), x # y PROVE FALSE
    OBVIOUS
  <2>1. rank(x) < rank(y) \/ rank(y) < rank(x)
    BY <1>1 DEF Orders
  <2> HIDE DEF rank
  <2> QED
    BY <2>1, <1>1
<1> DEFINE place == [x \in S |-> rank(x) + 1]
<1>3. place \in [S -> 1..N]
  <2> HIDE DEF rank, N
  <2> QED BY <1>1
<1>4. place \in Injection(S, 1..N)
  <2>1. \A x, y \in S : place[x] = place[y] => x = y
    <3> HIDE DEF rank, N
    <3> QED BY <1>1, <1>2
  <2> QED
    BY <2>1, <1>3, Fun_IsInj
<1>5. IsFiniteSet(1..N) /\ Cardinality(1..N) = N
  BY <1>1, FS_Interval
<1>7. \A n \in 1..N : \E x \in S : rank(x) = n - 1
  <2>1. place \in Surjection(S, 1..N)
    BY <1>4, <1>5, FS_Injection
  <2>2. \A n \in 1..N : \E x \in S : place[x] = n
    <3> HIDE DEF place, N
    <3> QED BY ONLY <2>1 DEF Surjection
  <2> HIDE DEF rank, N
  <2> QED BY <2>2, <1>1
<1>8. \A n \in 1..N : e[n] \in S /\ rank(e[n]) = n - 1
  <2> SUFFICES ASSUME NEW n \in 1..N PROVE e[n] \in S /\ rank(e[n]) = n - 1
    OBVIOUS
  <2>1. e[n] = CHOOSE x \in S : rank(x) = n - 1
    BY DEF Enumeration
  <2>2. \E x \in S : rank(x) = n - 1
    BY <1>7
  <2> HIDE DEF rank, e
  <2> QED BY <2>1, <2>2
<1>9. e \in [1..N -> S]
  <2>1. e = [n \in 1..N |-> e[n]]
    BY DEF Enumeration
  <2> HIDE DEF e, rank, N
  <2> QED BY <2>1, <1>8
<1>10. \A x \in S : \E n \in 1..N : e[n] = x
  <2> SUFFICES ASSUME NEW x \in S PROVE \E n \in 1..N : e[n] = x
    OBVIOUS
  <2> HIDE DEF rank, e, N
  <2>1. rank(x) + 1 \in 1..N /\ (rank(x) + 1) - 1 = rank(x)
    BY <1>1
  <2>2. rank(e[rank(x) + 1]) = rank(x) /\ e[rank(x) + 1] \in S
    BY <2>1, <1>8
  <2> QED BY <2>1, <2>2, <1>2
<1>11. \A i, j \in 1..N : i < j <=> <<e[i], e[j]>> \in R
  <2> HIDE DEF rank, e, N
  <2> QED BY <1>1, <1>8
<1> QED
  BY <1>1, <1>8, <1>9, <1>10, <1>11

(* There is one list only.                                                 *)
LEMMA OneEnumeration ==
    ASSUME NEW S, IsFiniteSet(S), NEW R, Orders(R, S),
           NEW k \in Nat, NEW s \in [1..k -> S],
           \A x \in S : \E n \in 1..k : s[n] = x,
           \A i, j \in 1..k : i < j => <<s[i], s[j]>> \in R
    PROVE  k = Cardinality(S) /\ s = Enumeration(S, R)
<1> DEFINE N == Cardinality(S)
           e == Enumeration(S, R)
           rank(x) == Cardinality(Earlier(S, R, x))
<1>1. /\ N \in Nat
      /\ e \in [1..N -> S]
      /\ \A n \in 1..N : rank(e[n]) = n - 1
      /\ \A x \in S : \E n \in 1..N : e[n] = x
  BY Enumerated
<1>2. \A i, j \in 1..k : s[i] = s[j] => i = j
  <2> SUFFICES ASSUME NEW i \in 1..k, NEW j \in 1..k, s[i] = s[j], i # j PROVE FALSE
    OBVIOUS
  <2>1. i < j \/ j < i
    OBVIOUS
  <2>2. <<s[i], s[i]>> \in R
    BY <2>1
  <2> QED BY <2>2 DEF Orders
<1>3. s \in Injection(1..k, S) /\ s \in Surjection(1..k, S)
  BY <1>2, Fun_IsInj, Fun_IsSurj
<1>4. IsFiniteSet(1..k) /\ Cardinality(1..k) = k
  BY FS_Interval
<1>5. k = N
  BY <1>3, <1>4, FS_Injection
<1>6. ASSUME NEW n \in 1..k PROVE rank(s[n]) = n - 1
  <2> DEFINE first == [i \in 1..(n - 1) |-> s[i]]
             E == Earlier(S, R, s[n])
  <2>1. \A i \in 1..(n - 1) : i \in 1..k /\ i < n
    OBVIOUS
  <2>2. \A i \in 1..(n - 1) : s[i] \in E
    BY <2>1 DEF Earlier
  <2>3. \A x \in E : \E i \in 1..(n - 1) : s[i] = x
    <3> SUFFICES ASSUME NEW x \in E PROVE \E i \in 1..(n - 1) : s[i] = x
      OBVIOUS
    <3>1. x \in S /\ <<x, s[n]>> \in R
      BY DEF Earlier
    <3>2. PICK i \in 1..k : s[i] = x
      BY <3>1
    <3>3. ~(n < i)
      <4>1. SUFFICES ASSUME n < i PROVE FALSE
        OBVIOUS
      <4>2. <<s[n], x>> \in R
        BY <4>1, <3>2
      <4> QED BY <4>2, <3>1 DEF Orders
    <3>4. i # n
      BY <3>1, <3>2 DEF Orders
    <3>5. i \in 1..(n - 1)
      BY <3>3, <3>4
    <3> QED BY <3>5, <3>2
  <2> HIDE DEF E
  <2>4. first \in [1..(n - 1) -> E]
    BY <2>2
  <2>5. first \in Injection(1..(n - 1), E)
    <3>1. \A i, j \in 1..(n - 1) : first[i] = first[j] => i = j
      BY <2>1, <1>2
    <3> QED BY <3>1, <2>4, Fun_IsInj
  <2>6. first \in Surjection(1..(n - 1), E)
    <3>1. \A x \in E : \E i \in 1..(n - 1) : first[i] = x
      BY <2>3
    <3> HIDE DEF first
    <3> QED BY <3>1, <2>4, Fun_IsSurj
  <2>7. IsFiniteSet(1..(n - 1)) /\ Cardinality(1..(n - 1)) = n - 1
    BY FS_Interval
  <2> HIDE DEF first
  <2>8. Cardinality(E) = n - 1
    BY <2>5, <2>6, <2>7, FS_Surjection
  <2> QED BY <2>8 DEF E
<1>7. \A n \in 1..k : s[n] = e[n]
  <2> SUFFICES ASSUME NEW n \in 1..k PROVE s[n] = e[n]
    OBVIOUS
  <2>1. rank(s[n]) = rank(e[n]) /\ e[n] \in S /\ s[n] \in S
    BY <1>1, <1>5, <1>6
  <2>2. /\ \A x \in S : rank(x) \in 0..(N - 1)
        /\ \A x, y \in S : <<x, y>> \in R <=> rank(x) < rank(y)
    BY Places
  <2>3. ~(<<s[n], e[n]>> \in R) /\ ~(<<e[n], s[n]>> \in R)
    <3> HIDE DEF rank, N, e
    <3> QED BY <2>1, <2>2
  <2> QED BY <2>1, <2>3 DEF Orders
<1> HIDE DEF e, N
<1>8. s = e
  BY <1>1, <1>5, <1>7
<1> QED BY <1>5, <1>8 DEF N, e

-----------------------------------------------------------------------------
(* The order of texts.                                                     *)

Below == {pair \in Nat \X Nat : pair[1] < pair[2]}

(* A set of numbers has a least member. *)
LEMMA Least ==
    ASSUME NEW T \in SUBSET Nat, T # {} PROVE \E m \in T : \A n \in T : m <= n
<1>1. IsWellFoundedOn(Below, Nat)
  BY NatLessThanWellFounded DEF OpToRel, Below
<1>2. PICK m \in T : \A n \in T : ~(<<n, m>> \in Below)
  BY <1>1, WFMin
<1>3. ASSUME NEW n \in T PROVE m <= n
  <2>1. <<n, m>> \in Nat \X Nat /\ ~(<<n, m>> \in Below)
    BY <1>2
  <2>2. ~(n < m)
    BY <2>1 DEF Below
  <2> QED
    BY <2>2
<1> QED
  BY <1>3

(* The byte order of texts: none is before itself, *)
LEMMA LessIrreflexive ==
    ASSUME NEW s \in Text PROVE ~Less(s, s)
<1>1. Len(s) \in Nat /\ \A k \in 1..Len(s) : s[k] \in Int
  BY DEF Text
<1>2. ASSUME NEW n \in Nat, Parts(s, s, n) PROVE FALSE
  <2>1. n + 1 \in 1..Len(s) /\ s[n + 1] < s[n + 1]
    BY <1>1, <1>2 DEF Parts
  <2> QED BY <2>1, <1>1
<1> QED
  BY <1>2, LessParts

(* what is before a text is before all after it, *)
LEMMA LessTransitive ==
    ASSUME NEW s \in Text, NEW t \in Text, NEW u \in Text, Less(s, t), Less(t, u)
    PROVE  Less(s, u)
<1>1. /\ Len(s) \in Nat /\ \A k \in 1..Len(s) : s[k] \in Int
      /\ Len(t) \in Nat /\ \A k \in 1..Len(t) : t[k] \in Int
      /\ Len(u) \in Nat /\ \A k \in 1..Len(u) : u[k] \in Int
  BY DEF Text
<1>2. PICK n \in Nat : Parts(s, t, n)
  BY LessParts
<1>3. PICK m \in Nat : Parts(t, u, m)
  BY LessParts
<1>4. /\ n <= Len(s) /\ n < Len(t) /\ \A k \in 1..n : s[k] = t[k]
      /\ n = Len(s) \/ s[n + 1] < t[n + 1]
  BY <1>2 DEF Parts
<1>5. /\ m <= Len(t) /\ m < Len(u) /\ \A k \in 1..m : t[k] = u[k]
      /\ m = Len(t) \/ t[m + 1] < u[m + 1]
  BY <1>3 DEF Parts
<1>6. CASE n < m
  <2>1. \A k \in 1..n : s[k] = u[k]
    BY <1>4, <1>5, <1>6
  <2>2. n + 1 \in 1..m
    BY <1>6
  <2>3. t[n + 1] = u[n + 1]
    BY <2>2, <1>5
  <2>4. Parts(s, u, n)
    BY <2>1, <2>3, <1>1, <1>4, <1>5, <1>6 DEF Parts
  <2> QED BY <2>4, LessParts
<1>7. CASE m < n
  <2>1. \A k \in 1..m : s[k] = u[k]
    BY <1>4, <1>5, <1>7
  <2>2. m + 1 \in 1..n /\ m # Len(t)
    BY <1>7, <1>4, <1>1
  <2>3. s[m + 1] = t[m + 1] /\ t[m + 1] < u[m + 1]
    BY <2>2, <1>4, <1>5
  <2>4. Parts(s, u, m)
    BY <2>1, <2>3, <1>1, <1>4, <1>5, <1>7 DEF Parts
  <2> QED BY <2>4, LessParts
<1>8. CASE n = m
  <2>1. \A k \in 1..n : s[k] = u[k]
    BY <1>4, <1>5, <1>8
  <2>2. t[n + 1] < u[n + 1] /\ n + 1 \in 1..Len(t) /\ n + 1 \in 1..Len(u)
    BY <1>1, <1>4, <1>5, <1>8
  <2>3. n = Len(s) \/ s[n + 1] < u[n + 1]
    <3>1. SUFFICES ASSUME n # Len(s) PROVE s[n + 1] < u[n + 1]
      OBVIOUS
    <3>2. n + 1 \in 1..Len(s)
      BY <3>1, <1>4, <1>1
    <3> QED BY <3>1, <3>2, <2>2, <1>4, <1>1
  <2>4. Parts(s, u, n)
    BY <2>1, <2>3, <1>1, <1>4, <1>5, <1>8 DEF Parts
  <2> QED BY <2>4, LessParts
<1> QED
  BY <1>6, <1>7, <1>8

(* and of two texts one is before the other. *)
LEMMA LessTotal ==
    ASSUME NEW s \in Text, NEW t \in Text, s # t PROVE Less(s, t) \/ Less(t, s)
<1> DEFINE T == {n \in Nat : n = Len(s) \/ n = Len(t) \/ s[n + 1] # t[n + 1]}
<1>1. /\ Len(s) \in Nat /\ \A k \in 1..Len(s) : s[k] \in Int
      /\ Len(t) \in Nat /\ \A k \in 1..Len(t) : t[k] \in Int
  BY DEF Text
<1>2. PICK n \in T : \A k \in T : n <= k
  <2>1. Len(s) \in T
    BY <1>1
  <2> HIDE DEF T
  <2>2. T \in SUBSET Nat
    BY DEF T
  <2> QED BY <2>1, <2>2, Least
<1>3. n <= Len(s) /\ n <= Len(t) /\ n \in Nat
  BY <1>1, <1>2
<1>4. \A k \in 1..n : s[k] = t[k]
  <2> SUFFICES ASSUME NEW k \in 1..n PROVE s[k] = t[k]
    OBVIOUS
  <2>1. k - 1 \in Nat /\ ~(n <= k - 1) /\ (k - 1) + 1 = k
    BY <1>3
  <2>2. k - 1 \notin T
    BY <2>1, <1>2
  <2> QED BY <2>1, <2>2
<1>5. CASE n = Len(s) /\ n = Len(t)
  BY <1>5, <1>4, SameText
<1>6. CASE n = Len(s) /\ n # Len(t)
  <2>1. Parts(s, t, n)
    BY <1>6, <1>1, <1>3, <1>4 DEF Parts
  <2> QED BY <2>1, <1>3, LessParts
<1>7. CASE n # Len(s) /\ n = Len(t)
  <2>1. Parts(t, s, n)
    BY <1>7, <1>1, <1>3, <1>4 DEF Parts
  <2> QED BY <2>1, <1>3, LessParts
<1>8. CASE n # Len(s) /\ n # Len(t)
  <2>1. n + 1 \in 1..Len(s) /\ n + 1 \in 1..Len(t) /\ s[n + 1] # t[n + 1]
    BY <1>8, <1>1, <1>2, <1>3
  <2>2. s[n + 1] < t[n + 1] \/ t[n + 1] < s[n + 1]
    BY <2>1, <1>1
  <2>3. Parts(s, t, n) \/ Parts(t, s, n)
    BY <2>1, <2>2, <1>3, <1>4, <1>1 DEF Parts
  <2> QED BY <2>3, <1>3, LessParts
<1> QED
  BY <1>5, <1>6, <1>7, <1>8

(* The orders of the queries as relations. *)
Catalogue(S) == {p \in S \X S : CatalogueLess(p[1], p[2])}

NumberOrder(S) == {p \in S \X S : p[1] < p[2]}

PairOrder(S) == {p \in S \X S : PairLess(p[1], p[2])}

(* A sort is the list of its order.                                        *)
LEMMA SortedCatalogue ==
    ASSUME NEW S
    PROVE  Sorted(S, CatalogueLess) = Enumeration(S, Catalogue(S))
<1>1. \A x \in S : {y \in S : CatalogueLess(y, x)} = Earlier(S, Catalogue(S), x)
  BY DEF Earlier, Catalogue
<1>2. ASSUME NEW n
      PROVE  (CHOOSE x \in S : Cardinality({y \in S : CatalogueLess(y, x)}) = n - 1)
               = (CHOOSE x \in S : Cardinality(Earlier(S, Catalogue(S), x)) = n - 1)
  <2>1. \A x : x \in S /\ Cardinality({y \in S : CatalogueLess(y, x)}) = n - 1
                <=> x \in S /\ Cardinality(Earlier(S, Catalogue(S), x)) = n - 1
    BY <1>1
  <2> QED BY ONLY <2>1, Zenon
<1>3. Sorted(S, CatalogueLess) =
        [n \in 1..Cardinality(S) |->
           CHOOSE x \in S : Cardinality({y \in S : CatalogueLess(y, x)}) = n - 1]
  BY DEF Sorted
<1>4. Enumeration(S, Catalogue(S)) =
        [n \in 1..Cardinality(S) |->
           CHOOSE x \in S : Cardinality(Earlier(S, Catalogue(S), x)) = n - 1]
  BY DEF Enumeration
<1>5. \A n \in 1..Cardinality(S) : Sorted(S, CatalogueLess)[n] = Enumeration(S, Catalogue(S))[n]
  BY <1>2, <1>3, <1>4
<1> HIDE DEF Sorted
<1> QED
  BY <1>3, <1>4, <1>5

(* So for the order of numbers, *)
LEMMA SortedNumbers ==
    ASSUME NEW S
    PROVE  Sorted(S, <) = Enumeration(S, NumberOrder(S))
<1>1. \A x \in S : {y \in S : y < x} = Earlier(S, NumberOrder(S), x)
  BY DEF Earlier, NumberOrder
<1>2. ASSUME NEW n
      PROVE  (CHOOSE x \in S : Cardinality({y \in S : y < x}) = n - 1)
               = (CHOOSE x \in S : Cardinality(Earlier(S, NumberOrder(S), x)) = n - 1)
  <2>1. \A x : x \in S /\ Cardinality({y \in S : y < x}) = n - 1
                <=> x \in S /\ Cardinality(Earlier(S, NumberOrder(S), x)) = n - 1
    BY <1>1
  <2> QED BY ONLY <2>1, Zenon
<1>3. Sorted(S, <) =
        [n \in 1..Cardinality(S) |->
           CHOOSE x \in S : Cardinality({y \in S : y < x}) = n - 1]
  BY DEF Sorted
<1>4. Enumeration(S, NumberOrder(S)) =
        [n \in 1..Cardinality(S) |->
           CHOOSE x \in S : Cardinality(Earlier(S, NumberOrder(S), x)) = n - 1]
  BY DEF Enumeration
<1>5. \A n \in 1..Cardinality(S) : Sorted(S, <)[n] = Enumeration(S, NumberOrder(S))[n]
  BY <1>2, <1>3, <1>4
<1> HIDE DEF Sorted
<1> QED
  BY <1>3, <1>4, <1>5

(* and for the order of support rows. *)
LEMMA SortedPairs ==
    ASSUME NEW S
    PROVE  Sorted(S, PairLess) = Enumeration(S, PairOrder(S))
<1>1. \A x \in S : {y \in S : PairLess(y, x)} = Earlier(S, PairOrder(S), x)
  BY DEF Earlier, PairOrder
<1>2. ASSUME NEW n
      PROVE  (CHOOSE x \in S : Cardinality({y \in S : PairLess(y, x)}) = n - 1)
               = (CHOOSE x \in S : Cardinality(Earlier(S, PairOrder(S), x)) = n - 1)
  <2>1. \A x : x \in S /\ Cardinality({y \in S : PairLess(y, x)}) = n - 1
                <=> x \in S /\ Cardinality(Earlier(S, PairOrder(S), x)) = n - 1
    BY <1>1
  <2> QED BY ONLY <2>1, Zenon
<1>3. Sorted(S, PairLess) =
        [n \in 1..Cardinality(S) |->
           CHOOSE x \in S : Cardinality({y \in S : PairLess(y, x)}) = n - 1]
  BY DEF Sorted
<1>4. Enumeration(S, PairOrder(S)) =
        [n \in 1..Cardinality(S) |->
           CHOOSE x \in S : Cardinality(Earlier(S, PairOrder(S), x)) = n - 1]
  BY DEF Enumeration
<1>5. \A n \in 1..Cardinality(S) : Sorted(S, PairLess)[n] = Enumeration(S, PairOrder(S))[n]
  BY <1>2, <1>3, <1>4
<1> HIDE DEF Sorted
<1> QED
  BY <1>3, <1>4, <1>5

(* The rows of the catalogue, *)
LEMMA CatalogueOrders ==
    ASSUME NEW db, NEW S \in SUBSET Named(db),
           \A row \in Named(db) : row.label \in Text /\ row.concept \in Int
    PROVE  Orders(Catalogue(S), S)
<1>1. \A x \in S : /\ x = [origin |-> x.origin, concept |-> x.concept, label |-> x.label]
                  /\ x.origin \in {0, 1} /\ x.concept \in Int /\ x.label \in Text
  BY DEF Named
<1>2. \A x \in S : ~CatalogueLess(x, x)
  BY <1>1, LessIrreflexive DEF CatalogueLess
<1>3. ASSUME NEW x \in S, NEW y \in S, NEW z \in S, CatalogueLess(x, y), CatalogueLess(y, z)
      PROVE  CatalogueLess(x, z)
  <2>1. Less(x.label, y.label) /\ Less(y.label, z.label) => Less(x.label, z.label)
    BY <1>1, LessTransitive
  <2> QED BY <1>1, <1>3, <2>1 DEF CatalogueLess
<1>4. ASSUME NEW x \in S, NEW y \in S, x # y
      PROVE  CatalogueLess(x, y) \/ CatalogueLess(y, x)
  <2>1. x.label # y.label => Less(x.label, y.label) \/ Less(y.label, x.label)
    BY <1>1, LessTotal
  <2>2. x.origin = y.origin /\ x.concept = y.concept => x.label # y.label
    BY <1>1, <1>4
  <2>3. x.origin < y.origin \/ y.origin < x.origin \/ x.origin = y.origin
    BY <1>1
  <2>4. x.concept < y.concept \/ y.concept < x.concept \/ x.concept = y.concept
    BY <1>1
  <2> QED BY <2>1, <2>2, <2>3, <2>4 DEF CatalogueLess
<1> QED
  BY <1>2, <1>3, <1>4 DEF Orders, Catalogue

(* numbers, *)
LEMMA NumbersOrder ==
    ASSUME NEW S \in SUBSET Int PROVE Orders(NumberOrder(S), S)
BY DEF Orders, NumberOrder

(* and support rows are in order. *)
LEMMA PairsOrder ==
    ASSUME NEW S \in SUBSET (Identity \X Identity) PROVE Orders(PairOrder(S), S)
<1>1. \A x \in S : x = <<x[1], x[2]>> /\ x[1] \in Text /\ x[2] \in Text
  <2>1. \A g \in Identity : g \in Text
    BY JoinedText
  <2> QED BY <2>1
<1>2. \A x \in S : ~PairLess(x, x)
  BY <1>1, LessIrreflexive DEF PairLess
<1>3. ASSUME NEW x \in S, NEW y \in S, NEW z \in S, PairLess(x, y), PairLess(y, z)
      PROVE  PairLess(x, z)
  <2>1. /\ Less(x[1], y[1]) /\ Less(y[1], z[1]) => Less(x[1], z[1])
        /\ Less(x[2], y[2]) /\ Less(y[2], z[2]) => Less(x[2], z[2])
    BY <1>1, LessTransitive
  <2> QED BY <1>3, <2>1 DEF PairLess
<1>4. ASSUME NEW x \in S, NEW y \in S, x # y
      PROVE  PairLess(x, y) \/ PairLess(y, x)
  <2>1. /\ x[1] # y[1] => Less(x[1], y[1]) \/ Less(y[1], x[1])
        /\ x[2] # y[2] => Less(x[2], y[2]) \/ Less(y[2], x[2])
    BY <1>1, LessTotal
  <2>2. x[1] # y[1] \/ x[2] # y[2]
    BY <1>1, <1>4
  <2> QED BY <2>1, <2>2 DEF PairLess
<1> QED
  BY <1>2, <1>3, <1>4 DEF Orders, PairOrder

-----------------------------------------------------------------------------
(* The catalogue of a library has finitely many rows. *)
LEMMA NamedRows ==
    ASSUME NEW db \in Library
    PROVE  /\ IsFiniteSet(Named(db))
           /\ \A row \in Named(db) :
                 row.origin \in {0, 1} /\ row.concept \in Int /\ row.label \in Text
<1> DEFINE Own == [c \in Concepts(db) |->
                     [origin |-> 0, concept |-> c, label |-> db.concepts[c].label]]
           A == {b \in Aliases(db) : b.target # 0}
           Other == [a \in A |-> [origin |-> 1, concept |-> a.target, label |-> a.label]]
           O == {[origin |-> 0, concept |-> c, label |-> db.concepts[c].label] : c \in Concepts(db)}
           X == {[origin |-> 1, concept |-> a.target, label |-> a.label] : a \in A}
<1>1. /\ db.concepts \in Seq([label : Text, retired : BOOLEAN, closed : BOOLEAN])
      /\ db.aliases \in SUBSET [label : Text, target : Nat, closed : BOOLEAN]
      /\ IsFiniteSet(db.aliases)
  BY DEF Library, Table
<1>2. /\ Len(db.concepts) \in Nat /\ Concepts(db) \in SUBSET (1..Len(db.concepts))
      /\ \A c \in Concepts(db) : c \in Int /\ db.concepts[c].label \in Text
  <2> DEFINE Row == [label : Text, retired : BOOLEAN, closed : BOOLEAN]
  <2>1. \A row \in Row : row.label \in Text
    OBVIOUS
  <2>2. db.concepts \in Seq(Row)
    BY <1>1
  <2> HIDE DEF Row
  <2>3. /\ Len(db.concepts) \in Nat /\ DOMAIN db.concepts = 1..Len(db.concepts)
        /\ \A c \in DOMAIN db.concepts : db.concepts[c] \in Row
    BY <2>2
  <2> QED
    BY <2>1, <2>3 DEF Concepts
<1>3. IsFiniteSet(Concepts(db))
  <2>1. IsFiniteSet(1..Len(db.concepts))
    BY <1>2, FS_Interval
  <2> QED
    BY <2>1, <1>2, FS_Subset
<1>4. A \in SUBSET db.aliases /\ IsFiniteSet(A)
  BY <1>1, FS_Subset DEF Aliases
<1>5. Own \in Surjection(Concepts(db), O)
  BY DEF Surjection
<1>6. Other \in Surjection(A, X)
  <2> HIDE DEF A
  <2> QED BY DEF Surjection
<1>7. IsFiniteSet(O) /\ IsFiniteSet(X)
  <2> HIDE DEF O, X, A, Own, Other
  <2> QED BY <1>3, <1>4, <1>5, <1>6, FS_Surjection
<1>8. Named(db) = O \cup X
  BY DEF Named
<1>9. IsFiniteSet(Named(db))
  <2> HIDE DEF O, X
  <2> QED BY <1>7, <1>8, FS_Union
<1>10. \A row \in O : row.origin \in {0, 1} /\ row.concept \in Int /\ row.label \in Text
  BY <1>2
<1>11. \A row \in X : row.origin \in {0, 1} /\ row.concept \in Int /\ row.label \in Text
  BY <1>1, <1>4
<1> HIDE DEF O, X
<1> QED
  BY <1>8, <1>9, <1>10, <1>11

(* The first occurrences of the walk over the catalogue, in its order, are *)
(* the concepts in the order of _anchors.                                  *)
THEOREM SameAnchors ==
    ASSUME NEW db \in Library, NEW question \in Text
    PROVE  Expected(db, question) = Anchors(db, question)
<1> DEFINE rows == {row \in Named(db) :
                      row.label # <<>> /\ Occurs(Padded(row.label), Padded(question))}
           N == Cardinality(rows)
           found == Sorted(rows, CatalogueLess)
           first == {n \in 1..N : \A k \in 1..(n - 1) : found[k].concept # found[n].concept}
           places == Sorted(first, <)
           K == Cardinality(first)
           named == [n \in 1..K |-> found[places[n]].concept]
           C == {row.concept : row \in rows}
           Late(c) == \A row \in rows : row.concept = c => row.origin = 1
           Prior(c, d) == (~Late(c) /\ Late(d)) \/ ((Late(c) <=> Late(d)) /\ c < d)
           R == {p \in C \X C : Prior(p[1], p[2])}
<1>1. /\ IsFiniteSet(Named(db))
      /\ \A row \in Named(db) : row.origin \in {0, 1} /\ row.concept \in Int /\ row.label \in Text
  BY NamedRows
<1>2. rows \in SUBSET Named(db) /\ IsFiniteSet(rows)
  BY <1>1, FS_Subset
<1>3. Matches(db, question) = rows
  BY <1>1, AnchorsFindTheSame
<1>4. DOMAIN found = 1..N /\ DOMAIN places = 1..K
  BY DEF Sorted
<1>5. Expected(db, question) = named
  <2> DEFINE seen == {n \in DOMAIN found : \A k \in 1..(n - 1) : found[k].concept # found[n].concept}
  <2>1. Expected(db, question) = [n \in DOMAIN Sorted(seen, <) |-> found[Sorted(seen, <)[n]].concept]
    BY DEF Expected
  <2>2. seen = first
    BY <1>4
  <2> HIDE DEF seen, first, found
  <2>3. Expected(db, question) = [n \in DOMAIN places |-> found[places[n]].concept]
    BY <2>1, <2>2
  <2> QED
    BY <2>3, <1>4
<1>6. Anchors(db, question) = [n \in 1..Cardinality(C) |->
                                CHOOSE c \in C : Cardinality({d \in C : Prior(d, c)}) = n - 1]
  BY <1>3 DEF Anchors, Sorted
<1>7. Anchors(db, question) = Enumeration(C, R)
  <2> DEFINE A == Anchors(db, question)
  <2>1. \A x \in C : {y \in C : Prior(y, x)} = Earlier(C, R, x)
    <3> HIDE DEF C, Prior
    <3> QED BY DEF Earlier
  <2>2. ASSUME NEW n
        PROVE  (CHOOSE c \in C : Cardinality({d \in C : Prior(d, c)}) = n - 1)
                 = (CHOOSE c \in C : Cardinality(Earlier(C, R, c)) = n - 1)
    <3> HIDE DEF C, Prior, R
    <3>1. \A x : x \in C /\ Cardinality({y \in C : Prior(y, x)}) = n - 1
                  <=> x \in C /\ Cardinality(Earlier(C, R, x)) = n - 1
      BY <2>1
    <3> QED BY ONLY <3>1, Zenon
  <2> HIDE DEF C, Prior, R
  <2>3. Enumeration(C, R) = [n \in 1..Cardinality(C) |->
                               CHOOSE c \in C : Cardinality(Earlier(C, R, c)) = n - 1]
    BY DEF Enumeration
  <2>4. \A n \in 1..Cardinality(C) : A[n] = Enumeration(C, R)[n]
    BY <1>6, <2>2, <2>3
  <2> QED BY <1>6, <2>3, <2>4
<1>8. /\ N \in Nat /\ found \in [1..N -> rows]
      /\ \A row \in rows : \E n \in 1..N : found[n] = row
      /\ \A i, j \in 1..N : i < j <=> CatalogueLess(found[i], found[j])
  <2>1. Orders(Catalogue(rows), rows)
    BY <1>1, <1>2, CatalogueOrders
  <2>2. found = Enumeration(rows, Catalogue(rows))
    BY SortedCatalogue
  <2> HIDE DEF found, rows
  <2>3. /\ N \in Nat /\ found \in [1..N -> rows]
        /\ \A row \in rows : \E n \in 1..N : found[n] = row
        /\ \A i, j \in 1..N : i < j <=> <<found[i], found[j]>> \in Catalogue(rows)
    BY <2>1, <2>2, <1>2, Enumerated
  <2>4. \A i, j \in 1..N : <<found[i], found[j]>> \in Catalogue(rows) <=> CatalogueLess(found[i], found[j])
    BY <2>3 DEF Catalogue
  <2> QED BY <2>3, <2>4
<1>9. /\ first \in SUBSET (1..N)
      /\ K \in Nat /\ places \in [1..K -> first]
      /\ \A n \in first : \E m \in 1..K : places[m] = n
      /\ \A i, j \in 1..K : i < j <=> places[i] < places[j]
  <2>1. first \in SUBSET (1..N) /\ first \in SUBSET Int
    BY <1>8
  <2> HIDE DEF first, found
  <2>2. IsFiniteSet(first)
    <3>1. IsFiniteSet(1..N)
      BY <1>8, FS_Interval
    <3> QED BY <2>1, <3>1, FS_Subset
  <2>3. Orders(NumberOrder(first), first)
    BY <2>1, NumbersOrder
  <2>4. places = Enumeration(first, NumberOrder(first))
    BY SortedNumbers
  <2> HIDE DEF places
  <2>5. /\ K \in Nat /\ places \in [1..K -> first]
        /\ \A n \in first : \E m \in 1..K : places[m] = n
        /\ \A i, j \in 1..K : i < j <=> <<places[i], places[j]>> \in NumberOrder(first)
    BY <2>2, <2>3, <2>4, Enumerated
  <2>6. \A i, j \in 1..K : <<places[i], places[j]>> \in NumberOrder(first) <=> places[i] < places[j]
    BY <2>5 DEF NumberOrder
  <2> QED BY <2>1, <2>5, <2>6
<1>10. \A row \in rows : row.origin \in {0, 1} /\ row.concept \in Int
  BY <1>1
<1>11. IsFiniteSet(C) /\ C \in SUBSET Int
  <2> DEFINE name == [row \in rows |-> row.concept]
  <2>1. C \in SUBSET Int
    BY <1>10
  <2> HIDE DEF rows
  <2>2. name \in Surjection(rows, C)
    BY DEF Surjection
  <2> HIDE DEF name, C
  <2> QED
    BY <2>1, <2>2, <1>2, FS_Surjection
<1>12. Orders(R, C)
  <2> HIDE DEF C, Late
  <2> QED BY <1>11 DEF Orders
<1>13. \A n \in first : /\ n \in 1..N /\ found[n] \in rows
                        /\ \A k \in 1..(n - 1) : found[k].concept # found[n].concept
  BY <1>8
<1>14. named \in [1..K -> C]
  <2> HIDE DEF rows, found, first, places
  <2> QED BY <1>9, <1>13
(* Every concept occurs a first time. *)
<1>15. \A c \in C : \E n \in 1..K : named[n] = c
  <2> SUFFICES ASSUME NEW c \in C PROVE \E n \in 1..K : named[n] = c
    OBVIOUS
  <2> DEFINE T == {n \in 1..N : found[n].concept = c}
  <2>1. T # {} /\ T \in SUBSET Nat
    <3> HIDE DEF rows, found
    <3> QED BY <1>8
  <2>2. PICK n \in T : \A k \in T : n <= k
    <3> HIDE DEF T
    <3> QED BY <2>1, Least
  <2>3. n \in 1..N /\ found[n].concept = c /\ \A k \in 1..(n - 1) : found[k].concept # c
    <3> HIDE DEF found
    <3>1. n \in 1..N /\ found[n].concept = c
      BY <2>2
    <3>2. \A k \in 1..(n - 1) : k \in 1..N /\ ~(n <= k)
      BY <3>1, <1>8
    <3> QED BY <3>1, <3>2, <2>2
  <2>4. n \in first
    <3> HIDE DEF found
    <3> QED BY <2>3
  <2> HIDE DEF first, found, places
  <2> QED BY <2>3, <2>4, <1>9
(* A concept is late if its first occurrence is an alias.                  *)
<1>16. \A n \in first : Late(found[n].concept) <=> found[n].origin = 1
  <2> SUFFICES ASSUME NEW n \in first PROVE Late(found[n].concept) <=> found[n].origin = 1
    OBVIOUS
  <2>1. /\ n \in 1..N /\ found[n] \in rows
        /\ \A k \in 1..(n - 1) : found[k].concept # found[n].concept
    BY <1>13
  <2>2. ASSUME found[n].origin = 1, NEW row \in rows, row.concept = found[n].concept
        PROVE  row.origin = 1
    <3> HIDE DEF rows, found, first
    <3>1. PICK m \in 1..N : found[m] = row
      BY <1>8
    <3>2. ~(m < n)
      BY <2>1, <2>2, <3>1
    <3>3. m = n \/ CatalogueLess(found[n], found[m])
      BY <3>1, <3>2, <2>1, <1>8
    <3>4. found[n].origin \in {0, 1} /\ row.origin \in {0, 1}
      BY <2>1, <1>10
    <3> QED BY <3>1, <3>3, <3>4, <2>2 DEF CatalogueLess
  <2> HIDE DEF rows, found, first
  <2> QED BY <2>1, <2>2
<1>17. \A i, j \in 1..K : i < j => <<named[i], named[j]>> \in R
  <2> SUFFICES ASSUME NEW i \in 1..K, NEW j \in 1..K, i < j PROVE <<named[i], named[j]>> \in R
    OBVIOUS
  <2> DEFINE x == found[places[i]]
             y == found[places[j]]
  <2>1. /\ named[i] = x.concept /\ named[j] = y.concept
        /\ named[i] \in C /\ named[j] \in C
    <3> HIDE DEF rows, found, first, places, C
    <3>1. named[i] \in C /\ named[j] \in C
      <4> HIDE DEF named
      <4> QED BY <1>14
    <3> QED BY <3>1
  <2>2. /\ places[i] \in first /\ places[j] \in first /\ places[i] < places[j]
        /\ places[i] \in 1..N /\ places[j] \in 1..N
    <3> HIDE DEF rows, found, first, places
    <3> QED BY <1>9
  <2>3. x \in rows /\ y \in rows /\ CatalogueLess(x, y) /\ x.concept # y.concept
    <3> HIDE DEF rows, found, first, places
    <3>1. places[i] \in 1..(places[j] - 1)
      BY <2>2, <1>8
    <3> QED BY <2>2, <3>1, <1>8, <1>13
  <2>4. (Late(x.concept) <=> x.origin = 1) /\ (Late(y.concept) <=> y.origin = 1)
    <3> HIDE DEF rows, found, first, places, Late
    <3> QED BY <2>2, <1>16
  <2>5. x.origin \in {0, 1} /\ y.origin \in {0, 1}
    BY <2>3, <1>10
  <2> HIDE DEF x, y, Late, C, rows, found, first, places, named
  <2>6. Prior(x.concept, y.concept)
    BY <2>3, <2>4, <2>5 DEF CatalogueLess
  <2> QED BY <2>1, <2>6
<1> HIDE DEF named, C, R, K
<1>18. K \in Nat /\ IsFiniteSet(C)
  BY <1>9, <1>11
<1>19. named = Enumeration(C, R)
  BY ONLY <1>12, <1>14, <1>15, <1>17, <1>18, OneEnumeration
<1> QED
  BY <1>5, <1>7, <1>19

-----------------------------------------------------------------------------
(* The powers up to n exist as a function that refers to itself. *)
Grown(n) == \E f : f = [k \in 0..n |-> IF k = 0 THEN 1 ELSE Base * f[k - 1]]

(* They do for every n: a least n without them has them for n - 1. *)
LEMMA Grows ==
    ASSUME NEW n \in Nat PROVE Grown(n)
<1> DEFINE T == {m \in Nat : ~Grown(m)}
<1>1. SUFFICES ASSUME T # {} PROVE FALSE
  BY <1>1
<1>2. PICK m \in T : \A k \in T : m <= k
  <2> T \in SUBSET Nat
    OBVIOUS
  <2> HIDE DEF T
  <2> QED BY <1>1, Least
<1>3. m # 0
  <2> DEFINE f == [k \in 0..0 |-> 1]
  <2>1. \A k \in 0..0 : k = 0
    OBVIOUS
  <2>2. f = [k \in 0..0 |-> IF k = 0 THEN 1 ELSE Base * f[k - 1]]
    BY <2>1
  <2>3. Grown(0)
    BY <2>2 DEF Grown
  <2> QED BY <2>3
<1>4. m - 1 \in Nat /\ ~(m <= m - 1)
  BY <1>3
<1>5. PICK g : g = [k \in 0..(m - 1) |-> IF k = 0 THEN 1 ELSE Base * g[k - 1]]
  BY <1>2, <1>4 DEF Grown
<1> DEFINE f == [k \in 0..m |-> IF k = m THEN Base * g[m - 1] ELSE g[k]]
<1>6. ASSUME NEW k \in 0..m PROVE f[k] = IF k = 0 THEN 1 ELSE Base * f[k - 1]
  <2>1. CASE k = m
    <3>1. f[k] = Base * g[m - 1] /\ f[k - 1] = g[m - 1]
      BY <1>3, <2>1
    <3> QED BY <3>1, <2>1, <1>3
  <2>2. CASE k # m
    <3>1. k \in 0..(m - 1) /\ f[k] = g[k]
      BY <2>2
    <3>2. g[k] = IF k = 0 THEN 1 ELSE Base * g[k - 1]
      BY <1>5, <3>1
    <3>3. k # 0 => f[k - 1] = g[k - 1]
      BY <2>2
    <3> QED BY <3>1, <3>2, <3>3
  <2> QED BY <2>1, <2>2
<1>7. f = [k \in 0..m |-> f[k]]
  OBVIOUS
<1> HIDE DEF f
<1>8. f = [k \in 0..m |-> IF k = 0 THEN 1 ELSE Base * f[k - 1]]
  BY <1>6, <1>7
<1>9. Grown(m)
  BY <1>8 DEF Grown
<1> QED
  BY <1>2, <1>9

(* So Power is what its definition says.                                   *)
LEMMA Powers ==
    /\ Power[0] = 1
    /\ \A k \in 1..Width : Power[k] = Base * Power[k - 1]
    /\ \A k \in 0..Width : Power[k] \in Nat \ {0}
<1>1. Width \in Nat \ {0} /\ Base \in Nat \ {0, 1}
  BY RewriteAssumption
<1>2. Power = [k \in 0..Width |-> IF k = 0 THEN 1 ELSE Base * Power[k - 1]]
  <2>1. Grown(Width)
    BY <1>1, Grows
  <2> QED BY <2>1 DEF Power, Grown
<1>3. Power[0] = 1 /\ \A k \in 1..Width : Power[k] = Base * Power[k - 1]
  <2>1. \A k \in 0..Width : Power[k] = IF k = 0 THEN 1 ELSE Base * Power[k - 1]
    BY <1>2
  <2>2. 0 \in 0..Width /\ \A k \in 1..Width : k \in 0..Width /\ k # 0
    BY <1>1
  <2> QED BY <2>1, <2>2
<1> DEFINE T == {k \in 0..Width : Power[k] \notin Nat \ {0}}
<1>4. T = {}
  <2> SUFFICES ASSUME T # {} PROVE FALSE
    OBVIOUS
  <2>1. PICK m \in T : \A k \in T : m <= k
    <3> T \in SUBSET Nat
      OBVIOUS
    <3> HIDE DEF T
    <3> QED BY Least
  <2>2. m # 0 /\ m \in 0..Width
    BY <2>1, <1>3
  <2>3. m - 1 \in 0..Width /\ ~(m <= m - 1) /\ m \in 1..Width
    BY <2>2, <1>1
  <2>4. Power[m - 1] \in Nat \ {0}
    BY <2>1, <2>3
  <2>5. Base * Power[m - 1] \in Nat \ {0}
    BY <2>4, <1>1
  <2> QED BY <2>1, <2>3, <2>5, <1>3
<1> QED
  BY <1>3, <1>4

-----------------------------------------------------------------------------
(* A quotient is a number, *)
LEMMA Quotient ==
    ASSUME NEW a \in Nat, NEW p \in Nat \ {0}
    PROVE  /\ a \div p \in Nat /\ (a % p) \in 0..(p - 1)
           /\ a = p * (a \div p) + (a % p)
OBVIOUS

(* is the only one that leaves a remainder below the divisor, *)
LEMMA OneQuotient ==
    ASSUME NEW a \in Nat, NEW p \in Nat \ {0}, NEW q \in Nat, NEW r \in 0..(p - 1), a = p * q + r
    PROVE  q = a \div p
OBVIOUS

(* and grows with the dividend.                                            *)
LEMMA Monotone ==
    ASSUME NEW a \in Nat, NEW b \in Nat, a <= b, NEW p \in Nat \ {0}
    PROVE  a \div p <= b \div p
<1> DEFINE x == a \div p
           y == b \div p
<1>1. /\ x \in Nat /\ (a % p) \in 0..(p - 1) /\ a = p * x + (a % p)
      /\ y \in Nat /\ (b % p) \in 0..(p - 1) /\ b = p * y + (b % p)
  BY Quotient
<1>2. SUFFICES ASSUME y < x PROVE FALSE
  BY <1>1
<1> HIDE DEF x, y
<1>3. p * y + p <= p * x
  BY <1>1, <1>2
<1>4. p * x \in Nat /\ p * y \in Nat
  BY <1>1
<1> QED
  BY <1>1, <1>3, <1>4

(* Dividing twice divides by the product. *)
LEMMA TwiceDivided ==
    ASSUME NEW a \in Nat, NEW p \in Nat \ {0}, NEW b \in Nat \ {0}
    PROVE  a \div p = b * (a \div (b * p)) + ((a \div p) % b) /\ ((a \div p) % b) \in 0..(b - 1)
<1> DEFINE x == a \div p
           y == x \div b
           r == a % p
           d == x % b
<1>1. /\ x \in Nat /\ r \in 0..(p - 1) /\ a = p * x + r
      /\ y \in Nat /\ d \in 0..(b - 1) /\ x = b * y + d
  BY Quotient
<1>2. b * p \in Nat \ {0}
  OBVIOUS
<1> HIDE DEF x, y, r, d
<1>3. a = (b * p) * y + (p * d + r)
  <2>1. a = p * (b * y + d) + r
    BY <1>1
  <2>2. p * (b * y + d) = p * (b * y) + p * d
    BY <1>1
  <2>3. p * (b * y) = (b * p) * y
    BY <1>1
  <2>4. p * d \in Int /\ (b * p) * y \in Int
    BY <1>1
  <2> QED BY <2>1, <2>2, <2>3, <2>4, <1>1
<1>4. p * d + r \in 0..(b * p - 1)
  <2>1. p * d + p <= p * b
    BY <1>1
  <2>2. p * d \in Nat /\ p * b = b * p
    BY <1>1
  <2> QED BY <2>1, <2>2, <1>1, <1>2
<1>5. y = a \div (b * p)
  BY <1>1, <1>2, <1>3, <1>4, OneQuotient
<1> QED
  BY <1>1, <1>5 DEF x, d

(* The number that the first i of w digits write. *)
Leading(n, w, i) == n \div Power[w - i]

(* It is the number before it, times the base, plus the digit.             *)
LEMMA LeadingNumbers ==
    ASSUME NEW w \in 0..Width, NEW n \in 0..(Power[w] - 1)
    PROVE  /\ Digits(n, w) \in Text /\ Len(Digits(n, w)) = w
           /\ \A i \in 0..w : Leading(n, w, i) \in Nat
           /\ Leading(n, w, 0) = 0 /\ Leading(n, w, w) = n
           /\ \A i \in 1..w : /\ Digits(n, w)[i] \in 0..(Base - 1)
                              /\ Leading(n, w, i) = Base * Leading(n, w, i - 1) + Digits(n, w)[i]
<1>0. Width \in Nat \ {0} /\ Base \in Nat \ {0, 1} /\ w \in Nat
  BY RewriteAssumption
<1>1. \A i \in 0..w : w - i \in 0..Width
  BY <1>0
<1>2. \A k \in 0..Width : Power[k] \in Nat \ {0}
  BY Powers
<1>3. n \in Nat
  BY <1>0, <1>2
<1>4. ASSUME NEW i \in 0..w PROVE Leading(n, w, i) \in Nat
  BY <1>1, <1>2, <1>3, Quotient DEF Leading
<1>5. Leading(n, w, 0) = 0
  <2>1. Power[w] \in Nat \ {0} /\ n = Power[w] * 0 + n
    BY <1>2, <1>3, <1>0
  <2>2. 0 = n \div Power[w]
    BY <2>1, OneQuotient
  <2>3. w - 0 = w
    BY <1>0
  <2> QED BY <2>2, <2>3 DEF Leading
<1>6. Leading(n, w, w) = n
  <2>1. Power[w - w] = 1
    BY <1>0, Powers
  <2>2. n = n \div 1
    BY <1>3
  <2> QED BY <2>1, <2>2 DEF Leading
<1>7. ASSUME NEW i \in 1..w
      PROVE  /\ Digits(n, w)[i] \in 0..(Base - 1)
             /\ Leading(n, w, i) = Base * Leading(n, w, i - 1) + Digits(n, w)[i]
  <2>1. /\ w - i \in 0..Width /\ w - (i - 1) \in 1..Width
        /\ (w - (i - 1)) - 1 = w - i
    BY <1>0
  <2>2. Power[w - (i - 1)] = Base * Power[w - i] /\ Power[w - i] \in Nat \ {0}
    BY <2>1, Powers
  <2>3. Digits(n, w)[i] = (n \div Power[w - i]) % Base
    BY DEF Digits
  <2>4. Base \in Nat \ {0}
    BY <1>0
  <2> DEFINE p == Power[w - i]
  <2>5. p \in Nat \ {0}
    BY <2>2
  <2> HIDE DEF p
  <2>6. n \div p = Base * (n \div (Base * p)) + ((n \div p) % Base)
        /\ ((n \div p) % Base) \in 0..(Base - 1)
    BY ONLY <2>4, <2>5, <1>3, TwiceDivided
  <2>7. Leading(n, w, i) = n \div p /\ Leading(n, w, i - 1) = n \div (Base * p)
    BY <2>2 DEF Leading, p
  <2>8. Digits(n, w)[i] = (n \div p) % Base
    BY <2>3 DEF p
  <2> QED
    BY <2>6, <2>7, <2>8
<1>8. Digits(n, w) = [i \in 1..w |-> Digits(n, w)[i]]
  BY DEF Digits
<1>9. Digits(n, w) \in Text /\ Len(Digits(n, w)) = w
  <2>1. \A i \in 1..w : Digits(n, w)[i] \in Int
    BY <1>7, <1>0
  <2>2. Digits(n, w) \in [1..w -> Int]
    BY <1>8, <2>1
  <2> QED BY <2>2, <1>0 DEF Text
<1> QED
  BY <1>4, <1>5, <1>6, <1>7, <1>9

(* Numbers of the same width are ordered like their digits. *)
LEMMA DigitsAscend ==
    ASSUME NEW w \in 0..Width,
           NEW a \in 0..(Power[w] - 1), NEW b \in 0..(Power[w] - 1), a < b
    PROVE  Less(Digits(a, w), Digits(b, w))
<1> DEFINE A == Digits(a, w)
           B == Digits(b, w)
           T == {i \in 0..w : Leading(a, w, i) # Leading(b, w, i)}
<1>0. Width \in Nat \ {0} /\ Base \in Nat \ {0, 1} /\ w \in Nat /\ Power[w] \in Nat \ {0}
  BY RewriteAssumption, Powers
<1>1. /\ A \in Text /\ Len(A) = w
      /\ \A i \in 0..w : Leading(a, w, i) \in Nat
      /\ Leading(a, w, 0) = 0 /\ Leading(a, w, w) = a
      /\ \A i \in 1..w : /\ A[i] \in 0..(Base - 1)
                         /\ Leading(a, w, i) = Base * Leading(a, w, i - 1) + A[i]
  BY LeadingNumbers
<1>2. /\ B \in Text /\ Len(B) = w
      /\ \A i \in 0..w : Leading(b, w, i) \in Nat
      /\ Leading(b, w, 0) = 0 /\ Leading(b, w, w) = b
      /\ \A i \in 1..w : /\ B[i] \in 0..(Base - 1)
                         /\ Leading(b, w, i) = Base * Leading(b, w, i - 1) + B[i]
  BY LeadingNumbers
<1>3. PICK m \in T : \A k \in T : m <= k
  <2>1. w \in T
    BY <1>0, <1>1, <1>2
  <2>2. T \in SUBSET Nat
    BY <1>0
  <2> HIDE DEF T
  <2> QED BY <2>1, <2>2, Least
<1>4. m \in 1..w
  BY <1>0, <1>1, <1>2, <1>3
<1> HIDE DEF A, B
<1>5. \A k \in 0..(m - 1) : Leading(a, w, k) = Leading(b, w, k)
  <2> SUFFICES ASSUME NEW k \in 0..(m - 1) PROVE Leading(a, w, k) = Leading(b, w, k)
    OBVIOUS
  <2>1. k \in 0..w /\ ~(m <= k)
    BY <1>0, <1>4
  <2> QED BY <2>1, <1>3
<1>6. \A k \in 1..(m - 1) : A[k] = B[k]
  <2> SUFFICES ASSUME NEW k \in 1..(m - 1) PROVE A[k] = B[k]
    OBVIOUS
  <2>1. k \in 1..w /\ k \in 0..(m - 1) /\ k - 1 \in 0..(m - 1) /\ k - 1 \in 0..w
    BY <1>0, <1>4
  <2>4. Leading(a, w, k) = Leading(b, w, k) /\ Leading(a, w, k - 1) = Leading(b, w, k - 1)
    BY <2>1, <1>5
  <2>5. /\ A[k] \in 0..(Base - 1) /\ Leading(a, w, k) = Base * Leading(a, w, k - 1) + A[k]
        /\ B[k] \in 0..(Base - 1) /\ Leading(b, w, k) = Base * Leading(b, w, k - 1) + B[k]
        /\ Leading(a, w, k - 1) \in Nat
    BY <2>1, <1>1, <1>2
  <2> DEFINE X == Base * Leading(a, w, k - 1)
  <2>2. X \in Int
    BY <2>5, <1>0
  <2>3. Leading(a, w, k) = X + A[k] /\ Leading(a, w, k) = X + B[k]
    BY ONLY <2>4, <2>5
  <2> HIDE DEF X
  <2>6. \A x \in 0..(Base - 1) : x \in Int
    OBVIOUS
  <2>7. A[k] \in Int /\ B[k] \in Int
    BY ONLY <2>5, <2>6
  <2>8. \A x, p, q \in Int : x + p = x + q => p = q
    OBVIOUS
  <2>9. X + A[k] = X + B[k]
    BY ONLY <2>3
  <2> QED BY ONLY <2>2, <2>7, <2>8, <2>9
<1>7. Leading(a, w, m) < Leading(b, w, m)
  <2>1. m \in 0..w /\ w - m \in 0..Width /\ a \in Nat /\ b \in Nat /\ a <= b
    BY <1>0, <1>4
  <2>2. Power[w - m] \in Nat \ {0}
    BY <2>1, Powers
  <2>3. Leading(a, w, m) <= Leading(b, w, m)
    BY <2>1, <2>2, Monotone DEF Leading
  <2> QED BY <2>1, <2>3, <1>1, <1>2, <1>3
<1>8. A[m] < B[m]
  <2>1. m - 1 \in 0..(m - 1) /\ m - 1 \in 0..w
    BY <1>0, <1>4
  <2>2. /\ Leading(a, w, m - 1) = Leading(b, w, m - 1) /\ Leading(a, w, m - 1) \in Nat
        /\ Leading(a, w, m) = Base * Leading(a, w, m - 1) + A[m]
        /\ Leading(b, w, m) = Base * Leading(b, w, m - 1) + B[m]
        /\ A[m] \in Int /\ B[m] \in Int
    BY <2>1, <1>0, <1>1, <1>2, <1>4, <1>5
  <2>3. Base * Leading(a, w, m - 1) \in Int
    BY <2>2, <1>0
  <2> QED BY <2>2, <2>3, <1>7
<1>9. Parts(A, B, m - 1)
  <2>1. m - 1 \in 0..Len(A) /\ m - 1 < Len(B) /\ (m - 1) + 1 = m
    BY <1>0, <1>1, <1>2, <1>4
  <2> QED BY <2>1, <1>6, <1>8 DEF Parts
<1> QED
  <2>1. m - 1 \in Nat
    BY <1>4
  <2> QED BY <2>1, <1>1, <1>2, <1>9, LessParts DEF A, B

(* What is written, in front of the digits of a number that is not         *)
(* negative, and the order of what is written is that of the numbers.      *)
LEMMA WrittenAscends ==
    ASSUME NEW a \in (-Back)..(Power[Width] - 1), NEW b \in 0..(Power[Width] - 1)
    PROVE  /\ Written(a) \in Text /\ Written(b) \in Text
           /\ Less(Written(a), Written(b)) <=> a < b
<1>0. /\ Width \in Nat \ {0} /\ Base \in Nat \ {0, 1} /\ Back \in Nat /\ Back < Power[Width - 1]
      /\ Power[Width] \in Nat /\ Power[Width - 1] \in Nat
      /\ a \in Int /\ b \in Int /\ Width \in 0..Width /\ Width - 1 \in 0..Width
  BY RewriteAssumption, Powers
<1>1. /\ Written(b) = Digits(b, Width) /\ Digits(b, Width) \in Text /\ Len(Digits(b, Width)) = Width
      /\ \A i \in 1..Width : Digits(b, Width)[i] \in 0..(Base - 1)
  BY <1>0, LeadingNumbers DEF Written
<1>2. CASE a < 0
  <2>1. -a \in 0..(Power[Width - 1] - 1)
    BY <1>0, <1>2
  <2>2. Written(a) = <<Minus>> \o Digits(-a, Width - 1) /\ Digits(-a, Width - 1) \in Text
    BY <1>0, <1>2, <2>1, LeadingNumbers DEF Written
  <2> DEFINE D == Digits(-a, Width - 1)
  <2> HIDE DEF D
  <2>3. /\ Written(a) \in Text /\ Len(Written(a)) > 0
        /\ Len(Written(a)) \in Nat /\ Written(a)[1] = Minus
    <3>1. <<Minus>> \in Seq(Int) /\ D \in Seq(Int) /\ Written(a) = <<Minus>> \o D
      BY <2>2 DEF D, Text, Minus
    <3>2. <<Minus>> \o D \in Seq(Int) /\ Len(<<Minus>> \o D) = 1 + Len(D) /\ (<<Minus>> \o D)[1] = Minus
          /\ Len(D) \in Nat
      BY <3>1
    <3> QED BY <3>1, <3>2 DEF Text
  <2>4. Written(b)[1] > Minus
    BY <1>0, <1>1 DEF Minus
  <2>5. Parts(Written(a), Written(b), 0)
    BY <2>3, <2>4, <1>0, <1>1 DEF Parts, Minus
  <2>6. Less(Written(a), Written(b))
    BY <2>3, <2>5, <1>1, LessParts
  <2> QED BY <2>3, <2>6, <1>0, <1>1, <1>2
<1>3. CASE ~(a < 0)
  <2>1. a \in 0..(Power[Width] - 1)
    BY <1>0, <1>3
  <2>2. Written(a) = Digits(a, Width) /\ Digits(a, Width) \in Text
    BY <1>0, <1>3, <2>1, LeadingNumbers DEF Written
  <2>3. a < b => Less(Written(a), Written(b))
    BY <2>1, <2>2, <1>0, <1>1, DigitsAscend
  <2>4. ASSUME Less(Written(a), Written(b)) PROVE a < b
    <3>1. a # b
      BY <2>2, <2>4, LessIrreflexive
    <3>2. ~(b < a)
      <4>1. SUFFICES ASSUME b < a PROVE FALSE
        OBVIOUS
      <4>2. Less(Written(b), Written(a))
        BY <4>1, <2>1, <2>2, <1>0, <1>1, DigitsAscend
      <4> QED BY <4>2, <2>4, <2>2, <1>1, LessTransitive, LessIrreflexive
    <3> QED BY <3>1, <3>2, <1>0
  <2> QED BY <2>2, <2>3, <2>4, <1>1
<1> QED
  BY <1>2, <1>3

(* A written number is the number's alone, so its value is that number.    *)
LEMMA WrittenOnce ==
    ASSUME NEW a \in (-Back)..(Power[Width] - 1), NEW b \in (-Back)..(Power[Width] - 1),
           Written(a) = Written(b)
    PROVE  a = b
<1>0. /\ Width \in Nat \ {0} /\ Back \in Nat /\ Back < Power[Width - 1]
      /\ Power[Width] \in Nat /\ Power[Width - 1] \in Nat
      /\ a \in Int /\ b \in Int /\ Width - 1 \in 0..Width
  BY RewriteAssumption, Powers
<1>1. ASSUME NEW x \in (-Back)..(Power[Width] - 1), NEW y \in 0..(Power[Width] - 1),
             Written(x) = Written(y)
      PROVE  ~(x < y)
  BY <1>1, WrittenAscends, LessIrreflexive
<1>2. ASSUME NEW x \in (-Back)..(-1), NEW y \in (-Back)..(-1), Written(x) = Written(y)
      PROVE  ~(x < y)
  <2>1. -x \in 0..(Power[Width - 1] - 1) /\ -y \in 0..(Power[Width - 1] - 1) /\ x < 0 /\ y < 0
    BY <1>0
  <2> DEFINE D == Digits(-x, Width - 1)
             E == Digits(-y, Width - 1)
  <2>2. D \in Seq(Int) /\ E \in Seq(Int)
    BY <2>1, <1>0, LeadingNumbers DEF Text
  <2>3. <<Minus>> \o D = <<Minus>> \o E /\ Minus \in Int
    BY <1>2, <2>1 DEF Written, Minus
  <2>4. D \in Text /\ ~Less(D, D)
    BY <2>2, LessIrreflexive DEF Text
  <2>5. -y < -x => Less(E, D)
    BY <2>1, <1>0, DigitsAscend
  <2> HIDE DEF D, E
  <2>6. D = E
    <3>1. Len(<<Minus>>) = 1 /\ <<Minus>> \in Seq(Int)
      BY <2>3
    <3>2. Len(D) = Len(E) /\ Len(D) \in Nat
      BY <3>1, <2>2, <2>3
    <3>3. ASSUME NEW k \in 1..Len(D) PROVE D[k] = E[k]
      BY <3>1, <3>2, <2>2, <2>3
    <3>4. D \in Text /\ E \in Text
      BY <2>2 DEF Text
    <3> QED BY <3>2, <3>3, <3>4, SameText
  <2>7. x \in Int /\ y \in Int
    OBVIOUS
  <2> QED BY <2>4, <2>5, <2>6, <2>7
<1> QED
  <2>1. CASE a >= 0 /\ b >= 0
    BY <2>1, <1>0, <1>1
  <2>2. CASE a < 0 /\ b >= 0
    BY <2>2, <1>0, <1>1
  <2>3. CASE a >= 0 /\ b < 0
    BY <2>3, <1>0, <1>1
  <2>4. CASE a < 0 /\ b < 0
    <3>1. a \in (-Back)..(-1) /\ b \in (-Back)..(-1)
      BY <2>4, <1>0
    <3> QED BY <3>1, <1>0, <1>2
  <2> QED BY <2>1, <2>2, <2>3, <2>4, <1>0

(* The pages of generations are the same: the late page starts at a number *)
(* that may be negative, and the sign comes before every digit.            *)
THEOREM SameGenerations ==
    ASSUME NEW last \in 1..(Power[Width] - 1)
    PROVE  OldGenerations(last, Written(last - Back)) = NewGenerations(last, Written(last - Back))
<1> DEFINE n == last - Back
<1>1. n \in (-Back)..(Power[Width] - 1) /\ Back \in Nat /\ last \in Nat /\ Power[Width] \in Nat
  BY RewriteAssumption, Powers
<1> HIDE DEF n
<1>2. Value(Written(n)) = n
  <2>1. \A k \in (-Back)..(Power[Width] - 1) : Written(k) = Written(n) <=> k = n
    BY <1>1, WrittenOnce
  <2> QED BY <1>1, <2>1 DEF Value
<1>3. ASSUME NEW g \in 1..last PROVE Less(Written(n), Written(g)) <=> g > n
  <2>1. g \in 0..(Power[Width] - 1) /\ g \in Int /\ n \in Int
    BY <1>1
  <2> QED BY <2>1, <1>1, WrittenAscends
<1>4. {g \in 1..last : Less(Written(n), Written(g))} = {g \in 1..last : g > Value(Written(n))}
  BY <1>2, <1>3
<1>5. OldGenerations(last, Written(n)) = NewGenerations(last, Written(n))
  BY <1>4 DEF OldGenerations, NewGenerations
<1> QED BY <1>5 DEF n

(* The cursor is a row of the library.                                     *)
LEMMA CursorIsRow ==
    ASSUME NEW rows \in Table(Identity \X Identity), NEW n \in Nat, Cardinality(rows) > n
    PROVE  Sorted(rows, PairLess)[n + 1] \in rows
<1>1. rows \in SUBSET (Identity \X Identity) /\ IsFiniteSet(rows)
  BY DEF Table
<1>2. Orders(PairOrder(rows), rows)
  BY <1>1, PairsOrder
<1> DEFINE e == Enumeration(rows, PairOrder(rows))
<1>3. Cardinality(rows) \in Nat /\ e \in [1..Cardinality(rows) -> rows]
  BY <1>1, <1>2, Enumerated
<1> HIDE DEF e
<1>4. e[n + 1] \in rows
  BY <1>3
<1> QED BY <1>4, SortedPairs DEF e

-----------------------------------------------------------------------------
(* The generations that the pages count. *)
Numbered ==
    /\ source.last \in 1..(Power[Width] - 1)
    /\ at \notin {"start", "raised"} => target.last \in 1..(Power[Width] - 1)
    /\ skip \in Nat

(* No lineage group of the library or of its copy holds the separator.     *)
Plain == PlainGroups(source) /\ PlainGroups(target)

RewritesInv == CasesInv /\ Numbered /\ AnchorsAgree
PagesInv == RewritesInv /\ Plain /\ PagesAgree

(* They are numbers of the script in its first states *)
LEMMA RewritesInit == Init => RewritesInv
<1> SUFFICES ASSUME Init PROVE Numbered /\ AnchorsAgree
  BY CasesInit DEF RewritesInv
<1>1. MaxSkip \in Nat /\ \A db \in Databases : db.last \in 1..(Power[Width] - 1)
  BY RewriteAssumption
<1>2. DOMAIN equal = {}
  BY DEF Init
<1> QED
  BY <1>1, <1>2 DEF Init, Numbered, AnchorsAgree

(* Withdrawing rows makes no generation.                                   *)
LEMMA WithdrawnLast ==
    ASSUME NEW db \in Library, NEW w \in Withdrawn(db) PROVE w.last = db.last
BY DEF Withdrawn, Library

(* and stay so, and every comparison it makes finds its results equal.      *)
LEMMA RewritesNext == RewritesInv /\ [Next]_vars => RewritesInv'
<1> SUFFICES ASSUME RewritesInv, [Next]_vars PROVE Numbered' /\ AnchorsAgree'
  BY CasesNext DEF RewritesInv
<1> USE DEF RewritesInv
<1>1. CASE Stale \/ AlreadyIndexed \/ TooFewRows
  BY <1>1 DEF Stale, AlreadyIndexed, TooFewRows, Raised, Numbered, AnchorsAgree
<1>2. CASE Backup
  BY <1>2 DEF Backup, Numbered, AnchorsAgree
<1>3. CASE Before
  BY <1>3 DEF Before, Numbered, AnchorsAgree
<1>4. CASE Indexes
  <2>1. target'.last = target.last
    BY <1>4 DEF Indexes, CasesInv, Typed, Library
  <2> QED
    BY <1>4, <2>1 DEF Indexes, Numbered, AnchorsAgree
<1>5. CASE After
  BY <1>5 DEF After, Compared, Numbered, AnchorsAgree
<1>6. CASE CompareAnchors
  <2>1. \A q \in Questions : Expected(target, q) = Anchors(target, q)
    BY SameAnchors, RewriteAssumption DEF CasesInv, Typed
  <2> QED
    BY <1>6, <2>1 DEF CompareAnchors, Compared, Numbered, AnchorsAgree
<1>7. CASE ComparePages
  BY <1>7 DEF ComparePages, Compared, Numbered, AnchorsAgree
<1>8. CASE Result
  BY <1>8 DEF Result, Numbered, AnchorsAgree
<1>9. CASE Publish
  BY <1>9, WithdrawnLast DEF Publish, Numbered, AnchorsAgree, CasesInv, Typed
<1>10. CASE UNCHANGED vars
  BY <1>10 DEF vars, Numbered, AnchorsAgree
<1> QED
  BY <1>1, <1>2, <1>3, <1>4, <1>5, <1>6, <1>7, <1>8, <1>9, <1>10 DEF Next

(* Withdrawing rows writes no lineage group.                               *)
LEMMA WithdrawnGroups ==
    ASSUME NEW db \in Library, NEW w \in Withdrawn(db) PROVE w.support = db.support
BY DEF Withdrawn, Library

LEMMA PagesInit == (\A db \in Databases : PlainGroups(db)) /\ Init => PagesInv
<1> SUFFICES ASSUME \A db \in Databases : PlainGroups(db), Init PROVE PagesInv
  OBVIOUS
<1>1. Plain
  BY DEF Init, NoCopy, Plain, PlainGroups
<1> QED
  BY <1>1, RewritesInit DEF Init, PagesAgree, PagesInv

(* The page after a row of plain groups is the old one.                    *)
LEMMA PagesNext == PagesInv /\ [Next]_vars => PagesInv'
<1> SUFFICES ASSUME PagesInv, [Next]_vars PROVE Plain' /\ PagesAgree'
  BY RewritesNext DEF PagesInv
<1>0. RewritesInv /\ Plain /\ PagesAgree /\ source \in Library /\ target \in Library
  BY DEF PagesInv, RewritesInv, CasesInv, Typed
<1>1. CASE Stale \/ AlreadyIndexed \/ TooFewRows
  BY <1>0, <1>1 DEF Stale, AlreadyIndexed, TooFewRows, Raised, Plain, PagesAgree
<1>2. CASE Backup
  BY <1>0, <1>2 DEF Backup, Plain, PagesAgree
<1>3. CASE Before
  BY <1>0, <1>3 DEF Before, Plain, PagesAgree
<1>4. CASE Indexes
  <2>1. target'.support = target.support
    BY <1>0, <1>4 DEF Indexes, Library
  <2> QED
    BY <1>0, <1>4, <2>1 DEF Indexes, Plain, PlainGroups, PagesAgree
<1>5. CASE After
  BY <1>0, <1>5 DEF After, Compared, Plain, PagesAgree
<1>6. CASE CompareAnchors
  BY <1>0, <1>6 DEF CompareAnchors, Compared, Plain, PagesAgree
<1>7. CASE ComparePages
  <2> DEFINE cursor == Joined(Sorted(target.support, PairLess)[skip + 1])
             late == Written(target.last - Back)
             same == /\ OldPage(target.support, cursor) = NewPage(target.support, cursor)
                     /\ OldGenerations(target.last, late) = NewGenerations(target.last, late)
  <2>1. /\ Compared("pages", same) /\ at' = "result"
        /\ UNCHANGED <<source, target, fresh, skip, before>>
        /\ at = "pages" /\ Cardinality(target.support) > skip
    BY <1>7 DEF ComparePages
  <2>2. target.support \in Table(Identity \X Identity)
    <3>1. target.support \in Table(Text \X Identity)
      BY <1>0 DEF Library
    <3>2. \A row \in target.support : row[1] \in Identity
      BY <1>0 DEF Plain, PlainGroups
    <3>3. \A row \in target.support : row = <<row[1], row[2]>> /\ row[2] \in Identity
      BY <3>1 DEF Table
    <3>4. \A row \in target.support : row \in Identity \X Identity
      BY <3>2, <3>3
    <3> QED BY <3>1, <3>4 DEF Table
  <2>3. skip \in Nat /\ target.last \in 1..(Power[Width] - 1)
    BY <1>0, <2>1 DEF RewritesInv, Numbered
  <2>4. Sorted(target.support, PairLess)[skip + 1] \in target.support
    BY <2>1, <2>2, <2>3, CursorIsRow
  <2>5. target.support \in SUBSET (Identity \X Identity)
    BY <2>2 DEF Table
  <2>6. same
    BY <2>4, <2>5, <2>3, SamePages, SameGenerations
  <2> HIDE DEF same
  <2> QED
    BY <1>0, <2>1, <2>6 DEF Compared, Plain, PagesAgree
<1>8. CASE Result
  BY <1>0, <1>8 DEF Result, Plain, PagesAgree
<1>9. CASE Publish
  <2>1. source'.support = source.support
    BY <1>0, <1>9, WithdrawnGroups DEF Publish
  <2> QED
    BY <1>0, <1>9, <2>1 DEF Publish, Plain, PlainGroups, PagesAgree
<1>10. CASE UNCHANGED vars
  BY <1>0, <1>10 DEF vars, Plain, PagesAgree
<1> QED
  BY <1>1, <1>2, <1>3, <1>4, <1>5, <1>6, <1>7, <1>8, <1>9, <1>10 DEF Next

(* Whatever library the diagnostic copies and whatever questions it asks,  *)
(* the recursive phrase query of _anchors names the concepts that the walk *)
(* over the catalogue names, in the same order.                            *)
THEOREM AnchorsNeverDiffer == Spec => []AnchorsAgree
<1>1. RewritesInv => AnchorsAgree
  BY DEF RewritesInv
<1> QED
  BY <1>1, RewritesInit, RewritesNext, PTL DEF Spec

(* If the lineage groups of the libraries have no character up to the      *)
(* separator, the candidates of every alias issue, the page of support     *)
(* rows after any row and the page of generations after any number that    *)
(* the diagnostic takes as a cursor are those of the old queries.  With    *)
(* such a character in a group the two orders of the support rows differ.  *)
THEOREM Rewrites ==
    ASSUME \A db \in Databases : PlainGroups(db)
    PROVE  Spec => []RewritesAgree
<1>1. PagesInv => RewritesAgree
  BY DEF PagesInv, RewritesInv, CasesInv, RewritesAgree
<1>2. Init => PagesInv
  BY PagesInit
<1> QED
  BY <1>1, <1>2, PagesNext, PTL DEF Spec
=============================================================================
