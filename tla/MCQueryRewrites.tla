--------------------------- MODULE MCQueryRewrites ---------------------------
(* Values for TLC: libraries of two concepts and an alias that differ in    *)
(* labels and visibility, and libraries that differ in their support rows   *)
(* and in their last generation.                                            *)
EXTENDS QueryRewrites

a == 3
b == 4

Labels == {<<>>, <<a>>, <<a, b>>, <<a, Blank>>, <<Blank, a>>, <<a, Blank, b>>, <<a, Blank, Blank, b>>}

MCQuestions ==
    {<<>>, <<a>>, <<b, Blank, a>>, <<a, b, Blank, b>>, <<a, Blank, b>>, <<a, Blank, Blank, b>>,
     <<Blank, a, Blank>>, <<Blank, Blank, a, Blank, b, Blank>>}

Concept(labels) ==
    {[label |-> l, retired |-> r, closed |-> c] : l \in labels, r \in BOOLEAN, c \in BOOLEAN}

NoAlias == {{}}
OneAlias == {{[label |-> l, target |-> t, closed |-> c]} :
                l \in Labels, t \in 0..2, c \in BOOLEAN}

Groups == {<<a>>, <<a, a>>, <<b>>}
SupportRows == Groups \X {<<a>>, <<b>>}

Issues == {[label |-> <<a>>, aliases |-> {}],
           [label |-> <<b>>, aliases |-> {<<a, Blank, b>>, <<a, b>>}]}

Contents(concepts, aliases, support, last, indexed) ==
    [concepts |-> concepts, aliases |-> aliases, support |-> support, last |-> last,
     issues |-> Issues, indexed |-> indexed]

Plain == <<[label |-> <<a>>, retired |-> FALSE, closed |-> FALSE]>>

MCDatabases ==
    {Contents(<<c, d>>, s, {<<<<a>>, <<b>>>>}, 3, FALSE) :
        c \in Concept(Labels), d \in Concept({<<a>>, <<a, Blank, b>>}), s \in NoAlias \cup OneAlias}
    \cup {Contents(Plain, {}, r, g, i) :
        r \in {R \in SUBSET SupportRows : Cardinality(R) <= 4}, g \in 1..7, i \in BOOLEAN}
=============================================================================
