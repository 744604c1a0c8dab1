------------------------- MODULE GenerationRegister -------------------------
(***************************************************************************)
(* What the store promises of its published generations: a tree that only  *)
(* grows, and a head that moves in two ways.  A publication adds a new     *)
(* generation on top of the head and moves the head there; a rollback      *)
(* moves the head to one of its ancestors and keeps the tree.  A number    *)
(* that was once published is never given to another generation.           *)
(***************************************************************************)
EXTENDS Naturals

VARIABLES
    tree,   \* published generations; tree[g] is the parent of g, 0 for the first
    head    \* the published generation

registerVars == <<tree, head>>

(* The generations from g back to the first: what each set holds that      *)
(* holds g and, with a generation, its parent.                             *)
Lineage(parents, g) ==
    LET Closed(S) == ({g} \cup {parents[h] : h \in S}) \cap DOMAIN parents \subseteq S
    IN  {h \in DOMAIN parents : \A S \in SUBSET DOMAIN parents : Closed(S) => h \in S}

RegisterInit == tree = [g \in {1} |-> 0] /\ head = 1

Extend(g) ==
    /\ g \in Nat \ DOMAIN tree
    /\ tree' = [h \in DOMAIN tree \cup {g} |->
                   IF h = g THEN head ELSE tree[h]]
    /\ head' = g

GoBack(g) ==
    /\ g \in Lineage(tree, head) \ {head}
    /\ head' = g /\ tree' = tree

RegisterNext == head' \in Nat /\ (Extend(head') \/ GoBack(head'))

RegisterSpec == RegisterInit /\ [][RegisterNext]_registerVars

=============================================================================
