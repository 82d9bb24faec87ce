--------------------------- MODULE MCRgaSequence ---------------------------
(***************************************************************************)
(* Model-checking instance of RgaSequence, with the incremental ordering    *)
(* of the feature sequence_incremental.                                     *)
(***************************************************************************)
EXTENDS RgaSequence

\* is_descendant_of: x's chain of anchors passes through ancestor.
IsDescendant(E, x, ancestor) ==
    LET up[i \in Ids(E)] ==
            LET e == CHOOSE e \in E : e.id = i
            IN  e.after = ancestor \/ (e.after # NoId /\ up[e.after])
    IN  up[x]

\* Mutant of SubtreeEnd: the run of direct children only.
SubtreeEndShallow(E, order, parent) ==
    IF parent = NoId THEN Len(order)
    ELSE LET start == CHOOSE k \in DOMAIN order : order[k] = parent
             inside == {k \in DOMAIN order : k > start /\
                          \E e \in E : e.id = order[k] /\ e.after = parent}
         IN  start + Cardinality(inside)

\* subtree_end: how many elements come before the end of parent's subtree.
SubtreeEnd(E, order, parent) ==
    IF parent = NoId THEN Len(order)
    ELSE LET start == CHOOSE k \in DOMAIN order : order[k] = parent
             past == {k \in DOMAIN order : k > start /\ ~IsDescendant(E, order[k], parent)}
         IN  IF past = {} THEN Len(order) ELSE Min(past) - 1

\* insert_incrementally: before the first sibling that sorts after the new
\* element, else at the end of the anchor's subtree.
InsertIncrementally(E, order, new) ==
    LET later == {k \in DOMAIN order : \E e \in E :
                     e.id = order[k] /\ e.after = new.after /\ SiblingBefore(new, e)}
        at == IF later = {} THEN SubtreeEnd(E, order, new.after) ELSE Min(later) - 1
    IN  InsertAt(order, at + 1, new.id)

\* Placing an element incrementally gives the order a full rebuild gives ("incremental
\* sequence order diverged from full rebuild", the assertion of
\* debug_assert_incremental_order), for every element any replica could place next.
IncrementalIsRebuild ==
    \A r \in Peers :
        LET E == seq[r].elements
        IN  \A op \in issued :
               (op.id \notin Ids(E) /\ op.after \in Ids(E) \cup {NoId}) =>
                   InsertIncrementally(E, Order(E), op) = Order(E \cup {op})
=============================================================================
