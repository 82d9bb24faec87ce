--------------------------------- MODULE Rga ---------------------------------
(***************************************************************************)
(* The ordered sequence CRDT as a value: struct Sequence of                 *)
(* src/core/mod.rs with its operations Insert (id, after, right_origin) and *)
(* Delete (target).  NoId stands for None.                                  *)
(***************************************************************************)
EXTENDS Naturals, FiniteSets, SequencesExt

OpId == [counter : Nat, peer : Nat]

\* No operation has counter 0.
NoId == [counter |-> 0, peer |-> 0]

\* Derived order of OpId: counter first, then peer.
IdLess(i, j) ==
    \/ i.counter < j.counter
    \/ i.counter = j.counter /\ i.peer < j.peer

Ids(S) == {e.id : e \in S}

-----------------------------------------------------------------------------
(* Order: rebuild_order walks the tree of `after` links depth first.        *)

\* compare_siblings(a, b) = Less: a right neighbour sorts before none, smaller
\* right neighbours first, then the newer id first.
SiblingBefore(a, b) ==
    \/ a.right_origin # NoId /\ b.right_origin = NoId
    \/ /\ a.right_origin # NoId /\ b.right_origin # NoId
       /\ IdLess(a.right_origin, b.right_origin)
    \/ a.right_origin = b.right_origin /\ IdLess(b.id, a.id)

\* A finite set as a sequence, by a strict total order: each member has its place
\* among those before it.
Sorted(S, Before(_, _)) ==
    [i \in 1 .. Cardinality(S) |-> CHOOSE x \in S : Cardinality({y \in S : Before(y, x)}) = i - 1]

Children(E, parent) == Sorted({e \in E : e.after = parent}, SiblingBefore)

\* Mutant of Order: siblings whose right neighbour has not arrived go last.
OrderByKnownNeighbour(E) ==
    LET known(e) == e.right_origin \in Ids(E)
        before(a, b) == \/ known(a) /\ ~known(b)
                        \/ (known(a) <=> known(b)) /\ SiblingBefore(a, b)
        walk[p \in Ids(E) \cup {NoId}] ==
            FoldLeft(LAMBDA out, e : out \o <<e.id>> \o walk[e.id],
                     <<>>, Sorted({e \in E : e.after = p}, before))
    IN  walk[NoId]

\* rebuild_order with walk_children: the ids in pre-order.
Order(E) ==
    LET walk[p \in Ids(E) \cup {NoId}] ==
            FoldLeft(LAMBDA out, e : out \o <<e.id>> \o walk[e.id],
                     <<>>, Children(E, p))
    IN  walk[NoId]

\* compute_right_origin: the element after the anchor, tombstones included.
NextIn(order, i) == IF i \in DOMAIN order THEN order[i] ELSE NoId

RightNeighbour(order, after) ==
    NextIn(order, IF after = NoId THEN 1 ELSE 1 + CHOOSE k \in DOMAIN order : order[k] = after)

RightOrigin(E, after) == RightNeighbour(Order(E), after)

-----------------------------------------------------------------------------
(* Integration: apply_now followed by process_pending.                      *)

\* Mutant of Released: only the inserts waiting for the new element itself
\* leave the buffer, the ones waiting for those stay.
ReleasedDirectly(s, id) == {d \in s.pending_inserts : d.after = id}

\* What process_pending releases once id is present: the inserts anchored at
\* it and, transitively, at what it releases (the least closed set).
Released(s, id) ==
    {d \in s.pending_inserts :
        \A D \in SUBSET s.pending_inserts :
            (\A x \in s.pending_inserts : x.after \in Ids(D) \cup {id} => x \in D)
                => d \in D}

\* Mutant of ApplyInsert: deletes that arrived first are not replayed.
ApplyInsertForgetsDeletes(s, op) ==
    IF op.id \notin Ids(s.elements) /\ op.after \notin Ids(s.elements) \cup {NoId}
    THEN [s EXCEPT !.pending_inserts = @ \cup {op}]
    ELSE LET R == Released(s, op.id)
         IN  [s EXCEPT !.elements = @ \cup {e \in R \cup {op} : e.id \notin Ids(@)},
                       !.pending_inserts = @ \ R]

\* Sequence::apply of an Insert: buffered while its anchor is unknown, else
\* placed (a known id changes nothing), releasing what waited for it.
ApplyInsert(s, op) ==
    IF op.id \notin Ids(s.elements) /\ op.after \notin Ids(s.elements) \cup {NoId}
    THEN [s EXCEPT !.pending_inserts = @ \cup {op}]
    ELSE LET R == Released(s, op.id)
             new == Ids(R) \cup {op.id}
         IN  [s EXCEPT !.elements = @ \cup {e \in R \cup {op} : e.id \notin Ids(@)},
                       !.pending_inserts = @ \ R,
                       !.tombstones = @ \cup (s.pending_deletes \cap new),
                       !.pending_deletes = @ \ new]

\* Sequence::apply of a Delete.
ApplyDelete(s, target) ==
    IF target \in Ids(s.elements)
    THEN [s EXCEPT !.tombstones = @ \cup {target}]
    ELSE [s EXCEPT !.pending_deletes = @ \cup {target}]

\* get_element(id).is_some().
HasElement(s, id) == id \in Ids(s.elements)

-----------------------------------------------------------------------------
(* A sequence of values: the element ids as above, the order they are stored *)
(* in, and the value of every element that is not a tombstone, the buffered   *)
(* ones included.                                                           *)

NewSeq == [elements |-> {}, tombstones |-> {}, pending_inserts |-> {},
           pending_deletes |-> {}, order |-> <<>>, value |-> <<>>]

\* The values that are left, with one that came, and the order.
Stored(s, id, v) ==
    [s EXCEPT !.order = Order(s.elements),
              !.value = Restrict(@ @@ (id :> v),
                            (Ids(s.elements) \ s.tombstones) \cup Ids(s.pending_inserts))]

\* Sequence::apply of an Insert with its value.
SeqInsert(s, op, v) == Stored(ApplyInsert(s, op), op.id, v)

\* Sequence::apply of a Delete: the value goes, the element stays.
SeqDelete(s, target) ==
    [ApplyDelete(s, target) EXCEPT !.value =
        IF HasElement(s, target) THEN Restrict(@, DOMAIN @ \ {target}) ELSE @]

\* An Insert that is a tombstone from the start: the id takes its place in the
\* history, no value shows.
SeqBury(s, op) == SeqDelete(SeqInsert(s, op, "none"), op.id)

\* iter_all without the tombstones: the ids of the visible elements in order.
VisibleIds(s) == SelectSeq(s.order, LAMBDA i : i \notin s.tombstones)

\* iter: their values.
ValuesAt(s, ids) == [i \in DOMAIN ids |-> s.value[ids[i]]]

VisibleValues(s) == ValuesAt(s, VisibleIds(s))

\* from_ordered: a chain of elements without right neighbours.
FromOrdered(ids, values) ==
    [NewSeq EXCEPT !.elements = {[id |-> ids[i], right_origin |-> NoId,
                                  after |-> IF i = 1 THEN NoId ELSE ids[i - 1]] : i \in DOMAIN ids},
                   !.order = ids,
                   !.value = [id \in ToSet(ids) |-> values[CHOOSE i \in DOMAIN ids : ids[i] = id]]]
=============================================================================
