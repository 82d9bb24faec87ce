----------------------------- MODULE RgaSequence -----------------------------
(***************************************************************************)
(* The ordered sequence CRDT (struct Sequence of src/core/mod.rs) that      *)
(* holds the blocks of a document, the children of a container, the text    *)
(* units of a paragraph and the rows and columns of a table.                *)
(*                                                                         *)
(* Replicas insert and delete locally and receive each other's operations   *)
(* in any order and any number of times.  An operation is an Insert (id,    *)
(* after, right_origin) or a Delete of a target.  NoId stands for None.     *)
(***************************************************************************)
EXTENDS Rga

CONSTANTS Peers, MaxInserts, MaxDeletes

ASSUME SeqPeersAssumption == Peers \subseteq Nat
ASSUME SeqBoundsAssumption == MaxInserts \in Nat /\ MaxDeletes \in Nat

VARIABLES
    seq,        \* seq[r]: the Sequence of replica r
    clock,      \* clock[r]: the next counter of r
    issued,     \* every Insert ever created, each with the moment `at` it was
                \* created (history)
    removed,    \* every target a Delete was created for (history)
    delivered   \* delivered[r]: the Inserts and targets r has applied (history)

vars == <<seq, clock, issued, removed, delivered>>

Insert == [id : OpId, after : OpId, right_origin : OpId, at : Nat]

SeqState == [elements : SUBSET Insert,          \* the materialised elements
             tombstones : SUBSET OpId,          \* ids whose value is None
             pending_inserts : SUBSET Insert,   \* waiting for their anchor
             pending_deletes : SUBSET OpId]     \* waiting for their target

-----------------------------------------------------------------------------
Init ==
    /\ seq = [r \in Peers |-> [elements |-> {}, tombstones |-> {},
                               pending_inserts |-> {}, pending_deletes |-> {}]]
    /\ clock = [r \in Peers |-> 1]
    /\ issued = {}
    /\ removed = {}
    /\ delivered = [r \in Peers |-> [inserts |-> {}, targets |-> {}]]

\* History: r applied the inserts I and the deletes of the targets T.
Received(r, I, T) ==
    [delivered EXCEPT ![r] = [inserts |-> delivered[r].inserts \cup I,
                              targets |-> delivered[r].targets \cup T]]

\* Sequence::insert at a visible element or at the start.
LocalInsert(r, after, right) ==
    LET op == [id |-> [counter |-> clock[r], peer |-> r], after |-> after,
               right_origin |-> right, at |-> Cardinality(issued)]
    IN  /\ Cardinality(issued) < MaxInserts
        /\ right = RightOrigin(seq[r].elements, after)
        /\ seq' = [seq EXCEPT ![r] = ApplyInsert(@, op)]
        /\ clock' = [clock EXCEPT ![r] = @ + 1]
        /\ issued' = issued \cup {op}
        /\ delivered' = Received(r, {op}, {})
        /\ UNCHANGED removed

LocalDelete(r, target) ==
    /\ Cardinality(removed) < MaxDeletes
    /\ seq' = [seq EXCEPT ![r] = ApplyDelete(@, target)]
    /\ clock' = [clock EXCEPT ![r] = @ + 1]
    /\ removed' = removed \cup {target}
    /\ delivered' = Received(r, {}, {target})
    /\ UNCHANGED issued

DeliverInsert(r, op) ==
    /\ seq' = [seq EXCEPT ![r] = ApplyInsert(@, op)]
    /\ delivered' = Received(r, {op}, {})
    /\ UNCHANGED <<clock, issued, removed>>

DeliverDelete(r, target) ==
    /\ seq' = [seq EXCEPT ![r] = ApplyDelete(@, target)]
    /\ delivered' = Received(r, {}, {target})
    /\ UNCHANGED <<clock, issued, removed>>

Next ==
    \E r \in Peers :
        \/ \E after \in (Ids(seq[r].elements) \ seq[r].tombstones) \cup {NoId},
              right \in Ids(seq[r].elements) \cup {NoId} :
              LocalInsert(r, after, right)
        \/ \E target \in Ids(seq[r].elements) \ seq[r].tombstones :
              LocalDelete(r, target)
        \/ \E op \in issued : DeliverInsert(r, op)
        \/ \E target \in removed : DeliverDelete(r, target)

Spec == Init /\ [][Next]_vars

-----------------------------------------------------------------------------
TypeOK ==
    /\ seq \in [Peers -> SeqState]
    /\ clock \in [Peers -> Nat \ {0}]
    /\ issued \in SUBSET Insert
    /\ removed \in SUBSET OpId
    /\ delivered \in [Peers -> [inserts : SUBSET Insert, targets : SUBSET OpId]]

\* Whatever arrived is either materialised or waiting for something that has
\* not arrived: an insert is placed exactly when its anchor is placed, and a
\* delete takes effect exactly when its target is placed.
NothingLost ==
    \A r \in Peers :
        LET s == seq[r]
        IN  /\ s.elements \cup s.pending_inserts = delivered[r].inserts
            /\ s.elements \cap s.pending_inserts = {}
            /\ \A e \in s.elements : e.after \in Ids(s.elements) \cup {NoId}
            /\ \A e \in s.pending_inserts :
                  e.after \notin Ids(s.elements) \cup {NoId}
            /\ s.tombstones \cup s.pending_deletes = delivered[r].targets
            /\ s.tombstones \subseteq Ids(s.elements)
            /\ s.pending_deletes \cap Ids(s.elements) = {}

\* What the two invariants around this one rest on: an id names one insert, an
\* insert's anchor was created before it, and replicas apply only what exists.
Causality ==
    /\ IsFiniteSet(issued)
    /\ \A o \in issued :
          /\ o.id.peer \in Peers /\ 0 < o.id.counter
          /\ o.id.counter < clock[o.id.peer]
          /\ o.at < Cardinality(issued)
          /\ o.after # NoId => \E a \in issued : a.id = o.after /\ a.at < o.at
    /\ \A a, b \in issued : a.id = b.id => a = b
    /\ \A r \in Peers : delivered[r].inserts \subseteq issued

\* The inductive invariant of the proofs in CrdtProofs.
IInv == TypeOK /\ Causality /\ NothingLost

\* Replicas that received the same operations, in whatever order, hold the same
\* elements and tombstones (and so the same order, a function of the elements).
StrongConvergence ==
    \A r, q \in Peers :
        delivered[r] = delivered[q] => seq[r] = seq[q]

\* Integrating an operation never reorders what was already there: the old
\* order is a subsequence of the new one, on every replica.
OrderIsStable ==
    [][\A r \in Peers :
          seq'[r].elements = seq[r].elements \/
          LET old == Order(seq[r].elements)
          IN  SelectSeq(Order(seq'[r].elements), LAMBDA i : i \in ToSet(old)) = old]_vars
=============================================================================
