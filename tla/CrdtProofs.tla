----------------------------- MODULE CrdtProofs -----------------------------
(***************************************************************************)
(* The replicated values: RgaSequence, for any number of replicas and       *)
(* operations, loses nothing it was delivered and converges; and what       *)
(* causal_write_wins and the newest-wins maps of MarkSet guarantee, for all *)
(* ids, observed vectors and maps.                                          *)
(***************************************************************************)
EXTENDS RgaSequence, Marks, FiniteSetTheorems, TLAPS

\* A non-empty set of naturals has a least element.
LEMMA MinimumExists ==
    ASSUME NEW T \in SUBSET Nat, T # {}
    PROVE  \E m \in T : \A n \in T : m <= n
<1>1. \E m \in T : \A n \in T : ~(<<n, m>> \in OpToRel(<, Nat))
  BY NatLessThanWellFounded, WFMin, Zenon
<1>2. PICK m \in T : \A n \in T : ~(<<n, m>> \in OpToRel(<, Nat))
  BY Zenon, <1>1
<1>3. \A n \in T : ~(n < m)
  BY Zenon, <1>2 DEF OpToRel
<1> QED
  BY <1>3

\* Released is closed, and everything in it is anchored at id or inside it.
LEMMA ReleasedProperties ==
    ASSUME NEW s, NEW id
    PROVE  LET R == Released(s, id)
           IN  /\ R \subseteq s.pending_inserts
               /\ \A x \in s.pending_inserts : x.after \in Ids(R) \cup {id} => x \in R
               /\ \A x \in R : x.after \in Ids(R) \cup {id}
<1> DEFINE P == s.pending_inserts
           R == Released(s, id)
           Closed(D) == \A x \in P : x.after \in Ids(D) \cup {id} => x \in D
<1>1. R \subseteq P /\ \A D \in SUBSET P : Closed(D) => R \subseteq D
  BY DEF Released
<1>2. Closed(R)
  <2> SUFFICES ASSUME NEW x \in P, x.after \in Ids(R) \cup {id},
                      NEW D \in SUBSET P, Closed(D)
               PROVE  x \in D
    BY DEF Released
  <2>1. Ids(R) \subseteq Ids(D)
    BY <1>1 DEF Ids
  <2> QED
    BY <2>1
<1> DEFINE Q == {x \in R : x.after \in Ids(R) \cup {id}}
<1> HIDE DEF R
<1>3. Q \in SUBSET P
  BY <1>1
<1>4. Closed(Q)
  <2> SUFFICES ASSUME NEW x \in P, x.after \in Ids(Q) \cup {id}
               PROVE  x \in Q
    OBVIOUS
  <2>1. x.after \in Ids(R) \cup {id}
    BY DEF Ids
  <2> QED
    BY <1>2, <2>1
<1>5. R \subseteq Q
  BY Zenon, <1>1, <1>3, <1>4
<1> QED
  BY <1>1, <1>2, <1>5 DEF R

-----------------------------------------------------------------------------
\* What NothingLost says of one replica that received inserts I and targets T.
GoodSeq(s, I, T) ==
    /\ s \in SeqState
    /\ s.elements \cup s.pending_inserts = I
    /\ s.elements \cap s.pending_inserts = {}
    /\ \A e \in s.elements : e.after \in Ids(s.elements) \cup {NoId}
    /\ \A e \in s.pending_inserts : e.after \notin Ids(s.elements) \cup {NoId}
    /\ s.tombstones \cup s.pending_deletes = T
    /\ s.tombstones \subseteq Ids(s.elements)
    /\ s.pending_deletes \cap Ids(s.elements) = {}

UniqueIds(U) == \A a, b \in U : a.id = b.id => a = b

\* apply_insert places an insert whose anchor is placed, with all that waited for it,
\* and buffers any other.
LEMMA ApplyInsertGood ==
    ASSUME NEW s, NEW I, NEW T, GoodSeq(s, I, T),
           NEW op \in Insert, UniqueIds(I \cup {op})
    PROVE  GoodSeq(ApplyInsert(s, op), I \cup {op}, T)
<1> DEFINE E == s.elements
           R == Released(s, op.id)
           new == Ids(R) \cup {op.id}
           t == ApplyInsert(s, op)
<1>1. s \in SeqState /\ E \in SUBSET Insert /\ s.pending_inserts \in SUBSET Insert
      /\ s.tombstones \in SUBSET OpId /\ s.pending_deletes \in SUBSET OpId
  BY DEF GoodSeq, SeqState
<1>2. /\ R \subseteq s.pending_inserts
      /\ \A x \in s.pending_inserts : x.after \in new => x \in R
      /\ \A x \in R : x.after \in new
  BY ReleasedProperties
<1> HIDE DEF R
<1>3. CASE op.id \notin Ids(E) /\ op.after \notin Ids(E) \cup {NoId}
  <2>1. t = [s EXCEPT !.pending_inserts = s.pending_inserts \cup {op}]
    BY <1>3, Zenon DEF ApplyInsert
  <2> HIDE DEF t
  <2>2. /\ t.elements = E /\ t.pending_inserts = s.pending_inserts \cup {op}
        /\ t.tombstones = s.tombstones /\ t.pending_deletes = s.pending_deletes
        /\ t \in SeqState
    <3>1. s.pending_inserts \cup {op} \in SUBSET Insert
      BY <1>1
    <3> QED
      BY <1>1, <2>1, <3>1, Zenon DEF SeqState
  <2>3. op \notin E
    BY <1>3 DEF Ids
  <2> QED
    BY <1>3, <2>2, <2>3 DEF GoodSeq, t
<1>4. CASE ~(op.id \notin Ids(E) /\ op.after \notin Ids(E) \cup {NoId})
  <2> DEFINE F == E \cup {e \in R \cup {op} : e.id \notin Ids(E)}
  <2>1. t = [s EXCEPT !.elements = F,
                      !.pending_inserts = s.pending_inserts \ R,
                      !.tombstones = s.tombstones \cup (s.pending_deletes \cap new),
                      !.pending_deletes = s.pending_deletes \ new]
    BY <1>4, Zenon DEF ApplyInsert, R
  <2> HIDE DEF t
  <2>2. /\ t.elements = F /\ t.pending_inserts = s.pending_inserts \ R
        /\ t.tombstones = s.tombstones \cup (s.pending_deletes \cap new)
        /\ t.pending_deletes = s.pending_deletes \ new
        /\ t \in SeqState
    <3>1. F \in SUBSET Insert /\ s.pending_inserts \ R \in SUBSET Insert
      BY <1>1, <1>2
    <3>2. s.tombstones \cup (s.pending_deletes \cap new) \in SUBSET OpId
      BY <1>1
    <3>3. s.pending_deletes \ new \in SUBSET OpId
      BY <1>1
    <3> HIDE DEF F, new
    <3> QED
      BY <1>1, <2>1, <3>1, <3>2, <3>3, Zenon DEF SeqState
  <2>3. \A e \in s.pending_inserts : e.id \notin Ids(E)
    BY DEF GoodSeq, UniqueIds, Ids
  <2>4. CASE op.id \in Ids(E)
    \* A repeated insert changes nothing: nothing waits for a placed element.
    <3>1. op \in E
      BY <2>4 DEF GoodSeq, UniqueIds, Ids
    <3>2. R = {}
      <4>1. \A x \in s.pending_inserts : x.after # op.id
        BY <2>4 DEF GoodSeq
      <4>2. R \subseteq {}
        <5>1. {} \in SUBSET s.pending_inserts
          OBVIOUS
        <5>2. \A x \in s.pending_inserts : x.after \in Ids({}) \cup {op.id} => x \in {}
          BY <4>1 DEF Ids
        <5> QED
          BY <5>1, <5>2 DEF Released, R
      <4> QED
        BY <4>2
    <3>3. F = E /\ new = {op.id}
      BY <2>4, <3>2 DEF Ids
    <3>4. s.pending_deletes \cap new = {}
      BY <2>4, <3>3 DEF GoodSeq
    <3>5. I \cup {op} = I
      BY <3>1 DEF GoodSeq
    <3> HIDE DEF F, new
    <3> QED
      BY <2>2, <3>2, <3>3, <3>4, <3>5 DEF GoodSeq, t
  <2>5. CASE op.id \notin Ids(E) /\ op.after \in Ids(E) \cup {NoId}
    <3>1. F = E \cup R \cup {op} /\ Ids(F) = Ids(E) \cup new
      BY <1>2, <2>3, <2>5 DEF Ids
    <3>2. op \notin s.pending_inserts /\ op \notin E
      BY <2>5 DEF GoodSeq, Ids
    <3> HIDE DEF F
    <3>3. \A e \in F : e.after \in Ids(F) \cup {NoId}
      <4> TAKE e \in F
      <4>1. CASE e \in E
        BY Zenon, <3>1, <4>1 DEF GoodSeq
      <4>2. CASE e \in R
        BY <1>2, <3>1, <4>2
      <4>3. CASE e = op
        BY <2>5, <3>1, <4>3
      <4> QED
        BY <3>1, <4>1, <4>2, <4>3
    <3>4. \A e \in s.pending_inserts \ R : e.after \notin Ids(F) \cup {NoId}
      BY Zenon, <1>2, <3>1 DEF GoodSeq
    <3>5. /\ F \cup (s.pending_inserts \ R) = I \cup {op}
          /\ F \cap (s.pending_inserts \ R) = {}
      BY <1>2, <3>1, <3>2 DEF GoodSeq
    <3>6. /\ t.tombstones \cup t.pending_deletes = T
          /\ t.tombstones \subseteq Ids(F)
          /\ t.pending_deletes \cap Ids(F) = {}
      BY <2>2, <3>1 DEF GoodSeq
    <3> QED
      BY SMTT(40), <2>2, <3>3, <3>4, <3>5, <3>6 DEF GoodSeq, t
  <2> QED
    BY <1>4, <2>4, <2>5
<1> QED
  BY <1>3, <1>4

\* apply_delete marks its target, there or still to come, and moves nothing.
LEMMA ApplyDeleteGood ==
    ASSUME NEW s, NEW I, NEW T, GoodSeq(s, I, T), NEW target \in OpId
    PROVE  GoodSeq(ApplyDelete(s, target), I, T \cup {target})
<1> DEFINE t == ApplyDelete(s, target)
<1>1. s \in SeqState /\ s.tombstones \in SUBSET OpId /\ s.pending_deletes \in SUBSET OpId
  BY DEF GoodSeq, SeqState
<1>2. CASE target \in Ids(s.elements)
  <2>1. t = [s EXCEPT !.tombstones = s.tombstones \cup {target}]
    BY <1>2, Zenon DEF ApplyDelete
  <2> HIDE DEF t
  <2>2. /\ t.elements = s.elements /\ t.pending_inserts = s.pending_inserts
        /\ t.tombstones = s.tombstones \cup {target}
        /\ t.pending_deletes = s.pending_deletes /\ t \in SeqState
    <3>1. s.tombstones \cup {target} \in SUBSET OpId
      BY <1>1
    <3> QED
      BY <1>1, <2>1, <3>1, Zenon DEF SeqState
  <2> QED
    BY <1>2, <2>2 DEF GoodSeq, t
<1>3. CASE target \notin Ids(s.elements)
  <2>1. t = [s EXCEPT !.pending_deletes = s.pending_deletes \cup {target}]
    BY <1>3, Zenon DEF ApplyDelete
  <2> HIDE DEF t
  <2>2. /\ t.elements = s.elements /\ t.pending_inserts = s.pending_inserts
        /\ t.tombstones = s.tombstones
        /\ t.pending_deletes = s.pending_deletes \cup {target} /\ t \in SeqState
    <3>1. s.pending_deletes \cup {target} \in SUBSET OpId
      BY <1>1
    <3> QED
      BY <1>1, <2>1, <3>1, Zenon DEF SeqState
  <2> QED
    BY <1>3, <2>2 DEF GoodSeq, t
<1> QED
  BY <1>2, <1>3

-----------------------------------------------------------------------------
\* What the invariant says of each replica's sequence.
LEMMA GoodSeqs ==
    ASSUME IInv
    PROVE  \A r \in Peers : GoodSeq(seq[r], delivered[r].inserts, delivered[r].targets)
BY DEF IInv, TypeOK, NothingLost, GoodSeq

\* A step after which replica r is good, having received inserts I and targets
\* T, and the others are untouched, preserves NothingLost.
LEMMA OneReplicaStep ==
    ASSUME IInv, NEW r \in Peers, NEW t, NEW I \in SUBSET Insert, NEW T \in SUBSET OpId,
           seq' = [seq EXCEPT ![r] = t], GoodSeq(t, I, T),
           delivered' = [delivered EXCEPT ![r] = [inserts |-> I, targets |-> T]]
    PROVE  /\ NothingLost'
           /\ seq' \in [Peers -> SeqState]
           /\ delivered' \in [Peers -> [inserts : SUBSET Insert, targets : SUBSET OpId]]
           /\ \A q \in Peers : delivered'[q].inserts =
                                  IF q = r THEN I ELSE delivered[q].inserts
<1>1. \A q \in Peers :
         /\ seq'[q] = IF q = r THEN t ELSE seq[q]
         /\ delivered'[q].inserts = IF q = r THEN I ELSE delivered[q].inserts
         /\ delivered'[q].targets = IF q = r THEN T ELSE delivered[q].targets
  BY DEF IInv, TypeOK
<1>2. \A q \in Peers : GoodSeq(seq'[q], delivered'[q].inserts, delivered'[q].targets)
  BY <1>1, GoodSeqs
<1>3. NothingLost'
  BY <1>2 DEF GoodSeq, NothingLost
<1>4. seq' \in [Peers -> SeqState]
  BY <1>2 DEF IInv, TypeOK, GoodSeq
<1>5. delivered' \in [Peers -> [inserts : SUBSET Insert, targets : SUBSET OpId]]
  BY DEF IInv, TypeOK
<1> QED
  BY <1>1, <1>3, <1>4, <1>5

\* A delivered insert keeps the invariant.
LEMMA DeliverInsertStep ==
    ASSUME IInv, NEW r \in Peers, NEW op \in issued, DeliverInsert(r, op)
    PROVE  IInv'
<1> DEFINE I == delivered[r].inserts \cup {op}
           T == delivered[r].targets
           t == ApplyInsert(seq[r], op)
<1>1. I \in SUBSET Insert /\ T \in SUBSET OpId /\ op \in Insert /\ I \subseteq issued
  BY DEF IInv, TypeOK, Causality
<1>2. GoodSeq(t, I, T)
  BY <1>1, GoodSeqs, ApplyInsertGood DEF IInv, Causality, UniqueIds
<1>3. delivered' = [delivered EXCEPT ![r] = [inserts |-> I, targets |-> T]]
  BY DEF DeliverInsert, Received
<1>4. seq' = [seq EXCEPT ![r] = t] /\ UNCHANGED <<clock, issued, removed>>
  BY DEF DeliverInsert
<1> HIDE DEF t, I, T
<1>5. /\ NothingLost' /\ seq' \in [Peers -> SeqState]
      /\ delivered' \in [Peers -> [inserts : SUBSET Insert, targets : SUBSET OpId]]
      /\ \A q \in Peers : delivered'[q].inserts = IF q = r THEN I ELSE delivered[q].inserts
  BY Zenon, <1>1, <1>2, <1>3, <1>4, OneReplicaStep
<1> QED
  BY <1>1, <1>4, <1>5 DEF IInv, TypeOK, Causality

\* So does a delete, made here or delivered.
LEMMA DeleteStep ==
    ASSUME IInv, NEW r \in Peers, NEW target \in OpId,
           LocalDelete(r, target) \/ DeliverDelete(r, target)
    PROVE  IInv'
<1> DEFINE I == delivered[r].inserts
           T == delivered[r].targets \cup {target}
           t == ApplyDelete(seq[r], target)
<1>1. I \in SUBSET Insert /\ T \in SUBSET OpId
  BY DEF IInv, TypeOK
<1>2. GoodSeq(t, I, T)
  BY GoodSeqs, ApplyDeleteGood
<1>3. delivered' = [delivered EXCEPT ![r] = [inserts |-> I, targets |-> T]]
  BY DEF LocalDelete, DeliverDelete, Received
<1>4. /\ seq' = [seq EXCEPT ![r] = t] /\ issued' = issued
      /\ removed' \in SUBSET OpId
      /\ clock' \in [Peers -> Nat \ {0}] /\ \A p \in Peers : clock[p] <= clock'[p]
  BY DEF LocalDelete, DeliverDelete, IInv, TypeOK
<1> HIDE DEF t, I, T
<1>5. /\ NothingLost' /\ seq' \in [Peers -> SeqState]
      /\ delivered' \in [Peers -> [inserts : SUBSET Insert, targets : SUBSET OpId]]
      /\ \A q \in Peers : delivered'[q].inserts = IF q = r THEN I ELSE delivered[q].inserts
  BY Zenon, <1>1, <1>2, <1>3, <1>4, OneReplicaStep
<1>6. Causality'
  <2>1. \A q \in Peers : delivered'[q].inserts = delivered[q].inserts
    BY <1>5 DEF I
  <2>2. \A o \in issued : o.id.counter < clock'[o.id.peer]
    BY <1>4 DEF IInv, Causality, TypeOK, Insert, OpId
  <2> QED
    BY <1>4, <2>1, <2>2 DEF IInv, Causality
<1> QED
  BY <1>4, <1>5, <1>6 DEF IInv, TypeOK

\* So does an insert made here: its identity is new to every replica.
LEMMA LocalInsertStep ==
    ASSUME IInv, NEW r \in Peers,
           NEW after \in Ids(seq[r].elements) \cup {NoId},
           NEW right \in Ids(seq[r].elements) \cup {NoId},
           LocalInsert(r, after, right)
    PROVE  IInv'
<1> DEFINE op == [id |-> [counter |-> clock[r], peer |-> r], after |-> after,
                  right_origin |-> right, at |-> Cardinality(issued)]
           I == delivered[r].inserts \cup {op}
           T == delivered[r].targets
           t == ApplyInsert(seq[r], op)
<1>1. IsFiniteSet(issued) /\ Cardinality(issued) \in Nat
  BY FS_CardinalityType DEF IInv, Causality
<1>2. Ids(seq[r].elements) \subseteq OpId /\ NoId \in OpId
  BY DEF IInv, TypeOK, SeqState, Insert, Ids, NoId, OpId
<1>3. clock[r] \in Nat \ {0} /\ r \in Nat
  BY SeqPeersAssumption DEF IInv, TypeOK
<1>4. op \in Insert /\ op.id.peer = r /\ op.id.counter = clock[r]
      /\ op.after = after /\ op.at = Cardinality(issued)
  BY <1>1, <1>2, <1>3 DEF Insert, OpId
<1>5. \A o \in issued : o.id # op.id
  BY <1>3, <1>4 DEF IInv, Causality, TypeOK, Insert, OpId
<1>6. /\ seq' = [seq EXCEPT ![r] = t]
      /\ clock' = [clock EXCEPT ![r] = clock[r] + 1]
      /\ issued' = issued \cup {op} /\ removed' = removed
      /\ delivered' = Received(r, {op}, {})
  BY DEF LocalInsert
<1> HIDE DEF op
<1>7. I \in SUBSET Insert /\ T \in SUBSET OpId /\ I \subseteq issued'
      /\ delivered[r].inserts \subseteq issued
  BY <1>4, <1>6 DEF IInv, TypeOK, Causality
<1>8. UniqueIds(issued')
  BY <1>5, <1>6 DEF IInv, Causality, UniqueIds
<1>9. GoodSeq(t, I, T)
  BY SMTT(40), <1>4, <1>7, <1>8, GoodSeqs, ApplyInsertGood DEF UniqueIds
<1>10. delivered' = [delivered EXCEPT ![r] = [inserts |-> I, targets |-> T]]
  BY <1>6 DEF Received
<1> HIDE DEF t, I, T
<1>11. /\ NothingLost' /\ seq' \in [Peers -> SeqState]
       /\ delivered' \in [Peers -> [inserts : SUBSET Insert, targets : SUBSET OpId]]
       /\ \A q \in Peers : delivered'[q].inserts = IF q = r THEN I ELSE delivered[q].inserts
  <2>1. seq' = [seq EXCEPT ![r] = t]
    BY <1>6
  <2>2. I \in SUBSET Insert /\ T \in SUBSET OpId
    BY <1>7
  <2> QED
    BY ZenonT(40), <1>9, <1>10, <2>1, <2>2, OneReplicaStep
<1>12. IsFiniteSet(issued') /\ Cardinality(issued') = Cardinality(issued) + 1
  BY SMTT(40), <1>1, <1>5, <1>6, FS_AddElement
<1>13. \A p \in Peers : clock'[p] = IF p = r THEN clock[r] + 1 ELSE clock[p]
  BY <1>6 DEF IInv, TypeOK
<1>14. after # NoId => \E a \in issued : a.id = after
  BY DEF IInv, NothingLost, Causality, Ids
<1>15. ASSUME NEW o \in issued'
       PROVE  /\ o.id.peer \in Peers /\ 0 < o.id.counter
              /\ o.id.counter < clock'[o.id.peer]
              /\ o.at < Cardinality(issued')
              /\ o.after # NoId => \E a \in issued' : a.id = o.after /\ a.at < o.at
  <2>1. CASE o = op
    <3>1. \A a \in issued : a.at < op.at
      BY <1>4 DEF IInv, Causality
    <3> QED
      BY SMTT(40), <1>1, <1>3, <1>4, <1>6, <1>12, <1>13, <1>14, <2>1, <3>1
  <2>2. CASE o \in issued
    <3>1. /\ o.id.peer \in Peers /\ 0 < o.id.counter /\ o.id.counter \in Nat
          /\ o.id.counter < clock[o.id.peer] /\ clock[o.id.peer] \in Nat
          /\ o.at < Cardinality(issued) /\ o.at \in Nat
          /\ o.after # NoId => \E a \in issued : a.id = o.after /\ a.at < o.at
      BY <2>2 DEF IInv, Causality, TypeOK, Insert, OpId
    <3> QED
      BY SMTT(40), <1>1, <1>6, <1>12, <1>13, <3>1
  <2> QED
    BY SMTT(40), <1>6, <2>1, <2>2
<1>16. \A q \in Peers : delivered'[q].inserts \subseteq issued'
  BY Zenon, <1>6, <1>7, <1>11 DEF IInv, Causality
<1>17. Causality'
  <2>1. \A a, b \in issued' : a.id = b.id => a = b
    BY <1>8 DEF UniqueIds
  <2>2. IsFiniteSet(issued')
    BY <1>12
  <2> QED
    BY <1>15, <1>16, <2>1, <2>2 DEF Causality
<1>18. TypeOK'
  <2>1. clock' \in [Peers -> Nat \ {0}]
    BY <1>3, <1>6 DEF IInv, TypeOK
  <2>2. issued' \in SUBSET Insert /\ removed' \in SUBSET OpId
    BY <1>4, <1>6 DEF IInv, TypeOK
  <2> QED
    BY <1>11, <2>1, <2>2 DEF TypeOK
<1> QED
  BY <1>11, <1>17, <1>18 DEF IInv

-----------------------------------------------------------------------------
\* The empty replicas satisfy the invariant.
LEMMA InitInv == Init => IInv
<1> SUFFICES ASSUME Init PROVE IInv
  OBVIOUS
<1>1. TypeOK
  BY DEF Init, TypeOK, SeqState
<1>2. Causality
  BY FS_EmptySet DEF Init, Causality
<1>3. NothingLost
  BY DEF Init, NothingLost, Ids
<1> QED
  BY <1>1, <1>2, <1>3 DEF IInv

\* Every step keeps the invariant.
LEMMA NextInv == IInv /\ [Next]_vars => IInv'
<1> SUFFICES ASSUME IInv, [Next]_vars PROVE IInv'
  OBVIOUS
<1>1. CASE UNCHANGED vars
  BY <1>1 DEF vars, IInv, TypeOK, Causality, NothingLost
<1>2. CASE Next
  <2> PICK r \in Peers :
        \/ \E after \in (Ids(seq[r].elements) \ seq[r].tombstones) \cup {NoId},
              right \in Ids(seq[r].elements) \cup {NoId} :
              LocalInsert(r, after, right)
        \/ \E target \in Ids(seq[r].elements) \ seq[r].tombstones :
              LocalDelete(r, target)
        \/ \E op \in issued : DeliverInsert(r, op)
        \/ \E target \in removed : DeliverDelete(r, target)
    BY <1>2 DEF Next
  <2>1. ASSUME NEW after \in Ids(seq[r].elements) \cup {NoId},
               NEW right \in Ids(seq[r].elements) \cup {NoId},
               LocalInsert(r, after, right)
        PROVE  IInv'
    BY <2>1, LocalInsertStep
  <2>2. ASSUME NEW target \in Ids(seq[r].elements), LocalDelete(r, target)
        PROVE  IInv'
    <3>1. target \in OpId
      BY DEF IInv, TypeOK, SeqState, Insert, Ids
    <3> QED
      BY <2>2, <3>1, DeleteStep
  <2>3. ASSUME NEW op \in issued, DeliverInsert(r, op)
        PROVE  IInv'
    BY <2>3, DeliverInsertStep
  <2>4. ASSUME NEW target \in removed, DeliverDelete(r, target)
        PROVE  IInv'
    BY <2>4, DeleteStep DEF IInv, TypeOK
  <2> QED
    BY SMTT(40), <2>1, <2>2, <2>3, <2>4
<1> QED
  BY <1>1, <1>2

-----------------------------------------------------------------------------
(* Convergence.  What is placed is a function of what arrived.              *)

\* Of two replicas that received the same inserts, neither has placed an
\* element the other has not: the earliest such element would have its anchor
\* placed on both sides.
LEMMA PlacedTogether ==
    ASSUME IInv, NEW r \in Peers, NEW q \in Peers,
           delivered[r].inserts = delivered[q].inserts
    PROVE  seq[r].elements \subseteq seq[q].elements
<1> DEFINE E == seq[r].elements
           F == seq[q].elements
           X == E \ F
           M == {x.at : x \in X}
<1>1. E \in SUBSET Insert /\ E \subseteq issued
  BY DEF IInv, TypeOK, SeqState, NothingLost, Causality
<1> SUFFICES ASSUME X # {} PROVE FALSE
  OBVIOUS
<1>2. M \in SUBSET Nat /\ M # {}
  BY <1>1 DEF Insert
<1>3. PICK m \in M : \A n \in M : m <= n
  <2> HIDE DEF M
  <2> QED
    BY ZenonT(40), <1>2, MinimumExists
<1>4. PICK x \in X : x.at = m
  BY <1>3
<1>5. x.after \notin Ids(F) \cup {NoId}
  BY <1>4 DEF IInv, NothingLost
<1>6. PICK a \in E : a.id = x.after
  BY <1>4, <1>5 DEF IInv, NothingLost, Ids
<1>7. a \in X
  BY <1>5, <1>6 DEF Ids
<1>8. a.at < x.at /\ a.at \in Nat /\ x.at \in Nat
  <2>1. PICK b \in issued : b.id = x.after /\ b.at < x.at
    BY SMTT(40), <1>1, <1>4, <1>5 DEF IInv, Causality
  <2>2. a = b
    BY <1>1, <1>6, <2>1 DEF IInv, Causality
  <2> QED
    BY SMTT(40), <1>1, <1>4, <1>6, <2>1, <2>2 DEF Insert
<1> QED
  BY SMTT(40), <1>3, <1>4, <1>7, <1>8

\* Replicas that took in the same operations show the same elements in the same order.
LEMMA InvConverges == IInv => StrongConvergence
<1> SUFFICES ASSUME IInv, NEW r \in Peers, NEW q \in Peers,
                    delivered[r] = delivered[q]
             PROVE  seq[r] = seq[q]
  BY DEF StrongConvergence
<1>1. seq[r].elements = seq[q].elements
  <2>1. seq[r].elements \subseteq seq[q].elements
    BY PlacedTogether
  <2>2. seq[q].elements \subseteq seq[r].elements
    BY PlacedTogether
  <2> QED
    BY SMTT(40), <2>1, <2>2
<1>2. \A p \in Peers :
         /\ seq[p].pending_inserts = delivered[p].inserts \ seq[p].elements
         /\ seq[p].tombstones = delivered[p].targets \cap Ids(seq[p].elements)
         /\ seq[p].pending_deletes = delivered[p].targets \ Ids(seq[p].elements)
  <2> SUFFICES ASSUME NEW p \in Peers
               PROVE  /\ seq[p].pending_inserts = delivered[p].inserts \ seq[p].elements
                      /\ seq[p].tombstones = delivered[p].targets \cap Ids(seq[p].elements)
                      /\ seq[p].pending_deletes = delivered[p].targets \ Ids(seq[p].elements)
    OBVIOUS
  <2>1. /\ seq[p].elements \cup seq[p].pending_inserts = delivered[p].inserts
        /\ seq[p].elements \cap seq[p].pending_inserts = {}
        /\ seq[p].tombstones \cup seq[p].pending_deletes = delivered[p].targets
        /\ seq[p].tombstones \subseteq Ids(seq[p].elements)
        /\ seq[p].pending_deletes \cap Ids(seq[p].elements) = {}
    BY DEF IInv, NothingLost
  <2> QED
    BY <2>1
<1>3. seq[r].pending_inserts = seq[q].pending_inserts
  BY Zenon, <1>1, <1>2
<1>4. seq[r].tombstones = seq[q].tombstones /\ seq[r].pending_deletes = seq[q].pending_deletes
  BY ZenonT(40), <1>1, <1>2
<1>5. seq[r] \in SeqState /\ seq[q] \in SeqState
  BY DEF IInv, TypeOK
<1> QED
  BY SMTT(40), <1>1, <1>3, <1>4, <1>5 DEF SeqState

-----------------------------------------------------------------------------
\* Type correctness of the sequence, its buffers and the history of what each
\* replica received.
THEOREM TypeCorrect == Spec => []TypeOK
<1>1. IInv => TypeOK
  BY DEF IInv
<1> QED
  BY <1>1, InitInv, NextInv, PTL DEF Spec

\* Sequence::apply, whatever the order and repetition of deliveries, keeps
\* every operation it was given: placed exactly when its anchor or target is,
\* buffered otherwise.
THEOREM NothingIsLost == Spec => []NothingLost
<1>1. IInv => NothingLost
  BY DEF IInv
<1> QED
  BY <1>1, InitInv, NextInv, PTL DEF Spec

\* Two replicas that received the same operations hold the same sequence,
\* for any number of replicas and operations and any two delivery orders.
THEOREM Convergence == Spec => []StrongConvergence
  BY InvConverges, InitInv, NextInv, PTL DEF Spec

-----------------------------------------------------------------------------
(* Registers and marks.                                                     *)

\* A state vector as an envelope carries it.
ObservedVector == UNION {[P -> Nat] : P \in SUBSET Nat}

\* The write `op` is among what `observed` counts.
Knows(observed, op) == Seen(observed, op.peer) >= op.counter

\* A map of a MarkSet: every entry carries the id of the operation that wrote it.
IsMap(m) ==
    /\ m = [k \in DOMAIN m |-> m[k]]
    /\ \A k \in DOMAIN m : m[k].op \in OpId

\* An operation writes one entry, so entries written by one operation are equal.
Agree(m, n) ==
    \A k \in DOMAIN m \cap DOMAIN n : m[k].op = n[k].op => m[k] = n[k]

\* What a vector has seen of a peer is a number, zero when the peer is not in it.
LEMMA SeenType ==
    ASSUME NEW v \in ObservedVector, NEW p \in Nat
    PROVE  Seen(v, p) \in Nat
BY DEF ObservedVector, Seen

\* Operation identities are totally ordered (OpId's Ord).
LEMMA IdOrder ==
    /\ \A i, j \in OpId : i = j \/ IdLess(i, j) \/ IdLess(j, i)
    /\ \A i, j \in OpId : ~(IdLess(i, j) /\ IdLess(j, i))
    /\ \A i, j, k \in OpId : IdLess(i, j) /\ IdLess(j, k) => IdLess(i, k)
    /\ \A i \in OpId : ~IdLess(i, i)
BY DEF OpId, IdLess

-----------------------------------------------------------------------------
\* causal_write_wins decides between two writes whichever comes first: unless each
\* claims to have observed the other, exactly one replaces the other, so two writes
\* leave the same value in either order of arrival.
THEOREM TwoWritesAgree ==
    ASSUME NEW a \in OpId, NEW b \in OpId, a # b,
           NEW va \in ObservedVector, NEW vb \in ObservedVector,
           ~(Knows(va, b) /\ Knows(vb, a))
    PROVE  CausalWriteWins(a, va, b, vb) <=> ~CausalWriteWins(b, vb, a, va)
<1>1. /\ a.peer \in Nat /\ a.counter \in Nat /\ b.peer \in Nat /\ b.counter \in Nat
  BY DEF OpId
<1>2. Seen(va, b.peer) \in Nat /\ Seen(vb, a.peer) \in Nat
  BY <1>1, SeenType
<1>3. IdLess(a, b) <=> ~IdLess(b, a)
  BY IdOrder
<1> QED
  BY <1>1, <1>2, <1>3 DEF Knows, CausalWriteWins

\* Were ids to follow causality (as a Lamport clock would make them), the write with
\* the larger id would win every comparison and any number of writes would leave the
\* same value in every order of arrival.  commit_single_id does not advance its clock
\* past what it has received, so the code does not have this premise: the run
\* collab_register shows three writes that leave it.
THEOREM WritesOrderedIfIdsAreCausal ==
    ASSUME NEW a \in OpId, NEW b \in OpId, a # b,
           NEW va \in ObservedVector, NEW vb \in ObservedVector,
           Knows(vb, a) => IdLess(a, b),
           Knows(va, b) => IdLess(b, a)
    PROVE  CausalWriteWins(a, va, b, vb) <=> IdLess(a, b)
<1>1. /\ a.peer \in Nat /\ a.counter \in Nat /\ b.peer \in Nat /\ b.counter \in Nat
  BY DEF OpId
<1>2. Seen(va, b.peer) \in Nat /\ Seen(vb, a.peer) \in Nat
  BY <1>1, SeenType
<1>3. IdLess(a, b) <=> ~IdLess(b, a)
  BY IdOrder
<1> QED
  BY <1>1, <1>2, <1>3 DEF Knows, CausalWriteWins

-----------------------------------------------------------------------------
\* The newer of two entries; the first one on a tie.
Newer(e, f) == IF IdLess(e.op, f.op) THEN f ELSE e

\* x holds the entries of m and n, the newer one where both have one.
IsMerge(x, m, n) ==
    /\ IsMap(x)
    /\ DOMAIN x = DOMAIN m \cup DOMAIN n
    /\ \A k \in DOMAIN m \ DOMAIN n : x[k] = m[k]
    /\ \A k \in DOMAIN n \ DOMAIN m : x[k] = n[k]
    /\ \A k \in DOMAIN m \cap DOMAIN n : x[k] = Newer(m[k], n[k])

\* Merging two attribute maps keeps, for each key, the newer of its entries.
LEMMA MergeEntries ==
    ASSUME NEW m, NEW n, IsMap(m), IsMap(n)
    PROVE  IsMap(MergeNewest(m, n)) /\ IsMerge(MergeNewest(m, n), m, n)
BY DEF IsMap, MergeNewest, IsMerge, Newer

\* Two maps with the same keys and entries are one.
LEMMA MapsEqual ==
    ASSUME NEW m, NEW n, IsMap(m), IsMap(n), DOMAIN m = DOMAIN n,
           \A k \in DOMAIN m : m[k] = n[k]
    PROVE  m = n
BY DEF IsMap

\* Entries of one operation are equal, so the newer of two does not depend on which
\* comes first, and the newest of three not on which two are compared first.
LEMMA NewerCommutes ==
    ASSUME NEW e, NEW f, e.op \in OpId, f.op \in OpId, e.op = f.op => e = f
    PROVE  Newer(e, f) = Newer(f, e)
BY IdOrder DEF Newer

\* The newer of three entries does not depend on the order they are compared in.
LEMMA NewerAssociates ==
    ASSUME NEW e, NEW f, NEW g, e.op \in OpId, f.op \in OpId, g.op \in OpId
    PROVE  Newer(Newer(e, f), g) = Newer(e, Newer(f, g))
BY IdOrder DEF Newer

\* Two deliveries of marks and removes may be merged in either order
\* (MarkSet::merge_from, and remove_mark, which is a merge of one entry).
THEOREM MergeCommutes ==
    ASSUME NEW m, NEW n, IsMap(m), IsMap(n), Agree(m, n)
    PROVE  MergeNewest(m, n) = MergeNewest(n, m)
<1>1. PICK x : x = MergeNewest(m, n) /\ IsMap(x) /\ IsMerge(x, m, n)
  BY MergeEntries
<1>2. PICK y : y = MergeNewest(n, m) /\ IsMap(y) /\ IsMerge(y, n, m)
  BY MergeEntries
<1>3. ASSUME NEW k \in DOMAIN m \cap DOMAIN n PROVE x[k] = y[k]
  <2>1. m[k].op \in OpId /\ n[k].op \in OpId /\ (m[k].op = n[k].op => m[k] = n[k])
    BY DEF IsMap, Agree
  <2> QED
    BY <1>1, <1>2, <2>1, NewerCommutes DEF IsMerge
<1>4. IsMap(x) /\ IsMap(y) /\ DOMAIN x = DOMAIN y /\ \A k \in DOMAIN x : x[k] = y[k]
  BY <1>1, <1>2, <1>3 DEF IsMerge
<1> QED
  BY <1>1, <1>2, <1>4, MapsEqual

\* Merging what was merged before changes nothing: marks may arrive again.
THEOREM MergeIdempotent ==
    ASSUME NEW m, NEW n, IsMap(m), IsMap(n)
    PROVE  MergeNewest(MergeNewest(m, n), n) = MergeNewest(m, n)
<1>1. PICK x : x = MergeNewest(m, n) /\ IsMap(x) /\ IsMerge(x, m, n)
  BY MergeEntries
<1>2. PICK y : y = MergeNewest(x, n) /\ IsMap(y) /\ IsMerge(y, x, n)
  BY <1>1, MergeEntries
<1>3. ASSUME NEW k \in DOMAIN x PROVE x[k] = y[k]
  <2>1. CASE k \notin DOMAIN n
    BY <1>1, <1>2, <2>1 DEF IsMerge
  <2>2. CASE k \in DOMAIN n \ DOMAIN m
    BY <1>1, <1>2, <2>2 DEF IsMerge, Newer
  <2>3. CASE k \in DOMAIN n \cap DOMAIN m
    <3>1. m[k].op \in OpId /\ n[k].op \in OpId
      BY <2>3 DEF IsMap
    <3>2. x[k] = Newer(m[k], n[k]) /\ y[k] = Newer(x[k], n[k])
      BY <1>1, <1>2, <2>3 DEF IsMerge
    <3> QED
      BY <3>1, <3>2, IdOrder DEF Newer
  <2> QED
    BY <1>1, <2>1, <2>2, <2>3 DEF IsMerge
<1>4. IsMap(x) /\ IsMap(y) /\ DOMAIN x = DOMAIN y
  BY <1>1, <1>2 DEF IsMerge
<1> QED
  BY <1>1, <1>2, <1>3, <1>4, MapsEqual

\* Three deliveries may be merged in any grouping.
THEOREM MergeAssociates ==
    ASSUME NEW m, NEW n, NEW o, IsMap(m), IsMap(n), IsMap(o)
    PROVE  MergeNewest(MergeNewest(m, n), o) = MergeNewest(m, MergeNewest(n, o))
<1>1. PICK mn : mn = MergeNewest(m, n) /\ IsMap(mn) /\ IsMerge(mn, m, n)
  BY MergeEntries
<1>2. PICK no : no = MergeNewest(n, o) /\ IsMap(no) /\ IsMerge(no, n, o)
  BY MergeEntries
<1>3. PICK x : x = MergeNewest(mn, o) /\ IsMap(x) /\ IsMerge(x, mn, o)
  BY <1>1, MergeEntries
<1>4. PICK y : y = MergeNewest(m, no) /\ IsMap(y) /\ IsMerge(y, m, no)
  BY <1>2, MergeEntries
<1>5. /\ IsMap(x) /\ IsMap(y)
      /\ DOMAIN x = DOMAIN m \cup DOMAIN n \cup DOMAIN o /\ DOMAIN y = DOMAIN x
  BY <1>1, <1>2, <1>3, <1>4 DEF IsMerge
<1>6. ASSUME NEW k \in DOMAIN x PROVE x[k] = y[k]
  <2>1. CASE k \in DOMAIN m /\ k \in DOMAIN n /\ k \in DOMAIN o
    <3>1. m[k].op \in OpId /\ n[k].op \in OpId /\ o[k].op \in OpId
      BY <2>1 DEF IsMap
    <3>2. x[k] = Newer(Newer(m[k], n[k]), o[k]) /\ y[k] = Newer(m[k], Newer(n[k], o[k]))
      BY SMTT(40), <1>1, <1>2, <1>3, <1>4, <2>1 DEF IsMerge
    <3> QED
      BY <3>1, <3>2, NewerAssociates
  <2>2. CASE ~(k \in DOMAIN m /\ k \in DOMAIN n /\ k \in DOMAIN o)
    BY SMTT(40), <1>1, <1>2, <1>3, <1>4, <1>5, <2>2 DEF IsMerge
  <2> QED
    BY <2>1, <2>2
<1> QED
  BY SMTT(40), <1>3, <1>4, <1>5, <1>6, <1>1, <1>2, MapsEqual

\* The order in which a mark set takes in two deliveries does not matter, whatever it
\* held before: removes (remove_mark) and merged sets (merge_from) of two peers
\* leave the same marks at every replica.
THEOREM MergeOrderIrrelevant ==
    ASSUME NEW m, NEW n, NEW o, IsMap(m), IsMap(n), IsMap(o), Agree(n, o)
    PROVE  MergeNewest(MergeNewest(m, n), o) = MergeNewest(MergeNewest(m, o), n)
<1>1. MergeNewest(MergeNewest(m, n), o) = MergeNewest(m, MergeNewest(n, o))
  BY MergeAssociates
<1>2. MergeNewest(n, o) = MergeNewest(o, n)
  BY MergeCommutes
<1>3. MergeNewest(MergeNewest(m, o), n) = MergeNewest(m, MergeNewest(o, n))
  BY MergeAssociates
<1> QED
  BY <1>1, <1>2, <1>3
=============================================================================
