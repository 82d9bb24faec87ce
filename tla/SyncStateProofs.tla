--------------------------- MODULE SyncStateProofs ---------------------------
(***************************************************************************)
(* Proofs about SyncState, for every set of peers and every bound: the log  *)
(* has no silent gap, deltas are exact, and leases are honoured.            *)
(***************************************************************************)
EXTENDS SyncState, FiniteSetTheorems, TLAPS

\* A non-empty set of naturals has a least element.
LEMMA MinimumExists ==
    ASSUME NEW T \in SUBSET Nat, T # {}
    PROVE  \E m \in T : \A n \in T : m <= n
<1>1. \E m \in T : \A n \in T : ~(<<n, m>> \in OpToRel(<, Nat))
  BY NatLessThanWellFounded, WFMin, Zenon
<1>2. PICK m \in T : \A n \in T : ~(<<n, m>> \in OpToRel(<, Nat))
  BY Zenon, <1>1
<1>3. \A n \in T : ~(n < m)
  BY Zenon, <1>2 DEF OpToRel
<1> QED
  BY <1>3

\* A non-empty bounded set of naturals has a greatest element.
LEMMA MaximumExists ==
    ASSUME NEW T \in SUBSET Nat, T # {}, NEW b \in Nat, \A n \in T : n <= b
    PROVE  \E m \in T : \A n \in T : n <= m
<1> DEFINE U == {b - n : n \in T}
<1>1. \A n \in T : b - n \in Nat
  OBVIOUS
<1>2. PICK t \in T : TRUE
  BY Zenon
<1>3. b - t \in U
  BY <1>2
<1>4. U \in SUBSET Nat
  BY <1>1
<1>5. PICK u \in U : \A w \in U : u <= w
  <2> HIDE DEF U
  <2> QED BY <1>3, <1>4, MinimumExists
<1>6. PICK m \in T : u = b - m
  OBVIOUS
<1>7. \A n \in T : b - m <= b - n
  BY <1>5, <1>6
<1> QED
  BY <1>7

\* observe() never lowers an entry, reaches every operation observed and
\* invents no counter.
LEMMA ObserveProperties ==
    ASSUME NEW v \in Vector, NEW S \in SUBSET Operation,
           NEW b \in Vector, Covers(b, v), \A o \in S : o.counter <= b[o.peer]
    PROVE  /\ Observe(v, S) \in Vector
           /\ Covers(Observe(v, S), v)
           /\ Covers(b, Observe(v, S))
           /\ \A o \in S : o.counter <= Observe(v, S)[o.peer]
           /\ \A p \in Peers : \/ Observe(v, S)[p] = v[p]
                               \/ \E o \in S : /\ o.peer = p
                                               /\ o.counter = Observe(v, S)[p]
<1> DEFINE M(p) == CHOOSE m \in Reached(v, S, p) :
                        \A n \in Reached(v, S, p) : n <= m
<1>1. ASSUME NEW p \in Peers
      PROVE  /\ M(p) \in Reached(v, S, p)
             /\ \A n \in Reached(v, S, p) : n <= M(p)
  <2> DEFINE T == Reached(v, S, p)
  <2>1. T \in SUBSET Nat /\ v[p] \in T
    BY DEF Reached, Vector, Operation
  <2>2. \A n \in T : n <= b[p]
    BY DEF Reached, Vector, Operation, Covers
  <2>3. b[p] \in Nat
    BY DEF Vector
  <2>4. \E m \in T : \A n \in T : n <= m
    <3> HIDE DEF T
    <3> QED BY Zenon, <2>1, <2>2, <2>3, MaximumExists
  <2> QED
    BY <2>4
<1>2. \A p \in Peers : Observe(v, S)[p] = M(p)
  BY DEF Observe
<1> HIDE DEF M
<1>3. \A p \in Peers : M(p) \in Nat
  <2>1. \A p \in Peers : Reached(v, S, p) \subseteq Nat
    BY DEF Reached, Vector, Operation
  <2> QED
    BY <1>1, <2>1
<1>4. Observe(v, S) \in Vector
  BY Zenon, <1>2, <1>3 DEF Observe, Vector
<1>5. \A p \in Peers : v[p] \in Reached(v, S, p)
  BY DEF Reached
<1>6. \A o \in S : o.peer \in Peers /\ o.counter \in Reached(v, S, o.peer)
  BY DEF Reached, Operation
<1>7. \A p \in Peers : \/ M(p) = v[p]
                       \/ \E o \in S : o.peer = p /\ o.counter = M(p)
  BY <1>1 DEF Reached
<1>8. \A p \in Peers : M(p) <= b[p]
  BY <1>7 DEF Covers
<1> QED
  BY <1>1, <1>2, <1>4, <1>5, <1>6, <1>7, <1>8 DEF Covers

\* The same for a single operation, whose counter itself bounds the result.
LEMMA ObserveOne ==
    ASSUME NEW v \in Vector, NEW op \in Operation
    PROVE  /\ Observe(v, {op}) \in Vector
           /\ \A p \in Peers \ {op.peer} : Observe(v, {op})[p] = v[p]
           /\ op.counter <= v[op.peer] =>
                 Observe(v, {op})[op.peer] = v[op.peer]
           /\ op.counter > v[op.peer] =>
                 Observe(v, {op})[op.peer] = op.counter
<1> DEFINE b == [p \in Peers |-> v[p] + op.counter]
           w == Observe(v, {op})
<1>1. b \in Vector /\ Covers(b, v) /\ \A o \in {op} : o.counter <= b[o.peer]
  BY DEF Vector, Operation, Covers
<1>2. {op} \in SUBSET Operation
  OBVIOUS
<1>3. /\ w \in Vector /\ Covers(w, v)
      /\ op.counter <= w[op.peer]
      /\ \A p \in Peers : w[p] = v[p] \/ (op.peer = p /\ op.counter = w[p])
  <2> HIDE DEF b
  <2> QED BY <1>1, <1>2, ObserveProperties
<1> HIDE DEF w
<1> QED
  BY <1>3 DEF Vector, Operation, Covers, w

-----------------------------------------------------------------------------
\* What IInv says of one replica's log s, given who issued what.
GoodLog(r, s) ==
    /\ s \in Log
    /\ s.ops \subseteq issued /\ s.pending \subseteq issued
    /\ next_counter[r] = s.state_vector[r] + 1
    /\ \A p \in Peers : s.state_vector[p] < next_counter[p]
    /\ Covers(s.state_vector, s.delta_floor)
    /\ s.ops \cap s.pending = {}
    /\ s.outbox \cap s.sent = {}
    /\ s.outbox \cup s.sent \subseteq {o \in s.ops : o.peer = r}
    /\ \A o \in s.ops : o.counter <= s.state_vector[o.peer]
    /\ \A o \in issued : o.counter <= s.state_vector[o.peer] =>
          o \in s.ops \/ o.counter <= s.delta_floor[o.peer]

\* What the invariant says of each peer's log.
LEMMA GoodLogs ==
    ASSUME IInv
    PROVE  \A r \in Peers : GoodLog(r, sync[r])
BY DEF IInv, TypeOK, Frontiers, QueuesConsistent, NoSilentGap, GoodLog

\* A step that replaces one log by a good one that covers it, with a floor no
\* leased peer is below, preserves the invariant and the history.
LEMMA OneLogStep ==
    ASSUME IInv, NEW r \in Peers, NEW t,
           sync' = [sync EXCEPT ![r] = t],
           UNCHANGED <<next_counter, issued, acked>>,
           GoodLog(r, t),
           Covers(t.state_vector, sync[r].state_vector),
           Covers(t.delta_floor, sync[r].delta_floor),
           \A o \in sync[r].ops \ t.ops : o.counter <= t.delta_floor[o.peer],
           \A q \in Leased \ {r} : Covers(sync[q].state_vector, t.delta_floor)
    PROVE  IInv' /\ HistoryKept
<1>1. /\ \A q \in Peers : sync'[q] = IF q = r THEN t ELSE sync[q]
      /\ sync' \in [Peers -> Log]
  BY DEF IInv, TypeOK, GoodLog
<1>2. TypeOK'
  BY <1>1 DEF IInv, TypeOK
<1>3. Allocation'
  BY DEF IInv, Allocation
<1>4. \A q \in Peers : GoodLog(q, sync'[q])
  BY <1>1, GoodLogs
<1>5. \A q \in Peers : Covers(sync'[q].state_vector, sync[q].state_vector)
  BY <1>1 DEF IInv, TypeOK, Log, Vector, Covers
<1>6. QueuesConsistent' /\ NoSilentGap'
  BY <1>4 DEF GoodLog, QueuesConsistent, NoSilentGap
<1>7. \A p, q \in Peers : Covers(sync'[q].state_vector, acked'[p][q])
  <2> TAKE p, q \in Peers
  <2>1. Covers(sync[q].state_vector, acked[p][q])
    BY DEF IInv, Frontiers
  <2>2. /\ sync[q].state_vector \in Vector /\ sync'[q].state_vector \in Vector
        /\ acked[p][q] \in Vector
    BY <1>1 DEF IInv, TypeOK, Log
  <2> QED
    BY <1>5, <2>1, <2>2 DEF Covers, Vector
<1>8. Frontiers'
  BY <1>4, <1>7 DEF GoodLog, Frontiers
<1>9. LeasedNeverRebased'
  <2> SUFFICES ASSUME NEW p \in Peers, NEW q \in Leased \ {p}
               PROVE  Covers(sync'[q].state_vector, sync'[p].delta_floor)
    BY DEF LeasedNeverRebased, RebaseRequired
  <2>1. q \in Peers
    BY LeasedAssumption
  <2>2. Covers(sync[q].state_vector, sync'[p].delta_floor)
    BY <1>1, <2>1 DEF IInv, LeasedNeverRebased, RebaseRequired
  <2>3. /\ sync[q].state_vector \in Vector /\ sync'[q].state_vector \in Vector
        /\ sync'[p].delta_floor \in Vector
    BY <1>1, <2>1 DEF IInv, TypeOK, Log
  <2> QED
    BY <1>5, <2>1, <2>2, <2>3 DEF Covers, Vector
<1>10. HistoryKept
  <2> SUFFICES ASSUME NEW q \in Peers
               PROVE  /\ Covers(sync'[q].delta_floor, sync[q].delta_floor)
                      /\ \A o \in sync[q].ops \ sync'[q].ops :
                            o.counter <= sync'[q].delta_floor[o.peer]
    BY <1>5 DEF HistoryKept
  <2>1. CASE q = r
    BY <1>1, <2>1
  <2>2. CASE q # r
    BY <1>1, <2>2 DEF IInv, TypeOK, Log, Vector, Covers
  <2> QED
    BY <2>1, <2>2
<1> QED
  BY <1>2, <1>3, <1>6, <1>8, <1>9, <1>10 DEF IInv

\* Ids are unique, so replacing the entry with op's id just adds op.
LEMMA PutIssued ==
    ASSUME IInv, NEW op \in issued, NEW set \in SUBSET issued
    PROVE  Put(set, op) = set \cup {op} /\ (HasId(set, op) <=> op \in set)
BY DEF IInv, Allocation, TypeOK, Operation, Put, HasId, SameId

\* Taking in an operation, buffered or applied, keeps the invariant.
LEMMA DeliverStep ==
    ASSUME IInv, NEW r \in Peers, NEW op \in issued, Deliver(r, op)
    PROVE  IInv' /\ HistoryKept
<1> DEFINE s == sync[r]
           t == ApplyOne(s, op)
<1>1. sync' = [sync EXCEPT ![r] = t] /\ UNCHANGED <<next_counter, issued, acked>>
  BY DEF Deliver
<1>2. GoodLog(r, s) /\ op \in Operation
  BY GoodLogs DEF IInv, TypeOK
<1>3. \A q \in Leased \ {r} : Covers(sync[q].state_vector, s.delta_floor)
  BY LeasedAssumption DEF IInv, LeasedNeverRebased, RebaseRequired
<1>4. s.state_vector \in Vector /\ s.delta_floor \in Vector
  BY <1>2 DEF GoodLog, Log
<1>5. /\ HasId(s.ops, op) <=> op \in s.ops
      /\ HasId(s.pending, op) <=> op \in s.pending
      /\ Put(s.ops, op) = s.ops \cup {op}
      /\ Put(s.pending, op) = s.pending \cup {op}
  BY <1>2, PutIssued DEF GoodLog
<1>6. CASE op \in s.ops \cup s.pending
  <2>1. t = s
    BY <1>5, <1>6 DEF ApplyOne
  <2>2. Covers(t.state_vector, s.state_vector) /\ Covers(t.delta_floor, s.delta_floor)
    BY <1>4, <2>1 DEF Covers, Vector
  <2>3. \A o \in s.ops \ t.ops : o.counter <= t.delta_floor[o.peer]
    BY <2>1
  <2> QED
    BY Zenon, <1>1, <1>2, <1>3, <2>1, <2>2, <2>3, OneLogStep
<1>7. CASE op \notin s.ops \cup s.pending /\ ~Ready(s.state_vector, op)
  <2>1. t = [s EXCEPT !.pending = s.pending \cup {op}]
    BY <1>5, <1>7 DEF ApplyOne
  <2>2. /\ t.ops = s.ops /\ t.pending = s.pending \cup {op}
        /\ t.outbox = s.outbox /\ t.sent = s.sent
        /\ t.state_vector = s.state_vector /\ t.delta_floor = s.delta_floor
        /\ t \in Log
    <3> HIDE DEF t, s
    <3>1. s \in Log /\ s.pending \cup {op} \in SUBSET Operation
      BY <1>2 DEF GoodLog, Log
    <3>2. t \in Log
      BY <2>1, <3>1, Zenon DEF Log
    <3> QED
      BY <2>1, <3>1, <3>2, Zenon DEF Log
  <2>3. GoodLog(r, t)
    <3> HIDE DEF t
    <3> QED BY <1>2, <1>7, <2>2 DEF GoodLog
  <2>4. Covers(t.state_vector, s.state_vector) /\ Covers(t.delta_floor, s.delta_floor)
    BY <1>4, <2>2 DEF Covers, Vector
  <2> HIDE DEF t
  <2>5. \A o \in s.ops \ t.ops : o.counter <= t.delta_floor[o.peer]
    BY <2>2
  <2> QED
    BY Zenon, <1>1, <1>3, <2>2, <2>3, <2>4, <2>5, OneLogStep
<1>8. CASE op \notin s.ops \cup s.pending /\ Ready(s.state_vector, op)
  <2> DEFINE w == Observe(s.state_vector, {op})
  <2>1. t = [s EXCEPT !.ops = s.ops \cup {op}, !.state_vector = w]
    BY <1>5, <1>8 DEF ApplyOne
  <2>2. /\ w \in Vector
        /\ \A p \in Peers \ {op.peer} : w[p] = s.state_vector[p]
        /\ op.counter <= s.state_vector[op.peer] => w[op.peer] = s.state_vector[op.peer]
        /\ op.counter > s.state_vector[op.peer] => w[op.peer] = op.counter
    BY <1>2, <1>4, ObserveOne
  <2> HIDE DEF w
  <2>3. /\ t.ops = s.ops \cup {op} /\ t.state_vector = w /\ t.pending = s.pending
        /\ t.outbox = s.outbox /\ t.sent = s.sent /\ t.delta_floor = s.delta_floor
        /\ t \in Log
    <3> HIDE DEF t, s
    <3>1. s \in Log /\ s.ops \cup {op} \in SUBSET Operation
      BY <1>2 DEF GoodLog, Log
    <3>2. t \in Log
      BY <2>1, <2>2, <3>1, Zenon DEF Log
    <3> QED
      BY <2>1, <3>1, <3>2, Zenon DEF Log
  <2> HIDE DEF t
  <2>4. \A p \in Peers : s.state_vector[p] <= w[p]
    BY <1>2, <1>4, <2>2 DEF Vector, Operation
  <2>5. op.counter <= w[op.peer]
    BY <1>2, <1>4, <2>2 DEF Vector, Operation
  <2>6. op.counter < next_counter[op.peer] /\ op.span <= op.counter
    BY DEF IInv, Allocation
  <2>7. \A p \in Peers : w[p] < next_counter[p]
    BY <1>2, <2>2, <2>6, <1>4 DEF GoodLog, Vector, Operation
  <2>8. next_counter[r] = w[r] + 1
    \* Everything r issued is already below its own frontier.
    BY <1>2, <1>4, <2>2, <2>4, <2>7 DEF GoodLog, Vector, IInv, TypeOK
  <2>9. ASSUME NEW o \in issued, o.counter <= w[o.peer]
        PROVE  o \in t.ops \/ o.counter <= t.delta_floor[o.peer]
    <3>1. o \in Operation
      BY DEF IInv, TypeOK
    <3>2. CASE o.counter <= s.state_vector[o.peer]
      BY <1>2, <2>3, <3>2 DEF GoodLog
    <3>3. CASE o.counter > s.state_vector[o.peer]
      <4>1. o.peer = op.peer /\ o.counter <= op.counter
        BY <1>2, <1>4, <2>2, <2>9, <3>1, <3>3 DEF Vector, Operation
      <4>2. SpanStart(op) <= s.state_vector[op.peer] + 1
        BY <1>8 DEF Ready
      <4>3. ~(o.counter < SpanStart(op))
        BY <1>2, <1>4, <3>1, <3>3, <4>1, <4>2, <2>6
           DEF SpanStart, Vector, Operation
      <4>4. o = op
        BY <1>2, <3>1, <4>1, <4>3 DEF IInv, Allocation, Operation
      <4> QED
        BY <2>3, <4>4
    <3> QED
      BY <1>4, <3>1, <3>2, <3>3 DEF Vector, Operation
  <2>10. /\ t.ops \subseteq issued /\ t.pending \subseteq issued
         /\ t.ops \cap t.pending = {}
         /\ t.outbox \cup t.sent \subseteq {o \in t.ops : o.peer = r}
         /\ t.outbox \cap t.sent = {}
    BY <1>2, <1>8, <2>3 DEF GoodLog
  <2>11. Covers(w, s.delta_floor)
    BY <1>2, <1>4, <2>2, <2>4 DEF GoodLog, Covers, Vector
  <2>12. \A o \in t.ops : o.counter <= w[o.peer]
    <3> TAKE o \in t.ops
    <3>1. CASE o = op
      BY <2>5, <3>1
    <3>2. CASE o \in s.ops
      <4>1. o \in Operation /\ o.counter <= s.state_vector[o.peer]
        BY <1>2, <3>2 DEF GoodLog, Log
      <4> QED
        BY <1>4, <2>2, <2>4, <4>1 DEF Vector, Operation
    <3> QED
      BY <2>3, <3>1, <3>2
  <2>13. GoodLog(r, t)
    BY <2>3, <2>7, <2>8, <2>9, <2>10, <2>11, <2>12 DEF GoodLog
  <2>14. Covers(t.state_vector, s.state_vector)
    BY <2>3, <2>4 DEF Covers
  <2>15. Covers(t.delta_floor, s.delta_floor)
    BY <1>4, <2>3 DEF Covers, Vector
  <2>16. \A o \in s.ops \ t.ops : o.counter <= t.delta_floor[o.peer]
    BY <2>3
  <2> QED
    BY Zenon, <1>1, <1>3, <2>3, <2>13, <2>14, <2>15, <2>16, OneLogStep
<1> QED
  BY <1>6, <1>7, <1>8

\* No operation hides between the frontier and a promoted one: the promoted
\* operation that starts first among those at or past o would start after o,
\* but then it follows a promoted one that starts even earlier.
LEMMA PromotionHasNoGap ==
    ASSUME IInv, NEW r \in Peers, NEW S \in Promotion(sync[r]),
           NEW o \in issued, o.counter > sync[r].state_vector[o.peer],
           NEW d \in S, d.peer = o.peer, o.counter <= d.counter
    PROVE  o \in S
<1> DEFINE v == sync[r].state_vector
           D == {e \in S : e.peer = o.peer /\ o.counter <= e.counter}
           T == {SpanStart(e) : e \in D}
<1>1. S \subseteq issued /\ v \in Vector /\ issued \subseteq Operation
  BY DEF Promotion, IInv, Frontiers, TypeOK, Log
<1>2. \A e \in issued : SpanStart(e) \in Nat /\ SpanStart(e) <= e.counter
  BY <1>1 DEF SpanStart, Operation
<1>3. T \in SUBSET Nat /\ SpanStart(d) \in T
  BY <1>1, <1>2
<1>4. PICK m \in T : \A n \in T : m <= n
  <2> HIDE DEF T
  <2> QED BY <1>3, MinimumExists
<1>5. PICK e \in D : m = SpanStart(e)
  OBVIOUS
<1>6. SUFFICES ASSUME o # e PROVE FALSE
  BY <1>5
<1>7. o.counter < SpanStart(e)
  <2>1. e \in issued /\ e.peer = o.peer /\ o.counter <= e.counter
    BY <1>1, <1>5
  <2> QED
    BY <1>1, <1>6, <2>1 DEF IInv, Allocation, Operation
<1>8. \/ Ready(v, e)
      \/ \E c \in S : /\ c.peer = e.peer
                      /\ SpanStart(c) < SpanStart(e)
                      /\ SpanStart(e) <= c.counter + 1
  BY <1>5 DEF Promotion
<1>9. CASE Ready(v, e)
  BY <1>1, <1>2, <1>5, <1>7, <1>9 DEF Ready, Vector, Operation
<1>10. CASE \E c \in S : /\ c.peer = e.peer
                        /\ SpanStart(c) < SpanStart(e)
                        /\ SpanStart(e) <= c.counter + 1
  <2>1. PICK c \in S : /\ c.peer = e.peer
                       /\ SpanStart(c) < SpanStart(e)
                       /\ SpanStart(e) <= c.counter + 1
    BY <1>10
  <2>2. c \in issued /\ c \in Operation /\ o \in Operation
    BY <1>1
  <2>3. SpanStart(e) \in Nat /\ SpanStart(c) \in Nat
    BY <1>1, <1>2, <1>5, <2>2
  <2>4. o.counter <= c.counter
    BY <1>7, <2>1, <2>2, <2>3 DEF Operation
  <2>5. c \in D
    BY <1>5, <2>1, <2>4
  <2>6. m <= SpanStart(c)
    BY <1>4, <2>5
  <2> QED
    BY <1>5, <2>1, <2>3, <2>6
<1> QED
  BY <1>8, <1>9, <1>10

\* Promoting a buffered operation whose turn has come keeps the invariant.
LEMMA PromoteStep ==
    ASSUME IInv, NEW r \in Peers, PromoteReadyPending(r)
    PROVE  IInv' /\ HistoryKept
<1> DEFINE s == sync[r]
<1>1. PICK S \in Promotion(s) : sync' = [sync EXCEPT ![r] = Promote(s, S)]
  BY Zenon DEF PromoteReadyPending
<1>2. UNCHANGED <<next_counter, issued, acked>>
  BY DEF PromoteReadyPending
<1> DEFINE t == Promote(s, S)
           w == Observe(s.state_vector, S)
<1>3. GoodLog(r, s)
  BY GoodLogs
<1>4. /\ s.state_vector \in Vector /\ s.delta_floor \in Vector
      /\ S \subseteq s.pending /\ S \in SUBSET Operation /\ S \subseteq issued
      /\ issued \subseteq Operation /\ next_counter \in [Peers -> Nat \ {0}]
  BY <1>3 DEF GoodLog, Log, Promotion, IInv, TypeOK
<1>5. \A q \in Leased \ {r} : Covers(sync[q].state_vector, s.delta_floor)
  BY LeasedAssumption DEF IInv, LeasedNeverRebased, RebaseRequired
<1>6. /\ w \in Vector
      /\ Covers(w, s.state_vector)
      /\ \A o \in S : o.counter <= w[o.peer]
      /\ \A p \in Peers : \/ w[p] = s.state_vector[p]
                          \/ \E o \in S : o.peer = p /\ o.counter = w[p]
  <2> DEFINE b == [p \in Peers |-> next_counter[p] + s.state_vector[p]]
  <2>1. b \in Vector /\ Covers(b, s.state_vector)
    BY <1>4 DEF Vector, Covers
  <2>2. \A o \in S : o.counter <= b[o.peer]
    BY <1>4 DEF IInv, Allocation, Vector, Operation
  <2> HIDE DEF b
  <2> QED
    BY <1>4, <2>1, <2>2, ObserveProperties
<1> HIDE DEF w
<1>7. {o \in s.ops : ~HasId(S, o)} = s.ops
  BY <1>3, <1>4 DEF HasId, SameId, IInv, Allocation, GoodLog
<1>8. /\ t.ops = s.ops \cup S /\ t.state_vector = w /\ t.pending = s.pending \ S
      /\ t.outbox = s.outbox /\ t.sent = s.sent /\ t.delta_floor = s.delta_floor
      /\ t \in Log
  <2>1. t = [s EXCEPT !.ops = s.ops \cup S, !.pending = s.pending \ S,
                      !.state_vector = w]
    BY <1>7, Zenon DEF Promote, w
  <2> HIDE DEF t, s
  <2>2. /\ s \in Log /\ s.ops \cup S \in SUBSET Operation
        /\ s.pending \ S \in SUBSET Operation
    BY <1>3, <1>4 DEF GoodLog, Log
  <2>3. t \in Log
    BY <1>6, <2>1, <2>2, Zenon DEF Log
  <2> QED
    BY <2>1, <2>2, <2>3, Zenon DEF Log
<1> HIDE DEF t
<1>9. \A p \in Peers : w[p] < next_counter[p]
  BY <1>3, <1>4, <1>6 DEF GoodLog, IInv, Allocation
<1>10. next_counter[r] = w[r] + 1
  BY <1>3, <1>4, <1>6, <1>9 DEF GoodLog, Vector, Covers
<1>11. ASSUME NEW o \in issued, o.counter <= w[o.peer]
       PROVE  o \in t.ops \/ o.counter <= t.delta_floor[o.peer]
  <2>1. o \in Operation
    BY <1>4
  <2>2. CASE o.counter <= s.state_vector[o.peer]
    BY <1>3, <1>8, <2>2 DEF GoodLog
  <2>3. CASE o.counter > s.state_vector[o.peer]
    <3>1. PICK d \in S : d.peer = o.peer /\ d.counter = w[o.peer]
      BY <1>4, <1>6, <1>11, <2>1, <2>3 DEF Operation, Vector
    <3>2. o \in S
      BY <1>11, <2>3, <3>1, PromotionHasNoGap
    <3> QED
      BY <1>8, <3>2
  <2> QED
    BY <1>4, <2>1, <2>2, <2>3 DEF Vector, Operation
<1>12. Covers(w, s.delta_floor)
  BY <1>3, <1>4, <1>6 DEF GoodLog, Covers, Vector
<1>13. \A o \in t.ops : o.counter <= w[o.peer]
  <2> TAKE o \in t.ops
  <2>1. CASE o \in S
    BY <1>6, <2>1
  <2>2. CASE o \in s.ops
    <3>1. o \in Operation /\ o.counter <= s.state_vector[o.peer]
      BY <1>3, <2>2 DEF GoodLog, Log
    <3> QED
      BY <1>4, <1>6, <3>1 DEF Vector, Operation, Covers
  <2> QED
    BY <1>8, <2>1, <2>2
<1>14. /\ t.ops \subseteq issued /\ t.pending \subseteq issued
       /\ t.ops \cap t.pending = {}
       /\ t.outbox \cup t.sent \subseteq {o \in t.ops : o.peer = r}
       /\ t.outbox \cap t.sent = {}
  BY <1>3, <1>4, <1>8 DEF GoodLog
<1>15. GoodLog(r, t)
  BY <1>8, <1>9, <1>10, <1>11, <1>12, <1>13, <1>14 DEF GoodLog
<1>16. Covers(t.delta_floor, s.delta_floor)
  BY <1>4, <1>8 DEF Covers, Vector
<1>17. \A o \in s.ops \ t.ops : o.counter <= t.delta_floor[o.peer]
  BY <1>8
<1> QED
  BY Zenon, <1>1, <1>2, <1>5, <1>6, <1>8, <1>15, <1>16, <1>17, OneLogStep DEF t

\* Compacting the log up to a checkpoint keeps the invariant.
LEMMA CheckpointStep ==
    ASSUME IInv, NEW r \in Peers, NEW m, Checkpoint(r, m)
    PROVE  IInv' /\ HistoryKept
<1> DEFINE s == sync[r]
<1>1. PICK P \in Prunable(s, LeasesOf(r), m) : sync' = [sync EXCEPT ![r] = Prune(s, P)]
  BY Zenon DEF Checkpoint
<1>2. UNCHANGED <<next_counter, issued, acked>>
  BY DEF Checkpoint
<1> DEFINE t == Prune(s, P)
           f == Observe(s.delta_floor, P)
<1>3. GoodLog(r, s)
  BY GoodLogs
<1>4. /\ s.state_vector \in Vector /\ s.delta_floor \in Vector
      /\ P \subseteq s.ops /\ P \in SUBSET Operation
      /\ \A q \in Leased \ {r} : \A o \in P : o.counter <= acked[r][q][o.peer]
  BY <1>3 DEF GoodLog, Log, Prunable, Eligible, LeasesOf
<1>5. /\ f \in Vector
      /\ Covers(f, s.delta_floor)
      /\ Covers(s.state_vector, f)
      /\ \A o \in P : o.counter <= f[o.peer]
      /\ \A p \in Peers : \/ f[p] = s.delta_floor[p]
                          \/ \E o \in P : o.peer = p /\ o.counter = f[p]
  <2>1. /\ Covers(s.state_vector, s.delta_floor)
        /\ \A o \in P : o.counter <= s.state_vector[o.peer]
    BY <1>3, <1>4 DEF GoodLog
  <2> QED
    BY <1>4, <2>1, ObserveProperties
<1> HIDE DEF f
<1>6. /\ t.ops = s.ops \ P /\ t.state_vector = s.state_vector /\ t.pending = s.pending
      /\ t.outbox = s.outbox \ P /\ t.sent = s.sent \ P /\ t.delta_floor = f
      /\ t \in Log
  <2>1. t = [s EXCEPT !.ops = s.ops \ P, !.outbox = s.outbox \ P,
                      !.sent = s.sent \ P,
                      !.checkpoint_epoch = s.checkpoint_epoch + 1,
                      !.delta_floor = f]
    BY Zenon DEF Prune, f
  <2> HIDE DEF t, s
  <2>2. /\ s \in Log /\ s.ops \ P \in SUBSET Operation
        /\ s.outbox \ P \in SUBSET Operation /\ s.sent \ P \in SUBSET Operation
        /\ s.checkpoint_epoch + 1 \in Nat
    BY <1>3 DEF GoodLog, Log
  <2>3. t \in Log
    BY <1>5, <2>1, <2>2, Zenon DEF Log
  <2> QED
    BY <2>1, <2>2, <2>3, Zenon DEF Log
<1> HIDE DEF t
<1>7. ASSUME NEW o \in issued, o.counter <= t.state_vector[o.peer]
      PROVE  o \in t.ops \/ o.counter <= f[o.peer]
  <2>1. o \in Operation
    BY DEF IInv, TypeOK
  <2>2. o \in s.ops \/ o.counter <= s.delta_floor[o.peer]
    BY <1>3, <1>6, <1>7 DEF GoodLog
  <2> QED
    BY <1>4, <1>5, <1>6, <2>1, <2>2 DEF Covers, Vector, Operation
<1>8. GoodLog(r, t)
  BY <1>3, <1>5, <1>6, <1>7 DEF GoodLog
<1>9. ASSUME NEW q \in Leased \ {r}
      PROVE  Covers(sync[q].state_vector, f)
  <2>1. q \in Peers
    BY LeasedAssumption
  <2>2. /\ Covers(sync[q].state_vector, s.delta_floor)
        /\ Covers(sync[q].state_vector, acked[r][q])
    BY <2>1 DEF IInv, LeasedNeverRebased, RebaseRequired, Frontiers
  <2>3. sync[q].state_vector \in Vector /\ acked[r][q] \in Vector
    BY <2>1 DEF IInv, TypeOK, Log
  <2> QED
    BY <1>4, <1>5, <2>2, <2>3 DEF Covers, Vector, Operation
<1>10. Covers(t.state_vector, s.state_vector)
  BY <1>4, <1>6 DEF Covers, Vector
<1>11. Covers(t.delta_floor, s.delta_floor)
  BY <1>5, <1>6
<1>12. \A o \in s.ops \ t.ops : o.counter <= t.delta_floor[o.peer]
  BY <1>5, <1>6
<1> QED
  BY Zenon, <1>1, <1>2, <1>6, <1>8, <1>9, <1>10, <1>11, <1>12, OneLogStep DEF t

\* Sending an operation, and learning that it arrived, keep the invariant.
LEMMA SendStep ==
    ASSUME IInv, NEW r \in Peers, NEW op, Sent(r, op) \/ Confirmed(r, op)
    PROVE  IInv' /\ HistoryKept
<1> DEFINE s == sync[r]
<1>1. GoodLog(r, s)
  BY GoodLogs
<1>2. PICK out \in SUBSET s.outbox, snt \in SUBSET (s.outbox \cup s.sent) :
         /\ out \cap snt = {}
         /\ \/ sync' = [sync EXCEPT ![r] = [s EXCEPT !.outbox = out, !.sent = snt]]
            \/ /\ out = s.outbox
               /\ sync' = [sync EXCEPT ![r] = [s EXCEPT !.sent = snt]]
  <2>1. CASE Sent(r, op)
    <3> DEFINE out == s.outbox \ {op}
               snt == s.sent \cup (s.outbox \cap {op})
    <3>1. /\ out \in SUBSET s.outbox /\ snt \in SUBSET (s.outbox \cup s.sent)
          /\ out \cap snt = {}
      BY <1>1 DEF GoodLog
    <3>2. sync' = [sync EXCEPT ![r] = [s EXCEPT !.outbox = out, !.sent = snt]]
      BY <2>1, Zenon DEF Sent, MarkSent
    <3> QED
      BY <3>1, <3>2, Zenon
  <2>2. CASE Confirmed(r, op)
    <3> DEFINE snt == s.sent \ {op}
    <3>1. /\ s.outbox \in SUBSET s.outbox /\ snt \in SUBSET (s.outbox \cup s.sent)
          /\ s.outbox \cap snt = {}
      BY <1>1 DEF GoodLog
    <3>2. sync' = [sync EXCEPT ![r] = [s EXCEPT !.sent = snt]]
      BY <2>2, Zenon DEF Confirmed, MarkConfirmed
    <3> QED
      BY <3>1, <3>2, Zenon
  <2> QED
    BY Zenon, <2>1, <2>2
<1>3. UNCHANGED <<next_counter, issued, acked>>
  BY DEF Sent, Confirmed
<1>4. PICK t : /\ sync' = [sync EXCEPT ![r] = t]
               /\ \/ t = [s EXCEPT !.outbox = out, !.sent = snt]
                  \/ out = s.outbox /\ t = [s EXCEPT !.sent = snt]
  BY <1>2, Zenon
<1>5. /\ t.ops = s.ops /\ t.state_vector = s.state_vector /\ t.pending = s.pending
      /\ t.outbox = out /\ t.sent = snt /\ t.delta_floor = s.delta_floor
      /\ t \in Log
  <2>1. s \in Log /\ out \in SUBSET Operation /\ snt \in SUBSET Operation
    BY <1>1, <1>2 DEF GoodLog, Log
  <2> HIDE DEF s
  <2>2. t \in Log
    BY <1>4, <2>1, Zenon DEF Log
  <2> QED
    BY <1>4, <2>1, <2>2, Zenon DEF Log
<1>6. GoodLog(r, t)
  BY <1>1, <1>2, <1>5 DEF GoodLog
<1>7. Covers(t.state_vector, s.state_vector) /\ Covers(t.delta_floor, s.delta_floor)
  BY <1>1, <1>5 DEF GoodLog, Log, Covers, Vector
<1>8. \A q \in Leased \ {r} : Covers(sync[q].state_vector, s.delta_floor)
  BY LeasedAssumption DEF IInv, LeasedNeverRebased, RebaseRequired
<1>9. \A o \in s.ops \ t.ops : o.counter <= t.delta_floor[o.peer]
  BY <1>5
<1> QED
  BY Zenon, <1>3, <1>4, <1>5, <1>6, <1>7, <1>8, <1>9, OneLogStep

\* An operation made here keeps the invariant: its range of counters is new.
LEMMA LocalOpStep ==
    ASSUME IInv, NEW r \in Peers, NEW n \in 1 .. MaxSpan, LocalOp(r, n)
    PROVE  IInv' /\ HistoryKept
<1> DEFINE s == sync[r]
           op == [peer |-> r, counter |-> next_counter[r] + n - 1, span |-> n]
           t == AddLocalOp(s, op)
           w == Observe(s.state_vector, {op})
<1>1. /\ sync' = [sync EXCEPT ![r] = t]
      /\ next_counter' = [next_counter EXCEPT ![r] = op.counter + 1]
      /\ issued' = issued \cup {op} /\ acked' = acked
  BY DEF LocalOp
<1>2. GoodLog(r, s)
  BY GoodLogs
<1>3. /\ s.state_vector \in Vector /\ s.delta_floor \in Vector
      /\ issued \subseteq Operation /\ next_counter \in [Peers -> Nat \ {0}]
      /\ n \in Nat \ {0}
  BY <1>2, BoundsAssumption DEF GoodLog, Log, IInv, TypeOK
<1>4. /\ op \in Operation /\ op.peer = r /\ op.span <= op.counter
      /\ op.counter = next_counter[r] + n - 1 /\ next_counter[r] <= op.counter
      /\ SpanStart(op) = next_counter[r]
  BY <1>3 DEF Operation, SpanStart
<1> HIDE DEF op
<1>5. \A o \in issued : o.peer = r => o.counter < next_counter[r]
  BY DEF IInv, Allocation
<1>6. \A o \in issued : ~SameId(o, op) /\ o # op
  BY <1>3, <1>4, <1>5 DEF SameId, Operation
<1>7. w = [s.state_vector EXCEPT ![r] = op.counter]
  <2>1. op.counter > s.state_vector[r]
    BY <1>2, <1>3, <1>4 DEF GoodLog, Vector, Operation
  <2>2. /\ w \in Vector /\ w[r] = op.counter
        /\ \A p \in Peers \ {r} : w[p] = s.state_vector[p]
    BY ZenonT(40), <1>3, <1>4, <2>1, ObserveOne
  <2> HIDE DEF w
  <2> QED
    BY <1>3, <2>2 DEF Vector
<1> HIDE DEF w
<1>8. /\ t.ops = s.ops \cup {op} /\ t.state_vector = w /\ t.pending = s.pending
      /\ t.outbox = s.outbox \cup {op} /\ t.sent = s.sent
      /\ t.delta_floor = s.delta_floor /\ t \in Log
  <2>1. Put(s.ops, op) = s.ops \cup {op} /\ Put(s.outbox, op) = s.outbox \cup {op}
    BY <1>2, <1>6 DEF Put, GoodLog
  <2>2. t = [s EXCEPT !.ops = s.ops \cup {op}, !.state_vector = w,
                      !.outbox = s.outbox \cup {op}]
    BY <2>1, Zenon DEF AddLocalOp, w
  <2> HIDE DEF t, s
  <2>3. /\ s \in Log /\ s.ops \cup {op} \in SUBSET Operation
        /\ s.outbox \cup {op} \in SUBSET Operation
    BY <1>2, <1>4 DEF GoodLog, Log
  <2>4. w \in Vector
    BY <1>3, <1>4, <1>7 DEF Vector, Operation
  <2>5. t \in Log
    BY <2>2, <2>3, <2>4, Zenon DEF Log
  <2> QED
    BY <2>2, <2>3, <2>5, Zenon DEF Log
<1> HIDE DEF t
<1>9. /\ \A q \in Peers : sync'[q] = IF q = r THEN t ELSE sync[q]
      /\ sync' \in [Peers -> Log]
  BY <1>1, <1>8 DEF IInv, TypeOK
<1>10. TypeOK'
  BY <1>1, <1>3, <1>4, <1>9 DEF IInv, TypeOK, Operation
<1>11. \A p \in Peers : next_counter'[p] = IF p = r THEN op.counter + 1
                                                 ELSE next_counter[p]
  BY <1>1, <1>3
<1>12. Allocation'
  <2>1. \A o \in issued' : o.span <= o.counter /\ o.counter < next_counter'[o.peer]
    <3> TAKE o \in issued'
    <3>1. CASE o = op
      BY <1>4, <1>11, <3>1 DEF Operation
    <3>2. CASE o \in issued
      BY <1>3, <1>4, <1>11, <3>2 DEF IInv, Allocation, Operation
    <3> QED
      BY <1>1, <3>1, <3>2
  <2>2. ASSUME NEW a \in issued', NEW b \in issued', a.peer = b.peer
        PROVE  /\ a.counter = b.counter => a = b
               /\ a.counter < b.counter => a.counter < SpanStart(b)
    <3>1. CASE a \in issued /\ b \in issued
      BY <2>2, <3>1 DEF IInv, Allocation
    <3>2. CASE a = op /\ b = op
      BY <3>2, <1>4 DEF Operation
    <3>3. CASE a \in issued /\ b = op
      BY <1>3, <1>4, <1>5, <2>2, <3>3 DEF Operation
    <3>4. CASE a = op /\ b \in issued
      BY <1>3, <1>4, <1>5, <2>2, <3>4 DEF Operation
    <3> QED
      BY <1>1, <3>1, <3>2, <3>3, <3>4
  <2> QED
    BY <2>1, <2>2 DEF Allocation
<1>13. \A p \in Peers : s.state_vector[p] <= w[p]
  BY <1>2, <1>3, <1>4, <1>7 DEF GoodLog, Vector, Operation
<1>14. ASSUME NEW q \in Peers
       PROVE  GoodLog(q, sync[q])
  BY GoodLogs
<1>15. ASSUME NEW q \in Peers
       PROVE  \A p \in Peers : sync[q].state_vector[p] <= sync'[q].state_vector[p]
  <2>1. sync[q].state_vector \in Vector
    BY <1>14 DEF GoodLog, Log
  <2>2. CASE q = r
    BY <1>8, <1>9, <1>13, <2>2
  <2>3. CASE q # r
    BY <1>9, <2>1, <2>3 DEF Vector
  <2> QED
    BY <2>2, <2>3
<1>16. QueuesConsistent'
  <2> SUFFICES ASSUME NEW q \in Peers
               PROVE  LET x == sync'[q]
                      IN  /\ x.ops \cap x.pending = {}
                          /\ x.outbox \cap x.sent = {}
                          /\ x.outbox \cup x.sent \subseteq {o \in x.ops : o.peer = q}
                          /\ \A o \in x.ops : o.counter <= x.state_vector[o.peer]
    BY DEF QueuesConsistent
  <2>1. CASE q # r
    BY <1>9, <1>14, <2>1 DEF GoodLog
  <2>2. CASE q = r
    <3>1. /\ t.ops \cap t.pending = {} /\ t.outbox \cap t.sent = {}
          /\ t.outbox \cup t.sent \subseteq {o \in t.ops : o.peer = r}
      BY SMTT(40), <1>2, <1>4, <1>6, <1>8 DEF GoodLog
    <3>2. ASSUME NEW o \in t.ops PROVE o.counter <= w[o.peer]
      BY <1>2, <1>3, <1>4, <1>7, <1>8, <1>13 DEF GoodLog, Operation, Vector
    <3> QED
      BY <1>8, <1>9, <2>2, <3>1, <3>2
  <2> QED
    BY <2>1, <2>2
<1>17. Frontiers'
  <2> SUFFICES ASSUME NEW q \in Peers
               PROVE  /\ sync'[q].ops \subseteq issued' /\ sync'[q].pending \subseteq issued'
                      /\ next_counter'[q] = sync'[q].state_vector[q] + 1
                      /\ \A p \in Peers : sync'[q].state_vector[p] < next_counter'[p]
                      /\ Covers(sync'[q].state_vector, sync'[q].delta_floor)
                      /\ \A p \in Peers : Covers(sync'[p].state_vector, acked'[q][p])
    BY DEF Frontiers
  <2>1. sync'[q].ops \subseteq issued' /\ sync'[q].pending \subseteq issued'
    BY <1>1, <1>8, <1>9, <1>14 DEF GoodLog
  <2>2. next_counter'[q] = sync'[q].state_vector[q] + 1
    BY <1>3, <1>7, <1>8, <1>9, <1>11, <1>14 DEF GoodLog, Vector
  <2>3. \A p \in Peers : sync'[q].state_vector[p] < next_counter'[p]
    <3> TAKE p \in Peers
    <3>1. sync[q].state_vector[p] < next_counter[p] /\ sync[q].state_vector \in Vector
      BY <1>14 DEF GoodLog, Log
    <3> QED
      BY <1>3, <1>4, <1>7, <1>8, <1>9, <1>11, <3>1 DEF Vector, Operation
  <2>4. Covers(sync'[q].state_vector, sync'[q].delta_floor)
    <3>1. /\ Covers(sync[q].state_vector, sync[q].delta_floor)
          /\ sync[q].state_vector \in Vector /\ sync[q].delta_floor \in Vector
      BY <1>14 DEF GoodLog, Log
    <3>2. sync'[q].delta_floor = sync[q].delta_floor /\ sync'[q].state_vector \in Vector
      BY <1>8, <1>9 DEF Log
    <3> QED
      BY <1>15, <3>1, <3>2 DEF Covers, Vector
  <2>5. \A p \in Peers : Covers(sync'[p].state_vector, acked'[q][p])
    <3> TAKE p \in Peers
    <3>1. Covers(sync[p].state_vector, acked[q][p])
      BY DEF IInv, Frontiers
    <3>2. /\ sync[p].state_vector \in Vector /\ sync'[p].state_vector \in Vector
          /\ acked[q][p] \in Vector
      BY <1>9 DEF IInv, TypeOK, Log
    <3> QED
      BY <1>1, <1>15, <3>1, <3>2 DEF Covers, Vector
  <2> QED
    BY <2>1, <2>2, <2>3, <2>4, <2>5
<1>18. NoSilentGap'
  <2> SUFFICES ASSUME NEW q \in Peers, NEW o \in issued',
                      o.counter <= sync'[q].state_vector[o.peer]
               PROVE  o \in sync'[q].ops \/ o.counter <= sync'[q].delta_floor[o.peer]
    BY DEF NoSilentGap
  <2>1. CASE o = op /\ q = r
    BY <1>8, <1>9, <2>1
  <2>2. CASE o = op /\ q # r
    <3>1. sync[q].state_vector[r] < next_counter[r] /\ sync[q].state_vector \in Vector
      BY <1>14 DEF GoodLog, Log
    <3> QED
      BY <1>3, <1>4, <1>9, <2>2, <3>1 DEF Vector, Operation
  <2>3. CASE o \in issued
    <3>1. o \in Operation
      BY <1>3, <2>3
    <3>2. o.counter <= sync[q].state_vector[o.peer]
      BY <1>2, <1>3, <1>5, <1>7, <1>8, <1>9, <2>3, <3>1 DEF GoodLog, Vector, Operation
    <3>3. o \in sync[q].ops \/ o.counter <= sync[q].delta_floor[o.peer]
      BY <1>14, <2>3, <3>2 DEF GoodLog
    <3> QED
      BY <1>8, <1>9, <3>3
  <2> QED
    BY <1>1, <2>1, <2>2, <2>3
<1>19. LeasedNeverRebased'
  <2> SUFFICES ASSUME NEW p \in Peers, NEW q \in Leased \ {p}
               PROVE  Covers(sync'[q].state_vector, sync'[p].delta_floor)
    BY DEF LeasedNeverRebased, RebaseRequired
  <2>1. q \in Peers
    BY LeasedAssumption
  <2>2. Covers(sync[q].state_vector, sync[p].delta_floor)
    BY DEF IInv, LeasedNeverRebased, RebaseRequired
  <2>3. /\ sync[q].state_vector \in Vector /\ sync'[q].state_vector \in Vector
        /\ sync[p].delta_floor \in Vector /\ sync'[p].delta_floor = sync[p].delta_floor
    BY <1>8, <1>9, <2>1 DEF IInv, TypeOK, Log
  <2> QED
    BY <1>15, <2>1, <2>2, <2>3 DEF Covers, Vector
<1>20. HistoryKept
  <2> SUFFICES ASSUME NEW q \in Peers
               PROVE  /\ Covers(sync'[q].delta_floor, sync[q].delta_floor)
                      /\ sync[q].ops \subseteq sync'[q].ops
    BY <1>15 DEF HistoryKept, Covers
  <2>1. /\ sync[q].delta_floor \in Vector /\ sync'[q].delta_floor = sync[q].delta_floor
        /\ sync[q].ops \subseteq sync'[q].ops
    BY <1>8, <1>9, <1>14 DEF GoodLog, Log
  <2> QED
    BY <2>1 DEF Vector, Covers
<1> QED
  BY <1>10, <1>12, <1>16, <1>17, <1>18, <1>19, <1>20 DEF IInv

\* Learning a peer's vector keeps the invariant.
LEMMA AcknowledgeStep ==
    ASSUME IInv, NEW r \in Peers, NEW q \in Peers, Acknowledge(q, r)
    PROVE  IInv' /\ HistoryKept
<1>1. /\ UNCHANGED <<sync, next_counter, issued>>
      /\ acked' = [acked EXCEPT ![r][q] = sync[q].state_vector]
  BY DEF Acknowledge
<1>2. sync[q].state_vector \in Vector
  BY DEF IInv, TypeOK, Log
<1>3. TypeOK'
  BY <1>1, <1>2 DEF IInv, TypeOK
<1>4. \A a, b \in Peers : Covers(sync[b].state_vector, acked'[a][b])
  <2> TAKE a, b \in Peers
  <2>1. acked'[a][b] = IF a = r /\ b = q THEN sync[q].state_vector ELSE acked[a][b]
    BY <1>1 DEF IInv, TypeOK
  <2>2. Covers(sync[b].state_vector, acked[a][b])
    BY DEF IInv, Frontiers
  <2> QED
    BY <1>2, <2>1, <2>2 DEF Covers, Vector
<1>5. Frontiers'
  BY <1>1, <1>4 DEF IInv, Frontiers
<1>6. HistoryKept
  BY <1>1 DEF IInv, TypeOK, Log, Vector, Covers, HistoryKept
<1> QED
  BY <1>1, <1>3, <1>5, <1>6
     DEF IInv, Allocation, QueuesConsistent, NoSilentGap, LeasedNeverRebased

-----------------------------------------------------------------------------
\* The empty logs satisfy the invariant.
LEMMA InitInv == Init => IInv
<1> SUFFICES ASSUME Init PROVE IInv
  OBVIOUS
<1>1. /\ ZeroVector \in Vector /\ \A p \in Peers : ZeroVector[p] = 0
      /\ Covers(ZeroVector, ZeroVector)
  BY SMTT(40) DEF ZeroVector, Vector, Covers
<1>2. /\ NewSync \in Log /\ NewSync.ops = {} /\ NewSync.pending = {}
      /\ NewSync.outbox = {} /\ NewSync.sent = {}
      /\ NewSync.state_vector = ZeroVector /\ NewSync.delta_floor = ZeroVector
  BY <1>1 DEF NewSync, Log
<1>3. TypeOK
  BY <1>1, <1>2 DEF Init, TypeOK
<1>4. Allocation /\ NoSilentGap
  BY DEF Init, Allocation, NoSilentGap
<1>5. Frontiers /\ QueuesConsistent
  BY <1>1, <1>2 DEF Init, Frontiers, QueuesConsistent
<1>6. LeasedNeverRebased
  BY <1>1, <1>2, LeasedAssumption DEF Init, LeasedNeverRebased, RebaseRequired
<1> QED
  BY <1>3, <1>4, <1>5, <1>6 DEF IInv

\* Every step keeps the invariant and the recorded history.
LEMMA NextInv == IInv /\ [Next]_vars => IInv' /\ HistoryKept
<1> SUFFICES ASSUME IInv, [Next]_vars PROVE IInv' /\ HistoryKept
  BY SMTT(40)
<1>1. CASE UNCHANGED vars
  BY <1>1 DEF vars, IInv, TypeOK, Allocation, Frontiers, QueuesConsistent,
              NoSilentGap, LeasedNeverRebased, HistoryKept, Log, Vector, Covers
<1>2. ASSUME NEW r \in Peers, NEW n \in 1 .. MaxSpan, LocalOp(r, n)
      PROVE  IInv' /\ HistoryKept
  BY <1>2, LocalOpStep
<1>3. ASSUME NEW r \in Peers, NEW op \in issued, Deliver(r, op)
      PROVE  IInv' /\ HistoryKept
  BY <1>3, DeliverStep
<1>4. ASSUME NEW r \in Peers, PromoteReadyPending(r)
      PROVE  IInv' /\ HistoryKept
  BY <1>4, PromoteStep
<1>5. ASSUME NEW r \in Peers, NEW op \in issued, Sent(r, op) \/ Confirmed(r, op)
      PROVE  IInv' /\ HistoryKept
  BY <1>5, SendStep
<1>6. ASSUME NEW r \in Peers, NEW q \in Leased \ {r}, Acknowledge(q, r)
      PROVE  IInv' /\ HistoryKept
  BY <1>6, AcknowledgeStep, LeasedAssumption
<1>7. ASSUME NEW r \in Peers, NEW m \in 0 .. MaxOps, Checkpoint(r, m)
      PROVE  IInv' /\ HistoryKept
  BY <1>7, CheckpointStep
<1> QED
  BY <1>1, <1>2, <1>3, <1>4, <1>5, <1>6, <1>7 DEF Next

\* Type correctness of the replicated logs.
THEOREM TypeCorrect == Spec => []TypeOK
<1>1. Spec => []IInv
  BY InitInv, NextInv, PTL DEF Spec
<1>2. IInv => TypeOK
  BY DEF IInv
<1> QED
  BY <1>1, <1>2, PTL

\* apply_one, promote_ready_pending and checkpoint never let the state vector
\* claim an operation that is neither in the log nor below the floor.
THEOREM NoGap == Spec => []NoSilentGap
<1>1. Spec => []IInv
  BY InitInv, NextInv, PTL DEF Spec
<1>2. IInv => NoSilentGap
  BY DEF IInv
<1> QED
  BY <1>1, <1>2, PTL

\* checkpoint never strands a peer whose lease the host holds, however stale
\* the acknowledgement it was given.
THEOREM LeasesHonoured == Spec => []LeasedNeverRebased
<1>1. Spec => []IInv
  BY InitInv, NextInv, PTL DEF Spec
<1>2. IInv => LeasedNeverRebased
  BY DEF IInv
<1> QED
  BY <1>1, <1>2, PTL

\* A delta that encode_changes_since does not refuse contains exactly what the
\* requester lacks and the sender has.
THEOREM DeltasExact == Spec => []DeltaExact
<1>1. Spec => []IInv
  BY InitInv, NextInv, PTL DEF Spec
<1>2. IInv => DeltaExact
  <2> SUFFICES ASSUME IInv, NEW r \in Peers, NEW q \in Peers,
                      Covers(sync[q].state_vector, sync[r].delta_floor)
               PROVE  EncodeChangesSince(sync[r], sync[q].state_vector) =
                        {o \in issued : /\ sync[q].state_vector[o.peer] < o.counter
                                        /\ o.counter <= sync[r].state_vector[o.peer]}
    BY DEF DeltaExact, RebaseRequired
  <2> DEFINE since == sync[q].state_vector
  <2>1. /\ since \in Vector /\ sync[r].delta_floor \in Vector
        /\ issued \subseteq Operation /\ sync[r].state_vector \in Vector
    BY DEF IInv, TypeOK, Log
  <2>2. GoodLog(r, sync[r])
    BY GoodLogs
  <2>3. ASSUME NEW o \in sync[r].ops, o.counter > since[o.peer]
        PROVE  /\ o \in issued /\ since[o.peer] < o.counter
               /\ o.counter <= sync[r].state_vector[o.peer]
    BY <2>1, <2>2, <2>3 DEF GoodLog, Operation, Vector
  <2>4. ASSUME NEW o \in issued, since[o.peer] < o.counter,
               o.counter <= sync[r].state_vector[o.peer]
        PROVE  o \in sync[r].ops /\ o.counter > since[o.peer]
    BY <2>1, <2>2, <2>4 DEF GoodLog, Operation, Vector, Covers
  <2> QED
    BY <2>3, <2>4 DEF EncodeChangesSince
<1> QED
  BY <1>1, <1>2, PTL

\* apply_one, promote_ready_pending, checkpoint and the send queues never move a
\* frontier or a floor backwards, and take nothing from the log that the floor does
\* not cover.
THEOREM HistoryNeverRewritten == Spec => HistoryMonotone
<1>1. Spec => []IInv
  BY InitInv, NextInv, PTL DEF Spec
<1>2. IInv /\ [Next]_vars => [HistoryKept]_vars
  BY NextInv
<1> QED
  BY <1>1, <1>2, PTL DEF Spec, HistoryMonotone

\* The whole inductive invariant: besides the theorems above, ids are allocated once
\* and the send queues hold only what the log still has.
THEOREM LogsConsistent == Spec => []IInv
BY InitInv, NextInv, PTL DEF Spec
=============================================================================
