------------------------------- MODULE SyncLog -------------------------------
(***************************************************************************)
(* The operation log one replica keeps (struct SyncState of                 *)
(* src/sync/mod.rs), as a record and one operator per method.  Modules that *)
(* need a replica's log hold such a record in a variable.                   *)
(*                                                                         *)
(* An operation is a record with at least the fields                        *)
(*   peer, counter   its OpId; a multi-id operation is named by the LAST    *)
(*                   counter it allocates;                                  *)
(*   span            how many consecutive counters it allocates.            *)
(* Payload bytes never influence the log and are left out; modules that     *)
(* need them add fields.                                                    *)
(***************************************************************************)
EXTENDS Naturals, FiniteSets

CONSTANT Peers          \* PeerId is a u64, and ids of equal counter compare by peer

ASSUME PeersAssumption == Peers \subseteq Nat

Vector == [Peers -> Nat]

\* StateVector::new(): a peer that is absent reads as 0.
ZeroVector == [p \in Peers |-> 0]

Covers(v, w) == \A p \in Peers : w[p] <= v[p]

\* Derived order of OpId: counter first, then peer.
OpIdLess(a, b) ==
    \/ a.counter < b.counter
    \/ a.counter = b.counter /\ a.peer < b.peer

SameId(a, b) == a.peer = b.peer /\ a.counter = b.counter

HasId(set, op) == \E o \in set : SameId(o, op)

\* BTreeMap::insert: an entry with the same id is replaced.
Put(set, op) == {o \in set : ~SameId(o, op)} \cup {op}

\* The counters of p that S reaches when the vector v is already reached.
Reached(v, S, p) == {v[p]} \cup {o.counter : o \in {x \in S : x.peer = p}}

\* observe() for every operation of S: each entry rises to the largest counter.
Observe(v, S) ==
    [p \in Peers |-> CHOOSE m \in Reached(v, S, p) :
                        \A n \in Reached(v, S, p) : n <= m]

\* Mutant of SpanStart: the subtraction forgets that the last counter is in
\* the span.
SpanStartOffByOne(op) == IF op.counter < op.span THEN 0 ELSE op.counter - op.span

\* SyncState::span_start, with its saturating subtraction.
SpanStart(op) == IF op.counter < op.span THEN 0 ELSE op.counter - op.span + 1

\* The causal gate of apply_one and promote_ready_pending: the operation's
\* first counter is at most one past the frontier of its peer.
Ready(v, op) == SpanStart(op) <= v[op.peer] + 1

-----------------------------------------------------------------------------
NewSync ==
    [ops |-> {}, state_vector |-> ZeroVector, pending |-> {}, outbox |-> {},
     sent |-> {}, checkpoint_epoch |-> 0, delta_floor |-> ZeroVector]

\* Mutant of ApplyOne: the causal gate is dropped, everything is integrated.
ApplyOneNoGate(s, op) ==
    IF HasId(s.ops, op) \/ HasId(s.pending, op)
    THEN s
    ELSE [s EXCEPT !.ops = Put(@, op), !.state_vector = Observe(@, {op})]

\* SyncState::apply_one: known operations change nothing, operations past a
\* gap are buffered, the rest enter the log and advance the frontier.
ApplyOne(s, op) ==
    IF HasId(s.ops, op) \/ HasId(s.pending, op)
    THEN s
    ELSE IF ~Ready(s.state_vector, op)
         THEN [s EXCEPT !.pending = Put(@, op)]
         ELSE [s EXCEPT !.ops = Put(@, op),
                        !.state_vector = Observe(@, {op})]

\* Mutant of Promotion: the loop promotes what is ready and does not look
\* again (made_progress ignored).
PromotionOnePass(s) ==
    {{o \in s.pending : Ready(s.state_vector, o)}}

\* The set promote_ready_pending moves into the log: the least set closed
\* under "ready once the operations promoted before it are observed".  Each
\* member is ready at once or follows a member that starts earlier, and
\* nothing that stays behind is ready.
Promotion(s) ==
    {S \in SUBSET s.pending :
        /\ \A o \in S :
              \/ Ready(s.state_vector, o)
              \/ \E d \in S : /\ d.peer = o.peer
                              /\ SpanStart(d) < SpanStart(o)
                              /\ SpanStart(o) <= d.counter + 1
        /\ \A o \in s.pending \ S : ~Ready(Observe(s.state_vector, S), o)}

\* SyncState::promote_ready_pending, for S \in Promotion(s).
Promote(s, S) ==
    [s EXCEPT !.ops = {o \in @ : ~HasId(S, o)} \cup S,
              !.pending = @ \ S,
              !.state_vector = Observe(@, S)]

\* SyncState::add_local_op.
AddLocalOp(s, op) ==
    [s EXCEPT !.ops = Put(@, op),
              !.state_vector = Observe(@, {op}),
              !.outbox = Put(@, op)]

\* SyncState::mark_sent and mark_confirmed: ids that are not in the set the
\* method drains are ignored.
MarkSent(s, S) ==
    [s EXCEPT !.outbox = @ \ S, !.sent = @ \cup (s.outbox \cap S)]

MarkConfirmed(s, S) == [s EXCEPT !.sent = @ \ S]

-----------------------------------------------------------------------------
\* SyncState::encode_changes_since answers RebaseRequired exactly when the
\* requester has not seen everything below the floor.
RebaseRequired(s, since) == ~Covers(since, s.delta_floor)

\* Mutant of EncodeChangesSince: off by one, >= instead of >.
EncodeInclusive(s, since) == {o \in s.ops : o.counter >= since[o.peer]}

\* The operations of the delta, sent in OpId order.
EncodeChangesSince(s, since) == {o \in s.ops : o.counter > since[o.peer]}

\* The operations every active lease acknowledged; leases maps a leased peer to
\* its acknowledged vector (a second lease of a peer is refused up front).
Eligible(s, leases) ==
    {o \in s.ops : \A q \in DOMAIN leases : o.counter <= leases[q][o.peer]}

RequiredPrune(s, maxRetained) ==
    IF Cardinality(s.ops) > maxRetained
    THEN Cardinality(s.ops) - maxRetained ELSE 0

\* The sets checkpoint may prune: the first RequiredPrune eligible operations
\* in OpId order.  Empty when retention is blocked, otherwise one set.
Prunable(s, leases, maxRetained) ==
    {P \in SUBSET Eligible(s, leases) :
        /\ Cardinality(P) = RequiredPrune(s, maxRetained)
        /\ \A a \in P, b \in Eligible(s, leases) \ P : OpIdLess(a, b)}

\* Mutant of Prune: the floor is not advanced.
PruneKeepsFloor(s, P) ==
    [s EXCEPT !.ops = @ \ P, !.outbox = @ \ P, !.sent = @ \ P,
              !.checkpoint_epoch = @ + 1]

\* The mutation of a successful, non-trivial SyncState::checkpoint.
Prune(s, P) ==
    [s EXCEPT !.ops = @ \ P,
              !.outbox = @ \ P,
              !.sent = @ \ P,
              !.checkpoint_epoch = @ + 1,
              !.delta_floor = Observe(@, P)]
=============================================================================
