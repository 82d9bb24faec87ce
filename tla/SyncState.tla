------------------------------ MODULE SyncState ------------------------------
(***************************************************************************)
(* Replicas exchanging operations through their logs (src/sync/mod.rs).     *)
(*                                                                         *)
(* Every peer issues operations with its own clock, hands them to any other *)
(* peer in any order and any number of times (a delta may be lost, repeated *)
(* or overtaken, so delivery picks any operation ever issued), buffers what *)
(* arrives past a gap, and compacts its log.  The methods are the atomic    *)
(* steps: each takes &mut self.                                             *)
(*                                                                         *)
(* Leased is the set of peers the hosts hold a lease for; the others may be *)
(* left behind by a checkpoint and then need a rebase.                      *)
(***************************************************************************)
EXTENDS SyncLog

CONSTANTS Leased, MaxOps, MaxCounter, MaxSpan, MaxEpoch

ASSUME LeasedAssumption == Leased \subseteq Peers
ASSUME BoundsAssumption ==
    MaxOps \in Nat /\ MaxCounter \in Nat /\ MaxSpan \in Nat \ {0} /\ MaxEpoch \in Nat

VARIABLES
    sync,           \* sync[r]: the log of replica r
    next_counter,   \* next_counter[r]: the session clock that stamps r's operations
    issued,         \* every operation ever created (history)
    acked           \* acked[r][q]: the vector q last reported to r's host (external)

vars == <<sync, next_counter, issued, acked>>

Operation ==
    [peer : Peers, counter : Nat \ {0}, span : Nat \ {0}]

Log == [ops : SUBSET Operation, state_vector : Vector,
        pending : SUBSET Operation, outbox : SUBSET Operation,
        sent : SUBSET Operation, checkpoint_epoch : Nat, delta_floor : Vector]

Init ==
    /\ sync = [r \in Peers |-> NewSync]
    /\ next_counter = [r \in Peers |-> 1]
    /\ issued = {}
    /\ acked = [r \in Peers |-> [q \in Peers |-> ZeroVector]]

\* A local edit allocates n consecutive counters and commits one operation
\* named by the last (session commit_single_id / insert_text, add_local_op).
LocalOp(r, n) ==
    LET op == [peer |-> r, counter |-> next_counter[r] + n - 1, span |-> n]
    IN  /\ Cardinality(issued) < MaxOps
        /\ op.counter <= MaxCounter
        /\ sync' = [sync EXCEPT ![r] = AddLocalOp(@, op)]
        /\ next_counter' = [next_counter EXCEPT ![r] = op.counter + 1]
        /\ issued' = issued \cup {op}
        /\ UNCHANGED acked

Deliver(r, op) ==
    /\ sync' = [sync EXCEPT ![r] = ApplyOne(@, op)]
    /\ UNCHANGED <<next_counter, issued, acked>>

PromoteReadyPending(r) ==
    /\ \E S \in Promotion(sync[r]) :
          sync' = [sync EXCEPT ![r] = Promote(@, S)]
    /\ UNCHANGED <<next_counter, issued, acked>>

Sent(r, op) ==
    /\ op \in sync[r].outbox
    /\ sync' = [sync EXCEPT ![r] = MarkSent(@, {op})]
    /\ UNCHANGED <<next_counter, issued, acked>>

Confirmed(r, op) ==
    /\ op \in sync[r].sent
    /\ sync' = [sync EXCEPT ![r] = MarkConfirmed(@, {op})]
    /\ UNCHANGED <<next_counter, issued, acked>>

\* External: the host of r learns what q has integrated.
Acknowledge(q, r) ==
    /\ acked' = [acked EXCEPT ![r][q] = sync[q].state_vector]
    /\ UNCHANGED <<sync, next_counter, issued>>

\* Mutant of LeasesOf: the host's leases are ignored.
LeasesDropped(r) == [q \in {} |-> ZeroVector]

\* The active_peer_leases of a checkpoint request at r: the acknowledgements
\* its host holds, however old.
LeasesOf(r) == [q \in Leased \ {r} |-> acked[r][q]]

\* checkpoint(): an unsafe retention target (RetentionBlocked) and a full
\* epoch (EpochOverflow) are refused without effect, a log within the target
\* is left alone.
Checkpoint(r, maxRetained) ==
    /\ RequiredPrune(sync[r], maxRetained) > 0
    /\ sync[r].checkpoint_epoch < MaxEpoch
    /\ \E P \in Prunable(sync[r], LeasesOf(r), maxRetained) :
          sync' = [sync EXCEPT ![r] = Prune(@, P)]
    /\ UNCHANGED <<next_counter, issued, acked>>

Next ==
    \E r \in Peers :
        \/ \E n \in 1 .. MaxSpan : LocalOp(r, n)
        \/ \E op \in issued : Deliver(r, op)
        \/ PromoteReadyPending(r)
        \/ \E op \in issued : Sent(r, op) \/ Confirmed(r, op)
        \/ \E q \in Leased \ {r} : Acknowledge(q, r)
        \/ \E m \in 0 .. MaxOps : Checkpoint(r, m)

Spec == Init /\ [][Next]_vars

-----------------------------------------------------------------------------
TypeOK ==
    /\ sync \in [Peers -> Log]
    /\ next_counter \in [Peers -> Nat \ {0}]
    /\ issued \in SUBSET Operation
    /\ acked \in [Peers -> [Peers -> Vector]]

\* The state vector never claims an operation the replica does not have: every
\* issued operation at or below the frontier is in the log, or was pruned and
\* is below the delta floor.  Buffering past a gap (apply_one), promotion and
\* checkpointing must all respect it; one operation skipped here would never
\* be asked for again.
NoSilentGap ==
    \A r \in Peers : \A o \in issued :
        o.counter <= sync[r].state_vector[o.peer] =>
            o \in sync[r].ops \/ o.counter <= sync[r].delta_floor[o.peer]

\* encode_changes_since is complete and exact: unless it answers
\* RebaseRequired, the delta for q's vector is precisely the operations r has
\* integrated and q has not, so q misses nothing and receives nothing twice.
DeltaExact ==
    \A r, q \in Peers :
        LET since == sync[q].state_vector
        IN  ~RebaseRequired(sync[r], since) =>
                EncodeChangesSince(sync[r], since) =
                    {o \in issued : /\ since[o.peer] < o.counter
                                    /\ o.counter <= sync[r].state_vector[o.peer]}

\* A peer whose lease is always renewed can always be served a delta: no
\* checkpoint anywhere ever raises a floor past what that peer integrated
\* ("Compact applied history without silently invalidating an active peer
\* lease", checkpoint in src/sync/mod.rs), however stale the acknowledgement.
LeasedNeverRebased ==
    \A r \in Peers : \A q \in Leased \ {r} :
        ~RebaseRequired(sync[r], sync[q].state_vector)

\* The log, the causal buffer and the send queues describe the same
\* operations: nothing is both integrated and buffered, everything integrated
\* is below the frontier, and what still waits to be sent or confirmed is the
\* replica's own and still in its log, so outbox() always finds its payload.
QueuesConsistent ==
    \A r \in Peers :
        LET s == sync[r]
        IN  /\ s.ops \cap s.pending = {}
            /\ s.outbox \cap s.sent = {}
            /\ s.outbox \cup s.sent \subseteq {o \in s.ops : o.peer = r}
            /\ \A o \in s.ops : o.counter <= s.state_vector[o.peer]

\* What the invariants above rest on.  Peers allocate counters in order and in
\* disjoint ranges, so an operation is named once;
Allocation ==
    /\ \A o \in issued : o.span <= o.counter /\ o.counter < next_counter[o.peer]
    /\ \A a, b \in issued : a.peer = b.peer =>
          /\ a.counter = b.counter => a = b
          /\ a.counter < b.counter => a.counter < SpanStart(b)

\* logs hold issued operations only; a replica's own clock is exactly one past
\* its own frontier and ahead of everybody's; floors stay below frontiers, and
\* acknowledgements are never ahead of the peer that gave them.
Frontiers ==
    \A r \in Peers :
        /\ sync[r].ops \subseteq issued /\ sync[r].pending \subseteq issued
        /\ next_counter[r] = sync[r].state_vector[r] + 1
        /\ \A p \in Peers : sync[r].state_vector[p] < next_counter[p]
        /\ Covers(sync[r].state_vector, sync[r].delta_floor)
        /\ \A q \in Peers : Covers(sync[q].state_vector, acked[r][q])

\* The inductive invariant of the proofs in SyncStateProofs.
IInv ==
    /\ TypeOK
    /\ Allocation
    /\ Frontiers
    /\ QueuesConsistent
    /\ NoSilentGap
    /\ LeasedNeverRebased

\* Frontiers and floors never move backwards, and an operation leaves the log
\* only by being covered by the new floor.
HistoryKept ==
    \A r \in Peers :
        /\ Covers(sync'[r].state_vector, sync[r].state_vector)
        /\ Covers(sync'[r].delta_floor, sync[r].delta_floor)
        /\ \A o \in sync[r].ops \ sync'[r].ops :
              o.counter <= sync'[r].delta_floor[o.peer]
HistoryMonotone == [][HistoryKept]_vars
=============================================================================
