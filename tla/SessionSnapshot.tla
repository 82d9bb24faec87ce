--------------------------- MODULE SessionSnapshot ---------------------------
(***************************************************************************)
(* Saving, restoring, rebasing and importing a session (save_snapshot ...   *)
(* import_state of src/session/mod.rs, src/session/snapshot.rs).  The       *)
(* document goes through its DTO unchanged; send queues are not saved.      *)
(***************************************************************************)
EXTENDS Session

\* Mutant of SaveSnapshot: deferred envelopes are not written.
SaveSnapshotWithoutDeferred(r, s) ==
    [peer |-> r, next_counter |-> s.next_counter, document |-> s.document,
     state_vector |-> s.sync.state_vector, delta_floor |-> s.sync.delta_floor,
     checkpoint_epoch |-> s.sync.checkpoint_epoch,
     ops |-> s.sync.ops, pending |-> s.sync.pending, deferred |-> {}]

\* save_snapshot of r's session.
SaveSnapshot(r, s) ==
    [peer |-> r, next_counter |-> s.next_counter, document |-> s.document,
     state_vector |-> s.sync.state_vector, delta_floor |-> s.sync.delta_floor,
     checkpoint_epoch |-> s.sync.checkpoint_epoch,
     ops |-> s.sync.ops, pending |-> s.sync.pending, deferred |-> Deferred(s)]

\* max_counter_for_peer: the ids of p in a log and in a document.  The walk
\* visits block elements and kind registers but no text units.
CountersOf(p, ops, d) ==
    {o.counter : o \in {x \in ops : x.peer = p}}
        \cup {b.counter : b \in {x \in d.elements : x.peer = p}}
        \cup {d.kind[b].counter : b \in {x \in Visible(d) : d.kind[x].peer = p}}

\* The counters restore_from_snapshot and rebind_peer take into account.
KnownCounters(p, ops, pending, d, sv, floor) ==
    CountersOf(p, ops, d) \cup {sv[p], floor[p]}
        \cup {o.counter : o \in {x \in pending : x.peer = p}}

\* restore_from_snapshot refuses a snapshot whose clock is behind.
Restorable(snap) ==
    snap.next_counter > Max(KnownCounters(snap.peer, snap.ops, snap.pending,
                                          snap.document, snap.state_vector, snap.delta_floor))

\* Mutant of RestoreFromSnapshot: the clock starts again.
RestoreFreshClock(snap) ==
    [sync |-> [ops |-> snap.ops, state_vector |-> snap.state_vector,
               pending |-> {o \in snap.pending : ~HasId(snap.ops, o)},
               outbox |-> {}, sent |-> {},
               checkpoint_epoch |-> snap.checkpoint_epoch, delta_floor |-> snap.delta_floor],
     next_counter |-> 1, document |-> snap.document, pending_envelopes |-> snap.deferred]

\* restore_from_snapshot: the same peer, its clock and its history.
RestoreFromSnapshot(snap) ==
    [sync |-> [ops |-> snap.ops, state_vector |-> snap.state_vector,
               pending |-> {o \in snap.pending : ~HasId(snap.ops, o)},
               outbox |-> {}, sent |-> {},
               checkpoint_epoch |-> snap.checkpoint_epoch, delta_floor |-> snap.delta_floor],
     next_counter |-> snap.next_counter, document |-> snap.document,
     pending_envelopes |-> snap.deferred]

\* Mutant of RebindPeer: the clock only looks at the log and the document.
RebindPeerByLog(s, p) ==
    [s EXCEPT !.next_counter = Max(CountersOf(p, s.sync.ops, s.document) \cup {0}) + 1]

RebindPeer(s, p) ==
    [s EXCEPT !.next_counter =
        Max(KnownCounters(p, s.sync.ops, s.sync.pending, s.document,
                          s.sync.state_vector, s.sync.delta_floor)) + 1]

\* rebase_from_snapshot: another replica's snapshot under the local identity.
RebaseFromSnapshot(snap, p) == RebindPeer(RestoreFromSnapshot(snap), p)

\* Mutant of ImportState: deferred envelopes are left behind.
ImportWithoutDeferred(snap, p) ==
    [sync |-> [ops |-> snap.ops, state_vector |-> Observe(ZeroVector, snap.ops),
               pending |-> {o \in snap.pending : ~HasId(snap.ops, o)},
               outbox |-> {}, sent |-> {},
               checkpoint_epoch |-> 0, delta_floor |-> ZeroVector],
     next_counter |-> Max(CountersOf(p, snap.ops \cup snap.pending, snap.document) \cup {0}) + 1,
     document |-> snap.document, pending_envelopes |-> {}]

\* import_state: late join.  The history is what the operations say.
ImportState(snap, p) ==
    [sync |-> [ops |-> snap.ops, state_vector |-> Observe(ZeroVector, snap.ops),
               pending |-> {o \in snap.pending : ~HasId(snap.ops, o)},
               outbox |-> {}, sent |-> {},
               checkpoint_epoch |-> 0, delta_floor |-> ZeroVector],
     next_counter |-> Max(CountersOf(p, snap.ops \cup snap.pending, snap.document) \cup {0}) + 1,
     document |-> snap.document,
     pending_envelopes |-> snap.deferred]
=============================================================================
