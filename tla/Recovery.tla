------------------------------ MODULE Recovery ------------------------------
(***************************************************************************)
(* Sessions that are persisted, compacted and restarted.  The vault session *)
(* (src/filesync/session.rs) changes a session in memory and then saves its *)
(* snapshot, in one exclusive call: with_local_edit, apply_remote.  A crash *)
(* in between loses the change; a failed save returns an error and keeps    *)
(* the change in memory.  A host may compact the log (checkpoint_history),  *)
(* install another replica's snapshot when it is told to rebase, and let a  *)
(* new peer join from one.  Saving is one step: Storage shows it is atomic. *)
(***************************************************************************)
EXTENDS Collaboration, SessionSnapshot

\* A deployment also says what besides editing and exchange happens (features),
\* how many crashes and how many checkpoints of one replica.  Without "vault"
\* nothing is saved.
ASSUME RecoveryAssumption ==
    \A d \in Deployments :
        /\ d.features \subseteq {"vault", "save_fails", "checkpoint", "rebase", "import"}
        /\ d.maxCrashes \in Nat /\ d.maxCheckpoints \in Nat

VARIABLES
    saved,          \* saved[r]: the snapshot a restart loads
    saving,         \* saving[r]: r's call has changed memory and is about to save
    crashes

rvars == <<deployment, session, issued, saved, saving, crashes>>

RInit ==
    /\ Init
    /\ saved = [r \in Peers |-> SaveSnapshot(r, NewSession)]
    /\ saving = [r \in Peers |-> FALSE]
    /\ crashes = 0

Begin(r) ==
    /\ ~saving[r]
    /\ saving' = [saving EXCEPT ![r] = "vault" \in deployment.features]
    /\ UNCHANGED <<saved, crashes>>

LocalEdit(r, kind, target) == Begin(r) /\ Edit(r, kind, target)

\* A delta of q, or one operation of its log, reaches r.
Exchange(r, q) ==
    /\ ~saving[q]
    /\ Begin(r)
    /\ \/ ~RebaseRequired(session[q].sync, session[r].sync.state_vector) /\ Pull(r, q)
       \/ \E op \in session[q].sync.ops : Deliver(r, op)

\* checkpoint_history of everything beyond maxRetained, no lease held.
CheckpointHistory(r, maxRetained) ==
    /\ "checkpoint" \in deployment.features
    /\ Begin(r)
    /\ session[r].sync.checkpoint_epoch < deployment.maxCheckpoints
    /\ RequiredPrune(session[r].sync, maxRetained) > 0
    /\ \E P \in Prunable(session[r].sync, [q \in {} |-> ZeroVector], maxRetained) :
          session' = [session EXCEPT ![r].sync = Prune(@, P)]
    /\ UNCHANGED <<deployment, issued>>

\* sync_since answers with a snapshot and r installs it.
Rebase(r, q) ==
    /\ "rebase" \in deployment.features
    /\ ~saving[q]
    /\ Begin(r)
    /\ RebaseRequired(session[q].sync, session[r].sync.state_vector)
    /\ Restorable(SaveSnapshot(q, session[q]))
    /\ session' = [session EXCEPT ![r] = RebaseFromSnapshot(SaveSnapshot(q, session[q]), r)]
    /\ UNCHANGED <<deployment, issued>>

\* A peer that has done nothing yet joins from q's state.
Join(r, q) ==
    /\ "import" \in deployment.features
    /\ ~saving[q]
    /\ session[r] = NewSession
    /\ Begin(r)
    /\ session' = [session EXCEPT ![r] = ImportState(SaveSnapshot(q, session[q]), r)]
    /\ UNCHANGED <<deployment, issued>>

SaveState(r) ==
    /\ saving[r]
    /\ saving' = [saving EXCEPT ![r] = FALSE]
    /\ saved' = [saved EXCEPT ![r] = SaveSnapshot(r, session[r])]
    /\ UNCHANGED <<deployment, session, issued, crashes>>

SaveFails(r) ==
    /\ "save_fails" \in deployment.features
    /\ saving[r]
    /\ saving' = [saving EXCEPT ![r] = FALSE]
    /\ UNCHANGED <<deployment, session, issued, saved, crashes>>

\* The process dies and load_or_create_session restores what was saved.
Restart(r) ==
    /\ crashes < deployment.maxCrashes
    /\ Restorable(saved[r])
    /\ session' = [session EXCEPT ![r] = RestoreFromSnapshot(saved[r])]
    /\ saving' = [saving EXCEPT ![r] = FALSE]
    /\ crashes' = crashes + 1
    /\ UNCHANGED <<deployment, issued, saved>>

RNext ==
    \E r \in deployment.peers :
        \/ \E kind \in deployment.kinds, target \in Targets(r) : LocalEdit(r, kind, target)
        \/ \E q \in deployment.peers \ {r} : Exchange(r, q) \/ Rebase(r, q) \/ Join(r, q)
        \/ \E m \in 0 .. deployment.maxOps : CheckpointHistory(r, m)
        \/ SaveState(r)
        \/ SaveFails(r)
        \/ Restart(r)

RSpec == RInit /\ [][RNext]_rvars

-----------------------------------------------------------------------------
\* What a replica has received, integrated or buffered.
Known(r) == session[r].sync.ops \cup session[r].sync.pending

\* An id names one operation for every replica ("Unique operation identifiers",
\* src/core/mod.rs:6), across crashes: next_counter is restored past every id
\* that was handed out.
IdsUnique ==
    \A r, q \in Peers : \A a \in Known(r), b \in Known(q) : SameId(a, b) => a = b

\* The clock stays ahead of the replica's own frontier, so that the snapshot it
\* saves can be restored (SnapshotError::ClockBehind) and no id is handed out
\* again.
ClockAhead ==
    \A r \in Peers : session[r].next_counter > session[r].sync.state_vector[r]

\* A state vector never claims what the replica does not have: what is known
\* anywhere and below r's frontier is in r's log or below its floor.
NoGapAfterRecovery ==
    \A r, q \in Peers : \A o \in session[q].sync.ops :
        o.counter <= session[r].sync.state_vector[o.peer] =>
            \/ HasId(session[r].sync.ops, o)
            \/ o.counter <= session[r].sync.delta_floor[o.peer]

\* A restart is invisible: the session a saved snapshot restores to treats any
\* operation that arrives next exactly as the session that was saved, causal
\* buffer and deferred envelopes included.
Observable(s) ==
    [document |-> s.document, ops |-> s.sync.ops, pending |-> s.sync.pending,
     vector |-> s.sync.state_vector, clock |-> s.next_counter, deferred |-> Deferred(s)]
RestartInvisible ==
    \A r \in Peers :
        LET restored == RestoreFromSnapshot(SaveSnapshot(r, session[r]))
        IN  \A op \in issued :
               Observable(ApplyRemote(restored, {op})) = Observable(ApplyRemote(session[r], {op}))
=============================================================================
