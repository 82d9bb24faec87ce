----------------------------- MODULE DurableCell -----------------------------
(***************************************************************************)
(* What a crash-safe store promises: it holds one snapshot.  A write offers *)
(* a snapshot, which becomes the stored one at a single instant, either     *)
(* when the write is acknowledged or, unacknowledged, at a crash.  The      *)
(* stored snapshot is never a mixture, never goes back, and never goes away,*)
(* for as long as nothing is damaged at rest.                               *)
(***************************************************************************)
EXTENDS Naturals

CONSTANT Payloads

VARIABLES
    stored,     \* what a read after a crash returns
    offered,    \* the snapshot of the last write that was started
    acked,      \* the last snapshot whose write returned Ok
    damaged     \* something was damaged at rest: no promise from then on

cell == <<stored, offered, acked, damaged>>

\* Snapshots are numbered in the order their writes start; 0 is no snapshot.
Snapshot == [write : Nat, payload : Payloads \cup {0}]
NoSnapshot == [write |-> 0, payload |-> 0]

CellInit ==
    /\ stored = NoSnapshot /\ offered = NoSnapshot /\ acked = NoSnapshot
    /\ damaged = FALSE

Offer ==
    /\ \E p \in Payloads :
          offered' = [write |-> offered.write + 1, payload |-> p]
    /\ UNCHANGED <<stored, acked, damaged>>

Acknowledge == stored' = offered /\ acked' = offered /\ UNCHANGED <<offered, damaged>>

Survive == stored' = offered /\ UNCHANGED <<offered, acked, damaged>>

CellNext == Offer \/ Acknowledge \/ Survive \/ damaged' = TRUE

CellSpec == CellInit /\ [][CellNext]_cell
=============================================================================
