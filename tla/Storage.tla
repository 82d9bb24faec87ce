------------------------------- MODULE Storage -------------------------------
(***************************************************************************)
(* The snapshot container of src/storage/mod.rs: two slots, each a segment  *)
(* (the payload) and a superblock (generation, checksum and length of the   *)
(* segment, pending operations).  A write replaces the slot of the lower    *)
(* generation, segment first; a read takes the newest slot whose segment    *)
(* matches its superblock.                                                  *)
(*                                                                         *)
(* atomic_write_durable syncs the file, renames it and syncs the directory. *)
(* Until the directory is synced a rename is visible but may be undone by a *)
(* crash, independently for each name.  A checksum is modelled by the       *)
(* payload it was computed from; equal payloads have equal checksums.       *)
(***************************************************************************)
EXTENDS Naturals, FiniteSets

CONSTANTS Payloads, Torn, MaxWrites, MaxGeneration, MaxCorruptions, Corruptible

ASSUME PayloadsAssumption == Payloads \subseteq Nat \ {0} /\ Torn \notin Nat
ASSUME StorageBoundsAssumption ==
    MaxWrites \in Nat /\ MaxGeneration \in Nat /\ MaxCorruptions \in Nat

ASSUME CorruptibleAssumption == Corruptible \subseteq {"segment", "superblock"}

VARIABLES
    vseg, vsup,     \* the files as every process sees them
    dseg, dsup,     \* the files a crash would leave
    writer,         \* the write_snapshot in progress
    offered,        \* the last snapshot a write was started for (history)
    acked,          \* the last snapshot whose write returned Ok (history)
    corruptions

vars == <<vseg, vsup, dseg, dsup, writer, offered, acked, corruptions>>

Slots == {"a", "b"}

\* A missing or undecodable superblock reads as generation 0.
Superblock == [generation : Nat, checksum : Payloads \cup {0}, write : Nat]
NoSuperblock == [generation |-> 0, checksum |-> 0, write |-> 0]

\* A missing segment is 0, a damaged one matches no checksum.
Segment == Payloads \cup {0, Torn}

Snapshot == [write : Nat, payload : Payloads \cup {0}]
NoSnapshot == [write |-> 0, payload |-> 0]

Writer == [pc : {"idle", "sync_segment", "superblock", "sync_superblock"},
           slot : Slots, generation : Nat]

Other(s) == IF s = "a" THEN "b" ELSE "a"

-----------------------------------------------------------------------------
\* The slot passes the checks of read_snapshot.
Valid(seg, sup, s) == sup[s].generation > 0 /\ seg[s] = sup[s].checksum

\* read_snapshot: the newest valid slot; NoSnapshot stands for its errors.
Read(seg, sup) ==
    LET newest == {s \in Slots : /\ Valid(seg, sup, s)
                                 /\ Valid(seg, sup, Other(s)) =>
                                       sup[Other(s)].generation < sup[s].generation}
        s == CHOOSE s \in newest : TRUE
    IN  IF newest = {} THEN NoSnapshot
        ELSE [write |-> sup[s].write, payload |-> seg[s]]

MaxGen(sup) ==
    IF sup["a"].generation < sup["b"].generation
    THEN sup["b"].generation ELSE sup["a"].generation

\* Mutant of Target: the slot of the higher generation.
TargetNewest(sup) == IF sup["b"].generation > sup["a"].generation THEN "b" ELSE "a"

\* The slot write_snapshot replaces: the lower generation, the first on a tie.
Target(sup) == IF sup["b"].generation < sup["a"].generation THEN "b" ELSE "a"

-----------------------------------------------------------------------------
Init ==
    /\ vseg = [s \in Slots |-> 0] /\ vsup = [s \in Slots |-> NoSuperblock]
    /\ dseg = vseg /\ dsup = vsup
    /\ writer = [pc |-> "idle", slot |-> "a", generation |-> 0]
    /\ offered = NoSnapshot /\ acked = NoSnapshot
    /\ corruptions = 0

\* write_snapshot up to the rename of the segment.
WriteSegment(p) ==
    /\ writer.pc = "idle"
    /\ offered.write < MaxWrites
    /\ writer' = [pc |-> "sync_segment", slot |-> Target(vsup),
                  generation |-> MaxGen(vsup)]
    /\ vseg' = [vseg EXCEPT ![Target(vsup)] = p]
    /\ offered' = [write |-> offered.write + 1, payload |-> p]
    /\ UNCHANGED <<vsup, dseg, dsup, acked, corruptions>>

\* Mutant of SyncSegment: the directory is synced once, after the superblock.
SyncSegmentSkipped ==
    /\ writer.pc = "sync_segment"
    /\ writer.generation < MaxGeneration
    /\ writer' = [pc |-> "superblock", slot |-> writer.slot,
                  generation |-> writer.generation + 1]
    /\ UNCHANGED <<vseg, vsup, dseg, dsup, offered, acked, corruptions>>

\* The directory sync after the segment; a generation counter at its limit
\* makes write_snapshot fail here, the segment already replaced.
SyncSegment ==
    /\ writer.pc = "sync_segment"
    /\ writer' = IF writer.generation < MaxGeneration
                 THEN [pc |-> "superblock", slot |-> writer.slot,
                       generation |-> writer.generation + 1]
                 ELSE [pc |-> "idle", slot |-> writer.slot, generation |-> 0]
    /\ dseg' = vseg /\ dsup' = vsup
    /\ UNCHANGED <<vseg, vsup, offered, acked, corruptions>>

WriteSuperblock ==
    /\ writer.pc = "superblock"
    /\ writer' = [pc |-> "sync_superblock", slot |-> writer.slot,
                  generation |-> writer.generation]
    /\ vsup' = [vsup EXCEPT ![writer.slot] =
                   [generation |-> writer.generation,
                    checksum |-> offered.payload, write |-> offered.write]]
    /\ UNCHANGED <<vseg, dseg, dsup, offered, acked, corruptions>>

\* The directory sync after the superblock; write_snapshot returns Ok.
SyncSuperblock ==
    /\ writer.pc = "sync_superblock"
    /\ writer' = [pc |-> "idle", slot |-> writer.slot, generation |-> 0]
    /\ dseg' = vseg /\ dsup' = vsup
    /\ acked' = offered
    /\ UNCHANGED <<vseg, vsup, offered, corruptions>>

\* An I/O error before the superblock's rename: write_snapshot returns it and
\* the segment stays replaced.
FailSuperblock ==
    /\ writer.pc = "superblock"
    /\ writer' = [pc |-> "idle", slot |-> writer.slot, generation |-> 0]
    /\ UNCHANGED <<vseg, vsup, dseg, dsup, offered, acked, corruptions>>

\* External: power loss.  Of the names renamed since the last directory sync,
\* any may be back to what they were.
Crash(lostseg, lostsup) ==
    /\ \A s \in lostseg : vseg[s] # dseg[s]
    /\ \A s \in lostsup : vsup[s] # dsup[s]
    /\ dseg' = [s \in Slots |-> IF s \in lostseg THEN dseg[s] ELSE vseg[s]]
    /\ dsup' = [s \in Slots |-> IF s \in lostsup THEN dsup[s] ELSE vsup[s]]
    /\ vseg' = dseg' /\ vsup' = dsup'
    /\ writer' = [pc |-> "idle", slot |-> writer.slot, generation |-> 0]
    /\ UNCHANGED <<offered, acked, corruptions>>

\* External: a file is damaged at rest.
Corrupt(file, s) ==
    /\ corruptions < MaxCorruptions
    /\ writer.pc = "idle"
    /\ Valid(vseg, vsup, s)
    /\ file = "segment" =>
          /\ vseg' = [vseg EXCEPT ![s] = Torn] /\ dseg' = [dseg EXCEPT ![s] = Torn]
          /\ UNCHANGED <<vsup, dsup>>
    /\ file = "superblock" =>
          /\ vsup' = [vsup EXCEPT ![s] = NoSuperblock]
          /\ dsup' = [dsup EXCEPT ![s] = NoSuperblock]
          /\ UNCHANGED <<vseg, dseg>>
    /\ corruptions' = corruptions + 1
    /\ UNCHANGED <<writer, offered, acked>>

Next ==
    \/ \E p \in Payloads : WriteSegment(p)
    \/ SyncSegment
    \/ WriteSuperblock
    \/ SyncSuperblock
    \/ FailSuperblock
    \/ \E lostseg, lostsup \in SUBSET Slots : Crash(lostseg, lostsup)
    \/ \E file \in Corruptible, s \in Slots : Corrupt(file, s)

Spec == Init /\ [][Next]_vars

-----------------------------------------------------------------------------
TypeOK ==
    /\ vseg \in [Slots -> Segment] /\ dseg \in [Slots -> Segment]
    /\ vsup \in [Slots -> Superblock] /\ dsup \in [Slots -> Superblock]
    /\ writer \in Writer
    /\ offered \in Snapshot /\ acked \in Snapshot
    /\ corruptions \in Nat

\* Until a file is damaged the two slots implement one durable cell: whatever
\* the moment of a crash, a read returns the snapshot of one whole write, the
\* last acknowledged one or the one in progress, and never an older one.
Cell == INSTANCE DurableCell
            WITH stored <- Read(dseg, dsup), damaged <- corruptions > 0
CrashSafe == Cell!CellSpec

\* A write never starts by overwriting the only readable snapshot ("never the
\* sole surviving good slot - otherwise the only readable fallback is
\* destroyed", src/storage/mod.rs:554).
SoleGoodSlotSpared ==
    [][\A s \in Slots :
          (/\ Valid(vseg, vsup, s) /\ ~Valid(vseg, vsup, Other(s))
           /\ offered' # offered)
              => vseg'[s] = vseg[s]]_vars

\* The slots alternate.  The slot a write replaces is the older one; the other
\* is readable as soon as anything was ever published, in the files a crash
\* would leave; what the directory has not been told yet is confined to the
\* slot being written.
Alternation ==
    LET t == IF writer.pc = "idle" THEN Target(dsup) ELSE writer.slot
        o == Other(t)
    IN  /\ t = Target(dsup)
        /\ \/ dsup[t].generation < dsup[o].generation /\ Valid(dseg, dsup, o)
           \/ dsup[t].generation = 0 /\ dsup[o].generation = 0
        /\ vseg[o] = dseg[o] /\ vsup[o] = dsup[o]
        /\ writer.pc # "sync_segment" => vseg[t] = dseg[t]
        /\ writer.pc # "sync_superblock" => vsup[t] = dsup[t]
        /\ writer.pc = "sync_segment" => writer.generation = MaxGen(dsup)
        /\ writer.pc \in {"superblock", "sync_superblock"} =>
              writer.generation = MaxGen(dsup) + 1
        /\ writer.pc # "idle" => vseg[t] = offered.payload
        /\ writer.pc = "sync_superblock" =>
              vsup[t] = [generation |-> writer.generation,
                         checksum |-> offered.payload, write |-> offered.write]

\* What holds in spite of damaged superblocks: two published slots have different
\* generations, and a slot whose segment does not match its superblock is the
\* older of the two, or the other superblock is gone.
Ranked(seg, sup) ==
    \A s \in Slots :
        sup[s].generation > 0 =>
            /\ sup[s].generation # sup[Other(s)].generation
            /\ \/ Valid(seg, sup, s)
               \/ sup[s].generation < sup[Other(s)].generation
               \/ sup[Other(s)].generation = 0

\* The files stay ranked, as they are and as a crash would leave them, and a write
\* only touches the slot it took for the older one.
RankedInv ==
    LET t == writer.slot
        o == Other(t)
    IN  /\ TypeOK
        /\ Ranked(vseg, vsup) /\ Ranked(dseg, dsup)
        /\ writer.pc = "idle" => vseg = dseg /\ vsup = dsup
        /\ writer.pc # "idle" =>
              /\ t = Target(dsup) /\ vseg[o] = dseg[o] /\ vsup[o] = dsup[o]
              /\ vseg[t] = offered.payload
              /\ writer.pc # "sync_segment" => vseg = dseg
              /\ writer.pc # "sync_superblock" => vsup = dsup
              /\ writer.generation = MaxGen(dsup) + (IF writer.pc = "sync_segment" THEN 0 ELSE 1)
        /\ writer.pc = "sync_superblock" =>
              vsup[t] = [generation |-> writer.generation,
                         checksum |-> offered.payload, write |-> offered.write]

\* The inductive invariants of the proofs in StorageProofs.
Undamaged == TypeOK /\ Alternation
IInv == TypeOK /\ (corruptions = 0 => Alternation)
=============================================================================
