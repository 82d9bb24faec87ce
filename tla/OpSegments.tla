----------------------------- MODULE OpSegments -----------------------------
(***************************************************************************)
(* The operation segments and the compaction of src/storage/mod.rs over the  *)
(* snapshot container: files op_0, op_1, ... appended one by one, and        *)
(* compact(), which moves them to the archive one by one, rewrites the       *)
(* tombstone file in place and only then writes the snapshot that covers     *)
(* them.  One host process calls append, write_snapshot and compact.         *)
(***************************************************************************)
EXTENDS Storage, FiniteSetsExt, Functions

CONSTANT MaxAppends

\* There is a payload for every document.
ASSUME AppendsAssumption ==
    /\ MaxAppends \in Nat
    /\ \E f \in [SUBSET (1 .. MaxAppends) -> Payloads] : IsInjective(f)

VARIABLES
    ops,            \* the ops directory: index -> operation
    archive,        \* the archive directory: index -> operation
    tombstones,     \* the tombstone file: "ok", or "torn" by an interrupted write
    compaction,     \* how far compact() has come before its write_snapshot
    memory,         \* external: the operations the host's document contains
    appended        \* how many operations were ever appended (history)

segmentVars == <<ops, archive, tombstones, compaction, memory, appended>>
ovars == <<vars, segmentVars>>

\* next_index: one past the largest index in use.
NextIndex(dir) == IF DOMAIN dir = {} THEN 0 ELSE Max(DOMAIN dir) + 1

With(dir, i, op) == [k \in DOMAIN dir \cup {i} |-> IF k = i THEN op ELSE dir[k]]

\* read_op_segments accepts the directory: its indices are 0, 1, ..., n - 1.
Contiguous == \A i \in DOMAIN ops : i < Cardinality(DOMAIN ops)

\* A payload is the encoding of a document, told apart by the operations in it.
Encoding == CHOOSE f \in [SUBSET (1 .. MaxAppends) -> Payloads] : IsInjective(f)
Payload(S) == Encoding[S]
ContentsOf(p) == UNION {S \in SUBSET (1 .. MaxAppends) : Payload(S) = p}

\* What read_snapshot and read_op_segments give the host.
Readable(seg, sup) ==
    ContentsOf(Read(seg, sup).payload) \cup (IF Contiguous THEN Range(ops) ELSE {})

-----------------------------------------------------------------------------
OInit ==
    /\ Init
    /\ ops = [i \in {} |-> 0]
    /\ archive = [i \in {} |-> 0]
    /\ tombstones = "ok"
    /\ compaction = "none"
    /\ memory = {}
    /\ appended = 0

\* The host has no call in progress.
Idle == compaction = "none" /\ writer.pc = "idle"

AppendOpSegment ==
    /\ Idle
    /\ appended < MaxAppends
    /\ ops' = With(ops, NextIndex(ops), appended + 1)
    /\ appended' = appended + 1
    /\ memory' = memory \cup {appended + 1}
    /\ UNCHANGED <<vars, archive, tombstones, compaction>>

\* compact() with the host's document as its payload.
StartCompaction ==
    /\ Idle
    /\ compaction' = "archive"
    /\ UNCHANGED <<vars, ops, archive, tombstones, memory, appended>>

\* Mutant of ArchiveIndex: the archived file keeps its name.
ArchiveIndexKept(i) == i

ArchiveIndex(i) == NextIndex(archive)

\* One rename of the loop, in the order read_dir yields.
ArchiveOp(i) ==
    /\ compaction = "archive"
    /\ archive' = With(archive, ArchiveIndex(i), ops[i])
    /\ ops' = Restrict(ops, DOMAIN ops \ {i})
    /\ UNCHANGED <<vars, tombstones, compaction, memory, appended>>

\* read_tombstones fails on a torn file and compact() with it, the segments
\* already archived; otherwise fs::write truncates the file.
RewriteTombstones ==
    /\ compaction = "archive"
    /\ DOMAIN ops = {}
    /\ IF tombstones = "ok"
       THEN compaction' = "publish" /\ tombstones' = "torn"
       ELSE compaction' = "none" /\ UNCHANGED tombstones
    /\ UNCHANGED <<vars, ops, archive, memory, appended>>

\* write_snapshot of the host's document starts: on its own, or as the last
\* step of compact(), the tombstone file being complete.
WriteSnapshot ==
    /\ compaction \in {"none", "publish"}
    /\ WriteSegment(Payload(memory))
    /\ compaction' = "none" /\ tombstones' = IF compaction = "publish" THEN "ok" ELSE tombstones
    /\ UNCHANGED <<ops, archive, memory, appended>>

FinishSnapshot ==
    /\ SyncSegment \/ WriteSuperblock \/ SyncSuperblock \/ FailSuperblock
    /\ UNCHANGED segmentVars

\* External: power loss; the host loads what is readable.
CrashAndReload(lostseg, lostsup) ==
    /\ Crash(lostseg, lostsup)
    /\ compaction' = "none"
    /\ memory' = Readable(vseg', vsup')
    /\ UNCHANGED <<ops, archive, tombstones, appended>>

DamageAtRest(file, s) == Corrupt(file, s) /\ UNCHANGED segmentVars

ONext ==
    \/ AppendOpSegment
    \/ StartCompaction
    \/ \E i \in DOMAIN ops : ArchiveOp(i)
    \/ RewriteTombstones
    \/ WriteSnapshot
    \/ FinishSnapshot
    \/ \E lostseg, lostsup \in SUBSET Slots : CrashAndReload(lostseg, lostsup)
    \/ \E file \in Corruptible, s \in Slots : DamageAtRest(file, s)

OSpec == OInit /\ [][ONext]_ovars

-----------------------------------------------------------------------------
\* Wherever compact() stops, and whatever happens to the snapshots, every
\* appended operation is still on disk, in the ops directory or in the archive.
NothingDestroyed == 1 .. appended \subseteq Range(ops) \cup Range(archive)

\* A directory holds finitely many files, each an operation that was appended.
Directory(dir) ==
    /\ IsFiniteSet(DOMAIN dir) /\ DOMAIN dir \subseteq Nat
    /\ dir \in [DOMAIN dir -> 1 .. appended]

\* The inductive invariant of the proofs about compaction in StorageProofs.
SegmentsInv ==
    /\ appended \in 0 .. MaxAppends
    /\ Directory(ops) /\ Directory(archive)
    /\ memory \subseteq 1 .. MaxAppends
    /\ NothingDestroyed

\* A host that reads between calls never silently lacks an operation:
\* read_op_segments reports a gap, or it and the snapshot account for everything
\* appended ("reads fail closed rather than dropping ops",
\* src/storage/mod.rs:867).
ReadsFailClosed ==
    Idle /\ Contiguous => 1 .. appended \subseteq Readable(vseg, vsup)
=============================================================================
