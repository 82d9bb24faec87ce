--------------------------- MODULE VaultInvariant ---------------------------
(***************************************************************************)
(* The inductive invariant of Vault, for the proofs in VaultStepProofs,     *)
(* VaultJournalProofs, VaultCommitProofs, VaultCallProofs and VaultProofs.  *)
(* c stands for the calls of the deployment, d for the disk, m for the      *)
(* memory, w for the steps the running call has yet to take and st for the  *)
(* status of the process.                                                   *)
(***************************************************************************)
EXTENDS VaultCalls

Journals ==
    [kind : {"export"}, paths : Seq(Paths)]
    \cup [kind : {"rename"}, from : Paths, to : Paths, id : Nat \ {NoId}]
    \cup [kind : {"delete"}, path : Paths]

PlainSteps ==
    ({"identify", "load", "ingest_if_needed", "ingest", "save"} \X Paths)
    \cup ({"save_edited", "flush", "write_file"} \X Paths \X Texts)
    \cup {<<"make_root">>}

\* The steps between the journal of a call and its removal, and those that end it.
ExportSet == ({"displace", "install", "drop_backup", "drop_flushed", "save"} \X Paths)
             \cup ({"flush"} \X Paths \X Texts)
RenameSet(j) ==
    {<<"refuse_two_files", j.from, j.to>>, <<"persist_identity", j.to, j.id>>,
     <<"move_session", j.from, j.to>>, <<"move_flushed", j.from, j.to>>,
     <<"move_file", j.from, j.to>>, <<"drop_identity", j.from>>}
DeleteSet(j) ==
    {<<"drop_file", j.path>>, <<"drop_identity", j.path>>, <<"drop_session", j.path>>,
     <<"drop_flushed", j.path>>}

\* Step s comes before the k-th of w.
Before(w, k, s) == \E i \in 1 .. k - 1 : w[i] = s
\* A step that writes p, in the way given, comes before it.
Writes(w, k, how, p) == \E i \in 1 .. k - 1 : w[i][1] = how /\ w[i][2] = p

-----------------------------------------------------------------------------
(* The disk.                                                                *)

DiskType ==
    [files : [Paths -> Texts \cup {NoText}], ids : [Paths -> Nat], sessions : [Paths -> Session],
     flushed : [Paths -> Texts \cup {NoText, NoDirectory}],
     pending : [Paths -> Texts \cup {NoText}], backup : [Paths -> Texts \cup {NoText}],
     journals : SUBSET Journals, root : BOOLEAN, next_id : Nat \ {0}]

MemType == [docs : [Paths -> Session], ids : [Paths -> Nat]]

\* What is not there is empty, and the text of a session is one it took in.
WholeSession(s) == (~s.exists => s = NoSession) /\ (s.text # NoText => s.text \in s.seen)

Touches(j, p) ==
    \/ j.kind = "export" /\ p \in Range(j.paths)
    \/ j.kind = "rename" /\ p \in {j.from, j.to}
    \/ j.kind = "delete" /\ p = j.path

\* A rename is under way: the file and the session are at one of the two paths.
HalfRenamed(d, j) ==
    /\ j.from # j.to /\ j.id < d.next_id
    /\ (d.files[j.from] = NoText) # (d.files[j.to] = NoText)
    /\ d.sessions[j.from].exists # d.sessions[j.to].exists
    /\ d.ids[j.from] \in {NoId, j.id} /\ d.ids[j.to] \in {NoId, j.id}
    /\ \A q \in Paths \ {j.from, j.to} : d.ids[q] # j.id

HalfExported(d, j) ==
    /\ \A p \in Range(j.paths) : d.pending[p] # NoText \/ d.files[p] # NoText
    /\ \A p \in Paths : d.pending[p] # NoText \/ d.backup[p] # NoText => p \in Range(j.paths)

NoTemps(d) == \A p \in Paths : d.pending[p] = NoText /\ d.backup[p] = NoText

JournalHolds(c, d, j) ==
    /\ j.kind = "export" => HalfExported(d, j)
    /\ j.kind = "rename" => HalfRenamed(d, j) /\ "rename" \in c
    /\ j.kind = "delete" => "delete" \in c
    /\ j.kind # "export" => NoTemps(d)

Vacant(d, p) == d.ids[p] = NoId /\ ~d.sessions[p].exists /\ d.flushed[p] = NoDirectory

\* The record of what was ingested is backed by a saved session.
FlushedSaved(d, p) ==
    d.flushed[p] \in Texts =>
        \/ d.flushed[p] \in d.sessions[p].seen
        \/ \E j \in d.journals :
              \/ j.kind = "rename" /\ p \in {j.from, j.to}
                 /\ d.flushed[p] \in d.sessions[j.from].seen \cup d.sessions[j.to].seen
              \/ j.kind = "delete" /\ p = j.path

SessionsHold(d) == \A p \in Paths : WholeSession(d.sessions[p])

JournalsHold(c, d) ==
    /\ \A i, j \in d.journals : i = j
    /\ \A j \in d.journals : d.root /\ JournalHolds(c, d, j)

IdsHold(d) ==
    /\ \A p \in Paths : d.ids[p] < d.next_id
    /\ \A p, q \in Paths : p # q /\ d.ids[p] # NoId /\ d.ids[p] = d.ids[q] =>
          \E j \in d.journals : j.kind = "rename" /\ Touches(j, p) /\ Touches(j, q)

FilesHold(c, d) ==
    "absent" \notin c =>
        \A p \in Paths : d.files[p] = NoText =>
            Vacant(d, p) \/ \E j \in d.journals : Touches(j, p)

FlushHolds(c, d) == "export" \notin c => \A p \in Paths : FlushedSaved(d, p)

DiskHolds(c, d) ==
    /\ d \in DiskType /\ SessionsHold(d) /\ JournalsHold(c, d) /\ IdsHold(d)
    /\ FilesHold(c, d) /\ FlushHolds(c, d)

-----------------------------------------------------------------------------
(* The memory.                                                              *)

\* No rename or deletion of p is under way.
Settled(d, w, p) ==
    /\ \A j \in d.journals : j.kind = "export" \/ ~Touches(j, p)
    /\ w # <<>> /\ d.journals = {} =>
          /\ Head(w)[1] = "rekey" => p \notin {Head(w)[2], Head(w)[3]}
          /\ Head(w)[1] = "forget" => p # Head(w)[2]

Backed(d, m, p) ==
    /\ m.ids[p] # NoId => m.ids[p] = d.ids[p]
    /\ m.docs[p].exists => /\ m.ids[p] # NoId /\ d.sessions[p].exists
                           /\ d.sessions[p].seen \subseteq m.docs[p].seen

MemHolds(d, m, w) ==
    /\ m \in MemType
    /\ \A p \in Paths : WholeSession(m.docs[p])
    /\ \A p \in Paths : Settled(d, w, p) => Backed(d, m, p)

-----------------------------------------------------------------------------
(* The running call.                                                        *)

\* What is recorded as ingested is in the document, and saved by then.
FlushBacked(c, d, m, w, k, p, t) ==
    /\ m.docs[p].exists
    /\ "export" \notin c => /\ t \in m.docs[p].seen
                            /\ t \in d.sessions[p].seen \/ Before(w, k, <<"save", p>>)

\* A step of a call that writes no journal.
PlainHolds(c, d, m, w, k) ==
    LET s == w[k]
    IN  /\ s \in PlainSteps
        /\ s[1] = "identify" /\ "absent" \notin c =>
              \/ d.files[s[2]] # NoText
              \/ Writes(w, k, "write_file", s[2])
        /\ s[1] = "load" => m.ids[s[2]] # NoId \/ Before(w, k, <<"identify", s[2]>>)
        /\ s[1] \in {"ingest_if_needed", "ingest"} =>
              m.docs[s[2]].exists \/ Before(w, k, <<"load", s[2]>>)
        /\ s[1] = "save_edited" => m.docs[s[2]].exists
        /\ s[1] = "flush" => FlushBacked(c, d, m, w, k, s[2], s[3])

\* What the journal waits for, once it is on disk (live) or still to be written.
Removable(d, w, k, j, live) ==
    /\ j.kind = "export" =>
          \A p \in Range(j.paths) :
              /\ (live /\ d.pending[p] = NoText) \/ Before(w, k, <<"install", p>>)
              /\ (live /\ d.pending[p] = NoText /\ d.backup[p] = NoText)
                 \/ Before(w, k, <<"drop_backup", p>>)
    /\ j.kind = "rename" =>
          /\ (live /\ d.ids[j.to] = j.id) \/ Before(w, k, <<"persist_identity", j.to, j.id>>)
          /\ (live /\ ~d.sessions[j.from].exists) \/ Before(w, k, <<"move_session", j.from, j.to>>)
          /\ (live /\ d.flushed[j.from] = NoDirectory)
             \/ Before(w, k, <<"move_flushed", j.from, j.to>>)
          /\ (live /\ d.files[j.from] = NoText) \/ Before(w, k, <<"move_file", j.from, j.to>>)
          /\ (live /\ d.ids[j.from] = NoId) \/ Before(w, k, <<"drop_identity", j.from>>)
    /\ j.kind = "delete" =>
          /\ (live /\ d.files[j.path] = NoText) \/ Before(w, k, <<"drop_file", j.path>>)
          /\ (live /\ d.ids[j.path] = NoId) \/ Before(w, k, <<"drop_identity", j.path>>)
          /\ (live /\ ~d.sessions[j.path].exists) \/ Before(w, k, <<"drop_session", j.path>>)
          /\ (live /\ d.flushed[j.path] = NoDirectory) \/ Before(w, k, <<"drop_flushed", j.path>>)

\* The memory of a process that renames a document still has it at the old path.
Rekeyable(d, m, j) ==
    /\ m.docs[j.from].exists /\ m.ids[j.from] = j.id
    /\ d.sessions[j.from].seen \cup d.sessions[j.to].seen \subseteq m.docs[j.from].seen

\* What follows the removal of the journal.
EndOf(j, st) ==
    CASE st # "up" -> <<<<"sweep">>>>
      [] st = "up" /\ j.kind = "export" -> <<>>
      [] st = "up" /\ j.kind = "rename" -> <<<<"rekey", j.from, j.to, j.id>>>>
      [] st = "up" /\ j.kind = "delete" -> <<<<"forget", j.path>>>>

\* A step that carries out journal j, or ends the call.
CarryHolds(c, d, m, w, st, k, j, live) ==
    LET s == w[k]
        carry == \/ j.kind = "export" /\ s \in ExportSet
                 \/ j.kind = "rename" /\ s \in RenameSet(j)
                 \/ j.kind = "delete" /\ s \in DeleteSet(j)
    IN  \/ /\ carry
           /\ s[1] \in {"displace", "install", "drop_backup"} => s[2] \in Range(j.paths)
           /\ s[1] = "drop_backup" =>
                 (live /\ d.pending[s[2]] = NoText) \/ Before(w, k, <<"install", s[2]>>)
           /\ s[1] \in {"save", "flush"} => st = "up"
           /\ s[1] = "flush" => FlushBacked(c, d, m, w, k, s[2], s[3])
        \/ /\ s = <<"remove_journal", j>>
           /\ Removable(d, w, k, j, live)
           /\ j.kind = "rename" /\ st = "up" => Rekeyable(d, m, j)
           /\ Len(w) = k + Len(EndOf(j, st))
           /\ \A i \in 1 .. Len(EndOf(j, st)) : w[k + i] = EndOf(j, st)[i]
        \/ /\ Before(w, k, <<"remove_journal", j>>)
           /\ k = Len(w)

\* A step before the journal, which is the n-th.
PrepareHolds(d, w, k, n, j) ==
    LET s == w[k]
    IN  \/ s \in {"save"} \X Paths
        \/ s = <<"make_root">>
        \/ /\ s \in {"write_pending"} \X Paths \X Texts
           /\ j.kind = "export" /\ s[2] \in Range(j.paths)
           /\ d.root \/ Before(w, k, <<"make_root">>)
           /\ k + 1 = n \/ w[k + 1][1] = "write_pending"

JournalReady(c, d, m, w, n, j) ==
    /\ j \in Journals
    /\ j.kind = "export" =>
          /\ \A p \in Range(j.paths) :
                \/ d.pending[p] # NoText
                \/ Writes(w, n, "write_pending", p)
          /\ \A p \in Paths : d.pending[p] # NoText => p \in Range(j.paths)
    /\ j.kind = "rename" => /\ "rename" \in c /\ j.from # j.to /\ d.files[j.to] = NoText
                            /\ m.docs[j.from].exists /\ m.ids[j.from] = j.id
    /\ j.kind = "delete" => "delete" \in c

\* The calls, by where they are with their journal.
Plain(c, d, m, w, st) ==
    d.journals = {} /\ st = "up" /\ \A k \in 1 .. Len(w) : PlainHolds(c, d, m, w, k)
Preparing(c, d, m, w, st) ==
    /\ d.journals = {} /\ st = "up"
    /\ \E n \in 1 .. Len(w) :
          /\ w[n][1] = "write_journal" /\ w[n] = <<"write_journal", w[n][2]>>
          /\ JournalReady(c, d, m, w, n, w[n][2])
          /\ \A k \in 1 .. n - 1 : PrepareHolds(d, w, k, n, w[n][2])
          /\ \A k \in n + 1 .. Len(w) : CarryHolds(c, d, m, w, st, k, w[n][2], FALSE)
Carrying(c, d, m, w, st) ==
    \E j \in d.journals : \A k \in 1 .. Len(w) : CarryHolds(c, d, m, w, st, k, j, TRUE)
Finishing(d, m, w, st) ==
    /\ d.journals = {} /\ Len(w) = 1
    /\ \/ w[1] = <<"sweep">> /\ st # "up"
       \/ st = "up" /\ \E p \in Paths : w[1] = <<"forget", p>>
       \/ /\ st = "up"
          /\ \E from, to \in Paths :
                /\ w[1] = <<"rekey", from, to, d.ids[to]>> /\ from # to
                /\ m.docs[from].exists /\ d.sessions[to].seen \subseteq m.docs[from].seen
                /\ d.ids[from] = NoId /\ ~d.sessions[from].exists
                /\ d.ids[to] # NoId /\ d.sessions[to].exists

WorkHolds(c, d, m, w, st) ==
    \/ Plain(c, d, m, w, st) \/ Preparing(c, d, m, w, st)
    \/ Carrying(c, d, m, w, st) \/ Finishing(d, m, w, st)
    \/ st = "down" /\ w = <<>>

\* Temporaries that no journal names: an export removes them when it fails, or the
\* next recovery does.
TempsHold(d, w, st) ==
    d.journals = {} /\ ~NoTemps(d) =>
        /\ d.root
        /\ \/ st = "down"
           \/ w = <<<<"sweep">>>>
           \/ /\ st = "up" /\ w # <<>> /\ CleansUp(Head(w))
              /\ \A p \in Paths : d.backup[p] = NoText

StatusHolds(c, m, w, st) ==
    /\ w \in Seq(Range(w))
    /\ st \in {"down", "opening", "recovering", "up"}
    /\ st \in {"down", "opening"} => m = NoMemory
    /\ st = "down" => w = <<>>
    /\ st = "recovering" => "recover" \in c

VaultHolds(c, d, m, w, st) ==
    /\ DiskHolds(c, d) /\ MemHolds(d, m, w) /\ WorkHolds(c, d, m, w, st)
    /\ TempsHold(d, w, st) /\ StatusHolds(c, m, w, st)

\* The calls a host combines: recover_transactions leaves the memory of a renamed or
\* deleted document as it was, and a document that has no file is not renamed onto.
Coherent(c) ==
    /\ "recover" \in c => "rename" \notin c /\ "delete" \notin c
    /\ "absent" \in c => "rename" \notin c
=============================================================================
