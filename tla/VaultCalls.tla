----------------------------- MODULE VaultCalls -----------------------------
(***************************************************************************)
(* The calls of VaultSession (src/filesync/session.rs) as the lists of the  *)
(* file system steps they take, and what a step does.                       *)
(***************************************************************************)
EXTENDS VaultDisk

\* One step for each member of a sequence, and two.
ForEach(s, StepOf(_)) == [i \in 1 .. Len(s) |-> StepOf(s[i])]
ForEachTwo(s, First(_), Second(_)) ==
    [i \in 1 .. 2 * Len(s) |-> IF i % 2 = 1 THEN First(s[(i + 1) \div 2]) ELSE Second(s[i \div 2])]

InstallEntries(s) == ForEachTwo(s, LAMBDA p : <<"displace", p>>, LAMBDA p : <<"install", p>>)
CleanupEntries(s) == ForEach(s, LAMBDA p : <<"drop_backup", p>>)

\* Faulty: the old path keeps its identity.
CompleteRenameKeepsIdentity(from, to, id) ==
    <<<<"refuse_two_files", from, to>>, <<"persist_identity", to, id>>,
      <<"move_session", from, to>>, <<"move_flushed", from, to>>, <<"move_file", from, to>>>>

CompleteRename(from, to, id) ==
    <<<<"refuse_two_files", from, to>>, <<"persist_identity", to, id>>,
      <<"move_session", from, to>>, <<"move_flushed", from, to>>,
      <<"move_file", from, to>>, <<"drop_identity", from>>>>

CompleteDelete(p) ==
    <<<<"drop_file", p>>, <<"drop_identity", p>>, <<"drop_session", p>>, <<"drop_flushed", p>>>>

\* Faulty: the targets are replaced before the journal is written.
ExportStepsJournalLate(all, changed, text) ==
    LET j == ExportJournal(changed)
    IN     ForEach(all, LAMBDA p : <<"save", p>>)
        \o <<<<"make_root">>>>
        \o ForEach(changed, LAMBDA p : <<"write_pending", p, text[p]>>)
        \o InstallEntries(changed)
        \o (IF changed = <<>> THEN <<>> ELSE <<<<"write_journal", j>>>>)
        \o ForEachTwo(all, LAMBDA p : <<"flush", p, text[p]>>, LAMBDA p : <<"save", p>>)
        \o CleanupEntries(changed)
        \o (IF changed = <<>> THEN <<>> ELSE <<<<"remove_journal", j>>>>)

\* Faulty: the transactions directory appears with the journal only.
ExportStepsNoRoot(all, changed, text) ==
    LET j == ExportJournal(changed)
    IN     ForEach(all, LAMBDA p : <<"save", p>>)
        \o ForEach(changed, LAMBDA p : <<"write_pending", p, text[p]>>)
        \o (IF changed = <<>> THEN <<>> ELSE <<<<"write_journal", j>>>>)
        \o InstallEntries(changed)
        \o ForEachTwo(all, LAMBDA p : <<"flush", p, text[p]>>, LAMBDA p : <<"save", p>>)
        \o CleanupEntries(changed)
        \o (IF changed = <<>> THEN <<>> ELSE <<<<"remove_journal", j>>>>)

\* all: the documents of the transaction; changed: those whose file differs.
ExportSteps(all, changed, text) ==
    LET j == ExportJournal(changed)
    IN     ForEach(all, LAMBDA p : <<"save", p>>)
        \o <<<<"make_root">>>>
        \o ForEach(changed, LAMBDA p : <<"write_pending", p, text[p]>>)
        \o (IF changed = <<>> THEN <<>> ELSE <<<<"write_journal", j>>>>)
        \o InstallEntries(changed)
        \o ForEachTwo(all, LAMBDA p : <<"flush", p, text[p]>>, LAMBDA p : <<"save", p>>)
        \o CleanupEntries(changed)
        \o (IF changed = <<>> THEN <<>> ELSE <<<<"remove_journal", j>>>>)

RenameSteps(from, to, id) ==
    LET j == RenameJournal(from, to, id)
    IN  <<<<"save", from>>, <<"write_journal", j>>>> \o CompleteRename(from, to, id)
        \o <<<<"remove_journal", j>>, <<"rekey", from, to, id>>>>

DeleteSteps(p) ==
    <<<<"write_journal", DeleteJournal(p)>>>> \o CompleteDelete(p)
    \o <<<<"remove_journal", DeleteJournal(p)>>, <<"forget", p>>>>

\* Faulty: the journal of a recovered deletion stays.
RecoveryStepsKeepDelete(j) ==
    CASE j.kind = "export" -> InstallEntries(j.paths)
                              \o ForEach(j.paths, LAMBDA p : <<"drop_flushed", p>>)
                              \o CleanupEntries(j.paths) \o <<<<"remove_journal", j>>>>
      [] j.kind = "rename" -> CompleteRename(j.from, j.to, j.id) \o <<<<"remove_journal", j>>>>
      [] j.kind = "delete" -> CompleteDelete(j.path)

RecoverySteps(j) ==
    (CASE j.kind = "export" -> InstallEntries(j.paths)
                               \o ForEach(j.paths, LAMBDA p : <<"drop_flushed", p>>)
                               \o CleanupEntries(j.paths)
       [] j.kind = "rename" -> CompleteRename(j.from, j.to, j.id)
       [] j.kind = "delete" -> CompleteDelete(j.path))
    \o <<<<"remove_journal", j>>>>

-----------------------------------------------------------------------------
(* Taking a step.                                                           *)

Run(s, d, m) ==
    CASE s[1] = "identify"         -> Identify(d, m, s[2])
      [] s[1] = "load"             -> Load(d, m, s[2])
      [] s[1] = "ingest_if_needed" -> IngestIfNeeded(d, m, s[2])
      [] s[1] = "ingest"           -> Ingest(d, m, s[2])
      [] s[1] = "save"             -> Save(d, m, s[2])
      [] s[1] = "save_edited"      -> SaveEdited(d, m, s[2], s[3])
      [] s[1] = "flush"            -> Flush(d, m, s[2], s[3])
      [] s[1] = "write_file"       -> WriteFile(d, m, s[2], s[3])
      [] s[1] = "make_root"        -> MakeRoot(d, m)
      [] s[1] = "write_pending"    -> WritePending(d, m, s[2], s[3])
      [] s[1] = "write_journal"    -> WriteJournal(d, m, s[2])
      [] s[1] = "displace"         -> Displace(d, m, s[2])
      [] s[1] = "install"          -> Install(d, m, s[2])
      [] s[1] = "drop_backup"      -> DropBackup(d, m, s[2])
      [] s[1] = "drop_flushed"     -> DropFlushed(d, m, s[2])
      [] s[1] = "remove_journal"   -> RemoveJournal(d, m, s[2])
      [] s[1] = "sweep"            -> Sweep(d, m)
      [] s[1] = "refuse_two_files" -> RefuseTwoFiles(d, m, s[2], s[3])
      [] s[1] = "persist_identity" -> PersistIdentity(d, m, s[2], s[3])
      [] s[1] = "move_session"     -> MoveSession(d, m, s[2], s[3])
      [] s[1] = "move_flushed"     -> MoveFlushed(d, m, s[2], s[3])
      [] s[1] = "move_file"        -> MoveFile(d, m, s[2], s[3])
      [] s[1] = "drop_identity"    -> DropIdentity(d, m, s[2])
      [] s[1] = "drop_file"        -> DropFile(d, m, s[2])
      [] s[1] = "drop_session"     -> DropSession(d, m, s[2])
      [] s[1] = "rekey"            -> Rekey(d, m, s[2], s[3], s[4])
      [] s[1] = "forget"           -> Forget(d, m, s[2])

\* A step that fails ends the call.  An export that fails before its journal is
\* written removes its pending files; the sweep ignores errors, and memory cannot fail.
CleansUp(s) ==
    \/ s[1] = "write_pending"
    \/ s[1] = "write_journal" /\ s[2].kind = "export"

MayFail(s) == s[1] \notin {"sweep", "rekey", "forget"}

\* The document at p once the journals are carried out.
Committed(d, p) ==
    LET Here(q) == [file |-> d.files[q], id |-> d.ids[q],
                    session |-> [text |-> d.sessions[q].text, seen |-> d.sessions[q].seen]]
        None == [file |-> NoText, id |-> NoId, session |-> [text |-> NoText, seen |-> {}]]
        Moved(j) == [file |-> IF d.files[j.from] # NoText THEN d.files[j.from] ELSE d.files[j.to],
                     id |-> j.id,
                     session |-> IF d.sessions[j.to].exists THEN Here(j.to).session
                                                            ELSE Here(j.from).session]
    IN  CASE \E j \in d.journals : j.kind = "rename" /\ j.to = p ->
               Moved(CHOOSE j \in d.journals : j.kind = "rename" /\ j.to = p)
          [] \E j \in d.journals : \/ j.kind = "rename" /\ j.from = p
                                   \/ j.kind = "delete" /\ j.path = p -> None
          [] \E j \in d.journals : j.kind = "export" /\ p \in Range(j.paths)
                                                    /\ d.pending[p] # NoText ->
               [Here(p) EXCEPT !.file = d.pending[p]]
          [] OTHER -> Here(p)
=============================================================================
