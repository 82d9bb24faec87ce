----------------------------- MODULE VaultDisk -----------------------------
(***************************************************************************)
(* The files of a vault and the file system steps its calls are made of     *)
(* (src/filesync/session.rs).  A step maps the disk and the memory of the   *)
(* process to what they are afterwards, the steps it decides to take next,  *)
(* and whether it fails.  A text stands for the content of a document; a    *)
(* session remembers which texts it took in.  Writing a snapshot is one     *)
(* step (Storage shows it is atomic), as is writing a file through a        *)
(* temporary name.                                                          *)
(***************************************************************************)
EXTENDS Integers, Sequences, FiniteSets, Functions

CONSTANTS Paths, MaxTexts

ASSUME VaultDiskAssumption == MaxTexts \in Nat

\* Texts are numbered in the order they are first written; 0 is no text.
Texts == 1 .. MaxTexts
NoText == 0
NoId == 0
\* Storage::open creates the directory of a record before anything is in it.
NoDirectory == -1

\* A session, in memory or saved: where there is none, it is the empty document.
Session == [exists : BOOLEAN, text : Texts \cup {NoText}, seen : SUBSET Texts]
NoSession == [exists |-> FALSE, text |-> NoText, seen |-> {}]
Take(s, t) == [exists |-> TRUE, text |-> t, seen |-> s.seen \cup {t}]

\* files: the Markdown files; ids, sessions, flushed: the records kept for each
\* path under .mdcrdt; pending and backup: the temporaries of an export;
\* journals and root: the transactions directory; next_id: identities drawn.
EmptyDisk ==
    [files    |-> [p \in Paths |-> NoText],
     ids      |-> [p \in Paths |-> NoId],
     sessions |-> [p \in Paths |-> NoSession],
     flushed  |-> [p \in Paths |-> NoDirectory],
     pending  |-> [p \in Paths |-> NoText],
     backup   |-> [p \in Paths |-> NoText],
     journals |-> {},
     root     |-> FALSE,
     next_id  |-> 1]

NoMemory == [docs |-> [p \in Paths |-> NoSession], ids |-> [p \in Paths |-> NoId]]

\* The intents of DurableJournal.
ExportJournal(ps) == [kind |-> "export", paths |-> ps]
RenameJournal(from, to, id) == [kind |-> "rename", from |-> from, to |-> to, id |-> id]
DeleteJournal(p) == [kind |-> "delete", path |-> p]

Becomes(d, m) == [disk |-> d, mem |-> m, then |-> <<>>, fails |-> FALSE]
Fails(d, m) == [disk |-> d, mem |-> m, then |-> <<>>, fails |-> TRUE]

-----------------------------------------------------------------------------
(* Opening a document: document_id, load_or_create_session, ingest.         *)

Identify(d, m, p) ==
    IF m.ids[p] # NoId THEN Becomes(d, m)
    ELSE IF d.ids[p] # NoId THEN Becomes(d, [m EXCEPT !.ids[p] = d.ids[p]])
    ELSE Becomes([d EXCEPT !.ids[p] = d.next_id, !.next_id = @ + 1],
                 [m EXCEPT !.ids[p] = d.next_id])

Load(d, m, p) ==
    IF m.docs[p].exists THEN Becomes(d, m)
    ELSE Becomes([d EXCEPT !.sessions[p].exists = TRUE],
                 [m EXCEPT !.docs[p] = [d.sessions[p] EXCEPT !.exists = TRUE]])

\* The document is read from the file when its session is empty or the file was
\* never taken in; reading that record creates its directory.
IngestIfNeeded(d, m, p) ==
    LET empty == m.docs[p].text = NoText
        unread == d.flushed[p] \in {NoDirectory, NoText}
    IN  [Becomes([d EXCEPT !.flushed[p] = IF ~empty /\ @ = NoDirectory THEN NoText ELSE @], m)
            EXCEPT !.then = IF empty \/ unread THEN <<<<"ingest", p>>>> ELSE <<>>]

\* Faulty: the file is recorded before the session that took it in is saved.
IngestRecordsFirst(d, m, p) ==
    IF d.files[p] = NoText THEN Fails(d, m)
    ELSE IF d.flushed[p] = d.files[p] THEN Becomes(d, m)
    ELSE [Becomes(d, [m EXCEPT !.docs[p] = Take(@, d.files[p])]) EXCEPT
            !.then = <<<<"flush", p, d.files[p]>>, <<"save", p>>>>]

\* ingest_file_unchecked: a file whose hash is the recorded one is skipped; any
\* other replaces the document's text, is saved and then recorded.  A document
\* that holds no source (an empty one) is saved even when the file is skipped.
Ingest(d, m, p) ==
    IF d.files[p] = NoText THEN Fails(d, m)
    ELSE LET opened == [d EXCEPT !.flushed[p] = IF @ = NoDirectory THEN NoText ELSE @]
             read == [m EXCEPT !.docs[p] = Take(@, d.files[p])]
         IN  IF d.flushed[p] = d.files[p]
             THEN [Becomes(opened, m) EXCEPT
                     !.then = IF m.docs[p].text = NoText THEN <<<<"save", p>>>> ELSE <<>>]
             ELSE [Becomes(opened, read) EXCEPT
                     !.then = <<<<"save", p>>, <<"flush", p, d.files[p]>>>>]

-----------------------------------------------------------------------------
(* Records of one document.                                                 *)

Save(d, m, p) ==
    IF m.docs[p].exists THEN Becomes([d EXCEPT !.sessions[p] = m.docs[p]], m) ELSE Fails(d, m)

\* install_prepared_batch: the edited session is saved and only then installed.
SaveEdited(d, m, p, t) ==
    Becomes([d EXCEPT !.sessions[p] = Take(m.docs[p], t)],
            [m EXCEPT !.docs[p] = Take(@, t)])

Flush(d, m, p, t) == Becomes([d EXCEPT !.flushed[p] = t], m)

WriteFile(d, m, p, t) == Becomes([d EXCEPT !.files[p] = t], m)

-----------------------------------------------------------------------------
(* Exports of several documents.                                            *)

MakeRoot(d, m) == Becomes([d EXCEPT !.root = TRUE], m)

WritePending(d, m, p, t) == Becomes([d EXCEPT !.pending[p] = t], m)

WriteJournal(d, m, j) == Becomes([d EXCEPT !.journals = @ \cup {j}, !.root = TRUE], m)

\* install_export_entries, in its two renames: the file is set aside (or, when
\* that was done before, removed), and the pending one takes its place.
Displace(d, m, p) ==
    IF d.pending[p] = NoText THEN Becomes(d, m)
    ELSE Becomes([d EXCEPT !.files[p] = NoText,
                           !.backup[p] = IF @ = NoText THEN d.files[p] ELSE @], m)

Install(d, m, p) ==
    IF d.pending[p] # NoText
    THEN Becomes([d EXCEPT !.files[p] = d.pending[p], !.pending[p] = NoText], m)
    ELSE IF d.files[p] = NoText THEN Fails(d, m) ELSE Becomes(d, m)

DropBackup(d, m, p) == Becomes([d EXCEPT !.backup[p] = NoText], m)

DropFlushed(d, m, p) == Becomes([d EXCEPT !.flushed[p] = NoDirectory], m)

RemoveJournal(d, m, j) == Becomes([d EXCEPT !.journals = @ \ {j}], m)

\* cleanup_pending_entries, and the sweep of temporaries no journal refers to.
DropPending(d) == [d EXCEPT !.pending = [p \in Paths |-> NoText]]
Sweep(d, m) == Becomes([DropPending(d) EXCEPT !.backup = [p \in Paths |-> NoText]], m)

-----------------------------------------------------------------------------
(* Renaming and deleting.                                                   *)

RefuseTwoFiles(d, m, from, to) ==
    IF d.files[from] # NoText /\ d.files[to] # NoText THEN Fails(d, m) ELSE Becomes(d, m)

PersistIdentity(d, m, to, id) ==
    IF d.ids[to] \notin {NoId, id} THEN Fails(d, m)
    ELSE Becomes([d EXCEPT !.ids[to] = id], m)

\* Faulty: the session of the old path is removed, whatever is at the new one.
MoveSessionDrops(d, m, from, to) == Becomes([d EXCEPT !.sessions[from] = NoSession], m)

\* move_artifact: what is already at the destination stays.
MoveSession(d, m, from, to) ==
    Becomes([d EXCEPT !.sessions[from] = NoSession,
                      !.sessions[to] = IF @.exists THEN @ ELSE d.sessions[from]], m)

MoveFlushed(d, m, from, to) ==
    Becomes([d EXCEPT !.flushed[from] = NoDirectory,
                      !.flushed[to] = IF @ # NoDirectory THEN @ ELSE d.flushed[from]], m)

\* Faulty: a rename that was done before is an error.
MoveFileOnce(d, m, from, to) ==
    IF d.files[from] = NoText THEN Fails(d, m)
    ELSE Becomes([d EXCEPT !.files[to] = d.files[from], !.files[from] = NoText], m)

MoveFile(d, m, from, to) ==
    IF d.files[from] # NoText
    THEN Becomes([d EXCEPT !.files[to] = d.files[from], !.files[from] = NoText], m)
    ELSE IF d.files[to] = NoText THEN Fails(d, m) ELSE Becomes(d, m)

DropIdentity(d, m, p) == Becomes([d EXCEPT !.ids[p] = NoId], m)
DropFile(d, m, p) == Becomes([d EXCEPT !.files[p] = NoText], m)
DropSession(d, m, p) == Becomes([d EXCEPT !.sessions[p] = NoSession], m)

\* The end of rename_markdown and delete_markdown, in memory.
Rekey(d, m, from, to, id) ==
    Becomes(d, [docs |-> [m.docs EXCEPT ![from] = NoSession, ![to] = m.docs[from]],
                ids  |-> [m.ids EXCEPT ![from] = NoId, ![to] = id]])
Forget(d, m, p) ==
    Becomes(d, [docs |-> [m.docs EXCEPT ![p] = NoSession], ids |-> [m.ids EXCEPT ![p] = NoId]])
=============================================================================
