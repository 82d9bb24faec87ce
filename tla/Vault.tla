-------------------------------- MODULE Vault --------------------------------
(***************************************************************************)
(* VaultSession (src/filesync/session.rs): one process that opens a vault,  *)
(* edits its documents, publishes them as Markdown, renames and deletes     *)
(* them.  A call is the list of its file system steps (VaultCalls).  The    *)
(* process may die between any two steps, a step may fail, and another      *)
(* program may save a file at any time.  Opening the vault finishes what    *)
(* the journals of interrupted calls intend.                                *)
(*                                                                          *)
(* Calls carry the revision the host read last, so a host has opened what   *)
(* it edits, publishes, renames or deletes; a call that is refused for a    *)
(* stale revision or fingerprint changes nothing.  A host that is told      *)
(* RecoverableTransaction recovers before its next call.                    *)
(***************************************************************************)
EXTENDS VaultCalls

\* A deployment: the calls the host makes, the paths that exist when the vault is
\* first opened, and bounds on deaths of the process, failing steps, texts and
\* identities.  With "absent" the host also opens paths that have no file, as
\* apply_remote does for a document that was only received.
CONSTANT Deployments

Calls == {"open_document", "session", "absent", "ingest", "session_mut", "local_edit",
          "edit_batch", "edit_batches", "save_state", "export", "export_transaction",
          "create", "rename", "delete", "close", "recover", "external"}

\* The orders a finite set can be listed in, and one of them.
Listings(S) == Bijection(1 .. Cardinality(S), S)
ListOf(S) == CHOOSE s \in Listings(S) : TRUE

\* The paths are finitely many: every set of them can be listed.
ASSUME PathsAssumption == \A S \in SUBSET Paths : Cardinality(S) \in Nat /\ Listings(S) # {}

ASSUME VaultAssumption ==
    \A d \in Deployments :
        /\ d.calls \subseteq Calls /\ d.paths \subseteq Paths /\ d.present \subseteq d.paths
        /\ d.maxCrashes \in Nat /\ d.maxFaults \in Nat /\ d.maxTexts \in 0 .. MaxTexts
        /\ d.maxIds \in Nat /\ Cardinality(d.present) <= d.maxTexts

VARIABLES
    deployment,     \* chosen once
    disk, mem,
    status,         \* "down", "opening", "recovering" (in a running process), "up"
    work,           \* the steps the running call still has to take
    stuck,          \* recovery gave up although no step was made to fail
    txn,            \* the last export transaction: the files it changes, before and after
    texts, crashes, faults

vars == <<deployment, disk, mem, status, work, stuck, txn, texts, crashes, faults>>

NoTxn == [paths |-> {}, old |-> [p \in Paths |-> NoText], new |-> [p \in Paths |-> NoText]]

Init ==
    /\ deployment \in Deployments
    /\ LET order == ListOf(deployment.present)
       IN  disk = [EmptyDisk EXCEPT !.files =
                     [p \in Paths |-> IF p \in deployment.present
                                      THEN CHOOSE i \in DOMAIN order : order[i] = p ELSE NoText]]
    /\ texts = Cardinality(deployment.present)
    /\ mem = NoMemory
    /\ status = "down"
    /\ work = <<>>
    /\ stuck = FALSE
    /\ txn = NoTxn
    /\ crashes = 0 /\ faults = 0

-----------------------------------------------------------------------------
(* Calls.                                                                   *)

\* recover_pending_transactions: journals in the order of their random names,
\* then the sweep.  Without a transactions directory there is nothing to do.
RecoveryOf(s) ==
    LET from[n \in 1 .. Len(s) + 1] ==
            IF n > Len(s) THEN <<<<"sweep">>>> ELSE RecoverySteps(s[n]) \o from[n + 1]
    IN  from[1]
RecoveryPlans(d) == IF ~d.root THEN {<<>>} ELSE {RecoveryOf(s) : s \in Listings(d.journals)}

\* The host makes call c: nothing is running and nothing is left to recover.
Call(c, steps) ==
    /\ c \in deployment.calls
    /\ status = "up" /\ work = <<>> /\ disk.journals = {}
    /\ work' = steps
    /\ UNCHANGED <<deployment, disk, status, stuck, crashes, faults>>

Opened(p) == mem.docs[p].exists
Reachable(p) ==
    /\ disk.files[p] # NoText \/ "absent" \in deployment.calls
    /\ disk.ids[p] # NoId \/ disk.next_id <= deployment.maxIds
NewText == texts < deployment.maxTexts /\ texts' = texts + 1

OpenDocument(p) ==
    /\ Reachable(p)
    /\ Call("open_document", <<<<"identify", p>>, <<"load", p>>, <<"ingest_if_needed", p>>>>)
    /\ UNCHANGED <<mem, txn, texts>>

\* session, session_mut, revision, state_vector, apply_remote: all open it first.
OpenSession(p) ==
    /\ Reachable(p)
    /\ ~Opened(p)
    /\ Call("session", <<<<"identify", p>>, <<"load", p>>>>)
    /\ UNCHANGED <<mem, txn, texts>>

IngestMarkdown(p) ==
    /\ Opened(p)
    /\ Call("ingest", <<<<"ingest", p>>>>)
    /\ UNCHANGED <<mem, txn, texts>>

\* An edit through session_mut is in memory until the host saves it.
EditInMemory(p) ==
    /\ Opened(p) /\ NewText
    /\ Call("session_mut", <<>>)
    /\ mem' = [mem EXCEPT !.docs[p] = Take(@, texts')]
    /\ UNCHANGED txn

\* with_local_edit and apply_remote: change the session, then save it.
EditAndSave(p) ==
    /\ Opened(p) /\ NewText
    /\ Call("local_edit", <<<<"save", p>>>>)
    /\ mem' = [mem EXCEPT !.docs[p] = Take(@, texts')]
    /\ UNCHANGED txn

ApplyEditBatch(p) ==
    /\ Opened(p) /\ NewText
    /\ Call("edit_batch", <<<<"save_edited", p, texts'>>>>)
    /\ UNCHANGED <<mem, txn>>

\* apply_edit_batches: all sessions are installed, then saved one by one.
ApplyEditBatches(S) ==
    /\ \A p \in S : Opened(p)
    /\ NewText
    /\ Call("edit_batches", ForEach(ListOf(S), LAMBDA p : <<"save", p>>))
    /\ mem' = [mem EXCEPT !.docs =
                 [p \in Paths |-> IF p \in S THEN Take(mem.docs[p], texts') ELSE mem.docs[p]]]
    /\ UNCHANGED txn

SaveState(p) ==
    /\ Opened(p)
    /\ Call("save_state", <<<<"save", p>>>>)
    /\ UNCHANGED <<mem, txn, texts>>

Publishable(p) == Opened(p) /\ mem.docs[p].text # NoText

ExportMarkdown(p) ==
    /\ Publishable(p)
    /\ LET t == mem.docs[p].text
       IN  Call("export", (IF disk.files[p] = t THEN <<>> ELSE <<<<"write_file", p, t>>>>)
                          \o <<<<"flush", p, t>>, <<"save", p>>>>)
    /\ txn' = NoTxn
    /\ UNCHANGED <<mem, texts>>

ExportMarkdownTransaction(S) ==
    /\ \A p \in S : Publishable(p)
    /\ LET text == [p \in Paths |-> mem.docs[p].text]
           changed == {p \in S : disk.files[p] # text[p]}
       IN  /\ Call("export_transaction", ExportSteps(ListOf(S), ListOf(changed), text))
           /\ txn' = [paths |-> changed, old |-> disk.files, new |-> text]
    /\ UNCHANGED <<mem, texts>>

CreateMarkdown(p) ==
    /\ disk.files[p] = NoText /\ NewText
    /\ disk.ids[p] # NoId \/ disk.next_id <= deployment.maxIds
    /\ Call("create", <<<<"write_file", p, texts'>>, <<"identify", p>>, <<"load", p>>,
                        <<"ingest_if_needed", p>>>>)
    /\ txn' = NoTxn
    /\ UNCHANGED mem

RenameMarkdown(from, to) ==
    /\ Opened(from) /\ disk.files[to] = NoText
    /\ Call("rename", RenameSteps(from, to, mem.ids[from]))
    /\ txn' = NoTxn
    /\ UNCHANGED <<mem, texts>>

DeleteMarkdown(p) ==
    /\ Opened(p)
    /\ Call("delete", DeleteSteps(p))
    /\ txn' = NoTxn
    /\ UNCHANGED <<mem, texts>>

Close(p) ==
    /\ Opened(p)
    /\ Call("close", <<>>)
    /\ mem' = [mem EXCEPT !.docs[p] = NoSession]
    /\ UNCHANGED <<txn, texts>>

\* recover_transactions in the running process: its memory stays as it is.
RecoverTransactions ==
    /\ "recover" \in deployment.calls
    /\ status = "up" /\ work = <<>>
    /\ work' \in RecoveryPlans(disk)
    /\ status' = IF work' = <<>> THEN "up" ELSE "recovering"
    /\ UNCHANGED <<deployment, disk, mem, stuck, txn, texts, crashes, faults>>

-----------------------------------------------------------------------------
(* The process, its steps and the world around it.                          *)

Open ==
    /\ status = "down"
    /\ work' \in RecoveryPlans(disk)
    /\ status' = IF work' = <<>> THEN "up" ELSE "opening"
    /\ UNCHANGED <<deployment, disk, mem, stuck, txn, texts, crashes, faults>>

\* An error ends the call: a failed open leaves no process.
Abort ==
    /\ work' = <<>>
    /\ status' = IF status = "opening" THEN "down" ELSE "up"
    /\ UNCHANGED <<deployment, txn, texts, crashes>>

Step ==
    /\ work # <<>>
    /\ LET r == Run(Head(work), disk, mem)
       IN  /\ disk' = r.disk /\ mem' = r.mem
           /\ UNCHANGED faults
           /\ \/ /\ r.fails
                 /\ Abort
                 /\ stuck' = (stuck \/ status \in {"opening", "recovering"})
              \/ /\ ~r.fails
                 /\ work' = r.then \o Tail(work)
                 /\ status' = IF work' = <<>> THEN "up" ELSE status
                 /\ UNCHANGED <<deployment, stuck, txn, texts, crashes>>

\* An I/O error.
StepFails ==
    /\ work # <<>>
    /\ faults < deployment.maxFaults
    /\ MayFail(Head(work))
    /\ faults' = faults + 1
    /\ disk' = IF CleansUp(Head(work)) THEN DropPending(disk) ELSE disk
    /\ Abort
    /\ UNCHANGED <<mem, stuck>>

Die ==
    /\ status' = "down" /\ mem' = NoMemory /\ work' = <<>>
    /\ UNCHANGED <<deployment, disk, stuck, txn, texts, faults>>

Crash ==
    /\ status # "down"
    /\ crashes < deployment.maxCrashes
    /\ crashes' = crashes + 1
    /\ Die

\* The host drops the vault session, saved or not.
Exit ==
    /\ status = "up" /\ work = <<>>
    /\ Die
    /\ UNCHANGED crashes

\* Another program saves a file that is there.
ExternalWrite(p) ==
    /\ "external" \in deployment.calls
    /\ disk.files[p] # NoText /\ NewText
    /\ disk' = [disk EXCEPT !.files[p] = texts']
    /\ txn' = NoTxn
    /\ UNCHANGED <<deployment, mem, status, work, stuck, crashes, faults>>

Next ==
    \/ \E p \in deployment.paths :
          \/ OpenDocument(p) \/ OpenSession(p) \/ IngestMarkdown(p) \/ Close(p)
          \/ EditInMemory(p) \/ EditAndSave(p) \/ ApplyEditBatch(p) \/ SaveState(p)
          \/ ExportMarkdown(p) \/ CreateMarkdown(p) \/ DeleteMarkdown(p)
          \/ \E q \in deployment.paths \ {p} : RenameMarkdown(p, q)
          \/ ExternalWrite(p)
    \/ \E S \in (SUBSET deployment.paths) \ {{}} :
          ApplyEditBatches(S) \/ ExportMarkdownTransaction(S)
    \/ RecoverTransactions
    \/ Open \/ Step \/ StepFails \/ Crash \/ Exit

Spec == Init /\ [][Next]_vars

\* A process that runs takes its steps, a vault is opened again, and a host that
\* was told of a recoverable transaction does not keep the process for ever.
FairSpec == Spec /\ WF_vars(Step) /\ WF_vars(Open) /\ WF_vars(Exit /\ disk.journals # {})

-----------------------------------------------------------------------------
\* A multi-document export is published as a whole or not at all: at every moment,
\* and so after every crash, the files that opening the vault leaves are all the
\* new ones or all the old ones (export_markdown_transaction writes its journal
\* after the last pending file and before it touches the first target).
AllOrNothing ==
    \/ \A p \in txn.paths : Committed(disk, p).file = txn.old[p]
    \/ \A p \in txn.paths : Committed(disk, p).file = txn.new[p]

\* What the hash gate skips was taken in: a file recorded as flushed is part of the
\* session a restart loads, or the next ingest would ignore it and the next export
\* overwrite it (ingest_file_unchecked, export_markdown, finalize_exports).
CleanMeansSaved ==
    disk.journals = {} =>
        \A p \in Paths :
            disk.files[p] # NoText /\ disk.flushed[p] = disk.files[p] =>
                disk.files[p] \in disk.sessions[p].seen

\* Between calls, and with nothing to recover, no pending file and no backup is left
\* in the vault, whatever was interrupted before (recover_pending_transactions and
\* the clean-up of failed exports).
NoOrphanTemps ==
    status = "up" /\ work = <<>> /\ disk.journals = {} =>
        \A p \in Paths : disk.pending[p] = NoText /\ disk.backup[p] = NoText

\* Opening the vault always carries an interrupted call through: recovery itself
\* never runs into a state it refuses (VaultSession::open fails otherwise).
OpenCompletes == ~stuck

\* One document, one identity: at no time do two paths share one, counting an
\* interrupted rename as done (complete_rename).
IdentityUnique ==
    \A p, q \in Paths :
        p # q /\ Committed(disk, p).id # NoId => Committed(disk, p).id # Committed(disk, q).id

\* Every step of every call, crash and recovery is one step of the abstract vault, or
\* none: the journal is the instant at which a rename, a deletion or an export of
\* several files happens.
Abstract ==
    INSTANCE CommittedVault WITH
        Places <- Paths, Contents <- Texts,
        Histories <- [text : Texts \cup {NoText}, seen : SUBSET Texts],
        NoFile <- NoText, NoIdentity <- NoId,
        NoHistory <- [text |-> NoText, seen |-> {}],
        store <- [p \in Paths |-> Committed(disk, p)],
        given <- disk.next_id - 1
Refines == Abstract!VaultSpec

\* An interrupted call is finished in the end (the vault is opened again, and
\* recovery terminates).
JournalResolved == disk.journals # {} ~> disk.journals = {}
=============================================================================
