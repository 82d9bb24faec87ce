---------------------------- MODULE VaultProofs ----------------------------
(***************************************************************************)
(* The vault keeps its promises whatever is interrupted: what VaultHolds    *)
(* says of a state is true of every state of Vault, for every set of paths  *)
(* and every deployment whose calls are Coherent.                           *)
(***************************************************************************)
EXTENDS Vault, VaultCommitProofs, VaultCallProofs

\* The inductive invariant.
VaultInv ==
    /\ deployment \in Deployments
    /\ VaultHolds(deployment.calls, disk, mem, work, status)
    /\ texts \in 0 .. deployment.maxTexts
    /\ ~stuck

\* The list of a set of paths has its members and no other.
LEMMA ListFacts ==
    ASSUME NEW S \in SUBSET Paths
    PROVE  /\ Cardinality(S) \in Nat
           /\ ListOf(S) \in Seq(S) /\ DOMAIN ListOf(S) = 1 .. Cardinality(S)
           /\ \A p \in S : \E i \in 1 .. Cardinality(S) : ListOf(S)[i] = p
           /\ Range(ListOf(S)) = S
  <1> DEFINE n == Cardinality(S)
             f == ListOf(S)
  <1>1. n \in Nat /\ Bijection(1 .. n, S) # {}
    BY PathsAssumption DEF Listings
  <1>2. f \in Bijection(1 .. n, S)
    BY <1>1 DEF ListOf, Listings
  <1> HIDE DEF f
  <1>3. f \in [1 .. n -> S] /\ \A p \in S : \E i \in 1 .. n : f[i] = p
    BY <1>2 DEF Bijection, Surjection
  <1>4. f \in Seq(S) /\ Range(f) = S
    BY <1>1, <1>3, Listed DEF Range
  <1> QED
    BY <1>1, <1>3, <1>4 DEF f

\* The vault as it is found: the Markdown files and nothing else.
LEMMA InitHolds ==
    ASSUME Init
    PROVE  VaultInv
  <1> DEFINE here == deployment.present
             order == ListOf(here)
             files == [p \in Paths |-> IF p \in here THEN CHOOSE i \in DOMAIN order : order[i] = p
                                                     ELSE NoText]
  <1>1. /\ deployment \in Deployments /\ disk = [EmptyDisk EXCEPT !.files = files]
        /\ texts = Cardinality(here) /\ mem = NoMemory /\ status = "down" /\ work = <<>> /\ stuck = FALSE
    BY DEF Init
  <1>2. /\ here \subseteq Paths /\ deployment.maxTexts \in 0 .. MaxTexts
        /\ Cardinality(here) <= deployment.maxTexts
    BY <1>1, VaultAssumption
  <1>4. /\ Cardinality(here) \in Nat /\ DOMAIN order = 1 .. Cardinality(here)
        /\ \A p \in here : \E i \in 1 .. Cardinality(here) : order[i] = p
    BY <1>2, ListFacts
  <1> HIDE DEF order
  <1>5. \A p \in here : (CHOOSE i \in DOMAIN order : order[i] = p) \in 1 .. Cardinality(here)
    BY <1>4
  <1>6. files \in [Paths -> Texts \cup {NoText}]
    BY <1>2, <1>4, <1>5, VaultDiskAssumption DEF Texts
  <1> HIDE DEF files, here
  <1>7. DiskHolds(deployment.calls, disk)
    BY <1>1, <1>6, FoundDisk
  <1>8. VaultHolds(deployment.calls, disk, mem, work, status)
    BY <1>1, <1>6, <1>7, FoundHolds
  <1> QED
    BY <1>1, <1>2, <1>4, <1>8 DEF VaultInv, here

\* The journals there may be: none, or one.
LEMMA CountFew == Cardinality({}) = 0 /\ \A x : Cardinality({x}) = 1
  <1>1. Cardinality({}) = 0
    <2> DEFINE Counts(g) == g = [T \in SUBSET {} |-> IF T = {} THEN 0 ELSE 1 + g[T \ {CHOOSE y : y \in T}]]
               f == CHOOSE g : Counts(g)
               none == [T \in SUBSET {} |-> 0]
    <2>1. Cardinality({}) = f[{}]
      BY DEF Cardinality
    <2>2. Counts(none)
      OBVIOUS
    <2>3. Counts(f)
      <3> HIDE DEF Counts, none
      <3> QED
        BY <2>2
    <2> HIDE DEF f
    <2> QED
      BY <2>1, <2>3
  <1>2. ASSUME NEW x
        PROVE  Cardinality({x}) = 1
    <2> DEFINE S == {x}
               Counts(g) == g = [T \in SUBSET S |-> IF T = {} THEN 0 ELSE 1 + g[T \ {CHOOSE y : y \in T}]]
               f == CHOOSE g : Counts(g)
               few == [T \in SUBSET S |-> IF T = {} THEN 0 ELSE 1]
    <2>1. Cardinality({x}) = f[S]
      BY DEF Cardinality
    <2>2. ASSUME NEW T \in SUBSET S, T # {}
          PROVE  T = S /\ T \ {CHOOSE y : y \in T} = {}
      BY <2>2
    <2>3. Counts(few)
      BY <2>2
    <2>4. Counts(f)
      <3> HIDE DEF Counts, few
      <3> QED
        BY <2>3
    <2> HIDE DEF f
    <2>5. S # {} /\ S \in SUBSET S /\ {} \in SUBSET S
      OBVIOUS
    <2>6. S \ {CHOOSE y : y \in S} = {}
      BY <2>2, <2>5
    <2>7. f[{}] = 0
      BY <2>4, <2>5
    <2> QED
      BY <2>1, <2>4, <2>5, <2>6, <2>7
  <1> QED
    BY <1>1, <1>2

\* What recovery does: nothing without a transactions directory, the one journal
\* there may be, and the sweep.
LEMMA RecoveryOfFew ==
    ASSUME NEW s, Len(s) \in {0, 1}
    PROVE  RecoveryOf(s) = IF Len(s) = 0 THEN <<<<"sweep">>>> ELSE RecoverySteps(s[1]) \o <<<<"sweep">>>>
  <1>0. ASSUME NEW l, l = 0 \/ l = 1, NEW n \in 1 .. l + 1, ~(n > l)
        PROVE  n = 1 /\ l = 1
    <2>1. CASE l = 0
      BY <1>0, <2>1
    <2>2. CASE l = 1
      BY <1>0, <2>2
    <2> QED
      BY <1>0, <2>1, <2>2
  <1> DEFINE last == <<<<"sweep">>>>
             one == RecoverySteps(s[1]) \o last
             D == 1 .. Len(s) + 1
             from[n \in D] == IF n > Len(s) THEN last ELSE RecoverySteps(s[n]) \o from[n + 1]
             Onward(g) == g = [n \in D |-> IF n > Len(s) THEN last ELSE RecoverySteps(s[n]) \o g[n + 1]]
             few == [n \in D |-> IF n > Len(s) THEN last ELSE one]
  <1>1. RecoveryOf(s) = from[1] /\ from = CHOOSE g : Onward(g)
    BY DEF RecoveryOf
  <1> HIDE DEF last, from
  <1>2. ASSUME NEW n \in D
        PROVE  few[n] = IF n > Len(s) THEN last ELSE RecoverySteps(s[n]) \o few[n + 1]
    <2>1. CASE n > Len(s)
      BY <2>1
    <2>2. CASE ~(n > Len(s))
      <3>5. n = 1 /\ Len(s) = 1
        BY Zenon, <2>2, <1>0
      <3>1. n = 1 /\ Len(s) = 1 /\ n + 1 \in D /\ n + 1 > Len(s)
        BY <3>5
      <3> HIDE DEF D
      <3>2. few[n] = one /\ few[n + 1] = last
        BY <2>2, <3>1
      <3> QED
        BY <2>2, <3>1, <3>2
    <2> QED
      BY <2>1, <2>2
  <1> HIDE DEF D, one
  <1>3. Onward(few)
    BY <1>2
  <1>4. Onward(from)
    <2> HIDE DEF Onward, few
    <2> QED
      BY <1>1, <1>3
  <1>5. ASSUME NEW n \in D
        PROVE  from[n] = IF n > Len(s) THEN last ELSE RecoverySteps(s[n]) \o from[n + 1]
    BY Zenon, <1>4
  <1>6. CASE Len(s) = 0
    <2>1. 1 \in D /\ 1 > Len(s)
      BY <1>6 DEF D
    <2> QED
      BY Zenon, <1>1, <1>5, <1>6, <2>1 DEF last
  <1>7. CASE Len(s) = 1
    <2>1. 1 \in D /\ 2 \in D /\ 1 + 1 = 2 /\ ~(1 > Len(s)) /\ 2 > Len(s)
      BY <1>7 DEF D
    <2>2. from[2] = last
      BY <1>5, <2>1
    <2>3. from[1] = RecoverySteps(s[1]) \o from[1 + 1]
      BY Zenon, <1>5, <2>1
    <2> QED
      BY Zenon, <1>1, <1>7, <2>1, <2>2, <2>3 DEF last
  <1> QED
    BY <1>6, <1>7

\* What there is to recover: nothing, the sweep, or one journal and the sweep.
LEMMA Plans ==
    ASSUME NEW d \in DiskType, \A i, j \in d.journals : i = j, NEW w \in RecoveryPlans(d)
    PROVE  \/ ~d.root /\ w = <<>>
           \/ d.root /\ d.journals = {} /\ w = <<<<"sweep">>>>
           \/ \E j \in d.journals : w = RecoverySteps(j) \o <<<<"sweep">>>>
  <1>1. CASE ~d.root
    BY <1>1 DEF RecoveryPlans
  <1>2. CASE d.root
    <2>1. PICK s \in Bijection(1 .. Cardinality(d.journals), d.journals) : w = RecoveryOf(s)
      BY <1>2 DEF RecoveryPlans, Listings
    <2>2. s \in [1 .. Cardinality(d.journals) -> d.journals]
      BY DEF Bijection, Surjection
    <2>3. CASE d.journals = {}
      <3>1. s \in [1 .. 0 -> {}]
        BY <2>2, <2>3, CountFew
      <3>2. Len(s) = 0
        BY <3>1
      <3> QED
        BY <1>2, <2>1, <2>3, <3>2, RecoveryOfFew
    <2>4. CASE d.journals # {}
      <3>1. PICK j : d.journals = {j}
        BY <2>4
      <3>2. s \in [1 .. 1 -> {j}]
        BY Zenon, <2>2, <3>1, CountFew
      <3>3. Len(s) = 1 /\ s[1] = j
        BY <3>2
      <3> QED
        BY <2>1, <3>1, <3>3, RecoveryOfFew
    <2> QED
      BY <2>3, <2>4
  <1> QED
    BY Zenon, <1>1, <1>2 DEF DiskType

-----------------------------------------------------------------------------
(* The actions keep the invariant.                                          *)

\* What the host may rely on when it makes a call: nothing runs, nothing is left.
LEMMA HostIdle ==
    ASSUME VaultInv, NEW name, NEW steps, Call(name, steps)
    PROVE  /\ Idle(deployment.calls, disk, mem) /\ name \in deployment.calls
           /\ deployment.paths \subseteq Paths
  BY VaultAssumption DEF VaultInv, Call, Idle

\* A call whose steps keep the invariant in the memory it leaves is one.
LEMMA CallHolds ==
    ASSUME VaultInv, NEW name, NEW steps, Call(name, steps),
           VaultHolds(deployment.calls, disk, mem', steps, "up"),
           texts' \in 0 .. deployment.maxTexts
    PROVE  VaultInv'
  BY DEF VaultInv, Call

\* A text that is written for the first time.
LEMMA FreshText ==
    ASSUME VaultInv, NewText
    PROVE  texts' \in Texts /\ texts' \in 0 .. deployment.maxTexts
  <1>1. /\ deployment.maxTexts \in 0 .. MaxTexts /\ texts \in 0 .. deployment.maxTexts
        /\ texts < deployment.maxTexts /\ texts' = texts + 1
    BY VaultAssumption DEF VaultInv, NewText
  <1> QED
    BY <1>1, VaultDiskAssumption DEF Texts

\* Calls that open a document, read its file, edit it or save it.
LEMMA OpenDocumentHolds ==
    ASSUME VaultInv, NEW p \in deployment.paths, OpenDocument(p) \/ OpenSession(p)
    PROVE  VaultInv'
  <1> DEFINE short == <<<<"identify", p>>, <<"load", p>>>>
             long == <<<<"identify", p>>, <<"load", p>>, <<"ingest_if_needed", p>>>>
  <1>1. /\ mem' = mem /\ texts' = texts
        /\ disk.files[p] # NoText \/ "absent" \in deployment.calls
        /\ \/ Call("open_document", long)
           \/ Call("session", short)
    BY DEF OpenDocument, OpenSession, Reachable
  <1>2. Idle(deployment.calls, disk, mem) /\ p \in Paths
    BY <1>1, HostIdle
  <1>3. /\ VaultHolds(deployment.calls, disk, mem', short, "up")
        /\ VaultHolds(deployment.calls, disk, mem', long, "up")
    BY <1>1, <1>2, StartOpen
  <1>4. texts' \in 0 .. deployment.maxTexts
    BY <1>1 DEF VaultInv
  <1> HIDE DEF short, long
  <1> QED
    BY <1>1, <1>3, <1>4, CallHolds

\* Calls of a single step: ingest_markdown, save_state, apply_edit_batch.
LEMMA OneStepHolds ==
    ASSUME VaultInv, NEW p \in deployment.paths,
           IngestMarkdown(p) \/ SaveState(p) \/ ApplyEditBatch(p)
    PROVE  VaultInv'
  <1>1. PICK name, s : /\ Call(name, <<s>>) /\ mem' = mem /\ mem.docs[p].exists
                       /\ \/ s \in {<<"ingest", p>>, <<"save", p>>} /\ texts' = texts
                          \/ s = <<"save_edited", p, texts'>> /\ NewText
    BY Zenon DEF IngestMarkdown, SaveState, ApplyEditBatch, Opened
  <1>2. Idle(deployment.calls, disk, mem) /\ p \in Paths
    BY <1>1, HostIdle
  <1>3. texts' \in 0 .. deployment.maxTexts
    BY <1>1, FreshText DEF VaultInv
  <1>4. s \in {<<"ingest", p>>, <<"save", p>>} \cup {<<"save_edited", p, t>> : t \in Texts}
    BY <1>1, FreshText
  <1>5. VaultHolds(deployment.calls, disk, mem, <<s>>, "up")
    BY <1>1, <1>2, <1>4, StartOne
  <1> QED
    BY <1>1, <1>3, <1>5, CallHolds

\* Memory changes before the steps are taken: an edit, or a document that is closed.
LEMMA CloseHolds ==
    ASSUME VaultInv, NEW p \in deployment.paths, Close(p)
    PROVE  VaultInv'
  <1>1. Call("close", <<>>) /\ texts' = texts /\ mem' = [mem EXCEPT !.docs[p] = NoSession]
    BY DEF Close
  <1>2. Idle(deployment.calls, disk, mem) /\ p \in Paths
    BY <1>1, HostIdle
  <1>3. mem \in MemType
    BY <1>2, IdleFacts
  <1>4. /\ mem' \in MemType /\ mem'.ids = mem.ids
        /\ \A q \in Paths : mem'.docs[q] \in {mem.docs[q], NoSession}
    BY Zenon, <1>1, <1>2, <1>3 DEF MemType, Session, NoSession
  <1>5. Idle(deployment.calls, disk, mem')
    BY <1>2, <1>4, IdleMemory
  <1>6. VaultHolds(deployment.calls, disk, mem', <<>>, "up") /\ texts' \in 0 .. deployment.maxTexts
    BY <1>1, <1>5 DEF Idle, VaultInv
  <1> QED
    BY <1>1, <1>6, CallHolds

\* Edits in memory, saved or not (session_mut, local edits).
LEMMA EditHolds ==
    ASSUME VaultInv, NEW p \in deployment.paths, EditInMemory(p) \/ EditAndSave(p)
    PROVE  VaultInv'
  <1>1. /\ mem.docs[p].exists /\ NewText
        /\ mem' = [mem EXCEPT !.docs[p] = Take(mem.docs[p], texts')]
        /\ Call("session_mut", <<>>) \/ Call("local_edit", <<<<"save", p>>>>)
    BY DEF EditInMemory, EditAndSave, Opened
  <1>2. Idle(deployment.calls, disk, mem) /\ p \in Paths
    BY <1>1, HostIdle
  <1>3. mem \in MemType
    BY <1>2, IdleFacts
  <1>4. texts' \in Texts /\ texts' \in 0 .. deployment.maxTexts
    BY <1>1, FreshText
  <1>5. /\ mem' \in MemType /\ mem'.ids = mem.ids /\ mem'.docs[p] = Take(mem.docs[p], texts')
        /\ \A q \in Paths \ {p} : mem'.docs[q] = mem.docs[q]
    BY Zenon, <1>1, <1>2, <1>3, <1>4 DEF MemType, Session, Take
  <1>6. Idle(deployment.calls, disk, mem')
    <2>1. \A q \in Paths :
            \/ mem'.docs[q] \in {mem.docs[q], NoSession}
            \/ mem.docs[q].exists /\ mem'.docs[q] = Take(mem.docs[q], texts')
      BY <1>1, <1>5
    <2> QED
      BY <1>2, <1>5, <2>1, IdleMemory
  <1>7. mem'.docs[p].exists
    BY <1>5 DEF Take
  <1>8. /\ VaultHolds(deployment.calls, disk, mem', <<>>, "up")
        /\ VaultHolds(deployment.calls, disk, mem', <<<<"save", p>>>>, "up")
    BY <1>2, <1>6, <1>7, StartOne DEF Idle
  <1> QED
    BY <1>1, <1>4, <1>8, CallHolds

\* Edits of several documents, saved one by one (apply_edit_batches).
LEMMA EditBatchesHold ==
    ASSUME VaultInv, NEW S \in SUBSET deployment.paths, ApplyEditBatches(S)
    PROVE  VaultInv'
  <1> DEFINE all == ListOf(S)
             steps == ForEach(all, LAMBDA p : <<"save", p>>)
  <1>1. /\ \A p \in S : mem.docs[p].exists
        /\ NewText /\ Call("edit_batches", steps)
        /\ mem' = [mem EXCEPT !.docs = [p \in Paths |-> IF p \in S THEN Take(mem.docs[p], texts')
                                                                   ELSE mem.docs[p]]]
    BY Zenon DEF ApplyEditBatches, Opened
  <1> HIDE DEF steps
  <1>2. Idle(deployment.calls, disk, mem) /\ S \subseteq Paths
    BY <1>1, HostIdle
  <1>3. mem \in MemType
    BY <1>2, IdleFacts
  <1>4. texts' \in Texts /\ texts' \in 0 .. deployment.maxTexts
    BY <1>1, FreshText
  <1>5. /\ mem' \in MemType /\ mem'.ids = mem.ids
        /\ \A q \in Paths : mem'.docs[q] = IF q \in S THEN Take(mem.docs[q], texts') ELSE mem.docs[q]
    BY Zenon, <1>1, <1>2, <1>3, <1>4 DEF MemType, Session, Take
  <1>6. Idle(deployment.calls, disk, mem')
    <2>1. \A q \in Paths :
            \/ mem'.docs[q] \in {mem.docs[q], NoSession}
            \/ mem.docs[q].exists /\ mem'.docs[q] = Take(mem.docs[q], texts')
      BY <1>1, <1>5
    <2> QED
      BY <1>2, <1>5, <2>1, IdleMemory
  <1>8. all \in Seq(S)
    BY <1>2, ListFacts
  <1> HIDE DEF all
  <1>9. all \in Seq(Paths)
    BY <1>2, <1>8
  <1>10. VaultHolds(deployment.calls, disk, mem', steps, "up")
    BY Zenon, <1>6, <1>9, StartSaves DEF steps
  <1> QED
    BY <1>1, <1>4, <1>10, CallHolds

\* Publishing documents.
LEMMA ExportHolds ==
    ASSUME VaultInv, NEW p \in deployment.paths, ExportMarkdown(p)
    PROVE  VaultInv'
  <1> DEFINE t == mem.docs[p].text
             u == IF disk.files[p] = t THEN <<>> ELSE <<<<"write_file", p, t>>>>
             steps == u \o <<<<"flush", p, t>>, <<"save", p>>>>
  <1>1. /\ mem.docs[p].exists /\ t # NoText /\ mem' = mem /\ texts' = texts /\ Call("export", steps)
    BY Zenon DEF ExportMarkdown, Publishable, Opened
  <1> HIDE DEF steps
  <1>2. Idle(deployment.calls, disk, mem) /\ p \in Paths /\ "export" \in deployment.calls
    BY <1>1, HostIdle
  <1>3. mem \in MemType
    BY <1>2, IdleFacts
  <1>4. t \in Texts
    BY <1>1, <1>2, <1>3 DEF MemType, Session
  <1>5. u \in {<<>>, <<<<"write_file", p, t>>>>}
    OBVIOUS
  <1> HIDE DEF t, u
  <1>6. VaultHolds(deployment.calls, disk, mem', steps, "up")
    BY Zenon, <1>1, <1>2, <1>4, <1>5, StartExport DEF steps
  <1>7. texts' \in 0 .. deployment.maxTexts
    BY <1>1 DEF VaultInv
  <1> QED
    BY <1>1, <1>6, <1>7, CallHolds

\* Exporting several documents at once (export_markdown_transaction).
LEMMA ExportTransactionHolds ==
    ASSUME VaultInv, NEW S \in SUBSET deployment.paths, ExportMarkdownTransaction(S)
    PROVE  VaultInv'
  <1> DEFINE text == [p \in Paths |-> mem.docs[p].text]
             C == {p \in S : disk.files[p] # text[p]}
             all == ListOf(S)
             changed == ListOf(C)
             steps == ExportSteps(all, changed, text)
  <1>1. /\ \A p \in S : mem.docs[p].exists /\ mem.docs[p].text # NoText
        /\ mem' = mem /\ texts' = texts /\ Call("export_transaction", steps)
    BY Zenon DEF ExportMarkdownTransaction, Publishable, Opened
  <1> HIDE DEF steps
  <1>2. Idle(deployment.calls, disk, mem) /\ S \subseteq Paths
    BY <1>1, HostIdle
  <1>3. C \subseteq S /\ C \subseteq Paths
    BY <1>2
  <1>5. all \in Seq(S) /\ Range(all) = S /\ changed \in Seq(C) /\ Range(changed) = C
    BY Zenon, <1>2, <1>3, ListFacts
  <1>6. \A p \in S : text[p] = mem.docs[p].text
    BY <1>2
  <1> HIDE DEF all, changed, C, text
  <1>7. all \in Seq(Paths) /\ changed \in Seq(Paths) /\ Range(changed) \subseteq Range(all)
    BY <1>2, <1>3, <1>5
  <1>8. VaultHolds(deployment.calls, disk, mem, steps, "up")
    BY <1>1, <1>2, <1>5, <1>6, <1>7, StartExports DEF steps
  <1>9. VaultHolds(deployment.calls, disk, mem', steps, "up") /\ texts' \in 0 .. deployment.maxTexts
    BY <1>1, <1>8 DEF VaultInv
  <1> QED
    BY <1>1, <1>9, CallHolds

\* Creating, renaming and deleting documents.
LEMMA CreateHolds ==
    ASSUME VaultInv, NEW p \in deployment.paths, CreateMarkdown(p)
    PROVE  VaultInv'
  <1> DEFINE steps == <<<<"write_file", p, texts'>>, <<"identify", p>>, <<"load", p>>,
                        <<"ingest_if_needed", p>>>>
  <1>1. NewText /\ mem' = mem /\ Call("create", steps)
    BY DEF CreateMarkdown
  <1> HIDE DEF steps
  <1>2. Idle(deployment.calls, disk, mem) /\ p \in Paths
    BY <1>1, HostIdle
  <1>3. texts' \in Texts /\ texts' \in 0 .. deployment.maxTexts
    BY <1>1, FreshText
  <1>4. VaultHolds(deployment.calls, disk, mem', steps, "up")
    BY <1>1, <1>2, <1>3, StartCreate DEF steps
  <1> QED
    BY <1>1, <1>3, <1>4, CallHolds

\* Renaming a document (rename_markdown).
LEMMA RenameHolds ==
    ASSUME VaultInv, Coherent(deployment.calls),
           NEW from \in deployment.paths, NEW to \in deployment.paths \ {from}, RenameMarkdown(from, to)
    PROVE  VaultInv'
  <1> DEFINE steps == RenameSteps(from, to, mem.ids[from])
  <1>1. /\ mem.docs[from].exists /\ disk.files[to] = NoText
        /\ mem' = mem /\ texts' = texts /\ Call("rename", steps)
    BY DEF RenameMarkdown, Opened
  <1> HIDE DEF steps
  <1>2. /\ Idle(deployment.calls, disk, mem) /\ from \in Paths /\ to \in Paths
        /\ "rename" \in deployment.calls
    BY <1>1, HostIdle
  <1>3. VaultHolds(deployment.calls, disk, mem', steps, "up")
    BY <1>1, <1>2, StartRename DEF steps
  <1>4. texts' \in 0 .. deployment.maxTexts
    BY <1>1 DEF VaultInv
  <1> QED
    BY <1>1, <1>3, <1>4, CallHolds

\* Deleting a document (delete_markdown).
LEMMA DeleteHolds ==
    ASSUME VaultInv, NEW p \in deployment.paths, DeleteMarkdown(p)
    PROVE  VaultInv'
  <1>1. mem' = mem /\ texts' = texts /\ Call("delete", DeleteSteps(p))
    BY DEF DeleteMarkdown
  <1>2. Idle(deployment.calls, disk, mem) /\ p \in Paths /\ "delete" \in deployment.calls
    BY <1>1, HostIdle
  <1>3. VaultHolds(deployment.calls, disk, mem', DeleteSteps(p), "up")
    BY <1>1, <1>2, StartDelete
  <1>4. texts' \in 0 .. deployment.maxTexts
    BY <1>1 DEF VaultInv
  <1> QED
    BY <1>1, <1>3, <1>4, CallHolds

\* Opening the vault, and recovering in a running process.
LEMMA RecoveryHolds ==
    ASSUME VaultInv, Open \/ RecoverTransactions
    PROVE  VaultInv'
  <1> DEFINE c == deployment.calls
             st == IF status = "down" THEN "opening" ELSE "recovering"
             sweep == <<<<"sweep">>>>
  <1>1. /\ work' \in RecoveryPlans(disk) /\ Recovers(c, status, st)
        /\ deployment' = deployment /\ disk' = disk /\ mem' = mem /\ stuck' = stuck /\ texts' = texts
        /\ status' = IF work' = <<>> THEN "up" ELSE st
    BY DEF Open, RecoverTransactions, Recovers
  <1>2. VaultHolds(c, disk, mem, <<>>, status)
    <2>1. VaultHolds(c, disk, mem, work, status)
      BY DEF VaultInv
    <2>2. work = <<>>
      BY <2>1 DEF Open, RecoverTransactions, VaultHolds, StatusHolds
    <2> QED
      BY <2>1, <2>2
  <1> HIDE DEF st, c
  <1>3. disk \in DiskType /\ \A i, j \in disk.journals : i = j
    BY <1>2 DEF VaultHolds, DiskHolds, JournalsHold
  <1>4. /\ \A j \in disk.journals : /\ VaultHolds(c, disk, mem, RecoverySteps(j) \o sweep, st)
                                    /\ RecoverySteps(j) \o sweep # <<>>
        /\ disk.journals = {} /\ disk.root => VaultHolds(c, disk, mem, sweep, st)
        /\ ~disk.root => VaultHolds(c, disk, mem, <<>>, "up")
    BY Zenon, <1>1, <1>2, StartRecovery
  <1>5. sweep # <<>>
    OBVIOUS
  <1>6. \/ ~disk.root /\ work' = <<>>
        \/ disk.root /\ disk.journals = {} /\ work' = sweep
        \/ \E j \in disk.journals : work' = RecoverySteps(j) \o sweep
    BY Zenon, <1>1, <1>3, Plans
  <1> HIDE DEF sweep
  <1>7. VaultHolds(c, disk, mem, work', status')
    BY Zenon, <1>1, <1>4, <1>5, <1>6
  <1> QED
    BY <1>1, <1>7 DEF VaultInv, c

\* A step that is taken, that refuses, or that an I/O error interrupts.
LEMMA RunHolds ==
    ASSUME VaultInv, Coherent(deployment.calls), Step \/ StepFails
    PROVE  VaultInv'
  <1> DEFINE c == deployment.calls
             r == Run(work[1], disk, mem)
             v == r.then \o Tail(work)
             st == IF status = "opening" THEN "down" ELSE "up"
  <1>1. VaultHolds(c, disk, mem, work, status) /\ work # <<>> /\ ~stuck
    BY Zenon DEF VaultInv, Step, StepFails
  <1>2. Head(work) = work[1]
    BY <1>1, TailFacts DEF VaultHolds, StatusHolds
  <1>3. Outcome(c, disk, mem, work, status)
    BY <1>1, StepHolds
  <1>4. /\ r.fails => r.disk = disk /\ r.mem = mem /\ status = "up" /\ MayFail(work[1]) /\ ~CleansUp(work[1])
        /\ ~r.fails => VaultHolds(c, r.disk, r.mem, v, IF v = <<>> THEN "up" ELSE status)
    BY <1>3 DEF Outcome
  <1>5. MayFail(work[1]) =>
            VaultHolds(c, IF CleansUp(work[1]) THEN DropPending(disk) ELSE disk, mem, <<>>, st)
    BY <1>1, AbortHolds
  <1>6. CASE Step
    <2>1. /\ disk' = r.disk /\ mem' = r.mem /\ deployment' = deployment /\ texts' = texts
          /\ \/ /\ r.fails /\ work' = <<>> /\ status' = st
                /\ stuck' = (stuck \/ status \in {"opening", "recovering"})
             \/ ~r.fails /\ work' = v /\ stuck' = stuck /\ status' = IF work' = <<>> THEN "up" ELSE status
      BY <1>2, <1>6, Zenon DEF Step, Abort
    <2> HIDE DEF r, v
    <2>2. CASE r.fails
      <3>1. disk' = disk /\ mem' = mem /\ work' = <<>> /\ status' = "up" /\ ~stuck'
        BY Zenon, <1>1, <1>4, <2>1, <2>2
      <3>2. VaultHolds(c, disk, mem, <<>>, "up")
        BY <1>4, <1>5, <2>2
      <3> QED
        BY <2>1, <3>1, <3>2 DEF VaultInv
    <2>3. CASE ~r.fails
      <3>1. work' = v /\ stuck' = stuck /\ status' = IF v = <<>> THEN "up" ELSE status
        BY <2>1, <2>3
      <3>2. VaultHolds(c, disk', mem', work', status')
        BY <1>4, <2>1, <2>3, <3>1
      <3> QED
        BY <1>1, <2>1, <3>1, <3>2 DEF VaultInv
    <2> QED
      BY <2>2, <2>3
  <1>7. CASE StepFails
    <2>1. /\ deployment' = deployment /\ texts' = texts /\ mem' = mem /\ stuck' = stuck
          /\ work' = <<>> /\ status' = st /\ MayFail(work[1])
          /\ disk' = IF CleansUp(work[1]) THEN DropPending(disk) ELSE disk
      BY <1>2, <1>7, Zenon DEF StepFails, Abort
    <2> QED
      BY <1>5, <2>1 DEF VaultInv
  <1> QED
    BY <1>6, <1>7

\* The end of the process, and another program's write.
LEMMA DeathHolds ==
    ASSUME VaultInv, Crash \/ Exit
    PROVE  VaultInv'
  <1>1. /\ deployment' = deployment /\ texts' = texts /\ disk' = disk /\ stuck' = stuck
        /\ mem' = NoMemory /\ work' = <<>> /\ status' = "down"
    BY DEF Crash, Exit, Die
  <1>2. VaultHolds(deployment.calls, disk, NoMemory, <<>>, "down")
    BY DieHolds DEF VaultInv
  <1> QED
    BY <1>1, <1>2 DEF VaultInv

\* Another program's write.
LEMMA ExternalWriteHolds ==
    ASSUME VaultInv, NEW p \in deployment.paths, ExternalWrite(p)
    PROVE  VaultInv'
  <1>1. /\ disk.files[p] # NoText /\ NewText /\ disk' = [disk EXCEPT !.files[p] = texts']
        /\ deployment' = deployment /\ mem' = mem /\ status' = status /\ work' = work /\ stuck' = stuck
    BY DEF ExternalWrite
  <1>2. p \in Paths
    BY VaultAssumption DEF VaultInv
  <1>3. texts' \in Texts /\ texts' \in 0 .. deployment.maxTexts
    BY <1>1, FreshText
  <1>4. VaultHolds(deployment.calls, disk', mem, work, status)
    BY <1>1, <1>2, <1>3, ExternalHolds DEF VaultInv
  <1> QED
    BY <1>1, <1>3, <1>4 DEF VaultInv

\* Every action keeps the invariant.
LEMMA NextHolds ==
    ASSUME VaultInv, Coherent(deployment.calls), [Next]_vars
    PROVE  VaultInv'
  <1>1. CASE UNCHANGED vars
    BY <1>1 DEF VaultInv, vars
  <1>2. CASE \E p \in deployment.paths :
                \/ OpenDocument(p) \/ OpenSession(p) \/ IngestMarkdown(p) \/ Close(p)
                \/ EditInMemory(p) \/ EditAndSave(p) \/ ApplyEditBatch(p) \/ SaveState(p)
                \/ ExportMarkdown(p) \/ CreateMarkdown(p) \/ DeleteMarkdown(p)
                \/ \E q \in deployment.paths \ {p} : RenameMarkdown(p, q)
                \/ ExternalWrite(p)
    BY <1>2, OpenDocumentHolds, OneStepHolds, CloseHolds, EditHolds, ExportHolds, CreateHolds,
       DeleteHolds, RenameHolds, ExternalWriteHolds
  <1>3. CASE \E S \in (SUBSET deployment.paths) \ {{}} :
                ApplyEditBatches(S) \/ ExportMarkdownTransaction(S)
    BY <1>3, EditBatchesHold, ExportTransactionHolds
  <1>4. CASE RecoverTransactions \/ Open
    BY <1>4, RecoveryHolds
  <1>5. CASE Step \/ StepFails
    BY <1>5, RunHolds
  <1>6. CASE Crash \/ Exit
    BY <1>6, DeathHolds
  <1> QED
    BY <1>1, <1>2, <1>3, <1>4, <1>5, <1>6, Zenon DEF Next

\* The hosts the theorems are about: no deployment renames or deletes documents and
\* recovers in the running process, or renames documents and opens absent ones.
CoherentHosts == \A d \in Deployments : Coherent(d.calls)

\* VaultHolds is true of every state, whatever is called, fails or dies.
THEOREM VaultInvariance ==
    ASSUME CoherentHosts
    PROVE  Spec => []VaultInv
  <1>1. Init => VaultInv
    BY InitHolds
  <1>2. VaultInv /\ [Next]_vars => VaultInv'
    <2>1. VaultInv => Coherent(deployment.calls)
      BY DEF CoherentHosts, VaultInv
    <2> QED
      BY <2>1, NextHolds
  <1> QED
    BY <1>1, <1>2, PTL DEF Spec

\* Recovery never gives up of its own: opening the vault carries out the journal that
\* an interrupted export, rename or deletion left, in whatever state it was
\* interrupted (VaultSession::open, recover_pending_transactions).
THEOREM RecoveryNeverRefuses ==
    ASSUME CoherentHosts
    PROVE  Spec => []OpenCompletes
  <1>1. VaultInv => OpenCompletes
    BY DEF VaultInv, OpenCompletes
  <1>2. Spec => []VaultInv
    BY VaultInvariance
  <1> QED
    BY <1>1, <1>2, PTL

\* With nothing running and nothing to recover the vault holds no pending file and no
\* backup of any export, failed or interrupted (cleanup_pending_entries,
\* recover_pending_transactions).
THEOREM TemporariesAreSwept ==
    ASSUME CoherentHosts
    PROVE  Spec => []NoOrphanTemps
  <1>1. VaultInv => NoOrphanTemps
    <2>1. ASSUME VaultInv, status = "up", work = <<>>, disk.journals = {}
          PROVE  NoTemps(disk)
      BY <2>1 DEF VaultInv, VaultHolds, TempsHold
    <2> QED
      BY <2>1 DEF NoOrphanTemps, NoTemps
  <1>2. Spec => []VaultInv
    BY VaultInvariance
  <1> QED
    BY <1>1, <1>2, PTL

-----------------------------------------------------------------------------
(* Exports of several documents.                                            *)

\* A step of a call keeps what is true of the last export.
LEMMA TxnStep ==
    ASSUME NEW c, NEW d, NEW m, NEW w, NEW st, NEW x, VaultHolds(c, d, m, w, st), Coherent(c),
           w # <<>>, TxnHolds(d, w, x), ~Run(w[1], d, m).fails
    PROVE  TxnHolds(Run(w[1], d, m).disk, Run(w[1], d, m).then \o Tail(w), x)
  <1> DEFINE r == Run(w[1], d, m)
  <1> SUFFICES ASSUME x.paths # {}
               PROVE  (Whole(r.disk, x) /\ Quiet(r.then \o Tail(w)))
                      \/ Unpublished(r.disk, r.then \o Tail(w), x)
    BY DEF TxnHolds
  <1>1. d \in DiskType /\ DiskHolds(c, d) /\ w \in Seq(Range(w)) /\ x.paths \subseteq Paths
    <2>1. d \in DiskType /\ DiskHolds(c, d)
      BY DEF VaultHolds, DiskHolds
    <2>2. w \in Seq(Range(w))
      BY DEF VaultHolds, StatusHolds
    <2>3. x.paths \subseteq Paths
      BY DEF TxnHolds
    <2> QED
      BY <2>1, <2>2, <2>3
  <1>2. r.then = <<>> => r.then \o Tail(w) = Tail(w)
    <2>1. Tail(w) \in Seq(Range(Tail(w)))
      BY <1>1, TailFacts
    <2> HIDE DEF r
    <2> QED
      BY <2>1
  <1>3. CASE Whole(d, x) /\ Quiet(w)
    <2>1. ~Publishes(w[1]) /\ \A k \in 2 .. Len(w) : ~Publishes(w[k])
      BY <1>1, <1>3, TailFacts DEF Quiet
    <2>2. Inward(d, r.disk)
      BY <2>1, StepCommits DEF Commits, Publishes
    <2>3. Whole(r.disk, x)
      BY <1>1, <1>3, <2>2, InwardWhole
    <2>4. Quiet(r.then) /\ Steps(r.then)
      BY StepKind, ThenQuiet
    <2> HIDE DEF r
    <2>5. Quiet(r.then \o Tail(w))
      BY <1>1, <2>1, <2>4, QuietTail, QuietJoin
    <2> QED
      BY <2>3, <2>5
  <1>4. CASE Unpublished(d, w, x)
    <2>1. PICK n \in 1 .. Len(w) : Ahead(d, w, n, x)
      BY <1>4 DEF Unpublished
    <2>2. d.journals = {} /\ \A p \in x.paths : d.files[p] = x.old[p] /\ x.new[p] \in Texts
      BY <1>4 DEF Unpublished
    <2>3. CASE n = 1
      <3>1. r.then = <<>> /\ Whole(r.disk, x) /\ Quiet(Tail(w))
        BY Zenon, <1>1, <2>1, <2>2, <2>3, JournalPublishes
      <3> QED
        BY <1>2, <3>1
    <2>4. CASE n # 1
      <3>1. n \in 2 .. Len(w)
        BY <2>4
      <3>2. /\ r.then = <<>> /\ n - 1 \in 1 .. Len(Tail(w))
            /\ r.disk.journals = d.journals /\ r.disk.files = d.files
            /\ Ahead(r.disk, Tail(w), n - 1, x)
        BY Zenon, <1>1, <2>1, <3>1, AheadStep
      <3> HIDE DEF r
      <3>3. Unpublished(r.disk, Tail(w), x)
        BY <2>2, <3>2 DEF Unpublished
      <3> QED
        BY <1>2, <3>2, <3>3
    <2> QED
      BY <2>3, <2>4
  <1> QED
    BY <1>3, <1>4 DEF TxnHolds

\* Calls that publish nothing: opening, reading, editing, saving, closing.
LEMMA QuietCalls ==
    ASSUME NEW p,
           \/ OpenDocument(p) \/ OpenSession(p) \/ IngestMarkdown(p) \/ Close(p)
           \/ EditInMemory(p) \/ EditAndSave(p) \/ ApplyEditBatch(p) \/ SaveState(p)
    PROVE  Quiet(work') /\ txn' = txn /\ disk' = disk /\ work = <<>>
  <1> DEFINE S == {<<"identify", p>>, <<"load", p>>, <<"ingest_if_needed", p>>, <<"ingest", p>>,
                   <<"save", p>>, <<"save_edited", p, texts'>>}
  <1>1. /\ txn' = txn /\ disk' = disk /\ work = <<>>
        /\ work' \in {<<>>, <<<<"ingest", p>>>>, <<<<"save", p>>>>, <<<<"save_edited", p, texts'>>>>,
                      <<<<"identify", p>>, <<"load", p>>>>,
                      <<<<"identify", p>>, <<"load", p>>, <<"ingest_if_needed", p>>>>}
    BY DEF OpenDocument, OpenSession, IngestMarkdown, Close, EditInMemory, EditAndSave,
       ApplyEditBatch, SaveState, Call
  <1>2. \A s \in S : ~Publishes(s)
    BY DEF Publishes
  <1>3. /\ <<"identify", p>> \in S /\ <<"load", p>> \in S /\ <<"ingest_if_needed", p>> \in S
        /\ <<"ingest", p>> \in S /\ <<"save", p>> \in S /\ <<"save_edited", p, texts'>> \in S
    OBVIOUS
  <1> HIDE DEF S
  <1>4. ASSUME NEW a \in S, NEW b \in S, NEW c \in S
        PROVE  <<>> \in Seq(S) /\ <<a>> \in Seq(S) /\ <<a, b>> \in Seq(S) /\ <<a, b, c>> \in Seq(S)
    OBVIOUS
  <1>5. work' \in Seq(S)
    BY <1>1, <1>3, <1>4, Zenon
  <1> QED
    BY <1>1, <1>2, <1>5, QuietList

\* Nor does editing several documents publish anything.
LEMMA QuietBatches ==
    ASSUME VaultInv, NEW S \in SUBSET deployment.paths, ApplyEditBatches(S)
    PROVE  Quiet(work') /\ txn' = txn /\ disk' = disk /\ work = <<>>
  <1> DEFINE l == ListOf(S)
             u == [i \in 1 .. Len(l) |-> <<"save", l[i]>>]
             T == {"save"} \X S
  <1>1. PICK name : txn' = txn /\ Call(name, ForEach(l, LAMBDA p : <<"save", p>>))
    BY Zenon DEF ApplyEditBatches
  <1>2. disk' = disk /\ work = <<>> /\ work' = ForEach(l, LAMBDA p : <<"save", p>>)
    BY <1>1, Zenon DEF Call
  <1>3. work' = u
    BY <1>2, Zenon DEF ForEach
  <1>4. S \subseteq Paths
    BY VaultAssumption DEF VaultInv
  <1>6. l \in Seq(S)
    BY <1>4, ListFacts
  <1> HIDE DEF l
  <1>7. Len(l) \in Nat /\ u \in [1 .. Len(l) -> T]
    BY <1>6
  <1>8. \A s \in T : ~Publishes(s)
    BY DEF Publishes
  <1> HIDE DEF u, T
  <1>9. u \in Seq(T)
    BY <1>7, Listed
  <1>10. Quiet(u)
    BY <1>8, <1>9, QuietList
  <1> QED
    BY Zenon, <1>1, <1>2, <1>3, <1>10

\* An export transaction, as its journal will say it.
LEMMA ExportAhead ==
    ASSUME VaultInv, VaultInv', NEW S \in SUBSET deployment.paths, ExportMarkdownTransaction(S)
    PROVE  TxnHolds(disk', work', txn')
  <1> DEFINE text == [p \in Paths |-> mem.docs[p].text]
             C == {p \in S : disk.files[p] # text[p]}
             all == ListOf(S)
             changed == ListOf(C)
             steps == ExportSteps(all, changed, text)
             x == [paths |-> C, old |-> disk.files, new |-> text]
  <1>1. /\ \A p \in S : mem.docs[p].exists /\ mem.docs[p].text # NoText
        /\ txn' = x /\ Call("export_transaction", steps)
    BY Zenon DEF ExportMarkdownTransaction, Publishable, Opened
  <1> HIDE DEF steps
  <1>2. disk' = disk /\ work' = steps /\ disk.journals = {} /\ status' = "up"
    BY <1>1 DEF Call
  <1>3. S \subseteq Paths /\ C \subseteq S /\ C \subseteq Paths
    BY VaultAssumption DEF VaultInv
  <1>6. all \in Seq(S) /\ changed \in Seq(C) /\ Range(changed) = C
    BY Zenon, <1>3, ListFacts
  <1>7. all \in Seq(Paths) /\ changed \in Seq(Paths)
    <2> HIDE DEF all, changed, C
    <2> QED
      BY <1>3, <1>6
  <1>8. x.paths = C /\ x.old = disk.files /\ x.new = text
    OBVIOUS
  <1>9. \A p \in C : text[p] \in Texts
    <2> TAKE p \in C
    <2>1. mem \in MemType /\ p \in Paths /\ p \in S
      BY <1>3 DEF VaultInv, VaultHolds, MemHolds
    <2>2. mem.docs[p] \in Session /\ text[p] = mem.docs[p].text /\ mem.docs[p].text # NoText
      BY <1>1, <2>1 DEF MemType
    <2> QED
      BY <2>2 DEF Session
  <1>10. VaultHolds(deployment'.calls, disk, mem', steps, "up")
    BY <1>2 DEF VaultInv
  <1> HIDE DEF x, all, changed, C, text
  <1>11. TxnHolds(disk, ExportSteps(all, changed, x.new), x)
    BY Zenon, <1>2, <1>6, <1>7, <1>8, <1>9, <1>10, TxnStarts DEF steps
  <1> QED
    BY <1>1, <1>2, <1>8, <1>11 DEF steps

\* Every action keeps what is true of the last export.
LEMMA NextTxn ==
    ASSUME VaultInv, VaultInv', Coherent(deployment.calls), TxnHolds(disk, work, txn), [Next]_vars
    PROVE  TxnHolds(disk', work', txn')
  <1>1. VaultHolds(deployment.calls, disk, mem, work, status)
    BY DEF VaultInv
  <1>2. CASE UNCHANGED vars
    BY <1>2 DEF vars
  <1>3. CASE Quiet(work') /\ txn' = txn /\ disk' = disk /\ work = <<>>
    BY <1>3, TxnQuietCall
  <1>4. CASE \E p \in deployment.paths :
                \/ ExportMarkdown(p) \/ CreateMarkdown(p) \/ DeleteMarkdown(p)
                \/ \E q \in deployment.paths \ {p} : RenameMarkdown(p, q)
                \/ ExternalWrite(p)
    <2>1. txn' = NoTxn
      BY <1>4, Zenon DEF ExportMarkdown, CreateMarkdown, DeleteMarkdown, RenameMarkdown, ExternalWrite
    <2>2. NoTxn.paths = {}
      BY DEF NoTxn
    <2> QED
      BY <2>1, <2>2 DEF TxnHolds
  <1>5. CASE \E p \in deployment.paths :
                \/ OpenDocument(p) \/ OpenSession(p) \/ IngestMarkdown(p) \/ Close(p)
                \/ EditInMemory(p) \/ EditAndSave(p) \/ ApplyEditBatch(p) \/ SaveState(p)
    BY <1>3, <1>5, QuietCalls
  <1>6. CASE \E S \in (SUBSET deployment.paths) \ {{}} :
                ApplyEditBatches(S) \/ ExportMarkdownTransaction(S)
    BY <1>3, <1>6, QuietBatches, ExportAhead
  <1>7. CASE RecoverTransactions \/ Open
    <2>1. txn' = txn /\ disk' = disk /\ (work' = <<>> \/ status' # "up")
      BY <1>7 DEF RecoverTransactions, Open
    <2>2. work = <<>>
      BY <1>1, <1>7 DEF RecoverTransactions, Open, VaultHolds, StatusHolds
    <2>3. VaultHolds(deployment'.calls, disk', mem', work', status')
      BY DEF VaultInv
    <2>4. Quiet(work')
      <3>1. CASE work' = <<>>
        <4>1. Len(work') = 0
          BY <3>1
        <4> QED
          BY <4>1 DEF Quiet
      <3> QED
        BY <2>1, <2>3, <3>1, RecoveryQuiet
    <2> QED
      BY <1>3, <2>1, <2>2, <2>4
  <1>8. CASE Step \/ StepFails
    <2> DEFINE r == Run(work[1], disk, mem)
    <2>1. work # <<>> /\ Head(work) = work[1]
      BY Zenon, <1>1, <1>8, TailFacts DEF Step, StepFails, VaultHolds, StatusHolds
    <2>2. /\ TxnHolds(disk, <<>>, txn)
          /\ CleansUp(work[1]) => TxnHolds(DropPending(disk), <<>>, txn)
      BY <1>1, <2>1, TxnStops
    <2>3. CASE StepFails
      <3>1. /\ txn' = txn /\ work' = <<>>
            /\ disk' = IF CleansUp(work[1]) THEN DropPending(disk) ELSE disk
        BY <2>1, <2>3, Zenon DEF StepFails, Abort
      <3> QED
        BY <2>2, <3>1
    <2>4. CASE Step
      <3>1. /\ txn' = txn /\ disk' = r.disk
            /\ (r.fails /\ work' = <<>>) \/ (~r.fails /\ work' = r.then \o Tail(work))
        BY <2>1, <2>4, Zenon DEF Step, Abort
      <3>2. r.fails => r.disk = disk
        BY <1>1, <2>1, StepHolds DEF Outcome
      <3>3. ~r.fails => TxnHolds(r.disk, r.then \o Tail(work), txn)
        BY <1>1, <2>1, TxnStep
      <3> HIDE DEF r
      <3> QED
        BY Zenon, <2>2, <3>1, <3>2, <3>3
    <2> QED
      BY <1>8, <2>3, <2>4
  <1>9. CASE Crash \/ Exit
    <2>1. txn' = txn /\ disk' = disk /\ work' = <<>>
      BY <1>9 DEF Crash, Exit, Die
    <2> QED
      BY <1>1, <2>1, TxnStops
  <1> QED
    BY <1>2, <1>4, <1>5, <1>6, <1>7, <1>8, <1>9, Zenon DEF Next

\* A multi-document export is published as a whole or not at all: whenever the process
\* dies, fails or is looked at, the files that opening the vault would leave are all
\* the new ones or all the old ones (export_markdown_transaction).
THEOREM ExportsAreAtomic ==
    ASSUME CoherentHosts
    PROVE  Spec => []AllOrNothing
  <1>1. Init => TxnHolds(disk, work, txn)
    BY DEF Init, NoTxn, TxnHolds
  <1>2. VaultInv /\ VaultInv' /\ TxnHolds(disk, work, txn) /\ [Next]_vars => TxnHolds(disk, work, txn)'
    <2>1. VaultInv => Coherent(deployment.calls)
      BY DEF CoherentHosts, VaultInv
    <2> QED
      BY <2>1, NextTxn
  <1>3. TxnHolds(disk, work, txn) => AllOrNothing
    <2>1. CASE txn.paths = {}
      BY <2>1 DEF AllOrNothing
    <2>2. CASE txn.paths # {}
      BY <2>2, TxnWhole DEF AllOrNothing, Whole
    <2> QED
      BY <2>1, <2>2
  <1>4. Spec => []VaultInv
    BY VaultInvariance
  <1> QED
    BY <1>1, <1>2, <1>3, <1>4, PTL DEF Spec

-----------------------------------------------------------------------------
(* The abstract vault.                                                      *)

\* One step of the model is one step of the abstract vault, or none.
LEMMA EvolvesAbstractly ==
    ASSUME disk.next_id \in Nat, Evolves(disk, disk')
    PROVE  [Abstract!VaultNext]_<<Store(disk), disk.next_id - 1>>
  <1>1. Store(disk)' = Store(disk')
    BY DEF Store
  <1>2. \A p \in Paths : Store(disk)[p] = Committed(disk, p)
    BY DEF Store
  <1>3. CASE Kept(disk, disk')
    <2>1. Store(disk') = Store(disk) /\ disk'.next_id - 1 = disk.next_id - 1
      BY <1>3 DEF Kept, Store
    <2> QED
      BY <1>1, <2>1
  <1>4. CASE Published(disk, disk')
    <2>1. \E S \in SUBSET Paths : \E f \in [S -> Texts] :
            Store(disk') = [p \in Paths |-> IF p \in S THEN [Store(disk)[p] EXCEPT !.file = f[p]]
                                                       ELSE Store(disk)[p]]
      BY Zenon, <1>4, StorePublished
    <2>2. disk'.next_id - 1 = disk.next_id - 1
      BY <1>4 DEF Published
    <2>3. Abstract!Publish
      BY Zenon, <1>1, <2>1, <2>2 DEF Abstract!Publish, Store
    <2> QED
      BY <2>3 DEF Abstract!VaultNext
  <1>5. CASE Grown(disk, disk')
    <2>1. PICK p \in Paths, h \in Histories :
            /\ Committed(disk, p).id # NoId /\ Committed(disk, p).session.seen \subseteq h.seen
            /\ Committed(disk', p) = [Committed(disk, p) EXCEPT !.session = h]
            /\ \A q \in Paths \ {p} : Committed(disk', q) = Committed(disk, q)
      BY <1>5 DEF Grown
    <2>2. Store(disk') = [Store(disk) EXCEPT ![p].session = h]
      BY <1>2, <2>1, StoreOne
    <2>3. disk'.next_id - 1 = disk.next_id - 1
      BY <1>5 DEF Grown
    <2>4. Abstract!SaveHistory
      BY Zenon, <1>1, <1>2, <2>1, <2>2, <2>3 DEF Abstract!SaveHistory, Store, Histories
    <2> QED
      BY <2>4 DEF Abstract!VaultNext
  <1>6. CASE Identified(disk, disk')
    <2>1. PICK p \in Paths :
            /\ Committed(disk, p).id = NoId
            /\ Committed(disk', p) = [Committed(disk, p) EXCEPT !.id = disk.next_id]
            /\ \A q \in Paths \ {p} : Committed(disk', q) = Committed(disk, q)
      BY <1>6 DEF Identified
    <2>2. disk'.next_id = disk.next_id + 1 /\ disk'.next_id - 1 = (disk.next_id - 1) + 1
          /\ disk'.next_id - 1 = disk.next_id
      BY <1>6 DEF Identified
    <2>3. Store(disk') = [Store(disk) EXCEPT ![p].id = disk'.next_id - 1]
      BY <1>2, <2>1, <2>2, StoreOne
    <2>4. Abstract!GiveIdentity
      BY Zenon, <1>1, <1>2, <2>1, <2>2, <2>3 DEF Abstract!GiveIdentity, Store
    <2> QED
      BY <2>4 DEF Abstract!VaultNext
  <1>7. CASE Moved(disk, disk')
    <2>1. PICK from \in Paths, to \in Paths :
            /\ from # to /\ Committed(disk, to) = Nothing
            /\ Committed(disk', to) = Committed(disk, from) /\ Committed(disk', from) = Nothing
            /\ \A q \in Paths \ {from, to} : Committed(disk', q) = Committed(disk, q)
      BY <1>7 DEF Moved
    <2>2. Abstract!NoDocument = Nothing
      BY DEF Abstract!NoDocument, Nothing, Doc
    <2>3. Store(disk') = [Store(disk) EXCEPT ![to] = Store(disk)[from], ![from] = Abstract!NoDocument]
      BY Zenon, <2>1, <2>2 DEF Store
    <2>4. disk'.next_id - 1 = disk.next_id - 1
      BY <1>7 DEF Moved
    <2>5. Store(disk)[to] = Abstract!NoDocument
      BY <1>2, <2>1, <2>2
    <2>6. Abstract!Rename
      BY Zenon, <1>1, <2>1, <2>3, <2>4, <2>5 DEF Abstract!Rename, Store
    <2> QED
      BY <2>6 DEF Abstract!VaultNext
  <1>8. CASE Deleted(disk, disk')
    <2>1. PICK p \in Paths : /\ Committed(disk', p) = Nothing
                             /\ \A q \in Paths \ {p} : Committed(disk', q) = Committed(disk, q)
      BY <1>8 DEF Deleted
    <2>2. Abstract!NoDocument = Nothing
      BY DEF Abstract!NoDocument, Nothing, Doc
    <2>3. Store(disk') = [Store(disk) EXCEPT ![p] = Abstract!NoDocument]
      BY <2>1, <2>2, StoreOne
    <2>4. disk'.next_id - 1 = disk.next_id - 1
      BY <1>8 DEF Deleted
    <2>5. Abstract!Delete
      BY Zenon, <1>1, <2>3, <2>4 DEF Abstract!Delete, Store
    <2> QED
      BY <2>5 DEF Abstract!VaultNext
  <1> QED
    BY <1>3, <1>4, <1>5, <1>6, <1>7, <1>8 DEF Evolves

\* The vault is found as the abstract one is: files, and nothing else.
LEMMA FoundAbstractly ==
    ASSUME Init, disk \in DiskType
    PROVE  Abstract!VaultInit
  <1>1. /\ disk.journals = {} /\ disk.next_id = 1
        /\ \A p \in Paths : disk.ids[p] = NoId /\ disk.sessions[p] = NoSession
    BY DEF Init, EmptyDisk
  <1>2. disk.files \in [Paths -> Texts \cup {NoText}]
    BY DEF DiskType
  <1>3. ASSUME NEW p \in Paths
        PROVE  Committed(disk, p) = [Abstract!NoDocument EXCEPT !.file = disk.files[p]]
    <2>1. Committed(disk, p) = Doc(disk.files[p], NoId, [text |-> NoText, seen |-> {}])
      BY <1>1, CommittedQuiet DEF History, NoSession
    <2> QED
      BY <2>1 DEF Doc, Abstract!NoDocument
  <1>4. [p \in Paths |-> Committed(disk, p)]
          = [p \in Paths |-> [Abstract!NoDocument EXCEPT !.file = disk.files[p]]]
    BY <1>3
  <1>5. disk.next_id - 1 = 0
    BY <1>1
  <1> QED
    BY <1>2, <1>4, <1>5 DEF Abstract!VaultInit

\* A call changes nothing by being made, opening and dying neither.
LEMMA CallsKeepDisk ==
    ASSUME \/ \E p \in deployment.paths :
                \/ OpenDocument(p) \/ OpenSession(p) \/ IngestMarkdown(p) \/ Close(p)
                \/ EditInMemory(p) \/ EditAndSave(p) \/ ApplyEditBatch(p) \/ SaveState(p)
                \/ ExportMarkdown(p) \/ CreateMarkdown(p) \/ DeleteMarkdown(p)
                \/ \E q \in deployment.paths \ {p} : RenameMarkdown(p, q)
           \/ \E S \in (SUBSET deployment.paths) \ {{}} :
                ApplyEditBatches(S) \/ ExportMarkdownTransaction(S)
           \/ RecoverTransactions \/ Open \/ Crash \/ Exit
    PROVE  disk' = disk
  <1>1. ASSUME NEW name, NEW steps, Call(name, steps)
        PROVE  disk' = disk
    BY <1>1 DEF Call
  <1>2. CASE RecoverTransactions \/ Open \/ Crash \/ Exit
    BY Zenon, <1>2 DEF RecoverTransactions, Open, Crash, Exit, Die
  <1>3. CASE \E p \in deployment.paths :
                \/ OpenDocument(p) \/ OpenSession(p) \/ IngestMarkdown(p) \/ Close(p)
                \/ EditInMemory(p) \/ EditAndSave(p) \/ ApplyEditBatch(p) \/ SaveState(p)
    BY Zenon, <1>3, QuietCalls
  <1>4. CASE \E p \in deployment.paths :
                \/ ExportMarkdown(p) \/ CreateMarkdown(p) \/ DeleteMarkdown(p)
                \/ \E q \in deployment.paths \ {p} : RenameMarkdown(p, q)
    <2>1. \E name, steps : Call(name, steps)
      BY <1>4, Zenon DEF ExportMarkdown, CreateMarkdown, DeleteMarkdown, RenameMarkdown
    <2> QED
      BY Zenon, <1>1, <2>1
  <1>5. CASE \E S \in (SUBSET deployment.paths) \ {{}} :
                ApplyEditBatches(S) \/ ExportMarkdownTransaction(S)
    <2>1. \E name, steps : Call(name, steps)
      BY <1>5, Zenon DEF ApplyEditBatches, ExportMarkdownTransaction
    <2> QED
      BY <1>1, <2>1
  <1> QED
    BY <1>2, <1>3, <1>4, <1>5, Zenon

\* At most one thing happens to the documents in a step.
LEMMA NextEvolves ==
    ASSUME VaultInv, Coherent(deployment.calls), [Next]_vars
    PROVE  Evolves(disk, disk')
  <1>1. VaultHolds(deployment.calls, disk, mem, work, status) /\ DiskHolds(deployment.calls, disk)
    BY DEF VaultInv, VaultHolds
  <1>2. CASE disk' = disk
    BY <1>2 DEF Evolves, Kept
  <1>3. CASE \E p \in deployment.paths : ExternalWrite(p)
    <2>1. PICK p \in deployment.paths : ExternalWrite(p)
      BY <1>3
    <2>2. disk.files[p] # NoText /\ NewText /\ disk' = [disk EXCEPT !.files[p] = texts']
      BY <2>1 DEF ExternalWrite
    <2>3. p \in Paths
      BY VaultAssumption DEF VaultInv
    <2>4. texts' \in Texts
      BY <2>2, FreshText
    <2> QED
      BY <1>1, <2>2, <2>3, <2>4, ExternalPublished DEF Evolves
  <1>4. CASE Step \/ StepFails
    <2> DEFINE r == Run(work[1], disk, mem)
    <2>1. work # <<>> /\ Head(work) = work[1]
      BY Zenon, <1>1, <1>4, TailFacts DEF Step, StepFails, VaultHolds, StatusHolds
    <2>2. CASE StepFails
      <3>1. disk' = IF CleansUp(work[1]) THEN DropPending(disk) ELSE disk
        BY <2>1, <2>2, Zenon DEF StepFails
      <3>2. CleansUp(work[1]) => Kept(disk, DropPending(disk))
        BY <1>1, <2>1, CleanUpKept
      <3> QED
        BY <1>2, <3>1, <3>2 DEF Evolves
    <2>3. CASE Step
      <3>1. disk' = r.disk
        BY <2>1, <2>3, Zenon DEF Step
      <3>2. r.fails => r.disk = disk
        BY <1>1, <2>1, StepHolds DEF Outcome
      <3>3. ~r.fails => Evolves(disk, r.disk)
        BY <1>1, <2>1, StepCommits DEF Commits, Inward, Evolves
      <3> HIDE DEF r
      <3> QED
        BY <1>2, <3>1, <3>2, <3>3
    <2> QED
      BY <1>4, <2>2, <2>3
  <1>5. UNCHANGED vars => disk' = disk
    BY DEF vars
  <1> QED
    BY <1>2, <1>3, <1>4, <1>5, CallsKeepDisk, Zenon DEF Next

\* The journalled vault implements the abstract one: each step of each call, each
\* death of the process and each step of recovery changes the documents as one step of
\* the abstract vault does, or leaves them alone.
THEOREM JournalsImplementVault ==
    ASSUME CoherentHosts
    PROVE  Spec => Refines
  <1>1. VaultInv => /\ Coherent(deployment.calls) /\ disk \in DiskType /\ disk.next_id \in Nat
    <2>1. VaultInv => Coherent(deployment.calls)
      BY DEF CoherentHosts, VaultInv
    <2>2. VaultInv => disk \in DiskType
      BY DEF VaultInv, VaultHolds, DiskHolds
    <2>3. disk \in DiskType => disk.next_id \in Nat
      BY DEF DiskType
    <2> QED
      BY <2>1, <2>2, <2>3
  <1>2. Init => Abstract!VaultInit
    BY <1>1, InitHolds, FoundAbstractly
  <1>3. VaultInv /\ [Next]_vars => [Abstract!VaultNext]_<<[p \in Paths |-> Committed(disk, p)], disk.next_id - 1>>
    BY <1>1, NextEvolves, EvolvesAbstractly DEF Store
  <1>4. Spec => []VaultInv
    BY VaultInvariance
  <1> QED
    BY <1>2, <1>3, <1>4, PTL DEF Spec, Refines, Abstract!VaultSpec

-----------------------------------------------------------------------------
(* Identities and the hash gate.                                            *)

\* No two paths ever share an identity, a rename under way counted as done
\* (rename_markdown, complete_rename).
THEOREM IdentitiesAreUnique ==
    ASSUME CoherentHosts
    PROVE  Spec => []IdentityUnique
  <1>1. VaultInv => IdentityUnique
    <2>1. ASSUME VaultInv
          PROVE  DiskHolds(deployment.calls, disk)
      BY <2>1 DEF VaultInv, VaultHolds
    <2> QED
      BY <2>1, CommittedIds DEF IdentityUnique
  <1>2. Spec => []VaultInv
    BY VaultInvariance
  <1> QED
    BY <1>1, <1>2, PTL

\* Where no host exports a single document whose session was not saved first, a file
\* recorded as flushed is part of the saved session (ingest_file_unchecked skips it by its
\* hash, so what it holds must not be lost with the process).
THEOREM FlushedIsSaved ==
    ASSUME CoherentHosts, \A d \in Deployments : "export" \notin d.calls
    PROVE  Spec => []CleanMeansSaved
  <1>1. VaultInv => CleanMeansSaved
    <2> SUFFICES ASSUME VaultInv, disk.journals = {}, NEW p \in Paths,
                        disk.files[p] # NoText, disk.flushed[p] = disk.files[p]
                 PROVE  disk.files[p] \in disk.sessions[p].seen
      BY DEF CleanMeansSaved
    <2>1. disk \in DiskType /\ FlushHolds(deployment.calls, disk) /\ "export" \notin deployment.calls
      BY DEF VaultInv, VaultHolds, DiskHolds
    <2>2. disk.files[p] \in Texts
      BY <2>1 DEF DiskType
    <2> QED
      BY <2>1, <2>2 DEF FlushHolds, FlushedSaved
  <1>2. Spec => []VaultInv
    BY VaultInvariance
  <1> QED
    BY <1>1, <1>2, PTL
=============================================================================
