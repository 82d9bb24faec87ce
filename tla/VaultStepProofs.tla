-------------------------- MODULE VaultStepProofs --------------------------
(***************************************************************************)
(* The steps of calls that write no journal keep VaultHolds, and what they  *)
(* do to the documents as they are once the journals are carried out.       *)
(***************************************************************************)
EXTENDS VaultInvariant, TLAPS

-----------------------------------------------------------------------------
(* One change of the disk.                                                  *)

\* Saving a session that forgets nothing, for a document that has an identity
\* (save_document, load_or_create_session, install_prepared_batch).
LEMMA DiskSession ==
    ASSUME NEW c, NEW d, NEW p \in Paths, NEW s \in Session,
           DiskHolds(c, d), WholeSession(s), s.exists, d.sessions[p].seen \subseteq s.seen,
           d.ids[p] # NoId, \A j \in d.journals : j.kind = "export"
    PROVE  DiskHolds(c, [d EXCEPT !.sessions[p] = s])
  <1> DEFINE e == [d EXCEPT !.sessions[p] = s]
  <1>1. d \in DiskType
    BY DEF DiskHolds
  <1>2. /\ e \in DiskType
        /\ e.files = d.files /\ e.ids = d.ids /\ e.flushed = d.flushed
        /\ e.pending = d.pending /\ e.backup = d.backup /\ e.journals = d.journals
        /\ e.root = d.root /\ e.next_id = d.next_id
        /\ e.sessions = [d.sessions EXCEPT ![p] = s]
    BY <1>1 DEF DiskType
  <1> HIDE DEF e
  <1>3. SessionsHold(e)
    BY <1>1, <1>2 DEF DiskHolds, SessionsHold, DiskType
  <1>4. JournalsHold(c, e)
    BY <1>1, <1>2 DEF DiskHolds, JournalsHold, JournalHolds, HalfExported
  <1>5. IdsHold(e)
    BY <1>1, <1>2 DEF DiskHolds, IdsHold
  <1>6. FilesHold(c, e)
    BY <1>1, <1>2 DEF DiskHolds, FilesHold, Vacant, DiskType
  <1>7. FlushHolds(c, e)
    BY <1>1, <1>2 DEF DiskHolds, FlushHolds, FlushedSaved, DiskType
  <1> QED
    BY <1>2, <1>3, <1>4, <1>5, <1>6, <1>7 DEF e, DiskHolds

\* Recording what was ingested, when the saved session has it, or dropping the record
\* (set_last_flushed, ingest_file_unchecked, export recovery).
LEMMA DiskFlushed ==
    ASSUME NEW c, NEW d, NEW p \in Paths, NEW t \in Texts \cup {NoText, NoDirectory},
           DiskHolds(c, d),
           \/ t = NoDirectory
           \/ /\ d.ids[p] # NoId /\ \A j \in d.journals : j.kind = "export"
              /\ "export" \notin c /\ t \in Texts => t \in d.sessions[p].seen
    PROVE  DiskHolds(c, [d EXCEPT !.flushed[p] = t])
  <1> DEFINE e == [d EXCEPT !.flushed[p] = t]
  <1>1. d \in DiskType
    BY DEF DiskHolds
  <1>2. /\ e \in DiskType
        /\ e.files = d.files /\ e.ids = d.ids /\ e.sessions = d.sessions
        /\ e.pending = d.pending /\ e.backup = d.backup /\ e.journals = d.journals
        /\ e.root = d.root /\ e.next_id = d.next_id
        /\ e.flushed = [d.flushed EXCEPT ![p] = t]
    BY <1>1 DEF DiskType
  <1> HIDE DEF e
  <1>3. SessionsHold(e)
    BY <1>1, <1>2 DEF DiskHolds, SessionsHold
  <1>4. JournalsHold(c, e)
    BY <1>1, <1>2 DEF DiskHolds, JournalsHold, JournalHolds, HalfExported, HalfRenamed, NoTemps
  <1>5. IdsHold(e)
    BY <1>1, <1>2 DEF DiskHolds, IdsHold
  <1>6. FilesHold(c, e)
    BY <1>1, <1>2 DEF DiskHolds, FilesHold, Vacant, DiskType
  <1>7. NoDirectory \notin Texts
    BY VaultDiskAssumption DEF NoDirectory, Texts
  <1>8. FlushHolds(c, e)
    BY <1>1, <1>2, <1>7 DEF DiskHolds, FlushHolds, FlushedSaved, DiskType
  <1> QED
    BY <1>2, <1>3, <1>4, <1>5, <1>6, <1>8 DEF e, DiskHolds

\* Writing a file, where no journal is or another program finds one
\* (export_markdown, create_markdown).
LEMMA DiskFile ==
    ASSUME NEW c, NEW d, NEW p \in Paths, NEW t \in Texts,
           DiskHolds(c, d), d.journals = {} \/ d.files[p] # NoText
    PROVE  DiskHolds(c, [d EXCEPT !.files[p] = t])
  <1> DEFINE e == [d EXCEPT !.files[p] = t]
  <1>1. d \in DiskType
    BY DEF DiskHolds
  <1>2. /\ e \in DiskType
        /\ e.flushed = d.flushed /\ e.ids = d.ids /\ e.sessions = d.sessions
        /\ e.pending = d.pending /\ e.backup = d.backup /\ e.journals = d.journals
        /\ e.root = d.root /\ e.next_id = d.next_id
        /\ e.files = [d.files EXCEPT ![p] = t]
    BY <1>1 DEF DiskType
  <1> HIDE DEF e
  <1>3. SessionsHold(e)
    BY <1>1, <1>2 DEF DiskHolds, SessionsHold
  <1>4. t # NoText
    BY VaultDiskAssumption DEF Texts, NoText
  <1>5. JournalsHold(c, e)
    BY <1>1, <1>2, <1>4
       DEF DiskHolds, JournalsHold, JournalHolds, HalfExported, HalfRenamed, NoTemps, DiskType
  <1>6. IdsHold(e)
    BY <1>1, <1>2 DEF DiskHolds, IdsHold
  <1>7. FilesHold(c, e)
    BY <1>1, <1>2, <1>4 DEF DiskHolds, FilesHold, Vacant, DiskType
  <1>8. FlushHolds(c, e)
    BY <1>1, <1>2 DEF DiskHolds, FlushHolds, FlushedSaved
  <1> QED
    BY <1>2, <1>3, <1>5, <1>6, <1>7, <1>8 DEF e, DiskHolds

\* Giving a path that has a file the next identity (document_id).
LEMMA DiskIdentity ==
    ASSUME NEW c, NEW d, NEW p \in Paths,
           DiskHolds(c, d), d.journals = {}, d.ids[p] = NoId,
           "absent" \in c \/ d.files[p] # NoText
    PROVE  DiskHolds(c, [d EXCEPT !.ids[p] = d.next_id, !.next_id = @ + 1])
  <1> DEFINE e == [d EXCEPT !.ids[p] = d.next_id, !.next_id = @ + 1]
  <1>1. d \in DiskType
    BY DEF DiskHolds
  <1>2. /\ e \in DiskType
        /\ e.flushed = d.flushed /\ e.files = d.files /\ e.sessions = d.sessions
        /\ e.pending = d.pending /\ e.backup = d.backup /\ e.journals = d.journals
        /\ e.root = d.root /\ e.next_id = d.next_id + 1
        /\ e.ids = [d.ids EXCEPT ![p] = d.next_id]
    <2>1. d.next_id \in Nat /\ d.next_id + 1 \in Nat \ {0}
      BY <1>1, SMT DEF DiskType
    <2>2. [d.ids EXCEPT ![p] = d.next_id] \in [Paths -> Nat]
      BY <1>1, <2>1 DEF DiskType
    <2> QED
      BY Zenon, <1>1, <2>1, <2>2 DEF DiskType
  <1> HIDE DEF e
  <1>3. SessionsHold(e)
    BY <1>1, <1>2 DEF DiskHolds, SessionsHold
  <1>4. JournalsHold(c, e)
    BY <1>1, <1>2 DEF DiskHolds, JournalsHold
  <1>5. IdsHold(e)
    <2>1. d.next_id \in Nat /\ \A q \in Paths : d.ids[q] \in Nat /\ d.ids[q] < d.next_id
      BY <1>1 DEF DiskHolds, IdsHold, DiskType
    <2>2. \A q, r \in Paths : q # r /\ d.ids[q] # NoId => d.ids[q] # d.ids[r]
      BY DEF DiskHolds, IdsHold
    <2>3. \A q \in Paths : e.ids[q] = IF q = p THEN d.next_id ELSE d.ids[q]
      BY <1>1, <1>2 DEF DiskType
    <2>4. \A q, r \in Paths : q # r /\ e.ids[q] # NoId => e.ids[q] # e.ids[r]
      BY <2>1, <2>2, <2>3
    <2>5. \A q \in Paths : e.ids[q] < e.next_id
      BY <1>2, <2>1, <2>3
    <2> QED
      BY <2>4, <2>5 DEF IdsHold
  <1>6. FilesHold(c, e)
    BY <1>1, <1>2 DEF DiskHolds, FilesHold, Vacant, DiskType
  <1>7. FlushHolds(c, e)
    BY <1>1, <1>2 DEF DiskHolds, FlushHolds, FlushedSaved
  <1> QED
    BY <1>2, <1>3, <1>4, <1>5, <1>6, <1>7 DEF e, DiskHolds

\* Temporaries and the transactions directory, while there is no journal
\* (write_pending, cleanup_pending_entries, the sweep).
LEMMA DiskTemporaries ==
    ASSUME NEW c, NEW d, NEW e \in DiskType,
           DiskHolds(c, d), d.journals = {},
           e.files = d.files, e.ids = d.ids, e.sessions = d.sessions, e.flushed = d.flushed,
           e.journals = d.journals, e.next_id = d.next_id
    PROVE  DiskHolds(c, e)
  <1>1. SessionsHold(e) /\ JournalsHold(c, e) /\ IdsHold(e)
    BY DEF DiskHolds, SessionsHold, JournalsHold, IdsHold
  <1>2. FilesHold(c, e) /\ FlushHolds(c, e)
    BY DEF DiskHolds, FilesHold, Vacant, FlushHolds, FlushedSaved
  <1> QED
    BY <1>1, <1>2 DEF DiskHolds

\* Writing the only journal, once the disk is as the journal says (persist_journal).
LEMMA DiskJournal ==
    ASSUME NEW c, NEW d, NEW j \in Journals,
           DiskHolds(c, d), d.journals = {}, JournalHolds(c, d, j)
    PROVE  DiskHolds(c, [d EXCEPT !.journals = @ \cup {j}, !.root = TRUE])
  <1> DEFINE e == [d EXCEPT !.journals = @ \cup {j}, !.root = TRUE]
  <1>1. d \in DiskType
    BY DEF DiskHolds
  <1>2. /\ e \in DiskType
        /\ e.files = d.files /\ e.ids = d.ids /\ e.sessions = d.sessions /\ e.flushed = d.flushed
        /\ e.pending = d.pending /\ e.backup = d.backup /\ e.next_id = d.next_id
        /\ e.root /\ e.journals = {j}
    BY Zenon, <1>1 DEF DiskType
  <1> HIDE DEF e
  <1>3. SessionsHold(e) /\ IdsHold(e)
    BY <1>2 DEF DiskHolds, SessionsHold, IdsHold
  <1>4. JournalHolds(c, e, j)
    BY <1>2 DEF JournalHolds, HalfExported, HalfRenamed, NoTemps
  <1>5. JournalsHold(c, e)
    BY <1>2, <1>4 DEF JournalsHold
  <1>6. FilesHold(c, e) /\ FlushHolds(c, e)
    BY <1>2 DEF DiskHolds, FilesHold, FlushHolds, FlushedSaved, Vacant
  <1> QED
    BY <1>2, <1>3, <1>5, <1>6 DEF e, DiskHolds

\* Removing the only journal, once what it says is done (remove_journal).
LEMMA DiskUnjournal ==
    ASSUME NEW c, NEW d, NEW j \in d.journals, DiskHolds(c, d),
           \A p \in Paths : Touches(j, p) /\ d.files[p] = NoText => Vacant(d, p),
           \A p \in Paths : "export" \notin c /\ Touches(j, p) /\ d.flushed[p] \in Texts =>
                               d.flushed[p] \in d.sessions[p].seen,
           j.kind = "rename" => d.ids[j.from] = NoId
    PROVE  /\ DiskHolds(c, [d EXCEPT !.journals = @ \ {j}])
           /\ d.journals \ {j} = {}
  <1> DEFINE e == [d EXCEPT !.journals = @ \ {j}]
  <1>1. d \in DiskType
    BY DEF DiskHolds
  <1>2. d.journals = {j}
    BY DEF DiskHolds, JournalsHold
  <1>3. /\ e \in DiskType
        /\ e.files = d.files /\ e.ids = d.ids /\ e.sessions = d.sessions /\ e.flushed = d.flushed
        /\ e.pending = d.pending /\ e.backup = d.backup /\ e.next_id = d.next_id
        /\ e.root = d.root /\ e.journals = {}
    BY <1>1, <1>2 DEF DiskType
  <1> HIDE DEF e
  <1>4. SessionsHold(e) /\ JournalsHold(c, e)
    BY <1>3 DEF DiskHolds, SessionsHold, JournalsHold
  <1>5. IdsHold(e)
    BY <1>2, <1>3 DEF DiskHolds, IdsHold, Touches
  <1>6. FilesHold(c, e)
    BY <1>2, <1>3 DEF DiskHolds, FilesHold, Vacant
  <1>7. FlushHolds(c, e)
    BY <1>2, <1>3 DEF DiskHolds, FlushHolds, FlushedSaved, Touches
  <1> QED
    BY <1>2, <1>3, <1>4, <1>5, <1>6, <1>7 DEF e, DiskHolds

\* Files and temporaries of the paths an export names (install_export_entries,
\* cleanup_export_entries).
LEMMA DiskExport ==
    ASSUME NEW c, NEW d, NEW e \in DiskType, NEW j \in d.journals,
           DiskHolds(c, d), j.kind = "export", HalfExported(e, j),
           e.ids = d.ids, e.sessions = d.sessions, e.flushed = d.flushed,
           e.journals = d.journals, e.root = d.root, e.next_id = d.next_id,
           \A q \in Paths \ Range(j.paths) : e.files[q] = d.files[q]
    PROVE  DiskHolds(c, e)
  <1>1. d.journals = {j}
    BY DEF DiskHolds, JournalsHold
  <1>2. SessionsHold(e) /\ IdsHold(e)
    BY DEF DiskHolds, SessionsHold, IdsHold
  <1>3. JournalsHold(c, e)
    BY <1>1 DEF DiskHolds, JournalsHold, JournalHolds
  <1>4. FilesHold(c, e)
    BY <1>1 DEF DiskHolds, FilesHold, Vacant, Touches
  <1>5. FlushHolds(c, e)
    BY DEF DiskHolds, FlushHolds, FlushedSaved
  <1> QED
    BY <1>2, <1>3, <1>4, <1>5 DEF DiskHolds

\* What is at the two paths of a rename (complete_rename).
LEMMA DiskRename ==
    ASSUME NEW c, NEW d, NEW e \in DiskType, NEW j \in d.journals,
           DiskHolds(c, d), j.kind = "rename", HalfRenamed(e, j), SessionsHold(e),
           e.pending = d.pending, e.backup = d.backup,
           e.journals = d.journals, e.root = d.root, e.next_id = d.next_id,
           \A q \in Paths \ {j.from, j.to} :
              /\ e.files[q] = d.files[q] /\ e.ids[q] = d.ids[q]
              /\ e.sessions[q] = d.sessions[q] /\ e.flushed[q] = d.flushed[q],
           \A q \in {j.from, j.to} : "export" \notin c /\ e.flushed[q] \in Texts =>
              e.flushed[q] \in e.sessions[j.from].seen \cup e.sessions[j.to].seen
    PROVE  DiskHolds(c, e)
  <1>1. d.journals = {j}
    BY DEF DiskHolds, JournalsHold
  <1>2. JournalsHold(c, e)
    BY <1>1 DEF DiskHolds, JournalsHold, JournalHolds, NoTemps
  <1>3. IdsHold(e)
    <2>1. e.next_id \in Nat \ {0}
      BY DEF DiskType
    <2>2. \A q \in Paths : e.ids[q] < e.next_id
      BY <2>1 DEF DiskHolds, IdsHold, HalfRenamed, NoId
    <2>3. \A q, r \in Paths : q # r /\ e.ids[q] # NoId /\ e.ids[q] = e.ids[r] =>
                                q \in {j.from, j.to} /\ r \in {j.from, j.to}
      BY <1>1 DEF DiskHolds, IdsHold, HalfRenamed, Touches
    <2> QED
      BY <2>2, <2>3 DEF IdsHold, Touches
  <1>4. FilesHold(c, e)
    BY <1>1 DEF DiskHolds, FilesHold, Vacant, Touches
  <1>5. FlushHolds(c, e)
    BY <1>1 DEF DiskHolds, FlushHolds, FlushedSaved
  <1> QED
    BY <1>2, <1>3, <1>4, <1>5 DEF DiskHolds

\* What is at the path of a deletion (complete_delete).
LEMMA DiskDelete ==
    ASSUME NEW c, NEW d, NEW e \in DiskType, NEW j \in d.journals,
           DiskHolds(c, d), j.kind = "delete", SessionsHold(e),
           e.pending = d.pending, e.backup = d.backup,
           e.journals = d.journals, e.root = d.root, e.next_id = d.next_id,
           e.ids[j.path] \in {d.ids[j.path], NoId},
           \A q \in Paths \ {j.path} :
              /\ e.files[q] = d.files[q] /\ e.ids[q] = d.ids[q]
              /\ e.sessions[q] = d.sessions[q] /\ e.flushed[q] = d.flushed[q]
    PROVE  DiskHolds(c, e)
  <1>1. d.journals = {j}
    BY DEF DiskHolds, JournalsHold
  <1>2. JournalsHold(c, e)
    BY <1>1 DEF DiskHolds, JournalsHold, JournalHolds, NoTemps
  <1>3. IdsHold(e)
    <2>1. e.next_id \in Nat \ {0} /\ \A q \in Paths : e.ids[q] \in Nat
      BY DEF DiskType
    <2>2. \A q \in Paths : e.ids[q] < e.next_id
      BY <2>1 DEF DiskHolds, IdsHold, NoId
    <2>3. \A q, r \in Paths : ~(q # r /\ e.ids[q] # NoId /\ e.ids[q] = e.ids[r])
      BY <1>1 DEF DiskHolds, IdsHold
    <2> QED
      BY <2>2, <2>3 DEF IdsHold
  <1>4. FilesHold(c, e)
    BY <1>1 DEF DiskHolds, FilesHold, Vacant, Touches
  <1>5. FlushHolds(c, e)
    BY <1>1 DEF DiskHolds, FlushHolds, FlushedSaved
  <1> QED
    BY <1>2, <1>3, <1>4, <1>5 DEF DiskHolds

-----------------------------------------------------------------------------
(* The steps that remain.                                                   *)

\* A list is a list of its own members.
LEMMA OwnRange ==
    ASSUME NEW S, NEW s \in Seq(S)
    PROVE  s \in Seq(Range(s))
  BY DEF Range

\* Taking the first step leaves the others in order.
LEMMA TailFacts ==
    ASSUME NEW w, w \in Seq(Range(w)), w # <<>>
    PROVE  /\ Len(w) \in Nat \ {0} /\ Head(w) = w[1]
           /\ Tail(w) \in Seq(Range(Tail(w))) /\ Len(Tail(w)) = Len(w) - 1
           /\ \A k \in 1 .. Len(Tail(w)) : k + 1 \in 2 .. Len(w) /\ Tail(w)[k] = w[k + 1]
  <1>1. Tail(w) \in Seq(Range(w))
    OBVIOUS
  <1>2. Tail(w) \in Seq(Range(Tail(w)))
    BY Zenon, <1>1, OwnRange
  <1> QED
    BY <1>2

\* What came before a step was the first one, or still does.
LEMMA BeforeTail ==
    ASSUME NEW w, w \in Seq(Range(w)), w # <<>>, NEW k \in 1 .. Len(Tail(w)), NEW s,
           Before(w, k + 1, s)
    PROVE  w[1] = s \/ Before(Tail(w), k, s)
  <1>1. PICK i \in 1 .. k : w[i] = s
    BY TailFacts DEF Before
  <1>2. CASE i = 1
    BY <1>1, <1>2
  <1>3. CASE i # 1
    <2>1. i - 1 \in 1 .. k - 1 /\ i - 1 \in 1 .. Len(Tail(w)) /\ (i - 1) + 1 = i
      BY <1>3, TailFacts
    <2>2. Tail(w)[i - 1] = w[(i - 1) + 1]
      BY <2>1, TailFacts
    <2>3. Tail(w)[i - 1] = s
      BY <1>1, <2>1, <2>2
    <2> QED
      BY <2>1, <2>3 DEF Before
  <1> QED
    BY <1>2, <1>3

\* A write expected of an earlier step was the first step, or is still to come.
LEMMA WritesTail ==
    ASSUME NEW w, w \in Seq(Range(w)), w # <<>>, NEW k \in 1 .. Len(Tail(w)), NEW how, NEW p,
           Writes(w, k + 1, how, p)
    PROVE  (w[1][1] = how /\ w[1][2] = p) \/ Writes(Tail(w), k, how, p)
  <1>1. PICK i \in 1 .. k : w[i][1] = how /\ w[i][2] = p
    BY TailFacts DEF Writes
  <1>2. CASE i = 1
    BY <1>1, <1>2
  <1>3. CASE i # 1
    <2>1. i - 1 \in 1 .. k - 1 /\ i - 1 \in 1 .. Len(Tail(w)) /\ (i - 1) + 1 = i
      BY <1>3, TailFacts
    <2>2. Tail(w)[i - 1] = w[(i - 1) + 1]
      BY <2>1, TailFacts
    <2> QED
      BY <1>1, <2>1, <2>2 DEF Writes
  <1> QED
    BY <1>2, <1>3

\* A step never takes back what a later one relies on: files, identities and sessions
\* that are there, texts that were taken in.
Grows(d, m, e, n) ==
    \A p \in Paths :
        /\ d.files[p] # NoText => e.files[p] # NoText
        /\ m.ids[p] # NoId => n.ids[p] # NoId
        /\ m.docs[p].exists => n.docs[p].exists
        /\ m.docs[p].seen \subseteq n.docs[p].seen
        /\ d.sessions[p].seen \subseteq e.sessions[p].seen

\* What the step just taken was for.
Did(s, m, e, n) ==
    /\ s[1] = "write_file" => e.files[s[2]] # NoText
    /\ \A p \in Paths : /\ s = <<"identify", p>> => n.ids[p] # NoId
                        /\ s = <<"load", p>> => n.docs[p].exists
                        /\ s = <<"save", p>> => m.docs[p].seen \subseteq e.sessions[p].seen

\* What a flush step relies on outlives the step before it.
LEMMA FlushTail ==
    ASSUME NEW c, NEW d, NEW m, NEW e, NEW n, NEW w, w \in Seq(Range(w)), w # <<>>,
           Grows(d, m, e, n), Did(w[1], m, e, n),
           NEW k \in 1 .. Len(Tail(w)), NEW p \in Paths, NEW t,
           FlushBacked(c, d, m, w, k + 1, p, t)
    PROVE  FlushBacked(c, e, n, Tail(w), k, p, t)
  <1>1. n.docs[p].exists
    BY DEF FlushBacked, Grows
  <1>2. ASSUME "export" \notin c
        PROVE  t \in n.docs[p].seen /\ (t \in e.sessions[p].seen \/ Before(Tail(w), k, <<"save", p>>))
    <2>1. t \in m.docs[p].seen /\ (t \in d.sessions[p].seen \/ Before(w, k + 1, <<"save", p>>))
      BY <1>2 DEF FlushBacked
    <2>2. CASE t \in d.sessions[p].seen
      BY <2>1, <2>2 DEF Grows
    <2>3. CASE Before(w, k + 1, <<"save", p>>)
      <3>1. w[1] = <<"save", p>> \/ Before(Tail(w), k, <<"save", p>>)
        BY <2>3, BeforeTail
      <3> QED
        BY <2>1, <3>1 DEF Grows, Did
    <2> QED
      BY <2>1, <2>2, <2>3
  <1> QED
    BY <1>1, <1>2 DEF FlushBacked

\* The rest of a call that writes no journal.
LEMMA PlainTail ==
    ASSUME NEW c, NEW d, NEW m, NEW e, NEW n, NEW w, w \in Seq(Range(w)), w # <<>>,
           Plain(c, d, m, w, "up"), e.journals = {},
           Grows(d, m, e, n), Did(w[1], m, e, n)
    PROVE  Plain(c, e, n, Tail(w), "up")
  <1> SUFFICES ASSUME NEW k \in 1 .. Len(Tail(w))
               PROVE  PlainHolds(c, e, n, Tail(w), k)
    BY DEF Plain
  <1> DEFINE s == Tail(w)[k]
  <1>1. s = w[k + 1] /\ k + 1 \in 1 .. Len(w) /\ Len(w) \in Nat
    BY TailFacts
  <1>2. PlainHolds(c, d, m, w, k + 1)
    BY <1>1 DEF Plain
  <1>3. s \in PlainSteps
    BY <1>1, <1>2 DEF PlainHolds
  <1>4. s[1] \in {"identify", "load", "ingest_if_needed", "ingest", "save_edited", "flush"} =>
           s[2] \in Paths
    BY <1>3 DEF PlainSteps
  <1>5. s[1] = "identify" /\ "absent" \notin c =>
           e.files[s[2]] # NoText \/ Writes(Tail(w), k, "write_file", s[2])
    BY <1>1, <1>2, <1>4, WritesTail DEF PlainHolds, Grows, Did
  <1>6. s[1] = "load" => n.ids[s[2]] # NoId \/ Before(Tail(w), k, <<"identify", s[2]>>)
    BY <1>1, <1>2, <1>4, BeforeTail DEF PlainHolds, Grows, Did
  <1>7. s[1] \in {"ingest_if_needed", "ingest"} =>
           n.docs[s[2]].exists \/ Before(Tail(w), k, <<"load", s[2]>>)
    BY <1>1, <1>2, <1>4, BeforeTail DEF PlainHolds, Grows, Did
  <1>8. s[1] = "save_edited" => n.docs[s[2]].exists
    BY <1>1, <1>2, <1>4 DEF PlainHolds, Grows
  <1>9. s[1] = "flush" => FlushBacked(c, e, n, Tail(w), k, s[2], s[3])
    BY <1>1, <1>2, <1>4, FlushTail DEF PlainHolds
  <1> QED
    BY <1>3, <1>5, <1>6, <1>7, <1>8, <1>9 DEF PlainHolds

\* A plain call that is given more steps to take first (ingest).
LEMMA PlainPush ==
    ASSUME NEW c, NEW d, NEW m, NEW v, v \in Seq(Range(v)), Plain(c, d, m, v, "up"),
           NEW u, u \in Seq(Range(u)), \A k \in 1 .. Len(u) : PlainHolds(c, d, m, u, k)
    PROVE  Plain(c, d, m, u \o v, "up") /\ u \o v \in Seq(Range(u \o v))
  <1> DEFINE w == u \o v
  <1>1. /\ Len(u) \in Nat /\ Len(v) \in Nat /\ Len(w) = Len(u) + Len(v)
        /\ w \in Seq(Range(u) \cup Range(v))
        /\ \A i \in 1 .. Len(u) : w[i] = u[i]
        /\ \A i \in 1 .. Len(v) : w[Len(u) + i] = v[i]
    OBVIOUS
  <1>2. w \in Seq(Range(w))
    BY Zenon, <1>1, OwnRange
  <1> HIDE DEF w
  <1>3. ASSUME NEW k \in 1 .. Len(u)
        PROVE  PlainHolds(c, d, m, w, k)
    <2>1. PlainHolds(c, d, m, u, k) /\ w[k] = u[k]
      BY <1>1
    <2>2. \A i \in 1 .. k - 1 : w[i] = u[i]
      BY <1>1
    <2>3. \A s : Before(u, k, s) => Before(w, k, s)
      BY <2>2 DEF Before
    <2>4. \A p : Writes(u, k, "write_file", p) => Writes(w, k, "write_file", p)
      BY SMTT(40), <2>2 DEF Writes
    <2> QED
      BY <2>1, <2>3, <2>4 DEF PlainHolds, FlushBacked
  <1>4. ASSUME NEW i \in 1 .. Len(v)
        PROVE  PlainHolds(c, d, m, w, Len(u) + i)
    <2>1. PlainHolds(c, d, m, v, i) /\ w[Len(u) + i] = v[i]
      BY Zenon, <1>1 DEF Plain
    <2>2. \A h \in 1 .. i - 1 : Len(u) + h \in 1 .. (Len(u) + i) - 1 /\ w[Len(u) + h] = v[h]
      BY <1>1
    <2>3. \A s : Before(v, i, s) => Before(w, Len(u) + i, s)
      BY <2>2 DEF Before
    <2>4. \A p : Writes(v, i, "write_file", p) => Writes(w, Len(u) + i, "write_file", p)
      BY Zenon, <2>2 DEF Writes
    <2> QED
      BY <2>1, <2>3, <2>4 DEF PlainHolds, FlushBacked
  <1>5. ASSUME NEW k \in 1 .. Len(w)
        PROVE  PlainHolds(c, d, m, w, k)
    <2>1. CASE k \in 1 .. Len(u)
      BY <2>1, <1>3
    <2>2. CASE k \notin 1 .. Len(u)
      <3>1. k - Len(u) \in 1 .. Len(v) /\ Len(u) + (k - Len(u)) = k
        BY <1>1, <2>2
      <3> QED
        BY Zenon, <3>1, <1>4
    <2> QED
      BY <2>1, <2>2
  <1> QED
    BY <1>2, <1>5 DEF w, Plain

\* A plain call finds all of memory backed by the disk, and no temporaries.
LEMMA PlainFacts ==
    ASSUME NEW c, NEW d, NEW m, NEW w, VaultHolds(c, d, m, w, "up"), Plain(c, d, m, w, "up")
    PROVE  /\ d \in DiskType /\ m \in MemType /\ d.journals = {} /\ w \in Seq(Range(w))
           /\ \A p \in Paths : WholeSession(m.docs[p]) /\ Backed(d, m, p)
           /\ NoTemps(d)
           /\ w # <<>> => w[1] \in PlainSteps /\ PlainHolds(c, d, m, w, 1)
  <1>1. d \in DiskType /\ m \in MemType /\ d.journals = {} /\ w \in Seq(Range(w))
    BY DEF VaultHolds, DiskHolds, MemHolds, Plain, StatusHolds
  <1>2. ASSUME w # <<>>
        PROVE  w[1] \in PlainSteps /\ PlainHolds(c, d, m, w, 1) /\ Head(w) = w[1]
    <2>1. 1 \in 1 .. Len(w) /\ Head(w) = w[1]
      BY <1>1, <1>2, TailFacts
    <2>2. PlainHolds(c, d, m, w, 1)
      BY <2>1 DEF Plain
    <2> QED
      BY <2>1, <2>2 DEF PlainHolds
  <1>3. w # <<>> => Head(w)[1] \notin {"rekey", "forget", "sweep", "write_pending", "write_journal"}
    BY <1>2 DEF PlainSteps
  <1>4. \A p \in Paths : Settled(d, w, p)
    BY <1>1, <1>3 DEF Settled
  <1>5. \A p \in Paths : WholeSession(m.docs[p]) /\ Backed(d, m, p)
    BY <1>4 DEF VaultHolds, MemHolds
  <1>6. w # <<<<"sweep">>>>
    BY <1>3
  <1>7. NoTemps(d)
    BY <1>1, <1>3, <1>6 DEF VaultHolds, TempsHold, CleansUp
  <1> QED
    BY <1>1, <1>2, <1>5, <1>7

\* A state between the steps of plain calls.
LEMMA PlainState ==
    ASSUME NEW c, NEW e, NEW n \in MemType, NEW w, w \in Seq(Range(w)),
           DiskHolds(c, e), e.journals = {}, NoTemps(e), Plain(c, e, n, w, "up"),
           \A p \in Paths : WholeSession(n.docs[p]) /\ Backed(e, n, p)
    PROVE  VaultHolds(c, e, n, w, "up")
  BY DEF VaultHolds, MemHolds, WorkHolds, TempsHold, StatusHolds

\* The three kinds of journal.
LEMMA JournalKinds ==
    ASSUME NEW j \in Journals
    PROVE  /\ j.kind \in {"export", "rename", "delete"}
           /\ j.kind = "export" => j.paths \in Seq(Paths) /\ Range(j.paths) \subseteq Paths
           /\ j.kind = "rename" => j.from \in Paths /\ j.to \in Paths /\ j.id \in Nat \ {0}
           /\ j.kind = "delete" => j.path \in Paths
  <1>1. CASE j \in [kind : {"export"}, paths : Seq(Paths)]
    BY <1>1 DEF Range
  <1>2. CASE j \in [kind : {"rename"}, from : Paths, to : Paths, id : Nat \ {NoId}]
    BY <1>2 DEF NoId
  <1>3. CASE j \in [kind : {"delete"}, path : Paths]
    BY <1>3
  <1> QED
    BY <1>1, <1>2, <1>3 DEF Journals

\* A call ends with at most one step after its journal is removed.
LEMMA EndLength ==
    ASSUME NEW j \in Journals, NEW st
    PROVE  Len(EndOf(j, st)) \in {0, 1}
  <1>1. j.kind \in {"export", "rename", "delete"}
    BY JournalKinds
  <1>2. CASE st # "up"
    BY <1>2 DEF EndOf
  <1>3. CASE st = "up"
    BY <1>1, <1>3 DEF EndOf
  <1> QED
    BY <1>2, <1>3

\* Nothing is running any more.
LEMMA Rests ==
    ASSUME NEW c, NEW e, NEW n \in MemType, DiskHolds(c, e), e.journals = {}, NoTemps(e),
           \A p \in Paths : WholeSession(n.docs[p]) /\ Backed(e, n, p)
    PROVE  VaultHolds(c, e, n, <<>>, "up")
  <1>1. <<>> \in Seq({}) /\ Len(<<>>) = 0
    OBVIOUS
  <1>2. <<>> \in Seq(Range(<<>>))
    BY <1>1, OwnRange
  <1>3. Plain(c, e, n, <<>>, "up")
    BY <1>1 DEF Plain
  <1> QED
    BY Zenon, <1>2, <1>3, PlainState

\* The process dies, with all that is only in its memory.
LEMMA DieHolds ==
    ASSUME NEW c, NEW d, NEW m, NEW w, NEW st, VaultHolds(c, d, m, w, st)
    PROVE  VaultHolds(c, d, NoMemory, <<>>, "down")
  <1>1. <<>> \in Seq({})
    OBVIOUS
  <1>2. <<>> \in Seq(Range(<<>>))
    BY <1>1, OwnRange
  <1>3. /\ NoMemory \in MemType
        /\ \A p \in Paths : NoMemory.docs[p] = NoSession /\ NoMemory.ids[p] = NoId
    BY DEF NoMemory, MemType, NoSession, Session, NoId
  <1>4. WholeSession(NoSession) /\ ~NoSession.exists
    BY DEF WholeSession, NoSession
  <1>5. MemHolds(d, NoMemory, <<>>)
    BY <1>3, <1>4 DEF MemHolds, Backed
  <1>6. TempsHold(d, <<>>, "down")
    BY DEF VaultHolds, TempsHold
  <1>7. StatusHolds(c, NoMemory, <<>>, "down")
    BY <1>2 DEF StatusHolds
  <1> QED
    BY <1>5, <1>6, <1>7 DEF VaultHolds, WorkHolds

-----------------------------------------------------------------------------
(* The steps of calls without a journal.                                    *)

\* What taking the first step leads to.  A step that fails changes nothing, and only
\* a running call may fail.
Outcome(c, d, m, w, st) ==
    LET r == Run(w[1], d, m)
        v == r.then \o Tail(w)
    IN  /\ r.fails => /\ r.disk = d /\ r.mem = m /\ st = "up"
                      /\ MayFail(w[1]) /\ ~CleansUp(w[1])
        /\ ~r.fails => VaultHolds(c, r.disk, r.mem, v, IF v = <<>> THEN "up" ELSE st)

\* The step succeeds and the rest of the call goes on.
LEMMA Taken ==
    ASSUME NEW c, NEW d, NEW m, NEW w, NEW st, w \in Seq(Range(w)), w # <<>>,
           NEW e, NEW n, Run(w[1], d, m) = Becomes(e, n),
           VaultHolds(c, e, n, Tail(w), IF Tail(w) = <<>> THEN "up" ELSE st)
    PROVE  Outcome(c, d, m, w, st)
  <1>1. <<>> \o Tail(w) = Tail(w)
    OBVIOUS
  <1>2. /\ Becomes(e, n).disk = e /\ Becomes(e, n).mem = n /\ Becomes(e, n).then = <<>>
        /\ ~Becomes(e, n).fails
    BY DEF Becomes
  <1> QED
    BY <1>1, <1>2, Zenon DEF Outcome

\* The step refuses and the call ends with nothing changed.
LEMMA Refused ==
    ASSUME NEW c, NEW d, NEW m, NEW w, Run(w[1], d, m) = Fails(d, m),
           MayFail(w[1]), ~CleansUp(w[1])
    PROVE  Outcome(c, d, m, w, "up")
  <1>1. Fails(d, m).disk = d /\ Fails(d, m).mem = m /\ Fails(d, m).fails
    BY DEF Fails
  <1> QED
    BY <1>1, Zenon DEF Outcome

\* A step that keeps what the others rely on.
LEMMA PlainDone ==
    ASSUME NEW c, NEW d, NEW m, NEW w, VaultHolds(c, d, m, w, "up"), Plain(c, d, m, w, "up"),
           w # <<>>,
           NEW e, NEW n \in MemType, DiskHolds(c, e), e.journals = {},
           e.pending = d.pending, e.backup = d.backup,
           Grows(d, m, e, n), Did(w[1], m, e, n),
           \A p \in Paths : WholeSession(n.docs[p]) /\ Backed(e, n, p)
    PROVE  /\ VaultHolds(c, e, n, Tail(w), "up") /\ Plain(c, e, n, Tail(w), "up")
           /\ w \in Seq(Range(w)) /\ Tail(w) \in Seq(Range(Tail(w))) /\ NoTemps(e)
  <1>1. w \in Seq(Range(w)) /\ NoTemps(d)
    BY PlainFacts
  <1>2. Plain(c, e, n, Tail(w), "up")
    BY <1>1, PlainTail
  <1>3. NoTemps(e)
    BY <1>1 DEF NoTemps
  <1>4. Tail(w) \in Seq(Range(Tail(w)))
    BY <1>1, TailFacts
  <1> QED
    BY Zenon, <1>1, <1>2, <1>3, <1>4, PlainState

\* A session is saved (write_session_snapshot).
LEMMA PlainSave ==
    ASSUME NEW c, NEW d, NEW m, NEW w, VaultHolds(c, d, m, w, "up"), Plain(c, d, m, w, "up"),
           w # <<>>, NEW p \in Paths, w[1] = <<"save", p>>
    PROVE  Outcome(c, d, m, w, "up")
  <1>1. Run(w[1], d, m) = Save(d, m, p)
    BY DEF Run
  <1>2. /\ d \in DiskType /\ m \in MemType /\ d.journals = {}
        /\ \A q \in Paths : WholeSession(m.docs[q]) /\ Backed(d, m, q)
    BY PlainFacts
  <1>3. CASE ~m.docs[p].exists
    BY <1>1, <1>3, Refused DEF Save, MayFail, CleansUp
  <1>4. CASE m.docs[p].exists
    <2> DEFINE e == [d EXCEPT !.sessions[p] = m.docs[p]]
    <2>1. /\ e.files = d.files /\ e.ids = d.ids /\ e.pending = d.pending /\ e.backup = d.backup
          /\ e.journals = {} /\ e.sessions = [d.sessions EXCEPT ![p] = m.docs[p]]
      BY <1>2 DEF DiskType
    <2>2. m.docs[p] \in Session /\ d.sessions[p].seen \subseteq m.docs[p].seen /\ d.ids[p] # NoId
      BY <1>2, <1>4 DEF MemType, Backed
    <2>3. DiskHolds(c, e)
      BY Zenon, <1>2, <1>4, <2>2, DiskSession DEF VaultHolds
    <2>4. \A q \in Paths : e.sessions[q] = IF q = p THEN m.docs[p] ELSE d.sessions[q]
      BY <1>2, <2>1 DEF DiskType
    <2> HIDE DEF e
    <2>5. Grows(d, m, e, m) /\ Did(w[1], m, e, m)
      BY <2>1, <2>2, <2>4 DEF Grows, Did
    <2>6. \A q \in Paths : WholeSession(m.docs[q]) /\ Backed(e, m, q)
      BY <1>2, <1>4, <2>1, <2>4 DEF Backed
    <2>7. VaultHolds(c, e, m, Tail(w), "up") /\ w \in Seq(Range(w))
      BY <1>2, <2>1, <2>3, <2>5, <2>6, PlainDone
    <2>8. Run(w[1], d, m) = Becomes(e, m)
      BY <1>1, <1>4 DEF Save, e
    <2> QED
      BY <2>7, <2>8, Taken
  <1> QED
    BY <1>3, <1>4

\* The session an edit left is saved (with_local_edit).
LEMMA PlainSaveEdited ==
    ASSUME NEW c, NEW d, NEW m, NEW w, VaultHolds(c, d, m, w, "up"), Plain(c, d, m, w, "up"),
           w # <<>>, NEW p \in Paths, NEW t \in Texts, w[1] = <<"save_edited", p, t>>
    PROVE  Outcome(c, d, m, w, "up")
  <1> DEFINE s == Take(m.docs[p], t)
             e == [d EXCEPT !.sessions[p] = s]
             n == [m EXCEPT !.docs[p] = s]
  <1>1. Run(w[1], d, m) = Becomes(e, n)
    BY DEF Run, SaveEdited
  <1>2. /\ d \in DiskType /\ m \in MemType /\ d.journals = {}
        /\ \A q \in Paths : WholeSession(m.docs[q]) /\ Backed(d, m, q)
        /\ m.docs[p].exists
    <2>1. PlainHolds(c, d, m, w, 1)
      BY PlainFacts
    <2>2. m.docs[p].exists
      BY <2>1 DEF PlainHolds
    <2> QED
      BY <2>2, PlainFacts
  <1>3. /\ e.files = d.files /\ e.ids = d.ids /\ e.pending = d.pending /\ e.backup = d.backup
        /\ e.journals = {} /\ e.sessions = [d.sessions EXCEPT ![p] = s]
    BY <1>2 DEF DiskType
  <1>4. /\ s \in Session /\ s.exists /\ m.docs[p].seen \subseteq s.seen /\ WholeSession(s)
        /\ d.sessions[p].seen \subseteq s.seen /\ d.ids[p] # NoId
    BY <1>2 DEF MemType, Backed, Take, Session, WholeSession
  <1>5. DiskHolds(c, e)
    BY Zenon, <1>2, <1>4, DiskSession DEF VaultHolds
  <1>6. \A q \in Paths : e.sessions[q] = IF q = p THEN s ELSE d.sessions[q]
    BY <1>2, <1>3 DEF DiskType
  <1>7. /\ n \in MemType /\ n.ids = m.ids
        /\ \A q \in Paths : n.docs[q] = IF q = p THEN s ELSE m.docs[q]
    BY ZenonT(40), <1>2, <1>4 DEF MemType
  <1> HIDE DEF e, n, s
  <1>8. Grows(d, m, e, n) /\ Did(w[1], m, e, n)
    BY <1>3, <1>4, <1>6, <1>7 DEF Grows, Did
  <1>9. \A q \in Paths : WholeSession(n.docs[q]) /\ Backed(e, n, q)
    BY <1>2, <1>3, <1>4, <1>6, <1>7 DEF Backed
  <1>10. VaultHolds(c, e, n, Tail(w), "up") /\ w \in Seq(Range(w))
    BY <1>3, <1>5, <1>7, <1>8, <1>9, PlainDone
  <1> QED
    BY <1>1, <1>10, Taken

\* A file's hash is recorded as flushed (write_last_flushed).
LEMMA PlainFlush ==
    ASSUME NEW c, NEW d, NEW m, NEW w, VaultHolds(c, d, m, w, "up"), Plain(c, d, m, w, "up"),
           w # <<>>, NEW p \in Paths, NEW t \in Texts, w[1] = <<"flush", p, t>>
    PROVE  Outcome(c, d, m, w, "up")
  <1> DEFINE e == [d EXCEPT !.flushed[p] = t]
  <1>1. Run(w[1], d, m) = Becomes(e, m)
    BY DEF Run, Flush
  <1>2. /\ d \in DiskType /\ m \in MemType /\ d.journals = {} /\ PlainHolds(c, d, m, w, 1)
        /\ \A q \in Paths : WholeSession(m.docs[q]) /\ Backed(d, m, q)
    BY PlainFacts
  <1>3. /\ e.files = d.files /\ e.ids = d.ids /\ e.pending = d.pending /\ e.backup = d.backup
        /\ e.journals = {} /\ e.sessions = d.sessions
    BY <1>2 DEF DiskType
  <1>4. FlushBacked(c, d, m, w, 1, p, t)
    BY <1>2 DEF PlainHolds
  <1>5. d.ids[p] # NoId /\ ("export" \notin c => t \in d.sessions[p].seen)
    BY <1>2, <1>4 DEF FlushBacked, Backed, Before
  <1>6. DiskHolds(c, e)
    BY <1>2, <1>5, DiskFlushed DEF VaultHolds
  <1> HIDE DEF e
  <1>7. Grows(d, m, e, m) /\ Did(w[1], m, e, m)
    BY <1>3 DEF Grows, Did
  <1>8. \A q \in Paths : WholeSession(m.docs[q]) /\ Backed(e, m, q)
    BY <1>2, <1>3 DEF Backed
  <1>9. VaultHolds(c, e, m, Tail(w), "up") /\ w \in Seq(Range(w))
    BY <1>2, <1>3, <1>6, <1>7, <1>8, PlainDone
  <1> QED
    BY <1>1, <1>9, Taken

\* A Markdown file is written (atomic_write_markdown).
LEMMA PlainWriteFile ==
    ASSUME NEW c, NEW d, NEW m, NEW w, VaultHolds(c, d, m, w, "up"), Plain(c, d, m, w, "up"),
           w # <<>>, NEW p \in Paths, NEW t \in Texts, w[1] = <<"write_file", p, t>>
    PROVE  Outcome(c, d, m, w, "up")
  <1> DEFINE e == [d EXCEPT !.files[p] = t]
  <1>1. Run(w[1], d, m) = Becomes(e, m)
    BY DEF Run, WriteFile
  <1>2. /\ d \in DiskType /\ m \in MemType /\ d.journals = {}
        /\ \A q \in Paths : WholeSession(m.docs[q]) /\ Backed(d, m, q)
    BY PlainFacts
  <1>3. /\ e.files = [d.files EXCEPT ![p] = t] /\ e.ids = d.ids
        /\ e.pending = d.pending /\ e.backup = d.backup
        /\ e.journals = {} /\ e.sessions = d.sessions
    BY <1>2 DEF DiskType
  <1>4. DiskHolds(c, e)
    BY Zenon, <1>2, DiskFile DEF VaultHolds
  <1>5. t # NoText /\ \A q \in Paths : e.files[q] = IF q = p THEN t ELSE d.files[q]
    BY <1>2, <1>3, VaultDiskAssumption DEF DiskType, Texts, NoText
  <1> HIDE DEF e
  <1>6. Grows(d, m, e, m) /\ Did(w[1], m, e, m)
    BY <1>3, <1>5 DEF Grows, Did
  <1>7. \A q \in Paths : WholeSession(m.docs[q]) /\ Backed(e, m, q)
    BY <1>2, <1>3 DEF Backed
  <1>8. VaultHolds(c, e, m, Tail(w), "up") /\ w \in Seq(Range(w))
    BY <1>2, <1>3, <1>4, <1>6, <1>7, PlainDone
  <1> QED
    BY <1>1, <1>8, Taken

\* The transactions directory is created.
LEMMA PlainMakeRoot ==
    ASSUME NEW c, NEW d, NEW m, NEW w, VaultHolds(c, d, m, w, "up"), Plain(c, d, m, w, "up"),
           w # <<>>, w[1] = <<"make_root">>
    PROVE  Outcome(c, d, m, w, "up")
  <1> DEFINE e == [d EXCEPT !.root = TRUE]
  <1>1. Run(w[1], d, m) = Becomes(e, m)
    BY DEF Run, MakeRoot
  <1>2. /\ d \in DiskType /\ m \in MemType /\ d.journals = {}
        /\ \A q \in Paths : WholeSession(m.docs[q]) /\ Backed(d, m, q)
    BY PlainFacts
  <1>3. /\ e \in DiskType /\ e.files = d.files /\ e.ids = d.ids /\ e.flushed = d.flushed
        /\ e.pending = d.pending /\ e.backup = d.backup
        /\ e.journals = {} /\ e.sessions = d.sessions /\ e.next_id = d.next_id
    BY Zenon, <1>2 DEF DiskType
  <1> HIDE DEF e
  <1>4. DiskHolds(c, e)
    BY Zenon, <1>2, <1>3, DiskTemporaries DEF VaultHolds
  <1>5. Grows(d, m, e, m) /\ Did(w[1], m, e, m)
    BY <1>3 DEF Grows, Did
  <1>6. \A q \in Paths : WholeSession(m.docs[q]) /\ Backed(e, m, q)
    BY <1>2, <1>3 DEF Backed
  <1>7. VaultHolds(c, e, m, Tail(w), "up") /\ w \in Seq(Range(w))
    BY <1>2, <1>3, <1>4, <1>5, <1>6, PlainDone
  <1> QED
    BY <1>1, <1>7, Taken

\* A path gets its identity, or keeps the one it has (load_or_create_identity).
LEMMA PlainIdentify ==
    ASSUME NEW c, NEW d, NEW m, NEW w, VaultHolds(c, d, m, w, "up"), Plain(c, d, m, w, "up"),
           w # <<>>, NEW p \in Paths, w[1] = <<"identify", p>>
    PROVE  Outcome(c, d, m, w, "up")
  <1>1. Run(w[1], d, m) = Identify(d, m, p)
    BY DEF Run
  <1>2. /\ d \in DiskType /\ m \in MemType /\ d.journals = {} /\ PlainHolds(c, d, m, w, 1)
        /\ \A q \in Paths : WholeSession(m.docs[q]) /\ Backed(d, m, q)
    BY PlainFacts
  <1>3. CASE m.ids[p] # NoId
    <2>1. Grows(d, m, d, m) /\ Did(w[1], m, d, m)
      BY SMTT(40), <1>3 DEF Grows, Did
    <2>2. VaultHolds(c, d, m, Tail(w), "up") /\ w \in Seq(Range(w))
      BY <1>2, <2>1, PlainDone DEF VaultHolds
    <2> QED
      BY <1>1, <1>3, <2>2, Taken DEF Identify
  <1>4. CASE m.ids[p] = NoId /\ d.ids[p] # NoId
    <2> DEFINE n == [m EXCEPT !.ids[p] = d.ids[p]]
    <2>1. /\ n \in MemType /\ n.docs = m.docs
          /\ \A q \in Paths : n.ids[q] = IF q = p THEN d.ids[p] ELSE m.ids[q]
      BY Zenon, <1>2 DEF MemType, DiskType
    <2>2. Run(w[1], d, m) = Becomes(d, n)
      BY <1>1, <1>4 DEF Identify
    <2> HIDE DEF n
    <2>3. Grows(d, m, d, n) /\ Did(w[1], m, d, n)
      BY <1>4, <2>1 DEF Grows, Did
    <2>4. \A q \in Paths : WholeSession(n.docs[q]) /\ Backed(d, n, q)
      BY <1>2, <1>4, <2>1 DEF Backed
    <2>5. VaultHolds(c, d, n, Tail(w), "up") /\ w \in Seq(Range(w))
      BY <1>2, <2>1, <2>3, <2>4, PlainDone DEF VaultHolds
    <2> QED
      BY <2>2, <2>5, Taken
  <1>5. CASE m.ids[p] = NoId /\ d.ids[p] = NoId
    <2> DEFINE e == [d EXCEPT !.ids[p] = d.next_id, !.next_id = @ + 1]
               n == [m EXCEPT !.ids[p] = d.next_id]
    <2>1. d.next_id \in Nat \ {0}
      BY <1>2 DEF DiskType
    <2>2. /\ n \in MemType /\ n.docs = m.docs
          /\ \A q \in Paths : n.ids[q] = IF q = p THEN d.next_id ELSE m.ids[q]
      BY Zenon, <1>2, <2>1 DEF MemType
    <2>3. /\ e.files = d.files /\ e.pending = d.pending /\ e.backup = d.backup
          /\ e.journals = {} /\ e.sessions = d.sessions
          /\ \A q \in Paths : e.ids[q] = IF q = p THEN d.next_id ELSE d.ids[q]
      BY <1>2 DEF DiskType
    <2>4. "absent" \in c \/ d.files[p] # NoText
      BY <1>2 DEF PlainHolds, Writes
    <2>5. DiskHolds(c, e)
      BY Zenon, <1>2, <1>5, <2>4, DiskIdentity DEF VaultHolds
    <2>6. Run(w[1], d, m) = Becomes(e, n)
      BY <1>1, <1>5 DEF Identify
    <2> HIDE DEF e, n
    <2>7. Grows(d, m, e, n) /\ Did(w[1], m, e, n)
      BY <2>1, <2>2, <2>3 DEF Grows, Did, NoId
    <2>8. \A q \in Paths : WholeSession(n.docs[q]) /\ Backed(e, n, q)
      BY SMTT(40), <1>2, <1>5, <2>1, <2>2, <2>3 DEF Backed
    <2>9. VaultHolds(c, e, n, Tail(w), "up") /\ w \in Seq(Range(w))
      BY <2>2, <2>3, <2>5, <2>7, <2>8, PlainDone
    <2> QED
      BY <2>6, <2>9, Taken
  <1> QED
    BY <1>3, <1>4, <1>5

\* The saved session is loaded into memory (load_or_create_session).
LEMMA PlainLoad ==
    ASSUME NEW c, NEW d, NEW m, NEW w, VaultHolds(c, d, m, w, "up"), Plain(c, d, m, w, "up"),
           w # <<>>, NEW p \in Paths, w[1] = <<"load", p>>
    PROVE  Outcome(c, d, m, w, "up")
  <1>1. Run(w[1], d, m) = Load(d, m, p)
    BY DEF Run
  <1>2. /\ d \in DiskType /\ m \in MemType /\ d.journals = {} /\ PlainHolds(c, d, m, w, 1)
        /\ \A q \in Paths : WholeSession(m.docs[q]) /\ Backed(d, m, q)
    BY PlainFacts
  <1>3. CASE m.docs[p].exists
    <2>1. Grows(d, m, d, m) /\ Did(w[1], m, d, m)
      BY <1>3 DEF Grows, Did
    <2>2. VaultHolds(c, d, m, Tail(w), "up") /\ w \in Seq(Range(w))
      BY <1>2, <2>1, PlainDone DEF VaultHolds
    <2> QED
      BY <1>1, <1>3, <2>2, Taken DEF Load
  <1>4. CASE ~m.docs[p].exists
    <2> DEFINE s == [d.sessions[p] EXCEPT !.exists = TRUE]
               e == [d EXCEPT !.sessions[p] = s]
               n == [m EXCEPT !.docs[p] = s]
    <2>1. d.sessions[p] \in Session /\ WholeSession(d.sessions[p])
      BY <1>2 DEF DiskType, VaultHolds, DiskHolds, SessionsHold
    <2>2. s \in Session /\ s.exists /\ s.seen = d.sessions[p].seen /\ WholeSession(s)
      BY Zenon, <2>1 DEF Session, WholeSession
    <2>3. m.docs[p] = NoSession /\ m.ids[p] # NoId /\ d.ids[p] # NoId
      BY <1>2, <1>4 DEF PlainHolds, Before, Backed, WholeSession
    <2>4. DiskHolds(c, e)
      BY Zenon, <1>2, <2>2, <2>3, DiskSession DEF VaultHolds
    <2>5. /\ e.files = d.files /\ e.ids = d.ids /\ e.pending = d.pending /\ e.backup = d.backup
          /\ e.journals = {}
          /\ \A q \in Paths : e.sessions[q] = IF q = p THEN s ELSE d.sessions[q]
      BY <1>2 DEF DiskType
    <2>6. /\ n \in MemType /\ n.ids = m.ids
          /\ \A q \in Paths : n.docs[q] = IF q = p THEN s ELSE m.docs[q]
      BY Zenon, <1>2, <2>2 DEF MemType
    <2>7. Run(w[1], d, m) = Becomes(e, n)
      BY <1>1, <1>4 DEF Load
    <2> HIDE DEF s, e, n
    <2>8. Grows(d, m, e, n) /\ Did(w[1], m, e, n)
      BY <2>2, <2>3, <2>5, <2>6 DEF Grows, Did, NoSession
    <2>9. \A q \in Paths : WholeSession(n.docs[q]) /\ Backed(e, n, q)
      BY SMTT(40), <1>2, <2>2, <2>3, <2>5, <2>6 DEF Backed
    <2>10. VaultHolds(c, e, n, Tail(w), "up") /\ w \in Seq(Range(w))
      BY <2>4, <2>5, <2>6, <2>8, <2>9, PlainDone
    <2> QED
      BY <2>7, <2>10, Taken
  <1> QED
    BY <1>3, <1>4

\* The step succeeds and puts more steps before the rest of the call.
LEMMA TakenThen ==
    ASSUME NEW c, NEW d, NEW m, NEW w, NEW e, NEW n, NEW u,
           Run(w[1], d, m) = [Becomes(e, n) EXCEPT !.then = u],
           VaultHolds(c, e, n, u \o Tail(w), "up")
    PROVE  Outcome(c, d, m, w, "up")
  <1> DEFINE r == [Becomes(e, n) EXCEPT !.then = u]
  <1>1. r.disk = e /\ r.mem = n /\ r.then = u /\ ~r.fails
    BY DEF Becomes
  <1> HIDE DEF r
  <1>2. Run(w[1], d, m) = r
    BY DEF r
  <1>3. (IF u \o Tail(w) = <<>> THEN "up" ELSE "up") = "up"
    OBVIOUS
  <1> QED
    BY <1>1, <1>2, <1>3, Zenon DEF Outcome

\* A plain step that adds steps to take next.
LEMMA PlainThen ==
    ASSUME NEW c, NEW d, NEW m, NEW w, VaultHolds(c, d, m, w, "up"), Plain(c, d, m, w, "up"),
           w # <<>>,
           NEW e, NEW n \in MemType, DiskHolds(c, e), e.journals = {},
           e.pending = d.pending, e.backup = d.backup,
           Grows(d, m, e, n), Did(w[1], m, e, n),
           \A p \in Paths : WholeSession(n.docs[p]) /\ Backed(e, n, p),
           NEW u, u \in Seq(Range(u)), \A k \in 1 .. Len(u) : PlainHolds(c, e, n, u, k),
           Run(w[1], d, m) = [Becomes(e, n) EXCEPT !.then = u]
    PROVE  Outcome(c, d, m, w, "up")
  <1>1. Plain(c, e, n, Tail(w), "up") /\ Tail(w) \in Seq(Range(Tail(w))) /\ NoTemps(e)
    BY PlainDone
  <1>2. Plain(c, e, n, u \o Tail(w), "up") /\ u \o Tail(w) \in Seq(Range(u \o Tail(w)))
    BY Zenon, <1>1, PlainPush
  <1>3. VaultHolds(c, e, n, u \o Tail(w), "up")
    BY Zenon, <1>1, <1>2, PlainState
  <1> QED
    BY <1>3, TakenThen

\* A document is read from its file when that was never taken in (open_document).
LEMMA PlainIngestIfNeeded ==
    ASSUME NEW c, NEW d, NEW m, NEW w, VaultHolds(c, d, m, w, "up"), Plain(c, d, m, w, "up"),
           w # <<>>, NEW p \in Paths, w[1] = <<"ingest_if_needed", p>>
    PROVE  Outcome(c, d, m, w, "up")
  <1> DEFINE empty == m.docs[p].text = NoText
             unread == d.flushed[p] \in {NoDirectory, NoText}
             t == IF ~empty /\ d.flushed[p] = NoDirectory THEN NoText ELSE d.flushed[p]
             e == [d EXCEPT !.flushed[p] = t]
             u == IF empty \/ unread THEN <<<<"ingest", p>>>> ELSE <<>>
  <1>1. Run(w[1], d, m) = [Becomes(e, m) EXCEPT !.then = u]
    BY DEF Run, IngestIfNeeded
  <1>2. /\ d \in DiskType /\ m \in MemType /\ d.journals = {} /\ PlainHolds(c, d, m, w, 1)
        /\ \A q \in Paths : WholeSession(m.docs[q]) /\ Backed(d, m, q)
    BY PlainFacts
  <1>3. m.docs[p].exists /\ d.ids[p] # NoId
    BY <1>2 DEF PlainHolds, Before, Backed
  <1>4. /\ DiskHolds(c, e)
        /\ e.files = d.files /\ e.ids = d.ids /\ e.pending = d.pending /\ e.backup = d.backup
        /\ e.journals = d.journals /\ e.sessions = d.sessions
    <2>1. CASE t = NoText
      <3>1. NoText \notin Texts /\ NoText \in Texts \cup {NoText, NoDirectory}
        BY VaultDiskAssumption DEF Texts, NoText
      <3>2. DiskHolds(c, [d EXCEPT !.flushed[p] = NoText])
        BY <1>2, <1>3, <3>1, DiskFlushed DEF VaultHolds
      <3>3. e = [d EXCEPT !.flushed[p] = NoText]
        BY <2>1
      <3> HIDE DEF t
      <3> QED
        BY <1>2, <3>2, <3>3 DEF DiskType
    <2>2. CASE t = d.flushed[p]
      <3> HIDE DEF t
      <3>1. e = d
        BY <1>2, <2>2 DEF DiskType
      <3> HIDE DEF e
      <3> QED
        BY <3>1 DEF VaultHolds
    <2>3. t = NoText \/ t = d.flushed[p]
      OBVIOUS
    <2> HIDE DEF t, e
    <2> QED
      BY <2>1, <2>2, <2>3
  <1>5. u \in {<<>>, <<<<"ingest", p>>>>} /\ u \in Seq(Range(u))
    <2>1. u \in {<<>>, <<<<"ingest", p>>>>} /\ u \in Seq({<<"ingest", p>>})
      OBVIOUS
    <2> QED
      BY ZenonT(40), <2>1, OwnRange
  <1> HIDE DEF e, u
  <1>6. \A k \in 1 .. Len(u) : PlainHolds(c, e, m, u, k)
    <2> SUFFICES ASSUME NEW k \in 1 .. Len(u) PROVE PlainHolds(c, e, m, u, k)
      OBVIOUS
    <2>1. u[k] = <<"ingest", p>>
      BY <1>5
    <2> QED
      BY <1>3, <2>1 DEF PlainHolds, PlainSteps
  <1>7. Grows(d, m, e, m) /\ Did(w[1], m, e, m)
    BY <1>4 DEF Grows, Did
  <1>8. \A q \in Paths : WholeSession(m.docs[q]) /\ Backed(e, m, q)
    BY <1>2, <1>4 DEF Backed
  <1> QED
    BY <1>1, <1>2, <1>4, <1>5, <1>6, <1>7, <1>8, PlainThen

\* A file is taken into the session, which is then saved (ingest_file_unchecked).
LEMMA PlainIngest ==
    ASSUME NEW c, NEW d, NEW m, NEW w, VaultHolds(c, d, m, w, "up"), Plain(c, d, m, w, "up"),
           w # <<>>, NEW p \in Paths, w[1] = <<"ingest", p>>
    PROVE  Outcome(c, d, m, w, "up")
  <1>1. Run(w[1], d, m) = Ingest(d, m, p)
    BY DEF Run
  <1>2. /\ d \in DiskType /\ m \in MemType /\ d.journals = {} /\ PlainHolds(c, d, m, w, 1)
        /\ \A q \in Paths : WholeSession(m.docs[q]) /\ Backed(d, m, q)
    BY PlainFacts
  <1>3. m.docs[p].exists /\ d.ids[p] # NoId
    BY <1>2 DEF PlainHolds, Before, Backed
  <1> DEFINE t == IF d.flushed[p] = NoDirectory THEN NoText ELSE d.flushed[p]
             e == [d EXCEPT !.flushed[p] = t]
             f == d.files[p]
             s == Take(m.docs[p], f)
             n == [m EXCEPT !.docs[p] = s]
  <1>4. /\ DiskHolds(c, e)
        /\ e.files = d.files /\ e.ids = d.ids /\ e.pending = d.pending /\ e.backup = d.backup
        /\ e.journals = d.journals /\ e.sessions = d.sessions
    <2>1. CASE t = NoText
      <3>1. NoText \notin Texts /\ NoText \in Texts \cup {NoText, NoDirectory}
        BY VaultDiskAssumption DEF Texts, NoText
      <3>2. DiskHolds(c, [d EXCEPT !.flushed[p] = NoText])
        BY Zenon, <1>2, <1>3, <3>1, DiskFlushed DEF VaultHolds
      <3>3. e = [d EXCEPT !.flushed[p] = NoText]
        BY <2>1
      <3> HIDE DEF t
      <3> QED
        BY <1>2, <3>2, <3>3 DEF DiskType
    <2>2. CASE t = d.flushed[p]
      <3> HIDE DEF t
      <3>1. e = d
        BY <1>2, <2>2 DEF DiskType
      <3> HIDE DEF e
      <3> QED
        BY <3>1 DEF VaultHolds
    <2>3. t = NoText \/ t = d.flushed[p]
      OBVIOUS
    <2> HIDE DEF t, e
    <2> QED
      BY <2>1, <2>2, <2>3
  <1>5. CASE f = NoText
    BY <1>1, <1>5, Refused DEF Ingest, MayFail, CleansUp
  <1>6. CASE f # NoText /\ d.flushed[p] = f
    <2> DEFINE u == IF m.docs[p].text = NoText THEN <<<<"save", p>>>> ELSE <<>>
    <2>1. Run(w[1], d, m) = [Becomes(e, m) EXCEPT !.then = u]
      BY <1>1, <1>6 DEF Ingest
    <2>2. u \in {<<>>, <<<<"save", p>>>>} /\ u \in Seq(Range(u))
      <3>1. u \in {<<>>, <<<<"save", p>>>>} /\ u \in Seq({<<"save", p>>})
        OBVIOUS
      <3> QED
        BY Zenon, <3>1, OwnRange
    <2> HIDE DEF e, u
    <2>3. \A k \in 1 .. Len(u) : PlainHolds(c, e, m, u, k)
      <3> SUFFICES ASSUME NEW k \in 1 .. Len(u) PROVE PlainHolds(c, e, m, u, k)
        OBVIOUS
      <3>1. u[k] = <<"save", p>>
        BY <2>2
      <3> QED
        BY <3>1 DEF PlainHolds, PlainSteps
    <2>4. Grows(d, m, e, m) /\ Did(w[1], m, e, m)
      BY <1>4 DEF Grows, Did
    <2>5. \A q \in Paths : WholeSession(m.docs[q]) /\ Backed(e, m, q)
      BY <1>2, <1>4 DEF Backed
    <2> QED
      BY <1>2, <1>4, <2>1, <2>2, <2>3, <2>4, <2>5, PlainThen
  <1>7. CASE f # NoText /\ d.flushed[p] # f
    <2> DEFINE u == <<<<"save", p>>, <<"flush", p, f>>>>
    <2>1. Run(w[1], d, m) = [Becomes(e, n) EXCEPT !.then = u]
      BY <1>1, <1>7 DEF Ingest
    <2>2. f \in Texts
      BY <1>2, <1>7 DEF DiskType
    <2>3. /\ s \in Session /\ s.exists /\ m.docs[p].seen \subseteq s.seen /\ f \in s.seen
          /\ WholeSession(s)
      BY <1>2, <2>2 DEF MemType, Take, Session, WholeSession
    <2>4. /\ n \in MemType /\ n.ids = m.ids
          /\ \A q \in Paths : n.docs[q] = IF q = p THEN s ELSE m.docs[q]
      BY Zenon, <1>2, <2>3 DEF MemType
    <2>5. u \in Seq(Range(u)) /\ Len(u) = 2 /\ u[1] = <<"save", p>> /\ u[2] = <<"flush", p, f>>
      <3>1. u \in Seq({<<"save", p>>, <<"flush", p, f>>})
        OBVIOUS
      <3> QED
        BY Zenon, <3>1, OwnRange
    <2> HIDE DEF e, n, s, f, u
    <2>6. \A k \in 1 .. Len(u) : PlainHolds(c, e, n, u, k)
      <3>1. Before(u, 2, <<"save", p>>)
        BY <2>5 DEF Before
      <3>2. FlushBacked(c, e, n, u, 2, p, f)
        BY <2>3, <2>4, <3>1 DEF FlushBacked
      <3>3. PlainHolds(c, e, n, u, 1)
        BY <2>5 DEF PlainHolds, PlainSteps
      <3>4. PlainHolds(c, e, n, u, 2)
        BY <2>2, <2>5, <3>2 DEF PlainHolds, PlainSteps
      <3> QED
        BY <2>5, <3>3, <3>4
    <2>7. Grows(d, m, e, n) /\ Did(w[1], m, e, n)
      BY <1>4, <2>3, <2>4 DEF Grows, Did
    <2>8. \A q \in Paths : WholeSession(n.docs[q]) /\ Backed(e, n, q)
      BY <1>2, <1>3, <1>4, <2>3, <2>4 DEF Backed
    <2> QED
      BY Zenon, <1>2, <1>4, <2>1, <2>4, <2>5, <2>6, <2>7, <2>8, PlainThen
  <1> QED
    BY <1>5, <1>6, <1>7

\* Every step of a call without a journal.
LEMMA PlainStep ==
    ASSUME NEW c, NEW d, NEW m, NEW w, VaultHolds(c, d, m, w, "up"), Plain(c, d, m, w, "up"),
           w # <<>>
    PROVE  Outcome(c, d, m, w, "up")
  <1>1. w[1] \in PlainSteps
    BY PlainFacts
  <1>2. CASE w[1] \in {"identify", "load", "ingest_if_needed", "ingest", "save"} \X Paths
    <2>1. PICK p \in Paths : \/ w[1] = <<"identify", p>> \/ w[1] = <<"load", p>>
                             \/ w[1] = <<"ingest_if_needed", p>> \/ w[1] = <<"ingest", p>>
                             \/ w[1] = <<"save", p>>
      BY <1>2
    <2> QED
      BY <2>1, PlainIdentify, PlainLoad, PlainIngestIfNeeded, PlainIngest, PlainSave
  <1>3. CASE w[1] \in {"save_edited", "flush", "write_file"} \X Paths \X Texts
    <2>1. PICK p \in Paths, t \in Texts :
             w[1] = <<"save_edited", p, t>> \/ w[1] = <<"flush", p, t>> \/ w[1] = <<"write_file", p, t>>
      BY <1>3
    <2> QED
      BY <2>1, PlainSaveEdited, PlainFlush, PlainWriteFile
  <1>4. CASE w[1] = <<"make_root">>
    BY <1>4, PlainMakeRoot
  <1> QED
    BY <1>1, <1>2, <1>3, <1>4 DEF PlainSteps


-----------------------------------------------------------------------------
(* What a step does to the documents as they are once the journals are      *)
(* carried out.                                                             *)

Doc(f, i, h) == [file |-> f, id |-> i, session |-> h]
History(s) == [text |-> s.text, seen |-> s.seen]
Histories == [text : Texts \cup {NoText}, seen : SUBSET Texts]
Nothing == Doc(NoText, NoId, [text |-> NoText, seen |-> {}])

\* The fields of a document are its own.
LEMMA DocFacts ==
    ASSUME NEW f, NEW i, NEW h, NEW g
    PROVE  /\ Doc(f, i, h).file = f /\ Doc(f, i, h).id = i /\ Doc(f, i, h).session = h
           /\ [Doc(f, i, h) EXCEPT !.file = g] = Doc(g, i, h)
           /\ [Doc(f, i, h) EXCEPT !.id = g] = Doc(f, g, h)
           /\ [Doc(f, i, h) EXCEPT !.session = g] = Doc(f, i, g)
  BY DEF Doc

\* Without a journal a document is what its records say.
LEMMA CommittedQuiet ==
    ASSUME NEW d, NEW p, d.journals = {}
    PROVE  Committed(d, p) = Doc(d.files[p], d.ids[p], History(d.sessions[p]))
  BY DEF Committed, Doc, History

\* The journal of an export stands for its pending files.
LEMMA CommittedExport ==
    ASSUME NEW d, NEW p, NEW j, d.journals = {j}, j.kind = "export"
    PROVE  Committed(d, p) = Doc(IF p \in Range(j.paths) /\ d.pending[p] # NoText
                                 THEN d.pending[p] ELSE d.files[p],
                                 d.ids[p], History(d.sessions[p]))
  <1>1. CASE p \in Range(j.paths) /\ d.pending[p] # NoText
    <2>1. Committed(d, p) = [Doc(d.files[p], d.ids[p], History(d.sessions[p])) EXCEPT !.file = d.pending[p]]
      BY Zenon, <1>1 DEF Committed, Doc, History
    <2> QED
      BY <1>1, <2>1, DocFacts
  <1>2. CASE ~(p \in Range(j.paths) /\ d.pending[p] # NoText)
    BY Zenon, <1>2 DEF Committed, Doc, History
  <1> QED
    BY <1>1, <1>2

\* The journal of a rename stands for the document at its new path.
LEMMA CommittedRename ==
    ASSUME NEW d, NEW p, NEW j, d.journals = {j}, j.kind = "rename", j.from # j.to
    PROVE  /\ Committed(d, j.to) = Doc(IF d.files[j.from] # NoText THEN d.files[j.from] ELSE d.files[j.to],
                                       j.id,
                                       IF d.sessions[j.to].exists THEN History(d.sessions[j.to])
                                                                  ELSE History(d.sessions[j.from]))
           /\ Committed(d, j.from) = Nothing
           /\ p \notin {j.from, j.to} =>
                 Committed(d, p) = Doc(d.files[p], d.ids[p], History(d.sessions[p]))
  <1>1. (CHOOSE i \in d.journals : i.kind = "rename" /\ i.to = j.to) = j
    OBVIOUS
  <1>2. Committed(d, j.to) = Doc(IF d.files[j.from] # NoText THEN d.files[j.from] ELSE d.files[j.to],
                                 j.id,
                                 IF d.sessions[j.to].exists THEN History(d.sessions[j.to])
                                                            ELSE History(d.sessions[j.from]))
    BY Zenon, <1>1 DEF Committed, Doc, History
  <1>3. Committed(d, j.from) = Nothing
    BY Zenon DEF Committed, Nothing, Doc
  <1>4. p \notin {j.from, j.to} => Committed(d, p) = Doc(d.files[p], d.ids[p], History(d.sessions[p]))
    BY Zenon DEF Committed, Doc, History
  <1> QED
    BY <1>2, <1>3, <1>4

\* The journal of a deletion stands for nothing at its path.
LEMMA CommittedDelete ==
    ASSUME NEW d, NEW p, NEW j, d.journals = {j}, j.kind = "delete"
    PROVE  /\ Committed(d, j.path) = Nothing
           /\ p # j.path => Committed(d, p) = Doc(d.files[p], d.ids[p], History(d.sessions[p]))
  BY Zenon DEF Committed, Doc, History, Nothing

\* From disk d to disk e: no document changes; some files get new texts; the session
\* of one identified document grows; one document is given an identity; one moves
\* to a vacant path; one is gone.
Kept(d, e) == e.next_id = d.next_id /\ \A p \in Paths : Committed(e, p) = Committed(d, p)
Published(d, e) ==
    /\ e.next_id = d.next_id
    /\ \A p \in Paths : \/ Committed(e, p) = Committed(d, p)
                        \/ \E t \in Texts : Committed(e, p) = [Committed(d, p) EXCEPT !.file = t]
Grown(d, e) ==
    /\ e.next_id = d.next_id
    /\ \E p \in Paths, h \in Histories :
          /\ Committed(d, p).id # NoId /\ Committed(d, p).session.seen \subseteq h.seen
          /\ Committed(e, p) = [Committed(d, p) EXCEPT !.session = h]
          /\ \A q \in Paths \ {p} : Committed(e, q) = Committed(d, q)
Identified(d, e) ==
    /\ e.next_id = d.next_id + 1
    /\ \E p \in Paths :
          /\ Committed(d, p).id = NoId
          /\ Committed(e, p) = [Committed(d, p) EXCEPT !.id = d.next_id]
          /\ \A q \in Paths \ {p} : Committed(e, q) = Committed(d, q)
Moved(d, e) ==
    /\ e.next_id = d.next_id
    /\ \E from, to \in Paths :
          /\ from # to /\ Committed(d, to) = Nothing
          /\ Committed(e, to) = Committed(d, from) /\ Committed(e, from) = Nothing
          /\ \A q \in Paths \ {from, to} : Committed(e, q) = Committed(d, q)
Deleted(d, e) ==
    /\ e.next_id = d.next_id
    /\ \E p \in Paths : /\ Committed(e, p) = Nothing
                        /\ \A q \in Paths \ {p} : Committed(e, q) = Committed(d, q)

\* No file changes with these.
Inward(d, e) == Kept(d, e) \/ Grown(d, e) \/ Identified(d, e)

\* Steps that touch no record a document is made of.
LEMMA QuietKept ==
    ASSUME NEW d, NEW e, d.journals = {}, e.journals = {}, e.next_id = d.next_id,
           \A p \in Paths : /\ e.files[p] = d.files[p] /\ e.ids[p] = d.ids[p]
                            /\ History(e.sessions[p]) = History(d.sessions[p])
    PROVE  Kept(d, e)
  BY CommittedQuiet DEF Kept

\* Saving a session that forgets nothing, with no journal or that of an export.
LEMMA SaveGrows ==
    ASSUME NEW d \in DiskType, NEW p \in Paths, NEW s \in Session, d.ids[p] # NoId,
           d.sessions[p].seen \subseteq s.seen,
           d.journals = {} \/ \E j : d.journals = {j} /\ j.kind = "export"
    PROVE  Grown(d, [d EXCEPT !.sessions[p] = s])
  <1> DEFINE e == [d EXCEPT !.sessions[p] = s]
  <1>1. /\ e.next_id = d.next_id /\ e.journals = d.journals /\ e.pending = d.pending
        /\ e.files = d.files /\ e.ids = d.ids
        /\ e.sessions[p] = s /\ \A q \in Paths \ {p} : e.sessions[q] = d.sessions[q]
    BY DEF DiskType
  <1> HIDE DEF e
  <1>2. History(s) \in Histories /\ History(s).seen = s.seen /\ History(d.sessions[p]).seen = d.sessions[p].seen
    BY DEF History, Histories, Session
  <1>3. ASSUME NEW f,
               \A q \in Paths : Committed(d, q) = Doc(f[q], d.ids[q], History(d.sessions[q])),
               \A q \in Paths : Committed(e, q) = Doc(f[q], d.ids[q], History(e.sessions[q]))
        PROVE  Grown(d, e)
    <2>1. /\ Committed(d, p).id # NoId /\ Committed(d, p).session.seen \subseteq History(s).seen
          /\ Committed(e, p) = [Committed(d, p) EXCEPT !.session = History(s)]
      BY <1>1, <1>2, <1>3, DocFacts
    <2>2. \A q \in Paths \ {p} : Committed(e, q) = Committed(d, q)
      BY <1>1, <1>3
    <2> QED
      BY <1>1, <1>2, <2>1, <2>2 DEF Grown
  <1>4. CASE d.journals = {}
    <2>1. /\ \A q \in Paths : Committed(d, q) = Doc(d.files[q], d.ids[q], History(d.sessions[q]))
          /\ \A q \in Paths : Committed(e, q) = Doc(d.files[q], d.ids[q], History(e.sessions[q]))
      BY <1>1, <1>4, CommittedQuiet
    <2> QED
      BY <1>3, <2>1 DEF e
  <1>5. CASE \E j : d.journals = {j} /\ j.kind = "export"
    <2>1. PICK j : d.journals = {j} /\ j.kind = "export"
      BY <1>5
    <2> DEFINE f == [q \in Paths |-> IF q \in Range(j.paths) /\ d.pending[q] # NoText
                                     THEN d.pending[q] ELSE d.files[q]]
    <2>2. \A q \in Paths : f[q] = IF q \in Range(j.paths) /\ d.pending[q] # NoText
                                  THEN d.pending[q] ELSE d.files[q]
      OBVIOUS
    <2> HIDE DEF f
    <2>3. /\ \A q \in Paths : Committed(d, q) = Doc(f[q], d.ids[q], History(d.sessions[q]))
          /\ \A q \in Paths : Committed(e, q) = Doc(f[q], d.ids[q], History(e.sessions[q]))
      BY <1>1, <2>1, <2>2, CommittedExport
    <2> QED
      BY <1>3, <2>3 DEF e
  <1> QED
    BY <1>4, <1>5

\* Giving a document its first identity.
LEMMA IdentityGiven ==
    ASSUME NEW d \in DiskType, NEW p \in Paths, d.ids[p] = NoId, d.journals = {}
    PROVE  Identified(d, [d EXCEPT !.ids[p] = d.next_id, !.next_id = @ + 1])
  <1> DEFINE e == [d EXCEPT !.ids[p] = d.next_id, !.next_id = @ + 1]
  <1>1. /\ e.next_id = d.next_id + 1 /\ e.journals = {} /\ e.files = d.files /\ e.sessions = d.sessions
        /\ e.ids[p] = d.next_id /\ \A q \in Paths \ {p} : e.ids[q] = d.ids[q]
    BY DEF DiskType
  <1> HIDE DEF e
  <1>2. /\ \A q \in Paths : Committed(d, q) = Doc(d.files[q], d.ids[q], History(d.sessions[q]))
        /\ \A q \in Paths : Committed(e, q) = Doc(d.files[q], e.ids[q], History(d.sessions[q]))
    BY <1>1, CommittedQuiet
  <1>3. /\ Committed(d, p).id = NoId
        /\ Committed(e, p) = [Committed(d, p) EXCEPT !.id = d.next_id]
        /\ \A q \in Paths \ {p} : Committed(e, q) = Committed(d, q)
    BY <1>1, <1>2, DocFacts
  <1> QED
    BY <1>1, <1>3 DEF Identified, e

\* A file is written, with no journal (write_file, or another program).
LEMMA FilePublished ==
    ASSUME NEW d \in DiskType, NEW p \in Paths, NEW t \in Texts, d.journals = {}
    PROVE  Published(d, [d EXCEPT !.files[p] = t])
  <1> DEFINE e == [d EXCEPT !.files[p] = t]
  <1>1. /\ e.next_id = d.next_id /\ e.journals = {} /\ e.ids = d.ids /\ e.sessions = d.sessions
        /\ e.files[p] = t /\ \A q \in Paths \ {p} : e.files[q] = d.files[q]
    BY DEF DiskType
  <1> HIDE DEF e
  <1>2. /\ \A q \in Paths : Committed(d, q) = Doc(d.files[q], d.ids[q], History(d.sessions[q]))
        /\ \A q \in Paths : Committed(e, q) = Doc(e.files[q], d.ids[q], History(d.sessions[q]))
    BY <1>1, CommittedQuiet
  <1>3. /\ Committed(e, p) = [Committed(d, p) EXCEPT !.file = t]
        /\ \A q \in Paths \ {p} : Committed(e, q) = Committed(d, q)
    BY <1>1, <1>2, DocFacts
  <1> QED
    BY <1>1, <1>3 DEF Published, e

\* What the step at the head of w does to the documents.
Commits(d, m, w) ==
    LET r == Run(w[1], d, m)
    IN  ~r.fails => CASE w[1][1] = "write_file" -> Published(d, r.disk)
                      [] w[1][1] = "write_journal" -> \/ Published(d, r.disk)
                                                      \/ Moved(d, r.disk) \/ Deleted(d, r.disk)
                      [] OTHER -> Inward(d, r.disk)

\* A step that leaves the documents as they are, or makes one grow.
LEMMA InwardCommits ==
    ASSUME NEW d, NEW m, NEW w, NEW e, Run(w[1], d, m).disk = e, Inward(d, e),
           w[1][1] \notin {"write_file", "write_journal"}
    PROVE  Commits(d, m, w)
  BY DEF Commits

\* Steps of a call that writes no journal.
LEMMA PlainSaveCommits ==
    ASSUME NEW d \in DiskType, NEW m \in MemType, NEW w, NEW p \in Paths, w[1] = <<"save", p>>,
           Backed(d, m, p), d.journals = {} \/ \E j : d.journals = {j} /\ j.kind = "export"
    PROVE  Commits(d, m, w)
  <1>1. Run(w[1], d, m) = Save(d, m, p) /\ w[1][1] = "save"
    BY DEF Run
  <1>2. CASE ~m.docs[p].exists
    BY <1>1, <1>2 DEF Save, Fails, Commits
  <1>3. CASE m.docs[p].exists
    <2> DEFINE e == [d EXCEPT !.sessions[p] = m.docs[p]]
    <2>1. Run(w[1], d, m).disk = e
      BY <1>1, <1>3 DEF Save, Becomes
    <2>2. m.docs[p] \in Session /\ d.sessions[p].seen \subseteq m.docs[p].seen /\ d.ids[p] # NoId
      BY <1>3 DEF MemType, Backed
    <2>3. Grown(d, e)
      BY <2>2, SaveGrows
    <2> HIDE DEF e
    <2> QED
      BY <1>1, <2>1, <2>3, InwardCommits DEF Inward
  <1> QED
    BY <1>2, <1>3

\* A step of a call without a journal changes one document at most.
LEMMA PlainCommits ==
    ASSUME NEW c, NEW d, NEW m, NEW w, VaultHolds(c, d, m, w, "up"), Plain(c, d, m, w, "up"), w # <<>>
    PROVE  Commits(d, m, w)
  <1> DEFINE r == Run(w[1], d, m)
  <1>1. /\ d \in DiskType /\ m \in MemType /\ d.journals = {} /\ w[1] \in PlainSteps
        /\ PlainHolds(c, d, m, w, 1)
        /\ \A p \in Paths : WholeSession(m.docs[p]) /\ Backed(d, m, p)
    BY PlainFacts
  <1>2. ASSUME NEW e, r.disk = e, w[1][1] \notin {"write_file", "write_journal"},
               e.journals = {}, e.next_id = d.next_id,
               \A p \in Paths : /\ e.files[p] = d.files[p] /\ e.ids[p] = d.ids[p]
                                /\ History(e.sessions[p]) = History(d.sessions[p])
        PROVE  Commits(d, m, w)
    <2>1. Kept(d, e)
      BY <1>1, <1>2, QuietKept
    <2> QED
      BY <1>2, <2>1, InwardCommits DEF Inward
  <1>3. ASSUME NEW p \in Paths, w[1] = <<"identify", p>>
        PROVE  Commits(d, m, w)
    <2>1. r = Identify(d, m, p) /\ w[1][1] = "identify"
      BY <1>3 DEF Run
    <2>2. CASE r.disk = d
      BY <1>1, <1>2, <2>1, <2>2
    <2>3. CASE r.disk # d
      <3> DEFINE e == [d EXCEPT !.ids[p] = d.next_id, !.next_id = @ + 1]
      <3>1. r.disk = e /\ d.ids[p] = NoId
        BY <2>1, <2>3 DEF Identify, Becomes
      <3>2. Identified(d, e)
        BY Zenon, <1>1, <3>1, IdentityGiven
      <3> HIDE DEF e
      <3> QED
        BY <2>1, <3>1, <3>2, InwardCommits DEF Inward
    <2> QED
      BY <2>2, <2>3
  <1>4. ASSUME NEW p \in Paths, w[1] = <<"load", p>>
        PROVE  Commits(d, m, w)
    <2>1. r = Load(d, m, p) /\ w[1][1] = "load"
      BY <1>4 DEF Run
    <2>2. CASE r.disk = d
      BY <1>1, <1>2, <2>1, <2>2
    <2>3. CASE r.disk # d
      <3> DEFINE e == [d EXCEPT !.sessions[p].exists = TRUE]
      <3>1. r.disk = e
        BY <2>1, <2>3 DEF Load, Becomes
      <3>2. /\ e.journals = {} /\ e.next_id = d.next_id /\ e.files = d.files /\ e.ids = d.ids
            /\ \A q \in Paths : e.sessions[q].text = d.sessions[q].text /\ e.sessions[q].seen = d.sessions[q].seen
        BY <1>1 DEF DiskType, Session
      <3> HIDE DEF e
      <3> QED
        BY <1>2, <2>1, <3>1, <3>2 DEF History
    <2> QED
      BY <2>2, <2>3
  <1>5. ASSUME NEW p \in Paths, w[1] \in {<<"ingest_if_needed", p>>, <<"ingest", p>>}
        PROVE  Commits(d, m, w)
    <2>1. w[1][1] \notin {"write_file", "write_journal"}
      BY <1>5
    <2>2. ASSUME NEW t, r.disk = [d EXCEPT !.flushed[p] = t]
          PROVE  Commits(d, m, w)
      <3> DEFINE e == [d EXCEPT !.flushed[p] = t]
      <3>1. e.journals = {} /\ e.next_id = d.next_id /\ e.files = d.files /\ e.ids = d.ids
            /\ e.sessions = d.sessions
        BY <1>1 DEF DiskType
      <3>2. r.disk = e
        BY <2>2
      <3> HIDE DEF e
      <3> QED
        BY <1>2, <2>1, <3>1, <3>2
    <2>3. CASE w[1] = <<"ingest_if_needed", p>>
      <3> DEFINE t == IF ~(m.docs[p].text = NoText) /\ d.flushed[p] = NoDirectory
                      THEN NoText ELSE d.flushed[p]
      <3>1. r = IngestIfNeeded(d, m, p)
        BY <2>3 DEF Run
      <3>2. r.disk = [d EXCEPT !.flushed[p] = t]
        BY <3>1 DEF IngestIfNeeded, Becomes
      <3> HIDE DEF t
      <3> QED
        BY <2>2, <3>2
    <2>4. CASE w[1] = <<"ingest", p>>
      <3> DEFINE t == IF d.flushed[p] = NoDirectory THEN NoText ELSE d.flushed[p]
      <3>1. r = Ingest(d, m, p)
        BY <2>4 DEF Run
      <3>2. CASE d.files[p] = NoText
        BY <3>1, <3>2 DEF Ingest, Fails, Commits
      <3>3. CASE d.files[p] # NoText
        <4>1. r.disk = [d EXCEPT !.flushed[p] = t]
          BY <3>1, <3>3 DEF Ingest, Becomes
        <4> HIDE DEF t
        <4> QED
          BY <2>2, <4>1
      <3> QED
        BY <3>2, <3>3
    <2> QED
      BY <1>5, <2>3, <2>4
  <1>6. ASSUME NEW p \in Paths, w[1] = <<"save", p>>
        PROVE  Commits(d, m, w)
    BY <1>1, <1>6, PlainSaveCommits
  <1>7. ASSUME NEW p \in Paths, NEW t \in Texts, w[1] = <<"save_edited", p, t>>
        PROVE  Commits(d, m, w)
    <2> DEFINE s == Take(m.docs[p], t)
               e == [d EXCEPT !.sessions[p] = s]
    <2>1. r.disk = e /\ w[1][1] = "save_edited"
      BY <1>7 DEF Run, SaveEdited, Becomes
    <2>2. m.docs[p].exists
      BY <1>1, <1>7 DEF PlainHolds
    <2>3. s \in Session /\ d.sessions[p].seen \subseteq s.seen /\ d.ids[p] # NoId
      BY <1>1, <2>2 DEF MemType, Session, Take, Backed
    <2> HIDE DEF s
    <2>4. Grown(d, e)
      BY <1>1, <2>3, SaveGrows
    <2> HIDE DEF e
    <2> QED
      BY <2>1, <2>4, InwardCommits DEF Inward
  <1>8. ASSUME NEW p \in Paths, NEW t \in Texts, w[1] = <<"flush", p, t>>
        PROVE  Commits(d, m, w)
    <2> DEFINE e == [d EXCEPT !.flushed[p] = t]
    <2>1. r.disk = e /\ w[1][1] = "flush"
      BY <1>8 DEF Run, Flush, Becomes
    <2>2. e.journals = {} /\ e.next_id = d.next_id /\ e.files = d.files /\ e.ids = d.ids
          /\ e.sessions = d.sessions
      BY <1>1 DEF DiskType
    <2> HIDE DEF e
    <2> QED
      BY <1>2, <2>1, <2>2
  <1>9. ASSUME NEW p \in Paths, NEW t \in Texts, w[1] = <<"write_file", p, t>>
        PROVE  Commits(d, m, w)
    <2>1. r.disk = [d EXCEPT !.files[p] = t] /\ w[1][1] = "write_file"
      BY <1>9 DEF Run, WriteFile, Becomes
    <2>2. Published(d, r.disk)
      BY <1>1, <2>1, FilePublished
    <2> QED
      BY <2>1, <2>2 DEF Commits
  <1>10. ASSUME w[1] = <<"make_root">>
         PROVE  Commits(d, m, w)
    <2> DEFINE e == [d EXCEPT !.root = TRUE]
    <2>1. r = Becomes(e, m)
      BY <1>10 DEF Run, MakeRoot
    <2>2. e.journals = {} /\ e.next_id = d.next_id /\ e.files = d.files /\ e.ids = d.ids
          /\ e.sessions = d.sessions
      BY <1>1 DEF DiskType
    <2> HIDE DEF e
    <2>3. r.disk = e
      BY <2>1 DEF Becomes
    <2>4. w[1][1] = "make_root"
      BY <1>10
    <2> QED
      BY <1>2, <2>2, <2>3, <2>4
  <1>11. \/ \E p \in Paths : w[1] \in {<<"identify", p>>, <<"load", p>>, <<"ingest_if_needed", p>>,
                                       <<"ingest", p>>, <<"save", p>>}
         \/ \E p \in Paths, t \in Texts : w[1] \in {<<"save_edited", p, t>>, <<"flush", p, t>>,
                                                    <<"write_file", p, t>>}
         \/ w[1] = <<"make_root">>
    BY <1>1 DEF PlainSteps
  <1> QED
    BY <1>3, <1>4, <1>5, <1>6, <1>7, <1>8, <1>9, <1>10, <1>11

\* Another program's write reaches the document the file belongs to, whatever journal
\* is there; under a pending export or deletion it is lost.
LEMMA ExternalPublished ==
    ASSUME NEW c, NEW d, DiskHolds(c, d), NEW p \in Paths, NEW t \in Texts, d.files[p] # NoText
    PROVE  Published(d, [d EXCEPT !.files[p] = t])
  <1> DEFINE e == [d EXCEPT !.files[p] = t]
  <1>1. d \in DiskType
    BY DEF DiskHolds
  <1>2. /\ e.next_id = d.next_id /\ e.journals = d.journals /\ e.ids = d.ids /\ e.sessions = d.sessions
        /\ e.pending = d.pending /\ e.files[p] = t /\ \A q \in Paths \ {p} : e.files[q] = d.files[q]
    BY <1>1 DEF DiskType
  <1>5. SUFFICES Published(d, e)
    OBVIOUS
  <1>3. CASE d.journals = {}
    BY <1>1, <1>3, FilePublished
  <1> HIDE DEF e
  <1>4. CASE d.journals # {}
    <2>1. PICK j : d.journals = {j} /\ j \in Journals /\ JournalHolds(c, d, j)
      BY <1>1, <1>4 DEF DiskType, DiskHolds, JournalsHold
    <2>2. CASE j.kind = "export"
      <3>1. ASSUME NEW q \in Paths
            PROVE  \/ Committed(e, q) = Committed(d, q)
                   \/ \E u \in Texts : Committed(e, q) = [Committed(d, q) EXCEPT !.file = u]
        <4>1. /\ Committed(d, q) = Doc(IF q \in Range(j.paths) /\ d.pending[q] # NoText
                                       THEN d.pending[q] ELSE d.files[q],
                                       d.ids[q], History(d.sessions[q]))
              /\ Committed(e, q) = Doc(IF q \in Range(j.paths) /\ d.pending[q] # NoText
                                       THEN d.pending[q] ELSE e.files[q],
                                       d.ids[q], History(d.sessions[q]))
          BY <1>2, <2>1, <2>2, CommittedExport
        <4>2. CASE q = p /\ ~(q \in Range(j.paths) /\ d.pending[q] # NoText)
          BY <1>2, <4>1, <4>2, DocFacts
        <4> QED
          BY <1>2, <4>1, <4>2
      <3> QED
        BY <1>2, <3>1 DEF Published
    <2>3. CASE j.kind = "rename"
      <3>1. /\ j.from # j.to /\ j.from \in Paths /\ j.to \in Paths
            /\ (d.files[j.from] = NoText) # (d.files[j.to] = NoText)
        BY <2>1, <2>3, JournalKinds DEF JournalHolds, HalfRenamed
      <3>2. t # NoText
        BY DEF Texts, NoText
      <3> DEFINE s == IF d.sessions[j.to].exists THEN History(d.sessions[j.to])
                                                 ELSE History(d.sessions[j.from])
                 f == IF d.files[j.from] # NoText THEN d.files[j.from] ELSE d.files[j.to]
      <3>8. Committed(d, j.to) = Doc(f, j.id, s) /\ Committed(d, j.from) = Nothing
        BY <2>1, <2>3, <3>1, CommittedRename
      <3>9. /\ Committed(e, j.from) = Nothing
            /\ Committed(e, j.to) = Doc(IF e.files[j.from] # NoText THEN e.files[j.from]
                                                                    ELSE e.files[j.to], j.id, s)
        <4>1. e.journals = {j} /\ e.sessions = d.sessions
          BY <1>2, <2>1
        <4> QED
          BY <2>3, <3>1, <4>1, CommittedRename
      <3>3. /\ Committed(d, j.to) = Doc(f, j.id, s) /\ Committed(d, j.from) = Nothing
            /\ Committed(e, j.from) = Nothing
            /\ Committed(e, j.to) = Doc(IF e.files[j.from] # NoText THEN e.files[j.from]
                                                                    ELSE e.files[j.to], j.id, s)
        BY <3>8, <3>9
      <3>4. \A q \in Paths \ {j.from, j.to} :
                /\ Committed(d, q) = Doc(d.files[q], d.ids[q], History(d.sessions[q]))
                /\ Committed(e, q) = Doc(e.files[q], d.ids[q], History(d.sessions[q]))
        <4>1. e.journals = {j} /\ d.journals = {j} /\ e.ids = d.ids /\ e.sessions = d.sessions
          BY <1>2, <2>1
        <4>2. j.from # j.to
          BY Zenon, <3>1
        <4> QED
          BY <2>3, <4>1, <4>2, CommittedRename
      <3>5. (IF e.files[j.from] # NoText THEN e.files[j.from] ELSE e.files[j.to]) \in {f, t}
        BY <1>2, <3>1, <3>2
      <3> HIDE DEF s, f
      <3>6. Committed(e, j.to) = Committed(d, j.to)
            \/ Committed(e, j.to) = [Committed(d, j.to) EXCEPT !.file = t]
        BY <3>3, <3>5, DocFacts
      <3>7. ASSUME NEW q \in Paths \ {j.from, j.to}
            PROVE  \/ Committed(e, q) = Committed(d, q)
                   \/ Committed(e, q) = [Committed(d, q) EXCEPT !.file = t]
        BY <1>2, <3>4, DocFacts
      <3> QED
        BY <1>2, <3>3, <3>6, <3>7 DEF Published
    <2>4. CASE j.kind = "delete"
      <3>1. /\ Committed(d, j.path) = Committed(e, j.path)
            /\ \A q \in Paths \ {j.path} :
                  /\ Committed(d, q) = Doc(d.files[q], d.ids[q], History(d.sessions[q]))
                  /\ Committed(e, q) = Doc(e.files[q], d.ids[q], History(d.sessions[q]))
        BY <1>2, <2>1, <2>4, CommittedDelete
      <3>2. ASSUME NEW q \in Paths \ {j.path}
            PROVE  \/ Committed(e, q) = Committed(d, q)
                   \/ Committed(e, q) = [Committed(d, q) EXCEPT !.file = t]
        BY <1>2, <3>1, DocFacts
      <3> QED
        BY <1>2, <3>1, <3>2 DEF Published
    <2> QED
      BY <2>1, <2>2, <2>3, <2>4, JournalKinds
  <1> QED
    BY <1>3, <1>4

\* Removing the pending files of a failed export changes no document.
LEMMA CleanUpKept ==
    ASSUME NEW c, NEW d, NEW m, NEW w, NEW st, VaultHolds(c, d, m, w, st), w # <<>>, CleansUp(w[1])
    PROVE  d.journals = {} /\ Kept(d, DropPending(d))
  <1>1. d \in DiskType /\ w \in Seq(Range(w))
    BY DEF VaultHolds, DiskHolds, StatusHolds
  <1>2. 1 \in 1 .. Len(w)
    BY <1>1, TailFacts
  <1>3. ~Carrying(c, d, m, w, st)
    <2> SUFFICES ASSUME NEW j \in d.journals, CarryHolds(c, d, m, w, st, 1, j, TRUE)
                 PROVE  FALSE
      BY Zenon, <1>2 DEF Carrying
    <2>1. ~Before(w, 1, <<"remove_journal", j>>)
      BY DEF Before
    <2>2. \/ w[1] \in ExportSet \/ w[1] \in RenameSet(j) \/ w[1] \in DeleteSet(j)
          \/ w[1] = <<"remove_journal", j>>
      BY Zenon, <2>1 DEF CarryHolds
    <2> QED
      BY <2>2 DEF CleansUp, ExportSet, RenameSet, DeleteSet
  <1>4. d.journals = {}
    BY Zenon, <1>3 DEF VaultHolds, WorkHolds, Plain, Preparing, Finishing, StatusHolds
  <1> DEFINE e == DropPending(d)
  <1>5. /\ e.journals = {} /\ e.next_id = d.next_id
        /\ e.files = d.files /\ e.ids = d.ids /\ e.sessions = d.sessions
    BY <1>1, <1>4 DEF DiskType, DropPending
  <1> HIDE DEF e
  <1>6. Kept(d, e)
    BY <1>4, <1>5, QuietKept
  <1> QED
    BY <1>4, <1>6 DEF e

\* No two documents have one identity.
LEMMA CommittedIds ==
    ASSUME NEW c, NEW d, DiskHolds(c, d), NEW p \in Paths, NEW q \in Paths, p # q,
           Committed(d, p).id # NoId
    PROVE  Committed(d, p).id # Committed(d, q).id
  <1>1. /\ d \in DiskType
        /\ \A x, y \in Paths : x # y /\ d.ids[x] # NoId /\ d.ids[x] = d.ids[y] =>
              \E j \in d.journals : j.kind = "rename" /\ Touches(j, x) /\ Touches(j, y)
    BY DEF DiskHolds, IdsHold
  <1>2. CASE d.journals = {}
    <2>1. Committed(d, p).id = d.ids[p] /\ Committed(d, q).id = d.ids[q]
      BY <1>2, CommittedQuiet, DocFacts
    <2> QED
      BY <1>1, <1>2, <2>1
  <1>3. CASE d.journals # {}
    <2>1. PICK j : d.journals = {j} /\ j \in Journals /\ JournalHolds(c, d, j)
      BY <1>1, <1>3 DEF DiskType, DiskHolds, JournalsHold
    <2>2. Nothing.id = NoId
      BY DocFacts DEF Nothing
    <2>3. CASE j.kind = "export"
      <3>1. Committed(d, p).id = d.ids[p] /\ Committed(d, q).id = d.ids[q]
        BY <2>1, <2>3, CommittedExport, DocFacts
      <3> QED
        BY <1>1, <2>1, <2>3, <3>1
    <2>4. CASE j.kind = "delete"
      <3>1. \A x \in Paths : Committed(d, x).id = IF x = j.path THEN NoId ELSE d.ids[x]
        BY <2>1, <2>2, <2>4, CommittedDelete, DocFacts
      <3> QED
        BY <1>1, <2>1, <2>4, <3>1
    <2>5. CASE j.kind = "rename"
      <3>1. /\ j.from # j.to /\ j.from \in Paths /\ j.to \in Paths
            /\ \A x \in Paths \ {j.from, j.to} : d.ids[x] # j.id
        BY <2>1, <2>5, JournalKinds DEF JournalHolds, HalfRenamed
      <3>2. /\ Committed(d, j.to).id = j.id /\ Committed(d, j.from).id = NoId
            /\ \A x \in Paths \ {j.from, j.to} : Committed(d, x).id = d.ids[x]
        <4>1. Committed(d, j.to).id = j.id
          <5>1. \E f, h : Committed(d, j.to) = Doc(f, j.id, h)
            BY <2>1, <2>5, <3>1, CommittedRename
          <5> QED
            BY <5>1, DocFacts
        <4>2. Committed(d, j.from).id = NoId
          BY <2>1, <2>2, <2>5, <3>1, CommittedRename
        <4>3. ASSUME NEW x \in Paths \ {j.from, j.to}
              PROVE  Committed(d, x).id = d.ids[x]
          <5>1. Committed(d, x) = Doc(d.files[x], d.ids[x], History(d.sessions[x]))
            BY <2>1, <2>5, <3>1, CommittedRename
          <5> QED
            BY <5>1, DocFacts
        <4> QED
          BY <4>1, <4>2, <4>3
      <3>3. CASE p \notin {j.from, j.to} /\ q \notin {j.from, j.to}
        <4>1. ~Touches(j, p)
          BY <2>5, <3>3 DEF Touches
        <4> QED
          BY <1>1, <2>1, <3>2, <3>3, <4>1
      <3> QED
        BY <3>1, <3>2, <3>3
    <2> QED
      BY <2>1, <2>3, <2>4, <2>5, JournalKinds
  <1> QED
    BY <1>2, <1>3

-----------------------------------------------------------------------------
(* Which steps change files.                                                *)

\* A step that publishes.
Publishes(s) == s[1] \in {"write_file", "write_journal"}

\* Nothing that carries out a journal, or ends a call, publishes.
LEMMA CarriesQuietly ==
    ASSUME NEW c, NEW d, NEW m, NEW w, NEW st, w \in Seq(Range(w)), NEW j \in Journals, NEW a,
           NEW k \in 1 .. Len(w), CarryHolds(c, d, m, w, st, k, j, a),
           \A i \in 1 .. Len(w) :
               w[i] = <<"remove_journal", j>> => CarryHolds(c, d, m, w, st, i, j, a)
    PROVE  ~Publishes(w[k])
  <1>1. CASE w[k] \in ExportSet \/ w[k] \in RenameSet(j) \/ w[k] \in DeleteSet(j)
             \/ w[k] = <<"remove_journal", j>>
    BY <1>1 DEF Publishes, ExportSet, RenameSet, DeleteSet
  <1>2. CASE Before(w, k, <<"remove_journal", j>>) /\ k = Len(w)
    <2>1. Len(w) \in Nat /\ k \in Nat
      OBVIOUS
    <2>2. PICK i \in 1 .. k - 1 : w[i] = <<"remove_journal", j>>
      BY <1>2 DEF Before
    <2>3. i \in 1 .. Len(w) /\ i # Len(w)
      BY <1>2, <2>1, <2>2
    <2>4. CarryHolds(c, d, m, w, st, i, j, a)
      BY <2>2, <2>3
    <2>5. w[i] \notin ExportSet /\ w[i] \notin RenameSet(j) /\ w[i] \notin DeleteSet(j)
      BY <2>2 DEF ExportSet, RenameSet, DeleteSet
    <2>6. /\ Len(w) = i + Len(EndOf(j, st))
          /\ \A x \in 1 .. Len(EndOf(j, st)) : w[i + x] = EndOf(j, st)[x]
      BY Zenon, <2>3, <2>4, <2>5 DEF CarryHolds
    <2>7. Len(EndOf(j, st)) = 1
      <3>1. i \in Nat /\ Len(w) # i
        BY <2>2, <2>3
      <3>2. Len(EndOf(j, st)) \in {0, 1}
        BY Zenon, EndLength
      <3> QED
        BY <2>6, <3>1, <3>2
    <2>8. w[k] = EndOf(j, st)[1]
      BY <1>2, <2>1, <2>3, <2>6, <2>7
    <2>9. j.kind \in {"export", "rename", "delete"}
      BY JournalKinds
    <2>10. EndOf(j, st)[1][1] \in {"sweep", "rekey", "forget"}
      BY <2>7, <2>9 DEF EndOf
    <2> QED
      BY <2>8, <2>10 DEF Publishes
  <1> QED
    BY Zenon, <1>1, <1>2 DEF CarryHolds
=============================================================================
