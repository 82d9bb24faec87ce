---------------------------- MODULE VaultCallProofs ----------------------------
(***************************************************************************)
(* Every call of VaultSession, and recovery, starts with steps of which     *)
(* VaultHolds is true.                                                      *)
(***************************************************************************)
EXTENDS VaultStepProofs

-----------------------------------------------------------------------------
(* The calls, as they start.                                                *)

\* A process between two calls, with nothing to recover.
Idle(c, d, m) == VaultHolds(c, d, m, <<>>, "up") /\ d.journals = {}

\* Then all of memory is backed by the disk, and there are no temporaries.
LEMMA IdleFacts ==
    ASSUME NEW c, NEW d, NEW m, Idle(c, d, m)
    PROVE  /\ d \in DiskType /\ m \in MemType /\ DiskHolds(c, d) /\ d.journals = {} /\ NoTemps(d)
           /\ \A p \in Paths : WholeSession(m.docs[p]) /\ Backed(d, m, p)
  <1>1. VaultHolds(c, d, m, <<>>, "up") /\ d.journals = {}
    BY DEF Idle
  <1>2. Len(<<>>) = 0
    OBVIOUS
  <1>3. Plain(c, d, m, <<>>, "up")
    BY <1>1, <1>2 DEF Plain
  <1> QED
    BY <1>1, <1>3, PlainFacts DEF VaultHolds

\* Documents are edited in memory, or closed.
LEMMA IdleMemory ==
    ASSUME NEW c, NEW d, NEW m, Idle(c, d, m), NEW n \in MemType, n.ids = m.ids, NEW t,
           \A p \in Paths : \/ n.docs[p] \in {m.docs[p], NoSession}
                            \/ m.docs[p].exists /\ n.docs[p] = Take(m.docs[p], t)
    PROVE  Idle(c, d, n)
  <1>1. /\ m \in MemType /\ DiskHolds(c, d) /\ d.journals = {} /\ NoTemps(d)
        /\ \A p \in Paths : WholeSession(m.docs[p]) /\ Backed(d, m, p)
    BY IdleFacts
  <1>2. ASSUME NEW p \in Paths
        PROVE  WholeSession(n.docs[p]) /\ Backed(d, n, p)
    <2>1. CASE n.docs[p] = m.docs[p]
      BY <1>1, <2>1 DEF Backed
    <2>2. CASE n.docs[p] = NoSession
      BY <1>1, <2>2 DEF Backed, NoSession, WholeSession
    <2>3. CASE m.docs[p].exists /\ n.docs[p] = Take(m.docs[p], t)
      <3>1. /\ n.docs[p].exists /\ n.docs[p].text = t /\ n.docs[p].seen = m.docs[p].seen \cup {t}
        BY <2>3 DEF Take
      <3> QED
        BY <1>1, <2>3, <3>1 DEF Backed, WholeSession
    <2> QED
      BY <2>1, <2>2, <2>3
  <1> QED
    BY <1>1, <1>2, Rests DEF Idle

\* A call that writes no journal.
LEMMA StartPlain ==
    ASSUME NEW c, NEW d, NEW m, Idle(c, d, m), NEW w \in Seq(PlainSteps),
           \A k \in 1 .. Len(w) : PlainHolds(c, d, m, w, k)
    PROVE  VaultHolds(c, d, m, w, "up")
  <1>1. w \in Seq(Range(w))
    BY OwnRange
  <1>2. /\ m \in MemType /\ DiskHolds(c, d) /\ d.journals = {} /\ NoTemps(d)
        /\ \A p \in Paths : WholeSession(m.docs[p]) /\ Backed(d, m, p)
    BY IdleFacts
  <1>3. Plain(c, d, m, w, "up")
    BY <1>2 DEF Plain
  <1> QED
    BY <1>1, <1>2, <1>3, PlainState

\* open_document, session.
LEMMA StartOpen ==
    ASSUME NEW c, NEW d, NEW m, Idle(c, d, m), NEW p \in Paths,
           d.files[p] # NoText \/ "absent" \in c
    PROVE  /\ VaultHolds(c, d, m, <<<<"identify", p>>, <<"load", p>>>>, "up")
           /\ VaultHolds(c, d, m, <<<<"identify", p>>, <<"load", p>>, <<"ingest_if_needed", p>>>>, "up")
  <1>1. {<<"identify", p>>, <<"load", p>>, <<"ingest_if_needed", p>>} \subseteq PlainSteps
    BY DEF PlainSteps
  <1>2. ASSUME NEW w \in Seq(PlainSteps), Len(w) \in {2, 3}, w[1] = <<"identify", p>>,
               w[2] = <<"load", p>>, Len(w) = 3 => w[3] = <<"ingest_if_needed", p>>
        PROVE  VaultHolds(c, d, m, w, "up")
    <2>1. PlainHolds(c, d, m, w, 1)
      BY <1>1, <1>2 DEF PlainHolds
    <2>2. Before(w, 2, <<"identify", p>>) /\ Before(w, 3, <<"load", p>>)
      BY <1>2 DEF Before
    <2>3. PlainHolds(c, d, m, w, 2)
      BY <1>1, <1>2, <2>2 DEF PlainHolds
    <2>4. ASSUME Len(w) = 3
          PROVE  PlainHolds(c, d, m, w, 3)
      <3>1. w[3] = <<"ingest_if_needed", p>>
        BY <1>2, <2>4
      <3> QED
        BY <1>1, <2>2, <3>1 DEF PlainHolds
    <2>5. \A k \in 1 .. Len(w) : PlainHolds(c, d, m, w, k)
      <3>1. CASE Len(w) = 2
        BY <2>1, <2>3, <3>1
      <3>2. CASE Len(w) = 3
        BY <2>1, <2>3, <2>4, <3>2
      <3> QED
        BY <1>2, <3>1, <3>2
    <2> QED
      BY <2>5, StartPlain
  <1> DEFINE v == <<<<"identify", p>>, <<"load", p>>>>
             w == <<<<"identify", p>>, <<"load", p>>, <<"ingest_if_needed", p>>>>
  <1>3. /\ v \in Seq(PlainSteps) /\ Len(v) = 2 /\ v[1] = <<"identify", p>> /\ v[2] = <<"load", p>>
    BY <1>1
  <1>4. /\ w \in Seq(PlainSteps) /\ Len(w) = 3 /\ w[1] = <<"identify", p>> /\ w[2] = <<"load", p>>
        /\ w[3] = <<"ingest_if_needed", p>>
    BY <1>1
  <1> HIDE DEF v, w
  <1>5. VaultHolds(c, d, m, v, "up")
    BY <1>2, <1>3
  <1>6. VaultHolds(c, d, m, w, "up")
    BY <1>2, <1>4
  <1> QED
    BY <1>5, <1>6 DEF v, w

\* create_markdown: the file is there when the document is opened.
LEMMA StartCreate ==
    ASSUME NEW c, NEW d, NEW m, Idle(c, d, m), NEW p \in Paths, NEW t \in Texts
    PROVE  VaultHolds(c, d, m, <<<<"write_file", p, t>>, <<"identify", p>>, <<"load", p>>,
                                 <<"ingest_if_needed", p>>>>, "up")
  <1> DEFINE w == <<<<"write_file", p, t>>, <<"identify", p>>, <<"load", p>>,
                    <<"ingest_if_needed", p>>>>
  <1>1. {<<"write_file", p, t>>, <<"identify", p>>, <<"load", p>>, <<"ingest_if_needed", p>>}
          \subseteq PlainSteps
    BY DEF PlainSteps
  <1>2. /\ w \in Seq(PlainSteps) /\ Len(w) = 4 /\ w[1] = <<"write_file", p, t>>
        /\ w[2] = <<"identify", p>> /\ w[3] = <<"load", p>> /\ w[4] = <<"ingest_if_needed", p>>
    BY <1>1
  <1> HIDE DEF w
  <1>3. PlainHolds(c, d, m, w, 1)
    BY <1>1, <1>2 DEF PlainHolds
  <1>4. /\ Writes(w, 2, "write_file", p)
        /\ Before(w, 3, <<"identify", p>>) /\ Before(w, 4, <<"load", p>>)
    BY <1>2 DEF Before, Writes
  <1>5. PlainHolds(c, d, m, w, 2)
    BY <1>1, <1>2, <1>4 DEF PlainHolds
  <1>6. PlainHolds(c, d, m, w, 3)
    BY <1>1, <1>2, <1>4 DEF PlainHolds
  <1>7. PlainHolds(c, d, m, w, 4)
    BY <1>1, <1>2, <1>4 DEF PlainHolds
  <1>8. \A k \in 1 .. Len(w) : PlainHolds(c, d, m, w, k)
    BY <1>2, <1>3, <1>5, <1>6, <1>7
  <1>9. VaultHolds(c, d, m, w, "up")
    BY Zenon, <1>2, <1>8, StartPlain
  <1> QED
    BY <1>9 DEF w

\* One list of steps after another.
Steps(w) == w \in Seq(Range(w))
Joins(u, v, w) ==
    /\ Steps(w) /\ Len(u) \in Nat /\ Len(v) \in Nat /\ Len(w) = Len(u) + Len(v)
    /\ \A i \in 1 .. Len(u) : w[i] = u[i]
    /\ \A i \in 1 .. Len(v) : w[Len(u) + i] = v[i]

\* The members of a list that is two lists joined.
LEMMA Joined ==
    ASSUME NEW u, Steps(u), NEW v, Steps(v)
    PROVE  Joins(u, v, u \o v)
  <1> DEFINE w == u \o v
  <1>1. /\ u \in Seq(Range(u)) /\ v \in Seq(Range(v))
    BY DEF Steps
  <1>2. w \in Seq(Range(u) \cup Range(v))
    BY <1>1
  <1>3. w \in Seq(Range(w))
    BY Zenon, <1>2, OwnRange
  <1> QED
    BY <1>1, <1>3 DEF Joins, Steps

\* One step for each member of a sequence.
LEMMA Listed ==
    ASSUME NEW S, NEW n \in Nat, NEW w \in [1 .. n -> S]
    PROVE  w \in Seq(S) /\ Len(w) = n
  OBVIOUS

\* ingest, with_local_edit, apply_edit_batch, save_state: one step on an open document.
LEMMA StartOne ==
    ASSUME NEW c, NEW d, NEW m, Idle(c, d, m), NEW p \in Paths, m.docs[p].exists,
           NEW s \in {<<"ingest", p>>, <<"save", p>>} \cup {<<"save_edited", p, t>> : t \in Texts}
    PROVE  VaultHolds(c, d, m, <<s>>, "up")
  <1> DEFINE w == <<s>>
  <1>1. s \in PlainSteps
    BY DEF PlainSteps
  <1>2. w \in Seq(PlainSteps) /\ Len(w) = 1 /\ w[1] = s
    BY <1>1
  <1> HIDE DEF w
  <1>3. PlainHolds(c, d, m, w, 1)
    BY <1>1, <1>2 DEF PlainHolds
  <1>4. \A k \in 1 .. Len(w) : PlainHolds(c, d, m, w, k)
    BY <1>2, <1>3
  <1>5. VaultHolds(c, d, m, w, "up")
    BY Zenon, <1>2, <1>4, StartPlain
  <1> QED
    BY <1>5 DEF w

\* apply_edit_batches: the documents are saved one after the other.
LEMMA StartSaves ==
    ASSUME NEW c, NEW d, NEW m, Idle(c, d, m), NEW all \in Seq(Paths)
    PROVE  VaultHolds(c, d, m, ForEach(all, LAMBDA p : <<"save", p>>), "up")
  <1> DEFINE w == ForEach(all, LAMBDA p : <<"save", p>>)
  <1>1. w = [i \in 1 .. Len(all) |-> <<"save", all[i]>>]
    BY DEF ForEach
  <1>2. \A i \in 1 .. Len(all) : <<"save", all[i]>> \in PlainSteps
    BY DEF PlainSteps
  <1> HIDE DEF w
  <1>6. Len(all) \in Nat /\ w \in [1 .. Len(all) -> PlainSteps]
    BY <1>1, <1>2
  <1>3. w \in Seq(PlainSteps) /\ Len(w) = Len(all) /\ \A i \in 1 .. Len(w) : w[i] = <<"save", all[i]>>
    BY <1>1, <1>6, Listed
  <1>4. \A k \in 1 .. Len(w) : PlainHolds(c, d, m, w, k)
    BY <1>2, <1>3 DEF PlainHolds
  <1>5. VaultHolds(c, d, m, w, "up")
    BY <1>3, <1>4, StartPlain
  <1> QED
    BY Zenon, <1>5 DEF w

\* export_markdown.
LEMMA StartExport ==
    ASSUME NEW c, NEW d, NEW m, Idle(c, d, m), NEW p \in Paths, NEW t \in Texts,
           m.docs[p].exists, "export" \in c, NEW u \in {<<>>, <<<<"write_file", p, t>>>>}
    PROVE  VaultHolds(c, d, m, u \o <<<<"flush", p, t>>, <<"save", p>>>>, "up")
  <1> DEFINE v == <<<<"flush", p, t>>, <<"save", p>>>>
             w == u \o v
  <1>1. {<<"write_file", p, t>>, <<"flush", p, t>>, <<"save", p>>} \subseteq PlainSteps
    BY DEF PlainSteps
  <1>2. /\ u \in Seq(PlainSteps) /\ Len(u) \in Nat
        /\ \A k \in 1 .. Len(u) : u[k] = <<"write_file", p, t>>
    <2>1. CASE u = <<>>
      BY <2>1
    <2>2. CASE u = <<<<"write_file", p, t>>>>
      BY <1>1, <2>2
    <2> QED
      BY <2>1, <2>2
  <1>3. v \in Seq(PlainSteps) /\ Len(v) = 2 /\ v[1] = <<"flush", p, t>> /\ v[2] = <<"save", p>>
    BY <1>1
  <1> HIDE DEF v
  <1>4. /\ w \in Seq(PlainSteps) /\ Len(w) = Len(u) + Len(v)
        /\ \A k \in 1 .. Len(u) : w[k] = u[k]
        /\ \A k \in 1 .. Len(v) : w[Len(u) + k] = v[k]
    <2>1. ASSUME NEW x \in Seq(PlainSteps), NEW y \in Seq(PlainSteps)
          PROVE  /\ x \o y \in Seq(PlainSteps) /\ Len(x \o y) = Len(x) + Len(y)
                 /\ \A k \in 1 .. Len(x) : (x \o y)[k] = x[k]
                 /\ \A k \in 1 .. Len(y) : (x \o y)[Len(x) + k] = y[k]
      OBVIOUS
    <2> QED
      BY Zenon, <1>2, <1>3, <2>1
  <1> HIDE DEF w
  <1>5. \A k \in 1 .. Len(w) : w[k] \in {<<"write_file", p, t>>, <<"flush", p, t>>, <<"save", p>>}
    <2> TAKE k \in 1 .. Len(w)
    <2>1. k \in 1 .. Len(u) => w[k] = <<"write_file", p, t>>
      BY <1>2, <1>4
    <2>2. w[Len(u) + 1] = <<"flush", p, t>> /\ w[Len(u) + 2] = <<"save", p>>
      BY <1>3, <1>4
    <2>3. k \in 1 .. Len(u) \/ k = Len(u) + 1 \/ k = Len(u) + 2
      BY <1>2, <1>3, <1>4
    <2> QED
      BY Zenon, <2>1, <2>2, <2>3
  <1>6. FlushBacked(c, d, m, w, 0, p, t) /\ \A k : FlushBacked(c, d, m, w, k, p, t)
    BY DEF FlushBacked
  <1>7. \A k \in 1 .. Len(w) : PlainHolds(c, d, m, w, k)
    BY <1>1, <1>5, <1>6 DEF PlainHolds
  <1>8. VaultHolds(c, d, m, w, "up")
    BY <1>4, <1>7, StartPlain
  <1> QED
    BY <1>8 DEF w, v

\* A call that is about to write its journal, as the n-th step.
Readied(c, d, m, w, n, j) ==
    /\ n \in 1 .. Len(w) /\ w[n] = <<"write_journal", j>> /\ JournalReady(c, d, m, w, n, j)
    /\ \A k \in 1 .. n - 1 : PrepareHolds(d, w, k, n, j)
    /\ \A k \in n + 1 .. Len(w) : CarryHolds(c, d, m, w, "up", k, j, FALSE)

\* A call that will write a journal starts in the invariant.
LEMMA StartPreparing ==
    ASSUME NEW c, NEW d, NEW m, Idle(c, d, m), NEW w, Steps(w), NEW n, NEW j,
           Readied(c, d, m, w, n, j)
    PROVE  VaultHolds(c, d, m, w, "up")
  <1>1. /\ m \in MemType /\ DiskHolds(c, d) /\ d.journals = {} /\ NoTemps(d)
        /\ \A q \in Paths : WholeSession(m.docs[q]) /\ Backed(d, m, q)
    BY IdleFacts
  <1>2. w[n][1] = "write_journal" /\ w[n][2] = j
    BY DEF Readied
  <1>3. Preparing(c, d, m, w, "up")
    BY Zenon, <1>1, <1>2 DEF Preparing, Readied
  <1> QED
    BY <1>1, <1>3 DEF VaultHolds, MemHolds, WorkHolds, TempsHold, StatusHolds, Steps

\* After the journal of a rename or a deletion one step is left.
LEMMA OneEnd ==
    ASSUME NEW j \in Journals, j.kind # "export", NEW st
    PROVE  Len(EndOf(j, st)) = 1
  <1>1. j.kind \in {"rename", "delete"}
    BY JournalKinds
  <1>2. CASE st # "up"
    BY <1>2 DEF EndOf
  <1>3. CASE st = "up"
    BY <1>1, <1>3 DEF EndOf
  <1> QED
    BY <1>2, <1>3

\* The steps of complete_delete, of the call or of recovery, follow the n-th of w.
DeletesAfter(w, n, j, st) ==
    /\ w[n + 1] = <<"drop_file", j.path>> /\ w[n + 2] = <<"drop_identity", j.path>>
    /\ w[n + 3] = <<"drop_session", j.path>> /\ w[n + 4] = <<"drop_flushed", j.path>>
    /\ w[n + 5] = <<"remove_journal", j>> /\ w[n + 6] = EndOf(j, st)[1] /\ Len(w) = n + 6

\* The steps of a deletion, in the order of complete_delete.
LEMMA DeleteCarries ==
    ASSUME NEW c, NEW d, NEW m, NEW w, NEW st, NEW n \in Nat, NEW j \in Journals,
           j.kind = "delete", DeletesAfter(w, n, j, st), NEW live \in BOOLEAN
    PROVE  \A k \in n + 1 .. Len(w) : CarryHolds(c, d, m, w, st, k, j, live)
  <1>1. ASSUME NEW k \in {n + 1, n + 2, n + 3, n + 4}
        PROVE  CarryHolds(c, d, m, w, st, k, j, live)
    <2>1. w[k] \in DeleteSet(j)
      BY Zenon DEF DeleteSet, DeletesAfter
    <2>2. w[k][1] \notin {"displace", "install", "drop_backup", "save", "flush"}
      BY <2>1 DEF DeleteSet
    <2> QED
      BY <2>1, <2>2 DEF CarryHolds
  <1>2. CarryHolds(c, d, m, w, st, n + 5, j, live)
    <2>1. Len(EndOf(j, st)) = 1
      BY OneEnd
    <2>2. /\ Before(w, n + 5, <<"drop_file", j.path>>) /\ Before(w, n + 5, <<"drop_identity", j.path>>)
          /\ Before(w, n + 5, <<"drop_session", j.path>>) /\ Before(w, n + 5, <<"drop_flushed", j.path>>)
      <3>1. \A i \in {1, 2, 3, 4} : n + i \in 1 .. (n + 5) - 1
        OBVIOUS
      <3> QED
        BY <3>1 DEF Before, DeletesAfter
    <2>3. Removable(d, w, n + 5, j, live)
      BY <2>2 DEF Removable
    <2>4. Len(w) = (n + 5) + 1 /\ w[(n + 5) + 1] = EndOf(j, st)[1] /\ w[n + 5] = <<"remove_journal", j>>
      BY DEF DeletesAfter
    <2> QED
      BY <2>1, <2>3, <2>4 DEF CarryHolds
  <1>3. CarryHolds(c, d, m, w, st, n + 6, j, live)
    <2>1. Before(w, n + 6, <<"remove_journal", j>>) /\ n + 6 = Len(w)
      BY DEF Before, DeletesAfter
    <2> QED
      BY <2>1 DEF CarryHolds
  <1>4. n + 1 .. Len(w) = {n + 1, n + 2, n + 3, n + 4} \cup {n + 5, n + 6}
    BY DEF DeletesAfter
  <1> QED
    BY <1>1, <1>2, <1>3, <1>4

\* delete_markdown.
LEMMA StartDelete ==
    ASSUME NEW c, NEW d, NEW m, Idle(c, d, m), NEW p \in Paths, "delete" \in c
    PROVE  VaultHolds(c, d, m, DeleteSteps(p), "up")
  <1> DEFINE j == DeleteJournal(p)
             a == <<<<"write_journal", j>>>>
             b == CompleteDelete(p)
             e == <<<<"remove_journal", j>>, <<"forget", p>>>>
             w == (a \o b) \o e
  <1>1. j \in Journals /\ j.kind = "delete" /\ j.path = p
    BY DEF DeleteJournal, Journals
  <1>2. DeleteSteps(p) = w
    BY DEF DeleteSteps
  <1> HIDE DEF j
  <1>3. Steps(a) /\ Len(a) = 1 /\ a[1] = <<"write_journal", j>>
    <2>1. a \in Seq({<<"write_journal", j>>})
      OBVIOUS
    <2> QED
      BY Zenon, <2>1, OwnRange DEF Steps
  <1>4. /\ Steps(b) /\ Len(b) = 4 /\ b[1] = <<"drop_file", p>> /\ b[2] = <<"drop_identity", p>>
        /\ b[3] = <<"drop_session", p>> /\ b[4] = <<"drop_flushed", p>>
    <2>1. b \in Seq({<<"drop_file", p>>, <<"drop_identity", p>>, <<"drop_session", p>>, <<"drop_flushed", p>>})
      BY DEF CompleteDelete
    <2>2. b \in Seq(Range(b))
      BY <2>1, OwnRange
    <2> QED
      BY <2>2 DEF CompleteDelete, Steps
  <1>5. Steps(e) /\ Len(e) = 2 /\ e[1] = <<"remove_journal", j>> /\ e[2] = <<"forget", p>>
    <2>1. e \in Seq({<<"remove_journal", j>>, <<"forget", p>>})
      OBVIOUS
    <2> QED
      BY Zenon, <2>1, OwnRange DEF Steps
  <1> HIDE DEF a, b, e
  <1> DEFINE v == a \o b
  <1>6. Joins(a, b, v)
    BY <1>3, <1>4, Joined
  <1> HIDE DEF v
  <1>7. /\ Steps(v) /\ Len(v) = 5 /\ v[1] = a[1]
        /\ v[2] = b[1] /\ v[3] = b[2] /\ v[4] = b[3] /\ v[5] = b[4]
    <2>1. /\ Steps(v) /\ Len(v) = 5 /\ v[1] = a[1] /\ \A i \in {1, 2, 3, 4} : v[1 + i] = b[i]
      BY <1>3, <1>4, <1>6 DEF Joins
    <2> QED
      BY <2>1
  <1>8. Joins(v, e, w)
    BY <1>5, <1>7, Joined DEF v
  <1> HIDE DEF w
  <1>9. /\ Steps(w) /\ Len(w) = 7
        /\ w[1] = v[1] /\ w[2] = v[2] /\ w[3] = v[3] /\ w[4] = v[4] /\ w[5] = v[5]
        /\ w[6] = e[1] /\ w[7] = e[2]
    <2>1. /\ Steps(w) /\ Len(w) = 7 /\ \A i \in {1, 2, 3, 4, 5} : w[i] = v[i]
          /\ \A i \in {1, 2} : w[5 + i] = e[i]
      BY <1>5, <1>7, <1>8 DEF Joins
    <2> QED
      BY <2>1
  <1>10. EndOf(j, "up")[1] = <<"forget", p>>
    BY <1>1 DEF EndOf
  <1>11. DeletesAfter(w, 1, j, "up") /\ w[1] = <<"write_journal", j>>
    <2>1. /\ w[1] = <<"write_journal", j>> /\ w[2] = <<"drop_file", p>> /\ w[3] = <<"drop_identity", p>>
          /\ w[4] = <<"drop_session", p>> /\ w[5] = <<"drop_flushed", p>>
          /\ w[6] = <<"remove_journal", j>> /\ w[7] = EndOf(j, "up")[1]
      BY <1>3, <1>4, <1>5, <1>7, <1>9, <1>10
    <2>2. /\ 1 + 1 = 2 /\ 1 + 2 = 3 /\ 1 + 3 = 4 /\ 1 + 4 = 5 /\ 1 + 5 = 6 /\ 1 + 6 = 7
      OBVIOUS
    <2> QED
      BY <1>1, <1>9, <2>1, <2>2, Zenon DEF DeletesAfter
  <1>12. \A k \in 1 + 1 .. Len(w) : CarryHolds(c, d, m, w, "up", k, j, FALSE)
    BY Zenon, <1>1, <1>11, DeleteCarries
  <1>13. JournalReady(c, d, m, w, 1, j)
    BY <1>1 DEF JournalReady
  <1>14. Readied(c, d, m, w, 1, j)
    <2>1. 1 \in 1 .. Len(w) /\ 1 .. 1 - 1 = {}
      BY <1>9
    <2> QED
      BY Zenon, <2>1, <1>11, <1>12, <1>13 DEF Readied
  <1> QED
    BY <1>2, <1>9, <1>14, StartPreparing

\* The steps of complete_rename follow the n-th of w.
RenamesAfter(w, n, j, st) ==
    /\ w[n + 1] = <<"refuse_two_files", j.from, j.to>> /\ w[n + 2] = <<"persist_identity", j.to, j.id>>
    /\ w[n + 3] = <<"move_session", j.from, j.to>> /\ w[n + 4] = <<"move_flushed", j.from, j.to>>
    /\ w[n + 5] = <<"move_file", j.from, j.to>> /\ w[n + 6] = <<"drop_identity", j.from>>
    /\ w[n + 7] = <<"remove_journal", j>> /\ w[n + 8] = EndOf(j, st)[1] /\ Len(w) = n + 8

\* The steps of a rename, in the order of complete_rename.
LEMMA RenameCarries ==
    ASSUME NEW c, NEW d, NEW m, NEW w, NEW st, NEW n \in Nat, NEW j \in Journals,
           j.kind = "rename", RenamesAfter(w, n, j, st), NEW live \in BOOLEAN,
           st = "up" => Rekeyable(d, m, j)
    PROVE  \A k \in n + 1 .. Len(w) : CarryHolds(c, d, m, w, st, k, j, live)
  <1>1. ASSUME NEW k \in {n + 1, n + 2, n + 3, n + 4, n + 5, n + 6}
        PROVE  CarryHolds(c, d, m, w, st, k, j, live)
    <2>1. w[k] \in RenameSet(j)
      BY Zenon DEF RenameSet, RenamesAfter
    <2>2. w[k][1] \notin {"displace", "install", "drop_backup", "save", "flush"}
      BY <2>1 DEF RenameSet
    <2> QED
      BY <2>1, <2>2 DEF CarryHolds
  <1>2. CarryHolds(c, d, m, w, st, n + 7, j, live)
    <2>1. Len(EndOf(j, st)) = 1
      BY OneEnd
    <2>2. /\ Before(w, n + 7, <<"persist_identity", j.to, j.id>>)
          /\ Before(w, n + 7, <<"move_session", j.from, j.to>>)
          /\ Before(w, n + 7, <<"move_flushed", j.from, j.to>>)
          /\ Before(w, n + 7, <<"move_file", j.from, j.to>>)
          /\ Before(w, n + 7, <<"drop_identity", j.from>>)
      <3>1. \A i \in {2, 3, 4, 5, 6} : n + i \in 1 .. (n + 7) - 1
        OBVIOUS
      <3> QED
        BY <3>1 DEF Before, RenamesAfter
    <2>3. Removable(d, w, n + 7, j, live)
      BY <2>2 DEF Removable
    <2>4. Len(w) = (n + 7) + 1 /\ w[(n + 7) + 1] = EndOf(j, st)[1] /\ w[n + 7] = <<"remove_journal", j>>
      BY DEF RenamesAfter
    <2> QED
      BY <2>1, <2>3, <2>4 DEF CarryHolds
  <1>3. CarryHolds(c, d, m, w, st, n + 8, j, live)
    <2>1. Before(w, n + 8, <<"remove_journal", j>>) /\ n + 8 = Len(w)
      BY DEF Before, RenamesAfter
    <2> QED
      BY <2>1 DEF CarryHolds
  <1>4. n + 1 .. Len(w) = {n + 1, n + 2, n + 3, n + 4, n + 5, n + 6} \cup {n + 7, n + 8}
    BY DEF RenamesAfter
  <1> QED
    BY <1>1, <1>2, <1>3, <1>4

\* The steps of complete_rename.
LEMMA RenameList ==
    ASSUME NEW from, NEW to, NEW id, NEW b, b = CompleteRename(from, to, id)
    PROVE  /\ Steps(b) /\ Len(b) = 6
           /\ b[1] = <<"refuse_two_files", from, to>> /\ b[2] = <<"persist_identity", to, id>>
           /\ b[3] = <<"move_session", from, to>> /\ b[4] = <<"move_flushed", from, to>>
           /\ b[5] = <<"move_file", from, to>> /\ b[6] = <<"drop_identity", from>>
  <1>1. b \in Seq({<<"refuse_two_files", from, to>>, <<"persist_identity", to, id>>,
                   <<"move_session", from, to>>, <<"move_flushed", from, to>>,
                   <<"move_file", from, to>>, <<"drop_identity", from>>})
    BY DEF CompleteRename
  <1>2. Steps(b)
    BY <1>1, OwnRange DEF Steps
  <1> QED
    BY <1>2 DEF CompleteRename

\* rename_markdown.
LEMMA StartRename ==
    ASSUME NEW c, NEW d, NEW m, Idle(c, d, m), Coherent(c), "rename" \in c,
           NEW from \in Paths, NEW to \in Paths, from # to, m.docs[from].exists, d.files[to] = NoText
    PROVE  VaultHolds(c, d, m, RenameSteps(from, to, m.ids[from]), "up")
  <1> DEFINE id == m.ids[from]
             j == RenameJournal(from, to, id)
             a == <<<<"save", from>>, <<"write_journal", j>>>>
             b == CompleteRename(from, to, id)
             e == <<<<"remove_journal", j>>, <<"rekey", from, to, id>>>>
             w == (a \o b) \o e
  <1>1. RenameSteps(from, to, m.ids[from]) = w
    BY DEF RenameSteps
  <1>2. /\ d \in DiskType /\ m \in MemType /\ DiskHolds(c, d) /\ d.journals = {}
        /\ \A p \in Paths : Backed(d, m, p)
    BY IdleFacts
  <1>3. id \in Nat \ {NoId} /\ d.sessions[from].seen \subseteq m.docs[from].seen
    BY <1>2 DEF Backed, MemType
  <1>4. d.sessions[to].seen = {}
    <2>1. Vacant(d, to)
      BY <1>2 DEF DiskHolds, FilesHold, Coherent
    <2>2. WholeSession(d.sessions[to])
      BY <1>2 DEF DiskHolds, SessionsHold
    <2> QED
      BY <2>1, <2>2 DEF Vacant, WholeSession, NoSession
  <1> HIDE DEF id
  <1>5. j \in Journals /\ j.kind = "rename" /\ j.from = from /\ j.to = to /\ j.id = id
    BY <1>3 DEF RenameJournal, Journals
  <1> HIDE DEF j
  <1>6. Rekeyable(d, m, j)
    BY <1>3, <1>4, <1>5 DEF Rekeyable, id
  <1>7. Steps(a) /\ Len(a) = 2 /\ a[1] = <<"save", from>> /\ a[2] = <<"write_journal", j>>
    <2>1. a \in Seq({<<"save", from>>, <<"write_journal", j>>})
      OBVIOUS
    <2> QED
      BY Zenon, <2>1, OwnRange DEF Steps
  <1>8. /\ Steps(b) /\ Len(b) = 6
        /\ b[1] = <<"refuse_two_files", from, to>> /\ b[2] = <<"persist_identity", to, id>>
        /\ b[3] = <<"move_session", from, to>> /\ b[4] = <<"move_flushed", from, to>>
        /\ b[5] = <<"move_file", from, to>> /\ b[6] = <<"drop_identity", from>>
    BY RenameList
  <1>9. Steps(e) /\ Len(e) = 2 /\ e[1] = <<"remove_journal", j>> /\ e[2] = <<"rekey", from, to, id>>
    <2>1. e \in Seq({<<"remove_journal", j>>, <<"rekey", from, to, id>>})
      OBVIOUS
    <2> QED
      BY Zenon, <2>1, OwnRange DEF Steps
  <1> HIDE DEF a, b, e
  <1> DEFINE v == a \o b
  <1>10. Joins(a, b, v)
    BY <1>7, <1>8, Joined
  <1> HIDE DEF v
  <1>11. /\ Steps(v) /\ Len(v) = 8 /\ v[1] = a[1] /\ v[2] = a[2]
         /\ \A i \in {1, 2, 3, 4, 5, 6} : v[2 + i] = b[i]
    BY <1>7, <1>8, <1>10 DEF Joins
  <1>12. Joins(v, e, w)
    BY <1>9, <1>11, Joined DEF v
  <1> HIDE DEF w
  <1>13. /\ Steps(w) /\ Len(w) = 10 /\ \A i \in {1, 2, 3, 4, 5, 6, 7, 8} : w[i] = v[i]
         /\ \A i \in {1, 2} : w[8 + i] = e[i]
    BY <1>9, <1>11, <1>12 DEF Joins
  <1>14. w[1] = <<"save", from>> /\ w[2] = <<"write_journal", j>>
    BY <1>7, <1>11, <1>13
  <1>15. RenamesAfter(w, 2, j, "up")
    <2>1. \A i \in {1, 2, 3, 4, 5, 6} : w[2 + i] = b[i]
      BY <1>11, <1>13
    <2>2. w[2 + 7] = e[1] /\ w[2 + 8] = e[2] /\ Len(w) = 2 + 8
      BY <1>13
    <2>3. EndOf(j, "up")[1] = <<"rekey", from, to, id>>
      BY <1>5 DEF EndOf
    <2> QED
      BY <1>5, <1>8, <1>9, <2>1, <2>2, <2>3 DEF RenamesAfter
  <1>16. \A k \in 2 + 1 .. Len(w) : CarryHolds(c, d, m, w, "up", k, j, FALSE)
    BY Zenon, <1>5, <1>6, <1>15, RenameCarries
  <1>17. JournalReady(c, d, m, w, 2, j)
    BY <1>5 DEF JournalReady, id
  <1>18. \A k \in 1 .. 2 - 1 : PrepareHolds(d, w, k, 2, j)
    <2>1. <<"save", from>> \in {"save"} \X Paths
      OBVIOUS
    <2> QED
      BY <1>14, <2>1 DEF PrepareHolds
  <1>19. Readied(c, d, m, w, 2, j)
    <2>1. 2 \in 1 .. Len(w)
      BY <1>13
    <2> QED
      BY Zenon, <2>1, <1>14, <1>16, <1>17, <1>18 DEF Readied
  <1> QED
    BY <1>1, <1>13, <1>19, StartPreparing

\* Where the steps of a list are in a longer one.
Placed(w, n, u) == n + Len(u) <= Len(w) /\ \A i \in 1 .. Len(u) : w[n + i] = u[i]

\* A list placed in the first of two joined lists.
LEMMA PlacedFirst ==
    ASSUME NEW u, NEW v, NEW w, Joins(u, v, w), NEW n \in Nat, NEW x, Len(x) \in Nat, Placed(u, n, x)
    PROVE  Placed(w, n, x)
  <1>1. \A i \in 1 .. Len(x) : n + i \in 1 .. Len(u)
    BY DEF Joins, Placed
  <1> QED
    BY <1>1 DEF Joins, Placed

\* The second of two joined lists is placed after the first.
LEMMA PlacedLast ==
    ASSUME NEW u, NEW v, NEW w, Joins(u, v, w)
    PROVE  Placed(w, Len(u), v)
  <1>1. Len(w) = Len(u) + Len(v) /\ Len(u) \in Nat /\ Len(v) \in Nat
    BY DEF Joins
  <1>2. \A i \in 1 .. Len(v) : w[Len(u) + i] = v[i]
    BY DEF Joins
  <1> QED
    BY <1>1, <1>2 DEF Placed

\* Two steps for each member of a sequence.
LEMMA Pairs ==
    ASSUME NEW n \in Nat, NEW l \in 1 .. n
    PROVE  /\ 2 * l - 1 \in 1 .. 2 * n /\ 2 * l \in 1 .. 2 * n
           /\ (2 * l - 1) % 2 = 1 /\ ((2 * l - 1) + 1) \div 2 = l
           /\ (2 * l) % 2 = 0 /\ (2 * l) \div 2 = l
  OBVIOUS

\* Every position of a list of pairs is the first or the second of a pair.
LEMMA Halves ==
    ASSUME NEW n \in Nat, NEW i \in 1 .. 2 * n
    PROVE  \E l \in 1 .. n : i = 2 * l - 1 \/ i = 2 * l
  <1>1. i = 2 * (i \div 2) \/ i = 2 * (i \div 2) + 1
    OBVIOUS
  <1>2. i \div 2 \in 0 .. n
    OBVIOUS
  <1>3. CASE i = 2 * (i \div 2)
    <2>1. i \div 2 \in 1 .. n
      BY <1>2, <1>3
    <2> QED
      BY <1>3, <2>1
  <1>4. CASE i = 2 * (i \div 2) + 1
    <2>1. (i \div 2) + 1 \in 1 .. n /\ i = 2 * ((i \div 2) + 1) - 1
      BY <1>2, <1>4
    <2> QED
      BY <2>1
  <1> QED
    BY <1>1, <1>3, <1>4

\* install_export_entries.
LEMMA InstallList ==
    ASSUME NEW s \in Seq(Paths), NEW u, u = InstallEntries(s)
    PROVE  /\ Steps(u) /\ Len(s) \in Nat /\ Len(u) = 2 * Len(s)
           /\ \A l \in 1 .. Len(s) : /\ u[2 * l - 1] = <<"displace", s[l]>>
                                     /\ u[2 * l] = <<"install", s[l]>>
  <1> DEFINE S == {u[i] : i \in 1 .. 2 * Len(s)}
  <1>1. u = [i \in 1 .. 2 * Len(s) |-> IF i % 2 = 1 THEN <<"displace", s[(i + 1) \div 2]>>
                                                   ELSE <<"install", s[i \div 2]>>]
    BY DEF InstallEntries, ForEachTwo
  <1>2. Len(s) \in Nat /\ 2 * Len(s) \in Nat
    OBVIOUS
  <1>3. u \in [1 .. 2 * Len(s) -> S]
    BY Zenon, <1>1
  <1>4. u \in Seq(S) /\ Len(u) = 2 * Len(s)
    BY <1>2, <1>3, Listed
  <1>5. Steps(u)
    BY <1>4, OwnRange DEF Steps
  <1>6. ASSUME NEW l \in 1 .. Len(s)
        PROVE  u[2 * l - 1] = <<"displace", s[l]>> /\ u[2 * l] = <<"install", s[l]>>
    BY <1>1, <1>2, Pairs
  <1> QED
    BY <1>2, <1>4, <1>5, <1>6

\* finalize_exports.
FinalizeEntries(s, text) ==
    ForEachTwo(s, LAMBDA p : <<"flush", p, text[p]>>, LAMBDA p : <<"save", p>>)

\* finalize_exports flushes and saves every entry, in order.
LEMMA FinalizeList ==
    ASSUME NEW s \in Seq(Paths), NEW text, NEW u, u = FinalizeEntries(s, text)
    PROVE  /\ Steps(u) /\ Len(s) \in Nat /\ Len(u) = 2 * Len(s)
           /\ \A l \in 1 .. Len(s) : /\ u[2 * l - 1] = <<"flush", s[l], text[s[l]]>>
                                     /\ u[2 * l] = <<"save", s[l]>>
  <1> DEFINE S == {u[i] : i \in 1 .. 2 * Len(s)}
  <1>1. u = [i \in 1 .. 2 * Len(s) |->
               IF i % 2 = 1 THEN <<"flush", s[(i + 1) \div 2], text[s[(i + 1) \div 2]]>>
                            ELSE <<"save", s[i \div 2]>>]
    BY DEF FinalizeEntries, ForEachTwo
  <1>2. Len(s) \in Nat /\ 2 * Len(s) \in Nat
    OBVIOUS
  <1>3. u \in [1 .. 2 * Len(s) -> S]
    BY Zenon, <1>1
  <1>4. u \in Seq(S) /\ Len(u) = 2 * Len(s)
    BY <1>2, <1>3, Listed
  <1>5. Steps(u)
    BY <1>4, OwnRange DEF Steps
  <1>6. ASSUME NEW l \in 1 .. Len(s)
        PROVE  u[2 * l - 1] = <<"flush", s[l], text[s[l]]>> /\ u[2 * l] = <<"save", s[l]>>
    BY <1>1, <1>2, Pairs
  <1> QED
    BY <1>2, <1>4, <1>5, <1>6

\* A list given by its members.
LEMMA Mapped ==
    ASSUME NEW n \in Nat, NEW u, u = [i \in 1 .. n |-> u[i]]
    PROVE  Steps(u) /\ Len(u) = n
  <1> DEFINE S == {u[i] : i \in 1 .. n}
  <1>1. u \in [1 .. n -> S]
    OBVIOUS
  <1>2. u \in Seq(S) /\ Len(u) = n
    BY <1>1, Listed
  <1> QED
    BY <1>2, OwnRange DEF Steps

\* Where the steps of an export are; with nothing to change there is no journal.
ExportLaidOut(w, all, changed, text, q) ==
    LET a == Len(all)
        b == Len(changed)
        n == a + 1 + b + q
    IN  /\ Steps(w) /\ Len(w) = n + 3 * b + 2 * a + q
        /\ \A l \in 1 .. a : /\ w[l] = <<"save", all[l]>>
                             /\ w[n + 2 * b + 2 * l - 1] = <<"flush", all[l], text[all[l]]>>
                             /\ w[n + 2 * b + 2 * l] = <<"save", all[l]>>
        /\ w[a + 1] = <<"make_root">>
        /\ \A l \in 1 .. b : /\ w[a + 1 + l] = <<"write_pending", changed[l], text[changed[l]]>>
                             /\ w[n + 2 * l - 1] = <<"displace", changed[l]>>
                             /\ w[n + 2 * l] = <<"install", changed[l]>>
                             /\ w[n + 2 * b + 2 * a + l] = <<"drop_backup", changed[l]>>
        /\ q = 1 => /\ w[n] = <<"write_journal", ExportJournal(changed)>>
                    /\ w[n + 3 * b + 2 * a + 1] = <<"remove_journal", ExportJournal(changed)>>

\* Where each step of an export transaction stands.
LEMMA ExportLayout ==
    ASSUME NEW all \in Seq(Paths), NEW changed \in Seq(Paths), NEW text, NEW q,
           q = IF changed = <<>> THEN 0 ELSE 1
    PROVE  ExportLaidOut(ExportSteps(all, changed, text), all, changed, text, q)
  <1> DEFINE j == ExportJournal(changed)
             la == Len(all)
             lb == Len(changed)
             a == [i \in 1 .. la |-> <<"save", all[i]>>]
             r == <<<<"make_root">>>>
             g == [i \in 1 .. lb |-> <<"write_pending", changed[i], text[changed[i]]>>]
             jn == IF changed = <<>> THEN <<>> ELSE <<<<"write_journal", j>>>>
             ie == InstallEntries(changed)
             f == FinalizeEntries(all, text)
             ce == [i \in 1 .. lb |-> <<"drop_backup", changed[i]>>]
             rm == IF changed = <<>> THEN <<>> ELSE <<<<"remove_journal", j>>>>
             v1 == a \o r
             v2 == v1 \o g
             v3 == v2 \o jn
             v4 == v3 \o ie
             v5 == v4 \o f
             v6 == v5 \o ce
             w == v6 \o rm
  <1>1. ExportSteps(all, changed, text) = w
    BY DEF ExportSteps, ForEach, ForEachTwo, CleanupEntries, FinalizeEntries
  <1>2. la \in Nat /\ lb \in Nat
    OBVIOUS
  <1> HIDE DEF la, lb
  <1>3. Steps(a) /\ Len(a) = la /\ \A l \in 1 .. la : a[l] = <<"save", all[l]>>
    <2>1. a = [i \in 1 .. la |-> a[i]] /\ \A l \in 1 .. la : a[l] = <<"save", all[l]>>
      OBVIOUS
    <2> HIDE DEF a
    <2> QED
      BY <1>2, <2>1, Mapped
  <1>4. Steps(r) /\ Len(r) = 1 /\ r[1] = <<"make_root">>
    <2>1. r \in Seq({<<"make_root">>})
      OBVIOUS
    <2> QED
      BY Zenon, <2>1, OwnRange DEF Steps
  <1>5. /\ Steps(g) /\ Len(g) = lb
        /\ \A l \in 1 .. lb : g[l] = <<"write_pending", changed[l], text[changed[l]]>>
    <2>1. /\ g = [i \in 1 .. lb |-> g[i]]
          /\ \A l \in 1 .. lb : g[l] = <<"write_pending", changed[l], text[changed[l]]>>
      OBVIOUS
    <2> HIDE DEF g
    <2> QED
      BY <1>2, <2>1, Mapped
  <1>6. Steps(ce) /\ Len(ce) = lb /\ \A l \in 1 .. lb : ce[l] = <<"drop_backup", changed[l]>>
    <2>1. /\ ce = [i \in 1 .. lb |-> ce[i]]
          /\ \A l \in 1 .. lb : ce[l] = <<"drop_backup", changed[l]>>
      OBVIOUS
    <2> HIDE DEF ce
    <2> QED
      BY <1>2, <2>1, Mapped
  <1>7. /\ Steps(ie) /\ Len(ie) = 2 * lb
        /\ \A l \in 1 .. lb : /\ ie[2 * l - 1] = <<"displace", changed[l]>>
                              /\ ie[2 * l] = <<"install", changed[l]>>
    BY InstallList DEF lb
  <1>8. /\ Steps(f) /\ Len(f) = 2 * la
        /\ \A l \in 1 .. la : /\ f[2 * l - 1] = <<"flush", all[l], text[all[l]]>>
                              /\ f[2 * l] = <<"save", all[l]>>
    BY FinalizeList DEF la
  <1>9. /\ Steps(jn) /\ Len(jn) = q /\ (q = 1 => jn[1] = <<"write_journal", j>>)
        /\ Steps(rm) /\ Len(rm) = q /\ (q = 1 => rm[1] = <<"remove_journal", j>>)
    <2> HIDE DEF j
    <2>1. <<>> \in Seq({}) /\ Len(<<>>) = 0
      OBVIOUS
    <2>2. ASSUME NEW s
          PROVE  <<s>> \in Seq({s}) /\ Len(<<s>>) = 1 /\ <<s>>[1] = s
      OBVIOUS
    <2>3. CASE changed = <<>>
      BY <2>1, <2>3, OwnRange DEF Steps
    <2>4. CASE changed # <<>>
      BY Zenon, <2>2, <2>4, OwnRange DEF Steps
    <2> QED
      BY <2>3, <2>4
  <1>10. q \in {0, 1}
    OBVIOUS
  <1> HIDE DEF j, a, r, g, jn, ie, f, ce, rm
  <1>11. Joins(a, r, v1)
    BY <1>3, <1>4, Joined
  <1> HIDE DEF v1
  <1>12. Joins(v1, g, v2)
    <2>1. Steps(v1)
      BY <1>11 DEF Joins
    <2> QED
      BY <1>5, <2>1, Joined
  <1> HIDE DEF v2
  <1>13. Joins(v2, jn, v3)
    <2>1. Steps(v2)
      BY <1>12 DEF Joins
    <2> QED
      BY <1>9, <2>1, Joined
  <1> HIDE DEF v3
  <1>14. Joins(v3, ie, v4)
    <2>1. Steps(v3)
      BY <1>13 DEF Joins
    <2> QED
      BY <1>7, <2>1, Joined
  <1> HIDE DEF v4
  <1>15. Joins(v4, f, v5)
    <2>1. Steps(v4)
      BY <1>14 DEF Joins
    <2> QED
      BY <1>8, <2>1, Joined
  <1> HIDE DEF v5
  <1>16. Joins(v5, ce, v6)
    <2>1. Steps(v5)
      BY <1>15 DEF Joins
    <2> QED
      BY <1>6, <2>1, Joined
  <1> HIDE DEF v6
  <1>17. Joins(v6, rm, w)
    <2>1. Steps(v6)
      BY <1>16 DEF Joins
    <2> QED
      BY <1>9, <2>1, Joined
  <1> HIDE DEF w
  <1>18. /\ Len(v1) = la + 1 /\ Len(v2) = la + 1 + lb /\ Len(v3) = la + 1 + lb + q
         /\ Len(v4) = la + 1 + lb + q + 2 * lb /\ Len(v5) = la + 1 + lb + q + 2 * lb + 2 * la
         /\ Len(v6) = la + 1 + lb + q + 3 * lb + 2 * la
         /\ Len(w) = la + 1 + lb + q + 3 * lb + 2 * la + q
    <2>1. /\ Len(v1) = Len(a) + Len(r) /\ Len(v2) = Len(v1) + Len(g) /\ Len(v3) = Len(v2) + Len(jn)
          /\ Len(v4) = Len(v3) + Len(ie) /\ Len(v5) = Len(v4) + Len(f)
          /\ Len(v6) = Len(v5) + Len(ce) /\ Len(w) = Len(v6) + Len(rm)
      BY <1>11, <1>12, <1>13, <1>14, <1>15, <1>16, <1>17 DEF Joins
    <2> QED
      BY <1>2, <1>3, <1>4, <1>5, <1>6, <1>7, <1>8, <1>9, <1>10, <2>1
  <1>19. ASSUME NEW x, NEW n \in Nat, Len(x) \in Nat
         PROVE  /\ Placed(v6, n, x) => Placed(w, n, x)
                /\ Placed(v5, n, x) => Placed(w, n, x)
                /\ Placed(v4, n, x) => Placed(w, n, x)
                /\ Placed(v3, n, x) => Placed(w, n, x)
                /\ Placed(v2, n, x) => Placed(w, n, x)
                /\ Placed(v1, n, x) => Placed(w, n, x)
    <2>6. Placed(v6, n, x) => Placed(w, n, x)
      BY <1>17, <1>19, PlacedFirst
    <2>5. Placed(v5, n, x) => Placed(v6, n, x)
      BY <1>16, <1>19, PlacedFirst
    <2>4. Placed(v4, n, x) => Placed(v5, n, x)
      BY <1>15, <1>19, PlacedFirst
    <2>3. Placed(v3, n, x) => Placed(v4, n, x)
      BY <1>14, <1>19, PlacedFirst
    <2>2. Placed(v2, n, x) => Placed(v3, n, x)
      BY <1>13, <1>19, PlacedFirst
    <2>1. Placed(v1, n, x) => Placed(v2, n, x)
      BY <1>12, <1>19, PlacedFirst
    <2> QED
      BY <2>1, <2>2, <2>3, <2>4, <2>5, <2>6
  <1>20. \A l \in 1 .. la : w[l] = <<"save", all[l]>>
    <2>1. Placed(v1, 0, a)
      BY <1>2, <1>3, <1>11 DEF Joins, Placed
    <2>2. Placed(w, 0, a)
      BY <1>2, <1>3, <1>19, <2>1
    <2> QED
      BY <1>2, <1>3, <2>2 DEF Placed
  <1>21. w[la + 1] = <<"make_root">>
    <2>1. Placed(v1, Len(a), r)
      BY <1>11, PlacedLast
    <2>2. Placed(w, la, r)
      BY <1>2, <1>3, <1>4, <1>19, <2>1
    <2> QED
      BY <1>2, <1>4, <2>2 DEF Placed
  <1>22. \A l \in 1 .. lb : w[la + 1 + l] = <<"write_pending", changed[l], text[changed[l]]>>
    <2>1. Placed(v2, Len(v1), g)
      BY <1>12, PlacedLast
    <2>2. Placed(w, la + 1, g)
      BY <1>2, <1>5, <1>18, <1>19, <2>1
    <2> QED
      BY <1>2, <1>5, <2>2 DEF Placed
  <1> DEFINE n == la + 1 + lb + q
  <1>23. n \in Nat /\ n - q \in Nat /\ (n - q) + q = n
    BY <1>2, <1>10
  <1>24. q = 1 => w[n] = <<"write_journal", j>>
    <2>1. Placed(v3, Len(v2), jn)
      BY <1>13, PlacedLast
    <2>2. Placed(w, n - q, jn)
      BY <1>2, <1>9, <1>10, <1>18, <1>19, <2>1
    <2> QED
      BY <1>9, <1>23, <2>2 DEF Placed
  <1>25. \A l \in 1 .. lb : /\ w[n + 2 * l - 1] = <<"displace", changed[l]>>
                            /\ w[n + 2 * l] = <<"install", changed[l]>>
    <2>1. Placed(v4, Len(v3), ie)
      BY <1>14, PlacedLast
    <2>2. Placed(w, n, ie)
      BY <1>2, <1>7, <1>18, <1>19, <1>23, <2>1
    <2> HIDE DEF n
    <2> QED
      BY Zenon, <1>2, <1>7, <1>23, <2>2, Pairs DEF Placed
  <1>26. \A l \in 1 .. la : /\ w[n + 2 * lb + 2 * l - 1] = <<"flush", all[l], text[all[l]]>>
                            /\ w[n + 2 * lb + 2 * l] = <<"save", all[l]>>
    <2>1. Placed(v5, Len(v4), f)
      BY <1>15, PlacedLast
    <2>2. Placed(w, n + 2 * lb, f)
      BY <1>2, <1>8, <1>18, <1>19, <1>23, <2>1
    <2> HIDE DEF n
    <2> QED
      BY Zenon, <1>2, <1>8, <1>23, <2>2, Pairs DEF Placed
  <1>27. \A l \in 1 .. lb : w[n + 2 * lb + 2 * la + l] = <<"drop_backup", changed[l]>>
    <2>1. Placed(v6, Len(v5), ce)
      BY <1>16, PlacedLast
    <2>3. Len(v5) \in Nat /\ Len(ce) \in Nat /\ Len(v5) = n + 2 * lb + 2 * la
      BY <1>2, <1>6, <1>18, <1>23
    <2>4. Placed(w, Len(v5), ce)
      BY <1>19, <2>1, <2>3
    <2>2. Placed(w, n + 2 * lb + 2 * la, ce)
      BY <2>3, <2>4
    <2> HIDE DEF n
    <2> QED
      BY <1>2, <1>6, <1>23, <2>2 DEF Placed
  <1>28. q = 1 => w[n + 3 * lb + 2 * la + 1] = <<"remove_journal", j>>
    <2>1. Placed(w, Len(v6), rm)
      BY <1>17, PlacedLast
    <2>2. Len(rm) = q /\ (q = 1 => rm[1] = <<"remove_journal", j>>)
      BY <1>9, Zenon
    <2> HIDE DEF rm
    <2>3. Len(v6) = n + 3 * lb + 2 * la
      BY <1>18, <1>23
    <2> QED
      BY <2>1, <2>2, <2>3 DEF Placed
  <1>29. Steps(w) /\ Len(w) = n + 3 * lb + 2 * la + q
    BY <1>17, <1>18 DEF Joins
  <1>30. ExportLaidOut(w, all, changed, text, q)
    BY <1>20, <1>21, <1>22, <1>24, <1>25, <1>26, <1>27, <1>28, <1>29, Zenon
       DEF ExportLaidOut, n, la, lb, j
  <1> QED
    BY <1>1, <1>30

\* The entries of export journal j are installed by the steps after the n-th of w, and
\* cleaned up after x steps more.
ExportsAfter(w, n, x, j, st) ==
    LET b == Len(j.paths)
    IN  /\ \A l \in 1 .. b : /\ w[n + 2 * l - 1] = <<"displace", j.paths[l]>>
                             /\ w[n + 2 * l] = <<"install", j.paths[l]>>
                             /\ w[n + 2 * b + x + l] = <<"drop_backup", j.paths[l]>>
        /\ w[n + 3 * b + x + 1] = <<"remove_journal", j>>
        /\ Len(w) = n + 3 * b + x + 1 + Len(EndOf(j, st))
        /\ \A i \in 1 .. Len(EndOf(j, st)) : w[n + 3 * b + x + 1 + i] = EndOf(j, st)[i]

\* The steps of an export transaction, as install_export_entries and finalize_exports take them.
LEMMA ExportCarries ==
    ASSUME NEW c, NEW d, NEW m, NEW w, NEW st, NEW n \in Nat, NEW x \in Nat, NEW j \in Journals,
           j.kind = "export", ExportsAfter(w, n, x, j, st), NEW live \in BOOLEAN,
           \A k \in n + 2 * Len(j.paths) + 1 .. n + 2 * Len(j.paths) + x :
               CarryHolds(c, d, m, w, st, k, j, live)
    PROVE  \A k \in n + 1 .. Len(w) : CarryHolds(c, d, m, w, st, k, j, live)
  <1> DEFINE b == Len(j.paths)
             z == n + 3 * b + x + 1
  <1>1. j.paths \in Seq(Paths)
    BY JournalKinds
  <1>2. b \in Nat /\ Range(j.paths) = {j.paths[l] : l \in 1 .. b} /\ Range(j.paths) \subseteq Paths
    BY <1>1 DEF Range
  <1>3. /\ \A l \in 1 .. b : /\ w[n + 2 * l - 1] = <<"displace", j.paths[l]>>
                             /\ w[n + 2 * l] = <<"install", j.paths[l]>>
                             /\ w[n + 2 * b + x + l] = <<"drop_backup", j.paths[l]>>
        /\ w[z] = <<"remove_journal", j>> /\ Len(w) = z + Len(EndOf(j, st))
        /\ \A i \in 1 .. Len(EndOf(j, st)) : w[z + i] = EndOf(j, st)[i]
    BY Zenon DEF ExportsAfter
  <1>4. z \in Nat
    BY <1>2
  <1> HIDE DEF b
  <1>5. ASSUME NEW l \in 1 .. b
        PROVE  /\ j.paths[l] \in Range(j.paths) /\ j.paths[l] \in Paths
               /\ n + 2 * l \in Nat /\ n + 2 * l - 1 \in Nat
               /\ n + 2 * l < n + 2 * b + x + l /\ n + 2 * l < z
               /\ n + 2 * b + x + l < z /\ n + 2 * b + x + l \in Nat
    BY <1>2
  <1>6. \A l \in 1 .. b, k \in Nat :
          /\ n + 2 * l < k => Before(w, k, <<"install", j.paths[l]>>)
          /\ n + 2 * b + x + l < k => Before(w, k, <<"drop_backup", j.paths[l]>>)
    <2> TAKE l \in 1 .. b, k \in Nat
    <2>1. /\ n + 2 * l < k => n + 2 * l \in 1 .. k - 1
          /\ n + 2 * b + x + l < k => n + 2 * b + x + l \in 1 .. k - 1
      BY <1>2
    <2> QED
      BY Zenon, <1>3, <2>1 DEF Before
  <1> HIDE DEF z
  <1>12. ASSUME NEW k, NEW p \in Range(j.paths),
                \/ w[k] = <<"displace", p>> \/ w[k] = <<"install", p>>
                \/ w[k] = <<"drop_backup", p>> /\ Before(w, k, <<"install", p>>)
         PROVE  CarryHolds(c, d, m, w, st, k, j, live)
    <2>1. w[k] \in ExportSet
      BY <1>2, <1>12 DEF ExportSet
    <2>2. /\ w[k][1] \in {"displace", "install", "drop_backup"} /\ w[k][2] = p
          /\ w[k][1] = "drop_backup" => Before(w, k, <<"install", p>>)
      BY <1>12
    <2> QED
      BY <2>1, <2>2 DEF CarryHolds
  <1>7. ASSUME NEW l \in 1 .. b
        PROVE  /\ CarryHolds(c, d, m, w, st, n + 2 * l - 1, j, live)
               /\ CarryHolds(c, d, m, w, st, n + 2 * l, j, live)
    BY Zenon, <1>3, <1>5, <1>12
  <1>8. ASSUME NEW l \in 1 .. b
        PROVE  CarryHolds(c, d, m, w, st, n + 2 * b + x + l, j, live)
    <2>1. Before(w, n + 2 * b + x + l, <<"install", j.paths[l]>>)
      BY Zenon, <1>5, <1>6
    <2> QED
      BY <1>3, <1>5, <1>12, <2>1
  <1>9. CarryHolds(c, d, m, w, st, z, j, live)
    <2>1. \A p \in Range(j.paths) : Before(w, z, <<"install", p>>) /\ Before(w, z, <<"drop_backup", p>>)
      BY Zenon, <1>2, <1>4, <1>5, <1>6
    <2>2. Removable(d, w, z, j, live)
      BY <2>1 DEF Removable
    <2> QED
      BY <1>3, <2>2 DEF CarryHolds
  <1>10. ASSUME Len(EndOf(j, st)) = 1
         PROVE  CarryHolds(c, d, m, w, st, z + 1, j, live)
    <2>1. Before(w, z + 1, <<"remove_journal", j>>) /\ z + 1 = Len(w)
      <3>1. z \in 1 .. (z + 1) - 1
        BY <1>2, <1>4 DEF z
      <3> QED
        BY <1>3, <1>10, <3>1 DEF Before
    <2> QED
      BY <2>1 DEF CarryHolds
  <1>11. ASSUME NEW k \in n + 1 .. Len(w)
         PROVE  CarryHolds(c, d, m, w, st, k, j, live)
    <2>1. Len(EndOf(j, st)) \in {0, 1}
      BY EndLength
    <2>2. CASE k \in n + 1 .. n + 2 * b
      <3>1. k - n \in 1 .. 2 * b
        BY <1>2, <2>2
      <3>2. PICK l \in 1 .. b : k - n = 2 * l - 1 \/ k - n = 2 * l
        BY Zenon, <1>2, <3>1, Halves
      <3>3. k = n + 2 * l - 1 \/ k = n + 2 * l
        BY <1>2, <3>2
      <3> QED
        BY <1>7, <3>3
    <2>3. CASE k \in n + 2 * b + 1 .. n + 2 * b + x
      BY <2>3 DEF b
    <2>4. CASE k \in n + 2 * b + x + 1 .. n + 3 * b + x
      <3>1. PICK l \in 1 .. b : k = n + 2 * b + x + l
        <4>1. k - (n + 2 * b + x) \in 1 .. b /\ k = n + 2 * b + x + (k - (n + 2 * b + x))
          BY <1>2, <2>4
        <4> QED
          BY <4>1
      <3> QED
        BY <1>8, <3>1
    <2>5. CASE k = z
      BY <1>9, <2>5
    <2>6. CASE k > z
      <3>1. Len(EndOf(j, st)) = 1 /\ k = z + 1
        BY <1>3, <1>4, <2>1, <2>6
      <3> QED
        BY <1>10, <3>1
    <2>7. k \in n + 1 .. n + 2 * b \/ k \in n + 2 * b + 1 .. n + 2 * b + x
          \/ k \in n + 2 * b + x + 1 .. n + 3 * b + x \/ k = z \/ k > z
      BY <1>2 DEF z
    <2> QED
      BY <2>2, <2>3, <2>4, <2>5, <2>6, <2>7
  <1> QED
    BY <1>11

\* export_markdown_transaction.
LEMMA StartExports ==
    ASSUME NEW c, NEW d, NEW m, Idle(c, d, m), NEW all \in Seq(Paths), NEW changed \in Seq(Paths),
           Range(changed) \subseteq Range(all), NEW text,
           \A p \in Range(all) : /\ m.docs[p].exists /\ m.docs[p].text # NoText
                                 /\ text[p] = m.docs[p].text
    PROVE  VaultHolds(c, d, m, ExportSteps(all, changed, text), "up")
  <1> DEFINE q == IF changed = <<>> THEN 0 ELSE 1
             w == ExportSteps(all, changed, text)
             j == ExportJournal(changed)
             a == Len(all)
             b == Len(changed)
             n == a + 1 + b + q
  <1>1. /\ Range(all) = {all[l] : l \in 1 .. a} /\ Range(all) \subseteq Paths
        /\ Range(changed) = {changed[l] : l \in 1 .. b} /\ a \in Nat /\ b \in Nat
    BY DEF Range
  <1>2. ExportLaidOut(w, all, changed, text, q)
    BY ExportLayout
  <1>3. /\ m \in MemType /\ d.journals = {} /\ NoTemps(d)
        /\ \A p \in Paths : WholeSession(m.docs[p]) /\ Backed(d, m, p)
    BY IdleFacts
  <1>4. \A p \in Range(all) : m.docs[p].exists /\ text[p] \in Texts /\ text[p] \in m.docs[p].seen
    <2> TAKE p \in Range(all)
    <2>1. m.docs[p] \in Session
      BY <1>1, <1>3 DEF MemType
    <2>2. m.docs[p].text \in Texts
      BY <2>1 DEF Session
    <2>3. m.docs[p].text \in m.docs[p].seen
      BY <1>1, <1>3 DEF WholeSession
    <2> QED
      BY <2>2, <2>3
  <1>5. /\ Steps(w) /\ Len(w) = n + 3 * b + 2 * a + q
        /\ \A l \in 1 .. a : /\ w[l] = <<"save", all[l]>>
                             /\ w[n + 2 * b + 2 * l - 1] = <<"flush", all[l], text[all[l]]>>
                             /\ w[n + 2 * b + 2 * l] = <<"save", all[l]>>
        /\ w[a + 1] = <<"make_root">>
        /\ \A l \in 1 .. b : /\ w[a + 1 + l] = <<"write_pending", changed[l], text[changed[l]]>>
                             /\ w[n + 2 * l - 1] = <<"displace", changed[l]>>
                             /\ w[n + 2 * l] = <<"install", changed[l]>>
                             /\ w[n + 2 * b + 2 * a + l] = <<"drop_backup", changed[l]>>
        /\ q = 1 => /\ w[n] = <<"write_journal", j>>
                    /\ w[n + 3 * b + 2 * a + 1] = <<"remove_journal", j>>
    BY <1>2, Zenon DEF ExportLaidOut
  <1>6. q \in {0, 1} /\ (q = 0 => changed = <<>>) /\ (q = 1 => changed # <<>>)
    OBVIOUS
  <1>7. (q = 0 => b = 0) /\ n \in Nat /\ a < n
    BY <1>1, <1>6
  <1> HIDE DEF q, w, a, b
  <1>8. \A l \in 1 .. a : all[l] \in Range(all) /\ all[l] \in Paths
    BY <1>1
  <1>9. \A l \in 1 .. a, k \in Nat : l < k => Before(w, k, <<"save", all[l]>>)
    <2> TAKE l \in 1 .. a, k \in Nat
    <2>1. l < k => l \in 1 .. k - 1
      BY <1>1
    <2>2. w[l] = <<"save", all[l]>>
      BY <1>5
    <2> QED
      BY <2>1, <2>2 DEF Before
  <1>10. ASSUME NEW k \in n + 2 * b + 1 .. n + 2 * b + 2 * a
         PROVE  \E p \in Range(all) :
                   \/ w[k] = <<"save", p>>
                   \/ w[k] = <<"flush", p, text[p]>> /\ FlushBacked(c, d, m, w, k, p, text[p])
    <2>1. k - (n + 2 * b) \in 1 .. 2 * a
      BY <1>1, <1>7
    <2>2. PICK l \in 1 .. a : k - (n + 2 * b) = 2 * l - 1 \/ k - (n + 2 * b) = 2 * l
      BY Zenon, <1>1, <2>1, Halves
    <2>3. k = n + 2 * b + 2 * l - 1 \/ k = n + 2 * b + 2 * l
      BY <1>1, <1>7, <2>2
    <2>4. l < k /\ k \in Nat
      <3> HIDE DEF n
      <3> QED
        BY <1>1, <1>7
    <2>5. Before(w, k, <<"save", all[l]>>)
      BY <1>9, <2>4
    <2>6. FlushBacked(c, d, m, w, k, all[l], text[all[l]])
      BY <1>4, <1>8, <2>5 DEF FlushBacked
    <2>7. w[k] = <<"save", all[l]>> \/ w[k] = <<"flush", all[l], text[all[l]]>>
      BY Zenon, <1>5, <2>3
    <2> QED
      BY <1>8, <2>6, <2>7
  <1>11. CASE q = 0
    <2>1. ASSUME NEW k \in 1 .. Len(w)
          PROVE  w[k] \in PlainSteps /\ PlainHolds(c, d, m, w, k)
      <3>1. ASSUME w[k] = <<"make_root">> \/ \E p \in Range(all) : w[k] = <<"save", p>>
            PROVE  w[k] \in PlainSteps /\ PlainHolds(c, d, m, w, k)
        <4>3. \A p \in Paths : <<"save", p>> \in PlainSteps
          BY DEF PlainSteps
        <4>4. <<"make_root">> \in PlainSteps
          BY DEF PlainSteps
        <4>1. w[k] \in PlainSteps
          BY Zenon, <1>1, <3>1, <4>3, <4>4
        <4>2. w[k][1] \in {"make_root", "save"}
          BY <3>1
        <4> QED
          BY <4>1, <4>2 DEF PlainHolds
      <3>2. CASE k \in 1 .. a
        BY <1>5, <1>8, <3>1, <3>2
      <3>3. CASE k = a + 1
        BY <1>5, <3>1, <3>3
      <3>4. CASE k \in n + 2 * b + 1 .. n + 2 * b + 2 * a
        <4>1. PICK p \in Range(all) :
                \/ w[k] = <<"save", p>>
                \/ w[k] = <<"flush", p, text[p]>> /\ FlushBacked(c, d, m, w, k, p, text[p])
          BY <1>10, <3>4
        <4>2. CASE w[k] = <<"save", p>>
          BY <3>1, <4>2
        <4>3. CASE w[k] = <<"flush", p, text[p]>> /\ FlushBacked(c, d, m, w, k, p, text[p])
          <5>1. w[k] \in PlainSteps
            BY <1>1, <1>4, <4>3 DEF PlainSteps
          <5>2. w[k][1] = "flush" /\ w[k][2] = p /\ w[k][3] = text[p]
            BY <4>3
          <5> QED
            BY <4>3, <5>1, <5>2 DEF PlainHolds
        <4> QED
          BY <4>1, <4>2, <4>3
      <3>5. k \in 1 .. a \/ k = a + 1 \/ k \in n + 2 * b + 1 .. n + 2 * b + 2 * a
        BY <1>1, <1>5, <1>7, <1>11
      <3> QED
        BY <3>2, <3>3, <3>4, <3>5
    <2>2. w \in Seq(PlainSteps)
      <3>1. w \in Seq(Range(w))
        BY <1>5 DEF Steps
      <3>2. Len(w) \in Nat /\ w \in [1 .. Len(w) -> PlainSteps]
        BY <2>1, <3>1
      <3> QED
        BY <3>2, Listed
    <2> QED
      BY <2>1, <2>2, StartPlain DEF w
  <1>12. CASE q = 1
    <2>1. j \in Journals /\ j.kind = "export" /\ j.paths = changed
      BY DEF ExportJournal, Journals
    <2> HIDE DEF j
    <2>2. EndOf(j, "up") = <<>> /\ Len(<<>>) = 0
      BY <2>1 DEF EndOf
    <2>3. ExportsAfter(w, n, 2 * a, j, "up")
      <3>1. Len(w) = n + 3 * b + 2 * a + 1 + 0
        BY <1>1, <1>5, <1>7, <1>12
      <3>2. 1 .. 0 = {}
        OBVIOUS
      <3>3. \A i \in 1 .. Len(EndOf(j, "up")) : w[n + 3 * b + 2 * a + 1 + i] = EndOf(j, "up")[i]
        BY <2>2, <3>2
      <3>4. Len(w) = n + 3 * b + 2 * a + 1 + Len(EndOf(j, "up"))
        BY <2>2, <3>1
      <3> HIDE DEF n
      <3> QED
        BY <1>5, <1>12, <2>1, <3>3, <3>4, Zenon DEF ExportsAfter, b
    <2>4. \A k \in n + 2 * b + 1 .. n + 2 * b + 2 * a : CarryHolds(c, d, m, w, "up", k, j, FALSE)
      <3> SUFFICES ASSUME NEW k \in n + 2 * b + 1 .. n + 2 * b + 2 * a
                   PROVE  CarryHolds(c, d, m, w, "up", k, j, FALSE)
        BY Zenon
      <3>1. PICK p \in Range(all) :
              \/ w[k] = <<"save", p>>
              \/ w[k] = <<"flush", p, text[p]>> /\ FlushBacked(c, d, m, w, k, p, text[p])
        BY <1>10
      <3>2. w[k] \in ExportSet
        <4>1. p \in Paths /\ text[p] \in Texts
          BY <1>1, <1>4
        <4>2. <<"save", p>> \in ExportSet /\ <<"flush", p, text[p]>> \in ExportSet
          BY <4>1 DEF ExportSet
        <4> QED
          BY Zenon, <3>1, <4>2
      <3>3. /\ w[k][1] \in {"save", "flush"}
            /\ w[k][1] = "flush" => FlushBacked(c, d, m, w, k, w[k][2], w[k][3])
        BY <3>1
      <3> QED
        BY Zenon, <2>1, <3>2, <3>3 DEF CarryHolds
    <2>5. \A k \in n + 1 .. Len(w) : CarryHolds(c, d, m, w, "up", k, j, FALSE)
      <3>1. 2 * a \in Nat
        BY <1>1
      <3> HIDE DEF n
      <3> QED
        BY Zenon, <1>7, <2>1, <2>3, <2>4, <3>1, ExportCarries DEF b
    <2>6. ASSUME NEW l \in 1 .. b
          PROVE  changed[l] \in Range(changed) /\ changed[l] \in Paths /\ text[changed[l]] \in Texts
      BY <1>1, <1>4, <2>6
    <2>7. \A k \in 1 .. n - 1 : PrepareHolds(d, w, k, n, j)
      <3> TAKE k \in 1 .. n - 1
      <3>1. CASE k \in 1 .. a
        <4>2. w[k] = <<"save", all[k]>> /\ all[k] \in Paths
          BY <1>5, <1>8, <3>1
        <4>1. w[k] \in {"save"} \X Paths
          BY <4>2
        <4> QED
          BY <4>1 DEF PrepareHolds
      <3>2. CASE k = a + 1
        BY <1>5, <3>2 DEF PrepareHolds
      <3>3. CASE k \in a + 2 .. a + 1 + b
        <4>1. PICK l \in 1 .. b : k = a + 1 + l
          <5>1. k - (a + 1) \in 1 .. b /\ k = a + 1 + (k - (a + 1))
            BY <1>1, <3>3
          <5> QED
            BY <5>1
        <4>2. w[k] = <<"write_pending", changed[l], text[changed[l]]>>
          BY <1>5, <4>1
        <4>3. w[k] \in {"write_pending"} \X Paths \X Texts /\ w[k][2] \in Range(j.paths)
          BY <2>1, <2>6, <4>2
        <4>4. Before(w, k, <<"make_root">>)
          <5>1. a + 1 \in 1 .. k - 1
            BY <1>1, <3>3
          <5> QED
            BY <1>5, <5>1 DEF Before
        <4>5. k + 1 = n \/ w[k + 1][1] = "write_pending"
          <5>1. CASE l = b
            BY <1>1, <1>12, <4>1, <5>1
          <5>2. CASE l # b
            <6>1. l + 1 \in 1 .. b /\ k + 1 = a + 1 + (l + 1)
              BY <1>1, <4>1, <5>2
            <6>2. w[a + 1 + (l + 1)] = <<"write_pending", changed[l + 1], text[changed[l + 1]]>>
              BY <1>5, <6>1
            <6> QED
              BY <6>1, <6>2
          <5> QED
            BY <5>1, <5>2
        <4> QED
          BY <2>1, <4>3, <4>4, <4>5 DEF PrepareHolds
      <3> QED
        BY <1>1, <1>12, <3>1, <3>2, <3>3
    <2>8. JournalReady(c, d, m, w, n, j)
      <3>1. ASSUME NEW p \in Range(changed)
            PROVE  Writes(w, n, "write_pending", p)
        <4>1. PICK l \in 1 .. b : p = changed[l]
          BY <1>1
        <4>2. a + 1 + l \in 1 .. n - 1
          BY <1>1, <1>12
        <4>3. w[a + 1 + l][1] = "write_pending" /\ w[a + 1 + l][2] = p
          BY <1>5, <4>1
        <4> QED
          BY <4>2, <4>3 DEF Writes
      <3> QED
        BY <1>3, <2>1, <3>1 DEF JournalReady, NoTemps
    <2>9. Readied(c, d, m, w, n, j)
      <3>1. n \in 1 .. Len(w)
        BY <1>1, <1>5, <1>12
      <3> HIDE DEF n
      <3> QED
        BY Zenon, <1>5, <1>12, <2>5, <2>7, <2>8, <3>1 DEF Readied, j
    <2> QED
      BY <1>5, <2>9, StartPreparing DEF w
  <1> QED
    BY <1>6, <1>11, <1>12 DEF w

-----------------------------------------------------------------------------
(* Recovery, as it starts: in VaultSession::open, or in a running process.  *)

Recovers(c, was, st) == \/ was = "down" /\ st = "opening"
                        \/ was = "up" /\ st = "recovering" /\ "recover" \in c

\* Recovery of a journal starts in the invariant.
LEMMA StartCarrying ==
    ASSUME NEW c, NEW d, NEW m, NEW was, NEW st, VaultHolds(c, d, m, <<>>, was), Recovers(c, was, st),
           NEW j \in d.journals, NEW w, Steps(w),
           \A k \in 0 + 1 .. Len(w) : CarryHolds(c, d, m, w, st, k, j, TRUE)
    PROVE  VaultHolds(c, d, m, w, st)
  <1>1. MemHolds(d, m, w)
    BY DEF VaultHolds, MemHolds, Settled
  <1>2. 0 + 1 = 1
    OBVIOUS
  <1>3. Carrying(c, d, m, w, st)
    BY Zenon, <1>2 DEF Carrying
  <1>4. TempsHold(d, w, st)
    BY DEF TempsHold
  <1>5. StatusHolds(c, m, w, st)
    BY DEF VaultHolds, StatusHolds, Recovers, Steps
  <1> QED
    BY Zenon, <1>1, <1>3, <1>4, <1>5 DEF VaultHolds, WorkHolds

\* The journal that is carried out is removed, and the temporaries are swept.
RecoveryLaidOut(w, x, j, st) ==
    /\ Steps(w) /\ Len(x) \in Nat /\ Len(w) = Len(x) + 2 /\ Placed(w, 0, x)
    /\ w[Len(x) + 1] = <<"remove_journal", j>> /\ w[Len(x) + 2] = <<"sweep">>
    /\ EndOf(j, st) = <<<<"sweep">>>> /\ Len(EndOf(j, st)) = 1 /\ EndOf(j, st)[1] = <<"sweep">>

\* Recovery ends with the removal of the journal and the sweep.
LEMMA RecoveryEnd ==
    ASSUME NEW c, NEW was, NEW st, Recovers(c, was, st), NEW j, NEW x, Steps(x), NEW w,
           w = (x \o <<<<"remove_journal", j>>>>) \o <<<<"sweep">>>>
    PROVE  RecoveryLaidOut(w, x, j, st)
  <1> DEFINE r == <<<<"remove_journal", j>>>>
             s == <<<<"sweep">>>>
             v == x \o r
  <1>1. Steps(r) /\ Len(r) = 1 /\ r[1] = <<"remove_journal", j>>
    <2>1. r \in Seq({<<"remove_journal", j>>})
      OBVIOUS
    <2> QED
      BY Zenon, <2>1, OwnRange DEF Steps
  <1>2. Steps(s) /\ Len(s) = 1 /\ s[1] = <<"sweep">>
    <2>1. s \in Seq({<<"sweep">>})
      OBVIOUS
    <2> QED
      BY Zenon, <2>1, OwnRange DEF Steps
  <1>3. st # "up"
    BY DEF Recovers
  <1>4. EndOf(j, st) = s
    BY <1>3 DEF EndOf
  <1>5. w = v \o s
    OBVIOUS
  <1> HIDE DEF r, s
  <1>6. Joins(x, r, v)
    BY <1>1, Joined
  <1> HIDE DEF v
  <1>7. Steps(v)
    BY <1>6 DEF Joins
  <1>8. Joins(v, s, w)
    BY Zenon, <1>2, <1>5, <1>7, Joined
  <1>9. Placed(v, 0, x)
    BY <1>6 DEF Joins, Placed
  <1>10. Len(x) \in Nat /\ Len(v) = Len(x) + 1 /\ v[Len(x) + 1] = r[1]
    BY <1>1, <1>6 DEF Joins
  <1>11. Placed(w, 0, x)
    BY <1>8, <1>9, <1>10, PlacedFirst
  <1>12. /\ Steps(w) /\ Len(w) = Len(v) + 1 /\ w[Len(v) + 1] = s[1] /\ w[Len(x) + 1] = v[Len(x) + 1]
    <2>1. /\ Steps(w) /\ Len(w) = Len(v) + Len(s)
          /\ \A i \in 1 .. Len(v) : w[i] = v[i] /\ \A h \in 1 .. Len(s) : w[Len(v) + h] = s[h]
      BY Zenon, <1>8 DEF Joins
    <2>2. Len(x) + 1 \in 1 .. Len(v) /\ 1 \in 1 .. Len(s)
      BY <1>2, <1>10
    <2> QED
      BY <1>2, <2>1, <2>2
  <1> QED
    BY <1>1, <1>2, <1>4, <1>10, <1>11, <1>12 DEF RecoveryLaidOut, s

\* Recovery of an interrupted deletion.
LEMMA StartDeleteRecovery ==
    ASSUME NEW c, NEW d, NEW m, NEW was, NEW st, VaultHolds(c, d, m, <<>>, was), Recovers(c, was, st),
           NEW j \in d.journals, j \in Journals, j.kind = "delete"
    PROVE  /\ VaultHolds(c, d, m, RecoverySteps(j) \o <<<<"sweep">>>>, st)
           /\ RecoverySteps(j) \o <<<<"sweep">>>> # <<>>
  <1> DEFINE x == CompleteDelete(j.path)
             w == (x \o <<<<"remove_journal", j>>>>) \o <<<<"sweep">>>>
  <1>1. RecoverySteps(j) = x \o <<<<"remove_journal", j>>>>
    BY Zenon DEF RecoverySteps
  <1>2. /\ Steps(x) /\ Len(x) = 4 /\ x[1] = <<"drop_file", j.path>> /\ x[2] = <<"drop_identity", j.path>>
        /\ x[3] = <<"drop_session", j.path>> /\ x[4] = <<"drop_flushed", j.path>>
    <2>1. x \in Seq({<<"drop_file", j.path>>, <<"drop_identity", j.path>>, <<"drop_session", j.path>>,
                     <<"drop_flushed", j.path>>})
      BY DEF CompleteDelete
    <2>2. Steps(x)
      BY <2>1, OwnRange DEF Steps
    <2> QED
      BY <2>2 DEF CompleteDelete
  <1> HIDE DEF x
  <1>0. w = (x \o <<<<"remove_journal", j>>>>) \o <<<<"sweep">>>>
    OBVIOUS
  <1> HIDE DEF w
  <1>3. /\ Steps(w) /\ Len(w) = Len(x) + 2 /\ Placed(w, 0, x)
        /\ w[Len(x) + 1] = <<"remove_journal", j>> /\ w[Len(x) + 2] = <<"sweep">>
        /\ EndOf(j, st)[1] = <<"sweep">>
    <2>1. Steps(x)
      BY <1>2
    <2>2. RecoveryLaidOut(w, x, j, st)
      BY <1>0, <2>1, RecoveryEnd, Zenon
    <2> QED
      BY <2>2 DEF RecoveryLaidOut
  <1>4. \A i \in {1, 2, 3, 4} : w[0 + i] = x[i]
    BY <1>2, <1>3 DEF Placed
  <1>5. w[0 + 5] = <<"remove_journal", j>> /\ w[0 + 6] = <<"sweep">> /\ Len(w) = 0 + 6
    BY <1>2, <1>3
  <1>6. DeletesAfter(w, 0, j, st)
    BY <1>2, <1>3, <1>4, <1>5 DEF DeletesAfter
  <1>7. \A k \in 0 + 1 .. Len(w) : CarryHolds(c, d, m, w, st, k, j, TRUE)
    BY Zenon, <1>6, DeleteCarries
  <1>8. VaultHolds(c, d, m, w, st)
    BY Zenon, <1>3, <1>7, StartCarrying
  <1>9. w # <<>>
    BY <1>5
  <1> QED
    BY <1>1, <1>8, <1>9 DEF w

\* Recovery of an interrupted rename.
LEMMA StartRenameRecovery ==
    ASSUME NEW c, NEW d, NEW m, NEW was, NEW st, VaultHolds(c, d, m, <<>>, was), Recovers(c, was, st),
           NEW j \in d.journals, j \in Journals, j.kind = "rename"
    PROVE  /\ VaultHolds(c, d, m, RecoverySteps(j) \o <<<<"sweep">>>>, st)
           /\ RecoverySteps(j) \o <<<<"sweep">>>> # <<>>
  <1> DEFINE x == CompleteRename(j.from, j.to, j.id)
             w == (x \o <<<<"remove_journal", j>>>>) \o <<<<"sweep">>>>
  <1>1. RecoverySteps(j) = x \o <<<<"remove_journal", j>>>>
    BY Zenon DEF RecoverySteps
  <1>2. /\ Steps(x) /\ Len(x) = 6
        /\ x[1] = <<"refuse_two_files", j.from, j.to>> /\ x[2] = <<"persist_identity", j.to, j.id>>
        /\ x[3] = <<"move_session", j.from, j.to>> /\ x[4] = <<"move_flushed", j.from, j.to>>
        /\ x[5] = <<"move_file", j.from, j.to>> /\ x[6] = <<"drop_identity", j.from>>
    BY RenameList
  <1> HIDE DEF x
  <1>0. w = (x \o <<<<"remove_journal", j>>>>) \o <<<<"sweep">>>>
    OBVIOUS
  <1> HIDE DEF w
  <1>3. /\ Steps(w) /\ Len(w) = Len(x) + 2 /\ Placed(w, 0, x)
        /\ w[Len(x) + 1] = <<"remove_journal", j>> /\ w[Len(x) + 2] = <<"sweep">>
        /\ EndOf(j, st)[1] = <<"sweep">>
    <2>1. Steps(x)
      BY <1>2
    <2>2. RecoveryLaidOut(w, x, j, st)
      BY <1>0, <2>1, RecoveryEnd, Zenon
    <2> QED
      BY <2>2 DEF RecoveryLaidOut
  <1>4. \A i \in {1, 2, 3, 4, 5, 6} : w[0 + i] = x[i]
    BY <1>2, <1>3 DEF Placed
  <1>5. w[0 + 7] = <<"remove_journal", j>> /\ w[0 + 8] = <<"sweep">> /\ Len(w) = 0 + 8
    BY <1>2, <1>3
  <1>6. RenamesAfter(w, 0, j, st)
    BY <1>2, <1>3, <1>4, <1>5 DEF RenamesAfter
  <1>7. st # "up"
    BY DEF Recovers
  <1>8. \A k \in 0 + 1 .. Len(w) : CarryHolds(c, d, m, w, st, k, j, TRUE)
    BY Zenon, <1>6, <1>7, RenameCarries
  <1>9. VaultHolds(c, d, m, w, st)
    BY Zenon, <1>3, <1>8, StartCarrying
  <1>10. w # <<>>
    BY <1>5
  <1> QED
    BY <1>1, <1>9, <1>10 DEF w

\* Recovery of an interrupted export.
LEMMA StartExportRecovery ==
    ASSUME NEW c, NEW d, NEW m, NEW was, NEW st, VaultHolds(c, d, m, <<>>, was), Recovers(c, was, st),
           NEW j \in d.journals, j \in Journals, j.kind = "export"
    PROVE  /\ VaultHolds(c, d, m, RecoverySteps(j) \o <<<<"sweep">>>>, st)
           /\ RecoverySteps(j) \o <<<<"sweep">>>> # <<>>
  <1> DEFINE s == j.paths
             b == Len(s)
             ie == InstallEntries(s)
             df == [i \in 1 .. b |-> <<"drop_flushed", s[i]>>]
             ce == [i \in 1 .. b |-> <<"drop_backup", s[i]>>]
             v == ie \o df
             x == v \o ce
             w == (x \o <<<<"remove_journal", j>>>>) \o <<<<"sweep">>>>
  <1>1. RecoverySteps(j) = x \o <<<<"remove_journal", j>>>>
    BY Zenon DEF RecoverySteps, ForEach, CleanupEntries
  <1>2. s \in Seq(Paths)
    BY JournalKinds
  <1>3. b \in Nat /\ \A l \in 1 .. b : s[l] \in Paths
    BY <1>2
  <1>4. /\ Steps(ie) /\ Len(ie) = 2 * b
        /\ \A l \in 1 .. b : ie[2 * l - 1] = <<"displace", s[l]>> /\ ie[2 * l] = <<"install", s[l]>>
    BY <1>2, InstallList
  <1> HIDE DEF s, b
  <1>5. Steps(df) /\ Len(df) = b /\ \A l \in 1 .. b : df[l] = <<"drop_flushed", s[l]>>
    <2>1. df = [i \in 1 .. b |-> df[i]] /\ \A l \in 1 .. b : df[l] = <<"drop_flushed", s[l]>>
      OBVIOUS
    <2> HIDE DEF df
    <2> QED
      BY <1>3, <2>1, Mapped
  <1>6. Steps(ce) /\ Len(ce) = b /\ \A l \in 1 .. b : ce[l] = <<"drop_backup", s[l]>>
    <2>1. ce = [i \in 1 .. b |-> ce[i]] /\ \A l \in 1 .. b : ce[l] = <<"drop_backup", s[l]>>
      OBVIOUS
    <2> HIDE DEF ce
    <2> QED
      BY <1>3, <2>1, Mapped
  <1> HIDE DEF ie, df, ce
  <1>7. Joins(ie, df, v)
    BY <1>4, <1>5, Joined
  <1> HIDE DEF v
  <1>8. Steps(v) /\ Len(v) = 3 * b
    BY <1>3, <1>4, <1>5, <1>7 DEF Joins
  <1>9. Joins(v, ce, x)
    BY <1>6, <1>8, Joined
  <1> HIDE DEF x
  <1>10. Steps(x) /\ Len(x) = 4 * b
    BY <1>3, <1>6, <1>8, <1>9 DEF Joins
  <1>0. w = (x \o <<<<"remove_journal", j>>>>) \o <<<<"sweep">>>>
    OBVIOUS
  <1> HIDE DEF w
  <1>11. /\ Steps(w) /\ Len(w) = Len(x) + 2 /\ Placed(w, 0, x)
         /\ w[Len(x) + 1] = <<"remove_journal", j>> /\ w[Len(x) + 2] = <<"sweep">>
         /\ EndOf(j, st) = <<<<"sweep">>>> /\ Len(EndOf(j, st)) = 1 /\ EndOf(j, st)[1] = <<"sweep">>
    <2>1. RecoveryLaidOut(w, x, j, st)
      BY <1>0, <1>10, RecoveryEnd, Zenon
    <2> QED
      BY <2>1 DEF RecoveryLaidOut
  <1>12. \A i \in 1 .. 4 * b : w[0 + i] = x[i]
    BY <1>10, <1>11 DEF Placed
  <1>13. \A i \in 1 .. 3 * b : x[i] = v[i]
    BY <1>8, <1>9 DEF Joins
  <1>14. \A l \in 1 .. b : x[3 * b + l] = ce[l]
    BY <1>6, <1>8, <1>9 DEF Joins
  <1>15. \A i \in 1 .. 2 * b : v[i] = ie[i]
    BY <1>4, <1>7 DEF Joins
  <1>16. \A l \in 1 .. b : v[2 * b + l] = df[l]
    BY <1>4, <1>5, <1>7 DEF Joins
  <1>17. ASSUME NEW l \in 1 .. b
         PROVE  /\ w[0 + 2 * l - 1] = <<"displace", s[l]>> /\ w[0 + 2 * l] = <<"install", s[l]>>
                /\ w[0 + 2 * b + l] = <<"drop_flushed", s[l]>>
                /\ w[0 + 2 * b + b + l] = <<"drop_backup", s[l]>>
    <2>1. /\ 2 * l - 1 \in 1 .. 2 * b /\ 2 * l \in 1 .. 2 * b
          /\ 2 * l - 1 \in 1 .. 3 * b /\ 2 * l \in 1 .. 3 * b /\ 2 * b + l \in 1 .. 3 * b
          /\ 2 * l - 1 \in 1 .. 4 * b /\ 2 * l \in 1 .. 4 * b /\ 2 * b + l \in 1 .. 4 * b
          /\ 3 * b + l \in 1 .. 4 * b
      BY <1>3
    <2>2. /\ 0 + 2 * l - 1 = 0 + (2 * l - 1) /\ 0 + 2 * b + l = 0 + (2 * b + l)
          /\ 0 + 2 * b + b + l = 0 + (3 * b + l)
      BY <1>3
    <2>3. w[0 + 2 * l - 1] = <<"displace", s[l]>> /\ w[0 + 2 * l] = <<"install", s[l]>>
      BY <1>4, <1>12, <1>13, <1>15, <2>1, <2>2
    <2>4. w[0 + 2 * b + l] = <<"drop_flushed", s[l]>>
      <3>1. w[0 + (2 * b + l)] = x[2 * b + l]
        BY <1>12, <2>1
      <3>2. x[2 * b + l] = v[2 * b + l]
        BY <1>13, <2>1
      <3>3. v[2 * b + l] = df[l] /\ df[l] = <<"drop_flushed", s[l]>>
        BY <1>5, <1>16
      <3> QED
        BY <2>2, <3>1, <3>2, <3>3
    <2>5. w[0 + 2 * b + b + l] = <<"drop_backup", s[l]>>
      BY <1>6, <1>12, <1>14, <2>1, <2>2
    <2> QED
      BY <2>3, <2>4, <2>5
  <1>18. ExportsAfter(w, 0, b, j, st)
    <2>1. 0 + 3 * b + b + 1 = Len(x) + 1 /\ Len(w) = 0 + 3 * b + b + 1 + 1
          /\ 0 + 3 * b + b + 1 + 1 = Len(x) + 2
      BY <1>3, <1>10, <1>11
    <2>2. 1 .. 1 = {1}
      OBVIOUS
    <2>3. /\ w[0 + 3 * b + b + 1] = <<"remove_journal", j>>
          /\ Len(w) = 0 + 3 * b + b + 1 + Len(EndOf(j, st))
          /\ \A i \in 1 .. Len(EndOf(j, st)) : w[0 + 3 * b + b + 1 + i] = EndOf(j, st)[i]
      BY <1>11, <2>1, <2>2, Zenon
    <2> QED
      BY <1>17, <2>3, Zenon DEF ExportsAfter, b, s
  <1>19. \A k \in 0 + 2 * b + 1 .. 0 + 2 * b + b : CarryHolds(c, d, m, w, st, k, j, TRUE)
    <2> SUFFICES ASSUME NEW k \in 0 + 2 * b + 1 .. 0 + 2 * b + b
                 PROVE  CarryHolds(c, d, m, w, st, k, j, TRUE)
      BY Zenon
    <2>1. PICK l \in 1 .. b : k = 0 + 2 * b + l
      <3>1. k - (2 * b) \in 1 .. b /\ k = 0 + 2 * b + (k - (2 * b))
        BY <1>3
      <3> QED
        BY <3>1
    <2>2. w[k] = <<"drop_flushed", s[l]>>
      BY <1>17, <2>1
    <2>3. w[k] \in ExportSet /\ w[k][1] = "drop_flushed"
      BY <1>3, <2>2 DEF ExportSet
    <2> QED
      BY Zenon, <2>3 DEF CarryHolds
  <1>20. \A k \in 0 + 1 .. Len(w) : CarryHolds(c, d, m, w, st, k, j, TRUE)
    BY Zenon, <1>3, <1>18, <1>19, ExportCarries DEF b, s
  <1>21. VaultHolds(c, d, m, w, st)
    BY Zenon, <1>11, <1>20, StartCarrying
  <1>22. w # <<>>
    BY <1>3, <1>10, <1>11
  <1> QED
    BY <1>1, <1>21, <1>22 DEF w

\* With a journal, recovery carries it out and then sweeps; without one it only sweeps.
LEMMA StartRecovery ==
    ASSUME NEW c, NEW d, NEW m, NEW was, NEW st, VaultHolds(c, d, m, <<>>, was), Recovers(c, was, st)
    PROVE  /\ \A j \in d.journals : /\ VaultHolds(c, d, m, RecoverySteps(j) \o <<<<"sweep">>>>, st)
                                    /\ RecoverySteps(j) \o <<<<"sweep">>>> # <<>>
           /\ d.journals = {} /\ d.root => VaultHolds(c, d, m, <<<<"sweep">>>>, st)
           /\ ~d.root => VaultHolds(c, d, m, <<>>, "up")
  <1>1. DiskHolds(c, d) /\ d \in DiskType
    BY DEF VaultHolds, DiskHolds
  <1>2. \A j \in d.journals : j \in Journals /\ j.kind \in {"export", "rename", "delete"}
    BY <1>1, JournalKinds DEF DiskType
  <1>3. \A j \in d.journals : /\ VaultHolds(c, d, m, RecoverySteps(j) \o <<<<"sweep">>>>, st)
                             /\ RecoverySteps(j) \o <<<<"sweep">>>> # <<>>
    BY <1>2, StartDeleteRecovery, StartRenameRecovery, StartExportRecovery
  <1>4. ASSUME d.journals = {}
        PROVE  m \in MemType /\ \A p \in Paths : WholeSession(m.docs[p]) /\ Backed(d, m, p)
    BY <1>4 DEF VaultHolds, MemHolds, Settled
  <1>5. ASSUME d.journals = {}, d.root
        PROVE  VaultHolds(c, d, m, <<<<"sweep">>>>, st)
    <2> DEFINE w == <<<<"sweep">>>>
    <2>1. w \in Seq({<<"sweep">>}) /\ Len(w) = 1 /\ w[1] = <<"sweep">>
      OBVIOUS
    <2>2. w \in Seq(Range(w))
      BY Zenon, <2>1, OwnRange
    <2>3. TempsHold(d, w, st)
      BY <1>5 DEF TempsHold
    <2> HIDE DEF w
    <2>4. Finishing(d, m, w, st)
      BY <1>5, <2>1 DEF Finishing, Recovers
    <2>5. MemHolds(d, m, w)
      BY <1>4, <1>5 DEF MemHolds
    <2>6. StatusHolds(c, m, w, st)
      BY <2>2 DEF VaultHolds, StatusHolds, Recovers
    <2>7. VaultHolds(c, d, m, w, st)
      BY <1>1, <2>3, <2>4, <2>5, <2>6 DEF VaultHolds, WorkHolds
    <2> QED
      BY <2>7 DEF w
  <1>6. ASSUME ~d.root
        PROVE  VaultHolds(c, d, m, <<>>, "up")
    <2>1. d.journals = {}
      BY <1>1, <1>6 DEF DiskHolds, JournalsHold
    <2>2. NoTemps(d)
      BY <1>6, <2>1 DEF VaultHolds, TempsHold
    <2> QED
      BY <1>1, <1>4, <2>1, <2>2, Rests
  <1> QED
    BY <1>3, <1>5, <1>6

\* The vault as it is found: the Markdown files and nothing else.
LEMMA FoundDisk ==
    ASSUME NEW c, NEW files \in [Paths -> Texts \cup {NoText}]
    PROVE  DiskHolds(c, [EmptyDisk EXCEPT !.files = files])
  <1> DEFINE d == [EmptyDisk EXCEPT !.files = files]
  <1>1. NoSession \in Session
    BY DEF NoSession, Session
  <1>2. /\ d.files = files /\ d.ids = [p \in Paths |-> NoId] /\ d.sessions = [p \in Paths |-> NoSession]
        /\ d.flushed = [p \in Paths |-> NoDirectory] /\ d.pending = [p \in Paths |-> NoText]
        /\ d.backup = [p \in Paths |-> NoText] /\ d.journals = {} /\ d.root = FALSE /\ d.next_id = 1
    BY DEF EmptyDisk
  <1>3. d \in DiskType
    <2> DEFINE z == [p \in Paths |-> NoText]
               n == [p \in Paths |-> NoId]
               s == [p \in Paths |-> NoSession]
               f == [p \in Paths |-> NoDirectory]
    <2>1. EmptyDisk = [files |-> z, ids |-> n, sessions |-> s, flushed |-> f, pending |-> z,
                       backup |-> z, journals |-> {}, root |-> FALSE, next_id |-> 1]
      BY Zenon DEF EmptyDisk
    <2>2. z \in [Paths -> Texts \cup {NoText}] /\ n \in [Paths -> Nat]
      BY DEF NoId
    <2>3. s \in [Paths -> Session] /\ f \in [Paths -> Texts \cup {NoText, NoDirectory}]
      BY <1>1
    <2> HIDE DEF z, n, s, f
    <2>4. {} \in SUBSET Journals /\ 1 \in Nat \ {0} /\ FALSE \in BOOLEAN
      OBVIOUS
    <2>5. EmptyDisk \in DiskType
      BY <2>1, <2>2, <2>3, <2>4 DEF DiskType
    <2> QED
      BY <2>5 DEF DiskType
  <1> HIDE DEF d
  <1>4. SessionsHold(d)
    <2>1. d.sessions = [p \in Paths |-> NoSession]
      BY <1>2, Zenon
    <2>2. WholeSession(NoSession)
      BY DEF WholeSession, NoSession
    <2> QED
      BY <2>1, <2>2 DEF SessionsHold
  <1>5. JournalsHold(c, d)
    BY <1>2 DEF JournalsHold
  <1>6. IdsHold(d)
    BY <1>2 DEF IdsHold, NoId
  <1>7. FilesHold(c, d)
    BY <1>2 DEF FilesHold, Vacant, NoSession
  <1>8. FlushHolds(c, d)
    BY <1>2 DEF FlushHolds, FlushedSaved, Texts, NoDirectory
  <1> QED
    BY <1>3, <1>4, <1>5, <1>6, <1>7, <1>8 DEF DiskHolds, d

\* A vault of Markdown files and nothing else satisfies the invariant.
LEMMA FoundHolds ==
    ASSUME NEW c, NEW files \in [Paths -> Texts \cup {NoText}]
    PROVE  VaultHolds(c, [EmptyDisk EXCEPT !.files = files], NoMemory, <<>>, "down")
  <1> DEFINE d == [EmptyDisk EXCEPT !.files = files]
  <1>1. DiskHolds(c, d)
    BY FoundDisk
  <1>2. NoTemps(d) /\ d.journals = {}
    BY DEF EmptyDisk, NoTemps
  <1> HIDE DEF d
  <1>3. /\ NoMemory \in MemType
        /\ \A p \in Paths : NoMemory.docs[p] = NoSession /\ NoMemory.ids[p] = NoId
    BY DEF NoMemory, MemType, NoSession, Session, NoId
  <1>4. \A p \in Paths : WholeSession(NoMemory.docs[p]) /\ Backed(d, NoMemory, p)
    <2>1. WholeSession(NoSession) /\ ~NoSession.exists
      BY DEF WholeSession, NoSession
    <2> QED
      BY <1>3, <2>1 DEF Backed
  <1>5. VaultHolds(c, d, NoMemory, <<>>, "up")
    BY <1>1, <1>2, <1>3, <1>4, Rests
  <1>6. VaultHolds(c, d, NoMemory, <<>>, "down")
    BY <1>5, DieHolds
  <1> QED
    BY <1>6 DEF d

-----------------------------------------------------------------------------
(* Exports of several documents.                                            *)

\* The files of export transaction x are all old or all new.
Whole(d, x) ==
    \/ \A p \in x.paths : Committed(d, p).file = x.old[p]
    \/ \A p \in x.paths : Committed(d, p).file = x.new[p]

\* No step of w publishes.
Quiet(w) == \A k \in 1 .. Len(w) : ~Publishes(w[k])

\* The journal of x is the n-th step: by then the pending files are all there.
Ahead(d, w, n, x) ==
    /\ w[n][1] = "write_journal" /\ w[n][2].kind = "export"
    /\ w[n] = <<"write_journal", w[n][2]>> /\ Range(w[n][2].paths) = x.paths
    /\ \A k \in 1 .. Len(w) : k # n => ~Publishes(w[k])
    /\ \A k \in 1 .. n - 1 : \/ w[k] \in {"save"} \X Paths
                             \/ w[k] = <<"make_root">>
                             \/ \E p \in x.paths : w[k] = <<"write_pending", p, x.new[p]>>
    /\ \A p \in x.paths : \/ d.pending[p] = x.new[p]
                          \/ \E k \in 1 .. n - 1 : w[k] = <<"write_pending", p, x.new[p]>>

\* Nothing of x is published yet, and its journal is still to be written.
Unpublished(d, w, x) ==
    /\ d.journals = {}
    /\ \A p \in x.paths : d.files[p] = x.old[p] /\ x.new[p] \in Texts
    /\ \E n \in 1 .. Len(w) : Ahead(d, w, n, x)

\* What is true of the last export transaction, whatever ran or was interrupted since.
TxnHolds(d, w, x) ==
    x.paths # {} => /\ x.paths \subseteq Paths
                    /\ (Whole(d, x) /\ Quiet(w)) \/ Unpublished(d, w, x)

\* A list of steps that publish nothing.
LEMMA QuietList ==
    ASSUME NEW S, \A s \in S : ~Publishes(s), NEW w \in Seq(S)
    PROVE  Quiet(w) /\ Steps(w)
  <1>1. \A k \in 1 .. Len(w) : w[k] \in S
    OBVIOUS
  <1> QED
    BY <1>1, OwnRange DEF Quiet, Steps

\* Lists that publish nothing publish nothing when joined.
LEMMA QuietJoin ==
    ASSUME NEW u, NEW v, Steps(u), Steps(v), Quiet(u), Quiet(v)
    PROVE  Quiet(u \o v)
  <1> DEFINE w == u \o v
  <1>1. Joins(u, v, w)
    BY Joined
  <1> HIDE DEF w
  <1>2. ASSUME NEW k \in 1 .. Len(w)
        PROVE  ~Publishes(w[k])
    <2>1. /\ Len(u) \in Nat /\ Len(v) \in Nat /\ Len(w) = Len(u) + Len(v)
          /\ \A i \in 1 .. Len(u) : w[i] = u[i]
          /\ \A i \in 1 .. Len(v) : w[Len(u) + i] = v[i]
      BY <1>1 DEF Joins
    <2>2. k \in 1 .. Len(u) \/ (k - Len(u) \in 1 .. Len(v) /\ Len(u) + (k - Len(u)) = k)
      BY <2>1
    <2> QED
      BY Zenon, <2>1, <2>2 DEF Quiet
  <1> QED
    BY <1>2 DEF Quiet, w

\* Nor does the rest of such a list.
LEMMA QuietTail ==
    ASSUME NEW w, w \in Seq(Range(w)), w # <<>>, \A k \in 2 .. Len(w) : ~Publishes(w[k])
    PROVE  Quiet(Tail(w)) /\ Steps(Tail(w))
  <1>1. /\ Len(w) \in Nat /\ Len(w) >= 1 /\ Tail(w) \in Seq(Range(w)) /\ Len(Tail(w)) = Len(w) - 1
        /\ \A k \in 1 .. Len(w) - 1 : Tail(w)[k] = w[k + 1]
    BY TailFacts
  <1>2. ASSUME NEW k \in 1 .. Len(Tail(w))
        PROVE  ~Publishes(Tail(w)[k])
    BY <1>1
  <1> QED
    BY Zenon, <1>1, <1>2, OwnRange DEF Quiet, Steps

\* Some record is there for every path.
LEMMA CommittedDoc ==
    ASSUME NEW c, NEW d, DiskHolds(c, d), NEW p \in Paths
    PROVE  \E f, i, h : Committed(d, p) = Doc(f, i, h)
  <1>1. CASE d.journals = {}
    BY <1>1, CommittedQuiet
  <1>2. CASE d.journals # {}
    <2>1. PICK j : d.journals = {j} /\ j \in Journals /\ JournalHolds(c, d, j)
      BY <1>2 DEF DiskType, DiskHolds, JournalsHold
    <2>2. CASE j.kind = "export"
      BY <2>1, <2>2, CommittedExport
    <2>3. CASE j.kind = "rename"
      <3>1. j.from # j.to
        BY <2>1, <2>3 DEF JournalHolds, HalfRenamed
      <3> QED
        BY <2>1, <2>3, <3>1, CommittedRename DEF Nothing
    <2>4. CASE j.kind = "delete"
      BY <2>1, <2>4, CommittedDelete DEF Nothing
    <2> QED
      BY <2>1, <2>2, <2>3, <2>4, JournalKinds
  <1> QED
    BY <1>1, <1>2

\* Saving a session, and giving an identity, leave the files alone.
LEMMA InwardWhole ==
    ASSUME NEW c, NEW d, NEW e, NEW x, DiskHolds(c, d), x.paths \subseteq Paths, Inward(d, e), Whole(d, x)
    PROVE  Whole(e, x)
  <1>1. ASSUME NEW p \in Paths
        PROVE  Committed(e, p).file = Committed(d, p).file
    <2>1. PICK f, i, h : Committed(d, p) = Doc(f, i, h)
      BY CommittedDoc
    <2>2. CASE Kept(d, e)
      BY <2>2 DEF Kept
    <2>3. CASE Grown(d, e)
      <3>1. \/ Committed(e, p) = Committed(d, p)
            \/ \E g \in Histories : Committed(e, p) = [Committed(d, p) EXCEPT !.session = g]
        BY <2>3 DEF Grown
      <3>2. ASSUME NEW g, Committed(e, p) = [Committed(d, p) EXCEPT !.session = g]
            PROVE  Committed(e, p).file = Committed(d, p).file
        <4>1. Committed(e, p) = Doc(f, i, g)
          BY <2>1, <3>2, DocFacts
        <4> QED
          BY <2>1, <4>1, DocFacts
      <3> QED
        BY <3>1, <3>2
    <2>4. CASE Identified(d, e)
      <3>1. \/ Committed(e, p) = Committed(d, p)
            \/ Committed(e, p) = [Committed(d, p) EXCEPT !.id = d.next_id]
        BY <2>4 DEF Identified
      <3>2. CASE Committed(e, p) = [Committed(d, p) EXCEPT !.id = d.next_id]
        <4>1. Committed(e, p) = Doc(f, d.next_id, h)
          BY <2>1, <3>2, DocFacts
        <4> QED
          BY <2>1, <4>1, DocFacts
      <3> QED
        BY <3>1, <3>2
    <2> QED
      BY <2>2, <2>3, <2>4 DEF Inward
  <1> QED
    BY <1>1 DEF Whole

\* The steps there are.
StepKinds ==
    {"identify", "load", "ingest_if_needed", "ingest", "save", "save_edited", "flush",
     "write_file", "make_root", "write_pending", "write_journal", "displace", "install",
     "drop_backup", "drop_flushed", "remove_journal", "sweep", "refuse_two_files",
     "persist_identity", "move_session", "move_flushed", "move_file", "drop_identity",
     "drop_file", "drop_session", "rekey", "forget"}

\* The kinds of steps a call can be at.
LEMMA StepKind ==
    ASSUME NEW c, NEW d, NEW m, NEW w, NEW st, VaultHolds(c, d, m, w, st), w # <<>>
    PROVE  w[1][1] \in StepKinds
  <1>1. w \in Seq(Range(w))
    BY DEF VaultHolds, StatusHolds
  <1>2. 1 \in 1 .. Len(w) /\ Len(w) \in Nat
    BY <1>1, TailFacts
  <1>3. \A s : ~Before(w, 1, s)
    BY DEF Before
  <1>4. CASE Plain(c, d, m, w, st)
    <2>1. w[1] \in PlainSteps
      BY Zenon, <1>2, <1>4 DEF Plain, PlainHolds
    <2> QED
      BY <2>1 DEF PlainSteps, StepKinds
  <1>5. CASE Preparing(c, d, m, w, st)
    <2>1. PICK n \in 1 .. Len(w) :
            /\ w[n][1] = "write_journal"
            /\ \A k \in 1 .. n - 1 : PrepareHolds(d, w, k, n, w[n][2])
      BY <1>5 DEF Preparing
    <2>2. n = 1 \/ 1 \in 1 .. n - 1
      BY <1>2
    <2>3. CASE 1 \in 1 .. n - 1
      BY <2>1, <2>3 DEF PrepareHolds, StepKinds
    <2> QED
      BY <2>1, <2>2, <2>3 DEF StepKinds
  <1>6. CASE Carrying(c, d, m, w, st)
    <2>1. PICK j \in d.journals : CarryHolds(c, d, m, w, st, 1, j, TRUE)
      BY Zenon, <1>2, <1>6 DEF Carrying
    <2>2. \/ w[1] \in ExportSet \/ w[1] \in RenameSet(j) \/ w[1] \in DeleteSet(j)
          \/ w[1] = <<"remove_journal", j>>
      BY Zenon, <1>3, <2>1 DEF CarryHolds
    <2> QED
      BY <2>2 DEF ExportSet, RenameSet, DeleteSet, StepKinds
  <1>7. CASE Finishing(d, m, w, st)
    BY <1>7 DEF Finishing, StepKinds
  <1> QED
    BY <1>4, <1>5, <1>6, <1>7 DEF VaultHolds, WorkHolds, StatusHolds

\* What a step adds to the work of its call never publishes: reading a file is
\* followed by saving the session and recording the file.
LEMMA ThenQuiet ==
    ASSUME NEW d, NEW m, NEW s, s[1] \in StepKinds
    PROVE  Quiet(Run(s, d, m).then) /\ Steps(Run(s, d, m).then)
  <1> DEFINE u == Run(s, d, m).then
             S == {<<"ingest", s[2]>>, <<"save", s[2]>>, <<"flush", s[2], d.files[s[2]]>>}
  <1>6. Quiet(<<>>) /\ Steps(<<>>)
    <2>1. <<>> \in Seq({})
      OBVIOUS
    <2> QED
      BY Zenon, <2>1, QuietList
  <1>1. CASE s[1] \in {"identify", "load", "save", "save_edited", "flush", "write_file"}
    <2>1. u = <<>>
      BY <1>1 DEF Run, Identify, Load, Save, SaveEdited, Flush, WriteFile, Becomes, Fails
    <2> QED
      BY <1>6, <2>1
  <1>2. CASE s[1] \in {"make_root", "write_pending", "write_journal", "displace", "install",
                       "drop_backup", "drop_flushed"}
    <2>1. u = <<>>
      BY <1>2 DEF Run, MakeRoot, WritePending, WriteJournal, Displace, Install, DropBackup,
         DropFlushed, Becomes, Fails
    <2> QED
      BY <1>6, <2>1
  <1>3. CASE s[1] \in {"remove_journal", "sweep", "refuse_two_files", "persist_identity",
                       "move_session", "move_flushed"}
    <2>1. u = <<>>
      BY <1>3 DEF Run, RemoveJournal, Sweep, RefuseTwoFiles, PersistIdentity, MoveSession,
         MoveFlushed, Becomes, Fails
    <2> QED
      BY <1>6, <2>1
  <1>4. CASE s[1] \in {"move_file", "drop_identity", "drop_file", "drop_session", "rekey", "forget"}
    <2>1. u = <<>>
      BY <1>4 DEF Run, MoveFile, DropIdentity, DropFile, DropSession, Rekey, Forget, Becomes, Fails
    <2> QED
      BY <1>6, <2>1
  <1>5. CASE s[1] \in {"ingest_if_needed", "ingest"}
    <2>1. \A z \in S : ~Publishes(z)
      BY DEF Publishes
    <2>2. u \in {<<>>, <<<<"ingest", s[2]>>>>, <<<<"save", s[2]>>>>,
                 <<<<"save", s[2]>>, <<"flush", s[2], d.files[s[2]]>>>>}
      <3>1. Run(s, d, m) \in {IngestIfNeeded(d, m, s[2]), Ingest(d, m, s[2])}
        BY <1>5 DEF Run
      <3> QED
        BY <3>1 DEF IngestIfNeeded, Ingest, Becomes, Fails
    <2>3. u \in Seq(S)
      <3>1. <<"ingest", s[2]>> \in S /\ <<"save", s[2]>> \in S /\ <<"flush", s[2], d.files[s[2]]>> \in S
        OBVIOUS
      <3> HIDE DEF u, S
      <3>2. ASSUME NEW a \in S, NEW b \in S
            PROVE  <<>> \in Seq(S) /\ <<a>> \in Seq(S) /\ <<a, b>> \in Seq(S)
        OBVIOUS
      <3> QED
        BY <2>2, <3>1, <3>2, Zenon
    <2> HIDE DEF u, S
    <2>4. Quiet(u) /\ Steps(u)
      BY <2>1, <2>3, QuietList
    <2> QED
      BY <2>4 DEF u
  <1> QED
    BY <1>1, <1>2, <1>3, <1>4, <1>5 DEF StepKinds

\* The journal publishes the whole of x at once.
LEMMA JournalPublishes ==
    ASSUME NEW d \in DiskType, NEW m, NEW w, NEW x, w \in Seq(Range(w)), w # <<>>,
           d.journals = {}, \A p \in x.paths : x.new[p] \in Texts, Ahead(d, w, 1, x)
    PROVE  /\ Run(w[1], d, m).then = <<>> /\ Whole(Run(w[1], d, m).disk, x)
           /\ Quiet(Tail(w)) /\ Steps(Tail(w))
  <1> DEFINE j == w[1][2]
             r == Run(w[1], d, m)
             e == [d EXCEPT !.journals = @ \cup {j}, !.root = TRUE]
  <1>1. /\ w[1][1] = "write_journal" /\ j.kind = "export" /\ Range(j.paths) = x.paths
        /\ \A k \in 1 .. Len(w) : k # 1 => ~Publishes(w[k])
        /\ \A p \in x.paths : d.pending[p] = x.new[p]
    BY DEF Ahead
  <1>2. r = Becomes(e, m)
    BY <1>1 DEF Run, WriteJournal
  <1>3. r.then = <<>> /\ r.disk = e
    BY <1>2 DEF Becomes
  <1>4. e.journals = {j} /\ e.pending = d.pending
    BY DEF DiskType
  <1> HIDE DEF e, j
  <1>5. ASSUME NEW p \in x.paths
        PROVE  Committed(e, p).file = x.new[p]
    <2>1. d.pending[p] = x.new[p] /\ d.pending[p] # NoText /\ p \in Range(j.paths)
      BY <1>1 DEF Texts, NoText
    <2>2. j.kind = "export" /\ e.journals = {j} /\ e.pending[p] # NoText /\ p \in Range(j.paths)
      BY <1>1, <1>4, <2>1
    <2>3. Committed(e, p) = Doc(e.pending[p], e.ids[p], History(e.sessions[p]))
      BY <2>2, CommittedExport
    <2> QED
      BY <1>4, <2>1, <2>3, DocFacts
  <1>6. Whole(r.disk, x)
    BY <1>3, <1>5 DEF Whole
  <1>7. \A k \in 2 .. Len(w) : ~Publishes(w[k])
    BY <1>1
  <1> QED
    BY <1>3, <1>6, <1>7, QuietTail

\* Before the journal nothing is published, and the pending files are completed.
LEMMA AheadStep ==
    ASSUME NEW d \in DiskType, NEW m, NEW w, NEW x, w \in Seq(Range(w)), w # <<>>,
           x.paths \subseteq Paths, NEW n \in 2 .. Len(w), Ahead(d, w, n, x)
    PROVE  /\ Run(w[1], d, m).then = <<>> /\ n - 1 \in 1 .. Len(Tail(w))
           /\ Run(w[1], d, m).disk.journals = d.journals /\ Run(w[1], d, m).disk.files = d.files
           /\ Ahead(Run(w[1], d, m).disk, Tail(w), n - 1, x)
  <1> DEFINE e == Run(w[1], d, m).disk
  <1>1. /\ Len(w) \in Nat /\ Len(Tail(w)) = Len(w) - 1 /\ n - 1 \in 1 .. Len(Tail(w)) /\ n \in Nat
        /\ 1 \in 1 .. n - 1
        /\ \A k \in 1 .. Len(Tail(w)) : k + 1 \in 2 .. Len(w) /\ Tail(w)[k] = w[k + 1]
    BY TailFacts
  <1>2. /\ w[n][1] = "write_journal" /\ w[n][2].kind = "export"
        /\ w[n] = <<"write_journal", w[n][2]>> /\ Range(w[n][2].paths) = x.paths
        /\ \A k \in 1 .. Len(w) : k # n => ~Publishes(w[k])
        /\ \A k \in 1 .. n - 1 : \/ w[k] \in {"save"} \X Paths
                                 \/ w[k] = <<"make_root">>
                                 \/ \E p \in x.paths : w[k] = <<"write_pending", p, x.new[p]>>
        /\ \A p \in x.paths : \/ d.pending[p] = x.new[p]
                              \/ \E k \in 1 .. n - 1 : w[k] = <<"write_pending", p, x.new[p]>>
    BY DEF Ahead
  <1>3. /\ Run(w[1], d, m).then = <<>> /\ e.journals = d.journals /\ e.files = d.files
        /\ \A p \in x.paths : \/ e.pending[p] = d.pending[p] /\ w[1] # <<"write_pending", p, x.new[p]>>
                              \/ e.pending[p] = x.new[p]
    <2>1. CASE w[1] \in {"save"} \X Paths
      <3>1. Run(w[1], d, m) = Save(d, m, w[1][2])
        BY <2>1 DEF Run
      <3>2. /\ Run(w[1], d, m).then = <<>>
            /\ e.journals = d.journals /\ e.files = d.files /\ e.pending = d.pending
        BY <3>1 DEF Save, Becomes, Fails, DiskType
      <3>3. \A p \in x.paths : w[1] # <<"write_pending", p, x.new[p]>>
        BY <2>1
      <3> QED
        BY <3>2, <3>3
    <2>2. CASE w[1] = <<"make_root">>
      <3> DEFINE z == [d EXCEPT !.root = TRUE]
      <3>1. Run(w[1], d, m) = Becomes(z, m)
        BY <2>2 DEF Run, MakeRoot
      <3>4. z.journals = d.journals /\ z.files = d.files /\ z.pending = d.pending
        BY DEF DiskType
      <3> HIDE DEF z
      <3>2. /\ Run(w[1], d, m).then = <<>>
            /\ e.journals = d.journals /\ e.files = d.files /\ e.pending = d.pending
        BY <3>1, <3>4 DEF Becomes
      <3>3. \A p \in x.paths : w[1] # <<"write_pending", p, x.new[p]>>
        BY <2>2
      <3> QED
        BY <3>2, <3>3
    <2>3. CASE \E p \in x.paths : w[1] = <<"write_pending", p, x.new[p]>>
      <3>4. PICK p \in x.paths : w[1] = <<"write_pending", p, x.new[p]>>
        BY <2>3
      <3> DEFINE z == [d EXCEPT !.pending[p] = x.new[p]]
      <3>1. Run(w[1], d, m) = Becomes(z, m)
        BY <3>4 DEF Run, WritePending
      <3>5. /\ z.journals = d.journals /\ z.files = d.files
            /\ z.pending[p] = x.new[p] /\ \A q \in Paths \ {p} : z.pending[q] = d.pending[q]
        BY DEF DiskType
      <3> HIDE DEF z
      <3>2. /\ Run(w[1], d, m).then = <<>>
            /\ e.journals = d.journals /\ e.files = d.files
            /\ e.pending[p] = x.new[p] /\ \A q \in Paths \ {p} : e.pending[q] = d.pending[q]
        BY <3>1, <3>5 DEF Becomes
      <3>3. \A q \in x.paths : q # p => w[1] # <<"write_pending", q, x.new[q]>>
        BY <3>4
      <3> QED
        BY <3>2, <3>3
    <2> QED
      BY Zenon, <1>1, <1>2, <2>1, <2>2, <2>3
  <1> HIDE DEF e
  <1>4. Tail(w)[n - 1] = w[n]
    BY <1>1
  <1>5. \A k \in 1 .. Len(Tail(w)) : k # n - 1 => ~Publishes(Tail(w)[k])
    BY <1>1, <1>2
  <1>6. ASSUME NEW k \in 1 .. n - 1 - 1
        PROVE  k + 1 \in 1 .. n - 1 /\ Tail(w)[k] = w[k + 1]
    BY <1>1
  <1>7. ASSUME NEW p \in x.paths
        PROVE  \/ e.pending[p] = x.new[p]
               \/ \E k \in 1 .. n - 1 - 1 : Tail(w)[k] = <<"write_pending", p, x.new[p]>>
    <2>1. CASE e.pending[p] = d.pending[p] /\ w[1] # <<"write_pending", p, x.new[p]>>
      <3>1. CASE \E k \in 1 .. n - 1 : w[k] = <<"write_pending", p, x.new[p]>>
        <4>1. PICK k \in 1 .. n - 1 : w[k] = <<"write_pending", p, x.new[p]>>
          BY <3>1
        <4>2. k # 1
          BY <2>1, <4>1
        <4>3. k - 1 \in 1 .. n - 1 - 1 /\ (k - 1) + 1 = k
          BY <1>1, <4>2
        <4>4. Tail(w)[k - 1] = w[k]
          BY <1>6, <4>3
        <4> QED
          BY Zenon, <4>1, <4>3, <4>4
      <3> QED
        BY Zenon, <1>2, <2>1, <3>1
    <2> QED
      BY <1>3, <2>1
  <1>8. /\ Tail(w)[n - 1][1] = "write_journal" /\ Tail(w)[n - 1][2].kind = "export"
        /\ Tail(w)[n - 1] = <<"write_journal", Tail(w)[n - 1][2]>>
        /\ Range(Tail(w)[n - 1][2].paths) = x.paths
    BY <1>2, <1>4
  <1>9. \A k \in 1 .. n - 1 - 1 : \/ Tail(w)[k] \in {"save"} \X Paths
                                  \/ Tail(w)[k] = <<"make_root">>
                                  \/ \E p \in x.paths : Tail(w)[k] = <<"write_pending", p, x.new[p]>>
    BY <1>2, <1>6
  <1>10. Ahead(e, Tail(w), n - 1, x)
    BY <1>5, <1>7, <1>8, <1>9, Zenon DEF Ahead
  <1> QED
    BY <1>1, <1>3, <1>10 DEF e

\* Whatever is left of a call, the files of x are all old or all new.
LEMMA TxnWhole ==
    ASSUME NEW d, NEW w, NEW x, TxnHolds(d, w, x), x.paths # {}
    PROVE  Whole(d, x)
  <1>1. CASE Unpublished(d, w, x)
    <2>1. \A p \in x.paths : Committed(d, p).file = x.old[p]
      BY <1>1, CommittedQuiet, DocFacts DEF Unpublished
    <2> QED
      BY <2>1 DEF Whole
  <1> QED
    BY <1>1 DEF TxnHolds

\* Between calls that is all there is to say, and a call that publishes nothing keeps it.
LEMMA TxnQuietCall ==
    ASSUME NEW d, NEW x, TxnHolds(d, <<>>, x), NEW w, Quiet(w)
    PROVE  TxnHolds(d, w, x)
  BY TxnWhole DEF TxnHolds

\* A call that ends early, with its pending files removed when it is an export.
LEMMA TxnStops ==
    ASSUME NEW c, NEW d, NEW m, NEW w, NEW st, NEW x, VaultHolds(c, d, m, w, st), TxnHolds(d, w, x)
    PROVE  /\ TxnHolds(d, <<>>, x)
           /\ w # <<>> /\ CleansUp(w[1]) => TxnHolds(DropPending(d), <<>>, x)
  <1> SUFFICES ASSUME x.paths # {}
               PROVE  TxnHolds(d, <<>>, x) /\ (w # <<>> /\ CleansUp(w[1]) => TxnHolds(DropPending(d), <<>>, x))
    BY DEF TxnHolds
  <1>1. Quiet(<<>>)
    <2>1. <<>> \in Seq({})
      OBVIOUS
    <2> QED
      BY Zenon, <2>1, QuietList
  <1>2. Whole(d, x) /\ x.paths \subseteq Paths /\ DiskHolds(c, d)
    BY TxnWhole DEF TxnHolds, VaultHolds
  <1>3. ASSUME w # <<>>, CleansUp(w[1])
        PROVE  Whole(DropPending(d), x)
    <2>1. Inward(d, DropPending(d))
      BY <1>3, CleanUpKept DEF Inward
    <2> QED
      BY <1>2, <2>1, InwardWhole
  <1> QED
    BY <1>1, <1>2, <1>3 DEF TxnHolds

\* Recovery publishes nothing that was not committed.
LEMMA RecoveryQuiet ==
    ASSUME NEW c, NEW d, NEW m, NEW w, NEW st, VaultHolds(c, d, m, w, st), st # "up"
    PROVE  Quiet(w)
  <1>1. w \in Seq(Range(w)) /\ d \in DiskType
    BY DEF VaultHolds, StatusHolds, DiskHolds
  <1>2. CASE Carrying(c, d, m, w, st)
    <2>1. PICK j \in d.journals : \A k \in 1 .. Len(w) : CarryHolds(c, d, m, w, st, k, j, TRUE)
      BY Zenon, <1>2 DEF Carrying
    <2>2. j \in Journals
      BY <1>1 DEF DiskType
    <2> QED
      BY Zenon, <1>1, <2>1, <2>2, CarriesQuietly DEF Quiet
  <1>3. CASE Finishing(d, m, w, st)
    <2>1. Len(w) = 1 /\ w[1] = <<"sweep">>
      BY <1>3 DEF Finishing
    <2> QED
      BY <2>1 DEF Quiet, Publishes
  <1>4. CASE w = <<>>
    <2>1. Len(w) = 0
      BY <1>4
    <2> QED
      BY <2>1 DEF Quiet
  <1> QED
    BY Zenon, <1>2, <1>3, <1>4 DEF VaultHolds, WorkHolds, Plain, Preparing

\* A call has one journal, and publishes nothing else when it has one.
LEMMA OneJournal ==
    ASSUME NEW c, NEW d, NEW m, NEW w, NEW st, VaultHolds(c, d, m, w, st), d.journals = {},
           NEW n \in 1 .. Len(w), w[n][1] = "write_journal", NEW k \in 1 .. Len(w), k # n
    PROVE  ~Publishes(w[k])
  <1>1. w \in Seq(Range(w)) /\ Len(w) \in Nat /\ Publishes(w[n])
    BY DEF VaultHolds, StatusHolds, Publishes
  <1>2. ~Plain(c, d, m, w, st)
    <2>1. ASSUME Plain(c, d, m, w, st)
          PROVE  w[n] \in PlainSteps
      BY Zenon, <2>1 DEF Plain, PlainHolds
    <2>2. w[n] \notin PlainSteps
      BY DEF PlainSteps
    <2> QED
      BY <2>1, <2>2
  <1>3. ~Finishing(d, m, w, st)
    <2>1. ASSUME Finishing(d, m, w, st)
          PROVE  FALSE
      <3>1. n = 1 /\ w[1][1] \in {"sweep", "forget", "rekey"}
        BY <2>1 DEF Finishing
      <3> QED
        BY <3>1
    <2> QED
      BY <2>1
  <1>4. w # <<>>
    OBVIOUS
  <1>5. Preparing(c, d, m, w, st)
    BY Zenon, <1>2, <1>3, <1>4 DEF VaultHolds, WorkHolds, Carrying
  <1>6. PICK i \in 1 .. Len(w) :
          /\ w[i] = <<"write_journal", w[i][2]>> /\ w[i][2] \in Journals
          /\ \A l \in 1 .. i - 1 : PrepareHolds(d, w, l, i, w[i][2])
          /\ \A l \in i + 1 .. Len(w) : CarryHolds(c, d, m, w, st, l, w[i][2], FALSE)
    BY Zenon, <1>5 DEF Preparing, JournalReady
  <1>7. ASSUME NEW l \in 1 .. i - 1
        PROVE  ~Publishes(w[l]) /\ w[l][1] # "remove_journal"
    <2>1. PrepareHolds(d, w, l, i, w[i][2])
      BY <1>6
    <2> QED
      BY <2>1 DEF PrepareHolds, Publishes
  <1>8. ASSUME NEW l \in i + 1 .. Len(w)
        PROVE  ~Publishes(w[l])
    <2> DEFINE j == w[i][2]
    <2>3. l \in 1 .. Len(w)
      BY <1>1
    <2>1. l \in 1 .. Len(w) /\ CarryHolds(c, d, m, w, st, l, j, FALSE) /\ j \in Journals
      BY Zenon, <1>6, <2>3
    <2>2. ASSUME NEW z \in 1 .. Len(w), w[z] = <<"remove_journal", j>>
          PROVE  CarryHolds(c, d, m, w, st, z, j, FALSE)
      <3>1. z # i
        BY <1>6, <2>2
      <3>2. z \notin 1 .. i - 1
        BY <1>7, <2>2
      <3>3. z \in i + 1 .. Len(w)
        BY <1>1, <3>1, <3>2
      <3> QED
        BY Zenon, <1>6, <3>3
    <2> HIDE DEF j
    <2> QED
      BY Zenon, <1>1, <2>1, <2>2, CarriesQuietly
  <1>9. \A l \in 1 .. Len(w) : l # i => l \in 1 .. i - 1 \/ l \in i + 1 .. Len(w)
    BY <1>1
  <1>10. n = i
    BY <1>1, <1>7, <1>8, <1>9
  <1> QED
    BY <1>7, <1>8, <1>9, <1>10

\* The export transaction starts.
LEMMA TxnStarts ==
    ASSUME NEW c, NEW d, NEW m, d.journals = {}, NEW all \in Seq(Paths), NEW changed \in Seq(Paths),
           NEW x, x.paths = Range(changed), \A p \in x.paths : d.files[p] = x.old[p] /\ x.new[p] \in Texts,
           VaultHolds(c, d, m, ExportSteps(all, changed, x.new), "up")
    PROVE  TxnHolds(d, ExportSteps(all, changed, x.new), x)
  <1> DEFINE w == ExportSteps(all, changed, x.new)
             a == Len(all)
             b == Len(changed)
             n == a + 1 + b + 1
             j == ExportJournal(changed)
  <1> SUFFICES ASSUME x.paths # {}
               PROVE  x.paths \subseteq Paths /\ \E k \in 1 .. Len(w) : Ahead(d, w, k, x)
    BY DEF TxnHolds, Unpublished
  <1>1. /\ Range(changed) = {changed[l] : l \in 1 .. b} /\ a \in Nat /\ b \in Nat
        /\ Range(changed) \subseteq Paths /\ \A l \in 1 .. a : all[l] \in Paths
    BY DEF Range
  <1>2. changed # <<>>
    BY <1>1
  <1>3. ExportLaidOut(w, all, changed, x.new, 1)
    BY <1>2, ExportLayout
  <1>4. /\ Len(w) = n + 3 * b + 2 * a + 1
        /\ \A l \in 1 .. a : w[l] = <<"save", all[l]>>
        /\ w[a + 1] = <<"make_root">>
        /\ \A l \in 1 .. b : w[a + 1 + l] = <<"write_pending", changed[l], x.new[changed[l]]>>
        /\ w[n] = <<"write_journal", j>>
    BY <1>3, Zenon DEF ExportLaidOut
  <1>5. VaultHolds(c, d, m, w, "up")
    OBVIOUS
  <1> HIDE DEF w, a, b
  <1>6. n \in 1 .. Len(w)
    BY <1>1, <1>4
  <1>7. j.kind = "export" /\ j.paths = changed
    BY DEF ExportJournal
  <1> HIDE DEF j
  <1>8. /\ w[n][1] = "write_journal" /\ w[n][2].kind = "export"
        /\ w[n] = <<"write_journal", w[n][2]>> /\ Range(w[n][2].paths) = x.paths
    BY <1>4, <1>7
  <1>9. \A k \in 1 .. Len(w) : k # n => ~Publishes(w[k])
    BY <1>5, <1>6, <1>8, OneJournal
  <1>10. ASSUME NEW k \in 1 .. n - 1
         PROVE  \/ w[k] \in {"save"} \X Paths
                \/ w[k] = <<"make_root">>
                \/ \E p \in x.paths : w[k] = <<"write_pending", p, x.new[p]>>
    <2>1. \/ k \in 1 .. a \/ k = a + 1
          \/ k - (a + 1) \in 1 .. b /\ k = a + 1 + (k - (a + 1))
      BY <1>1
    <2>2. CASE k \in 1 .. a
      <3>1. w[k] = <<"save", all[k]>> /\ all[k] \in Paths
        BY Zenon, <1>1, <1>4, <2>2
      <3> QED
        BY <3>1
    <2>3. CASE k - (a + 1) \in 1 .. b /\ k = a + 1 + (k - (a + 1))
      <3>1. PICK l \in 1 .. b : k = a + 1 + l
        BY <2>3
      <3>2. w[k] = <<"write_pending", changed[l], x.new[changed[l]]>> /\ changed[l] \in x.paths
        BY Zenon, <1>1, <1>4, <3>1
      <3> QED
        BY <3>2
    <2> QED
      BY <1>4, <2>1, <2>2, <2>3
  <1>11. ASSUME NEW p \in x.paths
         PROVE  \E k \in 1 .. n - 1 : w[k] = <<"write_pending", p, x.new[p]>>
    <2>1. PICK l \in 1 .. b : p = changed[l]
      BY <1>1
    <2>2. a + 1 + l \in 1 .. n - 1
      BY <1>1
    <2> QED
      BY <1>4, <2>1, <2>2
  <1> HIDE DEF n
  <1>12. Ahead(d, w, n, x)
    BY Zenon, <1>8, <1>9, <1>10, <1>11 DEF Ahead
  <1> QED
    BY <1>1, <1>6, <1>12

-----------------------------------------------------------------------------
(* The documents, as the abstract vault has them.                           *)

Store(d) == [p \in Paths |-> Committed(d, p)]

\* From disk d to disk e at most one thing happens to the documents.
Evolves(d, e) ==
    Kept(d, e) \/ Published(d, e) \/ Grown(d, e) \/ Identified(d, e) \/ Moved(d, e) \/ Deleted(d, e)

\* Files that get new texts are published.
LEMMA StorePublished ==
    ASSUME NEW d, NEW e, Published(d, e)
    PROVE  \E S \in SUBSET Paths : \E f \in [S -> Texts] :
              Store(e) = [p \in Paths |-> IF p \in S THEN [Store(d)[p] EXCEPT !.file = f[p]]
                                                     ELSE Store(d)[p]]
  <1> DEFINE S == {p \in Paths : Committed(e, p) # Committed(d, p)}
             f == [p \in S |-> CHOOSE t \in Texts : Committed(e, p) = [Committed(d, p) EXCEPT !.file = t]]
  <1>1. ASSUME NEW p \in S
        PROVE  f[p] \in Texts /\ Committed(e, p) = [Committed(d, p) EXCEPT !.file = f[p]]
    <2>1. \E t \in Texts : Committed(e, p) = [Committed(d, p) EXCEPT !.file = t]
      BY DEF Published
    <2>2. f[p] = CHOOSE t \in Texts : Committed(e, p) = [Committed(d, p) EXCEPT !.file = t]
      OBVIOUS
    <2> QED
      BY <2>1, <2>2
  <1>2. S \in SUBSET Paths /\ f \in [S -> Texts]
    BY <1>1
  <1>3. \A p \in Paths \ S : Committed(e, p) = Committed(d, p)
    OBVIOUS
  <1> HIDE DEF S, f
  <1>4. Store(e) = [p \in Paths |-> IF p \in S THEN [Store(d)[p] EXCEPT !.file = f[p]]
                                               ELSE Store(d)[p]]
    BY <1>1, <1>3 DEF Store
  <1> QED
    BY Zenon, <1>2, <1>4

\* What happens to one document happens to one place of the store.
LEMMA StoreOne ==
    ASSUME NEW d, NEW e, NEW p \in Paths, NEW x, Committed(e, p) = x,
           \A q \in Paths \ {p} : Committed(e, q) = Committed(d, q)
    PROVE  Store(e) = [Store(d) EXCEPT ![p] = x]
  BY Zenon DEF Store
=============================================================================
