------------------------- MODULE VaultCommitProofs -------------------------
(***************************************************************************)
(* Every step of every call keeps VaultHolds: those before a journal, its   *)
(* writing, those after it, a step that fails, another program's write; and *)
(* the journal is what commits a call.                                      *)
(***************************************************************************)
EXTENDS VaultJournalProofs

-----------------------------------------------------------------------------
(* The steps before the journal.                                            *)

\* The running call is about to write journal j, with its n-th step.
Prepares(c, d, m, w, n, j) ==
    /\ VaultHolds(c, d, m, w, "up") /\ d.journals = {}
    /\ n \in 1 .. Len(w) /\ w[n] = <<"write_journal", j>>
    /\ JournalReady(c, d, m, w, n, j)
    /\ \A k \in 1 .. n - 1 : PrepareHolds(d, w, k, n, j)
    /\ \A k \in n + 1 .. Len(w) : CarryHolds(c, d, m, w, "up", k, j, FALSE)

\* What is true while a journal is prepared.
LEMMA PrepareFacts ==
    ASSUME NEW c, NEW d, NEW m, NEW w, NEW n, NEW j, Prepares(c, d, m, w, n, j)
    PROVE  /\ d \in DiskType /\ m \in MemType /\ w \in Seq(Range(w)) /\ w # <<>>
           /\ Len(w) \in Nat /\ n \in Nat /\ n >= 1 /\ n <= Len(w) /\ DiskHolds(c, d)
           /\ \A p \in Paths : WholeSession(m.docs[p]) /\ Backed(d, m, p)
           /\ n > 1 => PrepareHolds(d, w, 1, n, j)
           /\ NoTemps(d) \/ (d.root /\ CleansUp(w[1]) /\ \A p \in Paths : d.backup[p] = NoText)
           /\ \A s : ~Before(w, 1, s)
           /\ \A how, p : ~Writes(w, 1, how, p)
  <1>1. /\ d \in DiskType /\ m \in MemType /\ w \in Seq(Range(w)) /\ d.journals = {}
        /\ DiskHolds(c, d) /\ TempsHold(d, w, "up") /\ MemHolds(d, m, w) /\ n \in 1 .. Len(w)
    BY DEF Prepares, VaultHolds, DiskHolds, MemHolds, StatusHolds
  <1>2. Len(w) \in Nat /\ n \in Nat /\ n >= 1 /\ n <= Len(w) /\ w # <<>>
    BY <1>1
  <1>3. Head(w) = w[1]
    BY <1>1, <1>2
  <1>4. n > 1 => PrepareHolds(d, w, 1, n, j)
    BY <1>2 DEF Prepares
  <1>5. n = 1 => w[1] = <<"write_journal", j>>
    BY DEF Prepares
  <1>6. w[1][1] \in {"save", "make_root", "write_pending", "write_journal"}
    BY <1>2, <1>4, <1>5 DEF PrepareHolds
  <1>7. \A p \in Paths : Settled(d, w, p)
    BY <1>1, <1>3, <1>6 DEF Settled
  <1>8. \A p \in Paths : WholeSession(m.docs[p]) /\ Backed(d, m, p)
    BY <1>1, <1>7 DEF MemHolds
  <1>9. w # <<<<"sweep">>>>
    BY <1>6
  <1>10. NoTemps(d) \/ (d.root /\ CleansUp(w[1]) /\ \A p \in Paths : d.backup[p] = NoText)
    BY <1>1, <1>3, <1>9 DEF TempsHold
  <1>11. (\A s : ~Before(w, 1, s)) /\ (\A how, p : ~Writes(w, 1, how, p))
    BY DEF Before, Writes
  <1> QED
    BY <1>1, <1>2, <1>4, <1>8, <1>10, <1>11

\* A step before the journal leaves what the journal and the others rely on.
Readies(c, d, m, w, j, e) ==
    /\ Run(w[1], d, m) = Becomes(e, m)
    /\ DiskHolds(c, e) /\ e.journals = {}
    /\ \A p \in Paths : Backed(e, m, p)
    /\ Saves(w[1], d, m, e)
    /\ j.kind = "rename" => e.files = d.files /\ (Rekeyable(d, m, j) => Rekeyable(e, m, j))
    /\ \A p \in Paths : d.pending[p] # NoText \/ (w[1][1] = "write_pending" /\ w[1][2] = p) =>
                           e.pending[p] # NoText
    /\ j.kind = "export" => \A p \in Paths : e.pending[p] # NoText => p \in Range(j.paths)
    /\ d.root \/ w[1] = <<"make_root">> => e.root
    /\ NoTemps(e) \/ (e.root /\ CleansUp(w[2]) /\ \A p \in Paths : e.backup[p] = NoText)

\* A step that prepares a journal keeps the invariant.
LEMMA PrepareDone ==
    ASSUME NEW c, NEW d, NEW m, NEW w, NEW n, NEW j, NEW e, Prepares(c, d, m, w, n, j),
           n # 1, w[1][1] \in {"save", "make_root", "write_pending"}, Readies(c, d, m, w, j, e)
    PROVE  Outcome(c, d, m, w, "up")
  <1> DEFINE v == Tail(w)
  <1>1. /\ m \in MemType /\ w \in Seq(Range(w)) /\ w # <<>>
        /\ Len(w) \in Nat /\ n \in Nat /\ n >= 1 /\ n <= Len(w)
        /\ \A p \in Paths : WholeSession(m.docs[p])
    BY PrepareFacts
  <1>2. j \in Journals /\ JournalReady(c, d, m, w, n, j)
    BY DEF Prepares, JournalReady
  <1>3. /\ v \in Seq(Range(v)) /\ Len(v) = Len(w) - 1
        /\ \A k \in 1 .. Len(v) : k + 1 \in 2 .. Len(w) /\ v[k] = w[k + 1]
    BY <1>1, TailFacts
  <1>4. \A k \in 1 .. Len(v) : \A s : Before(w, k + 1, s) => w[1] = s \/ Before(v, k, s)
    BY <1>1, BeforeTail
  <1>5. \A k \in 1 .. Len(v) : \A how, p :
           Writes(w, k + 1, how, p) => (w[1][1] = how /\ w[1][2] = p) \/ Writes(v, k, how, p)
    BY <1>1, WritesTail
  <1>6. n - 1 \in 1 .. Len(v) /\ (n - 1) + 1 = n /\ v[n - 1] = w[n] /\ v[1] = w[2]
    BY <1>1, <1>3
  <1> HIDE DEF v
  <1>7. JournalReady(c, e, m, v, n - 1, j)
    <2>1. ASSUME j.kind = "export", NEW p \in Range(j.paths)
          PROVE  e.pending[p] # NoText \/ Writes(v, n - 1, "write_pending", p)
      <3>1. p \in Paths
        BY <1>2, <2>1, JournalKinds
      <3>2. d.pending[p] # NoText \/ Writes(w, (n - 1) + 1, "write_pending", p)
        BY <1>2, <1>6, <2>1 DEF JournalReady
      <3>3. \/ d.pending[p] # NoText
            \/ w[1][1] = "write_pending" /\ w[1][2] = p
            \/ Writes(v, n - 1, "write_pending", p)
        BY <1>5, <1>6, <3>2
      <3> QED
        BY <3>1, <3>3 DEF Readies
    <2> QED
      BY <1>2, <2>1 DEF JournalReady, Readies
  <1>8. ASSUME NEW k \in 1 .. (n - 1) - 1
        PROVE  PrepareHolds(e, v, k, n - 1, j)
    <2>1. /\ k \in 1 .. Len(v) /\ k + 1 \in 1 .. Len(v) /\ k + 1 \in 1 .. n - 1
          /\ v[k] = w[k + 1] /\ v[k + 1] = w[(k + 1) + 1]
      BY <1>1, <1>3
    <2>2. PrepareHolds(d, w, k + 1, n, j)
      BY <2>1 DEF Prepares
    <2>3. d.root \/ Before(w, k + 1, <<"make_root">>) => e.root \/ Before(v, k, <<"make_root">>)
      BY <1>4, <2>1 DEF Readies
    <2>4. (k + 1) + 1 = n => k + 1 = n - 1
      BY <1>1
    <2> QED
      BY <2>1, <2>2, <2>3, <2>4 DEF PrepareHolds
  <1>9. ASSUME NEW k \in (n - 1) + 1 .. Len(v)
        PROVE  CarryHolds(c, e, m, v, "up", k, j, FALSE)
    <2>1. k \in 1 .. Len(v) /\ k + 1 \in n + 1 .. Len(w)
      BY <1>1, <1>3
    <2>2. CarryHolds(c, d, m, w, "up", k + 1, j, FALSE)
      BY Zenon, <2>1 DEF Prepares
    <2>3. Advances(w[1], d, e, j, FALSE, FALSE) /\ w[1] # <<"remove_journal", j>>
      BY DEF Advances
    <2>4. /\ Saves(w[1], d, m, e)
          /\ j.kind = "rename" /\ Rekeyable(d, m, j) => Rekeyable(e, m, j)
      BY DEF Readies
    <2> QED
      BY Zenon, <1>1, <1>2, <2>1, <2>2, <2>3, <2>4, CarryTail DEF v
  <1>10. Preparing(c, e, m, v, "up")
    <2>1. w[n] = <<"write_journal", j>> /\ e.journals = {}
      BY DEF Prepares, Readies
    <2>2. PICK l \in 1 .. Len(v) : l = n - 1
      BY <1>6
    <2>3. v[l] = <<"write_journal", j>> /\ v[l][1] = "write_journal" /\ v[l][2] = j
      BY <1>6, <2>1, <2>2
    <2>4. JournalReady(c, e, m, v, l, v[l][2])
      BY <1>7, <2>2, <2>3
    <2>5. \A k \in 1 .. l - 1 : PrepareHolds(e, v, k, l, v[l][2])
      BY <1>8, <2>2, <2>3
    <2>6. \A k \in l + 1 .. Len(v) : CarryHolds(c, e, m, v, "up", k, v[l][2], FALSE)
      BY Zenon, <1>9, <2>2, <2>3
    <2> QED
      BY Zenon, <2>1, <2>3, <2>4, <2>5, <2>6 DEF Preparing
  <1>11. MemHolds(e, m, v)
    BY <1>1 DEF MemHolds, Readies
  <1>12. TempsHold(e, v, "up")
    <2>1. v # <<>> /\ Head(v) = v[1]
      BY <1>3, <1>6
    <2> QED
      BY <1>6, <2>1 DEF TempsHold, Readies
  <1>13. StatusHolds(c, m, v, "up")
    BY <1>3 DEF StatusHolds
  <1>14. VaultHolds(c, e, m, v, "up")
    BY <1>10, <1>11, <1>12, <1>13 DEF VaultHolds, WorkHolds, Readies
  <1>15. Run(w[1], d, m) = Becomes(e, m)
    BY DEF Readies
  <1> QED
    BY <1>1, <1>14, <1>15, Taken DEF v

\* A document that is renamed has a file, and the new path has nothing.
LEMMA RenameReady ==
    ASSUME NEW c, NEW d, NEW m, NEW w, NEW n, NEW j, Prepares(c, d, m, w, n, j), Coherent(c),
           j.kind = "rename"
    PROVE  /\ j \in Journals /\ j.from \in Paths /\ j.to \in Paths /\ j.id \in Nat \ {0}
           /\ j.from # j.to /\ "rename" \in c /\ m.docs[j.from].exists /\ m.ids[j.from] = j.id
           /\ d.files[j.to] = NoText /\ Vacant(d, j.to) /\ d.files[j.from] # NoText
           /\ d.ids[j.from] = j.id /\ d.sessions[j.from].exists
  <1>1. JournalReady(c, d, m, w, n, j) /\ d.journals = {}
    BY DEF Prepares
  <1>2. /\ j \in Journals /\ "rename" \in c /\ j.from # j.to /\ d.files[j.to] = NoText
        /\ m.docs[j.from].exists /\ m.ids[j.from] = j.id
    BY <1>1 DEF JournalReady
  <1>3. j.from \in Paths /\ j.to \in Paths /\ j.id \in Nat \ {0}
    BY <1>2, JournalKinds
  <1>4. DiskHolds(c, d) /\ \A p \in Paths : WholeSession(m.docs[p]) /\ Backed(d, m, p)
    BY PrepareFacts
  <1>5. \A p \in Paths : d.files[p] = NoText => Vacant(d, p)
    BY <1>1, <1>2, <1>4 DEF DiskHolds, FilesHold, Coherent
  <1>6. d.ids[j.from] = j.id /\ d.sessions[j.from].exists
    BY <1>2, <1>3, <1>4 DEF Backed, NoId
  <1>7. d.files[j.from] # NoText
    BY <1>3, <1>5, <1>6 DEF Vacant, NoId
  <1> QED
    BY <1>2, <1>3, <1>5, <1>6, <1>7

\* The session of a document to be exported or renamed is saved.
LEMMA PrepareSave ==
    ASSUME NEW c, NEW d, NEW m, NEW w, NEW n, NEW j, Prepares(c, d, m, w, n, j), Coherent(c),
           n # 1, NEW p \in Paths, w[1] = <<"save", p>>
    PROVE  Outcome(c, d, m, w, "up")
  <1>1. Run(w[1], d, m) = Save(d, m, p)
    BY DEF Run
  <1>2. /\ d \in DiskType /\ m \in MemType /\ DiskHolds(c, d)
        /\ \A q \in Paths : WholeSession(m.docs[q]) /\ Backed(d, m, q)
    BY PrepareFacts
  <1>3. NoTemps(d) /\ d.journals = {}
    <2>1. NoTemps(d) \/ CleansUp(w[1])
      BY PrepareFacts
    <2>2. ~CleansUp(w[1])
      BY DEF CleansUp
    <2> QED
      BY <2>1, <2>2 DEF Prepares
  <1>4. CASE ~m.docs[p].exists
    BY <1>1, <1>4, Refused DEF Save, MayFail, CleansUp
  <1>5. CASE m.docs[p].exists
    <2> DEFINE e == [d EXCEPT !.sessions[p] = m.docs[p]]
    <2>1. /\ e.files = d.files /\ e.ids = d.ids /\ e.pending = d.pending /\ e.backup = d.backup
          /\ e.journals = {} /\ e.root = d.root
          /\ \A q \in Paths : e.sessions[q] = IF q = p THEN m.docs[p] ELSE d.sessions[q]
      BY <1>2, <1>3 DEF DiskType
    <2>2. m.docs[p] \in Session /\ d.sessions[p].seen \subseteq m.docs[p].seen /\ d.ids[p] # NoId
      BY <1>2, <1>5 DEF MemType, Backed
    <2>3. DiskHolds(c, e)
      BY <1>2, <1>3, <1>5, <2>2, DiskSession
    <2>4. Run(w[1], d, m) = Becomes(e, m)
      BY <1>1, <1>5 DEF Save
    <2> HIDE DEF e
    <2>5. \A q \in Paths : Backed(e, m, q)
      BY <1>2, <1>5, <2>1 DEF Backed
    <2>6. Saves(w[1], d, m, e)
      BY <2>1, <2>2 DEF Saves
    <2>7. j.kind = "rename" /\ Rekeyable(d, m, j) => Rekeyable(e, m, j)
      <3>1. SUFFICES ASSUME j.kind = "rename", Rekeyable(d, m, j)
                     PROVE  Rekeyable(e, m, j)
        OBVIOUS
      <3>2. j.from \in Paths /\ j.to \in Paths /\ j.from # j.to /\ Vacant(d, j.to)
        BY <3>1, RenameReady
      <3>3. p # j.to
        BY <2>2, <3>2 DEF Vacant
      <3> QED
        BY <2>1, <3>1, <3>2, <3>3 DEF Rekeyable
    <2>8. NoTemps(e) /\ \A q \in Paths : d.pending[q] = NoText /\ e.pending[q] = NoText
      BY <1>3, <2>1 DEF NoTemps
    <2>9. Readies(c, d, m, w, j, e)
      BY <2>1, <2>3, <2>4, <2>5, <2>6, <2>7, <2>8 DEF Readies
    <2> QED
      BY <2>9, PrepareDone
  <1> QED
    BY <1>4, <1>5

\* The transactions directory is created.
LEMMA PrepareRoot ==
    ASSUME NEW c, NEW d, NEW m, NEW w, NEW n, NEW j, Prepares(c, d, m, w, n, j),
           n # 1, w[1] = <<"make_root">>
    PROVE  Outcome(c, d, m, w, "up")
  <1> DEFINE e == [d EXCEPT !.root = TRUE]
  <1>1. Run(w[1], d, m) = Becomes(e, m)
    BY DEF Run, MakeRoot
  <1>2. /\ d \in DiskType /\ DiskHolds(c, d)
        /\ \A q \in Paths : WholeSession(m.docs[q]) /\ Backed(d, m, q)
    BY PrepareFacts
  <1>3. NoTemps(d) /\ d.journals = {}
    <2>1. NoTemps(d) \/ CleansUp(w[1])
      BY PrepareFacts
    <2>2. ~CleansUp(w[1])
      BY DEF CleansUp
    <2> QED
      BY <2>1, <2>2 DEF Prepares
  <1>4. /\ e \in DiskType /\ e.files = d.files /\ e.ids = d.ids /\ e.flushed = d.flushed
        /\ e.pending = d.pending /\ e.backup = d.backup /\ e.root
        /\ e.journals = {} /\ e.sessions = d.sessions /\ e.next_id = d.next_id
    BY Zenon, <1>2, <1>3 DEF DiskType
  <1> HIDE DEF e
  <1>5. DiskHolds(c, e)
    BY <1>2, <1>3, <1>4, DiskTemporaries
  <1>6. \A q \in Paths : Backed(e, m, q)
    BY <1>2, <1>4 DEF Backed
  <1>7. Saves(w[1], d, m, e) /\ (Rekeyable(d, m, j) => Rekeyable(e, m, j))
    BY <1>4 DEF Saves, Rekeyable
  <1>8. NoTemps(e) /\ \A q \in Paths : d.pending[q] = NoText /\ e.pending[q] = NoText
    BY <1>3, <1>4 DEF NoTemps
  <1>9. Readies(c, d, m, w, j, e)
    BY <1>1, <1>4, <1>5, <1>6, <1>7, <1>8 DEF Readies
  <1> QED
    BY <1>9, PrepareDone

\* A pending file is written beside its target.
LEMMA PreparePending ==
    ASSUME NEW c, NEW d, NEW m, NEW w, NEW n, NEW j, Prepares(c, d, m, w, n, j),
           n # 1, NEW p \in Paths, NEW t \in Texts, w[1] = <<"write_pending", p, t>>
    PROVE  Outcome(c, d, m, w, "up")
  <1> DEFINE e == [d EXCEPT !.pending[p] = t]
  <1>1. Run(w[1], d, m) = Becomes(e, m)
    BY DEF Run, WritePending
  <1>2. /\ d \in DiskType /\ DiskHolds(c, d) /\ n \in Nat /\ n >= 1
        /\ \A q \in Paths : WholeSession(m.docs[q]) /\ Backed(d, m, q)
        /\ n > 1 => PrepareHolds(d, w, 1, n, j)
        /\ \A s : ~Before(w, 1, s)
    BY PrepareFacts
  <1>3. d.journals = {} /\ w[n] = <<"write_journal", j>> /\ JournalReady(c, d, m, w, n, j)
    BY DEF Prepares
  <1>4. NoTemps(d) \/ \A q \in Paths : d.backup[q] = NoText
    BY PrepareFacts
  <1>5. PrepareHolds(d, w, 1, n, j)
    BY <1>2
  <1>6. /\ j.kind = "export" /\ p \in Range(j.paths) /\ d.root
        /\ 1 + 1 = n \/ w[1 + 1][1] = "write_pending"
    BY <1>2, <1>5 DEF PrepareHolds
  <1>7. CleansUp(w[2])
    BY <1>2, <1>3, <1>6 DEF CleansUp
  <1>8. /\ e \in DiskType /\ e.files = d.files /\ e.ids = d.ids /\ e.flushed = d.flushed
        /\ e.backup = d.backup /\ e.root = d.root
        /\ e.journals = {} /\ e.sessions = d.sessions /\ e.next_id = d.next_id
        /\ \A q \in Paths : e.pending[q] = IF q = p THEN t ELSE d.pending[q]
    BY <1>2, <1>3 DEF DiskType
  <1>9. t # NoText
    BY VaultDiskAssumption DEF Texts, NoText
  <1> HIDE DEF e
  <1>10. DiskHolds(c, e)
    BY <1>2, <1>3, <1>8, DiskTemporaries
  <1>11. \A q \in Paths : Backed(e, m, q)
    BY <1>2, <1>8 DEF Backed
  <1>12. Saves(w[1], d, m, e)
    BY <1>8 DEF Saves
  <1>13. \A q \in Paths : e.backup[q] = NoText
    BY <1>4, <1>8 DEF NoTemps
  <1>14. \A q \in Paths : e.pending[q] # NoText => q \in Range(j.paths)
    BY <1>3, <1>6, <1>8 DEF JournalReady
  <1>15. Readies(c, d, m, w, j, e)
    BY <1>1, <1>6, <1>7, <1>8, <1>9, <1>10, <1>11, <1>12, <1>13, <1>14 DEF Readies
  <1> QED
    BY <1>15, PrepareDone

\* The journal is written when the disk is as it says.
LEMMA PrepareJournal ==
    ASSUME NEW c, NEW d, NEW m, NEW w, NEW j, Prepares(c, d, m, w, 1, j), Coherent(c)
    PROVE  Outcome(c, d, m, w, "up")
  <1> DEFINE e == [d EXCEPT !.journals = @ \cup {j}, !.root = TRUE]
             v == Tail(w)
  <1>1. w[1] = <<"write_journal", j>> /\ d.journals = {} /\ JournalReady(c, d, m, w, 1, j)
    BY DEF Prepares
  <1>2. /\ d \in DiskType /\ m \in MemType /\ w \in Seq(Range(w)) /\ w # <<>>
        /\ Len(w) \in Nat /\ DiskHolds(c, d)
        /\ \A p \in Paths : WholeSession(m.docs[p]) /\ Backed(d, m, p)
        /\ NoTemps(d) \/ (d.root /\ CleansUp(w[1]) /\ \A p \in Paths : d.backup[p] = NoText)
        /\ \A how, p : ~Writes(w, 1, how, p)
    BY PrepareFacts
  <1>3. Run(w[1], d, m) = Becomes(e, m)
    BY <1>1 DEF Run, WriteJournal
  <1>4. j \in Journals
    BY <1>1 DEF JournalReady
  <1>5. j.kind # "export" => NoTemps(d)
    BY <1>1, <1>2 DEF CleansUp
  <1>6. JournalHolds(c, d, j)
    <2>1. CASE j.kind = "export"
      <3>1. \A p \in Paths : d.backup[p] = NoText
        BY <1>2 DEF NoTemps
      <3>2. HalfExported(d, j)
        BY <1>1, <1>2, <2>1, <3>1 DEF HalfExported, JournalReady
      <3> QED
        BY <2>1, <3>2 DEF JournalHolds
    <2>2. CASE j.kind = "rename"
      <3>1. /\ j.from \in Paths /\ j.to \in Paths /\ j.id \in Nat \ {0}
            /\ j.from # j.to /\ "rename" \in c
            /\ d.files[j.to] = NoText /\ Vacant(d, j.to) /\ d.files[j.from] # NoText
            /\ d.ids[j.from] = j.id /\ d.sessions[j.from].exists
        BY <2>2, RenameReady
      <3>2. j.id < d.next_id /\ \A q \in Paths \ {j.from, j.to} : d.ids[q] # j.id
        BY <1>1, <1>2, <3>1 DEF DiskHolds, IdsHold, NoId
      <3>3. HalfRenamed(d, j)
        BY Zenon, <3>1, <3>2 DEF HalfRenamed, Vacant
      <3> QED
        BY <1>5, <2>2, <3>1, <3>3 DEF JournalHolds
    <2>3. CASE j.kind = "delete"
      BY <1>1, <1>5, <2>3 DEF JournalHolds, JournalReady
    <2> QED
      BY <1>4, <2>1, <2>2, <2>3, JournalKinds
  <1>7. DiskHolds(c, e)
    BY Zenon, <1>1, <1>2, <1>4, <1>6, DiskJournal
  <1>8. e.journals = {j} /\ e.sessions = d.sessions /\ e.ids = d.ids
    BY <1>1, <1>2 DEF DiskType
  <1>9. v \in Seq(Range(v)) /\ Len(v) \in Nat /\ \A k \in 1 .. Len(v) : k + 1 \in 1 + 1 .. Len(w)
    BY <1>2, TailFacts
  <1> HIDE DEF e
  <1>10. ASSUME NEW k \in 1 .. Len(v)
         PROVE  CarryHolds(c, e, m, v, "up", k, j, TRUE)
    <2>1. CarryHolds(c, d, m, w, "up", k + 1, j, FALSE)
      BY Zenon, <1>9 DEF Prepares
    <2>2. Advances(w[1], d, e, j, FALSE, TRUE) /\ w[1] # <<"remove_journal", j>>
      BY <1>1 DEF Advances
    <2>3. Saves(w[1], d, m, e) /\ (Rekeyable(d, m, j) => Rekeyable(e, m, j))
      BY <1>1, <1>8 DEF Saves, Rekeyable
    <2> QED
      BY Zenon, <1>2, <1>4, <2>1, <2>2, <2>3, CarryTail
  <1> HIDE DEF v
  <1>11. Carrying(c, e, m, v, "up")
    BY Zenon, <1>8, <1>10 DEF Carrying
  <1>12. MemHolds(e, m, v)
    BY <1>2, <1>8 DEF MemHolds, Backed
  <1>13. TempsHold(e, v, "up") /\ StatusHolds(c, m, v, "up")
    BY <1>8, <1>9 DEF TempsHold, StatusHolds
  <1>14. VaultHolds(c, e, m, v, "up")
    BY <1>7, <1>11, <1>12, <1>13 DEF VaultHolds, WorkHolds
  <1> QED
    BY <1>2, <1>3, <1>14, Taken DEF v

\* Every step of a call up to its journal.
LEMMA PrepareStep ==
    ASSUME NEW c, NEW d, NEW m, NEW w, VaultHolds(c, d, m, w, "up"), Coherent(c),
           Preparing(c, d, m, w, "up")
    PROVE  Outcome(c, d, m, w, "up")
  <1>1. PICK n \in 1 .. Len(w) : Prepares(c, d, m, w, n, w[n][2])
    BY Zenon DEF Preparing, Prepares
  <1> DEFINE j == w[n][2]
  <1> HIDE DEF j
  <1>2. Prepares(c, d, m, w, n, j)
    BY <1>1 DEF j
  <1>3. CASE n = 1
    BY <1>2, <1>3, PrepareJournal
  <1>4. CASE n # 1
    <2>1. n > 1 => PrepareHolds(d, w, 1, n, j)
      BY <1>2, PrepareFacts
    <2>2. n \in Nat /\ n >= 1
      BY <1>2, PrepareFacts
    <2>3. PrepareHolds(d, w, 1, n, j)
      BY <1>4, <2>1, <2>2
    <2>4. CASE w[1] \in {"save"} \X Paths
      <3>1. PICK p \in Paths : w[1] = <<"save", p>>
        BY <2>4
      <3> QED
        BY <1>2, <1>4, <3>1, PrepareSave
    <2>5. CASE w[1] = <<"make_root">>
      BY <1>2, <1>4, <2>5, PrepareRoot
    <2>6. CASE w[1] \in {"write_pending"} \X Paths \X Texts
      <3>1. PICK p \in Paths, t \in Texts : w[1] = <<"write_pending", p, t>>
        BY <2>6
      <3> QED
        BY <1>2, <1>4, <3>1, PreparePending
    <2> QED
      BY <2>3, <2>4, <2>5, <2>6 DEF PrepareHolds
  <1> QED
    BY <1>3, <1>4
-----------------------------------------------------------------------------
(* The ends of calls, errors, crashes and other programs.                   *)

\* What is true of the one step a call takes after its journal is gone.
LEMMA FinishFacts ==
    ASSUME NEW c, NEW d, NEW m, NEW w, NEW st, VaultHolds(c, d, m, w, st), Finishing(d, m, w, st)
    PROVE  /\ d \in DiskType /\ m \in MemType /\ DiskHolds(c, d) /\ d.journals = {}
           /\ w \in Seq(Range(w)) /\ Len(w) = 1 /\ w # <<>> /\ Tail(w) = <<>>
           /\ \A p \in Paths : WholeSession(m.docs[p])
           /\ \A p \in Paths : /\ w[1][1] = "rekey" => p \notin {w[1][2], w[1][3]}
                               /\ w[1][1] = "forget" => p # w[1][2]
                               => Backed(d, m, p)
           /\ w[1] # <<"sweep">> /\ ~CleansUp(w[1]) /\ st = "up" => NoTemps(d)
  <1>1. /\ d \in DiskType /\ m \in MemType /\ DiskHolds(c, d) /\ d.journals = {}
        /\ w \in Seq(Range(w)) /\ Len(w) = 1 /\ TempsHold(d, w, st) /\ MemHolds(d, m, w)
    BY DEF VaultHolds, DiskHolds, MemHolds, StatusHolds, Finishing
  <1>2. w # <<>> /\ Tail(w) = <<>> /\ Head(w) = w[1]
    <2>1. w # <<>>
      BY <1>1
    <2>2. Tail(w) \in Seq(Range(Tail(w))) /\ Len(Tail(w)) = Len(w) - 1 /\ Head(w) = w[1]
      BY <1>1, <2>1, TailFacts
    <2>3. Len(Tail(w)) = 0
      BY <1>1, <2>2
    <2>4. ASSUME NEW v, v \in Seq(Range(v)), Len(v) = 0
          PROVE  v = <<>>
      BY <2>4
    <2> QED
      BY Zenon, <2>1, <2>2, <2>3, <2>4
  <1>3. w = <<<<"sweep">>>> => w[1] = <<"sweep">>
    OBVIOUS
  <1>4. w[1] # <<"sweep">> /\ ~CleansUp(w[1]) /\ st = "up" => NoTemps(d)
    BY <1>1, <1>2, <1>3 DEF TempsHold
  <1>5. \A p \in Paths : /\ w[1][1] = "rekey" => p \notin {w[1][2], w[1][3]}
                         /\ w[1][1] = "forget" => p # w[1][2]
                         => Backed(d, m, p)
    BY <1>1, <1>2 DEF MemHolds, Settled
  <1> QED
    BY <1>1, <1>2, <1>4, <1>5 DEF MemHolds

\* The temporaries that no journal asks for are removed.
LEMMA FinishSweep ==
    ASSUME NEW c, NEW d, NEW m, NEW w, NEW st, VaultHolds(c, d, m, w, st), Finishing(d, m, w, st),
           w[1] = <<"sweep">>
    PROVE  Outcome(c, d, m, w, st)
  <1> DEFINE none == [p \in Paths |-> NoText]
             e == [[d EXCEPT !.pending = none] EXCEPT !.backup = none]
  <1>1. /\ d \in DiskType /\ m \in MemType /\ DiskHolds(c, d) /\ d.journals = {}
        /\ w \in Seq(Range(w)) /\ w # <<>> /\ Tail(w) = <<>>
        /\ \A p \in Paths : WholeSession(m.docs[p]) /\ Backed(d, m, p)
    BY FinishFacts
  <1>2. Run(w[1], d, m) = Becomes(e, m)
    BY DEF Run, Sweep, DropPending
  <1>3. none \in [Paths -> Texts \cup {NoText}] /\ \A p \in Paths : none[p] = NoText
    OBVIOUS
  <1> HIDE DEF none
  <1>4. /\ e \in DiskType /\ e.files = d.files /\ e.ids = d.ids /\ e.flushed = d.flushed
        /\ e.pending = none /\ e.backup = none /\ e.root = d.root
        /\ e.journals = {} /\ e.sessions = d.sessions /\ e.next_id = d.next_id
    BY Zenon, <1>1, <1>3 DEF DiskType
  <1> HIDE DEF e
  <1>5. DiskHolds(c, e)
    BY Zenon, <1>1, <1>4, DiskTemporaries
  <1>6. NoTemps(e)
    BY <1>3, <1>4 DEF NoTemps
  <1>7. \A p \in Paths : WholeSession(m.docs[p]) /\ Backed(e, m, p)
    BY <1>1, <1>4 DEF Backed
  <1>8. VaultHolds(c, e, m, <<>>, "up")
    BY <1>1, <1>4, <1>5, <1>6, <1>7, Rests
  <1> QED
    BY Zenon, <1>1, <1>2, <1>8, Taken

\* A deleted document leaves the memory.
LEMMA FinishForget ==
    ASSUME NEW c, NEW d, NEW m, NEW w, VaultHolds(c, d, m, w, "up"), Finishing(d, m, w, "up"),
           NEW p \in Paths, w[1] = <<"forget", p>>
    PROVE  Outcome(c, d, m, w, "up")
  <1> DEFINE n == [docs |-> [m.docs EXCEPT ![p] = NoSession], ids |-> [m.ids EXCEPT ![p] = NoId]]
  <1>1. /\ d \in DiskType /\ m \in MemType /\ DiskHolds(c, d) /\ d.journals = {}
        /\ w \in Seq(Range(w)) /\ w # <<>> /\ Tail(w) = <<>>
        /\ \A q \in Paths : WholeSession(m.docs[q]) /\ (q # p => Backed(d, m, q))
    BY FinishFacts
  <1>2. NoTemps(d)
    BY FinishFacts DEF CleansUp
  <1>3. Run(w[1], d, m) = Becomes(d, n)
    BY DEF Run, Forget
  <1>4. NoSession \in Session /\ WholeSession(NoSession) /\ ~NoSession.exists
    BY DEF Session, NoSession, WholeSession
  <1>5. /\ n \in MemType
        /\ \A q \in Paths : /\ n.docs[q] = IF q = p THEN NoSession ELSE m.docs[q]
                            /\ n.ids[q] = IF q = p THEN NoId ELSE m.ids[q]
    BY <1>1, <1>4 DEF MemType, NoId
  <1> HIDE DEF n
  <1>6. \A q \in Paths : WholeSession(n.docs[q]) /\ Backed(d, n, q)
    BY <1>1, <1>4, <1>5 DEF Backed
  <1>7. VaultHolds(c, d, n, <<>>, "up")
    BY <1>1, <1>2, <1>5, <1>6, Rests
  <1> QED
    BY Zenon, <1>1, <1>3, <1>7, Taken

\* A renamed document is found in memory at its new path.
LEMMA FinishRekey ==
    ASSUME NEW c, NEW d, NEW m, NEW w, VaultHolds(c, d, m, w, "up"), Finishing(d, m, w, "up"),
           NEW from \in Paths, NEW to \in Paths, w[1] = <<"rekey", from, to, d.ids[to]>>,
           from # to, m.docs[from].exists, d.sessions[to].seen \subseteq m.docs[from].seen,
           d.ids[to] # NoId, d.sessions[to].exists
    PROVE  Outcome(c, d, m, w, "up")
  <1> DEFINE n == [docs |-> [m.docs EXCEPT ![from] = NoSession, ![to] = m.docs[from]],
                   ids  |-> [m.ids EXCEPT ![from] = NoId, ![to] = d.ids[to]]]
  <1>1. /\ d \in DiskType /\ m \in MemType /\ DiskHolds(c, d) /\ d.journals = {}
        /\ w \in Seq(Range(w)) /\ w # <<>> /\ Tail(w) = <<>>
        /\ \A q \in Paths : WholeSession(m.docs[q]) /\ (q \notin {from, to} => Backed(d, m, q))
    BY FinishFacts
  <1>2. NoTemps(d)
    BY FinishFacts DEF CleansUp
  <1>3. Run(w[1], d, m) = Becomes(d, n)
    BY DEF Run, Rekey
  <1>4. NoSession \in Session /\ WholeSession(NoSession) /\ ~NoSession.exists
    BY DEF Session, NoSession, WholeSession
  <1>5. /\ n \in MemType
        /\ n.docs[from] = NoSession /\ n.docs[to] = m.docs[from]
        /\ n.ids[from] = NoId /\ n.ids[to] = d.ids[to]
        /\ \A q \in Paths \ {from, to} : n.docs[q] = m.docs[q] /\ n.ids[q] = m.ids[q]
    BY Zenon, <1>1, <1>4 DEF MemType, DiskType, NoId
  <1> HIDE DEF n
  <1>6. \A q \in Paths : WholeSession(n.docs[q]) /\ Backed(d, n, q)
    BY <1>1, <1>4, <1>5 DEF Backed
  <1>7. VaultHolds(c, d, n, <<>>, "up")
    BY <1>1, <1>2, <1>5, <1>6, Rests
  <1> QED
    BY Zenon, <1>1, <1>3, <1>7, Taken

\* Every step of every call.
LEMMA StepHolds ==
    ASSUME NEW c, NEW d, NEW m, NEW w, NEW st, VaultHolds(c, d, m, w, st), Coherent(c), w # <<>>
    PROVE  Outcome(c, d, m, w, st)
  <1>1. CASE Plain(c, d, m, w, st)
    BY <1>1, PlainStep DEF Plain
  <1>2. CASE Preparing(c, d, m, w, st)
    BY Zenon, <1>2, PrepareStep DEF Preparing
  <1>3. CASE Carrying(c, d, m, w, st)
    BY <1>3, CarryStep
  <1>4. CASE Finishing(d, m, w, st)
    <2>1. CASE w[1] = <<"sweep">>
      BY <1>4, <2>1, FinishSweep
    <2>2. CASE st = "up" /\ \E p \in Paths : w[1] = <<"forget", p>>
      BY <1>4, <2>2, FinishForget
    <2>3. CASE /\ st = "up"
               /\ \E from, to \in Paths :
                     /\ w[1] = <<"rekey", from, to, d.ids[to]>> /\ from # to
                     /\ m.docs[from].exists /\ d.sessions[to].seen \subseteq m.docs[from].seen
                     /\ d.ids[to] # NoId /\ d.sessions[to].exists
      BY <1>4, <2>3, FinishRekey
    <2> QED
      BY <1>4, <2>1, <2>2, <2>3 DEF Finishing
  <1> QED
    BY <1>1, <1>2, <1>3, <1>4 DEF VaultHolds, WorkHolds

\* No step of a plain call has pending files to clean up.
LEMMA PlainSpares ==
    ASSUME NEW s \in PlainSteps
    PROVE  ~CleansUp(s)
  <1>1. s[1] \notin {"write_pending", "write_journal"}
    BY DEF PlainSteps
  <1> QED
    BY Zenon, <1>1 DEF CleansUp

\* A step that fails ends the call; the export's pending files go with it.
LEMMA AbortHolds ==
    ASSUME NEW c, NEW d, NEW m, NEW w, NEW st, VaultHolds(c, d, m, w, st), w # <<>>, MayFail(w[1])
    PROVE  VaultHolds(c, IF CleansUp(w[1]) THEN DropPending(d) ELSE d, m, <<>>,
                      IF st = "opening" THEN "down" ELSE "up")
  <1>0. Plain(c, d, m, w, st) => /\ st = "up" /\ w[1] \in PlainSteps
    BY Zenon, PlainFacts DEF Plain
  <1>1. CASE Plain(c, d, m, w, st)
    <2>1. st = "up" /\ Plain(c, d, m, w, "up") /\ ~CleansUp(w[1])
      <3>1. st = "up" /\ w[1] \in PlainSteps
        BY Zenon, <1>0, <1>1
      <3>2. ~CleansUp(w[1])
        BY Zenon, <3>1, PlainSpares
      <3> QED
        BY Zenon, <1>1, <3>1, <3>2
    <2>2. /\ m \in MemType /\ d.journals = {} /\ NoTemps(d)
          /\ \A p \in Paths : WholeSession(m.docs[p]) /\ Backed(d, m, p)
      BY <2>1, PlainFacts
    <2>3. VaultHolds(c, d, m, <<>>, "up")
      BY <2>2, Rests DEF VaultHolds
    <2> QED
      BY <2>1, <2>3
  <1>2. CASE Preparing(c, d, m, w, st)
    <2>1. st = "up"
      BY <1>2 DEF Preparing
    <2>2. PICK n \in 1 .. Len(w) : Prepares(c, d, m, w, n, w[n][2])
      BY Zenon, <1>2, <2>1 DEF Preparing, Prepares
    <2>3. /\ d \in DiskType /\ m \in MemType /\ DiskHolds(c, d)
          /\ \A p \in Paths : WholeSession(m.docs[p]) /\ Backed(d, m, p)
          /\ NoTemps(d) \/ (d.root /\ CleansUp(w[1]) /\ \A p \in Paths : d.backup[p] = NoText)
      BY <2>2, PrepareFacts
    <2>4. d.journals = {}
      BY <1>2 DEF Preparing
    <2>5. CASE ~CleansUp(w[1])
      <3>1. VaultHolds(c, d, m, <<>>, "up")
        BY <2>3, <2>4, <2>5, Rests
      <3> QED
        BY <2>1, <2>5, <3>1
    <2>6. CASE CleansUp(w[1])
      <3> DEFINE none == [p \in Paths |-> NoText]
                 e == [d EXCEPT !.pending = none]
      <3>1. none \in [Paths -> Texts \cup {NoText}] /\ \A p \in Paths : none[p] = NoText
        OBVIOUS
      <3>2. DropPending(d) = e
        BY DEF DropPending
      <3> HIDE DEF none
      <3>3. /\ e \in DiskType /\ e.files = d.files /\ e.ids = d.ids /\ e.flushed = d.flushed
            /\ e.pending = none /\ e.backup = d.backup /\ e.root = d.root
            /\ e.journals = {} /\ e.sessions = d.sessions /\ e.next_id = d.next_id
        BY Zenon, <2>3, <2>4, <3>1 DEF DiskType
      <3> HIDE DEF e
      <3>4. DiskHolds(c, e)
        BY Zenon, <2>3, <2>4, <3>3, DiskTemporaries
      <3>5. NoTemps(e)
        BY <2>3, <3>1, <3>3 DEF NoTemps
      <3>6. \A p \in Paths : WholeSession(m.docs[p]) /\ Backed(e, m, p)
        BY <2>3, <3>3 DEF Backed
      <3>7. VaultHolds(c, e, m, <<>>, "up")
        BY <2>3, <3>3, <3>4, <3>5, <3>6, Rests
      <3> QED
        BY <2>1, <2>6, <3>2, <3>7
    <2> QED
      BY <2>5, <2>6
  <1>3. CASE Carrying(c, d, m, w, st)
    <2> DEFINE sv == IF st = "opening" THEN "down" ELSE "up"
    <2>1. PICK j \in d.journals : Carries(c, d, m, w, st, j)
      BY Zenon, <1>3 DEF Carrying, Carries
    <2>2. /\ CarryHolds(c, d, m, w, st, 1, j, TRUE) /\ \A s : ~Before(w, 1, s)
          /\ m \in MemType /\ DiskHolds(c, d)
          /\ \A p \in Paths : WholeSession(m.docs[p]) /\ (Settled(d, w, p) => Backed(d, m, p))
      BY Zenon, <2>1, CarryFacts
    <2>3. ~CleansUp(w[1])
      <3>1. \/ w[1] \in ExportSet \/ w[1] \in RenameSet(j) \/ w[1] \in DeleteSet(j)
            \/ w[1] = <<"remove_journal", j>>
        BY Zenon, <2>2 DEF CarryHolds
      <3>2. w[1] \in ExportSet => w[1][1] \notin {"write_pending", "write_journal"}
        BY DEF ExportSet
      <3>3. w[1] \in RenameSet(j) => w[1][1] \notin {"write_pending", "write_journal"}
        BY DEF RenameSet
      <3>4. w[1] \in DeleteSet(j) => w[1][1] \notin {"write_pending", "write_journal"}
        BY DEF DeleteSet
      <3> QED
        BY <3>1, <3>2, <3>3, <3>4 DEF CleansUp
    <2>4. Len(<<>>) = 0 /\ <<>> \in Seq({})
      OBVIOUS
    <2>5. <<>> \in Seq(Range(<<>>))
      BY <2>4, OwnRange
    <2>6. Carrying(c, d, m, <<>>, sv)
      BY <2>1, <2>4 DEF Carrying
    <2>7. MemHolds(d, m, <<>>)
      BY <2>1, <2>2 DEF MemHolds, Settled
    <2>8. TempsHold(d, <<>>, sv)
      BY <2>1 DEF TempsHold
    <2>9. StatusHolds(c, m, <<>>, sv)
      BY <2>5 DEF VaultHolds, StatusHolds
    <2>10. VaultHolds(c, d, m, <<>>, sv)
      BY <2>2, <2>6, <2>7, <2>8, <2>9 DEF VaultHolds, WorkHolds
    <2> QED
      BY <2>3, <2>10
  <1>4. CASE Finishing(d, m, w, st)
    BY <1>4 DEF Finishing, MayFail
  <1> QED
    BY <1>1, <1>2, <1>3, <1>4 DEF VaultHolds, WorkHolds

\* Another program saves a file that is there.
LEMMA ExternalHolds ==
    ASSUME NEW c, NEW d, NEW m, NEW w, NEW st, VaultHolds(c, d, m, w, st),
           NEW p \in Paths, NEW t \in Texts, d.files[p] # NoText
    PROVE  VaultHolds(c, [d EXCEPT !.files[p] = t], m, w, st)
  <1> DEFINE e == [d EXCEPT !.files[p] = t]
  <1>1. d \in DiskType /\ DiskHolds(c, d)
    BY DEF VaultHolds, DiskHolds
  <1>2. DiskHolds(c, e)
    BY <1>1, DiskFile
  <1>3. t # NoText
    BY VaultDiskAssumption DEF Texts, NoText
  <1>4. /\ e.ids = d.ids /\ e.sessions = d.sessions /\ e.flushed = d.flushed
        /\ e.pending = d.pending /\ e.backup = d.backup /\ e.journals = d.journals
        /\ e.root = d.root /\ e.next_id = d.next_id
        /\ \A q \in Paths : e.files[q] = NoText <=> d.files[q] = NoText
    BY <1>1, <1>3 DEF DiskType
  <1> HIDE DEF e
  <1>5. MemHolds(e, m, w)
    BY <1>4 DEF VaultHolds, MemHolds, Settled, Backed
  <1>6. TempsHold(e, w, st)
    BY <1>4 DEF VaultHolds, TempsHold, NoTemps
  <1>7. \A k, q, x : FlushBacked(c, d, m, w, k, q, x) <=> FlushBacked(c, e, m, w, k, q, x)
    BY <1>4 DEF FlushBacked
  <1>8. ASSUME NEW k, NEW j \in Journals, NEW a \in BOOLEAN, CarryHolds(c, d, m, w, st, k, j, a)
        PROVE  CarryHolds(c, e, m, w, st, k, j, a)
    <2>1. Removable(d, w, k, j, a) => Removable(e, w, k, j, a)
      <3>1. CASE j.kind = "export"
        BY Zenon, <1>4, <3>1 DEF Removable
      <3>2. CASE j.kind = "rename"
        <4>1. j.from \in Paths
          BY <3>2, JournalKinds
        <4> QED
          BY Zenon, <1>4, <3>2, <4>1 DEF Removable
      <3>3. CASE j.kind = "delete"
        <4>1. j.path \in Paths
          BY <3>3, JournalKinds
        <4> QED
          BY Zenon, <1>4, <3>3, <4>1 DEF Removable
      <3> QED
        BY <3>1, <3>2, <3>3, JournalKinds
    <2>2. Rekeyable(d, m, j) => Rekeyable(e, m, j)
      BY <1>4 DEF Rekeyable
    <2> QED
      BY Zenon, <1>4, <1>7, <1>8, <2>1, <2>2 DEF CarryHolds
  <1>9. Plain(c, d, m, w, st) => Plain(c, e, m, w, st)
    <2>1. ASSUME NEW k, PlainHolds(c, d, m, w, k)
          PROVE  PlainHolds(c, e, m, w, k)
      <3>1. w[k] \in PlainSteps
        BY Zenon, <2>1 DEF PlainHolds
      <3>2. w[k][1] = "identify" => w[k][2] \in Paths
        BY <3>1 DEF PlainSteps
      <3> QED
        BY Zenon, <1>4, <1>7, <2>1, <3>2 DEF PlainHolds
    <2> QED
      BY <1>4, <2>1 DEF Plain
  <1>10. Preparing(c, d, m, w, st) => Preparing(c, e, m, w, st)
    <2>1. ASSUME NEW n, NEW j, JournalReady(c, d, m, w, n, j)
          PROVE  j \in Journals /\ JournalReady(c, e, m, w, n, j)
      <3>1. j \in Journals
        BY <2>1 DEF JournalReady
      <3>2. j.kind = "rename" => j.to \in Paths
        BY <3>1, JournalKinds
      <3> QED
        BY <1>4, <2>1, <3>1, <3>2 DEF JournalReady
    <2>2. \A k, n, j : PrepareHolds(d, w, k, n, j) => PrepareHolds(e, w, k, n, j)
      BY <1>4 DEF PrepareHolds
    <2> QED
      BY Zenon, <1>4, <1>8, <2>1, <2>2 DEF Preparing
  <1>11. Carrying(c, d, m, w, st) => Carrying(c, e, m, w, st)
    <2>1. \A j \in d.journals : j \in Journals
      BY <1>1 DEF DiskType
    <2> QED
      BY Zenon, <1>4, <1>8, <2>1 DEF Carrying
  <1>12. Finishing(d, m, w, st) => Finishing(e, m, w, st)
    BY <1>4 DEF Finishing
  <1> QED
    BY <1>2, <1>5, <1>6, <1>9, <1>10, <1>11, <1>12 DEF VaultHolds, WorkHolds, e

\* Steps that carry out an export: the file shown is the pending one until it is
\* installed, and then the installed one.
LEMMA ExportKept ==
    ASSUME NEW d, NEW e, NEW j, d.journals = {j}, e.journals = {j}, j.kind = "export",
           e.next_id = d.next_id, e.ids = d.ids, e.sessions = d.sessions,
           \A p \in Paths :
               (IF p \in Range(j.paths) /\ e.pending[p] # NoText THEN e.pending[p] ELSE e.files[p])
               = IF p \in Range(j.paths) /\ d.pending[p] # NoText THEN d.pending[p] ELSE d.files[p]
    PROVE  Kept(d, e)
  <1>1. \A p \in Paths : Committed(e, p) = Committed(d, p)
    BY CommittedExport
  <1> QED
    BY <1>1 DEF Kept

\* Once its journal is written an export changes no document any more.
LEMMA ExportCommits ==
    ASSUME NEW c, NEW d, NEW m, NEW w, NEW st, NEW j, Carries(c, d, m, w, st, j), j.kind = "export"
    PROVE  Commits(d, m, w)
  <1> DEFINE r == Run(w[1], d, m)
  <1>1. /\ d \in DiskType /\ m \in MemType /\ d.journals = {j} /\ Range(j.paths) \subseteq Paths
        /\ \A p \in Paths : Backed(d, m, p)
    BY ExportFacts
  <1>2. CarryHolds(c, d, m, w, st, 1, j, TRUE) /\ \A s : ~Before(w, 1, s)
    BY Zenon, CarryFacts
  <1>3. \/ w[1] = <<"remove_journal", j>>
        \/ w[1] \in ExportSet /\ (w[1][1] \in {"displace", "install"} => w[1][2] \in Range(j.paths))
    BY Zenon, <1>2 DEF CarryHolds
  <1>4. ASSUME NEW e, r.disk = e, w[1][1] \notin {"write_file", "write_journal"},
               e.journals = {j}, e.next_id = d.next_id, e.ids = d.ids, e.sessions = d.sessions,
               \A p \in Paths :
                   (IF p \in Range(j.paths) /\ e.pending[p] # NoText THEN e.pending[p] ELSE e.files[p])
                   = IF p \in Range(j.paths) /\ d.pending[p] # NoText THEN d.pending[p] ELSE d.files[p]
        PROVE  Commits(d, m, w)
    <2>1. Kept(d, e)
      BY <1>1, <1>4, ExportKept
    <2> QED
      BY <1>4, <2>1, InwardCommits DEF Inward
  <1>5. ASSUME r.disk = d, w[1][1] \notin {"write_file", "write_journal"}
        PROVE  Commits(d, m, w)
    BY <1>1, <1>4, <1>5
  <1>6. ASSUME NEW p \in Range(j.paths), w[1] = <<"displace", p>>
        PROVE  Commits(d, m, w)
    <2>1. r = Displace(d, m, p) /\ w[1][1] = "displace"
      BY <1>6 DEF Run
    <2>2. CASE d.pending[p] = NoText
      BY <1>5, <2>1, <2>2 DEF Displace, Becomes
    <2>3. CASE d.pending[p] # NoText
      <3> DEFINE b == IF d.backup[p] = NoText THEN d.files[p] ELSE d.backup[p]
                 e == [d EXCEPT !.files[p] = NoText, !.backup[p] = b]
      <3>1. r.disk = e
        BY <1>1, <2>1, <2>3 DEF Displace, Becomes, DiskType
      <3>2. /\ e.journals = {j} /\ e.next_id = d.next_id /\ e.ids = d.ids /\ e.sessions = d.sessions
            /\ e.pending = d.pending /\ \A q \in Paths \ {p} : e.files[q] = d.files[q]
        BY <1>1 DEF DiskType
      <3> HIDE DEF e
      <3> QED
        BY <1>4, <2>1, <2>3, <3>1, <3>2
    <2> QED
      BY <2>2, <2>3
  <1>7. ASSUME NEW p \in Range(j.paths), w[1] = <<"install", p>>
        PROVE  Commits(d, m, w)
    <2>1. r = Install(d, m, p) /\ w[1][1] = "install"
      BY <1>7 DEF Run
    <2>2. CASE d.pending[p] = NoText
      BY <1>5, <2>1, <2>2 DEF Install, Becomes, Fails
    <2>3. CASE d.pending[p] # NoText
      <3> DEFINE e == [d EXCEPT !.files[p] = d.pending[p], !.pending[p] = NoText]
      <3>1. r.disk = e
        BY <2>1, <2>3 DEF Install, Becomes
      <3>2. /\ e.journals = {j} /\ e.next_id = d.next_id /\ e.ids = d.ids /\ e.sessions = d.sessions
            /\ e.files[p] = d.pending[p] /\ e.pending[p] = NoText
            /\ \A q \in Paths \ {p} : e.files[q] = d.files[q] /\ e.pending[q] = d.pending[q]
        BY <1>1 DEF DiskType
      <3> HIDE DEF e
      <3> QED
        BY <1>4, <2>1, <2>3, <3>1, <3>2
    <2> QED
      BY <2>2, <2>3
  <1>8. ASSUME NEW p \in Paths, w[1] = <<"drop_backup", p>>
        PROVE  Commits(d, m, w)
    <2> DEFINE e == [d EXCEPT !.backup[p] = NoText]
    <2>1. r = Becomes(e, m) /\ w[1][1] = "drop_backup"
      BY <1>8 DEF Run, DropBackup
    <2>2. /\ e.journals = {j} /\ e.next_id = d.next_id /\ e.ids = d.ids /\ e.sessions = d.sessions
          /\ e.files = d.files /\ e.pending = d.pending
      BY <1>1 DEF DiskType
    <2> HIDE DEF e
    <2>3. r.disk = e
      BY <2>1 DEF Becomes
    <2> QED
      BY <1>4, <2>1, <2>2, <2>3
  <1>9. ASSUME NEW p \in Paths, NEW t,
               (w[1] = <<"drop_flushed", p>> /\ t = NoDirectory) \/ w[1] = <<"flush", p, t>>
        PROVE  Commits(d, m, w)
    <2> DEFINE e == [d EXCEPT !.flushed[p] = t]
    <2>1. r = Becomes(e, m)
      <3>1. CASE w[1] = <<"drop_flushed", p>> /\ t = NoDirectory
        <4>1. r = DropFlushed(d, m, p)
          BY <3>1 DEF Run
        <4> QED
          BY <3>1, <4>1 DEF DropFlushed
      <3>2. CASE w[1] = <<"flush", p, t>>
        <4>1. r = Flush(d, m, p, t)
          BY <3>2 DEF Run
        <4> QED
          BY <4>1 DEF Flush
      <3> QED
        BY <1>9, <3>1, <3>2
    <2>2. /\ e.journals = {j} /\ e.next_id = d.next_id /\ e.ids = d.ids /\ e.sessions = d.sessions
          /\ e.files = d.files /\ e.pending = d.pending
      BY <1>1 DEF DiskType
    <2> HIDE DEF e
    <2>3. r.disk = e
      BY <2>1 DEF Becomes
    <2>4. w[1][1] \in {"drop_flushed", "flush"}
      BY <1>9
    <2> QED
      BY <1>4, <2>2, <2>3, <2>4
  <1>10. ASSUME NEW p \in Paths, w[1] = <<"save", p>>
         PROVE  Commits(d, m, w)
    BY <1>1, <1>10, PlainSaveCommits
  <1>11. ASSUME w[1] = <<"remove_journal", j>>
         PROVE  Commits(d, m, w)
    <2> DEFINE e == [d EXCEPT !.journals = @ \ {j}]
    <2>1. r = Becomes(e, m)
      BY <1>11 DEF Run, RemoveJournal
    <2>2. /\ e.journals = {} /\ e.next_id = d.next_id /\ e.ids = d.ids /\ e.sessions = d.sessions
          /\ e.files = d.files
      BY <1>1 DEF DiskType
    <2> HIDE DEF e
    <2>9. Done(d, m, st, j)
      BY <1>11, RemoveFacts
    <2>3. \A p \in Range(j.paths) : d.pending[p] = NoText
      BY <2>9 DEF Done
    <2>4. \A p \in Paths : Committed(d, p) = Doc(d.files[p], d.ids[p], History(d.sessions[p]))
      BY <1>1, <2>3, CommittedExport
    <2>5. Kept(d, e)
      BY <2>2, <2>4, CommittedQuiet DEF Kept
    <2>6. r.disk = e
      BY <2>1 DEF Becomes
    <2>7. w[1][1] = "remove_journal"
      BY <1>11
    <2> QED
      BY <2>5, <2>6, <2>7, InwardCommits DEF Inward
  <1>12. w[1] # <<"remove_journal", j>> =>
           \/ \E p \in Range(j.paths) : w[1] = <<"displace", p>> \/ w[1] = <<"install", p>>
           \/ \E p \in Paths : w[1] \in {<<"drop_backup", p>>, <<"drop_flushed", p>>, <<"save", p>>}
           \/ \E p \in Paths, t \in Texts : w[1] = <<"flush", p, t>>
    BY <1>3 DEF ExportSet
  <1> QED
    BY <1>6, <1>7, <1>8, <1>9, <1>10, <1>11, <1>12

\* Steps that carry out a rename: the document is the one at the new path, made of
\* what is at either.
MovingFile(d, j) == IF d.files[j.from] # NoText THEN d.files[j.from] ELSE d.files[j.to]
MovingHistory(d, j) ==
    IF d.sessions[j.to].exists THEN History(d.sessions[j.to]) ELSE History(d.sessions[j.from])

\* The documents while a rename is under way: it counts as done.
LEMMA MovingDocument ==
    ASSUME NEW d, NEW j, d.journals = {j}, j.kind = "rename", j.from # j.to
    PROVE  /\ Committed(d, j.to) = Doc(MovingFile(d, j), j.id, MovingHistory(d, j))
           /\ Committed(d, j.from) = Nothing
           /\ \A p \in Paths \ {j.from, j.to} :
                 Committed(d, p) = Doc(d.files[p], d.ids[p], History(d.sessions[p]))
  BY CommittedRename DEF MovingFile, MovingHistory

\* A record that moves on leaves the documents as they are.
LEMMA RenameKept ==
    ASSUME NEW d, NEW e, NEW j, d.journals = {j}, e.journals = {j}, j.kind = "rename", HalfRenamed(d, j),
           e.next_id = d.next_id,
           \A p \in Paths \ {j.from, j.to} :
               e.files[p] = d.files[p] /\ e.ids[p] = d.ids[p] /\ e.sessions[p] = d.sessions[p],
           MovingFile(e, j) = MovingFile(d, j), MovingHistory(e, j) = MovingHistory(d, j)
    PROVE  Kept(d, e)
  <1>0. j.from # j.to
    BY DEF HalfRenamed
  <1>1. Committed(e, j.to) = Committed(d, j.to) /\ Committed(e, j.from) = Committed(d, j.from)
    BY <1>0, MovingDocument
  <1>2. \A p \in Paths \ {j.from, j.to} : Committed(e, p) = Committed(d, p)
    BY <1>0, MovingDocument
  <1> QED
    BY <1>1, <1>2 DEF Kept

\* Once its journal is written a rename changes no document any more.
LEMMA RenameCommits ==
    ASSUME NEW c, NEW d, NEW m, NEW w, NEW st, NEW j, Carries(c, d, m, w, st, j), j.kind = "rename"
    PROVE  Commits(d, m, w)
  <1> DEFINE r == Run(w[1], d, m)
  <1>1. /\ d \in DiskType /\ d.journals = {j} /\ HalfRenamed(d, j) /\ SessionsHold(d)
        /\ j.from \in Paths /\ j.to \in Paths /\ j.from # j.to
    <2>1. d \in DiskType /\ d.journals = {j} /\ HalfRenamed(d, j) /\ SessionsHold(d)
      BY Zenon, RenameFacts
    <2>2. j.from \in Paths /\ j.to \in Paths
      BY Zenon, RenameFacts
    <2>3. j.from # j.to
      BY <2>1 DEF HalfRenamed
    <2> QED
      BY <2>1, <2>2, <2>3
  <1>2. CarryHolds(c, d, m, w, st, 1, j, TRUE) /\ \A s : ~Before(w, 1, s)
    BY Zenon, CarryFacts
  <1>3. w[1] = <<"remove_journal", j>> \/ w[1] \in RenameSet(j)
    BY Zenon, <1>2 DEF CarryHolds
  <1>4. ASSUME NEW e, r.disk = e, w[1][1] \notin {"write_file", "write_journal"},
               e.journals = {j}, e.next_id = d.next_id,
               \A p \in Paths \ {j.from, j.to} :
                   e.files[p] = d.files[p] /\ e.ids[p] = d.ids[p] /\ e.sessions[p] = d.sessions[p],
               (IF e.files[j.from] # NoText THEN e.files[j.from] ELSE e.files[j.to])
               = (IF d.files[j.from] # NoText THEN d.files[j.from] ELSE d.files[j.to]),
               (IF e.sessions[j.to].exists THEN History(e.sessions[j.to]) ELSE History(e.sessions[j.from]))
               = (IF d.sessions[j.to].exists THEN History(d.sessions[j.to]) ELSE History(d.sessions[j.from]))
        PROVE  Commits(d, m, w)
    <2>1. Kept(d, e)
      <3>1. MovingFile(e, j) = MovingFile(d, j) /\ MovingHistory(e, j) = MovingHistory(d, j)
        BY Zenon, <1>4 DEF MovingFile, MovingHistory
      <3> QED
        <4>1. \A p \in Paths \ {j.from, j.to} :
                 e.files[p] = d.files[p] /\ e.ids[p] = d.ids[p] /\ e.sessions[p] = d.sessions[p]
          BY Zenon, <1>4
        <4>2. e.journals = {j} /\ e.next_id = d.next_id
          BY Zenon, <1>4
        <4> QED
          BY Zenon, <1>1, <3>1, <4>1, <4>2, RenameKept
    <2> QED
      BY Zenon, <1>4, <2>1, InwardCommits DEF Inward
  <1>5. ASSUME r.disk = d, w[1][1] \notin {"write_file", "write_journal"}
        PROVE  Commits(d, m, w)
    BY <1>1, <1>4, <1>5
  <1>6. ASSUME w[1] = <<"refuse_two_files", j.from, j.to>>
        PROVE  Commits(d, m, w)
    <2>1. r = RefuseTwoFiles(d, m, j.from, j.to)
      BY <1>6 DEF Run
    <2>2. r.disk = d
      BY <2>1 DEF RefuseTwoFiles, Becomes, Fails
    <2> QED
      BY <1>5, <1>6, <2>2
  <1>7. ASSUME w[1] = <<"persist_identity", j.to, j.id>>
        PROVE  Commits(d, m, w)
    <2> DEFINE e == [d EXCEPT !.ids[j.to] = j.id]
    <2>1. r = PersistIdentity(d, m, j.to, j.id) /\ w[1][1] = "persist_identity"
      BY <1>7 DEF Run
    <2>2. r.disk = d \/ r.disk = e
      BY <2>1 DEF PersistIdentity, Becomes, Fails
    <2>3. /\ e.journals = {j} /\ e.next_id = d.next_id /\ e.files = d.files /\ e.sessions = d.sessions
          /\ \A p \in Paths \ {j.to} : e.ids[p] = d.ids[p]
      BY <1>1 DEF DiskType
    <2> HIDE DEF e
    <2> QED
      BY Zenon, <1>4, <1>5, <2>1, <2>2, <2>3
  <1>8. ASSUME w[1] = <<"move_session", j.from, j.to>>
        PROVE  Commits(d, m, w)
    <2> DEFINE s == IF d.sessions[j.to].exists THEN d.sessions[j.to] ELSE d.sessions[j.from]
               e == [d EXCEPT !.sessions[j.from] = NoSession, !.sessions[j.to] = s]
    <2>1. r = MoveSession(d, m, j.from, j.to) /\ w[1][1] = "move_session"
      BY <1>8 DEF Run
    <2>2. r.disk = e
      BY <1>1, <2>1 DEF MoveSession, Becomes, DiskType
    <2>3. /\ e.journals = {j} /\ e.next_id = d.next_id /\ e.files = d.files /\ e.ids = d.ids
          /\ e.sessions[j.to] = s /\ \A p \in Paths \ {j.from, j.to} : e.sessions[p] = d.sessions[p]
      BY <1>1 DEF DiskType
    <2>4. s.exists
      <3>1. d.sessions[j.from].exists \in BOOLEAN /\ d.sessions[j.to].exists \in BOOLEAN
        BY <1>1 DEF DiskType, Session
      <3> QED
        BY <1>1, <3>1 DEF HalfRenamed
    <2>5. History(s) = IF d.sessions[j.to].exists THEN History(d.sessions[j.to])
                                                  ELSE History(d.sessions[j.from])
      OBVIOUS
    <2> HIDE DEF e, s
    <2> QED
      BY Zenon, <1>4, <2>1, <2>2, <2>3, <2>4, <2>5
  <1>9. ASSUME w[1] = <<"move_flushed", j.from, j.to>>
        PROVE  Commits(d, m, w)
    <2>1. r = MoveFlushed(d, m, j.from, j.to) /\ w[1][1] = "move_flushed"
      BY <1>9 DEF Run
    <2>2. PICK a, b : r.disk = [d EXCEPT !.flushed[j.from] = a, !.flushed[j.to] = b]
      <3> DEFINE b == IF d.flushed[j.to] # NoDirectory THEN d.flushed[j.to] ELSE d.flushed[j.from]
      <3>1. r.disk = [d EXCEPT !.flushed[j.from] = NoDirectory, !.flushed[j.to] = b]
        BY <1>1, <2>1 DEF MoveFlushed, Becomes, DiskType
      <3> QED
        BY Zenon, <3>1
    <2> DEFINE e == [d EXCEPT !.flushed[j.from] = a, !.flushed[j.to] = b]
    <2>3. /\ e.journals = {j} /\ e.next_id = d.next_id /\ e.files = d.files /\ e.ids = d.ids
          /\ e.sessions = d.sessions
      BY <1>1 DEF DiskType
    <2>4. r.disk = e
      BY <2>2
    <2> HIDE DEF e
    <2> QED
      BY <1>4, <2>1, <2>3, <2>4
  <1>10. ASSUME w[1] = <<"move_file", j.from, j.to>>
         PROVE  Commits(d, m, w)
    <2>1. r = MoveFile(d, m, j.from, j.to) /\ w[1][1] = "move_file"
      BY <1>10 DEF Run
    <2>2. CASE d.files[j.from] = NoText
      <3>1. r.disk = d
        BY <2>1, <2>2 DEF MoveFile, Becomes, Fails
      <3> QED
        BY <1>5, <2>1, <3>1
    <2>3. CASE d.files[j.from] # NoText
      <3> DEFINE e == [d EXCEPT !.files[j.to] = d.files[j.from], !.files[j.from] = NoText]
      <3>1. r.disk = e
        BY <2>1, <2>3 DEF MoveFile, Becomes
      <3>2. /\ e.journals = {j} /\ e.next_id = d.next_id /\ e.ids = d.ids /\ e.sessions = d.sessions
            /\ e.files[j.to] = d.files[j.from] /\ e.files[j.from] = NoText
            /\ \A p \in Paths \ {j.from, j.to} : e.files[p] = d.files[p]
        BY <1>1 DEF DiskType
      <3> HIDE DEF e
      <3> QED
        BY Zenon, <1>4, <2>1, <2>3, <3>1, <3>2
    <2> QED
      BY <2>2, <2>3
  <1>11. ASSUME w[1] = <<"drop_identity", j.from>>
         PROVE  Commits(d, m, w)
    <2> DEFINE e == [d EXCEPT !.ids[j.from] = NoId]
    <2>1. r = Becomes(e, m) /\ w[1][1] = "drop_identity"
      BY <1>11 DEF Run, DropIdentity
    <2>2. /\ e.journals = {j} /\ e.next_id = d.next_id /\ e.files = d.files /\ e.sessions = d.sessions
          /\ \A p \in Paths \ {j.from} : e.ids[p] = d.ids[p]
      BY <1>1 DEF DiskType
    <2> HIDE DEF e
    <2>3. r.disk = e
      BY <2>1 DEF Becomes
    <2> QED
      BY <1>4, <2>1, <2>2, <2>3
  <1>12. ASSUME w[1] = <<"remove_journal", j>>
         PROVE  Commits(d, m, w)
    <2> DEFINE e == [d EXCEPT !.journals = @ \ {j}]
    <2>1. r = Becomes(e, m) /\ w[1][1] = "remove_journal"
      BY <1>12 DEF Run, RemoveJournal
    <2>2. /\ e.journals = {} /\ e.next_id = d.next_id /\ e.ids = d.ids /\ e.sessions = d.sessions
          /\ e.files = d.files
      BY <1>1 DEF DiskType
    <2> HIDE DEF e
    <2>3. Done(d, m, st, j)
      BY <1>12, RemoveFacts
    <2>4. /\ d.ids[j.to] = j.id /\ ~d.sessions[j.from].exists /\ d.files[j.from] = NoText
          /\ d.ids[j.from] = NoId
      BY <2>3 DEF Done
    <2>5. d.sessions[j.to].exists /\ d.sessions[j.from] = NoSession
      BY <1>1, <2>4 DEF HalfRenamed, SessionsHold, WholeSession
    <2>6. History(d.sessions[j.from]) = [text |-> NoText, seen |-> {}]
      BY <2>5 DEF History, NoSession
    <2>7. \A p \in Paths : Committed(e, p) = Doc(d.files[p], d.ids[p], History(d.sessions[p]))
      BY <2>2, CommittedQuiet
    <2>8. Committed(e, j.from) = Committed(d, j.from)
      BY Zenon, <1>1, <2>4, <2>6, <2>7, MovingDocument DEF Nothing
    <2>9. Committed(e, j.to) = Committed(d, j.to)
      <3>1. MovingFile(d, j) = d.files[j.to] /\ MovingHistory(d, j) = History(d.sessions[j.to])
        BY <2>4, <2>5 DEF MovingFile, MovingHistory
      <3> QED
        <4>1. Committed(d, j.to) = Doc(MovingFile(d, j), j.id, MovingHistory(d, j))
          BY Zenon, <1>1, MovingDocument
        <4>2. Committed(e, j.to) = Doc(d.files[j.to], d.ids[j.to], History(d.sessions[j.to]))
          BY Zenon, <1>1, <2>7
        <4> QED
          BY Zenon, <2>4, <3>1, <4>1, <4>2
    <2>10. \A p \in Paths \ {j.from, j.to} : Committed(e, p) = Committed(d, p)
      BY <1>1, <2>7, MovingDocument
    <2>11. Kept(d, e)
      BY <2>2, <2>8, <2>9, <2>10 DEF Kept
    <2>12. r.disk = e
      BY <2>1 DEF Becomes
    <2> QED
      BY <2>1, <2>11, <2>12, InwardCommits DEF Inward
  <1> QED
    BY <1>3, <1>6, <1>7, <1>8, <1>9, <1>10, <1>11, <1>12 DEF RenameSet

\* Steps that carry out a deletion, whose document is gone.
LEMMA DeleteCommits ==
    ASSUME NEW c, NEW d, NEW m, NEW w, NEW st, NEW j, Carries(c, d, m, w, st, j), j.kind = "delete"
    PROVE  Commits(d, m, w)
  <1> DEFINE r == Run(w[1], d, m)
  <1>1. d \in DiskType /\ d.journals = {j} /\ SessionsHold(d) /\ j.path \in Paths
    BY Zenon, CarryFacts, JournalKinds
  <1>2. CarryHolds(c, d, m, w, st, 1, j, TRUE) /\ \A s : ~Before(w, 1, s)
    BY Zenon, CarryFacts
  <1>3. w[1] = <<"remove_journal", j>> \/ w[1] \in DeleteSet(j)
    BY Zenon, <1>2 DEF CarryHolds
  <1>4. ASSUME NEW e, r = Becomes(e, m), w[1][1] \notin {"write_file", "write_journal"},
               e.journals = {j}, e.next_id = d.next_id,
               \A p \in Paths \ {j.path} :
                   e.files[p] = d.files[p] /\ e.ids[p] = d.ids[p] /\ e.sessions[p] = d.sessions[p]
        PROVE  Commits(d, m, w)
    <2>1. Committed(e, j.path) = Committed(d, j.path)
      BY <1>1, <1>4, CommittedDelete
    <2>2. \A p \in Paths \ {j.path} : Committed(e, p) = Committed(d, p)
      BY <1>1, <1>4, CommittedDelete
    <2>3. Kept(d, e)
      BY <1>4, <2>1, <2>2 DEF Kept
    <2>4. r.disk = e
      BY <1>4 DEF Becomes
    <2> QED
      BY <1>4, <2>3, <2>4, InwardCommits DEF Inward
  <1>5. ASSUME w[1] = <<"drop_file", j.path>>
        PROVE  Commits(d, m, w)
    <2> DEFINE e == [d EXCEPT !.files[j.path] = NoText]
    <2>1. r = Becomes(e, m) /\ w[1][1] = "drop_file"
      BY <1>5 DEF Run, DropFile
    <2>2. /\ e.journals = {j} /\ e.next_id = d.next_id /\ e.ids = d.ids /\ e.sessions = d.sessions
          /\ \A p \in Paths \ {j.path} : e.files[p] = d.files[p]
      BY <1>1 DEF DiskType
    <2> HIDE DEF e
    <2> QED
      BY <1>4, <2>1, <2>2
  <1>6. ASSUME w[1] = <<"drop_identity", j.path>>
        PROVE  Commits(d, m, w)
    <2> DEFINE e == [d EXCEPT !.ids[j.path] = NoId]
    <2>1. r = Becomes(e, m) /\ w[1][1] = "drop_identity"
      BY <1>6 DEF Run, DropIdentity
    <2>2. /\ e.journals = {j} /\ e.next_id = d.next_id /\ e.files = d.files /\ e.sessions = d.sessions
          /\ \A p \in Paths \ {j.path} : e.ids[p] = d.ids[p]
      BY <1>1 DEF DiskType
    <2> HIDE DEF e
    <2> QED
      BY <1>4, <2>1, <2>2
  <1>7. ASSUME w[1] = <<"drop_session", j.path>>
        PROVE  Commits(d, m, w)
    <2> DEFINE e == [d EXCEPT !.sessions[j.path] = NoSession]
    <2>1. r = Becomes(e, m) /\ w[1][1] = "drop_session"
      BY <1>7 DEF Run, DropSession
    <2>2. /\ e.journals = {j} /\ e.next_id = d.next_id /\ e.files = d.files /\ e.ids = d.ids
          /\ \A p \in Paths \ {j.path} : e.sessions[p] = d.sessions[p]
      BY <1>1 DEF DiskType
    <2> HIDE DEF e
    <2> QED
      BY <1>4, <2>1, <2>2
  <1>8. ASSUME w[1] = <<"drop_flushed", j.path>>
        PROVE  Commits(d, m, w)
    <2> DEFINE e == [d EXCEPT !.flushed[j.path] = NoDirectory]
    <2>1. r = Becomes(e, m) /\ w[1][1] = "drop_flushed"
      BY <1>8 DEF Run, DropFlushed
    <2>2. /\ e.journals = {j} /\ e.next_id = d.next_id /\ e.files = d.files /\ e.ids = d.ids
          /\ e.sessions = d.sessions
      BY <1>1 DEF DiskType
    <2> HIDE DEF e
    <2> QED
      BY <1>4, <2>1, <2>2
  <1>9. ASSUME w[1] = <<"remove_journal", j>>
        PROVE  Commits(d, m, w)
    <2> DEFINE e == [d EXCEPT !.journals = @ \ {j}]
    <2>1. r = Becomes(e, m) /\ w[1][1] = "remove_journal"
      BY <1>9 DEF Run, RemoveJournal
    <2>2. /\ e.journals = {} /\ e.next_id = d.next_id /\ e.ids = d.ids /\ e.sessions = d.sessions
          /\ e.files = d.files
      BY <1>1 DEF DiskType
    <2> HIDE DEF e
    <2>3. Done(d, m, st, j)
      BY <1>9, RemoveFacts
    <2>4. d.files[j.path] = NoText /\ d.ids[j.path] = NoId /\ ~d.sessions[j.path].exists
      BY <2>3 DEF Done
    <2>5. d.sessions[j.path] = NoSession
      BY <1>1, <2>4 DEF SessionsHold, WholeSession
    <2>6. History(d.sessions[j.path]) = [text |-> NoText, seen |-> {}]
      BY <2>5 DEF History, NoSession
    <2>7. \A p \in Paths : Committed(e, p) = Doc(d.files[p], d.ids[p], History(d.sessions[p]))
      BY <2>2, CommittedQuiet
    <2>8. Committed(e, j.path) = Committed(d, j.path)
      BY Zenon, <1>1, <2>4, <2>6, <2>7, CommittedDelete DEF Nothing
    <2>9. \A p \in Paths \ {j.path} : Committed(e, p) = Committed(d, p)
      BY <1>1, <2>7, CommittedDelete
    <2>10. Kept(d, e)
      BY <2>2, <2>8, <2>9 DEF Kept
    <2>11. r.disk = e
      BY <2>1 DEF Becomes
    <2> QED
      BY <2>1, <2>10, <2>11, InwardCommits DEF Inward
  <1> QED
    BY <1>3, <1>5, <1>6, <1>7, <1>8, <1>9 DEF DeleteSet

\* What a call does before its journal changes no document but the one it saves.
LEMMA PrepareCommits ==
    ASSUME NEW c, NEW d, NEW m, NEW w, NEW n, NEW j, Prepares(c, d, m, w, n, j), n > 1
    PROVE  Commits(d, m, w)
  <1> DEFINE r == Run(w[1], d, m)
  <1>1. /\ d \in DiskType /\ m \in MemType /\ d.journals = {} /\ PrepareHolds(d, w, 1, n, j)
        /\ \A p \in Paths : Backed(d, m, p)
    BY Zenon, PrepareFacts DEF Prepares
  <1>2. ASSUME NEW e, r = Becomes(e, m), w[1][1] \notin {"write_file", "write_journal"},
               e.journals = {}, e.next_id = d.next_id,
               e.files = d.files /\ e.ids = d.ids /\ e.sessions = d.sessions
        PROVE  Commits(d, m, w)
    <2>1. Kept(d, e)
      BY Zenon, <1>1, <1>2, QuietKept
    <2>2. r.disk = e
      BY <1>2 DEF Becomes
    <2> QED
      BY <1>2, <2>1, <2>2, InwardCommits DEF Inward
  <1>3. ASSUME NEW p \in Paths, w[1] = <<"save", p>>
        PROVE  Commits(d, m, w)
    BY <1>1, <1>3, PlainSaveCommits
  <1>4. ASSUME w[1] = <<"make_root">>
        PROVE  Commits(d, m, w)
    <2> DEFINE e == [d EXCEPT !.root = TRUE]
    <2>1. r = Becomes(e, m) /\ w[1][1] = "make_root"
      BY <1>4 DEF Run, MakeRoot
    <2>2. /\ e.journals = {} /\ e.next_id = d.next_id
          /\ e.files = d.files /\ e.ids = d.ids /\ e.sessions = d.sessions
      BY <1>1 DEF DiskType
    <2> HIDE DEF e
    <2> QED
      BY <1>2, <2>1, <2>2
  <1>5. ASSUME NEW p \in Paths, NEW t \in Texts, w[1] = <<"write_pending", p, t>>
        PROVE  Commits(d, m, w)
    <2> DEFINE e == [d EXCEPT !.pending[p] = t]
    <2>1. r = Becomes(e, m) /\ w[1][1] = "write_pending"
      BY <1>5 DEF Run, WritePending
    <2>2. /\ e.journals = {} /\ e.next_id = d.next_id
          /\ e.files = d.files /\ e.ids = d.ids /\ e.sessions = d.sessions
      BY <1>1 DEF DiskType
    <2> HIDE DEF e
    <2> QED
      BY <1>2, <2>1, <2>2
  <1>6. \/ \E p \in Paths : w[1] = <<"save", p>>
        \/ w[1] = <<"make_root">>
        \/ \E p \in Paths, t \in Texts : w[1] = <<"write_pending", p, t>>
    BY <1>1 DEF PrepareHolds
  <1> QED
    BY <1>3, <1>4, <1>5, <1>6

\* The journal is what commits a call: from then on its documents are the new ones.
LEMMA JournalCommits ==
    ASSUME NEW c, NEW d, NEW m, NEW w, NEW j, Prepares(c, d, m, w, 1, j), Coherent(c)
    PROVE  Commits(d, m, w)
  <1> DEFINE r == Run(w[1], d, m)
             e == [d EXCEPT !.journals = @ \cup {j}, !.root = TRUE]
  <1>1. /\ d \in DiskType /\ d.journals = {} /\ w[1] = <<"write_journal", j>> /\ DiskHolds(c, d)
        /\ JournalReady(c, d, m, w, 1, j) /\ \A how, p : ~Writes(w, 1, how, p)
    BY Zenon, PrepareFacts DEF Prepares
  <1>2. r = Becomes(e, m) /\ w[1][1] = "write_journal"
    BY <1>1 DEF Run, WriteJournal
  <1>3. /\ e.journals = {j} /\ e.next_id = d.next_id /\ e.pending = d.pending
        /\ e.files = d.files /\ e.ids = d.ids /\ e.sessions = d.sessions
    BY <1>1 DEF DiskType
  <1> HIDE DEF e
  <1>4. r.disk = e
    BY SMTT(30), <1>2 DEF Becomes
  <1>5. SUFFICES Published(d, e) \/ Moved(d, e) \/ Deleted(d, e)
    BY <1>2, <1>4 DEF Commits
  <1>6. j \in Journals /\ j.kind \in {"export", "rename", "delete"}
    BY <1>1, JournalKinds DEF JournalReady
  <1>7. \A p \in Paths : Committed(d, p) = Doc(d.files[p], d.ids[p], History(d.sessions[p]))
    BY <1>1, CommittedQuiet
  <1>8. CASE j.kind = "export"
    <2>1. \A p \in Paths : d.pending[p] \in Texts \cup {NoText}
      BY <1>1 DEF DiskType
    <2>2. ASSUME NEW p \in Paths
          PROVE  \/ Committed(e, p) = Committed(d, p)
                 \/ \E t \in Texts : Committed(e, p) = [Committed(d, p) EXCEPT !.file = t]
      <3>1. Committed(e, p) = Doc(IF p \in Range(j.paths) /\ d.pending[p] # NoText
                                  THEN d.pending[p] ELSE d.files[p], d.ids[p], History(d.sessions[p]))
        BY SMTT(30), <1>3, <1>8, CommittedExport
      <3>2. CASE p \in Range(j.paths) /\ d.pending[p] # NoText
        <4>1. Committed(e, p) = [Committed(d, p) EXCEPT !.file = d.pending[p]]
          <5>1. Committed(e, p) = Doc(d.pending[p], d.ids[p], History(d.sessions[p]))
            BY <3>1, <3>2
          <5> QED
            BY <1>7, <5>1, DocFacts
        <4> QED
          BY <2>1, <3>2, <4>1
      <3> QED
        BY <1>7, <3>1, <3>2
    <2> QED
      BY <1>3, <2>2 DEF Published
  <1>9. CASE j.kind = "rename"
    <2>1. /\ j.from \in Paths /\ j.to \in Paths /\ j.from # j.to /\ d.files[j.to] = NoText
          /\ Vacant(d, j.to) /\ d.files[j.from] # NoText /\ d.ids[j.from] = j.id
      BY <1>9, RenameReady
    <2>2. d.ids[j.to] = NoId /\ d.sessions[j.to] = NoSession /\ ~d.sessions[j.to].exists
      BY Zenon, <1>1, <2>1 DEF Vacant, DiskHolds, SessionsHold, WholeSession
    <2>3. History(d.sessions[j.to]) = [text |-> NoText, seen |-> {}]
      BY <2>2 DEF History, NoSession
    <2>4. Committed(d, j.to) = Nothing
      BY <1>7, <2>1, <2>2, <2>3 DEF Nothing
    <2>5. Committed(e, j.to) = Committed(d, j.from) /\ Committed(e, j.from) = Nothing
      <3>1. MovingFile(e, j) = d.files[j.from] /\ MovingHistory(e, j) = History(d.sessions[j.from])
        BY <1>3, <2>1, <2>2 DEF MovingFile, MovingHistory
      <3> QED
        <4>1. /\ Committed(e, j.to) = Doc(MovingFile(e, j), j.id, MovingHistory(e, j))
              /\ Committed(e, j.from) = Nothing
          BY Zenon, <1>3, <1>9, <2>1, MovingDocument
        <4>2. Committed(d, j.from) = Doc(d.files[j.from], d.ids[j.from], History(d.sessions[j.from]))
          BY Zenon, <1>7, <2>1
        <4> QED
          BY Zenon, <2>1, <3>1, <4>1, <4>2
    <2>6. \A q \in Paths \ {j.from, j.to} : Committed(e, q) = Committed(d, q)
      BY SMTT(30), <1>3, <1>7, <1>9, <2>1, MovingDocument
    <2> QED
      BY <1>3, <2>1, <2>4, <2>5, <2>6 DEF Moved
  <1>10. CASE j.kind = "delete"
    <2>1. j.path \in Paths
      BY <1>6, <1>10, JournalKinds
    <2>2. Committed(e, j.path) = Nothing
      BY <1>3, <1>10, CommittedDelete
    <2>3. \A q \in Paths \ {j.path} : Committed(e, q) = Committed(d, q)
      BY SMTT(30), <1>3, <1>7, <1>10, CommittedDelete
    <2> QED
      BY <1>3, <2>1, <2>2, <2>3 DEF Deleted
  <1> QED
    BY <1>6, <1>8, <1>9, <1>10

\* The end of a call, after its journal.
LEMMA FinishCommits ==
    ASSUME NEW c, NEW d, NEW m, NEW w, NEW st, VaultHolds(c, d, m, w, st), Finishing(d, m, w, st)
    PROVE  Commits(d, m, w)
  <1> DEFINE r == Run(w[1], d, m)
  <1>1. d \in DiskType /\ d.journals = {}
    BY FinishFacts
  <1>2. ASSUME w[1] = <<"sweep">>
        PROVE  Commits(d, m, w)
    <2> DEFINE f == [DropPending(d) EXCEPT !.backup = [p \in Paths |-> NoText]]
    <2>1. r = Becomes(f, m) /\ w[1][1] = "sweep"
      BY <1>2 DEF Run, Sweep
    <2>2. /\ f.journals = {} /\ f.next_id = d.next_id
          /\ f.files = d.files /\ f.ids = d.ids /\ f.sessions = d.sessions
      BY <1>1 DEF DiskType, DropPending
    <2> HIDE DEF f
    <2>3. Kept(d, f)
      BY <1>1, <2>2, QuietKept
    <2>4. r.disk = f
      BY <2>1 DEF Becomes
    <2> QED
      BY <2>1, <2>3, <2>4, InwardCommits DEF Inward
  <1>3. ASSUME r.disk = d, w[1][1] \in {"forget", "rekey"}
        PROVE  Commits(d, m, w)
    BY <1>3, InwardCommits DEF Inward, Kept
  <1>4. ASSUME NEW p, w[1] = <<"forget", p>>
        PROVE  Commits(d, m, w)
    <2>1. r = Forget(d, m, p)
      BY <1>4 DEF Run
    <2>2. r.disk = d
      BY <2>1 DEF Forget, Becomes
    <2> QED
      BY <1>3, <1>4, <2>2
  <1>5. ASSUME NEW from, NEW to, NEW i, w[1] = <<"rekey", from, to, i>>
        PROVE  Commits(d, m, w)
    <2>1. r = Rekey(d, m, from, to, i)
      BY <1>5 DEF Run
    <2>2. r.disk = d
      BY <2>1 DEF Rekey, Becomes
    <2> QED
      BY <1>3, <1>5, <2>2
  <1> QED
    BY <1>2, <1>4, <1>5 DEF Finishing

\* Every step of every call.
LEMMA StepCommits ==
    ASSUME NEW c, NEW d, NEW m, NEW w, NEW st, VaultHolds(c, d, m, w, st), Coherent(c), w # <<>>
    PROVE  Commits(d, m, w)
  <1>1. CASE Plain(c, d, m, w, st)
    <2>1. st = "up"
      BY <1>1 DEF Plain
    <2> QED
      BY <1>1, <2>1, PlainCommits
  <1>2. CASE Preparing(c, d, m, w, st)
    <2>1. st = "up"
      BY <1>2 DEF Preparing
    <2>2. PICK n \in 1 .. Len(w) : Prepares(c, d, m, w, n, w[n][2])
      BY Zenon, <1>2, <2>1 DEF Preparing, Prepares
    <2>3. CASE n = 1
      BY <2>2, <2>3, JournalCommits
    <2>4. CASE n # 1
      <3>1. n > 1
        BY <2>2, <2>4, PrepareFacts
      <3> QED
        BY <2>2, <3>1, PrepareCommits
    <2> QED
      BY <2>3, <2>4
  <1>3. CASE Carrying(c, d, m, w, st)
    <2>1. PICK j \in d.journals : Carries(c, d, m, w, st, j)
      BY Zenon, <1>3 DEF Carrying, Carries
    <2>2. j.kind \in {"export", "rename", "delete"}
      BY Zenon, <2>1, CarryFacts, JournalKinds
    <2> QED
      BY <2>1, <2>2, ExportCommits, RenameCommits, DeleteCommits
  <1>4. CASE Finishing(d, m, w, st)
    BY <1>4, FinishCommits
  <1> QED
    BY <1>1, <1>2, <1>3, <1>4 DEF VaultHolds, WorkHolds, StatusHolds
=============================================================================
