------------------------- MODULE VaultJournalProofs -------------------------
(***************************************************************************)
(* The steps that carry out the journal of an export, a rename or a         *)
(* deletion, in the call that wrote it or in recovery, keep VaultHolds.     *)
(***************************************************************************)
EXTENDS VaultStepProofs

-----------------------------------------------------------------------------
(* The steps that carry out a journal.                                      *)

\* Taking step s, from disk d to disk e, keeps what was done for journal j and does what
\* s is for; the journal is on the disk before it (a), and after it (b).
Advances(s, d, e, j, a, b) ==
    /\ j.kind = "export" =>
          \A p \in Paths :
              /\ (a /\ d.pending[p] = NoText) \/ s = <<"install", p>> => b /\ e.pending[p] = NoText
              /\ (a /\ d.pending[p] = NoText /\ d.backup[p] = NoText) \/ s = <<"drop_backup", p>> =>
                    b /\ e.pending[p] = NoText /\ e.backup[p] = NoText
    /\ j.kind = "rename" =>
          /\ (a /\ d.ids[j.to] = j.id) \/ s = <<"persist_identity", j.to, j.id>> =>
                b /\ e.ids[j.to] = j.id
          /\ (a /\ ~d.sessions[j.from].exists) \/ s = <<"move_session", j.from, j.to>> =>
                b /\ ~e.sessions[j.from].exists
          /\ (a /\ d.flushed[j.from] = NoDirectory) \/ s = <<"move_flushed", j.from, j.to>> =>
                b /\ e.flushed[j.from] = NoDirectory
          /\ (a /\ d.files[j.from] = NoText) \/ s = <<"move_file", j.from, j.to>> =>
                b /\ e.files[j.from] = NoText
          /\ (a /\ d.ids[j.from] = NoId) \/ s = <<"drop_identity", j.from>> =>
                b /\ e.ids[j.from] = NoId
    /\ j.kind = "delete" =>
          /\ (a /\ d.files[j.path] = NoText) \/ s = <<"drop_file", j.path>> =>
                b /\ e.files[j.path] = NoText
          /\ (a /\ d.ids[j.path] = NoId) \/ s = <<"drop_identity", j.path>> =>
                b /\ e.ids[j.path] = NoId
          /\ (a /\ ~d.sessions[j.path].exists) \/ s = <<"drop_session", j.path>> =>
                b /\ ~e.sessions[j.path].exists
          /\ (a /\ d.flushed[j.path] = NoDirectory) \/ s = <<"drop_flushed", j.path>> =>
                b /\ e.flushed[j.path] = NoDirectory

\* Saved sessions grow, and saving saves what is in memory.
Saves(s, d, m, e) ==
    \A p \in Paths : /\ d.sessions[p].seen \subseteq e.sessions[p].seen
                     /\ s = <<"save", p>> => m.docs[p].seen \subseteq e.sessions[p].seen

\* What must be done before the journal is removed is done by the steps before it.
LEMMA RemovableTail ==
    ASSUME NEW d, NEW e, NEW w, w \in Seq(Range(w)), w # <<>>,
           NEW j \in Journals, NEW a \in BOOLEAN, NEW b \in BOOLEAN, Advances(w[1], d, e, j, a, b),
           NEW k \in 1 .. Len(Tail(w)), Removable(d, w, k + 1, j, a)
    PROVE  Removable(e, Tail(w), k, j, b)
  <1>1. \A s : Before(w, k + 1, s) => w[1] = s \/ Before(Tail(w), k, s)
    BY BeforeTail
  <1>2. ASSUME j.kind = "export", NEW p \in Range(j.paths)
        PROVE  /\ (b /\ e.pending[p] = NoText) \/ Before(Tail(w), k, <<"install", p>>)
               /\ (b /\ e.pending[p] = NoText /\ e.backup[p] = NoText)
                  \/ Before(Tail(w), k, <<"drop_backup", p>>)
    <2>1. p \in Paths
      BY <1>2, JournalKinds
    <2> QED
      BY <1>1, <1>2, <2>1 DEF Removable, Advances
  <1>3. ASSUME j.kind = "rename"
        PROVE  Removable(e, Tail(w), k, j, b)
    BY <1>1, <1>3 DEF Removable, Advances
  <1>4. ASSUME j.kind = "delete"
        PROVE  Removable(e, Tail(w), k, j, b)
    BY <1>1, <1>4 DEF Removable, Advances
  <1>5. ASSUME j.kind = "export"
        PROVE  Removable(e, Tail(w), k, j, b)
    BY <1>2, <1>5 DEF Removable
  <1> QED
    BY <1>3, <1>4, <1>5, JournalKinds

\* The rest of a call that carries out a journal.
LEMMA CarryTail ==
    ASSUME NEW c, NEW d, NEW m, NEW e, NEW w, NEW st, w \in Seq(Range(w)), w # <<>>,
           NEW j \in Journals, NEW a \in BOOLEAN, NEW b \in BOOLEAN,
           Advances(w[1], d, e, j, a, b), w[1] # <<"remove_journal", j>>,
           j.kind = "export" => Saves(w[1], d, m, e),
           j.kind = "rename" /\ st = "up" /\ Rekeyable(d, m, j) => Rekeyable(e, m, j),
           NEW k \in 1 .. Len(Tail(w)), CarryHolds(c, d, m, w, st, k + 1, j, a)
    PROVE  CarryHolds(c, e, m, Tail(w), st, k, j, b)
  <1> DEFINE s == Tail(w)[k]
  <1>1. /\ s = w[k + 1] /\ k + 1 \in 1 .. Len(w) /\ Len(w) \in Nat /\ Len(Tail(w)) = Len(w) - 1
        /\ \A i \in 1 .. Len(Tail(w)) : Tail(w)[i] = w[i + 1]
    BY TailFacts
  <1>2. \A x : Before(w, k + 1, x) => w[1] = x \/ Before(Tail(w), k, x)
    BY BeforeTail
  <1> HIDE DEF s
  <1>3. CASE /\ \/ j.kind = "export" /\ s \in ExportSet
                \/ j.kind = "rename" /\ s \in RenameSet(j)
                \/ j.kind = "delete" /\ s \in DeleteSet(j)
             /\ s[1] \in {"displace", "install", "drop_backup"} => s[2] \in Range(j.paths)
             /\ s[1] = "drop_backup" =>
                   (a /\ d.pending[s[2]] = NoText) \/ Before(w, k + 1, <<"install", s[2]>>)
             /\ s[1] \in {"save", "flush"} => st = "up"
             /\ s[1] = "flush" => FlushBacked(c, d, m, w, k + 1, s[2], s[3])
    <2>1. s[1] \in {"drop_backup", "flush"} => j.kind = "export" /\ s[2] \in Paths
      BY <1>3 DEF ExportSet, RenameSet, DeleteSet
    <2>2. s[1] = "drop_backup" =>
             (b /\ e.pending[s[2]] = NoText) \/ Before(Tail(w), k, <<"install", s[2]>>)
      BY <1>2, <1>3, <2>1 DEF Advances
    <2>3. s[1] = "flush" => FlushBacked(c, e, m, Tail(w), k, s[2], s[3])
      BY <1>2, <1>3, <2>1 DEF FlushBacked, Saves
    <2> QED
      BY <1>3, <2>2, <2>3 DEF CarryHolds, s
  <1>4. CASE /\ s = <<"remove_journal", j>>
             /\ Removable(d, w, k + 1, j, a)
             /\ j.kind = "rename" /\ st = "up" => Rekeyable(d, m, j)
             /\ Len(w) = (k + 1) + Len(EndOf(j, st))
             /\ \A i \in 1 .. Len(EndOf(j, st)) : w[(k + 1) + i] = EndOf(j, st)[i]
    <2>1. Removable(e, Tail(w), k, j, b)
      BY <1>4, RemovableTail
    <2>2. Len(EndOf(j, st)) \in {0, 1}
      BY EndLength
    <2>3. Len(Tail(w)) = k + Len(EndOf(j, st))
      BY <1>1, <1>4, <2>2
    <2>4. ASSUME NEW i \in 1 .. Len(EndOf(j, st))
          PROVE  Tail(w)[k + i] = EndOf(j, st)[i]
      <3>1. k + i \in 1 .. Len(Tail(w)) /\ (k + i) + 1 = (k + 1) + i
        BY <2>2, <2>3
      <3> QED
        BY <1>1, <1>4, <3>1
    <2> QED
      BY <1>4, <2>1, <2>3, <2>4 DEF CarryHolds, s
  <1>5. CASE Before(w, k + 1, <<"remove_journal", j>>) /\ k + 1 = Len(w)
    <2>1. k = Len(Tail(w))
      <3>1. Len(Tail(w)) \in Nat
        BY TailFacts
      <3>2. k \in Nat
        BY <3>1
      <3>3. (k + 1) - 1 = k
        BY <3>2
      <3> QED
        BY <1>1, <1>5, <3>3, Zenon
    <2> QED
      BY Zenon, <1>2, <1>5, <2>1 DEF CarryHolds
  <1> QED
    BY Zenon, <1>1, <1>3, <1>4, <1>5 DEF CarryHolds
\* The running call carries out journal j.
Carries(c, d, m, w, st, j) ==
    /\ VaultHolds(c, d, m, w, st) /\ w # <<>> /\ j \in d.journals
    /\ \A k \in 1 .. Len(w) : CarryHolds(c, d, m, w, st, k, j, TRUE)

\* Its next step leaves disk e, and goes on.
GoesOn(c, d, m, w, st, j, e) ==
    /\ Run(w[1], d, m) = Becomes(e, m)
    /\ DiskHolds(c, e) /\ e.journals = d.journals
    /\ Advances(w[1], d, e, j, TRUE, TRUE)
    /\ j.kind = "export" => Saves(w[1], d, m, e)
    /\ j.kind = "rename" /\ st = "up" /\ Rekeyable(d, m, j) => Rekeyable(e, m, j)
    /\ \A p \in Paths : (j.kind = "export" \/ ~Touches(j, p)) /\ Backed(d, m, p) => Backed(e, m, p)

\* A call that carries out a journal finds it alone on the disk, which is as the journal says.
LEMMA CarryFacts ==
    ASSUME NEW c, NEW d, NEW m, NEW w, NEW st, NEW j, Carries(c, d, m, w, st, j)
    PROVE  /\ d \in DiskType /\ m \in MemType /\ w \in Seq(Range(w))
           /\ j \in Journals /\ d.journals = {j} /\ JournalHolds(c, d, j) /\ DiskHolds(c, d)
           /\ d.root /\ SessionsHold(d)
           /\ \A p \in Paths : WholeSession(m.docs[p]) /\ (Settled(d, w, p) => Backed(d, m, p))
           /\ CarryHolds(c, d, m, w, st, 1, j, TRUE)
           /\ \A s : ~Before(w, 1, s)
  <1>1. d \in DiskType /\ m \in MemType /\ w \in Seq(Range(w)) /\ DiskHolds(c, d) /\ j \in d.journals
    BY DEF Carries, VaultHolds, DiskHolds, MemHolds, StatusHolds
  <1>2. j \in Journals
    BY <1>1 DEF DiskType
  <1>3. d.journals = {j} /\ JournalHolds(c, d, j) /\ d.root /\ SessionsHold(d)
    BY <1>1 DEF DiskHolds, JournalsHold
  <1>4. 1 \in 1 .. Len(w)
    BY <1>1, TailFacts DEF Carries
  <1>5. \A s : ~Before(w, 1, s)
    BY DEF Before
  <1>6. CarryHolds(c, d, m, w, st, 1, j, TRUE)
    BY Zenon, <1>4 DEF Carries
  <1>7. \A p \in Paths : WholeSession(m.docs[p]) /\ (Settled(d, w, p) => Backed(d, m, p))
    BY DEF Carries, VaultHolds, MemHolds
  <1> QED
    BY Zenon, <1>1, <1>2, <1>3, <1>5, <1>6, <1>7

\* A step of such a call, other than the last of them.
LEMMA CarryDone ==
    ASSUME NEW c, NEW d, NEW m, NEW w, NEW st, NEW j, NEW e, Carries(c, d, m, w, st, j),
           GoesOn(c, d, m, w, st, j, e), w[1] # <<"remove_journal", j>>
    PROVE  Outcome(c, d, m, w, st)
  <1> DEFINE v == Tail(w)
             sv == IF v = <<>> THEN "up" ELSE st
  <1>1. /\ m \in MemType /\ w \in Seq(Range(w)) /\ j \in Journals /\ d.journals = {j}
        /\ \A p \in Paths : WholeSession(m.docs[p]) /\ (Settled(d, w, p) => Backed(d, m, p))
    BY Zenon, CarryFacts
  <1>2. w # <<>>
    BY DEF Carries
  <1>3. v \in Seq(Range(v)) /\ Len(v) \in Nat /\ \A k \in 1 .. Len(v) : k + 1 \in 1 .. Len(w)
    BY <1>1, <1>2, TailFacts
  <1>4. ASSUME NEW k \in 1 .. Len(v)
        PROVE  CarryHolds(c, e, m, v, st, k, j, TRUE)
    <2>1. CarryHolds(c, d, m, w, st, k + 1, j, TRUE)
      BY Zenon, <1>3 DEF Carries
    <2>2. /\ Advances(w[1], d, e, j, TRUE, TRUE)
          /\ j.kind = "export" => Saves(w[1], d, m, e)
          /\ j.kind = "rename" /\ st = "up" /\ Rekeyable(d, m, j) => Rekeyable(e, m, j)
      BY Zenon DEF GoesOn
    <2> QED
      BY Zenon, <1>1, <1>2, <2>1, <2>2, CarryTail
  <1>5. e.journals = {j} /\ DiskHolds(c, e)
    BY <1>1 DEF GoesOn
  <1> HIDE DEF v
  <1>6. v = <<>> => Len(v) = 0
    OBVIOUS
  <1>7. Carrying(c, e, m, v, sv)
    <2>1. CASE v = <<>>
      BY <1>5, <1>6, <2>1 DEF Carrying
    <2>2. CASE v # <<>>
      BY Zenon, <1>4, <1>5, <2>2 DEF Carrying
    <2> QED
      BY <2>1, <2>2
  <1>8. MemHolds(e, m, v)
    <2>1. ASSUME NEW p \in Paths, Settled(e, v, p)
          PROVE  Settled(d, w, p) /\ (j.kind = "export" \/ ~Touches(j, p))
      BY <1>1, <1>5, <2>1 DEF Settled
    <2>2. ASSUME NEW p \in Paths, Settled(e, v, p)
          PROVE  Backed(e, m, p)
      BY <1>1, <2>1, <2>2 DEF GoesOn
    <2> QED
      BY <1>1, <2>2 DEF MemHolds
  <1>9. TempsHold(e, v, sv)
    BY <1>5 DEF TempsHold
  <1>10. StatusHolds(c, m, v, sv)
    <2>1. StatusHolds(c, m, w, st) /\ st # "down"
      BY <1>2 DEF Carries, VaultHolds, StatusHolds
    <2>3. CASE v = <<>>
      BY <1>3, <2>1, <2>3 DEF StatusHolds
    <2>4. CASE v # <<>>
      BY <1>3, <2>1, <2>4 DEF StatusHolds
    <2> QED
      BY <2>3, <2>4
  <1>11. VaultHolds(c, e, m, v, sv)
    BY <1>5, <1>7, <1>8, <1>9, <1>10 DEF VaultHolds, WorkHolds
  <1>12. Run(w[1], d, m) = Becomes(e, m)
    BY DEF GoesOn
  <1> QED
    BY <1>1, <1>2, <1>11, <1>12, Taken DEF v

\* What is true while an export transaction is carried out.
LEMMA ExportFacts ==
    ASSUME NEW c, NEW d, NEW m, NEW w, NEW st, NEW j, Carries(c, d, m, w, st, j), j.kind = "export"
    PROVE  /\ d \in DiskType /\ m \in MemType /\ DiskHolds(c, d) /\ HalfExported(d, j)
           /\ j \in d.journals /\ d.journals = {j} /\ Range(j.paths) \subseteq Paths
           /\ \A p \in Paths : WholeSession(m.docs[p]) /\ Backed(d, m, p)
  <1>1. /\ d \in DiskType /\ m \in MemType /\ DiskHolds(c, d) /\ d.journals = {j}
        /\ JournalHolds(c, d, j) /\ j \in Journals
        /\ \A p \in Paths : WholeSession(m.docs[p]) /\ (Settled(d, w, p) => Backed(d, m, p))
    BY Zenon, CarryFacts
  <1>2. HalfExported(d, j)
    BY <1>1 DEF JournalHolds
  <1>3. Range(j.paths) \subseteq Paths
    BY <1>1, JournalKinds
  <1>4. \A p \in Paths : Settled(d, w, p)
    BY <1>1 DEF Settled
  <1> QED
    BY <1>1, <1>2, <1>3, <1>4

\* The file that is there is moved to its backup.
LEMMA ExportDisplace ==
    ASSUME NEW c, NEW d, NEW m, NEW w, NEW st, NEW j, Carries(c, d, m, w, st, j),
           j.kind = "export", NEW p \in Paths, w[1] = <<"displace", p>>, p \in Range(j.paths)
    PROVE  Outcome(c, d, m, w, st)
  <1>1. Run(w[1], d, m) = Displace(d, m, p) /\ w[1] # <<"remove_journal", j>>
    BY DEF Run
  <1>2. d \in DiskType /\ DiskHolds(c, d) /\ HalfExported(d, j) /\ j \in d.journals
    BY ExportFacts
  <1>3. CASE d.pending[p] = NoText
    <2>1. Run(w[1], d, m) = Becomes(d, m)
      BY <1>1, <1>3 DEF Displace
    <2>2. Advances(w[1], d, d, j, TRUE, TRUE) /\ Saves(w[1], d, m, d)
      BY DEF Advances, Saves
    <2>3. GoesOn(c, d, m, w, st, j, d)
      BY Zenon, <1>2, <2>1, <2>2 DEF GoesOn
    <2> QED
      BY <1>1, <2>3, CarryDone
  <1>4. CASE d.pending[p] # NoText
    <2> DEFINE b == IF d.backup[p] = NoText THEN d.files[p] ELSE d.backup[p]
               e == [d EXCEPT !.files[p] = NoText, !.backup[p] = b]
    <2>1. Run(w[1], d, m) = Becomes(e, m)
      BY <1>1, <1>2, <1>4 DEF Displace, DiskType
    <2>2. b \in Texts \cup {NoText}
      BY <1>2 DEF DiskType
    <2> HIDE DEF b
    <2>3. /\ e \in DiskType
          /\ e.ids = d.ids /\ e.sessions = d.sessions /\ e.flushed = d.flushed
          /\ e.journals = d.journals /\ e.root = d.root /\ e.next_id = d.next_id
          /\ e.pending = d.pending /\ e.files = [d.files EXCEPT ![p] = NoText]
          /\ e.backup = [d.backup EXCEPT ![p] = b]
      BY Zenon, <1>2, <2>2 DEF DiskType
    <2> HIDE DEF e
    <2>4. \A q \in Paths \ {p} : e.files[q] = d.files[q] /\ e.backup[q] = d.backup[q]
      BY <1>2, <2>3 DEF DiskType
    <2>5. HalfExported(e, j)
      BY <1>2, <1>4, <2>3, <2>4, JournalKinds DEF HalfExported, DiskType
    <2>6. DiskHolds(c, e)
      BY Zenon, <1>2, <2>3, <2>4, <2>5, DiskExport
    <2>7. Advances(w[1], d, e, j, TRUE, TRUE) /\ Saves(w[1], d, m, e)
      BY <1>4, <2>3, <2>4 DEF Advances, Saves
    <2>8. \A q \in Paths : Backed(d, m, q) => Backed(e, m, q)
      BY <2>3 DEF Backed
    <2>9. GoesOn(c, d, m, w, st, j, e)
      BY Zenon, <2>1, <2>3, <2>6, <2>7, <2>8 DEF GoesOn
    <2> QED
      BY <1>1, <2>9, CarryDone
  <1> QED
    BY <1>3, <1>4

\* The pending file takes its place.
LEMMA ExportInstall ==
    ASSUME NEW c, NEW d, NEW m, NEW w, NEW st, NEW j, Carries(c, d, m, w, st, j),
           j.kind = "export", NEW p \in Paths, w[1] = <<"install", p>>, p \in Range(j.paths)
    PROVE  Outcome(c, d, m, w, st)
  <1>1. Run(w[1], d, m) = Install(d, m, p) /\ w[1] # <<"remove_journal", j>>
    BY DEF Run
  <1>2. /\ d \in DiskType /\ DiskHolds(c, d) /\ HalfExported(d, j) /\ j \in d.journals
        /\ Range(j.paths) \subseteq Paths
    BY ExportFacts
  <1>3. CASE d.pending[p] = NoText
    <2>1. Run(w[1], d, m) = Becomes(d, m)
      BY <1>1, <1>2, <1>3 DEF Install, HalfExported
    <2>2. Advances(w[1], d, d, j, TRUE, TRUE) /\ Saves(w[1], d, m, d)
      BY <1>3 DEF Advances, Saves
    <2>3. GoesOn(c, d, m, w, st, j, d)
      BY Zenon, <1>2, <2>1, <2>2 DEF GoesOn
    <2> QED
      BY <1>1, <2>3, CarryDone
  <1>4. CASE d.pending[p] # NoText
    <2> DEFINE e == [d EXCEPT !.files[p] = d.pending[p], !.pending[p] = NoText]
    <2>1. Run(w[1], d, m) = Becomes(e, m)
      BY <1>1, <1>4 DEF Install
    <2>2. /\ e \in DiskType
          /\ e.ids = d.ids /\ e.sessions = d.sessions /\ e.flushed = d.flushed
          /\ e.journals = d.journals /\ e.root = d.root /\ e.next_id = d.next_id
          /\ e.pending = [d.pending EXCEPT ![p] = NoText]
          /\ e.files = [d.files EXCEPT ![p] = d.pending[p]]
          /\ e.backup = d.backup
      BY Zenon, <1>2 DEF DiskType
    <2> HIDE DEF e
    <2>3. /\ e.files[p] = d.pending[p] /\ e.pending[p] = NoText
          /\ \A q \in Paths \ {p} : e.files[q] = d.files[q] /\ e.pending[q] = d.pending[q]
      BY <1>2, <2>2 DEF DiskType
    <2>4. HalfExported(e, j)
      BY <1>2, <1>4, <2>2, <2>3 DEF HalfExported
    <2>5. DiskHolds(c, e)
      BY Zenon, <1>2, <2>2, <2>3, <2>4, DiskExport
    <2>6. Advances(w[1], d, e, j, TRUE, TRUE) /\ Saves(w[1], d, m, e)
      BY <1>4, <2>2, <2>3 DEF Advances, Saves
    <2>7. \A q \in Paths : Backed(d, m, q) => Backed(e, m, q)
      BY <2>2 DEF Backed
    <2>8. GoesOn(c, d, m, w, st, j, e)
      BY Zenon, <2>1, <2>2, <2>5, <2>6, <2>7 DEF GoesOn
    <2> QED
      BY <1>1, <2>8, CarryDone
  <1> QED
    BY <1>3, <1>4

\* The backup is removed.
LEMMA ExportDropBackup ==
    ASSUME NEW c, NEW d, NEW m, NEW w, NEW st, NEW j, Carries(c, d, m, w, st, j),
           j.kind = "export", NEW p \in Paths, w[1] = <<"drop_backup", p>>, d.pending[p] = NoText
    PROVE  Outcome(c, d, m, w, st)
  <1> DEFINE e == [d EXCEPT !.backup[p] = NoText]
  <1>1. Run(w[1], d, m) = Becomes(e, m) /\ w[1] # <<"remove_journal", j>>
    BY DEF Run, DropBackup
  <1>2. /\ d \in DiskType /\ DiskHolds(c, d) /\ HalfExported(d, j) /\ j \in d.journals
        /\ Range(j.paths) \subseteq Paths
    BY ExportFacts
  <1>3. /\ e \in DiskType
        /\ e.ids = d.ids /\ e.sessions = d.sessions /\ e.flushed = d.flushed
        /\ e.journals = d.journals /\ e.root = d.root /\ e.next_id = d.next_id
        /\ e.pending = d.pending /\ e.files = d.files
        /\ e.backup = [d.backup EXCEPT ![p] = NoText]
    BY <1>2 DEF DiskType
  <1> HIDE DEF e
  <1>4. e.backup[p] = NoText /\ \A q \in Paths \ {p} : e.backup[q] = d.backup[q]
    BY <1>2, <1>3 DEF DiskType
  <1>5. HalfExported(e, j)
    BY <1>2, <1>3, <1>4 DEF HalfExported
  <1>6. DiskHolds(c, e)
    BY <1>2, <1>3, <1>5, DiskExport
  <1>7. Advances(w[1], d, e, j, TRUE, TRUE) /\ Saves(w[1], d, m, e)
    BY <1>3, <1>4 DEF Advances, Saves
  <1>8. \A q \in Paths : Backed(d, m, q) => Backed(e, m, q)
    BY <1>3 DEF Backed
  <1>9. GoesOn(c, d, m, w, st, j, e)
    BY Zenon, <1>1, <1>3, <1>6, <1>7, <1>8 DEF GoesOn
  <1> QED
    BY <1>1, <1>9, CarryDone

\* Recording what an export published, and dropping the record (finalize_exports, and the
\* recovery of an export).
LEMMA ExportFlush ==
    ASSUME NEW c, NEW d, NEW m, NEW w, NEW st, NEW j, Carries(c, d, m, w, st, j),
           j.kind = "export", NEW p \in Paths, NEW t \in Texts \cup {NoDirectory},
           \/ w[1] = <<"drop_flushed", p>> /\ t = NoDirectory
           \/ w[1] = <<"flush", p, t>> /\ t \in Texts /\ FlushBacked(c, d, m, w, 1, p, t)
    PROVE  Outcome(c, d, m, w, st)
  <1> DEFINE e == [d EXCEPT !.flushed[p] = t]
  <1>1. Run(w[1], d, m) = Becomes(e, m) /\ w[1] # <<"remove_journal", j>>
    <2>1. CASE w[1] = <<"drop_flushed", p>> /\ t = NoDirectory
      BY <2>1 DEF Run, DropFlushed
    <2>2. CASE w[1] = <<"flush", p, t>>
      BY <2>2 DEF Run, Flush
    <2> QED
      BY <2>1, <2>2
  <1>2. /\ d \in DiskType /\ DiskHolds(c, d) /\ d.journals = {j} /\ Backed(d, m, p)
        /\ \A s : ~Before(w, 1, s)
    BY Zenon, ExportFacts, CarryFacts
  <1>3. t = NoDirectory \/ (d.ids[p] # NoId /\ ("export" \notin c => t \in d.sessions[p].seen))
    BY <1>2 DEF FlushBacked, Backed
  <1>4. t \in Texts \cup {NoText, NoDirectory}
    OBVIOUS
  <1>5. DiskHolds(c, e)
    BY <1>2, <1>3, <1>4, DiskFlushed
  <1>6. /\ e.ids = d.ids /\ e.sessions = d.sessions /\ e.files = d.files
        /\ e.journals = d.journals /\ e.pending = d.pending /\ e.backup = d.backup
    BY <1>2 DEF DiskType
  <1> HIDE DEF e
  <1>7. Advances(w[1], d, e, j, TRUE, TRUE) /\ Saves(w[1], d, m, e)
    BY <1>6 DEF Advances, Saves
  <1>8. \A q \in Paths : Backed(d, m, q) => Backed(e, m, q)
    BY <1>6 DEF Backed
  <1>9. GoesOn(c, d, m, w, st, j, e)
    BY Zenon, <1>1, <1>5, <1>6, <1>7, <1>8 DEF GoesOn
  <1> QED
    BY <1>1, <1>9, CarryDone

\* The session of an exported document is saved.
LEMMA ExportSave ==
    ASSUME NEW c, NEW d, NEW m, NEW w, NEW j, Carries(c, d, m, w, "up", j),
           j.kind = "export", NEW p \in Paths, w[1] = <<"save", p>>
    PROVE  Outcome(c, d, m, w, "up")
  <1>1. Run(w[1], d, m) = Save(d, m, p) /\ w[1] # <<"remove_journal", j>>
    BY DEF Run
  <1>2. /\ d \in DiskType /\ m \in MemType /\ DiskHolds(c, d) /\ d.journals = {j}
        /\ \A q \in Paths : WholeSession(m.docs[q]) /\ Backed(d, m, q)
    BY ExportFacts
  <1>3. CASE ~m.docs[p].exists
    BY <1>1, <1>3, Refused DEF Save, MayFail, CleansUp
  <1>4. CASE m.docs[p].exists
    <2> DEFINE e == [d EXCEPT !.sessions[p] = m.docs[p]]
    <2>1. /\ e.files = d.files /\ e.ids = d.ids /\ e.pending = d.pending /\ e.backup = d.backup
          /\ e.journals = d.journals /\ e.sessions = [d.sessions EXCEPT ![p] = m.docs[p]]
      BY <1>2 DEF DiskType
    <2>2. m.docs[p] \in Session /\ d.sessions[p].seen \subseteq m.docs[p].seen /\ d.ids[p] # NoId
      BY <1>2, <1>4 DEF MemType, Backed
    <2>3. DiskHolds(c, e)
      BY <1>2, <1>4, <2>2, DiskSession
    <2>4. \A q \in Paths : e.sessions[q] = IF q = p THEN m.docs[p] ELSE d.sessions[q]
      BY <1>2, <2>1 DEF DiskType
    <2>5. Run(w[1], d, m) = Becomes(e, m)
      BY <1>1, <1>4 DEF Save
    <2> HIDE DEF e
    <2>6. Advances(w[1], d, e, j, TRUE, TRUE) /\ Saves(w[1], d, m, e)
      BY <2>1, <2>2, <2>4 DEF Advances, Saves
    <2>7. \A q \in Paths : Backed(d, m, q) => Backed(e, m, q)
      BY <1>2, <1>4, <2>1, <2>4 DEF Backed
    <2>8. GoesOn(c, d, m, w, "up", j, e)
      BY Zenon, <2>1, <2>3, <2>5, <2>6, <2>7 DEF GoesOn
    <2> QED
      BY <1>1, <2>8, CarryDone
  <1> QED
    BY <1>3, <1>4

\* What journal j says is done.
Done(d, m, st, j) ==
    /\ j.kind = "export" =>
          \A p \in Range(j.paths) : d.pending[p] = NoText /\ d.backup[p] = NoText
    /\ j.kind = "rename" =>
          /\ d.ids[j.to] = j.id /\ ~d.sessions[j.from].exists
          /\ d.flushed[j.from] = NoDirectory /\ d.files[j.from] = NoText
          /\ d.ids[j.from] = NoId
          /\ st = "up" => Rekeyable(d, m, j)
    /\ j.kind = "delete" =>
          /\ d.files[j.path] = NoText /\ d.ids[j.path] = NoId
          /\ ~d.sessions[j.path].exists /\ d.flushed[j.path] = NoDirectory

\* The step left after the removal of the journal.
Ends(w, st, j) == Tail(w) = EndOf(j, st)

\* When the journal is removed, what it says is done.
LEMMA RemoveFacts ==
    ASSUME NEW c, NEW d, NEW m, NEW w, NEW st, NEW j, Carries(c, d, m, w, st, j),
           w[1] = <<"remove_journal", j>>
    PROVE  Done(d, m, st, j) /\ Ends(w, st, j)
  <1>1. /\ CarryHolds(c, d, m, w, st, 1, j, TRUE) /\ \A s : ~Before(w, 1, s)
        /\ w \in Seq(Range(w)) /\ j \in Journals
    BY Zenon, CarryFacts
  <1>2. w[1] \notin ExportSet /\ w[1] \notin RenameSet(j) /\ w[1] \notin DeleteSet(j)
    BY DEF ExportSet, RenameSet, DeleteSet
  <1>3. /\ Removable(d, w, 1, j, TRUE)
        /\ j.kind = "rename" /\ st = "up" => Rekeyable(d, m, j)
        /\ Len(w) = 1 + Len(EndOf(j, st))
        /\ \A i \in 1 .. Len(EndOf(j, st)) : w[1 + i] = EndOf(j, st)[i]
    BY Zenon, <1>1, <1>2 DEF CarryHolds
  <1>4. Tail(w) = EndOf(j, st)
    <2>1. w # <<>>
      BY DEF Carries
    <2>2. /\ Len(Tail(w)) = Len(w) - 1 /\ Tail(w) \in Seq(Range(Tail(w)))
          /\ \A k \in 1 .. Len(Tail(w)) : Tail(w)[k] = w[k + 1]
      BY <1>1, <2>1, TailFacts
    <2>3. Len(EndOf(j, st)) \in {0, 1}
      BY <1>1, EndLength
    <2>4. EndOf(j, st) \in Seq(Range(EndOf(j, st)))
      <3>1. j.kind \in {"export", "rename", "delete"}
        BY <1>1, JournalKinds
      <3>2. CASE st # "up"
        <4>1. EndOf(j, st) = <<<<"sweep">>>>
          BY <3>2 DEF EndOf
        <4>2. <<<<"sweep">>>> \in Seq({<<"sweep">>})
          OBVIOUS
        <4> QED
          BY Zenon, <4>1, <4>2, OwnRange
      <3>3. CASE st = "up" /\ j.kind = "export"
        <4>1. EndOf(j, st) = <<>>
          BY <3>3 DEF EndOf
        <4>2. <<>> \in Seq({})
          OBVIOUS
        <4> QED
          BY <4>1, <4>2, OwnRange
      <3>4. CASE st = "up" /\ j.kind = "rename"
        <4> DEFINE x == <<"rekey", j.from, j.to, j.id>>
        <4>1. EndOf(j, st) = <<x>>
          BY <3>4 DEF EndOf
        <4>2. <<x>> \in Seq({x})
          OBVIOUS
        <4> QED
          BY Zenon, <4>1, <4>2, OwnRange
      <3>5. CASE st = "up" /\ j.kind = "delete"
        <4> DEFINE x == <<"forget", j.path>>
        <4>1. EndOf(j, st) = <<x>>
          BY <3>5 DEF EndOf
        <4>2. <<x>> \in Seq({x})
          OBVIOUS
        <4> QED
          BY Zenon, <4>1, <4>2, OwnRange
      <3> QED
        BY <3>1, <3>2, <3>3, <3>4, <3>5
    <2>5. Len(Tail(w)) = Len(EndOf(j, st))
      BY <1>3, <2>2, <2>3
    <2>6. \A k \in 1 .. Len(Tail(w)) : Tail(w)[k] = EndOf(j, st)[k]
      BY <1>3, <2>2, <2>3, <2>5
    <2> QED
      BY <2>2, <2>4, <2>5, <2>6
  <1> QED
    BY Zenon, <1>1, <1>3, <1>4 DEF Removable, Done, Ends

\* Without its journal, the disk is whole.
LEMMA RemoveDisk ==
    ASSUME NEW c, NEW d, NEW m, NEW w, NEW st, NEW j, Carries(c, d, m, w, st, j),
           w[1] = <<"remove_journal", j>>
    PROVE  LET e == [d EXCEPT !.journals = @ \ {j}]
           IN  /\ DiskHolds(c, e) /\ e.journals = {} /\ e.root
               /\ e.ids = d.ids /\ e.sessions = d.sessions /\ e.files = d.files
               /\ e.pending = d.pending /\ e.backup = d.backup
  <1> DEFINE e == [d EXCEPT !.journals = @ \ {j}]
  <1>1. /\ d \in DiskType /\ j \in Journals /\ d.journals = {j} /\ JournalHolds(c, d, j)
        /\ DiskHolds(c, d) /\ d.root /\ SessionsHold(d)
    BY Zenon, CarryFacts
  <1>0. Done(d, m, st, j)
    BY RemoveFacts
  <1>2. /\ j.kind \in {"export", "rename", "delete"}
        /\ j.kind = "export" => Range(j.paths) \subseteq Paths
        /\ j.kind = "rename" => j.from \in Paths /\ j.to \in Paths /\ j.id \in Nat \ {0}
        /\ j.kind = "delete" => j.path \in Paths
    BY <1>1, JournalKinds
  <1>3. \A p \in Paths : Touches(j, p) /\ d.files[p] = NoText => Vacant(d, p)
    <2>1. CASE j.kind = "export"
      BY <1>0, <1>1, <2>1 DEF Done, Touches, JournalHolds, HalfExported
    <2>2. CASE j.kind = "rename"
      <3>1. /\ ~d.sessions[j.from].exists /\ d.flushed[j.from] = NoDirectory
            /\ d.files[j.from] = NoText /\ d.ids[j.from] = NoId
        BY <1>0, <2>2 DEF Done
      <3>2. d.files[j.to] # NoText
        BY <1>1, <2>2, <3>1 DEF JournalHolds, HalfRenamed
      <3> QED
        BY <2>2, <3>1, <3>2 DEF Touches, Vacant
    <2>3. CASE j.kind = "delete"
      BY <1>0, <2>3 DEF Done, Touches, Vacant
    <2> QED
      BY <1>2, <2>1, <2>2, <2>3
  <1>4. \A p \in Paths : "export" \notin c /\ Touches(j, p) /\ d.flushed[p] \in Texts =>
                             d.flushed[p] \in d.sessions[p].seen
    <2>1. NoDirectory \notin Texts
      BY VaultDiskAssumption DEF NoDirectory, Texts
    <2>2. "export" \notin c => \A p \in Paths : FlushedSaved(d, p)
      BY <1>1 DEF DiskHolds, FlushHolds
    <2>3. CASE j.kind = "export"
      BY <1>1, <2>2, <2>3 DEF FlushedSaved
    <2>4. CASE j.kind = "rename"
      <3>1. /\ ~d.sessions[j.from].exists /\ d.flushed[j.from] = NoDirectory
        BY <1>0, <2>4 DEF Done
      <3>2. d.sessions[j.from].seen = {}
        BY <1>1, <1>2, <2>4, <3>1 DEF SessionsHold, WholeSession, NoSession
      <3> QED
        BY <1>1, <2>1, <2>2, <2>4, <3>1, <3>2 DEF FlushedSaved, Touches
    <2>5. CASE j.kind = "delete"
      BY <1>0, <2>1, <2>5 DEF Done, Touches
    <2> QED
      BY <1>2, <2>3, <2>4, <2>5
  <1>5. j.kind = "rename" => d.ids[j.from] = NoId
    BY <1>0 DEF Done
  <1>6. DiskHolds(c, e)
    BY <1>1, <1>3, <1>4, <1>5, DiskUnjournal
  <1> QED
    BY <1>1, <1>6 DEF DiskType

\* The journal is removed: all it asks for was done.
LEMMA CarryRemove ==
    ASSUME NEW c, NEW d, NEW m, NEW w, NEW st, NEW j, Carries(c, d, m, w, st, j), Coherent(c),
           w[1] = <<"remove_journal", j>>
    PROVE  Outcome(c, d, m, w, st)
  <1> DEFINE e == [d EXCEPT !.journals = @ \ {j}]
             v == Tail(w)
  <1>1. Run(w[1], d, m) = Becomes(e, m)
    BY DEF Run, RemoveJournal
  <1>2. /\ DiskHolds(c, e) /\ e.journals = {} /\ e.root
        /\ e.ids = d.ids /\ e.sessions = d.sessions /\ e.files = d.files
        /\ e.pending = d.pending /\ e.backup = d.backup
    BY Zenon, RemoveDisk
  <1>3. /\ m \in MemType /\ d \in DiskType /\ w \in Seq(Range(w)) /\ w # <<>> /\ d.journals = {j}
        /\ j \in Journals /\ JournalHolds(c, d, j) /\ StatusHolds(c, m, w, st)
        /\ \A p \in Paths : WholeSession(m.docs[p]) /\ (Settled(d, w, p) => Backed(d, m, p))
    BY Zenon, CarryFacts DEF Carries, VaultHolds
  <1>0. Done(d, m, st, j) /\ v = EndOf(j, st)
    <2>1. Done(d, m, st, j) /\ Ends(w, st, j)
      BY RemoveFacts
    <2> QED
      BY <2>1 DEF Ends
  <1>4. v \in Seq(Range(v)) /\ v = EndOf(j, st)
    BY <1>0, <1>3, TailFacts
  <1>5. \A p \in Paths : Backed(d, m, p) => Backed(e, m, p)
    BY <1>2 DEF Backed
  <1>6. \A p \in Paths : j.kind = "export" \/ ~Touches(j, p) => Backed(e, m, p)
    BY Zenon, <1>3, <1>5 DEF Settled
  <1>7. j.kind # "export" => NoTemps(e)
    BY <1>2, <1>3 DEF JournalHolds, NoTemps
  <1>8. /\ j.kind \in {"export", "rename", "delete"}
        /\ j.kind = "export" => Range(j.paths) \subseteq Paths
        /\ j.kind = "rename" => j.from \in Paths /\ j.to \in Paths /\ j.id \in Nat \ {0}
        /\ j.kind = "delete" => j.path \in Paths
    BY <1>3, JournalKinds
  <1> HIDE DEF e, v
  <1>9. CASE st # "up"
    <2>1. v = <<<<"sweep">>>> /\ Len(v) = 1 /\ v[1] = <<"sweep">> /\ Head(v) = <<"sweep">> /\ v # <<>>
      BY <1>4, <1>9 DEF EndOf
    <2>2. \A p \in Paths : Backed(e, m, p)
      <3>1. CASE m = NoMemory
        BY <3>1 DEF Backed, NoMemory, NoSession
      <3>2. CASE m # NoMemory
        BY <1>3, <1>6, <1>9, <3>2 DEF StatusHolds, Coherent, JournalHolds, Journals
      <3> QED
        BY <3>1, <3>2
    <2>3. MemHolds(e, m, v)
      BY <1>3, <2>2 DEF MemHolds
    <2>4. TempsHold(e, v, st)
      BY <1>2, <2>1 DEF TempsHold
    <2>5. StatusHolds(c, m, v, st)
      BY <1>3, <1>4, <2>1 DEF StatusHolds
    <2>6. Finishing(e, m, v, st)
      BY <1>2, <1>9, <2>1 DEF Finishing
    <2>7. VaultHolds(c, e, m, v, IF v = <<>> THEN "up" ELSE st)
      BY <1>2, <2>1, <2>3, <2>4, <2>5, <2>6 DEF VaultHolds, WorkHolds
    <2> QED
      BY <1>1, <1>3, <2>7, Taken DEF v
  <1>10. CASE st = "up" /\ j.kind = "export"
    <2>1. v = <<>> /\ Len(v) = 0
      BY <1>4, <1>10 DEF EndOf
    <2>2. NoTemps(e)
      <3>1. HalfExported(d, j)
        BY <1>3, <1>10 DEF JournalHolds
      <3>2. \A p \in Range(j.paths) : d.pending[p] = NoText /\ d.backup[p] = NoText
        BY <1>0, <1>10 DEF Done
      <3> QED
        BY <1>2, <3>1, <3>2 DEF NoTemps, HalfExported
    <2>3. Plain(c, e, m, v, "up")
      BY <1>2, <2>1 DEF Plain
    <2>4. VaultHolds(c, e, m, v, "up")
      BY <1>2, <1>3, <1>4, <1>6, <1>10, <2>2, <2>3, PlainState
    <2> QED
      BY <1>1, <1>3, <1>10, <2>4, Taken DEF v
  <1>11. CASE st = "up" /\ j.kind = "rename"
    <2> DEFINE x == <<"rekey", j.from, j.to, j.id>>
    <2>1. v = <<x>> /\ Len(v) = 1 /\ v[1] = x /\ Head(v) = x /\ v # <<>>
      BY <1>4, <1>11 DEF EndOf
    <2>2. MemHolds(e, m, v)
      BY <1>2, <1>3, <1>6, <1>11, <2>1 DEF MemHolds, Settled, Touches
    <2>3. Finishing(e, m, v, "up")
      <3>1. /\ d.ids[j.to] = j.id /\ ~d.sessions[j.from].exists /\ d.ids[j.from] = NoId
            /\ Rekeyable(d, m, j)
        BY <1>0, <1>11 DEF Done
      <3>0. HalfRenamed(d, j)
        BY <1>3, <1>11 DEF JournalHolds
      <3>2. j.from # j.to /\ d.sessions[j.to].exists
        BY <1>3, <1>8, <1>11, <3>0, <3>1 DEF HalfRenamed, DiskType, Session
      <3>3. j.id # NoId
        BY <1>8, <1>11 DEF NoId
      <3> QED
        BY <1>2, <1>8, <1>11, <2>1, <3>1, <3>2, <3>3 DEF Finishing, Rekeyable
    <2>4. TempsHold(e, v, "up")
      BY <1>7, <1>11 DEF TempsHold
    <2>5. StatusHolds(c, m, v, "up")
      BY <1>4 DEF StatusHolds
    <2>6. VaultHolds(c, e, m, v, "up")
      BY <1>2, <2>2, <2>3, <2>4, <2>5 DEF VaultHolds, WorkHolds
    <2> QED
      BY <1>1, <1>3, <1>11, <2>6, Taken DEF v
  <1>12. CASE st = "up" /\ j.kind = "delete"
    <2> DEFINE x == <<"forget", j.path>>
    <2>1. v = <<x>> /\ Len(v) = 1 /\ v[1] = x /\ Head(v) = x /\ v # <<>>
      BY <1>4, <1>12 DEF EndOf
    <2>2. MemHolds(e, m, v)
      BY SMTT(30), <1>2, <1>3, <1>6, <1>12, <2>1 DEF MemHolds, Settled, Touches
    <2>3. Finishing(e, m, v, "up")
      BY <1>2, <1>8, <1>12, <2>1 DEF Finishing
    <2>4. TempsHold(e, v, "up")
      BY <1>7, <1>12 DEF TempsHold
    <2>5. StatusHolds(c, m, v, "up")
      BY <1>4 DEF StatusHolds
    <2>6. VaultHolds(c, e, m, v, "up")
      BY <1>2, <2>2, <2>3, <2>4, <2>5 DEF VaultHolds, WorkHolds
    <2> QED
      BY <1>1, <1>3, <1>12, <2>6, Taken DEF v
  <1> QED
    BY <1>8, <1>9, <1>10, <1>11, <1>12

\* Every step that carries out the journal of an export.
LEMMA ExportStep ==
    ASSUME NEW c, NEW d, NEW m, NEW w, NEW st, NEW j, Carries(c, d, m, w, st, j), Coherent(c),
           j.kind = "export"
    PROVE  Outcome(c, d, m, w, st)
  <1>1. CarryHolds(c, d, m, w, st, 1, j, TRUE) /\ \A s : ~Before(w, 1, s)
    BY Zenon, CarryFacts
  <1>2. CASE w[1] = <<"remove_journal", j>>
    BY <1>2, CarryRemove
  <1>3. CASE w[1] # <<"remove_journal", j>>
    <2>1. /\ w[1] \in ExportSet
          /\ w[1][1] \in {"displace", "install", "drop_backup"} => w[1][2] \in Range(j.paths)
          /\ w[1][1] = "drop_backup" => d.pending[w[1][2]] = NoText
          /\ w[1][1] \in {"save", "flush"} => st = "up"
          /\ w[1][1] = "flush" => FlushBacked(c, d, m, w, 1, w[1][2], w[1][3])
      BY Zenon, <1>1, <1>3 DEF CarryHolds
    <2>2. CASE w[1] \in {"displace", "install", "drop_backup", "drop_flushed", "save"} \X Paths
      <3>1. PICK p \in Paths : \/ w[1] = <<"displace", p>> \/ w[1] = <<"install", p>>
                               \/ w[1] = <<"drop_backup", p>> \/ w[1] = <<"drop_flushed", p>>
                               \/ w[1] = <<"save", p>>
        BY <2>2
      <3>2. CASE w[1] = <<"displace", p>>
        BY <2>1, <3>2, ExportDisplace
      <3>3. CASE w[1] = <<"install", p>>
        BY <2>1, <3>3, ExportInstall
      <3>4. CASE w[1] = <<"drop_backup", p>>
        BY <2>1, <3>4, ExportDropBackup
      <3>5. CASE w[1] = <<"drop_flushed", p>>
        BY <3>5, ExportFlush
      <3>6. CASE w[1] = <<"save", p>>
        BY <2>1, <3>6, ExportSave
      <3> QED
        BY <3>1, <3>2, <3>3, <3>4, <3>5, <3>6
    <2>3. CASE w[1] \in {"flush"} \X Paths \X Texts
      <3>1. PICK p \in Paths, t \in Texts : w[1] = <<"flush", p, t>>
        BY <2>3
      <3> QED
        BY <2>1, <3>1, ExportFlush
    <2> QED
      BY <2>1, <2>2, <2>3 DEF ExportSet
  <1> QED
    BY <1>2, <1>3

-----------------------------------------------------------------------------
(* Renames.                                                                 *)

\* The document moves from one path to the other, which nothing else uses.
LEMMA RenameFacts ==
    ASSUME NEW c, NEW d, NEW m, NEW w, NEW st, NEW j, Carries(c, d, m, w, st, j), j.kind = "rename"
    PROVE  /\ d \in DiskType /\ DiskHolds(c, d) /\ d.journals = {j} /\ j \in d.journals
           /\ HalfRenamed(d, j) /\ SessionsHold(d)
           /\ j.from \in Paths /\ j.to \in Paths /\ j.id \in Nat \ {0} /\ j.from # j.to
           /\ "export" \notin c => \A p \in {j.from, j.to} : d.flushed[p] \in Texts =>
                 d.flushed[p] \in d.sessions[j.from].seen \cup d.sessions[j.to].seen
  <1>1. /\ d \in DiskType /\ DiskHolds(c, d) /\ d.journals = {j} /\ JournalHolds(c, d, j)
        /\ j \in Journals /\ SessionsHold(d)
    BY Zenon, CarryFacts
  <1>2. HalfRenamed(d, j)
    BY <1>1 DEF JournalHolds
  <1>3. j.from \in Paths /\ j.to \in Paths /\ j.id \in Nat \ {0}
    BY <1>1, JournalKinds
  <1>4. "export" \notin c => \A p \in {j.from, j.to} : d.flushed[p] \in Texts =>
           d.flushed[p] \in d.sessions[j.from].seen \cup d.sessions[j.to].seen
    BY <1>1, <1>3 DEF DiskHolds, FlushHolds, FlushedSaved
  <1>5. j.from # j.to
    BY <1>2 DEF HalfRenamed
  <1> QED
    BY Zenon, <1>1, <1>2, <1>3, <1>4, <1>5

\* What a step of a rename changes is at the two paths, and moves towards the new one.
MovesOn(c, s, d, e, j) ==
    /\ e \in DiskType /\ HalfRenamed(e, j) /\ SessionsHold(e)
    /\ e.pending = d.pending /\ e.backup = d.backup
    /\ e.journals = d.journals /\ e.root = d.root /\ e.next_id = d.next_id
    /\ \A q \in Paths \ {j.from, j.to} :
          /\ e.files[q] = d.files[q] /\ e.ids[q] = d.ids[q]
          /\ e.sessions[q] = d.sessions[q] /\ e.flushed[q] = d.flushed[q]
    /\ "export" \notin c => \A q \in {j.from, j.to} : e.flushed[q] \in Texts =>
          e.flushed[q] \in e.sessions[j.from].seen \cup e.sessions[j.to].seen
    /\ e.sessions[j.from].seen \cup e.sessions[j.to].seen
          \subseteq d.sessions[j.from].seen \cup d.sessions[j.to].seen
    /\ Advances(s, d, e, j, TRUE, TRUE)

\* A step of a rename that moves one record on keeps the invariant.
LEMMA RenameDone ==
    ASSUME NEW c, NEW d, NEW m, NEW w, NEW st, NEW j, NEW e, Carries(c, d, m, w, st, j),
           j.kind = "rename", w[1] # <<"remove_journal", j>>,
           Run(w[1], d, m) = Becomes(e, m), MovesOn(c, w[1], d, e, j)
    PROVE  Outcome(c, d, m, w, st)
  <1>1. /\ d \in DiskType /\ DiskHolds(c, d) /\ d.journals = {j} /\ j \in d.journals
        /\ j.from \in Paths /\ j.to \in Paths
    BY Zenon, RenameFacts
  <1>2. DiskHolds(c, e)
    BY Zenon, <1>1, DiskRename DEF MovesOn
  <1>3. Rekeyable(d, m, j) => Rekeyable(e, m, j)
    BY Zenon DEF Rekeyable, MovesOn
  <1>4. \A p \in Paths : ~Touches(j, p) /\ Backed(d, m, p) => Backed(e, m, p)
    BY Zenon DEF Touches, Backed, MovesOn
  <1>5. GoesOn(c, d, m, w, st, j, e)
    BY Zenon, <1>2, <1>3, <1>4 DEF GoesOn, MovesOn
  <1> QED
    BY <1>5, CarryDone

\* A rename under way never has a file at both ends, so it is not refused.
LEMMA RenameRefuse ==
    ASSUME NEW c, NEW d, NEW m, NEW w, NEW st, NEW j, Carries(c, d, m, w, st, j),
           j.kind = "rename", w[1] = <<"refuse_two_files", j.from, j.to>>
    PROVE  Outcome(c, d, m, w, st)
  <1>1. /\ d \in DiskType /\ HalfRenamed(d, j) /\ SessionsHold(d)
        /\ j.from \in Paths /\ j.to \in Paths
        /\ "export" \notin c => \A p \in {j.from, j.to} : d.flushed[p] \in Texts =>
              d.flushed[p] \in d.sessions[j.from].seen \cup d.sessions[j.to].seen
    BY Zenon, RenameFacts
  <1>2. Run(w[1], d, m) = Becomes(d, m) /\ w[1] # <<"remove_journal", j>>
    BY <1>1 DEF Run, RefuseTwoFiles, HalfRenamed
  <1>3. Advances(w[1], d, d, j, TRUE, TRUE)
    BY SMTT(30) DEF Advances
  <1>4. MovesOn(c, w[1], d, d, j)
    BY Zenon, <1>1, <1>3 DEF MovesOn
  <1> QED
    BY <1>2, <1>4, RenameDone

\* The identity is recorded at the new path, or dropped at the old one.
LEMMA RenameIdentity ==
    ASSUME NEW c, NEW d, NEW m, NEW w, NEW st, NEW j, Carries(c, d, m, w, st, j),
           j.kind = "rename",
           NEW p, NEW i, \/ w[1] = <<"persist_identity", p, i>> /\ p = j.to /\ i = j.id
                         \/ w[1] = <<"drop_identity", p>> /\ p = j.from /\ i = NoId
    PROVE  Outcome(c, d, m, w, st)
  <1> DEFINE e == [d EXCEPT !.ids[p] = i]
  <1>1. /\ d \in DiskType /\ HalfRenamed(d, j) /\ SessionsHold(d)
        /\ j.from \in Paths /\ j.to \in Paths /\ j.id \in Nat \ {0} /\ j.from # j.to
        /\ "export" \notin c => \A q \in {j.from, j.to} : d.flushed[q] \in Texts =>
              d.flushed[q] \in d.sessions[j.from].seen \cup d.sessions[j.to].seen
    <2>1. /\ d \in DiskType /\ HalfRenamed(d, j) /\ SessionsHold(d)
          /\ j.from \in Paths /\ j.to \in Paths /\ j.id \in Nat \ {0}
      BY Zenon, RenameFacts
    <2>2. "export" \notin c => \A q \in {j.from, j.to} : d.flushed[q] \in Texts =>
              d.flushed[q] \in d.sessions[j.from].seen \cup d.sessions[j.to].seen
      BY Zenon, RenameFacts
    <2>3. j.from # j.to
      BY Zenon, <2>1 DEF HalfRenamed
    <2> QED
      BY Zenon, <2>1, <2>2, <2>3
  <1>2. Run(w[1], d, m) = Becomes(e, m) /\ w[1] # <<"remove_journal", j>>
    <2>1. CASE w[1] = <<"persist_identity", p, i>> /\ p = j.to /\ i = j.id
      BY <1>1, <2>1 DEF Run, PersistIdentity, HalfRenamed
    <2>2. CASE w[1] = <<"drop_identity", p>> /\ i = NoId
      BY <2>2 DEF Run, DropIdentity
    <2> QED
      BY <2>1, <2>2
  <1>3. p \in Paths /\ i \in Nat
    BY <1>1 DEF NoId
  <1>4. /\ e \in DiskType
        /\ e.files = d.files /\ e.sessions = d.sessions /\ e.flushed = d.flushed
        /\ e.journals = d.journals /\ e.root = d.root /\ e.next_id = d.next_id
        /\ e.pending = d.pending /\ e.backup = d.backup
        /\ \A q \in Paths : e.ids[q] = IF q = p THEN i ELSE d.ids[q]
    BY <1>1, <1>3 DEF DiskType
  <1> HIDE DEF e
  <1>5. HalfRenamed(e, j)
    BY Zenon, <1>1, <1>4 DEF HalfRenamed
  <1>6. SessionsHold(e)
    BY <1>1, <1>4 DEF SessionsHold
  <1>7. Advances(w[1], d, e, j, TRUE, TRUE)
    <2>1. /\ e.files = d.files /\ e.sessions = d.sessions /\ e.flushed = d.flushed
          /\ p = j.to => e.ids[j.to] = i /\ e.ids[j.from] = d.ids[j.from]
          /\ p = j.from => e.ids[j.from] = i /\ e.ids[j.to] = d.ids[j.to]
      BY Zenon, <1>1, <1>4
    <2> QED
      BY <2>1 DEF Advances
  <1>8. MovesOn(c, w[1], d, e, j)
    BY Zenon, <1>1, <1>4, <1>5, <1>6, <1>7 DEF MovesOn
  <1> QED
    BY <1>2, <1>8, RenameDone

\* The saved session is moved.
LEMMA RenameSession ==
    ASSUME NEW c, NEW d, NEW m, NEW w, NEW st, NEW j, Carries(c, d, m, w, st, j),
           j.kind = "rename", w[1] = <<"move_session", j.from, j.to>>
    PROVE  Outcome(c, d, m, w, st)
  <1> DEFINE s == IF d.sessions[j.to].exists THEN d.sessions[j.to] ELSE d.sessions[j.from]
             e == [d EXCEPT !.sessions[j.from] = NoSession, !.sessions[j.to] = s]
  <1>1. /\ d \in DiskType /\ HalfRenamed(d, j) /\ SessionsHold(d)
        /\ j.from \in Paths /\ j.to \in Paths /\ j.id \in Nat \ {0} /\ j.from # j.to
        /\ "export" \notin c => \A q \in {j.from, j.to} : d.flushed[q] \in Texts =>
              d.flushed[q] \in d.sessions[j.from].seen \cup d.sessions[j.to].seen
    BY Zenon, RenameFacts
  <1>2. Run(w[1], d, m) = Becomes(e, m) /\ w[1] # <<"remove_journal", j>>
    BY <1>1 DEF Run, MoveSession, DiskType
  <1>3. /\ d.sessions[j.from] \in Session /\ d.sessions[j.to] \in Session
        /\ WholeSession(d.sessions[j.from]) /\ WholeSession(d.sessions[j.to])
        /\ NoSession \in Session /\ WholeSession(NoSession)
        /\ d.sessions[j.from].exists # d.sessions[j.to].exists
    BY Zenon, <1>1 DEF DiskType, SessionsHold, HalfRenamed, Session, WholeSession, NoSession
  <1>4. /\ s \in Session /\ WholeSession(s) /\ s.exists
        /\ s.seen = d.sessions[j.from].seen \cup d.sessions[j.to].seen
    <2>1. CASE d.sessions[j.to].exists
      <3>1. d.sessions[j.from] = NoSession
        BY Zenon, <1>3, <2>1 DEF WholeSession, Session
      <3> QED
        BY <1>3, <2>1, <3>1 DEF NoSession
    <2>2. CASE ~d.sessions[j.to].exists
      <3>1. d.sessions[j.to] = NoSession /\ d.sessions[j.from].exists
        BY <1>3, <2>2 DEF WholeSession, Session
      <3> QED
        BY <1>3, <2>2, <3>1 DEF NoSession
    <2> QED
      BY Zenon, <2>1, <2>2
  <1> HIDE DEF s
  <1>5. /\ e \in DiskType
        /\ e.files = d.files /\ e.ids = d.ids /\ e.flushed = d.flushed
        /\ e.journals = d.journals /\ e.root = d.root /\ e.next_id = d.next_id
        /\ e.pending = d.pending /\ e.backup = d.backup
        /\ e.sessions = [d.sessions EXCEPT ![j.from] = NoSession, ![j.to] = s]
    BY Zenon, <1>1, <1>3, <1>4 DEF DiskType
  <1>6. /\ e.sessions[j.from] = NoSession /\ e.sessions[j.to] = s
        /\ \A q \in Paths \ {j.from, j.to} : e.sessions[q] = d.sessions[q]
    BY <1>1, <1>5 DEF DiskType
  <1> HIDE DEF e
  <1>7. HalfRenamed(e, j)
    <2>1. e.sessions[j.from].exists # e.sessions[j.to].exists
      <3>1. e.sessions[j.from].exists = FALSE
        BY <1>6 DEF NoSession
      <3>2. e.sessions[j.to].exists
        BY Zenon, <1>4, <1>6
      <3> QED
        BY Zenon, <3>1, <3>2
    <2>2. e.files = d.files /\ e.ids = d.ids /\ e.next_id = d.next_id /\ HalfRenamed(d, j)
      BY Zenon, <1>1, <1>5
    <2> QED
      BY <2>1, <2>2 DEF HalfRenamed
  <1>8. SessionsHold(e)
    BY <1>1, <1>3, <1>4, <1>6 DEF SessionsHold
  <1>9. Advances(w[1], d, e, j, TRUE, TRUE)
    <2>1. ~e.sessions[j.from].exists
      BY <1>6 DEF NoSession
    <2>2. e.files = d.files /\ e.ids = d.ids /\ e.flushed = d.flushed
      BY Zenon, <1>5
    <2> QED
      BY <2>1, <2>2 DEF Advances
  <1>10. e.sessions[j.from].seen \cup e.sessions[j.to].seen
         = d.sessions[j.from].seen \cup d.sessions[j.to].seen
    BY <1>4, <1>6 DEF NoSession
  <1>11. MovesOn(c, w[1], d, e, j)
    BY Zenon, <1>1, <1>5, <1>6, <1>7, <1>8, <1>9, <1>10 DEF MovesOn
  <1> QED
    BY <1>2, <1>11, RenameDone

\* The flushed hash is moved.
LEMMA RenameFlushed ==
    ASSUME NEW c, NEW d, NEW m, NEW w, NEW st, NEW j, Carries(c, d, m, w, st, j),
           j.kind = "rename", w[1] = <<"move_flushed", j.from, j.to>>
    PROVE  Outcome(c, d, m, w, st)
  <1> DEFINE t == IF d.flushed[j.to] # NoDirectory THEN d.flushed[j.to] ELSE d.flushed[j.from]
             e == [d EXCEPT !.flushed[j.from] = NoDirectory, !.flushed[j.to] = t]
  <1>1. /\ d \in DiskType /\ HalfRenamed(d, j) /\ SessionsHold(d)
        /\ j.from \in Paths /\ j.to \in Paths /\ j.id \in Nat \ {0} /\ j.from # j.to
        /\ "export" \notin c => \A q \in {j.from, j.to} : d.flushed[q] \in Texts =>
              d.flushed[q] \in d.sessions[j.from].seen \cup d.sessions[j.to].seen
    BY Zenon, RenameFacts
  <1>2. Run(w[1], d, m) = Becomes(e, m) /\ w[1] # <<"remove_journal", j>>
    BY <1>1 DEF Run, MoveFlushed, DiskType
  <1>3. t = d.flushed[j.to] \/ t = d.flushed[j.from]
    OBVIOUS
  <1> HIDE DEF t
  <1>4. t \in Texts \cup {NoText, NoDirectory}
    BY <1>1, <1>3 DEF DiskType
  <1>5. /\ e \in DiskType
        /\ e.files = d.files /\ e.ids = d.ids /\ e.sessions = d.sessions
        /\ e.journals = d.journals /\ e.root = d.root /\ e.next_id = d.next_id
        /\ e.pending = d.pending /\ e.backup = d.backup
        /\ e.flushed = [d.flushed EXCEPT ![j.from] = NoDirectory, ![j.to] = t]
    BY Zenon, <1>1, <1>4 DEF DiskType
  <1>6. /\ e.flushed[j.from] = NoDirectory /\ e.flushed[j.to] = t
        /\ \A q \in Paths \ {j.from, j.to} : e.flushed[q] = d.flushed[q]
    BY <1>1, <1>5 DEF DiskType
  <1> HIDE DEF e
  <1>7. HalfRenamed(e, j)
    BY Zenon, <1>1, <1>5 DEF HalfRenamed
  <1>8. SessionsHold(e)
    BY <1>1, <1>5 DEF SessionsHold
  <1>9. Advances(w[1], d, e, j, TRUE, TRUE)
    <2>1. /\ e.files = d.files /\ e.ids = d.ids /\ e.sessions = d.sessions
          /\ e.flushed[j.from] = NoDirectory
      BY Zenon, <1>5, <1>6
    <2> QED
      BY <2>1 DEF Advances
  <1>10. NoDirectory \notin Texts
    BY VaultDiskAssumption DEF NoDirectory, Texts
  <1>11. "export" \notin c => \A q \in {j.from, j.to} : e.flushed[q] \in Texts =>
            e.flushed[q] \in e.sessions[j.from].seen \cup e.sessions[j.to].seen
    BY Zenon, <1>1, <1>3, <1>5, <1>6, <1>10
  <1>12. MovesOn(c, w[1], d, e, j)
    BY Zenon, <1>1, <1>5, <1>6, <1>7, <1>8, <1>9, <1>11 DEF MovesOn
  <1> QED
    BY <1>2, <1>12, RenameDone

\* The file is moved.
LEMMA RenameFile ==
    ASSUME NEW c, NEW d, NEW m, NEW w, NEW st, NEW j, Carries(c, d, m, w, st, j),
           j.kind = "rename", w[1] = <<"move_file", j.from, j.to>>
    PROVE  Outcome(c, d, m, w, st)
  <1>1. /\ d \in DiskType /\ HalfRenamed(d, j) /\ SessionsHold(d)
        /\ j.from \in Paths /\ j.to \in Paths /\ j.id \in Nat \ {0} /\ j.from # j.to
        /\ "export" \notin c => \A q \in {j.from, j.to} : d.flushed[q] \in Texts =>
              d.flushed[q] \in d.sessions[j.from].seen \cup d.sessions[j.to].seen
    BY Zenon, RenameFacts
  <1>2. Run(w[1], d, m) = MoveFile(d, m, j.from, j.to) /\ w[1] # <<"remove_journal", j>>
    BY DEF Run
  <1>3. CASE d.files[j.from] = NoText
    <2>1. Run(w[1], d, m) = Becomes(d, m)
      BY <1>1, <1>2, <1>3 DEF MoveFile, HalfRenamed
    <2>2. Advances(w[1], d, d, j, TRUE, TRUE)
      BY <1>3 DEF Advances
    <2>3. MovesOn(c, w[1], d, d, j)
      BY Zenon, <1>1, <2>2 DEF MovesOn
    <2> QED
      BY <1>2, <2>1, <2>3, RenameDone
  <1>4. CASE d.files[j.from] # NoText
    <2> DEFINE e == [d EXCEPT !.files[j.to] = d.files[j.from], !.files[j.from] = NoText]
    <2>1. Run(w[1], d, m) = Becomes(e, m)
      BY <1>2, <1>4 DEF MoveFile
    <2>2. /\ e \in DiskType
          /\ e.flushed = d.flushed /\ e.ids = d.ids /\ e.sessions = d.sessions
          /\ e.journals = d.journals /\ e.root = d.root /\ e.next_id = d.next_id
          /\ e.pending = d.pending /\ e.backup = d.backup
          /\ e.files = [d.files EXCEPT ![j.to] = d.files[j.from], ![j.from] = NoText]
      BY Zenon, <1>1 DEF DiskType
    <2>3. /\ e.files[j.from] = NoText /\ e.files[j.to] = d.files[j.from]
          /\ \A q \in Paths \ {j.from, j.to} : e.files[q] = d.files[q]
      BY <1>1, <2>2 DEF DiskType
    <2> HIDE DEF e
    <2>4. HalfRenamed(e, j)
      BY Zenon, <1>1, <1>4, <2>2, <2>3 DEF HalfRenamed
    <2>5. SessionsHold(e)
      BY Zenon, <1>1, <2>2 DEF SessionsHold
    <2>6. Advances(w[1], d, e, j, TRUE, TRUE)
      <3>1. /\ e.flushed = d.flushed /\ e.ids = d.ids /\ e.sessions = d.sessions
            /\ e.files[j.from] = NoText
        BY Zenon, <2>2, <2>3
      <3> QED
        BY <3>1 DEF Advances
    <2>7. MovesOn(c, w[1], d, e, j)
      BY Zenon, <1>1, <2>2, <2>3, <2>4, <2>5, <2>6 DEF MovesOn
    <2> QED
      BY <1>2, <2>1, <2>7, RenameDone
  <1> QED
    BY <1>3, <1>4

\* Every step that carries out the journal of a rename.
LEMMA RenameStep ==
    ASSUME NEW c, NEW d, NEW m, NEW w, NEW st, NEW j, Carries(c, d, m, w, st, j), Coherent(c),
           j.kind = "rename"
    PROVE  Outcome(c, d, m, w, st)
  <1>1. CarryHolds(c, d, m, w, st, 1, j, TRUE) /\ \A s : ~Before(w, 1, s)
    BY Zenon, CarryFacts
  <1>2. CASE w[1] = <<"remove_journal", j>>
    BY <1>2, CarryRemove
  <1>3. CASE w[1] # <<"remove_journal", j>>
    <2>1. w[1] \in RenameSet(j)
      BY Zenon, <1>1, <1>3 DEF CarryHolds
    <2>2. CASE w[1] = <<"refuse_two_files", j.from, j.to>>
      BY <2>2, RenameRefuse
    <2>3. CASE w[1] = <<"persist_identity", j.to, j.id>>
      BY <2>3, RenameIdentity
    <2>4. CASE w[1] = <<"move_session", j.from, j.to>>
      BY <2>4, RenameSession
    <2>5. CASE w[1] = <<"move_flushed", j.from, j.to>>
      BY <2>5, RenameFlushed
    <2>6. CASE w[1] = <<"move_file", j.from, j.to>>
      BY <2>6, RenameFile
    <2>7. CASE w[1] = <<"drop_identity", j.from>>
      BY <2>7, RenameIdentity
    <2> QED
      BY <2>1, <2>2, <2>3, <2>4, <2>5, <2>6, <2>7 DEF RenameSet
  <1> QED
    BY <1>2, <1>3

-----------------------------------------------------------------------------
(* Deletions.                                                               *)

\* What a step of a deletion changes is at its path.
Clears(s, d, e, j) ==
    /\ e \in DiskType /\ SessionsHold(e)
    /\ e.pending = d.pending /\ e.backup = d.backup
    /\ e.journals = d.journals /\ e.root = d.root /\ e.next_id = d.next_id
    /\ e.ids[j.path] \in {d.ids[j.path], NoId}
    /\ \A q \in Paths \ {j.path} :
          /\ e.files[q] = d.files[q] /\ e.ids[q] = d.ids[q]
          /\ e.sessions[q] = d.sessions[q] /\ e.flushed[q] = d.flushed[q]
    /\ Advances(s, d, e, j, TRUE, TRUE)

\* A step of a deletion that clears one record keeps the invariant.
LEMMA DeleteDone ==
    ASSUME NEW c, NEW d, NEW m, NEW w, NEW st, NEW j, NEW e, Carries(c, d, m, w, st, j),
           j.kind = "delete", w[1] # <<"remove_journal", j>>,
           Run(w[1], d, m) = Becomes(e, m), Clears(w[1], d, e, j)
    PROVE  Outcome(c, d, m, w, st)
  <1>1. DiskHolds(c, d) /\ d.journals = {j}
    BY Zenon, CarryFacts
  <1>2. DiskHolds(c, e)
    BY Zenon, <1>1, DiskDelete DEF Clears
  <1>3. \A p \in Paths : ~Touches(j, p) /\ Backed(d, m, p) => Backed(e, m, p)
    BY DEF Touches, Backed, Clears
  <1>4. GoesOn(c, d, m, w, st, j, e)
    BY Zenon, <1>2, <1>3 DEF GoesOn, Clears
  <1> QED
    BY <1>4, CarryDone

\* Every step that carries out the journal of a deletion.
LEMMA DeleteStep ==
    ASSUME NEW c, NEW d, NEW m, NEW w, NEW st, NEW j, Carries(c, d, m, w, st, j), Coherent(c),
           j.kind = "delete"
    PROVE  Outcome(c, d, m, w, st)
  <1> DEFINE p == j.path
  <1>1. /\ CarryHolds(c, d, m, w, st, 1, j, TRUE) /\ \A s : ~Before(w, 1, s)
        /\ d \in DiskType /\ j \in Journals /\ SessionsHold(d)
    BY Zenon, CarryFacts
  <1>2. p \in Paths
    BY <1>1, JournalKinds
  <1>3. CASE w[1] = <<"remove_journal", j>>
    BY <1>3, CarryRemove
  <1>4. CASE w[1] # <<"remove_journal", j>>
    <2>1. w[1] \in DeleteSet(j)
      BY Zenon, <1>1, <1>4 DEF CarryHolds
    <2>2. CASE w[1] = <<"drop_file", j.path>>
      <3> DEFINE e == [d EXCEPT !.files[p] = NoText]
      <3>1. Run(w[1], d, m) = Becomes(e, m)
        BY <2>2 DEF Run, DropFile
      <3>2. Advances(w[1], d, e, j, TRUE, TRUE)
        BY <1>1, <1>2, <2>2 DEF Advances, DiskType
      <3>3. Clears(w[1], d, e, j)
        BY Zenon, <1>1, <1>2, <3>2 DEF Clears, DiskType, SessionsHold
      <3> QED
        BY <1>4, <3>1, <3>3, DeleteDone
    <2>3. CASE w[1] = <<"drop_identity", j.path>>
      <3> DEFINE e == [d EXCEPT !.ids[p] = NoId]
      <3>1. Run(w[1], d, m) = Becomes(e, m)
        BY <2>3 DEF Run, DropIdentity
      <3>2. Advances(w[1], d, e, j, TRUE, TRUE)
        BY <1>1, <1>2, <2>3 DEF Advances, DiskType
      <3>3. Clears(w[1], d, e, j)
        BY Zenon, <1>1, <1>2, <3>2 DEF Clears, DiskType, SessionsHold, NoId
      <3> QED
        BY <1>4, <3>1, <3>3, DeleteDone
    <2>4. CASE w[1] = <<"drop_session", j.path>>
      <3> DEFINE e == [d EXCEPT !.sessions[p] = NoSession]
      <3>1. Run(w[1], d, m) = Becomes(e, m)
        BY <2>4 DEF Run, DropSession
      <3>2. NoSession \in Session /\ WholeSession(NoSession)
        BY DEF Session, WholeSession, NoSession
      <3>3. Advances(w[1], d, e, j, TRUE, TRUE)
        BY <1>1, <1>2, <2>4 DEF Advances, DiskType, NoSession
      <3>4. Clears(w[1], d, e, j)
        BY Zenon, <1>1, <1>2, <3>2, <3>3 DEF Clears, DiskType, SessionsHold
      <3> QED
        BY <1>4, <3>1, <3>4, DeleteDone
    <2>5. CASE w[1] = <<"drop_flushed", j.path>>
      <3> DEFINE e == [d EXCEPT !.flushed[p] = NoDirectory]
      <3>1. Run(w[1], d, m) = Becomes(e, m)
        BY <2>5 DEF Run, DropFlushed
      <3>2. Advances(w[1], d, e, j, TRUE, TRUE)
        BY <1>1, <1>2, <2>5 DEF Advances, DiskType
      <3>3. Clears(w[1], d, e, j)
        BY Zenon, <1>1, <1>2, <3>2 DEF Clears, DiskType, SessionsHold
      <3> QED
        BY <1>4, <3>1, <3>3, DeleteDone
    <2> QED
      BY <2>1, <2>2, <2>3, <2>4, <2>5 DEF DeleteSet
  <1> QED
    BY <1>3, <1>4

\* Every step of a call that carries out a journal.
LEMMA CarryStep ==
    ASSUME NEW c, NEW d, NEW m, NEW w, NEW st, VaultHolds(c, d, m, w, st), Coherent(c),
           Carrying(c, d, m, w, st), w # <<>>
    PROVE  Outcome(c, d, m, w, st)
  <1>1. PICK j \in d.journals : Carries(c, d, m, w, st, j)
    BY Zenon DEF Carrying, Carries
  <1>2. j \in Journals
    BY Zenon, <1>1, CarryFacts
  <1> QED
    BY <1>1, <1>2, JournalKinds, ExportStep, RenameStep, DeleteStep
=============================================================================
