---------------------------- MODULE StorageProofs ----------------------------
(***************************************************************************)
(* Proof that the two-slot container of Storage implements DurableCell, for *)
(* any set of payloads and any number of writes, errors and crashes, until  *)
(* a file is damaged at rest; that damaged superblocks never lead a write   *)
(* to the sole good slot; and that the container with operation segments    *)
(* and compaction of OpSegments implements it and loses no operation.       *)
(***************************************************************************)
EXTENDS OpSegments, FiniteSetTheorems, TLAPS

\* A non-empty set of naturals has a least element.
LEMMA MinimumExists ==
    ASSUME NEW T \in SUBSET Nat, T # {}
    PROVE  \E m \in T : \A n \in T : m <= n
<1>1. \E m \in T : \A n \in T : ~(<<n, m>> \in OpToRel(<, Nat))
  BY NatLessThanWellFounded, WFMin, Zenon
<1>2. PICK m \in T : \A n \in T : ~(<<n, m>> \in OpToRel(<, Nat))
  BY Zenon, <1>1
<1>3. \A n \in T : ~(n < m)
  BY Zenon, <1>2 DEF OpToRel
<1> QED
  BY <1>3

\* A non-empty bounded set of naturals has a greatest element.
LEMMA MaximumExists ==
    ASSUME NEW T \in SUBSET Nat, T # {}, NEW b \in Nat, \A n \in T : n <= b
    PROVE  \E m \in T : \A n \in T : n <= m
<1> DEFINE U == {b - n : n \in T}
<1>1. \A n \in T : b - n \in Nat
  OBVIOUS
<1>2. PICK t \in T : TRUE
  BY Zenon
<1>3. b - t \in U
  BY <1>2
<1>4. U \in SUBSET Nat
  BY <1>1
<1>5. PICK u \in U : \A w \in U : u <= w
  <2> HIDE DEF U
  <2> QED BY <1>3, <1>4, MinimumExists
<1>6. PICK m \in T : u = b - m
  OBVIOUS
<1>7. \A n \in T : b - m <= b - n
  BY <1>5, <1>6
<1> QED
  BY <1>7

\* Induction: a set of naturals that has 0 and with each n also n + 1 has all of
\* them.  (The library's induction theorems take the predicate as an operator.)
LEMMA NatSetInduction ==
    ASSUME NEW H, 0 \in H, \A n \in Nat : n \in H => n + 1 \in H
    PROVE  \A n \in Nat : n \in H
<1> SUFFICES ASSUME Nat \ H # {} PROVE FALSE
  OBVIOUS
<1> DEFINE T == Nat \ H
<1>1. PICK m \in T : \A n \in T : m <= n
  <2> HIDE DEF T
  <2>1. T \in SUBSET Nat
    BY DEF T
  <2>2. T # {}
    BY DEF T
  <2> QED BY Zenon, <2>1, <2>2, MinimumExists
<1>2. m \in Nat /\ m # 0
  OBVIOUS
<1>3. m - 1 \in Nat /\ m - 1 \in H
  BY <1>1, <1>2
<1> QED
  BY <1>2, <1>3

\* A finite non-empty set of naturals has a greatest element.
LEMMA FiniteMaximum ==
    ASSUME NEW T \in SUBSET Nat, IsFiniteSet(T), T # {}
    PROVE  \E m \in T : \A n \in T : n <= m
<1>1. PICK k \in Nat : ExistsBijection(1 .. k, T)
  BY FS_NatBijection
<1>2. PICK f : f \in Bijection(1 .. k, T)
  BY <1>1 DEF ExistsBijection
<1>3. f \in [1 .. k -> T] /\ \A n \in T : \E i \in 1 .. k : f[i] = n
  BY <1>2 DEF Bijection, Surjection, Injection
<1> DEFINE H == {i \in Nat : i <= k => \E b \in Nat : \A j \in 1 .. i : f[j] <= b}
<1>4. 0 \in H
  OBVIOUS
<1>5. \A i \in Nat : i \in H => i + 1 \in H
  <2> SUFFICES ASSUME NEW i \in Nat, i \in H, i + 1 <= k
               PROVE  \E b \in Nat : \A j \in 1 .. i + 1 : f[j] <= b
    OBVIOUS
  <2>1. PICK b \in Nat : \A j \in 1 .. i : f[j] <= b
    OBVIOUS
  <2>2. f[i + 1] \in Nat /\ \A j \in 1 .. i : f[j] \in Nat
    <3>1. \A j \in 1 .. k : f[j] \in Nat
      BY Zenon, <1>3
    <3> QED
      BY <3>1
  <2>3. \A j \in 1 .. i + 1 : f[j] <= b + f[i + 1]
    BY <2>1, <2>2
  <2> QED
    BY <2>2, <2>3
<1>6. k \in H
  <2> HIDE DEF H
  <2> QED BY Zenon, <1>4, <1>5, NatSetInduction
<1>7. PICK b \in Nat : \A j \in 1 .. k : f[j] <= b
  BY <1>6
<1>8. \A n \in T : n <= b
  BY <1>3, <1>7
<1> QED
  BY Zenon, <1>8, MaximumExists

\* A valid slot newer than the other one is what read_snapshot returns.
LEMMA ReadNewest ==
    ASSUME NEW seg, NEW sup \in [Slots -> Superblock], NEW s \in Slots,
           Valid(seg, sup, s), sup[Other(s)].generation < sup[s].generation
    PROVE  Read(seg, sup) = [write |-> sup[s].write, payload |-> seg[s]]
<1> DEFINE newest == {n \in Slots : /\ Valid(seg, sup, n)
                                    /\ Valid(seg, sup, Other(n)) =>
                                          sup[Other(n)].generation < sup[n].generation}
<1>1. Other(s) \in Slots /\ Other(Other(s)) = s
  BY DEF Other, Slots
<1>2. \A n \in Slots : n = s \/ n = Other(s)
  BY DEF Other, Slots
<1>3. sup[s].generation \in Nat /\ sup[Other(s)].generation \in Nat
  BY <1>1 DEF Superblock
<1>4. s \in newest /\ \A n \in newest : n = s
  BY <1>1, <1>2, <1>3
<1>5. newest # {} /\ (CHOOSE n \in newest : TRUE) = s
  BY <1>4
<1> HIDE DEF newest
<1>6. Read(seg, sup) = LET n == CHOOSE n \in newest : TRUE
                       IN  IF newest = {} THEN NoSnapshot
                           ELSE [write |-> sup[n].write, payload |-> seg[n]]
  BY DEF Read, newest
<1> QED
  BY Zenon, <1>5, <1>6

\* Without a written superblock there is nothing to read.
LEMMA ReadNothing ==
    ASSUME NEW seg, NEW sup, \A s \in Slots : ~(sup[s].generation > 0)
    PROVE  Read(seg, sup) = NoSnapshot
BY DEF Read, Valid

\* There are two slots, each the other's other.
LEMMA SlotFacts ==
    \A s \in Slots : Other(s) \in Slots /\ Other(s) # s /\ Other(Other(s)) = s
                     /\ \A n \in Slots : n = s \/ n = Other(s)
BY DEF Other, Slots

\* What is stored does not depend on the segment of the slot being written.
LEMMA OlderSegmentIrrelevant ==
    ASSUME NEW seg, NEW seg2, NEW sup \in [Slots -> Superblock], NEW t \in Slots,
           \/ sup[t].generation < sup[Other(t)].generation /\ Valid(seg, sup, Other(t))
           \/ sup[t].generation = 0 /\ sup[Other(t)].generation = 0,
           seg2[Other(t)] = seg[Other(t)]
    PROVE  Read(seg2, sup) = Read(seg, sup)
<1>1. CASE sup[t].generation = 0 /\ sup[Other(t)].generation = 0
  BY <1>1, SlotFacts, ReadNothing
<1>2. CASE sup[t].generation < sup[Other(t)].generation /\ Valid(seg, sup, Other(t))
  <2>1. Valid(seg2, sup, Other(t))
    BY <1>2 DEF Valid
  <2>2. Other(t) \in Slots /\ Other(Other(t)) = t
    BY SlotFacts
  <2> QED
    BY <1>2, <2>1, <2>2, ReadNewest
<1> QED
  BY <1>1, <1>2

\* The slot written next is the one of the lower generation.
LEMMA TargetFacts ==
    ASSUME NEW sup \in [Slots -> Superblock]
    PROVE  /\ Target(sup) \in Slots /\ MaxGen(sup) \in Nat
           /\ \A s \in Slots : sup[s].generation <= MaxGen(sup)
           /\ sup[Target(sup)].generation <= sup[Other(Target(sup))].generation
           /\ sup[Other(Target(sup))].generation = MaxGen(sup)
<1>1. sup["a"].generation \in Nat /\ sup["b"].generation \in Nat
  BY DEF Slots, Superblock
<1> QED
  BY <1>1 DEF Target, MaxGen, Slots, Other

\* After the superblock of the older slot is replaced by a newer one, that slot
\* is what is stored and the other one is the next target.
LEMMA PublishFacts ==
    ASSUME NEW sup \in [Slots -> Superblock], NEW sup2 \in [Slots -> Superblock],
           NEW seg, NEW t \in Slots, sup2[Other(t)] = sup[Other(t)],
           sup2[t].generation = MaxGen(sup) + 1, sup2[t].checksum = seg[t]
    PROVE  /\ Read(seg, sup2) = [write |-> sup2[t].write, payload |-> seg[t]]
           /\ Target(sup2) = Other(t) /\ Valid(seg, sup2, t)
           /\ sup2[Other(t)].generation < sup2[t].generation
<1>1. /\ MaxGen(sup) \in Nat /\ sup[Other(t)].generation <= MaxGen(sup)
      /\ sup[Other(t)].generation \in Nat
  BY SlotFacts, TargetFacts DEF Superblock
<1>2. Valid(seg, sup2, t) /\ sup2[Other(t)].generation < sup2[t].generation
  BY <1>1 DEF Valid
<1>3. Target(sup2) = Other(t)
  BY <1>1, <1>2 DEF Target, Slots, Other
<1> QED
  BY <1>2, <1>3, ReadNewest

-----------------------------------------------------------------------------
(* The invariant.  Each lemma also says what the step does to what is stored.*)

\* An empty device is undamaged and holds no snapshot.
LEMMA InitInv == Init => Undamaged /\ Read(dseg, dsup) = NoSnapshot
<1> SUFFICES ASSUME Init PROVE Undamaged /\ Read(dseg, dsup) = NoSnapshot
  OBVIOUS
<1>1. \A s \in Slots : dsup[s] = NoSuperblock /\ vsup[s] = NoSuperblock
                       /\ dseg[s] = 0 /\ vseg[s] = 0
  BY DEF Init
<1>2. NoSuperblock \in Superblock /\ NoSuperblock.generation = 0 /\ NoSnapshot \in Snapshot
  BY DEF NoSuperblock, Superblock, NoSnapshot, Snapshot
<1>3. TypeOK
  BY <1>2 DEF Init, TypeOK, Segment, Writer, Slots
<1>4. Target(dsup) \in Slots /\ Other(Target(dsup)) \in Slots
  BY <1>3, TargetFacts, SlotFacts DEF TypeOK
<1>5. Alternation
  BY <1>1, <1>2, <1>4 DEF Init, Alternation
<1>6. Read(dseg, dsup) = NoSnapshot
  BY <1>1, <1>2, ReadNothing
<1> QED
  BY <1>3, <1>5, <1>6 DEF Undamaged

\* Writing the segment damages nothing that is durable.
LEMMA WriteSegmentStep ==
    ASSUME Undamaged, NEW p \in Payloads, WriteSegment(p)
    PROVE  Undamaged'
<1> DEFINE t == Target(vsup)
<1>1. writer.pc = "idle" /\ writer'.pc = "sync_segment" /\ writer'.slot = t
      /\ writer'.generation = MaxGen(vsup)
  BY DEF WriteSegment
<1>2. t \in Slots /\ Other(t) \in Slots /\ Other(t) # t /\ MaxGen(vsup) \in Nat
  BY TargetFacts, SlotFacts DEF Undamaged, TypeOK
<1>3. vsup = dsup
  <2>1. \A s \in Slots : vsup[s] = dsup[s]
    BY <1>1, TargetFacts, SlotFacts DEF Undamaged, TypeOK, Alternation
  <2> QED
    BY <2>1 DEF Undamaged, TypeOK
<1>4. offered' \in Snapshot /\ offered'.payload = p
  BY DEF WriteSegment, Undamaged, TypeOK, Snapshot
<1>5. TypeOK'
  <2>1. vseg' \in [Slots -> Segment]
    BY Zenon DEF WriteSegment, Undamaged, TypeOK, Segment
  <2>2. writer' \in Writer
    BY <1>2 DEF WriteSegment, Writer
  <2> QED
    BY <1>4, <2>1, <2>2 DEF WriteSegment, Undamaged, TypeOK
<1>6. vseg'[t] = p /\ vseg'[Other(t)] = dseg[Other(t)]
  <2>1. vseg[Other(t)] = dseg[Other(t)]
    BY <1>1, <1>3 DEF Undamaged, Alternation
  <2> QED
    BY <1>2, <2>1 DEF WriteSegment, Undamaged, TypeOK
<1>7. Alternation'
  BY <1>1, <1>2, <1>3, <1>4, <1>6 DEF WriteSegment, Undamaged, Alternation, Valid
<1> QED
  BY <1>5, <1>7 DEF Undamaged

\* Nor does syncing it: it is not yet pointed to.
LEMMA SyncSegmentStep ==
    ASSUME Undamaged, SyncSegment
    PROVE  Undamaged' /\ Read(dseg', dsup') = Read(dseg, dsup)
<1> DEFINE t == writer.slot
<1>1. /\ writer.pc = "sync_segment" /\ t \in Slots /\ Other(t) \in Slots
      /\ t = Target(dsup) /\ writer.generation = MaxGen(dsup)
      /\ vseg[Other(t)] = dseg[Other(t)]
      /\ vseg[t] = offered.payload
      /\ \/ dsup[t].generation < dsup[Other(t)].generation /\ Valid(dseg, dsup, Other(t))
         \/ dsup[t].generation = 0 /\ dsup[Other(t)].generation = 0
  BY SlotFacts DEF SyncSegment, Undamaged, TypeOK, Writer, Alternation
<1>2. vsup = dsup
  <2>1. \A s \in Slots : vsup[s] = dsup[s]
    BY <1>1, SlotFacts DEF Undamaged, TypeOK, Alternation
  <2> QED
    BY <2>1 DEF Undamaged, TypeOK
<1>3. Read(dseg', dsup') = Read(dseg, dsup)
  BY <1>1, <1>2, OlderSegmentIrrelevant DEF SyncSegment, Undamaged, TypeOK
<1>4. TypeOK'
  <2>1. writer' \in Writer
    BY <1>1 DEF SyncSegment, Undamaged, TypeOK, Writer
  <2> QED
    BY <2>1 DEF SyncSegment, Undamaged, TypeOK
<1>5. \/ writer'.pc = "superblock" /\ writer'.slot = t
         /\ writer'.generation = MaxGen(dsup) + 1
      \/ writer'.pc = "idle"
  BY <1>1 DEF SyncSegment
<1>6. Valid(dseg, dsup, Other(t)) => Valid(dseg', dsup', Other(t))
  BY <1>1, <1>2 DEF SyncSegment, Valid
<1>7. Alternation'
  BY <1>1, <1>2, <1>5, <1>6 DEF SyncSegment, Alternation
<1> QED
  BY <1>3, <1>4, <1>7 DEF Undamaged

\* Writing the superblock damages nothing that is durable.
LEMMA WriteSuperblockStep ==
    ASSUME Undamaged, WriteSuperblock
    PROVE  Undamaged'
<1> DEFINE t == writer.slot
           sb == [generation |-> writer.generation,
                  checksum |-> offered.payload, write |-> offered.write]
<1>1. /\ writer.pc = "superblock" /\ t \in Slots /\ Other(t) \in Slots /\ Other(t) # t
      /\ writer.generation \in Nat /\ sb \in Superblock
  BY SlotFacts DEF WriteSuperblock, Undamaged, TypeOK, Writer, Superblock, Snapshot
<1>2. vsup'[t] = sb /\ vsup'[Other(t)] = vsup[Other(t)] /\ vsup' \in [Slots -> Superblock]
  BY <1>1 DEF WriteSuperblock, Undamaged, TypeOK
<1>3. writer' \in Writer /\ writer'.pc = "sync_superblock" /\ writer'.slot = t
      /\ writer'.generation = writer.generation
  BY <1>1 DEF WriteSuperblock, Writer
<1>4. TypeOK'
  BY <1>2, <1>3 DEF WriteSuperblock, Undamaged, TypeOK
<1>5. Alternation'
  BY <1>1, <1>2, <1>3 DEF WriteSuperblock, Undamaged, Alternation
<1> QED
  BY <1>4, <1>5 DEF Undamaged

\* Nor does a superblock write that fails.
LEMMA FailSuperblockStep ==
    ASSUME Undamaged, FailSuperblock
    PROVE  Undamaged'
<1>1. writer.pc = "superblock" /\ writer'.pc = "idle" /\ writer' \in Writer
  BY DEF FailSuperblock, Undamaged, TypeOK, Writer
<1>2. TypeOK'
  BY <1>1 DEF FailSuperblock, Undamaged, TypeOK
<1>3. Alternation'
  BY <1>1 DEF FailSuperblock, Undamaged, Alternation
<1> QED
  BY <1>2, <1>3 DEF Undamaged

\* At rest again, with the superblocks as they were.
LEMMA Quiet ==
    ASSUME Undamaged, TypeOK', writer'.pc = "idle", NEW t, t = Target(dsup),
           dsup' = dsup, dseg'[Other(t)] = dseg[Other(t)],
           vseg' = dseg', vsup' = dsup'
    PROVE  Undamaged' /\ Read(dseg', dsup') = Read(dseg, dsup)
<1>1. t \in Slots /\ Other(t) \in Slots
  BY TargetFacts, SlotFacts DEF Undamaged, TypeOK
<1>2. \/ dsup[t].generation < dsup[Other(t)].generation /\ Valid(dseg, dsup, Other(t))
      \/ dsup[t].generation = 0 /\ dsup[Other(t)].generation = 0
  BY DEF Undamaged, Alternation
<1>3. Read(dseg', dsup') = Read(dseg, dsup)
  BY <1>1, <1>2, OlderSegmentIrrelevant DEF Undamaged, TypeOK
<1>4. Alternation'
  BY <1>1, <1>2 DEF Alternation, Valid
<1> QED
  BY <1>3, <1>4 DEF Undamaged

\* At rest again, with the superblock of the write in progress published.
LEMMA Published ==
    ASSUME Undamaged, TypeOK', writer.pc = "sync_superblock", writer'.pc = "idle",
           dsup'[writer.slot] = vsup[writer.slot],
           dsup'[Other(writer.slot)] = dsup[Other(writer.slot)],
           dseg' = dseg, vseg' = dseg', vsup' = dsup'
    PROVE  Undamaged' /\ Read(dseg', dsup') = offered
<1> DEFINE t == writer.slot
<1>1. /\ t \in Slots /\ Other(t) \in Slots /\ t = Target(dsup)
      /\ writer.generation = MaxGen(dsup) + 1
      /\ vseg[t] = offered.payload /\ vseg[t] = dseg[t]
      /\ vsup[t] = [generation |-> writer.generation,
                    checksum |-> offered.payload, write |-> offered.write]
  BY SlotFacts DEF Undamaged, TypeOK, Writer, Alternation
<1>2. /\ Read(dseg, dsup') = [write |-> offered.write, payload |-> offered.payload]
      /\ Target(dsup') = Other(t) /\ Valid(dseg, dsup', t)
      /\ dsup'[Other(t)].generation < dsup'[t].generation
  <2>1. /\ dsup'[t].generation = MaxGen(dsup) + 1 /\ dsup'[t].checksum = dseg[t]
        /\ dsup'[t].write = offered.write /\ dseg[t] = offered.payload
    <3>1. dsup'[t] = [generation |-> writer.generation,
                      checksum |-> offered.payload, write |-> offered.write]
      BY Zenon, <1>1
    <3>2. /\ dsup'[t].generation = writer.generation
          /\ dsup'[t].checksum = offered.payload /\ dsup'[t].write = offered.write
      BY <3>1
    <3> QED
      BY <1>1, <3>2
  <2>2. dsup \in [Slots -> Superblock] /\ dsup' \in [Slots -> Superblock]
    BY DEF Undamaged, TypeOK
  <2>3. dsup'[Other(t)] = dsup[Other(t)]
    OBVIOUS
  <2> HIDE DEF t
  <2>4. t \in Slots
    BY <1>1
  <2>5. /\ Read(dseg, dsup') = [write |-> dsup'[t].write, payload |-> dseg[t]]
        /\ Target(dsup') = Other(t) /\ Valid(dseg, dsup', t)
        /\ dsup'[Other(t)].generation < dsup'[t].generation
    BY <2>1, <2>2, <2>3, <2>4, PublishFacts
  <2> QED
    BY <2>1, <2>5
<1>3. offered = [write |-> offered.write, payload |-> offered.payload]
  BY DEF Undamaged, TypeOK, Snapshot
<1>4. Read(dseg', dsup') = offered
  BY <1>2, <1>3
<1>5. Other(Other(t)) = t
  BY <1>1, SlotFacts
<1>6. Alternation'
  BY <1>1, <1>2, <1>5 DEF Alternation, Valid
<1> QED
  BY <1>4, <1>6 DEF Undamaged

\* Syncing the superblock is what makes the new snapshot the durable one.
LEMMA SyncSuperblockStep ==
    ASSUME Undamaged, SyncSuperblock
    PROVE  Undamaged' /\ Read(dseg', dsup') = offered
<1>1. writer.pc = "sync_superblock" /\ writer.slot \in Slots /\ Other(writer.slot) \in Slots
  BY SlotFacts DEF SyncSuperblock, Undamaged, TypeOK, Writer
<1>2. TypeOK' /\ writer'.pc = "idle"
  BY <1>1 DEF SyncSuperblock, Undamaged, TypeOK, Writer
<1>3. vsup[Other(writer.slot)] = dsup[Other(writer.slot)]
  BY <1>1 DEF Undamaged, Alternation
<1>4. vseg = dseg
  <2>1. \A s \in Slots : vseg[s] = dseg[s]
    BY <1>1, SlotFacts DEF Undamaged, Alternation
  <2> QED
    BY <2>1 DEF Undamaged, TypeOK
<1> QED
  BY <1>1, <1>2, <1>3, <1>4, Published DEF SyncSuperblock

\* A crash that loses any of the unsynced writes leaves the old snapshot or the new.
LEMMA CrashStep ==
    ASSUME Undamaged, NEW lostseg \in SUBSET Slots, NEW lostsup \in SUBSET Slots,
           Crash(lostseg, lostsup)
    PROVE  /\ Undamaged'
           /\ Read(dseg', dsup') = Read(dseg, dsup) \/ Read(dseg', dsup') = offered
<1> DEFINE t == Target(dsup)
<1>1. /\ t \in Slots /\ Other(t) \in Slots
      /\ writer.pc # "idle" => writer.slot = t
      /\ vseg[Other(t)] = dseg[Other(t)] /\ vsup[Other(t)] = dsup[Other(t)]
      /\ writer.pc # "sync_segment" => vseg[t] = dseg[t]
      /\ writer.pc # "sync_superblock" => vsup[t] = dsup[t]
  BY TargetFacts, SlotFacts DEF Undamaged, TypeOK, Alternation
<1>2. /\ dseg' \in [Slots -> Segment] /\ dsup' \in [Slots -> Superblock]
      /\ \A s \in Slots : dseg'[s] = dseg[s] \/ dseg'[s] = vseg[s]
      /\ \A s \in Slots : dsup'[s] = dsup[s] \/ dsup'[s] = vsup[s]
  BY DEF Crash, Undamaged, TypeOK
<1>3. vseg' = dseg' /\ vsup' = dsup' /\ writer'.pc = "idle" /\ writer' \in Writer
      /\ offered' = offered /\ acked' = acked /\ corruptions' = corruptions
  BY DEF Crash, Undamaged, TypeOK, Writer
<1>4. TypeOK'
  BY <1>2, <1>3 DEF Undamaged, TypeOK
<1> HIDE DEF t
<1>5. dseg'[Other(t)] = dseg[Other(t)] /\ dsup'[Other(t)] = dsup[Other(t)]
  BY <1>1, <1>2
<1>6. CASE dsup'[t] = dsup[t]
  <2>1. \A s \in Slots : dsup'[s] = dsup[s]
    BY <1>1, <1>5, <1>6, SlotFacts
  <2>2. dsup' = dsup
    BY <1>2, <2>1 DEF Undamaged, TypeOK
  <2> QED
    BY <1>3, <1>4, <1>5, <2>2, Quiet DEF t
<1>7. CASE dsup'[t] # dsup[t]
  <2>1. writer.pc = "sync_superblock" /\ writer.slot = t /\ dsup'[t] = vsup[t]
    BY <1>1, <1>2, <1>7
  <2>2. \A s \in Slots : dseg'[s] = dseg[s]
    BY <1>1, <1>2, <1>5, <2>1, SlotFacts
  <2>3. dseg' = dseg
    BY <1>2, <2>2 DEF Undamaged, TypeOK
  <2> QED
    BY <1>3, <1>4, <1>5, <2>1, <2>3, Published
<1> QED
  BY <1>6, <1>7

\* The types are kept by every step, damage included.
LEMMA TypeStep ==
    ASSUME TypeOK, [Next]_vars
    PROVE  TypeOK'
<1>1. CASE UNCHANGED vars
  BY <1>1 DEF TypeOK, vars
<1>2. ASSUME NEW p \in Payloads, WriteSegment(p)
      PROVE  TypeOK'
  <2>1. Target(vsup) \in Slots /\ MaxGen(vsup) \in Nat
    BY TargetFacts DEF TypeOK
  <2>2. vseg' \in [Slots -> Segment] /\ offered' \in Snapshot /\ writer' \in Writer
    BY <1>2, <2>1 DEF WriteSegment, TypeOK, Segment, Snapshot, Writer
  <2> QED
    BY <1>2, <2>2 DEF WriteSegment, TypeOK
<1>3. CASE SyncSegment
  <2>1. writer' \in Writer
    BY <1>3 DEF SyncSegment, TypeOK, Writer
  <2> QED
    BY <1>3, <2>1 DEF SyncSegment, TypeOK
<1>4. CASE WriteSuperblock
  <2>1. [generation |-> writer.generation, checksum |-> offered.payload,
         write |-> offered.write] \in Superblock
    BY DEF TypeOK, Writer, Snapshot, Superblock
  <2>2. writer' \in Writer /\ vsup' \in [Slots -> Superblock]
    BY <1>4, <2>1 DEF WriteSuperblock, TypeOK, Writer
  <2> QED
    BY <1>4, <2>2 DEF WriteSuperblock, TypeOK
<1>5. CASE SyncSuperblock
  BY <1>5 DEF SyncSuperblock, TypeOK, Writer
<1>6. CASE FailSuperblock
  BY <1>6 DEF FailSuperblock, TypeOK, Writer
<1>7. ASSUME NEW lostseg \in SUBSET Slots, NEW lostsup \in SUBSET Slots,
             Crash(lostseg, lostsup)
      PROVE  TypeOK'
  BY <1>7 DEF Crash, TypeOK, Writer
<1>8. ASSUME NEW file \in Corruptible, NEW s \in Slots, Corrupt(file, s)
      PROVE  TypeOK'
  <2>1. NoSuperblock \in Superblock /\ Torn \in Segment
    BY DEF NoSuperblock, Superblock, Segment
  <2>2. CASE file = "segment"
    BY <1>8, <2>1, <2>2 DEF Corrupt, TypeOK
  <2>3. CASE file = "superblock"
    BY SMTT(40), <1>8, <2>1, <2>3 DEF Corrupt, TypeOK
  <2> QED
    BY <1>8, <2>2, <2>3, CorruptibleAssumption
<1> QED
  BY <1>1, <1>2, <1>3, <1>4, <1>5, <1>6, <1>7, <1>8 DEF Next

\* Every step keeps the invariant and is a step of the durable cell.
LEMMA NextStep ==
    ASSUME Undamaged, corruptions = 0, [Next]_vars, corruptions' = 0
    PROVE  Undamaged' /\ [Cell!CellNext]_(Cell!cell)
<1> USE DEF Cell!CellNext, Cell!cell, Cell!Offer, Cell!Acknowledge, Cell!Survive
<1>1. CASE UNCHANGED vars
  BY ZenonT(40), <1>1 DEF vars, Undamaged, TypeOK, Alternation, Valid, Target, MaxGen, Read
<1>2. ASSUME NEW p \in Payloads, WriteSegment(p)
      PROVE  Undamaged' /\ [Cell!CellNext]_(Cell!cell)
  <2>1. Undamaged'
    BY <1>2, WriteSegmentStep
  <2>2. Read(dseg', dsup') = Read(dseg, dsup)
    BY <1>2 DEF WriteSegment
  <2>3. offered' = [write |-> offered.write + 1, payload |-> p] /\ acked' = acked
    BY <1>2 DEF WriteSegment
  <2> QED
    BY <2>1, <2>2, <2>3
<1>3. CASE SyncSegment
  BY <1>3, SyncSegmentStep DEF SyncSegment
<1>4. CASE WriteSuperblock
  <2>1. Undamaged'
    BY <1>4, WriteSuperblockStep
  <2>2. Read(dseg', dsup') = Read(dseg, dsup) /\ UNCHANGED <<offered, acked>>
    BY <1>4 DEF WriteSuperblock
  <2> QED
    BY <2>1, <2>2
<1>5. CASE SyncSuperblock
  BY <1>5, SyncSuperblockStep DEF SyncSuperblock
<1>6. CASE FailSuperblock
  <2>1. Undamaged'
    BY <1>6, FailSuperblockStep
  <2>2. Read(dseg', dsup') = Read(dseg, dsup) /\ UNCHANGED <<offered, acked>>
    BY <1>6 DEF FailSuperblock
  <2> QED
    BY <2>1, <2>2
<1>7. ASSUME NEW lostseg \in SUBSET Slots, NEW lostsup \in SUBSET Slots,
             Crash(lostseg, lostsup)
      PROVE  Undamaged' /\ [Cell!CellNext]_(Cell!cell)
  BY Zenon, <1>7, CrashStep DEF Crash
<1>8. ASSUME NEW file \in Corruptible, NEW s \in Slots, Corrupt(file, s)
      PROVE  FALSE
  BY <1>8 DEF Corrupt
<1> QED
  BY Zenon, <1>1, <1>2, <1>3, <1>4, <1>5, <1>6, <1>7, <1>8 DEF Next

-----------------------------------------------------------------------------
\* Every step keeps the invariant and is a step of the durable cell, or none.
LEMMA InductiveStep ==
    IInv /\ [Next]_vars => IInv' /\ [Cell!CellNext]_(Cell!cell)
<1> SUFFICES ASSUME IInv, [Next]_vars
             PROVE  IInv' /\ [Cell!CellNext]_(Cell!cell)
  OBVIOUS
<1>1. TypeOK' /\ corruptions \in Nat /\ corruptions' \in Nat
  BY TypeStep DEF IInv, TypeOK
<1>2. CASE corruptions' # 0
  BY <1>1, <1>2 DEF IInv, Cell!CellNext
<1>3. CASE corruptions' = 0
  <2>1. corruptions = 0
    BY <1>1, <1>3 DEF Next, vars, WriteSegment, SyncSegment, WriteSuperblock, SyncSuperblock,
                      FailSuperblock, Crash, Corrupt
  <2> QED
    BY <1>3, <2>1, NextStep DEF IInv, Undamaged
<1> QED
  BY <1>2, <1>3

\* The files and the writer keep their types.
THEOREM TypeCorrect == Spec => []TypeOK
<1>1. IInv => TypeOK
  BY DEF IInv
<1>2. Init => IInv
  BY InitInv DEF IInv, Undamaged
<1> QED
  BY <1>1, <1>2, InductiveStep, PTL DEF Spec

\* write_snapshot and read_snapshot implement a durable cell: at whatever
\* instant the power fails, and however the renames of an unfinished write
\* survive, the next read returns one whole snapshot, the last acknowledged one
\* or the one being written, for as long as no file is damaged.
THEOREM CrashSafety == Spec => CrashSafe
<1>1. Init => IInv /\ Cell!CellInit
  BY InitInv DEF Init, IInv, Undamaged, Cell!CellInit, NoSnapshot, Cell!NoSnapshot
<1> QED
  BY <1>1, InductiveStep, PTL DEF Spec, CrashSafe, Cell!CellSpec

-----------------------------------------------------------------------------
(* Damaged superblocks.                                                     *)

\* In ranked files the only good slot is not the one a write replaces.
LEMMA RankedSparesSoleSlot ==
    ASSUME NEW seg, NEW sup \in [Slots -> Superblock], Ranked(seg, sup),
           NEW s \in Slots, Valid(seg, sup, s), ~Valid(seg, sup, Other(s))
    PROVE  Target(sup) # s
<1>1. /\ sup[s].generation \in Nat /\ sup[Other(s)].generation \in Nat
      /\ sup[s].generation > 0 /\ Other(s) \in Slots /\ Other(Other(s)) = s
  BY SlotFacts DEF Superblock, Valid
<1>2. sup[Other(s)].generation < sup[s].generation
  <2>1. CASE sup[Other(s)].generation = 0
    BY <1>1, <2>1
  <2>2. CASE sup[Other(s)].generation > 0
    BY <1>1, <2>2 DEF Ranked
  <2> QED
    BY <1>1, <2>1, <2>2
<1>3. Target(sup) = Other(s)
  BY <1>1, <1>2 DEF Target, Slots, Other
<1> QED
  BY <1>3, SlotFacts

\* The segment of the slot a write replaces may be anything.
LEMMA RankedTargetSegment ==
    ASSUME NEW seg, NEW seg2, NEW sup \in [Slots -> Superblock], Ranked(seg, sup),
           seg2[Other(Target(sup))] = seg[Other(Target(sup))]
    PROVE  Ranked(seg2, sup)
<1> DEFINE t == Target(sup)
<1>1. /\ t \in Slots /\ Other(t) \in Slots
      /\ sup[t].generation <= sup[Other(t)].generation
      /\ \A s \in Slots : s = t \/ s = Other(t)
      /\ \A s \in Slots : sup[s].generation \in Nat
      /\ Other(Other(t)) = t
  BY TargetFacts, SlotFacts DEF Superblock
<1> HIDE DEF t
<1>2. Valid(seg, sup, Other(t)) => Valid(seg2, sup, Other(t))
  BY DEF Valid, t
<1> QED
  BY <1>1, <1>2 DEF Ranked

\* The superblock a write publishes outranks the other one.
LEMMA RankedPublish ==
    ASSUME NEW seg, NEW sup \in [Slots -> Superblock], NEW sup2 \in [Slots -> Superblock],
           Ranked(seg, sup), NEW t \in Slots, sup2[Other(t)] = sup[Other(t)],
           sup2[t].generation = MaxGen(sup) + 1, sup2[t].checksum = seg[t],
           t = Target(sup)
    PROVE  Ranked(seg, sup2)
<1>1. /\ Valid(seg, sup2, t) /\ sup2[Other(t)].generation < sup2[t].generation
  BY PublishFacts
<1>2. \A s \in Slots : /\ s = t \/ s = Other(t)
                       /\ sup2[s].generation \in Nat /\ Other(Other(s)) = s
  BY SlotFacts DEF Superblock
<1> QED
  BY <1>1, <1>2 DEF Ranked

\* A damaged superblock leaves the files ranked.
LEMMA RankedDamage ==
    ASSUME NEW seg, NEW sup \in [Slots -> Superblock], Ranked(seg, sup), NEW s \in Slots
    PROVE  Ranked(seg, [sup EXCEPT ![s] = NoSuperblock])
<1> DEFINE sup2 == [sup EXCEPT ![s] = NoSuperblock]
<1>1. /\ sup2[s].generation = 0 /\ sup2[Other(s)] = sup[Other(s)]
      /\ \A n \in Slots : n = s \/ n = Other(s)
      /\ Other(Other(s)) = s /\ Other(s) \in Slots
      /\ sup[Other(s)].generation \in Nat
  BY SlotFacts DEF NoSuperblock, Superblock
<1> HIDE DEF sup2
<1>2. Ranked(seg, sup2)
  BY <1>1 DEF Ranked
<1> QED
  BY <1>2 DEF sup2

\* A step keeps the files ranked and spares the sole good slot.
SlotSpared ==
    \A s \in Slots :
        (/\ Valid(vseg, vsup, s) /\ ~Valid(vseg, vsup, Other(s)) /\ offered' # offered)
            => vseg'[s] = vseg[s]

\* An empty device satisfies the invariant of the ranks.
LEMMA RankedInit == Init => RankedInv
<1> SUFFICES ASSUME Init PROVE RankedInv
  OBVIOUS
<1>1. TypeOK
  BY InitInv DEF Undamaged
<1>2. \A s \in Slots : vsup[s].generation = 0
  BY DEF Init, NoSuperblock
<1>3. Ranked(vseg, vsup) /\ Ranked(dseg, dsup)
  BY <1>2 DEF Init, Ranked
<1> QED
  BY <1>1, <1>3 DEF Init, RankedInv

\* Writing the segment spares the only good slot.
LEMMA RankedWriteSegment ==
    ASSUME RankedInv, NEW p, WriteSegment(p), TypeOK'
    PROVE  RankedInv' /\ SlotSpared
<1> DEFINE t == Target(vsup)
<1>1. /\ vsup \in [Slots -> Superblock] /\ vseg \in [Slots -> Segment]
      /\ writer.pc = "idle" /\ vseg = dseg /\ vsup = dsup
  BY DEF WriteSegment, RankedInv, TypeOK
<1>2. t \in Slots /\ Other(t) \in Slots /\ Other(t) # t
  BY <1>1, TargetFacts, SlotFacts
<1>3. /\ writer'.pc = "sync_segment" /\ writer'.slot = t /\ writer'.generation = MaxGen(vsup)
      /\ offered'.payload = p
      /\ UNCHANGED <<vsup, dseg, dsup>>
  BY DEF WriteSegment
<1>4. vseg'[t] = p /\ \A s \in Slots \ {t} : vseg'[s] = vseg[s]
  BY <1>1, <1>2 DEF WriteSegment
<1> HIDE DEF t
<1>5. Ranked(vseg', vsup')
  <2>1. Ranked(vseg, vsup)
    BY Zenon DEF RankedInv
  <2>2. vseg'[Other(Target(vsup))] = vseg[Other(Target(vsup))]
    BY <1>2, <1>4 DEF t
  <2>3. Ranked(vseg', vsup)
    BY Zenon, <1>1, <2>1, <2>2, RankedTargetSegment
  <2> QED
    BY Zenon, <1>3, <2>3
<1>6. MaxGen(vsup) + 0 = MaxGen(vsup)
  BY <1>1, TargetFacts
<1>7. RankedInv'
  BY <1>1, <1>2, <1>3, <1>4, <1>5, <1>6 DEF RankedInv, t
<1>8. SlotSpared
  <2>1. Ranked(vseg, vsup)
    BY Zenon DEF RankedInv
  <2>2. \A s \in Slots : Valid(vseg, vsup, s) /\ ~Valid(vseg, vsup, Other(s)) => s # t
    BY <1>1, <2>1, RankedSparesSoleSlot DEF t
  <2> QED
    BY Zenon, <1>4, <2>2 DEF SlotSpared
<1> QED
  BY <1>7, <1>8

\* Syncing the segment keeps the ranks.
LEMMA RankedSyncSegment ==
    ASSUME RankedInv, SyncSegment, TypeOK'
    PROVE  RankedInv'
<1>1. /\ writer.pc = "sync_segment" /\ vsup = dsup /\ writer.slot = Target(dsup)
      /\ writer.generation = MaxGen(dsup) + 0 /\ vseg[writer.slot] = offered.payload
      /\ dsup \in [Slots -> Superblock]
  BY DEF SyncSegment, RankedInv, TypeOK
<1>2. MaxGen(dsup) + 0 = MaxGen(dsup)
  BY <1>1, TargetFacts
<1>3. /\ \/ writer'.pc = "superblock" /\ writer'.slot = writer.slot
            /\ writer'.generation = MaxGen(dsup) + 1
         \/ writer'.pc = "idle"
      /\ dseg' = vseg /\ dsup' = vsup /\ UNCHANGED <<vseg, vsup, offered>>
  BY <1>1, <1>2 DEF SyncSegment
<1>4. Ranked(vseg', vsup') /\ Ranked(dseg', dsup')
  BY <1>3 DEF RankedInv
<1> QED
  BY <1>1, <1>3, <1>4 DEF RankedInv

\* Writing the superblock keeps the ranks.
LEMMA RankedWriteSuperblock ==
    ASSUME RankedInv, WriteSuperblock, TypeOK'
    PROVE  RankedInv'
<1> DEFINE t == writer.slot
           sb == [generation |-> writer.generation,
                  checksum |-> offered.payload, write |-> offered.write]
<1>1. /\ writer.pc = "superblock" /\ vsup = dsup /\ vseg = dseg /\ t = Target(dsup)
      /\ writer.generation = MaxGen(dsup) + 1 /\ vseg[t] = offered.payload
      /\ dsup \in [Slots -> Superblock] /\ vsup' \in [Slots -> Superblock]
      /\ Ranked(vseg, vsup)
  BY DEF WriteSuperblock, RankedInv, TypeOK
<1>2. t \in Slots /\ Other(t) \in Slots /\ Other(t) # t
  BY <1>1, TargetFacts, SlotFacts
<1>3. vsup'[t] = sb /\ vsup'[Other(t)] = vsup[Other(t)]
  BY <1>1, <1>2 DEF WriteSuperblock
<1>4. /\ writer'.pc = "sync_superblock" /\ writer'.slot = t
      /\ writer'.generation = writer.generation
      /\ UNCHANGED <<vseg, dseg, dsup, offered>>
  BY DEF WriteSuperblock
<1>5. Ranked(vseg', vsup')
  <2>1. vsup'[t].generation = MaxGen(vsup) + 1 /\ vsup'[t].checksum = vseg[t]
    BY <1>1, <1>3
  <2> HIDE DEF t, sb
  <2>2. Ranked(vseg, vsup')
    BY <1>1, <1>2, <1>3, <2>1, RankedPublish
  <2> QED
    BY <1>4, <2>2
<1> QED
  BY <1>1, <1>3, <1>4, <1>5 DEF RankedInv

\* A crash keeps the ranks, whichever writes it loses.
LEMMA RankedCrash ==
    ASSUME RankedInv, NEW lostseg \in SUBSET Slots, NEW lostsup \in SUBSET Slots,
           Crash(lostseg, lostsup), TypeOK'
    PROVE  RankedInv'
<1> DEFINE t == writer.slot
<1>1. /\ dseg' \in [Slots -> Segment] /\ dsup' \in [Slots -> Superblock]
      /\ dseg \in [Slots -> Segment] /\ dsup \in [Slots -> Superblock]
      /\ \A s \in Slots : dseg'[s] = dseg[s] \/ dseg'[s] = vseg[s]
      /\ \A s \in Slots : dsup'[s] = dsup[s] \/ dsup'[s] = vsup[s]
  BY DEF Crash, RankedInv, TypeOK
<1>2. vseg' = dseg' /\ vsup' = dsup' /\ writer'.pc = "idle"
  BY DEF Crash
<1>3. t \in Slots /\ Other(t) \in Slots /\ \A s \in Slots : s = t \/ s = Other(t)
  BY SlotFacts DEF RankedInv, TypeOK, Writer
<1>4. CASE dsup' = dsup
  <2>1. CASE vseg = dseg
    <3>1. dseg' = dseg
      BY <1>1, <2>1
    <3> QED
      BY Zenon, <1>2, <1>4, <3>1 DEF RankedInv
  <2>2. CASE vseg # dseg
    <3>1. t = Target(dsup) /\ vseg[Other(t)] = dseg[Other(t)]
      BY <2>2 DEF RankedInv
    <3>2. dseg'[Other(t)] = dseg[Other(t)]
      BY <1>1, <1>3, <3>1
    <3>3. Ranked(dseg', dsup)
      <4>1. Ranked(dseg, dsup)
        BY Zenon DEF RankedInv
      <4>2. dseg'[Other(Target(dsup))] = dseg[Other(Target(dsup))]
        BY Zenon, <3>1, <3>2
      <4> QED
        BY Zenon, <1>1, <4>1, <4>2, RankedTargetSegment
    <3> QED
      BY Zenon, <1>2, <1>4, <3>3 DEF RankedInv
  <2> QED
    BY <2>1, <2>2
<1>5. CASE dsup' # dsup
  <2>1. vsup # dsup
    BY <1>1, <1>5
  <2>2. /\ writer.pc = "sync_superblock" /\ vseg = dseg /\ t = Target(dsup)
        /\ vsup[Other(t)] = dsup[Other(t)] /\ vseg[t] = offered.payload
        /\ writer.generation = MaxGen(dsup) + 1
        /\ vsup[t] = [generation |-> writer.generation,
                      checksum |-> offered.payload, write |-> offered.write]
    BY <2>1 DEF RankedInv, TypeOK, Writer
  <2>3. dseg' = dseg
    BY <1>1, <2>2
  <2>4. dsup'[Other(t)] = dsup[Other(t)] /\ dsup'[t] = vsup[t]
    <3>1. dsup'[Other(t)] = dsup[Other(t)]
      BY <1>1, <1>3, <2>2
    <3>2. dsup'[t] # dsup[t]
      BY <1>1, <1>3, <1>5, <3>1
    <3> QED
      BY <1>1, <1>3, <3>1, <3>2
  <2>5. dsup'[t].generation = MaxGen(dsup) + 1 /\ dsup'[t].checksum = dseg[t]
    BY <2>2, <2>4
  <2> HIDE DEF t
  <2>6. Ranked(dseg, dsup')
    <3>1. Ranked(dseg, dsup)
      BY Zenon DEF RankedInv
    <3>2. /\ dsup \in [Slots -> Superblock] /\ dsup' \in [Slots -> Superblock]
          /\ t \in Slots /\ t = Target(dsup) /\ dsup'[Other(t)] = dsup[Other(t)]
      BY Zenon, <1>1, <1>3, <2>2, <2>4
    <3> QED
      BY <2>5, <3>1, <3>2, RankedPublish
  <2> QED
    BY <1>2, <2>3, <2>6 DEF RankedInv
<1> QED
  BY <1>4, <1>5

\* Every step keeps the ranks and spares the only good slot, while only superblocks
\* are corrupted.
LEMMA RankedStep ==
    ASSUME RankedInv, [Next]_vars, Corruptible \subseteq {"superblock"}
    PROVE  RankedInv' /\ [SlotSpared]_vars
<1>1. TypeOK'
  BY TypeStep DEF RankedInv
<1>2. CASE UNCHANGED vars
  BY ZenonT(40), <1>1, <1>2 DEF vars, RankedInv, Ranked, Valid, Target, MaxGen
<1>3. ASSUME NEW p \in Payloads, WriteSegment(p)
      PROVE  RankedInv' /\ [SlotSpared]_vars
  BY <1>1, <1>3, RankedWriteSegment
<1>4. offered' = offered => [SlotSpared]_vars
  BY DEF SlotSpared
<1>5. CASE SyncSegment
  BY <1>1, <1>4, <1>5, RankedSyncSegment DEF SyncSegment
<1>6. CASE WriteSuperblock
  BY <1>1, <1>4, <1>6, RankedWriteSuperblock DEF WriteSuperblock
<1>7. CASE SyncSuperblock
  <2>1. /\ dseg' = vseg /\ dsup' = vsup /\ vseg' = vseg /\ vsup' = vsup
        /\ writer'.pc = "idle" /\ offered' = offered
    BY <1>7 DEF SyncSuperblock
  <2>2. Ranked(vseg', vsup') /\ Ranked(dseg', dsup')
    BY <2>1 DEF RankedInv
  <2> QED
    BY <1>1, <1>4, <2>1, <2>2 DEF RankedInv
<1>8. CASE FailSuperblock
  <2>1. /\ writer.pc = "superblock" /\ writer'.pc = "idle"
        /\ UNCHANGED <<vseg, vsup, dseg, dsup, offered>>
    BY <1>8 DEF FailSuperblock
  <2>2. Ranked(vseg', vsup') /\ Ranked(dseg', dsup')
    BY <2>1 DEF RankedInv
  <2> QED
    BY <1>1, <1>4, <2>1, <2>2 DEF RankedInv
<1>9. ASSUME NEW lostseg \in SUBSET Slots, NEW lostsup \in SUBSET Slots,
             Crash(lostseg, lostsup)
      PROVE  RankedInv' /\ [SlotSpared]_vars
  BY <1>1, <1>4, <1>9, RankedCrash DEF Crash
<1>10. ASSUME NEW file \in Corruptible, NEW s \in Slots, Corrupt(file, s)
       PROVE  RankedInv' /\ [SlotSpared]_vars
  <2>1. /\ writer.pc = "idle" /\ writer' = writer /\ offered' = offered
        /\ vsup' = [vsup EXCEPT ![s] = NoSuperblock]
        /\ dsup' = [dsup EXCEPT ![s] = NoSuperblock]
        /\ vseg' = vseg /\ dseg' = dseg
    BY <1>10 DEF Corrupt
  <2>2. Ranked(vseg', vsup') /\ Ranked(dseg', dsup')
    BY Zenon, <2>1, RankedDamage DEF RankedInv, TypeOK
  <2> QED
    BY <1>1, <1>4, <2>1, <2>2 DEF RankedInv
<1> QED
  BY <1>2, <1>3, <1>5, <1>6, <1>7, <1>8, <1>9, <1>10 DEF Next

\* Whatever superblocks were damaged and however many writes failed or were cut
\* off, write_snapshot never starts by replacing the only readable snapshot: the
\* slot it takes for the older one by the generations alone is never the sole
\* good one, as long as damage hits superblocks only.
THEOREM SoleSlotSpared ==
    ASSUME Corruptible \subseteq {"superblock"}
    PROVE  Spec => SoleGoodSlotSpared
<1>1. RankedInv /\ [Next]_vars => RankedInv' /\ [SlotSpared]_vars
  BY RankedStep
<1>2. [SlotSpared]_vars =>
        [\A s \in Slots :
          (/\ Valid(vseg, vsup, s) /\ ~Valid(vseg, vsup, Other(s))
           /\ offered' # offered)
              => vseg'[s] = vseg[s]]_vars
  BY DEF SlotSpared
<1> QED
  BY <1>1, <1>2, RankedInit, PTL DEF Spec, SoleGoodSlotSpared

-----------------------------------------------------------------------------
(* Operation segments and compaction.                                       *)

\* next_index names no file of the directory.
LEMMA NextIndexFresh ==
    ASSUME NEW dir, DOMAIN dir \subseteq Nat, IsFiniteSet(DOMAIN dir)
    PROVE  NextIndex(dir) \in Nat /\ NextIndex(dir) \notin DOMAIN dir
<1>1. CASE DOMAIN dir = {}
  BY <1>1 DEF NextIndex
<1>2. CASE DOMAIN dir # {}
  <2> DEFINE T == DOMAIN dir
  <2>1. \E m \in T : \A n \in T : n <= m
    <3> HIDE DEF T
    <3>1. T \in SUBSET Nat /\ IsFiniteSet(T) /\ T # {}
      BY <1>2 DEF T
    <3> QED
      BY Zenon, <3>1, FiniteMaximum
  <2>2. \E m \in T : \A n \in T : m >= n
    BY <2>1
  <2>3. Max(T) \in T /\ \A n \in T : Max(T) >= n
    BY <2>2 DEF Max
  <2>4. Max(T) \in Nat /\ Max(T) + 1 \notin T
    BY <2>3
  <2> QED
    BY <1>2, <2>4 DEF NextIndex
<1> QED
  BY <1>1, <1>2

\* Adding a file under a new name keeps the others.
LEMMA DirectoryWith ==
    ASSUME SegmentsInv, NEW dir, Directory(dir), NEW n \in Nat, appended <= n, NEW op \in 1 .. n
    PROVE  LET new == With(dir, NextIndex(dir), op)
           IN  /\ IsFiniteSet(DOMAIN new) /\ DOMAIN new \subseteq Nat
               /\ new \in [DOMAIN new -> 1 .. n]
               /\ Range(new) = Range(dir) \cup {op}
<1>1. PICK i \in Nat : i = NextIndex(dir) /\ i \notin DOMAIN dir
  BY NextIndexFresh DEF Directory
<1> DEFINE new == With(dir, i, op)
<1>2. DOMAIN new = DOMAIN dir \cup {i} /\ Range(new) = Range(dir) \cup {op}
  <2>1. /\ DOMAIN new = DOMAIN dir \cup {i}
        /\ \A k \in DOMAIN dir \cup {i} : new[k] = IF k = i THEN op ELSE dir[k]
    BY DEF With
  <2> HIDE DEF new
  <2> QED
    BY <1>1, <2>1 DEF Range
<1>3. IsFiniteSet(DOMAIN new) /\ DOMAIN new \subseteq Nat
  BY <1>1, <1>2, FS_AddElement DEF Directory
<1>4. new = [k \in DOMAIN dir \cup {i} |-> IF k = i THEN op ELSE dir[k]]
  BY DEF With
<1>5. appended \in Nat /\ \A k \in DOMAIN dir : dir[k] \in 1 .. n
  BY DEF SegmentsInv, Directory
<1>6. new \in [DOMAIN new -> 1 .. n]
  BY <1>2, <1>4, <1>5
<1> QED
  BY <1>1, <1>2, <1>3, <1>6

\* What a host can read are operations.
LEMMA ReadableFacts ==
    ASSUME SegmentsInv, NEW seg, NEW sup
    PROVE  Readable(seg, sup) \subseteq 1 .. MaxAppends
<1>1. \A p : ContentsOf(p) \subseteq 1 .. MaxAppends
  BY DEF ContentsOf
<1>2. Range(ops) \subseteq 1 .. MaxAppends
  <2>1. \A k \in DOMAIN ops : ops[k] \in 1 .. appended
    BY DEF SegmentsInv, Directory
  <2>2. 1 .. appended \subseteq 1 .. MaxAppends
    BY AppendsAssumption DEF SegmentsInv
  <2> QED
    BY <2>1, <2>2 DEF Range
<1> QED
  BY <1>1, <1>2 DEF Readable

\* The bytes of the host's document are a payload.
LEMMA PayloadFacts ==
    ASSUME SegmentsInv
    PROVE  Payload(memory) \in Payloads
<1>1. Encoding \in [SUBSET (1 .. MaxAppends) -> Payloads]
  BY Zenon, AppendsAssumption DEF Encoding
<1> QED
  BY Zenon, <1>1 DEF Payload, SegmentsInv

\* An empty directory satisfies the invariant of the segments.
LEMMA SegmentsInit == OInit => SegmentsInv
<1> SUFFICES ASSUME OInit PROVE SegmentsInv
  OBVIOUS
<1>1. /\ appended = 0 /\ memory = {} /\ ops = [i \in {} |-> 0] /\ archive = [i \in {} |-> 0]
  BY DEF OInit
<1>2. Directory(ops) /\ Directory(archive)
  BY <1>1, FS_EmptySet DEF Directory
<1>3. NothingDestroyed
  BY <1>1 DEF NothingDestroyed
<1> QED
  BY <1>1, <1>2, <1>3, AppendsAssumption DEF SegmentsInv

\* Each step of the container with segments is a step of Storage, or none.
LEMMA SegmentsStep ==
    ASSUME SegmentsInv, [ONext]_ovars
    PROVE  SegmentsInv' /\ [Next]_vars
<1>1. UNCHANGED segmentVars => SegmentsInv'
  BY DEF segmentVars, SegmentsInv, Directory, NothingDestroyed, Range
<1>2. CASE UNCHANGED ovars
  BY <1>1, <1>2 DEF ovars
<1>3. CASE AppendOpSegment
  <2>1. /\ appended' = appended + 1 /\ appended < MaxAppends
        /\ archive' = archive /\ memory' = memory \cup {appended + 1}
        /\ ops' = With(ops, NextIndex(ops), appended + 1) /\ UNCHANGED vars
    BY <1>3 DEF AppendOpSegment
  <2>2. appended \in Nat /\ MaxAppends \in Nat
    BY AppendsAssumption DEF SegmentsInv
  <2>3. /\ IsFiniteSet(DOMAIN ops') /\ DOMAIN ops' \subseteq Nat
        /\ ops' \in [DOMAIN ops' -> 1 .. appended + 1]
        /\ Range(ops') = Range(ops) \cup {appended + 1}
    BY <2>1, <2>2, DirectoryWith DEF SegmentsInv
  <2>4. archive \in [DOMAIN archive -> 1 .. appended + 1]
    BY <2>2 DEF SegmentsInv, Directory
  <2>5. 1 .. appended + 1 = (1 .. appended) \cup {appended + 1}
    BY <2>2
  <2>6. NothingDestroyed'
    BY <2>1, <2>3, <2>5 DEF SegmentsInv, NothingDestroyed
  <2> QED
    BY <2>1, <2>2, <2>3, <2>4, <2>6 DEF SegmentsInv, Directory
<1>4. CASE StartCompaction
  BY <1>4 DEF StartCompaction, SegmentsInv, Directory, NothingDestroyed, Range
<1>5. ASSUME NEW i \in DOMAIN ops, ArchiveOp(i)
      PROVE  SegmentsInv' /\ [Next]_vars
  <2>1. /\ archive' = With(archive, NextIndex(archive), ops[i])
        /\ ops' = Restrict(ops, DOMAIN ops \ {i})
        /\ appended' = appended /\ memory' = memory /\ UNCHANGED vars
    BY <1>5 DEF ArchiveOp, ArchiveIndex
  <2>2. appended \in Nat /\ ops[i] \in 1 .. appended
    BY DEF SegmentsInv, Directory
  <2>3. /\ IsFiniteSet(DOMAIN archive') /\ DOMAIN archive' \subseteq Nat
        /\ archive' \in [DOMAIN archive' -> 1 .. appended]
        /\ Range(archive') = Range(archive) \cup {ops[i]}
    BY <2>1, <2>2, DirectoryWith DEF SegmentsInv
  <2>4. DOMAIN ops' = DOMAIN ops \ {i} /\ \A k \in DOMAIN ops' : ops'[k] = ops[k]
    BY <2>1 DEF Restrict
  <2>5. IsFiniteSet(DOMAIN ops')
    BY <2>4, FS_RemoveElement DEF SegmentsInv, Directory
  <2>6. ops' \in [DOMAIN ops' -> 1 .. appended]
    BY <2>1, <2>4 DEF Restrict, SegmentsInv, Directory
  <2>7. Range(ops) \subseteq Range(ops') \cup {ops[i]}
    BY <2>4 DEF Range
  <2>8. NothingDestroyed'
    BY <2>1, <2>3, <2>7 DEF SegmentsInv, NothingDestroyed
  <2> QED
    BY Zenon, <2>1, <2>3, <2>4, <2>5, <2>6, <2>8 DEF SegmentsInv, Directory
<1>6. CASE RewriteTombstones
  BY <1>6 DEF RewriteTombstones, SegmentsInv, Directory, NothingDestroyed, Range
<1>7. CASE WriteSnapshot
  <2>1. UNCHANGED <<ops, archive, memory, appended>> /\ WriteSegment(Payload(memory))
    BY <1>7 DEF WriteSnapshot
  <2>2. Next
    BY <2>1, PayloadFacts DEF Next
  <2> QED
    BY <2>1, <2>2 DEF SegmentsInv, Directory, NothingDestroyed, Range
<1>8. CASE FinishSnapshot
  BY <1>1, <1>8 DEF FinishSnapshot, Next
<1>9. ASSUME NEW lostseg \in SUBSET Slots, NEW lostsup \in SUBSET Slots,
             CrashAndReload(lostseg, lostsup)
      PROVE  SegmentsInv' /\ [Next]_vars
  <2>1. Crash(lostseg, lostsup) /\ UNCHANGED <<ops, archive, appended>>
        /\ memory' = Readable(vseg', vsup')
    BY <1>9 DEF CrashAndReload
  <2>2. memory' \subseteq 1 .. MaxAppends
    BY <2>1, ReadableFacts
  <2> QED
    BY <2>1, <2>2 DEF Next, SegmentsInv, Directory, NothingDestroyed, Range
<1>10. ASSUME NEW file \in Corruptible, NEW s \in Slots, DamageAtRest(file, s)
       PROVE  SegmentsInv' /\ [Next]_vars
  BY <1>1, <1>10 DEF DamageAtRest, Next
<1> QED
  BY <1>2, <1>3, <1>4, <1>5, <1>6, <1>7, <1>8, <1>9, <1>10 DEF ONext

\* The storage with operation segments and compaction keeps every promise of the
\* snapshot container: append_op_segment and compact() touch the slots only
\* through write_snapshot.
THEOREM SegmentsImplementStorage == OSpec => Spec
<1>1. OInit => Init /\ SegmentsInv
  BY SegmentsInit DEF OInit
<1>2. SegmentsInv /\ [ONext]_ovars => SegmentsInv' /\ [Next]_vars
  BY SegmentsStep
<1> QED
  BY <1>1, <1>2, PTL DEF OSpec, Spec

\* compact() destroys nothing wherever it stops: next_index gives an archived
\* segment a name no archived segment has, so every appended operation stays on
\* disk, for any number of appends, compactions, crashes and damaged snapshots.
THEOREM CompactionDestroysNothing == OSpec => []NothingDestroyed
<1>1. SegmentsInv => NothingDestroyed
  BY DEF SegmentsInv
<1>2. SegmentsInv /\ [ONext]_ovars => SegmentsInv'
  BY SegmentsStep
<1> QED
  BY <1>1, <1>2, SegmentsInit, PTL DEF OSpec

\* So the whole storage, with its segments and compaction, is one durable cell.
THEOREM SegmentsCrashSafety == OSpec => CrashSafe
BY SegmentsImplementStorage, CrashSafety, PTL
=============================================================================
