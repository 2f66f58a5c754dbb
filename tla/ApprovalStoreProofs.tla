------------------------- MODULE ApprovalStoreProofs ------------------------
(***************************************************************************)
(* Proofs about the two stores of revocations: ApprovalStore, for any ids, *)
(* requests, artifacts and bounds, and RevocationStore, for any tokens.    *)
(***************************************************************************)
EXTENDS ApprovalStore, FiniteSetTheorems, WellFoundedInduction, TLAPS

\* The first k lines of a file; those no power loss takes away.
Upto(q, k) == {q[i] : i \in 1 .. k}
Kept == Upto(lines, synced)

\* Every acknowledged revocation is such a line.
AckedOnDisk == acked \subseteq Kept

\* A snapshot as from_snapshot accepts it: revocations name approved records,
\* one revocation each.
Sound(s) ==
    /\ \A r \in s.revocations : r.id \in s.approvals /\ what[r.id].decision = "approved"
    /\ \A r, q \in s.revocations : r.id = q.id => r = q

AllSound == Sound(reg) /\ Sound(copy) /\ \A s \in disk : Sound(s)

\* The sidecar has one line per approval, and no line contradicts a snapshot
\* that a load could find, except for what the caller left out of a save.
SidecarAgrees ==
    /\ \A r, q \in Range(lines) : r.id = q.id => r = q
    /\ \A r \in Range(lines) : r.id \notin unsaved =>
           /\ what[r.id].decision = "approved"
           /\ \A s \in disk :
                  r.id \in s.approvals /\ \A q \in s.revocations : q.id = r.id => q = r

\* A running process knows every revocation on disk, with the same exception.
MemoryKnows ==
    /\ up => Range(lines) \subseteq reg.revocations
    /\ copy.revocations \subseteq reg.revocations
    /\ \A s \in disk : \A r \in s.revocations : r.id \notin unsaved => r \in saved.revocations
    /\ up => \A r \in saved.revocations : r.id \notin unsaved => r \in reg.revocations

AckedInv == AckedOnDisk /\ AckedRevocationHolds
AgreeInv == AllSound /\ SidecarAgrees /\ MemoryKnows

-----------------------------------------------------------------------------
(* Sequences of lines *)

\* What Append adds to the lines of a file, and to those before a position.
LEMMA AppendLines ==
    ASSUME NEW S, NEW q \in Seq(S), NEW x \in S, NEW k \in 0 .. Len(q)
    PROVE  /\ Append(q, x) \in Seq(S)
           /\ Len(Append(q, x)) = Len(q) + 1
           /\ Range(Append(q, x)) = Range(q) \cup {x}
           /\ Upto(Append(q, x), k) = Upto(q, k)
           /\ Upto(q, k) \subseteq Upto(Append(q, x), Len(q) + 1)
           /\ x \in Upto(Append(q, x), Len(q) + 1)
  BY DEF Range, Upto

\* What cutting a file after k lines keeps.
LEMMA CutLines ==
    ASSUME NEW S, NEW q \in Seq(S), NEW n \in 0 .. Len(q), NEW k \in n .. Len(q)
    PROVE  /\ SubSeq(q, 1, k) \in Seq(S)
           /\ Len(SubSeq(q, 1, k)) = k
           /\ Range(SubSeq(q, 1, k)) \subseteq Range(q)
           /\ Upto(q, n) \subseteq Upto(SubSeq(q, 1, k), k)
  BY DEF Range, Upto

\* A snapshot's fields, and a snapshot from its fields.
LEMMA SnapTypes ==
    /\ \A s \in Snapshots : s.approvals \subseteq Ids /\ s.revocations \subseteq Revocations
    /\ \A A \in SUBSET Ids, R \in SUBSET Revocations :
           /\ Snap(A, R) \in Snapshots
           /\ Snap(A, R).approvals = A /\ Snap(A, R).revocations = R
  BY ZenonT(30) DEF Snapshots, Snap

\* What a recovery keeps of the revocation file are lines of it.
LEMMA KeptAreLines ==
    ASSUME TypeOK
    PROVE  Kept \subseteq Range(lines)
  BY DEF Kept, Upto, Range, TypeOK

-----------------------------------------------------------------------------
(* Type correctness *)

\* Every variable of the store keeps its type, whatever the caller does.
THEOREM StoreTypes == Spec => []TypeOK
<1>1. Init => TypeOK
  BY ApprovalAssumption, SnapTypes DEF Init, TypeOK, Legacy
<1>2. TypeOK /\ [Next]_vars => TypeOK'
  <2> SUFFICES ASSUME TypeOK, [Next]_vars PROVE TypeOK'
    OBVIOUS
  <2> USE ApprovalAssumption, SnapTypes
  <2>1. ASSUME NEW i \in Ids, record(i) PROVE TypeOK'
    BY <2>1 DEF TypeOK, record, files, history
  <2>2. ASSUME NEW i \in Ids, revoke(i) PROVE TypeOK'
    <3>1. [id |-> i, at |-> now] \in Revocations
      BY ZenonT(30) DEF TypeOK, Revocations
    <3> QED
      BY <2>2, <3>1 DEF TypeOK, revoke, files, history
  <2>3. ASSUME NEW s \in {reg, copy}, save(s) PROVE TypeOK'
    <3>1. saved.revocations \cup Range(lines) \subseteq Revocations
      BY DEF TypeOK, Range
    <3>2. {r.id : r \in (saved.revocations \cup Range(lines)) \ s.revocations} \subseteq Ids
      BY <3>1 DEF Revocations
    <3>3. s \in Snapshots
      BY DEF TypeOK

    <3>4. saved' \in Snapshots /\ disk' \subseteq Snapshots /\ saved' \in disk' /\ written' \subseteq Snapshots
      BY <2>3, <3>3 DEF TypeOK, save, SavedDurably
    <3>5. faults' \in 0 .. MaxFaults
      BY <2>3 DEF TypeOK, save, SavedDurably, Fault
    <3>6. unsaved' \subseteq Ids
      BY ZenonT(30), <2>3, <3>2 DEF TypeOK, save
    <3> QED
      BY ZenonT(30), <2>3, <3>4, <3>5, <3>6 DEF TypeOK, save
  <2>4. ASSUME NEW r \in reg.revocations, append_revocation(r) PROVE TypeOK'
    <3>1. r \in Revocations /\ r.id \in Ids
      BY DEF TypeOK, Revocations
    <3>2. Append(lines, r) \in Seq(Revocations) /\ Len(Append(lines, r)) = Len(lines) + 1
      BY <3>1 DEF TypeOK
    <3>3. /\ lines' \in Seq(Revocations) /\ tail' \in {"whole", "torn"} /\ synced' \in 0 .. Len(lines')
          /\ acked' \subseteq Revocations /\ faults' \in 0 .. MaxFaults
      <4>1. CASE AlreadyThere(r)
        BY <4>1 DEF TypeOK, AlreadyThere, Fault
      <4>2. CASE Appended(r)
        BY <4>2, <3>1, <3>2 DEF TypeOK, Appended
      <4>3. CASE AppendFailed(r)
        <5>1. lines' = lines \/ lines' = Append(lines, r)
          BY ZenonT(30), <4>3 DEF AppendFailed
        <5>2. lines' \in Seq(Revocations) /\ synced' \in 0 .. Len(lines')
          BY SMTT(30), <4>3, <5>1, <3>2 DEF TypeOK, AppendFailed
        <5> QED
          BY <4>3, <5>2 DEF TypeOK, AppendFailed, Fault
      <4> QED
        BY ZenonT(30), <2>4, <4>1, <4>2, <4>3 DEF append_revocation
    <3> QED
      BY <2>4, <3>1, <3>3 DEF TypeOK, append_revocation
  <2>5. ASSUME TakeCopy PROVE TypeOK'
    BY ZenonT(30), <2>5 DEF TypeOK, TakeCopy, files, history
  <2>6. ASSUME load_registry PROVE TypeOK'
    <3>1. Merged \in Snapshots
      BY DEF Merged, TypeOK, Range
    <3> QED
      BY ZenonT(30), <2>6, <3>1 DEF TypeOK, load_registry, files, history
  <2>7. ASSUME Tick PROVE TypeOK'
    BY <2>7 DEF TypeOK, Tick, files, history
  <2>8. ASSUME Crash PROVE TypeOK'
    BY <2>8 DEF TypeOK, Crash, files, history, Empty
  <2>9. ASSUME PowerLoss PROVE TypeOK'
    <3>1. PICK k \in synced .. Len(lines) :
              /\ lines' = SubSeq(lines, 1, k) /\ synced' = k
              /\ tail' \in IF k < Len(lines) THEN {"whole", "torn"} ELSE {"whole", tail}
      BY ZenonT(30), <2>9 DEF PowerLoss, Surviving
    <3>2. lines' \in Seq(Revocations) /\ synced' \in 0 .. Len(lines')
      BY <3>1, CutLines DEF TypeOK
    <3>3. tail' \in {"whole", "torn"}
      BY ZenonT(30), <3>1 DEF TypeOK
    <3> QED
      BY <2>9, <3>2, <3>3 DEF TypeOK, PowerLoss, history, Empty
  <2>10. CASE UNCHANGED vars
    BY <2>10 DEF TypeOK, vars, files, history
  <2> QED
    BY ZenonT(30), <2>1, <2>2, <2>3, <2>4, <2>5, <2>6, <2>7, <2>8, <2>9, <2>10 DEF Next
<1> QED
  BY <1>1, <1>2, PTL DEF Spec

-----------------------------------------------------------------------------
(* Acknowledged revocations *)

\* A revocation that was written and acknowledged is in force in every registry
\* loaded from then on.
THEOREM AcknowledgedRevocationsHold == Spec => []AckedRevocationHolds
<1>1. Init => AckedInv
  BY ZenonT(30) DEF Init, AckedInv, AckedOnDisk, AckedRevocationHolds
<1>2. TypeOK /\ AckedInv /\ [Next]_vars => AckedInv'
  <2> SUFFICES ASSUME TypeOK, AckedInv, [Next]_vars PROVE AckedInv'
    OBVIOUS
  <2> USE SnapTypes
  <2>1. ASSUME NEW i \in Ids, record(i) PROVE AckedInv'
    BY <2>1 DEF TypeOK, AckedInv, AckedOnDisk, AckedRevocationHolds, Kept, record, files, history, up
  <2>2. ASSUME NEW i \in Ids, revoke(i) PROVE AckedInv'
    <3>1. [id |-> i, at |-> now] \in Revocations
      BY ZenonT(30) DEF TypeOK, Revocations
    <3>2. reg.revocations \subseteq reg'.revocations
      BY <2>2, <3>1 DEF TypeOK, revoke
    <3>3. acked' = acked /\ Kept' = Kept /\ up' = up
      BY ZenonT(30), <2>2 DEF Kept, revoke, files, history, up
    <3> QED
      BY ZenonT(30), <3>2, <3>3 DEF AckedInv, AckedOnDisk, AckedRevocationHolds
  <2>3. ASSUME NEW s \in {reg, copy}, save(s) PROVE AckedInv'
    BY ZenonT(30), <2>3 DEF AckedInv, AckedOnDisk, AckedRevocationHolds, Kept, save, up
  <2>4. ASSUME NEW r \in reg.revocations, append_revocation(r) PROVE AckedInv'
    <3>1. r \in Revocations
      BY ZenonT(30) DEF TypeOK
    <3>2. CASE AlreadyThere(r)
      BY ZenonT(30), <2>4, <3>2
         DEF AckedInv, AckedOnDisk, AckedRevocationHolds, Kept, append_revocation, AlreadyThere, up
    <3>3. CASE Appended(r)
      <4>1. Kept \subseteq Kept' /\ r \in Kept'
        <5>1. synced \in 0 .. Len(lines) /\ lines \in Seq(Revocations)
          BY ZenonT(30) DEF TypeOK
        <5>2. lines' = Append(lines, r) /\ synced' = Len(lines) + 1
          BY ZenonT(30), <3>1, <3>3, <5>1, AppendLines DEF Appended
        <5> QED
          BY ZenonT(30), <5>1, <5>2, <3>1, AppendLines DEF Kept
      <4> QED
        BY ZenonT(30), <2>4, <3>3, <4>1
           DEF AckedInv, AckedOnDisk, AckedRevocationHolds, append_revocation, Appended, up
    <3>4. CASE AppendFailed(r)
      <4>1. Kept' = Kept
        <5>1. lines' = lines \/ lines' = Append(lines, r)
          BY ZenonT(30), <3>4 DEF AppendFailed
        <5>2. QED
          <6>1. synced \in 0 .. Len(lines) /\ lines \in Seq(Revocations) /\ synced' = synced
            BY ZenonT(30), <3>4 DEF TypeOK, AppendFailed
          <6>2. Upto(Append(lines, r), synced) = Upto(lines, synced)
            BY <6>1, <3>1, AppendLines
          <6> QED
            BY ZenonT(30), <5>1, <6>1, <6>2 DEF Kept
      <4> QED
        BY ZenonT(30), <2>4, <3>4, <4>1
           DEF AckedInv, AckedOnDisk, AckedRevocationHolds, append_revocation, AppendFailed, up
    <3> QED
      BY ZenonT(30), <2>4, <3>2, <3>3, <3>4 DEF append_revocation
  <2>5. ASSUME TakeCopy PROVE AckedInv'
    BY ZenonT(30), <2>5
       DEF AckedInv, AckedOnDisk, AckedRevocationHolds, Kept, TakeCopy, files, history, up
  <2>6. ASSUME load_registry PROVE AckedInv'
    <3>1. Kept' = Kept /\ acked' = acked
      BY ZenonT(30), <2>6 DEF load_registry, files, history, Kept
    <3>2. Range(lines) \subseteq Revocations
      BY DEF TypeOK, Range
    <3>3. Range(lines) \subseteq reg'.revocations
      BY <2>6, <3>2 DEF TypeOK, load_registry, Merged
    <3> QED
      BY ZenonT(30), <3>1, <3>3, KeptAreLines DEF AckedInv, AckedOnDisk, AckedRevocationHolds
  <2>7. ASSUME Tick PROVE AckedInv'
    BY ZenonT(30), <2>7 DEF AckedInv, AckedOnDisk, AckedRevocationHolds, Kept, Tick, files, history, up
  <2>8. ASSUME Crash PROVE AckedInv'
    BY ZenonT(30), <2>8 DEF AckedInv, AckedOnDisk, AckedRevocationHolds, Kept, Crash, files, history, up
  <2>9. ASSUME PowerLoss PROVE AckedInv'
    <3>1. PICK k \in synced .. Len(lines) : lines' = SubSeq(lines, 1, k) /\ synced' = k
      BY ZenonT(30), <2>9 DEF PowerLoss, Surviving
    <3>2. Kept \subseteq Kept'
      BY ZenonT(30), <3>1, CutLines DEF TypeOK, Kept
    <3> QED
      BY ZenonT(30), <2>9, <3>2 DEF AckedInv, AckedOnDisk, AckedRevocationHolds, PowerLoss, history, up
  <2>10. CASE UNCHANGED vars
    BY ZenonT(30), <2>10 DEF AckedInv, AckedOnDisk, AckedRevocationHolds, Kept, vars, files, history, up
  <2> QED
    BY ZenonT(30), <2>1, <2>2, <2>3, <2>4, <2>5, <2>6, <2>7, <2>8, <2>9, <2>10 DEF Next
<1>3. AckedInv => AckedRevocationHolds
  BY ZenonT(30) DEF AckedInv
<1> QED
  BY <1>1, <1>2, <1>3, StoreTypes, PTL DEF Spec

\* The snapshot file, and what a power loss would leave of it, are the snapshot
\* of the last save that succeeded or of one that failed after it.
THEOREM SnapshotAlwaysASave == Spec => []SnapshotIsASave
<1>1. Init => SnapshotIsASave
  BY ZenonT(30) DEF Init, SnapshotIsASave
<1>2. SnapshotIsASave /\ [Next]_vars => SnapshotIsASave'
  <2> SUFFICES ASSUME SnapshotIsASave, [Next]_vars PROVE SnapshotIsASave'
    OBVIOUS
  <2>1. ASSUME NEW s \in {reg, copy}, save(s) PROVE SnapshotIsASave'
    BY ZenonT(30), <2>1 DEF SnapshotIsASave, save, SavedDurably
  <2>2. ASSUME PowerLoss PROVE SnapshotIsASave'
    BY ZenonT(30), <2>2 DEF SnapshotIsASave, PowerLoss, history
  <2>3. ASSUME \/ \E i \in Ids : record(i) \/ revoke(i)
               \/ \E r \in reg.revocations : append_revocation(r)
               \/ TakeCopy \/ load_registry \/ Tick \/ Crash \/ UNCHANGED vars
        PROVE  SnapshotIsASave'
    BY ZenonT(30), <2>3 DEF SnapshotIsASave, record, revoke, append_revocation, TakeCopy, load_registry,
                Tick, Crash, vars, files, history
  <2> QED
    BY ZenonT(30), <2>1, <2>2, <2>3 DEF Next
<1> QED
  BY <1>1, <1>2, PTL DEF Spec

-----------------------------------------------------------------------------
(* Agreement of snapshot and sidecar *)

\* Between loads and saves: what each step does to the agreement.
LEMMA AgreeInit == Init => AgreeInv
  <1> SUFFICES ASSUME Init PROVE AgreeInv
    OBVIOUS
  <1>1. reg.revocations = {} /\ copy = reg /\ saved = reg /\ disk = {reg} /\ Range(lines) = {}
    BY DEF Init, Snap, Range
  <1> QED
    BY ZenonT(30), <1>1 DEF AgreeInv, AllSound, Sound, SidecarAgrees, MemoryKnows

\* Steps that only add to the registry in memory.
LEMMA MemoryStepAgrees ==
    ASSUME TypeOK, AgreeInv,
           \/ \E i \in Ids : record(i) \/ revoke(i)
           \/ TakeCopy \/ Tick
    PROVE  AgreeInv'
  <1> USE SnapTypes
  <1>0. /\ what' = what /\ saved' = saved /\ disk' = disk /\ lines' = lines
        /\ unsaved' = unsaved /\ up' = up
    BY ZenonT(30) DEF record, revoke, TakeCopy, Tick, files, history, up
  <1>1. ASSUME NEW i \in Ids, record(i) PROVE AgreeInv'
    <2>1. reg'.approvals = reg.approvals \cup {i} /\ reg'.revocations = reg.revocations /\ copy' = copy
      BY SMTT(30), <1>1 DEF TypeOK, record
    <2> QED
      BY ZenonT(30), <1>0, <2>1 DEF AgreeInv, AllSound, Sound, SidecarAgrees, MemoryKnows
  <1>2. ASSUME NEW i \in Ids, revoke(i) PROVE AgreeInv'
    <2> DEFINE new == [id |-> i, at |-> now]
    <2>1. new \in Revocations /\ new.id = i
      BY ZenonT(30) DEF TypeOK, Revocations
    <2> HIDE DEF new
    <2>2. /\ reg'.approvals = reg.approvals /\ reg'.revocations = reg.revocations \cup {new}
          /\ copy' = copy
      BY SMTT(30), <1>2, <2>1 DEF TypeOK, revoke, new
    <2>3. /\ i \in reg.approvals /\ what[i].decision = "approved"
          /\ \A r \in reg.revocations : r.id # i
      BY ZenonT(30), <1>2 DEF revoke, is_revoked
    <2>4. Sound(reg)'
      BY ZenonT(30), <1>0, <2>1, <2>2, <2>3 DEF AgreeInv, AllSound, Sound
    <2> QED
      BY ZenonT(30), <1>0, <2>2, <2>4 DEF AgreeInv, AllSound, Sound, SidecarAgrees, MemoryKnows
  <1>3. ASSUME TakeCopy PROVE AgreeInv'
    BY SMTT(30), <1>0, <1>3 DEF AgreeInv, AllSound, Sound, SidecarAgrees, MemoryKnows, TakeCopy
  <1>4. ASSUME Tick PROVE AgreeInv'
    BY <1>0, <1>4 DEF AgreeInv, AllSound, Sound, SidecarAgrees, MemoryKnows, Tick
  <1> QED
    BY ZenonT(30), <1>1, <1>2, <1>3, <1>4

\* A snapshot keeps the files in agreement.
LEMMA SaveAgrees ==
    ASSUME TypeOK, AgreeInv, NEW s \in {reg, copy}, save(s)
    PROVE  AgreeInv'
  <1> DEFINE left == {r.id : r \in (saved.revocations \cup Range(lines)) \ s.revocations}
  <1>0. /\ what' = what /\ reg' = reg /\ copy' = copy /\ lines' = lines /\ up' = up /\ up
        /\ unsaved' = unsaved \cup left
    BY ZenonT(30) DEF save, up
  <1>1. /\ saved' = saved \/ saved' = s
        /\ disk' \subseteq disk \cup {s} /\ (saved' = saved => disk' \subseteq disk \cup {saved})
        /\ saved \in disk
    BY ZenonT(30) DEF save, SavedDurably, TypeOK
  <1>2. /\ \A r \in Range(lines) : r.id \notin unsaved' => r \in s.revocations
        /\ \A r \in saved.revocations : r.id \notin unsaved' => r \in s.revocations
        /\ \A r : r.id \notin unsaved' => r.id \notin unsaved
    BY ZenonT(30), <1>0
  <1> HIDE DEF left
  <1>3. Sound(s) /\ s.revocations \subseteq reg.revocations
    BY ZenonT(30) DEF AgreeInv, AllSound, MemoryKnows
  <1>4. AllSound'
    BY ZenonT(30), <1>0, <1>1, <1>3 DEF AgreeInv, AllSound, Sound
  <1>5. MemoryKnows'
    BY ZenonT(30), <1>0, <1>1, <1>2, <1>3 DEF AgreeInv, MemoryKnows
  <1>6. SidecarAgrees'
    <2>1. ASSUME NEW r \in Range(lines), r.id \notin unsaved'
          PROVE  /\ what[r.id].decision = "approved"
                 /\ \A t \in disk \cup {s} :
                        r.id \in t.approvals /\ \A q \in t.revocations : q.id = r.id => q = r
      BY ZenonT(30), <2>1, <1>2, <1>3 DEF AgreeInv, SidecarAgrees, Sound
    <2> QED
      BY ZenonT(30), <1>0, <1>1, <2>1 DEF AgreeInv, SidecarAgrees
  <1> QED
    BY ZenonT(30), <1>4, <1>5, <1>6 DEF AgreeInv

\* So does a revocation appended to its own file,
LEMMA AppendAgrees ==
    ASSUME TypeOK, AgreeInv, NEW r \in reg.revocations, append_revocation(r)
    PROVE  AgreeInv'
  <1>0. /\ what' = what /\ reg' = reg /\ copy' = copy /\ saved' = saved /\ disk' = disk
        /\ up' = up /\ up
        /\ \A i : i \notin unsaved' => i \notin unsaved
        /\ r.id \notin unsaved' => \A s \in disk : r.id \in s.approvals
    BY ZenonT(30) DEF append_revocation, up
  <1>1. r \in Revocations
    BY ZenonT(30), SnapTypes DEF TypeOK
  <1>2. \/ Range(lines') = Range(lines)
        \/ Range(lines') = Range(lines) \cup {r} /\ \A q \in Range(lines) : q.id # r.id
    <2>1. CASE AlreadyThere(r)
      BY ZenonT(30), <2>1 DEF AlreadyThere
    <2>2. CASE ~AlreadyThere(r)
      <3>1. lines' = lines \/ lines' = Append(lines, r)
        BY ZenonT(30), <2>2 DEF append_revocation, Appended, AppendFailed
      <3>2. \A q \in Range(lines) : q.id # r.id
        BY ZenonT(30), <2>2 DEF append_revocation
      <3>3. lines \in Seq(Revocations) /\ 0 \in 0 .. Len(lines)
        BY DEF TypeOK
      <3>4. Range(Append(lines, r)) = Range(lines) \cup {r}
        BY <3>3, <1>1, AppendLines
      <3> QED
        BY ZenonT(30), <3>1, <3>2, <3>4
    <2> QED
      BY ZenonT(30), <2>1, <2>2
  <1>3. /\ what[r.id].decision = "approved"
        /\ \A q \in reg.revocations : q.id = r.id => q = r
    BY ZenonT(30) DEF AgreeInv, AllSound, Sound
  <1>4. r.id \notin unsaved' => \A s \in disk : \A q \in s.revocations : q.id = r.id => q = r
    BY ZenonT(30), <1>0, <1>3 DEF AgreeInv, MemoryKnows
  <1>5. AllSound'
    BY ZenonT(30), <1>0 DEF AgreeInv, AllSound, Sound
  <1>6. MemoryKnows'
    BY ZenonT(30), <1>0, <1>2 DEF AgreeInv, MemoryKnows
  <1>7. SidecarAgrees'
    BY ZenonT(30), <1>0, <1>2, <1>3, <1>4 DEF AgreeInv, SidecarAgrees
  <1> QED
    BY ZenonT(30), <1>5, <1>6, <1>7 DEF AgreeInv

\* and a start from the two files,
LEMMA LoadAgrees ==
    ASSUME TypeOK, AgreeInv, load_registry
    PROVE  AgreeInv'
  <1>0. /\ what' = what /\ saved' = saved /\ disk' = disk /\ lines' = lines /\ unsaved' = unsaved
        /\ reg' = Merged /\ copy' = Merged /\ Mergeable
    BY ZenonT(30) DEF load_registry, files, history
  <1>1. Range(lines) \subseteq Revocations
    BY DEF TypeOK, Range
  <1>2. /\ Merged.approvals = saved.approvals
        /\ Merged.revocations = saved.revocations \cup Range(lines)
    BY ZenonT(30), <1>1, SnapTypes DEF TypeOK, Merged
  <1>3. Sound(Merged)
    <2>1. Sound(saved)
      BY ZenonT(30) DEF AgreeInv, AllSound, TypeOK
    <2>2. \A q, t \in Range(lines) : q.id = t.id => q = t
      BY ZenonT(30) DEF AgreeInv, SidecarAgrees
    <2> QED
      BY ZenonT(30), <1>0, <1>2, <2>1, <2>2 DEF Sound, Mergeable
  <1>4. AllSound'
    BY ZenonT(30), <1>0, <1>3 DEF AgreeInv, AllSound, Sound
  <1>5. MemoryKnows'
    BY ZenonT(30), <1>0, <1>2 DEF AgreeInv, MemoryKnows
  <1>6. SidecarAgrees'
    BY ZenonT(30), <1>0 DEF AgreeInv, SidecarAgrees
  <1> QED
    BY ZenonT(30), <1>4, <1>5, <1>6 DEF AgreeInv

\* and the loss of the memory, with or without the power.
LEMMA LossAgrees ==
    ASSUME TypeOK, AgreeInv, Crash \/ PowerLoss
    PROVE  AgreeInv'
  <1>0. /\ what' = what /\ unsaved' = unsaved /\ ~up'
        /\ reg' = Empty /\ copy' = Empty
    BY ZenonT(30) DEF Crash, PowerLoss, history, up
  <1>1. Empty.approvals = {} /\ Empty.revocations = {}
    BY ZenonT(30) DEF Empty, Snap
  <1>2. saved' \in disk /\ disk' \subseteq disk
    BY ZenonT(30) DEF Crash, PowerLoss, files, TypeOK
  <1>3. (saved' = saved /\ disk' = disk) \/ disk' = {saved'}
    BY ZenonT(30) DEF Crash, PowerLoss, files
  <1>4. Range(lines') \subseteq Range(lines)
    <2>1. CASE Crash
      BY ZenonT(30), <2>1 DEF Crash, files
    <2>2. CASE PowerLoss
      <3>1. PICK k \in synced .. Len(lines) : lines' = SubSeq(lines, 1, k)
        BY ZenonT(30), <2>2 DEF PowerLoss, Surviving
      <3>2. lines \in Seq(Revocations) /\ synced \in 0 .. Len(lines)
        BY ZenonT(30) DEF TypeOK
      <3> QED
        BY ZenonT(30), <3>1, <3>2, CutLines
    <2> QED
      BY ZenonT(30), <2>1, <2>2
  <1>5. AllSound'
    BY ZenonT(30), <1>0, <1>1, <1>2 DEF AgreeInv, AllSound, Sound
  <1>6. MemoryKnows'
    BY ZenonT(30), <1>0, <1>1, <1>3 DEF AgreeInv, MemoryKnows
  <1>7. SidecarAgrees'
    BY ZenonT(30), <1>0, <1>2, <1>4 DEF AgreeInv, SidecarAgrees
  <1> QED
    BY ZenonT(30), <1>5, <1>6, <1>7 DEF AgreeInv

\* A load is refused only over a revocation the caller appended before its
\* approval was saved, or left out of a snapshot it saved.
THEOREM LoadRefusalsExplained == Spec => []LoadRefusalExplained
<1>1. TypeOK /\ AgreeInv /\ [Next]_vars => AgreeInv'
  <2>1. ASSUME AgreeInv, UNCHANGED vars PROVE AgreeInv'
    BY ZenonT(30), <2>1
       DEF AgreeInv, AllSound, Sound, SidecarAgrees, MemoryKnows, vars, files, history, up
  <2> QED
    BY ZenonT(30), <2>1, MemoryStepAgrees, SaveAgrees, AppendAgrees, LoadAgrees, LossAgrees DEF Next
<1>2. TypeOK /\ AgreeInv => LoadRefusalExplained
  BY ZenonT(30) DEF TypeOK, AgreeInv, SidecarAgrees, LoadRefusalExplained, Mergeable
<1> QED
  BY <1>1, <1>2, AgreeInit, StoreTypes, PTL DEF Spec

-----------------------------------------------------------------------------
(* The gate *)

\* A set of numbers below a bound has a largest one: the distances to the bound
\* have a smallest one.
LEMMA LargestExists ==
    ASSUME NEW n \in Nat, NEW T \in SUBSET (1 .. n), T # {}
    PROVE  \E i \in T : \A j \in T : j <= i
  <1> DEFINE R == {ss \in Nat \X Nat : ss[1] < ss[2]}
             D == {n - i : i \in T}
  <1>1. \A x, y \in Nat : <<y, x>> \in R <=> y < x
    OBVIOUS
  <1>2. D \subseteq Nat /\ D # {}
    <2>1. \A i \in T : n - i \in Nat
      OBVIOUS
    <2>2. D \subseteq Nat
      BY ZenonT(30), <2>1
    <2>3. PICK i \in T : TRUE
      OBVIOUS
    <2>4. n - i \in D
      OBVIOUS
    <2> QED
      BY ZenonT(30), <2>2, <2>4
  <1>3. IsWellFoundedOn(R, Nat)
    BY ZenonT(30), NatLessThanWellFounded, Zenon DEF OpToRel
  <1> HIDE DEF R
  <1>4. PICK d \in D : \A e \in D : ~(<<e, d>> \in R)
    BY ZenonT(30), <1>2, <1>3, WFMin
  <1>5. \A e \in D : d <= e
    <2> HIDE DEF D
    <2>1. d \in Nat /\ \A e \in D : e \in Nat /\ ~(<<e, d>> \in R)
      BY ZenonT(30), <1>2, <1>4
    <2>2. \A e \in D : ~(e < d)
      BY ZenonT(30), <2>1, <1>1
    <2> QED
      BY <2>1, <2>2
  <1>6. PICK i \in T : d = n - i
    OBVIOUS
  <1>7. \A j \in T : n - j \in D
    OBVIOUS
  <1>8. \A j \in T : j <= i
    <2> SUFFICES ASSUME NEW j \in T PROVE j <= i
      OBVIOUS
    <2>1. i \in Nat /\ j \in Nat
      OBVIOUS
    <2>2. n - i <= n - j
      BY ZenonT(30), <1>5, <1>6, <1>7
    <2> HIDE DEF D
    <2> QED
      BY <2>1, <2>2
  <1> QED
    BY ZenonT(30), <1>8

\* evaluate_id authorizes exactly the usable approvals, evaluate nothing without
\* one, and neither lets an acknowledged revocation be undone by a restart.
THEOREM GateAlwaysSound == Spec => []GateSound
<1>1. TypeOK /\ AckedRevocationHolds => GateSound
  <2> SUFFICES ASSUME TypeOK, AckedRevocationHolds, up, NEW a \in Artifacts
               PROVE  /\ \A i \in Ids : evaluate_id(i, a) = "approved" <=> Usable(i, a)
                      /\ evaluate(a) = "approved" => \E i \in Ids : Usable(i, a)
                      /\ evaluate(a) = "denied" => Candidates(a) = {}
    BY ZenonT(30) DEF GateSound
  <2>1. ASSUME NEW i \in Ids PROVE Expired(i) <=> ~(what[i].expires = Never \/ now < what[i].expires)
    BY ApprovalAssumption DEF TypeOK, Expired
  <2>2. ASSUME NEW i \in Ids
        PROVE  Usable(i, a) <=> i \in Candidates(a) /\ ~is_revoked(i) /\ ~Expired(i)
    BY ZenonT(30), <2>1 DEF Usable, Candidates, is_revoked, AckedRevocationHolds
  <2>3. \A i \in Ids : evaluate_id(i, a) = "approved" <=> Usable(i, a)
    BY ZenonT(30), <2>2 DEF evaluate_id, Verdict
  <2>4. ASSUME Candidates(a) # {}
        PROVE  \E i \in Candidates(a) : evaluate(a) = Verdict(i)
    <3>1. Candidates(a) \subseteq Ids
      BY ZenonT(30), SnapTypes DEF TypeOK, Candidates
    <3>2. \E i \in Candidates(a) : \A j \in Candidates(a) : j <= i
      BY ZenonT(30), <2>4, <3>1, LargestExists, ApprovalAssumption DEF Ids
    <3> QED
      BY ZenonT(30), <3>2, <2>4 DEF evaluate
  <2>5. evaluate(a) = "approved" => \E i \in Ids : Usable(i, a)
    <3>1. CASE Candidates(a) = {}
      BY ZenonT(30), <3>1 DEF evaluate
    <3>2. CASE Candidates(a) # {}
      BY ZenonT(30), <3>2, <2>2, <2>4, SnapTypes DEF Verdict, TypeOK, Candidates
    <3> QED
      BY ZenonT(30), <3>1, <3>2
  <2>6. evaluate(a) = "denied" => Candidates(a) = {}
    BY ZenonT(30), <2>4 DEF Verdict
  <2> QED
    BY ZenonT(30), <2>3, <2>5, <2>6
<1> QED
  BY <1>1, StoreTypes, AcknowledgedRevocationsHold, PTL

-----------------------------------------------------------------------------
(* RevocationStore: credentials that were revoked.  Two arguments.  An     *)
(* acknowledged denial is in every snapshot that can be found or in a line *)
(* of the journal past it that no power loss takes, and nothing that may   *)
(* still reach the journal lifts it (DenialInv).  And until an append      *)
(* fails, every line changes what the lines before it say, whatever has    *)
(* expired since, so that a load refuses none (LoadInv).                   *)

\* Its own parameters and variables; its process, journal, clock and bounds
\* have the names they have here.
CONSTANTS Tokens, Issued, Expires, MaxTokens, MaxLines
VARIABLES list, next, poison, buffer, snap, replica, read, must, due, owed, strained
Rev == INSTANCE RevocationStore

\* Induction: a set with 0 and the successors of its numbers has every number.
LEMMA Counting ==
    ASSUME NEW S, 0 \in S, \A k \in Nat : k \in S => k + 1 \in S
    PROVE  Nat \subseteq S
<1> DEFINE R == {p \in Nat \X Nat : p[1] < p[2]}
           T == {k \in Nat : k \notin S}
<1> SUFFICES ASSUME T # {} PROVE FALSE OBVIOUS
<1>1. IsWellFoundedOn(R, Nat) BY ZenonT(30), NatLessThanWellFounded DEF OpToRel
<1>2. PICK n \in T : \A m \in T : n <= m
  <2>1. T \subseteq Nat OBVIOUS
  <2> HIDE DEF R, T
  <2>2. PICK n \in T : \A m \in T : ~(<<m, n>> \in R) BY ZenonT(30), <1>1, <2>1, WFMin
  <2>3. \A m \in T : ~(m < n) BY ZenonT(30), <2>1, <2>2 DEF R
  <2>4. \A m \in T : n <= m BY <2>1, <2>3
  <2> QED BY ZenonT(30), <2>4
<1>3. n \in Nat /\ n # 0 BY ZenonT(30), <1>2
<1>4. n - 1 \in Nat /\ n - 1 \notin T BY <1>2, <1>3
<1>5. n - 1 \in S BY ZenonT(30), <1>4
<1>6. (n - 1) + 1 \in S BY ZenonT(30), <1>4, <1>5
<1> QED BY <1>2, <1>3, <1>6

-----------------------------------------------------------------------------
(* The invariant *)

\* Times are numbers; the list has room for a number of tokens.
RevocationSane ==
    /\ Issued \in [Tokens -> Nat] /\ Expires \in [Tokens -> Nat] /\ MaxTokens \in Nat

Lines == Rev!Events \cup {Rev!Junk}
Lists == [tokens : SUBSET Tokens, through : Nat \cup {Rev!None}]
Snaps == [mark : Nat, state : Lists]
Denials == {"token", "actor"} \X Tokens

RevocationTypes ==
    /\ proc \in {"up", "down"} /\ list \in Lists /\ next \in Nat /\ poison \in BOOLEAN
    /\ buffer \in [left : {"none", "line", "rest"}, line : Lines]
    /\ lines \in Seq(Lines) /\ tail \in {"whole", "torn"} /\ synced \in 0 .. Len(lines)
    /\ disk \subseteq Snaps /\ snap \in disk
    /\ replica \in Lists /\ read \in Snaps \cup {Rev!NotReading} /\ now \in Nat
    /\ must \subseteq Denials /\ due \subseteq Denials /\ owed \subseteq Denials
    /\ strained \in BOOLEAN /\ faults \in Nat

\* A denial a list holds; one a line of the journal gives.
Held(l, m) ==
    IF m[1] = "token" THEN m[2] \in l.tokens \/ Expires[m[2]] < now ELSE Issued[m[2]] <= l.through
Gives(e, m) ==
    e.kind = m[1] /\ IF m[1] = "token" THEN e.of = m[2] ELSE Issued[m[2]] <= e.of

\* A snapshot and the journal together have a denial: the snapshot's list holds
\* it, or a durable line that the snapshot does not contain gives it, and no
\* restore follows.
Covers(s, m) ==
    \E i \in Nat :
        /\ \/ i = s.mark /\ Held(s.state, m)
           \/ i \in s.mark + 1 .. synced /\ Gives(lines[i], m)
        /\ m[1] = "actor" => \A j \in i + 1 .. Len(lines) : lines[j].kind # "restore"

\* Every snapshot that can be found has every denial that is owed, and so has the
\* one a refresh has read, and the two lists.
Covered == \A m \in must : \A s \in disk : Covers(s, m)
ReadCovered == read # Rev!NotReading => \A m \in due : Covers(read, m)
ReplicaHolds == \A m \in owed : Held(replica, m)
LeaderHolds == proc = "up" => \A m \in must : Held(list, m)

\* The store of a leader that is up has counted a part of the journal no snapshot
\* is ahead of, all of it unless an append failed.
LeaderCounts ==
    proc = "up" =>
    /\ next <= Len(lines) /\ \A s \in disk : s.mark <= next
    /\ ~poison => next = Len(lines) /\ buffer.left = "none"

\* A restore that is in the file uncounted, or may still come out of the writer,
\* was asked for: no denial of the actor is owed.
Barring(M) == \E m \in M : m[1] = "actor"
RestoresAsked ==
    proc = "up" /\ Barring(must \cup due) =>
    /\ \A j \in next + 1 .. Len(lines) : lines[j].kind # "restore"
    /\ buffer.left # "none" => buffer.line.kind # "restore"

DenialInv ==
    /\ Covered /\ ReadCovered /\ ReplicaHolds /\ LeaderHolds
    /\ LeaderCounts /\ RestoresAsked

\* Tokens the first n lines name, and whether they leave the actor denied.
Mentioned(ls, n, t) == \E i \in 1 .. n : ls[i].kind = "token" /\ ls[i].of = t
Unexpired(ls, n) == {t \in Tokens : Expires[t] >= now /\ Mentioned(ls, n, t)}
Barred(ls, n) ==
    \E i \in 1 .. n : ls[i].kind = "actor" /\ \A j \in i + 1 .. n : ls[j].kind # "restore"

\* A list says of what has not expired what the first n lines say.
Standing(ls, l, n) ==
    /\ \A t \in Tokens : Expires[t] >= now => (t \in l.tokens <=> Mentioned(ls, n, t))
    /\ l.through # Rev!None <=> Barred(ls, n)

\* Line n changes what the lines before it say.
Fits(ls, n) ==
    /\ ls[n].kind = "token" /\ Expires[ls[n].of] >= now /\ ~Mentioned(ls, n - 1, ls[n].of)
          => Cardinality(Unexpired(ls, n - 1)) < MaxTokens
    /\ ls[n].kind = "restore" => Barred(ls, n - 1)

\* As long as no append failed and no line was lost, the journal is whole, every
\* line fits, and every list that can be found is what the lines it counts say.
LoadInv ==
    ~strained =>
    /\ tail = "whole" /\ \A i \in 1 .. Len(lines) : lines[i] \in Rev!Events /\ Fits(lines, i)
    /\ \A s \in disk : s.mark <= Len(lines) /\ Standing(lines, s.state, s.mark)
    /\ proc = "up" => ~poison /\ Standing(lines, list, Len(lines))

RevocationInv == RevocationTypes /\ DenialInv /\ LoadInv

-----------------------------------------------------------------------------
(* Lines, lists and what a line does to a list *)

\* What the three kinds of lines carry.
LEMMA EventKinds ==
    ASSUME RevocationSane, NEW e \in Rev!Events
    PROVE  /\ e.kind \in {"token", "actor", "restore"} /\ e # Rev!Junk
           /\ e.kind = "token" => e.of \in Tokens
           /\ e.kind = "actor" => e.of \in Nat
BY DEF Rev!Events, RevocationSane, Rev!Junk

\* An event denies what it gives.
LEMMA DeniedGiven ==
    ASSUME RevocationSane, NEW e \in Rev!Events
    PROVE  Rev!Denied(e) \subseteq Denials /\ \A m \in Rev!Denied(e) : Gives(e, m)
<1>1. CASE e.kind = "token"
  BY <1>1, EventKinds DEF Rev!Denied, Denials, Gives
<1>2. CASE e.kind = "actor"
  BY <1>2, EventKinds DEF Rev!Denied, Denials, Gives
<1>3. CASE e.kind = "restore"
  BY ZenonT(30), <1>3 DEF Rev!Denied
<1> QED BY ZenonT(30), <1>1, <1>2, <1>3, EventKinds

\* Pruning drops the expired tokens.
LEMMA PruneIs ==
    ASSUME NEW l \in Lists
    PROVE  /\ Rev!prune(l) \in Lists /\ Rev!prune(l).through = l.through
           /\ Rev!prune(l).tokens = {t \in l.tokens : Expires[t] >= now}
BY ZenonT(30) DEF Rev!prune, Lists

\* The list after a line, by its kind.
LEMMA ApplyIs ==
    ASSUME RevocationSane, now \in Nat, NEW l \in Lists, NEW e \in Rev!Events
    PROVE  /\ Rev!apply_event(l, e) \in Lists
           /\ e.kind = "token" =>
                 /\ Rev!apply_event(l, e).through = l.through
                 /\ Rev!apply_event(l, e).tokens =
                       Rev!prune(l).tokens \cup (IF Expires[e.of] >= now THEN {e.of} ELSE {})
           /\ e.kind = "actor" =>
                 /\ Rev!apply_event(l, e).tokens = l.tokens
                 /\ Rev!apply_event(l, e).through = Rev!Widened(l.through, e.of)
           /\ e.kind = "restore" =>
                 Rev!apply_event(l, e).tokens = l.tokens /\ Rev!apply_event(l, e).through = Rev!None
<1>0. Rev!prune(l) \in Lists /\ Rev!prune(l).through = l.through BY ZenonT(30), PruneIs
<1>1. CASE e.kind = "token" /\ Expires[e.of] < now
  <2>1. e.of \in Tokens /\ Expires[e.of] \in Nat BY ZenonT(30), <1>1, EventKinds DEF RevocationSane
  <2>2. ~(Expires[e.of] >= now) BY <1>1, <2>1
  <2>3. Rev!apply_event(l, e) = Rev!prune(l) BY ZenonT(30), <1>1, <2>2 DEF Rev!apply_event
  <2> QED BY ZenonT(30), <1>0, <1>1, <2>2, <2>3
<1>2. CASE e.kind = "token" /\ Expires[e.of] >= now
  <2>1. e.of \in Tokens /\ Expires[e.of] \in Nat BY ZenonT(30), <1>2, EventKinds DEF RevocationSane
  <2>2. ~(Expires[e.of] < now) BY <1>2, <2>1
  <2>3. Rev!apply_event(l, e) = [Rev!prune(l) EXCEPT !.tokens = @ \cup {e.of}]
    BY ZenonT(30), <1>2, <2>2 DEF Rev!apply_event
  <2> QED BY <1>0, <1>2, <2>1, <2>3 DEF Lists
<1>3. CASE e.kind = "actor"
  <2>1. Rev!apply_event(l, e) = [l EXCEPT !.through = Rev!Widened(@, e.of)]
    BY ZenonT(30), <1>3 DEF Rev!apply_event
  <2>2. e.of \in Nat BY ZenonT(30), <1>3, EventKinds
  <2> QED BY ZenonT(30), <1>3, <2>1, <2>2 DEF Lists, Rev!Widened, Rev!None
<1>4. CASE e.kind = "restore"
  <2>1. Rev!apply_event(l, e) = [l EXCEPT !.through = Rev!None] BY ZenonT(30), <1>4 DEF Rev!apply_event
  <2> QED BY ZenonT(30), <1>4, <2>1 DEF Lists, Rev!None
<1>5. e.kind = "token" => Expires[e.of] < now \/ Expires[e.of] >= now
  BY SMTT(30), EventKinds DEF RevocationSane
<1>6. e.kind \in {"token", "actor", "restore"} BY ZenonT(30), EventKinds
<1> QED BY ZenonT(30), <1>1, <1>2, <1>3, <1>4, <1>5, <1>6

\* A line keeps a denial unless it is a restore of the actor, and gives its own.
LEMMA ApplyHolds ==
    ASSUME RevocationSane, now \in Nat, NEW l \in Lists, NEW e \in Rev!Events, NEW m \in Denials
    PROVE  /\ Held(l, m) /\ (m[1] = "actor" => e.kind # "restore") => Held(Rev!apply_event(l, e), m)
           /\ Gives(e, m) => Held(Rev!apply_event(l, e), m)
<1>1. /\ e.kind = "token" =>
            /\ Rev!apply_event(l, e).through = l.through
            /\ Rev!apply_event(l, e).tokens =
                  {t \in l.tokens : Expires[t] >= now}
                      \cup (IF Expires[e.of] >= now THEN {e.of} ELSE {})
      /\ e.kind = "actor" =>
            /\ Rev!apply_event(l, e).tokens = l.tokens
            /\ Rev!apply_event(l, e).through = Rev!Widened(l.through, e.of)
      /\ e.kind = "restore" =>
            Rev!apply_event(l, e).tokens = l.tokens /\ Rev!apply_event(l, e).through = Rev!None
  BY ApplyIs, PruneIs
<1>2. /\ m[1] \in {"token", "actor"} /\ m[2] \in Tokens /\ Expires[m[2]] \in Nat
      /\ Issued[m[2]] \in Nat /\ l.through \in Int
  BY DEF Denials, RevocationSane, Lists, Rev!None
<1>3. /\ e.kind \in {"token", "actor", "restore"}
      /\ e.kind = "token" => e.of \in Tokens
      /\ e.kind = "actor" => e.of \in Nat
  BY ZenonT(30), EventKinds
<1>4. CASE m[1] = "token"
  BY SMTT(30), <1>1, <1>2, <1>3, <1>4 DEF Held, Gives
<1>5. CASE m[1] = "actor"
  BY SMTT(30), <1>1, <1>2, <1>3, <1>5 DEF Held, Gives, Rev!Widened
<1> QED BY ZenonT(30), <1>2, <1>4, <1>5

\* Pruning keeps every denial.
LEMMA PruneHolds ==
    ASSUME RevocationSane, now \in Nat, NEW l \in Lists, NEW m \in Denials, Held(l, m)
    PROVE  Held(Rev!prune(l), m)
<1>1. m[2] \in Tokens /\ Expires[m[2]] \in Nat BY ZenonT(30) DEF Denials, RevocationSane
<1> QED BY <1>1, PruneIs DEF Held

\* What a list holds is in force.
LEMMA HeldInForce ==
    ASSUME NEW l, NEW m \in Denials, Held(l, m)
    PROVE  Rev!InForce(l, m)
BY ZenonT(30) DEF Denials, Held, Rev!InForce, Rev!is_revoked

-----------------------------------------------------------------------------
(* Replays *)

\* The recursive function Replay is defined by, up to line b.
Applied(s, b, f) ==
    f = [n \in Rev!Skipped(s) .. b |->
            IF n = Rev!Skipped(s) THEN Rev!prune(s.state) ELSE Rev!apply_event(f[n - 1], lines[n])]

\* It exists, however many lines follow the watermark.
LEMMA AppliedExists ==
    ASSUME NEW s, s.mark \in Nat, NEW k \in Nat
    PROVE  \E f : Applied(s, s.mark + k, f)
<1> DEFINE a == s.mark
           st == Rev!prune(s.state)
           S == {j \in Nat : \E f : f = [n \in a .. a + j |->
                    IF n = a THEN st ELSE Rev!apply_event(f[n - 1], lines[n])]}
<1>0. a \in Nat OBVIOUS
<1> HIDE DEF a, st
<1>1. 0 \in S
  <2> DEFINE f == [n \in a .. a + 0 |-> st]
  <2>1. f = [n \in a .. a + 0 |-> IF n = a THEN st ELSE Rev!apply_event(f[n - 1], lines[n])] BY <1>0
  <2> QED BY ZenonT(30), <2>1
<1>2. ASSUME NEW j \in Nat, j \in S PROVE j + 1 \in S
  <2>1. PICK f : f = [n \in a .. a + j |-> IF n = a THEN st ELSE Rev!apply_event(f[n - 1], lines[n])]
    BY ZenonT(30), <1>2
  <2> DEFINE b == a + j
             c == a + (j + 1)
             x == Rev!apply_event(f[b], lines[c])
             h == [n \in a .. c |-> IF n = c THEN x ELSE f[n]]
  <2>2. \A n \in a .. b : f[n] = IF n = a THEN st ELSE Rev!apply_event(f[n - 1], lines[n])
    BY ZenonT(30), <2>1 DEF b
  <2>3. b \in Nat /\ c = b + 1 /\ a <= b BY <1>0
  <2> HIDE DEF b, c
  <2>4. h[c] = x /\ \A n \in a .. b : h[n] = f[n]
    <3> HIDE DEF x
    <3> QED BY <1>0, <2>3
  <2>5. ASSUME NEW n \in a .. c
        PROVE  h[n] = IF n = a THEN st ELSE Rev!apply_event(h[n - 1], lines[n])
    <3> HIDE DEF h
    <3>1. CASE n = c
      <4>1. n # a /\ n - 1 = b /\ b \in a .. b BY <1>0, <2>3, <3>1
      <4>2. h[n - 1] = f[b] /\ h[n] = x BY ZenonT(30), <2>4, <3>1, <4>1
      <4> QED BY ZenonT(30), <3>1, <4>1, <4>2
    <3>2. CASE n = a
      <4>1. a \in a .. b BY <1>0, <2>3
      <4> QED BY ZenonT(30), <2>2, <2>4, <3>2, <4>1
    <3>3. CASE n # c /\ n # a
      <4>1. n \in a .. b /\ n - 1 \in a .. b BY <1>0, <2>3, <3>3
      <4>2. h[n - 1] = f[n - 1] /\ h[n] = f[n] BY ZenonT(30), <2>4, <4>1
      <4> QED BY ZenonT(30), <2>2, <3>3, <4>1, <4>2
    <3> QED BY ZenonT(30), <3>1, <3>2, <3>3
  <2>6. h = [n \in a .. c |-> h[n]] BY ZenonT(30)
  <2> HIDE DEF h
  <2>7. h = [n \in a .. c |-> IF n = a THEN st ELSE Rev!apply_event(h[n - 1], lines[n])]
    BY ZenonT(30), <2>5, <2>6
  <2>8. j + 1 \in Nat OBVIOUS
  <2> QED BY ZenonT(30), <2>7, <2>8 DEF c
<1>3. Nat \subseteq S
  <2> HIDE DEF S
  <2> QED BY ZenonT(30), <1>1, <1>2, Counting
<1> QED BY ZenonT(30), <1>3 DEF Applied, Rev!Skipped, a, st

\* A replay starts from the snapshot's list and applies every line to the list
\* before it.
LEMMA ReplayUnfold ==
    ASSUME NEW s, s.mark \in Nat, Len(lines) \in Nat, s.mark <= Len(lines)
    PROVE  /\ Rev!Replay(s)[s.mark] = Rev!prune(s.state)
           /\ \A n \in s.mark + 1 .. Len(lines) :
                  Rev!Replay(s)[n] = Rev!apply_event(Rev!Replay(s)[n - 1], lines[n])
<1> DEFINE a == s.mark
           b == Len(lines)
           u == CHOOSE u : Applied(s, b, u)
<1>1. b - a \in Nat /\ a + (b - a) = b /\ a \in Nat /\ b \in Nat OBVIOUS
<1>2. \E f : Applied(s, b, f)
  <2>1. \E f : Applied(s, s.mark + (b - a), f)
    <3> HIDE DEF b, a
    <3> QED BY ZenonT(30), <1>1, AppliedExists
  <2> QED BY ZenonT(30), <1>1, <2>1
<1>3. Applied(s, b, u) BY ZenonT(30), <1>2
<1>4. Rev!Replay(s) = u BY ZenonT(30) DEF Rev!Replay, Applied, b
<1> HIDE DEF u
<1>5. \A n \in a .. b : u[n] = IF n = a THEN Rev!prune(s.state) ELSE Rev!apply_event(u[n - 1], lines[n])
  BY ZenonT(30), <1>3 DEF Applied, Rev!Skipped
<1>6. a \in a .. b /\ \A n \in a + 1 .. b : n \in a .. b /\ n # a BY <1>1
<1> QED BY ZenonT(30), <1>4, <1>5, <1>6

\* Induction from the watermark to the end of the journal.
LEMMA Along ==
    ASSUME NEW S, NEW a \in Nat, NEW b \in Nat, a \in S,
           \A n \in a + 1 .. b : n - 1 \in S => n \in S
    PROVE  a .. b \subseteq S
<1> DEFINE T == {k \in Nat : a + k <= b => a + k \in S}
<1>1. 0 \in T OBVIOUS
<1>2. ASSUME NEW k \in Nat, k \in T PROVE k + 1 \in T
  <2>1. CASE a + (k + 1) <= b
    <3>1. a + (k + 1) \in a + 1 .. b /\ (a + (k + 1)) - 1 = a + k /\ a + k \in S BY <1>2, <2>1
    <3> QED BY <3>1
  <2> QED BY <2>1
<1>3. Nat \subseteq T
  <2> HIDE DEF T
  <2> QED BY ZenonT(30), <1>1, <1>2, Counting
<1>4. ASSUME NEW n \in a .. b PROVE n \in S
  <2>1. n - a \in Nat /\ a + (n - a) = n /\ n <= b OBVIOUS
  <2>2. n - a \in T BY ZenonT(30), <1>3, <2>1
  <2> QED BY ZenonT(30), <2>1, <2>2
<1> QED BY ZenonT(30), <1>4

\* The lines are events, and replaying them gives lists.
LEMMA ReplayLists ==
    ASSUME RevocationSane, now \in Nat, lines \in Seq(Lines), NEW s \in Snaps,
           s.mark <= Len(lines), \A i \in 1 .. Len(lines) : lines[i] \in Rev!Events
    PROVE  \A n \in s.mark .. Len(lines) : Rev!Replay(s)[n] \in Lists
<1> DEFINE S == {n \in s.mark .. Len(lines) : Rev!Replay(s)[n] \in Lists}
<1>1. s.mark \in Nat /\ s.state \in Lists /\ Len(lines) \in Nat BY DEF Snaps
<1>2. /\ Rev!Replay(s)[s.mark] = Rev!prune(s.state)
      /\ \A n \in s.mark + 1 .. Len(lines) :
             Rev!Replay(s)[n] = Rev!apply_event(Rev!Replay(s)[n - 1], lines[n])
  BY ZenonT(30), <1>1, ReplayUnfold
<1>3. s.mark \in S
  <2>1. Rev!Replay(s)[s.mark] \in Lists BY ZenonT(30), <1>1, <1>2, PruneIs
  <2> QED BY <1>1, <2>1
<1>4. ASSUME NEW n \in s.mark + 1 .. Len(lines), n - 1 \in S PROVE n \in S
  <2>1. Rev!Replay(s)[n - 1] \in Lists BY ZenonT(30), <1>4
  <2>2. n \in 1 .. Len(lines) /\ n \in s.mark .. Len(lines) BY <1>1
  <2>3. lines[n] \in Rev!Events BY ZenonT(30), <2>2
  <2>4. Rev!Replay(s)[n] \in Lists BY ZenonT(30), <1>2, <2>1, <2>3, ApplyIs
  <2> QED BY ZenonT(30), <2>2, <2>4
<1> HIDE DEF S
<1>5. s.mark .. Len(lines) \subseteq S BY ZenonT(30), <1>1, <1>3, <1>4, Along
<1> QED BY ZenonT(30), <1>5 DEF S

\* What the two files say, a load has.
LEMMA LoadedHolds ==
    ASSUME RevocationSane, now \in Nat, lines \in Seq(Lines), synced \in 0 .. Len(lines),
           NEW s \in Snaps, Rev!Loadable(s), NEW m \in Denials, Covers(s, m)
    PROVE  Held(Rev!Loaded(s), m)
<1>1. s.mark \in Nat /\ s.state \in Lists /\ Len(lines) \in Nat BY DEF Snaps
<1>2. s.mark <= Len(lines) /\ \A i \in 1 .. Len(lines) : lines[i] \in Rev!Events
  BY <1>1 DEF Rev!Loadable, Rev!Readable, Lines
<1>3. /\ Rev!Replay(s)[s.mark] = Rev!prune(s.state)
      /\ \A n \in s.mark + 1 .. Len(lines) :
             Rev!Replay(s)[n] = Rev!apply_event(Rev!Replay(s)[n - 1], lines[n])
  BY ZenonT(30), <1>1, <1>2, ReplayUnfold
<1>4. \A n \in s.mark .. Len(lines) : Rev!Replay(s)[n] \in Lists BY ZenonT(30), <1>2, ReplayLists
<1>5. PICK i \in Nat :
        /\ \/ i = s.mark /\ Held(s.state, m)
           \/ i \in s.mark + 1 .. synced /\ Gives(lines[i], m)
        /\ m[1] = "actor" => \A j \in i + 1 .. Len(lines) : lines[j].kind # "restore"
  BY ZenonT(30) DEF Covers
<1>6. i \in s.mark .. Len(lines) /\ Held(Rev!Replay(s)[i], m)
  <2>1. CASE i = s.mark /\ Held(s.state, m)
    <3>1. Held(Rev!prune(s.state), m) BY ZenonT(30), <1>1, <2>1, PruneHolds
    <3>2. s.mark \in s.mark .. Len(lines) BY <1>1, <1>2
    <3> QED BY ZenonT(30), <1>3, <2>1, <3>1, <3>2
  <2>2. CASE i \in s.mark + 1 .. synced /\ Gives(lines[i], m)
    <3>1. /\ i \in s.mark + 1 .. Len(lines) /\ i - 1 \in s.mark .. Len(lines)
          /\ i \in 1 .. Len(lines) /\ i \in s.mark .. Len(lines)
      BY <1>1, <2>2
    <3>2. Rev!Replay(s)[i - 1] \in Lists /\ lines[i] \in Rev!Events BY ZenonT(30), <1>2, <1>4, <3>1
    <3>3. Held(Rev!apply_event(Rev!Replay(s)[i - 1], lines[i]), m)
      BY ZenonT(30), <2>2, <3>2, ApplyHolds
    <3>4. Rev!Replay(s)[i] = Rev!apply_event(Rev!Replay(s)[i - 1], lines[i]) BY ZenonT(30), <1>3, <3>1
    <3> QED BY ZenonT(30), <3>1, <3>3, <3>4
  <2> QED BY ZenonT(30), <1>5, <2>1, <2>2
<1> DEFINE S == {n \in i .. Len(lines) : Held(Rev!Replay(s)[n], m)}
<1>7. i \in S BY <1>6
<1>8. ASSUME NEW n \in i + 1 .. Len(lines), n - 1 \in S PROVE n \in S
  <2>1. /\ n \in s.mark + 1 .. Len(lines) /\ n - 1 \in s.mark .. Len(lines)
        /\ n \in 1 .. Len(lines) /\ n \in i .. Len(lines)
    BY <1>1, <1>6
  <2>2. Held(Rev!Replay(s)[n - 1], m) BY ZenonT(30), <1>8
  <2>3. Rev!Replay(s)[n - 1] \in Lists /\ lines[n] \in Rev!Events BY ZenonT(30), <1>2, <1>4, <2>1
  <2>4. m[1] = "actor" => lines[n].kind # "restore" BY ZenonT(30), <1>5, <1>8
  <2>5. Held(Rev!apply_event(Rev!Replay(s)[n - 1], lines[n]), m)
    BY ZenonT(30), <2>2, <2>3, <2>4, ApplyHolds
  <2>6. Rev!Replay(s)[n] = Rev!apply_event(Rev!Replay(s)[n - 1], lines[n]) BY ZenonT(30), <1>3, <2>1
  <2>7. Held(Rev!Replay(s)[n], m) BY ZenonT(30), <2>5, <2>6
  <2> QED BY ZenonT(30), <2>1, <2>7
<1> HIDE DEF S
<1>9. i .. Len(lines) \subseteq S BY ZenonT(30), <1>1, <1>7, <1>8, Along
<1>10. Len(lines) \in i .. Len(lines) BY <1>1, <1>6
<1>11. Held(Rev!Replay(s)[Len(lines)], m) BY ZenonT(30), <1>9, <1>10 DEF S
<1>12. Len(lines) \in s.mark .. Len(lines) BY <1>1, <1>2
<1> QED BY ZenonT(30), <1>4, <1>11, <1>12, PruneHolds DEF Rev!Loaded

\* A load gives a list.
LEMMA LoadedIs ==
    ASSUME RevocationSane, now \in Nat, lines \in Seq(Lines), NEW s \in Snaps, Rev!Loadable(s)
    PROVE  Rev!Loaded(s) \in Lists
<1>1. s.mark \in Nat /\ Len(lines) \in Nat BY DEF Snaps
<1>2. s.mark <= Len(lines) /\ \A i \in 1 .. Len(lines) : lines[i] \in Rev!Events
  BY <1>1 DEF Rev!Loadable, Rev!Readable, Lines
<1>3. Len(lines) \in s.mark .. Len(lines) BY <1>1, <1>2
<1>4. Rev!Replay(s)[Len(lines)] \in Lists BY ZenonT(30), <1>2, <1>3, ReplayLists
<1> QED BY ZenonT(30), <1>4, PruneIs DEF Rev!Loaded

-----------------------------------------------------------------------------
(* What the lines say, and replays of lines that fit *)

\* Pruning changes nothing that has not expired.
LEMMA PruneStands ==
    ASSUME RevocationSane, NEW ls, NEW l \in Lists, NEW n, Standing(ls, l, n)
    PROVE  Standing(ls, Rev!prune(l), n)
BY ZenonT(30), PruneIs DEF Standing, Lists

\* A line makes of what the lines before it say what the lines up to it say.
LEMMA ApplyStands ==
    ASSUME RevocationSane, now \in Nat, NEW ls, NEW l \in Lists, NEW n \in Nat, n # 0,
           ls[n] \in Rev!Events, Standing(ls, l, n - 1)
    PROVE  Standing(ls, Rev!apply_event(l, ls[n]), n)
<1> DEFINE e == ls[n]
<1>1. /\ e.kind \in {"token", "actor", "restore"}
      /\ e.kind = "token" => e.of \in Tokens
      /\ e.kind = "actor" => e.of \in Nat
  BY ZenonT(30), EventKinds
<1>2. \A i : i \in 1 .. n <=> i \in 1 .. n - 1 \/ i = n OBVIOUS
<1>3. \A t : Mentioned(ls, n, t) <=> Mentioned(ls, n - 1, t) \/ (e.kind = "token" /\ e.of = t)
  BY ZenonT(30), <1>2 DEF Mentioned
<1>4. /\ e.kind = "token" => (Barred(ls, n) <=> Barred(ls, n - 1))
      /\ e.kind = "actor" => Barred(ls, n)
      /\ e.kind = "restore" => ~Barred(ls, n)
  <2>1. ASSUME e.kind = "token" PROVE Barred(ls, n) <=> Barred(ls, n - 1)
    <3>1. e.kind # "actor" /\ e.kind # "restore" BY ZenonT(30), <2>1
    <3> HIDE DEF e
    <3>2. ls[n] = e BY ZenonT(30) DEF e
    <3> QED BY <3>1, <3>2 DEF Barred
  <2>2. ASSUME e.kind = "actor" PROVE Barred(ls, n)
    <3>1. n \in 1 .. n /\ \A j \in n + 1 .. n : FALSE OBVIOUS
    <3> QED BY ZenonT(30), <2>2, <3>1 DEF Barred
  <2>3. ASSUME e.kind = "restore" PROVE ~Barred(ls, n)
    <3>1. ASSUME NEW i \in 1 .. n, ls[i].kind = "actor"
          PROVE  n \in i + 1 .. n
      <4>1. i # n BY ZenonT(30), <2>3, <3>1
      <4> QED BY <4>1
    <3> QED BY ZenonT(30), <2>3, <3>1 DEF Barred
  <2> QED BY ZenonT(30), <2>1, <2>2, <2>3
<1>5. /\ e.kind = "token" =>
            /\ Rev!apply_event(l, e).through = l.through
            /\ Rev!apply_event(l, e).tokens =
                  {t \in l.tokens : Expires[t] >= now}
                      \cup (IF Expires[e.of] >= now THEN {e.of} ELSE {})
      /\ e.kind = "actor" =>
            /\ Rev!apply_event(l, e).tokens = l.tokens
            /\ Rev!apply_event(l, e).through = Rev!Widened(l.through, e.of)
      /\ e.kind = "restore" =>
            Rev!apply_event(l, e).tokens = l.tokens /\ Rev!apply_event(l, e).through = Rev!None
  BY ApplyIs, PruneIs
<1>6. l.through \in Nat \cup {Rev!None} BY ZenonT(30) DEF Lists
<1> HIDE DEF e
<1>7. \A t \in Tokens : Expires[t] >= now => (t \in l.tokens <=> Mentioned(ls, n - 1, t))
  BY ZenonT(30) DEF Standing
<1>8. l.through # Rev!None <=> Barred(ls, n - 1) BY ZenonT(30) DEF Standing
<1>9. ASSUME NEW t \in Tokens, Expires[t] >= now
      PROVE  t \in Rev!apply_event(l, e).tokens <=> Mentioned(ls, n, t)
  <2>1. CASE e.kind = "token" BY ZenonT(30), <1>3, <1>5, <1>7, <1>9, <2>1
  <2>2. CASE e.kind # "token" BY ZenonT(30), <1>1, <1>3, <1>5, <1>7, <1>9, <2>2
  <2> QED BY ZenonT(30), <2>1, <2>2
<1>10. Rev!apply_event(l, e).through # Rev!None <=> Barred(ls, n)
  <2>1. CASE e.kind = "token" BY ZenonT(30), <1>4, <1>5, <1>8, <2>1
  <2>2. CASE e.kind = "actor"
    <3>1. e.of \in Nat /\ Rev!Widened(l.through, e.of) # Rev!None
      BY SMTT(30), <1>1, <1>6, <2>2 DEF Rev!Widened, Rev!None
    <3> QED BY ZenonT(30), <1>4, <1>5, <2>2, <3>1
  <2>3. CASE e.kind = "restore" BY ZenonT(30), <1>4, <1>5, <2>3
  <2> QED BY ZenonT(30), <1>1, <2>1, <2>2, <2>3
<1> QED BY ZenonT(30), <1>9, <1>10 DEF Standing, e

\* The list at a line is refused by it exactly when the line does not fit.
LEMMA FitsAccepted ==
    ASSUME RevocationSane, now \in Nat, NEW ls, NEW l \in Lists, NEW n \in Nat,
           ls[n] \in Rev!Events, Standing(ls, l, n - 1), Cardinality(Unexpired(ls, n - 1)) \in Nat
    PROVE  Fits(ls, n) <=> ~Rev!Refused(l, ls[n])
<1> DEFINE e == ls[n]
<1>1. /\ e.kind \in {"token", "actor", "restore"}
      /\ e.kind = "token" => e.of \in Tokens
  BY ZenonT(30), EventKinds
<1>2. Rev!prune(l).tokens = Unexpired(ls, n - 1)
  <2>1. Rev!prune(l).tokens = {t \in l.tokens : Expires[t] >= now} /\ l.tokens \subseteq Tokens
    BY ZenonT(30), PruneIs DEF Lists
  <2>2. \A t \in Tokens : Expires[t] >= now => (t \in l.tokens <=> Mentioned(ls, n - 1, t))
    BY ZenonT(30) DEF Standing
  <2> QED BY ZenonT(30), <2>1, <2>2 DEF Unexpired
<1>3. l.through # Rev!None <=> Barred(ls, n - 1) BY ZenonT(30) DEF Standing
<1>4. e.kind = "token" /\ Expires[e.of] >= now =>
        (e.of \in Rev!prune(l).tokens <=> Mentioned(ls, n - 1, e.of))
  BY ZenonT(30), <1>1, <1>2 DEF Unexpired
<1>5. Cardinality(Unexpired(ls, n - 1)) \in Nat /\ MaxTokens \in Nat BY ZenonT(30) DEF RevocationSane
<1>6. (Cardinality(Unexpired(ls, n - 1)) < MaxTokens) <=>
         ~(Cardinality(Rev!prune(l).tokens) >= MaxTokens)
  BY <1>2, <1>5
<1> HIDE DEF e
<1>7. Fits(ls, n) <=>
        /\ e.kind = "token" /\ Expires[e.of] >= now /\ ~Mentioned(ls, n - 1, e.of)
              => Cardinality(Unexpired(ls, n - 1)) < MaxTokens
        /\ e.kind = "restore" => Barred(ls, n - 1)
  BY ZenonT(30) DEF Fits, e
<1>8. ~Rev!Refused(l, e) <=>
        /\ e.kind = "token" /\ Expires[e.of] >= now /\ e.of \notin Rev!prune(l).tokens
              => ~(Cardinality(Rev!prune(l).tokens) >= MaxTokens)
        /\ e.kind = "restore" => l.through # Rev!None
  <2>1. \A S : Rev!Cardinality(S) = Cardinality(S)
    BY ZenonT(30), Zenon DEF Rev!Cardinality, Cardinality
  <2> QED BY ZenonT(30), <2>1 DEF Rev!Refused
<1> QED BY ZenonT(30), <1>3, <1>4, <1>6, <1>7, <1>8 DEF e

\* Finitely many lines name finitely many tokens.
LEMMA UnexpiredFinite ==
    ASSUME NEW ls, NEW n \in Nat
    PROVE  IsFiniteSet(Unexpired(ls, n)) /\ Cardinality(Unexpired(ls, n)) \in Nat
<1> DEFINE f == [i \in 1 .. n |-> ls[i].of]
           all == {f[i] : i \in 1 .. n}
<1>1. IsFiniteSet(1 .. n) BY FS_Interval
<1>2. IsFiniteSet(all)
  <2>1. f \in Surjection(1 .. n, all) BY ZenonT(30) DEF Surjection
  <2> HIDE DEF f, all
  <2> QED BY ZenonT(30), <1>1, <2>1, FS_Surjection
<1>3. Unexpired(ls, n) \subseteq all
  <2>1. ASSUME NEW t \in Unexpired(ls, n) PROVE t \in all
    <3>1. PICK i \in 1 .. n : ls[i].of = t BY ZenonT(30) DEF Unexpired, Mentioned
    <3>2. f[i] = t BY ZenonT(30), <3>1
    <3> QED BY ZenonT(30), <3>2
  <2> QED BY ZenonT(30), <2>1
<1> HIDE DEF all
<1> QED BY ZenonT(30), <1>2, <1>3, FS_Subset, FS_CardinalityType

\* A snapshot that stands for the lines it counts can be loaded from a whole
\* journal of lines that fit, and gives a list that stands for all of them.
LEMMA LoadsStanding ==
    ASSUME RevocationSane, now \in Nat, lines \in Seq(Lines), tail = "whole",
           \A i \in 1 .. Len(lines) : lines[i] \in Rev!Events /\ Fits(lines, i),
           NEW s \in Snaps, s.mark <= Len(lines), Standing(lines, s.state, s.mark)
    PROVE  Rev!Loadable(s) /\ Standing(lines, Rev!Loaded(s), Len(lines))
<1>1. s.mark \in Nat /\ s.state \in Lists /\ Len(lines) \in Nat BY DEF Snaps
<1>2. \A i \in 1 .. Len(lines) : lines[i] \in Rev!Events OBVIOUS
<1>3. /\ Rev!Replay(s)[s.mark] = Rev!prune(s.state)
      /\ \A n \in s.mark + 1 .. Len(lines) :
             Rev!Replay(s)[n] = Rev!apply_event(Rev!Replay(s)[n - 1], lines[n])
  BY ZenonT(30), <1>1, ReplayUnfold
<1>4. \A n \in s.mark .. Len(lines) : Rev!Replay(s)[n] \in Lists BY ZenonT(30), <1>2, ReplayLists
<1> DEFINE S == {n \in s.mark .. Len(lines) : Standing(lines, Rev!Replay(s)[n], n)}
<1>5. s.mark \in S
  <2>1. Standing(lines, Rev!prune(s.state), s.mark) BY ZenonT(30), <1>1, PruneStands
  <2>2. Standing(lines, Rev!Replay(s)[s.mark], s.mark) BY ZenonT(30), <1>3, <2>1
  <2> QED BY <1>1, <2>2
<1>6. ASSUME NEW n \in s.mark + 1 .. Len(lines), n - 1 \in S PROVE n \in S
  <2>1. /\ n \in s.mark .. Len(lines) /\ n - 1 \in s.mark .. Len(lines)
        /\ n \in 1 .. Len(lines) /\ n \in Nat /\ n # 0
    BY SMTT(30), <1>1
  <2>2. Standing(lines, Rev!Replay(s)[n - 1], n - 1) BY ZenonT(30), <1>6
  <2>3. Rev!Replay(s)[n - 1] \in Lists /\ lines[n] \in Rev!Events BY ZenonT(30), <1>2, <1>4, <2>1
  <2>4. Standing(lines, Rev!apply_event(Rev!Replay(s)[n - 1], lines[n]), n)
    BY ZenonT(30), <2>1, <2>2, <2>3, ApplyStands
  <2>5. Standing(lines, Rev!Replay(s)[n], n) BY ZenonT(30), <1>3, <2>4
  <2> QED BY ZenonT(30), <2>1, <2>5
<1> HIDE DEF S
<1>7. s.mark .. Len(lines) \subseteq S BY ZenonT(30), <1>1, <1>5, <1>6, Along
<1>8. \A n \in s.mark .. Len(lines) : Standing(lines, Rev!Replay(s)[n], n) BY ZenonT(30), <1>7 DEF S
<1>9. ASSUME NEW n \in s.mark + 1 .. Len(lines) PROVE ~Rev!Refused(Rev!Replay(s)[n - 1], lines[n])
  <2>1. /\ n - 1 \in s.mark .. Len(lines) /\ n \in 1 .. Len(lines)
        /\ n \in Nat /\ n - 1 \in Nat
    BY <1>1
  <2>2. Standing(lines, Rev!Replay(s)[n - 1], n - 1) /\ Rev!Replay(s)[n - 1] \in Lists
    BY ZenonT(30), <1>4, <1>8, <2>1
  <2>3. Cardinality(Unexpired(lines, n - 1)) \in Nat BY ZenonT(30), <2>1, UnexpiredFinite
  <2>4. lines[n] \in Rev!Events /\ Fits(lines, n) BY ZenonT(30), <2>1
  <2> QED BY ZenonT(30), <2>1, <2>2, <2>3, <2>4, FitsAccepted
<1>10. Rev!Readable
  <2>1. ASSUME NEW i \in DOMAIN lines PROVE lines[i] # Rev!Junk
    <3>1. lines[i] \in Rev!Events BY <1>1
    <3> QED BY ZenonT(30), <3>1, EventKinds
  <2> QED BY ZenonT(30), <2>1 DEF Rev!Readable
<1>11. Rev!Loadable(s) BY ZenonT(30), <1>9, <1>10 DEF Rev!Loadable, Rev!Skipped
<1>12. Len(lines) \in s.mark .. Len(lines) BY <1>1
<1>13. Standing(lines, Rev!Loaded(s), Len(lines))
  BY ZenonT(30), <1>4, <1>8, <1>12, PruneStands DEF Rev!Loaded
<1> QED BY ZenonT(30), <1>11, <1>13

-----------------------------------------------------------------------------
(* What a step leaves as it was *)

\* Time only takes denials away that have expired.
LEMMA HeldLater ==
    ASSUME RevocationSane, now \in Nat, now' \in Nat, now <= now',
           NEW l, NEW m \in Denials, Held(l, m)
    PROVE  Held(l, m)'
<1>1. m[2] \in Tokens /\ Expires[m[2]] \in Nat BY ZenonT(30) DEF Denials, RevocationSane
<1> QED BY <1>1 DEF Held

\* The durable lines stay, and no restore is added.
DurableKept ==
    synced <= synced' /\ \A i \in 1 .. synced : lines'[i] = lines[i]
NoNewRestore ==
    \A j \in 1 .. Len(lines') :
        lines'[j].kind = "restore" => j <= Len(lines) /\ lines[j].kind = "restore"

\* A snapshot and the journal keep a denial if no durable line is lost and no
\* restore is added.
LEMMA CoversKept ==
    ASSUME RevocationSane, RevocationTypes, RevocationTypes', now <= now', DurableKept,
           NEW s \in Snaps, NEW m \in Denials, Covers(s, m), m[1] = "actor" => NoNewRestore
    PROVE  Covers(s, m)'
<1>1. /\ now \in Nat /\ now' \in Nat /\ synced \in Nat /\ synced' \in Nat
      /\ Len(lines) \in Nat /\ Len(lines') \in Nat /\ s.mark \in Nat
  BY SMTT(30) DEF RevocationTypes, Snaps
<1>2. PICK i \in Nat :
        /\ \/ i = s.mark /\ Held(s.state, m)
           \/ i \in s.mark + 1 .. synced /\ Gives(lines[i], m)
        /\ m[1] = "actor" => \A j \in i + 1 .. Len(lines) : lines[j].kind # "restore"
  BY ZenonT(30) DEF Covers
<1>3. \/ i = s.mark /\ Held(s.state, m)'
      \/ i \in s.mark + 1 .. synced' /\ Gives(lines'[i], m)
  <2>1. CASE i = s.mark /\ Held(s.state, m)
    <3>1. Held(s.state, m)' BY ZenonT(30), <1>1, <2>1, HeldLater
    <3> QED BY ZenonT(30), <2>1, <3>1
  <2>2. CASE i \in s.mark + 1 .. synced /\ Gives(lines[i], m)
    <3>1. i \in 1 .. synced /\ i \in s.mark + 1 .. synced' BY <1>1, <2>2 DEF DurableKept
    <3>2. lines'[i] = lines[i] BY ZenonT(30), <3>1 DEF DurableKept
    <3> QED BY ZenonT(30), <2>2, <3>1, <3>2
  <2> QED BY ZenonT(30), <1>2, <2>1, <2>2
<1>4. ASSUME m[1] = "actor", NEW j \in i + 1 .. Len(lines')
      PROVE  lines'[j].kind # "restore"
  <2>1. j \in 1 .. Len(lines') BY <1>1
  <2>2. lines'[j].kind = "restore" => j <= Len(lines) /\ lines[j].kind = "restore"
    BY ZenonT(30), <1>4, <2>1 DEF NoNewRestore
  <2>3. j <= Len(lines) => j \in i + 1 .. Len(lines) BY <1>1
  <2> QED BY ZenonT(30), <1>2, <1>4, <2>2, <2>3
<1> QED BY ZenonT(30), <1>3, <1>4 DEF Covers, Gives

\* The journal is the same, or has one line more.
Extended == Len(lines) <= Len(lines') /\ \A i \in 1 .. Len(lines) : lines'[i] = lines[i]

\* As the journal grows and time passes, a list goes on to say what its lines say,
\* and every line goes on to fit: what expires is forgotten on both sides.
LEMMA StandsLater ==
    ASSUME RevocationSane, RevocationTypes, RevocationTypes', now <= now', Extended
    PROVE  /\ \A n \in 0 .. Len(lines) : \A l : Standing(lines, l, n) => Standing(lines, l, n)'
           /\ \A n \in 1 .. Len(lines) : Fits(lines, n) => Fits(lines, n)'
<1>1. /\ now \in Nat /\ now' \in Nat /\ Len(lines) \in Nat
      /\ Expires \in [Tokens -> Nat] /\ MaxTokens \in Nat
  BY DEF RevocationTypes, RevocationSane
<1>2. ASSUME NEW n \in 0 .. Len(lines)
      PROVE  /\ \A t : Mentioned(lines, n, t)' <=> Mentioned(lines, n, t)
             /\ Barred(lines, n)' <=> Barred(lines, n)
  <2>1. \A i \in 1 .. n : lines'[i] = lines[i] BY <1>1 DEF Extended
  <2>2. \A i \in 1 .. n : \A j \in i + 1 .. n : j \in 1 .. n BY <1>1
  <2>3. \A t : Mentioned(lines, n, t)' <=> Mentioned(lines, n, t) BY ZenonT(30), <2>1 DEF Mentioned
  <2>4. Barred(lines, n)' <=> Barred(lines, n) BY ZenonT(30), <2>1, <2>2 DEF Barred
  <2> QED BY ZenonT(30), <2>3, <2>4
<1>3. \A t \in Tokens : Expires[t] >= now' => Expires[t] >= now BY <1>1
<1>4. ASSUME NEW n \in 0 .. Len(lines), NEW l, Standing(lines, l, n)
      PROVE  Standing(lines, l, n)'
  <2>1. /\ \A t : Mentioned(lines, n, t)' <=> Mentioned(lines, n, t)
        /\ Barred(lines, n)' <=> Barred(lines, n)
    BY ZenonT(30), <1>2
  <2> QED BY ZenonT(30), <1>3, <1>4, <2>1 DEF Standing
<1>5. ASSUME NEW n \in 1 .. Len(lines), Fits(lines, n) PROVE Fits(lines, n)'
  <2>1. n - 1 \in 0 .. Len(lines) /\ n - 1 \in Nat BY <1>1
  <2>2. /\ \A t : Mentioned(lines, n - 1, t)' <=> Mentioned(lines, n - 1, t)
        /\ Barred(lines, n - 1)' <=> Barred(lines, n - 1)
    BY ZenonT(30), <1>2, <2>1
  <2>3. lines'[n] = lines[n] BY ZenonT(30) DEF Extended
  <2>4. lines[n].kind = "token" => lines[n].of \in Tokens
    <3>1. lines[n] \in Lines BY SMTT(30), <1>1 DEF RevocationTypes
    <3> QED BY SMTT(30), <3>1, EventKinds DEF Lines, Rev!Junk
  <2>5. (Unexpired(lines, n - 1))' \subseteq Unexpired(lines, n - 1)
    BY ZenonT(30), <1>3, <2>2 DEF Unexpired
  <2>6. /\ IsFiniteSet(Unexpired(lines, n - 1)) /\ Cardinality(Unexpired(lines, n - 1)) \in Nat
    BY ZenonT(30), <2>1, UnexpiredFinite
  <2> DEFINE big == Unexpired(lines, n - 1)
             less == (Unexpired(lines, n - 1))'
  <2>7. Cardinality(less) <= Cardinality(big) /\ Cardinality(less) \in Nat
    <3>1. less \subseteq big /\ IsFiniteSet(big) /\ Cardinality(big) \in Nat BY ZenonT(30), <2>5, <2>6
    <3> HIDE DEF less, big
    <3>2. Cardinality(less) <= Cardinality(big) /\ IsFiniteSet(less) BY ZenonT(30), <3>1, FS_Subset
    <3> QED BY ZenonT(30), <3>2, FS_CardinalityType
  <2>8. Cardinality(big) < MaxTokens => Cardinality(less) < MaxTokens
    <3>1. Cardinality(big) \in Nat BY ZenonT(30), <2>6
    <3> HIDE DEF less, big
    <3> QED BY SMTT(30), <1>1, <2>7, <3>1
  <2> QED BY ZenonT(30), <1>3, <1>5, <2>2, <2>3, <2>4, <2>8 DEF Fits
<1> QED BY ZenonT(30), <1>4, <1>5

\* The journal with one line more.
LEMMA Longer ==
    ASSUME RevocationTypes, NEW e \in Lines, lines' = Append(lines, e), synced' \in {synced, Len(lines')}
    PROVE  /\ lines' \in Seq(Lines) /\ Len(lines') = Len(lines) + 1 /\ synced' \in 0 .. Len(lines')
           /\ lines'[Len(lines')] = e /\ Extended /\ DurableKept
           /\ e.kind # "restore" => NoNewRestore
<1>1. /\ lines \in Seq(Lines) /\ Len(lines) \in Nat /\ synced \in 0 .. Len(lines)
  BY DEF RevocationTypes
<1>2. /\ lines' \in Seq(Lines) /\ Len(lines') = Len(lines) + 1 /\ lines'[Len(lines) + 1] = e
      /\ \A i \in 1 .. Len(lines) : lines'[i] = lines[i]
  BY <1>1
<1>3. synced' \in 0 .. Len(lines') /\ synced <= synced' BY SMTT(30), <1>1, <1>2
<1>4. DurableKept BY SMTT(30), <1>1, <1>2, <1>3 DEF DurableKept
<1>5. Extended BY <1>1, <1>2 DEF Extended
<1>6. ASSUME e.kind # "restore" PROVE NoNewRestore
  <2>1. ASSUME NEW j \in 1 .. Len(lines'), lines'[j].kind = "restore"
        PROVE  j <= Len(lines) /\ lines[j].kind = "restore"
    <3>1. j # Len(lines) + 1 BY ZenonT(30), <1>2, <1>6, <2>1
    <3>2. j \in 1 .. Len(lines) /\ j <= Len(lines) BY <1>1, <1>2, <3>1
    <3> QED BY ZenonT(30), <1>2, <2>1, <3>2
  <2> QED BY ZenonT(30), <2>1 DEF NoNewRestore
<1>7. lines'[Len(lines')] = e BY ZenonT(30), <1>2
<1> QED BY ZenonT(30), <1>2, <1>3, <1>4, <1>5, <1>6, <1>7

\* The journal as it was.
LEMMA SameJournal ==
    ASSUME RevocationTypes, UNCHANGED <<lines, synced>>
    PROVE  Extended /\ DurableKept /\ NoNewRestore
<1>1. Len(lines) \in Nat /\ synced \in 0 .. Len(lines) BY DEF RevocationTypes
<1> QED BY <1>1 DEF Extended, DurableKept, NoNewRestore

-----------------------------------------------------------------------------
(* The steps: types *)

\* What a step of the history of denials leaves is a part of it.
LEMMA AskedIs ==
    ASSUME NEW e, NEW M
    PROVE  /\ Rev!Kept(e, M) \subseteq M
           /\ e.kind = "restore" => \A m \in Rev!Kept(e, M) : m[1] = "token"
BY ZenonT(30) DEF Rev!Kept

\* What a save leaves in the place of the snapshot.
LEMMA SaveTypes ==
    ASSUME RevocationTypes, NEW s \in Snaps, Rev!Save(s)
    PROVE  /\ disk' \subseteq Snaps /\ snap' \in disk' /\ faults' \in Nat
           /\ disk' \subseteq disk \cup {s}
           /\ faults' = faults => disk' = {s}
BY DEF RevocationTypes, Rev!Save, Rev!snapshots, Rev!Fault, Rev!NoFault

\* Every step keeps the types.
LEMMA TypesStep ==
    ASSUME RevocationSane, RevocationTypes, [Rev!Next]_(Rev!vars)
    PROVE  RevocationTypes'
<1>0. /\ Rev!Junk \in Lines /\ Rev!Events \subseteq Lines
      /\ Rev!Clean \in [left : {"none", "line", "rest"}, line : Lines]
  BY ZenonT(30) DEF Lines, Rev!Clean
<1>1. ASSUME NEW e \in Rev!Events, Rev!Mutate(e) PROVE RevocationTypes'
  <2>1. list' \in Lists
    <3>1. list' = Rev!apply_event(list, e) /\ list \in Lists /\ now \in Nat
      BY ZenonT(30), <1>1 DEF Rev!Mutate, RevocationTypes
    <3> QED BY ZenonT(30), <3>1, ApplyIs
  <2>2. must' \subseteq Denials /\ due' \subseteq Denials /\ owed' \subseteq Denials
    BY ZenonT(30), <1>1, AskedIs, DeniedGiven DEF Rev!Mutate, Rev!Acknowledge, RevocationTypes
  <2>3. lines' \in Seq(Lines) /\ synced' \in 0 .. Len(lines')
    <3>1. e \in Lines /\ lines' = Append(lines, e) /\ synced' = Len(lines')
      BY ZenonT(30), <1>0, <1>1 DEF Rev!Mutate
    <3> QED BY ZenonT(30), <3>1, Longer
  <2> QED BY SMTT(30), <1>1, <2>1, <2>2, <2>3 DEF Rev!Mutate, Rev!NoFault, Rev!snapshots, RevocationTypes
<1>2. ASSUME NEW e \in Rev!Events, Rev!MutateFails(e) PROVE RevocationTypes'
  <2>1. must' \subseteq Denials /\ due' \subseteq Denials /\ owed' \subseteq Denials
    BY ZenonT(30), <1>2, AskedIs DEF Rev!MutateFails, Rev!Asked, RevocationTypes
  <2>2. /\ lines' \in Seq(Lines) /\ tail' \in {"whole", "torn"} /\ synced' \in 0 .. Len(lines')
        /\ buffer' \in [left : {"none", "line", "rest"}, line : Lines]
    <3>1. CASE UNCHANGED Rev!journal /\ \E left \in {"line", "rest", "none"} :
                                        buffer' = [left |-> left, line |-> e]
      BY SMTT(30), <1>0, <3>1 DEF Rev!journal, RevocationTypes
    <3>2. CASE tail' = "torn" /\ buffer' = [left |-> "rest", line |-> e] /\ UNCHANGED <<lines, synced>>
      BY ZenonT(30), <1>0, <3>2 DEF RevocationTypes
    <3>3. CASE lines' = Append(lines, e) /\ UNCHANGED <<tail, synced, buffer>>
      <4>1. e \in Lines /\ synced' = synced BY ZenonT(30), <1>0, <3>3
      <4>2. lines' \in Seq(Lines) /\ synced' \in 0 .. Len(lines') BY ZenonT(30), <3>3, <4>1, Longer
      <4> QED BY ZenonT(30), <3>3, <4>2 DEF RevocationTypes
    <3> QED BY ZenonT(30), <1>2, <3>1, <3>2, <3>3 DEF Rev!MutateFails
  <2> QED BY SMTT(30), <1>2, <2>1, <2>2 DEF Rev!MutateFails, Rev!Fault, Rev!snapshots, RevocationTypes
<1>3. ASSUME Rev!Checkpoint PROVE RevocationTypes'
  <2>1. Rev!Snapshot(list, next) \in Snaps BY ZenonT(30) DEF Rev!Snapshot, Snaps, RevocationTypes
  <2>2. disk' \subseteq Snaps /\ snap' \in disk' /\ faults' \in Nat
    BY ZenonT(30), <1>3, <2>1, SaveTypes DEF Rev!Checkpoint
  <2> QED
    BY ZenonT(30), <1>3, <2>2 DEF Rev!Checkpoint, Rev!leader, Rev!journal, Rev!reader, RevocationTypes
<1>4. ASSUME Rev!Boot PROVE RevocationTypes'
  <2>1. Rev!Loaded(snap) \in Lists
    <3>1. now \in Nat /\ lines \in Seq(Lines) /\ snap \in Snaps BY ZenonT(30) DEF RevocationTypes
    <3> QED BY ZenonT(30), <1>4, <3>1, LoadedIs DEF Rev!Boot
  <2>2. Len(lines) \in Nat BY SMTT(30) DEF RevocationTypes
  <2>3. Rev!Snapshot(Rev!Loaded(snap), Len(lines)) \in Snaps
    BY ZenonT(30), <2>1, <2>2 DEF Rev!Snapshot, Snaps
  <2>4. disk' \subseteq Snaps /\ snap' \in disk' /\ faults' \in Nat
    BY ZenonT(30), <1>4, <2>3, SaveTypes DEF Rev!Boot
  <2>5. list' = Rev!Loaded(snap) /\ next' = Len(lines) /\ poison' = FALSE /\ buffer' = Rev!Clean
        /\ proc' \in {"up", "down"} /\ UNCHANGED <<Rev!journal, Rev!reader, now, must, strained>>
    BY ZenonT(30), <1>4 DEF Rev!Boot
  <2> QED BY ZenonT(30), <1>0, <2>1, <2>2, <2>4, <2>5 DEF Rev!journal, Rev!reader, RevocationTypes
<1>5. ASSUME Rev!Exit PROVE RevocationTypes'
  <2>1. /\ lines' \in Seq(Lines) /\ tail' \in {"whole", "torn"} /\ synced' \in 0 .. Len(lines')
    <3>0. /\ buffer.left \in {"none", "line", "rest"} /\ buffer.line \in Lines
          /\ tail \in {"whole", "torn"} /\ lines \in Seq(Lines) /\ synced \in 0 .. Len(lines)
      BY ZenonT(30) DEF RevocationTypes
    <3>1. \/ UNCHANGED Rev!journal
          \/ /\ \E x \in Lines : lines' = Append(lines, x)
             /\ synced' = synced /\ tail' \in {tail, "whole"}
      BY ZenonT(30), <1>0, <1>5, <3>0 DEF Rev!Exit, Rev!journal
    <3>2. CASE UNCHANGED Rev!journal BY ZenonT(30), <3>0, <3>2 DEF Rev!journal
    <3>3. ASSUME NEW x \in Lines, lines' = Append(lines, x), synced' = synced, tail' \in {tail, "whole"}
          PROVE  lines' \in Seq(Lines) /\ tail' \in {"whole", "torn"} /\ synced' \in 0 .. Len(lines')
      <4>1. lines' \in Seq(Lines) /\ synced' \in 0 .. Len(lines') BY ZenonT(30), <3>3, Longer
      <4> QED BY ZenonT(30), <3>0, <3>3, <4>1
    <3> QED BY ZenonT(30), <3>1, <3>2, <3>3
  <2> QED BY ZenonT(30), <1>0, <1>5, <2>1 DEF Rev!Exit, Rev!snapshots, Rev!reader, RevocationTypes
<1>6. ASSUME Rev!Die PROVE RevocationTypes'
  <2>1. CASE UNCHANGED <<Rev!journal, strained, must, due, owed>>
    BY ZenonT(30), <1>0, <1>6, <2>1 DEF Rev!Die, Rev!journal, Rev!snapshots, RevocationTypes
  <2>2. ASSUME NEW e \in Rev!Events, strained' = TRUE, Rev!Asked(e),
               \/ tail' = "torn" /\ UNCHANGED lines
               \/ lines' = Append(lines, e) /\ UNCHANGED tail,
               UNCHANGED synced
        PROVE  RevocationTypes'
    <3>1. must' \subseteq Denials /\ due' \subseteq Denials /\ owed' \subseteq Denials
      BY ZenonT(30), <2>2, AskedIs DEF Rev!Asked, RevocationTypes
    <3>2. lines' \in Seq(Lines) /\ tail' \in {"whole", "torn"} /\ synced' \in 0 .. Len(lines')
      <4>1. CASE tail' = "torn" /\ UNCHANGED lines BY ZenonT(30), <2>2, <4>1 DEF RevocationTypes
      <4>2. CASE lines' = Append(lines, e) /\ UNCHANGED tail
        <5>1. e \in Lines /\ synced' = synced BY ZenonT(30), <1>0, <2>2
        <5>2. lines' \in Seq(Lines) /\ synced' \in 0 .. Len(lines') BY ZenonT(30), <4>2, <5>1, Longer
        <5> QED BY ZenonT(30), <4>2, <5>2 DEF RevocationTypes
      <4> QED BY ZenonT(30), <2>2, <4>1, <4>2
    <3> QED BY SMTT(30), <1>0, <1>6, <2>2, <3>1, <3>2 DEF Rev!Die, Rev!snapshots, RevocationTypes
  <2> QED BY ZenonT(30), <1>6, <2>1, <2>2 DEF Rev!Die
<1>7. ASSUME Rev!PowerLoss PROVE RevocationTypes'
  <2>1. PICK n \in synced .. Len(lines) :
          /\ lines' = SubSeq(lines, 1, n) /\ synced' = n
          /\ tail' \in IF n < Len(lines) \/ tail = "torn" THEN {"whole", "torn"} ELSE {"whole"}
          /\ strained' = (strained \/ n < Len(lines))
    BY ZenonT(30), <1>7 DEF Rev!PowerLoss
  <2>2. lines' \in Seq(Lines) /\ Len(lines') = n /\ n \in Nat /\ synced' \in 0 .. Len(lines')
    BY SMTT(30), <2>1 DEF RevocationTypes
  <2>3. snap' \in disk' /\ disk' \subseteq Snaps /\ tail' \in {"whole", "torn"}
    BY ZenonT(30), <1>7, <2>1 DEF Rev!PowerLoss, RevocationTypes
  <2>4. strained' \in BOOLEAN BY ZenonT(30), <2>1
  <2> QED BY ZenonT(30), <1>0, <1>7, <2>2, <2>3, <2>4 DEF Rev!PowerLoss, Rev!reader, RevocationTypes
<1>8. ASSUME Rev!ReadSnapshot PROVE RevocationTypes'
  BY ZenonT(30), <1>8 DEF Rev!ReadSnapshot, Rev!leader, Rev!journal, Rev!snapshots, Rev!NoFault,
     RevocationTypes
<1>9. ASSUME Rev!Refresh PROVE RevocationTypes'
  <2>1. replica' \in Lists /\ owed' \subseteq Denials
    <3>1. CASE Rev!Loadable(read)
      <4>1. now \in Nat /\ lines \in Seq(Lines) /\ read \in Snaps
        BY ZenonT(30), <1>9 DEF Rev!Refresh, RevocationTypes
      <4>2. Rev!Loaded(read) \in Lists BY ZenonT(30), <3>1, <4>1, LoadedIs
      <4>3. replica' = Rev!Loaded(read) /\ owed' = due BY ZenonT(30), <1>9, <3>1 DEF Rev!Refresh
      <4> QED BY ZenonT(30), <4>2, <4>3 DEF RevocationTypes
    <3>2. CASE ~Rev!Loadable(read)
      <4>1. UNCHANGED <<replica, owed>> BY ZenonT(30), <1>9, <3>2 DEF Rev!Refresh
      <4> QED BY ZenonT(30), <4>1 DEF RevocationTypes
    <3> QED BY ZenonT(30), <3>1, <3>2
  <2>2. /\ read' = Rev!NotReading /\ Rev!NoFault
        /\ UNCHANGED <<Rev!leader, Rev!journal, Rev!snapshots, due, now, must, strained>>
    BY ZenonT(30), <1>9 DEF Rev!Refresh
  <2> QED
    BY ZenonT(30), <2>1, <2>2
       DEF Rev!leader, Rev!journal, Rev!snapshots, Rev!NoFault, RevocationTypes
<1>10. ASSUME Rev!Tick PROVE RevocationTypes'
  BY SMTT(30), <1>10 DEF Rev!Tick, Rev!leader, Rev!journal, Rev!snapshots, Rev!reader, Rev!NoFault,
     RevocationTypes
<1>11. CASE UNCHANGED Rev!vars
  BY ZenonT(30), <1>11 DEF Rev!vars, Rev!leader, Rev!journal, Rev!snapshots, Rev!reader, RevocationTypes
<1> QED
  BY ZenonT(30), <1>1, <1>2, <1>3, <1>4, <1>5, <1>6, <1>7, <1>8, <1>9, <1>10, <1>11 DEF Rev!Next

-----------------------------------------------------------------------------
(* The steps: denials *)

\* What holds after every step that keeps the durable lines, owes nothing new and
\* leaves only snapshots that have what is owed.
LEMMA DenialsKept ==
    ASSUME RevocationSane, RevocationTypes, RevocationTypes', DenialInv, now <= now', DurableKept,
           must' \subseteq must, due' \subseteq due, owed' \subseteq owed,
           UNCHANGED <<read, replica>>,
           Barring(must' \cup due') => NoNewRestore,
           \A s \in disk' : s \in disk \/ \A m \in must : Covers(s, m)
    PROVE  /\ Covered' /\ ReadCovered' /\ ReplicaHolds'
           /\ \A l : (\A m \in must : Held(l, m)) => \A m \in must' : Held(l, m)'
<1>1. /\ must \subseteq Denials /\ due \subseteq Denials /\ owed \subseteq Denials
      /\ disk \subseteq Snaps /\ disk' \subseteq Snaps /\ now \in Nat /\ now' \in Nat
      /\ read # Rev!NotReading => read \in Snaps
  BY ZenonT(30) DEF RevocationTypes
<1>2. \A m \in must' \cup due' : m[1] = "actor" => NoNewRestore BY ZenonT(30) DEF Barring
<1>3. ASSUME NEW m \in must', NEW s \in disk' PROVE Covers(s, m)'
  <2>1. m \in must /\ m \in Denials /\ s \in Snaps BY ZenonT(30), <1>1
  <2>2. Covers(s, m) BY ZenonT(30), <2>1 DEF DenialInv, Covered
  <2>3. m[1] = "actor" => NoNewRestore BY ZenonT(30), <1>2
  <2> QED BY ZenonT(30), <2>1, <2>2, <2>3, CoversKept
<1>4. ASSUME NEW m \in due', read # Rev!NotReading PROVE Covers(read, m)'
  <2>1. m \in due /\ m \in Denials /\ read \in Snaps BY ZenonT(30), <1>1, <1>4
  <2>2. Covers(read, m) BY ZenonT(30), <1>4, <2>1 DEF DenialInv, ReadCovered
  <2>3. m[1] = "actor" => NoNewRestore BY ZenonT(30), <1>2
  <2>4. \A s \in Snaps : Covers(s, m) => Covers(s, m)' BY ZenonT(30), <2>1, <2>3, CoversKept
  <2>5. \A s : s = read => s \in Snaps /\ Covers(s, m) BY ZenonT(30), <2>1, <2>2
  <2>6. \A s : s = read => Covers(s, m)' BY ZenonT(30), <2>4, <2>5
  <2>7. \A s : s = read' => Covers(s, m)' BY ZenonT(30), <2>6
  <2> QED BY ZenonT(30), <2>7 DEF Covers
<1>5. ASSUME NEW m \in owed' PROVE Held(replica, m)'
  <2>1. m \in owed /\ m \in Denials BY ZenonT(30), <1>1
  <2>2. Held(replica, m) BY ZenonT(30), <2>1 DEF DenialInv, ReplicaHolds
  <2>3. \A l : Held(l, m) => Held(l, m)' BY ZenonT(30), <1>1, <2>1, HeldLater
  <2>4. \A l : l = replica => Held(l, m)' BY ZenonT(30), <2>2, <2>3
  <2>5. \A l : l = replica' => Held(l, m)' BY ZenonT(30), <2>4
  <2> QED BY ZenonT(30), <2>5 DEF Held
<1>6. ASSUME NEW l, \A m \in must : Held(l, m), NEW m \in must' PROVE Held(l, m)'
  <2>1. m \in Denials /\ Held(l, m) BY ZenonT(30), <1>1, <1>6
  <2> QED BY ZenonT(30), <1>1, <2>1, HeldLater
<1>7. read' = read BY ZenonT(30)
<1>8. Covered' BY ZenonT(30), <1>3 DEF Covered
<1>9. ReadCovered' BY ZenonT(30), <1>4, <1>7 DEF ReadCovered
<1>10. ReplicaHolds' BY ZenonT(30), <1>5 DEF ReplicaHolds
<1> QED BY ZenonT(30), <1>6, <1>8, <1>9, <1>10

\* A leader that ends owes no less and has no list.
LEMMA DownKept ==
    ASSUME RevocationSane, RevocationTypes, RevocationTypes', DenialInv, now' = now, DurableKept,
           must' \subseteq must, due' \subseteq due, owed' \subseteq owed,
           UNCHANGED <<read, replica>>,
           Barring(must' \cup due') => NoNewRestore, disk' \subseteq disk, proc' = "down"
    PROVE  DenialInv'
<1>1. now <= now' /\ \A s \in disk' : s \in disk BY DEF RevocationTypes
<1>2. Covered' /\ ReadCovered' /\ ReplicaHolds' BY ZenonT(30), <1>1, DenialsKept
<1>3. ~(proc' = "up") OBVIOUS
<1>4. LeaderHolds' /\ LeaderCounts' /\ RestoresAsked'
  BY ZenonT(30), <1>3 DEF LeaderHolds, LeaderCounts, RestoresAsked
<1> QED BY ZenonT(30), <1>2, <1>4 DEF DenialInv

\* A mutation: the line is durable before anybody is told.
LEMMA MutateDenies ==
    ASSUME RevocationSane, RevocationInv, RevocationTypes', NEW e \in Rev!Events, Rev!Mutate(e)
    PROVE  DenialInv'
<1>1. RevocationTypes /\ DenialInv BY ZenonT(30) DEF RevocationInv
<1>2. /\ proc = "up" /\ ~poison /\ lines' = Append(lines, e) /\ synced' = Len(lines')
      /\ next' = next + 1 /\ list' = Rev!apply_event(list, e) /\ Rev!Acknowledge(e)
      /\ UNCHANGED <<proc, poison, buffer, tail, replica, read, now>> /\ UNCHANGED disk
  BY ZenonT(30) DEF Rev!Mutate, Rev!Attempt, Rev!snapshots
<1>3. e \in Lines BY ZenonT(30) DEF Lines
<1>4. /\ Len(lines') = Len(lines) + 1 /\ lines'[Len(lines')] = e /\ DurableKept
      /\ e.kind # "restore" => NoNewRestore
  BY ZenonT(30), <1>1, <1>2, <1>3, Longer
<1>5. /\ Len(lines) \in Nat /\ next = Len(lines) /\ buffer.left = "none"
      /\ \A s \in disk : s.mark <= next
  BY ZenonT(30), <1>1, <1>2 DEF RevocationTypes, DenialInv, LeaderCounts
<1>6. /\ must \subseteq Denials /\ due \subseteq Denials /\ owed \subseteq Denials
      /\ disk \subseteq Snaps /\ now \in Nat /\ now' \in Nat /\ now <= now' /\ list \in Lists
      /\ read # Rev!NotReading => read \in Snaps
  BY SMTT(30), <1>1, <1>2 DEF RevocationTypes
<1>7. /\ must' = Rev!Kept(e, must) \cup Rev!Denied(e)
      /\ due' = Rev!Kept(e, due) /\ owed' = Rev!Kept(e, owed)
  BY ZenonT(30), <1>2 DEF Rev!Acknowledge
<1>8. \A M : Rev!Kept(e, M) \subseteq M /\ \A m \in Rev!Kept(e, M) : m[1] = "actor" => NoNewRestore
  <2>1. \A M : Rev!Kept(e, M) \subseteq M BY ZenonT(30), AskedIs
  <2>2. CASE e.kind = "restore"
    <3>1. \A M : \A m \in Rev!Kept(e, M) : m[1] = "token" BY ZenonT(30), <2>2, AskedIs
    <3>2. \A M : \A m \in Rev!Kept(e, M) : m[1] # "actor" BY ZenonT(30), <3>1
    <3> QED BY ZenonT(30), <2>1, <3>2
  <2>3. CASE e.kind # "restore" BY ZenonT(30), <1>4, <2>1, <2>3
  <2> QED BY ZenonT(30), <2>2, <2>3
<1>9. Covered'
  <2>1. ASSUME NEW m \in Rev!Kept(e, must), NEW s \in disk PROVE Covers(s, m)'
    <3>1. m \in must /\ m \in Denials /\ s \in Snaps BY ZenonT(30), <1>6, <1>8
    <3>2. Covers(s, m) BY ZenonT(30), <1>1, <3>1 DEF DenialInv, Covered
    <3>3. m[1] = "actor" => NoNewRestore BY ZenonT(30), <1>8
    <3> QED BY ZenonT(30), <1>1, <1>4, <1>6, <3>1, <3>2, <3>3, CoversKept
  <2>2. ASSUME NEW m \in Rev!Denied(e), NEW s \in disk PROVE Covers(s, m)'
    <3> DEFINE i == Len(lines')
    <3>1. Gives(lines'[i], m) BY ZenonT(30), <1>4, DeniedGiven
    <3>2. s.mark \in Nat /\ s.mark <= Len(lines) BY ZenonT(30), <1>5, <1>6 DEF Snaps
    <3>3. i \in Nat /\ i \in s.mark + 1 .. synced' /\ \A j \in i + 1 .. Len(lines') : FALSE
      BY SMTT(30), <1>2, <1>4, <1>5, <3>2
    <3> HIDE DEF i
    <3> QED BY ZenonT(30), <3>1, <3>3 DEF Covers, Gives
  <2> QED BY ZenonT(30), <1>2, <1>7, <2>1, <2>2 DEF Covered
<1>10. ReadCovered'
  <2>1. ASSUME NEW m \in due', read # Rev!NotReading PROVE Covers(read, m)'
    <3>1. m \in due /\ m \in Denials /\ read \in Snaps BY ZenonT(30), <1>6, <1>7, <1>8, <2>1
    <3>2. Covers(read, m) BY ZenonT(30), <1>1, <2>1, <3>1 DEF DenialInv, ReadCovered
    <3>3. m[1] = "actor" => NoNewRestore BY ZenonT(30), <1>7, <1>8, <2>1
    <3>4. \A s \in Snaps : Covers(s, m) => Covers(s, m)'
      BY ZenonT(30), <1>1, <1>4, <1>6, <3>1, <3>3, CoversKept
    <3>5. \A s : s = read => Covers(s, m)' BY ZenonT(30), <3>1, <3>2, <3>4
    <3>6. read' = read BY ZenonT(30), <1>2
    <3>7. \A s : s = read' => Covers(s, m)' BY ZenonT(30), <3>5, <3>6
    <3> QED BY ZenonT(30), <3>7 DEF Covers
  <2>2. read' = read BY ZenonT(30), <1>2
  <2> QED BY ZenonT(30), <2>1, <2>2 DEF ReadCovered
<1>11. ReplicaHolds'
  <2>1. ASSUME NEW m \in owed' PROVE Held(replica, m)'
    <3>1. m \in owed BY ZenonT(30), <1>7, <1>8
    <3>2. Held(replica, m) BY ZenonT(30), <1>1, <3>1 DEF DenialInv, ReplicaHolds
    <3>3. replica' = replica /\ now' = now BY ZenonT(30), <1>2
    <3> QED BY ZenonT(30), <3>2, <3>3 DEF Held
  <2> QED BY ZenonT(30), <2>1 DEF ReplicaHolds
<1>12. LeaderHolds'
  <2>1. ASSUME NEW m \in must' PROVE Held(Rev!apply_event(list, e), m)
    <3>1. CASE m \in Rev!Kept(e, must)
      <4>1. m \in must /\ m \in Denials BY ZenonT(30), <1>6, <1>8, <3>1
      <4>2. Held(list, m) BY ZenonT(30), <1>1, <1>2, <4>1 DEF DenialInv, LeaderHolds
      <4>3. m[1] = "actor" => e.kind # "restore"
        <5>1. CASE e.kind = "restore"
          <6>1. m[1] = "token" BY ZenonT(30), <3>1, <5>1, AskedIs
          <6> QED BY ZenonT(30), <6>1
        <5> QED BY ZenonT(30), <5>1
      <4> QED BY ZenonT(30), <1>6, <4>1, <4>2, <4>3, ApplyHolds
    <3>2. CASE m \in Rev!Denied(e)
      <4>1. m \in Denials /\ Gives(e, m) BY ZenonT(30), <3>2, DeniedGiven
      <4> QED BY ZenonT(30), <1>6, <4>1, ApplyHolds
    <3> QED BY ZenonT(30), <1>7, <2>1, <3>1, <3>2
  <2>2. list' = Rev!apply_event(list, e) /\ now' = now BY ZenonT(30), <1>2
  <2>3. ASSUME NEW m \in must' PROVE Held(list, m)'
    <3>1. Held(Rev!apply_event(list, e), m) BY ZenonT(30), <2>1
    <3>2. \A l : l = Rev!apply_event(list, e) => Held(l, m) BY ZenonT(30), <3>1
    <3>3. Held(list', m) BY ZenonT(30), <2>2, <3>2
    <3> QED BY ZenonT(30), <2>2, <3>3 DEF Held
  <2> QED BY ZenonT(30), <2>3 DEF LeaderHolds
<1>13. next' = Len(lines') /\ buffer'.left = "none" /\ \A s \in disk' : s.mark <= next'
  <2>1. \A s \in disk : s.mark \in Nat BY ZenonT(30), <1>6 DEF Snaps
  <2> QED BY SMTT(30), <1>2, <1>4, <1>5, <2>1
<1>14. LeaderCounts'
  <2>1. next' <= Len(lines') BY SMTT(30), <1>4, <1>5, <1>13
  <2> QED BY ZenonT(30), <1>13, <2>1 DEF LeaderCounts
<1>15. RestoresAsked'
  <2>1. \A j \in next' + 1 .. Len(lines') : FALSE BY <1>4, <1>5, <1>13
  <2> QED BY ZenonT(30), <1>13, <2>1 DEF RestoresAsked
<1> QED BY ZenonT(30), <1>9, <1>10, <1>11, <1>12, <1>14, <1>15 DEF DenialInv

\* A restore that is asked for ends what it could undo.
LEMMA AskedEnds ==
    ASSUME NEW e, Rev!Asked(e)
    PROVE  /\ must' \subseteq must /\ due' \subseteq due /\ owed' \subseteq owed
           /\ Barring(must' \cup due') => e.kind # "restore"
<1>1. must' = Rev!Kept(e, must) /\ due' = Rev!Kept(e, due) /\ owed' = Rev!Kept(e, owed)
  BY ZenonT(30) DEF Rev!Asked
<1>2. must' \subseteq must /\ due' \subseteq due /\ owed' \subseteq owed
  BY ZenonT(30), <1>1, AskedIs
<1>3. ASSUME e.kind = "restore" PROVE ~Barring(must' \cup due')
  <2>1. \A m \in must' \cup due' : m[1] = "token" BY ZenonT(30), <1>1, <1>3, AskedIs
  <2>2. \A m \in must' \cup due' : m[1] # "actor" BY ZenonT(30), <2>1
  <2> QED BY ZenonT(30), <2>2 DEF Barring
<1> QED BY ZenonT(30), <1>2, <1>3

\* An append that failed.
LEMMA FailDenies ==
    ASSUME RevocationSane, RevocationInv, RevocationTypes', NEW e \in Rev!Events, Rev!MutateFails(e)
    PROVE  DenialInv'
<1>1. RevocationTypes /\ DenialInv BY ZenonT(30) DEF RevocationInv
<1>2. /\ proc = "up" /\ ~poison /\ poison' = TRUE /\ Rev!Asked(e)
      /\ UNCHANGED <<proc, list, next, replica, read, now>> /\ UNCHANGED disk
  BY ZenonT(30) DEF Rev!MutateFails, Rev!Attempt, Rev!snapshots
<1>3. \/ UNCHANGED <<lines, synced>> /\ buffer'.line = e
      \/ lines' = Append(lines, e) /\ UNCHANGED <<synced, buffer>>
  BY DEF Rev!MutateFails, Rev!journal
<1>4. /\ must' \subseteq must /\ due' \subseteq due /\ owed' \subseteq owed
      /\ Barring(must' \cup due') => e.kind # "restore"
  BY ZenonT(30), <1>2, AskedEnds
<1>5. e \in Lines BY ZenonT(30) DEF Lines
<1>6. /\ Len(lines) \in Nat /\ next = Len(lines) /\ buffer.left = "none"
      /\ \A s \in disk : s.mark <= next
  BY ZenonT(30), <1>1, <1>2 DEF RevocationTypes, DenialInv, LeaderCounts
<1>7. /\ DurableKept /\ (e.kind # "restore" => NoNewRestore)
      /\ Len(lines') \in Nat /\ next' <= Len(lines')
      /\ \A j \in next' + 1 .. Len(lines') : lines'[j].kind = e.kind
      /\ buffer'.left # "none" => buffer'.line = e
  <2>1. CASE UNCHANGED <<lines, synced>> /\ buffer'.line = e
    <3>1. DurableKept /\ NoNewRestore BY ZenonT(30), <1>1, <2>1, SameJournal
    <3> QED BY SMTT(30), <1>2, <1>6, <2>1, <3>1
  <2>2. CASE lines' = Append(lines, e) /\ UNCHANGED <<synced, buffer>>
    <3>1. synced' \in {synced, Len(lines')} BY ZenonT(30), <2>2
    <3>2. /\ Len(lines') = Len(lines) + 1 /\ lines'[Len(lines')] = e /\ DurableKept
          /\ e.kind # "restore" => NoNewRestore
      BY ZenonT(30), <1>1, <1>5, <2>2, <3>1, Longer
    <3>3. \A j \in next' + 1 .. Len(lines') : j = Len(lines') BY SMTT(30), <1>2, <1>6, <3>2
    <3>4. \A j \in next' + 1 .. Len(lines') : lines'[j].kind = e.kind BY ZenonT(30), <3>2, <3>3
    <3>5. buffer' = buffer BY ZenonT(30), <2>2
    <3> QED BY SMTT(30), <1>2, <1>6, <3>2, <3>4, <3>5
  <2> QED BY ZenonT(30), <1>3, <2>1, <2>2
<1>8. now <= now' /\ \A s \in disk' : s \in disk BY SMTT(30), <1>1, <1>2 DEF RevocationTypes
<1>9. UNCHANGED <<read, replica>> BY ZenonT(30), <1>2
<1>10. /\ Covered' /\ ReadCovered' /\ ReplicaHolds'
       /\ \A l : (\A m \in must : Held(l, m)) => \A m \in must' : Held(l, m)'
  BY ZenonT(30), <1>1, <1>4, <1>7, <1>8, <1>9, DenialsKept
<1>11. LeaderHolds'
  <2>1. \A m \in must : Held(list, m) BY ZenonT(30), <1>1, <1>2 DEF DenialInv, LeaderHolds
  <2>2. \A l : l = list => \A m \in must' : Held(l, m)' BY ZenonT(30), <1>10, <2>1
  <2>3. list' = list BY ZenonT(30), <1>2
  <2>4. \A l : l = list' => \A m \in must' : Held(l, m)' BY ZenonT(30), <2>2, <2>3
  <2> QED BY ZenonT(30), <2>4 DEF LeaderHolds, Held
<1>12. LeaderCounts' BY ZenonT(30), <1>2, <1>6, <1>7 DEF LeaderCounts
<1>13. RestoresAsked' BY ZenonT(30), <1>4, <1>7 DEF RestoresAsked
<1> QED BY ZenonT(30), <1>10, <1>11, <1>12, <1>13 DEF DenialInv

\* A snapshot of the leader's list at the lines it counted has what is owed.
LEMMA SnapshotCovers ==
    ASSUME NEW l, NEW n \in Nat, NEW m, Held(l, m),
           m[1] = "actor" => \A j \in n + 1 .. Len(lines) : lines[j].kind # "restore"
    PROVE  Covers(Rev!Snapshot(l, n), m)
<1>1. Rev!Snapshot(l, n).mark = n /\ Rev!Snapshot(l, n).state = l BY ZenonT(30) DEF Rev!Snapshot
<1> QED BY ZenonT(30), <1>1 DEF Covers

\* A checkpoint: the new snapshot has every denial that is owed.
LEMMA CheckpointDenies ==
    ASSUME RevocationSane, RevocationInv, RevocationTypes', Rev!Checkpoint
    PROVE  DenialInv'
<1> DEFINE s == Rev!Snapshot(list, next)
<1>1. RevocationTypes /\ DenialInv BY ZenonT(30) DEF RevocationInv
<1>2. /\ proc = "up" /\ Rev!Save(s)
      /\ UNCHANGED <<proc, list, next, poison, buffer, lines, synced,
                     replica, read, due, owed, now, must>>
  BY ZenonT(30) DEF Rev!Checkpoint, Rev!leader, Rev!journal, Rev!reader
<1>3. s \in Snaps /\ s.mark = next BY ZenonT(30), <1>1 DEF Rev!Snapshot, Snaps, RevocationTypes
<1>4. ASSUME NEW m \in must PROVE Covers(s, m)
  <2>1. Held(list, m) BY ZenonT(30), <1>1, <1>2 DEF DenialInv, LeaderHolds
  <2>2. ASSUME m[1] = "actor" PROVE \A j \in next + 1 .. Len(lines) : lines[j].kind # "restore"
    <3>1. Barring(must \cup due) BY ZenonT(30), <2>2 DEF Barring
    <3> QED BY ZenonT(30), <1>1, <1>2, <3>1 DEF DenialInv, RestoresAsked
  <2>3. next \in Nat BY ZenonT(30), <1>1 DEF RevocationTypes
  <2> QED BY ZenonT(30), <2>1, <2>2, <2>3, SnapshotCovers
<1> HIDE DEF s
<1>5. disk' \subseteq disk \cup {s} BY ZenonT(30), <1>1, <1>2, <1>3, SaveTypes
<1>6. \A x \in disk' : x \in disk \/ \A m \in must : Covers(x, m) BY ZenonT(30), <1>4, <1>5
<1>7. /\ now <= now' /\ must' \subseteq must /\ due' \subseteq due /\ owed' \subseteq owed
      /\ UNCHANGED <<read, replica>> /\ UNCHANGED <<lines, synced>>
  BY <1>1, <1>2 DEF RevocationTypes
<1>8. DurableKept /\ NoNewRestore BY ZenonT(30), <1>1, <1>7, SameJournal
<1>9. Covered' /\ ReadCovered' /\ ReplicaHolds'
  BY ZenonT(30), <1>1, <1>6, <1>7, <1>8, DenialsKept
<1>10. LeaderHolds'
  BY ZenonT(30), <1>1, <1>2 DEF DenialInv, LeaderHolds, Held
<1>11. LeaderCounts'
  <2>1. /\ next <= Len(lines) /\ \A x \in disk : x.mark <= next
        /\ ~poison => next = Len(lines) /\ buffer.left = "none"
    BY ZenonT(30), <1>1, <1>2 DEF DenialInv, LeaderCounts
  <2>2. next \in Nat BY ZenonT(30), <1>1 DEF RevocationTypes
  <2>3. \A x \in disk' : x.mark <= next BY SMTT(30), <1>3, <1>5, <2>1, <2>2
  <2> QED BY ZenonT(30), <1>2, <2>1, <2>3 DEF LeaderCounts
<1>12. RestoresAsked' BY ZenonT(30), <1>1, <1>2 DEF DenialInv, RestoresAsked
<1> QED BY ZenonT(30), <1>9, <1>10, <1>11, <1>12 DEF DenialInv

\* A start: what is loaded has what is owed, and so has its checkpoint.
LEMMA BootDenies ==
    ASSUME RevocationSane, RevocationInv, RevocationTypes', Rev!Boot
    PROVE  DenialInv'
<1> DEFINE l == Rev!Loaded(snap)
           s == Rev!Snapshot(l, Len(lines))
<1>1. RevocationTypes /\ DenialInv BY ZenonT(30) DEF RevocationInv
<1>2. /\ Rev!Loadable(snap) /\ list' = l /\ Rev!Save(s) /\ next' = Len(lines) /\ buffer' = Rev!Clean
      /\ proc' = IF faults' = faults THEN "up" ELSE "down"
      /\ UNCHANGED <<lines, synced, replica, read, due, owed, now, must>>
  BY ZenonT(30) DEF Rev!Boot, Rev!journal, Rev!reader
<1>3. /\ now \in Nat /\ lines \in Seq(Lines) /\ Len(lines) \in Nat /\ synced \in 0 .. Len(lines)
      /\ snap \in disk /\ snap \in Snaps /\ must \subseteq Denials
  BY <1>1 DEF RevocationTypes
<1>4. l \in Lists BY ZenonT(30), <1>2, <1>3, LoadedIs
<1>5. ASSUME NEW m \in must PROVE Held(l, m)
  <2>1. Covers(snap, m) /\ m \in Denials BY ZenonT(30), <1>1, <1>3 DEF DenialInv, Covered
  <2> QED BY ZenonT(30), <1>2, <1>3, <2>1, LoadedHolds
<1> HIDE DEF l
<1>6. s \in Snaps /\ s.mark = Len(lines) BY ZenonT(30), <1>3, <1>4 DEF Rev!Snapshot, Snaps
<1>7. ASSUME NEW m \in must PROVE Covers(s, m)
  <2>1. \A j \in Len(lines) + 1 .. Len(lines) : FALSE BY <1>3
  <2> QED BY ZenonT(30), <1>3, <1>5, <2>1, SnapshotCovers
<1> HIDE DEF s
<1>8. disk' \subseteq disk \cup {s} /\ (faults' = faults => disk' = {s})
  BY ZenonT(30), <1>1, <1>2, <1>6, SaveTypes
<1>9. \A x \in disk' : x \in disk \/ \A m \in must : Covers(x, m) BY ZenonT(30), <1>7, <1>8
<1>10. /\ now <= now' /\ must' \subseteq must /\ due' \subseteq due /\ owed' \subseteq owed
       /\ UNCHANGED <<read, replica>> /\ UNCHANGED <<lines, synced>>
  BY SMTT(30), <1>2, <1>3
<1>11. DurableKept /\ NoNewRestore BY ZenonT(30), <1>1, <1>10, SameJournal
<1>12. /\ Covered' /\ ReadCovered' /\ ReplicaHolds'
  BY ZenonT(30), <1>1, <1>9, <1>10, <1>11, DenialsKept
<1>13. LeaderHolds' BY ZenonT(30), <1>2, <1>5 DEF LeaderHolds, Held
<1>14. LeaderCounts'
  <2>1. ASSUME proc' = "up" PROVE disk' = {s} BY ZenonT(30), <1>2, <1>8, <2>1
  <2>2. next' <= Len(lines') /\ next' = Len(lines') /\ buffer'.left = "none"
    BY SMTT(30), <1>2, <1>3 DEF Rev!Clean
  <2>3. ASSUME proc' = "up" PROVE \A x \in disk' : x.mark <= next'
    BY SMTT(30), <1>2, <1>3, <1>6, <2>1, <2>3
  <2> QED BY ZenonT(30), <2>2, <2>3 DEF LeaderCounts
<1>15. RestoresAsked'
  <2>1. \A j \in next' + 1 .. Len(lines') : FALSE BY SMTT(30), <1>2, <1>3
  <2>2. buffer'.left = "none" BY ZenonT(30), <1>2 DEF Rev!Clean
  <2> QED BY ZenonT(30), <2>1, <2>2 DEF RestoresAsked
<1> QED BY ZenonT(30), <1>12, <1>13, <1>14, <1>15 DEF DenialInv

\* An orderly end: what the writer adds is the line of the append that failed.
LEMMA ExitDenies ==
    ASSUME RevocationSane, RevocationInv, RevocationTypes', Rev!Exit
    PROVE  DenialInv'
<1>1. RevocationTypes /\ DenialInv BY ZenonT(30) DEF RevocationInv
<1>2. /\ proc = "up" /\ proc' = "down" /\ now' = now /\ must' = must /\ due' = due /\ owed' = owed
      /\ UNCHANGED <<read, replica>> /\ disk' = disk
  BY ZenonT(30) DEF Rev!Exit, Rev!reader, Rev!snapshots
<1>3. /\ buffer.left \in {"none", "line", "rest"} /\ buffer.line \in Lines
      /\ tail \in {"whole", "torn"} /\ Rev!Junk \in Lines /\ Rev!Junk.kind = "junk"
  BY ZenonT(30), <1>1 DEF RevocationTypes, Lines, Rev!Junk
<1>4. \/ UNCHANGED <<lines, synced>>
      \/ /\ buffer.left # "none" /\ synced' = synced
         /\ \E x \in {buffer.line, Rev!Junk} : lines' = Append(lines, x)
  BY ZenonT(30), <1>3 DEF Rev!Exit, Rev!journal
<1>5. DurableKept /\ (Barring(must \cup due) => NoNewRestore)
  <2>1. CASE UNCHANGED <<lines, synced>> BY ZenonT(30), <1>1, <2>1, SameJournal
  <2>2. ASSUME buffer.left # "none", synced' = synced, NEW x \in {buffer.line, Rev!Junk},
               lines' = Append(lines, x)
        PROVE  DurableKept /\ (Barring(must \cup due) => NoNewRestore)
    <3>1. x \in Lines /\ synced' \in {synced, Len(lines')} BY ZenonT(30), <1>3, <2>2
    <3>2. DurableKept /\ (x.kind # "restore" => NoNewRestore)
      BY ZenonT(30), <1>1, <2>2, <3>1, Longer
    <3>3. ASSUME Barring(must \cup due) PROVE x.kind # "restore"
      <4>1. buffer.line.kind # "restore"
        BY ZenonT(30), <1>1, <1>2, <2>2, <3>3 DEF DenialInv, RestoresAsked
      <4> QED BY ZenonT(30), <1>3, <2>2, <4>1
    <3> QED BY ZenonT(30), <3>2, <3>3
  <2> QED BY ZenonT(30), <1>4, <2>1, <2>2
<1>6. must' \subseteq must /\ due' \subseteq due /\ owed' \subseteq owed /\ disk' \subseteq disk
  BY ZenonT(30), <1>2
<1>7. Barring(must' \cup due') => NoNewRestore BY ZenonT(30), <1>2, <1>5
<1> QED BY ZenonT(30), <1>1, <1>2, <1>5, <1>6, <1>7, DownKept

\* A death, inside an append or outside of one.
LEMMA DieDenies ==
    ASSUME RevocationSane, RevocationInv, RevocationTypes', Rev!Die
    PROVE  DenialInv'
<1>1. RevocationTypes /\ DenialInv BY ZenonT(30) DEF RevocationInv
<1>2. /\ proc' = "down" /\ now' = now /\ UNCHANGED <<read, replica>> /\ disk' \subseteq disk
  BY ZenonT(30) DEF Rev!Die, Rev!snapshots
<1>3. CASE UNCHANGED <<Rev!journal, strained, must, due, owed>>
  <2>1. /\ must' \subseteq must /\ due' \subseteq due /\ owed' \subseteq owed
        /\ UNCHANGED <<lines, synced>>
    BY ZenonT(30), <1>3 DEF Rev!journal
  <2>2. DurableKept /\ NoNewRestore BY ZenonT(30), <1>1, <2>1, SameJournal
  <2> QED BY ZenonT(30), <1>1, <1>2, <2>1, <2>2, DownKept
<1>4. ASSUME NEW e \in Rev!Events, Rev!Asked(e),
             \/ tail' = "torn" /\ UNCHANGED lines
             \/ lines' = Append(lines, e) /\ UNCHANGED tail,
             UNCHANGED synced
      PROVE  DenialInv'
  <2>1. /\ must' \subseteq must /\ due' \subseteq due /\ owed' \subseteq owed
        /\ Barring(must' \cup due') => e.kind # "restore"
    BY ZenonT(30), <1>4, AskedEnds
  <2>2. DurableKept /\ (e.kind # "restore" => NoNewRestore)
    <3>1. CASE UNCHANGED lines
      <4>1. UNCHANGED <<lines, synced>> BY ZenonT(30), <1>4, <3>1
      <4> QED BY ZenonT(30), <1>1, <4>1, SameJournal
    <3>2. CASE lines' = Append(lines, e)
      <4>1. e \in Lines /\ synced' \in {synced, Len(lines')} BY ZenonT(30), <1>4 DEF Lines
      <4> QED BY ZenonT(30), <1>1, <3>2, <4>1, Longer
    <3> QED BY ZenonT(30), <1>4, <3>1, <3>2
  <2>3. Barring(must' \cup due') => NoNewRestore BY ZenonT(30), <2>1, <2>2
  <2> QED BY ZenonT(30), <1>1, <1>2, <2>1, <2>2, <2>3, DownKept
<1> QED BY ZenonT(30), <1>3, <1>4 DEF Rev!Die

\* A power loss takes no durable line, and leaves a snapshot that could be found.
LEMMA LossDenies ==
    ASSUME RevocationSane, RevocationInv, RevocationTypes', Rev!PowerLoss
    PROVE  DenialInv'
<1>1. RevocationTypes /\ DenialInv BY ZenonT(30) DEF RevocationInv
<1>2. /\ proc' = "down" /\ now' = now /\ must' = must /\ due' = due /\ owed' = owed
      /\ UNCHANGED <<read, replica>> /\ disk' \subseteq disk
  BY ZenonT(30) DEF Rev!PowerLoss, Rev!reader
<1>3. PICK n \in synced .. Len(lines) : lines' = SubSeq(lines, 1, n) /\ synced' = n
  BY ZenonT(30) DEF Rev!PowerLoss
<1>4. lines \in Seq(Lines) /\ Len(lines) \in Nat /\ synced \in 0 .. Len(lines)
  BY SMTT(30), <1>1 DEF RevocationTypes
<1>5. /\ n \in Nat /\ n <= Len(lines) /\ Len(lines') = n /\ synced <= n
      /\ \A i \in 1 .. n : lines'[i] = lines[i]
  BY SMTT(30), <1>3, <1>4
<1>6. DurableKept BY SMTT(30), <1>3, <1>4, <1>5 DEF DurableKept
<1>7. NoNewRestore BY SMTT(30), <1>4, <1>5 DEF NoNewRestore
<1>8. must' \subseteq must /\ due' \subseteq due /\ owed' \subseteq owed BY ZenonT(30), <1>2
<1> QED BY ZenonT(30), <1>1, <1>2, <1>6, <1>7, <1>8, DownKept

\* A refresh reads a snapshot that has what is owed, and what it loads has it.
LEMMA RefreshDenies ==
    ASSUME RevocationSane, RevocationInv, RevocationTypes', Rev!ReadSnapshot \/ Rev!Refresh
    PROVE  DenialInv'
<1>1. RevocationTypes /\ DenialInv BY ZenonT(30) DEF RevocationInv
<1>2. UNCHANGED <<proc, list, next, poison, buffer, lines, synced, disk, now, must>>
  BY ZenonT(30) DEF Rev!ReadSnapshot, Rev!Refresh, Rev!leader, Rev!journal, Rev!snapshots
<1>3. Covered' BY ZenonT(30), <1>1, <1>2 DEF DenialInv, Covered, Covers, Held
<1>4. LeaderHolds' BY ZenonT(30), <1>1, <1>2 DEF DenialInv, LeaderHolds, Held
<1>5. LeaderCounts' BY ZenonT(30), <1>1, <1>2 DEF DenialInv, LeaderCounts
<1>6. due' \subseteq must \cup due BY ZenonT(30) DEF Rev!ReadSnapshot, Rev!Refresh
<1>7. RestoresAsked'
  <2>1. Barring(must' \cup due') => Barring(must \cup due) BY ZenonT(30), <1>2, <1>6 DEF Barring
  <2> QED BY ZenonT(30), <1>1, <1>2, <2>1 DEF DenialInv, RestoresAsked
<1>8. CASE Rev!ReadSnapshot
  <2>1. read' = snap /\ due' = must /\ UNCHANGED <<replica, owed>> /\ snap \in disk
    BY ZenonT(30), <1>1, <1>8 DEF Rev!ReadSnapshot, RevocationTypes
  <2>2. \A m \in must : Covers(snap, m) BY ZenonT(30), <1>1, <2>1 DEF DenialInv, Covered
  <2>3. ReadCovered' BY ZenonT(30), <1>2, <2>1, <2>2 DEF ReadCovered, Covers, Held
  <2>4. ReplicaHolds' BY ZenonT(30), <1>1, <1>2, <2>1 DEF DenialInv, ReplicaHolds, Held
  <2> QED BY ZenonT(30), <1>3, <1>4, <1>5, <1>7, <2>3, <2>4 DEF DenialInv
<1>9. CASE Rev!Refresh
  <2>1. read # Rev!NotReading /\ read' = Rev!NotReading BY ZenonT(30), <1>9 DEF Rev!Refresh
  <2>2. ReadCovered' BY ZenonT(30), <2>1 DEF ReadCovered
  <2>3. ReplicaHolds'
    <3>1. CASE Rev!Loadable(read)
      <4>1. replica' = Rev!Loaded(read) /\ owed' = due BY ZenonT(30), <1>9, <3>1 DEF Rev!Refresh
      <4>2. /\ now \in Nat /\ lines \in Seq(Lines) /\ synced \in 0 .. Len(lines)
            /\ read \in Snaps /\ due \subseteq Denials
        BY ZenonT(30), <1>1, <2>1 DEF RevocationTypes
      <4>3. ASSUME NEW m \in due PROVE Held(Rev!Loaded(read), m)
        <5>1. Covers(read, m) /\ m \in Denials
          BY ZenonT(30), <1>1, <2>1, <4>2 DEF DenialInv, ReadCovered
        <5> QED BY ZenonT(30), <3>1, <4>2, <5>1, LoadedHolds
      <4> QED BY ZenonT(30), <1>2, <4>1, <4>3 DEF ReplicaHolds, Held
    <3>2. CASE ~Rev!Loadable(read)
      <4>1. UNCHANGED <<replica, owed>> BY ZenonT(30), <1>9, <3>2 DEF Rev!Refresh
      <4> QED BY ZenonT(30), <1>1, <1>2, <4>1 DEF DenialInv, ReplicaHolds, Held
    <3> QED BY ZenonT(30), <3>1, <3>2
  <2> QED BY ZenonT(30), <1>3, <1>4, <1>5, <1>7, <2>2, <2>3 DEF DenialInv
<1> QED BY ZenonT(30), <1>8, <1>9

\* Time passes, or nothing happens.
LEMMA TickDenies ==
    ASSUME RevocationSane, RevocationInv, RevocationTypes', Rev!Tick \/ UNCHANGED Rev!vars
    PROVE  DenialInv'
<1>1. RevocationTypes /\ DenialInv BY ZenonT(30) DEF RevocationInv
<1>2. /\ UNCHANGED <<proc, list, next, poison, buffer, lines, synced,
                     disk, must, due, owed, read, replica>>
      /\ now' \in {now, now + 1}
  BY ZenonT(30) DEF Rev!Tick, Rev!vars, Rev!leader, Rev!journal, Rev!snapshots, Rev!reader
<1>3. /\ now <= now' /\ must' \subseteq must /\ due' \subseteq due /\ owed' \subseteq owed
      /\ UNCHANGED <<read, replica>> /\ UNCHANGED <<lines, synced>> /\ \A s \in disk' : s \in disk
  BY <1>1, <1>2 DEF RevocationTypes
<1>4. DurableKept /\ NoNewRestore BY ZenonT(30), <1>1, <1>3, SameJournal
<1>5. /\ Covered' /\ ReadCovered' /\ ReplicaHolds'
      /\ \A l : (\A m \in must : Held(l, m)) => \A m \in must' : Held(l, m)'
  BY ZenonT(30), <1>1, <1>3, <1>4, DenialsKept
<1>6. LeaderHolds'
  <2>1. ASSUME proc = "up" PROVE \A l : l = list => \A m \in must' : Held(l, m)'
    <3>1. \A m \in must : Held(list, m) BY ZenonT(30), <1>1, <2>1 DEF DenialInv, LeaderHolds
    <3> QED BY ZenonT(30), <1>5, <3>1
  <2>2. list' = list /\ proc' = proc BY ZenonT(30), <1>2
  <2>3. proc' = "up" => \A l : l = list' => \A m \in must' : Held(l, m)' BY ZenonT(30), <2>1, <2>2
  <2> QED BY ZenonT(30), <2>3 DEF LeaderHolds, Held
<1>7. LeaderCounts' /\ RestoresAsked'
  BY ZenonT(30), <1>1, <1>2 DEF DenialInv, LeaderCounts, RestoresAsked
<1> QED BY ZenonT(30), <1>5, <1>6, <1>7 DEF DenialInv

-----------------------------------------------------------------------------
(* The steps: loading *)

\* What a step that only adds to the journal leaves of the invariant.
LEMMA LoadKept ==
    ASSUME RevocationSane, RevocationTypes, RevocationTypes', LoadInv, ~strained,
           now <= now', Extended
    PROVE  /\ \A i \in 1 .. Len(lines) : lines'[i] \in Rev!Events /\ Fits(lines, i)'
           /\ \A s \in disk : s.mark <= Len(lines') /\ Standing(lines, s.state, s.mark)'
           /\ proc = "up" => ~poison /\ \A l, n : l = list /\ n = Len(lines) => Standing(lines, l, n)'
           /\ tail = "whole"
<1>1. /\ \A n \in 0 .. Len(lines) : \A l : Standing(lines, l, n) => Standing(lines, l, n)'
      /\ \A n \in 1 .. Len(lines) : Fits(lines, n) => Fits(lines, n)'
  BY ZenonT(30), StandsLater
<1>2. /\ tail = "whole" /\ \A i \in 1 .. Len(lines) : lines[i] \in Rev!Events /\ Fits(lines, i)
      /\ \A s \in disk : s.mark <= Len(lines) /\ Standing(lines, s.state, s.mark)
      /\ proc = "up" => ~poison /\ Standing(lines, list, Len(lines))
  BY ZenonT(30) DEF LoadInv
<1>3. /\ Len(lines) \in Nat /\ Len(lines') \in Nat /\ disk \subseteq Snaps BY DEF RevocationTypes
<1>4. \A i \in 1 .. Len(lines) : lines'[i] \in Rev!Events /\ Fits(lines, i)'
  BY ZenonT(30), <1>1, <1>2 DEF Extended
<1>5. ASSUME NEW s \in disk PROVE s.mark <= Len(lines') /\ Standing(lines, s.state, s.mark)'
  <2>1. s.mark \in 0 .. Len(lines) /\ s.mark <= Len(lines') BY SMTT(30), <1>2, <1>3 DEF Snaps, Extended
  <2> QED BY ZenonT(30), <1>1, <1>2, <2>1
<1>6. Len(lines) \in 0 .. Len(lines) BY <1>3
<1>7. ASSUME proc = "up", NEW l, NEW n, l = list, n = Len(lines) PROVE Standing(lines, l, n)'
  <2>1. Standing(lines, l, n) /\ n \in 0 .. Len(lines) BY ZenonT(30), <1>2, <1>6, <1>7
  <2> QED BY ZenonT(30), <1>1, <2>1
<1> QED BY ZenonT(30), <1>2, <1>4, <1>5, <1>7

\* A step after which no append has failed keeps the journal and every snapshot.
LEMMA QuietKept ==
    ASSUME RevocationSane, RevocationTypes, RevocationTypes', LoadInv, now <= now',
           ~strained' => ~strained /\ lines' = lines /\ synced <= synced' /\ tail' = "whole",
           disk' \subseteq disk,
           proc' = "up" => proc = "up" /\ list' = list /\ poison' = poison
    PROVE  LoadInv'
<1> SUFFICES ASSUME ~strained' PROVE LoadInv' BY ZenonT(30) DEF LoadInv
<1>1. ~strained /\ lines' = lines /\ tail' = "whole" OBVIOUS
<1>2. Extended
  <2>1. Len(lines) \in Nat BY DEF RevocationTypes
  <2> QED BY SMTT(30), <1>1, <2>1 DEF Extended
<1>3. /\ \A i \in 1 .. Len(lines) : lines'[i] \in Rev!Events /\ Fits(lines, i)'
      /\ \A s \in disk : s.mark <= Len(lines') /\ Standing(lines, s.state, s.mark)'
      /\ proc = "up" => ~poison /\ \A l, n : l = list /\ n = Len(lines) => Standing(lines, l, n)'
  BY ZenonT(30), <1>1, <1>2, LoadKept
<1>4. \A i \in 1 .. Len(lines') : lines'[i] \in Rev!Events /\ Fits(lines, i)' BY ZenonT(30), <1>1, <1>3
<1>5. \A s \in disk' : s.mark <= Len(lines') /\ Standing(lines, s.state, s.mark)' BY ZenonT(30), <1>3
<1>6. ASSUME proc' = "up" PROVE ~poison' /\ Standing(lines, list, Len(lines))'
  <2>1. proc = "up" /\ list' = list /\ poison' = poison BY ZenonT(30), <1>6
  <2>2. ~poison /\ \A l, n : l = list /\ n = Len(lines) => Standing(lines, l, n)'
    BY ZenonT(30), <1>3, <2>1
  <2>3. \A l, n : l = list' /\ n = Len(lines') => Standing(lines, l, n)'
    BY ZenonT(30), <1>1, <2>1, <2>2
  <2>4. ~poison' BY ZenonT(30), <2>1, <2>2
  <2> QED BY ZenonT(30), <2>3, <2>4 DEF Standing
<1> QED BY ZenonT(30), <1>1, <1>4, <1>5, <1>6 DEF LoadInv

\* A mutation that was not refused adds a line that fits.
LEMMA MutateLoads ==
    ASSUME RevocationSane, RevocationInv, RevocationTypes', NEW e \in Rev!Events, Rev!Mutate(e)
    PROVE  LoadInv'
<1> SUFFICES ASSUME ~strained' PROVE LoadInv' BY ZenonT(30) DEF LoadInv
<1>1. RevocationTypes /\ LoadInv BY ZenonT(30) DEF RevocationInv
<1>2. /\ proc = "up" /\ ~Rev!Refused(list, e) /\ lines' = Append(lines, e) /\ synced' = Len(lines')
      /\ list' = Rev!apply_event(list, e) /\ ~strained
      /\ proc' = proc /\ poison' = poison /\ tail' = tail /\ now' = now /\ disk' = disk
  BY ZenonT(30) DEF Rev!Mutate, Rev!Attempt, Rev!snapshots
<1>3. e \in Lines BY ZenonT(30) DEF Lines
<1> DEFINE n == Len(lines')
<1>4. Len(lines') = Len(lines) + 1 /\ lines'[Len(lines')] = e /\ Extended
  BY ZenonT(30), <1>1, <1>2, <1>3, Longer
<1>5. Len(lines) \in Nat /\ now \in Nat /\ list \in Lists /\ now <= now'
  BY <1>1, <1>2 DEF RevocationTypes
<1>6. /\ \A i \in 1 .. Len(lines) : lines'[i] \in Rev!Events /\ Fits(lines, i)'
      /\ \A s \in disk : s.mark <= Len(lines') /\ Standing(lines, s.state, s.mark)'
      /\ ~poison /\ \A l, k : l = list /\ k = Len(lines) => Standing(lines, l, k)'
      /\ tail = "whole"
  BY ZenonT(30), <1>1, <1>2, <1>4, <1>5, LoadKept
<1>7. /\ n \in Nat /\ n # 0 /\ n - 1 = Len(lines) /\ n - 1 \in Nat
      /\ \A i \in 1 .. n : i \in 1 .. Len(lines) \/ i = n
  BY <1>4, <1>5
<1>8. lines'[n] = e BY ZenonT(30), <1>4
<1>9. Standing(lines', list, n - 1)
  <2>1. \A l, k : l = list /\ k = n - 1 => Standing(lines, l, k)' BY ZenonT(30), <1>6, <1>7
  <2>2. \A l, k : Standing(lines, l, k)' <=> Standing(lines', l, k)
    BY ZenonT(30), <1>2 DEF Standing, Mentioned, Barred
  <2> QED BY ZenonT(30), <2>1, <2>2
<1> HIDE DEF n
<1>10. Fits(lines', n)
  <2>1. Cardinality(Unexpired(lines', n - 1)) \in Nat BY ZenonT(30), <1>7, UnexpiredFinite
  <2> QED BY ZenonT(30), <1>2, <1>5, <1>7, <1>8, <1>9, <2>1, FitsAccepted
<1>11. Standing(lines', Rev!apply_event(list, e), n)
  BY ZenonT(30), <1>5, <1>7, <1>8, <1>9, ApplyStands
<1>12. Standing(lines, list, Len(lines))'
  <2>1. Standing(lines', list', n) BY ZenonT(30), <1>2, <1>11
  <2> QED BY ZenonT(30), <1>2, <2>1 DEF Standing, Mentioned, Barred, n
<1>13. \A i \in 1 .. Len(lines') : lines'[i] \in Rev!Events /\ Fits(lines, i)'
  <2>1. ASSUME NEW i \in 1 .. n PROVE lines'[i] \in Rev!Events /\ Fits(lines, i)'
    <3>1. CASE i \in 1 .. Len(lines) BY ZenonT(30), <1>6, <3>1
    <3>2. CASE i = n
      <4>1. \A k : Fits(lines, k)' <=> Fits(lines', k)
        BY ZenonT(30), <1>2 DEF Fits, Unexpired, Mentioned, Barred
      <4>2. Fits(lines, i)' BY ZenonT(30), <1>10, <3>2, <4>1
      <4> QED BY ZenonT(30), <1>8, <3>2, <4>2
    <3> QED BY ZenonT(30), <1>7, <3>1, <3>2
  <2> QED BY ZenonT(30), <2>1 DEF n
<1> QED BY ZenonT(30), <1>2, <1>6, <1>12, <1>13 DEF LoadInv

\* The leader's list and what a start loads stand for the lines they count.
LEMMA SaveLoads ==
    ASSUME RevocationSane, RevocationInv, RevocationTypes', Rev!Checkpoint \/ Rev!Boot
    PROVE  LoadInv'
<1> SUFFICES ASSUME ~strained' PROVE LoadInv' BY ZenonT(30) DEF LoadInv
<1>1. RevocationTypes /\ LoadInv /\ DenialInv BY ZenonT(30) DEF RevocationInv
<1>2. /\ strained' = strained /\ lines' = lines /\ synced' = synced /\ tail' = tail /\ now' = now
      /\ ~strained
  BY SMTT(30) DEF Rev!Checkpoint, Rev!Boot, Rev!journal
<1>3. /\ Len(lines) \in Nat /\ now \in Nat /\ now <= now' /\ lines \in Seq(Lines)
      /\ snap \in disk /\ snap \in Snaps /\ list \in Lists
  BY <1>1, <1>2 DEF RevocationTypes
<1>4. /\ tail = "whole" /\ \A i \in 1 .. Len(lines) : lines[i] \in Rev!Events /\ Fits(lines, i)
      /\ \A s \in disk : s.mark <= Len(lines) /\ Standing(lines, s.state, s.mark)
      /\ proc = "up" => ~poison /\ Standing(lines, list, Len(lines))
  BY ZenonT(30), <1>1, <1>2 DEF LoadInv
<1>5. PICK l \in Lists :
        /\ Standing(lines, l, Len(lines)) /\ Rev!Save(Rev!Snapshot(l, Len(lines)))
        /\ proc' = "up" => ~poison' /\ list' = l
  <2>1. CASE Rev!Checkpoint
    <3>1. proc = "up" /\ Rev!Save(Rev!Snapshot(list, next)) /\ list' = list /\ poison' = poison
      BY ZenonT(30), <2>1 DEF Rev!Checkpoint, Rev!leader
    <3>2. next = Len(lines) BY ZenonT(30), <1>1, <1>4, <3>1 DEF DenialInv, LeaderCounts
    <3> QED BY ZenonT(30), <1>3, <1>4, <3>1, <3>2
  <2>2. CASE Rev!Boot
    <3>1. /\ Rev!Loadable(snap) /\ list' = Rev!Loaded(snap) /\ poison' = FALSE
          /\ Rev!Save(Rev!Snapshot(Rev!Loaded(snap), Len(lines)))
      BY ZenonT(30), <2>2 DEF Rev!Boot
    <3>2. Rev!Loaded(snap) \in Lists BY ZenonT(30), <1>3, <3>1, LoadedIs
    <3>3. Standing(lines, Rev!Loaded(snap), Len(lines)) BY ZenonT(30), <1>3, <1>4, LoadsStanding
    <3> QED BY ZenonT(30), <3>1, <3>2, <3>3
  <2> QED BY ZenonT(30), <2>1, <2>2
<1> DEFINE s == Rev!Snapshot(l, Len(lines))
<1>6. s \in Snaps /\ s.mark = Len(lines) /\ s.state = l BY ZenonT(30), <1>3, <1>5 DEF Rev!Snapshot, Snaps
<1> HIDE DEF s
<1>7. disk' \subseteq disk \cup {s} BY ZenonT(30), <1>1, <1>5, <1>6, SaveTypes DEF s
<1>8. \A x \in disk' : x.mark <= Len(lines) /\ Standing(lines, x.state, x.mark)
  <2>1. Standing(lines, s.state, s.mark) BY ZenonT(30), <1>5, <1>6
  <2>2. s.mark <= Len(lines) BY <1>3, <1>6
  <2> QED BY SMTT(30), <1>4, <1>7, <2>1, <2>2
<1>9. \A x \in disk' : x.mark <= Len(lines') /\ Standing(lines, x.state, x.mark)'
  <2>1. \A x, k : Standing(lines, x, k)' <=> Standing(lines, x, k)
    BY ZenonT(30), <1>2 DEF Standing, Mentioned, Barred
  <2> QED BY ZenonT(30), <1>2, <1>8, <2>1
<1>10. \A i \in 1 .. Len(lines') : lines'[i] \in Rev!Events /\ Fits(lines, i)'
  <2>1. \A k : Fits(lines, k)' <=> Fits(lines, k)
    BY ZenonT(30), <1>2 DEF Fits, Unexpired, Mentioned, Barred
  <2> QED BY ZenonT(30), <1>2, <1>4, <2>1
<1>11. ASSUME proc' = "up" PROVE ~poison' /\ Standing(lines, list, Len(lines))'
  <2>1. ~poison' /\ Standing(lines, list', Len(lines)) BY ZenonT(30), <1>5, <1>11
  <2> QED BY ZenonT(30), <1>2, <2>1 DEF Standing, Mentioned, Barred
<1> QED BY ZenonT(30), <1>2, <1>4, <1>9, <1>10, <1>11 DEF LoadInv

\* The other steps.
LEMMA OtherLoads ==
    ASSUME RevocationSane, RevocationInv, RevocationTypes',
           \/ \E e \in Rev!Events : Rev!MutateFails(e)
           \/ Rev!Exit \/ Rev!Die \/ Rev!PowerLoss
           \/ Rev!ReadSnapshot \/ Rev!Refresh \/ Rev!Tick \/ UNCHANGED Rev!vars
    PROVE  LoadInv'
<1>1. RevocationTypes /\ LoadInv /\ DenialInv BY ZenonT(30) DEF RevocationInv
<1>2. now <= now' /\ now \in Nat
  <2>1. now' = now \/ now' = now + 1
    BY ZenonT(30) DEF Rev!MutateFails, Rev!Exit, Rev!Die, Rev!PowerLoss, Rev!ReadSnapshot,
                      Rev!Refresh, Rev!Tick, Rev!vars
  <2> QED BY <1>1, <2>1 DEF RevocationTypes
<1>3. CASE \E e \in Rev!Events : Rev!MutateFails(e)
  <2>1. strained' = TRUE BY ZenonT(30), <1>3 DEF Rev!MutateFails
  <2> QED BY ZenonT(30), <2>1 DEF LoadInv
<1>4. CASE Rev!Exit
  <2>1. /\ proc' = "down" /\ disk' \subseteq disk /\ strained' = strained
        /\ buffer.left = "none" => UNCHANGED Rev!journal
    BY ZenonT(30), <1>4 DEF Rev!Exit, Rev!snapshots
  <2>2. ASSUME ~strained' PROVE lines' = lines /\ synced <= synced' /\ tail' = "whole"
    <3>1. proc = "up" /\ ~poison /\ tail = "whole"
      <4>1. ~strained /\ proc = "up" BY <1>4, <2>1, <2>2 DEF Rev!Exit
      <4> QED BY ZenonT(30), <1>1, <4>1 DEF LoadInv
    <3>2. buffer.left = "none" BY ZenonT(30), <1>1, <3>1 DEF DenialInv, LeaderCounts
    <3> QED BY <1>1, <2>1, <3>1, <3>2 DEF Rev!journal, RevocationTypes
  <2>3. ~(proc' = "up") BY ZenonT(30), <2>1
  <2> QED BY ZenonT(30), <1>1, <1>2, <2>1, <2>2, <2>3, QuietKept
<1>5. CASE Rev!Die
  <2>1. /\ proc' = "down" /\ disk' \subseteq disk
        /\ strained' = TRUE \/ UNCHANGED <<Rev!journal, strained, must, due, owed>>
    BY ZenonT(30), <1>5 DEF Rev!Die, Rev!snapshots
  <2>2. ASSUME ~strained'
        PROVE  ~strained /\ lines' = lines /\ synced <= synced' /\ tail' = "whole"
    <3>1. UNCHANGED <<Rev!journal, strained>> BY ZenonT(30), <2>1, <2>2
    <3>2. ~strained BY ZenonT(30), <2>2, <3>1
    <3>3. tail = "whole" BY ZenonT(30), <1>1, <3>2 DEF LoadInv
    <3> QED BY SMTT(30), <1>1, <3>1, <3>2, <3>3 DEF Rev!journal, RevocationTypes
  <2>3. ~(proc' = "up") BY ZenonT(30), <2>1
  <2> QED BY ZenonT(30), <1>1, <1>2, <2>1, <2>2, <2>3, QuietKept
<1>6. CASE Rev!PowerLoss
  <2>1. PICK n \in synced .. Len(lines) :
          /\ lines' = SubSeq(lines, 1, n) /\ synced' = n
          /\ tail' \in IF n < Len(lines) \/ tail = "torn" THEN {"whole", "torn"} ELSE {"whole"}
          /\ strained' = (strained \/ n < Len(lines))
    BY ZenonT(30), <1>6 DEF Rev!PowerLoss
  <2>2. proc' = "down" /\ disk' \subseteq disk
    BY ZenonT(30), <1>1, <1>6 DEF Rev!PowerLoss, RevocationTypes
  <2>3. ASSUME ~strained'
        PROVE  ~strained /\ lines' = lines /\ synced <= synced' /\ tail' = "whole"
    <3>1. ~strained /\ ~(n < Len(lines)) BY ZenonT(30), <2>1, <2>3
    <3>2. n = Len(lines) /\ synced <= n /\ lines \in Seq(Lines)
      BY SMTT(30), <1>1, <2>1, <3>1 DEF RevocationTypes
    <3>3. tail = "whole" BY ZenonT(30), <1>1, <3>1 DEF LoadInv
    <3>4. SubSeq(lines, 1, Len(lines)) = lines BY <3>2
    <3> QED BY ZenonT(30), <2>1, <3>1, <3>2, <3>3, <3>4
  <2>4. ~(proc' = "up") BY ZenonT(30), <2>2
  <2> QED BY ZenonT(30), <1>1, <1>2, <2>2, <2>3, <2>4, QuietKept
<1>7. CASE Rev!ReadSnapshot \/ Rev!Refresh \/ Rev!Tick \/ UNCHANGED Rev!vars
  <2>1. /\ UNCHANGED <<proc, list, poison, lines, synced, tail, strained>> /\ disk' = disk
    BY ZenonT(30), <1>7 DEF Rev!ReadSnapshot, Rev!Refresh, Rev!Tick, Rev!vars, Rev!leader,
       Rev!journal, Rev!snapshots
  <2>2. ASSUME ~strained'
        PROVE  ~strained /\ lines' = lines /\ synced <= synced' /\ tail' = "whole"
    <3>1. ~strained BY ZenonT(30), <2>1, <2>2
    <3>2. tail = "whole" BY ZenonT(30), <1>1, <3>1 DEF LoadInv
    <3> QED BY SMTT(30), <1>1, <2>1, <3>1, <3>2 DEF RevocationTypes
  <2>3. disk' \subseteq disk /\ (proc' = "up" => proc = "up" /\ list' = list /\ poison' = poison)
    BY ZenonT(30), <2>1
  <2> QED BY ZenonT(30), <1>1, <1>2, <2>2, <2>3, QuietKept
<1> QED BY ZenonT(30), <1>3, <1>4, <1>5, <1>6, <1>7

-----------------------------------------------------------------------------
(* The theorems *)

\* An empty root satisfies the invariant.
LEMMA RevocationStarts ==
    ASSUME RevocationSane, Rev!Init
    PROVE  RevocationInv
<1>1. /\ Rev!Empty \in Lists /\ Rev!NoSnap \in Snaps
      /\ Rev!NoSnap.mark = 0 /\ Rev!NoSnap.state = Rev!Empty
      /\ Rev!Clean \in [left : {"none", "line", "rest"}, line : Lines] /\ Rev!Clean.left = "none"
  BY ZenonT(30) DEF Rev!Empty, Lists, Rev!NoSnap, Snaps, Rev!Clean, Lines, Rev!None
<1>2. RevocationTypes
  <2>1. /\ proc \in {"up", "down"} /\ list \in Lists /\ next \in Nat /\ poison \in BOOLEAN
        /\ buffer \in [left : {"none", "line", "rest"}, line : Lines]
    BY ZenonT(30), <1>1 DEF Rev!Init
  <2>2. lines \in Seq(Lines) /\ tail \in {"whole", "torn"} /\ synced \in 0 .. Len(lines)
    BY DEF Rev!Init
  <2>3. disk \subseteq Snaps /\ snap \in disk /\ replica \in Lists /\ read = Rev!NotReading
    BY ZenonT(30), <1>1 DEF Rev!Init
  <2>4. /\ must \subseteq Denials /\ due \subseteq Denials /\ owed \subseteq Denials
        /\ strained \in BOOLEAN /\ faults \in Nat /\ now \in Nat
    BY ZenonT(30) DEF Rev!Init
  <2> QED BY ZenonT(30), <2>1, <2>2, <2>3, <2>4 DEF RevocationTypes
<1>3. Len(lines) = 0 /\ must = {} /\ due = {} /\ owed = {} /\ next = 0 /\ disk = {Rev!NoSnap}
  BY ZenonT(30) DEF Rev!Init
<1>4. DenialInv
  <2>1. Covered /\ ReadCovered /\ ReplicaHolds /\ LeaderHolds
    BY ZenonT(30), <1>3 DEF Covered, ReadCovered, ReplicaHolds, LeaderHolds
  <2>2. LeaderCounts BY SMTT(30), <1>1, <1>3 DEF LeaderCounts, Rev!Init
  <2>3. RestoresAsked BY ZenonT(30), <1>3 DEF RestoresAsked, Barring
  <2> QED BY ZenonT(30), <2>1, <2>2, <2>3 DEF DenialInv
<1>5. Standing(lines, Rev!Empty, 0)
  <2>1. \A i \in 1 .. 0 : FALSE OBVIOUS
  <2>2. ~Barred(lines, 0) /\ \A t : ~Mentioned(lines, 0, t) BY ZenonT(30), <2>1 DEF Barred, Mentioned
  <2>3. Rev!Empty.tokens = {} /\ Rev!Empty.through = Rev!None BY ZenonT(30) DEF Rev!Empty
  <2> QED BY ZenonT(30), <2>2, <2>3 DEF Standing
<1>6. LoadInv
  <2>1. \A i \in 1 .. Len(lines) : FALSE BY SMTT(30), <1>3
  <2>2. \A s \in disk : s.mark <= Len(lines) /\ Standing(lines, s.state, s.mark)
    BY SMTT(30), <1>1, <1>3, <1>5
  <2>3. Standing(lines, list, Len(lines)) BY ZenonT(30), <1>3, <1>5 DEF Rev!Init
  <2>4. tail = "whole" /\ ~poison BY ZenonT(30) DEF Rev!Init
  <2> QED BY ZenonT(30), <2>1, <2>2, <2>3, <2>4 DEF LoadInv
<1> QED BY ZenonT(30), <1>2, <1>4, <1>6 DEF RevocationInv

\* Every step keeps the invariant.
LEMMA RevocationStep ==
    ASSUME RevocationSane, RevocationInv, [Rev!Next]_(Rev!vars)
    PROVE  RevocationInv'
<1>1. RevocationTypes' BY ZenonT(30), TypesStep DEF RevocationInv
<1>2. DenialInv'
  BY ZenonT(30), <1>1, MutateDenies, FailDenies, CheckpointDenies, BootDenies, ExitDenies, DieDenies,
     LossDenies, RefreshDenies, TickDenies DEF Rev!Next
<1>3. LoadInv' BY ZenonT(30), <1>1, MutateLoads, SaveLoads, OtherLoads DEF Rev!Next
<1> QED BY ZenonT(30), <1>1, <1>2, <1>3 DEF RevocationInv

\* The invariant of the deny-list, of the journal and the snapshots of
\* apply_revocation_event and save_revocation_snapshot, and of a replica's list.
THEOREM RevocationSafe ==
    ASSUME RevocationSane
    PROVE  Rev!Spec => []RevocationInv
<1>1. Rev!Init => RevocationInv BY ZenonT(30), RevocationStarts
<1>2. RevocationInv /\ [Rev!Next]_(Rev!vars) => RevocationInv' BY ZenonT(30), RevocationStep
<1> QED BY <1>1, <1>2, PTL DEF Rev!Spec

\* A denial that revoke_token or revoke_actor acknowledged is in force on the leader
\* whenever it is up, whatever failed or was lost before, and on a replica once a
\* refresh has found it, until it expires or a restore is asked for.
THEOREM DenialsAlwaysHold ==
    ASSUME RevocationSane
    PROVE  Rev!Spec => []Rev!DenialsHold
<1>1. RevocationInv => Rev!DenialsHold
  <2> SUFFICES ASSUME RevocationInv PROVE Rev!DenialsHold OBVIOUS
  <2>1. must \subseteq Denials /\ owed \subseteq Denials BY ZenonT(30) DEF RevocationInv, RevocationTypes
  <2>2. /\ proc = "up" => \A m \in must : Held(list, m)
        /\ \A m \in owed : Held(replica, m)
    BY ZenonT(30) DEF RevocationInv, DenialInv, LeaderHolds, ReplicaHolds
  <2>3. \A l : \A m \in Denials : Held(l, m) => Rev!InForce(l, m) BY ZenonT(30), HeldInForce
  <2> QED BY ZenonT(30), <2>1, <2>2, <2>3 DEF Rev!DenialsHold
<1> QED BY <1>1, RevocationSafe, PTL

\* As long as no append failed and no power loss cut the journal, the load of
\* load_revocations_from_root succeeds: expiry, capacity, restores, and a
\* checkpoint at any point never make it refuse a line.
THEOREM RevocationsAlwaysLoad ==
    ASSUME RevocationSane
    PROVE  Rev!Spec => []Rev!RevocationsLoad
<1>1. RevocationInv => Rev!RevocationsLoad
  <2> SUFFICES ASSUME RevocationInv, ~strained PROVE Rev!Loadable(snap)
    BY ZenonT(30) DEF Rev!RevocationsLoad
  <2>1. now \in Nat /\ lines \in Seq(Lines) /\ snap \in disk /\ snap \in Snaps
    BY ZenonT(30) DEF RevocationInv, RevocationTypes
  <2>2. /\ tail = "whole" /\ \A i \in 1 .. Len(lines) : lines[i] \in Rev!Events /\ Fits(lines, i)
        /\ snap.mark <= Len(lines) /\ Standing(lines, snap.state, snap.mark)
    BY ZenonT(30), <2>1 DEF RevocationInv, LoadInv
  <2> QED BY ZenonT(30), <2>1, <2>2, LoadsStanding
<1> QED BY <1>1, RevocationSafe, PTL
=============================================================================
