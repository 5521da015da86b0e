-------------------------- MODULE StateStore_proofs --------------------------
(***************************************************************************)
(* Proofs about StateStore, for any set of values, any bounds and any      *)
(* faults: type correctness, that no reference dangles, that a quiet       *)
(* appliance has nothing to lose, and that the store implements            *)
(* DurableState when neither the row nor the install key can become        *)
(* unreadable.                                                             *)
(***************************************************************************)
EXTENDS StateStore, TLAPS

\* A snapshot is added to the list: its references join those of the others.
LEMMA AppendSnapshot ==
  ASSUME NEW D, NEW s \in Seq(SUBSET D), NEW v \in SUBSET D
  PROVE  /\ Append(s, v) \in Seq(SUBSET D)
         /\ Len(Append(s, v)) = Len(s) + 1
         /\ Contents(Append(s, v)) = Contents(s) \cup v
<1> DEFINE t == Append(s, v)
<1>1. /\ t \in Seq(SUBSET D) /\ Len(t) = Len(s) + 1 /\ DOMAIN t = 1 .. Len(s) + 1
      /\ DOMAIN s = 1 .. Len(s) /\ Len(s) \in Nat
      /\ t[Len(s) + 1] = v /\ \A i \in 1 .. Len(s) : t[i] = s[i]
  OBVIOUS
<1>2. ASSUME NEW x PROVE (\E i \in DOMAIN t : x \in t[i]) <=> (x \in v \/ \E i \in DOMAIN s : x \in s[i])
  <2>1. Len(s) + 1 \in DOMAIN t /\ \A i \in DOMAIN s : i \in DOMAIN t
    BY <1>1
  <2>2. \A i \in DOMAIN t : i \in DOMAIN s \/ i = Len(s) + 1
    BY <1>1
  <2> QED BY <1>1, <2>1, <2>2
<1> QED BY <1>1, <1>2 DEF Contents
-----------------------------------------------------------------------------

\* Snapshots refer to files.
LEMMA SnapshotElements ==
  ASSUME TypeOK PROVE InSnapshots \subseteq Digest /\ \A i \in DOMAIN snaps : snaps[i] \subseteq Digest
<1>1. \A i \in DOMAIN snaps : snaps[i] \in SUBSET Digest
  BY DEF TypeOK
<1> QED BY <1>1 DEF InSnapshots, Contents

\* The types hold at first.
LEMMA InitType == Init => TypeOK
<1> SUFFICES ASSUME Init PROVE TypeOK
  OBVIOUS
<1>1. snaps \in Seq(SUBSET Digest) /\ Len(snaps) = 0
  BY DEF Init
<1>2. file \in [Digest -> {"absent", "torn", "whole"}]
  BY DEF Init
<1>3. cleared \in BOOLEAN /\ dirty \in BOOLEAN /\ leaky \in BOOLEAN /\ strays \in BOOLEAN
  BY DEF Init
<1> QED BY <1>1, <1>2, <1>3, BoundsAssumption DEF Init, TypeOK

\* Every step keeps the types.
LEMMA NextType == TypeOK /\ [Next]_vars => TypeOK'
<1> SUFFICES ASSUME TypeOK, [Next]_vars PROVE TypeOK'
  OBVIOUS
<1> USE BoundsAssumption DEF TypeOK, disk, memory, op, encoder, restoring, Whole
<1>1. CASE Mutate BY <1>1 DEF Mutate
<1>2. CASE Restore
  <2>1. CASE RestoreRead
    <3>1. restored' \in SUBSET Digest
      BY <2>1, SnapshotElements DEF RestoreRead
    <3> QED BY <2>1, <3>1 DEF RestoreRead
  <2>2. CASE RestoreClear
    <3>1. cleared' \in BOOLEAN
      BY <2>2 DEF RestoreClear
    <3> QED BY <2>2, <3>1 DEF RestoreClear
  <2>3. CASE RestoreUpdate
    <3>1. cleared' \in BOOLEAN
      BY <2>3 DEF RestoreUpdate
    <3>2. state' \in SUBSET Digest /\ waiting' \in 0..MaxHandlers
      BY <2>3 DEF RestoreUpdate
    <3> QED BY <2>3, <3>1, <3>2 DEF RestoreUpdate
  <2> QED BY <1>2, <2>1, <2>2, <2>3 DEF Restore
<1>3. CASE BeginSave BY <1>3 DEF BeginSave
<1>4. CASE CommitSave
  <2>1. sig' \in 0..MaxKeys /\ memKey' \in 0..MaxKeys
    BY <1>4 DEF CommitSave
  <2>2. keyFile' \in 0..MaxKeys /\ keysMade' \in 0..MaxKeys
    BY <1>4 DEF CommitSave, getOrCreateInstallKey
  <2>3. todo' \in SUBSET Digest
    BY <1>4 DEF CommitSave, sweepCandidates
  <2> QED BY <1>4, <2>1, <2>2, <2>3 DEF CommitSave
<1>5. CASE BeginSnapshot BY <1>5 DEF BeginSnapshot
<1>6. CASE CommitSnapshot
  <2>1. snaps' \in Seq(SUBSET Digest) /\ Len(snaps') = Len(snaps) + 1
    BY <1>6, AppendSnapshot DEF CommitSnapshot
  <2> QED BY <1>6, <2>1 DEF CommitSnapshot
<1>7. CASE Encode BY <1>7 DEF Encode, RefBlob, WriteTmp, ReplaceTmp, EncodeDone
<1>8. CASE OpFails
  <2>1. dirty' \in BOOLEAN /\ leaky' \in BOOLEAN /\ strays' \in BOOLEAN
    BY <1>8 DEF OpFails
  <2>2. keyFile' \in 0..MaxKeys /\ keysMade' \in 0..MaxKeys /\ memKey' \in 0..MaxKeys
    BY <1>8 DEF OpFails, getOrCreateInstallKey
  <2> QED BY <1>8, <2>1, <2>2 DEF OpFails
<1>9. CASE Sweep
  <2>1. CASE KeepOne BY <2>1 DEF KeepOne
  <2>2. CASE UnlinkOne
    <3>1. file' \in [Digest -> {"absent", "torn", "whole"}] /\ todo' \in SUBSET Digest
      BY <2>2 DEF UnlinkOne
    <3>2. leaky' \in BOOLEAN
      BY <2>2 DEF UnlinkOne
    <3> QED BY <2>2, <3>1, <3>2 DEF UnlinkOne
  <2>3. CASE SweepDone BY <2>3 DEF SweepDone
  <2>4. CASE SweepFails
    <3>1. leaky' \in BOOLEAN
      BY <2>4 DEF SweepFails
    <3> QED BY <2>4, <3>1 DEF SweepFails
  <2> QED BY <1>9, <2>1, <2>2, <2>3, <2>4 DEF Sweep
<1>10. CASE Crash
  <2>1. cleared' \in BOOLEAN /\ dirty' \in BOOLEAN /\ leaky' \in BOOLEAN /\ strays' \in BOOLEAN
    BY <1>10 DEF Crash
  <2>2. keyFile' \in 0..MaxKeys /\ keysMade' \in 0..MaxKeys
    BY <1>10 DEF Crash, getOrCreateInstallKey
  <2> QED BY <1>10, <2>1, <2>2 DEF Crash
<1>11. CASE Boot BY <1>11 DEF Boot, LoadVerified, LoadDefault, getOrCreateInstallKey
<1>12. CASE UNCHANGED vars BY <1>12 DEF vars
<1> QED
  BY <1>1, <1>2, <1>3, <1>4, <1>5, <1>6, <1>7, <1>8, <1>9, <1>10, <1>11, <1>12
  DEF Next, Save

\* Every variable keeps its type: `tmp' aside, what the code's annotations say.
THEOREM TypeCorrect == Spec => []TypeOK
<1> QED BY InitType, NextType, PTL DEF Spec

-----------------------------------------------------------------------------
(* No reference dangles.                                                   *)

\* What makes NoDangling inductive: a half written file never has a final name,
\* the references collected so far are to whole files, and what a sweep may
\* still delete is not what the row it follows refers to.
BlobsInv ==
  /\ \A d \in Digest : file[d] # "torn"
  /\ NoDangling
  /\ pc \in {"encode", "commit"} => refs \subseteq Whole
  /\ pc = "gc" => todo \cap Committed = {}

\* No reference dangles before anything is stored.
LEMMA InitBlobs == Init => BlobsInv
<1> SUFFICES ASSUME Init PROVE BlobsInv
  OBVIOUS
<1>1. Committed = {} /\ InSnapshots = {}
  BY DEF Init, Committed, InSnapshots, Contents
<1> QED BY <1>1 DEF Init, BlobsInv, NoDangling

\* Every step keeps the references whole.
LEMMA NextBlobs == TypeOK /\ BlobsInv /\ [Next]_vars => BlobsInv'
<1> SUFFICES ASSUME TypeOK, BlobsInv, [Next]_vars PROVE BlobsInv'
  OBVIOUS
<1> USE DEF BlobsInv, NoDangling, disk, memory, op, encoder, restoring
<1>a. ASSUME UNCHANGED <<file, db, snaps>>
      PROVE  UNCHANGED <<Whole, Committed, InSnapshots>>
  BY <1>a DEF Whole, Committed, InSnapshots
<1>1. CASE Mutate BY <1>1, <1>a DEF Mutate
<1>2. CASE Restore
  BY <1>2, <1>a DEF Restore, RestoreRead, RestoreClear, RestoreUpdate
<1>3. CASE BeginSave BY <1>3, <1>a DEF BeginSave
<1>4. CASE CommitSave
  <2>1. file' = file /\ snaps' = snaps /\ db' = refs /\ refs \subseteq Whole /\ pc' = "gc"
        /\ todo' = sweepCandidates \ refs
    BY <1>4 DEF CommitSave
  <2>2. Committed' = refs
    BY <2>1, NoStateAssumption DEF Committed, TypeOK
  <2>3. Whole' = Whole /\ InSnapshots' = InSnapshots
    BY <2>1 DEF Whole, InSnapshots
  <2> QED BY <2>1, <2>2, <2>3
<1>5. CASE BeginSnapshot BY <1>5, <1>a DEF BeginSnapshot
<1>6. CASE CommitSnapshot
  <2>1. snaps' = Append(snaps, refs) /\ refs \subseteq Whole /\ pc' = "idle"
        /\ UNCHANGED <<file, db>>
    BY <1>6 DEF CommitSnapshot
  <2>a. snaps \in Seq(SUBSET Digest) /\ refs \in SUBSET Digest
    BY DEF TypeOK
  <2>2. InSnapshots' = InSnapshots \cup refs
    BY <2>1, <2>a, AppendSnapshot DEF InSnapshots
  <2>3. Whole' = Whole /\ Committed' = Committed
    BY <2>1 DEF Whole, Committed
  <2> QED BY <2>1, <2>2, <2>3
<1>7. CASE Encode
  <2>1. CASE RefBlob
    <3>1. \A d \in Digest : file[d] # "absent" => d \in Whole
      BY DEF TypeOK, Whole
    <3> QED BY <2>1, <3>1, <1>a DEF RefBlob, TypeOK
  <2>2. CASE WriteTmp BY <2>2, <1>a DEF WriteTmp
  <2>3. CASE ReplaceTmp
    <3>1. PICK d \in tmp : file' = [file EXCEPT ![d] = "whole"] /\ refs' = refs \cup {d}
      BY <2>3 DEF ReplaceTmp
    <3>2. Whole' = Whole \cup {d}
      BY <3>1 DEF Whole, TypeOK
    <3>3. UNCHANGED <<Committed, InSnapshots, pc>> /\ pc = "encode"
      BY <2>3 DEF ReplaceTmp, Committed, InSnapshots
    <3>4. \A e \in Digest : file'[e] # "torn"
      BY <3>1 DEF TypeOK
    <3> QED BY <3>1, <3>2, <3>3, <3>4
  <2>4. CASE EncodeDone BY <2>4, <1>a DEF EncodeDone
  <2> QED BY <1>7, <2>1, <2>2, <2>3, <2>4 DEF Encode
<1>8. CASE OpFails BY <1>8, <1>a DEF OpFails
<1>9. CASE Sweep
  <2>1. CASE KeepOne BY <2>1, <1>a DEF KeepOne
  <2>2. CASE UnlinkOne
    <3>1. PICK d \in todo :
            /\ d \notin InSnapshots
            /\ todo' = todo \ {d}
            /\ file' \in {file, [file EXCEPT ![d] = "absent"]}
      BY <2>2 DEF UnlinkOne
    <3>2. pc' = "gc" /\ pc = "gc" /\ UNCHANGED <<Committed, InSnapshots>>
      BY <2>2 DEF UnlinkOne, Committed, InSnapshots
    <3>3. d \notin Committed
      BY <3>1, <3>2
    <3>4. Whole \ {d} \subseteq Whole'
      BY <3>1 DEF Whole, TypeOK
    <3>5. \A e \in Digest : file'[e] # "torn"
      BY <3>1 DEF TypeOK
    <3> QED BY <3>1, <3>2, <3>3, <3>4, <3>5
  <2>3. CASE SweepDone BY <2>3, <1>a DEF SweepDone
  <2>4. CASE SweepFails BY <2>4, <1>a DEF SweepFails
  <2> QED BY <1>9, <2>1, <2>2, <2>3, <2>4 DEF Sweep
<1>10. CASE Crash BY <1>10, <1>a DEF Crash
<1>11. CASE Boot
  <2>1. CASE LoadVerified BY <2>1, <1>a DEF LoadVerified
  <2>2. CASE LoadDefault
    <3>1. UNCHANGED <<file, db, snaps>>
      BY <2>2 DEF LoadDefault
    <3> QED BY <2>2, <3>1, <1>a DEF LoadDefault
  <2> QED BY <1>11, <2>1, <2>2 DEF Boot
<1>12. CASE UNCHANGED vars BY <1>12, <1>a DEF vars
<1> QED
  BY <1>1, <1>2, <1>3, <1>4, <1>5, <1>6, <1>7, <1>8, <1>9, <1>10, <1>11, <1>12
  DEF Next, Save

\* Whatever is saved, snapshotted, deleted, interrupted or failing, the files
\* the committed state and every snapshot refer to are there and whole.
THEOREM NothingDangles == Spec => []NoDangling
<1>1. BlobsInv => NoDangling
  BY DEF BlobsInv
<1> QED BY <1>1, InitBlobs, NextBlobs, TypeCorrect, PTL DEF Spec

-----------------------------------------------------------------------------
(* A quiet appliance has nothing to lose.                                  *)

\* What makes SavedWhenQuiet inductive: while nobody else has changed the state,
\* the text being saved holds no more than the state, and all of it at the end.
QuietInv ==
  /\ SavedWhenQuiet
  /\ pc = "down" => refs = {} /\ tmp = {} /\ state = {} /\ restored = NoState
  /\ pc # "encode" => tmp = {}
  /\ waiting = 0 /\ ~cleared =>
       /\ pc = "encode" /\ job # "snapshot" => refs \cup tmp \subseteq state /\ steady = state
       /\ pc = "commit" /\ job # "snapshot" => refs = state
       /\ pc \in {"encode", "commit"} /\ job = "snapshot" /\ ~dirty => Committed = state
       /\ pc = "gc" => Committed = state

\* The row says what the live state is at first.
LEMMA InitQuiet == Init => QuietInv
BY DEF Init, QuietInv, SavedWhenQuiet

\* Every step keeps the agreement of row and live state.
LEMMA NextQuiet == TypeOK /\ BlobsInv /\ QuietInv /\ [Next]_vars => QuietInv'
<1> SUFFICES ASSUME TypeOK, BlobsInv, QuietInv, [Next]_vars PROVE QuietInv'
  OBVIOUS
<1> USE DEF QuietInv, SavedWhenQuiet, Committed, TypeOK, disk, memory, op, encoder, restoring
<1>1. CASE Mutate BY <1>1 DEF Mutate, serving, running
<1>2. CASE Restore
  <2>1. CASE RestoreRead BY <2>1 DEF RestoreRead
  <2>2. CASE RestoreClear BY <2>2 DEF RestoreClear, serving, running
  <2>3. CASE RestoreUpdate
    <3>1. waiting' # 0 /\ UNCHANGED <<pc, refs, tmp>> /\ pc # "down"
      BY <2>3 DEF RestoreUpdate
    <3> QED BY <3>1
  <2> QED BY <1>2, <2>1, <2>2, <2>3 DEF Restore
<1>3. CASE BeginSave BY <1>3 DEF BeginSave
<1>4. CASE CommitSave BY <1>4, NoStateAssumption DEF CommitSave
<1>5. CASE BeginSnapshot BY <1>5 DEF BeginSnapshot
<1>6. CASE CommitSnapshot BY <1>6 DEF CommitSnapshot
<1>7. CASE Encode
  <2>1. CASE RefBlob BY <2>1 DEF RefBlob
  <2>2. CASE WriteTmp BY <2>2 DEF WriteTmp
  <2>3. CASE ReplaceTmp BY <2>3 DEF ReplaceTmp
  <2>4. CASE EncodeDone BY <2>4 DEF EncodeDone
  <2> QED BY <1>7, <2>1, <2>2, <2>3, <2>4 DEF Encode
<1>8. CASE OpFails BY <1>8 DEF OpFails
<1>9. CASE Sweep BY <1>9 DEF Sweep, KeepOne, UnlinkOne, SweepDone, SweepFails
<1>10. CASE Crash BY <1>10 DEF Crash
<1>11. CASE Boot
  <2>1. CASE LoadVerified
    <3>1. state' = db
      BY <2>1 DEF LoadVerified, BlobsInv, NoDangling
    <3> QED BY <2>1, <3>1 DEF LoadVerified
  <2>2. CASE LoadDefault BY <2>2 DEF LoadDefault
  <2> QED BY <1>11, <2>1, <2>2 DEF Boot
<1>12. CASE UNCHANGED vars BY <1>12 DEF vars
<1> QED
  BY <1>1, <1>2, <1>3, <1>4, <1>5, <1>6, <1>7, <1>8, <1>9, <1>10, <1>11, <1>12
  DEF Next, Save

\* Once every handler has returned and no save failed, the committed row is the
\* live state: persist() on every path of the kernel leaves nothing behind.
THEOREM QuietIsSaved == Spec => []SavedWhenQuiet
<1>1. QuietInv => SavedWhenQuiet
  BY DEF QuietInv
<1> QED
  BY <1>1, InitBlobs, NextBlobs, InitQuiet, NextQuiet, TypeCorrect, PTL DEF Spec

-----------------------------------------------------------------------------
(* No file is left that nobody refers to.                                  *)

\* What makes NoOrphans inductive: unless something broke, _blob_refs and the
\* snapshots account for every file between two operations; during one the
\* values it has met do, and while it sweeps the candidates not looked at yet.
TrackedInv ==
  /\ pc = "down" => blobRefs = Unswept
  /\ ~leaky =>
       /\ pc = "idle" /\ blobRefs # Unswept =>
            Whole \subseteq InSnapshots \cup (Committed \cap blobRefs)
       /\ pc \in {"encode", "commit"} /\ blobRefs # Unswept =>
            Whole \subseteq InSnapshots \cup refs \cup (Committed \cap blobRefs)
       /\ pc = "gc" =>
            /\ Whole \subseteq InSnapshots \cup refs \cup todo
            /\ refs \subseteq Committed \cup InSnapshots

\* Every step keeps the account of all files.
LEMMA NextTracked == TypeOK /\ TrackedInv /\ [Next]_vars => TrackedInv'
<1> SUFFICES ASSUME TypeOK, TrackedInv, [Next]_vars PROVE TrackedInv'
  OBVIOUS
<1> USE DEF TrackedInv, disk, memory, op, encoder, restoring
<1>a. ASSUME UNCHANGED <<file, db, snaps>>
      PROVE  UNCHANGED <<Whole, Committed, InSnapshots>>
  BY <1>a DEF Whole, Committed, InSnapshots
<1>1. CASE Mutate BY <1>1, <1>a DEF Mutate
<1>2. CASE Restore
  BY <1>2, <1>a DEF Restore, RestoreRead, RestoreClear, RestoreUpdate
<1>3. CASE BeginSave BY <1>3, <1>a DEF BeginSave
<1>4. CASE CommitSave
  <2>1. file' = file /\ snaps' = snaps /\ db' = refs /\ refs \subseteq Digest /\ pc' = "gc"
        /\ pc = "commit" /\ UNCHANGED <<leaky, refs, blobRefs>> /\ todo' = sweepCandidates \ refs
    BY <1>4 DEF CommitSave, TypeOK
  <2>2. Committed' = refs
    BY <2>1, NoStateAssumption DEF Committed
  <2>3. Whole' = Whole /\ InSnapshots' = InSnapshots
    BY <2>1 DEF Whole, InSnapshots
  <2>4. CASE blobRefs = Unswept
    <3>1. todo' = Whole \ refs
      BY <2>1, <2>4 DEF sweepCandidates
    <3> QED BY <2>1, <2>2, <2>3, <3>1
  <2>5. CASE blobRefs # Unswept
    <3>1. todo' = blobRefs \ refs
      BY <2>1, <2>5 DEF sweepCandidates
    <3>2. ~leaky => Whole \subseteq InSnapshots \cup refs \cup (Committed \cap blobRefs)
      BY <2>1, <2>5
    <3> QED BY <2>1, <2>2, <2>3, <3>1, <3>2
  <2> QED BY <2>4, <2>5
<1>5. CASE BeginSnapshot BY <1>5, <1>a DEF BeginSnapshot
<1>6. CASE CommitSnapshot
  <2>1. snaps' = Append(snaps, refs) /\ refs \subseteq Digest /\ pc = "commit" /\ pc' = "idle"
        /\ UNCHANGED <<file, db, leaky, blobRefs>>
    BY <1>6 DEF CommitSnapshot, TypeOK
  <2>a. snaps \in Seq(SUBSET Digest) /\ refs \in SUBSET Digest
    BY DEF TypeOK
  <2>2. InSnapshots' = InSnapshots \cup refs
    BY <2>1, <2>a, AppendSnapshot DEF InSnapshots
  <2>3. Whole' = Whole /\ Committed' = Committed
    BY <2>1 DEF Whole, Committed
  <2> QED BY <2>1, <2>2, <2>3
<1>7. CASE Encode
  <2>1. CASE RefBlob BY <2>1, <1>a DEF RefBlob
  <2>2. CASE WriteTmp BY <2>2, <1>a DEF WriteTmp
  <2>3. CASE ReplaceTmp
    <3>1. PICK d \in tmp : file' = [file EXCEPT ![d] = "whole"] /\ refs' = refs \cup {d}
      BY <2>3 DEF ReplaceTmp
    <3>2. Whole' = Whole \cup {d}
      BY <3>1 DEF Whole, TypeOK
    <3>3. UNCHANGED <<Committed, InSnapshots, pc, leaky, blobRefs>> /\ pc = "encode"
      BY <2>3 DEF ReplaceTmp, Committed, InSnapshots
    <3> QED BY <3>1, <3>2, <3>3
  <2>4. CASE EncodeDone BY <2>4, <1>a DEF EncodeDone
  <2> QED BY <1>7, <2>1, <2>2, <2>3, <2>4 DEF Encode
<1>8. CASE OpFails
  <2>1. pc' = "idle" /\ UNCHANGED <<file, db, snaps, blobRefs>>
    BY <1>8 DEF OpFails
  <2>2. ~leaky' => blobRefs = Unswept
    BY <1>8 DEF OpFails
  <2> QED BY <2>1, <2>2
<1>9. CASE Sweep
  <2>1. CASE KeepOne BY <2>1, <1>a DEF KeepOne
  <2>2. CASE UnlinkOne
    <3>1. pc = "gc" /\ pc' = "gc" /\ UNCHANGED <<Committed, InSnapshots, refs>>
      BY <2>2 DEF UnlinkOne, Committed, InSnapshots
    <3>2. CASE leaky' = TRUE BY <3>1, <3>2
    <3>3. CASE leaky' # TRUE
      <4>1. leaky' = leaky
        BY <2>2, <3>3 DEF UnlinkOne
      <4>2. PICK d \in todo :
              todo' = todo \ {d} /\ file' = [file EXCEPT ![d] = "absent"]
        BY <2>2, <3>3 DEF UnlinkOne
      <4>3. Whole' = Whole \ {d}
        BY <4>2 DEF Whole, TypeOK
      <4> QED BY <3>1, <4>1, <4>2, <4>3
    <3> QED BY <3>2, <3>3
  <2>3. CASE SweepDone BY <2>3, <1>a DEF SweepDone
  <2>4. CASE SweepFails
    <3>1. pc' = "idle" /\ UNCHANGED <<file, db, snaps, blobRefs>>
      BY <2>4 DEF SweepFails
    <3>2. ~leaky' => blobRefs = Unswept
      BY <2>4 DEF SweepFails
    <3> QED BY <3>1, <3>2
  <2> QED BY <1>9, <2>1, <2>2, <2>3, <2>4 DEF Sweep
<1>10. CASE Crash BY <1>10, <1>a DEF Crash
<1>11. CASE Boot BY <1>11, <1>a DEF Boot, LoadVerified, LoadDefault
<1>12. CASE UNCHANGED vars BY <1>12, <1>a DEF vars
<1> QED
  BY <1>1, <1>2, <1>3, <1>4, <1>5, <1>6, <1>7, <1>8, <1>9, <1>10, <1>11, <1>12
  DEF Next, Save

\* The sweep that follows a save takes every value's file that the save, and the
\* saves, failures and crashes before it, made superfluous: once a process has
\* swept, and as long as no call fails, values nobody refers to do not pile up.
\* (A .tmp file is not a value's file; see DirectoryIsSwept.)
THEOREM OrphansAreSwept == Spec => []NoOrphans
<1>1. Init => TrackedInv
  BY DEF Init, TrackedInv
<1>2. TrackedInv => NoOrphans
  BY DEF TrackedInv, NoOrphans
<1> QED BY <1>1, <1>2, NextTracked, TypeCorrect, PTL DEF Spec

-----------------------------------------------------------------------------
(* The store implements the durable cell.                                  *)

Legible == "read" \notin Faults /\ "key" \notin Faults

\* With no key fault every signature is by the one key on disk.
KeysInv ==
  /\ db # NoState => sig # 0 /\ keyFile = sig
  /\ memKey # 0 => keyFile = memKey

\* Every step keeps the signatures good if key and row can be read.
LEMMA NextKeys ==
  ASSUME Legible PROVE TypeOK /\ KeysInv /\ [Next]_vars => KeysInv'
<1> SUFFICES ASSUME TypeOK, KeysInv, [Next]_vars PROVE KeysInv'
  OBVIOUS
<1> USE DEF KeysInv, TypeOK, Legible, disk, memory, op, encoder, restoring
<1>1. CASE CommitSave
  BY <1>1, NoStateAssumption, BoundsAssumption DEF CommitSave, getOrCreateInstallKey
<1>2. CASE Boot
  BY <1>2, BoundsAssumption DEF Boot, LoadVerified, LoadDefault, getOrCreateInstallKey
<1>3. CASE Crash
  BY <1>3, BoundsAssumption DEF Crash, getOrCreateInstallKey
<1>4. CASE UNCHANGED <<db, sig, keyFile, memKey>> BY <1>4
<1>5. CASE OpFails
  BY <1>5, BoundsAssumption DEF OpFails, getOrCreateInstallKey
<1> QED
  BY <1>1, <1>2, <1>3, <1>4, <1>5
  DEF Next, Save, Restore, Encode, Sweep, Mutate, RestoreRead, RestoreClear, RestoreUpdate,
      BeginSave, BeginSnapshot, CommitSnapshot, RefBlob, WriteTmp, ReplaceTmp, EncodeDone,
      KeepOne, UnlinkOne, SweepDone, SweepFails, vars

\* Every step is one of the durable cell, or none.
LEMMA StepImplements ==
  ASSUME Legible, TypeOK, BlobsInv, QuietInv, KeysInv, [Next]_vars
  PROVE  [Durable!AbsNext]_(Durable!absvars)
<1> USE DEF Durable!AbsNext, Durable!absvars, running, serving, disk, memory, op, encoder, restoring
<1>1. CASE Mutate BY <1>1 DEF Mutate, Durable!Change, TypeOK
<1>2. CASE Restore
  <2>1. CASE RestoreRead BY <2>1 DEF RestoreRead
  <2>2. CASE RestoreClear BY <2>2 DEF RestoreClear, Durable!Change
  <2>3. CASE RestoreUpdate
    <3>1. pc # "down" /\ state' \in SUBSET Digest
      BY <2>3 DEF RestoreUpdate, QuietInv, TypeOK
    <3> QED BY <2>3, <3>1 DEF RestoreUpdate, Durable!Change
  <2> QED BY <1>2, <2>1, <2>2, <2>3 DEF Restore
<1>3. CASE BeginSave BY <1>3 DEF BeginSave
<1>4. CASE CommitSave
  BY <1>4, NoStateAssumption DEF CommitSave, Durable!Persist, TypeOK
<1>5. CASE BeginSnapshot BY <1>5 DEF BeginSnapshot
<1>6. CASE CommitSnapshot BY <1>6 DEF CommitSnapshot, Durable!TakeSnapshot, TypeOK
<1>7. CASE Encode BY <1>7 DEF Encode, RefBlob, WriteTmp, ReplaceTmp, EncodeDone
<1>8. CASE OpFails BY <1>8 DEF OpFails
<1>9. CASE Sweep BY <1>9 DEF Sweep, KeepOne, UnlinkOne, SweepDone, SweepFails
<1>10. CASE Crash BY <1>10 DEF Crash, Durable!Crash
<1>11. CASE Boot
  <2>1. CASE LoadVerified
    <3>1. state' = db
      BY <2>1 DEF LoadVerified, BlobsInv, NoDangling, Committed, TypeOK
    <3> QED BY <2>1, <3>1 DEF LoadVerified, Durable!Restart
  <2>2. CASE LoadDefault
    <3>1. db = NoState
      BY <2>2, BoundsAssumption DEF LoadDefault, Legible, KeysInv, getOrCreateInstallKey, TypeOK
    <3> QED BY <2>2, <3>1 DEF LoadDefault, Durable!Restart
  <2> QED BY <1>11, <2>1, <2>2 DEF Boot
<1>12. CASE UNCHANGED vars BY <1>12 DEF vars
<1> QED
  BY <1>1, <1>2, <1>3, <1>4, <1>5, <1>6, <1>7, <1>8, <1>9, <1>10, <1>11, <1>12
  DEF Next, Save

\* As long as the row and the install key stay readable, files, signatures,
\* sweeps and crashes are invisible: the store is one durable cell.
THEOREM ImplementsDurableCell ==
  ASSUME Legible PROVE Spec => ActsAsDurableCell
<1>1. Init => Durable!AbsInit
  BY DEF Init, Durable!AbsInit, running
<1>2. Init => KeysInv
  BY DEF Init, KeysInv
<1> QED
  BY <1>1, <1>2, InitBlobs, NextBlobs, InitQuiet, NextQuiet, NextKeys, StepImplements,
     TypeCorrect, PTL DEF Spec, ActsAsDurableCell, Durable!AbsSpec
=============================================================================
