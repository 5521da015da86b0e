----------------------------- MODULE StateStore -----------------------------
(***************************************************************************)
(* SQLiteStateStore and SimulationKernel (core/vyomi_platform.py): the     *)
(* appliance's whole state is one signed JSON row; byte values too large   *)
(* for it live beside the database in files named by their sha256, shared  *)
(* by the state and by every snapshot, and are deleted when nothing refers *)
(* to them any more.                                                       *)
(*                                                                         *)
(* A state is the set of large values it holds (a value and its digest are *)
(* one thing here: the name of the file is a function of its content).     *)
(* The store's lock serialises whole operations, so `pc' is the position   *)
(* of the one operation in progress; handlers of other threads change the  *)
(* live state between any two of its steps, and the process can die there. *)
(***************************************************************************)
EXTENDS Naturals, Sequences

CONSTANTS Digest,         \* sha256 digests of the large values
          NoState,        \* no state row in the database
          Unswept,        \* _blob_refs is None: this process has not saved yet
          MaxSnapshots,   \* bound: snapshots taken
          MaxHandlers,    \* bound: handlers that wait for the lock at once
          MaxKeys,        \* bound: install keys generated
          Faults          \* which calls may raise: see FaultKinds

\* encode: json/disk error while encoding; commit: sqlite error; unlink: OSError
\* of one unlink; sweep: sqlite error inside _gc_blobs; read: any exception while
\* loading; key: the install key file cannot be written, or not be read again.
FaultKinds == {"encode", "commit", "unlink", "sweep", "read", "key"}

ASSUME NoStateAssumption == \A s \in SUBSET Digest : NoState # s
ASSUME UnsweptAssumption == \A s \in SUBSET Digest : Unswept # s
ASSUME BoundsAssumption == MaxSnapshots \in Nat /\ MaxHandlers \in Nat /\ MaxKeys \in Nat
ASSUME FaultsAssumption == Faults \subseteq FaultKinds

VARIABLES
  file,       \* blob_dir: what stands under each digest's name
  db,         \* the committed metadata: the state row's references, NoState if none
  sig,        \* the key the committed row was signed with, 0 before the first save
  snaps,      \* the snapshots table: the references of each row
  keyFile,    \* the install key on disk, 0 if none
  keysMade,   \* install keys generated so far
  strays,     \* an interrupted write left a .tmp file in blob_dir
  state,      \* the kernel's live state
  blobRefs,   \* _blob_refs
  memKey,     \* state_integrity._cached_key, 0 if none
  restored,   \* kernel.restore_snapshot: the payload read and not yet applied, NoState if none
  cleared,    \* ... and state.clear() has run, state.update(payload) has not
  waiting,    \* handlers that changed the state and have not yet saved it
  dirty,      \* a save failed since the last one that succeeded
  leaky,      \* a file may be untracked until the next process sweeps everything
  pc, job,    \* the operation that holds the lock and what it is for
  refs,       \* the digests the text being encoded refers to
  steady,     \* the values that have been in the live state ever since encoding began
  tmp,        \* the digest whose .tmp file is being written, as a set of at most one
  todo        \* candidates the sweep has not looked at yet

restoring == <<restored, cleared>>
disk == <<file, db, sig, snaps, keyFile, keysMade, strays>>
memory == <<state, blobRefs, memKey, waiting, dirty, restoring>>
op == <<pc, job, refs, tmp, todo>>
encoder == <<op, steady>>
vars == <<disk, memory, encoder, leaky>>

Whole == {d \in Digest : file[d] = "whole"}
Contents(rows) == UNION {rows[i] : i \in DOMAIN rows}
InSnapshots == Contents(snaps)
Committed == IF db = NoState THEN {} ELSE db
running == pc # "down"
serving == running /\ (job = "boot" => pc = "idle")     \* the kernel is constructed

TypeOK ==
  /\ file \in [Digest -> {"absent", "torn", "whole"}]
  /\ db \in {NoState} \cup SUBSET Digest
  /\ sig \in 0..MaxKeys /\ keyFile \in 0..MaxKeys
  /\ memKey \in 0..MaxKeys /\ keysMade \in 0..MaxKeys
  /\ snaps \in Seq(SUBSET Digest)
  /\ state \in SUBSET Digest
  /\ restored \in {NoState} \cup SUBSET Digest /\ cleared \in BOOLEAN
  /\ blobRefs \in {Unswept} \cup SUBSET Digest
  /\ waiting \in 0..MaxHandlers
  /\ dirty \in BOOLEAN /\ leaky \in BOOLEAN
  /\ pc \in {"down", "idle", "encode", "commit", "gc"}
  /\ job \in {"boot", "save", "snapshot"}
  /\ refs \in SUBSET Digest /\ steady \in SUBSET Digest
  /\ tmp \in SUBSET Digest /\ todo \in SUBSET Digest /\ strays \in BOOLEAN

Init ==
  /\ file = [d \in Digest |-> "absent"] /\ strays = FALSE
  /\ db = NoState /\ sig = 0 /\ snaps = <<>>
  /\ keyFile = 0 /\ keysMade = 0 /\ memKey = 0
  /\ state = {} /\ blobRefs = Unswept /\ restored = NoState /\ cleared = FALSE
  /\ waiting = 0 /\ dirty = FALSE /\ leaky = FALSE
  /\ pc = "down" /\ job = "boot" /\ refs = {} /\ steady = {} /\ tmp = {} /\ todo = {}

-----------------------------------------------------------------------------
(* The install key: cached, else read from its file; if there is none, or it *)
(* cannot be read or is short, another is generated and written; a failed    *)
(* write leaves the key in memory only.                                      *)

\* Mutant of getOrCreateInstallKey: the key file is never read back.
FreshKeyEachBoot(k) ==
  \/ memKey # 0 /\ k = memKey /\ UNCHANGED <<keyFile, keysMade>>
  \/ memKey = 0 /\ keysMade < MaxKeys /\ k = keysMade + 1 /\ keysMade' = k /\ keyFile' = k

getOrCreateInstallKey(k) ==
  \/ /\ memKey # 0 /\ k = memKey
     /\ UNCHANGED <<keyFile, keysMade>>
  \/ /\ memKey = 0 /\ keyFile # 0 /\ k = keyFile
     /\ UNCHANGED <<keyFile, keysMade>>
  \/ /\ memKey = 0
     /\ keyFile = 0 \/ "key" \in Faults
     /\ keysMade < MaxKeys /\ k = keysMade + 1
     /\ keysMade' = k
     /\ \/ keyFile' = k
        \/ "key" \in Faults /\ UNCHANGED keyFile

-----------------------------------------------------------------------------
(* Kernel operations of the request handlers.                              *)

\* create_resource / update_resource / delete_resource up to their persist():
\* the live dict changes without the lock.
Mutate ==
  /\ serving /\ waiting < MaxHandlers
  /\ \E d \in Digest : state' \in {state \cup {d}, state \ {d}}
  /\ steady' = steady \cap state'
  /\ waiting' = waiting + 1
  /\ UNCHANGED <<disk, blobRefs, memKey, dirty, restoring, op, leaky>>

\* Mutant of BeginSave: a handler may save more often than it changed something.
SaveUncounted ==
  /\ pc = "idle"
  /\ waiting' = waiting - 1
  /\ pc' = "encode" /\ job' = "save" /\ refs' = {} /\ steady' = state
  /\ UNCHANGED <<disk, state, blobRefs, memKey, dirty, restoring, tmp, todo, leaky>>

\* persist(): take the lock and start encoding.
BeginSave ==
  /\ pc = "idle" /\ waiting > 0
  /\ waiting' = waiting - 1
  /\ pc' = "encode" /\ job' = "save" /\ refs' = {} /\ steady' = state
  /\ UNCHANGED <<disk, state, blobRefs, memKey, dirty, restoring, tmp, todo, leaky>>

BeginSnapshot ==
  /\ pc = "idle" /\ Len(snaps) < MaxSnapshots
  /\ pc' = "encode" /\ job' = "snapshot" /\ refs' = {} /\ steady' = state
  /\ UNCHANGED <<disk, memory, tmp, todo, leaky>>

\* kernel.restore_snapshot reads the row and its files under the lock (a missing
\* or altered file is restored as empty bytes) ...
RestoreRead ==
  /\ pc = "idle" /\ restored = NoState
  /\ \E i \in DOMAIN snaps : restored' = snaps[i] \cap Whole
  /\ UNCHANGED <<disk, state, blobRefs, memKey, cleared, waiting, dirty, encoder, leaky>>

\* ... then, without the lock, empties the live dict ...
RestoreClear ==
  /\ serving /\ restored # NoState /\ ~cleared
  /\ state' = {} /\ cleared' = TRUE /\ steady' = {}
  /\ UNCHANGED <<disk, restored, blobRefs, memKey, waiting, dirty, op, leaky>>

\* Mutant of RestoreUpdate: the restored state is not persisted.
RestoreUnsaved ==
  /\ restored # NoState /\ cleared
  /\ state' = state \cup restored
  /\ restored' = NoState /\ cleared' = FALSE
  /\ UNCHANGED <<disk, blobRefs, memKey, waiting, dirty, encoder, leaky>>

\* ... fills it, and calls persist().
RestoreUpdate ==
  /\ restored # NoState /\ cleared /\ waiting < MaxHandlers
  /\ state' = state \cup restored
  /\ restored' = NoState /\ cleared' = FALSE
  /\ waiting' = waiting + 1
  /\ UNCHANGED <<disk, blobRefs, memKey, dirty, encoder, leaky>>

-----------------------------------------------------------------------------
(* Encoding, with put() of _blob_writer for each large value met.           *)

\* A value whose file is already there is only referred to.
RefBlob ==
  /\ pc = "encode" /\ tmp = {}
  /\ \E d \in state \ refs : file[d] # "absent" /\ refs' = refs \cup {d}
  /\ UNCHANGED <<disk, memory, pc, job, tmp, todo, steady, leaky>>

\* A new value is written to a .tmp file of a name of its own first ...
WriteTmp ==
  /\ pc = "encode" /\ tmp = {}
  /\ \E d \in state \ refs : file[d] = "absent" /\ tmp' = {d}
  /\ UNCHANGED <<disk, memory, pc, job, refs, todo, steady, leaky>>

\* ... which os.replace moves to its final name.
ReplaceTmp ==
  /\ pc = "encode"
  /\ \E d \in tmp : file' = [file EXCEPT ![d] = "whole"] /\ refs' = refs \cup {d}
  /\ tmp' = {}
  /\ UNCHANGED <<db, sig, snaps, keyFile, keysMade, strays, memory, pc, job, todo, steady, leaky>>

\* The text is complete: every value that stayed in the live state has been met.
EncodeDone ==
  /\ pc = "encode" /\ tmp = {} /\ steady \subseteq refs
  /\ pc' = "commit"
  /\ UNCHANGED <<disk, memory, job, refs, tmp, todo, steady, leaky>>

\* The encoder or the commit raises: the handler fails, the files written stay,
\* the .tmp file too if it was the write or the replacement that raised.
OpFails ==
  /\ \/ pc = "encode" /\ "encode" \in Faults
     \/ pc = "commit" /\ "commit" \in Faults
  /\ pc' = "idle" /\ tmp' = {} /\ strays' = (strays \/ tmp # {})
  /\ dirty' = (dirty \/ job # "snapshot")
  /\ leaky' = (leaky \/ blobRefs # Unswept)
  /\ \/ UNCHANGED <<keyFile, keysMade, memKey>>
     \/ /\ pc = "commit" /\ job # "snapshot"        \* the text was signed already
        /\ \E k \in 1..MaxKeys : getOrCreateInstallKey(k) /\ memKey' = k
  /\ UNCHANGED <<file, db, sig, snaps, state, blobRefs, waiting, restoring, job, refs, todo, steady>>

-----------------------------------------------------------------------------
(* _write_state_json: row and signature in one transaction, then the sweep. *)

\* Mutant of sweepCandidates: the first save of a process sweeps nothing.
NoFullSweep == IF blobRefs = Unswept THEN {} ELSE blobRefs

sweepCandidates == IF blobRefs = Unswept THEN Whole ELSE blobRefs

CommitSave ==
  /\ pc = "commit" /\ job # "snapshot"
  /\ \E k \in 1..MaxKeys :
       /\ getOrCreateInstallKey(k)
       /\ memKey' = k /\ sig' = k
  /\ db' = refs
  /\ dirty' = FALSE
  /\ todo' = sweepCandidates \ refs
  /\ pc' = "gc"
  /\ UNCHANGED <<file, snaps, strays, state, blobRefs, waiting, restoring, job, refs, tmp, steady, leaky>>

CommitSnapshot ==
  /\ pc = "commit" /\ job = "snapshot"
  /\ snaps' = Append(snaps, refs)
  /\ pc' = "idle"
  /\ UNCHANGED <<file, db, sig, keyFile, keysMade, strays, memory, job, refs, tmp, todo, steady, leaky>>

\* One candidate: a snapshot's text still contains the digest, or the file goes.
KeepOne ==
  /\ pc = "gc"
  /\ \E d \in todo : d \in InSnapshots /\ todo' = todo \ {d} /\ refs' = refs \cup {d}
  /\ UNCHANGED <<disk, memory, pc, job, tmp, steady, leaky>>

\* Mutant of UnlinkOne: the snapshots are not asked.
UnlinkRegardless ==
  /\ pc = "gc"
  /\ \E d \in todo : todo' = todo \ {d} /\ file' = [file EXCEPT ![d] = "absent"]
  /\ UNCHANGED <<db, sig, snaps, keyFile, keysMade, strays, memory, pc, job, refs, tmp, steady, leaky>>

UnlinkOne ==
  /\ pc = "gc"
  /\ \E d \in todo :
       /\ d \notin InSnapshots
       /\ todo' = todo \ {d}
       /\ \/ file' = [file EXCEPT ![d] = "absent"] /\ UNCHANGED leaky
          \/ "unlink" \in Faults /\ leaky' = TRUE /\ UNCHANGED file
  /\ UNCHANGED <<db, sig, snaps, keyFile, keysMade, strays, memory, pc, job, refs, tmp, steady>>

\* `refs' has grown into _gc_blobs' `keep'.  A full sweep leaves nothing untracked.
SweepDone ==
  /\ pc = "gc" /\ todo = {}
  /\ blobRefs' = refs
  /\ pc' = "idle"
  /\ UNCHANGED <<disk, state, memKey, waiting, dirty, restoring, job, refs, tmp, todo, steady, leaky>>

\* _gc_blobs raises: _blob_refs keeps its old value, the save has succeeded.
SweepFails ==
  /\ pc = "gc" /\ "sweep" \in Faults
  /\ pc' = "idle" /\ todo' = {}
  /\ leaky' = (leaky \/ blobRefs # Unswept)
  /\ UNCHANGED <<disk, memory, job, refs, tmp, steady>>

-----------------------------------------------------------------------------
(* Crash and restart.                                                      *)

\* A .tmp file being written stays; a save may have made the install key already.
Crash ==
  /\ running
  /\ pc' = "down"
  /\ state' = {} /\ blobRefs' = Unswept /\ memKey' = 0
  /\ restored' = NoState /\ cleared' = FALSE
  /\ waiting' = 0 /\ dirty' = FALSE
  /\ refs' = {} /\ tmp' = {} /\ todo' = {} /\ steady' = {}
  /\ strays' = (strays \/ tmp # {})
  /\ leaky' = FALSE            \* the first save of the next process sweeps the directory
  /\ \/ UNCHANGED <<keyFile, keysMade>>
     \/ pc = "commit" /\ job # "snapshot" /\ \E k \in 1..MaxKeys : getOrCreateInstallKey(k)
  /\ UNCHANGED <<file, db, sig, snaps, job>>

\* load_state finds a row whose signature verifies.
LoadVerified ==
  /\ pc = "down" /\ db # NoState
  /\ \E k \in 1..MaxKeys :
       /\ getOrCreateInstallKey(k)
       /\ k = sig
       /\ memKey' = k
  /\ state' = db \cap Whole
  /\ pc' = "idle"
  /\ UNCHANGED <<file, db, sig, snaps, strays, blobRefs, waiting, dirty, restoring, job, refs, tmp, todo, steady, leaky>>

\* No row, a signature that does not verify, or an exception: the default
\* state is loaded and saved over whatever the row held.
LoadDefault ==
  /\ pc = "down"
  /\ \/ db = NoState /\ UNCHANGED <<keyFile, keysMade, memKey>>
     \/ "read" \in Faults /\ UNCHANGED <<keyFile, keysMade, memKey>>
     \/ /\ db # NoState
        /\ \E k \in 1..MaxKeys :
             /\ getOrCreateInstallKey(k)
             /\ k # sig
             /\ memKey' = k
  /\ state' = {}
  /\ pc' = "encode" /\ job' = "boot" /\ refs' = {} /\ steady' = {}
  /\ UNCHANGED <<file, db, sig, snaps, strays, blobRefs, waiting, dirty, restoring, tmp, todo, leaky>>

-----------------------------------------------------------------------------
Restore == RestoreRead \/ RestoreClear \/ RestoreUpdate
Save == BeginSave \/ CommitSave
Encode == RefBlob \/ WriteTmp \/ ReplaceTmp \/ EncodeDone
Sweep == KeepOne \/ UnlinkOne \/ SweepDone \/ SweepFails
Boot == LoadVerified \/ LoadDefault

Next ==
  \/ Mutate \/ Restore
  \/ Save \/ BeginSnapshot \/ CommitSnapshot
  \/ Encode \/ OpFails \/ Sweep
  \/ Crash \/ Boot

Spec == Init /\ [][Next]_vars

-----------------------------------------------------------------------------
(* Properties.                                                             *)

\* Whatever the order of saves, snapshots, deletions and crashes, no committed
\* row and no snapshot refers to a file that is missing or half written: the
\* sweep of _gc_blobs never takes a blob somebody still needs, and put() never
\* trusts a file that is not whole.
NoDangling == Committed \cup InSnapshots \subseteq Whole

\* When every handler has finished and its save did not fail, a crash now would
\* lose nothing: the committed row is the live state.
SavedWhenQuiet ==
  pc = "idle" /\ waiting = 0 /\ ~dirty /\ ~cleared => Committed = state

\* Between operations of a process that has swept once and met no fault since
\* it started, every value's file is one the state or a snapshot refers to: what
\* failed saves, crashes and earlier processes left under a digest's name is gone.
NoOrphans ==
  pc = "idle" /\ blobRefs # Unswept /\ ~leaky => Whole \subseteq Committed \cup InSnapshots

\* The first save of a process sweeps the directory (vyomi_platform.py:228): nothing
\* an earlier process left unfinished is still there.
DirectoryIsSwept ==
  pc = "idle" /\ blobRefs # Unswept /\ ~leaky => ~strays

\* Reading the row, its files and the install key fail-safe: with no read or key
\* fault a restart returns the durable copy, and the store as a whole behaves
\* as one durable cell with append-only snapshots.
Durable == INSTANCE DurableState WITH
  Value <- Digest, up <- running, mem <- state, durable <- db

ActsAsDurableCell == Durable!AbsSpec
=============================================================================
