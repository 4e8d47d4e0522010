----------------------------- MODULE SyncProofs -----------------------------
(***************************************************************************)
(* What central knows of a volume, for every number of bundles, uploads    *)
(* and failures and every batch size.  BundlesAccounted is not inductive:  *)
(* records are removed by their ids, which name the right ones only        *)
(* because ids are unique and grow, because a batch is closed downwards,   *)
(* and because a request that is still waited for carries the whole batch  *)
(* its sender will remove.                                                 *)
(***************************************************************************)
EXTENDS ReplicaSync, VolumeProofs, FiniteSetTheorems, WellFoundedInduction

(* A change record is of a stored bundle; ids are unique and were given.   *)
RecordsSound ==
  /\ next_event > 0
  /\ \A b \in BundleIds : records[b] # None => b \in bundles /\ records[b].id < next_event
  /\ \A b, e \in BundleIds : (b # e /\ records[b] # None /\ records[e] # None) =>
       records[b].id # records[e].id

(* The records that max would remove are of bundles in S.                  *)
Covered(max, rows, S) ==
  \A b \in BundleIds : (rows[b] # None /\ rows[b].id <= max) => b \in S

Syncing(r) == reporter[r].pc \notin {"idle", "waiting"}

ReporterSound(r) ==
  /\ reporter[r].max < next_event
  /\ Syncing(r) => lock = r
  /\ reporter[r].bundle \in bundles \cup {None}
  /\ reporter[r].pc = "reported" => Covered(reporter[r].max, records, centralReplicas)
  /\ reporter[r].pc = "offset" => reporter[r].bundle \in centralReplicas \cup {None}

Reports == [from : Reporters, live : BOOLEAN, stored : SUBSET BundleIds]
OffsetUpdates == [from : Reporters, live : BOOLEAN, offset : Nat]

(* A request tells what was so when it was sent, and still is; one that is *)
(* waited for is the only one of its sender.                               *)
RequestSound(m) ==
  /\ m \in Reports => m.stored \subseteq bundles
  /\ m \in OffsetUpdates => m.offset <= active_offset
  /\ m.live /\ m \in Reports => /\ reporter[m.from].pc = "reporting"
                                /\ Covered(reporter[m.from].max, records, m.stored)
  /\ m.live /\ m \in OffsetUpdates => reporter[m.from].pc = "offset"

OneAwaited == \A m, n \in wire : (m.live /\ n.live /\ m.from = n.from) => m = n

SyncInv ==
  /\ SyncTypeOK
  /\ VolumeInv
  /\ RecordsSound
  /\ \A r \in Reporters : ReporterSound(r)
  /\ \A m \in wire : RequestSound(m)
  /\ OneAwaited
  /\ BundlesAccounted
  /\ ConfirmedKnown
  /\ OffsetNotAhead

-----------------------------------------------------------------------------
(* Numbers: a non-empty set of naturals has a least element, and one that  *)
(* is bounded has a greatest.                                              *)
LEMMA LeastNatural ==
  ASSUME NEW T \in SUBSET Nat, T # {}
  PROVE  \E x \in T : \A y \in T : x <= y
<1>1. PICK x \in T : \A y \in T : ~ (<<y, x>> \in OpToRel(<, Nat))
  BY NatLessThanWellFounded, WFMin
<1>2. \A y \in T : ~(y < x)
  BY <1>1 DEF OpToRel
<1> QED
  BY <1>2

LEMMA GreatestNatural ==
  ASSUME NEW T \in SUBSET Nat, T # {}, NEW n \in Nat, \A x \in T : x < n
  PROVE  \E x \in T : \A y \in T : y <= x
<1> DEFINE D == {n - x : x \in T}
<1>0. PICK t \in T : TRUE
  OBVIOUS
<1>1. D \in SUBSET Nat /\ D # {}
  <2>1. \A x \in T : n - x \in Nat
    OBVIOUS
  <2>2. n - t \in D
    BY <1>0
  <2> QED
    BY <2>1, <2>2
<1>2. PICK d \in D : \A e \in D : d <= e
  BY <1>1, LeastNatural
<1>3. PICK x \in T : d = n - x
  OBVIOUS
<1>4. \A y \in T : n - x <= n - y
  BY <1>2, <1>3
<1> QED
  BY <1>4

(* get_bundle_change_records.                                              *)
Older(b) == {e \in Pending : records[e].id < records[b].id}

LEMMA RecordTypes ==
  ASSUME SyncInv
  PROVE  /\ records \in [BundleIds -> Records \cup {None}] /\ next_event \in Nat
         /\ \A b \in BundleIds : records[b] # None => records[b].id \in Nat
         /\ \A b \in Pending : b \in BundleIds /\ records[b] # None /\ records[b].id \in Nat
                               /\ records[b].id < next_event
         /\ \A b, e \in Pending : b # e => records[b].id # records[e].id
<1>1. /\ records \in [BundleIds -> Records \cup {None}] /\ next_event \in Nat /\ RecordsSound
  BY DEF SyncInv, SyncTypeOK, VolumeTypeOK
<1>2. \A b \in BundleIds : records[b] # None => records[b].id \in Nat
  BY <1>1 DEF Records
<1> QED
  BY <1>1, <1>2 DEF Pending, RecordsSound

LEMMA OlderFinite ==
  ASSUME SyncInv, NEW b \in Pending
  PROVE  IsFiniteSet(Older(b))
<1> DEFINE ids == [e \in Older(b) |-> records[e].id]
<1>1. records[b].id \in Nat /\ IsFiniteSet(0 .. records[b].id)
  BY RecordTypes, FS_Interval
<1>2. ids \in [Older(b) -> 0 .. records[b].id]
  BY <1>1, RecordTypes DEF Older
<1>3. \A e, f \in Older(b) : ids[e] = ids[f] => e = f
  BY RecordTypes DEF Older
<1>4. ids \in Injection(Older(b), 0 .. records[b].id)
  BY <1>2, <1>3, Zenon DEF Injection, IsInjective
<1> QED
  BY <1>1, <1>4, FS_Injection

(* A batch is empty only when nothing is pending, and holds every record   *)
(* up to its last one.                                                     *)
LEMMA BatchFacts ==
  ASSUME SyncInv
  PROVE  /\ Batch = {} => Pending = {}
         /\ Batch \subseteq Pending
         /\ Batch # {} => /\ LastId \in Nat /\ LastId < next_event
                          /\ \A b \in Pending : records[b].id <= LastId => b \in Batch
<1>1. Batch = {b \in Pending : Cardinality(Older(b)) < BatchSize}
  BY DEF Batch, Older
<1>2. ASSUME Pending # {} PROVE Batch # {}
  <2> DEFINE T == {records[b].id : b \in Pending}
  <2>0. T \in SUBSET Nat /\ T # {}
    BY <1>2, RecordTypes
  <2> HIDE DEF T
  <2>1. PICK i \in T : \A j \in T : i <= j
    BY <2>0, LeastNatural
  <2> USE DEF T
  <2>2. PICK b \in Pending : i = records[b].id
    BY <2>1
  <2>3. Older(b) = {}
    BY <2>1, <2>2, RecordTypes DEF Older
  <2>4. Cardinality(Older(b)) = 0
    BY <2>3, FS_EmptySet
  <2> QED
    BY <1>1, <2>4, SyncAssumption
<1>3. ASSUME Batch # {} PROVE LastId \in {records[b].id : b \in Batch} /\
                              \A b \in Batch : records[b].id <= LastId
  <2> DEFINE T == {records[b].id : b \in Batch}
  <2>0. T \in SUBSET Nat /\ T # {} /\ \A i \in T : i < next_event
    BY <1>1, <1>3, RecordTypes
  <2> HIDE DEF T
  <2>1. \E i \in T : \A j \in T : j <= i
    BY <2>0, RecordTypes, GreatestNatural
  <2> USE DEF T
  <2>2. \E i \in {records[b].id : b \in Batch} : \A b \in Batch : records[b].id <= i
    BY <2>1
  <2> QED
    BY <2>2 DEF LastId
<1>4. ASSUME Batch # {}, NEW b \in Pending, records[b].id <= LastId PROVE b \in Batch
  <2>1. PICK e \in Batch : LastId = records[e].id
    BY <1>3, <1>4
  <2>2. e \in Pending /\ Cardinality(Older(e)) < BatchSize
    BY <1>1, <2>1
  <2>3. Older(b) \in SUBSET Older(e)
    BY <1>4, <2>1, <2>2, RecordTypes DEF Older
  <2>4. IsFiniteSet(Older(e)) /\ IsFiniteSet(Older(b)) /\ Cardinality(Older(b)) <= Cardinality(Older(e))
    BY <2>2, <2>3, OlderFinite, FS_Subset
  <2>5. Cardinality(Older(e)) \in Nat /\ Cardinality(Older(b)) \in Nat
    BY <2>4, FS_CardinalityType
  <2> QED
    BY <1>1, <2>2, <2>4, <2>5, SyncAssumption
<1>5. Batch # {} => LastId \in Nat /\ LastId < next_event
  BY <1>1, <1>3, RecordTypes
<1> QED
  BY <1>1, <1>2, <1>4, <1>5

-----------------------------------------------------------------------------
(* What a step leaves of what reporters and requests rest on: tables and   *)
(* counters grow, and a record is an old one or has an id given since.     *)
Grown ==
  /\ bundles \subseteq bundles'
  /\ centralReplicas \subseteq centralReplicas'
  /\ next_event <= next_event'
  /\ active_offset <= active_offset'
  /\ \A b \in BundleIds : records'[b] # None =>
       records'[b] = records[b] \/ records'[b].id >= next_event

LEMMA SyncTypes ==
  ASSUME SyncInv
  PROVE  /\ next_event \in Nat /\ active_offset \in Nat /\ centralOffset \in Nat
         /\ bundles \subseteq BundleIds
         /\ wire \subseteq Reports \cup OffsetUpdates
         /\ reporter \in [Reporters -> Calls]
         /\ \A r \in Reporters : reporter[r] \in Calls /\ reporter[r].max \in Nat
  BY VolumeAssumption
  DEF SyncInv, SyncTypeOK, VolumeTypeOK, Requests, Reports, OffsetUpdates, Calls

LEMMA CoveredKept ==
  ASSUME SyncInv, SyncTypeOK', Grown, NEW max \in Nat, max < next_event, NEW S, NEW T,
         S \subseteq T, Covered(max, records, S)
  PROVE  Covered(max, records', T)
<1>1. ASSUME NEW b \in BundleIds, records'[b] # None, records'[b].id <= max
      PROVE  b \in T
  <2>1. records'[b].id \in Nat
    BY <1>1 DEF SyncTypeOK, VolumeTypeOK, Records
  <2>2. records'[b] = records[b]
    BY <1>1, <2>1, SyncTypes DEF Grown
  <2> QED
    BY <1>1, <2>2 DEF Covered
<1> QED
  BY <1>1 DEF Covered

(* A call that a step does not touch stays sound.                          *)
LEMMA ReporterKept ==
  ASSUME SyncInv, SyncTypeOK', Grown, NEW r \in Reporters,
         reporter'[r] = reporter[r], lock = r => lock' = r
  PROVE  ReporterSound(r)'
<1>1. ReporterSound(r) /\ reporter[r].max \in Nat /\ next_event \in Nat
  BY SyncTypes DEF SyncInv
<1>2. next_event' \in Nat
  BY DEF SyncTypeOK, VolumeTypeOK
<1>3. reporter[r].pc = "reported" => Covered(reporter[r].max, records', centralReplicas')
  BY <1>1, CoveredKept DEF ReporterSound, Grown
<1> QED
  BY <1>1, <1>2, <1>3 DEF ReporterSound, Syncing, Grown

(* A call that has not read yet, or reads again, holds only its lock.      *)
LEMMA ReporterFresh ==
  ASSUME SyncTypeOK', RecordsSound', NEW r \in Reporters,
         reporter'[r].max < next_event',
         \/ reporter'[r].pc \in {"idle", "waiting"}
         \/ reporter'[r].pc \in {"reading", "reporting"} /\ lock' = r,
         reporter'[r].bundle \in bundles' \cup {None}
  PROVE  ReporterSound(r)'
  BY DEF ReporterSound, Syncing

LEMMA IdleSound ==
  ASSUME SyncTypeOK', RecordsSound', NEW r \in Reporters, reporter'[r] = Idle
  PROVE  ReporterSound(r)'
<1>1. next_event' > 0 /\ next_event' \in Nat
  BY DEF RecordsSound, SyncTypeOK, VolumeTypeOK
<1> QED
  BY <1>1 DEF ReporterSound, Syncing, Idle

(* So does a request that stays on the wire, given up or not.              *)
LEMMA RequestKept ==
  ASSUME SyncInv, SyncTypeOK', Grown, NEW m \in wire,
         m.live => reporter'[m.from] = reporter[m.from]
  PROVE  RequestSound(m)'
<1>1. RequestSound(m) /\ m \in Reports \cup OffsetUpdates /\ m.from \in Reporters
  BY SyncTypes DEF SyncInv, Reports, OffsetUpdates
<1>2. reporter[m.from].max \in Nat /\ reporter[m.from].max < next_event
  BY <1>1, SyncTypes DEF SyncInv, ReporterSound
<1>3. m.live /\ m \in Reports => Covered(reporter[m.from].max, records', m.stored)
  BY <1>1, <1>2, CoveredKept DEF RequestSound
<1>4. m \in OffsetUpdates => m.offset \in Nat /\ active_offset \in Nat /\ active_offset' \in Nat
  BY SyncTypes, VolumeAssumption DEF OffsetUpdates, SyncTypeOK, VolumeTypeOK
<1> QED
  BY <1>1, <1>3, <1>4 DEF RequestSound, Grown

LEMMA RequestKinds ==
  ASSUME NEW m \in Reports \cup OffsetUpdates
  PROVE  /\ "stored" \in DOMAIN m <=> m \in Reports
         /\ "offset" \in DOMAIN m <=> m \in OffsetUpdates
         /\ ~(m \in Reports /\ m \in OffsetUpdates)
         /\ m.from \in Reporters /\ m.live \in BOOLEAN
  BY DEF Reports, OffsetUpdates

(* Only a call that waits for an answer has a request waited for.          *)
LEMMA AwaitedBy ==
  ASSUME SyncInv, NEW m \in wire, m.live
  PROVE  /\ m.from \in Reporters
         /\ reporter[m.from].pc = IF m \in Reports THEN "reporting" ELSE "offset"
<1>1. RequestSound(m) /\ m \in Reports \cup OffsetUpdates
  BY SyncTypes DEF SyncInv
<1> QED
  BY <1>1, RequestKinds DEF RequestSound

(* Giving up keeps what a request says.                                    *)
LEMMA GivenUpFacts ==
  ASSUME SyncInv, NEW r \in Reporters, NEW n \in GivenUp(r)
  PROVE  \E m \in wire : /\ n = m \/ ~n.live
                         /\ n.from = m.from /\ (n.live => m.from # r)
                         /\ n \in Reports \cup OffsetUpdates
                         /\ n \in Reports => m \in Reports /\ n.stored = m.stored
                         /\ n \in OffsetUpdates => m \in OffsetUpdates /\ n.offset = m.offset
<1>1. PICK m \in wire : n = [m EXCEPT !.live = (m.live /\ m.from # r)]
  BY DEF GivenUp
<1>2. m \in Reports \cup OffsetUpdates
  BY SyncTypes
<1>3. CASE m \in Reports
  <2>1. n \in Reports /\ n.stored = m.stored /\ n.from = m.from /\ n.live = (m.live /\ m.from # r)
    BY <1>1, <1>3 DEF Reports
  <2>2. n.live => n = m
    BY <1>1, <1>3, <2>1 DEF Reports
  <2>3. n.live \in BOOLEAN /\ n \notin OffsetUpdates
    BY <2>1, RequestKinds
  <2> QED
    BY <1>3, <2>1, <2>2, <2>3
<1>4. CASE m \in OffsetUpdates
  <2>1. n \in OffsetUpdates /\ n.offset = m.offset /\ n.from = m.from /\ n.live = (m.live /\ m.from # r)
    BY <1>1, <1>4 DEF OffsetUpdates
  <2>2. n.live => n = m
    BY <1>1, <1>4, <2>1 DEF OffsetUpdates
  <2>3. n.live \in BOOLEAN /\ n \notin Reports
    BY <2>1, RequestKinds
  <2> QED
    BY <1>4, <2>1, <2>2, <2>3
<1> QED
  BY <1>2, <1>3, <1>4

(* A step that leaves the volume alone.                                    *)
LEMMA VolumeUntouched ==
  ASSUME SyncInv, UNCHANGED volumeVars, centralReplicas \subseteq centralReplicas'
  PROVE  VolumeInv' /\ RecordsSound' /\ Grown /\ VolumeTypeOK'
<1>1. VolumeInv /\ RecordsSound /\ VolumeTypeOK
  BY DEF SyncInv, SyncTypeOK
<1>2. VolumeInv'
  BY <1>1, VolumeStepInv
<1>3. UNCHANGED <<chunks, active_offset, bundles, records, next_event>>
  BY DEF volumeVars
<1>4. Grown
  BY <1>3, SyncTypes DEF Grown
<1>5. RecordsSound'
  BY <1>1, <1>3 DEF RecordsSound
<1>6. VolumeTypeOK'
  BY <1>2 DEF VolumeInv
<1> QED
  BY <1>2, <1>4, <1>5, <1>6

(* A step that neither sends nor answers a request, nor gives one up.      *)
LEMMA WireKept ==
  ASSUME SyncInv, SyncTypeOK', Grown, wire' \subseteq wire,
         \A m \in wire' : m.live => reporter'[m.from] = reporter[m.from]
  PROVE  (\A m \in wire : RequestSound(m))' /\ OneAwaited'
<1>1. \A m \in wire' : RequestSound(m)'
  BY RequestKept
<1>2. OneAwaited'
  BY DEF SyncInv, OneAwaited
<1> QED
  BY <1>1, <1>2

(* What a call of get_bundle_change_records, or its end, cannot break.     *)
LEMMA CentralUntouched ==
  ASSUME SyncInv, UNCHANGED volumeVars, UNCHANGED <<centralReplicas, centralOffset, confirmed>>
  PROVE  BundlesAccounted' /\ ConfirmedKnown' /\ OffsetNotAhead'
  BY DEF SyncInv, BundlesAccounted, ConfirmedKnown, OffsetNotAhead, volumeVars

(* The puts of a volume move only its offset, and only upwards.            *)
LEMMA PutGrows ==
  ASSUME SyncInv, VolumePut
  PROVE  /\ UNCHANGED <<bundles, records, next_event>>
         /\ active_offset <= active_offset'
<1>1. VolumeTypeOK /\ active_offset \in Nat
  BY SyncTypes DEF SyncInv, SyncTypeOK
<1>2. ASSUME NEW w \in Writers, NEW c \in ChunkIds, NEW p \in Payloads, PutReserve(w, c, p)
      PROVE  UNCHANGED <<bundles, records, next_event>> /\ active_offset <= active_offset'
  <2>1. PlaceAt(p) \in Nat /\ CompressedLen[p] \in Nat
    BY <1>1, <1>2, PlaceAtFacts, VolumeAssumption DEF PutReserve
  <2>2. active_offset <= Reserved(p)
    BY <1>1, <2>1 DEF Reserved
  <2> QED
    BY <1>2, <2>2 DEF PutReserve
<1>3. ASSUME NEW w \in Writers,
             PutWrite(w) \/ PutSync(w) \/ PutFail(w) \/ PutCancel(w) \/ PutForgotten(w) \/ PutInsert(w)
      PROVE  UNCHANGED <<bundles, records, next_event, active_offset>>
  BY <1>3 DEF PutWrite, PutSync, PutFail, PutCancel, PutForgotten, PutInsert, volumeDb
<1> QED
  BY <1>1, <1>2, <1>3 DEF VolumePut

LEMMA PutSyncedInv ==
  ASSUME SyncInv, VolumePut, UNCHANGED syncVars
  PROVE  SyncInv'
<1>1. /\ UNCHANGED <<lock, reporter, wire, registered, centralReplicas, centralOffset,
                     confirmed, failures>>
      /\ UNCHANGED <<bundles, records, next_event>>
      /\ active_offset <= active_offset'
  BY PutGrows DEF syncVars
<1>2. VolumeInv'
  BY VolumeStepInv DEF SyncInv, VolumeNext
<1>3. SyncTypeOK'
  BY <1>1, <1>2 DEF SyncInv, SyncTypeOK, VolumeInv
<1>4. RecordsSound'
  BY <1>1 DEF SyncInv, RecordsSound
<1>5. Grown
  BY <1>1, SyncTypes DEF Grown
<1>6. \A r \in Reporters : ReporterSound(r)'
  BY <1>1, <1>3, <1>5, ReporterKept
<1>7. (\A m \in wire : RequestSound(m))' /\ OneAwaited'
  BY <1>1, <1>3, <1>5, WireKept
<1>8. BundlesAccounted' /\ ConfirmedKnown'
  BY <1>1 DEF SyncInv, BundlesAccounted, ConfirmedKnown
<1>9. OffsetNotAhead'
  <2>1. centralOffset <= active_offset /\ active_offset' \in Nat
    BY <1>3, VolumeAssumption DEF SyncInv, OffsetNotAhead, SyncTypeOK, VolumeTypeOK
  <2> QED
    BY <1>1, <2>1, SyncTypes DEF OffsetNotAhead
<1> QED
  BY <1>2, <1>3, <1>4, <1>6, <1>7, <1>8, <1>9 DEF SyncInv

(* commit_bundle: a new bundle gets the next event id, above every max.    *)
LEMMA CommitGrows ==
  ASSUME SyncInv, NEW b \in BundleIds, CommitBundle(b) \/ (b \in bundles /\ UNCHANGED volumeVars)
  PROVE  /\ VolumeInv' /\ RecordsSound'
         /\ b \in bundles' /\ UNCHANGED active_offset
         /\ bundles \subseteq bundles' /\ next_event <= next_event'
         /\ \A e \in BundleIds : records'[e] # None =>
              records'[e] = records[e] \/ records'[e].id >= next_event
         /\ \A e \in bundles' : (e \in bundles /\ records'[e] = records[e]) \/ records'[e] # None
<1>1. CASE CommitBundle(b)
  <2>1. VolumeInv'
    BY <1>1, VolumeStepInv DEF SyncInv, VolumeNext
  <2>2. records[b] = None
    BY <1>1 DEF SyncInv, RecordsSound, CommitBundle
  <2>3. PICK rec : rec = [id |-> next_event, kind |-> "stored"]
    OBVIOUS
  <2>4. /\ records' = [records EXCEPT ![b] = rec] /\ next_event' = next_event + 1
        /\ bundles' = bundles \cup {b} /\ UNCHANGED active_offset
    BY <1>1, <2>2, <2>3 DEF CommitBundle, ChangeRecord, NewRecord
  <2>5. rec \in Records /\ rec.id = next_event /\ rec # None
    BY <2>3, SyncTypes, VolumeAssumption DEF Records
  <2>6. /\ records'[b] = rec
        /\ \A e \in BundleIds \ {b} : records'[e] = records[e]
    BY <2>4, RecordTypes
  <2>7. RecordsSound'
    <3>1. \A e \in BundleIds : records[e] # None =>
             e \in bundles /\ records[e].id < next_event /\ records[e].id \in Nat
      BY RecordTypes DEF SyncInv, RecordsSound
    <3>2. next_event \in Nat /\ next_event > 0
      BY SyncTypes DEF SyncInv, RecordsSound
    <3>3. \A e \in BundleIds : records'[e] # None => e \in bundles' /\ records'[e].id < next_event'
      BY <2>4, <2>5, <2>6, <3>1, <3>2
    <3>4. \A d, e \in BundleIds : (d # e /\ records'[d] # None /\ records'[e] # None) =>
             records'[d].id # records'[e].id
      BY <2>5, <2>6, <3>1, <3>2 DEF SyncInv, RecordsSound
    <3> QED
      BY <2>4, <3>2, <3>3, <3>4 DEF RecordsSound
  <2>8. /\ b \in bundles' /\ bundles \subseteq bundles' /\ next_event <= next_event'
        /\ \A e \in BundleIds : records'[e] # None =>
             records'[e] = records[e] \/ records'[e].id >= next_event
    BY <2>4, <2>5, <2>6, SyncTypes
  <2>9. \A e \in bundles' : (e \in bundles /\ records'[e] = records[e]) \/ records'[e] # None
    BY <2>4, <2>5, <2>6, SyncTypes
  <2> QED
    BY <2>1, <2>4, <2>7, <2>8, <2>9
<1>2. CASE b \in bundles /\ UNCHANGED volumeVars
  <2>1. VolumeInv'
    BY <1>2, VolumeStepInv DEF SyncInv
  <2>2. UNCHANGED <<active_offset, bundles, records, next_event>>
    BY <1>2 DEF volumeVars
  <2>3. RecordsSound'
    BY <2>2 DEF SyncInv, RecordsSound
  <2> QED
    BY <1>2, <2>1, <2>2, <2>3, SyncTypes
<1> QED
  BY <1>1, <1>2

LEMMA UploadCommitInv ==
  ASSUME SyncInv, NEW u \in Uploads, NEW b \in BundleIds, UploadCommit(u, b)
  PROVE  SyncInv'
<1>1. PICK call : call = [Idle EXCEPT !.pc = "waiting", !.bundle = b]
  OBVIOUS
<1>2. /\ u \in Reporters
      /\ reporter[u].pc = "idle"
      /\ CommitBundle(b) \/ (b \in bundles /\ UNCHANGED volumeVars)
      /\ reporter' = [reporter EXCEPT ![u] = call]
      /\ UNCHANGED <<lock, wire, registered, centralReplicas, centralOffset, confirmed, failures>>
  BY <1>1 DEF UploadCommit, Reporters
<1>3. call \in Calls /\ call.pc = "waiting" /\ call.bundle = b /\ call.max = 0
  BY <1>1 DEF Idle, Calls
<1>4. /\ reporter'[u] = call
      /\ \A r \in Reporters \ {u} : reporter'[r] = reporter[r]
      /\ reporter' \in [Reporters -> Calls]
  BY <1>2, <1>3, SyncTypes
<1>5. VolumeInv' /\ RecordsSound' /\ SyncTypeOK'
  BY <1>2, <1>4, CommitGrows DEF SyncInv, SyncTypeOK, VolumeInv
<1>6. Grown
  BY <1>2, CommitGrows, SyncTypes DEF Grown
<1>7. ReporterSound(u)'
  <2>1. next_event' \in Nat /\ next_event' > 0
    BY <1>5 DEF SyncTypeOK, VolumeTypeOK, RecordsSound
  <2>2. b \in bundles'
    BY <1>2, CommitGrows
  <2> QED
    BY <1>2, <1>3, <1>4, <1>5, <2>1, <2>2, ReporterFresh
<1>8. \A r \in Reporters : ReporterSound(r)'
  BY <1>2, <1>4, <1>5, <1>6, <1>7, ReporterKept
<1>9. (\A m \in wire : RequestSound(m))' /\ OneAwaited'
  <2>1. \A m \in wire : m.live => m.from \in Reporters /\ m.from # u
    BY <1>2, AwaitedBy
  <2> QED
    BY <1>2, <1>4, <1>5, <1>6, <2>1, WireKept
<1>10. BundlesAccounted' /\ ConfirmedKnown' /\ OffsetNotAhead'
  <2>1. /\ \A e \in bundles' : (e \in bundles /\ records'[e] = records[e]) \/ records'[e] # None
        /\ bundles \subseteq bundles' /\ UNCHANGED active_offset
    BY <1>2, CommitGrows
  <2> QED
    BY <1>2, <2>1 DEF SyncInv, BundlesAccounted, ConfirmedKnown, OffsetNotAhead
<1> QED
  BY <1>5, <1>8, <1>9, <1>10 DEF SyncInv

(* A step of one sync_volume call that changes neither side's tables.      *)
LEMMA CallStep ==
  ASSUME SyncInv, NEW r \in Reporters, NEW call \in Calls,
         reporter' = [reporter EXCEPT ![r] = call],
         lock' \in Reporters \cup {None},
         \A q \in Reporters \ {r} : lock = q => lock' = q,
         wire' \subseteq Requests, failures' \in 0 .. MaxFailures,
         UNCHANGED <<volumeVars, registered, centralReplicas, centralOffset, confirmed>>
  PROVE  /\ SyncTypeOK' /\ VolumeInv' /\ RecordsSound' /\ Grown
         /\ BundlesAccounted' /\ ConfirmedKnown' /\ OffsetNotAhead'
         /\ UNCHANGED <<active_offset, bundles, records, next_event>>
         /\ reporter'[r] = call
         /\ \A q \in Reporters \ {r} : reporter'[q] = reporter[q] /\ ReporterSound(q)'
<1>1. VolumeInv' /\ RecordsSound' /\ Grown /\ VolumeTypeOK'
  BY VolumeUntouched
<1>2. BundlesAccounted' /\ ConfirmedKnown' /\ OffsetNotAhead'
  BY CentralUntouched
<1>3. /\ reporter'[r] = call /\ reporter' \in [Reporters -> Calls]
      /\ \A q \in Reporters \ {r} : reporter'[q] = reporter[q]
  BY SyncTypes
<1>4. SyncTypeOK'
  BY <1>1, <1>3 DEF SyncInv, SyncTypeOK
<1>5. \A q \in Reporters \ {r} : ReporterSound(q)'
  BY <1>1, <1>3, <1>4, ReporterKept
<1>6. UNCHANGED <<active_offset, bundles, records, next_event>>
  BY DEF volumeVars
<1> QED
  BY <1>1, <1>2, <1>3, <1>4, <1>5, <1>6

LEMMA RequestTypes ==
  ASSUME SyncInv PROVE wire \subseteq Requests /\ failures \in 0 .. MaxFailures
                       /\ lock \in Reporters \cup {None} /\ MaxFailures \in Nat
  BY SyncAssumption DEF SyncInv, SyncTypeOK

LEMMA CallMoves ==
  ASSUME SyncInv, NEW r \in Reporters, NEW pc, Move(r, pc),
         pc \in {"idle", "waiting", "reading", "reporting", "reported", "offset"}
  PROVE  \E call \in Calls : /\ reporter' = [reporter EXCEPT ![r] = call]
                             /\ call.pc = pc /\ call.max = reporter[r].max
                             /\ call.bundle = reporter[r].bundle
<1>1. PICK call : call = [reporter[r] EXCEPT !.pc = pc]
  OBVIOUS
<1>2. reporter' = [reporter EXCEPT ![r] = call]
  BY <1>1 DEF Move
<1>3. reporter[r] \in Calls
  BY SyncTypes
<1>4. call \in Calls /\ call.pc = pc /\ call.max = reporter[r].max
      /\ call.bundle = reporter[r].bundle
  BY <1>1, <1>3 DEF Calls
<1> QED
  BY <1>2, <1>4

LEMMA PeriodicSyncInv ==
  ASSUME SyncInv, PeriodicSync
  PROVE  SyncInv'
<1>1. /\ Periodic \in Reporters /\ reporter[Periodic].pc = "idle" /\ Move(Periodic, "waiting")
      /\ UNCHANGED <<volumeVars, lock, wire, registered, centralReplicas, centralOffset,
                     confirmed, failures>>
  BY DEF PeriodicSync, Reporters
<1>2. PICK call \in Calls : /\ reporter' = [reporter EXCEPT ![Periodic] = call]
                            /\ call.pc = "waiting" /\ call.max = reporter[Periodic].max
                            /\ call.bundle = reporter[Periodic].bundle
  BY <1>1, CallMoves
<1>3. /\ SyncTypeOK' /\ VolumeInv' /\ RecordsSound' /\ Grown
      /\ BundlesAccounted' /\ ConfirmedKnown' /\ OffsetNotAhead'
      /\ UNCHANGED <<active_offset, bundles, records, next_event>>
      /\ reporter'[Periodic] = call
      /\ \A q \in Reporters \ {Periodic} : reporter'[q] = reporter[q] /\ ReporterSound(q)'
  BY <1>1, <1>2, CallStep, RequestTypes
<1>4. ReporterSound(Periodic)'
  BY <1>1, <1>2, <1>3, ReporterFresh DEF SyncInv, ReporterSound
<1>5. (\A m \in wire : RequestSound(m))' /\ OneAwaited'
  <2>1. \A m \in wire : m.live => m.from \in Reporters /\ m.from # Periodic
    BY <1>1, AwaitedBy
  <2> QED
    BY <1>1, <1>3, <2>1, WireKept
<1> QED
  BY <1>3, <1>4, <1>5 DEF SyncInv

LEMMA TakeLockInv ==
  ASSUME SyncInv, NEW r \in Reporters, TakeLock(r)
  PROVE  SyncInv'
<1>1. /\ reporter[r].pc = "waiting" /\ Move(r, "reading") /\ lock = None /\ lock' = r
      /\ UNCHANGED <<volumeVars, wire, registered, centralReplicas, centralOffset,
                     confirmed, failures>>
  BY DEF TakeLock
<1>2. PICK call \in Calls : /\ reporter' = [reporter EXCEPT ![r] = call]
                            /\ call.pc = "reading" /\ call.max = reporter[r].max
                            /\ call.bundle = reporter[r].bundle
  BY <1>1, CallMoves
<1>3. /\ SyncTypeOK' /\ VolumeInv' /\ RecordsSound' /\ Grown
      /\ BundlesAccounted' /\ ConfirmedKnown' /\ OffsetNotAhead'
      /\ UNCHANGED <<active_offset, bundles, records, next_event>>
      /\ reporter'[r] = call
      /\ \A q \in Reporters \ {r} : reporter'[q] = reporter[q] /\ ReporterSound(q)'
  BY <1>1, <1>2, CallStep, RequestTypes, SyncAssumption
<1>4. ReporterSound(r)'
  BY <1>1, <1>2, <1>3, ReporterFresh DEF SyncInv, ReporterSound
<1>5. (\A m \in wire : RequestSound(m))' /\ OneAwaited'
  <2>1. \A m \in wire : m.live => m.from \in Reporters /\ m.from # r
    BY <1>1, AwaitedBy
  <2> QED
    BY <1>1, <1>3, <2>1, WireKept
<1> QED
  BY <1>3, <1>4, <1>5 DEF SyncInv

(* A request is sent by a call that waits for no other.                    *)
LEMMA SendKeeps ==
  ASSUME SyncInv, SyncTypeOK', Grown, NEW r \in Reporters, NEW m \in Requests,
         reporter[r].pc = "reading", Send(m), m.from = r,
         \A q \in Reporters \ {r} : reporter'[q] = reporter[q],
         RequestSound(m)'
  PROVE  (\A n \in wire : RequestSound(n))' /\ OneAwaited'
<1>1. wire' \subseteq wire \cup {m}
  BY DEF Send
<1>2. \A n \in wire : n.live => n.from \in Reporters /\ n.from # r
  BY AwaitedBy
<1>3. \A n \in wire' : RequestSound(n)'
  <2>1. \A n \in wire : RequestSound(n)'
    BY <1>2, RequestKept
  <2> QED
    BY <1>1, <2>1
<1>4. OneAwaited'
  BY <1>1, <1>2 DEF SyncInv, OneAwaited
<1> QED
  BY <1>3, <1>4

LEMMA ReadRecordsInv ==
  ASSUME SyncInv, NEW r \in Reporters, ReadRecords(r)
  PROVE  SyncInv'
<1>1. PICK call : call = [reporter[r] EXCEPT !.pc = "reporting", !.max = LastId]
  OBVIOUS
<1>2. PICK m : m = [from |-> r, live |-> TRUE, stored |-> Batch]
  OBVIOUS
<1>3. /\ reporter[r].pc = "reading" /\ Batch # {}
      /\ reporter' = [reporter EXCEPT ![r] = call]
      /\ Send(m)
      /\ UNCHANGED <<volumeVars, lock, registered, centralReplicas, centralOffset,
                     confirmed, failures>>
  BY <1>1, <1>2 DEF ReadRecords
<1>4. /\ Batch \subseteq Pending /\ LastId \in Nat /\ LastId < next_event
      /\ \A b \in Pending : records[b].id <= LastId => b \in Batch
  BY <1>3, BatchFacts
<1>5. Batch \subseteq BundleIds /\ Batch \subseteq bundles
  BY <1>4, RecordTypes DEF SyncInv, RecordsSound
<1>6. /\ call \in Calls /\ call.pc = "reporting" /\ call.max = LastId
      /\ call.bundle = reporter[r].bundle
  BY <1>1, <1>4, SyncTypes DEF Calls
<1>7. m \in Reports /\ m \in Requests /\ m.from = r /\ m.live /\ m.stored = Batch
  BY <1>2, <1>5 DEF Reports, Requests
<1>8. /\ SyncTypeOK' /\ VolumeInv' /\ RecordsSound' /\ Grown
      /\ BundlesAccounted' /\ ConfirmedKnown' /\ OffsetNotAhead'
      /\ UNCHANGED <<active_offset, bundles, records, next_event>>
      /\ reporter'[r] = call
      /\ \A q \in Reporters \ {r} : reporter'[q] = reporter[q] /\ ReporterSound(q)'
  <2>1. wire' \subseteq Requests
    BY <1>3, <1>7, RequestTypes DEF Send
  <2> QED
    BY <1>3, <1>6, <2>1, CallStep, RequestTypes
<1>9. ReporterSound(r)'
  <2>1. lock = r /\ reporter[r].bundle \in bundles \cup {None}
    BY <1>3 DEF SyncInv, ReporterSound, Syncing
  <2> QED
    BY <1>3, <1>4, <1>6, <1>8, <2>1, ReporterFresh
<1>10. RequestSound(m)'
  <2>1. Covered(call.max, records', m.stored)
    BY <1>4, <1>6, <1>7, <1>8 DEF Covered, Pending
  <2>2. m \notin OffsetUpdates
    BY <1>7, RequestKinds
  <2> QED
    BY <1>5, <1>6, <1>7, <1>8, <2>1, <2>2 DEF RequestSound
<1>11. (\A n \in wire : RequestSound(n))' /\ OneAwaited'
  BY <1>3, <1>7, <1>8, <1>10, SendKeeps
<1> QED
  BY <1>8, <1>9, <1>11 DEF SyncInv

(* Nothing is pending, so the call's own bundle is known to central.       *)
LEMMA ReadOffsetInv ==
  ASSUME SyncInv, NEW r \in Reporters, ReadOffset(r)
  PROVE  SyncInv'
<1>1. PICK m : m = [from |-> r, live |-> TRUE, offset |-> active_offset]
  OBVIOUS
<1>2. /\ reporter[r].pc = "reading" /\ Batch = {} /\ Move(r, "offset")
      /\ Send(m)
      /\ UNCHANGED <<volumeVars, lock, registered, centralReplicas, centralOffset,
                     confirmed, failures>>
  BY <1>1 DEF ReadOffset
<1>3. PICK call \in Calls : /\ reporter' = [reporter EXCEPT ![r] = call]
                            /\ call.pc = "offset" /\ call.max = reporter[r].max
                            /\ call.bundle = reporter[r].bundle
  BY <1>2, CallMoves
<1>4. m \in OffsetUpdates /\ m \in Requests /\ m.from = r /\ m.live /\ m.offset = active_offset
  BY <1>1, SyncTypes DEF OffsetUpdates, Requests
<1>5. /\ SyncTypeOK' /\ VolumeInv' /\ RecordsSound' /\ Grown
      /\ BundlesAccounted' /\ ConfirmedKnown' /\ OffsetNotAhead'
      /\ UNCHANGED <<active_offset, bundles, records, next_event>>
      /\ reporter'[r] = call
      /\ \A q \in Reporters \ {r} : reporter'[q] = reporter[q] /\ ReporterSound(q)'
  <2>1. wire' \subseteq Requests
    BY <1>2, <1>4, RequestTypes DEF Send
  <2> QED
    BY <1>2, <1>3, <2>1, CallStep, RequestTypes
<1>6. bundles \subseteq centralReplicas
  BY <1>2, BatchFacts, SyncTypes DEF Pending, SyncInv, BundlesAccounted
<1>7. ReporterSound(r)'
  <2>1. lock = r /\ reporter[r].bundle \in bundles \cup {None} /\ reporter[r].max < next_event
    BY <1>2 DEF SyncInv, ReporterSound, Syncing
  <2> QED
    BY <1>2, <1>3, <1>5, <1>6, <2>1 DEF ReporterSound, Syncing
<1>8. RequestSound(m)'
  <2>1. m \notin Reports /\ active_offset \in Nat
    BY <1>4, RequestKinds, SyncTypes
  <2> QED
    BY <1>3, <1>4, <1>5, <2>1 DEF RequestSound
<1>9. (\A n \in wire : RequestSound(n))' /\ OneAwaited'
  BY <1>2, <1>4, <1>5, <1>8, SendKeeps
<1> QED
  BY <1>5, <1>7, <1>9 DEF SyncInv

(* The records removed are of bundles central has.                         *)
LEMMA RemoveReportedInv ==
  ASSUME SyncInv, NEW r \in Reporters, RemoveReported(r)
  PROVE  SyncInv'
<1>1. /\ reporter[r].pc = "reported" /\ RemoveRecords(reporter[r].max) /\ Move(r, "reading")
      /\ UNCHANGED <<lock, wire, registered, centralReplicas, centralOffset, confirmed, failures>>
  BY DEF RemoveReported
<1>2. PICK call \in Calls : /\ reporter' = [reporter EXCEPT ![r] = call]
                            /\ call.pc = "reading" /\ call.max = reporter[r].max
                            /\ call.bundle = reporter[r].bundle
  BY <1>1, CallMoves
<1>3. /\ reporter'[r] = call /\ reporter' \in [Reporters -> Calls]
      /\ \A q \in Reporters \ {r} : reporter'[q] = reporter[q]
  BY <1>2, SyncTypes
<1>4. /\ UNCHANGED <<active_offset, bundles, next_event>>
      /\ \A b \in BundleIds : records'[b] =
           IF records[b] # None /\ records[b].id <= reporter[r].max THEN None ELSE records[b]
  BY <1>1 DEF RemoveRecords
<1>5. VolumeInv'
  BY <1>1, RemoveRecordsInv DEF SyncInv
<1>6. SyncTypeOK'
  BY <1>1, <1>3, <1>5 DEF SyncInv, SyncTypeOK, VolumeInv
<1>7. /\ \A b \in BundleIds : records'[b] # None => records'[b] = records[b]
      /\ Grown
  BY <1>1, <1>4, SyncTypes DEF Grown
<1>8. RecordsSound'
  BY <1>4, <1>7 DEF SyncInv, RecordsSound
<1>9. ReporterSound(r)
  BY DEF SyncInv
<1>10. \A q \in Reporters : ReporterSound(q)'
  <2>1. ReporterSound(r)'
    BY <1>1, <1>2, <1>3, <1>4, <1>6, <1>8, <1>9, ReporterFresh DEF ReporterSound, Syncing
  <2> QED
    BY <1>1, <1>3, <1>6, <1>7, <2>1, ReporterKept
<1>11. (\A m \in wire : RequestSound(m))' /\ OneAwaited'
  <2>1. \A m \in wire : m.live => m.from \in Reporters /\ m.from # r
    BY <1>1, AwaitedBy
  <2> QED
    BY <1>1, <1>3, <1>6, <1>7, <2>1, WireKept
<1>12. BundlesAccounted'
  <2>1. Covered(reporter[r].max, records, centralReplicas)
    BY <1>1, <1>9 DEF ReporterSound
  <2>2. \A b \in BundleIds : records[b] # None => records'[b] # None \/ b \in centralReplicas
    BY <1>4, <2>1 DEF Covered
  <2> QED
    BY <1>1, <1>4, <2>2, SyncTypes DEF SyncInv, BundlesAccounted
<1>13. ConfirmedKnown' /\ OffsetNotAhead'
  BY <1>1, <1>4 DEF SyncInv, ConfirmedKnown, OffsetNotAhead
<1> QED
  BY <1>5, <1>6, <1>8, <1>10, <1>11, <1>12, <1>13 DEF SyncInv

LEMMA IdleCall == Idle \in Calls
  BY DEF Idle, Calls

LEMMA AbandonInv ==
  ASSUME SyncInv, NEW r \in Reporters, Abandon(r)
  PROVE  SyncInv'
<1>1. /\ reporter' = [reporter EXCEPT ![r] = Idle]
      /\ lock' = Released(r) /\ wire' = GivenUp(r)
      /\ failures' \in 0 .. MaxFailures
      /\ UNCHANGED <<volumeVars, registered, centralReplicas, centralOffset, confirmed>>
  BY RequestTypes DEF Abandon, Failure
<1>2. wire' \subseteq Requests
  BY <1>1, GivenUpFacts DEF Reports, OffsetUpdates, Requests
<1>3. lock' \in Reporters \cup {None} /\ \A q \in Reporters \ {r} : lock = q => lock' = q
  BY <1>1, RequestTypes DEF Released
<1>4. /\ SyncTypeOK' /\ VolumeInv' /\ RecordsSound' /\ Grown
      /\ BundlesAccounted' /\ ConfirmedKnown' /\ OffsetNotAhead'
      /\ UNCHANGED <<active_offset, bundles, records, next_event>>
      /\ reporter'[r] = Idle
      /\ \A q \in Reporters \ {r} : reporter'[q] = reporter[q] /\ ReporterSound(q)'
  BY <1>1, <1>2, <1>3, IdleCall, CallStep
<1>5. ReporterSound(r)'
  BY <1>4, IdleSound
<1>6. ASSUME NEW n \in wire' PROVE RequestSound(n)' /\ (n.live => n \in wire)
  <2>1. PICK m \in wire : /\ n = m \/ ~n.live
                          /\ n.from = m.from /\ (n.live => m.from # r)
                          /\ n \in Reports \cup OffsetUpdates
                          /\ n \in Reports => m \in Reports /\ n.stored = m.stored
                          /\ n \in OffsetUpdates => m \in OffsetUpdates /\ n.offset = m.offset
    BY <1>1, <1>6, GivenUpFacts
  <2>2. CASE n.live
    <3>1. n = m /\ n.from \in Reporters \ {r}
      BY <2>1, <2>2, RequestKinds
    <3> QED
      BY <1>4, <3>1, RequestKept
  <2>3. CASE ~n.live
    <3>1. RequestSound(m)
      BY DEF SyncInv
    <3>2. /\ n \in Reports => n.stored \subseteq bundles'
          /\ n \in OffsetUpdates => n.offset <= active_offset'
      BY <1>4, <2>1, <3>1 DEF RequestSound
    <3> QED
      BY <2>3, <3>2 DEF RequestSound
  <2> QED
    BY <2>2, <2>3
<1>7. OneAwaited'
  BY <1>6 DEF SyncInv, OneAwaited
<1> QED
  BY <1>4, <1>5, <1>6, <1>7 DEF SyncInv

LEMMA NotConnectedInv ==
  ASSUME SyncInv, NEW r \in Reporters, NotConnected(r)
  PROVE  SyncInv'
<1>1. /\ reporter' = [reporter EXCEPT ![r] = Idle]
      /\ lock' = Released(r)
      /\ \A m \in wire : m.from = r => ~m.live
      /\ UNCHANGED <<volumeVars, wire, registered, centralReplicas, centralOffset, confirmed,
                     failures>>
  BY DEF NotConnected
<1>2. lock' \in Reporters \cup {None} /\ \A q \in Reporters \ {r} : lock = q => lock' = q
  BY <1>1, RequestTypes DEF Released
<1>3. /\ SyncTypeOK' /\ VolumeInv' /\ RecordsSound' /\ Grown
      /\ BundlesAccounted' /\ ConfirmedKnown' /\ OffsetNotAhead'
      /\ UNCHANGED <<active_offset, bundles, records, next_event>>
      /\ reporter'[r] = Idle
      /\ \A q \in Reporters \ {r} : reporter'[q] = reporter[q] /\ ReporterSound(q)'
  BY <1>1, <1>2, IdleCall, CallStep, RequestTypes
<1>4. ReporterSound(r)'
  BY <1>3, IdleSound
<1>5. (\A m \in wire : RequestSound(m))' /\ OneAwaited'
  <2>1. \A m \in wire : m.live => m.from \in Reporters /\ m.from # r
    BY <1>1, AwaitedBy
  <2> QED
    BY <1>1, <1>3, <2>1, WireKept
<1> QED
  BY <1>3, <1>4, <1>5 DEF SyncInv

-----------------------------------------------------------------------------
(* report_bundle_replica: a live report covers what its sender removes.    *)
LEMMA CentralReportInv ==
  ASSUME SyncInv, NEW m \in wire, CentralReport(m)
  PROVE  SyncInv'
<1>1. /\ "stored" \in DOMAIN m
      /\ wire' = wire \ {m}
      /\ centralReplicas' = centralReplicas \cup m.stored
      /\ reporter' = IF m.live THEN [reporter EXCEPT ![m.from].pc = "reported"] ELSE reporter
      /\ UNCHANGED <<volumeVars, lock, registered, centralOffset, confirmed, failures>>
  BY DEF CentralReport
<1>2. m \in Reports /\ m.from \in Reporters /\ RequestSound(m) /\ m.stored \subseteq BundleIds
  <2>1. m \in Reports
    BY <1>1, SyncTypes, RequestKinds
  <2> QED
    BY <2>1 DEF Reports, SyncInv
<1>3. VolumeInv' /\ RecordsSound' /\ Grown /\ VolumeTypeOK'
  BY <1>1, VolumeUntouched
<1>4. UNCHANGED <<active_offset, bundles, records, next_event>>
  BY <1>1 DEF volumeVars
<1>5. PICK call : call = [reporter[m.from] EXCEPT !.pc = "reported"]
  OBVIOUS
<1>6. /\ call \in Calls /\ call.pc = "reported" /\ call.max = reporter[m.from].max
      /\ call.bundle = reporter[m.from].bundle
  BY <1>2, <1>5, SyncTypes DEF Calls
<1>7. /\ m.live => reporter'[m.from] = call
      /\ ~m.live => reporter'[m.from] = reporter[m.from]
      /\ \A q \in Reporters \ {m.from} : reporter'[q] = reporter[q]
      /\ reporter' \in [Reporters -> Calls]
  <2>1. m.live => reporter' = [reporter EXCEPT ![m.from] = call]
    BY <1>1, <1>5
  <2>2. ~m.live => reporter' = reporter
    BY <1>1
  <2>3. m.live \in BOOLEAN
    BY <1>2, RequestKinds
  <2> QED
    BY <1>2, <1>6, <2>1, <2>2, <2>3, SyncTypes
<1>8. SyncTypeOK'
  BY <1>1, <1>2, <1>3, <1>7 DEF SyncInv, SyncTypeOK
<1>9. ReporterSound(m.from)'
  <2>1. CASE m.live
    <3>1. /\ reporter[m.from].pc = "reporting"
          /\ Covered(reporter[m.from].max, records, m.stored)
      BY <1>2, <2>1 DEF RequestSound
    <3>2. Covered(call.max, records', centralReplicas')
      BY <1>1, <1>4, <1>6, <3>1 DEF Covered
    <3>3. ReporterSound(m.from)
      BY <1>2 DEF SyncInv
    <3> QED
      BY <1>1, <1>4, <1>6, <1>7, <2>1, <3>1, <3>2, <3>3 DEF ReporterSound, Syncing
  <2>2. CASE ~m.live
    BY <1>1, <1>2, <1>3, <1>7, <1>8, <2>2, ReporterKept
  <2> QED
    BY <2>1, <2>2
<1>10. \A q \in Reporters : ReporterSound(q)'
  BY <1>1, <1>3, <1>7, <1>8, <1>9, ReporterKept
<1>11. (\A n \in wire : RequestSound(n))' /\ OneAwaited'
  <2>1. \A n \in wire' : n.live => n.from \in Reporters /\ (m.live => n.from # m.from)
    BY <1>1, AwaitedBy DEF SyncInv, OneAwaited
  <2> QED
    BY <1>1, <1>3, <1>7, <1>8, <2>1, WireKept
<1>12. BundlesAccounted'
  BY <1>1, <1>2, <1>4 DEF SyncInv, BundlesAccounted, RequestSound
<1>13. ConfirmedKnown' /\ OffsetNotAhead'
  BY <1>1, <1>4 DEF SyncInv, ConfirmedKnown, OffsetNotAhead
<1> QED
  BY <1>3, <1>8, <1>10, <1>11, <1>12, <1>13 DEF SyncInv

(* update_storage_volume_offset: the answer confirms only a known bundle.  *)
LEMMA CentralOffsetInv ==
  ASSUME SyncInv, NEW m \in wire, CentralOffset(m)
  PROVE  SyncInv'
<1>1. /\ "offset" \in DOMAIN m
      /\ wire' = wire \ {m}
      /\ centralOffset' = m.offset
      /\ m.live => /\ reporter' = [reporter EXCEPT ![m.from] = Idle]
                   /\ lock' = Released(m.from)
                   /\ confirmed' = confirmed \cup ({reporter[m.from].bundle} \ {None})
      /\ ~m.live => UNCHANGED <<reporter, lock, confirmed>>
      /\ UNCHANGED <<volumeVars, registered, centralReplicas, failures>>
  BY DEF CentralOffset, NewOffset
<1>2. /\ m \in OffsetUpdates /\ m.from \in Reporters /\ RequestSound(m) /\ m.offset \in Nat
      /\ m.live \in BOOLEAN /\ m.offset <= active_offset
  <2>1. m \in OffsetUpdates
    BY <1>1, SyncTypes, RequestKinds
  <2> QED
    BY <2>1 DEF OffsetUpdates, SyncInv, RequestSound
<1>3. VolumeInv' /\ RecordsSound' /\ Grown /\ VolumeTypeOK'
  BY <1>1, VolumeUntouched
<1>4. UNCHANGED <<active_offset, bundles, records, next_event>>
  BY <1>1 DEF volumeVars
<1>5. /\ m.live => reporter'[m.from] = Idle
      /\ ~m.live => reporter'[m.from] = reporter[m.from]
      /\ \A q \in Reporters \ {m.from} : reporter'[q] = reporter[q] /\ (lock = q => lock' = q)
      /\ reporter' \in [Reporters -> Calls]
      /\ lock' \in Reporters \cup {None}
  BY <1>1, <1>2, SyncTypes, RequestTypes, IdleCall DEF Released
<1>6. confirmed' \subseteq centralReplicas'
  <2>1. CASE m.live
    <3>1. reporter[m.from].pc = "offset" /\ ReporterSound(m.from)
      BY <1>2, <2>1 DEF RequestSound, SyncInv
    <3> QED
      BY <1>1, <2>1, <3>1 DEF ReporterSound, SyncInv, ConfirmedKnown
  <2>2. CASE ~m.live
    BY <1>1, <2>2 DEF SyncInv, ConfirmedKnown
  <2> QED
    BY <2>1, <2>2
<1>7. SyncTypeOK'
  BY <1>1, <1>2, <1>3, <1>5, <1>6 DEF SyncInv, SyncTypeOK
<1>8. \A q \in Reporters : ReporterSound(q)'
  <2>1. m.live => ReporterSound(m.from)'
    BY <1>2, <1>3, <1>5, <1>7, IdleSound
  <2>2. ~m.live => ReporterSound(m.from)'
    BY <1>1, <1>2, <1>3, <1>5, <1>7, ReporterKept
  <2>3. \A q \in Reporters \ {m.from} : ReporterSound(q)'
    BY <1>3, <1>5, <1>7, ReporterKept
  <2> QED
    BY <1>2, <2>1, <2>2, <2>3
<1>9. (\A n \in wire : RequestSound(n))' /\ OneAwaited'
  <2>1. \A n \in wire' : n.live => n.from \in Reporters /\ (m.live => n.from # m.from)
    BY <1>1, AwaitedBy DEF SyncInv, OneAwaited
  <2> QED
    BY <1>1, <1>2, <1>3, <1>5, <1>7, <2>1, WireKept
<1>10. BundlesAccounted' /\ ConfirmedKnown' /\ OffsetNotAhead'
  BY <1>1, <1>2, <1>4, <1>6 DEF SyncInv, BundlesAccounted, ConfirmedKnown, OffsetNotAhead
<1> QED
  BY <1>3, <1>7, <1>8, <1>9, <1>10 DEF SyncInv

LEMMA RegisterInv ==
  ASSUME SyncInv, Register
  PROVE  SyncInv'
<1>1. /\ registered' = TRUE /\ centralOffset' = Max2(centralOffset, active_offset)
      /\ UNCHANGED <<volumeVars, lock, reporter, wire, centralReplicas, confirmed, failures>>
  BY DEF Register
<1>2. VolumeInv' /\ RecordsSound' /\ Grown /\ VolumeTypeOK'
  BY <1>1, VolumeUntouched
<1>3. UNCHANGED <<active_offset, bundles, records, next_event>>
  BY <1>1 DEF volumeVars
<1>4. centralOffset' = active_offset
  BY <1>1, SyncTypes DEF Max2, SyncInv, OffsetNotAhead
<1>5. SyncTypeOK'
  BY <1>1, <1>2, <1>4, SyncTypes DEF SyncInv, SyncTypeOK
<1>6. \A q \in Reporters : ReporterSound(q)'
  BY <1>1, <1>2, <1>5, ReporterKept
<1>7. (\A n \in wire : RequestSound(n))' /\ OneAwaited'
  BY <1>1, <1>2, <1>5, WireKept
<1>8. BundlesAccounted' /\ ConfirmedKnown' /\ OffsetNotAhead'
  BY <1>1, <1>3, <1>4, SyncTypes DEF SyncInv, BundlesAccounted, ConfirmedKnown, OffsetNotAhead
<1> QED
  BY <1>2, <1>5, <1>6, <1>7, <1>8 DEF SyncInv

LEMMA ConnectionLostInv ==
  ASSUME SyncInv, ConnectionLost
  PROVE  SyncInv'
<1>1. /\ registered' = FALSE /\ wire' = {} /\ failures' \in 0 .. MaxFailures
      /\ UNCHANGED <<volumeVars, lock, reporter, centralReplicas, centralOffset, confirmed>>
  BY RequestTypes DEF ConnectionLost, Failure
<1>2. VolumeInv' /\ RecordsSound' /\ Grown /\ VolumeTypeOK'
  BY <1>1, VolumeUntouched
<1>3. SyncTypeOK'
  BY <1>1, <1>2 DEF SyncInv, SyncTypeOK
<1>4. \A q \in Reporters : ReporterSound(q)'
  BY <1>1, <1>2, <1>3, ReporterKept
<1>5. (\A n \in wire : RequestSound(n))' /\ OneAwaited'
  BY <1>1 DEF OneAwaited
<1>6. BundlesAccounted' /\ ConfirmedKnown' /\ OffsetNotAhead'
  BY <1>1, CentralUntouched
<1> QED
  BY <1>2, <1>3, <1>4, <1>5, <1>6 DEF SyncInv

(* A crash ends all calls; the tables of both sides are durable.           *)
LEMMA StorageCrashInv ==
  ASSUME SyncInv, StorageCrash
  PROVE  SyncInv'
<1>1. /\ CrashAndOpen /\ failures' \in 0 .. MaxFailures
      /\ lock' = None /\ reporter' = [r \in Reporters |-> Idle]
      /\ registered' = FALSE /\ wire' = {}
      /\ UNCHANGED <<centralReplicas, centralOffset, confirmed>>
  BY RequestTypes DEF StorageCrash, Failure
<1>2. VolumeInv' /\ UNCHANGED <<active_offset, bundles, records, next_event>>
  BY <1>1, CrashInv DEF SyncInv, CrashAndOpen, volumeDb
<1>3. SyncTypeOK' /\ RecordsSound'
  BY <1>1, <1>2, IdleCall DEF SyncInv, SyncTypeOK, VolumeInv, RecordsSound
<1>4. \A q \in Reporters : ReporterSound(q)'
  BY <1>1, <1>3, IdleSound
<1>5. (\A n \in wire : RequestSound(n))' /\ OneAwaited'
  BY <1>1 DEF OneAwaited
<1>6. BundlesAccounted' /\ ConfirmedKnown' /\ OffsetNotAhead'
  BY <1>1, <1>2 DEF SyncInv, BundlesAccounted, ConfirmedKnown, OffsetNotAhead
<1> QED
  BY <1>2, <1>3, <1>4, <1>5, <1>6 DEF SyncInv

-----------------------------------------------------------------------------
LEMMA SyncInitInv == SyncInit => SyncInv
<1> SUFFICES ASSUME SyncInit PROVE SyncInv
  OBVIOUS
<1>1. VolumeInv /\ active_offset = 0 /\ bundles = {} /\ next_event = 1
      /\ records = [b \in BundleIds |-> None]
  BY VolumeInitInv DEF SyncInit, VolumeInit
<1>2. SyncTypeOK
  <2>1. reporter \in [Reporters -> Calls]
    BY IdleCall DEF SyncInit
  <2>2. failures \in 0 .. MaxFailures
    <3>1. MaxFailures \in Nat /\ failures = 0
      BY SyncAssumption DEF SyncInit
    <3> QED
      BY <3>1
  <2> QED
    BY <1>1, <2>1, <2>2 DEF SyncInit, SyncTypeOK, VolumeInv
<1>3. RecordsSound /\ \A r \in Reporters : ReporterSound(r)
  BY <1>1 DEF SyncInit, RecordsSound, ReporterSound, Syncing, Idle
<1> QED
  BY <1>1, <1>2, <1>3
  DEF SyncInit, SyncInv, OneAwaited, BundlesAccounted, ConfirmedKnown, OffsetNotAhead

LEMMA SyncStepInv == SyncInv /\ [SyncNext]_allVars => SyncInv'
<1> SUFFICES ASSUME SyncInv, [SyncNext]_allVars PROVE SyncInv'
  OBVIOUS
<1>1. ASSUME NEW r \in Reporters, ReporterStep(r) \/ Abandon(r) PROVE SyncInv'
  BY <1>1, TakeLockInv, ReadRecordsInv, ReadOffsetInv, RemoveReportedInv, NotConnectedInv,
     AbandonInv DEF ReporterStep
<1>2. CASE CentralStep
  BY <1>2, CentralReportInv, CentralOffsetInv DEF CentralStep
<1>3. CASE UNCHANGED allVars
  <2>1. UNCHANGED volumeVars /\ UNCHANGED <<lock, reporter, wire, registered, centralReplicas,
                                            centralOffset, confirmed, failures>>
    BY <1>3 DEF allVars, syncVars
  <2>2. VolumeInv' /\ RecordsSound' /\ Grown /\ VolumeTypeOK'
    BY <2>1, VolumeUntouched
  <2>3. SyncTypeOK'
    BY <2>1, <2>2 DEF SyncInv, SyncTypeOK
  <2>4. \A q \in Reporters : ReporterSound(q)'
    BY <2>1, <2>2, <2>3, ReporterKept
  <2>5. (\A n \in wire : RequestSound(n))' /\ OneAwaited'
    BY <2>1, <2>2, <2>3, WireKept
  <2> QED
    BY <2>1, <2>2, <2>3, <2>4, <2>5, CentralUntouched DEF SyncInv
<1> QED
  BY <1>1, <1>2, <1>3, PutSyncedInv, UploadCommitInv, PeriodicSyncInv, RegisterInv,
     ConnectionLostInv, StorageCrashInv DEF SyncNext

LEMMA SyncInvariant == SyncSpec => []SyncInv
  BY SyncInitInv, SyncStepInv, PTL DEF SyncSpec

(* Every committed bundle is at central or still has its change record,    *)
(* and central knows no bundle the volume lacks, whatever requests time    *)
(* out, arrive late or are lost (sync_volume removes records only after    *)
(* report_bundle_replica answered).                                        *)
THEOREM BundlesNotForgotten == SyncSpec => []BundlesAccounted
<1>1. SyncInv => BundlesAccounted
  BY DEF SyncInv
<1> QED
  BY <1>1, SyncInvariant, PTL

(* commit_bundle answers Ok only for a bundle central already has, also    *)
(* when another call reported it (the volume's sync lock).                 *)
THEOREM ConfirmedBundlesKnown == SyncSpec => []ConfirmedKnown
<1>1. SyncInv => ConfirmedKnown
  BY DEF SyncInv
<1> QED
  BY <1>1, SyncInvariant, PTL

(* Central's offset of a volume never exceeds the volume's own, though     *)
(* late updates overwrite newer ones (update_storage_volume_offset).       *)
THEOREM OffsetsNotAhead == SyncSpec => []OffsetNotAhead
<1>1. SyncInv => OffsetNotAhead
  BY DEF SyncInv
<1> QED
  BY <1>1, SyncInvariant, PTL
=============================================================================
