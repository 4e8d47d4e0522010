---------------------------- MODULE ReplicaSync ----------------------------
(***************************************************************************)
(* A storage server's volume and what the central server knows of it:      *)
(* commit_bundle at the storage server, BundleReporter::sync_volume run by *)
(* commit_bundle and by the periodic reporter, the control connection,     *)
(* and the central handlers report_bundle_replica,                         *)
(* update_storage_volume_offset and register_storage.                      *)
(*                                                                         *)
(* The storage server never calls delete_chunk or delete_bundle, so of     *)
(* Volume only the puts, commit_bundle, the change records and crashes     *)
(* occur.  Requests travel on streams of their own and may be handled in   *)
(* any order, and after the sender has timed out; none outlives its        *)
(* connection.                                                             *)
(***************************************************************************)
EXTENDS Volume

CONSTANTS Uploads,     \* connections that send commit_bundle
          Periodic,    \* the periodic reporter task
          BatchSize,   \* change records read at a time (128)
          MaxFailures  \* bound: timeouts, aborts, disconnections, crashes

Reporters == Uploads \cup {Periodic}

ASSUME SyncAssumption ==
  /\ BatchSize \in Nat \ {0} /\ MaxFailures \in Nat
  /\ None \notin Reporters

VARIABLES lock,            \* holder of the volume's volume_sync_lock
          reporter,        \* sync_volume calls
          wire,            \* requests to central, some given up by their sender
          registered,      \* central has the volume in online_volumes
          centralReplicas, \* bundles of bundle_replicas for this volume
          centralOffset,   \* max_volume_offset of volumes
          confirmed,       \* history: bundles commit_bundle answered Ok for
          failures

syncVars == <<lock, reporter, wire, registered, centralReplicas, centralOffset,
              confirmed, failures>>
allVars == <<volumeVars, syncVars>>

Idle == [pc |-> "idle", bundle |-> None, max |-> 0]
Calls == [pc : {"idle", "waiting", "reading", "reporting", "reported", "offset"},
          bundle : BundleIds \cup {None}, max : Nat]
Requests == [from : Reporters, live : BOOLEAN, stored : SUBSET BundleIds]
            \cup [from : Reporters, live : BOOLEAN, offset : Nat]

SyncTypeOK ==
  /\ VolumeTypeOK
  /\ lock \in Reporters \cup {None}
  /\ reporter \in [Reporters -> Calls]
  /\ wire \subseteq Requests
  /\ registered \in BOOLEAN
  /\ centralReplicas \subseteq BundleIds
  /\ centralOffset \in Nat
  /\ confirmed \subseteq BundleIds
  /\ failures \in 0 .. MaxFailures

SyncInit ==
  /\ VolumeInit
  /\ lock = None
  /\ reporter = [r \in Reporters |-> Idle]
  /\ wire = {}
  /\ registered = FALSE
  /\ centralReplicas = {}
  /\ centralOffset = 0
  /\ confirmed = {}
  /\ failures = 0

-----------------------------------------------------------------------------
Move(r, pc) == reporter' = [reporter EXCEPT ![r].pc = pc]

(* The requests of r after it stopped waiting for one.                     *)
GivenUp(r) == {[m EXCEPT !.live = (m.live /\ m.from # r)] : m \in wire}

Failure == failures < MaxFailures /\ failures' = failures + 1

(* commit_bundle at the storage server: commit to the volume, which        *)
(* answers at once for a bundle it has, then sync the volume.              *)
UploadCommit(r, b) ==
  /\ r \in Uploads /\ reporter[r].pc = "idle"
  /\ CommitBundle(b) \/ (b \in bundles /\ UNCHANGED volumeVars)
  /\ reporter' = [reporter EXCEPT ![r] = [Idle EXCEPT !.pc = "waiting", !.bundle = b]]
  /\ UNCHANGED <<lock, wire, registered, centralReplicas, centralOffset, confirmed, failures>>

PeriodicSync ==
  /\ reporter[Periodic].pc = "idle"
  /\ Move(Periodic, "waiting")
  /\ UNCHANGED <<volumeVars, lock, wire, registered, centralReplicas, centralOffset,
                 confirmed, failures>>

TakeLock(r) ==
  /\ reporter[r].pc = "waiting"
  /\ lock = None
  /\ lock' = r
  /\ Move(r, "reading")
  /\ UNCHANGED <<volumeVars, wire, registered, centralReplicas, centralOffset,
                 confirmed, failures>>

(* get_bundle_change_records: the oldest BatchSize of them.                *)
Pending == {b \in BundleIds : records[b] # None}
Batch_short == {b \in Pending :
                  Cardinality({e \in Pending : records[e].id < records[b].id}) < BatchSize - 1}
Batch == {b \in Pending :
            Cardinality({e \in Pending : records[e].id < records[b].id}) < BatchSize}
LastId_next == next_event
LastId == CHOOSE i \in {records[b].id : b \in Batch} : \A b \in Batch : records[b].id <= i

Send(m) == wire' = IF registered THEN wire \cup {m} ELSE wire

ReadRecords(r) ==
  /\ reporter[r].pc = "reading"
  /\ Batch # {}
  /\ reporter' = [reporter EXCEPT ![r].pc = "reporting", ![r].max = LastId]
  /\ Send([from |-> r, live |-> TRUE, stored |-> Batch])
  /\ UNCHANGED <<volumeVars, lock, registered, centralReplicas, centralOffset,
                 confirmed, failures>>

ReadOffset(r) ==
  /\ reporter[r].pc = "reading"
  /\ Batch = {}
  /\ Move(r, "offset")
  /\ Send([from |-> r, live |-> TRUE, offset |-> active_offset])
  /\ UNCHANGED <<volumeVars, lock, registered, centralReplicas, centralOffset,
                 confirmed, failures>>

(* The records are removed once the report is answered.                    *)
RemoveReported(r) ==
  /\ reporter[r].pc = "reported"
  /\ RemoveRecords(reporter[r].max)
  /\ Move(r, "reading")
  /\ UNCHANGED <<lock, wire, registered, centralReplicas, centralOffset, confirmed, failures>>

(* The sync lock after r's guard is dropped.                               *)
Released_kept(r) == lock
Released(r) == IF lock = r THEN None ELSE lock

(* The call ends early: a request fails or times out, or the task is       *)
(* aborted where it awaits.  Its guard releases the lock.                  *)
Abandon(r) ==
  /\ reporter[r].pc # "idle"
  /\ Failure
  /\ reporter' = [reporter EXCEPT ![r] = Idle]
  /\ lock' = Released(r)
  /\ wire' = GivenUp(r)
  /\ UNCHANGED <<volumeVars, registered, centralReplicas, centralOffset, confirmed>>

(* No connection: the request fails without being sent.                    *)
NotConnected(r) ==
  /\ reporter[r].pc \in {"reporting", "offset"}
  /\ \A m \in wire : m.from = r => ~m.live
  /\ reporter' = [reporter EXCEPT ![r] = Idle]
  /\ lock' = Released(r)
  /\ UNCHANGED <<volumeVars, wire, registered, centralReplicas, centralOffset,
                 confirmed, failures>>

-----------------------------------------------------------------------------
(* report_bundle_replica at central, one transaction.                      *)
CentralReport(m) ==
  /\ m \in wire /\ "stored" \in DOMAIN m
  /\ wire' = wire \ {m}
  /\ centralReplicas' = centralReplicas \cup m.stored
  /\ reporter' = IF m.live THEN [reporter EXCEPT ![m.from].pc = "reported"] ELSE reporter
  /\ UNCHANGED <<volumeVars, lock, registered, centralOffset, confirmed, failures>>

(* update_storage_volume_offset at central: SET, not MAX.  Its answer ends *)
(* sync_volume, and commit_bundle with it.                                 *)
NewOffset_added(m) == centralOffset + m.offset
NewOffset_once(m) == IF centralOffset = 0 THEN m.offset ELSE centralOffset
NewOffset(m) == m.offset

CentralOffset(m) ==
  /\ m \in wire /\ "offset" \in DOMAIN m
  /\ wire' = wire \ {m}
  /\ centralOffset' = NewOffset(m)
  /\ IF m.live
       THEN /\ reporter' = [reporter EXCEPT ![m.from] = Idle]
            /\ lock' = Released(m.from)
            /\ confirmed' = confirmed \cup ({reporter[m.from].bundle} \ {None})
       ELSE UNCHANGED <<reporter, lock, confirmed>>
  /\ UNCHANGED <<volumeVars, registered, centralReplicas, failures>>

Max2(x, y) == IF x >= y THEN x ELSE y

(* The storage server connects again: register_storage takes the larger of *)
(* the two offsets.                                                        *)
Register ==
  /\ ~registered
  /\ registered' = TRUE
  /\ centralOffset' = Max2(centralOffset, active_offset)
  /\ UNCHANGED <<volumeVars, lock, reporter, wire, centralReplicas, confirmed, failures>>

(* The connection breaks, or central restarts.                             *)
ConnectionLost ==
  /\ registered
  /\ Failure
  /\ registered' = FALSE
  /\ wire' = {}
  /\ UNCHANGED <<volumeVars, lock, reporter, centralReplicas, centralOffset, confirmed>>

StorageCrash ==
  /\ CrashAndOpen
  /\ Failure
  /\ lock' = None
  /\ reporter' = [r \in Reporters |-> Idle]
  /\ registered' = FALSE
  /\ wire' = {}
  /\ UNCHANGED <<centralReplicas, centralOffset, confirmed>>

ReporterStep(r) ==
  \/ TakeLock(r)
  \/ ReadRecords(r)
  \/ ReadOffset(r)
  \/ RemoveReported(r)
  \/ NotConnected(r)

CentralStep == \E m \in wire : CentralReport(m) \/ CentralOffset(m)

SyncNext ==
  \/ VolumePut /\ UNCHANGED syncVars
  \/ \E r \in Uploads, b \in BundleIds : UploadCommit(r, b)
  \/ PeriodicSync
  \/ \E r \in Reporters : ReporterStep(r) \/ Abandon(r)
  \/ CentralStep
  \/ Register
  \/ ConnectionLost
  \/ StorageCrash

SyncSpec == SyncInit /\ [][SyncNext]_allVars

(* The reporter loop runs every minute and the connection loop redials for *)
(* ever; the locks are fair (tokio::sync::Mutex queues its waiters); a     *)
(* request on a live connection is handled.                                *)
SyncFairness ==
  /\ WF_allVars(PeriodicSync)
  /\ \A r \in Reporters : SF_allVars(TakeLock(r)) /\ WF_allVars(ReporterStep(r))
  /\ WF_allVars(CentralStep)
  /\ WF_allVars(Register)

FairSyncSpec == SyncSpec /\ SyncFairness

-----------------------------------------------------------------------------
(* No committed bundle is forgotten: until central has a replica of it,    *)
(* its change record is there to be reported again, whatever timed out,    *)
(* was aborted or crashed on the way.  Nor does central believe in a       *)
(* bundle the volume does not hold.                                        *)
BundlesAccounted ==
  /\ \A b \in bundles : b \in centralReplicas \/ records[b] # None
  /\ centralReplicas \subseteq bundles

(* When commit_bundle answers Ok, central can already use the bundle (so   *)
(* commit_update does not answer ChunkNotReady), also when another call    *)
(* reported it.                                                            *)
ConfirmedKnown == confirmed \subseteq centralReplicas

(* Central never takes a volume for fuller than it is.                     *)
OffsetNotAhead == centralOffset <= active_offset

(* Every committed bundle is known to central in the end.                  *)
BundlesReported ==
  \A b \in BundleIds : (b \in bundles) ~> (b \in centralReplicas)

(* The offsets agree in the end: a late, older update_storage_volume_offset*)
(* that overwrote a newer one is put right by a later sync.                *)
OffsetsConverge == <>[](centralOffset = active_offset)
=============================================================================
