# TLA+ models of fs0

fs0 is a small distributed file store: a *central* server keeps the metadata in
SQLite, *storage* servers keep compressed chunks in *volumes*, and *clients* put
and get files. This directory holds TLA+ models of the parts where the order of
steps matters, the TLC configurations that check them, and TLAPS proofs of
their safety for every value of the constants. `PROJECT.json` lists components,
runs, slips, the source lines each definition stands for, findings, hazards and
theorems.

    tlc -workers 2 -config MCVolumeCalls.cfg MCVolume   # any run of PROJECT.json
    tlapm VolumeProofs.tla                              # any module named ...Proofs

## 1. Inventory

| component | state | operations | talks to |
|---|---|---|---|
| volume (`fs0-volume`) | SQLite tables chunks, bundle_chunks, bundle_change_records, volume_meta; data files of 4 GB; cached file handles | put_chunk, read_chunk, delete_chunk, commit_bundle, delete_bundle, read / remove change records | called by the storage server from many tasks at once |
| central database (`fs0-central/src/db`) | dirs, files, file_bundles, bundle_replicas, update_leases, file_events, volumes; a cache of directory ids and paths | one transaction per handler section, under one mutex | called by the handlers |
| central handlers (`request_handlers`) | handlers in progress | begin / commit / abort update, read plan, list, copy, rename, delete, report_bundle_replica, update_storage_volume_offset | storage servers (grant / revoke upload lease) |
| central server (`server.rs`, `server/spawn.rs`) | online_volumes, storage peers, clients, control connections | register / unregister storage and client, broadcast of peer events | storage servers and clients |
| storage server (`fs0-storage`) | volumes, upload_leases, central connection | upload / download chunk, has / commit bundle, grant / revoke lease, expiry loop, reporter loop, redial loop, endpoint watcher | central, clients |
| client (`fs0-client`) | central session with a list of peers, storage sessions, request scheduler, transfers | upload_file, download_file and the metadata requests | central, storage servers |
| transport (`fs0-transport`) | connections, one stream per request | request with a timeout, accept loop, abort of handlers on close | all |
| relay, configuration, command line, protocol types | none that matters here | | |

How a file gets in: the client asks central for an update lease
(`begin_update`); central picks a volume, writes the lease row and grants it to
the storage server; the client uploads chunks and commits bundles there; the
storage server reports each bundle to central; `commit_update` checks the lease,
that each bundle has a replica, and installs the bundle list.

What is hard, and the properties that make each part correct:

* **volume** – two locked sections around an unlocked blocking write, which goes
  on when its request is aborted; crashes between any two of them; file and
  volume boundaries. Ranges never overlap, rows always name durable bytes, a
  bundle never misses a chunk, a folded change record tells the last change.
* **central handlers** – leases expire between a check and its use, and by the
  storage host's clock at another time than by central's; grants and revocations
  are lost or late, a path is looked up in one transaction and used in another;
  the length of a bundle is kept for each replica, and a commit and a later read
  plan take it from different ones. No update is lost or applied twice, a read
  plan covers its file, the paths form a tree, the change log replays to the
  tables.
* **directory cache** – filled inside transactions that may be rolled back,
  trimmed while a walk uses it.
* **locks of central** – a mutex and several read-write locks nested in two
  orders, with a read-write lock whose waiting writer stops new readers.
* **registration** – a server redials before its old connection is cleaned up; a
  connection is cleaned up before its own request has run; an address changes
  while a report of it is lost or late. Volumes have one owner, and in the end
  every server is registered again and central has its address.
* **bundle reporter** – retries, late requests, several callers of one sync.
* **request scheduler and transfers** – a finished slot that is still in the
  map, executions shared between transfers, the last callback against the end
  of scheduling, a caller that is cancelled while it waits, reads that return
  less than was asked for. Every request is answered once, every transfer ends,
  and what is downloaded is what was uploaded.
* **client session** – peer events on separate streams, snapshots that race with
  them, ids that restart with central, cached sessions with a stale client id.
  No change is missed, a session leads to the server it is for, and a client
  that goes on reaches its servers again.

## 2. Modules

`X.tla` is a component, `MCX.tla` gives constants their values for TLC, a
`.cfg` is one run. A definition named `X_word` is `X` with a slip that a change
to the code could make. No specification uses it; each property is checked to
fail when such a slip replaces the real definition.

**Volume** (`volume.rs`, `db.rs`, `data_file_cache.rs` of fs0-volume). A put
is a process: `PutReserve` (first locked section: no row, room, reserve the
range), `PutWrite`, `PutSync` (blocking thread), `PutInsert` (second locked
section, ON CONFLICT DO NOTHING); `PutFail`, `PutCancel` (the future is dropped;
the write goes on) and `PutForgotten` are its other ends. A read is
`ReadLookup`, then `ReadBytes`. Bytes on disk are modelled one by one, with the
ones not yet synced in `dirty`; `CrashAndOpen` makes any of those, and any that a write was
busy with, unknown. Bundles, change records and their AUTOINCREMENT follow the SQL.

**Central** (handlers of `update.rs`, `client.rs`, `storage.rs`, with the
tables). One action per transaction; a handler with two transactions, or one
that awaits the storage server, keeps what it holds in `handler[c]`. Grants and
revocations are messages that are delivered late or lost; `RetainUnexpired`,
`StorageRestart` and `CentralRestart` are the storage server's expiry and the
restarts. Central stamps a lease with its own clock, `now` (`Tick`), and checks it
by that one; the storage server of each volume compares the same stamp with
`clock` of its host (`StorageTick`). The clocks only move forward and are
otherwise unrelated. `replicas` has a length for each bundle and volume, which
reports overwrite and delete; `BundlesAgree` is the three checks `commit_update`
makes of the lengths and sizes a client submits, against the first replica of
each bundle (`LenAmong`) and, once the list is installed, their sum
(`SizeAmong`). A client may submit any request of `Commits`, wrong ones too.
Directories are paths here. `over` and `lost` of a lease are history, not columns.
The volume a `begin_update` gets is any online one: the choice filters a snapshot
of the peers and their offsets and keeps no state; how far the offsets lag is
ReplicaSync's `OffsetNotAhead` and `OffsetsConverge`.
**FileStore** is the abstract specification: files with contents, and updates
that are begun over a content and then committed over that same content at
most once, or given up. `Store` in Central is the refinement mapping and
`UpdatesAtomic` the property `Store!Spec`.

**DirCache** (`db/dir.rs`, with the callers in `file.rs` and `client.rs`).
Directory rows with ids that SQLite may reuse, the two maps of the cache with
their use order and trimming, and a transaction that fails at any of its
checks, or (`CommitFails`) at its commit.

**CentralLocks** (all handlers of central). A handler is the sequence of its
lock steps: acquire, drop a guard, return early. The read-write locks follow
parking_lot: a waiting writer stops new readers. `EarlyReturn` drops all guards.

**Registration** (`server.rs`, `spawn.rs` of central, `central_connection.rs` of
storage). Dial, mount, refuse, insert, break, retry, and the clean-up of a
broken connection in the two steps the code takes. A server whose first
registration fails gives up (`CloseRefused`); one that has started (`Start`)
redials for ever. A request runs in a task of its own, which is told to stop when
the connection closes but stops only at an await. Most are stopped before they
take the identity lock (`DropAnonymous`) or hold it until they are done; one that
has been read and has not taken the lock may lose it to the clean-up (`Outrun`),
and registers its server all the same, after the clean-up found nothing to do.
**EndpointReport** (`central_connection.rs`, `update_storage_endpoint` of both
sides; extends Registration) adds the address of each server, the sample a
registration sends, and the watcher: `Notice`, then `Skip`, `Unavailable` or
`Report`, and the report's ends `Reported`, `ReportFails`, `ReportTimesOut`,
after which `HandleLate` may still apply it. `disowned` and `unwatched` are
history.

**PeerView** (`central_session.rs`, `storage_session.rs` and `client.rs` of the
client, `server.rs` of central, `tasks.rs` of storage). Central's map of peers,
with the broadcast of a change as a step of its own (`Change`, `Broadcast`); the
client's registration in the order of the code (insert the client, take the
snapshot, replace the list, start the listener); events in any order;
`AskStatus` and `SetPeers`; sessions that are made, dialled and authenticated
through central. Registration of a storage server is one step here. `ver`,
`seen`, `era` and `since` are history.

**ReplicaSync** (`bundle_reporter.rs`, `tasks.rs`, `data.rs` of storage; extends
Volume). `sync_volume` step by step for uploads and for the periodic loop, the
requests on the wire, central's two handlers, time-outs after which a request
may still be handled, broken connections and crashes. Its put steps are Volume's.

**RequestScheduler** (`request_scheduler.rs`). Slots by hash, callbacks, permits;
`Join` .. `Remove` are the sections between awaits, and `Drop` is a caller whose
future is dropped at one of them. **Transfer** (`client.rs`,
`storage_session.rs`; extends RequestScheduler) adds uploads and downloads with
the shared counter, first error and oneshot channel; `Cancel` drops a transfer
with the request it is waiting for.

**Layout** (`upload_file_inner` and `download_file_chunks` of `client.rs`). Reads
of any length up to a chunk, bundles that end full or early, and the offset and
length a download computes from the indexes alone. It has the sizes of the code
and is proved instead of run: with chunks of 1 MiB and bundles of 128 MiB no
instance is small, and the proof uses nothing of the sizes but that they are
positive (lemma `Sizes`).

## 3. Runs

| run | shows | bounds, and why they are enough |
|---|---|---|
| volume | `NoOverlap`, `WithinDataFile`, `StoredChunksIntact`, `ReadsIntact`, `BundlesComplete`, `RecordsAgree`, `RowsStable` | two chunks, two writers, a reader; two files of 2 bytes, payloads of 0, 1, 2 and 4: some are refused, some skip to the next file, some no longer fit; two bundles that share a chunk, two event ids, so records are folded, removed and made anew |
| central_updates | `NoLostUpdate`, `GrantHeld`, `FilesReadable`, `LogReplays`, `UpdatesAtomic` | one path, two file ids, two leases and connections, both clocks 0..1 with a lease time of 1: a lease can expire by either clock first, a second be given, a file be updated twice or deleted and made again; no replica is reported as deleted, as `FilesReadable` needs |
| central_tree | `PlansAddUp`, `PathsFormTree`, `LogReplays` | three paths, one below another, so that a path can be wanted as a file and as a directory; two files, one made by an update and one by a copy; two connections, three events; two volumes, commits of no or two bundles with right and wrong lengths and sizes; copies and renames go to the two paths that exclude each other: the replica a commit checks can be deleted or offline when the plan is made. No clock moves: expiry is central_updates'. Replicas with conflicting lengths, longer logs and more bundles are left to the theorems |
| replica_sync | `BundlesAccounted`, `ConfirmedKnown`, `OffsetNotAhead`; `BundlesReported`, `OffsetsConverge` | an upload and the loop as concurrent reporters, two bundles, batches of one record, two failures of any kind (a late request needs one, its overtaking by a retry none) |
| transfers | `NoStaleSlot`, `OneExecution`, `EveryRequestAnswered` of the scheduler; `RemainCounts`, `ChannelTruthful`, `UploadWhole`, `TransfersEnd` | two transfers of two chunks, one of them common, to two volumes; three hashes and two permits, so executions are shared and permits waited for; uploads or downloads; one transfer cancelled, which may own the common slot |
| registration | `PeersMounted`, `MountsOwned`; `ClosedUnmounted`, `RegisteredAgain`, `EndpointsKnown` | two servers configured with a common volume; three connections, two breaks; two addresses of one server; three faults in all, so that a change, a time-out and a break, or a change there and back around a break, meet; requests that outrun their clean-up, of a server that redials or of the other one |
| peers | `PeersTold`, `ViewRight`, `SessionsRouted`, `ReachableAgain` | two servers of two addresses, three ids (client and both servers, or a server that registers twice), two faults of any kind: events overtake each other, a snapshot overtakes an event, central restarts and gives an id to another server; sessions of one id |
| locks | `RequestsAnswered` | three connections with the mixes of requests of MCCentralLocks: any two of all kinds; three of the kinds that nest locks, without a writer; three with writers, without a report |
| dir_cache | `CachedDirsCommitted`, `MapsAgree`, `FilesWherePut` | a cache of two entries trimmed to one, directories two deep, three files |

The type invariants document the state of a module and are parts of the
invariants that are proved. The bounds are
constants named `Max...`, with `SessionIds` and `Watched`; the `Max...` ones
stand in the guards of the actions that count.
Symmetry is used only in Central's runs (connections and bundle ids are
interchangeable there, and the property that is temporal there, the refinement,
is a safety property).

`CHECK_DEADLOCK FALSE` stands where every call may have returned, every
id or event of the bound been used, or, in Central and DirCache, the
bound be reached; ReplicaSync is checked for deadlock.

### Disagreements found

Three runs are expected to fail; `findings` quotes the lines.

* **download_lost_error** – when all chunks were answered before scheduling
  ended, `download_file_chunks` sends the first error into a channel it then
  does not read, and returns Ok with a chunk missing. Uploads take the same path
  but `commit_bundle` refuses the missing chunk (`UploadWhole`).
* **locks_deadlock** – `report_bundle_replica` holds `online_volumes.read()`
  while it waits for the database; `get_file_read_plan_by_id` (and commit and
  abort of updates) do the opposite. With `unregister_storage` waiting to
  write, all three wait for ever. The passing run shows that it takes all three:
  no pair does it, nor do three without a writer or without a report.
* **dir_cache_rolled_back** – a copy or rename into a new directory remembers
  the directory before its commit; when the commit fails the cache keeps a
  directory that does not exist, whose id the next directory gets. A test says that
  new directories are not cached before the commit.

### Observations

Behaviour the properties had to allow for, which no document speaks against:

* Of two concurrent `put_chunk` calls for one chunk id with different compressed
  bytes, both return Ok, the loser with the winner's metadata (`volume.rs:264`).
  Nothing stored is damaged (`RowsStable`, `StoredChunksIntact`).
* A lease ends for central at `expires_at_ms` by central's clock and for the storage
  server at the same number by its own (`data.rs:37-39`, `update.rs:53-54`). A
  storage host whose clock is ahead drops a lease central still honours, and
  with a skew of a minute it drops every lease at once: its uploads are refused.
  One whose clock is behind keeps leases central has given up, which only costs
  uploads in vain. `GrantHeld` therefore speaks of leases that have expired by
  neither clock; `NoLostUpdate` and `UpdatesAtomic` hold whatever the clocks do.
* A storage server may report another length of a bundle than a replica elsewhere
  has; `insert_bundle_replica` logs the conflict and stores it. The plan of a file
  with such a bundle may not add up to its size (`PlansAddUp` speaks of the
  others). `commit_update` is right about the first replica of the moment only.
* A `RegisterStorage` request that has been read, and waits for the identity lock
  or is about to ask for it when its connection closes, may run after the clean-up
  (`spawn.rs:102,125`; `connection.rs:213`): the volumes it mounts and the peer
  it lists belong to a dead connection, which nothing removes until central
  restarts, and their server is refused with VolumeAlreadyMounted as often as it
  redials. `ClosedUnmounted` and `RegisteredAgain` except exactly this (`outrun`,
  `Orphaned`); without the exceptions TLC refutes both.
* `EndpointsKnown` has three exceptions. The watcher compares with its own copy
  of the last report, which a registration does not touch: a server that
  registered again with an address it had only for a while is not corrected when
  the old one returns (`Flapped`). A report that timed out is handled all the
  same, even after a newer one (`disowned`). An address that changes between the
  first registration and the start of the watch is not an update to the watch
  (`unwatched`).
* The client applies peer events in the order they arrive, and a snapshot when
  its answer does, so an older one may undo a newer one (`Overtaken` in
  `ViewRight`). The list then stays wrong until the next change or registration.
* A cached session keeps the client id it was made with; once the client has
  registered again it is refused for ever (`ReachableAgain` leaves those out).
  Central's ids restart at 1, so after a restart of central a session may lead
  to a server that had the id before (`SessionsRouted` leaves those out).
* A caller dropped while it waits for a permit leaves a slot without a task:
  later requests of that hash join it and are never answered (`Abandoned`).
* An upload one of whose reads was short in the middle of the file is committed,
  and every download of it is refused. `DownloadExact` shows that it is refused
  and never misplaced.

### Fairness

* ReplicaSync: the reporter loop ticks every minute and the redial loop never
  ends (weak fairness); `tokio::sync::Mutex` queues its waiters (strong fairness
  of `TakeLock`); central handles a request on a live connection. Time-outs and
  failures are not fair, only possible.
* Transfer (with RequestScheduler): tokio runs every ready task and its semaphore
  serves waiters in order (strong fairness of `Acquire`), and an execution ends
  because its requests time out (15 s). A transfer may fail to read at any point.
  A cancelled transfer takes no further step.
* EndpointReport (with Registration): central notices a closed connection (idle
  time-out), a server that started dials for ever, its watcher runs, and central
  handles a report on a live connection. Time-outs, breaks and changes of address
  are only possible.
* PeerView: the redial loops of the storage servers, central's handlers and the
  client's listener run; the client dials central again and keeps using the
  sessions it has (`SessionStep`), which is what its callers' requests do.
* CentralLocks: threads run; parking_lot hands a contended lock over
  (strong fairness of each handler's step).

## 4. Proofs

Every invariant, action property and refinement the passing runs check is also a
theorem about all values of the constants; only the liveness properties are not.
The `Max...` bounds are constants like any
other, so the theorems hold for any number of events, failures or ids. TLC
checked each inductive invariant below on the instance of its run before it was
proved. Each proof has one lemma per action, one `...StepInv` or `...NextInv`
that joins them, and a temporal step.

| theorem | states | by |
|---|---|---|
| `VolumeLayout`, `VolumeWithin`, `VolumeDurability`, `VolumeReads`, `VolumeBundles`, `VolumeRecords` | `VolumeSpec => []` `VolumeTypeOK` and `NoOverlap`; `WithinDataFile`; `StoredChunksIntact`; `ReadsIntact`; `BundlesComplete`; `RecordsAgree` | `VolumeInv` |
| `VolumeRowsStable` | `VolumeSpec => RowsStable` (action property) | the types |
| `LayoutSound` | `LayoutSpec => [](DownloadExact /\ FullReadsDownload)` | `LayoutInv` |
| `LeasesProtect`, `PlansRight`, `TreeKept`, `LogReplayed`, `GrantsHeld`, `BundlesFound` | `CentralSpec => []` `NoLostUpdate`; `PlansAddUp`; `PathsFormTree`; `LogReplays`; `GrantHeld`; `FilesReadable` (when no deletion is reported) | `CentralInv` |
| `CentralImplementsStore` | `CentralSpec => UpdatesAtomic`, the refinement of FileStore | `CentralInv` |
| `CacheCommitted`, `CacheMapsAgree`, `FilesPlaced` | DirCache's `Spec => []` `CachedDirsCommitted`; `MapsAgree`; `FilesWherePut` (when no commit fails) | `DirCacheInv` |
| `BundlesNotForgotten`, `ConfirmedBundlesKnown`, `OffsetsNotAhead` | `SyncSpec => []` `BundlesAccounted`; `ConfirmedKnown`; `OffsetNotAhead` | `SyncInv` over `VolumeInv` |
| `EndpointRefines` | `EndpointSpec => RegistrationSpec` | step by step |
| `AdvertisedMounted`, `MountsHaveOwners` | `EndpointSpec => []` `PeersMounted`; `MountsOwned` | `RegistrationInv` |
| `NoChangeMissed`, `ListRight`, `SessionsLead` | `PeerViewSpec => []` `PeersTold`; `ViewRight`; `SessionsRouted` | `PeerViewInv` |
| `SchedulerSafe`, `SlotsFresh` | `SchedulerSpec => []` `OneExecution` and `AnsweredOnce`; `NoStaleSlot` | `SchedulerInv` |
| `TransfersSchedule` | `TransferSpec => SchedulerSpec` | step by step |
| `RemainRight`, `ChannelRight`, `UploadsWhole` | `TransferSpec => []` `RemainCounts`; `ChannelTruthful`; `UploadWhole` | `TransferInv` over `SchedulerInv` |

Assumptions. Each module names the ones of its constants (`VolumeAssumption`,
`CentralAssumption`, ...); TLC evaluates them in the runs. They give constants
their types and say what the code guarantees: a positive data file size and a
volume of at least one file, at least one permit, requests that belong to exactly
one transfer. `None` is the one value of the models that stands for "no row"; it
is assumed to be no row, call, message, reporter or bundle list. `BundlesFound`
assumes that no report deletes a bundle (0 in `Reports`), which is so since nothing calls
`delete_bundle`. The theorems of DirCache assume `~CommitFails`: transactions are
still refused and rolled back at any of their checks, but a commit that the disk
refuses would leave a new directory in the cache, since copy and rename ask for
the path of the directory, which remembers it, before they commit (run
`dir_cache_rolled_back`). An id that SQLite gives out again can then be cached
under two paths; without the assumption TLC refutes each of the three. The refinement and the invariants of specifications with
fairness use only their safety part.

**VolumeInv.** `AllPlaced`: every stored, pending or looked-up row ends below the
active offset and inside one data file. A new range begins at or after the active
offset (`PlaceAtFacts`, from four arithmetic lemmas), so it is new.
`AllDisjoint`: stored rows and pending writes are pairwise disjoint, and pending
writes are disjoint from rows that readers hold; this keeps a read sound after
its chunk was deleted, since offsets are never given out twice. `AllIntact`:
stored and looked-up rows are written and durable, and a pending call is as far
as its program counter says; without the pending part the insertion of a row
could not be justified. A sync reaches all bytes of a row because the row lies
in one file (`ExtentFile`).

**LayoutInv** says how the counters relate to the records (`Counting`), that
bundles end within `new_size` and the last one at it (`BundleRanges`), that a
bundle which starts before the place a download expects comes after a short one
and before others of its kind (`Places`), that a chunk lies in its bundle, where
it is expected unless one before it was short (`Chunked`, `LastRead`), that every
byte read is in a chunk (`ReadCovered`), and what a download has decided so far
(`Outcome`). The step that matters: a short chunk that is not the last of its
bundle is refused, so in a complete download chunks are where they are expected
in their bundles; and the last chunk of the file fits into it only when every
bundle before was full. Computed and real offsets then agree.

**CentralInv** has, beside `NoLostUpdate`, `PathsFormTree` and `LogReplays`: ids
from `next_file` and `next_lease` on have no row, lease or event (`FilesFresh`,
`LeasesFresh`), without which a new file could inherit a lease or a log entry; a
file with bytes has a Created event (`CreatedLogged`), without which an Updated
could come first; and grants, on their way or taken, carry the expiry and the
volume of their lease and a lease being revoked is gone (`GrantsSound`), without
which the storage server's expiry could drop a lease that is over by neither
clock. For `PlansAddUp` it has that every length in `replicas` was reported
(`ReplicasSound`) and that the size of a file whose bundles are undisputed is the
sum of the lengths all reports agree on (`RowsSound`), a number that no table
holds and no later report changes: `commit_update` establishes it by the first
replicas there are (`CommitSound`), a plan meets it by the first ones online
(`FirstReplicaSizes`). `BundlesFound` adds that replicas only grow. For `CentralImplementsStore` each transaction is shown
to be one step of FileStore or none, under the mapping `Store`: a commit installs
over the content of its `begin_update` because of `NoLostUpdate`, and not twice
because the lease row goes with it.

**DirCacheInv** says that rows refer to earlier rows and no two have the same
parent and name (`Table`), from which different rows have different paths
(`PathsDiffer`); that each cached path is that of its id in the *committed* table,
once, in both maps (`Sound`); and that files are in directories there are
(`FileAt`). The point of the proof is a transaction under way (`Going`,
`Arrived`): its table only adds rows to the committed one, its cache is sound for
the committed one, and once it has added a row it is at the last row it added. A
hit in the cache, or a row it finds and remembers, is therefore one it did not
add itself, and may be cached whatever becomes of the transaction. A trim removes
from `id_to_path` exactly the trimmed entries because paths differ between ids.
`Walk` and `PathsOf` are recursive functions; that they exist and what holds along
them is proved by induction on sets of numbers (`NumberInduction`, from the
well-foundedness of `<`), for every path and table.

**SyncInv.** Records are removed by `event_id <= max`, which names the right ones
only because ids are unique and grow (`RecordsSound`), because a batch is closed
downwards (`BatchFacts`, which counts older records), and because a request that
is still waited for carries the whole batch its sender will remove (`RequestSound`,
`ReporterSound`, `Covered`). A caller past its last read has its bundle at
central, since nothing was pending while it held the lock. `LeastNatural`, from the
well-foundedness of `<`, gives the first and the last record of a batch.

**RegistrationInv** relates each connection's place in the handler to the two maps
(`HandlerAt`): its peer is listed exactly while it is registered, from mount to
unmount it has all volumes of its server, and it is in use by its server or
closed, closed for certain once its request has outrun it; conversely whoever has a
volume is between mount and unmount (`MountedBy`). **PeerViewInv** says that whatever
the client has or will get of an id is central's entry or an older one
(`EntriesOlder`), that from the snapshot on the newest entry is in it or on its
way (`NewestTold`), that what is on the connection belongs to this run of central
(`LinkState`), and that all who have heard of an id since central started agree on
its server (`OneOwner`), from which sessions are routed (`SessionLeads`).

**SchedulerInv**: a slot is in the map from its making until its task is over, and
only its owner starts the task (`SlotOf`, `InFlight`) – without this a second slot
of a hash could not be excluded; a callback is in at most one list, the one of its
own slot, and has not been called while it is there (`CalledOnce`); the tasks hold
the permits (`PermitsHeld`). **TransferInv** adds that what a transfer enqueued is
an initial part of its chunks, each once (`Enqueued`, `Counted`), and what the
callbacks left behind (`CalledBack`). The counter goes down once per chunk because
no request is answered twice; Ok is sent only at zero, when a failure would
already be in `first_error` (`CountersTell`).

Only model-checked:

* every liveness property (fairness and ENABLED are out of the prover's reach),
  with CentralLocks, whose property is one;
* the three runs that expect a violation: their counterexamples are TLC's.

## 5. Not modelled

* `sync_all` over several volumes: it stops at the first that fails, so a volume
  whose own database keeps failing starves the ones after it. ReplicaSync has one
  volume.
* Clocks that are set back. A storage clock that jumps ahead and back drops leases
  that neither clock shows as expired afterwards.
* The volume choice of `begin_update` (see Central), compressed sizes and the sums of
  them, and integer overflow of sizes, which is an error the client gets.
* Clients, and in PeerView storage servers, whose registration outruns the
  clean-up of its connection: the first leaves an entry nobody uses, the second
  is Registration's `Outrun`, a peer that stays on the clients' lists.
* `delete_bundle` of the volume is in Volume, but the storage server does not
  call it, so ReplicaSync leaves it out.
* Central's database is taken as durable. Its pragmas (WAL, synchronous NORMAL)
  allow a power loss, not a process crash, to lose the last commits.
* File handles of the data file cache: sharing and closing idle ones changes no
  byte. Platform I/O, transport frames, relay, configuration, command line and
  message types: no state of their own.
* Orderly shutdown of the servers; tokens and protocol versions, which are checks
  without state. Hashes are taken to be injective.

## 6. Plan

1. Done: Volume, Central and FileStore, ReplicaSync, RequestScheduler and Transfer,
   Registration and EndpointReport, PeerView, Layout, DirCache, each with its
   proofs; CentralLocks.
2. Model more when the code does more: an upload end to end (Central's lease
   with ReplicaSync's report), and deletion of bundles once a server calls it.
