------------------------------ MODULE Central ------------------------------
(***************************************************************************)
(* The central metadata server: files, their bundles, directories, update  *)
(* leases, bundle replicas and the file change log, with the request       *)
(* handlers that change them, and the upload leases the storage servers    *)
(* keep for it.                                                            *)
(*                                                                         *)
(* Every transaction runs under the database mutex and is rolled back when *)
(* a handler returns early, so it is one action.  A handler with several   *)
(* transactions, or one that awaits a storage server between them, is a    *)
(* process: control connections hold their identity lock for a whole       *)
(* request, so a connection has at most one handler.                       *)
(*                                                                         *)
(* Central and every storage host have a clock of their own.  They only    *)
(* move forward, and nothing else is assumed of them: each may be ahead of *)
(* the others or stand still.  Compressed sizes and time stamps are left   *)
(* out.  A path is a name in a tree given by Above; dir ids and their      *)
(* cache are left out.                                                     *)
(***************************************************************************)
EXTENDS Integers, Sequences, FiniteSets, Functions

CONSTANTS Paths,        \* paths of files and directories, "/" left out
          Above,        \* [Paths -> SUBSET Paths]: the directories above a path
          Volumes,      \* volume ids, numbers
          BundleIds,
          Reports,      \* [BundleIds -> SUBSET Nat]: raw lengths a storage server may
                        \* report of a bundle; 0: it reports its deletion
          Commits,      \* requests to commit an update a client may send
          Offsets,      \* offsets a client may ask to update from
          Targets,      \* paths a client may copy a file to or rename it to
          Connections,  \* control connections of clients
          TTL,          \* UPDATE_LEASE_TTL_MS
          MaxFiles, MaxLeases, MaxEvents, MaxTime,  \* bounds
          None

FileIds == 1 .. MaxFiles
LeaseIds == 1 .. MaxLeases

(* CommittedBundle and CommitUpdateRequest.                                *)
CommittedBundles == [id : BundleIds, raw_len : Nat]
CommitRequests == [base_size : Nat, new_size : Nat, bundles : Seq(CommittedBundles)]

(* The ids of submitted bundles: all that file_bundles keeps of them.      *)
IdsOf(bundles) == [i \in 1 .. Len(bundles) |-> bundles[i].id]
BundleLists == {IdsOf(req.bundles) : req \in Commits}

FileRows == [path : Paths, size : Nat, bundles : Seq(BundleIds)]

(* A row of update_leases, and the history of its lease: the bundles of    *)
(* the file when it was created, and whether the storage server lost it by *)
(* restarting.                                                             *)
LeaseRows == [file : FileIds, volume : Volumes, base_size : Nat, offset : Nat,
              expires : Nat, over : Seq(BundleIds), lost : BOOLEAN]

Grants == [file : FileIds, volume : Volumes, expires : Nat]
Events == [kind : {"Created", "Updated", "Moved"}, file : FileIds, path : Paths]
          \cup [kind : {"Deleted"}, file : FileIds]

(* What a handler holds between two of its transactions.                   *)
Handlers == [op : {"grant", "granted", "commit"}, lease : LeaseIds]
            \cup [op : {"delete"}, file : FileIds]
            \cup [op : {"copy", "rename"}, file : FileIds, target : Paths]

ASSUME CentralAssumption ==
  /\ MaxFiles \in Nat /\ MaxLeases \in Nat /\ MaxEvents \in Nat /\ MaxTime \in Nat
  /\ TTL \in Nat \ {0}
  /\ Offsets \subseteq Nat
  /\ Targets \subseteq Paths
  /\ Above \in [Paths -> SUBSET Paths]
  /\ \A p \in Paths : p \notin Above[p] /\ \A d \in Above[p] : Above[d] \subseteq Above[p]
  /\ Volumes \subseteq Nat
  /\ Reports \in [BundleIds -> SUBSET Nat]
  /\ Commits \subseteq CommitRequests
  /\ None \notin FileRows \cup LeaseRows \cup Grants \cup Handlers \cup FileIds
  /\ None \notin Seq(BundleIds) \cup [file : FileIds, over : Seq(BundleIds)]

VARIABLES files,      \* tables files and file_bundles, by file id
          next_file,  \* AUTOINCREMENT of files
          dirs,       \* table dirs, as paths
          leases,     \* table update_leases, by lease id
          next_lease, \* AUTOINCREMENT of update_leases
          replicas,   \* table bundle_replicas: the raw_len by bundle and volume,
                      \* 0 for no row
          log,        \* table file_events, in event_id order
          now,        \* now_ms() of central
          clock,      \* now_ms() of each volume's storage server
          online,     \* keys of online_volumes
          handler,    \* the handler of each connection, if any
          sent,       \* GrantUploadLease requests on their way: <<lease, grant>>
          revoking,   \* RevokeUploadLease requests on their way
          granted,    \* upload_leases of the storage servers, by lease id
          known       \* leases a begin_update has answered Ok with

fileTables == <<files, next_file, dirs, log>>
leaseTables == <<leases, next_lease>>
storageSide == <<sent, revoking, granted>>
centralVars == <<files, next_file, dirs, leases, next_lease, replicas, log, now,
                 clock, online, handler, sent, revoking, granted, known>>

CentralTypeOK ==
  /\ files \in [FileIds -> FileRows \cup {None}]
  /\ next_file \in 1 .. MaxFiles + 1
  /\ dirs \subseteq Paths
  /\ leases \in [LeaseIds -> LeaseRows \cup {None}]
  /\ next_lease \in 1 .. MaxLeases + 1
  /\ replicas \in [BundleIds \X Volumes -> Nat]
  /\ log \in Seq(Events)
  /\ now \in Nat
  /\ clock \in [Volumes -> Nat]
  /\ online \subseteq Volumes
  /\ handler \in [Connections -> Handlers \cup {None}]
  /\ sent \subseteq LeaseIds \X Grants
  /\ revoking \subseteq LeaseIds
  /\ granted \in [LeaseIds -> Grants \cup {None}]
  /\ known \subseteq LeaseIds

CentralInit ==
  /\ files = [f \in FileIds |-> None]
  /\ next_file = 1
  /\ dirs = {}
  /\ leases = [l \in LeaseIds |-> None]
  /\ next_lease = 1
  /\ replicas = [bv \in BundleIds \X Volumes |-> 0]
  /\ log = <<>>
  /\ now = 0
  /\ clock = [v \in Volumes |-> 0]
  /\ online = {}
  /\ handler = [c \in Connections |-> None]
  /\ sent = {}
  /\ revoking = {}
  /\ granted = [l \in LeaseIds |-> None]
  /\ known = {}

-----------------------------------------------------------------------------
(* Helpers.  A definition named X_... is X with a slip a change to the     *)
(* code could make; the properties below are checked to catch it.          *)

Live == {f \in FileIds : files[f] # None}
FilesAt(p) == {f \in Live : files[f].path = p}

(* create_dir for the directories above p: each exists, or its name is not *)
(* taken by a file.                                                        *)
DirsCreatable_unchecked(p) == TRUE
DirsCreatable(p) == \A d \in Above[p] : d \in dirs \/ FilesAt(d) = {}

(* ensure_child_name_available, for a new file or the file f itself.       *)
NameAvailable(p, f) == p \notin dirs /\ FilesAt(p) \subseteq {f}

Logged(kind, f, p) ==
  /\ Len(log) < MaxEvents
  /\ log' = Append(log, [kind |-> kind, file |-> f, path |-> p])

(* The leases delete_expired_update_leases leaves.                         *)
Unexpired == [l \in LeaseIds |-> IF leases[l] # None /\ leases[l].expires <= now
                                   THEN None ELSE leases[l]]

Active(l) == leases[l] # None /\ leases[l].expires > now

HasReplica(b) == \E v \in Volumes : replicas[<<b, v>>] > 0

(* The raw_len of b's first replica on one of the volumes W, by volume id, *)
(* and what a list of bundles adds up to by it.                            *)
LenAmong(b, W) ==
  LET on == {v \in W : replicas[<<b, v>>] > 0}
  IN  IF on = {} THEN 0 ELSE replicas[<<b, CHOOSE v \in on : \A w \in on : v <= w>>]
SizeAmong(list, W) == SumFunction([i \in 1 .. Len(list) |-> LenAmong(list[i], W)])

(* The leases of a deleted file go with it (ON DELETE CASCADE).            *)
WithoutFile_kept(f) == leases
WithoutFile(f) == [l \in LeaseIds |-> IF leases[l] # None /\ leases[l].file = f
                                        THEN None ELSE leases[l]]

Finish(c) == handler' = [handler EXCEPT ![c] = None]

-----------------------------------------------------------------------------
(* begin_update, up to its commit.  The volume is any online one.  The     *)
(* grant is sent with the volume's connection; one that is gone by then    *)
(* counts as a lost request.                                               *)

(* No lease of the file is left after the expired ones are deleted.        *)
FileFree(f) == \A l \in LeaseIds : Unexpired[l] # None => Unexpired[l].file # f

StartLease(c, f, v, row, offset) ==
  /\ next_lease <= MaxLeases
  /\ leases' = [Unexpired EXCEPT ![next_lease] =
                  [file |-> f, volume |-> v, base_size |-> row.size,
                   offset |-> offset, expires |-> now + TTL,
                   over |-> row.bundles, lost |-> FALSE]]
  /\ next_lease' = next_lease + 1
  /\ sent' = sent \cup {<<next_lease, [file |-> f, volume |-> v, expires |-> now + TTL]>>}
  /\ handler' = [handler EXCEPT ![c] = [op |-> "grant", lease |-> next_lease]]
  /\ UNCHANGED <<replicas, log, now, clock, online, revoking, granted, known>>

BeginExisting(c, f, v, offset) ==
  /\ handler[c] = None
  /\ v \in online
  /\ f \in Live
  /\ offset <= files[f].size
  /\ FileFree(f)
  /\ StartLease(c, f, v, files[f], offset)
  /\ UNCHANGED <<files, next_file, dirs>>

BeginNew(c, p, v, offset) ==
  /\ handler[c] = None
  /\ v \in online
  /\ FilesAt(p) = {}
  /\ offset = 0
  /\ DirsCreatable(p) /\ NameAvailable(p, None)
  /\ next_file <= MaxFiles
  /\ files' = [files EXCEPT ![next_file] = [path |-> p, size |-> 0, bundles |-> <<>>]]
  /\ StartLease(c, next_file, v, files'[next_file], 0)
  /\ next_file' = next_file + 1
  /\ dirs' = dirs \cup Above[p]

(* grant_upload_lease at the storage server.  Its answer reaches the       *)
(* handler, if that still waits.                                           *)
GrantDelivered ==
  \E msg \in sent :
    /\ sent' = sent \ {msg}
    /\ granted' = [granted EXCEPT ![msg[1]] = msg[2]]
    /\ handler' = [c \in Connections |->
                     IF handler[c] = [op |-> "grant", lease |-> msg[1]]
                       THEN [op |-> "granted", lease |-> msg[1]] ELSE handler[c]]
    /\ UNCHANGED <<fileTables, leaseTables, replicas, now, clock, online, revoking, known>>

Awaiting(c) == handler[c] # None /\ handler[c].op \in {"grant", "granted"}

Confirmed_unawaited(c) == Awaiting(c)
Confirmed(c) == Awaiting(c) /\ handler[c].op = "granted"

GrantAnswered(c) ==
  /\ Confirmed(c)
  /\ known' = known \cup {handler[c].lease}
  /\ Finish(c)
  /\ UNCHANGED <<fileTables, leaseTables, replicas, now, clock, online, storageSide>>

(* The storage server is gone, refuses, or does not answer in time, even   *)
(* when it did take the lease: begin_update deletes its row again.         *)
GrantFailed(c) ==
  /\ Awaiting(c)
  /\ leases' = [leases EXCEPT ![handler[c].lease] = None]
  /\ Finish(c)
  /\ UNCHANGED <<fileTables, next_lease, replicas, now, clock, online, storageSide, known>>

(* The connection closes while begin_update awaits the grant.              *)
BeginDropped(c) ==
  /\ Awaiting(c)
  /\ Finish(c)
  /\ UNCHANGED <<fileTables, leaseTables, replicas, now, clock, online, storageSide, known>>

-----------------------------------------------------------------------------
(* commit_update.  Its first transaction finds the lease's volume; the     *)
(* second checks everything again, and the request against the tables.     *)

CommitCheck(c, l) ==
  /\ handler[c] = None
  /\ l \in known
  /\ Active(l)
  /\ handler' = [handler EXCEPT ![c] = [op |-> "commit", lease |-> l]]
  /\ UNCHANGED <<fileTables, leaseTables, replicas, now, clock, online, storageSide, known>>

(* Every submitted bundle has a replica, and the raw_len of the first one; *)
(* the lengths submitted, and those of the rows installed, are new_size.   *)
BundlesAgree_unready(req) ==
  req.new_size = SumFunction([i \in DOMAIN req.bundles |-> req.bundles[i].raw_len])
BundlesAgree_unsummed(req) ==
  \A i \in DOMAIN req.bundles :
    /\ HasReplica(req.bundles[i].id)
    /\ req.bundles[i].raw_len = LenAmong(req.bundles[i].id, Volumes)
BundlesAgree(req) ==
  /\ \A i \in DOMAIN req.bundles :
       /\ HasReplica(req.bundles[i].id)
       /\ req.bundles[i].raw_len = LenAmong(req.bundles[i].id, Volumes)
  /\ req.new_size = SumFunction([i \in DOMAIN req.bundles |-> req.bundles[i].raw_len])
  /\ req.new_size = SizeAmong(IdsOf(req.bundles), Volumes)

Committable(l, req) ==
  /\ Active(l)
  /\ leases[l].base_size = req.base_size
  /\ leases[l].offset <= req.new_size
  /\ leases[l].file \in Live
  /\ files[leases[l].file].size = req.base_size
  /\ BundlesAgree(req)

(* The lease row a successful commit leaves behind: none.                  *)
Spent_kept(l) == leases[l]
Spent(l) == None

NewRow(row, req) == [row EXCEPT !.bundles = IdsOf(req.bundles), !.size = req.new_size]

CommitApply(c, req) ==
  LET l == handler[c].lease
      f == leases[l].file
  IN  /\ handler[c] # None /\ handler[c].op = "commit"
      /\ Committable(l, req)
      /\ files' = [files EXCEPT ![f] = NewRow(files[f], req)]
      /\ leases' = [leases EXCEPT ![l] = Spent(l)]
      /\ Logged(IF files[f].size = 0 THEN "Created" ELSE "Updated", f, files[f].path)
      /\ revoking' = revoking \cup {l}
      /\ Finish(c)
      /\ UNCHANGED <<next_file, dirs, next_lease, replicas, now, clock, online,
                     sent, granted, known>>

(* abort_update. *)
AbortUpdate(c, l) ==
  /\ handler[c] = None
  /\ l \in known
  /\ Active(l)
  /\ leases' = [leases EXCEPT ![l] = None]
  /\ revoking' = revoking \cup {l}
  /\ UNCHANGED <<fileTables, next_lease, replicas, now, clock, online, handler,
                 sent, granted, known>>

(* revoke_upload_lease at the storage server.                              *)
RevokeDelivered ==
  \E l \in revoking :
    /\ revoking' = revoking \ {l}
    /\ granted' = [granted EXCEPT ![l] = None]
    /\ UNCHANGED <<fileTables, leaseTables, replicas, now, clock, online, handler, sent,
                   known>>

(* A request between central and storage server is lost, or the storage's  *)
(* connection is gone when it would be sent.                               *)
RequestLost ==
  /\ \/ \E msg \in sent : sent' = sent \ {msg} /\ UNCHANGED revoking
     \/ \E l \in revoking : revoking' = revoking \ {l} /\ UNCHANGED sent
  /\ UNCHANGED <<fileTables, leaseTables, replicas, now, clock, online, handler,
                 granted, known>>

-----------------------------------------------------------------------------
(* delete_file, copy_file and rename_file.  By path they look the id up in *)
(* a transaction of its own; by id the client supplies one it learnt       *)
(* before.  Either way the second transaction meets whatever the file is   *)
(* by then.  A file that is gone already never comes back (file ids are    *)
(* not reused): such a request is refused in any case and left out.        *)

FileRequest(c, f, req) ==
  /\ handler[c] = None
  /\ f \in Live
  /\ handler' = [handler EXCEPT ![c] = req]
  /\ UNCHANGED <<fileTables, leaseTables, replicas, now, clock, online, storageSide, known>>

DeletedEvent_forgotten(f) == log
DeletedEvent(f) == Append(log, [kind |-> "Deleted", file |-> f])

DeleteFile(c) ==
  LET f == handler[c].file
  IN  /\ handler[c] # None /\ handler[c].op = "delete"
      /\ f \in Live
      /\ files' = [files EXCEPT ![f] = None]
      /\ leases' = WithoutFile(f)
      /\ Len(log) < MaxEvents
      /\ log' = DeletedEvent(f)
      /\ Finish(c)
      /\ UNCHANGED <<next_file, dirs, next_lease, replicas, now, clock, online,
                     storageSide, known>>

CopyFile(c) ==
  LET f == handler[c].file
      p == handler[c].target
  IN  /\ handler[c] # None /\ handler[c].op = "copy"
      /\ f \in Live
      /\ DirsCreatable(p) /\ NameAvailable(p, None)
      /\ next_file <= MaxFiles
      /\ files' = [files EXCEPT ![next_file] = [files[f] EXCEPT !.path = p]]
      /\ next_file' = next_file + 1
      /\ dirs' = dirs \cup Above[p]
      /\ Logged("Created", next_file, p)
      /\ Finish(c)
      /\ UNCHANGED <<leaseTables, replicas, now, clock, online, storageSide, known>>

RenameFile(c) ==
  LET f == handler[c].file
      p == handler[c].target
  IN  /\ handler[c] # None /\ handler[c].op = "rename"
      /\ f \in Live
      /\ DirsCreatable(p) /\ NameAvailable(p, f)
      /\ files' = [files EXCEPT ![f].path = p]
      /\ dirs' = dirs \cup Above[p]
      /\ Logged("Moved", f, p)
      /\ Finish(c)
      /\ UNCHANGED <<next_file, leaseTables, replicas, now, clock, online, storageSide, known>>

(* The second transaction fails a check, or the database fails: it is      *)
(* rolled back and the request answered with an error.                     *)
Refused(c) ==
  /\ handler[c] # None /\ ~Awaiting(c)
  /\ Finish(c)
  /\ UNCHANGED <<fileTables, leaseTables, replicas, now, clock, online, storageSide, known>>

-----------------------------------------------------------------------------
(* report_bundle_replica, from the storage server that has v online: the   *)
(* batch is one transaction, with at most one event per bundle.  A length  *)
(* of 0 would make it fail.  A new length overwrites the row's, whatever   *)
(* the other volumes say.                                                  *)
ReportBundleReplica(v, reported) ==
  /\ v \in online
  /\ replicas' = [bv \in BundleIds \X Volumes |->
                   IF bv[2] = v /\ bv[1] \in DOMAIN reported
                     THEN reported[bv[1]] ELSE replicas[bv]]
  /\ UNCHANGED <<fileTables, leaseTables, now, clock, online, handler, storageSide, known>>

RegisterStorage(v) ==
  /\ v \notin online
  /\ online' = online \cup {v}
  /\ UNCHANGED <<fileTables, leaseTables, replicas, now, clock, handler, storageSide, known>>

UnregisterStorage(v) ==
  /\ v \in online
  /\ online' = online \ {v}
  /\ UNCHANGED <<fileTables, leaseTables, replicas, now, clock, handler, storageSide, known>>

(* upload_chunk and commit_bundle at v's storage server first drop the     *)
(* leases that have expired by its own clock, which central does not set.  *)
RetainUnexpired(v) ==
  /\ granted' = [l \in LeaseIds |->
                   IF granted[l] # None /\ granted[l].volume = v
                      /\ granted[l].expires <= clock[v]
                     THEN None ELSE granted[l]]
  /\ UNCHANGED <<fileTables, leaseTables, replicas, now, clock, online, handler, sent,
                 revoking, known>>

(* v's storage server restarts: its upload leases are gone.                *)
StorageRestart(v) ==
  LET held == {l \in LeaseIds : granted[l] # None /\ granted[l].volume = v}
  IN  /\ granted' = [l \in LeaseIds |-> IF l \in held THEN None ELSE granted[l]]
      /\ leases' = [l \in LeaseIds |-> IF l \in held /\ leases[l] # None
                      THEN [leases[l] EXCEPT !.lost = TRUE] ELSE leases[l]]
      /\ online' = online \ {v}
      /\ UNCHANGED <<fileTables, next_lease, replicas, now, clock, handler, sent,
                     revoking, known>>

Tick ==
  /\ now < MaxTime
  /\ now' = now + 1
  /\ UNCHANGED <<fileTables, leaseTables, replicas, clock, online, handler,
                 storageSide, known>>

(* The clock of v's storage host moves on, on its own.                     *)
StorageTick(v) ==
  /\ clock[v] < MaxTime
  /\ clock' = [clock EXCEPT ![v] = clock[v] + 1]
  /\ UNCHANGED <<fileTables, leaseTables, replicas, now, online, handler,
                 storageSide, known>>

(* The central server restarts: its handlers and registrations are gone,   *)
(* the database is not.                                                    *)
CentralRestart ==
  /\ handler' = [c \in Connections |-> None]
  /\ online' = {}
  /\ UNCHANGED <<fileTables, leaseTables, replicas, now, clock, storageSide, known>>

UpdateNext ==
  \/ \E c \in Connections :
       \/ \E v \in Volumes, offset \in Offsets :
            \/ \E f \in FileIds : BeginExisting(c, f, v, offset)
            \/ \E p \in Paths : BeginNew(c, p, v, offset)
       \/ GrantAnswered(c)
       \/ GrantFailed(c)
       \/ BeginDropped(c)
       \/ \E l \in LeaseIds : CommitCheck(c, l)
       \/ \E req \in Commits : CommitApply(c, req)
       \/ \E l \in LeaseIds : AbortUpdate(c, l)
  \/ GrantDelivered
  \/ RevokeDelivered
  \/ RequestLost

FileNext ==
  \E c \in Connections :
    \/ \E f \in FileIds :
         \/ FileRequest(c, f, [op |-> "delete", file |-> f])
         \/ \E op \in {"copy", "rename"}, p \in Targets :
              FileRequest(c, f, [op |-> op, file |-> f, target |-> p])
    \/ DeleteFile(c)
    \/ CopyFile(c)
    \/ RenameFile(c)
    \/ Refused(c)

StorageNext ==
  \E v \in Volumes :
    \/ \E B \in SUBSET BundleIds :
         \E reported \in [B -> UNION {Reports[b] : b \in B}] :
           /\ \A b \in B : reported[b] \in Reports[b]
           /\ ReportBundleReplica(v, reported)
    \/ RegisterStorage(v)
    \/ UnregisterStorage(v)
    \/ RetainUnexpired(v)
    \/ StorageRestart(v)
    \/ StorageTick(v)

CentralNext ==
  \/ UpdateNext
  \/ FileNext
  \/ StorageNext
  \/ Tick
  \/ CentralRestart

CentralSpec == CentralInit /\ [][CentralNext]_centralVars
-----------------------------------------------------------------------------
(* An update lease protects its file: while the row exists, the file has   *)
(* the bundles and the size it had when begin_update created the lease,    *)
(* and no other lease.  commit_update compares only sizes; this is why     *)
(* that is enough, whatever expires, is deleted, copied or restarted.      *)
NoLostUpdate ==
  \A l \in LeaseIds : leases[l] # None =>
    /\ leases[l].file \in Live
    /\ files[leases[l].file].bundles = leases[l].over
    /\ files[leases[l].file].size = leases[l].base_size
    /\ \A m \in LeaseIds : (m # l /\ leases[m] # None) => leases[m].file # leases[l].file

(* A file's read plan covers it.  commit_update takes the lengths of the   *)
(* first replicas, a plan those of the first replicas online when it is    *)
(* made; in between rows are overwritten and deleted, volumes come and go, *)
(* and files are copied.  Whatever they are, the plan's lengths add up to  *)
(* the file's size, as long as all reports of each of its bundles give the *)
(* same length; lengths of other bundles may conflict.                     *)
Undisputed(list) ==
  \A i \in 1 .. Len(list) : \A m, n \in Reports[list[i]] \ {0} : m = n
Planned(list) == \A i \in 1 .. Len(list) : \E v \in online : replicas[<<list[i], v>>] > 0
PlansAddUp ==
  \A f \in Live : LET list == files[f].bundles
                  IN  Undisputed(list) /\ Planned(list) =>
                        SizeAmong(list, online) = files[f].size

(* Every bundle of every file has a replica somewhere, so a read plan can  *)
(* fail only for storage servers that are offline.                         *)
FilesReadable ==
  \A f \in Live : \A i \in DOMAIN files[f].bundles : HasReplica(files[f].bundles[i])

(* The paths form a tree: a file's directories exist, no path is both a    *)
(* file and a directory, and no two files have one path.                   *)
PathsFormTree ==
  \A f \in Live :
    /\ Above[files[f].path] \subseteq dirs
    /\ files[f].path \notin dirs
    /\ FilesAt(files[f].path) = {f}

(* Replaying the change log yields the files: the last event of a file id  *)
(* tells whether it exists and where it is; a file that is gone or not     *)
(* empty has an event; Updated follows a Created.                          *)
LogReplays ==
  /\ \A i \in DOMAIN log :
       (\A j \in DOMAIN log : j > i => log[j].file # log[i].file) =>
         IF log[i].kind = "Deleted"
           THEN log[i].file \notin Live
           ELSE log[i].file \in Live /\ files[log[i].file].path = log[i].path
  /\ \A f \in FileIds :
       (f < next_file /\ (files[f] = None \/ files[f].size > 0)) =>
         \E i \in DOMAIN log : log[i].file = f
  /\ \A i \in DOMAIN log : log[i].kind = "Updated" =>
       \E j \in DOMAIN log : j < i /\ log[j].file = log[i].file /\ log[j].kind = "Created"

(* A client that was given a lease can use it: the storage server holds it *)
(* as long as central does and neither central's clock nor the storage     *)
(* host's has reached its expiry, unless the server restarted.  A storage  *)
(* host whose clock is ahead drops a lease central still honours.          *)
Usable(l) == Active(l) /\ leases[l].expires > clock[leases[l].volume]
GrantHeld ==
  \A l \in known : Usable(l) => granted[l] # None \/ leases[l].lost

(* The central server implements the file store: every update a client     *)
(* commits is installed over the content it began with, at most once, and  *)
(* only commits, deletions and copies change what files hold.              *)
Store == INSTANCE FileStore WITH
  FileId <- FileIds, UpdateId <- LeaseIds, Content <- BundleLists,
  Empty <- <<>>, Absent <- None,
  content <- [f \in FileIds |-> IF files[f] = None THEN None ELSE files[f].bundles],
  usedFiles <- {f \in FileIds : f < next_file},
  update <- [l \in LeaseIds |-> IF leases[l] = None THEN None
               ELSE [file |-> leases[l].file, over |-> leases[l].over]],
  usedUpdates <- {l \in LeaseIds : l < next_lease}

UpdatesAtomic == Store!Spec
=============================================================================
