------------------------------- MODULE Volume -------------------------------
(***************************************************************************)
(* One fs0 volume: the chunk, bundle and change-record tables of its       *)
(* SQLite file (journal_mode DELETE, synchronous FULL: a commit survives a *)
(* crash), and the data files the compressed bytes are appended to.        *)
(*                                                                         *)
(* Volume::put_chunk takes the database lock twice and writes the bytes    *)
(* between, without it, on a blocking thread; read_chunk looks the row up  *)
(* under the lock and reads the bytes after.  Each put and each read is    *)
(* a process with one action per locked section or blocking call.          *)
(*                                                                         *)
(* A payload stands for (raw_len, compressed bytes): two payloads are      *)
(* equal exactly when put_chunk finds raw_len, compressed_len and          *)
(* compressed_hash equal.  A bundle id is the hash of its chunk list, so   *)
(* BundleChunks fixes the chunks of each id; index order and duplicates    *)
(* within the list are abstracted to a set.                                *)
(***************************************************************************)
EXTENDS Integers, FiniteSets

CONSTANTS ChunkIds,       \* ids of chunks (hashes of raw bytes)
          Payloads,       \* what a caller may upload for a chunk id
          CompressedLen,  \* [Payloads -> Nat]
          BundleIds,      \* ids of bundles
          BundleChunks,   \* [BundleIds -> SUBSET ChunkIds]
          DataFileSize,   \* VOLUME_DEFAULT_DATA_FILE_SIZE
          MaxBytes,       \* max_bytes of volume_meta
          Writers,        \* concurrent put_chunk calls
          Readers,        \* concurrent read_chunk calls
          MaxEvents,      \* bound: event ids of bundle_change_records
          None,           \* no row
          Torn            \* a byte whose content is not known

Rows == [offset : Nat, payload : Payloads]
Records == [id : Nat, kind : {"stored", "deleted"}]

(* A put_chunk call past its first locked section.  live is FALSE once its *)
(* future was dropped: the blocking write runs on, but no row is inserted. *)
Puts == [pc : {"reserved", "wrote", "synced"}, live : BOOLEAN,
         chunk : ChunkIds, row : Rows]

ASSUME VolumeAssumption ==
  /\ DataFileSize \in Nat \ {0}
  /\ MaxBytes \in Nat /\ MaxBytes >= DataFileSize
  /\ CompressedLen \in [Payloads -> Nat]
  /\ BundleChunks \in [BundleIds -> SUBSET ChunkIds]
  /\ MaxEvents \in Nat
  /\ None \notin Rows \cup Puts \cup Records

VARIABLES chunks,        \* table chunks
          active_offset, \* volume_meta.active_volume_offset (and db.meta)
          bundles,       \* bundle ids with rows in bundle_chunks
          records,       \* table bundle_change_records, by bundle id
          next_event,    \* AUTOINCREMENT of bundle_change_records
          disk,          \* bytes of the data files, by volume offset
          dirty,         \* offsets written and not yet sync_data'd
          puts,          \* put_chunk calls
          reads          \* read_chunk calls: the row looked up

volumeDb == <<chunks, active_offset, bundles, records, next_event>>
volumeVars == <<chunks, active_offset, bundles, records, next_event,
                disk, dirty, puts, reads>>

Addresses == 0 .. MaxBytes - 1
Bytes == [payload : Payloads, index : Nat] \cup {Torn}

(* The bytes [offset, offset + compressed_len) of a row.  Writing and      *)
(* reading address them as data file offset / DataFileSize, position       *)
(* offset % DataFileSize: the same bytes while a row stays in one file     *)
(* (WithinDataFile).                                                       *)
Extent(row) == row.offset .. row.offset + CompressedLen[row.payload] - 1

FileOf(a) == a \div DataFileSize

Intact(row) ==
  \A a \in Extent(row) :
    /\ disk[a] = [payload |-> row.payload, index |-> a - row.offset]
    /\ a \notin dirty

VolumeTypeOK ==
  /\ chunks \in [ChunkIds -> Rows \cup {None}]
  /\ active_offset \in 0 .. MaxBytes
  /\ bundles \subseteq BundleIds
  /\ records \in [BundleIds -> Records \cup {None}]
  /\ next_event \in Nat
  /\ disk \in [Addresses -> Bytes]
  /\ dirty \subseteq Addresses
  /\ puts \in [Writers -> Puts \cup {None}]
  /\ reads \in [Readers -> Rows \cup {None}]

(* The rows whose bytes the volume has promised, and those being written. *)
LiveRows == {chunks[c] : c \in {d \in ChunkIds : chunks[d] # None}}
PendingRows == {puts[w].row : w \in {v \in Writers : puts[v] # None}}

(* A volume just created by init_fs, its data files preallocated.          *)
VolumeInit ==
  /\ chunks = [c \in ChunkIds |-> None]
  /\ active_offset = 0
  /\ bundles = {}
  /\ records = [b \in BundleIds |-> None]
  /\ next_event = 1
  /\ disk = [a \in Addresses |-> Torn]
  /\ dirty = {}
  /\ puts = [w \in Writers |-> None]
  /\ reads = [r \in Readers |-> None]

-----------------------------------------------------------------------------
(* put_chunk.  A definition named X_... is X with a slip a change to the   *)
(* code could make; the properties below are checked to catch it.          *)

(* Lengths that pass the checks before the lock. *)
ValidPayload(p) == CompressedLen[p] \in 1 .. DataFileSize

(* Where the next compressed_len bytes go: at the active offset, or at the *)
(* start of the next data file when they would cross its end.              *)
PlaceAt_crossing(p) ==
  IF (active_offset % DataFileSize) + CompressedLen[p] > DataFileSize + 1
    THEN ((active_offset \div DataFileSize) + 1) * DataFileSize
    ELSE active_offset
PlaceAt_reusing(p) == IF LiveRows = {} THEN 0 ELSE active_offset
PlaceAt(p) ==
  IF (active_offset % DataFileSize) + CompressedLen[p] > DataFileSize
    THEN ((active_offset \div DataFileSize) + 1) * DataFileSize
    ELSE active_offset

HasCapacity(p) == PlaceAt(p) + CompressedLen[p] <= MaxBytes

(* reserve_active_volume_offset: MAX(active_volume_offset, end of the row). *)
Reserved_short(p) == PlaceAt(p) + CompressedLen[p] - 1
Reserved(p) ==
  LET end == PlaceAt(p) + CompressedLen[p]
  IN  IF active_offset >= end THEN active_offset ELSE end

(* First locked section: no row yet, room left; the range is reserved.     *)
(* A row that exists ends the call (Ok when the metadata agree,            *)
(* HashMismatch when not) and so does a full volume, without a change.     *)
PutReserve(w, c, p) ==
  /\ puts[w] = None
  /\ ValidPayload(p)
  /\ chunks[c] = None
  /\ HasCapacity(p)
  /\ active_offset' = Reserved(p)
  /\ puts' = [puts EXCEPT ![w] = [pc |-> "reserved", live |-> TRUE, chunk |-> c,
                                  row |-> [offset |-> PlaceAt(p), payload |-> p]]]
  /\ UNCHANGED <<chunks, bundles, records, next_event, disk, dirty, reads>>

WriteTo(S, row) ==
  [a \in Addresses |-> IF a \in S THEN [payload |-> row.payload,
                                        index |-> a - row.offset]
                                  ELSE disk[a]]

(* DataFileCache::write_at on the blocking thread: write_at, then sync_data, *)
(* which makes everything written to that data file durable.                 *)
PutWrite(w) ==
  /\ puts[w] # None /\ puts[w].pc = "reserved"
  /\ disk' = WriteTo(Extent(puts[w].row), puts[w].row)
  /\ dirty' = dirty \cup Extent(puts[w].row)
  /\ puts' = [puts EXCEPT ![w].pc = "wrote"]
  /\ UNCHANGED <<volumeDb, reads>>

Synced_nothing(w) == {}
Synced(w) == {a \in dirty : FileOf(a) = FileOf(puts[w].row.offset)}

PutSync(w) ==
  /\ puts[w] # None /\ puts[w].pc = "wrote"
  /\ dirty' = dirty \ Synced(w)
  /\ puts' = [puts EXCEPT ![w].pc = "synced"]
  /\ UNCHANGED <<volumeDb, disk, reads>>

(* Opening, writing or syncing fails: some of the bytes may be written,    *)
(* and the reserved range is never given back.                             *)
PutFail(w) ==
  /\ puts[w] # None /\ puts[w].pc \in {"reserved", "wrote"}
  /\ \E S \in SUBSET Extent(puts[w].row) :
       /\ disk' = IF puts[w].pc = "wrote" THEN disk ELSE WriteTo(S, puts[w].row)
       /\ dirty' = IF puts[w].pc = "wrote" THEN dirty ELSE dirty \cup S
  /\ puts' = [puts EXCEPT ![w] = None]
  /\ UNCHANGED <<volumeDb, reads>>

(* The request's task is aborted while put_chunk awaits the write.         *)
PutCancel(w) ==
  /\ puts[w] # None /\ puts[w].live
  /\ puts' = [puts EXCEPT ![w].live = FALSE]
  /\ UNCHANGED <<volumeDb, disk, dirty, reads>>

(* The blocking write of an aborted call ends; nothing follows it.         *)
PutForgotten(w) ==
  /\ puts[w] # None /\ puts[w].pc = "synced" /\ ~puts[w].live
  /\ puts' = [puts EXCEPT ![w] = None]
  /\ UNCHANGED <<volumeDb, disk, dirty, reads>>

(* insert_chunk: ON CONFLICT(chunk_id) DO NOTHING.                         *)
InsertedRow_upsert(c, row) == row
InsertedRow(c, row) == IF chunks[c] = None THEN row ELSE chunks[c]

(* Second locked section: insert unless a row exists, load what is there.  *)
PutInsert(w) ==
  /\ puts[w] # None /\ puts[w].pc = "synced" /\ puts[w].live
  /\ chunks' = [chunks EXCEPT ![puts[w].chunk] =
                  InsertedRow(puts[w].chunk, puts[w].row)]
  /\ puts' = [puts EXCEPT ![w] = None]
  /\ UNCHANGED <<active_offset, bundles, records, next_event, disk, dirty, reads>>

-----------------------------------------------------------------------------
(* read_chunk: look the row up, then read its bytes without the lock.      *)

ReadLookup(r, c) ==
  /\ reads[r] = None
  /\ chunks[c] # None
  /\ reads' = [reads EXCEPT ![r] = chunks[c]]
  /\ UNCHANGED <<volumeDb, disk, dirty, puts>>

ReadBytes(r) ==
  /\ reads[r] # None
  /\ reads' = [reads EXCEPT ![r] = None]
  /\ UNCHANGED <<volumeDb, disk, dirty, puts>>

-----------------------------------------------------------------------------
(* The foreign key of bundle_chunks, ON DELETE RESTRICT.                   *)
Unreferenced_unchecked(c) == TRUE
Unreferenced(c) == \A b \in bundles : c \notin BundleChunks[b]

DeleteChunk(c) ==
  /\ chunks[c] # None
  /\ Unreferenced(c)
  /\ chunks' = [chunks EXCEPT ![c] = None]
  /\ UNCHANGED <<active_offset, bundles, records, next_event, disk, dirty, puts, reads>>

(* insert_bundle_change_record_tx: one record per bundle; a conflict keeps *)
(* the event id and replaces the kind.                                     *)
NewRecord_ignored(b, kind) ==
  IF records[b] = None THEN [id |-> next_event, kind |-> kind] ELSE records[b]
NewRecord(b, kind) ==
  IF records[b] = None THEN [id |-> next_event, kind |-> kind]
                       ELSE [records[b] EXCEPT !.kind = kind]

ChangeRecord(b, kind) ==
  /\ records' = [records EXCEPT ![b] = NewRecord(b, kind)]
  /\ next_event' = IF records[b] = None THEN next_event + 1 ELSE next_event

(* commit_bundle.  An empty list, a wrong hash, an existing bundle and a   *)
(* missing chunk all return before anything is written.                    *)
CommitBundle(b) ==
  /\ BundleChunks[b] # {}
  /\ b \notin bundles
  /\ \A c \in BundleChunks[b] : chunks[c] # None
  /\ records[b] = None => next_event <= MaxEvents
  /\ bundles' = bundles \cup {b}
  /\ ChangeRecord(b, "stored")
  /\ UNCHANGED <<chunks, active_offset, disk, dirty, puts, reads>>

(* delete_bundle records the deletion even when there is no such bundle.   *)
DeleteBundle(b) ==
  /\ records[b] = None => next_event <= MaxEvents
  /\ bundles' = bundles \ {b}
  /\ ChangeRecord(b, "deleted")
  /\ UNCHANGED <<chunks, active_offset, disk, dirty, puts, reads>>

(* remove_bundle_change_records: DELETE ... WHERE event_id <= max.         *)
RemoveRecords(max) ==
  /\ records' = [b \in BundleIds |->
                   IF records[b] # None /\ records[b].id <= max THEN None
                                                                ELSE records[b]]
  /\ UNCHANGED <<chunks, active_offset, bundles, next_event, disk, dirty, puts, reads>>

(* The process or the machine stops and the volume is opened again.  The   *)
(* database is durable.  Bytes not yet synced, and those a write was busy  *)
(* with, may hold anything.                                                *)
CrashAndOpen ==
  LET busy == {a \in Addresses : \E w \in Writers :
                 puts[w] # None /\ puts[w].pc = "reserved" /\ a \in Extent(puts[w].row)}
  IN  /\ \E lost \in SUBSET (dirty \cup busy) :
           disk' = [a \in Addresses |-> IF a \in lost THEN Torn ELSE disk[a]]
      /\ dirty' = {}
      /\ puts' = [w \in Writers |-> None]
      /\ reads' = [r \in Readers |-> None]
      /\ UNCHANGED volumeDb

VolumePut ==
  \E w \in Writers :
    \/ \E c \in ChunkIds, p \in Payloads : PutReserve(w, c, p)
    \/ PutWrite(w)
    \/ PutSync(w)
    \/ PutFail(w)
    \/ PutCancel(w)
    \/ PutForgotten(w)
    \/ PutInsert(w)

VolumeNext ==
  \/ VolumePut
  \/ \E r \in Readers : (\E c \in ChunkIds : ReadLookup(r, c)) \/ ReadBytes(r)
  \/ \E c \in ChunkIds : DeleteChunk(c)
  \/ \E b \in BundleIds : CommitBundle(b)
  \/ \E b \in BundleIds : DeleteBundle(b)
  \/ \E max \in 1 .. MaxEvents : RemoveRecords(max)
  \/ CrashAndOpen

VolumeSpec == VolumeInit /\ [][VolumeNext]_volumeVars

-----------------------------------------------------------------------------
(* No two chunks ever share a byte: what put_chunk reserved for one call   *)
(* never overlaps a stored chunk or another call's range, whatever order   *)
(* the calls, failures, deletions and restarts come in.                    *)
NoOverlap ==
  /\ \A c, d \in ChunkIds :
       (c # d /\ chunks[c] # None /\ chunks[d] # None)
         => Extent(chunks[c]) \cap Extent(chunks[d]) = {}
  /\ \A w \in Writers : puts[w] # None =>
       /\ \A row \in LiveRows : Extent(row) \cap Extent(puts[w].row) = {}
       /\ \A v \in Writers : (v # w /\ puts[v] # None)
            => Extent(puts[v].row) \cap Extent(puts[w].row) = {}

(* A row never crosses the end of a data file and never leaves the volume, *)
(* so write_at and read_at stay inside the preallocated file.              *)
WithinDataFile ==
  \A row \in LiveRows \cup PendingRows :
    /\ (row.offset % DataFileSize) + CompressedLen[row.payload] <= DataFileSize
    /\ row.offset + CompressedLen[row.payload] <= MaxBytes

(* A chunk that has a row is readable: its bytes are the uploaded ones and *)
(* durable, so also after a crash at any point of any put_chunk.           *)
StoredChunksIntact ==
  \A row \in LiveRows : Intact(row)

(* A read_chunk that looked its row up gets that chunk's bytes even when   *)
(* the chunk is deleted, and other chunks are stored, before it reads.     *)
ReadsIntact ==
  \A r \in Readers : reads[r] # None => Intact(reads[r])

(* Every chunk of a committed bundle is stored: commit_bundle's check and  *)
(* the foreign key keep it so under later deletions.                       *)
BundlesComplete ==
  \A b \in bundles : \A c \in BundleChunks[b] : chunks[c] # None

(* A pending change record tells what the bundle table holds now, though   *)
(* several commits and deletions may have been folded into it.             *)
RecordsAgree ==
  \A b \in BundleIds : records[b] # None =>
    (records[b].kind = "stored" <=> b \in bundles)

(* A stored row keeps its place and its payload until it is deleted: a     *)
(* second put of the chunk never redirects readers or bundles.             *)
RowsStable ==
  [][\A c \in ChunkIds :
       (chunks[c] # None /\ chunks'[c] # None) => chunks'[c] = chunks[c]]_volumeVars
=============================================================================
