------------------------------- MODULE Layout -------------------------------
(***************************************************************************)
(* How upload_file_inner cuts a local file into chunks and bundles, and    *)
(* where download_file_chunks puts them back.                              *)
(*                                                                         *)
(* A chunk is one read of the local file, whatever its length, and a       *)
(* bundle ends when it is full or a read returns nothing.  What is stored  *)
(* is the index of a chunk in its bundle and of a bundle in its file, no   *)
(* offset: a download computes the offset from the indexes as if every     *)
(* read but the last had been full.  The offset of a chunk record is where *)
(* the upload read it, which the download does not know.                   *)
(***************************************************************************)
EXTENDS Integers

VOLUME_RAW_CHUNK_SIZE == 1024 * 1024
VOLUME_BUNDLE_RAW_SIZE == 128 * 1024 * 1024

VARIABLES phase,         \* "reading", then "uploaded"
          chunks,        \* chunks read so far, of all bundles
          bundles,       \* bundles that have ended: their index, where they start, raw_len
          bundle_count,  \* upload_bundles.len()
          chunk_count,   \* chunks.len() of the bundle being read
          raw_len,       \* bytes of the bundle being read
          new_size,      \* bytes of the bundles that have ended
          written,       \* chunks a download has sent to its writer
          first_error    \* the download has failed

layoutVars == <<phase, chunks, bundles, bundle_count, chunk_count, raw_len, new_size, written,
                first_error>>

ChunkRecords == [bundle : Nat, index : Nat, offset : Nat, len : Nat]
BundleRecords == [index : Nat, start : Nat, raw_len : Nat]

LayoutTypeOK ==
  /\ phase \in {"reading", "uploaded"}
  /\ chunks \subseteq ChunkRecords
  /\ bundles \subseteq BundleRecords
  /\ bundle_count \in Nat /\ chunk_count \in Nat /\ raw_len \in Nat /\ new_size \in Nat
  /\ written \subseteq chunks
  /\ first_error \in BOOLEAN

LayoutInit ==
  /\ phase = "reading"
  /\ chunks = {} /\ bundles = {}
  /\ bundle_count = 0 /\ chunk_count = 0 /\ raw_len = 0 /\ new_size = 0
  /\ written = {}
  /\ first_error = FALSE

-----------------------------------------------------------------------------
(* A read of n bytes: at most a chunk, at most what the bundle has left,   *)
(* and possibly less than the file has.                                    *)
Read(n) ==
  /\ phase = "reading" /\ raw_len < VOLUME_BUNDLE_RAW_SIZE
  /\ 0 < n /\ n <= VOLUME_RAW_CHUNK_SIZE /\ n <= VOLUME_BUNDLE_RAW_SIZE - raw_len
  /\ chunks' = chunks \cup {[bundle |-> bundle_count, index |-> chunk_count,
                             offset |-> new_size + raw_len, len |-> n]}
  /\ chunk_count' = chunk_count + 1
  /\ raw_len' = raw_len + n
  /\ UNCHANGED <<phase, bundles, bundle_count, new_size, written, first_error>>

(* The bundle is full, or a read returned nothing; the file may grow later.*)
EndBundle ==
  /\ phase = "reading" /\ chunk_count > 0
  /\ bundles' = bundles \cup {[index |-> bundle_count, start |-> new_size, raw_len |-> raw_len]}
  /\ bundle_count' = bundle_count + 1
  /\ new_size' = new_size + raw_len
  /\ chunk_count' = 0 /\ raw_len' = 0
  /\ UNCHANGED <<phase, chunks, written, first_error>>

(* The first read of a bundle returns nothing: the upload is complete, and *)
(* the size it commits is the sum of its bundles.                          *)
EndFile ==
  /\ phase = "reading" /\ chunk_count = 0
  /\ phase' = "uploaded"
  /\ UNCHANGED <<chunks, bundles, bundle_count, chunk_count, raw_len, new_size, written,
                 first_error>>

-----------------------------------------------------------------------------
(* Offset and length a download expects of chunk c of bundle b.            *)
RawOffset(c) == c.bundle * VOLUME_BUNDLE_RAW_SIZE + c.index * VOLUME_RAW_CHUNK_SIZE
Left(b, c) == b.raw_len - c.index * VOLUME_RAW_CHUNK_SIZE
RawLen(b, c) == IF Left(b, c) < VOLUME_RAW_CHUNK_SIZE THEN Left(b, c) ELSE VOLUME_RAW_CHUNK_SIZE

(* The chunk begins inside its bundle, ends inside the file, and has the   *)
(* expected length when it arrives.                                        *)
Accepted(b, c) ==
  /\ Left(b, c) > 0
  /\ RawOffset(c) + RawLen(b, c) <= new_size
  /\ c.len = RawLen(b, c)

Download(b, c) ==
  /\ phase = "uploaded"
  /\ b \in bundles /\ c \in chunks /\ c.bundle = b.index
  /\ written' = IF Accepted(b, c) THEN written \cup {c} ELSE written
  /\ first_error' = (first_error \/ ~Accepted(b, c))
  /\ UNCHANGED <<phase, chunks, bundles, bundle_count, chunk_count, raw_len, new_size>>

LayoutNext ==
  \/ \E n \in 1 .. VOLUME_RAW_CHUNK_SIZE : Read(n)
  \/ EndBundle
  \/ EndFile
  \/ \E b \in bundles, c \in chunks : Download(b, c)

LayoutSpec == LayoutInit /\ [][LayoutNext]_layoutVars

-----------------------------------------------------------------------------
Downloaded == phase = "uploaded" /\ written = chunks

(* The chunks of a file are all of it: each byte is in one of them.        *)
FileCovered ==
  \A x \in 0 .. new_size - 1 : \E c \in chunks : c.offset <= x /\ x < c.offset + c.len

(* A download that has written every chunk has reproduced the file: each   *)
(* chunk is where the upload read it, however short the reads were.        *)
DownloadExact ==
  Downloaded => FileCovered /\ \A c \in chunks : RawOffset(c) = c.offset

(* An upload whose reads were full, except one that ended the file, can be *)
(* downloaded.  (One with any other short read never can: it is committed  *)
(* and every download of it fails.)                                        *)
FullReads == \A c \in chunks : c.len = VOLUME_RAW_CHUNK_SIZE \/ c.offset + c.len = new_size
EndsInBundle ==
  \A b \in bundles : b.raw_len = VOLUME_BUNDLE_RAW_SIZE \/ b.start + b.raw_len = new_size

FullReadsDownload ==
  (phase = "uploaded" /\ FullReads /\ EndsInBundle) => ~first_error
=============================================================================
