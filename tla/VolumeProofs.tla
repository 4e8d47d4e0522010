---------------------------- MODULE VolumeProofs ----------------------------
(***************************************************************************)
(* NoOverlap, WithinDataFile, StoredChunksIntact, ReadsIntact,             *)
(* BundlesComplete and RecordsAgree for every number of chunks, writers    *)
(* and readers and every size.  StoredChunksIntact is not inductive: it    *)
(* needs to know of calls that have not inserted a row yet (their ranges   *)
(* are private, and what they wrote is still there when they insert) and   *)
(* of readers that hold a row whose chunk is already deleted.              *)
(***************************************************************************)
EXTENDS Volume, TLAPS

(* The state a fact speaks of is a parameter, so that the fact can be      *)
(* carried over a step by replacing the state.                             *)

(* A range lies below the reserved offset and inside one data file.        *)
Placed(row, active) ==
  /\ row.offset + CompressedLen[row.payload] <= active
  /\ (row.offset % DataFileSize) + CompressedLen[row.payload] <= DataFileSize

(* The bytes were written; and they are durable.                           *)
Written(row, bytes) ==
  \A a \in Extent(row) :
    bytes[a] = [payload |-> row.payload, index |-> a - row.offset]
Durable(row, unsynced) == \A a \in Extent(row) : a \notin unsynced

Disjoint(r, s) == Extent(r) \cap Extent(s) = {}

AllPlaced ==
  /\ \A c \in ChunkIds : chunks[c] # None => Placed(chunks[c], active_offset)
  /\ \A w \in Writers : puts[w] # None => Placed(puts[w].row, active_offset)
  /\ \A r \in Readers : reads[r] # None => Placed(reads[r], active_offset)

AllDisjoint ==
  /\ \A c, d \in ChunkIds :
       (c # d /\ chunks[c] # None /\ chunks[d] # None) => Disjoint(chunks[c], chunks[d])
  /\ \A w \in Writers, c \in ChunkIds :
       (puts[w] # None /\ chunks[c] # None) => Disjoint(puts[w].row, chunks[c])
  /\ \A w, v \in Writers :
       (w # v /\ puts[w] # None /\ puts[v] # None) => Disjoint(puts[w].row, puts[v].row)
  /\ \A w \in Writers, r \in Readers :
       (puts[w] # None /\ reads[r] # None) => Disjoint(puts[w].row, reads[r])

AllIntact ==
  /\ \A c \in ChunkIds : chunks[c] # None =>
       Written(chunks[c], disk) /\ Durable(chunks[c], dirty)
  /\ \A r \in Readers : reads[r] # None =>
       Written(reads[r], disk) /\ Durable(reads[r], dirty)
  /\ \A w \in Writers : puts[w] # None =>
       /\ puts[w].pc \in {"wrote", "synced"} => Written(puts[w].row, disk)
       /\ puts[w].pc = "synced" => Durable(puts[w].row, dirty)

VolumeInv ==
  /\ VolumeTypeOK
  /\ AllPlaced
  /\ AllDisjoint
  /\ AllIntact
  /\ BundlesComplete
  /\ RecordsAgree

-----------------------------------------------------------------------------
(* Arithmetic of the data-file boundary. *)

LEMMA SkipForward ==
  ASSUME NEW a \in Nat, NEW F \in Nat \ {0}
  PROVE  a < ((a \div F) + 1) * F
  BY Z3

LEMMA StartOfFile ==
  ASSUME NEW k \in Nat, NEW F \in Nat \ {0}
  PROVE  (k * F) % F = 0
  BY Z3

LEMMA SameFile ==
  ASSUME NEW o \in Nat, NEW F \in Nat \ {0}, NEW k \in Nat, (o % F) + k < F
  PROVE  (o + k) \div F = o \div F
  BY Z3

LEMMA DivNat ==
  ASSUME NEW a \in Nat, NEW F \in Nat \ {0}
  PROVE  a \div F \in Nat /\ a % F \in Nat
  BY Z3

(* Where put_chunk places a chunk: not before the active offset, and       *)
(* without crossing the end of a data file.                                *)
LEMMA PlaceAtFacts ==
  ASSUME VolumeTypeOK, NEW p \in Payloads, ValidPayload(p)
  PROVE  /\ PlaceAt(p) \in Nat
         /\ PlaceAt(p) >= active_offset
         /\ (PlaceAt(p) % DataFileSize) + CompressedLen[p] <= DataFileSize
<1> DEFINE F == DataFileSize
           a == active_offset
<1>1. F \in Nat \ {0} /\ a \in Nat /\ CompressedLen[p] \in Nat /\ MaxBytes \in Nat
      /\ CompressedLen[p] <= F
  BY VolumeAssumption DEF VolumeTypeOK, ValidPayload
<1>2. a \div F \in Nat /\ a % F \in Nat
  BY <1>1, DivNat
<1>3. CASE (a % F) + CompressedLen[p] > F
  <2>1. PlaceAt(p) = ((a \div F) + 1) * F
    BY <1>3 DEF PlaceAt
  <2> HIDE DEF F, a
  <2>2. a < ((a \div F) + 1) * F
    BY <1>1, SkipForward
  <2>3. (a \div F) + 1 \in Nat
    BY <1>2
  <2>4. (((a \div F) + 1) * F) % F = 0
    BY <1>1, <2>3, StartOfFile
  <2>5. ((a \div F) + 1) * F \in Nat
    BY <1>1, <2>3
  <2> QED
    BY <1>1, <2>1, <2>2, <2>4, <2>5 DEF F, a
<1>4. CASE ~((a % F) + CompressedLen[p] > F)
  <2>1. PlaceAt(p) = a
    BY <1>4 DEF PlaceAt
  <2> QED
    BY <1>1, <1>2, <1>4, <2>1
<1> QED
  BY <1>3, <1>4

(* An extent that is placed lies in the address space.                     *)
LEMMA ExtentAddresses ==
  ASSUME VolumeTypeOK, NEW row \in Rows, Placed(row, active_offset)
  PROVE  /\ Extent(row) \subseteq Addresses
         /\ \A a \in Extent(row) : a < active_offset
  BY VolumeAssumption DEF VolumeTypeOK, Rows, Placed, Extent, Addresses

(* All of a placed extent is in the data file of its first byte, so the    *)
(* sync_data of that file covers it.                                       *)
LEMMA ExtentFile ==
  ASSUME VolumeTypeOK, NEW row \in Rows, Placed(row, active_offset), NEW a \in Extent(row)
  PROVE  FileOf(a) = FileOf(row.offset)
<1> DEFINE k == a - row.offset
<1>1. row.offset \in Nat /\ CompressedLen[row.payload] \in Nat
      /\ DataFileSize \in Nat \ {0}
  BY VolumeAssumption DEF Rows
<1>2. k \in Nat /\ k < CompressedLen[row.payload] /\ a = row.offset + k
  BY <1>1 DEF Extent
<1>3. row.offset % DataFileSize \in Nat
  BY <1>1, DivNat
<1>4. (row.offset % DataFileSize) + k < DataFileSize
  BY <1>1, <1>2, <1>3 DEF Placed
<1> HIDE DEF k
<1>5. (row.offset + k) \div DataFileSize = row.offset \div DataFileSize
  BY <1>1, <1>2, <1>4, SameFile
<1> QED
  BY <1>2, <1>5 DEF FileOf

-----------------------------------------------------------------------------
LEMMA VolumeInitInv == VolumeInit => VolumeInv
  BY VolumeAssumption
  DEF VolumeInit, VolumeInv, VolumeTypeOK, AllPlaced, AllDisjoint, AllIntact,
      BundlesComplete, RecordsAgree, Addresses, Bytes

LEMMA PutReserveInv ==
  ASSUME VolumeInv, NEW w \in Writers, NEW c \in ChunkIds, NEW p \in Payloads,
         PutReserve(w, c, p)
  PROVE  VolumeInv'
<1>1. PICK row : row = [offset |-> PlaceAt(p), payload |-> p]
  OBVIOUS
<1>2. PICK put : put = [pc |-> "reserved", live |-> TRUE, chunk |-> c, row |-> row]
  OBVIOUS
<1>3. /\ CompressedLen \in [Payloads -> Nat] /\ MaxBytes \in Nat
      /\ active_offset \in Nat /\ CompressedLen[p] \in Nat
  BY VolumeAssumption DEF VolumeInv, VolumeTypeOK
<1>4. /\ row \in Rows /\ put \in Puts /\ put.row = row /\ put.pc = "reserved"
      /\ row.payload = p /\ row.offset >= active_offset
      /\ (row.offset % DataFileSize) + CompressedLen[p] <= DataFileSize
  BY <1>1, <1>2, PlaceAtFacts DEF VolumeInv, PutReserve, Rows, Puts
<1>5. /\ active_offset' = row.offset + CompressedLen[p]
      /\ active_offset' <= MaxBytes
      /\ active_offset' >= active_offset
  BY <1>1, <1>3, <1>4 DEF PutReserve, Reserved, HasCapacity, Rows
<1>6. /\ puts[w] = None /\ puts' = [puts EXCEPT ![w] = put]
      /\ UNCHANGED <<chunks, bundles, records, next_event, disk, dirty, reads>>
  BY <1>1, <1>2 DEF PutReserve
<1>7. puts'[w] = put /\ \A v \in Writers \ {w} : puts'[v] = puts[v]
  BY <1>6 DEF VolumeInv, VolumeTypeOK
<1>8. VolumeTypeOK'
  BY <1>3, <1>4, <1>5, <1>6 DEF VolumeInv, VolumeTypeOK, Rows
<1>9. AllPlaced'
  <2>1. ASSUME NEW r \in Rows, Placed(r, active_offset)
        PROVE  Placed(r, active_offset')
    BY <1>3, <1>4, <1>5, <2>1 DEF Placed, Rows
  <2>2. Placed(row, active_offset')
    BY <1>4, <1>5 DEF Placed
  <2> QED
    BY <1>4, <1>6, <1>7, <2>1, <2>2 DEF VolumeInv, VolumeTypeOK, AllPlaced, Puts
<1>10. AllDisjoint'
  <2>1. ASSUME NEW r \in Rows, Placed(r, active_offset)
        PROVE  Disjoint(row, r) /\ Disjoint(r, row)
    BY <1>3, <1>4, <2>1 DEF Placed, Disjoint, Extent, Rows
  <2>2. /\ \A d \in ChunkIds : chunks[d] # None => Disjoint(row, chunks[d])
        /\ \A r \in Readers : reads[r] # None => Disjoint(row, reads[r])
        /\ \A v \in Writers : puts[v] # None =>
             Disjoint(row, puts[v].row) /\ Disjoint(puts[v].row, row)
    BY <2>1 DEF VolumeInv, VolumeTypeOK, AllPlaced, Puts
  <2> QED
    BY <1>4, <1>6, <1>7, <2>2 DEF VolumeInv, AllDisjoint
<1>11. AllIntact'
  BY <1>4, <1>6, <1>7 DEF VolumeInv, AllIntact
<1>12. BundlesComplete' /\ RecordsAgree'
  BY <1>6 DEF VolumeInv, BundlesComplete, RecordsAgree
<1> QED
  BY <1>8, <1>9, <1>10, <1>11, <1>12 DEF VolumeInv

(* A write to the range of one call leaves every other range alone.        *)
LEMMA WriteToFacts ==
  ASSUME VolumeInv, NEW w \in Writers, puts[w] # None,
         NEW S \in SUBSET Extent(puts[w].row),
         disk' = WriteTo(S, puts[w].row), dirty' = dirty \cup S
  PROVE  /\ disk' \in [Addresses -> Bytes] /\ dirty' \subseteq Addresses
         /\ \A r \in Rows : (Placed(r, active_offset) /\ Disjoint(puts[w].row, r)) =>
              /\ Written(r, disk) => Written(r, disk')
              /\ Durable(r, dirty) => Durable(r, dirty')
         /\ S = Extent(puts[w].row) => Written(puts[w].row, disk')
<1>1. puts[w].row \in Rows /\ Placed(puts[w].row, active_offset)
  BY DEF VolumeInv, VolumeTypeOK, AllPlaced, Puts
<1>2. Extent(puts[w].row) \subseteq Addresses
  BY <1>1, ExtentAddresses DEF VolumeInv
<1>3. \A a \in Addresses :
        disk'[a] = IF a \in S THEN [payload |-> puts[w].row.payload,
                                    index |-> a - puts[w].row.offset]
                              ELSE disk[a]
  BY DEF WriteTo
<1>4. disk' \in [Addresses -> Bytes] /\ dirty' \subseteq Addresses
  <2>1. ASSUME NEW a \in S
        PROVE  [payload |-> puts[w].row.payload, index |-> a - puts[w].row.offset] \in Bytes
    BY <1>1, VolumeAssumption DEF Extent, Rows, Bytes
  <2> QED
    BY <1>2, <2>1 DEF WriteTo, VolumeInv, VolumeTypeOK
<1>5. ASSUME NEW r \in Rows, Placed(r, active_offset), Disjoint(puts[w].row, r)
      PROVE  /\ Written(r, disk) => Written(r, disk')
             /\ Durable(r, dirty) => Durable(r, dirty')
  <2>1. Extent(r) \subseteq Addresses /\ Extent(r) \cap S = {}
    BY <1>5, ExtentAddresses DEF VolumeInv, Disjoint
  <2> QED
    BY <1>3, <2>1 DEF Written, Durable
<1>6. S = Extent(puts[w].row) => Written(puts[w].row, disk')
  BY <1>2, <1>3 DEF Written
<1> QED
  BY <1>4, <1>5, <1>6

(* PutWrite, and PutFail in the middle of a write.                         *)
LEMMA WritingInv ==
  ASSUME VolumeInv, NEW w \in Writers, puts[w] # None, puts[w].pc = "reserved",
         NEW S \in SUBSET Extent(puts[w].row), NEW put,
         disk' = WriteTo(S, puts[w].row), dirty' = dirty \cup S,
         puts' = [puts EXCEPT ![w] = put],
         \/ put = None
         \/ S = Extent(puts[w].row) /\ put = [puts[w] EXCEPT !.pc = "wrote"],
         UNCHANGED <<volumeDb, reads>>
  PROVE  VolumeInv'
<1>1. UNCHANGED <<chunks, active_offset, bundles, records, next_event, reads>>
  BY DEF volumeDb
<1>2. puts'[w] = put /\ \A v \in Writers \ {w} : puts'[v] = puts[v]
  BY DEF VolumeInv, VolumeTypeOK
<1>3. put # None => put \in Puts /\ put.row = puts[w].row /\ put.pc = "wrote"
  BY DEF VolumeInv, VolumeTypeOK, Puts
<1>4. VolumeTypeOK'
  BY <1>1, <1>3, WriteToFacts DEF VolumeInv, VolumeTypeOK
<1>5. AllPlaced'
  BY <1>1, <1>2, <1>3 DEF VolumeInv, AllPlaced
<1>6. AllDisjoint'
  BY <1>1, <1>2, <1>3 DEF VolumeInv, AllDisjoint
<1>7. AllIntact'
  <2>1. ASSUME NEW c \in ChunkIds, chunks[c] # None
        PROVE  Written(chunks[c], disk') /\ Durable(chunks[c], dirty')
    BY <2>1, WriteToFacts DEF VolumeInv, VolumeTypeOK, AllPlaced, AllDisjoint, AllIntact
  <2>2. ASSUME NEW r \in Readers, reads[r] # None
        PROVE  Written(reads[r], disk') /\ Durable(reads[r], dirty')
    BY <2>2, WriteToFacts DEF VolumeInv, VolumeTypeOK, AllPlaced, AllDisjoint, AllIntact
  <2>3. ASSUME NEW v \in Writers \ {w}, puts[v] # None
        PROVE  /\ puts[v].pc \in {"wrote", "synced"} => Written(puts[v].row, disk')
               /\ puts[v].pc = "synced" => Durable(puts[v].row, dirty')
    <3>1. puts[v].row \in Rows /\ Placed(puts[v].row, active_offset)
          /\ Disjoint(puts[w].row, puts[v].row)
      BY <2>3 DEF VolumeInv, VolumeTypeOK, AllPlaced, AllDisjoint, Puts
    <3> QED
      BY <2>3, <3>1, WriteToFacts DEF VolumeInv, AllIntact
  <2>4. put # None => Written(put.row, disk')
    BY <1>3, WriteToFacts
  <2> QED
    BY <1>1, <1>2, <1>3, <2>1, <2>2, <2>3, <2>4 DEF AllIntact
<1>8. BundlesComplete' /\ RecordsAgree'
  BY <1>1 DEF VolumeInv, BundlesComplete, RecordsAgree
<1> QED
  BY <1>4, <1>5, <1>6, <1>7, <1>8 DEF VolumeInv

LEMMA PutWriteInv ==
  ASSUME VolumeInv, NEW w \in Writers, PutWrite(w)
  PROVE  VolumeInv'
<1>1. puts' = [puts EXCEPT ![w] = [puts[w] EXCEPT !.pc = "wrote"]]
  BY DEF PutWrite
<1> QED
  BY <1>1, WritingInv DEF PutWrite

(* sync_data makes the whole range durable because it lies in one file.    *)
LEMMA PutSyncInv ==
  ASSUME VolumeInv, NEW w \in Writers, PutSync(w)
  PROVE  VolumeInv'
<1>1. /\ puts[w] # None /\ puts[w].pc = "wrote"
      /\ dirty' = dirty \ Synced(w)
      /\ puts' = [puts EXCEPT ![w].pc = "synced"]
      /\ UNCHANGED <<chunks, active_offset, bundles, records, next_event, disk, reads>>
  BY DEF PutSync, volumeDb
<1>2. /\ puts[w] \in Puts /\ puts[w].row \in Rows /\ Placed(puts[w].row, active_offset)
      /\ Written(puts[w].row, disk)
  BY <1>1 DEF VolumeInv, VolumeTypeOK, AllPlaced, AllIntact, Puts
<1>3. /\ puts'[w] \in Puts /\ puts'[w].row = puts[w].row /\ puts'[w].pc = "synced"
      /\ puts'[w] # None
      /\ \A v \in Writers \ {w} : puts'[v] = puts[v]
  BY <1>1, <1>2, VolumeAssumption DEF VolumeInv, VolumeTypeOK, Puts
<1>4. Durable(puts[w].row, dirty')
  BY <1>1, <1>2, ExtentFile DEF VolumeInv, Durable, Synced
<1>5. \A r : Durable(r, dirty) => Durable(r, dirty')
  BY <1>1 DEF Durable
<1>6. VolumeTypeOK'
  BY <1>1, <1>3 DEF VolumeInv, VolumeTypeOK
<1>7. AllPlaced'
  BY <1>1, <1>3 DEF VolumeInv, AllPlaced
<1>8. AllDisjoint'
  BY <1>1, <1>3 DEF VolumeInv, AllDisjoint
<1>9. AllIntact'
  BY <1>1, <1>2, <1>3, <1>4, <1>5 DEF VolumeInv, AllIntact
<1>10. BundlesComplete' /\ RecordsAgree'
  BY <1>1 DEF VolumeInv, BundlesComplete, RecordsAgree
<1> QED
  BY <1>6, <1>7, <1>8, <1>9, <1>10 DEF VolumeInv

(* Steps that only end a call, mark it aborted, or crash at its await.     *)
LEMMA PutEndInv ==
  ASSUME VolumeInv, NEW w \in Writers, puts[w] # None, NEW put,
         \/ put = None
         \/ put = [puts[w] EXCEPT !.live = FALSE],
         puts' = [puts EXCEPT ![w] = put],
         UNCHANGED <<volumeDb, disk, dirty, reads>>
  PROVE  VolumeInv'
<1>1. UNCHANGED <<chunks, active_offset, bundles, records, next_event, disk, dirty, reads>>
  BY DEF volumeDb
<1>2. puts'[w] = put /\ \A v \in Writers \ {w} : puts'[v] = puts[v]
  BY DEF VolumeInv, VolumeTypeOK
<1>3. put # None => put \in Puts /\ put.row = puts[w].row /\ put.pc = puts[w].pc
  BY DEF VolumeInv, VolumeTypeOK, Puts
<1>4. VolumeTypeOK'
  BY <1>1, <1>3 DEF VolumeInv, VolumeTypeOK
<1>5. AllPlaced'
  BY <1>1, <1>2, <1>3 DEF VolumeInv, AllPlaced
<1>6. AllDisjoint'
  BY <1>1, <1>2, <1>3 DEF VolumeInv, AllDisjoint
<1>7. AllIntact'
  BY <1>1, <1>2, <1>3 DEF VolumeInv, AllIntact
<1>8. BundlesComplete' /\ RecordsAgree'
  BY <1>1 DEF VolumeInv, BundlesComplete, RecordsAgree
<1> QED
  BY <1>4, <1>5, <1>6, <1>7, <1>8 DEF VolumeInv

LEMMA PutFailInv ==
  ASSUME VolumeInv, NEW w \in Writers, PutFail(w)
  PROVE  VolumeInv'
<1>1. CASE puts[w].pc = "reserved"
  BY <1>1, WritingInv DEF PutFail
<1>2. CASE puts[w].pc = "wrote"
  BY <1>2, PutEndInv DEF PutFail, volumeDb
<1> QED
  BY <1>1, <1>2 DEF PutFail

LEMMA PutCancelInv ==
  ASSUME VolumeInv, NEW w \in Writers, PutCancel(w) \/ PutForgotten(w)
  PROVE  VolumeInv'
<1>1. CASE PutCancel(w)
  <2>1. puts' = [puts EXCEPT ![w] = [puts[w] EXCEPT !.live = FALSE]]
    BY <1>1 DEF PutCancel
  <2> QED
    BY <1>1, <2>1, PutEndInv DEF PutCancel, volumeDb
<1>2. CASE PutForgotten(w)
  BY <1>2, PutEndInv DEF PutForgotten, volumeDb
<1> QED
  BY <1>1, <1>2

LEMMA PutInsertInv ==
  ASSUME VolumeInv, NEW w \in Writers, PutInsert(w)
  PROVE  VolumeInv'
<1>1. PICK c : c = puts[w].chunk
  OBVIOUS
<1>2. PICK row : row = puts[w].row
  OBVIOUS
<1>3. /\ puts[w] # None /\ puts[w].pc = "synced" /\ puts[w] \in Puts
      /\ c \in ChunkIds /\ row \in Rows
      /\ Placed(row, active_offset) /\ Written(row, disk) /\ Durable(row, dirty)
  BY <1>1, <1>2 DEF PutInsert, VolumeInv, VolumeTypeOK, AllPlaced, AllIntact, Puts
<1>4. /\ chunks' = [chunks EXCEPT ![c] = InsertedRow(c, row)]
      /\ puts' = [puts EXCEPT ![w] = None]
      /\ UNCHANGED <<active_offset, bundles, records, next_event, disk, dirty, reads>>
  BY <1>1, <1>2 DEF PutInsert
<1>5. /\ puts'[w] = None /\ \A v \in Writers \ {w} : puts'[v] = puts[v]
      /\ \A d \in ChunkIds \ {c} : chunks'[d] = chunks[d]
      /\ chunks'[c] = row \/ (chunks'[c] = chunks[c] /\ chunks[c] # None)
  BY <1>3, <1>4 DEF VolumeInv, VolumeTypeOK, InsertedRow
<1>6. VolumeTypeOK'
  BY <1>3, <1>4, <1>5 DEF VolumeInv, VolumeTypeOK, InsertedRow
<1>7. AllPlaced'
  BY <1>3, <1>4, <1>5 DEF VolumeInv, AllPlaced
<1>8. AllDisjoint'
  <2>1. /\ \A d \in ChunkIds : chunks[d] # None => Disjoint(row, chunks[d])
        /\ \A v \in Writers \ {w} : puts[v] # None => Disjoint(puts[v].row, row)
    BY <1>2, <1>3 DEF VolumeInv, AllDisjoint
  <2>2. \A r, s : Disjoint(r, s) <=> Disjoint(s, r)
    BY DEF Disjoint
  <2> QED
    BY <1>4, <1>5, <2>1, <2>2 DEF VolumeInv, AllDisjoint
<1>9. AllIntact'
  BY <1>3, <1>4, <1>5 DEF VolumeInv, AllIntact
<1>10. BundlesComplete'
  BY <1>3, <1>4, <1>5, VolumeAssumption DEF VolumeInv, VolumeTypeOK, BundlesComplete
<1>11. RecordsAgree'
  BY <1>4 DEF VolumeInv, RecordsAgree
<1> QED
  BY <1>6, <1>7, <1>8, <1>9, <1>10, <1>11 DEF VolumeInv

LEMMA ReadInv ==
  ASSUME VolumeInv, NEW r \in Readers,
         (\E c \in ChunkIds : ReadLookup(r, c)) \/ ReadBytes(r)
  PROVE  VolumeInv'
<1>1. PICK row : /\ row = None \/ \E c \in ChunkIds : chunks[c] # None /\ row = chunks[c]
                 /\ reads' = [reads EXCEPT ![r] = row]
                 /\ UNCHANGED <<volumeDb, disk, dirty, puts>>
  BY DEF ReadLookup, ReadBytes
<1>2. UNCHANGED <<chunks, active_offset, bundles, records, next_event, disk, dirty, puts>>
  BY <1>1 DEF volumeDb
<1>3. /\ reads'[r] = row /\ row \in Rows \cup {None}
      /\ \A q \in Readers \ {r} : reads'[q] = reads[q]
  BY <1>1 DEF VolumeInv, VolumeTypeOK
<1>4. VolumeTypeOK'
  BY <1>1, <1>2, <1>3 DEF VolumeInv, VolumeTypeOK
<1>5. AllPlaced'
  BY <1>1, <1>2, <1>3 DEF VolumeInv, AllPlaced
<1>6. AllDisjoint'
  BY <1>1, <1>2, <1>3 DEF VolumeInv, AllDisjoint
<1>7. AllIntact'
  BY <1>1, <1>2, <1>3 DEF VolumeInv, AllIntact
<1>8. BundlesComplete' /\ RecordsAgree'
  BY <1>2 DEF VolumeInv, BundlesComplete, RecordsAgree
<1> QED
  BY <1>4, <1>5, <1>6, <1>7, <1>8 DEF VolumeInv

LEMMA DeleteChunkInv ==
  ASSUME VolumeInv, NEW c \in ChunkIds, DeleteChunk(c)
  PROVE  VolumeInv'
<1>1. /\ chunks'[c] = None /\ \A d \in ChunkIds \ {c} : chunks'[d] = chunks[d]
      /\ chunks' \in [ChunkIds -> Rows \cup {None}]
      /\ UNCHANGED <<active_offset, bundles, records, next_event, disk, dirty, puts, reads>>
  BY DEF DeleteChunk, VolumeInv, VolumeTypeOK
<1>2. VolumeTypeOK'
  BY <1>1 DEF VolumeInv, VolumeTypeOK
<1>3. AllPlaced'
  BY <1>1 DEF VolumeInv, AllPlaced
<1>4. AllDisjoint'
  BY <1>1 DEF VolumeInv, AllDisjoint
<1>5. AllIntact'
  BY <1>1 DEF VolumeInv, AllIntact
<1>6. BundlesComplete'
  BY <1>1, VolumeAssumption
  DEF DeleteChunk, Unreferenced, VolumeInv, VolumeTypeOK, BundlesComplete
<1>7. RecordsAgree'
  BY <1>1 DEF VolumeInv, RecordsAgree
<1> QED
  BY <1>2, <1>3, <1>4, <1>5, <1>6, <1>7 DEF VolumeInv

(* commit_bundle, delete_bundle and remove_bundle_change_records touch     *)
(* neither chunks nor bytes.                                               *)
LEMMA ChangeRecordInv ==
  ASSUME VolumeInv, NEW b \in BundleIds, NEW kind \in {"stored", "deleted"},
         ChangeRecord(b, kind),
         bundles' = IF kind = "stored" THEN bundles \cup {b} ELSE bundles \ {b},
         kind = "stored" => \A c \in BundleChunks[b] : chunks[c] # None,
         UNCHANGED <<chunks, active_offset, disk, dirty, puts, reads>>
  PROVE  VolumeInv'
<1>1. /\ records'[b] \in Records /\ records'[b].kind = kind
      /\ records' = [records EXCEPT ![b] = records'[b]]
      /\ next_event' \in Nat
  BY DEF ChangeRecord, NewRecord, VolumeInv, VolumeTypeOK, Records
<1>2. \A d \in BundleIds \ {b} : records'[d] = records[d]
  BY <1>1 DEF VolumeInv, VolumeTypeOK
<1>3. VolumeTypeOK'
  BY <1>1 DEF VolumeInv, VolumeTypeOK
<1>4. AllPlaced'
  BY DEF VolumeInv, AllPlaced
<1>5. AllDisjoint' /\ AllIntact'
  BY DEF VolumeInv, AllDisjoint, AllIntact
<1>6. BundlesComplete'
  BY DEF VolumeInv, BundlesComplete
<1>7. RecordsAgree'
  BY <1>1, <1>2 DEF VolumeInv, RecordsAgree
<1> QED
  BY <1>3, <1>4, <1>5, <1>6, <1>7 DEF VolumeInv

LEMMA RemoveRecordsInv ==
  ASSUME VolumeInv, NEW max, RemoveRecords(max)
  PROVE  VolumeInv'
<1>1. UNCHANGED <<chunks, active_offset, bundles, next_event, disk, dirty, puts, reads>>
  BY DEF RemoveRecords
<1>2. /\ records' \in [BundleIds -> Records \cup {None}]
      /\ \A b \in BundleIds : records'[b] # None => records'[b] = records[b]
  BY DEF RemoveRecords, VolumeInv, VolumeTypeOK
<1>3. VolumeTypeOK'
  BY <1>1, <1>2 DEF VolumeInv, VolumeTypeOK
<1>4. AllPlaced' /\ BundlesComplete'
  BY <1>1 DEF VolumeInv, AllPlaced, BundlesComplete
<1>5. AllDisjoint' /\ AllIntact'
  BY <1>1 DEF VolumeInv, AllDisjoint, AllIntact
<1>6. RecordsAgree'
  BY <1>1, <1>2 DEF VolumeInv, RecordsAgree
<1> QED
  BY <1>3, <1>4, <1>5, <1>6 DEF VolumeInv

(* What a crash can damage lies outside every stored chunk.                *)
LEMMA CrashInv ==
  ASSUME VolumeInv, CrashAndOpen
  PROVE  VolumeInv'
<1> DEFINE busy == {a \in Addresses : \E w \in Writers :
                      puts[w] # None /\ puts[w].pc = "reserved" /\ a \in Extent(puts[w].row)}
<1>1. PICK lost \in SUBSET (dirty \cup busy) :
        disk' = [a \in Addresses |-> IF a \in lost THEN Torn ELSE disk[a]]
  BY DEF CrashAndOpen
<1>2. /\ dirty' = {} /\ puts' = [w \in Writers |-> None] /\ reads' = [r \in Readers |-> None]
      /\ UNCHANGED <<chunks, active_offset, bundles, records, next_event>>
  BY DEF CrashAndOpen, volumeDb
<1>3. VolumeTypeOK'
  BY <1>1, <1>2 DEF VolumeInv, VolumeTypeOK, Bytes
<1>4. AllPlaced' /\ BundlesComplete' /\ RecordsAgree'
  BY <1>2 DEF VolumeInv, AllPlaced, BundlesComplete, RecordsAgree
<1>5. AllDisjoint'
  BY <1>2 DEF VolumeInv, AllDisjoint
<1>6. AllIntact'
  <2>1. ASSUME NEW c \in ChunkIds, chunks[c] # None
        PROVE  Written(chunks[c], disk')
    <3>1. Extent(chunks[c]) \subseteq Addresses
      BY <2>1, ExtentAddresses DEF VolumeInv, VolumeTypeOK, AllPlaced
    <3>2. Extent(chunks[c]) \cap busy = {}
      BY <2>1 DEF VolumeInv, AllDisjoint, Disjoint
    <3>3. Extent(chunks[c]) \cap lost = {}
      BY <1>1, <2>1, <3>2 DEF VolumeInv, AllIntact, Durable
    <3> QED
      BY <1>1, <2>1, <3>1, <3>3 DEF VolumeInv, AllIntact, Written
  <2> QED
    BY <1>2, <2>1 DEF AllIntact, Durable
<1> QED
  BY <1>3, <1>4, <1>5, <1>6 DEF VolumeInv

LEMMA VolumeStepInv == VolumeInv /\ [VolumeNext]_volumeVars => VolumeInv'
<1> SUFFICES ASSUME VolumeInv, [VolumeNext]_volumeVars PROVE VolumeInv'
  OBVIOUS
<1>1. CASE VolumePut
  BY <1>1, PutReserveInv, PutWriteInv, PutSyncInv, PutFailInv, PutCancelInv, PutInsertInv
  DEF VolumePut
<1>2. CASE \E r \in Readers : (\E c \in ChunkIds : ReadLookup(r, c)) \/ ReadBytes(r)
  BY <1>2, ReadInv
<1>3. CASE \E c \in ChunkIds : DeleteChunk(c)
  BY <1>3, DeleteChunkInv
<1>4. ASSUME NEW b \in BundleIds, CommitBundle(b) PROVE VolumeInv'
  BY <1>4, ChangeRecordInv DEF CommitBundle
<1>5. ASSUME NEW b \in BundleIds, DeleteBundle(b) PROVE VolumeInv'
  BY <1>5, ChangeRecordInv DEF DeleteBundle
<1>6. CASE \E max \in 1 .. MaxEvents : RemoveRecords(max)
  BY <1>6, RemoveRecordsInv
<1>7. CASE CrashAndOpen
  BY <1>7, CrashInv
<1>8. CASE UNCHANGED volumeVars
  BY <1>8 DEF volumeVars, VolumeInv, VolumeTypeOK, AllPlaced, AllDisjoint, AllIntact,
              BundlesComplete, RecordsAgree
<1> QED
  BY <1>1, <1>2, <1>3, <1>4, <1>5, <1>6, <1>7, <1>8 DEF VolumeNext

LEMMA VolumeInvariant == VolumeSpec => []VolumeInv
  BY VolumeInitInv, VolumeStepInv, PTL DEF VolumeSpec

(* Chunk ranges never overlap, for any number of concurrent, failing and   *)
(* aborted put_chunk calls (put_chunk's reservation under the lock).       *)
THEOREM VolumeLayout == VolumeSpec => [](VolumeTypeOK /\ NoOverlap)
<1>1. VolumeInv => NoOverlap
  BY DEF VolumeInv, AllDisjoint, NoOverlap, LiveRows, Disjoint
<1>2. VolumeInv => VolumeTypeOK
  BY DEF VolumeInv
<1> QED
  BY <1>1, <1>2, VolumeInvariant, PTL

(* Every range lies inside one data file and the volume: put_chunk skips   *)
(* to the next data file in time, and refuses what the volume has no room  *)
(* for.                                                                    *)
THEOREM VolumeWithin == VolumeSpec => []WithinDataFile
<1>1. VolumeInv => WithinDataFile
  BY VolumeAssumption
  DEF VolumeInv, VolumeTypeOK, AllPlaced, Placed, WithinDataFile, LiveRows, PendingRows,
      Rows, Puts
<1> QED
  BY <1>1, VolumeInvariant, PTL

(* A chunk with a row holds the uploaded bytes durably, across crashes at  *)
(* any point of put_chunk (sync_data before insert_chunk).                 *)
THEOREM VolumeDurability == VolumeSpec => []StoredChunksIntact
<1>1. VolumeInv => StoredChunksIntact
  BY DEF VolumeInv, AllIntact, StoredChunksIntact, LiveRows, Intact, Written, Durable
<1> QED
  BY <1>1, VolumeInvariant, PTL

(* So does a row that read_chunk looked up, though the chunk be deleted    *)
(* and others stored before its bytes are read.                            *)
THEOREM VolumeReads == VolumeSpec => []ReadsIntact
<1>1. VolumeInv => ReadsIntact
  BY DEF VolumeInv, AllIntact, ReadsIntact, Intact, Written, Durable
<1> QED
  BY <1>1, VolumeInvariant, PTL

(* Committed bundles keep all their chunks (commit_bundle's check and the  *)
(* foreign key of bundle_chunks).                                          *)
THEOREM VolumeBundles == VolumeSpec => []BundlesComplete
<1>1. VolumeInv => BundlesComplete
  BY DEF VolumeInv
<1> QED
  BY <1>1, VolumeInvariant, PTL

(* Pending change records agree with the bundle table, however many        *)
(* commits and deletions were folded into one (the upsert of               *)
(* insert_bundle_change_record_tx).                                        *)
THEOREM VolumeRecords == VolumeSpec => []RecordsAgree
<1>1. VolumeInv => RecordsAgree
  BY DEF VolumeInv
<1> QED
  BY <1>1, VolumeInvariant, PTL

(* A stored row is never redirected: no step, and no second put of the     *)
(* chunk, changes a row other than by deleting it (insert_chunk's ON       *)
(* CONFLICT DO NOTHING).                                                   *)
THEOREM VolumeRowsStable == VolumeSpec => RowsStable
<1> DEFINE Stable == \A c \in ChunkIds :
             (chunks[c] # None /\ chunks'[c] # None) => chunks'[c] = chunks[c]
<1>1. VolumeTypeOK /\ [VolumeNext]_volumeVars => [Stable]_volumeVars
  <2> SUFFICES ASSUME VolumeTypeOK, VolumeNext PROVE Stable
    OBVIOUS
  <2>1. ASSUME NEW w \in Writers, PutInsert(w) PROVE Stable
    BY <2>1 DEF PutInsert, InsertedRow, VolumeTypeOK
  <2>2. ASSUME NEW c \in ChunkIds, DeleteChunk(c) PROVE Stable
    BY <2>2 DEF DeleteChunk, VolumeTypeOK
  <2>3. ASSUME UNCHANGED chunks PROVE Stable
    BY <2>3
  <2>4. CASE VolumePut
    BY <2>4, <2>1, <2>3
    DEF VolumePut, PutReserve, PutWrite, PutSync, PutFail, PutCancel, PutForgotten, volumeDb
  <2>5. CASE VolumeNext /\ ~VolumePut
    BY <2>5, <2>2, <2>3
    DEF VolumeNext, ReadLookup, ReadBytes, CommitBundle, DeleteBundle, RemoveRecords,
        CrashAndOpen, volumeDb
  <2> QED
    BY <2>4, <2>5
<1>2. VolumeInv => VolumeTypeOK
  BY DEF VolumeInv
<1> QED
  BY <1>1, <1>2, VolumeInvariant, PTL DEF VolumeSpec, RowsStable
=============================================================================
