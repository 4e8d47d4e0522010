---------------------------- MODULE LayoutProofs ----------------------------
(***************************************************************************)
(* A download reproduces the uploaded file or fails, for files of every    *)
(* length and reads of every length, with the sizes of the code.           *)
(***************************************************************************)
EXTENDS Layout, TLAPS

C == VOLUME_RAW_CHUNK_SIZE
B == VOLUME_BUNDLE_RAW_SIZE

(* The bundle being read, as the record it will become.                    *)
Current == [index |-> bundle_count, start |-> new_size, raw_len |-> raw_len]
AllBundles == bundles \cup {Current}

(* A chunk that began where the download will expect it, but was short.    *)
FirstShort(b, d) == d.bundle = b.index /\ d.offset = b.start + d.index * C /\ d.len < C

Counting ==
  /\ raw_len <= B /\ raw_len <= chunk_count * C
  /\ chunk_count > 0 => raw_len > 0
  /\ raw_len = chunk_count * C \/ \E d \in chunks : FirstShort(Current, d)
  /\ phase = "uploaded" => chunk_count = 0
  /\ phase = "reading" => written = {} /\ ~first_error

BundleRanges ==
  /\ \A b \in bundles : b.index < bundle_count /\ 0 < b.raw_len /\ b.raw_len <= B
                        /\ b.start + b.raw_len <= new_size
  /\ bundle_count > 0 => \E b \in bundles : b.index = bundle_count - 1
                                            /\ b.start + b.raw_len = new_size
  /\ \A a, b \in bundles : a.index = b.index => a = b

(* A bundle that begins before its place is preceded by a short one, and   *)
(* is followed by bundles that do so too.                                  *)
Places ==
  /\ \A b \in AllBundles : b.start <= b.index * B
  /\ \A b \in AllBundles : b.start = b.index * B
       \/ \E a \in bundles : a.raw_len < B /\ a.start + a.raw_len <= b.start
  /\ \A a, b \in AllBundles : (a.index < b.index /\ a.start < a.index * B) => b.start < b.index * B

(* A chunk is in its bundle, and where it is expected unless a chunk       *)
(* before it was short.                                                    *)
ChunkInBundle(b, c) ==
  /\ b.start <= c.offset /\ c.offset + c.len <= b.start + b.raw_len
  /\ c.offset = b.start + c.index * C
     \/ \E d \in chunks : FirstShort(b, d) /\ d.offset + d.len < b.start + b.raw_len

Chunked ==
  /\ \A c \in chunks : 0 < c.len /\ c.len <= C /\ \E b \in AllBundles : c.bundle = b.index
  /\ \A b \in AllBundles, c \in chunks : c.bundle = b.index => ChunkInBundle(b, c)
  /\ \A b \in bundles : \E c \in chunks : c.bundle = b.index
                                          /\ c.offset + c.len = b.start + b.raw_len

LastRead ==
  raw_len > 0 => \E c \in chunks : c.bundle = bundle_count /\ c.offset + c.len = new_size + raw_len

ReadCovered ==
  \A x \in 0 .. new_size + raw_len - 1 :
    \E c \in chunks : c.offset <= x /\ x < c.offset + c.len

Outcome ==
  /\ \A c \in written : \E b \in bundles : c.bundle = b.index /\ Accepted(b, c)
  /\ first_error => \E b \in bundles, c \in chunks : c.bundle = b.index /\ ~Accepted(b, c)

LayoutInv ==
  /\ LayoutTypeOK /\ Counting /\ BundleRanges /\ Places /\ Chunked /\ LastRead /\ ReadCovered
  /\ Outcome

-----------------------------------------------------------------------------
(* All the proofs need of the two sizes.                                   *)
LEMMA Sizes == C \in Nat /\ B \in Nat /\ C > 0 /\ B > 0
BY SMT DEF C, B, VOLUME_RAW_CHUNK_SIZE, VOLUME_BUNDLE_RAW_SIZE

(* What a download expects of a chunk, in terms of C and B.                *)
LEMMA Expectation ==
  ASSUME NEW b \in BundleRecords, NEW c \in ChunkRecords
  PROVE  /\ Left(b, c) = b.raw_len - c.index * C
         /\ RawOffset(c) = c.bundle * B + c.index * C
         /\ RawLen(b, c) = IF Left(b, c) < C THEN Left(b, c) ELSE C
BY DEF Left, RawOffset, RawLen, C, B

(* The initial state: nothing is read.                                     *)
LEMMA LayoutInitInv == LayoutInit => LayoutInv
<1> SUFFICES ASSUME LayoutInit PROVE LayoutInv
  OBVIOUS
<1> USE Sizes DEF LayoutInit
<1>1. LayoutTypeOK /\ Outcome
  BY DEF LayoutTypeOK, Outcome
<1>2. Counting /\ BundleRanges /\ LastRead
  BY DEF Counting, BundleRanges, LastRead
<1>3. Places /\ Chunked
  BY DEF Places, Chunked, AllBundles, Current
<1>4. ReadCovered
  <2>1. 0 .. new_size + raw_len - 1 = {}
    OBVIOUS
  <2> QED BY <2>1 DEF ReadCovered
<1> QED BY <1>1, <1>2, <1>3, <1>4 DEF LayoutInv

-----------------------------------------------------------------------------
(* A complete download is exact: a short chunk that is not the last of its *)
(* bundle would have been refused, so chunks are where they are expected   *)
(* in their bundles; and then the last chunk of the file fits only when    *)
(* every bundle before it was full.                                        *)
LEMMA InvExact == LayoutInv => DownloadExact
<1> SUFFICES ASSUME LayoutInv, Downloaded PROVE FileCovered /\ \A c \in chunks : RawOffset(c) = c.offset
  BY DEF DownloadExact
<1> USE Sizes
<1>0. LayoutTypeOK /\ raw_len = 0 /\ chunk_count = 0 /\ written = chunks
  BY DEF LayoutInv, Counting, Downloaded, LayoutTypeOK
<1>1. FileCovered
  <2>1. new_size + raw_len - 1 = new_size - 1
    BY <1>0 DEF LayoutTypeOK
  <2> QED BY <2>1 DEF LayoutInv, ReadCovered, FileCovered
<1>2. ASSUME NEW b \in bundles, NEW c \in chunks, c.bundle = b.index
      PROVE  Accepted(b, c)
  BY <1>0, <1>2 DEF LayoutInv, Outcome, BundleRanges
<1>3. ASSUME NEW b \in bundles, NEW c \in chunks, c.bundle = b.index
      PROVE  c.offset = b.start + c.index * C
  <2> SUFFICES ASSUME NEW d \in chunks, FirstShort(b, d), d.offset + d.len < b.start + b.raw_len
               PROVE  FALSE
    BY <1>3 DEF LayoutInv, Chunked, ChunkInBundle, AllBundles
  <2>1. b \in BundleRecords /\ d \in ChunkRecords
    BY <1>0 DEF LayoutTypeOK
  <2>2. d.len = RawLen(b, d)
    BY <1>2 DEF FirstShort, Accepted
  <2> QED BY <2>1, <2>2, Expectation DEF FirstShort, BundleRecords, ChunkRecords
<1>4. ASSUME NEW b \in bundles PROVE b.start = b.index * B
  <2>1. bundle_count > 0 /\ b.index <= bundle_count - 1
    BY <1>0 DEF LayoutInv, BundleRanges, LayoutTypeOK, BundleRecords
  <2>2. PICK l \in bundles : l.index = bundle_count - 1 /\ l.start + l.raw_len = new_size
    BY <2>1 DEF LayoutInv, BundleRanges
  <2>3. PICK c \in chunks : c.bundle = l.index /\ c.offset + c.len = l.start + l.raw_len
    BY DEF LayoutInv, Chunked
  <2>4. l \in BundleRecords /\ b \in BundleRecords /\ c \in ChunkRecords
    BY <1>0 DEF LayoutTypeOK
  <2>5. c.offset = l.start + c.index * C
    BY <1>3, <2>3
  <2>6. RawOffset(c) + c.len <= new_size
    BY <1>2, <2>3 DEF Accepted
  <2>7. l.index * B <= l.start
    BY <2>2, <2>3, <2>4, <2>5, <2>6, Expectation DEF BundleRecords, ChunkRecords
  <2>8. b.start <= b.index * B /\ (b.index < l.index /\ b.start < b.index * B => l.start < l.index * B)
        /\ l.start <= l.index * B
    BY DEF LayoutInv, Places, AllBundles
  <2>9. CASE b.index = l.index
    <3>1. b = l
      BY <2>9 DEF LayoutInv, BundleRanges
    <3> QED BY <3>1, <2>7, <2>8, <2>4 DEF BundleRecords
  <2>10. CASE b.index < l.index
    BY <2>10, <2>7, <2>8, <2>4 DEF BundleRecords
  <2> QED BY <2>1, <2>2, <2>4, <2>9, <2>10, <1>0 DEF BundleRecords, LayoutTypeOK
<1>5. ASSUME NEW c \in chunks PROVE RawOffset(c) = c.offset
  <2>1. PICK b \in bundles : c.bundle = b.index
    BY <1>0 DEF LayoutInv, Outcome
  <2>2. c \in ChunkRecords /\ b \in BundleRecords
    BY <1>0 DEF LayoutTypeOK
  <2> QED BY <2>1, <2>2, <1>3, <1>4, Expectation DEF ChunkRecords, BundleRecords
<1> QED BY <1>1, <1>5

(* Full reads are accepted: no chunk is short before the end of the file,  *)
(* so every bundle and every chunk begins where it is expected.            *)
LEMMA InvFullReads == LayoutInv => FullReadsDownload
<1> SUFFICES ASSUME LayoutInv, FullReads, EndsInBundle,
                    NEW b \in bundles, NEW c \in chunks, c.bundle = b.index
             PROVE  Accepted(b, c)
  BY DEF LayoutInv, Outcome, FullReadsDownload
<1> USE Sizes
<1>0. LayoutTypeOK /\ b \in BundleRecords /\ c \in ChunkRecords
  BY DEF LayoutInv, LayoutTypeOK
<1>1. 0 < b.raw_len /\ b.start + b.raw_len <= new_size /\ 0 < c.len /\ c.len <= C
  BY DEF LayoutInv, BundleRanges, Chunked
<1>2. c.offset + c.len <= b.start + b.raw_len
  BY DEF LayoutInv, Chunked, ChunkInBundle, AllBundles
<1>3. c.offset = b.start + c.index * C
  <2> SUFFICES ASSUME NEW d \in chunks, FirstShort(b, d), d.offset + d.len < b.start + b.raw_len
               PROVE  FALSE
    BY DEF LayoutInv, Chunked, ChunkInBundle, AllBundles
  <2>1. d \in ChunkRecords /\ new_size \in Nat
    BY <1>0 DEF LayoutTypeOK
  <2>2. d.len = C \/ d.offset + d.len = new_size
    BY DEF FullReads, C
  <2> QED BY <2>1, <2>2, <1>0, <1>1 DEF FirstShort, ChunkRecords, BundleRecords
<1>4. b.start = b.index * B
  <2> SUFFICES ASSUME NEW a \in bundles, a.raw_len < B, a.start + a.raw_len <= b.start
               PROVE  FALSE
    BY DEF LayoutInv, Places, AllBundles
  <2>1. a \in BundleRecords /\ new_size \in Nat
    BY <1>0 DEF LayoutTypeOK
  <2>2. a.raw_len = B \/ a.start + a.raw_len = new_size
    BY DEF EndsInBundle, B
  <2> QED BY <2>1, <2>2, <1>0, <1>1 DEF BundleRecords
<1>5. c.len = C \/ c.offset + c.len = new_size
  BY DEF FullReads, C
<1>6. new_size \in Nat
  BY <1>0 DEF LayoutTypeOK
<1> QED BY <1>0, <1>1, <1>2, <1>3, <1>4, <1>5, <1>6, Expectation
        DEF Accepted, BundleRecords, ChunkRecords

-----------------------------------------------------------------------------
(* One read: the new chunk is in the current bundle, and is where it is    *)
(* expected unless a chunk before it was short.                            *)
LEMMA ReadInv ==
  ASSUME LayoutInv, NEW n \in 1 .. VOLUME_RAW_CHUNK_SIZE, Read(n)
  PROVE  LayoutInv'
<1> USE Sizes
<1> DEFINE e == [bundle |-> bundle_count, index |-> chunk_count, offset |-> new_size + raw_len,
                 len |-> n]
<1>0. LayoutTypeOK /\ n \in Nat /\ n > 0 /\ n <= C /\ raw_len + n <= B
  BY DEF LayoutInv, LayoutTypeOK, Read, C, B
<1>1. /\ chunks' = chunks \cup {e} /\ chunk_count' = chunk_count + 1 /\ raw_len' = raw_len + n
      /\ bundles' = bundles /\ bundle_count' = bundle_count /\ new_size' = new_size
      /\ phase = "reading" /\ phase' = phase /\ written' = written /\ first_error' = first_error
      /\ written = {} /\ ~first_error
  BY DEF Read, LayoutInv, Counting
<1>2. /\ e \in ChunkRecords /\ e \in chunks' /\ e.bundle = bundle_count /\ e.index = chunk_count
      /\ e.offset = new_size + raw_len /\ e.len = n
  BY <1>0, <1>1 DEF LayoutTypeOK, ChunkRecords
<1> HIDE DEF e
<1>3. /\ Current.index = bundle_count /\ Current.start = new_size /\ Current.raw_len = raw_len
      /\ Current'.index = bundle_count /\ Current'.start = new_size
      /\ Current'.raw_len = raw_len + n
  BY <1>1 DEF Current
<1>4. LayoutTypeOK'
  BY <1>0, <1>1, <1>2 DEF LayoutTypeOK
<1>5. (chunk_count + 1) * C = chunk_count * C + C
  BY <1>0 DEF LayoutTypeOK
<1>6. Counting'
  <2>1. raw_len' <= B /\ raw_len' <= chunk_count' * C /\ raw_len' > 0
    BY <1>0, <1>1, <1>5 DEF LayoutInv, Counting, LayoutTypeOK
  <2>2. raw_len' = chunk_count' * C \/ \E d \in chunks' : FirstShort(Current', d)
    <3>1. CASE raw_len = chunk_count * C /\ n = C
      BY <3>1, <1>1, <1>5
    <3>2. CASE raw_len = chunk_count * C /\ n < C
      <4>1. FirstShort(Current', e)
        BY <3>2, <1>0, <1>2, <1>3 DEF FirstShort, LayoutTypeOK
      <4> QED BY <4>1, <1>2
    <3>3. CASE raw_len # chunk_count * C
      <4>1. PICK d \in chunks : FirstShort(Current, d)
        BY <3>3 DEF LayoutInv, Counting
      <4>2. FirstShort(Current', d)
        BY <4>1, <1>3 DEF FirstShort
      <4> QED BY <4>2, <1>1
    <3> QED BY <3>1, <3>2, <3>3, <1>0
  <2> QED BY <2>1, <2>2, <1>1 DEF Counting, FirstShort
<1>7. BundleRanges'
  BY <1>1 DEF LayoutInv, BundleRanges
<1>8. ASSUME NEW b \in AllBundles'
      PROVE  \E a \in AllBundles : /\ a.index = b.index /\ a.start = b.start
                                   /\ a.raw_len <= b.raw_len
                                   /\ a = b \/ (a = Current /\ b = Current')
  BY <1>0, <1>1, <1>3 DEF AllBundles, LayoutTypeOK, BundleRecords
<1>9. Places'
  <2>1. \A b \in AllBundles' : b.start <= b.index * B
    BY <1>8 DEF LayoutInv, Places
  <2>2. \A b \in AllBundles' : b.start = b.index * B
          \/ \E a \in bundles' : a.raw_len < B /\ a.start + a.raw_len <= b.start
    BY <1>8, <1>1 DEF LayoutInv, Places
  <2>3. \A a, b \in AllBundles' :
          (a.index < b.index /\ a.start < a.index * B) => b.start < b.index * B
    BY <1>8 DEF LayoutInv, Places
  <2> QED BY <2>1, <2>2, <2>3 DEF Places
<1>10. Chunked'
  <2>1. ASSUME NEW c \in chunks'
        PROVE  0 < c.len /\ c.len <= C /\ \E b \in AllBundles' : c.bundle = b.index
    <3>1. CASE c = e
      BY <3>1, <1>0, <1>2, <1>3 DEF AllBundles
    <3>2. CASE c \in chunks
      <4>1. PICK b \in AllBundles : c.bundle = b.index
        BY <3>2 DEF LayoutInv, Chunked
      <4>2. \E a \in AllBundles' : c.bundle = a.index
        BY <4>1, <1>1, <1>3 DEF AllBundles
      <4> QED BY <3>2, <4>2 DEF LayoutInv, Chunked
    <3> QED BY <3>1, <3>2, <1>1
  <2>2. ASSUME NEW b \in AllBundles', NEW c \in chunks', c.bundle = b.index
        PROVE  ChunkInBundle(b, c)'
    <3>1. PICK a \in AllBundles : /\ a.index = b.index /\ a.start = b.start
                                  /\ a.raw_len <= b.raw_len
                                  /\ a = b \/ (a = Current /\ b = Current')
      BY <1>8
    <3>2. /\ a.start \in Nat /\ a.raw_len \in Nat /\ b.raw_len \in Nat /\ b.start \in Nat
      BY <1>0, <1>1, <3>1, <1>3 DEF AllBundles, LayoutTypeOK, BundleRecords, Current
    <3>3. CASE c \in chunks
      <4>1. ChunkInBundle(a, c)
        BY <3>1, <3>3, <2>2 DEF LayoutInv, Chunked
      <4>2. c \in ChunkRecords
        BY <3>3, <1>0 DEF LayoutTypeOK
      <4>3. b.start <= c.offset /\ c.offset + c.len <= b.start + b.raw_len
        BY <4>1, <4>2, <3>1, <3>2 DEF ChunkInBundle, ChunkRecords
      <4>4. ASSUME NEW d \in chunks, FirstShort(a, d), d.offset + d.len < a.start + a.raw_len
            PROVE  FirstShort(b, d) /\ d.offset + d.len < b.start + b.raw_len
        <5>1. d \in ChunkRecords
          BY <1>0 DEF LayoutTypeOK
        <5> QED BY <5>1, <4>4, <3>1, <3>2 DEF FirstShort, ChunkRecords
      <4> QED BY <4>1, <4>3, <4>4, <3>1, <1>1 DEF ChunkInBundle, FirstShort
    <3>4. CASE c = e
      <4>1. b.index = bundle_count
        BY <3>4, <2>2, <1>2
      <4>2. b = Current' /\ a = Current
        BY <4>1, <3>1, <1>0, <1>1, <1>3 DEF AllBundles, LayoutInv, BundleRanges, LayoutTypeOK, BundleRecords
      <4>3. b.start <= e.offset /\ e.offset + e.len <= b.start + b.raw_len
        BY <4>2, <1>0, <1>2, <1>3 DEF LayoutTypeOK
      <4>4. CASE raw_len = chunk_count * C
        BY <4>4, <4>3, <4>2, <3>4, <1>2, <1>3 DEF ChunkInBundle
      <4>5. CASE raw_len # chunk_count * C
        <5>1. PICK d \in chunks : FirstShort(Current, d)
          BY <4>5 DEF LayoutInv, Counting
        <5>2. ChunkInBundle(Current, d) /\ d \in ChunkRecords
          BY <5>1, <1>0 DEF LayoutInv, Chunked, AllBundles, FirstShort, LayoutTypeOK
        <5>3. d.offset + d.len < b.start + b.raw_len
          BY <5>2, <4>2, <1>0, <1>3 DEF ChunkInBundle, ChunkRecords, LayoutTypeOK
        <5>4. FirstShort(b, d)
          BY <5>1, <4>2, <1>3 DEF FirstShort
        <5> QED BY <5>3, <5>4, <4>3, <3>4, <1>1 DEF ChunkInBundle, FirstShort
      <4> QED BY <4>4, <4>5
    <3> QED BY <3>3, <3>4, <1>1
  <2>3. \A b \in bundles' : \E c \in chunks' : c.bundle = b.index
                              /\ c.offset + c.len = b.start + b.raw_len
    BY <1>1 DEF LayoutInv, Chunked
  <2> QED BY <2>1, <2>2, <2>3 DEF Chunked
<1>11. LastRead'
  BY <1>0, <1>1, <1>2 DEF LastRead, LayoutTypeOK
<1>12. ReadCovered'
  <2> SUFFICES ASSUME NEW x \in 0 .. new_size + (raw_len + n) - 1
               PROVE  \E c \in chunks' : c.offset <= x /\ x < c.offset + c.len
    BY <1>1 DEF ReadCovered
  <2>1. CASE x < new_size + raw_len
    <3>1. x \in 0 .. new_size + raw_len - 1
      BY <2>1, <1>0 DEF LayoutTypeOK
    <3> QED BY <3>1, <1>1 DEF LayoutInv, ReadCovered
  <2>2. CASE x >= new_size + raw_len
    BY <2>2, <1>0, <1>2 DEF LayoutTypeOK
  <2> QED BY <2>1, <2>2, <1>0 DEF LayoutTypeOK
<1>13. Outcome'
  BY <1>1 DEF Outcome
<1> QED BY <1>4, <1>6, <1>7, <1>9, <1>10, <1>11, <1>12, <1>13 DEF LayoutInv

(* The bundle ends: the record it was becomes one of the bundles, and the  *)
(* next begins at its place only when this one did and was full.           *)
LEMMA EndBundleInv == ASSUME LayoutInv, EndBundle PROVE LayoutInv'
<1> USE Sizes
<1>0. LayoutTypeOK /\ raw_len > 0 /\ raw_len <= B
  BY DEF LayoutInv, LayoutTypeOK, Counting, EndBundle
<1>1. /\ bundles' = AllBundles /\ chunks' = chunks /\ bundle_count' = bundle_count + 1
      /\ new_size' = new_size + raw_len /\ chunk_count' = 0 /\ raw_len' = 0
      /\ phase = "reading" /\ phase' = phase /\ written' = written /\ first_error' = first_error
      /\ written = {} /\ ~first_error
  BY DEF EndBundle, AllBundles, Current, LayoutInv, Counting
<1>2. /\ Current \in BundleRecords /\ Current \in AllBundles
      /\ Current.index = bundle_count /\ Current.start = new_size /\ Current.raw_len = raw_len
      /\ Current'.index = bundle_count + 1 /\ Current'.start = new_size + raw_len
      /\ Current'.raw_len = 0
  BY <1>0, <1>1 DEF Current, AllBundles, BundleRecords, LayoutTypeOK
<1>3. AllBundles' = AllBundles \cup {Current'} /\ AllBundles \subseteq BundleRecords
  BY <1>0, <1>1, <1>2 DEF AllBundles, LayoutTypeOK
<1>4. LayoutTypeOK'
  BY <1>0, <1>1, <1>3 DEF LayoutTypeOK
<1>5. Counting' /\ LastRead' /\ Outcome'
  BY <1>0, <1>1 DEF Counting, LastRead, Outcome, LayoutTypeOK
<1>6. \A b \in AllBundles : b.index <= bundle_count /\ b.start + b.raw_len <= new_size + raw_len
                            /\ 0 < b.raw_len /\ b.raw_len <= B /\ (b.index = bundle_count => b = Current)
  BY <1>0, <1>2 DEF AllBundles, LayoutInv, BundleRanges, LayoutTypeOK, BundleRecords
<1>7. BundleRanges'
  <2>1. \A b \in AllBundles : b.index < bundle_count + 1 /\ 0 < b.raw_len /\ b.raw_len <= B
                              /\ b.start + b.raw_len <= new_size + raw_len
    BY <1>0, <1>3, <1>6 DEF LayoutTypeOK, BundleRecords
  <2>2. \E b \in AllBundles : b.index = (bundle_count + 1) - 1
                              /\ b.start + b.raw_len = new_size + raw_len
    BY <1>0, <1>2 DEF LayoutTypeOK
  <2>3. \A a, b \in AllBundles : a.index = b.index => a = b
    BY <1>2, <1>6 DEF AllBundles, LayoutInv, BundleRanges
  <2> QED BY <2>1, <2>2, <2>3, <1>1 DEF BundleRanges
<1>8. (bundle_count + 1) * B = bundle_count * B + B
  BY <1>0 DEF LayoutTypeOK
<1>9. Places'
  <2>1. \A b \in AllBundles : b.start <= b.index * B
    BY DEF LayoutInv, Places
  <2>2. new_size <= bundle_count * B
    BY <2>1, <1>2
  <2>3. \A b \in AllBundles' : b.start <= b.index * B
    BY <2>1, <2>2, <1>0, <1>2, <1>3, <1>8 DEF LayoutTypeOK
  <2>4. ASSUME NEW b \in AllBundles'
        PROVE  b.start = b.index * B
               \/ \E a \in bundles' : a.raw_len < B /\ a.start + a.raw_len <= b.start
    <3>1. CASE b \in AllBundles
      BY <3>1, <1>1 DEF LayoutInv, Places, AllBundles
    <3>2. CASE b = Current' /\ new_size = bundle_count * B /\ raw_len = B
      BY <3>2, <1>0, <1>2, <1>8 DEF LayoutTypeOK
    <3>3. CASE b = Current' /\ raw_len # B
      BY <3>3, <1>0, <1>1, <1>2 DEF LayoutTypeOK
    <3>4. CASE b = Current' /\ new_size # bundle_count * B
      <4>1. PICK a \in bundles : a.raw_len < B /\ a.start + a.raw_len <= new_size
        BY <3>4, <1>2 DEF LayoutInv, Places
      <4>2. a \in bundles' /\ a \in BundleRecords
        BY <1>1, <1>3 DEF AllBundles
      <4> QED BY <3>4, <4>1, <4>2, <1>0, <1>2 DEF LayoutTypeOK, BundleRecords
    <3> QED BY <3>1, <3>2, <3>3, <3>4, <1>3
  <2>5. ASSUME NEW a \in AllBundles', NEW b \in AllBundles',
               a.index < b.index, a.start < a.index * B
        PROVE  b.start < b.index * B
    <3>1. a \in AllBundles
      BY <2>5, <1>0, <1>2, <1>3, <1>6 DEF LayoutTypeOK, BundleRecords
    <3>2. CASE b \in AllBundles
      BY <3>1, <3>2, <2>5 DEF LayoutInv, Places
    <3>3. CASE b = Current'
      <4>1. new_size < bundle_count * B
        <5>1. CASE a = Current
          BY <5>1, <2>5, <1>2
        <5>2. CASE a # Current
          <6>1. a.index < bundle_count
            BY <5>2, <3>1, <1>0, <1>3, <1>6 DEF LayoutTypeOK, BundleRecords
          <6> QED BY <6>1, <2>5, <3>1, <1>2 DEF LayoutInv, Places
        <5> QED BY <5>1, <5>2
      <4> QED BY <4>1, <3>3, <1>0, <1>2, <1>8 DEF LayoutTypeOK
    <3> QED BY <3>2, <3>3, <1>3
  <2> QED BY <2>3, <2>4, <2>5 DEF Places
<1>10. Chunked'
  <2>1. \A c \in chunks : 0 < c.len /\ c.len <= C /\ \E b \in AllBundles' : c.bundle = b.index
    BY <1>3 DEF LayoutInv, Chunked
  <2>2. ASSUME NEW b \in AllBundles', NEW c \in chunks, c.bundle = b.index
        PROVE  ChunkInBundle(b, c)'
    <3>1. PICK a \in AllBundles : c.bundle = a.index
      BY DEF LayoutInv, Chunked
    <3>2. b \in AllBundles
      <4>1. a.index \in Nat /\ a.index <= bundle_count /\ bundle_count \in Nat
        BY <1>0, <1>3, <1>6 DEF LayoutTypeOK, BundleRecords
      <4>2. b.index # bundle_count + 1
        BY <4>1, <3>1, <2>2
      <4> QED BY <4>2, <1>2, <1>3
    <3>3. ChunkInBundle(b, c)
      BY <3>2, <2>2 DEF LayoutInv, Chunked
    <3> QED BY <3>3, <1>1 DEF ChunkInBundle, FirstShort
  <2>3. \A b \in AllBundles : \E c \in chunks : c.bundle = b.index
                                /\ c.offset + c.len = b.start + b.raw_len
    BY <1>0, <1>2 DEF AllBundles, LayoutInv, Chunked, LastRead
  <2> QED BY <2>1, <2>2, <2>3, <1>1 DEF Chunked
<1>11. ReadCovered'
  <2>1. new_size' + raw_len' - 1 = new_size + raw_len - 1
    BY <1>0, <1>1 DEF LayoutTypeOK
  <2> QED BY <2>1, <1>1 DEF LayoutInv, ReadCovered
<1> QED BY <1>4, <1>5, <1>7, <1>9, <1>10, <1>11 DEF LayoutInv

(* The end of the file and the steps of a download leave the layout alone. *)
LEMMA SameLayout ==
  ASSUME LayoutInv,
         UNCHANGED <<chunks, bundles, bundle_count, chunk_count, raw_len, new_size>>
  PROVE  /\ BundleRanges' /\ Places' /\ Chunked' /\ LastRead' /\ ReadCovered'
         /\ AllBundles' = AllBundles
         /\ \A b, c : Accepted(b, c)' <=> Accepted(b, c)
<1>1. Current' = Current /\ AllBundles' = AllBundles
  BY DEF Current, AllBundles
<1>2. BundleRanges' /\ LastRead' /\ ReadCovered'
  BY DEF LayoutInv, BundleRanges, LastRead, ReadCovered
<1>3. Places'
  BY <1>1 DEF LayoutInv, Places
<1>4. Chunked'
  BY <1>1 DEF LayoutInv, Chunked, ChunkInBundle, FirstShort
<1>5. \A b, c : Accepted(b, c)' <=> Accepted(b, c)
  BY DEF Accepted, RawOffset, RawLen, Left
<1> QED BY <1>1, <1>2, <1>3, <1>4, <1>5

LEMMA EndFileInv == ASSUME LayoutInv, EndFile PROVE LayoutInv'
<1>1. UNCHANGED <<chunks, bundles, bundle_count, chunk_count, raw_len, new_size>>
  BY DEF EndFile
<1>2. LayoutTypeOK'
  BY DEF LayoutInv, LayoutTypeOK, EndFile
<1>3. Counting'
  BY DEF LayoutInv, Counting, EndFile, FirstShort, Current
<1>4. Outcome'
  BY <1>1, SameLayout DEF LayoutInv, Counting, Outcome, EndFile
<1> QED BY <1>1, <1>2, <1>3, <1>4, SameLayout DEF LayoutInv

LEMMA DownloadInv ==
  ASSUME LayoutInv, NEW b \in bundles, NEW c \in chunks, Download(b, c)
  PROVE  LayoutInv'
<1>1. UNCHANGED <<chunks, bundles, bundle_count, chunk_count, raw_len, new_size>>
      /\ phase = "uploaded" /\ phase' = phase
  BY DEF Download
<1>2. LayoutTypeOK'
  BY DEF LayoutInv, LayoutTypeOK, Download
<1>3. Counting'
  BY <1>1 DEF LayoutInv, Counting, FirstShort, Current
<1>4. Outcome'
  <2>1. \A d \in written' : \E a \in bundles : d.bundle = a.index /\ Accepted(a, d)
    BY DEF LayoutInv, Outcome, Download
  <2>2. first_error' => \E a \in bundles, d \in chunks : d.bundle = a.index /\ ~Accepted(a, d)
    BY DEF LayoutInv, Outcome, Download
  <2> QED BY <2>1, <2>2, <1>1, SameLayout DEF Outcome
<1> QED BY <1>1, <1>2, <1>3, <1>4, SameLayout DEF LayoutInv

LEMMA LayoutStutterInv == ASSUME LayoutInv, UNCHANGED layoutVars PROVE LayoutInv'
<1>1. UNCHANGED <<chunks, bundles, bundle_count, chunk_count, raw_len, new_size>>
      /\ phase' = phase /\ written' = written /\ first_error' = first_error
  BY DEF layoutVars
<1>2. LayoutTypeOK' /\ Counting'
  BY <1>1 DEF LayoutInv, LayoutTypeOK, Counting, FirstShort, Current
<1>3. Outcome'
  BY <1>1, SameLayout DEF LayoutInv, Outcome
<1> QED BY <1>1, <1>2, <1>3, SameLayout DEF LayoutInv

(* Whatever the reads of an upload returned (upload_file_inner), a         *)
(* download that wrote every chunk (download_file_chunks) has the bytes of *)
(* the file in their places; one of a file read in full never fails for    *)
(* its layout.                                                             *)
THEOREM LayoutSound == LayoutSpec => [](DownloadExact /\ FullReadsDownload)
<1>1. LayoutInit => LayoutInv
  BY LayoutInitInv
<1>2. LayoutInv /\ [LayoutNext]_layoutVars => LayoutInv'
  BY ReadInv, EndBundleInv, EndFileInv, DownloadInv, LayoutStutterInv DEF LayoutNext
<1>3. LayoutInv => DownloadExact /\ FullReadsDownload
  BY InvExact, InvFullReads
<1> QED BY <1>1, <1>2, <1>3, PTL DEF LayoutSpec
=============================================================================
